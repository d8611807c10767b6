\* More accepted proposals than a page holds.
CONSTANTS
    Operators = {"o1", "o2"}
    Authority = "council"
    Messages <- MCMessages
    GenesisLists <- MCGenesisLists
    Members = {m1, m2, m3}
    Threshold = 2
    VotingPeriod = 2
    MinExecutionPeriod = 0
    MaxExecutionPeriod = 2
    PageLimit = 1
    ExecModes = {"UNSPECIFIED"}
    CarriedExec = FALSE
    MaxProposals = 2
    MaxStep = 2
SYMMETRY MembersSymmetry
SPECIFICATION Spec
INVARIANT SettledAtBlockEnd
