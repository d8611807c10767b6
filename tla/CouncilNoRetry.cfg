\* A minimum execution period longer than the voting period.
CONSTANTS
    Operators = {"o1", "o2"}
    Authority = "council"
    Messages <- MCOneMessage
    GenesisLists <- MCGenesisLists
    Members = {m1, m2, m3}
    Threshold = 2
    VotingPeriod = 1
    MinExecutionPeriod = 3
    MaxExecutionPeriod = 2
    PageLimit = 100
    ExecModes = {"UNSPECIFIED"}
    CarriedExec = FALSE
    MaxProposals = 1
    MaxStep = 2
SYMMETRY MembersSymmetry
SPECIFICATION Spec
INVARIANT ExecutedWhenDue
