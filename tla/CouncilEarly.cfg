\* The TRY mode.
CONSTANTS
    Operators = {"o1", "o2"}
    Authority = "council"
    Messages <- MCOneMessage
    GenesisLists <- MCGenesisLists
    Members = {m1, m2, m3}
    Threshold = 2
    VotingPeriod = 2
    MinExecutionPeriod = 0
    MaxExecutionPeriod = 2
    PageLimit = 100
    ExecModes = {"UNSPECIFIED", "TRY"}
    CarriedExec = FALSE
    MaxProposals = 2
    MaxStep = 2
SPECIFICATION Spec
INVARIANT NotBeforeVotingEnds
