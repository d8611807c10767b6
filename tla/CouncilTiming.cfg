\* The council of three, with the timing the decorator enforces.
CONSTANTS
    Operators = {"o1", "o2"}
    Authority = "council"
    Messages <- MCMessages
    GenesisLists <- MCGenesisLists
    Members = {m1, m2, m3}
    Threshold = 2
    VotingPeriod = 2
    MinExecutionPeriod = 0
    MaxExecutionPeriod = 2
    PageLimit = 100
    ExecModes = {"UNSPECIFIED"}
    CarriedExec = FALSE
    MaxProposals = 2
    MaxStep = 2
SYMMETRY MembersSymmetry
SPECIFICATION Spec
INVARIANTS
    TypeOK
    VotingStaysOpen
    NotBeforeVotingEnds
    SettledAtBlockEnd
    ExecutedWhenDue
    ExecutionsStand
