\* Submissions, votes and carried messages that execute at once, and a wait they
\* do not meet.  Two members, both needed; no symmetry under a liveness property.
CONSTANTS
    Operators = {"o1", "o2"}
    Authority = "council"
    Messages <- MCOneMessage
    GenesisLists <- MCGenesisLists
    Members = {m1, m2}
    Threshold = 2
    VotingPeriod = 1
    MinExecutionPeriod = 1
    MaxExecutionPeriod = 2
    PageLimit = 100
    ExecModes = {"UNSPECIFIED", "TRY"}
    CarriedExec = TRUE
    MaxProposals = 2
    MaxStep = 2
SPECIFICATION FairSpec
INVARIANTS
    SettledAtBlockEnd
PROPERTY PassedIsTried
