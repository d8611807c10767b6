CONSTANTS
    Operators = {"o1", "o2"}
    Candidates = {"o1", "o2", "o3", "o4"}
    Authority = "council"
    Messages <- MCMessages
    GenesisMax = 2
    Commands <- MCCommands
    Keys <- MCKeys
    Balance = 5
    DefaultStake = 1
SPECIFICATION TestnetSpec
\* The bound on keys lets the command be given only a few times.
CHECK_DEADLOCK FALSE
INVARIANTS
    TypeOK
    CheckedAreWhitelisted
    PanicsOnlyUnlisted
    CanonicalGenesis
    RefusedOnlyForLeftovers
    TestnetNeedsEntries
PROPERTY EntriesKept
