\* A year of three blocks, quarter-coin dust, four coins.
CONSTANTS
    One = 4
    BlocksPerYear = 3
    Word = 32
    Rates <- MCRates
    Values <- MCValues
    Amounts <- MCAmounts
    Supply = 4
SPECIFICATION FairSpec
INVARIANTS
    TypeOK
    DustIsFraction
    ValueBacked
PROPERTIES
    PaysWhenFunded
    PoolSettled
    PoolDrains
    ClaimKept
