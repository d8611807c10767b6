\* A pool that cannot pay what is due.
CONSTANTS
    One = 4
    BlocksPerYear = 3
    Word = 32
    Rates <- MCRates
    Values <- MCValues
    Amounts <- MCAmounts
    Supply = 5
SPECIFICATION Spec
PROPERTY ShortPoolKeepsYield
