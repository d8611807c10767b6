\* A restart from an exported genesis.
CONSTANTS
    One = 4
    BlocksPerYear = 3
    Word = 32
    Rates <- MCRates
    Values <- MCValues
    Amounts <- MCAmounts
    Supply = 5
SPECIFICATION Spec
PROPERTY ExportKeepsState
