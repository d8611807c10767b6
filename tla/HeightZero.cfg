\* Four units to a coin, half of the fees for commission.
CONSTANTS
    v1 = v1
    v2 = v2
    d1 = d1
    d2 = d2
    d3 = d3
    One = 4
    Validators = {v1, v2}
    Delegations = {d1, d2, d3}
    ValidatorOf <- MCValidatorOf
    Shares <- MCShares
    CommissionRate = 2
    MaxPeriod = 7
    Fees = 10
    BlockFees = {0, 5}
    SlashAmounts = {0, 1, 3}
    AllowedLists <- MCAllowedLists
    MaxValidators = 1
    PowerReduction = 2
    AddressOf <- MCAddressOf
    MaxHeight = 2
SPECIFICATION Spec
CHECK_DEADLOCK FALSE
INVARIANTS
    TypeOK
    NoPanic
    AccountHoldsAll
    ReferencesMatch
    OutstandingCovers
PROPERTY ExportPaysPending
