\* An amount of 3 with a fee of 1/10 keeps every rounding of the pool and
\* of the fee router in play; orders and shares move no asset.
CONSTANTS
    gov = gov
    user = user
    Actors = {gov, user}
    Governance = gov
    MintAuthority = gov
    Amounts = {0, 3}
    Fees = {1}
    InitialBalance = 6
    MaxUint64 = 30
    MaxTime = 2
    DebtCeiling = 6
    EpochMintLimit = 6
    MintEpoch = 1
    BipsDenominator = 10
    GenesisRisk <- MCRisk
    RiskInputs <- MCRiskInputs
    GenesisReserve = 10
    ReserveInputs = {10}
    AssetInputs = {0, 1}
    PoolFees = {1}
    MaxPoolFeeBips = 1
    Minima = {0}
    MSRBBips = 7
    COLBips = 2
    OpsBips = 1
    MaxReleaseBips = 4
    ReleaseEpoch = 1
    COLVaultLocked = 8
    COLVaultLive = 1
    Markets = {m1}
    Windows = {1}
    Validators = {0}
    DisputeIndex = 99
    Orders = {}
    Shares = {}
    Bonds = {2}
    OutcomeCounts = {2}
SPECIFICATION EconomySpec
INVARIANTS
    SupplyFixed
CHECK_DEADLOCK FALSE
