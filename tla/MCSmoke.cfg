\* Three runs, so that transactions of one arrive during another.  A
\* deposit of 4 and a swap of 3 are the least that a fee of 1/10 leaves an
\* output; the ceiling has room for all mints.  The end of a mint epoch of 30
\* wraps, so that every mint starts an epoch.
CONSTANTS
    gov = gov
    Actors = {gov}
    Governance = gov
    MintAuthority = gov
    Amounts = {3, 4}
    Fees = {}
    InitialBalance = 24
    MaxUint64 = 60
    MaxTime = 1
    DebtCeiling = 12
    EpochMintLimit = 12
    MintEpoch = 30
    BipsDenominator = 10
    GenesisRisk <- MCRisk
    RiskInputs <- MCRiskInputs
    GenesisReserve = 12
    ReserveInputs = {12}
    AssetInputs = {0, 1}
    PoolFees = {1}
    MaxPoolFeeBips = 1
    Minima = {1}
    SmokeFee = 1
    Deposit = 4
    SwapIn = 3
    MaxPolls = 1
    MaxRuns = 3
SPECIFICATION SmokeSpec
INVARIANTS
    CleanReportMeansTraded
PROPERTIES
    SmokeEnds
CHECK_DEADLOCK FALSE
