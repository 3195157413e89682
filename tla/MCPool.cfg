\* A fee of 1/10.  First deposits of 4 and 4 overflow the product, so that
\* the error path is met; epochs of minting are left to MCVai.
CONSTANTS
    gov = gov
    trader = trader
    Actors = {gov, trader}
    Governance = gov
    MintAuthority = gov
    Amounts = {0, 1, 2, 4}
    Fees = {}
    InitialBalance = 5
    MaxUint64 = 15
    MaxTime = 1
    DebtCeiling = 7
    EpochMintLimit = 7
    MintEpoch = 1
    BipsDenominator = 10
    GenesisRisk <- MCRisk
    RiskInputs <- MCRiskInputs
    GenesisReserve = 15
    ReserveInputs = {15}
    AssetInputs = {0, 1, 2}
    PoolFees = {0, 1, 5}
    MaxPoolFeeBips = 4
    Minima = {0, 2}
SPECIFICATION PoolSpec
INVARIANTS
    SharesAreBacked
    AssetsConserved
PROPERTIES
    ShareValueNeverFalls
CHECK_DEADLOCK FALSE
