\* Five timestamps hold two mint epochs of two and the next; reserves of 3 and
\* 5 back up to 5 of debt at a floor of 10 and less at 20; small debts exceed
\* the largest ratio that fits.
CONSTANTS
    gov = gov
    holder = holder
    Actors = {gov, holder}
    Governance = gov
    MintAuthority = gov
    Amounts = {0, 1, 2, 3}
    Fees = {}
    InitialBalance = 0
    MaxUint64 = 20
    MaxTime = 5
    DebtCeiling = 5
    EpochMintLimit = 2
    MintEpoch = 2
    BipsDenominator = 10
    GenesisRisk <- MCGenesisRisk
    RiskInputs <- MCRiskInputs
    GenesisReserve = 5
    ReserveInputs = {3, 5}
SPECIFICATION VaiSpec
INVARIANTS
    MintRateBounded
    ReserveReplyAgrees
PROPERTIES
    BackingLostOnlyByGovernance
