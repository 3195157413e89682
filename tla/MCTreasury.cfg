\* With 127 for the largest uint64, routing 19 or more wraps the 7/10 product;
\* a release of 10 and one of 3 together exceed the 4/10 of a vault of 30.
CONSTANTS
    gov = gov
    payer = payer
    Actors = {gov, payer}
    Governance = gov
    Amounts = {0, 3, 10, 20}
    Fees = {}
    InitialBalance = 26
    MaxUint64 = 127
    MaxTime = 4
    MSRBBips = 7
    COLBips = 2
    OpsBips = 1
    MaxReleaseBips = 4
    ReleaseEpoch = 2
    BipsDenominator = 10
    COLVaultLocked = 30
    COLVaultLive = 5
SPECIFICATION TreasurySpec
INVARIANTS
    TreasuryTypeOK
    FeesConserved
    COLConserved
    ReleaseRateBounded
CHECK_DEADLOCK FALSE
