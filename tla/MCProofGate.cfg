\* One market and one window; configurations that change, nodes that restart,
\* and every way a blob, a hash or a close time can be wrong.
CONSTANTS
    gov = gov
    prover = prover
    m1 = m1
    f1 = f1
    f2 = f2
    zero = zero
    Actors = {gov, prover}
    Markets = {m1}
    Windows = {1}
    Validators = {}
    DisputeIndex = 99
    Orders = {}
    Shares = {}
    Bonds = {1}
    OutcomeCounts = {2}
    InitialBalance = 1
    MaxTime = 4
    Governance = gov
    ZeroAddress = zero
    GenesisProofConfigs <- MCGenesis
    ConfigInputs <- MCConfigs
    NodeConfigs <- MCNodes
    Blobs <- MCBlobs
    InputsHashes <- MCHashes
    CloseTimes = {0, 2, 3, 4}
    Prices = {0, 1}
    Volumes = {0, 1}
    FillsHashes = {f1, f2}
    MaxInt64 = 7
    MaxProofBytesSize = 9
    MaxProofCircuitIDLen = 2
SPECIFICATION Spec
INVARIANTS
    GateTypeOK
    SettledMatchesProof
PROPERTIES
    GatedResultIsFinal
    ProofsTimelyAndFinal
    ClaimSurvives
    SettlementFrozen
    ImplementsSettlement
