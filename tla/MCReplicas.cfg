\* Two windows of one market under two provers; the third validator may run
\* with or without a verifier.
CONSTANTS
    gov = gov
    prover = prover
    m1 = m1
    f1 = f1
    zero = zero
    n1 = n1
    n2 = n2
    n3 = n3
    Actors = {gov, prover}
    Markets = {m1}
    Windows = {1, 2}
    Validators = {}
    DisputeIndex = 99
    Orders = {}
    Shares = {}
    Bonds = {1}
    OutcomeCounts = {2}
    InitialBalance = 1
    MaxTime = 2
    Governance = gov
    ZeroAddress = zero
    GenesisProofConfigs <- MCGenesis
    ConfigInputs <- MCConfigs
    NodeConfigs <- MCNodes
    Blobs <- MCBlobs
    InputsHashes <- MCHashes
    CloseTimes = {2}
    Prices = {1}
    Volumes = {1}
    FillsHashes = {f1}
    MaxInt64 = 7
    Nodes = {n1, n2, n3}
    Quorums <- Majorities
    Verifying = {n1, n2}
SYMMETRY Interchangeable
SPECIFICATION ReplicasSpec
INVARIANTS
    ProvenByQuorum
    ProofArtifactsAgree
    BloodswornCounts
PROPERTIES
    VerifyingStayInStep
    ChainIsThatOfOneNode
