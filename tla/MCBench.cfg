\* One market and two windows, one poll per wait.  The client is not the
\* governance, so set_proof_config needs its second signer.  The client ends.
\* A deadline of 1 is moved to 4; one of 3 is kept, and leaves 1 beyond the
\* window.
CONSTANTS
    gov = gov
    client = client
    m1 = m1
    o1 = o1
    s1 = s1
    f1 = f1
    zero = zero
    Actors = {gov, client}
    Markets = {m1}
    Windows = {1, 2}
    Validators = {1}
    DisputeIndex = 99
    Orders = {o1}
    Shares = {s1}
    Bonds = {1}
    OutcomeCounts = {2}
    InitialBalance = 1
    MaxTime = 5
    Governance = gov
    ZeroAddress = zero
    GenesisProofConfigs <- MCGenesisConfigs
    ConfigInputs = {}
    NodeConfigs <- MCNodes
    Blobs = {}
    InputsHashes = {}
    CloseTimes = {}
    Prices = {1}
    Volumes = {1}
    FillsHashes = {f1}
    MaxInt64 = 20
    Client = client
    Provers = {client, gov}
    MarketSeq <- MCMarketSeq
    WindowsPerSize = 2
    ConfigSigner = client
    FallbackSigner = gov
    HasRefuel = TRUE
    ProofModes = {"synthetic", "groth16"}
    TamperModes = {"", "truncate", "flip-last-byte"}
    BatchWindow = 2
    DeadlineInputs = {1, 3}
    Margin = 2
    HeightPolls = 1
    ResultPolls = 1
    TheOrder = o1
    TheShare = s1
    TheFills = f1
SPECIFICATION BenchSpec
INVARIANTS
    AppliedInOrder
    ReportedIsSettled
    FreshProofInTime
    OnlyGenuineVerified
PROPERTIES
    BenchEnds
CHECK_DEADLOCK FALSE
