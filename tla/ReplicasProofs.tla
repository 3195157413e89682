---------------------------- MODULE ReplicasProofs ----------------------------
(***************************************************************************)
(* Proofs about validators with different verifiers, for every number of   *)
(* validators, every quorum system and every choice of the validators that *)
(* verify.                                                                 *)
(***************************************************************************)
EXTENDS Replicas, TLAPS

(* The validators that verify have a verifier, also after a restart. *)
VerifiersUp ==
    /\ DOMAIN fleet = Nodes
    /\ \A n \in Verifying : fleet[n].installed

LEMMA InstalledWhenEnabled ==
  ASSUME NEW n \in Verifying, NEW m, NEW cfg \in ConfigsOf(n)
  PROVE  Node(m)!InstallBatchProofVerifier(cfg).installed
  BY DEF ConfigsOf, Node!InstallBatchProofVerifier

LEMMA VerifiersUpInit == ReplicasInit => VerifiersUp
<1> SUFFICES ASSUME ReplicasInit PROVE VerifiersUp
  OBVIOUS
<1>1. PICK cfg \in [Nodes -> Node(AnyNode)!StartableConfigs] :
          /\ \A n \in Nodes : cfg[n] \in ConfigsOf(n)
          /\ fleet = [n \in Nodes |-> Node(n)!InstallBatchProofVerifier(cfg[n])]
  BY DEF ReplicasInit
<1>2. ASSUME NEW n \in Verifying PROVE fleet[n].installed
  <2>1. n \in Nodes
    BY ReplicasAssumption
  <2>. QED  BY <1>1, <2>1, InstalledWhenEnabled
<1>. QED  BY <1>1, <1>2 DEF VerifiersUp

LEMMA FleetStep ==
  ASSUME [ReplicasNext]_replicaVars
  PROVE  \/ UNCHANGED fleet
         \/ \E n \in Nodes : \E cfg \in ConfigsOf(n) : RestartNode(n, cfg)
<1>1. CASE CommonStep
  BY <1>1 DEF CommonStep
<1>2. ASSUME NEW a, NEW k, NEW t, NEW c, NEW b, NEW h, NEW f,
             SubmitBatchProof(a, k, t, c, b, h, f)
      PROVE  UNCHANGED fleet
  BY <1>2 DEF SubmitBatchProof, AcceptFailure
<1>3. ASSUME NEW a, NEW k, NEW r, ClearBatch(a, k, r) PROVE UNCHANGED fleet
  BY <1>3 DEF ClearBatch, AcceptFailure
<1>4. CASE UNCHANGED replicaVars
  BY <1>4 DEF replicaVars
<1>. QED  BY <1>1, <1>2, <1>3, <1>4 DEF ReplicasNext

LEMMA VerifiersUpStep == VerifiersUp /\ [ReplicasNext]_replicaVars => VerifiersUp'
<1> SUFFICES ASSUME VerifiersUp, [ReplicasNext]_replicaVars PROVE VerifiersUp'
  OBVIOUS
<1>1. CASE UNCHANGED fleet
  BY <1>1 DEF VerifiersUp
<1>2. ASSUME NEW n \in Nodes, NEW cfg \in ConfigsOf(n), RestartNode(n, cfg)
      PROVE  VerifiersUp'
  <2>1. fleet' = [fleet EXCEPT ![n] = Node(n)!InstallBatchProofVerifier(cfg)]
    BY <1>2 DEF RestartNode
  <2>2. ASSUME NEW m \in Verifying PROVE fleet'[m].installed
    <3>1. m \in DOMAIN fleet
      BY ReplicasAssumption DEF VerifiersUp
    <3>2. CASE m = n
      BY <2>1, <3>1, <3>2, InstalledWhenEnabled
    <3>3. CASE m # n
      BY <2>1, <3>1, <3>3 DEF VerifiersUp
    <3>. QED  BY <3>2, <3>3
  <2>3. DOMAIN fleet' = Nodes
    BY <2>1 DEF VerifiersUp
  <2>. QED  BY <2>2, <2>3 DEF VerifiersUp
<1>. QED  BY <1>1, <1>2, FleetStep
-----------------------------------------------------------------------------
Batches == Node(AnyNode)!Batches
QuorumsVerify == \A Q \in Quorums : Q \cap Verifying # {}

(* The blob stored for a window proves a result. *)
BlobProves(k, r) ==
    vellum[k].proves = Node(AnyNode)!PublicInputsHash(Node(AnyNode)!CircuitOf(k), k, r)

SettledIsProven(k) ==
    settledBy[k] # "none" /\ settledBy[k] # "open" =>
        /\ k \in DOMAIN record /\ k \in DOMAIN vellum /\ k \in DOMAIN batch
        /\ BlobProves(k, batch[k])

(* That a settled window has a record is what keeps a later submission     *)
(* from replacing the blob.                                                *)
ProvenInv ==
    /\ VerifiersUp
    /\ DOMAIN settledBy = Batches
    /\ QuorumsVerify => \A k \in Batches : SettledIsProven(k)

(* Whichever validator executes it, a clear that passes a verifier is      *)
(* proven by the stored blob.                                              *)
LEMMA VerifierDemandsProof ==
  ASSUME NEW n, fleet[n].installed, NEW a, NEW k, NEW r,
         Node(n)!ClearAllowed(a, k, r), proofConfig.requireProof
  PROVE  k \in DOMAIN record /\ k \in DOMAIN vellum /\ BlobProves(k, r)
<1>1. Node(n)!ProofAllows(k, r)
  BY DEF Node!ClearAllowed, Node!RequireProof
<1>2. /\ k \in DOMAIN record /\ k \in DOMAIN vellum
      /\ Node(n)!VerifyBatchProofInConsensus(fleet[n], record[k].proofType, vellum[k],
              Node(n)!PublicInputsHash(Node(n)!CircuitOf(k), k, r))
  BY <1>1 DEF Node!ProofAllows
<1>3. vellum[k].proves = Node(n)!PublicInputsHash(Node(n)!CircuitOf(k), k, r)
  BY <1>2 DEF Node!VerifyBatchProofInConsensus, Node!Verify
<1>4. Node(n)!CircuitOf(k) = Node(AnyNode)!CircuitOf(k)
  BY DEF Node!CircuitOf, Node!NormalizeCircuitID, Node!CircuitID, Node!ClearHashV1
<1>5. BlobProves(k, r)
  BY <1>3, <1>4 DEF BlobProves, Node!PublicInputsHash
<1>. QED  BY <1>2, <1>5

(* A step that leaves record, blob, result and history of a window alone. *)
Untouched(k) ==
    /\ settledBy'[k] = settledBy[k]
    /\ k \in DOMAIN batch => k \in DOMAIN batch' /\ batch'[k] = batch[k]
    /\ k \in DOMAIN record => k \in DOMAIN record'
    /\ k \in DOMAIN record /\ k \in DOMAIN vellum => k \in DOMAIN vellum' /\ vellum'[k] = vellum[k]

LEMMA ProvenFrame ==
  ASSUME NEW k, SettledIsProven(k), Untouched(k)
  PROVE  SettledIsProven(k)'
<1>1. SUFFICES ASSUME settledBy'[k] # "none", settledBy'[k] # "open"
               PROVE  /\ k \in DOMAIN record' /\ k \in DOMAIN vellum' /\ k \in DOMAIN batch'
                      /\ BlobProves(k, batch[k])'
  BY DEF SettledIsProven
<1>2. /\ k \in DOMAIN record /\ k \in DOMAIN vellum /\ k \in DOMAIN batch
      /\ BlobProves(k, batch[k])
  BY <1>1 DEF SettledIsProven, Untouched
<1>3. /\ k \in DOMAIN record' /\ k \in DOMAIN vellum' /\ k \in DOMAIN batch'
      /\ vellum'[k] = vellum[k] /\ batch'[k] = batch[k]
  BY <1>2 DEF Untouched
<1>4. BlobProves(k, batch[k])'
  BY <1>2, <1>3 DEF BlobProves, Node!PublicInputsHash, Node!CircuitOf, Node!NormalizeCircuitID,
                    Node!CircuitID, Node!ClearHashV1
<1>. QED  BY <1>3, <1>4

LEMMA ProvenSubmit ==
  ASSUME ProvenInv, QuorumsVerify, NEW a, NEW k, NEW t, NEW c, NEW b, NEW h, NEW f, NEW n,
         Node(n)!SubmitBatchProof(a, k, t, c, b, h, f), NEW j \in Batches
  PROVE  SettledIsProven(j)'
<1>1. /\ k \notin DOMAIN record
      /\ DOMAIN record' = DOMAIN record \cup {k} /\ DOMAIN vellum' = DOMAIN vellum \cup {k}
      /\ \A x \in DOMAIN vellum : x # k => vellum'[x] = vellum[x]
      /\ settledBy' = settledBy /\ batch' = batch
  BY DEF Node!SubmitBatchProof, Node!SubmitAllowed, Node!NotSubmitted, Node!Put
<1>2. SettledIsProven(j)
  BY DEF ProvenInv
<1>. QED  BY <1>1, <1>2, ProvenFrame DEF Untouched

LEMMA ProvenClear ==
  ASSUME ProvenInv, QuorumsVerify, NEW a, NEW k \in Batches, NEW r, ClearBatch(a, k, r), NEW j \in Batches
  PROVE  SettledIsProven(j)'
<1> DEFINE yes == {n \in InStep : Node(n)!ClearAllowed(a, k, r)}
<1>1. SettledIsProven(j)
  BY DEF ProvenInv
<1>2. CASE AcceptFailure(yes)
  BY <1>1, <1>2, ProvenFrame DEF AcceptFailure, chainVars, Untouched
<1>3. ASSUME AcceptSuccess(yes), NEW n \in yes, Node(n)!ClearBatch(a, k, r)
      PROVE  SettledIsProven(j)'
  <2>1. PICK v \in yes : v \in Verifying
    BY <1>3 DEF AcceptSuccess, QuorumsVerify
  <2>2. fleet[v].installed /\ Node(v)!ClearAllowed(a, k, r)
    BY <2>1 DEF ProvenInv, VerifiersUp
  <2>3. /\ record' = record /\ vellum' = vellum
        /\ DOMAIN batch' = DOMAIN batch \cup {k} /\ batch'[k] = r
        /\ \A x \in DOMAIN batch : x # k => batch'[x] = batch[x]
        /\ settledBy' = [settledBy EXCEPT ![k] = Node(n)!Acceptance]
    BY <1>3 DEF Node!ClearBatch, Node!Put
  <2>4. CASE j # k
    <3>1. settledBy'[j] = settledBy[j]
      BY <2>3, <2>4 DEF ProvenInv
    <3>. QED  BY <1>1, <2>3, <2>4, <3>1, ProvenFrame DEF Untouched
  <2>5. CASE j = k /\ ~proofConfig.requireProof
    <3>1. settledBy'[j] = "open"
      BY <2>3, <2>5 DEF ProvenInv, Node!Acceptance, Node!RequireProof
    <3>. QED  BY <3>1 DEF SettledIsProven
  <2>6. CASE j = k /\ proofConfig.requireProof
    <3>1. k \in DOMAIN record /\ k \in DOMAIN vellum /\ BlobProves(k, r)
      BY <2>2, <2>6, VerifierDemandsProof
    <3>2. BlobProves(k, batch[k])'
      BY <2>3, <3>1 DEF BlobProves, Node!PublicInputsHash, Node!CircuitOf,
                        Node!NormalizeCircuitID, Node!CircuitID, Node!ClearHashV1
    <3>. QED  BY <2>3, <2>6, <3>1, <3>2 DEF SettledIsProven
  <2>. QED  BY <2>4, <2>5, <2>6
<1>. QED  BY <1>2, <1>3 DEF ClearBatch

(* What every other step leaves alone. *)
LEMMA OtherSteps ==
  ASSUME \/ CommonStep
         \/ \E n \in Nodes : \E cfg \in ConfigsOf(n) : RestartNode(n, cfg)
         \/ UNCHANGED replicaVars
  PROVE  UNCHANGED <<record, vellum, glyph, bloodsworn, batch, settledBy, parted>>
<1>1. CASE CommonStep
  <2>1. CASE Node(AnyNode)!MarketStepOfGate
    BY <1>1, <2>1 DEF CommonStep, Node!MarketStepOfGate, Node!gateVars
  <2>2. ASSUME NEW a, NEW cfg, Node(AnyNode)!SetProofConfig(a, cfg)
        PROVE  UNCHANGED <<record, vellum, glyph, bloodsworn, batch, settledBy>>
    BY <2>2 DEF Node!SetProofConfig
  <2>. QED  BY <1>1, <2>1, <2>2 DEF CommonStep
<1>2. ASSUME NEW n, NEW cfg, RestartNode(n, cfg)
      PROVE  UNCHANGED <<record, vellum, glyph, bloodsworn, batch, settledBy, parted>>
  BY <1>2 DEF RestartNode, chainVars
<1>3. CASE UNCHANGED replicaVars
  BY <1>3 DEF replicaVars, chainVars
<1>. QED  BY <1>1, <1>2, <1>3

LEMMA ProvenInvInit == ReplicasInit => ProvenInv
<1> SUFFICES ASSUME ReplicasInit PROVE ProvenInv
  OBVIOUS
<1>1. settledBy = [k \in Batches |-> "none"]
  BY DEF ReplicasInit, Node!Init, Batches
<1>. QED  BY <1>1, VerifiersUpInit DEF ProvenInv, SettledIsProven

LEMMA ProvenInvStep == ProvenInv /\ [ReplicasNext]_replicaVars => ProvenInv'
<1> SUFFICES ASSUME ProvenInv, [ReplicasNext]_replicaVars PROVE ProvenInv'
  OBVIOUS
<1>1. VerifiersUp'
  BY VerifiersUpStep DEF ProvenInv
<1>2. Batches' = Batches /\ QuorumsVerify' = QuorumsVerify
  BY DEF Batches, Node!Batches, QuorumsVerify
<1>3. SUFFICES DOMAIN settledBy' = Batches /\ (QuorumsVerify => \A j \in Batches : SettledIsProven(j)')
  BY <1>1, <1>2 DEF ProvenInv
<1>4. ASSUME NEW a, NEW k, NEW t, NEW c, NEW b, NEW h, NEW f, SubmitBatchProof(a, k, t, c, b, h, f)
      PROVE  DOMAIN settledBy' = Batches /\ (QuorumsVerify => \A j \in Batches : SettledIsProven(j)')
  <2>1. \/ UNCHANGED chainVars
        \/ \E n : Node(n)!SubmitBatchProof(a, k, t, c, b, h, f)
    BY <1>4 DEF SubmitBatchProof, AcceptFailure
  <2>2. CASE UNCHANGED chainVars
    BY <2>2, ProvenFrame DEF chainVars, Untouched, ProvenInv
  <2>3. ASSUME NEW n, Node(n)!SubmitBatchProof(a, k, t, c, b, h, f)
        PROVE  DOMAIN settledBy' = Batches /\ (QuorumsVerify => \A j \in Batches : SettledIsProven(j)')
    <3>1. settledBy' = settledBy
      BY <2>3 DEF Node!SubmitBatchProof
    <3>. QED  BY <2>3, <3>1, ProvenSubmit DEF ProvenInv
  <2>. QED  BY <2>1, <2>2, <2>3
<1>5. ASSUME NEW a, NEW k \in Batches, NEW r, ClearBatch(a, k, r)
      PROVE  DOMAIN settledBy' = Batches /\ (QuorumsVerify => \A j \in Batches : SettledIsProven(j)')
  <2>1. \/ UNCHANGED chainVars
        \/ \E n : Node(n)!ClearBatch(a, k, r)
    BY <1>5 DEF ClearBatch, AcceptFailure
  <2>2. DOMAIN settledBy' = DOMAIN settledBy
    BY <2>1 DEF chainVars, Node!ClearBatch
  <2>. QED  BY <1>5, <2>2, ProvenClear DEF ProvenInv
<1>6. CASE \/ CommonStep
           \/ \E n \in Nodes : \E cfg \in ConfigsOf(n) : RestartNode(n, cfg)
           \/ UNCHANGED replicaVars
  <2>1. UNCHANGED <<record, vellum, batch, settledBy>>
    BY <1>6, OtherSteps
  <2>. QED  BY <2>1, ProvenFrame DEF Untouched, ProvenInv
<1>. QED  BY <1>4, <1>5, <1>6 DEF ReplicasNext, Batches

(* ProvenByQuorum for every quorum system: if every quorum has a validator *)
(* that verifies, what the gate settles is proven by the stored blob,      *)
(* however the others are configured, restart or part.                     *)
THEOREM SettledIsProvenByQuorum == ReplicasSpec => []ProvenByQuorum
<1>1. ProvenInv => ProvenByQuorum
  BY DEF ProvenInv, ProvenByQuorum, QuorumsVerify, SettledIsProven, BlobProves, Batches
<1>. QED  BY ProvenInvInit, ProvenInvStep, <1>1, PTL DEF ReplicasSpec
-----------------------------------------------------------------------------
(* Two validators with a verifier that have the same keys and the same     *)
(* required circuit agree on every blob, strict or not.                    *)
LEMMA SameVerdict ==
  ASSUME NEW m, NEW n, fleet[m].installed, fleet[n].installed,
         fleet[m].keys = fleet[n].keys, fleet[m].required = fleet[n].required,
         NEW t, NEW b, NEW h,
         Node(m)!VerifyBatchProofInConsensus(fleet[m], t, b, h)
  PROVE  Node(n)!VerifyBatchProofInConsensus(fleet[n], t, b, h)
  BY DEF Node!VerifyBatchProofInConsensus, Node!Verify, Node!Parses, Node!HasEnvelope,
         Node!NormalizeCircuitID, Node!CircuitID, Node!ClearHashV1, Node!ShieldedLedgerV1,
         Node!SupportedCircuits

LEMMA SameSubmit ==
  ASSUME NEW m, NEW n, fleet[m].installed, fleet[n].installed,
         fleet[m].keys = fleet[n].keys, fleet[m].required = fleet[n].required,
         NEW a, NEW k, NEW t, NEW c, NEW b, NEW h, Node(m)!SubmitAllowed(a, k, t, c, b, h)
  PROVE  Node(n)!SubmitAllowed(a, k, t, c, b, h)
<1>1. Node(n)!VerifyBatchProofInConsensus(fleet[n], proofConfig.requiredProofType, b, h)
  BY SameVerdict DEF Node!SubmitAllowed
<1>. QED  BY <1>1 DEF Node!SubmitAllowed, Node!IsActive, Node!GetMarket, Node!HasProofConfig,
              Node!NoProofConfig, Node!RequireProof, Node!IsProverAuthority, Node!ClosesWindow,
              Node!InProofWindow, Node!AddInt64, Node!NotSubmitted

LEMMA SameClear ==
  ASSUME NEW m, NEW n, fleet[m].installed, fleet[n].installed,
         fleet[m].keys = fleet[n].keys, fleet[m].required = fleet[n].required,
         NEW a, NEW k, NEW r, Node(m)!ClearAllowed(a, k, r)
  PROVE  Node(n)!ClearAllowed(a, k, r)
<1>1. /\ r.clearPrice # 0 /\ Node(n)!IsActive(k[1]) /\ Node(n)!HasProofConfig
      /\ Node(n)!RequireProof => Node(n)!IsProverAuthority(a)
  BY DEF Node!ClearAllowed, Node!IsActive, Node!GetMarket, Node!HasProofConfig,
         Node!NoProofConfig, Node!RequireProof, Node!IsProverAuthority
<1>2. ASSUME Node(n)!RequireProof PROVE Node(n)!ProofAllows(k, r)
  <2>1. Node(m)!ProofAllows(k, r)
    BY <1>2 DEF Node!ClearAllowed, Node!RequireProof
  <2>2. /\ Node(n)!CircuitOf(k) = Node(m)!CircuitOf(k)
        /\ Node(n)!SupportedCircuits = Node(m)!SupportedCircuits
    BY DEF Node!CircuitOf, Node!NormalizeCircuitID, Node!CircuitID, Node!ClearHashV1,
           Node!ShieldedLedgerV1, Node!SupportedCircuits
  <2>3. /\ Node(n)!PublicInputsHash(Node(n)!CircuitOf(k), k, r)
              = Node(m)!PublicInputsHash(Node(m)!CircuitOf(k), k, r)
    BY <2>2 DEF Node!PublicInputsHash
  <2>4. Node(n)!VerifyBatchProofInConsensus(fleet[n], record[k].proofType, vellum[k],
              Node(n)!PublicInputsHash(Node(n)!CircuitOf(k), k, r))
    BY <2>1, <2>3, SameVerdict DEF Node!ProofAllows
  <2>5. Node(n)!BindsInputs(k, r)
    BY <2>1, <2>2, <2>3 DEF Node!ProofAllows, Node!BindsInputs
  <2>. QED  BY <2>1, <2>4, <2>5 DEF Node!ProofAllows, Node!RecordInTime, Node!AddInt64,
                Node!Sha256, Node!Parses, Node!HasEnvelope
<1>. QED  BY <1>1, <1>2 DEF Node!ClearAllowed

(* When a quorum is of one mind, its outcome is the one accepted: any two  *)
(* quorums have a validator in common.                                     *)
LEMMA QuorumDecides ==
  ASSUME NEW V \in Quorums, V \cap parted = {}, NEW yes, V \subseteq yes \/ V \cap yes = {},
         AcceptSuccess(yes) \/ AcceptFailure(yes)
  PROVE  parted' \cap V = {}
<1>1. \A Q1, Q2 \in Quorums : Q1 \cap Q2 # {}
  BY ReplicasAssumption DEF QuorumSystem
<1>2. CASE AcceptSuccess(yes)
  BY <1>1, <1>2 DEF AcceptSuccess
<1>3. CASE AcceptFailure(yes)
  BY <1>1, <1>3 DEF AcceptFailure
<1>. QED  BY <1>2, <1>3

LEMMA StayInStep ==
  ASSUME VerifiersUp, [ReplicasNext]_replicaVars, NEW V, V = Verifying \ parted,
         V \in Quorums, SameVerifier(V)
  PROVE  parted' \cap V = {}
<1>1. V \cap parted = {} /\ V \subseteq InStep
  BY ReplicasAssumption DEF InStep
<1>2. \A n \in V : fleet[n].installed
  BY DEF VerifiersUp
<1>3. \A m, n \in V : fleet[m].keys = fleet[n].keys /\ fleet[m].required = fleet[n].required
  BY DEF SameVerifier
<1>4. ASSUME NEW a, NEW k, NEW t, NEW c, NEW b, NEW h, NEW f, SubmitBatchProof(a, k, t, c, b, h, f)
      PROVE  parted' \cap V = {}
  <2> DEFINE yes == {n \in InStep : Node(n)!SubmitAllowed(a, k, t, c, b, h)}
  <2>1. V \subseteq yes \/ V \cap yes = {}
    BY <1>1, <1>2, <1>3, SameSubmit
  <2>2. AcceptSuccess(yes) \/ AcceptFailure(yes)
    BY <1>4 DEF SubmitBatchProof
  <2>. QED  BY <1>1, <2>1, <2>2, QuorumDecides
<1>5. ASSUME NEW a, NEW k, NEW r, ClearBatch(a, k, r) PROVE parted' \cap V = {}
  <2> DEFINE yes == {n \in InStep : Node(n)!ClearAllowed(a, k, r)}
  <2>1. V \subseteq yes \/ V \cap yes = {}
    BY <1>1, <1>2, <1>3, SameClear
  <2>2. AcceptSuccess(yes) \/ AcceptFailure(yes)
    BY <1>5 DEF ClearBatch
  <2>. QED  BY <1>1, <2>1, <2>2, QuorumDecides
<1>6. CASE \/ CommonStep
           \/ \E n \in Nodes : \E cfg \in ConfigsOf(n) : RestartNode(n, cfg)
           \/ UNCHANGED replicaVars
  BY <1>1, <1>6, OtherSteps
<1>. QED  BY <1>4, <1>5, <1>6 DEF ReplicasNext

(* VerifyingStayInStep for every quorum system: validators that verify     *)
(* with the same keys and are a quorum never part, although they may       *)
(* differ in strictness and others vote with them.                         *)
THEOREM VerifyingNeverPart == ReplicasSpec => VerifyingStayInStep
<1>1. VerifiersUp /\ [ReplicasNext]_replicaVars =>
        [LET V == Verifying \ parted IN
         V \in Quorums /\ SameVerifier(V) => parted' \cap V = {}]_replicaVars
  BY StayInStep
<1>. QED  BY VerifiersUpInit, VerifiersUpStep, <1>1, PTL DEF ReplicasSpec, VerifyingStayInStep
-----------------------------------------------------------------------------
(* What some verifier accepts, a node without one accepts. *)
LEMMA LenientVerdict ==
  ASSUME NEW n, NEW v, NEW t, NEW b, NEW h, Node(n)!VerifyBatchProofInConsensus(v, t, b, h)
  PROVE  Lenient!VerifyBatchProofInConsensus(NoVerifier, t, b, h)
  BY DEF Node!VerifyBatchProofInConsensus, Lenient!VerifyBatchProofInConsensus, NoVerifier,
         Node!Parses, Lenient!Parses, Node!HasEnvelope, Lenient!HasEnvelope

LEMMA LenientSubmit ==
  ASSUME NEW n, NEW a, NEW k, NEW t, NEW c, NEW b, NEW h, NEW f,
         Node(n)!SubmitBatchProof(a, k, t, c, b, h, f)
  PROVE  Lenient!SubmitBatchProof(a, k, t, c, b, h, f)
<1>1. Node(n)!SubmitAllowed(a, k, t, c, b, h)
  BY DEF Node!SubmitBatchProof
<1>2. Lenient!VerifyBatchProofInConsensus(NoVerifier, proofConfig.requiredProofType, b, h)
  BY <1>1, LenientVerdict DEF Node!SubmitAllowed
<1>3. Lenient!SubmitAllowed(a, k, t, c, b, h)
  BY <1>1, <1>2
     DEF Node!SubmitAllowed, Node!IsActive, Node!GetMarket, Node!HasProofConfig,
         Node!NoProofConfig, Node!RequireProof, Node!IsProverAuthority, Node!ClosesWindow,
         Node!InProofWindow, Node!AddInt64, Node!NotSubmitted,
         Lenient!SubmitAllowed, Lenient!IsActive, Lenient!GetMarket, Lenient!HasProofConfig,
         Lenient!NoProofConfig, Lenient!RequireProof, Lenient!IsProverAuthority,
         Lenient!ClosesWindow, Lenient!InProofWindow, Lenient!AddInt64, Lenient!NotSubmitted
<1>4. /\ record' = Lenient!Put(record, k, Lenient!NewRecord(a, c, b, h, f))
      /\ vellum' = Lenient!Put(vellum, k, b)
      /\ glyph' = Lenient!Put(glyph, k, Lenient!DeriveGlyph(a, b, h))
  BY DEF Node!SubmitBatchProof, Node!Put, Node!NewRecord, Node!DeriveGlyph, Node!Sha256,
         Lenient!Put, Lenient!NewRecord, Lenient!DeriveGlyph, Lenient!Sha256
<1>5. Lenient!CountProof(a)
  BY DEF Node!SubmitBatchProof, Node!CountProof, Lenient!CountProof
<1>6. UNCHANGED <<Lenient!marketVars, proofConfig, batch, NoVerifier, SeenUnverified>>
  BY DEF Node!SubmitBatchProof, Node!marketVars, Lenient!marketVars, NoVerifier, SeenUnverified,
         Node!Batches
<1>. QED  BY <1>3, <1>4, <1>5, <1>6 DEF Lenient!SubmitBatchProof

LEMMA LenientClear ==
  ASSUME DOMAIN settledBy = Batches, NEW n, NEW a, NEW k \in Batches, NEW r,
         Node(n)!ClearBatch(a, k, r)
  PROVE  Lenient!ClearBatch(a, k, r)
<1>1. Node(n)!ClearAllowed(a, k, r)
  BY DEF Node!ClearBatch
<1>2. /\ r.clearPrice # 0 /\ Lenient!IsActive(k[1]) /\ Lenient!HasProofConfig
      /\ Lenient!RequireProof => Lenient!IsProverAuthority(a)
  BY <1>1 DEF Node!ClearAllowed, Node!IsActive, Node!GetMarket, Node!HasProofConfig,
         Node!NoProofConfig, Node!RequireProof, Node!IsProverAuthority,
         Lenient!IsActive, Lenient!GetMarket, Lenient!HasProofConfig, Lenient!NoProofConfig,
         Lenient!RequireProof, Lenient!IsProverAuthority
<1>3. ASSUME Lenient!RequireProof PROVE Lenient!ProofAllows(k, r)
  <2>1. Node(n)!ProofAllows(k, r)
    BY <1>1, <1>3 DEF Node!ClearAllowed, Node!RequireProof, Lenient!RequireProof
  <2>2. /\ Lenient!CircuitOf(k) = Node(n)!CircuitOf(k)
        /\ Lenient!SupportedCircuits = Node(n)!SupportedCircuits
    BY DEF Node!CircuitOf, Node!NormalizeCircuitID, Node!CircuitID, Node!ClearHashV1,
           Node!ShieldedLedgerV1, Node!SupportedCircuits,
           Lenient!CircuitOf, Lenient!NormalizeCircuitID, Lenient!CircuitID, Lenient!ClearHashV1,
           Lenient!ShieldedLedgerV1, Lenient!SupportedCircuits
  <2>3. Lenient!PublicInputsHash(Lenient!CircuitOf(k), k, r)
          = Node(n)!PublicInputsHash(Node(n)!CircuitOf(k), k, r)
    BY <2>2 DEF Node!PublicInputsHash, Lenient!PublicInputsHash
  <2>4. Lenient!VerifyBatchProofInConsensus(NoVerifier, record[k].proofType, vellum[k],
              Lenient!PublicInputsHash(Lenient!CircuitOf(k), k, r))
    BY <2>1, <2>3, LenientVerdict DEF Node!ProofAllows
  <2>5. Lenient!BindsInputs(k, r)
    BY <2>1, <2>2, <2>3 DEF Node!ProofAllows, Node!BindsInputs, Lenient!BindsInputs
  <2>. QED  BY <2>1, <2>4, <2>5
            DEF Node!ProofAllows, Node!RecordInTime, Node!AddInt64, Node!Sha256, Node!Parses,
                Node!HasEnvelope, Lenient!ProofAllows, Lenient!RecordInTime, Lenient!AddInt64,
                Lenient!Sha256, Lenient!Parses, Lenient!HasEnvelope
<1>4. Lenient!ClearAllowed(a, k, r)
  BY <1>2, <1>3 DEF Lenient!ClearAllowed
<1>5. batch' = Lenient!Put(batch, k, r)
  BY DEF Node!ClearBatch, Node!Put, Lenient!Put
<1>6. SeenUnverified' = [SeenUnverified EXCEPT ![k] = Lenient!Acceptance]
  <2>1. settledBy' = [settledBy EXCEPT ![k] = Node(n)!Acceptance]
    BY DEF Node!ClearBatch
  <2>2. Lenient!Acceptance = IF Node(n)!Acceptance = "verified" THEN "unverified"
                                                               ELSE Node(n)!Acceptance
    BY DEF Node!Acceptance, Lenient!Acceptance, Node!RequireProof, Lenient!RequireProof, NoVerifier
  <2>3. /\ SeenUnverified = [j \in Batches |-> IF settledBy[j] = "verified" THEN "unverified"
                                                                        ELSE settledBy[j]]
        /\ SeenUnverified' = [j \in Batches |-> IF settledBy'[j] = "verified" THEN "unverified"
                                                                          ELSE settledBy'[j]]
    BY DEF SeenUnverified, Batches, Node!Batches
  <2>. QED  BY <2>1, <2>2, <2>3
<1>7. UNCHANGED <<Lenient!marketVars, proofConfig, record, vellum, glyph, bloodsworn, NoVerifier>>
  BY DEF Node!ClearBatch, Node!marketVars, Lenient!marketVars, NoVerifier
<1>. QED  BY <1>4, <1>5, <1>6, <1>7 DEF Lenient!ClearBatch

LEMMA LenientMarket == Node(AnyNode)!MarketNext => Lenient!MarketNext
<1> USE DEF Node!Batches, Lenient!Batches, Node!GetMarket, Lenient!GetMarket, Node!Exists,
            Lenient!Exists, Node!IsActive, Lenient!IsActive, Node!PutMarket, Lenient!PutMarket
<1>1. Node(AnyNode)!Tick => Lenient!Tick
  BY DEF Node!Tick, Lenient!Tick
<1>2. ASSUME NEW a, NEW m, NEW n, NEW b, Node(AnyNode)!CreateMarket(a, m, n, b)
      PROVE  Lenient!CreateMarket(a, m, n, b)
  BY <1>2 DEF Node!CreateMarket, Lenient!CreateMarket, Node!SubBalance, Lenient!SubBalance,
              Node!CanSub, Lenient!CanSub, Node!Sub, Lenient!Sub
<1>3. ASSUME NEW a, NEW k, NEW o, Node(AnyNode)!CommitOrder(a, k, o)
      PROVE  Lenient!CommitOrder(a, k, o)
  BY <1>3 DEF Node!CommitOrder, Lenient!CommitOrder
<1>4. ASSUME NEW k, NEW i, NEW s, Node(AnyNode)!RevealBatch(k, i, s)
      PROVE  Lenient!RevealBatch(k, i, s)
  BY <1>4 DEF Node!RevealBatch, Lenient!RevealBatch
<1>5. ASSUME NEW m, NEW o, Node(AnyNode)!ResolveMarket(m, o)
      PROVE  Lenient!ResolveMarket(m, o)
  BY <1>5 DEF Node!ResolveMarket, Lenient!ResolveMarket
<1>6. ASSUME NEW a, NEW m, NEW b, Node(AnyNode)!Dispute(a, m, b)
      PROVE  Lenient!Dispute(a, m, b)
  BY <1>6 DEF Node!Dispute, Lenient!Dispute, Node!IsResolved, Lenient!IsResolved,
              Node!SubBalance, Lenient!SubBalance, Node!CanSub, Lenient!CanSub,
              Node!Sub, Lenient!Sub
<1>7. Node(AnyNode)!Indices = Lenient!Indices /\ Node(AnyNode)!Outcomes = Lenient!Outcomes
  BY DEF Node!Indices, Lenient!Indices, Node!Outcomes, Lenient!Outcomes
<1>. QED  BY <1>1, <1>2, <1>3, <1>4, <1>5, <1>6, <1>7 DEF Node!MarketNext, Lenient!MarketNext

LEMMA LenientCommon == CommonStep => Lenient!Next
<1> SUFFICES ASSUME CommonStep PROVE Lenient!Next
  OBVIOUS
<1>1. CASE Node(AnyNode)!MarketStepOfGate
  <2>1. Lenient!MarketNext
    BY <1>1, LenientMarket DEF Node!MarketStepOfGate
  <2>2. UNCHANGED Lenient!gateVars
    BY <1>1 DEF Node!MarketStepOfGate, Node!gateVars, Lenient!gateVars, NoVerifier,
                SeenUnverified, Node!Batches
  <2>. QED  BY <2>1, <2>2 DEF Lenient!MarketStepOfGate, Lenient!Next
<1>2. ASSUME NEW a \in Actors, NEW cfg \in ConfigInputs, Node(AnyNode)!SetProofConfig(a, cfg)
      PROVE  Lenient!Next
  <2>1. Lenient!SetProofConfig(a, cfg)
    BY <1>2 DEF Node!SetProofConfig, Node!HasProofConfig, Node!NoProofConfig,
                Node!ValidProofConfig, Node!ProofTypes, Node!Groth16, Node!Plonk,
                Node!marketVars, Lenient!SetProofConfig, Lenient!HasProofConfig,
                Lenient!NoProofConfig, Lenient!ValidProofConfig, Lenient!ProofTypes,
                Lenient!Groth16, Lenient!Plonk, Lenient!marketVars, NoVerifier,
                SeenUnverified, Node!Batches
  <2>. QED  BY <2>1 DEF Lenient!Next
<1>. QED  BY <1>1, <1>2 DEF CommonStep

LEMMA LenientInit == ReplicasInit => Lenient!Init
<1> SUFFICES ASSUME ReplicasInit PROVE Lenient!Init
  OBVIOUS
<1>1. Node(AnyNode)!Init
  BY DEF ReplicasInit
<1>2. Lenient!MarketInit
  BY <1>1 DEF Node!Init, Node!MarketInit, Lenient!MarketInit, Node!NoMarket, Lenient!NoMarket,
              Node!Batches, Lenient!Batches, Node!Indices, Lenient!Indices,
              Node!NoEntry, Lenient!NoEntry
<1>3. /\ proofConfig \in GenesisProofConfigs
      /\ record = Lenient!Empty /\ vellum = Lenient!Empty /\ glyph = Lenient!Empty
      /\ batch = Lenient!Empty /\ bloodsworn = [a \in Actors |-> Lenient!NoProofs]
  BY <1>1 DEF Node!Init, Node!Empty, Lenient!Empty, Node!NoProofs, Lenient!NoProofs
<1>4. SeenUnverified = [k \in Lenient!Batches |-> "none"]
  BY <1>1 DEF Node!Init, SeenUnverified, Node!Batches, Lenient!Batches
<1>5. \E cfg \in Lenient!StartableConfigs : NoVerifier = Lenient!InstallBatchProofVerifier(cfg)
  <2>1. Lenient!ResolveZKConfig(DefaultConfig, FALSE) = DefaultConfig
    BY DEF Lenient!ResolveZKConfig
  <2>2. Lenient!Starts(DefaultConfig)
    BY DEF Lenient!Starts, DefaultConfig
  <2>3. DefaultConfig \in Lenient!StartableConfigs
    <3>1. \E c \in {DefaultConfig}, fixtureKey \in BOOLEAN :
            DefaultConfig = Lenient!ResolveZKConfig(c, fixtureKey)
      BY <2>1, Zenon
    <3>. QED  BY <2>2, <3>1 DEF Lenient!StartableConfigs
  <2>4. NoVerifier = Lenient!InstallBatchProofVerifier(DefaultConfig)
    BY DEF Lenient!InstallBatchProofVerifier, DefaultConfig, NoVerifier
  <2>. QED  BY <2>3, <2>4
<1>. QED  BY <1>2, <1>3, <1>4, <1>5 DEF Lenient!Init

LEMMA LenientStep ==
  ASSUME DOMAIN settledBy = Batches, [ReplicasNext]_replicaVars
  PROVE  [Lenient!Next]_(Lenient!vars)
<1>1. ASSUME UNCHANGED chainVars PROVE UNCHANGED Lenient!vars
  BY <1>1 DEF chainVars, Lenient!vars, NoVerifier, SeenUnverified, Node!Batches
<1>2. CASE CommonStep
  BY <1>2, LenientCommon
<1>3. ASSUME NEW a \in Actors, NEW k \in Node(AnyNode)!Batches, NEW t \in Node(AnyNode)!ProofTypes,
             NEW c \in CloseTimes, NEW b \in Blobs, NEW h \in InputsHashes,
             NEW f \in FillsHashes, SubmitBatchProof(a, k, t, c, b, h, f)
      PROVE  Lenient!Next \/ UNCHANGED chainVars
  <2>1. \/ UNCHANGED chainVars
        \/ Lenient!SubmitBatchProof(a, k, t, c, b, h, f)
    BY <1>3, LenientSubmit DEF SubmitBatchProof, AcceptFailure
  <2>2. k \in Lenient!Batches /\ t \in Lenient!ProofTypes
    BY DEF Node!Batches, Lenient!Batches, Node!ProofTypes, Lenient!ProofTypes,
           Node!Groth16, Lenient!Groth16, Node!Plonk, Lenient!Plonk
  <2>. QED  BY <2>1, <2>2 DEF Lenient!Next
<1>4. ASSUME NEW a \in Actors, NEW k \in Node(AnyNode)!Batches, NEW r \in Node(AnyNode)!Results,
             ClearBatch(a, k, r)
      PROVE  Lenient!Next \/ UNCHANGED chainVars
  <2>1. \/ UNCHANGED chainVars
        \/ Lenient!ClearBatch(a, k, r)
    BY <1>4, LenientClear DEF ClearBatch, AcceptFailure, Batches
  <2>2. k \in Lenient!Batches /\ r \in Lenient!Results
    BY DEF Node!Batches, Lenient!Batches, Node!Results, Lenient!Results
  <2>. QED  BY <2>1, <2>2 DEF Lenient!Next
<1>5. ASSUME NEW n, NEW cfg, RestartNode(n, cfg) PROVE UNCHANGED chainVars
  BY <1>5 DEF RestartNode
<1>6. CASE UNCHANGED replicaVars
  BY <1>1, <1>6 DEF replicaVars
<1>. QED  BY <1>1, <1>2, <1>3, <1>4, <1>5, <1>6 DEF ReplicasNext

(* ChainIsThatOfOneNode for every network: what ProofGateProofs proves of  *)
(* a gate without a verifier, its implementing the abstract settlement     *)
(* included, holds of the chain that validators with any verifiers agree   *)
(* on.                                                                     *)
THEOREM NetworkIsOneGate == ReplicasSpec => ChainIsThatOfOneNode
<1>1. ProvenInv /\ [ReplicasNext]_replicaVars => [Lenient!Next]_(Lenient!vars)
  BY LenientStep DEF ProvenInv
<1>. QED  BY LenientInit, ProvenInvInit, ProvenInvStep, <1>1, PTL
          DEF ReplicasSpec, ChainIsThatOfOneNode, Lenient!Spec
===============================================================================
