--------------------------- MODULE ProofGateProofs ---------------------------
(***************************************************************************)
(* Proofs about the proof gate, for any sets of actors, markets, windows,  *)
(* configurations, node configurations, blobs, hashes and results, any     *)
(* clock bound and any width of the timestamps.                            *)
(***************************************************************************)
EXTENDS ProofGate, MarketProofs, FiniteSetTheorems

(* Storing a value of the right kind keeps a store well typed. *)
LEMMA PutStores ==
  ASSUME NEW store, NEW values, Stores(store, values), NEW k \in Batches, NEW v \in values
  PROVE  Stores(Put(store, k, v), values)
  BY DEF Put, Stores

LEMMA EmptyStores == ASSUME NEW values PROVE Stores(Empty, values)
  BY DEF Stores, Empty
-----------------------------------------------------------------------------
LEMMA StartableTyped ==
  ASSUME NEW cfg \in StartableConfigs
  PROVE  InstallBatchProofVerifier(cfg) \in Verifiers
<1>1. PICK c \in NodeConfigs, fixtureKey \in BOOLEAN : cfg = ResolveZKConfig(c, fixtureKey)
  BY DEF StartableConfigs
<1>2. Starts(cfg)
  BY DEF StartableConfigs
<1>3. cfg.enabled \in BOOLEAN /\ cfg.strict \in BOOLEAN /\ cfg.keys \in SUBSET ProofTypes
  BY <1>1, GateAssumption DEF ResolveZKConfig, ProofTypes
<1>. QED  BY <1>2, <1>3 DEF InstallBatchProofVerifier, Verifiers, Starts

LEMMA GateTypeInit == Init => GateTypeOK
<1> SUFFICES ASSUME Init PROVE GateTypeOK
  OBVIOUS
<1>1. MarketTypeOK
  BY MarketTypeInit DEF Init
<1>2. proofConfig \in ProofConfigs \cup {NoProofConfig}
  BY GateAssumption DEF Init
<1>3. verifier \in Verifiers
  BY StartableTyped DEF Init
<1>4. bloodsworn \in [Actors -> [totalAccepted : Nat, activeStreak : Nat, lastProofAt : Nat]]
  BY DEF Init, NoProofs
<1>5. settledBy \in [Batches -> {"none", "open", "unverified", "verified"}]
  BY DEF Init
<1>. QED  BY <1>1, <1>2, <1>3, <1>4, <1>5, EmptyStores DEF Init, GateTypeOK

LEMMA SubmitTyped ==
  ASSUME GateTypeOK,
         NEW a \in Actors, NEW k \in Batches, NEW t \in ProofTypes, NEW c \in CloseTimes,
         NEW b \in Blobs, NEW h \in InputsHashes, NEW f \in FillsHashes,
         SubmitBatchProof(a, k, t, c, b, h, f)
  PROVE  GateTypeOK'
<1>1. MarketTypeOK'
  BY MarketTypeStep DEF SubmitBatchProof, GateTypeOK
<1>2. now \in Nat /\ c \in Nat
  BY GateAssumption DEF GateTypeOK, MarketTypeOK
<1>3. NewRecord(a, c, b, h, f) \in ProofRecords
  BY <1>2 DEF SubmitBatchProof, SubmitAllowed, NewRecord, ProofRecords
<1>4. DeriveGlyph(a, b, h) \in Glyphs
  BY <1>2 DEF DeriveGlyph, Glyphs
<1>5. Stores(record', ProofRecords) /\ Stores(vellum', Blobs) /\ Stores(glyph', Glyphs)
  BY <1>3, <1>4, PutStores DEF SubmitBatchProof, GateTypeOK
<1>6. bloodsworn' \in [Actors -> [totalAccepted : Nat, activeStreak : Nat, lastProofAt : Nat]]
  BY <1>2 DEF SubmitBatchProof, CountProof, GateTypeOK
<1>. QED  BY <1>1, <1>5, <1>6 DEF SubmitBatchProof, GateTypeOK

LEMMA ClearTyped ==
  ASSUME GateTypeOK, NEW a \in Actors, NEW k \in Batches, NEW r \in Results,
         ClearBatch(a, k, r)
  PROVE  GateTypeOK'
<1>1. MarketTypeOK'
  BY MarketTypeStep DEF ClearBatch, GateTypeOK
<1>2. Stores(batch', Results)
  BY PutStores DEF ClearBatch, GateTypeOK
<1>3. settledBy' \in [Batches -> {"none", "open", "unverified", "verified"}]
  BY DEF ClearBatch, GateTypeOK, Acceptance
<1>. QED  BY <1>1, <1>2, <1>3 DEF ClearBatch, GateTypeOK

LEMMA SetConfigTyped ==
  ASSUME GateTypeOK, NEW a \in Actors, NEW cfg \in ConfigInputs, SetProofConfig(a, cfg)
  PROVE  GateTypeOK'
<1>1. MarketTypeOK'
  BY MarketTypeStep DEF SetProofConfig, GateTypeOK
<1>2. cfg \in ProofConfigs
  BY GateAssumption DEF SetProofConfig, ValidProofConfig, ProofConfigs
<1>. QED  BY <1>1, <1>2 DEF SetProofConfig, GateTypeOK

LEMMA GateTypeStep ==
  ASSUME GateTypeOK, [Next]_vars
  PROVE  GateTypeOK'
<1>1. CASE MarketStepOfGate
  <2>1. MarketTypeOK'
    BY <1>1, MarketTypeStep DEF MarketStepOfGate, GateTypeOK
  <2>. QED  BY <1>1, <2>1 DEF MarketStepOfGate, gateVars, GateTypeOK
<1>2. ASSUME NEW cfg \in StartableConfigs, RestartNode(cfg)
      PROVE  GateTypeOK'
  <2>1. MarketTypeOK'
    BY <1>2, MarketTypeStep DEF RestartNode, GateTypeOK
  <2>2. verifier' \in Verifiers
    BY <1>2, StartableTyped DEF RestartNode
  <2>. QED  BY <1>2, <2>1, <2>2 DEF RestartNode, GateTypeOK
<1>3. CASE UNCHANGED vars
  <2>1. MarketTypeOK'
    BY <1>3, MarketTypeStep DEF vars, marketVars, GateTypeOK
  <2>. QED  BY <1>3, <2>1 DEF vars, GateTypeOK
<1>. QED  BY <1>1, <1>2, <1>3, SubmitTyped, ClearTyped, SetConfigTyped DEF Next

(* Every reachable state of the gate is well typed; in particular the      *)
(* stored proof configuration is always valid.                             *)
THEOREM GateTypes == Spec => []GateTypeOK
<1>1. GateTypeOK /\ [Next]_vars => GateTypeOK'
  BY GateTypeStep
<1>. QED  BY GateTypeInit, <1>1, PTL DEF Spec
-----------------------------------------------------------------------------
LEMMA SettledInit == Init => SettledMatchesProof
  BY DEF Init, SettledMatchesProof, Gated

(* A submission never touches the record of a settled window: the window   *)
(* already has one.                                                        *)
LEMMA SettledSubmit ==
  ASSUME SettledMatchesProof,
         NEW a \in Actors, NEW k \in Batches, NEW t \in ProofTypes, NEW c \in CloseTimes,
         NEW b \in Blobs, NEW h \in InputsHashes, NEW f \in FillsHashes,
         SubmitBatchProof(a, k, t, c, b, h, f)
  PROVE  SettledMatchesProof'
<1> SUFFICES ASSUME NEW j \in Batches
             PROVE  /\ settledBy'[j] \in Gated =>
                          /\ j \in DOMAIN batch' /\ j \in DOMAIN record' /\ j \in DOMAIN vellum'
                          /\ batch'[j].clearPrice # 0
                          /\ record'[j].fillsHash = batch'[j].fillsHash
                          /\ BindsInputs(j, batch[j])'
                    /\ settledBy'[j] = "verified" => ProvenByBlob(j)'
  BY DEF SettledMatchesProof
<1> SUFFICES ASSUME settledBy[j] \in Gated
             PROVE  /\ j \in DOMAIN record' /\ record'[j] = record[j]
                    /\ j \in DOMAIN vellum' /\ vellum'[j] = vellum[j]
  BY DEF SubmitBatchProof, SettledMatchesProof, BindsInputs, ProvenByBlob, CircuitOf, Gated
<1>1. j \in DOMAIN record /\ j \in DOMAIN vellum /\ j # k
  BY DEF SettledMatchesProof, SubmitBatchProof, SubmitAllowed, NotSubmitted
<1>. QED  BY <1>1 DEF SubmitBatchProof, Put

(* A blob that proves inputs of shielded-ledger-v1 proves inputs without a *)
(* zero: the constraints of that circuit, since no digest of it belongs to *)
(* the other.                                                              *)
LEMMA ShieldedIsConstrained ==
  ASSUME NEW b \in Blobs, NEW k, NEW r,
         b.proves = PublicInputsHash(ShieldedLedgerV1, k, r)
  PROVE  k[2] # 0 /\ r.totalVolume # 0
<1>1. b.proves.circuit = ShieldedLedgerV1 /\ b.proves.window = k[2] /\ b.proves.result = r
  BY DEF PublicInputsHash
<1>2. b.proves # NoHash
  BY <1>1 DEF NoHash, ShieldedLedgerV1
<1>. QED  BY <1>1, <1>2, GateAssumption
          DEF Provable, ClearHashCircuit, ShieldedLedgerCircuitV1, ClearHashV1, ShieldedLedgerV1

LEMMA SettledClear ==
  ASSUME GateTypeOK, SettledMatchesProof,
         NEW a \in Actors, NEW k \in Batches, NEW r \in Results, ClearBatch(a, k, r)
  PROVE  SettledMatchesProof'
<1> SUFFICES ASSUME NEW j \in Batches
             PROVE  /\ settledBy'[j] \in Gated =>
                          /\ j \in DOMAIN batch' /\ j \in DOMAIN record' /\ j \in DOMAIN vellum'
                          /\ batch'[j].clearPrice # 0
                          /\ record'[j].fillsHash = batch'[j].fillsHash
                          /\ BindsInputs(j, batch[j])'
                    /\ settledBy'[j] = "verified" => ProvenByBlob(j)'
  BY DEF SettledMatchesProof
<1>0. UNCHANGED <<record, vellum>>
  BY DEF ClearBatch
<1>1. CASE j # k
  <2>1. settledBy'[j] = settledBy[j]
    BY <1>1 DEF ClearBatch, GateTypeOK
  <2>2. j \in DOMAIN batch => j \in DOMAIN batch' /\ batch'[j] = batch[j]
    BY <1>1 DEF ClearBatch, Put
  <2>. QED  BY <1>0, <2>1, <2>2
            DEF SettledMatchesProof, BindsInputs, ProvenByBlob, CircuitOf, Gated
<1>2. CASE j = k
  <2>1. settledBy'[k] = Acceptance
    BY DEF ClearBatch, GateTypeOK
  <2>2. k \in DOMAIN batch' /\ batch'[k] = r
    BY DEF ClearBatch, Put
  <2>3. settledBy'[k] \in Gated => ProofAllows(k, r)
    BY <2>1 DEF Acceptance, Gated, ClearBatch, ClearAllowed
  <2>4. settledBy'[k] = "verified" => vellum[k].proves = PublicInputsHash(CircuitOf(k), k, r)
    BY <2>1, <2>3 DEF Acceptance, Gated, ProofAllows, VerifyBatchProofInConsensus, Verify
  <2>5. ASSUME settledBy'[k] = "verified", CircuitOf(k) = ShieldedLedgerV1
        PROVE  k[2] # 0 /\ r.totalVolume # 0
    <3>1. k \in DOMAIN vellum
      BY <2>3, <2>5 DEF Gated, ProofAllows
    <3>2. vellum[k] \in Blobs
      BY <3>1 DEF GateTypeOK, Stores
    <3>3. vellum[k].proves = PublicInputsHash(ShieldedLedgerV1, k, r)
      BY <2>4, <2>5
    <3>. QED  BY <3>2, <3>3, ShieldedIsConstrained, Zenon
  <2>. QED  BY <1>0, <1>2, <2>2, <2>3, <2>4, <2>5
            DEF ProofAllows, BindsInputs, ProvenByBlob, CircuitOf, ClearBatch, ClearAllowed, Gated
<1>. QED  BY <1>1, <1>2

LEMMA SettledStep ==
  ASSUME GateTypeOK, SettledMatchesProof, [Next]_vars
  PROVE  SettledMatchesProof'
<1>1. ASSUME UNCHANGED <<record, vellum, batch, settledBy>>
      PROVE  SettledMatchesProof'
  BY <1>1 DEF SettledMatchesProof, BindsInputs, ProvenByBlob, CircuitOf
<1>2. CASE MarketStepOfGate
  BY <1>1, <1>2 DEF MarketStepOfGate, gateVars
<1>3. ASSUME NEW a \in Actors, NEW cfg \in ConfigInputs, SetProofConfig(a, cfg)
      PROVE  SettledMatchesProof'
  BY <1>1, <1>3 DEF SetProofConfig
<1>4. ASSUME NEW cfg \in StartableConfigs, RestartNode(cfg)
      PROVE  SettledMatchesProof'
  BY <1>1, <1>4 DEF RestartNode
<1>5. CASE UNCHANGED vars
  BY <1>1, <1>5 DEF vars
<1>. QED  BY <1>2, <1>3, <1>4, <1>5, SettledSubmit, SettledClear DEF Next

(* Whatever was settled through the gate is what the recorded proof of     *)
(* that window binds.                                                      *)
THEOREM SettledIsProven == Spec => []SettledMatchesProof
<1>1. Init => GateTypeOK /\ SettledMatchesProof
  BY GateTypeInit, SettledInit
<1>2. GateTypeOK /\ SettledMatchesProof /\ [Next]_vars => (GateTypeOK /\ SettledMatchesProof)'
  BY GateTypeStep, SettledStep
<1>. QED  BY <1>1, <1>2, PTL DEF Spec
-----------------------------------------------------------------------------
(* A window has one result its record can bind. *)
LEMMA BindingIsUnique ==
  ASSUME NEW k, NEW r, NEW s, BindsInputs(k, r), BindsInputs(k, s)
  PROVE  r = s
  BY DEF BindsInputs, PublicInputsHash

LEMMA FinalStep ==
  ASSUME GateTypeOK, SettledMatchesProof, [Next]_vars,
         NEW k \in Batches, RequireProof, settledBy[k] \in Gated
  PROVE  settledBy'[k] \in Gated /\ batch'[k] = batch[k]
<1>1. ASSUME NEW a \in Actors, NEW j \in Batches, NEW r \in Results, ClearBatch(a, j, r)
      PROVE  settledBy'[k] \in Gated /\ batch'[k] = batch[k]
  <2>1. CASE j # k
    BY <1>1, <2>1 DEF ClearBatch, Put, SettledMatchesProof, GateTypeOK
  <2>2. CASE j = k
    <3>1. settledBy'[k] \in Gated
      BY <1>1, <2>2 DEF ClearBatch, Acceptance, Gated, GateTypeOK
    <3>2. BindsInputs(k, r) /\ BindsInputs(k, batch[k])
      BY <1>1, <2>2 DEF ClearBatch, ClearAllowed, ProofAllows, SettledMatchesProof
    <3>3. batch'[k] = r
      BY <1>1, <2>2 DEF ClearBatch, Put
    <3>. QED  BY <3>1, <3>2, <3>3, BindingIsUnique
  <2>. QED  BY <2>1, <2>2
<1>2. ASSUME UNCHANGED <<batch, settledBy>>
      PROVE  settledBy'[k] \in Gated /\ batch'[k] = batch[k]
  BY <1>2
<1>3. MarketStepOfGate => UNCHANGED <<batch, settledBy>>
  BY DEF MarketStepOfGate, gateVars
<1>4. ASSUME NEW a \in Actors, NEW j \in Batches, NEW t \in ProofTypes, NEW c \in CloseTimes,
             NEW b \in Blobs, NEW h \in InputsHashes, NEW f \in FillsHashes,
             SubmitBatchProof(a, j, t, c, b, h, f)
      PROVE  UNCHANGED <<batch, settledBy>>
  BY <1>4 DEF SubmitBatchProof
<1>5. ASSUME NEW a \in Actors, NEW cfg \in ConfigInputs, SetProofConfig(a, cfg)
      PROVE  UNCHANGED <<batch, settledBy>>
  BY <1>5 DEF SetProofConfig
<1>6. ASSUME NEW cfg \in StartableConfigs, RestartNode(cfg)
      PROVE  UNCHANGED <<batch, settledBy>>
  BY <1>6 DEF RestartNode
<1>7. UNCHANGED vars => UNCHANGED <<batch, settledBy>>
  BY DEF vars
<1>. QED  BY <1>1, <1>2, <1>3, <1>4, <1>5, <1>6, <1>7 DEF Next

(* While proofs are required no step changes a result that was settled     *)
(* through the gate, although ClearBatch overwrites.                       *)
THEOREM GatedResultFinal == Spec => GatedResultIsFinal
<1>1. GateTypeOK /\ SettledMatchesProof /\ [Next]_vars
        => [\A k \in Batches : RequireProof /\ settledBy[k] \in Gated =>
               /\ settledBy'[k] \in Gated
               /\ batch'[k] = batch[k]]_vars
  BY FinalStep
<1>. QED  BY <1>1, GateTypes, SettledIsProven, PTL DEF Spec, GatedResultIsFinal
-----------------------------------------------------------------------------
(* The gate leaves markets, orders, shares, balances and the clock to the  *)
(* operations of the market: a step of the gate is a step of the market or *)
(* changes nothing of it.                                                  *)
LEMMA GateStepOfMarket == [Next]_vars => [MarketNext]_marketVars
  BY DEF Next, vars, marketVars, MarketStepOfGate, SubmitBatchProof, ClearBatch,
         SetProofConfig, RestartNode

(* The market part of the gate is a market as Market specifies it: what is *)
(* proved of MarketSpec holds of the gate (no handler of the gate writes a *)
(* market, an order, a share or a balance).                                *)
THEOREM GateKeepsMarket == Spec => MarketSpec
  BY GateStepOfMarket, PTL DEF Spec, Init, MarketSpec
-----------------------------------------------------------------------------
(* A market that exists never disappears. *)
LEMMA ExistsStays ==
  ASSUME GateTypeOK, [Next]_vars, NEW m \in Markets, Exists(m)
  PROVE  Exists(m)'
<1>1. MarketStep(m)
  BY GateStepOfMarket, LifecycleStep DEF GateTypeOK
<1>. QED  BY <1>1 DEF MarketStep, Exists, GetMarket, GateTypeOK, MarketTypeOK, MarketRecords

LEMMA ArtifactsInit == Init => ProofArtifactsAgree
  BY DEF Init, Empty, ProofArtifactsAgree

LEMMA ArtifactsSubmit ==
  ASSUME GateTypeOK, ProofArtifactsAgree,
         NEW a \in Actors, NEW k \in Batches, NEW t \in ProofTypes, NEW c \in CloseTimes,
         NEW b \in Blobs, NEW h \in InputsHashes, NEW f \in FillsHashes,
         SubmitBatchProof(a, k, t, c, b, h, f)
  PROVE  ProofArtifactsAgree'
<1>1. /\ DOMAIN record' = DOMAIN record \cup {k}
      /\ DOMAIN vellum' = DOMAIN vellum \cup {k}
      /\ DOMAIN glyph' = DOMAIN glyph \cup {k}
  BY DEF SubmitBatchProof, Put
<1>2. ASSUME NEW j \in DOMAIN record'
      PROVE  /\ record'[j].proofCommitment = Sha256(vellum'[j])
             /\ glyph'[j].proofCommitment = record'[j].proofCommitment
             /\ glyph'[j].publicInputsHash = record'[j].publicInputsHash
             /\ glyph'[j].prover = record'[j].prover
             /\ glyph'[j].createdAt = record'[j].submittedAt
  <2>1. CASE j = k
    BY <2>1, <1>1 DEF SubmitBatchProof, Put, NewRecord, DeriveGlyph
  <2>2. CASE j # k
    <3>1. j \in DOMAIN record /\ j \in DOMAIN vellum /\ j \in DOMAIN glyph
      BY <1>1, <2>2 DEF ProofArtifactsAgree
    <3>2. record'[j] = record[j] /\ vellum'[j] = vellum[j] /\ glyph'[j] = glyph[j]
      BY <2>2, <3>1 DEF SubmitBatchProof, Put
    <3>. QED  BY <3>1, <3>2 DEF ProofArtifactsAgree
  <2>. QED  BY <2>1, <2>2
<1>3. \A j \in DOMAIN record' \cup DOMAIN batch' : Exists(j[1])'
  BY <1>1 DEF SubmitBatchProof, SubmitAllowed, ProofArtifactsAgree, IsActive, Exists, GetMarket, marketVars
<1>. QED  BY <1>1, <1>2, <1>3 DEF ProofArtifactsAgree

LEMMA ArtifactsStep ==
  ASSUME GateTypeOK, ProofArtifactsAgree, [Next]_vars
  PROVE  ProofArtifactsAgree'
<1>1. ASSUME UNCHANGED <<record, vellum, glyph, batch>>
      PROVE  ProofArtifactsAgree'
  <2>1. \A k \in DOMAIN record \cup DOMAIN batch : k[1] \in Markets
    BY DEF GateTypeOK, Stores, Batches
  <2>2. \A k \in DOMAIN record \cup DOMAIN batch : Exists(k[1])'
    BY <2>1, ExistsStays DEF ProofArtifactsAgree
  <2>. QED  BY <1>1, <2>2 DEF ProofArtifactsAgree
<1>2. ASSUME NEW a \in Actors, NEW k \in Batches, NEW r \in Results, ClearBatch(a, k, r)
      PROVE  ProofArtifactsAgree'
  <2>1. DOMAIN batch' = DOMAIN batch \cup {k}
    BY <1>2 DEF ClearBatch, Put
  <2>2. \A j \in DOMAIN record \cup DOMAIN batch \cup {k} : Exists(j[1])'
    BY <1>2 DEF ClearBatch, ClearAllowed, ProofArtifactsAgree, IsActive, Exists, GetMarket, marketVars
  <2>. QED  BY <1>2, <2>1, <2>2 DEF ClearBatch, ProofArtifactsAgree
<1>3. CASE MarketStepOfGate
  BY <1>1, <1>3 DEF MarketStepOfGate, gateVars
<1>4. ASSUME NEW a \in Actors, NEW cfg \in ConfigInputs, SetProofConfig(a, cfg)
      PROVE  ProofArtifactsAgree'
  BY <1>1, <1>4 DEF SetProofConfig
<1>5. ASSUME NEW cfg \in StartableConfigs, RestartNode(cfg)
      PROVE  ProofArtifactsAgree'
  BY <1>1, <1>5 DEF RestartNode
<1>6. CASE UNCHANGED vars
  BY <1>1, <1>6 DEF vars
<1>. QED  BY <1>2, <1>3, <1>4, <1>5, <1>6, ArtifactsSubmit DEF Next

(* The record, the blob and the glyph of a window never diverge: neither   *)
(* ErrProofCommitmentMismatch nor a missing blob is reachable in           *)
(* ClearBatch.                                                             *)
THEOREM ArtifactsAgree == Spec => []ProofArtifactsAgree
<1>1. Init => ProofArtifactsAgree
  BY ArtifactsInit
<1>2. GateTypeOK /\ ProofArtifactsAgree /\ [Next]_vars => ProofArtifactsAgree'
  BY ArtifactsStep
<1>. QED  BY <1>1, <1>2, GateTypes, PTL DEF Spec
-----------------------------------------------------------------------------
(* int64 addition never exceeds the sum of integers: where it wraps it     *)
(* only falls.                                                             *)
LEMMA AddInt64Bound ==
  ASSUME NEW a \in Int, NEW b \in Int
  PROVE  AddInt64(a, b) \in Int /\ AddInt64(a, b) <= a + b
  BY GateAssumption DEF AddInt64

(* The proof of a window that has one is never touched again. *)
LEMMA ProofStays ==
  ASSUME ProofArtifactsAgree, [Next]_vars, NEW k \in DOMAIN record
  PROVE  /\ k \in DOMAIN record' /\ record'[k] = record[k]
         /\ k \in DOMAIN vellum' /\ vellum'[k] = vellum[k] /\ glyph'[k] = glyph[k]
<1> DEFINE Stays == /\ k \in DOMAIN record' /\ record'[k] = record[k]
                    /\ k \in DOMAIN vellum' /\ vellum'[k] = vellum[k] /\ glyph'[k] = glyph[k]
<1>1. k \in DOMAIN vellum /\ k \in DOMAIN glyph
  BY DEF ProofArtifactsAgree
<1>2. ASSUME NEW a \in Actors, NEW j \in Batches, NEW t \in ProofTypes, NEW c \in CloseTimes,
             NEW b \in Blobs, NEW h \in InputsHashes, NEW f \in FillsHashes,
             SubmitBatchProof(a, j, t, c, b, h, f)
      PROVE  Stays
  <2>1. j # k
    BY <1>2 DEF SubmitBatchProof, SubmitAllowed, NotSubmitted
  <2>. QED  BY <1>1, <1>2, <2>1 DEF SubmitBatchProof, Put
<1>3. CASE UNCHANGED <<record, vellum, glyph>>
  BY <1>1, <1>3
<1>. QED  BY <1>2, <1>3
          DEF Next, vars, MarketStepOfGate, gateVars, ClearBatch, SetProofConfig, RestartNode

(* A proof that enters the state is on time, counted in integers. *)
LEMMA DeadlineTyped ==
  ASSUME NEW cfg \in ProofConfigs \cup {NoProofConfig}
  PROVE  cfg.proofDeadlineMs \in Nat
<1>1. CASE cfg \in ProofConfigs
  BY <1>1 DEF ProofConfigs
<1>2. CASE cfg = NoProofConfig
  BY <1>2 DEF NoProofConfig
<1>. QED  BY <1>1, <1>2

LEMMA NewProofInTime ==
  ASSUME GateTypeOK, [Next]_vars, NEW k \in DOMAIN record' \ DOMAIN record
  PROVE  /\ 0 <= now - record'[k].windowCloseAt
         /\ now - record'[k].windowCloseAt <= proofConfig.proofDeadlineMs
         /\ record'[k].windowCloseAt % proofConfig.batchWindowMs = 0
<1>1. PICK a \in Actors, j \in Batches, t \in ProofTypes, c \in CloseTimes,
           b \in Blobs, h \in InputsHashes, f \in FillsHashes :
           SubmitBatchProof(a, j, t, c, b, h, f)
  BY DEF Next, vars, MarketStepOfGate, gateVars, ClearBatch, SetProofConfig, RestartNode
<1>2. k = j /\ record'[k].windowCloseAt = c
  BY <1>1 DEF SubmitBatchProof, Put, NewRecord
<1>3. c \in Nat /\ now \in Nat /\ proofConfig.proofDeadlineMs \in Nat
  <2>1. c \in Nat
    BY GateAssumption
  <2>2. now \in Nat
    BY DEF GateTypeOK, MarketTypeOK
  <2>3. proofConfig.proofDeadlineMs \in Nat
    BY DeadlineTyped DEF GateTypeOK
  <2>. QED  BY <2>1, <2>2, <2>3
<1>4. now >= c /\ now <= AddInt64(c, proofConfig.proofDeadlineMs)
  BY <1>1 DEF SubmitBatchProof, SubmitAllowed, InProofWindow
<1>5. now <= c + proofConfig.proofDeadlineMs
  <2> DEFINE deadline == proofConfig.proofDeadlineMs
  <2>1. c \in Int /\ deadline \in Int
    BY <1>3
  <2>2. now \in Int /\ now <= AddInt64(c, deadline)
    BY <1>3, <1>4
  <2> HIDE DEF deadline
  <2>3. AddInt64(c, deadline) \in Int /\ AddInt64(c, deadline) <= c + deadline
    BY <2>1, AddInt64Bound
  <2>4. now <= c + deadline
    BY <2>1, <2>2, <2>3
  <2>. QED  BY <2>4 DEF deadline
<1>6. c % proofConfig.batchWindowMs = 0
  BY <1>1 DEF SubmitBatchProof, SubmitAllowed, ClosesWindow
<1>. QED  BY <1>2, <1>3, <1>4, <1>5, <1>6

(* Every proof is stored on time and is never replaced, nor its blob or    *)
(* its glyph, although SubmitBatchProof adds in int64.                     *)
THEOREM ProofsAreTimelyAndFinal == Spec => ProofsTimelyAndFinal
<1>1. GateTypeOK /\ ProofArtifactsAgree /\ [Next]_vars
        => [/\ \A k \in DOMAIN record :
                  /\ k \in DOMAIN record' /\ record'[k] = record[k]
                  /\ vellum'[k] = vellum[k] /\ glyph'[k] = glyph[k]
            /\ \A k \in DOMAIN record' \ DOMAIN record :
                  LET late == now - record'[k].windowCloseAt IN
                  /\ 0 <= late /\ late <= proofConfig.proofDeadlineMs
                  /\ record'[k].windowCloseAt % proofConfig.batchWindowMs = 0]_vars
  BY ProofStays, NewProofInTime
<1>. QED  BY <1>1, GateTypes, ArtifactsAgree, PTL DEF Spec, ProofsTimelyAndFinal
-----------------------------------------------------------------------------
LEMMA ClaimStays ==
  ASSUME ProofArtifactsAgree, [Next]_vars, NEW k \in Batches, NEW r \in Results,
         ProofAllows(k, r), proofConfig' = proofConfig, verifier' = verifier
  PROVE  ProofAllows(k, r)'
<1>1. k \in DOMAIN record
  BY DEF ProofAllows
<1>2. /\ k \in DOMAIN record' /\ record'[k] = record[k]
      /\ k \in DOMAIN vellum' /\ vellum'[k] = vellum[k]
  BY <1>1, ProofStays
<1>. QED  BY <1>2 DEF ProofAllows, RecordInTime, AddInt64, BindsInputs, CircuitOf

(* A result that the gate would accept stays acceptable until the          *)
(* configuration or the verifier changes: RecordInTime looks at the time   *)
(* of the submission, and records and blobs are never replaced.            *)
THEOREM ClaimsSurvive == Spec => ClaimSurvives
<1>1. ProofArtifactsAgree /\ [Next]_vars
        => [\A k \in Batches, r \in Results :
               /\ ProofAllows(k, r)
               /\ proofConfig' = proofConfig
               /\ verifier' = verifier
               => ProofAllows(k, r)']_vars
  BY ClaimStays
<1>. QED  BY <1>1, ArtifactsAgree, PTL DEF Spec, ClaimSurvives
-----------------------------------------------------------------------------
LEMMA FrozenStep ==
  ASSUME [Next]_vars, NEW k \in Batches, market[k[1]].status \in {"resolved", "disputed"}
  PROVE  /\ k \in DOMAIN batch <=> k \in DOMAIN batch'
         /\ k \in DOMAIN batch => batch'[k] = batch[k]
         /\ k \in DOMAIN record <=> k \in DOMAIN record'
<1> DEFINE Frozen == /\ k \in DOMAIN batch <=> k \in DOMAIN batch'
                     /\ k \in DOMAIN batch => batch'[k] = batch[k]
                     /\ k \in DOMAIN record <=> k \in DOMAIN record'
<1>1. ASSUME NEW a \in Actors, NEW j \in Batches, NEW t \in ProofTypes, NEW c \in CloseTimes,
             NEW b \in Blobs, NEW h \in InputsHashes, NEW f \in FillsHashes,
             SubmitBatchProof(a, j, t, c, b, h, f)
      PROVE  Frozen
  BY <1>1 DEF SubmitBatchProof, SubmitAllowed, Put, IsActive, GetMarket
<1>2. ASSUME NEW a \in Actors, NEW j \in Batches, NEW r \in Results, ClearBatch(a, j, r)
      PROVE  Frozen
  BY <1>2 DEF ClearBatch, ClearAllowed, Put, IsActive, GetMarket
<1>3. CASE UNCHANGED <<record, batch>>
  BY <1>3
<1>. QED  BY <1>1, <1>2, <1>3
          DEF Next, vars, MarketStepOfGate, gateVars, SetProofConfig, RestartNode

(* Once a market is resolved or disputed, neither the proof nor the result *)
(* of its windows appears, changes or disappears.                          *)
THEOREM SettlementsFreeze == Spec => SettlementFrozen
<1>1. [Next]_vars
        => [\A k \in Batches :
               market[k[1]].status \in {"resolved", "disputed"} =>
                  /\ k \in DOMAIN batch <=> k \in DOMAIN batch'
                  /\ k \in DOMAIN batch => batch'[k] = batch[k]
                  /\ k \in DOMAIN record <=> k \in DOMAIN record']_vars
  BY FrozenStep
<1>. QED  BY <1>1, PTL DEF Spec, SettlementFrozen
-----------------------------------------------------------------------------
(* A claim is a function of the record and the blob of the window alone. *)
LEMMA ClaimUnchanged ==
  ASSUME NEW k, k \in DOMAIN record <=> k \in DOMAIN record',
         k \in DOMAIN record => record'[k] = record[k] /\ vellum'[k] = vellum[k]
  PROVE  ClaimOf(k)' = ClaimOf(k)
  BY DEF ClaimOf, Bound, BindsInputs, CircuitOf

(* The result a record binds is the claim of its window. *)
LEMMA BoundIsClaim ==
  ASSUME NEW k \in DOMAIN record, NEW r \in Results, Bound(k, r)
  PROVE  ClaimOf(k) = r
<1>1. record[k].publicInputsHash = PublicInputsHash(CircuitOf(k), k, r)
  BY DEF Bound, BindsInputs
<1>2. record[k].publicInputsHash.result = r
  BY <1>1 DEF PublicInputsHash
<1>. QED  BY <1>2 DEF ClaimOf

(* A window with a record has claimed a result, or nothing for ever. *)
ClaimsTyped == \A k \in DOMAIN record : ClaimOf(k) \in Results \cup {Void}

LEMMA ClaimTyped == ClaimsTyped
<1> SUFFICES ASSUME NEW k \in DOMAIN record PROVE ClaimOf(k) \in Results \cup {Void}
  BY DEF ClaimsTyped
<1>1. CASE \E r \in Results : Bound(k, r)
  BY <1>1, BoundIsClaim
<1>2. CASE ~ \E r \in Results : Bound(k, r)
  BY <1>2 DEF ClaimOf
<1>. QED  BY <1>1, <1>2

LEMMA RefinesInit == Init => Abstract!SettlementInit
<1> SUFFICES ASSUME Init PROVE Abstract!SettlementInit
  OBVIOUS
<1>1. GateState \in {"closed", "open", "absent"}
  BY DEF GateState
<1>2. \A k \in Batches : ClaimOf(k) = Unclaimed
  BY DEF Init, Empty, ClaimOf
<1>3. batch = [k \in {} |-> Void]
  BY DEF Init, Empty
<1>. QED  BY <1>1, <1>2, <1>3 DEF Abstract!SettlementInit

(* The first accepted proof of a window makes its claim. *)
LEMMA SubmitRefines ==
  ASSUME ProofArtifactsAgree, [Next]_vars,
         NEW a \in Actors, NEW k \in Batches, NEW t \in ProofTypes, NEW c \in CloseTimes,
         NEW b \in Blobs, NEW h \in InputsHashes, NEW f \in FillsHashes,
         SubmitBatchProof(a, k, t, c, b, h, f)
  PROVE  Abstract!MakeClaim(k, ClaimOf(k)') /\ ClaimOf(k)' \in Results \cup {Void}
<1>1. GateState = "closed" /\ GateState' = GateState
  BY DEF SubmitBatchProof, SubmitAllowed, GateState, HasProofConfig, RequireProof
<1>2. ClaimOf(k) = Unclaimed
  BY DEF SubmitBatchProof, SubmitAllowed, NotSubmitted, ClaimOf
<1>3. k \in DOMAIN record' /\ \A j \in DOMAIN record' : j = k \/ j \in DOMAIN record
  BY DEF SubmitBatchProof, Put
<1>4. ASSUME NEW j \in Batches, j # k
      PROVE  ClaimOf(j)' = ClaimOf(j)
  BY <1>3, <1>4, ProofStays, ClaimUnchanged
<1>5. ClaimOf(k)' \in Results \cup {Void}
  <2>1. ClaimsTyped'
    BY ClaimTyped, PTL
  <2>. QED  BY <1>3, <2>1 DEF ClaimsTyped
<1>. QED  BY <1>1, <1>2, <1>4, <1>5 DEF SubmitBatchProof, Abstract!MakeClaim

(* A clear settles the claim of the window, or anything while the gate is  *)
(* open.                                                                   *)
LEMMA ClearRefines ==
  ASSUME NEW a \in Actors, NEW k \in Batches, NEW r \in Results, ClearBatch(a, k, r)
  PROVE  Abstract!SettleClaim(k) \/ Abstract!SettleFreely(k, r)
<1>1. GateState' = GateState /\ GateState # "absent"
  BY DEF ClearBatch, ClearAllowed, GateState, HasProofConfig, RequireProof
<1>2. \A j \in Batches : ClaimOf(j)' = ClaimOf(j)
  BY ClaimUnchanged DEF ClearBatch
<1>3. batch' = [j \in DOMAIN batch \cup {k} |-> IF j = k THEN r ELSE batch[j]]
  BY DEF ClearBatch, Put
<1>4. CASE RequireProof
  <2>1. k \in DOMAIN record /\ Bound(k, r)
    BY <1>4 DEF ClearBatch, ClearAllowed, ProofAllows, Bound
  <2>2. ClaimOf(k) = r
    BY <2>1, BoundIsClaim
  <2>3. GateState = "closed"
    BY <1>1, <1>4 DEF GateState
  <2>. QED  BY <1>1, <1>2, <1>3, <2>2, <2>3 DEF Abstract!SettleClaim, Abstract!SetResult
<1>5. CASE ~RequireProof
  <2>1. GateState = "open"
    BY <1>1, <1>5 DEF GateState
  <2>. QED  BY <1>1, <1>2, <1>3, <2>1 DEF Abstract!SettleFreely, Abstract!SetResult
<1>. QED  BY <1>4, <1>5

(* Governance opens and closes the gate, and can never take it away. *)
LEMMA SetConfigRefines ==
  ASSUME NEW a \in Actors, NEW cfg \in ConfigInputs, SetProofConfig(a, cfg)
  PROVE  Abstract!MoveGate(GateState') /\ GateState' \in {"closed", "open"}
<1>1. \A j \in Batches : ClaimOf(j)' = ClaimOf(j)
  BY ClaimUnchanged DEF SetProofConfig
<1>2. GateState # "absent"
  BY DEF SetProofConfig, GateState
<1>3. HasProofConfig'
  BY DEF SetProofConfig, ValidProofConfig, HasProofConfig, NoProofConfig
<1>4. GateState' \in {"closed", "open"}
  BY <1>3 DEF GateState
<1>. QED  BY <1>1, <1>2, <1>4 DEF SetProofConfig, Abstract!MoveGate

LEMMA RefinesStep ==
  ASSUME ProofArtifactsAgree, [Next]_vars
  PROVE  [Abstract!SettlementNext]_<<GateState, [k \in Batches |-> ClaimOf(k)], batch>>
<1>1. ASSUME NEW a \in Actors, NEW k \in Batches, NEW t \in ProofTypes, NEW c \in CloseTimes,
             NEW b \in Blobs, NEW h \in InputsHashes, NEW f \in FillsHashes,
             SubmitBatchProof(a, k, t, c, b, h, f)
      PROVE  Abstract!SettlementNext
  BY <1>1, SubmitRefines DEF Abstract!SettlementNext
<1>2. ASSUME NEW a \in Actors, NEW k \in Batches, NEW r \in Results, ClearBatch(a, k, r)
      PROVE  Abstract!SettlementNext
  BY <1>2, ClearRefines DEF Abstract!SettlementNext
<1>3. ASSUME NEW a \in Actors, NEW cfg \in ConfigInputs, SetProofConfig(a, cfg)
      PROVE  Abstract!SettlementNext
  BY <1>3, SetConfigRefines DEF Abstract!SettlementNext
<1>4. ASSUME UNCHANGED <<proofConfig, record, vellum, batch>>
      PROVE  UNCHANGED <<GateState, [k \in Batches |-> ClaimOf(k)], batch>>
  <2>1. \A j \in Batches : ClaimOf(j)' = ClaimOf(j)
    BY <1>4, ClaimUnchanged
  <2>. QED  BY <1>4, <2>1 DEF GateState, HasProofConfig, RequireProof
<1>. QED  BY <1>1, <1>2, <1>3, <1>4
          DEF Next, vars, MarketStepOfGate, gateVars, RestartNode

(* The proof gate, with its records, blobs, deadlines, verifiers and       *)
(* restarts, implements the abstract settlement: while proofs are required *)
(* a window settles to the one result its first accepted proof fixed, or   *)
(* never.                                                                  *)
THEOREM GateImplementsSettlement == Spec => ImplementsSettlement
<1>1. ProofArtifactsAgree /\ [Next]_vars
        => [Abstract!SettlementNext]_<<GateState, [k \in Batches |-> ClaimOf(k)], batch>>
  BY RefinesStep
<1>. QED  BY RefinesInit, <1>1, ArtifactsAgree, PTL
          DEF Spec, ImplementsSettlement, Abstract!SettlementSpec
-----------------------------------------------------------------------------
(* What makes the counters inductive: there are finitely many records and  *)
(* none is from the future.                                                *)
RecordsFromThePast ==
    /\ IsFiniteSet(DOMAIN record)
    /\ \A k \in DOMAIN record : record[k].submittedAt <= now

LEMMA CountsInit == Init => RecordsFromThePast /\ BloodswornCounts
<1> SUFFICES ASSUME Init PROVE RecordsFromThePast /\ BloodswornCounts
  OBVIOUS
<1>1. DOMAIN record = {} /\ \A a \in Actors : RecordsOf(a) = {}
  BY DEF Init, Empty, RecordsOf
<1>2. IsFiniteSet({}) /\ Cardinality({}) = 0
  BY FS_EmptySet
<1>. QED  BY <1>1, <1>2 DEF Init, RecordsFromThePast, BloodswornCounts, NoProofs

LEMMA CountedProof ==
  ASSUME NEW a \in Actors, CountProof(a), a \in DOMAIN bloodsworn
  PROVE  /\ bloodsworn'[a].totalAccepted = bloodsworn[a].totalAccepted + 1
         /\ bloodsworn'[a].activeStreak = bloodsworn[a].activeStreak + 1
         /\ bloodsworn'[a].lastProofAt = now
<1>. PICK total, streak : /\ total = bloodsworn[a].totalAccepted + 1
                          /\ streak = bloodsworn[a].activeStreak + 1
  OBVIOUS
<1>1. bloodsworn'[a] = [totalAccepted |-> total, activeStreak |-> streak, lastProofAt |-> now]
  BY DEF CountProof
<1>2. bloodsworn'[a].totalAccepted = total
  BY <1>1
<1>3. bloodsworn'[a].activeStreak = streak
  BY <1>1
<1>4. bloodsworn'[a].lastProofAt = now
  BY <1>1
<1>. QED  BY <1>2, <1>3, <1>4

LEMMA CountsSubmit ==
  ASSUME GateTypeOK, RecordsFromThePast, BloodswornCounts,
         NEW a \in Actors, NEW k \in Batches, NEW t \in ProofTypes, NEW c \in CloseTimes,
         NEW b \in Blobs, NEW h \in InputsHashes, NEW f \in FillsHashes,
         SubmitBatchProof(a, k, t, c, b, h, f)
  PROVE  (RecordsFromThePast /\ BloodswornCounts)'
<1>1. k \notin DOMAIN record /\ DOMAIN record' = DOMAIN record \cup {k}
  BY DEF SubmitBatchProof, SubmitAllowed, NotSubmitted, Put
<1>2. record'[k].prover = a /\ record'[k].submittedAt = now /\ now' = now
  BY DEF SubmitBatchProof, Put, NewRecord, marketVars
<1>3. \A j \in DOMAIN record : record'[j] = record[j]
  BY <1>1 DEF SubmitBatchProof, Put
<1>4. now \in Nat /\ \A j \in DOMAIN record : record[j].submittedAt \in Nat
  BY DEF GateTypeOK, MarketTypeOK, Stores, ProofRecords
<1>5. now <= now
  <2>1. now \in Nat
    BY <1>4
  <2>. QED  BY <2>1
<1>6. RecordsFromThePast'
  <2>1. IsFiniteSet(DOMAIN record')
    BY <1>1, FS_AddElement DEF RecordsFromThePast
  <2>2. record'[k].submittedAt <= now'
    BY <1>2, <1>5, Zenon
  <2>3. ASSUME NEW j \in DOMAIN record
        PROVE  record'[j].submittedAt <= now'
    BY <1>2, <1>3 DEF RecordsFromThePast
  <2>. QED  BY <2>1, <2>2, <2>3, <1>1 DEF RecordsFromThePast
<1>7. ASSUME NEW p \in Actors
      PROVE  /\ bloodsworn'[p].totalAccepted = Cardinality(RecordsOf(p)')
             /\ bloodsworn'[p].activeStreak = bloodsworn'[p].totalAccepted
             /\ \A j \in RecordsOf(p)' : record'[j].submittedAt <= bloodsworn'[p].lastProofAt
             /\ RecordsOf(p)' # {} =>
                   \E j \in RecordsOf(p)' : record'[j].submittedAt = bloodsworn'[p].lastProofAt
  <2>1. CASE p # a
    <3>1. bloodsworn'[p] = bloodsworn[p]
      BY <2>1 DEF SubmitBatchProof, CountProof, GateTypeOK
    <3>2. RecordsOf(p)' = RecordsOf(p)
      BY <2>1, <1>1, <1>2, <1>3 DEF RecordsOf
    <3>3. \A j \in RecordsOf(p) : record'[j] = record[j]
      BY <1>3 DEF RecordsOf
    <3>. QED  BY <3>1, <3>2, <3>3 DEF BloodswornCounts
  <2>2. CASE p = a
    <3>1. /\ bloodsworn'[a].totalAccepted = bloodsworn[a].totalAccepted + 1
          /\ bloodsworn'[a].activeStreak = bloodsworn[a].activeStreak + 1
          /\ bloodsworn'[a].lastProofAt = now
      <4>1. CountProof(a) /\ a \in DOMAIN bloodsworn
        BY DEF SubmitBatchProof, GateTypeOK
      <4>. QED  BY <4>1, CountedProof, Zenon
    <3>2. RecordsOf(a)' = RecordsOf(a) \cup {k} /\ k \notin RecordsOf(a)
      BY <1>1, <1>2, <1>3 DEF RecordsOf
    <3>3. IsFiniteSet(RecordsOf(a))
      BY FS_Subset DEF RecordsFromThePast, RecordsOf
    <3>4. Cardinality(RecordsOf(a)') = Cardinality(RecordsOf(a)) + 1
      BY <3>2, <3>3, FS_AddElement
    <3>5. \A j \in RecordsOf(a) : record'[j].submittedAt <= now
      BY <1>3 DEF RecordsOf, RecordsFromThePast
    <3>6. /\ bloodsworn[a].totalAccepted = Cardinality(RecordsOf(a))
          /\ bloodsworn[a].activeStreak = bloodsworn[a].totalAccepted
      BY DEF BloodswornCounts
    <3>7. /\ bloodsworn'[a].totalAccepted = Cardinality(RecordsOf(a)')
          /\ bloodsworn'[a].activeStreak = bloodsworn'[a].totalAccepted
      BY <3>1, <3>4, <3>6, Zenon
    <3>8. \A j \in RecordsOf(a)' : record'[j].submittedAt <= bloodsworn'[a].lastProofAt
      BY <3>1, <3>2, <3>5, <1>2, <1>5, Zenon
    <3>9. \E j \in RecordsOf(a)' : record'[j].submittedAt = bloodsworn'[a].lastProofAt
      BY <3>1, <3>2, <1>2, Zenon
    <3>. QED  BY <2>2, <3>7, <3>8, <3>9
  <2>. QED  BY <2>1, <2>2
<1>. QED  BY <1>6, <1>7 DEF BloodswornCounts

LEMMA CountsStep ==
  ASSUME GateTypeOK, RecordsFromThePast, BloodswornCounts, [Next]_vars
  PROVE  (RecordsFromThePast /\ BloodswornCounts)'
<1>1. ASSUME UNCHANGED <<record, bloodsworn>>
      PROVE  (RecordsFromThePast /\ BloodswornCounts)'
  <2>1. now \in Nat /\ now' \in Nat /\ now <= now'
    <3>1. now' = now \/ now' = now + 1
      BY GateStepOfMarket
         DEF MarketNext, marketVars, Tick, CreateMarket, CommitOrder, RevealBatch,
             ResolveMarket, Dispute
    <3>. QED  BY <3>1 DEF GateTypeOK, MarketTypeOK
  <2>2. \A k \in DOMAIN record : record[k].submittedAt \in Nat
    BY DEF GateTypeOK, Stores, ProofRecords
  <2>3. RecordsFromThePast'
    BY <1>1, <2>1, <2>2 DEF RecordsFromThePast
  <2>4. \A a \in Actors : RecordsOf(a)' = RecordsOf(a)
    BY <1>1 DEF RecordsOf
  <2>. QED  BY <1>1, <2>3, <2>4 DEF BloodswornCounts
<1>. QED  BY <1>1, CountsSubmit
          DEF Next, vars, MarketStepOfGate, gateVars, ClearBatch, SetProofConfig, RestartNode

(* The bloodsworn counters count exactly the stored proofs of each prover  *)
(* and date the latest one, for any number of windows and provers.         *)
THEOREM CountsAreExact == Spec => []BloodswornCounts
<1>1. GateTypeOK /\ RecordsFromThePast /\ BloodswornCounts /\ [Next]_vars
        => (RecordsFromThePast /\ BloodswornCounts)'
  BY CountsStep
<1>. QED  BY CountsInit, <1>1, GateTypes, PTL DEF Spec
=============================================================================
