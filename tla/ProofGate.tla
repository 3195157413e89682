------------------------------ MODULE ProofGate ------------------------------
(***************************************************************************)
(* Proof-gated settlement of batch windows: submission of a batch proof,   *)
(* clearing, the proof configuration held by governance and the verifier   *)
(* a node process installs when it starts, on top of the market.           *)
(*                                                                         *)
(* A part of the chain state whose keys may be absent is a function over   *)
(* the keys that are present.                                              *)
(***************************************************************************)
EXTENDS Market, ProofVerifier, FiniteSets

CONSTANTS
    Governance,          \* TreasuryConfig.Governance, written at genesis only
    ZeroAddress,         \* codec.EmptyAddress, nobody's address
    GenesisProofConfigs, \* proof configurations genesis may store
    ConfigInputs,        \* configurations SetProofConfig is called with
    NodeConfigs,         \* verifier configurations of a node process
    Blobs,               \* proof blobs of legal size
    InputsHashes,        \* public inputs hashes submitted with a proof
    CloseTimes,          \* window close times submitted with a proof
    Prices, Volumes,     \* uint64 inputs of ClearBatch, price 0 included
    FillsHashes,         \* 32-byte fills hashes
    MaxInt64             \* largest millisecond timestamp

VARIABLES
    proofConfig,  \* ProofConfigKey
    record,       \* BatchProofKey
    vellum,       \* VellumProofKey: the stored blob
    glyph,        \* GlyphKey
    bloodsworn,   \* BloodswornKey (an absent key reads as zeros)
    batch,        \* BatchKey: the stored result
    verifier,     \* proofVerifier and strictProofVerifier of the process
    settledBy     \* history: how the stored result of a window was accepted

gateVars == <<proofConfig, record, vellum, glyph, bloodsworn, batch,
              verifier, settledBy>>
vars == <<now, balance, market, commitment, oracle,
          proofConfig, record, vellum, glyph, bloodsworn, batch,
          verifier, settledBy>>

Results == [clearPrice : Prices, totalVolume : Volumes, fillsHash : FillsHashes]

ProofConfigs ==
    [requireProof : BOOLEAN, requiredProofType : ProofTypes,
     batchWindowMs : Nat \ {0}, proofDeadlineMs : Nat \ {0},
     proverAuthority : Actors]

(* A genesis without the tokenomics section stores neither the treasury    *)
(* nor the proof configuration.                                            *)
NoProofConfig ==
    [requireProof |-> FALSE, requiredProofType |-> 0, batchWindowMs |-> 0,
     proofDeadlineMs |-> 0, proverAuthority |-> ZeroAddress]

ASSUME GateAssumption ==
    /\ CloseTimes \subseteq Nat
    /\ Prices \subseteq Nat
    /\ Volumes \subseteq Nat
    /\ MaxInt64 \in Nat
    /\ ZeroAddress \notin Actors
    /\ \A blob \in Blobs : blob.proves = NoHash \/ Provable(blob.proves)
    /\ GenesisProofConfigs \subseteq ProofConfigs \cup {NoProofConfig}
    /\ ConfigInputs \subseteq
          [requireProof : BOOLEAN, requiredProofType : Nat, batchWindowMs : Int,
           proofDeadlineMs : Int, proverAuthority : Actors \cup {ZeroAddress}]
    /\ NodeConfigs \subseteq
          [enabled : BOOLEAN, strict : BOOLEAN, keys : SUBSET ProofTypes, required : STRING]

Put(store, key, value) ==
    [j \in DOMAIN store \cup {key} |-> IF j = key THEN value ELSE store[j]]
Empty == [j \in {} |-> {}]

(* int64 addition of two values that are not negative. *)
AddInt64(a, b) ==
    IF a + b > MaxInt64 THEN a + b - 2 * (MaxInt64 + 1) ELSE a + b

HasProofConfig == proofConfig # NoProofConfig
RequireProof == proofConfig.requireProof

(* Fault: a proof that is verified may come from anybody. *)
IsProverAuthority_Verified(actor) == verifier.installed \/ actor = proofConfig.proverAuthority

IsProverAuthority(actor) == actor = proofConfig.proverAuthority
-----------------------------------------------------------------------------
(* SubmitBatchProof *)

ClosesWindow(close) == close > 0 /\ close % proofConfig.batchWindowMs = 0

(* Fault: a proof is taken before its window has closed. *)
InProofWindow_Early(close) == now <= AddInt64(close, proofConfig.proofDeadlineMs)

InProofWindow(close) ==
    /\ now >= close
    /\ now <= AddInt64(close, proofConfig.proofDeadlineMs)

(* Fault: a second proof of a window replaces the first. *)
NotSubmitted_Replaces(k) == TRUE

(* Fault: the check for an earlier proof looks for a result instead. *)
NotSubmitted_LooksAtBatch(k) == k \notin DOMAIN batch

NotSubmitted(k) == k \notin DOMAIN record

NewRecord(actor, close, blob, inputsHash, fillsHash) ==
    [proofType |-> proofConfig.requiredProofType, submittedAt |-> now,
     windowCloseAt |-> close, prover |-> actor, proofCommitment |-> Sha256(blob),
     publicInputsHash |-> inputsHash, fillsHash |-> fillsHash]

CountProof(actor) ==
    bloodsworn' = [bloodsworn EXCEPT ![actor] =
        [totalAccepted |-> @.totalAccepted + 1,
         activeStreak |-> @.activeStreak + 1,
         lastProofAt |-> now]]

(* Fault: the glyph is credited to the governance address. *)
DeriveGlyph_Governance(actor, blob, inputsHash) ==
    [createdAt |-> now, prover |-> Governance, proofCommitment |-> Sha256(blob),
     publicInputsHash |-> inputsHash]

(* Class and rarity of the glyph are derived from a digest, never 0 and    *)
(* read by no handler: they are left out.                                  *)
DeriveGlyph(actor, blob, inputsHash) ==
    [createdAt |-> now, prover |-> actor, proofCommitment |-> Sha256(blob),
     publicInputsHash |-> inputsHash]

(* What the handler checks before it writes.  The proof type argument must *)
(* equal the required one.  The public inputs hash is not compared with    *)
(* anything of the window here: that is left to ClearBatch.                *)
SubmitAllowed(actor, k, proofType, close, blob, inputsHash) ==
    /\ IsActive(k[1])
    /\ HasProofConfig
    /\ RequireProof
    /\ IsProverAuthority(actor)
    /\ proofType = proofConfig.requiredProofType
    /\ ClosesWindow(close)
    /\ InProofWindow(close)
    /\ NotSubmitted(k)
    /\ VerifyBatchProofInConsensus(verifier, proofConfig.requiredProofType, blob, inputsHash)

SubmitBatchProof(actor, k, proofType, close, blob, inputsHash, fillsHash) ==
    /\ SubmitAllowed(actor, k, proofType, close, blob, inputsHash)
    /\ record' = Put(record, k, NewRecord(actor, close, blob, inputsHash, fillsHash))
    /\ vellum' = Put(vellum, k, blob)
    /\ CountProof(actor)
    /\ glyph' = Put(glyph, k, DeriveGlyph(actor, blob, inputsHash))
    /\ UNCHANGED <<marketVars, proofConfig, batch, verifier, settledBy>>
-----------------------------------------------------------------------------
(* ClearBatch *)

(* Fault: the deadline is applied to the time of the clear. *)
RecordInTime_Now(k) ==
    now <= AddInt64(record[k].windowCloseAt, proofConfig.proofDeadlineMs)

(* The deadline of the current configuration is applied to the record. *)
RecordInTime(k) ==
    record[k].submittedAt <= AddInt64(record[k].windowCloseAt, proofConfig.proofDeadlineMs)

CircuitOf(k) == NormalizeCircuitID(CircuitID(vellum[k]))

BindsInputs(k, result) ==
    /\ CircuitOf(k) \in SupportedCircuits
    /\ record[k].publicInputsHash = PublicInputsHash(CircuitOf(k), k, result)

(* Fault: the public inputs are not bound to the window and the result. *)
ProofAllows_NoBinding(k, result) ==
    /\ k \in DOMAIN record
    /\ record[k].proofType = proofConfig.requiredProofType
    /\ RecordInTime(k)
    /\ record[k].fillsHash = result.fillsHash
    /\ Parses(vellum[k])
    /\ VerifyBatchProofInConsensus(verifier, record[k].proofType, vellum[k],
                                   record[k].publicInputsHash)

ProofAllows(k, result) ==
    /\ k \in DOMAIN record
    /\ record[k].proofType = proofConfig.requiredProofType
    /\ RecordInTime(k)
    /\ record[k].fillsHash = result.fillsHash
    /\ k \in DOMAIN vellum
    /\ record[k].proofCommitment = Sha256(vellum[k])
    /\ Parses(vellum[k])
    /\ BindsInputs(k, result)
    /\ VerifyBatchProofInConsensus(verifier, record[k].proofType, vellum[k],
                                   PublicInputsHash(CircuitOf(k), k, result))

Acceptance ==
    IF ~RequireProof THEN "open"
    ELSE IF verifier.installed THEN "verified" ELSE "unverified"

(* Fault: the status of the market is not looked at. *)
ClearAllowed_AnyStatus(actor, k, result) ==
    /\ result.clearPrice # 0
    /\ Exists(k[1])
    /\ HasProofConfig
    /\ RequireProof => IsProverAuthority(actor) /\ ProofAllows(k, result)

ClearAllowed(actor, k, result) ==
    /\ result.clearPrice # 0
    /\ IsActive(k[1])
    /\ HasProofConfig
    /\ RequireProof => IsProverAuthority(actor) /\ ProofAllows(k, result)

(* A result already stored for the window is replaced. *)
ClearBatch(actor, k, result) ==
    /\ ClearAllowed(actor, k, result)
    /\ batch' = Put(batch, k, result)
    /\ settledBy' = [settledBy EXCEPT ![k] = Acceptance]
    /\ UNCHANGED <<marketVars, proofConfig, record, vellum, glyph, bloodsworn, verifier>>
-----------------------------------------------------------------------------
(* Fault: a configuration without a prover authority is stored. *)
ValidProofConfig_AnyAuthority(cfg) ==
    /\ cfg.requiredProofType \in ProofTypes
    /\ cfg.batchWindowMs > 0
    /\ cfg.proofDeadlineMs > 0

ValidProofConfig(cfg) ==
    /\ cfg.requiredProofType \in ProofTypes
    /\ cfg.batchWindowMs > 0
    /\ cfg.proofDeadlineMs > 0
    /\ cfg.proverAuthority # ZeroAddress

(* GetTreasuryConfig fails exactly when genesis stored no configuration. *)
SetProofConfig(actor, cfg) ==
    /\ HasProofConfig
    /\ actor = Governance
    /\ ValidProofConfig(cfg)
    /\ proofConfig' = cfg
    /\ UNCHANGED <<marketVars, record, vellum, glyph, bloodsworn, batch, verifier, settledBy>>

(* The configurations a node process comes up with, whether or not it      *)
(* finds the fixture key.                                                  *)
StartableConfigs ==
    {cfg \in {ResolveZKConfig(c, fixtureKey) : c \in NodeConfigs, fixtureKey \in BOOLEAN} :
        Starts(cfg)}

(* The chain state survives; the verifier is set up again from whatever    *)
(* configuration the new process has.                                      *)
RestartNode(cfg) ==
    /\ verifier' = InstallBatchProofVerifier(cfg)
    /\ UNCHANGED <<marketVars, proofConfig, record, vellum, glyph, bloodsworn, batch, settledBy>>
-----------------------------------------------------------------------------
NoProofs == [totalAccepted |-> 0, activeStreak |-> 0, lastProofAt |-> 0]

Init ==
    /\ MarketInit
    /\ proofConfig \in GenesisProofConfigs
    /\ record = Empty
    /\ vellum = Empty
    /\ glyph = Empty
    /\ bloodsworn = [a \in Actors |-> NoProofs]
    /\ batch = Empty
    /\ \E cfg \in StartableConfigs : verifier = InstallBatchProofVerifier(cfg)
    /\ settledBy = [k \in Batches |-> "none"]

MarketStepOfGate == MarketNext /\ UNCHANGED gateVars

Next ==
    \/ \E cfg \in StartableConfigs : RestartNode(cfg)
    \/ MarketStepOfGate
    \/ \E a \in Actors, k \in Batches, t \in ProofTypes, c \in CloseTimes,
          b \in Blobs, h \in InputsHashes, f \in FillsHashes :
          SubmitBatchProof(a, k, t, c, b, h, f)
    \/ \E a \in Actors, k \in Batches, r \in Results : ClearBatch(a, k, r)
    \/ \E a \in Actors, cfg \in ConfigInputs : SetProofConfig(a, cfg)

Spec == Init /\ [][Next]_vars
-----------------------------------------------------------------------------
ProofRecords ==
    [proofType : ProofTypes, submittedAt : Nat, windowCloseAt : Nat, prover : Actors,
     proofCommitment : {Sha256(b) : b \in Blobs}, publicInputsHash : InputsHashes,
     fillsHash : FillsHashes]

Glyphs ==
    [createdAt : Nat, prover : Actors, proofCommitment : {Sha256(b) : b \in Blobs},
     publicInputsHash : InputsHashes]

Stores(store, values) ==
    /\ DOMAIN store \subseteq Batches
    /\ \A k \in DOMAIN store : store[k] \in values

(* Every stored value has the shape its handler writes; in particular the  *)
(* stored proof configuration is valid whenever there is one, so that the  *)
(* validation in GetProofConfig never rejects what PutProofConfig stored.  *)
GateTypeOK ==
    /\ MarketTypeOK
    /\ proofConfig \in ProofConfigs \cup {NoProofConfig}
    /\ Stores(record, ProofRecords)
    /\ Stores(vellum, Blobs)
    /\ Stores(glyph, Glyphs)
    /\ Stores(batch, Results)
    /\ bloodsworn \in [Actors -> [totalAccepted : Nat, activeStreak : Nat, lastProofAt : Nat]]
    /\ verifier \in Verifiers
    /\ settledBy \in [Batches -> {"none", "open", "unverified", "verified"}]

Gated == {"unverified", "verified"}

ProvenByBlob(k) ==
    /\ vellum[k].proves = record[k].publicInputsHash
    /\ CircuitOf(k) = ShieldedLedgerV1 => k[2] # 0 /\ batch[k].totalVolume # 0

(* A result stored by a clear that the gate let through is the result of   *)
(* the proof recorded for that very window: same fills, and the recorded   *)
(* public inputs hash is the hash of market, window, price, volume and     *)
(* fills for the circuit of the stored blob.  If a verifier was installed, *)
(* the stored blob also proves that hash, and what the circuit demands of  *)
(* its inputs holds of the result.  The record was written by another      *)
(* transaction, under a configuration and by a process that may have       *)
(* changed since (SubmitBatchProof, ClearBatch).                           *)
SettledMatchesProof ==
    \A k \in Batches :
        /\ settledBy[k] \in Gated =>
              /\ k \in DOMAIN batch /\ k \in DOMAIN record /\ k \in DOMAIN vellum
              /\ batch[k].clearPrice # 0
              /\ record[k].fillsHash = batch[k].fillsHash
              /\ BindsInputs(k, batch[k])
        /\ settledBy[k] = "verified" => ProvenByBlob(k)

(* While proofs are required, a window settled through the gate keeps its  *)
(* result: ClearBatch overwrites without asking whether the window was     *)
(* cleared before, but only ever with the same result.                     *)
GatedResultIsFinal ==
    [][\A k \in Batches :
          RequireProof /\ settledBy[k] \in Gated =>
             /\ settledBy'[k] \in Gated
             /\ batch'[k] = batch[k]]_vars

(* The record, the blob and the glyph of a window are written together and *)
(* never diverge, so ErrProofCommitmentMismatch and a missing blob are     *)
(* unreachable in ClearBatch; and a window has a proof or a result only if *)
(* its market was created.                                                 *)
ProofArtifactsAgree ==
    /\ DOMAIN record = DOMAIN vellum
    /\ DOMAIN record = DOMAIN glyph
    /\ \A k \in DOMAIN record :
          /\ record[k].proofCommitment = Sha256(vellum[k])
          /\ glyph[k].proofCommitment = record[k].proofCommitment
          /\ glyph[k].publicInputsHash = record[k].publicInputsHash
          /\ glyph[k].prover = record[k].prover
          /\ glyph[k].createdAt = record[k].submittedAt
    /\ \A k \in DOMAIN record \cup DOMAIN batch : Exists(k[1])

RecordsOf(actor) == {k \in DOMAIN record : record[k].prover = actor}

(* The bloodsworn counters of a prover count exactly the windows whose     *)
(* stored proof is theirs, and the last proof time is that of the latest   *)
(* of them, through every change of prover authority.                      *)
BloodswornCounts ==
    \A a \in Actors :
        /\ bloodsworn[a].totalAccepted = Cardinality(RecordsOf(a))
        /\ bloodsworn[a].activeStreak = bloodsworn[a].totalAccepted
        /\ \A k \in RecordsOf(a) : record[k].submittedAt <= bloodsworn[a].lastProofAt
        /\ RecordsOf(a) # {} =>
              \E k \in RecordsOf(a) : record[k].submittedAt = bloodsworn[a].lastProofAt

(* A proof enters the state only on a multiple of the window length, at or *)
(* after the close and within the deadline counted in true integers,       *)
(* although the handler adds in int64 and any positive deadline is legal;  *)
(* and no step changes a record, its blob or its glyph afterwards.         *)
ProofsTimelyAndFinal ==
    [][/\ \A k \in DOMAIN record :
             /\ k \in DOMAIN record' /\ record'[k] = record[k]
             /\ vellum'[k] = vellum[k] /\ glyph'[k] = glyph[k]
       /\ \A k \in DOMAIN record' \ DOMAIN record :
             LET late == now - record'[k].windowCloseAt IN
             /\ 0 <= late /\ late <= proofConfig.proofDeadlineMs
             /\ record'[k].windowCloseAt % proofConfig.batchWindowMs = 0
      ]_vars

(* A result the gate would accept for a window stays acceptable for as     *)
(* long as the configuration, the verifier and the market do not change:   *)
(* no other transaction and no passing of time can strand it, because the  *)
(* deadline in ClearBatch is applied to the time of submission.            *)
ClaimSurvives ==
    [][\A k \in Batches, r \in Results :
          /\ ProofAllows(k, r)
          /\ proofConfig' = proofConfig
          /\ verifier' = verifier
          => ProofAllows(k, r)']_vars

(* When the market of a window is no longer active its proof and its       *)
(* result are frozen, also while the market is disputed.                   *)
SettlementFrozen ==
    [][\A k \in Batches :
          market[k[1]].status \in {"resolved", "disputed"} =>
             /\ k \in DOMAIN batch <=> k \in DOMAIN batch'
             /\ k \in DOMAIN batch => batch'[k] = batch[k]
             /\ k \in DOMAIN record <=> k \in DOMAIN record']_vars
-----------------------------------------------------------------------------
(* README.md, line 14: "Batches clear only when a valid ZK proof is        *)
(* submitted and verified at consensus".  Every stored result is proven by *)
(* the blob stored for its window.                                         *)
ClearedOnlyWhenProven ==
    \A k \in DOMAIN batch :
        /\ k \in DOMAIN vellum
        /\ vellum[k].proves = PublicInputsHash(CircuitOf(k), k, batch[k])
-----------------------------------------------------------------------------
Unclaimed == [claim |-> "unclaimed"]
Void == [claim |-> "void"]

(* The result bound by the proof of a window, if it binds one. *)
Bound(k, r) == r.clearPrice # 0 /\ record[k].fillsHash = r.fillsHash /\ BindsInputs(k, r)
ClaimOf(k) ==
    IF k \notin DOMAIN record THEN Unclaimed
    ELSE IF \E r \in Results : Bound(k, r) THEN record[k].publicInputsHash.result
    ELSE Void

GateState ==
    IF ~HasProofConfig THEN "absent" ELSE IF RequireProof THEN "closed" ELSE "open"

Abstract == INSTANCE Settlement WITH
    gate <- GateState,
    claim <- [k \in Batches |-> ClaimOf(k)],
    result <- batch

(* The proof gate implements the abstract settlement. *)
ImplementsSettlement == Abstract!SettlementSpec
=============================================================================
