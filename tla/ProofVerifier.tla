---------------------------- MODULE ProofVerifier ----------------------------
(***************************************************************************)
(* Proof envelopes and the process-wide batch proof verifier: how a node   *)
(* configuration becomes an installed verifier, how a proof blob is parsed *)
(* and when it is accepted in consensus.  There is no state here.          *)
(*                                                                         *)
(* A proof blob is abstracted to what decides its fate:                    *)
(*   magic    "VZK1", "VZK2", or "raw" when neither prefix is there        *)
(*   sound    the lengths in the header are positive and add up            *)
(*   type     the proof type byte of the header                            *)
(*   circuit  the circuit ID of a VZK2 header                              *)
(*   proves   the public inputs hash for which the proof and its witness   *)
(*            satisfy the verifying key, NoHash if there is none           *)
(***************************************************************************)
EXTENDS Integers

Groth16 == 1
Plonk == 2
ProofTypes == {Groth16, Plonk}

ClearHashV1 == "clearhash-v1"
ShieldedLedgerV1 == "shielded-ledger-v1"
SupportedCircuits == {ClearHashV1, ShieldedLedgerV1}

(* SHA-256 of the domain-separated preimages, taken to be injective: the   *)
(* digest is the tuple of what is hashed.                                  *)
PublicInputsHash(circuit, k, result) ==
    [circuit |-> circuit, market |-> k[1], window |-> k[2], result |-> result]
NoHash == [circuit |-> "none"]
Sha256(blob) == [digestOf |-> blob]

(* What a circuit constrains beyond the digest.  A preimage of the length  *)
(* of clearhash-v1 is all that circuit asks for; shielded-ledger-v1 also   *)
(* fixes the domain tag and the length of the fills hash, and wants every  *)
(* field other than zero (markets and fills hashes are never zero here).   *)
(* The lengths differ, so no digest belongs to both.                       *)
ClearHashCircuit(h) == h.circuit = ClearHashV1
ShieldedLedgerCircuitV1(h) ==
    /\ h.circuit = ShieldedLedgerV1
    /\ h.window # 0 /\ h.result.clearPrice # 0 /\ h.result.totalVolume # 0
Provable(h) == ClearHashCircuit(h) \/ ShieldedLedgerCircuitV1(h)

(* A missing circuit ID stands for clearhash-v1. *)
NormalizeCircuitID(circuit) == IF circuit = "" THEN ClearHashV1 ELSE circuit

HasEnvelope(blob) == blob.magic # "raw"

(* Without a known prefix the whole blob is the proof: it parses, with no  *)
(* circuit ID and no witness.                                              *)
Parses(blob) == HasEnvelope(blob) => blob.sound
CircuitID(blob) == IF blob.magic = "VZK2" THEN blob.circuit ELSE ""
-----------------------------------------------------------------------------
(* A node configuration after the environment overrides:                   *)
(* [enabled, strict : BOOLEAN, keys : SUBSET ProofTypes, required].        *)
(* With the verifier disabled and no key path, a node that finds the       *)
(* fixture key on disk enables the strict groth16 verifier.                *)
ResolveZKConfig(cfg, fixtureKey) ==
    IF ~cfg.enabled /\ cfg.keys = {} /\ fixtureKey
    THEN [enabled |-> TRUE, strict |-> TRUE, keys |-> {Groth16},
          required |-> NormalizeCircuitID(cfg.required)]
    ELSE cfg

(* NewVerifier fails, and the node does not start, without any verifying   *)
(* key or with a required circuit it does not know.                        *)
Starts(cfg) ==
    cfg.enabled => cfg.keys # {} /\ cfg.required \in SupportedCircuits \cup {""}

InstallBatchProofVerifier(cfg) ==
    IF cfg.enabled
    THEN [installed |-> TRUE, strict |-> cfg.strict,
          keys |-> cfg.keys, required |-> cfg.required]
    ELSE [installed |-> FALSE, strict |-> cfg.strict, keys |-> {}, required |-> ""]

Verifiers ==
    [installed : BOOLEAN, strict : BOOLEAN, keys : SUBSET ProofTypes,
     required : SupportedCircuits \cup {""}]

(* Fault: the witness is not compared with the public inputs hash. *)
Verify_KeyOnly(v, proofType, circuit, blob, inputsHash) ==
    LET id == NormalizeCircuitID(circuit) IN
    /\ v.required \in {"", id}
    /\ id \in SupportedCircuits
    /\ proofType \in v.keys

(* The witness must be there, carry the public inputs hash, and satisfy    *)
(* the verifying key of the proof type (the last is the gnark library's).  *)
Verify(v, proofType, circuit, blob, inputsHash) ==
    LET id == NormalizeCircuitID(circuit) IN
    /\ v.required \in {"", id}
    /\ id \in SupportedCircuits
    /\ proofType \in v.keys
    /\ HasEnvelope(blob)
    /\ blob.proves = inputsHash

(* Fault: the verdict of the verifier counts on strict nodes only. *)
VerifyBatchProofInConsensus_StrictOnly(v, requiredType, blob, inputsHash) ==
    /\ Parses(blob)
    /\ HasEnvelope(blob) => blob.type = requiredType
    /\ v.installed /\ v.strict =>
          Verify(v, requiredType, CircuitID(blob), blob, inputsHash)
    /\ ~v.installed => ~v.strict

(* Without an installed verifier a strict node accepts no blob and any     *)
(* other node every blob that parses and has the required type.            *)
VerifyBatchProofInConsensus(v, requiredType, blob, inputsHash) ==
    /\ Parses(blob)
    /\ HasEnvelope(blob) => blob.type = requiredType
    /\ IF v.installed
       THEN Verify(v, requiredType, CircuitID(blob), blob, inputsHash)
       ELSE ~v.strict
=============================================================================
