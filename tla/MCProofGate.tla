----------------------------- MODULE MCProofGate -----------------------------
(***************************************************************************)
(* Small instances of ProofGate.                                           *)
(***************************************************************************)
EXTENDS ProofGate, MCEnvelope

CONSTANTS gov, prover, m1, f1, f2, zero

Config(require, type, deadline, authority) ==
    [requireProof |-> require, requiredProofType |-> type, batchWindowMs |-> 2,
     proofDeadlineMs |-> deadline, proverAuthority |-> authority]

Hash(circuit, volume) ==
    PublicInputsHash(circuit, <<m1, 1>>,
                     [clearPrice |-> 1, totalVolume |-> volume, fillsHash |-> f1])

(* The last one no proof can have: the window has no volume. *)
MCHashes == {Hash(ClearHashV1, 1), Hash(ShieldedLedgerV1, 1), Hash(ShieldedLedgerV1, 0)}

Blob(magic, sound, type, circuit, proves) ==
    [magic |-> magic, sound |-> sound, type |-> type, circuit |-> circuit, proves |-> proves]

(* A good proof of either circuit, one under the name of the other, bytes  *)
(* without an envelope, a broken envelope and a circuit nobody knows.      *)
MCBlobs ==
    {Blob("VZK1", TRUE, Groth16, "", Hash(ClearHashV1, 1)),
     Blob("VZK2", TRUE, Groth16, ShieldedLedgerV1, Hash(ShieldedLedgerV1, 1)),
     Blob("VZK2", TRUE, Groth16, ShieldedLedgerV1, Hash(ClearHashV1, 1)),
     Blob("raw", TRUE, 0, "", NoHash),
     Blob("VZK2", FALSE, Groth16, ClearHashV1, NoHash),
     Blob("VZK2", TRUE, Groth16, "other", NoHash)}

MCGenesis == {Config(TRUE, Groth16, 1, prover), NoProofConfig}
MCConfigs ==
    {Config(TRUE, Groth16, 1, prover), Config(FALSE, Groth16, 1, prover),
     Config(TRUE, Plonk, 1, prover), Config(TRUE, Groth16, 7, gov),
     Config(TRUE, Groth16, 1, zero)}

Node(enabled, strict, keys, required) ==
    [enabled |-> enabled, strict |-> strict, keys |-> keys, required |-> required]

(* The default, a strict node without keys, a full verifier and one that   *)
(* cannot start.                                                           *)
MCNodes ==
    {Node(FALSE, FALSE, {}, ""), Node(FALSE, TRUE, {}, ""),
     Node(TRUE, TRUE, {Groth16}, ""), Node(TRUE, TRUE, {}, "")}
(* Proofs are required, and the node runs as it comes. *)
RequiredGenesis == {Config(TRUE, Groth16, 2, prover)}
DefaultNode == {Node(FALSE, FALSE, {}, "")}
=============================================================================
