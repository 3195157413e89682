----------------------------- MODULE MCReplicas ------------------------------
(***************************************************************************)
(* Three validators, two of which always verify, and two windows.          *)
(***************************************************************************)
EXTENDS Replicas, Server, TLC

CONSTANTS gov, prover, m1, f1, zero, n1, n2, n3

V == INSTANCE ProofVerifier

Config(deadline, authority) ==
    [requireProof |-> TRUE, requiredProofType |-> V!Groth16, batchWindowMs |-> 2,
     proofDeadlineMs |-> deadline, proverAuthority |-> authority]

MCGenesis == {Config(2, prover)}
MCConfigs == MCGenesis \cup {Config(1, gov)}

TheResult == [clearPrice |-> 1, totalVolume |-> 1, fillsHash |-> f1]
Hash(circuit, w) == V!PublicInputsHash(circuit, <<m1, w>>, TheResult)
MCHashes == {Hash(V!ClearHashV1, 1), Hash(V!ShieldedLedgerV1, 2)}

Blob(magic, circuit, proves) ==
    [magic |-> magic, sound |-> TRUE, type |-> IF magic = "raw" THEN 0 ELSE V!Groth16,
     circuit |-> circuit, proves |-> proves]

(* A proof of each window, in either circuit, and bytes that prove nothing. *)
MCBlobs ==
    {Blob("VZK1", "", Hash(V!ClearHashV1, 1)),
     Blob("VZK2", V!ShieldedLedgerV1, Hash(V!ShieldedLedgerV1, 2)),
     Blob("raw", "", V!NoHash)}

(* The default, which finds the fixture key or does not, and nodes with    *)
(* the groth16 verifier that are not strict, with and without a required   *)
(* circuit.                                                                *)
MCNodes ==
    {[enabled |-> FALSE, strict |-> FALSE, keys |-> {}, required |-> ""],
     [enabled |-> TRUE, strict |-> FALSE, keys |-> {V!Groth16}, required |-> V!ClearHashV1],
     [enabled |-> TRUE, strict |-> FALSE, keys |-> {V!Groth16}, required |-> ""]}

Majorities == {{n1, n2}, {n1, n3}, {n2, n3}, {n1, n2, n3}}

(* The two validators that verify are interchangeable. *)
Interchangeable == Permutations({n1, n2})

Totals == 0 .. 70 \cup 225 .. 240
Trust(total, streak, scars) == ScoreBloodswornTrust(total, streak, scars).trustBips

(* The reported trust is a share of 10_000 with a tier of its own for      *)
(* nothing, one more accepted proof never lowers it, one more scar never   *)
(* raises it, and provers who have every proof accepted (the only ones     *)
(* there are: no action writes a scar or ends a streak) are Rising at the  *)
(* first and Mythic at the 167th.                                          *)
ASSUME TrustIsEarned ==
    /\ \A total \in Totals, scars \in 0 .. 15 : \A streak \in 0 .. 65 :
          LET reply == ScoreBloodswornTrust(total, streak, scars) IN
          /\ reply.trustBips \in 0 .. 10000
          /\ reply.trustTier = "Unproven" <=> reply.trustBips = 0
          /\ Trust(total + 1, streak + 1, scars) >= reply.trustBips
          /\ Trust(total, streak, scars + 1) <= reply.trustBips
    /\ ScoreBloodswornTrust(1, 1, 0).trustTier = "Rising"
    /\ \A n \in 1 .. 240 : ScoreBloodswornTrust(n, n, 0).trustTier = "Mythic" <=> n >= 167
==============================================================================
