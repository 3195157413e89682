------------------------------- MODULE MCBench -------------------------------
(***************************************************************************)
(* A small instance of Bench: one market, two windows.                     *)
(***************************************************************************)
EXTENDS Bench

CONSTANTS gov, client, m1, o1, s1, f1, zero

GenesisConfig ==
    [requireProof |-> TRUE, requiredProofType |-> Groth16, batchWindowMs |-> 2,
     proofDeadlineMs |-> 1, proverAuthority |-> gov]
MCGenesisConfigs == {GenesisConfig}

(* The default node and one with the groth16 verifier. *)
MCNodes ==
    {[enabled |-> FALSE, strict |-> FALSE, keys |-> {}, required |-> ""],
     [enabled |-> TRUE, strict |-> TRUE, keys |-> {Groth16}, required |-> ClearHashV1]}

MCMarketSeq == <<m1>>
==============================================================================
