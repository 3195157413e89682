------------------------------- MODULE Server --------------------------------
(***************************************************************************)
(* The trust score of a prover, which the JSON-RPC server computes from    *)
(* the bloodsworn counters.  The products are uint64; the counters that    *)
(* would wrap them are out of reach.                                       *)
(***************************************************************************)
EXTENDS Integers

AtMost(bound, v) == IF v > bound THEN bound ELSE v

TrustTier(score) ==
    CASE score >= 9000 -> "Mythic"
      [] score >= 7500 /\ score < 9000 -> "Legend"
      [] score >= 6000 /\ score < 7500 -> "Proven"
      [] score >= 4000 /\ score < 6000 -> "Rising"
      [] score > 0 /\ score < 4000 -> "Fragile"
      [] OTHER -> "Unproven"

(* Scars are read here, and written by no action. *)
ScoreBloodswornTrust(total, streak, scars) ==
    LET earned == 5000 + AtMost(3500, total * 15) + AtMost(1500, streak * 25)
        penalty == scars * 700
        score == IF total = 0 \/ penalty >= earned THEN 0
                 ELSE AtMost(10000, earned - penalty) IN
    [trustBips |-> score, trustTier |-> TrustTier(score)]
==============================================================================
