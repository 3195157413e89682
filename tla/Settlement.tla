------------------------------ MODULE Settlement ------------------------------
(***************************************************************************)
(* What the proof gate promises, without proofs, envelopes, verifiers,     *)
(* clocks or addresses: while the gate is closed a window settles to its   *)
(* claim, the one result fixed by the first accepted proof, or never.  The *)
(* claim itself never changes, whatever happens to the gate in between.    *)
(***************************************************************************)
CONSTANTS
    Batches,    \* the windows
    Results,    \* the results a window may settle to
    Unclaimed,  \* no proof has been accepted for the window
    Void        \* the accepted proof binds no result of the window

VARIABLES
    gate,       \* "closed", "open", or "absent" when nothing can be settled
    claim,      \* what the window's proof binds
    result      \* the settled results, a function over the settled windows

Claims == Results \cup {Unclaimed, Void}

SetResult(k, r) ==
    result' = [j \in DOMAIN result \cup {k} |-> IF j = k THEN r ELSE result[j]]

SettlementInit ==
    /\ gate \in {"closed", "open", "absent"}
    /\ claim = [k \in Batches |-> Unclaimed]
    /\ result = [k \in {} |-> Void]

MakeClaim(k, c) ==
    /\ gate = "closed"
    /\ claim[k] = Unclaimed
    /\ claim' = [claim EXCEPT ![k] = c]
    /\ UNCHANGED <<gate, result>>

SettleClaim(k) ==
    /\ gate = "closed"
    /\ claim[k] \in Results
    /\ SetResult(k, claim[k])
    /\ UNCHANGED <<gate, claim>>

SettleFreely(k, r) ==
    /\ gate = "open"
    /\ SetResult(k, r)
    /\ UNCHANGED <<gate, claim>>

MoveGate(g) ==
    /\ gate # "absent"
    /\ gate' = g
    /\ UNCHANGED <<claim, result>>

SettlementNext ==
    \/ \E k \in Batches, c \in Results \cup {Void} : MakeClaim(k, c)
    \/ \E k \in Batches : SettleClaim(k)
    \/ \E k \in Batches, r \in Results : SettleFreely(k, r)
    \/ \E g \in {"closed", "open"} : MoveGate(g)

SettlementSpec == SettlementInit /\ [][SettlementNext]_<<gate, claim, result>>
=============================================================================
