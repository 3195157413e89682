------------------------------- MODULE Balances -------------------------------
(***************************************************************************)
(* Balances kept per address, for VEIL, VAI and pool shares alike.  The    *)
(* keys of empty balances are removed, so that an absent key and a balance *)
(* of zero are the same thing.                                             *)
(***************************************************************************)
EXTENDS Integers

(* Fault: a missing key is refused, a balance that is too small is not. *)
CanSub_OnlyPresence(balances, addr, amount) == balances[addr] > 0

(* Subtracting fails on a missing key, whatever the amount, and on a       *)
(* balance below the amount.                                               *)
CanSub(balances, addr, amount) == balances[addr] > 0 /\ balances[addr] >= amount

Sub(balances, addr, amount) == [balances EXCEPT ![addr] = @ - amount]

(* Adding fails beyond the largest uint64. *)
CanAdd(balances, addr, amount, max) == balances[addr] + amount <= max

Add(balances, addr, amount) == [balances EXCEPT ![addr] = @ + amount]
===============================================================================
