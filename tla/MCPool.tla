-------------------------------- MODULE MCPool -------------------------------
(***************************************************************************)
(* A small instance of Pool: governance and one trader.                    *)
(***************************************************************************)
EXTENDS Pool

CONSTANTS gov, trader

(* intSqrt against its reference for the arguments of one byte, 255 excepted. *)
ASSUME IntSqrtIsFloor ==
    \A n \in 0 .. 254 : IntSqrt(n) * IntSqrt(n) <= n /\ n < (IntSqrt(n) + 1) * (IntSqrt(n) + 1)

MCRisk ==
    [backingFloorBips |-> 10,
     ltvBips |-> [c \in Collateral |-> 0],
     haircutBips |-> [c \in Collateral |-> 10]]
MCRiskInputs == {MCRisk}
==============================================================================
