------------------------------- MODULE MCMarket -------------------------------
(***************************************************************************)
(* A small instance of Market: two actors, one market, two windows.        *)
(***************************************************************************)
EXTENDS Market, TLC

CONSTANTS a1, a2

MCSymmetry == Permutations({a1, a2})
===============================================================================
