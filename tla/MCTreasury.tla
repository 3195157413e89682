----------------------------- MODULE MCTreasury ------------------------------
(***************************************************************************)
(* Small instances of Treasury: governance and one payer of fees.          *)
(***************************************************************************)
EXTENDS Treasury

CONSTANTS gov, payer
===============================================================================
