------------------------------ MODULE MCEconomy ------------------------------
(***************************************************************************)
(* A small instance of Economy: governance and one user, one market.       *)
(***************************************************************************)
EXTENDS Economy

CONSTANTS gov, user

MCRisk ==
    [backingFloorBips |-> 10,
     ltvBips |-> [c \in Collateral |-> 0],
     haircutBips |-> [c \in Collateral |-> 10]]
MCRiskInputs == {MCRisk}
==============================================================================
