------------------------------- MODULE MCSmoke -------------------------------
(***************************************************************************)
(* The smoke test run three times against a chain with one account.        *)
(***************************************************************************)
EXTENDS Smoke

CONSTANT gov

MCRisk ==
    [backingFloorBips |-> 10,
     ltvBips |-> [c \in Collateral |-> 0],
     haircutBips |-> [c \in Collateral |-> 10]]
MCRiskInputs == {MCRisk}
==============================================================================
