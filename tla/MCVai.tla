-------------------------------- MODULE MCVai --------------------------------
(***************************************************************************)
(* Small instances of Vai: governance that also mints, and one holder.     *)
(***************************************************************************)
EXTENDS Vai

CONSTANTS gov, holder

Risk(floor, wsLtv) ==
    [backingFloorBips |-> floor,
     ltvBips |-> [c \in Collateral |-> IF c = "WSVEIL" THEN wsLtv ELSE 3],
     haircutBips |-> [c \in Collateral |-> 10]]

MCGenesisRisk == Risk(10, 0)
MCRiskInputs == {Risk(10, 0), Risk(20, 0), Risk(0, 0), Risk(10, 1)}
===============================================================================
