------------------------------ MODULE MCGenesis -------------------------------
(***************************************************************************)
(* Genesis files that differ from an empty or from a complete tokenomics   *)
(* section in any two fields.                                              *)
(***************************************************************************)
EXTENDS Genesis

CONSTANTS a1, a2, zero

Alloc(a, b) == [address |-> a, balance |-> b]
MCAllocations ==
    {<<>>, <<Alloc(zero, 5)>>, <<Alloc(a1, 5)>>, <<Alloc(a1, 5), Alloc(a2, 2), Alloc(a1, 3)>>,
     <<Alloc(a1, 20000), Alloc(a2, 20000)>>}

(* For every field the value in a complete file and the others tried. *)
Choices ==
    [totalSupply |-> <<0, 15, 10>>,
     governance |-> <<a1, a2>>, operations |-> <<a1>>, mintAuthority |-> <<a1>>,
     colVaultLocked |-> <<4, 20001>>, colVaultLive |-> <<1, 30000>>,
     maxReleaseBips |-> <<15, 10001>>, releaseEpochSeconds |-> <<2, -1>>,
     msrbBips |-> <<7000, 6000>>, colBips |-> <<2000, 3000>>, opsBips |-> <<1000>>,
     debtCeiling |-> <<9>>, epochMintLimit |-> <<9, 10>>, mintEpochSeconds |-> <<2, -1>>,
     backingFloorBips |-> <<11000>>,
     veilLtvBips |-> <<10000, 10001>>, wVeilLtvBips |-> <<3500, 10001>>,
     wsVeilLtvBips |-> <<0, 1>>,
     veilHaircutBips |-> <<6000, 10001>>, wVeilHaircutBips |-> <<5500, 10001>>,
     wsVeilHaircutBips |-> <<10000, 10001>>,
     exogenousReserve |-> <<9>>, vaiBuffer |-> <<1>>,
     requireProof |-> <<TRUE, FALSE>>, requiredProofType |-> <<Plonk, 3>>,
     batchWindowMs |-> <<5000, -1>>, proofDeadlineMs |-> <<10000, -1>>,
     proverAuthority |-> <<a2>>]

Fields == DOMAIN Choices
IsAddress(f) == f \in {"governance", "operations", "mintAuthority", "proverAuthority"}
Absent(f) == IF IsAddress(f) THEN zero ELSE IF f = "requireProof" THEN FALSE ELSE 0

Complete == [f \in Fields |-> Choices[f][1]]
Blank == [f \in Fields |-> IF f = "debtCeiling" THEN 9 ELSE Absent(f)]

Values(f) == {Absent(f)} \cup {Choices[f][i] : i \in 1 .. Len(Choices[f])}
Changed(t) ==
    UNION {{[t EXCEPT ![f] = v, ![g] = w] : v \in Values(f), w \in Values(g)} :
             f, g \in Fields}

MCTokenomics == {NoTokenomics} \cup Changed(Complete) \cup Changed(Blank)
===============================================================================
