\* With 39000 for the largest uint64 two allocations of 20000 exceed it, and
\* so do large vaults.  A running or refused genesis is the end.
CONSTANTS
    a1 = a1
    a2 = a2
    zero = zero
    ZeroAddress = zero
    Allocations <- MCAllocations
    TokenomicsInputs <- MCTokenomics
    MaxUint64 = 39000
    BipsDenominator = 10000
SPECIFICATION GenesisSpec
INVARIANTS
    StartsConfigured
    SupplyAsDeclared
    LoadIsStable
CHECK_DEADLOCK FALSE
