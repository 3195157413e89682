------------------------------- MODULE Economy -------------------------------
(***************************************************************************)
(* Everything that moves VEIL or VAI, together: transfers and fees, the    *)
(* stablecoin, the pool, the fee router and the vault, and the bonds of    *)
(* markets.  All of them share the balances of the ledger.                 *)
(***************************************************************************)
EXTENDS Pool, Treasury

CONSTANTS
    Markets, Windows, Validators, DisputeIndex, Orders, Shares, Bonds,
    OutcomeCounts  \* as in Market

(* A bond is a uint64. *)
ASSUME EconomyAssumption == Bonds \subseteq 0 .. MaxUint64

VARIABLES
    market, commitment, oracle  \* as in Market

Mkt == INSTANCE Market

bondVars == <<market, commitment, oracle>>
economyVars == <<ledgerVars, vaiVars, poolVars, treasuryVars, bondVars>>

EconomyInit ==
    /\ LedgerInit /\ VaiInit /\ PoolInit /\ TreasuryInit
    /\ Mkt!MarketInit

(* The bonds of CreateMarket and Dispute leave the balance and are         *)
(* credited nowhere.                                                       *)
BondStep ==
    \/ \E a \in Actors, m \in Markets, n \in OutcomeCounts, b \in Bonds :
          Mkt!CreateMarket(a, m, n, b) /\ burned' = burned + b
    \/ \E m \in Markets, o \in Mkt!Outcomes :
          Mkt!ResolveMarket(m, o) /\ UNCHANGED burned
    \/ \E a \in Actors, m \in Markets, b \in Bonds :
          Mkt!Dispute(a, m, b) /\ burned' = burned + b

EconomyNext ==
    \/ LedgerNext /\ UNCHANGED <<vaiVars, poolVars, treasuryVars, bondVars>>
    \/ VaiNext /\ UNCHANGED <<poolVars, treasuryVars, bondVars>>
    \/ PoolNext /\ UNCHANGED <<treasuryVars, bondVars>>
    \/ TreasuryNext /\ UNCHANGED <<vaiVars, poolVars, bondVars>>
    \/ BondStep /\ UNCHANGED <<vaiVars, poolVars, treasuryVars>>

EconomySpec == EconomyInit /\ [][EconomyNext]_economyVars
------------------------------------------------------------------------------
GenesisSupply ==
    SumFunction([a \in Actors |-> InitialBalance]) + COLVaultLocked + COLVaultLive

(* VEIL_EXECUTION_PACKAGE.md, line 36: "Supply is fixed at genesis".  No   *)
(* sequence of actions of any component creates VEIL or loses track of it: *)
(* it is in a balance, in the pool, in a budget, in the vault, or was paid *)
(* as a fee or a bond.                                                     *)
SupplyFixed ==
    SumFunction(balance) + pool.reserve0
      + feeRouter.msrb + feeRouter.col + feeRouter.ops
      + treasury.locked + treasury.live + burned = GenesisSupply
==============================================================================
