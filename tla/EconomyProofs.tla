---------------------------- MODULE EconomyProofs -----------------------------
(***************************************************************************)
(* Proofs about the components that move VEIL and VAI, together: what each *)
(* of them promises on its own also holds when they share the balances,    *)
(* and the supply of VEIL is fixed.                                        *)
(***************************************************************************)
EXTENDS Economy, PoolProofs, TreasuryProofs

(* The promises of the components, as inductive invariants. *)
Parts == PoolInv /\ TreasuryInv /\ MintRateInv /\ ReleasesApart

(* Steps that leave a component alone, up to the balances and the clock. *)
Outside == /\ balance' \in [Actors -> Uint64]
           /\ now' \in {now, now + 1} /\ now' \in 1 .. MaxTime

LEMMA PoolFrame ==
  ASSUME PoolInv, MintRateInv, Outside, UNCHANGED <<vaiVars, poolVars>>
  PROVE  PoolInv' /\ MintRateInv'
<1>1. VaiInv /\ PoolTyped
  BY DEF PoolInv
<1>2. UNCHANGED <<vaiBalance, vaiState, risk, reserve, mintedAt, pool, lp>>
  BY DEF vaiVars, poolVars
<1>3. VaiInv'
  BY <1>1, <1>2 DEF Outside, VaiInv, VaiTypeOK, Clock
<1>4. PoolTyped'
  BY <1>1, <1>2 DEF Outside, PoolTyped
<1>5. PoolInv'
  BY <1>2, <1>3, <1>4 DEF PoolInv, PoolBacked, Counted
<1>6. MintRateInv'
  BY <1>2, <1>3, MintRateFrame DEF Outside, MintCounterKept
<1>. QED  BY <1>5, <1>6

LEMMA TreasuryFrame ==
  ASSUME TreasuryInv, ReleasesApart, Outside, UNCHANGED treasuryVars
  PROVE  TreasuryInv' /\ ReleasesApart'
<1>1. UNCHANGED <<feeRouter, treasury, routed, releasedAt>>
  BY DEF treasuryVars
<1>2. TreasuryTypeOK' /\ ClockOK'
  BY <1>1 DEF Outside, TreasuryInv, TreasuryTypeOK, ClockOK, Uint64
<1>3. FeesConserved' /\ COLConserved'
  BY <1>1 DEF TreasuryInv, FeesConserved, COLConserved
<1>4. ReleasesApart'
  BY <1>1, ReleasesFrame DEF Outside
<1>. QED  BY <1>2, <1>3, <1>4 DEF TreasuryInv

(* Where a step takes VEIL from a balance and counts it as burned. *)
LEMMA BurnBalance ==
  ASSUME balance \in [Actors -> Uint64], NEW a \in Actors, NEW v \in 0 .. MaxUint64,
         CanSub(balance, a, v), balance' = Sub(balance, a, v)
  PROVE  /\ balance' \in [Actors -> Uint64]
         /\ SumFunction(balance) \in Nat /\ SumFunction(balance') \in Nat
         /\ SumFunction(balance') = SumFunction(balance) - v
<1>1. v \in Nat /\ MaxUint64 \in Nat /\ v \in Int
  BY LedgerAssumption
<1>2. balance' \in [Actors -> Uint64]
  BY <1>1 DEF CanSub, Sub, Uint64
<1>3. Debited(balance, balance', a, v)
  BY DEF Debited, Sub
<1>4. SumFunction(balance') = SumFunction(balance) - v
  BY <1>1, <1>3, TotalFalls
<1>. QED  BY <1>2, <1>4, TotalTyped

(* A transfer, also one to oneself, leaves the total alone. *)
LEMMA TransferBalance ==
  ASSUME balance \in [Actors -> Uint64], NEW a \in Actors, NEW b \in Actors, NEW v \in Amounts,
         Transfer(a, b, v)
  PROVE  /\ balance' \in [Actors -> Uint64]
         /\ SumFunction(balance') = SumFunction(balance)
<1> DEFINE f == Sub(balance, a, v)
<1>1. v \in Nat /\ MaxUint64 \in Nat /\ v \in Int
  BY LedgerAssumption
<1>2. /\ CanSub(balance, a, v) /\ CanAdd(f, b, v, MaxUint64) /\ balance' = Add(f, b, v)
  BY DEF Transfer
<1>3. f \in [Actors -> Uint64]
  BY <1>1, <1>2 DEF CanSub, Sub, Uint64
<1>4. Debited(balance, f, a, v)
  BY DEF Debited, Sub
<1>. HIDE DEF f
<1>5. Credited(f, balance', b, v)
  BY <1>2, <1>3 DEF Credited, Add
<1>6. balance' \in [Actors -> Uint64]
  BY <1>1, <1>2, <1>3 DEF CanAdd, Add, Uint64
<1>7. SumFunction(balance) \in Int /\ SumFunction(f) = SumFunction(balance) - v
  BY <1>1, <1>4, TotalFalls
<1>8. SumFunction(balance') = SumFunction(f) + v
  BY <1>1, <1>5, TotalMoves
<1>. QED  BY <1>1, <1>6, <1>7, <1>8
-----------------------------------------------------------------------------
(* The budgets and the vault together, and all of the VEIL. *)
InTreasury == feeRouter.msrb + feeRouter.col + feeRouter.ops + treasury.locked + treasury.live
Supply == SumFunction(balance) + pool.reserve0 + InTreasury + burned

EconomyInv == Parts /\ burned \in Nat /\ Supply = GenesisSupply

LEMMA SupplyNumbers ==
  ASSUME Parts
  PROVE  /\ balance \in [Actors -> Uint64] /\ SumFunction(balance) \in Int
         /\ pool.reserve0 \in Int /\ InTreasury \in Int
         /\ feeRouter.msrb \in Int /\ feeRouter.col \in Int /\ feeRouter.ops \in Int
         /\ treasury.locked \in Int /\ treasury.live \in Int
         /\ now \in 1 .. MaxTime /\ MaxTime \in Nat
<1>1. PoolTyped /\ TreasuryTypeOK /\ Clock
  BY DEF Parts, PoolInv, TreasuryInv, VaiInv
<1>2. balance \in [Actors -> Uint64] /\ SumFunction(balance) \in Int
  BY <1>1, TotalTyped DEF PoolTyped
<1>3. /\ feeRouter.msrb \in Int /\ feeRouter.col \in Int /\ feeRouter.ops \in Int
      /\ treasury.locked \in Int /\ treasury.live \in Int
  BY <1>1 DEF TreasuryTypeOK
<1>4. InTreasury \in Int
  BY <1>3 DEF InTreasury
<1>. QED  BY <1>1, <1>2, <1>3, <1>4, PoolNumbers, LedgerAssumption DEF Clock

(* Fees and transfers. *)
LEMMA LedgerStep ==
  ASSUME EconomyInv, LedgerNext, UNCHANGED <<vaiVars, poolVars, treasuryVars>>
  PROVE  EconomyInv'
<1>1. Parts /\ burned \in Nat /\ Supply = GenesisSupply
  BY DEF EconomyInv
<1>2. /\ balance \in [Actors -> Uint64] /\ SumFunction(balance) \in Int
      /\ pool.reserve0 \in Int /\ InTreasury \in Int
      /\ now \in 1 .. MaxTime /\ MaxTime \in Nat
  BY <1>1, SupplyNumbers
<1>3. pool' = pool /\ InTreasury' = InTreasury
  BY DEF poolVars, treasuryVars, InTreasury
<1>4. ASSUME Outside, burned' \in Nat, SumFunction(balance') + burned' = SumFunction(balance) + burned,
             SumFunction(balance') \in Int
      PROVE  EconomyInv'
  <2>1. Parts'
    BY <1>1, <1>4, PoolFrame, TreasuryFrame DEF Parts
  <2>2. Supply' = Supply
    <3>1. burned \in Int /\ burned' \in Int
      BY <1>1, <1>4
    <3>2. pool'.reserve0 = pool.reserve0
      BY <1>3
    <3>. QED  BY <1>2, <1>3, <1>4, <3>1, <3>2 DEF Supply
  <2>. QED  BY <1>1, <1>4, <2>1, <2>2 DEF EconomyInv, GenesisSupply
<1>5. CASE Advance
  BY <1>1, <1>2, <1>4, <1>5 DEF Advance, Outside
<1>6. ASSUME NEW a \in Actors, NEW b \in Actors, NEW v \in Amounts, Transfer(a, b, v)
      PROVE  EconomyInv'
  <2>1. balance' \in [Actors -> Uint64] /\ SumFunction(balance') = SumFunction(balance)
    BY <1>2, <1>6, TransferBalance
  <2>2. burned' = burned /\ now' = now
    BY <1>6 DEF Transfer
  <2>. QED  BY <1>1, <1>2, <1>4, <2>1, <2>2 DEF Outside
<1>7. ASSUME NEW a \in Actors, NEW f \in Fees, Deduct(a, f) PROVE EconomyInv'
  <2>1. CanSub(balance, a, f) /\ balance' = Sub(balance, a, f) /\ burned' = burned + f /\ now' = now
    BY <1>7 DEF Deduct
  <2>2. f \in 0 .. MaxUint64 /\ f \in Nat
    BY LedgerAssumption
  <2>3. /\ balance' \in [Actors -> Uint64] /\ SumFunction(balance') \in Nat
        /\ SumFunction(balance') = SumFunction(balance) - f
    BY <1>2, <2>1, <2>2, BurnBalance
  <2>4. burned' \in Nat /\ SumFunction(balance') + burned' = SumFunction(balance) + burned
    BY <1>1, <1>2, <2>1, <2>2, <2>3
  <2>. QED  BY <1>2, <1>4, <2>1, <2>3, <2>4 DEF Outside
<1>. QED  BY <1>5, <1>6, <1>7 DEF LedgerNext

(* Mints, burns and the parameters of the stablecoin. *)
LEMMA VaiEconomyStep ==
  ASSUME EconomyInv, VaiNext, UNCHANGED <<poolVars, treasuryVars>>
  PROVE  EconomyInv'
<1>1. Parts /\ burned \in Nat /\ Supply = GenesisSupply /\ PoolInv /\ MintRateInv
  BY DEF EconomyInv, Parts
<1>2. PoolInv' /\ UNCHANGED <<balance, burned>>
  BY <1>1, VaiKeeps
<1>3. MintRateInv'
  BY <1>1, MintRateStep DEF VaiSpecNext
<1>4. now' = now
  BY DEF VaiNext, MintVAI, BurnVAI, SetRiskParams, UpdateReserveState, ledgerVars
<1>5. Outside
  BY <1>1, <1>2, <1>4, SupplyNumbers DEF Outside
<1>6. TreasuryInv' /\ ReleasesApart'
  BY <1>1, <1>5, TreasuryFrame DEF Parts
<1>7. Supply' = Supply
  BY <1>2 DEF Supply, InTreasury, poolVars, treasuryVars
<1>. QED  BY <1>1, <1>2, <1>3, <1>6, <1>7 DEF EconomyInv, Parts, GenesisSupply

(* The pool. *)
LEMMA PoolEconomyStep ==
  ASSUME EconomyInv, PoolNext, UNCHANGED treasuryVars
  PROVE  EconomyInv'
<1>1. Parts /\ burned \in Nat /\ Supply = GenesisSupply /\ PoolInv /\ MintRateInv
  BY DEF EconomyInv, Parts
<1>2. PICK a \in Actors, d0, d1, m \in Int : Exchange(a, d0, d1, m)
  BY <1>1, PoolStepExchanges
<1>3. /\ PoolInv'
      /\ SumFunction(balance') + pool'.reserve0 = SumFunction(balance) + pool.reserve0
  BY <1>1, <1>2, ExchangeKeeps
<1>4. UNCHANGED <<now, burned, vaiState, mintedAt>>
  BY <1>2 DEF Exchange
<1>5. MintRateInv'
  BY <1>1, <1>3, <1>4, MintRateFrame DEF MintCounterKept, PoolInv
<1>6. Outside
  BY <1>1, <1>3, <1>4, SupplyNumbers DEF Outside, PoolInv, PoolTyped
<1>7. TreasuryInv' /\ ReleasesApart'
  BY <1>1, <1>6, TreasuryFrame DEF Parts
<1>8. InTreasury' = InTreasury
  BY DEF treasuryVars, InTreasury
<1>9. Supply' = Supply
  BY <1>3, <1>4, <1>8 DEF Supply
<1>. QED  BY <1>1, <1>3, <1>4, <1>5, <1>7, <1>9 DEF EconomyInv, Parts, GenesisSupply

(* The fee router and the vault. *)
LEMMA TreasuryEconomyStep ==
  ASSUME EconomyInv, TreasuryNext, UNCHANGED <<vaiVars, poolVars>>
  PROVE  EconomyInv'
<1>1. Parts /\ burned \in Nat /\ Supply = GenesisSupply /\ TreasuryInv /\ ReleasesApart
  BY DEF EconomyInv, Parts
<1>2. TreasuryInv' /\ ReleasesApart'
  BY <1>1, TreasuryInvStep, ReleasesApartStep DEF SpecNext
<1>3. UNCHANGED <<now, burned>>
  BY DEF TreasuryNext, RouteFees, ReleaseCOLTranche, ledgerVars
<1>4. Outside
  BY <1>1, <1>2, <1>3, SupplyNumbers DEF Outside, TreasuryInv, TreasuryTypeOK, Uint64
<1>5. PoolInv' /\ MintRateInv'
  BY <1>1, <1>4, PoolFrame DEF Parts
<1>6. /\ balance \in [Actors -> Uint64] /\ SumFunction(balance) \in Int
      /\ pool.reserve0 \in Int /\ pool' = pool
      /\ feeRouter.msrb \in Int /\ feeRouter.col \in Int /\ feeRouter.ops \in Int
      /\ treasury.locked \in Int /\ treasury.live \in Int
  BY <1>1, SupplyNumbers DEF poolVars
<1>7. ASSUME NEW a \in Actors, NEW v \in Amounts, RouteFees(a, v) PROVE Supply' = Supply
  <2> DEFINE s == FeeShares(v)
  <2>1. v \in 0 .. MaxUint64
    BY LedgerAssumption
  <2>2. /\ s.msrb \in Nat /\ s.col \in Nat /\ s.ops \in Nat
        /\ s.msrb + s.col + s.ops = v
    BY <2>1, SharesSplit
  <2>3. /\ CanSub(balance, a, v) /\ balance' = Sub(balance, a, v)
        /\ feeRouter' = [msrb |-> feeRouter.msrb + s.msrb, col |-> feeRouter.col + s.col,
                         ops |-> feeRouter.ops + s.ops]
        /\ treasury' = treasury
    BY <1>7 DEF RouteFees
  <2>. HIDE DEF s
  <2>4. SumFunction(balance') = SumFunction(balance) - v
    BY <1>6, <2>1, <2>3, BurnBalance
  <2>5. InTreasury' = InTreasury + v
    <3>1. /\ feeRouter'.msrb = feeRouter.msrb + s.msrb /\ feeRouter'.col = feeRouter.col + s.col
          /\ feeRouter'.ops = feeRouter.ops + s.ops
      BY <2>3
    <3>. QED  BY <1>6, <2>2, <2>3, <3>1 DEF InTreasury
  <2>6. InTreasury \in Int /\ v \in Int
    BY <1>6, <2>1 DEF InTreasury
  <2>. QED  BY <1>1, <1>3, <1>6, <2>4, <2>5, <2>6 DEF Supply
<1>8. ASSUME NEW a \in Actors, NEW v \in Amounts, ReleaseCOLTranche(a, v) PROVE Supply' = Supply
  <2>1. /\ treasury' = [locked |-> treasury.locked - v, live |-> treasury.live + v,
                        released |-> treasury.released + v, lastRelease |-> now]
        /\ balance' = balance /\ feeRouter' = feeRouter
    BY <1>8 DEF ReleaseCOLTranche, ledgerVars
  <2>2. v \in Int
    BY LedgerAssumption
  <2>3. treasury'.locked = treasury.locked - v /\ treasury'.live = treasury.live + v
    BY <2>1
  <2>4. InTreasury' = InTreasury
    BY <1>6, <2>1, <2>2, <2>3 DEF InTreasury
  <2>. QED  BY <1>3, <1>6, <2>1, <2>4 DEF Supply
<1>9. Supply' = Supply
  BY <1>7, <1>8 DEF TreasuryNext
<1>. QED  BY <1>1, <1>2, <1>3, <1>5, <1>9 DEF EconomyInv, Parts, GenesisSupply

(* The bonds of markets and disputes. *)
LEMMA BondEconomyStep ==
  ASSUME EconomyInv, BondStep, UNCHANGED <<vaiVars, poolVars, treasuryVars>>
  PROVE  EconomyInv'
<1>1. Parts /\ burned \in Nat /\ Supply = GenesisSupply
  BY DEF EconomyInv
<1>2. /\ balance \in [Actors -> Uint64] /\ SumFunction(balance) \in Int
      /\ pool.reserve0 \in Int /\ InTreasury \in Int
      /\ now \in 1 .. MaxTime
  BY <1>1, SupplyNumbers
<1>3. pool' = pool /\ InTreasury' = InTreasury
  BY DEF poolVars, treasuryVars, InTreasury
<1>4. now' = now
  BY DEF BondStep, Mkt!CreateMarket, Mkt!ResolveMarket, Mkt!Dispute
<1>5. \/ \E a \in Actors, b \in Bonds : /\ CanSub(balance, a, b) /\ balance' = Sub(balance, a, b)
                                      /\ burned' = burned + b
      \/ UNCHANGED <<balance, burned>>
  BY DEF BondStep, Mkt!CreateMarket, Mkt!ResolveMarket, Mkt!Dispute, Mkt!SubBalance,
         Mkt!CanSub, Mkt!Sub, CanSub, Sub
<1>6. /\ balance' \in [Actors -> Uint64] /\ burned' \in Nat
      /\ SumFunction(balance') \in Int
      /\ SumFunction(balance') + burned' = SumFunction(balance) + burned
  <2>1. ASSUME NEW a \in Actors, NEW b \in Bonds,
               CanSub(balance, a, b), balance' = Sub(balance, a, b), burned' = burned + b
        PROVE  /\ balance' \in [Actors -> Uint64] /\ burned' \in Nat
               /\ SumFunction(balance') \in Int
               /\ SumFunction(balance') + burned' = SumFunction(balance) + burned
    <3>1. b \in 0 .. MaxUint64 /\ b \in Nat
      BY EconomyAssumption, LedgerAssumption
    <3>2. /\ balance' \in [Actors -> Uint64] /\ SumFunction(balance') \in Nat
          /\ SumFunction(balance') = SumFunction(balance) - b
      BY <1>2, <2>1, <3>1, BurnBalance
    <3>. QED  BY <1>1, <1>2, <2>1, <3>1, <3>2
  <2>. QED  BY <1>1, <1>2, <1>5, <2>1
<1>7. Outside
  BY <1>2, <1>4, <1>6 DEF Outside
<1>8. Parts'
  BY <1>1, <1>7, PoolFrame, TreasuryFrame DEF Parts
<1>9. Supply' = Supply
  BY <1>1, <1>2, <1>3, <1>6 DEF Supply
<1>. QED  BY <1>1, <1>6, <1>8, <1>9 DEF EconomyInv, GenesisSupply

LEMMA EconomyInvInit == EconomyInit => EconomyInv
<1> SUFFICES ASSUME EconomyInit PROVE EconomyInv
  OBVIOUS
<1>1. LedgerInit /\ VaiInit /\ PoolInit /\ TreasuryInit
  BY DEF EconomyInit
<1>2. Parts
  BY <1>1, PoolInvInit, TreasuryInvInit, MintRateInit, ReleasesApartInit DEF Parts
<1>3. /\ balance = [a \in Actors |-> InitialBalance] /\ burned = 0 /\ pool.reserve0 = 0
      /\ feeRouter.msrb = 0 /\ feeRouter.col = 0 /\ feeRouter.ops = 0
      /\ treasury.locked = COLVaultLocked /\ treasury.live = COLVaultLive
  BY <1>1 DEF LedgerInit, PoolInit, NoPool, TreasuryInit
<1>4. SumFunction(balance) \in Int /\ treasury.locked \in Int /\ treasury.live \in Int
  BY <1>2, SupplyNumbers
<1>5. InTreasury = treasury.locked + treasury.live
  BY <1>3, <1>4 DEF InTreasury
<1>6. Supply = SumFunction(balance) + treasury.locked + treasury.live
  BY <1>3, <1>4, <1>5 DEF Supply
<1>7. Supply = GenesisSupply
  BY <1>3, <1>6, Zenon DEF GenesisSupply
<1>. QED  BY <1>2, <1>3, <1>7 DEF EconomyInv

LEMMA EconomyInvStep == EconomyInv /\ [EconomyNext]_economyVars => EconomyInv'
<1> SUFFICES ASSUME EconomyInv, [EconomyNext]_economyVars PROVE EconomyInv'
  OBVIOUS
<1>1. CASE LedgerNext /\ UNCHANGED <<vaiVars, poolVars, treasuryVars, bondVars>>
  BY <1>1, LedgerStep
<1>2. CASE VaiNext /\ UNCHANGED <<poolVars, treasuryVars, bondVars>>
  BY <1>2, VaiEconomyStep
<1>3. CASE PoolNext /\ UNCHANGED <<treasuryVars, bondVars>>
  BY <1>3, PoolEconomyStep
<1>4. CASE TreasuryNext /\ UNCHANGED <<vaiVars, poolVars, bondVars>>
  BY <1>4, TreasuryEconomyStep
<1>5. CASE BondStep /\ UNCHANGED <<vaiVars, poolVars, treasuryVars>>
  BY <1>5, BondEconomyStep
<1>6. CASE UNCHANGED economyVars
  <2>1. UNCHANGED <<balance, now, burned>> /\ UNCHANGED <<vaiVars, poolVars>> /\ UNCHANGED treasuryVars
    BY <1>6 DEF economyVars, ledgerVars
  <2>2. Parts /\ burned \in Nat /\ Supply = GenesisSupply
    BY DEF EconomyInv
  <2>3. Outside
    BY <2>1, <2>2, SupplyNumbers DEF Outside
  <2>4. Parts'
    BY <2>1, <2>2, <2>3, PoolFrame, TreasuryFrame DEF Parts
  <2>5. Supply' = Supply
    BY <2>1 DEF Supply, InTreasury, poolVars, treasuryVars
  <2>. QED  BY <2>1, <2>2, <2>4, <2>5 DEF EconomyInv, GenesisSupply
<1>. QED  BY <1>1, <1>2, <1>3, <1>4, <1>5, <1>6 DEF EconomyNext

LEMMA EconomyInvariant == EconomySpec => []EconomyInv
<1>. QED  BY EconomyInvInit, EconomyInvStep, PTL DEF EconomySpec

(* SupplyFixed for every number of actors and markets and every amount:    *)
(* no interleaving of transfers, fees, mints, burns, swaps, routed fees,   *)
(* releases and bonds creates VEIL or loses track of it.                   *)
THEOREM SupplyIsFixed == EconomySpec => []SupplyFixed
<1>1. EconomyInv => SupplyFixed
  <2> SUFFICES ASSUME EconomyInv PROVE SupplyFixed
    OBVIOUS
  <2>1. Parts /\ burned \in Int /\ Supply = GenesisSupply
    BY DEF EconomyInv
  <2>2. Supply = SumFunction(balance) + pool.reserve0
                   + feeRouter.msrb + feeRouter.col + feeRouter.ops
                   + treasury.locked + treasury.live + burned
    BY <2>1, SupplyNumbers DEF Supply, InTreasury
  <2>. QED  BY <2>1, <2>2 DEF SupplyFixed
<1>. QED  BY EconomyInvariant, <1>1, PTL

(* What the pool, the stablecoin, the fee router and the vault promise     *)
(* each on its own holds of them together, in spite of the transfers, fees *)
(* and bonds that also move the balances they work on.                     *)
THEOREM PartsKeepTheirPromises ==
  EconomySpec => [](/\ SharesAreBacked /\ FeesConserved /\ COLConserved
                    /\ MintRateBounded /\ ReleaseRateBounded)
<1>1. EconomyInv => /\ SharesAreBacked /\ FeesConserved /\ COLConserved
                    /\ MintRateBounded /\ ReleaseRateBounded
  <2> SUFFICES ASSUME EconomyInv
               PROVE  /\ SharesAreBacked /\ FeesConserved /\ COLConserved
                      /\ MintRateBounded /\ ReleaseRateBounded
    OBVIOUS
  <2>1. PoolInv /\ TreasuryInv /\ MintRateInv /\ ReleasesApart
    BY DEF EconomyInv, Parts
  <2>2. SharesAreBacked
    BY <2>1 DEF PoolInv, PoolBacked, BackedBy, Counted, SharesAreBacked
  <2>3. FeesConserved /\ COLConserved
    BY <2>1 DEF TreasuryInv
  <2>4. MintRateBounded
    BY <2>1 DEF MintRateInv, RateInv, MintRateBounded
  <2>5. ReleaseRateBounded
    BY <2>1, ReleaseRateFollows
  <2>. QED  BY <2>2, <2>3, <2>4, <2>5
<1>. QED  BY EconomyInvariant, <1>1, PTL

(* The value of a share never falls and backing is lost by governance only *)
(* (ShareValueNeverFalls, BackingLostOnlyByGovernance), whatever the other *)
(* components do between two actions of the pool or of the stablecoin.     *)
THEOREM ValueIsKept == EconomySpec => ShareValueNeverFalls /\ BackingLostOnlyByGovernance
<1>1. EconomyInv /\ [EconomyNext]_economyVars =>
        [pool.totalLP > 0 /\ pool'.totalLP > 0 =>
          pool.reserve0 * pool.reserve1 * pool'.totalLP * pool'.totalLP
             <= pool'.reserve0 * pool'.reserve1 * pool.totalLP * pool.totalLP]_pool
  <2>1. ASSUME EconomyInv, [EconomyNext]_economyVars, pool' # pool
        PROVE  pool.totalLP > 0 /\ pool'.totalLP > 0 =>
                 pool.reserve0 * pool.reserve1 * pool'.totalLP * pool'.totalLP
                    <= pool'.reserve0 * pool'.reserve1 * pool.totalLP * pool.totalLP
    <3>1. PoolNext /\ PoolInv
      BY <2>1 DEF EconomyNext, economyVars, poolVars, EconomyInv, Parts
    <3>. QED  BY <3>1, PoolStepExchanges DEF Exchange
  <2>. QED  BY <2>1, Zenon
<1>2. EconomyInv /\ [EconomyNext]_economyVars => [BackingStep]_<<vaiState, reserve, risk>>
  <2>1. ASSUME EconomyInv, [EconomyNext]_economyVars, <<vaiState, reserve, risk>>' # <<vaiState, reserve, risk>>
        PROVE  BackingStep
    <3>1. VaiInv
      BY <2>1 DEF EconomyInv, Parts, PoolInv
    <3>2. VaiNext
      <4>1. CASE PoolNext
        <5>1. PICK a \in Actors, d0, d1, m \in Int : Exchange(a, d0, d1, m)
          BY <2>1, <4>1, PoolStepExchanges DEF EconomyInv, Parts
        <5>. QED  BY <2>1, <5>1 DEF Exchange
      <4>. QED  BY <2>1, <4>1 DEF EconomyNext, economyVars, vaiVars
    <3>. QED  BY <2>1, <3>1, <3>2, BackingKept DEF VaiSpecNext
  <2>. QED  BY <2>1
<1>. QED  BY EconomyInvariant, <1>1, <1>2, PTL
          DEF EconomySpec, ShareValueNeverFalls, BackingLostOnlyByGovernance, BackingStep
===============================================================================
