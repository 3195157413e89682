-------------------------------- MODULE Pool ---------------------------------
(***************************************************************************)
(* The constant-product pool of VEIL against VAI: creation by governance,  *)
(* liquidity in and out, and swaps, next to minting and burning of VAI.    *)
(* There are two assets, hence one pool, and it keeps VEIL as asset 0.     *)
(***************************************************************************)
EXTENDS Vai

CONSTANTS
    AssetInputs,     \* asset IDs the actions are called with
    PoolFees,        \* fees CreatePool is called with
    MaxPoolFeeBips,  \* largest legal pool fee
    Minima           \* slippage limits the actions are called with

AssetVEIL == 0
AssetVAI == 1
MinPoolFeeBips == 1

ASSUME PoolAssumption ==
    /\ AssetInputs \subseteq Nat
    /\ PoolFees \subseteq Nat
    /\ MaxPoolFeeBips \in 1 .. BipsDenominator
    /\ Minima \subseteq 0 .. MaxUint64

VARIABLES
    pool,  \* PoolKey; a fee of zero stands for the absent pool
    lp     \* LPBalanceKey

poolVars == <<pool, lp>>

NoPool == [feeBips |-> 0, reserve0 |-> 0, reserve1 |-> 0, totalLP |-> 0]
PoolExists == pool # NoPool

ValidateAssetPair(asset0, asset1) == {asset0, asset1} = {AssetVEIL, AssetVAI}

(* Fault: the amounts are taken in the order of the call. *)
MapPairAmounts_CallOrder(assetA, amountA, amountB) == <<amountA, amountB>>

(* The amounts of VEIL and of VAI, in whatever order the call names them.  *)
MapPairAmounts(assetA, amountA, amountB) ==
    IF assetA = AssetVEIL THEN <<amountA, amountB>> ELSE <<amountB, amountA>>

(* Fault: the quotient is rounded up. *)
MulDiv_RoundsUp(a, b, den) == (a * b + den - 1) \div den

(* The product is a big integer; only the quotient must fit in a uint64.   *)
MulDiv(a, b, den) == (a * b) \div den
FitsUint64(v) == v <= MaxUint64

(* Newton's loop from x = n, until the estimate no longer falls.  The sum  *)
(* wraps only for the largest uint64, whose first y is then zero.          *)
IntSqrt(n) ==
    LET loop[x \in 1 .. n] ==
            LET y == (x + n \div x) \div 2 IN IF y < x THEN loop[y] ELSE x
    IN  IF n = 0 THEN 0 ELSE loop[n]

PoolInit ==
    /\ pool = NoPool
    /\ lp = [a \in Actors |-> 0]

CreatePool(actor, asset0, asset1, feeBips) ==
    /\ ValidateAssetPair(asset0, asset1)
    /\ feeBips \in MinPoolFeeBips .. MaxPoolFeeBips
    /\ actor = Governance
    /\ ~PoolExists
    /\ pool' = [NoPool EXCEPT !.feeBips = feeBips]
    /\ UNCHANGED <<ledgerVars, vaiVars, lp>>

(* The largest uint64 as product makes intSqrt divide by zero and panic. *)
FirstLiquidity(in, minted) ==
    /\ pool.totalLP = 0
    /\ FitsUint64(in[1] * in[2]) /\ in[1] * in[2] # MaxUint64
    /\ minted = IntSqrt(in[1] * in[2])

(* Fault: the larger of the two shares is minted. *)
MoreLiquidity_Larger(in, minted) ==
    /\ pool.totalLP # 0 /\ pool.reserve0 # 0 /\ pool.reserve1 # 0
    /\ LET lp0 == MulDiv(in[1], pool.totalLP, pool.reserve0)
           lp1 == MulDiv(in[2], pool.totalLP, pool.reserve1) IN
       /\ FitsUint64(lp0) /\ FitsUint64(lp1)
       /\ minted = IF lp0 < lp1 THEN lp1 ELSE lp0

MoreLiquidity(in, minted) ==
    /\ pool.totalLP # 0 /\ pool.reserve0 # 0 /\ pool.reserve1 # 0
    /\ LET lp0 == MulDiv(in[1], pool.totalLP, pool.reserve0)
           lp1 == MulDiv(in[2], pool.totalLP, pool.reserve1) IN
       /\ FitsUint64(lp0) /\ FitsUint64(lp1)
       /\ minted = MinU64(lp0, lp1)

AddLiquidity(actor, assetA, assetB, amountA, amountB, minLP) ==
    LET in == MapPairAmounts(assetA, amountA, amountB)
        paid(asset) == IF asset = assetA THEN amountA ELSE amountB IN
    /\ ValidateAssetPair(assetA, assetB)
    /\ amountA # 0 /\ amountB # 0
    /\ PoolExists
    /\ CanSub(balance, actor, paid(AssetVEIL))
    /\ CanSub(vaiBalance, actor, paid(AssetVAI))
    /\ \E minted \in 1 .. MaxUint64 :
          /\ FirstLiquidity(in, minted) \/ MoreLiquidity(in, minted)
          /\ minted >= minLP
          /\ FitsUint64(pool.reserve0 + in[1]) /\ FitsUint64(pool.reserve1 + in[2])
          /\ FitsUint64(pool.totalLP + minted)
          /\ pool' = [pool EXCEPT !.reserve0 = @ + in[1], !.reserve1 = @ + in[2],
                                  !.totalLP = @ + minted]
          /\ CanAdd(lp, actor, minted, MaxUint64)
          /\ lp' = Add(lp, actor, minted)
    /\ balance' = Sub(balance, actor, paid(AssetVEIL))
    /\ vaiBalance' = Sub(vaiBalance, actor, paid(AssetVAI))
    /\ UNCHANGED <<now, burned, vaiState, risk, reserve, mintedAt>>

RemoveLiquidity(actor, assetA, assetB, lpAmount, minA, minB) ==
    LET out0 == MulDiv(lpAmount, pool.reserve0, pool.totalLP)
        out1 == MulDiv(lpAmount, pool.reserve1, pool.totalLP)
        min == MapPairAmounts(assetA, minA, minB) IN
    /\ ValidateAssetPair(assetA, assetB)
    /\ lpAmount # 0
    /\ PoolExists
    /\ pool.totalLP # 0 /\ pool.reserve0 # 0 /\ pool.reserve1 # 0
    /\ lp[actor] >= lpAmount
    /\ FitsUint64(out0) /\ FitsUint64(out1)
    /\ out0 # 0 /\ out1 # 0
    /\ out0 >= min[1] /\ out1 >= min[2]
    /\ pool.reserve0 >= out0 /\ pool.reserve1 >= out1 /\ pool.totalLP >= lpAmount
    /\ pool' = [pool EXCEPT !.reserve0 = @ - out0, !.reserve1 = @ - out1,
                            !.totalLP = @ - lpAmount]
    /\ CanSub(lp, actor, lpAmount)
    /\ lp' = Sub(lp, actor, lpAmount)
    /\ CanAdd(balance, actor, out0, MaxUint64)
    /\ CanAdd(vaiBalance, actor, out1, MaxUint64)
    /\ balance' = Add(balance, actor, out0)
    /\ vaiBalance' = Add(vaiBalance, actor, out1)
    /\ UNCHANGED <<now, burned, vaiState, risk, reserve, mintedAt>>

AmountInWithFee(amountIn) ==
    MulDiv(amountIn, BipsDenominator - pool.feeBips, BipsDenominator)

(* What a swap pays out for the amount that goes in on the side with       *)
(* reserveIn.                                                              *)
SwapAllowed(reserveIn, reserveOut, amountIn, amountOut, minOut) ==
    LET withFee == AmountInWithFee(amountIn) IN
    /\ reserveIn # 0 /\ reserveOut # 0
    /\ withFee # 0
    /\ FitsUint64(reserveIn + withFee)
    /\ amountOut = MulDiv(reserveOut, withFee, reserveIn + withFee)
    /\ amountOut # 0 /\ amountOut >= minOut
    /\ amountOut <= reserveOut
    /\ FitsUint64(reserveIn + amountIn)

SwapExactIn(actor, assetIn, assetOut, amountIn, minOut) ==
    /\ ValidateAssetPair(assetIn, assetOut)
    /\ amountIn # 0
    /\ PoolExists
    /\ \/ /\ assetIn = AssetVEIL
          /\ CanSub(balance, actor, amountIn)
          /\ \E out \in 1 .. pool.reserve1 :
                /\ SwapAllowed(pool.reserve0, pool.reserve1, amountIn, out, minOut)
                /\ pool' = [pool EXCEPT !.reserve0 = @ + amountIn, !.reserve1 = @ - out]
                /\ CanAdd(vaiBalance, actor, out, MaxUint64)
                /\ vaiBalance' = Add(vaiBalance, actor, out)
          /\ balance' = Sub(balance, actor, amountIn)
       \/ /\ assetIn = AssetVAI
          /\ CanSub(vaiBalance, actor, amountIn)
          /\ \E out \in 1 .. pool.reserve0 :
                /\ SwapAllowed(pool.reserve1, pool.reserve0, amountIn, out, minOut)
                /\ pool' = [pool EXCEPT !.reserve1 = @ + amountIn, !.reserve0 = @ - out]
                /\ CanAdd(balance, actor, out, MaxUint64)
                /\ balance' = Add(balance, actor, out)
          /\ vaiBalance' = Sub(vaiBalance, actor, amountIn)
    /\ UNCHANGED <<now, burned, lp, vaiState, risk, reserve, mintedAt>>

PoolNext ==
    \/ \E a \in Actors, x, y \in AssetInputs, f \in PoolFees : CreatePool(a, x, y, f)
    \/ \E a \in Actors, x, y \in AssetInputs, v, w \in Amounts, m \in Minima :
          AddLiquidity(a, x, y, v, w, m)
    \/ \E a \in Actors, x, y \in AssetInputs, l \in Amounts, m, o \in Minima :
          RemoveLiquidity(a, x, y, l, m, o)
    \/ \E a \in Actors, x, y \in AssetInputs, v \in Amounts, m \in Minima :
          SwapExactIn(a, x, y, v, m)

PoolSpecInit == LedgerInit /\ VaiInit /\ PoolInit

PoolSpec ==
    /\ PoolSpecInit
    /\ [][PoolNext \/ (VaiNext /\ UNCHANGED poolVars)]_<<ledgerVars, vaiVars, poolVars>>
-----------------------------------------------------------------------------
(* A pool with shares has both reserves and a pool without shares has      *)
(* neither, and the shares never exceed the geometric mean of what backs   *)
(* them: the divisions of AddLiquidity and RemoveLiquidity are safe, and   *)
(* rounding never mints shares out of nothing.                             *)
SharesAreBacked ==
    /\ pool.totalLP = 0 <=> pool.reserve0 = 0
    /\ pool.totalLP = 0 <=> pool.reserve1 = 0
    /\ pool.totalLP * pool.totalLP <= pool.reserve0 * pool.reserve1
    /\ SumFunction(lp) = pool.totalLP

(* What a share is worth never falls, whoever adds, removes or swaps: the  *)
(* product of the reserves per squared share does not decrease, because    *)
(* every division rounds in favour of the pool.                            *)
ShareValueNeverFalls ==
    [][pool.totalLP > 0 /\ pool'.totalLP > 0 =>
          pool.reserve0 * pool.reserve1 * pool'.totalLP * pool'.totalLP
             <= pool'.reserve0 * pool'.reserve1 * pool.totalLP * pool.totalLP]_pool

(* Both assets are conserved across balances and pool: VEIL is neither     *)
(* created nor lost, and the debt is the VAI of the holders together with  *)
(* that of the pool, never above the ceiling.  Hence a holder can always   *)
(* burn, and ErrVAIDebtInvariant of BurnVAI is unreachable, also when VAI  *)
(* has been through the pool.                                              *)
AssetsConserved ==
    /\ SumFunction(balance) + pool.reserve0 + burned
          = SumFunction([a \in Actors |-> InitialBalance])
    /\ SumFunction(vaiBalance) + pool.reserve1 = vaiState.totalDebt
    /\ vaiState.totalDebt <= DebtCeiling
==============================================================================
