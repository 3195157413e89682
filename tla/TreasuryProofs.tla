---------------------------- MODULE TreasuryProofs ----------------------------
(***************************************************************************)
(* Proofs about the fee router and the vault, for every width of integers, *)
(* every split that adds up to the denominator and every release cap.      *)
(***************************************************************************)
EXTENDS Treasury, SumProofs

ClockOK == now \in 1 .. MaxTime

TreasuryInv == TreasuryTypeOK /\ ClockOK /\ FeesConserved /\ COLConserved

specVars == <<ledgerVars, treasuryVars>>
SpecNext == TreasuryNext \/ (Advance /\ UNCHANGED treasuryVars)

(* A share is never more than its exact part: wrapping and dividing both   *)
(* only make it smaller.                                                   *)
LEMMA BipsOfBound ==
  ASSUME NEW b \in Nat, NEW v \in Nat
  PROVE  /\ BipsOf(b, v) \in Nat
         /\ BipsOf(b, v) * BipsDenominator <= b * v
<1> USE LedgerAssumption
<1> DEFINE p == b * v
           w == p % (MaxUint64 + 1)
           q == w \div BipsDenominator
<1>1. p \in Nat
  OBVIOUS
<1>. HIDE DEF p
<1>2. w \in Nat /\ w <= p
  BY <1>1
<1>. HIDE DEF w
<1>3. q \in Nat /\ q * BipsDenominator <= w
  BY <1>2
<1>4. BipsOf(b, v) = q
  BY DEF BipsOf, WrapMul, w, p
<1>. HIDE DEF q
<1>5. q * BipsDenominator <= p
  <2>1. q * BipsDenominator \in Nat
    BY <1>3
  <2>. QED  BY <1>1, <1>2, <1>3, <2>1
<1>. QED  BY <1>3, <1>4, <1>5 DEF p

(* The three shares of an amount are naturals, add up to it, and the two   *)
(* that are rounded do not exceed their part; so the remainder computed by *)
(* subtraction cannot wrap.                                                *)
LEMMA SharesSplit ==
  ASSUME NEW v \in 0 .. MaxUint64
  PROVE  LET s == FeeShares(v) IN
         /\ s.msrb \in Nat /\ s.col \in Nat /\ s.ops \in Nat
         /\ s.msrb + s.col + s.ops = v
         /\ s.msrb * BipsDenominator <= MSRBBips * v
         /\ s.col * BipsDenominator <= COLBips * v
<1> USE LedgerAssumption
<1>. DEFINE m == BipsOf(MSRBBips, v)
            c == BipsOf(COLBips, v)
<1>1. MSRBBips \in Nat /\ COLBips \in Nat /\ OpsBips \in Nat
      /\ MSRBBips + COLBips <= BipsDenominator
  BY TreasuryAssumption
<1>2. v \in Nat /\ v <= MaxUint64
  OBVIOUS
<1>3. m \in Nat /\ m * BipsDenominator <= MSRBBips * v
  BY <1>1, <1>2, BipsOfBound
<1>4. c \in Nat /\ c * BipsDenominator <= COLBips * v
  BY <1>1, <1>2, BipsOfBound
<1>5. FeeShares(v) = [msrb |-> m, col |-> c, ops |-> (v - m - c) % (MaxUint64 + 1)]
  BY DEF FeeShares
<1>. HIDE DEF m, c
<1>6. (m + c) * BipsDenominator <= v * BipsDenominator
  <2>1. (m + c) * BipsDenominator = m * BipsDenominator + c * BipsDenominator
    BY <1>3, <1>4
  <2>2. MSRBBips * v + COLBips * v = (MSRBBips + COLBips) * v
    BY <1>1, <1>2
  <2>3. (MSRBBips + COLBips) * v <= BipsDenominator * v
    BY <1>1, <1>2
  <2>. QED  BY <1>1, <1>2, <1>3, <1>4, <2>1, <2>2, <2>3
<1>7. m + c <= v
  BY <1>2, <1>3, <1>4, <1>6
<1>8. (v - m - c) % (MaxUint64 + 1) = v - m - c
  BY <1>2, <1>3, <1>4, <1>7
<1>. QED  BY <1>2, <1>3, <1>4, <1>5, <1>7, <1>8

LEMMA TreasuryInvInit == LedgerInit /\ TreasuryInit => TreasuryInv
<1> SUFFICES ASSUME LedgerInit, TreasuryInit PROVE TreasuryInv
  OBVIOUS
<1> USE LedgerAssumption, TreasuryAssumption
<1>1. TreasuryTypeOK /\ ClockOK
  BY DEF LedgerInit, TreasuryInit, TreasuryTypeOK, ClockOK
<1>2. FeesConserved
  BY DEF TreasuryInit, FeesConserved
<1>3. COLConserved
  BY DEF TreasuryInit, COLConserved
<1>. QED  BY <1>1, <1>2, <1>3 DEF TreasuryInv

LEMMA RouteFeesStep ==
  ASSUME TreasuryInv, NEW a \in Actors, NEW v \in Amounts, RouteFees(a, v)
  PROVE  TreasuryInv'
<1> DEFINE s == FeeShares(v)
<1> USE LedgerAssumption
<1>1. v \in 0 .. MaxUint64
  OBVIOUS
<1>2. /\ s.msrb \in Nat /\ s.col \in Nat /\ s.ops \in Nat
      /\ s.msrb + s.col + s.ops = v
      /\ s.msrb * BipsDenominator <= MSRBBips * v
      /\ s.col * BipsDenominator <= COLBips * v
  BY <1>1, SharesSplit
<1>3. /\ CanSub(balance, a, v) /\ balance' = Sub(balance, a, v)
      /\ feeRouter.msrb + s.msrb <= MaxUint64
      /\ feeRouter.col + s.col <= MaxUint64
      /\ feeRouter.ops + s.ops <= MaxUint64
      /\ feeRouter' = [msrb |-> feeRouter.msrb + s.msrb, col |-> feeRouter.col + s.col,
                       ops |-> feeRouter.ops + s.ops]
      /\ routed' = routed + v
      /\ UNCHANGED <<now, treasury, releasedAt>>
  BY DEF RouteFees
<1>. HIDE DEF s
<1>4. TreasuryTypeOK'
  <2>1. balance' \in [Actors -> 0 .. MaxUint64]
    BY <1>1, <1>3 DEF TreasuryInv, TreasuryTypeOK, CanSub, Sub
  <2>2. feeRouter' \in [msrb : 0 .. MaxUint64, col : 0 .. MaxUint64, ops : 0 .. MaxUint64]
    <3>1. /\ feeRouter.msrb \in Nat /\ feeRouter.col \in Nat /\ feeRouter.ops \in Nat
      BY DEF TreasuryInv, TreasuryTypeOK
    <3>2. /\ feeRouter.msrb + s.msrb \in 0 .. MaxUint64
          /\ feeRouter.col + s.col \in 0 .. MaxUint64
          /\ feeRouter.ops + s.ops \in 0 .. MaxUint64
      BY <1>2, <1>3, <3>1
    <3>. QED  BY <1>3, <3>2
  <2>. QED  BY <1>1, <1>3, <2>1, <2>2, SMTT(30) DEF TreasuryInv, TreasuryTypeOK
<1>5. FeesConserved'
  <2>1. /\ feeRouter.msrb \in Nat /\ feeRouter.col \in Nat /\ feeRouter.ops \in Nat
        /\ routed \in Nat /\ MSRBBips \in Nat /\ COLBips \in Nat
    BY TreasuryAssumption DEF TreasuryInv, TreasuryTypeOK
  <2>2. feeRouter'.msrb + feeRouter'.col + feeRouter'.ops = routed'
    BY <1>1, <1>2, <1>3, <2>1 DEF TreasuryInv, FeesConserved
  <2>3. feeRouter'.msrb * BipsDenominator <= routed' * MSRBBips
    <3>1. (feeRouter.msrb + s.msrb) * BipsDenominator
             = feeRouter.msrb * BipsDenominator + s.msrb * BipsDenominator
      BY <1>2, <2>1
    <3>2. (routed + v) * MSRBBips = routed * MSRBBips + MSRBBips * v
      BY <1>1, <2>1
    <3>. QED  BY <1>1, <1>2, <1>3, <2>1, <3>1, <3>2 DEF TreasuryInv, FeesConserved
  <2>4. feeRouter'.col * BipsDenominator <= routed' * COLBips
    <3>1. (feeRouter.col + s.col) * BipsDenominator
             = feeRouter.col * BipsDenominator + s.col * BipsDenominator
      BY <1>2, <2>1
    <3>2. (routed + v) * COLBips = routed * COLBips + COLBips * v
      BY <1>1, <2>1
    <3>. QED  BY <1>1, <1>2, <1>3, <2>1, <3>1, <3>2 DEF TreasuryInv, FeesConserved
  <2>. QED  BY <2>2, <2>3, <2>4 DEF FeesConserved
<1>6. ClockOK' /\ COLConserved'
  BY <1>3 DEF TreasuryInv, ClockOK, COLConserved
<1>. QED  BY <1>4, <1>5, <1>6 DEF TreasuryInv

LEMMA ReleaseCOLTrancheStep ==
  ASSUME TreasuryInv, NEW a \in Actors, NEW v \in Amounts, ReleaseCOLTranche(a, v)
  PROVE  TreasuryInv'
<1> USE LedgerAssumption
<1>1. v \in 0 .. MaxUint64 /\ now \in 1 .. MaxTime
  BY DEF TreasuryInv, ClockOK
<1>2. /\ v <= treasury.locked
      /\ treasury.live + v <= MaxUint64
      /\ treasury.released + v <= MaxUint64
      /\ treasury' = [locked |-> treasury.locked - v, live |-> treasury.live + v,
                      released |-> treasury.released + v, lastRelease |-> now]
      /\ releasedAt' = [releasedAt EXCEPT ![now] = @ + v]
      /\ UNCHANGED <<now, balance, feeRouter, routed>>
  BY DEF ReleaseCOLTranche, ledgerVars
<1>. DEFINE l == treasury.locked
            f == treasury.live
            r == treasury.released
<1>0. /\ v \in Nat /\ l \in Nat /\ f \in Nat /\ r \in Nat
      /\ l <= MaxUint64 /\ releasedAt \in [1 .. MaxTime -> Nat]
  BY <1>1 DEF TreasuryInv, TreasuryTypeOK
<1>3. TreasuryTypeOK'
  <2>1. treasury' \in [locked : 0 .. MaxUint64, live : 0 .. MaxUint64,
                       released : 0 .. MaxUint64, lastRelease : 0 .. MaxTime]
    <3>1. l - v \in 0 .. MaxUint64 /\ f + v \in 0 .. MaxUint64 /\ r + v \in 0 .. MaxUint64
      <4>1. v <= l /\ f + v <= MaxUint64 /\ r + v <= MaxUint64
        BY <1>2
      <4>2. v \in Nat /\ l \in Nat /\ f \in Nat /\ r \in Nat /\ l <= MaxUint64
        BY <1>0
      <4>. QED  BY <4>1, <4>2
    <3>2. now \in 0 .. MaxTime
      BY <1>1
    <3>. QED  BY <1>2, <3>1, <3>2
  <2>2. releasedAt' \in [1 .. MaxTime -> Nat]
    BY <1>0, <1>1, <1>2
  <2>. QED  BY <1>2, <2>1, <2>2 DEF TreasuryInv, TreasuryTypeOK
<1>4. COLConserved'
  <2>1. COLVaultLocked \in Nat /\ COLVaultLive \in Nat
    BY TreasuryAssumption
  <2>2. l + f = COLVaultLocked + COLVaultLive /\ r = COLVaultLocked - l
    BY DEF TreasuryInv, COLConserved
  <2>3. /\ (l - v) + (f + v) = COLVaultLocked + COLVaultLive
        /\ r + v = COLVaultLocked - (l - v)
    BY <1>0, <2>1, <2>2, SMTT(30)
  <2>. QED  BY <1>2, <2>3 DEF COLConserved
<1>5. ClockOK' /\ FeesConserved'
  BY <1>2 DEF TreasuryInv, ClockOK, FeesConserved
<1>. QED  BY <1>3, <1>4, <1>5 DEF TreasuryInv

LEMMA TreasuryInvStep == TreasuryInv /\ [SpecNext]_specVars => TreasuryInv'
<1> SUFFICES ASSUME TreasuryInv, [SpecNext]_specVars PROVE TreasuryInv'
  OBVIOUS
<1>1. ASSUME NEW a \in Actors, NEW v \in Amounts, RouteFees(a, v) PROVE TreasuryInv'
  BY <1>1, RouteFeesStep
<1>2. ASSUME NEW a \in Actors, NEW v \in Amounts, ReleaseCOLTranche(a, v) PROVE TreasuryInv'
  BY <1>2, ReleaseCOLTrancheStep
<1>3. CASE Advance /\ UNCHANGED treasuryVars
  <2>1. ClockOK'
    BY <1>3, LedgerAssumption DEF Advance, TreasuryInv, ClockOK
  <2>2. TreasuryTypeOK'
    BY <1>3 DEF Advance, treasuryVars, TreasuryInv, TreasuryTypeOK
  <2>3. FeesConserved' /\ COLConserved'
    BY <1>3 DEF treasuryVars, TreasuryInv, FeesConserved, COLConserved
  <2>. QED  BY <2>1, <2>2, <2>3 DEF TreasuryInv
<1>4. CASE UNCHANGED specVars
  BY <1>4 DEF specVars, ledgerVars, treasuryVars, TreasuryInv, TreasuryTypeOK, ClockOK,
              FeesConserved, COLConserved
<1>. QED  BY <1>1, <1>2, <1>3, <1>4 DEF SpecNext, TreasuryNext

LEMMA TreasuryInvariant == TreasurySpec => []TreasuryInv
  BY TreasuryInvInit, TreasuryInvStep, PTL DEF TreasurySpec, TreasurySpecInit, SpecNext, specVars

(* Budgets, vault and balances stay uint64 in every reachable state. *)
THEOREM TreasuryTypes == TreasurySpec => []TreasuryTypeOK
<1>1. TreasuryInv => TreasuryTypeOK
  BY DEF TreasuryInv
<1>. QED  BY TreasuryInvariant, <1>1, PTL

(* RouteFees loses and invents nothing, for every split, every sequence of *)
(* amounts and every integer width, wrapped products included.             *)
THEOREM FeesAreConserved == TreasurySpec => []FeesConserved
<1>1. TreasuryInv => FeesConserved
  BY DEF TreasuryInv
<1>. QED  BY TreasuryInvariant, <1>1, PTL

(* ReleaseCOLTranche only ever moves liquidity from locked to live. *)
THEOREM COLIsConserved == TreasurySpec => []COLConserved
<1>1. TreasuryInv => COLConserved
  BY DEF TreasuryInv
<1>. QED  BY TreasuryInvariant, <1>1, PTL
-----------------------------------------------------------------------------
(* One tranche within the cap. *)
Capped(x) == x * BipsDenominator <= COLVaultLocked * MaxReleaseBips
ReleaseSpan(t) == {s \in 1 .. MaxTime : s >= t /\ s < t + ReleaseEpoch}

(* Where the end of an epoch fits its int64 it is what EpochElapsed adds   *)
(* up.                                                                     *)
LEMMA ReleaseEndFits ==
  ASSUME ReleaseEpochFits, NEW t \in 0 .. MaxTime
  PROVE  WrapInt64(t + ReleaseEpoch) = t + ReleaseEpoch
<1> DEFINE x == t + ReleaseEpoch
           M == MaxInt64
<1>1. MaxTime \in Nat /\ ReleaseEpoch \in Nat /\ MaxUint64 \in Nat
  BY LedgerAssumption, TreasuryAssumption
<1>2. M \in Nat
  BY <1>1 DEF MaxInt64
<1>3. x \in 0 .. M
  BY <1>1, <1>2 DEF ReleaseEpochFits
<1>4. WrapInt64(x) = ((x + M + 1) % (2 * M + 2)) - (M + 1)
  BY DEF WrapInt64
<1>. HIDE DEF x, M
<1>5. (x + M + 1) % (2 * M + 2) = x + M + 1
  BY <1>2, <1>3
<1>6. WrapInt64(x) = x
  BY <1>2, <1>3, <1>4, <1>5
<1>. QED  BY <1>6 DEF x

(* What makes ReleaseRateBounded inductive where epochs fit: every tranche *)
(* is within the cap, none is later than the stored time of the last       *)
(* release, and any two are an epoch apart.                                *)
TranchesApart ==
    /\ treasury.lastRelease <= now
    /\ \A s \in 1 .. MaxTime : releasedAt[s] > 0 =>
          s <= treasury.lastRelease /\ Capped(releasedAt[s])
    /\ \A s, u \in 1 .. MaxTime :
          releasedAt[s] > 0 /\ releasedAt[u] > 0 /\ s < u => u >= s + ReleaseEpoch

LEMMA ConstantTypes ==
  /\ COLVaultLocked \in Nat /\ MaxReleaseBips \in Nat /\ ReleaseEpoch \in Nat \ {0}
  BY TreasuryAssumption, LedgerAssumption

LEMMA StateTypes ==
  ASSUME TreasuryInv
  PROVE  /\ now \in Nat /\ now \in 1 .. MaxTime /\ treasury.lastRelease \in Nat
         /\ releasedAt \in [1 .. MaxTime -> Nat]
  BY DEF TreasuryInv, TreasuryTypeOK, ClockOK

LEMMA TranchesApartInit == LedgerInit /\ TreasuryInit => TranchesApart
  BY LedgerAssumption DEF LedgerInit, TreasuryInit, TranchesApart

(* A tranche is within the cap of the vault as it was at genesis, although *)
(* the cap is computed from what is still locked.                          *)
LEMMA TrancheCapped ==
  ASSUME TreasuryInv, NEW v \in Amounts, v <= BipsOf(MaxReleaseBips, treasury.locked)
  PROVE  Capped(v)
<1> DEFINE l == treasury.locked
           m == BipsOf(MaxReleaseBips, l)
<1>1. /\ l \in Nat /\ COLVaultLocked \in Nat /\ MaxReleaseBips \in Nat /\ v \in Nat
      /\ BipsDenominator \in Nat
  BY LedgerAssumption, TreasuryAssumption DEF TreasuryInv, TreasuryTypeOK
<1>2. l <= COLVaultLocked
  <2>1. treasury.released \in Nat /\ treasury.released = COLVaultLocked - l
    BY DEF TreasuryInv, TreasuryTypeOK, COLConserved
  <2>. QED  BY <1>1, <2>1
<1>3. m \in Nat /\ m * BipsDenominator <= MaxReleaseBips * l
  BY <1>1, BipsOfBound
<1>4. v <= m
  OBVIOUS
<1>. HIDE DEF l, m
<1>5. v * BipsDenominator <= m * BipsDenominator
  BY <1>1, <1>3, <1>4
<1>6. MaxReleaseBips * l <= COLVaultLocked * MaxReleaseBips
  BY <1>1, <1>2
<1>7. /\ v * BipsDenominator \in Nat /\ m * BipsDenominator \in Nat
      /\ MaxReleaseBips * l \in Nat /\ COLVaultLocked * MaxReleaseBips \in Nat
  BY <1>1, <1>3
<1>. QED  BY <1>3, <1>5, <1>6, <1>7 DEF Capped

LEMMA TranchesFrame ==
  ASSUME TreasuryInv, TranchesApart, now' \in {now, now + 1}, UNCHANGED <<treasury, releasedAt>>
  PROVE  TranchesApart'
  BY StateTypes DEF TranchesApart, Capped

LEMMA TranchesApartStep ==
  ReleaseEpochFits /\ TreasuryInv /\ TranchesApart /\ [SpecNext]_specVars => TranchesApart'
<1> SUFFICES ASSUME ReleaseEpochFits, TreasuryInv, TranchesApart, [SpecNext]_specVars PROVE TranchesApart'
  OBVIOUS
<1>1. /\ now \in Nat /\ now \in 1 .. MaxTime /\ treasury.lastRelease \in Nat
      /\ releasedAt \in [1 .. MaxTime -> Nat] /\ ReleaseEpoch \in Nat \ {0}
      /\ MaxTime \in Nat
  BY LedgerAssumption, ConstantTypes, StateTypes
<1>2. ASSUME NEW a \in Actors, NEW v \in Amounts, ReleaseCOLTranche(a, v)
      PROVE  TranchesApart'
  <2>1. /\ treasury.lastRelease > 0 => now >= treasury.lastRelease + ReleaseEpoch
        /\ v <= BipsOf(MaxReleaseBips, treasury.locked)
        /\ releasedAt' = [releasedAt EXCEPT ![now] = @ + v]
        /\ now' = now /\ treasury'.lastRelease = now
    <3>1. treasury.lastRelease \in 0 .. MaxTime
      BY DEF TreasuryInv, TreasuryTypeOK
    <3>2. WrapInt64(treasury.lastRelease + ReleaseEpoch) = treasury.lastRelease + ReleaseEpoch
      BY <3>1, ReleaseEndFits
    <3>. QED  BY <1>2, <3>2 DEF ReleaseCOLTranche, EpochElapsed, ledgerVars
  <2>2. Capped(v) /\ v \in Nat
    BY <2>1, TrancheCapped, LedgerAssumption
  <2>3. \A s \in 1 .. MaxTime : releasedAt[s] > 0 =>
           s <= treasury.lastRelease /\ treasury.lastRelease > 0
    <3>1. \A s \in 1 .. MaxTime : releasedAt[s] > 0 => s <= treasury.lastRelease
      BY DEF TranchesApart
    <3>. QED  BY <1>1, <3>1
  <2>4. \A s \in 1 .. MaxTime : releasedAt[s] > 0 => now >= s + ReleaseEpoch
    BY <1>1, <2>1, <2>3
  <2>5. releasedAt[now] = 0
    BY <1>1, <2>4
  <2>6. \A s \in 1 .. MaxTime : releasedAt'[s] = IF s = now THEN v ELSE releasedAt[s]
    BY <1>1, <2>1, <2>2, <2>5
  <2>7. \A s \in 1 .. MaxTime : releasedAt'[s] > 0 => s <= now /\ Capped(releasedAt'[s])
    BY <1>1, <2>2, <2>4, <2>6 DEF TranchesApart
  <2>8. \A s, u \in 1 .. MaxTime :
           releasedAt'[s] > 0 /\ releasedAt'[u] > 0 /\ s < u => u >= s + ReleaseEpoch
    BY <1>1, <2>4, <2>6 DEF TranchesApart
  <2>. QED  BY <1>1, <2>1, <2>7, <2>8 DEF TranchesApart, Capped
<1>3. ASSUME now' \in {now, now + 1}, UNCHANGED <<treasury, releasedAt>>
      PROVE  TranchesApart'
  BY <1>3, TranchesFrame
<1>4. ASSUME NEW a \in Actors, NEW v \in Amounts, RouteFees(a, v) PROVE TranchesApart'
  BY <1>3, <1>4 DEF RouteFees
<1>5. CASE Advance /\ UNCHANGED treasuryVars
  BY <1>3, <1>5 DEF Advance, treasuryVars
<1>6. CASE UNCHANGED specVars
  BY <1>3, <1>6 DEF specVars, ledgerVars, treasuryVars
<1>. QED  BY <1>2, <1>4, <1>5, <1>6 DEF SpecNext, TreasuryNext

(* A span as long as an epoch holds at most one tranche. *)
LEMMA SpanHasOneTranche ==
  ASSUME TreasuryInv, TranchesApart, NEW t \in 1 .. MaxTime
  PROVE  Capped(SumFunctionOnSet(releasedAt, ReleaseSpan(t)))
<1>1. /\ releasedAt \in [1 .. MaxTime -> Nat] /\ ReleaseEpoch \in Nat \ {0}
      /\ MaxTime \in Nat /\ BipsDenominator \in Nat
      /\ COLVaultLocked \in Nat /\ MaxReleaseBips \in Nat
  BY LedgerAssumption, ConstantTypes, StateTypes
<1>2. IsFiniteSet(ReleaseSpan(t))
  <2>1. IsFiniteSet(1 .. MaxTime)
    BY <1>1, FS_Interval
  <2>2. ReleaseSpan(t) \subseteq 1 .. MaxTime
    BY DEF ReleaseSpan
  <2>. QED  BY <2>1, <2>2, FS_Subset
<1>3. \A s \in ReleaseSpan(t) : releasedAt[s] \in Nat
  BY <1>1 DEF ReleaseSpan
<1>4. CASE \A s \in ReleaseSpan(t) : releasedAt[s] = 0
  <2>1. SumFunctionOnSet(releasedAt, ReleaseSpan(t)) = 0
    BY <1>2, <1>4, SumOfZeros
  <2>2. Capped(0)
    BY <1>1 DEF Capped
  <2>. QED  BY <2>1, <2>2
<1>5. ASSUME NEW a \in ReleaseSpan(t), releasedAt[a] # 0
      PROVE  Capped(SumFunctionOnSet(releasedAt, ReleaseSpan(t)))
  <2> DEFINE rest == ReleaseSpan(t) \ {a}
  <2>1. releasedAt[a] > 0 /\ Capped(releasedAt[a])
    BY <1>1, <1>5 DEF TranchesApart, ReleaseSpan
  <2>2. ASSUME NEW s \in rest PROVE releasedAt[s] = 0
    <3>1. /\ s \in 1 .. MaxTime /\ a \in 1 .. MaxTime /\ s # a
          /\ s < a + ReleaseEpoch /\ a < s + ReleaseEpoch
      BY <1>1 DEF ReleaseSpan
    <3>2. ~(releasedAt[s] > 0)
      BY <1>1, <2>1, <3>1 DEF TranchesApart
    <3>. QED  BY <1>1, <3>1, <3>2
  <2>3. IsFiniteSet(rest)
    BY <1>2, FS_Subset
  <2>4. SumFunctionOnSet(releasedAt, rest) = 0
    BY <2>2, <2>3, SumOfZeros
  <2>5. SumFunctionOnSet(releasedAt, ReleaseSpan(t))
          = releasedAt[a] + SumFunctionOnSet(releasedAt, rest)
    <3>1. \A s \in ReleaseSpan(t) : releasedAt[s] \in Int
      BY <1>3
    <3>. QED  BY <1>2, <3>1, SumRemove
  <2>6. releasedAt[a] \in Nat
    BY <1>3
  <2>. QED  BY <2>1, <2>4, <2>5, <2>6
<1>. QED  BY <1>4, <1>5

(* Epochs that do not fit are kept out of the argument. *)
ReleasesApart == ReleaseEpochFits => TranchesApart

LEMMA ReleasesApartInit == LedgerInit /\ TreasuryInit => ReleasesApart
  BY TranchesApartInit DEF ReleasesApart

LEMMA ReleasesFrame ==
  ASSUME TreasuryInv, ReleasesApart, now' \in {now, now + 1}, UNCHANGED <<treasury, releasedAt>>
  PROVE  ReleasesApart'
  BY TranchesFrame DEF ReleasesApart, ReleaseEpochFits

LEMMA ReleasesApartStep ==
  TreasuryInv /\ ReleasesApart /\ [SpecNext]_specVars => ReleasesApart'
  BY TranchesApartStep DEF ReleasesApart, ReleaseEpochFits

LEMMA ReleaseRateFollows == TreasuryInv /\ ReleasesApart => ReleaseRateBounded
  BY SpanHasOneTranche DEF ReleasesApart, ReleaseRateBounded, ReleaseSpan, Capped

(* ReleaseRateBounded for every cap, horizon and integer width, and every  *)
(* epoch length whose end fits: whatever sequence of tranches              *)
(* ReleaseCOLTranche lets through, a span as long as an epoch sees at most *)
(* the capped part of the vault.                                           *)
THEOREM ReleaseRateIsBounded == TreasurySpec => []ReleaseRateBounded
  BY TreasuryInvInit, TreasuryInvStep, ReleasesApartInit, ReleasesApartStep,
     ReleaseRateFollows, PTL
     DEF TreasurySpec, TreasurySpecInit, SpecNext, specVars
===============================================================================
