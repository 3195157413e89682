------------------------------ MODULE VaiProofs -------------------------------
(***************************************************************************)
(* Proofs about the stablecoin, for every ceiling, epoch limit, epoch      *)
(* length, floor, reserve and integer width; the rate of minting for the   *)
(* epochs whose end fits an int64.                                         *)
(***************************************************************************)
EXTENDS Vai, SumProofs

Clock == now \in 1 .. MaxTime

VaiInv == VaiTypeOK /\ Clock

vaiSpecVars == <<ledgerVars, vaiVars>>
VaiSpecNext == VaiNext \/ (Advance /\ UNCHANGED vaiVars)

States == [totalDebt : 0 .. MaxUint64, epochStart : 0 .. MaxTime, epochMinted : 0 .. MaxUint64]

(* The epoch of the present timestamp is a state like the stored one, with *)
(* the same debt.                                                          *)
LEMMA EpochTyped ==
  ASSUME VaiInv
  PROVE  CurrentEpoch \in States /\ CurrentEpoch.totalDebt = vaiState.totalDebt
<1>1. vaiState \in States /\ now \in 0 .. MaxTime /\ 0 \in 0 .. MaxUint64
  BY LedgerAssumption DEF VaiInv, VaiTypeOK, Clock, States
<1>. DEFINE opened == IF vaiState.epochStart = 0 THEN [vaiState EXCEPT !.epochStart = now]
                      ELSE vaiState
<1>2. opened \in States /\ opened.totalDebt = vaiState.totalDebt
  BY <1>1 DEF States
<1>3. \/ CurrentEpoch = [opened EXCEPT !.epochStart = now, !.epochMinted = 0]
      \/ CurrentEpoch = opened
  BY DEF CurrentEpoch
<1>. HIDE DEF opened
<1>. QED  BY <1>1, <1>2, <1>3 DEF States

LEMMA VaiInvInit == LedgerInit /\ VaiInit => VaiInv
<1> SUFFICES ASSUME LedgerInit, VaiInit PROVE VaiInv
  OBVIOUS
<1>1. GenesisRisk \in RiskInputs /\ ValidRiskConfig(GenesisRisk)
  BY VaiAssumption
<1>2. /\ risk \in RiskInputs
      /\ risk.backingFloorBips > 0 /\ risk.ltvBips["WSVEIL"] = 0
      /\ \A c \in Collateral :
            {risk.ltvBips[c], risk.haircutBips[c]} \subseteq 0 .. BipsDenominator
  <2>1. risk = GenesisRisk
    BY DEF VaiInit
  <2>2. risk \in [backingFloorBips : 0 .. MaxUint64, ltvBips : [Collateral -> Nat],
                  haircutBips : [Collateral -> Nat]]
    BY <1>1, <2>1, VaiAssumption
  <2>. QED  BY <1>1, <2>1, <2>2, LedgerAssumption DEF ValidRiskConfig
<1>3. /\ vaiBalance \in [Actors -> 0 .. MaxUint64]
      /\ vaiState \in [totalDebt : 0 .. MaxUint64, epochStart : 0 .. MaxTime,
                       epochMinted : 0 .. MaxUint64]
      /\ reserve \in 0 .. MaxUint64
      /\ mintedAt \in [1 .. MaxTime -> Nat]
      /\ now \in 1 .. MaxTime
  BY LedgerAssumption, VaiAssumption DEF LedgerInit, VaiInit
<1>. QED  BY <1>2, <1>3 DEF VaiInv, VaiTypeOK, Clock

LEMMA MintTyped ==
  ASSUME VaiInv, NEW a \in Actors, NEW b \in Actors, NEW v \in Amounts, MintVAI(a, b, v)
  PROVE  VaiInv'
<1>1. v \in Nat /\ MaxUint64 \in Nat
  BY LedgerAssumption
<1>2. CurrentEpoch \in States
  BY EpochTyped
<1>. DEFINE e == CurrentEpoch
            m == e.epochMinted + v
            d == vaiState.totalDebt + v
<1>3. /\ m <= MaxUint64 /\ d <= MaxUint64
      /\ CanAdd(vaiBalance, b, v, MaxUint64)
      /\ vaiBalance' = Add(vaiBalance, b, v)
      /\ vaiState' = [e EXCEPT !.epochMinted = m, !.totalDebt = d]
      /\ mintedAt' = [mintedAt EXCEPT ![now] = @ + v]
      /\ UNCHANGED <<now, risk, reserve>>
  BY DEF MintVAI, ledgerVars
<1>4. vaiState' \in States
  <2>1. e.epochMinted \in Nat /\ vaiState.totalDebt \in Nat
    BY <1>2 DEF VaiInv, VaiTypeOK, States
  <2>2. m \in 0 .. MaxUint64 /\ d \in 0 .. MaxUint64
    BY <1>1, <1>3, <2>1
  <2>. HIDE DEF e, m, d
  <2>3. e \in States
    BY <1>2 DEF e
  <2>. QED  BY <1>3, <2>2, <2>3 DEF States
<1>5. vaiBalance' \in [Actors -> 0 .. MaxUint64]
  BY <1>1, <1>3 DEF VaiInv, VaiTypeOK, CanAdd, Add
<1>6. mintedAt' \in [1 .. MaxTime -> Nat]
  BY <1>1, <1>3 DEF VaiInv, VaiTypeOK, Clock
<1>. QED  BY <1>3, <1>4, <1>5, <1>6 DEF VaiInv, VaiTypeOK, Clock, States

LEMMA BurnTyped ==
  ASSUME VaiInv, NEW a \in Actors, NEW v \in Amounts, BurnVAI(a, v)
  PROVE  VaiInv'
<1>1. v \in Nat /\ MaxUint64 \in Nat
  BY LedgerAssumption
<1>2. /\ CanSub(vaiBalance, a, v) /\ v <= vaiState.totalDebt
      /\ vaiBalance' = Sub(vaiBalance, a, v)
      /\ vaiState' = [vaiState EXCEPT !.totalDebt = @ - v]
      /\ UNCHANGED <<now, risk, reserve, mintedAt>>
  BY DEF BurnVAI, ledgerVars
<1>3. vaiState' \in States
  <2>1. vaiState \in States
    BY DEF VaiInv, VaiTypeOK, States
  <2>2. vaiState.totalDebt - v \in 0 .. MaxUint64
    BY <1>1, <1>2, <2>1 DEF States
  <2>. QED  BY <1>2, <2>1, <2>2 DEF States
<1>4. vaiBalance' \in [Actors -> 0 .. MaxUint64]
  BY <1>1, <1>2 DEF VaiInv, VaiTypeOK, CanSub, Sub
<1>. QED  BY <1>2, <1>3, <1>4 DEF VaiInv, VaiTypeOK, Clock, States

LEMMA SetRiskTyped ==
  ASSUME VaiInv, NEW a \in Actors, NEW cfg \in RiskInputs, SetRiskParams(a, cfg)
  PROVE  VaiInv'
<1>1. /\ ValidRiskConfig(cfg) /\ risk' = cfg
      /\ UNCHANGED <<now, vaiBalance, vaiState, reserve, mintedAt>>
  BY DEF SetRiskParams, ledgerVars
<1>2. cfg \in [backingFloorBips : 0 .. MaxUint64, ltvBips : [Collateral -> Nat],
               haircutBips : [Collateral -> Nat]]
  BY VaiAssumption
<1>3. /\ cfg.backingFloorBips > 0 /\ cfg.ltvBips["WSVEIL"] = 0
      /\ \A c \in Collateral :
            {cfg.ltvBips[c], cfg.haircutBips[c]} \subseteq 0 .. BipsDenominator
  BY <1>1, <1>2, LedgerAssumption DEF ValidRiskConfig
<1>. QED  BY <1>1, <1>3 DEF VaiInv, VaiTypeOK, Clock

LEMMA VaiInvStep == VaiInv /\ [VaiSpecNext]_vaiSpecVars => VaiInv'
<1> SUFFICES ASSUME VaiInv, [VaiSpecNext]_vaiSpecVars PROVE VaiInv'
  OBVIOUS
<1>1. ASSUME NEW a \in Actors, NEW b \in Actors, NEW v \in Amounts, MintVAI(a, b, v)
      PROVE  VaiInv'
  BY <1>1, MintTyped
<1>2. ASSUME NEW a \in Actors, NEW v \in Amounts, BurnVAI(a, v) PROVE VaiInv'
  BY <1>2, BurnTyped
<1>3. ASSUME NEW a \in Actors, NEW cfg \in RiskInputs, SetRiskParams(a, cfg) PROVE VaiInv'
  BY <1>3, SetRiskTyped
<1>4. ASSUME NEW a \in Actors, NEW r \in ReserveInputs, UpdateReserveState(a, r) PROVE VaiInv'
  BY <1>4, VaiAssumption DEF UpdateReserveState, ledgerVars, VaiInv, VaiTypeOK, Clock
<1>5. CASE Advance /\ UNCHANGED vaiVars
  BY <1>5, LedgerAssumption DEF Advance, vaiVars, VaiInv, VaiTypeOK, Clock
<1>6. CASE UNCHANGED vaiSpecVars
  BY <1>6 DEF vaiSpecVars, ledgerVars, vaiVars, VaiInv, VaiTypeOK, Clock
<1>. QED  BY <1>1, <1>2, <1>3, <1>4, <1>5, <1>6 DEF VaiSpecNext, VaiNext

LEMMA VaiInvariant == VaiSpec => []VaiInv
  BY VaiInvInit, VaiInvStep, PTL DEF VaiSpec, VaiSpecInit, VaiSpecNext, vaiSpecVars

(* Balances and debt stay uint64, and the stored risk configuration is     *)
(* always one that GetRiskConfig accepts.                                  *)
THEOREM VaiTypes == VaiSpec => []VaiTypeOK
<1>1. VaiInv => VaiTypeOK
  BY DEF VaiInv
<1>. QED  BY VaiInvariant, <1>1, PTL
-------------------------------------------------------------------------------
(* A smaller debt needs no more backing than a larger one. *)
LEMMA BacksMonotone ==
  ASSUME NEW f \in Nat, NEW r \in Int, NEW x \in Nat, NEW y \in Nat,
         x <= y, r >= y * f
  PROVE  r >= x * f
<1>1. x * f <= y * f
  OBVIOUS
<1>2. x * f \in Nat /\ y * f \in Nat
  OBVIOUS
<1>. QED  BY <1>1, <1>2

BackingStep ==
    reserve' = reserve /\ risk' = risk =>
       /\ Backed => Backed'
       /\ ~Backed => vaiState'.totalDebt <= vaiState.totalDebt

LEMMA BackingKept == VaiInv /\ [VaiSpecNext]_vaiSpecVars => BackingStep
<1> SUFFICES ASSUME VaiInv, [VaiSpecNext]_vaiSpecVars, reserve' = reserve, risk' = risk
             PROVE  /\ Backed => Backed'
                    /\ ~Backed => vaiState'.totalDebt <= vaiState.totalDebt
  BY DEF BackingStep
<1>. DEFINE d == vaiState.totalDebt
            e == vaiState'.totalDebt
            f == risk.backingFloorBips
            r == reserve * BipsDenominator
<1>1. d \in Nat /\ f \in Nat /\ r \in Int
  <2>1. risk \in [backingFloorBips : 0 .. MaxUint64, ltvBips : [Collateral -> Nat],
                  haircutBips : [Collateral -> Nat]]
    BY VaiAssumption DEF VaiInv, VaiTypeOK
  <2>. QED  BY <2>1, LedgerAssumption DEF VaiInv, VaiTypeOK
<1>2. VaiInv'
  BY VaiInvStep
<1>3. e \in Nat
  BY <1>2 DEF VaiInv, VaiTypeOK
<1>4. (Backed <=> r >= d * f) /\ (Backed' <=> r >= e * f)
  BY DEF Backed, Backs
<1>. HIDE DEF f, r
<1>5. CASE e <= d
  BY <1>1, <1>3, <1>4, <1>5, BacksMonotone
<1>6. CASE r >= e * f /\ d <= e
  BY <1>1, <1>3, <1>4, <1>6, BacksMonotone
<1>7. ASSUME NEW a \in Actors, NEW b \in Actors, NEW v \in Amounts, MintVAI(a, b, v)
      PROVE  r >= e * f /\ d <= e
  <2>1. v \in Nat
    BY LedgerAssumption
  <2>2. CurrentEpoch \in States
    BY EpochTyped
  <2>3. /\ Backs(d + v)
        /\ vaiState' = [CurrentEpoch EXCEPT !.epochMinted = CurrentEpoch.epochMinted + v,
                                            !.totalDebt = d + v]
    BY <1>7 DEF MintVAI
  <2>4. e = d + v
    BY <2>2, <2>3 DEF States
  <2>. QED  BY <1>1, <2>1, <2>3, <2>4 DEF Backs, f, r
<1>8. ASSUME NEW a \in Actors, NEW v \in Amounts, BurnVAI(a, v) PROVE e <= d
  <2>1. v \in Nat
    BY LedgerAssumption
  <2>2. vaiState \in States
    BY DEF VaiInv, VaiTypeOK, States
  <2>3. e = d - v
    BY <1>8, <2>2 DEF BurnVAI, States
  <2>. QED  BY <1>1, <2>1, <2>3
<1>9. ASSUME NEW a \in Actors, NEW cfg \in RiskInputs, SetRiskParams(a, cfg) PROVE e <= d
  BY <1>1, <1>9 DEF SetRiskParams
<1>10. ASSUME NEW a \in Actors, NEW x \in ReserveInputs, UpdateReserveState(a, x)
       PROVE  e <= d
  BY <1>1, <1>10 DEF UpdateReserveState
<1>11. CASE UNCHANGED vaiState
  BY <1>1, <1>5, <1>11
<1>. QED  BY <1>5, <1>6, <1>7, <1>8, <1>9, <1>10, <1>11
          DEF VaiSpecNext, VaiNext, vaiSpecVars, vaiVars

(* Backing is lost only by a decision of governance, for every floor and   *)
(* every reserve: MintVAI checks the debt as it will be, and burning never *)
(* needs more backing.                                                     *)
THEOREM OnlyGovernanceLosesBacking == VaiSpec => BackingLostOnlyByGovernance
<1>1. VaiInv /\ [VaiSpecNext]_vaiSpecVars => [BackingStep]_<<vaiState, reserve, risk>>
  BY BackingKept
<1>. QED  BY VaiInvariant, <1>1, PTL
          DEF VaiSpec, VaiSpecNext, vaiSpecVars, BackingLostOnlyByGovernance, BackingStep

(* Dividing rounds down, so a quotient reaches a bound exactly when the    *)
(* product does.                                                           *)
LEMMA QuotientReaches ==
  ASSUME NEW x \in Nat, NEW d \in Nat, d > 0, NEW f \in Nat
  PROVE  /\ x \div d \in Nat
         /\ (x \div d) * d <= x
         /\ x \div d >= f <=> x >= d * f
<1> DEFINE q == x \div d
           r == x % d
<1>1. q \in Nat /\ r \in Nat /\ r < d /\ x = q * d + r
  OBVIOUS
<1>. HIDE DEF q, r
<1>2. q * d \in Nat /\ d * f \in Nat
  BY <1>1
<1>3. q * d <= x
  BY <1>1, <1>2
<1>4. ASSUME q >= f PROVE x >= d * f
  <2>1. q * d >= d * f
    BY <1>1, <1>4
  <2>. QED  BY <1>1, <1>2, <1>3, <2>1
<1>5. ASSUME ~(q >= f) PROVE ~(x >= d * f)
  <2>1. q + 1 <= f
    BY <1>1, <1>5
  <2>2. (q + 1) * d <= d * f
    BY <1>1, <2>1
  <2>3. (q + 1) * d = q * d + d
    BY <1>1
  <2>. QED  BY <1>1, <1>2, <2>2, <2>3
<1>. QED  BY <1>1, <1>3, <1>4, <1>5 DEF q

(* The reply of the query Reserve agrees with the check of MintVAI in      *)
(* every reachable state.                                                  *)
LEMMA ReplyAgrees == VaiInv => ReserveReplyAgrees
<1> SUFFICES ASSUME VaiInv PROVE ReserveReplyAgrees
  OBVIOUS
<1> DEFINE debt == vaiState.totalDebt
           floor == risk.backingFloorBips
           x == reserve * BipsDenominator
<1>1. debt \in Nat /\ reserve \in Nat
  BY LedgerAssumption DEF VaiInv, VaiTypeOK
<1>2. floor \in Nat /\ floor <= MaxUint64
  BY LedgerAssumption, VaiAssumption DEF VaiInv, VaiTypeOK
<1>3. x \in Nat
  BY <1>1, LedgerAssumption
<1>4. Backed <=> x >= debt * floor
  BY DEF Backed, Backs
<1>5. CASE debt = 0
  <2>1. Reserve = [totalDebt |-> 0, backingRatioBips |-> 0, meetsFloor |-> TRUE]
    BY <1>5 DEF Reserve
  <2>2. debt * floor = 0
    BY <1>2, <1>5
  <2>. HIDE DEF x
  <2>3. Backed
    BY <1>3, <1>4, <2>2
  <2>. QED  BY <1>3, <2>1, <2>3 DEF ReserveReplyAgrees, x
<1>6. CASE debt # 0
  <2> DEFINE q == x \div debt
             ratio == IF q < MaxUint64 THEN q ELSE MaxUint64
  <2>1. debt > 0
    BY <1>1, <1>6
  <2>2. q \in Nat /\ q * debt <= x /\ (q >= floor <=> x >= debt * floor)
    <3>. HIDE DEF x, debt, floor
    <3>. QED  BY <1>1, <1>2, <1>3, <2>1, QuotientReaches
  <2>3. /\ Reserve.totalDebt = debt
        /\ Reserve.backingRatioBips = ratio
        /\ Reserve.meetsFloor <=> ratio >= floor
    BY <1>6 DEF Reserve, BackingRatioBips, MinU64
  <2>. HIDE DEF q
  <2>4. ratio \in Nat /\ ratio <= q /\ (ratio >= floor <=> q >= floor)
    BY <1>2, <2>2, LedgerAssumption
  <2>. HIDE DEF x, debt, floor, ratio
  <2>5. ratio * debt <= q * debt
    BY <1>1, <2>2, <2>4
  <2>6. ratio * debt \in Nat /\ q * debt \in Nat
    BY <1>1, <2>2, <2>4
  <2>7. ratio * debt <= x
    BY <1>3, <2>2, <2>5, <2>6
  <2>. QED  BY <1>4, <2>2, <2>3, <2>4, <2>7 DEF ReserveReplyAgrees, x
<1>. QED  BY <1>5, <1>6

(* ReserveReplyAgrees for every reserve, debt, floor and integer width:    *)
(* the server's division and saturation never disagree with the product    *)
(* that MintVAI compares.                                                  *)
THEOREM ReserveReplyIsTrue == VaiSpec => []ReserveReplyAgrees
<1>. QED  BY VaiInvariant, ReplyAgrees, PTL
-----------------------------------------------------------------------------
Times == 1 .. MaxTime
Minted(S) == SumFunctionOnSet(mintedAt, S)
Span(t) == {s \in Times : s >= t /\ s < t + MintEpoch}
SpanBefore(t) == {s \in Times : s < t /\ s + MintEpoch >= t}
EpochOn(t) == t .. MaxTime

(* Where the end of an epoch fits its int64 it is what CurrentEpoch adds   *)
(* up.                                                                     *)
LEMMA MintEndFits ==
  ASSUME MintEpochFits, NEW t \in 0 .. MaxTime
  PROVE  WrapInt64(t + MintEpoch) = t + MintEpoch
<1> DEFINE x == t + MintEpoch
           M == MaxInt64
<1>1. MaxTime \in Nat /\ MintEpoch \in Nat /\ MaxUint64 \in Nat
  BY LedgerAssumption, VaiAssumption
<1>2. M \in Nat
  BY <1>1 DEF MaxInt64
<1>3. x \in 0 .. M
  BY <1>1, <1>2 DEF MintEpochFits
<1>4. WrapInt64(x) = ((x + M + 1) % (2 * M + 2)) - (M + 1)
  BY DEF WrapInt64
<1>. HIDE DEF x, M
<1>5. (x + M + 1) % (2 * M + 2) = x + M + 1
  BY <1>2, <1>3
<1>6. WrapInt64(x) = x
  BY <1>2, <1>3, <1>4, <1>5
<1>. QED  BY <1>6 DEF x

(* What makes MintRateKept inductive where epochs fit.  All that was       *)
(* minted lies before the end of the open epoch, and the span of an epoch  *)
(* that ends where the open epoch starts saw no more than one limit: a     *)
(* span that reaches into the open epoch is covered by these two.          *)
RateInv ==
    /\ VaiInv
    /\ MintRateKept
    /\ vaiState.epochStart <= now
    /\ \A s \in Times : mintedAt[s] > 0 =>
          vaiState.epochStart > 0 /\ s < vaiState.epochStart + MintEpoch
    /\ vaiState.epochStart = 0 => vaiState.epochMinted = 0
    /\ vaiState.epochStart > 0 => Minted(SpanBefore(vaiState.epochStart)) <= EpochMintLimit

(* The open epoch at a mint: the stored one, or a new and empty one that   *)
(* starts now, because there was none or because it has ended.             *)
LEMMA EpochAtMint ==
  ASSUME MintEpochFits, VaiInv
  PROVE  \/ /\ vaiState.epochStart = 0
            /\ CurrentEpoch.epochStart = now
            /\ CurrentEpoch.epochMinted = vaiState.epochMinted
         \/ /\ vaiState.epochStart > 0
            /\ now >= vaiState.epochStart + MintEpoch
            /\ CurrentEpoch.epochStart = now
            /\ CurrentEpoch.epochMinted = 0
         \/ /\ vaiState.epochStart > 0
            /\ now < vaiState.epochStart + MintEpoch
            /\ CurrentEpoch = vaiState
<1>1. vaiState \in States /\ now \in Nat /\ MintEpoch \in Nat \ {0} /\ vaiState.epochStart \in Nat
  BY VaiAssumption DEF VaiInv, VaiTypeOK, Clock, States
<1>4. /\ WrapInt64(now + MintEpoch) = now + MintEpoch
      /\ WrapInt64(vaiState.epochStart + MintEpoch) = vaiState.epochStart + MintEpoch
  <2>1. now \in 0 .. MaxTime /\ vaiState.epochStart \in 0 .. MaxTime
    BY <1>1, LedgerAssumption DEF VaiInv, VaiTypeOK, Clock
  <2>. QED  BY <2>1, MintEndFits
<1>. DEFINE opened == IF vaiState.epochStart = 0 THEN [vaiState EXCEPT !.epochStart = now]
                      ELSE vaiState
<1>2. CASE vaiState.epochStart = 0
  <2>1. /\ opened.epochStart = now /\ opened.epochMinted = vaiState.epochMinted
    BY <1>1, <1>2 DEF States
  <2>2. ~(now >= WrapInt64(opened.epochStart + MintEpoch))
    BY <1>1, <1>4, <2>1
  <2>3. CurrentEpoch = opened
    BY <2>2 DEF CurrentEpoch
  <2>. QED  BY <1>2, <2>1, <2>3
<1>3. CASE vaiState.epochStart # 0
  <2>1. opened = vaiState
    BY <1>3
  <2>2. CurrentEpoch = IF now >= vaiState.epochStart + MintEpoch
                       THEN [vaiState EXCEPT !.epochStart = now, !.epochMinted = 0]
                       ELSE vaiState
    BY <1>4, <2>1 DEF CurrentEpoch
  <2>3. CASE now >= vaiState.epochStart + MintEpoch
    BY <1>1, <1>3, <2>2, <2>3 DEF States
  <2>4. CASE ~(now >= vaiState.epochStart + MintEpoch)
    BY <1>1, <1>3, <2>2, <2>4
  <2>. QED  BY <2>3, <2>4
<1>. QED  BY <1>2, <1>3

LEMMA RateInit == LedgerInit /\ VaiInit => RateInv
<1> SUFFICES ASSUME LedgerInit, VaiInit PROVE RateInv
  OBVIOUS
<1>1. VaiInv
  BY VaiInvInit
<1>2. /\ vaiState.epochStart = 0 /\ vaiState.epochMinted = 0 /\ now = 1
      /\ \A s \in Times : mintedAt[s] = 0
  BY DEF LedgerInit, VaiInit, Times
<1>3. \A t \in Times : Minted(Span(t)) = 0
  <2>1. ASSUME NEW t \in Times
        PROVE  Minted(Span(t)) = 0
    <3>1. IsFiniteSet(Times)
      BY FS_Interval, LedgerAssumption DEF Times
    <3>2. IsFiniteSet(Span(t)) /\ \A s \in Span(t) : mintedAt[s] = 0
      BY <1>2, <3>1, FS_Subset DEF Span
    <3>. QED  BY <3>2, SumOfZeros DEF Minted
  <2>. QED  BY <2>1
<1>4. EpochMintLimit \in Nat
  BY VaiAssumption
<1>5. MintRateKept
  BY <1>2, <1>3, <1>4 DEF MintRateKept, Minted, Span, Times
<1>. QED  BY <1>1, <1>2, <1>5 DEF RateInv

(* The sums that a mint moves, and the ones it leaves alone. *)
LEMMA MintMovesSums ==
  ASSUME VaiInv, NEW v \in Nat, NEW S \in SUBSET Times,
         \A s \in Times : mintedAt'[s] = IF s = now THEN mintedAt[now] + v ELSE mintedAt[s]
  PROVE  /\ Minted(S) \in Nat
         /\ now \in S => Minted(S)' = Minted(S) + v
         /\ now \notin S => Minted(S)' = Minted(S)
<1>1. IsFiniteSet(S)
  <2>1. IsFiniteSet(Times)
    BY FS_Interval, LedgerAssumption DEF Times
  <2>. QED  BY <2>1, FS_Subset
<1>2. mintedAt \in [Times -> Nat] /\ now \in Times
  BY DEF VaiInv, VaiTypeOK, Clock, Times
<1>3. Minted(S) \in Nat
  BY <1>1, <1>2, SumNat DEF Minted
<1>4. v \in Int /\ Moved(mintedAt, mintedAt', S, now, v)
  BY <1>2 DEF Moved
<1>5. /\ now \in S => SumFunctionOnSet(mintedAt', S) = SumFunctionOnSet(mintedAt, S) + v
      /\ now \notin S => SumFunctionOnSet(mintedAt', S) = SumFunctionOnSet(mintedAt, S)
  BY <1>1, <1>4, SumMove
<1>. QED  BY <1>3, <1>5 DEF Minted

(* The part of a span that is minted never exceeds the whole. *)
LEMMA MintedMonotone ==
  ASSUME VaiInv, NEW S \in SUBSET Times, NEW P \in SUBSET S
  PROVE  Minted(P) <= Minted(S)
<1>1. IsFiniteSet(Times)
  BY FS_Interval, LedgerAssumption DEF Times
<1>2. IsFiniteSet(S) /\ \A s \in S : mintedAt[s] \in Nat
  BY <1>1, FS_Subset DEF VaiInv, VaiTypeOK, Times
<1>. QED  BY <1>2, SumOfPart DEF Minted

(* The invariant, read at the epoch a mint is counted in. *)
LEMMA EpochOpened ==
  ASSUME MintEpochFits, RateInv
  PROVE  LET start == CurrentEpoch.epochStart IN
         /\ start \in 1 .. now
         /\ now < start + MintEpoch
         /\ \A s \in Times : mintedAt[s] > 0 => s < start + MintEpoch
         /\ Minted(EpochOn(start)) = CurrentEpoch.epochMinted
         /\ Minted(SpanBefore(start)) <= EpochMintLimit
<1> DEFINE start == CurrentEpoch.epochStart
           old == vaiState.epochStart
<1>1. /\ VaiInv /\ now \in Times /\ now \in Nat /\ MaxTime \in Nat /\ old \in Nat /\ old <= now
      /\ MintEpoch \in Nat \ {0} /\ EpochMintLimit \in Nat
      /\ mintedAt \in [Times -> Nat] /\ vaiState.epochMinted \in Nat
  <2>1. /\ MaxTime \in Nat /\ MaxUint64 \in Nat
        /\ MintEpoch \in Nat \ {0} /\ EpochMintLimit \in Nat
    BY LedgerAssumption, VaiAssumption
  <2>2. VaiInv /\ old <= now
    BY DEF RateInv
  <2>3. now \in Times /\ now \in Nat /\ mintedAt \in [Times -> Nat]
    BY <2>1, <2>2 DEF VaiInv, VaiTypeOK, Clock, Times
  <2>4. old \in Nat /\ vaiState.epochMinted \in Nat
    BY <2>1, <2>2 DEF VaiInv, VaiTypeOK
  <2>. QED  BY <2>1, <2>2, <2>3, <2>4
<1>2. IsFiniteSet(Times)
  BY <1>1, FS_Interval DEF Times
<1>3. ASSUME NEW S \in SUBSET Times, \A s \in S : ~(mintedAt[s] > 0)
      PROVE  Minted(S) = 0
  <2>1. IsFiniteSet(S)
    BY <1>2, FS_Subset
  <2>2. \A s \in S : mintedAt[s] = 0
    BY <1>1, <1>3
  <2>. QED  BY <2>1, <2>2, SumOfZeros DEF Minted
<1>4. \A s \in Times : mintedAt[s] > 0 => old > 0 /\ s < old + MintEpoch
  BY DEF RateInv
<1>5. \A t \in Nat \ {0} : EpochOn(t) \subseteq Times /\ SpanBefore(t) \subseteq Times
  BY <1>1 DEF EpochOn, SpanBefore, Times
<1>6. CASE old = 0
  <2>1. start = now /\ CurrentEpoch.epochMinted = 0
    BY <1>1, <1>6, EpochAtMint DEF RateInv
  <2>2. \A s \in Times : ~(mintedAt[s] > 0)
    BY <1>4, <1>6
  <2>3. now \in Nat \ {0}
    BY <1>1 DEF Times
  <2>4. Minted(EpochOn(now)) = 0 /\ Minted(SpanBefore(now)) = 0
    BY <1>3, <1>5, <2>2, <2>3
  <2>. QED  BY <1>1, <2>1, <2>2, <2>3, <2>4
<1>7. CASE old > 0 /\ now >= old + MintEpoch
  <2>1. start = now /\ CurrentEpoch.epochMinted = 0
    BY <1>1, <1>7, EpochAtMint
  <2>2. now \in Nat \ {0}
    BY <1>1 DEF Times
  <2>3. \A s \in EpochOn(now) : ~(mintedAt[s] > 0)
    BY <1>1, <1>4, <1>5, <1>7, <2>2 DEF EpochOn, Times
  <2>4. Minted(EpochOn(now)) = 0
    BY <1>3, <1>5, <2>2, <2>3
  <2>5. SpanBefore(now) \in SUBSET EpochOn(old) /\ EpochOn(old) \in SUBSET Times
    <3>1. ASSUME NEW s \in SpanBefore(now) PROVE s \in EpochOn(old)
      <4>1. s \in Nat /\ s <= MaxTime /\ s + MintEpoch >= now
        BY <1>1 DEF SpanBefore, Times
      <4>2. old <= s
        BY <1>1, <1>7, <4>1
      <4>. QED  BY <1>1, <4>1, <4>2 DEF EpochOn
    <3>2. old \in Nat \ {0}
      BY <1>1, <1>7
    <3>. QED  BY <1>5, <3>1, <3>2
  <2>6. Minted(SpanBefore(now)) <= Minted(EpochOn(old))
    BY <1>1, <2>5, MintedMonotone
  <2>7. Minted(EpochOn(old)) <= EpochMintLimit
    BY <1>7 DEF RateInv, MintRateKept, Minted, EpochOn
  <2>8. Minted(SpanBefore(now)) \in Nat /\ Minted(EpochOn(old)) \in Nat
    <3>1. \A S \in SUBSET Times : IsFiniteSet(S)
      BY <1>2, FS_Subset
    <3>2. ASSUME NEW S \in SUBSET Times PROVE Minted(S) \in Nat
      BY <1>1, <3>1, SumNat DEF Minted
    <3>. QED  BY <2>5, <3>2
  <2>9. \A s \in Times : mintedAt[s] > 0 => s < now + MintEpoch
    BY <1>1, <1>4, <1>7 DEF Times
  <2>. QED  BY <1>1, <2>1, <2>2, <2>4, <2>6, <2>7, <2>8, <2>9
<1>8. CASE old > 0 /\ now < old + MintEpoch
  <2>1. CurrentEpoch = vaiState
    BY <1>1, <1>8, EpochAtMint
  <2>2. /\ Minted(EpochOn(old)) = vaiState.epochMinted
        /\ Minted(SpanBefore(old)) <= EpochMintLimit
    BY <1>8 DEF RateInv, MintRateKept, Minted, EpochOn
  <2>. QED  BY <1>1, <1>4, <1>8, <2>1, <2>2
<1>. QED  BY <1>1, <1>6, <1>7, <1>8

LEMMA MintRateMint ==
  ASSUME MintEpochFits, RateInv, NEW a \in Actors, NEW b \in Actors, NEW v \in Amounts,
         MintVAI(a, b, v)
  PROVE  RateInv'
<1>0. VaiInv
  BY DEF RateInv
<1>1. /\ VaiInv /\ now \in Times /\ now \in Nat /\ MaxTime \in Nat /\ v \in Nat
      /\ MintEpoch \in Nat \ {0} /\ EpochMintLimit \in Nat
      /\ mintedAt \in [Times -> Nat]
  <2>1. /\ MaxTime \in Nat /\ v \in Nat
        /\ MintEpoch \in Nat \ {0} /\ EpochMintLimit \in Nat
    BY LedgerAssumption, VaiAssumption
  <2>2. now \in Times /\ now \in Nat /\ mintedAt \in [Times -> Nat]
    BY <1>0, <2>1 DEF VaiInv, VaiTypeOK, Clock, Times
  <2>. QED  BY <1>0, <2>1, <2>2
<1>3. CurrentEpoch \in States
  BY <1>1, EpochTyped
<1>. PICK start, minted : start = CurrentEpoch.epochStart /\ minted = CurrentEpoch.epochMinted
  OBVIOUS
<1>2. /\ start \in 1 .. now
      /\ now < start + MintEpoch
      /\ \A s \in Times : mintedAt[s] > 0 => s < start + MintEpoch
      /\ Minted(EpochOn(start)) = minted
      /\ Minted(SpanBefore(start)) <= EpochMintLimit
  BY EpochOpened
<1>4. /\ minted + v <= EpochMintLimit
      /\ vaiState' = [CurrentEpoch EXCEPT !.epochMinted = minted + v,
                                          !.totalDebt = vaiState.totalDebt + v]
      /\ mintedAt' = [mintedAt EXCEPT ![now] = @ + v]
      /\ now' = now
  BY DEF MintVAI, ledgerVars
<1>5. vaiState'.epochStart = start /\ vaiState'.epochMinted = minted + v
  BY <1>3, <1>4 DEF States
<1>6. \A s \in Times : mintedAt'[s] = IF s = now THEN mintedAt[now] + v ELSE mintedAt[s]
  BY <1>1, <1>4
<1>7. VaiInv'
  BY <1>1, MintTyped
<1>8. ASSUME NEW S \in SUBSET Times
      PROVE  /\ Minted(S) \in Nat
             /\ now \in S => Minted(S)' = Minted(S) + v
             /\ now \notin S => Minted(S)' = Minted(S)
  BY <1>1, <1>6, MintMovesSums
<1>9. EpochOn(start) \in SUBSET Times /\ SpanBefore(start) \in SUBSET Times
      /\ now \in EpochOn(start) /\ now \notin SpanBefore(start)
  BY <1>1, <1>2 DEF EpochOn, SpanBefore, Times
<1>10. Minted(EpochOn(start))' = minted + v /\ Minted(EpochOn(start))' \in Nat
  BY <1>1, <1>2, <1>8, <1>9
<1>11. Minted(SpanBefore(start))' = Minted(SpanBefore(start))
       /\ Minted(SpanBefore(start)) \in Nat
  BY <1>8, <1>9
<1>12. ASSUME NEW t \in Times
       PROVE  Minted(Span(t))' <= 2 * EpochMintLimit
  <2>1. Span(t) \in SUBSET Times
    BY DEF Span
  <2>2. CASE now \notin Span(t)
    BY <1>8, <2>1, <2>2 DEF RateInv, MintRateKept, Minted, Span, Times
  <2>3. CASE now \in Span(t)
    <3> DEFINE U == SpanBefore(start) \cup EpochOn(start)
    <3>1. Span(t) \in SUBSET U /\ U \in SUBSET Times
      <4>1. ASSUME NEW s \in Span(t) PROVE s \in U
        <5>1. s \in Times /\ s \in Nat /\ t \in Nat /\ start \in Nat /\ t <= s /\ now < t + MintEpoch
          BY <1>1, <1>2, <2>3 DEF Span, Times
        <5>2. CASE s < start
          BY <1>1, <1>2, <5>1, <5>2 DEF SpanBefore
        <5>3. CASE s >= start
          BY <1>1, <1>2, <5>1, <5>3 DEF EpochOn, Times
        <5>. QED  BY <5>1, <5>2, <5>3
      <4>. QED  BY <1>9, <4>1
    <3>2. U \ SpanBefore(start) = EpochOn(start)
      BY <1>1, <1>2 DEF SpanBefore, EpochOn, Times
    <3>3. IsFiniteSet(U) /\ \A s \in U : mintedAt'[s] \in Nat
      <4>1. IsFiniteSet(Times)
        BY <1>1, FS_Interval DEF Times
      <4>2. IsFiniteSet(U)
        BY <3>1, <4>1, FS_Subset
      <4>. QED  BY <1>7, <3>1, <4>2 DEF VaiInv, VaiTypeOK, Times
    <3>4. SumFunctionOnSet(mintedAt', Span(t)) <= SumFunctionOnSet(mintedAt', U)
      BY <3>1, <3>3, SumOfPart
    <3>5. SumFunctionOnSet(mintedAt', U)
            = SumFunctionOnSet(mintedAt', SpanBefore(start))
               + SumFunctionOnSet(mintedAt', EpochOn(start))
      <4>1. \A s \in U : mintedAt'[s] \in Int
        BY <3>3
      <4>2. SpanBefore(start) \in SUBSET U
        OBVIOUS
      <4> HIDE DEF U
      <4>. QED  BY <3>2, <3>3, <4>1, <4>2, SumSplit
    <3>6. SumFunctionOnSet(mintedAt', Span(t)) \in Nat
      BY <1>1, <1>8, <2>1, <2>3 DEF Minted
    <3>. QED  BY <1>1, <1>2, <1>4, <1>10, <1>11, <3>4, <3>5, <3>6 DEF Minted
  <2>. QED  BY <2>2, <2>3
<1>13. MintRateKept'
  <2>. QED  BY <1>4, <1>5, <1>10, <1>12 DEF MintRateKept, Minted, Span, EpochOn, Times
<1>14. vaiState'.epochStart = start /\ start > 0 /\ start <= now'
  BY <1>1, <1>2, <1>4, <1>5
<1>15. \A s \in Times : mintedAt'[s] > 0 => s < start + MintEpoch
  BY <1>1, <1>2, <1>6
<1>16. Minted(SpanBefore(start))' <= EpochMintLimit
  BY <1>2, <1>11
<1>. QED  BY <1>1, <1>2, <1>7, <1>13, <1>14, <1>15, <1>16 DEF RateInv, Minted

(* Steps that touch neither the counter nor what was minted. *)
MintCounterKept ==
    /\ mintedAt' = mintedAt /\ now' \in {now, now + 1}
    /\ vaiState'.epochStart = vaiState.epochStart
    /\ vaiState'.epochMinted = vaiState.epochMinted

LEMMA RateFrame ==
  ASSUME RateInv, VaiInv', MintCounterKept
  PROVE  RateInv'
<1>1. now \in Nat /\ vaiState.epochStart \in Nat
  BY DEF RateInv, VaiInv, VaiTypeOK, Clock
<1>2. vaiState'.epochStart <= now'
  BY <1>1 DEF RateInv, MintCounterKept
<1>. QED  BY <1>2 DEF RateInv, MintRateKept, Minted, MintCounterKept

(* Epochs that do not fit are kept out of the argument. *)
MintRateInv == VaiInv /\ (MintEpochFits => RateInv)

LEMMA MintRateInit == LedgerInit /\ VaiInit => MintRateInv
  BY VaiInvInit, RateInit DEF MintRateInv

LEMMA MintRateFrame ==
  ASSUME MintRateInv, VaiInv', MintCounterKept
  PROVE  MintRateInv'
  BY RateFrame DEF MintRateInv, MintEpochFits

LEMMA MintRateStep == MintRateInv /\ [VaiSpecNext]_vaiSpecVars => MintRateInv'
<1> SUFFICES ASSUME MintRateInv, [VaiSpecNext]_vaiSpecVars PROVE MintRateInv'
  OBVIOUS
<1>1. VaiInv /\ VaiInv'
  BY VaiInvStep DEF MintRateInv
<1>2. ASSUME NEW a \in Actors, NEW b \in Actors, NEW v \in Amounts, MintVAI(a, b, v)
      PROVE  MintRateInv'
  BY <1>1, <1>2, MintRateMint DEF MintRateInv, MintEpochFits
<1>3. ASSUME MintCounterKept PROVE MintRateInv'
  BY <1>1, <1>3, MintRateFrame
<1>4. ASSUME NEW a \in Actors, NEW v \in Amounts, BurnVAI(a, v) PROVE MintRateInv'
  <2>1. vaiState' = [vaiState EXCEPT !.totalDebt = @ - v] /\ mintedAt' = mintedAt /\ now' = now
    BY <1>4 DEF BurnVAI, ledgerVars
  <2>. QED  BY <1>1, <1>3, <2>1 DEF VaiInv, VaiTypeOK, MintCounterKept
<1>5. ASSUME NEW a \in Actors, NEW cfg \in RiskInputs, SetRiskParams(a, cfg)
      PROVE  MintRateInv'
  BY <1>3, <1>5 DEF SetRiskParams, ledgerVars, MintCounterKept
<1>6. ASSUME NEW a \in Actors, NEW r \in ReserveInputs, UpdateReserveState(a, r)
      PROVE  MintRateInv'
  BY <1>3, <1>6 DEF UpdateReserveState, ledgerVars, MintCounterKept
<1>7. CASE Advance /\ UNCHANGED vaiVars
  BY <1>3, <1>7 DEF Advance, vaiVars, MintCounterKept
<1>8. CASE UNCHANGED vaiSpecVars
  BY <1>3, <1>8 DEF vaiSpecVars, ledgerVars, vaiVars, MintCounterKept
<1>. QED  BY <1>2, <1>4, <1>5, <1>6, <1>7, <1>8 DEF VaiSpecNext, VaiNext

(* MintRateBounded for every limit, horizon and integer width, and every   *)
(* epoch length whose end fits: however MintVAI's one counter is           *)
(* restarted, no span of an epoch's length sees more than two limits       *)
(* minted.                                                                 *)
THEOREM MintRateIsBounded == VaiSpec => []MintRateBounded
<1>1. MintRateInv => MintRateBounded
  BY DEF MintRateInv, RateInv, MintRateBounded
<1>. QED  BY MintRateInit, MintRateStep, <1>1, PTL
          DEF VaiSpec, VaiSpecInit, VaiSpecNext, vaiSpecVars
=============================================================================
