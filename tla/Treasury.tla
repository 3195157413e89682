------------------------------ MODULE Treasury -------------------------------
(***************************************************************************)
(* The fee router, which splits routed VEIL into three budgets, and the    *)
(* release of locked chain-owned liquidity (COL) in capped tranches.       *)
(* The products and sums that the code does not check for overflow wrap.   *)
(***************************************************************************)
EXTENDS Ledger, Functions

CONSTANTS
    MSRBBips, COLBips,  \* FeeRouterConfig; OpsBips takes the remainder
    OpsBips,
    MaxReleaseBips,     \* TreasuryConfig.MaxReleaseBips
    ReleaseEpoch,       \* TreasuryConfig.ReleaseEpochSeconds * 1_000 before it wraps
    COLVaultLocked,     \* TreasuryState.Locked at genesis
    COLVaultLive        \* TreasuryState.Live at genesis

(* What genesis validation guarantees (validateTokenomics). *)
ASSUME TreasuryAssumption ==
    /\ {MSRBBips, COLBips, OpsBips} \subseteq Nat
    /\ MSRBBips + COLBips + OpsBips = BipsDenominator
    /\ MaxReleaseBips \in 1 .. BipsDenominator
    /\ ReleaseEpoch \in Nat \ {0}
    /\ {COLVaultLocked, COLVaultLive} \subseteq Nat
    /\ COLVaultLocked + COLVaultLive <= MaxUint64

VARIABLES
    feeRouter,   \* FeeRouterStateKey
    treasury,    \* TreasuryStateKey
    routed,      \* history: VEIL routed so far
    releasedAt   \* history: COL released at each timestamp

treasuryVars == <<feeRouter, treasury, routed, releasedAt>>

TreasuryInit ==
    /\ feeRouter = [msrb |-> 0, col |-> 0, ops |-> 0]
    /\ treasury = [locked |-> COLVaultLocked, live |-> COLVaultLive,
                   released |-> 0, lastRelease |-> 0]
    /\ routed = 0
    /\ releasedAt = [t \in 1 .. MaxTime |-> 0]

(* uint64 multiplication, and the share it yields. *)
WrapMul(a, b) == (a * b) % (MaxUint64 + 1)
BipsOf(bips, amount) == WrapMul(bips, amount) \div BipsDenominator

(* Fault: the operations share is computed like the other two. *)
FeeShares_RoundsEach(amount) ==
    [msrb |-> BipsOf(MSRBBips, amount), col |-> BipsOf(COLBips, amount),
     ops |-> BipsOf(OpsBips, amount)]

FeeShares(amount) ==
    LET msrb == BipsOf(MSRBBips, amount)
        col == BipsOf(COLBips, amount) IN
    [msrb |-> msrb, col |-> col, ops |-> (amount - msrb - col) % (MaxUint64 + 1)]

(* The routed VEIL leaves the balance of the sender; the budgets are       *)
(* counters that no handler pays out.                                      *)
RouteFees(actor, amount) ==
    LET share == FeeShares(amount) IN
    /\ amount # 0
    /\ CanSub(balance, actor, amount)
    /\ feeRouter.msrb + share.msrb <= MaxUint64
    /\ feeRouter.col + share.col <= MaxUint64
    /\ feeRouter.ops + share.ops <= MaxUint64
    /\ balance' = Sub(balance, actor, amount)
    /\ feeRouter' = [msrb |-> feeRouter.msrb + share.msrb, col |-> feeRouter.col + share.col,
                     ops |-> feeRouter.ops + share.ops]
    /\ routed' = routed + amount
    /\ UNCHANGED <<now, burned, treasury, releasedAt>>

(* Fault: the distance to the last release is off by one. *)
EpochElapsed_OneEarly ==
    treasury.lastRelease > 0 => now >= WrapInt64(treasury.lastRelease + ReleaseEpoch) - 1

EpochElapsed ==
    treasury.lastRelease > 0 => now >= WrapInt64(treasury.lastRelease + ReleaseEpoch)

(* Fault: a release is not taken out of the locked vault. *)
ReleaseCOLTranche_KeepsLocked(actor, amount) ==
    LET maxRelease == BipsOf(MaxReleaseBips, treasury.locked) IN
    /\ amount # 0
    /\ actor = Governance
    /\ EpochElapsed
    /\ amount <= treasury.locked
    /\ maxRelease # 0 /\ amount <= maxRelease
    /\ treasury.live + amount <= MaxUint64
    /\ treasury.released + amount <= MaxUint64
    /\ treasury' = [treasury EXCEPT !.live = @ + amount, !.released = @ + amount,
                                    !.lastRelease = now]
    /\ releasedAt' = [releasedAt EXCEPT ![now] = @ + amount]
    /\ UNCHANGED <<ledgerVars, feeRouter, routed>>

ReleaseCOLTranche(actor, amount) ==
    LET maxRelease == BipsOf(MaxReleaseBips, treasury.locked) IN
    /\ amount # 0
    /\ actor = Governance
    /\ EpochElapsed
    /\ amount <= treasury.locked
    /\ maxRelease # 0 /\ amount <= maxRelease
    /\ treasury.live + amount <= MaxUint64
    /\ treasury.released + amount <= MaxUint64
    /\ treasury' = [locked |-> treasury.locked - amount, live |-> treasury.live + amount,
                    released |-> treasury.released + amount, lastRelease |-> now]
    /\ releasedAt' = [releasedAt EXCEPT ![now] = @ + amount]
    /\ UNCHANGED <<ledgerVars, feeRouter, routed>>

TreasuryNext ==
    \/ \E a \in Actors, v \in Amounts : RouteFees(a, v)
    \/ \E a \in Actors, v \in Amounts : ReleaseCOLTranche(a, v)

TreasurySpecInit == LedgerInit /\ TreasuryInit

TreasurySpec ==
    /\ TreasurySpecInit
    /\ [][TreasuryNext \/ (Advance /\ UNCHANGED treasuryVars)]_<<ledgerVars, treasuryVars>>
-----------------------------------------------------------------------------
(* The counters stay uint64 and the balances do not go below zero. *)
TreasuryTypeOK ==
    /\ balance \in [Actors -> 0 .. MaxUint64]
    /\ feeRouter \in [msrb : 0 .. MaxUint64, col : 0 .. MaxUint64, ops : 0 .. MaxUint64]
    /\ treasury \in [locked : 0 .. MaxUint64, live : 0 .. MaxUint64,
                     released : 0 .. MaxUint64, lastRelease : 0 .. MaxTime]
    /\ routed \in Nat
    /\ releasedAt \in [1 .. MaxTime -> Nat]

(* Not a unit of routed VEIL is lost or invented: the three budgets add up *)
(* to what RouteFees took from the senders, although two of the products   *)
(* may wrap; and no budget but the remainder gets more than its part.      *)
FeesConserved ==
    /\ feeRouter.msrb + feeRouter.col + feeRouter.ops = routed
    /\ feeRouter.msrb * BipsDenominator <= routed * MSRBBips
    /\ feeRouter.col * BipsDenominator <= routed * COLBips

(* Chain-owned liquidity only moves from locked to live, and the released  *)
(* counter tells how much did (ReleaseCOLTranche).                         *)
COLConserved ==
    /\ treasury.locked + treasury.live = COLVaultLocked + COLVaultLive
    /\ treasury.released = COLVaultLocked - treasury.locked

(* The end of every release epoch is an int64; genesis only asks for a     *)
(* positive length.                                                        *)
ReleaseEpochFits == MaxTime + ReleaseEpoch <= MaxInt64

(* VEIL_EXECUTION_PACKAGE.md, line 139, holds for every span as long as an *)
(* epoch, wherever it starts, when the end of an epoch fits its int64: the *)
(* span sees at most the capped part of the vault released.                *)
ReleaseRateBounded == ReleaseEpochFits =>
    \A t \in 1 .. MaxTime :
        SumFunctionOnSet(releasedAt, {s \in 1 .. MaxTime : s >= t /\ s < t + ReleaseEpoch})
           * BipsDenominator <= COLVaultLocked * MaxReleaseBips
=============================================================================
