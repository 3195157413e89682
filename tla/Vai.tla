-------------------------------- MODULE Vai ---------------------------------
(***************************************************************************)
(* The VAI stablecoin: minting by the mint authority under a debt ceiling, *)
(* an epoch limit and a backing floor, burning by holders, and the risk    *)
(* and reserve parameters that governance sets.                            *)
(***************************************************************************)
EXTENDS Ledger, Functions

CONSTANTS
    MintAuthority,    \* VAIConfig.MintAuthority
    DebtCeiling,      \* VAIConfig.DebtCeiling
    EpochMintLimit,   \* VAIConfig.EpochMintLimit
    MintEpoch,        \* VAIConfig.MintEpochSeconds * 1_000 before it wraps
    GenesisRisk,      \* risk configuration stored at genesis
    RiskInputs,       \* configurations SetRiskParams is called with
    GenesisReserve,   \* ReserveState.ExogenousReserve at genesis
    ReserveInputs     \* reserves UpdateReserveState is called with

Collateral == {"VEIL", "WVEIL", "WSVEIL"}

ValidRiskConfig(cfg) ==
    /\ cfg.backingFloorBips # 0
    /\ \A c \in Collateral : cfg.ltvBips[c] <= BipsDenominator
    /\ \A c \in Collateral : cfg.haircutBips[c] <= BipsDenominator
    /\ cfg.ltvBips["WSVEIL"] = 0

(* What genesis validation guarantees (validateTokenomics). *)
ASSUME VaiAssumption ==
    /\ DebtCeiling \in 1 .. MaxUint64
    /\ EpochMintLimit \in 1 .. DebtCeiling
    /\ MintEpoch \in Nat \ {0}
    /\ RiskInputs \subseteq [backingFloorBips : 0 .. MaxUint64, ltvBips : [Collateral -> Nat],
                             haircutBips : [Collateral -> Nat]]
    /\ GenesisRisk \in {cfg \in RiskInputs : ValidRiskConfig(cfg)}
    /\ GenesisReserve \in 0 .. MaxUint64
    /\ ReserveInputs \subseteq 0 .. MaxUint64

VARIABLES
    vaiBalance,  \* VAIBalanceKey
    vaiState,    \* VAIStateKey
    risk,        \* RiskConfigKey
    reserve,     \* ReserveStateKey (the VAI buffer is stored and never read)
    mintedAt     \* history: VAI minted at each timestamp

vaiVars == <<vaiBalance, vaiState, risk, reserve, mintedAt>>

VaiInit ==
    /\ vaiBalance = [a \in Actors |-> 0]
    /\ vaiState = [totalDebt |-> 0, epochStart |-> 0, epochMinted |-> 0]
    /\ risk = GenesisRisk
    /\ reserve = GenesisReserve
    /\ mintedAt = [t \in 1 .. MaxTime |-> 0]

MinU64(a, b) == IF a < b THEN a ELSE b

(* Fault: a finished epoch is cleared but no new one is started. *)
CurrentEpoch_NotRestarted ==
    LET opened == IF vaiState.epochStart = 0 THEN [vaiState EXCEPT !.epochStart = now]
                  ELSE vaiState IN
    IF now >= WrapInt64(opened.epochStart + MintEpoch) THEN [opened EXCEPT !.epochMinted = 0]
    ELSE opened

(* The state with the epoch that the present timestamp belongs to: epochs  *)
(* start with the first mint after the end of the previous one.  Neither   *)
(* the product nor the sum is checked; wrapping the sum alone is the same. *)
CurrentEpoch ==
    LET opened == IF vaiState.epochStart = 0 THEN [vaiState EXCEPT !.epochStart = now]
                  ELSE vaiState IN
    IF now >= WrapInt64(opened.epochStart + MintEpoch)
    THEN [opened EXCEPT !.epochStart = now, !.epochMinted = 0]
    ELSE opened

(* Fault: the debt before the mint is compared with the floor. *)
Backs_Stale(nextDebt) ==
    reserve * BipsDenominator >= vaiState.totalDebt * risk.backingFloorBips

Backs(nextDebt) == reserve * BipsDenominator >= nextDebt * risk.backingFloorBips

MintVAI(actor, to, amount) ==
    LET epoch == CurrentEpoch
        nextMinted == epoch.epochMinted + amount
        nextDebt == vaiState.totalDebt + amount IN
    /\ amount # 0
    /\ actor = MintAuthority
    /\ nextMinted <= MaxUint64 /\ nextMinted <= EpochMintLimit
    /\ nextDebt <= MaxUint64 /\ nextDebt <= DebtCeiling
    /\ Backs(nextDebt)
    /\ CanAdd(vaiBalance, to, amount, MaxUint64)
    /\ vaiBalance' = Add(vaiBalance, to, amount)
    /\ vaiState' = [epoch EXCEPT !.epochMinted = nextMinted, !.totalDebt = nextDebt]
    /\ mintedAt' = [mintedAt EXCEPT ![now] = @ + amount]
    /\ UNCHANGED <<ledgerVars, risk, reserve>>

BurnVAI(actor, amount) ==
    /\ amount # 0
    /\ CanSub(vaiBalance, actor, amount)
    /\ amount <= vaiState.totalDebt
    /\ vaiBalance' = Sub(vaiBalance, actor, amount)
    /\ vaiState' = [vaiState EXCEPT !.totalDebt = @ - amount]
    /\ UNCHANGED <<ledgerVars, risk, reserve, mintedAt>>

SetRiskParams(actor, cfg) ==
    /\ actor = Governance
    /\ ValidRiskConfig(cfg)
    /\ risk' = cfg
    /\ UNCHANGED <<ledgerVars, vaiBalance, vaiState, reserve, mintedAt>>

UpdateReserveState(actor, exogenousReserve) ==
    /\ actor = Governance
    /\ reserve' = exogenousReserve
    /\ UNCHANGED <<ledgerVars, vaiBalance, vaiState, risk, mintedAt>>

(* Fault: the ratio is rounded up. *)
BackingRatioBips_RoundsUp(debt) ==
    MinU64((reserve * BipsDenominator + debt - 1) \div debt, MaxUint64)

(* The quotient of big integers, or the largest uint64 where it does not   *)
(* fit in one.                                                             *)
BackingRatioBips(debt) == MinU64((reserve * BipsDenominator) \div debt, MaxUint64)

(* The query of the JSON-RPC server, from one immutable view.  Without     *)
(* debt the ratio is reported as zero and the floor as met.                *)
Reserve ==
    LET debt == vaiState.totalDebt
        ratio == IF debt = 0 THEN 0 ELSE BackingRatioBips(debt) IN
    [totalDebt |-> debt, backingRatioBips |-> ratio,
     meetsFloor |-> debt = 0 \/ ratio >= risk.backingFloorBips]

VaiNext ==
    \/ \E a, b \in Actors, v \in Amounts : MintVAI(a, b, v)
    \/ \E a \in Actors, v \in Amounts : BurnVAI(a, v)
    \/ \E a \in Actors, cfg \in RiskInputs : SetRiskParams(a, cfg)
    \/ \E a \in Actors, r \in ReserveInputs : UpdateReserveState(a, r)

VaiSpecInit == LedgerInit /\ VaiInit

VaiSpec ==
    /\ VaiSpecInit
    /\ [][VaiNext \/ (Advance /\ UNCHANGED vaiVars)]_<<ledgerVars, vaiVars>>
-----------------------------------------------------------------------------
(* Balances and debt stay uint64, and the stored risk configuration passes *)
(* the validation that GetRiskConfig repeats on every read: a floor above  *)
(* zero, ratios within the denominator, wsVEIL worth nothing.              *)
VaiTypeOK ==
    /\ vaiBalance \in [Actors -> 0 .. MaxUint64]
    /\ vaiState \in [totalDebt : 0 .. MaxUint64, epochStart : 0 .. MaxTime,
                     epochMinted : 0 .. MaxUint64]
    /\ risk \in RiskInputs
    /\ risk.backingFloorBips > 0 /\ risk.ltvBips["WSVEIL"] = 0
    /\ \A c \in Collateral : {risk.ltvBips[c], risk.haircutBips[c]} \subseteq 0 .. BipsDenominator
    /\ reserve \in 0 .. MaxUint64
    /\ mintedAt \in [1 .. MaxTime -> Nat]

(* The end of every mint epoch is an int64.  Genesis only asks for a       *)
(* positive length: the end of a longer epoch may wrap to a time long      *)
(* past, and then every mint starts an epoch of its own.                   *)
MintEpochFits == MaxTime + MintEpoch <= MaxInt64

(* No span as long as an epoch, wherever it starts, sees more than twice   *)
(* the epoch limit minted, and the counter of the open epoch is what was   *)
(* really minted in it.                                                    *)
MintRateKept ==
    /\ \A t \in 1 .. MaxTime :
          SumFunctionOnSet(mintedAt, {s \in 1 .. MaxTime : s >= t /\ s < t + MintEpoch})
             <= 2 * EpochMintLimit
    /\ vaiState.epochStart > 0 =>
          SumFunctionOnSet(mintedAt, vaiState.epochStart .. MaxTime) = vaiState.epochMinted
    /\ vaiState.epochMinted <= EpochMintLimit

(* The rate is kept where epochs fit: MintVAI keeps one counter, restarts  *)
(* it at the first mint after an epoch, and burning gives nothing back.    *)
MintRateBounded == MintEpochFits => MintRateKept

Backed == Backs(vaiState.totalDebt)

(* Backing is lost only by a decision of governance: a step that leaves    *)
(* the reserve and the risk parameters alone keeps backed VAI backed, and  *)
(* while it is not backed the debt does not grow (MintVAI).                *)
BackingLostOnlyByGovernance ==
    [][reserve' = reserve /\ risk' = risk =>
          /\ Backed => Backed'
          /\ ~Backed => vaiState'.totalDebt <= vaiState.totalDebt]_<<vaiState, reserve, risk>>

(* The query Reserve reports a rounded and saturated ratio and compares it *)
(* with the floor; MintVAI multiplies out and never divides.  The two      *)
(* still agree: the floor is reported as met exactly when the debt is      *)
(* backed, and no ratio is reported that the reserve does not hold.        *)
ReserveReplyAgrees ==
    /\ Reserve.meetsFloor <=> Backed
    /\ Reserve.backingRatioBips * Reserve.totalDebt <= reserve * BipsDenominator
=============================================================================
