------------------------------- MODULE Ledger -------------------------------
(***************************************************************************)
(* The clock and the VEIL balances that every economic component shares,   *)
(* with Transfer and the fee deduction of the balance handler.             *)
(***************************************************************************)
EXTENDS Integers, FiniteSets, Balances

CONSTANTS
    Actors,          \* addresses that sign transactions
    Governance,      \* TreasuryConfig.Governance, written at genesis only
    Amounts,         \* uint64 amounts the actions are called with, 0 included
    Fees,            \* transaction fees the runtime deducts
    InitialBalance,  \* VEIL of every actor at genesis
    MaxUint64,       \* largest uint64
    BipsDenominator, \* 10_000
    MaxTime          \* bound: last block timestamp of the model

(* An address has a fixed number of bytes: there are finitely many. *)
ASSUME LedgerAssumption ==
    /\ IsFiniteSet(Actors)
    /\ MaxUint64 \in Nat
    /\ Amounts \subseteq 0 .. MaxUint64
    /\ Fees \subseteq 0 .. MaxUint64
    /\ InitialBalance \in 0 .. MaxUint64
    /\ BipsDenominator \in Nat \ {0}
    /\ MaxTime \in Nat \ {0}

VARIABLES
    now,      \* timestamp of the block being executed
    balance,  \* BalanceKey: VEIL of each actor (an absent key reads 0)
    burned    \* history: VEIL taken from a balance and credited nowhere

ledgerVars == <<now, balance, burned>>

MaxInt64 == MaxUint64 \div 2

(* An int64 sum or product of which the code does not check the overflow.  *)
WrapInt64(x) == ((x + MaxInt64 + 1) % (2 * MaxInt64 + 2)) - (MaxInt64 + 1)

LedgerInit ==
    /\ now = 1
    /\ balance = [a \in Actors |-> InitialBalance]
    /\ burned = 0

(* Block timestamps never decrease; several actions may share one. *)
Advance ==
    /\ now < MaxTime
    /\ now' = now + 1
    /\ UNCHANGED <<balance, burned>>

(* Fault: both balances are read before either is written, so that a       *)
(* transfer to oneself creates VEIL.                                       *)
Transfer_ReadsFirst(actor, to, value) ==
    /\ value # 0
    /\ CanSub(balance, actor, value)
    /\ CanAdd(balance, to, value, MaxUint64)
    /\ balance' = [[balance EXCEPT ![actor] = @ - value] EXCEPT ![to] = balance[to] + value]
    /\ UNCHANGED <<now, burned>>

Transfer(actor, to, value) ==
    LET debited == Sub(balance, actor, value) IN
    /\ value # 0
    /\ CanSub(balance, actor, value)
    /\ CanAdd(debited, to, value, MaxUint64)
    /\ balance' = Add(debited, to, value)
    /\ UNCHANGED <<now, burned>>

(* The runtime asks CanDeduct and then calls Deduct for every transaction, *)
(* also for those whose Execute fails afterwards.                          *)
Deduct(actor, fee) ==
    /\ CanSub(balance, actor, fee)
    /\ balance' = Sub(balance, actor, fee)
    /\ burned' = burned + fee
    /\ UNCHANGED now

LedgerNext ==
    \/ Advance
    \/ \E a, b \in Actors, v \in Amounts : Transfer(a, b, v)
    \/ \E a \in Actors, f \in Fees : Deduct(a, f)
=============================================================================
