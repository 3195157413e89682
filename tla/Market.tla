------------------------------- MODULE Market -------------------------------
(***************************************************************************)
(* The life of a prediction market: creation with a bond, order            *)
(* commitments, decryption shares, resolution and dispute.                 *)
(*                                                                         *)
(* An action of this module is one successful Execute of an action of the  *)
(* VM.  The runtime (HyperSDK, external) discards every write of an        *)
(* Execute that returns an error, so a failing call is a stuttering step:  *)
(* the conditions of the early returns are the guards.                     *)
(***************************************************************************)
EXTENDS Integers, Balances

CONSTANTS
    Actors,         \* addresses that sign transactions
    Markets,        \* market IDs
    Windows,        \* batch window IDs
    Validators,     \* validator indices below the reserved one
    DisputeIndex,   \* the index 0xFFFFFFFF whose oracle key is the DisputeKey
    Orders,         \* encrypted order and commitment pairs of legal size
    Shares,         \* decryption shares of legal size
    Bonds,          \* bond amounts tried, 0 included
    OutcomeCounts,  \* numbers of outcomes tried
    InitialBalance, \* VEIL of every actor at genesis
    MaxTime         \* bound: last block timestamp of the model

ASSUME MarketAssumption ==
    /\ Bonds \subseteq Nat
    /\ OutcomeCounts \subseteq Nat
    /\ InitialBalance \in Nat
    /\ MaxTime \in Nat
    /\ DisputeIndex \notin Validators

VARIABLES
    now,         \* timestamp of the block being executed
    balance,     \* BalanceKey: VEIL of each actor (an absent key reads 0)
    market,      \* MarketKey
    commitment,  \* CommitmentKey: set of orders, empty when absent
    oracle       \* OracleKey: decryption shares, and at DisputeIndex the dispute

marketVars == <<now, balance, market, commitment, oracle>>

Batches == Markets \X Windows
Indices == Validators \cup {DisputeIndex}

Statuses == {"none", "active", "resolved", "disputed"}

(* A missing market has status "none".  The resolution time and the        *)
(* question are stored and copied but no handler reads them.               *)
NoMarket == [status |-> "none", outcomes |-> 0, resolvedOutcome |-> 0]
MarketRecords ==
    [status : Statuses, outcomes : Nat, resolvedOutcome : Nat]

(* What is stored under an oracle key.  The tag tells which action wrote   *)
(* the bytes; the layouts (8 bytes, then the payload) do not differ.       *)
NoEntry == [kind |-> "none"]
ShareEntries == [kind : {"share"}, window : Windows, share : Shares]
DisputeEntries == [kind : {"dispute"}, bond : Nat]
OracleEntries == {NoEntry} \cup ShareEntries \cup DisputeEntries

GetMarket(m) == market[m]
Exists(m) == GetMarket(m).status # "none"
IsActive(m) == GetMarket(m).status = "active"
IsResolved(m) == GetMarket(m).status = "resolved"

SubBalance(actor, amount) ==
    /\ CanSub(balance, actor, amount)
    /\ balance' = Sub(balance, actor, amount)

(* Fault: the outcome count is not copied when the record is rewritten. *)
PutMarket_DropsOutcomes(m, status, outcomes, resolvedOutcome) ==
    market' = [market EXCEPT ![m] =
        [status |-> status, resolvedOutcome |-> resolvedOutcome,
         outcomes |-> IF status = "active" THEN outcomes ELSE 0]]

PutMarket(m, status, outcomes, resolvedOutcome) ==
    market' = [market EXCEPT ![m] = [status |-> status,
                                     outcomes |-> outcomes,
                                     resolvedOutcome |-> resolvedOutcome]]
-----------------------------------------------------------------------------
MarketInit ==
    /\ now = 1
    /\ balance = [a \in Actors |-> InitialBalance]
    /\ market = [m \in Markets |-> NoMarket]
    /\ commitment = [k \in Batches |-> [a \in Actors |-> {}]]
    /\ oracle = [m \in Markets |-> [i \in Indices |-> NoEntry]]

(* Block timestamps never decrease; several actions may share one. *)
Tick ==
    /\ now < MaxTime
    /\ now' = now + 1
    /\ UNCHANGED <<balance, market, commitment, oracle>>

(* The bond leaves the creator's balance and is credited nowhere. *)
CreateMarket(actor, m, outcomes, bond) ==
    /\ outcomes >= 2
    /\ bond # 0
    /\ ~Exists(m)
    /\ SubBalance(actor, bond)
    /\ PutMarket(m, "active", outcomes, 0)
    /\ UNCHANGED <<now, commitment, oracle>>

(* Fault: the status of the market is not looked at. *)
CommitOrder_AnyStatus(actor, k, order) ==
    /\ Exists(k[1])
    /\ commitment' = [commitment EXCEPT ![k][actor] = {order}]
    /\ UNCHANGED <<now, balance, market, oracle>>

(* A second order of an actor for the same window replaces the first. *)
CommitOrder(actor, k, order) ==
    /\ IsActive(k[1])
    /\ commitment' = [commitment EXCEPT ![k][actor] = {order}]
    /\ UNCHANGED <<now, balance, market, oracle>>

(* Fault: the status of the market is not looked at. *)
RevealBatch_AnyStatus(k, index, share) ==
    /\ Exists(k[1])
    /\ oracle' = [oracle EXCEPT ![k[1]][index] =
                    [kind |-> "share", window |-> k[2], share |-> share]]
    /\ UNCHANGED <<now, balance, market, commitment>>

(* The oracle key holds no window: a share for a later window replaces the *)
(* one for an earlier window.  The index is any uint32, the reserved one   *)
(* included, and the sender is not checked.                                *)
RevealBatch(k, index, share) ==
    /\ IsActive(k[1])
    /\ oracle' = [oracle EXCEPT ![k[1]][index] =
                    [kind |-> "share", window |-> k[2], share |-> share]]
    /\ UNCHANGED <<now, balance, market, commitment>>

(* Any sender, any signature of legal size, at any time. *)
ResolveMarket(m, outcome) ==
    /\ IsActive(m)
    /\ outcome < GetMarket(m).outcomes
    /\ PutMarket(m, "resolved", GetMarket(m).outcomes, outcome)
    /\ UNCHANGED <<now, balance, commitment, oracle>>

Dispute(actor, m, bond) ==
    /\ bond # 0
    /\ IsResolved(m)
    /\ SubBalance(actor, bond)
    /\ PutMarket(m, "disputed", GetMarket(m).outcomes, GetMarket(m).resolvedOutcome)
    /\ oracle' = [oracle EXCEPT ![m][DisputeIndex] =
                    [kind |-> "dispute", bond |-> bond]]
    /\ UNCHANGED <<now, commitment>>

Outcomes == UNION {0 .. n : n \in OutcomeCounts}

MarketNext ==
    \/ Tick
    \/ \E a \in Actors, m \in Markets, n \in OutcomeCounts, b \in Bonds :
          CreateMarket(a, m, n, b)
    \/ \E a \in Actors, k \in Batches, o \in Orders : CommitOrder(a, k, o)
    \/ \E k \in Batches, i \in Indices, s \in Shares : RevealBatch(k, i, s)
    \/ \E m \in Markets, o \in Outcomes : ResolveMarket(m, o)
    \/ \E a \in Actors, m \in Markets, b \in Bonds : Dispute(a, m, b)

MarketSpec == MarketInit /\ [][MarketNext]_marketVars
-----------------------------------------------------------------------------
(* Every key holds a value of the shape its handler writes; balances never *)
(* go below zero (SubBalance).                                             *)
MarketTypeOK ==
    /\ now \in Nat
    /\ balance \in [Actors -> Nat]
    /\ market \in [Markets -> MarketRecords]
    /\ commitment \in [Batches -> [Actors -> SUBSET Orders]]
    /\ oracle \in [Markets -> [Indices -> OracleEntries]]

(* The dispute record shares its key with the decryption share of          *)
(* validator 0xFFFFFFFF.  A disputed market still holds its dispute, and   *)
(* no other market holds one: RevealBatch, which may write the same key,   *)
(* is refused as soon as the market leaves the active status.              *)
DisputeRecordKept ==
    \A m \in Markets :
        oracle[m][DisputeIndex].kind = "dispute" <=> market[m].status = "disputed"

(* A market only moves active, resolved, disputed; its outcome count never *)
(* changes after creation and its outcome never changes once resolved      *)
(* (CreateMarket, ResolveMarket, Dispute rewrite the whole record).        *)
MarketStep(m) ==
    \/ market'[m] = market[m]
    \/ market[m].status = "none" /\ market'[m].status = "active"
    \/ /\ market[m].status = "active"
       /\ market'[m] = [market[m] EXCEPT !.status = "resolved",
                                         !.resolvedOutcome = market'[m].resolvedOutcome]
    \/ /\ market[m].status = "resolved"
       /\ market'[m] = [market[m] EXCEPT !.status = "disputed"]

MarketLifecycle == [][\A m \in Markets : MarketStep(m)]_market

(* Once a market has left the active status its orders and its shares are  *)
(* the evidence for the resolution: no later step changes them, apart from *)
(* the dispute record written by the one Dispute.                          *)
EvidenceFrozen ==
    [][\A m \in Markets :
          market[m].status \in {"resolved", "disputed"} =>
             /\ \A w \in Windows : commitment'[<<m, w>>] = commitment[<<m, w>>]
             /\ \A i \in Validators : oracle'[m][i] = oracle[m][i]
             /\ market[m].status = "disputed" => oracle'[m] = oracle[m]
      ]_<<commitment, oracle>>
=============================================================================
