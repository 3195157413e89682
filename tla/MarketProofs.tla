----------------------------- MODULE MarketProofs -----------------------------
(***************************************************************************)
(* Proofs about the market lifecycle, for any sets of actors, markets,     *)
(* windows, validators, orders, shares, bonds and outcome counts.          *)
(***************************************************************************)
EXTENDS Market, TLAPS

LEMMA MarketTypeInit == MarketInit => MarketTypeOK
  BY MarketAssumption
     DEF MarketInit, MarketTypeOK, MarketRecords, NoMarket, Statuses, OracleEntries, NoEntry

(* Every operation keeps the shape of what is stored: SubBalance never     *)
(* takes a balance below zero and PutMarket stores a complete record.      *)
LEMMA MarketTypeStep ==
  ASSUME MarketTypeOK, [MarketNext]_marketVars
  PROVE  MarketTypeOK'
<1> USE MarketAssumption DEF MarketTypeOK
<1>1. CASE Tick
  BY <1>1 DEF Tick
<1>2. ASSUME NEW a \in Actors, NEW m \in Markets, NEW n \in OutcomeCounts, NEW b \in Bonds,
             CreateMarket(a, m, n, b)
      PROVE  MarketTypeOK'
  <2>1. balance' \in [Actors -> Nat]
    BY <1>2 DEF CreateMarket, SubBalance, CanSub, Sub
  <2>2. market' \in [Markets -> MarketRecords]
    BY <1>2 DEF CreateMarket, PutMarket, MarketRecords, Statuses
  <2>. QED  BY <1>2, <2>1, <2>2 DEF CreateMarket
<1>3. ASSUME NEW a \in Actors, NEW k \in Batches, NEW o \in Orders, CommitOrder(a, k, o)
      PROVE  MarketTypeOK'
  BY <1>3 DEF CommitOrder
<1>4. ASSUME NEW k \in Batches, NEW i \in Indices, NEW s \in Shares, RevealBatch(k, i, s)
      PROVE  MarketTypeOK'
  <2>1. k[1] \in Markets /\ k[2] \in Windows
    BY DEF Batches
  <2>2. [kind |-> "share", window |-> k[2], share |-> s] \in OracleEntries
    BY <2>1 DEF OracleEntries, ShareEntries
  <2>. QED  BY <1>4, <2>1, <2>2 DEF RevealBatch
<1>5. ASSUME NEW m \in Markets, NEW o \in Outcomes, ResolveMarket(m, o)
      PROVE  MarketTypeOK'
  <2>1. o \in Nat
    BY DEF Outcomes
  <2>. QED  BY <1>5, <2>1 DEF ResolveMarket, PutMarket, GetMarket, MarketRecords, Statuses
<1>6. ASSUME NEW a \in Actors, NEW m \in Markets, NEW b \in Bonds, Dispute(a, m, b)
      PROVE  MarketTypeOK'
  <2>1. balance' \in [Actors -> Nat]
    BY <1>6 DEF Dispute, SubBalance, CanSub, Sub
  <2>2. market' \in [Markets -> MarketRecords]
    BY <1>6 DEF Dispute, PutMarket, GetMarket, MarketRecords, Statuses
  <2>3. [kind |-> "dispute", bond |-> b] \in OracleEntries
    BY DEF OracleEntries, DisputeEntries
  <2>. QED  BY <1>6, <2>1, <2>2, <2>3 DEF Dispute
<1>7. CASE UNCHANGED marketVars
  BY <1>7 DEF marketVars
<1>. QED  BY <1>1, <1>2, <1>3, <1>4, <1>5, <1>6, <1>7 DEF MarketNext

(* The types of the market state hold in every reachable state. *)
THEOREM MarketTypes == MarketSpec => []MarketTypeOK
<1>1. MarketTypeOK /\ [MarketNext]_marketVars => MarketTypeOK'
  BY MarketTypeStep
<1>. QED  BY MarketTypeInit, <1>1, PTL DEF MarketSpec
-----------------------------------------------------------------------------
LEMMA DisputeRecordInit == MarketInit => DisputeRecordKept
  BY DEF MarketInit, DisputeRecordKept, NoMarket, NoEntry, Indices

LEMMA DisputeRecordStep ==
  ASSUME MarketTypeOK, DisputeRecordKept, [MarketNext]_marketVars
  PROVE  DisputeRecordKept'
<1> USE DEF MarketTypeOK, DisputeRecordKept, Indices
<1>1. CASE Tick
  BY <1>1 DEF Tick
<1>2. ASSUME NEW a \in Actors, NEW m \in Markets, NEW n \in OutcomeCounts, NEW b \in Bonds,
             CreateMarket(a, m, n, b)
      PROVE  DisputeRecordKept'
  BY <1>2 DEF CreateMarket, PutMarket, Exists, GetMarket
<1>3. ASSUME NEW a \in Actors, NEW k \in Batches, NEW o \in Orders, CommitOrder(a, k, o)
      PROVE  DisputeRecordKept'
  BY <1>3 DEF CommitOrder
<1>4. ASSUME NEW k \in Batches, NEW i \in Indices, NEW s \in Shares, RevealBatch(k, i, s)
      PROVE  DisputeRecordKept'
  <2>1. k[1] \in Markets
    BY DEF Batches
  <2>. QED  BY <1>4, <2>1 DEF RevealBatch, IsActive, GetMarket
<1>5. ASSUME NEW m \in Markets, NEW o \in Outcomes, ResolveMarket(m, o)
      PROVE  DisputeRecordKept'
  BY <1>5 DEF ResolveMarket, PutMarket, IsActive, GetMarket
<1>6. ASSUME NEW a \in Actors, NEW m \in Markets, NEW b \in Bonds, Dispute(a, m, b)
      PROVE  DisputeRecordKept'
  BY <1>6 DEF Dispute, PutMarket
<1>7. CASE UNCHANGED marketVars
  BY <1>7 DEF marketVars
<1>. QED  BY <1>1, <1>2, <1>3, <1>4, <1>5, <1>6, <1>7 DEF MarketNext

(* A disputed market, and only a disputed one, holds a dispute record,     *)
(* although RevealBatch may write the key that holds it.                   *)
THEOREM DisputeRecordIsKept == MarketSpec => []DisputeRecordKept
<1>1. MarketInit => MarketTypeOK /\ DisputeRecordKept
  BY MarketTypeInit, DisputeRecordInit
<1>2. MarketTypeOK /\ DisputeRecordKept /\ [MarketNext]_marketVars
        => (MarketTypeOK /\ DisputeRecordKept)'
  BY MarketTypeStep, DisputeRecordStep
<1>. QED  BY <1>1, <1>2, PTL DEF MarketSpec
-----------------------------------------------------------------------------
(* What an operation may do to the record of one market.  PutMarket        *)
(* rewrites the whole record, so each handler has to copy what it keeps.   *)
LEMMA LifecycleStep ==
  ASSUME MarketTypeOK, [MarketNext]_marketVars, NEW m \in Markets
  PROVE  MarketStep(m)
<1> USE DEF MarketTypeOK, MarketStep
<1>1. CASE UNCHANGED market
  BY <1>1
<1>2. ASSUME NEW a \in Actors, NEW n \in Markets, NEW c \in OutcomeCounts, NEW b \in Bonds,
             CreateMarket(a, n, c, b)
      PROVE  MarketStep(m)
  BY <1>2 DEF CreateMarket, PutMarket, Exists, GetMarket
<1>3. ASSUME NEW n \in Markets, NEW o \in Outcomes, ResolveMarket(n, o)
      PROVE  MarketStep(m)
  <2>1. CASE m # n
    BY <1>3, <2>1 DEF ResolveMarket, PutMarket
  <2>2. CASE m = n
    <3>1. market'[n] = [status |-> "resolved", outcomes |-> market[n].outcomes,
                        resolvedOutcome |-> o]
      BY <1>3 DEF ResolveMarket, PutMarket, GetMarket
    <3>2. [market[n] EXCEPT !.status = "resolved", !.resolvedOutcome = o] = market'[n]
      <4> DEFINE moved == [market[n] EXCEPT !.status = "resolved"]
      <4>1. moved = [status |-> "resolved", outcomes |-> market[n].outcomes,
                      resolvedOutcome |-> market[n].resolvedOutcome]
        BY DEF MarketRecords
      <4>2. [market[n] EXCEPT !.status = "resolved", !.resolvedOutcome = o]
              = [moved EXCEPT !.resolvedOutcome = o]
        BY DEF MarketRecords
      <4> HIDE DEF moved
      <4>. QED  BY <3>1, <4>1, <4>2
    <3>3. market[n].status = "active"
      BY <1>3 DEF ResolveMarket, IsActive, GetMarket
    <3>. QED  BY <2>2, <3>1, <3>2, <3>3
  <2>. QED  BY <2>1, <2>2
<1>4. ASSUME NEW a \in Actors, NEW n \in Markets, NEW b \in Bonds, Dispute(a, n, b)
      PROVE  MarketStep(m)
  BY <1>4 DEF Dispute, PutMarket, IsResolved, GetMarket, MarketRecords
<1>. QED  BY <1>1, <1>2, <1>3, <1>4
          DEF MarketNext, marketVars, Tick, CommitOrder, RevealBatch

(* Markets only move active, resolved, disputed; the outcome count never   *)
(* changes after creation, nor the outcome after resolution.               *)
THEOREM MarketsFollowLifecycle == MarketSpec => MarketLifecycle
<1>1. MarketTypeOK /\ [MarketNext]_marketVars => [\A m \in Markets : MarketStep(m)]_market
  BY LifecycleStep
<1>. QED  BY <1>1, MarketTypes, PTL DEF MarketSpec, MarketLifecycle
-----------------------------------------------------------------------------
(* What a step leaves alone of the orders and shares of a market that has  *)
(* left the active status.                                                 *)
EvidenceKept(m) ==
    market[m].status \in {"resolved", "disputed"} =>
        /\ \A w \in Windows : commitment'[<<m, w>>] = commitment[<<m, w>>]
        /\ \A i \in Validators : oracle'[m][i] = oracle[m][i]
        /\ market[m].status = "disputed" => oracle'[m] = oracle[m]

LEMMA EvidenceStep ==
  ASSUME MarketTypeOK, [MarketNext]_marketVars, NEW m \in Markets
  PROVE  EvidenceKept(m)
<1> USE DEF MarketTypeOK, EvidenceKept
<1>1. CASE UNCHANGED <<commitment, oracle>>
  BY <1>1
<1>2. ASSUME NEW a \in Actors, NEW k \in Batches, NEW o \in Orders, CommitOrder(a, k, o)
      PROVE  EvidenceKept(m)
  <2>1. market[m].status # "active" => \A w \in Windows : <<m, w>> # k
    BY <1>2 DEF CommitOrder, IsActive, GetMarket
  <2>. QED  BY <1>2, <2>1 DEF CommitOrder, Batches
<1>3. ASSUME NEW k \in Batches, NEW i \in Indices, NEW s \in Shares, RevealBatch(k, i, s)
      PROVE  EvidenceKept(m)
  <2>1. market[m].status # "active" => m # k[1]
    BY <1>3 DEF RevealBatch, IsActive, GetMarket
  <2>. QED  BY <1>3, <2>1 DEF RevealBatch
<1>4. ASSUME NEW a \in Actors, NEW n \in Markets, NEW b \in Bonds, Dispute(a, n, b)
      PROVE  EvidenceKept(m)
  <2>1. market[m].status = "disputed" => m # n
    BY <1>4 DEF Dispute, IsResolved, GetMarket
  <2>. QED  BY <1>4, <2>1, MarketAssumption DEF Dispute, Indices
<1>. QED  BY <1>1, <1>2, <1>3, <1>4
          DEF MarketNext, marketVars, Tick, CreateMarket, ResolveMarket

(* The orders and shares of a market that has left the active status never *)
(* change again, apart from the dispute record that Dispute adds.          *)
THEOREM EvidenceIsFrozen == MarketSpec => EvidenceFrozen
<1>1. MarketTypeOK /\ [MarketNext]_marketVars
        => [\A m \in Markets : EvidenceKept(m)]_<<commitment, oracle>>
  BY EvidenceStep
<1>. QED  BY <1>1, MarketTypes, PTL DEF MarketSpec, EvidenceFrozen, EvidenceKept
===============================================================================
