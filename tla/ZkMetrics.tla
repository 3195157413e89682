------------------------------ MODULE ZkMetrics ------------------------------
(***************************************************************************)
(* The collector of proving metrics, shared by all executions of a node    *)
(* and by its RPC handlers.  Every operation holds the collector's mutex   *)
(* from beginning to end, so each is one action.  Executions record their  *)
(* outcome whether they succeed or fail, and the timestamps they carry     *)
(* come in any order, since blocks are built and verified in parallel.     *)
(* Durations of the Go calls and prover timings are left out.              *)
(***************************************************************************)
EXTENDS Integers, Sequences, SequencesExt

CONSTANTS
    Keys,        \* market and window pairs
    Times,       \* block timestamps
    CloseTimes,  \* window close times of proof submissions, 0 for an illegal one
    MaxWindows,  \* maxWindows of the collector
    MaxCalls,    \* bound: counted operations since the last reset
    MaxObserved  \* bound: windows created since the last reset

ASSUME MetricsAssumption ==
    /\ Times \subseteq Nat \ {0}
    /\ CloseTimes \subseteq Nat
    /\ MaxWindows \in Nat
    /\ MaxCalls \in Nat /\ MaxObserved \in Nat

VARIABLES
    windows,  \* the map, a function over the keys present
    order,    \* the keys, oldest first
    summary,  \* ZKMetricsSummary
    evicted   \* history: number, commits and reveals of the windows evicted

metricsVars == <<windows, order, summary, evicted>>

(* A window; times is history, the timestamps of its commits. *)
NewWindow == [times |-> {}, commitCount |-> 0, revealCount |-> 0, firstCommitAt |-> 0,
              lastCommitAt |-> 0, closeAt |-> 0, submittedAt |-> 0, acceptedAt |-> 0,
              missedDeadline |-> FALSE, rejected |-> FALSE]

Zeros == [windowsObserved |-> 0, commits |-> 0, reveals |-> 0, proofSubmissions |-> 0,
          proofErrors |-> 0, clears |-> 0, clearErrors |-> 0,
          acceptedBatches |-> 0, rejectedBatches |-> 0, missedDeadlines |-> 0]

NoneEvicted == [windows |-> 0, commits |-> 0, reveals |-> 0]
NoWindows == [k \in {} |-> NewWindow]

(* newZKMetricsCollector, and reset. *)
MetricsInit ==
    /\ windows = NoWindows
    /\ order = <<>>
    /\ summary = Zeros
    /\ evicted = NoneEvicted

Calls == summary.commits + summary.reveals + summary.proofSubmissions + summary.proofErrors
           + summary.clears + summary.clearErrors
InBounds(k) ==
    /\ Calls < MaxCalls
    /\ k \in DOMAIN windows \/ summary.windowsObserved < MaxObserved

(* Fault: one place of the collector is never used. *)
MustEvict_OneEarly(k) ==
    k \notin DOMAIN windows /\ MaxWindows > 0 /\ Len(order) >= MaxWindows - 1

MustEvict(k) ==
    k \notin DOMAIN windows /\ MaxWindows > 0 /\ Len(order) >= MaxWindows

(* Fault: the oldest key leaves the queue but its window stays. *)
KeptKeys_AllKept(k) == DOMAIN windows

(* The keys that are left when room is made for a new one. *)
KeptKeys(k) == IF MustEvict(k) THEN DOMAIN windows \ {Head(order)} ELSE DOMAIN windows

NextOrder(k) ==
    IF k \in DOMAIN windows THEN order
    ELSE Append(IF MustEvict(k) THEN Tail(order) ELSE order, k)

(* getOrCreateLocked, then the record of the operation is stored in the    *)
(* window: update is its new contents, counted the new summary.            *)
GetOrCreate(k) == IF k \in DOMAIN windows THEN windows[k] ELSE NewWindow

Observed(k) ==
    IF k \in DOMAIN windows THEN summary
    ELSE [summary EXCEPT !.windowsObserved = @ + 1]

Store(k, update, counted) ==
    /\ windows' = [j \in KeptKeys(k) \cup {k} |-> IF j = k THEN update ELSE windows[j]]
    /\ order' = NextOrder(k)
    /\ summary' = counted
    /\ evicted' = IF MustEvict(k)
                  THEN [windows |-> evicted.windows + 1,
                        commits |-> evicted.commits + windows[Head(order)].commitCount,
                        reveals |-> evicted.reveals + windows[Head(order)].revealCount]
                  ELSE evicted

(* Fault: the first commit time is the latest reported one. *)
FirstCommit_Latest(w, t) == t

FirstCommit(w, t) == IF w.firstCommitAt = 0 \/ t < w.firstCommitAt THEN t ELSE w.firstCommitAt

RecordCommit(k, t, failed) ==
    LET w == GetOrCreate(k) IN
    /\ InBounds(k)
    /\ IF failed
       THEN Store(k, [w EXCEPT !.rejected = TRUE], Observed(k))
       ELSE Store(k, [w EXCEPT !.times = @ \cup {t}, !.commitCount = @ + 1,
                               !.firstCommitAt = FirstCommit(w, t),
                               !.lastCommitAt = IF t > @ THEN t ELSE @],
                     [Observed(k) EXCEPT !.commits = @ + 1])

(* The close time and the time of submission are stored also when the      *)
(* submission failed; a deadline is missed only by one that did.           *)
RecordProofSubmit(k, close, t, missed, failed) ==
    LET w == [GetOrCreate(k) EXCEPT
                 !.closeAt = IF close > 0 THEN close ELSE @,
                 !.submittedAt = t,
                 !.missedDeadline = @ \/ missed,
                 !.rejected = @ \/ failed]
        s == [Observed(k) EXCEPT !.missedDeadlines = IF missed THEN @ + 1 ELSE @] IN
    /\ InBounds(k)
    /\ missed => failed
    /\ IF failed THEN Store(k, w, [s EXCEPT !.proofErrors = @ + 1])
                 ELSE Store(k, w, [s EXCEPT !.proofSubmissions = @ + 1])

(* Fault: a refused clear is not counted as a rejected batch. *)
RecordClear_ErrorOnly(k, t, missed, failed) ==
    LET w == [GetOrCreate(k) EXCEPT
                 !.missedDeadline = @ \/ missed,
                 !.rejected = @ \/ failed,
                 !.acceptedAt = IF failed THEN @ ELSE t]
        s == [Observed(k) EXCEPT !.missedDeadlines = IF missed THEN @ + 1 ELSE @] IN
    /\ InBounds(k)
    /\ missed => failed
    /\ IF failed
       THEN Store(k, w, [s EXCEPT !.clearErrors = @ + 1])
       ELSE Store(k, w, [s EXCEPT !.clears = @ + 1, !.acceptedBatches = @ + 1])

RecordClear(k, t, missed, failed) ==
    LET w == [GetOrCreate(k) EXCEPT
                 !.missedDeadline = @ \/ missed,
                 !.rejected = @ \/ failed,
                 !.acceptedAt = IF failed THEN @ ELSE t]
        s == [Observed(k) EXCEPT !.missedDeadlines = IF missed THEN @ + 1 ELSE @] IN
    /\ InBounds(k)
    /\ missed => failed
    /\ IF failed
       THEN Store(k, w, [s EXCEPT !.clearErrors = @ + 1, !.rejectedBatches = @ + 1])
       ELSE Store(k, w, [s EXCEPT !.clears = @ + 1, !.acceptedBatches = @ + 1])

RecordReveal(k, failed) ==
    LET w == GetOrCreate(k) IN
    /\ InBounds(k)
    /\ IF failed
       THEN Store(k, [w EXCEPT !.rejected = TRUE], Observed(k))
       ELSE Store(k, [w EXCEPT !.revealCount = @ + 1], [Observed(k) EXCEPT !.reveals = @ + 1])

(* The stage timings themselves are left out: the window is created. *)
RecordProverStages(k) == InBounds(k) /\ Store(k, GetOrCreate(k), Observed(k))

Reset ==
    /\ windows' = NoWindows
    /\ order' = <<>>
    /\ summary' = Zeros
    /\ evicted' = NoneEvicted

MetricsNext ==
    \/ \E k \in Keys, t \in Times, e \in BOOLEAN : RecordCommit(k, t, e)
    \/ \E k \in Keys, c \in CloseTimes, t \in Times, m, e \in BOOLEAN :
          RecordProofSubmit(k, c, t, m, e)
    \/ \E k \in Keys, t \in Times, m, e \in BOOLEAN : RecordClear(k, t, m, e)
    \/ \E k \in Keys, e \in BOOLEAN : RecordReveal(k, e)
    \/ \E k \in Keys : RecordProverStages(k)
    \/ Reset

MetricsSpec == MetricsInit /\ [][MetricsNext]_metricsVars
------------------------------------------------------------------------------
(* snapshot: the most recent windows with the latencies derived from their *)
(* times.                                                                  *)
Latency(from, to) == IF from > 0 /\ to >= from THEN to - from ELSE 0

RecentKeys(limit) ==
    IF limit > 0 /\ Len(order) > limit
    THEN SubSeq(order, Len(order) - limit + 1, Len(order)) ELSE order

(* A key of the queue without a window is passed over. *)
Snapshot(limit) ==
    LET keys == SelectSeq(RecentKeys(limit), LAMBDA k : k \in DOMAIN windows) IN
    [i \in DOMAIN keys |->
        LET w == windows[keys[i]] IN
        [key |-> keys[i], window |-> w,
         batchFreeze |-> IF w.firstCommitAt > 0 THEN Latency(w.firstCommitAt, w.closeAt) ELSE 0,
         proofSubmit |-> Latency(w.closeAt, w.submittedAt),
         blockAccept |-> Latency(w.closeAt, w.acceptedAt)]]
------------------------------------------------------------------------------
(* The map and the queue hold the same windows, each once, and never more  *)
(* than the limit, through every eviction and reset: getOrCreateLocked is  *)
(* the only place that keeps them in step.                                 *)
QueueMatchesMap ==
    /\ IsInjective(order)
    /\ ToSet(order) = DOMAIN windows
    /\ MaxWindows > 0 => Len(order) <= MaxWindows

CommitsPresent == SumFunction([k \in DOMAIN windows |-> windows[k].commitCount])
RevealsPresent == SumFunction([k \in DOMAIN windows |-> windows[k].revealCount])

(* The summary agrees with the windows: the commits and reveals it counts  *)
(* are those of the windows present and evicted, the windows it has seen   *)
(* are those present and those evicted, a clear is either accepted or      *)
(* rejected, and a missed deadline is always also an error.                *)
SummaryAgrees ==
    /\ summary.commits = CommitsPresent + evicted.commits
    /\ summary.reveals = RevealsPresent + evicted.reveals
    /\ summary.windowsObserved = Len(order) + evicted.windows
    /\ summary.acceptedBatches = summary.clears
    /\ summary.rejectedBatches = summary.clearErrors
    /\ summary.missedDeadlines <= summary.proofErrors + summary.clearErrors

(* First and last commit are the earliest and the latest of the commits of *)
(* a window, in whatever order executions record them.                     *)
CommitTimesOrdered ==
    \A k \in DOMAIN windows :
        LET w == windows[k] IN
        /\ w.times = {} => w.firstCommitAt = 0 /\ w.lastCommitAt = 0
        /\ w.times # {} => w.firstCommitAt = Min(w.times) /\ w.lastCommitAt = Max(w.times)

(* A report is drawn from the rows of a snapshot and printed beside the    *)
(* summary (runBench).  While no more windows were observed since the      *)
(* reset than the collector and the limit have room for, the rows leave    *)
(* nothing out that the summary counts: every window has one row, commits  *)
(* and reveals add up, and each kind of outcome counted shows in a row.    *)
SnapshotIsComplete ==
    \A limit \in 0 .. MaxWindows :
        LET snap == Snapshot(limit)
            rows == DOMAIN snap
            room == IF limit = 0 THEN MaxWindows ELSE limit IN
        summary.windowsObserved <= room =>
            /\ Len(snap) = summary.windowsObserved
            /\ Cardinality({snap[i].key : i \in rows}) = summary.windowsObserved
            /\ SumFunction([i \in rows |-> snap[i].window.commitCount]) = summary.commits
            /\ SumFunction([i \in rows |-> snap[i].window.revealCount]) = summary.reveals
            /\ summary.acceptedBatches > 0 <=> \E i \in rows : snap[i].window.acceptedAt > 0
            /\ summary.missedDeadlines > 0 <=> \E i \in rows : snap[i].window.missedDeadline
            /\ summary.proofErrors + summary.clearErrors > 0 =>
                  \E i \in rows : snap[i].window.rejected
==============================================================================
