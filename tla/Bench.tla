-------------------------------- MODULE Bench --------------------------------
(***************************************************************************)
(* The benchmark client, which drives the proof gate of a live chain from  *)
(* outside: it submits one transaction after the other, waits for the      *)
(* chain to advance and for the result of the transaction, retries in two  *)
(* cases and gives up in all others.  The chain (HyperSDK, external) takes *)
(* transactions into blocks in its own time or lets them expire.           *)
(*                                                                         *)
(* Fees are left out: whether the node refuses a transaction for want of   *)
(* balance, and whether refuelling helps, is nondeterministic.             *)
(***************************************************************************)
EXTENDS ProofGate, Sequences, SequencesExt

CONSTANTS
    Client,          \* the address of PRIVATE_KEY
    Provers,         \* prover authorities to configure, normally the client
    MarketSeq,       \* one market per batch size, in order
    WindowsPerSize,
    ConfigSigner,    \* signer of set_proof_config
    FallbackSigner,  \* its fallback, ZeroAddress if there is none
    HasRefuel,       \* REFUEL_PRIVATE_KEY is set
    ProofModes,      \* subset of {"synthetic", "groth16"}
    TamperModes,     \* subset of {"", "truncate", "flip-last-byte"}
    BatchWindow,                 \* BATCH_WINDOW_MS
    DeadlineInputs,              \* values of PROOF_DEADLINE_MS
    Margin,                      \* 1_000 ms in the code
    HeightPolls, ResultPolls,    \* 60 and 120 in the code
    TheOrder, TheShare, TheFills \* what the build functions make of the batch

VARIABLES
    mode,      \* [proof, tamper, prover, deadline, prefundOnly] of this process
    pc,        \* "next", "submit", "submitted", "height", "result" or one of Ended
    at,        \* index of the current step of the plan
    job,       \* "plan", or "refuel" while a top-up transfer is under way
    retried,   \* the current step is in its second attempt
    polls,     \* polls left in the current wait
    prepared,  \* what was read and computed for the proof of the window
    sent,      \* the last transaction and earlier ones still pending, each
               \* with what the chain did with it
    advanced,  \* a block was accepted since waitForHeightAdvance read h0
    applied    \* history: the steps whose transaction succeeded, in order

clientVars == <<mode, pc, at, job, retried, polls, prepared>>
benchVars == <<vars, clientVars, sent, advanced, applied>>
-----------------------------------------------------------------------------
Step(op, m, w) == [op |-> op, k |-> <<m, w>>]

WindowPlan(m, w) ==
    <<Step("commit", m, w), Step("reveal", m, w), Step("prove", m, w),
      Step("submit", m, w), Step("record", m, w), Step("clear", m, w)>>

(* Fault: the loop ends one window early. *)
MarketPlan_OffByOne(m) ==
    <<Step("reset", m, 1), Step("create", m, 1)>>
       \o FlattenSeq([w \in 1 .. WindowsPerSize - 1 |-> WindowPlan(m, w)])
       \o <<Step("snapshot", m, 1)>>

MarketPlan(m) ==
    <<Step("reset", m, 1), Step("create", m, 1)>>
       \o FlattenSeq([w \in 1 .. WindowsPerSize |-> WindowPlan(m, w)])
       \o <<Step("snapshot", m, 1)>>

Plan ==
    <<Step("startup", MarketSeq[1], 1), Step("config", MarketSeq[1], 1)>>
       \o FlattenSeq([i \in 1 .. Len(MarketSeq) |-> MarketPlan(MarketSeq[i])])

Current == Plan[at]
Rpcs == {"reset", "record", "snapshot"}  \* calls that send no transaction
IsTx(step) == step.op \notin Rpcs \cup {"startup", "prove"}
Ended == {"done", "prefunded", "failed"}

(* Fault: the deadline is taken as it is. *)
ProofDeadline_AsGiven == mode.deadline

(* A deadline within the window length is moved Margin beyond it; a longer *)
(* one is kept, by however little it is longer.                            *)
ProofDeadline == IF mode.deadline <= BatchWindow THEN BatchWindow + Margin ELSE mode.deadline

BenchConfig ==
    [requireProof |-> TRUE, requiredProofType |-> Groth16, batchWindowMs |-> BatchWindow,
     proofDeadlineMs |-> ProofDeadline, proverAuthority |-> mode.prover]

BenchResult == [clearPrice |-> 1, totalVolume |-> 1, fillsHash |-> TheFills]
BenchHash(k) == PublicInputsHash(ClearHashV1, k, BenchResult)

(* A synthetic proof is bytes without an envelope; a groth16 proof of the  *)
(* preimage comes in a VZK2 envelope.                                      *)
Build(k) ==
    IF mode.proof = "synthetic"
    THEN [magic |-> "raw", sound |-> TRUE, type |-> 0, circuit |-> "", proves |-> NoHash]
    ELSE [magic |-> "VZK2", sound |-> TRUE, type |-> Groth16, circuit |-> ClearHashV1,
          proves |-> BenchHash(k)]

(* Half an envelope does not have the lengths of its header; the last byte *)
(* belongs to the public witness, which no longer carries the hash.        *)
TamperProofEnvelope(blob) ==
    CASE mode.tamper = "truncate" -> [blob EXCEPT !.sound = ~HasEnvelope(blob), !.proves = NoHash]
      [] mode.tamper = "flip-last-byte" -> [blob EXCEPT !.proves = NoHash]
      [] OTHER -> blob

(* The close of the window that the last accepted timestamp lies in. *)
WindowClose(ts) == IF ts - (ts % BatchWindow) <= 0 THEN ts ELSE ts - (ts % BatchWindow)

NothingPrepared == [readAt |-> 0, close |-> 0]

BenchInit ==
    /\ Init
    /\ mode \in [proof : ProofModes, tamper : TamperModes, prover : Provers,
                 deadline : DeadlineInputs, prefundOnly : BOOLEAN]
    /\ pc = "next" /\ at = 1 /\ job = "plan" /\ retried = FALSE /\ polls = 0
    /\ prepared = NothingPrepared
    /\ sent = <<>> /\ advanced = FALSE /\ applied = <<>>
-----------------------------------------------------------------------------
(* The client *)

NextStep ==
    /\ at' = at + 1
    /\ pc' = IF Current.op = "startup" /\ mode.prefundOnly THEN "prefunded"
             ELSE IF at = Len(Plan) THEN "done" ELSE "next"
    /\ retried' = FALSE

(* Fault: a step is also tried again when its result did not come in time. *)
RetriesAfter_Timeout(error) ==
    /\ job = "plan" /\ ~retried
    /\ IF Current.op = "config" THEN error = "unauthorized" /\ FallbackSigner # ZeroAddress
                                ELSE error \in {"fee", "timeout"} /\ HasRefuel

(* set_proof_config is tried again by another signer, any other step once  *)
(* the balance was looked at and, if need be, topped up; both only once,   *)
(* and not after a timeout.                                                *)
RetriesAfter(error) ==
    /\ job = "plan" /\ ~retried
    /\ IF Current.op = "config" THEN error = "unauthorized" /\ FallbackSigner # ZeroAddress
                                ELSE error = "fee" /\ HasRefuel

Failure(error) ==
    IF RetriesAfter(error)
    THEN /\ retried' = TRUE
         /\ pc' = "submit"
         /\ job' \in IF Current.op = "config" THEN {"plan"} ELSE {"plan", "refuel"}
    ELSE pc' = "failed" /\ UNCHANGED <<retried, job>>

(* Calls to the metrics of the node. *)
CallRpc ==
    /\ pc = "next" /\ Current.op \in Rpcs
    /\ NextStep
    /\ UNCHANGED <<vars, mode, job, polls, prepared, sent, advanced, applied>>

(* The timestamp is read before the proof is built; building takes time,   *)
(* and PROOF_SUBMIT_DELAY_MS more.                                         *)
Prove ==
    /\ pc = "next" /\ Current.op = "prove"
    /\ prepared' = [readAt |-> now, close |-> WindowClose(now)]
    /\ NextStep
    /\ UNCHANGED <<vars, mode, job, polls, sent, advanced, applied>>

(* The balance is enough for all that is planned, or it is topped up.      *)
(* Without a key for that, only a strict client gives up here.             *)
Startup ==
    /\ pc = "next" /\ Current.op = "startup"
    /\ \/ NextStep /\ UNCHANGED job
       \/ HasRefuel /\ job' = "refuel" /\ pc' = "submit" /\ UNCHANGED <<at, retried>>
    /\ UNCHANGED <<vars, mode, polls, prepared, sent, advanced, applied>>

(* The same for one transaction; set_proof_config goes without.            *)
Preflight ==
    /\ pc = "next" /\ IsTx(Current)
    /\ pc' = "submit"
    /\ job' \in IF HasRefuel /\ Current.op # "config" THEN {"plan", "refuel"} ELSE {"plan"}
    /\ UNCHANGED <<vars, mode, at, retried, polls, prepared, sent, advanced, applied>>

Signer ==
    IF Current.op # "config" THEN Client ELSE IF retried THEN FallbackSigner ELSE ConfigSigner

IsPending(t) == t.status = "pending"

SubmitTx ==
    /\ pc = "submit"
    /\ \/ /\ sent' = Append(SelectSeq(sent, IsPending),
                [at |-> at, job |-> job, signer |-> Signer, close |-> prepared.close,
                 status |-> "pending"])
          /\ pc' = "submitted"
          /\ UNCHANGED <<retried, job>>
       \/ Failure("fee") /\ UNCHANGED sent
    /\ UNCHANGED <<vars, mode, at, polls, prepared, advanced, applied>>

(* h0 is read when the transaction may already be in a block. *)
ReadHeight ==
    /\ pc = "submitted"
    /\ advanced' = FALSE
    /\ pc' = "height" /\ polls' = HeightPolls
    /\ UNCHANGED <<vars, mode, at, job, retried, prepared, sent, applied>>

(* Fault: the polls are not counted. *)
WaitForHeightAdvance_Unbounded ==
    /\ pc = "height"
    /\ IF advanced THEN pc' = "result" /\ polls' = ResultPolls
                   ELSE UNCHANGED <<pc, polls>>
    /\ UNCHANGED <<vars, mode, at, job, retried, prepared, sent, advanced, applied>>

WaitForHeightAdvance ==
    /\ pc = "height"
    /\ \/ /\ polls > 0 /\ advanced
          /\ pc' = "result" /\ polls' = ResultPolls
          /\ UNCHANGED <<retried, job>>
       \/ /\ polls > 0 /\ ~advanced
          /\ polls' = polls - 1
          /\ UNCHANGED <<pc, retried, job>>
       \/ polls = 0 /\ Failure("timeout") /\ UNCHANGED polls
    /\ UNCHANGED <<vars, mode, at, prepared, sent, advanced, applied>>

Succeeded(t) == t.status = "ok"

Unfound(t) == t.status \in {"pending", "expired"}

(* What SetProofConfig says to a signer other than governance. *)
ErrorOf(t) ==
    IF Current.op = "config" /\ HasProofConfig /\ t.signer # Governance
    THEN "unauthorized" ELSE "execution"

WaitForTxSuccess ==
    LET t == Last(sent) IN
    /\ pc = "result"
    /\ \/ /\ polls > 0 /\ Succeeded(t)
          /\ job' = "plan"
          /\ IF job = "plan" \/ Current.op = "startup" THEN NextStep
             ELSE pc' = "submit" /\ UNCHANGED <<at, retried>>
          /\ UNCHANGED polls
       \/ /\ polls > 0 /\ Unfound(t)
          /\ polls' = polls - 1
          /\ UNCHANGED <<pc, at, job, retried>>
       \/ polls > 0 /\ t.status = "failed" /\ Failure(ErrorOf(t)) /\ UNCHANGED <<at, polls>>
       \/ polls = 0 /\ Failure("timeout") /\ UNCHANGED <<at, polls>>
    /\ UNCHANGED <<vars, mode, prepared, sent, advanced, applied>>

(* A call to the node fails, a proof cannot be built, the top-up does not  *)
(* help, or the time of the whole run is over.                             *)
GiveUp ==
    /\ pc \notin Ended
    /\ pc' = "failed"
    /\ UNCHANGED <<vars, mode, at, job, retried, polls, prepared, sent, advanced, applied>>

ClientStep ==
    Startup \/ CallRpc \/ Prove \/ Preflight \/ SubmitTx \/ ReadHeight \/ WaitForHeightAdvance
       \/ WaitForTxSuccess
-----------------------------------------------------------------------------
(* The chain *)

Execute(t) ==
    LET step == Plan[t.at]
        k == step.k IN
    CASE t.job = "refuel" -> UNCHANGED vars
      [] step.op = "config" -> SetProofConfig(t.signer, BenchConfig)
      [] step.op = "create" -> CreateMarket(t.signer, k[1], 2, 1) /\ UNCHANGED gateVars
      [] step.op = "commit" -> CommitOrder(t.signer, k, TheOrder) /\ UNCHANGED gateVars
      [] step.op = "reveal" -> RevealBatch(k, 1, TheShare) /\ UNCHANGED gateVars
      [] step.op = "submit" ->
            SubmitBatchProof(t.signer, k, Groth16, t.close, TamperProofEnvelope(Build(k)),
                             BenchHash(k), TheFills)
      [] step.op = "clear" -> ClearBatch(t.signer, k, BenchResult)

Pending == {i \in 1 .. Len(sent) : IsPending(sent[i])}

(* A block with one of the transactions, which succeeds or fails. *)
AcceptBlock(i) ==
    /\ advanced' = TRUE
    /\ \/ /\ Execute(sent[i])
          /\ sent' = [sent EXCEPT ![i].status = "ok"]
          /\ applied' = IF sent[i].job = "plan" THEN Append(applied, sent[i].at) ELSE applied
       \/ /\ ~ENABLED Execute(sent[i])
          /\ sent' = [sent EXCEPT ![i].status = "failed"]
          /\ UNCHANGED <<vars, applied>>
    /\ UNCHANGED clientVars

(* A block without a transaction of the client. *)
AcceptOtherBlock ==
    /\ ~advanced /\ advanced' = TRUE
    /\ UNCHANGED <<vars, clientVars, sent, applied>>

(* A transaction that is not in a block in time never will be. *)
Expire(i) ==
    /\ sent' = [sent EXCEPT ![i].status = "expired"]
    /\ UNCHANGED <<vars, clientVars, advanced, applied>>

(* Time passes, a node restarts with another verifier, somebody resolves   *)
(* the market.                                                             *)
Environment ==
    /\ \/ Tick /\ UNCHANGED gateVars
       \/ \E cfg \in StartableConfigs : RestartNode(cfg)
       \/ \E m \in Markets : ResolveMarket(m, 0) /\ UNCHANGED gateVars
    /\ UNCHANGED <<clientVars, sent, advanced, applied>>

ChainStep ==
    \/ \E i \in Pending : AcceptBlock(i) \/ Expire(i)
    \/ AcceptOtherBlock
    \/ Environment

BenchNext == ClientStep \/ GiveUp \/ ChainStep

(* The client is one sequential process whose calls return or fail; of the *)
(* chain nothing is assumed.                                               *)
BenchSpec == BenchInit /\ [][BenchNext]_benchVars /\ WF_benchVars(ClientStep)
-----------------------------------------------------------------------------
TxSteps(n) == SelectSeq([i \in 1 .. n |-> i], LAMBDA i : IsTx(Plan[i]))

(* What the client did to the chain is always a prefix of its plan, up to  *)
(* the step it is at: no step happens twice or before the one it builds    *)
(* on, although blocks are late, transactions expire and steps are         *)
(* retried (submitSignedAction, submitAction).                             *)
AppliedInOrder ==
    applied = TxSteps(at - 1) \/ (at <= Len(Plan) /\ applied = TxSteps(at))

(* A client that writes its report has settled every window through the    *)
(* gate, with its own proof and its own result.                            *)
ReportedIsSettled ==
    pc = "done" =>
        \A i \in 1 .. Len(MarketSeq), w \in 1 .. WindowsPerSize :
            LET k == <<MarketSeq[i], w>> IN
            /\ settledBy[k] \in Gated /\ batch[k] = BenchResult
            /\ record[k].prover = Client /\ record[k].publicInputsHash = BenchHash(k)

(* How old the timestamp of a proof may be: the margin that loadConfig     *)
(* gives a deadline within the window length, or what a longer deadline    *)
(* leaves beyond that length, which may be less than the margin.           *)
Slack == IF mode.deadline <= BatchWindow THEN Margin ELSE mode.deadline - BatchWindow

(* The close time is computed from a timestamp that is old when the proof  *)
(* is executed.  A proof executed at most Slack after it is in time,       *)
(* wherever in the window the timestamp lies and whatever deadline the     *)
(* process was given: loadConfig keeps it beyond the window length.        *)
FreshProofInTime ==
    \A i \in Pending :
        /\ Plan[sent[i].at].op = "submit" /\ sent[i].job = "plan"
        /\ prepared.readAt >= BatchWindow /\ now - prepared.readAt <= Slack
        => ClosesWindow(sent[i].close) /\ InProofWindow(sent[i].close)

(* The negative runs of the launch gate rest on this: a node with a        *)
(* verifier never settles a window for a synthetic or tampered proof or    *)
(* for one of a client that is not the prover authority, also when the     *)
(* proof was recorded while no verifier was installed.                     *)
OnlyGenuineVerified ==
    \A k \in Batches :
        settledBy[k] = "verified" =>
            mode.proof = "groth16" /\ mode.tamper = "" /\ mode.prover = Client

(* Every run of the client ends, with a report or an error, whatever the   *)
(* chain does: all waits are bounded.                                      *)
BenchEnds == <>(pc \in Ended)
=============================================================================
