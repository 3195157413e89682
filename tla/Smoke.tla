-------------------------------- MODULE Smoke --------------------------------
(***************************************************************************)
(* The smoke test of the pool: a client that creates the pool, mints VAI,  *)
(* deposits and swaps on a live chain, looks at the pool in between, and   *)
(* reports.  It holds the key of governance and of the mint authority and  *)
(* is alone on the chain.                                                  *)
(*                                                                         *)
(* The client never learns what became of a transaction: after submitting  *)
(* it waits until some block is accepted, or gives up waiting, and goes    *)
(* on.  A transaction may be executed later, also during the next run.     *)
(***************************************************************************)
EXTENDS Pool, Sequences

CONSTANTS
    SmokeFee,  \* fee of the pool, 30 bips
    Deposit,   \* 10_000 of either asset
    SwapIn,    \* 100 VEIL
    MaxPolls,  \* 30 polls for the next height
    MaxRuns    \* bound: how often the tool is run

VARIABLES
    at,        \* index of the step in Plan
    phase,     \* "step", "sent", "wait" or "ended"
    polls,     \* polls of the present wait
    advanced,  \* a block was accepted after the height h0 was read
    sent,      \* transactions the node has and no block has yet
    report,    \* Report: pass, whether every Step passed, PoolAfter
    runs,      \* how often the tool has been started
    traded     \* history: executed since this run's query of the new pool

clientVars == <<at, phase, polls, report, runs>>
smokeVars == <<clientVars, advanced, sent, traded>>
chainVars == <<ledgerVars, vaiVars, poolVars>>

Kinds == {"create_pool", "mint_vai", "add_liquidity", "swap_veil_to_vai"}
Nothing == [kind \in Kinds |-> 0]

Plan ==
    <<"query_initial_balances", "create_pool", "query_pool_created", "mint_vai",
      "query_lp_before", "add_liquidity", "query_pool_after_liquidity",
      "swap_veil_to_vai", "verify_swap_invariants", "rpc_pool", "rpc_lpbalance">>

EmptyReport == [pass |-> FALSE, clean |-> TRUE, after |-> NoPool]

SmokeInit ==
    /\ LedgerInit /\ VaiInit /\ PoolInit
    /\ at = 1 /\ phase = "step" /\ polls = 0 /\ advanced = FALSE
    /\ sent = Nothing
    /\ report = EmptyReport
    /\ runs = 1
    /\ traded = Nothing
------------------------------------------------------------------------------
(* run returns: the report passes exactly when it returns no error. *)
Fail ==
    /\ phase' = "ended"
    /\ UNCHANGED <<at, polls, report, runs>>

(* The step is recorded, passed or not, and the next one begins. *)
Record(pass, after) ==
    /\ report' = [pass |-> at = Len(Plan), clean |-> report.clean /\ pass, after |-> after]
    /\ phase' = IF at = Len(Plan) THEN "ended" ELSE "step"
    /\ at' = IF at = Len(Plan) THEN at ELSE at + 1
    /\ UNCHANGED <<polls, runs>>

(* A call that fails ends the run; a transaction whose submission is       *)
(* reported as failed may have reached the node all the same.              *)
SubmitAction ==
    LET received == [sent EXCEPT ![Plan[at]] = @ + 1] IN
    /\ phase = "step" /\ Plan[at] \in Kinds
    /\ \/ sent' = received /\ phase' = "sent" /\ UNCHANGED <<at, polls, report, runs>>
       \/ sent' \in {sent, received} /\ Fail
    /\ UNCHANGED <<chainVars, advanced, traded>>

(* The height to compare with is read after the submission.  If that fails *)
(* it is zero, and any height will do.                                     *)
ReadHeight ==
    /\ phase = "sent"
    /\ phase' = "wait" /\ polls' = 0
    /\ advanced' \in BOOLEAN
    /\ UNCHANGED <<chainVars, at, report, runs, sent, traded>>

(* Fault: the client polls until a block comes. *)
WaitForInclusion_Unbounded ==
    /\ phase = "wait"
    /\ advanced
    /\ Record(TRUE, report.after)
    /\ UNCHANGED <<chainVars, advanced, sent, traded>>

(* A poll that fails counts as one that sees no new height.  Whatever the  *)
(* wait ends with, the step has passed.                                    *)
WaitForInclusion ==
    /\ phase = "wait"
    /\ \/ (advanced \/ polls = MaxPolls) /\ Record(TRUE, report.after)
       \/ polls < MaxPolls /\ polls' = polls + 1 /\ UNCHANGED <<at, phase, report, runs>>
    /\ UNCHANGED <<chainVars, advanced, sent, traded>>

(* Balances, and the shares before the deposit, are only printed; some of  *)
(* these queries may fail without consequence.                             *)
QueryBalances ==
    /\ phase = "step" /\ Plan[at] \in {"query_initial_balances", "query_lp_before"}
    /\ Record(TRUE, report.after)
    /\ UNCHANGED <<chainVars, advanced, sent, traded>>

IsNewPool == pool.feeBips = SmokeFee /\ pool.reserve0 = 0 /\ pool.reserve1 = 0

(* A pool that is not new fails the step, but not the run. *)
QueryPoolCreated ==
    /\ phase = "step" /\ Plan[at] = "query_pool_created"
    /\ PoolExists
    /\ Record(IsNewPool, report.after)
    /\ traded' = Nothing
    /\ UNCHANGED <<chainVars, advanced, sent>>

QueryPoolAfterLiquidity ==
    /\ phase = "step" /\ Plan[at] = "query_pool_after_liquidity"
    /\ PoolExists
    /\ IF pool.reserve0 > 0 /\ pool.reserve1 > 0 /\ pool.totalLP > 0
       THEN Record(TRUE, report.after) ELSE Fail
    /\ UNCHANGED <<chainVars, advanced, sent, traded>>

(* Fault: only the side that the swap pays in is looked at. *)
SwapOK_InOnly == pool.reserve0 > Deposit

SwapOK == pool.reserve0 > Deposit /\ pool.reserve1 < Deposit

VerifySwapInvariants ==
    /\ phase = "step" /\ Plan[at] = "verify_swap_invariants"
    /\ PoolExists
    /\ IF SwapOK THEN Record(TRUE, pool) ELSE Fail
    /\ UNCHANGED <<chainVars, advanced, sent, traded>>

RpcQueries ==
    /\ phase = "step"
    /\ \/ Plan[at] = "rpc_pool" /\ PoolExists /\ Record(TRUE, report.after)
       \/ Plan[at] = "rpc_lpbalance" /\ Record(lp[Governance] > 0, report.after)
    /\ UNCHANGED <<chainVars, advanced, sent, traded>>

(* The query of the server fails, for want of a pool or of a connection.   *)
QueryFails ==
    /\ phase = "step" /\ Plan[at] \notin Kinds /\ Plan[at] # "query_lp_before"
    /\ Fail
    /\ UNCHANGED <<chainVars, advanced, sent, traded>>

ClientStep ==
    \/ SubmitAction \/ ReadHeight \/ WaitForInclusion
    \/ QueryBalances \/ QueryPoolCreated \/ QueryPoolAfterLiquidity
    \/ VerifySwapInvariants \/ RpcQueries \/ QueryFails

(* The tool is run once more on the same chain. *)
Rerun ==
    /\ phase = "ended" /\ runs < MaxRuns
    /\ at' = 1 /\ phase' = "step" /\ polls' = 0
    /\ report' = EmptyReport
    /\ runs' = runs + 1
    /\ UNCHANGED <<chainVars, advanced, sent, traded>>
------------------------------------------------------------------------------
Tx(kind) ==
    \/ /\ kind = "create_pool"
       /\ CreatePool(Governance, AssetVEIL, AssetVAI, SmokeFee)
    \/ /\ kind = "mint_vai"
       /\ MintVAI(Governance, Governance, Deposit)
       /\ UNCHANGED poolVars
    \/ /\ kind = "add_liquidity"
       /\ AddLiquidity(Governance, AssetVEIL, AssetVAI, Deposit, Deposit, 1)
    \/ /\ kind = "swap_veil_to_vai"
       /\ SwapExactIn(Governance, AssetVEIL, AssetVAI, SwapIn, 1)

(* The chain (external) takes a transaction into a block, in any order; it *)
(* is executed or fails there, for its own reasons or for want of a fee.   *)
Include(kind) ==
    /\ sent[kind] > 0
    /\ sent' = [sent EXCEPT ![kind] = @ - 1]
    /\ advanced' = TRUE
    /\ \/ Tx(kind) /\ traded' = [traded EXCEPT ![kind] = @ + 1]
       \/ UNCHANGED <<chainVars, traded>>
    /\ UNCHANGED clientVars

(* A transaction expires. *)
Expire(kind) ==
    /\ sent[kind] > 0
    /\ sent' = [sent EXCEPT ![kind] = @ - 1]
    /\ UNCHANGED <<chainVars, clientVars, advanced, traded>>

(* Empty blocks advance the height as well. *)
AcceptEmptyBlock ==
    /\ ~advanced /\ advanced' = TRUE
    /\ UNCHANGED <<chainVars, clientVars, sent, traded>>

ChainStep == AcceptEmptyBlock \/ \E kind \in Kinds : Include(kind) \/ Expire(kind)

SmokeNext == ClientStep \/ Rerun \/ ChainStep

SmokeSpec ==
    /\ SmokeInit
    /\ [][SmokeNext]_<<chainVars, smokeVars>>
    /\ WF_<<chainVars, smokeVars>>(ClientStep)
------------------------------------------------------------------------------
(* A report in which every step has passed shows exactly the one deposit   *)
(* and the one swap of its plan, both executed after this run saw the pool *)
(* empty: although the client never learns the result of a transaction,    *)
(* compares with fixed amounts instead of the pool it saw before, and      *)
(* transactions of an earlier run may still arrive.                        *)
CleanReportMeansTraded ==
    phase = "ended" /\ report.pass /\ report.clean =>
        /\ traded["add_liquidity"] > 0 /\ traded["swap_veil_to_vai"] > 0
        /\ report.after.reserve0 = Deposit + SwapIn
        /\ report.after.reserve1 < Deposit

(* Every run of the tool ends, also when the chain accepts no block and    *)
(* takes no transaction any more.                                          *)
SmokeEnds == []<>(phase = "ended")
==============================================================================
