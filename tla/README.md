# TLA+ models and proofs for veilvm

veilvm is a HyperSDK virtual machine for prediction markets whose order batches
are settled with zero-knowledge proofs, together with a small economy: the VEIL
token, the VAI stablecoin, a VEIL/VAI pool, a fee router and a vault of
chain-owned liquidity (COL). This directory holds TLA+ models of its state
transitions, the TLC configurations that check them on small instances, and
TLAPS proofs of the results that matter most.

## 1. The system and its parts

A transaction carries one action. The runtime (HyperSDK, not in this
repository) deducts a fee, calls `Execute` of the action with the state, and
discards every write if `Execute` returns an error. Blocks carry timestamps that
never decrease. All state is a key-value store (`storage/storage.go`); the only
state of a process outside it is the installed proof verifier and the metrics
collector.

| Part | Source | Actions and operations |
|---|---|---|
| Market lifecycle | `actions/{create_market,commit_order,reveal_batch,resolve_market,dispute}.go` | create with a bond, commit an order, reveal a decryption share, resolve, dispute |
| Proof gate | `actions/{submit_batch_proof,clear_batch,set_proof_config,proof_hash,glyph}.go` | submit a proof, clear a window, configure |
| Envelope and verifier | `actions/proof_verifier.go`, `zk/verifier.go`, `vm/option.go` | parse, verify, install at start-up |
| Ledger | `actions/transfer.go`, `storage/balance_handler.go` | transfer, deduct fees |
| Stablecoin | `actions/{mint_vai,burn_vai,set_risk_params,update_reserve_state}.go` | mint, burn, risk and reserve parameters |
| Treasury | `actions/{route_fees,release_col_tranche}.go` | split fees, release COL |
| Pool | `actions/{create_pool,add_liquidity,remove_liquidity,swap_exact_in,amm_common}.go` | create, add, remove, swap |
| Metrics | `actions/zk_metrics.go` | record, reset, snapshot |
| Genesis | `genesis/genesis.go` | defaults, validation, initial state |
| State layout | `storage/storage.go` | keys, encoding, validation on read |
| RPC | `vm/server.go`, `vm/client.go` | read-only queries, backing ratio, trust score, metrics |
| VM assembly | `vm/vm.go`, `consts/` | registration of types |
| Circuits | `zk/*_circuit.go` | constraints for gnark |
| Benchmark client | `cmd/veilvm-zkbench` | drives the gate of a live chain and measures it |
| Smoke client | `cmd/veilvm-smoke` | creates the pool of a live chain, deposits, swaps and looks at it |
| Tools and scripts | other `cmd/`, `scripts/` | start-up, key and proof generation, deployment |

How they interact: market, proof gate, ledger, stablecoin, pool and treasury
share the VEIL balances; the gate reads the market status and the verifier of
the process; the pool holds VAI that the stablecoin counts as debt; genesis
fixes the configuration that the others read; metrics observe the market and
gate actions and are read by RPC only; the benchmark client drives the gate, and
the smoke client the pool, from outside, one transaction at a time. Every
validator executes every transaction, but the verifier is a variable of its
process: the gate is the one place where two validators can reach different
results.

## 2. Modules

| Module | Models | State |
|---|---|---|
| `Balances` | add and subtract on any balance map | none |
| `Market` | market lifecycle | `now`, `balance`, `market`, `commitment`, `oracle` |
| `ProofVerifier` | verification, what the circuits admit, start-up configuration | none (operators) |
| `Envelope` | building and parsing of VZK1 and VZK2 | none (operators) |
| `Server` | trust score and tier of a prover | none (operators) |
| `ProofGate` | proof gate, extends `Market` and `ProofVerifier` | `proofConfig`, `record`, `vellum`, `glyph`, `bloodsworn`, `batch`, `verifier`, history `settledBy` |
| `Replicas` | validators executing `ProofGate`, each with its own verifier | that of `ProofGate` once, `fleet`, `parted` |
| `Settlement` | abstract promise of the gate | `gate`, `claim`, `result` |
| `Ledger` | clock, balances, transfers, fees | `now`, `balance`, history `burned` |
| `Vai` | stablecoin and the `Reserve` query, extends `Ledger` | `vaiBalance`, `vaiState`, `risk`, `reserve`, history `mintedAt` |
| `Pool` | constant-product pool, extends `Vai` | `pool`, `lp` |
| `Treasury` | fee router and vault, extends `Ledger` | `feeRouter`, `treasury`, history `routed`, `releasedAt` |
| `Economy` | composition of `Pool`, `Treasury` and the bonds of `Market` | all of the above |
| `Genesis` | loading, defaults, validation and the initial state | `phase`, `allocations`, `tokenomics`, `balance`, `config` |
| `ZkMetrics` | the collector | `windows`, `order`, `summary`, history `evicted` |
| `Bench` | the benchmark client against the chain, extends `ProofGate` | `mode`, `pc`, `at`, `job`, `retried`, `polls`, `prepared`, `sent`, `advanced`, history `applied` |
| `Smoke` | the smoke client against the chain, extends `Pool` | `at`, `phase`, `polls`, `advanced`, `sent`, `report`, `runs`, history `traded` |
| `MarketProofs`, `ProofGateProofs`, `ReplicasProofs`, `TreasuryProofs`, `VaiProofs`, `PoolProofs`, `EconomyProofs` | proofs about the module of that name | |
| `SumProofs` | lemmas about sums over finite sets | |
| `MC*` | instances for TLC | |

Conventions.

- One action per successful `Execute`, its early returns as guards. A failing
  `Execute` changes nothing and is a stuttering step. The guards of the two actions that read
  the verifier are operators of their own (`SubmitAllowed`, `ClearAllowed`): `Replicas` asks
  with them on which validators a transaction succeeds.
- Each key prefix of the store is one variable; an absent key is `"none"`, zero,
  or a missing element of the domain, as the getter reports it.
- Definitions keep the names of the source. A definition named `X_Y` directly
  before `X` is a fault model of `X`: it is used by no specification and serves
  to confirm that the properties notice such a change.
- History variables record what the code does not keep, for stating properties;
  no guard reads one.

Abstractions. Questions, orders, shares, evidence and signatures are opaque:
no handler reads them back. Digests are injective. A proof blob is reduced to
what decides its fate: prefix, soundness of its header, type, circuit and the
public inputs hash it proves. The pairing checks of gnark are the field
`proves`; `GateAssumption` asks that a blob proves only what its circuit admits
(`Provable`, from the constraints in `zk/*_circuit.go`). In `Envelope` a blob is a
sequence, with one number for each field of the header. Timestamps are small
numbers and epochs are counted in them. Integers keep
their width where the code does not check for overflow: the deadline sum
(`AddInt64`), the products of the treasury (`WrapMul`), and the end of a mint or
release epoch (`WrapInt64`; the product with 1_000 and the sum wrap alike, so one
wrap of the exact value stands for both). The ratio of `Reserve` saturates as in the
code.
Products through `math/big` are exact, as in the code.

## 3. What the runs check

| Run | Module, configuration | Question |
|---|---|---|
| `market` | `MCMarket`, `MCMarket.cfg` | Does a market move one way, keep its evidence, and keep its dispute record although a share can be written under the same key? |
| `gate` | `MCProofGate`, `MCProofGate.cfg` | Under changes of configuration and restarts with another verifier, is what settles what the recorded proof binds, in either circuit, once and for all? Does the gate implement `Settlement`? Two `ASSUME`s of `MCEnvelope` compare building and parsing: what is built parses to what was put in, and an envelope has one encoding |
| `replicas` | `MCReplicas`, `MCReplicas.cfg` | When validators run with different verifiers and restart: is what settles proven, who can part from whom, do record, blob, glyph and counters of two windows and two provers agree, is the chain that of a single node? The `ASSUME` of `MCReplicas` says how the trust score follows the counters |
| `vai` | `MCVai`, `MCVai.cfg` | Mint rate over every span, for epochs whose end fits an int64; who can lose the backing, whether the rounded ratio of `Reserve` agrees with the exact check of `MintVAI` |
| `treasury` | `MCTreasury`, `MCTreasury.cfg` | Conservation with products that wrap; the release cap over every span as long as an epoch whose end fits an int64 |
| `pool` | `MCPool`, `MCPool.cfg` | Backing of shares, direction of rounding, conservation of both assets and of the debt; an `ASSUME` of `MCPool` compares `intSqrt` with its reference for the arguments of a byte (the largest, on which the code panics, excepted) |
| `economy` | `MCEconomy`, `MCEconomy.cfg` | The VEIL supply across all components |
| `genesis` | `MCGenesis`, `MCGenesis.cfg` | What a genesis that loads guarantees to the components |
| `metrics` | `ZkMetrics`, `MCZkMetrics.cfg` | Map, queue and summary through evictions; while there is room for all windows, do the rows of a snapshot, from which the benchmark draws its report, leave out anything that the summary counts? |
| `bench` | `MCBench`, `MCBench.cfg` | When the chain is late, drops transactions, changes verifier or market: does a step of the client take effect twice or out of order, what does a report mean, is a fresh proof in time for any configured deadline, does every run end? |
| `smoke` | `MCSmoke`, `MCSmoke.cfg` | The client never reads the result of a transaction: what does a report with every step passed mean, also on a chain that was smoked before? Does every run end? |

One run shows a disagreement between a document and the code.

- `gate_default_node`: `README.md:14` says that batches clear only with a valid
  proof verified at consensus. A node with the default configuration has no
  verifier and is not strict, and accepts every well-formed blob. `replicas` shows
  what is enough: one validator with a verifier in every quorum.

`VEIL_EXECUTION_PACKAGE.md:147-148` states the backing floor as an invariant. It
is enforced when VAI is minted; governance may lower the reserve or raise the
floor under outstanding debt. `BackingLostOnlyByGovernance` states what holds.

What the models make visible and no document speaks of:

- No action leads out of the status "disputed".
- The smoke client reports `pass` on a chain that was smoked before although the step
  that found the pool not new failed, which is why `CleanReportMeansTraded` asks for
  every step to have passed.
- Genesis accepts any positive epoch length. The end of a very long epoch wraps, and
  then the epoch does not bind: `MintRateBounded` and `ReleaseRateBounded` have
  `MintEpochFits` and `ReleaseEpochFits` as their precondition.
- The benchmark client moves a deadline within the window length a second beyond it,
  but keeps one that is a millisecond longer: how old a timestamp a proof may have
  (`Slack` of `FreshProofInTime`) then is that millisecond.
- While proofs are not required, a result that was settled with a proof can be
  overwritten (`SettleFreely` of `Settlement`).

### Bounds

Every bound is a constant of a `.cfg`.

- `MaxTime` bounds the clock: 4 for the gate is a window of 2 with close, deadline
  and one step beyond; 5 for `vai` and 4 for `treasury` hold two epochs of 2
  and their boundaries.
- Two actors are enough for every property: one with authority and one without.
- `gate` has one window, both circuits and all configurations, with volume zero,
  which one circuit admits and the other does not. `replicas` has two windows and
  two provers with fewer configurations, and three validators: two that always
  verify, hence a majority, and one with any configuration. The two may differ in
  the circuit they require, and a window in the circuit of its proof. Its clock ends
  where windows close; `gate` has the deadlines.
- `MaxProofBytesSize = 9` of `Envelope` lets envelopes with parts of different lengths
  be built, while the longest of the inputs are refused as oversize.
- `MaxInt64 = 7` and small `MaxUint64` bring the wrap-arounds within reach:
  a deadline of 7 overflows, a routed amount of 20 wraps at 128, deposits of 4 and
  4 exceed 15, a ratio above 20 saturates. The mint epochs of `vai` and the release
  epochs of `treasury` fit; those of `smoke` wrap. No run wraps the cap of a release; the
  lemma `BipsOfBound` says what a wrap does there.
- `metrics` has room for 2 of 3 windows, so windows are evicted and return;
  `MaxCalls` and `MaxObserved` bound the counters between resets.
- `bench` has one market and two windows, and polls once where the code polls 60
  or 120 times: one poll that fails and one that succeeds are all that the code
  tells apart. Its clock lets a proof be early, in time and late. Of its two
  deadlines one is moved by a margin of 2, and one is kept and leaves less than that.
- `smoke` runs the tool three times, so that transactions of one run arrive in the
  next, and polls once; its amounts are the least for which the fee leaves an
  output.
- The symmetry of `market` permutes the actors, which its properties treat alike;
  that of `replicas` the two validators that always verify (nothing depends on which
  validator `AnyNode` is: it stands for definitions that do not read the verifier).

`CHECK_DEADLOCK FALSE` appears where the bounded system may stop: a disputed
market at the last timestamp, balances that are used up, a genesis that is
running or refused, a client that has ended for the last time.

### Fairness

The VM only reacts to transactions; nobody is obliged to send one, so the models
of its actions have no fairness and no liveness property. What can be said
instead is that an obligation is never lost: `ClaimSurvives` states that a
result the gate would accept stays acceptable until configuration, verifier or
market change.

The two clients are the active processes. Each is a sequential program whose calls
return or fail (the smoke client's context expires after two minutes), so
`BenchSpec` and `SmokeSpec` have weak fairness on the client's steps; nothing is
assumed of the chain, which may stop. `BenchEnds` and `SmokeEnds` say that the
clients end nevertheless.

## 4. What is proved

All theorems hold for every value of the constants allowed by the named
assumptions in the component modules, which state what genesis validation and
the integer types guarantee: `MarketAssumption`, `GateAssumption`,
`LedgerAssumption` (finitely many actors, amounts within uint64),
`TreasuryAssumption`, `VaiAssumption`, `PoolAssumption`, `EconomyAssumption` (bonds
within uint64) and `ReplicasAssumption` (quorums intersect). Each invariant is shown
to hold initially and to survive every action, one step of the proof per action;
what has to be added to it to be inductive is named below.

`MarketProofs`
- `MarketTypes`: `MarketTypeOK` is inductive by itself.
- `DisputeRecordIsKept`: a market is disputed exactly when its dispute record is
  stored. The argument: `RevealBatch` may write the shared key only while the
  market is active, `Dispute` writes it only when leaving "resolved", and no
  action returns to "active". Inductive together with the types.
- `MarketsFollowLifecycle`, `EvidenceIsFrozen`: no step moves a market against its
  lifecycle, changes what it was created with, or touches orders and shares of a
  market that has left "active". Both are about single steps, from the types.

`ProofGateProofs`
- `GateTypes`: types, including that the stored proof configuration is valid.
- `GateKeepsMarket`: every behaviour of the gate is one of the market component, so
  the theorems of `MarketProofs` hold beside proofs, clears and restarts.
- `SettledIsProven`: a gated result is the one its window's recorded proof binds.
  Inductive together with the types: `SubmitBatchProof` refuses a second record, so
  no record under a settled result changes; `ClearBatch` stores only what
  `ProofAllows`. With a verifier, the lemma `ShieldedIsConstrained` turns what the
  circuit demands of a digest into a fact about the settled result.
- `GatedResultFinal`: while proofs are required no step changes a gated result.
  From the invariant and the injectivity of the digest: a second clear must bind
  the same hash, hence has the same result.
- `ArtifactsAgree`: record, blob and glyph of a window agree. Inductive with the types,
  and the invariant that the refinement below needs.
- `ProofsAreTimelyAndFinal`: a record is written between close and deadline and never
  replaced. `AddInt64Bound` says that a wrapped sum is only smaller.
- `ClaimsSurvive`, `SettlementsFreeze`: an acceptable result stays acceptable until
  configuration, verifier or market change; after the market has left "active" the
  result of a window does not change.
- `GateImplementsSettlement`: `Spec => ImplementsSettlement`, the refinement. Submitting
  is making a claim, clearing is settling it, and every other step changes the state
  of the gate or stutters. A claim is what the recorded hash binds; that it
  is unique is the injectivity of the digest.
- `CountsAreExact`: the counters of a prover are the number of windows whose record is
  theirs. `RecordsFromThePast` makes it inductive: the records are finitely many and
  none is from the future.

`ReplicasProofs`, for every set of validators and every quorum system
- `SettledIsProvenByQuorum`: with one verifying validator in every quorum, every window
  settled under the gate is proven by its blob. The inductive invariant `ProvenInv`
  adds that verifying validators have a verifier (`VerifiersUp`, through restarts) and
  that a settled window has a record, which keeps a later submission from
  replacing the blob.
- `VerifyingNeverPart`: verifying validators in step that are a quorum, with the same keys
  and required circuit, never part. `SameVerdict` says that such verifiers decide
  alike; `QuorumDecides` that whoever disagrees with a quorum loses, since quorums
  intersect.
- `NetworkIsOneGate`: the chain of a mixed network is one that a single node with the
  default configuration and no verifier could have produced: a second refinement,
  of `ProofGate` with no verifier substituted. So what `ProofGateProofs` shows of every
  configuration of a node is true of the network too; this last step is
  the substitution rule and is not itself a theorem here, because the prover
  cannot cite a theorem of an instance.

`SumProofs`
- Lemmas about `SumFunction` and `SumFunctionOnSet`: the fold is well defined, its choice
  of elements does not matter, changing one value moves the sum by the
  difference, a part has at most the sum of the whole. The library's induction
  principles cannot be instantiated by the provers; `SubsetInduction` states
  induction over finite sets for a set instead of a predicate.

`TreasuryProofs`
- `TreasuryTypes`, `FeesAreConserved`, `COLIsConserved` from the invariant
  `TreasuryInv`. The lemma `BipsOfBound` says that a share is at most its exact
  part, wrapped or not; `SharesSplit` concludes that the two rounded shares
  never exceed the amount, so the subtraction for the third does not wrap.
- `ReleaseRateIsBounded`: every span as long as an epoch sees at most one tranche within
  the cap. `TranchesApart` makes it inductive: tranches are capped, none is later than
  the stored time of the last one, and any two are an epoch apart. `ReleaseEndFits`
  says that the end of an epoch that fits is exact, and `ReleasesApart` asks for
  `TranchesApart` only then.

`VaiProofs`
- `VaiTypes`: types, including that the stored risk configuration is valid.
- `MintRateIsBounded`: no span as long as an epoch sees more than two limits minted.
  An epoch starts with the first mint after the last one has ended, so spans and epochs are
  not aligned. `RateInv` adds that all that was minted lies before the end of the open
  epoch, and that the span that ends where it starts saw at most one limit; `MintRateInv`
  asks for it where epochs fit (`MintEndFits`).
- `OnlyGovernanceLosesBacking`: `BackingLostOnlyByGovernance`, from the types:
  `MintVAI` checks the debt after the mint, and burning lowers a product.
- `ReserveReplyIsTrue`: `ReserveReplyAgrees`. The lemma `QuotientReaches` says that a
  quotient rounded down reaches a bound exactly when the product does;
  `ReplyAgrees` adds that saturation cannot hide it, since the floor is itself
  within uint64.

`PoolProofs`
- `IntSqrtIsFloorRoot`: the iteration of `intSqrt` computes the square root rounded down
  for every natural number. `EstimateStep`: an estimate above the root improves and
  never falls below it. The model has no width here; the largest uint64, on which
  the code panics, is left to section 3.
- `SharesStayBacked`, `AssetsAreConserved`, `ShareValueHolds`, `HoldersCanBurn`. Every action on
  the pool is first shown to be an `Exchange`: an actor pays VEIL and VAI for shares
  or is paid for them, sums stay within uint64, and the product of the reserves per
  squared share does not fall. The rest is proved once, of `Exchange`. The inductive invariant
  `PoolInv` is types, backing, and `Counted`: every share is held by somebody, and every unit
  of VAI is held or in the pool.

`EconomyProofs`
- `PartsKeepTheirPromises`, `ValueIsKept`: what pool, stablecoin, fee router and vault
  promise holds when they share balances with transfers, fees and bonds. `Parts` is the
  conjunction of their invariants; two frame lemmas say that steps of the others
  only touch the balances and the clock.
- `SupplyIsFixed`: no interleaving creates VEIL or loses track of it. `EconomyInv` adds
  to `Parts` that the supply, summed over actors, pool, treasury and what was burned,
  is that of genesis.

Only model-checked:
- `BenchEnds` and `SmokeEnds`, since liveness under fairness is out of the prover's
  reach, and, so far, the other properties of the two clients;
- so far, the properties of `ZkMetrics` and `Genesis`;
- what building and parsing of envelopes and the trust score compute: `ASSUME`s over
  bounded inputs, evaluated by TLC.

## 5. What is not modelled

- HyperSDK: block building, parallel execution, permissions and chunk limits of
  state keys, fee rates. Taken from it: writes of a failing `Execute` are
  discarded, timestamps do not decrease, and declared keys may be written.
- Byte layouts of keys, records and transactions.
- The arithmetic inside the circuits and the cryptography of gnark.
- How a validator whose state differs from the chain's gets back in step.
- RPC queries other than `Reserve` and `Bloodsworn`: they copy the fields of one
  record of an immutable view. The two calls that touch the collector are actions
  of `ZkMetrics`.
- Decryption shares as a quorum: `ClearBatch` never reads a share.
- The amounts of fees and top-ups, the files and the statistics of the clients;
  the other tools, scripts, VM assembly: input, output and static tables.

## 6. Plan

1. Core (done): market, proof gate with verifier, abstract settlement, ledger,
   stablecoin, treasury, pool, economy, genesis, metrics, benchmark client.
2. Extended (done): validators with different verifiers, envelopes, circuit
   constraints, trust score, `Reserve` query, smoke client.
3. Proved (done): every safety and action property of market, gate, validators,
   stablecoin, treasury, pool and economy; both refinements; sums and `intSqrt`.
4. Prove next: `QueueMatchesMap`, `CommitTimesOrdered`, `SnapshotIsComplete` of the
   metrics, what a loaded genesis guarantees, and the safety properties of the clients.

## 7. Running

    tlc -config MCMarket.cfg MCMarket      # and so on, see the table
    tlapm MarketProofs.tla                 # and the other proof modules
