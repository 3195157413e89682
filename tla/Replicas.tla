------------------------------ MODULE Replicas -------------------------------
(***************************************************************************)
(* Validators that execute the same transactions, each with the verifier   *)
(* of its own process.  The chain state is common to the validators in     *)
(* step.  Only the transactions of the proof gate read the verifier, so    *)
(* only these can end differently on two validators; a block is accepted   *)
(* with the outcome that a quorum computed, and a validator that computed  *)
(* the other one has a state of its own and has parted from the chain      *)
(* (block acceptance is HyperSDK's, external).                             *)
(***************************************************************************)
EXTENDS Quorum, Integers

CONSTANTS
    Actors, Markets, Windows, Validators, DisputeIndex, Orders, Shares, Bonds,
    OutcomeCounts, InitialBalance, MaxTime,                      \* as in Market
    Governance, ZeroAddress, GenesisProofConfigs, ConfigInputs, NodeConfigs, Blobs,
    InputsHashes, CloseTimes, Prices, Volumes, FillsHashes, MaxInt64,  \* as in ProofGate
    Nodes,      \* the validators
    Quorums,    \* sets of validators whose agreement accepts a block
    Verifying   \* validators whose operators always start them with a verifier

ASSUME ReplicasAssumption ==
    /\ Quorums \in QuorumSystem(Nodes)
    /\ Verifying \subseteq Nodes

VARIABLES
    now, balance, market, commitment, oracle,                         \* as in Market
    proofConfig, record, vellum, glyph, bloodsworn, batch, settledBy, \* as in ProofGate
    fleet,   \* the verifier of each process
    parted   \* validators whose state differs from that of the chain

chainVars == <<now, balance, market, commitment, oracle,
               proofConfig, record, vellum, glyph, bloodsworn, batch, settledBy>>
replicaVars == <<chainVars, fleet, parted>>

(* The proof gate as validator n executes it. *)
Node(n) == INSTANCE ProofGate WITH verifier <- fleet[n]

InStep == Nodes \ parted
AnyNode == CHOOSE n \in Nodes : TRUE

ConfigsOf(n) ==
    {cfg \in Node(n)!StartableConfigs : n \in Verifying => cfg.enabled}

ReplicasInit ==
    /\ \E cfg \in [Nodes -> Node(AnyNode)!StartableConfigs] :
          /\ \A n \in Nodes : cfg[n] \in ConfigsOf(n)
          /\ fleet = [n \in Nodes |-> Node(n)!InstallBatchProofVerifier(cfg[n])]
    /\ parted = {}
    /\ Node(AnyNode)!Init
------------------------------------------------------------------------------
(* A transaction succeeds on the validators in yes and fails on the others *)
(* in step; without a quorum for either the block is not accepted.         *)
AcceptSuccess(yes) ==
    /\ yes \in Quorums
    /\ parted' = parted \cup (InStep \ yes)

AcceptFailure(yes) ==
    /\ yes # {} /\ InStep \ yes \in Quorums
    /\ parted' = parted \cup yes
    /\ UNCHANGED <<chainVars, fleet>>

SubmitBatchProof(a, k, t, c, b, h, f) ==
    LET yes == {n \in InStep : Node(n)!SubmitAllowed(a, k, t, c, b, h)} IN
    \/ /\ AcceptSuccess(yes)
       /\ UNCHANGED fleet
       /\ \E n \in yes : Node(n)!SubmitBatchProof(a, k, t, c, b, h, f)
    \/ AcceptFailure(yes)

ClearBatch(a, k, r) ==
    LET yes == {n \in InStep : Node(n)!ClearAllowed(a, k, r)} IN
    \/ /\ AcceptSuccess(yes)
       /\ UNCHANGED fleet
       /\ \E n \in yes : Node(n)!ClearBatch(a, k, r)
    \/ AcceptFailure(yes)

(* What does not read the verifier has one outcome everywhere. *)
CommonStep ==
    /\ UNCHANGED <<fleet, parted>>
    /\ \/ Node(AnyNode)!MarketStepOfGate
       \/ \E a \in Actors, cfg \in ConfigInputs : Node(AnyNode)!SetProofConfig(a, cfg)

(* A process comes up again; getting a parted validator back in step is    *)
(* left out.                                                               *)
RestartNode(n, cfg) ==
    /\ fleet' = [fleet EXCEPT ![n] = Node(n)!InstallBatchProofVerifier(cfg)]
    /\ UNCHANGED <<chainVars, parted>>

ReplicasNext ==
    \/ CommonStep
    \/ \E a \in Actors, k \in Node(AnyNode)!Batches, t \in Node(AnyNode)!ProofTypes,
          c \in CloseTimes, b \in Blobs, h \in InputsHashes, f \in FillsHashes :
          SubmitBatchProof(a, k, t, c, b, h, f)
    \/ \E a \in Actors, k \in Node(AnyNode)!Batches, r \in Node(AnyNode)!Results :
          ClearBatch(a, k, r)
    \/ \E n \in Nodes : \E cfg \in ConfigsOf(n) : RestartNode(n, cfg)

ReplicasSpec == ReplicasInit /\ [][ReplicasNext]_replicaVars
------------------------------------------------------------------------------
(* VEIL_ZK_CONSENSUS_4_6S_TRIAL_PROFILE.md, line 16, asks every validator  *)
(* to verify.  It is enough that every quorum has one that does: then what *)
(* the gate settles is proven by the blob stored for its window, whatever  *)
(* the others run with, and also when they restart or have parted.         *)
ProvenByQuorum ==
    (\A Q \in Quorums : Q \cap Verifying # {}) =>
        \A k \in Node(AnyNode)!Batches :
            settledBy[k] # "none" /\ settledBy[k] # "open" =>
                /\ k \in DOMAIN vellum
                /\ vellum[k].proves =
                      Node(AnyNode)!PublicInputsHash(Node(AnyNode)!CircuitOf(k), k, batch[k])

SameVerifier(V) ==
    \A m, n \in V : fleet[m].keys = fleet[n].keys /\ fleet[m].required = fleet[n].required

(* Line 18 of that profile: "Invalid/malformed proofs are rejected         *)
(* deterministically".  As long as the verifying validators in step have   *)
(* the same keys and the same required circuit, and are a quorum, none of  *)
(* them parts: strict or not, no proof and no clear ends differently on    *)
(* two of them, whatever was recorded under an earlier verifier, and       *)
(* validators without one cannot outvote them.                             *)
VerifyingStayInStep ==
    [][LET V == Verifying \ parted IN
       V \in Quorums /\ SameVerifier(V) => parted' \cap V = {}]_replicaVars

(* Record, blob and glyph of a window, written together by                 *)
(* SubmitBatchProof, never diverge, also when validators disagree on       *)
(* whether it succeeded (see ProofGate).                                   *)
ProofArtifactsAgree == Node(AnyNode)!ProofArtifactsAgree

(* The bloodsworn counters of a prover count exactly the windows whose     *)
(* stored proof is theirs, through changes of prover authority and         *)
(* disagreement among validators (see ProofGate).                          *)
BloodswornCounts == Node(AnyNode)!BloodswornCounts
------------------------------------------------------------------------------
(* The chain as a single node sees it that runs with the default           *)
(* configuration, hence without a verifier, and without the fixture key:   *)
(* it accepts whatever some verifier accepts, and cannot tell which        *)
(* results were verified.                                                  *)
DefaultConfig == [enabled |-> FALSE, strict |-> FALSE, keys |-> {}, required |-> ""]
NoVerifier == [installed |-> FALSE, strict |-> FALSE, keys |-> {}, required |-> ""]

SeenUnverified ==
    [k \in Node(AnyNode)!Batches |->
        IF settledBy[k] = "verified" THEN "unverified" ELSE settledBy[k]]

Lenient == INSTANCE ProofGate WITH
    verifier <- NoVerifier,
    settledBy <- SeenUnverified,
    NodeConfigs <- {DefaultConfig}

(* Whatever the validators run with, disagree on and restart with, the     *)
(* chain they agree on is that of one node: what ProofGate promises        *)
(* without a verifier, it promises of every mixed network.                 *)
ChainIsThatOfOneNode == Lenient!Spec
==============================================================================
