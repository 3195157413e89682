------------------------------- MODULE Genesis -------------------------------
(***************************************************************************)
(* From the genesis file to the first state: Load fills in defaults,       *)
(* InitializeState credits the allocations, validates and writes the       *)
(* configuration and the state of every economic component.  A node loads  *)
(* the file at every start and initializes the state once.                 *)
(***************************************************************************)
EXTENDS Integers, Sequences, Functions, ProofVerifier

CONSTANTS
    ZeroAddress,       \* the empty address
    Allocations,       \* allocation lists of the files tried
    TokenomicsInputs,  \* tokenomics sections tried, NoTokenomics included
    MaxUint64,         \* largest uint64
    BipsDenominator    \* 10_000

NoTokenomics == [present |-> FALSE]
Has(t) == t # NoTokenomics

VARIABLES
    phase,        \* "file", "loaded", "running" or "refused"
    allocations,  \* CustomAllocation: sequence of [address, balance]
    tokenomics,   \* Tokenomics of the loaded genesis
    balance,      \* balances, a function over the credited addresses
    config        \* the stored configuration and state, a record by key

genesisVars == <<phase, allocations, tokenomics, balance, config>>

Unwritten == [written |-> FALSE]

GenesisInit ==
    /\ phase = "file"
    /\ allocations \in Allocations
    /\ tokenomics \in TokenomicsInputs
    /\ balance = [a \in {} |-> 0]
    /\ config = Unwritten
-----------------------------------------------------------------------------
OrDefault(value, default) == IF value = 0 THEN default ELSE value

OrAddress(address, default) == IF address = ZeroAddress THEN default ELSE address

(* The first allocation takes the roles that nobody has. *)
DefaultAddress == IF allocations = <<>> THEN ZeroAddress ELSE allocations[1].address

NoFeeSplit(t) == t.msrbBips = 0 /\ t.colBips = 0 /\ t.opsBips = 0

(* Fault: the prover authority is taken from governance before governance  *)
(* has its own default.                                                    *)
DefaultProver_BeforeGovernance(t) == OrAddress(t.proverAuthority, t.governance)

DefaultProver(t) ==
    OrAddress(t.proverAuthority, OrAddress(t.governance, DefaultAddress))

ApplyTokenomicsDefaults(t) ==
    [t EXCEPT
       !.governance = OrAddress(@, DefaultAddress),
       !.operations = OrAddress(@, DefaultAddress),
       !.mintAuthority = OrAddress(@, DefaultAddress),
       !.maxReleaseBips = OrDefault(@, 15),
       !.releaseEpochSeconds = OrDefault(@, 86400),
       !.msrbBips = IF NoFeeSplit(t) THEN 7000 ELSE @,
       !.colBips = IF NoFeeSplit(t) THEN 2000 ELSE @,
       !.opsBips = IF NoFeeSplit(t) THEN 1000 ELSE @,
       !.mintEpochSeconds = OrDefault(@, 3600),
       !.epochMintLimit = OrDefault(@, t.debtCeiling),
       !.backingFloorBips = OrDefault(@, 10000),
       !.veilLtvBips = OrDefault(@, 3000),
       !.wVeilLtvBips = OrDefault(@, 3500),
       !.wsVeilLtvBips = 0,
       !.veilHaircutBips = OrDefault(@, 6000),
       !.wVeilHaircutBips = OrDefault(@, 5500),
       !.wsVeilHaircutBips = OrDefault(@, 10000),
       !.exogenousReserve = OrDefault(@, t.debtCeiling),
       !.requireProof = @ \/ t.requiredProofType = 0,
       !.requiredProofType = OrDefault(@, Groth16),
       !.batchWindowMs = OrDefault(@, 5000),
       !.proofDeadlineMs = OrDefault(@, 10000),
       !.proverAuthority = DefaultProver(t)]

Load ==
    /\ phase = "file"
    /\ phase' = "loaded"
    /\ tokenomics' = IF Has(tokenomics) THEN ApplyTokenomicsDefaults(tokenomics)
                     ELSE tokenomics
    /\ UNCHANGED <<allocations, balance, config>>
-----------------------------------------------------------------------------
AllocSum == SumFunction([i \in 1 .. Len(allocations) |-> allocations[i].balance])

(* Fault: the vault of live liquidity is left out of the sum. *)
ComputedSupply_LockedOnly(t) == AllocSum + t.colVaultLocked

(* Sums are checked for overflow; the partial sums only grow. *)
ComputedSupply(t) == AllocSum + t.colVaultLocked + t.colVaultLive

Bips(values) == \A v \in values : v <= BipsDenominator

(* Fault: the epoch limit is not compared with the ceiling. *)
ValidLimits_AnyEpochLimit(t) ==
    /\ t.releaseEpochSeconds > 0
    /\ t.maxReleaseBips # 0 /\ t.maxReleaseBips <= BipsDenominator
    /\ t.mintEpochSeconds > 0
    /\ t.debtCeiling # 0
    /\ t.epochMintLimit # 0

ValidLimits(t) ==
    /\ t.releaseEpochSeconds > 0
    /\ t.maxReleaseBips # 0 /\ t.maxReleaseBips <= BipsDenominator
    /\ t.mintEpochSeconds > 0
    /\ t.debtCeiling # 0
    /\ t.epochMintLimit # 0 /\ t.epochMintLimit <= t.debtCeiling

ValidRisk(t) ==
    /\ t.backingFloorBips # 0
    /\ t.wsVeilLtvBips = 0
    /\ Bips({t.veilLtvBips, t.wVeilLtvBips, t.wsVeilLtvBips})
    /\ Bips({t.veilHaircutBips, t.wVeilHaircutBips, t.wsVeilHaircutBips})

ValidProof(t) ==
    /\ t.requiredProofType \in ProofTypes
    /\ t.batchWindowMs > 0 /\ t.proofDeadlineMs > 0
    /\ t.proverAuthority # ZeroAddress

ValidateTokenomics(t) ==
    /\ ValidLimits(t) /\ ValidRisk(t) /\ ValidProof(t)
    /\ t.msrbBips + t.colBips + t.opsBips = BipsDenominator
    /\ ComputedSupply(t) <= MaxUint64
    /\ t.totalSupply # 0 => ComputedSupply(t) = t.totalSupply

(* What the storage functions write, key by key; the state of the fee      *)
(* router and of VAI starts at zero.  PutRiskConfig and PutProofConfig     *)
(* repeat ValidRisk and ValidProof, the other functions check nothing.     *)
Stored(t) ==
    [treasury |-> [governance |-> t.governance, operations |-> t.operations,
                   maxReleaseBips |-> t.maxReleaseBips,
                   releaseEpochSeconds |-> t.releaseEpochSeconds],
     vault |-> [locked |-> t.colVaultLocked, live |-> t.colVaultLive,
                released |-> 0, lastReleaseUnix |-> 0],
     feeRouter |-> [msrb |-> t.msrbBips, col |-> t.colBips, ops |-> t.opsBips],
     vai |-> [mintAuthority |-> t.mintAuthority, debtCeiling |-> t.debtCeiling,
              epochMintLimit |-> t.epochMintLimit, mintEpochSeconds |-> t.mintEpochSeconds],
     risk |-> [backingFloorBips |-> t.backingFloorBips,
               ltv |-> <<t.veilLtvBips, t.wVeilLtvBips, t.wsVeilLtvBips>>,
               haircut |-> <<t.veilHaircutBips, t.wVeilHaircutBips, t.wsVeilHaircutBips>>],
     reserve |-> [exogenous |-> t.exogenousReserve, vaiBuffer |-> t.vaiBuffer],
     proof |-> [requireProof |-> t.requireProof, requiredProofType |-> t.requiredProofType,
                batchWindowMs |-> t.batchWindowMs, proofDeadlineMs |-> t.proofDeadlineMs,
                proverAuthority |-> t.proverAuthority]]

(* The base genesis of the runtime adds every allocation to its address. *)
Credited ==
    [a \in {allocations[i].address : i \in 1 .. Len(allocations)} |->
        SumFunction([i \in {j \in 1 .. Len(allocations) : allocations[j].address = a}
                        |-> allocations[i].balance])]

Accepts == AllocSum <= MaxUint64 /\ (Has(tokenomics) => ValidateTokenomics(tokenomics))

(* The allocations are credited before the tokenomics are validated; on an *)
(* error the runtime (external) drops the view and the node does not start.*)
InitializeState ==
    /\ phase = "loaded"
    /\ IF Accepts
       THEN /\ phase' = "running"
            /\ balance' = Credited
            /\ config' = IF Has(tokenomics) THEN Stored(tokenomics) ELSE Unwritten
       ELSE /\ phase' = "refused"
            /\ UNCHANGED <<balance, config>>
    /\ UNCHANGED <<allocations, tokenomics>>

GenesisNext == Load \/ InitializeState

GenesisSpec == GenesisInit /\ [][GenesisNext]_genesisVars
-----------------------------------------------------------------------------
(* Everything the components take for granted holds in the state a chain   *)
(* starts from, whatever the file leaves out: the getters that validate    *)
(* what they read (GetFeeRouterConfig, GetRiskConfig, GetProofConfig)      *)
(* accept it, epochs have a length, the cap is a ratio, and no single      *)
(* epoch may mint more than the ceiling.                                   *)
StartsConfigured ==
    phase = "running" /\ config # Unwritten =>
        /\ config.feeRouter.msrb + config.feeRouter.col + config.feeRouter.ops = BipsDenominator
        /\ config.treasury.maxReleaseBips \in 1 .. BipsDenominator
        /\ config.treasury.releaseEpochSeconds > 0 /\ config.vai.mintEpochSeconds > 0
        /\ 1 <= config.vai.epochMintLimit /\ config.vai.epochMintLimit <= config.vai.debtCeiling
        /\ config.risk.backingFloorBips > 0 /\ config.risk.ltv[3] = 0
        /\ \A i \in 1 .. 3 : {config.risk.ltv[i], config.risk.haircut[i]}
                                \subseteq 0 .. BipsDenominator
        /\ config.proof.requiredProofType \in {Groth16, Plonk}
        /\ config.proof.batchWindowMs > 0 /\ config.proof.proofDeadlineMs > 0
        /\ config.proof.proverAuthority # ZeroAddress

(* The VEIL that exists after genesis, summed over the balances (several   *)
(* allocations may name one address) and the vault, fits in a uint64 and   *)
(* is the declared total supply when the file declares one.                *)
SupplyAsDeclared ==
    phase = "running" /\ config # Unwritten =>
        LET supply == SumFunction(balance) + config.vault.locked + config.vault.live IN
        /\ supply <= MaxUint64
        /\ tokenomics.totalSupply # 0 => supply = tokenomics.totalSupply

(* Filling in defaults is done once: the genesis that a node serves over   *)
(* RPC, loaded again, is the same genesis, so that a chain set up from it  *)
(* starts with the same configuration.                                     *)
LoadIsStable ==
    phase # "file" /\ Has(tokenomics) => ApplyTokenomicsDefaults(tokenomics) = tokenomics
=============================================================================
