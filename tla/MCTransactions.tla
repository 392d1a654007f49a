---------------------------- MODULE MCTransactions ----------------------------
(***************************************************************************)
(* Instances of what a request meets in the database layer, for TLC: its   *)
(* own transactions, who may use a draft, and the draft tables over the    *)
(* releases of the framework.  They share no state, so a behaviour is one  *)
(* of a single component, `part`; the others stay as they began.           *)
(***************************************************************************)
EXTENDS Transactions, TLC

CONSTANTS
    Call,                                       \* of DraftAccess
    AccessDraft, MaxRedeploys,                  \* its Draft and MaxDeploys
    Draft, Process, MaxRowWrites, MaxDeploys    \* of DraftStorage

VARIABLES
    part,                                       \* the component that runs
    config, restarts, access, call, reached,    \* of DraftAccess
    release, deploys, installed, ready, live,   \* of DraftStorage
    catalog, row, ledger, rowWrites, draft, overlooked

Access == INSTANCE DraftAccess WITH
    Draft <- AccessDraft, MaxDeploys <- MaxRedeploys, deploys <- restarts, draft <- access
Storage == INSTANCE DraftStorage WITH MaxWrites <- MaxRowWrites, written <- rowWrites

accessVars == <<config, restarts, access, call, reached>>
storageVars == <<release, deploys, installed, ready, live, catalog, row, ledger, rowWrites,
                 draft, overlooked>>
allVars == <<part, vars, accessVars, storageVars>>

Symmetry == Permutations(Call)

Parts == {"request", "access", "storage"}

LayerInit ==
    /\ part \in Parts
    /\ Init /\ Access!Init /\ Storage!Init
    \* a component that does not run starts in one state
    /\ part # "request" => /\ kind = "call" /\ tenant = NoTenant
                           /\ registry = [p \in Paths |-> "action"]
                           /\ queue = <<CHOOSE p \in Paths : TRUE>>
    /\ part # "access" => /\ \A name \in DOMAIN config : ~config[name]
                          /\ access = [d \in AccessDraft |-> Access!Unused]
    /\ part # "storage" => release = Storage!Current /\ ~live /\ catalog = "integer"

RequestStep == part = "request" /\ Next /\ UNCHANGED <<part, accessVars, storageVars>>
AccessStep == part = "access" /\ Access!Next /\ UNCHANGED <<part, vars, storageVars>>
StorageStep == part = "storage" /\ Storage!Next /\ UNCHANGED <<part, vars, accessVars>>

LayerNext == RequestStep \/ AccessStep \/ StorageStep
LayerSpec == LayerInit /\ [][LayerNext]_allVars

\* What a request writes, and the drafts it reaches, are those of its tenant, and
\* of the principal or with the leave of the host.
KeptApart == TenantsApart /\ (part = "access" => Access!DraftsKeptApart)

\* A draft from before an upgrade is read as it was written, and its publication
\* overlooks no canonical write.
UpgradeIsSafe == part = "storage" => Storage!UpgradeIsSafe
=============================================================================
