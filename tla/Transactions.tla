---------------------------- MODULE Transactions ----------------------------
(***************************************************************************)
(* One request through the tracked database layer: `app.call`, and         *)
(* `applyCommands` in its three forms (a commit of its own, a savepoint in *)
(* the transaction of a host, a preview that is rolled back).  A request   *)
(* has trackers of its own, so one request is modelled; what it shares     *)
(* with the rest of the process is the function registry, which is a       *)
(* public, mutable Map.                                                    *)
(*                                                                         *)
(* Handlers are arbitrary programs over the restricted database surface:   *)
(* they write, open transactions, catch what a transaction throws, throw.  *)
(***************************************************************************)
EXTENDS Naturals, FiniteSets, Sequences, SequencesExt

CONSTANTS
    Tables,         \* the tables handlers write
    TenantTables,   \* those declared with a tenancy capability
    Tenants,        \* tenant ids the host may resolve
    NoTenant,       \* `noTenantScope`
    Paths,          \* paths of the function registry
    MaxWrites,      \* bound: statements of one request
    MaxDepth,       \* bound: trackers nested in one another
    MaxCommands,    \* bound: commands of a batch
    MaxSwaps        \* bound: replacements in the registry

ASSUME TransactionsAssumption ==
    /\ TenantTables \subseteq Tables
    /\ NoTenant \notin Tenants
    /\ {MaxWrites, MaxDepth, MaxCommands, MaxSwaps} \subseteq Nat

Scopes == Tenants \cup {NoTenant}
Kinds == {"call", "commit", "outer", "preview"}
Types == {"mutation", "action"}
Writes == [n : 1..MaxWrites, table : Tables, tenant : Scopes, by : {"handler", "host"}]

\* The tag a write adds: `tableTrackingTag`, the table and, if it has one, the
\* tenant of the handle.
Tag(w) == <<w.table, IF w.table \in TenantTables THEN w.tenant ELSE NoTenant>>
Tags(ws) == {Tag(w) : w \in ws}

VARIABLES
    kind,       \* what the request is
    phase,      \* how far it is
    tenant,     \* the tenant of its context
    registry,   \* path -> type
    swaps,      \* replacements made in it
    queue,      \* commands not yet dispatched
    running,    \* type of the function whose handler runs, or "none"
    stack,      \* the nested trackers, the request's own first
    throwing,   \* an exception is on its way up
    written,    \* statements executed
    durable,    \* writes that are committed
    emitted,    \* tags given to the invalidation source
    reported,   \* `tablesWritten` of the result
    reply,      \* how the request, or its batch, was answered
    ackLost,    \* a COMMIT took effect and its answer was lost
    batch       \* history: writes of the batch that no handler rolled back

request == <<kind, tenant>>
vars == <<kind, phase, tenant, registry, swaps, queue, running, stack, throwing,
          written, durable, emitted, reported, reply, ackLost, batch>>

-----------------------------------------------------------------------------
(* Trackers: the request's own commits each statement by itself, every     *)
(* other one is a transaction or a savepoint in the one below it.          *)

\* `createDrizzleTracker`: fresh tag sets over a handle.
Tracker(role, scope) == [role |-> role, scope |-> scope, dirty |-> {}, tags |-> {}]

Depth == Len(stack)
Top == Last(stack)
InTransaction == Depth > 1
\* The tracker whose transaction is the native one.
Native == Depth = 2

\* A statement of the innermost tracker succeeded.
Executed(w) ==
    IF InTransaction
    THEN /\ stack' = [stack EXCEPT ![Depth].dirty = @ \cup {w}, ![Depth].tags = @ \cup {Tag(w)}]
         /\ UNCHANGED durable
    ELSE /\ stack' = [stack EXCEPT ![1].tags = @ \cup {Tag(w)}]
         /\ durable' = durable \cup {w}

\* `transaction()` resolved: what is pending goes to the transaction around it,
\* or to the database, and only then do the tags go to the tracker around it.
Merged ==
    IF Native
    THEN /\ stack' = <<[stack[1] EXCEPT !.tags = @ \cup Top.tags]>>
         /\ durable' = durable \cup Top.dirty
    ELSE /\ stack' = [Front(stack) EXCEPT ![Depth - 1].dirty = @ \cup Top.dirty,
                                          ![Depth - 1].tags = @ \cup Top.tags]
         /\ UNCHANGED durable

\* Seeded fault: a nested tracker shares the tag sets of the one around it.
SharedRollback ==
    stack' = [Front(stack) EXCEPT ![Depth - 1].tags = @ \cup Top.tags]

\* `transaction()` rejected: nothing is merged.
RolledBack == stack' = Front(stack)

Init ==
    /\ kind \in Kinds /\ phase = "start" /\ tenant \in Scopes
    /\ registry \in [Paths -> Types] /\ swaps = 0
    /\ queue \in IF kind = "call" THEN [1..1 -> Paths] ELSE UNION {[1..n -> Paths] : n \in 1..MaxCommands}
    /\ running = "none" /\ stack = <<Tracker("request", NoTenant)>> /\ throwing = FALSE
    /\ written = 0 /\ durable = {} /\ emitted = {} /\ reported = {} /\ reply = "none"
    /\ ackLost = FALSE /\ batch = {}

-----------------------------------------------------------------------------
(* Before the handlers.                                                    *)

\* The host of an outer batch opens its transaction, on a handle it may have
\* scoped, to the tenant of the request or to another one.
HostOpens ==
    /\ kind = "outer" /\ phase = "start"
    /\ \E scope \in Scopes :
           stack' = <<Tracker("request", scope), Tracker("host", scope)>>
    /\ phase' = "host"
    /\ UNCHANGED <<request, registry, swaps, queue, running, throwing, written, durable,
                   emitted, reported, reply, ackLost, batch>>

\* `executeCommands` looks at every command before it opens or joins anything.
Scan ==
    /\ ~throwing
    /\ \/ kind \in {"commit", "preview"} /\ phase = "start"
       \/ kind = "outer" /\ phase = "host"
    /\ IF \E i \in DOMAIN queue : registry[queue[i]] = "action"
       THEN /\ reply' = "refused"
            /\ throwing' = (kind = "outer")
            /\ phase' = IF kind = "outer" THEN "after" ELSE "done"
       ELSE phase' = "scope" /\ UNCHANGED <<reply, throwing>>
    /\ UNCHANGED <<request, registry, swaps, queue, running, stack, written, durable,
                   emitted, reported, ackLost, batch>>

\* The scope a handle gets, if any: `withTenant` refuses to change one.
ScopeResolved(scope) ==
    IF tenant = NoTenant THEN {scope} ELSE IF scope \in {NoTenant, tenant} THEN {tenant} ELSE {}

\* `scopeTracked`: the host resolves the tenant (or has none), or fails to.
\* A handle that is scoped to it shares the tag sets of the one it came from.
ResolveScope ==
    /\ \/ phase = "scope"
       \/ kind = "call" /\ phase = "start"
    /\ \/ /\ \E scope \in ScopeResolved(Top.scope) :
                 LET bound == [stack EXCEPT ![Depth].scope = scope]
                 IN  stack' = CASE kind = "call"  -> bound
                                [] kind = "outer" -> Append(stack, Tracker("batch", scope))
                                [] OTHER          -> Append(bound, Tracker("batch", scope))
          /\ phase' = "run"
          /\ UNCHANGED <<reply, throwing>>
       \/ /\ reply' = "failed" /\ throwing' = (kind = "outer")
          /\ phase' = IF kind = "outer" THEN "after" ELSE "done"
          /\ UNCHANGED stack
    /\ UNCHANGED <<request, registry, swaps, queue, running, written, durable, emitted,
                   reported, ackLost, batch>>

\* Anybody who has the app may replace a function.
ReplaceFunction(p) ==
    /\ swaps < MaxSwaps /\ phase # "done"
    /\ registry' = [registry EXCEPT ![p] = IF @ = "action" THEN "mutation" ELSE "action"]
    /\ swaps' = swaps + 1
    /\ UNCHANGED <<request, phase, queue, running, stack, throwing, written, durable, emitted,
                   reported, reply, ackLost, batch>>

-----------------------------------------------------------------------------
(* Handlers.                                                               *)

\* Seeded fault: the scan before the transaction is thought to be enough.
DispatchNeverRefused(p) == FALSE

\* A batch looks again, in the same turn as it dispatches.
DispatchRefused(p) == kind # "call" /\ registry[p] = "action"
Dispatch ==
    /\ phase = "run" /\ running = "none" /\ queue # <<>> /\ ~throwing
    /\ IF DispatchRefused(Head(queue))
       THEN throwing' = TRUE /\ UNCHANGED <<running, queue>>
       ELSE running' = registry[Head(queue)] /\ queue' = Tail(queue) /\ UNCHANGED throwing
    /\ UNCHANGED <<request, phase, registry, swaps, stack, written, durable, emitted, reported,
                   reply, ackLost, batch>>

\* Who may issue statements: a handler, or the host around the batch.
Author ==
    IF running # "none" THEN "handler"
    ELSE IF phase \in {"host", "after"} THEN "host" ELSE "nobody"

\* `requireTenantScope`, `assertTenantInput`: a tenant table needs a scoped
\* handle, and nobody supplies its tenant column.
WriteRefused(t, supplied) == t \in TenantTables /\ (Top.scope = NoTenant \/ supplied)

\* A tracked insert, update or delete.
Write(t) ==
    /\ Author # "nobody" /\ ~throwing /\ written < MaxWrites
    /\ written' = written + 1
    /\ LET w == [n |-> written + 1, table |-> t, by |-> Author,
                 tenant |-> IF t \in TenantTables THEN Top.scope ELSE NoTenant]
       IN  \/ /\ ~WriteRefused(t, FALSE)
              /\ Executed(w)
              /\ batch' = IF Author = "handler" THEN batch \cup {w} ELSE batch
              /\ UNCHANGED throwing
           \/ /\ \E supplied \in BOOLEAN : WriteRefused(t, supplied)
              /\ throwing' = TRUE /\ UNCHANGED <<stack, durable, batch>>
    /\ UNCHANGED <<request, phase, registry, swaps, queue, running, emitted, reported, reply, ackLost>>

\* `ctx.db.transaction`: the tracker inside has the scope of the one around it.
HandlerOpens ==
    /\ running # "none" /\ ~throwing /\ Depth < MaxDepth
    /\ stack' = Append(stack, Tracker("handler", Top.scope))
    /\ UNCHANGED <<request, phase, registry, swaps, queue, running, throwing, written, durable,
                   emitted, reported, reply, ackLost, batch>>

\* Its callback returns.  A savepoint is released; a COMMIT may also fail, or
\* take effect without its answer arriving.
HandlerCloses ==
    /\ running # "none" /\ ~throwing /\ Top.role = "handler"
    /\ \/ Merged /\ UNCHANGED <<throwing, ackLost, batch>>
       \/ /\ Native /\ throwing' = TRUE
          /\ \/ durable' = durable \cup Top.dirty /\ ackLost' = TRUE /\ UNCHANGED batch
             \/ batch' = batch \ Top.dirty /\ UNCHANGED <<durable, ackLost>>
          /\ RolledBack
    /\ UNCHANGED <<request, phase, registry, swaps, queue, running, written, emitted, reported, reply>>

\* A handler or the host throws: a statement fails, external work fails, ...
Throw ==
    /\ Author # "nobody" /\ ~throwing /\ throwing' = TRUE
    /\ UNCHANGED <<request, phase, registry, swaps, queue, running, stack, written, durable,
                   emitted, reported, reply, ackLost, batch>>

\* What a transaction of the handler throws is caught outside it, or not.
HandlerUnwinds ==
    /\ throwing /\ Top.role = "handler"
    /\ RolledBack
    /\ batch' = batch \ Top.dirty
    /\ throwing' \in BOOLEAN
    /\ UNCHANGED <<request, phase, registry, swaps, queue, running, written, durable, emitted,
                   reported, reply, ackLost>>

HandlerReturns ==
    /\ running # "none" /\ ~throwing /\ Top.role # "handler" /\ kind # "call"
    /\ running' = "none"
    /\ UNCHANGED <<request, phase, registry, swaps, queue, stack, throwing, written, durable,
                   emitted, reported, reply, ackLost, batch>>

-----------------------------------------------------------------------------
(* The end of `app.call`: the `finally` emits whatever was committed.      *)

\* Seeded fault: only a call that succeeds emits.
CallEndsQuietly ==
    /\ kind = "call" /\ phase = "run" /\ Depth = 1 /\ (throwing \/ running # "none")
    /\ emitted' = IF throwing THEN emitted ELSE emitted \cup Top.tags
    /\ reported' = IF throwing THEN {} ELSE Top.tags
    /\ reply' = IF throwing THEN "failed" ELSE "answered"
    /\ phase' = "done" /\ running' = "none" /\ throwing' = FALSE
    /\ UNCHANGED <<request, registry, swaps, queue, stack, written, durable, ackLost, batch>>

CallEnds ==
    /\ kind = "call" /\ phase = "run" /\ Depth = 1 /\ (throwing \/ running # "none")
    /\ emitted' = emitted \cup Top.tags
    /\ reported' = IF throwing THEN {} ELSE Top.tags
    /\ reply' = IF throwing THEN "failed" ELSE "answered"
    /\ phase' = "done" /\ running' = "none" /\ throwing' = FALSE
    /\ UNCHANGED <<request, registry, swaps, queue, stack, written, durable, ackLost, batch>>

-----------------------------------------------------------------------------
(* The end of a batch.                                                     *)

AllApplied == phase = "run" /\ queue = <<>> /\ running = "none" /\ ~throwing /\ Top.role = "batch"

\* A batch of its own commits: what it reports is read from the request's
\* tracker, after the merge.
BatchCommits ==
    /\ AllApplied /\ kind = "commit"
    /\ \/ /\ Merged /\ reply' = "committed"
          /\ reported' = Last(stack').tags
          /\ UNCHANGED <<ackLost, batch>>
       \/ /\ reply' = "failed" /\ RolledBack /\ UNCHANGED reported
          /\ \/ durable' = durable \cup Top.dirty /\ ackLost' = TRUE /\ UNCHANGED batch
             \/ UNCHANGED <<durable, ackLost, batch>>
    /\ phase' = "done"
    /\ UNCHANGED <<request, registry, swaps, queue, running, throwing, written, emitted>>

\* Seeded fault: read from the host's tracker, after the merge.
HostTags == Top.tags \cup stack[Depth - 1].tags

\* A savepoint of the host's transaction is released: what it reports was read
\* from the tracker inside.
SavepointTags == Top.tags
BatchJoins ==
    /\ AllApplied /\ kind = "outer"
    /\ Merged /\ reply' = "committed" /\ reported' = SavepointTags
    /\ phase' = "after"
    /\ UNCHANGED <<request, registry, swaps, queue, running, throwing, written, emitted, ackLost, batch>>

\* Seeded fault: the preview returns instead of throwing.
PreviewCommits ==
    /\ AllApplied /\ kind = "preview"
    /\ Merged /\ reply' = "previewed" /\ reported' = SavepointTags
    /\ phase' = "done"
    /\ UNCHANGED <<request, registry, swaps, queue, running, throwing, written, emitted, ackLost, batch>>

\* A preview throws its sentinel, which carries the tags of the tracker inside.
PreviewEnds ==
    /\ AllApplied /\ kind = "preview"
    /\ RolledBack /\ reply' = "previewed" /\ reported' = SavepointTags
    /\ phase' = "done"
    /\ UNCHANGED <<request, registry, swaps, queue, running, throwing, written, durable, emitted,
                   ackLost, batch>>

\* Seeded fault: an outer batch runs on the host's own tracker, so that its
\* failure leaves what it wrote to the host's transaction.
BatchFailsInPlace ==
    /\ throwing /\ Top.role = "batch"
    /\ stack' = [Front(stack) EXCEPT ![Depth - 1].dirty = @ \cup Top.dirty]
    /\ reply' = "failed" /\ running' = "none"
    /\ phase' = IF kind = "outer" THEN "after" ELSE "done"
    /\ throwing' = (kind = "outer")
    /\ UNCHANGED <<request, registry, swaps, queue, written, durable, emitted, reported, ackLost, batch>>

\* A command failed: the whole batch is rolled back.
BatchFails ==
    /\ throwing /\ Top.role = "batch"
    /\ RolledBack /\ reply' = "failed" /\ running' = "none"
    /\ phase' = IF kind = "outer" THEN "after" ELSE "done"
    /\ throwing' = (kind = "outer")
    /\ UNCHANGED <<request, registry, swaps, queue, written, durable, emitted, reported, ackLost, batch>>

\* The host catches what the batch threw and goes on with its transaction ...
HostCatches ==
    /\ phase = "after" /\ throwing /\ reply \in {"failed", "refused"} /\ throwing' = FALSE
    /\ UNCHANGED <<request, phase, registry, swaps, queue, running, stack, written, durable,
                   emitted, reported, reply, ackLost, batch>>

\* ... which it commits, or which is rolled back.
HostEnds ==
    /\ Top.role = "host" /\ phase \in {"host", "after"}
    /\ \/ ~throwing /\ phase = "after" /\ Merged /\ UNCHANGED reply
       \/ throwing /\ RolledBack /\ reply' = "failed" /\ UNCHANGED durable
    /\ phase' = "done" /\ throwing' = FALSE
    /\ UNCHANGED <<request, registry, swaps, queue, running, written, emitted, reported, ackLost, batch>>

Next ==
    \/ HostOpens \/ Scan \/ ResolveScope \/ (\E p \in Paths : ReplaceFunction(p))
    \/ Dispatch \/ (\E t \in Tables : Write(t)) \/ HandlerOpens \/ HandlerCloses
    \/ Throw \/ HandlerUnwinds \/ HandlerReturns \/ CallEnds
    \/ BatchCommits \/ BatchJoins \/ PreviewEnds \/ BatchFails \/ HostCatches \/ HostEnds

Spec == Init /\ [][Next]_vars

-----------------------------------------------------------------------------
Frames == [role : {"request", "host", "batch", "handler"}, scope : Scopes,
           dirty : SUBSET Writes, tags : SUBSET (Tables \X Scopes)]

\* Every variable holds a value of its type.
TypeOK ==
    /\ kind \in Kinds /\ phase \in {"start", "host", "scope", "run", "after", "done"}
    /\ tenant \in Scopes /\ registry \in [Paths -> Types] /\ swaps \in 0..MaxSwaps
    /\ queue \in Seq(Paths) /\ running \in Types \cup {"none"} /\ throwing \in BOOLEAN
    /\ stack \in Seq(Frames) /\ Depth >= 1
    /\ written \in 0..MaxWrites /\ durable \subseteq Writes /\ batch \subseteq Writes
    /\ emitted \subseteq Tables \X Scopes /\ reported \subseteq Tables \X Scopes
    /\ reply \in {"none", "answered", "committed", "previewed", "refused", "failed"}
    /\ ackLost \in BOOLEAN

\* A call emits the tags of exactly the writes it committed: those of an action
\* that failed after a commit, none of a transaction that was rolled back.  (If
\* the answer to a COMMIT was lost, the writes are there and their tags are not.)
EmitsWhatCommitted ==
    /\ emitted \subseteq Tags(durable)
    /\ kind = "call" /\ phase = "done" /\ ~ackLost => emitted = Tags(durable)

\* The writes of a batch are committed together or not at all, and those of a
\* preview never are, whatever its handlers, or the host around it, catch.
BatchIsAllOrNothing ==
    kind # "call" =>
        LET done == {w \in durable : w.by = "handler"}
        IN  /\ done \in {{}, batch}
            /\ phase = "done" /\ ~ackLost => (done # {} <=> reply = "committed" /\ batch # {})

\* What a batch reports is what its commands wrote: nothing that a handler
\* rolled back, nothing of the host's own bookkeeping.  A preview reports what a
\* commit of the same batch would have.
ReportsItsOwnWrites == reply \in {"committed", "previewed"} => reported = Tags(batch)

\* The handler of an action, which does external work, never runs inside a
\* transaction the framework opened for a batch.
NoActionInBatch == running = "action" => \A i \in DOMAIN stack : stack[i].role # "batch"

\* What a handler writes to a tenant's table is written for the tenant the host
\* resolved for this request, whatever handle its batch was given.
TenantsApart ==
    \A w \in durable : w.by = "handler" /\ w.table \in TenantTables =>
        w.tenant # NoTenant /\ tenant \in {w.tenant, NoTenant}

=============================================================================
