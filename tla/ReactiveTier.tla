---------------------------- MODULE ReactiveTier ----------------------------
(***************************************************************************)
(* The reactive tier of one server node: the subscription handlers of      *)
(* every attached connection (engine/engine.ts), the store they share      *)
(* (engine/subscription-store.ts), the write stream of the app (create.ts, *)
(* engine/invalidation-source.ts) and the router that turns a write into   *)
(* `invalidate` frames (engine/invalidation-router.ts).                    *)
(*                                                                         *)
(* JavaScript runs one callback at a time, so an action is the code        *)
(* between two awaits.  Every connection here has passed the handshake,    *)
(* which module ServerSession models: no subscribe frame reaches these     *)
(* handlers before it.  What a run of a query reads, it reads at once.     *)
(*                                                                         *)
(* The tags of a run take effect when its entry is registered, or when a   *)
(* recompute installs them.  A mutation whose tags are emitted after the   *)
(* run read and before that finds nothing to invalidate: the code loses    *)
(* such a write, and `missed` says of which runs it lost one.              *)
(***************************************************************************)
EXTENDS Integers, FiniteSets

CONSTANTS
  Conn,           \* the connections attached during the run
  SubId,          \* subscription ids, chosen by the clients
  Query,          \* function paths (with arguments) of type "query"
  Table,          \* read and write tags
  Mutation,       \* the dispatched mutations, over HTTP or any connection
  SubIdsOf,       \* the ids the client behind each connection uses
  ReadSets,       \* the read sets a run of each query may have
  MaxAttempts,    \* bound: subscribe frames handled per connection
  NoEntry         \* `undefined` of store.get(id)

(***************************************************************************)
(* An entry object of the store is identified by the subscribe attempt     *)
(* that created it: the connection and the value of its nextSubAttempt.    *)
(***************************************************************************)
Attempt == Conn \X (1 .. MaxAttempts)

ASSUME BoundsAssumption   == MaxAttempts \in Nat
ASSUME NoEntryAssumption  == NoEntry \notin Attempt /\ NoEntry \notin SubId
ASSUME SubIdsOfAssumption == SubIdsOf \in [Conn -> SUBSET SubId]
ASSUME ReadSetsAssumption ==
  ReadSets \in [Query -> (SUBSET (SUBSET Table)) \ {{}}]

VARIABLES
  closed,              \* [Conn -> BOOLEAN], the connection's closed guard
  nextSubAttempt,      \* [Conn -> Nat]
  pendingSubAttempts,  \* [Conn -> [SubId -> Nat]], 0 when the map has no key
  mySubIds,            \* [Conn -> SUBSET SubId]
  subId,               \* [Attempt -> SubId], the id of the attempt's frame
  functionPath,        \* [Attempt -> Query], its path
  stage,               \* [Attempt -> where its handler is, or what it became]
  tablesWatched,       \* [Attempt -> SUBSET Table], the tags of its entry
  store,               \* [SubId -> Attempt \cup {NoEntry}]
  queued,              \* [Attempt -> Nat], links of the entry's tail not begun
  link,                \* [Attempt -> the link of the tail now running]
  fresh,               \* [Attempt -> SUBSET Table], tags read by that link
  mutation,            \* [Mutation -> the stage of a dispatched app.call]
  tablesWritten,       \* [Mutation -> SUBSET Table], its tracker's write tags
  reads,               \* [Query -> SUBSET Table], what a run would read now
  owed,                \* history: a commit changed the result of the attempt's
                       \* query since it ran, no invalidate frame was sent since
  missed,              \* history: the tags of the attempt's last run were not in
                       \* force when a write they match was emitted, or the
                       \* last recompute failed and left tags that are outdated
  cancelled            \* history: nextSubAttempt at the last unsubscribe

connVars  == <<closed, nextSubAttempt, pendingSubAttempts, mySubIds, cancelled>>
routeVars == <<queued, link, fresh>>
dataVars  == <<mutation, tablesWritten, reads>>
subVars   == <<subId, functionPath, stage, tablesWatched>>
vars == <<connVars, subVars, store, routeVars, dataVars, owed, missed>>

TypeOK ==
  /\ closed \in [Conn -> BOOLEAN]
  /\ nextSubAttempt \in [Conn -> 0 .. MaxAttempts]
  /\ pendingSubAttempts \in [Conn -> [SubId -> 0 .. MaxAttempts]]
  /\ mySubIds \in [Conn -> SUBSET SubId]
  /\ subId \in [Attempt -> SubId \cup {NoEntry}]
  /\ functionPath \in [Attempt -> Query \cup {NoEntry}]
  /\ stage \in [Attempt -> {"unsent", "context", "query", "answer", "entry", "dropped"}]
  /\ tablesWatched \in [Attempt -> SUBSET Table]
  /\ store \in [SubId -> Attempt \cup {NoEntry}]
  /\ queued \in [Attempt -> Nat]
  /\ link \in [Attempt -> {"idle", "running", "read", "failed"}]
  /\ fresh \in [Attempt -> SUBSET Table]
  /\ mutation \in [Mutation -> {"idle", "running", "emitted"}]
  /\ tablesWritten \in [Mutation -> SUBSET Table]
  /\ reads \in [Query -> SUBSET Table]
  /\ owed \in [Attempt -> BOOLEAN]
  /\ missed \in [Attempt -> BOOLEAN]
  /\ cancelled \in [Conn -> [SubId -> 0 .. MaxAttempts]]

Init ==
  /\ closed = [c \in Conn |-> FALSE]
  /\ nextSubAttempt = [c \in Conn |-> 0]
  /\ pendingSubAttempts = [c \in Conn |-> [id \in SubId |-> 0]]
  /\ mySubIds = [c \in Conn |-> {}]
  /\ subId = [a \in Attempt |-> NoEntry]
  /\ functionPath = [a \in Attempt |-> NoEntry]
  /\ stage = [a \in Attempt |-> "unsent"]
  /\ tablesWatched = [a \in Attempt |-> {}]
  /\ store = [id \in SubId |-> NoEntry]
  /\ queued = [a \in Attempt |-> 0]
  /\ link = [a \in Attempt |-> "idle"]
  /\ fresh = [a \in Attempt |-> {}]
  /\ mutation = [m \in Mutation |-> "idle"]
  /\ tablesWritten = [m \in Mutation |-> {}]
  /\ reads \in [Query -> SUBSET Table]
  /\ \A q \in Query : reads[q] \in ReadSets[q]
  /\ owed = [a \in Attempt |-> FALSE]
  /\ missed = [a \in Attempt |-> FALSE]
  /\ cancelled = [c \in Conn |-> [id \in SubId |-> 0]]

-----------------------------------------------------------------------------
(* The store *)

\* store.get(entry.id) === entry
Live(a) == \E id \in SubId : subId[a] = id /\ store[id] = a

\* Seeded fault: an entry is affected only when every table written is watched.
Affected_ByAll(written) == {a \in Attempt : Live(a) /\ written \subseteq tablesWatched[a]}

\* store.getAffected(tablesWritten)
Affected(written) == {a \in Attempt : Live(a) /\ tablesWatched[a] \cap written # {}}

\* A run of a's query would read other tables now than those of `tags`
Outdated(a, tags) == \E q \in Query : functionPath[a] = q /\ reads[q] # tags

\* clearSubscriptionOwnership(id) on connection c, for the ids in S: what the
\* store and mySubIds hold afterwards
StoreWithout(c, S) ==
  [id \in SubId |-> IF id \in S /\ id \in mySubIds[c] THEN NoEntry ELSE store[id]]

-----------------------------------------------------------------------------
(* Frames handled by a connection *)

\* Seeded fault: any attempt in flight for the id counts as the current one.
Current_AnyAttempt(a) == \E id \in SubId : /\ subId[a] = id
                                           /\ pendingSubAttempts[a[1]][id] # 0

\* isCurrentSubscribeAttempt
Current(a) == \E id \in SubId : /\ subId[a] = id
                                /\ pendingSubAttempts[a[1]][id] = a[2]

\* startSubscribeAttempt, then the path is looked up: a query goes on to
\* resolve its context, anything else is answered with an error at once
HandleSubscribe(c, id) ==
  LET n == nextSubAttempt[c] + 1 IN
  /\ ~closed[c]
  /\ id \in SubIdsOf[c]
  /\ nextSubAttempt[c] < MaxAttempts
  /\ nextSubAttempt' = [nextSubAttempt EXCEPT ![c] = n]
  /\ store' = StoreWithout(c, {id})
  /\ mySubIds' = [mySubIds EXCEPT ![c] = @ \ {id}]
  /\ subId' = [subId EXCEPT ![<<c, n>>] = id]
  /\ \/ \E q \in Query :
          /\ pendingSubAttempts' = [pendingSubAttempts EXCEPT ![c][id] = n]
          /\ functionPath' = [functionPath EXCEPT ![<<c, n>>] = q]
          /\ stage' = [stage EXCEPT ![<<c, n>>] = "context"]
     \/ /\ pendingSubAttempts' = [pendingSubAttempts EXCEPT ![c][id] = 0]
        /\ stage' = [stage EXCEPT ![<<c, n>>] = "dropped"]
        /\ UNCHANGED functionPath
  /\ UNCHANGED <<closed, cancelled, tablesWatched, routeVars, dataVars, owed, missed>>

\* Seeded fault: the entry goes, the connection still counts the id as its own.
HandleUnsubscribe_KeepsId(c, id) ==
  /\ ~closed[c]
  /\ id \in SubIdsOf[c]
  /\ pendingSubAttempts' = [pendingSubAttempts EXCEPT ![c][id] = 0]
  /\ store' = StoreWithout(c, {id})
  /\ cancelled' = [cancelled EXCEPT ![c][id] = nextSubAttempt[c]]
  /\ UNCHANGED <<closed, nextSubAttempt, mySubIds, subVars, routeVars, dataVars, owed, missed>>

HandleUnsubscribe(c, id) ==
  /\ ~closed[c]
  /\ id \in SubIdsOf[c]
  /\ pendingSubAttempts' = [pendingSubAttempts EXCEPT ![c][id] = 0]
  /\ store' = StoreWithout(c, {id})
  /\ mySubIds' = [mySubIds EXCEPT ![c] = @ \ {id}]
  /\ cancelled' = [cancelled EXCEPT ![c][id] = nextSubAttempt[c]]
  /\ UNCHANGED <<closed, nextSubAttempt, subVars, routeVars, dataVars, owed, missed>>

\* closeWith and detach both run teardown, once
Teardown(c) ==
  /\ ~closed[c]
  /\ closed' = [closed EXCEPT ![c] = TRUE]
  /\ pendingSubAttempts' =
       [pendingSubAttempts EXCEPT ![c] = [id \in SubId |-> 0]]
  /\ store' = StoreWithout(c, SubId)
  /\ mySubIds' = [mySubIds EXCEPT ![c] = {}]
  /\ UNCHANGED <<nextSubAttempt, cancelled, subVars, routeVars, dataVars, owed, missed>>

-----------------------------------------------------------------------------
(* The awaits of handleSubscribe *)

Drop(a) == stage' = [stage EXCEPT ![a] = "dropped"]

\* The check after each await: closed, or no longer the current attempt
Bails(a) == closed[a[1]] \/ ~Current(a)

\* The catch blocks: the error of a current attempt ends it and is sent to
\* the client, the error of a superseded one is swallowed
SubscribeFailed(a) ==
  /\ stage[a] \in {"context", "query", "answer"}
  /\ Drop(a)
  /\ pendingSubAttempts' =
       IF Current(a) THEN [pendingSubAttempts EXCEPT ![a[1]][subId[a]] = 0]
                     ELSE pendingSubAttempts
  /\ UNCHANGED <<closed, nextSubAttempt, mySubIds, cancelled, store,
                 subId, functionPath, tablesWatched, routeVars, dataVars, owed, missed>>

\* resolveSubContext settled: bail out, or start app.call
ContextResolved(a) ==
  /\ stage[a] = "context"
  /\ IF Bails(a)
       THEN Drop(a)
       ELSE stage' = [stage EXCEPT ![a] = "query"]
  /\ UNCHANGED <<connVars, subId, functionPath, tablesWatched, store, routeVars, dataVars, owed, missed>>

\* the query handler reads the database and the tracker notes its tags
QueryReads(a) ==
  /\ stage[a] = "query"
  /\ \E q \in Query :
       /\ functionPath[a] = q
       /\ tablesWatched' = [tablesWatched EXCEPT ![a] = reads[q]]
  /\ stage' = [stage EXCEPT ![a] = "answer"]
  /\ owed' = [owed EXCEPT ![a] = FALSE]
  /\ missed' = [missed EXCEPT ![a] = FALSE]
  /\ UNCHANGED <<connVars, subId, functionPath, store, routeVars, dataVars>>

\* the continuation of `await app.call`: bail out, or register and answer
Register(a) ==
  /\ stage[a] = "answer"
  /\ IF Bails(a)
       THEN /\ Drop(a)
            /\ UNCHANGED <<pendingSubAttempts, store, mySubIds>>
       ELSE /\ stage' = [stage EXCEPT ![a] = "entry"]
            /\ pendingSubAttempts' =
                 [pendingSubAttempts EXCEPT ![a[1]][subId[a]] = 0]
            /\ store' = [store EXCEPT ![subId[a]] = a]
            /\ mySubIds' = [mySubIds EXCEPT ![a[1]] = @ \cup {subId[a]}]
  /\ UNCHANGED <<closed, nextSubAttempt, cancelled, subId, functionPath,
                 tablesWatched, routeVars, dataVars, owed, missed>>

-----------------------------------------------------------------------------
(* app.call of a mutation or an action *)

\* A transaction of the handler commits a write of the tables T: the results
\* of the queries that read one of them change, and so may what they read.
\* Bound: a handler's next commit writes a table it did not write before.
Commit(m, T) ==
  /\ mutation[m] \in {"idle", "running"}
  /\ ~(T \subseteq tablesWritten[m])
  /\ mutation' = [mutation EXCEPT ![m] = "running"]
  /\ tablesWritten' = [tablesWritten EXCEPT ![m] = @ \cup T]
  /\ reads' \in [Query -> SUBSET Table]
  /\ \A q \in Query :
       IF reads[q] \cap T = {} THEN reads'[q] = reads[q]
                               ELSE reads'[q] \in ReadSets[q]
  /\ owed' = [a \in Attempt |->
       owed[a] \/ /\ stage[a] = "answer" \/ Live(a)
                  /\ \E q \in Query : functionPath[a] = q /\ reads[q] \cap T # {}]
  /\ UNCHANGED <<connVars, subVars, store, routeVars, missed>>

\* The emission of the tables `written` comes too early for a: the tags of its
\* run match one of them, and are not the ones the store compares
Misses(a, written) ==
  \/ stage[a] = "answer" /\ owed[a] /\ tablesWatched[a] \cap written # {}
  \/ /\ link[a] = "read" /\ Outdated(a, fresh[a])
     /\ a \notin Affected(written) /\ fresh[a] \cap written # {}

\* The handler returned or threw: the `finally` of app.call emits every table
\* it committed, and the router extends the tail of each affected entry
Emit(m) ==
  /\ mutation[m] = "running"
  /\ mutation' = [mutation EXCEPT ![m] = "emitted"]
  /\ queued' = [a \in Attempt |->
                 IF a \in Affected(tablesWritten[m]) THEN queued[a] + 1
                                                       ELSE queued[a]]
  /\ missed' = [a \in Attempt |-> missed[a] \/ Misses(a, tablesWritten[m])]
  /\ UNCHANGED <<connVars, subVars, store, link, fresh, tablesWritten, reads, owed>>

-----------------------------------------------------------------------------
(* processOne, one link of an entry's tail *)

\* Seeded fault: a link that finds its entry dead runs the next one as well.
LinkStart_Twice(a) ==
  /\ link[a] = "idle"
  /\ queued[a] > 0
  /\ queued' = [queued EXCEPT ![a] = @ - (IF Live(a) THEN 1 ELSE 2)]
  /\ link' = [link EXCEPT ![a] = IF Live(a) THEN "running" ELSE "idle"]
  /\ UNCHANGED <<connVars, subVars, store, fresh, dataVars, owed, missed>>

LinkStart(a) ==
  /\ link[a] = "idle"
  /\ queued[a] > 0
  /\ queued' = [queued EXCEPT ![a] = @ - 1]
  /\ link' = [link EXCEPT ![a] = IF Live(a) THEN "running" ELSE "idle"]
  /\ UNCHANGED <<connVars, subVars, store, fresh, dataVars, owed, missed>>

RecomputeReads(a) ==
  /\ link[a] = "running"
  /\ \E q \in Query :
       /\ functionPath[a] = q
       /\ fresh' = [fresh EXCEPT ![a] = reads[q]]
  /\ link' = [link EXCEPT ![a] = "read"]
  /\ missed' = [missed EXCEPT ![a] = FALSE]
  /\ UNCHANGED <<connVars, subVars, store, queued, dataVars, owed>>

RecomputeFails(a) ==
  /\ link[a] \in {"running", "read"}
  /\ link' = [link EXCEPT ![a] = "failed"]
  /\ UNCHANGED <<connVars, subVars, store, queued, fresh, dataVars, owed, missed>>

\* Seeded fault: a recompute that failed ends the link without a frame.
LinkFinish_Silent(a) ==
  /\ link[a] \in {"read", "failed"}
  /\ link' = [link EXCEPT ![a] = "idle"]
  /\ IF Live(a) /\ link[a] = "read"
       THEN /\ tablesWatched' = [tablesWatched EXCEPT ![a] = fresh[a]]
            /\ owed' = [owed EXCEPT ![a] = FALSE]
       ELSE UNCHANGED <<tablesWatched, owed>>
  /\ UNCHANGED <<connVars, subId, functionPath, stage, store, queued, fresh, dataVars, missed>>

\* the second liveness check, the new tags (the old ones are kept when the
\* recompute threw), the invalidate frame
LinkFinish(a) ==
  /\ link[a] \in {"read", "failed"}
  /\ link' = [link EXCEPT ![a] = "idle"]
  /\ IF Live(a)
       THEN /\ owed' = [owed EXCEPT ![a] = FALSE]
            /\ IF link[a] = "read"
                 THEN /\ tablesWatched' = [tablesWatched EXCEPT ![a] = fresh[a]]
                      /\ UNCHANGED missed
                 ELSE /\ missed' = [missed EXCEPT ![a] = Outdated(a, tablesWatched[a])]
                      /\ UNCHANGED tablesWatched
       ELSE UNCHANGED <<tablesWatched, owed, missed>>
  /\ UNCHANGED <<connVars, subId, functionPath, stage, store, queued, fresh, dataVars>>

-----------------------------------------------------------------------------
ConnNext(c) == \/ \E id \in SubId : HandleSubscribe(c, id) \/ HandleUnsubscribe(c, id)
               \/ Teardown(c)

SubscribeNext(a) == \/ SubscribeFailed(a)
                    \/ ContextResolved(a)
                    \/ QueryReads(a)
                    \/ Register(a)

MutationNext(m) == \/ \E T \in SUBSET Table : Commit(m, T)
                   \/ Emit(m)

RouterNext(a) == \/ LinkStart(a)
                 \/ RecomputeReads(a)
                 \/ RecomputeFails(a)
                 \/ LinkFinish(a)

Next == \/ \E c \in Conn : ConnNext(c)
        \/ \E a \in Attempt : SubscribeNext(a) \/ RouterNext(a)
        \/ \E m \in Mutation : MutationNext(m)

Spec == Init /\ [][Next]_vars

(***************************************************************************)
(* A handler that committed settles, and the event loop runs the tail of   *)
(* a live entry.  Nothing is assumed of an entry that was removed or       *)
(* replaced: its query may hang for ever.                                  *)
(***************************************************************************)
Fairness ==
  /\ \A m \in Mutation : WF_vars(Emit(m))
  /\ \A a \in Attempt :
       /\ WF_vars(Live(a) /\ LinkStart(a))
       /\ WF_vars(Live(a) /\ (RecomputeReads(a) \/ RecomputeFails(a)))
       /\ WF_vars(Live(a) /\ LinkFinish(a))

FairSpec == Spec /\ Fairness

-----------------------------------------------------------------------------
(* Properties *)

\* Attempt n is the newest of connection c for id, and nothing cancelled it
Newest(c, id, n) ==
  /\ ~closed[c]
  /\ cancelled[c][id] < n /\ n <= nextSubAttempt[c]
  /\ subId[<<c, n>>] = id
  /\ \A k \in 1 .. MaxAttempts : k > n => subId[<<c, k>>] # id

\* The token the connection holds for an id is that of its newest attempt: one
\* made after the last unsubscribe of the id, on a connection still open.
\* Attempts not made yet are blank.
AttemptTokens ==
  \A c \in Conn :
    /\ \A k \in 1 .. MaxAttempts :
         k > nextSubAttempt[c] => subId[<<c, k>>] = NoEntry
    /\ \A id \in SubId :
         /\ cancelled[c][id] <= nextSubAttempt[c]
         /\ pendingSubAttempts[c][id] # 0 => Newest(c, id, pendingSubAttempts[c][id])

\* Every entry of the store belongs to a connection that is still attached and
\* still counts the id as its own, and sits under the id it was made for: the
\* store never keeps an entry that no teardown would remove (the leak that
\* the awaits of handleSubscribe, racing a close or an unsubscribe, invite).
NoOrphanEntry ==
  \A id \in SubId : store[id] # NoEntry =>
    /\ ~closed[store[id][1]]
    /\ id \in mySubIds[store[id][1]]
    /\ subId[store[id]] = id
    /\ stage[store[id]] = "entry"

\* A subscribe that a later subscribe or unsubscribe of the same id on its
\* connection superseded never ends up in the store, however late its context
\* or its query settles (the attempt tokens of pendingSubAttempts).
NoSupersededEntry ==
  \A id \in SubId : store[id] # NoEntry =>
    LET c == store[id][1]  n == store[id][2] IN
    /\ cancelled[c][id] < n
    /\ \A k \in 1 .. MaxAttempts : k > n => subId[<<c, k>>] # id

\* The store and the connections agree on what is current, whatever awaits raced
\* on the way: the three together are inductive.
EntriesAreCurrent == AttemptTokens /\ NoOrphanEntry /\ NoSupersededEntry

\* A subscription that its connection was told is live ("subscribed", and
\* neither replaced nor cancelled since) is in the store, as that connection's.
OwnedIsRegistered ==
  \A c \in Conn : \A id \in mySubIds[c] :
    store[id] # NoEntry /\ store[id][1] = c

\* Closing one connection leaves the entries of every other in the store.
TeardownKeepsOthers ==
  [][\A c \in Conn, id \in SubId :
       /\ closed'[c] /\ ~closed[c]
       /\ store[id] # NoEntry
       /\ store[id][1] # c
       => store'[id] = store[id]]_vars

\* A handler that committed a write one of the tags matches is about to emit.
WillEmit(tags) ==
  \E m \in Mutation : mutation[m] = "running" /\ tablesWritten[m] \cap tags # {}

\* An invalidation of a is on its way: a link of its tail is queued or running,
\* or the emission that will queue one is to come.
Coming(a) == queued[a] > 0 \/ link[a] # "idle" \/ WillEmit(tablesWatched[a])

\* When a commit changed the result of a live subscription since its query ran,
\* or what its query reads, an invalidation is on its way, from the moment the
\* query read; the one exception is a run whose tags were not in force when
\* they were needed (`missed`).  A write emitted while the entry is registered
\* with the tags of its last run is never lost.
NoLostInvalidation ==
  \A a \in Attempt :
    /\ Live(a) /\ ~missed[a]
    /\ owed[a] \/ Outdated(a, tablesWatched[a])
    => Coming(a)

\* A live subscription whose result a commit changed is told so, or is replaced
\* or removed, unless the write was missed: no tail waits for ever behind a
\* dead entry's query, and no link ends without its frame.
EventuallyInvalidated ==
  \A a \in Attempt :
    (Live(a) /\ owed[a] /\ ~missed[a]) ~> ~(Live(a) /\ owed[a])

=============================================================================
