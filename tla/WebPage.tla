------------------------------ MODULE WebPage ------------------------------
(***************************************************************************)
(* A page and its server: screens that each hold a WyStackProvider and a   *)
(* useQuery of one and the same query, the web client they share (HTTP for *)
(* queries, the engine's connection for live updates), TanStack's cache of *)
(* the query, and the server with its store and its identity provider.     *)
(*                                                                         *)
(* The engine and the reactive tier are what ClientEngine and ReactiveTier *)
(* verify of them: a wanted connection is retried unless it was refused,   *)
(* subscriptions are replayed when it opens, and a commit leaves an        *)
(* `invalidate` under way to every entry of the store that reads it.       *)
(* React and TanStack Query are modelled from how hooks.ts uses them: an   *)
(* effect and its clean-up run in one piece, a mount fetches, an           *)
(* invalidation restarts a running fetch only if there is data.            *)
(***************************************************************************)
EXTENDS Identity, Naturals, Sequences, SequencesExt

CONSTANTS
    Screen,     \* providers of one client, each with one useQuery
    MaxWrites,  \* bound: commits that change the query's result
    MaxMounts,  \* bound: effects and clean-ups that run
    MaxRetries  \* TanStack's retries of a failing fetch

VARIABLES
    mounted,        \* the screens whose provider's effect has run
    lifecycle,      \* <<>>, or <<[mounts, disconnectVersion]>> in clientLifecycles
    microtasks,     \* the disconnectVersion each deferred disconnect captured
    token, endpoint, \* what getToken() answers; the state of the key endpoint
    link,           \* the engine's connection
    subscription,   \* screen -> its subscription's id, 0 for none
    wire,           \* frames to the server, oldest first
    entries, due,   \* ids in the store; ids with an `invalidate` under way
    version,        \* the commits so far: the query's result
    cache,          \* the result in TanStack's cache, or Nothing
    fetching,       \* where the fetch of it is
    retries,        \* how often the running fetch has been retried
    effects,        \* bound
    refusedToken,   \* history: the token the connection was refused for
    owed            \* history: screen -> the commit its subscription has to show, 0 for none

providerVars == <<mounted, lifecycle, microtasks, effects>>
hostVars == <<token, endpoint>>
linkVars == <<link, wire, entries, due, refusedToken>>
queryVars == <<cache, fetching, retries>>
pageVars == <<providerVars, hostVars, linkVars, queryVars, subscription, version, owed>>

Nothing == 0            \* no data; results are numbered from 1
Idle == <<"idle">>
Sent == <<"sent">>      \* the request is on its way to the server
Got(v) == <<"got", v>>  \* its answer, data or an error, is on its way back
Failed == <<"failed">>

BadToken == [Genuine EXCEPT !.exp = "past"]
Ours == Verifier("workos", Text(Us, ""), Url("https", "vendor", Us), {})
Verdict == Verify(Ours, token, endpoint)

ids == {subscription[s] : s \in Screen} \ {0}
\* createSubscriptionIdAllocator: the id asked for, or the first free suffix of it.
Allocate == CHOOSE i \in 1..(Cardinality(Screen) + 1) : i \notin ids /\ \A j \in 1..(i-1) : j \in ids
Subscribe(i) == <<"subscribe", i>>
Unsubscribe(i) == <<"unsubscribe", i>>
Sends(frames) == wire' = IF link = "open" THEN wire \o frames ELSE wire

PageInit ==
    /\ mounted = {} /\ lifecycle = <<>> /\ microtasks = <<>> /\ effects = 0
    /\ token = Genuine /\ endpoint = "serves"
    /\ link = "off" /\ wire = <<>> /\ entries = {} /\ due = {} /\ refusedToken = Genuine
    /\ subscription = [s \in Screen |-> 0] /\ owed = [s \in Screen |-> 0]
    /\ version = 1 /\ cache = Nothing /\ fetching = Idle /\ retries = 0

-----------------------------------------------------------------------------
(* useQuery.                                                                *)

Start == fetching' = Sent /\ retries' = 0 /\ UNCHANGED cache

\* The effect of useQuery, and its clean-up: the id is free again before the
\* engine is told.
SubscribeEffect(s) ==
    /\ subscription' = [subscription EXCEPT ![s] = Allocate]
    /\ Sends(<<Subscribe(Allocate)>>)
    /\ IF fetching = Idle THEN Start ELSE UNCHANGED queryVars
UnsubscribeEffect(s) ==
    /\ subscription' = [subscription EXCEPT ![s] = 0]
    /\ Sends(IF subscription[s] # 0 THEN <<Unsubscribe(subscription[s])>> ELSE <<>>)
    /\ owed' = [owed EXCEPT ![s] = 0]

\* Seeded fault: an invalidation joins a fetch that is already running.
OnInvalidate_Joins == IF fetching = Idle THEN Start ELSE UNCHANGED queryVars
OnInvalidate == IF fetching = Idle \/ cache # Nothing THEN Start ELSE UNCHANGED queryVars

\* The server resolves the context of client.query's request and reads.
HttpRead ==
    /\ fetching = Sent
    /\ fetching' = IF Verdict = Session THEN Got(version) ELSE Failed
    /\ UNCHANGED <<providerVars, hostVars, linkVars, cache, retries, subscription, version, owed>>
HttpLost ==
    /\ fetching # Idle /\ fetching # Failed
    /\ fetching' = Failed
    /\ UNCHANGED <<providerVars, hostVars, linkVars, cache, retries, subscription, version, owed>>
HttpSettles ==
    /\ \/ /\ fetching[1] = "got" /\ fetching' = Idle
          /\ cache' = fetching[2]
          /\ owed' = [s \in Screen |-> IF owed[s] <= fetching[2] THEN 0 ELSE owed[s]]
          /\ UNCHANGED retries
       \/ /\ fetching = Failed /\ retries < MaxRetries
          /\ fetching' = Sent /\ retries' = retries + 1
          /\ UNCHANGED <<cache, owed>>
       \* the query is in error, and says so
       \/ /\ fetching = Failed /\ retries = MaxRetries
          /\ fetching' = Idle /\ owed' = [s \in Screen |-> 0]
          /\ UNCHANGED <<cache, retries>>
    /\ UNCHANGED <<providerVars, hostVars, linkVars, subscription, version>>

-----------------------------------------------------------------------------
(* The provider.                                                            *)

Connect == link' = "connecting"
Disconnect == link' = "off" /\ wire' = <<>> /\ entries' = {} /\ due' = {} /\ owed' = [s \in Screen |-> 0]

\* Effects run children first: the query's, then the provider's.
Mount(s) ==
    /\ s \notin mounted /\ effects < MaxMounts
    /\ effects' = effects + 1
    /\ SubscribeEffect(s)
    /\ mounted' = mounted \cup {s}
    /\ LET l == IF lifecycle = <<>> THEN [mounts |-> 0, disconnectVersion |-> 0] ELSE lifecycle[1]
       IN  lifecycle' = <<[mounts |-> l.mounts + 1, disconnectVersion |-> l.disconnectVersion + 1]>>
    /\ IF lifecycle = <<>> THEN Connect ELSE UNCHANGED link
    /\ UNCHANGED <<microtasks, hostVars, entries, due, refusedToken, version, owed>>

Unmount(s) ==
    /\ s \in mounted /\ effects < MaxMounts
    /\ effects' = effects + 1
    /\ UnsubscribeEffect(s)
    /\ mounted' = mounted \ {s}
    /\ LET l == lifecycle[1]
           last == l.mounts = 1
       IN  /\ lifecycle' = <<[mounts |-> l.mounts - 1,
                              disconnectVersion |-> l.disconnectVersion + (IF last THEN 1 ELSE 0)]>>
           /\ microtasks' = IF last THEN Append(microtasks, l.disconnectVersion + 1) ELSE microtasks
    /\ UNCHANGED <<hostVars, link, entries, due, refusedToken, queryVars, version>>

\* Seeded fault: it disconnects without looking again.
StillWanted_Never(captured) == lifecycle = <<>>
StillWanted(captured) == lifecycle = <<>> \/ lifecycle[1].mounts > 0 \/ lifecycle[1].disconnectVersion # captured

DeferredDisconnect ==
    /\ microtasks # <<>>
    /\ microtasks' = Tail(microtasks)
    /\ IF StillWanted(Head(microtasks))
       THEN UNCHANGED <<lifecycle, link, wire, entries, due, owed>>
       ELSE lifecycle' = <<>> /\ Disconnect
    /\ UNCHANGED <<mounted, effects, hostVars, refusedToken, queryVars, subscription, version>>

\* A screen's `skip` or arguments change: the subscription alone comes and goes.
Skip(s) ==
    /\ s \in mounted /\ effects < MaxMounts
    /\ effects' = effects + 1
    /\ IF subscription[s] = 0
       THEN SubscribeEffect(s) /\ UNCHANGED owed
       ELSE UnsubscribeEffect(s) /\ UNCHANGED queryVars
    /\ UNCHANGED <<mounted, lifecycle, microtasks, hostVars, link, entries, due, refusedToken, version>>

-----------------------------------------------------------------------------
(* The connection, as the engine and the WebSocket routes keep it.          *)

\* onOpen to the end of the handshake: 4001 for a rejected token, 4002 for a
\* provider that cannot be asked.
ClosesWith(verdict) == IF verdict = Rejected THEN "refused" ELSE "backoff"

Opens ==
    /\ link = "connecting"
    /\ \/ Verdict = Session /\ link' = "open" /\ wire' = SetToSeq({Subscribe(i) : i \in ids})
       \/ Verdict # Session /\ link' = ClosesWith(Verdict) /\ UNCHANGED wire
       \/ link' = "backoff" /\ UNCHANGED wire
    /\ refusedToken' = IF link' = "refused" THEN token ELSE refusedToken
    /\ UNCHANGED <<providerVars, hostVars, entries, due, queryVars, subscription, version, owed>>

Drops ==
    /\ link = "open" /\ link' = "backoff"
    /\ wire' = <<>> /\ entries' = {} /\ due' = {} /\ owed' = [s \in Screen |-> 0]
    /\ UNCHANGED <<providerVars, hostVars, refusedToken, queryVars, subscription, version>>

Reconnects ==
    /\ link = "backoff" /\ Connect
    /\ UNCHANGED <<providerVars, hostVars, wire, entries, due, refusedToken, queryVars, subscription, version, owed>>

ServerReceives ==
    /\ wire # <<>> /\ wire' = Tail(wire)
    /\ LET i == Head(wire)[2]
       IN  entries' = IF Head(wire)[1] = "subscribe" THEN entries \cup {i} ELSE entries \ {i}
    /\ UNCHANGED <<providerVars, hostVars, link, due, refusedToken, queryVars, subscription, version, owed>>

\* Anybody's commit, a mutation of this page's included.  `owed` is set for the
\* screens that are subscribed and have data to replace.
Commit ==
    /\ version <= MaxWrites /\ version' = version + 1
    /\ due' = due \cup entries
    /\ owed' = [s \in Screen |-> IF subscription[s] \in entries /\ cache # Nothing THEN version' ELSE owed[s]]
    /\ UNCHANGED <<providerVars, hostVars, link, wire, entries, refusedToken, queryVars, subscription>>

Invalidates(i) ==
    /\ i \in due /\ due' = due \ {i}
    /\ IF i \in ids THEN OnInvalidate ELSE UNCHANGED queryVars
    /\ UNCHANGED <<providerVars, hostVars, link, wire, entries, refusedToken, subscription, version, owed>>

Environment ==
    /\ \/ token' \in {Genuine, BadToken} \ {token} /\ UNCHANGED endpoint
       \/ endpoint' \in {"serves", "unreachable"} \ {endpoint} /\ UNCHANGED token
    /\ UNCHANGED <<providerVars, linkVars, queryVars, subscription, version, owed>>

Fetches == HttpRead \/ HttpSettles
PageNext ==
    \/ \E s \in Screen : Mount(s) \/ Unmount(s) \/ Skip(s)
    \/ DeferredDisconnect \/ Fetches \/ HttpLost
    \/ Opens \/ Drops \/ Reconnects \/ ServerReceives \/ Commit \/ Environment
    \/ \E i \in due : Invalidates(i)

\* A request ends, and a frame arrives unless the connection is lost.
Fairness == WF_pageVars(Fetches) /\ \A i \in 1..(Cardinality(Screen) + 1) : WF_pageVars(Invalidates(i))
PageSpec == PageInit /\ [][PageNext]_pageVars /\ Fairness

-----------------------------------------------------------------------------
\* The client is connected for as long as a provider of it is mounted, across
\* remounts that overtake the deferred disconnect, is disconnected when the last
\* one is gone, and gives up for good only when its token was no good.
ConnectionFollowsMounts ==
    /\ lifecycle # <<>> => lifecycle[1].mounts = Cardinality(mounted)
    /\ mounted # {} => link # "off"
    /\ mounted = {} /\ microtasks = <<>> => link = "off"
    /\ link = "refused" => refusedToken # Genuine

\* A commit made while a screen is subscribed and shows data is shown, unless the
\* screen unsubscribes, the connection is lost or the query reports an error.
HookIsLive == \A s \in Screen : owed[s] # 0 ~> owed[s] = 0
=============================================================================
