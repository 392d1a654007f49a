----------------------------- MODULE NodeServer -----------------------------
(***************************************************************************)
(* The Node entry point: serve() binds asynchronously and hands out a      *)
(* `ready` promise and a `stop()` that may be called at any time and more  *)
(* than once.  Node's closeAllConnections leaves sockets alone that were   *)
(* upgraded to WebSockets, so serve() keeps a set of them.                 *)
(***************************************************************************)
EXTENDS Naturals, FiniteSets

CONSTANTS
    Socket,     \* TCP connections to the server
    MaxStops    \* bound: calls of stop()

VARIABLES
    listener,   \* Node's server: binding, listening, failed, closed
    ready,      \* the promise: pending, resolved, rejected
    upgraded,   \* the sockets serve() knows to be upgraded
    socket,     \* what each socket is
    closed,     \* server.close() was called
    stops,      \* bound
    ended       \* history: stop(true) was called

nodeVars == <<listener, ready, upgraded, socket, closed, stops, ended>>

NodeInit ==
    /\ listener = "binding" /\ ready = "pending" /\ upgraded = {} /\ stops = 0
    /\ socket = [s \in Socket |-> "none"] /\ closed = FALSE /\ ended = FALSE

\* A promise settles once.
Settle(outcome) == ready' = IF ready = "pending" THEN outcome ELSE ready

\* The listening callback; Node never calls it once close() cancelled the listen.
Bound ==
    /\ listener = "binding" /\ listener' = "listening" /\ Settle("resolved")
    /\ UNCHANGED <<upgraded, socket, closed, stops, ended>>
BindFails ==
    /\ listener = "binding" /\ listener' = "failed" /\ Settle("rejected")
    /\ UNCHANGED <<upgraded, socket, closed, stops, ended>>

Accept(s) ==
    /\ listener = "listening" /\ socket[s] = "none"
    /\ socket' = [socket EXCEPT ![s] = "http"]
    /\ UNCHANGED <<listener, ready, upgraded, closed, stops, ended>>

\* Every listener of 'upgrade' hears it: the one that answers the handshake, and
\* the one that records the socket.
Upgrade(s) ==
    /\ socket[s] = "http"
    /\ socket' = [socket EXCEPT ![s] = "webSocket"] /\ upgraded' = upgraded \cup {s}
    /\ UNCHANGED <<listener, ready, closed, stops, ended>>

SocketCloses(s) ==
    /\ socket[s] \in {"http", "webSocket"}
    /\ socket' = [socket EXCEPT ![s] = "gone"] /\ upgraded' = upgraded \ {s}
    /\ UNCHANGED <<listener, ready, closed, stops, ended>>

Destroyed(s) == socket[s] = "http" \/ s \in upgraded
Stop(immediate) ==
    /\ stops < MaxStops /\ stops' = stops + 1
    /\ Settle("rejected")
    /\ IF immediate
       THEN /\ socket' = [s \in Socket |-> IF Destroyed(s) THEN "gone" ELSE socket[s]]
            /\ upgraded' = {}
       ELSE UNCHANGED <<socket, upgraded>>
    /\ closed' = TRUE
    /\ listener' = IF ~closed /\ listener \in {"binding", "listening"} THEN "closed" ELSE listener
    /\ ended' = (ended \/ immediate)

NodeNext ==
    \/ Bound \/ BindFails
    \/ \E immediate \in BOOLEAN : Stop(immediate)
    \/ \E s \in Socket : Accept(s) \/ Upgrade(s) \/ SocketCloses(s)
NodeSpec == NodeInit /\ [][NodeNext]_nodeVars

\* Whoever waits for `ready` hears of a server that was stopped or did not bind,
\* a resolved server did listen, and after stop(true) no connection is left,
\* upgraded before or after an earlier, graceful stop.
NodeServerStops ==
    /\ ready = "pending" <=> listener = "binding"
    /\ closed => ready # "pending"
    /\ ended => \A s \in Socket : socket[s] \in {"none", "gone"}
=============================================================================
