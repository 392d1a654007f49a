---------------------------- MODULE ClientEngine ----------------------------
(***************************************************************************)
(* The client's reactive engine (client/src/engine.ts) over pipes that     *)
(* open late, close, refuse a frame at once or reject it later, and a      *)
(* server that answers what it was sent: connect and disconnect, the       *)
(* authentication handshake and its timer, reconnects, the subscriptions   *)
(* replayed on each of them, and the calls in flight.                      *)
(*                                                                         *)
(* connect() starts an async run that suspends on the token, the pipe and  *)
(* the pipe's readiness; run, pipe and timer are named by the value of     *)
(* connectGeneration they belong to, 0 standing for null.  A continuation  *)
(* of a run is a microtask: timers, frames and socket events wait for it   *)
(* (`Drained`), the application's calls need not.                          *)
(***************************************************************************)
EXTENDS Integers, FiniteSets

CONSTANTS
  Sub,           \* subscription ids
  Call,          \* the calls and actions the application makes
  Action,        \* which of them are actions
  ReuseIds,      \* createSubscriptionId may return an id used before
  MaxRetryable,  \* MAX_RETRYABLE_SUBSCRIPTION_ERRORS
  MaxGeneration, \* bound: connects and disconnects
  MaxDue         \* bound: subscribe frames of one id not answered yet

ASSUME ReuseAssumption  == ReuseIds \in BOOLEAN
ASSUME ActionAssumption == Action \subseteq Call
ASSUME BoundsAssumption == MaxRetryable \in Nat /\ MaxGeneration \in Nat /\ MaxDue \in Nat

Generation == 1 .. MaxGeneration
Absent     == -1

VARIABLES
  requiresAuth,    \* fixed: config.requiresAuth ?? getToken !== undefined
  sendsThrow,      \* fixed: the adapter's send may throw (the WebSocket's does not)
  wanted,          \* history: the last of connect() and disconnect() called
  connectGeneration, connecting, connected, authenticated, authFailed,
  pipe,            \* the pipe in use
  reconnectTimer,  \* it is armed
  authAckTimer,    \* the handle the engine holds
  ticking,         \* the ack timers that are armed, held or not
  run,             \* [Generation -> where the run of connect() is]
  open,            \* the pipes whose carrier is up, or coming up
  sent,            \* history: the pipes a frame was sent on
  activeSubs,      \* [Sub -> retryableErrors, or Absent]
  used,            \* history: the ids ever subscribed
  due,             \* [Sub -> its subscribe frames on this pipe not answered]
  held,            \* the ids the server holds once it has read what was sent
  call, callGeneration  \* [Call -> its state], [Call -> the pipe it rode on]

configVars == <<requiresAuth, sendsThrow>>
givenVars == <<configVars, wanted>>
linkVars == <<connectGeneration, connecting, connected, authenticated, authFailed, pipe>>
timerVars == <<reconnectTimer, authAckTimer, ticking>>
pipeVars == <<run, open, sent>>
subVars == <<activeSubs, used, due, held>>
callVars == <<call, callGeneration>>
vars == <<givenVars, linkVars, timerVars, pipeVars, subVars, callVars>>

TypeOK ==
  /\ requiresAuth \in BOOLEAN /\ sendsThrow \in BOOLEAN
  /\ wanted \in BOOLEAN
  /\ connectGeneration \in 0 .. MaxGeneration
  /\ connecting \in BOOLEAN /\ connected \in BOOLEAN
  /\ authenticated \in BOOLEAN /\ authFailed \in BOOLEAN
  /\ pipe \in 0 .. MaxGeneration
  /\ reconnectTimer \in BOOLEAN
  /\ authAckTimer \in 0 .. MaxGeneration
  /\ ticking \subseteq Generation
  /\ run \in [Generation -> {"none", "token", "pipe", "ready", "opened", "rejected",
                             "settling", "done"}]
  /\ open \subseteq Generation
  /\ sent \subseteq Generation
  /\ activeSubs \in [Sub -> {Absent} \cup 0 .. MaxRetryable]
  /\ used \subseteq Sub
  /\ due \in [Sub -> 0 .. MaxDue]
  /\ held \subseteq Sub
  /\ call \in [Call -> {"unused", "pending", "settled"}]
  /\ callGeneration \in [Call -> 0 .. MaxGeneration]

Init ==
  /\ requiresAuth \in BOOLEAN /\ sendsThrow \in BOOLEAN
  /\ wanted = FALSE
  /\ connectGeneration = 0
  /\ connecting = FALSE /\ connected = FALSE
  /\ authenticated = FALSE /\ authFailed = FALSE
  /\ pipe = 0
  /\ reconnectTimer = FALSE /\ authAckTimer = 0 /\ ticking = {}
  /\ run = [g \in Generation |-> "none"]
  /\ open = {} /\ sent = {}
  /\ activeSubs = [s \in Sub |-> Absent]
  /\ used = {} /\ held = {}
  /\ due = [s \in Sub |-> 0]
  /\ call = [c \in Call |-> "unused"]
  /\ callGeneration = [c \in Call |-> 0]

-----------------------------------------------------------------------------
Active == {s \in Sub : activeSubs[s] # Absent}

\* No continuation of a run is queued: a macrotask may start
Drained == \A g \in Generation : run[g] \notin {"opened", "rejected", "settling"}

Goes(g, to) == run' = [run EXCEPT ![g] = to]

\* Closing a pipe from this side rejects the readiness its run waits for
RunAfterClose(g) ==
  [h \in Generation |-> IF h = g /\ run[h] = "ready" THEN "rejected" ELSE run[h]]

\* rejectAllPending
RejectAllPending ==
  call' = [c \in Call |-> IF call[c] = "pending" THEN "settled" ELSE call[c]]

\* What a closed connection leaves of the server's answers and subscriptions
ForgetServer == due' = [s \in Sub |-> 0] /\ held' = {}

\* handleClose for the current generation, the ack timer apart
Closed(code) ==
  /\ pipe' = 0
  /\ connected' = FALSE /\ authenticated' = FALSE
  /\ RejectAllPending
  /\ ForgetServer
  /\ IF code = 4001
       THEN authFailed' = TRUE /\ UNCHANGED reconnectTimer
       ELSE UNCHANGED authFailed /\ reconnectTimer' = (reconnectTimer \/ ~authFailed)
  /\ UNCHANGED <<connectGeneration, connecting, callGeneration>>

ClearAuthAckTimer ==
  /\ authAckTimer' = 0
  /\ ticking' = ticking \ {authAckTimer}

HandleClose(code) == Closed(code) /\ ClearAuthAckTimer

\* sendOrClose when the send throws: the current pipe is closed
SendThrows ==
  /\ sendsThrow
  /\ open' = open \ {pipe}
  /\ HandleClose(1006)

\* sendOrClose of a subscribe frame for each id of S, when no send throws
SendsSubscribe(S) ==
  /\ \A s \in S : due[s] < MaxDue
  /\ due' = [s \in Sub |-> IF s \in S THEN due[s] + 1 ELSE due[s]]
  /\ held' = held \cup S
  /\ sent' = IF S = {} THEN sent ELSE sent \cup {connectGeneration}

-----------------------------------------------------------------------------
(* connect() and its run *)

\* connect(): nothing to do when terminally refused, or already under way
StartRun ==
  IF authFailed \/ pipe # 0 \/ connecting
    THEN UNCHANGED <<connectGeneration, connecting, run>>
    ELSE /\ connectGeneration < MaxGeneration
         /\ connectGeneration' = connectGeneration + 1
         /\ connecting' = TRUE
         /\ Goes(connectGeneration + 1, IF requiresAuth THEN "token" ELSE "pipe")

Connect ==
  /\ StartRun
  /\ wanted' = TRUE /\ UNCHANGED configVars
  /\ UNCHANGED <<connected, authenticated, authFailed, pipe, timerVars, open, sent,
                 subVars, callVars>>

ReconnectTimerFires ==
  /\ Drained
  /\ reconnectTimer
  /\ reconnectTimer' = FALSE
  /\ StartRun
  /\ UNCHANGED <<givenVars, connected, authenticated, authFailed, pipe, authAckTimer, ticking,
                 open, sent, subVars, callVars>>

\* The run throws: its catch block retries unless a newer attempt took over
RunFails(g) ==
  /\ Goes(g, "settling")
  /\ reconnectTimer' = (reconnectTimer \/ (g = connectGeneration /\ ~authFailed))
  /\ UNCHANGED <<givenVars, linkVars, authAckTimer, ticking, open, sent, subVars, callVars>>

Stale(g) == g # connectGeneration \/ authFailed

TokenSettles(g) ==
  /\ Drained
  /\ run[g] = "token"
  /\ \/ RunFails(g)
     \/ /\ Goes(g, IF Stale(g) THEN "settling" ELSE "pipe")
        /\ UNCHANGED <<givenVars, linkVars, timerVars, open, sent, subVars, callVars>>

\* Seeded fault: a pipe that comes too late is dropped without closing it.
PipeCreated_Leaks(g) ==
  /\ Drained
  /\ run[g] = "pipe"
  /\ open' = open \cup {g}
  /\ IF Stale(g)
       THEN Goes(g, "settling") /\ UNCHANGED pipe
       ELSE Goes(g, "ready") /\ pipe' = g
  /\ UNCHANGED <<givenVars, connectGeneration, connecting, connected, authenticated, authFailed,
                 timerVars, sent, subVars, callVars>>

\* createPipe settles; a pipe of a stale run is closed at once.  An adapter
\* without `ready` can take frames immediately
PipeCreated(g) ==
  /\ Drained
  /\ run[g] = "pipe"
  /\ \/ RunFails(g)
     \/ /\ Stale(g)
        /\ Goes(g, "settling")
        /\ UNCHANGED <<givenVars, linkVars, timerVars, open, sent, subVars, callVars>>
     \/ /\ ~Stale(g)
        /\ pipe' = g
        /\ open' = open \cup {g}
        /\ Goes(g, "ready") \/ Goes(g, "opened")
        /\ UNCHANGED <<givenVars, connectGeneration, connecting, connected, authenticated,
                       authFailed, timerVars, sent, subVars, callVars>>

\* The pipe's readiness settles: it can take frames, or it never will
PipeReady(g) ==
  /\ Drained
  /\ run[g] = "ready" /\ g \in open
  /\ \/ Goes(g, "opened") /\ UNCHANGED open
     \/ Goes(g, "rejected") /\ open' = open \ {g}
  /\ UNCHANGED <<givenVars, linkVars, timerVars, sent, subVars, callVars>>

\* The continuation after `await opened.ready`: the auth frame and its timer, or
\* the subscriptions.  The timer is set even if the send threw
RunReady(g) ==
  /\ run[g] = "opened"
  /\ Goes(g, "settling")
  /\ \/ /\ Stale(g) \/ pipe # g
        /\ open' = open \ {g}
        /\ UNCHANGED <<linkVars, timerVars, sent, subVars, callVars>>
     \/ /\ ~Stale(g) /\ pipe = g /\ requiresAuth
        /\ connected' = TRUE /\ authenticated' = FALSE
        /\ authAckTimer' = g /\ ticking' = ticking \cup {g}
        /\ sent' = sent \cup {g}
        /\ UNCHANGED <<connectGeneration, connecting, authFailed, pipe, reconnectTimer, open,
                       subVars, callVars>>
     \/ /\ ~Stale(g) /\ pipe = g /\ requiresAuth
        /\ sendsThrow
        /\ open' = open \ {g}
        /\ Closed(1006)
        /\ authAckTimer' = g
        /\ ticking' = (ticking \ {authAckTimer}) \cup {g}
        /\ UNCHANGED <<sent, activeSubs, used>>
     \/ /\ ~Stale(g) /\ pipe = g /\ ~requiresAuth
        /\ connected' = TRUE /\ authenticated' = TRUE
        /\ SendsSubscribe(Active)
        /\ UNCHANGED <<connectGeneration, connecting, authFailed, pipe, timerVars, open,
                       activeSubs, used, callVars>>
     \/ /\ ~Stale(g) /\ pipe = g /\ ~requiresAuth
        /\ Active # {}
        /\ SendThrows
        /\ UNCHANGED <<sent, activeSubs, used>>
  /\ UNCHANGED givenVars

\* `await opened.ready` threw: the close is the engine's unless it came first
RunRejected(g) ==
  /\ run[g] = "rejected"
  /\ Goes(g, "settling")
  /\ IF g = connectGeneration /\ pipe = g
       THEN HandleClose(1006)
       ELSE UNCHANGED <<linkVars, timerVars, due, held, callVars>>
  /\ UNCHANGED <<givenVars, open, sent, activeSubs, used>>

\* The run's finally block
RunSettles(g) ==
  /\ run[g] = "settling"
  /\ Goes(g, "done")
  /\ connecting' = (connecting /\ g # connectGeneration)
  /\ UNCHANGED <<givenVars, connectGeneration, connected, authenticated, authFailed, pipe,
                 timerVars, open, sent, subVars, callVars>>

-----------------------------------------------------------------------------
(* The pipe, the timers and disconnect() *)

\* The carrier closes: on its own (1006), or with the server's code
PipeCloses(g, code) ==
  /\ Drained
  /\ g \in open
  /\ open' = open \ {g}
  /\ run' = RunAfterClose(g)
  /\ IF g = connectGeneration
       THEN HandleClose(code)
       ELSE UNCHANGED <<linkVars, timerVars, due, held, callVars>>
  /\ UNCHANGED <<givenVars, sent, activeSubs, used>>

\* A frame sent on g is refused after all, perhaps when g is long closed
SendRejects(g) ==
  /\ g \in sent
  /\ open' = open \ {g}
  /\ IF g = connectGeneration
       THEN HandleClose(1006)
       ELSE UNCHANGED <<linkVars, timerVars, due, held, callVars>>
  /\ UNCHANGED <<givenVars, run, sent, activeSubs, used>>

\* The ack timer set for g: whichever handle the engine holds by now, it forgets
FailAuthAck(g) ==
  /\ Drained
  /\ g \in ticking
  /\ authAckTimer' = 0
  /\ ticking' = ticking \ {g}
  /\ IF g = connectGeneration /\ pipe # 0
       THEN open' = open \ {pipe} /\ Closed(4002)
       ELSE UNCHANGED <<open, linkVars, reconnectTimer, due, held, callVars>>
  /\ UNCHANGED <<givenVars, run, sent, activeSubs, used>>

\* Seeded fault: disconnect() leaves the flag of the run it gives up set.
Disconnect_KeepsConnecting ==
  /\ wanted' = FALSE /\ UNCHANGED configVars
  /\ connectGeneration < MaxGeneration
  /\ connectGeneration' = connectGeneration + 1
  /\ connected' = FALSE /\ authenticated' = FALSE /\ authFailed' = FALSE
  /\ reconnectTimer' = FALSE
  /\ ClearAuthAckTimer
  /\ RejectAllPending
  /\ ForgetServer
  /\ pipe' = 0
  /\ open' = open \ {pipe}
  /\ run' = RunAfterClose(pipe)
  /\ UNCHANGED <<connecting, sent, activeSubs, used, callGeneration>>

Disconnect ==
  /\ wanted' = FALSE /\ UNCHANGED configVars
  /\ connectGeneration < MaxGeneration
  /\ connectGeneration' = connectGeneration + 1
  /\ connecting' = FALSE
  /\ connected' = FALSE /\ authenticated' = FALSE /\ authFailed' = FALSE
  /\ reconnectTimer' = FALSE
  /\ ClearAuthAckTimer
  /\ RejectAllPending
  /\ ForgetServer
  /\ pipe' = 0
  /\ open' = open \ {pipe}
  /\ run' = RunAfterClose(pipe)
  /\ UNCHANGED <<sent, activeSubs, used, callGeneration>>

-----------------------------------------------------------------------------
(* Subscriptions and calls *)

Subscribe(s) ==
  /\ ReuseIds \/ s \notin used
  /\ activeSubs' = [activeSubs EXCEPT ![s] = 0]
  /\ used' = used \cup {s}
  /\ IF pipe # 0 /\ authenticated
       THEN SendsSubscribe({s})
       ELSE UNCHANGED <<due, held, sent>>
  /\ UNCHANGED <<givenVars, linkVars, timerVars, run, open, callVars>>

Unsubscribe(s) ==
  /\ s \in used
  /\ activeSubs' = [activeSubs EXCEPT ![s] = Absent]
  /\ IF pipe # 0 /\ authenticated
       THEN held' = held \ {s} /\ sent' = sent \cup {connectGeneration}
       ELSE UNCHANGED <<held, sent>>
  /\ UNCHANGED <<givenVars, linkVars, timerVars, run, open, used, due, callVars>>

\* subscribe or unsubscribe on a live pipe whose send throws
SubscriptionSendThrows(s) ==
  /\ pipe # 0 /\ authenticated
  /\ SendThrows
  /\ \/ /\ ReuseIds \/ s \notin used
        /\ activeSubs' = [activeSubs EXCEPT ![s] = 0]
        /\ used' = used \cup {s}
     \/ /\ s \in used
        /\ activeSubs' = [activeSubs EXCEPT ![s] = Absent]
        /\ UNCHANGED used
  /\ UNCHANGED <<givenVars, run, sent>>

\* invoke(): refused unless live; a send that throws fails this call alone
Invoke(c) ==
  /\ call[c] = "unused"
  /\ \/ /\ pipe # 0 /\ connected /\ (requiresAuth => authenticated)
        /\ call' = [call EXCEPT ![c] = "pending"]
        /\ callGeneration' = [callGeneration EXCEPT ![c] = connectGeneration]
        /\ sent' = sent \cup {connectGeneration}
     \/ /\ call' = [call EXCEPT ![c] = "settled"]
        /\ UNCHANGED <<callGeneration, sent>>
  /\ UNCHANGED <<givenVars, linkVars, timerVars, run, open, subVars>>

-----------------------------------------------------------------------------
(* Frames of the server, on the pipe in use *)

Receives == Drained /\ pipe \in open /\ connected

\* The acknowledgement; the first replays the subscriptions, more are ignored
Authenticated ==
  /\ Receives
  /\ requiresAuth
  /\ IF authenticated
       THEN UNCHANGED <<linkVars, timerVars, open, sent, subVars, callVars>>
       ELSE \/ /\ authenticated' = TRUE
               /\ ClearAuthAckTimer
               /\ SendsSubscribe(Active)
               /\ UNCHANGED <<connectGeneration, connecting, connected, authFailed, pipe,
                              reconnectTimer, open, activeSubs, used, callVars>>
            \/ Active # {} /\ SendThrows /\ UNCHANGED <<sent, activeSubs, used>>
  /\ UNCHANGED <<givenVars, run>>

Subscribed(s) ==
  /\ Receives
  /\ due[s] > 0
  /\ due' = [due EXCEPT ![s] = @ - 1]
  /\ activeSubs' = [activeSubs EXCEPT ![s] = IF @ = Absent THEN Absent ELSE 0]
  /\ UNCHANGED <<givenVars, linkVars, timerVars, pipeVars, used, held, callVars>>

\* A subscribe frame cancelled or replaced by a later frame gets no answer
Swallowed(s) ==
  /\ due[s] > IF s \in held THEN 1 ELSE 0
  /\ due' = [due EXCEPT ![s] = @ - 1]
  /\ UNCHANGED <<givenVars, linkVars, timerVars, pipeVars, activeSubs, used, held, callVars>>

\* The server's view after it rejected the oldest frame it has not answered
HeldAfterError(s) == IF due[s] = 1 THEN held \ {s} ELSE held

\* Seeded fault: one retry more than the cap.
Retries_OffByOne(s, retryable) ==
  retryable /\ activeSubs[s] # Absent /\ activeSubs[s] <= MaxRetryable

\* retrySubscription: below the cap the subscription is sent again
Retries(s, retryable) ==
  retryable /\ activeSubs[s] # Absent /\ activeSubs[s] < MaxRetryable

\* Seeded fault: an error leaves the subscription to be replayed.
SubscriptionError_Keeps(s, retryable) ==
  /\ Receives
  /\ due[s] > 0
  /\ ~Retries(s, retryable)
  /\ held' = HeldAfterError(s)
  /\ due' = [due EXCEPT ![s] = @ - 1]
  /\ UNCHANGED <<givenVars, linkVars, timerVars, pipeVars, activeSubs, used, callVars>>

SubscriptionError(s, retryable) ==
  /\ Receives
  /\ due[s] > 0
  /\ IF Retries(s, retryable)
       THEN \/ /\ activeSubs' = [activeSubs EXCEPT ![s] = @ + 1]
               /\ held' = held \cup {s}
               /\ UNCHANGED <<due, linkVars, timerVars, open, callVars>>
            \/ /\ activeSubs' = [activeSubs EXCEPT ![s] = @ + 1]
               /\ SendThrows
       ELSE /\ activeSubs' = [activeSubs EXCEPT ![s] = Absent]
            /\ held' = HeldAfterError(s)
            /\ due' = [due EXCEPT ![s] = @ - 1]
            /\ UNCHANGED <<linkVars, timerVars, open, callVars>>
  /\ UNCHANGED <<givenVars, run, sent, used>>

\* A result or an error for a pending call
CallAnswered(c) ==
  /\ Receives
  /\ call[c] = "pending"
  /\ call' = [call EXCEPT ![c] = "settled"]
  /\ UNCHANGED <<givenVars, linkVars, timerVars, pipeVars, subVars, callGeneration>>

\* "invalid message" of a server that knows no actions: each pending one rejects
InvalidMessage ==
  /\ Receives
  /\ call' = [c \in Call |-> IF c \in Action /\ call[c] = "pending" THEN "settled" ELSE call[c]]
  /\ UNCHANGED <<givenVars, linkVars, timerVars, pipeVars, subVars, callGeneration>>

-----------------------------------------------------------------------------
RunNext(g) == \/ TokenSettles(g) \/ PipeCreated(g) \/ PipeReady(g)
              \/ RunReady(g) \/ RunRejected(g) \/ RunSettles(g)

PipeNext(g) == \/ \E code \in {1006, 4001, 4002} : PipeCloses(g, code)
               \/ SendRejects(g)
               \/ FailAuthAck(g)

SubNext(s) == \/ Subscribe(s) \/ Unsubscribe(s) \/ SubscriptionSendThrows(s)
              \/ Subscribed(s) \/ Swallowed(s)
              \/ \E retryable \in BOOLEAN : SubscriptionError(s, retryable)

Next == \/ Connect \/ Disconnect \/ ReconnectTimerFires
        \/ \E g \in Generation : RunNext(g) \/ PipeNext(g)
        \/ \E s \in Sub : SubNext(s)
        \/ \E c \in Call : Invoke(c) \/ CallAnswered(c)
        \/ Authenticated
        \/ InvalidMessage

Spec == Init /\ [][Next]_vars

-----------------------------------------------------------------------------
(* Properties *)

\* The run of connect() that belongs to the current generation is under way
RunUnderWay ==
  \E g \in Generation : g = connectGeneration /\ run[g] \notin {"none", "done"}

\* The engine never gives up: between connect() and disconnect(), unless the
\* server refused it for good, it has a pipe, is opening one, or has a retry
\* timer armed, whatever failed, closed or rejected in the meantime.
NeverStalls ==
  wanted /\ ~authFailed => pipe # 0 \/ RunUnderWay \/ reconnectTimer

\* At most one carrier is up, and it is the engine's: a pipe that came late, or
\* that disconnect() or a newer attempt left behind, is closed.
NoLeakedPipe == open \subseteq {pipe}

\* A call still pending rides on the pipe in use: no promise waits for an
\* answer on a connection that is gone.
PendingOnLivePipe ==
  \A c \in Call : call[c] = "pending" =>
    /\ pipe # 0 /\ connected
    /\ callGeneration[c] = pipe

\* While the connection is authenticated, the subscriptions the server holds,
\* once it has read what was sent, are the ones the application has.
SubscriptionsAgree == authenticated /\ pipe # 0 => held = Active

\* Once the acknowledgement came, no ack timer of this connection is running, on
\* carriers whose sends do not throw (the WebSocket adapter's): every path that
\* sends the auth frame holds the timer it arms.
AckTimerDone ==
  authenticated /\ ~sendsThrow => connectGeneration \notin ticking

\* Nothing of an earlier connection is left: no carrier, no promise, no timer.
NothingDangles == NoLeakedPipe /\ PendingOnLivePipe /\ AckTimerDone

=============================================================================
