---------------------------- MODULE ServerSession ----------------------------
(***************************************************************************)
(* One server connection: the authentication state machine of              *)
(* engine/session.ts and the gate, the handshake timer and the close paths *)
(* of engine/engine.ts.  What a subscribe frame does once it is past the   *)
(* gate is module ReactiveTier's.                                          *)
(*                                                                         *)
(* `await session.handleAuth()` suspends twice: in the session until       *)
(* resolveContext settles, and in the engine for one microtask more.       *)
(* `micro` is the queue of these continuations.  Frames, timers and socket *)
(* events are macrotasks: they run when it is empty.  Contexts may settle  *)
(* at any time, several within one macrotask too (two resolves that await  *)
(* the same key fetch).                                                    *)
(***************************************************************************)
EXTENDS Sequences

CONSTANTS
  AuthFrame,     \* bound: the auth frames the client sends
  Call,          \* bound: the call frames the client sends
  Token,         \* the tokens an auth frame may carry
  Null,          \* no token
  Garbage,       \* a token that is missing, empty or not a string
  RequiresAuth   \* resolveContext was given

ASSUME RequiresAuthAssumption == RequiresAuth \in BOOLEAN
ASSUME NullAssumption == Null \notin Token /\ Garbage \notin Token \cup {Null}

VARIABLES
  authenticated, token,  \* the Session
  closed, reason,        \* the closed guard; what the adapter's close said
  timer,                 \* the handshake timer
  stage, rawToken, settled,  \* per auth frame: its handler and its token, and
                             \* how its resolveContext settled
  micro,                 \* the microtasks queued by auth frames
  call, callToken,       \* per call frame: its handler and its token
  firstSent,             \* history: the first frame the server sent
  violated               \* history: the client broke the protocol

sessionVars == <<authenticated, token>>
closeVars   == <<closed, reason, timer>>
authVars    == <<stage, rawToken, settled, micro>>
callVars    == <<call, callToken>>
vars == <<sessionVars, closeVars, authVars, callVars, firstSent, violated>>

Outcome == {"ack", "committed", "transient", "auth-failed"}

TypeOK ==
  /\ authenticated \in BOOLEAN
  /\ token \in Token \cup {Null}
  /\ closed \in BOOLEAN
  /\ reason \in {"open", "auth-failed", "transient", "detached"}
  /\ timer \in {"armed", "cleared", "fired"}
  /\ stage \in [AuthFrame -> Outcome \cup {"unsent", "resolving", "settled", "acking", "done"}]
  /\ rawToken \in [AuthFrame -> Token \cup {Null}]
  /\ settled \in [AuthFrame -> {"pending", "context", "rejected", "unavailable"}]
  /\ micro \in Seq(AuthFrame)
  /\ call \in [Call -> {"unsent", "context", "dispatch", "done"}]
  /\ callToken \in [Call -> Token \cup {Null}]
  /\ firstSent \in {"nothing", "authenticated", "result", "error"}
  /\ violated \in BOOLEAN

Init ==
  /\ authenticated = ~RequiresAuth
  /\ token = Null
  /\ closed = FALSE
  /\ reason = "open"
  /\ timer = IF RequiresAuth THEN "armed" ELSE "cleared"
  /\ stage = [f \in AuthFrame |-> "unsent"]
  /\ rawToken = [f \in AuthFrame |-> Null]
  /\ settled = [f \in AuthFrame |-> "pending"]
  /\ micro = <<>>
  /\ call = [k \in Call |-> "unsent"]
  /\ callToken = [k \in Call |-> Null]
  /\ firstSent = "nothing"
  /\ violated = FALSE

-----------------------------------------------------------------------------
\* A pipe drops what is sent after its close, and may lose it before
Send(m) ==
  firstSent' \in IF closed \/ firstSent # "nothing" THEN {firstSent} ELSE {m, firstSent}

\* teardown, the adapter's hook and the pipe's close: the closed guard was seen
\* open by the caller
CloseWith(r) ==
  /\ closed' = TRUE
  /\ reason' = r
  /\ timer' = IF timer = "armed" THEN "cleared" ELSE timer

\* A macrotask of an open connection
Macrotask == micro = <<>> /\ ~closed

-----------------------------------------------------------------------------
(* Auth frames *)

\* Seeded fault: whatever the frame holds is taken for a token.
Normalized_Raw(raw) == raw

Normalized(raw) == IF raw \in Token THEN raw ELSE Null

\* Seeded fault: the handshake timer is disarmed by the frame, not its outcome.
HandleAuth_Disarms(f, raw) ==
  /\ Macrotask
  /\ stage[f] = "unsent"
  /\ rawToken' = [rawToken EXCEPT ![f] = Normalized(raw)]
  /\ stage' = [stage EXCEPT ![f] = IF authenticated THEN "ack" ELSE "resolving"]
  /\ micro' = IF authenticated THEN <<f>> ELSE micro
  /\ timer' = "cleared"
  /\ UNCHANGED <<sessionVars, closed, reason, settled, callVars, firstSent, violated>>

\* Seeded fault: a repeat frame's token is adopted before the acknowledgement.
HandleAuth_Adopts(f, raw) ==
  /\ Macrotask
  /\ stage[f] = "unsent"
  /\ rawToken' = [rawToken EXCEPT ![f] = Normalized(raw)]
  /\ stage' = [stage EXCEPT ![f] = IF authenticated THEN "ack" ELSE "resolving"]
  /\ micro' = IF authenticated THEN <<f>> ELSE micro
  /\ token' = IF authenticated THEN Normalized(raw) ELSE token
  /\ UNCHANGED <<authenticated, closeVars, settled, callVars, firstSent, violated>>

\* A repeat frame is acknowledged without a look at its token
HandleAuth(f, raw) ==
  /\ Macrotask
  /\ stage[f] = "unsent"
  /\ rawToken' = [rawToken EXCEPT ![f] = Normalized(raw)]
  /\ stage' = [stage EXCEPT ![f] = IF authenticated THEN "ack" ELSE "resolving"]
  /\ micro' = IF authenticated THEN <<f>> ELSE micro
  /\ UNCHANGED <<sessionVars, closeVars, settled, callVars, firstSent, violated>>

\* resolveContext settles: the identity provider answers, refuses or is away
Settle(f) ==
  /\ stage[f] = "resolving"
  /\ stage' = [stage EXCEPT ![f] = "settled"]
  /\ \E s \in {"context", "rejected", "unavailable"} :
       settled' = [settled EXCEPT ![f] = s]
  /\ micro' = Append(micro, f)
  /\ UNCHANGED <<sessionVars, closeVars, rawToken, callVars, firstSent, violated>>

\* Seeded fault: no second look at the gate after the await.
DecidedOutcome_NoRecheck(f) ==
  CASE settled[f] = "context"     -> "committed"
    [] settled[f] = "unavailable" -> IF authenticated THEN "ack" ELSE "transient"
    [] OTHER                      -> IF authenticated THEN "ack" ELSE "auth-failed"

\* What the session makes of a settled context: its second look at the gate
DecidedOutcome(f) ==
  IF authenticated
  THEN "ack"
  ELSE CASE settled[f] = "context"     -> "committed"
         [] settled[f] = "unavailable" -> "transient"
         [] OTHER                      -> "auth-failed"

\* The continuation of `await this.resolveContext(req)`
SessionContinues(f) ==
  /\ micro # <<>> /\ Head(micro) = f
  /\ stage[f] = "settled"
  /\ stage' = [stage EXCEPT ![f] = DecidedOutcome(f)]
  /\ IF DecidedOutcome(f) = "committed"
       THEN token' = rawToken[f] /\ authenticated' = TRUE
       ELSE UNCHANGED sessionVars
  /\ micro' = Append(Tail(micro), f)
  /\ UNCHANGED <<closeVars, rawToken, settled, callVars, firstSent, violated>>

\* Seeded fault: the committing ack leaves the handshake timer armed.
EngineContinues_KeepsTimer(f) ==
  /\ micro # <<>> /\ Head(micro) = f
  /\ micro' = Tail(micro)
  /\ stage[f] \in Outcome
  /\ \/ /\ closed \/ stage[f] \in {"ack", "committed"}
        /\ stage' = [stage EXCEPT ![f] = "done"]
        /\ Send("authenticated")
        /\ UNCHANGED closeVars
     \/ /\ ~closed /\ stage[f] \in {"transient", "auth-failed"}
        /\ stage' = [stage EXCEPT ![f] = "done"]
        /\ CloseWith(stage[f])
        /\ UNCHANGED firstSent
  /\ UNCHANGED <<sessionVars, rawToken, settled, callVars, violated>>

\* The continuation of `await session.handleAuth(rawToken)`.  The committing ack
\* is sent with its failure observed: at once, or when the send's promise rejects
EngineContinues(f) ==
  /\ micro # <<>> /\ Head(micro) = f
  /\ micro' = Tail(micro)
  /\ \/ /\ closed /\ stage[f] \in Outcome
        /\ stage' = [stage EXCEPT ![f] = "done"]
        /\ UNCHANGED <<closeVars, firstSent>>
     \/ /\ ~closed /\ stage[f] \in {"transient", "auth-failed"}
        /\ stage' = [stage EXCEPT ![f] = "done"]
        /\ CloseWith(stage[f])
        /\ UNCHANGED firstSent
     \/ /\ ~closed /\ stage[f] = "ack"
        /\ stage' = [stage EXCEPT ![f] = "done"]
        /\ Send("authenticated")
        /\ UNCHANGED closeVars
     \/ /\ ~closed /\ stage[f] = "committed"
        /\ \/ /\ stage' = [stage EXCEPT ![f] = "done"]
              /\ CloseWith("transient")
              /\ UNCHANGED firstSent
           \/ /\ stage' = [stage EXCEPT ![f] = "acking"]
              /\ firstSent' = IF firstSent = "nothing" THEN "authenticated" ELSE firstSent
              /\ timer' = "cleared"
              /\ UNCHANGED <<closed, reason>>
  /\ UNCHANGED <<sessionVars, rawToken, settled, callVars, violated>>

\* The committing ack's send rejects after all
AckFails(f) ==
  /\ stage[f] = "acking"
  /\ stage' = [stage EXCEPT ![f] = "done"]
  /\ IF closed THEN UNCHANGED closeVars ELSE CloseWith("transient")
  /\ UNCHANGED <<sessionVars, rawToken, settled, micro, callVars, firstSent, violated>>

-----------------------------------------------------------------------------
(* Every other frame, the timer and the socket *)

\* A frame that is no message: fatal before the handshake, answered after it
Malformed ==
  /\ Macrotask
  /\ IF authenticated
       THEN Send("error") /\ UNCHANGED <<closeVars, violated>>
       ELSE CloseWith("auth-failed") /\ violated' = TRUE /\ UNCHANGED firstSent
  /\ UNCHANGED <<sessionVars, authVars, callVars>>

\* Before the handshake a call, action, subscribe or unsubscribe frame is fatal
HandleCall(k) ==
  /\ Macrotask
  /\ call[k] = "unsent"
  /\ \/ /\ ~authenticated
        /\ CloseWith("auth-failed")
        /\ violated' = TRUE
        /\ UNCHANGED <<callVars, firstSent>>
     \/ /\ authenticated
        /\ call' = [call EXCEPT ![k] = "done"]     \* unknown function
        /\ Send("error")
        /\ UNCHANGED <<closeVars, callToken, violated>>
     \/ /\ authenticated
        /\ call' = [call EXCEPT ![k] = "context"]
        /\ callToken' = [callToken EXCEPT ![k] = token]
        /\ UNCHANGED <<closeVars, firstSent, violated>>
  /\ UNCHANGED <<sessionVars, authVars>>

\* resolveSubContext settles
CallContext(k) ==
  /\ call[k] = "context"
  /\ \/ /\ call' = [call EXCEPT ![k] = "done"]
        /\ Send("error")
     \/ /\ call' = [call EXCEPT ![k] = IF closed THEN "done" ELSE "dispatch"]
        /\ UNCHANGED firstSent
  /\ UNCHANGED <<sessionVars, closeVars, authVars, callToken, violated>>

\* app.call settles: a result or an error, unless the connection is gone
CallSettles(k) ==
  /\ call[k] = "dispatch"
  /\ call' = [call EXCEPT ![k] = "done"]
  /\ Send("result") \/ Send("error")
  /\ UNCHANGED <<sessionVars, closeVars, authVars, callToken, violated>>

Timeout ==
  /\ Macrotask
  /\ timer = "armed"
  /\ closed' = TRUE
  /\ reason' = "transient"
  /\ timer' = "fired"
  /\ UNCHANGED <<sessionVars, authVars, callVars, firstSent, violated>>

\* The socket closed: the adapter detaches the engine
Detach ==
  /\ Macrotask
  /\ CloseWith("detached")
  /\ UNCHANGED <<sessionVars, authVars, callVars, firstSent, violated>>

-----------------------------------------------------------------------------
AuthNext(f) == \/ \E raw \in Token \cup {Null, Garbage} : HandleAuth(f, raw)
               \/ Settle(f)
               \/ SessionContinues(f)
               \/ EngineContinues(f)
               \/ AckFails(f)

CallNext(k) == HandleCall(k) \/ CallContext(k) \/ CallSettles(k)

Next == \/ \E f \in AuthFrame : AuthNext(f)
        \/ \E k \in Call : CallNext(k)
        \/ Malformed
        \/ Timeout
        \/ Detach

Spec == Init /\ [][Next]_vars

\* The event loop drains its microtasks and fires an armed timer.  Nothing is
\* assumed of resolveContext: it may never settle
Fairness ==
  /\ WF_vars(Timeout)
  /\ \A f \in AuthFrame : WF_vars(SessionContinues(f)) /\ WF_vars(EngineContinues(f))

FairSpec == Spec /\ Fairness

-----------------------------------------------------------------------------
(* Properties *)

\* Once a connection is authenticated, its identity is fixed: no slower, later
\* or repeated auth frame swaps the token its calls are resolved with.
IdentityKept == [][authenticated => authenticated' /\ token' = token]_vars

\* Every call runs with the token of the connection, and on a server that asks
\* for a handshake that is the token of a frame the identity provider accepted.
CallsAreIdentified ==
  \A k \in Call : call[k] # "unsent" =>
    /\ authenticated
    /\ call[k] # "done" => callToken[k] = token
    /\ RequiresAuth => \E f \in AuthFrame : settled[f] = "context" /\ rawToken[f] = token

\* The handshake timer never closes a connection that authenticated.
TimerSparesAuthenticated ==
  [][timer # "fired" /\ timer' = "fired" => ~authenticated]_vars

\* On a server that asks for a handshake, whatever a client is sent first is
\* the acknowledgement: nothing is answered across the gate.
AckFirst == RequiresAuth => firstSent \in {"nothing", "authenticated"}

\* The gate, from both sides: who is let through, and what is let out.
GateHolds == CallsAreIdentified /\ AckFirst

\* A connection is told not to retry only when a token was refused or the
\* client broke the protocol, never because the provider was unreachable.
RefusedForCause ==
  reason = "auth-failed" => violated \/ \E f \in AuthFrame : settled[f] = "rejected"

\* The server closes a connection for a reason it has: neither an outage nor a
\* timer that lost its race ends one for good.
ClosedForCause == []RefusedForCause /\ TimerSparesAuthenticated

\* No connection stays half open: it authenticates or it closes, even if
\* resolveContext never settles.
HandshakeEnds == ~authenticated /\ ~closed ~> authenticated \/ closed

\* A connection that has authenticated is not closed as a failed authentication.
AuthenticatedNotRefused ==
  [][reason # "auth-failed" /\ reason' = "auth-failed" => ~authenticated]_vars

=============================================================================
