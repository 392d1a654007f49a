------------------------ MODULE ServerSessionProofs ------------------------
(***************************************************************************)
(* Theorems about ServerSession, for every number of auth and call frames, *)
(* every set of tokens, and an app that asks for a handshake or not.       *)
(***************************************************************************)
EXTENDS ServerSession, Naturals, TLAPS

USE RequiresAuthAssumption, NullAssumption

-----------------------------------------------------------------------------
(* Type correctness *)

LEMMA InitTypeOK == Init => TypeOK
<1> SUFFICES ASSUME Init PROVE TypeOK
  OBVIOUS
<1>1. micro \in Seq(AuthFrame)
  BY DEF Init
<1>2. QED
  BY <1>1 DEF Init, TypeOK

\* Sending leaves the first frame sent one of the frames there are.
LEMMA SendType ==
  ASSUME TypeOK, NEW m \in {"authenticated", "result", "error"}, Send(m)
  PROVE  firstSent' \in {"nothing", "authenticated", "result", "error"}
  BY DEF Send, TypeOK

\* The values of every variable stay in their sets, whatever frame is handled
\* and whatever continuation runs.
LEMMA TypeOKStep == TypeOK /\ [Next]_vars => TypeOK'
<1> SUFFICES ASSUME TypeOK, [Next]_vars PROVE TypeOK'
  OBVIOUS
<1> USE DEF sessionVars, closeVars, authVars, callVars
<1>1. ASSUME NEW f \in AuthFrame, NEW raw \in Token \cup {Null, Garbage}, HandleAuth(f, raw)
      PROVE  TypeOK'
  <2>1. Normalized(raw) \in Token \cup {Null}
    BY DEF Normalized
  <2>2. micro' \in Seq(AuthFrame)
    BY <1>1 DEF HandleAuth, TypeOK
  <2>3. rawToken' \in [AuthFrame -> Token \cup {Null}]
    BY <1>1, <2>1 DEF HandleAuth, TypeOK
  <2>4. stage' \in [AuthFrame -> Outcome \cup {"unsent", "resolving", "settled", "acking", "done"}]
    BY <1>1 DEF HandleAuth, TypeOK, Outcome
  <2>5. QED
    BY <1>1, <2>2, <2>3, <2>4 DEF HandleAuth, TypeOK
<1>2. ASSUME NEW f \in AuthFrame, Settle(f)
      PROVE  TypeOK'
  BY <1>2 DEF Settle, TypeOK
<1>3. ASSUME NEW f \in AuthFrame, SessionContinues(f)
      PROVE  TypeOK'
  <2>1. DecidedOutcome(f) \in Outcome
    BY DEF DecidedOutcome, Outcome
  <2>2. rawToken[f] \in Token \cup {Null}
    BY DEF TypeOK
  <2>3. micro' \in Seq(AuthFrame)
    BY <1>3 DEF SessionContinues, TypeOK
  <2>4. token' \in Token \cup {Null} /\ authenticated' \in BOOLEAN
    BY <1>3, <2>2 DEF SessionContinues, TypeOK
  <2>5. QED
    BY <1>3, <2>1, <2>3, <2>4 DEF SessionContinues, TypeOK
<1>4. ASSUME NEW f \in AuthFrame, EngineContinues(f)
      PROVE  TypeOK'
  <2>1. micro' \in Seq(AuthFrame)
    BY <1>4 DEF EngineContinues, TypeOK
  <2>2. QED
    BY <1>4, <2>1 DEF EngineContinues, CloseWith, Send, TypeOK, Outcome
<1>5. ASSUME NEW f \in AuthFrame, AckFails(f)
      PROVE  TypeOK'
  BY <1>5 DEF AckFails, CloseWith, TypeOK
<1>6. ASSUME NEW k \in Call, CallNext(k)
      PROVE  TypeOK'
  <2>1. CASE HandleCall(k)
    <3>1. firstSent' \in {"nothing", "authenticated", "result", "error"}
      BY <2>1, SendType DEF HandleCall, TypeOK
    <3>2. call' \in [Call -> {"unsent", "context", "dispatch", "done"}]
      BY <2>1 DEF HandleCall, TypeOK
    <3>3. callToken' \in [Call -> Token \cup {Null}]
      BY <2>1 DEF HandleCall, TypeOK
    <3>4. QED
      BY <2>1, <3>1, <3>2, <3>3 DEF HandleCall, CloseWith, TypeOK
  <2>2. CASE CallContext(k)
    <3>1. firstSent' \in {"nothing", "authenticated", "result", "error"}
      BY <2>2, SendType DEF CallContext, TypeOK
    <3>2. QED
      BY <2>2, <3>1 DEF CallContext, TypeOK
  <2>3. CASE CallSettles(k)
    <3>1. firstSent' \in {"nothing", "authenticated", "result", "error"}
      BY <2>3, SendType DEF CallSettles
    <3>2. QED
      BY <2>3, <3>1 DEF CallSettles, TypeOK
  <2>4. QED
    BY <1>6, <2>1, <2>2, <2>3 DEF CallNext
<1>7. CASE Malformed
  BY <1>7 DEF Malformed, CloseWith, Send, TypeOK
<1>8. CASE Timeout
  BY <1>8 DEF Timeout, TypeOK
<1>9. CASE Detach
  BY <1>9 DEF Detach, CloseWith, TypeOK
<1>10. CASE UNCHANGED vars
  BY <1>10 DEF vars, TypeOK
<1>11. QED
  BY <1>1, <1>2, <1>3, <1>4, <1>5, <1>6, <1>7, <1>8, <1>9, <1>10 DEF Next, AuthNext

\* Every variable keeps a value of its set.
THEOREM TypeCorrect == Spec => []TypeOK
<1>1. Init => TypeOK
  BY InitTypeOK
<1>2. TypeOK /\ [Next]_vars => TypeOK'
  BY TypeOKStep
<1>3. QED
  BY <1>1, <1>2, PTL DEF Spec

-----------------------------------------------------------------------------
(* The identity of a connection *)

LEMMA KeepsIdentity ==
  ASSUME [Next]_vars
  PROVE  authenticated => authenticated' /\ token' = token
<1> USE DEF sessionVars, closeVars, authVars, callVars
<1>1. ASSUME NEW f \in AuthFrame, AuthNext(f)
      PROVE  authenticated => authenticated' /\ token' = token
  <2>1. CASE SessionContinues(f)
    <3>1. authenticated => DecidedOutcome(f) = "ack"
      BY DEF DecidedOutcome
    <3>2. QED
      BY <2>1, <3>1 DEF SessionContinues
  <2>2. CASE ~SessionContinues(f)
    BY <1>1, <2>2 DEF AuthNext, HandleAuth, Settle, EngineContinues, AckFails
  <2>3. QED
    BY <2>1, <2>2
<1>2. ASSUME NEW k \in Call, CallNext(k)
      PROVE  UNCHANGED sessionVars
  BY <1>2 DEF CallNext, HandleCall, CallContext, CallSettles
<1>3. CASE Malformed \/ Timeout \/ Detach
  BY <1>3 DEF Malformed, Timeout, Detach
<1>4. CASE UNCHANGED vars
  BY <1>4 DEF vars
<1>5. QED
  BY <1>1, <1>2, <1>3, <1>4 DEF Next

\* Once a connection is authenticated its token is fixed: a frame that settles
\* later finds the gate open at its second look (session.ts, handleAuth).
THEOREM IdentityIsKept == Spec => IdentityKept
<1>1. [Next]_vars => (authenticated => authenticated' /\ token' = token)
  BY KeepsIdentity
<1>2. QED
  BY <1>1, PTL DEF Spec, IdentityKept

-----------------------------------------------------------------------------
(* The inductive invariants *)

\* An auth frame's handler and its resolveContext agree.
Settlement ==
  \A f \in AuthFrame :
    /\ stage[f] \in {"unsent", "resolving"} => settled[f] = "pending"
    /\ stage[f] = "settled" => settled[f] # "pending"
    /\ stage[f] = "auth-failed" => settled[f] = "rejected"

\* The token of a connection is one the identity provider accepted.
Vouched ==
  RequiresAuth /\ authenticated =>
    \E f \in AuthFrame : settled[f] = "context" /\ rawToken[f] = token

\* The continuation that will acknowledge the committing frame is queued.
CommitQueued == \E i \in 1 .. Len(micro) : stage[micro[i]] = "committed"

\* Between the commit in the session and the engine's continuation, nothing
\* but that microtask separates the connection from its acknowledgement.
AckComes ==
  /\ authenticated /\ ~closed
  /\ timer = "armed" \/ (RequiresAuth /\ firstSent = "nothing")
  => CommitQueued

\* A call is read after the acknowledgement was sent.
CallsFollowAck ==
  RequiresAuth => \A k \in Call : call[k] # "unsent" => closed \/ firstSent # "nothing"

GateInv ==
  /\ TypeOK
  /\ Settlement
  /\ Vouched
  /\ AckComes
  /\ CallsFollowAck
  /\ CallsAreIdentified
  /\ AckFirst
  /\ RefusedForCause

-----------------------------------------------------------------------------
LEMMA InitGateInv == Init => GateInv
<1> SUFFICES ASSUME Init PROVE GateInv
  OBVIOUS
<1>1. TypeOK
  BY InitTypeOK
<1>2. Settlement
  BY DEF Init, Settlement
<1>3. Vouched /\ AckComes
  BY DEF Init, Vouched, AckComes
<1>4. CallsFollowAck /\ CallsAreIdentified
  BY DEF Init, CallsFollowAck, CallsAreIdentified
<1>5. AckFirst /\ RefusedForCause
  BY DEF Init, AckFirst, RefusedForCause
<1>6. QED
  BY <1>1, <1>2, <1>3, <1>4, <1>5 DEF GateInv

\* What a step of the calls, the timer, the socket or a malformed frame leaves
\* of the auth frames and of the session.
LEMMA OthersKeepAuth ==
  ASSUME (\E k \in Call : CallNext(k)) \/ Malformed \/ Timeout \/ Detach \/ UNCHANGED vars
  PROVE  UNCHANGED <<authenticated, token, stage, rawToken, settled, micro>>
  BY DEF CallNext, HandleCall, CallContext, CallSettles, Malformed, Timeout, Detach, vars,
         sessionVars, closeVars, authVars, callVars

LEMMA SettlementStep == TypeOK /\ Settlement /\ [Next]_vars => Settlement'
<1> SUFFICES ASSUME TypeOK, Settlement, [Next]_vars PROVE Settlement'
  OBVIOUS
<1> USE DEF sessionVars, closeVars, authVars, callVars
<1>t. /\ stage \in [AuthFrame -> Outcome \cup {"unsent", "resolving", "settled", "acking", "done"}]
      /\ settled \in [AuthFrame -> {"pending", "context", "rejected", "unavailable"}]
  BY DEF TypeOK
<1>1. ASSUME NEW f \in AuthFrame, AuthNext(f)
      PROVE  Settlement'
  <2>1. ASSUME NEW raw, HandleAuth(f, raw)
        PROVE  Settlement'
    BY <1>t, <2>1 DEF HandleAuth, Settlement
  <2>2. CASE Settle(f)
    BY <1>t, <2>2 DEF Settle, Settlement
  <2>3. CASE SessionContinues(f)
    <3>1. DecidedOutcome(f) \in Outcome
      BY DEF DecidedOutcome, Outcome
    <3>2. DecidedOutcome(f) = "auth-failed" => settled[f] = "rejected"
      BY <1>t, <2>3 DEF DecidedOutcome, SessionContinues, Settlement
    <3>3. QED
      BY <1>t, <2>3, <3>1, <3>2 DEF SessionContinues, Settlement, Outcome
  <2>4. CASE EngineContinues(f)
    BY <1>t, <2>4 DEF EngineContinues, Settlement
  <2>5. CASE AckFails(f)
    BY <1>t, <2>5 DEF AckFails, Settlement
  <2>6. QED
    BY <1>1, <2>1, <2>2, <2>3, <2>4, <2>5 DEF AuthNext
<1>2. CASE (\E k \in Call : CallNext(k)) \/ Malformed \/ Timeout \/ Detach \/ UNCHANGED vars
  BY <1>2, OthersKeepAuth DEF Settlement
<1>3. QED
  BY <1>1, <1>2 DEF Next

LEMMA VouchedStep == TypeOK /\ Settlement /\ Vouched /\ [Next]_vars => Vouched'
<1> SUFFICES ASSUME TypeOK, Settlement, Vouched, [Next]_vars,
                    RequiresAuth, authenticated'
             PROVE  \E f \in AuthFrame : settled'[f] = "context" /\ rawToken'[f] = token'
  BY DEF Vouched
<1> USE DEF sessionVars, closeVars, authVars, callVars
<1>t. /\ rawToken \in [AuthFrame -> Token \cup {Null}]
      /\ settled \in [AuthFrame -> {"pending", "context", "rejected", "unavailable"}]
  BY DEF TypeOK
<1>1. ASSUME NEW f \in AuthFrame, SessionContinues(f), ~authenticated
      PROVE  settled'[f] = "context" /\ rawToken'[f] = token'
  BY <1>1 DEF SessionContinues, DecidedOutcome
<1>2. ASSUME authenticated, token' = token
      PROVE  \E f \in AuthFrame : settled'[f] = "context" /\ rawToken'[f] = token'
  <2>1. PICK g \in AuthFrame : settled[g] = "context" /\ rawToken[g] = token
    BY <1>2 DEF Vouched
  <2>2. stage[g] \notin {"unsent", "resolving"}
    BY <2>1 DEF Settlement
  <2>3. settled'[g] = settled[g] /\ rawToken'[g] = rawToken[g]
    <3>1. ASSUME NEW f \in AuthFrame, AuthNext(f)
          PROVE  settled'[g] = settled[g] /\ rawToken'[g] = rawToken[g]
      <4>1. ASSUME NEW raw, HandleAuth(f, raw)
            PROVE  settled'[g] = settled[g] /\ rawToken'[g] = rawToken[g]
        BY <1>t, <2>2, <4>1 DEF HandleAuth
      <4>2. CASE Settle(f)
        BY <1>t, <2>2, <4>2 DEF Settle
      <4>3. CASE SessionContinues(f) \/ EngineContinues(f) \/ AckFails(f)
        BY <4>3 DEF SessionContinues, EngineContinues, AckFails
      <4>4. QED
        BY <3>1, <4>1, <4>2, <4>3 DEF AuthNext
    <3>2. QED
      BY <3>1, OthersKeepAuth DEF Next
  <2>4. QED
    BY <1>2, <2>1, <2>3
<1>3. CASE authenticated
  <2>1. token' = token
    BY <1>3, KeepsIdentity
  <2>2. QED
    BY <1>2, <1>3, <2>1
<1>4. CASE ~authenticated
  <2>1. PICK f \in AuthFrame : SessionContinues(f)
    <3>1. ASSUME NEW f \in AuthFrame, AuthNext(f), ~SessionContinues(f)
          PROVE  authenticated' = authenticated
      BY <3>1 DEF AuthNext, HandleAuth, Settle, EngineContinues, AckFails
    <3>2. QED
      BY <1>4, <3>1, OthersKeepAuth DEF Next
  <2>2. QED
    BY <1>1, <1>4, <2>1
<1>5. QED
  BY <1>3, <1>4

-----------------------------------------------------------------------------
(* The acknowledgement *)

\* The first frame sent stays the first, and nothing is sent once closed.
LEMMA FirstSentStays ==
  ASSUME NEW m, Send(m), firstSent # "nothing" \/ closed
  PROVE  firstSent' = firstSent
  BY DEF Send

\* Whatever step is taken, a frame that was sent is not taken back.
LEMMA SentStays ==
  ASSUME [Next]_vars, firstSent # "nothing"
  PROVE  firstSent' = firstSent
<1> USE DEF sessionVars, closeVars, authVars, callVars
<1>1. ASSUME NEW f \in AuthFrame, AuthNext(f)
      PROVE  firstSent' = firstSent
  BY <1>1, FirstSentStays DEF AuthNext, HandleAuth, Settle, SessionContinues, EngineContinues, AckFails
<1>2. ASSUME NEW k \in Call, CallNext(k)
      PROVE  firstSent' = firstSent
  BY <1>2, FirstSentStays DEF CallNext, HandleCall, CallContext, CallSettles
<1>3. CASE Malformed \/ Timeout \/ Detach
  BY <1>3, FirstSentStays DEF Malformed, Timeout, Detach
<1>4. CASE UNCHANGED vars
  BY <1>4 DEF vars
<1>5. QED
  BY <1>1, <1>2, <1>3, <1>4 DEF Next

\* A closed connection stays closed, with the reason it was closed for.
LEMMA ClosedStays ==
  ASSUME [Next]_vars, closed
  PROVE  closed' /\ reason' = reason /\ firstSent' = firstSent
<1> USE DEF sessionVars, closeVars, authVars, callVars, Macrotask
<1>1. ASSUME NEW f \in AuthFrame, AuthNext(f)
      PROVE  closed' /\ reason' = reason /\ firstSent' = firstSent
  BY <1>1, FirstSentStays DEF AuthNext, HandleAuth, Settle, SessionContinues, EngineContinues, AckFails
<1>2. ASSUME NEW k \in Call, CallNext(k)
      PROVE  closed' /\ reason' = reason /\ firstSent' = firstSent
  BY <1>2, FirstSentStays DEF CallNext, HandleCall, CallContext, CallSettles
<1>3. CASE Malformed \/ Timeout \/ Detach
  BY <1>3, FirstSentStays DEF Malformed, Timeout, Detach
<1>4. CASE UNCHANGED vars
  BY <1>4 DEF vars
<1>5. QED
  BY <1>1, <1>2, <1>3, <1>4 DEF Next

\* A queued commit stays queued while another continuation runs.
LEMMA CommitStaysQueued ==
  ASSUME TypeOK, CommitQueued, NEW f \in AuthFrame,
         micro # <<>>, Head(micro) = f, stage[f] # "committed",
         NEW q \in Seq(AuthFrame), q = Tail(micro) \/ q = Append(Tail(micro), f)
  PROVE  \E i \in 1 .. Len(q) : stage[q[i]] = "committed" /\ q[i] # f
<1>1. micro \in Seq(AuthFrame)
  BY DEF TypeOK
<1>2. PICK i \in 1 .. Len(micro) : stage[micro[i]] = "committed"
  BY DEF CommitQueued
<1>3. i # 1 /\ micro[i] # f
  BY <1>1, <1>2
<1>4. i - 1 \in 1 .. Len(q) /\ q[i - 1] = micro[i]
  BY <1>1, <1>2, <1>3
<1>5. QED
  BY <1>2, <1>3, <1>4

LEMMA AckComesStep == TypeOK /\ AckComes /\ [Next]_vars => AckComes'
<1> SUFFICES ASSUME TypeOK, AckComes, [Next]_vars,
                    authenticated', ~closed',
                    timer' = "armed" \/ (RequiresAuth /\ firstSent' = "nothing")
             PROVE  CommitQueued'
  BY DEF AckComes
<1> USE DEF sessionVars, closeVars, authVars, callVars
<1>t. /\ micro \in Seq(AuthFrame)
      /\ stage \in [AuthFrame -> Outcome \cup {"unsent", "resolving", "settled", "acking", "done"}]
  BY DEF TypeOK
<1>1. ASSUME NEW f \in AuthFrame, NEW raw, HandleAuth(f, raw)
      PROVE  CommitQueued'
  <2>1. CommitQueued
    BY <1>1 DEF HandleAuth, AckComes
  <2>2. QED
    BY <1>1, <2>1 DEF HandleAuth, Macrotask, CommitQueued
<1>2. ASSUME NEW f \in AuthFrame, Settle(f)
      PROVE  CommitQueued'
  <2>1. CommitQueued
    BY <1>2 DEF Settle, AckComes
  <2>2. PICK i \in 1 .. Len(micro) : stage[micro[i]] = "committed"
    BY <2>1 DEF CommitQueued
  <2>3. i \in 1 .. Len(micro') /\ micro'[i] = micro[i]
    BY <1>t, <1>2, <2>2 DEF Settle
  <2>4. stage'[micro[i]] = "committed"
    BY <1>t, <1>2, <2>2 DEF Settle
  <2>5. QED
    BY <2>3, <2>4 DEF CommitQueued
<1>3. ASSUME NEW f \in AuthFrame, SessionContinues(f)
      PROVE  CommitQueued'
  <2>1. micro' = Append(Tail(micro), f) /\ micro' \in Seq(AuthFrame)
    BY <1>t, <1>3 DEF SessionContinues
  <2>2. CASE DecidedOutcome(f) = "committed"
    <3>1. Len(micro') \in 1 .. Len(micro') /\ micro'[Len(micro')] = f
      BY <1>t, <1>3, <2>1 DEF SessionContinues
    <3>2. stage'[f] = "committed"
      BY <1>t, <1>3, <2>2 DEF SessionContinues
    <3>3. QED
      BY <3>1, <3>2 DEF CommitQueued
  <2>3. CASE DecidedOutcome(f) # "committed"
    <3>1. CommitQueued
      BY <1>3, <2>3 DEF SessionContinues, AckComes
    <3>2. PICK i \in 1 .. Len(micro') : stage[micro'[i]] = "committed" /\ micro'[i] # f
      BY <1>3, <2>1, <3>1, CommitStaysQueued DEF SessionContinues
    <3>3. stage'[micro'[i]] = "committed"
      BY <1>t, <1>3, <2>1, <3>2 DEF SessionContinues
    <3>4. QED
      BY <3>2, <3>3 DEF CommitQueued
  <2>4. QED
    BY <2>2, <2>3
<1>4. ASSUME NEW f \in AuthFrame, EngineContinues(f)
      PROVE  CommitQueued'
  <2>1. micro' = Tail(micro) /\ micro' \in Seq(AuthFrame) /\ micro # <<>> /\ Head(micro) = f
    BY <1>t, <1>4 DEF EngineContinues
  <2>2. stage[f] # "committed"
    BY <1>4 DEF EngineContinues, CloseWith
  <2>3. CommitQueued
    <3>1. firstSent' = "nothing" => firstSent = "nothing"
      BY <1>4 DEF EngineContinues, Send
    <3>2. authenticated /\ ~closed /\ (timer' = "armed" => timer = "armed")
      BY <1>4 DEF EngineContinues, CloseWith
    <3>3. QED
      BY <3>1, <3>2 DEF AckComes
  <2>4. PICK i \in 1 .. Len(micro') : stage[micro'[i]] = "committed" /\ micro'[i] # f
    BY <2>1, <2>2, <2>3, CommitStaysQueued
  <2>5. stage'[micro'[i]] = "committed"
    BY <1>t, <1>4, <2>1, <2>4 DEF EngineContinues
  <2>6. QED
    BY <2>4, <2>5 DEF CommitQueued
<1>5. ASSUME NEW f \in AuthFrame, AckFails(f)
      PROVE  CommitQueued'
  <2>1. CommitQueued
    BY <1>5 DEF AckFails, CloseWith, AckComes
  <2>2. PICK i \in 1 .. Len(micro) : stage[micro[i]] = "committed"
    BY <2>1 DEF CommitQueued
  <2>3. stage'[micro[i]] = "committed" /\ micro' = micro
    BY <1>t, <1>5, <2>2 DEF AckFails
  <2>4. QED
    BY <2>2, <2>3 DEF CommitQueued
<1>6. CASE (\E k \in Call : CallNext(k)) \/ Malformed \/ Timeout \/ Detach \/ UNCHANGED vars
  <2>1. authenticated /\ ~closed
    BY <1>6, OthersKeepAuth, ClosedStays
  <2>2. timer' = "armed" => timer = "armed"
    BY <1>6 DEF CallNext, HandleCall, CallContext, CallSettles, Malformed, Timeout, Detach,
                vars, CloseWith
  <2>3. firstSent' = "nothing" => firstSent = "nothing"
    BY SentStays
  <2>4. CommitQueued
    BY <2>1, <2>2, <2>3 DEF AckComes
  <2>5. QED
    BY <1>6, <2>4, OthersKeepAuth DEF CommitQueued
<1>7. QED
  BY <1>1, <1>2, <1>3, <1>4, <1>5, <1>6 DEF Next, AuthNext

-----------------------------------------------------------------------------
(* What crosses the gate *)

\* Outside a continuation, an authenticated connection has been acknowledged.
LEMMA Acknowledged ==
  ASSUME TypeOK, AckComes, Macrotask, authenticated
  PROVE  timer # "armed" /\ (RequiresAuth => firstSent # "nothing")
  BY DEF AckComes, CommitQueued, Macrotask

LEMMA CallsFollowAckStep ==
  TypeOK /\ AckComes /\ CallsFollowAck /\ [Next]_vars => CallsFollowAck'
<1> SUFFICES ASSUME TypeOK, AckComes, CallsFollowAck, [Next]_vars, RequiresAuth,
                    NEW k \in Call, call'[k] # "unsent"
             PROVE  closed' \/ firstSent' # "nothing"
  BY DEF CallsFollowAck
<1>1. CASE call[k] # "unsent"
  BY <1>1, ClosedStays, SentStays DEF CallsFollowAck
<1>2. CASE call[k] = "unsent"
  <2>1. HandleCall(k)
    <3>1. ASSUME NEW j \in Call, CallNext(j), j # k \/ ~HandleCall(j)
          PROVE  call'[k] = call[k]
      <4>1. call \in [Call -> {"unsent", "context", "dispatch", "done"}]
        BY DEF TypeOK
      <4>2. CASE HandleCall(j)
        BY <3>1, <4>1, <4>2 DEF HandleCall, callVars
      <4>3. CASE CallContext(j)
        BY <1>2, <4>1, <4>3 DEF CallContext
      <4>4. CASE CallSettles(j)
        BY <1>2, <4>1, <4>4 DEF CallSettles
      <4>5. QED
        BY <3>1, <4>2, <4>3, <4>4 DEF CallNext
    <3>2. ASSUME NEW f \in AuthFrame, AuthNext(f)
          PROVE  call'[k] = call[k]
      BY <3>2 DEF AuthNext, HandleAuth, Settle, SessionContinues, EngineContinues, AckFails, callVars
    <3>3. ASSUME Malformed \/ Timeout \/ Detach \/ UNCHANGED vars
          PROVE  call'[k] = call[k]
      BY <3>3 DEF Malformed, Timeout, Detach, vars, callVars
    <3>4. QED
      BY <1>2, <3>1, <3>2, <3>3 DEF Next
  <2>2. CASE ~authenticated
    BY <2>1, <2>2 DEF HandleCall, CloseWith
  <2>3. CASE authenticated
    <3>1. firstSent # "nothing"
      BY <2>1, <2>3, Acknowledged DEF HandleCall
    <3>2. QED
      BY <3>1, SentStays
  <2>4. QED
    BY <2>2, <2>3
<1>3. QED
  BY <1>1, <1>2

LEMMA AckFirstStep ==
  TypeOK /\ AckComes /\ CallsFollowAck /\ AckFirst /\ [Next]_vars => AckFirst'
<1> SUFFICES ASSUME TypeOK, AckComes, CallsFollowAck, AckFirst, [Next]_vars, RequiresAuth
             PROVE  firstSent' \in {"nothing", "authenticated"}
  BY DEF AckFirst
<1>1. CASE firstSent # "nothing" \/ closed
  BY <1>1, SentStays, ClosedStays DEF AckFirst
<1>2. CASE firstSent = "nothing" /\ ~closed
  <2>1. ASSUME NEW f \in AuthFrame, AuthNext(f)
        PROVE  firstSent' \in {"nothing", "authenticated"}
    BY <1>2, <2>1 DEF AuthNext, HandleAuth, Settle, SessionContinues, EngineContinues, AckFails, Send
  <2>2. ASSUME NEW k \in Call, CallNext(k)
        PROVE  firstSent' = firstSent
    <3>1. CASE call[k] = "unsent"
      BY <1>2, <2>2, <3>1, Acknowledged DEF CallNext, HandleCall, CallContext, CallSettles
    <3>2. CASE call[k] # "unsent"
      BY <1>2, <3>2 DEF CallsFollowAck
    <3>3. QED
      BY <3>1, <3>2
  <2>3. CASE Malformed
    <3>1. ~authenticated
      BY <1>2, <2>3, Acknowledged DEF Malformed
    <3>2. QED
      BY <1>2, <2>3, <3>1 DEF Malformed
  <2>4. CASE Timeout \/ Detach \/ UNCHANGED vars
    BY <1>2, <2>4 DEF Timeout, Detach, vars
  <2>5. QED
    BY <1>2, <2>1, <2>2, <2>3, <2>4 DEF Next
<1>3. QED
  BY <1>1, <1>2

LEMMA CallsAreIdentifiedStep ==
  TypeOK /\ CallsAreIdentified /\ Vouched' /\ [Next]_vars => CallsAreIdentified'
<1> SUFFICES ASSUME TypeOK, CallsAreIdentified, Vouched', [Next]_vars,
                    NEW k \in Call, call'[k] # "unsent"
             PROVE  authenticated' /\ (call'[k] # "done" => callToken'[k] = token')
  BY DEF CallsAreIdentified, Vouched
<1>t. call \in [Call -> {"unsent", "context", "dispatch", "done"}]
      /\ callToken \in [Call -> Token \cup {Null}]
  BY DEF TypeOK
<1>1. CASE call'[k] = call[k] /\ callToken'[k] = callToken[k]
  BY <1>1, KeepsIdentity DEF CallsAreIdentified
<1>2. ASSUME NEW j \in Call, CallNext(j)
      PROVE  authenticated' /\ (call'[k] # "done" => callToken'[k] = token')
  <2>1. CASE j # k
    BY <1>t, <1>1, <1>2, <2>1 DEF CallNext, HandleCall, CallContext, CallSettles, callVars
  <2>2. CASE j = k
    <3>1. CASE HandleCall(k)
      BY <1>t, <1>1, <3>1 DEF HandleCall, callVars, sessionVars
    <3>2. CASE CallContext(k)
      BY <1>t, <3>2 DEF CallContext, CallsAreIdentified, sessionVars
    <3>3. CASE CallSettles(k)
      BY <1>t, <3>3 DEF CallSettles, CallsAreIdentified, sessionVars
    <3>4. QED
      BY <1>2, <2>2, <3>1, <3>2, <3>3 DEF CallNext
  <2>3. QED
    BY <2>1, <2>2
<1>3. ASSUME NEW f \in AuthFrame, AuthNext(f)
      PROVE  UNCHANGED callVars
  BY <1>3 DEF AuthNext, HandleAuth, Settle, SessionContinues, EngineContinues, AckFails
<1>4. ASSUME Malformed \/ Timeout \/ Detach \/ UNCHANGED vars
      PROVE  UNCHANGED callVars
  BY <1>4 DEF Malformed, Timeout, Detach, vars
<1>5. QED
  BY <1>1, <1>2, <1>3, <1>4 DEF Next, callVars

LEMMA RefusedForCauseStep ==
  TypeOK /\ Settlement /\ RefusedForCause /\ [Next]_vars => RefusedForCause'
<1> SUFFICES ASSUME TypeOK, Settlement, RefusedForCause, [Next]_vars, reason' = "auth-failed"
             PROVE  violated' \/ \E f \in AuthFrame : settled'[f] = "rejected"
  BY DEF RefusedForCause
<1> USE DEF sessionVars, closeVars, authVars, callVars
<1>t. settled \in [AuthFrame -> {"pending", "context", "rejected", "unavailable"}]
  BY DEF TypeOK
<1>1. ASSUME NEW f \in AuthFrame, settled[f] = "rejected"
      PROVE  settled'[f] = "rejected"
  <2>1. stage[f] # "resolving"
    BY <1>1 DEF Settlement
  <2>2. ASSUME NEW g \in AuthFrame, AuthNext(g)
        PROVE  settled'[f] = settled[f]
    BY <1>t, <2>1, <2>2 DEF AuthNext, HandleAuth, Settle, SessionContinues, EngineContinues, AckFails
  <2>3. QED
    BY <1>1, <2>2, OthersKeepAuth DEF Next
<1>2. violated => violated'
  BY DEF Next, AuthNext, HandleAuth, Settle, SessionContinues, EngineContinues, AckFails,
         CallNext, HandleCall, CallContext, CallSettles, Malformed, Timeout, Detach, vars
<1>3. CASE reason = "auth-failed"
  BY <1>1, <1>2, <1>3 DEF RefusedForCause
<1>4. CASE reason # "auth-failed"
  <2>1. ASSUME NEW f \in AuthFrame, AuthNext(f)
        PROVE  settled[f] = "rejected"
    <3>1. stage[f] = "auth-failed"
      BY <1>4, <2>1 DEF AuthNext, HandleAuth, Settle, SessionContinues, EngineContinues, AckFails,
                        CloseWith
    <3>2. QED
      BY <3>1 DEF Settlement
  <2>2. ASSUME NEW k \in Call, CallNext(k)
        PROVE  violated'
    BY <1>4, <2>2 DEF CallNext, HandleCall, CallContext, CallSettles
  <2>3. CASE Malformed
    BY <1>4, <2>3 DEF Malformed
  <2>4. CASE Timeout \/ Detach \/ UNCHANGED vars
    BY <1>4, <2>4 DEF Timeout, Detach, vars, CloseWith
  <2>5. QED
    BY <1>1, <2>1, <2>2, <2>3, <2>4 DEF Next
<1>5. QED
  BY <1>3, <1>4

-----------------------------------------------------------------------------
(* The theorems *)

LEMMA GateInvariant == Spec => []GateInv
<1>1. GateInv /\ [Next]_vars => GateInv'
  <2> SUFFICES ASSUME GateInv, [Next]_vars PROVE GateInv'
    OBVIOUS
  <2>1. TypeOK /\ Settlement /\ Vouched /\ AckComes /\ CallsFollowAck /\ CallsAreIdentified
        /\ AckFirst /\ RefusedForCause
    BY DEF GateInv
  <2>2. TypeOK'
    BY <2>1, TypeOKStep
  <2>3. Settlement'
    BY <2>1, SettlementStep
  <2>4. Vouched'
    BY <2>1, VouchedStep
  <2>5. AckComes'
    BY <2>1, AckComesStep
  <2>6. CallsFollowAck'
    BY <2>1, CallsFollowAckStep
  <2>7. CallsAreIdentified'
    BY <2>1, <2>4, CallsAreIdentifiedStep
  <2>8. AckFirst'
    BY <2>1, AckFirstStep
  <2>9. RefusedForCause'
    BY <2>1, RefusedForCauseStep
  <2>10. QED
    BY <2>2, <2>3, <2>4, <2>5, <2>6, <2>7, <2>8, <2>9 DEF GateInv
<1>2. QED
  BY InitGateInv, <1>1, PTL DEF Spec

\* Every call runs with the connection's token, and where a handshake is asked
\* for that token was accepted by the identity provider (engine.ts, the gate).
THEOREM CallsIdentified == Spec => []CallsAreIdentified
<1>1. GateInv => CallsAreIdentified
  BY DEF GateInv
<1>2. QED
  BY <1>1, GateInvariant, PTL

\* The acknowledgement is the first frame a client that must authenticate is
\* sent: no result, error or data crosses the gate before it.
THEOREM AcknowledgedFirst == Spec => []AckFirst
<1>1. GateInv => AckFirst
  BY DEF GateInv
<1>2. QED
  BY <1>1, GateInvariant, PTL

\* The gate holds from both sides.
THEOREM GateIsKept == Spec => []GateHolds
<1>1. GateInv => GateHolds
  BY DEF GateInv, GateHolds
<1>2. QED
  BY <1>1, GateInvariant, PTL

\* A client is told not to retry for a refused token or a broken protocol only.
THEOREM OnlyRefusedForCause == Spec => []RefusedForCause
<1>1. GateInv => RefusedForCause
  BY DEF GateInv
<1>2. QED
  BY <1>1, GateInvariant, PTL

\* The handshake timer never closes a connection that authenticated, although
\* it is disarmed a microtask after the session committed.
THEOREM TimerIsHarmless == Spec => TimerSparesAuthenticated
<1>1. GateInv /\ [Next]_vars => (timer # "fired" /\ timer' = "fired" => ~authenticated)
  <2> SUFFICES ASSUME GateInv, [Next]_vars, timer # "fired", timer' = "fired"
               PROVE  ~authenticated
    OBVIOUS
  <2> USE DEF sessionVars, closeVars, authVars, callVars
  <2>1. Timeout
    BY DEF Next, AuthNext, HandleAuth, Settle, SessionContinues, EngineContinues, AckFails,
           CallNext, HandleCall, CallContext, CallSettles, Malformed, Detach, vars, CloseWith
  <2>2. QED
    BY <2>1, Acknowledged DEF Timeout, GateInv
<1>2. QED
  BY <1>1, GateInvariant, PTL DEF Spec, TimerSparesAuthenticated

\* The server closes a connection only for a reason it has.
THEOREM ClosesForCause == Spec => ClosedForCause
  BY OnlyRefusedForCause, TimerIsHarmless, PTL DEF ClosedForCause

=============================================================================
