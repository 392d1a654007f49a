-------------------------- MODULE ClientEngineProofs --------------------------
(***************************************************************************)
(* Theorems about ClientEngine: for any number of reconnects, of           *)
(* subscriptions and of calls, whichever timer, frame, close or call comes *)
(* between the steps of a run.                                             *)
(***************************************************************************)
EXTENDS ClientEngine, TLAPS

USE ReuseAssumption, ActionAssumption, BoundsAssumption

-----------------------------------------------------------------------------
(* The inductive invariant, in its parts. *)

\* The run got as far as to send its first frame, or failed before.
Over(g) == run[g] \in {"settling", "done"}

\* A generation that did not begin has no run; connect() waits for the run of
\* the current one.
Runs ==
  /\ \A g \in Generation : g > connectGeneration => run[g] = "none"
  /\ connecting => connectGeneration # 0 /\ run[connectGeneration] \notin {"none", "done"}

\* The pipe in use is that of the current generation, and of what its run did.
Pipes ==
  /\ pipe # 0 => pipe = connectGeneration /\ run[pipe] \notin {"none", "token", "pipe"}
  /\ \A g \in Generation : run[g] = "ready" => pipe = g
  /\ \A g \in Generation : run[g] = "rejected" => g \notin open
  /\ \A g \in sent \cup ticking : Over(g)

\* Connected and authenticated are said of a pipe whose run is over.
Links ==
  /\ authenticated => connected
  /\ connected => pipe # 0 /\ Over(pipe)

\* A run whose pipe is gone ends with a retry armed.
Retrying ==
  connectGeneration # 0 /\ run[connectGeneration] \in {"opened", "rejected", "settling"} =>
    pipe # 0 \/ reconnectTimer \/ authFailed

\* A carrier whose sends do not throw has no ack timer but the one that is held.
Timers == ~sendsThrow => \A g \in ticking : g = authAckTimer /\ g = pipe

\* The server owes answers, and holds subscriptions, on authenticated pipes only.
Server ==
  /\ \A s \in Sub : due[s] > 0 => authenticated
  /\ held # {} => authenticated

\* Where ids are not reused, a subscription the application has was sent once.
Fresh ==
  /\ \A s \in Sub : s \notin used => activeSubs[s] = Absent /\ due[s] = 0
  /\ \A s \in Active : due[s] <= 1

IInv ==
  /\ TypeOK /\ Runs /\ Pipes /\ Links /\ Retrying /\ Timers /\ Server
  /\ NeverStalls /\ NothingDangles
  /\ ~ReuseIds => Fresh /\ SubscriptionsAgree

-----------------------------------------------------------------------------
(* What kinds of step do to the invariant. *)

LEMMA InitIInv == Init => IInv
<1> SUFFICES ASSUME Init PROVE IInv
  OBVIOUS
<1>1. TypeOK
  <2>1. 0 \in 0 .. MaxGeneration /\ 0 \in 0 .. MaxDue
    OBVIOUS
  <2>2. /\ connectGeneration \in 0 .. MaxGeneration /\ pipe \in 0 .. MaxGeneration
        /\ authAckTimer \in 0 .. MaxGeneration /\ callGeneration \in [Call -> 0 .. MaxGeneration]
        /\ due \in [Sub -> 0 .. MaxDue] /\ activeSubs \in [Sub -> {Absent} \cup 0 .. MaxRetryable]
    BY <2>1 DEF Init
  <2>3. /\ requiresAuth \in BOOLEAN /\ sendsThrow \in BOOLEAN /\ wanted \in BOOLEAN
        /\ connecting \in BOOLEAN /\ connected \in BOOLEAN /\ authenticated \in BOOLEAN
        /\ authFailed \in BOOLEAN /\ reconnectTimer \in BOOLEAN
    BY DEF Init
  <2>4. QED
    BY <2>2, <2>3 DEF Init, TypeOK
<1>2. Runs /\ Pipes /\ Links /\ Retrying /\ Timers /\ Server /\ NeverStalls
  BY DEF Init, Runs, Pipes, Over, Links, Retrying, Timers, Server, NeverStalls, Generation
<1>3. NothingDangles /\ Fresh /\ SubscriptionsAgree
  BY DEF Init, NothingDangles, NoLeakedPipe, PendingOnLivePipe, AckTimerDone, Fresh, Active,
     SubscriptionsAgree, Generation
<1>4. QED
  BY <1>1, <1>2, <1>3 DEF IInv

\* One carrier at most, and none without a pipe.
LEMMA OneCarrier ==
  ASSUME IInv
  PROVE  /\ \A g \in open : g = pipe /\ g = connectGeneration /\ g # 0
         /\ pipe = 0 => open = {}
  BY DEF IInv, TypeOK, NothingDangles, NoLeakedPipe, Pipes, Generation

\* The run of g moves on, nothing of the connection changes but that a carrier
\* may close and a retry be armed.
LEMMA RunMoves ==
  ASSUME IInv, TypeOK', NEW g \in Generation, NEW to, Goes(g, to), run[g] # "none",
         UNCHANGED <<wanted, sendsThrow, connectGeneration, connected, authenticated, authFailed, pipe>>,
         UNCHANGED <<authAckTimer, ticking, sent, activeSubs, used, due, held, call, callGeneration>>,
         reconnectTimer => reconnectTimer', connecting' => connecting, open' \subseteq open,
         to \notin {"none", "token", "ready"}, Over(g) => to = "done",
         to = "rejected" => g \notin open',
         pipe = g => to # "pipe",
         g = connectGeneration /\ to \in {"opened", "rejected", "settling", "done"} =>
             pipe # 0 \/ reconnectTimer' \/ authFailed,
         g = connectGeneration /\ to = "done" => ~connecting'
  PROVE  IInv'
<1> USE DEF IInv
<1>1. run'[g] = to /\ \A h \in Generation : h # g => run'[h] = run[h]
  BY DEF Goes, TypeOK
<1>2. \A h \in Generation : Over(h) => Over(h)'
  BY <1>1 DEF Over
<1>3. Runs'
  BY <1>1 DEF Runs, TypeOK, Generation
<1>4. Pipes'
  <2>1. pipe # 0 => pipe \in Generation
    BY DEF TypeOK, Generation
  <2>2. sent \cup ticking \subseteq Generation
    BY DEF TypeOK
  <2>3. \A h \in sent \cup ticking : Over(h)'
    BY <1>2, <2>2 DEF Pipes
  <2>4. QED
    BY <1>1, <2>1, <2>3 DEF Pipes
<1>5. Links' /\ Timers' /\ Server'
  <2>1. connected => pipe \in Generation
    BY DEF TypeOK, Generation, Links
  <2>2. QED
    BY <1>2, <2>1 DEF Links, Timers, Server
<1>6. Retrying' /\ NeverStalls'
  <2>1. connectGeneration # 0 => connectGeneration \in Generation
    BY DEF TypeOK, Generation
  <2>2. Retrying'
    BY <1>1, <2>1 DEF Retrying
  <2>3. wanted /\ ~authFailed => pipe # 0 \/ reconnectTimer' \/ RunUnderWay'
    <3>1. CASE RunUnderWay
      <4>1. connectGeneration \in Generation /\ run[connectGeneration] \notin {"none", "done"}
        BY <3>1 DEF RunUnderWay
      <4>2. CASE g = connectGeneration
        BY <1>1, <4>1, <4>2 DEF RunUnderWay, TypeOK
      <4>3. CASE g # connectGeneration
        BY <1>1, <4>1, <4>3 DEF RunUnderWay
      <4>4. QED
        BY <4>2, <4>3
    <3>2. CASE ~RunUnderWay
      BY <3>2 DEF NeverStalls
    <3>3. QED
      BY <3>1, <3>2
  <2>4. QED
    BY <2>2, <2>3 DEF NeverStalls
<1>7. NothingDangles'
  BY DEF NothingDangles, NoLeakedPipe, PendingOnLivePipe, AckTimerDone
<1>8. ~ReuseIds => Fresh' /\ SubscriptionsAgree'
  BY DEF Fresh, SubscriptionsAgree, Active
<1>9. QED
  BY <1>3, <1>4, <1>5, <1>6, <1>7, <1>8

\* The pipe in use is closed.
LEMMA PipeGone ==
  ASSUME IInv, TypeOK', UNCHANGED <<wanted, sendsThrow, connectGeneration, connecting, callGeneration>>,
         pipe' = 0, ~connected', ~authenticated', RejectAllPending, ForgetServer,
         reconnectTimer' \/ authFailed', authFailed => authFailed',
         open' = {}, sent' = sent,
         \A h \in Generation :
             \/ run'[h] = run[h] /\ run[h] # "ready"
             \/ run[h] \in {"ready", "opened", "rejected"} /\ run'[h] \in {"rejected", "settling"},
         \A h \in ticking' : Over(h)', ~sendsThrow => ticking' = {},
         \A s \in Sub : s \notin used' => s \notin used /\ (activeSubs'[s] = Absent \/ ReuseIds)
  PROVE  IInv'
<1> USE DEF IInv
<1>1. Runs'
  <2>1. connecting => connectGeneration \in Generation /\ run[connectGeneration] \notin {"none", "done"}
    BY DEF Runs, TypeOK, Generation
  <2>2. connecting => run'[connectGeneration] \notin {"none", "done"}
    BY <2>1
  <2>3. \A h \in Generation : h > connectGeneration => run'[h] = "none"
    BY DEF Runs
  <2>4. QED
    BY <2>1, <2>2, <2>3 DEF Runs
<1>2. Pipes'
  <2>1. \A h \in sent : Over(h)'
    BY DEF Pipes, Over, TypeOK
  <2>2. QED
    BY <2>1 DEF Pipes
<1>3. Links' /\ Timers' /\ Server' /\ Retrying' /\ NeverStalls'
  BY DEF Links, Timers, Server, Retrying, NeverStalls, ForgetServer
<1>4. NothingDangles'
  <2>1. \A c \in Call : call'[c] # "pending"
    BY DEF RejectAllPending
  <2>2. QED
    BY <2>1 DEF NothingDangles, NoLeakedPipe, PendingOnLivePipe, AckTimerDone
<1>5. ~ReuseIds => Fresh' /\ SubscriptionsAgree'
  BY DEF Fresh, SubscriptionsAgree, ForgetServer, Active
<1>6. QED
  BY <1>1, <1>2, <1>3, <1>4, <1>5

\* handleClose, for the current generation.
LEMMA ClosedFacts ==
  ASSUME TypeOK, NEW code, Closed(code)
  PROVE  /\ pipe' = 0 /\ ~connected' /\ ~authenticated' /\ RejectAllPending /\ ForgetServer
         /\ (reconnectTimer' \/ authFailed') /\ (authFailed => authFailed')
         /\ UNCHANGED <<connectGeneration, connecting, callGeneration>>
         /\ connected' \in BOOLEAN /\ authenticated' \in BOOLEAN
         /\ authFailed' \in BOOLEAN /\ reconnectTimer' \in BOOLEAN
         /\ due' \in [Sub -> 0 .. MaxDue] /\ held' = {}
         /\ call' \in [Call -> {"unused", "pending", "settled"}]
<1>1. /\ pipe' = 0 /\ ~connected' /\ ~authenticated' /\ RejectAllPending /\ ForgetServer
      /\ UNCHANGED <<connectGeneration, connecting, callGeneration>>
      /\ connected' \in BOOLEAN /\ authenticated' \in BOOLEAN
  BY DEF Closed
<1>2. due' \in [Sub -> 0 .. MaxDue] /\ held' = {}
  BY <1>1 DEF ForgetServer
<1>3. call' \in [Call -> {"unused", "pending", "settled"}]
  BY <1>1 DEF RejectAllPending, TypeOK
<1>4. CASE code = 4001
  BY <1>1, <1>2, <1>3, <1>4 DEF Closed, TypeOK
<1>5. CASE code # 4001
  <2>1. authFailed' = authFailed /\ reconnectTimer' = (reconnectTimer \/ ~authFailed)
    BY <1>5 DEF Closed
  <2>2. authFailed \in BOOLEAN /\ reconnectTimer \in BOOLEAN
    BY DEF TypeOK
  <2>3. (reconnectTimer \/ ~authFailed) \in BOOLEAN
    OBVIOUS
  <2>4. QED
    BY <1>1, <1>2, <1>3, <2>1, <2>2, <2>3
<1>6. QED
  BY <1>4, <1>5

-----------------------------------------------------------------------------
(* connect() and the steps of its run. *)

\* A run begins only where there is none, and no pipe.
LEMMA StartRunStep ==
  ASSUME IInv, StartRun, wanted' \in BOOLEAN, UNCHANGED <<requiresAuth, sendsThrow>>,
         UNCHANGED <<connected, authenticated, authFailed, pipe, authAckTimer, ticking>>,
         UNCHANGED <<open, sent, activeSubs, used, due, held, call, callGeneration>>,
         reconnectTimer' \in BOOLEAN, reconnectTimer' \/ ~reconnectTimer \/ Drained,
         wanted' /\ ~wanted => UNCHANGED reconnectTimer
  PROVE  IInv'
<1> USE DEF IInv
<1>1. CASE authFailed \/ pipe # 0 \/ connecting
  <2>1. UNCHANGED <<connectGeneration, connecting, run>>
    BY <1>1 DEF StartRun
  <2>2. TypeOK'
    BY <2>1 DEF TypeOK
  <2>3. Runs' /\ Pipes' /\ Links' /\ Timers' /\ Server' /\ NothingDangles' /\ Fresh' = Fresh
        /\ SubscriptionsAgree' = SubscriptionsAgree
    BY <2>1 DEF Runs, Pipes, Over, Links, Timers, Server, NothingDangles, NoLeakedPipe,
       PendingOnLivePipe, AckTimerDone, Fresh, Active, SubscriptionsAgree
  <2>4. connecting => connectGeneration \in Generation /\ RunUnderWay
    BY DEF Runs, TypeOK, Generation, RunUnderWay
  <2>5. RunUnderWay' = RunUnderWay
    BY <2>1 DEF RunUnderWay
  <2>6. NeverStalls'
    BY <1>1, <2>1, <2>4, <2>5 DEF NeverStalls
  <2>7. Retrying'
    <3>1. CASE Drained
      <4>1. connectGeneration # 0 => connectGeneration \in Generation
        BY DEF TypeOK, Generation
      <4>2. connectGeneration # 0 => run[connectGeneration] \notin {"opened", "rejected", "settling"}
        BY <3>1, <4>1 DEF Drained
      <4>3. QED
        BY <2>1, <4>2 DEF Retrying
    <3>2. CASE ~Drained
      BY <2>1, <3>2 DEF Retrying
    <3>3. QED
      BY <3>1, <3>2
  <2>8. QED
    BY <2>2, <2>3, <2>6, <2>7
<1>2. CASE ~(authFailed \/ pipe # 0 \/ connecting)
  <2>1. PICK g \in Generation : /\ g = connectGeneration + 1 /\ connectGeneration' = g /\ g # 0
                                /\ connecting' = TRUE
                                /\ run' = [run EXCEPT ![g] = IF requiresAuth THEN "token" ELSE "pipe"]
    BY <1>2 DEF StartRun, Goes, Generation, TypeOK
  <2>2. /\ run'[g] \in {"token", "pipe"} /\ run[g] = "none"
        /\ \A h \in Generation : h # g => run'[h] = run[h]
        /\ run' \in [Generation -> {"none", "token", "pipe", "ready", "opened", "rejected",
                                    "settling", "done"}]
    BY <2>1 DEF TypeOK, Runs, Generation
  <2>3. pipe = 0 /\ open = {} /\ ~connected /\ ~authenticated
    BY <1>2, OneCarrier DEF Links
  <2>4. TypeOK'
    <3>1. connectGeneration' \in 0 .. MaxGeneration
      BY <2>1 DEF Generation
    <3>2. QED
      BY <2>1, <2>2, <3>1 DEF TypeOK
  <2>5. Runs'
    <3>1. \A h \in Generation : h > g => h > connectGeneration /\ h # g
      BY <2>1 DEF TypeOK, Generation
    <3>2. QED
      BY <2>1, <2>2, <3>1 DEF Runs
  <2>6. Pipes'
    <3>1. \A h \in sent \cup ticking : h \in Generation /\ Over(h)
      BY DEF Pipes, TypeOK
    <3>2. \A h \in sent \cup ticking : Over(h)'
      BY <2>2, <3>1 DEF Over
    <3>3. QED
      BY <2>2, <2>3, <3>2 DEF Pipes
  <2>7. Links' /\ Timers' /\ Server'
    BY <2>3 DEF Links, Timers, Server
  <2>8. Retrying' /\ NeverStalls'
    BY <2>1, <2>2 DEF Retrying, NeverStalls, RunUnderWay
  <2>9. NothingDangles'
    BY <2>3 DEF NothingDangles, NoLeakedPipe, PendingOnLivePipe, AckTimerDone
  <2>10. ~ReuseIds => Fresh' /\ SubscriptionsAgree'
    BY <2>3 DEF Fresh, Active, SubscriptionsAgree
  <2>11. QED
    BY <2>4, <2>5, <2>6, <2>7, <2>8, <2>9, <2>10
<1>3. QED
  BY <1>1, <1>2

LEMMA ConnectStep == IInv /\ (Connect \/ ReconnectTimerFires) => IInv'
<1>1. ASSUME IInv, Connect PROVE IInv'
  <2>1. reconnectTimer \in BOOLEAN
    BY <1>1 DEF IInv, TypeOK
  <2>2. QED
    BY <1>1, <2>1, StartRunStep
    DEF Connect, configVars, timerVars, subVars, callVars
<1>2. ASSUME IInv, ReconnectTimerFires PROVE IInv'
  <2>1. wanted \in BOOLEAN /\ reconnectTimer' \in BOOLEAN
    BY <1>2 DEF IInv, TypeOK, ReconnectTimerFires
  <2>2. QED
    BY <1>2, <2>1, StartRunStep
    DEF ReconnectTimerFires, givenVars, configVars, subVars, callVars
<1>3. QED
  BY <1>1, <1>2

\* The run of g fails, and retries unless it is not the current one.
LEMMA RunFailsStep ==
  ASSUME IInv, NEW g \in Generation, run[g] \in {"token", "pipe"}, RunFails(g)
  PROVE  IInv'
<1>1. /\ Goes(g, "settling")
      /\ reconnectTimer' = (reconnectTimer \/ (g = connectGeneration /\ ~authFailed))
      /\ UNCHANGED <<requiresAuth, sendsThrow, wanted>>
      /\ UNCHANGED <<connectGeneration, connecting, connected, authenticated, authFailed, pipe>>
      /\ UNCHANGED <<authAckTimer, ticking, open, sent, activeSubs, used, due, held, call, callGeneration>>
  BY DEF RunFails, givenVars, configVars, linkVars, subVars, callVars
<1>2. reconnectTimer' \in BOOLEAN
  BY <1>1
<1>3. TypeOK'
  BY <1>1, <1>2 DEF IInv, TypeOK, Goes
<1>4. ~Over(g)
  BY DEF Over
<1>5. QED
  BY <1>1, <1>3, <1>4, RunMoves

LEMMA TokenSettlesStep ==
  ASSUME IInv, NEW g \in Generation, TokenSettles(g)
  PROVE  IInv'
<1>1. run[g] = "token" /\ ~Over(g)
  BY DEF TokenSettles, Over
<1>2. CASE RunFails(g)
  BY <1>1, <1>2, RunFailsStep
<1>3. CASE ~RunFails(g)
  <2>1. PICK to \in {"settling", "pipe"} : Goes(g, to) /\ (to = "settling" => Stale(g)) /\ (to = "pipe" => ~Stale(g))
    BY <1>3 DEF TokenSettles
  <2>2. /\ UNCHANGED <<requiresAuth, sendsThrow, wanted>>
        /\ UNCHANGED <<connectGeneration, connecting, connected, authenticated, authFailed, pipe>>
        /\ UNCHANGED <<reconnectTimer, authAckTimer, ticking, open, sent>>
        /\ UNCHANGED <<activeSubs, used, due, held, call, callGeneration>>
    BY <1>3 DEF TokenSettles, givenVars, configVars, linkVars, timerVars, subVars, callVars
  <2>3. TypeOK'
    BY <2>1, <2>2 DEF IInv, TypeOK, Goes
  <2>4. pipe # g
    BY <1>1 DEF IInv, Pipes, Generation
  <2>5. g = connectGeneration /\ to \in {"opened", "rejected", "settling", "done"} =>
            pipe # 0 \/ reconnectTimer' \/ authFailed
    BY <2>1 DEF Stale
  <2>6. QED
    BY <1>1, <2>1, <2>2, <2>3, <2>4, <2>5, RunMoves
<1>4. QED
  BY <1>2, <1>3

LEMMA PipeReadyStep ==
  ASSUME IInv, NEW g \in Generation, PipeReady(g)
  PROVE  IInv'
<1>1. /\ run[g] = "ready" /\ ~Over(g) /\ pipe = g /\ pipe # 0
  BY DEF PipeReady, Over, IInv, Pipes, Generation
<1>2. PICK to \in {"opened", "rejected"} :
          /\ Goes(g, to) /\ open' \subseteq open /\ (to = "rejected" => g \notin open')
          /\ UNCHANGED <<requiresAuth, sendsThrow, wanted>>
          /\ UNCHANGED <<connectGeneration, connecting, connected, authenticated, authFailed, pipe>>
          /\ UNCHANGED <<reconnectTimer, authAckTimer, ticking, sent>>
          /\ UNCHANGED <<activeSubs, used, due, held, call, callGeneration>>
  BY DEF PipeReady, givenVars, configVars, linkVars, timerVars, subVars, callVars
<1>3. TypeOK'
  BY <1>2 DEF IInv, TypeOK, Goes
<1>4. QED
  BY <1>1, <1>2, <1>3, RunMoves

LEMMA RunSettlesStep ==
  ASSUME IInv, NEW g \in Generation, RunSettles(g)
  PROVE  IInv'
<1>1. /\ run[g] = "settling" /\ Goes(g, "done")
      /\ connecting' = (connecting /\ g # connectGeneration)
      /\ UNCHANGED <<requiresAuth, sendsThrow, wanted>>
      /\ UNCHANGED <<connectGeneration, connected, authenticated, authFailed, pipe>>
      /\ UNCHANGED <<reconnectTimer, authAckTimer, ticking, open, sent>>
      /\ UNCHANGED <<activeSubs, used, due, held, call, callGeneration>>
  BY DEF RunSettles, givenVars, configVars, linkVars, timerVars, subVars, callVars
<1>2. connecting' \in BOOLEAN
  BY <1>1
<1>3. TypeOK'
  BY <1>1, <1>2 DEF IInv, TypeOK, Goes
<1>4. g = connectGeneration => pipe # 0 \/ reconnectTimer \/ authFailed
  BY <1>1 DEF IInv, Retrying, Generation
<1>5. QED
  BY <1>1, <1>3, <1>4, RunMoves

\* The pipe of the current run is the pipe in use; one that comes late is closed.
LEMMA PipeCreatedStep ==
  ASSUME IInv, NEW g \in Generation, PipeCreated(g)
  PROVE  IInv'
<1> USE DEF IInv
<1>1. run[g] = "pipe" /\ ~Over(g) /\ g # 0
  BY DEF PipeCreated, Over, Generation
<1>2. CASE RunFails(g)
  BY <1>1, <1>2, RunFailsStep
<1>3. CASE /\ Stale(g) /\ Goes(g, "settling")
           /\ UNCHANGED <<givenVars, linkVars, timerVars, open, sent, subVars, callVars>>
  <2>1. /\ UNCHANGED <<requiresAuth, sendsThrow, wanted>>
        /\ UNCHANGED <<connectGeneration, connecting, connected, authenticated, authFailed, pipe>>
        /\ UNCHANGED <<reconnectTimer, authAckTimer, ticking, open, sent>>
        /\ UNCHANGED <<activeSubs, used, due, held, call, callGeneration>>
    BY <1>3 DEF givenVars, configVars, linkVars, timerVars, subVars, callVars
  <2>2. TypeOK'
    BY <1>3, <2>1 DEF TypeOK, Goes
  <2>3. g = connectGeneration => authFailed
    BY <1>3 DEF Stale
  <2>4. QED
    BY <1>1, <1>3, <2>1, <2>2, <2>3, RunMoves
<1>4. CASE /\ ~Stale(g) /\ pipe' = g /\ open' = open \cup {g}
           /\ Goes(g, "ready") \/ Goes(g, "opened")
           /\ UNCHANGED <<givenVars, connectGeneration, connecting, connected, authenticated,
                          authFailed, timerVars, sent, subVars, callVars>>
  <2>1. /\ g = connectGeneration /\ ~authFailed
        /\ pipe' = g /\ open' = open \cup {g}
        /\ UNCHANGED <<requiresAuth, sendsThrow, wanted>>
        /\ UNCHANGED <<connectGeneration, connecting, connected, authenticated, authFailed>>
        /\ UNCHANGED <<reconnectTimer, authAckTimer, ticking, sent>>
        /\ UNCHANGED <<activeSubs, used, due, held, call, callGeneration>>
    BY <1>4 DEF Stale, givenVars, configVars, timerVars, subVars, callVars
  <2>2. PICK to \in {"ready", "opened"} : Goes(g, to)
    BY <1>4
  <2>3. run'[g] = to /\ \A h \in Generation : h # g => run'[h] = run[h]
    BY <2>2 DEF Goes, TypeOK
  <2>4. pipe = 0 /\ open = {} /\ ~connected /\ ~authenticated
    <3>1. pipe = 0
      BY <1>1, <2>1 DEF Pipes
    <3>2. QED
      BY <3>1, OneCarrier DEF Links
  <2>5. TypeOK'
    <3>1. pipe' \in 0 .. MaxGeneration
      BY <2>1 DEF Generation
    <3>2. QED
      BY <2>1, <2>2, <3>1 DEF TypeOK, Goes
  <2>6. Runs'
    BY <1>1, <2>1, <2>2, <2>3 DEF Runs, Generation
  <2>7. Pipes'
    <3>1. \A h \in sent \cup ticking : h \in Generation /\ Over(h)
      BY DEF Pipes, TypeOK
    <3>2. \A h \in sent \cup ticking : Over(h)'
      BY <1>1, <2>3, <3>1 DEF Over
    <3>3. \A h \in Generation : h # g => run[h] # "ready"
      BY <2>4 DEF Pipes, Generation
    <3>4. QED
      BY <2>1, <2>2, <2>3, <2>4, <3>2, <3>3 DEF Pipes
  <2>8. Links' /\ Server' /\ Retrying' /\ NeverStalls'
    BY <1>1, <2>1, <2>4 DEF Links, Server, Retrying, NeverStalls
  <2>9. Timers'
    <3>1. ~sendsThrow => ticking = {}
      <4>1. 0 \notin Generation
        BY DEF Generation
      <4>2. QED
        BY <2>4, <4>1 DEF Timers, TypeOK
    <3>2. QED
      BY <2>1, <3>1 DEF Timers
  <2>10. NothingDangles'
    BY <2>1, <2>4 DEF NothingDangles, NoLeakedPipe, PendingOnLivePipe, AckTimerDone
  <2>11. ~ReuseIds => Fresh' /\ SubscriptionsAgree'
    BY <2>1, <2>4 DEF Fresh, Active, SubscriptionsAgree
  <2>12. QED
    BY <2>5, <2>6, <2>7, <2>8, <2>9, <2>10, <2>11
<1>5. QED
  BY <1>2, <1>3, <1>4 DEF PipeCreated

\* The first frames on a pipe that is ready; the run ends with them.
LEMMA RunReadyStep ==
  ASSUME IInv, NEW g \in Generation, RunReady(g)
  PROVE  IInv'
<1> USE DEF IInv
<1>1. /\ run[g] = "opened" /\ ~Over(g) /\ Goes(g, "settling") /\ g # 0 /\ g \notin ticking
      /\ UNCHANGED <<requiresAuth, sendsThrow, wanted>>
  BY DEF RunReady, Over, Generation, givenVars, configVars, Pipes
<1>2. /\ run'[g] = "settling" /\ \A h \in Generation : h # g => run'[h] = run[h]
      /\ run' \in [Generation -> {"none", "token", "pipe", "ready", "opened", "rejected",
                                  "settling", "done"}]
      /\ \A h \in Generation : Over(h) => Over(h)'
      /\ Over(g)'
  BY <1>1 DEF Goes, TypeOK, Over
<1>3. CASE /\ Stale(g) \/ pipe # g
           /\ open' = open \ {g}
           /\ UNCHANGED <<linkVars, timerVars, sent, subVars, callVars>>
  <2>1. /\ UNCHANGED <<connectGeneration, connecting, connected, authenticated, authFailed, pipe>>
        /\ UNCHANGED <<reconnectTimer, authAckTimer, ticking, sent>>
        /\ UNCHANGED <<activeSubs, used, due, held, call, callGeneration>>
    BY <1>3 DEF linkVars, timerVars, subVars, callVars
  <2>2. TypeOK'
    BY <1>1, <1>2, <1>3, <2>1 DEF TypeOK
  <2>3. g = connectGeneration => pipe # 0 \/ reconnectTimer \/ authFailed
    BY <1>1 DEF Retrying
  <2>4. QED
    BY <1>1, <1>3, <2>1, <2>2, <2>3, RunMoves
\* what the pipe in use, of a run that is not over, has seen: nothing
<1>4. ASSUME pipe = g
      PROVE  /\ g = connectGeneration /\ ~connected /\ ~authenticated /\ held = {}
             /\ \A s \in Sub : due[s] = 0
             /\ ~sendsThrow => ticking = {}
             /\ \A c \in Call : call[c] # "pending"
  <2>1. g = connectGeneration /\ ~connected /\ ~authenticated /\ held = {}
    BY <1>1, <1>4 DEF Pipes, Links, Server
  <2>2. \A s \in Sub : due[s] \in Nat /\ ~(due[s] > 0)
    BY <2>1 DEF Server, TypeOK
  <2>3. ~sendsThrow => ticking = {}
    BY <1>1, <1>4 DEF Timers, TypeOK
  <2>4. \A c \in Call : call[c] # "pending"
    BY <2>1 DEF NothingDangles, PendingOnLivePipe
  <2>5. QED
    BY <2>1, <2>2, <2>3, <2>4
\* the pipe stays in use, now connected
<1>5. ASSUME pipe = g, ~Stale(g), connected' = TRUE, authenticated' \in BOOLEAN,
             authenticated' => ticking' = ticking,
             UNCHANGED <<connectGeneration, connecting, authFailed, pipe, reconnectTimer, open>>,
             UNCHANGED <<activeSubs, used, call, callGeneration>>,
             \/ authAckTimer' = g /\ ticking' = ticking \cup {g}
             \/ UNCHANGED <<authAckTimer, ticking>>,
             sent' = sent \/ sent' = sent \cup {g},
             due' \in [Sub -> 0 .. MaxDue],
             \/ UNCHANGED <<due, held>> /\ ~authenticated'
             \/ /\ authenticated' /\ held' = held \cup Active
                /\ due' = [s \in Sub |-> IF s \in Active THEN due[s] + 1 ELSE due[s]]
      PROVE  IInv'
  <2>1. /\ held' \subseteq Sub /\ sent' \subseteq Generation /\ ticking' \subseteq Generation
        /\ authAckTimer' \in 0 .. MaxGeneration
    BY <1>5 DEF TypeOK, Active, Generation
  <2>2. TypeOK'
    BY <1>1, <1>2, <1>5, <2>1 DEF TypeOK
  <2>3. Runs'
    BY <1>1, <1>2, <1>4, <1>5 DEF Runs, Generation
  <2>4. Pipes'
    <3>1. \A h \in sent' \cup ticking' : h \in sent \cup ticking \/ h = g
      BY <1>5
    <3>2. \A h \in sent \cup ticking : h \in Generation /\ Over(h)
      BY DEF Pipes, TypeOK
    <3>3. \A h \in sent' \cup ticking' : Over(h)'
      BY <1>2, <3>1, <3>2
    <3>4. QED
      BY <1>1, <1>2, <1>4, <1>5, <3>3 DEF Pipes
  <2>5. Links' /\ Server'
    BY <1>1, <1>2, <1>4, <1>5 DEF Links, Server
  <2>6. Retrying' /\ NeverStalls'
    BY <1>1, <1>5 DEF Retrying, NeverStalls
  <2>7. Timers'
    <3>1. ~sendsThrow => \A h \in ticking' : h = g /\ authAckTimer' = g
      BY <1>4, <1>5
    <3>2. QED
      BY <1>1, <1>5, <3>1 DEF Timers
  <2>8. NothingDangles'
    <3>1. NoLeakedPipe' /\ PendingOnLivePipe'
      BY <1>4, <1>5 DEF NothingDangles, NoLeakedPipe, PendingOnLivePipe
    <3>2. authenticated' => connectGeneration' \notin ticking'
      BY <1>1, <1>4, <1>5
    <3>3. QED
      BY <3>1, <3>2 DEF NothingDangles, AckTimerDone
  <2>9. ~ReuseIds => Fresh' /\ SubscriptionsAgree'
    <3> SUFFICES ASSUME ~ReuseIds PROVE Fresh' /\ SubscriptionsAgree'
      OBVIOUS
    <3>1. Active' = Active
      BY <1>5 DEF Active
    <3>2. SubscriptionsAgree'
      BY <1>4, <1>5, <3>1 DEF SubscriptionsAgree
    <3>3. \A s \in Sub : s \notin used => s \notin Active
      BY DEF Fresh, Active
    <3>4. Fresh'
      BY <1>4, <1>5, <3>1, <3>3 DEF Fresh, Active
    <3>5. QED
      BY <3>2, <3>4
  <2>10. QED
    BY <2>2, <2>3, <2>4, <2>5, <2>6, <2>7, <2>8, <2>9
<1>6. CASE /\ ~Stale(g) /\ pipe = g /\ requiresAuth
           /\ connected' = TRUE /\ authenticated' = FALSE
           /\ authAckTimer' = g /\ ticking' = ticking \cup {g}
           /\ sent' = sent \cup {g}
           /\ UNCHANGED <<connectGeneration, connecting, authFailed, pipe, reconnectTimer, open,
                          subVars, callVars>>
  <2>1. due \in [Sub -> 0 .. MaxDue]
    BY DEF TypeOK
  <2>2. QED
    BY <1>5, <1>6, <2>1 DEF subVars, callVars
<1>7. CASE /\ ~Stale(g) /\ pipe = g /\ ~requiresAuth
           /\ connected' = TRUE /\ authenticated' = TRUE
           /\ SendsSubscribe(Active)
           /\ UNCHANGED <<connectGeneration, connecting, authFailed, pipe, timerVars, open,
                          activeSubs, used, callVars>>
  <2>1. due' \in [Sub -> 0 .. MaxDue]
    <3>1. \A s \in Active : due[s] < MaxDue
      BY <1>7 DEF SendsSubscribe
    <3>2. due' = [s \in Sub |-> IF s \in Active THEN due[s] + 1 ELSE due[s]]
      BY <1>7 DEF SendsSubscribe
    <3>3. QED
      BY <3>1, <3>2 DEF TypeOK
  <2>2. sent' = sent \/ sent' = sent \cup {g}
    BY <1>4, <1>7 DEF SendsSubscribe
  <2>3. held' = held \cup Active /\ due' = [s \in Sub |-> IF s \in Active THEN due[s] + 1 ELSE due[s]]
    BY <1>7 DEF SendsSubscribe
  <2>4. QED
    BY <1>5, <1>7, <2>1, <2>2, <2>3 DEF timerVars, callVars
\* the send threw
<1>8. ASSUME NEW code, pipe = g, Closed(code), open' = open \ {g}, sendsThrow,
             UNCHANGED <<sent, activeSubs, used>>,
             authAckTimer' \in {0, g}, ticking' \subseteq ticking \cup {g}
      PROVE  IInv'
  <2>1. /\ pipe' = 0 /\ ~connected' /\ ~authenticated' /\ RejectAllPending /\ ForgetServer
        /\ (reconnectTimer' \/ authFailed') /\ (authFailed => authFailed')
        /\ UNCHANGED <<connectGeneration, connecting, callGeneration>>
        /\ connected' \in BOOLEAN /\ authenticated' \in BOOLEAN
        /\ authFailed' \in BOOLEAN /\ reconnectTimer' \in BOOLEAN
        /\ due' \in [Sub -> 0 .. MaxDue] /\ held' = {}
        /\ call' \in [Call -> {"unused", "pending", "settled"}]
    BY <1>8, ClosedFacts
  <2>2. open' = {}
    BY <1>8, OneCarrier
  <2>3. TypeOK'
    BY <1>1, <1>2, <1>8, <2>1, <2>2 DEF TypeOK, Generation
  <2>4. \A h \in Generation : h # g => run[h] # "ready"
    BY <1>8 DEF Pipes
  <2>5. \A h \in ticking' : Over(h)'
    BY <1>2, <1>8 DEF Pipes, TypeOK
  <2>6. \A s \in Sub : s \notin used' => s \notin used /\ (activeSubs'[s] = Absent \/ ReuseIds)
    BY <1>8 DEF Fresh
  <2>7. QED
    BY <1>1, <1>2, <1>8, <2>1, <2>2, <2>3, <2>4, <2>5, <2>6, PipeGone
<1>9. CASE /\ ~Stale(g) /\ pipe = g /\ requiresAuth
           /\ sendsThrow
           /\ open' = open \ {g}
           /\ Closed(1006)
           /\ authAckTimer' = g
           /\ ticking' = (ticking \ {authAckTimer}) \cup {g}
           /\ UNCHANGED <<sent, activeSubs, used>>
  BY <1>8, <1>9
<1>10. CASE /\ ~Stale(g) /\ pipe = g /\ ~requiresAuth
            /\ Active # {}
            /\ SendThrows
            /\ UNCHANGED <<sent, activeSubs, used>>
  BY <1>8, <1>10 DEF SendThrows, HandleClose, ClearAuthAckTimer
<1>11. QED
  BY <1>3, <1>6, <1>7, <1>9, <1>10 DEF RunReady

-----------------------------------------------------------------------------
(* Carriers close, sends are refused, timers fire. *)

\* A step that closes nothing but the ack timers of others.
LEMMA NothingOfIt ==
  ASSUME IInv, UNCHANGED <<requiresAuth, sendsThrow, wanted>>,
         UNCHANGED <<connectGeneration, connecting, connected, authenticated, authFailed, pipe>>,
         UNCHANGED <<reconnectTimer, run, open, sent>>,
         UNCHANGED <<activeSubs, used, due, held, call, callGeneration>>,
         \/ UNCHANGED <<authAckTimer, ticking>>
         \/ authAckTimer' = 0 /\ ticking' \subseteq ticking /\ (~sendsThrow => ticking' = {})
  PROVE  IInv'
<1> USE DEF IInv
<1>1. ticking' \subseteq ticking /\ authAckTimer' \in 0 .. MaxGeneration
  BY DEF TypeOK
<1>2. TypeOK'
  BY <1>1 DEF TypeOK
<1>3. Runs' /\ Pipes' /\ Links' /\ Retrying' /\ Server' /\ NeverStalls'
  BY <1>1 DEF Runs, Pipes, Over, Links, Retrying, Server, NeverStalls, RunUnderWay
<1>4. Timers'
  BY DEF Timers
<1>5. NothingDangles'
  BY <1>1 DEF NothingDangles, NoLeakedPipe, PendingOnLivePipe, AckTimerDone
<1>6. ~ReuseIds => Fresh' /\ SubscriptionsAgree'
  BY DEF Fresh, Active, SubscriptionsAgree
<1>7. QED
  BY <1>2, <1>3, <1>4, <1>5, <1>6

\* Whatever closes the pipe in use, with the ack timer cleared.
LEMMA HandleCloseStep ==
  ASSUME IInv, NEW code, HandleClose(code), UNCHANGED <<requiresAuth, sendsThrow, wanted, sent>>,
         activeSubs' \in [Sub -> {Absent} \cup 0 .. MaxRetryable], used' \subseteq Sub, open' = {},
         \A s \in Sub : s \notin used' => s \notin used /\ (activeSubs'[s] = Absent \/ ReuseIds),
         run' \in [Generation -> {"none", "token", "pipe", "ready", "opened", "rejected",
                                  "settling", "done"}],
         \A h \in Generation :
             \/ run'[h] = run[h] /\ run[h] # "ready"
             \/ run[h] \in {"ready", "opened", "rejected"} /\ run'[h] \in {"rejected", "settling"}
  PROVE  IInv'
<1> USE DEF IInv
<1>1. Closed(code) /\ authAckTimer' = 0 /\ ticking' = ticking \ {authAckTimer}
  BY DEF HandleClose, ClearAuthAckTimer
<1>2. /\ pipe' = 0 /\ ~connected' /\ ~authenticated' /\ RejectAllPending /\ ForgetServer
      /\ (reconnectTimer' \/ authFailed') /\ (authFailed => authFailed')
      /\ UNCHANGED <<connectGeneration, connecting, callGeneration>>
      /\ connected' \in BOOLEAN /\ authenticated' \in BOOLEAN
      /\ authFailed' \in BOOLEAN /\ reconnectTimer' \in BOOLEAN
      /\ due' \in [Sub -> 0 .. MaxDue] /\ held' = {}
      /\ call' \in [Call -> {"unused", "pending", "settled"}]
  BY <1>1, ClosedFacts
<1>3. TypeOK'
  BY <1>1, <1>2 DEF TypeOK
<1>4. \A h \in ticking' : Over(h)'
  <2>1. \A h \in ticking : h \in Generation /\ Over(h)
    BY DEF Pipes, TypeOK
  <2>2. \A h \in Generation : Over(h) => Over(h)'
    BY DEF Over
  <2>3. QED
    BY <1>1, <2>1, <2>2
<1>5. ~sendsThrow => ticking' = {}
  BY <1>1 DEF Timers
<1>6. QED
  BY <1>2, <1>3, <1>4, <1>5, PipeGone

\* A send that throws on a pipe whose run is over.
LEMMA SendThrowsStep ==
  ASSUME IInv, SendThrows, connected, UNCHANGED <<requiresAuth, sendsThrow, wanted, run, sent>>,
         activeSubs' \in [Sub -> {Absent} \cup 0 .. MaxRetryable], used' \subseteq Sub,
         \A s \in Sub : s \notin used' => s \notin used /\ (activeSubs'[s] = Absent \/ ReuseIds)
  PROVE  IInv'
<1>1. open' = {} /\ HandleClose(1006)
  BY OneCarrier DEF SendThrows
<1>2. \A h \in Generation : run'[h] = run[h] /\ run[h] # "ready"
  BY DEF IInv, Links, Pipes, Over
<1>3. run' \in [Generation -> {"none", "token", "pipe", "ready", "opened", "rejected",
                               "settling", "done"}]
  BY DEF IInv, TypeOK
<1>4. QED
  BY <1>1, <1>2, <1>3, HandleCloseStep

LEMMA RunRejectedStep ==
  ASSUME IInv, NEW g \in Generation, RunRejected(g)
  PROVE  IInv'
<1> USE DEF IInv
<1>1. /\ run[g] = "rejected" /\ ~Over(g) /\ Goes(g, "settling") /\ g \notin open
      /\ UNCHANGED <<requiresAuth, sendsThrow, wanted, open, sent, activeSubs, used>>
  BY DEF RunRejected, Over, Pipes, givenVars, configVars
<1>2. CASE g = connectGeneration /\ pipe = g
  <2>1. HandleClose(1006)
    BY <1>2 DEF RunRejected
  <2>2. open' = {}
    BY <1>1, <1>2, OneCarrier
  <2>3. /\ run'[g] = "settling" /\ \A h \in Generation : h # g => run'[h] = run[h]
        /\ run' \in [Generation -> {"none", "token", "pipe", "ready", "opened", "rejected",
                                    "settling", "done"}]
    BY <1>1 DEF Goes, TypeOK
  <2>4. \A h \in Generation : h # g => run[h] # "ready"
    BY <1>2 DEF Pipes
  <2>5. /\ activeSubs' \in [Sub -> {Absent} \cup 0 .. MaxRetryable] /\ used' \subseteq Sub
    BY <1>1 DEF TypeOK
  <2>6. \A s \in Sub : s \notin used' => s \notin used /\ (activeSubs'[s] = Absent \/ ReuseIds)
    BY <1>1 DEF Fresh
  <2>7. QED
    BY <1>1, <2>1, <2>2, <2>3, <2>4, <2>5, <2>6, HandleCloseStep
<1>3. CASE ~(g = connectGeneration /\ pipe = g)
  <2>1. /\ UNCHANGED <<connectGeneration, connecting, connected, authenticated, authFailed, pipe>>
        /\ UNCHANGED <<reconnectTimer, authAckTimer, ticking>>
        /\ UNCHANGED <<activeSubs, used, due, held, call, callGeneration>>
    BY <1>1, <1>3 DEF RunRejected, linkVars, timerVars, callVars
  <2>2. TypeOK'
    BY <1>1, <2>1 DEF TypeOK, Goes
  <2>3. g = connectGeneration => pipe # 0 \/ reconnectTimer \/ authFailed
    BY <1>1 DEF Retrying, Generation
  <2>4. QED
    BY <1>1, <2>1, <2>2, <2>3, RunMoves
<1>4. QED
  BY <1>2, <1>3

LEMMA PipeClosesStep ==
  ASSUME IInv, NEW g \in Generation, NEW code, PipeCloses(g, code)
  PROVE  IInv'
<1> USE DEF IInv
<1>1. g = pipe /\ g = connectGeneration /\ open' = {} /\ HandleClose(code) /\ run' = RunAfterClose(g)
  BY OneCarrier DEF PipeCloses
<1>2. UNCHANGED <<requiresAuth, sendsThrow, wanted, sent, activeSubs, used>>
  BY DEF PipeCloses, givenVars, configVars
<1>3. \A h \in Generation : run'[h] = IF h = g /\ run[h] = "ready" THEN "rejected" ELSE run[h]
  BY <1>1 DEF RunAfterClose
<1>4. \A h \in Generation : run[h] = "ready" => h = g
  BY <1>1 DEF Pipes
<1>5. run' \in [Generation -> {"none", "token", "pipe", "ready", "opened", "rejected",
                               "settling", "done"}]
  BY <1>1 DEF RunAfterClose, TypeOK
<1>6. /\ activeSubs' \in [Sub -> {Absent} \cup 0 .. MaxRetryable] /\ used' \subseteq Sub
  BY <1>2 DEF TypeOK
<1>7. \A s \in Sub : s \notin used' => s \notin used /\ (activeSubs'[s] = Absent \/ ReuseIds)
  BY <1>2 DEF Fresh
<1>8. QED
  BY <1>1, <1>2, <1>3, <1>4, <1>5, <1>6, <1>7, HandleCloseStep

LEMMA SendRejectsStep ==
  ASSUME IInv, NEW g \in Generation, SendRejects(g)
  PROVE  IInv'
<1> USE DEF IInv
<1>1. /\ g \in sent /\ Over(g) /\ open' = open \ {g}
      /\ UNCHANGED <<requiresAuth, sendsThrow, wanted, run, sent, activeSubs, used>>
  BY DEF SendRejects, Pipes, givenVars, configVars
<1>2. CASE g = connectGeneration
  <2>1. HandleClose(1006)
    BY <1>2 DEF SendRejects
  <2>2. open' = {}
    BY <1>1, <1>2, OneCarrier
  <2>3. \A h \in Generation : run[h] # "ready"
    <3>1. pipe # 0 => pipe = g
      BY <1>2 DEF Pipes
    <3>2. QED
      BY <1>1, <3>1 DEF Pipes, Over, Generation
  <2>4. /\ run' \in [Generation -> {"none", "token", "pipe", "ready", "opened", "rejected",
                                    "settling", "done"}]
        /\ activeSubs' \in [Sub -> {Absent} \cup 0 .. MaxRetryable] /\ used' \subseteq Sub
    BY <1>1 DEF TypeOK
  <2>5. \A s \in Sub : s \notin used' => s \notin used /\ (activeSubs'[s] = Absent \/ ReuseIds)
    BY <1>1 DEF Fresh
  <2>6. \A h \in Generation : run'[h] = run[h] /\ run[h] # "ready"
    BY <1>1, <2>3
  <2>7. QED
    BY <1>1, <2>1, <2>2, <2>4, <2>5, <2>6, HandleCloseStep
<1>3. CASE g # connectGeneration
  <2>1. open' = open
    BY <1>1, <1>3, OneCarrier
  <2>2. /\ UNCHANGED <<connectGeneration, connecting, connected, authenticated, authFailed, pipe>>
        /\ UNCHANGED <<reconnectTimer, authAckTimer, ticking>>
        /\ UNCHANGED <<due, held, call, callGeneration>>
    BY <1>3 DEF SendRejects, linkVars, timerVars, callVars
  <2>3. QED
    BY <1>1, <2>1, <2>2, NothingOfIt
<1>4. QED
  BY <1>2, <1>3

LEMMA FailAuthAckStep ==
  ASSUME IInv, NEW g \in Generation, FailAuthAck(g)
  PROVE  IInv'
<1> USE DEF IInv
<1>1. /\ g \in ticking /\ Over(g) /\ authAckTimer' = 0 /\ ticking' = ticking \ {g}
      /\ UNCHANGED <<requiresAuth, sendsThrow, wanted, run, sent, activeSubs, used>>
  BY DEF FailAuthAck, Pipes, givenVars, configVars
<1>2. ~sendsThrow => ticking' = {}
  BY <1>1 DEF Timers
<1>3. CASE g = connectGeneration /\ pipe # 0
  <2>1. open' = {} /\ Closed(4002)
    BY <1>3, OneCarrier DEF FailAuthAck
  <2>2. /\ pipe' = 0 /\ ~connected' /\ ~authenticated' /\ RejectAllPending /\ ForgetServer
        /\ (reconnectTimer' \/ authFailed') /\ (authFailed => authFailed')
        /\ UNCHANGED <<connectGeneration, connecting, callGeneration>>
        /\ connected' \in BOOLEAN /\ authenticated' \in BOOLEAN
        /\ authFailed' \in BOOLEAN /\ reconnectTimer' \in BOOLEAN
        /\ due' \in [Sub -> 0 .. MaxDue] /\ held' = {}
        /\ call' \in [Call -> {"unused", "pending", "settled"}]
    BY <2>1, ClosedFacts
  <2>3. TypeOK'
    BY <1>1, <2>1, <2>2 DEF TypeOK
  <2>4. \A h \in Generation : run'[h] = run[h] /\ run[h] # "ready"
    <3>1. pipe = g
      BY <1>3 DEF Pipes
    <3>2. QED
      BY <1>1, <3>1 DEF Pipes, Over
  <2>5. \A h \in ticking' : Over(h)'
    BY <1>1 DEF Pipes, Over
  <2>6. \A s \in Sub : s \notin used' => s \notin used /\ (activeSubs'[s] = Absent \/ ReuseIds)
    BY <1>1 DEF Fresh
  <2>7. QED
    BY <1>1, <1>2, <2>1, <2>2, <2>3, <2>4, <2>5, <2>6, PipeGone
<1>4. CASE ~(g = connectGeneration /\ pipe # 0)
  <2>1. /\ UNCHANGED <<connectGeneration, connecting, connected, authenticated, authFailed, pipe>>
        /\ UNCHANGED <<reconnectTimer, open, due, held, call, callGeneration>>
    BY <1>4 DEF FailAuthAck, linkVars, callVars
  <2>2. ticking' \subseteq ticking
    BY <1>1
  <2>3. QED
    BY <1>1, <1>2, <2>1, <2>2, NothingOfIt
<1>5. QED
  BY <1>3, <1>4

\* disconnect() leaves nothing behind: its generation has no run.
LEMMA DisconnectStep == IInv /\ Disconnect => IInv'
<1> SUFFICES ASSUME IInv, Disconnect PROVE IInv'
  OBVIOUS
<1> USE DEF IInv
<1>1. /\ wanted' = FALSE /\ connectGeneration < MaxGeneration /\ connectGeneration' = connectGeneration + 1
      /\ connecting' = FALSE /\ connected' = FALSE /\ authenticated' = FALSE /\ authFailed' = FALSE
      /\ reconnectTimer' = FALSE /\ pipe' = 0
      /\ authAckTimer' = 0 /\ ticking' = ticking \ {authAckTimer}
      /\ UNCHANGED <<requiresAuth, sendsThrow, sent, activeSubs, used, callGeneration>>
  BY DEF Disconnect, ClearAuthAckTimer, configVars
<1>2. open' = {}
  BY OneCarrier DEF Disconnect
<1>3. \A h \in Generation : /\ run'[h] = IF h = pipe /\ run[h] = "ready" THEN "rejected" ELSE run[h]
                            /\ run[h] = "ready" => h = pipe
  BY DEF Disconnect, RunAfterClose, Pipes
<1>4. /\ run' \in [Generation -> {"none", "token", "pipe", "ready", "opened", "rejected",
                                  "settling", "done"}]
  BY DEF Disconnect, RunAfterClose, TypeOK
<1>5. /\ due' \in [Sub -> 0 .. MaxDue] /\ held' = {} /\ \A s \in Sub : due'[s] = 0
  BY DEF Disconnect, ForgetServer
<1>6. /\ call' \in [Call -> {"unused", "pending", "settled"}]
      /\ \A c \in Call : call'[c] # "pending"
  BY DEF Disconnect, RejectAllPending, TypeOK
<1>7. TypeOK'
  <2>1. connectGeneration' \in 0 .. MaxGeneration /\ pipe' \in 0 .. MaxGeneration
        /\ authAckTimer' \in 0 .. MaxGeneration
    BY <1>1 DEF TypeOK
  <2>2. QED
    BY <1>1, <1>2, <1>4, <1>5, <1>6, <2>1 DEF TypeOK
<1>8. Runs' /\ Retrying'
  <2>1. PICK g \in Generation : g = connectGeneration' /\ g # 0
    BY <1>1 DEF Generation, TypeOK
  <2>2. \A h \in Generation : h >= g => run[h] = "none" /\ run'[h] = "none"
    <3>1. \A h \in Generation : h >= g => h > connectGeneration
      BY <1>1, <2>1 DEF TypeOK, Generation
    <3>2. QED
      BY <1>3, <3>1 DEF Runs
  <2>3. run'[g] = "none"
    BY <2>2 DEF Generation
  <2>4. \A h \in Generation : h > g => run'[h] = "none"
    BY <2>2 DEF Generation
  <2>5. QED
    BY <1>1, <2>1, <2>3, <2>4 DEF Runs, Retrying
<1>9. Pipes'
  <2>1. \A h \in sent \cup ticking : h \in Generation /\ Over(h)
    BY DEF Pipes, TypeOK
  <2>2. \A h \in sent' \cup ticking' : Over(h)'
    BY <1>1, <1>3, <2>1 DEF Over
  <2>3. QED
    BY <1>1, <1>2, <1>3, <2>2 DEF Pipes
<1>10. Links' /\ Timers' /\ Server' /\ NeverStalls'
  BY <1>1, <1>5 DEF Links, Timers, Server, NeverStalls
<1>11. NothingDangles'
  BY <1>1, <1>2, <1>6 DEF NothingDangles, NoLeakedPipe, PendingOnLivePipe, AckTimerDone
<1>12. ~ReuseIds => Fresh' /\ SubscriptionsAgree'
  BY <1>1, <1>5 DEF Fresh, Active, SubscriptionsAgree
<1>13. QED
  BY <1>7, <1>8, <1>9, <1>10, <1>11, <1>12
-----------------------------------------------------------------------------
(* Subscriptions, calls and the server's frames. *)

\* A step that leaves the connection, its timers and its run alone; it may send
\* frames where there is a connection.
LEMMA LiveStep ==
  ASSUME IInv, UNCHANGED <<requiresAuth, sendsThrow, wanted>>,
         UNCHANGED <<connectGeneration, connecting, connected, authenticated, authFailed, pipe>>,
         UNCHANGED <<reconnectTimer, authAckTimer, ticking, run, open>>,
         sent' = sent \/ (connected /\ sent' = sent \cup {connectGeneration}),
         activeSubs' \in [Sub -> {Absent} \cup 0 .. MaxRetryable], used' \subseteq Sub,
         due' \in [Sub -> 0 .. MaxDue], held' \subseteq Sub,
         call' \in [Call -> {"unused", "pending", "settled"}],
         callGeneration' \in [Call -> 0 .. MaxGeneration],
         Server', PendingOnLivePipe', ~ReuseIds => Fresh' /\ SubscriptionsAgree'
  PROVE  IInv'
<1> USE DEF IInv
<1>1. connected => connectGeneration \in Generation /\ Over(connectGeneration)
  BY DEF Links, Pipes, TypeOK, Generation
<1>2. sent' \subseteq Generation /\ \A h \in sent' : Over(h)
  BY <1>1 DEF Pipes, TypeOK
<1>3. TypeOK'
  BY <1>2 DEF TypeOK
<1>4. Runs' /\ Links' /\ Retrying' /\ Timers' /\ NeverStalls'
  BY DEF Runs, Over, Links, Retrying, Timers, NeverStalls, RunUnderWay
<1>5. Pipes'
  BY <1>2 DEF Pipes, Over
<1>6. NothingDangles'
  BY DEF NothingDangles, NoLeakedPipe, AckTimerDone
<1>7. QED
  BY <1>3, <1>4, <1>5, <1>6

\* What the connection's calls and the application's subscriptions are not about.
LEMMA CallsKept ==
  ASSUME IInv, UNCHANGED <<connected, pipe, call, callGeneration>>
  PROVE  /\ PendingOnLivePipe'
         /\ call' \in [Call -> {"unused", "pending", "settled"}]
         /\ callGeneration' \in [Call -> 0 .. MaxGeneration]
  BY DEF IInv, TypeOK, NothingDangles, PendingOnLivePipe

LEMMA SubsKept ==
  ASSUME IInv, UNCHANGED <<authenticated, pipe, activeSubs, used, due, held>>
  PROVE  /\ activeSubs' \in [Sub -> {Absent} \cup 0 .. MaxRetryable] /\ used' \subseteq Sub
         /\ due' \in [Sub -> 0 .. MaxDue] /\ held' \subseteq Sub
         /\ Server' /\ (~ReuseIds => Fresh' /\ SubscriptionsAgree')
  BY DEF IInv, TypeOK, Server, Fresh, SubscriptionsAgree, Active

\* The application subscribes: with a fresh id, the one frame it sends is due.
LEMMA SubscribeStep ==
  ASSUME IInv, NEW s \in Sub, Subscribe(s)
  PROVE  IInv'
<1> USE DEF IInv
<1>1. /\ ReuseIds \/ s \notin used
      /\ activeSubs' = [activeSubs EXCEPT ![s] = 0] /\ used' = used \cup {s}
      /\ UNCHANGED <<requiresAuth, sendsThrow, wanted>>
      /\ UNCHANGED <<connectGeneration, connecting, connected, authenticated, authFailed, pipe>>
      /\ UNCHANGED <<reconnectTimer, authAckTimer, ticking, run, open, call, callGeneration>>
  BY DEF Subscribe, givenVars, configVars, linkVars, timerVars, callVars
<1>2. /\ activeSubs' \in [Sub -> {Absent} \cup 0 .. MaxRetryable] /\ used' \subseteq Sub
      /\ activeSubs'[s] = 0 /\ \A t \in Sub : t # s => activeSubs'[t] = activeSubs[t]
  BY <1>1 DEF TypeOK
<1>3. Active' = Active \cup {s}
  BY <1>2 DEF Active, Absent
<1>4. CASE pipe # 0 /\ authenticated
  <2>1. /\ due[s] < MaxDue /\ held' = held \cup {s} /\ sent' = sent \cup {connectGeneration}
        /\ due' = [t \in Sub |-> IF t \in {s} THEN due[t] + 1 ELSE due[t]]
    BY <1>1, <1>4 DEF Subscribe, SendsSubscribe
  <2>2. /\ due' \in [Sub -> 0 .. MaxDue] /\ held' \subseteq Sub
        /\ due'[s] = due[s] + 1 /\ \A t \in Sub : t # s => due'[t] = due[t]
    BY <2>1 DEF TypeOK
  <2>3. Server'
    BY <1>1, <1>4 DEF Server
  <2>4. ~ReuseIds => Fresh' /\ SubscriptionsAgree'
    <3>1. SUFFICES ASSUME ~ReuseIds PROVE Fresh' /\ SubscriptionsAgree'
      OBVIOUS
    <3>2. due[s] = 0
      BY <1>1, <3>1 DEF Fresh
    <3>3. \A t \in Sub : t \notin used' => activeSubs'[t] = Absent /\ due'[t] = 0
      BY <1>1, <1>2, <2>2, <3>1 DEF Fresh
    <3>4. \A t \in Active' : due'[t] <= 1
      BY <1>3, <2>2, <3>1, <3>2 DEF Fresh, Active
    <3>5. Fresh'
      BY <3>3, <3>4 DEF Fresh
    <3>6. SubscriptionsAgree'
      BY <1>3, <1>4, <2>1, <3>1 DEF SubscriptionsAgree
    <3>7. QED
      BY <3>5, <3>6
  <2>5. sent' = sent \/ (connected /\ sent' = sent \cup {connectGeneration})
    BY <1>4, <2>1 DEF Links
  <2>6. QED
    BY <1>1, <1>2, <2>2, <2>3, <2>4, <2>5, CallsKept, LiveStep
<1>5. CASE ~(pipe # 0 /\ authenticated)
  <2>1. UNCHANGED <<due, held, sent>>
    BY <1>5 DEF Subscribe
  <2>2. ~authenticated
    BY <1>5 DEF Links
  <2>3. due' \in [Sub -> 0 .. MaxDue] /\ held' \subseteq Sub /\ Server'
    BY <1>1, <2>1 DEF TypeOK, Server
  <2>4. ~ReuseIds => Fresh' /\ SubscriptionsAgree'
    <3>1. SUFFICES ASSUME ~ReuseIds PROVE Fresh' /\ SubscriptionsAgree'
      OBVIOUS
    <3>2. \A t \in Sub : due'[t] = 0
      BY <2>1, <2>2 DEF Server, TypeOK
    <3>3. \A t \in Sub : t \notin used' => activeSubs'[t] = Absent
      BY <1>1, <1>2, <3>1 DEF Fresh
    <3>4. QED
      BY <1>1, <2>2, <3>2, <3>3 DEF Fresh, SubscriptionsAgree, Active
  <2>5. QED
    BY <1>1, <1>2, <2>1, <2>3, <2>4, CallsKept, LiveStep
<1>6. QED
  BY <1>4, <1>5

\* The application unsubscribes, and the server is told where there is a
\* connection.
LEMMA UnsubscribeStep ==
  ASSUME IInv, NEW s \in Sub, Unsubscribe(s)
  PROVE  IInv'
<1> USE DEF IInv
<1>1. /\ s \in used
      /\ activeSubs' = [activeSubs EXCEPT ![s] = Absent]
      /\ UNCHANGED <<requiresAuth, sendsThrow, wanted>>
      /\ UNCHANGED <<connectGeneration, connecting, connected, authenticated, authFailed, pipe>>
      /\ UNCHANGED <<reconnectTimer, authAckTimer, ticking, run, open, call, callGeneration>>
      /\ UNCHANGED <<used, due>>
  BY DEF Unsubscribe, givenVars, configVars, linkVars, timerVars, callVars
<1>2. /\ activeSubs' \in [Sub -> {Absent} \cup 0 .. MaxRetryable] /\ used' \subseteq Sub
      /\ activeSubs'[s] = Absent /\ \A t \in Sub : t # s => activeSubs'[t] = activeSubs[t]
      /\ due' \in [Sub -> 0 .. MaxDue]
  BY <1>1 DEF TypeOK
<1>3. Active' = Active \ {s}
  BY <1>2 DEF Active
<1>4. ~ReuseIds => Fresh'
  BY <1>1, <1>2, <1>3 DEF Fresh
<1>5. CASE pipe # 0 /\ authenticated
  <2>1. held' = held \ {s} /\ sent' = sent \cup {connectGeneration}
    BY <1>5 DEF Unsubscribe
  <2>2. held' \subseteq Sub /\ Server'
    BY <1>1, <2>1 DEF Server, TypeOK
  <2>3. ~ReuseIds => SubscriptionsAgree'
    BY <1>1, <1>3, <1>5, <2>1 DEF SubscriptionsAgree
  <2>4. sent' = sent \/ (connected /\ sent' = sent \cup {connectGeneration})
    BY <1>5, <2>1 DEF Links
  <2>5. QED
    BY <1>1, <1>2, <1>4, <2>2, <2>3, <2>4, CallsKept, LiveStep
<1>6. CASE ~(pipe # 0 /\ authenticated)
  <2>1. UNCHANGED <<held, sent>>
    BY <1>6 DEF Unsubscribe
  <2>2. held' \subseteq Sub /\ Server' /\ SubscriptionsAgree'
    BY <1>1, <1>6, <2>1 DEF Server, TypeOK, SubscriptionsAgree
  <2>3. QED
    BY <1>1, <1>2, <1>4, <2>1, <2>2, CallsKept, LiveStep
<1>7. QED
  BY <1>5, <1>6

LEMMA SubscriptionSendThrowsStep ==
  ASSUME IInv, NEW s \in Sub, SubscriptionSendThrows(s)
  PROVE  IInv'
<1>1. connected /\ SendThrows /\ UNCHANGED <<requiresAuth, sendsThrow, wanted, run, sent>>
  BY DEF IInv, Links, SubscriptionSendThrows, givenVars, configVars
<1>2. activeSubs' \in [Sub -> {Absent} \cup 0 .. MaxRetryable] /\ used' \subseteq Sub
  BY DEF IInv, TypeOK, SubscriptionSendThrows
<1>3. \A t \in Sub : t \notin used' => t \notin used /\ (activeSubs'[t] = Absent \/ ReuseIds)
  <2>1. ASSUME NEW t \in Sub, t \notin used'
        PROVE  t \notin used /\ (activeSubs'[t] = Absent \/ ReuseIds)
    <3>1. t \notin used /\ t # s
      BY <2>1 DEF SubscriptionSendThrows
    <3>2. activeSubs'[t] = activeSubs[t]
      BY <3>1 DEF SubscriptionSendThrows, IInv, TypeOK
    <3>3. QED
      BY <3>1, <3>2 DEF IInv, Fresh
  <2>2. QED
    BY <2>1
<1>4. QED
  BY <1>1, <1>2, <1>3, SendThrowsStep

\* The server's answers to the subscribe frames.
LEMMA SubscribedStep ==
  ASSUME IInv, NEW s \in Sub, Subscribed(s) \/ Swallowed(s)
  PROVE  IInv'
<1> USE DEF IInv
<1>1. /\ due[s] > 0 /\ due' = [due EXCEPT ![s] = @ - 1]
      /\ UNCHANGED <<requiresAuth, sendsThrow, wanted>>
      /\ UNCHANGED <<connectGeneration, connecting, connected, authenticated, authFailed, pipe>>
      /\ UNCHANGED <<reconnectTimer, authAckTimer, ticking, run, open, call, callGeneration>>
      /\ UNCHANGED <<sent, used, held>>
  <2>1. CASE Subscribed(s)
    BY <2>1 DEF Subscribed, givenVars, configVars, linkVars, timerVars, pipeVars, callVars
  <2>2. CASE Swallowed(s)
    <3>1. due[s] > 0
      BY <2>2 DEF Swallowed, TypeOK
    <3>2. QED
      BY <2>2, <3>1 DEF Swallowed, givenVars, configVars, linkVars, timerVars, pipeVars, callVars
  <2>3. QED
    BY <2>1, <2>2
<1>2. /\ activeSubs' \in [Sub -> {Absent} \cup 0 .. MaxRetryable]
      /\ \A t \in Sub : activeSubs'[t] = Absent <=> activeSubs[t] = Absent
  <2>1. CASE Subscribed(s)
    <3>1. activeSubs' = [activeSubs EXCEPT ![s] = IF activeSubs[s] = Absent THEN Absent ELSE 0]
      BY <2>1 DEF Subscribed
    <3>2. QED
      BY <3>1 DEF TypeOK, Absent
  <2>2. CASE Swallowed(s)
    BY <2>2 DEF Swallowed, TypeOK
  <2>3. QED
    BY <2>1, <2>2
<1>3. /\ due' \in [Sub -> 0 .. MaxDue] /\ held' \subseteq Sub /\ used' \subseteq Sub
      /\ \A t \in Sub : due'[t] <= due[t] /\ (due'[t] > 0 => due[t] > 0)
  <2>1. due'[s] = due[s] - 1 /\ due[s] \in 0 .. MaxDue /\ \A t \in Sub : t # s => due'[t] = due[t]
    BY <1>1 DEF TypeOK
  <2>2. due' \in [Sub -> 0 .. MaxDue]
    BY <1>1, <2>1 DEF TypeOK
  <2>3. \A t \in Sub : due'[t] <= due[t] /\ (due'[t] > 0 => due[t] > 0)
    BY <2>1 DEF TypeOK
  <2>4. QED
    BY <1>1, <2>2, <2>3 DEF TypeOK
<1>4. Active' = Active
  BY <1>2 DEF Active
<1>5. Server'
  BY <1>1, <1>3 DEF Server
<1>6. ~ReuseIds => Fresh' /\ SubscriptionsAgree'
  <2>1. SUFFICES ASSUME ~ReuseIds PROVE Fresh' /\ SubscriptionsAgree'
    OBVIOUS
  <2>2. \A t \in Sub : due[t] \in 0 .. MaxDue /\ due'[t] \in 0 .. MaxDue
    BY <1>3 DEF TypeOK
  <2>3. \A t \in Sub : t \notin used' => activeSubs'[t] = Absent /\ due'[t] = 0
    <3>1. ASSUME NEW t \in Sub, t \notin used'
          PROVE  activeSubs'[t] = Absent /\ due'[t] = 0
      <4>1. activeSubs[t] = Absent /\ due[t] = 0
        BY <1>1, <2>1, <3>1 DEF Fresh
      <4>2. due'[t] <= 0
        BY <1>3, <4>1
      <4>3. QED
        BY <1>2, <2>2, <4>1, <4>2
    <3>2. QED
      BY <3>1
  <2>4. \A t \in Active' : due'[t] <= 1
    <3>1. ASSUME NEW t \in Sub, t \in Active
          PROVE  due'[t] <= 1
      <4>1. due[t] <= 1 /\ due'[t] <= due[t] /\ due[t] \in Int /\ due'[t] \in Int
        BY <1>3, <2>1, <2>2, <3>1 DEF Fresh
      <4>2. QED
        BY <4>1
    <3>2. QED
      BY <1>4, <3>1 DEF Active
  <2>5. SubscriptionsAgree'
    BY <1>1, <1>4, <2>1 DEF SubscriptionsAgree
  <2>6. QED
    BY <2>3, <2>4, <2>5 DEF Fresh
<1>7. QED
  BY <1>1, <1>2, <1>3, <1>5, <1>6, CallsKept, LiveStep

\* An error below the cap sends the subscription again; one above it drops it on
\* both sides.
LEMMA SubscriptionErrorStep ==
  ASSUME IInv, NEW s \in Sub, NEW retryable \in BOOLEAN, SubscriptionError(s, retryable)
  PROVE  IInv'
<1> USE DEF IInv
<1>1. /\ due[s] > 0 /\ connected /\ pipe # 0 /\ authenticated
      /\ UNCHANGED <<requiresAuth, sendsThrow, wanted, run, sent, used>>
  BY DEF SubscriptionError, Receives, Links, Server, givenVars, configVars
<1>2. CASE Retries(s, retryable)
  <2>1. activeSubs[s] # Absent /\ activeSubs' = [activeSubs EXCEPT ![s] = activeSubs[s] + 1]
    BY <1>2 DEF SubscriptionError, Retries
  <2>2. /\ activeSubs' \in [Sub -> {Absent} \cup 0 .. MaxRetryable]
        /\ \A t \in Sub : activeSubs'[t] = Absent <=> activeSubs[t] = Absent
    <3>1. activeSubs[s] \in 0 .. MaxRetryable /\ activeSubs[s] + 1 \in 0 .. MaxRetryable
      BY <1>2, <2>1 DEF Retries, TypeOK
    <3>2. activeSubs[s] + 1 # Absent
      BY <3>1 DEF Absent
    <3>3. QED
      BY <2>1, <3>1, <3>2 DEF TypeOK
  <2>3. CASE /\ held' = held \cup {s}
             /\ UNCHANGED <<due, linkVars, timerVars, open, callVars>>
    <3>1. /\ UNCHANGED <<connectGeneration, connecting, connected, authenticated, authFailed, pipe>>
          /\ UNCHANGED <<reconnectTimer, authAckTimer, ticking, open, call, callGeneration, due>>
      BY <2>3 DEF linkVars, timerVars, callVars
    <3>2. Active' = Active /\ s \in Active
      BY <2>1, <2>2 DEF Active
    <3>3. /\ used' \subseteq Sub /\ due' \in [Sub -> 0 .. MaxDue] /\ held' \subseteq Sub
          /\ Server'
      BY <1>1, <2>3, <3>1 DEF TypeOK, Server
    <3>4. ~ReuseIds => Fresh' /\ SubscriptionsAgree'
      BY <1>1, <2>2, <2>3, <3>1, <3>2 DEF Fresh, SubscriptionsAgree
    <3>5. QED
      BY <1>1, <2>2, <3>1, <3>3, <3>4, CallsKept, LiveStep
  <2>4. CASE SendThrows
    <3>1. /\ used' \subseteq Sub
          /\ \A t \in Sub : t \notin used' => t \notin used /\ (activeSubs'[t] = Absent \/ ReuseIds)
      BY <1>1, <2>2 DEF TypeOK, Fresh
    <3>2. QED
      BY <1>1, <2>2, <2>4, <3>1, SendThrowsStep
  <2>5. QED
    BY <1>2, <2>3, <2>4 DEF SubscriptionError
<1>3. CASE ~Retries(s, retryable)
  <2>1. /\ activeSubs' = [activeSubs EXCEPT ![s] = Absent]
        /\ held' = HeldAfterError(s)
        /\ due' = [due EXCEPT ![s] = due[s] - 1]
        /\ UNCHANGED <<connectGeneration, connecting, connected, authenticated, authFailed, pipe>>
        /\ UNCHANGED <<reconnectTimer, authAckTimer, ticking, open, call, callGeneration>>
    BY <1>3 DEF SubscriptionError, linkVars, timerVars, callVars
  <2>2. /\ activeSubs' \in [Sub -> {Absent} \cup 0 .. MaxRetryable]
        /\ activeSubs'[s] = Absent /\ \A t \in Sub : t # s => activeSubs'[t] = activeSubs[t]
    BY <2>1 DEF TypeOK
  <2>3. /\ due' \in [Sub -> 0 .. MaxDue] /\ due'[s] = due[s] - 1
        /\ \A t \in Sub : t # s => due'[t] = due[t]
    BY <1>1, <2>1 DEF TypeOK
  <2>4. /\ used' \subseteq Sub /\ held' \subseteq held /\ held' \subseteq Sub /\ Server'
    BY <1>1, <2>1 DEF TypeOK, HeldAfterError, Server
  <2>5. Active' = Active \ {s}
    BY <2>2 DEF Active
  <2>6. ~ReuseIds => Fresh' /\ SubscriptionsAgree'
    <3>1. SUFFICES ASSUME ~ReuseIds PROVE Fresh' /\ SubscriptionsAgree'
      OBVIOUS
    <3>2. s \in used
      BY <1>1, <3>1 DEF Fresh, TypeOK
    <3>3. Fresh'
      BY <1>1, <2>2, <2>3, <2>5, <3>1, <3>2 DEF Fresh, Active
    <3>4. held = Active
      BY <1>1, <3>1 DEF SubscriptionsAgree
    <3>5. held' = Active \ {s}
      <4>1. CASE s \in Active
        <5>1. due[s] <= 1 /\ due[s] \in 0 .. MaxDue
          BY <3>1, <4>1 DEF Fresh, TypeOK
        <5>2. due[s] = 1
          BY <1>1, <5>1
        <5>3. QED
          BY <2>1, <3>4, <5>2 DEF HeldAfterError
      <4>2. CASE s \notin Active
        BY <2>1, <3>4, <4>2 DEF HeldAfterError
      <4>3. QED
        BY <4>1, <4>2
    <3>6. SubscriptionsAgree'
      BY <2>5, <3>5 DEF SubscriptionsAgree
    <3>7. QED
      BY <3>3, <3>6
  <2>7. QED
    BY <1>1, <2>1, <2>2, <2>3, <2>4, <2>6, CallsKept, LiveStep
<1>4. QED
  BY <1>2, <1>3

\* A call goes out on the pipe in use, or is refused.
LEMMA InvokeStep ==
  ASSUME IInv, NEW c \in Call, Invoke(c)
  PROVE  IInv'
<1> USE DEF IInv
<1>1. /\ UNCHANGED <<requiresAuth, sendsThrow, wanted>>
      /\ UNCHANGED <<connectGeneration, connecting, connected, authenticated, authFailed, pipe>>
      /\ UNCHANGED <<reconnectTimer, authAckTimer, ticking, run, open>>
      /\ UNCHANGED <<activeSubs, used, due, held>>
  BY DEF Invoke, givenVars, configVars, linkVars, timerVars, subVars
<1>2. CASE /\ pipe # 0 /\ connected
           /\ call' = [call EXCEPT ![c] = "pending"]
           /\ callGeneration' = [callGeneration EXCEPT ![c] = connectGeneration]
           /\ sent' = sent \cup {connectGeneration}
  <2>1. pipe = connectGeneration
    BY <1>2 DEF Pipes
  <2>2. /\ call' \in [Call -> {"unused", "pending", "settled"}]
        /\ callGeneration' \in [Call -> 0 .. MaxGeneration]
        /\ callGeneration'[c] = pipe
        /\ \A d \in Call : d # c => call'[d] = call[d] /\ callGeneration'[d] = callGeneration[d]
    BY <1>2, <2>1 DEF TypeOK
  <2>3. PendingOnLivePipe'
    BY <1>1, <1>2, <2>2 DEF NothingDangles, PendingOnLivePipe
  <2>4. QED
    BY <1>1, <1>2, <2>2, <2>3, SubsKept, LiveStep
<1>3. CASE /\ call' = [call EXCEPT ![c] = "settled"]
           /\ UNCHANGED <<callGeneration, sent>>
  <2>1. /\ call' \in [Call -> {"unused", "pending", "settled"}]
        /\ callGeneration' \in [Call -> 0 .. MaxGeneration]
        /\ call'[c] = "settled" /\ \A d \in Call : d # c => call'[d] = call[d]
    BY <1>3 DEF TypeOK
  <2>2. PendingOnLivePipe'
    BY <1>1, <1>3, <2>1 DEF NothingDangles, PendingOnLivePipe
  <2>3. QED
    BY <1>1, <1>3, <2>1, <2>2, SubsKept, LiveStep
<1>4. QED
  BY <1>2, <1>3 DEF Invoke

LEMMA AnsweredStep ==
  ASSUME IInv, InvalidMessage \/ \E c \in Call : CallAnswered(c)
  PROVE  IInv'
<1> USE DEF IInv
<1>1. /\ UNCHANGED <<requiresAuth, sendsThrow, wanted>>
      /\ UNCHANGED <<connectGeneration, connecting, connected, authenticated, authFailed, pipe>>
      /\ UNCHANGED <<reconnectTimer, authAckTimer, ticking, run, open, sent>>
      /\ UNCHANGED <<activeSubs, used, due, held, callGeneration>>
  BY DEF InvalidMessage, CallAnswered, givenVars, configVars, linkVars, timerVars, pipeVars, subVars
<1>2. /\ call' \in [Call -> {"unused", "pending", "settled"}]
      /\ \A d \in Call : call'[d] = "pending" => call[d] = "pending"
  <2>1. CASE InvalidMessage
    BY <2>1 DEF InvalidMessage, TypeOK
  <2>2. CASE \E c \in Call : CallAnswered(c)
    <3>1. PICK c \in Call : call' = [call EXCEPT ![c] = "settled"]
      BY <2>2 DEF CallAnswered
    <3>2. QED
      BY <3>1 DEF TypeOK
  <2>3. QED
    BY <2>1, <2>2
<1>3. callGeneration' \in [Call -> 0 .. MaxGeneration] /\ PendingOnLivePipe'
  BY <1>1, <1>2 DEF TypeOK, NothingDangles, PendingOnLivePipe
<1>4. QED
  BY <1>1, <1>2, <1>3, SubsKept, LiveStep

\* The acknowledgement: from nothing held to all the application has.
LEMMA AuthenticatedStep ==
  ASSUME IInv, Authenticated
  PROVE  IInv'
<1> USE DEF IInv
<1>1. connected /\ pipe # 0 /\ UNCHANGED <<requiresAuth, sendsThrow, wanted, run>>
  BY DEF Authenticated, Receives, Links, givenVars, configVars
<1>2. CASE authenticated
  <2>1. /\ UNCHANGED <<connectGeneration, connecting, connected, authenticated, authFailed, pipe>>
        /\ UNCHANGED <<reconnectTimer, authAckTimer, ticking, open, sent>>
        /\ UNCHANGED <<activeSubs, used, due, held, call, callGeneration>>
    BY <1>2 DEF Authenticated, linkVars, timerVars, subVars, callVars
  <2>2. QED
    BY <1>1, <2>1, NothingOfIt
<1>3. CASE /\ ~authenticated /\ authenticated' = TRUE
           /\ ClearAuthAckTimer
           /\ SendsSubscribe(Active)
           /\ UNCHANGED <<connectGeneration, connecting, connected, authFailed, pipe,
                          reconnectTimer, open, activeSubs, used, call, callGeneration>>
  <2>1. /\ authAckTimer' = 0 /\ ticking' = ticking \ {authAckTimer}
        /\ due' = [t \in Sub |-> IF t \in Active THEN due[t] + 1 ELSE due[t]]
        /\ \A t \in Active : due[t] < MaxDue
        /\ held' = held \cup Active
        /\ sent' = sent \/ sent' = sent \cup {connectGeneration}
    BY <1>3 DEF ClearAuthAckTimer, SendsSubscribe
  <2>2. connectGeneration \in Generation /\ Over(connectGeneration)
    BY <1>1 DEF Links, Pipes, TypeOK, Generation
  <2>3. /\ sent' \subseteq Generation /\ ticking' \subseteq ticking /\ Active \subseteq Sub
        /\ \A h \in sent' \cup ticking' : Over(h)
    BY <2>1, <2>2 DEF Pipes, TypeOK, Active
  <2>4. held = {} /\ \A t \in Sub : due[t] = 0
    BY <1>3 DEF Server, TypeOK
  <2>5. /\ due' \in [Sub -> 0 .. MaxDue]
        /\ \A t \in Sub : due'[t] = IF t \in Active THEN 1 ELSE 0
    <3>1. \A t \in Sub : due'[t] = IF t \in Active THEN 1 ELSE 0
      BY <2>1, <2>4
    <3>2. \A t \in Sub : due'[t] \in 0 .. MaxDue
      BY <2>1, <2>4, <3>1
    <3>3. QED
      BY <2>1, <3>1, <3>2
  <2>6. TypeOK'
    <3>1. authAckTimer' \in 0 .. MaxGeneration /\ held' \subseteq Sub /\ ticking' \subseteq Generation
      BY <2>1, <2>3, <2>4 DEF TypeOK
    <3>2. authenticated' \in BOOLEAN
      BY <1>3
    <3>3. QED
      BY <1>1, <1>3, <2>3, <2>5, <3>1, <3>2 DEF TypeOK
  <2>7. Runs' /\ Links' /\ Retrying' /\ NeverStalls'
    BY <1>1, <1>3 DEF Runs, Over, Links, Retrying, NeverStalls, RunUnderWay
  <2>8. Pipes'
    BY <1>1, <1>3, <2>3 DEF Pipes, Over
  <2>9. ~sendsThrow => ticking' = {}
    BY <2>1 DEF Timers
  <2>10. Timers' /\ Server'
    BY <1>1, <1>3, <2>9 DEF Timers, Server
  <2>11. NothingDangles'
    BY <1>1, <1>3, <2>9 DEF NothingDangles, NoLeakedPipe, PendingOnLivePipe, AckTimerDone
  <2>12. ~ReuseIds => Fresh' /\ SubscriptionsAgree'
    <3>1. Active' = Active
      BY <1>3 DEF Active
    <3>2. SubscriptionsAgree'
      BY <2>1, <2>4, <3>1 DEF SubscriptionsAgree
    <3>3. ~ReuseIds => Fresh'
      BY <1>3, <2>5, <3>1 DEF Fresh, Active
    <3>4. QED
      BY <3>2, <3>3
  <2>13. QED
    BY <2>6, <2>7, <2>8, <2>10, <2>11, <2>12
<1>4. CASE SendThrows /\ UNCHANGED <<sent, activeSubs, used>>
  <2>1. /\ activeSubs' \in [Sub -> {Absent} \cup 0 .. MaxRetryable] /\ used' \subseteq Sub
        /\ \A t \in Sub : t \notin used' => t \notin used /\ (activeSubs'[t] = Absent \/ ReuseIds)
    BY <1>4 DEF TypeOK, Fresh
  <2>2. QED
    BY <1>1, <1>4, <2>1, SendThrowsStep
<1>5. QED
  BY <1>2, <1>3, <1>4 DEF Authenticated, callVars

-----------------------------------------------------------------------------
(* The theorems. *)

LEMMA StepIInv == IInv /\ [Next]_vars => IInv'
<1> SUFFICES ASSUME IInv, [Next]_vars PROVE IInv'
  OBVIOUS
<1>1. CASE Connect \/ ReconnectTimerFires
  BY <1>1, ConnectStep
<1>2. CASE Disconnect
  BY <1>2, DisconnectStep
<1>3. ASSUME NEW g \in Generation, RunNext(g) PROVE IInv'
  BY <1>3, TokenSettlesStep, PipeCreatedStep, PipeReadyStep, RunReadyStep, RunRejectedStep,
     RunSettlesStep DEF RunNext
<1>4. ASSUME NEW g \in Generation, PipeNext(g) PROVE IInv'
  BY <1>4, PipeClosesStep, SendRejectsStep, FailAuthAckStep DEF PipeNext
<1>5. ASSUME NEW s \in Sub, SubNext(s) PROVE IInv'
  BY <1>5, SubscribeStep, UnsubscribeStep, SubscriptionSendThrowsStep, SubscribedStep,
     SubscriptionErrorStep DEF SubNext
<1>6. CASE \E c \in Call : Invoke(c) \/ CallAnswered(c)
  BY <1>6, InvokeStep, AnsweredStep
<1>7. CASE Authenticated \/ InvalidMessage
  BY <1>7, AuthenticatedStep, AnsweredStep
<1>8. CASE UNCHANGED vars
  <2>1. /\ UNCHANGED <<requiresAuth, sendsThrow, wanted>>
        /\ UNCHANGED <<connectGeneration, connecting, connected, authenticated, authFailed, pipe>>
        /\ UNCHANGED <<reconnectTimer, authAckTimer, ticking, run, open, sent>>
        /\ UNCHANGED <<activeSubs, used, due, held, call, callGeneration>>
    BY <1>8 DEF vars, givenVars, configVars, linkVars, timerVars, pipeVars, subVars, callVars
  <2>2. QED
    BY <2>1, NothingOfIt
<1>9. QED
  BY <1>1, <1>2, <1>3, <1>4, <1>5, <1>6, <1>7, <1>8 DEF Next

LEMMA Invariance == Spec => []IInv
<1>1. QED
  BY InitIInv, StepIInv, PTL DEF Spec

\* The engine's state stays within its types: no generation, retry count or
\* count of unanswered frames leaves its range.
THEOREM TypeCorrect == Spec => []TypeOK
<1>1. IInv => TypeOK
  BY DEF IInv
<1>2. QED
  BY <1>1, Invariance, PTL

\* Between connect() and disconnect() the engine, unless it was refused for good,
\* has a pipe, opens one, or has armed a retry, however many attempts failed.
THEOREM EngineNeverStalls == Spec => []NeverStalls
<1>1. IInv => NeverStalls
  BY DEF IInv
<1>2. QED
  BY <1>1, Invariance, PTL

\* Of a connection that is gone no carrier is up, no call is pending and, where
\* sends do not throw, no ack timer runs into an authenticated one.
THEOREM NothingIsLeftDangling == Spec => []NothingDangles
<1>1. IInv => NothingDangles
  BY DEF IInv
<1>2. QED
  BY <1>1, Invariance, PTL

\* An engine whose ids are not reused has, on an authenticated pipe, exactly the
\* subscriptions the server holds once it has read what was sent.
THEOREM SubscriptionsStayAgreed ==
  ASSUME ~ReuseIds
  PROVE  Spec => []SubscriptionsAgree
<1>1. IInv => SubscriptionsAgree
  BY DEF IInv
<1>2. QED
  BY <1>1, Invariance, PTL

=============================================================================
