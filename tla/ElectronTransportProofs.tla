------------------------ MODULE ElectronTransportProofs ------------------------
(***************************************************************************)
(* What holds of the Electron transport for every number of pipes, and     *)
(* channels of any length.                                                 *)
(***************************************************************************)
EXTENDS ElectronTransport, TLAPS

USE BoundsAssumption

-----------------------------------------------------------------------------
(* Types *)

LEMMA InitTypeOK == Init => TypeOK
  BY DEF Init, TypeOK, None, C2S, S2C

\* The frames under way to the adapter, one taken from them or one put to them.
LEMMA FrameType ==
  ASSUME TypeOK
  PROVE  \A i \in 1 .. Len(c2s) :
           c2s[i].from \in PipeId /\ c2s[i].type \in {"connect", "close", "data"}
<1>1. c2s \in Seq(C2S)
  BY DEF TypeOK
<1>2. \A i \in 1 .. Len(c2s) : c2s[i] \in C2S
  BY <1>1
<1>3. QED
  BY <1>2 DEF C2S

LEMMA TakeFacts ==
  ASSUME TypeOK, c2s # <<>>, c2s' = Tail(c2s)
  PROVE  /\ Len(c2s) \in Nat \ {0} /\ Len(c2s') = Len(c2s) - 1
         /\ Head(c2s) = c2s[1]
         /\ Head(c2s).from \in PipeId
         /\ \A i \in 1 .. Len(c2s') : i + 1 \in 1 .. Len(c2s) /\ c2s'[i] = c2s[i + 1]
<1>1. Len(c2s) \in Nat \ {0} /\ Len(c2s') = Len(c2s) - 1 /\ Head(c2s) = c2s[1]
  BY DEF TypeOK
<1>2. \A i \in 1 .. Len(c2s') : i + 1 \in 1 .. Len(c2s) /\ c2s'[i] = c2s[i + 1]
  BY <1>1 DEF TypeOK
<1>3. QED
  BY <1>1, <1>2, FrameType

LEMMA PutFacts ==
  ASSUME TypeOK, NEW f, c2s' = Append(c2s, f)
  PROVE  /\ Len(c2s) \in Nat /\ Len(c2s') = Len(c2s) + 1
         /\ c2s'[Len(c2s) + 1] = f
         /\ \A i \in 1 .. Len(c2s) : c2s'[i] = c2s[i]
  BY DEF TypeOK

\* A connection that is opened is new, and recorded as its pipe's.
LEMMA OpenedType ==
  ASSUME TypeOK, NEW p \in PipeId, NEW left, left \subseteq Connection, Opened(p, left)
  PROVE  /\ conn' \in Connection
         /\ openedBy[conn'] = None
         /\ attached' = left \cup {conn'}
         /\ openedBy' = [openedBy EXCEPT ![conn'] = p]
         /\ openedBy' \in [Connection -> PipeId \cup {None}]
  BY DEF Opened, TypeOK

\* What a teardown leaves of the entry, and what its echo adds to the channel.
LEMMA RemovedType ==
  ASSUME TypeOK, Removed
  PROVE  conn' \in Connection \cup {None} /\ attached' \subseteq Connection
  BY DEF Removed, TypeOK

LEMMA EchoType ==
  ASSUME TypeOK, Echo
  PROVE  s2c' \in Seq(S2C)
<1>1. ASSUME NEW c \in Connection PROVE [type |-> "close", from |-> c] \in S2C
  BY DEF S2C
<1>2. CASE conn # None
  <2>1. conn \in Connection
    BY <1>2 DEF TypeOK
  <2>2. QED
    BY <1>1, <1>2, <2>1 DEF Echo, TypeOK
<1>3. CASE conn = None
  BY <1>3 DEF Echo, TypeOK
<1>4. QED
  BY <1>2, <1>3

LEMMA TypeOKStep == TypeOK /\ [Next]_vars => TypeOK'
<1> SUFFICES ASSUME TypeOK, [Next]_vars PROVE TypeOK'
  OBVIOUS
<1> USE DEF TypeOK
<1>h. ASSUME c2s # <<>> PROVE Head(c2s) \in C2S /\ Tail(c2s) \in Seq(C2S)
  BY <1>h
<1>e. ASSUME s2c # <<>> PROVE Head(s2c) \in S2C /\ Tail(s2c) \in Seq(S2C)
  BY <1>e
<1>1. ASSUME NEW p \in PipeId, PipeNext(p) PROVE TypeOK'
  <2>1. CASE CreatePipe(p)
    BY <2>1 DEF CreatePipe, adapterVars
  <2>2. CASE FlushConnect(p)
    BY <2>2 DEF FlushConnect, adapterVars, C2S
  <2>3. CASE SendData(p)
    BY <2>3 DEF SendData, pageVars, adapterVars, C2S
  <2>4. CASE ClosePipe(p)
    BY <2>4 DEF ClosePipe, adapterVars, C2S
  <2>5. QED
    BY <1>1, <2>1, <2>2, <2>3, <2>4 DEF PipeNext
<1>2. CASE ReceiveS2C
  BY <1>2, <1>e DEF ReceiveS2C, adapterVars, S2C
<1>3. CASE Reload
  BY <1>3 DEF Reload, PipesDie, adapterVars
<1>4. CASE HandleConnect
  <2>1. Head(c2s).from \in PipeId /\ Tail(c2s) \in Seq(C2S)
    BY <1>4, <1>h DEF HandleConnect, NextFrame, C2S
  <2>2. attached \ {conn} \subseteq Connection
    OBVIOUS
  <2>3. /\ conn' \in Connection
        /\ attached' = (attached \ {conn}) \cup {conn'}
        /\ openedBy' \in [Connection -> PipeId \cup {None}]
    BY <1>4, <2>1, <2>2, OpenedType DEF HandleConnect
  <2>4. QED
    BY <1>4, <2>1, <2>3 DEF HandleConnect, NextFrame, pageVars
<1>5. CASE HandleClose
  BY <1>5, <1>h, RemovedType, EchoType DEF HandleClose, NextFrame, pageVars
<1>6. CASE HandleData
  <2>1. Head(c2s).from \in PipeId /\ Tail(c2s) \in Seq(C2S)
    BY <1>6, <1>h DEF HandleData, NextFrame, C2S
  <2>2. /\ conn' \in Connection
        /\ attached' \subseteq Connection
        /\ openedBy' \in [Connection -> PipeId \cup {None}]
    <3>1. CASE conn = None
      BY <1>6, <2>1, <3>1, OpenedType DEF HandleData
    <3>2. CASE conn # None
      BY <1>6, <3>2 DEF HandleData
    <3>3. QED
      BY <3>1, <3>2
  <2>3. QED
    BY <1>6, <2>1, <2>2 DEF HandleData, NextFrame, pageVars
<1>7. ASSUME NEW c \in Connection, Push(c) \/ EngineCloses(c) PROVE TypeOK'
  <2>1. CASE Push(c)
    <3>1. [type |-> "data", from |-> c] \in S2C
      BY DEF S2C
    <3>2. QED
      BY <2>1, <3>1 DEF Push, pageVars, adapterVars
  <2>2. CASE EngineCloses(c)
    BY <2>2 DEF EngineCloses, pageVars
  <2>3. QED
    BY <1>7, <2>1, <2>2
<1>8. CASE Destroyed
  BY <1>8 DEF Destroyed, PipesDie, Removed
<1>9. CASE Detach
  BY <1>9, RemovedType, EchoType DEF Detach, pageVars
<1>10. CASE Unheard
  BY <1>10, <1>h DEF Unheard, pageVars, adapterVars
<1>11. CASE UNCHANGED vars
  BY <1>11 DEF vars, pageVars, adapterVars
<1>12. QED
  BY <1>1, <1>2, <1>3, <1>4, <1>5, <1>6, <1>7, <1>8, <1>9, <1>10, <1>11 DEF Next

\* Every variable of a window's transport keeps a value of its set.
THEOREM TypeCorrect == Spec => []TypeOK
<1>1. QED
  BY InitTypeOK, TypeOKStep, PTL DEF Spec

-----------------------------------------------------------------------------
(* Engines *)

LEMMA NoEngineLeakedStep == TypeOK /\ NoEngineLeaked /\ [Next]_vars => NoEngineLeaked'
<1> SUFFICES ASSUME TypeOK, NoEngineLeaked, [Next]_vars PROVE NoEngineLeaked'
  OBVIOUS
<1> USE DEF NoEngineLeaked
<1>n. None \notin Connection
  BY DEF None, Connection
<1>1. ASSUME NEW p \in PipeId, PipeNext(p) PROVE UNCHANGED <<conn, attached>>
  BY <1>1 DEF PipeNext, CreatePipe, FlushConnect, SendData, ClosePipe, adapterVars
<1>2. CASE ReceiveS2C \/ Reload \/ Unheard
  BY <1>2 DEF ReceiveS2C, Reload, Unheard, adapterVars
<1>3. CASE HandleConnect \/ HandleData
  <2>1. CASE conn = None \/ HandleConnect
    <3>1. Head(c2s).from \in PipeId
      BY <1>3, TakeFacts DEF HandleConnect, HandleData, NextFrame
    <3>2. Opened(Head(c2s).from, {})
      BY <1>3, <2>1 DEF HandleConnect, HandleData
    <3>3. conn' \in Connection /\ attached' = {conn'}
      BY <3>1, <3>2, OpenedType
    <3>4. QED
      BY <3>3, <1>n
  <2>2. CASE conn # None /\ HandleData
    BY <2>2 DEF HandleData
  <2>3. QED
    BY <1>3, <2>1, <2>2
<1>4. CASE HandleClose \/ Destroyed \/ Detach
  BY <1>4 DEF HandleClose, Destroyed, Detach, Removed
<1>5. ASSUME NEW c \in Connection, Push(c) \/ EngineCloses(c) PROVE NoEngineLeaked'
  <2>1. CASE Push(c)
    BY <2>1 DEF Push, adapterVars
  <2>2. CASE EngineCloses(c)
    BY <2>2 DEF EngineCloses
  <2>3. QED
    BY <1>5, <2>1, <2>2
<1>6. CASE UNCHANGED vars
  BY <1>6 DEF vars, adapterVars
<1>7. QED
  BY <1>1, <1>2, <1>3, <1>4, <1>5, <1>6 DEF Next

\* Whatever ends a connection (a close, a reload, a destroyed page, its engine),
\* its engine is detached with it (teardown of server/src/electron.ts).
THEOREM EnginesAreDetached == Spec => []NoEngineLeaked
<1>1. Init => NoEngineLeaked
  BY DEF Init, NoEngineLeaked
<1>2. QED
  BY <1>1, InitTypeOK, TypeOKStep, NoEngineLeakedStep, PTL DEF Spec

-----------------------------------------------------------------------------
(* Frames and connections *)

\* The __connect of p is among the first n frames under way.
ConnectAhead(frames, p, n) ==
  \E j \in 1 .. n : frames[j].type = "connect" /\ frames[j].from = p

\* Or it has arrived, and no page since has sent anything that arrived.
ConnectDone(frames, c, opened, p) ==
  /\ \A j \in 1 .. Len(frames) : frames[j].from >= p
  /\ c = None \/ opened[c] = p

\* Pipes are built in order, one at a time.
OnePipe ==
  /\ \A p, q \in PipeId : q < p /\ pipe[q] = "none" => pipe[p] = "none"
  /\ \A p, q \in PipeId : Alive(p) /\ Alive(q) => p = q

\* Frames are under way in the order of the pipes that sent them.
Ordered ==
  /\ \A i, j \in 1 .. Len(c2s) : i <= j => c2s[i].from <= c2s[j].from
  /\ \A i \in 1 .. Len(c2s) : pipe[c2s[i].from] # "none"
  /\ \A i \in 1 .. Len(c2s), p \in PipeId : Alive(p) => c2s[i].from <= p

\* Data is preceded by the __connect of its pipe, and so is what may be sent.
Routed ==
  /\ \A i \in 1 .. Len(c2s) : c2s[i].type = "data" =>
       ConnectAhead(c2s, c2s[i].from, i - 1) \/ ConnectDone(c2s, conn, openedBy, c2s[i].from)
  /\ \A p \in PipeId : pipe[p] = "open" =>
       ConnectAhead(c2s, p, Len(c2s)) \/ ConnectDone(c2s, conn, openedBy, p)
  /\ ~listening => conn = None

RouteInv == TypeOK /\ FramesOfOwnPipe /\ OnePipe /\ Ordered /\ Routed

LEMMA InitRouteInv == Init => RouteInv
<1> SUFFICES ASSUME Init PROVE RouteInv
  OBVIOUS
<1>1. TypeOK
  BY InitTypeOK
<1>2. FramesOfOwnPipe /\ OnePipe
  BY DEF Init, FramesOfOwnPipe, OnePipe, Alive
<1>3. Ordered /\ Routed
  BY DEF Init, Ordered, Routed, Alive
<1>4. QED
  BY <1>1, <1>2, <1>3 DEF RouteInv

LEMMA OnePipeStep == TypeOK /\ OnePipe /\ [Next]_vars => OnePipe'
<1> SUFFICES ASSUME TypeOK, OnePipe, [Next]_vars PROVE OnePipe'
  OBVIOUS
<1>t. pipe \in [PipeId -> {"none", "made", "open", "closed", "ended", "dead"}]
  BY DEF TypeOK
<1>i. PipeId \subseteq Int
  BY DEF PipeId
<1> USE DEF OnePipe, Alive
<1>1. ASSUME NEW p \in PipeId, PipeNext(p) PROVE OnePipe'
  <2>1. CASE CreatePipe(p)
    BY <1>t, <1>i, <2>1 DEF CreatePipe
  <2>2. CASE FlushConnect(p)
    BY <1>t, <2>2 DEF FlushConnect
  <2>3. CASE SendData(p)
    BY <2>3 DEF SendData, pageVars
  <2>4. CASE ClosePipe(p)
    BY <1>t, <2>4 DEF ClosePipe
  <2>5. QED
    BY <1>1, <2>1, <2>2, <2>3, <2>4 DEF PipeNext
<1>2. ASSUME \A p \in PipeId : pipe'[p] # pipe[p] => pipe[p] # "none" /\ ~Alive(p)' /\ pipe'[p] # "none"
      PROVE  OnePipe'
  BY <1>t, <1>2
<1>3. CASE ReceiveS2C
  BY <1>t, <1>2, <1>3 DEF ReceiveS2C
<1>4. CASE Reload \/ Destroyed
  BY <1>t, <1>2, <1>4 DEF Reload, Destroyed, PipesDie
<1>5. CASE HandleConnect \/ HandleClose \/ HandleData \/ Detach \/ Unheard \/ UNCHANGED vars
  BY <1>5 DEF HandleConnect, HandleClose, HandleData, Detach, Unheard, vars, pageVars
<1>6. ASSUME NEW c \in Connection, Push(c) \/ EngineCloses(c) PROVE OnePipe'
  BY <1>6 DEF Push, EngineCloses, pageVars
<1>7. QED
  BY <1>1, <1>3, <1>4, <1>5, <1>6 DEF Next

LEMMA OrderedStep == TypeOK /\ OnePipe /\ Ordered /\ [Next]_vars => Ordered'
<1> SUFFICES ASSUME TypeOK, OnePipe, Ordered, [Next]_vars PROVE Ordered'
  OBVIOUS
<1>t. pipe \in [PipeId -> {"none", "made", "open", "closed", "ended", "dead"}]
  BY DEF TypeOK
<1>i. PipeId \subseteq Int
  BY DEF PipeId
<1>f. Len(c2s) \in Nat /\ \A i \in 1 .. Len(c2s) : c2s[i].from \in PipeId
  BY FrameType DEF TypeOK
<1> USE DEF Ordered, Alive
\* The channel stays, and no pipe comes alive.
<1>1. ASSUME c2s' = c2s,
             \A p \in PipeId : (Alive(p)' => Alive(p)) /\ (pipe[p] # "none" => pipe'[p] # "none")
      PROVE  Ordered'
  BY <1>t, <1>f, <1>1
\* A frame is taken.
<1>2. ASSUME c2s # <<>>, c2s' = Tail(c2s), pipe' = pipe
      PROVE  Ordered'
  <2>1. \A i \in 1 .. Len(c2s') : i + 1 \in 1 .. Len(c2s) /\ c2s'[i] = c2s[i + 1]
    BY <1>2, TakeFacts
  <2>2. \A i, j \in 1 .. Len(c2s') : i <= j => c2s'[i].from <= c2s'[j].from
    BY <2>1
  <2>3. QED
    BY <1>2, <2>1, <2>2
\* A live pipe puts a frame.
<1>3. ASSUME NEW p \in PipeId, Alive(p), NEW f, f.from = p, c2s' = Append(c2s, f),
             \A q \in PipeId : q # p => pipe'[q] = pipe[q],
             pipe'[p] # "none"
      PROVE  Ordered'
  <2>1. /\ Len(c2s') = Len(c2s) + 1
        /\ c2s'[Len(c2s) + 1] = f
        /\ \A i \in 1 .. Len(c2s) : c2s'[i] = c2s[i]
    BY <1>3, PutFacts
  <2>2. \A i \in 1 .. Len(c2s') : c2s'[i].from \in PipeId /\ c2s'[i].from <= p
    BY <1>3, <1>f, <1>i, <2>1
  <2>3. \A i, j \in 1 .. Len(c2s') : i <= j => c2s'[i].from <= c2s'[j].from
    <3> TAKE i, j \in 1 .. Len(c2s')
    <3> HAVE i <= j
    <3>1. CASE j = Len(c2s) + 1
      BY <1>3, <2>1, <2>2, <3>1
    <3>2. CASE j # Len(c2s) + 1
      BY <1>f, <2>1, <3>2
    <3>3. QED
      BY <3>1, <3>2
  <2>4. \A i \in 1 .. Len(c2s') : pipe'[c2s'[i].from] # "none"
    BY <1>3, <1>f, <2>1
  <2>5. \A q \in PipeId : Alive(q)' => q = p
    BY <1>3 DEF OnePipe
  <2>6. QED
    BY <2>2, <2>3, <2>4, <2>5
<1>4. ASSUME NEW p \in PipeId, PipeNext(p) PROVE Ordered'
  <2>1. CASE CreatePipe(p)
    <3>a. \A q \in PipeId : pipe[q] # "none" => q < p
      BY <1>i, <2>1 DEF CreatePipe, OnePipe
    <3>1. \A i \in 1 .. Len(c2s) : c2s[i].from < p
      BY <1>f, <3>a
    <3>2. /\ c2s' = c2s
          /\ \A q \in PipeId : Alive(q)' => q = p
          /\ \A q \in PipeId : pipe[q] # "none" => pipe'[q] # "none"
      BY <1>t, <2>1 DEF CreatePipe
    <3>3. QED
      BY <1>f, <1>i, <3>1, <3>2
  <2>2. CASE FlushConnect(p)
    BY <1>t, <1>3, <2>2 DEF FlushConnect
  <2>3. CASE SendData(p)
    BY <1>t, <1>3, <2>3 DEF SendData, pageVars
  <2>4. CASE ClosePipe(p)
    BY <1>t, <1>3, <2>4 DEF ClosePipe
  <2>5. QED
    BY <1>4, <2>1, <2>2, <2>3, <2>4 DEF PipeNext
<1>5. CASE ReceiveS2C
  BY <1>t, <1>1, <1>5 DEF ReceiveS2C
<1>6. CASE Reload
  BY <1>t, <1>1, <1>6 DEF Reload, PipesDie
<1>7. CASE Destroyed
  <2>1. c2s' = <<>>
    BY <1>7 DEF Destroyed
  <2>2. QED
    BY <2>1
<1>8. CASE HandleConnect \/ HandleClose \/ HandleData \/ Unheard
  BY <1>2, <1>8 DEF HandleConnect, HandleClose, HandleData, Unheard, NextFrame, pageVars
<1>9. CASE Detach \/ UNCHANGED vars
  BY <1>1, <1>9 DEF Detach, vars, pageVars
<1>10. ASSUME NEW c \in Connection, Push(c) \/ EngineCloses(c) PROVE Ordered'
  BY <1>1, <1>10 DEF Push, EngineCloses, pageVars
<1>11. QED
  BY <1>4, <1>5, <1>6, <1>7, <1>8, <1>9, <1>10 DEF Next

\* A connection dispatches frames of the pipe that opened it, also the new one.
LEMMA OwnPipeStep == RouteInv /\ [Next]_vars => FramesOfOwnPipe'
<1> SUFFICES ASSUME RouteInv, [Next]_vars PROVE FramesOfOwnPipe'
  OBVIOUS
<1>v. TypeOK /\ FramesOfOwnPipe /\ Routed
  BY DEF RouteInv
<1>t. /\ openedBy \in [Connection -> PipeId \cup {None}]
      /\ served \in [Connection -> SUBSET PipeId]
      /\ conn \in Connection \cup {None}
  BY <1>v DEF TypeOK
<1>n. None \notin Connection /\ None \notin PipeId
  BY DEF None, Connection, PipeId
<1>o. \A c \in Connection : openedBy[c] = None => served[c] = {}
  BY <1>v, <1>t, <1>n DEF FramesOfOwnPipe
<1>1. ASSUME UNCHANGED <<openedBy, served>> PROVE FramesOfOwnPipe'
  BY <1>v, <1>1 DEF FramesOfOwnPipe
<1>2. ASSUME NEW p \in PipeId, PipeNext(p) PROVE UNCHANGED <<openedBy, served>>
  BY <1>2 DEF PipeNext, CreatePipe, FlushConnect, SendData, ClosePipe, adapterVars
<1>3. CASE HandleConnect
  <2>1. Head(c2s).from \in PipeId
    BY <1>v, <1>3, TakeFacts DEF HandleConnect, NextFrame
  <2>2. Opened(Head(c2s).from, attached \ {conn}) /\ attached \ {conn} \subseteq Connection
    BY <1>v, <1>3 DEF HandleConnect, TypeOK
  <2>3. /\ conn' \in Connection /\ openedBy[conn'] = None
        /\ openedBy' = [openedBy EXCEPT ![conn'] = Head(c2s).from]
    BY <1>v, <2>1, <2>2, OpenedType
  <2>4. served' = served
    BY <1>3 DEF HandleConnect
  <2>5. QED
    BY <1>v, <1>t, <1>o, <2>3, <2>4 DEF FramesOfOwnPipe
<1>4. CASE HandleData
  <2> DEFINE p == Head(c2s).from
  <2>1. /\ p \in PipeId /\ Len(c2s) \in Nat \ {0}
        /\ p = c2s[1].from /\ c2s[1].type = "data"
    BY <1>v, <1>4, TakeFacts DEF HandleData, NextFrame
  <2>2. served' = [served EXCEPT ![conn'] = @ \cup {p}]
    BY <1>4 DEF HandleData
  <2> HIDE DEF p
  <2>3. CASE conn = None
    <3>1. Opened(p, attached) /\ attached \subseteq Connection
      BY <1>v, <1>4, <2>3 DEF HandleData, TypeOK, p
    <3>2. /\ conn' \in Connection /\ openedBy[conn'] = None
          /\ openedBy' = [openedBy EXCEPT ![conn'] = p]
      BY <1>v, <2>1, <3>1, OpenedType
    <3>3. QED
      BY <1>v, <1>t, <1>o, <2>2, <3>2 DEF FramesOfOwnPipe
  <2>4. CASE conn # None
    <3>1. conn \in Connection /\ conn' = conn /\ openedBy' = openedBy
      BY <1>t, <1>4, <2>4 DEF HandleData
    <3>2. ConnectAhead(c2s, p, 1 - 1) \/ ConnectDone(c2s, conn, openedBy, p)
      BY <1>v, <2>1 DEF Routed
    <3>3. openedBy[conn] = p
      BY <2>4, <3>2 DEF ConnectAhead, ConnectDone
    <3>4. QED
      BY <1>v, <1>t, <2>2, <3>1, <3>3 DEF FramesOfOwnPipe
  <2>5. QED
    BY <2>3, <2>4
<1>5. CASE ReceiveS2C \/ Reload \/ HandleClose \/ Destroyed \/ Detach \/ Unheard \/ UNCHANGED vars
  BY <1>1, <1>5
    DEF ReceiveS2C, Reload, HandleClose, Destroyed, Detach, Unheard, vars, adapterVars
<1>6. ASSUME NEW c \in Connection, Push(c) \/ EngineCloses(c) PROVE UNCHANGED <<openedBy, served>>
  BY <1>6 DEF Push, EngineCloses, adapterVars
<1>7. QED
  BY <1>1, <1>2, <1>3, <1>4, <1>5, <1>6 DEF Next

\* A frame is taken and the page does nothing: Routed lasts when each pipe that
\* still matters, and whose __connect has arrived, has the entry or finds none.
LEMMA TakeRouted ==
  ASSUME RouteInv, c2s # <<>>, c2s' = Tail(c2s), pipe' = pipe, ~listening' => conn' = None,
         \A p \in PipeId :
           /\ Head(c2s).from <= p
           /\ \/ ConnectDone(c2s, conn, openedBy, p)
              \/ Head(c2s).type = "connect" /\ Head(c2s).from = p
           => conn' = None \/ openedBy'[conn'] = p
  PROVE  Routed'
<1>v. TypeOK /\ Ordered /\ Routed
  BY DEF RouteInv
<1> DEFINE n == Len(c2s)
           Arrived(p) == \/ ConnectDone(c2s, conn, openedBy, p)
                         \/ Head(c2s).type = "connect" /\ Head(c2s).from = p
<1>1. /\ n \in Nat \ {0} /\ Len(c2s') = n - 1
      /\ Head(c2s) = c2s[1]
      /\ \A i \in 1 .. n - 1 : c2s'[i] = c2s[i + 1]
  BY <1>v, TakeFacts
<1>2. \A i \in 1 .. n : c2s[i].from \in PipeId
  BY <1>v, FrameType
<1>3. \A i \in 1 .. n : c2s[1].from <= c2s[i].from
  BY <1>v, <1>1 DEF Ordered
<1>4. ASSUME NEW p \in PipeId, Head(c2s).from <= p, Arrived(p)
      PROVE  ConnectDone(c2s', conn', openedBy', p)
  <2>1. \A j \in 1 .. n : c2s[j].from >= p
    BY <1>1, <1>3, <1>4, <1>2 DEF ConnectDone, PipeId
  <2>2. \A j \in 1 .. Len(c2s') : c2s'[j].from >= p
    BY <1>1, <2>1
  <2>3. conn' = None \/ openedBy'[conn'] = p
    BY <1>4
  <2>4. QED
    BY <2>2, <2>3 DEF ConnectDone
<1>5. ASSUME NEW p \in PipeId, NEW m \in 1 .. n, ConnectAhead(c2s, p, m), Head(c2s).from <= p
      PROVE  ConnectAhead(c2s', p, m - 1) \/ ConnectDone(c2s', conn', openedBy', p)
  <2>1. PICK j \in 1 .. m : c2s[j].type = "connect" /\ c2s[j].from = p
    BY <1>5 DEF ConnectAhead
  <2>2. CASE j = 1
    BY <1>1, <1>4, <1>5, <2>1, <2>2
  <2>3. CASE j # 1
    <3>1. j - 1 \in 1 .. m - 1 /\ c2s'[j - 1] = c2s[j]
      BY <1>1, <2>3
    <3>2. QED
      BY <2>1, <3>1 DEF ConnectAhead
  <2>4. QED
    BY <2>2, <2>3
<1>6. ASSUME NEW i \in 1 .. Len(c2s'), c2s'[i].type = "data"
      PROVE  ConnectAhead(c2s', c2s'[i].from, i - 1) \/ ConnectDone(c2s', conn', openedBy', c2s'[i].from)
  <2>1. i \in 1 .. n /\ i + 1 \in 1 .. n /\ c2s'[i] = c2s[i + 1]
    BY <1>1
  <2>2. c2s[i + 1].from \in PipeId /\ Head(c2s).from <= c2s[i + 1].from
    BY <1>1, <1>2, <1>3, <2>1
  <2>3. ConnectAhead(c2s, c2s[i + 1].from, (i + 1) - 1) \/ ConnectDone(c2s, conn, openedBy, c2s[i + 1].from)
    BY <1>v, <1>6, <2>1 DEF Routed
  <2>4. (i + 1) - 1 = i
    BY <2>1
  <2>5. QED
    BY <1>4, <1>5, <2>1, <2>2, <2>3, <2>4
<1>7. ASSUME NEW p \in PipeId, pipe'[p] = "open"
      PROVE  ConnectAhead(c2s', p, Len(c2s')) \/ ConnectDone(c2s', conn', openedBy', p)
  <2>1. Head(c2s).from <= p
    BY <1>v, <1>1, <1>7 DEF Ordered, Alive
  <2>2. ConnectAhead(c2s, p, n) \/ ConnectDone(c2s, conn, openedBy, p)
    BY <1>v, <1>7 DEF Routed
  <2>3. QED
    BY <1>1, <1>4, <1>5, <2>1, <2>2
<1>8. QED
  BY <1>6, <1>7 DEF Routed

\* A live pipe puts a frame: data only when it is open, and its __connect when
\* it opens.
LEMMA PutRouted ==
  ASSUME RouteInv, NEW p \in PipeId, Alive(p),
         NEW f, f.from = p, c2s' = Append(c2s, f),
         UNCHANGED <<conn, openedBy, listening>>,
         f.type = "data" => pipe[p] = "open",
         \A q \in PipeId : q # p => pipe'[q] = pipe[q],
         pipe'[p] = "open" => pipe[p] = "open" \/ f.type = "connect"
  PROVE  Routed'
<1>v. TypeOK /\ OnePipe /\ Ordered /\ Routed
  BY DEF RouteInv
<1> DEFINE n == Len(c2s)
<1>1. /\ n \in Nat /\ Len(c2s') = n + 1
      /\ c2s'[n + 1] = f
      /\ \A i \in 1 .. n : c2s'[i] = c2s[i]
  BY <1>v, PutFacts
<1>2. \A i \in 1 .. n : c2s[i].from \in PipeId /\ c2s[i].from <= p
  BY <1>v, FrameType DEF Ordered
<1>3. ASSUME NEW q, NEW m \in 0 .. n, NEW k \in m .. n + 1, ConnectAhead(c2s, q, m)
      PROVE  ConnectAhead(c2s', q, k)
  <2>1. PICK j \in 1 .. m : c2s[j].type = "connect" /\ c2s[j].from = q
    BY <1>3 DEF ConnectAhead
  <2>2. j \in 1 .. k /\ c2s'[j] = c2s[j]
    BY <1>1, <1>3
  <2>3. QED
    BY <2>1, <2>2 DEF ConnectAhead
<1>4. ASSUME NEW q \in PipeId, q <= p, ConnectDone(c2s, conn, openedBy, q)
      PROVE  ConnectDone(c2s', conn', openedBy', q)
  <2>1. \A j \in 1 .. n : c2s[j].from >= q
    BY <1>4 DEF ConnectDone
  <2>2. \A j \in 1 .. Len(c2s') : c2s'[j].from >= q
    <3> TAKE j \in 1 .. Len(c2s')
    <3>1. CASE j = n + 1
      BY <1>1, <1>4, <3>1 DEF PipeId
    <3>2. CASE j # n + 1
      BY <1>1, <2>1, <3>2
    <3>3. QED
      BY <3>1, <3>2
  <2>3. QED
    BY <1>4, <2>2 DEF ConnectDone
<1>5. ASSUME pipe[p] = "open" PROVE ConnectAhead(c2s', p, n) \/ ConnectDone(c2s', conn', openedBy', p)
  <2>1. ConnectAhead(c2s, p, n) \/ ConnectDone(c2s, conn, openedBy, p)
    BY <1>v, <1>5 DEF Routed
  <2>2. QED
    BY <1>1, <1>3, <1>4, <2>1 DEF PipeId
<1>6. ASSUME NEW i \in 1 .. Len(c2s'), c2s'[i].type = "data"
      PROVE  ConnectAhead(c2s', c2s'[i].from, i - 1) \/ ConnectDone(c2s', conn', openedBy', c2s'[i].from)
  <2>1. CASE i = n + 1
    BY <1>1, <1>5, <1>6, <2>1
  <2>2. CASE i # n + 1
    <3>1. i \in 1 .. n /\ c2s'[i] = c2s[i]
      BY <1>1, <2>2
    <3>2. c2s[i].from \in PipeId /\ c2s[i].from <= p
      BY <1>2, <3>1
    <3>3. ConnectAhead(c2s, c2s[i].from, i - 1) \/ ConnectDone(c2s, conn, openedBy, c2s[i].from)
      BY <1>v, <1>6, <3>1 DEF Routed
    <3>4. QED
      BY <1>1, <1>3, <1>4, <3>1, <3>2, <3>3
  <2>3. QED
    BY <2>1, <2>2
<1>7. ASSUME NEW q \in PipeId, pipe'[q] = "open"
      PROVE  ConnectAhead(c2s', q, Len(c2s')) \/ ConnectDone(c2s', conn', openedBy', q)
  <2>1. q = p
    BY <1>v, <1>7 DEF OnePipe, Alive
  <2>2. CASE f.type = "connect"
    BY <1>1, <2>1, <2>2 DEF ConnectAhead
  <2>3. CASE pipe[p] = "open"
    <3>1. ConnectAhead(c2s, p, n) \/ ConnectDone(c2s, conn, openedBy, p)
      BY <1>v, <2>3 DEF Routed
    <3>2. QED
      BY <1>1, <1>3, <1>4, <2>1, <3>1 DEF PipeId
  <2>4. QED
    BY <1>7, <2>1, <2>2, <2>3
<1>8. QED
  BY <1>v, <1>6, <1>7 DEF Routed

\* The channel stays, the entry too or it is gone, and no pipe opens.
LEMMA StayRouted ==
  ASSUME RouteInv, c2s' = c2s, openedBy' = openedBy,
         conn' = conn \/ conn' = None,
         ~listening' => conn' = None,
         \A p \in PipeId : pipe'[p] = "open" => pipe[p] = "open"
  PROVE  Routed'
<1>1. \A p : ConnectDone(c2s, conn, openedBy, p) => ConnectDone(c2s', conn', openedBy', p)
  BY DEF ConnectDone
<1>2. \A p, n : ConnectAhead(c2s, p, n) => ConnectAhead(c2s', p, n)
  BY DEF ConnectAhead
<1>3. Routed
  BY DEF RouteInv
<1>4. QED
  BY <1>1, <1>2, <1>3 DEF Routed

LEMMA RoutedStep == RouteInv /\ [Next]_vars => Routed'
<1> SUFFICES ASSUME RouteInv, [Next]_vars PROVE Routed'
  OBVIOUS
<1>v. TypeOK /\ Routed
  BY DEF RouteInv
<1>q. ~listening => conn = None
  BY <1>v DEF Routed
<1>t. pipe \in [PipeId -> {"none", "made", "open", "closed", "ended", "dead"}]
  BY <1>v DEF TypeOK
<1>h. ASSUME c2s # <<>>, c2s' = Tail(c2s)
      PROVE  /\ Head(c2s).from \in PipeId
             /\ \A p \in PipeId : ConnectDone(c2s, conn, openedBy, p) =>
                  Head(c2s).from >= p /\ (conn = None \/ openedBy[conn] = p)
  BY <1>v, <1>h, TakeFacts DEF ConnectDone
<1>1. ASSUME NEW p \in PipeId, PipeNext(p) PROVE Routed'
  <2>1. CASE CreatePipe(p)
    BY <1>t, <1>q, <2>1, StayRouted DEF CreatePipe, adapterVars
  <2>2. CASE FlushConnect(p)
    BY <1>t, <2>2, PutRouted DEF FlushConnect, Alive, adapterVars
  <2>3. CASE SendData(p)
    BY <1>t, <2>3, PutRouted DEF SendData, Alive, pageVars, adapterVars
  <2>4. CASE ClosePipe(p)
    BY <1>t, <2>4, PutRouted DEF ClosePipe, adapterVars
  <2>5. QED
    BY <1>1, <2>1, <2>2, <2>3, <2>4 DEF PipeNext
<1>2. CASE ReceiveS2C
  BY <1>t, <1>q, <1>2, StayRouted DEF ReceiveS2C, adapterVars
<1>3. CASE Reload
  BY <1>t, <1>q, <1>3, StayRouted DEF Reload, PipesDie, adapterVars
<1>4. CASE HandleConnect
  <2> DEFINE h == Head(c2s).from
  <2>1. c2s # <<>> /\ c2s' = Tail(c2s) /\ pipe' = pipe /\ listening /\ listening'
    BY <1>4 DEF HandleConnect, NextFrame, pageVars
  <2>2. h \in PipeId /\ \A p \in PipeId : ConnectDone(c2s, conn, openedBy, p) => h >= p
    BY <1>h, <2>1
  <2>3. Opened(h, attached \ {conn}) /\ attached \ {conn} \subseteq Connection
    BY <1>v, <1>4 DEF HandleConnect, TypeOK
  <2> HIDE DEF h
  <2>4. conn' \in Connection /\ openedBy' = [openedBy EXCEPT ![conn'] = h]
    BY <1>v, <2>2, <2>3, OpenedType
  <2>5. openedBy'[conn'] = h
    BY <1>v, <2>4 DEF TypeOK
  <2>6. \A p \in PipeId : h <= p /\ ConnectDone(c2s, conn, openedBy, p) => h = p
    BY <2>2 DEF PipeId
  <2>7. QED
    BY <2>1, <2>5, <2>6, TakeRouted DEF h
<1>5. CASE HandleClose
  BY <1>5, TakeRouted DEF HandleClose, NextFrame, Removed, pageVars
<1>6. CASE HandleData
  <2> DEFINE h == Head(c2s).from
  <2>1. /\ c2s # <<>> /\ c2s' = Tail(c2s) /\ pipe' = pipe /\ listening /\ listening'
        /\ Head(c2s).type # "connect"
    BY <1>6 DEF HandleData, NextFrame, pageVars
  <2>2. /\ h \in PipeId
        /\ \A p \in PipeId : ConnectDone(c2s, conn, openedBy, p) =>
             h >= p /\ (conn = None \/ openedBy[conn] = p)
    BY <1>h, <2>1
  <2>3. conn = None => Opened(h, attached) /\ attached \subseteq Connection
    BY <1>v, <1>6 DEF HandleData, TypeOK
  <2>4. conn # None => conn' = conn /\ openedBy' = openedBy
    BY <1>6 DEF HandleData
  <2> HIDE DEF h
  <2>5. CASE conn = None
    <3>1. conn' \in Connection /\ openedBy' = [openedBy EXCEPT ![conn'] = h]
      BY <1>v, <2>2, <2>3, <2>5, OpenedType
    <3>2. openedBy'[conn'] = h
      BY <1>v, <3>1 DEF TypeOK
    <3>3. \A p \in PipeId : h <= p /\ ConnectDone(c2s, conn, openedBy, p) => h = p
      BY <2>2 DEF PipeId
    <3>4. QED
      BY <2>1, <3>2, <3>3, TakeRouted DEF h
  <2>6. CASE conn # None
    <3>1. \A p \in PipeId : ConnectDone(c2s, conn, openedBy, p) => openedBy'[conn'] = p
      BY <2>2, <2>4, <2>6
    <3>2. QED
      BY <2>1, <3>1, TakeRouted
  <2>7. QED
    BY <2>5, <2>6
<1>7. ASSUME NEW c \in Connection, Push(c) \/ EngineCloses(c) PROVE Routed'
  BY <1>q, <1>7, StayRouted DEF Push, EngineCloses, pageVars, adapterVars
<1>8. CASE Destroyed
  <2>1. Len(c2s') = 0 /\ conn' = None
    BY <1>8 DEF Destroyed, Removed
  <2>2. \A p \in PipeId : pipe'[p] # "open"
    BY <1>8 DEF Destroyed, PipesDie, Alive
  <2>3. QED
    BY <2>1, <2>2 DEF Routed
<1>9. CASE Detach
  BY <1>9, StayRouted DEF Detach, Removed, pageVars
<1>10. CASE Unheard
  BY <1>q, <1>10, TakeRouted DEF Unheard, pageVars, adapterVars
<1>11. CASE UNCHANGED vars
  BY <1>q, <1>11, StayRouted DEF vars, pageVars, adapterVars
<1>12. QED
  BY <1>1, <1>2, <1>3, <1>4, <1>5, <1>6, <1>7, <1>8, <1>9, <1>10, <1>11 DEF Next

\* However pages reload, pipes close and engines give up, what one pipe sent is
\* never dispatched by a connection opened for another (handler and
\* openConnection of server/src/electron.ts).
THEOREM FramesMeetTheirConnection == Spec => []FramesOfOwnPipe
<1>1. RouteInv /\ [Next]_vars => RouteInv'
  BY TypeOKStep, OwnPipeStep, OnePipeStep, OrderedStep, RoutedStep DEF RouteInv
<1>2. RouteInv => FramesOfOwnPipe
  BY DEF RouteInv
<1>3. QED
  BY <1>1, <1>2, InitRouteInv, PTL DEF Spec

-----------------------------------------------------------------------------
(* What both ends agree on *)

\* A pipe is alive only while no later one was built.
NewestAlive == \A p, q \in PipeId : Alive(p) /\ p < q => pipe[q] = "none"

CloseOf(f, p) == f.type = "close" /\ f.from = p
ConnectOf(f, p) == f.type = "connect" /\ f.from = p

\* A closed pipe has sent its __close, and sent it last.
CloseFrames ==
  \A i \in 1 .. Len(c2s) :
    /\ c2s[i].type = "close" => pipe[c2s[i].from] = "closed"
    /\ pipe[c2s[i].from] = "closed" => \E j \in i .. Len(c2s) : CloseOf(c2s[j], c2s[i].from)

\* The entry is that of a pipe nothing earlier than which is under way; if that
\* pipe has closed, its __close is.
EntryKnown ==
  conn # None =>
    /\ openedBy[conn] \in PipeId
    /\ pipe[openedBy[conn]] # "none"
    /\ \A i \in 1 .. Len(c2s) : openedBy[conn] <= c2s[i].from
    /\ pipe[openedBy[conn]] = "closed" => \E i \in 1 .. Len(c2s) : CloseOf(c2s[i], openedBy[conn])

\* A later pipe that said anything has its __connect or its __close under way.
Announced(frames, pipes, p) ==
  \A q \in PipeId : p < q /\ pipes[q] \in {"open", "closed", "ended"} =>
    \E i \in 1 .. Len(frames) : frames[i].from = q /\ frames[i].type # "data"

\* Nobody later than the entry's pipe, or than that of a frame under way, has been
\* heard already.
NewestHeard ==
  /\ \A i \in 1 .. Len(c2s) : Announced(c2s, pipe, c2s[i].from)
  /\ conn # None => Announced(c2s, pipe, openedBy[conn])

\* A pipe that ended was ended by a connection's __close.
EndedBySome == \A p \in PipeId : pipe[p] = "ended" => endedBy[p] \in Connection

\* An open pipe has its __connect under way, or the entry, or lost it to a close
\* by the engine.
Awaited ==
  /\ \A c \in refused : openedBy[c] # None
  /\ listening => \A p \in PipeId : pipe[p] = "open" =>
       \/ \E i \in 1 .. Len(c2s) : ConnectOf(c2s[i], p)
       \/ conn # None /\ openedBy[conn] = p
       \/ \E c \in refused : openedBy[c] = p

\* A __close of connection c was asked for by a pipe from c's own on ...
AskedFor(opened, pipes, c) ==
  opened[c] # None /\ \E q \in PipeId : opened[c] <= q /\ pipes[q] = "closed"

\* ... by a pipe before p.
AskedBefore(opened, pipes, c, p) ==
  opened[c] # None /\ \E q \in PipeId : opened[c] <= q /\ q < p /\ pipes[q] = "closed"

\* Unless the adapter detached, somebody asked for every __close there is, and
\* for those that ended a pipe an earlier pipe did.
Echoed ==
  listening =>
    /\ \A i \in 1 .. Len(s2c) : s2c[i].type = "close" => AskedFor(openedBy, pipe, s2c[i].from)
    /\ \A p \in PipeId : endedBy[p] # None => AskedBefore(openedBy, pipe, endedBy[p], p)

AgreeInv ==
  /\ RouteInv /\ NoEngineLeaked
  /\ NewestAlive /\ CloseFrames /\ EntryKnown /\ NewestHeard /\ Awaited
  /\ EndedBySome /\ Echoed

LEMMA InitAgreeInv == Init => AgreeInv
<1> SUFFICES ASSUME Init PROVE AgreeInv
  OBVIOUS
<1>1. RouteInv /\ NoEngineLeaked
  BY InitRouteInv DEF Init, NoEngineLeaked
<1>2. Len(c2s) = 0 /\ Len(s2c) = 0
  BY DEF Init
<1>3. NewestAlive /\ EntryKnown /\ Awaited
  BY DEF Init, NewestAlive, EntryKnown, Awaited, Alive
<1>4. CloseFrames
  BY <1>2 DEF CloseFrames
<1>5. Echoed
  BY <1>2 DEF Echoed, Init
<1>6. NewestHeard /\ EndedBySome
  BY <1>2 DEF NewestHeard, EndedBySome, Init
<1>7. QED
  BY <1>1, <1>3, <1>4, <1>5, <1>6 DEF AgreeInv

LEMMA NewestAliveStep == TypeOK /\ OnePipe /\ NewestAlive /\ [Next]_vars => NewestAlive'
<1> SUFFICES ASSUME TypeOK, OnePipe, NewestAlive, [Next]_vars PROVE NewestAlive'
  OBVIOUS
<1>t. pipe \in [PipeId -> {"none", "made", "open", "closed", "ended", "dead"}]
  BY DEF TypeOK
<1>i. PipeId \subseteq Int
  BY DEF PipeId
<1> USE DEF NewestAlive, Alive
<1>1. ASSUME NEW p \in PipeId, PipeNext(p) PROVE NewestAlive'
  <2>1. CASE CreatePipe(p)
    BY <1>t, <1>i, <2>1 DEF CreatePipe, OnePipe
  <2>2. CASE FlushConnect(p)
    BY <1>t, <2>2 DEF FlushConnect
  <2>3. CASE SendData(p)
    BY <2>3 DEF SendData, pageVars
  <2>4. CASE ClosePipe(p)
    BY <1>t, <1>i, <2>4 DEF ClosePipe
  <2>5. QED
    BY <1>1, <2>1, <2>2, <2>3, <2>4 DEF PipeNext
<1>2. ASSUME \A p \in PipeId : /\ Alive(p)' => Alive(p)
                               /\ pipe[p] = "none" => pipe'[p] = "none"
      PROVE  NewestAlive'
  BY <1>t, <1>2
<1>3. CASE ReceiveS2C
  BY <1>t, <1>2, <1>3 DEF ReceiveS2C
<1>4. CASE Reload \/ Destroyed
  BY <1>t, <1>2, <1>4 DEF Reload, Destroyed, PipesDie
<1>5. CASE HandleConnect \/ HandleClose \/ HandleData \/ Detach \/ Unheard \/ UNCHANGED vars
  BY <1>5 DEF HandleConnect, HandleClose, HandleData, Detach, Unheard, vars, pageVars
<1>6. ASSUME NEW c \in Connection, Push(c) \/ EngineCloses(c) PROVE NewestAlive'
  BY <1>6 DEF Push, EngineCloses, pageVars
<1>7. QED
  BY <1>1, <1>3, <1>4, <1>5, <1>6 DEF Next

\* What a step may do to the pipes while the channel to the adapter stays or
\* loses its first frame: none closes, and a closed one stays closed.
Steady == \A p \in PipeId : /\ (pipe'[p] = "closed" <=> pipe[p] = "closed")
                            /\ pipe[p] # "none" => pipe'[p] # "none"
                            /\ Alive(p)' => Alive(p)
                            /\ pipe'[p] = "open" => pipe[p] = "open"
                            /\ pipe'[p] = "ended" => pipe[p] \in {"open", "ended"}

\* What a pipe that is alive puts to the channel: anything but a __close, or a
\* __close and the end of it.
Puts(p, f) ==
  /\ p \in PipeId /\ Alive(p)
  /\ c2s' = Append(c2s, f)
  /\ f.from = p
  /\ \A q \in PipeId : q # p => pipe'[q] = pipe[q]
  /\ pipe'[p] = IF f.type = "close" THEN "closed" ELSE "open"
  /\ pipe[p] = "open" \/ f.type \in {"connect", "close"}

\* Each step, by what it does to the pipes and to the channel to the adapter.
LEMMA StepKinds ==
  ASSUME TypeOK, [Next]_vars
  PROVE  \/ Steady /\ c2s' = c2s
         \/ Steady /\ pipe' = pipe /\ c2s # <<>> /\ c2s' = Tail(c2s)
         \/ Destroyed
         \/ \E p \in PipeId : CreatePipe(p)
         \/ \E p \in PipeId, f \in C2S : Puts(p, f)
<1>t. pipe \in [PipeId -> {"none", "made", "open", "closed", "ended", "dead"}]
  BY DEF TypeOK
<1>s. pipe' = pipe => Steady
  BY <1>t DEF Steady, Alive
<1>1. ASSUME NEW p \in PipeId, PipeNext(p), ~CreatePipe(p)
      PROVE  \E f \in C2S : Puts(p, f)
  <2>1. CASE FlushConnect(p)
    <3>1. [type |-> "connect", from |-> p] \in C2S
      BY DEF C2S
    <3>2. Puts(p, [type |-> "connect", from |-> p])
      BY <1>t, <2>1 DEF FlushConnect, Puts, Alive
    <3>3. QED
      BY <3>1, <3>2
  <2>2. CASE SendData(p)
    <3>1. [type |-> "data", from |-> p] \in C2S
      BY DEF C2S
    <3>2. Puts(p, [type |-> "data", from |-> p])
      BY <1>t, <2>2 DEF SendData, Puts, Alive, pageVars
    <3>3. QED
      BY <3>1, <3>2
  <2>3. CASE ClosePipe(p)
    <3>1. [type |-> "close", from |-> p] \in C2S
      BY DEF C2S
    <3>2. Puts(p, [type |-> "close", from |-> p])
      BY <1>t, <2>3 DEF ClosePipe, Puts, Alive
    <3>3. QED
      BY <3>1, <3>2
  <2>4. QED
    BY <1>1, <2>1, <2>2, <2>3 DEF PipeNext
<1>2. CASE ReceiveS2C
  <2>1. Steady /\ c2s' = c2s
    BY <1>t, <1>2 DEF ReceiveS2C, Steady, Alive
  <2>2. QED
    BY <2>1
<1>3. CASE Reload
  <2>1. Steady /\ c2s' = c2s
    BY <1>t, <1>3 DEF Reload, PipesDie, Steady, Alive
  <2>2. QED
    BY <2>1
<1>5. CASE HandleConnect \/ HandleClose \/ HandleData \/ Unheard
  <2>1. pipe' = pipe /\ c2s # <<>> /\ c2s' = Tail(c2s)
    BY <1>5 DEF HandleConnect, HandleClose, HandleData, Unheard, NextFrame, pageVars
  <2>2. QED
    BY <1>s, <2>1
<1>6. CASE Detach \/ UNCHANGED vars
  <2>1. pipe' = pipe /\ c2s' = c2s
    BY <1>6 DEF Detach, vars, pageVars
  <2>2. QED
    BY <1>s, <2>1
<1>7. ASSUME NEW c \in Connection, Push(c) \/ EngineCloses(c)
      PROVE  Steady /\ c2s' = c2s
  <2>1. pipe' = pipe /\ c2s' = c2s
    BY <1>7 DEF Push, EngineCloses, pageVars
  <2>2. QED
    BY <1>s, <2>1
<1>8. QED
  BY <1>1, <1>2, <1>3, <1>5, <1>6, <1>7 DEF Next

LEMMA CloseFramesStep == TypeOK /\ OnePipe /\ Ordered /\ CloseFrames /\ [Next]_vars => CloseFrames'
<1> SUFFICES ASSUME TypeOK, OnePipe, Ordered, CloseFrames, [Next]_vars PROVE CloseFrames'
  OBVIOUS
<1>t. pipe \in [PipeId -> {"none", "made", "open", "closed", "ended", "dead"}]
  BY DEF TypeOK
<1>f. Len(c2s) \in Nat /\ \A i \in 1 .. Len(c2s) : c2s[i].from \in PipeId
  BY FrameType DEF TypeOK
<1>1. CASE Steady /\ c2s' = c2s
  BY <1>f, <1>1 DEF CloseFrames, Steady
<1>2. CASE Steady /\ c2s # <<>> /\ c2s' = Tail(c2s)
  <2>1. /\ Len(c2s) \in Nat \ {0} /\ Len(c2s') = Len(c2s) - 1
        /\ \A i \in 1 .. Len(c2s') : i + 1 \in 1 .. Len(c2s) /\ c2s'[i] = c2s[i + 1]
    BY <1>2, TakeFacts
  <2>2. SUFFICES ASSUME NEW i \in 1 .. Len(c2s')
                 PROVE  /\ c2s'[i].type = "close" => pipe'[c2s'[i].from] = "closed"
                        /\ pipe'[c2s'[i].from] = "closed" =>
                             \E j \in i .. Len(c2s') : CloseOf(c2s'[j], c2s'[i].from)
    BY DEF CloseFrames, CloseOf
  <2>3. c2s'[i] = c2s[i + 1] /\ i + 1 \in 1 .. Len(c2s) /\ c2s[i + 1].from \in PipeId
    BY <1>f, <2>1
  <2>4. c2s'[i].type = "close" => pipe'[c2s'[i].from] = "closed"
    BY <1>2, <2>3 DEF CloseFrames, Steady
  <2>5. ASSUME pipe'[c2s'[i].from] = "closed"
        PROVE  \E j \in i .. Len(c2s') : CloseOf(c2s'[j], c2s'[i].from)
    <3>1. PICK k \in i + 1 .. Len(c2s) : CloseOf(c2s[k], c2s[i + 1].from)
      BY <1>2, <2>3, <2>5 DEF CloseFrames, Steady
    <3>2. k - 1 \in i .. Len(c2s') /\ c2s'[k - 1] = c2s[k]
      BY <2>1, <3>1
    <3>3. QED
      BY <2>3, <3>1, <3>2
  <2>6. QED
    BY <2>4, <2>5
<1>3. CASE Destroyed
  <2>1. Len(c2s') = 0
    BY <1>3 DEF Destroyed
  <2>2. QED
    BY <2>1 DEF CloseFrames
<1>4. ASSUME NEW p \in PipeId, CreatePipe(p) PROVE CloseFrames'
  <2>1. c2s' = c2s /\ pipe[p] = "none" /\ \A q \in PipeId : q # p => pipe'[q] = pipe[q]
    BY <1>t, <1>4 DEF CreatePipe
  <2>2. \A i \in 1 .. Len(c2s) : c2s[i].from # p
    BY <2>1 DEF Ordered
  <2>3. QED
    BY <1>f, <2>1, <2>2 DEF CloseFrames
<1>5. ASSUME NEW p \in PipeId, NEW f \in C2S, Puts(p, f) PROVE CloseFrames'
  <2>1. /\ Len(c2s') = Len(c2s) + 1
        /\ c2s'[Len(c2s) + 1] = f
        /\ \A i \in 1 .. Len(c2s) : c2s'[i] = c2s[i]
    BY <1>5, PutFacts DEF Puts
  <2>2. SUFFICES ASSUME NEW i \in 1 .. Len(c2s')
                 PROVE  /\ c2s'[i].type = "close" => pipe'[c2s'[i].from] = "closed"
                        /\ pipe'[c2s'[i].from] = "closed" =>
                             \E j \in i .. Len(c2s') : CloseOf(c2s'[j], c2s'[i].from)
    BY DEF CloseFrames, CloseOf
  <2>3. Len(c2s') \in i .. Len(c2s') /\ c2s'[Len(c2s')] = f
    BY <1>f, <2>1
  <2>p. /\ f.from = p
        /\ pipe'[p] = IF f.type = "close" THEN "closed" ELSE "open"
        /\ pipe[p] # "closed"
        /\ \A q \in PipeId : q # p => pipe'[q] = pipe[q]
    BY <1>t, <1>5 DEF Puts, Alive
  <2>4. CASE i = Len(c2s) + 1
    BY <2>1, <2>3, <2>4, <2>p DEF CloseOf
  <2>5. CASE i # Len(c2s) + 1
    <3>1. i \in 1 .. Len(c2s) /\ c2s'[i] = c2s[i] /\ c2s[i].from \in PipeId
      BY <1>f, <2>1, <2>5
    <3>2. c2s[i].type = "close" => c2s[i].from # p
      BY <2>p, <3>1 DEF CloseFrames
    <3>3. CASE c2s[i].from = p
      BY <2>3, <2>p, <3>1, <3>2, <3>3 DEF CloseOf
    <3>4. CASE c2s[i].from # p
      <4>1. pipe'[c2s[i].from] = pipe[c2s[i].from]
        BY <2>p, <3>1, <3>4
      <4>2. ASSUME pipe[c2s[i].from] = "closed"
            PROVE  \E j \in i .. Len(c2s') : CloseOf(c2s'[j], c2s[i].from)
        <5>1. PICK j \in i .. Len(c2s) : CloseOf(c2s[j], c2s[i].from)
          BY <3>1, <4>2 DEF CloseFrames
        <5>2. j \in i .. Len(c2s') /\ c2s'[j] = c2s[j]
          BY <1>f, <2>1, <3>1, <5>1
        <5>3. QED
          BY <5>1, <5>2
      <4>3. QED
        BY <3>1, <4>1, <4>2 DEF CloseFrames
    <3>5. QED
      BY <3>3, <3>4
  <2>6. QED
    BY <2>4, <2>5
<1>6. QED
  BY <1>1, <1>2, <1>3, <1>4, <1>5, StepKinds

\* The entry stays, and the adapter takes no __close.
LEMMA EntryStays ==
  ASSUME AgreeInv, [Next]_vars, conn # None, conn' = conn, openedBy' = openedBy,
         c2s # <<>> /\ c2s' = Tail(c2s) => Head(c2s).type # "close"
  PROVE  EntryKnown'
<1>v. TypeOK /\ OnePipe /\ Ordered /\ NewestAlive /\ EntryKnown
  BY DEF AgreeInv, RouteInv
<1>t. pipe \in [PipeId -> {"none", "made", "open", "closed", "ended", "dead"}]
  BY <1>v DEF TypeOK
<1>f. Len(c2s) \in Nat /\ \A i \in 1 .. Len(c2s) : c2s[i].from \in PipeId
  BY <1>v, FrameType DEF TypeOK
<1>n. PipeId \subseteq Int
  BY DEF PipeId
<1> DEFINE o == openedBy[conn]
<1>o. o' = o /\ conn' # None
  OBVIOUS
<1>e. /\ o \in PipeId /\ pipe[o] # "none"
      /\ \A i \in 1 .. Len(c2s) : o <= c2s[i].from
      /\ pipe[o] = "closed" => \E i \in 1 .. Len(c2s) : CloseOf(c2s[i], o)
  BY <1>v DEF EntryKnown
<1>g. SUFFICES /\ pipe'[o] # "none"
               /\ \A i \in 1 .. Len(c2s') : o <= c2s'[i].from
               /\ pipe'[o] = "closed" => \E i \in 1 .. Len(c2s') : CloseOf(c2s'[i], o)
  BY <1>e, <1>o DEF EntryKnown, CloseOf
<1> HIDE DEF o
<1>1. CASE Steady /\ c2s' = c2s
  BY <1>e, <1>1 DEF Steady
<1>2. CASE Steady /\ c2s # <<>> /\ c2s' = Tail(c2s)
  <2>1. /\ Len(c2s) \in Nat \ {0} /\ Len(c2s') = Len(c2s) - 1
        /\ Head(c2s) = c2s[1]
        /\ \A i \in 1 .. Len(c2s') : i + 1 \in 1 .. Len(c2s) /\ c2s'[i] = c2s[i + 1]
    BY <1>v, <1>2, TakeFacts
  <2>2. \A i \in 1 .. Len(c2s') : o <= c2s'[i].from
    BY <1>e, <2>1
  <2>3. ASSUME pipe[o] = "closed" PROVE \E i \in 1 .. Len(c2s') : CloseOf(c2s'[i], o)
    <3>1. PICK i \in 1 .. Len(c2s) : CloseOf(c2s[i], o)
      BY <1>e, <2>3
    <3>2. i # 1
      BY <1>2, <2>1, <3>1 DEF CloseOf
    <3>3. i - 1 \in 1 .. Len(c2s') /\ c2s'[i - 1] = c2s[i]
      BY <2>1, <3>2
    <3>4. QED
      BY <3>1, <3>3
  <2>4. QED
    BY <1>2, <1>e, <2>2, <2>3 DEF Steady
<1>3. CASE Destroyed
  BY <1>3 DEF Destroyed, Removed
<1>4. ASSUME NEW p \in PipeId, CreatePipe(p)
      PROVE  /\ pipe'[o] # "none"
             /\ \A i \in 1 .. Len(c2s') : o <= c2s'[i].from
             /\ pipe'[o] = "closed" => \E i \in 1 .. Len(c2s') : CloseOf(c2s'[i], o)
  <2>1. c2s' = c2s /\ pipe[p] = "none" /\ \A q \in PipeId : q # p => pipe'[q] = pipe[q]
    BY <1>t, <1>4 DEF CreatePipe
  <2>2. QED
    BY <1>e, <2>1
<1>5. ASSUME NEW p \in PipeId, NEW f \in C2S, Puts(p, f)
      PROVE  /\ pipe'[o] # "none"
             /\ \A i \in 1 .. Len(c2s') : o <= c2s'[i].from
             /\ pipe'[o] = "closed" => \E i \in 1 .. Len(c2s') : CloseOf(c2s'[i], o)
  <2>1. /\ Len(c2s') = Len(c2s) + 1
        /\ c2s'[Len(c2s) + 1] = f
        /\ \A i \in 1 .. Len(c2s) : c2s'[i] = c2s[i]
    BY <1>v, <1>5, PutFacts DEF Puts
  <2>2. /\ f.from = p /\ Alive(p)
        /\ pipe'[p] = IF f.type = "close" THEN "closed" ELSE "open"
        /\ \A q \in PipeId : q # p => pipe'[q] = pipe[q]
    BY <1>5 DEF Puts
  <2>3. o <= p
    BY <1>v, <1>e, <1>n, <2>2 DEF NewestAlive
  <2>4. \A i \in 1 .. Len(c2s') : o <= c2s'[i].from
    <3> TAKE i \in 1 .. Len(c2s')
    <3>1. CASE i = Len(c2s) + 1
      BY <2>1, <2>2, <2>3, <3>1
    <3>2. CASE i # Len(c2s) + 1
      BY <1>e, <1>f, <2>1, <3>2
    <3>3. QED
      BY <3>1, <3>2
  <2>5. Len(c2s) + 1 \in 1 .. Len(c2s') /\ \A i \in 1 .. Len(c2s) : i \in 1 .. Len(c2s')
    BY <1>f, <2>1
  <2>6. pipe'[o] # "none"
    BY <1>e, <2>2
  <2>7. CASE o = p
    BY <2>1, <2>2, <2>4, <2>5, <2>6, <2>7 DEF CloseOf
  <2>8. CASE o # p
    <3>1. pipe'[o] = pipe[o]
      BY <1>e, <2>2, <2>8
    <3>2. QED
      BY <1>e, <2>1, <2>4, <2>5, <2>6, <3>1
  <2>9. QED
    BY <2>7, <2>8
<1>6. QED
  BY <1>v, <1>1, <1>2, <1>3, <1>4, <1>5, StepKinds

\* The adapter opens an entry for the frame it takes, which is not a __close.
LEMMA EntryOpens ==
  ASSUME AgreeInv, c2s # <<>>, c2s' = Tail(c2s), pipe' = pipe,
         conn' # None, openedBy'[conn'] = Head(c2s).from, Head(c2s).type # "close"
  PROVE  EntryKnown'
<1>v. TypeOK /\ Ordered /\ CloseFrames
  BY DEF AgreeInv, RouteInv
<1>1. /\ Len(c2s) \in Nat \ {0} /\ Len(c2s') = Len(c2s) - 1
      /\ Head(c2s) = c2s[1] /\ Head(c2s).from \in PipeId
      /\ \A i \in 1 .. Len(c2s') : i + 1 \in 1 .. Len(c2s) /\ c2s'[i] = c2s[i + 1]
  BY <1>v, TakeFacts
<1> DEFINE h == Head(c2s).from
<1>2. /\ h \in PipeId /\ pipe[h] # "none"
      /\ \A i \in 1 .. Len(c2s) : h <= c2s[i].from
  BY <1>v, <1>1 DEF Ordered
<1>3. \A i \in 1 .. Len(c2s') : h <= c2s'[i].from
  BY <1>1, <1>2
<1>4. ASSUME pipe[h] = "closed" PROVE \E i \in 1 .. Len(c2s') : CloseOf(c2s'[i], h)
  <2>1. PICK i \in 1 .. Len(c2s) : CloseOf(c2s[i], h)
    BY <1>v, <1>1, <1>4 DEF CloseFrames
  <2>2. i # 1
    BY <1>1, <2>1 DEF CloseOf
  <2>3. i - 1 \in 1 .. Len(c2s') /\ c2s'[i - 1] = c2s[i]
    BY <1>1, <2>2
  <2>4. QED
    BY <2>1, <2>3
<1> HIDE DEF h
<1>5. openedBy'[conn'] = h
  BY DEF h
<1>6. QED
  BY <1>2, <1>3, <1>4, <1>5 DEF EntryKnown, CloseOf

\* What the adapter does when it takes a frame that opens a connection.
LEMMA OpensFacts ==
  ASSUME AgreeInv, HandleConnect \/ (HandleData /\ conn = None)
  PROVE  /\ c2s # <<>> /\ c2s' = Tail(c2s) /\ pipe' = pipe /\ s2c' = s2c
         /\ endedBy' = endedBy /\ listening' = listening /\ refused' = refused
         /\ Head(c2s).from \in PipeId /\ Head(c2s).type # "close"
         /\ conn' \in Connection /\ conn' # None
         /\ openedBy[conn'] = None /\ openedBy'[conn'] = Head(c2s).from
         /\ \A c \in Connection : c # conn' => openedBy'[c] = openedBy[c]
<1>v. TypeOK
  BY DEF AgreeInv, RouteInv
<1> DEFINE h == Head(c2s).from
<1>1. /\ c2s # <<>> /\ c2s' = Tail(c2s) /\ pipe' = pipe /\ s2c' = s2c
      /\ endedBy' = endedBy /\ listening' = listening /\ refused' = refused
      /\ Head(c2s).type # "close"
      /\ \E left \in SUBSET Connection : Opened(h, left)
  <2>1. attached \in SUBSET Connection /\ attached \ {conn} \in SUBSET Connection
    BY <1>v DEF TypeOK
  <2>2. CASE HandleConnect
    BY <2>1, <2>2 DEF HandleConnect, NextFrame, pageVars
  <2>3. CASE HandleData /\ conn = None
    BY <2>1, <2>3 DEF HandleData, NextFrame, pageVars
  <2>4. QED
    BY <2>2, <2>3
<1>2. h \in PipeId
  BY <1>v, <1>1, TakeFacts
<1> HIDE DEF h
<1>3. /\ conn' \in Connection /\ openedBy[conn'] = None
      /\ openedBy' = [openedBy EXCEPT ![conn'] = h]
  BY <1>v, <1>1, <1>2, OpenedType
<1>4. openedBy'[conn'] = h /\ \A c \in Connection : c # conn' => openedBy'[c] = openedBy[c]
  BY <1>v, <1>3 DEF TypeOK
<1>5. conn' # None
  BY <1>3 DEF Connection, None
<1>6. QED
  BY <1>1, <1>2, <1>3, <1>4, <1>5 DEF h

\* Every other step keeps who opened what.
LEMMA KeepsOpened ==
  ASSUME [Next]_vars, ~(HandleConnect \/ (HandleData /\ conn = None))
  PROVE  openedBy' = openedBy
<1>1. ASSUME NEW p \in PipeId, PipeNext(p) PROVE openedBy' = openedBy
  BY <1>1 DEF PipeNext, CreatePipe, FlushConnect, SendData, ClosePipe, adapterVars
<1>2. CASE ReceiveS2C \/ Reload \/ HandleClose \/ HandleData \/ Destroyed \/ Detach \/ Unheard \/ UNCHANGED vars
  BY <1>2 DEF ReceiveS2C, Reload, HandleClose, HandleData, Destroyed, Detach, Unheard, vars, adapterVars
<1>3. ASSUME NEW c \in Connection, Push(c) \/ EngineCloses(c) PROVE openedBy' = openedBy
  BY <1>3 DEF Push, EngineCloses, adapterVars
<1>4. QED
  BY <1>1, <1>2, <1>3 DEF Next

LEMMA EntryKnownStep == AgreeInv /\ [Next]_vars => EntryKnown'
<1> SUFFICES ASSUME AgreeInv, [Next]_vars PROVE EntryKnown'
  OBVIOUS
<1>q. ~listening => conn = None
  BY DEF AgreeInv, RouteInv, Routed
<1>0. conn' = None => EntryKnown'
  BY DEF EntryKnown
<1>1. CASE HandleConnect \/ (HandleData /\ conn = None)
  BY <1>1, OpensFacts, EntryOpens
<1>2. ASSUME conn # None, conn' = conn, openedBy' = openedBy,
             c2s # <<>> /\ c2s' = Tail(c2s) => Head(c2s).type # "close"
      PROVE  EntryKnown'
  BY <1>2, EntryStays
<1>3. CASE HandleData /\ conn # None
  BY <1>2, <1>3 DEF HandleData, NextFrame
<1>4. ASSUME conn' = conn, openedBy' = openedBy,
             \/ c2s' = c2s
             \/ \E f : c2s' = Append(c2s, f)
      PROVE  EntryKnown'
  <2>1. c2s # <<>> => c2s' # Tail(c2s)
    BY <1>4 DEF AgreeInv, RouteInv, TypeOK
  <2>2. QED
    BY <1>0, <1>2, <1>4, <2>1
<1>5. ASSUME NEW p \in PipeId, PipeNext(p) PROVE EntryKnown'
  BY <1>4, <1>5 DEF PipeNext, CreatePipe, FlushConnect, SendData, ClosePipe, adapterVars
<1>6. CASE ReceiveS2C \/ Reload \/ UNCHANGED vars
  BY <1>4, <1>6 DEF ReceiveS2C, Reload, vars, adapterVars
<1>7. CASE HandleClose \/ Destroyed \/ Detach
  BY <1>0, <1>7 DEF HandleClose, Destroyed, Detach, Removed
<1>8. CASE Unheard
  BY <1>0, <1>q, <1>8 DEF Unheard, adapterVars
<1>9. ASSUME NEW c \in Connection, Push(c) PROVE EntryKnown'
  BY <1>4, <1>9 DEF Push, adapterVars
<1>10. ASSUME NEW c \in Connection, EngineCloses(c) PROVE EntryKnown'
  BY <1>0, <1>10 DEF EngineCloses
<1>11. QED
  BY <1>1, <1>3, <1>5, <1>6, <1>7, <1>8, <1>9, <1>10 DEF Next

\* What was announced stays so, unless the adapter takes the announcement.
LEMMA AnnouncedStays ==
  ASSUME TypeOK, [Next]_vars, ~Destroyed, NEW p \in PipeId, Announced(c2s, pipe, p),
         c2s # <<>> /\ c2s' = Tail(c2s) => Head(c2s).type = "data" \/ Head(c2s).from <= p
  PROVE  Announced(c2s', pipe', p)
<1>t. pipe \in [PipeId -> {"none", "made", "open", "closed", "ended", "dead"}]
  BY DEF TypeOK
<1>n. PipeId \subseteq Int /\ Len(c2s) \in Nat
  BY DEF PipeId, TypeOK
<1> SUFFICES ASSUME NEW q \in PipeId, p < q, pipe'[q] \in {"open", "closed", "ended"}
             PROVE  \E i \in 1 .. Len(c2s') : c2s'[i].from = q /\ c2s'[i].type # "data"
  BY DEF Announced
<1>0. ASSUME pipe[q] \in {"open", "closed", "ended"}
      PROVE  \E i \in 1 .. Len(c2s) : c2s[i].from = q /\ c2s[i].type # "data"
  BY <1>0 DEF Announced
<1>1. CASE Steady /\ c2s' = c2s
  BY <1>0, <1>1 DEF Steady
<1>2. CASE Steady /\ c2s # <<>> /\ c2s' = Tail(c2s)
  <2>1. PICK i \in 1 .. Len(c2s) : c2s[i].from = q /\ c2s[i].type # "data"
    BY <1>0, <1>2 DEF Steady
  <2>2. /\ Len(c2s') = Len(c2s) - 1 /\ Head(c2s) = c2s[1]
        /\ \A j \in 1 .. Len(c2s') : j + 1 \in 1 .. Len(c2s) /\ c2s'[j] = c2s[j + 1]
    BY <1>2, TakeFacts DEF TypeOK
  <2>3. i # 1
    BY <1>2, <1>n, <2>1, <2>2
  <2>4. i - 1 \in 1 .. Len(c2s') /\ c2s'[i - 1] = c2s[i]
    BY <1>n, <2>2, <2>3
  <2>5. QED
    BY <2>1, <2>4
<1>3. ASSUME NEW r \in PipeId, CreatePipe(r)
      PROVE  \E i \in 1 .. Len(c2s') : c2s'[i].from = q /\ c2s'[i].type # "data"
  <2>1. c2s' = c2s /\ pipe'[r] = "made" /\ \A k \in PipeId : k # r => pipe'[k] = pipe[k]
    BY <1>t, <1>3 DEF CreatePipe
  <2>2. QED
    BY <1>0, <2>1
<1>4. ASSUME NEW r \in PipeId, NEW f \in C2S, Puts(r, f)
      PROVE  \E i \in 1 .. Len(c2s') : c2s'[i].from = q /\ c2s'[i].type # "data"
  <2>1. /\ Len(c2s') = Len(c2s) + 1 /\ c2s'[Len(c2s) + 1] = f
        /\ \A i \in 1 .. Len(c2s) : c2s'[i] = c2s[i]
    BY <1>4, PutFacts DEF Puts, TypeOK
  <2>2. Len(c2s) + 1 \in 1 .. Len(c2s') /\ \A i \in 1 .. Len(c2s) : i \in 1 .. Len(c2s')
    BY <1>n, <2>1
  <2>3. /\ f.from = r /\ (pipe[r] = "open" \/ f.type \in {"connect", "close"})
        /\ \A k \in PipeId : k # r => pipe'[k] = pipe[k]
    BY <1>4 DEF Puts
  <2>4. CASE q = r /\ f.type # "data"
    BY <2>1, <2>2, <2>3, <2>4
  <2>5. CASE q # r \/ f.type = "data"
    <3>1. pipe[q] \in {"open", "closed", "ended"}
      BY <2>3, <2>5
    <3>2. PICK i \in 1 .. Len(c2s) : c2s[i].from = q /\ c2s[i].type # "data"
      BY <1>0, <3>1
    <3>3. QED
      BY <2>1, <2>2, <3>2
  <2>6. QED
    BY <2>4, <2>5
<1>5. QED
  BY <1>1, <1>2, <1>3, <1>4, StepKinds

LEMMA NewestHeardStep == AgreeInv /\ [Next]_vars => NewestHeard'
<1> SUFFICES ASSUME AgreeInv, [Next]_vars PROVE NewestHeard'
  OBVIOUS
<1>v. TypeOK /\ OnePipe /\ Ordered /\ NewestAlive /\ EntryKnown /\ NewestHeard
  BY DEF AgreeInv, RouteInv
<1>n. PipeId \subseteq Int /\ Len(c2s) \in Nat /\ \A i \in 1 .. Len(c2s) : c2s[i].from \in PipeId
  BY <1>v, FrameType DEF PipeId, TypeOK
<1>d. CASE Destroyed
  <2>1. Len(c2s') = 0 /\ conn' = None
    BY <1>d DEF Destroyed, Removed
  <2>2. QED
    BY <2>1 DEF NewestHeard
<1>a. ASSUME ~Destroyed
      PROVE  \A i \in 1 .. Len(c2s') : Announced(c2s', pipe', c2s'[i].from)
  <2>1. CASE Steady /\ c2s' = c2s
    <3>1. c2s # <<>> => c2s' # Tail(c2s)
      BY <1>v, <2>1 DEF TypeOK
    <3>2. QED
      BY <1>a, <1>n, <1>v, <2>1, <3>1, AnnouncedStays DEF NewestHeard
  <2>2. CASE Steady /\ c2s # <<>> /\ c2s' = Tail(c2s)
    <3>1. TAKE i \in 1 .. Len(c2s')
    <3>2. c2s'[i] = c2s[i + 1] /\ i + 1 \in 1 .. Len(c2s) /\ Head(c2s) = c2s[1] /\ 1 \in 1 .. Len(c2s)
      BY <1>n, <1>v, <2>2, <3>1, TakeFacts DEF TypeOK
    <3>3. Head(c2s).from <= c2s[i + 1].from
      BY <1>n, <1>v, <3>1, <3>2 DEF Ordered
    <3>4. QED
      BY <1>a, <1>n, <1>v, <3>2, <3>3, AnnouncedStays DEF NewestHeard
  <2>3. ASSUME NEW p \in PipeId, CreatePipe(p)
        PROVE  \A i \in 1 .. Len(c2s') : Announced(c2s', pipe', c2s'[i].from)
    <3>1. c2s' = c2s /\ (c2s # <<>> => c2s' # Tail(c2s))
      BY <1>v, <2>3 DEF CreatePipe, TypeOK
    <3>2. QED
      BY <1>a, <1>n, <1>v, <3>1, AnnouncedStays DEF NewestHeard
  <2>4. ASSUME NEW p \in PipeId, NEW f \in C2S, Puts(p, f)
        PROVE  \A i \in 1 .. Len(c2s') : Announced(c2s', pipe', c2s'[i].from)
    <3>1. /\ Len(c2s') = Len(c2s) + 1 /\ c2s'[Len(c2s) + 1] = f
          /\ \A i \in 1 .. Len(c2s) : c2s'[i] = c2s[i]
      BY <1>v, <2>4, PutFacts DEF Puts, TypeOK
    <3>2. c2s # <<>> => c2s' # Tail(c2s)
      BY <1>n, <1>v, <3>1, TakeFacts DEF TypeOK
    <3>3. TAKE i \in 1 .. Len(c2s')
    <3>4. CASE i = Len(c2s) + 1
      <4>1. f.from = p /\ Alive(p) /\ \A q \in PipeId : q # p => pipe'[q] = pipe[q]
        BY <2>4 DEF Puts
      <4>2. \A q \in PipeId : p < q => pipe'[q] = "none"
        BY <1>n, <1>v, <4>1 DEF NewestAlive
      <4>3. QED
        BY <3>1, <3>4, <4>1, <4>2 DEF Announced
    <3>5. CASE i # Len(c2s) + 1
      <4>1. i \in 1 .. Len(c2s) /\ c2s'[i] = c2s[i]
        BY <1>n, <3>1, <3>3, <3>5
      <4>2. QED
        BY <1>a, <1>n, <1>v, <3>2, <4>1, AnnouncedStays DEF NewestHeard
    <3>6. QED
      BY <3>4, <3>5
  <2>5. QED
    BY <1>a, <1>v, <2>1, <2>2, <2>3, <2>4, StepKinds
<1>0. conn' = None /\ ~Destroyed => NewestHeard'
  BY <1>a DEF NewestHeard
<1>1. CASE HandleConnect \/ (HandleData /\ conn = None)
  <2>1. /\ c2s # <<>> /\ c2s' = Tail(c2s) /\ openedBy'[conn'] = Head(c2s).from /\ Head(c2s).from \in PipeId
    BY <1>1, OpensFacts
  <2>2. ~Destroyed
    BY <1>1 DEF HandleConnect, HandleData, Destroyed, pageVars
  <2>3. Announced(c2s, pipe, Head(c2s).from)
    <3>1. Head(c2s) = c2s[1] /\ 1 \in 1 .. Len(c2s)
      BY <1>n, <1>v, <2>1, TakeFacts DEF TypeOK
    <3>2. QED
      BY <1>v, <3>1 DEF NewestHeard
  <2>4. Announced(c2s', pipe', Head(c2s).from)
    <3>1. PICK h \in PipeId : h = Head(c2s).from
      BY <2>1
    <3>2. h <= h /\ Announced(c2s, pipe, h)
      BY <1>n, <2>3, <3>1
    <3>3. Announced(c2s', pipe', h)
      BY <1>v, <2>2, <3>1, <3>2, AnnouncedStays
    <3>4. QED
      BY <3>1, <3>3
  <2>5. QED
    BY <1>a, <2>1, <2>2, <2>4 DEF NewestHeard
<1>2. ASSUME conn # None, conn' = conn, openedBy' = openedBy, ~Destroyed,
             c2s # <<>> /\ c2s' = Tail(c2s) => Head(c2s).type = "data"
      PROVE  NewestHeard'
  <2>1. Announced(c2s, pipe, openedBy[conn]) /\ openedBy[conn] \in PipeId
    BY <1>2, <1>v DEF NewestHeard, EntryKnown
  <2>2. Announced(c2s', pipe', openedBy[conn])
    BY <1>2, <1>v, <2>1, AnnouncedStays
  <2>3. QED
    BY <1>2, <1>a, <2>2 DEF NewestHeard
<1>3. CASE HandleData /\ conn # None
  <2>1. ~Destroyed
    BY <1>3 DEF HandleData, Destroyed, pageVars
  <2>2. QED
    BY <1>2, <1>3, <2>1 DEF HandleData, NextFrame
<1>4. ASSUME conn' = conn, openedBy' = openedBy, ~Destroyed, c2s' = c2s \/ \E f : c2s' = Append(c2s, f)
      PROVE  NewestHeard'
  <2>1. c2s # <<>> => c2s' # Tail(c2s)
    BY <1>4, <1>v DEF TypeOK
  <2>2. QED
    BY <1>0, <1>2, <1>4, <2>1
<1>5. ASSUME NEW p \in PipeId, PipeNext(p) PROVE NewestHeard'
  BY <1>4, <1>5, <1>d DEF PipeNext, CreatePipe, FlushConnect, SendData, ClosePipe, adapterVars
<1>6. CASE ReceiveS2C \/ Reload \/ UNCHANGED vars
  BY <1>4, <1>6, <1>d DEF ReceiveS2C, Reload, vars, adapterVars
<1>7. CASE HandleClose \/ Detach
  BY <1>0, <1>7, <1>d DEF HandleClose, Detach, Removed
<1>8. CASE Unheard
  <2>1. conn' = None
    BY <1>8 DEF Unheard, adapterVars, AgreeInv, RouteInv, Routed
  <2>2. QED
    BY <1>0, <1>d, <2>1
<1>9. ASSUME NEW c \in Connection, Push(c) PROVE NewestHeard'
  BY <1>4, <1>9, <1>d DEF Push, adapterVars
<1>10. ASSUME NEW c \in Connection, EngineCloses(c) PROVE NewestHeard'
  BY <1>0, <1>10, <1>d DEF EngineCloses
<1>11. QED
  BY <1>1, <1>3, <1>5, <1>6, <1>7, <1>8, <1>9, <1>10, <1>d DEF Next

LEMMA EndedBySomeStep == TypeOK /\ EndedBySome /\ [Next]_vars => EndedBySome'
<1> SUFFICES ASSUME TypeOK, EndedBySome, [Next]_vars PROVE EndedBySome'
  OBVIOUS
<1>t. pipe \in [PipeId -> {"none", "made", "open", "closed", "ended", "dead"}]
  BY DEF TypeOK
<1>0. ASSUME endedBy' = endedBy, \A p \in PipeId : pipe'[p] = "ended" => pipe[p] = "ended"
      PROVE  EndedBySome'
  BY <1>0 DEF EndedBySome
<1>1. ASSUME NEW p \in PipeId, PipeNext(p) PROVE EndedBySome'
  BY <1>0, <1>1, <1>t DEF PipeNext, CreatePipe, FlushConnect, SendData, ClosePipe, pageVars
<1>2. CASE ReceiveS2C
  <2>1. Len(s2c) \in Nat \ {0} /\ Head(s2c) = s2c[1] /\ s2c[1] \in S2C
    BY <1>2 DEF ReceiveS2C, TypeOK
  <2>2. Head(s2c).from \in Connection
    BY <2>1 DEF S2C
  <2>3. QED
    BY <1>2, <1>t, <2>2 DEF ReceiveS2C, EndedBySome
<1>3. CASE Reload \/ Destroyed
  BY <1>0, <1>3, <1>t DEF Reload, Destroyed, PipesDie
<1>4. CASE HandleConnect \/ HandleClose \/ HandleData \/ Detach \/ Unheard \/ UNCHANGED vars
  BY <1>0, <1>4 DEF HandleConnect, HandleClose, HandleData, Detach, Unheard, vars, pageVars
<1>5. ASSUME NEW c \in Connection, Push(c) \/ EngineCloses(c) PROVE EndedBySome'
  BY <1>0, <1>5 DEF Push, EngineCloses, pageVars
<1>6. QED
  BY <1>1, <1>2, <1>3, <1>4, <1>5 DEF Next

\* What a step leaves of the frames that were under way to the adapter.
LEMMA FramesStay ==
  ASSUME TypeOK, [Next]_vars, ~Destroyed, NEW i \in 1 .. Len(c2s),
         i = 1 /\ c2s' = Tail(c2s) => c2s' = c2s
  PROVE  \E j \in 1 .. Len(c2s') : c2s'[j] = c2s[i]
<1>f. Len(c2s) \in Nat
  BY DEF TypeOK
<1>1. CASE c2s' = c2s
  BY <1>1
<1>2. CASE c2s # <<>> /\ c2s' = Tail(c2s) /\ c2s' # c2s
  <2>1. /\ Len(c2s') = Len(c2s) - 1
        /\ \A k \in 1 .. Len(c2s') : c2s'[k] = c2s[k + 1]
    BY <1>2, TakeFacts
  <2>2. i # 1
    BY <1>2
  <2>3. i - 1 \in 1 .. Len(c2s') /\ (i - 1) + 1 = i
    BY <1>f, <2>1, <2>2
  <2>4. c2s'[i - 1] = c2s[i]
    BY <2>1, <2>3
  <2>5. QED
    BY <2>3, <2>4
<1>3. ASSUME NEW p \in PipeId, CreatePipe(p) PROVE c2s' = c2s
  BY <1>3 DEF CreatePipe
<1>4. ASSUME NEW p \in PipeId, NEW f \in C2S, Puts(p, f)
      PROVE  \E j \in 1 .. Len(c2s') : c2s'[j] = c2s[i]
  <2>1. Len(c2s') = Len(c2s) + 1 /\ \A k \in 1 .. Len(c2s) : c2s'[k] = c2s[k]
    BY <1>4, PutFacts DEF Puts
  <2>2. i \in 1 .. Len(c2s')
    BY <1>f, <2>1
  <2>3. QED
    BY <2>1, <2>2
<1>5. QED
  BY <1>1, <1>2, <1>3, <1>4, StepKinds

\* The history of who was refused only grows, by connections that were opened.
LEMMA RefusedStep ==
  ASSUME AgreeInv, [Next]_vars
  PROVE  /\ \A c \in refused' : openedBy'[c] # None
         /\ \A c \in refused : c \in refused' /\ openedBy'[c] = openedBy[c]
         /\ conn # None /\ (\E c \in Connection : EngineCloses(c)) => conn \in refused'
<1>v. TypeOK /\ NoEngineLeaked /\ EntryKnown /\ \A c \in refused : openedBy[c] # None
  BY DEF AgreeInv, RouteInv, Awaited
<1>n. None \notin PipeId
  BY DEF None, PipeId
<1>r. refused \subseteq Connection
  BY <1>v DEF TypeOK
<1>1. ASSUME NEW c \in Connection, EngineCloses(c)
      PROVE  /\ c = conn /\ conn # None /\ openedBy[conn] # None
             /\ refused' = refused \cup {conn} /\ openedBy' = openedBy
    BY <1>v, <1>n, <1>1 DEF EngineCloses, NoEngineLeaked, EntryKnown
<1>2. CASE \E c \in Connection : EngineCloses(c)
  BY <1>v, <1>1, <1>2
<1>3. CASE ~\E c \in Connection : EngineCloses(c)
  <2>1. refused' = refused
    <3>1. ASSUME NEW p \in PipeId, PipeNext(p) PROVE refused' = refused
      BY <3>1 DEF PipeNext, CreatePipe, FlushConnect, SendData, ClosePipe, adapterVars
    <3>2. CASE \/ ReceiveS2C \/ Reload \/ HandleConnect \/ HandleClose \/ HandleData
               \/ Destroyed \/ Detach \/ Unheard \/ UNCHANGED vars
      BY <3>2 DEF ReceiveS2C, Reload, HandleConnect, HandleClose, HandleData, Destroyed, Detach,
                  Unheard, vars, adapterVars
    <3>3. ASSUME NEW c \in Connection, Push(c) PROVE refused' = refused
      BY <3>3 DEF Push, adapterVars
    <3>4. QED
      BY <1>3, <3>1, <3>2, <3>3 DEF Next
  <2>2. CASE HandleConnect \/ (HandleData /\ conn = None)
    <3>1. \A c \in refused : openedBy'[c] = openedBy[c]
      BY <1>v, <1>r, <2>2, OpensFacts
    <3>2. QED
      BY <1>v, <1>3, <2>1, <3>1
  <2>3. CASE ~(HandleConnect \/ (HandleData /\ conn = None))
    BY <1>v, <1>3, <2>1, <2>3, KeepsOpened
  <2>4. QED
    BY <2>2, <2>3
<1>4. QED
  BY <1>2, <1>3

LEMMA AwaitedStep == AgreeInv /\ [Next]_vars => Awaited'
<1> SUFFICES ASSUME AgreeInv, [Next]_vars PROVE Awaited'
  OBVIOUS
<1>v. TypeOK /\ OnePipe /\ Ordered /\ NewestAlive /\ CloseFrames /\ EntryKnown /\ Awaited
  BY DEF AgreeInv, RouteInv
<1>t. pipe \in [PipeId -> {"none", "made", "open", "closed", "ended", "dead"}]
  BY <1>v DEF TypeOK
<1>i. PipeId \subseteq Int
  BY DEF PipeId
<1>r. /\ \A c \in refused' : openedBy'[c] # None
      /\ \A c \in refused : c \in refused' /\ openedBy'[c] = openedBy[c]
      /\ conn # None /\ (\E c \in Connection : EngineCloses(c)) => conn \in refused'
  BY RefusedStep
<1>1. SUFFICES ASSUME listening', NEW p \in PipeId, pipe'[p] = "open"
               PROVE  \/ \E i \in 1 .. Len(c2s') : ConnectOf(c2s'[i], p)
                      \/ conn' # None /\ openedBy'[conn'] = p
                      \/ \E c \in refused' : openedBy'[c] = p
  BY <1>r DEF Awaited, ConnectOf
<1>2. CASE FlushConnect(p)
  <2>1. Len(c2s') = Len(c2s) + 1 /\ c2s'[Len(c2s) + 1] = [type |-> "connect", from |-> p]
    BY <1>v, <1>2, PutFacts DEF FlushConnect
  <2>2. Len(c2s) + 1 \in 1 .. Len(c2s') /\ ConnectOf(c2s'[Len(c2s) + 1], p)
    BY <1>v, <2>1 DEF TypeOK, ConnectOf
  <2>3. QED
    BY <2>2
<1>3. ASSUME ~FlushConnect(p) PROVE pipe[p] = "open" /\ ~Destroyed /\ listening
  <2>1. ASSUME NEW q \in PipeId, PipeNext(q) PROVE pipe[p] = "open" /\ ~Destroyed /\ listening
    <3>1. CASE CreatePipe(q)
      BY <1>t, <1>1, <3>1 DEF CreatePipe, Destroyed, adapterVars, PipesDie, Alive
    <3>2. CASE FlushConnect(q)
      BY <1>t, <1>1, <1>3, <3>2 DEF FlushConnect, Destroyed, adapterVars, PipesDie, Alive
    <3>3. CASE SendData(q)
      BY <1>t, <1>1, <3>3 DEF SendData, Destroyed, adapterVars, pageVars, PipesDie, Alive
    <3>4. CASE ClosePipe(q)
      BY <1>t, <1>1, <3>4 DEF ClosePipe, Destroyed, adapterVars, PipesDie, Alive
    <3>5. QED
      BY <2>1, <3>1, <3>2, <3>3, <3>4 DEF PipeNext
  <2>2. ~Destroyed
    BY <1>t, <1>1 DEF Destroyed, PipesDie, Alive
  <2>3. CASE ReceiveS2C \/ Reload
    BY <1>t, <1>1, <2>2, <2>3 DEF ReceiveS2C, Reload, PipesDie, Alive, adapterVars
  <2>4. CASE HandleConnect \/ HandleClose \/ HandleData \/ Unheard \/ UNCHANGED vars
    BY <1>1, <2>2, <2>4 DEF HandleConnect, HandleClose, HandleData, Unheard, vars, pageVars, adapterVars
  <2>5. ~Detach
    BY <1>1 DEF Detach
  <2>6. ASSUME NEW c \in Connection, Push(c) \/ EngineCloses(c) PROVE pipe[p] = "open" /\ listening
    BY <1>1, <2>6 DEF Push, EngineCloses, pageVars, adapterVars
  <2>7. QED
    BY <2>1, <2>2, <2>3, <2>4, <2>5, <2>6 DEF Next
<1> SUFFICES ASSUME ~FlushConnect(p)
             PROVE  \/ \E i \in 1 .. Len(c2s') : ConnectOf(c2s'[i], p)
                    \/ conn' # None /\ openedBy'[conn'] = p
                    \/ \E c \in refused' : openedBy'[c] = p
  BY <1>2
<1>4. pipe[p] = "open" /\ ~Destroyed /\ listening
  BY <1>3
<1>5. CASE \E c \in refused : openedBy[c] = p
  BY <1>r, <1>5
\* The __connect is still under way, or it is what the adapter takes.
<1>6. ASSUME NEW i \in 1 .. Len(c2s), ConnectOf(c2s[i], p)
      PROVE  \/ \E j \in 1 .. Len(c2s') : ConnectOf(c2s'[j], p)
             \/ conn' # None /\ openedBy'[conn'] = p
  <2>1. CASE ~(i = 1 /\ c2s' = Tail(c2s))
    <3>1. \E j \in 1 .. Len(c2s') : c2s'[j] = c2s[i]
      BY <1>v, <1>4, <2>1, FramesStay
    <3>2. QED
      BY <1>6, <3>1
  <2>2. CASE i = 1 /\ c2s' = Tail(c2s)
    <3>1. /\ c2s # <<>> /\ Head(c2s) = c2s[1]
          /\ Len(c2s) \in Nat /\ Len(c2s') = Len(c2s) - 1
      BY <1>v, <2>2 DEF TypeOK
    <3>2. Head(c2s).type = "connect" /\ Head(c2s).from = p
      BY <1>6, <2>2, <3>1 DEF ConnectOf
    <3>3. HandleConnect
      <4>1. c2s' # c2s
        BY <3>1
      <4>2. ~(HandleClose \/ HandleData \/ Unheard)
        BY <1>4, <3>2 DEF HandleClose, HandleData, Unheard, NextFrame
      <4>3. ASSUME NEW q \in PipeId, PipeNext(q) PROVE FALSE
        <5>1. c2s' = c2s \/ \E f : c2s' = Append(c2s, f)
          BY <4>3 DEF PipeNext, CreatePipe, FlushConnect, SendData, ClosePipe
        <5>2. QED
          BY <1>v, <3>1, <5>1 DEF TypeOK
      <4>4. ~(ReceiveS2C \/ Reload \/ Detach \/ UNCHANGED vars)
        BY <4>1 DEF ReceiveS2C, Reload, Detach, vars
      <4>5. ASSUME NEW c \in Connection, Push(c) \/ EngineCloses(c) PROVE FALSE
        BY <4>1, <4>5 DEF Push, EngineCloses
      <4>6. QED
        BY <1>4, <4>2, <4>3, <4>4, <4>5 DEF Next
    <3>4. QED
      BY <3>2, <3>3, OpensFacts
  <2>3. QED
    BY <2>1, <2>2
\* The entry is the pipe's: only a close by the engine takes it away.
<1>7. ASSUME conn # None, openedBy[conn] = p
      PROVE  \/ conn' # None /\ openedBy'[conn'] = p
             \/ \E c \in refused' : openedBy'[c] = p
  <2>1. \A q \in PipeId : p <= q /\ pipe[q] # "none" => q = p
    BY <1>v, <1>i, <1>4 DEF NewestAlive, Alive
  <2>2. c2s # <<>> => Head(c2s).from = p
    <3>1. c2s # <<>> => /\ Len(c2s) \in Nat \ {0} /\ Head(c2s) = c2s[1]
      BY <1>v DEF TypeOK
    <3>2. c2s # <<>> => c2s[1].from \in PipeId /\ p <= c2s[1].from /\ pipe[c2s[1].from] # "none"
      BY <1>v, <1>7, <3>1, FrameType DEF EntryKnown, Ordered
    <3>3. QED
      BY <2>1, <3>1, <3>2
  <2>3. CASE HandleConnect
    BY <2>2, <2>3, OpensFacts
  <2>4. ~HandleClose
    <3>1. c2s # <<>> => Len(c2s) \in Nat \ {0} /\ Head(c2s) = c2s[1]
      BY <1>v DEF TypeOK
    <3>2. c2s # <<>> => Head(c2s).type # "close"
      BY <1>v, <1>4, <2>2, <3>1 DEF CloseFrames
    <3>3. QED
      BY <3>2 DEF HandleClose, NextFrame
  <2>5. CASE \E c \in Connection : EngineCloses(c)
    BY <1>7, <1>r, <2>5 DEF EngineCloses
  <2>6. CASE ~HandleConnect /\ ~\E c \in Connection : EngineCloses(c)
    <3>1. openedBy' = openedBy
      BY <1>7, <2>6, KeepsOpened
    <3>2. conn' = conn
      <4>1. ASSUME NEW q \in PipeId, PipeNext(q) PROVE conn' = conn
        BY <4>1 DEF PipeNext, CreatePipe, FlushConnect, SendData, ClosePipe, adapterVars
      <4>2. CASE ReceiveS2C \/ Reload \/ Unheard \/ HandleData \/ UNCHANGED vars
        BY <1>7, <4>2 DEF ReceiveS2C, Reload, Unheard, HandleData, vars, adapterVars
      <4>3. ASSUME NEW c \in Connection, Push(c) PROVE conn' = conn
        BY <4>3 DEF Push, adapterVars
      <4>4. ~Detach
        BY <1>1 DEF Detach
      <4>5. QED
        BY <1>4, <2>4, <2>6, <4>1, <4>2, <4>3, <4>4 DEF Next
    <3>3. QED
      BY <1>7, <3>1, <3>2
  <2>7. QED
    BY <2>3, <2>5, <2>6
<1>8. QED
  BY <1>v, <1>4, <1>5, <1>6, <1>7 DEF Awaited

\* Closed pipes stay closed and connections stay opened by who opened them.
LEMMA AskedStays ==
  ASSUME AgreeInv, [Next]_vars, NEW c \in Connection
  PROVE  /\ AskedFor(openedBy, pipe, c) => AskedFor(openedBy', pipe', c)
         /\ \A p \in PipeId : AskedBefore(openedBy, pipe, c, p) => AskedBefore(openedBy', pipe', c, p)
<1>v. TypeOK
  BY DEF AgreeInv, RouteInv
<1>1. \A q \in PipeId : pipe[q] = "closed" => pipe'[q] = "closed"
  <2>1. CASE Steady
    BY <2>1 DEF Steady
  <2>2. CASE Destroyed
    BY <2>2 DEF Destroyed, PipesDie, Alive
  <2>3. ASSUME NEW p \in PipeId, CreatePipe(p)
        PROVE  \A q \in PipeId : pipe[q] = "closed" => pipe'[q] = "closed"
    BY <1>v, <2>3 DEF CreatePipe, TypeOK
  <2>4. ASSUME NEW p \in PipeId, NEW f \in C2S, Puts(p, f)
        PROVE  \A q \in PipeId : pipe[q] = "closed" => pipe'[q] = "closed"
    BY <2>4 DEF Puts, Alive
  <2>5. QED
    BY <1>v, <2>1, <2>2, <2>3, <2>4, StepKinds
<1>2. openedBy[c] # None => openedBy'[c] = openedBy[c]
  BY OpensFacts, KeepsOpened
<1>3. QED
  BY <1>1, <1>2 DEF AskedFor, AskedBefore

LEMMA EchoedStep == AgreeInv /\ [Next]_vars => Echoed'
<1> SUFFICES ASSUME AgreeInv, [Next]_vars, listening'
             PROVE  /\ \A i \in 1 .. Len(s2c') : s2c'[i].type = "close" => AskedFor(openedBy', pipe', s2c'[i].from)
                    /\ \A p \in PipeId : endedBy'[p] # None => AskedBefore(openedBy', pipe', endedBy'[p], p)
  BY DEF Echoed
<1>v. TypeOK /\ OnePipe /\ Ordered /\ NewestAlive /\ CloseFrames /\ EntryKnown /\ Echoed
  BY DEF AgreeInv, RouteInv
<1>i. PipeId \subseteq Int
  BY DEF PipeId
<1>l. listening
  <2>1. ASSUME NEW p \in PipeId, PipeNext(p) PROVE listening' = listening
    BY <2>1 DEF PipeNext, CreatePipe, FlushConnect, SendData, ClosePipe, adapterVars
  <2>2. CASE \/ ReceiveS2C \/ Reload \/ HandleConnect \/ HandleClose \/ HandleData
             \/ Destroyed \/ Unheard \/ UNCHANGED vars
    BY <2>2 DEF ReceiveS2C, Reload, HandleConnect, HandleClose, HandleData, Destroyed, Unheard,
                NextFrame, vars, adapterVars
  <2>3. ASSUME NEW c \in Connection, Push(c) \/ EngineCloses(c) PROVE listening' = listening
    BY <2>3 DEF Push, EngineCloses, adapterVars
  <2>4. ~Detach
    BY DEF Detach
  <2>5. QED
    BY <2>1, <2>2, <2>3, <2>4 DEF Next
<1>e. /\ \A i \in 1 .. Len(s2c) : s2c[i].type = "close" => AskedFor(openedBy, pipe, s2c[i].from)
      /\ \A p \in PipeId : endedBy[p] # None => AskedBefore(openedBy, pipe, endedBy[p], p)
  BY <1>v, <1>l DEF Echoed
<1>f. Len(s2c) \in Nat /\ \A i \in 1 .. Len(s2c) : s2c[i].from \in Connection
  <2>1. Len(s2c) \in Nat /\ \A i \in 1 .. Len(s2c) : s2c[i] \in S2C
    BY <1>v DEF TypeOK
  <2>2. QED
    BY <2>1 DEF S2C
<1>t. \A p \in PipeId : endedBy[p] \in Connection \cup {None}
  BY <1>v DEF TypeOK
<1>a. /\ \A i \in 1 .. Len(s2c) : s2c[i].type = "close" => AskedFor(openedBy', pipe', s2c[i].from)
      /\ \A p \in PipeId : endedBy[p] # None => AskedBefore(openedBy', pipe', endedBy[p], p)
  BY <1>e, <1>f, <1>t, AskedStays
<1>0. ASSUME endedBy' = endedBy,
             \/ s2c' = s2c \/ s2c' = <<>>
             \/ \E c \in Connection : s2c' = Append(s2c, [type |-> "data", from |-> c])
      PROVE  /\ \A i \in 1 .. Len(s2c') : s2c'[i].type = "close" => AskedFor(openedBy', pipe', s2c'[i].from)
             /\ \A p \in PipeId : endedBy'[p] # None => AskedBefore(openedBy', pipe', endedBy'[p], p)
  <2>1. CASE s2c' = s2c
    BY <1>0, <1>a, <2>1
  <2>2. CASE s2c' = <<>>
    <3>1. Len(s2c') = 0
      BY <2>2
    <3>2. QED
      BY <1>0, <1>a, <3>1
  <2>3. ASSUME NEW c \in Connection, s2c' = Append(s2c, [type |-> "data", from |-> c]),
               NEW i \in 1 .. Len(s2c'), s2c'[i].type = "close"
        PROVE  AskedFor(openedBy', pipe', s2c'[i].from)
    <3>1. /\ Len(s2c') = Len(s2c) + 1
          /\ s2c'[Len(s2c) + 1] = [type |-> "data", from |-> c]
          /\ \A j \in 1 .. Len(s2c) : s2c'[j] = s2c[j]
      BY <1>v, <2>3 DEF TypeOK
    <3>2. i # Len(s2c) + 1
      BY <2>3, <3>1
    <3>3. i \in 1 .. Len(s2c)
      BY <1>f, <3>1, <3>2
    <3>4. QED
      BY <1>a, <2>3, <3>1, <3>3
  <2>4. QED
    BY <1>0, <1>a, <2>1, <2>2, <2>3
<1>1. ASSUME NEW p \in PipeId, PipeNext(p) PROVE endedBy' = endedBy /\ s2c' = s2c
  BY <1>1 DEF PipeNext, CreatePipe, FlushConnect, SendData, ClosePipe, pageVars
<1>2. CASE \/ Reload \/ HandleConnect \/ HandleData \/ Destroyed \/ Unheard \/ UNCHANGED vars
  <2>1. endedBy' = endedBy /\ (s2c' = s2c \/ s2c' = <<>>)
    BY <1>2 DEF Reload, HandleConnect, HandleData, Destroyed, Unheard, vars, pageVars
  <2>2. QED
    BY <1>0, <2>1
<1>3. ASSUME NEW c \in Connection, Push(c)
      PROVE  endedBy' = endedBy /\ s2c' = Append(s2c, [type |-> "data", from |-> c])
  BY <1>3 DEF Push, pageVars
<1>4. ASSUME NEW c \in Connection, EngineCloses(c)
      PROVE  endedBy' = endedBy /\ s2c' = s2c
  BY <1>4 DEF EngineCloses, pageVars
\* The echo: the __close that asks for it comes from no pipe before the entry's.
<1>5. CASE HandleClose
  <2>1. endedBy' = endedBy
    BY <1>5 DEF HandleClose, pageVars
  <2>2. CASE conn = None
    BY <1>0, <1>5, <2>1, <2>2 DEF HandleClose, Echo
  <2>3. CASE conn # None
    <3>1. /\ s2c' = Append(s2c, [type |-> "close", from |-> conn])
          /\ openedBy' = openedBy /\ pipe' = pipe
      BY <1>5, <2>3 DEF HandleClose, Echo, pageVars
    <3>2. /\ Len(c2s) \in Nat \ {0} /\ Head(c2s) = c2s[1] /\ Head(c2s).type = "close"
      BY <1>v, <1>5 DEF HandleClose, NextFrame, TypeOK
    <3>3. /\ c2s[1].from \in PipeId /\ pipe[c2s[1].from] = "closed"
          /\ openedBy[conn] <= c2s[1].from /\ openedBy[conn] # None
      <4>1. None \notin PipeId
        BY DEF None, PipeId
      <4>2. QED
        BY <1>v, <2>3, <3>2, <4>1, FrameType DEF CloseFrames, EntryKnown
    <3>4. AskedFor(openedBy', pipe', conn)
      BY <3>1, <3>3 DEF AskedFor
    <3>5. ASSUME NEW i \in 1 .. Len(s2c'), s2c'[i].type = "close"
          PROVE  AskedFor(openedBy', pipe', s2c'[i].from)
      <4>1. /\ Len(s2c') = Len(s2c) + 1
            /\ s2c'[Len(s2c) + 1] = [type |-> "close", from |-> conn]
            /\ \A j \in 1 .. Len(s2c) : s2c'[j] = s2c[j]
        BY <1>v, <3>1 DEF TypeOK
      <4>2. CASE i = Len(s2c) + 1
        BY <3>4, <4>1, <4>2
      <4>3. CASE i # Len(s2c) + 1
        <5>1. i \in 1 .. Len(s2c)
          BY <1>f, <4>1, <4>3
        <5>2. QED
          BY <1>a, <3>5, <4>1, <5>1
      <4>4. QED
        BY <4>2, <4>3
    <3>6. QED
      BY <1>a, <2>1, <3>5
  <2>4. QED
    BY <2>2, <2>3
\* The page hears it: the pipe that listens is a later one than the pipe that
\* asked, which is closed.
<1>6. CASE ReceiveS2C
  <2>1. /\ Len(s2c) \in Nat \ {0} /\ Len(s2c') = Len(s2c) - 1
        /\ Head(s2c) = s2c[1]
        /\ \A i \in 1 .. Len(s2c') : i + 1 \in 1 .. Len(s2c) /\ s2c'[i] = s2c[i + 1]
    BY <1>v, <1>6 DEF ReceiveS2C, TypeOK
  <2>2. \A i \in 1 .. Len(s2c') : s2c'[i].type = "close" => AskedFor(openedBy', pipe', s2c'[i].from)
    BY <1>a, <2>1
  <2>3. ASSUME NEW p \in PipeId, endedBy'[p] # None
        PROVE  AskedBefore(openedBy', pipe', endedBy'[p], p)
    <3>1. CASE endedBy'[p] = endedBy[p]
      BY <1>a, <2>3, <3>1
    <3>2. CASE endedBy'[p] # endedBy[p]
      <4>1. /\ pipe[p] = "open" /\ Head(s2c).type = "close"
            /\ endedBy'[p] = s2c[1].from
        BY <1>6, <2>1, <3>2 DEF ReceiveS2C
      <4>2. s2c[1].from \in Connection /\ AskedFor(openedBy, pipe, s2c[1].from)
        BY <1>e, <1>f, <2>1, <4>1
      <4>3. PICK q \in PipeId : openedBy[s2c[1].from] <= q /\ pipe[q] = "closed"
        BY <4>2 DEF AskedFor
      <4>4. q < p
        BY <1>v, <1>i, <4>1, <4>3 DEF NewestAlive, Alive
      <4>5. AskedBefore(openedBy, pipe, s2c[1].from, p)
        BY <4>2, <4>3, <4>4 DEF AskedFor, AskedBefore
      <4>6. QED
        BY <4>1, <4>2, <4>5, AskedStays
    <3>3. QED
      BY <3>1, <3>2
  <2>4. QED
    BY <2>2, <2>3
<1>7. ~Detach
  BY DEF Detach
<1>8. QED
  BY <1>0, <1>1, <1>2, <1>3, <1>4, <1>5, <1>6, <1>7 DEF Next

LEMMA AgreeInvAlways == Spec => []AgreeInv
<1>1. RouteInv /\ [Next]_vars => RouteInv'
  BY TypeOKStep, OwnPipeStep, OnePipeStep, OrderedStep, RoutedStep DEF RouteInv
<1>2. AgreeInv /\ [Next]_vars => AgreeInv'
  BY <1>1, NoEngineLeakedStep, NewestAliveStep, CloseFramesStep, EntryKnownStep, NewestHeardStep,
     AwaitedStep, EndedBySomeStep, EchoedStep DEF AgreeInv, RouteInv
<1>3. QED
  BY <1>2, InitAgreeInv, PTL DEF Spec

\* A reload tears its connection down without an echo, and an echo is heard by a
\* pipe only after an earlier one closed (c2sListener and teardown of
\* server/src/electron.ts).
THEOREM ReloadsAreSilent == Spec => []ReloadIsSilent
<1>1. AgreeInv => ReloadIsSilent
  BY DEF AgreeInv, Echoed, AskedBefore, ReloadIsSilent
<1>2. QED
  BY <1>1, AgreeInvAlways, PTL

\* When nothing is under way between page and main process, a pipe the page has
\* open has the adapter's entry, unless the engine closed it; and the entry there
\* is belongs to the last pipe that said anything, which the page has open, lost
\* with its document, or had ended by the echo of an earlier pipe's close, however
\* reloads, closes and reconnects crossed on the way.
THEOREM BothEndsAgree == Spec => []EndsAgree
<1>1. AgreeInv => EndsAgree
  <2>1. SUFFICES ASSUME AgreeInv, Settled, listening PROVE EndsAgree
    BY DEF EndsAgree, OpenIsServed, ClosedIsFreed
  <2>2. Len(c2s) = 0
    BY <2>1 DEF Settled
  <2>3. OpenIsServed
    BY <2>1, <2>2 DEF AgreeInv, Awaited, OpenIsServed
  <2>4. ASSUME conn # None, NEW p \in PipeId, p = openedBy[conn]
        PROVE  /\ pipe[p] \in {"open", "dead"} \/ Crossed(p)
               /\ \A q \in PipeId : p < q => pipe[q] \in {"none", "dead"}
    <3>1. pipe \in [PipeId -> {"none", "made", "open", "closed", "ended", "dead"}]
      BY <2>1 DEF AgreeInv, RouteInv, TypeOK
    <3>2. pipe[p] \notin {"none", "made", "closed"}
      BY <2>1, <2>2, <2>4 DEF AgreeInv, EntryKnown, Settled
    <3>3. CASE pipe[p] = "ended"
      <4>1. endedBy[p] \in Connection
        BY <2>1, <3>3 DEF AgreeInv, EndedBySome
      <4>2. endedBy[p] # None
        BY <4>1 DEF Connection, None
      <4>3. AskedBefore(openedBy, pipe, endedBy[p], p)
        BY <2>1, <4>2 DEF AgreeInv, Echoed
      <4>4. Crossed(p)
        BY <3>3, <4>3 DEF AskedBefore, Crossed
      <4>5. QED
        BY <2>1, <2>2, <2>4, <3>1, <4>4 DEF AgreeInv, NewestHeard, Announced, Settled
    <3>4. CASE pipe[p] # "ended"
      BY <2>1, <2>2, <2>4, <3>1, <3>2, <3>4 DEF AgreeInv, NewestHeard, Announced, Settled
    <3>5. QED
      BY <3>3, <3>4
  <2>5. ClosedIsFreed
    <3>1. conn # None => openedBy[conn] \in PipeId
      BY <2>1 DEF AgreeInv, EntryKnown
    <3>2. QED
      BY <2>4, <3>1 DEF ClosedIsFreed
  <2>6. QED
    BY <2>3, <2>5 DEF EndsAgree
<1>2. QED
  BY <1>1, AgreeInvAlways, PTL

=============================================================================
