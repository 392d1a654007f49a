--------------------------- MODULE ElectronTransport ---------------------------
(***************************************************************************)
(* The Electron transport of one window: the pipes its page builds         *)
(* (client/src/transport/electron.ts), the two ordered channels between    *)
(* the page and the main process, and the adapter's map entry for the      *)
(* window's webContents (server/src/electron.ts).  Entries of other        *)
(* windows have other keys and never meet this one.                        *)
(*                                                                         *)
(* Frames carry no connection on the wire; the pipe or the connection a    *)
(* frame comes from is kept beside it to state properties.  The client     *)
(* engine has at most one pipe at a time (NoLeakedPipe of ClientEngine).   *)
(***************************************************************************)
EXTENDS Integers, Sequences, FiniteSets

CONSTANTS
  MaxPipes,      \* bound: the pipes built, over all loads of the page
  MaxEngineCloses,   \* bound: connections the engine closes by itself
  MaxQueue       \* bound: data is sent while a channel holds fewer frames

ASSUME BoundsAssumption ==
  MaxPipes \in Nat /\ MaxEngineCloses \in Nat /\ MaxQueue \in Nat

PipeId == 1 .. MaxPipes
Connection == 1 .. MaxPipes + MaxEngineCloses
None     == 0

VARIABLES
  page,         \* the webContents: "up" or "destroyed"
  pipe,         \* [PipeId -> "none", "made" (listening, its __connect is still a
                \* microtask), "open", "closed" (by close()), "ended" (by an
                \* inbound __close) or "dead" (with its page)]
  c2s, s2c,     \* the channels
  listening,    \* the ipcMain listener is registered
  conn,         \* connections.get(webContents.id), or None
  attached,     \* the connections whose engine is attached
  openedBy,     \* history: [Connection -> the pipe whose frame opened it, or None]
  served,       \* history: [Connection -> the pipes whose data it dispatched]
  endedBy,      \* history: [PipeId -> the connection whose __close ended it]
  refused       \* history: the connections the engine closed

pageVars    == <<page, pipe, endedBy>>
adapterVars == <<listening, conn, attached, openedBy, served, refused>>
vars == <<pageVars, c2s, s2c, adapterVars>>

C2S == [type : {"connect", "close", "data"}, from : PipeId]
S2C == [type : {"close", "data"}, from : Connection]

TypeOK ==
  /\ page \in {"up", "destroyed"}
  /\ pipe \in [PipeId -> {"none", "made", "open", "closed", "ended", "dead"}]
  /\ c2s \in Seq(C2S) /\ s2c \in Seq(S2C)
  /\ listening \in BOOLEAN
  /\ conn \in Connection \cup {None}
  /\ attached \subseteq Connection
  /\ openedBy \in [Connection -> PipeId \cup {None}]
  /\ served \in [Connection -> SUBSET PipeId]
  /\ endedBy \in [PipeId -> Connection \cup {None}]
  /\ refused \subseteq Connection

Init ==
  /\ page = "up"
  /\ pipe = [p \in PipeId |-> "none"]
  /\ c2s = <<>> /\ s2c = <<>>
  /\ listening = TRUE
  /\ conn = None
  /\ attached = {}
  /\ openedBy = [c \in Connection |-> None]
  /\ served = [c \in Connection |-> {}]
  /\ endedBy = [p \in PipeId |-> None]
  /\ refused = {}

-----------------------------------------------------------------------------
(* The page *)

Alive(p) == pipe[p] \in {"made", "open"}

\* createElectronPipe: the s2c listener is registered at once
CreatePipe(p) ==
  /\ page = "up"
  /\ pipe[p] = "none"
  /\ \A q \in PipeId : ~Alive(q) /\ (q < p => pipe[q] # "none")
  /\ pipe' = [pipe EXCEPT ![p] = "made"]
  /\ UNCHANGED <<page, endedBy, c2s, s2c, adapterVars>>

\* flushConnect, in the microtask queued by createElectronPipe
FlushConnect(p) ==
  /\ pipe[p] = "made"
  /\ pipe' = [pipe EXCEPT ![p] = "open"]
  /\ c2s' = Append(c2s, [type |-> "connect", from |-> p])
  /\ UNCHANGED <<page, endedBy, s2c, adapterVars>>

\* send(message)
SendData(p) ==
  /\ pipe[p] = "open"
  /\ Len(c2s) < MaxQueue
  /\ c2s' = Append(c2s, [type |-> "data", from |-> p])
  /\ UNCHANGED <<pageVars, s2c, adapterVars>>

\* Seeded fault: the pending __connect is sent although the pipe was closed.
ClosePipe_LateConnect(p) ==
  /\ Alive(p)
  /\ pipe' = [pipe EXCEPT ![p] = "closed"]
  /\ c2s' = Append(c2s, [type |-> "close", from |-> p])
            \o (IF pipe[p] = "made" THEN <<[type |-> "connect", from |-> p]>> ELSE <<>>)
  /\ UNCHANGED <<page, endedBy, s2c, adapterVars>>

\* close(): the listener goes, the server is told, a pending __connect is not sent
ClosePipe(p) ==
  /\ Alive(p)
  /\ pipe' = [pipe EXCEPT ![p] = "closed"]
  /\ c2s' = Append(c2s, [type |-> "close", from |-> p])
  /\ UNCHANGED <<page, endedBy, s2c, adapterVars>>

\* s2cListener of the pipe that listens; a frame nobody listens for is dropped.
\* A frame is a macrotask: no __connect is pending
ReceiveS2C ==
  /\ s2c # <<>>
  /\ \A p \in PipeId : pipe[p] # "made"
  /\ s2c' = Tail(s2c)
  /\ LET ends == {p \in PipeId : pipe[p] = "open" /\ Head(s2c).type = "close"} IN
     /\ pipe' = [p \in PipeId |-> IF p \in ends THEN "ended" ELSE pipe[p]]
     /\ endedBy' = [p \in PipeId |-> IF p \in ends THEN Head(s2c).from ELSE endedBy[p]]
  /\ UNCHANGED <<page, c2s, adapterVars>>

PipesDie == pipe' = [p \in PipeId |-> IF Alive(p) THEN "dead" ELSE pipe[p]]

\* The page loads again: its pipes are gone without a word, and what is under
\* way to it goes to the document that is gone
Reload ==
  /\ page = "up"
  /\ \E p \in PipeId : Alive(p)
  /\ PipesDie
  /\ s2c' = <<>>
  /\ UNCHANGED <<page, endedBy, c2s, adapterVars>>

-----------------------------------------------------------------------------
(* The adapter *)

\* connect(wc): a map entry and an engine of its own, for a frame of pipe p,
\* when the engines of `left` are still attached
Opened(p, left) ==
  \E c \in Connection :
    /\ openedBy[c] = None
    /\ \A d \in Connection : d < c => openedBy[d] # None
    /\ conn' = c
    /\ attached' = left \cup {c}
    /\ openedBy' = [openedBy EXCEPT ![c] = p]

\* teardown of the window's connection, without the echo
Removed == conn' = None /\ attached' = attached \ {conn}

\* Seeded fault: the echo is sent although there was no connection to tear down.
Echo_Always == s2c' = Append(s2c, [type |-> "close", from |-> conn])

\* The echo of a teardown, which does nothing without a connection
Echo == s2c' = IF conn # None THEN Append(s2c, [type |-> "close", from |-> conn]) ELSE s2c

NextFrame(type) ==
  /\ listening
  /\ c2s # <<>> /\ Head(c2s).type = type
  /\ c2s' = Tail(c2s)

\* Seeded fault: a repeat __connect keeps the connection there is.
HandleConnect_Reuses ==
  /\ NextFrame("connect")
  /\ IF conn # None THEN UNCHANGED <<conn, attached, openedBy>>
                    ELSE Opened(Head(c2s).from, attached)
  /\ UNCHANGED <<pageVars, s2c, listening, served, refused>>

\* Seeded fault: a repeat __connect overwrites the entry without its teardown.
HandleConnect_Overwrites ==
  /\ NextFrame("connect")
  /\ Opened(Head(c2s).from, attached)
  /\ UNCHANGED <<pageVars, s2c, listening, served, refused>>

\* Seeded fault: the connection that is replaced is closed with an echo.
HandleConnect_Echoes ==
  /\ NextFrame("connect")
  /\ Echo
  /\ Opened(Head(c2s).from, attached \ {conn})
  /\ UNCHANGED <<pageVars, listening, served, refused>>

\* __connect: a connection there is belongs to a page that was reloaded; it is
\* replaced without an echo
HandleConnect ==
  /\ NextFrame("connect")
  /\ Opened(Head(c2s).from, attached \ {conn})
  /\ UNCHANGED <<pageVars, s2c, listening, served, refused>>

\* __close: teardown, echoed to the page
HandleClose ==
  /\ NextFrame("close")
  /\ Removed
  /\ Echo
  /\ UNCHANGED <<pageVars, listening, openedBy, served, refused>>

\* Data opens a connection on first sight, then is dispatched to it
HandleData ==
  /\ NextFrame("data")
  /\ IF conn = None THEN Opened(Head(c2s).from, attached)
                    ELSE UNCHANGED <<conn, attached, openedBy>>
  /\ served' = [served EXCEPT ![conn'] = @ \cup {Head(c2s).from}]
  /\ UNCHANGED <<pageVars, s2c, listening, refused>>

\* An engine sends a result, an acknowledgement or an invalidate
Push(c) ==
  /\ c \in attached
  /\ page = "up"
  /\ Len(s2c) < MaxQueue
  /\ s2c' = Append(s2c, [type |-> "data", from |-> c])
  /\ UNCHANGED <<pageVars, c2s, adapterVars>>

\* The engine closes its connection (a refused token, the handshake timer).  Its
\* hook tears the window's entry down without an echo, and the pipe.close() that
\* follows finds the pipe closed
EngineCloses(c) ==
  /\ c \in attached
  /\ Cardinality(refused) < MaxEngineCloses
  /\ conn' = None
  /\ attached' = attached \ {c, conn}
  /\ refused' = refused \cup {c}
  /\ UNCHANGED <<pageVars, c2s, s2c, listening, openedBy, served>>

\* The webContents is destroyed: its frames go with it
Destroyed ==
  /\ page = "up"
  /\ page' = "destroyed"
  /\ PipesDie
  /\ c2s' = <<>> /\ s2c' = <<>>
  /\ Removed
  /\ UNCHANGED <<endedBy, listening, openedBy, served, refused>>

\* detach() of the adapter; frames that come later meet no listener
Detach ==
  /\ listening
  /\ listening' = FALSE
  /\ Removed
  /\ Echo
  /\ UNCHANGED <<pageVars, c2s, openedBy, served, refused>>

Unheard ==
  /\ ~listening
  /\ c2s # <<>>
  /\ c2s' = Tail(c2s)
  /\ UNCHANGED <<pageVars, s2c, adapterVars>>

-----------------------------------------------------------------------------
PipeNext(p) == CreatePipe(p) \/ FlushConnect(p) \/ SendData(p) \/ ClosePipe(p)

Next == \/ \E p \in PipeId : PipeNext(p)
        \/ ReceiveS2C
        \/ Reload
        \/ HandleConnect \/ HandleClose \/ HandleData
        \/ \E c \in Connection : Push(c) \/ EngineCloses(c)
        \/ Destroyed
        \/ Detach
        \/ Unheard

Spec == Init /\ [][Next]_vars

-----------------------------------------------------------------------------
(* Properties *)

\* Everything sent has arrived, and every microtask has run.
Settled == c2s = <<>> /\ s2c = <<>> /\ \A p \in PipeId : pipe[p] # "made"

\* The only engine attached is that of the window's entry: a reload, a close, a
\* destroyed page or an engine that closed leaves none behind.
NoEngineLeaked == attached = {conn} \ {None}

\* A connection dispatches frames of the pipe that opened it only: what a page
\* sends is never handled under the identity of the page before it.
FramesOfOwnPipe == \A c \in Connection : served[c] \subseteq {openedBy[c]}

\* A page is never told to close because the page before it was reloaded: the
\* __close that ends a pipe is the echo of one an earlier pipe sent, since the
\* connection it comes from was opened, or comes from detach().
ReloadIsSilent ==
  listening => \A p \in PipeId : endedBy[p] # None =>
    \E q \in PipeId : openedBy[endedBy[p]] <= q /\ q < p /\ pipe[q] = "closed"

\* When all is settled, a pipe the page believes open has a connection that
\* was opened for it, unless the engine closed one of its connections.
OpenIsServed ==
  Settled /\ listening => \A p \in PipeId : pipe[p] = "open" =>
    \/ conn # None /\ openedBy[conn] = p
    \/ \E c \in refused : openedBy[c] = p

\* The echo of an earlier pipe's __close ended this one, which had not asked for it.
Crossed(p) ==
  /\ pipe[p] = "ended"
  /\ \E q \in PipeId : openedBy[endedBy[p]] <= q /\ q < p /\ pipe[q] = "closed"

\* When all is settled, the connection that is kept is that of the last pipe that
\* said anything.  The page has it open, or it died with its page and no later
\* one has asked, or the echo of an earlier pipe's __close ended it on the page
\* only; it is never one the page closed.
ClosedIsFreed ==
  Settled /\ listening /\ conn # None =>
    LET p == openedBy[conn] IN
    /\ pipe[p] \in {"open", "dead"} \/ Crossed(p)
    /\ \A q \in PipeId : p < q => pipe[q] \in {"none", "dead"}

\* When all is settled, a pipe is open on both ends or on neither, but for the
\* cases named in the two parts: the engine closed it, which the page is not
\* told; the page died; or a crossed echo, after which the adapter keeps the
\* connection until the next __connect.
EndsAgree == OpenIsServed /\ ClosedIsFreed

=============================================================================
