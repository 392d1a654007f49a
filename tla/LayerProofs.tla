------------------------------ MODULE LayerProofs ------------------------------
(***************************************************************************)
(* What holds of the database layer for any number of tables, tenants,     *)
(* drafts, processes, deployments and writes: a request, whatever its      *)
(* handlers write, open, catch and throw, who may use a draft, and what an *)
(* upgrade makes of the drafts that are open.                              *)
(***************************************************************************)
EXTENDS MCTransactions, SequenceTheorems, TLAPS

USE TransactionsAssumption

-----------------------------------------------------------------------------
(* One request: the inductive invariant, in its parts. *)

\* The lowest tracker handlers write to.
Base == IF kind = "call" THEN 1 ELSE IF kind = "outer" THEN 3 ELSE 2
RoleAt(i) == IF i > Base THEN "handler" ELSE IF i = Base THEN "batch" ELSE "host"

\* Which trackers are open in which phase of which request.
Nesting ==
    /\ stack[1].role = "request" /\ stack[1].dirty = {}
    /\ kind = "call" => phase \in {"start", "run", "done"}
    /\ kind \in {"commit", "preview"} => phase \in {"start", "scope", "run", "done"}
    /\ phase \in {"start", "done"} => Depth = 1
    /\ phase \in {"host", "after"} => Depth = 2
    /\ phase = "scope" => Depth = IF kind = "outer" THEN 2 ELSE 1
    /\ phase = "run" => Depth >= Base
    /\ \A i \in 2..Depth : stack[i].role = RoleAt(i)
    /\ phase # "run" => running = "none"
    /\ kind # "call" => running # "action"

\* The tags of a transaction are those of what it wrote; those of the request's
\* tracker are those of what is committed.
Tagged ==
    /\ \A i \in 2..Depth : stack[i].tags = Tags(stack[i].dirty)
    /\ stack[1].tags \subseteq Tags(durable)
    /\ ~ackLost => stack[1].tags = Tags(durable)

\* Nothing is committed before a batch is over, nor emitted before a call is.
Undone ==
    /\ phase # "done" /\ (kind # "call" \/ phase = "start") => durable = {} /\ ~ackLost
    /\ phase # "done" \/ kind # "call" => emitted = {}
    /\ phase \notin {"after", "done"} => reply = "none"
    /\ phase = "after" => reply \in {"committed", "failed", "refused"}

\* Statements are numbered, so no write is in two transactions at once.
Numbered ==
    /\ \A i \in 1..Depth : \A w \in stack[i].dirty : w.n <= written
    /\ \A i, j \in 1..Depth : i # j => stack[i].dirty \cap stack[j].dirty = {}

\* The writes of a batch are what its transactions hold while it runs, and what
\* the host's transaction got from it afterwards.
ByHandler(ws) == {w \in ws : w.by = "handler"}
Gathered ==
    kind # "call" =>
        /\ phase \in {"start", "host", "scope"} => batch = {}
        /\ phase = "run" =>
            /\ \A i \in Base..Depth : stack[i].dirty \subseteq batch
            /\ \A w \in batch : w.by = "handler" /\ \E i \in Base..Depth : w \in stack[i].dirty
        /\ kind = "outer" /\ phase \in {"host", "scope", "run"} => ByHandler(stack[2].dirty) = {}
        /\ phase = "after" =>
            ByHandler(stack[2].dirty) = IF reply = "committed" THEN batch ELSE {}

\* Handlers write on handles of the tenant that was resolved.
OfTenant(w) ==
    w.by = "handler" /\ w.table \in TenantTables =>
        w.tenant # NoTenant /\ tenant \in {w.tenant, NoTenant}
Scoped ==
    /\ phase = "run" => \A i \in Base..Depth : tenant \in {NoTenant, stack[i].scope}
    /\ \A i \in 2..Depth : \A w \in stack[i].dirty : OfTenant(w)
    /\ TenantsApart

IInv ==
    /\ TypeOK /\ Nesting /\ Tagged /\ Undone /\ Numbered /\ Gathered /\ Scoped
    /\ EmitsWhatCommitted /\ BatchIsAllOrNothing /\ ReportsItsOwnWrites

-----------------------------------------------------------------------------
(* What the operations do to the stack, tracker by tracker. *)

LEMMA DepthType == TypeOK => Depth \in Nat /\ Depth >= 1 /\ DOMAIN stack = 1..Depth
                            /\ \A i \in 1..Depth : stack[i] \in Frames
  BY DEF TypeOK, Depth

LEMMA TrackerType ==
  ASSUME NEW role \in {"request", "host", "batch", "handler"}, NEW scope \in Scopes
  PROVE  Tracker(role, scope) \in Frames
  BY DEF Tracker, Frames

\* A transaction is opened.
LEMMA Pushed ==
  ASSUME TypeOK, NEW f \in Frames, stack' = Append(stack, f)
  PROVE  /\ stack' \in Seq(Frames) /\ Depth' = Depth + 1
         /\ \A i \in 1..Depth : stack'[i] = stack[i]
         /\ stack'[Depth + 1] = f
  BY AppendProperties DEF TypeOK, Depth

LEMMA FrontProperties ==
  ASSUME NEW S, NEW seq \in Seq(S), Len(seq) >= 1
  PROVE  /\ Front(seq) \in Seq(S) /\ Len(Front(seq)) = Len(seq) - 1
         /\ \A i \in 1..Len(seq) - 1 : Front(seq)[i] = seq[i]
<1> DEFINE n == Len(seq) - 1
<1>1. n \in Int /\ n >= 0 /\ 1 \in Int /\ \A i \in 1..n : seq[i] \in S
  BY LenProperties, ElementOfSeq
<1> HIDE DEF n
<1>2. /\ SubSeq(seq, 1, n) \in Seq(S)
      /\ Len(SubSeq(seq, 1, n)) = IF 1 <= n THEN n - 1 + 1 ELSE 0
      /\ \A i \in 1..n - 1 + 1 : SubSeq(seq, 1, n)[i] = seq[1 + i - 1]
  BY <1>1, SubSeqProperties
<1>3. Len(SubSeq(seq, 1, n)) = n /\ \A i \in 1..n : SubSeq(seq, 1, n)[i] = seq[i]
  BY <1>1, <1>2
<1>4. QED
  BY <1>2, <1>3 DEF Front, n

\* A transaction is rolled back.
LEMMA Popped ==
  ASSUME TypeOK, Depth >= 2, RolledBack
  PROVE  /\ stack' \in Seq(Frames) /\ Depth' = Depth - 1
         /\ \A i \in 1..Depth - 1 : stack'[i] = stack[i]
  BY FrontProperties DEF TypeOK, Depth, RolledBack

\* A tracker with more writes and tags is a tracker.
LEMMA FrameGrows ==
  ASSUME NEW f \in Frames, NEW ws \in SUBSET Writes, NEW ts \in SUBSET (Tables \X Scopes)
  PROVE  [f EXCEPT !.dirty = @ \cup ws, !.tags = @ \cup ts] \in Frames
  BY DEF Frames

\* The innermost transaction commits.
LEMMA MergedInto ==
  ASSUME TypeOK, Depth >= 2, Merged
  PROVE  /\ stack' \in Seq(Frames) /\ Depth' = Depth - 1
         /\ \A i \in 1..Depth - 2 : stack'[i] = stack[i]
         /\ stack'[Depth - 1].role = stack[Depth - 1].role
         /\ stack'[Depth - 1].scope = stack[Depth - 1].scope
         /\ stack'[Depth - 1].tags = stack[Depth - 1].tags \cup stack[Depth].tags
         /\ stack'[Depth - 1].dirty =
                IF Depth = 2 THEN stack[1].dirty ELSE stack[Depth - 1].dirty \cup stack[Depth].dirty
         /\ durable' = IF Depth = 2 THEN durable \cup stack[2].dirty ELSE durable
<1> USE DepthType
<1>1. Top = stack[Depth] /\ Top \in Frames
  BY DEF Top, Last, Depth
<1>2. Top.dirty \in SUBSET Writes /\ Top.tags \in SUBSET (Tables \X Scopes)
  BY <1>1 DEF Frames
<1>3. CASE Depth = 2
  <2> DEFINE merged == [stack[1] EXCEPT !.tags = @ \cup Top.tags]
  <2>1. stack' = <<merged>> /\ durable' = durable \cup Top.dirty
    BY <1>3 DEF Merged, Native
  <2>2. merged \in Frames
    BY <1>2 DEF Frames
  <2>3. /\ merged.role = stack[1].role /\ merged.scope = stack[1].scope
        /\ merged.dirty = stack[1].dirty /\ merged.tags = stack[1].tags \cup Top.tags
    BY DEF Frames
  <2>4. stack' \in Seq(Frames) /\ Len(stack') = 1 /\ stack'[1] = merged
    BY <2>1, <2>2
  <2>5. Depth' = 1
    BY <2>4 DEF Depth
  <2> HIDE DEF merged
  <2>6. QED
    BY <1>1, <1>3, <2>1, <2>3, <2>4, <2>5
<1>4. CASE Depth # 2
  <2> DEFINE k == Depth - 1
             merged == [stack[k] EXCEPT !.dirty = @ \cup Top.dirty, !.tags = @ \cup Top.tags]
             front == Front(stack)
  <2>1. front \in Seq(Frames) /\ Len(front) = k /\ \A i \in 1..k : front[i] = stack[i]
    BY FrontProperties DEF TypeOK, Depth
  <2>2. k \in 1..Len(front) /\ front[k] = stack[k] /\ stack[k] \in Frames
    BY <2>1, <1>4
  <2>3. merged \in Frames
    BY <1>2, <2>2, FrameGrows
  <2>4. /\ stack' = [front EXCEPT ![Depth - 1].dirty = @ \cup Top.dirty,
                                  ![Depth - 1].tags = @ \cup Top.tags]
        /\ durable' = durable
    BY <1>4 DEF Merged, Native
  <2>5. stack' = [front EXCEPT ![k] = merged]
    BY <2>1, <2>2, <2>4 DEF Frames
  <2>6. /\ merged.role = stack[k].role /\ merged.scope = stack[k].scope
        /\ merged.dirty = stack[k].dirty \cup Top.dirty /\ merged.tags = stack[k].tags \cup Top.tags
    BY <2>2 DEF Frames
  <2> HIDE DEF merged, front
  <2>7. stack' \in Seq(Frames) /\ Len(stack') = k
        /\ \A i \in 1..k : stack'[i] = IF i = k THEN merged ELSE front[i]
    BY <2>1, <2>2, <2>3, <2>5, ExceptSeq
  <2>8. Depth' = Depth - 1
    BY <2>7 DEF Depth
  <2>9. QED
    BY <1>1, <1>4, <2>1, <2>2, <2>4, <2>6, <2>7, <2>8
<1>5. QED
  BY <1>3, <1>4

\* A statement is executed.
LEMMA ExecutedIn ==
  ASSUME TypeOK, NEW w \in Writes, Tag(w) \in Tables \X Scopes, Executed(w)
  PROVE  /\ stack' \in Seq(Frames) /\ Depth' = Depth
         /\ \A i \in 1..Depth - 1 : stack'[i] = stack[i]
         /\ stack'[Depth].role = stack[Depth].role
         /\ stack'[Depth].scope = stack[Depth].scope
         /\ stack'[Depth].tags = stack[Depth].tags \cup {Tag(w)}
         /\ stack'[Depth].dirty = IF Depth = 1 THEN stack[1].dirty ELSE stack[Depth].dirty \cup {w}
         /\ durable' = IF Depth = 1 THEN durable \cup {w} ELSE durable
<1> USE DepthType
<1> DEFINE ws == IF Depth = 1 THEN {} ELSE {w}
           grown == [stack[Depth] EXCEPT !.dirty = @ \cup ws, !.tags = @ \cup {Tag(w)}]
<1>1. stack[Depth] \in Frames /\ ws \in SUBSET Writes /\ {Tag(w)} \in SUBSET (Tables \X Scopes)
  OBVIOUS
<1>2. grown \in Frames
  BY <1>1, FrameGrows
<1>3. stack' = [stack EXCEPT ![Depth] = grown]
  <2>1. CASE Depth = 1
    <3>1. stack' = [stack EXCEPT ![1].tags = @ \cup {Tag(w)}]
      BY <2>1 DEF Executed, InTransaction
    <3>2. grown = [stack[1] EXCEPT !.tags = @ \cup {Tag(w)}]
      BY <1>1, <2>1 DEF Frames
    <3>3. QED
      BY <2>1, <3>1, <3>2
  <2>2. CASE Depth # 1
    <3> InTransaction
      BY <2>2 DEF InTransaction
    <3>1. stack' = [stack EXCEPT ![Depth].dirty = @ \cup {w}, ![Depth].tags = @ \cup {Tag(w)}]
      BY DEF Executed
    <3>2. grown = [stack[Depth] EXCEPT !.dirty = @ \cup {w}, !.tags = @ \cup {Tag(w)}]
      BY <2>2
    <3>3. Depth \in DOMAIN stack /\ stack[Depth] \in Frames
      BY <1>1
    <3> HIDE DEF grown
    <3>4. QED
      BY <3>1, <3>2, <3>3 DEF Frames
  <2>3. QED
    BY <2>1, <2>2
<1>4. /\ grown.role = stack[Depth].role /\ grown.scope = stack[Depth].scope
      /\ grown.dirty = stack[Depth].dirty \cup ws /\ grown.tags = stack[Depth].tags \cup {Tag(w)}
  BY <1>1 DEF Frames
<1>5. durable' = IF Depth = 1 THEN durable \cup {w} ELSE durable
  BY DEF Executed, InTransaction
<1> HIDE DEF grown
<1>6. stack' \in Seq(Frames) /\ Len(stack') = Depth
      /\ \A i \in 1..Depth : stack'[i] = IF i = Depth THEN grown ELSE stack[i]
  BY <1>2, <1>3, ExceptSeq DEF TypeOK, Depth
<1>7. Depth' = Depth
  BY <1>6 DEF Depth
<1>8. stack'[Depth] = grown /\ \A i \in 1..Depth - 1 : stack'[i] = stack[i]
  BY <1>6
<1>9. QED
  BY <1>4, <1>5, <1>6, <1>7, <1>8

-----------------------------------------------------------------------------
(* Tags and writes. *)

LEMMA TagType == \A w \in Writes : Tag(w) \in Tables \X Scopes
  BY DEF Writes, Tag, Scopes

LEMMA TagsOfUnion ==
  /\ Tags({}) = {}
  /\ \A ws, w : Tags(ws \cup {w}) = Tags(ws) \cup {Tag(w)}
  /\ \A ws, vs : Tags(ws \cup vs) = Tags(ws) \cup Tags(vs)
  /\ \A ws, vs : ws \subseteq vs => Tags(ws) \subseteq Tags(vs)
  BY DEF Tags

LEMMA InitIInv == Init => IInv
<1> SUFFICES ASSUME Init PROVE IInv
  OBVIOUS
<1>1. Tracker("request", NoTenant) \in Frames
  BY TrackerType DEF Scopes
<1>2. /\ stack = <<Tracker("request", NoTenant)>> /\ stack \in Seq(Frames)
      /\ Depth = 1 /\ stack[1] = Tracker("request", NoTenant)
  BY <1>1 DEF Init, Depth
<1>3. stack[1].role = "request" /\ stack[1].dirty = {} /\ stack[1].tags = {}
  BY <1>2 DEF Tracker
<1>4. queue \in Seq(Paths)
  <2>1. \A n \in Nat : [1..n -> Paths] \subseteq Seq(Paths)
    BY SeqDef
  <2>2. 1 \in Nat /\ 1..MaxCommands \subseteq Nat
    OBVIOUS
  <2>3. CASE kind = "call"
    BY <2>1, <2>2, <2>3 DEF Init
  <2>4. CASE kind # "call"
    <3>1. PICK n \in 1..MaxCommands : queue \in [1..n -> Paths]
      BY <2>4 DEF Init
    <3>2. QED
      BY <2>1, <2>2, <3>1
  <2>5. QED
    BY <2>3, <2>4
<1>5. TypeOK
  <2>1. /\ swaps \in 0..MaxSwaps /\ written \in 0..MaxWrites /\ durable = {} /\ batch = {}
        /\ emitted = {} /\ reported = {} /\ running = "none" /\ throwing = FALSE /\ ackLost = FALSE
    BY DEF Init
  <2>2. /\ kind \in Kinds /\ phase = "start" /\ tenant \in Scopes /\ registry \in [Paths -> Types]
        /\ reply = "none"
    BY DEF Init
  <2>3. stack \in Seq(Frames) /\ Depth >= 1
    BY <1>2
  <2>4. QED
    BY <1>4, <2>1, <2>2, <2>3 DEF TypeOK
<1>6. Nesting
  <2>1. kind \in Kinds /\ phase = "start" /\ running = "none"
    BY DEF Init
  <2>2. \A i \in 2..Depth : FALSE
    BY <1>2
  <2>3. QED
    BY <1>2, <1>3, <2>1, <2>2 DEF Nesting
<1>7. Tagged
  <2>1. durable = {} /\ Tags(durable) = {}
    BY TagsOfUnion DEF Init
  <2>2. \A i \in 2..Depth : FALSE
    BY <1>2
  <2>3. QED
    BY <1>3, <2>1, <2>2 DEF Tagged
<1>8. Undone /\ Gathered /\ EmitsWhatCommitted /\ BatchIsAllOrNothing /\ ReportsItsOwnWrites
  BY <1>2 DEF Init, Undone, Gathered, EmitsWhatCommitted, BatchIsAllOrNothing, ReportsItsOwnWrites
<1>9. Numbered /\ Scoped
  BY <1>2, <1>3 DEF Init, Numbered, Scoped, TenantsApart
<1>10. QED
  BY <1>5, <1>6, <1>7, <1>8, <1>9 DEF IInv

-----------------------------------------------------------------------------
(* Steps that leave the trackers alone. *)

LEMMA ScanStep == IInv /\ Scan => IInv'
<1> SUFFICES ASSUME IInv, Scan PROVE IInv'
  OBVIOUS
<1> USE DEF IInv, request
<1>1. stack' = stack /\ Depth' = Depth
  BY DEF Scan, Depth
<1>2. TypeOK'
  BY <1>1 DEF Scan, TypeOK
<1>3. Nesting'
  BY <1>1 DEF Scan, Nesting, Base, RoleAt, Kinds, TypeOK
<1>4. Tagged' /\ Numbered'
  BY <1>1 DEF Scan, Tagged, Numbered
<1>5. Undone' /\ EmitsWhatCommitted' /\ ReportsItsOwnWrites'
  BY <1>1 DEF Scan, Undone, EmitsWhatCommitted, ReportsItsOwnWrites
<1>6. Gathered'
  BY <1>1 DEF Scan, Gathered, Base, Undone, ByHandler
<1>7. Scoped'
  BY <1>1 DEF Scan, Scoped, Base, TenantsApart, OfTenant
<1>8. BatchIsAllOrNothing'
  BY <1>1 DEF Scan, BatchIsAllOrNothing, Undone
<1>9. QED
  BY <1>2, <1>3, <1>4, <1>5, <1>6, <1>7, <1>8

LEMMA ReplaceStep == IInv /\ (\E p \in Paths : ReplaceFunction(p)) => IInv'
<1> SUFFICES ASSUME IInv, NEW p \in Paths, ReplaceFunction(p) PROVE IInv'
  OBVIOUS
<1> USE DEF IInv, request
<1>1. stack' = stack /\ Depth' = Depth
  BY DEF ReplaceFunction, Depth
<1>2. TypeOK'
  BY <1>1 DEF ReplaceFunction, TypeOK, Types
<1>3. QED
  BY <1>1, <1>2 DEF ReplaceFunction, Nesting, Base, RoleAt, Tagged, Undone, Numbered, Gathered,
     ByHandler, Scoped, OfTenant, TenantsApart, EmitsWhatCommitted, BatchIsAllOrNothing,
     ReportsItsOwnWrites

LEMMA DispatchStep == IInv /\ Dispatch => IInv'
<1> SUFFICES ASSUME IInv, Dispatch PROVE IInv'
  OBVIOUS
<1> USE DEF IInv, request
<1>1. stack' = stack /\ Depth' = Depth
  BY DEF Dispatch, Depth
<1>2. Head(queue) \in Paths /\ Tail(queue) \in Seq(Paths)
  BY DEF Dispatch, TypeOK
<1>3. TypeOK'
  BY <1>1, <1>2 DEF Dispatch, TypeOK, Types
<1>4. Nesting'
  BY <1>1, <1>2 DEF Dispatch, DispatchRefused, Nesting, Base, RoleAt
<1>5. QED
  BY <1>1, <1>3, <1>4 DEF Dispatch, Base, Tagged, Undone, Numbered, Gathered, ByHandler, Scoped,
     OfTenant, TenantsApart, EmitsWhatCommitted, BatchIsAllOrNothing, ReportsItsOwnWrites

\* Throwing, catching and returning change nothing the invariant speaks of.
LEMMA ControlStep == IInv /\ (Throw \/ HostCatches \/ HandlerReturns) => IInv'
<1> SUFFICES ASSUME IInv, Throw \/ HostCatches \/ HandlerReturns PROVE IInv'
  OBVIOUS
<1> USE DEF IInv, request, Throw, HostCatches, HandlerReturns
<1>1. stack' = stack /\ Depth' = Depth
  BY DEF Depth
<1>2. TypeOK'
  BY <1>1 DEF TypeOK
<1>3. Nesting'
  BY <1>1 DEF Nesting, Base, RoleAt
<1>4. QED
  BY <1>1, <1>2, <1>3 DEF Base, Tagged, Undone, Numbered, Gathered, ByHandler, Scoped, OfTenant,
     TenantsApart, EmitsWhatCommitted, BatchIsAllOrNothing, ReportsItsOwnWrites

\* The end of a call emits the tags of what is committed, since the request's
\* tracker has exactly those.
LEMMA CallEndsStep == IInv /\ CallEnds => IInv'
<1> SUFFICES ASSUME IInv, CallEnds PROVE IInv'
  OBVIOUS
<1> USE DEF IInv, request
<1>1. stack' = stack /\ Depth' = Depth /\ Depth = 1 /\ Top = stack[1]
  BY DEF CallEnds, Depth, Top, Last
<1>2. Top.tags \in SUBSET (Tables \X Scopes)
  BY <1>1, DepthType DEF Frames
<1>3. TypeOK'
  BY <1>1, <1>2 DEF CallEnds, TypeOK
<1>4. Nesting'
  BY <1>1 DEF CallEnds, Nesting, Base, RoleAt
<1>5. Tagged' /\ Numbered'
  BY <1>1 DEF CallEnds, Tagged, Numbered
<1>6. emitted = {} /\ emitted' = stack[1].tags
  BY <1>1 DEF CallEnds, Undone
<1>7. Undone' /\ EmitsWhatCommitted'
  BY <1>1, <1>6 DEF CallEnds, Undone, EmitsWhatCommitted, Tagged
<1>8. Gathered' /\ Scoped' /\ BatchIsAllOrNothing' /\ ReportsItsOwnWrites'
  BY <1>1 DEF CallEnds, Gathered, Scoped, TenantsApart, OfTenant, BatchIsAllOrNothing, ReportsItsOwnWrites
<1>9. QED
  BY <1>3, <1>4, <1>5, <1>7, <1>8

-----------------------------------------------------------------------------
(* Statements. *)

\* Handlers run, and the host does not, in the phase "run".
LEMMA Authors ==
  ASSUME IInv, Author # "nobody"
  PROVE  /\ Author \in {"handler", "host"}
         /\ Author = "handler" => phase = "run" /\ Depth >= Base
         /\ Author = "host" => phase \in {"host", "after"} /\ kind = "outer" /\ Depth = 2
         /\ kind # "call" => Depth >= 2
<1> USE DEF IInv
<1>1. Depth \in Nat /\ Base \in Nat /\ (kind # "call" => Base >= 2)
  BY DepthType DEF Base
<1>2. CASE running # "none"
  <2>1. Author = "handler" /\ phase = "run" /\ Depth >= Base
    BY <1>2 DEF Author, Nesting
  <2>2. QED
    BY <1>1, <2>1
<1>3. CASE running = "none"
  <2>1. Author = "host" /\ phase \in {"host", "after"}
    BY <1>3 DEF Author
  <2>2. kind = "outer" /\ Depth = 2
    BY <2>1 DEF Nesting, TypeOK, Kinds
  <2>3. QED
    BY <2>1, <2>2
<1>4. QED
  BY <1>2, <1>3

LEMMA WriteStep == IInv /\ (\E t \in Tables : Write(t)) => IInv'
<1> SUFFICES ASSUME IInv, NEW t \in Tables, Write(t) PROVE IInv'
  OBVIOUS
<1> USE DEF IInv, request
<1> DEFINE new == [n |-> written + 1, table |-> t, by |-> Author,
                   tenant |-> IF t \in TenantTables THEN Top.scope ELSE NoTenant]
<1>1. /\ Author # "nobody" /\ written < MaxWrites /\ written' = written + 1
      /\ UNCHANGED <<kind, phase, tenant, registry, swaps, queue, running, emitted, reported,
                     reply, ackLost>>
  BY DEF Write
<1>2. /\ Author \in {"handler", "host"}
      /\ Author = "handler" => phase = "run" /\ Depth >= Base
      /\ Author = "host" => phase \in {"host", "after"} /\ kind = "outer" /\ Depth = 2
      /\ kind # "call" => Depth >= 2
  BY <1>1, Authors
<1>3. Depth \in Nat /\ Depth >= 1 /\ Top = stack[Depth] /\ Top \in Frames /\ Top.scope \in Scopes
  BY DepthType DEF Top, Last, Depth, Frames
<1>4. written + 1 \in 1..MaxWrites /\ written \in Nat /\ MaxWrites \in Nat
  BY <1>1 DEF TypeOK
<1>5. PICK w \in Writes : /\ w = new
                          /\ w.n = written + 1 /\ w.by = Author /\ w.table = t
                          /\ w.tenant = IF t \in TenantTables THEN Top.scope ELSE NoTenant
  <2>1. new \in Writes
    BY <1>2, <1>3, <1>4 DEF Writes, Scopes
  <2>2. /\ new.n = written + 1 /\ new.by = Author /\ new.table = t
        /\ new.tenant = IF t \in TenantTables THEN Top.scope ELSE NoTenant
    OBVIOUS
  <2> HIDE DEF new
  <2>3. QED
    BY <2>1, <2>2
<1>6. Tag(w) \in Tables \X Scopes
  BY <1>5, TagType
<1> HIDE DEF new
<1>7. ASSUME throwing' = TRUE, UNCHANGED <<stack, durable, batch>>
      PROVE  IInv'
  <2>1. stack' = stack /\ Depth' = Depth
    BY <1>7 DEF Depth
  <2>2. TypeOK'
    BY <1>1, <1>4, <1>7, <2>1 DEF TypeOK
  <2>3. Numbered'
    <3>1. \A i \in 1..Depth : \A v \in stack[i].dirty : v.n \in Nat
      BY DepthType DEF Frames, Writes
    <3>2. QED
      BY <1>1, <1>4, <2>1, <3>1 DEF Numbered
  <2>4. QED
    BY <1>1, <1>7, <2>1, <2>2, <2>3 DEF Nesting, Base, RoleAt, Tagged, Undone, Gathered,
       ByHandler, Scoped, OfTenant, TenantsApart, EmitsWhatCommitted, BatchIsAllOrNothing,
       ReportsItsOwnWrites
<1>8. ASSUME ~WriteRefused(t, FALSE), Executed(w), UNCHANGED throwing,
             batch' = IF Author = "handler" THEN batch \cup {w} ELSE batch
      PROVE  IInv'
  <2>1. /\ stack' \in Seq(Frames) /\ Depth' = Depth
        /\ \A i \in 1..Depth - 1 : stack'[i] = stack[i]
        /\ stack'[Depth].role = stack[Depth].role
        /\ stack'[Depth].scope = stack[Depth].scope
        /\ stack'[Depth].tags = stack[Depth].tags \cup {Tag(w)}
        /\ stack'[Depth].dirty = IF Depth = 1 THEN stack[1].dirty ELSE stack[Depth].dirty \cup {w}
        /\ durable' = IF Depth = 1 THEN durable \cup {w} ELSE durable
    BY <1>5, <1>6, <1>8, ExecutedIn
  <2>2. \A i \in 1..Depth :
            /\ stack'[i].role = stack[i].role /\ stack'[i].scope = stack[i].scope
            /\ stack'[i].dirty = IF i = Depth /\ i > 1 THEN stack[i].dirty \cup {w} ELSE stack[i].dirty
            /\ stack'[i].tags = IF i = Depth THEN stack[i].tags \cup {Tag(w)} ELSE stack[i].tags
    <3> TAKE i \in 1..Depth
    <3>1. CASE i = Depth
      BY <1>3, <2>1, <3>1
    <3>2. CASE i # Depth
      BY <1>3, <2>1, <3>2
    <3>3. QED
      BY <3>1, <3>2
  <2>3. \A i \in 1..Depth : \A v \in stack[i].dirty : v.n \in Nat /\ v.n <= written /\ v # w
    BY <1>4, <1>5, DepthType DEF Numbered, Frames, Writes
  <2>4. TypeOK'
    BY <1>1, <1>3, <1>4, <1>5, <1>8, <2>1 DEF TypeOK
  <2>5. Nesting'
    BY <1>1, <1>3, <2>1, <2>2 DEF Nesting, Base, RoleAt
  <2>6. Tagged'
    <3>1. \A i \in 2..Depth : stack'[i].tags = Tags(stack'[i].dirty)
      <4> TAKE i \in 2..Depth
      <4>1. i \in 1..Depth /\ i > 1 /\ stack[i].tags = Tags(stack[i].dirty)
        BY <1>3 DEF Tagged
      <4>2. Tags(stack[i].dirty \cup {w}) = Tags(stack[i].dirty) \cup {Tag(w)}
        BY TagsOfUnion
      <4>3. QED
        BY <2>2, <4>1, <4>2
    <3>2. CASE Depth = 1
      <4>1. durable' = durable \cup {w} /\ stack'[1].tags = stack[1].tags \cup {Tag(w)}
        BY <2>1, <3>2
      <4>2. Tags(durable') = Tags(durable) \cup {Tag(w)}
        BY <4>1, TagsOfUnion
      <4>3. QED
        BY <1>1, <2>1, <3>1, <4>1, <4>2 DEF Tagged
    <3>3. CASE Depth # 1
      <4>1. 1 \in 1..Depth /\ durable' = durable /\ stack'[1].tags = stack[1].tags
        BY <1>3, <2>1, <2>2, <3>3
      <4>2. QED
        BY <1>1, <2>1, <3>1, <4>1 DEF Tagged
    <3>4. QED
      BY <3>2, <3>3
  <2>7. Numbered'
    <3>1. \A i \in 1..Depth : \A v \in stack'[i].dirty : v.n <= written'
      <4> TAKE i \in 1..Depth
      <4> TAKE v \in stack'[i].dirty
      <4>1. v \in stack[i].dirty \/ v = w
        BY <2>2
      <4>2. QED
        BY <1>1, <1>4, <1>5, <2>3, <4>1
    <3>2. \A i, j \in 1..Depth : i # j => stack'[i].dirty \cap stack'[j].dirty = {}
      BY <2>2, <2>3 DEF Numbered
    <3>3. QED
      BY <2>1, <3>1, <3>2 DEF Numbered
  <2>8. Undone' /\ EmitsWhatCommitted'
    <3>1. durable \subseteq durable' /\ (durable' # durable => kind = "call" /\ phase # "start" /\ phase # "done")
      BY <1>2, <2>1
    <3>2. QED
      BY <1>1, <3>1, TagsOfUnion DEF Undone, EmitsWhatCommitted
  <2>9. OfTenant(w) /\ OfTenant(w)'
    <3>1. ASSUME Author = "handler" PROVE tenant \in {NoTenant, Top.scope}
      <4>1. phase = "run" /\ Depth \in Base..Depth
        BY <1>2, <1>3, <3>1 DEF Base
      <4>2. QED
        BY <1>3, <4>1 DEF Scoped
    <3>2. t \in TenantTables => Top.scope # NoTenant
      BY <1>8 DEF WriteRefused
    <3>3. QED
      BY <1>1, <1>5, <3>1, <3>2 DEF OfTenant
  <2>10. Scoped'
    <3>1. phase' = "run" => \A i \in Base'..Depth' : tenant' \in {NoTenant, stack'[i].scope}
      BY <1>1, <1>3, <2>1, <2>2 DEF Scoped, Base
    <3>2. \A i \in 2..Depth' : \A v \in stack'[i].dirty : OfTenant(v)'
      <4>1. \A i \in 2..Depth : \A v \in stack'[i].dirty : v = w \/ OfTenant(v)
        <5> TAKE i \in 2..Depth
        <5> TAKE v \in stack'[i].dirty
        <5>1. i \in 1..Depth
          BY <1>3
        <5>2. v \in stack[i].dirty \/ v = w
          BY <2>2, <5>1
        <5>3. QED
          BY <5>2 DEF Scoped
      <4>2. \A v : OfTenant(v)' <=> OfTenant(v)
        BY <1>1 DEF OfTenant
      <4>3. QED
        BY <2>1, <2>9, <4>1, <4>2
    <3>3. TenantsApart'
      BY <1>1, <2>1, <2>9 DEF Scoped, OfTenant, TenantsApart
    <3>4. QED
      BY <3>1, <3>2, <3>3 DEF Scoped
  <2>11. Gathered' /\ BatchIsAllOrNothing' /\ ReportsItsOwnWrites'
    <3>1. CASE kind = "call"
      <4>1. kind' = "call" /\ reply' = "none"
        BY <1>1, <1>2, <3>1 DEF Undone
      <4>2. QED
        BY <4>1 DEF Gathered, BatchIsAllOrNothing, ReportsItsOwnWrites
    <3>2. CASE kind # "call" /\ Author = "handler"
      <4>1. phase = "run" /\ phase' = "run" /\ Base' = Base /\ Base >= 2 /\ Depth \in Base..Depth
            /\ durable' = {} /\ reply' = "none" /\ batch' = batch \cup {w} /\ w.by = "handler"
        BY <1>1, <1>2, <1>3, <1>5, <1>8, <2>1, <3>2 DEF Base, Undone
      <4>2. \A i \in Base..Depth : stack'[i].dirty = IF i = Depth THEN stack[i].dirty \cup {w} ELSE stack[i].dirty
        <5> TAKE i \in Base..Depth
        <5>1. i \in 1..Depth /\ i > 1
          BY <1>3, <4>1 DEF Base
        <5>2. QED
          BY <2>2, <5>1
      <4>3. \A i \in Base..Depth : stack'[i].dirty \subseteq batch'
        BY <3>2, <4>1, <4>2 DEF Gathered
      <4>4. \A v \in batch' : v.by = "handler" /\ \E i \in Base..Depth : v \in stack'[i].dirty
        BY <3>2, <4>1, <4>2 DEF Gathered
      <4>5. kind = "outer" => Base = 3 /\ stack'[2].dirty = stack[2].dirty
        <5>1. kind = "outer" => Base = 3 /\ 2 \in 1..Depth /\ Depth # 2
          BY <1>3, <4>1 DEF Base
        <5>2. QED
          BY <2>2, <5>1
      <4>6. Gathered'
        BY <1>1, <2>1, <3>2, <4>1, <4>3, <4>4, <4>5 DEF Gathered, ByHandler
      <4>7. BatchIsAllOrNothing' /\ ReportsItsOwnWrites'
        BY <1>1, <4>1 DEF BatchIsAllOrNothing, ReportsItsOwnWrites
      <4>8. QED
        BY <4>6, <4>7
    <3>3. CASE kind # "call" /\ Author = "host"
      BY <1>1, <1>2, <1>3, <1>5, <1>8, <2>1, <2>2, <3>3
      DEF Gathered, Base, ByHandler, BatchIsAllOrNothing, ReportsItsOwnWrites, Undone
    <3>4. QED
      BY <1>2, <3>1, <3>2, <3>3
  <2>12. QED
    BY <2>4, <2>5, <2>6, <2>7, <2>8, <2>10, <2>11
<1>9. QED
  BY <1>5, <1>7, <1>8 DEF Write, new

-----------------------------------------------------------------------------
(* Trackers are opened. *)

LEMMA HostOpensStep == IInv /\ HostOpens => IInv'
<1> SUFFICES ASSUME IInv, HostOpens PROVE IInv'
  OBVIOUS
<1> USE DEF IInv, request
<1>1. PICK scope \in Scopes :
          stack' = <<Tracker("request", scope), Tracker("host", scope)>>
  BY DEF HostOpens
<1>2. Tracker("request", scope) \in Frames /\ Tracker("host", scope) \in Frames
  BY TrackerType
<1>3. /\ stack' \in Seq(Frames) /\ Len(stack') = 2
      /\ stack'[1] = Tracker("request", scope) /\ stack'[2] = Tracker("host", scope)
  BY <1>1, <1>2
<1>4. Depth' = 2
  BY <1>3 DEF Depth
<1>5. /\ stack'[1].role = "request" /\ stack'[1].dirty = {} /\ stack'[1].tags = {}
      /\ stack'[2].role = "host" /\ stack'[2].dirty = {} /\ stack'[2].tags = {}
  BY <1>3 DEF Tracker
<1>6. /\ kind = "outer" /\ phase = "start" /\ phase' = "host" /\ kind' = kind
      /\ durable = {} /\ durable' = {} /\ ~ackLost' /\ batch = {} /\ batch' = {} /\ reply' = "none"
      /\ emitted' = {} /\ running' = "none"
      /\ UNCHANGED <<tenant, registry, swaps, queue, throwing, written, reported, ackLost>>
  BY DEF HostOpens, Undone, Gathered, Nesting
<1>7. 1..Depth' = {1, 2} /\ 2..Depth' = {2}
  BY <1>4
<1>8. TypeOK'
  BY <1>3, <1>4, <1>6 DEF TypeOK
<1>9. Nesting'
  <2>1. RoleAt(2)' = "host"
    BY <1>6 DEF RoleAt, Base
  <2>2. \A i \in 2..Depth' : stack'[i].role = RoleAt(i)'
    BY <1>5, <1>7, <2>1
  <2>3. QED
    BY <1>4, <1>5, <1>6, <2>2 DEF Nesting
<1>10. Tagged'
  BY <1>5, <1>6, <1>7, TagsOfUnion DEF Tagged
<1>11. Numbered' /\ Scoped'
  BY <1>5, <1>6, <1>7 DEF Numbered, Scoped, TenantsApart
<1>12. Undone' /\ Gathered' /\ EmitsWhatCommitted' /\ BatchIsAllOrNothing' /\ ReportsItsOwnWrites'
  BY <1>5, <1>6 DEF Undone, Gathered, ByHandler, EmitsWhatCommitted, BatchIsAllOrNothing, ReportsItsOwnWrites
<1>13. QED
  BY <1>8, <1>9, <1>10, <1>11, <1>12

LEMMA HandlerOpensStep == IInv /\ HandlerOpens => IInv'
<1> SUFFICES ASSUME IInv, HandlerOpens PROVE IInv'
  OBVIOUS
<1> USE DEF IInv, request
<1>1. Depth \in Nat /\ Depth >= 1 /\ Top = stack[Depth] /\ Top \in Frames /\ Top.scope \in Scopes
  BY DepthType DEF Top, Last, Depth, Frames
<1>2. PICK f \in Frames : /\ stack' = Append(stack, f) /\ f.role = "handler"
                          /\ f.scope = stack[Depth].scope /\ f.dirty = {} /\ f.tags = {}
  <2>1. Tracker("handler", Top.scope) \in Frames
    BY <1>1, TrackerType
  <2>2. QED
    BY <1>1, <2>1 DEF HandlerOpens, Tracker
<1>3. /\ stack' \in Seq(Frames) /\ Depth' = Depth + 1
      /\ \A i \in 1..Depth : stack'[i] = stack[i]
      /\ stack'[Depth + 1] = f
  BY <1>2, Pushed
<1>4. /\ running # "none" /\ phase = "run" /\ Depth >= Base /\ Base \in 1..3
      /\ UNCHANGED <<kind, phase, tenant, registry, swaps, queue, running, throwing, written,
                     durable, emitted, reported, reply, ackLost, batch>>
  BY DEF HandlerOpens, Nesting, Base
<1>5. Base' = Base /\ \A i : RoleAt(i)' = RoleAt(i)
  BY <1>4 DEF RoleAt, Base
<1>6. \A i \in 1..Depth' : i \in 1..Depth \/ i = Depth + 1
  BY <1>1, <1>3
<1>7. TypeOK'
  BY <1>1, <1>3, <1>4 DEF TypeOK
<1>8. Nesting'
  <2>1. \A i \in 2..Depth' : stack'[i].role = RoleAt(i)
    <3> TAKE i \in 2..Depth'
    <3>1. CASE i = Depth + 1
      <4>1. i > Base
        BY <1>1, <1>4, <3>1
      <4>2. QED
        BY <1>2, <1>3, <3>1, <4>1 DEF RoleAt
    <3>2. CASE i # Depth + 1
      <4>1. i \in 2..Depth /\ i \in 1..Depth
        BY <1>1, <1>3, <3>2
      <4>2. QED
        BY <1>3, <4>1 DEF Nesting
    <3>3. QED
      BY <3>1, <3>2
  <2>2. stack'[1] = stack[1] /\ Depth' >= Base
    BY <1>1, <1>3, <1>4
  <2>3. QED
    BY <1>4, <1>5, <2>1, <2>2 DEF Nesting
<1>9. Tagged'
  <2>1. \A i \in 2..Depth' : (i \in 2..Depth /\ i \in 1..Depth) \/ i = Depth + 1
    BY <1>1, <1>3
  <2>2. \A i \in 2..Depth' : stack'[i].tags = Tags(stack'[i].dirty)
    BY <1>2, <1>3, <2>1, TagsOfUnion DEF Tagged
  <2>3. stack'[1] = stack[1]
    BY <1>1, <1>3
  <2>4. QED
    BY <1>4, <2>2, <2>3 DEF Tagged
<1>10. Numbered'
  BY <1>2, <1>3, <1>4, <1>6 DEF Numbered
<1>11. Scoped'
  <2>1. \A i \in Base..Depth' : tenant \in {NoTenant, stack'[i].scope}
    <3>1. \A i \in Base..Depth' : (i \in Base..Depth /\ i \in 1..Depth) \/ i = Depth + 1
      BY <1>1, <1>3, <1>4
    <3>2. Depth \in Base..Depth
      BY <1>1, <1>4
    <3>3. \A i \in Base..Depth : tenant \in {NoTenant, stack[i].scope}
      BY <1>4 DEF Scoped
    <3>4. QED
      BY <1>2, <1>3, <3>1, <3>2, <3>3
  <2>2. \A w : OfTenant(w)' <=> OfTenant(w)
    BY <1>4 DEF OfTenant
  <2>3. \A i \in 2..Depth' : \A w \in stack'[i].dirty : OfTenant(w)'
    <3>1. \A i \in 2..Depth' : (i \in 2..Depth /\ i \in 1..Depth) \/ i = Depth + 1
      BY <1>1, <1>3
    <3>2. QED
      BY <1>2, <1>3, <2>2, <3>1 DEF Scoped
  <2>4. QED
    BY <1>4, <1>5, <2>1, <2>3 DEF Scoped, TenantsApart
<1>12. Gathered'
  <2>1. CASE kind = "call"
    BY <1>4, <2>1 DEF Gathered
  <2>2. CASE kind # "call"
    <3>1. \A i \in Base..Depth' : (i \in Base..Depth /\ i \in 1..Depth) \/ i = Depth + 1
      BY <1>1, <1>3, <1>4
    <3>2. \A i \in Base..Depth : i \in 1..Depth /\ i \in Base..Depth'
      BY <1>1, <1>3, <1>4
    <3>3. \A i \in Base..Depth' : stack'[i].dirty \subseteq batch
      BY <1>2, <1>3, <1>4, <2>2, <3>1 DEF Gathered
    <3>4. \A w \in batch : w.by = "handler" /\ \E i \in Base..Depth' : w \in stack'[i].dirty
      BY <1>3, <1>4, <2>2, <3>2 DEF Gathered
    <3>5. kind = "outer" => stack'[2] = stack[2]
      <4>1. kind = "outer" => 2 \in 1..Depth
        BY <1>1, <1>4 DEF Base
      <4>2. QED
        BY <1>3, <4>1
    <3>6. QED
      BY <1>4, <1>5, <2>2, <3>3, <3>4, <3>5 DEF Gathered, ByHandler
  <2>3. QED
    BY <2>1, <2>2
<1>13. Undone' /\ EmitsWhatCommitted' /\ BatchIsAllOrNothing' /\ ReportsItsOwnWrites'
  BY <1>4 DEF Undone, EmitsWhatCommitted, BatchIsAllOrNothing, ReportsItsOwnWrites
<1>14. QED
  BY <1>7, <1>8, <1>9, <1>10, <1>11, <1>12, <1>13

\* A handle is bound to a tenant.
LEMMA ScopeBound ==
  ASSUME TypeOK, NEW scope \in Scopes
  PROVE  LET bound == [stack EXCEPT ![Depth].scope = scope]
         IN  /\ bound \in Seq(Frames) /\ Len(bound) = Depth
             /\ bound[Depth].scope = scope
             /\ \A i \in 1..Depth : /\ bound[i].role = stack[i].role
                                    /\ bound[i].dirty = stack[i].dirty
                                    /\ bound[i].tags = stack[i].tags
<1> USE DepthType
<1> DEFINE bound == [stack EXCEPT ![Depth].scope = scope]
           frame == [stack[Depth] EXCEPT !.scope = scope]
<1>1. stack[Depth] \in Frames /\ Depth \in 1..Len(stack) /\ stack \in Seq(Frames) /\ Len(stack) = Depth
  BY DEF TypeOK, Depth
<1>2. frame \in Frames
  BY <1>1 DEF Frames
<1>3. /\ frame.scope = scope /\ frame.role = stack[Depth].role
      /\ frame.dirty = stack[Depth].dirty /\ frame.tags = stack[Depth].tags
  BY <1>1 DEF Frames
<1>4. bound = [stack EXCEPT ![Depth] = frame]
  BY <1>1
<1> HIDE DEF frame, bound
<1>5. bound \in Seq(Frames) /\ Len(bound) = Depth
      /\ \A i \in 1..Depth : bound[i] = IF i = Depth THEN frame ELSE stack[i]
  BY <1>1, <1>2, <1>4, ExceptSeq
<1>6. QED
  BY <1>1, <1>3, <1>5 DEF bound

LEMMA ResolveScopeStep == IInv /\ ResolveScope => IInv'
<1> SUFFICES ASSUME IInv, ResolveScope PROVE IInv'
  OBVIOUS
<1> USE DEF IInv, request
<1>1. Depth \in Nat /\ Depth >= 1 /\ Top = stack[Depth] /\ Top \in Frames /\ Top.scope \in Scopes
  BY DepthType DEF Top, Last, Depth, Frames
<1>2. /\ kind \in Kinds
      /\ kind = "call" => phase = "start" /\ Depth = 1
      /\ kind # "call" => phase = "scope" /\ Depth = IF kind = "outer" THEN 2 ELSE 1
      /\ running = "none" /\ reply = "none" /\ emitted = {} /\ durable = {} /\ ~ackLost
      /\ kind # "call" => batch = {}
      /\ UNCHANGED <<kind, tenant, registry, swaps, queue, running, written, durable, emitted,
                     reported, ackLost, batch>>
  BY DEF ResolveScope, Nesting, Undone, Gathered, TypeOK, Kinds
<1>3. Base' = Base /\ \A i : RoleAt(i)' = RoleAt(i)
  BY <1>2 DEF RoleAt, Base
<1>4. ASSUME reply' = "failed", throwing' = (kind = "outer"),
             phase' = IF kind = "outer" THEN "after" ELSE "done", UNCHANGED stack
      PROVE  IInv'
  <2>1. stack' = stack /\ Depth' = Depth
    BY <1>4 DEF Depth
  <2>2. TypeOK'
    BY <1>2, <1>4, <2>1 DEF TypeOK
  <2>3. Nesting'
    BY <1>2, <1>3, <1>4, <2>1 DEF Nesting, Kinds
  <2>4. Tagged' /\ Numbered' /\ Scoped'
    BY <1>2, <1>4, <2>1 DEF Tagged, Numbered, Scoped, TenantsApart, OfTenant
  <2>5. Gathered'
    BY <1>2, <1>4, <2>1 DEF Gathered, ByHandler
  <2>6. Undone' /\ EmitsWhatCommitted' /\ BatchIsAllOrNothing' /\ ReportsItsOwnWrites'
    BY <1>2, <1>4, TagsOfUnion DEF Undone, EmitsWhatCommitted, BatchIsAllOrNothing, ReportsItsOwnWrites
  <2>7. QED
    BY <2>2, <2>3, <2>4, <2>5, <2>6
<1>5. ASSUME NEW scope \in ScopeResolved(Top.scope), phase' = "run", UNCHANGED <<reply, throwing>>,
             stack' = LET bound == [stack EXCEPT ![Depth].scope = scope]
                      IN  CASE kind = "call"  -> bound
                            [] kind = "outer" -> Append(stack, Tracker("batch", scope))
                            [] OTHER          -> Append(bound, Tracker("batch", scope))
      PROVE  IInv'
  <2>1. scope \in Scopes /\ tenant \in {NoTenant, scope}
    BY <1>1, <1>5 DEF ScopeResolved, TypeOK
  <2>2. PICK f \in Frames : /\ f = Tracker("batch", scope)
                            /\ f.role = "batch" /\ f.scope = scope /\ f.dirty = {} /\ f.tags = {}
    BY <2>1, TrackerType DEF Tracker
  <2>3. PICK bound \in Seq(Frames) :
             /\ bound = [stack EXCEPT ![Depth].scope = scope]
             /\ Len(bound) = Depth /\ bound[Depth].scope = scope
             /\ \A i \in 1..Depth : /\ bound[i].role = stack[i].role
                                    /\ bound[i].dirty = stack[i].dirty
                                    /\ bound[i].tags = stack[i].tags
    BY <2>1, ScopeBound
  <2>4. /\ stack' \in Seq(Frames) /\ Len(stack') = Base
        /\ Base = IF kind = "call" THEN Depth ELSE Depth + 1
        /\ stack'[Base].scope = scope
        /\ kind # "call" => /\ stack'[Base].role = "batch"
                            /\ stack'[Base].dirty = {} /\ stack'[Base].tags = {}
        /\ \A i \in 1..Depth : /\ stack'[i].role = stack[i].role
                               /\ stack'[i].dirty = stack[i].dirty
                               /\ stack'[i].tags = stack[i].tags
    <3>1. CASE kind = "call"
      <4>1. stack' = bound /\ Base = 1 /\ Depth = 1
        BY <1>2, <1>5, <2>3, <3>1 DEF Base
      <4>2. QED
        BY <2>3, <3>1, <4>1
    <3>2. CASE kind # "call"
      <4>1. PICK under \in Seq(Frames) :
                 /\ stack' = Append(under, f) /\ Len(under) = Depth
                 /\ \A i \in 1..Depth : /\ under[i].role = stack[i].role
                                        /\ under[i].dirty = stack[i].dirty
                                        /\ under[i].tags = stack[i].tags
        <5>1. CASE kind = "outer"
          <6>1. stack' = Append(stack, f) /\ stack \in Seq(Frames) /\ Len(stack) = Depth
            BY <1>5, <2>2, <5>1 DEF TypeOK, Depth
          <6>2. QED
            BY <6>1
        <5>2. CASE kind # "outer"
          <6>1. stack' = Append(bound, f)
            BY <1>5, <2>2, <2>3, <3>2, <5>2
          <6>2. QED
            BY <2>3, <6>1
        <5>3. QED
          BY <5>1, <5>2
      <4>2. /\ stack' \in Seq(Frames) /\ Len(stack') = Depth + 1
            /\ stack'[Depth + 1] = f /\ \A i \in 1..Depth : stack'[i] = under[i]
        BY <2>2, <4>1, AppendProperties
      <4>3. Base = Depth + 1
        BY <1>2, <3>2 DEF Base
      <4>4. QED
        BY <2>2, <3>2, <4>1, <4>2, <4>3
    <3>3. QED
      BY <3>1, <3>2
  <2>5. Depth' = Base /\ Base \in 1..3
    BY <2>4 DEF Depth, Base
  <2>6. \A i \in 1..Depth' : i \in 1..Depth \/ (i = Base /\ i = Depth + 1 /\ kind # "call")
    BY <1>1, <2>4, <2>5
  <2>7. \A i \in 2..Depth' : i \in 1..Depth' /\ (i \in 1..Depth => i \in 2..Depth)
    OBVIOUS
  <2>8. TypeOK'
    BY <1>2, <1>5, <2>4, <2>5 DEF TypeOK
  <2>9. Nesting'
    <3>1. \A i \in 2..Depth' : stack'[i].role = RoleAt(i)
      <4> TAKE i \in 2..Depth'
      <4>1. CASE i \in 1..Depth
        <5>1. stack[i].role = RoleAt(i)
          BY <2>7, <4>1 DEF Nesting
        <5>2. QED
          BY <2>4, <4>1, <5>1
      <4>2. CASE i = Base /\ kind # "call"
        BY <2>4, <2>5, <4>2 DEF RoleAt
      <4>3. QED
        BY <2>6, <2>7, <4>1, <4>2
    <3>2. stack'[1].role = "request" /\ stack'[1].dirty = {}
      BY <1>1, <2>4 DEF Nesting
    <3>3. Depth' >= Base'
      BY <1>3, <2>5
    <3>4. QED
      BY <1>2, <1>3, <1>5, <3>1, <3>2, <3>3 DEF Nesting
  <2>10. Tagged'
    <3>1. \A i \in 2..Depth' : stack'[i].tags = Tags(stack'[i].dirty)
      <4> TAKE i \in 2..Depth'
      <4>1. CASE i \in 1..Depth
        <5>1. stack[i].tags = Tags(stack[i].dirty)
          BY <2>7, <4>1 DEF Tagged
        <5>2. QED
          BY <2>4, <4>1, <5>1
      <4>2. CASE i = Base /\ kind # "call"
        BY <2>4, <4>2, TagsOfUnion
      <4>3. QED
        BY <2>6, <2>7, <4>1, <4>2
    <3>2. stack'[1].tags = stack[1].tags
      BY <1>1, <2>4
    <3>3. QED
      BY <1>2, <3>1, <3>2 DEF Tagged
  <2>11. Numbered'
    <3>1. \A i \in 1..Depth' : stack'[i].dirty = IF i \in 1..Depth THEN stack[i].dirty ELSE {}
      BY <2>4, <2>6
    <3>2. QED
      BY <1>2, <3>1 DEF Numbered
  <2>12. Scoped'
    <3>1. \A i \in Base'..Depth' : i = Base
      BY <1>3, <2>5
    <3>2. \A i \in 2..Depth' : \A w \in stack'[i].dirty : OfTenant(w)
      <4> TAKE i \in 2..Depth'
      <4>1. CASE i \in 1..Depth
        BY <2>4, <2>7, <4>1 DEF Scoped
      <4>2. CASE i = Base /\ kind # "call"
        BY <2>4, <4>2
      <4>3. QED
        BY <2>6, <2>7, <4>1, <4>2
    <3>3. \A w : OfTenant(w)' <=> OfTenant(w)
      BY <1>2 DEF OfTenant
    <3>4. QED
      BY <1>2, <2>1, <2>4, <3>1, <3>2, <3>3 DEF Scoped, TenantsApart
  <2>13. Gathered'
    <3>1. CASE kind = "call"
      BY <1>2, <3>1 DEF Gathered
    <3>2. CASE kind # "call"
      <4>1. \A i \in Base'..Depth' : stack'[i].dirty = {}
        <5>1. \A i \in Base'..Depth' : i = Base
          BY <1>3, <2>5
        <5>2. QED
          BY <2>4, <3>2, <5>1
      <4>2. kind = "outer" => ByHandler(stack'[2].dirty) = {}
        <5>1. kind = "outer" => 2 \in 1..Depth /\ ByHandler(stack[2].dirty) = {}
          BY <1>2 DEF Gathered
        <5>2. QED
          BY <2>4, <5>1
      <4>3. QED
        BY <1>2, <1>5, <3>2, <4>1, <4>2 DEF Gathered, ByHandler
    <3>3. QED
      BY <3>1, <3>2
  <2>14. Undone' /\ EmitsWhatCommitted' /\ BatchIsAllOrNothing' /\ ReportsItsOwnWrites'
    BY <1>2, <1>5, TagsOfUnion DEF Undone, EmitsWhatCommitted, BatchIsAllOrNothing, ReportsItsOwnWrites
  <2>15. QED
    BY <2>8, <2>9, <2>10, <2>11, <2>12, <2>13, <2>14
<1>6. QED
  BY <1>4, <1>5 DEF ResolveScope

-----------------------------------------------------------------------------
(* Trackers are closed. *)

\* Where the innermost tracker's role says the request is.
LEMMA TopRoles ==
  ASSUME IInv
  PROVE  /\ Top = stack[Depth]
         /\ Top.role = "handler" => phase = "run" /\ Depth > Base
         /\ Top.role = "batch" => phase = "run" /\ Depth = Base /\ kind # "call"
         /\ Top.role = "host" => Depth = 2 /\ kind = "outer"
         /\ Depth \in Nat /\ Base \in 1..3
<1> USE DEF IInv
<1>1. Depth \in Nat /\ Depth >= 1 /\ Top = stack[Depth]
  BY DepthType DEF Top, Last, Depth
<1>2. /\ Base \in 1..3 /\ (kind = "call" <=> Base = 1) /\ (kind = "outer" <=> Base = 3)
  BY DEF Base
<1>3. CASE Depth = 1
  BY <1>1, <1>2, <1>3 DEF Nesting
<1>4. CASE Depth # 1
  <2>1. Top.role = RoleAt(Depth)
    <3>1. Depth \in 2..Depth
      BY <1>1, <1>4
    <3>2. QED
      BY <1>1, <3>1 DEF Nesting
  <2>2. phase \in {"scope", "host", "after"} => (kind = "outer" /\ Depth = 2) \/ Depth = 1
    BY DEF Nesting, TypeOK, Kinds
  <2>3. phase \notin {"start", "done"}
    BY <1>4 DEF Nesting
  <2>4. Depth >= Base => phase = "run"
    BY <1>2, <1>4, <2>2, <2>3 DEF TypeOK
  <2>5. QED
    BY <1>1, <1>2, <1>4, <2>1, <2>4 DEF RoleAt
<1>5. QED
  BY <1>3, <1>4

\* What is left of the stack is as well formed as it was.
LEMMA RolledBackParts ==
  ASSUME IInv, Depth >= 2, RolledBack, UNCHANGED <<kind, tenant, written>>
  PROVE  /\ stack' \in Seq(Frames) /\ Depth' = Depth - 1 /\ Depth' >= 1
         /\ stack'[1] = stack[1]
         /\ \A i \in 2..Depth' : stack'[i].role = RoleAt(i)'
         /\ \A i \in 2..Depth' : stack'[i].tags = Tags(stack'[i].dirty)
         /\ \A i \in 2..Depth' : \A w \in stack'[i].dirty : OfTenant(w)'
         /\ Numbered'
<1> USE DEF IInv
<1>1. Depth \in Nat
  BY DepthType
<1>2. /\ stack' \in Seq(Frames) /\ Depth' = Depth - 1
      /\ \A i \in 1..Depth - 1 : stack'[i] = stack[i]
  BY Popped
<1>3. /\ \A i \in 1..Depth' : i \in 1..Depth /\ stack'[i] = stack[i]
      /\ \A i \in 2..Depth' : i \in 2..Depth /\ i \in 1..Depth'
  BY <1>1, <1>2
<1>4. 1 \in 1..Depth' /\ Depth' >= 1
  BY <1>1, <1>2
<1>5. (\A i : RoleAt(i)' = RoleAt(i)) /\ (\A w : OfTenant(w)' <=> OfTenant(w))
  BY DEF RoleAt, Base, OfTenant
<1>6. \A i \in 2..Depth' : /\ stack'[i].role = RoleAt(i) /\ stack'[i].tags = Tags(stack'[i].dirty)
                           /\ \A w \in stack'[i].dirty : OfTenant(w)
  BY <1>3 DEF Nesting, Tagged, Scoped
<1>7. Numbered'
  BY <1>3 DEF Numbered
<1>8. QED
  BY <1>2, <1>3, <1>4, <1>5, <1>6, <1>7

\* And so it is when the transaction's writes and tags went to the one below.
LEMMA MergedParts ==
  ASSUME IInv, Depth >= 2, Merged, UNCHANGED <<kind, tenant, written, ackLost>>
  PROVE  /\ stack' \in Seq(Frames) /\ Depth' = Depth - 1 /\ Depth' >= 1
         /\ stack'[1].role = "request" /\ stack'[1].dirty = {}
         /\ \A i \in 2..Depth' : stack'[i].role = RoleAt(i)'
         /\ \A i \in 2..Depth' : \A w \in stack'[i].dirty : OfTenant(w)'
         /\ \A i \in 1..Depth' : stack'[i].scope = stack[i].scope
         /\ durable \subseteq durable' /\ durable' \subseteq Writes
         /\ Tagged' /\ Numbered' /\ TenantsApart'
<1> USE DEF IInv
<1>1. Depth \in Nat /\ \A i \in 1..Depth : stack[i] \in Frames
  BY DepthType
<1>2. /\ stack' \in Seq(Frames) /\ Depth' = Depth - 1
      /\ \A i \in 1..Depth - 2 : stack'[i] = stack[i]
      /\ stack'[Depth - 1].role = stack[Depth - 1].role
      /\ stack'[Depth - 1].scope = stack[Depth - 1].scope
      /\ stack'[Depth - 1].tags = stack[Depth - 1].tags \cup stack[Depth].tags
      /\ stack'[Depth - 1].dirty =
             IF Depth = 2 THEN stack[1].dirty ELSE stack[Depth - 1].dirty \cup stack[Depth].dirty
      /\ durable' = IF Depth = 2 THEN durable \cup stack[2].dirty ELSE durable
  BY MergedInto
<1>3. /\ \A i \in 1..Depth' : i \in 1..Depth /\ (i # Depth - 1 => i \in 1..Depth - 2)
      /\ \A i \in 2..Depth' : i \in 2..Depth /\ i \in 1..Depth' /\ (i = Depth - 1 => Depth # 2)
      /\ 1 \in 1..Depth' /\ Depth' >= 1 /\ Depth \in 1..Depth /\ Depth \in 2..Depth
  BY <1>1, <1>2
<1>4. \A i \in 1..Depth' :
          /\ stack'[i].role = stack[i].role /\ stack'[i].scope = stack[i].scope
          /\ i # Depth - 1 => stack'[i].tags = stack[i].tags /\ stack'[i].dirty = stack[i].dirty
  BY <1>2, <1>3
<1>5. /\ \A i : RoleAt(i)' = RoleAt(i)
      /\ \A w : OfTenant(w)' <=> OfTenant(w)
  BY DEF RoleAt, Base, OfTenant
<1>6. \A i \in 2..Depth' : stack'[i].role = RoleAt(i)
  BY <1>3, <1>4 DEF Nesting
<1>7. \A i \in 2..Depth' : \A w \in stack'[i].dirty : OfTenant(w)
  <2> TAKE i \in 2..Depth'
  <2>1. CASE i = Depth - 1
    <3>1. stack'[i].dirty = stack[i].dirty \cup stack[Depth].dirty
      BY <1>2, <1>3, <2>1
    <3>2. QED
      BY <1>3, <3>1 DEF Scoped
  <2>2. CASE i # Depth - 1
    BY <1>3, <1>4, <2>2 DEF Scoped
  <2>3. QED
    BY <2>1, <2>2
<1>8. stack'[1].role = "request" /\ stack'[1].dirty = {}
  <2>1. CASE Depth = 2
    BY <1>2, <2>1 DEF Nesting
  <2>2. CASE Depth # 2
    <3>1. 1 # Depth - 1
      BY <1>1, <2>2
    <3>2. QED
      BY <1>3, <1>4, <3>1 DEF Nesting
  <2>3. QED
    BY <2>1, <2>2
<1>9. durable \subseteq durable' /\ durable' \subseteq Writes
  BY <1>1, <1>2, <1>3 DEF TypeOK, Frames
<1>10. TenantsApart'
  <2>1. Depth = 2 => \A w \in stack[2].dirty : OfTenant(w)
    BY <1>3 DEF Scoped
  <2>2. \A w \in durable' : OfTenant(w)
    BY <1>2, <2>1 DEF Scoped, TenantsApart, OfTenant
  <2>3. QED
    BY <1>5, <2>2 DEF TenantsApart, OfTenant
<1>11. Tagged'
  <2>1. \A i \in 2..Depth' : stack'[i].tags = Tags(stack'[i].dirty)
    <3> TAKE i \in 2..Depth'
    <3>1. CASE i = Depth - 1
      <4>1. /\ stack'[i].dirty = stack[i].dirty \cup stack[Depth].dirty
            /\ stack'[i].tags = stack[i].tags \cup stack[Depth].tags
        BY <1>2, <1>3, <3>1
      <4>2. stack[i].tags = Tags(stack[i].dirty) /\ stack[Depth].tags = Tags(stack[Depth].dirty)
        BY <1>3 DEF Tagged
      <4>3. Tags(stack[i].dirty \cup stack[Depth].dirty) =
                Tags(stack[i].dirty) \cup Tags(stack[Depth].dirty)
        BY TagsOfUnion
      <4>4. QED
        BY <4>1, <4>2, <4>3
    <3>2. CASE i # Depth - 1
      BY <1>3, <1>4, <3>2 DEF Tagged
    <3>3. QED
      BY <3>1, <3>2
  <2>2. stack'[1].tags \subseteq Tags(durable') /\ (~ackLost' => stack'[1].tags = Tags(durable'))
    <3>1. CASE Depth = 2
      <4>1. /\ durable' = durable \cup stack[2].dirty
            /\ stack'[1].tags = stack[1].tags \cup stack[2].tags
            /\ stack[2].tags = Tags(stack[2].dirty)
        BY <1>2, <1>3, <3>1 DEF Tagged
      <4>2. Tags(durable \cup stack[2].dirty) = Tags(durable) \cup Tags(stack[2].dirty)
        BY TagsOfUnion
      <4>3. QED
        BY <4>1, <4>2 DEF Tagged
    <3>2. CASE Depth # 2
      <4>1. 1 # Depth - 1
        BY <1>1, <3>2
      <4>2. stack'[1].tags = stack[1].tags /\ durable' = durable
        BY <1>2, <1>3, <1>4, <3>2, <4>1
      <4>3. QED
        BY <4>2 DEF Tagged
    <3>3. QED
      BY <3>1, <3>2
  <2>3. QED
    BY <2>1, <2>2 DEF Tagged
<1>12. Numbered'
  <2>1. \A i \in 1..Depth' :
            stack'[i].dirty \subseteq stack[i].dirty \cup IF i = Depth - 1 THEN stack[Depth].dirty ELSE {}
    <3> TAKE i \in 1..Depth'
    <3>1. CASE i = Depth - 1
      BY <1>2, <3>1
    <3>2. CASE i # Depth - 1
      BY <1>4, <3>2
    <3>3. QED
      BY <3>1, <3>2
  <2>2. \A i \in 1..Depth' : \A w \in stack'[i].dirty : w.n <= written'
    BY <1>3, <2>1 DEF Numbered
  <2>3. \A i \in 1..Depth' : i # Depth
    BY <1>1, <1>2
  <2>4. \A i, j \in 1..Depth' : i # j => stack'[i].dirty \cap stack'[j].dirty = {}
    <3> TAKE i, j \in 1..Depth'
    <3> SUFFICES ASSUME i # j, NEW w \in stack'[i].dirty, w \in stack'[j].dirty PROVE FALSE
      OBVIOUS
    <3>1. w \in stack[i].dirty \/ (i = Depth - 1 /\ w \in stack[Depth].dirty)
      BY <2>1
    <3>2. w \in stack[j].dirty \/ (j = Depth - 1 /\ w \in stack[Depth].dirty)
      BY <2>1
    <3>3. i \in 1..Depth /\ j \in 1..Depth /\ Depth \in 1..Depth /\ i # Depth /\ j # Depth
      BY <1>3, <2>3
    <3>4. \A k, l \in 1..Depth : k # l => stack[k].dirty \cap stack[l].dirty = {}
      BY DEF Numbered
    <3>5. QED
      BY <3>1, <3>2, <3>3, <3>4
  <2>5. QED
    BY <2>2, <2>4 DEF Numbered
<1>13. QED
  BY <1>2, <1>3, <1>4, <1>5, <1>6, <1>7, <1>8, <1>9, <1>10, <1>11, <1>12

\* The writes of a transaction that is rolled back leave the batch: no other
\* transaction holds them.
LEMMA HandlerUnwindsStep == IInv /\ HandlerUnwinds => IInv'
<1> SUFFICES ASSUME IInv, HandlerUnwinds PROVE IInv'
  OBVIOUS
<1> USE DEF IInv, request
<1>1. /\ Top.role = "handler" /\ RolledBack /\ batch' = batch \ Top.dirty /\ throwing' \in BOOLEAN
      /\ UNCHANGED <<kind, phase, tenant, registry, swaps, queue, running, written, durable,
                     emitted, reported, reply, ackLost>>
  BY DEF HandlerUnwinds
<1>2. Top = stack[Depth] /\ phase = "run" /\ Depth > Base /\ Depth \in Nat /\ Base \in 1..3 /\ Depth >= 2
  BY <1>1, TopRoles
<1>3. /\ stack' \in Seq(Frames) /\ Depth' = Depth - 1 /\ Depth' >= 1
      /\ stack'[1] = stack[1]
      /\ \A i \in 2..Depth' : stack'[i].role = RoleAt(i)'
      /\ \A i \in 2..Depth' : stack'[i].tags = Tags(stack'[i].dirty)
      /\ \A i \in 2..Depth' : \A w \in stack'[i].dirty : OfTenant(w)'
      /\ Numbered'
  BY <1>1, <1>2, RolledBackParts
<1>4. \A i \in Base..Depth - 1 : i \in Base..Depth /\ stack'[i] = stack[i]
  <2>1. \A i \in Base..Depth - 1 : i \in Base..Depth /\ i \in 1..Depth - 1
    BY <1>2
  <2>2. QED
    BY <1>1, <1>2, <2>1, Popped
<1>5. Base' = Base /\ Depth' >= Base
  BY <1>1, <1>2, <1>3 DEF Base
<1>6. TypeOK'
  BY <1>1, <1>3 DEF TypeOK
<1>7. Nesting' /\ Tagged'
  BY <1>1, <1>2, <1>3, <1>5 DEF Nesting, Tagged
<1>8. Undone' /\ EmitsWhatCommitted'
  BY <1>1 DEF Undone, EmitsWhatCommitted
<1>9. Scoped'
  BY <1>1, <1>2, <1>3, <1>4, <1>5 DEF Scoped, TenantsApart
<1>10. Gathered' /\ BatchIsAllOrNothing' /\ ReportsItsOwnWrites'
  <2>1. CASE kind = "call"
    BY <1>1, <1>2, <2>1 DEF Gathered, BatchIsAllOrNothing, ReportsItsOwnWrites, Undone
  <2>2. CASE kind # "call"
    <3>1. durable' = {} /\ reply' = "none" /\ phase' = "run"
      BY <1>1, <1>2, <2>2 DEF Undone
    <3>2. \A i \in Base..Depth - 1 : stack'[i].dirty \subseteq batch'
      <4> TAKE i \in Base..Depth - 1
      <4>1. i \in 1..Depth /\ Depth \in 1..Depth /\ i # Depth
        BY <1>2
      <4>2. stack[i].dirty \cap stack[Depth].dirty = {}
        BY <4>1 DEF Numbered
      <4>3. stack[i].dirty \subseteq batch
        BY <1>2, <1>4, <2>2 DEF Gathered
      <4>4. QED
        BY <1>1, <1>2, <1>4, <4>2, <4>3
    <3>3. \A w \in batch' : w.by = "handler" /\ \E i \in Base..Depth - 1 : w \in stack'[i].dirty
      <4> TAKE w \in batch'
      <4>1. w \in batch /\ w \notin stack[Depth].dirty
        BY <1>1, <1>2
      <4>2. w.by = "handler" /\ \E i \in Base..Depth : w \in stack[i].dirty
        BY <1>2, <2>2, <4>1 DEF Gathered
      <4>3. PICK i \in Base..Depth : w \in stack[i].dirty
        BY <4>2
      <4>4. i # Depth
        BY <4>1, <4>3
      <4>5. i \in Base..Depth - 1
        BY <1>2, <4>4
      <4>6. QED
        BY <1>4, <4>2, <4>3, <4>5
    <3>4. kind = "outer" => ByHandler(stack'[2].dirty) = {}
      <4>1. kind = "outer" => 2 \in 1..Depth - 1
        BY <1>2 DEF Base
      <4>2. kind = "outer" => stack'[2] = stack[2]
        BY <1>1, <1>2, <4>1, Popped
      <4>3. QED
        BY <1>2, <4>2 DEF Gathered
    <3>5. Gathered'
      BY <1>1, <1>3, <1>5, <2>2, <3>1, <3>2, <3>3, <3>4 DEF Gathered, ByHandler
    <3>6. QED
      BY <1>1, <3>1, <3>5 DEF BatchIsAllOrNothing, ReportsItsOwnWrites
  <2>3. QED
    BY <2>1, <2>2
<1>11. QED
  BY <1>3, <1>6, <1>7, <1>8, <1>9, <1>10

\* Only the transaction of a call's handler is a native one.
LEMMA HandlerClosesStep == IInv /\ HandlerCloses => IInv'
<1> SUFFICES ASSUME IInv, HandlerCloses PROVE IInv'
  OBVIOUS
<1> USE DEF IInv, request
<1>1. /\ running # "none" /\ ~throwing /\ Top.role = "handler"
      /\ UNCHANGED <<kind, phase, tenant, registry, swaps, queue, running, written, emitted,
                     reported, reply>>
  BY DEF HandlerCloses
<1>2. Top = stack[Depth] /\ phase = "run" /\ Depth > Base /\ Depth \in Nat /\ Base \in 1..3 /\ Depth >= 2
  BY <1>1, TopRoles
<1>3. Depth - 1 >= Base /\ Base' = Base /\ (Depth = 2 => kind = "call")
  BY <1>1, <1>2 DEF Base
<1>4. reply' = "none" /\ emitted' = {}
  BY <1>1, <1>2 DEF Undone
<1>5. ASSUME Merged, UNCHANGED <<throwing, ackLost, batch>> PROVE IInv'
  <2>1. /\ stack' \in Seq(Frames) /\ Depth' = Depth - 1 /\ Depth' >= 1
        /\ stack'[1].role = "request" /\ stack'[1].dirty = {}
        /\ \A i \in 2..Depth' : stack'[i].role = RoleAt(i)'
        /\ \A i \in 2..Depth' : \A w \in stack'[i].dirty : OfTenant(w)'
        /\ \A i \in 1..Depth' : stack'[i].scope = stack[i].scope
        /\ durable \subseteq durable' /\ durable' \subseteq Writes
        /\ Tagged' /\ Numbered' /\ TenantsApart'
    BY <1>1, <1>2, <1>5, MergedParts
  <2>2. TypeOK'
    BY <1>1, <1>5, <2>1 DEF TypeOK
  <2>3. Nesting'
    BY <1>1, <1>2, <1>3, <2>1 DEF Nesting
  <2>4. Scoped'
    <3>1. \A i \in Base..Depth' : i \in Base..Depth /\ i \in 1..Depth'
      BY <1>2, <2>1
    <3>2. \A i \in Base..Depth' : tenant \in {NoTenant, stack'[i].scope}
      BY <1>2, <2>1, <3>1 DEF Scoped
    <3>3. QED
      BY <1>1, <1>3, <2>1, <3>2 DEF Scoped
  <2>5. durable' = IF Depth = 2 THEN durable \cup stack[2].dirty ELSE durable
    BY <1>2, <1>5, MergedInto
  <2>6. Undone' /\ EmitsWhatCommitted'
    BY <1>1, <1>2, <1>3, <1>4, <1>5, <2>5 DEF Undone, EmitsWhatCommitted
  <2>7. Gathered' /\ BatchIsAllOrNothing' /\ ReportsItsOwnWrites'
    <3>1. CASE kind = "call"
      BY <1>1, <1>4, <3>1 DEF Gathered, BatchIsAllOrNothing, ReportsItsOwnWrites
    <3>2. CASE kind # "call"
      <4>1. Depth # 2 /\ durable' = {} /\ batch' = batch /\ Base >= 2
        BY <1>2, <1>3, <1>5, <2>5, <3>2 DEF Undone, Base
      <4>2. /\ \A i \in 1..Depth - 2 : stack'[i] = stack[i]
            /\ stack'[Depth - 1].dirty = stack[Depth - 1].dirty \cup stack[Depth].dirty
        BY <1>2, <1>5, <4>1, MergedInto
      <4>3. Depth \in Base..Depth /\ Depth - 1 \in Base..Depth /\ Depth - 1 \in Base..Depth - 1
        BY <1>2, <1>3
      <4>4. \A i \in Base..Depth : /\ i = Depth \/ i = Depth - 1 \/ i \in 1..Depth - 2
                                   /\ i # Depth => i \in Base..Depth - 1
        BY <1>2
      <4>5. \A i \in Base..Depth - 1 : i \in Base..Depth
        BY <1>2
      <4>6. \A i \in Base..Depth - 1 : stack'[i].dirty \subseteq batch
        <5> TAKE i \in Base..Depth - 1
        <5>1. \A j \in Base..Depth : stack[j].dirty \subseteq batch
          BY <1>2, <3>2 DEF Gathered
        <5>2. CASE i = Depth - 1
          BY <4>2, <4>3, <5>1, <5>2
        <5>3. CASE i # Depth - 1
          <6>1. i \in Base..Depth /\ i \in 1..Depth - 2
            BY <1>2, <5>3
          <6>2. QED
            BY <4>2, <5>1, <6>1
        <5>4. QED
          BY <5>2, <5>3
      <4>7. \A w \in batch : w.by = "handler" /\ \E i \in Base..Depth - 1 : w \in stack'[i].dirty
        <5> TAKE w \in batch
        <5>1. w.by = "handler" /\ \E i \in Base..Depth : w \in stack[i].dirty
          BY <1>2, <3>2 DEF Gathered
        <5>2. PICK i \in Base..Depth : w \in stack[i].dirty
          BY <5>1
        <5>3. CASE i = Depth \/ i = Depth - 1
          BY <4>2, <4>3, <5>1, <5>2, <5>3
        <5>4. CASE i # Depth /\ i # Depth - 1
          BY <4>2, <4>4, <5>1, <5>2, <5>4
        <5>5. QED
          BY <5>3, <5>4
      <4>8. kind = "outer" => stack'[2] = stack[2]
        <5>1. kind = "outer" => 2 \in 1..Depth - 2
          BY <1>2 DEF Base
        <5>2. QED
          BY <4>2, <5>1
      <4>9. Gathered'
        BY <1>1, <1>2, <1>3, <2>1, <3>2, <4>1, <4>6, <4>7, <4>8 DEF Gathered, ByHandler
      <4>10. QED
        BY <1>1, <1>2, <1>4, <4>1, <4>9 DEF BatchIsAllOrNothing, ReportsItsOwnWrites
    <3>3. QED
      BY <3>1, <3>2
  <2>8. QED
    BY <2>1, <2>2, <2>3, <2>4, <2>6, <2>7
<1>6. ASSUME Native, throwing' = TRUE, RolledBack,
             \/ durable' = durable \cup Top.dirty /\ ackLost' = TRUE /\ UNCHANGED batch
             \/ batch' = batch \ Top.dirty /\ UNCHANGED <<durable, ackLost>>
      PROVE  IInv'
  <2>1. /\ stack' \in Seq(Frames) /\ Depth' = Depth - 1 /\ Depth' >= 1
        /\ stack'[1] = stack[1]
        /\ \A i \in 2..Depth' : stack'[i].role = RoleAt(i)'
        /\ \A i \in 2..Depth' : stack'[i].tags = Tags(stack'[i].dirty)
        /\ \A i \in 2..Depth' : \A w \in stack'[i].dirty : OfTenant(w)'
        /\ Numbered'
    BY <1>1, <1>2, <1>6, RolledBackParts
  <2>2. kind = "call" /\ kind' = "call" /\ Depth = 2 /\ Depth' = 1 /\ Base = 1
    BY <1>1, <1>3, <1>6, <2>1 DEF Native, Base
  <2>3. Top.dirty \subseteq Writes /\ \A w \in Top.dirty : OfTenant(w)
    <3>1. 2 \in 1..Depth /\ 2 \in 2..Depth
      BY <2>2
    <3>2. QED
      BY <1>2, <2>2, <3>1, DepthType DEF Frames, Scoped
  <2>4. durable \subseteq durable' /\ durable' \subseteq durable \cup Top.dirty /\ batch' \subseteq batch
        /\ ackLost' \in BOOLEAN /\ (~ackLost' => durable' = durable /\ ~ackLost)
    <3>1. CASE durable' = durable \cup Top.dirty /\ ackLost' = TRUE /\ UNCHANGED batch
      BY <3>1
    <3>2. CASE batch' = batch \ Top.dirty /\ UNCHANGED <<durable, ackLost>>
      <4>1. ackLost \in BOOLEAN
        BY DEF TypeOK
      <4>2. QED
        BY <3>2, <4>1
    <3>3. QED
      BY <1>6, <3>1, <3>2
  <2>5. TypeOK'
    BY <1>1, <1>6, <2>1, <2>3, <2>4 DEF TypeOK
  <2>6. Nesting'
    BY <1>1, <1>2, <1>3, <2>1, <2>2 DEF Nesting
  <2>7. Tagged'
    <3>1. Tags(durable) \subseteq Tags(durable')
      BY <2>4, TagsOfUnion
    <3>2. QED
      BY <2>1, <2>4, <3>1 DEF Tagged
  <2>8. Scoped'
    <3>1. \A i \in Base'..Depth' : i = 1
      BY <1>3, <2>2
    <3>2. tenant \in {NoTenant, stack[1].scope}
      <4>1. 1 \in Base..Depth
        BY <2>2
      <4>2. QED
        BY <1>2, <4>1 DEF Scoped
    <3>3. TenantsApart'
      <4>1. \A w \in durable' : OfTenant(w)
        BY <2>3, <2>4 DEF Scoped, TenantsApart, OfTenant
      <4>2. QED
        BY <1>1, <4>1 DEF TenantsApart, OfTenant
    <3>4. QED
      BY <1>1, <2>1, <3>1, <3>2, <3>3 DEF Scoped
  <2>9. Undone' /\ EmitsWhatCommitted' /\ Gathered' /\ BatchIsAllOrNothing' /\ ReportsItsOwnWrites'
    BY <1>1, <1>2, <1>4, <2>2 DEF Undone, EmitsWhatCommitted, Gathered, BatchIsAllOrNothing, ReportsItsOwnWrites
  <2>10. QED
    BY <2>1, <2>5, <2>6, <2>7, <2>8, <2>9
<1>7. QED
  BY <1>5, <1>6 DEF HandlerCloses

-----------------------------------------------------------------------------
(* The end of a batch. *)

\* What has been collected when all commands are applied: the one tracker of the
\* batch holds its writes, and nothing is committed.
LEMMA AllAppliedFacts ==
  ASSUME IInv, AllApplied
  PROVE  /\ Top = stack[Depth] /\ phase = "run" /\ Depth = Base /\ kind # "call" /\ Depth >= 2
         /\ Depth = 2 \/ (Depth = 3 /\ kind = "outer")
         /\ (kind = "outer") = (Depth = 3)
         /\ stack[Depth].dirty = batch /\ \A w \in batch : w.by = "handler"
         /\ Top.tags = Tags(batch) /\ Top.tags \in SUBSET (Tables \X Scopes)
         /\ durable = {} /\ stack[1].tags = {} /\ emitted = {} /\ ~ackLost /\ running = "none"
<1> USE DEF IInv
<1>1. Top.role = "batch" /\ phase = "run" /\ running = "none"
  BY DEF AllApplied
<1>2. Top = stack[Depth] /\ Depth = Base /\ kind # "call" /\ Depth \in Nat /\ Base \in 1..3
  BY <1>1, TopRoles
<1>3. (Depth = 2 \/ (Depth = 3 /\ kind = "outer")) /\ (kind = "outer") = (Depth = 3)
  BY <1>2 DEF Base
<1>4. Depth \in 2..Depth /\ Depth \in 1..Depth /\ Depth \in Base..Depth /\ \A i \in Base..Depth : i = Depth
  BY <1>2, <1>3
<1>5. stack[Depth].dirty = batch /\ \A w \in batch : w.by = "handler"
  <2>1. stack[Depth].dirty \subseteq batch
    BY <1>1, <1>2, <1>4 DEF Gathered
  <2>2. \A w \in batch : w.by = "handler" /\ w \in stack[Depth].dirty
    BY <1>1, <1>2, <1>4 DEF Gathered
  <2>3. QED
    BY <2>1, <2>2
<1>6. Top.tags = Tags(batch) /\ Top.tags \in SUBSET (Tables \X Scopes)
  BY <1>2, <1>4, <1>5, DepthType DEF Tagged, Frames
<1>7. durable = {} /\ emitted = {} /\ ~ackLost
  BY <1>1, <1>2 DEF Undone
<1>8. stack[1].tags = {}
  BY <1>7, TagsOfUnion DEF Tagged
<1>9. QED
  BY <1>1, <1>2, <1>3, <1>5, <1>6, <1>7, <1>8

LEMMA BatchCommitsStep == IInv /\ BatchCommits => IInv'
<1> SUFFICES ASSUME IInv, BatchCommits PROVE IInv'
  OBVIOUS
<1> USE DEF IInv, request
<1>1. /\ AllApplied /\ kind = "commit" /\ phase' = "done"
      /\ UNCHANGED <<kind, tenant, registry, swaps, queue, running, throwing, written, emitted>>
  BY DEF BatchCommits
<1>2. /\ Top = stack[Depth] /\ phase = "run" /\ Depth = 2
      /\ stack[2].dirty = batch /\ \A w \in batch : w.by = "handler"
      /\ Top.tags = Tags(batch) /\ Top.tags \in SUBSET (Tables \X Scopes)
      /\ durable = {} /\ stack[1].tags = {} /\ emitted = {} /\ ~ackLost /\ running = "none"
  BY <1>1, AllAppliedFacts
<1>3. batch \subseteq Writes /\ \A w \in batch : OfTenant(w)
  <2>1. 2 \in 1..Depth /\ 2 \in 2..Depth
    BY <1>2
  <2>2. QED
    BY <1>2, <2>1 DEF Scoped, TypeOK
<1>4. ASSUME Merged, reply' = "committed", reported' = Last(stack').tags, UNCHANGED <<ackLost, batch>>
      PROVE  IInv'
  <2>1. /\ stack' \in Seq(Frames) /\ Depth' = 1
        /\ stack'[1].role = "request" /\ stack'[1].dirty = {}
        /\ Tagged' /\ Numbered' /\ TenantsApart'
    BY <1>1, <1>2, <1>4, MergedParts
  <2>2. durable' = batch /\ stack'[1].tags = Tags(batch)
    <3>1. Depth = 2 /\ Depth >= 2 /\ Depth - 1 = 1
      BY <1>2
    <3>2. /\ stack'[Depth - 1].tags = stack[Depth - 1].tags \cup stack[Depth].tags
          /\ durable' = IF Depth = 2 THEN durable \cup stack[2].dirty ELSE durable
      BY <1>4, <3>1, MergedInto
    <3>3. QED
      BY <1>2, <3>1, <3>2
  <2>3. reported' = Tags(batch)
    <3>1. Last(stack') = stack'[1]
      BY <2>1 DEF Last, Depth
    <3>2. QED
      BY <1>4, <2>2, <3>1
  <2>4. TypeOK'
    BY <1>1, <1>2, <1>3, <1>4, <2>1, <2>2, <2>3 DEF TypeOK
  <2>5. Nesting'
    BY <1>1, <1>2, <2>1 DEF Nesting
  <2>6. Undone' /\ EmitsWhatCommitted' /\ Gathered' /\ ReportsItsOwnWrites'
    BY <1>1, <1>2, <1>4, <2>3 DEF Undone, EmitsWhatCommitted, Gathered, ReportsItsOwnWrites
  <2>7. BatchIsAllOrNothing'
    <3>1. {w \in durable' : w.by = "handler"} = batch'
      BY <1>2, <1>4, <2>2
    <3>2. QED
      BY <1>1, <1>4, <3>1 DEF BatchIsAllOrNothing
  <2>8. Scoped'
    BY <1>1, <2>1 DEF Scoped
  <2>9. QED
    BY <2>1, <2>4, <2>5, <2>6, <2>7, <2>8
<1>5. ASSUME reply' = "failed", RolledBack, UNCHANGED <<reported, batch>>,
             \/ durable' = durable \cup Top.dirty /\ ackLost' = TRUE
             \/ UNCHANGED <<durable, ackLost>>
      PROVE  IInv'
  <2>1. /\ stack' \in Seq(Frames) /\ Depth' = 1 /\ stack'[1] = stack[1] /\ Numbered'
    BY <1>1, <1>2, <1>5, RolledBackParts
  <2>2. /\ durable' \in {{}, batch} /\ ackLost' \in BOOLEAN
        /\ ~ackLost' => durable' = {}
    BY <1>2, <1>5 DEF TypeOK
  <2>3. TypeOK'
    BY <1>1, <1>2, <1>3, <1>5, <2>1, <2>2 DEF TypeOK
  <2>4. Nesting'
    BY <1>1, <1>2, <2>1 DEF Nesting
  <2>5. Undone' /\ EmitsWhatCommitted' /\ Gathered' /\ ReportsItsOwnWrites'
    BY <1>1, <1>2, <1>5 DEF Undone, EmitsWhatCommitted, Gathered, ReportsItsOwnWrites
  <2>6. Tagged'
    <3>1. \A i \in 2..Depth' : FALSE
      BY <2>1
    <3>2. stack'[1].tags = {} /\ Tags({}) = {}
      BY <1>2, <2>1, TagsOfUnion
    <3>3. QED
      BY <2>2, <3>1, <3>2 DEF Tagged
  <2>7. BatchIsAllOrNothing'
    <3>1. /\ {w \in durable' : w.by = "handler"} \in {{}, batch'}
          /\ ~ackLost' => {w \in durable' : w.by = "handler"} = {}
      BY <1>2, <1>5, <2>2
    <3>2. QED
      BY <1>1, <1>5, <3>1 DEF BatchIsAllOrNothing
  <2>8. Scoped'
    <3>1. TenantsApart'
      <4>1. \A w \in durable' : OfTenant(w)
        BY <1>3, <2>2
      <4>2. QED
        BY <1>1, <4>1 DEF TenantsApart, OfTenant
    <3>2. QED
      BY <1>1, <2>1, <3>1 DEF Scoped
  <2>9. QED
    BY <2>1, <2>3, <2>4, <2>5, <2>6, <2>7, <2>8
<1>6. QED
  BY <1>4, <1>5 DEF BatchCommits

LEMMA PreviewEndsStep == IInv /\ PreviewEnds => IInv'
<1> SUFFICES ASSUME IInv, PreviewEnds PROVE IInv'
  OBVIOUS
<1> USE DEF IInv, request
<1>1. /\ AllApplied /\ kind = "preview" /\ phase' = "done" /\ RolledBack /\ reply' = "previewed"
      /\ reported' = Top.tags
      /\ UNCHANGED <<kind, tenant, registry, swaps, queue, running, throwing, written, durable,
                     emitted, ackLost, batch>>
  BY DEF PreviewEnds, SavepointTags
<1>2. /\ phase = "run" /\ Depth = 2 /\ Top.tags = Tags(batch) /\ Top.tags \in SUBSET (Tables \X Scopes)
      /\ durable = {} /\ emitted = {} /\ running = "none"
  BY <1>1, AllAppliedFacts
<1>3. stack' \in Seq(Frames) /\ Depth' = 1 /\ stack'[1] = stack[1] /\ Numbered'
  BY <1>1, <1>2, RolledBackParts
<1>4. TypeOK'
  BY <1>1, <1>2, <1>3 DEF TypeOK
<1>5. Nesting' /\ Tagged'
  BY <1>1, <1>2, <1>3 DEF Nesting, Tagged
<1>6. Undone' /\ EmitsWhatCommitted' /\ Gathered' /\ ReportsItsOwnWrites' /\ BatchIsAllOrNothing'
  BY <1>1, <1>2 DEF Undone, EmitsWhatCommitted, Gathered, ReportsItsOwnWrites, BatchIsAllOrNothing
<1>7. Scoped'
  BY <1>1, <1>2, <1>3 DEF Scoped, TenantsApart
<1>8. QED
  BY <1>3, <1>4, <1>5, <1>6, <1>7

LEMMA BatchJoinsStep == IInv /\ BatchJoins => IInv'
<1> SUFFICES ASSUME IInv, BatchJoins PROVE IInv'
  OBVIOUS
<1> USE DEF IInv, request
<1>1. /\ AllApplied /\ kind = "outer" /\ phase' = "after" /\ Merged /\ reply' = "committed"
      /\ reported' = Top.tags
      /\ UNCHANGED <<kind, tenant, registry, swaps, queue, running, throwing, written, emitted,
                     ackLost, batch>>
  BY DEF BatchJoins, SavepointTags
<1>2. /\ phase = "run" /\ Depth = 3 /\ Top.tags = Tags(batch) /\ Top.tags \in SUBSET (Tables \X Scopes)
      /\ stack[3].dirty = batch /\ \A w \in batch : w.by = "handler"
      /\ durable = {} /\ emitted = {} /\ ~ackLost /\ running = "none"
  BY <1>1, AllAppliedFacts
<1>3. /\ stack' \in Seq(Frames) /\ Depth' = 2
      /\ stack'[1].role = "request" /\ stack'[1].dirty = {}
      /\ \A i \in 2..Depth' : stack'[i].role = RoleAt(i)'
      /\ \A i \in 2..Depth' : \A w \in stack'[i].dirty : OfTenant(w)'
      /\ Tagged' /\ Numbered' /\ TenantsApart'
  BY <1>1, <1>2, MergedParts
<1>4. durable' = {} /\ stack'[2].dirty = stack[2].dirty \cup batch
  BY <1>1, <1>2, MergedInto
<1>5. TypeOK'
  BY <1>1, <1>2, <1>3, <1>4 DEF TypeOK
<1>6. Nesting'
  BY <1>1, <1>2, <1>3 DEF Nesting
<1>7. Undone' /\ EmitsWhatCommitted' /\ ReportsItsOwnWrites' /\ BatchIsAllOrNothing'
  BY <1>1, <1>2, <1>4 DEF Undone, EmitsWhatCommitted, ReportsItsOwnWrites, BatchIsAllOrNothing
<1>8. Gathered'
  <2>1. ByHandler(stack[2].dirty) = {}
    BY <1>1, <1>2 DEF Gathered
  <2>2. ByHandler(stack[2].dirty \cup batch) = batch
    BY <1>2, <2>1 DEF ByHandler
  <2>3. QED
    BY <1>1, <1>4, <2>2 DEF Gathered, ByHandler
<1>9. Scoped'
  BY <1>1, <1>3 DEF Scoped
<1>10. QED
  BY <1>3, <1>5, <1>6, <1>7, <1>8, <1>9

LEMMA BatchFailsStep == IInv /\ BatchFails => IInv'
<1> SUFFICES ASSUME IInv, BatchFails PROVE IInv'
  OBVIOUS
<1> USE DEF IInv, request
<1>1. /\ Top.role = "batch" /\ RolledBack /\ reply' = "failed" /\ running' = "none"
      /\ phase' = (IF kind = "outer" THEN "after" ELSE "done") /\ throwing' = (kind = "outer")
      /\ UNCHANGED <<kind, tenant, registry, swaps, queue, written, durable, emitted, reported,
                     ackLost, batch>>
  BY DEF BatchFails
<1>2. /\ phase = "run" /\ kind # "call" /\ Depth = IF kind = "outer" THEN 3 ELSE 2
      /\ durable = {} /\ emitted = {} /\ ~ackLost
  BY <1>1, TopRoles DEF Base, Undone
<1>3. /\ stack' \in Seq(Frames) /\ Depth' = (IF kind = "outer" THEN 2 ELSE 1) /\ stack'[1] = stack[1]
      /\ \A i \in 2..Depth' : stack'[i].role = RoleAt(i)'
      /\ \A i \in 2..Depth' : stack'[i].tags = Tags(stack'[i].dirty)
      /\ \A i \in 2..Depth' : \A w \in stack'[i].dirty : OfTenant(w)'
      /\ Numbered'
  BY <1>1, <1>2, RolledBackParts
<1>4. TypeOK'
  BY <1>1, <1>2, <1>3 DEF TypeOK
<1>5. Nesting'
  BY <1>1, <1>2, <1>3 DEF Nesting, TypeOK, Kinds
<1>6. Tagged' /\ Scoped'
  BY <1>1, <1>2, <1>3 DEF Tagged, Scoped, TenantsApart
<1>7. Undone' /\ EmitsWhatCommitted' /\ ReportsItsOwnWrites' /\ BatchIsAllOrNothing'
  BY <1>1, <1>2 DEF Undone, EmitsWhatCommitted, ReportsItsOwnWrites, BatchIsAllOrNothing
<1>8. Gathered'
  <2>1. CASE kind = "outer"
    <3>1. 2 \in 1..Depth - 1
      BY <1>2, <2>1
    <3>2. stack'[2] = stack[2]
      BY <1>1, <1>2, <2>1, <3>1, Popped
    <3>3. ByHandler(stack[2].dirty) = {}
      BY <1>2, <2>1 DEF Gathered
    <3>4. QED
      BY <1>1, <2>1, <3>2, <3>3 DEF Gathered, ByHandler
  <2>2. CASE kind # "outer"
    BY <1>1, <2>2 DEF Gathered
  <2>3. QED
    BY <2>1, <2>2
<1>9. QED
  BY <1>3, <1>4, <1>5, <1>6, <1>7, <1>8

\* The host's transaction commits what it got from the batch, with its own writes.
LEMMA HostEndsStep == IInv /\ HostEnds => IInv'
<1> SUFFICES ASSUME IInv, HostEnds PROVE IInv'
  OBVIOUS
<1> USE DEF IInv, request
<1>1. /\ Top.role = "host" /\ phase \in {"host", "after"} /\ phase' = "done" /\ throwing' = FALSE
      /\ UNCHANGED <<kind, tenant, registry, swaps, queue, running, written, emitted, reported,
                     ackLost, batch>>
  BY DEF HostEnds
<1>2. /\ Top = stack[Depth] /\ kind = "outer" /\ Depth = 2 /\ running = "none"
      /\ durable = {} /\ emitted = {} /\ ~ackLost
  BY <1>1, TopRoles DEF Undone, Nesting
<1>3. ASSUME phase = "after", Merged, UNCHANGED reply PROVE IInv'
  <2>1. /\ stack' \in Seq(Frames) /\ Depth' = 1
        /\ stack'[1].role = "request" /\ stack'[1].dirty = {}
        /\ durable' \subseteq Writes
        /\ Tagged' /\ Numbered' /\ TenantsApart'
    BY <1>1, <1>2, <1>3, MergedParts
  <2>2. durable' = stack[2].dirty
    BY <1>2, <1>3, MergedInto
  <2>3. TypeOK'
    <3>1. TypeOK /\ Depth' >= 1
      BY <2>1
    <3>2. QED
      BY <1>1, <1>3, <2>1, <3>1 DEF TypeOK
  <2>4. Nesting'
    BY <1>1, <1>2, <2>1 DEF Nesting
  <2>5. Undone' /\ EmitsWhatCommitted' /\ Gathered' /\ ReportsItsOwnWrites'
    BY <1>1, <1>2, <1>3 DEF Undone, EmitsWhatCommitted, Gathered, ReportsItsOwnWrites
  <2>6. BatchIsAllOrNothing'
    <3>1. ByHandler(stack[2].dirty) = IF reply = "committed" THEN batch ELSE {}
      BY <1>2, <1>3 DEF Gathered
    <3>2. {w \in durable' : w.by = "handler"} = IF reply' = "committed" THEN batch' ELSE {}
      BY <1>1, <1>3, <2>2, <3>1 DEF ByHandler
    <3>3. QED
      BY <1>1, <3>2 DEF BatchIsAllOrNothing
  <2>7. Scoped'
    BY <1>1, <2>1 DEF Scoped
  <2>8. QED
    BY <2>1, <2>3, <2>4, <2>5, <2>6, <2>7
<1>4. ASSUME RolledBack, reply' = "failed", UNCHANGED durable PROVE IInv'
  <2>1. stack' \in Seq(Frames) /\ Depth' = 1 /\ stack'[1] = stack[1] /\ Numbered'
    BY <1>1, <1>2, <1>4, RolledBackParts
  <2>2. TypeOK'
    <3>1. TypeOK /\ Depth' >= 1
      BY <2>1
    <3>2. QED
      BY <1>1, <1>4, <2>1, <3>1 DEF TypeOK
  <2>3. Nesting' /\ Tagged' /\ Scoped'
    BY <1>1, <1>2, <1>4, <2>1 DEF Nesting, Tagged, Scoped, TenantsApart
  <2>4. Undone' /\ EmitsWhatCommitted' /\ Gathered' /\ ReportsItsOwnWrites' /\ BatchIsAllOrNothing'
    BY <1>1, <1>2, <1>4 DEF Undone, EmitsWhatCommitted, Gathered, ReportsItsOwnWrites, BatchIsAllOrNothing
  <2>5. QED
    BY <2>1, <2>2, <2>3, <2>4
<1>5. QED
  BY <1>1, <1>3, <1>4 DEF HostEnds

-----------------------------------------------------------------------------
(* The theorems. *)

LEMMA StepIInv == IInv /\ [Next]_vars => IInv'
<1> SUFFICES ASSUME IInv, [Next]_vars PROVE IInv'
  OBVIOUS
<1>1. CASE UNCHANGED vars
  <2>1. /\ UNCHANGED <<kind, phase, tenant, registry, swaps, queue, running, stack, throwing>>
        /\ UNCHANGED <<written, durable, emitted, reported, reply, ackLost, batch>>
    BY <1>1 DEF vars, request
  <2>2. Depth' = Depth
    BY <2>1 DEF Depth
  <2>3. TypeOK' /\ Nesting' /\ Tagged'
    BY <2>1, <2>2 DEF IInv, TypeOK, Nesting, Base, RoleAt, Tagged
  <2>4. Undone' /\ Numbered' /\ Gathered'
    BY <2>1, <2>2 DEF IInv, Undone, Numbered, Gathered, ByHandler, Base, RoleAt
  <2>5. Scoped'
    BY <2>1, <2>2 DEF IInv, Scoped, OfTenant, TenantsApart, Base, RoleAt
  <2>6. EmitsWhatCommitted' /\ BatchIsAllOrNothing' /\ ReportsItsOwnWrites'
    BY <2>1, <2>2 DEF IInv, EmitsWhatCommitted, BatchIsAllOrNothing, ReportsItsOwnWrites,
       ByHandler, Base, RoleAt
  <2>7. QED
    BY <2>3, <2>4, <2>5, <2>6 DEF IInv
<1>2. CASE HostOpens \/ Scan \/ ResolveScope \/ (\E p \in Paths : ReplaceFunction(p))
  BY <1>2, HostOpensStep, ScanStep, ResolveScopeStep, ReplaceStep
<1>3. CASE Dispatch \/ (\E t \in Tables : Write(t)) \/ HandlerOpens \/ HandlerCloses
  BY <1>3, DispatchStep, WriteStep, HandlerOpensStep, HandlerClosesStep
<1>4. CASE Throw \/ HandlerUnwinds \/ HandlerReturns \/ CallEnds
  BY <1>4, ControlStep, HandlerUnwindsStep, CallEndsStep
<1>5. CASE BatchCommits \/ BatchJoins \/ PreviewEnds \/ BatchFails \/ HostCatches \/ HostEnds
  BY <1>5, BatchCommitsStep, BatchJoinsStep, PreviewEndsStep, BatchFailsStep, ControlStep, HostEndsStep
<1>6. QED
  BY <1>1, <1>2, <1>3, <1>4, <1>5 DEF Next

LEMMA Invariance == Spec => []IInv
<1>1. IInv /\ [Next]_vars => IInv'
  BY StepIInv
<1>2. QED
  BY InitIInv, <1>1, PTL DEF Spec

\* Every variable holds a value of its type, and the request's own tracker is
\* never closed.
THEOREM TypeCorrect == Spec => []TypeOK
<1>1. IInv => TypeOK
  BY DEF IInv
<1>2. QED
  BY <1>1, Invariance, PTL

\* A call emits the tags of what it committed and of nothing else, however its
\* handler nested, caught and threw (`createApp`'s `finally`, over the tag sets
\* `createDrizzleTracker` merges).
THEOREM CallsEmitWhatTheyCommit == Spec => []EmitsWhatCommitted
<1>1. IInv => EmitsWhatCommitted
  BY DEF IInv
<1>2. QED
  BY <1>1, Invariance, PTL

\* A batch of any length is committed as a whole or not at all, alone, inside a
\* host's transaction, or as a preview (`executeCommands`).
THEOREM BatchesAreAtomic == Spec => []BatchIsAllOrNothing
<1>1. IInv => BatchIsAllOrNothing
  BY DEF IInv
<1>2. QED
  BY <1>1, Invariance, PTL

\* What a batch, or its preview, reports as written is what its commands wrote
\* and no handler rolled back (`applyCommands`, `previewCommands`).
THEOREM BatchesReportTheirWrites == Spec => []ReportsItsOwnWrites
<1>1. IInv => ReportsItsOwnWrites
  BY DEF IInv
<1>2. QED
  BY <1>1, Invariance, PTL

\* No handler of an action runs under a transaction opened for a batch, although
\* the registry may change between the scan of the commands and their dispatch.
THEOREM ActionsStayOutOfBatches == Spec => []NoActionInBatch
<1>1. IInv => NoActionInBatch
  <2> SUFFICES ASSUME IInv, running = "action", NEW i \in DOMAIN stack PROVE stack[i].role # "batch"
    BY DEF NoActionInBatch
  <2>1. DOMAIN stack = 1..Depth /\ Depth \in Nat
    BY DepthType DEF IInv
  <2>2. kind = "call" /\ Base = 1
    BY DEF IInv, Nesting, Base
  <2>3. CASE i = 1
    BY <2>3 DEF IInv, Nesting
  <2>4. CASE i # 1
    <3>1. i \in 2..Depth /\ i > Base
      BY <2>1, <2>2, <2>4
    <3>2. QED
      BY <3>1 DEF IInv, Nesting, RoleAt
  <2>5. QED
    BY <2>3, <2>4
<1>2. QED
  BY <1>1, Invariance, PTL

\* What a call writes is written by its handler: no host is around it.
AllByHandler(ws) == \A w \in ws : w.by = "handler"
HandlersWrite ==
    kind = "call" => AllByHandler(durable) /\ \A i \in 1..Depth : AllByHandler(stack[i].dirty)

\* A tag of a tenant's table, when it is emitted, names the tenant of the request.
TagsApart ==
    \A tag \in emitted : tag[1] \in TenantTables =>
        tag[2] # NoTenant /\ tenant \in {tag[2], NoTenant}

LEMMA InitHandlersWrite == Init => HandlersWrite
<1> SUFFICES ASSUME Init PROVE HandlersWrite
  OBVIOUS
<1>1. Len(stack) = 1 /\ stack[1].dirty = {} /\ durable = {}
  BY DEF Init, Tracker
<1>2. QED
  BY <1>1 DEF HandlersWrite, AllByHandler, Depth

LEMMA StepHandlersWrite == IInv /\ HandlersWrite /\ [Next]_vars => HandlersWrite'
<1> SUFFICES ASSUME IInv, HandlersWrite, [Next]_vars, kind' = "call" PROVE HandlersWrite'
  BY DEF HandlersWrite
<1>1. kind = "call"
  BY DEF Next, vars, request, HostOpens, Scan, ResolveScope, ReplaceFunction, Dispatch, Write,
     HandlerOpens, HandlerCloses, Throw, HandlerUnwinds, HandlerReturns, CallEnds, BatchCommits,
     BatchJoins, PreviewEnds, BatchFails, HostCatches, HostEnds
<1>2. TypeOK /\ Depth \in Nat /\ Depth >= 1 /\ Top = stack[Depth]
  BY DepthType, TopRoles DEF IInv
<1>3. AllByHandler(durable) /\ \A i \in 1..Depth : AllByHandler(stack[i].dirty)
  BY <1>1 DEF HandlersWrite
<1>4. Base = 1 /\ phase \in {"start", "run", "done"}
  BY <1>1 DEF Base, IInv, Nesting
<1>5. CASE UNCHANGED <<stack, durable>>
  <2>1. Depth' = Depth
    BY <1>5 DEF Depth
  <2>2. QED
    BY <1>3, <1>5, <2>1 DEF HandlersWrite
<1>6. CASE ResolveScope
  <2>1. durable' = durable
    BY <1>6 DEF ResolveScope
  <2>2. CASE UNCHANGED stack
    BY <1>5, <2>1, <2>2
  <2>3. CASE \E scope \in ScopeResolved(Top.scope) :
                 stack' = [stack EXCEPT ![Depth].scope = scope]
    <3>1. ScopeResolved(Top.scope) \subseteq Scopes
      <4>1. Top \in Frames
        BY <1>2, DepthType
      <4>2. Top.scope \in Scopes /\ tenant \in Scopes
        BY <1>2, <4>1 DEF Frames, TypeOK
      <4>3. QED
        BY <4>2 DEF ScopeResolved
    <3>2. PICK scope \in Scopes : stack' = [stack EXCEPT ![Depth].scope = scope]
      BY <2>3, <3>1
    <3>3. Len(stack') = Depth /\ \A i \in 1..Depth : stack'[i].dirty = stack[i].dirty
      BY <1>2, <3>2, ScopeBound
    <3>4. Depth' = Depth
      BY <3>3 DEF Depth
    <3>5. QED
      BY <1>3, <2>1, <3>3, <3>4 DEF HandlersWrite
  <2>4. QED
    BY <1>1, <1>6, <2>2, <2>3 DEF ResolveScope
<1>7. CASE \E t \in Tables : Write(t)
  <2> PICK t \in Tables : Write(t)
    BY <1>7
  <2> DEFINE w == [n |-> written + 1, table |-> t, by |-> Author,
                   tenant |-> IF t \in TenantTables THEN Top.scope ELSE NoTenant]
  <2>1. CASE UNCHANGED <<stack, durable>>
    BY <1>5, <2>1
  <2>2. CASE Executed(w)
    <3>1. Author = "handler"
      BY <1>1, Authors DEF Write
    <3>2. w \in Writes
      <4>1. Top \in Frames
        BY <1>2, DepthType
      <4>2. Top.scope \in Scopes /\ NoTenant \in Scopes
        BY <4>1 DEF Frames, Scopes
      <4>3. written + 1 \in 1..MaxWrites
        BY <1>2 DEF Write, TypeOK
      <4>4. QED
        BY <3>1, <4>2, <4>3 DEF Writes
    <3>3. w.by = "handler"
      BY <3>1
    <3> HIDE DEF w
    <3>4. /\ Depth' = Depth
          /\ \A i \in 1..Depth - 1 : stack'[i] = stack[i]
          /\ stack'[Depth].dirty = IF Depth = 1 THEN stack[1].dirty ELSE stack[Depth].dirty \cup {w}
          /\ durable' = IF Depth = 1 THEN durable \cup {w} ELSE durable
      BY <1>2, <2>2, <3>2, TagType, ExecutedIn
    <3>5. AllByHandler(durable')
      BY <1>3, <3>3, <3>4 DEF AllByHandler
    <3>6. \A i \in 1..Depth : AllByHandler(stack'[i].dirty)
      <4> TAKE i \in 1..Depth
      <4>1. CASE i \in 1..Depth - 1
        BY <1>3, <3>4, <4>1
      <4>2. CASE i = Depth
        BY <1>2, <1>3, <3>3, <3>4, <4>2 DEF AllByHandler
      <4>3. QED
        BY <1>2, <4>1, <4>2
    <3>7. QED
      BY <3>4, <3>5, <3>6 DEF HandlersWrite
  <2>3. QED
    BY <2>1, <2>2 DEF Write
<1>8. CASE HandlerOpens
  <2>1. PICK f \in Frames : stack' = Append(stack, f) /\ f.dirty = {}
    <3>1. Top.scope \in Scopes
      <4>1. Top \in Frames
        BY <1>2, DepthType
      <4>2. QED
        BY <4>1 DEF Frames
    <3>2. QED
      BY <1>8, <3>1, TrackerType DEF HandlerOpens, Tracker
  <2>2. /\ Depth' = Depth + 1 /\ stack'[Depth + 1] = f
        /\ \A i \in 1..Depth : stack'[i] = stack[i]
    BY <1>2, <2>1, Pushed
  <2>3. AllByHandler(stack'[Depth + 1].dirty)
    BY <2>1, <2>2 DEF AllByHandler
  <2>4. \A i \in 1..Depth' : i \in 1..Depth \/ i = Depth + 1
    BY <1>2, <2>2
  <2>5. durable' = durable
    BY <1>8 DEF HandlerOpens
  <2>6. QED
    BY <1>3, <2>2, <2>3, <2>4, <2>5 DEF HandlersWrite
<1>9. CASE HandlerCloses \/ HandlerUnwinds
  <2>1. Depth >= 2 /\ Top.role = "handler"
    BY <1>2, <1>4, <1>9, TopRoles DEF HandlerCloses, HandlerUnwinds
  <2>2. AllByHandler(Top.dirty)
    BY <1>2, <1>3
  <2>3. CASE RolledBack /\ durable' \in {durable, durable \cup Top.dirty}
    <3>1. Depth' = Depth - 1 /\ \A i \in 1..Depth - 1 : stack'[i] = stack[i]
      BY <1>2, <2>1, <2>3, Popped
    <3>2. AllByHandler(durable')
      BY <1>3, <2>2, <2>3 DEF AllByHandler
    <3>3. \A i \in 1..Depth - 1 : i \in 1..Depth
      BY <1>2
    <3>4. QED
      BY <1>3, <3>1, <3>2, <3>3 DEF HandlersWrite
  <2>4. CASE Merged
    <3>1. /\ Depth' = Depth - 1
          /\ \A i \in 1..Depth - 2 : stack'[i] = stack[i]
          /\ stack'[Depth - 1].dirty =
                IF Depth = 2 THEN stack[1].dirty ELSE stack[Depth - 1].dirty \cup stack[Depth].dirty
          /\ durable' = IF Depth = 2 THEN durable \cup stack[2].dirty ELSE durable
      BY <1>2, <2>1, <2>4, MergedInto
    <3>2. 1 \in 1..Depth /\ 2 \in 1..Depth /\ Depth - 1 \in 1..Depth
      BY <1>2, <2>1
    <3>3. AllByHandler(durable')
      BY <1>3, <3>1, <3>2 DEF AllByHandler
    <3>4. AllByHandler(stack'[Depth - 1].dirty)
      BY <1>2, <1>3, <2>2, <3>1, <3>2 DEF AllByHandler
    <3>5. \A i \in 1..Depth - 1 : (i \in 1..Depth - 2 /\ i \in 1..Depth) \/ i = Depth - 1
      BY <1>2
    <3>6. \A i \in 1..Depth - 1 : AllByHandler(stack'[i].dirty)
      BY <1>3, <3>1, <3>4, <3>5
    <3>7. QED
      BY <3>1, <3>3, <3>6 DEF HandlersWrite
  <2>5. QED
    BY <1>9, <2>3, <2>4 DEF HandlerCloses, HandlerUnwinds
<1>10. ~(HostOpens \/ Scan \/ HandlerReturns \/ BatchCommits \/ BatchJoins \/ PreviewEnds
         \/ BatchFails \/ HostCatches \/ HostEnds)
  BY <1>1, <1>4, TopRoles DEF HostOpens, Scan, HandlerReturns, BatchCommits, BatchJoins,
     PreviewEnds, BatchFails, HostCatches, HostEnds
<1>11. CASE UNCHANGED vars \/ (\E p \in Paths : ReplaceFunction(p)) \/ Dispatch \/ Throw \/ CallEnds
  BY <1>5, <1>11 DEF vars, ReplaceFunction, Dispatch, Throw, CallEnds
<1>12. QED
  BY <1>6, <1>7, <1>8, <1>9, <1>10, <1>11 DEF Next

\* Whatever handle a batch was given, its handlers write to a tenant's table for
\* the tenant the host resolved, and for no other; and a tag of such a table that
\* a call emits is of that tenant (`scopeTracked`, `withTenant`, the tags of
\* `createDrizzleTracker` and `createApp`'s `finally`).
THEOREM TenantsStayApart == Spec => [](TenantsApart /\ TagsApart)
<1>1. IInv => TenantsApart
  BY DEF IInv, Scoped
<1>2. IInv /\ HandlersWrite => TagsApart
  <2> SUFFICES ASSUME IInv, HandlersWrite, NEW tag \in emitted, tag[1] \in TenantTables
               PROVE  tag[2] # NoTenant /\ tenant \in {tag[2], NoTenant}
    BY DEF TagsApart
  <2>1. kind = "call"
    BY DEF IInv, Undone
  <2>2. PICK w \in durable : tag = Tag(w)
    BY DEF IInv, EmitsWhatCommitted, Tags
  <2>3. w.by = "handler" /\ tag[1] = w.table /\ tag[2] = w.tenant
    BY <2>1, <2>2 DEF HandlersWrite, AllByHandler, Tag
  <2>4. QED
    BY <1>1, <2>2, <2>3 DEF TenantsApart
<1>3. Spec => []HandlersWrite
  BY InitHandlersWrite, StepHandlersWrite, Invariance, PTL DEF Spec
<1>4. QED
  BY <1>1, <1>2, <1>3, Invariance, PTL

HIDE TransactionsAssumption

-----------------------------------------------------------------------------
(* Who may use a draft *)

OwnerKeys == {<<>>, <<"team">>} \cup {<<k, id>> : k \in {"user", "service"}, id \in {"a"}}
StoredAccess ==
    [status : {"unused", "open", "closed"}, tenant : Access!Spellings, owner : OwnerKeys,
     by : Access!Callers]
Calls == [draft : AccessDraft, stored : StoredAccess, ctx : Access!Contexts, answer : Access!Answers]

AccessTypes ==
    /\ config \in Access!Configs
    /\ access \in [AccessDraft -> StoredAccess]
    /\ call \in [Call -> SUBSET Calls]

\* An owner that is stored tells who opened the draft, unless owners were shared.
OwnerTells(s) ==
    s.owner # <<>> =>
        \/ s.owner = <<"team">> /\ s.by = Access!NoPrincipal
        \/ s.owner = <<s.by.kind, s.by.id>>

\* A call under way was authorized by what is configured now.
Authorized(k) ==
    /\ k.stored.owner # <<>>
    /\ IF k.stored.tenant = Access!Untenanted THEN Access!GlobalAuthority(k.answer)
       ELSE k.stored.tenant \in Access!ScopeTracked(k.ctx)
    /\ \E owner \in Access!OwnerKey(k.ctx) :
           \/ owner # <<>> /\ owner = k.stored.owner
           \/ config.draftHook /\ k.answer # "false"

AccessInv ==
    /\ AccessTypes
    /\ \A d \in AccessDraft : OwnerTells(access[d])
    /\ \A c \in Call : \A k \in call[c] : Authorized(k)
    /\ Access!DraftsKeptApart

-----------------------------------------------------------------------------
(* What an upgrade makes of the drafts that are open *)

Changes == [made : BOOLEAN, base : BOOLEAN, rev : Int, seen : Nat]
Descriptors == [pkType : {"unknown", "text", "integer", "numeric"}, revisioned : BOOLEAN]
StoredDrafts ==
    [status : {"unused", "open", "closed"}, change : Changes, table : Descriptors,
     hash : {<<>>} \cup (Changes \X Descriptors)]

StorageTypes ==
    /\ release \in 1 .. 7 /\ installed \in 0 .. 7
    /\ live \in BOOLEAN /\ catalog \in {"integer", "numeric"}
    /\ row \in Int /\ row >= -1 /\ ledger \in Int /\ ledger >= -1
    /\ rowWrites \in Nat
    /\ draft \in [Draft -> StoredDrafts]

\* A process that serves drafts has migrated them; no release goes back behind
\* the ledger once the tables have it.
Versions ==
    /\ ready # {} => installed = release
    /\ installed >= 5 => release >= 5

\* Without a revision column or a release that keeps it there is no ledger entry;
\* the revision of a row that exists is never behind it.
Revisions ==
    /\ ~live \/ release < 5 => ledger = -1
    /\ live /\ row # -1 => row >= 1 /\ row >= ledger

\* The parts of an open draft agree, as far as the version of the tables says.
PartsAgree(d) ==
    /\ draft[d].status = "unused" => ~draft[d].change.made
    /\ Storage!Open(d) =>
        /\ installed >= 6 => draft[d].hash = Storage!Content(draft[d])
        /\ installed >= 4 => draft[d].table.pkType = catalog

\* The highest revision the row is known to have had.
High == Storage!Larger(ledger, row)

\* An anchor taken while the ledger was kept tells whether the row was written since.
Tells(c) ==
    /\ ledger >= 0
    /\ c.seen = rowWrites => c.base = (row # -1) /\ c.rev = IF row # -1 THEN row ELSE ledger
    /\ c.seen # rowWrites => High > c.rev \/ (c.base /\ row = -1 /\ High = c.rev)

\* The revision of an anchor was recorded while the ledger was kept, or by tables
\* whose upgrade to the ledger will mark it.
AnchorGood(d) ==
    LET c == draft[d].change IN
    Storage!Open(d) /\ c.made =>
        /\ c.seen <= rowWrites
        /\ c.rev \notin {-2, -3} =>
            /\ live
            /\ installed < 5 => installed >= 3 /\ draft[d].table.revisioned
            /\ installed >= 5 => Tells(c)

StorageInv ==
    /\ StorageTypes /\ Versions /\ Revisions
    /\ \A d \in Draft : PartsAgree(d) /\ AnchorGood(d)
    /\ ~overlooked
-----------------------------------------------------------------------------
(* Access: initially, and from every step to the next. *)

LEMMA AccessBegins == Access!Init => AccessInv
<1> SUFFICES ASSUME Access!Init PROVE AccessInv
  OBVIOUS
<1>1. /\ Access!Unused \in StoredAccess /\ Access!Legacy \in StoredAccess
      /\ Access!Unused.owner = <<>> /\ Access!Legacy.owner = <<>>
  BY DEF Access!Unused, Access!Legacy, StoredAccess, OwnerKeys, Access!Spellings, Access!Callers,
         Access!Untenanted, Access!NoOwner
<1>2. AccessTypes
  BY <1>1 DEF Access!Init, AccessTypes, Access!Idle
<1>3. ASSUME NEW d \in AccessDraft PROVE OwnerTells(access[d])
  BY <1>1 DEF Access!Init, OwnerTells
<1>4. ASSUME NEW c \in Call, NEW k \in call[c] PROVE Authorized(k)
  BY DEF Access!Init, Access!Idle
<1>5. Access!DraftsKeptApart
  BY DEF Access!Init, Access!DraftsKeptApart
<1>6. QED
  BY <1>2, <1>3, <1>4, <1>5 DEF AccessInv

LEMMA CallerShape ==
    ASSUME NEW p \in Access!Callers
    PROVE  /\ p = [kind |-> p.kind, id |-> p.id]
           /\ p # Access!NoPrincipal => p.id = "a"
<1>1. CASE p = Access!NoPrincipal
  BY <1>1 DEF Access!NoPrincipal
<1>2. CASE \E k \in {"user", "service", "robot"} : p = [kind |-> k, id |-> "a"]
  BY <1>2
<1>3. QED
  BY <1>1, <1>2 DEF Access!Callers

\* The owners `ownerKey` resolves.
LEMMA OwnersResolved ==
    ASSUME config \in Access!Configs, NEW ctx \in Access!Contexts, NEW owner \in Access!OwnerKey(ctx)
    PROVE  /\ owner \in OwnerKeys
           /\ owner # <<>> =>
                IF config.owners THEN owner = <<"team">>
                ELSE owner = <<ctx.principal.kind, ctx.principal.id>>
<1>1. ctx.principal \in Access!Callers
  BY DEF Access!Contexts
<1>2. CASE config.owners
  BY <1>2 DEF Access!OwnerKey, Access!NoOwner, OwnerKeys
<1>3. CASE ~config.owners
  <2>1. owner \in Access!DefaultOwner(ctx.principal)
    BY <1>3 DEF Access!OwnerKey
  <2>2. CASE ctx.principal = Access!NoPrincipal
    BY <1>3, <2>1, <2>2 DEF Access!DefaultOwner, Access!NoOwner, OwnerKeys
  <2>3. CASE ctx.principal # Access!NoPrincipal
    <3>1. owner = <<ctx.principal.kind, ctx.principal.id>> /\ Access!IsPrincipal(ctx.principal)
      BY <2>1, <2>3 DEF Access!DefaultOwner
    <3>2. ctx.principal.kind \in {"user", "service"} /\ ctx.principal.id = "a"
      BY <1>1, <2>3, <3>1, CallerShape DEF Access!IsPrincipal
    <3>3. QED
      BY <1>3, <3>1, <3>2 DEF OwnerKeys
  <2>4. QED
    BY <2>2, <2>3
<1>4. QED
  BY <1>2, <1>3

\* A call that was authorized reaches what `DraftsKeptApart` allows.
LEMMA ReachesOwn ==
    ASSUME AccessInv, NEW c \in Call, NEW k \in call[c],
           access[k.draft].tenant = k.stored.tenant, access[k.draft].owner = k.stored.owner
    PROVE  LET r == [ctx |-> k.ctx, answer |-> k.answer, draft |-> access[k.draft],
                     in |-> k.stored.tenant]
           IN  /\ r.draft.owner # Access!NoOwner
               /\ r.draft.tenant # Access!Untenanted =>
                      Access!Canonical(r.ctx.tenant) = r.draft.tenant /\ r.in = r.draft.tenant
               /\ r.draft.tenant = Access!Untenanted /\ config.tenancy =>
                      config.globalHook /\ r.answer = "true"
               /\ \/ r.ctx.principal = r.draft.by
                  \/ r.draft.by = Access!NoPrincipal /\ config.owners
                  \/ config.draftHook /\ r.answer # "false"
<1> DEFINE s == access[k.draft]
<1>1. /\ config \in Access!Configs /\ k \in Calls /\ Authorized(k)
      /\ k.draft \in AccessDraft /\ k.ctx \in Access!Contexts
  <2>1. call[c] \in SUBSET Calls
    BY DEF AccessInv, AccessTypes
  <2>2. QED
    BY <2>1 DEF AccessInv, AccessTypes, Calls
<1>2. s \in StoredAccess /\ OwnerTells(s)
  BY <1>1 DEF AccessInv, AccessTypes
<1>3. s.owner # Access!NoOwner
  BY <1>1 DEF Authorized, Access!NoOwner
<1>4. ASSUME s.tenant # Access!Untenanted PROVE Access!Canonical(k.ctx.tenant) = s.tenant
  BY <1>1, <1>4 DEF Authorized, Access!ScopeTracked
<1>5. ASSUME s.tenant = Access!Untenanted, config.tenancy PROVE config.globalHook /\ k.answer = "true"
  BY <1>1, <1>5 DEF Authorized, Access!GlobalAuthority, Access!Privileged
<1>6. \/ k.ctx.principal = s.by
      \/ s.by = Access!NoPrincipal /\ config.owners
      \/ config.draftHook /\ k.answer # "false"
  <2>1. PICK owner \in Access!OwnerKey(k.ctx) :
           \/ owner # <<>> /\ owner = k.stored.owner
           \/ config.draftHook /\ k.answer # "false"
    BY <1>1 DEF Authorized
  <2>2. CASE config.draftHook /\ k.answer # "false"
    BY <2>2
  <2>3. CASE owner # <<>> /\ owner = k.stored.owner
    <3>1. IF config.owners THEN owner = <<"team">>
          ELSE owner = <<k.ctx.principal.kind, k.ctx.principal.id>>
      BY <1>1, <2>3, OwnersResolved
    <3>2. \/ owner = <<"team">> /\ s.by = Access!NoPrincipal
          \/ owner = <<s.by.kind, s.by.id>>
      BY <1>2, <2>3 DEF OwnerTells
    <3>3. CASE config.owners
      <4>1. Len(<<"team">>) = 1 /\ Len(<<s.by.kind, s.by.id>>) = 2
        OBVIOUS
      <4>2. QED
        BY <3>1, <3>2, <3>3, <4>1
    <3>4. CASE ~config.owners
      <4>1. Len(<<"team">>) = 1 /\ Len(<<k.ctx.principal.kind, k.ctx.principal.id>>) = 2
        OBVIOUS
      <4>2. <<s.by.kind, s.by.id>> = <<k.ctx.principal.kind, k.ctx.principal.id>>
        BY <3>1, <3>2, <3>4, <4>1
      <4>3. s.by.kind = k.ctx.principal.kind /\ s.by.id = k.ctx.principal.id
        BY <4>2
      <4>4. s.by \in Access!Callers /\ k.ctx.principal \in Access!Callers
        BY <1>1, <1>2 DEF StoredAccess, Access!Contexts
      <4>5. s.by = k.ctx.principal
        BY <4>3, <4>4, CallerShape
      <4>6. QED
        BY <4>5
    <3>5. QED
      BY <3>3, <3>4
  <2>4. QED
    BY <2>1, <2>2, <2>3
<1>7. QED
  BY <1>3, <1>4, <1>5, <1>6

\* A call stays authorized until the configuration changes.
LEMMA AuthorizedStays ==
    ASSUME AccessInv, NEW c \in Call, NEW k \in call[c], UNCHANGED config
    PROVE  Authorized(k)'
<1>1. Authorized(k)
  BY DEF AccessInv
<1>2. QED
  BY <1>1 DEF Authorized, Access!GlobalAuthority, Access!Privileged, Access!ScopeTracked,
              Access!OwnerKey, Access!DefaultOwner

LEMMA OpenStep ==
    ASSUME AccessInv, NEW d \in AccessDraft, NEW ctx \in Access!Contexts, NEW answer,
           Access!Open(d, ctx, answer)
    PROVE  AccessInv'
<1>1. PICK owner \in Access!OwnerKey(ctx) \ {Access!NoOwner}, spelled \in Access!Spellings :
        access' = [access EXCEPT ![d] =
            [status |-> "open", tenant |-> spelled, owner |-> owner,
             by |-> IF config.owners THEN Access!NoPrincipal ELSE ctx.principal]]
  <2>1. PICK owner \in Access!OwnerKey(ctx) \ {Access!NoOwner} :
          \E spelled \in IF Access!GlobalAuthority(answer) THEN {Access!Untenanted}
                         ELSE Access!ScopeTracked(ctx) \ {Access!Untenanted} :
              access' = [access EXCEPT ![d] =
                  [status |-> "open", tenant |-> spelled, owner |-> owner,
                   by |-> IF config.owners THEN Access!NoPrincipal ELSE ctx.principal]]
    BY DEF Access!Open
  <2>2. Access!ScopeTracked(ctx) \subseteq Access!Spellings /\ Access!Untenanted \in Access!Spellings
    BY DEF Access!ScopeTracked, Access!Spellings, Access!Canonical, Access!Contexts, Access!Untenanted
  <2>3. QED
    BY <2>1, <2>2
<1> DEFINE opener == IF config.owners THEN Access!NoPrincipal ELSE ctx.principal
           stored == [status |-> "open", tenant |-> spelled, owner |-> owner, by |-> opener]
<1>2. UNCHANGED <<config, restarts, call, reached>> /\ access' = [access EXCEPT ![d] = stored]
  BY <1>1 DEF Access!Open
<1>3. /\ config \in Access!Configs /\ owner \in OwnerKeys /\ owner # <<>>
      /\ IF config.owners THEN owner = <<"team">>
         ELSE owner = <<ctx.principal.kind, ctx.principal.id>>
  BY OwnersResolved DEF AccessInv, AccessTypes, Access!NoOwner
<1>4. stored \in StoredAccess /\ OwnerTells(stored)
  <2>1. opener \in Access!Callers
    BY DEF Access!Contexts, Access!Callers
  <2>2. stored \in StoredAccess
    BY <1>3, <2>1 DEF StoredAccess
  <2>3. OwnerTells(stored)
    BY <1>3 DEF OwnerTells
  <2>4. QED
    BY <2>2, <2>3
<1> HIDE DEF stored
<1>5. AccessTypes'
  BY <1>2, <1>4 DEF AccessInv, AccessTypes
<1>6. ASSUME NEW e \in AccessDraft PROVE OwnerTells(access[e])'
  BY <1>2, <1>4 DEF AccessInv, AccessTypes, OwnerTells
<1>7. ASSUME NEW c \in Call, NEW k \in call'[c] PROVE Authorized(k)'
  BY <1>2, AuthorizedStays
<1>8. Access!DraftsKeptApart'
  BY <1>2 DEF AccessInv, Access!DraftsKeptApart
<1>9. QED
  BY <1>2, <1>5, <1>6, <1>7, <1>8 DEF AccessInv

LEMMA AuthorizeStep ==
    ASSUME AccessInv, NEW c \in Call, NEW d \in AccessDraft, NEW ctx \in Access!Contexts,
           NEW answer \in Access!Answers, Access!Authorize(c, d, ctx, answer)
    PROVE  AccessInv'
<1> DEFINE k == [draft |-> d, stored |-> access[d], ctx |-> ctx, answer |-> answer]
<1>1. /\ UNCHANGED <<config, restarts, access, reached>>
      /\ call' = [call EXCEPT ![c] = {k}]
  BY DEF Access!Authorize
<1>2. k \in Calls
  BY DEF AccessInv, AccessTypes, Calls
<1>3. Authorized(k)
  BY DEF Access!Authorize, Access!InItsTenant, Authorized, Access!NoOwner
<1> HIDE DEF k
<1>4. AccessTypes'
  BY <1>1, <1>2 DEF AccessInv, AccessTypes
<1>5. ASSUME NEW e \in AccessDraft PROVE OwnerTells(access[e])'
  BY <1>1 DEF AccessInv, OwnerTells
<1>6. ASSUME NEW b \in Call, NEW j \in call'[b] PROVE Authorized(j)'
  <2>1. Authorized(j)
    BY <1>1, <1>3 DEF AccessInv, AccessTypes
  <2>2. QED
    BY <1>1, <2>1 DEF Authorized, Access!GlobalAuthority, Access!Privileged, Access!ScopeTracked,
                Access!OwnerKey, Access!DefaultOwner
<1>7. Access!DraftsKeptApart'
  BY <1>1 DEF AccessInv, Access!DraftsKeptApart
<1>8. QED
  BY <1>1, <1>4, <1>5, <1>6, <1>7 DEF AccessInv

\* What a call does to the draft it was authorized for keeps its tenant and owner.
LEMMA ActStep ==
    ASSUME AccessInv, NEW c \in Call, Access!Act(c)
    PROVE  AccessInv'
<1>1. PICK k \in call[c] :
        /\ access[k.draft].tenant = k.stored.tenant /\ access[k.draft].owner = k.stored.owner
        /\ reached' = {[ctx |-> k.ctx, answer |-> k.answer, draft |-> access[k.draft],
                        in |-> k.stored.tenant]}
        /\ access' = access \/ access' = [access EXCEPT ![k.draft].status = "closed"]
        /\ call' = [call EXCEPT ![c] = Access!Idle]
        /\ UNCHANGED <<config, restarts>>
  BY DEF Access!Act
<1>2. k.draft \in AccessDraft
  BY DEF AccessInv, AccessTypes, Calls
<1>3. ASSUME NEW e \in AccessDraft PROVE access'[e] \in StoredAccess /\ OwnerTells(access'[e])
  <2>1. access[e] \in StoredAccess /\ OwnerTells(access[e])
    BY DEF AccessInv, AccessTypes
  <2>2. CASE access'[e] = access[e]
    BY <2>1, <2>2
  <2>3. CASE access'[e] = [access[e] EXCEPT !.status = "closed"]
    <3>1. access'[e] \in StoredAccess
      BY <2>1, <2>3 DEF StoredAccess
    <3>2. access'[e].owner = access[e].owner /\ access'[e].by = access[e].by
      BY <2>1, <2>3 DEF StoredAccess
    <3>3. QED
      BY <2>1, <3>1, <3>2 DEF OwnerTells
  <2>4. QED
    BY <1>1, <1>2, <2>2, <2>3 DEF AccessInv, AccessTypes
<1>4. AccessTypes'
  <2>1. access' \in [AccessDraft -> StoredAccess]
    BY <1>1, <1>3 DEF AccessInv, AccessTypes
  <2>2. call' \in [Call -> SUBSET Calls]
    BY <1>1 DEF AccessInv, AccessTypes, Access!Idle
  <2>3. QED
    BY <1>1, <2>1, <2>2 DEF AccessInv, AccessTypes
<1>5. ASSUME NEW b \in Call, NEW j \in call'[b] PROVE Authorized(j)'
  <2>1. j \in call[b]
    BY <1>1 DEF AccessInv, AccessTypes, Access!Idle
  <2>2. QED
    BY <1>1, <2>1, AuthorizedStays
<1>6. Access!DraftsKeptApart'
  <2> DEFINE r == [ctx |-> k.ctx, answer |-> k.answer, draft |-> access[k.draft],
                   in |-> k.stored.tenant]
  <2>1. /\ r.draft.owner # Access!NoOwner
        /\ r.draft.tenant # Access!Untenanted =>
               Access!Canonical(r.ctx.tenant) = r.draft.tenant /\ r.in = r.draft.tenant
        /\ r.draft.tenant = Access!Untenanted /\ config.tenancy =>
               config.globalHook /\ r.answer = "true"
        /\ \/ r.ctx.principal = r.draft.by
           \/ r.draft.by = Access!NoPrincipal /\ config.owners
           \/ config.draftHook /\ r.answer # "false"
    BY <1>1, ReachesOwn
  <2> HIDE DEF r
  <2>2. reached' = {r} /\ config' = config
    BY <1>1 DEF r
  <2>3. QED
    BY <2>1, <2>2 DEF Access!DraftsKeptApart
<1>7. QED
  BY <1>1, <1>3, <1>4, <1>5, <1>6 DEF AccessInv

LEMMA AccessSteps == AccessInv /\ Access!Next => AccessInv'
<1> SUFFICES ASSUME AccessInv, Access!Next PROVE AccessInv'
  OBVIOUS
<1>1. CASE Access!Deploy
  <2>1. /\ config' \in Access!Configs /\ UNCHANGED access /\ reached' = {}
        /\ call' = [c \in Call |-> {}]
    BY <1>1 DEF Access!Deploy, Access!Idle
  <2>2. AccessTypes'
    BY <2>1 DEF AccessInv, AccessTypes
  <2>3. ASSUME NEW d \in AccessDraft PROVE OwnerTells(access[d])'
    BY <2>1 DEF AccessInv, OwnerTells
  <2>4. ASSUME NEW c \in Call PROVE call'[c] = {}
    BY <2>1
  <2>5. Access!DraftsKeptApart'
    BY <2>1 DEF Access!DraftsKeptApart
  <2>6. QED
    BY <2>1, <2>2, <2>3, <2>4, <2>5 DEF AccessInv
<1>2. ASSUME NEW d \in AccessDraft, NEW ctx \in Access!Contexts, NEW answer \in Access!HostAnswers,
             Access!Open(d, ctx, answer) \/ \E c \in Call : Access!Authorize(c, d, ctx, answer)
      PROVE  AccessInv'
  <2>1. answer \in Access!Answers
    BY DEF Access!HostAnswers, Access!Answers
  <2>2. QED
    BY <1>2, <2>1, OpenStep, AuthorizeStep
<1>3. ASSUME NEW c \in Call, Access!Fails(c) PROVE AccessInv'
  <2>1. UNCHANGED <<config, restarts, access, reached>> /\ call' = [call EXCEPT ![c] = {}]
    BY <1>3 DEF Access!Fails, Access!Idle
  <2>2. AccessTypes'
    BY <2>1 DEF AccessInv, AccessTypes
  <2>3. ASSUME NEW d \in AccessDraft PROVE OwnerTells(access[d])'
    BY <2>1 DEF AccessInv, OwnerTells
  <2>4. ASSUME NEW b \in Call, NEW k \in call'[b] PROVE Authorized(k)'
    <3>1. k \in call[b]
      BY <2>1 DEF AccessInv, AccessTypes
    <3>2. QED
      BY <2>1, <3>1, AuthorizedStays
  <2>5. Access!DraftsKeptApart'
    BY <2>1 DEF AccessInv, Access!DraftsKeptApart
  <2>6. QED
    BY <2>1, <2>2, <2>3, <2>4, <2>5 DEF AccessInv
<1>4. QED
  BY <1>1, <1>2, <1>3, ActStep DEF Access!Next

LEMMA AccessStays == AccessInv /\ UNCHANGED accessVars => AccessInv'
<1> SUFFICES ASSUME AccessInv, UNCHANGED <<config, restarts, access, call, reached>> PROVE AccessInv'
  BY DEF accessVars
<1>1. AccessTypes'
  BY DEF AccessInv, AccessTypes
<1>2. ASSUME NEW d \in AccessDraft PROVE OwnerTells(access[d])'
  BY DEF AccessInv, OwnerTells
<1>3. ASSUME NEW c \in Call, NEW k \in call'[c] PROVE Authorized(k)'
  BY AuthorizedStays
<1>4. Access!DraftsKeptApart'
  BY DEF AccessInv, Access!DraftsKeptApart
<1>5. QED
  BY <1>1, <1>2, <1>3, <1>4 DEF AccessInv

-----------------------------------------------------------------------------
(* Storage: what a write does to the revisions. *)

LEMMA Moves ==
    ASSUME StorageTypes, Revisions, UNCHANGED <<release, live>>,
           Storage!Insert \/ Storage!Update \/ Storage!Delete
    PROVE  /\ row' \in Int /\ row' >= -1 /\ ledger' \in Int /\ ledger' >= -1
           /\ Revisions'
           /\ ledger >= 0 =>
                /\ ledger' >= 0 /\ High' >= High
                /\ row = -1 => High' > High
                /\ row # -1 => High = row /\ (High' > row \/ (row' = -1 /\ High' = row))
<1> DEFINE keeps == live /\ release >= 5
<1> USE DEF Storage!Gone, Storage!LedgerKept, Storage!Keeps, Storage!Larger, Storage!Allocated,
            Storage!Preserved, High, Revisions, StorageTypes
<1>1. CASE Storage!Insert /\ keeps
  BY <1>1 DEF Storage!Insert
<1>2. CASE Storage!Insert /\ ~keeps
  BY <1>2 DEF Storage!Insert
<1>3. CASE Storage!Update
  BY <1>3 DEF Storage!Update
<1>4. CASE Storage!Delete
  BY <1>4 DEF Storage!Delete
<1>5. QED
  BY <1>1, <1>2, <1>3, <1>4

\* After another write an anchor still tells that there was one.
LEMMA TellsOn ==
    ASSUME StorageTypes, Revisions, UNCHANGED <<release, live>>,
           Storage!Insert \/ Storage!Update \/ Storage!Delete, rowWrites' = rowWrites + 1,
           NEW c \in Changes, c.seen <= rowWrites, Tells(c)
    PROVE  Tells(c)'
<1>1. High \in Int /\ High' \in Int /\ c.rev \in Int /\ c.seen \in Nat /\ rowWrites \in Nat
  BY Moves DEF High, Storage!Larger, StorageTypes, Changes
<1>2. ledger >= 0 /\ ledger' >= 0 /\ c.seen # rowWrites'
  BY <1>1, Moves DEF Tells
<1>3. High' > c.rev \/ (c.base /\ row' = -1 /\ High' = c.rev)
  <2>1. CASE c.seen = rowWrites /\ row # -1
    BY <1>1, <1>2, <2>1, Moves DEF Tells
  <2>2. CASE c.seen = rowWrites /\ row = -1
    <3>1. c.rev = ledger /\ High = ledger
      BY <1>2, <2>2 DEF Tells, High, Storage!Larger, StorageTypes
    <3>2. QED
      BY <1>1, <1>2, <2>2, <3>1, Moves
  <2>3. CASE c.seen # rowWrites
    BY <1>1, <1>2, <2>3, Moves DEF Tells
  <2>4. QED
    BY <2>1, <2>2, <2>3
<1>4. QED
  BY <1>2, <1>3 DEF Tells

\* To lock the row's ledger entry is to create it, and changes no entry there is.
LEMMA Locking ==
    ASSUME StorageTypes, Revisions, UNCHANGED <<release, live, row>>, ledger' = Storage!Locked
    PROVE  /\ ledger' \in Int /\ ledger' >= -1 /\ Revisions'
           /\ ledger >= 0 => ledger' = ledger
           /\ live /\ release >= 5 => ledger' >= 0
  BY DEF Storage!Locked, Storage!Keeps, Storage!LedgerKept, Storage!Larger, Revisions, StorageTypes

\* The anchor of a draft that no step touches.
LEMMA AnchorKept ==
    ASSUME StorageTypes, NEW d \in Draft, AnchorGood(d),
           draft'[d] = draft[d], UNCHANGED <<installed, live>>,
           rowWrites' \in Nat /\ rowWrites <= rowWrites',
           \A c \in Changes : c.seen <= rowWrites /\ Tells(c) => Tells(c)'
    PROVE  AnchorGood(d)'
<1>1. PICK c \in Changes : c = draft[d].change
  BY DEF StorageTypes, StoredDrafts
<1>2. c = draft'[d].change /\ c.seen \in Nat /\ rowWrites \in Nat
  BY <1>1 DEF StorageTypes, Changes
<1>3. ASSUME Storage!Open(d), c.made
      PROVE  /\ c.seen <= rowWrites'
             /\ c.rev \notin {-2, -3} =>
                    /\ live
                    /\ installed < 5 => installed >= 3 /\ draft[d].table.revisioned
                    /\ installed >= 5 => Tells(c)'
  BY <1>1, <1>2, <1>3 DEF AnchorGood
<1>4. QED
  BY <1>1, <1>2, <1>3 DEF AnchorGood, Tells, High, Storage!Open

LEMMA StorageBegins == Storage!Init => StorageInv
<1> SUFFICES ASSUME Storage!Init PROVE StorageInv
  OBVIOUS
<1>1. Storage!Unused \in StoredDrafts
  BY DEF Storage!Unused, Storage!NoChange, Storage!Undescribed, Storage!Null, StoredDrafts, Changes,
         Descriptors
<1>2. StorageTypes /\ Versions /\ Revisions /\ ~overlooked
  BY <1>1 DEF Storage!Init, StorageTypes, Versions, Revisions, Storage!Current, Storage!Gone,
              Storage!NoEntry
<1>3. ASSUME NEW d \in Draft PROVE PartsAgree(d) /\ AnchorGood(d)
  BY DEF Storage!Init, PartsAgree, AnchorGood, Storage!Open, Storage!Unused, Storage!NoChange
<1>4. QED
  BY <1>2, <1>3 DEF StorageInv

LEMMA CanonicalWriteStep == StorageInv /\ Storage!CanonicalWrite => StorageInv'
<1> SUFFICES ASSUME StorageInv, Storage!CanonicalWrite PROVE StorageInv'
  OBVIOUS
<1>1. /\ rowWrites' = rowWrites + 1
      /\ Storage!Insert \/ Storage!Update \/ Storage!Delete
      /\ UNCHANGED <<release, deploys, installed, ready, live, catalog, draft, overlooked>>
  BY DEF Storage!CanonicalWrite
<1>2. StorageTypes /\ Versions /\ Revisions
  BY DEF StorageInv
<1>3. StorageTypes' /\ Versions' /\ Revisions' /\ rowWrites' \in Nat /\ rowWrites <= rowWrites'
  <2>1. row' \in Int /\ row' >= -1 /\ ledger' \in Int /\ ledger' >= -1 /\ Revisions'
    BY <1>1, <1>2, Moves
  <2>2. rowWrites' \in Nat /\ rowWrites <= rowWrites'
    BY <1>1, <1>2 DEF StorageTypes
  <2>3. QED
    BY <1>1, <1>2, <2>1, <2>2 DEF StorageTypes, Versions
<1>4. \A c \in Changes : c.seen <= rowWrites /\ Tells(c) => Tells(c)'
  BY <1>1, <1>2, TellsOn
<1>5. ASSUME NEW d \in Draft PROVE PartsAgree(d)' /\ AnchorGood(d)'
  <2>1. PartsAgree(d) /\ AnchorGood(d)
    BY DEF StorageInv
  <2>2. AnchorGood(d)'
    BY <1>1, <1>2, <1>3, <1>4, <2>1, AnchorKept
  <2>3. QED
    BY <1>1, <2>1, <2>2 DEF PartsAgree, Storage!Open, Storage!Content
<1>6. QED
  BY <1>1, <1>3, <1>5 DEF StorageInv

LEMMA DeployStep == \A k \in 1 .. 7 : StorageInv /\ Storage!Deploy(k) => StorageInv'
<1> SUFFICES ASSUME StorageInv, NEW k \in 1 .. 7, Storage!Deploy(k) PROVE StorageInv'
  OBVIOUS
<1>1. /\ k >= release \/ k >= 5
      /\ release' = k /\ ready' = {}
      /\ \/ UNCHANGED <<live, row>>
         \/ ~live /\ live' = TRUE /\ row' = IF row = -1 THEN -1 ELSE 1
      /\ UNCHANGED <<installed, catalog, ledger, rowWrites, draft, overlooked>>
  BY DEF Storage!Deploy, Storage!LedgerKept, Storage!Gone
<1>2. StorageTypes /\ Versions /\ Revisions
  BY DEF StorageInv
<1>3. StorageTypes' /\ Versions' /\ Revisions'
  <2>1. k \in 1 .. 7 /\ (installed >= 5 => k >= 5) /\ (k < 5 => release < 5)
    BY <1>1, <1>2 DEF StorageTypes, Versions
  <2>2. CASE UNCHANGED <<live, row>>
    BY <1>1, <1>2, <2>1, <2>2 DEF StorageTypes, Versions, Revisions
  <2>3. CASE ~live /\ live' = TRUE /\ row' = IF row = -1 THEN -1 ELSE 1
    <3>1. ledger = -1
      BY <1>2, <2>3 DEF Revisions
    <3>2. row' \in {-1, 1}
      BY <2>3
    <3>3. QED
      BY <1>1, <1>2, <2>1, <2>3, <3>1, <3>2 DEF StorageTypes, Versions, Revisions
  <2>4. QED
    BY <1>1, <2>2, <2>3
<1>4. ASSUME NEW d \in Draft PROVE PartsAgree(d)' /\ AnchorGood(d)'
  <2>1. PartsAgree(d) /\ AnchorGood(d)
    BY DEF StorageInv
  <2>2. CASE UNCHANGED <<live, row>>
    <3>1. \A c \in Changes : Tells(c) => Tells(c)'
      BY <1>1, <2>2 DEF Tells, High
    <3>2. AnchorGood(d)'
      BY <1>1, <1>2, <2>1, <2>2, <3>1, AnchorKept DEF StorageTypes
    <3>3. QED
      BY <1>1, <2>1, <3>2 DEF PartsAgree, Storage!Open, Storage!Content
  <2>3. CASE ~live
    BY <1>1, <2>1, <2>3 DEF PartsAgree, Storage!Open, Storage!Content, AnchorGood
  <2>4. QED
    BY <1>1, <2>2, <2>3
<1>5. QED
  BY <1>1, <1>3, <1>4 DEF StorageInv

\* What the migrations of an upgrade make of one draft, one after the other.
LEMMA MigratedParts ==
    ASSUME StorageTypes, installed <= release, NEW s \in StoredDrafts
    PROVE  LET m == Storage!Migrated(s) IN
           /\ m \in StoredDrafts /\ m.status = s.status
           /\ m.change.made = s.change.made /\ m.change.seen = s.change.seen
           /\ m.change.base = s.change.base
           /\ m.change.rev = s.change.rev \/ m.change.rev = -3
           /\ installed >= 5 => m.change = s.change
           /\ 3 <= installed /\ installed < 5 /\ release >= 5 /\ s.table.revisioned /\ s.change.made =>
                  m.change.rev = -3
           /\ installed >= 3 => m.table.revisioned = s.table.revisioned
           /\ release >= 4 => m.table.pkType = IF installed < 4 THEN catalog ELSE s.table.pkType
           /\ installed >= 6 => m = s
           /\ release >= 6 /\ installed < 6 => m.hash = Storage!Content(m)
<1>0. installed \in 0 .. 7 /\ release \in 1 .. 7 /\ catalog \in {"integer", "numeric"}
  BY DEF StorageTypes
<1>1. PICK a : a = Storage!Applied(3, s)
  OBVIOUS
<1>2. PICK b : b = Storage!Applied(4, a)
  OBVIOUS
<1>3. PICK c : c = Storage!Applied(5, b)
  OBVIOUS
<1>4. PICK m : m = Storage!Applied(6, c)
  OBVIOUS
<1>5. m = Storage!Migrated(s)
  BY <1>1, <1>2, <1>3, <1>4 DEF Storage!Migrated, Storage!Described, Storage!Typed, Storage!LedgerKept,
                                Storage!Hashed
<1> USE DEF Storage!Applied, Storage!Migration, Storage!Described, Storage!Typed, Storage!LedgerKept,
            Storage!Hashed
<1>6. /\ a \in StoredDrafts /\ a.status = s.status /\ a.change = s.change /\ a.hash = s.hash
      /\ installed >= 3 => a = s
  <2>1. CASE installed < 3 /\ 3 <= release
    <3>1. a = [s EXCEPT !.table = [pkType |-> "text", revisioned |-> FALSE]]
      BY <1>1, <2>1
    <3>2. [pkType |-> "text", revisioned |-> FALSE] \in Descriptors
      BY DEF Descriptors
    <3>3. a \in StoredDrafts /\ a.status = s.status /\ a.change = s.change /\ a.hash = s.hash
      BY <3>1, <3>2 DEF StoredDrafts
    <3>4. QED
      BY <1>0, <2>1, <3>3
  <2>2. CASE ~(installed < 3 /\ 3 <= release)
    <3>1. a = s
      BY <1>1, <2>2
    <3>2. QED
      BY <3>1
  <2>3. QED
    BY <2>1, <2>2
<1>7. /\ b \in StoredDrafts /\ b.status = a.status /\ b.change = a.change /\ b.hash = a.hash
      /\ b.table.revisioned = a.table.revisioned
      /\ release >= 4 => b.table.pkType = IF installed < 4 THEN catalog ELSE a.table.pkType
      /\ installed >= 4 => b = a
  <2>1. CASE installed < 4 /\ 4 <= release
    <3>1. b = [a EXCEPT !.table.pkType = catalog]
      BY <1>2, <2>1
    <3>2. b.table = [a.table EXCEPT !.pkType = catalog] /\ a.table \in Descriptors
      BY <1>6, <3>1 DEF StoredDrafts
    <3>3. /\ b.table \in Descriptors /\ b.table.revisioned = a.table.revisioned
          /\ b.table.pkType = catalog
      BY <1>0, <3>2 DEF Descriptors
    <3>4. b.status = a.status /\ b.change = a.change /\ b.hash = a.hash /\ b = [a EXCEPT !.table = b.table]
      BY <1>6, <3>1, <3>2 DEF StoredDrafts
    <3>5. b \in StoredDrafts
      BY <1>6, <3>3, <3>4 DEF StoredDrafts
    <3>6. QED
      BY <1>0, <2>1, <3>3, <3>4, <3>5
  <2>2. CASE ~(installed < 4 /\ 4 <= release)
    <3>1. b = a
      BY <1>2, <2>2
    <3>2. QED
      BY <1>0, <1>6, <2>2, <3>1
  <2>3. QED
    BY <2>1, <2>2
<1>8. /\ c \in StoredDrafts /\ c.status = b.status /\ c.table = b.table /\ c.hash = b.hash
      /\ c.change.made = b.change.made /\ c.change.seen = b.change.seen
      /\ c.change.base = b.change.base
      /\ c.change.rev = b.change.rev \/ c.change.rev = -3
      /\ installed < 5 /\ release >= 5 /\ b.table.revisioned /\ b.change.made => c.change.rev = -3
      /\ installed >= 5 => c = b
  <2>1. CASE installed < 5 /\ 5 <= release /\ b.table.revisioned /\ b.change.made
    <3>1. c = [b EXCEPT !.change.rev = -3]
      BY <1>3, <2>1 DEF Storage!Mark, Storage!RebaseRequired
    <3>2. c.change = [b.change EXCEPT !.rev = -3] /\ b.change \in Changes
      BY <1>7, <3>1 DEF StoredDrafts
    <3>3. /\ c.change \in Changes /\ c.change.made = b.change.made /\ c.change.seen = b.change.seen
          /\ c.change.base = b.change.base /\ c.change.rev = -3
      BY <3>2 DEF Changes
    <3>4. c.status = b.status /\ c.table = b.table /\ c.hash = b.hash /\ c = [b EXCEPT !.change = c.change]
      BY <1>7, <3>1, <3>2 DEF StoredDrafts
    <3>5. c \in StoredDrafts
      BY <1>7, <3>3, <3>4 DEF StoredDrafts
    <3>6. QED
      BY <1>0, <2>1, <3>3, <3>4, <3>5
  <2>2. CASE ~(installed < 5 /\ 5 <= release /\ b.table.revisioned /\ b.change.made)
    <3>1. c = b
      BY <1>0, <1>3, <2>2 DEF Storage!Mark
    <3>2. QED
      BY <1>0, <1>7, <2>2, <3>1
  <2>3. QED
    BY <2>1, <2>2
<1>9. /\ m \in StoredDrafts /\ m.status = c.status /\ m.table = c.table /\ m.change = c.change
      /\ release >= 6 /\ installed < 6 => m.hash = Storage!Content(m)
      /\ installed >= 6 => m = c
  <2>1. CASE installed < 6 /\ 6 <= release
    <3>1. m = [c EXCEPT !.hash = <<c.change, c.table>>]
      BY <1>4, <2>1 DEF Storage!Content
    <3>2. m.status = c.status /\ m.table = c.table /\ m.change = c.change
          /\ m.hash = <<c.change, c.table>>
      BY <1>8, <3>1 DEF StoredDrafts
    <3>3. <<c.change, c.table>> \in Changes \X Descriptors
      BY <1>8 DEF StoredDrafts
    <3>4. m \in StoredDrafts
      BY <1>8, <3>1, <3>3 DEF StoredDrafts
    <3>5. QED
      BY <1>0, <2>1, <3>2, <3>4 DEF Storage!Content
  <2>2. CASE ~(installed < 6 /\ 6 <= release)
    <3>1. m = c
      BY <1>4, <2>2
    <3>2. QED
      BY <1>0, <1>8, <2>2, <3>1
  <2>3. QED
    BY <2>1, <2>2
<1> HIDE DEF Storage!Applied, Storage!Migration
<1>10. QED
  BY <1>0, <1>6, <1>7, <1>8, <1>9, <1>5

LEMMA EnsureStep == \A p \in Process : StorageInv /\ Storage!Ensure(p) => StorageInv'
<1> SUFFICES ASSUME StorageInv, NEW p \in Process, Storage!Ensure(p) PROVE StorageInv'
  OBVIOUS
<1>1. /\ installed <= release /\ installed' = release
      /\ draft' = [d \in Draft |-> IF Storage!Open(d) THEN Storage!Migrated(draft[d]) ELSE draft[d]]
      /\ UNCHANGED <<release, deploys, live, catalog, row, ledger, rowWrites, overlooked>>
  BY DEF Storage!Ensure
<1>2. StorageTypes /\ Versions /\ Revisions
  BY DEF StorageInv
<1>3. ASSUME NEW d \in Draft, ~Storage!Open(d)
      PROVE  draft'[d] \in StoredDrafts /\ PartsAgree(d)' /\ AnchorGood(d)'
  <2>1. draft'[d] = draft[d] /\ PartsAgree(d)
    BY <1>1, <1>3 DEF StorageInv
  <2>2. QED
    BY <1>2, <1>3, <2>1 DEF PartsAgree, AnchorGood, Storage!Open, StorageTypes
<1>4. ASSUME NEW d \in Draft, Storage!Open(d)
      PROVE  draft'[d] \in StoredDrafts /\ PartsAgree(d)' /\ AnchorGood(d)'
  <2>1. PICK s \in StoredDrafts : s = draft[d]
    BY <1>2 DEF StorageTypes
  <2>2. PICK m : m = Storage!Migrated(s)
    OBVIOUS
  <2>3. draft'[d] = m
    BY <1>1, <1>4, <2>1, <2>2
  <2>4. /\ installed \in 0 .. 7 /\ release \in 1 .. 7 /\ s.status = "open"
        /\ installed >= 6 => s.hash = Storage!Content(s)
        /\ installed >= 4 => s.table.pkType = catalog
    BY <1>2, <1>4, <2>1 DEF StorageTypes, StorageInv, PartsAgree, Storage!Open
  <2>5. /\ m \in StoredDrafts /\ m.status = s.status
        /\ m.change.made = s.change.made /\ m.change.seen = s.change.seen
        /\ m.change.base = s.change.base
        /\ m.change.rev = s.change.rev \/ m.change.rev = -3
        /\ installed >= 5 => m.change = s.change
        /\ 3 <= installed /\ installed < 5 /\ release >= 5 /\ s.table.revisioned /\ s.change.made =>
               m.change.rev = -3
        /\ installed >= 3 => m.table.revisioned = s.table.revisioned
        /\ release >= 4 => m.table.pkType = IF installed < 4 THEN catalog ELSE s.table.pkType
        /\ installed >= 6 => m = s
        /\ release >= 6 /\ installed < 6 => m.hash = Storage!Content(m)
    BY <1>1, <1>2, <2>2, MigratedParts
  <2>6. PartsAgree(d)'
    <3>1. release >= 6 => m.hash = Storage!Content(m)
      BY <2>4, <2>5
    <3>2. release >= 4 => m.table.pkType = catalog
      BY <2>4, <2>5
    <3>3. QED
      BY <1>1, <2>3, <2>4, <2>5, <3>1, <3>2 DEF PartsAgree, Storage!Content, Storage!Open
  <2>7. PICK c \in Changes : c = s.change
    BY DEF StoredDrafts
  <2>8. ASSUME m.change.made, m.change.rev \notin {-2, -3}
        PROVE  /\ live
               /\ release < 5 => release >= 3 /\ m.table.revisioned
               /\ release >= 5 => m.change = c /\ Tells(c)
    <3>1. /\ live
          /\ installed < 5 => installed >= 3 /\ s.table.revisioned
          /\ installed >= 5 => Tells(c)
      BY <1>4, <2>1, <2>5, <2>7, <2>8 DEF StorageInv, AnchorGood
    <3>2. release >= 5 => installed >= 5
      BY <2>4, <2>5, <2>8, <3>1
    <3>3. QED
      BY <1>1, <2>4, <2>5, <2>7, <3>1, <3>2
  <2>9. m.change.made => m.change.seen <= rowWrites
    BY <1>4, <2>1, <2>5 DEF StorageInv, AnchorGood
  <2>10. Tells(c)' <=> Tells(c)
    BY <1>1 DEF Tells, High
  <2>11. AnchorGood(d)'
    BY <1>1, <2>3, <2>8, <2>9, <2>10 DEF AnchorGood, Storage!Open, Tells, High
  <2>12. QED
    BY <2>3, <2>5, <2>6, <2>11
<1>5. draft' \in [Draft -> StoredDrafts]
  BY <1>1, <1>3, <1>4
<1>6. StorageTypes' /\ Versions' /\ Revisions'
  BY <1>1, <1>2, <1>5 DEF StorageTypes, Versions, Revisions
<1>7. QED
  BY <1>1, <1>3, <1>4, <1>6 DEF StorageInv

\* What a touch of the row, or a replay of it, stores tells of every later write.
LEMMA AnchorFresh ==
    ASSUME StorageTypes, Revisions, ledger' = Storage!Locked, UNCHANGED <<live, row, rowWrites>>,
           NEW c, c = Storage!Anchor
    PROVE  /\ c \in Changes /\ c.made /\ c.seen = rowWrites
           /\ c.base = (row # -1)
           /\ c.rev # -2 => live /\ release >= 3
           /\ c.rev # -2 /\ release >= 5 => Tells(c)'
<1>1. Storage!Locked \in Int /\ (live /\ release >= 5 => Storage!Locked >= 0)
  BY DEF Storage!Locked, Storage!Keeps, Storage!LedgerKept, Storage!Larger, StorageTypes
<1>2. /\ c.made /\ c.base = (row # -1) /\ c.seen = rowWrites
      /\ c.rev = IF ~live \/ release < 3 THEN -2 ELSE IF row # -1 THEN row ELSE Storage!Locked
  BY DEF Storage!Anchor, Storage!Gone, Storage!Described, Storage!Null
<1>3. (row # -1) \in BOOLEAN
  OBVIOUS
<1>4. c \in Changes
  BY <1>1 DEF Changes, StorageTypes, Storage!Anchor, Storage!Gone, Storage!Null
<1>5. ASSUME c.rev # -2 PROVE live /\ release >= 3
  BY <1>2, <1>5 DEF StorageTypes
<1>6. ASSUME c.rev # -2, release >= 5 PROVE Tells(c)'
  <2>1. ledger' >= 0 /\ c.rev = IF row # -1 THEN row ELSE ledger'
    BY <1>1, <1>2, <1>5, <1>6 DEF StorageTypes
  <2>2. QED
    BY <1>2, <2>1 DEF Tells, High
<1>7. QED
  BY <1>2, <1>4, <1>5, <1>6

\* A draft is stored again, with its descriptor refreshed and a change whose anchor
\* is good.
LEMMA StoredAgain ==
    ASSUME StorageInv, ready # {}, NEW d \in Draft, NEW s \in StoredDrafts, NEW c \in Changes,
           s.status = "open", s.table = Storage!Descriptor, s.change = c,
           draft' = [draft EXCEPT ![d] = Storage!Rehashed(s)], ledger' = Storage!Locked,
           UNCHANGED <<release, deploys, installed, ready, live, catalog, row, rowWrites, overlooked>>,
           c.made =>
               /\ c.seen <= rowWrites
               /\ c.rev \notin {-2, -3} => live /\ release >= 3 /\ (release >= 5 => Tells(c)')
    PROVE  StorageInv'
<1>1. StorageTypes /\ Versions /\ Revisions /\ installed = release /\ release \in 1 .. 7
  BY DEF StorageInv, Versions, StorageTypes
<1>2. PICK m : m = Storage!Rehashed(s)
  OBVIOUS
<1>3. /\ m \in StoredDrafts /\ m.status = s.status /\ m.table = s.table /\ m.change = s.change
      /\ release >= 6 => m.hash = Storage!Content(m)
  <2>1. CASE release >= 6
    <3>1. m = [s EXCEPT !.hash = <<s.change, s.table>>]
      BY <1>2, <2>1 DEF Storage!Rehashed, Storage!Hashed, Storage!Content
    <3>2. <<s.change, s.table>> \in Changes \X Descriptors
      BY DEF StoredDrafts
    <3>3. m.status = s.status /\ m.table = s.table /\ m.change = s.change
          /\ m.hash = <<s.change, s.table>> /\ m \in StoredDrafts
      BY <3>1, <3>2 DEF StoredDrafts
    <3>4. QED
      BY <3>3 DEF Storage!Content
  <2>2. CASE ~(release >= 6)
    <3>1. m = s
      BY <1>2, <2>2 DEF Storage!Rehashed, Storage!Hashed
    <3>2. QED
      BY <2>2, <3>1
  <2>3. QED
    BY <2>1, <2>2
<1>4. draft' = [draft EXCEPT ![d] = m] /\ draft'[d] = m /\ \A e \in Draft : e # d => draft'[e] = draft[e]
  BY <1>1, <1>2 DEF StorageTypes
<1>5. StorageTypes' /\ Versions' /\ Revisions'
  <2>1. ledger' \in Int /\ ledger' >= -1 /\ Revisions'
    BY <1>1, Locking
  <2>2. QED
    BY <1>1, <1>3, <1>4, <2>1 DEF StorageTypes, Versions
<1>6. ASSUME NEW e \in Draft, e # d PROVE PartsAgree(e)' /\ AnchorGood(e)'
  <2>1. draft'[e] = draft[e] /\ PartsAgree(e) /\ AnchorGood(e)
    BY <1>4, <1>6 DEF StorageInv
  <2>2. \A k \in Changes : Tells(k) => Tells(k)'
    BY <1>1, Locking DEF Tells, High
  <2>3. rowWrites' \in Nat /\ rowWrites <= rowWrites'
    BY <1>1 DEF StorageTypes
  <2>4. AnchorGood(e)'
    BY <1>1, <2>1, <2>2, <2>3, AnchorKept
  <2>5. QED
    BY <2>1, <2>4 DEF PartsAgree, Storage!Open, Storage!Content
<1>7. PartsAgree(d)'
  <2>1. release >= 4 => m.table.pkType = catalog
    BY <1>1, <1>3 DEF Storage!Descriptor, Storage!Described
  <2>2. QED
    BY <1>1, <1>3, <1>4, <2>1 DEF PartsAgree, Storage!Open, Storage!Content
<1>8. AnchorGood(d)'
  <2>1. live /\ release >= 3 => m.table.revisioned
    BY <1>1, <1>3 DEF Storage!Descriptor, Storage!Described
  <2>2. QED
    BY <1>1, <1>3, <1>4, <2>1 DEF AnchorGood, Storage!Open, Tells, High
<1>9. QED
  BY <1>1, <1>5, <1>6, <1>7, <1>8 DEF StorageInv

LEMMA DescriptorType ==
    ASSUME StorageTypes
    PROVE  Storage!Descriptor \in Descriptors
  BY DEF StorageTypes, Storage!Descriptor, Storage!Undescribed, Descriptors

LEMMA AppendStep ==
    ASSUME StorageInv, NEW p \in Process, NEW d \in Draft, Storage!Append(p, d)
    PROVE  StorageInv'
<1>1. /\ StorageTypes /\ Versions /\ Revisions /\ ready # {} /\ installed = release
      /\ draft[d] \in StoredDrafts /\ draft[d].status # "closed"
      /\ ledger' = Storage!Locked
      /\ UNCHANGED <<release, deploys, installed, ready, live, catalog, row, rowWrites, overlooked>>
  BY DEF StorageInv, Versions, StorageTypes, Storage!Append
<1>2. PICK c : c = IF release < 2 \/ draft[d].change.made THEN draft[d].change ELSE Storage!Anchor
  OBVIOUS
<1>3. PICK s : s = [draft[d] EXCEPT !.status = "open", !.table = Storage!Descriptor, !.change = c]
  OBVIOUS
<1>4. draft' = [draft EXCEPT ![d] = Storage!Rehashed(s)]
  BY <1>1, <1>2, <1>3 DEF Storage!Append, Storage!NewRow, StorageTypes
<1>5. /\ c \in Changes
      /\ c.made =>
             /\ c.seen <= rowWrites
             /\ c.rev \notin {-2, -3} => live /\ release >= 3 /\ (release >= 5 => Tells(c)')
  <2>1. CASE release < 2 \/ draft[d].change.made
    <3>1. c = draft[d].change /\ c \in Changes
      BY <1>1, <1>2, <2>1 DEF StoredDrafts
    <3>2. ASSUME c.made
          PROVE  /\ c.seen <= rowWrites
                 /\ c.rev \notin {-2, -3} => live /\ release >= 3 /\ (release >= 5 => Tells(c))
      <4>1. Storage!Open(d)
        BY <1>1, <3>1, <3>2 DEF StorageInv, PartsAgree, Storage!Open, StoredDrafts
      <4>2. QED
        BY <1>1, <3>1, <3>2, <4>1 DEF StorageInv, AnchorGood, StorageTypes
    <3>3. Tells(c) => Tells(c)'
      BY <1>1, Locking DEF Tells, High
    <3>4. QED
      BY <3>1, <3>2, <3>3
  <2>2. CASE ~(release < 2 \/ draft[d].change.made)
    <3>1. c = Storage!Anchor
      BY <1>2, <2>2
    <3>2. /\ c \in Changes /\ c.seen = rowWrites
          /\ c.rev # -2 => live /\ release >= 3
          /\ c.rev # -2 /\ release >= 5 => Tells(c)'
      BY <1>1, <3>1, AnchorFresh
    <3>3. rowWrites \in Nat
      BY <1>1 DEF StorageTypes
    <3>4. QED
      BY <3>2, <3>3
  <2>3. QED
    BY <2>1, <2>2
<1>6. s \in StoredDrafts /\ s.status = "open" /\ s.table = Storage!Descriptor /\ s.change = c
  BY <1>1, <1>3, <1>5, DescriptorType DEF StoredDrafts
<1>7. QED
  BY <1>1, <1>4, <1>5, <1>6, StoredAgain

LEMMA RebaseStep ==
    ASSUME StorageInv, NEW p \in Process, NEW d \in Draft, Storage!Rebase(p, d)
    PROVE  StorageInv'
<1>1. /\ StorageTypes /\ Versions /\ Revisions /\ ready # {} /\ draft[d] \in StoredDrafts
      /\ ledger' = Storage!Locked /\ draft[d].status = "open" /\ rowWrites \in Nat
      /\ UNCHANGED <<release, deploys, installed, ready, live, catalog, row, rowWrites, overlooked>>
  BY DEF StorageInv, StorageTypes, Storage!Rebase, Storage!Open
<1>2. PICK c : c = Storage!Anchor
  OBVIOUS
<1>3. PICK s : s = [draft[d] EXCEPT !.change = c, !.table = Storage!Descriptor]
  OBVIOUS
<1>4. draft' = [draft EXCEPT ![d] = Storage!Rehashed(s)]
  BY <1>1, <1>2, <1>3 DEF Storage!Rebase, StorageTypes
<1>5. /\ c \in Changes /\ c.seen = rowWrites
      /\ c.rev # -2 => live /\ release >= 3
      /\ c.rev # -2 /\ release >= 5 => Tells(c)'
  BY <1>1, <1>2, AnchorFresh
<1>6. s \in StoredDrafts /\ s.status = "open" /\ s.table = Storage!Descriptor /\ s.change = c
  BY <1>1, <1>3, <1>5, DescriptorType DEF StoredDrafts
<1>7. /\ c.seen <= rowWrites
      /\ c.rev \notin {-2, -3} => live /\ release >= 3 /\ (release >= 5 => Tells(c)')
  BY <1>1, <1>5
<1>8. QED
  BY <1>1, <1>4, <1>5, <1>6, <1>7, StoredAgain

LEMMA ClosedType == Storage!Closed \in StoredDrafts /\ Storage!Closed.status = "closed"
<1>1. Storage!NoChange \in Changes /\ Storage!Undescribed \in Descriptors
  BY DEF Storage!NoChange, Storage!Undescribed, Storage!Null, Changes, Descriptors
<1>2. Storage!Closed = [status |-> "closed", change |-> Storage!NoChange,
                        table |-> Storage!Undescribed, hash |-> <<>>]
  BY DEF Storage!Closed, Storage!Unused
<1>3. QED
  BY <1>1, <1>2 DEF StoredDrafts

LEMMA DiscardStep ==
    ASSUME StorageInv, NEW p \in Process, NEW d \in Draft, Storage!Discard(p, d)
    PROVE  StorageInv'
<1>1. /\ StorageTypes /\ Versions /\ Revisions
      /\ draft' = [draft EXCEPT ![d] = Storage!Closed]
      /\ UNCHANGED <<release, deploys, installed, ready, live, catalog, row, ledger, rowWrites, overlooked>>
  BY DEF StorageInv, Storage!Discard
<1>2. StorageTypes' /\ Versions' /\ Revisions'
  BY <1>1, ClosedType DEF StorageTypes, Versions, Revisions
<1>3. ASSUME NEW e \in Draft PROVE PartsAgree(e)' /\ AnchorGood(e)'
  <2>1. PartsAgree(e) /\ AnchorGood(e)
    BY DEF StorageInv
  <2>2. CASE e = d
    <3>1. draft'[e].status = "closed"
      BY <1>1, <2>2, ClosedType DEF StorageTypes
    <3>2. QED
      BY <3>1 DEF PartsAgree, AnchorGood, Storage!Open
  <2>3. CASE e # d
    <3>1. draft'[e] = draft[e]
      BY <1>1, <2>3 DEF StorageTypes
    <3>2. QED
      BY <1>1, <2>1, <3>1 DEF PartsAgree, AnchorGood, Storage!Open, Storage!Content, Tells, High
  <2>4. QED
    BY <2>2, <2>3
<1>4. QED
  BY <1>1, <1>2, <1>3 DEF StorageInv

\* The check of a publication that decides: a replay anchors the row as the draft did.
LEMMA NothingOverlooked ==
    ASSUME StorageInv, live, ready # {}, release = 7, NEW d \in Draft, Storage!Open(d),
           Storage!ReplayMatches(d)
    PROVE  draft[d].change.seen = rowWrites
<1>1. PICK c \in Changes : c = draft[d].change
  BY DEF StorageInv, StorageTypes, StoredDrafts
<1>2. /\ row \in Int /\ row >= -1 /\ ledger \in Int /\ ledger >= -1 /\ installed = 7
      /\ row # -1 => row >= 1 /\ row >= ledger
  BY DEF StorageInv, StorageTypes, Versions, Revisions
<1>3. /\ c.made /\ c.base = (row # -1)
      /\ c.rev = IF row # -1 THEN row ELSE IF ledger >= 0 THEN ledger ELSE 0
  BY <1>1, <1>2 DEF Storage!ReplayMatches, Storage!Anchor, Storage!Gone, Storage!Described, Storage!Locked,
     Storage!Keeps, Storage!LedgerKept, Storage!Larger
<1>4. Tells(c)
  <2>1. c.rev \notin {-2, -3}
    BY <1>2, <1>3
  <2>2. QED
    BY <1>1, <1>2, <1>3, <2>1 DEF StorageInv, AnchorGood
<1>5. High = c.rev /\ ~(c.base /\ row = -1)
  <2>1. CASE row # -1
    BY <1>2, <1>3, <2>1 DEF High, Storage!Larger
  <2>2. CASE row = -1
    <3>1. ledger >= 0 /\ c.rev = ledger /\ ~c.base
      BY <1>2, <1>3, <1>4, <2>2 DEF Tells
    <3>2. High = ledger
      BY <1>2, <2>2, <3>1 DEF High, Storage!Larger
    <3>3. QED
      BY <3>1, <3>2
  <2>3. QED
    BY <2>1, <2>2
<1>6. QED
  BY <1>1, <1>2, <1>3, <1>4, <1>5 DEF Tells

LEMMA PublishStep ==
    ASSUME StorageInv, NEW p \in Process, NEW d \in Draft, Storage!Publish(p, d)
    PROVE  StorageInv'
<1>1. /\ StorageTypes /\ Versions /\ Revisions /\ ~overlooked
      /\ ready # {} /\ release = 7 /\ Storage!Open(d) /\ Storage!ReplayMatches(d)
      /\ overlooked' = (overlooked \/ (live /\ draft[d].change.seen # rowWrites))
      /\ Storage!Insert \/ Storage!Update \/ Storage!Delete
      /\ rowWrites' = rowWrites + 1
      /\ draft' = [draft EXCEPT ![d] = Storage!Closed]
      /\ UNCHANGED <<release, deploys, installed, ready, live, catalog>>
  BY DEF StorageInv, Storage!Publish, Storage!Current
<1>2. ~overlooked'
  BY <1>1, NothingOverlooked
<1>3. StorageTypes' /\ Versions' /\ Revisions' /\ rowWrites' \in Nat /\ rowWrites <= rowWrites'
  <2>1. row' \in Int /\ row' >= -1 /\ ledger' \in Int /\ ledger' >= -1 /\ Revisions'
    BY <1>1, Moves
  <2>2. rowWrites' \in Nat /\ rowWrites <= rowWrites'
    BY <1>1 DEF StorageTypes
  <2>3. QED
    BY <1>1, <2>1, <2>2, ClosedType DEF StorageTypes, Versions
<1>4. \A c \in Changes : c.seen <= rowWrites /\ Tells(c) => Tells(c)'
  BY <1>1, TellsOn
<1>5. ASSUME NEW e \in Draft PROVE PartsAgree(e)' /\ AnchorGood(e)'
  <2>1. PartsAgree(e) /\ AnchorGood(e)
    BY DEF StorageInv
  <2>2. CASE e = d
    <3>1. draft'[e].status = "closed"
      BY <1>1, <2>2, ClosedType DEF StorageTypes
    <3>2. QED
      BY <3>1 DEF PartsAgree, AnchorGood, Storage!Open
  <2>3. CASE e # d
    <3>1. draft'[e] = draft[e]
      BY <1>1, <2>3 DEF StorageTypes
    <3>2. AnchorGood(e)'
      BY <1>1, <1>3, <1>4, <2>1, <3>1, AnchorKept
    <3>3. QED
      BY <1>1, <2>1, <3>1, <3>2 DEF PartsAgree, Storage!Open, Storage!Content
  <2>4. QED
    BY <2>2, <2>3
<1>6. QED
  BY <1>2, <1>3, <1>5 DEF StorageInv

LEMMA StorageSteps == StorageInv /\ Storage!Next => StorageInv'
<1>1. \A k \in 1 .. Storage!Current : StorageInv /\ Storage!Deploy(k) => StorageInv'
  BY DeployStep DEF Storage!Current
<1>2. QED
  BY <1>1, CanonicalWriteStep, EnsureStep, AppendStep, RebaseStep, DiscardStep, PublishStep
  DEF Storage!Next

LEMMA StorageStays == StorageInv /\ UNCHANGED storageVars => StorageInv'
<1> SUFFICES ASSUME StorageInv,
             UNCHANGED <<release, deploys, installed, ready, live, catalog, row, ledger, rowWrites,
                         draft, overlooked>>
      PROVE  StorageInv'
  BY DEF storageVars
<1>1. StorageTypes' /\ Versions' /\ Revisions' /\ ~overlooked'
  BY DEF StorageInv, StorageTypes, Versions, Revisions
<1>2. ASSUME NEW d \in Draft PROVE PartsAgree(d)' /\ AnchorGood(d)'
  <2>1. PartsAgree(d) /\ AnchorGood(d)
    BY DEF StorageInv
  <2>2. QED
    BY <2>1 DEF PartsAgree, AnchorGood, Storage!Open, Storage!Content, Tells, High
<1>3. QED
  BY <1>1, <1>2 DEF StorageInv

-----------------------------------------------------------------------------
(* The layer: each component keeps its invariant while another one runs.   *)

LEMMA LayerStarts == LayerInit => AccessInv /\ StorageInv
  BY AccessBegins, StorageBegins DEF LayerInit

LEMMA LayerGoesOn == AccessInv /\ StorageInv /\ [LayerNext]_allVars => AccessInv' /\ StorageInv'
<1> SUFFICES ASSUME AccessInv, StorageInv, [LayerNext]_allVars PROVE AccessInv' /\ StorageInv'
  OBVIOUS
<1>1. CASE RequestStep \/ UNCHANGED allVars
  <2>1. UNCHANGED accessVars /\ UNCHANGED storageVars
    BY <1>1 DEF RequestStep, allVars
  <2>2. QED
    BY <2>1, AccessStays, StorageStays
<1>2. CASE AccessStep
  BY <1>2, AccessSteps, StorageStays DEF AccessStep
<1>3. CASE StorageStep
  BY <1>3, AccessStays, StorageSteps DEF StorageStep
<1>4. QED
  BY <1>1, <1>2, <1>3 DEF LayerNext

LEMMA LayerInvariance == LayerSpec => [](AccessInv /\ StorageInv)
<1>1. QED
  BY LayerStarts, LayerGoesOn, PTL DEF LayerSpec

\* The part of the layer a request is in behaves as a request does.
LEMMA LayerRequests == LayerSpec => Spec
<1>1. LayerInit => Init
  BY DEF LayerInit
<1>2. [LayerNext]_allVars => [Next]_vars
  BY DEF LayerNext, RequestStep, AccessStep, StorageStep, allVars
<1>3. QED
  BY <1>1, <1>2, PTL DEF LayerSpec, Spec

\* What a request writes is written for its tenant (`scopeTracked`); a call reaches
\* only a draft of its tenant and of its principal, or one the host gave leave for,
\* whatever was deployed since the draft was opened (`authorizeTracker`,
\* `assertAuthorizedSnapshot`).
THEOREM TenantsAndOwnersApart == LayerSpec => []KeptApart
<1>1. AccessInv /\ TenantsApart => KeptApart
  BY DEF AccessInv, KeptApart
<1>2. QED
  BY <1>1, LayerInvariance, LayerRequests, TenantsStayApart, PTL

\* A draft from before an upgrade is read as it was written, and its publication
\* overlooks no canonical write to a revisioned row (`ensureDraftStorage`,
\* `assertReplayMatchesReviewedChanges`).
THEOREM UpgradesAreSafe == LayerSpec => []UpgradeIsSafe
<1>1. StorageInv => UpgradeIsSafe
  <2> SUFFICES ASSUME StorageInv PROVE Storage!StoredAsRead
    BY DEF StorageInv, UpgradeIsSafe, Storage!UpgradeIsSafe
  <2> SUFFICES ASSUME ready # {}, release = Storage!Current
      PROVE  /\ installed = Storage!Current
             /\ \A d \in Storage!OpenDrafts :
                    draft[d].hash = Storage!Content(draft[d]) /\ draft[d].table.pkType = catalog
    BY DEF Storage!StoredAsRead
  <2>1. installed = Storage!Current /\ installed = 7
    BY DEF StorageInv, Versions, Storage!Current
  <2>2. ASSUME NEW d \in Storage!OpenDrafts
        PROVE  draft[d].hash = Storage!Content(draft[d]) /\ draft[d].table.pkType = catalog
    BY <2>1 DEF StorageInv, PartsAgree, Storage!OpenDrafts
  <2>3. QED
    BY <2>1, <2>2
<1>2. QED
  BY <1>1, LayerInvariance, PTL

=============================================================================
