------------------------------- MODULE RowLocks -------------------------------
(***************************************************************************)
(* The row locks of the revision-aware statements.  A row of a revisioned  *)
(* table has three of them: its entry in the revision ledger, the          *)
(* canonical row, and the change row of each draft that touched it.  Every *)
(* statement takes its locks one by one and keeps them until its           *)
(* transaction ends; PostgreSQL aborts a transaction of a circle of waits. *)
(* Draft writes and publications take them in an order that rules circles  *)
(* out; discards and canonical writes of several rows do not.  Here each transaction is *)
(* one statement: what commands may do in sequence, and that it is         *)
(* retried, is DraftLifecycle's.                                           *)
(***************************************************************************)
EXTENDS Naturals, FiniteSets, Sequences, SequencesExt

CONSTANTS
    Key,        \* rows, numbered in the order of their identity (COLLATE "C")
    TableOf,    \* the table of a row, also a number: the identity begins with it
    Draft,      \* drafts
    Backend,    \* database connections
    MaxLoose    \* statements under way at once that keep no lock order

VARIABLES
    todo,   \* connection -> groups of locks its statement still takes, in order
    wants,  \* connection -> the lock of a group it met and waits for, as a set of at most one
    held,   \* connection -> the locks it holds
    loose   \* the connections whose statement keeps no lock order

lockVars == <<todo, wants, held, loose>>

\* Rows are numbered as the bytes of their identities sort, of which the table is
\* the first part; a draft is called neither of the two names below.
RowsInOrder ==
    /\ Key \subseteq Nat /\ IsFiniteSet(Key)
    /\ TableOf \in [Key -> Nat]
    /\ \A r, s \in Key : r < s => TableOf[r] <= TableOf[s]
    /\ {"ledger", "row"} \cap Draft = {}
    /\ MaxLoose \in Nat

Ledger(r) == <<"ledger", r>>
Canonical(r) == <<"row", r>>
Change(d, r) == <<d, r>>
Locks == {"ledger", "row"} \X Key \cup Draft \X Key

-----------------------------------------------------------------------------
(* What each statement locks: a sequence of groups, the locks of a group in *)
(* no particular order (a scan takes rows as it finds them).                *)

\* `compareRowRevisionSortKeys`: by the bytes of table, tenant and key.
InLockOrder(rows) ==
    CHOOSE s \in [1..Cardinality(rows) -> rows] : \A i, j \in DOMAIN s : i < j => s[i] < s[j]

OneByOne(rows, Lock(_)) == [i \in 1..Cardinality(rows) |-> {Lock(InLockOrder(rows)[i])}]

\* Seeded fault: the canonical row is locked before its revision.
RowTriple_RowFirst(d, r) == <<{Canonical(r)}, {Ledger(r)}, {Change(d, r)}>>

\* `lockRowRevision`, then the two FOR UPDATEs of the statement itself.
RowTriple(d, r) == <<{Ledger(r)}, {Canonical(r)}, {Change(d, r)}>>

\* A draft insert, and the candidates of a draft update or delete: sorted, one
\* row after the other.  (Writing the rows takes the same locks again.)
DraftWriteLocks(d, rows) ==
    FlattenSeq([i \in 1..Cardinality(rows) |-> RowTriple(d, InLockOrder(rows)[i])])

\* The conflict check of a publication, table after table: the ledger of all its
\* rows, then the rows.  At the end the draft's changes are deleted.
PublishLocks(d, rows) ==
    LET OfTable(t) == {r \in rows : TableOf[r] = t}
        TableLocks(t) == OneByOne(OfTable(t), Ledger) \o OneByOne(OfTable(t), Canonical)
    IN  FlattenSeq([i \in 1..Cardinality({TableOf[r] : r \in rows}) |->
                       TableLocks(InLockOrder({TableOf[r] : r \in rows})[i])])
        \o <<{Change(d, r) : r \in rows}>>

Ledgers(rows) == {Ledger(r) : r \in rows}
Canonicals(rows) == {Canonical(r) : r \in rows}

\* As a scan of the table, or the caller's array, has the rows: in any order.
Scan(locks) == IF locks = {} THEN <<>> ELSE <<locks>>

\* A canonical delete is three statements, each of which may find other rows: the
\* candidates, whose revisions are locked in order; the rows locked, whose revisions
\* are preserved as they come, those of candidates a second time; the rows deleted.
DeleteLocks(candidates, locked, deleted) ==
    OneByOne(candidates, Ledger)
        \o Scan(Canonicals(locked)) \o Scan(Ledgers(locked \ candidates)) \o Scan(Canonicals(deleted \ locked))

\* A canonical update is one statement over every row it matches.
UpdateLocks(rows) == Scan(Canonicals(rows))

\* A canonical insert allocates a revision for each row of the array, then inserts.
InsertLocks(rows) == Scan(Ledgers(rows)) \o Scan(Canonicals(rows))

\* A discard, and a rebase before it replays, deletes the draft's changes as found.
DiscardLocks(d, rows) == Scan({Change(d, r) : r \in rows})

Together == {rows \in SUBSET Key : rows # {} /\ Cardinality({TableOf[r] : r \in rows}) = 1}

\* The statements that take their locks in order: draft writes and publications, a
\* canonical update or insert of one row, and a canonical delete whose statements
\* find no row that was not a candidate.
OrderedDeletes ==
    UNION {{DeleteLocks(rows, locked, deleted) : locked, deleted \in SUBSET rows} : rows \in Together}
DraftStatements ==
    {DraftWriteLocks(d, rows) : d \in Draft, rows \in Together}
    \cup {PublishLocks(d, rows) : d \in Draft, rows \in (SUBSET Key) \ {{}}}
OneRowStatements == {UpdateLocks({r}) : r \in Key} \cup {InsertLocks({r}) : r \in Key}
OrderedStatements == DraftStatements \cup OneRowStatements \cup OrderedDeletes

Several == {rows \in SUBSET Key : Cardinality(rows) > 1}

\* The others: canonical writes of several rows, deletes whose statements find
\* whatever rows of the table, and discards of several rows (a discard of one row
\* waits holding nothing).
LooseDeletes ==
    UNION {{DeleteLocks(candidates, locked, deleted) : candidates, locked, deleted \in SUBSET rows} : rows \in Together}
LooseStatements ==
    (LooseDeletes \cup {UpdateLocks(rows) : rows \in Together} \cup {InsertLocks(rows) : rows \in Together}
        \cup {DiscardLocks(d, rows) : d \in Draft, rows \in Several})
        \ (OrderedStatements \cup {<<>>})

-----------------------------------------------------------------------------
Init ==
    /\ todo = [b \in Backend |-> <<>>]
    /\ wants = [b \in Backend |-> {}]
    /\ held = [b \in Backend |-> {}]
    /\ loose = {}

Idle(b) == todo[b] = <<>> /\ held[b] = {}

BeginOrdered(b) ==
    /\ Idle(b)
    /\ \E locks \in OrderedStatements : todo' = [todo EXCEPT ![b] = locks]
    /\ UNCHANGED <<wants, held, loose>>

BeginLoose(b) ==
    /\ Idle(b) /\ Cardinality(loose) < MaxLoose
    /\ \E locks \in LooseStatements : todo' = [todo EXCEPT ![b] = locks]
    /\ loose' = loose \cup {b}
    /\ UNCHANGED <<wants, held>>

HeldByOther(b, l) == \E o \in Backend \ {b} : l \in held[o]

\* The locks it may ask for now: those of the first group, or the one it met.
Due(b) == IF todo[b] = <<>> THEN {} ELSE IF wants[b] # {} THEN wants[b] ELSE Head(todo[b])

Take(b, l) ==
    /\ l \in Due(b) /\ ~HeldByOther(b, l)
    /\ held' = [held EXCEPT ![b] = @ \cup {l}]
    /\ wants' = [wants EXCEPT ![b] = {}]
    /\ todo' = [todo EXCEPT ![b] = IF Head(@) = {l} THEN Tail(@) ELSE <<Head(@) \ {l}>> \o Tail(@)]
    /\ UNCHANGED loose

\* Of several locks it meets one that another holds, and waits for that.
Block(b, l) ==
    /\ l \in Due(b) /\ Due(b) # {l} /\ HeldByOther(b, l)
    /\ wants' = [wants EXCEPT ![b] = {l}]
    /\ UNCHANGED <<todo, held, loose>>

\* Commit or rollback.
End(b) ==
    /\ ~Idle(b) /\ todo[b] = <<>>
    /\ held' = [held EXCEPT ![b] = {}]
    /\ loose' = loose \ {b}
    /\ UNCHANGED <<todo, wants>>

\* It waits when another holds the only lock it may ask for.
WaitsFor(b, o) == b # o /\ \E l \in held[o] : Due(b) = {l}

\* Transactions each of which waits for another of them.
Deadlocked(ring) == ring # {} /\ \A b \in ring : \E o \in ring : WaitsFor(b, o)

\* PostgreSQL ends a circle of waits: it aborts one of the transactions.
Abort(b) ==
    /\ \E ring \in SUBSET Backend :
          b \in ring /\ Deadlocked(ring) /\ \A o \in ring : \E p \in ring : WaitsFor(p, o)
    /\ todo' = [todo EXCEPT ![b] = <<>>]
    /\ wants' = [wants EXCEPT ![b] = {}]
    /\ held' = [held EXCEPT ![b] = {}]
    /\ loose' = loose \ {b}

Next ==
    \E b \in Backend :
        \/ BeginOrdered(b) \/ BeginLoose(b)
        \/ \E l \in Due(b) : Take(b, l) \/ Block(b, l)
        \/ End(b)
        \/ Abort(b)

Spec == Init /\ [][Next]_lockVars

-----------------------------------------------------------------------------
TypeOK ==
    /\ todo \in [Backend -> Seq(SUBSET Locks)]
    /\ wants \in [Backend -> SUBSET Locks]
    /\ held \in [Backend -> SUBSET Locks]
    /\ loose \in SUBSET Backend

\* Statements that take their locks in order never wait for each other in a circle,
\* whatever else runs: every circle of waits has in it an update or insert of several
\* rows, a delete that found rows which were no candidates, or a discard.
\* `writeDraftRow` says what the order is for ("Every revision-aware path takes the
\* ledger row before the canonical row"); those do not keep it.
NoWaitCycle == \A ring \in SUBSET (Backend \ loose) : ~Deadlocked(ring)

=============================================================================
