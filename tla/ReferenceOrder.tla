---------------------------- MODULE ReferenceOrder ----------------------------
(***************************************************************************)
(* Two orders that foreign keys impose: the order in which a publication   *)
(* applies the changes of a draft, one statement per change, under checks  *)
(* PostgreSQL makes after every statement; and the order in which          *)
(* `syncSchema` creates tables.                                            *)
(*                                                                         *)
(* The rows are those of one table whose `ref` column references the       *)
(* unique `code` column of the same table, and codes may change: every     *)
(* pair of a child and a parent, a row and itself included, is there.      *)
(***************************************************************************)
EXTENDS Naturals, FiniteSets, Sequences, Functions

CONSTANTS
    Row,        \* rows, numbered in the order they are inspected
    CodesOf,    \* codes a row may have
    Refs,       \* codes a row may reference; 0 is NULL
    Table,      \* tables of the schema, numbered in the order of declaration
    Gone        \* there is no such row

VARIABLES
    original,   \* the canonical rows the draft is anchored at
    final,      \* the rows as the draft would have them
    recreated,  \* rows the draft deleted and inserted again
    references  \* table -> tables its foreign keys name

orderVars == <<original, final, recreated, references>>

\* Rows and tables are numbered, tables from 1 on.
RowsAndTables ==
    /\ Row \subseteq Nat /\ IsFiniteSet(Row)
    /\ IsFiniteSet(Table) /\ Table = 1..Cardinality(Table)

Versions(r) == {Gone} \cup [code : CodesOf[r], ref : Refs]

\* The checks of the database: codes are unique, and every reference is met.
There(db) == {r \in Row : db[r] # Gone}
ForeignKeysHold(db) == \A r \in There(db) : db[r].ref = 0 \/ \E p \in There(db) : db[p].code = db[r].ref
KeysUnique(db) == \A r, s \in There(db) : db[r].code = db[s].code => r = s
Consistent(db) == ForeignKeysHold(db) /\ KeysUnique(db)

Databases == {db \in [Row -> UNION {Versions(r) : r \in Row}] :
                 /\ \A r \in Row : db[r] \in Versions(r)
                 /\ Consistent(db)}

Init ==
    /\ original \in Databases /\ final = original /\ recreated = {}
    /\ references = [t \in Table |-> {}]

\* A command of the draft inserts, changes or deletes a row.
DraftPuts(r) ==
    /\ \E v \in Versions(r) \ {Gone, final[r]} :
           final' = [final EXCEPT ![r] = v]
    /\ recreated' = IF final[r] = Gone /\ original[r] # Gone THEN recreated \cup {r} ELSE recreated
    /\ UNCHANGED <<original, references>>
DraftDrops(r) ==
    /\ final[r] # Gone
    /\ final' = [final EXCEPT ![r] = Gone]
    /\ recreated' = recreated \ {r}
    /\ UNCHANGED <<original, references>>

\* The schema declares a foreign key.
Declare(t, u) ==
    /\ references' = [references EXCEPT ![t] = @ \cup {u}]
    /\ UNCHANGED <<original, final, recreated>>

Commands == \E r \in Row : DraftPuts(r) \/ DraftDrops(r)
Declarations == \E t, u \in Table : Declare(t, u)
Next == Commands \/ Declarations

Spec == Init /\ [][Next]_orderVars

-----------------------------------------------------------------------------
(* orderReviewedChangeSteps                                                *)

Operation(r) ==
    IF final[r] = Gone THEN "delete"
    ELSE IF original[r] = Gone \/ r \in recreated THEN "insert" ELSE "update"

\* Rows whose proposal changes nothing are not among the reviewed ones.
ReviewedRows == {r \in Row : original[r] # final[r] \/ r \in recreated}

\* A step is numbered as the code numbers them: by row, the delete first.
DeleteStep(r) == 2 * r
WriteStep(r) == 2 * r + 1
RowOf(s) == s \div 2
IsDelete(s) == s % 2 = 0

HasDelete(r) == r \in ReviewedRows /\ original[r] # Gone /\ Operation(r) \in {"delete", "insert"}
HasWrite(r) == r \in ReviewedRows /\ Operation(r) # "delete"
Steps == {DeleteStep(r) : r \in {x \in Row : HasDelete(x)}} \cup {WriteStep(r) : r \in {x \in Row : HasWrite(x)}}

\* `foreignKeyTuple`: undefined (0) for a row that is not there and for NULL.
RefIn(db, r) == IF db[r] = Gone THEN 0 ELSE db[r].ref
CodeIn(db, r) == IF db[r] = Gone THEN 0 ELSE db[r].code

\* The step at which a row stops, or starts, to have a tuple, if there is one.
Ends(r, changes) == IF HasDelete(r) THEN {DeleteStep(r)} ELSE IF changes /\ HasWrite(r) THEN {WriteStep(r)} ELSE {}
Starts(r, changes) == IF HasWrite(r) /\ (Operation(r) = "insert" \/ changes) THEN {WriteStep(r)} ELSE {}

RefMoves(r) == RefIn(original, r) # RefIn(final, r)
CodeMoves(r) == CodeIn(original, r) # CodeIn(final, r)

Recreation == {<<DeleteStep(r), WriteStep(r)>> : r \in {x \in Row : HasDelete(x) /\ HasWrite(x)}}

\* The reviewed rows a child references in a state of the table.
Parents(db, c) == {p \in ReviewedRows : RefIn(db, c) # 0 /\ RefIn(db, c) = CodeIn(db, p)}

\* A child lets go of a key before the parent loses it,
Releases == UNION {UNION {Ends(c, RefMoves(c)) \X Ends(p, CodeMoves(p)) : p \in Parents(original, c)} :
                      c \in ReviewedRows}
\* and takes one after the parent has it.
Acquisitions == UNION {UNION {Starts(p, CodeMoves(p)) \X Starts(c, RefMoves(c)) : p \in Parents(final, c)} :
                          c \in ReviewedRows}

\* Seeded fault: nobody waits for a child to let go.
Edges_NoRelease == {e \in Recreation \cup Acquisitions : e[1] # e[2]}

Edges == {e \in Recreation \cup Releases \cup Acquisitions : e[1] # e[2]}

\* The smallest step whose predecessors are all applied comes next.  If some
\* are left that never become ready, the code reports a cycle instead.
Ready(edges, applied) == {s \in Steps \ applied : \A e \in edges : e[2] = s => e[1] \in applied}
Smallest(S) == CHOOSE s \in S : \A x \in S : s <= x
Emitted(edges) ==
    LET prefix[n \in 0..Cardinality(Steps)] ==
            IF n = 0 THEN <<>>
            ELSE LET before == prefix[n - 1]
                     ready == Ready(edges, Range(before))
                 IN  IF ready = {} THEN before ELSE Append(before, Smallest(ready))
    IN  prefix
Ordered == Emitted(Edges)[Cardinality(Steps)]

-----------------------------------------------------------------------------
(* What PostgreSQL has after some of the steps.                            *)

\* `applyReviewedChangeStep`: a statement writes its own row.
After(applied) ==
    [r \in Row |-> IF WriteStep(r) \in applied THEN final[r]
                   ELSE IF DeleteStep(r) \in applied THEN Gone ELSE original[r]]

Extends(applied, s) ==
    /\ s \in Steps \ applied
    /\ HasDelete(RowOf(s)) /\ ~IsDelete(s) => DeleteStep(RowOf(s)) \in applied
    /\ Consistent(After(applied \cup {s}))

\* The sets of steps that can be applied, of each size.
Reached ==
    LET reached[n \in 0..Cardinality(Steps)] ==
            IF n = 0 THEN {{}}
            ELSE {pair[1] \cup {pair[2]} : pair \in {x \in reached[n - 1] \X Steps : Extends(x[1], x[2])}}
    IN  reached

\* Some order of the statements passes every check.
SomeOrderPasses == Consistent(final) /\ Reached[Cardinality(Steps)] # {}

\* If the changes can be applied one by one at all, no cycle is reported and the
\* order chosen never leaves a reference unmet.  (Codes that change hands are
\* not ordered by the code: such a publication may fail at a unique key.)
PublicationOrderIsSafe ==
    SomeOrderPasses =>
        LET order == Ordered
        IN  /\ Len(order) = Cardinality(Steps)
            /\ \A n \in DOMAIN order : ForeignKeysHold(After(Range(SubSeq(order, 1, n))))

-----------------------------------------------------------------------------
(* sortByFkDeps                                                            *)

\* One pass over the tables, in the order of declaration: what is not emitted yet
\* is, if its references are or nobody waits for them any more.
Pass(emitted, waits) ==
    LET done[t \in 0..Cardinality(Table)] ==
            IF t = 0 THEN emitted
            ELSE IF t \in Range(done[t - 1]) \/ (waits /\ ~(references[t] \ {t} \subseteq Range(done[t - 1])))
            THEN done[t - 1] ELSE Append(done[t - 1], t)
    IN  done[Cardinality(Table)]

\* Passes until one makes no progress; then the rest as declared.
Passes ==
    LET passes[n \in 0..Cardinality(Table)] == IF n = 0 THEN <<>> ELSE Pass(passes[n - 1], TRUE)
    IN  passes
CreationOrder == Pass(Passes[Cardinality(Table)], FALSE)

\* The tables a table references, directly or not: they are in every set that is
\* closed under references.
Closed(S) == \A u \in S : references[u] \ {u} \subseteq S
Reaches(t) == {v \in Table : \A S \in SUBSET Table : references[t] \ {t} \subseteq S /\ Closed(S) => v \in S}

\* Every table is created once, and after the tables it references, unless it
\* references its way into a cycle.
SchemaOrderIsSafe ==
    /\ IsInjective(CreationOrder) /\ Range(CreationOrder) = Table
    /\ \A i, j \in DOMAIN CreationOrder :
           LET t == CreationOrder[i]
               u == CreationOrder[j]
           IN  u \in references[t] \ {t} /\ (\A v \in Reaches(t) : v \notin Reaches(v)) => j < i

\* Referenced things come first, in both orders.
OrdersAreSafe == PublicationOrderIsSafe /\ SchemaOrderIsSafe

=============================================================================
