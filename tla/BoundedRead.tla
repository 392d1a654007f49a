----------------------------- MODULE BoundedRead -----------------------------
(***************************************************************************)
(* Reading a table through a draft.  What the reader should see is the     *)
(* table with the draft's changes applied; the query that is sent to       *)
(* PostgreSQL is one of three plans, two of which look at part of the      *)
(* table only.  One tenant; one column besides the primary key.            *)
(***************************************************************************)
EXTENDS Naturals, Integers, FiniteSets, Sequences, Functions

CONSTANTS
    Id,         \* primary keys
    Value,      \* values of the other column
    Absent,     \* there is no such row
    MaxLimit    \* bound: the largest limit tried

\* SQL's NULL: no comparison holds of it, and it sorts after every value.
Null == 1000
Cell == Value \cup {Null}

\* The keys of the table and the values of the column are numbers, in number
\* order; a value is below NULL, and an absent row is no value.
RowsAndValues ==
    /\ Id \subseteq Nat /\ IsFiniteSet(Id)
    /\ Value \subseteq 0 .. Null - 1
    /\ Absent \notin Cell
    /\ MaxLimit \in Nat

VARIABLES
    base,   \* id -> the row's column in the canonical table, or Absent
    delta   \* id -> the draft's change of the row

readVars == <<base, delta>>

\* A change deletes the row, or gives some of its fields, with the column
\* modelled among them or not.
Unchanged == <<>>
Delete == <<"delete">>
Touch == <<"fields">>
Fields(v) == <<"fields", v>>
Changes == {Unchanged, Delete, Touch} \cup {Fields(v) : v \in Cell}

\* A host writes the canonical row, or a command changes it in the draft.  The
\* two are independent: the table may have moved since the change was recorded.
HostWrites(r) == base' \in {[base EXCEPT ![r] = v] : v \in Cell \cup {Absent}} /\ UNCHANGED delta
DraftWrites(r) == delta' \in {[delta EXCEPT ![r] = c] : c \in Changes} /\ UNCHANGED base

Init == base = [r \in Id |-> Absent] /\ delta = [r \in Id |-> Unchanged]
Next == \E r \in Id : HostWrites(r) \/ DraftWrites(r)
Spec == Init /\ [][Next]_readVars

-----------------------------------------------------------------------------
(* Queries: filters, an order, a limit, and whether `first()` was called.  *)

Filter(on, op, value) == [on |-> on, op |-> op, value |-> value]
Points == {{Filter("id", "eq", r)} : r \in Id} \cup {{Filter("id", "eq", r), Filter("v", "eq", v)} : r \in Id, v \in Value}
          \cup {{Filter("id", "eq", r), Filter("id", "eq", s)} : r, s \in Id}
Ranges == {{}} \cup {{Filter("v", op, v)} : op \in {"ne", "lte"}, v \in Value}
          \cup {{Filter("id", "gt", r), Filter("v", "lte", r)} : r \in Id \cap Value}
Orders == {"id", "v", "v_desc"}
Queries == [filters : Points, order : {"id"}, limit : {-1}]
           \cup [filters : Ranges, order : Orders, limit : {-1} \cup 0..MaxLimit]

Holds(f, id, v) ==
    LET x == IF f.on = "id" THEN id ELSE v
    IN  /\ x # Null
        /\ CASE f.op = "eq" -> x = f.value [] f.op = "ne" -> x # f.value
             [] f.op = "gt" -> x > f.value [] f.op = "lte" -> x <= f.value

Matches(q, id, v) == \A f \in q.filters : Holds(f, id, v)

\* Rows are pairs of id and value; the id breaks ties.
Before(q, a, b) ==
    CASE q.order = "id" -> a[1] < b[1]
      [] q.order = "v" -> a[2] < b[2] \/ (a[2] = b[2] /\ a[1] < b[1])
      [] q.order = "v_desc" -> a[2] > b[2] \/ (a[2] = b[2] /\ a[1] < b[1])

Ordered(q, rows) ==
    CHOOSE s \in [1..Cardinality(rows) -> rows] : \A i, j \in DOMAIN s : i < j => Before(q, s[i], s[j])
Take(n, s) == SubSeq(s, 1, IF n < Len(s) THEN n ELSE Len(s))
Limited(n, s) == IF n < 0 THEN s ELSE Take(n, s)

-----------------------------------------------------------------------------
(* What the reader should see.                                             *)

Seen(r) ==
    CASE delta[r] = Delete -> Absent
      [] delta[r] = Unchanged -> base[r]
      [] delta[r] = Touch -> IF base[r] = Absent THEN Null ELSE base[r]
      [] OTHER -> delta[r][2]
Expected(q) ==
    Limited(q.limit, Ordered(q, {<<r, Seen(r)>> : r \in {x \in Id : Seen(x) # Absent /\ Matches(q, x, Seen(x))}}))

-----------------------------------------------------------------------------
(* What the query does.                                                    *)

BaseRows == {r \in Id : base[r] # Absent}
Changed == {r \in Id : delta[r] # Unchanged}

\* The select list, `effectiveExpression`: the change's field if it has one,
\* else the column of the base row, which is NULL where the join found none.
EffectiveValue(b, d, r) ==
    IF r \in d /\ Len(delta[r]) = 2 THEN delta[r][2]
    ELSE IF r \in b THEN base[r] ELSE Null

\* b FULL OUTER JOIN d, without the deleted rows, filtered, ordered, limited.
Join(q, b, d) ==
    LET rows == {<<r, EffectiveValue(b, d, r)>> : r \in {x \in b \cup d : ~(x \in d /\ delta[x] = Delete)}}
    IN  Limited(q.limit, Ordered(q, {row \in rows : Matches(q, row[1], row[2])}))

PointFilters(q) == {f \in q.filters : f.on = "id" /\ f.op = "eq"}

\* A primary key is pushed into both sides of the join (the first such filter:
\* any of them).
PointPlan(q) ==
    LET f == CHOOSE x \in PointFilters(q) : TRUE
    IN  Join(q, BaseRows \cap {f.value}, Changed \cap {f.value})

\* Seeded fault: the bound forgets the rows the draft takes away.
BaseTop_Limit(q) ==
    LET matching == {<<r, base[r]>> : r \in {x \in BaseRows : Matches(q, x, base[x])}}
    IN  {row[1] : row \in Range(Limited(q.limit, Ordered(q, matching)))}

\* `base_top`: the first L + M of the canonical rows that match as they are.
BaseTop(q) ==
    LET matching == {<<r, base[r]>> : r \in {x \in BaseRows : Matches(q, x, base[x])}}
        bound == IF q.limit < 0 THEN q.limit ELSE q.limit + Cardinality(Changed)
    IN  {row[1] : row \in Range(Limited(bound, Ordered(q, matching)))}

\* The unchanged ones of these, and the base rows of all changed ones.
CandidateBase(q) == (BaseTop(q) \ Changed) \cup (BaseRows \cap Changed)

BoundedPlan(q) == Join(q, CandidateBase(q), Changed)

Answer(q) ==
    IF PointFilters(q) # {} THEN PointPlan(q)
    ELSE IF q.limit >= 0 \/ q.filters # {} THEN BoundedPlan(q)
    ELSE Join(q, BaseRows, Changed)

\* `first()` asks for one row, or for none if the caller limited it to none.
First(q) == Answer([q EXCEPT !.limit = IF @ < 0 THEN 1 ELSE IF @ = 0 THEN 0 ELSE 1])

-----------------------------------------------------------------------------
\* Whatever plan is chosen, the rows, their values and their order are those of
\* the table with the draft applied: nothing that the draft hides counts against
\* the limit, and nothing that it moves into or out of the range is missed.
BoundedReadIsExact ==
    \A q \in Queries : /\ Answer(q) = Expected(q)
                       /\ First(q) = Take(1, Expected(q))

=============================================================================
