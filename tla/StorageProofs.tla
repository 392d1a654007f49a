---------------------------- MODULE StorageProofs ----------------------------
(***************************************************************************)
(* Theorems about the components that keep data.  RowLocks: for any number *)
(* of statements over any rows.  BoundedRead: for any table, draft and     *)
(* query.  ReferenceOrder: for any rows, codes and tables.  SecretVault:   *)
(* for any number of concurrent calls, of references, items and backends,  *)
(* whatever fails, is lost or crashes, and whatever the other users of the *)
(* provider do.  DraftLog: for a history of any length.                    *)
(***************************************************************************)
EXTENDS MCStorage, FiniteSetTheorems, FunctionTheorems, SequenceTheorems, WellFoundedInduction, TLAPS

-----------------------------------------------------------------------------
(* Induction over numbers, stated of sets, and the functions it makes. *)

\* A set of numbers that is not empty has a least one.
LEMMA Least ==
  ASSUME NEW T, T \subseteq Nat, T # {}
  PROVE  \E m \in T : \A n \in T : m <= n
<1> DEFINE R == {ss \in Nat \X Nat : ss[1] < ss[2]}
<1>1. IsWellFoundedOn(R, Nat)
  BY NatLessThanWellFounded DEF OpToRel
<1> HIDE DEF R
<1>2. PICK x \in T : \A y \in T : ~ (<<y, x>> \in R)
  BY <1>1, WFMin
<1>3. \A y \in T : ~(y < x)
  BY <1>2 DEF R
<1>4. QED
  BY <1>3

LEMMA Induction ==
  ASSUME NEW T, 0 \in T, \A n \in Nat : n \in T => n + 1 \in T
  PROVE  \A n \in Nat : n \in T
<1>1. SUFFICES ASSUME {n \in Nat : n \notin T} # {} PROVE FALSE
  OBVIOUS
<1>2. PICK m \in Nat : m \notin T /\ \A n \in Nat : n \notin T => m <= n
  BY <1>1, Least
<1>3. m # 0 /\ m - 1 \in Nat /\ m - 1 \in T
  BY <1>2
<1>4. QED
  BY <1>2, <1>3

\* What a recursive function is made of: a start, and a step for each turn.
Turns(F, n, S) == F \in [1 .. n -> [S -> S]]
Iterates(g, n, S, c, F) ==
  g \in [0 .. n -> S] /\ g[0] = c /\ \A i \in 1 .. n : g[i] = F[i][g[i - 1]]

LEMMA Recursion ==
  ASSUME NEW n \in Nat, NEW S, NEW c \in S, NEW F, Turns(F, n, S)
  PROVE  \E g : Iterates(g, n, S, c, F)
<1> USE DEF Turns, Iterates
<1> DEFINE Upto(m) == \E g \in [0 .. m -> S] : g[0] = c /\ \A i \in 1 .. m : g[i] = F[i][g[i - 1]]
<1> DEFINE N == {m \in Nat : m <= n => Upto(m)}
<1>1. 0 \in N
  <2>1. PICK g : g \in [0 .. 0 -> S] /\ g[0] = c
    <3>1. [i \in 0 .. 0 |-> c] \in [0 .. 0 -> S] /\ [i \in 0 .. 0 |-> c][0] = c
      OBVIOUS
    <3>2. QED
      BY <3>1
  <2>2. \A i \in 1 .. 0 : g[i] = F[i][g[i - 1]]
    OBVIOUS
  <2> HIDE DEF N
  <2>3. Upto(0)
    BY <2>1, <2>2
  <2> USE DEF N
  <2>4. QED
    BY <2>3
<1>2. ASSUME NEW m \in Nat, m \in N PROVE m + 1 \in N
  <2>1. SUFFICES ASSUME m + 1 <= n PROVE Upto(m + 1)
    OBVIOUS
  <2>2. PICK g \in [0 .. m -> S] : g[0] = c /\ \A i \in 1 .. m : g[i] = F[i][g[i - 1]]
    BY <1>2, <2>1
  <2>3. m + 1 \in 1 .. n /\ g[m] \in S /\ F[m + 1][g[m]] \in S
    BY <2>1, <2>2
  <2> DEFINE h == [i \in 0 .. m + 1 |-> IF i = m + 1 THEN F[m + 1][g[m]] ELSE g[i]]
  <2>4. h \in [0 .. m + 1 -> S]
    BY <2>2, <2>3
  <2>5. h[m + 1] = F[m + 1][g[m]] /\ \A i \in 0 .. m : h[i] = g[i]
    OBVIOUS
  <2> HIDE DEF h
  <2>6. h[0] = c
    BY <2>2, <2>5
  <2>7. \A i \in 1 .. m + 1 : h[i] = F[i][h[i - 1]]
    <3>1. ASSUME NEW i \in 1 .. m + 1 PROVE h[i] = F[i][h[i - 1]]
      <4>1. CASE i = m + 1
        BY <2>5, <4>1
      <4>2. CASE i \in 1 .. m
        <5>1. i - 1 \in 0 .. m /\ i \in 0 .. m
          BY <4>2
        <5>2. QED
          BY <2>2, <2>5, <4>2, <5>1
      <4>3. QED
        BY <4>1, <4>2
    <3>2. QED
      BY <3>1
  <2>8. QED
    BY <2>4, <2>6, <2>7
<1> HIDE DEF N
<1>3. \A m \in Nat : m \in N
  BY <1>1, <1>2, Induction
<1>4. QED
  BY <1>3 DEF N

-----------------------------------------------------------------------------
(* The rows of a statement in lock order *)

Increasing(s) == \A i, j \in DOMAIN s : i < j => s[i] < s[j]
Enumerates(s, T) == s \in [1 .. Cardinality(T) -> T] /\ Increasing(s)

\* A finite set of numbers can be counted upwards.
LEMMA CountUp ==
  ASSUME NEW T, T \subseteq Nat, IsFiniteSet(T)
  PROVE  \E s : Enumerates(s, T)
<1> DEFINE Countable(n) == \A U \in SUBSET Nat : IsFiniteSet(U) /\ Cardinality(U) = n => \E s : Enumerates(s, U)
<1> DEFINE N == {n \in Nat : Countable(n)}
<1>1. Countable(0)
  <2>1. SUFFICES ASSUME NEW U \in SUBSET Nat, IsFiniteSet(U), Cardinality(U) = 0
                 PROVE  \E s : Enumerates(s, U)
    OBVIOUS
  <2>2. PICK s : s = [i \in 1 .. 0 |-> 0]
    OBVIOUS
  <2>3. 1 .. 0 = {}
    OBVIOUS
  <2>4. s \in [1 .. 0 -> U] /\ DOMAIN s = {}
    BY <2>2, <2>3
  <2>5. QED
    BY <2>1, <2>4 DEF Enumerates, Increasing
<1>2. ASSUME NEW n \in Nat, Countable(n) PROVE Countable(n + 1)
  <2>1. SUFFICES ASSUME NEW U \in SUBSET Nat, IsFiniteSet(U), Cardinality(U) = n + 1
                 PROVE  \E s : Enumerates(s, U)
    OBVIOUS
  <2>2. U # {}
    BY <2>1, FS_EmptySet
  <2>3. PICK m \in U : \A x \in U : m <= x
    BY <2>1, <2>2, Least
  <2>4. PICK R : R = U \ {m}
    OBVIOUS
  <2>5. R \in SUBSET Nat /\ IsFiniteSet(R) /\ Cardinality(R) = n
    <3>1. IsFiniteSet(R) /\ Cardinality(R) = Cardinality(U) - 1
      BY <2>1, <2>3, <2>4, FS_RemoveElement
    <3>2. QED
      BY <2>1, <2>4, <3>1
  <2>6. PICK t : Enumerates(t, R)
    BY <1>2, <2>5
  <2>7. t \in [1 .. n -> R] /\ \A i, j \in 1 .. n : i < j => t[i] < t[j]
    BY <2>5, <2>6 DEF Enumerates, Increasing
  <2>8. \A x \in R : x \in Nat /\ m < x
    BY <2>1, <2>3, <2>4
  <2>9. PICK s : s = [i \in 1 .. n + 1 |-> IF i = 1 THEN m ELSE t[i - 1]]
    OBVIOUS
  <2>10. \A i \in 1 .. n + 1 : i # 1 => i - 1 \in 1 .. n
    OBVIOUS
  <2>11. s \in [1 .. n + 1 -> U]
    BY <2>3, <2>4, <2>7, <2>9, <2>10
  <2>12. ASSUME NEW i \in 1 .. n + 1, NEW j \in 1 .. n + 1, i < j PROVE s[i] < s[j]
    <3>1. j # 1 /\ s[j] = t[j - 1] /\ t[j - 1] \in R
      BY <2>7, <2>9, <2>10, <2>12
    <3>2. CASE i = 1
      BY <2>8, <2>9, <3>1, <3>2
    <3>3. CASE i # 1
      <4>1. i - 1 \in 1 .. n /\ j - 1 \in 1 .. n /\ i - 1 < j - 1
        BY <2>10, <2>12, <3>1, <3>3
      <4>2. s[i] = t[i - 1]
        BY <2>9, <3>3
      <4>3. QED
        BY <2>7, <3>1, <4>1, <4>2
    <3>4. QED
      BY <3>2, <3>3
  <2>13. QED
    BY <2>1, <2>11, <2>12 DEF Enumerates, Increasing
<1>3. 0 \in N /\ \A n \in Nat : n \in N => n + 1 \in N
  BY <1>1, <1>2
<1> HIDE DEF N
<1>4. \A n \in Nat : n \in N
  BY <1>3, Induction
<1>5. Cardinality(T) \in N
  BY <1>4, FS_CardinalityType
<1>6. QED
  BY <1>5 DEF N

\* Finiteness and size are those of the library.
LEMMA SameSize == ASSUME NEW T PROVE RowLock!Cardinality(T) = Cardinality(T) /\ RowLock!IsFiniteSet(T) = IsFiniteSet(T)
BY DEF RowLock!Cardinality, Cardinality, RowLock!IsFiniteSet, IsFiniteSet

\* `InLockOrder` is that enumeration, and leaves no row out.
LEMMA LockOrder ==
  ASSUME NEW T, T \subseteq Nat, IsFiniteSet(T)
  PROVE  /\ Cardinality(T) \in Nat
         /\ RowLock!InLockOrder(T) \in [1 .. Cardinality(T) -> T]
         /\ \A i, j \in 1 .. Cardinality(T) : i < j => RowLock!InLockOrder(T)[i] < RowLock!InLockOrder(T)[j]
         /\ \A r \in T : \E i \in 1 .. Cardinality(T) : RowLock!InLockOrder(T)[i] = r
<1>1. Cardinality(T) \in Nat
  BY FS_CardinalityType
<1>2. PICK n \in Nat : n = Cardinality(T)
  BY <1>1
<1>3. PICK s : s = RowLock!InLockOrder(T)
  OBVIOUS
<1>4. \E q \in [1 .. n -> T] : \A i, j \in DOMAIN q : i < j => q[i] < q[j]
  BY <1>2, CountUp DEF Enumerates, Increasing
<1>5. s \in [1 .. n -> T] /\ \A i, j \in DOMAIN s : i < j => s[i] < s[j]
  <2>1. RowLock!Cardinality(T) = n
    BY <1>2, SameSize
  <2>2. QED
    BY <1>3, <1>4, <2>1 DEF RowLock!InLockOrder
<1>6. \A i, j \in 1 .. n : i < j => s[i] < s[j]
  BY <1>5
<1>7. s \in Injection(1 .. n, T)
  <2>1. ASSUME NEW i \in 1 .. n, NEW j \in 1 .. n, s[i] = s[j] PROVE i = j
    <3>1. s[i] \in Nat /\ s[j] \in Nat
      BY <1>5
    <3>2. ~(i < j) /\ ~(j < i)
      BY <1>6, <2>1, <3>1
    <3>3. QED
      BY <3>2
  <2>2. QED
    BY <1>5, <2>1 DEF Injection, IsInjective
<1>8. Cardinality(1 .. n) = n
  BY FS_Interval
<1>9. s \in Surjection(1 .. n, T)
  BY <1>2, <1>7, <1>8, FS_Injection
<1>10. \A r \in T : \E i \in 1 .. n : s[i] = r
  BY <1>9 DEF Surjection
<1>11. QED
  BY <1>2, <1>3, <1>5, <1>6, <1>10

-----------------------------------------------------------------------------
(* FlattenSeq *)

Flattens(g, f, n) == g[0] = <<>> /\ \A i \in 1 .. n : g[i] = g[i - 1] \o f[i]

LEMMA FlattenSteps ==
  ASSUME NEW S, NEW n \in Nat, NEW f \in [1 .. n -> Seq(S)]
  PROVE  \E g \in [0 .. n -> Seq(S)] : Flattens(g, f, n)
<1> DEFINE F == [i \in 1 .. n |-> [q \in Seq(S) |-> q \o f[i]]]
<1>1. \A i \in 1 .. n, q \in Seq(S) : q \o f[i] \in Seq(S)
  BY ConcatProperties
<1>2. Turns(F, n, Seq(S)) /\ <<>> \in Seq(S)
  BY <1>1, EmptySeq DEF Turns
<1>3. \A i \in 1 .. n, q \in Seq(S) : F[i][q] = q \o f[i]
  OBVIOUS
<1> HIDE DEF F
<1>4. PICK g : Iterates(g, n, Seq(S), <<>>, F)
  BY <1>2, Recursion
<1>5. \A i \in 1 .. n : g[i - 1] \in Seq(S)
  BY <1>4 DEF Iterates
<1>6. g \in [0 .. n -> Seq(S)] /\ g[0] = <<>>
  BY <1>4 DEF Iterates
<1>7. \A i \in 1 .. n : g[i] = g[i - 1] \o f[i]
  BY <1>3, <1>4, <1>5 DEF Iterates
<1>8. QED
  BY <1>6, <1>7 DEF Flattens

LEMMA Flattening ==
  ASSUME NEW S, NEW n \in Nat, NEW f \in [1 .. n -> Seq(S)], NEW g \in [0 .. n -> Seq(S)], Flattens(g, f, n)
  PROVE  RowLock!FlattenSeq(f) = g[n]
<1>1. Len(f) = n
  OBVIOUS
<1>2. CASE n = 0
  <2>1. f = <<>>
    BY <1>1, <1>2, EmptySeq
  <2>2. RowLock!FlattenSeq(f) = f
    BY <1>1, <1>2 DEF RowLock!FlattenSeq
  <2>3. QED
    BY <1>2, <2>1, <2>2 DEF Flattens
<1>3. CASE n > 0
  <2> DEFINE Is(h) == h = [i \in 1 .. Len(f) |-> IF i = 1 THEN f[i] ELSE h[i - 1] \o f[i]]
  <2> DEFINE h == CHOOSE e : Is(e)
  <2>1. RowLock!FlattenSeq(f) = h[n]
    BY <1>1, <1>3 DEF RowLock!FlattenSeq
  <2>2. Is([i \in 1 .. n |-> g[i]])
    <3>1. PICK e : e = [i \in 1 .. n |-> g[i]]
      OBVIOUS
    <3>2. \A i \in 1 .. n : e[i] = IF i = 1 THEN f[i] ELSE e[i - 1] \o f[i]
      <4>1. ASSUME NEW i \in 1 .. n PROVE e[i] = IF i = 1 THEN f[i] ELSE e[i - 1] \o f[i]
        <5>1. e[i] = g[i - 1] \o f[i]
          BY <3>1 DEF Flattens
        <5>2. CASE i = 1
          <6>1. g[i - 1] = <<>>
            BY <5>2 DEF Flattens
          <6>2. <<>> \o f[i] = f[i]
            BY ConcatEmptySeq
          <6>3. QED
            BY <5>1, <5>2, <6>1, <6>2
        <5>3. CASE i # 1
          <6>1. i - 1 \in 1 .. n
            BY <5>3
          <6>2. e[i - 1] = g[i - 1]
            BY <3>1, <6>1
          <6>3. QED
            BY <5>1, <5>3, <6>2
        <5>4. QED
          BY <5>2, <5>3
      <4>2. QED
        BY <4>1
    <3>3. e = [i \in 1 .. n |-> e[i]]
      BY <3>1
    <3>4. QED
      BY <1>1, <3>1, <3>2, <3>3
  <2> HIDE DEF Is
  <2>3. Is(h)
    BY <2>2, Zenon
  <2> HIDE DEF h
  <2>4. \A i \in 1 .. n : h[i] = IF i = 1 THEN f[i] ELSE h[i - 1] \o f[i]
    BY <1>1, <2>3 DEF Is
  <2> DEFINE N == {m \in Nat : m + 1 <= n => h[m + 1] = g[m + 1]}
  <2>5. 0 \in N
    <3>0. 1 \in 1 .. n /\ 1 - 1 = 0
      BY <1>3
    <3>1. h[1] = f[1] /\ g[0] = <<>> /\ g[1] = g[0] \o f[1] /\ f[1] \in Seq(S)
      BY <2>4, <3>0 DEF Flattens
    <3>2. <<>> \o f[1] = f[1]
      BY <3>1, ConcatEmptySeq
    <3>3. QED
      BY <3>1, <3>2
  <2>6. ASSUME NEW m \in Nat, m \in N PROVE m + 1 \in N
    <3>1. SUFFICES ASSUME m + 2 <= n PROVE h[m + 2] = g[m + 2]
      <4>1. (m + 1) + 1 = m + 2
        OBVIOUS
      <4>2. QED
        BY <3>1, <4>1
    <3>2. m + 2 \in 1 .. n /\ m + 2 # 1 /\ (m + 2) - 1 = m + 1
      BY <3>1
    <3>3. h[m + 2] = h[m + 1] \o f[m + 2] /\ g[m + 2] = g[m + 1] \o f[m + 2]
      BY <2>4, <3>2 DEF Flattens
    <3>4. h[m + 1] = g[m + 1]
      BY <2>6, <3>1
    <3>5. QED
      BY <3>3, <3>4
  <2> HIDE DEF N
  <2>7. \A m \in Nat : m \in N
    BY <2>5, <2>6, Induction
  <2>8. n - 1 \in N
    BY <1>3, <2>7
  <2>9. QED
    BY <1>3, <2>1, <2>8 DEF N
<1>4. QED
  BY <1>2, <1>3

-----------------------------------------------------------------------------
(* What a statement locks, in order *)

\* The rows whose revisions are locked before the i-th group of q, if those of L
\* are to begin with; and after all of q.
Had(L, q, i) == L \cup {r \in Key : \E j \in 1 .. i - 1 : RowLock!Ledger(r) \in q[j]}
All(L, q) == Had(L, q, Len(q) + 1)

\* Revisions are locked one by one and upwards, and anything else of a row after
\* its revision.
InOrder(L, q) ==
  \A i \in 1 .. Len(q) : \A l \in q[i] :
    IF l[1] = "ledger"
      THEN q[i] = {l} /\ \A s \in Had(L, q, i) : s < l[2]
      ELSE l[2] \in Had(L, q, i)

Groups == Seq(SUBSET RowLock!Locks)

LEMMA LockFacts ==
  /\ \A r \in Key : /\ RowLock!Ledger(r) \in RowLock!Locks
                    /\ RowLock!Ledger(r)[1] = "ledger" /\ RowLock!Ledger(r)[2] = r
                    /\ RowLock!Canonical(r) \in RowLock!Locks
                    /\ RowLock!Canonical(r)[1] # "ledger" /\ RowLock!Canonical(r)[2] = r
  /\ \A d \in Draft, r \in Key : /\ RowLock!Change(d, r) \in RowLock!Locks
                                 /\ RowLock!Change(d, r)[1] # "ledger" /\ RowLock!Change(d, r)[2] = r
  /\ \A l \in RowLock!Locks : /\ l[2] \in Key
                              /\ l[1] = "ledger" => l = RowLock!Ledger(l[2])
BY LocksAssumption DEF RowLock!Ledger, RowLock!Canonical, RowLock!Change, RowLock!Locks,
                           RowLock!RowsInOrder

LEMMA KeyFacts ==
  /\ Key \subseteq Nat /\ IsFiniteSet(Key)
  /\ TableOf \in [Key -> Nat]
  /\ \A r, s \in Key : r < s => TableOf[r] <= TableOf[s]
  /\ \A T \in SUBSET Key : T \subseteq Nat /\ IsFiniteSet(T)
<1>1. Key \subseteq Nat /\ RowLock!IsFiniteSet(Key) /\ TableOf \in [Key -> Nat]
      /\ \A r, s \in Key : r < s => TableOf[r] <= TableOf[s]
  BY LocksAssumption DEF RowLock!RowsInOrder
<1>2. IsFiniteSet(Key)
  BY <1>1, SameSize
<1>3. \A T \in SUBSET Key : IsFiniteSet(T)
  BY <1>2, FS_Subset
<1>4. QED
  BY <1>1, <1>2, <1>3

LEMMA GroupFacts ==
  ASSUME NEW q \in Groups
  PROVE  /\ Len(q) \in Nat /\ DOMAIN q = 1 .. Len(q)
         /\ \A i \in 1 .. Len(q) : q[i] \subseteq RowLock!Locks
<1>1. Len(q) \in Nat /\ q \in [1 .. Len(q) -> SUBSET RowLock!Locks]
  BY LenProperties DEF Groups
<1>2. QED
  BY <1>1

LEMMA ConcatFacts ==
  ASSUME NEW q \in Groups, NEW b \in Groups
  PROVE  /\ q \o b \in Groups /\ Len(q \o b) = Len(q) + Len(b)
         /\ \A i \in 1 .. Len(q) : (q \o b)[i] = q[i]
         /\ \A i \in 1 .. Len(b) : (q \o b)[Len(q) + i] = b[i]
<1>1. Len(q) \in Nat /\ Len(b) \in Nat
  BY GroupFacts
<1>2. /\ q \o b \in Seq(SUBSET RowLock!Locks)
      /\ Len(q \o b) = Len(q) + Len(b)
      /\ \A i \in 1 .. Len(q) + Len(b) : (q \o b)[i] = IF i <= Len(q) THEN q[i] ELSE b[i - Len(q)]
  BY ConcatProperties DEF Groups
<1>3. \A i \in 1 .. Len(q) : i \in 1 .. Len(q) + Len(b) /\ i <= Len(q)
  BY <1>1
<1>4. \A i \in 1 .. Len(b) : /\ Len(q) + i \in 1 .. Len(q) + Len(b)
                             /\ ~(Len(q) + i <= Len(q)) /\ (Len(q) + i) - Len(q) = i
  BY <1>1
<1>5. QED
  BY <1>2, <1>3, <1>4 DEF Groups

\* One part after another.
LEMMA Joined ==
  ASSUME NEW L \in SUBSET Key, NEW q \in Groups, NEW b \in Groups,
         InOrder(L, q), InOrder(All(L, q), b)
  PROVE  InOrder(L, q \o b) /\ All(L, q \o b) = All(All(L, q), b)
<1>1. PICK m \in Nat, n \in Nat : m = Len(q) /\ n = Len(b)
  BY GroupFacts
<1>2. PICK c : c = q \o b
  OBVIOUS
<1>3. /\ Len(c) = m + n
      /\ \A i \in 1 .. m : c[i] = q[i]
      /\ \A i \in 1 .. n : c[m + i] = b[i]
  BY <1>1, <1>2, ConcatFacts
<1>4. ASSUME NEW i \in 1 .. m PROVE Had(L, c, i) = Had(L, q, i)
  <2>1. \A j \in 1 .. i - 1 : j \in 1 .. m
    OBVIOUS
  <2>2. QED
    BY <1>3, <2>1 DEF Had
<1>5. ASSUME NEW i \in 1 .. n + 1 PROVE Had(L, c, m + i) = Had(All(L, q), b, i)
  <2>1. \A r \in Key : (\E j \in 1 .. (m + i) - 1 : RowLock!Ledger(r) \in c[j])
                       <=> \/ \E j \in 1 .. m : RowLock!Ledger(r) \in q[j]
                           \/ \E j \in 1 .. i - 1 : RowLock!Ledger(r) \in b[j]
    <3>1. ASSUME NEW r \in Key, NEW j \in 1 .. (m + i) - 1, RowLock!Ledger(r) \in c[j]
          PROVE  \/ \E k \in 1 .. m : RowLock!Ledger(r) \in q[k]
                 \/ \E k \in 1 .. i - 1 : RowLock!Ledger(r) \in b[k]
      <4>1. CASE j <= m
        BY <1>3, <3>1, <4>1
      <4>2. CASE j > m
        <5>1. PICK k : k = j - m
          OBVIOUS
        <5>2. k \in 1 .. i - 1 /\ k \in 1 .. n /\ j = m + k
          BY <4>2, <5>1
        <5>3. QED
          BY <1>3, <3>1, <5>2
      <4>3. QED
        BY <4>1, <4>2
    <3>2. ASSUME NEW r \in Key, NEW j \in 1 .. m, RowLock!Ledger(r) \in q[j]
          PROVE  \E k \in 1 .. (m + i) - 1 : RowLock!Ledger(r) \in c[k]
      <4>1. j \in 1 .. (m + i) - 1
        OBVIOUS
      <4>2. QED
        BY <1>3, <3>2, <4>1
    <3>3. ASSUME NEW r \in Key, NEW j \in 1 .. i - 1, RowLock!Ledger(r) \in b[j]
          PROVE  \E k \in 1 .. (m + i) - 1 : RowLock!Ledger(r) \in c[k]
      <4>1. m + j \in 1 .. (m + i) - 1 /\ j \in 1 .. n
        OBVIOUS
      <4>2. QED
        BY <1>3, <3>3, <4>1
    <3>4. QED
      BY <3>1, <3>2, <3>3
  <2>2. (m + 1) - 1 = m
    OBVIOUS
  <2>3. QED
    BY <1>1, <2>1, <2>2 DEF Had, All
<1>6. All(L, c) = All(All(L, q), b)
  <2>1. n + 1 \in 1 .. n + 1 /\ m + (n + 1) = (m + n) + 1
    OBVIOUS
  <2>2. QED
    BY <1>1, <1>3, <1>5, <2>1 DEF All
<1>7. InOrder(L, c)
  <2>1. ASSUME NEW i \in 1 .. m + n, NEW l \in c[i]
        PROVE  IF l[1] = "ledger" THEN c[i] = {l} /\ \A s \in Had(L, c, i) : s < l[2]
                                  ELSE l[2] \in Had(L, c, i)
    <3>1. CASE i \in 1 .. m
      BY <1>1, <1>3, <1>4, <3>1 DEF InOrder
    <3>2. CASE i \notin 1 .. m
      <4>1. PICK k : k = i - m
        OBVIOUS
      <4>2. k \in 1 .. n /\ k \in 1 .. n + 1 /\ i = m + k
        BY <3>2, <4>1
      <4>3. c[i] = b[k] /\ Had(L, c, i) = Had(All(L, q), b, k)
        BY <1>3, <1>5, <4>2
      <4>4. QED
        BY <1>1, <4>2, <4>3 DEF InOrder
    <3>3. QED
      BY <3>1, <3>2
  <2>2. QED
    BY <1>3, <2>1 DEF InOrder
<1>8. QED
  BY <1>2, <1>6, <1>7

\* Nothing of a row whose revision is not locked.
LEMMA Covered ==
  ASSUME NEW L \in SUBSET Key, NEW q \in Groups,
         \A i \in 1 .. Len(q) : \A l \in q[i] : l[1] # "ledger" /\ l[2] \in L
  PROVE  InOrder(L, q) /\ All(L, q) = L
<1>1. Len(q) \in Nat
  BY GroupFacts
<1>2. \A i \in 1 .. Len(q) : \A r \in Key : RowLock!Ledger(r) \notin q[i]
  BY LockFacts
<1>3. \A i \in 1 .. Len(q) + 1 : Had(L, q, i) = L
  <2>1. \A i \in 1 .. Len(q) + 1 : \A j \in 1 .. i - 1 : j \in 1 .. Len(q)
    BY <1>1
  <2>2. QED
    BY <1>2, <2>1 DEF Had
<1>4. Len(q) + 1 \in 1 .. Len(q) + 1 /\ \A i \in 1 .. Len(q) : i \in 1 .. Len(q) + 1
  BY <1>1
<1>5. QED
  BY <1>3, <1>4 DEF InOrder, All

\* All of L come before all of T.
Precede(L, T) == \A s \in L, r \in T : s < r

\* `OneByOne(rows, Ledger)`.
LEMMA LedgersInOrder ==
  ASSUME NEW L \in SUBSET Key, NEW T \in SUBSET Key, Precede(L, T),
         NEW q, q = [i \in 1 .. Cardinality(T) |-> {RowLock!Ledger(RowLock!InLockOrder(T)[i])}]
  PROVE  q \in Groups /\ InOrder(L, q) /\ All(L, q) = L \cup T
<1>1. PICK n, s :
        /\ n \in Nat /\ s \in [1 .. n -> T]
        /\ n = Cardinality(T) /\ s = RowLock!InLockOrder(T)
        /\ \A i, j \in 1 .. n : i < j => s[i] < s[j]
        /\ \A r \in T : \E i \in 1 .. n : s[i] = r
  <2>1. PICK n, s : n = Cardinality(T) /\ s = RowLock!InLockOrder(T)
    OBVIOUS
  <2>2. T \subseteq Nat /\ IsFiniteSet(T)
    BY KeyFacts
  <2>3. /\ n \in Nat /\ s \in [1 .. n -> T]
        /\ \A i, j \in 1 .. n : i < j => s[i] < s[j]
        /\ \A r \in T : \E i \in 1 .. n : s[i] = r
    BY <2>1, <2>2, LockOrder
  <2>4. QED
    BY <2>1, <2>3
<1>2. q = [i \in 1 .. n |-> {RowLock!Ledger(s[i])}]
  BY <1>1
<1>3. \A i \in 1 .. n : s[i] \in Key /\ s[i] \in T
  BY <1>1
<1>4. q \in Groups /\ Len(q) = n
  <2>1. \A i \in 1 .. n : {RowLock!Ledger(s[i])} \in SUBSET RowLock!Locks
    BY <1>3, LockFacts
  <2>2. q \in [1 .. n -> SUBSET RowLock!Locks]
    BY <1>2, <2>1
  <2>3. QED
    BY <1>1, <2>2 DEF Groups
<1>5. \A i \in 1 .. n : \A r \in Key : RowLock!Ledger(r) \in q[i] <=> r = s[i]
  <2>1. \A i \in 1 .. n : q[i] = {RowLock!Ledger(s[i])} /\ s[i] \in Key
    BY <1>2, <1>3
  <2>2. \A r, t \in Key : RowLock!Ledger(r) = RowLock!Ledger(t) <=> r = t
    BY LockFacts
  <2>3. QED
    BY <2>1, <2>2
<1>6. ASSUME NEW i \in 1 .. n + 1
      PROVE  Had(L, q, i) = L \cup {s[j] : j \in 1 .. i - 1}
  <2>1. \A j \in 1 .. i - 1 : j \in 1 .. n
    BY <1>1
  <2>2. \A r \in Key : (\E j \in 1 .. i - 1 : RowLock!Ledger(r) \in q[j]) <=> r \in {s[j] : j \in 1 .. i - 1}
    BY <1>5, <2>1
  <2>3. {s[j] : j \in 1 .. i - 1} \subseteq Key
    BY <1>3, <2>1
  <2>4. QED
    BY <2>2, <2>3 DEF Had
<1>7. ASSUME NEW i \in 1 .. n PROVE \A l \in q[i] : /\ l[1] = "ledger" /\ q[i] = {l} /\ l[2] = s[i]
  <2>1. q[i] = {RowLock!Ledger(s[i])} /\ s[i] \in Key
    BY <1>2, <1>3
  <2>2. RowLock!Ledger(s[i])[1] = "ledger" /\ RowLock!Ledger(s[i])[2] = s[i]
    BY <2>1, LockFacts
  <2>3. QED
    BY <2>1, <2>2
<1>8. ASSUME NEW i \in 1 .. n PROVE \A x \in Had(L, q, i) : x < s[i]
  <2>1. \A x \in L : x < s[i]
    BY <1>3 DEF Precede
  <2>2. \A j \in 1 .. i - 1 : j \in 1 .. n /\ j < i
    BY <1>1
  <2>3. \A j \in 1 .. i - 1 : s[j] < s[i]
    BY <1>1, <2>2
  <2>4. i \in 1 .. n + 1
    BY <1>1
  <2>5. QED
    BY <1>6, <2>1, <2>3, <2>4
<1>9. All(L, q) = L \cup T
  <2>1. n + 1 \in 1 .. n + 1 /\ (n + 1) - 1 = n
    BY <1>1
  <2>2. {s[j] : j \in 1 .. n} = T
    BY <1>1
  <2>3. QED
    BY <1>4, <1>6, <2>1, <2>2 DEF All
<1>10. ASSUME NEW i \in 1 .. n, NEW l \in q[i]
       PROVE  l[1] = "ledger" /\ q[i] = {l} /\ \A x \in Had(L, q, i) : x < l[2]
  BY <1>7, <1>8
<1>11. InOrder(L, q)
  BY <1>4, <1>10 DEF InOrder
<1>12. QED
  BY <1>4, <1>9, <1>11

\* `OneByOne(rows, Canonical)`.
LEMMA CanonicalsInOrder ==
  ASSUME NEW L \in SUBSET Key, NEW T \in SUBSET Key, T \subseteq L,
         NEW q, q = [i \in 1 .. Cardinality(T) |-> {RowLock!Canonical(RowLock!InLockOrder(T)[i])}]
  PROVE  q \in Groups /\ InOrder(L, q) /\ All(L, q) = L
<1>1. PICK n, s : /\ n \in Nat /\ s \in [1 .. n -> T]
                  /\ n = Cardinality(T) /\ s = RowLock!InLockOrder(T)
  BY KeyFacts, LockOrder
<1>2. q = [i \in 1 .. n |-> {RowLock!Canonical(s[i])}] /\ \A i \in 1 .. n : s[i] \in Key /\ s[i] \in L
  BY <1>1
<1>3. q \in Groups /\ Len(q) = n
  <2>1. \A i \in 1 .. n : {RowLock!Canonical(s[i])} \in SUBSET RowLock!Locks
    BY <1>2, LockFacts
  <2>2. q \in [1 .. n -> SUBSET RowLock!Locks]
    BY <1>2, <2>1
  <2>3. QED
    BY <1>1, <2>2 DEF Groups
<1>4. ASSUME NEW i \in 1 .. n, NEW l \in q[i] PROVE l[1] # "ledger" /\ l[2] \in L
  <2>1. l = RowLock!Canonical(s[i]) /\ s[i] \in Key /\ s[i] \in L
    BY <1>2
  <2>2. QED
    BY <2>1, LockFacts
<1>5. QED
  BY <1>3, <1>4, Covered

LEMMA SingletonGroup ==
  ASSUME NEW G \in SUBSET RowLock!Locks
  PROVE  <<G>> \in Groups /\ Len(<<G>>) = 1 /\ <<G>>[1] = G
<1> DEFINE S == SUBSET RowLock!Locks
<1> HIDE DEF S
<1>1. \A x \in S : <<x>> \in Seq(S) /\ Len(<<x>>) = 1 /\ <<x>>[1] = x
  OBVIOUS
<1>2. G \in S
  BY DEF S
<1>3. <<G>> \in Seq(S) /\ Len(<<G>>) = 1 /\ <<G>>[1] = G
  BY <1>1, <1>2
<1>4. QED
  BY <1>3 DEF S, Groups

\* All canonical rows, or all changes of a draft, at once.
LEMMA TogetherInOrder ==
  ASSUME NEW L \in SUBSET Key, NEW G \in SUBSET RowLock!Locks,
         \A l \in G : l[1] # "ledger" /\ l[2] \in L
  PROVE  <<G>> \in Groups /\ InOrder(L, <<G>>) /\ All(L, <<G>>) = L
<1>1. PICK q : q = <<G>>
  OBVIOUS
<1>2. q \in Groups /\ Len(q) = 1 /\ q[1] = G
  BY <1>1, SingletonGroup
<1>3. \A i \in 1 .. Len(q) : \A l \in q[i] : l[1] # "ledger" /\ l[2] \in L
  BY <1>2
<1>4. QED
  BY <1>1, <1>2, <1>3, Covered

\* `RowTriple`, and the pair an insert locks.
LEMMA LedgerInOrder ==
  ASSUME NEW L \in SUBSET Key, NEW r \in Key, Precede(L, {r})
  PROVE  LET q == <<{RowLock!Ledger(r)}>>
         IN  q \in Groups /\ InOrder(L, q) /\ All(L, q) = L \cup {r}
<1>1. PICK q : q = <<{RowLock!Ledger(r)}>>
  OBVIOUS
<1>2. q \in Groups /\ Len(q) = 1 /\ q[1] = {RowLock!Ledger(r)}
  BY <1>1, LockFacts, SingletonGroup
<1>3. Had(L, q, 1) = L
  BY DEF Had
<1>4. All(L, q) = L \cup {r}
  <2>1. \A x \in Key : (\E j \in 1 .. 1 : RowLock!Ledger(x) \in q[j]) <=> x = r
    BY <1>2, LockFacts
  <2>2. (1 + 1) - 1 = 1
    OBVIOUS
  <2>3. QED
    BY <1>2, <2>1, <2>2 DEF All, Had
<1>5. InOrder(L, q)
  <2>1. \A l \in q[1] : l[1] = "ledger" /\ l[2] = r /\ q[1] = {l}
    BY <1>2, LockFacts
  <2>2. \A s \in L : s < r
    BY DEF Precede
  <2>3. QED
    BY <1>2, <1>3, <2>1, <2>2 DEF InOrder
<1>6. QED
  BY <1>1, <1>2, <1>4, <1>5

LEMMA TwoGroups ==
  ASSUME NEW S, NEW x \in S, NEW y \in S, NEW z \in S
  PROVE  <<x>> \o <<y>> = <<x, y>> /\ <<x, y>> \o <<z>> = <<x, y, z>>
<1>1. <<x>> \in Seq(S) /\ <<y>> \in Seq(S) /\ <<z>> \in Seq(S) /\ <<x, y>> \in Seq(S) /\ <<x, y, z>> \in Seq(S)
  OBVIOUS
<1>2. <<x>> \o <<y>> = <<x, y>>
  <2>1. PICK c, q : c = <<x>> \o <<y>> /\ q = <<x, y>>
    OBVIOUS
  <2>2. c \in Seq(S) /\ Len(c) = 2 /\ \A i \in 1 .. 2 : c[i] = IF i <= 1 THEN x ELSE y
    <3>1. Len(<<x>>) = 1 /\ Len(<<y>>) = 1
      OBVIOUS
    <3>2. /\ c \in Seq(S) /\ Len(c) = 1 + 1
          /\ \A i \in 1 .. 1 + 1 : c[i] = IF i <= 1 THEN <<x>>[i] ELSE <<y>>[i - 1]
      BY <1>1, <2>1, <3>1, ConcatProperties
    <3>3. <<x>>[1] = x /\ <<y>>[1] = y
      OBVIOUS
    <3>4. \A i \in 1 .. 2 : i = 1 \/ (i = 2 /\ i - 1 = 1)
      OBVIOUS
    <3>5. QED
      BY <3>2, <3>3, <3>4
  <2>3. q \in Seq(S) /\ Len(q) = 2 /\ q[1] = x /\ q[2] = y
    BY <1>1, <2>1
  <2>4. \A i \in 1 .. 2 : c[i] = q[i]
    <3>1. c[1] = x /\ c[2] = y
      BY <2>2
    <3>2. \A i \in 1 .. 2 : i = 1 \/ i = 2
      OBVIOUS
    <3>3. QED
      BY <2>3, <3>1, <3>2
  <2>5. c = q
    BY <2>2, <2>3, <2>4, SeqEqual
  <2>6. QED
    BY <2>1, <2>5
<1>3. <<x, y>> \o <<z>> = <<x, y, z>>
  <2>1. PICK c, q : c = <<x, y>> \o <<z>> /\ q = <<x, y, z>>
    OBVIOUS
  <2>2. c \in Seq(S) /\ Len(c) = 3 /\ c[1] = x /\ c[2] = y /\ c[3] = z
    <3>1. Len(<<x, y>>) = 2 /\ Len(<<z>>) = 1
      OBVIOUS
    <3>2. /\ c \in Seq(S) /\ Len(c) = 2 + 1
          /\ \A i \in 1 .. 2 + 1 : c[i] = IF i <= 2 THEN <<x, y>>[i] ELSE <<z>>[i - 2]
      BY <1>1, <2>1, <3>1, ConcatProperties
    <3>3. <<x, y>>[1] = x /\ <<x, y>>[2] = y /\ <<z>>[1] = z
      OBVIOUS
    <3>4. 1 <= 2 /\ 2 <= 2 /\ ~(3 <= 2) /\ 3 - 2 = 1 /\ 2 + 1 = 3 /\ 1 \in 1 .. 3 /\ 2 \in 1 .. 3 /\ 3 \in 1 .. 3
      OBVIOUS
    <3>5. QED
      BY <3>2, <3>3, <3>4
  <2>3. q \in Seq(S) /\ Len(q) = 3 /\ q[1] = x /\ q[2] = y /\ q[3] = z
    BY <1>1, <2>1
  <2>4. \A i \in 1 .. 3 : c[i] = q[i]
    <3>1. \A i \in 1 .. 3 : i = 1 \/ i = 2 \/ i = 3
      OBVIOUS
    <3>2. QED
      BY <2>2, <2>3, <3>1
  <2>5. c = q
    BY <2>2, <2>3, <2>4, SeqEqual
  <2>6. QED
    BY <2>1, <2>5
<1>4. QED
  BY <1>2, <1>3

LEMMA PairInOrder ==
  ASSUME NEW L \in SUBSET Key, NEW r \in Key, Precede(L, {r})
  PROVE  LET q == <<{RowLock!Ledger(r)}, {RowLock!Canonical(r)}>>
         IN  q \in Groups /\ InOrder(L, q) /\ All(L, q) = L \cup {r}
<1>1. PICK a, b : a = <<{RowLock!Ledger(r)}>> /\ b = <<{RowLock!Canonical(r)}>>
  OBVIOUS
<1>2. a \in Groups /\ InOrder(L, a) /\ All(L, a) = L \cup {r}
  BY <1>1, LedgerInOrder
<1>3. b \in Groups /\ InOrder(L \cup {r}, b) /\ All(L \cup {r}, b) = L \cup {r}
  <2>1. \A l \in {RowLock!Canonical(r)} : l[1] # "ledger" /\ l[2] \in L \cup {r}
    BY LockFacts
  <2>2. {RowLock!Canonical(r)} \in SUBSET RowLock!Locks /\ L \cup {r} \in SUBSET Key
    BY LockFacts
  <2>3. QED
    BY <1>1, <2>1, <2>2, TogetherInOrder
<1>4. a \o b \in Groups /\ InOrder(L, a \o b) /\ All(L, a \o b) = L \cup {r}
  <2>1. a \o b \in Groups
    BY <1>2, <1>3, ConcatFacts
  <2>2. InOrder(All(L, a), b) /\ All(All(L, a), b) = L \cup {r}
    BY <1>2, <1>3
  <2>3. InOrder(L, a \o b) /\ All(L, a \o b) = All(All(L, a), b)
    BY <1>2, <1>3, <2>2, Joined
  <2>4. QED
    BY <2>1, <2>2, <2>3
<1>5. a \o b = <<{RowLock!Ledger(r)}, {RowLock!Canonical(r)}>>
  <2>1. {RowLock!Ledger(r)} \in SUBSET RowLock!Locks /\ {RowLock!Canonical(r)} \in SUBSET RowLock!Locks
    BY LockFacts
  <2>2. QED
    BY <1>1, <2>1, TwoGroups
<1>6. QED
  BY <1>4, <1>5

LEMMA TripleInOrder ==
  ASSUME NEW L \in SUBSET Key, NEW r \in Key, NEW d \in Draft, Precede(L, {r})
  PROVE  LET q == RowLock!RowTriple(d, r)
         IN  q \in Groups /\ InOrder(L, q) /\ All(L, q) = L \cup {r}
<1>1. PICK a, b : a = <<{RowLock!Ledger(r)}, {RowLock!Canonical(r)}>> /\ b = <<{RowLock!Change(d, r)}>>
  OBVIOUS
<1>2. a \in Groups /\ InOrder(L, a) /\ All(L, a) = L \cup {r}
  BY <1>1, PairInOrder
<1>3. b \in Groups /\ InOrder(L \cup {r}, b) /\ All(L \cup {r}, b) = L \cup {r}
  <2>1. \A l \in {RowLock!Change(d, r)} : l[1] # "ledger" /\ l[2] \in L \cup {r}
    BY LockFacts
  <2>2. {RowLock!Change(d, r)} \in SUBSET RowLock!Locks /\ L \cup {r} \in SUBSET Key
    BY LockFacts
  <2>3. QED
    BY <1>1, <2>1, <2>2, TogetherInOrder
<1>4. a \o b \in Groups /\ InOrder(L, a \o b) /\ All(L, a \o b) = L \cup {r}
  <2>1. a \o b \in Groups
    BY <1>2, <1>3, ConcatFacts
  <2>2. InOrder(All(L, a), b) /\ All(All(L, a), b) = L \cup {r}
    BY <1>2, <1>3
  <2>3. InOrder(L, a \o b) /\ All(L, a \o b) = All(All(L, a), b)
    BY <1>2, <1>3, <2>2, Joined
  <2>4. QED
    BY <2>1, <2>2, <2>3
<1>5. a \o b = RowLock!RowTriple(d, r)
  <2>1. /\ {RowLock!Ledger(r)} \in SUBSET RowLock!Locks /\ {RowLock!Canonical(r)} \in SUBSET RowLock!Locks
        /\ {RowLock!Change(d, r)} \in SUBSET RowLock!Locks
    BY LockFacts
  <2>2. QED
    <3>1. <<{RowLock!Ledger(r)}, {RowLock!Canonical(r)}>> \o <<{RowLock!Change(d, r)}>>
          = <<{RowLock!Ledger(r)}, {RowLock!Canonical(r)}, {RowLock!Change(d, r)}>>
      <4>1. PICK S, x, y, z : /\ S = SUBSET RowLock!Locks /\ x = {RowLock!Ledger(r)}
                              /\ y = {RowLock!Canonical(r)} /\ z = {RowLock!Change(d, r)}
        OBVIOUS
      <4>2. x \in S /\ y \in S /\ z \in S
        BY <2>1, <4>1
      <4>3. <<x, y>> \o <<z>> = <<x, y, z>>
        BY <4>2, TwoGroups
      <4>4. QED
        BY <4>1, <4>3
    <3>2. QED
      BY <1>1, <3>1, Zenon DEF RowLock!RowTriple
<1>6. QED
  BY <1>4, <1>5

\* Parts in a row, each of which goes on where the one before it ended.
LEMMA FlattenInOrder ==
  ASSUME NEW n \in Nat, NEW f \in [1 .. n -> Groups], NEW R \in [0 .. n -> SUBSET Key], R[0] = {},
         \A i \in 1 .. n : InOrder(R[i - 1], f[i]) /\ All(R[i - 1], f[i]) = R[i]
  PROVE  LET q == RowLock!FlattenSeq(f)
         IN  q \in Groups /\ InOrder({}, q) /\ All({}, q) = R[n]
<1>1. PICK g \in [0 .. n -> Groups] : Flattens(g, f, n)
  BY FlattenSteps DEF Groups
<1>2. RowLock!FlattenSeq(f) = g[n]
  <2>1. PICK S : S = SUBSET RowLock!Locks
    OBVIOUS
  <2>2. f \in [1 .. n -> Seq(S)] /\ g \in [0 .. n -> Seq(S)]
    BY <2>1 DEF Groups
  <2>3. QED
    BY <1>1, <2>2, Flattening
<1> DEFINE N == {m \in Nat : m <= n => InOrder({}, g[m]) /\ All({}, g[m]) = R[m]}
<1>3. 0 \in N
  <2>1. g[0] = <<>> /\ Len(<<>>) = 0
    BY <1>1 DEF Flattens
  <2>2. InOrder({}, <<>>) /\ All({}, <<>>) = {}
    <3>1. 1 .. 0 = {} /\ (0 + 1) - 1 = 0
      OBVIOUS
    <3>2. QED
      BY <2>1, <3>1 DEF InOrder, All, Had
  <2>3. QED
    BY <2>1, <2>2
<1>4. ASSUME NEW m \in Nat, m \in N PROVE m + 1 \in N
  <2>1. SUFFICES ASSUME m + 1 <= n PROVE InOrder({}, g[m + 1]) /\ All({}, g[m + 1]) = R[m + 1]
    OBVIOUS
  <2>2. m \in 0 .. n /\ m + 1 \in 1 .. n /\ (m + 1) - 1 = m
    BY <2>1
  <2>3. g[m + 1] = g[m] \o f[m + 1] /\ g[m] \in Groups /\ f[m + 1] \in Groups
    BY <1>1, <2>2 DEF Flattens
  <2>4. InOrder({}, g[m]) /\ All({}, g[m]) = R[m]
    BY <1>4, <2>1
  <2>5. InOrder(R[m], f[m + 1]) /\ All(R[m], f[m + 1]) = R[m + 1]
    BY <2>2
  <2>6. InOrder({}, g[m] \o f[m + 1]) /\ All({}, g[m] \o f[m + 1]) = All(All({}, g[m]), f[m + 1])
    <3>1. {} \in SUBSET Key /\ InOrder(All({}, g[m]), f[m + 1])
      BY <2>4, <2>5
    <3>2. QED
      BY <2>3, <2>4, <3>1, Joined
  <2>7. QED
    BY <2>3, <2>4, <2>5, <2>6
<1> HIDE DEF N
<1>5. \A m \in Nat : m \in N
  BY <1>3, <1>4, Induction
<1>6. n \in N
  BY <1>5
<1>7. QED
  BY <1>1, <1>2, <1>6 DEF N

LEMMA DraftWriteInOrder ==
  ASSUME NEW d \in Draft, NEW T \in SUBSET Key
  PROVE  LET q == RowLock!DraftWriteLocks(d, T) IN q \in Groups /\ InOrder({}, q)
<1>1. PICK n, s : n = Cardinality(T) /\ s = RowLock!InLockOrder(T)
  OBVIOUS
<1>2. T \subseteq Nat /\ IsFiniteSet(T)
  BY KeyFacts
<1>3. n \in Nat /\ s \in [1 .. n -> T] /\ \A i, j \in 1 .. n : i < j => s[i] < s[j]
  BY <1>1, <1>2, LockOrder
<1>4. PICK f : f = [i \in 1 .. n |-> RowLock!RowTriple(d, s[i])]
  OBVIOUS
<1>5. PICK R : R = [i \in 0 .. n |-> {s[j] : j \in 1 .. i}]
  OBVIOUS
<1>6. \A i \in 1 .. n : s[i] \in Key /\ f[i] = RowLock!RowTriple(d, s[i])
  BY <1>3, <1>4
<1>7. \A i \in 0 .. n : R[i] = {s[j] : j \in 1 .. i} /\ \A j \in 1 .. i : j \in 1 .. n
  BY <1>3, <1>5
<1>8. \A i \in 0 .. n : R[i] \in SUBSET Key
  BY <1>6, <1>7
<1>9. R \in [0 .. n -> SUBSET Key]
  BY <1>5, <1>8
<1>10. R[0] = {}
  BY <1>3, <1>7
<1>11. ASSUME NEW i \in 1 .. n
       PROVE  f[i] \in Groups /\ InOrder(R[i - 1], f[i]) /\ All(R[i - 1], f[i]) = R[i]
  <2>1. i - 1 \in 0 .. n /\ i \in 0 .. n /\ \A j \in 1 .. i : j \in 1 .. i - 1 \/ j = i
    BY <1>3
  <2>2. R[i - 1] \in SUBSET Key /\ R[i] = R[i - 1] \cup {s[i]}
    <3>1. R[i - 1] = {s[j] : j \in 1 .. i - 1} /\ R[i] = {s[j] : j \in 1 .. i}
      BY <1>7, <2>1
    <3>2. \A j \in 1 .. i - 1 : j \in 1 .. i
      BY <1>3
    <3>3. i \in 1 .. i
      BY <1>3
    <3>4. {s[j] : j \in 1 .. i} = {s[j] : j \in 1 .. i - 1} \cup {s[i]}
      BY <2>1, <3>2, <3>3
    <3>5. QED
      BY <1>8, <2>1, <3>1, <3>4
  <2>3. Precede(R[i - 1], {s[i]})
    <3>1. \A j \in 1 .. i - 1 : j \in 1 .. n /\ j < i
      BY <1>3
    <3>2. \A j \in 1 .. i - 1 : s[j] < s[i]
      BY <1>3, <3>1
    <3>3. QED
      BY <1>7, <2>1, <3>2 DEF Precede
  <2>4. QED
    BY <1>6, <2>2, <2>3, TripleInOrder
<1>12. f \in [1 .. n -> Groups]
  BY <1>4, <1>6, <1>11
<1>13. RowLock!FlattenSeq(f) \in Groups /\ InOrder({}, RowLock!FlattenSeq(f))
  BY <1>3, <1>9, <1>10, <1>11, <1>12, FlattenInOrder
<1>14. RowLock!Cardinality(T) = n
  BY <1>1, SameSize
<1>15. RowLock!DraftWriteLocks(d, T) = RowLock!FlattenSeq(f)
  BY <1>1, <1>4, <1>14 DEF RowLock!DraftWriteLocks
<1>16. QED
  BY <1>13, <1>15

LEMMA LedgersAre ==
  ASSUME NEW T \in SUBSET Key
  PROVE  LET q == RowLock!OneByOne(T, RowLock!Ledger)
         IN  q \in Groups /\ InOrder({}, q) /\ All({}, q) = T
<1>1. PICK a : a = [i \in 1 .. Cardinality(T) |-> {RowLock!Ledger(RowLock!InLockOrder(T)[i])}]
  OBVIOUS
<1>2. {} \in SUBSET Key /\ Precede({}, T) /\ {} \cup T = T
  BY DEF Precede
<1>3. a \in Groups /\ InOrder({}, a) /\ All({}, a) = T
  BY <1>1, <1>2, LedgersInOrder
<1>4. RowLock!OneByOne(T, RowLock!Ledger) = a
  <2>1. RowLock!Cardinality(T) = Cardinality(T)
    BY SameSize
  <2>2. QED
    BY <1>1, <2>1 DEF RowLock!OneByOne
<1>5. QED
  BY <1>3, <1>4

LEMMA ScanLocks ==
  ASSUME NEW G \in SUBSET RowLock!Locks
  PROVE  RowLock!Scan(G) \in Groups
<1>1. <<>> \in Groups
  BY EmptySeq DEF Groups
<1>2. QED
  BY <1>1, SingletonGroup DEF RowLock!Scan

LEMMA LockSets ==
  ASSUME NEW T \in SUBSET Key
  PROVE  /\ RowLock!Canonicals(T) \in SUBSET RowLock!Locks
         /\ RowLock!Ledgers(T) \in SUBSET RowLock!Locks
         /\ \A l \in RowLock!Canonicals(T) : l[1] # "ledger" /\ l[2] \in T
  BY LockFacts DEF RowLock!Canonicals, RowLock!Ledgers

\* Canonical rows are found in any order, once their revisions are locked.
LEMMA ScanInOrder ==
  ASSUME NEW L \in SUBSET Key, NEW T \in SUBSET L
  PROVE  LET q == RowLock!Scan(RowLock!Canonicals(T))
         IN  q \in Groups /\ InOrder(L, q) /\ All(L, q) = L
<1>1. PICK G : G = RowLock!Canonicals(T)
  OBVIOUS
<1>2. G \in SUBSET RowLock!Locks /\ \A l \in G : l[1] # "ledger" /\ l[2] \in L
  BY <1>1, LockSets
<1>3. <<G>> \in Groups /\ InOrder(L, <<G>>) /\ All(L, <<G>>) = L
  BY <1>2, TogetherInOrder
<1>4. <<>> \in Groups /\ InOrder(L, <<>>) /\ All(L, <<>>) = L
  <2>1. <<>> \in Groups /\ Len(<<>>) = 0 /\ 1 .. 0 = {} /\ (0 + 1) - 1 = 0
    BY EmptySeq DEF Groups
  <2>2. QED
    BY <2>1 DEF InOrder, All, Had
<1>5. RowLock!Scan(G) = <<G>> \/ RowLock!Scan(G) = <<>>
  BY DEF RowLock!Scan
<1>6. QED
  BY <1>1, <1>3, <1>4, <1>5

LEMMA DeleteIs ==
  ASSUME NEW C \in SUBSET Key, NEW M \in SUBSET Key, NEW D \in SUBSET Key
  PROVE  RowLock!DeleteLocks(C, M, D) \in Groups
<1>1. PICK a, b, c, d : /\ a = RowLock!OneByOne(C, RowLock!Ledger)
                        /\ b = RowLock!Scan(RowLock!Canonicals(M))
                        /\ c = RowLock!Scan(RowLock!Ledgers(M \ C))
                        /\ d = RowLock!Scan(RowLock!Canonicals(D \ M))
  OBVIOUS
<1>2. a \in Groups
  BY <1>1, LedgersAre
<1>3. M \ C \in SUBSET Key /\ D \ M \in SUBSET Key
  OBVIOUS
<1>4. b \in Groups /\ c \in Groups /\ d \in Groups
  BY <1>1, <1>3, LockSets, ScanLocks
<1>5. a \o b \in Groups
  BY <1>2, <1>4, ConcatFacts
<1>6. (a \o b) \o c \in Groups
  BY <1>4, <1>5, ConcatFacts
<1>7. ((a \o b) \o c) \o d \in Groups
  BY <1>4, <1>6, ConcatFacts
<1>8. QED
  BY <1>1, <1>7 DEF RowLock!DeleteLocks

\* A delete whose statements find candidates only.
LEMMA DeleteInOrder ==
  ASSUME NEW C \in SUBSET Key, NEW M \in SUBSET C, NEW D \in SUBSET C
  PROVE  LET q == RowLock!DeleteLocks(C, M, D) IN q \in Groups /\ InOrder({}, q)
<1>1. PICK a, b, d : /\ a = RowLock!OneByOne(C, RowLock!Ledger)
                     /\ b = RowLock!Scan(RowLock!Canonicals(M))
                     /\ d = RowLock!Scan(RowLock!Canonicals(D \ M))
  OBVIOUS
<1>2. a \in Groups /\ InOrder({}, a) /\ All({}, a) = C /\ {} \in SUBSET Key
  BY <1>1, LedgersAre
<1>3. D \ M \in SUBSET C
  OBVIOUS
<1>4. b \in Groups /\ InOrder(C, b) /\ All(C, b) = C
  BY <1>1, ScanInOrder
<1>5. d \in Groups /\ InOrder(C, d)
  BY <1>1, <1>3, ScanInOrder
<1>6. a \o b \in Groups /\ InOrder({}, a \o b) /\ All({}, a \o b) = C
  <2>1. a \o b \in Groups
    BY <1>2, <1>4, ConcatFacts
  <2>2. InOrder(All({}, a), b) /\ All(All({}, a), b) = C
    BY <1>2, <1>4
  <2>3. InOrder({}, a \o b) /\ All({}, a \o b) = All(All({}, a), b)
    BY <1>2, <1>4, <2>2, Joined
  <2>4. QED
    BY <2>1, <2>2, <2>3
<1>7. (a \o b) \o d \in Groups /\ InOrder({}, (a \o b) \o d)
  <2>1. InOrder(All({}, a \o b), d)
    BY <1>5, <1>6
  <2>2. QED
    BY <1>2, <1>5, <1>6, <2>1, ConcatFacts, Joined
<1>8. RowLock!DeleteLocks(C, M, D) = (a \o b) \o d
  <2>1. M \ C = {} /\ RowLock!Ledgers({}) = {} /\ RowLock!Scan({}) = <<>>
    BY DEF RowLock!Ledgers, RowLock!Scan
  <2>2. RowLock!DeleteLocks(C, M, D) = ((a \o b) \o <<>>) \o d
    BY <1>1, <2>1 DEF RowLock!DeleteLocks
  <2>3. (a \o b) \o <<>> = a \o b
    BY <1>6, ConcatEmptySeq DEF Groups
  <2>4. QED
    BY <2>2, <2>3
<1>9. QED
  BY <1>7, <1>8

\* The rows of one table, when those of the tables before it are locked.
LEMMA TableInOrder ==
  ASSUME NEW L \in SUBSET Key, NEW T \in SUBSET Key, Precede(L, T),
         NEW a, a = [i \in 1 .. Cardinality(T) |-> {RowLock!Ledger(RowLock!InLockOrder(T)[i])}],
         NEW b, b = [i \in 1 .. Cardinality(T) |-> {RowLock!Canonical(RowLock!InLockOrder(T)[i])}]
  PROVE  a \o b \in Groups /\ InOrder(L, a \o b) /\ All(L, a \o b) = L \cup T
<1>1. a \in Groups /\ InOrder(L, a) /\ All(L, a) = L \cup T
  BY LedgersInOrder
<1>2. b \in Groups /\ InOrder(L \cup T, b) /\ All(L \cup T, b) = L \cup T
  <2>1. L \cup T \in SUBSET Key /\ T \subseteq L \cup T
    OBVIOUS
  <2>2. QED
    BY <2>1, CanonicalsInOrder
<1>3. InOrder(All(L, a), b) /\ All(All(L, a), b) = L \cup T
  BY <1>1, <1>2
<1>4. InOrder(L, a \o b) /\ All(L, a \o b) = All(All(L, a), b)
  BY <1>1, <1>2, <1>3, Joined
<1>5. QED
  BY <1>1, <1>2, <1>3, <1>4, ConcatFacts

LEMMA TablesFinite ==
  ASSUME NEW T \in SUBSET Key
  PROVE  LET U == {TableOf[r] : r \in T} IN U \subseteq Nat /\ IsFiniteSet(U)
<1>1. PICK U : U = {TableOf[r] : r \in T}
  OBVIOUS
<1>2. U \subseteq Nat
  BY <1>1, KeyFacts
<1>3. PICK f : f = [r \in T |-> TableOf[r]]
  OBVIOUS
<1>4. f \in Surjection(T, U)
  BY <1>1, <1>3 DEF Surjection
<1>5. IsFiniteSet(T)
  BY KeyFacts
<1>6. IsFiniteSet(U)
  BY <1>4, <1>5, FS_Surjection
<1>7. QED
  BY <1>1, <1>2, <1>6

LEMMA PublishInOrder ==
  ASSUME NEW d \in Draft, NEW T \in SUBSET Key
  PROVE  LET q == RowLock!PublishLocks(d, T) IN q \in Groups /\ InOrder({}, q)
<1>1. PICK U : U = {TableOf[r] : r \in T}
  OBVIOUS
<1>2. U \subseteq Nat /\ IsFiniteSet(U)
  BY <1>1, TablesFinite
<1>3. PICK n, s : n = Cardinality(U) /\ s = RowLock!InLockOrder(U)
  OBVIOUS
<1>4. /\ n \in Nat /\ s \in [1 .. n -> U]
      /\ \A i, j \in 1 .. n : i < j => s[i] < s[j]
      /\ \A u \in U : \E i \in 1 .. n : s[i] = u
  BY <1>2, <1>3, LockOrder
<1> DEFINE Rows(t) == {r \in T : TableOf[r] = t}
<1> DEFINE Leds(t) == [i \in 1 .. Cardinality(Rows(t)) |-> {RowLock!Ledger(RowLock!InLockOrder(Rows(t))[i])}]
<1> DEFINE Cans(t) == [i \in 1 .. Cardinality(Rows(t)) |-> {RowLock!Canonical(RowLock!InLockOrder(Rows(t))[i])}]
<1>5. PICK f : f = [i \in 1 .. n |-> Leds(s[i]) \o Cans(s[i])]
  OBVIOUS
<1>6. PICK R : R = [i \in 0 .. n |-> {r \in T : \E j \in 1 .. i : TableOf[r] = s[j]}]
  OBVIOUS
<1>7. R \in [0 .. n -> SUBSET Key] /\ R[0] = {} /\ R[n] = T
  <2>1. R \in [0 .. n -> SUBSET Key]
    BY <1>6
  <2>2. 1 .. 0 = {} /\ 0 \in 0 .. n /\ n \in 0 .. n
    BY <1>4
  <2>3. R[0] = {} /\ R[n] = {r \in T : \E j \in 1 .. n : TableOf[r] = s[j]}
    BY <1>6, <2>2
  <2>4. \A r \in T : \E j \in 1 .. n : TableOf[r] = s[j]
    BY <1>1, <1>4
  <2>5. QED
    BY <2>1, <2>3, <2>4
<1>8. ASSUME NEW i \in 1 .. n
      PROVE  f[i] \in Groups /\ InOrder(R[i - 1], f[i]) /\ All(R[i - 1], f[i]) = R[i]
  <2>1. PICK L, M, a, b : L = R[i - 1] /\ M = Rows(s[i]) /\ a = Leds(s[i]) /\ b = Cans(s[i])
    OBVIOUS
  <2>2. i - 1 \in 0 .. n /\ i \in 0 .. n /\ \A j \in 1 .. i : j \in 1 .. i - 1 \/ j = i
    BY <1>4
  <2>3. \A j \in 1 .. i - 1 : j \in 1 .. i /\ j \in 1 .. n /\ j < i
    BY <1>4
  <2>4. L = {r \in T : \E j \in 1 .. i - 1 : TableOf[r] = s[j]}
    BY <1>6, <2>1, <2>2
  <2>5. R[i] = L \cup M
    <3>1. R[i] = {r \in T : \E j \in 1 .. i : TableOf[r] = s[j]}
      BY <1>6, <2>2
    <3>2. i \in 1 .. i
      BY <1>4
    <3>3. \A r \in T : (\E j \in 1 .. i : TableOf[r] = s[j])
                       <=> (\E j \in 1 .. i - 1 : TableOf[r] = s[j]) \/ TableOf[r] = s[i]
      BY <2>2, <2>3, <3>2
    <3>4. M = {r \in T : TableOf[r] = s[i]}
      BY <2>1
    <3>5. QED
      BY <2>4, <3>1, <3>3, <3>4
  <2>6. Precede(L, M)
    <3>1. ASSUME NEW x \in L, NEW y \in M PROVE x < y
      <4>1. x \in Key /\ y \in Key /\ TableOf[y] = s[i]
        BY <2>1, <2>4, <3>1
      <4>2. PICK j \in 1 .. i - 1 : TableOf[x] = s[j]
        BY <2>4, <3>1
      <4>3. s[j] < s[i] /\ s[j] \in Nat /\ s[i] \in Nat
        BY <1>2, <1>4, <2>3
      <4>4. TableOf[x] < TableOf[y] /\ TableOf[x] \in Nat /\ TableOf[y] \in Nat
        BY <4>1, <4>2, <4>3
      <4>5. x \in Nat /\ y \in Nat /\ (y < x => TableOf[y] <= TableOf[x])
        BY <4>1, KeyFacts
      <4>6. x # y
        BY <4>4
      <4>7. QED
        BY <4>4, <4>5, <4>6
    <3>2. QED
      BY <3>1 DEF Precede
  <2>7. L \in SUBSET Key /\ M \in SUBSET Key
    BY <2>1, <2>4
  <2>8. /\ a = [k \in 1 .. Cardinality(M) |-> {RowLock!Ledger(RowLock!InLockOrder(M)[k])}]
        /\ b = [k \in 1 .. Cardinality(M) |-> {RowLock!Canonical(RowLock!InLockOrder(M)[k])}]
    BY <2>1
  <2>9. a \o b \in Groups /\ InOrder(L, a \o b) /\ All(L, a \o b) = L \cup M
    BY <2>6, <2>7, <2>8, TableInOrder
  <2>10. f[i] = a \o b
    BY <1>5, <2>1
  <2>11. QED
    BY <2>1, <2>5, <2>9, <2>10
<1>9. f \in [1 .. n -> Groups]
  <2>1. \A i \in 1 .. n : f[i] \in Groups
    BY <1>8
  <2>2. f = [i \in 1 .. n |-> f[i]]
    BY <1>5
  <2>3. QED
    BY <2>1, <2>2
<1>10. PICK q : q = RowLock!FlattenSeq(f)
  OBVIOUS
<1>11. q \in Groups /\ InOrder({}, q) /\ All({}, q) = T
  <2>1. q \in Groups /\ InOrder({}, q) /\ All({}, q) = R[n]
    BY <1>4, <1>7, <1>8, <1>9, <1>10, FlattenInOrder
  <2>2. QED
    BY <1>7, <2>1
<1>12. PICK b : b = <<{RowLock!Change(d, r) : r \in T}>>
  OBVIOUS
<1>13. b \in Groups /\ InOrder(T, b)
  <2>1. PICK G : G = {RowLock!Change(d, r) : r \in T}
    OBVIOUS
  <2>2. G \in SUBSET RowLock!Locks /\ \A l \in G : l[1] # "ledger" /\ l[2] \in T
    BY <2>1, LockFacts
  <2>3. QED
    BY <1>12, <2>1, <2>2, TogetherInOrder
<1>14. q \o b \in Groups /\ InOrder({}, q \o b)
  <2>1. {} \in SUBSET Key /\ InOrder(All({}, q), b)
    BY <1>11, <1>13
  <2>2. QED
    BY <1>11, <1>13, <2>1, ConcatFacts, Joined
<1>15. RowLock!PublishLocks(d, T) = q \o b
  <2>1. RowLock!Cardinality(U) = n
    BY <1>3, SameSize
  <2>2. \A t : RowLock!Cardinality(Rows(t)) = Cardinality(Rows(t))
    BY SameSize
  <2>3. QED
    BY <1>1, <1>3, <1>5, <1>10, <1>12, <2>1, <2>2 DEF RowLock!PublishLocks, RowLock!OneByOne
<1>16. QED
  BY <1>14, <1>15

\* What is left in order when a lock is taken.
Revised(L, l) == IF l[1] = "ledger" THEN L \cup {l[2]} ELSE L

LEMMA TailFacts ==
  ASSUME NEW q \in Groups, q # <<>>
  PROVE  /\ Len(q) \in Nat /\ Len(q) > 0 /\ Head(q) = q[1] /\ 1 \in 1 .. Len(q)
         /\ Tail(q) \in Groups /\ Len(Tail(q)) = Len(q) - 1
         /\ \A i \in 1 .. Len(q) - 1 : Tail(q)[i] = q[i + 1]
<1>1. Len(q) \in Nat /\ Len(q) # 0
  BY EmptySeq, LenProperties DEF Groups
<1>2. Tail(q) \in Groups /\ Len(Tail(q)) = Len(q) - 1 /\ Head(q) = q[1]
      /\ \A i \in 1 .. Len(q) - 1 : Tail(q)[i] = q[i + 1]
  BY HeadTailProperties DEF Groups
<1>3. QED
  BY <1>1, <1>2

LEMMA TakeWhole ==
  ASSUME NEW L \in SUBSET Key, NEW q \in Groups, q # <<>>, InOrder(L, q), NEW l, Head(q) = {l}
  PROVE  Tail(q) \in Groups /\ InOrder(Revised(L, l), Tail(q))
<1>1. PICK n, t : n = Len(q) /\ t = Tail(q)
  OBVIOUS
<1>2. /\ n \in Nat /\ n > 0 /\ q[1] = {l} /\ 1 \in 1 .. n
      /\ t \in Groups /\ Len(t) = n - 1
      /\ \A i \in 1 .. n - 1 : t[i] = q[i + 1]
  BY <1>1, TailFacts
<1>3. l \in RowLock!Locks
  BY <1>1, <1>2, GroupFacts
<1>4. ASSUME NEW i \in 1 .. n - 1 PROVE Had(Revised(L, l), t, i) = Had(L, q, i + 1)
  <2>1. \A r \in Key : (\E j \in 1 .. (i + 1) - 1 : RowLock!Ledger(r) \in q[j])
                       <=> RowLock!Ledger(r) = l \/ \E j \in 1 .. i - 1 : RowLock!Ledger(r) \in t[j]
    <3>1. ASSUME NEW r \in Key, NEW j \in 1 .. (i + 1) - 1, RowLock!Ledger(r) \in q[j]
          PROVE  RowLock!Ledger(r) = l \/ \E k \in 1 .. i - 1 : RowLock!Ledger(r) \in t[k]
      <4>1. CASE j = 1
        BY <1>2, <3>1, <4>1
      <4>2. CASE j # 1
        <5>1. j - 1 \in 1 .. i - 1 /\ j - 1 \in 1 .. n - 1 /\ (j - 1) + 1 = j
          BY <1>2, <4>2
        <5>2. t[j - 1] = q[j]
          BY <1>2, <5>1
        <5>3. QED
          BY <3>1, <5>1, <5>2
      <4>3. QED
        BY <4>1, <4>2
    <3>2. ASSUME NEW r \in Key, RowLock!Ledger(r) = l
          PROVE  \E j \in 1 .. (i + 1) - 1 : RowLock!Ledger(r) \in q[j]
      <4>1. 1 \in 1 .. (i + 1) - 1
        BY <1>2
      <4>2. QED
        BY <1>2, <3>2, <4>1
    <3>3. ASSUME NEW r \in Key, NEW k \in 1 .. i - 1, RowLock!Ledger(r) \in t[k]
          PROVE  \E j \in 1 .. (i + 1) - 1 : RowLock!Ledger(r) \in q[j]
      <4>1. k + 1 \in 1 .. (i + 1) - 1 /\ k \in 1 .. n - 1
        BY <1>2
      <4>2. QED
        BY <1>2, <3>3, <4>1
    <3>4. QED
      BY <3>1, <3>2, <3>3
  <2>2. \A r \in Key : RowLock!Ledger(r) = l <=> l[1] = "ledger" /\ r = l[2]
    BY <1>3, LockFacts
  <2>3. l[2] \in Key
    BY <1>3, LockFacts
  <2>4. QED
    BY <2>1, <2>2, <2>3 DEF Had, Revised
<1>5. \A i \in 1 .. n - 1 : i + 1 \in 1 .. n
  BY <1>2
<1>6. ASSUME NEW i \in 1 .. n - 1, NEW k \in t[i]
      PROVE  IF k[1] = "ledger" THEN t[i] = {k} /\ \A s \in Had(Revised(L, l), t, i) : s < k[2]
                                ELSE k[2] \in Had(Revised(L, l), t, i)
  <2>1. t[i] = q[i + 1] /\ Had(Revised(L, l), t, i) = Had(L, q, i + 1) /\ i + 1 \in 1 .. n
    BY <1>2, <1>4, <1>5
  <2>2. QED
    BY <1>1, <1>6, <2>1 DEF InOrder
<1>7. QED
  BY <1>1, <1>2, <1>6 DEF InOrder

LEMMA TakePart ==
  ASSUME NEW L \in SUBSET Key, NEW q \in Groups, q # <<>>, InOrder(L, q),
         NEW l \in Head(q), Head(q) # {l}
  PROVE  LET t == <<Head(q) \ {l}>> \o Tail(q)
         IN  t \in Groups /\ InOrder(Revised(L, l), t)
<1>1. PICK n, G, t : n = Len(q) /\ G = Head(q) \ {l} /\ t = <<G>> \o Tail(q)
  OBVIOUS
<1>2. /\ n \in Nat /\ n > 0 /\ Head(q) = q[1] /\ 1 \in 1 .. n
      /\ Tail(q) \in Groups /\ Len(Tail(q)) = n - 1
      /\ \A i \in 1 .. n - 1 : Tail(q)[i] = q[i + 1]
  BY <1>1, TailFacts
<1>3. G \in SUBSET RowLock!Locks /\ l \in RowLock!Locks
  BY <1>1, <1>2, GroupFacts
<1>4. <<G>> \in Groups /\ Len(<<G>>) = 1 /\ <<G>>[1] = G
  BY <1>3, SingletonGroup
<1>5. /\ t \in Groups /\ Len(t) = 1 + (n - 1)
      /\ t[1] = G
      /\ \A i \in 1 .. n - 1 : t[1 + i] = q[i + 1]
  <2>1. /\ t \in Groups /\ Len(t) = Len(<<G>>) + Len(Tail(q))
        /\ \A i \in 1 .. Len(<<G>>) : t[i] = <<G>>[i]
        /\ \A i \in 1 .. Len(Tail(q)) : t[Len(<<G>>) + i] = Tail(q)[i]
    BY <1>1, <1>2, <1>4, ConcatFacts
  <2>2. QED
    BY <1>2, <1>4, <2>1
<1>6. Len(t) = n /\ \A i \in 1 .. n : i = 1 \/ (i # 1 /\ t[i] = q[i])
  <2>1. \A i \in 1 .. n : i # 1 => i - 1 \in 1 .. n - 1 /\ 1 + (i - 1) = i /\ (i - 1) + 1 = i
    BY <1>2
  <2>2. QED
    BY <1>2, <1>5, <2>1
<1>7. \A k \in q[1] : k[1] # "ledger" /\ k[2] \in L
  <2>1. Had(L, q, 1) = L
    BY DEF Had
  <2>2. ASSUME NEW k \in q[1], k[1] = "ledger" PROVE FALSE
    <3>1. q[1] = {k}
      BY <1>1, <1>2, <2>2 DEF InOrder
    <3>2. QED
      BY <1>2, <3>1
  <2>3. QED
    BY <1>1, <1>2, <2>1, <2>2 DEF InOrder
<1>8. Revised(L, l) = L
  BY <1>2, <1>7 DEF Revised
<1>9. \A r \in Key : RowLock!Ledger(r) \notin q[1] /\ RowLock!Ledger(r) \notin t[1]
  BY <1>1, <1>2, <1>5, <1>7, LockFacts
<1>10. ASSUME NEW i \in 1 .. n PROVE Had(L, t, i) = Had(L, q, i)
  <2>1. \A j \in 1 .. i - 1 : j \in 1 .. n
    BY <1>2
  <2>2. \A r \in Key, j \in 1 .. i - 1 : RowLock!Ledger(r) \in t[j] <=> RowLock!Ledger(r) \in q[j]
    BY <1>6, <1>9, <2>1
  <2>3. QED
    BY <2>2 DEF Had
<1>11. ASSUME NEW i \in 1 .. n, NEW k \in t[i]
       PROVE  IF k[1] = "ledger" THEN t[i] = {k} /\ \A s \in Had(L, t, i) : s < k[2]
                                 ELSE k[2] \in Had(L, t, i)
  <2>1. CASE i = 1
    <3>1. k \in q[1]
      BY <1>1, <1>2, <1>5, <1>11, <2>1
    <3>2. k[1] # "ledger" /\ k[2] \in L
      BY <1>7, <3>1
    <3>3. QED
      BY <3>2 DEF Had
  <2>2. CASE i # 1
    <3>1. t[i] = q[i] /\ Had(L, t, i) = Had(L, q, i)
      BY <1>6, <1>10, <2>2
    <3>2. QED
      BY <1>1, <1>11, <3>1 DEF InOrder
  <2>3. QED
    BY <2>1, <2>2
<1>12. InOrder(L, t)
  BY <1>6, <1>11 DEF InOrder
<1>13. QED
  BY <1>1, <1>5, <1>8, <1>12

LEMMA Greatest ==
  ASSUME NEW T, T \subseteq Nat, IsFiniteSet(T), T # {}
  PROVE  \E m \in T : \A x \in T : x <= m
<1>1. PICK n, s : n = Cardinality(T) /\ s = RowLock!InLockOrder(T)
  OBVIOUS
<1>2. /\ n \in Nat /\ s \in [1 .. n -> T]
      /\ \A i, j \in 1 .. n : i < j => s[i] < s[j]
      /\ \A r \in T : \E i \in 1 .. n : s[i] = r
  BY <1>1, LockOrder
<1>3. n # 0
  BY <1>1, FS_EmptySet
<1>4. n \in 1 .. n
  BY <1>2, <1>3
<1>5. ASSUME NEW x \in T PROVE x <= s[n]
  <2>1. PICK i \in 1 .. n : s[i] = x
    BY <1>2
  <2>2. s[n] \in Nat /\ x \in Nat
    BY <1>2, <1>4
  <2>3. CASE i = n
    BY <2>1, <2>2, <2>3
  <2>4. CASE i < n
    BY <1>2, <1>4, <2>1, <2>2, <2>4
  <2>5. QED
    BY <1>2, <2>3, <2>4
<1>6. QED
  BY <1>2, <1>4, <1>5

-----------------------------------------------------------------------------
(* The invariant of the row locks *)

\* The rows whose revisions a connection has locked.
Revisions(b) == {r \in Key : RowLock!Ledger(r) \in held[b]}

\* A statement that locks a revision before anything else of a row,
Orderly(b) ==
  /\ InOrder(Revisions(b), todo[b])
  /\ \A l \in held[b] : l[1] # "ledger" => l[2] \in Revisions(b)
\* or one that locks a single canonical row.
Single(b) ==
  \E r \in Key : \/ held[b] = {} /\ todo[b] = <<{RowLock!Canonical(r)}>>
                 \/ held[b] = {RowLock!Canonical(r)} /\ todo[b] = <<>>

\* Either, unless its statement keeps no order.
InTurn(b) == b \in loose \/ Orderly(b) \/ Single(b)

\* A connection waits for a lock its statement asks for.
Asks(b) == wants[b] # {} => todo[b] # <<>> /\ \E l \in Head(todo[b]) : wants[b] = {l}

LocksType ==
  /\ todo \in [Connection -> Groups]
  /\ wants \in [Connection -> SUBSET RowLock!Locks]
  /\ held \in [Connection -> SUBSET RowLock!Locks]
  /\ loose \in SUBSET Connection
LocksInv ==
  /\ LocksType
  /\ \A b \in Connection : InTurn(b) /\ Asks(b)
  /\ \A b, o \in Connection : b # o => held[b] \cap held[o] = {}

LEMMA InitLocks == RowLock!Init => LocksInv
<1> SUFFICES ASSUME RowLock!Init PROVE LocksInv
  OBVIOUS
<1>1. /\ todo = [b \in Connection |-> <<>>] /\ wants = [b \in Connection |-> {}]
      /\ held = [b \in Connection |-> {}] /\ loose = {}
  BY DEF RowLock!Init
<1>2. <<>> \in Groups /\ Len(<<>>) = 0 /\ 1 .. 0 = {}
  BY EmptySeq DEF Groups
<1>3. LocksType
  BY <1>1, <1>2 DEF LocksType
<1>4. \A b \in Connection : Orderly(b) /\ Asks(b)
  BY <1>1, <1>2 DEF Orderly, Asks, InOrder
<1>5. QED
  BY <1>1, <1>3, <1>4 DEF LocksInv, InTurn

\* One row only, found by a canonical update or inserted.
LEMMA SingleRow ==
  ASSUME NEW r \in Key
  PROVE  /\ RowLock!UpdateLocks({r}) = <<{RowLock!Canonical(r)}>>
         /\ RowLock!InsertLocks({r}) = <<{RowLock!Ledger(r)}, {RowLock!Canonical(r)}>>
         /\ <<{RowLock!Canonical(r)}>> \in Groups
<1>1. RowLock!Canonicals({r}) = {RowLock!Canonical(r)} /\ RowLock!Ledgers({r}) = {RowLock!Ledger(r)}
  BY DEF RowLock!Canonicals, RowLock!Ledgers
<1>2. /\ RowLock!Scan({RowLock!Canonical(r)}) = <<{RowLock!Canonical(r)}>>
      /\ RowLock!Scan({RowLock!Ledger(r)}) = <<{RowLock!Ledger(r)}>>
  BY DEF RowLock!Scan
<1>3. {RowLock!Ledger(r)} \in SUBSET RowLock!Locks /\ {RowLock!Canonical(r)} \in SUBSET RowLock!Locks
  BY LockFacts
<1>4. <<{RowLock!Ledger(r)}>> \o <<{RowLock!Canonical(r)}>> = <<{RowLock!Ledger(r)}, {RowLock!Canonical(r)}>>
  BY <1>3, TwoGroups
<1>5. <<{RowLock!Canonical(r)}>> \in Groups
  BY <1>3, SingletonGroup
<1>6. QED
  BY <1>1, <1>2, <1>4, <1>5 DEF RowLock!UpdateLocks, RowLock!InsertLocks

\* How a statement that is not loose begins.
Begun(q) == q \in Groups /\ (InOrder({}, q) \/ \E r \in Key : q = <<{RowLock!Canonical(r)}>>)

LEMMA StatementInOrder ==
  ASSUME NEW q \in RowLock!OrderedStatements
  PROVE  Begun(q)
<1>1. \A T : T \in RowLock!Together => T \in SUBSET Key
  BY DEF RowLock!Together
<1>2. CASE q \in RowLock!DraftStatements
  <2>1. PICK d \in Draft, T \in SUBSET Key :
          \/ q = RowLock!DraftWriteLocks(d, T)
          \/ q = RowLock!PublishLocks(d, T)
    BY <1>1, <1>2 DEF RowLock!DraftStatements
  <2>2. QED
    BY <2>1, DraftWriteInOrder, PublishInOrder DEF Begun
<1>3. CASE q \in RowLock!OneRowStatements
  <2>1. PICK r \in Key : q = RowLock!UpdateLocks({r}) \/ q = RowLock!InsertLocks({r})
    BY <1>3 DEF RowLock!OneRowStatements
  <2>2. \/ q \in Groups /\ q = <<{RowLock!Canonical(r)}>>
        \/ q = <<{RowLock!Ledger(r)}, {RowLock!Canonical(r)}>>
    BY <2>1, SingleRow
  <2>3. {} \in SUBSET Key /\ Precede({}, {r})
    BY DEF Precede
  <2>4. QED
    BY <2>2, <2>3, PairInOrder DEF Begun
<1>4. CASE q \in RowLock!OrderedDeletes
  <2>1. PICK T \in RowLock!Together : \E M, D \in SUBSET T : q = RowLock!DeleteLocks(T, M, D)
    BY <1>4 DEF RowLock!OrderedDeletes
  <2>2. PICK M, D : M \in SUBSET T /\ D \in SUBSET T /\ q = RowLock!DeleteLocks(T, M, D)
    BY <2>1
  <2>3. QED
    BY <1>1, <2>2, DeleteInOrder DEF Begun
<1>5. \/ q \in RowLock!DraftStatements
      \/ q \in RowLock!OneRowStatements
      \/ q \in RowLock!OrderedDeletes
  BY DEF RowLock!OrderedStatements
<1>6. QED
  BY <1>2, <1>3, <1>4, <1>5

LEMMA LooseIs ==
  ASSUME NEW q \in RowLock!LooseStatements
  PROVE  q \in Groups
<1>1. \A T : T \in RowLock!Together => T \in SUBSET Key
  BY DEF RowLock!Together
<1>2. CASE q \in RowLock!LooseDeletes
  <2>1. PICK T \in RowLock!Together : \E C, M, D \in SUBSET T : q = RowLock!DeleteLocks(C, M, D)
    BY <1>2 DEF RowLock!LooseDeletes
  <2>2. PICK C, M, D : C \in SUBSET T /\ M \in SUBSET T /\ D \in SUBSET T /\ q = RowLock!DeleteLocks(C, M, D)
    BY <2>1
  <2>3. C \in SUBSET Key /\ M \in SUBSET Key /\ D \in SUBSET Key
    BY <1>1, <2>2
  <2>4. QED
    BY <2>2, <2>3, DeleteIs
<1>3. CASE \E T \in RowLock!Together : q = RowLock!UpdateLocks(T)
  BY <1>1, <1>3, LockSets, ScanLocks DEF RowLock!UpdateLocks
<1>4. CASE \E T \in RowLock!Together : q = RowLock!InsertLocks(T)
  <2>1. PICK T \in SUBSET Key : q = RowLock!InsertLocks(T)
    BY <1>1, <1>4
  <2>2. PICK a, b : a = RowLock!Scan(RowLock!Ledgers(T)) /\ b = RowLock!Scan(RowLock!Canonicals(T))
    OBVIOUS
  <2>3. a \in Groups /\ b \in Groups
    BY <2>2, LockSets, ScanLocks
  <2>4. QED
    BY <2>1, <2>2, <2>3, ConcatFacts DEF RowLock!InsertLocks
<1>5. CASE q \in {RowLock!DiscardLocks(d, T) : d \in Draft, T \in RowLock!Several}
  <2>1. PICK d \in Draft, T \in SUBSET Key : q = RowLock!DiscardLocks(d, T)
    BY <1>5 DEF RowLock!Several
  <2>2. PICK G : G = {RowLock!Change(d, r) : r \in T}
    OBVIOUS
  <2>3. G \in SUBSET RowLock!Locks
    BY <2>2, LockFacts
  <2>4. QED
    BY <2>1, <2>2, <2>3, ScanLocks DEF RowLock!DiscardLocks
<1>6. \/ q \in RowLock!LooseDeletes
      \/ q \in {RowLock!UpdateLocks(T) : T \in RowLock!Together}
      \/ q \in {RowLock!InsertLocks(T) : T \in RowLock!Together}
      \/ q \in {RowLock!DiscardLocks(d, T) : d \in Draft, T \in RowLock!Several}
  BY DEF RowLock!LooseStatements
<1>7. QED
  BY <1>2, <1>3, <1>4, <1>5, <1>6

LEMMA BeginLocks ==
  ASSUME LocksInv, NEW b \in Connection, RowLock!BeginOrdered(b) \/ RowLock!BeginLoose(b)
  PROVE  LocksInv'
<1>1. PICK q \in Groups :
        /\ todo[b] = <<>> /\ held[b] = {} /\ todo' = [todo EXCEPT ![b] = q]
        /\ wants' = wants /\ held' = held /\ loose \subseteq loose' /\ loose' \in SUBSET Connection
        /\ b \in loose' \/ InOrder({}, q) \/ \E r \in Key : q = <<{RowLock!Canonical(r)}>>
  <2>1. loose \in SUBSET Connection
    BY DEF LocksInv, LocksType
  <2>2. CASE RowLock!BeginOrdered(b)
    <3>1. /\ todo[b] = <<>> /\ held[b] = {} /\ wants' = wants /\ held' = held /\ loose' = loose
          /\ \E q \in RowLock!OrderedStatements : todo' = [todo EXCEPT ![b] = q]
      BY <2>2 DEF RowLock!BeginOrdered, RowLock!Idle
    <3>2. PICK q \in RowLock!OrderedStatements : todo' = [todo EXCEPT ![b] = q]
      BY <3>1
    <3>3. QED
      BY <2>1, <3>1, <3>2, StatementInOrder DEF Begun
  <2>3. CASE RowLock!BeginLoose(b)
    <3>1. /\ todo[b] = <<>> /\ held[b] = {} /\ wants' = wants /\ held' = held /\ loose' = loose \cup {b}
          /\ \E q \in RowLock!LooseStatements : todo' = [todo EXCEPT ![b] = q]
      BY <2>3 DEF RowLock!BeginLoose, RowLock!Idle
    <3>2. PICK q \in RowLock!LooseStatements : todo' = [todo EXCEPT ![b] = q]
      BY <3>1
    <3>3. QED
      BY <2>1, <3>1, <3>2, LooseIs
  <2>4. QED
    BY <2>2, <2>3
<1>3. todo'[b] = q /\ \A o \in Connection \ {b} : todo'[o] = todo[o]
  BY <1>1 DEF LocksInv, LocksType
<1>4. LocksType'
  BY <1>1 DEF LocksInv, LocksType
<1>5. wants[b] = {}
  BY <1>1 DEF LocksInv, Asks
<1>6. Revisions(b)' = {}
  BY <1>1 DEF Revisions
<1>7. InTurn(b)' /\ Asks(b)'
  <2>1. Asks(b)'
    BY <1>1, <1>5 DEF Asks
  <2>2. CASE InOrder({}, q)
    <3>1. InOrder(Revisions(b), todo[b])'
      BY <1>3, <1>6, <2>2
    <3>2. held'[b] = {}
      BY <1>1
    <3>3. QED
      BY <2>1, <3>1, <3>2 DEF Orderly, InTurn
  <2>3. CASE \E r \in Key : q = <<{RowLock!Canonical(r)}>>
    BY <1>1, <1>3, <2>1, <2>3 DEF Single, InTurn
  <2>4. CASE b \in loose'
    BY <2>1, <2>4 DEF InTurn
  <2>5. QED
    BY <1>1, <2>2, <2>3, <2>4
<1>8. ASSUME NEW o \in Connection, o # b PROVE InTurn(o)' /\ Asks(o)'
  <2>1. todo'[o] = todo[o] /\ wants'[o] = wants[o] /\ held'[o] = held[o]
    BY <1>1, <1>3, <1>8
  <2>2. InTurn(o) /\ Asks(o)
    BY DEF LocksInv
  <2>3. QED
    BY <1>1, <2>1, <2>2 DEF InTurn, Orderly, Single, Asks, Revisions
<1>9. \A c, o \in Connection : c # o => held'[c] \cap held'[o] = {}
  BY <1>1 DEF LocksInv
<1>10. QED
  BY <1>4, <1>7, <1>8, <1>9 DEF LocksInv

LEMMA TakeLock ==
  ASSUME LocksInv, NEW b \in Connection, NEW l, RowLock!Take(b, l)
  PROVE  LocksInv'
<1>1. PICK q : q = todo[b]
  OBVIOUS
<1>2. q \in Groups /\ held[b] \subseteq RowLock!Locks /\ Asks(b) /\ InTurn(b)
  BY <1>1 DEF LocksInv, LocksType
<1>3. q # <<>> /\ l \in Head(q) /\ \A o \in Connection \ {b} : l \notin held[o]
  BY <1>1, <1>2 DEF RowLock!Take, RowLock!Due, RowLock!HeldByOther, Asks
<1>4. PICK t : t = IF Head(q) = {l} THEN Tail(q) ELSE <<Head(q) \ {l}>> \o Tail(q)
  OBVIOUS
<1>5. /\ held' = [held EXCEPT ![b] = held[b] \cup {l}]
      /\ wants' = [wants EXCEPT ![b] = {}]
      /\ todo' = [todo EXCEPT ![b] = t]
      /\ loose' = loose
  BY <1>1, <1>4 DEF RowLock!Take
<1>6. /\ held'[b] = held[b] \cup {l} /\ wants'[b] = {} /\ todo'[b] = t
      /\ \A o \in Connection \ {b} : held'[o] = held[o] /\ wants'[o] = wants[o] /\ todo'[o] = todo[o]
  BY <1>5 DEF LocksInv, LocksType
<1>7. l \in RowLock!Locks /\ l[2] \in Key
  <2>1. Head(q) = q[1] /\ 1 \in 1 .. Len(q)
    BY <1>2, <1>3, TailFacts
  <2>2. l \in RowLock!Locks
    BY <1>2, <1>3, <2>1, GroupFacts
  <2>3. QED
    BY <2>2, LockFacts
<1>8. Revisions(b)' = Revised(Revisions(b), l)
  <2>1. \A r \in Key : RowLock!Ledger(r) = l <=> l[1] = "ledger" /\ r = l[2]
    BY <1>7, LockFacts
  <2>2. QED
    BY <1>6, <1>7, <2>1 DEF Revisions, Revised
<1>9. t \in Groups /\ InTurn(b)'
  <2>1. CASE Orderly(b)
    <3>1. PICK L : L = Revisions(b)
      OBVIOUS
    <3>2. L \in SUBSET Key /\ InOrder(L, q)
      BY <1>1, <2>1, <3>1 DEF Orderly, Revisions
    <3>3. t \in Groups /\ InOrder(Revised(L, l), t)
      <4>1. CASE Head(q) = {l}
        BY <1>2, <1>3, <1>4, <3>2, <4>1, TakeWhole
      <4>2. CASE Head(q) # {l}
        BY <1>2, <1>3, <1>4, <3>2, <4>2, TakePart
      <4>3. QED
        BY <4>1, <4>2
    <3>4. l[1] # "ledger" => l[2] \in L
      <4>1. Head(q) = q[1] /\ 1 \in 1 .. Len(q) /\ Had(L, q, 1) = L
        BY <1>2, <1>3, TailFacts DEF Had
      <4>2. QED
        BY <1>3, <3>2, <4>1 DEF InOrder
    <3>5. L \subseteq Revised(L, l)
      BY DEF Revised
    <3>6. \A k \in held'[b] : k[1] # "ledger" => k[2] \in Revised(L, l)
      BY <1>6, <2>1, <3>1, <3>4, <3>5 DEF Orderly
    <3>7. QED
      BY <1>6, <1>8, <3>1, <3>3, <3>6 DEF Orderly, InTurn
  <2>2. CASE Single(b)
    <3>1. PICK r \in Key : held[b] = {} /\ q = <<{RowLock!Canonical(r)}>>
      BY <1>1, <1>3, <2>2 DEF Single
    <3>2. Head(q) = {RowLock!Canonical(r)} /\ Tail(q) = <<>>
      BY <3>1
    <3>3. l = RowLock!Canonical(r) /\ t = <<>>
      BY <1>3, <1>4, <3>2
    <3>4. t \in Groups
      BY <3>3, EmptySeq DEF Groups
    <3>5. QED
      BY <1>6, <3>1, <3>3, <3>4 DEF Single, InTurn
  <2>3. CASE b \in loose
    <3>1. Tail(q) \in Groups /\ 1 \in 1 .. Len(q) /\ Head(q) = q[1]
      BY <1>2, <1>3, TailFacts
    <3>2. Head(q) \ {l} \in SUBSET RowLock!Locks
      BY <1>2, <3>1, GroupFacts
    <3>3. <<Head(q) \ {l}>> \o Tail(q) \in Groups
      BY <3>1, <3>2, SingletonGroup, ConcatFacts
    <3>4. t \in Groups
      BY <1>4, <3>1, <3>3
    <3>5. QED
      BY <1>5, <2>3, <3>4 DEF InTurn
  <2>4. QED
    BY <1>2, <2>1, <2>2, <2>3 DEF InTurn
<1>10. LocksType'
  BY <1>2, <1>5, <1>7, <1>9 DEF LocksInv, LocksType
<1>11. ASSUME NEW o \in Connection, o # b PROVE InTurn(o)' /\ Asks(o)'
  <2>1. todo'[o] = todo[o] /\ wants'[o] = wants[o] /\ held'[o] = held[o]
    BY <1>6, <1>11
  <2>2. InTurn(o) /\ Asks(o)
    BY DEF LocksInv
  <2>3. QED
    BY <1>5, <2>1, <2>2 DEF InTurn, Orderly, Single, Asks, Revisions
<1>12. Asks(b)'
  BY <1>6 DEF Asks
<1>13. \A c, o \in Connection : c # o => held'[c] \cap held'[o] = {}
  <2>1. ASSUME NEW c \in Connection, NEW o \in Connection, c # o PROVE held'[c] \cap held'[o] = {}
    <3>1. held[c] \cap held[o] = {}
      BY <2>1 DEF LocksInv
    <3>2. CASE c = b
      BY <1>3, <1>6, <2>1, <3>1, <3>2
    <3>3. CASE o = b
      BY <1>3, <1>6, <2>1, <3>1, <3>3
    <3>4. CASE c # b /\ o # b
      BY <1>6, <3>1, <3>4
    <3>5. QED
      BY <3>2, <3>3, <3>4
  <2>2. QED
    BY <2>1
<1>14. QED
  BY <1>9, <1>10, <1>11, <1>12, <1>13 DEF LocksInv

LEMMA BlockLocks ==
  ASSUME LocksInv, NEW b \in Connection, NEW l, RowLock!Block(b, l)
  PROVE  LocksInv'
<1>1. /\ todo[b] # <<>> /\ l \in Head(todo[b])
      /\ wants' = [wants EXCEPT ![b] = {l}] /\ todo' = todo /\ held' = held /\ loose' = loose
  <2>1. Asks(b)
    BY DEF LocksInv
  <2>2. QED
    BY <2>1 DEF RowLock!Block, RowLock!Due, Asks
<1>2. LocksType'
  <2>1. todo[b] \in Groups
    BY DEF LocksInv, LocksType
  <2>2. Head(todo[b]) = todo[b][1] /\ 1 \in 1 .. Len(todo[b])
    BY <1>1, <2>1, TailFacts
  <2>3. l \in RowLock!Locks
    BY <1>1, <2>1, <2>2, GroupFacts
  <2>4. QED
    BY <1>1, <2>3 DEF LocksInv, LocksType
<1>3. ASSUME NEW o \in Connection PROVE InTurn(o)' /\ Asks(o)'
  <2>1. InTurn(o) /\ Asks(o)
    BY DEF LocksInv
  <2>2. InTurn(o)'
    BY <1>1, <2>1 DEF InTurn, Orderly, Single, Revisions
  <2>3. Asks(o)'
    <3>1. CASE o = b
      <4>1. wants'[b] = {l}
        BY <1>1 DEF LocksInv, LocksType
      <4>2. QED
        BY <1>1, <3>1, <4>1 DEF Asks
    <3>2. CASE o # b
      <4>1. wants'[o] = wants[o]
        BY <1>1, <3>2 DEF LocksInv, LocksType
      <4>2. QED
        BY <1>1, <2>1, <4>1 DEF Asks
    <3>3. QED
      BY <3>1, <3>2
  <2>4. QED
    BY <2>2, <2>3
<1>4. QED
  BY <1>1, <1>2, <1>3 DEF LocksInv

LEMMA EndLocks ==
  ASSUME LocksInv, NEW b \in Connection, RowLock!End(b) \/ RowLock!Abort(b)
  PROVE  LocksInv'
<1>1. /\ held' = [held EXCEPT ![b] = {}] /\ loose' = loose \ {b}
      /\ todo' = [todo EXCEPT ![b] = <<>>] /\ wants' = [wants EXCEPT ![b] = {}]
  <2>1. CASE RowLock!End(b)
    <3>1. todo[b] = <<>> /\ wants' = wants /\ todo' = todo
      BY <2>1 DEF RowLock!End
    <3>2. wants[b] = {}
      BY <3>1 DEF LocksInv, Asks
    <3>3. wants' = [wants EXCEPT ![b] = {}] /\ todo' = [todo EXCEPT ![b] = <<>>]
      BY <3>1, <3>2 DEF LocksInv, LocksType
    <3>4. QED
      BY <2>1, <3>3 DEF RowLock!End
  <2>2. CASE RowLock!Abort(b)
    BY <2>2 DEF RowLock!Abort
  <2>3. QED
    BY <2>1, <2>2
<1>2. /\ held'[b] = {} /\ todo'[b] = <<>> /\ wants'[b] = {}
      /\ \A o \in Connection \ {b} : held'[o] = held[o] /\ todo'[o] = todo[o] /\ wants'[o] = wants[o]
  BY <1>1 DEF LocksInv, LocksType
<1>3. LocksType'
  <2>1. <<>> \in Groups
    BY EmptySeq DEF Groups
  <2>2. QED
    BY <1>1, <2>1 DEF LocksInv, LocksType
<1>4. Orderly(b)' /\ Asks(b)'
  <2>1. Len(<<>>) = 0 /\ 1 .. 0 = {}
    OBVIOUS
  <2>2. QED
    BY <1>2, <2>1 DEF Orderly, InOrder, Asks
<1>5. ASSUME NEW o \in Connection, o # b PROVE InTurn(o)' /\ Asks(o)'
  <2>1. InTurn(o) /\ Asks(o)
    BY DEF LocksInv
  <2>2. held'[o] = held[o] /\ todo'[o] = todo[o] /\ wants'[o] = wants[o]
    BY <1>2, <1>5
  <2>3. o \in loose => o \in loose'
    BY <1>1, <1>5
  <2>4. QED
    BY <2>1, <2>2, <2>3 DEF InTurn, Orderly, Single, Revisions, Asks
<1>6. \A c, o \in Connection : c # o => held'[c] \cap held'[o] = {}
  BY <1>2 DEF LocksInv
<1>7. QED
  BY <1>3, <1>4, <1>5, <1>6 DEF LocksInv, InTurn

LEMMA StepLocks == LocksInv /\ [StorageNext]_allVars => LocksInv'
<1> SUFFICES ASSUME LocksInv, [StorageNext]_allVars PROVE LocksInv'
  OBVIOUS
<1>1. CASE UNCHANGED lockVars
  BY <1>1 DEF lockVars, LocksInv, LocksType, InTurn, Orderly, Single, Asks, Revisions
<1>2. CASE RowLock!Next
  <2>1. PICK b \in Connection :
          \/ RowLock!BeginOrdered(b) \/ RowLock!BeginLoose(b)
          \/ \E l \in RowLock!Due(b) : RowLock!Take(b, l) \/ RowLock!Block(b, l)
          \/ RowLock!End(b) \/ RowLock!Abort(b)
    BY <1>2 DEF RowLock!Next
  <2>2. CASE RowLock!BeginOrdered(b) \/ RowLock!BeginLoose(b)
    BY <2>2, BeginLocks
  <2>3. CASE \E l \in RowLock!Due(b) : RowLock!Take(b, l) \/ RowLock!Block(b, l)
    <3>1. PICK l : RowLock!Take(b, l) \/ RowLock!Block(b, l)
      BY <2>3
    <3>2. QED
      BY <3>1, TakeLock, BlockLocks
  <2>4. CASE RowLock!End(b) \/ RowLock!Abort(b)
    BY <2>4, EndLocks
  <2>5. QED
    BY <2>1, <2>2, <2>3, <2>4
<1>3. UNCHANGED lockVars \/ RowLock!Next
  BY DEF StorageNext, VaultStep, LogStep, LockStep, OrderStep, ReadStep, allVars
<1>4. QED
  BY <1>1, <1>2, <1>3

\* Who is waited for and waits itself waits for the revision of a later row.
LEMMA WaitsUpwards ==
  ASSUME LocksInv, NEW b \in Connection, NEW o \in Connection, NEW p \in Connection,
         RowLock!WaitsFor(b, o), RowLock!WaitsFor(o, p), o \notin loose
  PROVE  /\ Orderly(o)
         /\ Orderly(b) => \E r \in Revisions(o) :
                            /\ RowLock!Due(b) = {RowLock!Ledger(r)}
                            /\ \A s \in Key : RowLock!Due(o) = {RowLock!Ledger(s)} => r < s
<1>1. PICK l, m : /\ b # o /\ RowLock!Due(b) = {l} /\ l \in held[o] /\ todo[b] # <<>> /\ l \in Head(todo[b])
                  /\ RowLock!Due(o) = {m} /\ todo[o] # <<>> /\ m \in Head(todo[o])
  <2>1. PICK l, m : RowLock!Due(b) = {l} /\ l \in held[o] /\ RowLock!Due(o) = {m} /\ b # o
    BY DEF RowLock!WaitsFor
  <2>2. Asks(b) /\ Asks(o)
    BY DEF LocksInv
  <2>3. l \in RowLock!Due(b) /\ m \in RowLock!Due(o)
    BY <2>1
  <2>4. todo[b] # <<>> /\ l \in Head(todo[b])
    BY <2>2, <2>3 DEF Asks, RowLock!Due
  <2>5. todo[o] # <<>> /\ m \in Head(todo[o])
    BY <2>2, <2>3 DEF Asks, RowLock!Due
  <2>6. QED
    BY <2>1, <2>4, <2>5
<1>2. Orderly(o)
  <2>1. ~Single(o)
    BY <1>1 DEF Single
  <2>2. QED
    BY <2>1 DEF LocksInv, InTurn
<1>3. l \in RowLock!Locks /\ todo[b] \in Groups /\ todo[o] \in Groups
  BY <1>1 DEF LocksInv, LocksType
<1>4. ASSUME Orderly(b), l[1] # "ledger" PROVE FALSE
  <2>1. Head(todo[b]) = todo[b][1] /\ 1 \in 1 .. Len(todo[b])
    BY <1>1, <1>3, TailFacts
  <2>2. l[2] \in Had(Revisions(b), todo[b], 1)
    BY <1>1, <1>4, <2>1 DEF Orderly, InOrder
  <2>3. l[2] \in Revisions(b)
    BY <2>2 DEF Had
  <2>4. l[2] \in Revisions(o)
    BY <1>1, <1>2, <1>4 DEF Orderly
  <2>5. held[b] \cap held[o] = {}
    BY <1>1 DEF LocksInv
  <2>6. QED
    BY <2>3, <2>4, <2>5 DEF Revisions
<1>5. ASSUME Orderly(b)
      PROVE  \E r \in Revisions(o) : /\ RowLock!Due(b) = {RowLock!Ledger(r)}
                                     /\ \A s \in Key : RowLock!Due(o) = {RowLock!Ledger(s)} => r < s
  <2>1. l = RowLock!Ledger(l[2]) /\ l[2] \in Key
    BY <1>3, <1>4, <1>5, LockFacts
  <2>2. l[2] \in Revisions(o)
    BY <1>1, <2>1 DEF Revisions
  <2>3. ASSUME NEW s \in Key, RowLock!Due(o) = {RowLock!Ledger(s)} PROVE l[2] < s
    <3>1. m = RowLock!Ledger(s)
      BY <1>1, <2>3
    <3>2. m[1] = "ledger" /\ m[2] = s
      BY <3>1, LockFacts
    <3>3. Head(todo[o]) = todo[o][1] /\ 1 \in 1 .. Len(todo[o])
      BY <1>1, <1>3, TailFacts
    <3>4. \A x \in Had(Revisions(o), todo[o], 1) : x < m[2]
      BY <1>1, <1>2, <3>2, <3>3 DEF Orderly, InOrder
    <3>5. QED
      BY <2>2, <3>2, <3>4 DEF Had
  <2>4. QED
    BY <1>1, <2>1, <2>2, <2>3
<1>6. QED
  BY <1>2, <1>5

\* However many statements run, over whatever rows, drafts and tables, those that
\* take their locks in order never wait for each other in a circle: every lock but a
\* revision is taken under the revision of its row, and revisions are taken in one
\* order; an update of one row takes one lock only.  A circle of waits has in it a
\* canonical write of several rows, a delete that found others than its candidates,
\* or a discard.
THEOREM StatementsNeverDeadlock == StorageSpec => []NoWaitCycle
<1>1. LocksInv => NoWaitCycle
  <2>1. SUFFICES ASSUME LocksInv, NEW ring \in SUBSET (Connection \ loose), ring # {},
                        \A b \in ring : \E o \in ring : RowLock!WaitsFor(b, o)
                 PROVE  FALSE
    BY DEF NoWaitCycle, RowLock!NoWaitCycle, RowLock!Deadlocked
  <2> DEFINE W == {r \in Key : \E o \in ring : Orderly(o) /\ RowLock!Due(o) = {RowLock!Ledger(r)}}
  <2>2. ASSUME NEW o \in ring, Orderly(o)
        PROVE  \E p \in ring, r \in Key :
                 /\ Orderly(p) /\ RowLock!Due(o) = {RowLock!Ledger(r)}
                 /\ \A s \in Key : RowLock!Due(p) = {RowLock!Ledger(s)} => r < s
    <3>1. PICK p \in ring : RowLock!WaitsFor(o, p)
      BY <2>1
    <3>2. PICK q \in ring : RowLock!WaitsFor(p, q)
      BY <2>1
    <3>3. Orderly(p) /\ \E r \in Revisions(p) : /\ RowLock!Due(o) = {RowLock!Ledger(r)}
                                               /\ \A s \in Key : RowLock!Due(p) = {RowLock!Ledger(s)} => r < s
      BY <2>1, <2>2, <3>1, <3>2, WaitsUpwards
    <3>4. Revisions(p) \subseteq Key
      BY DEF Revisions
    <3>5. QED
      BY <3>3, <3>4
  <2>3. W # {}
    <3>1. PICK b \in ring : TRUE
      BY <2>1
    <3>2. PICK o \in ring : RowLock!WaitsFor(b, o)
      BY <2>1
    <3>3. PICK p \in ring : RowLock!WaitsFor(o, p)
      BY <2>1
    <3>4. Orderly(o)
      BY <2>1, <3>2, <3>3, WaitsUpwards
    <3>5. QED
      BY <2>2, <3>4
  <2>4. W \subseteq Nat /\ IsFiniteSet(W)
    <3>1. W \in SUBSET Key
      OBVIOUS
    <3>2. QED
      BY <3>1, KeyFacts
  <2>5. PICK r \in W : \A x \in W : x <= r
    <3> HIDE DEF W
    <3>1. QED
      BY <2>3, <2>4, Greatest
  <2>6. PICK o \in ring : Orderly(o) /\ RowLock!Due(o) = {RowLock!Ledger(r)} /\ r \in Key
    BY <2>5
  <2>7. PICK p \in ring, x \in Key : /\ Orderly(p) /\ RowLock!Due(o) = {RowLock!Ledger(x)}
                                   /\ \A s \in Key : RowLock!Due(p) = {RowLock!Ledger(s)} => x < s
    BY <2>2, <2>6
  <2>8. x = r
    <3>1. RowLock!Ledger(x) = RowLock!Ledger(r)
      BY <2>6, <2>7
    <3>2. QED
      BY <2>6, <3>1, LockFacts
  <2>9. PICK s \in Key : RowLock!Due(p) = {RowLock!Ledger(s)}
    BY <2>2, <2>7
  <2>10. s \in W /\ r < s
    BY <2>7, <2>8, <2>9
  <2>11. s <= r /\ r \in Nat /\ s \in Nat
    BY <2>4, <2>5, <2>10
  <2>12. QED
    BY <2>10, <2>11
<1>2. StorageInit => LocksInv
  BY InitLocks DEF StorageInit
<1>3. QED
  BY <1>1, <1>2, StepLocks, PTL DEF StorageSpec

-----------------------------------------------------------------------------
(* BoundedRead *)

(* Rows in an order, and their ranks. *)

\* A relation that orders the elements of M one after the other.
Linear(lt, M) ==
  /\ \A a \in M : <<a, a>> \notin lt
  /\ \A a, b \in M : a # b => <<a, b>> \in lt \/ <<b, a>> \in lt
  /\ \A a, b, c \in M : <<a, b>> \in lt /\ <<b, c>> \in lt => <<a, c>> \in lt

Below(lt, M, a) == {b \in M : <<b, a>> \in lt}
Rank(lt, M, a) == Cardinality(Below(lt, M, a)) + 1
Lists(s, lt, M) == s \in [1 .. Cardinality(M) -> M] /\ \A i, j \in DOMAIN s : i < j => <<s[i], s[j]>> \in lt

LEMMA LinearPart ==
  ASSUME NEW lt, NEW M, NEW N, Linear(lt, M), N \subseteq M
  PROVE  Linear(lt, N)
BY DEF Linear

LEMMA BelowFinite ==
  ASSUME NEW lt, NEW M, IsFiniteSet(M), NEW a \in M, Linear(lt, M)
  PROVE  /\ IsFiniteSet(Below(lt, M, a))
         /\ Cardinality(Below(lt, M, a)) \in Nat
         /\ Cardinality(Below(lt, M, a)) < Cardinality(M)
         /\ Rank(lt, M, a) \in 1 .. Cardinality(M)
<1>1. PICK B : B = Below(lt, M, a)
  OBVIOUS
<1>2. B \in SUBSET M /\ B # M
  BY <1>1 DEF Below, Linear
<1>3. IsFiniteSet(B) /\ Cardinality(B) <= Cardinality(M) /\ Cardinality(B) # Cardinality(M)
  BY <1>2, FS_Subset
<1>4. Cardinality(B) \in Nat /\ Cardinality(M) \in Nat
  BY <1>3, FS_CardinalityType
<1>5. Cardinality(B) < Cardinality(M)
  BY <1>3, <1>4
<1>6. QED
  BY <1>1, <1>3, <1>4, <1>5 DEF Rank

\* What comes before has the lower rank.
LEMMA RankGrows ==
  ASSUME NEW lt, NEW M, IsFiniteSet(M), Linear(lt, M), NEW a \in M, NEW b \in M, <<a, b>> \in lt
  PROVE  Rank(lt, M, a) < Rank(lt, M, b)
<1>1. PICK A : A = Below(lt, M, a)
  OBVIOUS
<1>2. PICK B : B = Below(lt, M, b)
  OBVIOUS
<1>3. A \in SUBSET B /\ A # B
  BY <1>1, <1>2 DEF Below, Linear
<1>4. IsFiniteSet(B) /\ IsFiniteSet(A) /\ Cardinality(A) \in Nat /\ Cardinality(B) \in Nat
  BY <1>1, <1>2, BelowFinite
<1>5. Cardinality(A) <= Cardinality(B) /\ Cardinality(A) # Cardinality(B)
  BY <1>3, <1>4, FS_Subset
<1>6. Cardinality(A) + 1 < Cardinality(B) + 1
  BY <1>4, <1>5
<1>7. QED
  BY <1>1, <1>2, <1>6 DEF Rank

LEMMA RankTells ==
  ASSUME NEW lt, NEW M, IsFiniteSet(M), Linear(lt, M), NEW a \in M, NEW b \in M
  PROVE  /\ Rank(lt, M, a) < Rank(lt, M, b) => <<a, b>> \in lt
         /\ Rank(lt, M, a) = Rank(lt, M, b) => a = b
<1>1. Rank(lt, M, a) \in 1 .. Cardinality(M) /\ Rank(lt, M, b) \in 1 .. Cardinality(M)
  BY BelowFinite
<1>2. Cardinality(M) \in Nat
  BY FS_CardinalityType
<1>3. a # b => <<a, b>> \in lt \/ <<b, a>> \in lt
  BY DEF Linear
<1>4. <<a, b>> \in lt => Rank(lt, M, a) < Rank(lt, M, b)
  BY RankGrows
<1>5. <<b, a>> \in lt => Rank(lt, M, b) < Rank(lt, M, a)
  BY RankGrows
<1>6. QED
  BY <1>1, <1>2, <1>3, <1>4, <1>5

\* Every rank is taken.
LEMMA RankTaken ==
  ASSUME NEW lt, NEW M, IsFiniteSet(M), Linear(lt, M), NEW i \in 1 .. Cardinality(M)
  PROVE  \E a \in M : Rank(lt, M, a) = i
<1>1. PICK n \in Nat : n = Cardinality(M)
  BY FS_CardinalityType
<1>2. PICK f : f = [a \in M |-> Rank(lt, M, a)]
  OBVIOUS
<1>3. f \in [M -> 1 .. n]
  BY <1>1, <1>2, BelowFinite
<1>4. \A a, b \in M : f[a] = f[b] => a = b
  BY <1>2, RankTells
<1>5. f \in Injection(M, 1 .. n)
  BY <1>3, <1>4 DEF Injection, IsInjective
<1>6. IsFiniteSet(1 .. n) /\ Cardinality(1 .. n) = n
  BY FS_Interval
<1>7. f \in Surjection(M, 1 .. n)
  BY <1>1, <1>5, <1>6, FS_Injection
<1>8. QED
  BY <1>1, <1>2, <1>7 DEF Surjection

\* So the elements of a finite set can be listed in order ...
LEMMA Listed ==
  ASSUME NEW lt, NEW M, IsFiniteSet(M), Linear(lt, M)
  PROVE  \E s : Lists(s, lt, M)
<1>1. PICK n \in Nat : n = Cardinality(M)
  BY FS_CardinalityType
<1>2. PICK s : s = [i \in 1 .. n |-> CHOOSE a \in M : Rank(lt, M, a) = i]
  OBVIOUS
<1>3. \A i \in 1 .. n : s[i] \in M /\ Rank(lt, M, s[i]) = i
  BY <1>1, <1>2, RankTaken
<1>4. s \in [1 .. n -> M]
  BY <1>2, <1>3
<1>5. ASSUME NEW i \in 1 .. n, NEW j \in 1 .. n, i < j PROVE <<s[i], s[j]>> \in lt
  BY <1>3, <1>5, RankTells
<1>6. QED
  BY <1>1, <1>4, <1>5 DEF Lists

\* ... in one way only: by rank.
LEMMA ListedByRank ==
  ASSUME NEW lt, NEW M, IsFiniteSet(M), Linear(lt, M), NEW s, Lists(s, lt, M)
  PROVE  /\ Cardinality(M) \in Nat
         /\ s \in [1 .. Cardinality(M) -> M]
         /\ \A i, j \in 1 .. Cardinality(M) : s[i] = s[j] => i = j
         /\ \A i \in 1 .. Cardinality(M) : Rank(lt, M, s[i]) = i
         /\ \A a \in M : Rank(lt, M, a) \in 1 .. Cardinality(M) /\ s[Rank(lt, M, a)] = a
<1>1. PICK n \in Nat : n = Cardinality(M)
  BY FS_CardinalityType
<1>2. s \in [1 .. n -> M] /\ \A i, j \in 1 .. n : i < j => <<s[i], s[j]>> \in lt
  BY <1>1 DEF Lists
<1>3. \A i, j \in 1 .. n : s[i] = s[j] => i = j
  <2>1. SUFFICES ASSUME NEW i \in 1 .. n, NEW j \in 1 .. n, s[i] = s[j], i # j PROVE FALSE
    OBVIOUS
  <2>2. s[i] \in M /\ s[j] \in M
    BY <1>2
  <2>3. <<s[i], s[j]>> \notin lt /\ <<s[j], s[i]>> \notin lt
    BY <2>1, <2>2 DEF Linear
  <2>4. i < j \/ j < i
    BY <2>1
  <2>5. QED
    BY <1>2, <2>3, <2>4
<1>4. IsFiniteSet(1 .. n) /\ Cardinality(1 .. n) = n
  BY FS_Interval
<1>5. s \in Injection(1 .. n, M)
  BY <1>2, <1>3 DEF Injection, IsInjective
<1>6. s \in Surjection(1 .. n, M)
  BY <1>1, <1>4, <1>5, FS_Injection
<1>7. \A a \in M : \E i \in 1 .. n : s[i] = a
  BY <1>6 DEF Surjection
<1>8. ASSUME NEW i \in 1 .. n PROVE Rank(lt, M, s[i]) = i
  <2>1. PICK B : B = Below(lt, M, s[i])
    OBVIOUS
  <2>2. PICK g : g = [j \in 1 .. i - 1 |-> s[j]]
    OBVIOUS
  <2>3. \A j \in 1 .. i - 1 : j \in 1 .. n /\ s[j] \in B
    BY <1>2, <2>1 DEF Below
  <2>4. ASSUME NEW b \in B PROVE \E j \in 1 .. i - 1 : s[j] = b
    <3>1. b \in M /\ <<b, s[i]>> \in lt /\ s[i] \in M
      BY <1>2, <2>1 DEF Below
    <3>2. PICK j \in 1 .. n : s[j] = b
      BY <1>7, <3>1
    <3>3. ~(i < j) /\ i # j
      <4>1. <<s[i], b>> \notin lt /\ s[i] # b
        BY <3>1 DEF Linear
      <4>2. QED
        BY <1>2, <3>2, <4>1
    <3>4. QED
      BY <3>2, <3>3
  <2>5. g \in Bijection(1 .. i - 1, B)
    <3>1. g \in [1 .. i - 1 -> B]
      BY <2>2, <2>3
    <3>2. \A j, k \in 1 .. i - 1 : g[j] = g[k] => j = k
      BY <1>3, <2>2, <2>3
    <3>3. \A b \in B : \E j \in 1 .. i - 1 : g[j] = b
      BY <2>2, <2>4
    <3>4. QED
      BY <3>1, <3>2, <3>3 DEF Bijection, Injection, Surjection, IsInjective
  <2>6. Cardinality(B) = i - 1
    <3>1. i - 1 \in Nat
      OBVIOUS
    <3>2. ExistsBijection(1 .. i - 1, B)
      BY <2>5 DEF ExistsBijection
    <3>3. QED
      BY <3>1, <3>2, FS_CountingElements
  <2>7. QED
    BY <2>1, <2>6 DEF Rank
<1>9. ASSUME NEW a \in M PROVE Rank(lt, M, a) \in 1 .. n /\ s[Rank(lt, M, a)] = a
  BY <1>7, <1>8
<1>10. QED
  BY <1>1, <1>2, <1>3, <1>8, <1>9

\* Two lists of one set are the same.
LEMMA ListedOnce ==
  ASSUME NEW lt, NEW M, IsFiniteSet(M), Linear(lt, M), NEW s, NEW t, Lists(s, lt, M), Lists(t, lt, M)
  PROVE  s = t
<1>1. PICK n \in Nat : n = Cardinality(M)
  BY FS_CardinalityType
<1>2. s \in [1 .. n -> M] /\ t \in [1 .. n -> M]
  BY <1>1 DEF Lists
<1>3. \A i \in 1 .. n : Rank(lt, M, s[i]) = i /\ t[Rank(lt, M, s[i])] = s[i]
  BY <1>1, <1>2, ListedByRank
<1>4. \A i \in 1 .. n : s[i] = t[i]
  BY <1>3
<1>5. QED
  BY <1>2, <1>4

-----------------------------------------------------------------------------
(* The first elements of a list. *)

ListOf(s, m, S) == s \in [1 .. m -> S]
Lesser(k, n, m) == k <= n /\ k <= m /\ (k = n \/ k = m)
Copies(w, k, s) == \A i \in 1 .. k : w[i] = s[i]

LEMMA TakeFirst ==
  ASSUME NEW S, NEW m \in Nat, NEW s, NEW n \in Nat, NEW k \in Nat, ListOf(s, m, S), Lesser(k, n, m)
  PROVE  ListOf(Read!Take(n, s), k, S) /\ Copies(Read!Take(n, s), k, s)
<1>1. s \in [1 .. m -> S] /\ k <= n /\ k <= m /\ (k = n \/ k = m)
  BY DEF ListOf, Lesser
<1>2. s \in Seq(S) /\ Len(s) = m
  BY <1>1
<1>3. Read!Take(n, s) = SubSeq(s, 1, k)
  <2>1. k = IF n < m THEN n ELSE m
    BY <1>1
  <2>2. QED
    BY <1>2, <2>1 DEF Read!Take
<1>4. SubSeq(s, 1, k) = [i \in 1 .. k |-> s[i]]
  OBVIOUS
<1>5. \A i \in 1 .. k : i \in 1 .. m /\ s[i] \in S
  BY <1>1
<1>6. PICK w : w = [i \in 1 .. k |-> s[i]]
  OBVIOUS
<1>7. ListOf(w, k, S) /\ Copies(w, k, s)
  BY <1>5, <1>6 DEF ListOf, Copies
<1>8. w = Read!Take(n, s)
  BY <1>3, <1>4, <1>6
<1>9. QED
  BY <1>7, <1>8

\* Leaving out of a set what has k elements that stay before it changes nothing
\* in the first k.
LEMMA TakeAgrees ==
  ASSUME NEW lt, NEW M, IsFiniteSet(M), Linear(lt, M), NEW N, N \subseteq M, NEW k \in Nat,
         \A m \in M \ N : k <= Cardinality(Below(lt, N, m)),
         NEW s, NEW t, Lists(s, lt, M), Lists(t, lt, N)
  PROVE  Read!Take(k, s) = Read!Take(k, t)
<1>1. IsFiniteSet(N) /\ Linear(lt, N) /\ Cardinality(N) <= Cardinality(M)
  BY FS_Subset, LinearPart
<1>2. PICK n \in Nat : n = Cardinality(M)
  BY FS_CardinalityType
<1>3. PICK l \in Nat : l = Cardinality(N)
  BY <1>1, FS_CardinalityType
<1>4. l <= n
  BY <1>1, <1>2, <1>3
<1>5. s \in [1 .. n -> M] /\ \A a \in M : Rank(lt, M, a) \in 1 .. n /\ s[Rank(lt, M, a)] = a
  BY <1>2, ListedByRank
<1>6. t \in [1 .. l -> N] /\ \A i \in 1 .. l : Rank(lt, N, t[i]) = i
  BY <1>1, <1>3, ListedByRank
<1>7. ASSUME NEW m \in M \ N PROVE k <= l
  <2>1. Below(lt, N, m) \in SUBSET N
    BY DEF Below
  <2>2. PICK B : B = Below(lt, N, m)
    OBVIOUS
  <2>3. Cardinality(B) <= Cardinality(N) /\ IsFiniteSet(B)
    BY <1>1, <2>1, <2>2, FS_Subset
  <2>4. Cardinality(B) \in Nat /\ k <= Cardinality(B)
    BY <2>2, <2>3, FS_CardinalityType
  <2>5. QED
    BY <1>3, <2>3, <2>4
<1>8. ASSUME NEW i \in 1 .. l, i <= k PROVE s[i] = t[i]
  <2>1. PICK a \in N : a = t[i]
    BY <1>6
  <2>2. Rank(lt, N, a) = i
    BY <1>6, <2>1
  <2>3. PICK B : B = Below(lt, N, a)
    OBVIOUS
  <2>4. IsFiniteSet(B) /\ Cardinality(B) \in Nat /\ Cardinality(B) + 1 = i
    BY <1>1, <2>2, <2>3, BelowFinite DEF Rank
  <2>5. ASSUME NEW m \in M \ N, <<m, a>> \in lt PROVE FALSE
    <3>1. PICK C : C = Below(lt, N, m)
      OBVIOUS
    <3>2. C \in SUBSET B
      BY <2>3, <2>5, <3>1 DEF Below, Linear
    <3>3. Cardinality(C) <= Cardinality(B) /\ IsFiniteSet(C)
      BY <2>4, <3>2, FS_Subset
    <3>4. Cardinality(C) \in Nat /\ k <= Cardinality(C)
      BY <3>1, <3>3, FS_CardinalityType
    <3>5. QED
      BY <1>8, <2>4, <3>3, <3>4
  <2>6. Below(lt, M, a) = Below(lt, N, a)
    BY <2>5 DEF Below
  <2>7. Rank(lt, M, a) = i
    BY <2>2, <2>6 DEF Rank
  <2>8. QED
    BY <1>5, <2>1, <2>7
<1>9. CASE k <= l
  <2>1. ListOf(s, n, M) /\ ListOf(t, l, N) /\ Lesser(k, k, n) /\ Lesser(k, k, l)
    BY <1>4, <1>5, <1>6, <1>9 DEF ListOf, Lesser
  <2>2. PICK v : v = Read!Take(k, s)
    OBVIOUS
  <2>3. PICK w : w = Read!Take(k, t)
    OBVIOUS
  <2>4. ListOf(v, k, M) /\ Copies(v, k, s)
    BY <2>1, <2>2, TakeFirst
  <2>5. ListOf(w, k, N) /\ Copies(w, k, t)
    BY <2>1, <2>3, TakeFirst
  <2>6. \A i \in 1 .. k : s[i] = t[i]
    BY <1>8, <1>9
  <2>7. v = w
    BY <2>4, <2>5, <2>6 DEF ListOf, Copies
  <2>8. QED
    BY <2>2, <2>3, <2>7
<1>10. CASE ~(k <= l)
  <2>1. M = N
    BY <1>7, <1>10
  <2>2. s = t
    BY <2>1, ListedOnce
  <2>3. QED
    BY <2>2
<1>11. QED
  BY <1>9, <1>10

\* One of the first n, for n not zero, is the first.
LEMMA TakeOfTake ==
  ASSUME NEW S, NEW m \in Nat, NEW s, ListOf(s, m, S), NEW n \in Nat, NEW l \in Nat,
         l = IF n = 0 THEN 0 ELSE 1
  PROVE  Read!Take(1, Read!Take(n, s)) = Read!Take(l, s)
<1>1. PICK k \in Nat : k = IF n < m THEN n ELSE m
  OBVIOUS
<1>2. PICK j \in Nat : j = IF l < m THEN l ELSE m
  OBVIOUS
<1>3. PICK e \in Nat : e = 1
  OBVIOUS
<1>4. Lesser(k, n, m) /\ Lesser(j, l, m) /\ Lesser(j, e, k) /\ j <= k
  BY <1>1, <1>2, <1>3 DEF Lesser
<1>5. PICK t : t = Read!Take(n, s)
  OBVIOUS
<1>6. ListOf(t, k, S) /\ Copies(t, k, s)
  BY <1>4, <1>5, TakeFirst
<1>7. PICK u : u = Read!Take(e, t)
  OBVIOUS
<1>8. ListOf(u, j, S) /\ Copies(u, j, t)
  BY <1>4, <1>6, <1>7, TakeFirst
<1>9. PICK w : w = Read!Take(l, s)
  OBVIOUS
<1>10. ListOf(w, j, S) /\ Copies(w, j, s)
  BY <1>4, <1>9, TakeFirst
<1>11. \A i \in 1 .. j : u[i] = w[i]
  BY <1>4, <1>6, <1>8, <1>10 DEF Copies
<1>12. u = w
  BY <1>8, <1>10, <1>11 DEF ListOf
<1>13. QED
  BY <1>3, <1>5, <1>7, <1>9, <1>12

-----------------------------------------------------------------------------
(* Rows in the order of a query *)

Pairs == Nat \X Nat
Earlier(q) == {p \in Pairs \X Pairs : Read!Before(q, p[1], p[2])}
Keyed(M) == M \subseteq Pairs /\ IsFiniteSet(M) /\ \A a, b \in M : a[1] = b[1] => a = b

LEMMA KeyedPart ==
  ASSUME NEW M, Keyed(M), NEW N, N \subseteq M
  PROVE  Keyed(N)
<1>1. IsFiniteSet(N)
  BY FS_Subset DEF Keyed
<1>2. QED
  BY <1>1 DEF Keyed

LEMMA EarlierIs ==
  ASSUME NEW q, NEW a \in Pairs, NEW b \in Pairs
  PROVE  <<a, b>> \in Earlier(q) <=> Read!Before(q, a, b)
BY DEF Earlier

LEMMA OrderIsLinear ==
  ASSUME NEW q, q.order \in Read!Orders, NEW M, Keyed(M)
  PROVE  Linear(Earlier(q), M)
<1>1. \A a \in M : a \in Pairs /\ a[1] \in Nat /\ a[2] \in Nat /\ a = <<a[1], a[2]>>
  BY DEF Keyed, Pairs
<1>2. \A a, b \in M : <<a, b>> \in Earlier(q) <=> Read!Before(q, a, b)
  BY <1>1, EarlierIs
<1>3. q.order \in {"id", "v", "v_desc"}
  BY DEF Read!Orders
<1>4. ASSUME NEW a \in M, Read!Before(q, a, a) PROVE FALSE
  <2>1. a[1] \in Nat /\ a[2] \in Nat
    BY <1>1
  <2>2. ~(a[1] < a[1]) /\ ~(a[2] < a[2]) /\ ~(a[2] > a[2])
    BY <2>1
  <2>3. QED
    BY <1>3, <1>4, <2>2 DEF Read!Before
<1>5. ASSUME NEW a \in M, NEW b \in M, a # b PROVE Read!Before(q, a, b) \/ Read!Before(q, b, a)
  <2>1. a[1] # b[1] /\ a[1] \in Nat /\ b[1] \in Nat /\ a[2] \in Nat /\ b[2] \in Nat
    BY <1>1, <1>5 DEF Keyed
  <2>2. CASE q.order = "id"
    BY <2>1, <2>2 DEF Read!Before
  <2>3. CASE q.order = "v"
    BY <2>1, <2>3 DEF Read!Before
  <2>4. CASE q.order = "v_desc"
    BY <2>1, <2>4 DEF Read!Before
  <2>5. QED
    BY <1>3, <2>2, <2>3, <2>4
<1>6. ASSUME NEW a \in M, NEW b \in M, NEW c \in M, Read!Before(q, a, b), Read!Before(q, b, c)
      PROVE  Read!Before(q, a, c)
  <2>1. a[1] \in Nat /\ b[1] \in Nat /\ c[1] \in Nat /\ a[2] \in Nat /\ b[2] \in Nat /\ c[2] \in Nat
    BY <1>1
  <2>2. CASE q.order = "id"
    BY <1>6, <2>1, <2>2 DEF Read!Before
  <2>3. CASE q.order = "v"
    BY <1>6, <2>1, <2>3 DEF Read!Before
  <2>4. CASE q.order = "v_desc"
    BY <1>6, <2>1, <2>4 DEF Read!Before
  <2>5. QED
    BY <1>3, <2>2, <2>3, <2>4
<1>7. QED
  BY <1>2, <1>4, <1>5, <1>6 DEF Linear

LEMMA SameSizes == ASSUME NEW T PROVE Read!Cardinality(T) = Cardinality(T) /\ Read!IsFiniteSet(T) = IsFiniteSet(T)
BY DEF Read!Cardinality, Cardinality, Read!IsFiniteSet, IsFiniteSet

\* What a query sorts comes out in its order, whole.
LEMMA OrderedLists ==
  ASSUME NEW q, q.order \in Read!Orders, NEW M, Keyed(M)
  PROVE  Lists(Read!Ordered(q, M), Earlier(q), M)
<1>1. IsFiniteSet(M) /\ M \subseteq Pairs /\ Linear(Earlier(q), M)
  BY OrderIsLinear DEF Keyed
<1>2. PICK n \in Nat : n = Cardinality(M)
  BY <1>1, FS_CardinalityType
<1>3. PICK s : Lists(s, Earlier(q), M)
  BY <1>1, Listed
<1>4. s \in [1 .. n -> M] /\ \A i, j \in DOMAIN s : i < j => <<s[i], s[j]>> \in Earlier(q)
  BY <1>2, <1>3 DEF Lists
<1>5. \A i, j \in DOMAIN s : i < j => Read!Before(q, s[i], s[j])
  <2>1. \A i \in DOMAIN s : s[i] \in Pairs
    BY <1>1, <1>4
  <2>2. QED
    BY <1>4, <2>1, EarlierIs
<1>6. PICK t : t = Read!Ordered(q, M)
  OBVIOUS
<1>7. t \in [1 .. n -> M] /\ \A i, j \in DOMAIN t : i < j => Read!Before(q, t[i], t[j])
  <2>1. Read!Cardinality(M) = n
    BY <1>2, SameSizes
  <2>2. \E u \in [1 .. n -> M] : \A i, j \in DOMAIN u : i < j => Read!Before(q, u[i], u[j])
    BY <1>4, <1>5
  <2>3. QED
    BY <1>6, <2>1, <2>2 DEF Read!Ordered
<1>8. \A i, j \in DOMAIN t : i < j => <<t[i], t[j]>> \in Earlier(q)
  <2>1. \A i \in DOMAIN t : t[i] \in Pairs
    BY <1>1, <1>7
  <2>2. QED
    BY <1>7, <2>1, EarlierIs
<1>9. QED
  BY <1>2, <1>6, <1>7, <1>8 DEF Lists

-----------------------------------------------------------------------------
(* The rows a reader sees, and those a join yields *)

ReadTypeOK == base \in [Id -> Read!Cell \cup {Missing}] /\ delta \in [Id -> Read!Changes]

Rows(q) == {<<r, Read!Seen(r)>> : r \in {x \in Id : Read!Seen(x) # Missing /\ Read!Matches(q, x, Read!Seen(x))}}

LEMMA ChangeKinds ==
  ASSUME NEW c \in Read!Changes
  PROVE  \/ c = Read!Unchanged /\ c # Read!Delete /\ c # Read!Touch /\ Len(c) = 0
         \/ c = Read!Delete /\ c # Read!Unchanged /\ c # Read!Touch /\ Len(c) = 1
         \/ c = Read!Touch /\ c # Read!Unchanged /\ c # Read!Delete /\ Len(c) = 1
         \/ c[2] \in Read!Cell /\ c # Read!Unchanged /\ c # Read!Delete /\ c # Read!Touch /\ Len(c) = 2
<1> USE DEF Read!Changes, Read!Unchanged, Read!Delete, Read!Touch, Read!Fields
<1>1. CASE c = <<>>
  BY <1>1
<1>2. CASE c = <<"delete">>
  BY <1>2
<1>3. CASE c = <<"fields">>
  BY <1>3
<1>4. CASE \E v \in Read!Cell : c = <<"fields", v>>
  BY <1>4
<1>5. QED
  BY <1>1, <1>2, <1>3, <1>4

LEMMA Types ==
  ASSUME ReadTypeOK, NEW r \in Id
  PROVE  /\ delta[r] \in Read!Changes
         /\ base[r] \in Read!Cell \cup {Missing}
         /\ Read!Seen(r) \in Read!Cell \cup {Missing}
         /\ Read!Cell \subseteq Nat /\ Missing \notin Read!Cell
         /\ r \in Nat /\ IsFiniteSet(Id)
         /\ r \in Read!BaseRows <=> base[r] # Missing
         /\ r \in Read!Changed <=> delta[r] # Read!Unchanged
<1>1. delta[r] \in Read!Changes /\ base[r] \in Read!Cell \cup {Missing}
  BY DEF ReadTypeOK
<1>2. Read!Cell \subseteq Nat /\ Missing \notin Read!Cell /\ r \in Nat /\ IsFiniteSet(Id)
  BY ReadAssumption, SameSizes DEF Read!RowsAndValues, Read!Cell, Read!Null
<1>3. PICK c \in Read!Changes : c = delta[r]
  BY <1>1
<1>4. PICK b \in Read!Cell \cup {Missing} : b = base[r]
  BY <1>1
<1>5. Read!Null \in Read!Cell
  BY DEF Read!Cell
<1>6. Read!Seen(r) \in Read!Cell \cup {Missing}
  BY <1>3, <1>4, <1>5, ChangeKinds DEF Read!Seen
<1>7. QED
  BY <1>1, <1>2, <1>6 DEF Read!BaseRows, Read!Changed

LEMMA UnchangedSeen ==
  ASSUME ReadTypeOK, NEW r \in Id, r \notin Read!Changed
  PROVE  Read!Seen(r) = base[r]
<1>1. PICK c \in Read!Changes : c = delta[r]
  BY Types
<1>2. c = Read!Unchanged
  BY <1>1, Types
<1>3. c # Read!Delete
  BY <1>1, <1>2, ChangeKinds
<1>4. QED
  BY <1>1, <1>2, <1>3, ChangeKinds DEF Read!Seen

\* The join shows of each of its rows what the reader should see of it.
LEMMA EffectiveIsSeen ==
  ASSUME ReadTypeOK, NEW b, NEW d, NEW x \in Id, x \in b \cup d,
         x \in b <=> x \in Read!BaseRows, x \in d <=> x \in Read!Changed
  PROVE  /\ ~(x \in d /\ delta[x] = Read!Delete) <=> Read!Seen(x) # Missing
         /\ Read!Seen(x) # Missing => Read!EffectiveValue(b, d, x) = Read!Seen(x)
<1>1. PICK c \in Read!Changes : c = delta[x]
  BY Types
<1>2. PICK v \in Read!Cell \cup {Missing} : v = base[x]
  BY Types
<1>3. (x \in b <=> v # Missing) /\ (x \in d <=> c # Read!Unchanged)
  BY <1>1, <1>2, Types
<1>4. Missing \notin Read!Cell /\ Read!Null \in Read!Cell
  BY Types DEF Read!Cell
<1>5. Read!EffectiveValue(b, d, x) = IF x \in d /\ Len(c) = 2 THEN c[2] ELSE IF x \in b THEN v ELSE Read!Null
  BY <1>1, <1>2 DEF Read!EffectiveValue
<1>6. PICK s : s = Read!Seen(x)
  OBVIOUS
<1>7. CASE c = Read!Unchanged /\ c # Read!Delete /\ c # Read!Touch /\ Len(c) = 0
  <2>1. s = v
    BY <1>1, <1>2, <1>6, <1>7 DEF Read!Seen
  <2>2. QED
    BY <1>1, <1>3, <1>5, <1>6, <1>7, <2>1
<1>8. CASE c = Read!Delete /\ c # Read!Unchanged /\ c # Read!Touch /\ Len(c) = 1
  <2>1. s = Missing
    BY <1>1, <1>2, <1>6, <1>8 DEF Read!Seen
  <2>2. QED
    BY <1>1, <1>3, <1>6, <1>8, <2>1
<1>9. CASE c = Read!Touch /\ c # Read!Unchanged /\ c # Read!Delete /\ Len(c) = 1
  <2>1. s = IF v = Missing THEN Read!Null ELSE v
    BY <1>1, <1>2, <1>6, <1>9 DEF Read!Seen
  <2>2. QED
    BY <1>1, <1>3, <1>4, <1>5, <1>6, <1>9, <2>1
<1>10. CASE c[2] \in Read!Cell /\ c # Read!Unchanged /\ c # Read!Delete /\ c # Read!Touch /\ Len(c) = 2
  <2>1. s = c[2]
    BY <1>1, <1>2, <1>6, <1>10 DEF Read!Seen
  <2>2. QED
    BY <1>1, <1>3, <1>4, <1>5, <1>6, <1>10, <2>1
<1>11. QED
  BY <1>1, <1>7, <1>8, <1>9, <1>10, ChangeKinds

LEMMA JoinIs ==
  ASSUME ReadTypeOK, NEW q, NEW b, NEW d,
         \A x \in b \cup d : x \in Id /\ (x \in b <=> x \in Read!BaseRows) /\ (x \in d <=> x \in Read!Changed)
  PROVE  Read!Join(q, b, d) = Read!Limited(q.limit, Read!Ordered(q, {m \in Rows(q) : m[1] \in b \cup d}))
<1> DEFINE E(r) == Read!EffectiveValue(b, d, r)
<1> DEFINE L == {x \in b \cup d : ~(x \in d /\ delta[x] = Read!Delete)}
<1> DEFINE J == {row \in {<<r, E(r)>> : r \in L} : Read!Matches(q, row[1], row[2])}
<1> DEFINE K == {m \in Rows(q) : m[1] \in b \cup d}
<1>1. \A x \in L : x \in Id /\ Read!Seen(x) # Missing /\ E(x) = Read!Seen(x)
  BY EffectiveIsSeen
<1>2. \A x \in b \cup d : Read!Seen(x) # Missing => x \in L
  BY EffectiveIsSeen
<1>3. ASSUME NEW m \in J PROVE m \in K
  <2>1. PICK r \in L : m = <<r, E(r)>>
    OBVIOUS
  <2>2. m = <<r, Read!Seen(r)>> /\ r \in Id /\ Read!Seen(r) # Missing /\ r \in b \cup d
    BY <1>1, <2>1
  <2>3. Read!Matches(q, m[1], m[2]) /\ m[1] = r /\ m[2] = Read!Seen(r)
    BY <2>2
  <2>4. QED
    BY <2>2, <2>3 DEF Rows
<1>4. ASSUME NEW m \in K PROVE m \in J
  <2>1. PICK r \in Id : m = <<r, Read!Seen(r)>> /\ Read!Seen(r) # Missing /\ Read!Matches(q, r, Read!Seen(r))
    BY DEF Rows
  <2>2. m[1] = r /\ m[2] = Read!Seen(r) /\ r \in b \cup d
    BY <2>1
  <2>3. r \in L /\ E(r) = Read!Seen(r)
    BY <1>1, <1>2, <2>1, <2>2
  <2>4. m \in {<<x, E(x)>> : x \in L} /\ Read!Matches(q, m[1], m[2])
    BY <2>1, <2>2, <2>3
  <2>5. QED
    BY <2>4
<1>5. J = K
  BY <1>3, <1>4
<1>6. Read!Join(q, b, d) = Read!Limited(q.limit, Read!Ordered(q, J))
  BY DEF Read!Join
<1> HIDE DEF J, K
<1>7. Read!Join(q, b, d) = Read!Limited(q.limit, Read!Ordered(q, K))
  BY <1>5, <1>6
<1>8. QED
  BY <1>7 DEF K

-----------------------------------------------------------------------------
(* The three plans *)

BaseMatching(q) == {<<r, base[r]>> : r \in {x \in Read!BaseRows : Read!Matches(q, x, base[x])}}

LEMMA RowsKeyed ==
  ASSUME ReadTypeOK, NEW q
  PROVE  Keyed(Rows(q)) /\ Keyed(BaseMatching(q)) /\ IsFiniteSet(Read!Changed)
<1>0. PICK top \in Nat : top = 1000
  OBVIOUS
<1>1. Read!Cell \subseteq 0 .. top /\ Id \subseteq Nat /\ IsFiniteSet(Id) /\ Missing \notin Read!Cell
  BY <1>0, ReadAssumption, SameSizes DEF Read!RowsAndValues, Read!Cell, Read!Null
<1>2. PICK P : P = Id \X (0 .. top)
  OBVIOUS
<1>3. IsFiniteSet(P) /\ P \subseteq Pairs
  <2>1. IsFiniteSet(0 .. top)
    BY FS_Interval
  <2>2. IsFiniteSet(P)
    BY <1>1, <1>2, <2>1, FS_Product
  <2>3. P \subseteq Pairs
    <3>1. PICK I : I = 0 .. top
      OBVIOUS
    <3>2. I \subseteq Nat /\ Id \subseteq Nat
      BY <1>1, <3>1
    <3>3. Id \X I \subseteq Nat \X Nat
      BY <3>2
    <3>4. QED
      BY <1>2, <3>1, <3>3 DEF Pairs
  <2>4. QED
    BY <2>2, <2>3
<1>4. \A r \in Id : Read!Seen(r) # Missing => Read!Seen(r) \in 0 .. top
  BY <1>1, Types
<1>5. \A r \in Id : r \in Read!BaseRows => base[r] \in 0 .. top
  BY <1>1, Types
<1>6. PICK R : R = Rows(q)
  OBVIOUS
<1>7. R \subseteq P /\ \A a, b \in R : a[1] = b[1] => a = b
  BY <1>2, <1>4, <1>6 DEF Rows
<1>8. PICK B : B = BaseMatching(q)
  OBVIOUS
<1>9. B \subseteq P /\ \A a, b \in B : a[1] = b[1] => a = b
  <2>1. Read!BaseRows \subseteq Id
    BY DEF Read!BaseRows
  <2>2. QED
    BY <1>2, <1>5, <1>8, <2>1 DEF BaseMatching
<1>10. IsFiniteSet(R) /\ IsFiniteSet(B)
  BY <1>3, <1>7, <1>9, FS_Subset
<1>11. Read!Changed \in SUBSET Id
  BY DEF Read!Changed
<1>12. IsFiniteSet(Read!Changed)
  BY <1>1, <1>11, FS_Subset
<1>13. QED
  BY <1>3, <1>6, <1>7, <1>8, <1>9, <1>10, <1>12 DEF Keyed

\* A join that leaves none of them out is exact.
LEMMA WholeJoin ==
  ASSUME ReadTypeOK, NEW q, NEW b, NEW d,
         \A x \in b \cup d : x \in Id /\ (x \in b <=> x \in Read!BaseRows) /\ (x \in d <=> x \in Read!Changed),
         \A m \in Rows(q) : m[1] \in b \cup d
  PROVE  Read!Join(q, b, d) = Read!Expected(q)
<1>1. {m \in Rows(q) : m[1] \in b \cup d} = Rows(q)
  OBVIOUS
<1>2. Read!Join(q, b, d) = Read!Limited(q.limit, Read!Ordered(q, Rows(q)))
  BY <1>1, JoinIs
<1>3. QED
  BY <1>2 DEF Read!Expected, Rows

\* A row that is seen is in the base or changed.
LEMMA SeenSomewhere ==
  ASSUME ReadTypeOK, NEW q, NEW m \in Rows(q)
  PROVE  /\ m[1] \in Id /\ m = <<m[1], Read!Seen(m[1])>> /\ Read!Matches(q, m[1], Read!Seen(m[1]))
         /\ m[1] \in Read!BaseRows \cup Read!Changed
         /\ m[1] \notin Read!Changed => m \in BaseMatching(q)
<1>1. PICK r \in Id : m = <<r, Read!Seen(r)>> /\ Read!Seen(r) # Missing /\ Read!Matches(q, r, Read!Seen(r))
  BY DEF Rows
<1>2. m[1] = r
  BY <1>1
<1>3. r \notin Read!Changed => Read!Seen(r) = base[r] /\ r \in Read!BaseRows
  <2>1. HAVE r \notin Read!Changed
  <2>3. Read!Seen(r) = base[r]
    BY <2>1, UnchangedSeen
  <2>4. QED
    BY <1>1, <2>3, Types
<1>4. QED
  BY <1>1, <1>2, <1>3 DEF BaseMatching

LEMMA BaseSeen ==
  ASSUME ReadTypeOK, NEW q, NEW m \in BaseMatching(q), m[1] \notin Read!Changed
  PROVE  m \in Rows(q)
<1>1. PICK r \in Read!BaseRows : m = <<r, base[r]>> /\ Read!Matches(q, r, base[r])
  BY DEF BaseMatching
<1>2. r \in Id /\ base[r] # Missing /\ m[1] = r
  BY <1>1 DEF Read!BaseRows
<1>4. Read!Seen(r) = base[r]
  BY <1>2, UnchangedSeen
<1>5. QED
  BY <1>1, <1>2, <1>4 DEF Rows

LEMMA FullIsExact ==
  ASSUME ReadTypeOK, NEW q
  PROVE  Read!Join(q, Read!BaseRows, Read!Changed) = Read!Expected(q)
<1>1. \A x \in Read!BaseRows \cup Read!Changed : x \in Id
  BY DEF Read!BaseRows, Read!Changed
<1>2. \A m \in Rows(q) : m[1] \in Read!BaseRows \cup Read!Changed
  BY SeenSomewhere
<1>3. QED
  BY <1>1, <1>2, WholeJoin

LEMMA PointIsExact ==
  ASSUME ReadTypeOK, NEW q, Read!PointFilters(q) # {}
  PROVE  Read!PointPlan(q) = Read!Expected(q)
<1>1. PICK f : f = CHOOSE x \in Read!PointFilters(q) : TRUE
  OBVIOUS
<1>2. f \in Read!PointFilters(q)
  BY <1>1
<1>3. f \in q.filters /\ f.on = "id" /\ f.op = "eq"
  BY <1>2 DEF Read!PointFilters
<1>4. PICK k : k = f.value
  OBVIOUS
<1>5. PICK b : b = Read!BaseRows \cap {k}
  OBVIOUS
<1>6. PICK d : d = Read!Changed \cap {k}
  OBVIOUS
<1>7. \A x \in b \cup d : x \in Id /\ (x \in b <=> x \in Read!BaseRows) /\ (x \in d <=> x \in Read!Changed)
  BY <1>5, <1>6 DEF Read!BaseRows, Read!Changed
<1>8. ASSUME NEW m \in Rows(q) PROVE m[1] \in b \cup d
  <2>1. Read!Holds(f, m[1], Read!Seen(m[1])) /\ m[1] \in Read!BaseRows \cup Read!Changed
    BY <1>3, SeenSomewhere DEF Read!Matches
  <2>2. m[1] = k
    BY <1>3, <1>4, <2>1 DEF Read!Holds
  <2>3. QED
    BY <1>5, <1>6, <2>1, <2>2
<1>9. Read!Join(q, b, d) = Read!Expected(q)
  BY <1>7, <1>8, WholeJoin
<1>10. Read!PointPlan(q) = Read!Join(q, b, d)
  BY <1>1, <1>4, <1>5, <1>6 DEF Read!PointPlan
<1>11. QED
  BY <1>9, <1>10

\* The bound of base_top: the rows of the canonical table it reaches, and why a
\* row it does not reach has a limit's worth of rows before it.
LEMMA TopReaches ==
  ASSUME NEW q, NEW k \in Nat, NEW B, Keyed(B), q.order \in Read!Orders,
         B = BaseMatching(q), ~(q.limit < 0), k = q.limit + Cardinality(Read!Changed),
         ReadTypeOK
  PROVE  /\ Read!BaseTop(q) \subseteq Read!BaseRows
         /\ \A m \in B : m[1] \notin Read!BaseTop(q) =>
              \E t : /\ t \in [1 .. k -> B]
                     /\ \A i, j \in 1 .. k : t[i] = t[j] => i = j
                     /\ \A i \in 1 .. k : t[i][1] \in Read!BaseTop(q) /\ <<t[i], m>> \in Earlier(q)
<1>1. PICK s : s = Read!Ordered(q, B)
  OBVIOUS
<1>2. PICK n \in Nat : n = Cardinality(B)
  BY FS_CardinalityType DEF Keyed
<1>3. Lists(s, Earlier(q), B) /\ IsFiniteSet(B) /\ Linear(Earlier(q), B)
  BY <1>1, OrderedLists, OrderIsLinear DEF Keyed
<1>4. /\ s \in [1 .. n -> B] /\ \A i, j \in 1 .. n : s[i] = s[j] => i = j
      /\ \A m \in B : Rank(Earlier(q), B, m) \in 1 .. n /\ s[Rank(Earlier(q), B, m)] = m
  BY <1>2, <1>3, ListedByRank
<1>5. PICK j \in Nat : j = IF k < n THEN k ELSE n
  OBVIOUS
<1>6. PICK w : w = Read!Take(k, s)
  OBVIOUS
<1>7. w \in [1 .. j -> B] /\ \A i \in 1 .. j : w[i] = s[i]
  <2>1. ListOf(s, n, B) /\ Lesser(j, k, n)
    BY <1>4, <1>5 DEF ListOf, Lesser
  <2>2. ListOf(w, j, B) /\ Copies(w, j, s)
    BY <1>6, <2>1, TakeFirst
  <2>3. QED
    BY <2>2 DEF ListOf, Copies
<1>8. Read!BaseTop(q) = {row[1] : row \in {w[i] : i \in 1 .. j}}
  <2>1. Read!Cardinality(Read!Changed) = Cardinality(Read!Changed)
    BY SameSizes
  <2>2. ~(k < 0)
    OBVIOUS
  <2>3. Read!Limited(k, Read!Ordered(q, B)) = w
    BY <1>1, <1>6, <2>2 DEF Read!Limited
  <2>4. Read!BaseTop(q) = {row[1] : row \in Read!Range(w)}
    BY <2>1, <2>3 DEF Read!BaseTop, BaseMatching
  <2>5. Read!Range(w) = {w[i] : i \in 1 .. j}
    BY <1>7 DEF Read!Range
  <2>6. QED
    BY <2>4, <2>5
<1>9. \A i \in 1 .. j : s[i][1] \in Read!BaseTop(q)
  BY <1>7, <1>8
<1>10. ASSUME NEW x \in Read!BaseTop(q) PROVE x \in Read!BaseRows
  <2>1. PICK i \in 1 .. j : x = w[i][1]
    BY <1>8
  <2>2. w[i] \in B
    BY <1>7
  <2>3. PICK r \in Read!BaseRows : w[i] = <<r, base[r]>>
    BY <2>2 DEF BaseMatching
  <2>4. QED
    BY <2>1, <2>3
<1>11. ASSUME NEW m \in B, m[1] \notin Read!BaseTop(q)
       PROVE  \E t : /\ t \in [1 .. k -> B]
                     /\ \A i, l \in 1 .. k : t[i] = t[l] => i = l
                     /\ \A i \in 1 .. k : t[i][1] \in Read!BaseTop(q) /\ <<t[i], m>> \in Earlier(q)
  <2>1. PICK p \in 1 .. n : s[p] = m
    BY <1>4
  <2>2. p \notin 1 .. j
    BY <1>9, <1>11, <2>1
  <2>3. j = k /\ k < p /\ p <= n
    BY <1>5, <2>2
  <2>4. \A i \in 1 .. k : i \in 1 .. n /\ i \in 1 .. j /\ i < p
    BY <2>3
  <2>5. w \in [1 .. k -> B]
    BY <1>7, <2>3
  <2>6. \A i, l \in 1 .. k : w[i] = w[l] => i = l
    BY <1>4, <1>7, <2>4
  <2>7. \A i \in 1 .. k : w[i][1] \in Read!BaseTop(q)
    BY <1>7, <1>9, <2>4
  <2>8. \A i \in 1 .. k : <<w[i], m>> \in Earlier(q)
    <3>1. \A a, b \in 1 .. n : a < b => <<s[a], s[b]>> \in Earlier(q)
      BY <1>3, <1>4 DEF Lists
    <3>2. QED
      BY <1>7, <2>1, <2>4, <3>1
  <2>9. QED
    BY <2>5, <2>6, <2>7, <2>8
<1>12. QED
  BY <1>10, <1>11

\* Of numbered rows, at most as many are changed as there are changes.
LEMMA FewChanged ==
  ASSUME NEW k \in Nat, NEW L \in Nat, NEW C, IsFiniteSet(C), k = L + Cardinality(C),
         NEW B, Keyed(B), NEW t, t \in [1 .. k -> B], \A i, j \in 1 .. k : t[i] = t[j] => i = j,
         NEW W, IsFiniteSet(W), \A i \in 1 .. k : t[i][1] \notin C => t[i] \in W
  PROVE  L <= Cardinality(W)
<1>1. PICK D : D = 1 .. k
  OBVIOUS
<1>2. PICK U : U = {i \in D : t[i][1] \notin C}
  OBVIOUS
<1>3. PICK V : V = {i \in D : t[i][1] \in C}
  OBVIOUS
<1>4. IsFiniteSet(D) /\ Cardinality(D) = k
  BY <1>1, FS_Interval
<1>5. U \in SUBSET D /\ V \in SUBSET D /\ D = U \cup V /\ U \cap V = {}
  BY <1>2, <1>3
<1>6. IsFiniteSet(U) /\ IsFiniteSet(V)
  BY <1>4, <1>5, FS_Subset
<1>7. Cardinality(U) \in Nat /\ Cardinality(V) \in Nat /\ Cardinality(C) \in Nat /\ Cardinality(W) \in Nat
  BY <1>6, FS_CardinalityType
<1>8. Cardinality(D) = Cardinality(U) + Cardinality(V)
  <2>1. Cardinality(U \cup V) = Cardinality(U) + Cardinality(V) - Cardinality(U \cap V)
    BY <1>6, FS_Union
  <2>2. Cardinality(U \cap V) = 0
    BY <1>5, FS_EmptySet
  <2>3. QED
    BY <1>5, <1>7, <2>1, <2>2
<1>9. Cardinality(V) <= Cardinality(C)
  <2>1. PICK f : f = [i \in V |-> t[i][1]]
    OBVIOUS
  <2>2. f \in [V -> C]
    BY <1>3, <2>1
  <2>3. \A i, j \in V : f[i] = f[j] => i = j
    <3>1. \A i, j \in V : i \in 1 .. k /\ j \in 1 .. k /\ t[i] \in B /\ t[j] \in B
      BY <1>1, <1>3
    <3>2. \A i, j \in V : t[i][1] = t[j][1] => t[i] = t[j]
      BY <3>1 DEF Keyed
    <3>3. QED
      BY <2>1, <3>1, <3>2
  <2>4. f \in Injection(V, C)
    BY <2>2, <2>3 DEF Injection, IsInjective
  <2>5. QED
    BY <2>4, FS_Injection
<1>10. Cardinality(U) <= Cardinality(W)
  <2>1. PICK f : f = [i \in U |-> t[i]]
    OBVIOUS
  <2>2. f \in [U -> W]
    BY <1>1, <1>2, <2>1
  <2>3. \A i, j \in U : f[i] = f[j] => i = j
    BY <1>1, <1>2, <2>1
  <2>4. f \in Injection(U, W)
    BY <2>2, <2>3 DEF Injection, IsInjective
  <2>5. QED
    BY <2>4, FS_Injection
<1>11. QED
  BY <1>4, <1>7, <1>8, <1>9, <1>10

LEMMA CandidatesAre ==
  ASSUME ReadTypeOK, NEW q, Read!BaseTop(q) \subseteq Read!BaseRows
  PROVE  /\ \A x \in Read!CandidateBase(q) \cup Read!Changed :
               x \in Id /\ (x \in Read!CandidateBase(q) <=> x \in Read!BaseRows) /\ (x \in Read!Changed <=> x \in Read!Changed)
         /\ \A x \in Read!BaseTop(q) : x \in Read!CandidateBase(q) \cup Read!Changed
BY DEF Read!CandidateBase, Read!BaseRows, Read!Changed

LEMMA BoundedIsExact ==
  ASSUME ReadTypeOK, NEW q, q.order \in Read!Orders, q.limit \in Nat
  PROVE  Read!BoundedPlan(q) = Read!Expected(q)
<1>1. PICK L \in Nat : L = q.limit
  OBVIOUS
<1>2. PICK B : B = BaseMatching(q)
  OBVIOUS
<1>3. PICK C : C = Read!Changed
  OBVIOUS
<1>4. IsFiniteSet(C) /\ Keyed(B)
  BY <1>2, <1>3, RowsKeyed
<1>5. PICK k \in Nat : k = L + Cardinality(C)
  BY <1>4, FS_CardinalityType
<1>6. /\ Read!BaseTop(q) \subseteq Read!BaseRows
      /\ \A m \in B : m[1] \notin Read!BaseTop(q) =>
              \E t : /\ t \in [1 .. k -> B]
                     /\ \A i, j \in 1 .. k : t[i] = t[j] => i = j
                     /\ \A i \in 1 .. k : t[i][1] \in Read!BaseTop(q) /\ <<t[i], m>> \in Earlier(q)
  BY <1>1, <1>2, <1>3, <1>4, <1>5, TopReaches
<1>7. PICK b : b = Read!CandidateBase(q)
  OBVIOUS
<1>8. /\ \A x \in b \cup C : x \in Id /\ (x \in b <=> x \in Read!BaseRows) /\ (x \in C <=> x \in Read!Changed)
      /\ \A x \in Read!BaseTop(q) : x \in b \cup C
  BY <1>3, <1>6, <1>7, CandidatesAre
<1>9. PICK M : M = Rows(q)
  OBVIOUS
<1>10. PICK N : N = {m \in M : m[1] \in b \cup C}
  OBVIOUS
<1>11. Keyed(M) /\ Keyed(N) /\ N \subseteq M
  BY <1>9, <1>10, RowsKeyed, KeyedPart
<1>12. ASSUME NEW m \in M \ N PROVE L <= Cardinality(Below(Earlier(q), N, m))
  <2>1. m[1] \notin b \cup C
    BY <1>10
  <2>2. m \in B /\ m[1] \notin Read!BaseTop(q)
    BY <1>2, <1>3, <1>8, <1>9, <2>1, SeenSomewhere
  <2>3. PICK t : /\ t \in [1 .. k -> B]
                 /\ \A i, j \in 1 .. k : t[i] = t[j] => i = j
                 /\ \A i \in 1 .. k : t[i][1] \in Read!BaseTop(q) /\ <<t[i], m>> \in Earlier(q)
    BY <1>6, <2>2
  <2>4. PICK W : W = Below(Earlier(q), N, m)
    OBVIOUS
  <2>5. IsFiniteSet(W)
    <3>1. W \in SUBSET N /\ IsFiniteSet(N)
      BY <1>11, <2>4 DEF Below, Keyed
    <3>2. QED
      BY <3>1, FS_Subset
  <2>6. ASSUME NEW i \in 1 .. k, t[i][1] \notin C PROVE t[i] \in W
    <3>1. t[i] \in B /\ t[i][1] \in b \cup C
      BY <1>8, <2>3
    <3>2. t[i] \in M
      BY <1>2, <1>3, <1>9, <2>6, <3>1, BaseSeen
    <3>3. QED
      BY <1>10, <2>3, <2>4, <3>1, <3>2 DEF Below
  <2>7. L <= Cardinality(W)
    BY <1>4, <1>5, <2>3, <2>5, <2>6, FewChanged
  <2>8. QED
    BY <2>4, <2>7
<1>13. PICK s : s = Read!Ordered(q, M)
  OBVIOUS
<1>14. PICK t : t = Read!Ordered(q, N)
  OBVIOUS
<1>15. Lists(s, Earlier(q), M) /\ Lists(t, Earlier(q), N)
  BY <1>11, <1>13, <1>14, OrderedLists
<1>16. Read!Take(L, s) = Read!Take(L, t)
  <2>1. IsFiniteSet(M) /\ Linear(Earlier(q), M)
    BY <1>11, OrderIsLinear DEF Keyed
  <2>2. QED
    BY <1>11, <1>12, <1>15, <2>1, TakeAgrees
<1>17. Read!BoundedPlan(q) = Read!Take(L, t)
  <2>1. Read!Join(q, b, C) = Read!Limited(q.limit, Read!Ordered(q, {m \in Rows(q) : m[1] \in b \cup C}))
    BY <1>8, JoinIs
  <2>2. Read!Join(q, b, C) = Read!Limited(L, t)
    BY <1>1, <1>9, <1>10, <1>14, <2>1
  <2>3. Read!BoundedPlan(q) = Read!Join(q, b, C)
    BY <1>3, <1>7 DEF Read!BoundedPlan
  <2>4. ~(L < 0)
    OBVIOUS
  <2>5. QED
    BY <2>2, <2>3, <2>4 DEF Read!Limited
<1>18. Read!Expected(q) = Read!Take(L, s)
  <2>1. Read!Expected(q) = Read!Limited(L, s)
    BY <1>1, <1>9, <1>13 DEF Read!Expected, Rows
  <2>2. ~(L < 0)
    OBVIOUS
  <2>3. QED
    BY <2>1, <2>2 DEF Read!Limited
<1>19. QED
  BY <1>16, <1>17, <1>18

\* Without a limit nothing is cut off.
LEMMA UnboundedIsExact ==
  ASSUME ReadTypeOK, NEW q, q.order \in Read!Orders, q.limit \in Int, q.limit < 0
  PROVE  Read!BoundedPlan(q) = Read!Expected(q)
<1>1. PICK B : B = BaseMatching(q)
  OBVIOUS
<1>2. PICK s : s = Read!Ordered(q, B)
  OBVIOUS
<1>3. PICK n \in Nat : n = Cardinality(B)
  BY <1>1, RowsKeyed, FS_CardinalityType DEF Keyed
<1>4. s \in [1 .. n -> B] /\ \A m \in B : Rank(Earlier(q), B, m) \in 1 .. n /\ s[Rank(Earlier(q), B, m)] = m
  <2>1. Keyed(B) /\ IsFiniteSet(B)
    BY <1>1, RowsKeyed DEF Keyed
  <2>2. Lists(s, Earlier(q), B) /\ Linear(Earlier(q), B)
    BY <1>2, <2>1, OrderedLists, OrderIsLinear
  <2>3. QED
    BY <1>3, <2>1, <2>2, ListedByRank
<1>5. {s[i] : i \in 1 .. n} = B
  BY <1>4
<1>6. Read!BaseTop(q) = {row[1] : row \in B}
  <2>1. Read!Limited(q.limit, Read!Ordered(q, B)) = s
    BY <1>2 DEF Read!Limited
  <2>2. Read!BaseTop(q) = {row[1] : row \in Read!Range(s)}
    BY <1>1, <2>1 DEF Read!BaseTop, BaseMatching
  <2>3. Read!Range(s) = {s[i] : i \in 1 .. n}
    BY <1>4 DEF Read!Range
  <2>4. QED
    BY <1>5, <2>2, <2>3
<1>7. Read!BaseTop(q) \subseteq Read!BaseRows
  BY <1>1, <1>6 DEF BaseMatching
<1>8. /\ \A x \in Read!CandidateBase(q) \cup Read!Changed :
            x \in Id /\ (x \in Read!CandidateBase(q) <=> x \in Read!BaseRows) /\ (x \in Read!Changed <=> x \in Read!Changed)
      /\ \A x \in Read!BaseTop(q) : x \in Read!CandidateBase(q) \cup Read!Changed
  BY <1>7, CandidatesAre
<1>9. ASSUME NEW m \in Rows(q) PROVE m[1] \in Read!CandidateBase(q) \cup Read!Changed
  <2>1. CASE m[1] \notin Read!Changed
    <3>1. m \in B
      BY <1>1, <2>1, SeenSomewhere
    <3>2. m[1] \in Read!BaseTop(q)
      BY <1>6, <3>1
    <3>3. QED
      BY <1>8, <3>2
  <2>2. QED
    BY <2>1
<1>10. QED
  BY <1>8, <1>9, WholeJoin DEF Read!BoundedPlan

\* Whatever plan is chosen.
LEMMA AnswerIsExact ==
  ASSUME ReadTypeOK, NEW q, q.order \in Read!Orders, q.limit \in Int
  PROVE  Read!Answer(q) = Read!Expected(q)
<1>1. Read!BoundedPlan(q) = Read!Expected(q)
  <2>1. q.limit < 0 \/ q.limit \in Nat
    OBVIOUS
  <2>2. QED
    BY <2>1, BoundedIsExact, UnboundedIsExact
<1>2. QED
  BY <1>1, PointIsExact, FullIsExact DEF Read!Answer

LEMMA QueriesAre ==
  ASSUME NEW q \in Read!Queries
  PROVE  /\ q.order \in Read!Orders /\ q.limit \in Int
         /\ q = [filters |-> q.filters, order |-> q.order, limit |-> q.limit]
BY ReadAssumption DEF Read!Queries, Read!Orders, Read!RowsAndValues

\* The limit has no part in which rows there are and how they are ordered.
LEMMA OtherLimit ==
  ASSUME ReadTypeOK, NEW q \in Read!Queries, NEW l \in Int
  PROVE  /\ [q EXCEPT !.limit = l].order \in Read!Orders /\ [q EXCEPT !.limit = l].limit = l
         /\ Read!Expected([q EXCEPT !.limit = l]) = Read!Limited(l, Read!Ordered(q, Rows(q)))
<1>1. PICK p : p = [q EXCEPT !.limit = l]
  OBVIOUS
<1>2. p.filters = q.filters /\ p.order = q.order /\ p.limit = l /\ q.order \in Read!Orders
  BY <1>1, QueriesAre
<1>3. \A x, v : Read!Matches(p, x, v) = Read!Matches(q, x, v)
  BY <1>2 DEF Read!Matches
<1>4. Rows(p) = Rows(q)
  BY <1>3 DEF Rows
<1>5. \A a, b : Read!Before(p, a, b) = Read!Before(q, a, b)
  BY <1>2 DEF Read!Before
<1>6. \A R : Read!Ordered(p, R) = Read!Ordered(q, R)
  BY <1>5 DEF Read!Ordered
<1>7. Read!Expected(p) = Read!Limited(p.limit, Read!Ordered(p, Rows(p)))
  BY DEF Read!Expected, Rows
<1>8. QED
  BY <1>1, <1>2, <1>4, <1>6, <1>7

LEMMA FirstIsExact ==
  ASSUME ReadTypeOK, NEW q \in Read!Queries
  PROVE  Read!First(q) = Read!Take(1, Read!Expected(q))
<1>1. PICK l : l = IF q.limit < 0 THEN 1 ELSE IF q.limit = 0 THEN 0 ELSE 1
  OBVIOUS
<1>2. l \in Int /\ l \in Nat /\ q.limit \in Int /\ q.order \in Read!Orders
  BY <1>1, QueriesAre
<1>3. PICK p : p = [q EXCEPT !.limit = l]
  OBVIOUS
<1>4. Read!First(q) = Read!Answer(p)
  BY <1>1, <1>3 DEF Read!First
<1>5. PICK s : s = Read!Ordered(q, Rows(q))
  OBVIOUS
<1>6. p.order \in Read!Orders /\ p.limit = l /\ Read!Expected(p) = Read!Limited(l, s)
  BY <1>2, <1>3, <1>5, OtherLimit
<1>7. Read!First(q) = Read!Take(l, s)
  <2>1. Read!Answer(p) = Read!Expected(p)
    BY <1>2, <1>6, AnswerIsExact
  <2>2. ~(l < 0)
    BY <1>2
  <2>3. QED
    BY <1>4, <1>6, <2>1, <2>2 DEF Read!Limited
<1>8. Read!Expected(q) = Read!Limited(q.limit, s)
  BY <1>5 DEF Read!Expected, Rows
<1>9. CASE q.limit < 0
  <2>1. l = 1
    BY <1>1, <1>9
  <2>2. Read!Expected(q) = s
    BY <1>8, <1>9 DEF Read!Limited
  <2>3. QED
    BY <1>7, <2>1, <2>2
<1>10. CASE ~(q.limit < 0)
  <2>1. PICK n \in Nat : n = q.limit
    BY <1>2, <1>10
  <2>2. l = IF n = 0 THEN 0 ELSE 1
    BY <1>1, <1>10, <2>1
  <2>3. Read!Expected(q) = Read!Take(n, s)
    BY <1>8, <1>10, <2>1 DEF Read!Limited
  <2>4. PICK M : M = Rows(q)
    OBVIOUS
  <2>5. Keyed(M) /\ IsFiniteSet(M)
    BY <2>4, RowsKeyed DEF Keyed
  <2>6. PICK m \in Nat : m = Cardinality(M)
    BY <2>5, FS_CardinalityType
  <2>7. Lists(s, Earlier(q), M)
    BY <1>2, <1>5, <2>4, <2>5, OrderedLists
  <2>8. ListOf(s, m, M)
    BY <2>6, <2>7 DEF Lists, ListOf
  <2>9. Read!Take(1, Read!Take(n, s)) = Read!Take(l, s)
    BY <1>2, <2>2, <2>8, TakeOfTake
  <2>10. QED
    BY <1>7, <2>3, <2>9
<1>11. QED
  BY <1>9, <1>10

\* Host and draft write cells and changes.
LEMMA ReadTypes == StorageSpec => []ReadTypeOK
<1>1. StorageInit => ReadTypeOK
  BY DEF StorageInit, Read!Init, ReadTypeOK, Read!Changes
<1>2. ReadTypeOK /\ [StorageNext]_allVars => ReadTypeOK'
  <2>1. SUFFICES ASSUME ReadTypeOK, [StorageNext]_allVars PROVE ReadTypeOK'
    OBVIOUS
  <2>2. CASE ReadStep
    <3>1. PICK r \in Id : Read!HostWrites(r) \/ Read!DraftWrites(r)
      BY <2>2 DEF ReadStep, Read!Next
    <3>2. CASE Read!HostWrites(r)
      BY <2>1, <3>2 DEF Read!HostWrites, ReadTypeOK
    <3>3. CASE Read!DraftWrites(r)
      BY <2>1, <3>3 DEF Read!DraftWrites, ReadTypeOK
    <3>4. QED
      BY <3>1, <3>2, <3>3
  <2>3. CASE UNCHANGED readVars
    BY <2>1, <2>3 DEF readVars, ReadTypeOK
  <2>4. QED
    BY <2>1, <2>2, <2>3 DEF StorageNext, VaultStep, LogStep, LockStep, OrderStep, allVars
<1>3. QED
  BY <1>1, <1>2, PTL DEF StorageSpec

\* A read through a draft is the read of the table with the draft applied,
\* whichever plan is chosen: `_buildCoalesceQuery` looks at enough of the
\* canonical table, for every table, draft, filter, order and limit.
THEOREM ReadsAreExact == StorageSpec => []BoundedReadIsExact
<1>1. ReadTypeOK => BoundedReadIsExact
  <2>1. SUFFICES ASSUME ReadTypeOK PROVE BoundedReadIsExact
    OBVIOUS
  <2>2. \A q \in Read!Queries : Read!Answer(q) = Read!Expected(q) /\ Read!First(q) = Read!Take(1, Read!Expected(q))
    BY <2>1, AnswerIsExact, FirstIsExact, QueriesAre
  <2>3. QED
    BY <2>2 DEF BoundedReadIsExact, Read!BoundedReadIsExact
<1>2. QED
  BY <1>1, ReadTypes, PTL

-----------------------------------------------------------------------------
(* ReferenceOrder: the steps of a publication *)

OrderTypeOK ==
  /\ original \in Order!Databases
  /\ final \in [RefRow -> UNION {Order!Versions(r) : r \in RefRow}] /\ \A r \in RefRow : final[r] \in Order!Versions(r)
  /\ recreated \subseteq RefRow /\ \A r \in recreated : original[r] # Gone /\ final[r] # Gone
  /\ references \in [Table -> SUBSET Table]

D(r) == Order!DeleteStep(r)
W(r) == Order!WriteStep(r)

LEMMA Numbers ==
  ASSUME NEW r \in RefRow, NEW s \in RefRow
  PROVE  /\ D(r) \in Nat /\ W(r) \in Nat /\ D(r) # W(s)
         /\ D(r) = D(s) => r = s
         /\ W(r) = W(s) => r = s
         /\ Order!RowOf(D(r)) = r /\ Order!RowOf(W(r)) = r
         /\ Order!IsDelete(D(r)) /\ ~Order!IsDelete(W(r))
<1>1. r \in Nat /\ s \in Nat
  BY OrderAssumption DEF Order!RowsAndTables
<1>2. D(r) = 2 * r /\ W(r) = 2 * r + 1 /\ D(s) = 2 * s /\ W(s) = 2 * s + 1
  BY DEF D, W, Order!DeleteStep, Order!WriteStep
<1>3. (2 * r) \div 2 = r /\ (2 * r + 1) \div 2 = r /\ (2 * r) % 2 = 0 /\ (2 * r + 1) % 2 = 1
  BY <1>1
<1>4. QED
  BY <1>1, <1>2, <1>3 DEF Order!RowOf, Order!IsDelete

LEMMA StepsAre ==
  /\ \A s : s \in Order!Steps <=> \E r \in RefRow : (s = D(r) /\ Order!HasDelete(r)) \/ (s = W(r) /\ Order!HasWrite(r))
  /\ \A r \in RefRow : D(r) \in Order!Steps <=> Order!HasDelete(r)
  /\ \A r \in RefRow : W(r) \in Order!Steps <=> Order!HasWrite(r)
<1>1. \A s : s \in Order!Steps <=> \E r \in RefRow : (s = D(r) /\ Order!HasDelete(r)) \/ (s = W(r) /\ Order!HasWrite(r))
  BY DEF Order!Steps, D, W
<1>2. QED
  BY <1>1, Numbers

LEMMA StepsFinite == IsFiniteSet(Order!Steps) /\ Order!Steps \subseteq Nat /\ Cardinality(Order!Steps) \in Nat
<1>1. IsFiniteSet(RefRow) /\ RefRow \subseteq Nat
  <2>1. Order!IsFiniteSet(RefRow) = IsFiniteSet(RefRow)
    BY DEF Order!IsFiniteSet, IsFiniteSet
  <2>2. QED
    BY <2>1, OrderAssumption DEF Order!RowsAndTables
<1>2. PICK P : P = RefRow \X {0, 1}
  OBVIOUS
<1>3. IsFiniteSet(P)
  <2>1. IsFiniteSet({0}) /\ {0} \cup {1} = {0, 1}
    BY FS_Singleton
  <2>2. IsFiniteSet({0, 1})
    BY <2>1, FS_AddElement
  <2>3. QED
    BY <1>1, <1>2, <2>2, FS_Product
<1>4. PICK f : f = [s \in Order!Steps |-> <<Order!RowOf(s), IF Order!IsDelete(s) THEN 0 ELSE 1>>]
  OBVIOUS
<1>5. ASSUME NEW s \in Order!Steps
      PROVE  \E r \in RefRow : (s = D(r) /\ f[s] = <<r, 0>>) \/ (s = W(r) /\ f[s] = <<r, 1>>)
  BY <1>4, StepsAre, Numbers
<1>6. f \in [Order!Steps -> P]
  <2>1. ASSUME NEW s \in Order!Steps PROVE f[s] \in P
    BY <1>2, <1>5
  <2>2. QED
    BY <1>4, <2>1
<1>7. ASSUME NEW s \in Order!Steps, NEW t \in Order!Steps, f[s] = f[t] PROVE s = t
  BY <1>5, <1>7
<1>8. f \in Injection(Order!Steps, P)
  BY <1>6, <1>7 DEF Injection, IsInjective
<1>9. IsFiniteSet(Order!Steps)
  BY <1>3, <1>8, FS_Injection
<1>10. Order!Steps \subseteq Nat
  BY StepsAre, Numbers
<1>11. QED
  BY <1>9, <1>10, FS_CardinalityType

\* What kinds of change there are.
LEMMA Kinds ==
  ASSUME OrderTypeOK, NEW r \in RefRow
  PROVE  /\ Order!HasDelete(r) => original[r] # Gone
         /\ Order!HasWrite(r) => final[r] # Gone
         /\ r \notin Order!ReviewedRows => original[r] = final[r] /\ ~Order!HasDelete(r) /\ ~Order!HasWrite(r)
         /\ r \in Order!ReviewedRows /\ final[r] # Gone => Order!HasWrite(r)
         /\ r \in Order!ReviewedRows /\ original[r] # Gone /\ ~Order!HasDelete(r) =>
              Order!HasWrite(r) /\ Order!Operation(r) # "insert"
         /\ Order!HasWrite(r) /\ original[r] = Gone => Order!Operation(r) = "insert"
         /\ Order!HasDelete(r) /\ Order!HasWrite(r) => Order!Operation(r) = "insert"
BY DEF OrderTypeOK, Order!HasDelete, Order!HasWrite, Order!ReviewedRows, Order!Operation

\* The rows after some of the steps
LEMMA AfterIs ==
  ASSUME NEW X, NEW r \in RefRow
  PROVE  /\ W(r) \in X => Order!After(X)[r] = final[r]
         /\ W(r) \notin X /\ D(r) \in X => Order!After(X)[r] = Gone
         /\ W(r) \notin X /\ D(r) \notin X => Order!After(X)[r] = original[r]
BY DEF Order!After, D, W

LEMMA AfterOther ==
  ASSUME NEW X, NEW p \in RefRow, NEW s \in {D(p), W(p)}, NEW r \in RefRow, r # p
  PROVE  Order!After(X \cup {s})[r] = Order!After(X)[r]
<1>1. s # D(r) /\ s # W(r)
  BY Numbers
<1>2. QED
  BY <1>1 DEF Order!After, D, W

DeletesFirst(X) == X \subseteq Order!Steps /\ \A r \in RefRow : Order!HasDelete(r) /\ W(r) \in X => D(r) \in X

\* Somebody who references a key keeps its row from losing it,
LEMMA KeyKept ==
  ASSUME NEW X, NEW p \in RefRow, NEW s \in {D(p), W(p)}, NEW Y, Y = X \cup {s}, NEW k, k # 0, NEW c \in RefRow,
         Order!Consistent(Order!After(X)), Order!Consistent(Order!After(Y)),
         Order!After(X)[p] # Gone, Order!After(X)[p].code = k,
         Order!After(Y)[c] # Gone, Order!After(Y)[c].ref = k
  PROVE  Order!After(Y)[p] # Gone /\ Order!After(Y)[p].code = k
<1>1. PICK A : A = Order!After(X)
  OBVIOUS
<1>2. PICK B : B = Order!After(Y)
  OBVIOUS
<1>3. PICK o \in RefRow : B[o] # Gone /\ B[o].code = k
  BY <1>2 DEF Order!Consistent, Order!ForeignKeysHold, Order!There
<1>4. o # p => A[o] = B[o]
  BY <1>1, <1>2, AfterOther
<1>5. o = p
  BY <1>1, <1>3, <1>4 DEF Order!Consistent, Order!KeysUnique, Order!There
<1>6. QED
  BY <1>2, <1>3, <1>5

\* and another row from taking it.
LEMMA KeyNotTaken ==
  ASSUME NEW X, NEW p \in RefRow, NEW s \in {D(p), W(p)}, NEW Y, Y = X \cup {s}, NEW k, k # 0, NEW c \in RefRow,
         Order!Consistent(Order!After(X)), Order!Consistent(Order!After(Y)),
         Order!After(Y)[p] # Gone, Order!After(Y)[p].code = k,
         Order!After(X)[c] # Gone, Order!After(X)[c].ref = k
  PROVE  Order!After(X)[p] # Gone /\ Order!After(X)[p].code = k
<1>1. PICK A : A = Order!After(X)
  OBVIOUS
<1>2. PICK B : B = Order!After(Y)
  OBVIOUS
<1>3. PICK o \in RefRow : A[o] # Gone /\ A[o].code = k
  BY <1>1 DEF Order!Consistent, Order!ForeignKeysHold, Order!There
<1>4. o # p => A[o] = B[o]
  BY <1>1, <1>2, AfterOther
<1>5. o = p
  <2>1. o # p => B[o] # Gone /\ B[o].code = k
    BY <1>3, <1>4
  <2>2. B[p] # Gone /\ B[p].code = k /\ Order!Consistent(B)
    BY <1>2
  <2>3. QED
    BY <2>1, <2>2 DEF Order!Consistent, Order!KeysUnique, Order!There
<1>6. QED
  BY <1>1, <1>3, <1>5

\* What an order that passes every check respects: where a child lets go of a key
\* before the parent loses it, ...
LEMMA ReleaseRespected ==
  ASSUME OrderTypeOK, NEW X, DeletesFirst(X), NEW a, NEW b, <<a, b>> \in Order!Releases, a # b,
         Order!Extends(X, b), Order!Consistent(Order!After(X))
  PROVE  a \in X
<1>1. PICK c \in Order!ReviewedRows, p \in Order!ReviewedRows :
        /\ p \in Order!Parents(original, c)
        /\ a \in Order!Ends(c, Order!RefMoves(c)) /\ b \in Order!Ends(p, Order!CodeMoves(p))
  BY DEF Order!Releases, Order!Parents
<1>2. c \in RefRow /\ p \in RefRow
  BY DEF Order!ReviewedRows
<1>3. PICK k : k = Order!RefIn(original, c)
  OBVIOUS
<1>4. /\ k # 0 /\ original[c] # Gone /\ original[c].ref = k
      /\ original[p] # Gone /\ original[p].code = k /\ Order!CodeIn(original, p) = k
  BY <1>1, <1>3 DEF Order!Parents, Order!RefIn, Order!CodeIn
<1>5. SUFFICES ASSUME a \notin X PROVE FALSE
  OBVIOUS
<1>6. PICK Y : Y = X \cup {b}
  OBVIOUS
<1>7. b \notin X /\ b \in Order!Steps /\ Order!Consistent(Order!After(Y)) /\ X \subseteq Order!Steps
  BY <1>6 DEF Order!Extends, DeletesFirst
<1>8. /\ \/ a = D(c) /\ Order!HasDelete(c)
         \/ a = W(c) /\ ~Order!HasDelete(c) /\ Order!HasWrite(c) /\ Order!RefMoves(c)
      /\ \/ b = D(p) /\ Order!HasDelete(p)
         \/ b = W(p) /\ ~Order!HasDelete(p) /\ Order!HasWrite(p) /\ Order!CodeMoves(p)
  BY <1>1 DEF Order!Ends, D, W
<1>9. D(c) \notin Y /\ W(c) \notin Y
  <2>1. D(c) \notin X /\ W(c) \notin X
    <3>1. CASE a = D(c) /\ Order!HasDelete(c)
      BY <1>2, <1>5, <3>1 DEF DeletesFirst
    <3>2. CASE a = W(c) /\ ~Order!HasDelete(c)
      BY <1>2, <1>5, <1>7, <3>2, StepsAre
    <3>3. QED
      BY <1>8, <3>1, <3>2
  <2>2. b # D(c) /\ b # W(c)
    BY <1>2, <1>7, <1>8, Numbers, StepsAre
  <2>3. QED
    BY <1>6, <2>1, <2>2
<1>10. D(p) \notin X /\ W(p) \notin X
  BY <1>2, <1>7, <1>8, StepsAre DEF DeletesFirst
<1>11. Order!After(Y)[c] = original[c] /\ Order!After(X)[p] = original[p]
  BY <1>2, <1>9, <1>10, AfterIs
<1>12. b \in {D(p), W(p)}
  BY <1>8
<1>13. Order!After(Y)[p] # Gone /\ Order!After(Y)[p].code = k
  BY <1>2, <1>4, <1>6, <1>7, <1>11, <1>12, KeyKept
<1>14. CASE b = D(p)
  <2>1. D(p) \in Y /\ W(p) \notin Y
    BY <1>2, <1>6, <1>10, <1>14, Numbers
  <2>2. QED
    BY <1>2, <1>13, <2>1, AfterIs
<1>15. CASE b = W(p) /\ Order!CodeMoves(p)
  <2>1. Order!After(Y)[p] = final[p]
    BY <1>2, <1>6, <1>15, AfterIs
  <2>2. Order!CodeIn(final, p) # k
    BY <1>4, <1>15 DEF Order!CodeMoves
  <2>3. QED
    BY <1>13, <2>1, <2>2 DEF Order!CodeIn
<1>16. QED
  BY <1>8, <1>14, <1>15

\* ... and takes one after the parent has it.
LEMMA AcquisitionRespected ==
  ASSUME OrderTypeOK, NEW X, DeletesFirst(X), NEW a, NEW b, <<a, b>> \in Order!Acquisitions, a # b,
         Order!Extends(X, a), Order!Consistent(Order!After(X))
  PROVE  b \notin X
<1>1. PICK c \in Order!ReviewedRows, p \in Order!ReviewedRows :
        /\ p \in Order!Parents(final, c)
        /\ a \in Order!Starts(p, Order!CodeMoves(p)) /\ b \in Order!Starts(c, Order!RefMoves(c))
  BY DEF Order!Acquisitions, Order!Parents
<1>2. c \in RefRow /\ p \in RefRow
  BY DEF Order!ReviewedRows
<1>3. PICK k : k = Order!RefIn(final, c)
  OBVIOUS
<1>4. /\ k # 0 /\ final[c] # Gone /\ final[c].ref = k
      /\ final[p] # Gone /\ final[p].code = k /\ Order!CodeIn(final, p) = k
  BY <1>1, <1>3 DEF Order!Parents, Order!RefIn, Order!CodeIn
<1>5. SUFFICES ASSUME b \in X PROVE FALSE
  OBVIOUS
<1>6. PICK Y : Y = X \cup {a}
  OBVIOUS
<1>7. a \notin X /\ a \in Order!Steps /\ Order!Consistent(Order!After(Y))
  BY <1>6 DEF Order!Extends
<1>8. /\ b = W(c)
      /\ a = W(p) /\ Order!HasWrite(p) /\ (Order!Operation(p) = "insert" \/ Order!CodeMoves(p))
  BY <1>1 DEF Order!Starts, W
<1>9. Order!After(X)[c] = final[c] /\ Order!After(Y)[p] = final[p]
  BY <1>2, <1>5, <1>6, <1>8, AfterIs
<1>10. Order!After(X)[p] # Gone /\ Order!After(X)[p].code = k
  <2>1. a \in {D(p), W(p)}
    BY <1>8
  <2>2. QED
    BY <1>2, <1>4, <1>6, <1>7, <1>9, <2>1, KeyNotTaken
<1>11. W(p) \notin X /\ D(p) \notin X
  BY <1>2, <1>7, <1>8, <1>10, AfterIs
<1>12. original[p] # Gone /\ original[p].code = k
  BY <1>2, <1>10, <1>11, AfterIs
<1>13. Order!Operation(p) = "insert"
  BY <1>4, <1>8, <1>12 DEF Order!CodeMoves, Order!CodeIn
<1>14. Order!HasDelete(p)
  BY <1>1, <1>2, <1>12, <1>13, Kinds
<1>15. Order!RowOf(a) = p /\ ~Order!IsDelete(a)
  BY <1>2, <1>8, Numbers
<1>16. D(p) \in X
  BY <1>14, <1>15 DEF Order!Extends, D
<1>17. QED
  BY <1>11, <1>16

LEMMA RecreationRespected ==
  ASSUME NEW X, NEW a, NEW b, <<a, b>> \in Order!Recreation, Order!Extends(X, b)
  PROVE  a \in X
<1>1. PICK r \in RefRow : a = D(r) /\ b = W(r) /\ Order!HasDelete(r)
  BY DEF Order!Recreation, D, W
<1>2. Order!RowOf(b) = r /\ ~Order!IsDelete(b)
  BY <1>1, Numbers
<1>3. QED
  BY <1>1, <1>2 DEF Order!Extends, D

\* Edges are between steps.
LEMMA EdgesAre ==
  ASSUME NEW e \in Order!Edges
  PROVE  /\ e = <<e[1], e[2]>> /\ e[1] \in Order!Steps /\ e[2] \in Order!Steps /\ e[1] # e[2]
         /\ \/ <<e[1], e[2]>> \in Order!Recreation
            \/ <<e[1], e[2]>> \in Order!Releases
            \/ <<e[1], e[2]>> \in Order!Acquisitions
<1>1. e[1] # e[2] /\ e \in Order!Recreation \cup Order!Releases \cup Order!Acquisitions
  BY DEF Order!Edges
<1>2. CASE e \in Order!Recreation
  <2>1. PICK r \in RefRow : e = <<D(r), W(r)>> /\ Order!HasDelete(r) /\ Order!HasWrite(r)
    BY <1>2 DEF Order!Recreation, D, W
  <2>2. D(r) \in Order!Steps /\ W(r) \in Order!Steps
    BY <2>1, StepsAre
  <2>3. QED
    BY <1>1, <1>2, <2>1, <2>2
<1>3. CASE e \in Order!Releases
  <2>1. PICK c \in Order!ReviewedRows, p \in Order!ReviewedRows :
          e \in Order!Ends(c, Order!RefMoves(c)) \X Order!Ends(p, Order!CodeMoves(p))
    BY <1>3 DEF Order!Releases, Order!Parents
  <2>2. c \in RefRow /\ p \in RefRow
    BY DEF Order!ReviewedRows
  <2>3. Order!Ends(c, Order!RefMoves(c)) \subseteq Order!Steps /\ Order!Ends(p, Order!CodeMoves(p)) \subseteq Order!Steps
    BY <2>2, StepsAre DEF Order!Ends, D, W
  <2>4. QED
    BY <1>1, <1>3, <2>1, <2>3
<1>4. CASE e \in Order!Acquisitions
  <2>1. PICK c \in Order!ReviewedRows, p \in Order!ReviewedRows :
          e \in Order!Starts(p, Order!CodeMoves(p)) \X Order!Starts(c, Order!RefMoves(c))
    BY <1>4 DEF Order!Acquisitions, Order!Parents
  <2>2. c \in RefRow /\ p \in RefRow
    BY DEF Order!ReviewedRows
  <2>3. Order!Starts(c, Order!RefMoves(c)) \subseteq Order!Steps /\ Order!Starts(p, Order!CodeMoves(p)) \subseteq Order!Steps
    BY <2>2, StepsAre DEF Order!Starts, D, W
  <2>4. QED
    BY <1>1, <1>4, <2>1, <2>3
<1>5. QED
  BY <1>1, <1>2, <1>3, <1>4

\* A recursive function whose turns stay in a set has its values there.
Over(h, n) == h = [i \in 0 .. n |-> h[i]]
Keeps(h, n, S) == h[0] \in S /\ \A i \in 1 .. n : h[i - 1] \in S => h[i] \in S

LEMMA Stays ==
  ASSUME NEW n \in Nat, NEW S, NEW h, Over(h, n), Keeps(h, n, S)
  PROVE  h \in [0 .. n -> S]
<1> USE DEF Over, Keeps
<1> DEFINE N == {i \in Nat : i <= n => h[i] \in S}
<1>1. 0 \in N
  OBVIOUS
<1>2. ASSUME NEW i \in Nat, i \in N PROVE i + 1 \in N
  <2>1. SUFFICES ASSUME i + 1 <= n PROVE h[i + 1] \in S
    OBVIOUS
  <2>2. i + 1 \in 1 .. n /\ (i + 1) - 1 = i /\ i <= n
    BY <2>1
  <2>3. h[(i + 1) - 1] \in S
    BY <1>2, <2>2
  <2>4. QED
    BY <2>2, <2>3
<1> HIDE DEF N
<1>3. \A i \in Nat : i \in N
  BY <1>1, <1>2, Induction
<1>4. \A i \in 0 .. n : h[i] \in S
  BY <1>3 DEF N
<1>5. QED
  BY <1>4

Count == Order!Cardinality(Order!Steps)

LEMMA CountIs == Count = Cardinality(Order!Steps) /\ Count \in Nat
<1>1. Count = Cardinality(Order!Steps)
  BY DEF Count, Order!Cardinality, Cardinality
<1>2. QED
  BY <1>1, StepsFinite

\* The sets of steps that can be applied, by size
More(R) == {pair[1] \cup {pair[2]} : pair \in {x \in R \X Order!Steps : Order!Extends(x[1], x[2])}}

LEMMA MoreIs ==
  ASSUME NEW R, NEW Y
  PROVE  Y \in More(R) <=> \E X \in R, s \in Order!Steps : Order!Extends(X, s) /\ Y = X \cup {s}
<1>1. ASSUME Y \in More(R) PROVE \E X \in R, s \in Order!Steps : Order!Extends(X, s) /\ Y = X \cup {s}
  BY <1>1 DEF More
<1>2. ASSUME NEW X \in R, NEW s \in Order!Steps, Order!Extends(X, s), Y = X \cup {s} PROVE Y \in More(R)
  <2>1. PICK pair : pair = <<X, s>>
    OBVIOUS
  <2>2. pair \in R \X Order!Steps /\ pair[1] = X /\ pair[2] = s
    BY <2>1
  <2>3. QED
    BY <1>2, <2>2 DEF More
<1>3. QED
  BY <1>1, <1>2

LEMMA ReachedIs ==
  /\ Order!Reached \in [0 .. Count -> SUBSET (SUBSET Order!Steps)]
  /\ Order!Reached[0] = {{}}
  /\ \A i \in 1 .. Count : Order!Reached[i] = More(Order!Reached[i - 1])
<1> DEFINE n == Count
<1> DEFINE S == SUBSET (SUBSET Order!Steps)
<1> DEFINE Is(g) == g = [i \in 0 .. Order!Cardinality(Order!Steps) |-> IF i = 0 THEN {{}}
     ELSE {pair[1] \cup {pair[2]} : pair \in {x \in g[i - 1] \X Order!Steps : Order!Extends(x[1], x[2])}}]
<1>1. n \in Nat
  BY CountIs
<1>2. PICK g \in [0 .. n -> S] : g[0] = {{}} /\ \A i \in 1 .. n : g[i] = More(g[i - 1])
  <2> DEFINE F == [i \in 1 .. n |-> [q \in S |-> More(q)]]
  <2>1. \A q \in S : More(q) \in S
    BY MoreIs
  <2>2. F \in [1 .. n -> [S -> S]]
    BY <2>1
  <2>3. \A i \in 1 .. n, q \in S : F[i][q] = More(q)
    OBVIOUS
  <2>4. Turns(F, n, S)
    BY <2>2 DEF Turns
  <2>5. {{}} \in S
    OBVIOUS
  <2> HIDE DEF F, n, S, Is
  <2>6. PICK g : Iterates(g, n, S, {{}}, F)
    BY <1>1, <2>4, <2>5, Recursion
  <2> USE DEF Iterates
  <2>7. \A i \in 1 .. n : g[i - 1] \in S
    BY <1>1, <2>6
  <2>8. \A i \in 1 .. n : g[i] = More(g[i - 1])
    BY <2>3, <2>6, <2>7
  <2>9. QED
    BY <2>6, <2>8
<1>3. Is(g)
  <2>1. g = [i \in 0 .. n |-> g[i]]
    BY <1>2
  <2>2. \A i \in 0 .. n : g[i] = IF i = 0 THEN {{}} ELSE More(g[i - 1])
    <3>1. \A i \in 0 .. n : i = 0 \/ i \in 1 .. n
      BY <1>1
    <3> HIDE DEF n, Is
    <3>2. QED
      BY <1>2, <3>1
  <2>3. QED
    BY <2>1, <2>2 DEF More, Count
<1> DEFINE h == CHOOSE f : Is(f)
<1>4. Order!Reached = h
  BY Zenon DEF Order!Reached
<1> HIDE DEF Is
<1>5. Is(h)
  BY <1>3, Zenon
<1> HIDE DEF h
<1>6. Over(h, n)
  BY <1>5 DEF Is, Count, Over
<1>7. \A i \in 0 .. n : h[i] = IF i = 0 THEN {{}} ELSE More(h[i - 1])
  BY <1>5 DEF Is, Count, More
<1>8. h[0] = {{}} /\ \A i \in 1 .. n : h[i] = More(h[i - 1])
  BY <1>1, <1>7
<1>9. \A q \in S : More(q) \in S
  BY MoreIs
<1>10. h[0] \in S
  BY <1>8
<1> HIDE DEF S, n
<1>11. Keeps(h, n, S)
  BY <1>8, <1>9, <1>10 DEF Keeps
<1>13. h \in [0 .. n -> S]
  BY <1>1, <1>6, <1>11, Stays
<1>12. QED
  BY <1>4, <1>8, <1>13 DEF n, S

\* One way to apply the steps, one by one, under the checks of the database
Grows(C, i) == \E s \in Order!Steps : Order!Extends(C[i - 1], s) /\ C[i] = C[i - 1] \cup {s}
Chain(C, n) ==
  C \in [0 .. n -> SUBSET Order!Steps] /\ C[0] = {} /\ \A i \in 1 .. n : Grows(C, i)

LEMMA Longer ==
  ASSUME NEW n \in Nat, NEW B, Chain(B, n), NEW s \in Order!Steps, Order!Extends(B[n], s)
  PROVE  \E C : Chain(C, n + 1) /\ C[n + 1] = B[n] \cup {s}
<1>1. PICK Y : Y = B[n] \cup {s}
  OBVIOUS
<1>2. Y \subseteq Order!Steps
  BY <1>1 DEF Chain
<1>3. PICK C : C = [i \in 0 .. n + 1 |-> IF i = n + 1 THEN Y ELSE B[i]]
  OBVIOUS
<1>4. C \in [0 .. n + 1 -> SUBSET Order!Steps]
  BY <1>2, <1>3 DEF Chain
<1>5. C[n + 1] = Y /\ \A i \in 0 .. n : C[i] = B[i]
  BY <1>3
<1>6. ASSUME NEW i \in 1 .. n + 1 PROVE Grows(C, i)
  <2>1. i - 1 \in 0 .. n /\ C[i - 1] = B[i - 1]
    BY <1>5
  <2>2. CASE i = n + 1
    <3>1. i - 1 = n
      BY <2>2
    <3>2. QED
      BY <1>1, <1>5, <2>1, <2>2, <3>1 DEF Grows
  <2>3. CASE i \in 1 .. n
    <3>1. C[i] = B[i] /\ Grows(B, i)
      BY <1>5, <2>3 DEF Chain
    <3>2. QED
      BY <2>1, <3>1 DEF Grows
  <2>4. QED
    BY <2>2, <2>3
<1>7. C[0] = {}
  BY <1>5 DEF Chain
<1>8. QED
  BY <1>1, <1>4, <1>5, <1>6, <1>7 DEF Chain

\* Every set of steps that can be applied is applied by a chain.
LEMMA Chains ==
  ASSUME NEW n \in 0 .. Count, NEW T \in Order!Reached[n]
  PROVE  \E C : Chain(C, n) /\ C[n] = T
<1> DEFINE Led(m) == \A X \in Order!Reached[m] : \E C : Chain(C, m) /\ C[m] = X
<1> DEFINE N == {m \in Nat : m <= Count => Led(m)}
<1>1. 0 \in N
  <2>1. SUFFICES ASSUME NEW X \in Order!Reached[0] PROVE \E C : Chain(C, 0) /\ C[0] = X
    OBVIOUS
  <2>2. X = {}
    BY ReachedIs
  <2>3. PICK C : C = [i \in 0 .. 0 |-> {}]
    OBVIOUS
  <2>4. C \in [0 .. 0 -> SUBSET Order!Steps] /\ C[0] = {}
    BY <2>3
  <2>5. Chain(C, 0)
    BY <2>4 DEF Chain
  <2>6. QED
    BY <2>2, <2>4, <2>5
<1>2. ASSUME NEW m \in Nat, m \in N PROVE m + 1 \in N
  <2>1. SUFFICES ASSUME m + 1 <= Count, NEW Y \in Order!Reached[m + 1]
                 PROVE  \E C : Chain(C, m + 1) /\ C[m + 1] = Y
    OBVIOUS
  <2>2. m + 1 \in 1 .. Count /\ (m + 1) - 1 = m /\ m <= Count
    BY <2>1, CountIs
  <2>3. Y \in More(Order!Reached[m])
    BY <2>1, <2>2, ReachedIs
  <2>4. PICK X \in Order!Reached[m], s \in Order!Steps : Order!Extends(X, s) /\ Y = X \cup {s}
    BY <2>3, MoreIs
  <2>5. PICK B : Chain(B, m) /\ B[m] = X
    BY <1>2, <2>2, <2>4
  <2> HIDE DEF N
  <2>6. QED
    BY <2>4, <2>5, Longer
<1> HIDE DEF N, Led
<1>3. \A m \in Nat : m \in N
  BY <1>1, <1>2, Induction
<1>4. n \in Nat /\ n <= Count
  BY CountIs
<1>5. Led(n)
  BY <1>3, <1>4 DEF N
<1>6. QED
  BY <1>5 DEF Led

LEMMA StillDeletesFirst ==
  ASSUME NEW X, DeletesFirst(X), NEW s \in Order!Steps, Order!Extends(X, s)
  PROVE  DeletesFirst(X \cup {s})
<1>1. ASSUME NEW r \in RefRow, Order!HasDelete(r), W(r) \in X \cup {s} PROVE D(r) \in X
  <2>1. CASE W(r) \in X
    BY <1>1, <2>1 DEF DeletesFirst
  <2>2. CASE s = W(r)
    <3>1. Order!RowOf(s) = r /\ ~Order!IsDelete(s)
      BY <2>2, Numbers
    <3>2. QED
      BY <1>1, <3>1 DEF Order!Extends, D
  <2>3. QED
    BY <1>1, <2>1, <2>2
<1>2. QED
  BY <1>1 DEF DeletesFirst

LEMMA NoneApplied == ASSUME OrderTypeOK PROVE Order!After({}) = original
<1>1. original = [r \in RefRow |-> original[r]]
  BY DEF OrderTypeOK, Order!Databases
<1>2. QED
  BY <1>1 DEF Order!After

\* What holds at every moment of it
Fits(C, i) ==
  /\ DeletesFirst(C[i]) /\ Order!Consistent(Order!After(C[i]))
  /\ IsFiniteSet(C[i]) /\ Cardinality(C[i]) = i

LEMMA ChainFits ==
  ASSUME OrderTypeOK, NEW n \in Nat, NEW C, Chain(C, n)
  PROVE  \A i \in 0 .. n : Fits(C, i)
<1> DEFINE N == {i \in Nat : i <= n => Fits(C, i)}
<1>1. 0 \in N
  <2>1. C[0] = {}
    BY DEF Chain
  <2>2. DeletesFirst({})
    BY DEF DeletesFirst
  <2>3. Order!Consistent(Order!After({}))
    BY NoneApplied DEF OrderTypeOK, Order!Databases
  <2>4. IsFiniteSet({}) /\ Cardinality({}) = 0
    BY FS_EmptySet
  <2>5. QED
    BY <2>1, <2>2, <2>3, <2>4 DEF Fits
<1>2. ASSUME NEW i \in Nat, i \in N PROVE i + 1 \in N
  <2>1. SUFFICES ASSUME i + 1 <= n PROVE Fits(C, i + 1)
    OBVIOUS
  <2>2. i + 1 \in 1 .. n /\ (i + 1) - 1 = i /\ Fits(C, i)
    BY <1>2, <2>1
  <2> HIDE DEF N
  <2>3. PICK s \in Order!Steps : Order!Extends(C[i], s) /\ C[i + 1] = C[i] \cup {s}
    BY <2>2 DEF Chain, Grows
  <2>4. DeletesFirst(C[i + 1])
    BY <2>2, <2>3, StillDeletesFirst DEF Fits
  <2>5. Order!Consistent(Order!After(C[i + 1])) /\ s \notin C[i]
    BY <2>3 DEF Order!Extends
  <2>6. IsFiniteSet(C[i + 1]) /\ Cardinality(C[i + 1]) = i + 1
    <3>1. PICK X : X = C[i]
      OBVIOUS
    <3>2. IsFiniteSet(X) /\ Cardinality(X) = i /\ s \notin X
      BY <2>2, <2>5, <3>1 DEF Fits
    <3>3. IsFiniteSet(X \cup {s}) /\ Cardinality(X \cup {s}) = i + 1
      BY <3>2, FS_AddElement
    <3>4. QED
      BY <2>3, <3>1, <3>3
  <2>7. QED
    BY <2>4, <2>5, <2>6 DEF Fits
<1> HIDE DEF N
<1>3. \A i \in Nat : i \in N
  BY <1>1, <1>2, Induction
<1>4. QED
  BY <1>3 DEF N

LEMMA ChainGrows ==
  ASSUME NEW n \in Nat, NEW C, Chain(C, n), NEW i \in 0 .. n
  PROVE  \A j \in i .. n : C[i] \subseteq C[j]
<1> DEFINE N == {d \in Nat : i + d <= n => C[i] \subseteq C[i + d]}
<1>1. 0 \in N
  BY i + 0 = i
<1>2. ASSUME NEW d \in Nat, d \in N PROVE d + 1 \in N
  <2>1. SUFFICES ASSUME i + (d + 1) <= n PROVE C[i] \subseteq C[i + (d + 1)]
    OBVIOUS
  <2>2. i + (d + 1) \in 1 .. n /\ (i + (d + 1)) - 1 = i + d /\ i + d <= n
    BY <2>1
  <2>3. C[i] \subseteq C[i + d]
    BY <1>2, <2>2
  <2>4. Grows(C, i + (d + 1))
    BY <2>2 DEF Chain
  <2>5. C[i + d] \subseteq C[i + (d + 1)]
    BY <2>2, <2>4 DEF Grows
  <2>6. QED
    BY <2>3, <2>5
<1> HIDE DEF N
<1>3. \A d \in Nat : d \in N
  BY <1>1, <1>2, Induction
<1>4. ASSUME NEW j \in i .. n PROVE C[i] \subseteq C[j]
  <2>1. j - i \in Nat /\ i + (j - i) = j /\ j <= n
    OBVIOUS
  <2>2. j - i \in N
    BY <1>3, <2>1
  <2>3. QED
    BY <2>1, <2>2 DEF N
<1>5. QED
  BY <1>4

\* A way to apply all of them
Passing(C) == Chain(C, Count) /\ C[Count] = Order!Steps

LEMMA SomePasses == ASSUME OrderTypeOK, Order!SomeOrderPasses PROVE \E C : Passing(C)
<1>1. Count \in 0 .. Count /\ Count \in Nat
  BY CountIs
<1>2. PICK T : T \in Order!Reached[Count]
  BY DEF Order!SomeOrderPasses, Count
<1>3. PICK C : Chain(C, Count) /\ C[Count] = T
  BY <1>1, <1>2, Chains
<1>4. Fits(C, Count)
  BY <1>1, <1>3, ChainFits
<1>5. C[Count] \subseteq Order!Steps
  BY <1>1, <1>3 DEF Chain
<1>6. C[Count] = Order!Steps
  BY <1>4, <1>5, CountIs, StepsFinite, FS_Subset DEF Fits
<1>7. QED
  BY <1>3, <1>6 DEF Passing

\* Each step has its moment there.
MomentOf(s, X, Y) ==
  /\ Y = X \cup {s} /\ Order!Extends(X, s) /\ DeletesFirst(X)
  /\ Order!Consistent(Order!After(X)) /\ Order!Consistent(Order!After(Y))

LEMMA FirstTime ==
  ASSUME OrderTypeOK, NEW C, Passing(C), NEW i \in 1 .. Count
  PROVE  \E s \in Order!Steps : MomentOf(s, C[i - 1], C[i])
<1>1. Chain(C, Count) /\ i - 1 \in 0 .. Count /\ i \in 0 .. Count /\ Count \in Nat
  BY CountIs DEF Passing
<1>2. Fits(C, i - 1) /\ Fits(C, i) /\ Grows(C, i)
  BY <1>1, ChainFits DEF Chain
<1>3. QED
  BY <1>2 DEF Grows, Fits, MomentOf

\* A set of steps that is not all of them misses a first one.
LEMMA FirstMissing ==
  ASSUME OrderTypeOK, NEW C, Passing(C), NEW A, NEW z \in Order!Steps, z \notin A
  PROVE  \E i \in 1 .. Count, s \in Order!Steps :
           MomentOf(s, C[i - 1], C[i]) /\ s \notin A /\ C[i - 1] \subseteq A
<1>1. Chain(C, Count) /\ Count \in Nat /\ C[Count] = Order!Steps
  BY CountIs DEF Passing
<1>2. PICK T : T = {i \in 0 .. Count : ~(C[i] \subseteq A)}
  OBVIOUS
<1>3. T # {} /\ T \subseteq Nat
  BY <1>1, <1>2
<1>4. PICK i \in T : \A j \in T : i <= j
  BY <1>3, Least
<1>5. i # 0
  BY <1>1, <1>2, <1>4 DEF Chain
<1>6. i \in 1 .. Count /\ i - 1 \in 0 .. Count /\ ~(i <= i - 1)
  BY <1>1, <1>2, <1>4, <1>5
<1>7. C[i - 1] \subseteq A
  BY <1>2, <1>4, <1>6
<1>8. PICK s \in Order!Steps : MomentOf(s, C[i - 1], C[i])
  BY <1>6, FirstTime
<1>9. s \notin A
  BY <1>2, <1>4, <1>7, <1>8 DEF MomentOf
<1>10. QED
  BY <1>6, <1>7, <1>8, <1>9

LEMMA Moment ==
  ASSUME OrderTypeOK, NEW C, Passing(C), NEW s \in Order!Steps
  PROVE  \E i \in 1 .. Count : MomentOf(s, C[i - 1], C[i])
<1>1. PICK A : A = Order!Steps \ {s}
  OBVIOUS
<1>2. PICK i \in 1 .. Count, x \in Order!Steps : MomentOf(x, C[i - 1], C[i]) /\ x \notin A
  BY <1>1, FirstMissing
<1>3. x = s
  BY <1>1, <1>2
<1>4. QED
  BY <1>2, <1>3

\* The first step missing from a set has what it waits for in the set.
LEMMA FirstIsReady ==
  ASSUME OrderTypeOK, NEW C, Passing(C), NEW A, NEW i \in 1 .. Count, NEW a, NEW b, <<a, b>> \in Order!Edges,
         MomentOf(b, C[i - 1], C[i]), C[i - 1] \subseteq A
  PROVE  a \in A
<1>1. /\ a \in Order!Steps /\ b \in Order!Steps /\ a # b
      /\ \/ <<a, b>> \in Order!Recreation
         \/ <<a, b>> \in Order!Releases
         \/ <<a, b>> \in Order!Acquisitions
  <2>1. PICK e \in Order!Edges : e = <<a, b>>
    OBVIOUS
  <2>2. e[1] = a /\ e[2] = b
    BY <2>1
  <2>3. QED
    BY <2>1, <2>2, EdgesAre
<1>2. Chain(C, Count) /\ Count \in Nat
  BY CountIs DEF Passing
<1>3. CASE <<a, b>> \in Order!Recreation
  BY <1>3, RecreationRespected DEF MomentOf
<1>4. CASE <<a, b>> \in Order!Releases
  BY <1>1, <1>4, ReleaseRespected DEF MomentOf
<1>5. CASE <<a, b>> \in Order!Acquisitions
  <2>1. PICK j \in 1 .. Count : MomentOf(a, C[j - 1], C[j])
    BY <1>1, Moment
  <2>2. b \notin C[j - 1]
    BY <1>1, <1>5, <2>1, AcquisitionRespected DEF MomentOf
  <2>3. b \in C[i]
    BY DEF MomentOf
  <2>4. j <= i
    <3>1. SUFFICES ASSUME i < j PROVE FALSE
      OBVIOUS
    <3>2. i \in 0 .. Count /\ j - 1 \in i .. Count
      BY <1>2, <3>1
    <3>3. C[i] \subseteq C[j - 1]
      BY <1>2, <3>2, ChainGrows
    <3>4. QED
      BY <2>2, <2>3, <3>3
  <2>5. j \in 0 .. Count /\ i \in j .. Count
    BY <1>2, <2>4
  <2>6. C[j] \subseteq C[i]
    BY <1>2, <2>5, ChainGrows
  <2>7. a \in C[i]
    BY <2>1, <2>6 DEF MomentOf
  <2>8. QED
    BY <1>1, <2>7 DEF MomentOf
<1>6. QED
  BY <1>1, <1>3, <1>4, <1>5

\* A row that no step deletes or renames keeps its code, and a row that no step
\* deletes or points elsewhere keeps its reference.
LEMMA CodeStays ==
  ASSUME OrderTypeOK, NEW p \in RefRow, original[p] # Gone, Order!Ends(p, Order!CodeMoves(p)) = {},
         NEW X, X \subseteq Order!Steps
  PROVE  Order!After(X)[p] # Gone /\ Order!After(X)[p].code = original[p].code
<1>1. ~Order!HasDelete(p) /\ (Order!HasWrite(p) => ~Order!CodeMoves(p))
  BY DEF Order!Ends
<1>2. D(p) \notin X
  BY <1>1, StepsAre
<1>3. CASE W(p) \in X
  <2>1. Order!HasWrite(p) /\ final[p] # Gone
    BY <1>3, StepsAre, Kinds
  <2>2. final[p].code = original[p].code
    BY <1>1, <2>1 DEF Order!CodeMoves, Order!CodeIn
  <2>3. Order!After(X)[p] = final[p]
    BY <1>3, AfterIs
  <2>4. QED
    BY <2>1, <2>2, <2>3
<1>4. CASE W(p) \notin X
  BY <1>2, <1>4, AfterIs
<1>5. QED
  BY <1>3, <1>4

LEMMA RefStays ==
  ASSUME OrderTypeOK, NEW c \in RefRow, original[c] # Gone, Order!Ends(c, Order!RefMoves(c)) = {},
         NEW X, X \subseteq Order!Steps
  PROVE  Order!After(X)[c] # Gone /\ Order!After(X)[c].ref = original[c].ref
<1>1. ~Order!HasDelete(c) /\ (Order!HasWrite(c) => ~Order!RefMoves(c))
  BY DEF Order!Ends
<1>2. D(c) \notin X
  BY <1>1, StepsAre
<1>3. CASE W(c) \in X
  <2>1. Order!HasWrite(c) /\ final[c] # Gone
    BY <1>3, StepsAre, Kinds
  <2>2. final[c].ref = original[c].ref
    BY <1>1, <2>1 DEF Order!RefMoves, Order!RefIn
  <2>3. Order!After(X)[c] = final[c]
    BY <1>3, AfterIs
  <2>4. QED
    BY <2>1, <2>2, <2>3
<1>4. CASE W(c) \notin X
  BY <1>2, <1>4, AfterIs
<1>5. QED
  BY <1>3, <1>4

\* Whoever never lets go of a key keeps its parent in place.
LEMMA ParentStays ==
  ASSUME OrderTypeOK, NEW C, Passing(C), NEW c \in RefRow, NEW p \in RefRow, NEW k, k # 0,
         original[c] # Gone, original[c].ref = k, Order!Ends(c, Order!RefMoves(c)) = {},
         original[p] # Gone, original[p].code = k
  PROVE  Order!Ends(p, Order!CodeMoves(p)) = {}
<1>1. SUFFICES ASSUME NEW b \in Order!Ends(p, Order!CodeMoves(p)) PROVE FALSE
  OBVIOUS
<1>2. \/ b = D(p) /\ Order!HasDelete(p)
      \/ b = W(p) /\ ~Order!HasDelete(p) /\ Order!HasWrite(p) /\ Order!CodeMoves(p)
  BY DEF Order!Ends, D, W
<1>3. b \in Order!Steps
  BY <1>2, StepsAre
<1>4. PICK i \in 1 .. Count : MomentOf(b, C[i - 1], C[i])
  BY <1>3, Moment
<1>5. PICK X : X = C[i - 1]
  OBVIOUS
<1>6. PICK Y : Y = X \cup {b}
  OBVIOUS
<1>7. /\ b \notin X /\ DeletesFirst(X) /\ X \subseteq Order!Steps /\ Y \subseteq Order!Steps
      /\ Order!Consistent(Order!After(X)) /\ Order!Consistent(Order!After(Y))
  BY <1>3, <1>4, <1>5, <1>6 DEF MomentOf, Order!Extends, DeletesFirst
<1>8. D(p) \notin X /\ W(p) \notin X
  BY <1>2, <1>7, StepsAre DEF DeletesFirst
<1>9. Order!After(X)[p] = original[p]
  BY <1>8, AfterIs
<1>10. Order!After(Y)[c] # Gone /\ Order!After(Y)[c].ref = k
  BY <1>7, RefStays
<1>11. b \in {D(p), W(p)}
  BY <1>2
<1>12. Order!After(Y)[p] # Gone /\ Order!After(Y)[p].code = k
  BY <1>6, <1>7, <1>9, <1>10, <1>11, KeyKept
<1>13. CASE b = D(p)
  <2>1. D(p) \in Y /\ W(p) \notin Y
    BY <1>6, <1>8, <1>13, Numbers
  <2>2. QED
    BY <1>12, <2>1, AfterIs
<1>14. CASE b = W(p) /\ Order!CodeMoves(p)
  <2>1. Order!After(Y)[p] = final[p]
    BY <1>6, <1>14, AfterIs
  <2>2. Order!CodeIn(final, p) # k
    BY <1>14 DEF Order!CodeMoves, Order!CodeIn
  <2>3. QED
    BY <1>12, <2>1, <2>2 DEF Order!CodeIn
<1>15. QED
  BY <1>2, <1>13, <1>14

Before(A) == A \subseteq Order!Steps /\ \A e \in Order!Edges : e[2] \in A => e[1] \in A

LEMMA EdgeInto ==
  ASSUME NEW A, Before(A), NEW a, NEW b, a # b, b \in A,
         \/ <<a, b>> \in Order!Recreation
         \/ <<a, b>> \in Order!Releases
         \/ <<a, b>> \in Order!Acquisitions
  PROVE  a \in A
<1>1. PICK e : e = <<a, b>>
  OBVIOUS
<1>2. e[1] = a /\ e[2] = b
  BY <1>1
<1>3. e \in Order!Edges
  BY <1>1, <1>2 DEF Order!Edges
<1>4. QED
  BY <1>2, <1>3 DEF Before

\* A child whose reference is the one it ends with has its parent by then,
LEMMA WrittenMet ==
  ASSUME OrderTypeOK, Order!Consistent(final), NEW C, Passing(C), NEW A, Before(A),
         NEW c \in RefRow, W(c) \in A, NEW k, k # 0, final[c].ref = k
  PROVE  \E p \in RefRow : Order!After(A)[p] # Gone /\ Order!After(A)[p].code = k
<1>1. A \subseteq Order!Steps
  BY DEF Before
<1>2. Order!HasWrite(c) /\ final[c] # Gone /\ c \in Order!ReviewedRows
  BY <1>1, StepsAre, Kinds DEF Order!HasWrite
<1>3. PICK p \in RefRow : final[p] # Gone /\ final[p].code = k
  BY <1>2 DEF Order!Consistent, Order!ForeignKeysHold, Order!There
<1>4. CASE p \notin Order!ReviewedRows
  <2>1. original[p] = final[p] /\ D(p) \notin A /\ W(p) \notin A
    BY <1>1, <1>4, Kinds, StepsAre
  <2>2. Order!After(A)[p] = final[p]
    BY <2>1, AfterIs
  <2>3. QED
    BY <1>3, <2>2
<1>5. CASE W(p) \in A
  BY <1>3, <1>5, AfterIs
<1>6. CASE p \in Order!ReviewedRows /\ W(p) \notin A /\ Order!Starts(c, Order!RefMoves(c)) # {}
  <2>1. W(c) \in Order!Starts(c, Order!RefMoves(c))
    BY <1>6 DEF Order!Starts, W
  <2>2. p \in Order!Parents(final, c)
    BY <1>2, <1>3, <1>6 DEF Order!Parents, Order!RefIn, Order!CodeIn
  <2>3. Order!HasWrite(p)
    BY <1>3, <1>6, Kinds
  <2>4. ~(Order!Operation(p) = "insert" \/ Order!CodeMoves(p))
    <3>1. SUFFICES ASSUME Order!Operation(p) = "insert" \/ Order!CodeMoves(p) PROVE FALSE
      OBVIOUS
    <3>2. W(p) \in Order!Starts(p, Order!CodeMoves(p))
      BY <2>3, <3>1 DEF Order!Starts, W
    <3>3. <<W(p), W(c)>> \in Order!Acquisitions
      BY <1>2, <2>1, <2>2, <3>2 DEF Order!Acquisitions
    <3>4. W(p) # W(c)
      BY <1>6
    <3>5. QED
      BY <1>6, <3>3, <3>4, EdgeInto
  <2>5. original[p] # Gone /\ ~Order!HasDelete(p)
    BY <2>3, <2>4, Kinds
  <2>6. original[p].code = k
    BY <1>3, <2>4, <2>5 DEF Order!CodeMoves, Order!CodeIn
  <2>7. D(p) \notin A
    BY <1>1, <2>5, StepsAre
  <2>8. Order!After(A)[p] = original[p]
    BY <1>6, <2>7, AfterIs
  <2>9. QED
    BY <2>5, <2>6, <2>8
<1>7. CASE Order!Starts(c, Order!RefMoves(c)) = {}
  <2>1. Order!Operation(c) # "insert" /\ ~Order!RefMoves(c)
    BY <1>2, <1>7 DEF Order!Starts
  <2>2. original[c] # Gone /\ ~Order!HasDelete(c)
    BY <1>2, <2>1, Kinds
  <2>3. original[c].ref = k
    BY <1>2, <2>1, <2>2 DEF Order!RefMoves, Order!RefIn
  <2>4. Order!Ends(c, Order!RefMoves(c)) = {}
    BY <2>1, <2>2 DEF Order!Ends
  <2>5. PICK q \in RefRow : original[q] # Gone /\ original[q].code = k
    BY <2>2, <2>3 DEF OrderTypeOK, Order!Databases, Order!Consistent, Order!ForeignKeysHold, Order!There
  <2>6. Order!Ends(q, Order!CodeMoves(q)) = {}
    BY <2>2, <2>3, <2>4, <2>5, ParentStays
  <2>7. QED
    BY <1>1, <2>5, <2>6, CodeStays
<1>8. QED
  BY <1>4, <1>5, <1>6, <1>7

\* and one whose reference is the one it began with has it still.
LEMMA UnwrittenMet ==
  ASSUME OrderTypeOK, NEW C, Passing(C), NEW A, Before(A),
         NEW c \in RefRow, W(c) \notin A, D(c) \notin A, original[c] # Gone, NEW k, k # 0, original[c].ref = k
  PROVE  \E p \in RefRow : Order!After(A)[p] # Gone /\ Order!After(A)[p].code = k
<1>1. A \subseteq Order!Steps
  BY DEF Before
<1>2. PICK p \in RefRow : original[p] # Gone /\ original[p].code = k
  BY DEF OrderTypeOK, Order!Databases, Order!Consistent, Order!ForeignKeysHold, Order!There
<1>3. CASE Order!Ends(p, Order!CodeMoves(p)) = {}
  BY <1>1, <1>2, <1>3, CodeStays
<1>4. CASE Order!Ends(c, Order!RefMoves(c)) = {}
  <2>1. Order!Ends(p, Order!CodeMoves(p)) = {}
    BY <1>2, <1>4, ParentStays
  <2>2. QED
    BY <1>3, <2>1
<1>5. CASE Order!Ends(p, Order!CodeMoves(p)) # {} /\ Order!Ends(c, Order!RefMoves(c)) # {}
  <2>1. PICK a \in Order!Ends(c, Order!RefMoves(c)), b \in Order!Ends(p, Order!CodeMoves(p)) : TRUE
    BY <1>5
  <2>2. a \in {D(c), W(c)} /\ c \in Order!ReviewedRows
    BY <2>1 DEF Order!Ends, Order!HasDelete, Order!HasWrite, D, W
  <2>3. /\ p \in Order!ReviewedRows
        /\ \/ b = D(p) /\ Order!HasDelete(p)
           \/ b = W(p) /\ ~Order!HasDelete(p)
    BY <2>1 DEF Order!Ends, Order!HasDelete, Order!HasWrite, D, W
  <2>4. p \in Order!Parents(original, c)
    BY <1>2, <2>3 DEF Order!Parents, Order!RefIn, Order!CodeIn
  <2>5. <<a, b>> \in Order!Releases
    BY <2>1, <2>2, <2>4 DEF Order!Releases
  <2>6. b \notin A
    BY <2>2, <2>5, EdgeInto
  <2>7. D(p) \notin A /\ W(p) \notin A
    <3>1. CASE b = D(p) /\ Order!HasDelete(p)
      <4>1. SUFFICES ASSUME W(p) \in A PROVE FALSE
        BY <2>6, <3>1
      <4>2. Order!HasWrite(p)
        BY <1>1, <4>1, StepsAre
      <4>3. <<D(p), W(p)>> \in Order!Recreation
        BY <3>1, <4>2 DEF Order!Recreation, D, W
      <4>4. D(p) # W(p)
        BY Numbers
      <4>5. QED
        BY <2>6, <3>1, <4>1, <4>3, <4>4, EdgeInto
    <3>2. CASE b = W(p) /\ ~Order!HasDelete(p)
      BY <1>1, <2>6, <3>2, StepsAre
    <3>3. QED
      BY <2>3, <3>1, <3>2
  <2>8. QED
    BY <1>2, <2>7, AfterIs
<1>6. QED
  BY <1>3, <1>4, <1>5

\* Whatever is applied with all it waits for meets every reference.
LEMMA ClosedHolds ==
  ASSUME OrderTypeOK, Order!SomeOrderPasses, NEW A, Before(A)
  PROVE  Order!ForeignKeysHold(Order!After(A))
<1>1. Order!Consistent(final)
  BY DEF Order!SomeOrderPasses
<1>2. PICK C : Passing(C)
  BY SomePasses
<1>3. SUFFICES ASSUME NEW c \in RefRow, Order!After(A)[c] # Gone, NEW k, k = Order!After(A)[c].ref, k # 0
               PROVE  \E p \in RefRow : Order!After(A)[p] # Gone /\ Order!After(A)[p].code = k
  BY DEF Order!ForeignKeysHold, Order!There
<1>4. CASE W(c) \in A
  <2>1. final[c].ref = k
    BY <1>3, <1>4, AfterIs
  <2>2. QED
    BY <1>1, <1>2, <1>3, <1>4, <2>1, WrittenMet
<1>5. CASE W(c) \notin A
  <2>1. D(c) \notin A
    BY <1>3, <1>5, AfterIs
  <2>2. original[c] = Order!After(A)[c]
    BY <1>5, <2>1, AfterIs
  <2>3. original[c] # Gone /\ original[c].ref = k
    BY <1>3, <2>2
  <2>4. QED
    BY <1>2, <1>3, <1>5, <2>1, <2>3, UnwrittenMet
<1>6. QED
  BY <1>4, <1>5

Elements(q) == Order!Range(q)

LEMMA ElementsIs == ASSUME NEW q, NEW x PROVE x \in Elements(q) <=> \E i \in DOMAIN q : x = q[i]
BY DEF Elements, Order!Range

LEMMA ElementsOfAppend ==
  ASSUME NEW S, NEW q \in Seq(S), NEW s \in S
  PROVE  /\ Append(q, s) \in Seq(S) /\ Len(Append(q, s)) = Len(q) + 1
         /\ Append(q, s)[Len(q) + 1] = s /\ \A i \in 1 .. Len(q) : Append(q, s)[i] = q[i]
         /\ Elements(Append(q, s)) = Elements(q) \cup {s}
<1>1. PICK z : z = Append(q, s)
  OBVIOUS
<1>2. /\ z \in Seq(S) /\ Len(z) = Len(q) + 1 /\ Len(q) \in Nat
      /\ z[Len(q) + 1] = s /\ \A i \in 1 .. Len(q) : z[i] = q[i]
  BY <1>1
<1>3. DOMAIN q = 1 .. Len(q) /\ DOMAIN z = 1 .. Len(q) + 1
  BY <1>2
<1>4. \A x : x \in Elements(z) <=> x \in Elements(q) \cup {s}
  <2>1. ASSUME NEW x \in Elements(z) PROVE x \in Elements(q) \cup {s}
    <3>1. PICK i \in 1 .. Len(q) + 1 : x = z[i]
      BY <1>3, <2>1, ElementsIs
    <3>2. i = Len(q) + 1 \/ i \in 1 .. Len(q)
      BY <1>2
    <3>3. QED
      BY <1>2, <1>3, <3>1, <3>2, ElementsIs
  <2>2. ASSUME NEW x \in Elements(q) PROVE x \in Elements(z)
    <3>1. PICK i \in 1 .. Len(q) : x = q[i]
      BY <1>3, <2>2, ElementsIs
    <3>2. i \in DOMAIN z /\ x = z[i]
      BY <1>2, <1>3, <3>1
    <3>3. QED
      BY <3>2, ElementsIs
  <2>3. s \in Elements(z)
    <3>1. Len(q) + 1 \in DOMAIN z /\ s = z[Len(q) + 1]
      BY <1>2, <1>3
    <3>2. QED
      BY <3>1, ElementsIs
  <2>4. QED
    BY <2>1, <2>2, <2>3
<1>5. QED
  BY <1>1, <1>2, <1>4

Step(q) == LET ready == Order!Ready(Order!Edges, Elements(q))
           IN  IF ready = {} THEN q ELSE Append(q, Order!Smallest(ready))

LEMMA ReadyIs ==
  ASSUME NEW A, NEW s
  PROVE  s \in Order!Ready(Order!Edges, A) <=>
           s \in Order!Steps /\ s \notin A /\ \A e \in Order!Edges : e[2] = s => e[1] \in A
BY DEF Order!Ready

LEMMA SmallestIs == ASSUME NEW R, R # {}, R \subseteq Nat PROVE Order!Smallest(R) \in R
<1>1. PICK m \in R : \A x \in R : m <= x
  BY Least
<1>2. QED
  BY <1>1 DEF Order!Smallest

LEMMA StepIs ==
  ASSUME NEW q \in Seq(Order!Steps)
  PROVE  /\ Step(q) \in Seq(Order!Steps)
         /\ \/ Step(q) = q
            \/ \E s \in Order!Ready(Order!Edges, Elements(q)) : Step(q) = Append(q, s)
         /\ Order!Ready(Order!Edges, Elements(q)) # {} =>
              \E s \in Order!Ready(Order!Edges, Elements(q)) : Step(q) = Append(q, s)
<1>1. PICK R : R = Order!Ready(Order!Edges, Elements(q))
  OBVIOUS
<1>2. R \subseteq Order!Steps /\ R \subseteq Nat
  BY <1>1, ReadyIs, StepsFinite
<1>3. CASE R = {}
  BY <1>1, <1>3 DEF Step
<1>4. CASE R # {}
  <2>1. PICK s \in R : s = Order!Smallest(R)
    BY <1>2, <1>4, SmallestIs
  <2>2. Step(q) = Append(q, s)
    BY <1>1, <1>4, <2>1 DEF Step
  <2>3. Append(q, s) \in Seq(Order!Steps)
    BY <1>2, <2>1
  <2>4. QED
    BY <1>1, <2>1, <2>2, <2>3
<1>5. QED
  BY <1>3, <1>4

EmittedSteps == Order!Emitted(Order!Edges)

LEMMA EmittedIs ==
  /\ EmittedSteps \in [0 .. Count -> Seq(Order!Steps)]
  /\ EmittedSteps[0] = <<>>
  /\ \A i \in 1 .. Count : EmittedSteps[i] = Step(EmittedSteps[i - 1])
<1> DEFINE n == Count
<1> DEFINE S == Seq(Order!Steps)
<1> DEFINE Is(g) == g = [i \in 0 .. Order!Cardinality(Order!Steps) |-> IF i = 0 THEN <<>>
     ELSE LET before == g[i - 1]
              ready == Order!Ready(Order!Edges, Order!Range(before))
          IN  IF ready = {} THEN before ELSE Append(before, Order!Smallest(ready))]
<1>1. n \in Nat
  BY CountIs
<1>2. PICK g \in [0 .. n -> S] : g[0] = <<>> /\ \A i \in 1 .. n : g[i] = Step(g[i - 1])
  <2> DEFINE F == [i \in 1 .. n |-> [q \in S |-> Step(q)]]
  <2>1. \A q \in S : Step(q) \in S
    BY StepIs
  <2>2. F \in [1 .. n -> [S -> S]]
    BY <2>1
  <2>3. \A i \in 1 .. n, q \in S : F[i][q] = Step(q)
    OBVIOUS
  <2>4. Turns(F, n, S)
    BY <2>2 DEF Turns
  <2>5. <<>> \in S
    OBVIOUS
  <2> HIDE DEF F, n, S, Is
  <2>6. PICK g : Iterates(g, n, S, <<>>, F)
    BY <1>1, <2>4, <2>5, Recursion
  <2> USE DEF Iterates
  <2>7. \A i \in 1 .. n : g[i - 1] \in S
    BY <1>1, <2>6
  <2>8. \A i \in 1 .. n : g[i] = Step(g[i - 1])
    BY <2>3, <2>6, <2>7
  <2>9. QED
    BY <2>6, <2>8
<1>3. Is(g)
  <2>1. g = [i \in 0 .. n |-> g[i]]
    BY <1>2
  <2>2. \A i \in 0 .. n : g[i] = IF i = 0 THEN <<>> ELSE Step(g[i - 1])
    <3>1. \A i \in 0 .. n : i = 0 \/ i \in 1 .. n
      BY <1>1
    <3> HIDE DEF n, Is
    <3>2. QED
      BY <1>2, <3>1
  <2>3. QED
    BY <2>1, <2>2 DEF Step, Elements, Count
<1> DEFINE h == CHOOSE f : Is(f)
<1>4. EmittedSteps = h
  BY Zenon DEF EmittedSteps, Order!Emitted
<1> HIDE DEF Is
<1>5. Is(h)
  BY <1>3, Zenon
<1> HIDE DEF h
<1>6. h = [i \in 0 .. n |-> IF i = 0 THEN <<>> ELSE Step(h[i - 1])]
  BY <1>5 DEF Is, Count, Step, Elements
<1>7. Over(h, n)
  BY <1>6 DEF Over
<1>8. h[0] = <<>> /\ \A i \in 1 .. n : h[i] = Step(h[i - 1])
  BY <1>1, <1>6
<1>9. \A q \in S : Step(q) \in S
  BY StepIs
<1>10. h[0] \in S
  BY <1>8
<1> HIDE DEF S, n
<1>11. Keeps(h, n, S)
  BY <1>8, <1>9, <1>10 DEF Keeps
<1>13. h \in [0 .. n -> S]
  BY <1>1, <1>7, <1>11, Stays
<1>14. QED
  BY <1>4, <1>8, <1>13 DEF n, S

\* A list of steps, each once and after all it waits for
Waited(q, i) == \A e \in Order!Edges : e[2] = q[i] => \E j \in 1 .. i - 1 : e[1] = q[j]
Sound(q, n) ==
  /\ q \in Seq(Order!Steps) /\ Len(q) = n
  /\ IsFiniteSet(Elements(q)) /\ Cardinality(Elements(q)) = n
  /\ \A i \in 1 .. n : Waited(q, i)

LEMMA SomeReady ==
  ASSUME OrderTypeOK, NEW C, Passing(C), NEW A, NEW z \in Order!Steps, z \notin A
  PROVE  Order!Ready(Order!Edges, A) # {}
<1>1. PICK i \in 1 .. Count, s \in Order!Steps : MomentOf(s, C[i - 1], C[i]) /\ s \notin A /\ C[i - 1] \subseteq A
  BY FirstMissing
<1>2. ASSUME NEW e \in Order!Edges, e[2] = s PROVE e[1] \in A
  <2>1. <<e[1], s>> \in Order!Edges
    BY <1>2, EdgesAre
  <2>2. QED
    BY <1>1, <2>1, FirstIsReady
<1>3. s \in Order!Ready(Order!Edges, A)
  BY <1>1, <1>2, ReadyIs
<1>4. QED
  BY <1>3

\* While steps are left, one more comes next.
LEMMA SoundGrows ==
  ASSUME OrderTypeOK, NEW C, Passing(C), NEW n \in Nat, n < Count, NEW q, Sound(q, n)
  PROVE  Sound(Step(q), n + 1)
<1>1. PICK A : A = Elements(q)
  OBVIOUS
<1>2. q \in Seq(Order!Steps) /\ Len(q) = n /\ IsFiniteSet(A) /\ Cardinality(A) = n
  BY <1>1 DEF Sound
<1>3. A # Order!Steps
  BY <1>2, CountIs
<1>4. A \subseteq Order!Steps
  <2>1. DOMAIN q = 1 .. Len(q) /\ \A i \in 1 .. Len(q) : q[i] \in Order!Steps
    BY <1>2
  <2>2. QED
    BY <1>1, <2>1, ElementsIs
<1>5. PICK z \in Order!Steps : z \notin A
  BY <1>3, <1>4
<1>6. PICK s \in Order!Ready(Order!Edges, A) : Step(q) = Append(q, s)
  BY <1>1, <1>2, <1>5, SomeReady, StepIs
<1>7. s \in Order!Steps /\ s \notin A /\ \A e \in Order!Edges : e[2] = s => e[1] \in A
  BY <1>6, ReadyIs
<1>8. PICK y : y = Step(q)
  OBVIOUS
<1>9. /\ y \in Seq(Order!Steps) /\ Len(y) = n + 1 /\ y[n + 1] = s /\ \A i \in 1 .. n : y[i] = q[i]
      /\ Elements(y) = A \cup {s}
  BY <1>1, <1>2, <1>6, <1>7, <1>8, ElementsOfAppend
<1>10. IsFiniteSet(A \cup {s}) /\ Cardinality(A \cup {s}) = n + 1
  BY <1>2, <1>7, FS_AddElement
<1>11. ASSUME NEW i \in 1 .. n + 1, NEW e \in Order!Edges, e[2] = y[i] PROVE \E j \in 1 .. i - 1 : e[1] = y[j]
  <2>1. CASE i \in 1 .. n
    <3>1. Waited(q, i) /\ e[2] = q[i]
      BY <1>9, <1>11, <2>1 DEF Sound
    <3>2. PICK j \in 1 .. i - 1 : e[1] = q[j]
      BY <3>1 DEF Waited
    <3>3. j \in 1 .. n
      BY <2>1
    <3>4. e[1] = y[j]
      BY <1>9, <3>2, <3>3
    <3>5. QED
      BY <3>2, <3>4
  <2>2. CASE i = n + 1
    <3>1. e[1] \in A
      BY <1>7, <1>9, <1>11, <2>2
    <3>2. DOMAIN q = 1 .. n
      BY <1>2
    <3>3. PICK j \in 1 .. n : e[1] = q[j]
      BY <1>1, <3>1, <3>2, ElementsIs
    <3>4. j \in 1 .. i - 1 /\ y[j] = q[j]
      BY <1>9, <2>2
    <3>5. QED
      BY <3>3, <3>4
  <2>3. QED
    BY <2>1, <2>2
<1>12. \A i \in 1 .. n + 1 : Waited(y, i)
  BY <1>11 DEF Waited
<1>13. QED
  BY <1>8, <1>9, <1>10, <1>12 DEF Sound

LEMMA EmittedSound ==
  ASSUME OrderTypeOK, NEW C, Passing(C)
  PROVE  Sound(EmittedSteps[Count], Count)
<1> DEFINE N == {n \in Nat : n <= Count => Sound(EmittedSteps[n], n)}
<1>1. 0 \in N
  <2>1. EmittedSteps[0] = <<>>
    BY EmittedIs
  <2>2. Elements(<<>>) = {}
    BY DEF Elements, Order!Range
  <2>3. IsFiniteSet({}) /\ Cardinality({}) = 0
    BY FS_EmptySet
  <2>4. <<>> \in Seq(Order!Steps) /\ Len(<<>>) = 0
    OBVIOUS
  <2> HIDE DEF N
  <2>5. \A i \in 1 .. 0 : Waited(<<>>, i)
    OBVIOUS
  <2>6. Sound(<<>>, 0)
    BY <2>2, <2>3, <2>4, <2>5 DEF Sound
  <2>7. QED
    BY <2>1, <2>6 DEF N
<1>2. ASSUME NEW n \in Nat, n \in N PROVE n + 1 \in N
  <2>1. SUFFICES ASSUME n + 1 <= Count PROVE Sound(EmittedSteps[n + 1], n + 1)
    OBVIOUS
  <2>2. n + 1 \in 1 .. Count /\ (n + 1) - 1 = n /\ n < Count
    BY <2>1, CountIs
  <2>3. Sound(EmittedSteps[n], n)
    BY <1>2, <2>2, CountIs
  <2> HIDE DEF N
  <2>4. EmittedSteps[n + 1] = Step(EmittedSteps[n])
    BY <2>2, EmittedIs
  <2>5. QED
    BY <2>2, <2>3, <2>4, SoundGrows
<1> HIDE DEF N
<1>3. \A n \in Nat : n \in N
  BY <1>1, <1>2, Induction
<1>4. QED
  BY <1>3, CountIs DEF N

\* Every beginning of such a list is closed under what it waits for.
LEMMA SoundPrefix ==
  ASSUME NEW n \in Nat, NEW q, Sound(q, n), NEW m \in 1 .. n
  PROVE  Before(Order!Range(SubSeq(q, 1, m)))
<1>1. q \in Seq(Order!Steps) /\ Len(q) = n /\ m \in Nat /\ m <= n
  BY DEF Sound
<1>2. PICK p : p = SubSeq(q, 1, m)
  OBVIOUS
<1>3. DOMAIN p = 1 .. m /\ \A i \in 1 .. m : p[i] = q[i] /\ q[i] \in Order!Steps
  BY <1>1, <1>2
<1>4. \A x : x \in Elements(p) <=> \E i \in 1 .. m : x = q[i]
  BY <1>3, ElementsIs
<1>5. ASSUME NEW e \in Order!Edges, e[2] \in Elements(p) PROVE e[1] \in Elements(p)
  <2>1. PICK i \in 1 .. m : e[2] = q[i]
    BY <1>4, <1>5
  <2>2. i \in 1 .. n
    BY <1>1
  <2>3. PICK j \in 1 .. i - 1 : e[1] = q[j]
    BY <2>1, <2>2 DEF Sound, Waited
  <2>4. j \in 1 .. m
    BY <1>1
  <2>5. QED
    BY <1>4, <2>3, <2>4
<1>6. Elements(p) \subseteq Order!Steps
  BY <1>3, <1>4
<1>7. QED
  BY <1>2, <1>5, <1>6 DEF Before, Elements

\* So the order the code finds passes the checks of references.
LEMMA PublicationSafe == ASSUME OrderTypeOK PROVE Order!PublicationOrderIsSafe
<1>1. SUFFICES ASSUME Order!SomeOrderPasses
               PROVE  LET order == Order!Ordered
                      IN  /\ Len(order) = Order!Cardinality(Order!Steps)
                          /\ \A n \in DOMAIN order : Order!ForeignKeysHold(Order!After(Order!Range(SubSeq(order, 1, n))))
  BY Zenon DEF Order!PublicationOrderIsSafe
<1>2. PICK C : Passing(C)
  BY <1>1, SomePasses
<1>3. PICK q : q = Order!Ordered
  OBVIOUS
<1>4. Sound(q, Count)
  BY <1>2, <1>3, EmittedSound DEF Order!Ordered, EmittedSteps, Count
<1>5. Len(q) = Count /\ Count \in Nat /\ DOMAIN q = 1 .. Count
  BY <1>4, CountIs DEF Sound
<1>6. ASSUME NEW n \in DOMAIN q PROVE Order!ForeignKeysHold(Order!After(Order!Range(SubSeq(q, 1, n))))
  BY <1>1, <1>4, <1>5, <1>6, SoundPrefix, ClosedHolds
<1>7. QED
  BY <1>3, <1>5, <1>6 DEF Count

-----------------------------------------------------------------------------
(* ReferenceOrder: the order of tables *)

TableCount == Order!Cardinality(Table)

LEMMA TablesAre == TableCount = Cardinality(Table) /\ TableCount \in Nat /\ Table = 1 .. TableCount /\ IsFiniteSet(Table)
<1>1. TableCount = Cardinality(Table) /\ Order!IsFiniteSet(Table) = IsFiniteSet(Table)
  BY DEF TableCount, Order!Cardinality, Cardinality, Order!IsFiniteSet, IsFiniteSet
<1>2. QED
  BY <1>1, OrderAssumption, FS_CardinalityType DEF Order!RowsAndTables, TableCount

Named(t) == references[t] \ {t}

Once(q) == q \in Seq(Table) /\ \A i, j \in 1 .. Len(q) : q[i] = q[j] => i = j
Begins(p, q) == Len(p) <= Len(q) /\ \A i \in 1 .. Len(p) : q[i] = p[i]
Supported(q) == \A i \in 1 .. Len(q) : \A u \in Named(q[i]) : \E j \in 1 .. i - 1 : q[j] = u
Stuck(q) == \A t \in Table \ Elements(q) : ~(Named(t) \subseteq Elements(q))

Turn(q, waits, t) ==
  IF t \in Elements(q) \/ (waits /\ ~(Named(t) \subseteq Elements(q))) THEN q ELSE Append(q, t)

\* What the turn of a table does to a list
LEMMA TurnIs ==
  ASSUME NEW q, Once(q), NEW waits \in BOOLEAN, NEW t \in Table, NEW y, y = Turn(q, waits, t)
  PROVE  /\ Once(y) /\ Begins(q, y) /\ Elements(q) \subseteq Elements(y)
         /\ waits /\ Supported(q) => Supported(y)
         /\ ~waits \/ Named(t) \subseteq Elements(q) => t \in Elements(y)
<1>1. q \in Seq(Table) /\ Len(q) \in Nat /\ DOMAIN q = 1 .. Len(q)
  BY DEF Once
<1>2. CASE y = q /\ (t \in Elements(q) \/ (waits /\ ~(Named(t) \subseteq Elements(q))))
  BY <1>1, <1>2 DEF Begins
<1>3. CASE y = Append(q, t) /\ t \notin Elements(q) /\ (waits => Named(t) \subseteq Elements(q))
  <2>1. /\ y \in Seq(Table) /\ Len(y) = Len(q) + 1 /\ y[Len(q) + 1] = t
        /\ \A i \in 1 .. Len(q) : y[i] = q[i]
        /\ Elements(y) = Elements(q) \cup {t}
    BY <1>1, <1>3, ElementsOfAppend
  <2>2. \A i \in 1 .. Len(q) : q[i] # t
    BY <1>1, <1>3, ElementsIs
  <2>3. Once(y)
    <3>1. ASSUME NEW i \in 1 .. Len(y), NEW j \in 1 .. Len(y), y[i] = y[j] PROVE i = j
      <4>1. (i \in 1 .. Len(q) \/ i = Len(q) + 1) /\ (j \in 1 .. Len(q) \/ j = Len(q) + 1)
        BY <1>1, <2>1
      <4>2. QED
        BY <2>1, <2>2, <3>1, <4>1 DEF Once
    <3>2. QED
      BY <2>1, <3>1 DEF Once
  <2>4. Begins(q, y)
    BY <1>1, <2>1 DEF Begins
  <2>5. ASSUME waits, Supported(q) PROVE Supported(y)
    <3>1. ASSUME NEW i \in 1 .. Len(y), NEW u \in Named(y[i]) PROVE \E j \in 1 .. i - 1 : y[j] = u
      <4>1. CASE i \in 1 .. Len(q)
        <5>1. u \in Named(q[i])
          BY <2>1, <3>1, <4>1
        <5>2. PICK j \in 1 .. i - 1 : q[j] = u
          BY <2>5, <4>1, <5>1 DEF Supported
        <5>3. j \in 1 .. Len(q)
          BY <1>1, <4>1
        <5>4. QED
          BY <2>1, <5>2, <5>3
      <4>2. CASE i = Len(q) + 1
        <5>1. u \in Elements(q)
          BY <1>3, <2>1, <2>5, <3>1, <4>2
        <5>2. PICK j \in 1 .. Len(q) : q[j] = u
          BY <1>1, <5>1, ElementsIs
        <5>3. j \in 1 .. i - 1 /\ y[j] = u
          BY <1>1, <2>1, <4>2, <5>2
        <5>4. QED
          BY <5>3
      <4>3. QED
        BY <1>1, <2>1, <4>1, <4>2
    <3>2. QED
      BY <3>1 DEF Supported
  <2>6. QED
    BY <2>1, <2>3, <2>4, <2>5
<1>4. QED
  BY <1>2, <1>3 DEF Turn

LEMMA TurnType == ASSUME NEW q \in Seq(Table), NEW waits, NEW t \in Table PROVE Turn(q, waits, t) \in Seq(Table)
BY DEF Turn

PassedBy(h, q, waits) ==
  /\ h \in [0 .. TableCount -> Seq(Table)] /\ h[0] = q
  /\ \A i \in 1 .. TableCount : h[i] = Turn(h[i - 1], waits, i)
  /\ Order!Pass(q, waits) = h[TableCount]

LEMMA PassIs ==
  ASSUME NEW emitted \in Seq(Table), NEW waits
  PROVE  \E h : PassedBy(h, emitted, waits)
<1> DEFINE n == TableCount
<1> DEFINE S == Seq(Table)
<1> DEFINE Is(g) == g = [t \in 0 .. Order!Cardinality(Table) |->
     IF t = 0 THEN emitted
     ELSE IF t \in Order!Range(g[t - 1]) \/ (waits /\ ~(references[t] \ {t} \subseteq Order!Range(g[t - 1])))
          THEN g[t - 1] ELSE Append(g[t - 1], t)]
<1>1. n \in Nat /\ \A i \in 1 .. n : i \in Table
  BY TablesAre
<1>2. PICK g \in [0 .. n -> S] : g[0] = emitted /\ \A i \in 1 .. n : g[i] = Turn(g[i - 1], waits, i)
  <2> DEFINE F == [i \in 1 .. n |-> [q \in S |-> Turn(q, waits, i)]]
  <2>1. \A i \in 1 .. n, q \in S : Turn(q, waits, i) \in S
    BY <1>1, TurnType
  <2>2. F \in [1 .. n -> [S -> S]]
    BY <2>1
  <2>3. \A i \in 1 .. n, q \in S : F[i][q] = Turn(q, waits, i)
    OBVIOUS
  <2>4. Turns(F, n, S)
    BY <2>2 DEF Turns
  <2>5. emitted \in S
    OBVIOUS
  <2> HIDE DEF F, n, S, Is
  <2>6. PICK g : Iterates(g, n, S, emitted, F)
    BY <1>1, <2>4, <2>5, Recursion
  <2> USE DEF Iterates
  <2>7. \A i \in 1 .. n : g[i - 1] \in S
    BY <1>1, <2>6
  <2>8. \A i \in 1 .. n : g[i] = Turn(g[i - 1], waits, i)
    BY <2>3, <2>6, <2>7
  <2>9. QED
    BY <2>6, <2>8
<1>3. Is(g)
  <2>1. g = [i \in 0 .. n |-> g[i]]
    BY <1>2
  <2>2. \A i \in 0 .. n : g[i] = IF i = 0 THEN emitted ELSE Turn(g[i - 1], waits, i)
    <3>1. \A i \in 0 .. n : i = 0 \/ i \in 1 .. n
      BY <1>1
    <3> HIDE DEF n, Is
    <3>2. QED
      BY <1>2, <3>1
  <2>3. QED
    BY <2>1, <2>2 DEF Turn, Elements, TableCount, Named
<1> DEFINE h == CHOOSE f : Is(f)
<1>4. Order!Pass(emitted, waits) = h[Order!Cardinality(Table)]
  BY Zenon DEF Order!Pass
<1> HIDE DEF Is
<1>5. Is(h)
  BY <1>3, Zenon
<1> HIDE DEF h
<1>6. h = [i \in 0 .. n |-> IF i = 0 THEN emitted ELSE Turn(h[i - 1], waits, i)]
  BY <1>5 DEF Is, TableCount, Turn, Elements, Named
<1>7. Over(h, n)
  BY <1>6 DEF Over
<1>8. h[0] = emitted /\ \A i \in 1 .. n : h[i] = Turn(h[i - 1], waits, i)
  BY <1>1, <1>6
<1>9. \A i \in 1 .. n, q \in S : Turn(q, waits, i) \in S
  BY <1>1, TurnType
<1>10. h[0] \in S
  BY <1>8
<1> HIDE DEF S, n
<1>11. Keeps(h, n, S)
  BY <1>8, <1>9, <1>10 DEF Keeps
<1>13. h \in [0 .. n -> S]
  BY <1>1, <1>7, <1>11, Stays
<1>14. QED
  BY <1>4, <1>8, <1>13 DEF n, S, PassedBy, TableCount

\* What a pass has done by a turn
Done(h, i, q, waits) ==
  /\ Once(h[i]) /\ Begins(q, h[i]) /\ Elements(q) \subseteq Elements(h[i])
  /\ waits /\ Supported(q) => Supported(h[i])
  /\ \A t \in 1 .. i : ~waits \/ Named(t) \subseteq Elements(q) => t \in Elements(h[i])
  /\ waits /\ Stuck(q) => h[i] = q

LEMMA DoneGrows ==
  ASSUME NEW q, Once(q), NEW waits \in BOOLEAN, NEW h, PassedBy(h, q, waits), NEW i \in Nat, i + 1 <= TableCount,
         Done(h, i, q, waits)
  PROVE  Done(h, i + 1, q, waits)
<1>1. i + 1 \in 1 .. TableCount /\ (i + 1) - 1 = i /\ i + 1 \in Table
  <2>1. PICK n \in Nat : n = TableCount /\ Table = 1 .. n
    BY TablesAre
  <2>2. i + 1 \in 1 .. n /\ (i + 1) - 1 = i
    BY <2>1
  <2>3. QED
    BY <2>1, <2>2
<1>2. PICK x : x = h[i]
  OBVIOUS
<1>3. PICK y : y = h[i + 1]
  OBVIOUS
<1>4. y = Turn(x, waits, i + 1)
  BY <1>1, <1>2, <1>3 DEF PassedBy
<1>5. /\ Once(x) /\ Begins(q, x) /\ Elements(q) \subseteq Elements(x)
      /\ waits /\ Supported(q) => Supported(x)
      /\ \A t \in 1 .. i : ~waits \/ Named(t) \subseteq Elements(q) => t \in Elements(x)
      /\ waits /\ Stuck(q) => x = q
  BY <1>2 DEF Done
<1>6. /\ Once(y) /\ Begins(x, y) /\ Elements(x) \subseteq Elements(y)
      /\ waits /\ Supported(x) => Supported(y)
      /\ ~waits \/ Named(i + 1) \subseteq Elements(x) => i + 1 \in Elements(y)
  BY <1>1, <1>4, <1>5, TurnIs
<1>7. Begins(q, y)
  <2>1. Len(q) \in Nat /\ Len(x) \in Nat /\ Len(y) \in Nat
    BY <1>5, <1>6 DEF Once
  <2>2. QED
    BY <1>5, <1>6, <2>1 DEF Begins
<1>8. ASSUME NEW t \in 1 .. i + 1, ~waits \/ Named(t) \subseteq Elements(q) PROVE t \in Elements(y)
  <2>1. t \in 1 .. i \/ t = i + 1
    OBVIOUS
  <2>2. QED
    BY <1>5, <1>6, <1>8, <2>1
<1>9. ASSUME waits, Stuck(q) PROVE y = q
  <2>1. x = q
    BY <1>5, <1>9
  <2>2. i + 1 \in Elements(q) \/ ~(Named(i + 1) \subseteq Elements(q))
    BY <1>1, <1>9 DEF Stuck
  <2>3. QED
    BY <1>4, <1>9, <2>1, <2>2 DEF Turn
<1>10. QED
  BY <1>3, <1>5, <1>6, <1>7, <1>8, <1>9 DEF Done

LEMMA PassDone ==
  ASSUME NEW q, Once(q), NEW waits \in BOOLEAN, NEW y, y = Order!Pass(q, waits)
  PROVE  /\ Once(y) /\ Begins(q, y) /\ Elements(q) \subseteq Elements(y)
         /\ waits /\ Supported(q) => Supported(y)
         /\ \A t \in Table : ~waits \/ Named(t) \subseteq Elements(q) => t \in Elements(y)
         /\ waits /\ Stuck(q) => y = q
<1>1. PICK h : PassedBy(h, q, waits)
  BY PassIs DEF Once
<1> DEFINE N == {i \in Nat : i <= TableCount => Done(h, i, q, waits)}
<1>2. 0 \in N
  <2>1. h[0] = q
    BY <1>1 DEF PassedBy
  <2>2. Begins(q, q)
    BY DEF Begins, Once
  <2> HIDE DEF N
  <2>3. Done(h, 0, q, waits)
    BY <2>1, <2>2 DEF Done
  <2>4. QED
    BY <2>3 DEF N
<1>3. ASSUME NEW i \in Nat, i \in N PROVE i + 1 \in N
  <2>1. SUFFICES ASSUME i + 1 <= TableCount PROVE Done(h, i + 1, q, waits)
    OBVIOUS
  <2>2. Done(h, i, q, waits)
    BY <1>3, <2>1, TablesAre
  <2> HIDE DEF N
  <2>3. QED
    BY <1>1, <2>1, <2>2, DoneGrows
<1> HIDE DEF N
<1>4. \A i \in Nat : i \in N
  BY <1>2, <1>3, Induction
<1>5. Done(h, TableCount, q, waits)
  BY <1>4, TablesAre DEF N
<1>6. h[TableCount] = y
  BY <1>1 DEF PassedBy
<1>7. QED
  BY <1>5, <1>6, TablesAre DEF Done

LEMMA PassType == ASSUME NEW q \in Seq(Table), NEW waits PROVE Order!Pass(q, waits) \in Seq(Table)
<1>1. PICK h : PassedBy(h, q, waits)
  BY PassIs
<1>2. QED
  BY <1>1, TablesAre DEF PassedBy

LEMMA PassesAre ==
  /\ Order!Passes \in [0 .. TableCount -> Seq(Table)]
  /\ Order!Passes[0] = <<>>
  /\ \A i \in 1 .. TableCount : Order!Passes[i] = Order!Pass(Order!Passes[i - 1], TRUE)
<1> DEFINE n == TableCount
<1> DEFINE S == Seq(Table)
<1> DEFINE Is(g) == g = [i \in 0 .. Order!Cardinality(Table) |-> IF i = 0 THEN <<>> ELSE Order!Pass(g[i - 1], TRUE)]
<1>1. n \in Nat
  BY TablesAre
<1>2. PICK g \in [0 .. n -> S] : g[0] = <<>> /\ \A i \in 1 .. n : g[i] = Order!Pass(g[i - 1], TRUE)
  <2> DEFINE F == [i \in 1 .. n |-> [q \in S |-> Order!Pass(q, TRUE)]]
  <2>1. \A q \in S : Order!Pass(q, TRUE) \in S
    BY PassType
  <2>2. F \in [1 .. n -> [S -> S]]
    BY <2>1
  <2>3. \A i \in 1 .. n, q \in S : F[i][q] = Order!Pass(q, TRUE)
    OBVIOUS
  <2>4. Turns(F, n, S)
    BY <2>2 DEF Turns
  <2>5. <<>> \in S
    OBVIOUS
  <2> HIDE DEF F, n, S, Is
  <2>6. PICK g : Iterates(g, n, S, <<>>, F)
    BY <1>1, <2>4, <2>5, Recursion
  <2> USE DEF Iterates
  <2>7. \A i \in 1 .. n : g[i - 1] \in S
    BY <1>1, <2>6
  <2>8. \A i \in 1 .. n : g[i] = Order!Pass(g[i - 1], TRUE)
    BY <2>3, <2>6, <2>7
  <2>9. QED
    BY <2>6, <2>8
<1>3. Is(g)
  <2>1. g = [i \in 0 .. n |-> g[i]]
    BY <1>2
  <2>2. \A i \in 0 .. n : g[i] = IF i = 0 THEN <<>> ELSE Order!Pass(g[i - 1], TRUE)
    <3>1. \A i \in 0 .. n : i = 0 \/ i \in 1 .. n
      BY <1>1
    <3> HIDE DEF n, Is
    <3>2. QED
      BY <1>2, <3>1
  <2>3. QED
    BY <2>1, <2>2 DEF TableCount
<1> DEFINE h == CHOOSE f : Is(f)
<1>4. Order!Passes = h
  BY Zenon DEF Order!Passes
<1> HIDE DEF Is
<1>5. Is(h)
  BY <1>3, Zenon
<1> HIDE DEF h
<1>6. h = [i \in 0 .. n |-> IF i = 0 THEN <<>> ELSE Order!Pass(h[i - 1], TRUE)]
  BY <1>5 DEF Is, TableCount
<1>7. Over(h, n)
  BY <1>6 DEF Over
<1>8. h[0] = <<>> /\ \A i \in 1 .. n : h[i] = Order!Pass(h[i - 1], TRUE)
  <2>1. 0 \in 0 .. n /\ \A i \in 1 .. n : i \in 0 .. n /\ i # 0
    BY <1>1
  <2> HIDE DEF n
  <2>2. \A i \in 0 .. n : h[i] = IF i = 0 THEN <<>> ELSE Order!Pass(h[i - 1], TRUE)
    BY <1>6
  <2>3. QED
    BY <2>1, <2>2
<1>9. \A q \in S : Order!Pass(q, TRUE) \in S
  BY PassType
<1>10. h[0] \in S
  BY <1>8
<1> HIDE DEF S, n
<1>11. Keeps(h, n, S)
  BY <1>8, <1>9, <1>10 DEF Keeps
<1>13. h \in [0 .. n -> S]
  BY <1>1, <1>7, <1>11, Stays
<1>14. QED
  BY <1>4, <1>8, <1>13 DEF n, S

LEMMA ElementsFinite ==
  ASSUME NEW q, Once(q)
  PROVE  Elements(q) \subseteq Table /\ IsFiniteSet(Elements(q)) /\ Cardinality(Elements(q)) \in Nat
<1>1. DOMAIN q = 1 .. Len(q) /\ \A i \in 1 .. Len(q) : q[i] \in Table
  BY DEF Once
<1>2. Elements(q) \subseteq Table
  BY <1>1, ElementsIs
<1>3. QED
  BY <1>2, TablesAre, FS_Subset, FS_CardinalityType

\* Each pass emits a table, until one finds none to emit.
Enough(q, n) == Once(q) /\ Supported(q) /\ (Stuck(q) \/ Cardinality(Elements(q)) >= n)

LEMMA EnoughGrows ==
  ASSUME NEW n \in Nat, NEW q, Enough(q, n), NEW y, y = Order!Pass(q, TRUE)
  PROVE  Enough(y, n + 1)
<1>1. /\ Once(y) /\ Elements(q) \subseteq Elements(y) /\ Supported(y)
      /\ \A t \in Table : Named(t) \subseteq Elements(q) => t \in Elements(y)
      /\ Stuck(q) => y = q
  <2>1. Once(q) /\ Supported(q) /\ TRUE \in BOOLEAN
    BY DEF Enough
  <2>2. QED
    BY <2>1, PassDone
<1>2. CASE Stuck(q)
  BY <1>1, <1>2 DEF Enough
<1>3. CASE ~Stuck(q)
  <2>1. PICK t \in Table : t \notin Elements(q) /\ Named(t) \subseteq Elements(q)
    BY <1>3 DEF Stuck
  <2>2. PICK A : A = Elements(q)
    OBVIOUS
  <2>3. IsFiniteSet(A) /\ Cardinality(A) \in Nat /\ Cardinality(A) >= n
    BY <1>3, <2>2, ElementsFinite DEF Enough
  <2>4. IsFiniteSet(A \cup {t}) /\ Cardinality(A \cup {t}) = Cardinality(A) + 1
    BY <2>1, <2>2, <2>3, FS_AddElement
  <2>5. PICK B : B = Elements(y)
    OBVIOUS
  <2>6. IsFiniteSet(B) /\ Cardinality(B) \in Nat /\ A \cup {t} \subseteq B
    BY <1>1, <2>1, <2>2, <2>5, ElementsFinite
  <2>7. Cardinality(A \cup {t}) <= Cardinality(B)
    BY <2>6, FS_Subset
  <2>8. Cardinality(B) >= n + 1
    BY <2>3, <2>4, <2>6, <2>7
  <2>9. QED
    BY <1>1, <2>5, <2>8 DEF Enough
<1>4. QED
  BY <1>2, <1>3

LEMMA EmptyElements == Elements(<<>>) = {}
BY DEF Elements, Order!Range

\* So the last pass leaves nothing it could emit.
LEMMA LastPass ==
  ASSUME NEW P, P = Order!Passes[TableCount]
  PROVE  Once(P) /\ Supported(P) /\ Stuck(P)
<1> DEFINE N == {n \in Nat : n <= TableCount => Enough(Order!Passes[n], n)}
<1>1. 0 \in N
  <2>1. Order!Passes[0] = <<>>
    BY PassesAre
  <2>2. Once(<<>>) /\ Supported(<<>>)
    BY DEF Once, Supported
  <2>3. Cardinality(Elements(<<>>)) >= 0
    <3>1. Elements(<<>>) = {} /\ Cardinality({}) = 0
      BY EmptyElements, FS_EmptySet
    <3>2. 0 >= 0
      OBVIOUS
    <3> HIDE DEF N
    <3>3. QED
      BY <3>1, <3>2
  <2> HIDE DEF N
  <2>4. Enough(<<>>, 0)
    BY <2>2, <2>3 DEF Enough
  <2>5. QED
    BY <2>1, <2>4 DEF N
<1>2. ASSUME NEW n \in Nat, n \in N PROVE n + 1 \in N
  <2>1. SUFFICES ASSUME n + 1 <= TableCount PROVE Enough(Order!Passes[n + 1], n + 1)
    OBVIOUS
  <2>2. PICK top \in Nat : top = TableCount
    BY TablesAre
  <2>3. n + 1 \in 1 .. TableCount /\ (n + 1) - 1 = n /\ n <= TableCount
    <3>1. n + 1 \in 1 .. top /\ (n + 1) - 1 = n /\ n <= top
      BY <2>1, <2>2
    <3>2. QED
      BY <2>2, <3>1
  <2>4. Enough(Order!Passes[n], n)
    BY <1>2, <2>3
  <2> HIDE DEF N
  <2>5. Order!Passes[n + 1] = Order!Pass(Order!Passes[n], TRUE)
    BY <2>3, PassesAre
  <2>6. QED
    BY <2>4, <2>5, EnoughGrows
<1> HIDE DEF N
<1>3. \A n \in Nat : n \in N
  BY <1>1, <1>2, Induction
<1>4. PICK top \in Nat : top = TableCount /\ top = Cardinality(Table) /\ IsFiniteSet(Table)
  BY TablesAre
<1>5. Enough(P, top)
  BY <1>3, <1>4 DEF N
<1>6. CASE Cardinality(Elements(P)) >= top
  <2>1. PICK A : A = Elements(P)
    OBVIOUS
  <2>2. A \subseteq Table /\ IsFiniteSet(A) /\ Cardinality(A) \in Nat /\ Cardinality(A) >= top
    BY <1>5, <1>6, <2>1, ElementsFinite DEF Enough
  <2>3. Cardinality(A) <= Cardinality(Table) /\ (Cardinality(A) = Cardinality(Table) => A = Table)
    BY <1>4, <2>2, FS_Subset
  <2>4. A = Table
    BY <1>4, <2>2, <2>3
  <2>5. QED
    BY <1>5, <2>1, <2>4 DEF Enough, Stuck
<1>7. QED
  BY <1>5, <1>6 DEF Enough

\* Whoever references its way out of every cycle is emitted by then.
Sane(t) == \A v \in Order!Reaches(t) : v \notin Order!Reaches(v)

LEMMA ReachesIs ==
  ASSUME NEW t, NEW v
  PROVE  v \in Order!Reaches(t) <=>
           v \in Table /\ \A S \in SUBSET Table : Named(t) \subseteq S /\ Order!Closed(S) => v \in S
BY DEF Order!Reaches, Named

LEMMA ReachesNamed ==
  ASSUME OrderTypeOK, NEW t \in Table, NEW u \in Named(t)
  PROVE  u \in Table /\ u \in Order!Reaches(t) /\ Order!Reaches(u) \subseteq Order!Reaches(t)
<1>1. u \in Table
  BY DEF Named, OrderTypeOK
<1>2. u \in Order!Reaches(t)
  BY <1>1, ReachesIs
<1>3. ASSUME NEW v \in Order!Reaches(u) PROVE v \in Order!Reaches(t)
  <2>1. ASSUME NEW S \in SUBSET Table, Named(t) \subseteq S, Order!Closed(S) PROVE v \in S
    <3>1. Named(u) \subseteq S
      BY <2>1 DEF Order!Closed, Named
    <3>2. QED
      BY <1>3, <2>1, <3>1, ReachesIs
  <2>2. v \in Table
    BY <1>3, ReachesIs
  <2>3. QED
    BY <2>1, <2>2, ReachesIs
<1>4. QED
  BY <1>1, <1>2, <1>3

LEMMA SaneEmitted ==
  ASSUME OrderTypeOK, NEW P, Once(P), Stuck(P), NEW t \in Table, Sane(t)
  PROVE  t \in Elements(P)
<1>1. PICK B : B = {x \in Table : Sane(x) /\ x \notin Elements(P)}
  OBVIOUS
<1>2. SUFFICES ASSUME B # {} PROVE FALSE
  BY <1>1
<1>3. \A x \in Table : Order!Reaches(x) \subseteq Table
  BY ReachesIs
<1>4. \A x \in Table : IsFiniteSet(Order!Reaches(x)) /\ Cardinality(Order!Reaches(x)) \in Nat
  BY <1>3, TablesAre, FS_Subset, FS_CardinalityType
<1>5. PICK T : T = {Cardinality(Order!Reaches(x)) : x \in B}
  OBVIOUS
<1>6. T # {} /\ T \subseteq Nat
  BY <1>1, <1>2, <1>4, <1>5
<1>7. PICK m \in T : \A n \in T : m <= n
  BY <1>6, Least
<1>8. PICK x \in B : m = Cardinality(Order!Reaches(x))
  BY <1>5, <1>7
<1>9. PICK u \in Named(x) : u \notin Elements(P)
  BY <1>1, <1>8 DEF Stuck
<1>10. u \in Table /\ u \in Order!Reaches(x) /\ Order!Reaches(u) \subseteq Order!Reaches(x)
  BY <1>1, <1>8, <1>9, ReachesNamed
<1>11. Sane(u) /\ u \notin Order!Reaches(u)
  BY <1>1, <1>8, <1>10 DEF Sane
<1>12. u \in B
  BY <1>1, <1>9, <1>10, <1>11
<1>13. m <= Cardinality(Order!Reaches(u))
  BY <1>5, <1>7, <1>12
<1>14. PICK X : X = Order!Reaches(x)
  OBVIOUS
<1>15. PICK Y : Y = Order!Reaches(u)
  OBVIOUS
<1>16. IsFiniteSet(X) /\ Y \subseteq X /\ Cardinality(Y) \in Nat /\ Cardinality(X) \in Nat /\ u \in X /\ u \notin Y
  BY <1>1, <1>4, <1>8, <1>10, <1>11, <1>14, <1>15
<1>17. Cardinality(Y) <= Cardinality(X) /\ (Cardinality(Y) = Cardinality(X) => Y = X)
  BY <1>16, FS_Subset
<1>18. QED
  BY <1>8, <1>13, <1>14, <1>15, <1>16, <1>17

\* So the order of creation is as promised.
LEMMA SchemaSafe == ASSUME OrderTypeOK PROVE Order!SchemaOrderIsSafe
<1>1. PICK P : P = Order!Passes[TableCount]
  OBVIOUS
<1>2. Once(P) /\ Supported(P) /\ Stuck(P)
  BY <1>1, LastPass
<1>3. PICK q : q = Order!CreationOrder
  OBVIOUS
<1>4. q = Order!Pass(P, FALSE)
  BY <1>1, <1>3 DEF Order!CreationOrder, TableCount
<1>5. Once(q) /\ Begins(P, q) /\ \A t \in Table : t \in Elements(q)
  <2>1. FALSE \in BOOLEAN
    OBVIOUS
  <2>2. QED
    BY <1>2, <1>4, <2>1, PassDone
<1>6. DOMAIN q = 1 .. Len(q) /\ DOMAIN P = 1 .. Len(P) /\ Len(P) \in Nat /\ Len(q) \in Nat
  BY <1>2, <1>5 DEF Once
<1>7. Order!IsInjective(q)
  BY <1>5, <1>6 DEF Once, Order!IsInjective
<1>8. Order!Range(q) = Table
  BY <1>5, ElementsFinite DEF Elements
<1>9. ASSUME NEW i \in DOMAIN q, NEW j \in DOMAIN q, q[j] \in Named(q[i]), Sane(q[i])
      PROVE  j < i
  <2>1. q[i] \in Table
    BY <1>5, <1>6 DEF Once
  <2>2. q[i] \in Elements(P)
    BY <1>2, <1>9, <2>1, SaneEmitted
  <2>3. PICK k \in 1 .. Len(P) : P[k] = q[i]
    BY <1>6, <2>2, ElementsIs
  <2>4. k \in 1 .. Len(q) /\ q[k] = q[i]
    BY <1>5, <1>6, <2>3 DEF Begins
  <2>5. k = i
    BY <1>5, <1>6, <2>4 DEF Once
  <2>6. PICK l \in 1 .. k - 1 : P[l] = q[j]
    BY <1>2, <1>9, <2>3 DEF Supported
  <2>7. l \in 1 .. Len(P) /\ l < k
    BY <1>6, <2>3
  <2>8. l \in 1 .. Len(q) /\ q[l] = q[j]
    BY <1>5, <1>6, <2>6, <2>7 DEF Begins
  <2>9. l = j
    BY <1>5, <1>6, <2>8 DEF Once
  <2>10. QED
    BY <2>5, <2>7, <2>9
<1>10. QED
  BY <1>3, <1>7, <1>8, <1>9 DEF Order!SchemaOrderIsSafe, Named, Sane

-----------------------------------------------------------------------------
(* ReferenceOrder: both orders *)

\* The rows and the tables stay what they are.
LEMMA OrderInitType == Order!Init => OrderTypeOK
<1>1. SUFFICES ASSUME Order!Init PROVE OrderTypeOK
  OBVIOUS
<1>2. original \in Order!Databases /\ final = original /\ recreated = {} /\ references = [t \in Table |-> {}]
  BY <1>1 DEF Order!Init
<1>3. final \in [RefRow -> UNION {Order!Versions(r) : r \in RefRow}] /\ \A r \in RefRow : final[r] \in Order!Versions(r)
  BY <1>2 DEF Order!Databases
<1>4. references \in [Table -> SUBSET Table]
  BY <1>2
<1>5. QED
  BY <1>2, <1>3, <1>4 DEF OrderTypeOK

LEMMA OrderStepType == OrderTypeOK /\ [StorageNext]_allVars => OrderTypeOK'
<1>1. SUFFICES ASSUME OrderTypeOK, [StorageNext]_allVars PROVE OrderTypeOK'
  OBVIOUS
<1>2. CASE UNCHANGED orderVars
  <2>1. original' = original /\ final' = final /\ recreated' = recreated /\ references' = references
    BY <1>2 DEF orderVars
  <2>2. QED
    BY <1>1, <2>1 DEF OrderTypeOK, Order!Databases, Order!Versions, Order!Consistent, Order!ForeignKeysHold, Order!KeysUnique, Order!There
<1>3. ASSUME NEW r \in RefRow, Order!DraftPuts(r) PROVE OrderTypeOK'
  <2>1. PICK v \in Order!Versions(r) \ {Gone, final[r]} : final' = [final EXCEPT ![r] = v]
    BY <1>3 DEF Order!DraftPuts
  <2>2. /\ original' = original /\ references' = references
        /\ recreated' = IF final[r] = Gone /\ original[r] # Gone THEN recreated \cup {r} ELSE recreated
    BY <1>3 DEF Order!DraftPuts
  <2>3. \A s \in RefRow : final'[s] = IF s = r THEN v ELSE final[s]
    BY <1>1, <2>1 DEF OrderTypeOK
  <2>4. final' \in [RefRow -> UNION {Order!Versions(s) : s \in RefRow}]
    BY <1>1, <2>1 DEF OrderTypeOK
  <2>5. \A s \in RefRow : final'[s] \in Order!Versions(s)
    BY <1>1, <2>1, <2>3 DEF OrderTypeOK
  <2>6. recreated' \subseteq RefRow /\ \A s \in recreated' : original[s] # Gone /\ final'[s] # Gone
    BY <1>1, <2>1, <2>2, <2>3 DEF OrderTypeOK
  <2>7. original' \in Order!Databases
    BY <1>1, <2>2 DEF OrderTypeOK
  <2>8. \A s \in RefRow : Order!Versions(s)' = Order!Versions(s)
    BY DEF Order!Versions
  <2>9. QED
    BY <1>1, <2>2, <2>4, <2>5, <2>6, <2>7 DEF OrderTypeOK, Order!Databases, Order!Versions, Order!Consistent, Order!ForeignKeysHold, Order!KeysUnique, Order!There
<1>4. ASSUME NEW r \in RefRow, Order!DraftDrops(r) PROVE OrderTypeOK'
  <2>1. /\ final' = [final EXCEPT ![r] = Gone] /\ recreated' = recreated \ {r}
        /\ original' = original /\ references' = references
    BY <1>4 DEF Order!DraftDrops
  <2>2. Gone \in Order!Versions(r)
    BY DEF Order!Versions
  <2>3. \A s \in RefRow : final'[s] = IF s = r THEN Gone ELSE final[s]
    BY <1>1, <2>1 DEF OrderTypeOK
  <2>4. final' \in [RefRow -> UNION {Order!Versions(s) : s \in RefRow}]
    BY <1>1, <2>1, <2>2 DEF OrderTypeOK
  <2>5. \A s \in RefRow : final'[s] \in Order!Versions(s)
    BY <1>1, <2>2, <2>3 DEF OrderTypeOK
  <2>6. recreated' \subseteq RefRow /\ \A s \in recreated' : original[s] # Gone /\ final'[s] # Gone
    BY <1>1, <2>1, <2>3 DEF OrderTypeOK
  <2>7. QED
    BY <1>1, <2>1, <2>4, <2>5, <2>6 DEF OrderTypeOK, Order!Databases, Order!Versions, Order!Consistent, Order!ForeignKeysHold, Order!KeysUnique, Order!There
<1>5. ASSUME NEW t \in Table, NEW u \in Table, Order!Declare(t, u) PROVE OrderTypeOK'
  <2>1. /\ references' = [references EXCEPT ![t] = @ \cup {u}]
        /\ original' = original /\ final' = final /\ recreated' = recreated
    BY <1>5 DEF Order!Declare
  <2>2. references' \in [Table -> SUBSET Table]
    BY <1>1, <2>1 DEF OrderTypeOK
  <2>3. QED
    BY <1>1, <2>1, <2>2 DEF OrderTypeOK, Order!Databases, Order!Versions, Order!Consistent, Order!ForeignKeysHold, Order!KeysUnique, Order!There
<1>6. CASE OrderStep
  BY <1>3, <1>4, <1>5, <1>6 DEF OrderStep, Order!Commands, Order!Declarations
<1>7. CASE VaultStep \/ LogStep \/ LockStep \/ ReadStep \/ UNCHANGED allVars
  BY <1>2, <1>7 DEF VaultStep, LogStep, LockStep, ReadStep, allVars
<1>8. QED
  BY <1>1, <1>6, <1>7 DEF StorageNext

LEMMA OrderTypes == StorageSpec => []OrderTypeOK
<1>1. StorageInit => OrderTypeOK
  BY OrderInitType DEF StorageInit
<1>2. QED
  BY <1>1, OrderStepType, PTL DEF StorageSpec

\* Whenever some order of a publication's statements passes every check of the
\* database, `orderReviewedChangeSteps` applies all of them and leaves no reference
\* unmet after any; and `sortByFkDeps` creates every table once, after the tables
\* it references unless they lead into a cycle: of any rows, codes and tables.
THEOREM ReferencesComeFirst == StorageSpec => []OrdersAreSafe
<1>1. OrderTypeOK => OrdersAreSafe
  BY PublicationSafe, SchemaSafe DEF OrdersAreSafe
<1>2. QED
  BY <1>1, OrderTypes, PTL

-----------------------------------------------------------------------------
(* SecretVault *)

USE VaultAssumption

-----------------------------------------------------------------------------
(* The inductive invariant, in its parts. *)

Storing == {"create", "bind", "rollback"}
Using == {"read", "has", "delete", "remove", "unbind"}

\* A record leads to the item its reference was made for, where that item is.
RecordsLead ==
    \A r \in Ref : mapping[r] # None =>
        minted[r] = mapping[r].item /\ place[mapping[r].item] = mapping[r].backend

\* A reference is made for one item, which exists by then, and no other is; it
\* loses its record only once the item is gone.
MintedOnce ==
    /\ \A r \in handed : minted[r] # None
    /\ \A r \in Ref : minted[r] # None =>
           /\ item[minted[r]] # "unused"
           /\ mapping[r] = None => item[minted[r]] = "gone"
           /\ \A s \in Ref : minted[s] = minted[r] => s = r

\* The item a `store` call works on is no other call's, and before it is bound no
\* reference's.
StoresOwnItem ==
    \A p \in Caller : at[p] \in Storing =>
        /\ found[p] # None
        /\ at[p] = "create" => item[found[p].item] = "unused"
        /\ at[p] # "create" =>
               item[found[p].item] # "unused" /\ place[found[p].item] = found[p].backend
        /\ at[p] # "rollback" => \A r \in Ref : minted[r] # found[p].item
        /\ \A q \in Caller : at[q] \in Storing /\ found[q].item = found[p].item => q = p

\* Any other call works on the item of the reference it was given, and unbinds
\* that only once the item is gone.
UsesOwnRecord ==
    \A p \in Caller : at[p] \in Using =>
        /\ found[p] # None /\ named[p] # None
        /\ minted[named[p]] = found[p].item /\ place[found[p].item] = found[p].backend
        /\ at[p] = "unbind" => item[found[p].item] = "gone"

IInv == TypeOK /\ RecordsLead /\ MintedOnce /\ StoresOwnItem /\ UsesOwnRecord /\ NothingOrphaned

-----------------------------------------------------------------------------
(* Records, and what becomes of the calls in a step. *)

LEMMA RecordFacts ==
  /\ \A rec \in Records : rec # None /\ rec.backend \in Backend /\ rec.item \in Item
  /\ \A name \in Backend, i \in Item :
         /\ Record(name, i) \in Records
         /\ Record(name, i).backend = name /\ Record(name, i).item = i
  /\ \A rec \in Records : rec = Record(rec.backend, rec.item)
  BY DEF Records, Record

LEMMA EndsFacts ==
  ASSUME TypeOK, NEW p \in Caller, Ends(p)
  PROVE  /\ at' \in [Caller -> Places] /\ named' \in [Caller -> Ref \cup {None}]
         /\ found' \in [Caller -> Records \cup {None}]
         /\ at'[p] = "idle"
         /\ \A q \in Caller : q # p => at'[q] = at[q] /\ named'[q] = named[q] /\ found'[q] = found[q]
  BY DEF TypeOK, Ends, Places

LEMMA ContinuesFacts ==
  ASSUME TypeOK, NEW p \in Caller, NEW next \in Places, Continues(p, next)
  PROVE  /\ at' \in [Caller -> Places] /\ named' \in [Caller -> Ref \cup {None}]
         /\ found' \in [Caller -> Records \cup {None}]
         /\ at'[p] = next /\ named' = named /\ found' = found
         /\ \A q \in Caller : q # p => at'[q] = at[q]
  BY DEF TypeOK, Continues

\* What a caller does when no item, no reference and no binding is made: it goes
\* on as it was, it ends, or its deletion advances.
Advances(q) ==
    \/ at'[q] = "idle"
    \/ /\ named'[q] = named[q] /\ found'[q] = found[q]
       /\ \/ at'[q] = at[q]
          \/ /\ at[q] \in Using /\ at'[q] \in Using
             /\ at'[q] = "unbind" => item'[found[q].item] = "gone"

\* Items and bindings only ever disappear in such a step, a binding only after
\* its item, and nobody drops an item that is still to be bound or cleaned up.
LEMMA Receding ==
  ASSUME IInv, TypeOK', UNCHANGED <<place, minted, handed>>, excused \subseteq excused',
         \A r \in Ref : mapping'[r] # mapping[r] =>
             mapping'[r] = None /\ item'[mapping[r].item] = "gone",
         \A i \in Item : /\ item'[i] = "unused" <=> item[i] = "unused"
                         /\ item[i] = "gone" => item'[i] = "gone"
                         /\ item'[i] = "stored" => item[i] = "stored",
         \A q \in Caller : Advances(q),
         \A q \in Caller : at[q] \in {"bind", "rollback"} =>
             at'[q] = at[q] \/ found[q].item \in excused' \/ item'[found[q].item] # "stored"
  PROVE  IInv'
<1>1. \A r \in Ref : /\ minted[r] # None => minted[r] \in Item
                     /\ mapping[r] # None => mapping[r] \in Records
  BY DEF IInv, TypeOK
<1>2. \A q \in Caller : found[q] # None => found[q] \in Records /\ found[q].item \in Item
  BY RecordFacts DEF IInv, TypeOK
<1>3. RecordsLead'
  BY DEF IInv, RecordsLead
<1>4. MintedOnce'
  BY <1>1 DEF IInv, MintedOnce, RecordsLead
<1>5. \A q \in Caller : at'[q] # "idle" => /\ named'[q] = named[q] /\ found'[q] = found[q]
                                           /\ at'[q] \in Storing => at'[q] = at[q]
                                           /\ at'[q] \in Using => at[q] \in Using
  BY DEF Advances, Using, Storing
<1>6. StoresOwnItem'
  <2> SUFFICES ASSUME NEW p \in Caller, at'[p] \in Storing
               PROVE  /\ found'[p] # None
                      /\ at'[p] = "create" => item'[found'[p].item] = "unused"
                      /\ at'[p] # "create" =>
                             item'[found'[p].item] # "unused" /\ place'[found'[p].item] = found'[p].backend
                      /\ at'[p] # "rollback" => \A r \in Ref : minted'[r] # found'[p].item
                      /\ \A q \in Caller : at'[q] \in Storing /\ found'[q].item = found'[p].item => q = p
    BY DEF StoresOwnItem
  <2>1. \A q \in Caller : at'[q] \in Storing => at'[q] = at[q] /\ found'[q] = found[q]
    BY <1>5 DEF Storing
  <2>2. /\ found[p] # None
        /\ at[p] = "create" => item[found[p].item] = "unused"
        /\ at[p] # "create" =>
               item[found[p].item] # "unused" /\ place[found[p].item] = found[p].backend
        /\ at[p] # "rollback" => \A r \in Ref : minted[r] # found[p].item
        /\ \A q \in Caller : at[q] \in Storing /\ found[q].item = found[p].item => q = p
    BY <2>1 DEF IInv, StoresOwnItem
  <2>3. found[p].item \in Item
    BY <1>2, <2>2
  <2>4. QED
    BY <2>1, <2>2, <2>3
<1>7. UsesOwnRecord'
  <2> SUFFICES ASSUME NEW p \in Caller, at'[p] \in Using
               PROVE  /\ found'[p] # None /\ named'[p] # None
                      /\ minted'[named'[p]] = found'[p].item /\ place'[found'[p].item] = found'[p].backend
                      /\ at'[p] = "unbind" => item'[found'[p].item] = "gone"
    BY DEF UsesOwnRecord
  <2>1. at[p] \in Using /\ named'[p] = named[p] /\ found'[p] = found[p]
    BY <1>5 DEF Using
  <2>2. /\ found[p] # None /\ named[p] # None
        /\ minted[named[p]] = found[p].item /\ place[found[p].item] = found[p].backend
        /\ at[p] = "unbind" => item[found[p].item] = "gone"
    BY <2>1 DEF IInv, UsesOwnRecord
  <2>3. at'[p] = "unbind" => item'[found[p].item] = "gone"
    BY <1>2, <2>2 DEF Advances
  <2>4. QED
    BY <2>1, <2>2, <2>3
<1>8. NothingOrphaned'
  <2> SUFFICES ASSUME NEW i \in Item, item'[i] = "stored", i \notin excused'
               PROVE  \/ \E r \in Ref : mapping'[r] # None /\ mapping'[r] = Record(place'[i], i)
                      \/ \E p \in Caller : at'[p] \in {"bind", "rollback"} /\ found'[p].item = i
    BY DEF NothingOrphaned, Record
  <2>1. \/ \E r \in Ref : mapping[r] # None /\ mapping[r] = Record(place[i], i)
        \/ \E p \in Caller : at[p] \in {"bind", "rollback"} /\ found[p].item = i
    BY DEF IInv, NothingOrphaned
  <2>2. CASE \E r \in Ref : mapping[r] # None /\ mapping[r] = Record(place[i], i)
    <3>1. PICK r \in Ref : mapping[r] # None /\ mapping[r] = Record(place[i], i)
      BY <2>2
    <3>2. mapping[r].item = i
      BY <3>1 DEF Record
    <3>3. mapping'[r] = mapping[r]
      BY <3>2
    <3>4. QED
      BY <3>1, <3>3
  <2>3. CASE \E p \in Caller : at[p] \in {"bind", "rollback"} /\ found[p].item = i
    <3>1. PICK p \in Caller : at[p] \in {"bind", "rollback"} /\ found[p].item = i
      BY <2>3
    <3>2. at'[p] = at[p]
      BY <3>1
    <3>3. found'[p] = found[p]
      BY <1>5, <3>1, <3>2
    <3>4. QED
      BY <3>1, <3>2, <3>3
  <2>4. QED
    BY <2>1, <2>2, <2>3
<1>9. QED
  BY <1>3, <1>4, <1>6, <1>7, <1>8 DEF IInv

-----------------------------------------------------------------------------
(* The steps in which nothing is made. *)

LEMMA InitIInv == Init => IInv
<1> SUFFICES ASSUME Init PROVE IInv
  OBVIOUS
<1>1. TypeOK
  BY DEF Init, TypeOK, Places
<1>2. QED
  BY <1>1 DEF Init, IInv, RecordsLead, MintedOnce, StoresOwnItem, UsesOwnRecord, NothingOrphaned,
     Storing, Using

\* A call that ends only.
LEMMA EndStep ==
  ASSUME IInv, NEW p \in Caller, at[p] \in Places \ {"bind", "rollback"}, Ends(p), TypeOK',
         UNCHANGED <<mapping, item, place, handed, minted, excused>>
  PROVE  IInv'
<1>1. \A q \in Caller : Advances(q)
  BY EndsFacts DEF IInv, Advances
<1>2. \A q \in Caller : at[q] \in {"bind", "rollback"} => at'[q] = at[q]
  BY EndsFacts DEF IInv
<1>3. QED
  BY <1>1, <1>2, Receding

LEMMA AnswerStep ==
  ASSUME IInv, NEW p \in Caller, ReadItem(p) \/ HasItem(p)
  PROVE  IInv'
<1>1. /\ at[p] \in {"read", "has"} /\ Ends(p)
      /\ UNCHANGED <<mapping, item, place, classDefault, handed, minted, excused>>
  BY DEF ReadItem, HasItem
<1>2. named[p] \in Ref /\ found[p] \in Records /\ found[p].item \in Item
  BY <1>1, RecordFacts DEF IInv, TypeOK, UsesOwnRecord, Using
<1>3. answer' = None \/ answer' \in Ref \X (Item \cup {"present", "absent"})
  <2>1. answer = None \/ answer \in Ref \X (Item \cup {"present", "absent"})
    BY DEF IInv, TypeOK
  <2>2. CASE ReadItem(p)
    BY <1>2, <2>1, <2>2 DEF ReadItem
  <2>3. CASE HasItem(p)
    BY <1>2, <2>1, <2>3 DEF HasItem
  <2>4. QED
    BY <2>2, <2>3
<1>4. TypeOK'
  BY <1>1, <1>3, EndsFacts DEF IInv, TypeOK
<1>5. QED
  BY <1>1, <1>4, EndStep DEF Places

\* An item of the provider goes away, or is no longer the vault's.
LEMMA OutsideStep ==
  ASSUME IInv, NEW i \in Item, Outside(i)
  PROVE  IInv'
<1>1. /\ item[i] = "stored" /\ UNCHANGED <<mapping, place, classDefault, callVars, handed, minted, excused, answer>>
      /\ \E s \in {"gone", "foreign"} : item' = [item EXCEPT ![i] = s]
  BY DEF Outside
<1>2. /\ \A j \in Item : j # i => item'[j] = item[j]
      /\ item'[i] \in {"gone", "foreign"}
      /\ item' \in [Item -> {"unused", "stored", "foreign", "gone"}]
  BY <1>1 DEF IInv, TypeOK
<1>3. UNCHANGED <<at, named, found>>
  BY <1>1 DEF callVars
<1>4. TypeOK'
  BY <1>1, <1>2, <1>3 DEF IInv, TypeOK
<1>5. \A q \in Caller : Advances(q)
  BY <1>3 DEF Advances
<1>6. QED
  BY <1>1, <1>2, <1>3, <1>4, <1>5, Receding

LEMMA SetClassDefaultStep ==
  ASSUME IInv, NEW name \in Backend, SetClassDefault(name)
  PROVE  IInv'
<1>1. /\ classDefault' \in Backend
      /\ UNCHANGED <<mapping, item, place, at, named, found, handed, minted, excused, answer>>
  BY DEF SetClassDefault, callVars
<1>2. TypeOK'
  BY <1>1 DEF IInv, TypeOK
<1>3. QED
  BY <1>1, <1>2, Receding DEF Advances

\* A crash excuses the items whose calls it ends between the two stores.
LEMMA CrashStep == IInv /\ Crash => IInv'
<1> SUFFICES ASSUME IInv, Crash PROVE IInv'
  OBVIOUS
<1>1. /\ UNCHANGED <<mapping, item, place, classDefault, handed, minted, answer>>
      /\ \A q \in Caller : at'[q] = "idle"
      /\ at' \in [Caller -> Places] /\ named' \in [Caller -> Ref \cup {None}]
      /\ found' \in [Caller -> Records \cup {None}]
  BY DEF Crash, Places
<1>2. excused' = excused \cup {found[q].item : q \in {x \in Caller : at[x] \in {"bind", "rollback"}}}
  BY DEF Crash
<1>3. \A q \in Caller : at[q] \in {"bind", "rollback"} => found[q].item \in excused' /\ found[q].item \in Item
  BY <1>2, RecordFacts DEF IInv, TypeOK, StoresOwnItem, Storing
<1>4. excused \subseteq excused' /\ excused' \subseteq Item
  BY <1>2, <1>3 DEF IInv, TypeOK
<1>5. TypeOK'
  BY <1>1, <1>4 DEF IInv, TypeOK
<1>6. QED
  BY <1>1, <1>3, <1>4, <1>5, Receding DEF Advances

\* What a failed binding left is deleted, or excused.
LEMMA RollbackStep ==
  ASSUME IInv, NEW p \in Caller, Rollback(p)
  PROVE  IInv'
<1>1. /\ at[p] = "rollback" /\ Ends(p)
      /\ UNCHANGED <<mapping, place, classDefault, handed, minted, answer>>
      /\ \/ /\ item' = [item EXCEPT ![found[p].item] = IF @ = "stored" THEN "gone" ELSE @]
            /\ UNCHANGED excused
         \/ excused' = excused \cup {found[p].item} /\ UNCHANGED item
  BY DEF Rollback
<1>2. PICK i \in Item : i = found[p].item
  BY <1>1, RecordFacts DEF IInv, TypeOK, StoresOwnItem, Storing
<1>3. /\ item' \in [Item -> {"unused", "stored", "foreign", "gone"}] /\ excused' \subseteq Item
      /\ \A j \in Item : item'[j] = item[j] \/ (j = i /\ item[j] = "stored" /\ item'[j] = "gone")
      /\ excused \subseteq excused'
      /\ i \in excused' \/ item'[i] # "stored"
  BY <1>1, <1>2 DEF IInv, TypeOK
<1>4. TypeOK'
  BY <1>1, <1>3, EndsFacts DEF IInv, TypeOK
<1>5. \A q \in Caller : Advances(q)
  BY <1>1, EndsFacts DEF IInv, Advances
<1>6. \A q \in Caller : at[q] \in {"bind", "rollback"} =>
          at'[q] = at[q] \/ found[q].item \in excused' \/ item'[found[q].item] # "stored"
  BY <1>1, <1>2, <1>3, EndsFacts DEF IInv
<1>7. QED
  BY <1>1, <1>3, <1>4, <1>5, <1>6, Receding

-----------------------------------------------------------------------------
(* delete *)

LEMMA DeleteFindsStep ==
  ASSUME IInv, NEW p \in Caller, DeleteFinds(p)
  PROVE  IInv'
<1>1. /\ at[p] = "delete"
      /\ UNCHANGED <<mapping, item, place, classDefault, handed, minted, excused, answer>>
  BY DEF DeleteFinds
<1>2. CASE Ends(p)
  <2>1. TypeOK'
    BY <1>1, <1>2, EndsFacts DEF IInv, TypeOK
  <2>2. QED
    BY <1>1, <1>2, <2>1, EndStep DEF Places
<1>3. CASE ~Ends(p)
  <2>1. /\ found[p] \in Records /\ place[found[p].item] = found[p].backend
        /\ minted[named[p]] = found[p].item /\ named[p] \in Ref
    BY <1>1, RecordFacts DEF IInv, TypeOK, UsesOwnRecord, Using
  <2>2. Holds(found[p]) = item[found[p].item] /\ item[found[p].item] # "unused"
    <3>1. minted[named[p]] # None
      BY <2>1, RecordFacts
    <3>2. QED
      BY <2>1, <3>1 DEF Holds, IInv, MintedOnce
  <2>3. PICK next \in {"remove", "unbind"} :
             Continues(p, next) /\ (next = "unbind" => item[found[p].item] = "gone")
    BY <1>3, <2>2 DEF DeleteFinds
  <2>4. /\ next \in Places /\ next \in Using /\ at[p] \in Using
    BY <1>1 DEF Places, Using
  <2>5. /\ at' \in [Caller -> Places] /\ named' = named /\ found' = found
        /\ at'[p] = next /\ \A q \in Caller : q # p => at'[q] = at[q]
    BY <2>3, <2>4, ContinuesFacts DEF IInv
  <2>6. TypeOK'
    BY <1>1, <2>5 DEF IInv, TypeOK
  <2>7. \A q \in Caller : Advances(q)
    BY <1>1, <2>3, <2>4, <2>5 DEF Advances
  <2>8. QED
    BY <1>1, <2>5, <2>6, <2>7, Receding
<1>4. QED
  BY <1>2, <1>3

LEMMA RemoveItemStep ==
  ASSUME IInv, NEW p \in Caller, RemoveItem(p)
  PROVE  IInv'
<1>1. /\ at[p] = "remove"
      /\ UNCHANGED <<mapping, place, classDefault, handed, minted, excused, answer>>
      /\ \/ item' = [item EXCEPT ![found[p].item] = "gone"] /\ (Continues(p, "unbind") \/ Ends(p))
         \/ Ends(p) /\ UNCHANGED item
  BY DEF RemoveItem
<1>2. CASE UNCHANGED item /\ Ends(p)
  <2>1. TypeOK'
    BY <1>1, <1>2, EndsFacts DEF IInv, TypeOK
  <2>2. QED
    BY <1>1, <1>2, <2>1, EndStep DEF Places
<1>3. CASE item' = [item EXCEPT ![found[p].item] = "gone"] /\ (Continues(p, "unbind") \/ Ends(p))
  <2>1. PICK i \in Item : i = found[p].item /\ item[i] # "unused"
    <3>1. /\ found[p] \in Records /\ found[p].item \in Item
          /\ minted[named[p]] = found[p].item /\ named[p] \in Ref
      BY <1>1, RecordFacts DEF IInv, TypeOK, UsesOwnRecord, Using
    <3>2. QED
      BY <3>1, RecordFacts DEF IInv, MintedOnce
  <2>2. /\ item' \in [Item -> {"unused", "stored", "foreign", "gone"}]
        /\ \A j \in Item : j # i => item'[j] = item[j]
        /\ item'[i] = "gone"
    BY <1>3, <2>1 DEF IInv, TypeOK
  <2>3. /\ at' \in [Caller -> Places] /\ named' \in [Caller -> Ref \cup {None}]
        /\ found' \in [Caller -> Records \cup {None}]
        /\ at'[p] = "idle" \/ (at'[p] = "unbind" /\ named'[p] = named[p] /\ found'[p] = found[p])
        /\ \A q \in Caller : q # p => at'[q] = at[q] /\ named'[q] = named[q] /\ found'[q] = found[q]
    BY <1>3, EndsFacts, ContinuesFacts DEF IInv, Places
  <2>4. TypeOK'
    BY <1>1, <2>2, <2>3 DEF IInv, TypeOK
  <2>5. \A q \in Caller : Advances(q)
    BY <1>1, <2>1, <2>2, <2>3 DEF Advances, Using
  <2>6. QED
    BY <1>1, <2>1, <2>2, <2>3, <2>4, <2>5, Receding
<1>4. QED
  BY <1>1, <1>2, <1>3

\* The binding goes, if it does, after the item.
LEMMA UnbindStep ==
  ASSUME IInv, NEW p \in Caller, Unbind(p)
  PROVE  IInv'
<1>1. /\ at[p] = "unbind" /\ Ends(p)
      /\ mapping' = mapping \/ mapping' = [mapping EXCEPT ![named[p]] = None]
      /\ UNCHANGED <<item, place, classDefault, handed, minted, excused, answer>>
  BY DEF Unbind
<1>2. /\ named[p] \in Ref /\ minted[named[p]] = found[p].item
      /\ item[found[p].item] = "gone"
  BY <1>1 DEF IInv, TypeOK, UsesOwnRecord, Using
<1>3. /\ mapping' \in [Ref -> Records \cup {None}]
      /\ \A r \in Ref : mapping'[r] # mapping[r] => r = named[p] /\ mapping'[r] = None
  BY <1>1, <1>2 DEF IInv, TypeOK
<1>4. TypeOK'
  BY <1>1, <1>3, EndsFacts DEF IInv, TypeOK
<1>5. \A r \in Ref : mapping'[r] # mapping[r] => mapping'[r] = None /\ item'[mapping[r].item] = "gone"
  BY <1>1, <1>2, <1>3 DEF IInv, RecordsLead
<1>6. \A q \in Caller : Advances(q)
  BY EndsFacts, <1>1 DEF IInv, Advances
<1>7. \A q \in Caller : at[q] \in {"bind", "rollback"} => at'[q] = at[q]
  BY EndsFacts, <1>1 DEF IInv
<1>8. QED
  BY <1>1, <1>4, <1>5, <1>6, <1>7, Receding

-----------------------------------------------------------------------------
(* The steps that make something: an item, a reference, a use of one. *)

LEMMA StoreStartStep ==
  ASSUME IInv, NEW p \in Caller, StoreStart(p)
  PROVE  IInv'
<1>1. PICK i \in Item :
          /\ item[i] = "unused" /\ \A q \in Caller : found[q] # None => found[q].item # i
          /\ found' = [found EXCEPT ![p] = Record(classDefault, i)]
  BY DEF StoreStart
<1>2. /\ at[p] = "idle" /\ at' = [at EXCEPT ![p] = "create"]
      /\ UNCHANGED <<mapping, item, place, classDefault, named, handed, minted, excused, answer>>
  BY DEF StoreStart
<1>3. Record(classDefault, i) \in Records /\ Record(classDefault, i).item = i /\ Record(classDefault, i) # None
  BY RecordFacts DEF IInv, TypeOK
<1>4. /\ at' \in [Caller -> Places] /\ found' \in [Caller -> Records \cup {None}]
      /\ at'[p] = "create" /\ found'[p].item = i /\ found'[p] # None
      /\ \A q \in Caller : q # p => at'[q] = at[q] /\ found'[q] = found[q]
  BY <1>1, <1>2, <1>3 DEF IInv, TypeOK, Places
<1>5. TypeOK' /\ RecordsLead' /\ MintedOnce'
  BY <1>2, <1>4 DEF IInv, TypeOK, RecordsLead, MintedOnce
<1>6. StoresOwnItem'
  <2>1. \A r \in Ref : minted[r] # i
    <3>1. i # None
      OBVIOUS
    <3>2. QED
      BY <1>1, <3>1 DEF IInv, MintedOnce
  <2>2. \A q \in Caller : at[q] \in Storing => found[q] # None /\ found[q].item # i
    BY <1>1 DEF IInv, StoresOwnItem
  <2>3. QED
    BY <1>1, <1>2, <1>4, <2>1, <2>2 DEF IInv, StoresOwnItem
<1>7. UsesOwnRecord'
  BY <1>2, <1>4 DEF IInv, UsesOwnRecord, Using
<1>8. NothingOrphaned'
  <2>1. \A q \in Caller : at[q] \in {"bind", "rollback"} => at'[q] = at[q] /\ found'[q] = found[q]
    BY <1>2, <1>4
  <2>2. QED
    BY <1>2, <2>1 DEF IInv, NothingOrphaned, Record
<1>9. QED
  BY <1>5, <1>6, <1>7, <1>8 DEF IInv

LEMMA BackendStoresStep ==
  ASSUME IInv, NEW p \in Caller, BackendStores(p)
  PROVE  IInv'
<1>1. at[p] = "create" /\ UNCHANGED <<mapping, classDefault, handed, minted, answer>>
  BY DEF BackendStores
<1>2. PICK i \in Item : /\ i = found[p].item /\ item[i] = "unused" /\ found[p] \in Records
                        /\ found[p].backend \in Backend /\ found[p] # None
                        /\ \A r \in Ref : minted[r] # i
                        /\ \A q \in Caller : at[q] \in Storing /\ found[q].item = i => q = p
  BY <1>1, RecordFacts DEF IInv, TypeOK, StoresOwnItem, Storing
<1>3. CASE Ends(p) /\ UNCHANGED <<item, place, excused>>
  <2>1. TypeOK'
    BY <1>1, <1>3, EndsFacts DEF IInv, TypeOK
  <2>2. QED
    BY <1>1, <1>3, <2>1, EndStep DEF Places
<1>4. ASSUME item' = [item EXCEPT ![i] = "stored"], place' = [place EXCEPT ![i] = found[p].backend],
             \/ Continues(p, "bind") /\ UNCHANGED excused
             \/ Ends(p) /\ excused' = excused \cup {i}
      PROVE  IInv'
  <2>1. /\ at' \in [Caller -> Places] /\ named' \in [Caller -> Ref \cup {None}]
        /\ found' \in [Caller -> Records \cup {None}] /\ excused' \subseteq Item
        /\ \/ at'[p] = "bind" /\ found'[p] = found[p] /\ excused' = excused
           \/ at'[p] = "idle" /\ excused' = excused \cup {i}
        /\ \A q \in Caller : q # p => at'[q] = at[q] /\ named'[q] = named[q] /\ found'[q] = found[q]
    <3>1. excused \subseteq Item
      BY DEF IInv, TypeOK
    <3>2. QED
      BY <1>4, <3>1, EndsFacts, ContinuesFacts DEF IInv, Places
  <2>2. /\ item' \in [Item -> {"unused", "stored", "foreign", "gone"}]
        /\ place' \in [Item -> Backend \cup {None}]
        /\ item'[i] = "stored" /\ place'[i] = found[p].backend
        /\ \A j \in Item : j # i => item'[j] = item[j] /\ place'[j] = place[j]
    BY <1>2, <1>4 DEF IInv, TypeOK
  <2>3. TypeOK'
    BY <1>1, <2>1, <2>2 DEF IInv, TypeOK
  <2>4. \A r \in Ref : mapping[r] # None => mapping[r] \in Records /\ mapping[r].item \in Item /\ mapping[r].item # i
    BY <1>2, RecordFacts DEF IInv, TypeOK, RecordsLead
  <2>5. RecordsLead'
    BY <1>1, <2>2, <2>4 DEF IInv, RecordsLead
  <2>6. MintedOnce'
    BY <1>1, <1>2, <2>2 DEF IInv, MintedOnce, TypeOK
  <2>7. StoresOwnItem'
    <3> SUFFICES ASSUME NEW q \in Caller, at'[q] \in Storing
                 PROVE  /\ found'[q] # None
                        /\ at'[q] = "create" => item'[found'[q].item] = "unused"
                        /\ at'[q] # "create" =>
                               item'[found'[q].item] # "unused" /\ place'[found'[q].item] = found'[q].backend
                        /\ at'[q] # "rollback" => \A r \in Ref : minted'[r] # found'[q].item
                        /\ \A x \in Caller : at'[x] \in Storing /\ found'[x].item = found'[q].item => x = q
      BY DEF StoresOwnItem
    <3>1. \A x \in Caller : at'[x] \in Storing => at[x] \in Storing /\ found'[x] = found[x]
      BY <1>1, <2>1 DEF Storing
    <3>2. /\ found[q] # None
          /\ at[q] = "create" => item[found[q].item] = "unused"
          /\ at[q] # "create" => item[found[q].item] # "unused" /\ place[found[q].item] = found[q].backend
          /\ at[q] # "rollback" => \A r \in Ref : minted[r] # found[q].item
          /\ \A x \in Caller : at[x] \in Storing /\ found[x].item = found[q].item => x = q
      BY <3>1 DEF IInv, StoresOwnItem
    <3>3. CASE q = p
      BY <1>1, <1>2, <2>1, <2>2, <3>1, <3>2, <3>3 DEF Storing
    <3>4. CASE q # p
      <4>1. found[q].item \in Item /\ found[q].item # i /\ at'[q] = at[q]
        BY <1>2, <2>1, <3>1, <3>2, <3>4, RecordFacts DEF IInv, TypeOK
      <4>2. QED
        BY <1>1, <2>2, <3>1, <3>2, <4>1
    <3>5. QED
      BY <3>3, <3>4
  <2>8. UsesOwnRecord'
    <3> SUFFICES ASSUME NEW q \in Caller, at'[q] \in Using
                 PROVE  /\ found'[q] # None /\ named'[q] # None
                        /\ minted'[named'[q]] = found'[q].item /\ place'[found'[q].item] = found'[q].backend
                        /\ at'[q] = "unbind" => item'[found'[q].item] = "gone"
      BY DEF UsesOwnRecord
    <3>1. q # p
      BY <2>1 DEF Using
    <3>2. at'[q] = at[q] /\ named'[q] = named[q] /\ found'[q] = found[q]
      BY <2>1, <3>1
    <3>3. /\ found[q] # None /\ named[q] # None
          /\ minted[named[q]] = found[q].item /\ place[found[q].item] = found[q].backend
          /\ at[q] = "unbind" => item[found[q].item] = "gone"
      BY <3>2 DEF IInv, UsesOwnRecord
    <3>4. named[q] \in Ref /\ found[q].item \in Item
      BY <3>3, RecordFacts DEF IInv, TypeOK
    <3>5. found[q].item # i
      BY <1>2, <3>3, <3>4
    <3>6. QED
      BY <1>1, <2>2, <3>2, <3>3, <3>4, <3>5
  <2>9. NothingOrphaned'
    <3> SUFFICES ASSUME NEW j \in Item, item'[j] = "stored", j \notin excused'
                 PROVE  \/ \E r \in Ref : mapping'[r] # None /\ mapping'[r] = Record(place'[j], j)
                        \/ \E q \in Caller : at'[q] \in {"bind", "rollback"} /\ found'[q].item = j
      BY DEF NothingOrphaned, Record
    <3>1. CASE j = i
      BY <1>2, <2>1, <3>1
    <3>2. CASE j # i
      <4>1. \/ \E r \in Ref : mapping[r] # None /\ mapping[r] = Record(place[j], j)
            \/ \E q \in Caller : at[q] \in {"bind", "rollback"} /\ found[q].item = j
        BY <2>1, <2>2, <3>2 DEF IInv, NothingOrphaned
      <4>2. \A q \in Caller : at[q] \in {"bind", "rollback"} => at'[q] = at[q] /\ found'[q] = found[q]
        BY <1>1, <2>1
      <4>3. QED
        BY <1>1, <2>2, <3>2, <4>1, <4>2
    <3>3. QED
      BY <3>1, <3>2
  <2>10. QED
    BY <2>3, <2>5, <2>6, <2>7, <2>8, <2>9 DEF IInv
<1>5. QED
  BY <1>2, <1>3, <1>4 DEF BackendStores

\* A reference nobody has is bound to the item of the call, or is not and the
\* item is to be cleaned up.
LEMMA BindStep ==
  ASSUME IInv, NEW p \in Caller, Bind(p)
  PROVE  IInv'
<1>1. PICK r \in Ref :
          /\ minted[r] = None
          /\ \/ BindsTo(r, found[p]) /\ handed' = handed \cup {r} /\ Ends(p)
             \/ BindsTo(r, found[p]) /\ UNCHANGED handed /\ Continues(p, "rollback")
             \/ UNCHANGED <<mapping, minted, handed>> /\ Continues(p, "rollback")
  BY DEF Bind
<1>2. at[p] = "bind" /\ UNCHANGED <<item, place, classDefault, excused, answer>>
  BY DEF Bind
<1>3. PICK i \in Item : /\ i = found[p].item /\ item[i] # "unused" /\ found[p] \in Records
                        /\ place[i] = found[p].backend /\ found[p] # None
                        /\ \A s \in Ref : minted[s] # i
                        /\ \A q \in Caller : at[q] \in Storing /\ found[q].item = i => q = p
  BY <1>2, RecordFacts DEF IInv, TypeOK, StoresOwnItem, Storing
<1>4. /\ at' \in [Caller -> Places] /\ named' \in [Caller -> Ref \cup {None}]
      /\ found' \in [Caller -> Records \cup {None}]
      /\ \/ at'[p] = "rollback" /\ found'[p] = found[p]
         \/ at'[p] = "idle"
      /\ \A q \in Caller : q # p => at'[q] = at[q] /\ named'[q] = named[q] /\ found'[q] = found[q]
  BY <1>1, EndsFacts, ContinuesFacts DEF IInv, Places
<1>5. ASSUME BindsTo(r, found[p]), handed' \subseteq handed \cup {r} PROVE IInv'
  <2>1. /\ mapping' \in [Ref -> Records \cup {None}] /\ minted' \in [Ref -> Item \cup {None}]
        /\ mapping'[r] = found[p] /\ minted'[r] = i
        /\ \A s \in Ref : s # r => mapping'[s] = mapping[s] /\ minted'[s] = minted[s]
    BY <1>3, <1>5 DEF IInv, TypeOK, BindsTo
  <2>2. i # None /\ handed' \subseteq Ref
    BY <1>5 DEF IInv, TypeOK
  <2>3. TypeOK'
    BY <1>2, <1>4, <2>1, <2>2 DEF IInv, TypeOK
  <2>4. RecordsLead'
    BY <1>2, <1>3, <2>1 DEF IInv, RecordsLead
  <2>5. MintedOnce'
    BY <1>2, <1>3, <1>5, <2>1, <2>2 DEF IInv, MintedOnce
  <2>6. StoresOwnItem'
    <3>1. \A q \in Caller : at'[q] \in Storing =>
              at[q] \in Storing /\ found'[q] = found[q] /\ (q = p => at'[q] = "rollback")
      BY <1>2, <1>4 DEF Storing
    <3>2. \A q \in Caller : q # p /\ at[q] \in Storing => found[q].item # i
      BY <1>3
    <3>3. QED
      BY <1>2, <1>3, <1>4, <2>1, <3>1, <3>2 DEF IInv, StoresOwnItem
  <2>7. UsesOwnRecord'
    <3> SUFFICES ASSUME NEW q \in Caller, at'[q] \in Using
                 PROVE  /\ found'[q] # None /\ named'[q] # None
                        /\ minted'[named'[q]] = found'[q].item /\ place'[found'[q].item] = found'[q].backend
                        /\ at'[q] = "unbind" => item'[found'[q].item] = "gone"
      BY DEF UsesOwnRecord
    <3>1. q # p /\ at'[q] = at[q] /\ named'[q] = named[q] /\ found'[q] = found[q]
      BY <1>4 DEF Using
    <3>2. /\ found[q] # None /\ named[q] # None
          /\ minted[named[q]] = found[q].item /\ place[found[q].item] = found[q].backend
          /\ at[q] = "unbind" => item[found[q].item] = "gone"
      BY <3>1 DEF IInv, UsesOwnRecord
    <3>3. named[q] \in Ref /\ found[q].item # None
      BY <3>2, RecordFacts DEF IInv, TypeOK
    <3>4. named[q] # r
      BY <1>1, <3>2, <3>3
    <3>5. QED
      BY <1>2, <2>1, <3>1, <3>2, <3>3, <3>4
  <2>8. NothingOrphaned'
    <3> SUFFICES ASSUME NEW j \in Item, item'[j] = "stored", j \notin excused'
                 PROVE  \/ \E s \in Ref : mapping'[s] # None /\ mapping'[s] = Record(place'[j], j)
                        \/ \E q \in Caller : at'[q] \in {"bind", "rollback"} /\ found'[q].item = j
      BY DEF NothingOrphaned, Record
    <3>1. CASE j = i
      <4>1. found[p] = Record(place[i], i)
        BY <1>3, RecordFacts
      <4>2. QED
        BY <1>2, <1>3, <2>1, <3>1, <4>1
    <3>2. CASE j # i
      <4>1. \/ \E s \in Ref : mapping[s] # None /\ mapping[s] = Record(place[j], j)
            \/ \E q \in Caller : at[q] \in {"bind", "rollback"} /\ found[q].item = j
        BY <1>2 DEF IInv, NothingOrphaned
      <4>2. CASE \E s \in Ref : mapping[s] # None /\ mapping[s] = Record(place[j], j)
        <5>1. PICK s \in Ref : mapping[s] # None /\ mapping[s] = Record(place[j], j)
          BY <4>2
        <5>2. s # r
          BY <1>1, <5>1, RecordFacts DEF IInv, RecordsLead, TypeOK
        <5>3. QED
          BY <1>2, <2>1, <5>1, <5>2
      <4>3. CASE \E q \in Caller : at[q] \in {"bind", "rollback"} /\ found[q].item = j
        <5>1. PICK q \in Caller : at[q] \in {"bind", "rollback"} /\ found[q].item = j
          BY <4>3
        <5>2. q # p
          BY <1>3, <3>2, <5>1
        <5>3. QED
          BY <1>4, <5>1, <5>2
      <4>4. QED
        BY <4>1, <4>2, <4>3
    <3>3. QED
      BY <3>1, <3>2
  <2>9. QED
    BY <2>3, <2>4, <2>5, <2>6, <2>7, <2>8 DEF IInv
<1>6. ASSUME UNCHANGED <<mapping, minted, handed>>, Continues(p, "rollback") PROVE IInv'
  <2>1. /\ at'[p] = "rollback" /\ named' = named /\ found' = found
        /\ \A q \in Caller : q # p => at'[q] = at[q]
    BY <1>6, ContinuesFacts DEF IInv, Places
  <2>2. TypeOK' /\ RecordsLead' /\ MintedOnce'
    BY <1>2, <1>4, <1>6 DEF IInv, TypeOK, RecordsLead, MintedOnce
  <2>3. StoresOwnItem'
    <3>1. \A q \in Caller : at'[q] \in Storing => at[q] \in Storing
      BY <1>2, <2>1 DEF Storing
    <3>2. QED
      BY <1>2, <1>3, <1>6, <2>1, <3>1 DEF IInv, StoresOwnItem
  <2>4. UsesOwnRecord' /\ NothingOrphaned'
    BY <1>2, <1>6, <2>1 DEF IInv, UsesOwnRecord, Using, NothingOrphaned, Record
  <2>5. QED
    BY <2>2, <2>3, <2>4 DEF IInv
<1>7. QED
  BY <1>1, <1>5, <1>6

LEMMA LookUpStep ==
  ASSUME IInv, NEW p \in Caller, NEW r \in Ref, NEW op \in {"read", "has", "delete"}, LookUp(p, r, op)
  PROVE  IInv'
<1>1. /\ at[p] = "idle" /\ r \in handed
      /\ UNCHANGED <<mapping, item, place, classDefault, handed, minted, excused>>
  BY DEF LookUp
<1>2. CASE mapping[r] = None
  <2>1. UNCHANGED <<at, named, found>> /\ answer' \in {answer, <<r, "absent">>}
    BY <1>2 DEF LookUp, callVars
  <2>2. TypeOK'
    BY <1>1, <2>1 DEF IInv, TypeOK
  <2>3. QED
    BY <1>1, <2>1, <2>2, Receding DEF Advances
<1>3. CASE mapping[r] # None
  <2>1. /\ at' = [at EXCEPT ![p] = op] /\ named' = [named EXCEPT ![p] = r]
        /\ found' = [found EXCEPT ![p] = mapping[r]] /\ answer' = answer
    BY <1>3 DEF LookUp, Route
  <2>2. /\ at' \in [Caller -> Places] /\ named' \in [Caller -> Ref \cup {None}]
        /\ found' \in [Caller -> Records \cup {None}]
        /\ at'[p] = op /\ named'[p] = r /\ found'[p] = mapping[r]
        /\ \A q \in Caller : q # p => at'[q] = at[q] /\ named'[q] = named[q] /\ found'[q] = found[q]
    BY <2>1 DEF IInv, TypeOK, Places
  <2>3. TypeOK' /\ RecordsLead' /\ MintedOnce'
    BY <1>1, <2>1, <2>2 DEF IInv, TypeOK, RecordsLead, MintedOnce
  <2>4. StoresOwnItem'
    <3>1. \A q \in Caller : at'[q] \in Storing => q # p
      BY <2>2 DEF Storing
    <3>2. QED
      BY <1>1, <2>2, <3>1 DEF IInv, StoresOwnItem
  <2>5. UsesOwnRecord'
    BY <1>1, <1>3, <2>2 DEF IInv, UsesOwnRecord, RecordsLead
  <2>6. NothingOrphaned'
    <3>1. \A q \in Caller : at[q] \in {"bind", "rollback"} => at'[q] = at[q] /\ found'[q] = found[q]
      BY <1>1, <2>2
    <3>2. QED
      BY <1>1, <3>1 DEF IInv, NothingOrphaned, Record
  <2>7. QED
    BY <2>3, <2>4, <2>5, <2>6 DEF IInv
<1>4. QED
  BY <1>2, <1>3

-----------------------------------------------------------------------------
(* The theorems. *)

LEMMA StepIInv == IInv /\ [Next]_vaultVars => IInv'
<1> SUFFICES ASSUME IInv, [Next]_vaultVars PROVE IInv'
  OBVIOUS
<1>1. CASE UNCHANGED vaultVars
  BY <1>1 DEF vaultVars, callVars, IInv, TypeOK, RecordsLead, MintedOnce, StoresOwnItem,
     UsesOwnRecord, NothingOrphaned, Record
<1>2. ASSUME NEW p \in Caller, StoreStart(p) \/ BackendStores(p) \/ Bind(p) \/ Rollback(p)
      PROVE  IInv'
  BY <1>2, StoreStartStep, BackendStoresStep, BindStep, RollbackStep
<1>3. ASSUME NEW p \in Caller, NEW r \in Ref, NEW op \in {"read", "has", "delete"}, LookUp(p, r, op)
      PROVE  IInv'
  BY <1>3, LookUpStep
<1>4. ASSUME NEW p \in Caller,
             ReadItem(p) \/ HasItem(p) \/ DeleteFinds(p) \/ RemoveItem(p) \/ Unbind(p)
      PROVE  IInv'
  BY <1>4, AnswerStep, DeleteFindsStep, RemoveItemStep, UnbindStep
<1>5. ASSUME \/ \E name \in Backend : SetClassDefault(name)
             \/ Crash
             \/ \E i \in Item : Outside(i)
      PROVE  IInv'
  BY <1>5, SetClassDefaultStep, CrashStep, OutsideStep
<1>6. QED
  BY <1>1, <1>2, <1>3, <1>4, <1>5 DEF Next

LEMMA Invariance == Spec => []IInv
<1>1. IInv /\ [Next]_vaultVars => IInv'
  BY StepIInv
<1>2. QED
  BY InitIInv, <1>1, PTL DEF Spec

\* Every variable holds a value of its type.
THEOREM TypeCorrect == Spec => []TypeOK
<1>1. IInv => TypeOK
  BY DEF IInv
<1>2. QED
  BY <1>1, Invariance, PTL

\* Whichever of the two stores fails, and whenever, a secret that is stored is
\* bound or about to be bound or deleted, but for the three losses the vault
\* cannot see (`store` and its best-effort rollback, `delete` in its order).
THEOREM NoSecretIsOrphaned == Spec => []NothingOrphaned
<1>1. IInv => NothingOrphaned
  BY DEF IInv
<1>2. QED
  BY <1>1, Invariance, PTL

-----------------------------------------------------------------------------
(* The refinement: every step of a call is a step of the promise, or none. *)

Promised == [Promise!Next]_(Promise!store)

\* Nothing the promise speaks of changes.
LEMMA PromiseStutters ==
  ASSUME UNCHANGED <<mapping, item, minted, answer>>
  PROVE  Promised
  BY DEF Promised, Promise!store, Live

\* One item is lost: so is the reference it was made for, if there is one.
LEMMA ItemLost ==
  ASSUME IInv, NEW i \in Item, item[i] # "unused", UNCHANGED <<mapping, minted, answer>>,
         \A j \in Item : j # i => item'[j] = item[j],
         item'[i] # "stored" \/ item'[i] = item[i]
  PROVE  Promised
<1>1. \A r \in Ref : mapping[r] # None => mapping[r].item \in Item /\ mapping[r].item = minted[r]
  BY RecordFacts DEF IInv, TypeOK, RecordsLead
<1>2. CASE item'[i] = item[i]
  <2>1. Live' = Live
    BY <1>1, <1>2 DEF Live
  <2>2. QED
    BY <2>1 DEF Promised, Promise!store
<1>3. CASE item'[i] # "stored" /\ \E r \in Ref : minted[r] = i
  <2>1. PICK r \in Ref : minted[r] = i
    BY <1>3
  <2>2. \A s \in Ref : minted[s] = i => s = r
    BY <2>1 DEF IInv, MintedOnce
  <2>3. Live' = Live \ {r}
    BY <1>1, <1>3, <2>1, <2>2 DEF Live
  <2>4. Promise!Remove(r)
    BY <2>3 DEF Promise!Remove
  <2>5. QED
    BY <2>4 DEF Promised, Promise!Next
<1>4. CASE item'[i] # "stored" /\ ~\E r \in Ref : minted[r] = i
  <2>1. Live' = Live
    BY <1>1, <1>4 DEF Live
  <2>2. QED
    BY <2>1 DEF Promised, Promise!store
<1>5. QED
  BY <1>2, <1>3, <1>4

\* An answer tells the truth at the moment it is given.
LEMMA AnswerIsTrue ==
  ASSUME IInv, UNCHANGED <<mapping, item, minted>>, NEW r \in Ref,
         answer' \in IF r \in Live THEN {<<r, minted[r]>>, <<r, "present">>} ELSE {<<r, "absent">>}
  PROVE  Promised
<1>1. Live' = Live
  BY DEF Live
<1>2. Promise!Resolve(r)
  BY <1>1 DEF Promise!Resolve
<1>3. QED
  BY <1>2 DEF Promised, Promise!Next

LEMMA AnswersKeepPromise ==
  ASSUME IInv, NEW p \in Caller, ReadItem(p) \/ HasItem(p)
  PROVE  Promised
<1>1. at[p] \in {"read", "has"} /\ UNCHANGED <<mapping, item, minted>>
  BY DEF ReadItem, HasItem
<1>2. PICK r \in Ref : r = named[p] /\ minted[r] = found[p].item
  BY <1>1 DEF IInv, TypeOK, UsesOwnRecord, Using
<1>3. Holds(found[p]) = item[minted[r]]
  BY <1>1, <1>2 DEF IInv, UsesOwnRecord, Using, Holds
<1>4. r \in Live => item[minted[r]] = "stored"
  BY DEF Live, IInv, RecordsLead
<1>5. item[minted[r]] = "stored" => r \in Live
  <2>1. minted[r] # None
    BY <1>1, <1>2, RecordFacts DEF IInv, TypeOK, UsesOwnRecord, Using
  <2>2. item[minted[r]] = "stored" => mapping[r] # None
    BY <2>1 DEF IInv, MintedOnce
  <2>3. QED
    BY <2>2 DEF Live, IInv, RecordsLead
<1>6. CASE answer' = answer
  BY <1>1, <1>6, PromiseStutters
<1>7. CASE answer' # answer
  BY <1>1, <1>2, <1>3, <1>4, <1>5, <1>7, AnswerIsTrue DEF ReadItem, HasItem
<1>8. QED
  BY <1>6, <1>7

\* A new item is not yet anybody's secret.
LEMMA BackendStoresKeepsPromise ==
  ASSUME IInv, NEW p \in Caller, BackendStores(p)
  PROVE  Promised
<1>1. UNCHANGED <<mapping, minted, answer>>
  BY DEF BackendStores
<1>2. \A r \in Ref : mapping[r] # None => mapping[r].item \in Item /\ mapping[r].item # found[p].item
  BY RecordFacts DEF BackendStores, IInv, TypeOK, RecordsLead, StoresOwnItem, Storing
<1>3. \A j \in Item : j # found[p].item => item'[j] = item[j]
  BY DEF BackendStores, IInv, TypeOK
<1>4. Live' = Live
  BY <1>1, <1>2, <1>3 DEF Live
<1>5. QED
  BY <1>1, <1>4 DEF Promised, Promise!store

LEMMA BindKeepsPromise ==
  ASSUME IInv, NEW p \in Caller, Bind(p)
  PROVE  Promised
<1>1. /\ at[p] = "bind" /\ UNCHANGED <<item, answer>>
      /\ \E r \in Ref : minted[r] = None /\ (BindsTo(r, found[p]) \/ UNCHANGED <<mapping, minted>>)
  BY DEF Bind
<1>2. CASE UNCHANGED <<mapping, minted>>
  BY <1>1, <1>2, PromiseStutters
<1>3. CASE \E r \in Ref : minted[r] = None /\ BindsTo(r, found[p])
  <2>1. PICK r \in Ref : minted[r] = None /\ BindsTo(r, found[p])
    BY <1>3
  <2>2. PICK i \in Item : i = found[p].item /\ found[p] # None
    BY <1>1, RecordFacts DEF IInv, TypeOK, StoresOwnItem, Storing
  <2>3. /\ mapping'[r] = found[p] /\ minted' = [minted EXCEPT ![r] = i]
        /\ \A s \in Ref : s # r => mapping'[s] = mapping[s]
    BY <2>1, <2>2 DEF BindsTo, IInv, TypeOK
  <2>4. Live' \ {r} = Live \ {r} /\ r \notin Live
    <3>1. mapping[r] = None
      BY <2>1, RecordFacts DEF IInv, TypeOK, RecordsLead
    <3>2. QED
      BY <1>1, <2>3, <3>1 DEF Live
  <2>5. Live' \in {Live, Live \cup {r}}
    BY <2>4
  <2>6. Promise!Add(r, i)
    BY <1>1, <2>1, <2>3, <2>5 DEF Promise!Add
  <2>7. QED
    BY <2>6 DEF Promised, Promise!Next
<1>4. QED
  BY <1>1, <1>2, <1>3

LEMMA ItemEndsKeepPromise ==
  ASSUME IInv, NEW p \in Caller, Rollback(p) \/ RemoveItem(p)
  PROVE  Promised
<1>1. /\ at[p] \in {"rollback", "remove"} /\ UNCHANGED <<mapping, minted, answer>>
      /\ \/ item' = item
         \/ item' = [item EXCEPT ![found[p].item] = "gone"]
         \/ item' = [item EXCEPT ![found[p].item] = IF @ = "stored" THEN "gone" ELSE @]
  BY DEF Rollback, RemoveItem
<1>2. PICK i \in Item : i = found[p].item /\ item[i] # "unused"
  <2>1. CASE at[p] = "rollback"
    BY <2>1, RecordFacts DEF IInv, TypeOK, StoresOwnItem, Storing
  <2>2. CASE at[p] = "remove"
    <3>1. /\ found[p] \in Records /\ found[p].item \in Item
          /\ minted[named[p]] = found[p].item /\ named[p] \in Ref
      BY <2>2, RecordFacts DEF IInv, TypeOK, UsesOwnRecord, Using
    <3>2. QED
      BY <3>1, RecordFacts DEF IInv, MintedOnce
  <2>3. QED
    BY <1>1, <2>1, <2>2
<1>3. /\ \A j \in Item : j # i => item'[j] = item[j]
      /\ item'[i] # "stored" \/ item'[i] = item[i]
  BY <1>1, <1>2 DEF IInv, TypeOK
<1>4. QED
  BY <1>1, <1>2, <1>3, ItemLost

\* The record that goes led to nothing any more.
LEMMA UnbindKeepsPromise ==
  ASSUME IInv, NEW p \in Caller, Unbind(p)
  PROVE  Promised
<1>1. /\ at[p] = "unbind" /\ UNCHANGED <<item, minted, answer>>
      /\ mapping' = mapping \/ mapping' = [mapping EXCEPT ![named[p]] = None]
  BY DEF Unbind
<1>2. named[p] \in Ref /\ item[minted[named[p]]] = "gone"
  BY <1>1 DEF IInv, TypeOK, UsesOwnRecord, Using
<1>3. named[p] \notin Live
  BY <1>2 DEF Live, IInv, RecordsLead
<1>4. \A r \in Ref : mapping'[r] = mapping[r] \/ (r = named[p] /\ mapping'[r] = None)
  BY <1>1, <1>2 DEF IInv, TypeOK
<1>5. Live' = Live
  BY <1>1, <1>3, <1>4 DEF Live
<1>6. QED
  BY <1>1, <1>5 DEF Promised, Promise!store

LEMMA LookUpKeepsPromise ==
  ASSUME IInv, NEW p \in Caller, NEW r \in Ref, NEW op \in {"read", "has", "delete"}, LookUp(p, r, op)
  PROVE  Promised
<1>1. UNCHANGED <<mapping, item, minted>>
  BY DEF LookUp
<1>2. CASE answer' = answer
  BY <1>1, <1>2, PromiseStutters
<1>3. CASE answer' # answer
  <2>1. r \notin Live /\ answer' = <<r, "absent">>
    BY <1>3 DEF LookUp, Live
  <2>2. QED
    BY <1>1, <2>1, AnswerIsTrue
<1>4. QED
  BY <1>2, <1>3

LEMMA OutsideKeepsPromise ==
  ASSUME IInv, NEW i \in Item, Outside(i)
  PROVE  Promised
<1>1. /\ item[i] = "stored" /\ UNCHANGED <<mapping, minted, answer>>
      /\ \E s \in {"gone", "foreign"} : item' = [item EXCEPT ![i] = s]
  BY DEF Outside
<1>2. item'[i] # "stored" /\ \A j \in Item : j # i => item'[j] = item[j]
  BY <1>1 DEF IInv, TypeOK
<1>3. QED
  BY <1>1, <1>2, ItemLost

\* Whatever its stores do and whichever calls overlap, the vault implements
\* SecretStore: a reference answers for the one secret it was made for until
\* that is removed, and never again after that.
THEOREM VaultKeepsPromise == Spec => KeepsPromise
<1>1. Init => Promise!Init
  BY DEF Init, Promise!Init, Live
<1>2. ASSUME IInv, [Next]_vaultVars PROVE Promised
  <2>1. CASE UNCHANGED vaultVars
    BY <2>1, PromiseStutters DEF vaultVars
  <2>2. ASSUME NEW p \in Caller, StoreStart(p) \/ DeleteFinds(p) PROVE Promised
    BY <2>2, PromiseStutters DEF StoreStart, DeleteFinds
  <2>3. ASSUME NEW p \in Caller, BackendStores(p) \/ Bind(p) \/ Rollback(p) PROVE Promised
    BY <1>2, <2>3, BackendStoresKeepsPromise, BindKeepsPromise, ItemEndsKeepPromise
  <2>4. ASSUME NEW p \in Caller, NEW r \in Ref, NEW op \in {"read", "has", "delete"}, LookUp(p, r, op)
        PROVE  Promised
    BY <1>2, <2>4, LookUpKeepsPromise
  <2>5. ASSUME NEW p \in Caller, ReadItem(p) \/ HasItem(p) \/ RemoveItem(p) \/ Unbind(p)
        PROVE  Promised
    BY <1>2, <2>5, AnswersKeepPromise, ItemEndsKeepPromise, UnbindKeepsPromise
  <2>6. ASSUME NEW name \in Backend, SetClassDefault(name) PROVE Promised
    BY <2>6, PromiseStutters DEF SetClassDefault
  <2>7. CASE Crash
    BY <2>7, PromiseStutters DEF Crash
  <2>8. ASSUME NEW i \in Item, Outside(i) PROVE Promised
    BY <1>2, <2>8, OutsideKeepsPromise
  <2>9. QED
    BY <1>2, <2>1, <2>2, <2>3, <2>4, <2>5, <2>6, <2>7, <2>8 DEF Next
<1>3. IInv /\ [Next]_vaultVars => [Promise!Next]_(Promise!store)
  BY <1>2 DEF Promised
<1>4. QED
  BY <1>1, <1>3, Invariance, PTL DEF Spec, KeepsPromise, Promise!Spec

-----------------------------------------------------------------------------
(* DraftLog: the log of one author, by the lemmas about compaction of the  *)
(* proofs about drafts, which need no draft around the log.                *)

Drafts == INSTANCE DraftLifecycleProofs WITH
    Process <- {}, None <- 0, Menu <- <<>>, Batches <- <<>>, AppendAttempts <- 1,
    TxAttempts <- 1, MaxVersion <- 0, Resolved <- 0, draft <- 0, rev <- 0, base <- 0,
    log <- 0, change <- 0, canon <- 0, ledger <- 0, version <- 0, written <- 0, lock <- 0,
    hold <- 0, publisher <- 0, pc <- 0, snap <- 0, batch <- 0, mine <- 0, todo <- 0,
    buffer <- 0, tries <- 0, attempts <- 0, probed <- 0, acked <- 0

\* What those proofs assume of the constants put in
LEMMA DraftsAssume ==
  /\ Revisioned \in BOOLEAN /\ Row \subseteq Nat /\ 0 \notin {} /\ 0 \in Nat
  /\ \A p \in {} : <<>>[p] \subseteq Seq(Drafts!Command)
  /\ 1 \in Nat \ {0}
BY LogAssumption

LEMMA SameCompaction == ASSUME NEW s PROVE Log!CompactLog(s) = Drafts!CompactLog(s)
BY DEF Log!CompactLog, Log!Filtered, Log!Surviving, Log!CompactStates, Log!CompactStep,
       Drafts!CompactLog, Drafts!Filtered, Drafts!Surviving, Drafts!CompactStates, Drafts!CompactStep

LEMMA SameTouch ==
  ASSUME NEW c, NEW x, NEW row, NEW led, NEW seen
  PROVE  /\ Log!Touched(c, x, row, led, seen) = Drafts!Touched(c, x, row, led, seen)
         /\ Log!Refused(c, x, row) <=> Drafts!Refused(c, x, row)
BY DEF Log!Touched, Log!Refused, Log!Writes, Log!InsertAvailable, Log!Effective, Log!WriteDraftRow,
       Log!Anchor, Log!Present, Log!Absent, Log!NoChange,
       Drafts!Touched, Drafts!Refused, Drafts!Writes, Drafts!InsertAvailable, Drafts!Effective,
       Drafts!WriteDraftRow, Drafts!Anchor, Drafts!Present, Drafts!Absent, Drafts!NoChange

LEMMA SameReplay ==
  ASSUME NEW s, NEW cn, NEW ld, NEW wr
  PROVE  Log!Replay(s, cn, ld, wr) = Drafts!Replay(s, cn, ld, wr)
BY DEF Log!Replay, Log!Touched, Log!Refused, Log!Writes, Log!InsertAvailable, Log!Effective, Log!WriteDraftRow,
       Log!Anchor, Log!Present, Log!Absent, Log!NoChange,
       Drafts!Replay, Drafts!Touched, Drafts!Refused, Drafts!Writes, Drafts!InsertAvailable, Drafts!Effective,
       Drafts!WriteDraftRow, Drafts!Anchor, Drafts!Present, Drafts!Absent, Drafts!NoChange

LEMMA SameMatch ==
  ASSUME NEW a, NEW b
  PROVE  Log!ReplayMatches(a, b) <=> Drafts!ReplayMatches(a, b)
BY DEF Log!ReplayMatches, Log!Reviewed, Log!SameProposal, Log!SameAnchor, Log!NoChange,
       Drafts!ReplayMatches, Drafts!Reviewed, Drafts!SameProposal, Drafts!SameAnchor, Drafts!NoChange

LEMMA SameItems ==
  ASSUME NEW S, NEW s \in Seq(S) PROVE Log!Range(s) = Drafts!Items(s)
<1>1. DOMAIN s = 1 .. Len(s)
  OBVIOUS
<1>2. QED
  BY <1>1 DEF Log!Range, Drafts!Items

LEMMA LogItem ==
  ASSUME NEW op \in {"insert", "update", "delete"}, NEW k \in Row, NEW n \in Nat, NEW keyed \in BOOLEAN, NEW c,
         c = [op |-> op, row |-> k, val |-> 2 + n, keyed |-> keyed]
  PROVE  c \in Drafts!Command /\ c.row = k /\ c.keyed = keyed
BY DEF Drafts!Command

-----------------------------------------------------------------------------
(* The inductive invariant *)

\* All the commands of a row have a compaction key or none has.
KeysAgree == \A r \in Row : Keying[r] \subseteq BOOLEAN /\ \A a, b \in Keying[r] : a = b

\* The canonical rows, which nobody else writes, and the revisions of their anchors
LogRows(cn, ld, wr) ==
  /\ cn \in Drafts!Canons /\ ld \in Drafts!Stamps /\ wr \in Drafts!Stamps
  /\ \A r \in Row : cn[r].exists => cn[r].rev >= ld[r]
KeyedBy(h) == \A i \in 1 .. Len(h) : h[i].keyed \in Keying[h[i].row]
LogInv ==
  /\ LogRows(canon, Log!Ledger, Log!Written)
  /\ change = [r \in Row |-> change[r]] /\ KeyedBy(history)
  /\ Drafts!Authored(history, log, change, canon, Log!Ledger, Log!Written)

LEMMA LogRowsFit ==
  ASSUME NEW cn, NEW there \in SUBSET Row, NEW ld, NEW wr,
         cn = [r \in Row |-> IF r \in there THEN Log!Present(1, 1) ELSE Log!Absent],
         ld = [r \in Row |-> IF cn[r].exists THEN cn[r].rev ELSE 0], wr = [r \in Row |-> 0]
  PROVE  LogRows(cn, ld, wr)
<1>1. Log!Present(1, 1) \in Drafts!Rows /\ Log!Absent \in Drafts!Rows
  BY LogAssumption DEF Log!Present, Log!Absent, Drafts!Rows
<1>2. cn \in Drafts!Canons
  BY <1>1 DEF Drafts!Canons
<1>3. \A r \in Row : cn[r].rev \in Nat /\ cn[r].exists \in BOOLEAN
  BY <1>2 DEF Drafts!Canons, Drafts!Rows
<1>4. \A r \in Row : ld[r] = IF cn[r].exists THEN cn[r].rev ELSE 0
  OBVIOUS
<1>5. ld \in Drafts!Stamps /\ wr \in Drafts!Stamps
  BY <1>3 DEF Drafts!Stamps
<1>6. \A r \in Row : cn[r].exists => cn[r].rev >= ld[r]
  BY <1>3, <1>4
<1>7. QED
  BY <1>2, <1>5, <1>6 DEF LogRows

LEMMA LogInit == StorageInit => LogInv
<1>1. SUFFICES ASSUME StorageInit PROVE LogInv
  OBVIOUS
<1>2. Log!Init
  BY <1>1 DEF StorageInit
<1>3. PICK there \in SUBSET Row : canon = [r \in Row |-> IF r \in there THEN Log!Present(1, 1) ELSE Log!Absent]
  BY <1>2 DEF Log!Init
<1>4. LogRows(canon, Log!Ledger, Log!Written)
  BY <1>3, LogRowsFit DEF Log!Ledger, Log!Written
<1>5. change = [r \in Row |-> Log!NoChange] /\ change = [r \in Row |-> change[r]]
  BY <1>2 DEF Log!Init
<1>6. history = <<>> /\ log = <<>> /\ \A r \in Row : change[r] = Drafts!NoChange
  BY <1>2, <1>5 DEF Log!Init, Log!NoChange, Drafts!NoChange
<1>7. Drafts!Authored(<<>>, <<>>, change, canon, Log!Ledger, Log!Written)
  BY <1>4, <1>6, DraftsAssume, Drafts!LogBegins DEF LogRows
<1>8. KeyedBy(history)
  BY <1>6 DEF KeyedBy
<1>9. QED
  BY <1>4, <1>5, <1>7, <1>8, <1>6 DEF LogInv

\* One more command
LEMMA LogAppends ==
  ASSUME KeysAgree, LogInv, NEW op \in {"insert", "update", "delete"}, NEW k \in Row,
         NEW keyed \in Keying[k], Log!Append1(op, k, keyed)
  PROVE  LogInv'
<1>1. PICK c : c = [op |-> op, row |-> k, val |-> 2 + Len(history), keyed |-> keyed]
  OBVIOUS
<1>2. PICK h, l, ch, cn, ld, wr :
        h = history /\ l = log /\ ch = change /\ cn = canon /\ ld = Log!Ledger /\ wr = Log!Written
  OBVIOUS
<1>3. PICK to, g, m : to = change' /\ g = history' /\ m = log'
  OBVIOUS
<1>4. LogRows(cn, ld, wr) /\ KeyedBy(h) /\ Drafts!Authored(h, l, ch, cn, ld, wr)
  BY <1>2 DEF LogInv
<1>5. ch = [r \in Row |-> ch[r]]
  BY <1>2 DEF LogInv
<1>6. h \in Seq(Drafts!Command)
  BY <1>4 DEF Drafts!Authored
<1>7. c \in Drafts!Command /\ c.row = k /\ c.keyed = keyed
  <2>1. Len(h) \in Nat /\ keyed \in BOOLEAN
    BY <1>6 DEF KeysAgree
  <2>2. QED
    BY <1>1, <1>2, <2>1, LogItem
<1>8. /\ ~Log!Refused(c, ch[k], cn[k])
      /\ to = [ch EXCEPT ![k] = Log!Touched(c, ch[k], cn[k], ld[k], wr[k])]
      /\ m = Log!CompactLog(Append(l, c)) /\ g = Append(h, c) /\ canon' = cn
  BY <1>1, <1>2, <1>3 DEF Log!Append1
<1>9. Log!Ledger' = ld /\ Log!Written' = wr
  BY <1>2, <1>8 DEF Log!Ledger, Log!Written
<1>10. ~Drafts!Refused(c, ch[k], cn[k]) /\ m = Drafts!CompactLog(Append(l, c))
  BY <1>8, SameTouch, SameCompaction
<1>11. to[k] = Drafts!Touched(c, ch[k], cn[k], ld[k], wr[k]) /\ \A r \in Row \ {k} : to[r] = ch[r]
  BY <1>5, <1>8, SameTouch
<1>12. \A i \in 1 .. Len(h) : h[i].row = k => h[i].keyed = c.keyed
  BY <1>4, <1>7 DEF KeyedBy, KeysAgree
<1>13. Drafts!Authored(Append(h, c), Drafts!CompactLog(Append(l, c)), to, cn, ld, wr)
  BY <1>4, <1>7, <1>10, <1>11, <1>12, DraftsAssume, Drafts!LogGrows DEF LogRows
<1>14. KeyedBy(g)
  <2>1. Len(g) = Len(h) + 1 /\ g[Len(h) + 1] = c /\ \A i \in 1 .. Len(h) : g[i] = h[i]
    BY <1>6, <1>7, <1>8
  <2>2. Len(h) \in Nat
    BY <1>6
  <2>3. QED
    BY <1>4, <1>7, <2>1, <2>2 DEF KeyedBy
<1>15. LogRows(canon', Log!Ledger', Log!Written')
  BY <1>4, <1>8, <1>9
<1>16. KeyedBy(history')
  BY <1>3, <1>14
<1>17. Drafts!Authored(history', log', change', canon', Log!Ledger', Log!Written')
  BY <1>3, <1>8, <1>9, <1>10, <1>13
<1>18. change' = [r \in Row |-> change'[r]]
  <2>1. to = [r \in Row |-> to[r]]
    BY <1>5, <1>8
  <2>2. QED
    BY <1>3, <2>1
<1>19. QED
  BY <1>15, <1>16, <1>17, <1>18 DEF LogInv

LEMMA LogStep1 == ASSUME KeysAgree, LogInv, [StorageNext]_allVars PROVE LogInv'
<1>1. CASE LogStep
  <2>1. PICK op \in {"insert", "update", "delete"}, k \in Row : \E keyed \in Keying[k] : Log!Append1(op, k, keyed)
    BY <1>1 DEF LogStep, Log!Next
  <2>2. PICK keyed \in Keying[k] : Log!Append1(op, k, keyed)
    BY <2>1
  <2>3. QED
    BY <2>2, LogAppends
<1>2. CASE UNCHANGED logVars
  <2>1. history' = history /\ log' = log /\ change' = change /\ canon' = canon
    BY <1>2 DEF logVars
  <2>2. Log!Ledger' = Log!Ledger /\ Log!Written' = Log!Written
    BY <2>1 DEF Log!Ledger, Log!Written
  <2>3. QED
    BY <2>1, <2>2 DEF LogInv
<1>3. LogStep \/ UNCHANGED logVars
  BY DEF StorageNext, VaultStep, LockStep, OrderStep, ReadStep, allVars
<1>4. QED
  BY <1>1, <1>2, <1>3

LEMMA LogFaithful == ASSUME LogInv PROVE CompactionIsFaithful
<1>1. PICK h, l, ch, cn, ld, wr :
        h = history /\ l = log /\ ch = change /\ cn = canon /\ ld = Log!Ledger /\ wr = Log!Written
  OBVIOUS
<1>2. LogRows(cn, ld, wr) /\ Drafts!Authored(h, l, ch, cn, ld, wr)
  BY <1>1 DEF LogInv
<1>3. /\ Drafts!Replay(l, cn, ld, wr).ok /\ Drafts!ReplayMatches(ch, Drafts!Replay(l, cn, ld, wr).change)
      /\ l = Drafts!CompactLog(h) /\ Drafts!Accounted(h, l)
  BY <1>2, DraftsAssume, Drafts!LogIsFaithful DEF LogRows
<1>4. Log!CompactedReplays
  <2>1. PICK rep : rep = Drafts!Replay(l, cn, ld, wr)
    OBVIOUS
  <2>2. rep = Log!Replay(l, cn, ld, wr)
    BY <2>1, SameReplay
  <2>3. rep.ok /\ Log!ReplayMatches(ch, rep.change)
    BY <1>3, <2>1, SameMatch
  <2>4. QED
    BY <1>1, <2>2, <2>3 DEF Log!CompactedReplays
<1>5. Log!CompactionIsIncremental
  BY <1>1, <1>3, SameCompaction DEF Log!CompactionIsIncremental
<1>6. Log!DroppedForCause
  <2>1. Log!Range(l) = Drafts!Items(l)
    <3>1. h \in Seq(Drafts!Command)
      BY <1>2 DEF Drafts!Authored
    <3>2. l \in Seq(Drafts!Command)
      BY <1>3, <3>1, DraftsAssume, Drafts!CompactType
    <3>3. QED
      BY <3>2, SameItems
  <2>2. ASSUME NEW i \in 1 .. Len(h), h[i] \notin Log!Range(l)
        PROVE  /\ h[i].keyed
               /\ \E j \in 1 .. Len(h) : /\ j # i /\ Log!CreateOrDelete(h[j], h[i].row)
                                         /\ j < i => h[i].op = "delete" /\ h[j].op = "insert"
    <3>1. PICK j \in 1 .. Len(h) : h[i].keyed /\ Drafts!Caused(h, i, j)
      BY <1>3, <2>1, <2>2 DEF Drafts!Accounted
    <3>2. /\ j # i /\ Log!CreateOrDelete(h[j], h[i].row)
          /\ j < i => h[i].op = "delete" /\ h[j].op = "insert"
      BY <3>1 DEF Drafts!Caused, Log!CreateOrDelete
    <3>3. QED
      BY <3>1, <3>2
  <2>3. QED
    BY <1>1, <2>2 DEF Log!DroppedForCause
<1>7. QED
  BY <1>4, <1>5, <1>6 DEF CompactionIsFaithful

\* However long a history one author appends, the log that is compacted after
\* each command (draft-command-log.ts) replays to the row changes the history
\* left, is the history compacted once, and has lost only keyed commands that a
\* later create or delete of their row made void, given that the commands of a
\* row all have a compaction key or none has.
THEOREM CompactionLosesNothing == ASSUME KeysAgree PROVE StorageSpec => []CompactionIsFaithful
<1>1. StorageInit => LogInv
  BY LogInit
<1>2. LogInv /\ [StorageNext]_allVars => LogInv'
  BY LogStep1
<1>3. LogInv => CompactionIsFaithful
  BY LogFaithful
<1>4. QED
  BY <1>1, <1>2, <1>3, PTL DEF StorageSpec
=============================================================================
