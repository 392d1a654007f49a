------------------------- MODULE DraftLifecycleProofs -------------------------
(***************************************************************************)
(* Theorems about drafts: what compaction does to a command log of any     *)
(* length, and what a draft keeps, anchors and publishes whatever calls    *)
(* and other writers do between the statements of a call.                  *)
(***************************************************************************)
EXTENDS DraftLifecycle, SequenceTheorems, WellFoundedInduction, TLAPS

-----------------------------------------------------------------------------
(* Induction over numbers and sequences, stated of sets. *)

\* A set of numbers that is not empty has a least one.
LEMMA Least ==
  ASSUME NEW T, T \subseteq Nat, T # {}
  PROVE  \E m \in T : \A n \in T : m <= n
<1> DEFINE R == {ss \in Nat \X Nat : ss[1] < ss[2]}
<1>1. IsWellFoundedOn(R, Nat)
  BY NatLessThanWellFounded DEF OpToRel
<1> HIDE DEF R
<1>2. PICK x \in T : \A y \in T : ~ (<<y, x>> \in R)
  BY <1>1, WFMin
<1>3. \A y \in T : ~(y < x)
  BY <1>2 DEF R
<1>4. QED
  BY <1>3

LEMMA Induction ==
  ASSUME NEW T, 0 \in T, \A n \in Nat : n \in T => n + 1 \in T
  PROVE  \A n \in Nat : n \in T
<1>1. SUFFICES ASSUME {n \in Nat : n \notin T} # {} PROVE FALSE
  OBVIOUS
<1>2. PICK m \in Nat : m \notin T /\ \A n \in Nat : n \notin T => m <= n
  BY <1>1, Least
<1>3. m # 0 /\ m - 1 \in Nat /\ m - 1 \in T
  BY <1>2
<1>4. QED
  BY <1>2, <1>3

\* Induction over a sequence that grows at its end.
LEMMA SeqInduction ==
  ASSUME NEW S, NEW T, <<>> \in T, \A s \in Seq(S), e \in S : s \in T => Append(s, e) \in T
  PROVE  Seq(S) \subseteq T
<1> DEFINE N == {n \in Nat : \A s \in Seq(S) : Len(s) = n => s \in T}
<1>1. 0 \in N
  BY EmptySeq
<1>2. ASSUME NEW n \in Nat, n \in N PROVE n + 1 \in N
  <2>1. SUFFICES ASSUME NEW s \in Seq(S), Len(s) = n + 1 PROVE s \in T
    OBVIOUS
  <2>2. s # <<>>
    BY <2>1, EmptySeq
  <2>3. PICK r \in Seq(S), e \in S : s = Append(r, e)
    BY <2>2, SequenceEmptyOrAppend
  <2>4. Len(r) = n
    BY <2>1, <2>3, AppendProperties, LenProperties
  <2>5. QED
    BY <1>2, <2>3, <2>4
<1> HIDE DEF N
<1>3. \A n \in Nat : n \in N
  BY <1>1, <1>2, Induction
<1>4. QED
  BY <1>3, LenProperties DEF N

\* What a recursive function is made of: a start, and a step for each turn.
Turns(F, n, S) == F \in [1 .. n -> [S -> S]]
Iterates(g, n, S, c, F) ==
  g \in [0 .. n -> S] /\ g[0] = c /\ \A i \in 1 .. n : g[i] = F[i][g[i - 1]]

LEMMA Recursion ==
  ASSUME NEW n \in Nat, NEW S, NEW c \in S, NEW F, Turns(F, n, S)
  PROVE  \E g : Iterates(g, n, S, c, F)
<1> USE DEF Turns, Iterates
<1> DEFINE Upto(m) == \E g \in [0 .. m -> S] : g[0] = c /\ \A i \in 1 .. m : g[i] = F[i][g[i - 1]]
<1> DEFINE N == {m \in Nat : m <= n => Upto(m)}
<1>1. 0 \in N
  <2>1. PICK g : g \in [0 .. 0 -> S] /\ g[0] = c
    <3>1. [i \in 0 .. 0 |-> c] \in [0 .. 0 -> S] /\ [i \in 0 .. 0 |-> c][0] = c
      OBVIOUS
    <3>2. QED
      BY <3>1
  <2>2. \A i \in 1 .. 0 : g[i] = F[i][g[i - 1]]
    OBVIOUS
  <2> HIDE DEF N
  <2>3. Upto(0)
    BY <2>1, <2>2
  <2> USE DEF N
  <2>4. QED
    BY <2>3
<1>2. ASSUME NEW m \in Nat, m \in N PROVE m + 1 \in N
  <2>1. SUFFICES ASSUME m + 1 <= n PROVE Upto(m + 1)
    OBVIOUS
  <2>2. PICK g \in [0 .. m -> S] : g[0] = c /\ \A i \in 1 .. m : g[i] = F[i][g[i - 1]]
    BY <1>2, <2>1
  <2>3. m + 1 \in 1 .. n /\ g[m] \in S /\ F[m + 1][g[m]] \in S
    BY <2>1, <2>2
  <2> DEFINE h == [i \in 0 .. m + 1 |-> IF i = m + 1 THEN F[m + 1][g[m]] ELSE g[i]]
  <2>4. h \in [0 .. m + 1 -> S]
    BY <2>2, <2>3
  <2>5. h[m + 1] = F[m + 1][g[m]] /\ \A i \in 0 .. m : h[i] = g[i]
    OBVIOUS
  <2> HIDE DEF h
  <2>6. h[0] = c
    BY <2>2, <2>5
  <2>7. \A i \in 1 .. m + 1 : h[i] = F[i][h[i - 1]]
    <3>1. ASSUME NEW i \in 1 .. m + 1 PROVE h[i] = F[i][h[i - 1]]
      <4>1. CASE i = m + 1
        BY <2>5, <4>1
      <4>2. CASE i \in 1 .. m
        <5>1. i - 1 \in 0 .. m /\ i \in 0 .. m
          BY <4>2
        <5>2. QED
          BY <2>2, <2>5, <4>2, <5>1
      <4>3. QED
        BY <4>1, <4>2
    <3>2. QED
      BY <3>1
  <2>8. QED
    BY <2>4, <2>6, <2>7
<1> HIDE DEF N
<1>3. \A m \in Nat : m \in N
  BY <1>1, <1>2, Induction
<1>4. QED
  BY <1>3 DEF N
-----------------------------------------------------------------------------
(* log.filter *)

\* The filter takes the positions one by one.
Filters(g, s, K) ==
  /\ g[0] = <<>>
  /\ \A i \in 1 .. Len(s) : g[i] = IF i \in K THEN Append(g[i - 1], s[i]) ELSE g[i - 1]
  /\ Filtered(s, K) = g[Len(s)]

LEMMA FilterTurns ==
  ASSUME NEW S, NEW s \in Seq(S), NEW K
  PROVE  \E g : g \in [0 .. Len(s) -> Seq(S)] /\ Filters(g, s, K)
<1> DEFINE n == Len(s)
<1> DEFINE Is(g) == g = [i \in 0 .. n |->
                           IF i = 0 THEN <<>>
                           ELSE IF i \in K THEN Append(g[i - 1], s[i]) ELSE g[i - 1]]
<1>1. n \in Nat /\ \A i \in 1 .. n : s[i] \in S
  BY LenProperties, ElementOfSeq
<1>2. PICK g \in [0 .. n -> Seq(S)] :
        /\ g[0] = <<>>
        /\ \A i \in 1 .. n : g[i] = IF i \in K THEN Append(g[i - 1], s[i]) ELSE g[i - 1]
  <2> DEFINE F == [i \in 1 .. n |-> [q \in Seq(S) |-> IF i \in K THEN Append(q, s[i]) ELSE q]]
  <2>1. \A i \in 1 .. n, q \in Seq(S) : (IF i \in K THEN Append(q, s[i]) ELSE q) \in Seq(S)
    BY <1>1, AppendProperties
  <2>2. F \in [1 .. n -> [Seq(S) -> Seq(S)]]
    BY <2>1
  <2>3. \A i \in 1 .. n, q \in Seq(S) : F[i][q] = IF i \in K THEN Append(q, s[i]) ELSE q
    OBVIOUS
  <2>4. Turns(F, n, Seq(S)) /\ <<>> \in Seq(S)
    BY <2>2, EmptySeq DEF Turns
  <2> HIDE DEF F, n, Is
  <2>5. PICK g : Iterates(g, n, Seq(S), <<>>, F)
    BY <1>1, <2>4, Recursion
  <2> USE DEF Iterates
  <2>6. \A i \in 1 .. n : g[i - 1] \in Seq(S)
    BY <1>1, <2>5
  <2>7. \A i \in 1 .. n : g[i] = IF i \in K THEN Append(g[i - 1], s[i]) ELSE g[i - 1]
    BY <2>3, <2>5, <2>6
  <2>8. QED
    BY <2>5, <2>7
<1>3. Is(g)
  <2>1. g = [i \in 0 .. n |-> g[i]]
    BY <1>2
  <2>2. \A i \in 0 .. n : g[i] = IF i = 0 THEN <<>>
                                 ELSE IF i \in K THEN Append(g[i - 1], s[i]) ELSE g[i - 1]
    <3>1. \A i \in 0 .. n : i = 0 \/ i \in 1 .. n
      BY <1>1
    <3> HIDE DEF n, Is
    <3>2. QED
      BY <1>2, <3>1
  <2>3. QED
    BY <2>1, <2>2
<1> DEFINE h == CHOOSE f : Is(f)
<1>4. Filtered(s, K) = h[n]
  BY Zenon DEF Filtered
<1> HIDE DEF Is
<1>5. Is(h)
  BY <1>3, Zenon
<1> HIDE DEF h
<1>6. \A i \in 0 .. n : h[i] = IF i = 0 THEN <<>>
                               ELSE IF i \in K THEN Append(h[i - 1], s[i]) ELSE h[i - 1]
  BY <1>5 DEF Is
<1>7. DOMAIN h = 0 .. n /\ h = [i \in 0 .. n |-> h[i]]
  BY <1>5 DEF Is
<1>8. \A i \in 0 .. n : h[i] = g[i]
  <2> DEFINE N == {i \in Nat : i <= n => h[i] = g[i]}
  <2>1. 0 \in N
    BY <1>1, <1>2, <1>6
  <2>2. ASSUME NEW i \in Nat, i \in N PROVE i + 1 \in N
    <3>1. SUFFICES ASSUME i + 1 <= n PROVE h[i + 1] = g[i + 1]
      OBVIOUS
    <3>2. i + 1 \in 1 .. n /\ i + 1 \in 0 .. n /\ (i + 1) - 1 = i /\ h[i] = g[i]
      BY <1>1, <2>2, <3>1
    <3>3. QED
      BY <1>2, <1>6, <3>2
  <2> HIDE DEF N
  <2>3. \A i \in Nat : i \in N
    BY <2>1, <2>2, Induction
  <2>4. QED
    BY <1>1, <2>3 DEF N
<1>9. h[n] = g[n]
  BY <1>1, <1>8
<1>10. QED
  BY <1>2, <1>4, <1>9 DEF Filters

LEMMA FilterEmpty == ASSUME NEW K PROVE Filtered(<<>>, K) = <<>>
<1>1. <<>> \in Seq({}) /\ Len(<<>>) = 0
  BY EmptySeq
<1>2. PICK g : Filters(g, <<>>, K)
  BY <1>1, FilterTurns
<1>3. QED
  BY <1>1, <1>2 DEF Filters

LEMMA FilterType ==
  ASSUME NEW S, NEW s \in Seq(S), NEW K
  PROVE  Filtered(s, K) \in Seq(S) /\ Len(Filtered(s, K)) \in Nat
<1>1. PICK g : g \in [0 .. Len(s) -> Seq(S)] /\ Filters(g, s, K)
  BY FilterTurns
<1>2. Len(s) \in 0 .. Len(s)
  BY LenProperties
<1>3. Filtered(s, K) \in Seq(S)
  BY <1>1, <1>2 DEF Filters
<1>4. QED
  BY <1>3, LenProperties

\* The filter of one element more.
LEMMA FilterAppend ==
  ASSUME NEW S, NEW s \in Seq(S), NEW e \in S, NEW K
  PROVE  Filtered(Append(s, e), K) =
           IF Len(s) + 1 \in K THEN Append(Filtered(s, K), e) ELSE Filtered(s, K)
<1> DEFINE n == Len(s)
<1> DEFINE r == Append(s, e)
<1>1. n \in Nat /\ r \in Seq(S) /\ Len(r) = n + 1 /\ r[n + 1] = e /\ \A i \in 1 .. n : r[i] = s[i]
  BY LenProperties, AppendProperties
<1>2. PICK g : /\ g[0] = <<>>
               /\ \A i \in 1 .. n : g[i] = IF i \in K THEN Append(g[i - 1], s[i]) ELSE g[i - 1]
               /\ Filtered(s, K) = g[n]
  BY FilterTurns DEF Filters
<1> HIDE DEF r
<1>3. PICK h : /\ h[0] = <<>>
               /\ \A i \in 1 .. n + 1 : h[i] = IF i \in K THEN Append(h[i - 1], r[i]) ELSE h[i - 1]
               /\ Filtered(r, K) = h[n + 1]
  BY <1>1, FilterTurns DEF Filters
<1> HIDE DEF n
<1>4. \A i \in 0 .. n : h[i] = g[i]
  <2> DEFINE N == {i \in Nat : i <= n => h[i] = g[i]}
  <2>1. 0 \in N
    BY <1>2, <1>3
  <2>2. ASSUME NEW i \in Nat, i \in N PROVE i + 1 \in N
    <3>1. SUFFICES ASSUME i + 1 <= n PROVE h[i + 1] = g[i + 1]
      OBVIOUS
    <3>2. i + 1 \in 1 .. n /\ i + 1 \in 1 .. n + 1 /\ (i + 1) - 1 = i /\ h[i] = g[i]
      BY <1>1, <2>2, <3>1
    <3>3. QED
      BY <1>1, <1>2, <1>3, <3>2
  <2> HIDE DEF N
  <2>3. \A i \in Nat : i \in N
    BY <2>1, <2>2, Induction
  <2>4. QED
    BY <1>1, <2>3 DEF N
<1>5. h[n] = g[n] /\ n + 1 \in 1 .. n + 1 /\ (n + 1) - 1 = n
  BY <1>1, <1>4
<1>6. h[n + 1] = IF n + 1 \in K THEN Append(g[n], e) ELSE g[n]
  BY <1>1, <1>3, <1>5
<1>7. QED
  BY <1>2, <1>3, <1>6 DEF r, n

LEMMA AppendFacts ==
  ASSUME NEW S, NEW s \in Seq(S), NEW e \in S
  PROVE  /\ Append(s, e) \in Seq(S)
         /\ Len(s) \in Nat /\ Len(Append(s, e)) = Len(s) + 1
         /\ Append(s, e)[Len(s) + 1] = e
         /\ \A i \in 1 .. Len(s) : Append(s, e)[i] = s[i] /\ s[i] \in S
  BY LenProperties, AppendProperties, ElementOfSeq

\* Only the positions of the sequence matter.
LEMMA FilterSame ==
  ASSUME NEW S, NEW K, NEW L, NEW s \in Seq(S), \A i \in 1 .. Len(s) : i \in K <=> i \in L
  PROVE  Filtered(s, K) = Filtered(s, L)
<1> DEFINE T == {t \in Seq(S) : (\A i \in 1 .. Len(t) : i \in K <=> i \in L)
                                  => Filtered(t, K) = Filtered(t, L)}
<1>1. <<>> \in T
  BY EmptySeq, FilterEmpty
<1>2. ASSUME NEW t \in Seq(S), NEW e \in S, t \in T PROVE Append(t, e) \in T
  <2>1. SUFFICES ASSUME \A i \in 1 .. Len(t) + 1 : i \in K <=> i \in L
                 PROVE  Filtered(Append(t, e), K) = Filtered(Append(t, e), L)
    BY AppendFacts
  <2>2. Len(t) \in Nat
    BY AppendFacts
  <2>3. (\A i \in 1 .. Len(t) : i \in K <=> i \in L) /\ (Len(t) + 1 \in K <=> Len(t) + 1 \in L)
    BY <2>1, <2>2
  <2>4. Filtered(t, K) = Filtered(t, L)
    BY <1>2, <2>3
  <2>5. Filtered(Append(t, e), K) = IF Len(t) + 1 \in K THEN Append(Filtered(t, K), e)
                                    ELSE Filtered(t, K)
    BY FilterAppend
  <2>6. Filtered(Append(t, e), L) = IF Len(t) + 1 \in L THEN Append(Filtered(t, L), e)
                                    ELSE Filtered(t, L)
    BY FilterAppend
  <2>7. QED
    BY <2>3, <2>4, <2>5, <2>6
<1> HIDE DEF T
<1>3. Seq(S) \subseteq T
  BY <1>1, <1>2, SeqInduction
<1>4. QED
  BY <1>3 DEF T

\* All of a sequence is kept.
LEMMA FilterAll ==
  ASSUME NEW S, NEW K, NEW s \in Seq(S), 1 .. Len(s) \subseteq K
  PROVE  Filtered(s, K) = s
<1> DEFINE T == {t \in Seq(S) : 1 .. Len(t) \subseteq K => Filtered(t, K) = t}
<1>1. <<>> \in T
  BY EmptySeq, FilterEmpty
<1>2. ASSUME NEW t \in Seq(S), NEW e \in S, t \in T PROVE Append(t, e) \in T
  <2>1. SUFFICES ASSUME 1 .. Len(t) + 1 \subseteq K
                 PROVE  Filtered(Append(t, e), K) = Append(t, e)
    BY AppendFacts
  <2>2. Len(t) \in Nat
    BY AppendFacts
  <2>3. 1 .. Len(t) \subseteq K /\ Len(t) + 1 \in K
    BY <2>1, <2>2
  <2>4. Filtered(t, K) = t
    BY <1>2, <2>3
  <2>5. QED
    BY <2>3, <2>4, FilterAppend
<1> HIDE DEF T
<1>3. Seq(S) \subseteq T
  BY <1>1, <1>2, SeqInduction
<1>4. QED
  BY <1>3 DEF T

\* The elements of a sequence, and those of a set.
Items(s) == {s[i] : i \in 1 .. Len(s)}
Only(s, G) == Filtered(s, {i \in 1 .. Len(s) : s[i] \in G})

LEMMA ItemsAppend ==
  ASSUME NEW S, NEW s \in Seq(S), NEW e \in S
  PROVE  Items(Append(s, e)) = Items(s) \cup {e}
<1> DEFINE t == Append(s, e)
<1> DEFINE n == Len(s)
<1>1. n \in Nat /\ Len(t) = n + 1 /\ t[n + 1] = e /\ \A i \in 1 .. n : t[i] = s[i]
  BY AppendFacts
<1> HIDE DEF t, n
<1>2. 1 .. n + 1 = (1 .. n) \cup {n + 1}
  BY <1>1
<1>3. {t[i] : i \in 1 .. n + 1} = {t[i] : i \in 1 .. n} \cup {t[n + 1]}
  BY <1>2
<1>4. {t[i] : i \in 1 .. n} = {s[i] : i \in 1 .. n}
  BY <1>1
<1>5. Items(t) = {s[i] : i \in 1 .. n} \cup {e}
  BY <1>1, <1>3, <1>4 DEF Items
<1>6. QED
  BY <1>5 DEF Items, t, n

LEMMA OnlyAppend ==
  ASSUME NEW S, NEW s \in Seq(S), NEW e \in S, NEW G
  PROVE  Only(Append(s, e), G) = IF e \in G THEN Append(Only(s, G), e) ELSE Only(s, G)
<1> DEFINE t == Append(s, e)
<1> DEFINE n == Len(s)
<1> DEFINE K == {i \in 1 .. n : s[i] \in G}
<1> DEFINE L == {i \in 1 .. n + 1 : t[i] \in G}
<1>1. n \in Nat /\ Len(t) = n + 1 /\ t[n + 1] = e /\ \A i \in 1 .. n : t[i] = s[i]
  BY AppendFacts
<1>2. Filtered(t, L) = IF n + 1 \in L THEN Append(Filtered(s, L), e) ELSE Filtered(s, L)
  BY FilterAppend
<1> HIDE DEF t
<1>3. (n + 1 \in L <=> e \in G) /\ \A i \in 1 .. n : i \in L <=> i \in K
  BY <1>1
<1>4. Filtered(s, L) = Filtered(s, K)
  <2> HIDE DEF L, K
  <2>1. QED
    BY <1>3, FilterSame
<1>5. Only(t, G) = Filtered(t, L) /\ Only(s, G) = Filtered(s, K)
  BY <1>1 DEF Only
<1>6. Only(t, G) = IF e \in G THEN Append(Only(s, G), e) ELSE Only(s, G)
  <2> HIDE DEF L, K, n
  <2>1. QED
    BY <1>2, <1>3, <1>4, <1>5
<1>7. QED
  BY <1>6 DEF t

\* The elements of a filter are those at the positions it keeps.
LEMMA FilterItems ==
  ASSUME NEW S, NEW K, NEW s \in Seq(S)
  PROVE  Items(Filtered(s, K)) = {s[i] : i \in K \cap (1 .. Len(s))}
<1> DEFINE T == {t \in Seq(S) : Items(Filtered(t, K)) = {t[i] : i \in K \cap (1 .. Len(t))}}
<1>1. <<>> \in T
  BY EmptySeq, FilterEmpty DEF Items
<1>2. ASSUME NEW t \in Seq(S), NEW e \in S, t \in T PROVE Append(t, e) \in T
  <2> DEFINE u == Append(t, e)
  <2> DEFINE n == Len(t)
  <2>1. /\ u \in Seq(S) /\ n \in Nat /\ Len(u) = n + 1 /\ u[n + 1] = e
        /\ \A i \in 1 .. n : u[i] = t[i]
    BY AppendFacts
  <2>2. Filtered(u, K) = IF n + 1 \in K THEN Append(Filtered(t, K), e) ELSE Filtered(t, K)
    BY FilterAppend
  <2>3. Items(Filtered(t, K)) = {t[i] : i \in K \cap (1 .. n)}
    BY <1>2
  <2>4. Items(Append(Filtered(t, K), e)) = Items(Filtered(t, K)) \cup {e}
    BY FilterType, ItemsAppend
  <2> HIDE DEF u, n
  <2>5. {u[i] : i \in K \cap (1 .. n)} = {t[i] : i \in K \cap (1 .. n)}
    BY <2>1
  <2>6. CASE n + 1 \in K
    <3>1. K \cap (1 .. n + 1) = (K \cap (1 .. n)) \cup {n + 1}
      BY <2>1, <2>6
    <3>2. {u[i] : i \in K \cap (1 .. n + 1)} = {u[i] : i \in K \cap (1 .. n)} \cup {e}
      BY <2>1, <3>1
    <3>3. Items(Filtered(u, K)) = {u[i] : i \in K \cap (1 .. Len(u))}
      BY <2>1, <2>2, <2>3, <2>4, <2>5, <2>6, <3>2
    <3>4. QED
      BY <2>1, <3>3 DEF u
  <2>7. CASE n + 1 \notin K
    <3>1. K \cap (1 .. n + 1) = K \cap (1 .. n)
      BY <2>1, <2>7
    <3>2. Items(Filtered(u, K)) = {u[i] : i \in K \cap (1 .. Len(u))}
      BY <2>1, <2>2, <2>3, <2>5, <2>7, <3>1
    <3>3. QED
      BY <2>1, <3>2 DEF u
  <2>8. QED
    BY <2>6, <2>7
<1> HIDE DEF T
<1>3. Seq(S) \subseteq T
  BY <1>1, <1>2, SeqInduction
<1>4. QED
  BY <1>3 DEF T

\* A filter of a filter is one filter.
LEMMA FilterOnly ==
  ASSUME NEW S, NEW K, NEW G, NEW s \in Seq(S)
  PROVE  Only(Filtered(s, K), G) = Filtered(s, {i \in K \cap (1 .. Len(s)) : s[i] \in G})
<1> DEFINE Both(t) == {i \in K \cap (1 .. Len(t)) : t[i] \in G}
<1> DEFINE T == {t \in Seq(S) : Only(Filtered(t, K), G) = Filtered(t, Both(t))}
<1>1. <<>> \in T
  BY EmptySeq, FilterEmpty DEF Only
<1>2. ASSUME NEW t \in Seq(S), NEW e \in S, t \in T PROVE Append(t, e) \in T
  <2> DEFINE u == Append(t, e)
  <2> DEFINE n == Len(t)
  <2>1. /\ u \in Seq(S) /\ n \in Nat /\ Len(u) = n + 1 /\ u[n + 1] = e
        /\ \A i \in 1 .. n : u[i] = t[i]
    BY AppendFacts
  <2>2. Filtered(u, K) = IF n + 1 \in K THEN Append(Filtered(t, K), e) ELSE Filtered(t, K)
    BY FilterAppend
  <2>3. Only(Append(Filtered(t, K), e), G) = IF e \in G THEN Append(Only(Filtered(t, K), G), e)
                                             ELSE Only(Filtered(t, K), G)
    BY FilterType, OnlyAppend
  <2>a. \A L : Filtered(u, L) = IF n + 1 \in L THEN Append(Filtered(t, L), e) ELSE Filtered(t, L)
    <3> TAKE L
    <3> HIDE DEF T, Both
    <3>1. QED
      BY FilterAppend
  <2> HIDE DEF T, Both
  <2>4. Filtered(u, Both(u)) = IF n + 1 \in Both(u) THEN Append(Filtered(t, Both(u)), e)
                               ELSE Filtered(t, Both(u))
    BY <2>a
  <2> USE DEF T, Both
  <2>5. Only(Filtered(t, K), G) = Filtered(t, Both(t))
    BY <1>2
  <2> HIDE DEF u, T
  <2>6. /\ n + 1 \in Both(u) <=> n + 1 \in K /\ e \in G
        /\ \A i \in 1 .. n : i \in Both(u) <=> i \in Both(t)
    BY <2>1
  <2> HIDE DEF Both
  <2>7. Filtered(t, Both(u)) = Filtered(t, Both(t))
    BY <2>6, FilterSame
  <2> HIDE DEF n
  <2>8. Only(Filtered(u, K), G) = Filtered(u, Both(u))
    BY <2>2, <2>3, <2>4, <2>5, <2>6, <2>7
  <2>9. QED
    BY <2>1, <2>8 DEF T, u
<1> HIDE DEF T
<1>3. Seq(S) \subseteq T
  BY <1>1, <1>2, SeqInduction
<1>4. QED
  BY <1>3 DEF T

\* The later of two elements may follow the earlier one.
Paired(s, P) == \A j \in 1 .. Len(s) : \A i \in 1 .. j - 1 : <<s[i], s[j]>> \in P

LEMMA PairedAppend ==
  ASSUME NEW S, NEW s \in Seq(S), NEW e \in S, NEW P
  PROVE  Paired(Append(s, e), P) <=> Paired(s, P) /\ \A d \in Items(s) : <<d, e>> \in P
<1> DEFINE t == Append(s, e)
<1> DEFINE n == Len(s)
<1>1. n \in Nat /\ Len(t) = n + 1 /\ t[n + 1] = e /\ \A i \in 1 .. n : t[i] = s[i]
  BY AppendFacts
<1> HIDE DEF t, n
<1>2. ASSUME Paired(t, P) PROVE Paired(s, P) /\ \A d \in Items(s) : <<d, e>> \in P
  <2>1. ASSUME NEW j \in 1 .. n, NEW i \in 1 .. j - 1 PROVE <<s[i], s[j]>> \in P
    <3>1. j \in 1 .. n + 1 /\ i \in 1 .. n /\ t[i] = s[i] /\ t[j] = s[j]
      BY <1>1
    <3>2. <<t[i], t[j]>> \in P
      BY <1>1, <1>2, <3>1 DEF Paired
    <3>3. QED
      BY <3>1, <3>2
  <2>2. ASSUME NEW i \in 1 .. n PROVE <<s[i], e>> \in P
    <3>1. n + 1 \in 1 .. n + 1 /\ i \in 1 .. (n + 1) - 1 /\ t[i] = s[i]
      BY <1>1
    <3>2. <<t[i], t[n + 1]>> \in P
      BY <1>1, <1>2, <3>1 DEF Paired
    <3>3. QED
      BY <1>1, <3>1, <3>2
  <2>3. QED
    BY <2>1, <2>2 DEF Paired, Items, n
<1>3. ASSUME Paired(s, P), \A d \in Items(s) : <<d, e>> \in P PROVE Paired(t, P)
  <2>1. ASSUME NEW j \in 1 .. n + 1, NEW i \in 1 .. j - 1 PROVE <<t[i], t[j]>> \in P
    <3>1. CASE j = n + 1
      <4>1. i \in 1 .. n
        BY <1>1, <3>1
      <4>2. <<s[i], e>> \in P
        BY <1>3, <4>1 DEF Items, n
      <4>3. QED
        BY <1>1, <3>1, <4>1, <4>2
    <3>2. CASE j \in 1 .. n
      <4>1. i \in 1 .. n /\ t[i] = s[i] /\ t[j] = s[j]
        BY <1>1, <3>2
      <4>2. <<s[i], s[j]>> \in P
        BY <1>3, <3>2 DEF Paired, n
      <4>3. QED
        BY <4>1, <4>2
    <3>3. QED
      BY <1>1, <3>1, <3>2
  <2>2. QED
    BY <1>1, <2>1 DEF Paired
<1>4. QED
  BY <1>2, <1>3 DEF t

\* A filter pairs what the sequence pairs.
LEMMA FilterPaired ==
  ASSUME NEW S, NEW K, NEW P, NEW s \in Seq(S), Paired(s, P)
  PROVE  Paired(Filtered(s, K), P)
<1> DEFINE T == {t \in Seq(S) : Paired(t, P) => Paired(Filtered(t, K), P)}
<1>1. <<>> \in T
  BY EmptySeq, FilterEmpty
<1>2. ASSUME NEW t \in Seq(S), NEW e \in S, t \in T PROVE Append(t, e) \in T
  <2>1. SUFFICES ASSUME Paired(Append(t, e), P) PROVE Paired(Filtered(Append(t, e), K), P)
    BY AppendFacts
  <2>2. Paired(t, P) /\ \A d \in Items(t) : <<d, e>> \in P
    BY <2>1, PairedAppend
  <2>3. Paired(Filtered(t, K), P)
    BY <1>2, <2>2
  <2>4. Items(Filtered(t, K)) = {t[i] : i \in K \cap (1 .. Len(t))}
    BY FilterItems
  <2>5. \A d \in Items(Filtered(t, K)) : <<d, e>> \in P
    BY <2>2, <2>4 DEF Items
  <2>6. Paired(Append(Filtered(t, K), e), P)
    BY <2>3, <2>5, FilterType, PairedAppend
  <2>7. Filtered(Append(t, e), K) = IF Len(t) + 1 \in K THEN Append(Filtered(t, K), e)
                                    ELSE Filtered(t, K)
    BY FilterAppend
  <2> HIDE DEF T
  <2>8. QED
    BY <2>3, <2>6, <2>7
<1> HIDE DEF T
<1>3. Seq(S) \subseteq T
  BY <1>1, <1>2, SeqInduction
<1>4. QED
  BY <1>3 DEF T
-----------------------------------------------------------------------------
(* What compaction keeps *)

Maps == [create : [Row -> SUBSET Nat], updates : [Row -> SUBSET Nat], delete : [Row -> SUBSET Nat]]
NoneKept == [create |-> [k \in Row |-> {}], updates |-> [k \in Row |-> {}],
             delete |-> [k \in Row |-> {}]]

\* The maps after the whole log, and the positions it keeps
End(l) == CompactStates(l)[Len(l)]
Kept(l) == Surviving(l) \cup {i \in 1 .. Len(l) : ~l[i].keyed}

\* The positions of commands like d that the maps hold
At(state, d) == CASE d.op = "insert" -> state.create[d.row]
                  [] d.op = "update" -> state.updates[d.row]
                  [] d.op = "delete" -> state.delete[d.row]

LEMMA CommandType ==
  ASSUME NEW c \in Command
  PROVE  c.op \in {"insert", "update", "delete"} /\ c.row \in Row /\ c.val \in Nat /\ c.keyed \in BOOLEAN
  BY DEF Command

LEMMA StepType ==
  ASSUME NEW l \in Seq(Command), NEW i \in 1 .. Len(l), NEW state \in Maps
  PROVE  CompactStep(l, state, i) \in Maps
<1>1. l[i] \in Command /\ i \in Nat
  BY ElementOfSeq, LenProperties
<1>2. PICK c \in Command : c = l[i]
  BY <1>1
<1>3. /\ c.op \in {"insert", "update", "delete"} /\ c.row \in Row
      /\ state.create \in [Row -> SUBSET Nat] /\ state.updates \in [Row -> SUBSET Nat]
      /\ state.delete \in [Row -> SUBSET Nat]
  BY CommandType DEF Maps
<1>4. QED
  BY <1>1, <1>2, <1>3 DEF CompactStep, Maps

Compacts(g, l) ==
  /\ g[0] = NoneKept
  /\ \A i \in 1 .. Len(l) : g[i] = CompactStep(l, g[i - 1], i)
  /\ End(l) = g[Len(l)]

LEMMA CompactTurns ==
  ASSUME NEW l \in Seq(Command)
  PROVE  \E g : g \in [0 .. Len(l) -> Maps] /\ Compacts(g, l)
<1> DEFINE n == Len(l)
<1> DEFINE Is(g) == g = [i \in 0 .. n |-> IF i = 0 THEN NoneKept ELSE CompactStep(l, g[i - 1], i)]
<1>1. n \in Nat
  BY LenProperties
<1>2. PICK g \in [0 .. n -> Maps] : g[0] = NoneKept /\ \A i \in 1 .. n : g[i] = CompactStep(l, g[i - 1], i)
  <2> DEFINE F == [i \in 1 .. n |-> [q \in Maps |-> CompactStep(l, q, i)]]
  <2>1. \A i \in 1 .. n, q \in Maps : CompactStep(l, q, i) \in Maps
    BY StepType
  <2>2. F \in [1 .. n -> [Maps -> Maps]]
    BY <2>1
  <2>3. \A i \in 1 .. n, q \in Maps : F[i][q] = CompactStep(l, q, i)
    OBVIOUS
  <2>4. Turns(F, n, Maps)
    BY <2>2 DEF Turns
  <2>5. NoneKept \in Maps
    BY DEF NoneKept, Maps
  <2> HIDE DEF F, n, Is
  <2>6. PICK g : Iterates(g, n, Maps, NoneKept, F)
    BY <1>1, <2>4, <2>5, Recursion
  <2> USE DEF Iterates
  <2>7. \A i \in 1 .. n : g[i - 1] \in Maps
    BY <1>1, <2>6
  <2>8. \A i \in 1 .. n : g[i] = CompactStep(l, g[i - 1], i)
    BY <2>3, <2>6, <2>7
  <2>9. QED
    BY <2>6, <2>8
<1>3. Is(g)
  <2>1. g = [i \in 0 .. n |-> g[i]]
    BY <1>2
  <2>2. \A i \in 0 .. n : g[i] = IF i = 0 THEN NoneKept ELSE CompactStep(l, g[i - 1], i)
    <3>1. \A i \in 0 .. n : i = 0 \/ i \in 1 .. n
      BY <1>1
    <3> HIDE DEF n, Is
    <3>2. QED
      BY <1>2, <3>1
  <2>3. QED
    BY <2>1, <2>2
<1> DEFINE h == CHOOSE f : Is(f)
<1>4. CompactStates(l) = h
  BY Zenon DEF CompactStates, NoneKept
<1>5. End(l) = h[n]
  BY <1>4 DEF End
<1> HIDE DEF Is
<1>6. Is(h)
  BY <1>3, Zenon
<1> HIDE DEF h
<1>7. \A i \in 0 .. n : h[i] = IF i = 0 THEN NoneKept ELSE CompactStep(l, h[i - 1], i)
  BY <1>6 DEF Is
<1>8. \A i \in 0 .. n : h[i] = g[i]
  <2> DEFINE N == {i \in Nat : i <= n => h[i] = g[i]}
  <2>1. 0 \in N
    BY <1>1, <1>2, <1>7
  <2>2. ASSUME NEW i \in Nat, i \in N PROVE i + 1 \in N
    <3>1. SUFFICES ASSUME i + 1 <= n PROVE h[i + 1] = g[i + 1]
      OBVIOUS
    <3>2. i + 1 \in 1 .. n /\ i + 1 \in 0 .. n /\ (i + 1) - 1 = i /\ h[i] = g[i]
      BY <1>1, <2>2, <3>1
    <3>3. h[i + 1] = CompactStep(l, h[(i + 1) - 1], i + 1)
      BY <1>7, <3>2
    <3>4. g[i + 1] = CompactStep(l, g[(i + 1) - 1], i + 1)
      BY <1>2, <3>2
    <3>5. QED
      BY <3>2, <3>3, <3>4
  <2> HIDE DEF N
  <2>3. \A i \in Nat : i \in N
    BY <2>1, <2>2, Induction
  <2>4. QED
    BY <1>1, <2>3 DEF N
<1>9. h[n] = g[n]
  BY <1>1, <1>8
<1>10. QED
  BY <1>2, <1>5, <1>9 DEF Compacts

LEMMA EndType == ASSUME NEW l \in Seq(Command) PROVE End(l) \in Maps
<1>1. PICK g : g \in [0 .. Len(l) -> Maps] /\ Compacts(g, l)
  BY CompactTurns
<1>2. Len(l) \in 0 .. Len(l)
  BY LenProperties
<1>3. QED
  BY <1>1, <1>2 DEF Compacts

LEMMA EndEmpty == End(<<>>) = NoneKept
<1>1. <<>> \in Seq(Command) /\ Len(<<>>) = 0
  BY EmptySeq
<1>2. PICK g : Compacts(g, <<>>)
  BY <1>1, CompactTurns
<1>3. QED
  BY <1>1, <1>2 DEF Compacts

\* The loop goes on where it stopped.
LEMMA EndAppend ==
  ASSUME NEW l \in Seq(Command), NEW c \in Command
  PROVE  End(Append(l, c)) = CompactStep(Append(l, c), End(l), Len(l) + 1)
<1> DEFINE n == Len(l)
<1> DEFINE t == Append(l, c)
<1>1. t \in Seq(Command) /\ n \in Nat /\ Len(t) = n + 1 /\ \A i \in 1 .. n : t[i] = l[i]
  BY AppendFacts
<1> HIDE DEF t
<1>2. PICK g : g[0] = NoneKept /\ (\A i \in 1 .. n : g[i] = CompactStep(l, g[i - 1], i)) /\ End(l) = g[n]
  BY CompactTurns DEF Compacts
<1>3. PICK h : /\ h[0] = NoneKept
               /\ \A i \in 1 .. n + 1 : h[i] = CompactStep(t, h[i - 1], i)
               /\ End(t) = h[n + 1]
  BY <1>1, CompactTurns DEF Compacts
<1> HIDE DEF n
<1>4. ASSUME NEW i \in 1 .. n, NEW state PROVE CompactStep(t, state, i) = CompactStep(l, state, i)
  <2>1. t[i] = l[i]
    BY <1>1
  <2>2. QED
    BY <2>1, Zenon DEF CompactStep
<1>5. \A i \in 0 .. n : h[i] = g[i]
  <2> DEFINE N == {i \in Nat : i <= n => h[i] = g[i]}
  <2>1. 0 \in N
    BY <1>2, <1>3
  <2>2. ASSUME NEW i \in Nat, i \in N PROVE i + 1 \in N
    <3>1. SUFFICES ASSUME i + 1 <= n PROVE h[i + 1] = g[i + 1]
      OBVIOUS
    <3>2. i + 1 \in 1 .. n /\ i + 1 \in 1 .. n + 1 /\ (i + 1) - 1 = i /\ h[i] = g[i]
      BY <1>1, <2>2, <3>1
    <3>3. h[i + 1] = CompactStep(t, h[(i + 1) - 1], i + 1) /\ g[i + 1] = CompactStep(l, g[(i + 1) - 1], i + 1)
      BY <1>2, <1>3, <3>2
    <3>4. QED
      BY <1>4, <3>2, <3>3
  <2> HIDE DEF N
  <2>3. \A i \in Nat : i \in N
    BY <2>1, <2>2, Induction
  <2>4. QED
    BY <1>1, <2>3 DEF N
<1>6. h[n] = g[n] /\ n + 1 \in 1 .. n + 1 /\ (n + 1) - 1 = n
  BY <1>1, <1>5
<1>7. h[n + 1] = CompactStep(t, h[(n + 1) - 1], n + 1)
  BY <1>3, <1>6
<1>8. QED
  BY <1>2, <1>3, <1>6, <1>7 DEF t, n

\* One turn, map by map.
Turned(was, is, c, m) ==
  LET k == c.row
  IN /\ ~c.keyed => is = was
     /\ \A r \in Row \ {k} : /\ is.create[r] = was.create[r]
                             /\ is.updates[r] = was.updates[r]
                             /\ is.delete[r] = was.delete[r]
     /\ c.keyed /\ c.op = "insert" =>
          is.create[k] = {m} /\ is.updates[k] = {} /\ is.delete[k] = was.delete[k]
     /\ c.keyed /\ c.op = "update" =>
          /\ is.create[k] = was.create[k] /\ is.delete[k] = was.delete[k]
          /\ is.updates[k] = was.updates[k] \cup {m}
     /\ c.keyed /\ c.op = "delete" /\ was.create[k] # {} =>
          is.create[k] = {} /\ is.updates[k] = {} /\ is.delete[k] = was.delete[k]
     /\ c.keyed /\ c.op = "delete" /\ was.create[k] = {} =>
          is.create[k] = {} /\ is.updates[k] = {} /\ is.delete[k] = {m}

LEMMA EndStep ==
  ASSUME NEW l \in Seq(Command), NEW c \in Command
  PROVE  Turned(End(l), End(Append(l, c)), c, Len(l) + 1)
<1> DEFINE t == Append(l, c)
<1> DEFINE m == Len(l) + 1
<1> DEFINE k == c.row
<1>1. m \in Nat /\ t[m] = c
  BY AppendFacts
<1>2. End(t) = CompactStep(t, End(l), m)
  BY EndAppend
<1>3. PICK was \in Maps : was = End(l)
  BY EndType
<1>4. PICK is : is = End(t)
  OBVIOUS
<1> HIDE DEF t, m
<1>5. k \in Row /\ c.op \in {"insert", "update", "delete"} /\ c.keyed \in BOOLEAN
  BY CommandType
<1>6. is = CompactStep(t, was, m)
  BY <1>2, <1>3, <1>4
<1>7. was.create \in [Row -> SUBSET Nat] /\ was.updates \in [Row -> SUBSET Nat] /\ was.delete \in [Row -> SUBSET Nat]
  BY DEF Maps
<1>8. ~c.keyed => is = was
  BY <1>1, <1>6 DEF CompactStep
<1>9. ASSUME c.keyed, c.op = "insert"
      PROVE  /\ is.create[k] = {m} /\ is.updates[k] = {} /\ is.delete[k] = was.delete[k]
             /\ \A r \in Row \ {k} : /\ is.create[r] = was.create[r]
                                     /\ is.updates[r] = was.updates[r]
                                     /\ is.delete[r] = was.delete[r]
  <2>1. is = [was EXCEPT !.create[k] = {m}, !.updates[k] = {}]
    BY <1>1, <1>6, <1>9 DEF CompactStep
  <2>2. is.create = [was.create EXCEPT ![k] = {m}] /\ is.updates = [was.updates EXCEPT ![k] = {}]
        /\ is.delete = was.delete
    BY <2>1 DEF Maps
  <2>3. QED
    BY <1>5, <1>7, <2>2
<1>10. ASSUME c.keyed, c.op = "update"
      PROVE  /\ is.create[k] = was.create[k] /\ is.delete[k] = was.delete[k]
             /\ is.updates[k] = was.updates[k] \cup {m}
             /\ \A r \in Row \ {k} : /\ is.create[r] = was.create[r]
                                     /\ is.updates[r] = was.updates[r]
                                     /\ is.delete[r] = was.delete[r]
  <2>1. is = [was EXCEPT !.updates[k] = @ \cup {m}]
    BY <1>1, <1>6, <1>10 DEF CompactStep
  <2>2. is.create = was.create /\ is.updates = [was.updates EXCEPT ![k] = was.updates[k] \cup {m}]
        /\ is.delete = was.delete
    BY <2>1 DEF Maps
  <2>3. QED
    BY <1>5, <1>7, <2>2
<1>11. ASSUME c.keyed, c.op = "delete", was.create[k] # {}
      PROVE  /\ is.create[k] = {} /\ is.updates[k] = {} /\ is.delete[k] = was.delete[k]
             /\ \A r \in Row \ {k} : /\ is.create[r] = was.create[r]
                                     /\ is.updates[r] = was.updates[r]
                                     /\ is.delete[r] = was.delete[r]
  <2>1. is = [was EXCEPT !.create[k] = {}, !.updates[k] = {}]
    BY <1>1, <1>6, <1>11 DEF CompactStep
  <2>2. is.create = [was.create EXCEPT ![k] = {}] /\ is.updates = [was.updates EXCEPT ![k] = {}]
        /\ is.delete = was.delete
    BY <2>1 DEF Maps
  <2>3. QED
    BY <1>5, <1>7, <2>2
<1>12. ASSUME c.keyed, c.op = "delete", was.create[k] = {}
      PROVE  /\ is.create[k] = {} /\ is.updates[k] = {} /\ is.delete[k] = {m}
             /\ \A r \in Row \ {k} : /\ is.create[r] = was.create[r]
                                     /\ is.updates[r] = was.updates[r]
                                     /\ is.delete[r] = was.delete[r]
  <2>1. is = [was EXCEPT !.updates[k] = {}, !.delete[k] = {m}]
    BY <1>1, <1>6, <1>12 DEF CompactStep
  <2>2. is.create = was.create /\ is.updates = [was.updates EXCEPT ![k] = {}]
        /\ is.delete = [was.delete EXCEPT ![k] = {m}]
    BY <2>1 DEF Maps
  <2>3. QED
    BY <1>5, <1>7, <1>12, <2>2
<1>13. \A r \in Row \ {k} : /\ is.create[r] = was.create[r]
                            /\ is.updates[r] = was.updates[r]
                            /\ is.delete[r] = was.delete[r]
  BY <1>5, <1>8, <1>9, <1>10, <1>11, <1>12
<1>14. Turned(was, is, c, m)
  BY <1>8, <1>9, <1>10, <1>11, <1>12, <1>13 DEF Turned
<1>15. QED
  BY <1>3, <1>4, <1>14 DEF t, m

\* The maps hold positions of the commands they are for.
Placed(l) ==
  \A k \in Row :
    /\ End(l).create[k] \subseteq {i \in 1 .. Len(l) : l[i].keyed /\ l[i].row = k /\ l[i].op = "insert"}
    /\ End(l).updates[k] \subseteq {i \in 1 .. Len(l) : l[i].keyed /\ l[i].row = k /\ l[i].op = "update"}
    /\ End(l).delete[k] \subseteq {i \in 1 .. Len(l) : l[i].keyed /\ l[i].row = k /\ l[i].op = "delete"}

LEMMA LogsArePlaced == ASSUME NEW l \in Seq(Command) PROVE Placed(l)
<1> DEFINE T == {s \in Seq(Command) : Placed(s)}
<1>1. <<>> \in T
  BY EmptySeq, EndEmpty DEF Placed, NoneKept
<1>2. ASSUME NEW s \in Seq(Command), NEW c \in Command, s \in T PROVE Append(s, c) \in T
  <2> DEFINE t == Append(s, c)
  <2> DEFINE n == Len(s)
  <2>1. t \in Seq(Command) /\ n \in Nat /\ Len(t) = n + 1 /\ t[n + 1] = c /\ \A i \in 1 .. n : t[i] = s[i]
    BY AppendFacts
  <2>2. PICK was : was = End(s)
    OBVIOUS
  <2>3. PICK is : is = End(t)
    OBVIOUS
  <2>4. c.op \in {"insert", "update", "delete"} /\ c.row \in Row /\ c.keyed \in BOOLEAN
    BY CommandType
  <2>5. Turned(was, is, c, n + 1)
    BY <2>2, <2>3, EndStep
  <2>6. \A k \in Row :
          /\ \A i \in was.create[k] : i \in 1 .. n /\ s[i].keyed /\ s[i].row = k /\ s[i].op = "insert"
          /\ \A i \in was.updates[k] : i \in 1 .. n /\ s[i].keyed /\ s[i].row = k /\ s[i].op = "update"
          /\ \A i \in was.delete[k] : i \in 1 .. n /\ s[i].keyed /\ s[i].row = k /\ s[i].op = "delete"
    BY <1>2, <2>2 DEF Placed
  <2> HIDE DEF t, n
  <2>7. ASSUME NEW k \in Row
        PROVE  /\ \A i \in is.create[k] : i \in 1 .. n + 1 /\ t[i].keyed /\ t[i].row = k /\ t[i].op = "insert"
               /\ \A i \in is.updates[k] : i \in 1 .. n + 1 /\ t[i].keyed /\ t[i].row = k /\ t[i].op = "update"
               /\ \A i \in is.delete[k] : i \in 1 .. n + 1 /\ t[i].keyed /\ t[i].row = k /\ t[i].op = "delete"
    <3>1. \A i \in 1 .. n : i \in 1 .. n + 1 /\ t[i] = s[i]
      BY <2>1
    <3>2. CASE k # c.row \/ ~c.keyed
      BY <2>4, <2>5, <2>6, <3>1, <3>2 DEF Turned
    <3>3. CASE k = c.row /\ c.keyed
      <4>1. n + 1 \in 1 .. n + 1
        BY <2>1
      <4>2. is.create[k] \subseteq was.create[k] \/ (c.op = "insert" /\ is.create[k] = {n + 1})
        BY <2>4, <2>5, <3>3 DEF Turned
      <4>3. is.updates[k] \subseteq was.updates[k] \/
              (c.op = "update" /\ is.updates[k] = was.updates[k] \cup {n + 1})
        BY <2>4, <2>5, <3>3 DEF Turned
      <4>4. is.delete[k] = was.delete[k] \/ (c.op = "delete" /\ is.delete[k] = {n + 1})
        BY <2>4, <2>5, <3>3 DEF Turned
      <4>5. \A i \in is.create[k] : i \in 1 .. n + 1 /\ t[i].keyed /\ t[i].row = k /\ t[i].op = "insert"
        BY <2>1, <2>6, <3>1, <3>3, <4>1, <4>2
      <4>6. \A i \in is.updates[k] : i \in 1 .. n + 1 /\ t[i].keyed /\ t[i].row = k /\ t[i].op = "update"
        BY <2>1, <2>6, <3>1, <3>3, <4>1, <4>3
      <4>7. \A i \in is.delete[k] : i \in 1 .. n + 1 /\ t[i].keyed /\ t[i].row = k /\ t[i].op = "delete"
        BY <2>1, <2>6, <3>1, <3>3, <4>1, <4>4
      <4>8. QED
        BY <4>5, <4>6, <4>7
    <3>4. QED
      BY <3>2, <3>3
  <2>8. Len(t) = n + 1 /\ End(t) = is
    BY <2>1, <2>3
  <2>9. Placed(t)
    <3>1. ASSUME NEW k \in Row
          PROVE  is.create[k] \subseteq {i \in 1 .. n + 1 : t[i].keyed /\ t[i].row = k /\ t[i].op = "insert"}
      BY <2>7
    <3>2. ASSUME NEW k \in Row
          PROVE  is.updates[k] \subseteq {i \in 1 .. n + 1 : t[i].keyed /\ t[i].row = k /\ t[i].op = "update"}
      BY <2>7
    <3>3. ASSUME NEW k \in Row
          PROVE  is.delete[k] \subseteq {i \in 1 .. n + 1 : t[i].keyed /\ t[i].row = k /\ t[i].op = "delete"}
      BY <2>7
    <3>4. QED
      BY <2>8, <3>1, <3>2, <3>3 DEF Placed
  <2>10. QED
    BY <2>1, <2>9 DEF t
<1> HIDE DEF T
<1>3. Seq(Command) \subseteq T
  BY <1>1, <1>2, SeqInduction
<1>4. QED
  BY <1>3 DEF T

\* A position is kept if the map of its command holds it.
LEMMA KeptAt ==
  ASSUME NEW l \in Seq(Command)
  PROVE  \A i : i \in Kept(l) <=> i \in 1 .. Len(l) /\ (l[i].keyed => i \in At(End(l), l[i]))
<1>1. PICK state : state = End(l)
  OBVIOUS
<1>2. \A k \in Row :
        /\ \A i \in state.create[k] : i \in 1 .. Len(l) /\ l[i].keyed /\ l[i].row = k /\ l[i].op = "insert"
        /\ \A i \in state.updates[k] : i \in 1 .. Len(l) /\ l[i].keyed /\ l[i].row = k /\ l[i].op = "update"
        /\ \A i \in state.delete[k] : i \in 1 .. Len(l) /\ l[i].keyed /\ l[i].row = k /\ l[i].op = "delete"
  BY <1>1, LogsArePlaced DEF Placed
<1>3. \A i : i \in Surviving(l) <=> \E k \in Row : i \in state.create[k] \cup state.updates[k] \cup state.delete[k]
  BY <1>1 DEF Surviving, End
<1>4. \A i \in 1 .. Len(l) : l[i].op \in {"insert", "update", "delete"} /\ l[i].row \in Row /\ l[i].keyed \in BOOLEAN
  BY ElementOfSeq, CommandType
<1>5. \A i : i \in Kept(l) <=> i \in Surviving(l) \/ (i \in 1 .. Len(l) /\ ~l[i].keyed)
  BY DEF Kept
<1>6. \A i \in Surviving(l) : i \in 1 .. Len(l) /\ i \in At(state, l[i])
  BY <1>2, <1>3 DEF At
<1>7. \A i \in 1 .. Len(l) : l[i].keyed /\ i \in At(state, l[i]) => i \in Surviving(l)
  BY <1>3, <1>4 DEF At
<1>8. QED
  BY <1>1, <1>4, <1>5, <1>6, <1>7

\* The rows a command's insert is among, and the elements a command drops.
Has(s, c) == \E d \in Items(s) : d.keyed /\ d.row = c.row /\ d.op = "insert"
Drops(c, has) ==
  {d \in Command : /\ c.keyed /\ d.keyed /\ d.row = c.row
                   /\ \/ c.op = "insert" /\ d.op # "delete"
                      \/ c.op = "delete" /\ (has => d.op # "delete")}
Cancels(c, has) == c.keyed /\ c.op = "delete" /\ has
OneMore(s, c) ==
  LET left == Only(s, Command \ Drops(c, Has(s, c)))
  IN IF Cancels(c, Has(s, c)) THEN left ELSE Append(left, c)

LEMMA CompactIsKept == ASSUME NEW l PROVE CompactLog(l) = Filtered(l, Kept(l))
  BY DEF CompactLog, Kept

LEMMA CompactType ==
  ASSUME NEW l \in Seq(Command)
  PROVE  CompactLog(l) \in Seq(Command)
  BY CompactIsKept, FilterType

LEMMA HasCreate ==
  ASSUME NEW l \in Seq(Command), NEW c \in Command
  PROVE  Has(CompactLog(l), c) <=> End(l).create[c.row] # {}
<1>1. c.row \in Row
  BY CommandType
<1>2. Items(CompactLog(l)) = {l[i] : i \in Kept(l) \cap (1 .. Len(l))}
  BY CompactIsKept, FilterItems
<1>3. Has(CompactLog(l), c) <=> \E i \in Kept(l) \cap (1 .. Len(l)) :
                                   l[i].keyed /\ l[i].row = c.row /\ l[i].op = "insert"
  BY <1>2 DEF Has
<1>4. \A i : i \in Kept(l) <=> i \in 1 .. Len(l) /\ (l[i].keyed => i \in At(End(l), l[i]))
  BY KeptAt
<1>5. \A i \in End(l).create[c.row] : i \in 1 .. Len(l) /\ l[i].keyed /\ l[i].row = c.row /\ l[i].op = "insert"
  BY <1>1, LogsArePlaced DEF Placed
<1>6. ASSUME NEW i \in Kept(l), l[i].keyed, l[i].row = c.row, l[i].op = "insert"
      PROVE  i \in End(l).create[c.row]
  BY <1>4, <1>6 DEF At
<1>7. ASSUME NEW i \in End(l).create[c.row] PROVE i \in Kept(l)
  BY <1>4, <1>5 DEF At
<1>8. QED
  BY <1>3, <1>5, <1>6, <1>7

\* One turn, position by position.
LEMMA KeptStep ==
  ASSUME NEW l \in Seq(Command), NEW c \in Command,
         NEW has, has = Has(CompactLog(l), c)
  PROVE  /\ \A i \in 1 .. Len(l) : i \in Kept(Append(l, c)) <=> i \in Kept(l) /\ l[i] \notin Drops(c, has)
         /\ Len(l) + 1 \in Kept(Append(l, c)) <=> ~Cancels(c, has)
<1> DEFINE t == Append(l, c)
<1> DEFINE n == Len(l)
<1>1. t \in Seq(Command) /\ n \in Nat /\ Len(t) = n + 1 /\ t[n + 1] = c /\ \A i \in 1 .. n : t[i] = l[i]
  BY AppendFacts
<1>2. PICK was : was = End(l)
  OBVIOUS
<1>3. PICK is : is = End(t)
  OBVIOUS
<1>4. c.op \in {"insert", "update", "delete"} /\ c.row \in Row /\ c.keyed \in BOOLEAN
  BY CommandType
<1>5. Turned(was, is, c, n + 1)
  BY <1>2, <1>3, EndStep
<1>6. \A i : i \in Kept(l) <=> i \in 1 .. n /\ (l[i].keyed => i \in At(was, l[i]))
  BY <1>2, KeptAt
<1>7. \A i : i \in Kept(t) <=> i \in 1 .. Len(t) /\ (t[i].keyed => i \in At(is, t[i]))
  BY <1>1, <1>3, KeptAt
<1>8. has <=> was.create[c.row] # {}
  BY <1>2, HasCreate
<1>9. \A k \in Row :
        /\ \A i \in was.create[k] : i \in 1 .. n
        /\ \A i \in was.updates[k] : i \in 1 .. n
        /\ \A i \in was.delete[k] : i \in 1 .. n
  BY <1>2, LogsArePlaced DEF Placed
<1> HIDE DEF t
<1>10. ASSUME NEW i \in 1 .. n
       PROVE  i \in Kept(t) <=> i \in Kept(l) /\ l[i] \notin Drops(c, has)
  <2>1. PICK d \in Command : d = l[i]
    BY ElementOfSeq
  <2>2. d.op \in {"insert", "update", "delete"} /\ d.row \in Row /\ d.keyed \in BOOLEAN
    BY CommandType
  <2>3. i \in Kept(t) <=> (d.keyed => i \in At(is, d))
    BY <1>1, <1>7, <2>1
  <2>4. i \in Kept(l) <=> (d.keyed => i \in At(was, d))
    BY <1>6, <2>1
  <2>5. d \in Drops(c, has) <=> /\ c.keyed /\ d.keyed /\ d.row = c.row
                                /\ \/ c.op = "insert" /\ d.op # "delete"
                                   \/ c.op = "delete" /\ (has => d.op # "delete")
    BY DEF Drops
  <2>6. i # n + 1
    BY <1>1
  <2> HIDE DEF n
  <2>7. (d.keyed => i \in At(is, d)) <=> (d.keyed => i \in At(was, d)) /\ d \notin Drops(c, has)
    <3>1. CASE ~d.keyed
      BY <2>5, <3>1
    <3>2. CASE d.keyed /\ (d.row # c.row \/ ~c.keyed)
      <4>1. At(is, d) = At(was, d)
        BY <1>5, <2>2, <3>2 DEF Turned, At
      <4>2. QED
        BY <2>5, <3>2, <4>1
    <3>3. CASE d.keyed /\ d.row = c.row /\ c.keyed /\ d.op = "insert"
      BY <1>4, <1>5, <1>8, <2>2, <2>5, <2>6, <3>3 DEF Turned, At
    <3>4. CASE d.keyed /\ d.row = c.row /\ c.keyed /\ d.op = "update"
      BY <1>4, <1>5, <1>8, <2>2, <2>5, <2>6, <3>4 DEF Turned, At
    <3>5. CASE d.keyed /\ d.row = c.row /\ c.keyed /\ d.op = "delete"
      BY <1>4, <1>5, <1>8, <2>2, <2>5, <2>6, <3>5 DEF Turned, At
    <3>6. QED
      BY <2>2, <3>1, <3>2, <3>3, <3>4, <3>5
  <2>8. QED
    BY <2>1, <2>3, <2>4, <2>7
<1>11. n + 1 \in Kept(t) <=> ~Cancels(c, has)
  <2>1. n + 1 \in 1 .. n + 1
    BY <1>1
  <2>2. n + 1 \in Kept(t) <=> (c.keyed => n + 1 \in At(is, c))
    BY <1>1, <1>7, <2>1
  <2>3. n + 1 \notin was.delete[c.row]
    BY <1>1, <1>4, <1>9
  <2>4. CASE ~c.keyed
    BY <2>2, <2>4 DEF Cancels
  <2>5. CASE c.keyed /\ c.op # "delete"
    BY <1>4, <1>5, <2>2, <2>5 DEF Turned, At, Cancels
  <2>6. CASE c.keyed /\ c.op = "delete"
    BY <1>4, <1>5, <1>8, <2>2, <2>3, <2>6 DEF Turned, At, Cancels
  <2>7. QED
    BY <1>4, <2>4, <2>5, <2>6
<1>12. QED
  BY <1>10, <1>11 DEF t

\* What one command more does to a compacted log is read off the compacted log.
LEMMA CompactAppend ==
  ASSUME NEW l \in Seq(Command), NEW c \in Command
  PROVE  CompactLog(Append(l, c)) = OneMore(CompactLog(l), c)
<1> DEFINE has == Has(CompactLog(l), c)
<1> DEFINE t == Append(l, c)
<1> DEFINE n == Len(l)
<1> DEFINE G == Command \ Drops(c, has)
<1>1. has \in BOOLEAN
  BY DEF Has
<1>2. /\ \A i \in 1 .. n : i \in Kept(t) <=> i \in Kept(l) /\ l[i] \notin Drops(c, has)
      /\ n + 1 \in Kept(t) <=> ~Cancels(c, has)
  <2> HIDE DEF has
  <2>1. PICK b : b = has
    OBVIOUS
  <2>2. /\ \A i \in 1 .. n : i \in Kept(t) <=> i \in Kept(l) /\ l[i] \notin Drops(c, b)
        /\ n + 1 \in Kept(t) <=> ~Cancels(c, b)
    BY <2>1, KeptStep DEF has
  <2>3. QED
    BY <2>1, <2>2
<1> HIDE DEF has
<1>3. CompactLog(t) = IF n + 1 \in Kept(t) THEN Append(Filtered(l, Kept(t)), c) ELSE Filtered(l, Kept(t))
  BY CompactIsKept, FilterAppend
<1>4. Filtered(l, Kept(t)) = Filtered(l, {i \in Kept(l) \cap (1 .. n) : l[i] \in G})
  <2>1. \A i \in 1 .. n : l[i] \in Command
    BY ElementOfSeq
  <2> DEFINE K == Kept(t)
  <2> DEFINE L == {i \in Kept(l) \cap (1 .. n) : l[i] \in G}
  <2>2. \A i \in 1 .. n : i \in K <=> i \in L
    BY <1>2, <2>1
  <2> HIDE DEF K, L
  <2>3. Filtered(l, K) = Filtered(l, L)
    BY <2>2, FilterSame
  <2>4. QED
    BY <2>3 DEF K, L
<1>5. Only(CompactLog(l), G) = Filtered(l, {i \in Kept(l) \cap (1 .. n) : l[i] \in G})
  <2> HIDE DEF G
  <2>1. Only(Filtered(l, Kept(l)), G) = Filtered(l, {i \in Kept(l) \cap (1 .. n) : l[i] \in G})
    BY FilterOnly
  <2>2. QED
    BY <2>1, CompactIsKept
<1>6. CompactLog(t) = IF Cancels(c, has) THEN Only(CompactLog(l), G) ELSE Append(Only(CompactLog(l), G), c)
  <2> HIDE DEF G, t, n
  <2>1. QED
    BY <1>2, <1>3, <1>4, <1>5
<1>7. QED
  BY <1>6 DEF OneMore, has

\* In a compacted log a row's delete comes before its insert, and both before its
\* updates; a row is deleted and inserted once.
InOrder == {<<"delete", "insert">>, <<"delete", "update">>, <<"insert", "update">>,
            <<"update", "update">>}
Pairs == {pair \in Command \X Command :
            pair[1].keyed /\ pair[2].keyed /\ pair[1].row = pair[2].row
              => <<pair[1].op, pair[2].op>> \in InOrder}

LEMMA OnlyItems ==
  ASSUME NEW S, NEW G, NEW s \in Seq(S)
  PROVE  \A d \in Items(Only(s, G)) : d \in Items(s) /\ d \in G
<1> DEFINE K == {i \in 1 .. Len(s) : s[i] \in G}
<1>1. Items(Filtered(s, K)) = {s[i] : i \in K \cap (1 .. Len(s))}
  BY FilterItems
<1>2. QED
  BY <1>1 DEF Only, Items

LEMMA ItemsType ==
  ASSUME NEW S, NEW s \in Seq(S)
  PROVE  Items(s) \subseteq S
  BY ElementOfSeq DEF Items

LEMMA OneMorePaired ==
  ASSUME NEW s \in Seq(Command), NEW c \in Command, Paired(s, Pairs)
  PROVE  Paired(OneMore(s, c), Pairs)
<1> DEFINE G == Command \ Drops(c, Has(s, c))
<1> DEFINE left == Only(s, G)
<1>1. left \in Seq(Command)
  BY FilterType DEF Only
<1>2. Paired(left, Pairs)
  BY FilterPaired DEF Only
<1>3. \A d \in Items(left) : d \in Items(s) /\ d \in G
  BY OnlyItems
<1>4. CASE Cancels(c, Has(s, c))
  BY <1>2, <1>4 DEF OneMore
<1>5. CASE ~Cancels(c, Has(s, c))
  <2>1. ASSUME NEW d \in Items(left) PROVE <<d, c>> \in Pairs
    <3>1. d \in Items(s) /\ d \in Command /\ d \notin Drops(c, Has(s, c))
      BY <1>3
    <3>2. /\ d.op \in {"insert", "update", "delete"} /\ d.keyed \in BOOLEAN
          /\ c.op \in {"insert", "update", "delete"} /\ c.keyed \in BOOLEAN
      BY <3>1, CommandType
    <3>3. <<d, c>> \in Command \X Command /\ <<d, c>>[1] = d /\ <<d, c>>[2] = c
      BY <3>1
    <3>4. ASSUME d.keyed, c.keyed, d.row = c.row PROVE <<d.op, c.op>> \in InOrder
      <4>1. ~(c.op = "insert" /\ d.op # "delete") /\ ~(c.op = "delete" /\ (Has(s, c) => d.op # "delete"))
        BY <3>1, <3>4 DEF Drops
      <4>2. ~(c.op = "delete" /\ Has(s, c))
        BY <1>5, <3>4 DEF Cancels
      <4>3. QED
        BY <3>2, <4>1, <4>2 DEF InOrder
    <3>5. QED
      BY <3>3, <3>4 DEF Pairs
  <2> HIDE DEF left
  <2>2. Paired(Append(left, c), Pairs)
    BY <1>1, <1>2, <2>1, PairedAppend
  <2>3. QED
    BY <1>5, <2>2 DEF OneMore, left
<1>6. QED
  BY <1>4, <1>5

LEMMA OneMoreKeeps ==
  ASSUME NEW s \in Seq(Command), NEW c \in Command, \A d \in Items(s) : <<d, c>> \in Pairs
  PROVE  OneMore(s, c) = Append(s, c)
<1>1. ASSUME NEW d \in Items(s)
      PROVE  d \in Command /\ (d.keyed /\ c.keyed /\ d.row = c.row => <<d.op, c.op>> \in InOrder)
  <2>1. d \in Command /\ <<d, c>> \in Pairs
    BY ItemsType
  <2>2. <<d, c>>[1] = d /\ <<d, c>>[2] = c
    OBVIOUS
  <2>3. QED
    BY <2>1, <2>2 DEF Pairs
<1>2. \A d \in Items(s) : d.keyed /\ c.keyed /\ d.row = c.row =>
         c.op # "delete" /\ (c.op = "insert" => d.op = "delete")
  BY <1>1 DEF InOrder
<1>3. ~Cancels(c, Has(s, c))
  BY <1>2 DEF Cancels, Has
<1>4. \A d \in Items(s) : d \in Command \ Drops(c, Has(s, c))
  BY <1>1, <1>2 DEF Drops
<1>5. Only(s, Command \ Drops(c, Has(s, c))) = s
  <2> DEFINE K == {i \in 1 .. Len(s) : s[i] \in Command \ Drops(c, Has(s, c))}
  <2>1. 1 .. Len(s) \subseteq K
    BY <1>4 DEF Items
  <2> HIDE DEF K
  <2>2. Filtered(s, K) = s
    BY <2>1, FilterAll
  <2>3. QED
    BY <2>2 DEF Only, K
<1>6. QED
  BY <1>3, <1>5 DEF OneMore

LEMMA CompactEmpty == CompactLog(<<>>) = <<>>
  BY CompactIsKept, FilterEmpty

LEMMA CompactPaired == \A l \in Seq(Command) : Paired(CompactLog(l), Pairs)
<1> DEFINE T == {s \in Seq(Command) : Paired(CompactLog(s), Pairs)}
<1>1. <<>> \in T
  BY EmptySeq, CompactEmpty DEF Paired
<1>2. ASSUME NEW s \in Seq(Command), NEW c \in Command, s \in T PROVE Append(s, c) \in T
  <2>1. CompactLog(s) \in Seq(Command) /\ Paired(CompactLog(s), Pairs)
    BY <1>2, CompactType
  <2>2. Paired(OneMore(CompactLog(s), c), Pairs)
    BY <2>1, OneMorePaired
  <2>3. Paired(CompactLog(Append(s, c)), Pairs)
    BY <2>2, CompactAppend
  <2>4. QED
    BY <2>3, AppendFacts
<1> HIDE DEF T
<1>3. Seq(Command) \subseteq T
  BY <1>1, <1>2, SeqInduction
<1>4. QED
  BY <1>3 DEF T

LEMMA PairedIsCompact == \A l \in Seq(Command) : Paired(l, Pairs) => CompactLog(l) = l
<1> DEFINE T == {s \in Seq(Command) : Paired(s, Pairs) => CompactLog(s) = s}
<1>1. <<>> \in T
  BY EmptySeq, CompactEmpty
<1>2. ASSUME NEW s \in Seq(Command), NEW c \in Command, s \in T PROVE Append(s, c) \in T
  <2>1. SUFFICES ASSUME Paired(Append(s, c), Pairs) PROVE CompactLog(Append(s, c)) = Append(s, c)
    BY AppendFacts
  <2>2. Paired(s, Pairs) /\ \A d \in Items(s) : <<d, c>> \in Pairs
    BY <2>1, PairedAppend
  <2>3. CompactLog(s) = s
    BY <1>2, <2>2
  <2>4. OneMore(s, c) = Append(s, c)
    BY <2>2, OneMoreKeeps
  <2>5. CompactLog(Append(s, c)) = OneMore(CompactLog(s), c)
    BY CompactAppend
  <2> HIDE DEF T
  <2>6. QED
    BY <2>3, <2>4, <2>5
<1> HIDE DEF T
<1>3. Seq(Command) \subseteq T
  BY <1>1, <1>2, SeqInduction
<1>4. QED
  BY <1>3 DEF T

\* Compacting a log twice is compacting it once.
THEOREM CompactionSettles == \A l \in Seq(Command) : CompactLog(CompactLog(l)) = CompactLog(l)
  BY CompactPaired, CompactType, PairedIsCompact

LEMMA ConcatAppend ==
  ASSUME NEW S, NEW s \in Seq(S), NEW t \in Seq(S), NEW e \in S
  PROVE  s \o Append(t, e) = Append(s \o t, e)
<1>1. <<e>> \in Seq(S) /\ s \o t \in Seq(S)
  BY ConcatProperties
<1>2. Append(t, e) = t \o <<e>> /\ Append(s \o t, e) = (s \o t) \o <<e>>
  BY <1>1, AppendIsConcat
<1>3. (s \o t) \o <<e>> = s \o (t \o <<e>>)
  BY <1>1, ConcatAssociative
<1>4. QED
  BY <1>2, <1>3

\* The log an append rewrites is as good as the whole history: what the commands
\* before the last compaction were makes no difference to what the ones after it
\* leave.
THEOREM CompactionForgets ==
  \A a, b \in Seq(Command) : CompactLog(CompactLog(a) \o b) = CompactLog(a \o b)
<1> SUFFICES ASSUME NEW a \in Seq(Command)
             PROVE  \A b \in Seq(Command) : CompactLog(CompactLog(a) \o b) = CompactLog(a \o b)
  OBVIOUS
<1> DEFINE k == CompactLog(a)
<1> DEFINE T == {s \in Seq(Command) : CompactLog(k \o s) = CompactLog(a \o s)}
<1>1. k \in Seq(Command) /\ CompactLog(k) = k
  BY CompactType, CompactionSettles
<1> HIDE DEF k
<1>2. <<>> \in T
  <2>1. k \o <<>> = k /\ a \o <<>> = a
    BY <1>1, ConcatEmptySeq
  <2>2. QED
    BY <1>1, <2>1, EmptySeq DEF k
<1>3. ASSUME NEW s \in Seq(Command), NEW c \in Command, s \in T PROVE Append(s, c) \in T
  <2>1. k \o s \in Seq(Command) /\ a \o s \in Seq(Command)
    BY <1>1, ConcatProperties
  <2>2. k \o Append(s, c) = Append(k \o s, c) /\ a \o Append(s, c) = Append(a \o s, c)
    BY <1>1, ConcatAppend
  <2>3. /\ CompactLog(Append(k \o s, c)) = OneMore(CompactLog(k \o s), c)
        /\ CompactLog(Append(a \o s, c)) = OneMore(CompactLog(a \o s), c)
    BY <2>1, CompactAppend
  <2>4. CompactLog(k \o s) = CompactLog(a \o s)
    BY <1>3
  <2>5. CompactLog(k \o Append(s, c)) = CompactLog(a \o Append(s, c))
    BY <2>2, <2>3, <2>4
  <2>6. QED
    BY <2>5, AppendFacts
<1> HIDE DEF T
<1>4. Seq(Command) \subseteq T
  BY <1>2, <1>3, SeqInduction
<1>5. QED
  BY <1>4 DEF T, k
-----------------------------------------------------------------------------
(* The inductive invariant *)

Rows == [exists : BOOLEAN, rev : Nat, val : Nat]
Anchors == [baseExists : BOOLEAN, baseRev : Nat, original : Nat, seen : Nat]
Writings == [op : {"insert", "update", "delete"}, rev : Nat, val : Nat, anchor : Anchors]
Changes == Writings \cup {NoChange}

\* What the variables TypeOK leaves open hold, and that no one has read a
\* revision of the future
Shapes ==
  /\ canon \in [Row -> Rows]
  /\ change \in [Row -> Changes] /\ buffer \in [Process -> [Row -> Changes]]
  /\ log \in Seq(Command) /\ acked \in Seq(Command)
  /\ batch \in [Process -> Seq(Command)] /\ mine \in [Process -> Seq(Command)]
  /\ todo \in [Process -> Seq(Command)]
  /\ snap \in [Process -> Nat] /\ probed \in [Process -> Nat]
  /\ \A p \in Process : snap[p] <= rev

\* A row's revision, or the last one it had: no write takes it back.
Stamp(r) == IF canon[r].exists THEN canon[r].rev ELSE ledger[r]

\* The row is what the anchor saw, or its stamp tells that it is not.  A delete
\* keeps the stamp, and can only be followed by an insert.
Anchored(r, anchor) ==
  \/ /\ anchor.seen = written[r]
     /\ anchor.baseExists = canon[r].exists
     /\ anchor.baseRev = Stamp(r)
     /\ anchor.original = canon[r].val
  \/ Stamp(r) > anchor.baseRev
  \/ anchor.baseExists /\ ~canon[r].exists /\ Stamp(r) >= anchor.baseRev

AllAnchored(changes) ==
  \A r \in Row : changes[r] # NoChange => Anchored(r, changes[r].anchor)

\* The ledger is never ahead of a row that is there.
Stamped == \A r \in Row : canon[r].exists => canon[r].rev >= ledger[r]

\* The draft a transaction has read is the one it will write to.
Current(p) == draft = "open" /\ rev = snap[p]

\* What a call knows of the draft while the draft's revision is the one it read:
\* an append has its log, a discard holds its changes, and a publication has
\* locked the rows it changes, compared them, and applies its changes.
Knows(p) ==
  /\ pc[p] = "append.run" /\ Current(p) => mine[p] = log
  /\ pc[p] = "discard.commit" /\ Current(p) => \A r \in Changed : hold[r] = p
  /\ pc[p] = "publish.commit" /\ Current(p) => buffer[p] = change
  /\ Revisioned /\ pc[p] \in {"publish.replay", "publish.apply", "publish.commit"} /\ Current(p) =>
       \A r \in Changed : lock[r] = p /\ ~RowConflict(change[r], canon[r], ledger[r])

Tracked ==
  Revisioned /\ draft = "open" =>
    Stamped /\ AllAnchored(change) /\ \A p \in Process : AllAnchored(buffer[p])

IInv == TypeOK /\ Shapes /\ (\A p \in Process : Knows(p)) /\ Tracked /\ AppendsKept
-----------------------------------------------------------------------------
(* Types *)

Located ==
  /\ lock \in [Row -> Process \cup {None}] /\ hold \in [Row -> Process \cup {None}]
  /\ publisher \in Process \cup {None}
  /\ pc \in [Process -> Steps]
  /\ \A r \in Row :
       {lock[r], hold[r], publisher} \subseteq {p \in Process : pc[p] \in InTx} \cup {None}

Data ==
  /\ draft \in {"open", "published", "discarded"}
  /\ rev \in Nat /\ base \in Nat /\ version \in Nat
  /\ ledger \in [Row -> Nat] /\ written \in [Row -> Nat]
  /\ tries \in [Process -> 1..TxAttempts] /\ attempts \in [Process -> 1..AppendAttempts]
  /\ Shapes

LEMMA TypesAre == TypeOK /\ Shapes <=> Located /\ Data
  BY DEF TypeOK, Located, Data

LEMMA InTxSteps == InTx \subseteq Steps
  BY DEF InTx, Steps

\* A call that ends or starts again gives its locks back.
LEMMA MoveOut ==
  ASSUME Located, NEW p \in Process, NEW to \in Steps, Goto(p, to), Release(p)
  PROVE  Located'
<1>1. pc' \in [Process -> Steps] /\ \A q \in Process \ {p} : pc'[q] = pc[q]
  BY DEF Located, Goto
<1>2. /\ lock' \in [Row -> Process \cup {None}] /\ hold' \in [Row -> Process \cup {None}]
      /\ publisher' \in Process \cup {None} /\ publisher' # p
      /\ publisher' = publisher \/ publisher' = None
      /\ \A r \in Row : /\ lock'[r] # p /\ (lock'[r] = lock[r] \/ lock'[r] = None)
                        /\ hold'[r] # p /\ (hold'[r] = hold[r] \/ hold'[r] = None)
  BY NoneAssumption DEF Located, Release
<1>3. ASSUME NEW r \in Row
      PROVE  {lock'[r], hold'[r], publisher'} \subseteq {q \in Process : pc'[q] \in InTx} \cup {None}
  <2>1. ASSUME NEW x, x # p, x \in {q \in Process : pc[q] \in InTx} \cup {None}
        PROVE  x \in {q \in Process : pc'[q] \in InTx} \cup {None}
    BY <1>1, <2>1
  <2>2. {lock[r], hold[r], publisher} \subseteq {q \in Process : pc[q] \in InTx} \cup {None}
    BY DEF Located
  <2>3. QED
    BY <1>2, <2>1, <2>2
<1>4. QED
  BY <1>1, <1>2, <1>3 DEF Located

\* A transaction takes locks for itself.
LEMMA MoveOn ==
  ASSUME Located, NEW p \in Process, NEW to \in InTx, Goto(p, to),
         lock' \in [Row -> Process \cup {None}], \A r \in Row : lock'[r] \in {lock[r], p},
         hold' \in [Row -> Process \cup {None}], \A r \in Row : hold'[r] \in {hold[r], p},
         publisher' \in {publisher, p}
  PROVE  Located'
<1>1. /\ pc' \in [Process -> Steps] /\ pc'[p] \in InTx
      /\ \A q \in Process \ {p} : pc'[q] = pc[q]
  BY InTxSteps DEF Located, Goto
<1>2. ASSUME NEW r \in Row
      PROVE  {lock'[r], hold'[r], publisher'} \subseteq {q \in Process : pc'[q] \in InTx} \cup {None}
  <2>1. ASSUME NEW x \in {q \in Process : pc[q] \in InTx} \cup {None, p}
        PROVE  x \in {q \in Process : pc'[q] \in InTx} \cup {None}
    BY <1>1
  <2>2. {lock[r], hold[r], publisher} \subseteq {q \in Process : pc[q] \in InTx} \cup {None}
    BY DEF Located
  <2>3. lock'[r] \in {lock[r], p} /\ hold'[r] \in {hold[r], p}
    OBVIOUS
  <2>4. QED
    BY <2>1, <2>2, <2>3
<1>3. publisher' \in Process \cup {None}
  BY DEF Located
<1>4. QED
  BY <1>1, <1>2, <1>3 DEF Located

LEMMA MoveBefore ==
  ASSUME Located, NEW p \in Process, NEW to \in Steps, Goto(p, to), pc[p] \notin InTx,
         UNCHANGED lockVars
  PROVE  Located'
<1>1. pc' \in [Process -> Steps] /\ \A q \in Process \ {p} : pc'[q] = pc[q]
  BY DEF Located, Goto
<1>2. lock' = lock /\ hold' = hold /\ publisher' = publisher
  BY DEF lockVars
<1>3. \A q \in Process : pc[q] \in InTx => pc'[q] \in InTx
  BY <1>1
<1>4. \A r \in Row :
        {lock'[r], hold'[r], publisher'} \subseteq {q \in Process : pc'[q] \in InTx} \cup {None}
  BY <1>2, <1>3 DEF Located
<1>5. QED
  BY <1>1, <1>2, <1>4 DEF Located

-----------------------------------------------------------------------------
(* Types of the operators *)

LEMMA PresentType == ASSUME NEW a \in Nat, NEW v \in Nat PROVE Present(a, v) \in Rows
  BY RevisionedAssumption DEF Present, Rows

LEMMA RowType ==
  ASSUME NEW row \in Rows
  PROVE  row.exists \in BOOLEAN /\ row.rev \in Nat /\ row.val \in Nat
  BY DEF Rows

LEMMA ChangeType ==
  ASSUME NEW ch \in Changes, ch # NoChange
  PROVE  /\ ch.op \in {"insert", "update", "delete"} /\ ch.rev \in Nat /\ ch.val \in Nat
         /\ ch.anchor \in Anchors
         /\ ch.anchor.baseExists \in BOOLEAN /\ ch.anchor.baseRev \in Nat
         /\ ch.anchor.original \in Nat /\ ch.anchor.seen \in Nat
  BY DEF Changes, Writings, Anchors

LEMMA EffectiveType ==
  ASSUME NEW ch \in Changes, NEW row \in Rows
  PROVE  Effective(ch, row) \in Rows
<1>1. CASE ch = NoChange
  BY <1>1 DEF Effective, NoChange
<1>2. CASE ch # NoChange /\ ch.op = "delete"
  BY <1>2 DEF Effective, Absent, Rows
<1>3. CASE ch # NoChange /\ ch.op # "delete"
  BY <1>3, ChangeType, PresentType DEF Effective
<1>4. QED
  BY <1>1, <1>2, <1>3

LEMMA AnchorType ==
  ASSUME NEW row \in Rows, NEW led \in Nat, NEW seen \in Nat
  PROVE  Anchor(row, led, seen) \in Anchors
<1>1. row.exists \in BOOLEAN /\ row.rev \in Nat /\ row.val \in Nat
  BY RowType
<1>2. (IF ~Revisioned THEN 0 ELSE IF row.exists THEN row.rev ELSE led) \in Nat
  BY <1>1, RevisionedAssumption
<1>3. QED
  BY <1>1, <1>2 DEF Anchor, Anchors

\* A command's write: it keeps the change's anchor, or anchors the row.
LEMMA TouchedFacts ==
  ASSUME NEW c \in Command, NEW ch \in Changes, NEW row \in Rows, NEW led \in Nat, NEW seen \in Nat
  PROVE  LET to == Touched(c, ch, row, led, seen)
         IN /\ to \in Changes
            /\ ch # NoChange => to.anchor = ch.anchor
            /\ ch = NoChange => to = NoChange \/ to.anchor = Anchor(row, led, seen)
<1> DEFINE before == Effective(ch, row)
<1>1. before.rev \in Nat /\ before.val \in Nat
  BY EffectiveType, RowType
<1>2. c.op \in {"insert", "update", "delete"} /\ c.val \in Nat
  BY CommandType
<1>3. row.exists \in BOOLEAN /\ row.rev \in Nat
  BY RowType
<1> HIDE DEF before
<1>4. PICK n : n = IF ~Revisioned THEN 0
                   ELSE CASE c.op = "insert" -> 1 + IF row.exists THEN row.rev ELSE led
                          [] c.op = "update" -> before.rev + 1
                          [] c.op = "delete" -> before.rev
  OBVIOUS
<1>5. n \in Nat
  <2>1. CASE ~Revisioned
    BY <1>4, <2>1
  <2>2. CASE Revisioned /\ c.op = "insert"
    BY <1>3, <1>4, <2>2
  <2>3. CASE Revisioned /\ c.op = "update"
    BY <1>1, <1>4, <2>3
  <2>4. CASE Revisioned /\ c.op = "delete"
    BY <1>1, <1>4, <2>4
  <2>5. QED
    BY <1>2, <2>1, <2>2, <2>3, <2>4, RevisionedAssumption
<1>6. PICK w : w = WriteDraftRow(ch, row, led, seen, c.op, c.val)
  OBVIOUS
<1>7. w = [op     |-> IF ch # NoChange /\ ch.op = "insert" /\ c.op = "update" THEN "insert" ELSE c.op,
           rev    |-> n,
           val    |-> IF c.op = "delete" THEN before.val ELSE c.val,
           anchor |-> IF ch = NoChange THEN Anchor(row, led, seen) ELSE ch.anchor]
  BY <1>4, <1>6 DEF WriteDraftRow, before
<1>8. (IF ch = NoChange THEN Anchor(row, led, seen) ELSE ch.anchor) \in Anchors
  BY AnchorType, ChangeType
<1>9. (IF c.op = "delete" THEN before.val ELSE c.val) \in Nat
  BY <1>1, <1>2
<1>10. (IF ch # NoChange /\ ch.op = "insert" /\ c.op = "update" THEN "insert" ELSE c.op)
         \in {"insert", "update", "delete"}
  BY <1>2
<1>11. w \in Writings /\ w.anchor = IF ch = NoChange THEN Anchor(row, led, seen) ELSE ch.anchor
  BY <1>5, <1>7, <1>8, <1>9, <1>10 DEF Writings
<1>12. PICK to : to = Touched(c, ch, row, led, seen)
  OBVIOUS
<1>13. to = w \/ to = ch
  BY <1>6, <1>12 DEF Touched
<1>14. /\ to \in Changes
       /\ ch # NoChange => to.anchor = ch.anchor
       /\ ch = NoChange => to = NoChange \/ to.anchor = Anchor(row, led, seen)
  BY <1>11, <1>13 DEF Changes
<1>15. QED
  BY <1>12, <1>14

LEMMA ResolutionsType == log \in Seq(Command) => Resolutions \subseteq Seq(Command)
<1> SUFFICES ASSUME log \in Seq(Command) PROVE Resolutions \subseteq Seq(Command)
  OBVIOUS
<1>1. Len(log) \in Nat /\ \A i \in 1 .. Len(log) : log[i] \in Command
  BY LenProperties, ElementOfSeq
<1>2. \A i \in 1 .. Len(log) : [log[i] EXCEPT !.val = Resolved] \in Command
  BY <1>1, ResolvedAssumption DEF Command
<1>3. [i \in 1 .. Len(log) |-> [log[i] EXCEPT !.val = Resolved]] \in Seq(Command)
  BY <1>1, <1>2, IsASeq
<1>4. QED
  BY <1>3 DEF Resolutions

LEMMA NoChangesType == NoChanges \in [Row -> Changes]
  BY DEF NoChanges, Changes

LEMMA SeesType ==
  ASSUME Shapes, NEW p \in Process, NEW r \in Row
  PROVE  Sees(p, r) \in Changes
  BY DEF Shapes, Sees

LEMMA AppliedType ==
  ASSUME NEW ch \in Changes, ch # NoChange, NEW row \in Rows, NEW led \in Nat
  PROVE  AppliedRow(ch) \in Rows /\ AppliedLedger(ch, row, led) \in Nat /\ Deleted(row, led) \in Nat
<1>1. ch.op \in {"insert", "update", "delete"} /\ ch.rev \in Nat /\ ch.val \in Nat
  BY ChangeType
<1>2. AppliedRow(ch) \in Rows
  <2>1. CASE ch.op = "delete"
    BY <2>1 DEF AppliedRow, Absent, Rows
  <2>2. CASE ch.op # "delete"
    BY <1>1, <2>2, PresentType DEF AppliedRow
  <2>3. QED
    BY <2>1, <2>2
<1>3. Deleted(row, led) \in Nat
  BY RowType DEF Deleted, Larger
<1>4. AppliedLedger(ch, row, led) \in Nat
  BY <1>1, <1>3, RevisionedAssumption DEF AppliedLedger, Inserted
<1>5. QED
  BY <1>2, <1>3, <1>4
-----------------------------------------------------------------------------
(* Every step keeps the types. *)

LEMMA DataOf ==
  ASSUME Data
  PROVE  /\ rev \in Nat /\ version \in Nat /\ base \in Nat
         /\ \A r \in Row : /\ canon[r] \in Rows /\ ledger[r] \in Nat /\ written[r] \in Nat
                           /\ change[r] \in Changes
         /\ \A p \in Process : /\ batch[p] \in Seq(Command) /\ mine[p] \in Seq(Command)
                               /\ todo[p] \in Seq(Command) /\ buffer[p] \in [Row -> Changes]
                               /\ snap[p] \in Nat /\ snap[p] <= rev
  BY DEF Data, Shapes

\* A commit that advances the revision
LEMMA AdvanceTypes ==
  ASSUME Data, rev' = rev + 1,
         base' \in Nat, log' \in Seq(Command), acked' \in Seq(Command), change' \in [Row -> Changes],
         UNCHANGED <<draft, canon, ledger, version, written>>,
         UNCHANGED <<snap, batch, mine, todo, buffer, tries, attempts, probed>>
  PROVE  Data'
<1>1. rev' \in Nat /\ \A p \in Process : snap'[p] <= rev'
  BY DataOf
<1>2. /\ draft' = draft /\ canon' = canon /\ ledger' = ledger /\ version' = version /\ written' = written
      /\ snap' = snap /\ batch' = batch /\ mine' = mine /\ todo' = todo /\ buffer' = buffer
      /\ tries' = tries /\ attempts' = attempts /\ probed' = probed
  OBVIOUS
<1>3. Shapes'
  BY <1>1, <1>2 DEF Data, Shapes
<1>4. QED
  BY <1>1, <1>2, <1>3 DEF Data

LEMMA HeadType ==
  ASSUME NEW s \in Seq(Command), s # <<>>
  PROVE  Head(s) \in Command /\ Head(s).row \in Row /\ Tail(s) \in Seq(Command)
  BY HeadTailProperties, CommandType

LEMMA FailTypes ==
  ASSUME Located, Data, NEW p \in Process, Fail(p)
  PROVE  Located' /\ Data'
<1>1. "failed" \in Steps
  BY DEF Steps
<1>2. Located'
  BY <1>1, MoveOut DEF Fail
<1>3. Data'
  BY DEF Data, Shapes, Fail, draftVars, canonVars, tryVars
<1>4. QED
  BY <1>2, <1>3

\* A step that leaves the locks as they are
LEMMA StepLocated ==
  ASSUME Located, NEW p \in Process, NEW to \in Steps, Step(p, to), UNCHANGED <<lock, hold>>,
         pc[p] \notin InTx \/ to \in InTx
  PROVE  Located'
<1>1. Goto(p, to) /\ publisher' = publisher /\ lock' = lock /\ hold' = hold
  BY DEF Step
<1>2. CASE to \in InTx
  BY <1>1, <1>2, MoveOn DEF Located
<1>3. CASE pc[p] \notin InTx
  BY <1>1, <1>3, MoveBefore DEF lockVars
<1>4. QED
  BY <1>2, <1>3

LEMMA RunTypes ==
  ASSUME Located, Data, NEW p \in Process, pc[p] \in InTx, RunCommand(p)
  PROVE  Located' /\ Data'
<1> DEFINE c == Head(todo[p])
<1> DEFINE r == c.row
<1>1. c \in Command /\ r \in Row /\ Tail(todo[p]) \in Seq(Command)
  BY DataOf, HeadType DEF RunCommand
<1>2. CASE Refused(c, Sees(p, r), canon[r])
  <2>1. Fail(p)
    BY <1>2 DEF RunCommand
  <2>2. QED
    BY <2>1, FailTypes
<1>3. CASE ~Refused(c, Sees(p, r), canon[r])
  <2>1. Step(p, pc[p]) /\ todo' = [todo EXCEPT ![p] = Tail(@)] /\ UNCHANGED <<snap, mine, probed>>
    BY <1>3 DEF RunCommand
  <2>2. \/ lock' = [lock EXCEPT ![r] = p] /\ hold' = [hold EXCEPT ![r] = p]
        \/ lock' = lock /\ hold' = hold
    BY <1>3 DEF RunCommand
  <2>3. \/ buffer' = buffer
        \/ buffer' = [buffer EXCEPT ![p][r] = Touched(c, Sees(p, r), canon[r], ledger[r], written[r])]
    BY <1>3 DEF RunCommand
  <2>4. Touched(c, Sees(p, r), canon[r], ledger[r], written[r]) \in Changes
    <3>1. Sees(p, r) \in Changes /\ canon[r] \in Rows /\ ledger[r] \in Nat /\ written[r] \in Nat
      BY <1>1, SeesType, DataOf DEF Data
    <3> HIDE DEF c, r
    <3>2. QED
      BY <1>1, <3>1, TouchedFacts
  <2> HIDE DEF c, r
  <2>5. buffer' \in [Process -> [Row -> Changes]]
    <3>1. buffer \in [Process -> [Row -> Changes]] /\ buffer[p] \in [Row -> Changes]
      BY DEF Data, Shapes
    <3>2. PICK v \in Changes : buffer' = buffer \/ buffer' = [buffer EXCEPT ![p][r] = v]
      BY <2>3, <2>4
    <3>3. [buffer EXCEPT ![p] = [buffer[p] EXCEPT ![r] = v]] \in [Process -> [Row -> Changes]]
      BY <3>1
    <3>4. QED
      BY <3>1, <3>2, <3>3
  <2>6. todo' \in [Process -> Seq(Command)]
    BY <1>1, <2>1 DEF Data, Shapes, c
  <2>7. Data'
    BY <2>1, <2>5, <2>6 DEF Data, Shapes, Step, draftVars, canonVars, tryVars
  <2>8. Located'
    <3>1. Goto(p, pc[p]) /\ publisher' = publisher
      BY <2>1 DEF Step
    <3>2. /\ lock' \in [Row -> Process \cup {None}] /\ \A k \in Row : lock'[k] \in {lock[k], p}
          /\ hold' \in [Row -> Process \cup {None}] /\ \A k \in Row : hold'[k] \in {hold[k], p}
      BY <1>1, <2>2 DEF Located
    <3>3. QED
      BY <3>1, <3>2, MoveOn
  <2>9. QED
    BY <2>7, <2>8
<1>4. QED
  BY <1>2, <1>3

LEMMA AppendTypes ==
  ASSUME Located, Data, NEW p \in Process,
         StartAppend(p) \/ AppendBegin(p) \/ AppendRead(p) \/ AppendRun(p) \/ AppendCommit(p)
  PROVE  Located' /\ Data'
<1> USE DEF Ready, Call
<1>1. CASE StartAppend(p)
  <2>1. Located'
    <3>1. pc[p] \notin InTx /\ "append.begin" \in Steps
      BY <1>1 DEF StartAppend, InTx, Steps
    <3>2. QED
      BY <1>1, <3>1, MoveBefore DEF StartAppend
  <2>2. Data'
    BY <1>1, BatchesAssumption DEF StartAppend, Data, Shapes, draftVars, canonVars, tryVars
  <2>3. QED
    BY <2>1, <2>2
<1>2. CASE AppendBegin(p)
  <2>1. CASE draft # "open"
    BY <1>2, <2>1, FailTypes DEF AppendBegin
  <2>2. CASE draft = "open"
    <3>1. Step(p, "append.read") /\ snap' = [snap EXCEPT ![p] = rev]
          /\ UNCHANGED <<lock, hold, mine, todo, buffer, probed>>
      BY <1>2, <2>2 DEF AppendBegin
    <3>2. "append.read" \in InTx
      BY DEF InTx
    <3>3. Located'
      BY <3>1, <3>2, StepLocated, InTxSteps
    <3>4. Data'
      BY <3>1 DEF Step, Data, Shapes, draftVars, canonVars, tryVars
    <3>5. QED
      BY <3>3, <3>4
  <2>3. QED
    BY <2>1, <2>2
<1>3. CASE AppendRead(p)
  <2>1. "append.run" \in InTx
    BY DEF InTx
  <2>2. Located'
    BY <1>3, <2>1, StepLocated, InTxSteps DEF AppendRead
  <2>3. Data'
    BY <1>3, NoChangesType DEF AppendRead, Step, Data, Shapes, draftVars, canonVars, tryVars
  <2>4. QED
    BY <2>2, <2>3
<1>4. CASE AppendRun(p)
  <2>1. pc[p] \in InTx
    BY <1>4 DEF AppendRun, InTx
  <2>2. QED
    BY <1>4, <2>1, RunTypes DEF AppendRun
<1>5. CASE AppendCommit(p)
  <2>1. CASE Fail(p)
    BY <2>1, FailTypes
  <2>2. CASE AppendWrites(p)
    <3>1. "done" \in Steps
      BY DEF Steps
    <3>2. Located'
      BY <2>2, <3>1, MoveOut DEF AppendWrites, Commit
    <3>3. mine[p] \o batch[p] \in Seq(Command) /\ acked \o batch[p] \in Seq(Command)
      BY ConcatProperties DEF Data, Shapes
    <3>4. log' \in Seq(Command) /\ acked' \in Seq(Command)
      BY <2>2, <3>3, CompactType DEF AppendWrites
    <3>5. change' \in [Row -> Changes]
      BY <2>2, SeesType DEF AppendWrites, Data
    <3>6. /\ rev' = rev + 1
          /\ UNCHANGED <<draft, base, canonVars, snap, batch, mine, todo, buffer, tryVars, probed>>
      BY <2>2 DEF AppendWrites
    <3>7. Data'
      BY <3>4, <3>5, <3>6, AdvanceTypes DEF Data, canonVars, tryVars
    <3>8. QED
      BY <3>2, <3>7
  <2>3. CASE ~Fail(p) /\ ~AppendWrites(p)
    <3>1. /\ attempts[p] # AppendAttempts
          /\ Release(p) /\ Goto(p, "append.begin")
          /\ attempts' = [attempts EXCEPT ![p] = @ + 1] /\ tries' = [tries EXCEPT ![p] = 1]
          /\ UNCHANGED <<draftVars, canonVars, snap, batch, mine, todo, buffer, probed, acked>>
      BY <1>5, <2>3 DEF AppendCommit
    <3>2. "append.begin" \in Steps
      BY DEF Steps
    <3>3. Located'
      BY <3>1, <3>2, MoveOut
    <3>4. tries' \in [Process -> 1..TxAttempts] /\ attempts' \in [Process -> 1..AppendAttempts]
      BY <3>1, AttemptsAssumption DEF Data
    <3>5. Data'
      BY <3>1, <3>4 DEF Data, Shapes, draftVars, canonVars
    <3>6. QED
      BY <3>3, <3>5
  <2>4. QED
    BY <2>1, <2>2, <2>3
<1>6. QED
  BY <1>1, <1>2, <1>3, <1>4, <1>5

LEMMA TakesLocks ==
  ASSUME Located, NEW p \in Process, NEW rows
  PROVE  LET l == [r \in Row |-> IF r \in rows THEN p ELSE lock[r]]
             h == [r \in Row |-> IF r \in rows THEN p ELSE hold[r]]
         IN /\ l \in [Row -> Process \cup {None}] /\ h \in [Row -> Process \cup {None}]
            /\ \A r \in Row : l[r] \in {lock[r], p} /\ h[r] \in {hold[r], p}
  BY DEF Located

LEMMA PublishTypes ==
  ASSUME Located, Data, NEW p \in Process,
         \/ StartPublish(p) \/ PublishLog(p) \/ PublishBegin(p) \/ PublishCheck(p)
         \/ PublishReplay(p) \/ PublishApply(p) \/ PublishCommit(p)
  PROVE  Located' /\ Data'
<1> USE DEF Ready, Call
<1>1. CASE Fail(p)
  BY <1>1, FailTypes
<1>2. CASE StartPublish(p)
  <2>1. pc[p] \notin InTx /\ "publish.log" \in Steps
    BY <1>2 DEF StartPublish, InTx, Steps
  <2>2. Located'
    BY <1>2, <2>1, MoveBefore DEF StartPublish
  <2>3. Data'
    BY <1>2 DEF StartPublish, Data, Shapes, draftVars, canonVars, tryVars
  <2>4. QED
    BY <2>2, <2>3
<1>3. CASE PublishLog(p)
  <2>1. pc[p] \notin InTx /\ "publish.begin" \in Steps
    BY <1>3 DEF PublishLog, InTx, Steps
  <2>2. Located'
    BY <1>3, <2>1, StepLocated DEF PublishLog
  <2>3. mine' \in [Process -> Seq(Command)]
    BY <1>3, ResolutionsType DEF PublishLog, Data, Shapes
  <2>4. Data'
    BY <1>3, <2>3 DEF PublishLog, Step, Data, Shapes, draftVars, canonVars, tryVars
  <2>5. QED
    BY <2>2, <2>4
<1>4. CASE PublishBegin(p) /\ ~Fail(p)
  <2>1. /\ Goto(p, "publish.check") /\ publisher' = p
        /\ UNCHANGED <<draftVars, canonVars, lock, hold, snap, batch, mine, todo, buffer,
                       tryVars, probed, acked>>
    BY <1>4 DEF PublishBegin
  <2>2. "publish.check" \in InTx
    BY DEF InTx
  <2>3. Located'
    BY <2>1, <2>2, MoveOn DEF Located
  <2>4. Data'
    BY <2>1 DEF Data, Shapes, draftVars, canonVars, tryVars
  <2>5. QED
    BY <2>3, <2>4
<1>5. CASE PublishCheck(p) /\ ~Fail(p)
  <2>1. PICK rows : \/ /\ Step(p, "publish.check")
                       /\ lock' = [r \in Row |-> IF r \in rows THEN p ELSE lock[r]]
                    \/ Step(p, "publish.replay") /\ lock' = lock
    BY <1>5 DEF PublishCheck
  <2>2. UNCHANGED <<hold, snap, mine, todo, buffer, probed>>
    BY <1>5 DEF PublishCheck
  <2>3. "publish.check" \in InTx /\ "publish.replay" \in InTx
    BY DEF InTx
  <2>4. Located'
    <3>1. /\ lock' \in [Row -> Process \cup {None}] /\ \A r \in Row : lock'[r] \in {lock[r], p}
          /\ hold' \in [Row -> Process \cup {None}] /\ \A r \in Row : hold'[r] \in {hold[r], p}
          /\ publisher' = publisher
      BY <2>1, <2>2, TakesLocks DEF Step, Located
    <3>2. Goto(p, "publish.check") \/ Goto(p, "publish.replay")
      BY <2>1 DEF Step
    <3>3. QED
      BY <2>3, <3>1, <3>2, MoveOn
  <2>5. Data'
    BY <2>1, <2>2 DEF Step, Data, Shapes, draftVars, canonVars, tryVars
  <2>6. QED
    BY <2>4, <2>5
<1>6. CASE PublishReplay(p) /\ ~Fail(p)
  <2>1. Step(p, "publish.apply") /\ UNCHANGED <<lock, hold, snap, mine, todo, buffer, probed>>
    BY <1>6 DEF PublishReplay
  <2>2. "publish.apply" \in InTx
    BY DEF InTx
  <2>3. Located'
    BY <2>1, <2>2, StepLocated, InTxSteps
  <2>4. Data'
    BY <2>1 DEF Step, Data, Shapes, draftVars, canonVars, tryVars
  <2>5. QED
    BY <2>3, <2>4
<1>7. CASE PublishApply(p) /\ ~Fail(p)
  <2>1. /\ Step(p, "publish.commit") /\ buffer' = [buffer EXCEPT ![p] = change]
        /\ lock' = [r \in Row |-> IF Reviewed(change[r]) THEN p ELSE lock[r]]
        /\ UNCHANGED <<hold, snap, mine, todo, probed>>
    BY <1>7 DEF PublishApply
  <2>2. "publish.commit" \in InTx
    BY DEF InTx
  <2>3. Located'
    <3>1. /\ lock' \in [Row -> Process \cup {None}] /\ \A r \in Row : lock'[r] \in {lock[r], p}
          /\ hold' \in [Row -> Process \cup {None}] /\ \A r \in Row : hold'[r] \in {hold[r], p}
          /\ publisher' = publisher
      BY <2>1 DEF Step, Located
    <3>2. QED
      BY <2>1, <2>2, <3>1, MoveOn DEF Step
  <2>4. Data'
    BY <2>1 DEF Step, Data, Shapes, draftVars, canonVars, tryVars
  <2>5. QED
    BY <2>3, <2>4
<1>8. CASE PublishCommit(p) /\ ~Fail(p)
  <2>1. PublishWrites(p)
    BY <1>8 DEF PublishCommit
  <2>2. Located'
    <3>1. "done" \in Steps
      BY DEF Steps
    <3>2. QED
      BY <2>1, <3>1, MoveOut DEF PublishWrites, Commit
  <2>3. \A r \in Row : Reviewed(buffer[p][r]) =>
          AppliedRow(buffer[p][r]) \in Rows /\ AppliedLedger(buffer[p][r], canon[r], ledger[r]) \in Nat
    <3>1. ASSUME NEW r \in Row, Reviewed(buffer[p][r])
          PROVE  AppliedRow(buffer[p][r]) \in Rows /\ AppliedLedger(buffer[p][r], canon[r], ledger[r]) \in Nat
      <4>1. buffer[p][r] \in Changes /\ buffer[p][r] # NoChange /\ canon[r] \in Rows /\ ledger[r] \in Nat
        BY <3>1, DataOf DEF Reviewed
      <4>2. QED
        BY <4>1, AppliedType
    <3>2. QED
      BY <3>1
  <2>4. canon' \in [Row -> Rows]
    BY <2>1, <2>3, DataOf DEF PublishWrites
  <2>5. ledger' \in [Row -> Nat] /\ written' \in [Row -> Nat] /\ version' \in Nat
    BY <2>1, <2>3, DataOf DEF PublishWrites
  <2>6. log' \in Seq(Command) /\ change' \in [Row -> Changes]
    BY <2>1, EmptySeq, NoChangesType DEF PublishWrites
  <2>7. Data'
    BY <2>1, <2>4, <2>5, <2>6 DEF PublishWrites, Data, Shapes, tryVars
  <2>8. QED
    BY <2>2, <2>7
<1>9. QED
  BY <1>1, <1>2, <1>3, <1>4, <1>5, <1>6, <1>7, <1>8

LEMMA DiscardTypes ==
  ASSUME Located, Data, NEW p \in Process,
         StartDiscard(p) \/ DiscardBegin(p) \/ DiscardClear(p) \/ DiscardCommit(p)
  PROVE  Located' /\ Data'
<1> USE DEF Ready, Call
<1>1. CASE Fail(p)
  BY <1>1, FailTypes
<1>2. CASE StartDiscard(p)
  <2>1. pc[p] \notin InTx /\ "discard.begin" \in Steps
    BY <1>2 DEF StartDiscard, InTx, Steps
  <2>2. Located'
    BY <1>2, <2>1, MoveBefore DEF StartDiscard
  <2>3. Data'
    BY <1>2 DEF StartDiscard, Data, Shapes, draftVars, canonVars, tryVars
  <2>4. QED
    BY <2>2, <2>3
<1>3. CASE DiscardBegin(p) /\ ~Fail(p)
  <2>1. Step(p, "discard.clear") /\ UNCHANGED <<lock, hold, snap, mine, todo, buffer, probed>>
    BY <1>3 DEF DiscardBegin
  <2>2. "discard.clear" \in InTx
    BY DEF InTx
  <2>3. Located'
    BY <2>1, <2>2, StepLocated, InTxSteps
  <2>4. Data'
    BY <2>1 DEF Step, Data, Shapes, draftVars, canonVars, tryVars
  <2>5. QED
    BY <2>3, <2>4
<1>4. CASE DiscardClear(p)
  <2>1. /\ hold' \in [Row -> Process \cup {None}] /\ \A r \in Row : hold'[r] \in {hold[r], p}
        /\ Step(p, "discard.clear") \/ Step(p, "discard.commit")
    <3>1. CASE HoldNext(p)
      <4>1. Step(p, "discard.clear")
        BY <1>4, <3>1 DEF DiscardClear, HoldNext
      <4>2. hold' = [r \in Row |-> IF r \in NextOf(p, hold, Changed) THEN p ELSE hold[r]]
        BY <3>1 DEF HoldNext
      <4>3. QED
        BY <4>1, <4>2, TakesLocks
    <3>2. CASE ~HoldNext(p)
      BY <1>4, <3>2 DEF DiscardClear, Located
    <3>3. QED
      BY <3>1, <3>2
  <2>2. UNCHANGED <<lock, snap, mine, todo, buffer, probed>>
    BY <1>4 DEF DiscardClear, HoldNext
  <2>3. "discard.clear" \in InTx /\ "discard.commit" \in InTx
    BY DEF InTx
  <2>4. Located'
    <3>1. /\ lock' \in [Row -> Process \cup {None}] /\ \A r \in Row : lock'[r] \in {lock[r], p}
          /\ publisher' = publisher
      BY <2>1, <2>2 DEF Step, Located
    <3>2. Goto(p, "discard.clear") \/ Goto(p, "discard.commit")
      BY <2>1 DEF Step
    <3>3. QED
      BY <2>1, <2>3, <3>1, <3>2, MoveOn
  <2>5. Data'
    BY <2>1, <2>2 DEF Step, Data, Shapes, draftVars, canonVars, tryVars
  <2>6. QED
    BY <2>4, <2>5
<1>5. CASE DiscardCommit(p) /\ ~Fail(p)
  <2>1. DiscardWrites(p)
    BY <1>5 DEF DiscardCommit
  <2>2. Located'
    <3>1. "done" \in Steps
      BY DEF Steps
    <3>2. QED
      BY <2>1, <3>1, MoveOut DEF DiscardWrites, Commit
  <2>3. log' \in Seq(Command) /\ change' \in [Row -> Changes]
    BY <2>1, EmptySeq, DataOf DEF DiscardWrites, Changes
  <2>4. Data'
    BY <2>1, <2>3 DEF DiscardWrites, Data, Shapes, canonVars, tryVars
  <2>5. QED
    BY <2>2, <2>4
<1>6. QED
  BY <1>1, <1>2, <1>3, <1>4, <1>5

LEMMA RebaseTypes ==
  ASSUME Located, Data, NEW p \in Process,
         \/ StartRebase(p) \/ RebaseLog(p) \/ RebaseProbe(p) \/ RebaseReport(p) \/ RebaseConfirm(p)
         \/ RebaseBegin(p) \/ RebaseClear(p) \/ RebaseRun(p) \/ RebaseCommit(p)
  PROVE  Located' /\ Data'
<1> USE DEF Ready, Call
<1>1. CASE Fail(p)
  BY <1>1, FailTypes
<1>2. CASE StartRebase(p)
  <2>1. pc[p] \notin InTx /\ "rebase.log" \in Steps
    BY <1>2 DEF StartRebase, InTx, Steps
  <2>2. Located'
    BY <1>2, <2>1, MoveBefore DEF StartRebase
  <2>3. Data'
    BY <1>2 DEF StartRebase, Data, Shapes, draftVars, canonVars, tryVars
  <2>4. QED
    BY <2>2, <2>3
<1>3. CASE (RebaseLog(p) \/ RebaseProbe(p) \/ RebaseReport(p) \/ RebaseConfirm(p)) /\ ~Fail(p)
  <2>1. PICK to \in {"rebase.probe", "rebase.report", "rebase.confirm", "rebase.begin"} :
          Step(p, to) /\ UNCHANGED <<lock, hold, snap, todo, buffer>>
    BY <1>3 DEF RebaseLog, RebaseProbe, RebaseReport, RebaseConfirm
  <2>2. (mine' = mine \/ mine' = [mine EXCEPT ![p] = log])
        /\ (probed' = probed \/ probed' = [probed EXCEPT ![p] = version])
    BY <1>3 DEF RebaseLog, RebaseProbe, RebaseReport, RebaseConfirm
  <2>3. pc[p] \notin InTx /\ to \in Steps
    BY <1>3 DEF RebaseLog, RebaseProbe, RebaseReport, RebaseConfirm, InTx, Steps
  <2>4. Located'
    BY <2>1, <2>3, StepLocated
  <2>5. Data'
    BY <2>1, <2>2 DEF Step, Data, Shapes, draftVars, canonVars, tryVars
  <2>6. QED
    BY <2>4, <2>5
<1>4. CASE RebaseBegin(p) /\ ~Fail(p)
  <2>1. Step(p, "rebase.clear") /\ UNCHANGED <<lock, hold, snap, mine, todo, buffer, probed>>
    BY <1>4 DEF RebaseBegin
  <2>2. "rebase.clear" \in InTx
    BY DEF InTx
  <2>3. Located'
    BY <2>1, <2>2, StepLocated, InTxSteps
  <2>4. Data'
    BY <2>1 DEF Step, Data, Shapes, draftVars, canonVars, tryVars
  <2>5. QED
    BY <2>3, <2>4
<1>5. CASE RebaseClear(p)
  <2>1. CASE HoldNext(p)
    <3>1. Step(p, "rebase.clear") /\ UNCHANGED <<lock, snap, mine, todo, buffer, probed>>
      BY <1>5, <2>1 DEF RebaseClear, HoldNext
    <3>2. "rebase.clear" \in InTx
      BY DEF InTx
    <3>3. Located'
      <4>1. /\ lock' \in [Row -> Process \cup {None}] /\ \A r \in Row : lock'[r] \in {lock[r], p}
            /\ hold' \in [Row -> Process \cup {None}] /\ \A r \in Row : hold'[r] \in {hold[r], p}
            /\ publisher' = publisher
        BY <2>1, <3>1, TakesLocks DEF HoldNext, Step, Located
      <4>2. QED
        BY <3>1, <3>2, <4>1, MoveOn DEF Step
    <3>4. Data'
      BY <3>1 DEF Step, Data, Shapes, draftVars, canonVars, tryVars
    <3>5. QED
      BY <3>3, <3>4
  <2>2. CASE ~HoldNext(p)
    <3>1. /\ Step(p, "rebase.run")
          /\ todo' = [todo EXCEPT ![p] = mine[p]] /\ buffer' = [buffer EXCEPT ![p] = NoChanges]
          /\ UNCHANGED <<lock, hold, snap, mine, probed>>
      BY <1>5, <2>2 DEF RebaseClear
    <3>2. "rebase.run" \in InTx
      BY DEF InTx
    <3>3. Located'
      BY <3>1, <3>2, StepLocated, InTxSteps
    <3>4. Data'
      BY <3>1, NoChangesType DEF Step, Data, Shapes, draftVars, canonVars, tryVars
    <3>5. QED
      BY <3>3, <3>4
  <2>3. QED
    BY <2>1, <2>2
<1>6. CASE RebaseRun(p)
  <2>1. pc[p] \in InTx
    BY <1>6 DEF RebaseRun, InTx
  <2>2. QED
    BY <1>6, <2>1, RunTypes DEF RebaseRun
<1>7. CASE RebaseCommit(p) /\ ~Fail(p)
  <2>1. RebaseWrites(p)
    BY <1>7 DEF RebaseCommit
  <2>2. Located'
    <3>1. "done" \in Steps
      BY DEF Steps
    <3>2. QED
      BY <2>1, <3>1, MoveOut DEF RebaseWrites, Commit
  <2>3. /\ rev' = rev + 1 /\ base' = probed[p] /\ change' = buffer[p]
        /\ UNCHANGED <<draft, log, canonVars, snap, batch, mine, todo, buffer, tryVars, probed, acked>>
    BY <2>1 DEF RebaseWrites
  <2>4. log \in Seq(Command) /\ acked \in Seq(Command) /\ probed[p] \in Nat /\ buffer[p] \in [Row -> Changes]
    BY DEF Data, Shapes
  <2>5. Data'
    BY <2>3, <2>4, AdvanceTypes DEF canonVars, tryVars
  <2>6. QED
    BY <2>2, <2>5
<1>8. QED
  BY <1>1, <1>2, <1>3, <1>4, <1>5, <1>6, <1>7

LEMMA AbortTypes ==
  ASSUME Located, Data, NEW p \in Process, Abort(p)
  PROVE  Located' /\ Data'
<1>1. CASE Fail(p)
  BY <1>1, FailTypes
<1>2. CASE ~Fail(p)
  <2>1. /\ tries[p] # TxAttempts /\ Release(p) /\ Goto(p, Restart[Operation(p)])
        /\ tries' = [tries EXCEPT ![p] = @ + 1]
        /\ UNCHANGED <<draftVars, canonVars, snap, batch, mine, todo, buffer, attempts, probed, acked>>
    BY <1>2 DEF Abort
  <2>2. pc[p] \in InTx
    BY DEF Abort, Deadlocked
  <2>3. Restart[Operation(p)] \in Steps
    BY <2>2 DEF Restart, Operation, InTx, Steps
  <2>4. Located'
    BY <2>1, <2>3, MoveOut
  <2>5. tries' \in [Process -> 1..TxAttempts]
    BY <2>1, AttemptsAssumption DEF Data
  <2>6. Data'
    BY <2>1, <2>5 DEF Data, Shapes, draftVars, canonVars
  <2>7. QED
    BY <2>4, <2>6
<1>3. QED
  BY <1>1, <1>2

\* What another writer leaves a row, and what it wrote before
HostWrites(r, row, led) ==
  \/ canon[r].exists /\ row = Present(canon[r].rev + 1, version + 1) /\ led = ledger[r]
  \/ canon[r].exists /\ row = Absent /\ led = Deleted(canon[r], ledger[r])
  \/ /\ ~canon[r].exists /\ row = Present(Inserted(ledger[r]), version + 1)
     /\ led = IF Revisioned THEN Inserted(ledger[r]) ELSE ledger[r]

LEMMA HostFacts ==
  ASSUME Located, Data, NEW r \in Row, HostWrite(r)
  PROVE  /\ \E row \in Rows, led \in Nat :
              /\ HostWrites(r, row, led)
              /\ canon' = [canon EXCEPT ![r] = row]
              /\ ledger' = [ledger EXCEPT ![r] = led]
         /\ version' = version + 1 /\ written' = [written EXCEPT ![r] = version + 1]
         /\ UNCHANGED <<draftVars, lockVars, pc, snap, batch, mine, todo, buffer, tryVars, probed, acked>>
         /\ Unlocked(r)
<1>1. canon[r] \in Rows /\ ledger[r] \in Nat /\ version \in Nat /\ canon[r].rev \in Nat
  BY DataOf, RowType
<1>2. ledger = [ledger EXCEPT ![r] = ledger[r]]
  BY DEF Data
<1>3. \E row \in Rows, led \in Nat :
              /\ HostWrites(r, row, led)
              /\ canon' = [canon EXCEPT ![r] = row]
              /\ ledger' = [ledger EXCEPT ![r] = led]
  <2>1. CASE canon[r].exists /\ canon' = [canon EXCEPT ![r] = Present(@.rev + 1, version + 1)] /\ ledger' = ledger
    <3>1. PICK row \in Rows : row = Present(canon[r].rev + 1, version + 1)
      BY <1>1, PresentType
    <3>2. canon' = [canon EXCEPT ![r] = row] /\ ledger' = [ledger EXCEPT ![r] = ledger[r]]
      BY <1>2, <2>1, <3>1
    <3>3. HostWrites(r, row, ledger[r])
      BY <2>1, <3>1 DEF HostWrites
    <3>4. QED
      BY <1>1, <3>2, <3>3
  <2>2. CASE canon[r].exists /\ canon' = [canon EXCEPT ![r] = Absent]
             /\ ledger' = [ledger EXCEPT ![r] = Deleted(canon[r], @)]
    <3>1. PICK led \in Nat : led = Deleted(canon[r], ledger[r])
      BY <1>1 DEF Deleted, Larger
    <3>2. Absent \in Rows
      BY DEF Absent, Rows
    <3>3. ledger' = [ledger EXCEPT ![r] = led] /\ HostWrites(r, Absent, led)
      BY <2>2, <3>1 DEF HostWrites
    <3>4. QED
      BY <2>2, <3>2, <3>3
  <2>3. CASE ~canon[r].exists /\ canon' = [canon EXCEPT ![r] = Present(Inserted(ledger[r]), version + 1)]
             /\ ledger' = [ledger EXCEPT ![r] = IF Revisioned THEN Inserted(@) ELSE @]
    <3>1. PICK led \in Nat : led = IF Revisioned THEN Inserted(ledger[r]) ELSE ledger[r]
      BY <1>1 DEF Inserted
    <3>2. PICK row \in Rows : row = Present(Inserted(ledger[r]), version + 1)
      BY <1>1, PresentType DEF Inserted
    <3>3. ledger' = [ledger EXCEPT ![r] = led] /\ canon' = [canon EXCEPT ![r] = row]
      BY <2>3, <3>1, <3>2
    <3>4. HostWrites(r, row, led)
      BY <2>3, <3>1, <3>2 DEF HostWrites
    <3>5. QED
      BY <3>3, <3>4
  <2>4. QED
    BY <2>1, <2>2, <2>3 DEF HostWrite
<1>4. QED
  BY <1>3 DEF HostWrite

LEMMA HostTypes ==
  ASSUME Located, Data, NEW r \in Row, HostWrite(r)
  PROVE  Located' /\ Data'
<1>1. PICK row \in Rows, led \in Nat : canon' = [canon EXCEPT ![r] = row] /\ ledger' = [ledger EXCEPT ![r] = led]
  BY HostFacts
<1>2. /\ version' = version + 1 /\ written' = [written EXCEPT ![r] = version + 1]
      /\ UNCHANGED <<draftVars, lockVars, pc, snap, batch, mine, todo, buffer, tryVars, probed, acked>>
  BY HostFacts
<1>3. Located'
  BY <1>2 DEF Located, lockVars
<1>4. Data'
  BY <1>1, <1>2 DEF Data, Shapes, draftVars, tryVars
<1>5. QED
  BY <1>3, <1>4

LEMMA TypesKept ==
  ASSUME Located, Data, [Next]_vars
  PROVE  Located' /\ Data'
<1>1. CASE UNCHANGED vars
  BY <1>1 DEF vars, Located, Data, Shapes, draftVars, canonVars, lockVars, tryVars
<1>2. ASSUME NEW p \in Process, Start(p) \/ Progress(p) PROVE Located' /\ Data'
  BY <1>2, AppendTypes, PublishTypes, DiscardTypes, RebaseTypes, AbortTypes DEF Start, Progress
<1>3. ASSUME NEW r \in Row, HostWrite(r) PROVE Located' /\ Data'
  BY <1>3, HostTypes
<1>4. QED
  BY <1>1, <1>2, <1>3 DEF Next
-----------------------------------------------------------------------------
(* Steps that write nothing others see *)

Private(p) ==
  /\ UNCHANGED <<draft, rev, log, change, acked, canon, ledger, written>>
  /\ \A r \in Row : lock'[r] = lock[r] \/ lock[r] \in {p, None}
  /\ \A r \in Row : hold'[r] = hold[r] \/ hold[r] \in {p, None}
  /\ \A q \in Process \ {p} : /\ pc'[q] = pc[q] /\ snap'[q] = snap[q]
                              /\ mine'[q] = mine[q] /\ buffer'[q] = buffer[q]

BuffersAnchored(p) == Revisioned /\ draft = "open" => AllAnchored(buffer[p])

Knowing == {"append.run", "discard.commit", "publish.replay", "publish.apply", "publish.commit"}

LEMMA PrivateKeeps ==
  ASSUME IInv, Located', Data', NEW p \in Process, Private(p), Knows(p)', BuffersAnchored(p)'
  PROVE  IInv'
<1>1. /\ draft' = draft /\ rev' = rev /\ log' = log /\ change' = change /\ acked' = acked
      /\ canon' = canon /\ ledger' = ledger /\ written' = written
  BY DEF Private
<1>2. ASSUME NEW q \in Process \ {p} PROVE Knows(q)' /\ BuffersAnchored(q)'
  <2>1. pc'[q] = pc[q] /\ snap'[q] = snap[q] /\ mine'[q] = mine[q] /\ buffer'[q] = buffer[q]
    BY DEF Private
  <2>2. q # None
    BY NoneAssumption
  <2>3. \A r \in Row : (lock[r] = q => lock'[r] = q) /\ (hold[r] = q => hold'[r] = q)
    BY <2>2 DEF Private
  <2>4. Changed' = Changed /\ Changed \subseteq Row
    BY <1>1 DEF Changed
  <2>5. Knows(q)
    BY DEF IInv
  <2>6. Knows(q)'
    BY <1>1, <2>1, <2>3, <2>4, <2>5 DEF Knows, Current
  <2>7. BuffersAnchored(q)'
    BY <1>1, <2>1 DEF IInv, Tracked, BuffersAnchored, AllAnchored, Anchored, Stamp
  <2>8. QED
    BY <2>6, <2>7
<1>3. \A q \in Process : Knows(q)' /\ BuffersAnchored(q)'
  BY <1>2
<1>4. Tracked'
  <2>1. Revisioned /\ draft = "open" => (Stamped /\ AllAnchored(change))'
    BY <1>1 DEF IInv, Tracked, Stamped, AllAnchored, Anchored, Stamp
  <2>2. QED
    BY <1>1, <1>3, <2>1 DEF Tracked, BuffersAnchored
<1>5. AppendsKept'
  BY <1>1 DEF IInv, AppendsKept, LogIsHistory, NothingLeftBehind
<1>6. TypeOK' /\ Shapes'
  BY DEF TypeOK, Located, Data
<1>7. QED
  BY <1>3, <1>4, <1>5, <1>6 DEF IInv

\* A step to where nothing is known, that writes no change, keeps the invariant.
LEMMA Elsewhere ==
  ASSUME IInv, Located', Data', NEW p \in Process, Private(p),
         NEW to, to \notin Knowing, pc'[p] = to, buffer'[p] = buffer[p]
  PROVE  IInv'
<1>1. Knows(p)'
  BY DEF Knows, Knowing
<1>2. BuffersAnchored(p)'
  BY DEF IInv, Tracked, Private, BuffersAnchored, AllAnchored, Anchored, Stamp
<1>3. QED
  BY <1>1, <1>2, PrivateKeeps

LEMMA ReleaseFacts ==
  ASSUME NEW p \in Process, Release(p)
  PROVE  \A r \in Row : (lock'[r] = lock[r] \/ lock[r] \in {p, None})
                        /\ (hold'[r] = hold[r] \/ hold[r] \in {p, None})
  BY DEF Release

LEMMA IInvTypes == IInv => Located /\ Data
  BY TypesAre DEF IInv

LEMMA GotoFacts ==
  ASSUME Located, NEW p \in Process, NEW to, Goto(p, to)
  PROVE  pc'[p] = to /\ \A q \in Process \ {p} : pc'[q] = pc[q]
  BY DEF Located, Goto

LEMMA FailKeeps ==
  ASSUME IInv, NEW p \in Process, Fail(p)
  PROVE  IInv'
<1>1. Located /\ Data /\ Located' /\ Data'
  BY IInvTypes, FailTypes
<1>2. pc'[p] = "failed" /\ \A q \in Process \ {p} : pc'[q] = pc[q]
  BY <1>1, GotoFacts DEF Fail
<1>3. Private(p) /\ buffer'[p] = buffer[p]
  BY <1>2, ReleaseFacts DEF Private, Fail, draftVars, canonVars
<1>4. "failed" \notin Knowing
  BY DEF Knowing
<1>5. QED
  BY <1>1, <1>2, <1>3, <1>4, Elsewhere

\* The locks a step waits for are its own or free.
LEMMA WaitsForNone ==
  ASSUME NEW p, NEW locks, NEW rows, Holders(p, locks, rows) = {}
  PROVE  \A r \in rows : locks[r] \in {p, None}
  BY DEF Holders

\* The next row to lock is the least that is not locked: if there is none, all are.
LEMMA NoNext ==
  ASSUME NEW p, NEW locks, NEW rows, rows \subseteq Row, NextOf(p, locks, rows) = {}
  PROVE  \A r \in rows : locks[r] = p
<1> DEFINE T == {r \in rows : locks[r] # p}
<1>1. SUFFICES ASSUME T # {} PROVE FALSE
  OBVIOUS
<1>2. T \subseteq Nat
  BY RowAssumption
<1> HIDE DEF T
<1>3. PICK m \in T : \A n \in T : m <= n
  BY <1>1, <1>2, Least
<1>4. m \in rows /\ locks[m] # p /\ \A s \in rows : locks[s] # p => m <= s
  BY <1>3 DEF T
<1>5. \A s \in rows : s < m => locks[s] = p
  BY <1>4, RowAssumption
<1>6. m \in NextOf(p, locks, rows)
  BY <1>4, <1>5 DEF NextOf
<1>7. QED
  BY <1>6

LEMMA AnchorIsAnchored ==
  ASSUME Revisioned, NEW r \in Row
  PROVE  Anchored(r, Anchor(canon[r], ledger[r], written[r]))
  BY DEF Anchored, Anchor, Stamp

\* What p's transaction sees is anchored.
LEMMA SeesAnchored ==
  ASSUME IInv, Revisioned, draft = "open", NEW p \in Process, NEW r \in Row, Sees(p, r) # NoChange
  PROVE  Anchored(r, Sees(p, r).anchor)
<1>1. AllAnchored(change) /\ AllAnchored(buffer[p])
  BY DEF IInv, Tracked
<1>2. Sees(p, r) = buffer[p][r] \/ Sees(p, r) = change[r]
  BY DEF Sees
<1>3. QED
  BY <1>1, <1>2 DEF AllAnchored

LEMMA RunKeeps ==
  ASSUME IInv, NEW p \in Process, NEW at \in {"append.run", "rebase.run"}, Ready(p, at), RunCommand(p)
  PROVE  IInv'
<1> DEFINE c == Head(todo[p])
<1> DEFINE r == c.row
<1>1. Located /\ Data /\ pc[p] = at /\ pc[p] \in InTx /\ todo[p] # <<>>
  BY IInvTypes DEF Ready, InTx, RunCommand
<1>2. Located' /\ Data'
  BY <1>1, RunTypes
<1>3. c \in Command /\ r \in Row
  BY <1>1, DataOf, HeadType
<1>4. CASE Refused(c, Sees(p, r), canon[r])
  <2>1. Fail(p)
    BY <1>4 DEF RunCommand
  <2>2. QED
    BY <2>1, FailKeeps
<1>5. CASE ~Refused(c, Sees(p, r), canon[r])
  <2> DEFINE to == Touched(c, Sees(p, r), canon[r], ledger[r], written[r])
  <2>1. Step(p, pc[p]) /\ UNCHANGED <<snap, mine>>
    BY <1>5 DEF RunCommand
  <2>2. \/ /\ Writes(c, Sees(p, r), canon[r])
           /\ lock' = [lock EXCEPT ![r] = p] /\ hold' = [hold EXCEPT ![r] = p]
           /\ buffer' = [buffer EXCEPT ![p][r] = to]
        \/ UNCHANGED <<lock, hold, buffer>>
    BY <1>5 DEF RunCommand
  <2>3. Writes(c, Sees(p, r), canon[r]) => lock[r] \in {p, None} /\ hold[r] \in {p, None}
    <3>1. SUFFICES ASSUME Writes(c, Sees(p, r), canon[r])
                   PROVE  lock[r] \in {p, None} /\ hold[r] \in {p, None}
      OBVIOUS
    <3>2. WaitsFor(p) = Holders(p, lock, {r}) \cup Holders(p, hold, {r})
      BY <1>1, <3>1 DEF WaitsFor
    <3>3. Holders(p, lock, {r}) = {} /\ Holders(p, hold, {r}) = {}
      BY <3>2 DEF Ready
    <3> HIDE DEF r
    <3>4. QED
      BY <3>3 DEF Holders
  <2>4. to \in Changes /\ (Sees(p, r) # NoChange => to.anchor = Sees(p, r).anchor)
        /\ (Sees(p, r) = NoChange => to = NoChange \/ to.anchor = Anchor(canon[r], ledger[r], written[r]))
    <3>1. Sees(p, r) \in Changes /\ canon[r] \in Rows /\ ledger[r] \in Nat /\ written[r] \in Nat
      BY <1>1, <1>3, SeesType, DataOf DEF Data
    <3> HIDE DEF c, r
    <3>2. QED
      BY <1>3, <3>1, TouchedFacts
  <2>5. Revisioned /\ draft = "open" /\ to # NoChange => Anchored(r, to.anchor)
    <3> HIDE DEF c, r, to
    <3>1. QED
      BY <1>3, <2>4, SeesAnchored, AnchorIsAnchored
  <2>6. buffer \in [Process -> [Row -> Changes]] /\ buffer[p] \in [Row -> Changes]
        /\ lock \in [Row -> Process \cup {None}] /\ hold \in [Row -> Process \cup {None}]
    BY <1>1 DEF Data, Shapes, Located
  <2>7. pc'[p] = at /\ \A q \in Process \ {p} : pc'[q] = pc[q]
    BY <1>1, <2>1, GotoFacts DEF Step
  <2>8. UNCHANGED <<draft, rev, log, change, acked, canon, ledger, written, snap, mine>>
    BY <2>1 DEF Step, draftVars, canonVars
  <2> HIDE DEF c, r, to
  <2>9. /\ \A q \in Process \ {p} : buffer'[q] = buffer[q]
        /\ \A k \in Row : buffer'[p][k] = buffer[p][k] \/ (k = r /\ buffer'[p][k] = to)
    BY <1>3, <2>2, <2>6
  <2>10. \A k \in Row : (lock'[k] = lock[k] \/ lock[k] \in {p, None})
                        /\ (hold'[k] = hold[k] \/ hold[k] \in {p, None})
    BY <1>3, <2>2, <2>3, <2>6
  <2>11. Private(p)
    BY <2>7, <2>8, <2>9, <2>10 DEF Private
  <2>12. Knows(p)'
    BY <1>1, <2>7, <2>8 DEF IInv, Knows, Current
  <2>13. BuffersAnchored(p)'
    <3>1. SUFFICES ASSUME Revisioned, draft = "open", NEW k \in Row, buffer'[p][k] # NoChange
                   PROVE  Anchored(k, buffer'[p][k].anchor)
      BY <2>8 DEF BuffersAnchored, AllAnchored, Anchored, Stamp
    <3>2. AllAnchored(buffer[p])
      BY <3>1 DEF IInv, Tracked
    <3>3. QED
      BY <2>5, <2>9, <3>1, <3>2 DEF AllAnchored
  <2>14. QED
    BY <1>2, <2>11, <2>12, <2>13, PrivateKeeps
<1>6. QED
  BY <1>4, <1>5

\* A private step that takes no lock
LEMMA StepElsewhere ==
  ASSUME IInv, Located', Data', NEW p \in Process, NEW to, to \notin Knowing, Goto(p, to),
         UNCHANGED <<draftVars, canonVars, acked>>,
         UNCHANGED <<lock, hold>> \/ Release(p),
         \A q \in Process \ {p} : snap'[q] = snap[q] /\ mine'[q] = mine[q],
         buffer' = buffer
  PROVE  IInv'
<1>1. Located
  BY IInvTypes
<1>2. pc'[p] = to /\ \A q \in Process \ {p} : pc'[q] = pc[q]
  BY <1>1, GotoFacts
<1>3. \A r \in Row : (lock'[r] = lock[r] \/ lock[r] \in {p, None})
                     /\ (hold'[r] = hold[r] \/ hold[r] \in {p, None})
  BY ReleaseFacts
<1>4. Private(p) /\ buffer'[p] = buffer[p]
  BY <1>2, <1>3 DEF Private, draftVars, canonVars
<1>5. QED
  BY <1>2, <1>4, Elsewhere

LEMMA StartKeeps ==
  ASSUME IInv, NEW p \in Process, Start(p)
  PROVE  IInv'
<1>1. Located /\ Data
  BY IInvTypes
<1>2. Located' /\ Data'
  BY <1>1, AppendTypes, PublishTypes, DiscardTypes, RebaseTypes DEF Start
<1>3. PICK to \in {"append.begin", "publish.log", "discard.begin", "rebase.log"} : Goto(p, to)
  BY DEF Start, StartAppend, StartPublish, StartDiscard, StartRebase, Call
<1>4. UNCHANGED <<draftVars, canonVars, acked>> /\ UNCHANGED <<lock, hold>> /\ UNCHANGED <<mine, buffer>>
  BY DEF Start, StartAppend, StartPublish, StartDiscard, StartRebase, lockVars
<1>5. snap' = snap \/ snap' = [snap EXCEPT ![p] = rev]
  BY DEF Start, StartAppend, StartPublish, StartDiscard, StartRebase
<1>6. \A q \in Process \ {p} : snap'[q] = snap[q] /\ mine'[q] = mine[q]
  BY <1>1, <1>4, <1>5 DEF Data, Shapes
<1>7. to \notin Knowing
  BY DEF Knowing
<1>8. QED
  BY <1>2, <1>3, <1>4, <1>6, <1>7, StepElsewhere

\* The steps to where a call knows nothing of the draft
LEMMA QuietKeeps ==
  ASSUME IInv, NEW p \in Process,
         \/ AppendBegin(p) \/ PublishLog(p) \/ PublishBegin(p) \/ DiscardBegin(p)
         \/ RebaseLog(p) \/ RebaseProbe(p) \/ RebaseReport(p) \/ RebaseConfirm(p) \/ RebaseBegin(p)
  PROVE  IInv'
<1>1. CASE Fail(p)
  BY <1>1, FailKeeps
<1>2. CASE ~Fail(p)
  <2>1. Located /\ Data
    BY IInvTypes
  <2>2. Located' /\ Data'
    BY <2>1, AppendTypes, PublishTypes, DiscardTypes, RebaseTypes
  <2>3. PICK to \in {"append.read", "publish.begin", "publish.check", "discard.clear", "rebase.probe",
                     "rebase.report", "rebase.confirm", "rebase.begin", "rebase.clear"} : Goto(p, to)
    BY <1>2 DEF AppendBegin, PublishLog, PublishBegin, DiscardBegin, RebaseLog, RebaseProbe,
       RebaseReport, RebaseConfirm, RebaseBegin, Step
  <2>4. /\ UNCHANGED <<draftVars, canonVars, acked>> /\ UNCHANGED <<lock, hold>> /\ UNCHANGED buffer
        /\ snap' = snap \/ snap' = [snap EXCEPT ![p] = rev]
        /\ mine' = mine \/ \E m : mine' = [mine EXCEPT ![p] = m]
    BY <1>2 DEF AppendBegin, PublishLog, PublishBegin, DiscardBegin, RebaseLog, RebaseProbe,
       RebaseReport, RebaseConfirm, RebaseBegin, Step
  <2>5. \A q \in Process \ {p} : snap'[q] = snap[q] /\ mine'[q] = mine[q]
    BY <2>1, <2>4 DEF Data, Shapes
  <2>6. to \notin Knowing
    BY DEF Knowing
  <2>7. QED
    BY <2>2, <2>3, <2>4, <2>5, <2>6, StepElsewhere
<1>3. QED
  BY <1>1, <1>2

LEMMA AbortKeeps ==
  ASSUME IInv, NEW p \in Process, Abort(p)
  PROVE  IInv'
<1>1. CASE Fail(p)
  BY <1>1, FailKeeps
<1>2. CASE ~Fail(p)
  <2>1. Located /\ Data
    BY IInvTypes
  <2>2. Located' /\ Data'
    BY <2>1, AbortTypes
  <2>3. /\ Release(p) /\ Goto(p, Restart[Operation(p)])
        /\ UNCHANGED <<draftVars, canonVars, snap, mine, buffer, acked>>
    BY <1>2 DEF Abort
  <2>4. pc[p] \in InTx
    BY DEF Abort, Deadlocked
  <2>5. PICK to : to = Restart[Operation(p)]
    OBVIOUS
  <2>6. to \in {"append.begin", "publish.begin", "discard.begin", "rebase.begin"}
    BY <2>4, <2>5 DEF Restart, Operation, InTx
  <2>7. to \notin Knowing
    BY <2>6 DEF Knowing
  <2>8. QED
    BY <2>2, <2>3, <2>5, <2>7, StepElsewhere
<1>3. QED
  BY <1>1, <1>2

\* An append has read the log.
LEMMA AppendReadKeeps ==
  ASSUME IInv, NEW p \in Process, AppendRead(p)
  PROVE  IInv'
<1>1. Located /\ Data
  BY IInvTypes
<1>2. Located' /\ Data'
  BY <1>1, AppendTypes
<1>3. /\ Goto(p, "append.run") /\ UNCHANGED <<draftVars, canonVars, acked, lock, hold, snap>>
      /\ mine' = [mine EXCEPT ![p] = log] /\ buffer' = [buffer EXCEPT ![p] = NoChanges]
  BY DEF AppendRead, Step
<1>4. pc'[p] = "append.run" /\ \A q \in Process \ {p} : pc'[q] = pc[q]
  BY <1>1, <1>3, GotoFacts
<1>5. /\ mine'[p] = log /\ \A q \in Process \ {p} : mine'[q] = mine[q]
      /\ buffer'[p] = NoChanges /\ \A q \in Process \ {p} : buffer'[q] = buffer[q]
  BY <1>1, <1>3 DEF Data, Shapes
<1>6. Private(p)
  BY <1>3, <1>4, <1>5 DEF Private, draftVars, canonVars
<1>7. Knows(p)'
  BY <1>3, <1>4, <1>5 DEF Knows, Current, draftVars
<1>8. BuffersAnchored(p)'
  BY <1>5 DEF BuffersAnchored, AllAnchored, NoChanges
<1>9. QED
  BY <1>2, <1>6, <1>7, <1>8, PrivateKeeps

\* A publication has locked and compared the rows.
LEMMA PublishCheckKeeps ==
  ASSUME IInv, NEW p \in Process, PublishCheck(p)
  PROVE  IInv'
<1>1. Located /\ Data /\ pc[p] = "publish.check" /\ WaitsFor(p) = {}
  BY IInvTypes DEF PublishCheck, Ready
<1>2. Located' /\ Data'
  BY <1>1, PublishTypes
<1>3. WaitsFor(p) = Holders(p, lock, NextOf(p, lock, Lockable))
  BY <1>1 DEF WaitsFor
<1>4. CASE Fail(p)
  BY <1>4, FailKeeps
<1>5. CASE NextOf(p, lock, Lockable) # {} /\ ~Fail(p)
  <2> DEFINE next == NextOf(p, lock, Lockable)
  <2>1. /\ Goto(p, "publish.check") /\ UNCHANGED <<draftVars, canonVars, acked, hold, snap, mine, buffer>>
        /\ lock' = [r \in Row |-> IF r \in next THEN p ELSE lock[r]]
    BY <1>5 DEF PublishCheck, Step
  <2>2. \A r \in next : lock[r] \in {p, None}
    BY <1>1, <1>3, WaitsForNone
  <2> HIDE DEF next
  <2>3. pc'[p] = "publish.check" /\ \A q \in Process \ {p} : pc'[q] = pc[q]
    BY <1>1, <2>1, GotoFacts
  <2>4. Private(p) /\ buffer'[p] = buffer[p]
    BY <2>1, <2>2, <2>3 DEF Private, draftVars, canonVars
  <2>5. "publish.check" \notin Knowing
    BY DEF Knowing
  <2>6. QED
    BY <1>2, <2>3, <2>4, <2>5, Elsewhere
<1>6. CASE NextOf(p, lock, Lockable) = {} /\ ~Fail(p)
  <2>1. /\ Goto(p, "publish.replay") /\ UNCHANGED <<draftVars, canonVars, acked, lock, hold, snap, mine, buffer>>
        /\ \A r \in Row : ~RowConflict(change[r], canon[r], ledger[r])
    BY <1>6 DEF PublishCheck, Step
  <2>2. pc'[p] = "publish.replay" /\ \A q \in Process \ {p} : pc'[q] = pc[q]
    BY <1>1, <2>1, GotoFacts
  <2>3. Private(p)
    BY <2>1, <2>2 DEF Private, draftVars, canonVars
  <2>4. Lockable \subseteq Row
    BY DEF Lockable, Changed
  <2>5. \A r \in Lockable : lock[r] = p
    BY <1>6, <2>4, NoNext
  <2>6. Revisioned => \A r \in Changed : lock[r] = p /\ ~RowConflict(change[r], canon[r], ledger[r])
    BY <2>1, <2>5 DEF Lockable, Changed
  <2>7. Changed' = Changed
    BY <2>1 DEF Changed, draftVars
  <2>8. Knows(p)'
    BY <2>1, <2>2, <2>6, <2>7 DEF Knows, draftVars, canonVars
  <2>9. BuffersAnchored(p)'
    BY <2>1 DEF IInv, Tracked, BuffersAnchored, AllAnchored, Anchored, Stamp, draftVars, canonVars
  <2>10. QED
    BY <1>2, <2>3, <2>8, <2>9, PrivateKeeps
<1>7. QED
  BY <1>4, <1>5, <1>6

\* Its locks keep the rows as they were compared.
LEMMA PublishReplayKeeps ==
  ASSUME IInv, NEW p \in Process, PublishReplay(p)
  PROVE  IInv'
<1>1. Located /\ Data /\ pc[p] = "publish.replay"
  BY IInvTypes DEF PublishReplay, Ready
<1>2. Located' /\ Data'
  BY <1>1, PublishTypes
<1>3. CASE Fail(p)
  BY <1>3, FailKeeps
<1>4. CASE ~Fail(p)
  <2>1. Goto(p, "publish.apply") /\ UNCHANGED <<draftVars, canonVars, acked, lock, hold, snap, mine, buffer>>
    BY <1>4 DEF PublishReplay, Step
  <2>2. pc'[p] = "publish.apply" /\ \A q \in Process \ {p} : pc'[q] = pc[q]
    BY <1>1, <2>1, GotoFacts
  <2>3. Private(p)
    BY <2>1, <2>2 DEF Private, draftVars, canonVars
  <2>4. Changed' = Changed
    BY <2>1 DEF Changed, draftVars
  <2>5. Knows(p)
    BY DEF IInv
  <2>6. Knows(p)'
    BY <1>1, <2>1, <2>2, <2>4, <2>5 DEF Knows, Current, draftVars, canonVars
  <2>7. BuffersAnchored(p)'
    BY <2>1 DEF IInv, Tracked, BuffersAnchored, AllAnchored, Anchored, Stamp, draftVars, canonVars
  <2>8. QED
    BY <1>2, <2>3, <2>6, <2>7, PrivateKeeps
<1>5. QED
  BY <1>3, <1>4

LEMMA PublishApplyKeeps ==
  ASSUME IInv, NEW p \in Process, PublishApply(p)
  PROVE  IInv'
<1>1. Located /\ Data /\ pc[p] = "publish.apply" /\ WaitsFor(p) = {}
  BY IInvTypes DEF PublishApply, Ready
<1>2. Located' /\ Data'
  BY <1>1, PublishTypes
<1>3. CASE Fail(p)
  BY <1>3, FailKeeps
<1>4. CASE ~Fail(p)
  <2> DEFINE rows == {r \in Row : Reviewed(change[r])}
  <2>1. /\ Goto(p, "publish.commit") /\ UNCHANGED <<draftVars, canonVars, acked, hold, snap, mine>>
        /\ buffer' = [buffer EXCEPT ![p] = change]
        /\ lock' = [r \in Row |-> IF Reviewed(change[r]) THEN p ELSE lock[r]]
    BY <1>4 DEF PublishApply, Step
  <2>2. \A r \in rows : lock[r] \in {p, None}
    <3>1. WaitsFor(p) = Holders(p, lock, rows)
      BY <1>1 DEF WaitsFor
    <3> HIDE DEF rows
    <3>2. QED
      BY <1>1, <3>1, WaitsForNone
  <2>3. pc'[p] = "publish.commit" /\ \A q \in Process \ {p} : pc'[q] = pc[q]
    BY <1>1, <2>1, GotoFacts
  <2>4. buffer'[p] = change /\ \A q \in Process \ {p} : buffer'[q] = buffer[q]
    BY <1>1, <2>1 DEF Data, Shapes
  <2>5. \A r \in Row : (lock'[r] = lock[r] \/ lock[r] \in {p, None}) /\ (lock[r] = p => lock'[r] = p)
    BY <2>1, <2>2
  <2>6. Private(p)
    BY <2>1, <2>3, <2>4, <2>5 DEF Private, draftVars, canonVars
  <2>7. Changed' = Changed /\ Changed \subseteq Row
    BY <2>1 DEF Changed, draftVars
  <2>8. Knows(p)
    BY DEF IInv
  <2>9. Knows(p)'
    BY <1>1, <2>1, <2>3, <2>4, <2>5, <2>7, <2>8 DEF Knows, Current, draftVars, canonVars
  <2>10. BuffersAnchored(p)'
    BY <2>1, <2>4 DEF IInv, Tracked, BuffersAnchored, AllAnchored, Anchored, Stamp, draftVars, canonVars
  <2>11. QED
    BY <1>2, <2>6, <2>9, <2>10, PrivateKeeps
<1>5. QED
  BY <1>3, <1>4

\* A discard or a rebase takes the rows' changes one by one; when none is left a
\* discard holds them all.
LEMMA HoldNextKeeps ==
  ASSUME IInv, Located', Data', NEW p \in Process, HoldNext(p), WaitsFor(p) = {},
         pc[p] \in {"discard.clear", "rebase.clear"}
  PROVE  IInv'
<1> DEFINE next == NextOf(p, hold, Changed)
<1>1. Located
  BY IInvTypes
<1>2. /\ Goto(p, pc[p]) /\ UNCHANGED <<draftVars, canonVars, acked, lock, snap, mine, buffer>>
      /\ hold' = [r \in Row |-> IF r \in next THEN p ELSE hold[r]]
  BY DEF HoldNext, Step
<1>3. WaitsFor(p) = Holders(p, hold, next)
  BY DEF WaitsFor
<1> HIDE DEF next
<1>4. \A r \in next : hold[r] \in {p, None}
  BY <1>3, WaitsForNone
<1>5. pc'[p] = pc[p] /\ \A q \in Process \ {p} : pc'[q] = pc[q]
  BY <1>1, <1>2, GotoFacts
<1>6. Private(p) /\ buffer'[p] = buffer[p]
  BY <1>2, <1>4, <1>5 DEF Private, draftVars, canonVars
<1>7. pc[p] \notin Knowing
  BY DEF Knowing
<1>8. QED
  BY <1>5, <1>6, <1>7, Elsewhere

LEMMA DiscardClearKeeps ==
  ASSUME IInv, NEW p \in Process, DiscardClear(p)
  PROVE  IInv'
<1>1. Located /\ Data /\ pc[p] = "discard.clear" /\ WaitsFor(p) = {}
  BY IInvTypes DEF DiscardClear, Ready
<1>2. Located' /\ Data'
  BY <1>1, DiscardTypes
<1>3. CASE NextOf(p, hold, Changed) # {}
  BY <1>1, <1>2, <1>3, HoldNextKeeps DEF DiscardClear
<1>4. CASE NextOf(p, hold, Changed) = {}
  <2>1. Goto(p, "discard.commit") /\ UNCHANGED <<draftVars, canonVars, acked, lock, hold, snap, mine, buffer>>
    BY <1>4 DEF DiscardClear, Step
  <2>2. pc'[p] = "discard.commit" /\ \A q \in Process \ {p} : pc'[q] = pc[q]
    BY <1>1, <2>1, GotoFacts
  <2>3. Private(p)
    BY <2>1, <2>2 DEF Private, draftVars, canonVars
  <2>4. Changed \subseteq Row /\ Changed' = Changed
    BY <2>1 DEF Changed, draftVars
  <2>5. \A r \in Changed : hold[r] = p
    BY <1>4, <2>4, NoNext
  <2>6. Knows(p)'
    BY <2>1, <2>2, <2>4, <2>5 DEF Knows
  <2>7. BuffersAnchored(p)'
    BY <2>1 DEF IInv, Tracked, BuffersAnchored, AllAnchored, Anchored, Stamp, draftVars, canonVars
  <2>8. QED
    BY <1>2, <2>3, <2>6, <2>7, PrivateKeeps
<1>5. QED
  BY <1>3, <1>4

LEMMA RebaseClearKeeps ==
  ASSUME IInv, NEW p \in Process, RebaseClear(p)
  PROVE  IInv'
<1>1. Located /\ Data /\ pc[p] = "rebase.clear" /\ WaitsFor(p) = {}
  BY IInvTypes DEF RebaseClear, Ready
<1>2. Located' /\ Data'
  BY <1>1, RebaseTypes
<1>3. CASE NextOf(p, hold, Changed) # {}
  BY <1>1, <1>2, <1>3, HoldNextKeeps DEF RebaseClear
<1>4. CASE NextOf(p, hold, Changed) = {}
  <2>1. /\ Goto(p, "rebase.run") /\ UNCHANGED <<draftVars, canonVars, acked, lock, hold, snap, mine>>
        /\ buffer' = [buffer EXCEPT ![p] = NoChanges]
    BY <1>4 DEF RebaseClear, Step
  <2>2. pc'[p] = "rebase.run" /\ \A q \in Process \ {p} : pc'[q] = pc[q]
    BY <1>1, <2>1, GotoFacts
  <2>3. buffer'[p] = NoChanges /\ \A q \in Process \ {p} : buffer'[q] = buffer[q]
    BY <1>1, <2>1 DEF Data, Shapes
  <2>4. Private(p)
    BY <2>1, <2>2, <2>3 DEF Private, draftVars, canonVars
  <2>5. Knows(p)'
    BY <2>2 DEF Knows
  <2>6. BuffersAnchored(p)'
    BY <2>3 DEF BuffersAnchored, AllAnchored, NoChanges
  <2>7. QED
    BY <1>2, <2>4, <2>5, <2>6, PrivateKeeps
<1>5. QED
  BY <1>3, <1>4

-----------------------------------------------------------------------------
(* Commits *)

\* A commit that advances the revision leaves no call that has read it.
LEMMA Advanced ==
  ASSUME Data, rev' = rev + 1, snap' = snap
  PROVE  \A q \in Process : ~Current(q)'
<1>1. \A q \in Process : snap[q] \in Nat /\ snap[q] <= rev /\ rev \in Nat
  BY DataOf
<1>2. QED
  BY <1>1 DEF Current

\* A commit that ends the draft leaves none to read.
LEMMA Ended ==
  ASSUME Located', Data', draft' # "open", log' = <<>>, change' = NoChanges
  PROVE  IInv'
<1>1. \A q \in Process : Knows(q)'
  BY DEF Knows, Current
<1>2. Tracked' /\ AppendsKept'
  BY DEF Tracked, AppendsKept, LogIsHistory, NothingLeftBehind
<1>3. TypeOK' /\ Shapes'
  BY DEF TypeOK, Located, Data
<1>4. QED
  BY <1>1, <1>2, <1>3 DEF IInv

LEMMA AppendCommitKeeps ==
  ASSUME IInv, NEW p \in Process, AppendCommit(p)
  PROVE  IInv'
<1>1. Located /\ Data /\ pc[p] = "append.run"
  BY IInvTypes DEF AppendCommit, Ready
<1>2. Located' /\ Data'
  BY <1>1, AppendTypes
<1>3. CASE Fail(p)
  BY <1>3, FailKeeps
<1>4. CASE draft = "open" /\ rev = snap[p]
  <2>1. /\ log' = CompactLog(mine[p] \o batch[p]) /\ acked' = acked \o batch[p]
        /\ change' = [r \in Row |-> Sees(p, r)] /\ rev' = rev + 1
        /\ UNCHANGED <<draft, canonVars, snap, buffer>>
    BY <1>4 DEF AppendCommit, AppendWrites
  <2>2. mine[p] = log /\ log = CompactLog(acked)
    BY <1>1, <1>4 DEF IInv, Knows, Current, AppendsKept, LogIsHistory
  <2>3. acked \in Seq(Command) /\ batch[p] \in Seq(Command)
    BY <1>1 DEF Data, Shapes
  <2>4. log' = CompactLog(acked')
    BY <2>1, <2>2, <2>3, CompactionForgets
  <2>5. AppendsKept'
    BY <1>4, <2>1, <2>4 DEF AppendsKept, LogIsHistory, NothingLeftBehind
  <2>6. \A q \in Process : Knows(q)'
    BY <1>1, <2>1, Advanced DEF Knows
  <2>7. Tracked'
    <3>1. SUFFICES ASSUME Revisioned PROVE Tracked'
      BY DEF Tracked
    <3>2. Stamped /\ AllAnchored(change) /\ \A q \in Process : AllAnchored(buffer[q])
      BY <1>4, <3>1 DEF IInv, Tracked
    <3>3. \A r \in Row : change'[r] # NoChange => Anchored(r, change'[r].anchor)
      <4>1. ASSUME NEW r \in Row, change'[r] # NoChange PROVE Anchored(r, change'[r].anchor)
        <5>1. change'[r] = Sees(p, r)
          BY <2>1
        <5>2. QED
          BY <1>4, <3>1, <4>1, <5>1, SeesAnchored
      <4>2. QED
        BY <4>1
    <3>4. UNCHANGED <<canon, ledger, written, buffer>>
      BY <2>1 DEF canonVars
    <3>5. AllAnchored(change)' /\ Stamped' /\ \A q \in Process : AllAnchored(buffer[q])'
      BY <3>2, <3>3, <3>4 DEF AllAnchored, Anchored, Stamp, Stamped
    <3>6. QED
      BY <3>5 DEF Tracked
  <2>8. TypeOK' /\ Shapes'
    BY <1>2 DEF TypeOK, Located, Data
  <2>9. QED
    BY <2>5, <2>6, <2>7, <2>8 DEF IInv
<1>5. CASE ~Fail(p) /\ ~(draft = "open" /\ rev = snap[p])
  <2>1. Release(p) /\ Goto(p, "append.begin") /\ UNCHANGED <<draftVars, canonVars, snap, mine, buffer, acked>>
    BY <1>5 DEF AppendCommit
  <2>2. "append.begin" \notin Knowing
    BY DEF Knowing
  <2>3. QED
    BY <1>2, <2>1, <2>2, StepElsewhere
<1>6. QED
  BY <1>3, <1>4, <1>5

LEMMA RebaseCommitKeeps ==
  ASSUME IInv, NEW p \in Process, RebaseCommit(p)
  PROVE  IInv'
<1>1. Located /\ Data
  BY IInvTypes
<1>2. Located' /\ Data'
  BY <1>1, RebaseTypes
<1>3. CASE Fail(p)
  BY <1>3, FailKeeps
<1>4. CASE ~Fail(p)
  <2>1. /\ draft = "open" /\ change' = buffer[p] /\ rev' = rev + 1
        /\ UNCHANGED <<draft, log, canonVars, snap, buffer, acked>>
    BY <1>4 DEF RebaseCommit, RebaseWrites
  <2>2. AppendsKept'
    BY <2>1 DEF IInv, AppendsKept, LogIsHistory, NothingLeftBehind
  <2>3. \A q \in Process : Knows(q)'
    BY <1>1, <2>1, Advanced DEF Knows
  <2>4. Tracked'
    BY <2>1 DEF IInv, Tracked, AllAnchored, Anchored, Stamp, Stamped, canonVars
  <2>5. TypeOK' /\ Shapes'
    BY <1>2 DEF TypeOK, Located, Data
  <2>6. QED
    BY <2>2, <2>3, <2>4, <2>5 DEF IInv
<1>5. QED
  BY <1>3, <1>4

LEMMA PublishCommitKeeps ==
  ASSUME IInv, NEW p \in Process, PublishCommit(p)
  PROVE  IInv'
<1>1. Located' /\ Data'
  BY IInvTypes, PublishTypes
<1>2. CASE Fail(p)
  BY <1>2, FailKeeps
<1>3. CASE ~Fail(p)
  <2>1. draft' # "open" /\ log' = <<>> /\ change' = NoChanges
    BY <1>3 DEF PublishCommit, PublishWrites
  <2>2. QED
    BY <1>1, <2>1, Ended
<1>4. QED
  BY <1>2, <1>3

\* What a discard deletes is all there is.
LEMMA DiscardCommitKeeps ==
  ASSUME IInv, NEW p \in Process, DiscardCommit(p)
  PROVE  IInv'
<1>1. Located' /\ Data' /\ pc[p] = "discard.commit"
  BY IInvTypes, DiscardTypes DEF DiscardCommit, Ready
<1>2. CASE Fail(p)
  BY <1>2, FailKeeps
<1>3. CASE ~Fail(p)
  <2>1. /\ draft = "open" /\ rev = snap[p] /\ draft' # "open" /\ log' = <<>>
        /\ change' = [r \in Row |-> IF hold[r] = p THEN NoChange ELSE change[r]]
    BY <1>3 DEF DiscardCommit, DiscardWrites
  <2>2. \A r \in Changed : hold[r] = p
    BY <1>1, <2>1 DEF IInv, Knows, Current
  <2>3. change' = NoChanges
    BY <2>1, <2>2 DEF Changed, NoChanges
  <2>4. QED
    BY <1>1, <2>1, <2>3, Ended
<1>4. QED
  BY <1>2, <1>3

-----------------------------------------------------------------------------
(* The canonical rows' other writers *)

\* No write takes a row's stamp back, and one that keeps it is a delete.
LEMMA HostStamps ==
  ASSUME Revisioned, Located, Data, Stamped, NEW r \in Row, HostWrite(r)
  PROVE  /\ Stamp(r) \in Nat /\ Stamp(r)' \in Nat
         /\ Stamp(r)' > Stamp(r) \/ (Stamp(r)' = Stamp(r) /\ canon[r].exists /\ ~canon'[r].exists)
         /\ canon'[r].exists => canon'[r].rev >= ledger'[r]
         /\ \A x \in Row \ {r} : canon'[x] = canon[x] /\ ledger'[x] = ledger[x] /\ written'[x] = written[x]
<1>1. PICK row \in Rows, led \in Nat :
        HostWrites(r, row, led) /\ canon' = [canon EXCEPT ![r] = row] /\ ledger' = [ledger EXCEPT ![r] = led]
  BY HostFacts
<1>2. written' = [written EXCEPT ![r] = version + 1]
  BY HostFacts
<1>3. canon \in [Row -> Rows] /\ ledger \in [Row -> Nat] /\ written \in [Row -> Nat]
  BY DEF Data, Shapes
<1>4. canon'[r] = row /\ ledger'[r] = led
      /\ \A x \in Row \ {r} : canon'[x] = canon[x] /\ ledger'[x] = ledger[x] /\ written'[x] = written[x]
  BY <1>1, <1>2, <1>3
<1>5. canon[r].rev \in Nat /\ ledger[r] \in Nat /\ canon[r].exists \in BOOLEAN
      /\ (canon[r].exists => canon[r].rev >= ledger[r])
  BY <1>3, RowType DEF Stamped
<1>6. Stamp(r) = IF canon[r].exists THEN canon[r].rev ELSE ledger[r]
  BY DEF Stamp
<1>7. Stamp(r)' = IF row.exists THEN row.rev ELSE led
  BY <1>4 DEF Stamp
<1>8. CASE canon[r].exists /\ row = Present(canon[r].rev + 1, version + 1) /\ led = ledger[r]
  <2>1. row.exists /\ row.rev = canon[r].rev + 1
    BY <1>8 DEF Present
  <2>2. QED
    BY <1>4, <1>5, <1>6, <1>7, <1>8, <2>1
<1>9. CASE canon[r].exists /\ row = Absent /\ led = Deleted(canon[r], ledger[r])
  <2>1. ~row.exists /\ led = canon[r].rev
    BY <1>5, <1>9 DEF Absent, Deleted, Larger
  <2>2. QED
    BY <1>4, <1>5, <1>6, <1>7, <1>9, <2>1
<1>10. CASE ~canon[r].exists /\ row = Present(Inserted(ledger[r]), version + 1)
            /\ led = IF Revisioned THEN Inserted(ledger[r]) ELSE ledger[r]
  <2>1. row.exists /\ row.rev = ledger[r] + 1 /\ led = ledger[r] + 1
    BY <1>10 DEF Present, Inserted
  <2>2. QED
    BY <1>4, <1>5, <1>6, <1>7, <1>10, <2>1
<1>11. QED
  BY <1>1, <1>8, <1>9, <1>10 DEF HostWrites

LEMMA HostAnchored ==
  ASSUME Revisioned, Located, Data, Stamped, NEW r \in Row, HostWrite(r),
         NEW x \in Row, NEW a \in Anchors, Anchored(x, a)
  PROVE  Anchored(x, a)'
<1>1. a.baseRev \in Nat /\ a.baseExists \in BOOLEAN
  BY DEF Anchors
<1>2. /\ Stamp(r) \in Nat /\ Stamp(r)' \in Nat
      /\ Stamp(r)' > Stamp(r) \/ (Stamp(r)' = Stamp(r) /\ canon[r].exists /\ ~canon'[r].exists)
      /\ \A y \in Row \ {r} : canon'[y] = canon[y] /\ ledger'[y] = ledger[y] /\ written'[y] = written[y]
  BY HostStamps
<1>3. CASE x # r
  <2>1. Stamp(x)' = Stamp(x) /\ canon'[x] = canon[x] /\ written'[x] = written[x]
    BY <1>2, <1>3 DEF Stamp
  <2>2. QED
    BY <2>1 DEF Anchored
<1>4. CASE x = r
  <2>1. PICK old \in Nat, new \in Nat : old = Stamp(r) /\ new = Stamp(r)'
    BY <1>2
  <2>2. \/ a.baseExists = canon[r].exists /\ a.baseRev = old
        \/ old > a.baseRev
        \/ a.baseExists /\ ~canon[r].exists /\ old >= a.baseRev
    BY <1>4, <2>1 DEF Anchored
  <2>3. new > old \/ (new = old /\ canon[r].exists /\ ~canon'[r].exists)
    BY <1>2, <2>1
  <2>4. new > a.baseRev \/ (a.baseExists /\ ~canon'[r].exists /\ new >= a.baseRev)
    BY <1>1, <2>2, <2>3
  <2>5. QED
    BY <1>4, <2>1, <2>4 DEF Anchored
<1>5. QED
  BY <1>3, <1>4

LEMMA HostKeeps ==
  ASSUME IInv, NEW r \in Row, HostWrite(r)
  PROVE  IInv'
<1>1. Located /\ Data
  BY IInvTypes
<1>2. Located' /\ Data'
  BY <1>1, HostTypes
<1>3. UNCHANGED <<draftVars, lockVars, pc, snap, mine, buffer, acked>> /\ Unlocked(r)
  BY <1>1, HostFacts
<1>4. Changed' = Changed /\ Changed \subseteq Row
  BY <1>3 DEF Changed, draftVars
<1>5. PICK row, led : canon' = [canon EXCEPT ![r] = row] /\ ledger' = [ledger EXCEPT ![r] = led]
  BY <1>1, HostFacts
<1>6. \A x \in Row \ {r} : canon'[x] = canon[x] /\ ledger'[x] = ledger[x]
  BY <1>1, <1>5 DEF Data, Shapes
<1>7. ASSUME NEW q \in Process PROVE Knows(q)'
  <2>1. Knows(q)
    BY DEF IInv
  <2>2. Current(q)' = Current(q) /\ pc'[q] = pc[q] /\ mine'[q] = mine[q] /\ buffer'[q] = buffer[q]
        /\ hold' = hold /\ lock' = lock /\ log' = log /\ change' = change
    BY <1>3 DEF Current, draftVars, lockVars
  <2>3. ASSUME Revisioned, NEW x \in Changed, lock[x] = q PROVE x # r
    <3>1. Revisioned => lock[r] = None
      BY <1>3 DEF Unlocked
    <3>2. QED
      BY <2>3, <3>1, NoneAssumption
  <2>4. ASSUME Revisioned, \A x \in Changed : lock[x] = q /\ ~RowConflict(change[x], canon[x], ledger[x])
        PROVE  \A x \in Changed : lock[x] = q /\ ~RowConflict(change[x], canon'[x], ledger'[x])
    BY <1>4, <1>6, <2>3, <2>4
  <2>5. QED
    BY <1>4, <2>1, <2>2, <2>4 DEF Knows
<1>8. Tracked'
  <2>1. SUFFICES ASSUME Revisioned, draft = "open" PROVE Tracked'
    BY <1>3 DEF Tracked, draftVars
  <2>2. Stamped /\ AllAnchored(change) /\ \A q \in Process : AllAnchored(buffer[q])
    BY <2>1 DEF IInv, Tracked
  <2>3. ASSUME NEW changes \in [Row -> Changes], AllAnchored(changes)
        PROVE  \A x \in Row : changes[x] # NoChange => Anchored(x, changes[x].anchor)'
    <3>1. ASSUME NEW x \in Row, changes[x] # NoChange PROVE Anchored(x, changes[x].anchor)'
      <4>1. PICK a \in Anchors : a = changes[x].anchor
        BY <2>3, <3>1, ChangeType
      <4>2. Anchored(x, a)
        BY <2>3, <3>1, <4>1 DEF AllAnchored
      <4>3. Anchored(x, a)'
        BY <1>1, <2>1, <2>2, <4>2, HostAnchored
      <4>4. QED
        BY <4>1, <4>3
    <3>2. QED
      BY <3>1
  <2>4. change \in [Row -> Changes] /\ \A q \in Process : buffer[q] \in [Row -> Changes]
    BY <1>1 DEF Data, Shapes
  <2>5. change' = change /\ buffer' = buffer
    BY <1>3 DEF draftVars
  <2>6. AllAnchored(change)' /\ \A q \in Process : AllAnchored(buffer[q])'
    BY <2>2, <2>3, <2>4, <2>5 DEF AllAnchored
  <2>7. Stamped'
    <3>1. canon'[r].exists => canon'[r].rev >= ledger'[r]
      BY <1>1, <2>1, <2>2, HostStamps
    <3>2. QED
      BY <1>6, <2>2, <3>1 DEF Stamped
  <2>8. QED
    BY <2>6, <2>7 DEF Tracked
<1>9. AppendsKept'
  BY <1>3 DEF IInv, AppendsKept, LogIsHistory, NothingLeftBehind, draftVars
<1>10. TypeOK' /\ Shapes'
  BY <1>2 DEF TypeOK, Located, Data
<1>11. QED
  BY <1>7, <1>8, <1>9, <1>10 DEF IInv

-----------------------------------------------------------------------------
(* The theorems *)

LEMMA InitIInv == Init => IInv
<1> SUFFICES ASSUME Init PROVE IInv
  OBVIOUS
<1>1. PICK there \in SUBSET Row :
        /\ canon = [r \in Row |-> IF r \in there THEN Present(1, 1) ELSE Absent]
        /\ ledger = [r \in Row |-> IF r \in there /\ Revisioned THEN 1 ELSE 0]
  BY DEF Init
<1>2. canon \in [Row -> Rows]
  BY <1>1, PresentType DEF Absent, Rows
<1>3. <<>> \in Seq(Command)
  BY EmptySeq
<1>4. ledger \in [Row -> Nat]
  BY <1>1
<1>5. "idle" \in Steps
  BY DEF Steps
<1>6. TypeOK
  BY <1>4, <1>5, AttemptsAssumption DEF Init, TypeOK
<1>7. Shapes
  BY <1>2, <1>3, NoChangesType DEF Init, Shapes
<1>8. \A p \in Process : Knows(p)
  BY DEF Init, Knows
<1>9. Revisioned => Stamped
  BY <1>1 DEF Stamped, Present, Absent
<1>10. AllAnchored(change) /\ \A p \in Process : AllAnchored(buffer[p])
  BY DEF Init, AllAnchored, NoChanges
<1>11. AppendsKept
  BY CompactEmpty DEF Init, AppendsKept, LogIsHistory, NothingLeftBehind
<1>12. QED
  BY <1>6, <1>7, <1>8, <1>9, <1>10, <1>11 DEF IInv, Tracked

LEMMA StepIInv == IInv /\ [Next]_vars => IInv'
<1> SUFFICES ASSUME IInv, [Next]_vars PROVE IInv'
  OBVIOUS
<1>1. CASE UNCHANGED vars
  <2>1. UNCHANGED <<draft, rev, log, change, canon, ledger, written, acked, lock, hold, pc, snap, mine, buffer>>
    BY <1>1 DEF vars, draftVars, canonVars, lockVars
  <2>2. Located' /\ Data'
    BY IInvTypes, TypesKept
  <2>3. TypeOK' /\ Shapes'
    BY <2>2 DEF TypeOK, Located, Data
  <2>4. \A p \in Process : Knows(p)'
    BY <2>1 DEF IInv, Knows, Current, Changed
  <2>5. Tracked' /\ AppendsKept'
    BY <2>1 DEF IInv, Tracked, Stamped, Stamp, AllAnchored, Anchored, AppendsKept, LogIsHistory,
       NothingLeftBehind
  <2>6. QED
    BY <2>3, <2>4, <2>5 DEF IInv
<1>2. ASSUME NEW p \in Process, Start(p) \/ Progress(p) PROVE IInv'
  <2>1. CASE Start(p)
    BY <2>1, StartKeeps
  <2>2. CASE AppendRun(p)
    BY <2>2, RunKeeps DEF AppendRun
  <2>3. CASE RebaseRun(p)
    BY <2>3, RunKeeps DEF RebaseRun
  <2>4. CASE \/ AppendBegin(p) \/ PublishLog(p) \/ PublishBegin(p) \/ DiscardBegin(p)
             \/ RebaseLog(p) \/ RebaseProbe(p) \/ RebaseReport(p) \/ RebaseConfirm(p) \/ RebaseBegin(p)
    BY <2>4, QuietKeeps
  <2>5. CASE \/ AppendRead(p) \/ AppendCommit(p) \/ PublishCheck(p) \/ PublishReplay(p)
             \/ PublishApply(p) \/ PublishCommit(p)
    BY <2>5, AppendReadKeeps, AppendCommitKeeps, PublishCheckKeeps, PublishReplayKeeps,
       PublishApplyKeeps, PublishCommitKeeps
  <2>6. CASE DiscardClear(p) \/ DiscardCommit(p) \/ RebaseClear(p) \/ RebaseCommit(p) \/ Abort(p)
    BY <2>6, DiscardClearKeeps, DiscardCommitKeeps, RebaseClearKeeps, RebaseCommitKeeps, AbortKeeps
  <2>7. QED
    BY <1>2, <2>1, <2>2, <2>3, <2>4, <2>5, <2>6 DEF Progress
<1>3. ASSUME NEW r \in Row, HostWrite(r) PROVE IInv'
  BY <1>3, HostKeeps
<1>4. QED
  BY <1>1, <1>2, <1>3 DEF Next

LEMMA Invariance == Spec => []IInv
<1>1. Init => IInv
  BY InitIInv
<1>2. IInv /\ [Next]_vars => IInv'
  BY StepIInv
<1>3. QED
  BY <1>1, <1>2, PTL DEF Spec

\* The variables hold what the code keeps in them; only a transaction holds
\* locks, and none is tried more often than the code allows.
THEOREM TypeCorrect == Spec => []TypeOK
<1>1. IInv => TypeOK
  BY DEF IInv
<1>2. QED
  BY <1>1, Invariance, PTL

\* appendStoredDraft's optimistic rewrites of the log lose no append that
\* returned, whatever compaction dropped meanwhile, and none outlives the draft
\* that a discard or a publication ended.
THEOREM DraftsKeepAppends == Spec => []AppendsKept
<1>1. IInv => AppendsKept
  BY DEF IInv
<1>2. QED
  BY <1>1, Invariance, PTL

\* The anchor's base revision tells every write of a row in a revisioned table
\* since the draft first touched it, its deletion and return too.
THEOREM AnchorsTellWrites == Spec => []AnchorsAreExact
<1>1. IInv => AnchorsAreExact
  <2>1. SUFFICES ASSUME IInv, Revisioned, NEW r \in Changed,
                        ~RowConflict(change[r], canon[r], ledger[r])
                 PROVE  change[r].anchor.seen = written[r]
    BY DEF AnchorsAreExact
  <2>2. draft = "open"
    BY <2>1 DEF IInv, AppendsKept, NothingLeftBehind, Changed, NoChanges
  <2>3. r \in Row /\ change[r] # NoChange
    BY DEF Changed
  <2>4. Anchored(r, change[r].anchor)
    BY <2>1, <2>2, <2>3 DEF IInv, Tracked, AllAnchored
  <2>5. change[r] \in Changes /\ canon[r] \in Rows /\ ledger[r] \in Nat
    BY <2>1, <2>3, IInvTypes, DataOf
  <2>6. change[r].anchor.baseExists = canon[r].exists /\ change[r].anchor.baseRev = Stamp(r)
    BY <2>1, <2>3 DEF RowConflict, Stamp
  <2>7. change[r].anchor.baseRev \in Nat
    BY <2>3, <2>5, ChangeType
  <2>8. QED
    BY <2>4, <2>6, <2>7 DEF Anchored
<1>2. QED
  BY <1>1, Invariance, PTL

\* Only a publication's commit publishes.
LEMMA PublishingStep ==
  ASSUME [Next]_vars, draft = "open", draft' = "published"
  PROVE  \E p \in Process : PublishCommit(p) /\ PublishWrites(p)
<1>1. draft' # draft
  OBVIOUS
<1>2. ~ UNCHANGED vars
  BY <1>1 DEF vars, draftVars
<1>3. ~ \E r \in Row : HostWrite(r)
  BY <1>1 DEF HostWrite, draftVars
<1>4. ASSUME NEW p \in Process PROVE ~Start(p) /\ ~Fail(p)
  BY <1>1 DEF Start, StartAppend, StartPublish, StartDiscard, StartRebase, Fail, draftVars
<1>5. ASSUME NEW p \in Process, NEW to PROVE ~Step(p, to)
  BY <1>1 DEF Step, draftVars
<1>6. ASSUME NEW p \in Process, Progress(p) PROVE PublishCommit(p) /\ PublishWrites(p)
  <2>1. ~AppendBegin(p) /\ ~AppendRead(p) /\ ~AppendRun(p) /\ ~AppendCommit(p)
    BY <1>1, <1>4, <1>5 DEF AppendBegin, AppendRead, AppendRun, RunCommand, AppendCommit, AppendWrites, draftVars
  <2>2. ~PublishLog(p) /\ ~PublishBegin(p) /\ ~PublishCheck(p) /\ ~PublishReplay(p) /\ ~PublishApply(p)
    BY <1>1, <1>4, <1>5 DEF PublishLog, PublishBegin, PublishCheck, PublishReplay, PublishApply, draftVars
  <2>3. ~DiscardBegin(p) /\ ~DiscardClear(p) /\ ~DiscardCommit(p)
    BY <1>1, <1>4, <1>5 DEF DiscardBegin, DiscardClear, HoldNext, DiscardCommit, DiscardWrites
  <2>4. ~RebaseLog(p) /\ ~RebaseProbe(p) /\ ~RebaseReport(p) /\ ~RebaseConfirm(p) /\ ~RebaseBegin(p)
    BY <1>1, <1>4, <1>5 DEF RebaseLog, RebaseProbe, RebaseReport, RebaseConfirm, RebaseBegin
  <2>5. ~RebaseClear(p) /\ ~RebaseRun(p) /\ ~RebaseCommit(p) /\ ~Abort(p)
    BY <1>1, <1>4, <1>5 DEF RebaseClear, HoldNext, RebaseRun, RunCommand, RebaseCommit, RebaseWrites, Abort, draftVars
  <2>6. PublishCommit(p)
    BY <1>6, <2>1, <2>2, <2>3, <2>4, <2>5 DEF Progress
  <2>7. QED
    BY <1>4, <2>6 DEF PublishCommit
<1>7. QED
  BY <1>2, <1>3, <1>4, <1>6 DEF Next

\* Publication's row locks, taken before it compares and held to its commit, make
\* it apply exactly the reviewed changes of a revisioned table's draft to exactly
\* the rows the draft anchored.
THEOREM PublicationIsReviewed == ASSUME Revisioned PROVE Spec => PublishIsReviewed
<1>1. ASSUME IInv, [Next]_vars, draft = "open", draft' = "published", NEW r \in Row
      PROVE  IF Reviewed(change[r])
               THEN /\ canon'[r] = AppliedRow(change[r])
                    /\ canon[r].exists = change[r].anchor.baseExists
                    /\ canon[r].val = change[r].anchor.original
                    /\ Revisioned => written[r] = change[r].anchor.seen
               ELSE canon'[r] = canon[r]
  <2>1. PICK p \in Process : PublishCommit(p) /\ PublishWrites(p)
    BY <1>1, PublishingStep
  <2>2. pc[p] = "publish.commit"
    BY <2>1 DEF PublishCommit, Ready
  <2>3. Current(p)
    <3>1. ~Fail(p)
      BY <1>1 DEF Fail, draftVars
    <3>2. QED
      BY <2>1, <3>1 DEF PublishCommit, Current
  <2>4. /\ buffer[p] = change
        /\ \A x \in Changed : ~RowConflict(change[x], canon[x], ledger[x])
    BY <1>1, <2>2, <2>3 DEF IInv, Knows
  <2>5. canon'[r] = IF Reviewed(change[r]) THEN AppliedRow(change[r]) ELSE canon[r]
    <3>1. canon' = [x \in Row |-> IF x \in {y \in Row : Reviewed(buffer[p][y])}
                                    THEN AppliedRow(buffer[p][x]) ELSE canon[x]]
      BY <2>1 DEF PublishWrites
    <3>2. QED
      BY <2>4, <3>1
  <2>6. CASE ~Reviewed(change[r])
    BY <2>5, <2>6
  <2>7. CASE Reviewed(change[r])
    <3>1. change[r] # NoChange /\ r \in Changed
      BY <2>7 DEF Reviewed, Changed
    <3>2. Anchored(r, change[r].anchor)
      BY <1>1, <3>1 DEF IInv, Tracked, AllAnchored
    <3>3. change[r].anchor.baseExists = canon[r].exists /\ change[r].anchor.baseRev = Stamp(r)
      BY <2>4, <3>1 DEF RowConflict, Stamp
    <3>4. change[r].anchor.baseRev \in Nat
      BY <1>1, <3>1, IInvTypes, DataOf, ChangeType
    <3>5. written[r] = change[r].anchor.seen /\ canon[r].val = change[r].anchor.original
      BY <3>2, <3>3, <3>4 DEF Anchored
    <3>6. QED
      BY <2>5, <2>7, <3>3, <3>5
  <2>8. QED
    BY <2>6, <2>7
<1>2. IInv /\ [Next]_vars =>
        [draft = "open" /\ draft' = "published" =>
           \A r \in Row :
             IF Reviewed(change[r])
               THEN /\ canon'[r] = AppliedRow(change[r])
                    /\ canon[r].exists = change[r].anchor.baseExists
                    /\ canon[r].val = change[r].anchor.original
                    /\ Revisioned => written[r] = change[r].anchor.seen
               ELSE canon'[r] = canon[r]]_vars
  BY <1>1
<1>3. QED
  BY <1>2, Invariance, PTL DEF Spec, PublishIsReviewed

-----------------------------------------------------------------------------
(* The replay of a log *)

Runs == [ok : BOOLEAN, change : [Row -> Changes]]
Fresh == [ok |-> TRUE, change |-> [r \in Row |-> NoChange]]

\* One command of a replay over the canonical rows cn, their ledger ld and writes wr
Ran(q, c, cn, ld, wr) ==
  IF ~q.ok \/ Refused(c, q.change[c.row], cn[c.row])
    THEN [q EXCEPT !.ok = FALSE]
    ELSE [q EXCEPT !.change[c.row] = Touched(c, @, cn[c.row], ld[c.row], wr[c.row])]

Canons == [Row -> Rows]
Stamps == [Row -> Nat]

LEMMA RanFacts ==
  ASSUME NEW q \in Runs, NEW c \in Command,
         NEW cn \in Canons, NEW ld \in Stamps, NEW wr \in Stamps
  PROVE  LET was == q.change[c.row]
             refused == ~q.ok \/ Refused(c, was, cn[c.row])
             to == Ran(q, c, cn, ld, wr)
         IN /\ to \in Runs
            /\ refused => ~to.ok /\ to.change = q.change
            /\ ~refused => to.ok
            /\ ~refused => to.change[c.row] = Touched(c, was, cn[c.row], ld[c.row], wr[c.row])
            /\ \A r \in Row \ {c.row} : to.change[r] = q.change[r]
<1>1. c.row \in Row /\ q.ok \in BOOLEAN /\ q.change \in [Row -> Changes] /\ q.change[c.row] \in Changes
      /\ cn[c.row] \in Rows /\ ld[c.row] \in Nat /\ wr[c.row] \in Nat
  BY CommandType DEF Runs, Canons, Stamps
<1>2. PICK r \in Row : r = c.row
  BY <1>1
<1>3. PICK was \in Changes : was = q.change[c.row]
  BY <1>1
<1>4. PICK now : now = Touched(c, was, cn[c.row], ld[c.row], wr[c.row])
  OBVIOUS
<1>5. now \in Changes
  BY <1>1, <1>3, <1>4, TouchedFacts
<1>6. PICK to : to = Ran(q, c, cn, ld, wr)
  OBVIOUS
<1>7. CASE ~q.ok \/ Refused(c, was, cn[c.row])
  <2>1. to = [q EXCEPT !.ok = FALSE]
    BY <1>3, <1>6, <1>7 DEF Ran
  <2>2. to \in Runs /\ ~to.ok /\ to.change = q.change
    BY <1>1, <2>1 DEF Runs
  <2>3. QED
    BY <1>3, <1>6, <1>7, <2>2
<1>8. CASE ~(~q.ok \/ Refused(c, was, cn[c.row]))
  <2>1. to = [q EXCEPT !.change[r] = now]
    BY <1>2, <1>3, <1>4, <1>6, <1>8 DEF Ran
  <2>2. to \in Runs /\ to.ok /\ to.change = [q.change EXCEPT ![r] = now]
    BY <1>1, <1>5, <1>8, <2>1 DEF Runs
  <2>3. QED
    BY <1>1, <1>2, <1>3, <1>4, <1>6, <1>8, <2>2
<1>9. QED
  BY <1>7, <1>8

Replays(g, l, cn, ld, wr) ==
  /\ g[0] = Fresh
  /\ \A i \in 1 .. Len(l) : g[i] = Ran(g[i - 1], l[i], cn, ld, wr)
  /\ Replay(l, cn, ld, wr) = g[Len(l)]

LEMMA ReplayTurns ==
  ASSUME NEW l \in Seq(Command), NEW cn \in Canons, NEW ld \in Stamps, NEW wr \in Stamps
  PROVE  \E g : g \in [0 .. Len(l) -> Runs] /\ Replays(g, l, cn, ld, wr)
<1> DEFINE n == Len(l)
<1> DEFINE Is(g) == g = [i \in 0 .. n |-> IF i = 0 THEN Fresh ELSE Ran(g[i - 1], l[i], cn, ld, wr)]
<1>1. n \in Nat /\ \A i \in 1 .. n : l[i] \in Command
  BY LenProperties, ElementOfSeq
<1>2. PICK g \in [0 .. n -> Runs] :
        g[0] = Fresh /\ \A i \in 1 .. n : g[i] = Ran(g[i - 1], l[i], cn, ld, wr)
  <2> DEFINE F == [i \in 1 .. n |-> [q \in Runs |-> Ran(q, l[i], cn, ld, wr)]]
  <2>1. \A i \in 1 .. n, q \in Runs : Ran(q, l[i], cn, ld, wr) \in Runs
    <3>1. ASSUME NEW i \in 1 .. n, NEW q \in Runs PROVE Ran(q, l[i], cn, ld, wr) \in Runs
      BY <1>1, RanFacts
    <3>2. QED
      BY <3>1
  <2>2. F \in [1 .. n -> [Runs -> Runs]]
    BY <2>1
  <2>3. \A i \in 1 .. n, q \in Runs : F[i][q] = Ran(q, l[i], cn, ld, wr)
    OBVIOUS
  <2>4. Turns(F, n, Runs)
    BY <2>2 DEF Turns
  <2>5. Fresh \in Runs
    BY DEF Fresh, Runs, Changes
  <2> HIDE DEF F, n, Is
  <2>6. PICK g : Iterates(g, n, Runs, Fresh, F)
    BY <1>1, <2>4, <2>5, Recursion
  <2> USE DEF Iterates
  <2>7. \A i \in 1 .. n : g[i - 1] \in Runs
    BY <1>1, <2>6
  <2>8. \A i \in 1 .. n : g[i] = Ran(g[i - 1], l[i], cn, ld, wr)
    BY <2>3, <2>6, <2>7
  <2>9. QED
    BY <2>6, <2>8
<1>3. Is(g)
  <2>1. g = [i \in 0 .. n |-> g[i]]
    BY <1>2
  <2>2. \A i \in 0 .. n : g[i] = IF i = 0 THEN Fresh ELSE Ran(g[i - 1], l[i], cn, ld, wr)
    <3>1. \A i \in 0 .. n : i = 0 \/ i \in 1 .. n
      BY <1>1
    <3> HIDE DEF n, Is
    <3>2. QED
      BY <1>2, <3>1
  <2>3. QED
    BY <2>1, <2>2
<1> DEFINE h == CHOOSE f : Is(f)
<1>4. Replay(l, cn, ld, wr) = h[n]
  BY Zenon DEF Replay, Fresh, Ran
<1> HIDE DEF Is
<1>5. Is(h)
  BY <1>3, Zenon
<1> HIDE DEF h
<1>6. \A i \in 0 .. n : h[i] = IF i = 0 THEN Fresh ELSE Ran(h[i - 1], l[i], cn, ld, wr)
  BY <1>5 DEF Is
<1>7. \A i \in 0 .. n : h[i] = g[i]
  <2> DEFINE N == {i \in Nat : i <= n => h[i] = g[i]}
  <2>1. 0 \in N
    BY <1>1, <1>2, <1>6
  <2>2. ASSUME NEW i \in Nat, i \in N PROVE i + 1 \in N
    <3>1. SUFFICES ASSUME i + 1 <= n PROVE h[i + 1] = g[i + 1]
      OBVIOUS
    <3>2. i + 1 \in 1 .. n /\ i + 1 \in 0 .. n /\ (i + 1) - 1 = i /\ h[i] = g[i]
      BY <1>1, <2>2, <3>1
    <3>3. h[i + 1] = Ran(h[(i + 1) - 1], l[i + 1], cn, ld, wr)
      BY <1>6, <3>2
    <3>4. g[i + 1] = Ran(g[(i + 1) - 1], l[i + 1], cn, ld, wr)
      BY <1>2, <3>2
    <3>5. QED
      BY <3>2, <3>3, <3>4
  <2> HIDE DEF N
  <2>3. \A i \in Nat : i \in N
    BY <2>1, <2>2, Induction
  <2>4. QED
    BY <1>1, <2>3 DEF N
<1>8. h[n] = g[n]
  BY <1>1, <1>7
<1>9. QED
  BY <1>2, <1>4, <1>8 DEF Replays

LEMMA ReplayEmpty ==
  ASSUME NEW cn \in Canons, NEW ld \in Stamps, NEW wr \in Stamps
  PROVE  Replay(<<>>, cn, ld, wr) = Fresh
<1>1. <<>> \in Seq(Command) /\ Len(<<>>) = 0
  BY EmptySeq
<1>2. PICK g : Replays(g, <<>>, cn, ld, wr)
  BY <1>1, ReplayTurns
<1>3. QED
  BY <1>1, <1>2 DEF Replays

LEMMA ReplayType ==
  ASSUME NEW l \in Seq(Command), NEW cn \in Canons, NEW ld \in Stamps, NEW wr \in Stamps
  PROVE  Replay(l, cn, ld, wr) \in Runs
<1>1. PICK g : g \in [0 .. Len(l) -> Runs] /\ Replays(g, l, cn, ld, wr)
  BY ReplayTurns
<1>2. Len(l) \in 0 .. Len(l)
  BY LenProperties
<1>3. QED
  BY <1>1, <1>2 DEF Replays

\* A replay goes on where it stopped.
LEMMA ReplayAppend ==
  ASSUME NEW l \in Seq(Command), NEW c \in Command,
         NEW cn \in Canons, NEW ld \in Stamps, NEW wr \in Stamps
  PROVE  Replay(Append(l, c), cn, ld, wr) = Ran(Replay(l, cn, ld, wr), c, cn, ld, wr)
<1> DEFINE n == Len(l)
<1> DEFINE t == Append(l, c)
<1>1. t \in Seq(Command) /\ n \in Nat /\ Len(t) = n + 1 /\ t[n + 1] = c /\ \A i \in 1 .. n : t[i] = l[i]
  BY AppendFacts
<1>2. PICK g : /\ g[0] = Fresh
               /\ \A i \in 1 .. n : g[i] = Ran(g[i - 1], l[i], cn, ld, wr)
               /\ Replay(l, cn, ld, wr) = g[n]
  BY ReplayTurns DEF Replays
<1> HIDE DEF t, n
<1>3. PICK h : /\ h[0] = Fresh
               /\ \A i \in 1 .. n + 1 : h[i] = Ran(h[i - 1], t[i], cn, ld, wr)
               /\ Replay(t, cn, ld, wr) = h[n + 1]
  <2>1. PICK h : Replays(h, t, cn, ld, wr)
    BY <1>1, ReplayTurns
  <2>2. QED
    BY <1>1, <2>1 DEF Replays
<1>4. \A i \in 0 .. n : h[i] = g[i]
  <2> DEFINE N == {i \in Nat : i <= n => h[i] = g[i]}
  <2>1. 0 \in N
    BY <1>2, <1>3
  <2>2. ASSUME NEW i \in Nat, i \in N PROVE i + 1 \in N
    <3>1. SUFFICES ASSUME i + 1 <= n PROVE h[i + 1] = g[i + 1]
      OBVIOUS
    <3>2. i + 1 \in 1 .. n /\ i + 1 \in 1 .. n + 1 /\ (i + 1) - 1 = i /\ h[i] = g[i] /\ t[i + 1] = l[i + 1]
      BY <1>1, <2>2, <3>1
    <3>3. /\ h[i + 1] = Ran(h[(i + 1) - 1], t[i + 1], cn, ld, wr)
          /\ g[i + 1] = Ran(g[(i + 1) - 1], l[i + 1], cn, ld, wr)
      BY <1>2, <1>3, <3>2
    <3>4. QED
      BY <3>2, <3>3
  <2> HIDE DEF N
  <2>3. \A i \in Nat : i \in N
    BY <2>1, <2>2, Induction
  <2>4. QED
    BY <1>1, <2>3 DEF N
<1>5. h[n] = g[n] /\ n + 1 \in 1 .. n + 1 /\ (n + 1) - 1 = n
  BY <1>1, <1>4
<1>6. h[n + 1] = Ran(h[(n + 1) - 1], t[n + 1], cn, ld, wr)
  BY <1>3, <1>5
<1>7. QED
  BY <1>1, <1>2, <1>3, <1>5, <1>6 DEF t, n

-----------------------------------------------------------------------------
(* One row of a replay *)

OfRow(r) == {d \in Command : d.row = r}
Over(v) == [r \in Row |-> v]

\* The commands of r alone, run over a canonical row with its ledger entry and
\* last write; what they leave of it, and whether none is refused
RowRun(s, r, row, led, seen) == Replay(Only(s, OfRow(r)), Over(row), Over(led), Over(seen))
Goes(s, r, row, led, seen) == RowRun(s, r, row, led, seen).ok
Leaves(s, r, row, led, seen) == RowRun(s, r, row, led, seen).change[r]

LEMMA OnlyType ==
  ASSUME NEW S, NEW s \in Seq(S), NEW G
  PROVE  Only(s, G) \in Seq(S)
  BY FilterType DEF Only

LEMMA OverTypes ==
  ASSUME NEW row \in Rows, NEW led \in Nat, NEW seen \in Nat
  PROVE  Over(row) \in Canons /\ Over(led) \in Stamps /\ Over(seen) \in Stamps
  BY DEF Over, Canons, Stamps

LEMMA RowRunEmpty ==
  ASSUME NEW r \in Row, NEW row \in Rows, NEW led \in Nat, NEW seen \in Nat
  PROVE  Goes(<<>>, r, row, led, seen) /\ Leaves(<<>>, r, row, led, seen) = NoChange
<1>1. Only(<<>>, OfRow(r)) = <<>>
  BY FilterEmpty DEF Only
<1>2. RowRun(<<>>, r, row, led, seen) = Fresh
  BY <1>1, OverTypes, ReplayEmpty DEF RowRun
<1>3. QED
  BY <1>2 DEF Goes, Leaves, Fresh

LEMMA RowRunType ==
  ASSUME NEW s \in Seq(Command), NEW r \in Row,
         NEW row \in Rows, NEW led \in Nat, NEW seen \in Nat
  PROVE  /\ RowRun(s, r, row, led, seen) \in Runs
         /\ Goes(s, r, row, led, seen) \in BOOLEAN /\ Leaves(s, r, row, led, seen) \in Changes
<1>1. RowRun(s, r, row, led, seen) \in Runs
  BY OnlyType, OverTypes, ReplayType DEF RowRun
<1>2. QED
  BY <1>1 DEF Runs, Goes, Leaves

\* Another row's command leaves a row's run; one of its own goes on from it.
LEMMA RowRunStep ==
  ASSUME NEW s \in Seq(Command), NEW c \in Command, NEW r \in Row,
         NEW row \in Rows, NEW led \in Nat, NEW seen \in Nat
  PROVE  LET t == Append(s, c)
             was == Leaves(s, r, row, led, seen)
             ok == Goes(s, r, row, led, seen) /\ ~Refused(c, was, row)
         IN /\ c.row # r => /\ Goes(t, r, row, led, seen) = Goes(s, r, row, led, seen)
                            /\ Leaves(t, r, row, led, seen) = was
            /\ c.row = r => /\ Goes(t, r, row, led, seen) <=> ok
                            /\ ok => Leaves(t, r, row, led, seen) = Touched(c, was, row, led, seen)
<1>1. Only(Append(s, c), OfRow(r)) = IF c.row = r THEN Append(Only(s, OfRow(r)), c) ELSE Only(s, OfRow(r))
  BY OnlyAppend DEF OfRow
<1>2. CASE c.row # r
  BY <1>1, <1>2 DEF Goes, Leaves, RowRun
<1>3. CASE c.row = r
  <2>1. PICK q : q = RowRun(s, r, row, led, seen)
    OBVIOUS
  <2>2. PICK to : to = RowRun(Append(s, c), r, row, led, seen)
    OBVIOUS
  <2>3. to = Ran(q, c, Over(row), Over(led), Over(seen))
    BY <1>1, <1>3, <2>1, <2>2, OnlyType, OverTypes, ReplayAppend DEF RowRun
  <2>4. q \in Runs /\ to \in Runs
    BY <2>1, <2>2, RowRunType, AppendFacts
  <2>5. Over(row)[r] = row /\ Over(led)[r] = led /\ Over(seen)[r] = seen
    BY DEF Over
  <2>6. LET was == q.change[c.row]
            refused == ~q.ok \/ Refused(c, was, Over(row)[c.row])
        IN /\ refused => ~to.ok
           /\ ~refused => to.ok
           /\ ~refused => to.change[c.row] = Touched(c, was, Over(row)[c.row], Over(led)[c.row], Over(seen)[c.row])
    BY <2>3, <2>4, OverTypes, RanFacts
  <2>7. LET was == q.change[r]
            ok == q.ok /\ ~Refused(c, was, row)
        IN /\ to.ok <=> ok
           /\ ok => to.change[r] = Touched(c, was, row, led, seen)
    BY <1>3, <2>4, <2>5, <2>6 DEF Runs
  <2>8. QED
    BY <1>3, <2>1, <2>2, <2>7 DEF Goes, Leaves
<1>4. QED
  BY <1>2, <1>3

-----------------------------------------------------------------------------
(* What a change may be, and when two do as well *)

\* The stamp an anchor keeps of a row
StampOf(row, led) == IF row.exists THEN row.rev ELSE led

\* A change that commands can have left over a row: it is anchored at the row,
\* and its revision is ahead of what publication raises the row to.
Sound(x, row, led, seen) ==
  /\ x \in Changes
  /\ x # NoChange =>
       /\ x.anchor = Anchor(row, led, seen)
       /\ x.op = "update" => row.exists /\ (Revisioned => x.rev >= row.rev + 1)
       /\ x.op = "insert" /\ Revisioned => x.rev >= StampOf(row, led) + 1

\* A change that leaves no row, and two that leave the same one or none
Gone(x, row) == IF row.exists THEN x # NoChange /\ x.op = "delete"
                ELSE x = NoChange \/ x.op = "delete"
Alike(x, y, row) == x = y \/ (Gone(x, row) /\ Gone(y, row))

LEMMA GoneEffective ==
  ASSUME NEW x \in Changes, NEW row \in Rows, Gone(x, row)
  PROVE  ~Effective(x, row).exists
  BY RowType DEF Gone, Effective, Absent

LEMMA NotDeleted ==
  ASSUME NEW x \in Changes, NEW row \in Rows, ~Gone(x, row)
  PROVE  Effective(x, row).exists /\ (x # NoChange => x.op \in {"insert", "update"})
         /\ (x = NoChange => Effective(x, row) = row /\ row.exists)
         /\ (x # NoChange => Effective(x, row) = Present(x.rev, x.val))
<1>1. CASE x = NoChange
  <2>1. row.exists
    BY <1>1, RowType DEF Gone
  <2>2. Effective(x, row) = row
    BY <1>1 DEF Effective, NoChange
  <2>3. QED
    BY <1>1, <2>1, <2>2
<1>2. CASE x # NoChange
  <2>1. x.op \in {"insert", "update"}
    BY <1>2, ChangeType, RowType DEF Gone
  <2>2. Effective(x, row) = Present(x.rev, x.val)
    BY <1>2, <2>1 DEF Effective
  <2>3. QED
    BY <1>2, <2>1, <2>2 DEF Present
<1>3. QED
  BY <1>1, <1>2

\* An insert is refused but where there is no row.
LEMMA InsertsOnGone ==
  ASSUME NEW c \in Command, c.op = "insert", NEW x \in Changes, NEW row \in Rows
  PROVE  Refused(c, x, row) <=> ~Gone(x, row)
  BY RowType DEF Refused, InsertAvailable, Gone

\* What a command that writes leaves, field by field
LEMMA WriteFields ==
  ASSUME NEW c \in Command, NEW x \in Changes, NEW row \in Rows, NEW led \in Nat, NEW seen \in Nat,
         Writes(c, x, row)
  PROVE  LET to == Touched(c, x, row, led, seen)
             before == Effective(x, row)
         IN /\ to # NoChange
            /\ to.op = IF x # NoChange /\ x.op = "insert" /\ c.op = "update" THEN "insert" ELSE c.op
            /\ to.anchor = IF x = NoChange THEN Anchor(row, led, seen) ELSE x.anchor
            /\ Revisioned /\ c.op = "insert" => to.rev = 1 + StampOf(row, led)
            /\ Revisioned /\ c.op = "update" => to.rev = before.rev + 1
            /\ ~Revisioned => to.rev = 0
            /\ to.val = IF c.op = "delete" THEN before.val ELSE c.val
<1> DEFINE before == Effective(x, row)
<1>1. PICK to : to = Touched(c, x, row, led, seen)
  OBVIOUS
<1>2. PICK n : n = IF ~Revisioned THEN 0
                   ELSE CASE c.op = "insert" -> 1 + IF row.exists THEN row.rev ELSE led
                          [] c.op = "update" -> before.rev + 1
                          [] c.op = "delete" -> before.rev
  OBVIOUS
<1>3. to = [op     |-> IF x # NoChange /\ x.op = "insert" /\ c.op = "update" THEN "insert" ELSE c.op,
            rev    |-> n,
            val    |-> IF c.op = "delete" THEN before.val ELSE c.val,
            anchor |-> IF x = NoChange THEN Anchor(row, led, seen) ELSE x.anchor]
  BY <1>1, <1>2 DEF Touched, WriteDraftRow
<1>4. c.op \in {"insert", "update", "delete"}
  BY CommandType
<1>5. /\ to.op = IF x # NoChange /\ x.op = "insert" /\ c.op = "update" THEN "insert" ELSE c.op
      /\ to.rev = n
      /\ to.val = IF c.op = "delete" THEN before.val ELSE c.val
      /\ to.anchor = IF x = NoChange THEN Anchor(row, led, seen) ELSE x.anchor
  BY <1>3
<1>6. to # NoChange
  BY <1>4, <1>5 DEF NoChange
<1>7. /\ Revisioned /\ c.op = "insert" => n = 1 + StampOf(row, led)
      /\ Revisioned /\ c.op = "update" => n = before.rev + 1
      /\ ~Revisioned => n = 0
  BY <1>2, <1>4 DEF StampOf
<1>8. QED
  BY <1>1, <1>5, <1>6, <1>7

\* Commands leave sound changes.
LEMMA TouchedSound ==
  ASSUME NEW c \in Command, NEW x, NEW row \in Rows, NEW led \in Nat, NEW seen \in Nat,
         Sound(x, row, led, seen)
  PROVE  Sound(Touched(c, x, row, led, seen), row, led, seen)
<1>1. x \in Changes
  BY DEF Sound
<1>2. PICK to : to = Touched(c, x, row, led, seen)
  OBVIOUS
<1>3. to \in Changes
  BY <1>1, <1>2, TouchedFacts
<1>4. CASE ~Writes(c, x, row)
  BY <1>4 DEF Touched
<1>5. CASE Writes(c, x, row)
  <2>1. PICK before : before = Effective(x, row)
    OBVIOUS
  <2>2. /\ to # NoChange
        /\ to.op = IF x # NoChange /\ x.op = "insert" /\ c.op = "update" THEN "insert" ELSE c.op
        /\ to.anchor = IF x = NoChange THEN Anchor(row, led, seen) ELSE x.anchor
        /\ Revisioned /\ c.op = "insert" => to.rev = 1 + StampOf(row, led)
        /\ Revisioned /\ c.op = "update" => to.rev = before.rev + 1
    BY <1>1, <1>2, <1>5, <2>1, WriteFields
  <2>3. to.anchor = Anchor(row, led, seen)
    BY <2>2 DEF Sound
  <2>4. row.exists \in BOOLEAN /\ row.rev \in Nat /\ StampOf(row, led) \in Nat
    BY RowType DEF StampOf
  <2>5. c.op = "update" => ~Gone(x, row)
    BY <1>1, <1>5, GoneEffective DEF Writes
  <2>6. ASSUME to.op = "update" PROVE row.exists /\ (Revisioned => to.rev >= row.rev + 1)
    <3>1. c.op = "update" /\ ~(x # NoChange /\ x.op = "insert")
      BY <2>2, <2>6
    <3>2. CASE x = NoChange
      BY <1>1, <2>1, <2>2, <2>4, <2>5, <3>1, <3>2, NotDeleted
    <3>3. CASE x # NoChange
      <4>1. x.op = "update" /\ before = Present(x.rev, x.val)
        BY <1>1, <2>1, <2>5, <3>1, <3>3, NotDeleted
      <4>2. row.exists /\ (Revisioned => x.rev >= row.rev + 1)
        BY <3>3, <4>1 DEF Sound
      <4>3. Revisioned => before.rev = x.rev
        BY <4>1 DEF Present
      <4>4. x.rev \in Nat
        BY <1>1, <3>3, ChangeType
      <4>5. QED
        BY <2>2, <2>4, <3>1, <4>2, <4>3, <4>4
    <3>4. QED
      BY <3>2, <3>3
  <2>7. ASSUME to.op = "insert", Revisioned PROVE to.rev >= StampOf(row, led) + 1
    <3>1. CASE c.op = "insert"
      BY <2>2, <2>4, <2>7, <3>1
    <3>2. CASE c.op # "insert"
      <4>1. x # NoChange /\ x.op = "insert" /\ c.op = "update"
        BY <2>2, <2>7, <3>2
      <4>2. before = Present(x.rev, x.val) /\ x.rev >= StampOf(row, led) + 1
        BY <1>1, <2>1, <2>5, <2>7, <4>1, NotDeleted DEF Sound
      <4>3. before.rev = x.rev /\ x.rev \in Nat
        BY <1>1, <2>7, <4>1, <4>2, ChangeType DEF Present
      <4>4. QED
        BY <2>2, <2>4, <2>7, <4>1, <4>2, <4>3
    <3>3. QED
      BY <3>1, <3>2
  <2>8. Sound(to, row, led, seen)
    BY <1>3, <2>3, <2>6, <2>7 DEF Sound
  <2>9. QED
    BY <1>2, <2>8
<1>6. QED
  BY <1>4, <1>5

\* A delete leaves no row.
LEMMA DeleteIsGone ==
  ASSUME NEW c \in Command, c.op = "delete", NEW x \in Changes,
         NEW row \in Rows, NEW led \in Nat, NEW seen \in Nat
  PROVE  Gone(Touched(c, x, row, led, seen), row)
<1>1. CASE Writes(c, x, row)
  <2>1. PICK to : to = Touched(c, x, row, led, seen)
    OBVIOUS
  <2>2. to # NoChange /\ to.op = "delete"
    BY <1>1, <2>1, WriteFields
  <2>3. QED
    BY <2>1, <2>2, RowType DEF Gone
<1>2. CASE ~Writes(c, x, row)
  <2>1. Touched(c, x, row, led, seen) = x
    BY <1>2 DEF Touched
  <2>2. Gone(x, row)
    BY <1>2, NotDeleted DEF Writes
  <2>3. QED
    BY <2>1, <2>2
<1>3. QED
  BY <1>1, <1>2

\* An update of a row that is not there writes nothing.
LEMMA UpdateOfGone ==
  ASSUME NEW c \in Command, c.op = "update", NEW x \in Changes,
         NEW row \in Rows, NEW led \in Nat, NEW seen \in Nat, Gone(x, row)
  PROVE  Touched(c, x, row, led, seen) = x
  BY GoneEffective DEF Touched, Writes

\* Inserts over changes that leave no row leave the same change.
LEMMA InsertsAlike ==
  ASSUME NEW c \in Command, c.op = "insert", NEW x, NEW y,
         NEW row \in Rows, NEW led \in Nat, NEW seen \in Nat,
         Sound(x, row, led, seen), Sound(y, row, led, seen)
  PROVE  Touched(c, x, row, led, seen) = Touched(c, y, row, led, seen)
<1> DEFINE fixed == [op |-> "insert",
                     rev |-> IF ~Revisioned THEN 0 ELSE 1 + (IF row.exists THEN row.rev ELSE led),
                     val |-> c.val, anchor |-> Anchor(row, led, seen)]
<1>1. ASSUME NEW z, Sound(z, row, led, seen) PROVE Touched(c, z, row, led, seen) = fixed
  <2>1. Touched(c, z, row, led, seen) = WriteDraftRow(z, row, led, seen, "insert", c.val)
    BY DEF Touched, Writes
  <2>2. (IF z = NoChange THEN Anchor(row, led, seen) ELSE z.anchor) = Anchor(row, led, seen)
    BY <1>1 DEF Sound
  <2>3. WriteDraftRow(z, row, led, seen, "insert", c.val)
          = [op     |-> IF z # NoChange /\ z.op = "insert" /\ "insert" = "update" THEN "insert" ELSE "insert",
             rev    |-> IF ~Revisioned THEN 0 ELSE 1 + (IF row.exists THEN row.rev ELSE led),
             val    |-> c.val,
             anchor |-> IF z = NoChange THEN Anchor(row, led, seen) ELSE z.anchor]
    BY DEF WriteDraftRow
  <2>4. QED
    BY <2>1, <2>2, <2>3
<1>2. QED
  BY <1>1

\* Commands do not tell alike changes apart.
LEMMA AlikeStep ==
  ASSUME NEW c \in Command, NEW x, NEW y,
         NEW row \in Rows, NEW led \in Nat, NEW seen \in Nat,
         Sound(x, row, led, seen), Sound(y, row, led, seen), Alike(x, y, row)
  PROVE  /\ Refused(c, x, row) <=> Refused(c, y, row)
         /\ Alike(Touched(c, x, row, led, seen), Touched(c, y, row, led, seen), row)
<1>1. x \in Changes /\ y \in Changes
  BY DEF Sound
<1>2. CASE x = y
  BY <1>2 DEF Alike
<1>3. CASE Gone(x, row) /\ Gone(y, row)
  <2>1. CASE c.op = "insert"
    BY <1>1, <1>3, <2>1, InsertsOnGone, InsertsAlike DEF Alike
  <2>2. CASE c.op = "update"
    BY <1>1, <1>3, <2>2, UpdateOfGone DEF Alike, Refused
  <2>3. CASE c.op = "delete"
    BY <1>1, <2>3, DeleteIsGone DEF Alike, Refused
  <2>4. QED
    BY <2>1, <2>2, <2>3, CommandType
<1>4. QED
  BY <1>2, <1>3 DEF Alike

LEMMA NoChangeSound ==
  ASSUME NEW row, NEW led, NEW seen
  PROVE  Sound(NoChange, row, led, seen)
  BY DEF Sound, Changes

\* What a row's run leaves is sound.
LEMMA RunIsSound ==
  ASSUME NEW r \in Row, NEW row \in Rows, NEW led \in Nat, NEW seen \in Nat, NEW s \in Seq(Command),
         Goes(s, r, row, led, seen)
  PROVE  Sound(Leaves(s, r, row, led, seen), row, led, seen)
<1> DEFINE T == {t \in Seq(Command) : Goes(t, r, row, led, seen) => Sound(Leaves(t, r, row, led, seen), row, led, seen)}
<1>1. <<>> \in T
  BY EmptySeq, RowRunEmpty, NoChangeSound
<1>2. ASSUME NEW t \in Seq(Command), NEW c \in Command, t \in T PROVE Append(t, c) \in T
  <2>1. Append(t, c) \in Seq(Command)
    BY AppendFacts
  <2>2. SUFFICES ASSUME Goes(Append(t, c), r, row, led, seen)
                 PROVE  Sound(Leaves(Append(t, c), r, row, led, seen), row, led, seen)
    BY <2>1
  <2>3. Goes(t, r, row, led, seen) => Sound(Leaves(t, r, row, led, seen), row, led, seen)
    BY <1>2
  <2> HIDE DEF T
  <2>4. CASE c.row # r
    BY <2>2, <2>3, <2>4, RowRunStep
  <2>5. CASE c.row = r
    <3>1. Goes(t, r, row, led, seen)
          /\ Leaves(Append(t, c), r, row, led, seen) = Touched(c, Leaves(t, r, row, led, seen), row, led, seen)
      BY <2>2, <2>5, RowRunStep
    <3>2. QED
      BY <2>3, <3>1, TouchedSound
  <2>6. QED
    BY <2>4, <2>5
<1> HIDE DEF T
<1>3. Seq(Command) \subseteq T
  BY <1>1, <1>2, SeqInduction
<1>4. QED
  BY <1>3 DEF T

\* Deletes alone are not refused and leave no row, if there is one of them or
\* there was no row.
Deletes(s, r) == \A d \in Items(s) : d.row = r => d.op = "delete"
Deleting(s, r) == \E d \in Items(s) : d.row = r /\ d.op = "delete"

LEMMA DeletesGone ==
  ASSUME NEW r \in Row, NEW row \in Rows, NEW led \in Nat, NEW seen \in Nat, NEW s \in Seq(Command),
         Deletes(s, r)
  PROVE  /\ Goes(s, r, row, led, seen)
         /\ ~row.exists \/ Deleting(s, r) => Gone(Leaves(s, r, row, led, seen), row)
         /\ (\A d \in Items(s) : d.row # r) => Leaves(s, r, row, led, seen) = NoChange
<1> DEFINE Is(t) == /\ Goes(t, r, row, led, seen)
                    /\ ~row.exists \/ Deleting(t, r) => Gone(Leaves(t, r, row, led, seen), row)
                    /\ (\A d \in Items(t) : d.row # r) => Leaves(t, r, row, led, seen) = NoChange
<1> DEFINE T == {t \in Seq(Command) : Deletes(t, r) => Is(t)}
<1>1. <<>> \in T
  <2>1. <<>> \in Seq(Command) /\ Items(<<>>) = {}
    BY EmptySeq DEF Items
  <2>2. Gone(NoChange, row) <=> ~row.exists
    BY RowType DEF Gone
  <2>3. QED
    BY <2>1, <2>2, RowRunEmpty DEF Deleting
<1>2. ASSUME NEW t \in Seq(Command), NEW c \in Command, t \in T PROVE Append(t, c) \in T
  <2>1. Append(t, c) \in Seq(Command) /\ Items(Append(t, c)) = Items(t) \cup {c}
    BY AppendFacts, ItemsAppend
  <2>2. SUFFICES ASSUME Deletes(Append(t, c), r) PROVE Is(Append(t, c))
    BY <2>1
  <2>3. Is(t) /\ (c.row = r => c.op = "delete")
    BY <1>2, <2>1, <2>2 DEF Deletes
  <2> HIDE DEF T
  <2>4. CASE c.row # r
    <3>1. Deleting(Append(t, c), r) <=> Deleting(t, r)
      BY <2>1, <2>4 DEF Deleting
    <3>2. (\A d \in Items(Append(t, c)) : d.row # r) <=> (\A d \in Items(t) : d.row # r)
      BY <2>1, <2>4
    <3>3. /\ Goes(Append(t, c), r, row, led, seen) = Goes(t, r, row, led, seen)
          /\ Leaves(Append(t, c), r, row, led, seen) = Leaves(t, r, row, led, seen)
      BY <2>4, RowRunStep
    <3>4. QED
      BY <2>3, <3>1, <3>2, <3>3
  <2>5. CASE c.row = r
    <3>1. ~Refused(c, Leaves(t, r, row, led, seen), row)
      BY <2>3, <2>5 DEF Refused
    <3>2. /\ Goes(Append(t, c), r, row, led, seen)
          /\ Leaves(Append(t, c), r, row, led, seen) = Touched(c, Leaves(t, r, row, led, seen), row, led, seen)
      BY <2>3, <2>5, <3>1, RowRunStep
    <3>3. Leaves(t, r, row, led, seen) \in Changes
      BY RowRunType
    <3>4. Gone(Leaves(Append(t, c), r, row, led, seen), row)
      BY <2>3, <2>5, <3>2, <3>3, DeleteIsGone
    <3>5. ~\A d \in Items(Append(t, c)) : d.row # r
      BY <2>1, <2>5
    <3>6. QED
      BY <3>2, <3>4, <3>5
  <2>6. QED
    BY <2>4, <2>5
<1> HIDE DEF T
<1>3. Seq(Command) \subseteq T
  BY <1>1, <1>2, SeqInduction
<1>4. Is(s)
  BY <1>3 DEF T
<1>5. QED
  BY <1>4

\* Over a row that is there, a run without a delete has no insert either and
\* deletes nothing.
LEMMA NoDeleteNoInsert ==
  ASSUME NEW r \in Row, NEW row \in Rows, NEW led \in Nat, NEW seen \in Nat, NEW s \in Seq(Command),
         row.exists, ~Deleting(s, r), Goes(s, r, row, led, seen)
  PROVE  /\ \A d \in Items(s) : d.row = r => d.op # "insert"
         /\ ~Gone(Leaves(s, r, row, led, seen), row)
<1> DEFINE Is(t) == /\ \A d \in Items(t) : d.row = r => d.op # "insert"
                    /\ ~Gone(Leaves(t, r, row, led, seen), row)
<1> DEFINE T == {t \in Seq(Command) : ~Deleting(t, r) /\ Goes(t, r, row, led, seen) => Is(t)}
<1>1. <<>> \in T
  <2>1. <<>> \in Seq(Command) /\ Items(<<>>) = {}
    BY EmptySeq DEF Items
  <2>2. ~Gone(NoChange, row)
    BY DEF Gone
  <2>3. QED
    BY <2>1, <2>2, RowRunEmpty
<1>2. ASSUME NEW t \in Seq(Command), NEW c \in Command, t \in T PROVE Append(t, c) \in T
  <2>1. Append(t, c) \in Seq(Command) /\ Items(Append(t, c)) = Items(t) \cup {c}
    BY AppendFacts, ItemsAppend
  <2>2. SUFFICES ASSUME ~Deleting(Append(t, c), r), Goes(Append(t, c), r, row, led, seen)
                 PROVE  Is(Append(t, c))
    BY <2>1
  <2>3. ~Deleting(t, r) /\ (c.row = r => c.op # "delete")
    BY <2>1, <2>2 DEF Deleting
  <2>4. Goes(t, r, row, led, seen) => Is(t)
    BY <1>2, <2>3
  <2> HIDE DEF T
  <2>5. CASE c.row # r
    <3>1. /\ Goes(Append(t, c), r, row, led, seen) = Goes(t, r, row, led, seen)
          /\ Leaves(Append(t, c), r, row, led, seen) = Leaves(t, r, row, led, seen)
      BY <2>5, RowRunStep
    <3>2. QED
      BY <2>1, <2>2, <2>4, <2>5, <3>1
  <2>6. CASE c.row = r
    <3>1. PICK x \in Changes : x = Leaves(t, r, row, led, seen)
      BY RowRunType
    <3>2. /\ Goes(t, r, row, led, seen) /\ ~Refused(c, x, row)
          /\ Leaves(Append(t, c), r, row, led, seen) = Touched(c, x, row, led, seen)
      BY <2>2, <2>6, <3>1, RowRunStep
    <3>3. Is(t) /\ ~Gone(x, row)
      BY <2>4, <3>1, <3>2
    <3>4. c.op = "update"
      BY <2>3, <2>6, <3>2, <3>3, InsertsOnGone, CommandType
    <3>5. Writes(c, x, row)
      BY <3>3, NotDeleted DEF Writes
    <3>6. PICK to : to = Touched(c, x, row, led, seen)
      OBVIOUS
    <3>7. to # NoChange /\ to.op # "delete"
      BY <3>4, <3>5, <3>6, WriteFields
    <3>8. ~Gone(to, row)
      BY <3>7 DEF Gone
    <3>9. QED
      BY <2>1, <3>2, <3>3, <3>4, <3>6, <3>8
  <2>7. QED
    BY <2>5, <2>6
<1> HIDE DEF T
<1>3. Seq(Command) \subseteq T
  BY <1>1, <1>2, SeqInduction
<1>4. Is(s)
  BY <1>3 DEF T
<1>5. QED
  BY <1>4

-----------------------------------------------------------------------------
(* A change fits a log *)

\* x is what the commands of r in s leave of it, but for how it is gone.
FitsIn(x, s, r, row, led, seen) ==
  /\ Sound(x, row, led, seen)
  /\ Goes(s, r, row, led, seen)
  /\ Alike(x, Leaves(s, r, row, led, seen), row)

LEMMA FitsEmpty ==
  ASSUME NEW r \in Row, NEW row \in Rows, NEW led \in Nat, NEW seen \in Nat
  PROVE  FitsIn(NoChange, <<>>, r, row, led, seen)
  BY RowRunEmpty, NoChangeSound DEF FitsIn, Alike

\* Another row's command leaves it, and a command of the row that is not refused
\* does to both the same.
LEMMA FitsAppend ==
  ASSUME NEW s \in Seq(Command), NEW c \in Command, NEW r \in Row, NEW x,
         NEW row \in Rows, NEW led \in Nat, NEW seen \in Nat, FitsIn(x, s, r, row, led, seen)
  PROVE  /\ c.row # r => FitsIn(x, Append(s, c), r, row, led, seen)
         /\ c.row = r /\ ~Refused(c, x, row) =>
              FitsIn(Touched(c, x, row, led, seen), Append(s, c), r, row, led, seen)
<1>1. PICK y : y = Leaves(s, r, row, led, seen)
  OBVIOUS
<1>2. Sound(x, row, led, seen) /\ Goes(s, r, row, led, seen) /\ Alike(x, y, row)
  BY <1>1 DEF FitsIn
<1>3. Sound(y, row, led, seen)
  BY <1>1, <1>2, RunIsSound
<1>4. c.row # r => FitsIn(x, Append(s, c), r, row, led, seen)
  BY <1>1, <1>2, RowRunStep DEF FitsIn
<1>5. ASSUME c.row = r, ~Refused(c, x, row)
      PROVE  FitsIn(Touched(c, x, row, led, seen), Append(s, c), r, row, led, seen)
  <2>1. ~Refused(c, y, row) /\ Alike(Touched(c, x, row, led, seen), Touched(c, y, row, led, seen), row)
    BY <1>2, <1>3, <1>5, AlikeStep
  <2>2. /\ Goes(Append(s, c), r, row, led, seen)
        /\ Leaves(Append(s, c), r, row, led, seen) = Touched(c, y, row, led, seen)
    BY <1>1, <1>2, <1>5, <2>1, RowRunStep
  <2>3. Sound(Touched(c, x, row, led, seen), row, led, seen)
    BY <1>2, TouchedSound
  <2>4. QED
    BY <2>1, <2>2, <2>3 DEF FitsIn
<1>6. QED
  BY <1>4, <1>5

\* A filter keeps the elements of its set.
LEMMA OnlyKeeps ==
  ASSUME NEW S, NEW s \in Seq(S), NEW G
  PROVE  \A d : d \in Items(Only(s, G)) <=> d \in Items(s) /\ d \in G
<1>1. Items(Only(s, G)) = {s[i] : i \in {j \in 1 .. Len(s) : s[j] \in G} \cap (1 .. Len(s))}
  <2> DEFINE K == {j \in 1 .. Len(s) : s[j] \in G}
  <2>1. Only(s, G) = Filtered(s, K)
    BY DEF Only
  <2> HIDE DEF K
  <2>2. Items(Filtered(s, K)) = {s[i] : i \in K \cap (1 .. Len(s))}
    BY FilterItems
  <2>3. QED
    BY <2>1, <2>2 DEF K
<1>2. QED
  BY <1>1 DEF Items

\* Of what a filter that keeps a set's elements leaves, the set picks the same.
LEMMA OnlyOnly ==
  ASSUME NEW S, NEW s \in Seq(S), NEW G, NEW H, H \subseteq G
  PROVE  Only(Only(s, G), H) = Only(s, H)
<1> DEFINE K == {i \in 1 .. Len(s) : s[i] \in G}
<1> DEFINE L == {i \in K \cap (1 .. Len(s)) : s[i] \in H}
<1> DEFINE M == {i \in 1 .. Len(s) : s[i] \in H}
<1>1. \A i \in 1 .. Len(s) : i \in L <=> i \in M
  OBVIOUS
<1>2. Only(s, G) = Filtered(s, K) /\ Only(s, H) = Filtered(s, M)
  BY DEF Only
<1> HIDE DEF K
<1>3. Only(Filtered(s, K), H) = Filtered(s, L)
  BY FilterOnly
<1> HIDE DEF L, M
<1>4. Filtered(s, L) = Filtered(s, M)
  BY <1>1, FilterSame
<1>5. QED
  BY <1>2, <1>3, <1>4

\* The commands a row's own do not drop
LEMMA LeftType ==
  ASSUME NEW s \in Seq(Command), NEW c \in Command
  PROVE  Only(s, Command \ Drops(c, Has(s, c))) \in Seq(Command) /\ OneMore(s, c) \in Seq(Command)
  BY OnlyType, AppendFacts DEF OneMore

\* Compaction drops nothing of other rows.
LEMMA OtherRowsKept ==
  ASSUME NEW s \in Seq(Command), NEW c \in Command, NEW r \in Row, c.row # r, NEW x,
         NEW row \in Rows, NEW led \in Nat, NEW seen \in Nat, FitsIn(x, s, r, row, led, seen)
  PROVE  FitsIn(x, OneMore(s, c), r, row, led, seen)
<1>1. PICK left : left = Only(s, Command \ Drops(c, Has(s, c)))
  OBVIOUS
<1>2. OfRow(r) \subseteq Command \ Drops(c, Has(s, c))
  BY DEF OfRow, Drops
<1>3. Only(left, OfRow(r)) = Only(s, OfRow(r)) /\ left \in Seq(Command)
  BY <1>1, <1>2, OnlyOnly, LeftType
<1>4. FitsIn(x, left, r, row, led, seen)
  BY <1>3 DEF FitsIn, Goes, Leaves, RowRun
<1>5. FitsIn(x, Append(left, c), r, row, led, seen)
  BY <1>3, <1>4, FitsAppend
<1>6. QED
  BY <1>1, <1>4, <1>5 DEF OneMore

\* A command without a key, and a keyed update, drop nothing.
LEMMA DropsNothing ==
  ASSUME NEW s \in Seq(Command), NEW c \in Command, ~c.keyed \/ c.op = "update"
  PROVE  OneMore(s, c) = Append(s, c)
<1>1. Drops(c, Has(s, c)) = {} /\ ~Cancels(c, Has(s, c))
  BY DEF Drops, Cancels
<1>2. Command \ Drops(c, Has(s, c)) = Command
  BY <1>1
<1>3. Only(s, Command) = s
  <2>1. 1 .. Len(s) \subseteq {i \in 1 .. Len(s) : s[i] \in Command}
    BY ElementOfSeq
  <2>2. QED
    BY <2>1, FilterAll DEF Only
<1>4. QED
  BY <1>1, <1>2, <1>3 DEF OneMore

\* Of a keyed row, compaction leaves what the row's commands left: before an
\* insert the row was gone, after a delete it is.
LEMMA OneMoreFits ==
  ASSUME NEW s \in Seq(Command), NEW c \in Command, NEW x,
         NEW row \in Rows, NEW led \in Nat, NEW seen \in Nat,
         FitsIn(x, s, c.row, row, led, seen), ~Refused(c, x, row),
         c.keyed => \A d \in Items(s) : d.row = c.row => d.keyed
  PROVE  FitsIn(Touched(c, x, row, led, seen), OneMore(s, c), c.row, row, led, seen)
<1>1. PICK r \in Row : r = c.row
  BY CommandType
<1>2. PICK has : has = Has(s, c)
  OBVIOUS
<1>3. PICK left \in Seq(Command) : left = Only(s, Command \ Drops(c, has))
  BY <1>2, LeftType
<1>4. \A d : d \in Items(left) <=> d \in Items(s) /\ d \notin Drops(c, has)
  <2>1. Items(s) \subseteq Command
    BY ItemsType
  <2>2. QED
    BY <1>3, <2>1, OnlyKeeps
<1>5. PICK y \in Changes : y = Leaves(s, r, row, led, seen)
  BY RowRunType
<1>6. /\ Sound(x, row, led, seen) /\ Goes(s, r, row, led, seen) /\ Alike(x, y, row) /\ x \in Changes
      /\ Sound(y, row, led, seen)
  BY <1>1, <1>5, RunIsSound DEF FitsIn, Sound
<1>7. Items(s) \subseteq Command /\ Items(left) \subseteq Items(s)
  BY <1>4, ItemsType
<1>8. CASE ~c.keyed \/ c.op = "update"
  BY <1>1, <1>8, DropsNothing, FitsAppend
<1>9. CASE c.keyed /\ c.op = "insert"
  <2>1. OneMore(s, c) = Append(left, c)
    BY <1>2, <1>3, <1>9 DEF OneMore, Cancels
  <2>2. Deletes(left, r)
    BY <1>1, <1>4, <1>7, <1>9 DEF Deletes, Drops
  <2>3. Gone(x, row) /\ Gone(y, row)
    BY <1>5, <1>6, <1>9, InsertsOnGone DEF Alike
  <2>4. ~row.exists \/ Deleting(left, r)
    <3>1. SUFFICES ASSUME row.exists PROVE Deleting(left, r)
      OBVIOUS
    <3>2. Deleting(s, r)
      BY <1>5, <1>6, <2>3, <3>1, NoDeleteNoInsert
    <3>3. PICK d \in Items(s) : d.row = r /\ d.op = "delete"
      BY <3>2 DEF Deleting
    <3>4. d \notin Drops(c, has)
      BY <1>9, <3>3 DEF Drops
    <3>5. QED
      BY <1>4, <3>3, <3>4 DEF Deleting
  <2>5. Goes(left, r, row, led, seen) /\ Gone(Leaves(left, r, row, led, seen), row)
    BY <2>2, <2>4, DeletesGone
  <2>6. FitsIn(x, left, r, row, led, seen)
    BY <1>6, <2>3, <2>5 DEF FitsIn, Alike
  <2>7. QED
    BY <1>1, <2>1, <2>6, FitsAppend
<1>10. CASE c.keyed /\ c.op = "delete" /\ ~has
  <2>1. OneMore(s, c) = Append(left, c)
    BY <1>2, <1>3, <1>10 DEF OneMore, Cancels
  <2>2. \A d \in Items(left) : d.row # r
    BY <1>1, <1>4, <1>7, <1>10 DEF Drops
  <2>3. Deletes(Append(left, c), r) /\ Deleting(Append(left, c), r) /\ Append(left, c) \in Seq(Command)
    BY <1>1, <1>10, <2>2, ItemsAppend, AppendFacts DEF Deletes, Deleting
  <2>4. Goes(Append(left, c), r, row, led, seen) /\ Gone(Leaves(Append(left, c), r, row, led, seen), row)
    BY <2>3, DeletesGone
  <2>5. Gone(Touched(c, x, row, led, seen), row) /\ Sound(Touched(c, x, row, led, seen), row, led, seen)
    BY <1>6, <1>10, DeleteIsGone, TouchedSound
  <2>6. QED
    BY <1>1, <2>1, <2>4, <2>5 DEF FitsIn, Alike
<1>11. CASE c.keyed /\ c.op = "delete" /\ has
  <2>1. OneMore(s, c) = left
    BY <1>2, <1>3, <1>11 DEF OneMore, Cancels
  <2>2. Deletes(left, r)
    BY <1>1, <1>4, <1>7, <1>11 DEF Deletes, Drops
  <2>3. ~row.exists \/ Deleting(left, r)
    <3>1. SUFFICES ASSUME row.exists PROVE Deleting(left, r)
      OBVIOUS
    <3>2. \E d \in Items(s) : d.row = r /\ d.op = "insert"
      BY <1>1, <1>2, <1>11 DEF Has
    <3>3. Deleting(s, r)
      BY <1>6, <3>1, <3>2, NoDeleteNoInsert
    <3>4. PICK d \in Items(s) : d.row = r /\ d.op = "delete"
      BY <3>3 DEF Deleting
    <3>5. d \notin Drops(c, has)
      BY <1>11, <3>4 DEF Drops
    <3>6. QED
      BY <1>4, <3>4, <3>5 DEF Deleting
  <2>4. Goes(left, r, row, led, seen) /\ Gone(Leaves(left, r, row, led, seen), row)
    BY <2>2, <2>3, DeletesGone
  <2>5. Gone(Touched(c, x, row, led, seen), row) /\ Sound(Touched(c, x, row, led, seen), row, led, seen)
    BY <1>6, <1>11, DeleteIsGone, TouchedSound
  <2>6. QED
    BY <1>1, <2>1, <2>4, <2>5 DEF FitsIn, Alike
<1>12. has \in BOOLEAN
  BY <1>2 DEF Has
<1>13. QED
  BY <1>8, <1>9, <1>10, <1>11, <1>12, CommandType

\* A log none of whose rows' runs is refused replays, to what the runs leave.
LEMMA RowsReplay ==
  ASSUME NEW cn \in Canons, NEW ld \in Stamps, NEW wr \in Stamps, NEW s \in Seq(Command),
         \A r \in Row : Goes(s, r, cn[r], ld[r], wr[r])
  PROVE  /\ Replay(s, cn, ld, wr).ok
         /\ \A r \in Row : Replay(s, cn, ld, wr).change[r] = Leaves(s, r, cn[r], ld[r], wr[r])
<1> DEFINE Went(t) == \A r \in Row : Goes(t, r, cn[r], ld[r], wr[r])
<1> DEFINE Is(t) == /\ Replay(t, cn, ld, wr).ok
                    /\ \A r \in Row : Replay(t, cn, ld, wr).change[r] = Leaves(t, r, cn[r], ld[r], wr[r])
<1> DEFINE T == {t \in Seq(Command) : Went(t) => Is(t)}
<1>0. \A r \in Row : cn[r] \in Rows /\ ld[r] \in Nat /\ wr[r] \in Nat
  BY DEF Canons, Stamps
<1>1. <<>> \in T
  <2>1. Replay(<<>>, cn, ld, wr) = Fresh /\ <<>> \in Seq(Command)
    BY EmptySeq, ReplayEmpty
  <2>2. \A r \in Row : Leaves(<<>>, r, cn[r], ld[r], wr[r]) = NoChange
    BY <1>0, RowRunEmpty
  <2>3. Is(<<>>)
    BY <2>1, <2>2 DEF Fresh
  <2>4. QED
    BY <2>1, <2>3
<1>2. ASSUME NEW t \in Seq(Command), NEW c \in Command, t \in T PROVE Append(t, c) \in T
  <2> DEFINE u == Append(t, c)
  <2>1. u \in Seq(Command) /\ c.row \in Row
    BY AppendFacts, CommandType
  <2>2. SUFFICES ASSUME Went(u) PROVE Is(u)
    BY <2>1
  <2> DEFINE was(r) == Leaves(t, r, cn[r], ld[r], wr[r])
  <2>3. ASSUME NEW r \in Row
        PROVE  /\ Goes(t, r, cn[r], ld[r], wr[r])
               /\ c.row # r => Leaves(u, r, cn[r], ld[r], wr[r]) = was(r)
               /\ c.row = r => /\ ~Refused(c, was(r), cn[r])
                              /\ Leaves(u, r, cn[r], ld[r], wr[r]) = Touched(c, was(r), cn[r], ld[r], wr[r])
    <3>1. Goes(u, r, cn[r], ld[r], wr[r])
      BY <2>2
    <3>2. QED
      BY <1>0, <3>1, RowRunStep
  <2>4. Went(t)
    BY <2>3
  <2>5. Is(t)
    BY <1>2, <2>4
  <2>6. PICK q \in Runs : q = Replay(t, cn, ld, wr)
    BY ReplayType
  <2>7. PICK to : to = Ran(q, c, cn, ld, wr)
    OBVIOUS
  <2>8. to = Replay(u, cn, ld, wr)
    BY <2>6, <2>7, ReplayAppend
  <2> HIDE DEF u
  <2>9. q.ok /\ \A r \in Row : q.change[r] = was(r)
    BY <2>5, <2>6
  <2>10. ~Refused(c, q.change[c.row], cn[c.row])
    BY <2>1, <2>3, <2>9
  <2> HIDE DEF was, Is, Went, T
  <2>11. /\ to.ok /\ to.change[c.row] = Touched(c, q.change[c.row], cn[c.row], ld[c.row], wr[c.row])
         /\ \A r \in Row \ {c.row} : to.change[r] = q.change[r]
    BY <2>7, <2>9, <2>10, RanFacts
  <2>12. \A r \in Row : to.change[r] = Leaves(u, r, cn[r], ld[r], wr[r])
    <3>1. ASSUME NEW r \in Row PROVE to.change[r] = Leaves(u, r, cn[r], ld[r], wr[r])
      BY <2>3, <2>9, <2>11
    <3>2. QED
      BY <3>1
  <2>13. QED
    BY <2>8, <2>11, <2>12 DEF Is
<1> HIDE DEF T
<1>3. Seq(Command) \subseteq T
  BY <1>1, <1>2, SeqInduction
<1>4. Is(s)
  BY <1>3 DEF T
<1>5. QED
  BY <1>4

\* A change that fits passes each check of publication.
LEMMA FitsPublishes ==
  ASSUME NEW s \in Seq(Command), NEW r \in Row, NEW x, NEW y,
         NEW row \in Rows, NEW led \in Nat, NEW seen \in Nat,
         FitsIn(x, s, r, row, led, seen), y = Leaves(s, r, row, led, seen),
         Revisioned /\ row.exists => row.rev >= led
  PROVE  /\ ~RowConflict(x, row, led)
         /\ Reviewed(x) <=> Reviewed(y)
         /\ Reviewed(x) => SameProposal(x, y) /\ SameAnchor(x, y) /\ Applicable(x, row, led)
<1>1. Sound(x, row, led, seen) /\ Sound(y, row, led, seen) /\ Alike(x, y, row)
  BY RunIsSound DEF FitsIn
<1>2. PICK a \in Anchors : a = Anchor(row, led, seen)
  BY AnchorType
<1>3. row.exists \in BOOLEAN /\ row.rev \in Nat
  BY RowType
<1>4. a.baseExists = row.exists /\ (Revisioned => a.baseRev = IF row.exists THEN row.rev ELSE led)
  BY <1>2 DEF Anchor
<1>5. x \in Changes /\ y \in Changes /\ (x # NoChange => x.anchor = a) /\ (y # NoChange => y.anchor = a)
  BY <1>1, <1>2 DEF Sound
<1>6. ~RowConflict(x, row, led)
  BY <1>4, <1>5 DEF RowConflict
<1>7. (Reviewed(x) <=> Reviewed(y)) /\ (Reviewed(x) => SameProposal(x, y) /\ SameAnchor(x, y))
  <2>1. CASE x = y
    BY <2>1 DEF SameProposal, SameAnchor
  <2>2. CASE Gone(x, row) /\ Gone(y, row) /\ row.exists
    <3>1. x # NoChange /\ x.op = "delete" /\ y # NoChange /\ y.op = "delete"
      BY <2>2 DEF Gone
    <3>2. QED
      BY <1>4, <1>5, <2>2, <3>1 DEF Reviewed, SameProposal, SameAnchor
  <2>3. CASE Gone(x, row) /\ Gone(y, row) /\ ~row.exists
    <3>1. (x = NoChange \/ x.op = "delete") /\ (y = NoChange \/ y.op = "delete")
      BY <2>3 DEF Gone
    <3>2. ~Reviewed(x) /\ ~Reviewed(y)
      BY <1>4, <1>5, <2>3, <3>1 DEF Reviewed
    <3>3. QED
      BY <3>2
  <2>4. QED
    BY <1>1, <1>3, <2>1, <2>2, <2>3 DEF Alike
<1>8. ASSUME Reviewed(x) PROVE Applicable(x, row, led)
  <2>1. x # NoChange /\ x.anchor = a
    BY <1>5, <1>8 DEF Reviewed
  <2>2. x.op \in {"insert", "update", "delete"} /\ x.rev \in Nat
    BY <1>5, <2>1, ChangeType
  <2>3. CASE x.op = "delete"
    BY <2>3 DEF Applicable
  <2>4. CASE x.op = "update"
    BY <1>1, <2>1, <2>4 DEF Applicable, Sound
  <2>5. CASE x.op = "insert"
    <3>1. row.exists => x.anchor.baseExists
      BY <1>4, <2>1
    <3>2. ASSUME Revisioned PROVE Deleted(row, led) + 1 <= x.rev
      <4>1. x.rev >= StampOf(row, led) + 1
        BY <1>1, <2>1, <2>5, <3>2 DEF Sound
      <4>2. Deleted(row, led) = StampOf(row, led)
        BY <1>3, <3>2 DEF Deleted, StampOf, Larger
      <4>3. StampOf(row, led) \in Nat
        BY <1>3 DEF StampOf
      <4>4. QED
        BY <2>2, <4>1, <4>2, <4>3
    <3>3. QED
      BY <2>5, <3>1, <3>2 DEF Applicable
  <2>6. QED
    BY <2>2, <2>3, <2>4, <2>5
<1>9. QED
  BY <1>6, <1>7, <1>8

\* A change that is none and a log that does not name the row fit.
LEMMA FitsUntouched ==
  ASSUME NEW s \in Seq(Command), NEW r \in Row, \A d \in Items(s) : d.row # r,
         NEW row \in Rows, NEW led \in Nat, NEW seen \in Nat
  PROVE  FitsIn(NoChange, s, r, row, led, seen)
<1>1. Deletes(s, r)
  BY DEF Deletes
<1>2. Goes(s, r, row, led, seen) /\ Leaves(s, r, row, led, seen) = NoChange
  BY <1>1, DeletesGone
<1>3. QED
  BY <1>2, NoChangeSound DEF FitsIn, Alike

\* What is done of a sequence and what is left of it, a step on
LEMMA DoneStep ==
  ASSUME NEW S, NEW done \in Seq(S), NEW left \in Seq(S), left # <<>>
  PROVE  /\ Head(left) \in S /\ Tail(left) \in Seq(S) /\ Append(done, Head(left)) \in Seq(S)
         /\ done \o left = Append(done, Head(left)) \o Tail(left)
<1>1. PICK m : m = Len(left)
  OBVIOUS
<1>2. PICK e : e = Head(left)
  OBVIOUS
<1>3. PICK t : t = Tail(left)
  OBVIOUS
<1>4. PICK u : u = <<e>>
  OBVIOUS
<1>5. /\ e \in S /\ t \in Seq(S) /\ m \in Nat /\ m > 0 /\ Len(t) = m - 1 /\ e = left[1]
      /\ \A i \in 1 .. m - 1 : t[i] = left[i + 1]
  BY <1>1, <1>2, <1>3, HeadTailProperties, LenProperties, EmptySeq
<1>6. u \in Seq(S) /\ Len(u) = 1 /\ u[1] = e
  BY <1>4, <1>5
<1>7. u \o t = left
  <2>0. u \in Seq(S) /\ t \in Seq(S)
    BY <1>5, <1>6
  <2>1. /\ u \o t \in Seq(S) /\ Len(u \o t) = Len(u) + Len(t)
        /\ \A i \in 1 .. Len(u) + Len(t) : (u \o t)[i] = IF i <= Len(u) THEN u[i] ELSE t[i - Len(u)]
    BY <2>0, ConcatProperties
  <2>2. Len(u \o t) = m /\ \A i \in 1 .. m : (u \o t)[i] = IF i <= 1 THEN u[i] ELSE t[i - 1]
    BY <1>5, <1>6, <2>1
  <2>3. ASSUME NEW i \in 1 .. m PROVE (u \o t)[i] = left[i]
    <3>1. CASE i = 1
      BY <1>5, <1>6, <2>2, <3>1
    <3>2. CASE i # 1
      <4>1. i - 1 \in 1 .. m - 1 /\ i - 1 + 1 = i /\ ~(i <= 1)
        BY <1>5, <3>2
      <4>2. QED
        BY <1>5, <2>2, <4>1
    <3>3. QED
      BY <3>1, <3>2
  <2>4. QED
    BY <1>1, <2>1, <2>2, <2>3, SeqEqual
<1>8. Append(done, e) = done \o u /\ Append(done, e) \in Seq(S)
  BY <1>4, <1>5, AppendIsConcat, AppendFacts
<1>9. (done \o u) \o t = done \o (u \o t)
  BY <1>5, <1>6, ConcatAssociative
<1>10. QED
  BY <1>2, <1>3, <1>5, <1>7, <1>8, <1>9

-----------------------------------------------------------------------------
(* The invariant of clean drafts *)

\* The rows some command of which has a compaction key, and the commands that
\* have one exactly if their row is one of these.
KeyedRows == {r \in Row : \E p \in Process : \E b \in Batches[p] : \E d \in Items(b) : d.row = r /\ d.keyed}
KeyedAlike == {c \in Command : c.keyed <=> c.row \in KeyedRows}

\* The commands of a row all have a compaction key, or none has.
RowsAreKeyed == \A p \in Process : Batches[p] \subseteq Seq(KeyedAlike)

Fits(x, s, r) == FitsIn(x, s, r, canon[r], ledger[r], written[r])

\* A row nobody else wrote since the draft's base has the change its log leaves.
LogFits ==
  draft = "open" => /\ log \in Seq(KeyedAlike)
                    /\ \A r \in Row : written[r] <= base => Fits(change[r], log, r)

\* What an append has run of its batch is in what it sees; a rebase reads the log,
\* and what it has run of it is in its changes.
Appending(p) ==
  pc[p] = "append.run" /\ Current(p) =>
    \E done \in Seq(KeyedAlike) :
      /\ todo[p] \in Seq(KeyedAlike) /\ batch[p] = done \o todo[p]
      /\ \A r \in Row : written[r] <= base => Fits(Sees(p, r), CompactLog(mine[p] \o done), r)

Rebases == {"rebase.probe", "rebase.report", "rebase.confirm", "rebase.begin", "rebase.clear",
            "rebase.run"}
Rebasing(p) == pc[p] \in Rebases /\ Current(p) => mine[p] = log

Replaying(p) ==
  pc[p] = "rebase.run" /\ Current(p) =>
    \E done \in Seq(Command) :
      /\ mine[p] = done \o todo[p]
      /\ \A r \in Row : written[r] <= probed[p] => Fits(buffer[p][r], done, r)

Follows(p) == Appending(p) /\ Rebasing(p) /\ Replaying(p)

FitInv ==
  /\ base <= version /\ \A p \in Process : probed[p] <= version
  /\ \A p \in Process : batch[p] \in Seq(KeyedAlike)
  /\ LogFits
  /\ \A p \in Process : Follows(p)

\* What p alone does
Same(q) ==
  /\ pc'[q] = pc[q] /\ snap'[q] = snap[q] /\ batch'[q] = batch[q] /\ mine'[q] = mine[q]
  /\ todo'[q] = todo[q] /\ buffer'[q] = buffer[q] /\ probed'[q] = probed[q]

Alone(p) ==
  /\ UNCHANGED <<draft, rev, base, log, change, canon, ledger, version, written>>
  /\ \A q \in Process \ {p} : Same(q)

LEMMA SameFollows ==
  ASSUME NEW q \in Process, Follows(q), Same(q),
         UNCHANGED <<draft, rev, base, log, change, canon, ledger, written>>
  PROVE  Follows(q)'
<1>1. /\ pc'[q] = pc[q] /\ snap'[q] = snap[q] /\ batch'[q] = batch[q] /\ mine'[q] = mine[q]
      /\ todo'[q] = todo[q] /\ buffer'[q] = buffer[q] /\ probed'[q] = probed[q]
  BY DEF Same
<1>2. /\ draft' = draft /\ rev' = rev /\ base' = base /\ log' = log /\ change' = change
      /\ canon' = canon /\ ledger' = ledger /\ written' = written
  OBVIOUS
<1>3. Current(q)' <=> Current(q)
  BY <1>1, <1>2 DEF Current
<1>4. Rebasing(q)'
  BY <1>1, <1>2, <1>3 DEF Follows, Rebasing
<1>5. Appending(q)'
  <2>1. SUFFICES ASSUME pc[q] = "append.run", Current(q) PROVE Appending(q)'
    BY <1>1, <1>3 DEF Appending
  <2>2. PICK done \in Seq(KeyedAlike) :
          /\ todo[q] \in Seq(KeyedAlike) /\ batch[q] = done \o todo[q]
          /\ \A r \in Row : written[r] <= base => Fits(Sees(q, r), CompactLog(mine[q] \o done), r)
    BY <2>1 DEF Follows, Appending
  <2>3. \A r \in Row : (written[r] <= base => Fits(Sees(q, r), CompactLog(mine[q] \o done), r))'
    BY <1>1, <1>2, <2>2 DEF Fits, Sees
  <2>4. QED
    BY <1>1, <2>2, <2>3 DEF Appending
<1>6. Replaying(q)'
  <2>1. SUFFICES ASSUME pc[q] = "rebase.run", Current(q) PROVE Replaying(q)'
    BY <1>1, <1>3 DEF Replaying
  <2>2. PICK done \in Seq(Command) :
          /\ mine[q] = done \o todo[q]
          /\ \A r \in Row : written[r] <= probed[q] => Fits(buffer[q][r], done, r)
    BY <2>1 DEF Follows, Replaying
  <2>3. \A r \in Row : (written[r] <= probed[q] => Fits(buffer[q][r], done, r))'
    BY <1>1, <1>2, <2>2 DEF Fits
  <2>4. QED
    BY <1>1, <2>2, <2>3 DEF Replaying
<1>7. QED
  BY <1>4, <1>5, <1>6 DEF Follows

LEMMA AloneFits ==
  ASSUME FitInv, NEW p \in Process, Alone(p), batch'[p] \in Seq(KeyedAlike), probed'[p] <= version,
         Follows(p)'
  PROVE  FitInv'
<1>1. /\ draft' = draft /\ rev' = rev /\ base' = base /\ log' = log /\ change' = change
      /\ canon' = canon /\ ledger' = ledger /\ version' = version /\ written' = written
  BY DEF Alone
<1>2. ASSUME NEW q \in Process
      PROVE  Follows(q)' /\ batch'[q] \in Seq(KeyedAlike) /\ probed'[q] <= version
  <2>1. CASE q = p
    BY <2>1
  <2>2. CASE q # p
    <3>1. Same(q)
      BY <2>2 DEF Alone
    <3>2. Follows(q)'
      BY <1>1, <3>1, SameFollows DEF FitInv
    <3>3. QED
      BY <3>1, <3>2 DEF FitInv, Same
  <2>3. QED
    BY <2>1, <2>2
<1>3. LogFits'
  BY <1>1 DEF FitInv, LogFits, Fits
<1>4. QED
  BY <1>1, <1>2, <1>3 DEF FitInv

\* A commit after which no call's reading of the draft is current
LEMMA AdvanceFits ==
  ASSUME FitInv, base' <= version', UNCHANGED <<batch, probed>>, version <= version', Data, Data',
         \A q \in Process : ~Current(q)', LogFits'
  PROVE  FitInv'
<1>1. \A q \in Process : Follows(q)'
  BY DEF Follows, Appending, Rebasing, Replaying
<1>2. \A q \in Process : probed'[q] <= version'
  <2>1. version \in Nat /\ version' \in Nat /\ probed \in [Process -> Nat] /\ probed' = probed
    BY DEF Data, Shapes
  <2>2. \A q \in Process : probed[q] \in Nat /\ probed[q] <= version
    BY <2>1 DEF FitInv
  <2>3. QED
    BY <2>1, <2>2
<1>3. \A q \in Process : batch'[q] \in Seq(KeyedAlike)
  BY DEF FitInv
<1>4. QED
  BY <1>1, <1>2, <1>3 DEF FitInv

\* Where a step of p alone may lead
LEMMA StepAlone ==
  ASSUME Located, Data, NEW p \in Process, NEW to, Goto(p, to), UNCHANGED <<draftVars, canonVars>>,
         snap' = snap \/ snap' = [snap EXCEPT ![p] = rev],
         batch' = batch \/ \E b : batch' = [batch EXCEPT ![p] = b],
         mine' = mine \/ \E m : mine' = [mine EXCEPT ![p] = m],
         todo' = todo \/ \E t : todo' = [todo EXCEPT ![p] = t],
         buffer' = buffer \/ \E b : buffer' = [buffer EXCEPT ![p] = b],
         probed' = probed \/ probed' = [probed EXCEPT ![p] = version]
  PROVE  Alone(p) /\ pc'[p] = to
<1>1. pc'[p] = to /\ \A q \in Process \ {p} : pc'[q] = pc[q]
  BY GotoFacts
<1>2. /\ snap \in [Process -> Nat] /\ probed \in [Process -> Nat]
      /\ batch \in [Process -> Seq(Command)] /\ mine \in [Process -> Seq(Command)]
      /\ todo \in [Process -> Seq(Command)] /\ buffer \in [Process -> [Row -> Changes]]
  BY DEF Data, Shapes
<1>3. \A q \in Process \ {p} :
        /\ snap'[q] = snap[q] /\ batch'[q] = batch[q] /\ mine'[q] = mine[q]
        /\ todo'[q] = todo[q] /\ buffer'[q] = buffer[q] /\ probed'[q] = probed[q]
  BY <1>2
<1>4. QED
  BY <1>1, <1>3 DEF Alone, Same, draftVars, canonVars

\* A step to where a call follows nothing
LEMMA AsideFits ==
  ASSUME FitInv, NEW p \in Process, Alone(p), pc'[p] \notin Rebases \cup {"append.run"},
         batch'[p] \in Seq(KeyedAlike), probed'[p] <= version
  PROVE  FitInv'
<1>1. Follows(p)'
  BY DEF Follows, Appending, Rebasing, Replaying, Rebases
<1>2. QED
  BY <1>1, AloneFits

\* A step on the way of a rebase to its replay
LEMMA OnTheWayFits ==
  ASSUME FitInv, NEW p \in Process, Alone(p), pc'[p] \in Rebases \ {"rebase.run"},
         mine'[p] = log \/ (pc[p] \in Rebases /\ mine'[p] = mine[p] /\ snap'[p] = snap[p]),
         batch'[p] \in Seq(KeyedAlike), probed'[p] <= version
  PROVE  FitInv'
<1>1. log' = log /\ draft' = draft /\ rev' = rev
  BY DEF Alone
<1>2. Rebasing(p)'
  BY <1>1 DEF FitInv, Follows, Rebasing, Current
<1>3. Appending(p)' /\ Replaying(p)'
  BY DEF Appending, Replaying, Rebases
<1>4. QED
  BY <1>2, <1>3, AloneFits DEF Follows

LEMMA FailFits ==
  ASSUME IInv, FitInv, NEW p \in Process, Fail(p)
  PROVE  FitInv'
<1>1. Located /\ Data
  BY IInvTypes
<1>2. Alone(p) /\ pc'[p] = "failed"
  BY <1>1, StepAlone DEF Fail
<1>3. "failed" \notin Rebases \cup {"append.run"}
  BY DEF Rebases
<1>4. batch'[p] \in Seq(KeyedAlike) /\ probed'[p] <= version
  BY DEF FitInv, Fail
<1>5. QED
  BY <1>2, <1>3, <1>4, AsideFits

LEMMA StartFits ==
  ASSUME RowsAreKeyed, IInv, FitInv, NEW p \in Process, Start(p)
  PROVE  FitInv'
<1>1. Located /\ Data
  BY IInvTypes
<1>2. PICK to \in {"append.begin", "publish.log", "discard.begin", "rebase.log"} : Goto(p, to)
  BY DEF Start, StartAppend, StartPublish, StartDiscard, StartRebase, Call
<1>3. /\ UNCHANGED <<draftVars, canonVars, mine, todo, buffer, probed>>
      /\ snap' = snap \/ snap' = [snap EXCEPT ![p] = rev]
      /\ batch' = batch \/ \E b \in Batches[p] : batch' = [batch EXCEPT ![p] = b]
  BY DEF Start, StartAppend, StartPublish, StartDiscard, StartRebase
<1>4. Alone(p) /\ pc'[p] = to
  BY <1>1, <1>2, <1>3, StepAlone
<1>5. to \notin Rebases \cup {"append.run"}
  BY DEF Rebases
<1>6. batch'[p] \in Seq(KeyedAlike)
  <2>1. batch \in [Process -> Seq(Command)] /\ batch[p] \in Seq(KeyedAlike)
    BY <1>1 DEF Data, Shapes, FitInv
  <2>2. QED
    BY <1>3, <2>1 DEF RowsAreKeyed
<1>7. probed'[p] <= version
  BY <1>3 DEF FitInv
<1>8. QED
  BY <1>4, <1>5, <1>6, <1>7, AsideFits

LEMMA QuietFits ==
  ASSUME IInv, FitInv, NEW p \in Process,
         \/ AppendBegin(p) \/ PublishLog(p) \/ PublishBegin(p) \/ PublishCheck(p) \/ PublishReplay(p)
         \/ PublishApply(p) \/ DiscardBegin(p) \/ DiscardClear(p)
  PROVE  FitInv'
<1>1. CASE Fail(p)
  BY <1>1, FailFits
<1>2. CASE ~Fail(p)
  <2>1. Located /\ Data
    BY IInvTypes
  <2>2. PICK to \in {"append.read", "publish.begin", "publish.check", "publish.replay", "publish.apply",
                     "publish.commit", "discard.clear", "discard.commit"} : Goto(p, to)
    BY <1>2 DEF AppendBegin, PublishLog, PublishBegin, PublishCheck, PublishReplay, PublishApply,
       DiscardBegin, DiscardClear, HoldNext, Step, Ready
  <2>3. /\ UNCHANGED <<draftVars, canonVars, batch, todo, probed>>
        /\ snap' = snap \/ snap' = [snap EXCEPT ![p] = rev]
        /\ mine' = mine \/ \E m : mine' = [mine EXCEPT ![p] = m]
        /\ buffer' = buffer \/ buffer' = [buffer EXCEPT ![p] = change]
    BY <1>2 DEF AppendBegin, PublishLog, PublishBegin, PublishCheck, PublishReplay, PublishApply,
       DiscardBegin, DiscardClear, HoldNext, Step
  <2>4. Alone(p) /\ pc'[p] = to
    BY <2>1, <2>2, <2>3, StepAlone
  <2>5. to \notin Rebases \cup {"append.run"}
    BY DEF Rebases
  <2>6. batch'[p] \in Seq(KeyedAlike) /\ probed'[p] <= version
    BY <2>3 DEF FitInv
  <2>7. QED
    BY <2>4, <2>5, <2>6, AsideFits
<1>3. QED
  BY <1>1, <1>2

LEMMA RebaseFits ==
  ASSUME IInv, FitInv, NEW p \in Process,
         RebaseLog(p) \/ RebaseProbe(p) \/ RebaseReport(p) \/ RebaseConfirm(p) \/ RebaseBegin(p)
  PROVE  FitInv'
<1>1. CASE Fail(p)
  BY <1>1, FailFits
<1>2. CASE ~Fail(p)
  <2>1. Located /\ Data
    BY IInvTypes
  <2>2. PICK to \in Rebases \ {"rebase.run"} : Goto(p, to)
    BY <1>2 DEF RebaseLog, RebaseProbe, RebaseReport, RebaseConfirm, RebaseBegin, Step, Rebases
  <2>3. /\ UNCHANGED <<draftVars, canonVars, batch, todo, snap, buffer>>
        /\ probed' = probed \/ probed' = [probed EXCEPT ![p] = version]
    BY <1>2 DEF RebaseLog, RebaseProbe, RebaseReport, RebaseConfirm, RebaseBegin, Step
  <2>4. mine' = [mine EXCEPT ![p] = log] \/ (mine' = mine /\ pc[p] \in Rebases)
    BY <1>2 DEF RebaseLog, RebaseProbe, RebaseReport, RebaseConfirm, RebaseBegin, Step, Ready, Rebases
  <2>5. Alone(p) /\ pc'[p] = to
    BY <2>1, <2>2, <2>3, <2>4, StepAlone
  <2>6. mine \in [Process -> Seq(Command)] /\ probed \in [Process -> Nat] /\ version \in Nat
    BY <2>1 DEF Data, Shapes
  <2>7. mine'[p] = log \/ (pc[p] \in Rebases /\ mine'[p] = mine[p] /\ snap'[p] = snap[p])
    BY <2>3, <2>4, <2>6
  <2>8. batch'[p] \in Seq(KeyedAlike) /\ probed'[p] <= version
    BY <2>3, <2>6 DEF FitInv
  <2>9. QED
    BY <2>5, <2>7, <2>8, OnTheWayFits
<1>3. QED
  BY <1>1, <1>2

LEMMA AbortFits ==
  ASSUME IInv, FitInv, NEW p \in Process, Abort(p)
  PROVE  FitInv'
<1>1. CASE Fail(p)
  BY <1>1, FailFits
<1>2. CASE ~Fail(p)
  <2>1. Located /\ Data
    BY IInvTypes
  <2>2. PICK to : to = Restart[Operation(p)]
    OBVIOUS
  <2>3. Goto(p, to) /\ UNCHANGED <<draftVars, canonVars, snap, batch, mine, todo, buffer, probed>>
    BY <1>2, <2>2 DEF Abort
  <2>4. pc[p] \in InTx
    BY DEF Abort, Deadlocked
  <2>5. \/ to \in {"append.begin", "publish.begin", "discard.begin"}
        \/ to = "rebase.begin" /\ pc[p] \in {"rebase.clear", "rebase.run"}
    BY <2>2, <2>4 DEF Restart, Operation, InTx
  <2>6. Alone(p) /\ pc'[p] = to
    BY <2>1, <2>3, StepAlone
  <2>7. batch'[p] \in Seq(KeyedAlike) /\ probed'[p] <= version
    BY <2>3 DEF FitInv
  <2>8. CASE to \in {"append.begin", "publish.begin", "discard.begin"}
    <3>1. to \notin Rebases \cup {"append.run"}
      BY <2>8 DEF Rebases
    <3>2. QED
      BY <2>6, <2>7, <3>1, AsideFits
  <2>9. CASE to = "rebase.begin" /\ pc[p] \in {"rebase.clear", "rebase.run"}
    <3>1. pc[p] \in Rebases /\ to \in Rebases \ {"rebase.run"}
      BY <2>9 DEF Rebases
    <3>2. mine'[p] = mine[p] /\ snap'[p] = snap[p]
      BY <2>3
    <3>3. QED
      BY <2>6, <2>7, <3>1, <3>2, OnTheWayFits
  <2>10. QED
    BY <2>5, <2>8, <2>9
<1>3. QED
  BY <1>1, <1>2

\* What a call sees after one of its commands
LEMMA RunSees ==
  ASSUME IInv, NEW p \in Process, NEW at \in {"append.run", "rebase.run"}, Ready(p, at), RunCommand(p),
         ~Fail(p), NEW c \in Command, c = Head(todo[p])
  PROVE  /\ todo[p] # <<>> /\ todo'[p] = Tail(todo[p]) /\ pc'[p] = at /\ pc[p] = at
         /\ Alone(p)
         /\ snap'[p] = snap[p] /\ batch'[p] = batch[p] /\ mine'[p] = mine[p] /\ probed'[p] = probed[p]
         /\ ~Refused(c, Sees(p, c.row), canon[c.row])
         /\ \A k \in Row : Sees(p, k)' = IF k = c.row
              THEN Touched(c, Sees(p, k), canon[k], ledger[k], written[k]) ELSE Sees(p, k)
<1>1. Located /\ Data /\ pc[p] = at /\ todo[p] # <<>>
  BY IInvTypes DEF Ready, RunCommand
<1>2. PICK r \in Row : r = c.row
  BY CommandType
<1>3. PICK x \in Changes : x = Sees(p, r)
  BY <1>1, SeesType DEF Data
<1>4. PICK to : to = Touched(c, x, canon[r], ledger[r], written[r])
  OBVIOUS
<1>5. ~Refused(c, x, canon[r])
  BY <1>2, <1>3 DEF RunCommand
<1>6. Step(p, pc[p]) /\ todo' = [todo EXCEPT ![p] = Tail(@)] /\ UNCHANGED <<snap, mine, probed>>
  BY <1>2, <1>3, <1>5 DEF RunCommand
<1>7. IF Writes(c, x, canon[r]) THEN buffer' = [buffer EXCEPT ![p][r] = to] ELSE buffer' = buffer
  BY <1>2, <1>3, <1>4, <1>5 DEF RunCommand
<1>8. buffer \in [Process -> [Row -> Changes]] /\ buffer[p] \in [Row -> Changes]
      /\ todo \in [Process -> Seq(Command)]
  BY <1>1 DEF Data, Shapes
<1>9. Goto(p, at) /\ UNCHANGED <<draftVars, canonVars, batch>>
  BY <1>1, <1>6 DEF Step
<1>10. Alone(p) /\ pc'[p] = at
  <2>1. buffer' = buffer \/ \E b : buffer' = [buffer EXCEPT ![p] = b]
    <3>1. [buffer EXCEPT ![p][r] = to] = [buffer EXCEPT ![p] = [buffer[p] EXCEPT ![r] = to]]
      OBVIOUS
    <3>2. QED
      BY <1>7, <3>1
  <2>2. todo' = todo \/ \E t : todo' = [todo EXCEPT ![p] = t]
    BY <1>6
  <2>3. QED
    BY <1>1, <1>6, <1>9, <2>1, <2>2, StepAlone
<1>11. change' = change
  BY <1>9 DEF draftVars
<1>12. ASSUME NEW k \in Row, k # r PROVE Sees(p, k)' = Sees(p, k)
  <2>1. buffer'[p][k] = buffer[p][k]
    BY <1>7, <1>8, <1>12
  <2>2. QED
    BY <1>1, <1>10, <1>11, <2>1 DEF Sees
<1>13. Sees(p, r)' = to
  <2>1. CASE Writes(c, x, canon[r])
    <3>1. canon[r] \in Rows /\ ledger[r] \in Nat /\ written[r] \in Nat
      BY <1>1, DataOf
    <3>2. to # NoChange
      BY <1>4, <2>1, <3>1, WriteFields
    <3>3. buffer'[p][r] = to
      BY <1>7, <1>8, <2>1
    <3>4. QED
      BY <3>2, <3>3 DEF Sees
  <2>2. CASE ~Writes(c, x, canon[r])
    <3>1. to = x /\ buffer' = buffer
      BY <1>4, <1>7, <2>2 DEF Touched
    <3>2. QED
      BY <1>1, <1>3, <1>10, <1>11, <3>1 DEF Sees
  <2>3. QED
    BY <2>1, <2>2
<1>14. todo'[p] = Tail(todo[p])
  BY <1>6, <1>8
<1>15. \A k \in Row : Sees(p, k)' = IF k = c.row
              THEN Touched(c, Sees(p, k), canon[k], ledger[k], written[k]) ELSE Sees(p, k)
  BY <1>2, <1>3, <1>4, <1>12, <1>13
<1>16. snap'[p] = snap[p] /\ batch'[p] = batch[p] /\ mine'[p] = mine[p] /\ probed'[p] = probed[p]
  BY <1>6, <1>9
<1>17. QED
  BY <1>1, <1>2, <1>3, <1>5, <1>10, <1>14, <1>15, <1>16

LEMMA KeyedCommands == Seq(KeyedAlike) \subseteq Seq(Command)
<1> DEFINE T == Seq(Command)
<1>1. <<>> \in T
  BY EmptySeq
<1>2. ASSUME NEW s \in Seq(KeyedAlike), NEW c \in KeyedAlike, s \in T PROVE Append(s, c) \in T
  <2>1. c \in Command
    BY DEF KeyedAlike
  <2>2. QED
    BY <1>2, <2>1, AppendFacts
<1> HIDE DEF T
<1>3. Seq(KeyedAlike) \subseteq T
  BY <1>1, <1>2, SeqInduction
<1>4. QED
  BY <1>3 DEF T

\* What compaction leaves of keyed and unkeyed rows' commands
LEMMA KeyedCompact ==
  ASSUME NEW s \in Seq(KeyedAlike), NEW t \in Seq(KeyedAlike)
  PROVE  /\ s \o t \in Seq(KeyedAlike) /\ s \o t \in Seq(Command)
         /\ CompactLog(s \o t) \in Seq(KeyedAlike) /\ CompactLog(s \o t) \in Seq(Command)
<1>1. s \o t \in Seq(KeyedAlike)
  BY ConcatProperties
<1>2. CompactLog(s \o t) \in Seq(KeyedAlike)
  BY <1>1, CompactIsKept, FilterType
<1>3. QED
  BY <1>1, <1>2, KeyedCommands

\* One more command of a batch, in what an append sees and in the log it will write
LEMMA AppendOne ==
  ASSUME NEW s \in Seq(KeyedAlike), NEW done \in Seq(KeyedAlike), NEW c \in KeyedAlike, NEW r \in Row,
         NEW x, NEW row \in Rows, NEW led \in Nat, NEW seen \in Nat,
         FitsIn(x, CompactLog(s \o done), r, row, led, seen), c.row = r => ~Refused(c, x, row)
  PROVE  FitsIn(IF r = c.row THEN Touched(c, x, row, led, seen) ELSE x,
                CompactLog(s \o Append(done, c)), r, row, led, seen)
<1>1. PICK l : l = CompactLog(s \o done)
  OBVIOUS
<1>2. l \in Seq(Command) /\ l \in Seq(KeyedAlike) /\ s \o done \in Seq(Command) /\ c \in Command
  BY <1>1, KeyedCompact DEF KeyedAlike
<1>3. CompactLog(s \o Append(done, c)) = OneMore(l, c)
  <2>1. s \o Append(done, c) = Append(s \o done, c)
    BY ConcatAppend
  <2>2. CompactLog(Append(s \o done, c)) = OneMore(CompactLog(s \o done), c)
    BY <1>2, CompactAppend
  <2>3. QED
    BY <1>1, <2>1, <2>2
<1>4. CASE c.row # r
  BY <1>1, <1>2, <1>3, <1>4, OtherRowsKept
<1>5. CASE c.row = r
  <2>1. Items(l) \subseteq KeyedAlike
    BY <1>2, ItemsType
  <2>2. c.keyed => \A d \in Items(l) : d.row = c.row => d.keyed
    BY <2>1 DEF KeyedAlike
  <2>3. FitsIn(Touched(c, x, row, led, seen), OneMore(l, c), c.row, row, led, seen)
    BY <1>1, <1>2, <1>5, <2>2, OneMoreFits
  <2>4. QED
    BY <1>3, <1>5, <2>3
<1>6. QED
  BY <1>4, <1>5

LEMMA AppendRunFits ==
  ASSUME IInv, FitInv, NEW p \in Process, AppendRun(p)
  PROVE  FitInv'
<1>1. Ready(p, "append.run") /\ RunCommand(p)
  BY DEF AppendRun
<1>2. CASE Fail(p)
  BY <1>2, FailFits
<1>3. CASE ~Fail(p)
  <2>1. Located /\ Data /\ todo[p] \in Seq(Command) /\ todo[p] # <<>>
    BY <1>1, IInvTypes, DataOf DEF RunCommand
  <2>2. PICK c \in Command : c = Head(todo[p])
    BY <2>1, HeadType
  <2>3. /\ todo'[p] = Tail(todo[p]) /\ pc'[p] = "append.run" /\ pc[p] = "append.run"
        /\ Alone(p)
        /\ snap'[p] = snap[p] /\ batch'[p] = batch[p] /\ mine'[p] = mine[p] /\ probed'[p] = probed[p]
        /\ ~Refused(c, Sees(p, c.row), canon[c.row])
        /\ \A k \in Row : Sees(p, k)' = IF k = c.row
             THEN Touched(c, Sees(p, k), canon[k], ledger[k], written[k]) ELSE Sees(p, k)
    BY <1>1, <1>3, <2>2, RunSees
  <2>4. UNCHANGED <<draft, rev, base, log, canon, ledger, written>>
    BY <2>3 DEF Alone
  <2>5. Appending(p)'
    <3>1. SUFFICES ASSUME Current(p) PROVE Appending(p)'
      BY <2>3, <2>4 DEF Appending, Current
    <3>2. PICK done \in Seq(KeyedAlike) :
            /\ todo[p] \in Seq(KeyedAlike) /\ batch[p] = done \o todo[p]
            /\ \A r \in Row : written[r] <= base => Fits(Sees(p, r), CompactLog(mine[p] \o done), r)
      BY <2>3, <3>1 DEF FitInv, Follows, Appending
    <3>3. c \in KeyedAlike /\ Tail(todo[p]) \in Seq(KeyedAlike) /\ Append(done, c) \in Seq(KeyedAlike)
          /\ batch[p] = Append(done, c) \o Tail(todo[p])
      <4>1. PICK left : left = todo[p]
        OBVIOUS
      <4>2. left \in Seq(KeyedAlike) /\ left # <<>>
        BY <2>1, <3>2, <4>1
      <4>3. /\ Head(left) \in KeyedAlike /\ Tail(left) \in Seq(KeyedAlike)
            /\ Append(done, Head(left)) \in Seq(KeyedAlike)
            /\ done \o left = Append(done, Head(left)) \o Tail(left)
        BY <4>2, DoneStep
      <4>4. QED
        BY <2>2, <3>2, <4>1, <4>3
    <3>4. mine[p] \in Seq(KeyedAlike)
      BY <2>3, <3>1 DEF IInv, Knows, FitInv, LogFits, Current
    <3>5. PICK next : next = Append(done, c)
      OBVIOUS
    <3>6. ASSUME NEW r \in Row, written[r] <= base
          PROVE  Fits(Sees(p, r), CompactLog(mine[p] \o next), r)'
      <4>1. PICK x : x = Sees(p, r)
        OBVIOUS
      <4>2. PICK y : y = IF r = c.row THEN Touched(c, x, canon[r], ledger[r], written[r]) ELSE x
        OBVIOUS
      <4>3. Sees(p, r)' = y
        BY <2>3, <4>1, <4>2
      <4>4. canon[r] \in Rows /\ ledger[r] \in Nat /\ written[r] \in Nat
        BY <2>1, DataOf
      <4>5. FitsIn(x, CompactLog(mine[p] \o done), r, canon[r], ledger[r], written[r])
        BY <3>2, <3>6, <4>1 DEF Fits
      <4>6. c.row = r => ~Refused(c, x, canon[r])
        BY <2>3, <4>1
      <4>7. FitsIn(y, CompactLog(mine[p] \o next), r, canon[r], ledger[r], written[r])
        BY <3>3, <3>4, <3>5, <4>2, <4>4, <4>5, <4>6, AppendOne
      <4>8. QED
        BY <2>3, <2>4, <4>3, <4>7 DEF Fits
    <3>7. \A r \in Row : (written[r] <= base => Fits(Sees(p, r), CompactLog(mine[p] \o next), r))'
      BY <2>4, <3>6
    <3>8. todo'[p] \in Seq(KeyedAlike) /\ batch'[p] = next \o todo'[p] /\ next \in Seq(KeyedAlike)
      BY <2>3, <3>3, <3>5
    <3>9. QED
      BY <3>7, <3>8 DEF Appending
  <2>6. Rebasing(p)' /\ Replaying(p)'
    BY <2>3 DEF Rebasing, Replaying, Rebases
  <2>7. batch'[p] \in Seq(KeyedAlike) /\ probed'[p] <= version
    BY <2>3 DEF FitInv
  <2>8. QED
    BY <2>3, <2>5, <2>6, <2>7, AloneFits DEF Follows
<1>4. QED
  BY <1>2, <1>3

LEMMA RebaseRunFits ==
  ASSUME IInv, FitInv, NEW p \in Process, RebaseRun(p)
  PROVE  FitInv'
<1>1. Ready(p, "rebase.run") /\ RunCommand(p)
  BY DEF RebaseRun
<1>2. CASE Fail(p)
  BY <1>2, FailFits
<1>3. CASE ~Fail(p)
  <2>1. Located /\ Data /\ todo[p] \in Seq(Command) /\ todo[p] # <<>>
    BY <1>1, IInvTypes, DataOf DEF RunCommand
  <2>2. PICK c \in Command : c = Head(todo[p])
    BY <2>1, HeadType
  <2>3. /\ todo'[p] = Tail(todo[p]) /\ pc'[p] = "rebase.run" /\ pc[p] = "rebase.run"
        /\ Alone(p)
        /\ snap'[p] = snap[p] /\ batch'[p] = batch[p] /\ mine'[p] = mine[p] /\ probed'[p] = probed[p]
        /\ ~Refused(c, Sees(p, c.row), canon[c.row])
        /\ \A k \in Row : Sees(p, k)' = IF k = c.row
             THEN Touched(c, Sees(p, k), canon[k], ledger[k], written[k]) ELSE Sees(p, k)
    BY <1>1, <1>3, <2>2, RunSees
  <2>4. UNCHANGED <<draft, rev, base, log, canon, ledger, written>>
    BY <2>3 DEF Alone
  <2>5. \A k \in Row : Sees(p, k) = buffer[p][k] /\ Sees(p, k)' = buffer'[p][k]
    BY <2>3 DEF Sees
  <2>6. Replaying(p)'
    <3>1. SUFFICES ASSUME Current(p) PROVE Replaying(p)'
      BY <2>3, <2>4 DEF Replaying, Current
    <3>2. PICK done \in Seq(Command) :
            /\ mine[p] = done \o todo[p]
            /\ \A r \in Row : written[r] <= probed[p] => Fits(buffer[p][r], done, r)
      BY <2>3, <3>1 DEF FitInv, Follows, Replaying
    <3>3. Append(done, c) \in Seq(Command) /\ mine[p] = Append(done, c) \o Tail(todo[p])
      <4>1. PICK left : left = todo[p]
        OBVIOUS
      <4>2. left \in Seq(Command) /\ left # <<>>
        BY <2>1, <4>1
      <4>3. /\ Append(done, Head(left)) \in Seq(Command)
            /\ done \o left = Append(done, Head(left)) \o Tail(left)
        BY <4>2, DoneStep
      <4>4. QED
        BY <2>2, <3>2, <4>1, <4>3
    <3>4. PICK next : next = Append(done, c)
      OBVIOUS
    <3>5. ASSUME NEW r \in Row, written[r] <= probed[p]
          PROVE  Fits(buffer[p][r], next, r)'
      <4>1. PICK x : x = Sees(p, r)
        OBVIOUS
      <4>2. PICK y : y = IF r = c.row THEN Touched(c, x, canon[r], ledger[r], written[r]) ELSE x
        OBVIOUS
      <4>3. buffer'[p][r] = y
        BY <2>3, <2>5, <4>1, <4>2
      <4>4. canon[r] \in Rows /\ ledger[r] \in Nat /\ written[r] \in Nat
        BY <2>1, DataOf
      <4>5. FitsIn(x, done, r, canon[r], ledger[r], written[r])
        BY <2>5, <3>2, <3>5, <4>1 DEF Fits
      <4>6. c.row = r => ~Refused(c, x, canon[r])
        BY <2>3, <4>1
      <4>7. FitsIn(y, next, r, canon[r], ledger[r], written[r])
        BY <3>4, <4>2, <4>4, <4>5, <4>6, FitsAppend
      <4>8. QED
        BY <2>4, <4>3, <4>7 DEF Fits
    <3>6. \A r \in Row : (written[r] <= probed[p] => Fits(buffer[p][r], next, r))'
      BY <2>3, <2>4, <3>5
    <3>7. mine'[p] = next \o todo'[p] /\ next \in Seq(Command)
      BY <2>3, <3>3, <3>4
    <3>8. QED
      BY <3>6, <3>7 DEF Replaying
  <2>7. Rebasing(p)'
    BY <2>3, <2>4 DEF FitInv, Follows, Rebasing, Rebases, Current
  <2>8. Appending(p)'
    BY <2>3 DEF Appending
  <2>9. batch'[p] \in Seq(KeyedAlike) /\ probed'[p] <= version
    BY <2>3 DEF FitInv
  <2>10. QED
    BY <2>3, <2>6, <2>7, <2>8, <2>9, AloneFits DEF Follows
<1>4. QED
  BY <1>2, <1>3

LEMMA AppendReadFits ==
  ASSUME IInv, FitInv, NEW p \in Process, AppendRead(p)
  PROVE  FitInv'
<1>1. Located /\ Data /\ IInv'
  BY IInvTypes, AppendReadKeeps
<1>2. /\ Goto(p, "append.run") /\ UNCHANGED <<draftVars, canonVars, batch, snap, probed>>
      /\ mine' = [mine EXCEPT ![p] = log] /\ todo' = [todo EXCEPT ![p] = batch[p]]
      /\ buffer' = [buffer EXCEPT ![p] = NoChanges]
  BY DEF AppendRead, Step
<1>3. Alone(p) /\ pc'[p] = "append.run"
  BY <1>1, <1>2, StepAlone
<1>4. /\ mine \in [Process -> Seq(Command)] /\ todo \in [Process -> Seq(Command)]
      /\ buffer \in [Process -> [Row -> Changes]]
  BY <1>1 DEF Data, Shapes
<1>5. mine'[p] = log /\ todo'[p] = batch[p] /\ buffer'[p] = NoChanges /\ batch'[p] = batch[p]
      /\ batch[p] \in Seq(KeyedAlike)
  BY <1>2, <1>4 DEF FitInv
<1>6. Appending(p)'
  <2>1. SUFFICES ASSUME Current(p)' PROVE Appending(p)'
    BY DEF Appending
  <2>2. draft = "open" /\ draft' = draft /\ log' = log /\ change' = change /\ base' = base
        /\ canon' = canon /\ ledger' = ledger /\ written' = written
    BY <1>2, <2>1 DEF Current, draftVars, canonVars
  <2>3. log \in Seq(KeyedAlike) /\ \A r \in Row : written[r] <= base => Fits(change[r], log, r)
    BY <2>2 DEF FitInv, LogFits
  <2>4. CompactLog(log \o <<>>) = log
    <3>1. log = CompactLog(acked) /\ acked \in Seq(Command) /\ log \in Seq(Command)
      BY <1>1, <2>2 DEF IInv, AppendsKept, LogIsHistory, Data, Shapes
    <3>2. CompactLog(log) = log
      BY <3>1, CompactionSettles
    <3>3. log \o <<>> = log
      BY <3>1, ConcatEmptySeq
    <3>4. QED
      BY <3>2, <3>3
  <2>5. \A r \in Row : Sees(p, r)' = change[r]
    BY <1>3, <1>5, <2>2 DEF Sees, NoChanges
  <2>6. PICK none \in Seq(KeyedAlike) : none = <<>>
    BY EmptySeq
  <2>7. batch[p] = none \o batch[p]
    BY <1>5, <2>6, ConcatEmptySeq
  <2>8. ASSUME NEW r \in Row, written[r] <= base
        PROVE  Fits(Sees(p, r), CompactLog(mine[p] \o none), r)'
    <3>1. FitsIn(change[r], CompactLog(log \o none), r, canon[r], ledger[r], written[r])
      BY <2>3, <2>4, <2>6, <2>8 DEF Fits
    <3>2. QED
      BY <1>5, <2>2, <2>5, <3>1 DEF Fits
  <2>9. \A r \in Row : (written[r] <= base => Fits(Sees(p, r), CompactLog(mine[p] \o none), r))'
    BY <2>2, <2>8
  <2>10. QED
    BY <1>5, <2>7, <2>9 DEF Appending
<1>7. Rebasing(p)' /\ Replaying(p)'
  BY <1>3 DEF Rebasing, Replaying, Rebases
<1>8. batch'[p] \in Seq(KeyedAlike) /\ probed'[p] <= version
  BY <1>2, <1>5 DEF FitInv
<1>9. QED
  BY <1>3, <1>6, <1>7, <1>8, AloneFits DEF Follows

LEMMA RebaseClearFits ==
  ASSUME IInv, FitInv, NEW p \in Process, RebaseClear(p)
  PROVE  FitInv'
<1>1. Located /\ Data /\ pc[p] = "rebase.clear"
  BY IInvTypes DEF RebaseClear, Ready
<1>2. UNCHANGED <<draftVars, canonVars, batch, snap, mine, probed>>
  BY DEF RebaseClear, HoldNext, Step
<1>3. batch'[p] \in Seq(KeyedAlike) /\ probed'[p] <= version /\ snap'[p] = snap[p] /\ mine'[p] = mine[p]
  BY <1>2 DEF FitInv
<1>4. CASE HoldNext(p)
  <2>1. Goto(p, "rebase.clear") /\ UNCHANGED <<todo, buffer>>
    BY <1>1, <1>4 DEF HoldNext, Step
  <2>2. Alone(p) /\ pc'[p] = "rebase.clear"
    BY <1>1, <1>2, <2>1, StepAlone
  <2>3. "rebase.clear" \in Rebases \ {"rebase.run"}
    BY DEF Rebases
  <2>4. QED
    BY <1>1, <1>3, <2>2, <2>3, OnTheWayFits
<1>5. CASE ~HoldNext(p)
  <2>1. /\ Goto(p, "rebase.run")
        /\ todo' = [todo EXCEPT ![p] = mine[p]] /\ buffer' = [buffer EXCEPT ![p] = NoChanges]
    BY <1>5 DEF RebaseClear, Step
  <2>2. Alone(p) /\ pc'[p] = "rebase.run"
    BY <1>1, <1>2, <2>1, StepAlone
  <2>3. todo \in [Process -> Seq(Command)] /\ buffer \in [Process -> [Row -> Changes]]
        /\ mine[p] \in Seq(Command)
    BY <1>1 DEF Data, Shapes
  <2>4. todo'[p] = mine[p] /\ buffer'[p] = NoChanges
    BY <2>1, <2>3
  <2>5. Replaying(p)'
    <3>1. PICK none \in Seq(Command) : none = <<>>
      BY EmptySeq
    <3>2. mine'[p] = none \o todo'[p]
      BY <1>3, <2>3, <2>4, <3>1, ConcatEmptySeq
    <3>3. ASSUME NEW r \in Row PROVE Fits(buffer[p][r], none, r)'
      <4>1. canon[r] \in Rows /\ ledger[r] \in Nat /\ written[r] \in Nat
        BY <1>1, DataOf
      <4>2. FitsIn(NoChange, none, r, canon[r], ledger[r], written[r])
        BY <3>1, <4>1, FitsEmpty
      <4>3. canon' = canon /\ ledger' = ledger /\ written' = written /\ buffer'[p][r] = NoChange
        BY <1>2, <2>4 DEF canonVars, NoChanges
      <4>4. QED
        BY <4>2, <4>3 DEF Fits
    <3>4. QED
      BY <3>2, <3>3 DEF Replaying
  <2>6. Rebasing(p)'
    BY <1>1, <1>2, <1>3 DEF FitInv, Follows, Rebasing, Rebases, Current, draftVars
  <2>7. Appending(p)'
    BY <2>2 DEF Appending
  <2>8. QED
    BY <1>3, <2>2, <2>5, <2>6, <2>7, AloneFits DEF Follows
<1>6. QED
  BY <1>4, <1>5

LEMMA AppendCommitFits ==
  ASSUME IInv, FitInv, NEW p \in Process, AppendCommit(p)
  PROVE  FitInv'
<1>1. Located /\ Data /\ pc[p] = "append.run" /\ todo[p] = <<>>
  BY IInvTypes DEF AppendCommit, Ready
<1>2. Data'
  BY <1>1, AppendTypes
<1>3. CASE Fail(p)
  BY <1>3, FailFits
<1>4. CASE draft = "open" /\ rev = snap[p]
  <2>1. /\ log' = CompactLog(mine[p] \o batch[p]) /\ change' = [r \in Row |-> Sees(p, r)] /\ rev' = rev + 1
        /\ UNCHANGED <<draft, base, canonVars, snap, batch, probed>>
    BY <1>4 DEF AppendCommit, AppendWrites
  <2>2. canon' = canon /\ ledger' = ledger /\ written' = written /\ version' = version /\ base' = base
        /\ version \in Nat
    BY <1>1, <2>1 DEF canonVars, Data
  <2>3. PICK done \in Seq(KeyedAlike) :
          /\ batch[p] = done \o todo[p]
          /\ \A r \in Row : written[r] <= base => Fits(Sees(p, r), CompactLog(mine[p] \o done), r)
    BY <1>1, <1>4 DEF FitInv, Follows, Appending, Current
  <2>4. batch[p] = done
    BY <1>1, <2>3, ConcatEmptySeq
  <2>5. mine[p] \in Seq(KeyedAlike)
    BY <1>1, <1>4 DEF IInv, Knows, FitInv, LogFits, Current
  <2>6. log' \in Seq(KeyedAlike)
    BY <2>1, <2>4, <2>5, KeyedCompact
  <2>7. \A r \in Row : (written[r] <= base => Fits(change[r], log, r))'
    BY <2>1, <2>2, <2>3, <2>4 DEF Fits
  <2>8. LogFits'
    BY <2>6, <2>7 DEF LogFits
  <2>9. \A q \in Process : ~Current(q)'
    BY <1>1, <2>1, Advanced
  <2>10. base' <= version' /\ version <= version'
    BY <2>2 DEF FitInv
  <2>11. QED
    BY <1>1, <1>2, <2>1, <2>8, <2>9, <2>10, AdvanceFits
<1>5. CASE ~Fail(p) /\ ~(draft = "open" /\ rev = snap[p])
  <2>1. Goto(p, "append.begin") /\ UNCHANGED <<draftVars, canonVars, snap, batch, mine, todo, buffer, probed>>
    BY <1>5 DEF AppendCommit
  <2>2. Alone(p) /\ pc'[p] = "append.begin"
    BY <1>1, <2>1, StepAlone
  <2>3. "append.begin" \notin Rebases \cup {"append.run"}
    BY DEF Rebases
  <2>4. batch'[p] \in Seq(KeyedAlike) /\ probed'[p] <= version
    BY <2>1 DEF FitInv
  <2>5. QED
    BY <2>2, <2>3, <2>4, AsideFits
<1>6. QED
  BY <1>3, <1>4, <1>5

LEMMA RebaseCommitFits ==
  ASSUME IInv, FitInv, NEW p \in Process, RebaseCommit(p)
  PROVE  FitInv'
<1>1. Located /\ Data /\ pc[p] = "rebase.run" /\ todo[p] = <<>>
  BY IInvTypes DEF RebaseCommit, Ready
<1>2. Data'
  BY <1>1, RebaseTypes
<1>3. CASE Fail(p)
  BY <1>3, FailFits
<1>4. CASE ~Fail(p)
  <2>1. /\ draft = "open" /\ rev = snap[p] /\ base' = probed[p] /\ change' = buffer[p] /\ rev' = rev + 1
        /\ UNCHANGED <<draft, log, canonVars, snap, batch, probed>>
    BY <1>4 DEF RebaseCommit, RebaseWrites
  <2>2. canon' = canon /\ ledger' = ledger /\ written' = written /\ version' = version
        /\ version \in Nat
    BY <1>1, <2>1 DEF canonVars, Data
  <2>3. PICK done \in Seq(Command) :
          /\ mine[p] = done \o todo[p]
          /\ \A r \in Row : written[r] <= probed[p] => Fits(buffer[p][r], done, r)
    BY <1>1, <2>1 DEF FitInv, Follows, Replaying, Current
  <2>4. mine[p] = done
    BY <1>1, <2>3, ConcatEmptySeq
  <2>5. mine[p] = log
    BY <1>1, <2>1 DEF FitInv, Follows, Rebasing, Rebases, Current
  <2>6. log' \in Seq(KeyedAlike)
    BY <2>1 DEF FitInv, LogFits
  <2>7. \A r \in Row : (written[r] <= base => Fits(change[r], log, r))'
    BY <2>1, <2>2, <2>3, <2>4, <2>5 DEF Fits
  <2>8. LogFits'
    BY <2>6, <2>7 DEF LogFits
  <2>9. \A q \in Process : ~Current(q)'
    BY <1>1, <2>1, Advanced
  <2>10. base' <= version' /\ version <= version'
    BY <2>1, <2>2 DEF FitInv
  <2>11. QED
    BY <1>1, <1>2, <2>1, <2>8, <2>9, <2>10, AdvanceFits
<1>5. QED
  BY <1>3, <1>4

\* The commits that end the draft
LEMMA EndFits ==
  ASSUME IInv, FitInv, NEW p \in Process, PublishCommit(p) \/ DiscardCommit(p)
  PROVE  FitInv'
<1>1. Data /\ Data'
  BY IInvTypes, PublishTypes, DiscardTypes
<1>2. CASE Fail(p)
  BY <1>2, FailFits
<1>3. CASE ~Fail(p)
  <2>1. /\ draft' # "open" /\ version' \in {version, version + 1}
        /\ UNCHANGED <<base, batch, probed>>
    BY <1>3 DEF PublishCommit, PublishWrites, DiscardCommit, DiscardWrites, canonVars
  <2>2. LogFits' /\ \A q \in Process : ~Current(q)'
    BY <2>1 DEF LogFits, Current
  <2>3. base \in Nat /\ version \in Nat /\ base <= version
    BY <1>1 DEF FitInv, Data
  <2>4. base' <= version' /\ version <= version'
    BY <2>1, <2>3
  <2>5. QED
    BY <1>1, <2>1, <2>2, <2>4, AdvanceFits
<1>4. QED
  BY <1>2, <1>3

\* A row another writes is not clean any more.
LEMMA HostFits ==
  ASSUME IInv, FitInv, NEW r \in Row, HostWrite(r)
  PROVE  FitInv'
<1>1. Located /\ Data
  BY IInvTypes
<1>2. PICK row \in Rows, led \in Nat :
        HostWrites(r, row, led) /\ canon' = [canon EXCEPT ![r] = row] /\ ledger' = [ledger EXCEPT ![r] = led]
  BY <1>1, HostFacts
<1>3. /\ version' = version + 1 /\ written' = [written EXCEPT ![r] = version + 1]
      /\ UNCHANGED <<draftVars, pc, snap, batch, mine, todo, buffer, probed>>
  BY <1>1, HostFacts
<1>4. /\ canon \in [Row -> Rows] /\ ledger \in [Row -> Nat] /\ written \in [Row -> Nat]
      /\ version \in Nat /\ base \in Nat /\ probed \in [Process -> Nat]
  BY <1>1 DEF Data, Shapes
<1>5. /\ draft' = draft /\ rev' = rev /\ base' = base /\ log' = log /\ change' = change /\ pc' = pc /\ snap' = snap
      /\ batch' = batch /\ mine' = mine /\ todo' = todo /\ buffer' = buffer /\ probed' = probed
  BY <1>3 DEF draftVars
<1>6. base <= version /\ (\A q \in Process : probed[q] <= version /\ probed[q] \in Nat)
  BY <1>4 DEF FitInv
<1>7. written'[r] = version + 1
  BY <1>3, <1>4
<1>8. \A k \in Row \ {r} : canon'[k] = canon[k] /\ ledger'[k] = ledger[k] /\ written'[k] = written[k]
  BY <1>2, <1>3, <1>4
<1>9. \A k \in Row, n \in Nat : n <= version /\ written'[k] <= n =>
        /\ written[k] <= n
        /\ canon'[k] = canon[k] /\ ledger'[k] = ledger[k] /\ written'[k] = written[k]
  <2>1. \A n \in Nat : n <= version => ~(version + 1 <= n)
    BY <1>4
  <2>2. QED
    BY <1>7, <1>8, <2>1
<1>10. ASSUME NEW k \in Row, NEW n \in Nat, n <= version, written'[k] <= n, NEW x, NEW s,
              written[k] <= n => Fits(x, s, k)
       PROVE  FitsIn(x, s, k, canon'[k], ledger'[k], written'[k])
  BY <1>9, <1>10 DEF Fits
<1>11. LogFits'
  <2>1. SUFFICES ASSUME draft = "open"
                 PROVE  log \in Seq(KeyedAlike)
                        /\ \A k \in Row : written'[k] <= base =>
                             FitsIn(change[k], log, k, canon'[k], ledger'[k], written'[k])
    BY <1>5 DEF LogFits, Fits
  <2>2. log \in Seq(KeyedAlike) /\ \A k \in Row : written[k] <= base => Fits(change[k], log, k)
    BY <2>1 DEF FitInv, LogFits
  <2>3. ASSUME NEW k \in Row, written'[k] <= base
        PROVE  FitsIn(change[k], log, k, canon'[k], ledger'[k], written'[k])
    BY <1>4, <1>6, <1>10, <2>2, <2>3
  <2>4. QED
    BY <2>2, <2>3
<1>12. ASSUME NEW q \in Process PROVE Follows(q)'
  <2>1. Current(q)' <=> Current(q)
    BY <1>5 DEF Current
  <2>2. Rebasing(q)'
    BY <1>5, <2>1 DEF FitInv, Follows, Rebasing
  <2>3. Appending(q)'
    <3>1. SUFFICES ASSUME pc[q] = "append.run", Current(q) PROVE Appending(q)'
      BY <1>5, <2>1 DEF Appending
    <3>2. PICK done \in Seq(KeyedAlike) :
            /\ todo[q] \in Seq(KeyedAlike) /\ batch[q] = done \o todo[q]
            /\ \A k \in Row : written[k] <= base => Fits(Sees(q, k), CompactLog(mine[q] \o done), k)
      BY <3>1 DEF FitInv, Follows, Appending
    <3>3. ASSUME NEW k \in Row, written'[k] <= base'
          PROVE  Fits(Sees(q, k), CompactLog(mine[q] \o done), k)'
      <4>1. PICK x : x = Sees(q, k)
        OBVIOUS
      <4>2. PICK s : s = CompactLog(mine[q] \o done)
        OBVIOUS
      <4>3. FitsIn(x, s, k, canon'[k], ledger'[k], written'[k])
        BY <1>4, <1>5, <1>6, <1>10, <3>2, <3>3, <4>1, <4>2
      <4>4. Sees(q, k)' = x
        BY <1>5, <4>1 DEF Sees
      <4>5. QED
        BY <1>5, <4>2, <4>3, <4>4 DEF Fits
    <3>4. \A k \in Row : (written[k] <= base => Fits(Sees(q, k), CompactLog(mine[q] \o done), k))'
      BY <3>3
    <3>5. QED
      BY <1>5, <3>2, <3>4 DEF Appending
  <2>4. Replaying(q)'
    <3>1. SUFFICES ASSUME pc[q] = "rebase.run", Current(q) PROVE Replaying(q)'
      BY <1>5, <2>1 DEF Replaying
    <3>2. PICK done \in Seq(Command) :
            /\ mine[q] = done \o todo[q]
            /\ \A k \in Row : written[k] <= probed[q] => Fits(buffer[q][k], done, k)
      BY <3>1 DEF FitInv, Follows, Replaying
    <3>3. PICK n \in Nat : n = probed[q] /\ n <= version
      BY <1>6
    <3>4. ASSUME NEW k \in Row, written'[k] <= probed'[q]
          PROVE  Fits(buffer[q][k], done, k)'
      <4>1. PICK x : x = buffer[q][k]
        OBVIOUS
      <4>2. FitsIn(x, done, k, canon'[k], ledger'[k], written'[k])
        BY <1>5, <1>10, <3>2, <3>3, <3>4, <4>1
      <4>3. QED
        BY <1>5, <4>1, <4>2 DEF Fits
    <3>5. \A k \in Row : (written[k] <= probed[q] => Fits(buffer[q][k], done, k))'
      BY <3>4
    <3>6. QED
      BY <1>5, <3>2, <3>5 DEF Replaying
  <2>5. QED
    BY <2>2, <2>3, <2>4 DEF Follows
<1>13. base' <= version' /\ \A q \in Process : probed'[q] <= version'
  BY <1>3, <1>4, <1>5, <1>6
<1>14. \A q \in Process : batch'[q] \in Seq(KeyedAlike)
  BY <1>5 DEF FitInv
<1>15. QED
  BY <1>11, <1>12, <1>13, <1>14 DEF FitInv

LEMMA InitFits == Init => FitInv
<1> SUFFICES ASSUME Init PROVE FitInv
  OBVIOUS
<1>1. IInv /\ Located /\ Data
  BY InitIInv, IInvTypes
<1>2. /\ base = 1 /\ version = 1 /\ log = <<>> /\ change = NoChanges
      /\ \A p \in Process : probed[p] = 0 /\ batch[p] = <<>> /\ pc[p] = "idle"
  BY DEF Init
<1>3. <<>> \in Seq(KeyedAlike)
  BY EmptySeq
<1>4. ASSUME NEW r \in Row PROVE Fits(change[r], log, r)
  <2>1. canon[r] \in Rows /\ ledger[r] \in Nat /\ written[r] \in Nat
    BY <1>1, DataOf
  <2>2. change[r] = NoChange
    BY <1>2 DEF NoChanges
  <2>3. QED
    BY <1>2, <2>1, <2>2, FitsEmpty DEF Fits
<1>5. LogFits
  BY <1>2, <1>3, <1>4 DEF LogFits
<1>6. \A p \in Process : Follows(p)
  BY <1>2 DEF Follows, Appending, Rebasing, Replaying, Rebases
<1>7. base <= version /\ \A p \in Process : probed[p] <= version
  BY <1>2
<1>8. \A p \in Process : batch[p] \in Seq(KeyedAlike)
  BY <1>2, <1>3
<1>9. QED
  BY <1>5, <1>6, <1>7, <1>8 DEF FitInv

LEMMA StepFits == ASSUME RowsAreKeyed, IInv, FitInv, [Next]_vars PROVE FitInv'
<1>1. CASE UNCHANGED vars
  <2>1. /\ UNCHANGED <<draft, rev, base, log, change, canon, ledger, version, written>>
        /\ UNCHANGED <<pc, snap, batch, mine, todo, buffer, probed>>
    BY <1>1 DEF vars, draftVars, canonVars
  <2>2. \A q \in Process : Follows(q)'
    BY <2>1, SameFollows DEF FitInv, Same
  <2>3. LogFits'
    BY <2>1 DEF FitInv, LogFits, Fits
  <2>4. QED
    BY <2>1, <2>2, <2>3 DEF FitInv
<1>2. ASSUME NEW p \in Process, Start(p) \/ Progress(p) PROVE FitInv'
  <2>1. CASE Start(p)
    BY <2>1, StartFits
  <2>2. CASE \/ AppendBegin(p) \/ PublishLog(p) \/ PublishBegin(p) \/ PublishCheck(p)
             \/ PublishReplay(p) \/ PublishApply(p) \/ DiscardBegin(p) \/ DiscardClear(p)
    BY <2>2, QuietFits
  <2>3. CASE RebaseLog(p) \/ RebaseProbe(p) \/ RebaseReport(p) \/ RebaseConfirm(p) \/ RebaseBegin(p)
    BY <2>3, RebaseFits
  <2>4. CASE AppendRead(p) \/ AppendRun(p) \/ RebaseClear(p) \/ RebaseRun(p) \/ Abort(p)
    BY <2>4, AppendReadFits, AppendRunFits, RebaseClearFits, RebaseRunFits, AbortFits
  <2>5. CASE AppendCommit(p) \/ RebaseCommit(p) \/ PublishCommit(p) \/ DiscardCommit(p)
    BY <2>5, AppendCommitFits, RebaseCommitFits, EndFits
  <2>6. QED
    BY <1>2, <2>1, <2>2, <2>3, <2>4, <2>5 DEF Progress
<1>3. ASSUME NEW r \in Row, HostWrite(r) PROVE FitInv'
  BY <1>3, HostFits
<1>4. QED
  BY <1>1, <1>2, <1>3 DEF Next

\* What publication checks of a clean draft
LEMMA FitsAreClean == ASSUME IInv, FitInv PROVE CleanDraftPublishes
<1> SUFFICES ASSUME draft = "open", Clean PROVE CleanDraftPublishes
  BY DEF CleanDraftPublishes
<1>1. Located /\ Data /\ log \in Seq(Command)
  BY IInvTypes DEF Data, Shapes
<1>2. ASSUME NEW r \in Row PROVE Fits(change[r], log, r)
  <2>1. canon[r] \in Rows /\ ledger[r] \in Nat /\ written[r] \in Nat
    BY <1>1, DataOf
  <2>2. CASE r \in DraftRows
    BY <2>2 DEF Clean, FitInv, LogFits
  <2>3. CASE r \notin DraftRows
    <3>1. change[r] = NoChange /\ \A d \in Items(log) : d.row # r
      BY <2>3 DEF DraftRows, Changed, Items
    <3>2. QED
      BY <1>1, <2>1, <3>1, FitsUntouched DEF Fits
  <2>4. QED
    BY <2>2, <2>3
<1>3. canon \in Canons /\ ledger \in Stamps /\ written \in Stamps
  BY <1>1 DEF Data, Shapes, Canons, Stamps
<1>4. PICK replay : replay = Replay(log, canon, ledger, written)
  OBVIOUS
<1>5. /\ replay.ok
      /\ \A r \in Row : replay.change[r] = Leaves(log, r, canon[r], ledger[r], written[r])
  <2>1. \A r \in Row : Goes(log, r, canon[r], ledger[r], written[r])
    BY <1>2 DEF Fits, FitsIn
  <2>2. QED
    BY <1>1, <1>3, <1>4, <2>1, RowsReplay
<1>6. ASSUME NEW r \in Row
      PROVE  /\ ~RowConflict(change[r], canon[r], ledger[r])
             /\ Reviewed(change[r]) <=> Reviewed(replay.change[r])
             /\ Reviewed(change[r]) => /\ SameProposal(change[r], replay.change[r])
                                       /\ SameAnchor(change[r], replay.change[r])
                                       /\ Applicable(change[r], canon[r], ledger[r])
  <2>1. canon[r] \in Rows /\ ledger[r] \in Nat /\ written[r] \in Nat
    BY <1>1, DataOf
  <2>2. Revisioned /\ canon[r].exists => canon[r].rev >= ledger[r]
    BY DEF IInv, Tracked, Stamped
  <2>3. PICK x : x = change[r]
    OBVIOUS
  <2>4. PICK y : y = replay.change[r]
    OBVIOUS
  <2>5. FitsIn(x, log, r, canon[r], ledger[r], written[r])
        /\ y = Leaves(log, r, canon[r], ledger[r], written[r])
    BY <1>2, <1>5, <2>3, <2>4 DEF Fits
  <2>6. /\ ~RowConflict(x, canon[r], ledger[r])
        /\ Reviewed(x) <=> Reviewed(y)
        /\ Reviewed(x) => SameProposal(x, y) /\ SameAnchor(x, y) /\ Applicable(x, canon[r], ledger[r])
    BY <1>1, <2>1, <2>2, <2>5, FitsPublishes
  <2>7. QED
    BY <2>3, <2>4, <2>6
<1>7. ReplayMatches(change, replay.change)
  BY <1>6 DEF ReplayMatches
<1>8. QED
  BY <1>4, <1>5, <1>6, <1>7 DEF CleanDraftPublishes

\* The checks of publication (conflicts by revision, the replay of the compacted
\* log against the reviewed changes, and their application) refuse no draft whose
\* rows nobody else has written, whatever was compacted, rebased or raced: given
\* that the commands of a row all have a compaction key or none has.
THEOREM CleanDraftsPublish == ASSUME RowsAreKeyed PROVE Spec => []CleanDraftPublishes
<1>1. Init => IInv /\ FitInv
  BY InitIInv, InitFits
<1>2. IInv /\ FitInv /\ [Next]_vars => (IInv /\ FitInv)'
  BY StepIInv, StepFits
<1>3. IInv /\ FitInv => CleanDraftPublishes
  BY FitsAreClean
<1>4. QED
  BY <1>1, <1>2, <1>3, PTL DEF Spec

-----------------------------------------------------------------------------
(* The log of one author, of any length, compacted after each command *)

\* Why a command of a history may be missing from the log
Caused(h, i, j) ==
  /\ j # i /\ h[j].keyed /\ h[j].row = h[i].row /\ h[j].op \in {"insert", "delete"}
  /\ j < i => h[i].op = "delete" /\ h[j].op = "insert"
Accounted(h, l) ==
  \A i \in 1 .. Len(h) : h[i] \notin Items(l) => h[i].keyed /\ \E j \in 1 .. Len(h) : Caused(h, i, j)

\* The log and the changes that a history of commands leaves over the rows cn
Authored(h, l, ch, cn, ld, wr) ==
  /\ h \in Seq(Command) /\ l = CompactLog(h) /\ Accounted(h, l)
  /\ \A r \in Row : FitsIn(ch[r], l, r, cn[r], ld[r], wr[r])

LEMMA LogBegins ==
  ASSUME NEW cn \in Canons, NEW ld \in Stamps, NEW wr \in Stamps, NEW ch, \A r \in Row : ch[r] = NoChange
  PROVE  Authored(<<>>, <<>>, ch, cn, ld, wr)
<1>1. <<>> \in Seq(Command) /\ <<>> = CompactLog(<<>>)
  BY CompactEmpty, EmptySeq
<1>2. Accounted(<<>>, <<>>)
  BY EmptySeq DEF Accounted
<1>3. \A r \in Row : FitsIn(ch[r], <<>>, r, cn[r], ld[r], wr[r])
  BY FitsEmpty DEF Canons, Stamps
<1>4. QED
  BY <1>1, <1>2, <1>3 DEF Authored

\* What is left of the log, and whether the new command is in it
LEMMA OneMoreItems ==
  ASSUME NEW s \in Seq(Command), NEW c \in Command
  PROVE  /\ \A d \in Items(s) : d \notin Drops(c, Has(s, c)) => d \in Items(OneMore(s, c))
         /\ ~Cancels(c, Has(s, c)) => c \in Items(OneMore(s, c))
<1>1. PICK left : left = Only(s, Command \ Drops(c, Has(s, c)))
  OBVIOUS
<1>2. left \in Seq(Command) /\ Items(s) \subseteq Command
  BY <1>1, LeftType, ItemsType
<1>3. \A d : d \in Items(left) <=> d \in Items(s) /\ d \notin Drops(c, Has(s, c))
  BY <1>1, <1>2, OnlyKeeps
<1>4. CASE Cancels(c, Has(s, c))
  BY <1>1, <1>3, <1>4 DEF OneMore
<1>5. CASE ~Cancels(c, Has(s, c))
  <2>1. OneMore(s, c) = Append(left, c)
    BY <1>1, <1>5 DEF OneMore
  <2>2. Items(Append(left, c)) = Items(left) \cup {c}
    BY <1>2, ItemsAppend
  <2>3. QED
    BY <1>3, <2>1, <2>2
<1>6. QED
  BY <1>4, <1>5

LEMMA LogItems ==
  ASSUME NEW h \in Seq(Command)
  PROVE  \A d \in Items(CompactLog(h)) : \E i \in 1 .. Len(h) : d = h[i]
<1>1. Items(Filtered(h, Kept(h))) = {h[i] : i \in Kept(h) \cap (1 .. Len(h))}
  BY FilterItems
<1>2. QED
  BY <1>1, CompactIsKept

\* One more command
LEMMA MoreAccounted ==
  ASSUME NEW h \in Seq(Command), NEW l, l = CompactLog(h), Accounted(h, l), NEW c \in Command
  PROVE  Accounted(Append(h, c), OneMore(l, c))
<1>1. PICK n : n = Len(h)
  OBVIOUS
<1>2. PICK g : g = Append(h, c)
  OBVIOUS
<1>3. PICK has : has = Has(l, c)
  OBVIOUS
<1>4. PICK m : m = OneMore(l, c)
  OBVIOUS
<1>5. n \in Nat /\ Len(g) = n + 1 /\ g[n + 1] = c /\ \A i \in 1 .. n : g[i] = h[i]
  BY <1>1, <1>2, AppendFacts
<1>6. l \in Seq(Command) /\ Items(l) \subseteq Command
  BY CompactType, ItemsType
<1>7. /\ \A d \in Items(l) : d \notin Drops(c, has) => d \in Items(m)
      /\ ~Cancels(c, has) => c \in Items(m)
  BY <1>3, <1>4, <1>6, OneMoreItems
<1>8. ASSUME NEW i \in 1 .. n, h[i] \notin Items(m)
      PROVE  h[i].keyed /\ \E j \in 1 .. n + 1 : Caused(g, i, j)
  <2>1. CASE h[i] \notin Items(l)
    <3>1. PICK j \in 1 .. n : h[i].keyed /\ Caused(h, i, j)
      BY <1>1, <2>1 DEF Accounted
    <3>2. g[i] = h[i] /\ g[j] = h[j] /\ j \in 1 .. n + 1
      BY <1>5
    <3>3. Caused(g, i, j)
      BY <3>1, <3>2 DEF Caused
    <3>4. QED
      BY <3>1, <3>2, <3>3
  <2>2. CASE h[i] \in Items(l)
    <3>1. h[i] \in Drops(c, has)
      BY <1>7, <1>8, <2>2
    <3>2. /\ c.keyed /\ h[i].keyed /\ c.row = h[i].row /\ c.op \in {"insert", "delete"}
      BY <3>1 DEF Drops
    <3>3. n + 1 \in 1 .. n + 1 /\ n + 1 # i /\ ~(n + 1 < i) /\ g[n + 1] = c /\ g[i] = h[i]
      BY <1>5
    <3>4. Caused(g, i, n + 1)
      BY <3>2, <3>3 DEF Caused
    <3>5. QED
      BY <3>2, <3>3, <3>4
  <2>3. QED
    BY <2>1, <2>2
<1>9. ASSUME c \notin Items(m)
      PROVE  c.keyed /\ \E j \in 1 .. n + 1 : Caused(g, n + 1, j)
  <2>1. c.keyed /\ c.op = "delete" /\ has
    BY <1>7, <1>9 DEF Cancels
  <2>2. PICK d \in Items(l) : d.keyed /\ d.row = c.row /\ d.op = "insert"
    BY <1>3, <2>1 DEF Has
  <2>3. PICK j \in 1 .. n : d = h[j]
    BY <1>1, <2>2, LogItems
  <2>4. j \in 1 .. n + 1 /\ j # n + 1 /\ g[j] = d /\ g[n + 1] = c
    BY <1>5, <2>3
  <2>5. Caused(g, n + 1, j)
    BY <2>1, <2>2, <2>4 DEF Caused
  <2>6. QED
    BY <2>1, <2>4, <2>5
<1>10. ASSUME NEW i \in 1 .. n + 1, g[i] \notin Items(m)
       PROVE  g[i].keyed /\ \E j \in 1 .. n + 1 : Caused(g, i, j)
  <2>1. CASE i \in 1 .. n
    <3>1. g[i] = h[i]
      BY <1>5, <2>1
    <3>2. QED
      BY <1>8, <1>10, <2>1, <3>1
  <2>2. CASE i = n + 1
    <3>1. g[i] = c
      BY <1>5, <2>2
    <3>2. QED
      BY <1>9, <1>10, <2>2, <3>1
  <2>3. QED
    BY <1>5, <2>1, <2>2
<1>11. QED
  BY <1>2, <1>4, <1>5, <1>10 DEF Accounted

LEMMA LogGrows ==
  ASSUME NEW cn \in Canons, NEW ld \in Stamps, NEW wr \in Stamps,
         NEW h, NEW l, NEW ch, Authored(h, l, ch, cn, ld, wr),
         NEW c \in Command, NEW k \in Row, k = c.row, ~Refused(c, ch[k], cn[k]),
         \A i \in 1 .. Len(h) : h[i].row = k => h[i].keyed = c.keyed,
         NEW to, to[k] = Touched(c, ch[k], cn[k], ld[k], wr[k]), \A r \in Row \ {k} : to[r] = ch[r]
  PROVE  Authored(Append(h, c), CompactLog(Append(l, c)), to, cn, ld, wr)
<1>1. h \in Seq(Command) /\ l = CompactLog(h) /\ Accounted(h, l) /\ l \in Seq(Command)
  BY CompactType DEF Authored
<1>2. \A r \in Row : FitsIn(ch[r], l, r, cn[r], ld[r], wr[r])
  BY DEF Authored
<1>3. Append(h, c) \in Seq(Command)
  BY <1>1, AppendFacts
<1>4. CompactLog(Append(l, c)) = OneMore(l, c) /\ CompactLog(Append(h, c)) = OneMore(l, c)
  <2>1. CompactLog(Append(l, c)) = OneMore(CompactLog(l), c)
    BY <1>1, CompactAppend
  <2>2. CompactLog(Append(h, c)) = OneMore(CompactLog(h), c)
    BY <1>1, CompactAppend
  <2>3. CompactLog(l) = l
    BY <1>1, CompactionSettles
  <2>4. QED
    BY <1>1, <2>1, <2>2, <2>3
<1>5. Accounted(Append(h, c), OneMore(l, c))
  BY <1>1, MoreAccounted
<1>6. ASSUME NEW r \in Row PROVE FitsIn(to[r], OneMore(l, c), r, cn[r], ld[r], wr[r])
  <2>1. PICK row \in Rows, led \in Nat, seen \in Nat : row = cn[r] /\ led = ld[r] /\ seen = wr[r]
    BY DEF Canons, Stamps
  <2>2. PICK x : x = ch[r]
    OBVIOUS
  <2>3. FitsIn(x, l, r, row, led, seen)
    BY <1>2, <2>1, <2>2
  <2>4. CASE r # k
    <3>1. FitsIn(x, OneMore(l, c), r, row, led, seen)
      BY <1>1, <2>3, <2>4, OtherRowsKept
    <3>2. to[r] = x
      BY <2>2, <2>4
    <3>3. QED
      BY <2>1, <3>1, <3>2
  <2>5. CASE r = k
    <3>1. ASSUME c.keyed, NEW d \in Items(l), d.row = c.row PROVE d.keyed
      <4>1. PICK i \in 1 .. Len(h) : d = h[i]
        BY <1>1, <3>1, LogItems
      <4>2. QED
        BY <3>1, <4>1
    <3>2. ~Refused(c, x, row) /\ FitsIn(x, l, c.row, row, led, seen)
      BY <2>1, <2>2, <2>3, <2>5
    <3>3. FitsIn(Touched(c, x, row, led, seen), OneMore(l, c), c.row, row, led, seen)
      BY <1>1, <3>1, <3>2, OneMoreFits
    <3>4. to[r] = Touched(c, x, row, led, seen)
      BY <2>1, <2>2, <2>5
    <3>5. QED
      BY <2>1, <2>5, <3>3, <3>4
  <2>6. QED
    BY <2>4, <2>5
<1>7. QED
  BY <1>3, <1>4, <1>5, <1>6 DEF Authored

\* What compaction owes to publication and to the history
LEMMA LogIsFaithful ==
  ASSUME NEW cn \in Canons, NEW ld \in Stamps, NEW wr \in Stamps, \A r \in Row : cn[r].exists => cn[r].rev >= ld[r],
         NEW h, NEW l, NEW ch, Authored(h, l, ch, cn, ld, wr)
  PROVE  /\ Replay(l, cn, ld, wr).ok /\ ReplayMatches(ch, Replay(l, cn, ld, wr).change)
         /\ l = CompactLog(h) /\ Accounted(h, l)
<1>1. h \in Seq(Command) /\ l = CompactLog(h) /\ Accounted(h, l) /\ l \in Seq(Command)
  BY CompactType DEF Authored
<1>2. \A r \in Row : FitsIn(ch[r], l, r, cn[r], ld[r], wr[r])
  BY DEF Authored
<1>3. PICK rc : rc = Replay(l, cn, ld, wr).change
  OBVIOUS
<1>4. Replay(l, cn, ld, wr).ok /\ \A r \in Row : rc[r] = Leaves(l, r, cn[r], ld[r], wr[r])
  <2>1. \A r \in Row : Goes(l, r, cn[r], ld[r], wr[r])
    BY <1>2 DEF FitsIn
  <2>2. QED
    BY <1>1, <1>3, <2>1, RowsReplay
<1>5. ASSUME NEW r \in Row
      PROVE  /\ Reviewed(ch[r]) <=> Reviewed(rc[r])
             /\ Reviewed(ch[r]) => SameProposal(ch[r], rc[r]) /\ SameAnchor(ch[r], rc[r])
  <2>1. PICK row \in Rows, led \in Nat, seen \in Nat : row = cn[r] /\ led = ld[r] /\ seen = wr[r]
    BY DEF Canons, Stamps
  <2>2. PICK x : x = ch[r]
    OBVIOUS
  <2>3. PICK y : y = rc[r]
    OBVIOUS
  <2>4. FitsIn(x, l, r, row, led, seen) /\ y = Leaves(l, r, row, led, seen)
    BY <1>2, <1>4, <2>1, <2>2, <2>3
  <2>5. Revisioned /\ row.exists => row.rev >= led
    BY <2>1
  <2>6. /\ Reviewed(x) <=> Reviewed(y)
        /\ Reviewed(x) => SameProposal(x, y) /\ SameAnchor(x, y)
    BY <1>1, <2>4, <2>5, FitsPublishes
  <2>7. QED
    BY <2>2, <2>3, <2>6
<1>6. QED
  BY <1>1, <1>3, <1>4, <1>5 DEF ReplayMatches
=============================================================================
