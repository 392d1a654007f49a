------------------------- MODULE ReactiveTierProofs -------------------------
(***************************************************************************)
(* Theorems about ReactiveTier, for every set of connections, ids, tables, *)
(* queries and mutations and every bound on the subscribe attempts.        *)
(***************************************************************************)
EXTENDS ReactiveTier, TLAPS

USE BoundsAssumption

-----------------------------------------------------------------------------
(* Type correctness *)

LEMMA InitTypeOK == Init => TypeOK
  BY DEF Init, TypeOK, Attempt

\* The values of every variable stay in their sets, whatever handler runs.
LEMMA TypeOKStep == TypeOK /\ [Next]_vars => TypeOK'
<1> SUFFICES ASSUME TypeOK, [Next]_vars PROVE TypeOK'
  OBVIOUS
<1>p. pendingSubAttempts \in [Conn -> [SubId -> 0 .. MaxAttempts]]
  BY DEF TypeOK
<1>s. stage \in [Attempt -> {"unsent", "context", "query", "answer", "entry", "dropped"}]
  BY DEF TypeOK
<1>f. functionPath \in [Attempt -> Query \cup {NoEntry}]
  BY DEF TypeOK
<1>w. tablesWatched \in [Attempt -> SUBSET Table] /\ fresh \in [Attempt -> SUBSET Table]
  BY DEF TypeOK
<1>m. mySubIds \in [Conn -> SUBSET SubId]
  BY DEF TypeOK
<1>1. ASSUME NEW c \in Conn, NEW id \in SubId, HandleSubscribe(c, id)
      PROVE  TypeOK'
  <2>1. nextSubAttempt[c] + 1 \in 1 .. MaxAttempts
    BY <1>1 DEF HandleSubscribe, TypeOK
  <2>2. <<c, nextSubAttempt[c] + 1>> \in Attempt
    BY <2>1 DEF Attempt
  <2>3. store' \in [SubId -> Attempt \cup {NoEntry}]
    BY <1>1 DEF HandleSubscribe, StoreWithout, TypeOK
  <2>a. PICK k \in {nextSubAttempt[c] + 1, 0} :
          pendingSubAttempts' = [pendingSubAttempts EXCEPT ![c][id] = k]
    BY <1>1 DEF HandleSubscribe
  <2>4. pendingSubAttempts' \in [Conn -> [SubId -> 0 .. MaxAttempts]]
    BY <1>p, <2>1, <2>a
  <2>5. stage' \in [Attempt -> {"unsent", "context", "query", "answer", "entry", "dropped"}]
    BY <1>1, <1>s, <2>2 DEF HandleSubscribe
  <2>9. functionPath' \in [Attempt -> Query \cup {NoEntry}]
    BY <1>1, <1>f, <2>2 DEF HandleSubscribe
  <2>b. subId' \in [Attempt -> SubId \cup {NoEntry}]
    BY <1>1, <2>2 DEF HandleSubscribe, TypeOK
  <2>6. nextSubAttempt' \in [Conn -> 0 .. MaxAttempts]
    BY <1>1, <2>1 DEF HandleSubscribe, TypeOK
  <2>7. mySubIds' \in [Conn -> SUBSET SubId]
    BY <1>1 DEF HandleSubscribe, TypeOK
  <2>8. QED
    BY <1>1, <2>3, <2>4, <2>5, <2>6, <2>7, <2>9, <2>b DEF HandleSubscribe, TypeOK, connVars, subVars, routeVars, dataVars
<1>2. ASSUME NEW c \in Conn, NEW id \in SubId, HandleUnsubscribe(c, id)
      PROVE  TypeOK'
  BY <1>2 DEF HandleUnsubscribe, StoreWithout, TypeOK, connVars, subVars, routeVars, dataVars
<1>3. ASSUME NEW c \in Conn, Teardown(c)
      PROVE  TypeOK'
  BY <1>3 DEF Teardown, StoreWithout, TypeOK, connVars, subVars, routeVars, dataVars
<1>4. ASSUME NEW a \in Attempt, SubscribeNext(a)
      PROVE  TypeOK'
  <2>1. a[1] \in Conn
    BY DEF Attempt
  <2>2. CASE SubscribeFailed(a)
    BY <2>1, <2>2 DEF SubscribeFailed, Current, Drop, TypeOK, connVars, subVars, routeVars, dataVars
  <2>3. CASE ContextResolved(a)
    BY <2>3 DEF ContextResolved, Drop, TypeOK, connVars, subVars, routeVars, dataVars
  <2>4. CASE QueryReads(a)
    BY <2>4 DEF QueryReads, TypeOK, connVars, subVars, routeVars, dataVars
  <2>5. CASE Register(a)
    <3>1. CASE Bails(a)
      BY <2>5, <3>1 DEF Register, Drop, TypeOK, connVars, subVars, routeVars, dataVars
    <3>2. CASE ~Bails(a)
      <4>1. subId[a] \in SubId
        BY <3>2 DEF Bails, Current
      <4>2. pendingSubAttempts' \in [Conn -> [SubId -> 0 .. MaxAttempts]]
        <5>1. pendingSubAttempts' = [pendingSubAttempts EXCEPT ![a[1]][subId[a]] = 0]
          BY <2>5, <3>2 DEF Register
        <5>2. QED
          BY <1>p, <2>1, <4>1, <5>1
      <4>3. store' \in [SubId -> Attempt \cup {NoEntry}]
        BY <2>5, <3>2, <4>1 DEF Register, TypeOK
      <4>4. mySubIds' \in [Conn -> SUBSET SubId]
        BY <1>m, <2>1, <2>5, <3>2, <4>1 DEF Register
      <4>5. stage' \in [Attempt -> {"unsent", "context", "query", "answer", "entry", "dropped"}]
        BY <1>s, <2>5, <3>2 DEF Register
      <4>7. QED
        BY <2>5, <4>2, <4>3, <4>4, <4>5 DEF Register, TypeOK, connVars, subVars, routeVars, dataVars
    <3>3. QED
      BY <3>1, <3>2
  <2>6. QED
    BY <1>4, <2>2, <2>3, <2>4, <2>5 DEF SubscribeNext
<1>5. ASSUME NEW m \in Mutation, MutationNext(m)
      PROVE  TypeOK'
  <2>1. CASE \E T \in SUBSET Table : Commit(m, T)
    BY <2>1 DEF Commit, TypeOK, connVars, subVars, routeVars, dataVars
  <2>2. CASE Emit(m)
    BY <2>2 DEF Emit, TypeOK, connVars, subVars, routeVars, dataVars
  <2>3. QED
    BY <1>5, <2>1, <2>2 DEF MutationNext
<1>6. ASSUME NEW a \in Attempt, RouterNext(a)
      PROVE  TypeOK'
  <2>1. CASE LinkStart(a)
    BY <2>1 DEF LinkStart, TypeOK, connVars, subVars, routeVars, dataVars
  <2>2. CASE RecomputeReads(a)
    BY <2>2 DEF RecomputeReads, TypeOK, connVars, subVars, routeVars, dataVars
  <2>3. CASE RecomputeFails(a)
    BY <2>3 DEF RecomputeFails, TypeOK, connVars, subVars, routeVars, dataVars
  <2>4. CASE LinkFinish(a)
    <3>1. tablesWatched' \in [Attempt -> SUBSET Table]
      BY <1>w, <2>4 DEF LinkFinish
    <3>2. owed' \in [Attempt -> BOOLEAN]
      BY <2>4 DEF LinkFinish, TypeOK
    <3>4. missed' \in [Attempt -> BOOLEAN]
      BY <2>4 DEF LinkFinish, TypeOK, Outdated
    <3>3. QED
      BY <2>4, <3>1, <3>2, <3>4 DEF LinkFinish, TypeOK, connVars, subVars, routeVars, dataVars
  <2>5. QED
    BY <1>6, <2>1, <2>2, <2>3, <2>4 DEF RouterNext
<1>7. CASE UNCHANGED vars
  BY <1>7 DEF vars, TypeOK, connVars, subVars, routeVars, dataVars
<1>8. QED
  BY <1>1, <1>2, <1>3, <1>4, <1>5, <1>6, <1>7 DEF Next, ConnNext

\* The type invariant holds of the reactive tier.
THEOREM TypeCorrect == Spec => []TypeOK
  BY InitTypeOK, TypeOKStep, PTL DEF Spec

-----------------------------------------------------------------------------
(* The store holds no orphan and no superseded entry *)

IInv == TypeOK /\ AttemptTokens /\ NoOrphanEntry /\ NoSupersededEntry

LEMMA InitIInv == Init => IInv
  BY InitTypeOK, NoEntryAssumption
  DEF Init, IInv, AttemptTokens, NoOrphanEntry, NoSupersededEntry, Attempt

\* The token of the connection always names the newest attempt for an id.
LEMMA AttemptTokensStep == IInv /\ [Next]_vars => AttemptTokens'
<1> SUFFICES ASSUME IInv, [Next]_vars PROVE AttemptTokens'
  OBVIOUS
<1>t. TypeOK /\ TypeOK'
  BY TypeOKStep DEF IInv
<1>i. AttemptTokens
  BY DEF IInv
<1>p. /\ nextSubAttempt \in [Conn -> 0 .. MaxAttempts]
      /\ pendingSubAttempts \in [Conn -> [SubId -> 0 .. MaxAttempts]]
      /\ cancelled \in [Conn -> [SubId -> 0 .. MaxAttempts]]
      /\ closed \in [Conn -> BOOLEAN]
      /\ subId \in [Attempt -> SubId \cup {NoEntry}]
  BY <1>t DEF TypeOK
<1>1. ASSUME NEW c \in Conn, NEW id \in SubId, HandleSubscribe(c, id)
      PROVE  AttemptTokens'
  <2> DEFINE n == nextSubAttempt[c] + 1
  <2>1. n \in 1 .. MaxAttempts /\ nextSubAttempt' = [nextSubAttempt EXCEPT ![c] = n]
    BY <1>1, <1>p DEF HandleSubscribe
  <2>2. /\ <<c, n>> \in Attempt
        /\ subId' = [subId EXCEPT ![<<c, n>>] = id]
        /\ UNCHANGED <<closed, cancelled>>
        /\ ~closed[c]
    BY <1>1, <2>1 DEF HandleSubscribe, Attempt
  <2>3. PICK p \in {n, 0} : pendingSubAttempts' = [pendingSubAttempts EXCEPT ![c][id] = p]
    BY <1>1 DEF HandleSubscribe
  <2>4. n \in Nat /\ p \in Nat
    BY <2>1
  <2> HIDE DEF n
  <2>5. ASSUME NEW d \in Conn, NEW k \in 1 .. MaxAttempts, k > nextSubAttempt'[d]
        PROVE  subId'[<<d, k>>] = NoEntry
    <3>1. <<d, k>> \in Attempt /\ <<d, k>> # <<c, n>> /\ k > nextSubAttempt[d]
      BY <1>p, <2>1, <2>4, <2>5 DEF Attempt, n
    <3>2. subId[<<d, k>>] = NoEntry
      BY <1>i, <3>1 DEF AttemptTokens
    <3>3. QED
      BY <1>p, <2>2, <3>1, <3>2
  <2>6. ASSUME NEW d \in Conn, NEW j \in SubId
        PROVE  /\ cancelled'[d][j] <= nextSubAttempt'[d]
               /\ pendingSubAttempts'[d][j] # 0 => Newest(d, j, pendingSubAttempts[d][j])'
    <3>1. cancelled[d][j] <= nextSubAttempt[d] /\ nextSubAttempt[d] <= nextSubAttempt'[d]
      <4>1. cancelled[d][j] <= nextSubAttempt[d]
        BY <1>i DEF AttemptTokens
      <4>2. nextSubAttempt[d] <= nextSubAttempt'[d]
        BY <1>p, <2>1 DEF n
      <4>3. QED
        BY <4>1, <4>2
    <3>2. cancelled'[d][j] <= nextSubAttempt'[d]
      BY <1>p, <1>t, <2>2, <3>1 DEF TypeOK
    <3>3. CASE d = c /\ j = id
      <4>0. nextSubAttempt'[d] = n
        BY <1>p, <2>1, <3>3
      <4>1. pendingSubAttempts'[d][j] = p
        BY <1>p, <2>3, <3>3
      <4>2. cancelled[d][j] < n
        BY <1>p, <3>1, <3>3 DEF n
      <4>3. subId'[<<d, n>>] = j
        BY <1>p, <2>2, <3>3
      <4>4. \A k \in 1 .. MaxAttempts : k > n => subId'[<<d, k>>] # j
        BY <2>5, <3>3, <4>0, NoEntryAssumption
      <4>6. QED
        BY <2>2, <2>3, <2>4, <3>2, <3>3, <4>1, <4>2, <4>3, <4>4, <4>0 DEF Newest
    <3>4. CASE ~(d = c /\ j = id)
      <4>1. pendingSubAttempts'[d][j] = pendingSubAttempts[d][j]
        BY <1>p, <2>3, <3>4
      <4>2. CASE pendingSubAttempts[d][j] # 0
        <5> DEFINE m == pendingSubAttempts[d][j]
        <5>1. m \in 1 .. MaxAttempts /\ Newest(d, j, m)
          BY <1>i, <1>p, <4>2 DEF AttemptTokens
        <5>2. /\ ~closed[d] /\ cancelled[d][j] < m
              /\ m <= nextSubAttempt[d] /\ subId[<<d, m>>] = j
              /\ \A k \in 1 .. MaxAttempts : k > m => subId[<<d, k>>] # j
          BY <5>1 DEF Newest
        <5>3. <<d, m>> # <<c, n>>
          BY <1>p, <2>4, <5>1, <5>2 DEF n
        <5>4. <<d, m>> \in Attempt
          BY <5>1 DEF Attempt
        <5> HIDE DEF m
        <5>5. subId'[<<d, m>>] = j
          BY <1>p, <2>2, <5>2, <5>3, <5>4
        <5>6. \A k \in 1 .. MaxAttempts : k > m => subId'[<<d, k>>] # j
          <6> TAKE k \in 1 .. MaxAttempts
          <6>1. <<d, k>> \in Attempt
            BY DEF Attempt
          <6>2. QED
            BY <1>p, <2>2, <3>4, <5>2, <6>1
        <5>7. m <= nextSubAttempt'[d]
          BY <1>p, <1>t, <3>1, <5>1, <5>2 DEF TypeOK
        <5>8. m = pendingSubAttempts'[d][j]
          BY <4>1 DEF m
        <5>9. QED
          BY <2>2, <3>2, <5>2, <5>5, <5>6, <5>7, <5>8 DEF Newest
      <4>3. QED
        BY <3>2, <4>1, <4>2
    <3>5. QED
      BY <3>3, <3>4
  <2>7. QED
    BY <2>5, <2>6 DEF AttemptTokens
<1>2. ASSUME NEW c \in Conn, NEW id \in SubId, HandleUnsubscribe(c, id)
      PROVE  AttemptTokens'
  BY <1>i, <1>p, <1>2 DEF HandleUnsubscribe, AttemptTokens, Newest, subVars
<1>3. ASSUME NEW c \in Conn, Teardown(c)
      PROVE  AttemptTokens'
  BY <1>i, <1>p, <1>3 DEF Teardown, AttemptTokens, Newest, subVars
<1>4. ASSUME NEW a \in Attempt, SubscribeNext(a)
      PROVE  AttemptTokens'
  <2>1. /\ UNCHANGED <<nextSubAttempt, cancelled, closed, subId>>
        /\ \/ UNCHANGED pendingSubAttempts
           \/ \E id \in SubId :
                pendingSubAttempts' = [pendingSubAttempts EXCEPT ![a[1]][id] = 0]
    BY <1>4 DEF SubscribeNext, SubscribeFailed, ContextResolved, QueryReads,
                Register, Bails, Current, connVars
  <2>2. a[1] \in Conn
    BY DEF Attempt
  <2>3. CASE UNCHANGED pendingSubAttempts
    BY <1>i, <2>1, <2>3 DEF AttemptTokens, Newest
  <2>4. ASSUME NEW id \in SubId,
               pendingSubAttempts' = [pendingSubAttempts EXCEPT ![a[1]][id] = 0]
        PROVE  AttemptTokens'
    <3>1. \A d \in Conn, j \in SubId :
            pendingSubAttempts'[d][j] \in {0, pendingSubAttempts[d][j]}
      BY <1>p, <2>2, <2>4
    <3>2. ASSUME NEW d \in Conn, NEW j \in SubId, pendingSubAttempts'[d][j] # 0
          PROVE  Newest(d, j, pendingSubAttempts[d][j])'
      <4>1. pendingSubAttempts'[d][j] = pendingSubAttempts[d][j]
        BY <3>1, <3>2
      <4>2. Newest(d, j, pendingSubAttempts[d][j])
        BY <1>i, <3>2, <4>1 DEF AttemptTokens
      <4>3. QED
        BY <2>1, <4>1, <4>2 DEF Newest
    <3>3. QED
      BY <1>i, <2>1, <3>2 DEF AttemptTokens
  <2>5. QED
    BY <2>1, <2>3, <2>4
<1>5. ASSUME NEW m \in Mutation, MutationNext(m)
      PROVE  AttemptTokens'
  BY <1>i, <1>5 DEF MutationNext, Commit, Emit, AttemptTokens, Newest, connVars, subVars
<1>6. ASSUME NEW a \in Attempt, RouterNext(a)
      PROVE  AttemptTokens'
  BY <1>i, <1>6 DEF RouterNext, LinkStart, RecomputeReads, RecomputeFails, LinkFinish,
                    AttemptTokens, Newest, connVars, subVars
<1>7. CASE UNCHANGED vars
  BY <1>i, <1>7 DEF vars, AttemptTokens, Newest, connVars, subVars
<1>8. QED
  BY <1>1, <1>2, <1>3, <1>4, <1>5, <1>6, <1>7 DEF Next, ConnNext

\* What NoOrphanEntry and NoSupersededEntry say of attempt a, found under id
Rightful(id, a) ==
  /\ ~closed[a[1]]
  /\ id \in mySubIds[a[1]]
  /\ subId[a] = id
  /\ stage[a] = "entry"
  /\ cancelled[a[1]][id] < a[2]
  /\ \A k \in 1 .. MaxAttempts : k > a[2] => subId[<<a[1], k>>] # id

\* No entry becomes an orphan, none is registered after it was superseded.
LEMMA EntriesStep == IInv /\ [Next]_vars => NoOrphanEntry' /\ NoSupersededEntry'
<1> SUFFICES ASSUME IInv, [Next]_vars PROVE (NoOrphanEntry /\ NoSupersededEntry)'
  OBVIOUS
<1>t. TypeOK /\ TypeOK'
  BY TypeOKStep DEF IInv
<1>r. ASSUME NEW id \in SubId, NEW e \in Attempt, store[id] = e
      PROVE  Rightful(id, e)
  BY <1>r, NoEntryAssumption DEF IInv, NoOrphanEntry, NoSupersededEntry, Rightful
<1>q. (\A id \in SubId, a \in Attempt : store[id] = a => Rightful(id, a))'
      => (NoOrphanEntry /\ NoSupersededEntry)'
  <2>1. (\A id \in SubId : store[id] # NoEntry => store[id] \in Attempt)'
    BY <1>t DEF TypeOK
  <2>2. QED
    BY <2>1, NoEntryAssumption DEF NoOrphanEntry, NoSupersededEntry, Rightful
<1> SUFFICES ASSUME NEW j \in SubId, NEW e \in Attempt, store'[j] = e
             PROVE  Rightful(j, e)'
  BY <1>q
<1>a. e[1] \in Conn /\ e[2] \in 1 .. MaxAttempts /\ e = <<e[1], e[2]>>
  BY DEF Attempt
<1>p. /\ nextSubAttempt \in [Conn -> 0 .. MaxAttempts]
      /\ pendingSubAttempts \in [Conn -> [SubId -> 0 .. MaxAttempts]]
      /\ cancelled \in [Conn -> [SubId -> 0 .. MaxAttempts]]
      /\ closed \in [Conn -> BOOLEAN]
      /\ mySubIds \in [Conn -> SUBSET SubId]
      /\ subId \in [Attempt -> SubId \cup {NoEntry}]
      /\ stage \in [Attempt -> {"unsent", "context", "query", "answer", "entry", "dropped"}]
      /\ store \in [SubId -> Attempt \cup {NoEntry}]
  BY <1>t DEF TypeOK
<1>n. /\ NoEntry # j /\ NoEntry # e
  BY NoEntryAssumption
<1>w. ASSUME NEW c \in Conn, NEW S, store' = StoreWithout(c, S)
      PROVE  store[j] = e /\ ~(j \in S /\ j \in mySubIds[c]) /\ Rightful(j, e)
  <2>1. store[j] = e /\ ~(j \in S /\ j \in mySubIds[c])
    BY <1>w, <1>n DEF StoreWithout
  <2>2. QED
    BY <2>1, <1>r
<1>1. ASSUME NEW c \in Conn, NEW id \in SubId, HandleSubscribe(c, id)
      PROVE  Rightful(j, e)'
  <2> DEFINE n == nextSubAttempt[c] + 1
  <2>1. /\ n \in 1 .. MaxAttempts /\ <<c, n>> \in Attempt
        /\ closed' = closed /\ cancelled' = cancelled
        /\ mySubIds' = [mySubIds EXCEPT ![c] = @ \ {id}]
        /\ subId' = [subId EXCEPT ![<<c, n>>] = id]
        /\ store' = StoreWithout(c, {id})
    BY <1>1, <1>p DEF HandleSubscribe, Attempt
  <2>2. \E v : stage' = [stage EXCEPT ![<<c, n>>] = v]
    BY <1>1 DEF HandleSubscribe
  <2>3. Rightful(j, e) /\ ~(j = id /\ j \in mySubIds[c])
    BY <1>w, <2>1
  <2>4. ~(e[1] = c /\ j = id)
    BY <2>3 DEF Rightful
  <2>5. subId[<<c, n>>] = NoEntry
    BY <1>p, <2>1 DEF IInv, AttemptTokens
  <2>6. e # <<c, n>>
    BY <1>n, <2>3, <2>5 DEF Rightful
  <2> HIDE DEF n
  <2>7. subId'[e] = j /\ stage'[e] = "entry"
    BY <1>p, <2>1, <2>2, <2>3, <2>6 DEF Rightful
  <2>8. j \in mySubIds'[e[1]]
    BY <1>p, <2>1, <2>3, <2>4 DEF Rightful
  <2>9. \A k \in 1 .. MaxAttempts : k > e[2] => subId'[<<e[1], k>>] # j
    <3> TAKE k \in 1 .. MaxAttempts
    <3>1. <<e[1], k>> \in Attempt
      BY <1>a DEF Attempt
    <3>2. QED
      BY <1>p, <2>1, <2>3, <2>4, <3>1 DEF Rightful
  <2>10. QED
    BY <2>1, <2>3, <2>7, <2>8, <2>9 DEF Rightful
<1>2. ASSUME NEW c \in Conn, NEW id \in SubId, HandleUnsubscribe(c, id)
      PROVE  Rightful(j, e)'
  <2>1. /\ UNCHANGED <<closed, subId, stage>>
        /\ mySubIds' = [mySubIds EXCEPT ![c] = @ \ {id}]
        /\ cancelled' = [cancelled EXCEPT ![c][id] = nextSubAttempt[c]]
        /\ store' = StoreWithout(c, {id})
    BY <1>2 DEF HandleUnsubscribe, subVars
  <2>2. Rightful(j, e) /\ ~(j = id /\ j \in mySubIds[c])
    BY <1>w, <2>1
  <2>3. ~(e[1] = c /\ j = id)
    BY <2>2 DEF Rightful
  <2>4. j \in mySubIds'[e[1]]
    BY <1>p, <1>a, <2>1, <2>2, <2>3 DEF Rightful
  <2>5. cancelled'[e[1]][j] = cancelled[e[1]][j]
    BY <1>p, <1>a, <2>1, <2>3
  <2>6. QED
    BY <2>1, <2>2, <2>4, <2>5 DEF Rightful
<1>3. ASSUME NEW c \in Conn, Teardown(c)
      PROVE  Rightful(j, e)'
  <2>1. /\ UNCHANGED <<subId, stage, cancelled>>
        /\ mySubIds' = [mySubIds EXCEPT ![c] = {}]
        /\ closed' = [closed EXCEPT ![c] = TRUE]
        /\ store' = StoreWithout(c, SubId)
    BY <1>3 DEF Teardown, subVars
  <2>2. Rightful(j, e) /\ j \notin mySubIds[c]
    BY <1>w, <2>1
  <2>3. e[1] # c
    BY <2>2 DEF Rightful
  <2>4. mySubIds'[e[1]] = mySubIds[e[1]] /\ closed'[e[1]] = closed[e[1]]
    BY <1>p, <1>a, <2>1, <2>3
  <2>5. QED
    BY <2>1, <2>2, <2>4 DEF Rightful
<1>4. ASSUME NEW a \in Attempt, SubscribeNext(a)
      PROVE  Rightful(j, e)'
  <2>1. CASE UNCHANGED <<closed, mySubIds, cancelled, subId, store>> /\ stage[a] # "entry"
    <3>1. Rightful(j, e)
      BY <1>r, <2>1
    <3>2. e # a
      BY <2>1, <3>1 DEF Rightful
    <3>3. \E v : stage' = [stage EXCEPT ![a] = v]
      BY <1>4 DEF SubscribeNext, SubscribeFailed, ContextResolved, QueryReads, Register, Drop
    <3>4. stage'[e] = stage[e]
      BY <1>p, <3>2, <3>3
    <3>5. QED
      BY <2>1, <3>1, <3>4 DEF Rightful
  <2>2. CASE Register(a) /\ ~Bails(a)
    <3>1. PICK id \in SubId : subId[a] = id /\ pendingSubAttempts[a[1]][id] = a[2]
      BY <2>2 DEF Bails, Current
    <3>2. /\ UNCHANGED <<closed, cancelled, subId>>
          /\ stage' = [stage EXCEPT ![a] = "entry"]
          /\ store' = [store EXCEPT ![id] = a]
          /\ mySubIds' = [mySubIds EXCEPT ![a[1]] = @ \cup {id}]
      BY <2>2, <3>1 DEF Register
    <3>3. a[1] \in Conn /\ a[2] \in 1 .. MaxAttempts /\ a = <<a[1], a[2]>>
      BY DEF Attempt
    <3>4. CASE j = id
      <4>1. e = a
        BY <1>p, <3>2, <3>4
      <4>2. Newest(a[1], id, a[2])
        BY <3>1, <3>3 DEF IInv, AttemptTokens
      <4>3. j \in mySubIds'[a[1]] /\ stage'[a] = "entry"
        BY <1>p, <3>2, <3>3, <3>4
      <4>4. QED
        BY <3>1, <3>2, <3>4, <4>1, <4>2, <4>3 DEF Rightful, Newest
    <3>5. CASE j # id
      <4>1. Rightful(j, e)
        BY <1>p, <1>r, <3>2, <3>5
      <4>2. j \in mySubIds'[e[1]] /\ stage'[e] = "entry"
        BY <1>p, <1>a, <3>2, <3>3, <4>1 DEF Rightful
      <4>3. QED
        BY <3>2, <4>1, <4>2 DEF Rightful
    <3>6. QED
      BY <3>4, <3>5
  <2>3. QED
    BY <1>4, <2>1, <2>2 DEF SubscribeNext, SubscribeFailed, ContextResolved,
                            QueryReads, Register, connVars
<1>5. ASSUME UNCHANGED <<closed, mySubIds, cancelled, subId, store, stage>>
      PROVE  Rightful(j, e)'
  BY <1>r, <1>5 DEF Rightful
<1>6. ASSUME NEW m \in Mutation, MutationNext(m)
      PROVE  Rightful(j, e)'
  BY <1>5, <1>6 DEF MutationNext, Commit, Emit, connVars, subVars
<1>7. ASSUME NEW a \in Attempt, RouterNext(a)
      PROVE  Rightful(j, e)'
  BY <1>5, <1>7 DEF RouterNext, LinkStart, RecomputeReads, RecomputeFails, LinkFinish,
                    connVars, subVars
<1>8. CASE UNCHANGED vars
  BY <1>5, <1>8 DEF vars, connVars, subVars
<1>9. QED
  BY <1>1, <1>2, <1>3, <1>4, <1>6, <1>7, <1>8 DEF Next, ConnNext

LEMMA IInvAlways == Spec => []IInv
<1>1. IInv /\ [Next]_vars => IInv'
  BY TypeOKStep, AttemptTokensStep, EntriesStep DEF IInv
<1>2. QED
  BY <1>1, InitIInv, PTL DEF Spec

\* The token held for an id is that of its newest attempt.
THEOREM TokensAreNewest == Spec => []AttemptTokens
<1>1. IInv => AttemptTokens
  BY DEF IInv
<1>2. QED
  BY <1>1, IInvAlways, PTL

\* The store never keeps an entry that no open connection counts as its own.
THEOREM NoOrphans == Spec => []NoOrphanEntry
<1>1. IInv => NoOrphanEntry
  BY DEF IInv
<1>2. QED
  BY <1>1, IInvAlways, PTL

\* A superseded or cancelled subscribe never ends up in the store.
THEOREM NoneSuperseded == Spec => []NoSupersededEntry
<1>1. IInv => NoSupersededEntry
  BY DEF IInv
<1>2. QED
  BY <1>1, IInvAlways, PTL

\* Tokens, connections and store agree on what is current.
THEOREM EntriesCurrent == Spec => []EntriesAreCurrent
<1>1. IInv => EntriesAreCurrent
  BY DEF IInv, EntriesAreCurrent
<1>2. QED
  BY <1>1, IInvAlways, PTL

-----------------------------------------------------------------------------
(* What a live subscription is owed is on its way *)

\* An attempt is blank until its frame comes, it has a query while it may still
\* be registered, and only registered entries have a tail.
Staged(a) ==
  /\ stage[a] # "unsent" => a[2] <= nextSubAttempt[a[1]]
  /\ queued[a] > 0 \/ link[a] # "idle" => stage[a] = "entry"
  /\ stage[a] \in {"context", "query", "answer", "entry"} => functionPath[a] \in Query

\* The debt of an attempt is covered from the moment its query read: before it
\* is registered by the emission to come, afterwards by what is Coming, and
\* while a link holds fresh tags by what will still find it.
BeforeEntry(a) ==
  stage[a] = "answer" =>
    /\ Outdated(a, tablesWatched[a]) => owed[a]
    /\ owed[a] /\ ~missed[a] => WillEmit(tablesWatched[a])

WhileFresh(a) ==
  Live(a) /\ link[a] = "read" /\ ~missed[a] /\ Outdated(a, fresh[a])
    => queued[a] > 0 \/ WillEmit(fresh[a])

AsEntry(a) ==
  Live(a) /\ ~missed[a] /\ (owed[a] \/ Outdated(a, tablesWatched[a])) => Coming(a)

Covered(a) == BeforeEntry(a) /\ WhileFresh(a) /\ AsEntry(a)

LInv == IInv /\ (\A a \in Attempt : Staged(a)) /\ (\A a \in Attempt : Covered(a))

LEMMA InitLInv == Init => LInv
<1> SUFFICES ASSUME Init PROVE LInv
  OBVIOUS
<1>1. ASSUME NEW a \in Attempt PROVE Staged(a) /\ Covered(a)
  BY NoEntryAssumption DEF Init, Staged, Covered, BeforeEntry, WhileFresh, AsEntry, Live
<1>2. QED
  BY <1>1, InitIInv DEF LInv

\* Attempts pass through their stages in order.
LEMMA StagedStep ==
  IInv /\ (\A a \in Attempt : Staged(a)) /\ [Next]_vars => (\A a \in Attempt : Staged(a))'
<1> SUFFICES ASSUME IInv, \A a \in Attempt : Staged(a), [Next]_vars, NEW a \in Attempt
             PROVE  Staged(a)'
  OBVIOUS
<1>t. TypeOK
  BY DEF IInv
<1>p. /\ nextSubAttempt \in [Conn -> 0 .. MaxAttempts]
      /\ functionPath \in [Attempt -> Query \cup {NoEntry}]
      /\ stage \in [Attempt -> {"unsent", "context", "query", "answer", "entry", "dropped"}]
      /\ queued \in [Attempt -> Nat]
      /\ link \in [Attempt -> {"idle", "running", "read", "failed"}]
  BY <1>t DEF TypeOK
<1>i. Staged(a)
  OBVIOUS
<1>c. a[1] \in Conn /\ a[2] \in 1 .. MaxAttempts
  BY DEF Attempt
<1>1. ASSUME NEW c \in Conn, NEW id \in SubId, HandleSubscribe(c, id)
      PROVE  Staged(a)'
  <2> DEFINE n == nextSubAttempt[c] + 1
  <2>1. /\ n \in 1 .. MaxAttempts /\ <<c, n>> \in Attempt /\ n > nextSubAttempt[c]
        /\ nextSubAttempt' = [nextSubAttempt EXCEPT ![c] = n]
        /\ UNCHANGED <<queued, link>>
    BY <1>1, <1>p DEF HandleSubscribe, Attempt, routeVars
  <2>2. PICK s \in {"context", "dropped"} :
          /\ stage' = [stage EXCEPT ![<<c, n>>] = s]
          /\ s = "context" => functionPath'[<<c, n>>] \in Query
    BY <1>1, <1>p, <2>1 DEF HandleSubscribe
  <2>3. \A b \in Attempt : b # <<c, n>> => functionPath'[b] = functionPath[b]
    BY <1>1, <1>p DEF HandleSubscribe
  <2>4. nextSubAttempt[c] <= n /\ n \in Nat
    BY <1>p, <2>1
  <2> HIDE DEF n
  <2>5. CASE a = <<c, n>>
    <3>1. stage'[a] = s /\ nextSubAttempt'[c] = n
      BY <1>p, <2>1, <2>2, <2>5
    <3>2. stage[a] = "unsent"
      BY <1>i, <1>p, <2>1, <2>5 DEF Staged
    <3>3. queued[a] = 0 /\ link[a] = "idle"
      BY <1>i, <1>p, <3>2 DEF Staged
    <3>4. QED
      BY <2>1, <2>2, <2>4, <2>5, <3>1, <3>3 DEF Staged
  <2>6. CASE a # <<c, n>>
    <3>1. stage'[a] = stage[a] /\ functionPath'[a] = functionPath[a]
      BY <1>p, <2>2, <2>3, <2>6
    <3>2. nextSubAttempt'[a[1]] \in Nat /\ nextSubAttempt[a[1]] <= nextSubAttempt'[a[1]]
      BY <1>p, <1>c, <2>1, <2>4
    <3>3. stage'[a] # "unsent" => a[2] <= nextSubAttempt'[a[1]]
      BY <1>i, <1>p, <1>c, <3>1, <3>2 DEF Staged
    <3>4. QED
      BY <1>i, <2>1, <3>1, <3>3 DEF Staged
  <2>7. QED
    BY <2>5, <2>6
<1>2. ASSUME UNCHANGED <<nextSubAttempt, functionPath, stage, queued, link>>
      PROVE  Staged(a)'
  BY <1>2, <1>i DEF Staged
<1>3. ASSUME NEW b \in Attempt, SubscribeNext(b)
      PROVE  Staged(a)'
  <2>1. /\ UNCHANGED <<nextSubAttempt, functionPath, queued, link>>
        /\ stage[b] \in {"context", "query", "answer"}
        /\ \E v \in {"query", "answer", "dropped", "entry"} : stage' = [stage EXCEPT ![b] = v]
    BY <1>3 DEF SubscribeNext, SubscribeFailed, ContextResolved, QueryReads, Register, Drop,
                connVars, routeVars
  <2>2. CASE a = b
    BY <1>i, <1>p, <2>1, <2>2 DEF Staged
  <2>3. CASE a # b
    <3>1. stage'[a] = stage[a]
      BY <1>p, <2>1, <2>3
    <3>2. QED
      BY <1>i, <2>1, <3>1 DEF Staged
  <2>4. QED
    BY <2>2, <2>3
<1>4. ASSUME NEW m \in Mutation, NEW T \in SUBSET Table, Commit(m, T)
      PROVE  Staged(a)'
  BY <1>2, <1>4 DEF Commit, connVars, subVars, routeVars
<1>5. ASSUME NEW m \in Mutation, Emit(m)
      PROVE  Staged(a)'
  <2>1. /\ UNCHANGED <<nextSubAttempt, functionPath, stage, link>>
        /\ queued'[a] # queued[a] => Live(a)
    BY <1>5, <1>p DEF Emit, Affected, connVars, subVars
  <2>2. Live(a) => stage[a] = "entry"
    BY NoEntryAssumption DEF Live, IInv, NoOrphanEntry
  <2>3. QED
    BY <1>i, <2>1, <2>2 DEF Staged
<1>6. ASSUME NEW b \in Attempt, RouterNext(b)
      PROVE  Staged(a)'
  <2>1. /\ UNCHANGED <<nextSubAttempt, functionPath, stage>>
        /\ queued[b] > 0 \/ link[b] # "idle"
        /\ a # b => queued'[a] = queued[a] /\ link'[a] = link[a]
    BY <1>6, <1>p DEF RouterNext, LinkStart, RecomputeReads, RecomputeFails, LinkFinish,
                      connVars, subVars
  <2>2. QED
    BY <1>i, <2>1 DEF Staged
<1>7. ASSUME NEW c \in Conn, NEW id \in SubId, HandleUnsubscribe(c, id)
      PROVE  Staged(a)'
  BY <1>2, <1>7 DEF HandleUnsubscribe, subVars, routeVars
<1>8. ASSUME NEW c \in Conn, Teardown(c)
      PROVE  Staged(a)'
  BY <1>2, <1>8 DEF Teardown, subVars, routeVars
<1>9. CASE UNCHANGED vars
  BY <1>2, <1>9 DEF vars, connVars, subVars, routeVars
<1>10. QED
  BY <1>1, <1>3, <1>4, <1>5, <1>6, <1>7, <1>8, <1>9 DEF Next, ConnNext, MutationNext

\* What an attempt is owed stays covered, whatever handler runs.
LEMMA CoveredStep == LInv /\ [Next]_vars => (\A a \in Attempt : Covered(a))'
<1> SUFFICES ASSUME LInv, [Next]_vars, NEW a \in Attempt PROVE Covered(a)'
  OBVIOUS
<1>t. TypeOK /\ NoOrphanEntry /\ NoOrphanEntry' /\ Staged(a) /\ Covered(a)
  BY EntriesStep DEF LInv, IInv
<1>p. /\ owed \in [Attempt -> BOOLEAN]
      /\ missed \in [Attempt -> BOOLEAN]
      /\ functionPath \in [Attempt -> Query \cup {NoEntry}]
      /\ stage \in [Attempt -> {"unsent", "context", "query", "answer", "entry", "dropped"}]
      /\ queued \in [Attempt -> Nat]
      /\ link \in [Attempt -> {"idle", "running", "read", "failed"}]
      /\ fresh \in [Attempt -> SUBSET Table]
      /\ tablesWatched \in [Attempt -> SUBSET Table]
      /\ mutation \in [Mutation -> {"idle", "running", "emitted"}]
      /\ tablesWritten \in [Mutation -> SUBSET Table]
      /\ store \in [SubId -> Attempt \cup {NoEntry}]
      /\ subId \in [Attempt -> SubId \cup {NoEntry}]
      /\ reads \in [Query -> SUBSET Table]
  BY <1>t DEF TypeOK
<1>i. BeforeEntry(a) /\ WhileFresh(a) /\ AsEntry(a)
  BY <1>t DEF Covered
<1>e. (Live(a) => stage[a] = "entry") /\ (Live(a)' => stage'[a] = "entry")
  BY <1>t, NoEntryAssumption DEF NoOrphanEntry, Live
<1>n. NoEntry # a
  BY NoEntryAssumption
\* A step that leaves a's own state and the data alone
<1>1. ASSUME UNCHANGED dataVars,
             stage'[a] = "answer" => stage[a] = "answer",
             Live(a)' => Live(a),
             owed'[a] = owed[a], missed'[a] = missed[a],
             functionPath'[a] = functionPath[a], tablesWatched'[a] = tablesWatched[a],
             queued'[a] = queued[a], link'[a] = link[a], fresh'[a] = fresh[a]
      PROVE  Covered(a)'
  <2>o. /\ Outdated(a, tablesWatched[a])' => Outdated(a, tablesWatched[a])
        /\ Outdated(a, fresh[a])' => Outdated(a, fresh[a])
        /\ WillEmit(tablesWatched[a]) => WillEmit(tablesWatched[a])'
        /\ WillEmit(fresh[a]) => WillEmit(fresh[a])'
    BY <1>1 DEF Outdated, WillEmit, dataVars
  <2>2. BeforeEntry(a)'
    BY <1>1, <1>i, <2>o DEF BeforeEntry
  <2>3. WhileFresh(a)'
    BY <1>1, <1>i, <2>o DEF WhileFresh
  <2>4. AsEntry(a)'
    BY <1>1, <1>i, <2>o DEF AsEntry, Coming
  <2>5. QED
    BY <2>2, <2>3, <2>4 DEF Covered
<1>w. ASSUME NEW c \in Conn, NEW S, store' = StoreWithout(c, S)
      PROVE  \A id \in SubId : store'[id] = a => store[id] = a
  BY <1>w, <1>n DEF StoreWithout
<1>2. ASSUME NEW c \in Conn, NEW id \in SubId, HandleSubscribe(c, id)
      PROVE  Covered(a)'
  <2> DEFINE n == nextSubAttempt[c] + 1
  <2>1. /\ \E s \in {"context", "dropped"} : stage' = [stage EXCEPT ![<<c, n>>] = s]
        /\ a # <<c, n>> => functionPath'[a] = functionPath[a]
    BY <1>2, <1>p DEF HandleSubscribe
  <2> HIDE DEF n
  <2>2. CASE a = <<c, n>>
    <3>1. stage'[a] \in {"context", "dropped"}
      BY <1>p, <2>1, <2>2
    <3>2. QED
      BY <1>e, <3>1 DEF Covered, BeforeEntry, WhileFresh, AsEntry
  <2>3. CASE a # <<c, n>>
    <3>1. stage'[a] = stage[a] /\ functionPath'[a] = functionPath[a]
      BY <1>p, <2>1, <2>3
    <3>2. Live(a)' => Live(a)
      <4>1. store' = StoreWithout(c, {id})
        BY <1>2 DEF HandleSubscribe
      <4>2. ASSUME NEW j \in SubId, store'[j] = a PROVE store[j] = a /\ subId[a] = j
        <5>1. store[j] = a
          BY <1>w, <4>1, <4>2
        <5>2. QED
          BY <1>t, <1>n, <5>1 DEF NoOrphanEntry
      <4>3. QED
        BY <4>2 DEF Live
    <3>3. QED
      BY <1>1, <1>2, <3>1, <3>2 DEF HandleSubscribe, routeVars
  <2>4. QED
    BY <2>2, <2>3
<1>3. ASSUME NEW c \in Conn, NEW id \in SubId, HandleUnsubscribe(c, id)
      PROVE  Covered(a)'
  <2>1. Live(a)' => Live(a)
    BY <1>w, <1>3 DEF HandleUnsubscribe, Live, subVars
  <2>2. QED
    BY <1>1, <1>3, <2>1 DEF HandleUnsubscribe, subVars, routeVars
<1>4. ASSUME NEW c \in Conn, Teardown(c)
      PROVE  Covered(a)'
  <2>1. Live(a)' => Live(a)
    BY <1>w, <1>4 DEF Teardown, Live, subVars
  <2>2. QED
    BY <1>1, <1>4, <2>1 DEF Teardown, subVars, routeVars
<1>5. ASSUME NEW b \in Attempt, SubscribeFailed(b) \/ ContextResolved(b)
      PROVE  Covered(a)'
  <2>1. stage'[a] = "answer" => stage[a] = "answer"
    BY <1>5, <1>p DEF SubscribeFailed, ContextResolved, Drop
  <2>2. Live(a)' => Live(a)
    BY <1>5 DEF SubscribeFailed, ContextResolved, Live
  <2>3. QED
    BY <1>1, <1>5, <2>1, <2>2 DEF SubscribeFailed, ContextResolved, routeVars
<1>6. ASSUME NEW b \in Attempt, QueryReads(b)
      PROVE  Covered(a)'
  <2>1. CASE a = b
    <3>1. stage'[a] = "answer"
      BY <1>6, <1>p, <2>1 DEF QueryReads
    <3>2. PICK q \in Query : functionPath[a] = q /\ tablesWatched' = [tablesWatched EXCEPT ![a] = reads[q]]
      BY <1>6, <2>1 DEF QueryReads
    <3>3. ~Outdated(a, tablesWatched[a])' /\ owed'[a] = FALSE
      <4>1. tablesWatched'[a] = reads[q] /\ reads' = reads /\ functionPath' = functionPath
        BY <1>6, <1>p, <3>2 DEF QueryReads, dataVars
      <4>2. owed'[a] = FALSE
        BY <1>6, <1>p, <2>1 DEF QueryReads
      <4>3. QED
        BY <3>2, <4>1, <4>2 DEF Outdated
    <3>4. QED
      BY <1>e, <3>1, <3>3 DEF Covered, BeforeEntry, WhileFresh, AsEntry
  <2>2. CASE a # b
    <3>1. /\ stage'[a] = stage[a] /\ tablesWatched'[a] = tablesWatched[a]
          /\ owed'[a] = owed[a] /\ missed'[a] = missed[a]
      BY <1>6, <1>p, <2>2 DEF QueryReads
    <3>2. Live(a)' => Live(a)
      BY <1>6 DEF QueryReads, Live
    <3>3. QED
      BY <1>1, <1>6, <3>1, <3>2 DEF QueryReads, routeVars
  <2>3. QED
    BY <2>1, <2>2
<1>7. ASSUME NEW b \in Attempt, Register(b)
      PROVE  Covered(a)'
  <2>0. UNCHANGED <<functionPath, tablesWatched, queued, link, fresh, dataVars, owed, missed, subId>>
    BY <1>7 DEF Register, routeVars
  <2>1. CASE Bails(b)
    <3>1. stage'[a] = "answer" => stage[a] = "answer"
      BY <1>7, <1>p, <2>1 DEF Register, Drop
    <3>2. Live(a)' => Live(a)
      BY <1>7, <2>1 DEF Register, Live
    <3>3. QED
      BY <1>1, <2>0, <3>1, <3>2
  <2>2. CASE ~Bails(b) /\ a # b
    <3>1. stage'[a] = stage[a]
      BY <1>7, <1>p, <2>2 DEF Register
    <3>2. \E id \in SubId : store' = [store EXCEPT ![id] = b]
      BY <1>7, <2>2 DEF Register, Bails, Current
    <3>3. Live(a)' => Live(a)
      BY <1>p, <2>0, <2>2, <3>2 DEF Live
    <3>4. QED
      BY <1>1, <2>0, <3>1, <3>3
  <2>3. CASE ~Bails(b) /\ a = b
    <3>1. stage[a] = "answer" /\ stage'[a] = "entry"
      BY <1>7, <1>p, <2>3 DEF Register
    <3>2. link[a] = "idle"
      BY <1>t, <1>p, <3>1 DEF Staged
    <3>3. /\ Outdated(a, tablesWatched[a])' => Outdated(a, tablesWatched[a])
          /\ WillEmit(tablesWatched[a]) => WillEmit(tablesWatched[a])'
      BY <2>0 DEF Outdated, WillEmit, dataVars
    <3>4. AsEntry(a)'
      BY <1>i, <2>0, <3>1, <3>3 DEF BeforeEntry, AsEntry, Coming
    <3>5. QED
      BY <2>0, <3>1, <3>2, <3>4 DEF Covered, BeforeEntry, WhileFresh
  <2>4. QED
    BY <2>1, <2>2, <2>3
<1>8. ASSUME NEW m \in Mutation, NEW T \in SUBSET Table, Commit(m, T)
      PROVE  Covered(a)'
  <2>1. UNCHANGED <<subId, functionPath, stage, tablesWatched, store, queued, link, fresh, missed>>
    BY <1>8 DEF Commit, routeVars, subVars
  <2>2. Live(a)' => Live(a)
    BY <2>1 DEF Live
  <2>3. /\ mutation'[m] = "running" /\ tablesWritten'[m] = tablesWritten[m] \cup T
        /\ \A x \in Mutation : x # m => /\ mutation'[x] = mutation[x]
                                        /\ tablesWritten'[x] = tablesWritten[x]
    BY <1>8, <1>p DEF Commit
  <2>4. ASSUME NEW tags PROVE WillEmit(tags) \/ T \cap tags # {} => WillEmit(tags)'
    <3>1. CASE T \cap tags # {}
      BY <2>3, <3>1 DEF WillEmit
    <3>2. CASE WillEmit(tags)
      <4>1. PICK x \in Mutation : mutation[x] = "running" /\ tablesWritten[x] \cap tags # {}
        BY <3>2 DEF WillEmit
      <4>2. mutation'[x] = "running" /\ tablesWritten'[x] \cap tags # {}
        BY <2>3, <4>1
      <4>3. QED
        BY <4>2 DEF WillEmit
    <3>3. QED
      BY <3>1, <3>2
  <2>5. owed'[a] <=> \/ owed[a]
                     \/ /\ stage[a] = "answer" \/ Live(a)
                        /\ \E q \in Query : functionPath[a] = q /\ reads[q] \cap T # {}
    BY <1>8 DEF Commit
  <2>6. \A q \in Query : reads[q] \cap T = {} => reads'[q] = reads[q]
    BY <1>8 DEF Commit
  <2>w. WillEmit(tablesWatched[a]) \/ T \cap tablesWatched[a] # {} => WillEmit(tablesWatched[a])'
    <3>1. PICK tags : tags = tablesWatched[a]
      OBVIOUS
    <3>2. tags = tablesWatched'[a] /\ (WillEmit(tags) \/ T \cap tags # {} => WillEmit(tags)')
      BY <2>1, <2>4, <3>1
    <3>3. QED
      BY <3>1, <3>2 DEF WillEmit
  <2>f. WillEmit(fresh[a]) \/ T \cap fresh[a] # {} => WillEmit(fresh[a])'
    <3>1. PICK tags : tags = fresh[a]
      OBVIOUS
    <3>2. tags = fresh'[a] /\ (WillEmit(tags) \/ T \cap tags # {} => WillEmit(tags)')
      BY <2>1, <2>4, <3>1
    <3>3. QED
      BY <3>1, <3>2 DEF WillEmit
  \* the tags of a run become outdated by a write that matches them only
  <2>o. ~Outdated(a, tablesWatched[a]) =>
               /\ Outdated(a, tablesWatched[a])' => T \cap tablesWatched[a] # {}
               /\ (\E q \in Query : functionPath[a] = q /\ reads[q] \cap T # {}) => T \cap tablesWatched[a] # {}
               /\ Outdated(a, tablesWatched[a])' => \E q \in Query : functionPath[a] = q /\ reads[q] \cap T # {}
    BY <2>1, <2>6 DEF Outdated
  <2>g. ~Outdated(a, fresh[a]) => (Outdated(a, fresh[a])' => T \cap fresh[a] # {})
    BY <2>1, <2>6 DEF Outdated
  <2>8. BeforeEntry(a)'
    <3>1. SUFFICES ASSUME stage[a] = "answer"
                   PROVE  /\ Outdated(a, tablesWatched[a])' => owed'[a]
                          /\ owed'[a] /\ ~missed[a] => WillEmit(tablesWatched[a])'
      BY <2>1 DEF BeforeEntry
    <3>2. Outdated(a, tablesWatched[a]) => owed[a]
      BY <1>i, <3>1 DEF BeforeEntry
    <3>3. owed[a] /\ ~missed[a] => WillEmit(tablesWatched[a])
      BY <1>i, <3>1 DEF BeforeEntry
    <3>4. Outdated(a, tablesWatched[a])' => owed'[a]
      BY <2>5, <2>o, <3>1, <3>2
    <3>5. owed'[a] /\ ~missed[a] => WillEmit(tablesWatched[a])'
      BY <2>5, <2>o, <2>w, <3>2, <3>3
    <3>6. QED
      BY <3>4, <3>5
  <2>9. WhileFresh(a)'
    <3>1. WhileFresh(a)
      BY <1>i
    <3>2. QED
      BY <2>1, <2>2, <2>f, <2>g, <3>1 DEF WhileFresh
  <2>10. AsEntry(a)'
    <3>1. SUFFICES ASSUME Live(a), ~missed[a], owed'[a] \/ Outdated(a, tablesWatched[a])'
                   PROVE  Coming(a)'
      BY <2>1, <2>2 DEF AsEntry
    <3>2. CASE owed[a] \/ Outdated(a, tablesWatched[a])
      <4>1. Coming(a)
        BY <1>i, <3>1, <3>2 DEF AsEntry
      <4>2. QED
        BY <2>1, <2>w, <4>1 DEF Coming
    <3>3. CASE ~owed[a] /\ ~Outdated(a, tablesWatched[a])
      <4>1. WillEmit(tablesWatched[a])'
        BY <2>5, <2>o, <2>w, <3>1, <3>3
      <4>2. QED
        BY <4>1 DEF Coming
    <3>4. QED
      BY <3>2, <3>3
  <2>11. QED
    BY <2>8, <2>9, <2>10 DEF Covered
<1>9. ASSUME NEW m \in Mutation, Emit(m)
      PROVE  Covered(a)'
  <2>1. UNCHANGED <<subId, functionPath, stage, tablesWatched, store, link, fresh, tablesWritten, reads, owed>>
    BY <1>9 DEF Emit, subVars
  <2>2. Live(a)' => Live(a)
    BY <2>1 DEF Live
  <2>3. /\ \A x \in Mutation : x # m => mutation'[x] = mutation[x]
        /\ queued'[a] \in Nat /\ queued'[a] >= queued[a]
        /\ a \in Affected(tablesWritten[m]) => queued'[a] > 0
    BY <1>9, <1>p DEF Emit
  <2>3m. missed'[a] = (missed[a] \/ Misses(a, tablesWritten[m]))
    BY <1>9 DEF Emit
  <2>4. ASSUME NEW tags, WillEmit(tags), tablesWritten[m] \cap tags = {}
        PROVE  WillEmit(tags)'
    <3>1. PICK x \in Mutation : mutation[x] = "running" /\ tablesWritten[x] \cap tags # {}
      BY <2>4 DEF WillEmit
    <3>2. mutation'[x] = "running" /\ tablesWritten'[x] \cap tags # {}
      BY <2>1, <2>3, <2>4, <3>1
    <3>3. QED
      BY <3>2 DEF WillEmit
  <2>w. WillEmit(tablesWatched[a]) /\ tablesWritten[m] \cap tablesWatched[a] = {} => WillEmit(tablesWatched[a])'
    <3>1. PICK tags : tags = tablesWatched[a]
      OBVIOUS
    <3>2. tags = tablesWatched'[a] /\ (WillEmit(tags) /\ tablesWritten[m] \cap tags = {} => WillEmit(tags)')
      BY <2>1, <2>4, <3>1
    <3>3. QED
      BY <3>1, <3>2 DEF WillEmit
  <2>f. WillEmit(fresh[a]) /\ tablesWritten[m] \cap fresh[a] = {} => WillEmit(fresh[a])'
    <3>1. PICK tags : tags = fresh[a]
      OBVIOUS
    <3>2. tags = fresh'[a] /\ (WillEmit(tags) /\ tablesWritten[m] \cap tags = {} => WillEmit(tags)')
      BY <2>1, <2>4, <3>1
    <3>3. QED
      BY <3>1, <3>2 DEF WillEmit
  <2>o. /\ Outdated(a, tablesWatched[a])' => Outdated(a, tablesWatched[a])
        /\ Outdated(a, fresh[a])' => Outdated(a, fresh[a])
    BY <2>1 DEF Outdated
  <2>5. BeforeEntry(a)'
    <3>1. ASSUME stage[a] = "answer", owed[a], ~missed'[a] PROVE WillEmit(tablesWatched[a])'
      <4>1. ~missed[a] /\ ~Misses(a, tablesWritten[m])
        BY <2>3m, <3>1
      <4>2. tablesWritten[m] \cap tablesWatched[a] = {}
        BY <3>1, <4>1 DEF Misses
      <4>3. WillEmit(tablesWatched[a])
        BY <1>i, <3>1, <4>1 DEF BeforeEntry
      <4>4. QED
        BY <2>w, <4>2, <4>3
    <3>2. QED
      BY <1>i, <2>1, <2>o, <3>1 DEF BeforeEntry
  <2>6. WhileFresh(a)'
    <3>1. SUFFICES ASSUME Live(a), link[a] = "read", ~missed'[a], Outdated(a, fresh[a])
                   PROVE  queued'[a] > 0 \/ WillEmit(fresh[a])'
      BY <2>1, <2>2, <2>o DEF WhileFresh
    <3>2. ~missed[a] /\ ~Misses(a, tablesWritten[m])
      BY <2>3m, <3>1
    <3>3. queued[a] > 0 \/ WillEmit(fresh[a])
      BY <1>i, <3>1, <3>2 DEF WhileFresh
    <3>4. a \in Affected(tablesWritten[m]) \/ tablesWritten[m] \cap fresh[a] = {}
      BY <3>1, <3>2 DEF Misses
    <3>5. queued[a] > 0 => queued'[a] > 0
      BY <1>p, <2>3
    <3>6. QED
      BY <2>3, <2>f, <3>3, <3>4, <3>5
  <2>7. AsEntry(a)'
    <3>1. SUFFICES ASSUME Live(a), ~missed'[a], owed[a] \/ Outdated(a, tablesWatched[a])
                   PROVE  Coming(a)'
      BY <2>1, <2>2, <2>o DEF AsEntry
    <3>2. Coming(a)
      BY <1>i, <2>3m, <3>1 DEF AsEntry
    <3>3. CASE queued[a] > 0 \/ link[a] # "idle"
      BY <1>p, <2>1, <2>3, <3>3 DEF Coming
    <3>4. CASE WillEmit(tablesWatched[a])
      <4>1. CASE tablesWritten[m] \cap tablesWatched[a] = {}
        BY <2>w, <3>4, <4>1 DEF Coming
      <4>2. CASE tablesWritten[m] \cap tablesWatched[a] # {}
        <5>1. a \in Affected(tablesWritten[m])
          BY <3>1, <4>2 DEF Affected
        <5>2. QED
          BY <2>3, <5>1 DEF Coming
      <4>3. QED
        BY <4>1, <4>2
    <3>5. QED
      BY <3>2, <3>3, <3>4 DEF Coming
  <2>8. QED
    BY <2>5, <2>6, <2>7 DEF Covered
<1>10. ASSUME NEW b \in Attempt, RouterNext(b), a # b
       PROVE  Covered(a)'
  <2>1. /\ UNCHANGED <<dataVars, functionPath, stage, store, subId>>
        /\ queued'[a] = queued[a] /\ link'[a] = link[a] /\ fresh'[a] = fresh[a]
        /\ tablesWatched'[a] = tablesWatched[a]
        /\ owed'[a] = owed[a] /\ missed'[a] = missed[a]
    BY <1>10, <1>p DEF RouterNext, LinkStart, RecomputeReads, RecomputeFails, LinkFinish, subVars
  <2>2. Live(a)' => Live(a)
    BY <2>1 DEF Live
  <2>3. QED
    BY <1>1, <2>1, <2>2
<1>11. ASSUME RouterNext(a)
       PROVE  Covered(a)'
  <2>1. UNCHANGED <<dataVars, functionPath, stage, store, subId>> /\ stage[a] = "entry"
    BY <1>11, <1>t, <1>p DEF RouterNext, LinkStart, RecomputeReads, RecomputeFails, LinkFinish,
                             subVars, Staged
  <2>2. (Live(a)' <=> Live(a)) /\ BeforeEntry(a)'
    BY <2>1 DEF Live, BeforeEntry
  <2>3. CASE LinkStart(a)
    <3>1. link'[a] = IF Live(a) THEN "running" ELSE "idle"
      BY <1>p, <2>3 DEF LinkStart
    <3>2. QED
      BY <2>2, <3>1 DEF Covered, WhileFresh, AsEntry, Coming
  <2>4. CASE RecomputeReads(a)
    <3>1. PICK q \in Query : functionPath[a] = q /\ fresh' = [fresh EXCEPT ![a] = reads[q]]
      BY <2>4 DEF RecomputeReads
    <3>2. link'[a] = "read" /\ fresh'[a] = reads[q] /\ reads' = reads
      BY <1>p, <2>1, <2>4, <3>1 DEF RecomputeReads, dataVars
    <3>3. ~Outdated(a, fresh[a])'
      BY <2>1, <3>1, <3>2 DEF Outdated
    <3>4. QED
      BY <2>2, <3>2, <3>3 DEF Covered, WhileFresh, AsEntry, Coming
  <2>5. CASE RecomputeFails(a)
    <3>1. link'[a] = "failed"
      BY <1>p, <2>5 DEF RecomputeFails
    <3>2. QED
      BY <2>2, <3>1 DEF Covered, WhileFresh, AsEntry, Coming
  <2>6. CASE LinkFinish(a)
    <3>1. link'[a] = "idle" /\ queued' = queued
      BY <1>p, <2>6 DEF LinkFinish
    <3>2. ASSUME Live(a), link[a] = "read", ~missed'[a], owed'[a] \/ Outdated(a, tablesWatched[a])'
          PROVE  Coming(a)'
      <4>1. owed'[a] = FALSE /\ tablesWatched'[a] = fresh[a] /\ missed' = missed
        BY <1>p, <2>6, <3>2 DEF LinkFinish
      <4>2. Outdated(a, fresh[a])
        BY <2>1, <3>2, <4>1 DEF Outdated, dataVars
      <4>3. queued[a] > 0 \/ WillEmit(fresh[a])
        BY <1>i, <3>2, <4>1, <4>2 DEF WhileFresh
      <4>4. WillEmit(fresh[a]) => WillEmit(tablesWatched[a])'
        BY <2>1, <4>1 DEF WillEmit, dataVars
      <4>5. QED
        BY <3>1, <4>3, <4>4 DEF Coming
    <3>3. ASSUME Live(a), link[a] = "failed", ~missed'[a], owed'[a] \/ Outdated(a, tablesWatched[a])'
          PROVE  FALSE
      <4>1. owed'[a] = FALSE /\ tablesWatched' = tablesWatched
        BY <1>p, <2>6, <3>3 DEF LinkFinish
      <4>2. missed'[a] <=> Outdated(a, tablesWatched[a])
        BY <1>p, <2>6, <3>3 DEF LinkFinish
      <4>3. Outdated(a, tablesWatched[a])
        BY <2>1, <3>3, <4>1 DEF Outdated, dataVars
      <4>4. QED
        BY <3>3, <4>2, <4>3
    <3>4. link[a] \in {"read", "failed"}
      BY <2>6 DEF LinkFinish
    <3>5. QED
      BY <2>2, <3>1, <3>2, <3>3, <3>4 DEF Covered, WhileFresh, AsEntry
  <2>7. QED
    BY <1>11, <2>3, <2>4, <2>5, <2>6 DEF RouterNext
<1>12. CASE UNCHANGED vars
  <2>1. Live(a)' => Live(a)
    BY <1>12 DEF vars, Live, subVars
  <2>2. QED
    BY <1>1, <1>12, <2>1 DEF vars, subVars, routeVars
<1>13. QED
  BY <1>2, <1>3, <1>4, <1>5, <1>6, <1>7, <1>8, <1>9, <1>10, <1>11, <1>12
  DEF Next, ConnNext, SubscribeNext, MutationNext

\* A commit that changed the result of a live subscription since its query ran,
\* or what that query reads, has an invalidation on its way, unless it was
\* emitted before the tags of that run were in force.
THEOREM NothingLost == Spec => []NoLostInvalidation
<1>1. LInv /\ [Next]_vars => LInv'
  BY TypeOKStep, AttemptTokensStep, EntriesStep, StagedStep, CoveredStep
  DEF LInv, IInv
<1>2. LInv => NoLostInvalidation
  BY DEF LInv, Covered, AsEntry, NoLostInvalidation
<1>3. QED
  BY <1>1, <1>2, InitLInv, PTL DEF Spec

-----------------------------------------------------------------------------
(* Connections that share no ids keep what is theirs *)

\* No two connections use the same subscription id.
IdsApart == \A c, d \in Conn : SubIdsOf[c] \cap SubIdsOf[d] # {} => c = d

\* A connection's frames and its entries are under ids of its own.
OwnIds ==
  /\ \A a \in Attempt : subId[a] # NoEntry => subId[a] \in SubIdsOf[a[1]]
  /\ \A c \in Conn : mySubIds[c] \subseteq SubIdsOf[c]

LEMMA InitOwned == Init => OwnIds /\ OwnedIsRegistered
  BY DEF Init, OwnIds, OwnedIsRegistered

LEMMA OwnedStep ==
  ASSUME IdsApart
  PROVE  IInv /\ OwnIds /\ OwnedIsRegistered /\ [Next]_vars => OwnIds' /\ OwnedIsRegistered'
<1> SUFFICES ASSUME IInv, OwnIds, OwnedIsRegistered, [Next]_vars PROVE (OwnIds /\ OwnedIsRegistered)'
  OBVIOUS
<1>p. /\ nextSubAttempt \in [Conn -> 0 .. MaxAttempts]
      /\ mySubIds \in [Conn -> SUBSET SubId]
      /\ subId \in [Attempt -> SubId \cup {NoEntry}]
      /\ store \in [SubId -> Attempt \cup {NoEntry}]
  BY DEF IInv, TypeOK
<1>o. \A c, d \in Conn, id \in SubId : id \in mySubIds[c] /\ id \in SubIdsOf[d] => c = d
  BY DEF OwnIds, IdsApart
\* Ids leave a connection, and their entries the store.
<1>w. ASSUME NEW c \in Conn, NEW S, S \cap SubId \subseteq SubIdsOf[c] \/ S = SubId,
             store' = StoreWithout(c, S),
             mySubIds' = [mySubIds EXCEPT ![c] = @ \ S]
      PROVE  OwnedIsRegistered' /\ \A d \in Conn : mySubIds'[d] \subseteq SubIdsOf[d]
  <2>1. ASSUME NEW d \in Conn, NEW j \in mySubIds'[d]
        PROVE  store'[j] # NoEntry /\ store'[j][1] = d /\ j \in SubIdsOf[d]
    <3>1. j \in mySubIds[d] /\ j \in SubId /\ (d = c => j \notin S)
      BY <1>p, <1>w, <2>1
    <3>2. ~(j \in S /\ j \in mySubIds[c])
      BY <1>o, <3>1 DEF OwnIds
    <3>3. store'[j] = store[j]
      BY <1>w, <3>1, <3>2 DEF StoreWithout
    <3>4. QED
      BY <3>1, <3>3 DEF OwnedIsRegistered, OwnIds
  <2>2. QED
    BY <2>1 DEF OwnedIsRegistered
<1>1. ASSUME NEW c \in Conn, NEW id \in SubId, HandleSubscribe(c, id)
      PROVE  (OwnIds /\ OwnedIsRegistered)'
  <2> DEFINE n == nextSubAttempt[c] + 1
  <2>1. <<c, n>> \in Attempt /\ id \in SubIdsOf[c]
    BY <1>p, <1>1, BoundsAssumption DEF HandleSubscribe, Attempt
  <2>2. /\ subId' = [subId EXCEPT ![<<c, n>>] = id]
        /\ store' = StoreWithout(c, {id})
        /\ mySubIds' = [mySubIds EXCEPT ![c] = @ \ {id}]
    BY <1>1 DEF HandleSubscribe
  <2> HIDE DEF n
  <2>3. \A a \in Attempt : subId'[a] # NoEntry => subId'[a] \in SubIdsOf[a[1]]
    BY <1>p, <2>1, <2>2 DEF OwnIds
  <2>4. OwnedIsRegistered' /\ \A d \in Conn : mySubIds'[d] \subseteq SubIdsOf[d]
    BY <1>w, <2>1, <2>2
  <2>5. QED
    BY <2>3, <2>4 DEF OwnIds
<1>2. ASSUME NEW c \in Conn, NEW id \in SubId, HandleUnsubscribe(c, id)
      PROVE  (OwnIds /\ OwnedIsRegistered)'
  <2>1. /\ id \in SubIdsOf[c] /\ subId' = subId
        /\ store' = StoreWithout(c, {id})
        /\ mySubIds' = [mySubIds EXCEPT ![c] = @ \ {id}]
    BY <1>2 DEF HandleUnsubscribe, subVars
  <2>2. OwnedIsRegistered' /\ \A d \in Conn : mySubIds'[d] \subseteq SubIdsOf[d]
    BY <1>w, <2>1
  <2>3. QED
    BY <2>1, <2>2 DEF OwnIds
<1>3. ASSUME NEW c \in Conn, Teardown(c) PROVE (OwnIds /\ OwnedIsRegistered)'
  <2>1. /\ subId' = subId
        /\ store' = StoreWithout(c, SubId)
        /\ mySubIds' = [mySubIds EXCEPT ![c] = @ \ SubId]
    BY <1>p, <1>3 DEF Teardown, subVars
  <2>2. OwnedIsRegistered' /\ \A d \in Conn : mySubIds'[d] \subseteq SubIdsOf[d]
    BY <1>w, <2>1
  <2>3. QED
    BY <2>1, <2>2 DEF OwnIds
<1>4. ASSUME UNCHANGED <<subId, store, mySubIds>> PROVE (OwnIds /\ OwnedIsRegistered)'
  BY <1>4 DEF OwnIds, OwnedIsRegistered
<1>5. ASSUME NEW a \in Attempt, SubscribeNext(a) PROVE (OwnIds /\ OwnedIsRegistered)'
  <2>1. CASE SubscribeFailed(a) \/ ContextResolved(a) \/ QueryReads(a)
    BY <1>4, <2>1 DEF SubscribeFailed, ContextResolved, QueryReads, connVars
  <2>2. CASE Register(a) /\ Bails(a)
    BY <1>4, <2>2 DEF Register
  <2>3. CASE Register(a) /\ ~Bails(a)
    <3> DEFINE id == subId[a]
    <3>1. /\ a[1] \in Conn /\ id \in SubId /\ id \in SubIdsOf[a[1]]
      BY <2>3, NoEntryAssumption DEF Bails, Current, OwnIds, Attempt
    <3>2. /\ subId' = subId
          /\ store' = [store EXCEPT ![id] = a]
          /\ mySubIds' = [mySubIds EXCEPT ![a[1]] = @ \cup {id}]
      BY <2>3 DEF Register
    <3> HIDE DEF id
    <3>3. ASSUME NEW d \in Conn, NEW j \in mySubIds'[d]
          PROVE  store'[j] # NoEntry /\ store'[j][1] = d /\ j \in SubIdsOf[d]
      <4>1. CASE j = id
        <5>1. d = a[1]
          BY <1>o, <1>p, <3>1, <3>2, <3>3, <4>1
        <5>2. store'[j] = a /\ a # NoEntry
          BY <1>p, <3>1, <3>2, <4>1, NoEntryAssumption
        <5>3. QED
          BY <3>1, <4>1, <5>1, <5>2
      <4>2. CASE j # id
        <5>1. j \in mySubIds[d] /\ j \in SubId /\ store'[j] = store[j]
          BY <1>p, <3>1, <3>2, <3>3, <4>2
        <5>2. QED
          BY <5>1 DEF OwnedIsRegistered, OwnIds
      <4>3. QED
        BY <4>1, <4>2
    <3>4. QED
      BY <3>2, <3>3 DEF OwnIds, OwnedIsRegistered
  <2>4. QED
    BY <1>5, <2>1, <2>2, <2>3 DEF SubscribeNext
<1>6. ASSUME NEW m \in Mutation, MutationNext(m) PROVE (OwnIds /\ OwnedIsRegistered)'
  BY <1>4, <1>6 DEF MutationNext, Commit, Emit, connVars, subVars
<1>7. ASSUME NEW a \in Attempt, RouterNext(a) PROVE (OwnIds /\ OwnedIsRegistered)'
  BY <1>4, <1>7 DEF RouterNext, LinkStart, RecomputeReads, RecomputeFails, LinkFinish,
                    connVars, subVars
<1>8. CASE UNCHANGED vars
  BY <1>4, <1>8 DEF vars, connVars, subVars
<1>9. QED
  BY <1>1, <1>2, <1>3, <1>5, <1>6, <1>7, <1>8 DEF Next, ConnNext

LEMMA OwnedAlways == ASSUME IdsApart PROVE Spec => [](IInv /\ OwnIds /\ OwnedIsRegistered)
<1>1. IInv /\ [Next]_vars => IInv'
  BY TypeOKStep, AttemptTokensStep, EntriesStep DEF IInv
<1>2. QED
  BY <1>1, InitIInv, InitOwned, OwnedStep, PTL DEF Spec

\* As long as no two connections use the same subscription id, what a connection
\* counts as its own (mySubIds) is registered, and registered as its own.
THEOREM OwnedAreRegistered == ASSUME IdsApart PROVE Spec => []OwnedIsRegistered
  BY OwnedAlways, PTL

\* ... and teardown, which deletes by id from the store all connections share,
\* removes no entry of another: a shared id is the only way it can.
THEOREM TeardownSparesOthers == ASSUME IdsApart PROVE Spec => TeardownKeepsOthers
<1>1. ASSUME IInv, OwnIds, [Next]_vars, NEW c \in Conn, NEW id \in SubId,
             closed'[c], ~closed[c], store[id] # NoEntry, store[id][1] # c
      PROVE  store'[id] = store[id]
  <2>1. Teardown(c)
    <3>1. ASSUME closed' = closed PROVE FALSE
      BY <1>1, <3>1
    <3>2. ASSUME NEW d \in Conn, ConnNext(d) PROVE Teardown(c)
      <4>1. ASSUME NEW j \in SubId PROVE ~HandleSubscribe(d, j) /\ ~HandleUnsubscribe(d, j)
        BY <3>1 DEF HandleSubscribe, HandleUnsubscribe
      <4>2. Teardown(d)
        BY <3>2, <4>1 DEF ConnNext
      <4>3. closed \in [Conn -> BOOLEAN] /\ closed' = [closed EXCEPT ![d] = TRUE]
        BY <1>1, <4>2 DEF IInv, TypeOK, Teardown
      <4>4. c = d
        BY <1>1, <4>3
      <4>5. QED
        BY <4>2, <4>4
    <3>3. ASSUME NEW a \in Attempt PROVE ~SubscribeNext(a) /\ ~RouterNext(a)
      BY <3>1 DEF SubscribeNext, SubscribeFailed, ContextResolved, QueryReads, Register, RouterNext,
                  LinkStart, RecomputeReads, RecomputeFails, LinkFinish, connVars
    <3>4. ASSUME NEW m \in Mutation PROVE ~MutationNext(m)
      BY <3>1 DEF MutationNext, Commit, Emit, connVars
    <3>5. ~UNCHANGED vars
      BY <3>1 DEF vars, connVars
    <3>6. QED
      BY <1>1, <3>2, <3>3, <3>4, <3>5 DEF Next
  <2>2. store' = StoreWithout(c, SubId)
    BY <2>1 DEF Teardown
  <2>3. /\ store[id] \in Attempt /\ store[id][1] \in Conn
        /\ id \in mySubIds[store[id][1]]
    BY <1>1 DEF IInv, TypeOK, NoOrphanEntry, Attempt
  <2>4. id \notin mySubIds[c]
    BY <1>1, <2>3 DEF OwnIds, IdsApart
  <2>5. QED
    BY <2>2, <2>4 DEF StoreWithout
<1>2. IInv /\ OwnIds /\ [Next]_vars =>
        [\A c \in Conn, id \in SubId :
           /\ closed'[c] /\ ~closed[c]
           /\ store[id] # NoEntry
           /\ store[id][1] # c
           => store'[id] = store[id]]_vars
  BY <1>1
<1>3. QED
  BY <1>2, OwnedAlways, PTL DEF Spec, TeardownKeepsOthers

=============================================================================
