---------------------------- MODULE DraftLifecycle ----------------------------
(***************************************************************************)
(* The life of one stored draft (server/draft-lifecycle.ts): append,       *)
(* publish, discard and rebase by several callers at once, beside other    *)
(* writers of the canonical rows.                                          *)
(*                                                                         *)
(* PostgreSQL runs the transactions at READ COMMITTED: a statement sees    *)
(* what is committed when it starts, others see a transaction's writes at  *)
(* its commit, and it holds the rows it locks until then.  `lock` is the   *)
(* lock of a row's ledger entry and canonical row, which every writer of a *)
(* revisioned row takes first; `hold` is the lock of the draft's change of *)
(* the row.  The wystack_drafts row is written last: its lock and the      *)
(* commit are one step.                                                    *)
(*                                                                         *)
(* Authorization and the integrity hash, which guard against callers and   *)
(* writers that are not modelled, are left out, as are draft tags.         *)
(***************************************************************************)
EXTENDS DraftOverlay, FiniteSets

CONSTANTS
  Process,          \* bound: the calls, each a process
  None,             \* no process
  Menu,             \* per process, the operations it may be a call of
  Batches,          \* per process, the batches it may append
  AppendAttempts,   \* optimistic attempts of an append: 5 in the code
  TxAttempts,       \* attempts of a deadlocked transaction: 3 in the code
  MaxVersion,       \* bound: canonical commits
  Resolved          \* a value a resolve hook puts in place of another

ASSUME NoneAssumption == None \notin Process
ASSUME RowAssumption == Row \subseteq Nat
ASSUME BatchesAssumption == \A p \in Process : Batches[p] \subseteq Seq(Command)
ASSUME ResolvedAssumption == Resolved \in Nat
ASSUME AttemptsAssumption == AppendAttempts \in Nat \ {0} /\ TxAttempts \in Nat \ {0}

VARIABLES
  draft, rev, base,        \* the wystack_drafts row
  log, change,             \* its wystack_draft_commands, its row changes
  canon, ledger,           \* the canonical rows and wystack_row_revisions
  version, written,        \* what the host's probe sees: its version, and the
                           \* version that last wrote each row
  lock, hold, publisher,   \* the row locks and the publishers' advisory lock
  pc,                      \* per process: its next step
  snap,                    \*   the log revision it read
  batch,                   \*   what it appends
  mine,                    \*   the log it read, or a resolve hook returned
  todo,                    \*   the commands it has still to run
  buffer,                  \*   the row changes of its transaction
  tries, attempts,         \*   its transaction's attempts; an append's
  probed,                  \*   the version a rebase probed
  acked                    \* history: the commands of the committed appends

draftVars == <<draft, rev, base, log, change>>
canonVars == <<canon, ledger, version, written>>
lockVars  == <<lock, hold, publisher>>
tryVars   == <<tries, attempts>>
vars == <<draftVars, canonVars, lockVars, pc, snap, batch, mine, todo, buffer, tryVars,
          probed, acked>>

InTx == {"append.read", "append.run", "publish.check", "publish.replay", "publish.apply",
         "publish.commit", "discard.clear", "discard.commit", "rebase.clear", "rebase.run"}
Steps == InTx \cup
  {"idle", "append.begin", "publish.log", "publish.begin", "discard.begin", "rebase.log",
   "rebase.probe", "rebase.report", "rebase.confirm", "rebase.begin", "done", "failed"}

NoChanges == [r \in Row |-> NoChange]

TypeOK ==
  /\ draft \in {"open", "published", "discarded"}
  /\ rev \in Nat /\ base \in Nat /\ version \in Nat
  /\ ledger \in [Row -> Nat] /\ written \in [Row -> Nat]
  /\ lock \in [Row -> Process \cup {None}] /\ hold \in [Row -> Process \cup {None}]
  /\ publisher \in Process \cup {None}
  /\ pc \in [Process -> Steps]
  /\ \A r \in Row :
       {lock[r], hold[r], publisher} \subseteq {p \in Process : pc[p] \in InTx} \cup {None}
  /\ tries \in [Process -> 1..TxAttempts] /\ attempts \in [Process -> 1..AppendAttempts]

\* open() has inserted the draft at the version the host gave
Init ==
  /\ draft = "open" /\ rev = 0 /\ base = 1 /\ version = 1
  /\ log = <<>> /\ change = NoChanges
  /\ \E there \in SUBSET Row :
       /\ canon = [r \in Row |-> IF r \in there THEN Present(1, 1) ELSE Absent]
       /\ ledger = [r \in Row |-> IF r \in there /\ Revisioned THEN 1 ELSE 0]
  /\ written = [r \in Row |-> 1]
  /\ lock = [r \in Row |-> None] /\ hold = [r \in Row |-> None] /\ publisher = None
  /\ pc = [p \in Process |-> "idle"]
  /\ snap = [p \in Process |-> 0]
  /\ batch = [p \in Process |-> <<>>]
  /\ mine = [p \in Process |-> <<>>]
  /\ todo = [p \in Process |-> <<>>]
  /\ buffer = [p \in Process |-> NoChanges]
  /\ tries = [p \in Process |-> 1]
  /\ attempts = [p \in Process |-> 1]
  /\ probed = [p \in Process |-> 0]
  /\ acked = <<>>

-----------------------------------------------------------------------------
(* Calls and transactions *)

Goto(p, to) == pc' = [pc EXCEPT ![p] = to]

Call(p, operation, to) ==
  /\ pc[p] = "idle" /\ operation \in Menu[p] /\ draft = "open"
  /\ Goto(p, to)

Release(p) ==
  /\ lock' = [r \in Row |-> IF lock[r] = p THEN None ELSE lock[r]]
  /\ hold' = [r \in Row |-> IF hold[r] = p THEN None ELSE hold[r]]
  /\ publisher' = IF publisher = p THEN None ELSE publisher

\* The call throws; in a transaction, all it wrote is rolled back
Fail(p) ==
  /\ Release(p)
  /\ Goto(p, "failed")
  /\ UNCHANGED <<draftVars, canonVars, snap, batch, mine, todo, buffer, tryVars, probed, acked>>

\* What a step of p does that writes nothing others see
Step(p, to) ==
  /\ Goto(p, to)
  /\ UNCHANGED <<draftVars, canonVars, publisher, batch, tryVars, acked>>

Commit(p) == Release(p) /\ Goto(p, "done")

\* Whose transactions p waits for, to lock these rows
Holders(p, locks, rows) == {locks[r] : r \in rows} \ {p, None}

\* The change of r that p's transaction sees: its own, else the committed one.
\* A rebase has cleared the committed ones.
Sees(p, r) ==
  IF buffer[p][r] # NoChange \/ pc[p] = "rebase.run" THEN buffer[p][r] ELSE change[r]

Changed == {r \in Row : change[r] # NoChange}

\* The rows publication locks: without a ledger, only those that are there
Lockable == {r \in Changed : Revisioned \/ canon[r].exists}

\* The next row p's statement locks, in the order of its ORDER BY
NextOf(p, locks, rows) ==
  {r \in rows : locks[r] # p /\ \A s \in rows : s < r => locks[s] = p}

WaitsFor(p) ==
  CASE pc[p] \in {"append.run", "rebase.run"} /\ todo[p] # <<>> ->
         LET r == Head(todo[p]).row
         IN IF Writes(Head(todo[p]), Sees(p, r), canon[r])
              THEN Holders(p, lock, {r}) \cup Holders(p, hold, {r})
              ELSE {}
    [] pc[p] = "publish.begin" -> {publisher} \ {None}
    [] pc[p] = "publish.check" -> Holders(p, lock, NextOf(p, lock, Lockable))
    [] pc[p] = "publish.apply" -> Holders(p, lock, {r \in Row : Reviewed(change[r])})
    [] pc[p] = "publish.commit" -> Holders(p, hold, Changed)
    [] pc[p] \in {"discard.clear", "rebase.clear"} -> Holders(p, hold, NextOf(p, hold, Changed))
    [] OTHER -> {}

Ready(p, step) == pc[p] = step /\ WaitsFor(p) = {}

\* The database's deadlock detector rolls one of a cycle back, and
\* runReplayableTransaction starts it again
Restart == [append |-> "append.begin", publish |-> "publish.begin",
            discard |-> "discard.begin", rebase |-> "rebase.begin"]

\* One command's handler.  A refused insert throws.
RunCommand(p) ==
  LET c == Head(todo[p])
      r == c.row
  IN /\ todo[p] # <<>>
     /\ IF Refused(c, Sees(p, r), canon[r])
          THEN Fail(p)
          ELSE /\ Step(p, pc[p])
               /\ todo' = [todo EXCEPT ![p] = Tail(@)]
               /\ IF Writes(c, Sees(p, r), canon[r])
                    THEN /\ lock' = [lock EXCEPT ![r] = p]
                         /\ hold' = [hold EXCEPT ![r] = p]
                         /\ buffer' = [buffer EXCEPT ![p][r] =
                              Touched(c, Sees(p, r), canon[r], ledger[r], written[r])]
                    ELSE UNCHANGED <<lock, hold, buffer>>
               /\ UNCHANGED <<snap, mine, probed>>

-----------------------------------------------------------------------------
(* Append *)

StartAppend(p) ==
  /\ Call(p, "append", "append.begin")
  /\ \E b \in Batches[p] : batch' = [batch EXCEPT ![p] = b]
  /\ UNCHANGED <<draftVars, canonVars, lockVars, snap, mine, todo, buffer, tryVars, probed, acked>>

\* The transaction's requireStored
AppendBegin(p) ==
  /\ Ready(p, "append.begin")
  /\ IF draft # "open" THEN Fail(p)
     ELSE /\ Step(p, "append.read")
          /\ snap' = [snap EXCEPT ![p] = rev]
          /\ UNCHANGED <<lock, hold, mine, todo, buffer, probed>>

AppendRead(p) ==
  /\ Ready(p, "append.read")
  /\ Step(p, "append.run")
  /\ mine' = [mine EXCEPT ![p] = log]
  /\ todo' = [todo EXCEPT ![p] = batch[p]]
  /\ buffer' = [buffer EXCEPT ![p] = NoChanges]
  /\ UNCHANGED <<lock, hold, snap, probed>>

AppendRun(p) == Ready(p, "append.run") /\ RunCommand(p)

\* The log and the changes as the transaction leaves them
AppendWrites(p) ==
  /\ log' = CompactLog(mine[p] \o batch[p])
  /\ change' = [r \in Row |-> Sees(p, r)]
  /\ rev' = rev + 1
  /\ acked' = acked \o batch[p]
  /\ Commit(p)
  /\ UNCHANGED <<draft, base, canonVars, snap, batch, mine, todo, buffer, tryVars, probed>>

\* Seeded fault: the revision is advanced whatever it is.
AppendCommit_NoSwap(p) ==
  /\ Ready(p, "append.run") /\ todo[p] = <<>>
  /\ ~\E q \in Process : pc[q] = "discard.commit" /\ log # <<>>
  /\ AppendWrites(p)

\* Seeded fault: a lost race is tried again from the log it read.
AppendCommit_StaleRetry(p) ==
  /\ Ready(p, "append.run") /\ todo[p] = <<>>
  /\ ~\E q \in Process : pc[q] = "discard.commit" /\ log # <<>>
  /\ IF draft = "open" /\ rev = snap[p] THEN AppendWrites(p)
     ELSE IF draft # "open" \/ attempts[p] = AppendAttempts THEN Fail(p)
     ELSE /\ Release(p)
          /\ Goto(p, "append.run")
          /\ snap' = [snap EXCEPT ![p] = rev]
          /\ todo' = [todo EXCEPT ![p] = batch[p]]
          /\ buffer' = [buffer EXCEPT ![p] = NoChanges]
          /\ attempts' = [attempts EXCEPT ![p] = @ + 1]
          /\ UNCHANGED <<draftVars, canonVars, batch, mine, tries, probed, acked>>

\* replaceStoredCommands waits for a discard that deleted the rows, then
\* refreshStoredDraftIntegrityAndAdvance compares and swaps the revision
AppendCommit(p) ==
  /\ Ready(p, "append.run") /\ todo[p] = <<>>
  /\ ~\E q \in Process : pc[q] = "discard.commit" /\ log # <<>>
  /\ IF draft = "open" /\ rev = snap[p] THEN AppendWrites(p)
     ELSE IF attempts[p] = AppendAttempts THEN Fail(p)
     ELSE /\ Release(p)
          /\ Goto(p, "append.begin")
          /\ attempts' = [attempts EXCEPT ![p] = @ + 1]
          /\ tries' = [tries EXCEPT ![p] = 1]
          /\ UNCHANGED <<draftVars, canonVars, snap, batch, mine, todo, buffer, probed, acked>>

-----------------------------------------------------------------------------
(* Publish *)

\* The snapshot's requireStored
StartPublish(p) ==
  /\ Call(p, "publish", "publish.log")
  /\ snap' = [snap EXCEPT ![p] = rev]
  /\ UNCHANGED <<draftVars, canonVars, lockVars, batch, mine, todo, buffer, tryVars, probed, acked>>

\* What the resolve hook may return
Resolutions == {log, [i \in 1..Len(log) |-> [log[i] EXCEPT !.val = Resolved]]}

PublishLog(p) ==
  /\ Ready(p, "publish.log")
  /\ Step(p, "publish.begin")
  /\ \E bound \in Resolutions : mine' = [mine EXCEPT ![p] = bound]
  /\ UNCHANGED <<lock, hold, snap, todo, buffer, probed>>

PublishBegin(p) ==
  /\ Ready(p, "publish.begin")
  /\ IF draft # "open" \/ rev # snap[p] THEN Fail(p)
     ELSE /\ Goto(p, "publish.check")
          /\ publisher' = p
          /\ UNCHANGED <<draftVars, canonVars, lock, hold, snap, batch, mine, todo, buffer,
                         tryVars, probed, acked>>

\* Seeded fault: the rows are compared and not locked.
PublishCheck_NoLocks(p) ==
  /\ Ready(p, "publish.check")
  /\ IF \E r \in Row : RowConflict(change[r], canon[r], ledger[r])
       THEN Fail(p)
       ELSE /\ Step(p, "publish.replay")
            /\ UNCHANGED <<lock, hold, snap, mine, todo, buffer, probed>>

\* assertDraftRowsUnchanged: the rows are locked one by one, then compared
PublishCheck(p) ==
  /\ Ready(p, "publish.check")
  /\ LET next == NextOf(p, lock, Lockable)
     IN IF next # {}
          THEN /\ Step(p, "publish.check")
               /\ lock' = [r \in Row |-> IF r \in next THEN p ELSE lock[r]]
               /\ UNCHANGED <<hold, snap, mine, todo, buffer, probed>>
          ELSE IF \E r \in Row : RowConflict(change[r], canon[r], ledger[r])
            THEN Fail(p)
            ELSE /\ Step(p, "publish.replay")
                 /\ UNCHANGED <<lock, hold, snap, mine, todo, buffer, probed>>

\* The bound log, run again beside the draft, is compared with its changes
PublishReplay(p) ==
  /\ Ready(p, "publish.replay")
  /\ LET replay == Replay(mine[p], canon, ledger, written)
     IN IF replay.ok /\ ReplayMatches(change, replay.change)
          THEN /\ Step(p, "publish.apply")
               /\ UNCHANGED <<lock, hold, snap, mine, todo, buffer, probed>>
          ELSE Fail(p)

\* applyReviewedChanges reads the changes again
PublishApply(p) ==
  /\ Ready(p, "publish.apply")
  /\ IF \A r \in Row : Reviewed(change[r]) => Applicable(change[r], canon[r], ledger[r])
       THEN /\ Step(p, "publish.commit")
            /\ buffer' = [buffer EXCEPT ![p] = change]
            /\ lock' = [r \in Row |-> IF Reviewed(change[r]) THEN p ELSE lock[r]]
            /\ UNCHANGED <<hold, snap, mine, todo, probed>>
       ELSE Fail(p)

PublishWrites(p) ==
  LET applied == {r \in Row : Reviewed(buffer[p][r])}
  IN /\ draft' = "published"
     /\ log' = <<>> /\ change' = NoChanges
     /\ canon' = [r \in Row |-> IF r \in applied THEN AppliedRow(buffer[p][r]) ELSE canon[r]]
     /\ ledger' = [r \in Row |-> IF r \in applied
                     THEN AppliedLedger(buffer[p][r], canon[r], ledger[r]) ELSE ledger[r]]
     /\ version' = version + 1
     /\ written' = [r \in Row |-> IF r \in applied THEN version + 1 ELSE written[r]]
     /\ Commit(p)
     /\ UNCHANGED <<rev, base, snap, batch, mine, todo, buffer, tryVars, probed, acked>>

PublishCommit(p) ==
  /\ Ready(p, "publish.commit")
  /\ IF draft = "open" /\ rev = snap[p] THEN PublishWrites(p) ELSE Fail(p)

-----------------------------------------------------------------------------
(* Discard *)

StartDiscard(p) ==
  /\ Call(p, "discard", "discard.begin")
  /\ snap' = [snap EXCEPT ![p] = rev]
  /\ UNCHANGED <<draftVars, canonVars, lockVars, batch, mine, todo, buffer, tryVars, probed, acked>>

DiscardBegin(p) ==
  /\ Ready(p, "discard.begin")
  /\ IF draft # "open" THEN Fail(p)
     ELSE Step(p, "discard.clear") /\ UNCHANGED <<lock, hold, snap, mine, todo, buffer, probed>>

\* Deleting changes waits for the transactions that write them
HoldNext(p) ==
  /\ Step(p, pc[p])
  /\ hold' = [r \in Row |-> IF r \in NextOf(p, hold, Changed) THEN p ELSE hold[r]]
  /\ UNCHANGED <<lock, snap, mine, todo, buffer, probed>>

\* What the deletes leave: changes committed since they ran
DiscardWrites(p) ==
  /\ draft' = "discarded"
  /\ log' = <<>>
  /\ change' = [r \in Row |-> IF hold[r] = p THEN NoChange ELSE change[r]]
  /\ Commit(p)
  /\ UNCHANGED <<rev, base, canonVars, snap, batch, mine, todo, buffer, tryVars, probed, acked>>

DiscardClear(p) ==
  /\ Ready(p, "discard.clear")
  /\ IF NextOf(p, hold, Changed) # {} THEN HoldNext(p)
     ELSE Step(p, "discard.commit") /\ UNCHANGED <<lock, hold, snap, mine, todo, buffer, probed>>

\* deleteStoredDraftAtRevision
DiscardCommit(p) ==
  /\ Ready(p, "discard.commit")
  /\ IF draft = "open" /\ rev = snap[p] THEN DiscardWrites(p) ELSE Fail(p)

-----------------------------------------------------------------------------
(* Rebase *)

StartRebase(p) ==
  /\ Call(p, "rebase", "rebase.log")
  /\ snap' = [snap EXCEPT ![p] = rev]
  /\ UNCHANGED <<draftVars, canonVars, lockVars, batch, mine, todo, buffer, tryVars, probed, acked>>

RebaseLog(p) ==
  /\ Ready(p, "rebase.log")
  /\ Step(p, "rebase.probe")
  /\ mine' = [mine EXCEPT ![p] = log]
  /\ UNCHANGED <<lock, hold, snap, todo, buffer, probed>>

RebaseProbe(p) ==
  /\ Ready(p, "rebase.probe")
  /\ Step(p, "rebase.report")
  /\ probed' = [probed EXCEPT ![p] = version]
  /\ UNCHANGED <<lock, hold, snap, mine, todo, buffer>>

\* The probe's cellsWrittenSince
OverlappingCells == {r \in Changed : written[r] > base}

\* The host accepts the conflicts, or the call throws
RebaseReport(p) ==
  /\ Ready(p, "rebase.report")
  /\ \/ /\ Step(p, "rebase.confirm")
        /\ UNCHANGED <<lock, hold, snap, mine, todo, buffer, probed>>
     \/ OverlappingCells # {} /\ Fail(p)

RebaseConfirm(p) ==
  /\ Ready(p, "rebase.confirm")
  /\ IF version # probed[p] THEN Fail(p)
     ELSE Step(p, "rebase.begin") /\ UNCHANGED <<lock, hold, snap, mine, todo, buffer, probed>>

RebaseBegin(p) ==
  /\ Ready(p, "rebase.begin")
  /\ IF draft # "open" \/ rev # snap[p] THEN Fail(p)
     ELSE Step(p, "rebase.clear") /\ UNCHANGED <<lock, hold, snap, mine, todo, buffer, probed>>

RebaseClear(p) ==
  /\ Ready(p, "rebase.clear")
  /\ IF NextOf(p, hold, Changed) # {} THEN HoldNext(p)
     ELSE /\ Step(p, "rebase.run")
          /\ todo' = [todo EXCEPT ![p] = mine[p]]
          /\ buffer' = [buffer EXCEPT ![p] = NoChanges]
          /\ UNCHANGED <<lock, hold, snap, mine, probed>>

RebaseRun(p) == Ready(p, "rebase.run") /\ RunCommand(p)

\* Seeded fault: the rebased draft keeps its revision.
RebaseWrites_NoAdvance(p) ==
  /\ base' = probed[p]
  /\ change' = buffer[p]
  /\ Commit(p)
  /\ UNCHANGED <<draft, rev, log, canonVars, snap, batch, mine, todo, buffer, tryVars, probed, acked>>

RebaseWrites(p) ==
  /\ base' = probed[p]
  /\ change' = buffer[p]
  /\ rev' = rev + 1
  /\ Commit(p)
  /\ UNCHANGED <<draft, log, canonVars, snap, batch, mine, todo, buffer, tryVars, probed, acked>>

\* replaceStoredDraftBase
RebaseCommit(p) ==
  /\ Ready(p, "rebase.run") /\ todo[p] = <<>>
  /\ IF draft = "open" /\ rev = snap[p] THEN RebaseWrites(p) ELSE Fail(p)

-----------------------------------------------------------------------------
(* The database and other writers *)

Operation(p) ==
  CASE pc[p] \in {"append.read", "append.run"} -> "append"
    [] pc[p] \in {"publish.check", "publish.replay", "publish.apply", "publish.commit"} -> "publish"
    [] pc[p] \in {"discard.clear", "discard.commit"} -> "discard"
    [] pc[p] \in {"rebase.clear", "rebase.run"} -> "rebase"

Deadlocked(p) ==
  \E cycle \in SUBSET {q \in Process : pc[q] \in InTx} :
    p \in cycle /\ \A q \in cycle : WaitsFor(q) \cap cycle # {}

\* Seeded fault: an aborted transaction is not started again.
Abort_NotReplayed(p) ==
  /\ Deadlocked(p)
  /\ Release(p)
  /\ Goto(p, "append.read")
  /\ UNCHANGED <<draftVars, canonVars, snap, batch, mine, todo, buffer, tryVars, probed, acked>>

Abort(p) ==
  /\ Deadlocked(p)
  /\ IF tries[p] = TxAttempts THEN Fail(p)
     ELSE /\ Release(p)
          /\ Goto(p, Restart[Operation(p)])
          /\ tries' = [tries EXCEPT ![p] = @ + 1]
          /\ UNCHANGED <<draftVars, canonVars, snap, batch, mine, todo, buffer, attempts, probed, acked>>

\* The rows a writer of canonical rows may lock
Unlocked(r) ==
  \/ lock[r] = None
  \/ /\ ~Revisioned /\ ~canon[r].exists
     /\ lock[r] \notin {p \in Process : pc[p] = "publish.commit"}

\* A committed insert, update or delete that is not the draft's: InsertBuilder
\* and SelectBuilder
HostWrite(r) ==
  /\ version < MaxVersion /\ Unlocked(r)
  /\ version' = version + 1
  /\ written' = [written EXCEPT ![r] = version + 1]
  /\ \/ /\ canon[r].exists
        /\ canon' = [canon EXCEPT ![r] = Present(@.rev + 1, version + 1)]
        /\ UNCHANGED ledger
     \/ /\ canon[r].exists
        /\ canon' = [canon EXCEPT ![r] = Absent]
        /\ ledger' = [ledger EXCEPT ![r] = Deleted(canon[r], @)]
     \/ /\ ~canon[r].exists
        /\ canon' = [canon EXCEPT ![r] = Present(Inserted(ledger[r]), version + 1)]
        /\ ledger' = [ledger EXCEPT ![r] = IF Revisioned THEN Inserted(@) ELSE @]
  /\ UNCHANGED <<draftVars, lockVars, pc, snap, batch, mine, todo, buffer, tryVars, probed, acked>>

Start(p) == StartAppend(p) \/ StartPublish(p) \/ StartDiscard(p) \/ StartRebase(p)

Progress(p) ==
  \/ AppendBegin(p) \/ AppendRead(p) \/ AppendRun(p) \/ AppendCommit(p)
  \/ PublishLog(p) \/ PublishBegin(p) \/ PublishCheck(p) \/ PublishReplay(p)
  \/ PublishApply(p) \/ PublishCommit(p)
  \/ DiscardBegin(p) \/ DiscardClear(p) \/ DiscardCommit(p)
  \/ RebaseLog(p) \/ RebaseProbe(p) \/ RebaseReport(p) \/ RebaseConfirm(p)
  \/ RebaseBegin(p) \/ RebaseClear(p) \/ RebaseRun(p) \/ RebaseCommit(p)
  \/ Abort(p)

Next == \/ \E p \in Process : Start(p) \/ Progress(p)
        \/ \E r \in Row : HostWrite(r)

Spec == Init /\ [][Next]_vars

\* Nobody has to call; what is called runs
FairSpec == Spec /\ \A p \in Process : WF_vars(Progress(p))

-----------------------------------------------------------------------------
(* Properties *)

\* The log holds what the committed appends appended, in the order they
\* committed, compacted: no append that returned is lost to another one's
\* rewrite of the log, and none that threw is in it.
LogIsHistory == draft = "open" => log = CompactLog(acked)

\* Publication and discard leave nothing of the draft, whatever appends and
\* rebases they raced.
NothingLeftBehind == draft # "open" => log = <<>> /\ change = NoChanges

\* An append is kept, or answered with an error: it neither vanishes from an open
\* draft nor stays behind after one that has ended.
AppendsKept == LogIsHistory /\ NothingLeftBehind

\* In a revisioned table the conflict check of publication sees every write of
\* another since the draft first touched a row: a row that was deleted and made
\* again, or made and deleted again, does not pass for the one anchored.
AnchorsAreExact ==
  Revisioned =>
    \A r \in Changed : ~RowConflict(change[r], canon[r], ledger[r]) =>
                         change[r].anchor.seen = written[r]

\* The rows of a draft: those it changes and those its log names
DraftRows == Changed \cup {log[i].row : i \in 1..Len(log)}

\* The draft's rows were not written since its base version: detectConflict
\* reports no overlapping cell
Clean == \A r \in DraftRows : written[r] <= base

\* A clean draft can be published as it is: no row conflicts, its compacted log
\* materializes its reviewed changes and these can be applied.
CleanDraftPublishes ==
  draft = "open" /\ Clean =>
    LET replay == Replay(log, canon, ledger, written)
    IN /\ \A r \in Row : ~RowConflict(change[r], canon[r], ledger[r])
       /\ replay.ok /\ ReplayMatches(change, replay.change)
       /\ \A r \in Row : Reviewed(change[r]) => Applicable(change[r], canon[r], ledger[r])

\* Publication applies the reviewed changes, all of them and nothing else, to
\* rows that are what the draft anchored: it overwrites no write the draft has
\* not seen.
PublishIsReviewed ==
  [][draft = "open" /\ draft' = "published" =>
       \A r \in Row :
         IF Reviewed(change[r])
           THEN /\ canon'[r] = AppliedRow(change[r])
                /\ canon[r].exists = change[r].anchor.baseExists
                /\ canon[r].val = change[r].anchor.original
                /\ Revisioned => written[r] = change[r].anchor.seen
           ELSE canon'[r] = canon[r]]_vars

\* "Reconfirm after every host callback, before opening the transaction.  Once
\* replay starts, its row locks and the stored-draft revision CAS are the
\* database-local guard" (draft-lifecycle.ts:579-581): a rebase anchors its rows
\* at writes its version and its conflict report cover.
RebaseIsConfirmed ==
  [][base' # base =>
       \A r \in Row : change'[r] # NoChange => change'[r].anchor.seen <= base']_vars

\* Every call returns or throws: neither a lost race nor a deadlock keeps it.
CallsSettle == \A p \in Process : pc[p] # "idle" ~> pc[p] \in {"done", "failed"}
=============================================================================
