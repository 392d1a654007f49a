------------------------------- MODULE DraftLog -------------------------------
(***************************************************************************)
(* One caller appends to a draft, one command at a time, over canonical    *)
(* rows nobody else writes: every history of commands up to a length, to   *)
(* check the compaction of draft-command-log.ts against the row changes    *)
(* the same commands leave.                                                *)
(***************************************************************************)
EXTENDS DraftOverlay, Functions

CONSTANTS
  MaxCommands,   \* bound: the commands appended
  Keying         \* per row, whether its commands have a compaction key

VARIABLES
  history,   \* the commands appended, none compacted
  log,       \* the stored log
  change,    \* the stored row changes
  canon      \* the canonical rows

vars == <<history, log, change, canon>>

Ledger == [r \in Row |-> IF canon[r].exists THEN canon[r].rev ELSE 0]
Written == [r \in Row |-> 0]

Init ==
  /\ history = <<>> /\ log = <<>>
  /\ change = [r \in Row |-> NoChange]
  /\ \E there \in SUBSET Row :
       canon = [r \in Row |-> IF r \in there THEN Present(1, 1) ELSE Absent]

\* append() of one command, which the handler does not refuse
Append1(op, r, keyed) ==
  LET c == [op |-> op, row |-> r, val |-> 2 + Len(history), keyed |-> keyed]
  IN /\ Len(history) < MaxCommands
     /\ ~Refused(c, change[r], canon[r])
     /\ change' = [change EXCEPT ![r] = Touched(c, @, canon[r], Ledger[r], Written[r])]
     /\ log' = CompactLog(Append(log, c))
     /\ history' = Append(history, c)
     /\ UNCHANGED canon

Next ==
  \E op \in {"insert", "update", "delete"}, r \in Row :
    \E keyed \in Keying[r] : Append1(op, r, keyed)

Spec == Init /\ [][Next]_vars

-----------------------------------------------------------------------------
(* Properties *)

\* The compacted log materializes exactly the changes of the whole history:
\* publication's replay check never refuses a draft over what compaction dropped.
CompactedReplays ==
  LET replay == Replay(log, canon, Ledger, Written)
  IN replay.ok /\ ReplayMatches(change, replay.change)

\* Compacting after each append is compacting once at the end: what was dropped
\* earlier never decides what survives later.
CompactionIsIncremental == log = CompactLog(history)

\* A keyed command that is dropped has a later keyed insert or delete of its row
\* or, a delete, an earlier insert of its row: no update is dropped for another.
CreateOrDelete(c, r) == c.keyed /\ c.row = r /\ c.op \in {"insert", "delete"}
DroppedForCause ==
  \A i \in 1..Len(history) :
    history[i] \notin Range(log) =>
      /\ history[i].keyed
      /\ \E j \in 1..Len(history) :
           /\ j # i /\ CreateOrDelete(history[j], history[i].row)
           /\ j < i => history[i].op = "delete" /\ history[j].op = "insert"
=============================================================================
