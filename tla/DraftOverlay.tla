----------------------------- MODULE DraftOverlay -----------------------------
(***************************************************************************)
(* The data a draft is made of, without its life: the sparse row changes   *)
(* commands leave in wystack_draft_row_changes (db/draft-mutations.ts), the *)
(* effective rows handlers see through them, the command log and its       *)
(* compaction (server/draft-command-log.ts), the conflicts and the replay  *)
(* check of publication (server/draft-review-state.ts,                     *)
(* server/draft-publication.ts) and what publication does to a row.        *)
(*                                                                         *)
(* A row is one value and, in a revisioned table, a revision.  Canonical   *)
(* rows, the revision ledger and changes are functions of the row's        *)
(* identity; Absent stands for no row and NoChange for no change.          *)
(***************************************************************************)
EXTENDS Integers, Sequences

CONSTANTS
  Row,         \* the identities (table, tenant, key) of rows
  Revisioned   \* the table declares a revision column

ASSUME RevisionedAssumption == Revisioned \in BOOLEAN

Absent   == [exists |-> FALSE, rev |-> 0, val |-> 0]
NoChange == [op |-> "none"]
Present(rev, val) == [exists |-> TRUE, rev |-> IF Revisioned THEN rev ELSE 0, val |-> val]

Larger(a, b) == IF a >= b THEN a ELSE b

-----------------------------------------------------------------------------
(* One row: the coalesced read and the sparse upsert *)

\* FULL OUTER JOIN of the change and the canonical row: the change's fields win,
\* a delete hides the row
Effective(change, row) ==
  CASE change = NoChange      -> row
    [] change.op = "delete"   -> Absent
    [] OTHER                  -> Present(change.rev, change.val)

InsertAvailable(change, row) ==
  IF change = NoChange THEN ~row.exists ELSE change.op = "delete"

\* What the draft's first touch of a row anchors.  `seen` is no column: it names
\* the canonical write the anchor saw.
Anchor(row, ledger, seen) ==
  [baseExists |-> row.exists,
   baseRev    |-> IF ~Revisioned THEN 0 ELSE IF row.exists THEN row.rev ELSE ledger,
   original   |-> row.val,
   seen       |-> seen]

\* The upsert of one command on a row it may write: a delete wins, an insert
\* stays one under updates, and the first touch's anchor is kept
WriteDraftRow(change, row, ledger, seen, op, val) ==
  LET before == Effective(change, row)
      rev == IF ~Revisioned THEN 0
             ELSE CASE op = "insert" -> 1 + IF row.exists THEN row.rev ELSE ledger
                    [] op = "update" -> before.rev + 1
                    [] op = "delete" -> before.rev
  IN [op     |-> IF change # NoChange /\ change.op = "insert" /\ op = "update" THEN "insert" ELSE op,
      rev    |-> rev,
      val    |-> IF op = "delete" THEN before.val ELSE val,
      anchor |-> IF change = NoChange THEN Anchor(row, ledger, seen) ELSE change.anchor]

\* A handler's insert on a row that exists throws; its update or delete of a row
\* that does not writes nothing.
Refused(command, change, row) ==
  command.op = "insert" /\ ~InsertAvailable(change, row)

Writes(command, change, row) ==
  \/ command.op = "insert"
  \/ Effective(change, row).exists

Touched(command, change, row, ledger, seen) ==
  IF Writes(command, change, row)
    THEN WriteDraftRow(change, row, ledger, seen, command.op, command.val)
    ELSE change

-----------------------------------------------------------------------------
(* The command log *)

\* A command with a compaction key is keyed by its row.
Command == [op : {"insert", "update", "delete"}, row : Row, val : Nat, keyed : BOOLEAN]

\* Seeded fault: a create drops the delete before it.
CompactStep_DropsDelete(log, state, i) ==
  LET k == log[i].row
  IN IF ~log[i].keyed THEN state
     ELSE CASE log[i].op = "insert" ->
                 [state EXCEPT !.create[k] = {i}, !.updates[k] = {}, !.delete[k] = {}]
            [] log[i].op = "update" -> [state EXCEPT !.updates[k] = @ \cup {i}]
            [] log[i].op = "delete" /\ state.create[k] # {} ->
                 [state EXCEPT !.create[k] = {}, !.updates[k] = {}]
            [] OTHER -> [state EXCEPT !.updates[k] = {}, !.delete[k] = {i}]

\* One turn of the loop over the log; each map holds surviving positions
CompactStep(log, state, i) ==
  LET k == log[i].row
  IN IF ~log[i].keyed THEN state
     ELSE CASE log[i].op = "insert" ->
                 [state EXCEPT !.create[k] = {i}, !.updates[k] = {}]
            [] log[i].op = "update" -> [state EXCEPT !.updates[k] = @ \cup {i}]
            [] log[i].op = "delete" /\ state.create[k] # {} ->
                 [state EXCEPT !.create[k] = {}, !.updates[k] = {}]
            [] OTHER -> [state EXCEPT !.updates[k] = {}, !.delete[k] = {i}]

\* The maps after each turn
CompactStates(log) ==
  LET none == [k \in Row |-> {}]
      state[i \in 0..Len(log)] ==
        IF i = 0 THEN [create |-> none, updates |-> none, delete |-> none]
        ELSE CompactStep(log, state[i - 1], i)
  IN state

Surviving(log) ==
  LET end == CompactStates(log)[Len(log)]
  IN UNION {end.create[k] \cup end.updates[k] \cup end.delete[k] : k \in Row}

\* log.filter
Filtered(log, kept) ==
  LET keep[i \in 0..Len(log)] ==
        IF i = 0 THEN <<>>
        ELSE IF i \in kept THEN Append(keep[i - 1], log[i]) ELSE keep[i - 1]
  IN keep[Len(log)]

CompactLog(log) ==
  Filtered(log, Surviving(log) \cup {i \in 1..Len(log) : ~log[i].keyed})

\* The log run from nothing: its changes, or that a command was refused
Replay(log, canon, ledger, written) ==
  LET run[i \in 0..Len(log)] ==
        IF i = 0 THEN [ok |-> TRUE, change |-> [r \in Row |-> NoChange]]
        ELSE LET before == run[i - 1]
                 c == log[i]
                 r == c.row
             IN IF ~before.ok \/ Refused(c, before.change[r], canon[r])
                  THEN [before EXCEPT !.ok = FALSE]
                  ELSE [before EXCEPT !.change[r] =
                          Touched(c, @, canon[r], ledger[r], written[r])]
  IN run[Len(log)]

-----------------------------------------------------------------------------
(* What publication checks and does *)

RowConflict(change, row, ledger) ==
  /\ change # NoChange
  /\ \/ change.anchor.baseExists # row.exists
     \/ Revisioned /\ change.anchor.baseRev # (IF row.exists THEN row.rev ELSE ledger)

\* A create followed by a delete is a harmless tombstone
Reviewed(change) ==
  change # NoChange /\ (change.anchor.baseExists \/ change.op # "delete")

SameProposal(a, b) ==
  a.op = b.op /\ (a.op = "delete" \/ (a.val = b.val /\ a.rev = b.rev))

SameAnchor(a, b) ==
  /\ a.anchor.baseExists = b.anchor.baseExists
  /\ a.anchor.baseRev = b.anchor.baseRev
  /\ a.anchor.original = b.anchor.original

\* The replay resolves the reviewed rows, proposals and anchors
ReplayMatches(reviewed, replayed) ==
  \A r \in Row :
    /\ Reviewed(reviewed[r]) <=> Reviewed(replayed[r])
    /\ Reviewed(reviewed[r]) =>
         SameProposal(reviewed[r], replayed[r]) /\ SameAnchor(reviewed[r], replayed[r])

\* The canonical insert allocates the ledger's next revision, a delete leaves
\* the row's last one there
Inserted(ledger) == ledger + 1

\* Seeded fault: the ledger keeps the revision of the row's insert.
Deleted_Forgets(row, ledger) == ledger

Deleted(row, ledger) == IF Revisioned /\ row.exists THEN Larger(ledger, row.rev) ELSE ledger

\* Whether applying a reviewed change succeeds.  The revision a write leaves is
\* raised to the reviewed one by repeated updates, and is never above it.
Applicable(change, row, ledger) ==
  LET first == IF change.op = "update" THEN row.rev + 1 ELSE Deleted(row, ledger) + 1
  IN CASE change.op = "delete" -> TRUE
       [] change.op = "update" -> row.exists /\ (Revisioned => first <= change.rev)
       [] change.op = "insert" -> /\ row.exists => change.anchor.baseExists
                                  /\ Revisioned => first <= change.rev

AppliedRow(change) ==
  IF change.op = "delete" THEN Absent ELSE Present(change.rev, change.val)

AppliedLedger(change, row, ledger) ==
  CASE change.op = "delete" -> Deleted(row, ledger)
    [] change.op = "insert" /\ Revisioned -> Inserted(Deleted(row, ledger))
    [] OTHER -> ledger
=============================================================================
