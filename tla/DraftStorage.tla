----------------------------- MODULE DraftStorage -----------------------------
(***************************************************************************)
(* The tables drafts live in, over the releases of the framework: what the *)
(* migrations to each version make of the drafts that are open when a new  *)
(* release starts, and whether a publication by the current release can    *)
(* then still tell that a row changed under it.                            *)
(*                                                                         *)
(* One canonical row, on which every draft makes one change.  A release k  *)
(* brings migrations 1..k; of the earlier ones only what their migrations  *)
(* and the comments on them say is known.  All processes restart together. *)
(***************************************************************************)
EXTENDS Integers, FiniteSets

CONSTANTS
    Draft,       \* drafts
    Process,     \* processes of the application
    MaxWrites,   \* bound: canonical writes by others than publications
    MaxDeploys   \* bound: deployments after the first

Current == 7     \* `draftStorageVersion`
NewRow == 2      \* the migration that stores row changes in a table of their own
Described == 3   \* ... that stores the columns of touched tables
Typed == 4       \* ... that corrects the key's type among them
LedgerKept == 5  \* ... that creates the revision ledger
Hashed == 6      \* ... that binds a draft's parts by a hash

VARIABLES
    release,     \* the release deployed
    deploys,     \* deployments since the first
    installed,   \* version of the tables
    ready,       \* processes whose `storageReady` has resolved
    live,        \* the schema declares a revision column
    catalog,     \* type of the row's primary key
    row,         \* the row's revision, or Gone
    ledger,      \* its ledger entry, or NoEntry
    written,     \* history: canonical writes
    draft,       \* draft -> what is stored of it
    overlooked   \* history: a publication overlooked a canonical write

storageVars == <<release, deploys, installed, ready, live, catalog, row, ledger, written,
                 draft, overlooked>>

Gone == -1       \* also what a row that does not exist was anchored at before the ledger
NoEntry == -1
Null == -2       \* base_revision NULL
RebaseRequired == -3
SupportedTypes == {"integer", "text"}   \* what `identityCast` and `canonicalizeIdentity` accept

\* What one draft stores: its change's anchor (did the row exist, its revision),
\* the descriptor of the table, and a hash of both.  `seen` is history: the
\* canonical write the anchor saw.
NoChange == [made |-> FALSE, base |-> FALSE, rev |-> Null, seen |-> 0]
Undescribed == [pkType |-> "unknown", revisioned |-> FALSE]
Unused == [status |-> "unused", change |-> NoChange, table |-> Undescribed, hash |-> <<>>]
Closed == [Unused EXCEPT !.status = "closed"]
Content(stored) == <<stored.change, stored.table>>
Open(d) == draft[d].status = "open"
OpenDrafts == {d \in Draft : Open(d)}

Larger(a, b) == IF a >= b THEN a ELSE b

-----------------------------------------------------------------------------
(* Migrations.                                                              *)

\* Seeded fault: revisions recorded before there was a ledger are trusted.
MarkTrusted(stored) == stored

\* V5: a revision recorded before there was a ledger proves nothing.
Mark(stored) ==
    IF stored.table.revisioned /\ stored.change.made
    THEN [stored EXCEPT !.change.rev = RebaseRequired] ELSE stored

Migration(v, stored) ==
    CASE v = Described  -> [stored EXCEPT !.table = [pkType |-> "text", revisioned |-> FALSE]]
      [] v = Typed      -> [stored EXCEPT !.table.pkType = catalog]
      [] v = LedgerKept -> Mark(stored)
      [] v = Hashed     -> [stored EXCEPT !.hash = Content(stored)]
      [] OTHER          -> stored

\* V4 looks the type up in PostgreSQL's catalog and fails if it knows no such key.
Migratable ==
    installed < Typed /\ release >= Typed /\ OpenDrafts # {} => catalog \in SupportedTypes

\* A migration is skipped if the tables have it, or the release does not know it.
Applied(v, stored) == IF installed < v /\ v <= release THEN Migration(v, stored) ELSE stored

\* `ensureDraftStorage`: one migration after the other.  Those without a case
\* leave what is modelled here as it is.
Migrated(stored) ==
    Applied(Hashed, Applied(LedgerKept, Applied(Typed, Applied(Described, stored))))

\* `storageReady`, the first call of a process: the migrations run in one
\* transaction, under an advisory lock.  If it fails nothing has changed, and the
\* next call tries again.
Ensure(p) ==
    /\ p \notin ready
    /\ installed <= release /\ Migratable
    /\ installed' = release
    /\ draft' = [d \in Draft |-> IF Open(d) THEN Migrated(draft[d]) ELSE draft[d]]
    /\ ready' = ready \cup {p}
    /\ UNCHANGED <<release, deploys, live, catalog, row, ledger, written, overlooked>>

\* A deployment, at which the schema may gain a revision column.  No deployment
\* goes back behind the ledger: a release without it would not keep it.
Deploy(k) ==
    /\ deploys < MaxDeploys /\ deploys' = deploys + 1
    /\ k >= release \/ k >= LedgerKept
    /\ release' = k /\ ready' = {}
    /\ \/ UNCHANGED <<live, row>>
       \/ ~live /\ live' = TRUE /\ row' = IF row = Gone THEN Gone ELSE 1
    /\ UNCHANGED <<installed, catalog, ledger, written, draft, overlooked>>

-----------------------------------------------------------------------------
(* Canonical writes.  They use the ledger, which `sync` creates as well, and *)
(* wait for no migration of drafts.                                         *)

Keeps == live /\ release >= LedgerKept

\* allocateRowRevision
Allocated == IF Keeps THEN Larger(ledger, 0) + 1 ELSE IF live THEN 1 ELSE 0
\* preserveRowRevision
Preserved == IF Keeps THEN Larger(ledger, row) ELSE ledger

Insert == row = Gone /\ row' = Allocated /\ ledger' = IF Keeps THEN Allocated ELSE ledger
Update == row # Gone /\ row' = (IF live THEN row + 1 ELSE row) /\ UNCHANGED ledger
Delete == row # Gone /\ row' = Gone /\ ledger' = Preserved

CanonicalWrite ==
    /\ written < MaxWrites /\ written' = written + 1
    /\ Insert \/ Update \/ Delete
    /\ UNCHANGED <<release, deploys, installed, ready, live, catalog, draft, overlooked>>

-----------------------------------------------------------------------------
(* Drafts.                                                                  *)

\* lockRowRevision
Locked == IF Keeps THEN Larger(ledger, 0) ELSE ledger

\* What a draft's first touch of the row records, and a replay of it would.
Anchor ==
    [made |-> TRUE, base |-> row # Gone, seen |-> written,
     rev |-> IF ~live \/ release < Described THEN Null ELSE IF row # Gone THEN row ELSE Locked]

\* describeTouchedTables
Descriptor ==
    IF release < Described THEN Undescribed ELSE [pkType |-> catalog, revisioned |-> live]

Rehashed(stored) ==
    IF release >= Hashed THEN [stored EXCEPT !.hash = Content(stored)] ELSE stored

\* `append`, which opens the draft here: a change keeps its first anchor, the
\* descriptor is refreshed.
Append(p, d) ==
    /\ p \in ready /\ draft[d].status # "closed"
    /\ release >= Typed => catalog \in SupportedTypes
    /\ release >= Hashed /\ Open(d) => draft[d].hash = Content(draft[d])
    /\ LET kept == release < NewRow \/ draft[d].change.made
           change == IF kept THEN draft[d].change ELSE Anchor
       IN  draft' = [draft EXCEPT ![d] = Rehashed(
               [@ EXCEPT !.status = "open", !.table = Descriptor, !.change = change])]
    /\ ledger' = Locked
    /\ UNCHANGED <<release, deploys, installed, ready, live, catalog, row, written, overlooked>>

\* `rebase` by the current release: the changes and descriptors are made anew.
Rebase(p, d) ==
    /\ p \in ready /\ release = Current /\ Open(d) /\ draft[d].hash = Content(draft[d])
    /\ draft' = [draft EXCEPT ![d] = Rehashed([@ EXCEPT !.change = Anchor, !.table = Descriptor])]
    /\ ledger' = Locked
    /\ UNCHANGED <<release, deploys, installed, ready, live, catalog, row, written, overlooked>>

Discard(p, d) ==
    /\ p \in ready /\ Open(d) /\ draft' = [draft EXCEPT ![d] = Closed]
    /\ UNCHANGED <<release, deploys, installed, ready, live, catalog, row, ledger, written, overlooked>>

\* assertDraftRowsUnchanged: existence, and what the stored descriptor can tell.
RowUnchanged(d) ==
    LET c == draft[d].change
    IN  c.made =>
        /\ c.base = (row # Gone)
        /\ draft[d].table.revisioned =>
               ledger # NoEntry /\ c.rev = (IF row # Gone THEN row ELSE ledger)

\* assertStoredDescriptorsCurrent
DescriptorCurrent(d) == draft[d].table.revisioned = live \/ ~draft[d].change.base

\* assertReplayMatchesReviewedChanges, on what was anchored.
ReplayMatches(d) ==
    LET c == draft[d].change IN c.made /\ c.base = Anchor.base /\ c.rev = Anchor.rev

\* `publish` by the current release: an update or delete of the row if there was
\* one, else an insert.
Publish(p, d) ==
    /\ p \in ready /\ release = Current /\ Open(d)
    /\ draft[d].hash = Content(draft[d])
    /\ draft[d].table.pkType = catalog
    /\ RowUnchanged(d) /\ DescriptorCurrent(d) /\ ReplayMatches(d)
    /\ overlooked' = (overlooked \/ (live /\ draft[d].change.seen # written))
    /\ Insert \/ Update \/ Delete
    /\ written' = written + 1
    /\ draft' = [draft EXCEPT ![d] = Closed]
    /\ UNCHANGED <<release, deploys, installed, ready, live, catalog>>

-----------------------------------------------------------------------------
Init ==
    /\ release \in 1..Current /\ deploys = 0 /\ installed = 0 /\ ready = {}
    /\ live \in BOOLEAN /\ catalog \in {"integer", "numeric"}
    /\ row = Gone /\ ledger = NoEntry /\ written = 0
    /\ draft = [d \in Draft |-> Unused] /\ overlooked = FALSE

Next ==
    \/ CanonicalWrite
    \/ \E k \in 1..Current : Deploy(k)
    \/ \E p \in Process : Ensure(p) \/ \E d \in Draft :
           Append(p, d) \/ Rebase(p, d) \/ Discard(p, d) \/ Publish(p, d)

Spec == Init /\ [][Next]_storageVars

-----------------------------------------------------------------------------
\* The current release serves drafts only from tables of its own version, in which
\* a draft's parts agree with their hash and its descriptor names the real type
\* of the key, whatever release the draft was made under ...
StoredAsRead ==
    ready # {} /\ release = Current =>
        /\ installed = Current
        /\ \A d \in OpenDrafts : draft[d].hash = Content(draft[d]) /\ draft[d].table.pkType = catalog

\* ... and no publication of a draft overlooks a write to its revisioned row,
\* even one from before revisions were kept.
UpgradeIsSafe == StoredAsRead /\ ~overlooked
=============================================================================
