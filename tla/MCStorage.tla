------------------------------ MODULE MCStorage ------------------------------
(***************************************************************************)
(* Instances of the components that keep data, for TLC: the secret vault,  *)
(* the draft command log, the row locks, the orders foreign keys impose    *)
(* (of a publication and of the schema) and reads through a draft.  They   *)
(* share no state, so a behaviour is one of a single component, `part`;    *)
(* the others stay as they began.                                          *)
(***************************************************************************)
EXTENDS SecretVault, Naturals, TLC

CONSTANTS
    Row, Revisioned, MaxCommands, Keying,       \* of DraftLog
    Key, TableOf, Draft, Connection, MaxLoose,  \* of RowLocks
    RefRow, CodesOf, Refs, Table, Gone,         \* of ReferenceOrder
    Id, Value, Missing, MaxLimit                \* of BoundedRead

VARIABLES
    part,                                       \* the component that runs
    history, log, change, canon,                \* of DraftLog
    todo, wants, held, loose,                   \* of RowLocks
    original, final, recreated, references,     \* of ReferenceOrder
    base, delta                                 \* of BoundedRead

Log == INSTANCE DraftLog
RowLock == INSTANCE RowLocks WITH Backend <- Connection
Order == INSTANCE ReferenceOrder WITH Row <- RefRow
Read == INSTANCE BoundedRead WITH Absent <- Missing

ASSUME LogAssumption == Row \subseteq Nat /\ Revisioned \in BOOLEAN
ASSUME LocksAssumption == RowLock!RowsInOrder
ASSUME OrderAssumption == Order!RowsAndTables
ASSUME ReadAssumption == Read!RowsAndValues

logVars == <<history, log, change, canon>>
lockVars == <<todo, wants, held, loose>>
orderVars == <<original, final, recreated, references>>
readVars == <<base, delta>>
allVars == <<part, vaultVars, logVars, lockVars, orderVars, readVars>>

\* The values of constants a .cfg cannot write down: row 1 of the log is keyed by
\* all its commands and row 2 by none; two rows of one table and one of another;
\* a row that cannot change its code and two that can.
KeyedByRow == [r \in Row |-> {r = 1}]
TwoTables == <<1, 1, 2>>
Codes == <<{1}, {1, 2}, {2, 3}>>
Symmetry == Permutations(Connection)

Parts == {"vault", "log", "locks", "publication", "schema", "reads"}

StorageInit ==
    /\ part \in Parts
    /\ Init /\ Log!Init /\ RowLock!Init /\ Order!Init /\ Read!Init
    \* a component that does not run starts in one state
    /\ part # "vault" => classDefault = CHOOSE name \in Backend : TRUE
    /\ part # "log" => canon = [r \in Row |-> Log!Absent]
    /\ part # "publication" => original = [r \in RefRow |-> Gone]

VaultStep ==
    /\ part = "vault" /\ Next
    /\ UNCHANGED <<part, logVars, lockVars, orderVars, readVars>>
LogStep ==
    /\ part = "log" /\ Log!Next
    /\ UNCHANGED <<part, vaultVars, lockVars, orderVars, readVars>>
LockStep ==
    /\ part = "locks" /\ RowLock!Next
    /\ UNCHANGED <<part, vaultVars, logVars, orderVars, readVars>>
OrderStep ==
    /\ \/ part = "publication" /\ Order!Commands
       \/ part = "schema" /\ Order!Declarations
    /\ UNCHANGED <<part, vaultVars, logVars, lockVars, readVars>>
ReadStep ==
    /\ part = "reads" /\ Read!Next
    /\ UNCHANGED <<part, vaultVars, logVars, lockVars, orderVars>>

StorageNext == VaultStep \/ LogStep \/ LockStep \/ OrderStep \/ ReadStep
StorageSpec == StorageInit /\ [][StorageNext]_allVars

\* The compacted log materializes exactly what the whole history does, whenever
\* it was compacted, and drops a command only for a later one of its row.
CompactionIsFaithful == part = "log" =>
    Log!CompactedReplays /\ Log!CompactionIsIncremental /\ Log!DroppedForCause

\* Statements that lock rows, revisions and draft changes in order never wait for
\* each other in a circle, also while others keep no order.
NoWaitCycle == part = "locks" => RowLock!NoWaitCycle

\* Publication releases and acquires references in an order every check of the
\* database passes, if there is one; the schema creates tables likewise.
OrdersAreSafe ==
    /\ part = "publication" => Order!PublicationOrderIsSafe
    /\ part = "schema" => Order!SchemaOrderIsSafe

\* A read through a draft is the read of the table with the draft applied.
BoundedReadIsExact == part = "reads" => Read!BoundedReadIsExact
=============================================================================
