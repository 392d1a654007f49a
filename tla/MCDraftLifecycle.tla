--------------------------- MODULE MCDraftLifecycle ---------------------------
(***************************************************************************)
(* Instances of DraftLifecycle for TLC: three calls on one draft, each one *)
(* of the operations its process may make.                                 *)
(***************************************************************************)
EXTENDS DraftLifecycle, TLC

CONSTANTS p1, p2, p3

Keyed(op, row, val) == [op |-> op, row |-> row, val |-> val, keyed |-> TRUE]
Ops == {"insert", "update", "delete"}

\* An append, a second append or a publication, and every way to end or move
\* the draft
RaceMenu == (p1 :> {"append"}) @@ (p2 :> {"append", "publish"})
         @@ (p3 :> {"publish", "discard", "rebase"})

\* An append and a second one, or a publication, beside a rebase or a discard
EndMenu == (p1 :> {"append"}) @@ (p2 :> {"append", "publish"}) @@ (p3 :> {"discard", "rebase"})

\* Batches of one command
Singles == [p \in Process |->
  {<<Keyed(o, r, IF p = p1 THEN 101 ELSE 102)>> : o \in Ops, r \in Row}]

\* Batches of two commands that cross each other's rows
Crossing == (p1 :> {<<Keyed("update", 1, 101), Keyed("update", 2, 101)>>,
                   <<Keyed("insert", 1, 101)>>})
         @@ (p2 :> {<<Keyed("update", 2, 102), Keyed("update", 1, 102)>>,
                   <<Keyed("delete", 1, 102)>>})
         @@ (p3 :> {})
=============================================================================
