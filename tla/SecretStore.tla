----------------------------- MODULE SecretStore -----------------------------
(***************************************************************************)
(* What the secret vault promises its callers, in one step per operation:  *)
(* a reference is made once and for one secret; from then on it answers    *)
(* for that secret until it is removed, and never again after that.        *)
(***************************************************************************)
CONSTANTS Ref, Secret, None

VARIABLES
    secretOf,   \* the secret a reference was made for, or None
    live,       \* references that can be resolved
    answer      \* the last answer given: the reference, and what was said

store == <<secretOf, live, answer>>

Init ==
    /\ secretOf = [r \in Ref |-> None]
    /\ live = {}
    /\ answer = None

\* A reference that was never used is bound to a secret (which may be gone by
\* then: its provider has other users).
Add(r, s) ==
    /\ secretOf[r] = None
    /\ secretOf' = [secretOf EXCEPT ![r] = s]
    /\ live' \in {live, live \cup {r}}
    /\ UNCHANGED answer

\* A reference ends, by its owner's wish or because the secret is gone.
Remove(r) ==
    /\ live' = live \ {r}
    /\ UNCHANGED <<secretOf, answer>>

\* Somebody reads a secret, or asks whether it is there.
Resolve(r) ==
    /\ answer' \in IF r \in live THEN {<<r, secretOf[r]>>, <<r, "present">>} ELSE {<<r, "absent">>}
    /\ UNCHANGED <<secretOf, live>>

Next == \E r \in Ref : Resolve(r) \/ Remove(r) \/ \E s \in Secret : Add(r, s)

Spec == Init /\ [][Next]_store

=============================================================================
