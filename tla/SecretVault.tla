----------------------------- MODULE SecretVault -----------------------------
(***************************************************************************)
(* The secret vault: `store`, `withSecret`, `has` and `delete` over two    *)
(* stores that fail apart, the backend that holds the secret and the       *)
(* mapping that says where.  Each await of the code is a step here, so     *)
(* calls interleave, and every call to either store may fail, before or    *)
(* after it took effect.  The backend modelled is the 1Password adapter,   *)
(* whose items can also be changed from outside.                           *)
(*                                                                         *)
(* A secret is named by the item that holds it.                            *)
(***************************************************************************)
EXTENDS FiniteSets

CONSTANTS
    Ref,        \* references `makeSecretRef` may mint
    Item,       \* items the backends may create
    Backend,    \* names backends are registered under
    Caller,     \* concurrent calls of the vault
    None

\* Where a secret is: the backend's name and the item in it.
Record(name, i) == [backend |-> name, item |-> i]
Records == [backend : Backend, item : Item]

ASSUME VaultAssumption == Backend # {} /\ None \notin Backend \cup Item \cup Ref \cup Records

VARIABLES
    mapping,        \* ref -> where its secret is, or None
    item,           \* item -> "unused", "stored", "foreign" (its owner tag is gone), "gone"
    place,          \* item -> name of the backend it was created in, or None
    classDefault,   \* the backend new secrets of a class go to
    at,             \* caller -> the await its call is at
    named,          \* caller -> the reference its call is about, or None
    found,          \* caller -> the record it works on, or None
    handed,         \* references `store` returned
    minted,         \* ref -> history: the item it was made for, or None
    excused,        \* history: items no code could have cleaned up
    answer          \* the last answer of `withSecret` or `has`

callVars == <<at, named, found>>
vaultVars == <<mapping, item, place, classDefault, callVars, handed, minted, excused, answer>>

Init ==
    /\ mapping = [r \in Ref |-> None]
    /\ item = [i \in Item |-> "unused"] /\ place = [i \in Item |-> None]
    /\ classDefault \in Backend
    /\ at = [p \in Caller |-> "idle"] /\ named = [p \in Caller |-> None]
    /\ found = [p \in Caller |-> None]
    /\ handed = {} /\ minted = [r \in Ref |-> None] /\ excused = {} /\ answer = None

\* The call of p returns or throws.
Ends(p) ==
    /\ at' = [at EXCEPT ![p] = "idle"]
    /\ named' = [named EXCEPT ![p] = None]
    /\ found' = [found EXCEPT ![p] = None]

Continues(p, next) == at' = [at EXCEPT ![p] = next] /\ UNCHANGED <<named, found>>

\* The item a record leads to, seen through the backend it names.
Holds(rec) == IF place[rec.item] = rec.backend THEN item[rec.item] ELSE "gone"

-----------------------------------------------------------------------------
(* store                                                                   *)

\* `getForClass`: the class's default, chosen once, before the first await.
StoreStart(p) ==
    /\ at[p] = "idle"
    /\ at' = [at EXCEPT ![p] = "create"]
    /\ \E i \in Item :
           /\ item[i] = "unused" /\ i \notin {found[q].item : q \in {x \in Caller : found[x] # None}}
           /\ found' = [found EXCEPT ![p] = Record(classDefault, i)]
    /\ UNCHANGED <<mapping, item, place, classDefault, named, handed, minted, excused, answer>>

\* The provider creates the item, or fails; its answer may be lost, and then
\* nobody but the provider knows the item.
BackendStores(p) ==
    /\ at[p] = "create"
    /\ LET i == found[p].item
           created == /\ item' = [item EXCEPT ![i] = "stored"]
                      /\ place' = [place EXCEPT ![i] = found[p].backend]
       IN  \/ created /\ Continues(p, "bind") /\ UNCHANGED excused
           \/ created /\ Ends(p) /\ excused' = excused \cup {i}
           \/ Ends(p) /\ UNCHANGED <<item, place, excused>>
    /\ UNCHANGED <<mapping, classDefault, handed, minted, answer>>

BindsTo(r, rec) ==
    /\ mapping' = [mapping EXCEPT ![r] = rec]
    /\ minted' = [minted EXCEPT ![r] = rec.item]

\* Seeded fault: a failed `mapping.set` is not rolled back.
BindNoRollback(p) ==
    /\ at[p] = "bind"
    /\ \E r \in Ref :
           /\ minted[r] = None
           /\ \/ BindsTo(r, found[p]) /\ handed' = handed \cup {r}
              \/ UNCHANGED <<mapping, minted, handed>>
    /\ Ends(p)
    /\ UNCHANGED <<item, place, classDefault, excused, answer>>

\* A fresh reference is bound and returned, or `mapping.set` throws, after
\* which the binding may be there all the same.
Bind(p) ==
    /\ at[p] = "bind"
    /\ \E r \in Ref :
           /\ minted[r] = None
           /\ \/ BindsTo(r, found[p]) /\ handed' = handed \cup {r} /\ Ends(p)
              \/ BindsTo(r, found[p]) /\ UNCHANGED handed /\ Continues(p, "rollback")
              \/ UNCHANGED <<mapping, minted, handed>> /\ Continues(p, "rollback")
    /\ UNCHANGED <<item, place, classDefault, excused, answer>>

\* Best effort: what the backend throws now is swallowed.
Rollback(p) ==
    /\ at[p] = "rollback"
    /\ LET i == found[p].item
       IN  \/ item' = [item EXCEPT ![i] = IF @ = "stored" THEN "gone" ELSE @] /\ UNCHANGED excused
           \/ excused' = excused \cup {i} /\ UNCHANGED item
    /\ Ends(p)
    /\ UNCHANGED <<mapping, place, classDefault, handed, minted, answer>>

-----------------------------------------------------------------------------
(* withSecret, has, delete                                                 *)

\* Seeded fault: read-time routing asks the registry's current policy.
RouteByPolicy(rec) == Record(classDefault, rec.item)

\* `getByName`: the backend recorded when the secret was stored.
Route(rec) == rec

\* `mapping.get`: no record ends the call, and `has` and `withSecret` say so.
LookUp(p, r, op) ==
    /\ at[p] = "idle" /\ r \in handed
    /\ IF mapping[r] = None
       THEN /\ answer' = IF op = "delete" THEN answer ELSE <<r, "absent">>
            /\ UNCHANGED callVars
       ELSE /\ at' = [at EXCEPT ![p] = op] /\ named' = [named EXCEPT ![p] = r]
            /\ found' = [found EXCEPT ![p] = Route(mapping[r])] /\ UNCHANGED answer
    /\ UNCHANGED <<mapping, item, place, classDefault, handed, minted, excused>>

\* The item is read, and its owner tag checked; or the provider fails.
ReadItem(p) ==
    /\ at[p] = "read"
    /\ \/ Holds(found[p]) = "stored" /\ answer' = <<named[p], found[p].item>>
       \/ Holds(found[p]) # "stored" /\ answer' = <<named[p], "absent">>
       \/ UNCHANGED answer
    /\ Ends(p)
    /\ UNCHANGED <<mapping, item, place, classDefault, handed, minted, excused>>

\* The items are listed: present means there, with the owner tag.
HasItem(p) ==
    /\ at[p] = "has"
    /\ \/ answer' = <<named[p], IF Holds(found[p]) = "stored" THEN "present" ELSE "absent">>
       \/ UNCHANGED answer
    /\ Ends(p)
    /\ UNCHANGED <<mapping, item, place, classDefault, handed, minted, excused>>

\* delete lists the items first: one that is not there is as good as deleted,
\* one that lost its tag is somebody else's.
DeleteFinds(p) ==
    /\ at[p] = "delete"
    /\ \/ Holds(found[p]) = "stored" /\ Continues(p, "remove")
       \/ Holds(found[p]) \in {"gone", "unused"} /\ Continues(p, "unbind")
       \/ Ends(p)
    /\ UNCHANGED <<mapping, item, place, classDefault, handed, minted, excused, answer>>

\* Then it deletes; an item deleted in between is an error of the provider.
RemoveItem(p) ==
    /\ at[p] = "remove"
    /\ LET i == found[p].item
       IN  \/ item[i] # "gone" /\ item' = [item EXCEPT ![i] = "gone"] /\ Continues(p, "unbind")
           \/ item' = [item EXCEPT ![i] = "gone"] /\ Ends(p)
           \/ Ends(p) /\ UNCHANGED item
    /\ UNCHANGED <<mapping, place, classDefault, handed, minted, excused, answer>>

Unbind(p) ==
    /\ at[p] = "unbind"
    /\ mapping' \in {mapping, [mapping EXCEPT ![named[p]] = None]}
    /\ Ends(p)
    /\ UNCHANGED <<item, place, classDefault, handed, minted, excused, answer>>

-----------------------------------------------------------------------------
(* The registry, the process, and the provider's other users.              *)

SetClassDefault(name) ==
    /\ classDefault' = name
    /\ UNCHANGED <<mapping, item, place, callVars, handed, minted, excused, answer>>

\* Calls are lost; both stores, and the references of the application, are not.
Crash ==
    /\ at' = [p \in Caller |-> "idle"] /\ named' = [p \in Caller |-> None]
    /\ found' = [p \in Caller |-> None]
    /\ excused' = excused \cup {found[p].item : p \in {q \in Caller : at[q] \in {"bind", "rollback"}}}
    /\ UNCHANGED <<mapping, item, place, classDefault, handed, minted, answer>>

Outside(i) ==
    /\ item[i] = "stored"
    /\ item' \in {[item EXCEPT ![i] = "gone"], [item EXCEPT ![i] = "foreign"]}
    /\ UNCHANGED <<mapping, place, classDefault, callVars, handed, minted, excused, answer>>

Next ==
    \/ \E p \in Caller :
           \/ StoreStart(p) \/ BackendStores(p) \/ Bind(p) \/ Rollback(p)
           \/ \E r \in Ref, op \in {"read", "has", "delete"} : LookUp(p, r, op)
           \/ ReadItem(p) \/ HasItem(p) \/ DeleteFinds(p) \/ RemoveItem(p) \/ Unbind(p)
    \/ \E name \in Backend : SetClassDefault(name)
    \/ Crash
    \/ \E i \in Item : Outside(i)

Spec == Init /\ [][Next]_vaultVars

-----------------------------------------------------------------------------
Places == {"idle", "create", "bind", "rollback", "read", "has", "delete", "remove", "unbind"}

\* Every variable holds a value of its type.
TypeOK ==
    /\ mapping \in [Ref -> Records \cup {None}]
    /\ item \in [Item -> {"unused", "stored", "foreign", "gone"}]
    /\ place \in [Item -> Backend \cup {None}] /\ classDefault \in Backend
    /\ at \in [Caller -> Places] /\ named \in [Caller -> Ref \cup {None}]
    /\ found \in [Caller -> Records \cup {None}]
    /\ handed \subseteq Ref /\ minted \in [Ref -> Item \cup {None}] /\ excused \subseteq Item
    /\ answer = None \/ answer \in Ref \X (Item \cup {"present", "absent"})

\* No secret is left in a backend where nobody can reach it to delete it: it is
\* bound to a reference, or a call that will bind it or delete it is under way.
\* (The exceptions are an answer of the provider that was lost, a rollback that
\* failed as well, and a crash between the two stores.)
NothingOrphaned ==
    \A i \in Item : item[i] = "stored" /\ i \notin excused =>
        \/ \E r \in Ref : mapping[r] # None /\ mapping[r] = Record(place[i], i)
        \/ \E p \in Caller : at[p] \in {"bind", "rollback"} /\ found[p].item = i

\* The vault keeps its promise, over both stores: a reference is live while its
\* record is there and leads to an item that is.
Live == {r \in Ref : mapping[r] # None /\ item[mapping[r].item] = "stored"}
Promise == INSTANCE SecretStore WITH Secret <- Item, secretOf <- minted, live <- Live
KeepsPromise == Promise!Spec

=============================================================================
