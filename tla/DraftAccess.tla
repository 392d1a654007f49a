------------------------------ MODULE DraftAccess ------------------------------
(***************************************************************************)
(* Who may use a draft.  A draft belongs to the tenant and the owner it    *)
(* was opened for; every call is authorized against what is stored, and    *)
(* then acts in a transaction of its own, in the tenant it was authorized  *)
(* for.  Deployments change what the application configures in between,    *)
(* and drafts outlive them.                                                *)
(***************************************************************************)
EXTENDS Identity, Naturals

CONSTANTS
    Draft,       \* drafts
    Call,        \* calls under way at once
    MaxDeploys   \* bound: deployments after the first

VARIABLES
    config,      \* what the application configures
    deploys,     \* deployments since the first
    draft,       \* draft -> what is stored of it
    call,        \* call -> what it is authorized for
    reached      \* history: the last call of this deployment that acted on a draft

accessVars == <<config, deploys, draft, call, reached>>

\* tenancy (with resolveTenant), resolveOwner, authorizeGlobalDraft, authorizeDraft.
Configs == [tenancy : BOOLEAN, owners : BOOLEAN, globalHook : BOOLEAN, draftHook : BOOLEAN]

\* Who asks: a principal, and the tenant the host would resolve for the request,
\* as it spells it, if any.
Untenanted == "undefined"
Spellings == {"acme", "ACME", "zeta", Untenanted}
Canonical(spelling) == IF spelling = "ACME" THEN "acme" ELSE spelling
Callers == {[kind |-> k, id |-> "a"] : k \in {"user", "service", "robot"}}
           \cup {NoPrincipal}
Contexts == [principal : Callers, tenant : Spellings]

\* What the hooks of a host answer; that both answer alike leaves out refusals only.
Answers == {"true", "truthy", "false"}
HostAnswers == IF config.globalHook \/ config.draftHook THEN Answers ELSE {"false"}

-----------------------------------------------------------------------------
(* The owner and the tenant of a request, each as a set: empty if it throws. *)

NoOwner == <<>>

\* Seeded fault: the owner is the id of the principal.
DefaultOwner_ById(principal) ==
    IF principal = NoPrincipal THEN {NoOwner}
    ELSE IF IsPrincipal(principal) THEN {<<principal.id>>} ELSE {}

\* defaultOwnerKey
DefaultOwner(principal) ==
    IF principal = NoPrincipal THEN {NoOwner}
    ELSE IF IsPrincipal(principal) THEN {<<principal.kind, principal.id>>} ELSE {}

\* ownerKey: a host's resolver shares drafts among all who are somebody.
OwnerKey(ctx) ==
    IF ~config.owners THEN DefaultOwner(ctx.principal)
    ELSE IF ctx.principal = NoPrincipal THEN {NoOwner} ELSE {<<"team">>}

\* scopeTracked
ScopeTracked(ctx) ==
    IF ~config.tenancy THEN {Untenanted}
    ELSE IF ctx.tenant = Untenanted THEN {} ELSE {Canonical(ctx.tenant)}

\* globalDraftsArePrivileged, hasGlobalDraftAuthority
Privileged == config.tenancy \/ config.globalHook
GlobalAuthority(answer) == ~Privileged \/ (config.globalHook /\ answer = "true")

-----------------------------------------------------------------------------
Unused == [status |-> "unused", tenant |-> Untenanted, owner |-> NoOwner, by |-> NoPrincipal]
\* A draft opened before drafts had owners.
Legacy == [Unused EXCEPT !.status = "open"]
Idle == {}

Init ==
    /\ config \in Configs /\ deploys = 0
    /\ draft \in [Draft -> {Unused, Legacy}]
    /\ call = [c \in Call |-> Idle] /\ reached = {}

Deploy ==
    /\ deploys < MaxDeploys /\ deploys' = deploys + 1
    /\ config' \in Configs \ {config}
    /\ call' = [c \in Call |-> Idle] /\ reached' = {}
    /\ UNCHANGED draft

\* `open`.  `by` is history: the principal that opened the draft, if owners were
\* told apart by principal.
Open(d, ctx, answer) ==
    /\ draft[d].status = "unused"
    /\ \E owner \in OwnerKey(ctx) \ {NoOwner} :
       \E tenant \in IF GlobalAuthority(answer) THEN {Untenanted} ELSE ScopeTracked(ctx) \ {Untenanted} :
           draft' = [draft EXCEPT ![d] =
               [status |-> "open", tenant |-> tenant, owner |-> owner,
                by |-> IF config.owners THEN NoPrincipal ELSE ctx.principal]]
    /\ UNCHANGED <<config, deploys, call, reached>>

\* `requireStored` and `authorizeTracker`, of every call on a draft: in its tenant,
\* and as its owner or with the host's leave.
InItsTenant(d, ctx, answer) ==
    IF draft[d].tenant = Untenanted THEN GlobalAuthority(answer)
    ELSE draft[d].tenant \in ScopeTracked(ctx)

Authorize(c, d, ctx, answer) ==
    /\ call[c] = Idle /\ draft[d].status = "open"
    /\ InItsTenant(d, ctx, answer)
    /\ draft[d].owner # NoOwner
    /\ \E owner \in OwnerKey(ctx) :
           \/ owner # NoOwner /\ owner = draft[d].owner
           \/ config.draftHook /\ answer # "false"
    /\ call' = [call EXCEPT ![c] = {[draft |-> d, stored |-> draft[d], ctx |-> ctx, answer |-> answer]}]
    /\ UNCHANGED <<config, deploys, draft, reached>>

\* Its transaction: `requireStored` again, `assertAuthorizedSnapshot`, and
\* `scopeFromAuthorizedSnapshot`.  An append or a rebase keeps the draft, a
\* publication or a discard deletes it.
Act(c) ==
    \E k \in call[c] :
        /\ draft[k.draft].status = "open"
        /\ draft[k.draft].tenant = k.stored.tenant /\ draft[k.draft].owner = k.stored.owner
        /\ reached' = {[ctx |-> k.ctx, answer |-> k.answer, draft |-> draft[k.draft], in |-> k.stored.tenant]}
        /\ \/ UNCHANGED draft
           \/ draft' = [draft EXCEPT ![k.draft].status = "closed"]
        /\ call' = [call EXCEPT ![c] = Idle]
        /\ UNCHANGED <<config, deploys>>

\* The draft is gone by then, or the transaction fails.
Fails(c) ==
    /\ call[c] # Idle /\ call' = [call EXCEPT ![c] = Idle]
    /\ UNCHANGED <<config, deploys, draft, reached>>

Next ==
    \/ Deploy
    \/ \E d \in Draft, ctx \in Contexts, answer \in HostAnswers :
           Open(d, ctx, answer) \/ \E c \in Call : Authorize(c, d, ctx, answer)
    \/ \E c \in Call : Act(c) \/ Fails(c)

Spec == Init /\ [][Next]_accessVars

-----------------------------------------------------------------------------
\* Whatever was deployed since a draft was opened: a call reaches it only in its
\* tenant, or, for a draft of no tenant, by the word of the host where tenants
\* are told apart; only as the principal that opened it, unless the host resolves
\* owners or gave leave; and never if nobody is known to own it.
DraftsKeptApart ==
    \A r \in reached :
        /\ r.draft.owner # NoOwner
        /\ r.draft.tenant # Untenanted => Canonical(r.ctx.tenant) = r.draft.tenant /\ r.in = r.draft.tenant
        /\ r.draft.tenant = Untenanted /\ config.tenancy => config.globalHook /\ r.answer = "true"
        /\ \/ r.ctx.principal = r.draft.by
           \/ r.draft.by = NoPrincipal /\ config.owners
           \/ config.draftHook /\ r.answer # "false"
=============================================================================
