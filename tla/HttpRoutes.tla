----------------------------- MODULE HttpRoutes -----------------------------
(***************************************************************************)
(* One HTTP request, from the route that receives it through the host's    *)
(* resolveContext and the procedure's middleware to the status it is       *)
(* answered with.  Each action is the code up to the next await; what a    *)
(* step consults (the deployment's options, the key endpoint, the body,    *)
(* the next stage of the procedure) is chosen when it is consulted.        *)
(***************************************************************************)
EXTENDS Identity, Naturals, Sequences

CONSTANTS
    Leaf,       \* permissions: functions from a principal's id to what check() does
    MaxStages   \* bound: stages of a procedure

ASSUME LeafAssumption ==
    /\ Leaf \subseteq [{"a", "b"} -> {"true", "truthy", "false", "throws"}]
    /\ MaxStages \in Nat

VARIABLES
    at,         \* the step that runs next, or "answered"
    request,    \* its method, the function named, the header of its kind, the host's resolveContext
    context,    \* the principal of the context, and the one its `can` judges
    stages,     \* how many stages of the procedure have run
    vetted,     \* history: what authorize() let pass, permission and principal
    claim,      \* history: what the credential deserved, and what it got
    threw,      \* history: the host's code outside the procedure that threw of itself
    ran,        \* history: the handler ran
    answer      \* the status, 0 before

httpVars == <<at, request, context, stages, vetted, claim, threw, ran, answer>>

Method == {"GET", "POST"}
Function == {"query", "mutation", "action", "unknown"}
KindHeader == {"absent", "action", "other"}
\* No resolveContext; one that throws on a null session; one that goes on without
\* a principal.
Host == {"open", "strict", "anonymous"}

Nobody == [principal |-> NoPrincipal, can |-> NoPrincipal]
As(p) == [principal |-> p, can |-> p]
User == [kind |-> "user", id |-> "a"]

RequestInit ==
    /\ at = "route" /\ stages = 0 /\ ran = FALSE /\ answer = 0
    /\ request \in [method : Method, fn : Function, kind : KindHeader, host : Host]
    /\ context = Nobody /\ vetted = {} /\ threw = "nobody"
    /\ claim = [deserved |-> FALSE, outage |-> FALSE, got |-> "nothing"]

Answer(status) == at' = "answered" /\ answer' = status

\* The statuses of what application code throws inside app.call: a ValidationError,
\* an AuthenticationRequiredError, a PermissionDeniedError, anything else.
Thrown == {400, 401, 403, 500}

\* Query over GET, mutation and action over POST, an action only when asked for.
Allowed(r) ==
    IF r.method = "GET" THEN r.fn = "query"
    ELSE r.fn \in {"mutation", "action"} /\ (r.fn = "action" <=> r.kind = "action")

\* What the web client sends for a reference of each kind.
ClientRequest(fn) ==
    [method |-> IF fn = "query" THEN "GET" ELSE "POST", kind |-> IF fn = "action" THEN "action" ELSE "absent"]

Route ==
    /\ at = "route"
    /\ CASE request.fn = "unknown" -> Answer(404)
         [] request.fn # "unknown" /\ ~Allowed(request) -> Answer(405)
         [] OTHER -> at' = "resolve" /\ UNCHANGED answer
    /\ UNCHANGED <<request, context, stages, vetted, claim, threw, ran>>

-----------------------------------------------------------------------------
\* The verifiers a deployment can start with, with the options each came from.
Deployed == UNION {{o} \X Construct(o) : o \in Options}

\* WorkOS compares issuers as typed, but for blanks around them: with a slash too
\* many the deployment is for an issuer that signs no token.
Misspelt(o) == o.vendor = "workos" /\ o.issuer.tail = "slash"

\* Reference: the tokens a deployment has to accept, and no other.  They are our
\* own session tokens, minted for us or, with Clerk, for no origin in particular.
Deserving(o) ==
    {t \in Tokens : /\ ~Misspelt(o) /\ [t EXCEPT !.azp = "absent"] = Genuine
                    /\ o.vendor = "clerk" => t.azp \in {"absent", Us}}

Presented == {NoToken} \cup {<<t>> : t \in Tokens}
Headers == NoBearer \cup {Bearer(t) : t \in Presented}
Queries == {NoToken, <<Genuine>>}

\* What resolveContext does with a session, with none, and with an outage; and
\* whatever the verdict on the credential, it may fail of itself (a defect, a
\* database that is down, another provider's outage).  The route tells an outage
\* from the rest, and nothing else.
Resolves(verdict) ==
    \/ verdict = Session /\ context' = As(User) /\ at' = "body" /\ UNCHANGED <<answer, threw>>
    \/ verdict = Unavailable /\ Answer(503) /\ UNCHANGED <<context, threw>>
    \/ verdict = Rejected /\ request.host = "anonymous" /\ at' = "body" /\ UNCHANGED <<answer, context, threw>>
    \/ verdict = Rejected /\ request.host # "anonymous" /\ Answer(401) /\ UNCHANGED <<context, threw>>
    \/ /\ verdict # Unavailable
       /\ \E status \in {401, 503} : Answer(status)
       /\ threw' = "host" /\ UNCHANGED context

Resolve ==
    /\ at = "resolve"
    /\ \/ /\ request.host = "open"
          /\ at' = "body" /\ UNCHANGED <<context, claim, threw, answer>>
       \/ /\ request.host # "open"
          /\ \E d \in Deployed, header \in Headers, query \in Queries, allowQuery \in BOOLEAN,
                endpoint \in Endpoint :
               LET verdict == GetSession(d[2], header, query, allowQuery, endpoint)
                   token   == IF header \in NoBearer THEN query ELSE header[2]
               IN  /\ claim' = [deserved |-> token \in {<<t>> : t \in Deserving(d[1])},
                                outage |-> endpoint # "serves", got |-> verdict]
                   /\ header \in NoBearer /\ query # NoToken => allowQuery
                   /\ Resolves(verdict)
    /\ UNCHANGED <<request, stages, vetted, ran>>

\* The arguments: JSON in the query string or the body, {} when there is none.
ReadArgs ==
    /\ at = "body"
    /\ \/ at' = "scope" /\ UNCHANGED answer
       \/ Answer(400)
    /\ UNCHANGED <<request, context, stages, vetted, claim, threw, ran>>

\* app.call: a tenant is resolved where the host has tenants, by code of the host
\* which may throw what it likes, and then the context gets its `can`.
Scope ==
    /\ at = "scope"
    /\ \/ /\ at' = "stage" /\ UNCHANGED <<answer, threw>>
          /\ context' = [context EXCEPT !.can = context.principal]
       \/ /\ \E status \in Thrown : Answer(status)
          /\ threw' = "tenant" /\ UNCHANGED context
    /\ UNCHANGED <<request, stages, vetted, claim, ran>>

-----------------------------------------------------------------------------
(* Permissions.  A check answers true, false, something merely truthy, or   *)
(* throws.                                                                  *)

Permission == [op : {"allOf", "anyOf"}, of : {<<l>> : l \in Leaf} \cup {<<k, l>> : k, l \in Leaf}]

\* The combinators stop at the first check that decides.
Check(permission, id) ==
    LET stops == IF permission.op = "allOf" THEN {"false", "truthy", "throws"} ELSE {"true", "throws"}
        where == {i \in 1..Len(permission.of) : permission.of[i][id] \in stops}
        first == permission.of[CHOOSE i \in where : \A j \in where : i <= j][id]
    IN  IF where = {} THEN IF permission.op = "allOf" THEN "true" ELSE "false"
        ELSE IF first = "throws" THEN "throws"
        ELSE IF permission.op = "allOf" THEN "false" ELSE "true"

Evaluate(p, permission) == IF IsPrincipal(p) THEN Check(permission, p.id) ELSE "false"

\* A stage's patch makes a new context, whose `can` is bound to it.
Patched(c, p) == [principal |-> p, can |-> p]

Ends(status) == Answer(status) /\ UNCHANGED <<context, vetted>>
Goes(p) == context' = Patched(context, p) /\ UNCHANGED <<at, answer>>

RequireAuth ==
    IF IsPrincipal(context.principal) THEN Goes(context.principal) /\ UNCHANGED vetted ELSE Ends(401)

Authorize(permission) ==
    LET verdict == Evaluate(context.principal, permission)
    IN  CASE verdict = "true" -> /\ Goes(context.principal)
                                 /\ vetted' = vetted \cup {<<permission, context.principal>>}
          [] verdict = "throws" -> Ends(500)
          [] OTHER -> Ends(403)

\* A stage of the application: it may set another principal, throw what it likes, or return
\* something that is not the value of next().
OwnStage == \/ \E p \in Principals \cup {NoPrincipal} : p.kind # "robot" /\ Goes(p) /\ UNCHANGED vetted
            \/ \E status \in Thrown : Ends(status)

Stage ==
    /\ at = "stage" /\ stages < MaxStages
    /\ stages' = stages + 1
    /\ RequireAuth \/ OwnStage \/ \E permission \in Permission : Authorize(permission)
    /\ UNCHANGED <<request, claim, threw, ran>>

-----------------------------------------------------------------------------
(* Arguments.                                                               *)

Column == [type : {"text", "jsonb"}, array : BOOLEAN, nullable : BOOLEAN, optional : BOOLEAN, default : BOOLEAN]
Argument == {"undefined", "null", "scalar", "wrong", "array"}

Accepts(col, arg) ==
    \/ col.type = "jsonb" /\ ~col.array
    \/ arg = "undefined" /\ (col.optional \/ col.default)
    \/ arg = "null" /\ col.nullable
    \/ arg = (IF col.array THEN "array" ELSE "scalar")

Validate ==
    /\ at = "stage"
    /\ \E col \in Column, arg \in Argument :
         IF Accepts(col, arg) THEN at' = "handler" /\ UNCHANGED answer ELSE Answer(400)
    /\ UNCHANGED <<request, context, stages, vetted, claim, threw, ran>>

\* The handler returns, throws, or finds for itself that the caller may not.
Handle ==
    /\ at = "handler"
    /\ ran' = TRUE
    /\ \E status \in {200} \cup Thrown : Answer(status)
    /\ UNCHANGED <<request, context, stages, vetted, claim, threw>>

RequestNext == Route \/ Resolve \/ ReadArgs \/ Scope \/ Stage \/ Validate \/ Handle
RequestSpec == RequestInit /\ [][RequestNext]_httpVars

-----------------------------------------------------------------------------
\* A verdict is about the token: an outage never rejects one, a session is given
\* for our own session tokens only, and every one of them gets its session as long
\* as the keys can be had, whatever blanks and whatever slash after Clerk's issuer
\* were typed (a slash after WorkOS' makes a deployment that accepts no token).
VerdictIsAboutTheToken ==
    CASE claim.got = Session     -> claim.deserved
      [] claim.got = Rejected    -> ~claim.deserved
      [] claim.got = Unavailable -> claim.outage
      [] OTHER -> TRUE

\* A handler runs for a function its request may name, for a principal every
\* permission of the procedure was asked about (and said true, nothing weaker),
\* with a `can` that judges the principal it was given.
Permits(vet) == IsPrincipal(vet[2]) /\
    LET granted == {l \in Leaf : l[vet[2].id] = "true"}
        of      == {vet[1].of[i] : i \in 1..Len(vet[1].of)}
    IN  IF vet[1].op = "allOf" THEN of \subseteq granted ELSE of \cap granted # {}
RunsWithRight == ran =>
    /\ request.fn = IF request.method = "GET" THEN "query" ELSE IF request.kind = "action" THEN "action" ELSE "mutation"
    /\ request.host = "strict" => claim.deserved
    /\ \A vet \in vetted : Permits(vet)
    /\ context.can = context.principal

\* The status tells the caller what to do about it.  404, 405 and 503 had no effect;
\* the web client never meets 405; the provider's outage is answered 503, never as a
\* refusal; and a caller whose token deserves a session is refused (401, 403) only by
\* application code: a resolveContext or resolveTenant that threw, the procedure, or
\* the handler.  What resolveContext throws of itself is answered like a refusal.
StatusIsJust ==
    /\ answer \in {404, 405, 503} => ~ran
    /\ answer = 405 => [method |-> request.method, kind |-> request.kind] # ClientRequest(request.fn)
    /\ claim.got = Unavailable => answer = 503
    /\ answer = 503 => claim.got = Unavailable \/ threw = "host"
    /\ answer = 401 /\ claim.deserved => threw # "nobody" \/ stages > 0 \/ ran
    /\ answer = 403 => threw = "tenant" \/ stages > 0 \/ ran

AnswersAreJust == VerdictIsAboutTheToken /\ RunsWithRight /\ StatusIsJust
=============================================================================
