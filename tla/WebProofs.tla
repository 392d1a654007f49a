------------------------------- MODULE WebProofs -------------------------------
(***************************************************************************)
(* What holds of the page and its server, of every HTTP request and of the *)
(* Node entry point, for any number of screens, sockets, permissions,      *)
(* stages and mounts.                                                      *)
(***************************************************************************)
EXTENDS MCWeb, FiniteSetTheorems, SequenceTheorems, TLAPS

-----------------------------------------------------------------------------
(* The Node entry point *)

NodeTypes ==
    /\ listener \in {"binding", "listening", "failed", "closed"}
    /\ ready \in {"pending", "resolved", "rejected"}
    /\ socket \in [Socket -> {"none", "http", "webSocket", "gone"}]
    /\ closed \in BOOLEAN /\ ended \in BOOLEAN

\* The sockets `stop(true)` has to destroy are known, and a server that was closed
\* accepts no others.
NodeInv ==
    /\ NodeTypes /\ NodeServerStops
    /\ upgraded = {s \in Socket : socket[s] = "webSocket"}
    /\ closed => listener \in {"failed", "closed"}
    /\ ended => closed

LEMMA NodeBegins == NodeInit => NodeInv
  BY DEF NodeInit, NodeInv, NodeTypes, NodeServerStops

LEMMA NodeGoesOn == NodeInv /\ [NodeNext]_nodeVars => NodeInv'
<1> SUFFICES ASSUME NodeInv, [NodeNext]_nodeVars PROVE NodeInv'
  OBVIOUS
<1> USE DEF NodeInv, NodeTypes, NodeServerStops
<1>1. CASE Bound \/ BindFails
  BY <1>1 DEF Bound, BindFails, Settle
<1>2. ASSUME NEW s \in Socket, Accept(s) PROVE NodeInv'
  BY <1>2 DEF Accept
<1>3. ASSUME NEW s \in Socket, Upgrade(s) PROVE NodeInv'
  BY <1>3 DEF Upgrade
<1>4. ASSUME NEW s \in Socket, SocketCloses(s) PROVE NodeInv'
  BY <1>4 DEF SocketCloses
<1>5. ASSUME Stop(TRUE) PROVE NodeInv'
  <2>1. /\ ready' = (IF ready = "pending" THEN "rejected" ELSE ready)
        /\ socket' = [s \in Socket |-> IF Destroyed(s) THEN "gone" ELSE socket[s]]
        /\ upgraded' = {} /\ closed' = TRUE /\ ended' = TRUE
        /\ listener' = (IF ~closed /\ listener \in {"binding", "listening"} THEN "closed" ELSE listener)
    BY <1>5 DEF Stop, Settle
  <2>2. ASSUME NEW s \in Socket PROVE socket'[s] \in {"none", "gone"}
    BY <2>1 DEF Destroyed
  <2>3. QED
    BY <2>1, <2>2
<1>6. ASSUME Stop(FALSE) PROVE NodeInv'
  BY <1>6 DEF Stop, Settle
<1>7. CASE UNCHANGED nodeVars
  BY <1>7 DEF nodeVars
<1>8. QED
  BY <1>1, <1>2, <1>3, <1>4, <1>5, <1>6, <1>7 DEF NodeNext

-----------------------------------------------------------------------------
(* What a verifier makes of a token *)

\* A verifier for our own client and issuer, Clerk's for our origin too.  Every one a
\* deployment can start with is such, however its options were typed, unless it
\* compares with a misspelt issuer.
Fitting(v) ==
    /\ v.issuer = Text(Us, "") /\ v.url.client = Us
    /\ v.vendor = "clerk" => v.parties = {Text(Us, "")}

LEMMA TheOnly == \A s, u : s.url = <<u>> => s.url[1] = u
  OBVIOUS

LEMMA TextFacts ==
    /\ Trim(Text(Us, "")) = Text(Us, "") /\ NormalizeIssuer(Text(Us, "")) = Text(Us, "")
    /\ Trim(Text(Us, "blank")) = Text(Us, "")
    /\ Trim(Text(Us, "slash")) = Text(Us, "slash") /\ NormalizeIssuer(Text(Us, "slash")) = Text(Us, "")
    /\ Blank(Text("", "blank"))
<1> DEFINE Texts == [name : {Us}, tail : {"", "blank", "slash"}]
<1>1. \A n, x : Text(n, x).name = n /\ Text(n, x).tail = x
  BY DEF Text
<1>2. \A x \in {"", "blank", "slash"} : Text(Us, x) \in Texts
  BY DEF Text
<1>3. \A t \in Texts : /\ [t EXCEPT !.tail = ""] \in Texts
                       /\ [t EXCEPT !.tail = ""].tail = ""
  OBVIOUS
<1>4. \A t, u \in Texts : t.tail = u.tail => t = u
  <2>1. ASSUME NEW A, NEW B, NEW t \in [name : A, tail : B], NEW u \in [name : A, tail : B],
               t.name = u.name, t.tail = u.tail
        PROVE  t = u
    BY <2>1
  <2>2. \A t \in Texts : t.name = Us
    OBVIOUS
  <2>3. QED
    BY <2>1, <2>2
<1> HIDE DEF Texts
<1>5. \A t \in Texts : [t EXCEPT !.tail = ""] = Text(Us, "")
  <2>1. Text(Us, "") \in Texts /\ Text(Us, "").tail = ""
    BY <1>1, <1>2
  <2>2. ASSUME NEW t \in Texts PROVE [t EXCEPT !.tail = ""] = Text(Us, "")
    <3> DEFINE u == [t EXCEPT !.tail = ""]
    <3>1. u \in Texts /\ u.tail = ""
      BY <1>3
    <3> HIDE DEF u
    <3>2. u = Text(Us, "")
      BY <1>4, <2>1, <3>1
    <3>3. QED
      BY <3>2 DEF u
  <2>3. QED
    BY <2>2
<1>6. QED
  BY <1>1, <1>2, <1>5 DEF Trim, NormalizeIssuer, Blank

LEMMA WorkOSFits ==
    ASSUME NEW o \in Options, o.issuer.tail # "slash", NEW v \in WorkOSProvider(o)
    PROVE  v.vendor = "workos" /\ Fitting(v)
<1> DEFINE url == IF o.url = <<>> THEN Url("https", "vendor", Trim(o.clientId).name) ELSE o.url[1]
<1>1. /\ o.clientId \in Typed \ {Text(Us, "slash")} /\ o.issuer \in Typed
  BY DEF Options
<1>2. /\ ~Blank(o.clientId) /\ ~Blank(o.issuer)
      /\ o.url # <<>> => NamesClient(url, Trim(o.clientId))
      /\ v = Verifier("workos", Trim(o.issuer), url, {})
  BY DEF WorkOSProvider
<1>3. o.clientId \in {Text(Us, ""), Text(Us, "blank")} /\ o.issuer \in {Text(Us, ""), Text(Us, "blank")}
  <2>1. o.issuer # Text(Us, "slash")
    BY DEF Text
  <2>2. o.issuer # Text("", "blank") /\ o.clientId # Text("", "blank")
    BY <1>2, TextFacts
  <2>3. QED
    BY <1>1, <2>1, <2>2 DEF Typed
<1>4. Text(Us, "").name = Us
  BY DEF Text
<1>5. Trim(o.clientId).name = Us /\ Trim(o.issuer) = Text(Us, "")
  BY <1>3, <1>4, TextFacts
<1>6. url.client = Us
  <2>1. CASE o.url = <<>>
    BY <2>1, <1>5 DEF Url
  <2>2. CASE o.url # <<>>
    BY <2>2, <1>2, <1>5 DEF NamesClient
  <2>3. QED
    BY <2>1, <2>2
<1>7. QED
  BY <1>2, <1>5, <1>6 DEF Verifier, Fitting

LEMMA ClerkFits ==
    ASSUME NEW o \in Options, NEW v \in ClerkProvider(o)
    PROVE  v.vendor = "clerk" /\ Fitting(v)
<1> DEFINE url == IF o.url = <<>> THEN Url("https", "vendor", Us) ELSE [o.url[1] EXCEPT !.client = Us]
<1>1. /\ o.issuer \in Typed /\ o.parties \subseteq {Text(Us, "blank"), Text("", "blank")}
      /\ o.url \in Overrides
  BY DEF Options
<1>2. /\ ~Blank(o.issuer) /\ o.parties # {} /\ \A p \in o.parties : ~Blank(p)
      /\ v = Verifier("clerk", NormalizeIssuer(Trim(o.issuer)), url, {Trim(p) : p \in o.parties})
  BY DEF ClerkProvider
<1>3. o.issuer \in {Text(Us, ""), Text(Us, "blank"), Text(Us, "slash")}
  BY <1>1, <1>2, TextFacts DEF Typed
<1>4. NormalizeIssuer(Trim(o.issuer)) = Text(Us, "")
  BY <1>3, TextFacts
<1>5. o.parties = {Text(Us, "blank")}
  BY <1>1, <1>2, TextFacts
<1>6. {Trim(p) : p \in o.parties} = {Text(Us, "")}
  BY <1>5, TextFacts
<1>7. url.client = Us
  <2>1. CASE o.url = <<>>
    BY <2>1 DEF Url
  <2>2. CASE o.url # <<>>
    <3>1. PICK u \in {Url("https", "vendor", Us), Url("http", "loopback", Us), Url("http", "remote", Us),
                     Url("https", "vendor", Them), Url("", "", Us)} : o.url = <<u>>
      BY <1>1, <2>2 DEF Overrides
    <3>2. o.url[1] = u
      BY <3>1, TheOnly
    <3>3. [u EXCEPT !.client = Us].client = Us
      BY <3>1 DEF Url
    <3>4. QED
      BY <2>2, <3>2, <3>3
  <2>3. QED
    BY <2>1, <2>2
<1>8. QED
  BY <1>2, <1>4, <1>6, <1>7 DEF Verifier, Fitting

LEMMA MisspeltFits ==
    ASSUME NEW o \in Options, Misspelt(o), NEW v \in WorkOSProvider(o)
    PROVE  v.vendor = "workos" /\ v.issuer = Text(Us, "slash")
<1>1. o.issuer \in Typed /\ o.issuer.tail = "slash"
  BY DEF Options, Misspelt
<1>2. o.issuer = Text(Us, "slash")
  <2>1. Text("", "blank").tail = "blank" /\ Text(Us, "").tail = "" /\ Text(Us, "blank").tail = "blank"
    BY DEF Text
  <2>2. /\ o.issuer # Text("", "blank") /\ o.issuer # Text(Us, "") /\ o.issuer # Text(Us, "blank")
    BY <1>1, <2>1
  <2>3. QED
    BY <1>1, <2>2 DEF Typed
<1>3. v.vendor = "workos" /\ v.issuer = Trim(o.issuer)
  BY DEF WorkOSProvider, Verifier
<1>4. QED
  BY <1>2, <1>3, TextFacts

LEMMA DeployedFit ==
    \A d \in Deployed : /\ d[2].vendor = d[1].vendor
                        /\ ~Misspelt(d[1]) => Fitting(d[2])
                        /\ Misspelt(d[1]) => d[2].issuer = Text(Us, "slash")
<1> SUFFICES ASSUME NEW d \in Deployed
             PROVE  /\ d[2].vendor = d[1].vendor
                    /\ ~Misspelt(d[1]) => Fitting(d[2])
                    /\ Misspelt(d[1]) => d[2].issuer = Text(Us, "slash")
  OBVIOUS
<1>1. PICK o \in Options : d \in {o} \X Construct(o)
  BY DEF Deployed
<1>2. d[1] = o /\ d[2] \in Construct(o) /\ o.vendor \in {"workos", "clerk"}
  BY <1>1 DEF Options, Vendor
<1>3. CASE o.vendor = "workos" /\ ~Misspelt(o)
  BY <1>2, <1>3, WorkOSFits DEF Construct, Misspelt
<1>4. CASE o.vendor = "clerk"
  BY <1>2, <1>4, ClerkFits DEF Construct, Misspelt
<1>5. CASE o.vendor = "workos" /\ Misspelt(o)
  BY <1>2, <1>5, MisspeltFits DEF Construct
<1>6. QED
  BY <1>2, <1>3, <1>4, <1>5

\* Fields of a token.
Fields ==
    [alg : {"RS256", "none"}, signer : {Us, Them}, issuer : {Text(Us, ""), Text(Them, "")},
     sub : {"string", "absent", "empty"}, sid : {"string", "absent", "empty", "number"},
     exp : {"future", "absent", "past", "beyond Date"}, azp : {"absent", Us, Them, "number"}]

LEMMA TokenFields == Genuine \in Fields /\ Tokens \subseteq Fields
<1>1. Genuine \in Fields
  BY DEF Genuine, Fields
<1>2. ASSUME NEW t \in Tokens PROVE t \in Fields
  <2> USE <1>1 DEF Fields
  <2>1. CASE t \in {Genuine, [Genuine EXCEPT !.azp = Us]}
    BY <2>1
  <2>2. CASE t \in {[Genuine EXCEPT !.alg = "none"], [Genuine EXCEPT !.signer = Them],
                    [Genuine EXCEPT !.issuer = Text(Them, "")]}
    BY <2>2
  <2>3. CASE t \in {[Genuine EXCEPT !.sub = c] : c \in {"absent", "empty"}}
    BY <2>3
  <2>4. CASE t \in {[Genuine EXCEPT !.sid = c] : c \in {"absent", "empty", "number"}}
    BY <2>4
  <2>5. CASE t \in {[Genuine EXCEPT !.exp = e] : e \in {"absent", "past", "beyond Date"}}
    BY <2>5
  <2>6. CASE t \in {[Genuine EXCEPT !.azp = a] : a \in {Them, "number"}}
    BY <2>6
  <2>7. QED
    BY <2>1, <2>2, <2>3, <2>4, <2>5, <2>6 DEF Tokens
<1>3. QED
  BY <1>1, <1>2

\* A session token of ours, of whatever origin.
OurOwn(t) ==
    /\ t.alg = "RS256" /\ t.signer = Us /\ t.issuer = Text(Us, "")
    /\ t.sub = "string" /\ t.sid = "string" /\ t.exp = "future"

LEMMA SameFields ==
    ASSUME NEW x \in Fields, NEW y \in Fields,
           x.alg = y.alg, x.signer = y.signer, x.issuer = y.issuer, x.sub = y.sub, x.sid = y.sid,
           x.exp = y.exp, x.azp = y.azp
    PROVE  x = y
<1>1. PICK A, B, C, D, E, F, G : Fields = [alg : A, signer : B, issuer : C, sub : D, sid : E, exp : F, azp : G]
  BY DEF Fields
<1>2. x \in [alg : A, signer : B, issuer : C, sub : D, sid : E, exp : F, azp : G]
  BY <1>1
<1>3. y \in [alg : A, signer : B, issuer : C, sub : D, sid : E, exp : F, azp : G]
  BY <1>1
<1>4. QED
  BY <1>2, <1>3

LEMMA OurOwnToken == \A t \in Fields : [t EXCEPT !.azp = "absent"] = Genuine <=> OurOwn(t)
<1> SUFFICES ASSUME NEW t \in Fields PROVE [t EXCEPT !.azp = "absent"] = Genuine <=> OurOwn(t)
  OBVIOUS
<1> DEFINE u == [t EXCEPT !.azp = "absent"]
<1>1. /\ u \in Fields /\ u.azp = "absent"
      /\ u.alg = t.alg /\ u.signer = t.signer /\ u.issuer = t.issuer
      /\ u.sub = t.sub /\ u.sid = t.sid /\ u.exp = t.exp
  BY DEF Fields
<1>2. /\ Genuine \in Fields /\ Genuine.azp = "absent"
      /\ Genuine.alg = "RS256" /\ Genuine.signer = Us /\ Genuine.issuer = Text(Us, "")
      /\ Genuine.sub = "string" /\ Genuine.sid = "string" /\ Genuine.exp = "future"
  BY TokenFields DEF Genuine
<1> HIDE DEF u
<1>3. u = Genuine <=> OurOwn(t)
  <2>1. ASSUME OurOwn(t) PROVE u = Genuine
    <3> DEFINE g == Genuine
    <3>1. /\ u.alg = g.alg /\ u.signer = g.signer /\ u.issuer = g.issuer
          /\ u.sub = g.sub /\ u.sid = g.sid /\ u.exp = g.exp /\ u.azp = g.azp
      BY <1>1, <1>2, <2>1 DEF OurOwn
    <3>2. u \in Fields /\ g \in Fields
      BY <1>1, <1>2
    <3> HIDE DEF g
    <3>3. u = g
      BY <3>1, <3>2, SameFields
    <3>4. QED
      BY <3>3 DEF g
  <2>2. QED
    BY <1>1, <1>2, <2>1 DEF OurOwn
<1>4. QED
  BY <1>3 DEF u

LEMMA OriginAllowed ==
    ASSUME NEW v, Fitting(v), NEW t \in Fields
    PROVE  PartyAllowed(v, t) <=> (v.vendor = "clerk" => t.azp \in {"absent", Us})
<1>1. \A name : Text(name, "") = Text(Us, "") <=> name = Us
  BY DEF Text
<1>2. QED
  BY <1>1 DEF PartyAllowed, Fitting

\* jose's errors, in the classes the verifier tells apart.
LEMMA ErrorClasses ==
    ASSUME NEW v, Fitting(v), NEW t \in Fields, NEW e \in Endpoint
    PROVE  LET error == JoseError(v, t, e) IN
           /\ IsOutage(error) => e # "serves" /\ t.alg = "RS256"
           /\ error = "none" => /\ e = "serves" /\ t.alg = "RS256" /\ t.signer = Us /\ t.issuer = Text(Us, "")
                                /\ t.exp \in {"future", "beyond Date"}
           /\ OurOwn(t) => error = "none" \/ IsOutage(error)
<1>1. e \in {"serves", "unreachable", "error", "malformed", "unsupported"}
  BY DEF Endpoint
<1>2. t.exp \in {"future", "absent", "past", "beyond Date"}
  BY DEF Fields
<1>3. v.url.client = Us /\ v.issuer = Text(Us, "")
  BY DEF Fitting
<1>4. CASE t.alg # "RS256"
  <2>1. JoseError(v, t, e) = "JOSEAlgNotAllowed"
    BY <1>4 DEF JoseError
  <2>2. QED
    BY <1>4, <2>1 DEF IsOutage, OurOwn
<1>5. CASE t.alg = "RS256" /\ e # "serves"
  <2>1. JoseError(v, t, e) \in {"fetch", "JOSEError", "JWKSInvalid", "JOSENotSupported"}
    BY <1>1, <1>5 DEF JoseError, KeyError
  <2>2. QED
    BY <1>5, <2>1 DEF IsOutage
<1>6. CASE t.alg = "RS256" /\ e = "serves"
  <2>1. CASE t.signer # v.url.client
    <3>1. JoseError(v, t, e) = "JWSSignatureVerificationFailed"
      BY <1>6, <2>1 DEF JoseError
    <3>2. QED
      BY <1>3, <2>1, <3>1 DEF IsOutage, OurOwn
  <2>2. CASE t.signer = v.url.client /\ (t.issuer # v.issuer \/ "absent" \in {t.sub, t.sid, t.exp})
    <3>1. JoseError(v, t, e) = "JWTClaimValidationFailed"
      BY <1>6, <2>2 DEF JoseError
    <3>2. QED
      BY <1>3, <2>2, <3>1 DEF IsOutage, OurOwn
  <2>3. CASE t.signer = v.url.client /\ ~(t.issuer # v.issuer \/ "absent" \in {t.sub, t.sid, t.exp})
    <3>1. JoseError(v, t, e) = IF t.exp = "past" THEN "JWTExpired" ELSE "none"
      BY <1>6, <2>3 DEF JoseError
    <3>2. QED
      BY <1>2, <1>3, <1>6, <2>3, <3>1 DEF IsOutage, OurOwn
  <2>4. QED
    BY <2>1, <2>2, <2>3
<1>7. QED
  BY <1>4, <1>5, <1>6

LEMMA VerifiedFor ==
    ASSUME NEW v, Fitting(v), NEW t \in Fields, NEW e \in Endpoint
    PROVE  /\ Verify(v, t, e) \in {Session, Rejected, Unavailable}
           /\ Verify(v, t, e) = Session => OurOwn(t) /\ PartyAllowed(v, t)
           /\ OurOwn(t) /\ PartyAllowed(v, t) => Verify(v, t, e) # Rejected
           /\ Verify(v, t, e) = Unavailable => e # "serves"
<1> DEFINE error == JoseError(v, t, e)
<1>1. /\ IsOutage(error) => e # "serves" /\ t.alg = "RS256"
      /\ error = "none" => /\ e = "serves" /\ t.alg = "RS256" /\ t.signer = Us /\ t.issuer = Text(Us, "")
                           /\ t.exp \in {"future", "beyond Date"}
      /\ OurOwn(t) => error = "none" \/ IsOutage(error)
  BY ErrorClasses
<1>2. Session # Rejected /\ Session # Unavailable /\ Rejected # Unavailable
  BY DEF Session, Rejected, Unavailable
<1>3. Verify(v, t, e) =
        IF IsOutage(error) THEN Unavailable
        ELSE IF /\ error = "none" /\ t.sub = "string" /\ t.sid = "string"
                /\ PartyAllowed(v, t) /\ t.exp # "beyond Date"
        THEN Session
        ELSE Rejected
  BY DEF Verify
<1> HIDE DEF error
<1>4. CASE IsOutage(error)
  BY <1>1, <1>2, <1>3, <1>4
<1>5. CASE ~IsOutage(error) /\ (error # "none" \/ t.sub # "string" \/ t.sid # "string"
                                \/ ~PartyAllowed(v, t) \/ t.exp = "beyond Date")
  <2>1. Verify(v, t, e) = Rejected
    BY <1>3, <1>5
  <2>2. QED
    BY <1>1, <1>2, <1>5, <2>1 DEF OurOwn
<1>6. CASE ~IsOutage(error) /\ error = "none" /\ t.sub = "string" /\ t.sid = "string"
           /\ PartyAllowed(v, t) /\ t.exp # "beyond Date"
  <2>1. Verify(v, t, e) = Session
    BY <1>3, <1>6
  <2>2. QED
    BY <1>1, <1>2, <1>6, <2>1 DEF OurOwn
<1>7. QED
  BY <1>4, <1>5, <1>6

\* The three verdicts are three.
LEMMA VerdictsDiffer ==
    /\ Session # Rejected /\ Session # Unavailable /\ Rejected # Unavailable
    /\ "nothing" \notin {Session, Rejected, Unavailable}
  BY DEF Session, Rejected, Unavailable

\* A verifier for a misspelt issuer gives no session.
LEMMA RefusedFor ==
    ASSUME NEW v, v.issuer = Text(Us, "slash"), NEW t \in Fields, NEW e \in Endpoint
    PROVE  /\ Verify(v, t, e) \in {Rejected, Unavailable}
           /\ Verify(v, t, e) = Unavailable => e # "serves"
<1> DEFINE error == JoseError(v, t, e)
<1>1. Text(Us, "slash") # Text(Us, "") /\ Text(Us, "slash") # Text(Them, "")
  BY DEF Text
<1>2. t.issuer # v.issuer
  BY <1>1 DEF Fields
<1>3. error # "none"
  BY <1>2 DEF JoseError, KeyError, Endpoint
<1>4. e = "serves" => ~IsOutage(error)
  BY <1>2 DEF JoseError, IsOutage
<1>5. Verify(v, t, e) = IF IsOutage(error) THEN Unavailable ELSE Rejected
  <2> HIDE DEF error
  <2>1. Verify(v, t, e) =
          IF IsOutage(error) THEN Unavailable
          ELSE IF /\ error = "none" /\ t.sub = "string" /\ t.sid = "string"
                  /\ PartyAllowed(v, t) /\ t.exp # "beyond Date"
          THEN Session
          ELSE Rejected
    BY DEF Verify, error
  <2>2. QED
    BY <1>3, <2>1
<1>6. QED
  BY <1>4, <1>5, VerdictsDiffer

-----------------------------------------------------------------------------
(* One request *)

\* What resolveContext's session provider says of a credential: never Rejected of a
\* token it has to accept, Unavailable in an outage only.
LEMMA SessionFor ==
    ASSUME NEW d \in Deployed, NEW header \in Headers, NEW query \in Queries, NEW allowQuery \in BOOLEAN,
           NEW e \in Endpoint, header \in NoBearer /\ query # NoToken => allowQuery,
           NEW deserved,
           deserved = ((IF header \in NoBearer THEN query ELSE header[2]) \in {<<t>> : t \in Deserving(d[1])})
    PROVE  LET verdict == GetSession(d[2], header, query, allowQuery, e) IN
           /\ verdict \in {Session, Rejected, Unavailable}
           /\ verdict = Session => deserved
           /\ verdict = Rejected => ~deserved
           /\ verdict = Unavailable => e # "serves"
<1> DEFINE credential == IF header \in NoBearer THEN query ELSE header[2]
<1>1. /\ d[2].vendor = d[1].vendor
      /\ ~Misspelt(d[1]) => Fitting(d[2])
      /\ Misspelt(d[1]) => d[2].issuer = Text(Us, "slash")
  BY DeployedFit
<1>2. credential \in Presented
  <2>1. CASE header \in NoBearer
    BY <2>1, TokenFields DEF Queries, Presented, Tokens
  <2>2. CASE header \notin NoBearer
    <3>1. PICK t \in Presented : header = Bearer(t)
      BY <2>2 DEF Headers
    <3>2. QED
      BY <2>2, <3>1 DEF Bearer
  <2>3. QED
    BY <2>1, <2>2
<1>3. Credential(header, query, allowQuery) = credential
  BY DEF Credential
<1>4. GetSession(d[2], header, query, allowQuery, e) =
        IF credential = NoToken THEN Rejected ELSE Verify(d[2], credential[1], e)
  BY <1>3 DEF GetSession
<1>5. deserved = (credential \in {<<t>> : t \in Deserving(d[1])})
  OBVIOUS
<1> HIDE DEF credential
<1>6. CASE credential = NoToken
  <2>1. \A t : <<t>> # <<>>
    OBVIOUS
  <2>2. ~deserved
    BY <1>5, <1>6, <2>1 DEF NoToken
  <2>3. QED
    BY <1>4, <1>6, <2>2 DEF Session, Rejected, Unavailable
<1>7. CASE credential # NoToken
  <2>1. PICK t \in Tokens : credential = <<t>>
    BY <1>2, <1>7 DEF Presented
  <2>2. t \in Fields /\ credential[1] = t
    BY <2>1, TokenFields
  <2>3. deserved <=> t \in Deserving(d[1])
    <3>1. \A u : <<u>> = <<t>> <=> u = t
      OBVIOUS
    <3>2. QED
      BY <1>5, <2>1, <3>1
  <2>4. GetSession(d[2], header, query, allowQuery, e) = Verify(d[2], t, e)
    BY <1>4, <1>7, <2>2
  <2>5. CASE Misspelt(d[1])
    <3>1. t \notin Deserving(d[1])
      BY <2>5 DEF Deserving
    <3>2. /\ Verify(d[2], t, e) \in {Rejected, Unavailable}
          /\ Verify(d[2], t, e) = Unavailable => e # "serves"
      BY <1>1, <2>2, <2>5, RefusedFor
    <3>3. QED
      BY <2>3, <2>4, <3>1, <3>2, VerdictsDiffer
  <2>6. CASE ~Misspelt(d[1])
    <3>1. t \in Deserving(d[1]) <=> OurOwn(t) /\ PartyAllowed(d[2], t)
      <4>1. t \in Deserving(d[1]) <=> /\ [t EXCEPT !.azp = "absent"] = Genuine
                                      /\ d[1].vendor = "clerk" => t.azp \in {"absent", Us}
        BY <2>1, <2>6 DEF Deserving
      <4>2. QED
        BY <1>1, <2>2, <2>6, <4>1, OurOwnToken, OriginAllowed
    <3>2. /\ Verify(d[2], t, e) \in {Session, Rejected, Unavailable}
          /\ Verify(d[2], t, e) = Session => OurOwn(t) /\ PartyAllowed(d[2], t)
          /\ OurOwn(t) /\ PartyAllowed(d[2], t) => Verify(d[2], t, e) # Rejected
          /\ Verify(d[2], t, e) = Unavailable => e # "serves"
      BY <1>1, <2>2, <2>6, VerifiedFor
    <3>3. QED
      BY <2>3, <2>4, <3>1, <3>2
  <2>7. QED
    BY <2>5, <2>6
<1>8. QED
  BY <1>6, <1>7

\* A permission that says true says it for a reason: nothing weaker than true stands
\* for it, in either combinator.
LEMMA CheckIsStrict ==
    ASSUME NEW permission \in Permission, NEW p, p.id \in {"a", "b"}, IsPrincipal(p),
           Check(permission, p.id) = "true"
    PROVE  Permits(<<permission, p>>)
<1> DEFINE decisive == IF permission.op = "allOf" THEN {"false", "truthy", "throws"} ELSE {"true", "throws"}
<1> DEFINE where == {i \in 1 .. Len(permission.of) : permission.of[i][p.id] \in decisive}
<1> DEFINE chosen == CHOOSE i \in where : \A j \in where : i <= j
<1> DEFINE granted == {l \in Leaf : l[p.id] = "true"}
<1> DEFINE of == {permission.of[i] : i \in 1 .. Len(permission.of)}
<1>1. /\ permission.op \in {"allOf", "anyOf"}
      /\ Len(permission.of) \in 1 .. 2
      /\ \A i \in 1 .. Len(permission.of) : permission.of[i] \in Leaf
  <2>1. permission.of \in {<<l>> : l \in Leaf} \cup {<<k, l>> : k, l \in Leaf}
    BY DEF Permission
  <2>2. CASE permission.of \in {<<l>> : l \in Leaf}
    BY <2>2 DEF Permission
  <2>3. CASE permission.of \in {<<k, l>> : k, l \in Leaf}
    BY <2>3 DEF Permission
  <2>4. QED
    BY <2>1, <2>2, <2>3
<1>2. \A l \in Leaf : l[p.id] \in {"true", "truthy", "false", "throws"}
  BY LeafAssumption
<1>3. Check(permission, p.id) =
        IF where = {} THEN IF permission.op = "allOf" THEN "true" ELSE "false"
        ELSE IF permission.of[chosen][p.id] = "throws" THEN "throws"
        ELSE IF permission.op = "allOf" THEN "false" ELSE "true"
  BY DEF Check
<1>4. Permits(<<permission, p>>) <=>
        IF permission.op = "allOf" THEN of \subseteq granted ELSE of \cap granted # {}
  BY DEF Permits
<1>5. CASE permission.op = "allOf"
  <2>1. where = {}
    BY <1>3, <1>5
  <2>2. \A i \in 1 .. Len(permission.of) : permission.of[i][p.id] = "true"
    BY <1>1, <1>2, <1>5, <2>1
  <2>3. QED
    BY <1>1, <1>4, <1>5, <2>2
<1>6. CASE permission.op = "anyOf"
  <2>1. where # {} /\ permission.of[chosen][p.id] # "throws"
    BY <1>3, <1>6
  <2>2. where \subseteq {1, 2}
    BY <1>1
  <2>3. \E i \in where : \A j \in where : i <= j
    <3> HIDE DEF where
    <3>1. PICK i \in where : i = 1 \/ 1 \notin where
      BY <2>1
    <3>2. \A j \in where : i <= j
      BY <2>2, <3>1
    <3>3. QED
      BY <3>2
  <2>4. chosen \in where
    BY <2>3
  <2> HIDE DEF chosen
  <2>5. chosen \in 1 .. Len(permission.of) /\ permission.of[chosen][p.id] = "true"
    BY <1>6, <2>1, <2>4
  <2>6. permission.of[chosen] \in of \cap granted
    BY <1>1, <2>5
  <2>7. QED
    BY <1>4, <1>6, <2>6
<1>7. QED
  BY <1>1, <1>5, <1>6

-----------------------------------------------------------------------------
(* The inductive invariant of a request, by how far it is. *)

Verdicts == {"nothing", Session, Rejected, Unavailable}
Subjects == [kind : {"user", "service", "robot", "undefined"}, id : {"", "a", "b"}]

HttpTypes ==
    /\ at \in {"route", "resolve", "body", "scope", "stage", "handler", "answered"}
    /\ request \in [method : Method, fn : Function, kind : KindHeader, host : Host]
    /\ context \in [principal : Subjects, can : Subjects]
    /\ claim.got \in Verdicts
    /\ stages \in Nat /\ ran \in BOOLEAN /\ answer \in Nat

\* What is past the route may be named by its request, and what is past the host's
\* context was let in by it.
Admitted ==
    at \notin {"route", "resolve", "answered"} \/ ran =>
        /\ claim.got # Unavailable
        /\ request.host = "strict" => claim.got = Session
Routed == at \notin {"route", "answered"} \/ ran => request.fn # "unknown" /\ Allowed(request)
Judged == at \in {"stage", "handler"} \/ ran => context.can = context.principal
Pending ==
    /\ at \in {"route", "resolve"} => claim.got = "nothing"
    /\ at # "answered" => answer = 0 /\ ~ran

HttpInv ==
    /\ HttpTypes /\ Admitted /\ Routed /\ Judged /\ Pending
    /\ \A vet \in vetted : Permits(vet)
    /\ VerdictIsAboutTheToken /\ StatusIsJust

LEMMA RequestBegins == RequestInit => HttpInv
<1> SUFFICES ASSUME RequestInit PROVE HttpInv
  OBVIOUS
<1>1. claim.got = "nothing" /\ claim.got \notin {Session, Rejected, Unavailable}
  BY VerdictsDiffer DEF RequestInit
<1>2. context \in [principal : Subjects, can : Subjects]
  BY DEF RequestInit, Nobody, NoPrincipal, Subjects
<1>3. HttpTypes
  BY <1>1, <1>2 DEF RequestInit, HttpTypes, Verdicts
<1>4. at = "route" /\ ~ran /\ answer = 0 /\ vetted = {}
  BY DEF RequestInit
<1>5. VerdictIsAboutTheToken /\ StatusIsJust
  BY <1>1, <1>4 DEF VerdictIsAboutTheToken, StatusIsJust
<1>6. QED
  BY <1>1, <1>3, <1>4, <1>5 DEF HttpInv, Admitted, Routed, Judged, Pending

\* A refusal of the route: the web client names what it sends.
LEMMA ClientIsAllowed ==
    ASSUME NEW r \in [method : Method, fn : Function, kind : KindHeader, host : Host],
           r.fn # "unknown", ~Allowed(r)
    PROVE  [method |-> r.method, kind |-> r.kind] # ClientRequest(r.fn)
<1>1. r.method \in {"GET", "POST"} /\ r.fn \in {"query", "mutation", "action"}
  BY DEF Method, Function
<1>2. ASSUME [method |-> r.method, kind |-> r.kind] = ClientRequest(r.fn) PROVE FALSE
  <2>1. /\ r.method = IF r.fn = "query" THEN "GET" ELSE "POST"
        /\ r.kind = IF r.fn = "action" THEN "action" ELSE "absent"
    BY <1>2 DEF ClientRequest
  <2>2. QED
    BY <1>1, <2>1 DEF Allowed
<1>3. QED
  BY <1>2

LEMMA RouteStep == HttpInv /\ Route => HttpInv'
<1> SUFFICES ASSUME HttpInv, Route PROVE HttpInv'
  OBVIOUS
<1>1. /\ at = "route" /\ answer = 0 /\ ~ran /\ claim.got = "nothing"
      /\ UNCHANGED <<request, context, stages, vetted, claim, threw, ran>>
  BY DEF Route, HttpInv, Pending
<1>2. \/ at' = "answered" /\ answer' = 404
      \/ at' = "answered" /\ answer' = 405 /\ request.fn # "unknown" /\ ~Allowed(request)
      \/ at' = "resolve" /\ answer' = 0 /\ request.fn # "unknown" /\ Allowed(request)
  BY <1>1 DEF Route, Answer
<1>3. HttpTypes'
  BY <1>1, <1>2 DEF HttpInv, HttpTypes
<1>4. StatusIsJust'
  <2>1. answer' = 405 => [method |-> request.method, kind |-> request.kind] # ClientRequest(request.fn)
    BY <1>2, ClientIsAllowed DEF HttpInv, HttpTypes
  <2>2. answer' \notin {401, 403, 503} /\ claim.got # Unavailable
    BY <1>1, <1>2, VerdictsDiffer
  <2>3. QED
    BY <1>1, <2>1, <2>2 DEF StatusIsJust
<1>5. Routed' /\ Admitted' /\ Judged' /\ Pending'
  BY <1>1, <1>2 DEF Routed, Admitted, Judged, Pending, Allowed
<1>6. VerdictIsAboutTheToken' /\ (\A vet \in vetted : Permits(vet))'
  BY <1>1 DEF HttpInv, VerdictIsAboutTheToken, Permits
<1>7. QED
  BY <1>3, <1>4, <1>5, <1>6 DEF HttpInv

LEMMA ResolveStep == HttpInv /\ Resolve => HttpInv'
<1> SUFFICES ASSUME HttpInv, Resolve PROVE HttpInv'
  OBVIOUS
<1>1. /\ at = "resolve" /\ answer = 0 /\ ~ran /\ claim.got = "nothing"
      /\ request.fn # "unknown" /\ Allowed(request)
      /\ UNCHANGED <<request, stages, vetted, ran>>
  BY DEF Resolve, HttpInv, Pending, Routed
<1>2. (\A vet \in vetted : Permits(vet))'
  BY <1>1 DEF HttpInv, Permits
<1>3. CASE request.host = "open" /\ at' = "body" /\ UNCHANGED <<context, claim, threw, answer>>
  <2>1. HttpTypes' /\ VerdictIsAboutTheToken'
    BY <1>1, <1>3 DEF HttpInv, HttpTypes, VerdictIsAboutTheToken
  <2>2. Admitted' /\ StatusIsJust'
    BY <1>1, <1>3, VerdictsDiffer DEF Admitted, StatusIsJust
  <2>3. Routed' /\ Judged' /\ Pending'
    BY <1>1, <1>3 DEF Routed, Judged, Pending, Allowed
  <2>4. QED
    BY <1>2, <2>1, <2>2, <2>3 DEF HttpInv
<1>4. CASE request.host # "open" /\
           \E d \in Deployed, header \in Headers, query \in Queries, allowQuery \in BOOLEAN,
              e \in Endpoint :
             LET verdict == GetSession(d[2], header, query, allowQuery, e)
                 credential == IF header \in NoBearer THEN query ELSE header[2]
             IN  /\ claim' = [deserved |-> credential \in {<<t>> : t \in Deserving(d[1])},
                              outage |-> e # "serves", got |-> verdict]
                 /\ header \in NoBearer /\ query # NoToken => allowQuery
                 /\ Resolves(verdict)
  <2>1. PICK d \in Deployed, header \in Headers, query \in Queries, allowQuery \in BOOLEAN,
             e \in Endpoint :
             LET verdict == GetSession(d[2], header, query, allowQuery, e)
                 credential == IF header \in NoBearer THEN query ELSE header[2]
             IN  /\ claim' = [deserved |-> credential \in {<<t>> : t \in Deserving(d[1])},
                              outage |-> e # "serves", got |-> verdict]
                 /\ header \in NoBearer /\ query # NoToken => allowQuery
                 /\ Resolves(verdict)
    BY <1>4
  <2> DEFINE credential == IF header \in NoBearer THEN query ELSE header[2]
  <2>2. PICK deserved, verdict :
          /\ deserved = (credential \in {<<t>> : t \in Deserving(d[1])})
          /\ verdict = GetSession(d[2], header, query, allowQuery, e)
    OBVIOUS
  <2>3. /\ claim' = [deserved |-> deserved, outage |-> e # "serves", got |-> verdict]
        /\ Resolves(verdict)
    BY <2>1, <2>2
  <2>4. /\ verdict \in {Session, Rejected, Unavailable}
        /\ verdict = Session => deserved
        /\ verdict = Rejected => ~deserved
        /\ verdict = Unavailable => e # "serves"
    BY <2>1, <2>2, SessionFor
  <2> HIDE DEF credential
  <2>5. claim'.got = verdict /\ claim'.deserved = deserved /\ claim'.outage = (e # "serves")
    BY <2>3
  <2>6. VerdictIsAboutTheToken'
    BY <2>4, <2>5, VerdictsDiffer DEF VerdictIsAboutTheToken
  <2>7. \/ verdict = Session /\ context' = As(User) /\ at' = "body" /\ answer' = 0
        \/ verdict = Unavailable /\ at' = "answered" /\ answer' = 503 /\ context' = context
        \/ verdict = Rejected /\ request.host = "anonymous" /\ at' = "body" /\ answer' = 0 /\ context' = context
        \/ verdict = Rejected /\ at' = "answered" /\ answer' = 401 /\ context' = context
        \/ verdict # Unavailable /\ at' = "answered" /\ answer' \in {401, 503} /\ threw' = "host" /\ context' = context
    BY <1>1, <2>3 DEF Resolves, Answer
  <2>8. context' \in [principal : Subjects, can : Subjects]
    <3>1. As(User) \in [principal : Subjects, can : Subjects]
      BY DEF As, User, Subjects
    <3>2. QED
      BY <2>7, <3>1 DEF HttpInv, HttpTypes
  <2>9. HttpTypes'
    BY <1>1, <2>4, <2>5, <2>7, <2>8 DEF HttpInv, HttpTypes, Verdicts
  <2>10. Admitted'
    BY <1>1, <2>5, <2>7, VerdictsDiffer DEF Admitted
  <2>11. StatusIsJust'
    BY <1>1, <2>4, <2>5, <2>7, VerdictsDiffer DEF StatusIsJust
  <2>12. Routed' /\ Judged' /\ Pending'
    BY <1>1, <2>7 DEF Routed, Judged, Pending, Allowed
  <2>13. QED
    BY <1>2, <2>6, <2>9, <2>10, <2>11, <2>12 DEF HttpInv
<1>5. QED
  BY <1>3, <1>4 DEF Resolve

\* The steps past the context: the request and the claim stay, what is answered is
\* none of the route's or the host's statuses.
LEMMA LaterStep ==
    ASSUME HttpInv, at \in {"body", "scope", "stage", "handler"}, UNCHANGED <<request, claim>>,
           at' \in {"scope", "stage", "handler", "answered"},
           at' # "answered" => answer' = 0 /\ ~ran',
           at' = "answered" => answer' \in {200, 400, 401, 403, 500},
           answer' \in {401, 403} => stages' > 0 \/ ran' \/ threw' = "tenant",
           ran' \in BOOLEAN, ran' => at = "handler", stages' \in Nat,
           context' \in [principal : Subjects, can : Subjects],
           at' \in {"stage", "handler"} \/ ran' => context'.can = context'.principal,
           \A vet \in vetted' : Permits(vet)
    PROVE  HttpInv'
<1>1. /\ claim.got # Unavailable /\ (request.host = "strict" => claim.got = Session)
      /\ request.fn # "unknown" /\ Allowed(request)
  BY DEF HttpInv, Admitted, Routed
<1>2. answer' \in {0, 200, 400, 401, 403, 500}
  OBVIOUS
<1>3. HttpTypes'
  BY <1>2 DEF HttpInv, HttpTypes
<1>4. StatusIsJust'
  BY <1>1, <1>2 DEF StatusIsJust
<1>5. VerdictIsAboutTheToken' /\ Admitted'
  BY <1>1 DEF HttpInv, VerdictIsAboutTheToken, Admitted
<1>6. Routed' /\ Judged' /\ Pending'
  BY <1>1 DEF Routed, Judged, Pending, Allowed
<1>7. (\A vet \in vetted : Permits(vet))'
  BY DEF Permits
<1>8. QED
  BY <1>3, <1>4, <1>5, <1>6, <1>7 DEF HttpInv

LEMMA StageStep == HttpInv /\ Stage => HttpInv'
<1> SUFFICES ASSUME HttpInv, Stage PROVE HttpInv'
  OBVIOUS
<1>1. /\ at = "stage" /\ answer = 0 /\ ~ran /\ ran \in BOOLEAN /\ stages \in Nat /\ stages' = stages + 1
      /\ UNCHANGED <<request, claim, threw, ran>> /\ (\A vet \in vetted : Permits(vet))
      /\ context \in [principal : Subjects, can : Subjects] /\ context.can = context.principal
  BY DEF Stage, HttpInv, HttpTypes, Pending, Judged
<1>2. ASSUME NEW status \in Thrown, Ends(status) PROVE HttpInv'
  <2>1. at' = "answered" /\ answer' = status /\ UNCHANGED <<context, vetted>>
    BY <1>2 DEF Ends, Answer
  <2>2. status \in {400, 401, 403, 500}
    BY <1>2 DEF Thrown
  <2>3. QED
    BY <1>1, <2>1, <2>2, LaterStep
<1>3. ASSUME NEW p \in Subjects, Goes(p), \A vet \in vetted' : Permits(vet) PROVE HttpInv'
  <2>1. /\ at' = "stage" /\ answer' = 0
        /\ context' = [principal |-> p, can |-> p]
    BY <1>1, <1>3 DEF Goes, Patched
  <2>2. /\ context' \in [principal : Subjects, can : Subjects]
        /\ context'.can = context'.principal
    BY <2>1
  <2>3. QED
    BY <1>1, <1>3, <2>1, <2>2, LaterStep
<1>4. context.principal \in Subjects
  BY <1>1
<1>5. CASE RequireAuth
  BY <1>1, <1>2, <1>3, <1>4, <1>5 DEF RequireAuth, Thrown
<1>6. CASE OwnStage
  <2>1. \A p \in Principals \cup {NoPrincipal} : p \in Subjects
    <3>1. \A p \in Principals : p \in Subjects
      BY DEF Principals, Subjects
    <3>2. NoPrincipal \in Subjects
      BY DEF NoPrincipal, Subjects
    <3>3. QED
      BY <3>1, <3>2
  <2>2. QED
    BY <1>1, <1>2, <1>3, <1>6, <2>1 DEF OwnStage
<1>7. ASSUME NEW permission \in Permission, Authorize(permission) PROVE HttpInv'
  <2> DEFINE p == context.principal
  <2>1. \/ /\ Evaluate(p, permission) = "true" /\ Goes(p)
           /\ vetted' = vetted \cup {<<permission, p>>}
        \/ Ends(500)
        \/ Ends(403)
    BY <1>7 DEF Authorize
  <2>2. ASSUME Evaluate(p, permission) = "true" PROVE Permits(<<permission, p>>)
    <3>1. IsPrincipal(p) /\ Check(permission, p.id) = "true"
      BY <2>2 DEF Evaluate
    <3>2. p.id \in {"a", "b"}
      BY <1>4, <3>1 DEF IsPrincipal, Subjects
    <3>3. QED
      BY <3>1, <3>2, CheckIsStrict
  <2>3. CASE Evaluate(p, permission) = "true" /\ Goes(p) /\ vetted' = vetted \cup {<<permission, p>>}
    <3>1. \A vet \in vetted' : Permits(vet)
      BY <1>1, <2>2, <2>3
    <3>2. QED
      BY <1>3, <1>4, <2>3, <3>1
  <2>4. QED
    BY <1>2, <2>1, <2>3 DEF Thrown
<1>8. QED
  BY <1>5, <1>6, <1>7 DEF Stage

LEMMA RequestGoesOn == HttpInv /\ [RequestNext]_httpVars => HttpInv'
<1> SUFFICES ASSUME HttpInv, [RequestNext]_httpVars PROVE HttpInv'
  OBVIOUS
<1>0. /\ at # "answered" => answer = 0 /\ ~ran
      /\ ran \in BOOLEAN /\ stages \in Nat /\ (\A vet \in vetted : Permits(vet))
      /\ context \in [principal : Subjects, can : Subjects]
      /\ at \in {"stage", "handler"} => context.can = context.principal
  BY DEF HttpInv, HttpTypes, Pending, Judged
<1>1. CASE ReadArgs
  <2>1. /\ at = "body" /\ UNCHANGED <<request, context, stages, vetted, claim, threw, ran>>
        /\ \/ at' = "scope" /\ answer' = answer
           \/ at' = "answered" /\ answer' = 400
    BY <1>1 DEF ReadArgs, Answer
  <2>2. QED
    BY <1>0, <2>1, LaterStep
<1>2. CASE Scope
  <2>1. /\ at = "scope" /\ UNCHANGED <<request, stages, vetted, claim, ran>>
        /\ \/ at' = "stage" /\ answer' = answer /\ context' = [context EXCEPT !.can = context.principal]
           \/ at' = "answered" /\ answer' \in {400, 401, 403, 500} /\ threw' = "tenant" /\ UNCHANGED context
    BY <1>2 DEF Scope, Answer, Thrown
  <2>2. [context EXCEPT !.can = context.principal] \in [principal : Subjects, can : Subjects]
    BY <1>0
  <2>3. [context EXCEPT !.can = context.principal].can = [context EXCEPT !.can = context.principal].principal
    BY <1>0
  <2>4. /\ context' \in [principal : Subjects, can : Subjects]
        /\ at' = "stage" => context'.can = context'.principal
    BY <1>0, <2>1, <2>2, <2>3
  <2>5. QED
    BY <1>0, <2>1, <2>4, LaterStep
<1>3. CASE Validate
  <2>1. /\ at = "stage" /\ UNCHANGED <<request, context, stages, vetted, claim, threw, ran>>
        /\ \/ at' = "handler" /\ answer' = answer
           \/ at' = "answered" /\ answer' = 400
    BY <1>3 DEF Validate, Answer
  <2>2. QED
    BY <1>0, <2>1, LaterStep
<1>4. CASE Handle
  <2>1. /\ at = "handler" /\ ran' = TRUE /\ UNCHANGED <<request, context, stages, vetted, claim, threw>>
        /\ at' = "answered" /\ answer' \in {200, 400, 401, 403, 500}
    BY <1>4 DEF Handle, Answer, Thrown
  <2>2. QED
    BY <1>0, <2>1, LaterStep
<1>5. CASE UNCHANGED httpVars
  BY <1>5 DEF httpVars, HttpInv, HttpTypes, Admitted, Routed, Judged, Pending, Permits, Allowed,
              VerdictIsAboutTheToken, StatusIsJust
<1>6. QED
  BY <1>1, <1>2, <1>3, <1>4, <1>5, RouteStep, ResolveStep, StageStep DEF RequestNext

LEMMA JustAnswers == HttpInv => AnswersAreJust
<1> SUFFICES ASSUME HttpInv PROVE AnswersAreJust
  OBVIOUS
<1>1. ASSUME ran PROVE RunsWithRight
  <2>1. /\ request.fn # "unknown" /\ Allowed(request) /\ context.can = context.principal
        /\ request.host = "strict" => claim.got = Session
        /\ \A vet \in vetted : Permits(vet)
    BY <1>1 DEF HttpInv, Routed, Judged, Admitted
  <2>2. claim.got = Session => claim.deserved
    BY VerdictsDiffer DEF HttpInv, VerdictIsAboutTheToken
  <2>3. request.fn = IF request.method = "GET" THEN "query" ELSE IF request.kind = "action" THEN "action" ELSE "mutation"
    BY <2>1 DEF Allowed, HttpInv, HttpTypes
  <2>4. QED
    BY <2>1, <2>2, <2>3 DEF RunsWithRight
<1>2. QED
  BY <1>1 DEF HttpInv, AnswersAreJust, RunsWithRight

-----------------------------------------------------------------------------
(* The provider and its connection *)

Lifecycles == [mounts : Nat, disconnectVersion : Nat]
Links == {"off", "connecting", "open", "backoff", "refused"}

\* The connection is wanted exactly while there is a lifecycle; one without mounts
\* has its disconnect queued, as the last of the microtasks.
Wanted(l, screens, tasks) ==
    /\ l \in Lifecycles
    /\ l.mounts = Cardinality(screens)
    /\ screens = {} => tasks # <<>> /\ tasks[Len(tasks)] = l.disconnectVersion

PageInv ==
    /\ IsFiniteSet(mounted) /\ link \in Links /\ microtasks \in Seq(Nat)
    /\ token \in {Genuine, BadToken} /\ endpoint \in {"serves", "unreachable"}
    /\ lifecycle = <<>> => mounted = {} /\ link = "off"
    /\ lifecycle # <<>> => link # "off" /\ Wanted(lifecycle[1], mounted, microtasks)
    /\ link = "refused" => refusedToken # Genuine

LEMMA PageBegins == PageInit => PageInv
  BY FS_EmptySet DEF PageInit, PageInv, Links

\* Our own token is refused by no deployment: its keys are had, or it is an outage.
LEMMA GenuineIsNotRefused ==
    ASSUME token = Genuine, endpoint \in {"serves", "unreachable"}
    PROVE  Verdict # Rejected
<1>1. Fitting(Ours) /\ Ours.vendor = "workos"
  BY DEF Fitting, Ours, Verifier, Url
<1>2. OurOwn(Genuine) /\ Genuine \in Fields
  BY TokenFields DEF OurOwn, Genuine
<1>3. PartyAllowed(Ours, Genuine)
  BY <1>1, <1>2, OriginAllowed
<1>4. endpoint \in Endpoint
  BY DEF Endpoint
<1>5. Verify(Ours, Genuine, endpoint) # Rejected
  BY <1>1, <1>2, <1>3, <1>4, VerifiedFor
<1>6. QED
  BY <1>5 DEF Verdict

\* The steps that leave the provider and its connection alone.
LEMMA PageStays ==
    PageInv /\ UNCHANGED <<mounted, lifecycle, microtasks, link, refusedToken, token, endpoint>> => PageInv'
  BY DEF PageInv, Wanted

\* ... and those in which the connection moves between wanted states.
LEMMA LinkMoves ==
    ASSUME PageInv, UNCHANGED <<mounted, lifecycle, microtasks, token, endpoint>>,
           link # "off", link' \in Links \ {"off"},
           link' = "refused" => refusedToken' # Genuine
    PROVE  PageInv'
  BY DEF PageInv, Wanted

LEMMA MountStep == \A s \in Screen : PageInv /\ Mount(s) => PageInv'
<1> SUFFICES ASSUME NEW s \in Screen, PageInv, Mount(s) PROVE PageInv'
  OBVIOUS
<1>1. /\ s \notin mounted /\ mounted' = mounted \cup {s}
      /\ UNCHANGED <<microtasks, token, endpoint, refusedToken>>
      /\ IF lifecycle = <<>> THEN link' = "connecting" ELSE link' = link
  BY DEF Mount, Connect, hostVars
<1>2. PICK l : l = IF lifecycle = <<>> THEN [mounts |-> 0, disconnectVersion |-> 0] ELSE lifecycle[1]
  OBVIOUS
<1>3. lifecycle' = <<[mounts |-> l.mounts + 1, disconnectVersion |-> l.disconnectVersion + 1]>>
  BY <1>2 DEF Mount
<1>4. IsFiniteSet(mounted) /\ l \in Lifecycles /\ l.mounts = Cardinality(mounted)
  BY <1>2, FS_EmptySet DEF PageInv, Wanted, Lifecycles
<1>5. IsFiniteSet(mounted') /\ Cardinality(mounted') = Cardinality(mounted) + 1
  BY <1>1, <1>4, FS_AddElement
<1>6. PICK k : k = [mounts |-> l.mounts + 1, disconnectVersion |-> l.disconnectVersion + 1]
  OBVIOUS
<1>7. k \in Lifecycles /\ k.mounts = Cardinality(mounted')
  BY <1>4, <1>5, <1>6 DEF Lifecycles
<1>8. lifecycle' # <<>> /\ lifecycle'[1] = k
  BY <1>3, <1>6
<1>9. Wanted(lifecycle'[1], mounted', microtasks')
  BY <1>1, <1>7, <1>8 DEF Wanted
<1>10. link' \in Links /\ link' # "off" /\ (link' = "refused" => refusedToken' # Genuine)
  BY <1>1 DEF PageInv, Links
<1>11. microtasks' \in Seq(Nat) /\ token' \in {Genuine, BadToken} /\ endpoint' \in {"serves", "unreachable"}
  BY <1>1 DEF PageInv, BadToken
<1>12. QED
  BY <1>5, <1>8, <1>9, <1>10, <1>11 DEF PageInv, Wanted, BadToken

LEMMA UnmountStep == \A s \in Screen : PageInv /\ Unmount(s) => PageInv'
<1> SUFFICES ASSUME NEW s \in Screen, PageInv, Unmount(s) PROVE PageInv'
  OBVIOUS
<1>1. /\ s \in mounted /\ mounted' = mounted \ {s}
      /\ UNCHANGED <<token, endpoint, link, refusedToken>>
  BY DEF Unmount, hostVars
<1>2. lifecycle # <<>> /\ link # "off" /\ Wanted(lifecycle[1], mounted, microtasks)
  BY <1>1 DEF PageInv
<1>3. PICK l : l = lifecycle[1]
  OBVIOUS
<1>4. l \in Lifecycles /\ l.mounts = Cardinality(mounted) /\ IsFiniteSet(mounted) /\ microtasks \in Seq(Nat)
  BY <1>2, <1>3 DEF PageInv, Wanted
<1>5. /\ IsFiniteSet(mounted') /\ Cardinality(mounted') = Cardinality(mounted) - 1
      /\ Cardinality(mounted') \in Nat /\ (Cardinality(mounted') = 0 <=> mounted' = {})
  BY <1>1, <1>4, FS_RemoveElement, FS_EmptySet, FS_CardinalityType
<1>6. PICK k : k = [mounts |-> l.mounts - 1,
                    disconnectVersion |-> l.disconnectVersion + (IF l.mounts = 1 THEN 1 ELSE 0)]
  OBVIOUS
<1>7. /\ lifecycle' = <<k>>
      /\ microtasks' = IF l.mounts = 1 THEN Append(microtasks, l.disconnectVersion + 1) ELSE microtasks
  BY <1>3, <1>6 DEF Unmount
<1>8. /\ k.mounts = Cardinality(mounted')
      /\ k.disconnectVersion = l.disconnectVersion + (IF l.mounts = 1 THEN 1 ELSE 0)
      /\ l.disconnectVersion \in Nat /\ k \in Lifecycles
  BY <1>4, <1>5, <1>6 DEF Lifecycles
<1>9. microtasks' \in Seq(Nat)
  BY <1>4, <1>7, <1>8
<1>10. mounted' = {} => microtasks' # <<>> /\ microtasks'[Len(microtasks')] = k.disconnectVersion
  <2>1. SUFFICES ASSUME mounted' = {} PROVE microtasks' # <<>> /\ microtasks'[Len(microtasks')] = k.disconnectVersion
    OBVIOUS
  <2>2. l.mounts = 1
    BY <1>4, <1>5, <2>1 DEF Lifecycles
  <2>3. PICK n \in Nat : n = l.disconnectVersion + 1
    BY <1>8
  <2>4. microtasks' = Append(microtasks, n) /\ k.disconnectVersion = n
    BY <1>7, <1>8, <2>2, <2>3
  <2>5. QED
    BY <1>4, <2>4
<1>11. lifecycle' # <<>> /\ lifecycle'[1] = k
  BY <1>7
<1>12. Wanted(lifecycle'[1], mounted', microtasks')
  BY <1>8, <1>10, <1>11 DEF Wanted
<1>13. QED
  BY <1>1, <1>2, <1>5, <1>9, <1>11, <1>12 DEF PageInv, Wanted, BadToken

LEMMA DeferredDisconnectStep == PageInv /\ DeferredDisconnect => PageInv'
<1> SUFFICES ASSUME PageInv, DeferredDisconnect PROVE PageInv'
  OBVIOUS
<1>1. /\ microtasks # <<>> /\ microtasks' = Tail(microtasks)
      /\ UNCHANGED <<mounted, token, endpoint, refusedToken>>
  BY DEF DeferredDisconnect, hostVars
<1>2. /\ microtasks \in Seq(Nat) /\ microtasks' \in Seq(Nat)
      /\ Len(microtasks) \in Nat /\ Len(microtasks') = Len(microtasks) - 1
      /\ \A i \in 1 .. Len(microtasks') : microtasks'[i] = microtasks[i + 1]
      /\ Head(microtasks) = microtasks[1]
  BY <1>1 DEF PageInv
<1>3. CASE StillWanted(Head(microtasks))
  <2>1. UNCHANGED <<lifecycle, link>>
    BY <1>3 DEF DeferredDisconnect
  <2>2. ASSUME lifecycle # <<>>, mounted = {}
        PROVE  microtasks' # <<>> /\ microtasks'[Len(microtasks')] = lifecycle[1].disconnectVersion
    <3>1. /\ lifecycle[1].mounts = Cardinality(mounted)
          /\ microtasks[Len(microtasks)] = lifecycle[1].disconnectVersion
      BY <2>2 DEF PageInv, Wanted
    <3>2. Cardinality(mounted) = 0
      BY <2>2, FS_EmptySet
    <3>3. lifecycle[1].disconnectVersion # microtasks[1]
      BY <1>2, <1>3, <2>2, <3>1, <3>2 DEF StillWanted
    <3>4. Len(microtasks) # 1 /\ Len(microtasks) # 0
      BY <1>1, <1>2, <3>1, <3>3
    <3>5. Len(microtasks') \in 1 .. Len(microtasks')
      BY <1>2, <3>4
    <3>6. microtasks'[Len(microtasks')] = microtasks[Len(microtasks)]
      BY <1>2, <3>5
    <3>7. QED
      BY <1>2, <3>1, <3>5, <3>6
  <2>3. lifecycle # <<>> => Wanted(lifecycle[1], mounted, microtasks')
    BY <2>2 DEF PageInv, Wanted
  <2>4. QED
    BY <1>1, <1>2, <2>1, <2>3 DEF PageInv, BadToken
<1>4. CASE ~StillWanted(Head(microtasks))
  <2>1. lifecycle' = <<>> /\ link' = "off"
    BY <1>4 DEF DeferredDisconnect, Disconnect
  <2>2. lifecycle # <<>> /\ ~(lifecycle[1].mounts > 0)
    BY <1>4 DEF StillWanted
  <2>3. /\ lifecycle[1].mounts = Cardinality(mounted) /\ IsFiniteSet(mounted)
        /\ lifecycle[1].mounts \in Nat
    BY <2>2 DEF PageInv, Wanted, Lifecycles
  <2>4. mounted = {}
    BY <2>2, <2>3, FS_EmptySet
  <2>5. QED
    BY <1>1, <1>2, <2>1, <2>4 DEF PageInv, Links, BadToken
<1>5. QED
  BY <1>3, <1>4

LEMMA OpensStep == PageInv /\ Opens => PageInv'
<1> SUFFICES ASSUME PageInv, Opens PROVE PageInv'
  OBVIOUS
<1>1. /\ link = "connecting" /\ UNCHANGED <<mounted, lifecycle, microtasks, token, endpoint>>
      /\ link' = "open" \/ link' = ClosesWith(Verdict) \/ link' = "backoff"
      /\ link' = "refused" => link' = ClosesWith(Verdict) /\ refusedToken' = token
  BY DEF Opens, providerVars, hostVars
<1>2. link' = "refused" => Verdict = Rejected
  BY <1>1 DEF ClosesWith
<1>3. link' \in Links \ {"off"}
  BY <1>1 DEF ClosesWith, Links
<1>4. link' = "refused" => refusedToken' # Genuine
  BY <1>1, <1>2, GenuineIsNotRefused DEF PageInv
<1>5. QED
  BY <1>1, <1>3, <1>4, LinkMoves

LEMMA PageGoesOn == PageInv /\ [PageNext]_pageVars => PageInv'
<1> SUFFICES ASSUME PageInv, [PageNext]_pageVars PROVE PageInv'
  OBVIOUS
<1>1. ASSUME NEW s \in Screen, Skip(s) PROVE PageInv'
  BY <1>1, PageStays DEF Skip, hostVars
<1>2. CASE Fetches \/ HttpLost
  BY <1>2, PageStays DEF Fetches, HttpRead, HttpSettles, HttpLost, providerVars, hostVars, linkVars
<1>3. CASE ServerReceives \/ Commit
  BY <1>3, PageStays DEF ServerReceives, Commit, providerVars, hostVars
<1>4. ASSUME NEW i \in due, Invalidates(i) PROVE PageInv'
  BY <1>4, PageStays DEF Invalidates, providerVars, hostVars
<1>5. CASE Drops \/ Reconnects
  BY <1>5, LinkMoves DEF Drops, Reconnects, Connect, Links, providerVars, hostVars
<1>6. CASE Environment
  <2>1. /\ token' \in {Genuine, BadToken} /\ endpoint' \in {"serves", "unreachable"}
        /\ UNCHANGED <<mounted, lifecycle, microtasks, link, refusedToken>>
    BY <1>6 DEF Environment, providerVars, linkVars, PageInv
  <2>2. QED
    BY <2>1 DEF PageInv, Wanted, BadToken
<1>7. CASE UNCHANGED pageVars
  BY <1>7, PageStays DEF pageVars, providerVars, hostVars, linkVars
<1>8. QED
  BY <1>1, <1>2, <1>3, <1>4, <1>5, <1>6, <1>7, MountStep, UnmountStep, DeferredDisconnectStep, OpensStep
     DEF PageNext

LEMMA FollowsMounts == PageInv => ConnectionFollowsMounts
<1> SUFFICES ASSUME PageInv PROVE ConnectionFollowsMounts
  OBVIOUS
<1>1. CASE lifecycle = <<>>
  BY <1>1 DEF PageInv, ConnectionFollowsMounts
<1>2. CASE lifecycle # <<>>
  BY <1>2 DEF PageInv, Wanted, ConnectionFollowsMounts
<1>3. QED
  BY <1>1, <1>2

-----------------------------------------------------------------------------
(* The page, a request and the server process together *)

LEMMA WebBegins == WebInit => HttpInv /\ PageInv /\ NodeInv
  BY RequestBegins, PageBegins, NodeBegins DEF WebInit

LEMMA WebGoesOn == HttpInv /\ PageInv /\ NodeInv /\ [WebNext]_webVars => HttpInv' /\ PageInv' /\ NodeInv'
<1> SUFFICES ASSUME HttpInv, PageInv, NodeInv, [WebNext]_webVars PROVE HttpInv' /\ PageInv' /\ NodeInv'
  OBVIOUS
<1>1. CASE RequestStep
  BY <1>1, RequestGoesOn, PageGoesOn, NodeGoesOn DEF RequestStep
<1>2. CASE PageStep
  BY <1>2, RequestGoesOn, PageGoesOn, NodeGoesOn DEF PageStep
<1>3. CASE ProcessStep
  BY <1>3, RequestGoesOn, PageGoesOn, NodeGoesOn DEF ProcessStep
<1>4. CASE UNCHANGED webVars
  BY <1>4, RequestGoesOn, PageGoesOn, NodeGoesOn DEF webVars
<1>5. QED
  BY <1>1, <1>2, <1>3, <1>4 DEF WebNext

LEMMA WebInvariance == WebSpec => [](HttpInv /\ PageInv /\ NodeInv)
  BY WebBegins, WebGoesOn, PTL DEF WebSpec

\* The client is connected exactly as long as a provider of it is mounted, however
\* mounts and unmounts overtake the disconnects they deferred, gives up for good
\* only with a token that was no good; and a server that stops leaves no socket and
\* no pending `ready` behind.
THEOREM ConnectionsFollowOwners == WebSpec => []ConnectionsHaveOwners
<1>1. HttpInv /\ PageInv /\ NodeInv => ConnectionsHaveOwners
  BY FollowsMounts DEF NodeInv, ConnectionsHaveOwners
<1>2. QED
  BY <1>1, WebInvariance, PTL

\* For every permission the application defines, every sequence of stages and every
\* way the options were typed: a verdict is about the token, a handler runs only for
\* whom every permission said true, an outage of the identity provider is answered
\* 503 and nothing but that or a throw of resolveContext is, and a caller whose token
\* deserves a session is refused by application code only (resolveContext or
\* resolveTenant that threw, the procedure, the handler).
THEOREM RequestsGetJustAnswers == WebSpec => []AnswersAreJust
<1>1. HttpInv /\ PageInv /\ NodeInv => AnswersAreJust
  BY JustAnswers
<1>2. QED
  BY <1>1, WebInvariance, PTL

=============================================================================
