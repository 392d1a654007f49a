------------------------------ MODULE Identity ------------------------------
(***************************************************************************)
(* Session providers: how the options of a deployment become a verifier,   *)
(* and what the verifier makes of a bearer token when the vendor's key set *)
(* can, or cannot, be had.  jose (the JWT library) and the vendors are     *)
(* modelled from how the adapters use them.                                *)
(***************************************************************************)
EXTENDS FiniteSets

\* A vendor signs with one key set per client; `Us` is the deployment's client,
\* and its issuer and origin.
Us == "us"
Them == "them"
Vendor == {"workos", "clerk"}

-----------------------------------------------------------------------------
(* Construction.  A text is what an operator typed: its name, and whether   *)
(* blanks or a trailing slash came along.  "" is a text of blanks only.     *)

Text(name, tail) == [name |-> name, tail |-> tail]
Typed == {Text("", "blank"), Text(Us, ""), Text(Us, "blank"), Text(Us, "slash")}

\* requireNonBlank returns the trimmed text; the caller has checked it is not
\* blank (`Blank`).
Blank(t) == t.name = ""
Trim(t) == IF t.tail = "blank" THEN [t EXCEPT !.tail = ""] ELSE t
\* normalizeIssuer: a trailing slash is not significant.
NormalizeIssuer(t) == IF t.tail = "slash" THEN [t EXCEPT !.tail = ""] ELSE t

\* The endpoint of a key set: none is given, or a URL with its scheme ("" when it
\* is not absolute), its host and, for WorkOS, the client its path names.
Url(scheme, host, client) == [scheme |-> scheme, host |-> host, client |-> client]
Overrides == {<<>>} \cup {<<url>> : url \in {Url("https", "vendor", Us), Url("http", "loopback", Us), Url("http", "remote", Us),
         Url("https", "vendor", Them), Url("", "", Us)}}

Secure(url) == url.scheme = "https" \/ (url.scheme = "http" /\ url.host = "loopback")

NamesClient(url, clientId) == url.scheme # "" /\ url.client = clientId.name

\* What a constructor is given.  `skew` is clockSkewInMs: a finite non-negative
\* number, or not; `parties` is authorizedParties, for Clerk.
Options == [vendor : Vendor, clientId : Typed \ {Text(Us, "slash")}, issuer : Typed, url : Overrides,
            skew : {"finite", "NaN"}, parties : SUBSET {Text(Us, "blank"), Text("", "blank")}]

Verifier(vendor, issuer, url, parties) ==
    [vendor |-> vendor, issuer |-> issuer, url |-> url, parties |-> parties]

WorkOSProvider(o) ==
    LET url == IF o.url = <<>> THEN Url("https", "vendor", Trim(o.clientId).name) ELSE o.url[1]
    IN  IF \/ Blank(o.clientId) \/ Blank(o.issuer)
           \/ o.url # <<>> /\ ~NamesClient(url, Trim(o.clientId))
           \/ ~Secure(url) \/ o.skew # "finite"
        THEN {}
        ELSE {Verifier("workos", Trim(o.issuer), url, {})}

\* Clerk serves its keys under the issuer: the path of a URL names no client.
ClerkProvider(o) ==
    LET url == IF o.url = <<>> THEN Url("https", "vendor", Us) ELSE [o.url[1] EXCEPT !.client = Us]
    IN  IF \/ Blank(o.issuer) \/ ~Secure(url)
           \/ o.parties = {} \/ \E p \in o.parties : Blank(p)
           \/ o.skew # "finite"
        THEN {}
        ELSE {Verifier("clerk", NormalizeIssuer(Trim(o.issuer)), url, {Trim(p) : p \in o.parties})}

\* The verifier made of some options, if the constructor throws no TypeError.
Construct(o) == IF o.vendor = "workos" THEN WorkOSProvider(o) ELSE ClerkProvider(o)

-----------------------------------------------------------------------------
(* Verification.                                                            *)

\* A token: the algorithm of its header, whose key signed it, its issuer (as the
\* vendor of that deployment spells it), its claims, its expiry, its origin.
Genuine == [alg |-> "RS256", signer |-> Us, issuer |-> Text(Us, ""), sub |-> "string", sid |-> "string",
            exp |-> "future", azp |-> "absent"]
Tokens == {Genuine, [Genuine EXCEPT !.azp = Us]}
          \cup {[Genuine EXCEPT !.alg = "none"], [Genuine EXCEPT !.signer = Them],
                [Genuine EXCEPT !.issuer = Text(Them, "")]}
          \cup {[Genuine EXCEPT !.sub = c] : c \in {"absent", "empty"}}
          \cup {[Genuine EXCEPT !.sid = c] : c \in {"absent", "empty", "number"}}
          \cup {[Genuine EXCEPT !.exp = e] : e \in {"absent", "past", "beyond Date"}}
          \cup {[Genuine EXCEPT !.azp = a] : a \in {Them, "number"}}

\* The key endpoint: it answers with keys, cannot be reached, answers with an
\* error, with no key set or a malformed key, or with a key this runtime cannot
\* import.
Endpoint == {"serves", "unreachable", "error", "malformed", "unsupported"}

Session == "session"
Rejected == "null"
Unavailable == "IdentityProviderUnavailableError"

KeyError == [unreachable |-> "fetch", error |-> "JOSEError", malformed |-> "JWKSInvalid",
             unsupported |-> "JOSENotSupported"]
\* jose's errors, in the order it looks: the algorithm before any key is asked
\* for, the keys, the signature, the claims.
JoseError(v, token, endpoint) ==
    IF token.alg # "RS256" THEN "JOSEAlgNotAllowed"
    ELSE IF endpoint # "serves" THEN KeyError[endpoint]
    ELSE IF token.signer # v.url.client THEN "JWSSignatureVerificationFailed"
    ELSE IF token.issuer # v.issuer \/ "absent" \in {token.sub, token.sid, token.exp} THEN "JWTClaimValidationFailed"
    ELSE IF token.exp = "past" THEN "JWTExpired"
    ELSE "none"

\* Seeded fault: only what isJwksInfrastructureError lists is an outage; a fetch
\* that fails and a key that cannot be imported are errors of the token.
IsOutage_JoseOnly(error) == error \in {"JOSEError", "JWKSInvalid"}
\* The customFetch wrapper, the wrapper around the key lookup, and
\* isJwksInfrastructureError: every error that is about the keys.
IsOutage(error) ==
    \/ error = "fetch"
    \/ error = "JOSENotSupported"
    \/ error \in {"JOSEError", "JWKSInvalid"}

PartyAllowed(v, token) ==
    v.vendor = "clerk" /\ token.azp # "absent" => \E p \in v.parties : p = Text(token.azp, "")

Verify(v, token, endpoint) ==
    LET error == JoseError(v, token, endpoint)
    IN  IF IsOutage(error) THEN Unavailable
        ELSE IF /\ error = "none" /\ token.sub = "string" /\ token.sid = "string"
                /\ PartyAllowed(v, token) /\ token.exp # "beyond Date"
        THEN Session
        ELSE Rejected

\* A request: its Authorization header (none, another scheme, or a bearer's token,
\* which may be empty) and the token of its query string, each <<>> or <<token>>.
NoBearer == {<<"none">>, <<"basic">>}
Bearer(token) == <<"bearer", token>>
NoToken == <<>>

\* The token that decides: a bearer header's, even when empty; else the query's,
\* where the transport allows it.
Credential(header, query, allowQueryToken) ==
    IF header \notin NoBearer THEN header[2]
    ELSE IF allowQueryToken THEN query ELSE NoToken

GetSession(v, header, query, allowQueryToken, endpoint) ==
    LET token == Credential(header, query, allowQueryToken)
    IN  IF token = NoToken THEN Rejected ELSE Verify(v, token[1], endpoint)

-----------------------------------------------------------------------------
(* Principals.                                                              *)

Principals == [kind : {"user", "service", "robot"}, id : {"", "a", "b"}]
NoPrincipal == [kind |-> "undefined", id |-> ""]
IsPrincipal(p) == p.kind \in {"user", "service"} /\ p.id # ""
=============================================================================
