------------------------------- MODULE MCWeb -------------------------------
(***************************************************************************)
(* Instances of the page with its server, of the HTTP routes and of the    *)
(* Node entry point, for TLC.  A behaviour is that of a page, of a request *)
(* or of a server process, `part`; the first two use the session providers *)
(* of Identity.                                                            *)
(***************************************************************************)
EXTENDS HttpRoutes, WebPage, NodeServer

VARIABLE part
webVars == <<part, httpVars, pageVars, nodeVars>>

\* Checks of a staff permission (b only, and by a truthy value for a), of an
\* owner's, and of one that needs a service which may be down.
Leaves == {[a |-> "truthy", b |-> "true"], [a |-> "true", b |-> "false"], [a |-> "throws", b |-> "true"]}

WebInit ==
    /\ part \in {"request", "page", "process"}
    /\ PageInit /\ RequestInit /\ NodeInit
    \* a request that is not made starts in one state
    /\ part # "request" => request = [method |-> "GET", fn |-> "unknown", kind |-> "absent", host |-> "open"]
RequestStep == part = "request" /\ RequestNext /\ UNCHANGED <<part, pageVars, nodeVars>>
PageStep == part = "page" /\ PageNext /\ UNCHANGED <<part, httpVars, nodeVars>>
ProcessStep == part = "process" /\ NodeNext /\ UNCHANGED <<part, httpVars, pageVars>>
WebNext == RequestStep \/ PageStep \/ ProcessStep
WebSpec == WebInit /\ [][WebNext]_webVars /\ Fairness

\* No connection outlives what it was made for: neither the client's the providers
\* of the page, nor the server's the process that stops.
ConnectionsHaveOwners == ConnectionFollowsMounts /\ NodeServerStops
=============================================================================
