--------------------------- MODULE MCReactiveTier ---------------------------
(***************************************************************************)
(* Instances of ReactiveTier for TLC: connections that use the same        *)
(* subscription id (a client that reconnects before the server notices     *)
(* that the first socket is dead), and queries that read one table always  *)
(* and another as the data in the first one says.                          *)
(***************************************************************************)
EXTENDS ReactiveTier

CONSTANTS s1, t1, t2

SharedIds    == [c \in Conn |-> {s1}]
DataReadSets == [q \in Query |-> {{t1}, {t1, t2}}]
=============================================================================
