------------------------------ MODULE MCServer ------------------------------
(***************************************************************************)
(* Instances of the process for TLC: a call that needs no connection, like *)
(* the health check, one that needs one, like the middleware's look-up,    *)
(* and one that needs another after it.                                    *)
(***************************************************************************)
EXTENDS ServerProperties

CONSTANTS health, look, create, k1

SomeCalls == {health, look, create}
OneConn == {k1}
SomeNeeds == [c \in SomeCalls |-> CASE c = health -> 0 [] c = look -> 1 [] OTHER -> 2]
=============================================================================
