----------------------------- MODULE MCRestServer -----------------------------
(* A small instance of RestServer for TLC. *)
EXTENDS RestServer

CONSTANTS c1, c2

MCConnections2 == {c1, c2}
=============================================================================
