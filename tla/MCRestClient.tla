----------------------------- MODULE MCRestClient -----------------------------
(* A small instance of RestClient for TLC. *)
EXTENDS RestClient

CONSTANTS r1, r2

MCRequests2 == {r1, r2}

\* r1 is made without parameters.
MCBare == {r1}
=============================================================================
