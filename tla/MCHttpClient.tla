---------------------------- MODULE MCHttpClient ----------------------------
(* A small instance of HttpClient for TLC. *)
EXTENDS HttpClient, TLC

CONSTANTS t1, t2

MCThreads == {t1, t2}
MCSockets == 1..2
=============================================================================
