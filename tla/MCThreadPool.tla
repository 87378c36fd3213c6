----------------------------- MODULE MCThreadPool -----------------------------
(* A small instance of ThreadPool for TLC. *)
EXTENDS ThreadPool

CONSTANTS w1, w2, w3, j1, j2, j3, j4

MCWorkers3 == {w1, w2, w3}
MCJobs4 == {j1, j2, j3, j4}
=============================================================================
