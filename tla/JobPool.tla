------------------------------- MODULE JobPool -------------------------------
(***************************************************************************)
(* What a task queue of the HTTP server promises (httplib::TaskQueue):     *)
(* jobs begin in the order they were submitted, each once, no more of them *)
(* at a time than the pool has workers; a shutdown refuses further jobs    *)
(* and returns when every job it had accepted is finished.                 *)
(***************************************************************************)
EXTENDS Naturals, Sequences, FiniteSets

CONSTANTS Jobs, Size

VARIABLES phase,    \* "open", "closing" during shutdown(), "closed" when it has returned
          queued,   \* jobs that wait
          running,  \* jobs in progress
          finished  \* jobs that are done

vars == <<phase, queued, running, finished>>

Init == phase = "open" /\ queued = <<>> /\ running = {} /\ finished = {}

Submit(j) ==
  /\ phase = "open"
  /\ j \notin running \cup finished /\ \A i \in DOMAIN queued : queued[i] # j
  /\ queued' = Append(queued, j)
  /\ UNCHANGED <<phase, running, finished>>

Begin ==
  /\ queued # <<>> /\ Cardinality(running) < Size
  /\ queued' = Tail(queued)
  /\ running' = running \cup {Head(queued)}
  /\ UNCHANGED <<phase, finished>>

Finish(j) ==
  /\ j \in running
  /\ running' = running \ {j}
  /\ finished' = finished \cup {j}
  /\ UNCHANGED <<phase, queued>>

Shutdown ==
  /\ phase = "open"
  /\ phase' = "closing"
  /\ UNCHANGED <<queued, running, finished>>

Close ==
  /\ phase = "closing" /\ queued = <<>> /\ running = {}
  /\ phase' = "closed"
  /\ UNCHANGED <<queued, running, finished>>

Next ==
  \/ \E j \in Jobs : Submit(j) \/ Finish(j)
  \/ Begin \/ Shutdown \/ Close

Spec == Init /\ [][Next]_vars

\* A job that waits begins when a worker is free, a job that runs ends, a
\* shutdown returns.
FairSpec ==
  /\ Spec
  /\ WF_vars(Begin) /\ WF_vars(Close) /\ \A j \in Jobs : WF_vars(Finish(j))
=============================================================================
