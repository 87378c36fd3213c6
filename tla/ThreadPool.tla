------------------------------ MODULE ThreadPool ------------------------------
(***************************************************************************)
(* httplib::ThreadPool, the task queue of the HTTP server: workers that    *)
(* wait on one condition variable for jobs or for the shutdown.            *)
(*                                                                         *)
(* The thread that owns the pool (the one in listen_internal) enqueues     *)
(* jobs and in the end shuts the pool down.  mutex_ protects jobs_ and     *)
(* shutdown_, so a critical section is one step; the notifications follow  *)
(* after the mutex is released and are steps of their own.                 *)
(*                                                                         *)
(* The names differ from those of RestServer: the theorems about the       *)
(* server and its pool are in one module.                                  *)
(***************************************************************************)
EXTENDS Naturals, Sequences, FiniteSets, Functions

CONSTANTS
  Workers,              \* threads_
  Jobs,                 \* the jobs the owner may enqueue
  None,                 \* stands for "no job"
  max_queued_requests_  \* 0: no limit

ASSUME PoolAssumption ==
  /\ IsFiniteSet(Workers) /\ Workers # {}
  /\ None \notin Jobs
  /\ max_queued_requests_ \in Nat

VARIABLES
  jobs_,      \* the queue
  shutdown_,  \* the flag
  waiting,    \* the workers blocked in cond_.wait
  pc,         \* per worker: "fetch" before or in the critical section, "run", "exited"
  fn,         \* per worker: the job it runs
  owner,      \* where the owning thread is
  refused,    \* jobs for which enqueue() returned false
  accepted,   \* history: jobs in the order enqueue() accepted them
  started,    \* history: jobs in the order they were dequeued
  completed   \* history: jobs that have returned

histVars == <<accepted, started, completed>>
queueVars == <<jobs_, shutdown_, waiting, pc, fn, owner, refused, accepted, started, completed>>

WorkerPcs == {"fetch", "run", "exited"}
OwnerPcs == {"idle", "notify", "notifyAll", "join", "joined"}

\* The types of the variables.
PoolTypeOK ==
  /\ jobs_ \in Seq(Jobs)
  /\ shutdown_ \in BOOLEAN
  /\ waiting \subseteq Workers
  /\ pc \in [Workers -> WorkerPcs]
  /\ fn \in [Workers -> Jobs \cup {None}]
  /\ owner \in OwnerPcs
  /\ refused \subseteq Jobs
  /\ accepted \in Seq(Jobs)
  /\ started \in Seq(Jobs)
  /\ completed \subseteq Jobs

PoolInit ==
  /\ jobs_ = <<>> /\ shutdown_ = FALSE
  /\ waiting = {}
  /\ pc = [w \in Workers |-> "fetch"]
  /\ fn = [w \in Workers |-> None]
  /\ owner = "idle"
  /\ refused = {}
  /\ accepted = <<>> /\ started = <<>> /\ completed = {}

-----------------------------------------------------------------------------
(***************************************************************************)
(* The owner.                                                              *)
(***************************************************************************)
HasRoom == max_queued_requests_ = 0 \/ Len(jobs_) < max_queued_requests_

\* enqueue: the critical section.
Enqueue(j) ==
  /\ owner = "idle"
  /\ j \notin Range(accepted) \cup refused
  /\ HasRoom
  /\ jobs_' = Append(jobs_, j)
  /\ accepted' = Append(accepted, j)
  /\ owner' = "notify"
  /\ UNCHANGED <<shutdown_, waiting, pc, fn, refused, started, completed>>

\* enqueue returns false.
EnqueueFull(j) ==
  /\ owner = "idle"
  /\ j \notin Range(accepted) \cup refused
  /\ ~HasRoom
  /\ refused' = refused \cup {j}
  /\ UNCHANGED <<jobs_, shutdown_, waiting, pc, fn, owner, histVars>>

\* Mutant: a notification only when the queue was empty.
NotifyOneWhenFirst ==
  /\ owner = "notify"
  /\ IF waiting = {} \/ Len(jobs_) > 1 THEN UNCHANGED waiting
     ELSE \E w \in waiting : waiting' = waiting \ {w}
  /\ owner' = "idle"
  /\ UNCHANGED <<jobs_, shutdown_, pc, fn, refused, histVars>>

\* cond_.notify_one(): any of the waiters, or nobody.
NotifyOne ==
  /\ owner = "notify"
  /\ IF waiting = {} THEN UNCHANGED waiting
     ELSE \E w \in waiting : waiting' = waiting \ {w}
  /\ owner' = "idle"
  /\ UNCHANGED <<jobs_, shutdown_, pc, fn, refused, histVars>>

\* shutdown: the critical section ...
Shutdown ==
  /\ owner = "idle"
  /\ shutdown_' = TRUE
  /\ owner' = "notifyAll"
  /\ UNCHANGED <<jobs_, waiting, pc, fn, refused, histVars>>

\* ... cond_.notify_all() ...
NotifyAll ==
  /\ owner = "notifyAll"
  /\ waiting' = {}
  /\ owner' = "join"
  /\ UNCHANGED <<jobs_, shutdown_, pc, fn, refused, histVars>>

\* ... and every thread is joined.
Join ==
  /\ owner = "join"
  /\ \A w \in Workers : pc[w] = "exited"
  /\ owner' = "joined"
  /\ UNCHANGED <<jobs_, shutdown_, waiting, pc, fn, refused, histVars>>

-----------------------------------------------------------------------------
(***************************************************************************)
(* A worker.                                                               *)
(***************************************************************************)

\* Mutant: the predicate does not know of the shutdown.
MayProceedJobsOnly == jobs_ # <<>>

\* The predicate of cond_.wait.
MayProceed == jobs_ # <<>> \/ shutdown_

\* cond_.wait blocks, releasing the mutex.
Wait(w) ==
  /\ pc[w] = "fetch" /\ w \notin waiting
  /\ ~MayProceed
  /\ waiting' = waiting \cup {w}
  /\ UNCHANGED <<jobs_, shutdown_, pc, fn, owner, refused, histVars>>

\* A condition variable may wake a waiter for no reason.
SpuriousWakeup(w) ==
  /\ w \in waiting
  /\ waiting' = waiting \ {w}
  /\ UNCHANGED <<jobs_, shutdown_, pc, fn, owner, refused, histVars>>

\* Mutant: the back of the queue is taken.
TakeBack(w) ==
  /\ pc[w] = "fetch" /\ w \notin waiting
  /\ jobs_ # <<>>
  /\ fn' = [fn EXCEPT ![w] = jobs_[Len(jobs_)]]
  /\ jobs_' = SubSeq(jobs_, 1, Len(jobs_) - 1)
  /\ started' = Append(started, jobs_[Len(jobs_)])
  /\ pc' = [pc EXCEPT ![w] = "run"]
  /\ UNCHANGED <<shutdown_, waiting, owner, refused, accepted, completed>>

\* The front of the queue is taken.
Take(w) ==
  /\ pc[w] = "fetch" /\ w \notin waiting
  /\ jobs_ # <<>>
  /\ fn' = [fn EXCEPT ![w] = Head(jobs_)]
  /\ jobs_' = Tail(jobs_)
  /\ started' = Append(started, Head(jobs_))
  /\ pc' = [pc EXCEPT ![w] = "run"]
  /\ UNCHANGED <<shutdown_, waiting, owner, refused, accepted, completed>>

\* fn() returns.
Return(w) ==
  /\ pc[w] = "run"
  /\ completed' = completed \cup {fn[w]}
  /\ fn' = [fn EXCEPT ![w] = None]
  /\ pc' = [pc EXCEPT ![w] = "fetch"]
  /\ UNCHANGED <<jobs_, shutdown_, waiting, owner, refused, accepted, started>>

\* Mutant: shutdown() joins inside the block of its lock, which the worker waits for.
ExitLockedOut(w) ==
  /\ pc[w] = "fetch" /\ w \notin waiting
  /\ shutdown_ /\ jobs_ = <<>> /\ owner # "join"
  /\ pc' = [pc EXCEPT ![w] = "exited"]
  /\ UNCHANGED <<jobs_, shutdown_, waiting, fn, owner, refused, histVars>>

\* if (shutdown_ && jobs_.empty()) break
Exit(w) ==
  /\ pc[w] = "fetch" /\ w \notin waiting
  /\ shutdown_ /\ jobs_ = <<>>
  /\ pc' = [pc EXCEPT ![w] = "exited"]
  /\ UNCHANGED <<jobs_, shutdown_, waiting, fn, owner, refused, histVars>>

-----------------------------------------------------------------------------
WorkerStep(w) == Wait(w) \/ Take(w) \/ Return(w) \/ Exit(w)

PoolNext ==
  \/ \E j \in Jobs : Enqueue(j) \/ EnqueueFull(j)
  \/ NotifyOne \/ Shutdown \/ NotifyAll \/ Join
  \/ \E w \in Workers : WorkerStep(w) \/ SpuriousWakeup(w)

\* Threads are scheduled and jobs return.  The owner need not enqueue or shut
\* down, and a waiter need not wake for no reason.
PoolFairness ==
  /\ WF_queueVars(NotifyOne) /\ WF_queueVars(NotifyAll) /\ WF_queueVars(Join)
  /\ \A w \in Workers : WF_queueVars(WorkerStep(w))

PoolSpec == PoolInit /\ [][PoolNext]_queueVars

PoolFairSpec == PoolSpec /\ PoolFairness
-----------------------------------------------------------------------------
(***************************************************************************)
(* Properties.                                                             *)
(***************************************************************************)
Fetching == {w \in Workers : pc[w] = "fetch" /\ w \notin waiting}

\* No worker sleeps while there is work for it: with a waiter in cond_.wait,
\* every queued job has an awake worker coming for it, or the notification of
\* the latest one is about to be sent.  (enqueue notifies outside the mutex,
\* so that wait, notify and spurious wake-ups interleave freely.)
NoIdleWorkerWhileJobsQueue ==
  waiting # {} =>
    Len(jobs_) <= Cardinality(Fetching) + (IF owner = "notify" THEN 1 ELSE 0)

\* Jobs are started in the order they were enqueued; none is skipped or
\* started twice, not even by a shutdown that finds them in the queue.
FirstComeFirstServed == accepted = started \o jobs_

\* A worker leaves only when nothing is left for it, none sleeps after the
\* notification of the shutdown, when nobody would wake it, and shutdown()
\* returns only when every accepted job has finished.
ShutdownCompletesJobs ==
  /\ \A w \in Workers : pc[w] = "exited" => jobs_ = <<>>
  /\ owner \in {"join", "joined"} => waiting = {}
  /\ owner = "joined" => completed = Range(accepted)

\* The pool implements the task queue the server was written against; with the
\* fairness, each accepted job finishes and shutdown() returns.
Pool == INSTANCE JobPool
          WITH Size <- Cardinality(Workers),
               phase <- CASE ~shutdown_ -> "open" [] owner = "joined" -> "closed"
                          [] OTHER -> "closing",
               queued <- jobs_,
               running <- {fn[w] : w \in {v \in Workers : pc[v] = "run"}},
               finished <- completed

IsTaskQueue == Pool!FairSpec
=============================================================================
