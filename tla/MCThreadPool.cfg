CONSTANTS
  w1 = w1
  w2 = w2
  w3 = w3
  j1 = j1
  j2 = j2
  j3 = j3
  j4 = j4
  None = None
  Workers <- MCWorkers3
  Jobs <- MCJobs4
  max_queued_requests_ = 3
SPECIFICATION PoolFairSpec
\* After the shutdown the pool is gone.
CHECK_DEADLOCK FALSE
INVARIANTS
  NoIdleWorkerWhileJobsQueue
  FirstComeFirstServed
  ShutdownCompletesJobs
PROPERTY IsTaskQueue
