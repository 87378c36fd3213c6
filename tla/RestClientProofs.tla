--------------------------- MODULE RestClientProofs ---------------------------
(***************************************************************************)
(* Theorems about RestClient, for any set of requests and any bounds: its  *)
(* types and its locks; then its calls: where a call is on its way from    *)
(* get() to its callback, what the parameter map holds, in which order the *)
(* callbacks come, and that the client keeps the promise of AsyncCalls.    *)
(***************************************************************************)
EXTENDS RestClient, SequenceLemmas

\* The definitions that stand for tuples of unchanged variables.
USE DEF eventVars, queueVars, workerVars, lifeVars, updateVars, getVars, histVars

\* The head and the tail of a queue that is not empty.
LEMMA QueueHeadTail ==
  ASSUME NEW S, NEW q \in Seq(S), q # <<>>
  PROVE  Head(q) \in S /\ Tail(q) \in Seq(S)
  OBVIOUS

\* Enqueuing a callback keeps the callback queues well typed.
LEMMA EnqueueCallbackType ==
  ASSUME mCallbackQueue \in [Producers -> Seq(Callbacks)],
         NEW p \in Producers, NEW kind, NEW r,
         [kind |-> kind, req |-> r] \in Callbacks,
         EnqueueCallback(p, kind, r)
  PROVE  mCallbackQueue' \in [Producers -> Seq(Callbacks)]
  <1>1. Append(mCallbackQueue[p], [kind |-> kind, req |-> r]) \in Seq(Callbacks)
    OBVIOUS
  <1> QED
    BY <1>1 DEF EnqueueCallback

\* Taking the first callback of a queue: it is a callback, and what is left
\* are callbacks.
LEMMA DequeueCallbackType ==
  ASSUME mCallbackQueue \in [Producers -> Seq(Callbacks)],
         NEW p \in Producers, mCallbackQueue[p] # <<>>,
         cb' = Head(mCallbackQueue[p]),
         mCallbackQueue' = [mCallbackQueue EXCEPT ![p] = Tail(@)]
  PROVE  /\ cb' \in Callbacks
         /\ mCallbackQueue' \in [Producers -> Seq(Callbacks)]
  <1>1. Head(mCallbackQueue[p]) \in Callbacks /\ Tail(mCallbackQueue[p]) \in Seq(Callbacks)
    BY QueueHeadTail
  <1> QED
    BY <1>1

-----------------------------------------------------------------------------
(***************************************************************************)
(* Type correctness.  The types alone are not inductive: the worker        *)
(* enqueues the callback of its current request, so that there must be one *)
(* (the second part of OneExchange), and get() has a request while it runs.*)
(***************************************************************************)
GetHasRequest == getPc # "none" => getReq \in Requests

TypeInv == TypeOK /\ OneExchange /\ GetHasRequest

LEMMA TypeInit == Init => TypeInv
  <1> SUFFICES ASSUME Init PROVE TypeInv
    OBVIOUS
  <1>1. 0 \in Producers
    BY ConstantsAssumption DEF ConstantsAssumption, Producers
  <1>2. mCallbackQueue \in [Producers -> Seq(Callbacks)]
    BY DEF Init
  <1>3. cb \in Callbacks
    BY DEF Init, NoCallback, Callbacks
  <1>4. TypeOK
    BY <1>1, <1>2, <1>3 DEF Init, TypeOK, WorkerPcs, MainPcs, GetPcs
  <1> QED
    BY <1>4 DEF Init, TypeInv, OneExchange, GetHasRequest

LEMMA TypeStep == TypeInv /\ [Next]_vars => TypeInv'
  <1> SUFFICES ASSUME TypeInv, [Next]_vars PROVE TypeInv'
    OBVIOUS
  <1> USE DEF TypeInv, OneExchange, GetHasRequest
  <1>c. Requests \cup {None} # {} /\ None \notin Requests /\ MaxStarts \in Nat
    BY ConstantsAssumption
  <1>t. TypeOK
    OBVIOUS
  <1>1. ASSUME NEW r \in Requests, GetEmplace(r) PROVE TypeInv'
    BY <1>1, <1>t DEF GetEmplace, TypeOK, GetPcs
  <1>2. CASE GetEmplaced
    BY <1>2, <1>t DEF GetEmplaced, TypeOK, GetPcs
  <1>3. CASE GetEnqueue
    <2>1. mRequestQueue' \in Seq(Requests) /\ issued' \in Seq(Requests)
      BY <1>3, <1>t DEF GetEnqueue, TypeOK
    <2> QED
      BY <1>3, <1>t, <2>1 DEF GetEnqueue, TypeOK, GetPcs
  <1>4. CASE GetSignal
    BY <1>4, <1>t DEF GetSignal, EventSet, TypeOK, GetPcs
  <1>5. CASE WorkerLoop
    BY <1>5, <1>t DEF WorkerLoop, TypeOK, WorkerPcs
  <1>6. CASE WorkerWake
    BY <1>6, <1>t, ConstantsAssumption DEF WorkerWake, EventWait, TypeOK, WorkerPcs
  <1>7. CASE WorkerDequeue
    <2>1. cur' \in Requests /\ mRequestQueue' \in Seq(Requests)
      BY <1>7, <1>t, QueueHeadTail DEF WorkerDequeue, TypeOK
    <2> QED
      BY <1>7, <1>t, <1>c, <2>1 DEF WorkerDequeue, TypeOK, WorkerPcs
  <1>8. CASE WorkerDrained
    BY <1>8, <1>t DEF WorkerDrained, TypeOK, WorkerPcs
  <1>9. CASE WorkerLookup
    <2>1. cur \in Requests
      BY <1>9, <1>t DEF WorkerLookup, TypeOK
    <2>2. sent' \in [Requests -> {"none", "given", "empty"}]
      BY <1>9, <1>t, <2>1 DEF WorkerLookup, TypeOK, Params
    <2> QED
      BY <1>9, <1>t, <2>1, <2>2 DEF WorkerLookup, TypeOK, WorkerPcs
  <1>10. CASE WorkerAcquire
    BY <1>10, <1>t DEF WorkerAcquire, RequestMutexFree, TypeOK, WorkerPcs
  <1>11. CASE WorkerProgress
    <2>1. starts \in Producers /\ [kind |-> "progress", req |-> cur] \in Callbacks
      BY <1>11, <1>t DEF WorkerProgress, TypeOK, Callbacks
    <2>2. mCallbackQueue' \in [Producers -> Seq(Callbacks)]
      BY <1>11, <1>t, <2>1, EnqueueCallbackType DEF WorkerProgress, TypeOK
    <2> QED
      BY <1>11, <1>t, <2>2 DEF WorkerProgress, TypeOK
  <1>12. CASE WorkerSent
    <2>1. PICK kind \in Completion : EnqueueCallback(starts, kind, cur)
      BY <1>12 DEF WorkerSent
    <2>2. starts \in Producers /\ [kind |-> kind, req |-> cur] \in Callbacks
      BY <1>12, <1>t DEF WorkerSent, TypeOK, Callbacks
    <2>3. mCallbackQueue' \in [Producers -> Seq(Callbacks)]
      BY <1>t, <2>1, <2>2, EnqueueCallbackType DEF TypeOK
    <2> QED
      BY <1>12, <1>t, <2>3 DEF WorkerSent, TypeOK, WorkerPcs
  <1>13. CASE UpdateBegin
    BY <1>13, <1>t DEF UpdateBegin, TypeOK, MainPcs
  <1>14. ASSUME NEW p \in Producers, UpdateDequeue(p) PROVE TypeInv'
    <2>1. cb' \in Callbacks /\ mCallbackQueue' \in [Producers -> Seq(Callbacks)]
      BY <1>14, <1>t, DequeueCallbackType DEF UpdateDequeue, TypeOK
    <2>2. cb'.kind # "progress" => cb'.req \in Requests
      BY <2>1 DEF Callbacks
    <2>3. answers' \in Seq(Requests)
      BY <1>14, <1>t, <2>2 DEF UpdateDequeue, TypeOK
    <2> QED
      BY <1>14, <1>t, <2>1, <2>3 DEF UpdateDequeue, TypeOK, MainPcs
  <1>15. CASE CallbackReturn
    BY <1>15, <1>t DEF CallbackReturn, TypeOK, MainPcs
  <1>16. CASE CallbackErase
    BY <1>16, <1>t DEF CallbackErase, TypeOK, MainPcs
  <1>17. CASE UpdateEnd
    BY <1>17, <1>t DEF UpdateEnd, TypeOK, MainPcs
  <1>18. CASE BlockingCall
    BY <1>18, <1>t DEF BlockingCall, TypeOK, MainPcs
  <1>19. CASE BlockingAcquire
    BY <1>19, <1>t DEF BlockingAcquire, RequestMutexFree, TypeOK, MainPcs
  <1>20. CASE BlockingProgress
    <2>1. 0 \in Producers /\ [kind |-> "progress", req |-> None] \in Callbacks
      BY <1>c DEF Producers, Callbacks
    <2>2. mCallbackQueue' \in [Producers -> Seq(Callbacks)]
      BY <1>20, <1>t, <2>1, EnqueueCallbackType DEF BlockingProgress, TypeOK
    <2> QED
      BY <1>20, <1>t, <2>2 DEF BlockingProgress, TypeOK
  <1>21. CASE BlockingReturn
    BY <1>21, <1>t DEF BlockingReturn, TypeOK, MainPcs
  <1>22. CASE Start
    <2>1. starts' \in Producers
      BY <1>22, <1>t, <1>c DEF Start, TypeOK, Producers
    <2> QED
      BY <1>22, <1>t, <2>1 DEF Start, TypeOK, WorkerPcs
  <1>23. CASE StopCancel
    BY <1>23, <1>t DEF StopCancel, EventCancelWait, TypeOK, MainPcs
  <1>24. CASE StopClear
    BY <1>24, <1>t DEF StopClear, TypeOK, MainPcs
  <1>25. CASE StopJoin
    BY <1>25, <1>t DEF StopJoin, TypeOK, MainPcs, WorkerPcs
  <1>26. CASE UNCHANGED vars
    BY <1>26, <1>t DEF vars, TypeOK
  <1> QED
    BY <1>1, <1>2, <1>3, <1>4, <1>5, <1>6, <1>7, <1>8, <1>9, <1>10, <1>11, <1>12, <1>13,
       <1>14, <1>15, <1>16, <1>17, <1>18, <1>19, <1>20, <1>21, <1>22, <1>23, <1>24, <1>25,
       <1>26
    DEF Next, GetStep, WorkerStep, CallbackStep

LEMMA TypeInvariant == Spec => []TypeInv
  BY TypeInit, TypeStep, PTL DEF Spec

\* Every variable keeps its type, whatever the calls and the bounds.
THEOREM TypeCorrect == Spec => []TypeOK
  <1>1. TypeInv => TypeOK
    BY DEF TypeInv
  <1> QED
    BY <1>1, TypeInvariant, PTL

\* The blocking call and the worker's call never overlap in the httplib client,
\* and a request is in flight only on a live worker.
THEOREM ExchangesAreExclusive == Spec => []OneExchange
  <1>1. TypeInv => OneExchange
    BY DEF TypeInv
  <1> QED
    BY <1>1, TypeInvariant, PTL

-----------------------------------------------------------------------------
(***************************************************************************)
(* No lost wake-up.  NoLostWakeup is inductive as it stands: get() makes   *)
(* its second disjunct true before the first (enqueue, then set), and the  *)
(* worker consumes the signal only to make the third one true; it leaves   *)
(* the third only when it has just found the queue empty.                  *)
(***************************************************************************)
LEMMA WakeupStep == NoLostWakeup /\ [Next]_vars => NoLostWakeup'
  <1> SUFFICES ASSUME NoLostWakeup, [Next]_vars PROVE NoLostWakeup'
    OBVIOUS
  <1> USE DEF NoLostWakeup
  <1>1. CASE \E r \in Requests : GetEmplace(r)
    BY <1>1 DEF GetEmplace
  <1>2. CASE GetStep
    BY <1>2 DEF GetStep, GetEmplaced, GetEnqueue, GetSignal, EventSet
  <1>3. CASE WorkerStep
    BY <1>3 DEF WorkerStep, WorkerLoop, WorkerWake, EventWait, WorkerDequeue, WorkerDrained,
                WorkerLookup, WorkerAcquire, WorkerSent
  <1>4. CASE WorkerProgress
    BY <1>4 DEF WorkerProgress
  <1>5. CASE UpdateBegin \/ CallbackStep
    BY <1>5 DEF UpdateBegin, CallbackStep, UpdateDequeue, CallbackReturn, CallbackErase,
                UpdateEnd
  <1>6. CASE BlockingCall \/ BlockingAcquire \/ BlockingProgress \/ BlockingReturn
    BY <1>6 DEF BlockingCall, BlockingAcquire, BlockingProgress, BlockingReturn
  <1>7. CASE Start \/ StopCancel \/ StopClear \/ StopJoin
    BY <1>7 DEF Start, StopCancel, EventCancelWait, StopClear, StopJoin
  <1>8. CASE UNCHANGED vars
    BY <1>8 DEF vars
  <1> QED
    BY <1>1, <1>2, <1>3, <1>4, <1>5, <1>6, <1>7, <1>8 DEF Next

\* A queued request never waits for a worker that sleeps without a signal.
THEOREM NeverLosesAWakeup == Spec => []NoLostWakeup
  <1>1. Init => NoLostWakeup
    BY DEF Init, NoLostWakeup
  <1> QED
    BY <1>1, WakeupStep, PTL DEF Spec

-----------------------------------------------------------------------------
(***************************************************************************)
(* The calls: which of them have a completion in a queue.                  *)
(***************************************************************************)
\* The i-th callback of queue p is the completion of call r.
CompletionAt(p, i, r) ==
  /\ i \in DOMAIN mCallbackQueue[p]
  /\ mCallbackQueue[p][i].kind \in Completion
  /\ mCallbackQueue[p][i].req = r

\* The calls whose completion waits for update().
Completed ==
  {r \in Requests : \E p \in Producers : \E i \in DOMAIN mCallbackQueue[p] : CompletionAt(p, i, r)}

-----------------------------------------------------------------------------
(***************************************************************************)
(* The callback queues: what enqueuing and dequeuing does to them.         *)
(***************************************************************************)
CallbackQueueType == mCallbackQueue \in [Producers -> Seq(Callbacks)]

\* A callback is added behind the others of its queue.
LEMMA EnqueueElements ==
  ASSUME CallbackQueueType, NEW p \in Producers, NEW kind, NEW r,
         [kind |-> kind, req |-> r] \in Callbacks,
         EnqueueCallback(p, kind, r)
  PROVE  /\ \A q \in Producers : \A i \in DOMAIN mCallbackQueue[q] :
              /\ i \in Nat
              /\ i \in DOMAIN mCallbackQueue'[q]
              /\ mCallbackQueue'[q][i] = mCallbackQueue[q][i]
         /\ \A q \in Producers : \A i \in DOMAIN mCallbackQueue'[q] :
              i \in DOMAIN mCallbackQueue[q] \/ (q = p /\ i = Len(mCallbackQueue[p]) + 1)
         /\ Len(mCallbackQueue[p]) + 1 \in DOMAIN mCallbackQueue'[p]
         /\ mCallbackQueue'[p][Len(mCallbackQueue[p]) + 1] = [kind |-> kind, req |-> r]
         /\ \A i \in DOMAIN mCallbackQueue[p] : i < Len(mCallbackQueue[p]) + 1
         /\ Len(mCallbackQueue[p]) + 1 \in Nat
  <1> DEFINE m == [kind |-> kind, req |-> r]
  <1>1. \A q \in Producers : mCallbackQueue[q] \in Seq(Callbacks)
    BY DEF CallbackQueueType
  <1>2. /\ mCallbackQueue'[p] = Append(mCallbackQueue[p], m)
        /\ \A q \in Producers : q # p => mCallbackQueue'[q] = mCallbackQueue[q]
    BY DEF EnqueueCallback, CallbackQueueType
  <1>3. \A q \in Producers :
          Len(mCallbackQueue[q]) \in Nat /\ DOMAIN mCallbackQueue[q] = 1 .. Len(mCallbackQueue[q])
    BY <1>1, LenProperties
  <1>4. m \in Callbacks
    OBVIOUS
  <1> HIDE DEF m
  <1>5. /\ DOMAIN mCallbackQueue'[p] = 1 .. (Len(mCallbackQueue[p]) + 1)
        /\ \A i \in DOMAIN mCallbackQueue[p] : mCallbackQueue'[p][i] = mCallbackQueue[p][i]
        /\ mCallbackQueue'[p][Len(mCallbackQueue[p]) + 1] = m
    BY <1>1, <1>2, <1>4, AppendElements
  <1>6. \A i \in DOMAIN mCallbackQueue[p] :
          /\ i \in Nat /\ i < Len(mCallbackQueue[p]) + 1
          /\ i \in DOMAIN mCallbackQueue'[p]
    BY <1>3, <1>5
  <1>7. \A i \in DOMAIN mCallbackQueue'[p] :
          i \in DOMAIN mCallbackQueue[p] \/ i = Len(mCallbackQueue[p]) + 1
    BY <1>3, <1>5
  <1>8. Len(mCallbackQueue[p]) + 1 \in Nat /\ Len(mCallbackQueue[p]) + 1 \in DOMAIN mCallbackQueue'[p]
    BY <1>3, <1>5
  <1>9. \A q \in Producers : \A i \in DOMAIN mCallbackQueue[q] : i \in Nat
    BY <1>3
  <1>10. mCallbackQueue'[p][Len(mCallbackQueue[p]) + 1] = [kind |-> kind, req |-> r]
    BY <1>5 DEF m
  <1> QED
    BY <1>2, <1>5, <1>6, <1>7, <1>8, <1>9, <1>10

\* A progress report changes nothing about the completions.
LEMMA EnqueueProgress ==
  ASSUME CallbackQueueType, NEW p \in Producers, NEW r \in Requests \cup {None},
         EnqueueCallback(p, "progress", r)
  PROVE  \A q \in Producers : \A s, i : CompletionAt(q, i, s)' <=> CompletionAt(q, i, s)
  <1>1. [kind |-> "progress", req |-> r] \in Callbacks
    BY DEF Callbacks
  <1> DEFINE n == Len(mCallbackQueue[p]) + 1
  <1>2. /\ \A q \in Producers : \A i \in DOMAIN mCallbackQueue[q] :
             /\ i \in DOMAIN mCallbackQueue'[q]
             /\ mCallbackQueue'[q][i] = mCallbackQueue[q][i]
        /\ \A q \in Producers : \A i \in DOMAIN mCallbackQueue'[q] :
             i \in DOMAIN mCallbackQueue[q] \/ (q = p /\ i = n)
        /\ mCallbackQueue'[p][n] = [kind |-> "progress", req |-> r]
    BY <1>1, EnqueueElements
  <1>3. mCallbackQueue'[p][n].kind \notin Completion
    BY <1>2 DEF Completion
  <1> HIDE DEF n
  <1> QED
    BY <1>2, <1>3 DEF CompletionAt

\* A completion is added to the completions, last in its queue.
LEMMA EnqueueCompletion ==
  ASSUME CallbackQueueType, NEW p \in Producers, NEW kind \in Completion, NEW r \in Requests,
         EnqueueCallback(p, kind, r)
  PROVE  \A q \in Producers : \A s, i :
           CompletionAt(q, i, s)' <=>
             CompletionAt(q, i, s) \/ (q = p /\ s = r /\ i = Len(mCallbackQueue[p]) + 1)
  <1>1. [kind |-> kind, req |-> r] \in Callbacks
    BY DEF Callbacks
  <1> DEFINE n == Len(mCallbackQueue[p]) + 1
  <1>2. /\ \A q \in Producers : \A i \in DOMAIN mCallbackQueue[q] :
             /\ i \in DOMAIN mCallbackQueue'[q]
             /\ mCallbackQueue'[q][i] = mCallbackQueue[q][i]
        /\ \A q \in Producers : \A i \in DOMAIN mCallbackQueue'[q] :
             i \in DOMAIN mCallbackQueue[q] \/ (q = p /\ i = n)
        /\ n \in DOMAIN mCallbackQueue'[p]
        /\ mCallbackQueue'[p][n] = [kind |-> kind, req |-> r]
        /\ \A i \in DOMAIN mCallbackQueue[p] : i < n
        /\ n \in Nat
    BY <1>1, EnqueueElements
  <1>3. mCallbackQueue'[p][n].kind = kind /\ mCallbackQueue'[p][n].req = r
    BY <1>2
  <1>4. n \notin DOMAIN mCallbackQueue[p]
    BY <1>2
  <1> HIDE DEF n
  <1>5. \A q \in Producers : \A s, i :
          CompletionAt(q, i, s)' <=> CompletionAt(q, i, s) \/ (q = p /\ s = r /\ i = n)
    BY <1>2, <1>3, <1>4 DEF CompletionAt
  <1> QED
    BY <1>5 DEF n

\* The callback that update() takes was the first one of its queue, and those
\* behind it move up.
LEMMA DequeueElements ==
  ASSUME CallbackQueueType, NEW p \in Producers, UpdateDequeue(p)
  PROVE  /\ cb' \in Callbacks
         /\ 1 \in DOMAIN mCallbackQueue[p] /\ cb' = mCallbackQueue[p][1]
         /\ \A q \in Producers : q # p => mCallbackQueue'[q] = mCallbackQueue[q]
         /\ \A q \in Producers : \A i \in DOMAIN mCallbackQueue[q] : i \in Nat \ {0}
         /\ \A i \in DOMAIN mCallbackQueue'[p] :
              /\ i \in Nat \ {0}
              /\ i + 1 \in DOMAIN mCallbackQueue[p]
              /\ mCallbackQueue'[p][i] = mCallbackQueue[p][i + 1]
         /\ \A i \in DOMAIN mCallbackQueue[p] : i # 1 =>
              /\ i - 1 \in DOMAIN mCallbackQueue'[p]
              /\ mCallbackQueue'[p][i - 1] = mCallbackQueue[p][i]
  <1>1. /\ mCallbackQueue[p] # <<>> /\ mCallbackQueue[p] \in Seq(Callbacks)
        /\ cb' = Head(mCallbackQueue[p])
        /\ mCallbackQueue'[p] = Tail(mCallbackQueue[p])
        /\ \A q \in Producers : q # p => mCallbackQueue'[q] = mCallbackQueue[q]
    BY DEF UpdateDequeue, CallbackQueueType
  <1>2. \A q \in Producers : \A i \in DOMAIN mCallbackQueue[q] : i \in Nat \ {0}
    <2>1. \A q \in Producers : mCallbackQueue[q] \in Seq(Callbacks)
      BY DEF CallbackQueueType
    <2> QED
      BY <2>1, LenProperties
  <1> QED
    BY <1>1, <1>2, TailElements

\* The completions of the queue move up; the first one may have been taken.
LEMMA DequeueCompletion ==
  ASSUME CallbackQueueType, NEW p \in Producers, UpdateDequeue(p)
  PROVE  /\ \A q \in Producers : \A s, i : q # p =>
              (CompletionAt(q, i, s)' <=> CompletionAt(q, i, s))
         /\ \A s : \A i \in Nat \ {0} : CompletionAt(p, i, s)' <=> CompletionAt(p, i + 1, s)
         /\ \A s : \A i : CompletionAt(p, i, s)' => i \in Nat \ {0}
         /\ \A s : CompletionAt(p, 1, s) <=> cb'.kind \in Completion /\ cb'.req = s
         /\ \A s : \A i : CompletionAt(p, i, s) /\ i # 1 =>
              i - 1 \in Nat \ {0} /\ CompletionAt(p, i - 1, s)'
  <1>1. /\ 1 \in DOMAIN mCallbackQueue[p] /\ cb' = mCallbackQueue[p][1]
        /\ \A q \in Producers : q # p => mCallbackQueue'[q] = mCallbackQueue[q]
        /\ \A q \in Producers : \A i \in DOMAIN mCallbackQueue[q] : i \in Nat \ {0}
        /\ \A i \in DOMAIN mCallbackQueue'[p] :
             /\ i \in Nat \ {0}
             /\ i + 1 \in DOMAIN mCallbackQueue[p]
             /\ mCallbackQueue'[p][i] = mCallbackQueue[p][i + 1]
        /\ \A i \in DOMAIN mCallbackQueue[p] : i # 1 =>
             /\ i - 1 \in DOMAIN mCallbackQueue'[p]
             /\ mCallbackQueue'[p][i - 1] = mCallbackQueue[p][i]
    BY DequeueElements
  <1>2. \A q \in Producers : \A s, i : q # p =>
          (CompletionAt(q, i, s)' <=> CompletionAt(q, i, s))
    BY <1>1 DEF CompletionAt
  <1>3. \A s : \A i : CompletionAt(p, i, s)' => i \in Nat \ {0} /\ CompletionAt(p, i + 1, s)
    BY <1>1 DEF CompletionAt
  <1>4. ASSUME NEW s, NEW i, CompletionAt(p, i, s), i # 1
        PROVE  i - 1 \in Nat \ {0} /\ CompletionAt(p, i - 1, s)'
    <2>1. i \in DOMAIN mCallbackQueue[p] /\ i \in Nat \ {0}
      BY <1>1, <1>4 DEF CompletionAt
    <2>2. i - 1 \in Nat \ {0}
      BY <1>4, <2>1
    <2> QED
      BY <1>1, <1>4, <2>1, <2>2 DEF CompletionAt
  <1>5. ASSUME NEW s, NEW i \in Nat \ {0}, CompletionAt(p, i + 1, s)
        PROVE  CompletionAt(p, i, s)'
    <2>1. i + 1 # 1 /\ (i + 1) - 1 = i
      OBVIOUS
    <2> QED
      BY <1>4, <1>5, <2>1
  <1>6. \A s : CompletionAt(p, 1, s) <=> cb'.kind \in Completion /\ cb'.req = s
    BY <1>1 DEF CompletionAt
  <1> QED
    BY <1>2, <1>3, <1>4, <1>5, <1>6

-----------------------------------------------------------------------------
(***************************************************************************)
(* The way of a call.  Issued calls are in the request queue, at the       *)
(* worker, among the completions or answered: Covered says that they are   *)
(* nowhere else, Apart that they are in one of the four only, and Once     *)
(* that they are in it once.                                               *)
(***************************************************************************)
CompletionsOnce ==
  \A r \in Requests : \A p, q \in Producers :
    \A i \in DOMAIN mCallbackQueue[p], j \in DOMAIN mCallbackQueue[q] :
      CompletionAt(p, i, r) /\ CompletionAt(q, j, r) => p = q /\ i = j

Once ==
  /\ IsInjective(mRequestQueue)
  /\ IsInjective(answers)
  /\ IsInjective(issued)
  /\ CompletionsOnce

Apart ==
  /\ cur \notin Range(mRequestQueue) \cup Completed \cup Range(answers)
  /\ Completed \cap (Range(mRequestQueue) \cup Range(answers)) = {}
  /\ Range(mRequestQueue) \cap Range(answers) = {}

Covered ==
  Range(issued) = Range(mRequestQueue) \cup ({cur} \ {None}) \cup Completed \cup Range(answers)

WayInv == Once /\ Apart /\ Covered

\* get() works on a call it has not issued yet, between frames or in a callback.
GetInv ==
  /\ getPc \in {"emplacing", "emplaced"} => getReq \notin Range(issued)
  /\ getPc # "none" => main \in {"idle", "callback"}

\* A call is in the set of completions when its completion is in a queue.
LEMMA CompletedIsAt ==
  ASSUME NEW r \in Requests, NEW p \in Producers, NEW i, CompletionAt(p, i, r)
  PROVE  r \in Completed /\ i \in DOMAIN mCallbackQueue[p]
  BY DEF CompletionAt, Completed

\* The completions, and that they come once, depend on CompletionAt only.
LEMMA SameCompletions ==
  ASSUME \A q \in Producers : \A s, i : CompletionAt(q, i, s)' <=> CompletionAt(q, i, s)
  PROVE  Completed' = Completed /\ (CompletionsOnce => CompletionsOnce')
  <1>1. Completed' = Completed
    <2>1. \A r \in Requests : r \in Completed' <=> \E p \in Producers : \E i : CompletionAt(p, i, r)'
      BY DEF Completed, CompletionAt
    <2>2. \A r \in Requests : r \in Completed <=> \E p \in Producers : \E i : CompletionAt(p, i, r)
      BY DEF Completed, CompletionAt
    <2>3. \A r \in Requests : r \in Completed' <=> r \in Completed
      BY <2>1, <2>2
    <2> QED
      BY <2>3 DEF Completed
  <1>2. CompletionsOnce => CompletionsOnce'
    BY DEF CompletionsOnce, CompletionAt
  <1> QED
    BY <1>1, <1>2

\* With its completion, a call joins the completions.
LEMMA MoreCompletions ==
  ASSUME CallbackQueueType, NEW p \in Producers, NEW kind \in Completion, NEW r \in Requests,
         EnqueueCallback(p, kind, r), r \notin Completed, CompletionsOnce
  PROVE  Completed' = Completed \cup {r} /\ CompletionsOnce'
  <1> DEFINE n == Len(mCallbackQueue[p]) + 1
  <1>1. \A q \in Producers : \A s, i :
          CompletionAt(q, i, s)' <=> CompletionAt(q, i, s) \/ (q = p /\ s = r /\ i = n)
    BY EnqueueCompletion
  <1> HIDE DEF n
  <1>2. \A q \in Producers : \A s, i : CompletionAt(q, i, s)' => i \in DOMAIN mCallbackQueue'[q]
    BY DEF CompletionAt
  <1>3. \A s \in Requests : s \in Completed' <=> \E q \in Producers : \E i : CompletionAt(q, i, s)'
    BY <1>2 DEF Completed
  <1>4. \A s \in Requests : s \in Completed <=> \E q \in Producers : \E i : CompletionAt(q, i, s)
    BY DEF Completed, CompletionAt
  <1>5. \A s \in Requests : s \in Completed' <=> s \in Completed \/ s = r
    BY <1>1, <1>3, <1>4
  <1>6. Completed' = Completed \cup {r}
    BY <1>5 DEF Completed
  <1>7. \A q \in Producers : \A i : ~ CompletionAt(q, i, r)
    BY <1>4
  <1>8. ASSUME NEW s \in Requests, NEW q1 \in Producers, NEW q2 \in Producers, NEW i, NEW j,
               CompletionAt(q1, i, s)', CompletionAt(q2, j, s)'
        PROVE  q1 = q2 /\ i = j
    <2>1. CASE s = r
      BY <1>1, <1>7, <1>8, <2>1
    <2>2. CASE s # r
      <3>1. CompletionAt(q1, i, s) /\ CompletionAt(q2, j, s)
        BY <1>1, <1>8, <2>2
      <3>2. i \in DOMAIN mCallbackQueue[q1] /\ j \in DOMAIN mCallbackQueue[q2]
        BY <3>1 DEF CompletionAt
      <3> QED
        BY <3>1, <3>2 DEF CompletionsOnce
    <2> QED
      BY <2>1, <2>2
  <1> QED
    BY <1>6, <1>8 DEF CompletionsOnce

\* When its completion is taken from the queue, a call leaves the completions;
\* a progress report leaves them as they are.
LEMMA FewerCompletions ==
  ASSUME CallbackQueueType, NEW p \in Producers, UpdateDequeue(p), CompletionsOnce
  PROVE  /\ CompletionsOnce'
         /\ cb'.kind = "progress" => Completed' = Completed
         /\ cb'.kind # "progress" =>
              /\ cb'.req \in Completed
              /\ Completed' = Completed \ {cb'.req}
  <1>1. /\ \A q \in Producers : \A s, i : q # p =>
             (CompletionAt(q, i, s)' <=> CompletionAt(q, i, s))
        /\ \A s : \A i \in Nat \ {0} : CompletionAt(p, i, s)' <=> CompletionAt(p, i + 1, s)
        /\ \A s : \A i : CompletionAt(p, i, s)' => i \in Nat \ {0}
        /\ \A s : CompletionAt(p, 1, s) <=> cb'.kind \in Completion /\ cb'.req = s
        /\ \A s : \A i : CompletionAt(p, i, s) /\ i # 1 =>
             i - 1 \in Nat \ {0} /\ CompletionAt(p, i - 1, s)'
    BY DequeueCompletion
  <1>2. \A s \in Requests : s \in Completed' <=> \E q \in Producers : \E i : CompletionAt(q, i, s)'
    BY DEF Completed, CompletionAt
  <1>3. \A s \in Requests : s \in Completed <=> \E q \in Producers : \E i : CompletionAt(q, i, s)
    BY DEF Completed, CompletionAt
  <1>4. \A s \in Requests : \A q1, q2 \in Producers : \A i, j :
          CompletionAt(q1, i, s) /\ CompletionAt(q2, j, s) => q1 = q2 /\ i = j
    BY DEF CompletionsOnce, CompletionAt
  <1>5. cb' \in Callbacks
    BY DequeueElements
  <1>6. cb'.kind # "progress" => cb'.kind \in Completion /\ cb'.req \in Requests
    BY <1>5 DEF Callbacks
  <1>7. ASSUME NEW s \in Requests, NEW q1 \in Producers, NEW q2 \in Producers, NEW i, NEW j,
               CompletionAt(q1, i, s)', CompletionAt(q2, j, s)'
        PROVE  q1 = q2 /\ i = j
    <2>1. CASE q1 # p /\ q2 # p
      BY <1>1, <1>4, <1>7, <2>1
    <2>2. CASE q1 = p /\ q2 # p
      BY <1>1, <1>4, <1>7, <2>2
    <2>3. CASE q1 # p /\ q2 = p
      BY <1>1, <1>4, <1>7, <2>3
    <2>4. CASE q1 = p /\ q2 = p
      <3>1. i \in Nat \ {0} /\ j \in Nat \ {0}
        BY <1>1, <1>7, <2>4
      <3>2. CompletionAt(p, i + 1, s) /\ CompletionAt(p, j + 1, s)
        BY <1>1, <1>7, <2>4, <3>1
      <3>3. i + 1 = j + 1
        BY <1>4, <3>2
      <3> QED
        BY <2>4, <3>1, <3>3
    <2> QED
      BY <2>1, <2>2, <2>3, <2>4
  <1>8. CompletionsOnce'
    BY <1>7 DEF CompletionsOnce
  <1>9. ASSUME NEW s \in Requests
        PROVE  s \in Completed' <=> s \in Completed /\ ~ CompletionAt(p, 1, s)
    <2>1. ASSUME s \in Completed' PROVE s \in Completed /\ ~ CompletionAt(p, 1, s)
      <3>1. PICK q \in Producers : \E i : CompletionAt(q, i, s)'
        BY <1>2, <2>1
      <3>2. PICK i : CompletionAt(q, i, s)'
        BY <3>1
      <3>3. CASE q # p
        BY <1>1, <1>3, <1>4, <3>2, <3>3
      <3>4. CASE q = p
        <4>1. i \in Nat \ {0} /\ CompletionAt(p, i + 1, s)
          BY <1>1, <3>2, <3>4
        <4>2. i + 1 # 1
          BY <4>1
        <4> QED
          BY <1>3, <1>4, <4>1, <4>2
      <3> QED
        BY <3>3, <3>4
    <2>2. ASSUME s \in Completed, ~ CompletionAt(p, 1, s) PROVE s \in Completed'
      <3>1. PICK q \in Producers : \E i : CompletionAt(q, i, s)
        BY <1>3, <2>2
      <3>2. PICK i : CompletionAt(q, i, s)
        BY <3>1
      <3>3. CASE q # p
        BY <1>1, <1>2, <3>2, <3>3
      <3>4. CASE q = p
        <4>1. i # 1
          BY <2>2, <3>2, <3>4
        <4> QED
          BY <1>1, <1>2, <3>2, <3>4, <4>1
      <3> QED
        BY <3>3, <3>4
    <2> QED
      BY <2>1, <2>2
  <1>10. ASSUME cb'.kind = "progress" PROVE Completed' = Completed
    <2>1. \A s : ~ CompletionAt(p, 1, s)
      BY <1>1, <1>10 DEF Completion
    <2> QED
      BY <1>9, <2>1 DEF Completed
  <1>11. ASSUME cb'.kind # "progress"
         PROVE  cb'.req \in Completed /\ Completed' = Completed \ {cb'.req}
    <2>1. \A s : CompletionAt(p, 1, s) <=> s = cb'.req
      BY <1>1, <1>6, <1>11
    <2>2. cb'.req \in Completed
      BY <1>3, <1>6, <1>11, <2>1
    <2> QED
      BY <1>9, <2>1, <2>2 DEF Completed
  <1> QED
    BY <1>8, <1>10, <1>11

\* The variables the way of a call is about.
wayVars == <<mRequestQueue, mCallbackQueue, cur, issued, answers>>

LEMMA SameWay == WayInv /\ UNCHANGED wayVars => WayInv' /\ Completed' = Completed
  <1> SUFFICES ASSUME WayInv, UNCHANGED wayVars PROVE WayInv' /\ Completed' = Completed
    OBVIOUS
  <1>1. \A q \in Producers : \A s, i : CompletionAt(q, i, s)' <=> CompletionAt(q, i, s)
    BY DEF CompletionAt, wayVars
  <1>2. Completed' = Completed /\ CompletionsOnce'
    BY <1>1, SameCompletions DEF WayInv, Once
  <1> QED
    BY <1>2 DEF WayInv, Once, Apart, Covered, wayVars

\* get() puts a call that was not issued yet at the end of the request queue.
LEMMA EnqueueWay ==
  ASSUME TypeInv, WayInv, GetInv, GetEnqueue
  PROVE  /\ WayInv' /\ Completed' = Completed
         /\ getReq \in Requests \ Range(issued)
         /\ Range(issued') = Range(issued) \cup {getReq}
  <1>1. /\ mRequestQueue' = Append(mRequestQueue, getReq)
        /\ issued' = Append(issued, getReq)
        /\ UNCHANGED <<mCallbackQueue, cur, answers>>
    BY DEF GetEnqueue
  <1>2. getReq \in Requests /\ getReq \notin Range(issued)
    BY DEF GetEnqueue, TypeInv, GetHasRequest, GetInv
  <1>3. mRequestQueue \in Seq(Requests) /\ issued \in Seq(Requests)
    BY DEF TypeInv, TypeOK
  <1>4. /\ getReq \notin Range(mRequestQueue) /\ getReq # cur
        /\ getReq \notin Completed /\ getReq \notin Range(answers)
    BY <1>2, ConstantsAssumption DEF WayInv, Covered
  <1>5. /\ Range(mRequestQueue') = Range(mRequestQueue) \cup {getReq}
        /\ IsInjective(mRequestQueue')
    BY <1>1, <1>2, <1>3, <1>4, QueueAppend DEF WayInv, Once
  <1>6. Range(issued') = Range(issued) \cup {getReq} /\ IsInjective(issued')
    BY <1>1, <1>2, <1>3, QueueAppend DEF WayInv, Once
  <1>7. Completed' = Completed /\ (CompletionsOnce => CompletionsOnce')
    <2>1. \A q \in Producers : \A s, i : CompletionAt(q, i, s)' <=> CompletionAt(q, i, s)
      BY <1>1 DEF CompletionAt
    <2> QED
      BY <2>1, SameCompletions
  <1>8. Once'
    BY <1>1, <1>5, <1>6, <1>7 DEF WayInv, Once
  <1>9. Apart'
    BY <1>1, <1>4, <1>5, <1>7 DEF WayInv, Apart
  <1>10. Covered'
    BY <1>1, <1>5, <1>6, <1>7 DEF WayInv, Covered
  <1> QED
    BY <1>2, <1>6, <1>7, <1>8, <1>9, <1>10 DEF WayInv

\* The worker takes the call at the head of the request queue.
LEMMA DequeueWay ==
  ASSUME TypeInv, WayInv, WorkerDequeue
  PROVE  /\ WayInv' /\ Completed' = Completed
         /\ cur = None /\ cur' = mRequestQueue[1] /\ cur' \in Range(mRequestQueue)
  <1>1. /\ mRequestQueue # <<>> /\ cur' = Head(mRequestQueue)
        /\ mRequestQueue' = Tail(mRequestQueue)
        /\ UNCHANGED <<mCallbackQueue, issued, answers>>
    BY DEF WorkerDequeue
  <1>2. cur = None
    BY DEF WorkerDequeue, TypeInv, OneExchange
  <1>3. mRequestQueue \in Seq(Requests)
    BY DEF TypeInv, TypeOK
  <1>4. /\ cur' \in Range(mRequestQueue) /\ IsInjective(mRequestQueue')
        /\ Range(mRequestQueue') = Range(mRequestQueue) \ {cur'}
    BY <1>1, <1>3, QueueHead DEF WayInv, Once
  <1>5. cur' = mRequestQueue[1] /\ cur' \in Requests
    BY <1>1, <1>3, TailElements
  <1>6. Completed' = Completed /\ (CompletionsOnce => CompletionsOnce')
    <2>1. \A q \in Producers : \A s, i : CompletionAt(q, i, s)' <=> CompletionAt(q, i, s)
      BY <1>1 DEF CompletionAt
    <2> QED
      BY <2>1, SameCompletions
  <1>7. Once'
    BY <1>1, <1>4, <1>6 DEF WayInv, Once
  <1>8. Apart'
    BY <1>1, <1>4, <1>6 DEF WayInv, Apart
  <1>9. Covered'
    BY <1>1, <1>2, <1>4, <1>5, <1>6, ConstantsAssumption DEF WayInv, Covered
  <1> QED
    BY <1>2, <1>4, <1>5, <1>6, <1>7, <1>8, <1>9 DEF WayInv

\* Progress does not move a call.
LEMMA ProgressWay ==
  ASSUME TypeInv, WayInv, NEW p \in Producers, NEW r \in Requests \cup {None},
         EnqueueCallback(p, "progress", r),
         UNCHANGED <<mRequestQueue, cur, issued, answers>>
  PROVE  WayInv' /\ Completed' = Completed
  <1>1. CallbackQueueType
    BY DEF TypeInv, TypeOK, CallbackQueueType
  <1>2. Completed' = Completed /\ CompletionsOnce'
    BY <1>1, EnqueueProgress, SameCompletions DEF WayInv, Once
  <1> QED
    BY <1>2 DEF WayInv, Once, Apart, Covered

\* The worker's call joins the completions.
LEMMA SentWay ==
  ASSUME TypeInv, WayInv, WorkerSent
  PROVE  WayInv' /\ cur \in Requests /\ Completed' = Completed \cup {cur}
  <1>1. PICK kind \in Completion : EnqueueCallback(starts, kind, cur)
    BY DEF WorkerSent
  <1>2. cur' = None /\ UNCHANGED <<mRequestQueue, issued, answers>>
    BY DEF WorkerSent
  <1>3. cur \in Requests /\ starts \in Producers /\ CallbackQueueType
    BY DEF WorkerSent, TypeInv, TypeOK, OneExchange, CallbackQueueType
  <1>4. cur \notin Completed /\ CompletionsOnce
    BY DEF WayInv, Apart, Once
  <1>5. Completed' = Completed \cup {cur} /\ CompletionsOnce'
    BY <1>1, <1>3, <1>4, MoreCompletions
  <1>6. Range(mRequestQueue) \subseteq Requests /\ Range(answers) \subseteq Requests
    BY LenProperties DEF TypeInv, TypeOK, Range
  <1>7. Once'
    BY <1>2, <1>5 DEF WayInv, Once
  <1>8. Apart'
    <2>1. None \notin Range(mRequestQueue) \cup Completed' \cup Range(answers)
      BY <1>6, ConstantsAssumption DEF Completed
    <2> QED
      BY <1>2, <1>5, <2>1 DEF WayInv, Apart
  <1>9. Covered'
    BY <1>2, <1>3, <1>5, ConstantsAssumption DEF WayInv, Covered
  <1> QED
    BY <1>3, <1>5, <1>7, <1>8, <1>9 DEF WayInv

\* A call whose completion update() takes has its answer.
LEMMA AnswerWay ==
  ASSUME TypeInv, WayInv, NEW p \in Producers, UpdateDequeue(p)
  PROVE  /\ WayInv'
         /\ cb'.kind = "progress" => answers' = answers /\ Completed' = Completed
         /\ cb'.kind # "progress" =>
              /\ answers' = Append(answers, cb'.req)
              /\ Range(answers') = Range(answers) \cup {cb'.req}
              /\ cb'.req \in Completed
              /\ Completed' = Completed \ {cb'.req}
  <1>1. UNCHANGED <<mRequestQueue, cur, issued>>
    BY DEF UpdateDequeue
  <1>2. answers \in Seq(Requests) /\ CallbackQueueType /\ CompletionsOnce
    BY DEF TypeInv, TypeOK, CallbackQueueType, WayInv, Once
  <1>3. /\ CompletionsOnce'
        /\ cb'.kind = "progress" => Completed' = Completed
        /\ cb'.kind # "progress" =>
             /\ cb'.req \in Completed
             /\ Completed' = Completed \ {cb'.req}
    BY <1>2, FewerCompletions
  <1>4. CASE cb'.kind = "progress"
    <2>1. answers' = answers
      BY <1>4 DEF UpdateDequeue
    <2> QED
      BY <1>1, <1>3, <1>4, <2>1 DEF WayInv, Once, Apart, Covered
  <1>5. CASE cb'.kind # "progress"
    <2>1. answers' = Append(answers, cb'.req)
      BY <1>5 DEF UpdateDequeue
    <2>2. cb'.req \in Requests /\ cb'.req \notin Range(answers)
      BY <1>3, <1>5 DEF Completed, WayInv, Apart
    <2>3. Range(answers') = Range(answers) \cup {cb'.req} /\ IsInjective(answers')
      BY <1>2, <2>1, <2>2, QueueAppend DEF WayInv, Once
    <2>4. Once'
      BY <1>1, <1>3, <2>3 DEF WayInv, Once
    <2>5. Apart'
      BY <1>1, <1>3, <1>5, <2>3 DEF WayInv, Apart
    <2>6. Covered'
      BY <1>1, <1>3, <1>5, <2>3 DEF WayInv, Covered
    <2> QED
      BY <1>3, <1>5, <2>1, <2>3, <2>4, <2>5, <2>6 DEF WayInv
  <1> QED
    BY <1>4, <1>5

LEMMA WayInit == Init => WayInv /\ GetInv
  <1> SUFFICES ASSUME Init PROVE WayInv /\ GetInv
    OBVIOUS
  <1>1. /\ mRequestQueue = <<>> /\ answers = <<>> /\ issued = <<>> /\ cur = None
        /\ \A p \in Producers : mCallbackQueue[p] = <<>>
    BY DEF Init
  <1>2. \A p \in Producers : DOMAIN mCallbackQueue[p] = {}
    BY <1>1
  <1>3. Range(<<>>) = {} /\ IsInjective(<<>>)
    BY DEF Range, IsInjective
  <1>4. Completed = {} /\ CompletionsOnce
    BY <1>2 DEF Completed, CompletionsOnce
  <1>5. WayInv
    BY <1>1, <1>3, <1>4 DEF WayInv, Once, Apart, Covered
  <1> QED
    BY <1>5 DEF Init, GetInv

LEMMA WayStep == TypeInv /\ WayInv /\ GetInv /\ [Next]_vars => WayInv'
  <1> SUFFICES ASSUME TypeInv, WayInv, GetInv, [Next]_vars PROVE WayInv'
    OBVIOUS
  <1>1. CASE \E r \in Requests : GetEmplace(r)
    BY <1>1, SameWay DEF GetEmplace, wayVars
  <1>2. CASE GetEmplaced \/ GetSignal
    BY <1>2, SameWay DEF GetEmplaced, GetSignal, wayVars
  <1>3. CASE GetEnqueue
    BY <1>3, EnqueueWay
  <1>4. CASE WorkerLoop \/ WorkerWake \/ WorkerDrained \/ WorkerLookup \/ WorkerAcquire
    BY <1>4, SameWay DEF WorkerLoop, WorkerWake, WorkerDrained, WorkerLookup, WorkerAcquire,
                         wayVars
  <1>5. CASE WorkerDequeue
    BY <1>5, DequeueWay
  <1>6. CASE WorkerSent
    BY <1>6, SentWay
  <1>7. CASE WorkerProgress
    <2>1. starts \in Producers /\ cur \in Requests \cup {None}
      BY DEF TypeInv, TypeOK
    <2>2. EnqueueCallback(starts, "progress", cur)
          /\ UNCHANGED <<mRequestQueue, cur, issued, answers>>
      BY <1>7 DEF WorkerProgress
    <2> QED
      BY <2>1, <2>2, ProgressWay
  <1>8. CASE BlockingProgress
    <2>1. 0 \in Producers
      BY ConstantsAssumption DEF Producers
    <2>2. EnqueueCallback(0, "progress", None)
          /\ UNCHANGED <<mRequestQueue, cur, issued, answers>>
      BY <1>8 DEF BlockingProgress
    <2> QED
      BY <2>1, <2>2, ProgressWay
  <1>9. ASSUME NEW p \in Producers, UpdateDequeue(p) PROVE WayInv'
    BY <1>9, AnswerWay
  <1>10. CASE UpdateBegin \/ CallbackReturn \/ CallbackErase \/ UpdateEnd
    BY <1>10, SameWay DEF UpdateBegin, CallbackReturn, CallbackErase, UpdateEnd, wayVars
  <1>11. CASE BlockingCall \/ BlockingAcquire \/ BlockingReturn
    BY <1>11, SameWay DEF BlockingCall, BlockingAcquire, BlockingReturn, wayVars
  <1>12. CASE Start \/ StopCancel \/ StopClear \/ StopJoin
    BY <1>12, SameWay DEF Start, StopCancel, StopClear, StopJoin, wayVars
  <1>13. CASE UNCHANGED vars
    BY <1>13, SameWay DEF vars, wayVars
  <1> QED
    BY <1>1, <1>2, <1>3, <1>4, <1>5, <1>6, <1>7, <1>8, <1>9, <1>10, <1>11, <1>12, <1>13
    DEF Next, GetStep, WorkerStep, CallbackStep

LEMMA GetStepInv == TypeInv /\ WayInv /\ GetInv /\ [Next]_vars => GetInv'
  <1> SUFFICES ASSUME TypeInv, WayInv, GetInv, [Next]_vars PROVE GetInv'
    OBVIOUS
  <1>1. CASE \E r \in Requests : GetEmplace(r)
    BY <1>1 DEF GetEmplace, GetInv
  <1>2. CASE GetStep
    BY <1>2 DEF GetStep, GetEmplaced, GetEnqueue, GetSignal, GetInv
  <1>3. CASE WorkerStep \/ WorkerProgress
    BY <1>3 DEF WorkerStep, WorkerLoop, WorkerWake, WorkerDequeue, WorkerDrained, WorkerLookup,
                WorkerAcquire, WorkerSent, WorkerProgress, GetInv
  <1>4. ASSUME NEW p \in Producers, UpdateDequeue(p) PROVE GetInv'
    BY <1>4 DEF UpdateDequeue, GetInv
  <1>5. CASE UpdateBegin \/ CallbackReturn \/ CallbackErase \/ UpdateEnd
    BY <1>5 DEF UpdateBegin, CallbackReturn, CallbackErase, UpdateEnd, GetInv
  <1>6. CASE BlockingCall \/ BlockingAcquire \/ BlockingProgress \/ BlockingReturn
    BY <1>6 DEF BlockingCall, BlockingAcquire, BlockingProgress, BlockingReturn, GetInv
  <1>7. CASE Start \/ StopCancel \/ StopClear \/ StopJoin
    BY <1>7 DEF Start, StopCancel, StopClear, StopJoin, GetInv
  <1>8. CASE UNCHANGED vars
    BY <1>8 DEF vars, GetInv
  <1> QED
    BY <1>1, <1>2, <1>3, <1>4, <1>5, <1>6, <1>7, <1>8 DEF Next, CallbackStep

LEMMA WayInvariant == Spec => [](TypeInv /\ WayInv /\ GetInv)
  <1>1. Init => TypeInv /\ WayInv /\ GetInv
    BY TypeInit, WayInit
  <1>2. TypeInv /\ WayInv /\ GetInv /\ [Next]_vars => (TypeInv /\ WayInv /\ GetInv)'
    BY TypeStep, WayStep, GetStepInv
  <1> QED
    BY <1>1, <1>2, PTL DEF Spec

\* The places of a call, one kind of place after the other.
LEMMA PlacesOf ==
  ASSUME NEW r \in Requests, NEW pl
  PROVE  pl \in Places(r) <=>
           \/ \E i \in DOMAIN mRequestQueue : mRequestQueue[i] = r /\ pl = <<"requested", i>>
           \/ r = cur /\ pl = <<"performed", r>>
           \/ \E p \in Producers : \E i \in DOMAIN mCallbackQueue[p] :
                CompletionAt(p, i, r) /\ pl = <<"completed", <<p, i>>>>
           \/ \E i \in DOMAIN answers : answers[i] = r /\ pl = <<"answered", i>>
  <1>1. pl \in {<<"requested", i>> : i \in {j \in DOMAIN mRequestQueue : mRequestQueue[j] = r}}
          <=> \E i \in DOMAIN mRequestQueue : mRequestQueue[i] = r /\ pl = <<"requested", i>>
    OBVIOUS
  <1>2. pl \in {<<"performed", w>> : w \in {cur} \cap {r}} <=> r = cur /\ pl = <<"performed", r>>
    OBVIOUS
  <1>3. pl \in {<<"answered", i>> : i \in {j \in DOMAIN answers : answers[j] = r}}
          <=> \E i \in DOMAIN answers : answers[i] = r /\ pl = <<"answered", i>>
    OBVIOUS
  <1>4. ASSUME NEW q
        PROVE  q \in CompletionPlaces /\ mCallbackQueue[q[1]][q[2]].req = r
                 <=> \E p \in Producers : \E i \in DOMAIN mCallbackQueue[p] :
                       CompletionAt(p, i, r) /\ q = <<p, i>>
    <2>1. q \in UNION {{p} \X DOMAIN mCallbackQueue[p] : p \in Producers}
            <=> \E p \in Producers : \E i \in DOMAIN mCallbackQueue[p] : q = <<p, i>>
      <3>1. ASSUME NEW p \in Producers
            PROVE  q \in {p} \X DOMAIN mCallbackQueue[p]
                     <=> \E i \in DOMAIN mCallbackQueue[p] : q = <<p, i>>
        OBVIOUS
      <3> QED
        BY <3>1
    <2> QED
      BY <2>1 DEF CompletionPlaces, CompletionAt
  <1>5. pl \in {<<"completed", q>> :
                  q \in {c \in CompletionPlaces : mCallbackQueue[c[1]][c[2]].req = r}}
          <=> \E p \in Producers : \E i \in DOMAIN mCallbackQueue[p] :
                CompletionAt(p, i, r) /\ pl = <<"completed", <<p, i>>>>
    <2>1. pl \in {<<"completed", q>> :
                    q \in {c \in CompletionPlaces : mCallbackQueue[c[1]][c[2]].req = r}}
            <=> \E q : q \in CompletionPlaces /\ mCallbackQueue[q[1]][q[2]].req = r
                         /\ pl = <<"completed", q>>
      OBVIOUS
    <2> QED
      BY <1>4, <2>1
  <1> QED
    BY <1>1, <1>2, <1>3, <1>5 DEF Places

\* A call that is on its way has one place: it is in one of the four sets, and
\* there only once.
LEMMA OnePlace == TypeInv /\ WayInv => EachCallInOnePlace
  <1> SUFFICES ASSUME TypeInv, WayInv, NEW r \in Requests
               PROVE  IF r \in Range(issued) THEN \E pl \in Places(r) : Places(r) = {pl}
                      ELSE Places(r) = {}
    BY DEF EachCallInOnePlace
  <1>1. r \in Range(mRequestQueue) <=> \E i \in DOMAIN mRequestQueue : mRequestQueue[i] = r
    BY DEF Range
  <1>2. r \in Range(answers) <=> \E i \in DOMAIN answers : answers[i] = r
    BY DEF Range
  <1>3. r \in Completed <=>
          \E p \in Producers : \E i \in DOMAIN mCallbackQueue[p] : CompletionAt(p, i, r)
    BY DEF Completed
  <1>4. r \in Range(issued) <=>
          r \in Range(mRequestQueue) \/ r = cur \/ r \in Completed \/ r \in Range(answers)
    BY ConstantsAssumption DEF WayInv, Covered
  <1>5. CASE r \notin Range(issued)
    <2>1. \A pl : pl \notin Places(r)
      BY <1>1, <1>2, <1>3, <1>4, <1>5, PlacesOf
    <2> QED
      BY <1>5, <2>1
  <1>6. CASE r \in Range(mRequestQueue)
    <2>1. r # cur /\ r \notin Completed /\ r \notin Range(answers)
      BY <1>6 DEF WayInv, Apart
    <2>2. PICK i \in DOMAIN mRequestQueue : mRequestQueue[i] = r
      BY <1>1, <1>6
    <2>3. \A j \in DOMAIN mRequestQueue : mRequestQueue[j] = r => j = i
      BY <2>2 DEF WayInv, Once, IsInjective
    <2>4. \A pl : pl \in Places(r) <=> pl = <<"requested", i>>
      BY <1>2, <1>3, <2>1, <2>2, <2>3, PlacesOf
    <2>5. <<"requested", i>> \in Places(r) /\ Places(r) = {<<"requested", i>>}
      BY <2>4
    <2> QED
      BY <1>4, <1>6, <2>5
  <1>7. CASE r = cur
    <2>1. r \notin Range(mRequestQueue) /\ r \notin Completed /\ r \notin Range(answers)
      BY <1>7 DEF WayInv, Apart
    <2>2. \A pl : pl \in Places(r) <=> pl = <<"performed", r>>
      BY <1>1, <1>2, <1>3, <1>7, <2>1, PlacesOf
    <2>3. <<"performed", r>> \in Places(r) /\ Places(r) = {<<"performed", r>>}
      BY <2>2
    <2> QED
      BY <1>4, <1>7, <2>3
  <1>8. CASE r \in Completed
    <2>1. r # cur /\ r \notin Range(mRequestQueue) /\ r \notin Range(answers)
      BY <1>8 DEF WayInv, Apart
    <2>2. PICK p \in Producers : \E i \in DOMAIN mCallbackQueue[p] : CompletionAt(p, i, r)
      BY <1>3, <1>8
    <2>3. PICK i \in DOMAIN mCallbackQueue[p] : CompletionAt(p, i, r)
      BY <2>2
    <2>4. \A q \in Producers : \A j \in DOMAIN mCallbackQueue[q] :
            CompletionAt(q, j, r) => q = p /\ j = i
      BY <2>3 DEF WayInv, Once, CompletionsOnce
    <2>5. \A pl : pl \in Places(r) <=> pl = <<"completed", <<p, i>>>>
      BY <1>1, <1>2, <2>1, <2>3, <2>4, PlacesOf
    <2>6. <<"completed", <<p, i>>>> \in Places(r) /\ Places(r) = {<<"completed", <<p, i>>>>}
      BY <2>5
    <2> QED
      BY <1>4, <1>8, <2>6
  <1>9. CASE r \in Range(answers)
    <2>1. r # cur /\ r \notin Range(mRequestQueue) /\ r \notin Completed
      BY <1>9 DEF WayInv, Apart
    <2>2. PICK i \in DOMAIN answers : answers[i] = r
      BY <1>2, <1>9
    <2>3. \A j \in DOMAIN answers : answers[j] = r => j = i
      BY <2>2 DEF WayInv, Once, IsInjective
    <2>4. \A pl : pl \in Places(r) <=> pl = <<"answered", i>>
      BY <1>1, <1>3, <2>1, <2>2, <2>3, PlacesOf
    <2>5. <<"answered", i>> \in Places(r) /\ Places(r) = {<<"answered", i>>}
      BY <2>4
    <2> QED
      BY <1>4, <1>9, <2>5
  <1> QED
    BY <1>4, <1>5, <1>6, <1>7, <1>8, <1>9

\* Every call get() has issued is in exactly one place, through any number of
\* stops and restarts: none is lost, none is answered twice.
THEOREM CallsAreNeverLostOrDoubled == Spec => []EachCallInOnePlace
  BY WayInvariant, OnePlace, PTL

-----------------------------------------------------------------------------
(***************************************************************************)
(* The parameter map.  What it holds follows the way of the calls; the     *)
(* entry of a call whose callback runs is kept until the callback returns. *)
(***************************************************************************)
CallbackInv ==
  /\ main \in {"update", "callback", "erasing"} => registered
  /\ main \in {"callback", "erasing"} /\ cb.kind \in Completion => cb.req \in Range(answers)
  /\ main = "erasing" => cb.kind \in Completion

CacheInv == CallbackInv /\ CacheMatchesOutstanding

LEMMA CacheStep == TypeInv /\ WayInv /\ GetInv /\ CacheInv /\ [Next]_vars => CacheInv'
  <1> SUFFICES ASSUME TypeInv, WayInv, GetInv, CacheInv, [Next]_vars PROVE CacheInv'
    OBVIOUS
  <1>c. CallbackInv /\ CacheMatchesOutstanding
    BY DEF CacheInv
  <1>1. CASE \E r \in Requests : GetEmplace(r)
    BY <1>1, <1>c DEF GetEmplace, CacheInv, CallbackInv, CacheMatchesOutstanding
  <1>2. CASE GetEmplaced
    BY <1>2, <1>c DEF GetEmplaced, CacheInv, CallbackInv, CacheMatchesOutstanding
  <1>3. CASE GetEnqueue
    <2>1. /\ getReq \notin Range(issued)
          /\ Range(issued') = Range(issued) \cup {getReq}
      BY <1>3, EnqueueWay
    <2>2. getReq \notin Range(answers)
      BY <2>1 DEF WayInv, Covered
    <2>3. /\ getPc = "emplaced" /\ getPc' = "queued"
          /\ UNCHANGED <<registered, main, cb, mRequestParamsCache, answers, getReq>>
      BY <1>3 DEF GetEnqueue
    <2> QED
      BY <1>c, <2>1, <2>2, <2>3 DEF CacheInv, CallbackInv, CacheMatchesOutstanding
  <1>4. CASE GetSignal
    BY <1>4, <1>c DEF GetSignal, CacheInv, CallbackInv, CacheMatchesOutstanding
  <1>5. CASE WorkerLookup
    <2>1. cur \in Range(issued) \ Range(answers)
      <3>1. cur # None
        BY <1>5 DEF WorkerLookup, TypeInv, OneExchange
      <3> QED
        BY <3>1 DEF WayInv, Covered, Apart
    <2>2. cur \in mRequestParamsCache
      BY <1>c, <2>1 DEF CacheMatchesOutstanding
    <2>3. mRequestParamsCache' = mRequestParamsCache
      BY <1>5, <2>2 DEF WorkerLookup
    <2> QED
      BY <1>5, <1>c, <2>3 DEF WorkerLookup, CacheInv, CallbackInv, CacheMatchesOutstanding
  <1>6. CASE WorkerLoop \/ WorkerWake \/ WorkerDequeue \/ WorkerDrained \/ WorkerAcquire
             \/ WorkerSent \/ WorkerProgress
    BY <1>6, <1>c DEF WorkerLoop, WorkerWake, WorkerDequeue, WorkerDrained, WorkerAcquire,
                WorkerSent, WorkerProgress, CacheInv, CallbackInv, CacheMatchesOutstanding
  <1>7. CASE UpdateBegin
    BY <1>7, <1>c DEF UpdateBegin, CacheInv, CallbackInv, CacheMatchesOutstanding
  <1>8. ASSUME NEW p \in Producers, UpdateDequeue(p) PROVE CacheInv'
    <2>1. /\ main = "update" /\ main' = "callback" /\ registered
          /\ UNCHANGED <<registered, mRequestParamsCache, getPc, getReq, issued>>
      BY <1>8, <1>c DEF UpdateDequeue, CallbackInv
    <2>2. getPc = "none"
      BY <2>1 DEF GetInv
    <2>3. mRequestParamsCache = Range(issued) \ Range(answers)
      BY <1>c, <2>1, <2>2 DEF CacheMatchesOutstanding
    <2>4. CASE cb'.kind = "progress"
      <3>1. answers' = answers /\ cb'.kind \notin Completion
        BY <1>8, <2>4 DEF UpdateDequeue, Completion
      <3> QED
        BY <2>1, <2>2, <2>3, <3>1 DEF CacheInv, CallbackInv, CacheMatchesOutstanding
    <2>5. CASE cb'.kind # "progress"
      <3>1. Range(answers') = Range(answers) \cup {cb'.req} /\ cb'.req \in Completed
        BY <1>8, <2>5, AnswerWay
      <3>2. cb'.kind \in Completion
        <4>1. cb' \in Callbacks
          BY <1>8, TypeStep DEF TypeInv, TypeOK
        <4> QED
          BY <2>5, <4>1 DEF Callbacks
      <3>3. cb'.req \in Range(issued) /\ cb'.req \notin Range(answers)
        BY <3>1 DEF WayInv, Covered, Apart
      <3> QED
        BY <2>1, <2>2, <2>3, <3>1, <3>2, <3>3
        DEF CacheInv, CallbackInv, CacheMatchesOutstanding
    <2> QED
      BY <2>4, <2>5
  <1>9. CASE CallbackReturn
    BY <1>9, <1>c DEF CallbackReturn, CacheInv, CallbackInv, CacheMatchesOutstanding,
                      Completion, TypeInv, TypeOK, Callbacks
  <1>10. CASE CallbackErase
    <2>1. /\ main = "erasing" /\ main' = "update" /\ getPc = "none"
          /\ mRequestParamsCache' = mRequestParamsCache \ {cb.req}
          /\ UNCHANGED <<registered, getPc, getReq, issued, answers, cb>>
      BY <1>10 DEF CallbackErase, GetInv
    <2>2. cb.kind \in Completion
      BY <1>c, <2>1 DEF CallbackInv
    <2> QED
      BY <1>c, <2>1, <2>2 DEF CacheInv, CallbackInv, CacheMatchesOutstanding
  <1>11. CASE UpdateEnd
    BY <1>11, <1>c DEF UpdateEnd, CacheInv, CallbackInv, CacheMatchesOutstanding
  <1>12. CASE BlockingCall \/ BlockingAcquire \/ BlockingProgress \/ BlockingReturn
    BY <1>12, <1>c DEF BlockingCall, BlockingAcquire, BlockingProgress, BlockingReturn,
                 CacheInv, CallbackInv, CacheMatchesOutstanding
  <1>13. CASE Start \/ StopCancel \/ StopClear \/ StopJoin
    BY <1>13, <1>c DEF Start, StopCancel, StopClear, StopJoin,
                 CacheInv, CallbackInv, CacheMatchesOutstanding
  <1>14. CASE UNCHANGED vars
    BY <1>14, <1>c DEF vars, CacheInv, CallbackInv, CacheMatchesOutstanding
  <1> QED
    BY <1>1, <1>2, <1>3, <1>4, <1>5, <1>6, <1>7, <1>8, <1>9, <1>10, <1>11, <1>12, <1>13, <1>14
    DEF Next, GetStep, WorkerStep, CallbackStep

\* Every part of the inductive invariant so far.
LEMMA CacheInvariant == Spec => [](TypeInv /\ WayInv /\ GetInv /\ CacheInv)
  <1>1. Init => CacheInv
    BY WayInit DEF Init, CacheInv, CallbackInv, CacheMatchesOutstanding, NoCallback, Completion,
                   Range
  <1>2. TypeInv /\ WayInv /\ GetInv /\ CacheInv /\ [Next]_vars => CacheInv'
    BY CacheStep
  <1> QED
    BY <1>1, <1>2, WayInvariant, PTL DEF Spec

\* The parameter map has an entry for exactly the calls that are on their way or
\* whose callback runs: run() finds every entry, and none is left behind.
THEOREM CacheIsExact == Spec => []CacheMatchesOutstanding
  <1>1. CacheInv => CacheMatchesOutstanding
    BY DEF CacheInv
  <1> QED
    BY <1>1, CacheInvariant, PTL

-----------------------------------------------------------------------------
(***************************************************************************)
(* The order of the callbacks of one call.  A progress report is of the    *)
(* call the worker performs, or its completion follows in the same queue.  *)
(***************************************************************************)
ProgressAt(p, i, r) ==
  /\ i \in DOMAIN mCallbackQueue[p]
  /\ mCallbackQueue[p][i].kind = "progress"
  /\ mCallbackQueue[p][i].req = r

ProgressInv ==
  \A r \in Requests : \A p \in Producers : \A i \in DOMAIN mCallbackQueue[p] :
    ProgressAt(p, i, r) =>
      \/ r = cur /\ p = starts
      \/ \E j \in DOMAIN mCallbackQueue[p] : i < j /\ CompletionAt(p, j, r)

LEMMA ProgressOrder == TypeInv /\ WayInv /\ ProgressInv => ProgressPrecedesCompletion
  <1> SUFFICES ASSUME TypeInv, WayInv, ProgressInv,
                      NEW p \in Producers, NEW i \in DOMAIN mCallbackQueue[p],
                      mCallbackQueue[p][i].kind = "progress", mCallbackQueue[p][i].req # None
               PROVE  /\ mCallbackQueue[p][i].req \notin Range(answers)
                      /\ \A q \in Producers : \A j \in DOMAIN mCallbackQueue[q] :
                           /\ mCallbackQueue[q][j].kind \in Completion
                           /\ mCallbackQueue[q][j].req = mCallbackQueue[p][i].req
                           => q = p /\ i < j
    BY DEF ProgressPrecedesCompletion
  <1> DEFINE r == mCallbackQueue[p][i].req
  <1>1. r \in Requests
    <2>1. mCallbackQueue[p] \in Seq(Callbacks)
      BY DEF TypeInv, TypeOK
    <2>2. mCallbackQueue[p][i] \in Callbacks
      BY <2>1, LenProperties
    <2> QED
      BY <2>2 DEF Callbacks
  <1>2. ProgressAt(p, i, r)
    BY DEF ProgressAt
  <1>3. \A q \in Producers : \A j \in DOMAIN mCallbackQueue[q] :
          mCallbackQueue[q][j].kind \in Completion /\ mCallbackQueue[q][j].req = r
            => CompletionAt(q, j, r)
    BY DEF CompletionAt
  <1> HIDE DEF r
  <1>4. CASE r = cur
    <2>1. r \notin Range(answers) /\ r \notin Completed
      BY <1>4 DEF WayInv, Apart
    <2>2. \A q \in Producers : \A j : ~ CompletionAt(q, j, r)
      BY <1>1, <2>1, CompletedIsAt
    <2> QED
      BY <1>3, <2>1, <2>2 DEF r
  <1>5. ASSUME NEW j \in DOMAIN mCallbackQueue[p], i < j, CompletionAt(p, j, r)
        PROVE  /\ r \notin Range(answers)
               /\ \A q \in Producers : \A k \in DOMAIN mCallbackQueue[q] :
                    CompletionAt(q, k, r) => q = p /\ i < k
    <2>1. r \in Completed
      BY <1>1, <1>5, CompletedIsAt
    <2>2. r \notin Range(answers)
      BY <2>1 DEF WayInv, Apart
    <2>3. \A q \in Producers : \A k \in DOMAIN mCallbackQueue[q] :
            CompletionAt(q, k, r) => q = p /\ k = j
      BY <1>1, <1>5 DEF WayInv, Once, CompletionsOnce
    <2> QED
      BY <1>5, <2>2, <2>3
  <1>6. CASE \E j \in DOMAIN mCallbackQueue[p] : i < j /\ CompletionAt(p, j, r)
    <2>1. /\ r \notin Range(answers)
          /\ \A q \in Producers : \A k \in DOMAIN mCallbackQueue[q] :
               CompletionAt(q, k, r) => q = p /\ i < k
      BY <1>5, <1>6
    <2> QED
      BY <1>3, <2>1 DEF r
  <1> QED
    BY <1>1, <1>2, <1>4, <1>6 DEF ProgressInv

\* A report of progress, on call r or on none, is enqueued by its own worker.
LEMMA ReportProgress ==
  ASSUME TypeInv, ProgressInv, NEW p \in Producers, NEW r \in Requests \cup {None},
         EnqueueCallback(p, "progress", r), r \in Requests => r = cur /\ p = starts,
         UNCHANGED <<cur, starts>>
  PROVE  ProgressInv'
  <1>1. CallbackQueueType /\ [kind |-> "progress", req |-> r] \in Callbacks
    BY DEF TypeInv, TypeOK, CallbackQueueType, Callbacks
  <1> DEFINE n == Len(mCallbackQueue[p]) + 1
  <1>2. /\ \A q \in Producers : \A i \in DOMAIN mCallbackQueue[q] :
             /\ i \in DOMAIN mCallbackQueue'[q]
             /\ mCallbackQueue'[q][i] = mCallbackQueue[q][i]
        /\ \A q \in Producers : \A i \in DOMAIN mCallbackQueue'[q] :
             i \in DOMAIN mCallbackQueue[q] \/ (q = p /\ i = n)
        /\ mCallbackQueue'[p][n] = [kind |-> "progress", req |-> r]
    BY <1>1, EnqueueElements
  <1>3. \A q \in Producers : \A s, i : CompletionAt(q, i, s)' <=> CompletionAt(q, i, s)
    BY <1>1, EnqueueProgress
  <1> HIDE DEF n
  <1>4. ASSUME NEW s \in Requests, NEW q \in Producers, NEW i \in DOMAIN mCallbackQueue'[q],
               ProgressAt(q, i, s)'
        PROVE  \/ s = cur /\ q = starts
               \/ \E j \in DOMAIN mCallbackQueue'[q] : i < j /\ CompletionAt(q, j, s)'
    <2>1. CASE i \in DOMAIN mCallbackQueue[q]
      <3>1. ProgressAt(q, i, s)
        BY <1>2, <1>4, <2>1 DEF ProgressAt
      <3> QED
        BY <1>2, <1>3, <2>1, <3>1 DEF ProgressInv
    <2>2. CASE q = p /\ i = n
      <3>1. s = r
        BY <1>2, <1>4, <2>2 DEF ProgressAt
      <3> QED
        BY <2>2, <3>1
    <2> QED
      BY <1>2, <2>1, <2>2
  <1> QED
    BY <1>4 DEF ProgressInv

\* The completion of a call comes behind its progress reports.
LEMMA CompleteProgress ==
  ASSUME TypeInv, ProgressInv, WorkerSent
  PROVE  ProgressInv'
  <1>1. PICK kind \in Completion : EnqueueCallback(starts, kind, cur)
    BY DEF WorkerSent
  <1>2. /\ cur \in Requests /\ starts \in Producers /\ CallbackQueueType
        /\ [kind |-> kind, req |-> cur] \in Callbacks
    BY DEF WorkerSent, TypeInv, TypeOK, OneExchange, CallbackQueueType, Callbacks
  <1> DEFINE n == Len(mCallbackQueue[starts]) + 1
  <1>3. /\ \A q \in Producers : \A i \in DOMAIN mCallbackQueue[q] :
             /\ i \in DOMAIN mCallbackQueue'[q]
             /\ mCallbackQueue'[q][i] = mCallbackQueue[q][i]
        /\ \A q \in Producers : \A i \in DOMAIN mCallbackQueue'[q] :
             i \in DOMAIN mCallbackQueue[q] \/ (q = starts /\ i = n)
        /\ n \in DOMAIN mCallbackQueue'[starts]
        /\ mCallbackQueue'[starts][n] = [kind |-> kind, req |-> cur]
        /\ \A i \in DOMAIN mCallbackQueue[starts] : i < n
    BY <1>1, <1>2, EnqueueElements
  <1>4. \A q \in Producers : \A s, i :
          CompletionAt(q, i, s)' <=> CompletionAt(q, i, s) \/ (q = starts /\ s = cur /\ i = n)
    BY <1>1, <1>2, EnqueueCompletion
  <1> HIDE DEF n
  <1>5. ASSUME NEW s \in Requests, NEW q \in Producers, NEW i \in DOMAIN mCallbackQueue'[q],
               ProgressAt(q, i, s)'
        PROVE  \E j \in DOMAIN mCallbackQueue'[q] : i < j /\ CompletionAt(q, j, s)'
    <2>1. ~ (q = starts /\ i = n)
      <3> SUFFICES ASSUME q = starts, i = n PROVE FALSE
        OBVIOUS
      <3>1. kind = "progress"
        BY <1>3, <1>5 DEF ProgressAt
      <3> QED
        BY <3>1 DEF Completion
    <2>2. i \in DOMAIN mCallbackQueue[q] /\ ProgressAt(q, i, s)
      BY <1>3, <1>5, <2>1 DEF ProgressAt
    <2>3. CASE s = cur /\ q = starts
      BY <1>3, <1>4, <2>2, <2>3
    <2>4. CASE \E j \in DOMAIN mCallbackQueue[q] : i < j /\ CompletionAt(q, j, s)
      BY <1>3, <1>4, <2>4
    <2> QED
      BY <2>2, <2>3, <2>4 DEF ProgressInv
  <1> QED
    BY <1>5 DEF ProgressInv

\* Taking the first callback leaves the others in their order.
LEMMA AnswerProgress ==
  ASSUME TypeInv, ProgressInv, NEW p \in Producers, UpdateDequeue(p)
  PROVE  ProgressInv'
  <1>1. CallbackQueueType /\ UNCHANGED <<cur, starts>>
    BY DEF TypeInv, TypeOK, CallbackQueueType, UpdateDequeue
  <1>2. /\ \A q \in Producers : q # p => mCallbackQueue'[q] = mCallbackQueue[q]
        /\ \A q \in Producers : \A i \in DOMAIN mCallbackQueue[q] : i \in Nat \ {0}
        /\ \A i \in DOMAIN mCallbackQueue'[p] :
             /\ i \in Nat \ {0}
             /\ i + 1 \in DOMAIN mCallbackQueue[p]
             /\ mCallbackQueue'[p][i] = mCallbackQueue[p][i + 1]
    BY <1>1, DequeueElements
  <1>3. /\ \A q \in Producers : \A s, i : q # p =>
             (CompletionAt(q, i, s)' <=> CompletionAt(q, i, s))
        /\ \A s : \A i : CompletionAt(p, i, s) /\ i # 1 =>
             i - 1 \in Nat \ {0} /\ CompletionAt(p, i - 1, s)'
    BY <1>1, DequeueCompletion
  <1>4. ASSUME NEW s \in Requests, NEW q \in Producers, NEW i \in DOMAIN mCallbackQueue'[q],
               ProgressAt(q, i, s)'
        PROVE  \/ s = cur /\ q = starts
               \/ \E j \in DOMAIN mCallbackQueue'[q] : i < j /\ CompletionAt(q, j, s)'
    <2>1. CASE q # p
      <3>1. i \in DOMAIN mCallbackQueue[q] /\ ProgressAt(q, i, s)
        BY <1>2, <1>4, <2>1 DEF ProgressAt
      <3> QED
        BY <1>2, <1>3, <2>1, <3>1 DEF ProgressInv
    <2>2. CASE q = p
      <3>1. i \in Nat \ {0} /\ i + 1 \in DOMAIN mCallbackQueue[p] /\ ProgressAt(p, i + 1, s)
        BY <1>2, <1>4, <2>2 DEF ProgressAt
      <3>2. CASE s = cur /\ p = starts
        BY <2>2, <3>2
      <3>3. ASSUME NEW j \in DOMAIN mCallbackQueue[p], i + 1 < j, CompletionAt(p, j, s)
            PROVE  \E k \in DOMAIN mCallbackQueue'[p] : i < k /\ CompletionAt(p, k, s)'
        <4>1. j \in Nat \ {0} /\ j # 1 /\ i < j - 1
          BY <1>2, <3>1, <3>3
        <4>2. CompletionAt(p, j - 1, s)'
          BY <1>3, <3>3, <4>1
        <4>3. j - 1 \in DOMAIN mCallbackQueue'[p]
          BY <4>2 DEF CompletionAt
        <4> QED
          BY <4>1, <4>2, <4>3
      <3> QED
        BY <2>2, <3>1, <3>2, <3>3 DEF ProgressInv
    <2> QED
      BY <2>1, <2>2
  <1> QED
    BY <1>1, <1>4 DEF ProgressInv

LEMMA ProgressStep == TypeInv /\ ProgressInv /\ [Next]_vars => ProgressInv'
  <1> SUFFICES ASSUME TypeInv, ProgressInv, [Next]_vars PROVE ProgressInv'
    OBVIOUS
  <1>a. UNCHANGED <<mCallbackQueue, cur, starts>> => ProgressInv'
    BY DEF ProgressInv, ProgressAt, CompletionAt
  <1>b. cur = None /\ UNCHANGED mCallbackQueue => ProgressInv'
    BY ConstantsAssumption DEF ProgressInv, ProgressAt, CompletionAt
  <1>1. CASE \E r \in Requests : GetEmplace(r)
    BY <1>1, <1>a DEF GetEmplace
  <1>2. CASE GetStep
    BY <1>2, <1>a DEF GetStep, GetEmplaced, GetEnqueue, GetSignal
  <1>3. CASE WorkerLoop \/ WorkerWake \/ WorkerDrained \/ WorkerLookup \/ WorkerAcquire
    BY <1>3, <1>a DEF WorkerLoop, WorkerWake, WorkerDrained, WorkerLookup, WorkerAcquire
  <1>4. CASE WorkerDequeue
    BY <1>4, <1>b DEF WorkerDequeue, TypeInv, OneExchange
  <1>5. CASE WorkerSent
    BY <1>5, CompleteProgress
  <1>6. CASE WorkerProgress
    <2>1. starts \in Producers /\ cur \in Requests \cup {None}
      BY DEF TypeInv, TypeOK
    <2>2. EnqueueCallback(starts, "progress", cur) /\ UNCHANGED <<cur, starts>>
      BY <1>6 DEF WorkerProgress
    <2> QED
      BY <2>1, <2>2, ReportProgress
  <1>7. CASE BlockingProgress
    <2>1. 0 \in Producers /\ None \notin Requests
      BY ConstantsAssumption DEF Producers
    <2>2. EnqueueCallback(0, "progress", None) /\ UNCHANGED <<cur, starts>>
      BY <1>7 DEF BlockingProgress
    <2> QED
      BY <2>1, <2>2, ReportProgress
  <1>8. ASSUME NEW p \in Producers, UpdateDequeue(p) PROVE ProgressInv'
    BY <1>8, AnswerProgress
  <1>9. CASE UpdateBegin \/ CallbackReturn \/ CallbackErase \/ UpdateEnd
    BY <1>9, <1>a DEF UpdateBegin, CallbackReturn, CallbackErase, UpdateEnd
  <1>10. CASE BlockingCall \/ BlockingAcquire \/ BlockingReturn
    BY <1>10, <1>a DEF BlockingCall, BlockingAcquire, BlockingReturn
  <1>11. CASE Start
    BY <1>11, <1>b DEF Start, TypeInv, OneExchange
  <1>12. CASE StopCancel \/ StopClear \/ StopJoin
    BY <1>12, <1>a DEF StopCancel, StopClear, StopJoin
  <1>13. CASE UNCHANGED vars
    BY <1>13, <1>a DEF vars
  <1> QED
    BY <1>1, <1>2, <1>3, <1>4, <1>5, <1>6, <1>7, <1>8, <1>9, <1>10, <1>11, <1>12, <1>13
    DEF Next, GetStep, WorkerStep, CallbackStep

-----------------------------------------------------------------------------
(***************************************************************************)
(* The order of the callbacks of different calls, while the device has     *)
(* been started once.  A call that was issued before another one is ahead  *)
(* of it everywhere: in the request queue, at the worker, among the        *)
(* completions of the only worker and among the answers.                   *)
(***************************************************************************)

\* Completions come from a worker, and a worker from a start().
ThreadInv ==
  /\ worker # "none" => starts > 0
  /\ \A r \in Requests : \A p \in Producers : \A i \in DOMAIN mCallbackQueue[p] :
       CompletionAt(p, i, r) => p \in 1 .. starts

\* Call a has been answered, or its completion is before position j of queue p.
DoneBefore(a, p, j) ==
  \/ a \in Range(answers)
  \/ \E i \in DOMAIN mCallbackQueue[p] : i < j /\ CompletionAt(p, i, a)

Ahead(a, b) ==
  /\ b \in Range(answers) => a \in Range(answers)
  /\ \A p \in Producers : \A j \in DOMAIN mCallbackQueue[p] :
       CompletionAt(p, j, b) => DoneBefore(a, p, j)
  /\ b = cur => a \notin Range(mRequestQueue)
  /\ \A i, j \in DOMAIN mRequestQueue : mRequestQueue[i] = a /\ mRequestQueue[j] = b => i < j

OrderInv ==
  starts <= 1 =>
    /\ \A i \in DOMAIN answers : i \in DOMAIN issued /\ answers[i] = issued[i]
    /\ \A i, j \in DOMAIN issued : i < j => Ahead(issued[i], issued[j])

LEMMA ThreadStep == TypeInv /\ ThreadInv /\ [Next]_vars => ThreadInv'
  <1> SUFFICES ASSUME TypeInv, ThreadInv, [Next]_vars PROVE ThreadInv'
    OBVIOUS
  <1>t. starts \in Nat /\ CallbackQueueType /\ cur \in Requests \cup {None}
    BY ConstantsAssumption DEF TypeInv, TypeOK, Producers, CallbackQueueType
  <1>a. (worker' # "none" => worker # "none") /\ UNCHANGED <<mCallbackQueue, starts>> => ThreadInv'
    BY DEF ThreadInv, CompletionAt
  <1>1. CASE \E r \in Requests : GetEmplace(r)
    BY <1>1, <1>a DEF GetEmplace
  <1>2. CASE GetStep
    BY <1>2, <1>a DEF GetStep, GetEmplaced, GetEnqueue, GetSignal
  <1>3. CASE WorkerLoop \/ WorkerWake \/ WorkerDequeue \/ WorkerDrained \/ WorkerLookup
             \/ WorkerAcquire
    BY <1>3, <1>a DEF WorkerLoop, WorkerWake, WorkerDequeue, WorkerDrained, WorkerLookup,
                      WorkerAcquire
  <1>4. CASE WorkerSent
    <2>1. PICK kind \in Completion : EnqueueCallback(starts, kind, cur)
      BY <1>4 DEF WorkerSent
    <2>2. cur \in Requests /\ starts \in Producers /\ starts > 0 /\ starts' = starts
      BY <1>4 DEF WorkerSent, TypeInv, TypeOK, OneExchange, ThreadInv
    <2>3. \A q \in Producers : \A s, i :
            CompletionAt(q, i, s)' =>
              CompletionAt(q, i, s) \/ (q = starts /\ s = cur)
      BY <1>t, <2>1, <2>2, EnqueueCompletion
    <2>4. \A s \in Requests : \A q \in Producers : \A i : CompletionAt(q, i, s) => q \in 1 .. starts
      BY DEF ThreadInv, CompletionAt
    <2>5. starts \in 1 .. starts
      BY <1>t, <2>2
    <2> QED
      BY <2>2, <2>3, <2>4, <2>5 DEF ThreadInv
  <1>5. ASSUME NEW p \in Producers, NEW r \in Requests \cup {None},
               EnqueueCallback(p, "progress", r), UNCHANGED <<worker, starts>>
        PROVE  ThreadInv'
    <2>1. \A q \in Producers : \A s, i : CompletionAt(q, i, s)' <=> CompletionAt(q, i, s)
      BY <1>t, <1>5, EnqueueProgress
    <2>2. \A s \in Requests : \A q \in Producers : \A i : CompletionAt(q, i, s) => q \in 1 .. starts
      BY DEF ThreadInv, CompletionAt
    <2> QED
      BY <1>5, <2>1, <2>2 DEF ThreadInv
  <1>6. CASE WorkerProgress
    <2>1. starts \in Producers
      BY DEF TypeInv, TypeOK
    <2> QED
      BY <1>t, <1>5, <1>6, <2>1 DEF WorkerProgress
  <1>7. CASE BlockingProgress
    <2>1. 0 \in Producers
      BY ConstantsAssumption DEF Producers
    <2> QED
      BY <1>5, <1>7, <2>1 DEF BlockingProgress
  <1>8. ASSUME NEW p \in Producers, UpdateDequeue(p) PROVE ThreadInv'
    <2>1. UNCHANGED <<worker, starts>>
      BY <1>8 DEF UpdateDequeue
    <2>2. /\ \A q \in Producers : \A s, i : q # p =>
               (CompletionAt(q, i, s)' <=> CompletionAt(q, i, s))
          /\ \A s : \A i \in Nat \ {0} : CompletionAt(p, i, s)' <=> CompletionAt(p, i + 1, s)
          /\ \A s : \A i : CompletionAt(p, i, s)' => i \in Nat \ {0}
      BY <1>8, <1>t, DequeueCompletion
    <2>3. \A s \in Requests : \A q \in Producers : \A i : CompletionAt(q, i, s) => q \in 1 .. starts
      BY DEF ThreadInv, CompletionAt
    <2>4. \A s \in Requests : \A q \in Producers : \A i : CompletionAt(q, i, s)' => q \in 1 .. starts
      BY <2>2, <2>3
    <2> QED
      BY <2>1, <2>4 DEF ThreadInv
  <1>9. CASE UpdateBegin \/ CallbackReturn \/ CallbackErase \/ UpdateEnd
    BY <1>9, <1>a DEF UpdateBegin, CallbackReturn, CallbackErase, UpdateEnd
  <1>10. CASE BlockingCall \/ BlockingAcquire \/ BlockingReturn
    BY <1>10, <1>a DEF BlockingCall, BlockingAcquire, BlockingReturn
  <1>11. CASE Start
    <2>1. starts' = starts + 1 /\ mCallbackQueue' = mCallbackQueue
      BY <1>11 DEF Start
    <2>2. \A q \in 1 .. starts : q \in 1 .. starts'
      BY <1>t, <2>1
    <2>3. starts' > 0
      BY <1>t, <2>1
    <2> QED
      BY <2>1, <2>2, <2>3 DEF ThreadInv, CompletionAt
  <1>12. CASE StopCancel \/ StopClear \/ StopJoin
    BY <1>12, <1>a DEF StopCancel, StopClear, StopJoin
  <1>13. CASE UNCHANGED vars
    BY <1>13, <1>a DEF vars
  <1> QED
    BY <1>1, <1>2, <1>3, <1>4, <1>6, <1>7, <1>8, <1>9, <1>10, <1>11, <1>12, <1>13
    DEF Next, GetStep, WorkerStep, CallbackStep

\* The calls at two positions of issued are different calls.
LEMMA IssuedPair ==
  ASSUME TypeInv, WayInv, NEW i \in DOMAIN issued, NEW j \in DOMAIN issued, i < j
  PROVE  /\ issued[i] \in Requests /\ issued[j] \in Requests /\ issued[i] # issued[j]
         /\ issued[i] \in Range(issued) /\ issued[j] \in Range(issued)
  <1>1. issued \in Seq(Requests) /\ DOMAIN issued = 1 .. Len(issued) /\ Len(issued) \in Nat
    BY LenProperties DEF TypeInv, TypeOK
  <1>2. issued[i] \in Requests /\ issued[j] \in Requests
    BY <1>1
  <1>3. i # j
    BY <1>1
  <1> QED
    BY <1>2, <1>3 DEF WayInv, Once, IsInjective, Range

\* A new call is behind all others.
LEMMA EnqueueOrder ==
  ASSUME TypeInv, WayInv, GetInv, OrderInv, GetEnqueue
  PROVE  OrderInv'
  <1> SUFFICES ASSUME starts <= 1
               PROVE  /\ \A i \in DOMAIN answers : i \in DOMAIN issued' /\ answers[i] = issued'[i]
                      /\ \A i, j \in DOMAIN issued' : i < j => Ahead(issued[i], issued[j])'
    BY DEF OrderInv, GetEnqueue
  <1>1. /\ mRequestQueue' = Append(mRequestQueue, getReq)
        /\ issued' = Append(issued, getReq)
        /\ UNCHANGED <<mCallbackQueue, cur, answers>>
    BY DEF GetEnqueue
  <1>2. /\ getReq \in Requests /\ getReq \notin Range(issued)
    BY EnqueueWay
  <1>3. mRequestQueue \in Seq(Requests) /\ issued \in Seq(Requests)
    BY DEF TypeInv, TypeOK
  <1>4. /\ getReq \notin Range(mRequestQueue) /\ getReq # cur
        /\ getReq \notin Completed /\ getReq \notin Range(answers)
    BY <1>2, ConstantsAssumption DEF WayInv, Covered
  <1>5. /\ Len(issued) \in Nat /\ DOMAIN issued = 1 .. Len(issued)
        /\ DOMAIN issued' = 1 .. (Len(issued) + 1)
        /\ \A i \in DOMAIN issued : issued'[i] = issued[i]
        /\ issued'[Len(issued) + 1] = getReq
    BY <1>1, <1>2, <1>3, AppendElements
  <1>6. /\ Len(mRequestQueue) \in Nat /\ DOMAIN mRequestQueue = 1 .. Len(mRequestQueue)
        /\ DOMAIN mRequestQueue' = 1 .. (Len(mRequestQueue) + 1)
        /\ \A i \in DOMAIN mRequestQueue : mRequestQueue'[i] = mRequestQueue[i]
        /\ mRequestQueue'[Len(mRequestQueue) + 1] = getReq
    BY <1>1, <1>2, <1>3, AppendElements
  <1>7. Range(mRequestQueue') = Range(mRequestQueue) \cup {getReq}
    BY <1>1, <1>2, <1>3, RangeAppend
  <1>8. \A q \in Producers : \A s, i : CompletionAt(q, i, s)' <=> CompletionAt(q, i, s)
    BY <1>1 DEF CompletionAt
  <1>9. \A a : \A q \in Producers : \A j : DoneBefore(a, q, j)' <=> DoneBefore(a, q, j)
    BY <1>1 DEF CompletionAt, DoneBefore
  <1>10. \A i \in DOMAIN answers : i \in DOMAIN issued' /\ answers[i] = issued'[i]
    <2>1. \A i \in DOMAIN issued : i \in DOMAIN issued'
      BY <1>5
    <2> QED
      BY <1>5, <2>1 DEF OrderInv
  <1>11. ASSUME NEW a \in Range(issued), NEW b \in Range(issued), Ahead(a, b)
         PROVE  Ahead(a, b)'
    <2>1. a # getReq /\ b # getReq
      BY <1>2
    <2>2. \A k, l \in DOMAIN mRequestQueue' :
            mRequestQueue'[k] = a /\ mRequestQueue'[l] = b => k < l
      <3> SUFFICES ASSUME NEW k \in DOMAIN mRequestQueue', NEW l \in DOMAIN mRequestQueue',
                          mRequestQueue'[k] = a, mRequestQueue'[l] = b
                   PROVE  k < l
        OBVIOUS
      <3>1. k # Len(mRequestQueue) + 1 /\ l # Len(mRequestQueue) + 1
        BY <1>6, <2>1
      <3>2. k \in DOMAIN mRequestQueue /\ l \in DOMAIN mRequestQueue
        BY <1>6, <3>1
      <3> QED
        BY <1>6, <1>11, <3>2 DEF Ahead
    <2> QED
      BY <1>1, <1>7, <1>8, <1>9, <1>11, <2>1, <2>2 DEF Ahead
  <1>12. ASSUME NEW a \in Range(issued), NEW b, b = getReq
         PROVE  Ahead(a, b)'
    <2>1. \A q \in Producers : \A l : ~ CompletionAt(q, l, b)
      BY <1>2, <1>4, <1>12, CompletedIsAt
    <2>2. \A k, l \in DOMAIN mRequestQueue' :
            mRequestQueue'[k] = a /\ mRequestQueue'[l] = b => k < l
      <3> SUFFICES ASSUME NEW k \in DOMAIN mRequestQueue', NEW l \in DOMAIN mRequestQueue',
                          mRequestQueue'[k] = a, mRequestQueue'[l] = b
                   PROVE  k < l
        OBVIOUS
      <3>1. k # Len(mRequestQueue) + 1
        BY <1>2, <1>6
      <3>2. l \notin DOMAIN mRequestQueue
        BY <1>4, <1>6, <1>12 DEF Range
      <3> QED
        BY <1>6, <3>1, <3>2
    <2> QED
      BY <1>1, <1>4, <1>8, <1>12, <2>1, <2>2 DEF Ahead
  <1>13. ASSUME NEW i \in DOMAIN issued', NEW j \in DOMAIN issued', i < j
         PROVE  Ahead(issued[i], issued[j])'
    <2>1. i \in DOMAIN issued /\ issued'[i] = issued[i] /\ issued[i] \in Range(issued)
      BY <1>5, <1>13 DEF Range
    <2>2. CASE j \in DOMAIN issued
      <3>1. issued'[j] = issued[j] /\ issued[j] \in Range(issued)
        BY <1>5, <2>2 DEF Range
      <3>2. Ahead(issued[i], issued[j])
        BY <1>13, <2>1, <2>2 DEF OrderInv
      <3> QED
        BY <1>11, <2>1, <3>1, <3>2
    <2>3. CASE j \notin DOMAIN issued
      <3>1. issued'[j] = getReq
        BY <1>5, <2>3
      <3> QED
        BY <1>12, <2>1, <3>1
    <2> QED
      BY <2>2, <2>3
  <1> QED
    BY <1>10, <1>13

\* The worker takes the call that all others in the request queue are behind.
LEMMA DequeueOrder ==
  ASSUME TypeInv, WayInv, OrderInv, WorkerDequeue
  PROVE  OrderInv'
  <1> SUFFICES ASSUME starts <= 1
               PROVE  /\ \A i \in DOMAIN answers : i \in DOMAIN issued /\ answers[i] = issued[i]
                      /\ \A i, j \in DOMAIN issued : i < j => Ahead(issued[i], issued[j])'
    BY DEF OrderInv, WorkerDequeue
  <1>1. /\ mRequestQueue # <<>> /\ mRequestQueue \in Seq(Requests)
        /\ mRequestQueue' = Tail(mRequestQueue)
        /\ UNCHANGED <<mCallbackQueue, issued, answers>>
    BY DEF WorkerDequeue, TypeInv, TypeOK
  <1>2. cur' = mRequestQueue[1]
    BY DequeueWay
  <1>3. /\ 1 \in DOMAIN mRequestQueue
        /\ \A i \in DOMAIN mRequestQueue' :
             /\ i \in Nat \ {0}
             /\ i + 1 \in DOMAIN mRequestQueue
             /\ mRequestQueue'[i] = mRequestQueue[i + 1]
    BY <1>1, TailElements
  <1>4. \A q \in Producers : \A s, i : CompletionAt(q, i, s)' <=> CompletionAt(q, i, s)
    BY <1>1 DEF CompletionAt
  <1>5. \A a : \A q \in Producers : \A j : DoneBefore(a, q, j)' <=> DoneBefore(a, q, j)
    BY <1>1 DEF CompletionAt, DoneBefore
  <1>6. ASSUME NEW a, NEW b, Ahead(a, b) PROVE Ahead(a, b)'
    <2>1. b = cur' => a \notin Range(mRequestQueue')
      <3> SUFFICES ASSUME b = cur', NEW k \in DOMAIN mRequestQueue', mRequestQueue'[k] = a
                   PROVE  FALSE
        BY DEF Range
      <3>1. k \in Nat \ {0} /\ k + 1 \in DOMAIN mRequestQueue /\ mRequestQueue[k + 1] = a
        BY <1>3
      <3>2. k + 1 < 1
        BY <1>2, <1>3, <1>6, <3>1 DEF Ahead
      <3> QED
        BY <3>1, <3>2
    <2>2. \A k, l \in DOMAIN mRequestQueue' :
            mRequestQueue'[k] = a /\ mRequestQueue'[l] = b => k < l
      <3> SUFFICES ASSUME NEW k \in DOMAIN mRequestQueue', NEW l \in DOMAIN mRequestQueue',
                          mRequestQueue'[k] = a, mRequestQueue'[l] = b
                   PROVE  k < l
        OBVIOUS
      <3>1. k + 1 < l + 1
        BY <1>3, <1>6 DEF Ahead
      <3> QED
        BY <1>3, <3>1
    <2> QED
      BY <1>1, <1>4, <1>5, <1>6, <2>1, <2>2 DEF Ahead
  <1> QED
    BY <1>1, <1>6 DEF OrderInv

\* The call that the worker completes is behind the completions in its queue.
LEMMA SentOrder ==
  ASSUME TypeInv, WayInv, ThreadInv, OrderInv, WorkerSent
  PROVE  OrderInv'
  <1> SUFFICES ASSUME starts <= 1
               PROVE  /\ \A i \in DOMAIN answers : i \in DOMAIN issued /\ answers[i] = issued[i]
                      /\ \A i, j \in DOMAIN issued : i < j => Ahead(issued[i], issued[j])'
    BY DEF OrderInv, WorkerSent
  <1>1. PICK kind \in Completion : EnqueueCallback(starts, kind, cur)
    BY DEF WorkerSent
  <1>2. /\ cur \in Requests /\ starts \in Producers /\ CallbackQueueType
        /\ [kind |-> kind, req |-> cur] \in Callbacks
    BY DEF WorkerSent, TypeInv, TypeOK, OneExchange, CallbackQueueType, Callbacks
  <1>3. cur' = None /\ UNCHANGED <<mRequestQueue, issued, answers>>
    BY DEF WorkerSent
  <1>4. starts = 1
    BY <1>2, ConstantsAssumption DEF WorkerSent, ThreadInv, Producers
  <1> DEFINE n == Len(mCallbackQueue[starts]) + 1
  <1>5. /\ \A q \in Producers : \A i \in DOMAIN mCallbackQueue[q] : i \in DOMAIN mCallbackQueue'[q]
        /\ \A i \in DOMAIN mCallbackQueue[starts] : i < n
    BY <1>1, <1>2, EnqueueElements
  <1>6. \A q \in Producers : \A s, i :
          CompletionAt(q, i, s)' <=> CompletionAt(q, i, s) \/ (q = starts /\ s = cur /\ i = n)
    BY <1>1, <1>2, EnqueueCompletion
  <1> HIDE DEF n
  <1>7. \A a : \A q \in Producers : \A j : DoneBefore(a, q, j) => DoneBefore(a, q, j)'
    BY <1>3, <1>5, <1>6 DEF DoneBefore
  <1>8. ASSUME NEW a \in Requests, NEW b \in Requests, a # b, a \in Range(issued), Ahead(a, b)
        PROVE  Ahead(a, b)'
    <2>1. ASSUME b = cur PROVE DoneBefore(a, starts, n)
      <3>1. a \notin Range(mRequestQueue) /\ a # cur
        BY <1>8, <2>1 DEF Ahead
      <3>2. a \in Completed \/ a \in Range(answers)
        BY <1>8, <3>1 DEF WayInv, Covered
      <3>3. CASE a \in Completed
        <4>1. PICK q \in Producers : \E i \in DOMAIN mCallbackQueue[q] : CompletionAt(q, i, a)
          BY <3>3 DEF Completed
        <4>2. PICK i \in DOMAIN mCallbackQueue[q] : CompletionAt(q, i, a)
          BY <4>1
        <4>3. q = starts
          BY <1>4, <4>2 DEF ThreadInv
        <4> QED
          BY <1>5, <4>2, <4>3 DEF DoneBefore
      <3> QED
        BY <3>2, <3>3 DEF DoneBefore
    <2>2. ASSUME NEW q \in Producers, NEW j, CompletionAt(q, j, b)' PROVE DoneBefore(a, q, j)'
      <3>1. CASE CompletionAt(q, j, b)
        <4>1. j \in DOMAIN mCallbackQueue[q]
          BY <3>1 DEF CompletionAt
        <4>2. DoneBefore(a, q, j)
          BY <1>8, <3>1, <4>1 DEF Ahead
        <4> QED
          BY <1>7, <4>2
      <3>2. CASE q = starts /\ b = cur /\ j = n
        <4>1. DoneBefore(a, q, j)
          BY <2>1, <3>2
        <4> QED
          BY <1>7, <4>1
      <3> QED
        BY <1>6, <2>2, <3>1, <3>2
    <2>3. b # cur'
      BY <1>3, ConstantsAssumption
    <2> QED
      BY <1>3, <1>8, <2>2, <2>3 DEF Ahead
  <1> QED
    BY <1>3, <1>8, IssuedPair DEF OrderInv

\* A report of progress passes no call.
LEMMA ReportOrder ==
  ASSUME TypeInv, OrderInv, NEW p \in Producers, NEW r \in Requests \cup {None},
         EnqueueCallback(p, "progress", r),
         UNCHANGED <<mRequestQueue, cur, issued, answers, starts>>
  PROVE  OrderInv'
  <1>1. CallbackQueueType /\ [kind |-> "progress", req |-> r] \in Callbacks
    BY DEF TypeInv, TypeOK, CallbackQueueType, Callbacks
  <1>2. \A q \in Producers : \A i \in DOMAIN mCallbackQueue[q] : i \in DOMAIN mCallbackQueue'[q]
    BY <1>1, EnqueueElements
  <1>3. \A q \in Producers : \A s, i : CompletionAt(q, i, s)' <=> CompletionAt(q, i, s)
    BY <1>1, EnqueueProgress
  <1>4. \A a : \A q \in Producers : \A j : DoneBefore(a, q, j) => DoneBefore(a, q, j)'
    BY <1>2, <1>3 DEF DoneBefore
  <1>5. \A q \in Producers : \A s, i : CompletionAt(q, i, s) => i \in DOMAIN mCallbackQueue[q]
    BY DEF CompletionAt
  <1>6. ASSUME NEW a, NEW b, Ahead(a, b) PROVE Ahead(a, b)'
    BY <1>3, <1>4, <1>5, <1>6 DEF Ahead
  <1> QED
    BY <1>6 DEF OrderInv

\* The call whose completion is taken was issued right behind the answered ones.
LEMMA AnswerIsNext ==
  ASSUME TypeInv, WayInv, OrderInv, starts <= 1,
         NEW p \in Producers, NEW b \in Requests, CompletionAt(p, 1, b)
  PROVE  Len(answers) + 1 \in DOMAIN issued /\ issued[Len(answers) + 1] = b
  <1> DEFINE n == Len(answers) + 1
  <1>1. /\ DOMAIN answers = 1 .. Len(answers) /\ Len(answers) \in Nat
        /\ DOMAIN issued = 1 .. Len(issued) /\ Len(issued) \in Nat
    BY LenProperties DEF TypeInv, TypeOK
  <1>2. b \in Completed /\ 1 \in DOMAIN mCallbackQueue[p]
    BY CompletedIsAt
  <1>3. b \notin Range(answers) /\ b \in Range(issued)
    BY <1>2 DEF WayInv, Apart, Covered
  <1>4. PICK k \in DOMAIN issued : issued[k] = b
    BY <1>3 DEF Range
  <1>5. \A i \in DOMAIN answers : i \in DOMAIN issued /\ answers[i] = issued[i]
    BY DEF OrderInv
  <1>6. k \notin DOMAIN answers
    BY <1>3, <1>4, <1>5 DEF Range
  <1>7. n \in DOMAIN issued /\ n <= k
    BY <1>1, <1>4, <1>6
  <1>8. ASSUME n < k PROVE FALSE
    <2>1. Ahead(issued[n], b)
      BY <1>4, <1>7, <1>8 DEF OrderInv
    <2>2. DoneBefore(issued[n], p, 1)
      BY <1>2, <2>1 DEF Ahead
    <2>3. \A i \in DOMAIN mCallbackQueue[p] : ~ (i < 1)
      <3>1. mCallbackQueue[p] \in Seq(Callbacks)
        BY DEF TypeInv, TypeOK
      <3> QED
        BY <3>1, LenProperties
    <2>4. issued[n] \in Range(answers)
      BY <2>2, <2>3 DEF DoneBefore
    <2>5. PICK i \in DOMAIN answers : answers[i] = issued[n]
      BY <2>4 DEF Range
    <2>6. i = n
      BY <1>5, <1>7, <2>5 DEF WayInv, Once, IsInjective
    <2> QED
      BY <1>1, <2>5, <2>6
  <1>9. n = k
    BY <1>1, <1>7, <1>8
  <1> QED
    BY <1>4, <1>9

\* The callbacks behind the one that is taken move up together.
LEMMA AnswerOrder ==
  ASSUME TypeInv, WayInv, OrderInv, NEW p \in Producers, UpdateDequeue(p)
  PROVE  OrderInv'
  <1> SUFFICES ASSUME starts <= 1
               PROVE  /\ \A i \in DOMAIN answers' : i \in DOMAIN issued /\ answers'[i] = issued[i]
                      /\ \A i, j \in DOMAIN issued : i < j => Ahead(issued[i], issued[j])'
    BY DEF OrderInv, UpdateDequeue
  <1>1. UNCHANGED <<mRequestQueue, cur, issued>> /\ CallbackQueueType /\ answers \in Seq(Requests)
    BY DEF UpdateDequeue, TypeInv, TypeOK, CallbackQueueType
  <1>2. /\ cb' \in Callbacks
        /\ \A q \in Producers : q # p => mCallbackQueue'[q] = mCallbackQueue[q]
        /\ \A q \in Producers : \A i \in DOMAIN mCallbackQueue[q] : i \in Nat \ {0}
    BY <1>1, DequeueElements
  <1>3. /\ \A q \in Producers : \A s, i : q # p =>
             (CompletionAt(q, i, s)' <=> CompletionAt(q, i, s))
        /\ \A s : \A i \in Nat \ {0} : CompletionAt(p, i, s)' <=> CompletionAt(p, i + 1, s)
        /\ \A s : \A i : CompletionAt(p, i, s)' => i \in Nat \ {0}
        /\ \A s : CompletionAt(p, 1, s) <=> cb'.kind \in Completion /\ cb'.req = s
        /\ \A s : \A i : CompletionAt(p, i, s) /\ i # 1 =>
             i - 1 \in Nat \ {0} /\ CompletionAt(p, i - 1, s)'
    BY <1>1, DequeueCompletion
  <1>4. /\ cb'.kind = "progress" => answers' = answers
        /\ cb'.kind # "progress" =>
             /\ answers' = Append(answers, cb'.req)
             /\ Range(answers') = Range(answers) \cup {cb'.req}
    BY AnswerWay
  <1>5. cb'.kind # "progress" => cb'.kind \in Completion /\ cb'.req \in Requests
    BY <1>2 DEF Callbacks
  <1>6. \A s : s \in Range(answers') <=> s \in Range(answers) \/ CompletionAt(p, 1, s)
    <2>1. cb'.kind = "progress" => cb'.kind \notin Completion
      BY DEF Completion
    <2> QED
      BY <1>3, <1>4, <1>5, <2>1
  <1>7. \A i \in DOMAIN answers' : i \in DOMAIN issued /\ answers'[i] = issued[i]
    <2>1. \A i \in DOMAIN answers : i \in DOMAIN issued /\ answers[i] = issued[i]
      BY DEF OrderInv
    <2>2. CASE cb'.kind # "progress"
      <3>1. Len(answers) + 1 \in DOMAIN issued /\ issued[Len(answers) + 1] = cb'.req
        BY <1>3, <1>5, <2>2, AnswerIsNext
      <3>2. /\ Len(answers) \in Nat
            /\ DOMAIN answers = 1 .. Len(answers)
            /\ DOMAIN answers' = 1 .. (Len(answers) + 1)
            /\ \A i \in DOMAIN answers : answers'[i] = answers[i]
            /\ answers'[Len(answers) + 1] = cb'.req
        BY <1>1, <1>4, <1>5, <2>2, AppendElements
      <3>3. \A i \in DOMAIN answers' : i \in DOMAIN answers \/ i = Len(answers) + 1
        BY <3>2
      <3> QED
        BY <2>1, <3>1, <3>2, <3>3
    <2> QED
      BY <1>4, <2>1, <2>2
  <1>8. ASSUME NEW a \in Requests, NEW b \in Requests, Ahead(a, b)
        PROVE  Ahead(a, b)'
    <2>1. b \in Range(answers') => a \in Range(answers')
      <3>1. ASSUME CompletionAt(p, 1, b) PROVE a \in Range(answers)
        <4>1. 1 \in DOMAIN mCallbackQueue[p]
          BY <3>1 DEF CompletionAt
        <4>2. DoneBefore(a, p, 1)
          BY <1>8, <3>1, <4>1 DEF Ahead
        <4>3. \A i \in DOMAIN mCallbackQueue[p] : ~ (i < 1)
          BY <1>2
        <4> QED
          BY <4>2, <4>3 DEF DoneBefore
      <3> QED
        BY <1>6, <1>8, <3>1 DEF Ahead
    <2>2. ASSUME NEW q \in Producers, NEW j, CompletionAt(q, j, b)' PROVE DoneBefore(a, q, j)'
      <3>1. CASE q # p
        <4>1. CompletionAt(q, j, b) /\ j \in DOMAIN mCallbackQueue[q]
          BY <1>3, <2>2, <3>1 DEF CompletionAt
        <4>2. DoneBefore(a, q, j)
          BY <1>8, <4>1 DEF Ahead
        <4> QED
          BY <1>2, <1>3, <1>6, <3>1, <4>2 DEF DoneBefore
      <3>2. CASE q = p
        <4>1. j \in Nat \ {0} /\ CompletionAt(p, j + 1, b) /\ j + 1 \in DOMAIN mCallbackQueue[p]
          BY <1>3, <2>2, <3>2 DEF CompletionAt
        <4>2. DoneBefore(a, p, j + 1)
          BY <1>8, <4>1 DEF Ahead
        <4>3. ASSUME NEW i \in DOMAIN mCallbackQueue[p], i < j + 1, i # 1, CompletionAt(p, i, a)
              PROVE  DoneBefore(a, p, j)'
          <5>1. i - 1 \in Nat \ {0} /\ CompletionAt(p, i - 1, a)'
            BY <1>3, <4>3
          <5>2. i - 1 < j
            BY <1>2, <4>1, <4>3
          <5>3. i - 1 \in DOMAIN mCallbackQueue'[p]
            BY <5>1 DEF CompletionAt
          <5> QED
            BY <5>1, <5>2, <5>3 DEF DoneBefore
        <4>4. a \in Range(answers) \/ CompletionAt(p, 1, a) => DoneBefore(a, p, j)'
          BY <1>6 DEF DoneBefore
        <4> QED
          BY <3>2, <4>2, <4>3, <4>4 DEF DoneBefore
      <3> QED
        BY <3>1, <3>2
    <2> QED
      BY <1>1, <1>8, <2>1, <2>2 DEF Ahead
  <1> QED
    BY <1>1, <1>7, <1>8, IssuedPair DEF OrderInv

LEMMA OrderStep == TypeInv /\ WayInv /\ GetInv /\ ThreadInv /\ OrderInv /\ [Next]_vars => OrderInv'
  <1> SUFFICES ASSUME TypeInv, WayInv, GetInv, ThreadInv, OrderInv, [Next]_vars PROVE OrderInv'
    OBVIOUS
  <1>a. UNCHANGED <<wayVars, starts>> => OrderInv'
    BY DEF wayVars, OrderInv, Ahead, DoneBefore, CompletionAt
  <1>1. CASE \E r \in Requests : GetEmplace(r)
    BY <1>1, <1>a DEF GetEmplace, wayVars
  <1>2. CASE GetEmplaced \/ GetSignal
    BY <1>2, <1>a DEF GetEmplaced, GetSignal, wayVars
  <1>3. CASE GetEnqueue
    BY <1>3, EnqueueOrder
  <1>4. CASE WorkerLoop \/ WorkerWake \/ WorkerDrained \/ WorkerLookup \/ WorkerAcquire
    BY <1>4, <1>a DEF WorkerLoop, WorkerWake, WorkerDrained, WorkerLookup, WorkerAcquire,
                      wayVars
  <1>5. CASE WorkerDequeue
    BY <1>5, DequeueOrder
  <1>6. CASE WorkerSent
    BY <1>6, SentOrder
  <1>7. CASE WorkerProgress
    <2>1. starts \in Producers /\ cur \in Requests \cup {None}
      BY DEF TypeInv, TypeOK
    <2>2. EnqueueCallback(starts, "progress", cur)
          /\ UNCHANGED <<mRequestQueue, cur, issued, answers, starts>>
      BY <1>7 DEF WorkerProgress
    <2> QED
      BY <2>1, <2>2, ReportOrder
  <1>8. CASE BlockingProgress
    <2>1. 0 \in Producers
      BY ConstantsAssumption DEF Producers
    <2>2. EnqueueCallback(0, "progress", None)
          /\ UNCHANGED <<mRequestQueue, cur, issued, answers, starts>>
      BY <1>8 DEF BlockingProgress
    <2> QED
      BY <2>1, <2>2, ReportOrder
  <1>9. ASSUME NEW p \in Producers, UpdateDequeue(p) PROVE OrderInv'
    BY <1>9, AnswerOrder
  <1>10. CASE UpdateBegin \/ CallbackReturn \/ CallbackErase \/ UpdateEnd
    BY <1>10, <1>a DEF UpdateBegin, CallbackReturn, CallbackErase, UpdateEnd, wayVars
  <1>11. CASE BlockingCall \/ BlockingAcquire \/ BlockingReturn
    BY <1>11, <1>a DEF BlockingCall, BlockingAcquire, BlockingReturn, wayVars
  <1>12. CASE Start
    <2>1. starts' <= 1 => starts <= 1
      BY <1>12, ConstantsAssumption DEF Start, TypeInv, TypeOK, Producers
    <2>2. UNCHANGED wayVars
      BY <1>12 DEF Start, wayVars
    <2> QED
      BY <2>1, <2>2 DEF wayVars, OrderInv, Ahead, DoneBefore, CompletionAt
  <1>13. CASE StopCancel \/ StopClear \/ StopJoin
    BY <1>13, <1>a DEF StopCancel, StopClear, StopJoin, wayVars
  <1>14. CASE UNCHANGED vars
    BY <1>14, <1>a DEF vars, wayVars
  <1> QED
    BY <1>1, <1>2, <1>3, <1>4, <1>5, <1>6, <1>7, <1>8, <1>9, <1>10, <1>11, <1>12, <1>13, <1>14
    DEF Next, GetStep, WorkerStep, CallbackStep

LEMMA OrderInit == Init => ProgressInv /\ ThreadInv /\ OrderInv
  <1> SUFFICES ASSUME Init PROVE ProgressInv /\ ThreadInv /\ OrderInv
    OBVIOUS
  <1>1. \A p \in Producers : DOMAIN mCallbackQueue[p] = {}
    BY DEF Init
  <1>2. DOMAIN answers = {} /\ DOMAIN issued = {} /\ worker = "none"
    BY DEF Init
  <1> QED
    BY <1>1, <1>2 DEF ProgressInv, ThreadInv, OrderInv

\* Callbacks come in order: those of one call, and while the device has not been
\* restarted those of all calls, in the order in which get() was called.
THEOREM CallbacksComeInOrder == Spec => []CallbackOrder
  <1>1. /\ TypeInv /\ WayInv /\ GetInv /\ ProgressInv /\ ThreadInv /\ OrderInv
        /\ [Next]_vars
        => ProgressInv' /\ ThreadInv' /\ OrderInv'
    BY ProgressStep, ThreadStep, OrderStep
  <1>2. TypeInv /\ WayInv /\ ProgressInv /\ OrderInv => CallbackOrder
    BY ProgressOrder DEF CallbackOrder, OrderInv
  <1> QED
    BY <1>1, <1>2, OrderInit, WayInvariant, PTL DEF Spec

-----------------------------------------------------------------------------
(***************************************************************************)
(* The client implements AsyncCalls: every step opens or closes the        *)
(* service, issues a call or answers one, or leaves all three as they are. *)
(***************************************************************************)

LEMMA PromiseStep ==
  TypeInv /\ WayInv /\ GetInv /\ CacheInv /\ [Next]_vars => [Promise!Next]_(Promise!vars)
  <1> SUFFICES ASSUME TypeInv, WayInv, GetInv, CacheInv, [Next]_vars
               PROVE  [Promise!Next]_(Promise!vars)
    OBVIOUS
  <1>a. UNCHANGED <<registered, issued, answers>> => UNCHANGED Promise!vars
    BY DEF Promise!vars
  <1>1. CASE \E r \in Requests : GetEmplace(r)
    BY <1>1, <1>a DEF GetEmplace
  <1>2. CASE GetEmplaced \/ GetSignal
    BY <1>2, <1>a DEF GetEmplaced, GetSignal
  <1>3. CASE GetEnqueue
    <2>1. /\ getReq \in Requests /\ getReq \notin Range(issued)
          /\ Range(issued') = Range(issued) \cup {getReq}
      BY <1>3, EnqueueWay
    <2>2. getReq \notin Range(answers)
      BY <2>1 DEF WayInv, Covered
    <2>3. UNCHANGED <<registered, answers>>
      BY <1>3 DEF GetEnqueue
    <2>4. PICK r : r = getReq
      OBVIOUS
    <2>5. /\ r \notin (Range(issued) \ Range(answers)) \cup Range(answers)
          /\ Range(issued') \ Range(answers') = (Range(issued) \ Range(answers)) \cup {r}
      BY <2>1, <2>2, <2>3, <2>4
    <2>6. Promise!Range(answers) = Range(answers)
      BY DEF Promise!Range, Range
    <2>7. Promise!Issue(r)
      BY <2>3, <2>5, <2>6 DEF Promise!Issue
    <2> QED
      BY <2>1, <2>4, <2>7 DEF Promise!Next
  <1>4. CASE WorkerLoop \/ WorkerWake \/ WorkerDequeue \/ WorkerDrained \/ WorkerLookup
             \/ WorkerAcquire \/ WorkerSent \/ WorkerProgress
    BY <1>4, <1>a DEF WorkerLoop, WorkerWake, WorkerDequeue, WorkerDrained, WorkerLookup,
                      WorkerAcquire, WorkerSent, WorkerProgress
  <1>5. ASSUME NEW p \in Producers, UpdateDequeue(p)
        PROVE  [Promise!Next]_(Promise!vars)
    <2>1. UNCHANGED <<registered, issued>> /\ registered
      BY <1>5 DEF UpdateDequeue, CacheInv, CallbackInv
    <2>2. CASE cb'.kind = "progress"
      BY <1>5, <1>a, <2>1, <2>2 DEF UpdateDequeue
    <2>3. CASE cb'.kind # "progress"
      <3>1. /\ answers' = Append(answers, cb'.req)
            /\ Range(answers') = Range(answers) \cup {cb'.req}
            /\ cb'.req \in Completed
        BY <1>5, <2>3, AnswerWay
      <3>2. /\ cb'.req \in Requests
            /\ cb'.req \in Range(issued) \ Range(answers)
        BY <3>1 DEF Completed, WayInv, Covered, Apart
      <3>3. PICK r : r = cb'.req
        OBVIOUS
      <3>4. Promise!Answer(r)
        BY <2>1, <3>1, <3>2, <3>3 DEF Promise!Answer
      <3> QED
        BY <3>2, <3>3, <3>4 DEF Promise!Next
    <2> QED
      BY <2>2, <2>3
  <1>6. CASE UpdateBegin \/ CallbackReturn \/ CallbackErase \/ UpdateEnd
    BY <1>6, <1>a DEF UpdateBegin, CallbackReturn, CallbackErase, UpdateEnd
  <1>7. CASE BlockingCall \/ BlockingAcquire \/ BlockingProgress \/ BlockingReturn
    BY <1>7, <1>a DEF BlockingCall, BlockingAcquire, BlockingProgress, BlockingReturn
  <1>8. CASE Start
    <2>1. registered' = TRUE /\ UNCHANGED <<issued, answers>>
      BY <1>8 DEF Start
    <2>2. CASE registered
      <3>1. registered' = registered
        BY <2>1, <2>2 DEF TypeInv, TypeOK
      <3> QED
        BY <1>a, <2>1, <3>1
    <2>3. CASE ~ registered
      BY <2>1, <2>3 DEF Promise!Next, Promise!Open
    <2> QED
      BY <2>2, <2>3
  <1>9. CASE StopCancel
    <2>1. registered' = FALSE /\ UNCHANGED <<issued, answers>>
      BY <1>9 DEF StopCancel
    <2>2. CASE registered
      BY <2>1, <2>2 DEF Promise!Next, Promise!Close
    <2>3. CASE ~ registered
      <3>1. registered' = registered
        BY <2>1, <2>3 DEF TypeInv, TypeOK
      <3> QED
        BY <1>a, <2>1, <3>1
    <2> QED
      BY <2>2, <2>3
  <1>10. CASE StopClear \/ StopJoin
    BY <1>10, <1>a DEF StopClear, StopJoin
  <1>11. CASE UNCHANGED vars
    BY <1>11, <1>a DEF vars
  <1> QED
    BY <1>1, <1>2, <1>3, <1>4, <1>5, <1>6, <1>7, <1>8, <1>9, <1>10, <1>11
    DEF Next, GetStep, WorkerStep, CallbackStep

\* The client with its threads and queues does what get() promises: a call is
\* answered at most once, after it was issued and only while the device is
\* started.  (That the answer comes at last is KeepsPromise, which TLC checks.)
THEOREM ClientImplementsPromise == Spec => Promise!Spec
  <1>1. Init => Promise!Init
    BY DEF Init, Promise!Init, Range
  <1> QED
    BY <1>1, PromiseStep, CacheInvariant, PTL DEF Spec, Promise!Spec
=============================================================================
