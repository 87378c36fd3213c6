------------------------------ MODULE RestClient ------------------------------
(***************************************************************************)
(* The REST client device of src/restclient.cpp.                           *)
(*                                                                         *)
(* Two threads take part.  The MAIN thread runs the application: it        *)
(* starts and stops the device, issues calls with get() and getBlocking()  *)
(* and, once per frame, lets RestService::update run the callbacks.  The   *)
(* WORKER thread, created by start(), runs RestClient::run: it sleeps on   *)
(* an auto-reset event, drains the request queue and performs one HTTP     *)
(* exchange after the other.                                               *)
(*                                                                         *)
(* They share two lock-free queues, the event, the running flag, the       *)
(* httplib client (one exchange at a time, under its request mutex) and,   *)
(* with no lock at all, the map from a call's uuid to its parameters.      *)
(***************************************************************************)
EXTENDS Naturals, Sequences, Functions

CONSTANTS
  Requests,      \* the non-blocking calls the application may make (one uuid4 each)
  Bare,          \* those of them that are made without parameters
  None,          \* stands for "no request"
  MaxStarts,     \* bound: how often the device is started
  MaxBacklog,    \* bound: progress reports pile up to this queue length only
  CancelLatches  \* does AutoResetEvent::cancelWait also cancel the waits that follow?

ASSUME ConstantsAssumption ==
  /\ Bare \subseteq Requests
  /\ None \notin Requests
  /\ MaxStarts \in Nat
  /\ MaxBacklog \in Nat
  /\ CancelLatches \in BOOLEAN

VARIABLES
  \* shared between the threads
  mRunning,             \* RestClient::mRunning
  mRequestQueue,        \* calls waiting for the worker (only main enqueues)
  mCallbackQueue,       \* per producer thread: callbacks waiting for update()
  mRequestParamsCache,  \* uuids that have an entry in the parameter map
  signaled, cancelled,  \* state of mRequestEvent
  \* the worker thread
  worker,               \* where run() is; "none" when there is no thread to join
  cur,                  \* the request the worker has dequeued
  \* the main thread
  registered,           \* is the client in RestService::mClients?
  starts,               \* number of start() calls so far, also the id of the worker
  main,                 \* what main does: a frame of update(), stop(), getBlocking(), or idle
  cb,                   \* the callback update() runs
  getPc, getReq,        \* progress of a get() call and its request
  \* history
  issued,               \* requests in the order get() enqueued them
  answers,              \* requests in the order their callback was invoked
  sent                  \* what parameters each request went out with

eventVars  == <<signaled, cancelled>>
queueVars  == <<mRequestQueue, mCallbackQueue>>
workerVars == <<worker, cur>>
lifeVars   == <<registered, starts>>
updateVars == <<main, cb>>
getVars    == <<getPc, getReq>>
histVars   == <<issued, answers, sent>>
vars == <<mRunning, mRequestQueue, mCallbackQueue, mRequestParamsCache,
          signaled, cancelled, worker, cur, registered, starts, main, cb,
          getPc, getReq, issued, answers, sent>>

\* A moodycamel queue is FIFO for each producing thread only.  Producer 0 is
\* the main thread, producer n > 0 the worker of the n-th start().
Producers == 0 .. MaxStarts
Completion == {"success", "error"}
Callbacks == [kind : Completion, req : Requests]
               \cup [kind : {"progress"}, req : Requests \cup {None}]
NoCallback == [kind |-> "progress", req |-> None]

WorkerPcs == {"none", "loop", "wait", "drain", "lookup", "locking", "sending", "exited"}
MainPcs == {"idle", "update", "callback", "erasing", "locking", "blocking",
            "clearRunning", "join"}
GetPcs == {"none", "emplacing", "emplaced", "queued"}

\* The types of the variables.
TypeOK ==
  /\ mRunning \in BOOLEAN
  /\ mRequestQueue \in Seq(Requests)
  /\ mCallbackQueue \in [Producers -> Seq(Callbacks)]
  /\ mRequestParamsCache \subseteq Requests
  /\ signaled \in BOOLEAN /\ cancelled \in BOOLEAN
  /\ worker \in WorkerPcs
  /\ cur \in Requests \cup {None}
  /\ registered \in BOOLEAN
  /\ starts \in Producers
  /\ main \in MainPcs
  /\ cb \in Callbacks
  /\ getPc \in GetPcs
  /\ getReq \in Requests \cup {None}
  /\ issued \in Seq(Requests)
  /\ answers \in Seq(Requests)
  /\ sent \in [Requests -> {"none", "given", "empty"}]

Init ==
  /\ mRunning = FALSE
  /\ mRequestQueue = <<>>
  /\ mCallbackQueue = [p \in Producers |-> <<>>]
  /\ mRequestParamsCache = {}
  /\ signaled = FALSE /\ cancelled = FALSE
  /\ worker = "none" /\ cur = None
  /\ registered = FALSE /\ starts = 0
  /\ main = "idle" /\ cb = NoCallback
  /\ getPc = "none" /\ getReq = None
  /\ issued = <<>> /\ answers = <<>>
  /\ sent = [r \in Requests |-> "none"]
-----------------------------------------------------------------------------
(***************************************************************************)
(* The event (utility::AutoResetEvent of the framework) and the queues.    *)
(***************************************************************************)

\* set() latches the signal until one wait consumes it.
EventSet == signaled' = TRUE /\ UNCHANGED cancelled

\* cancelWait() releases a waiter.
EventCancelWait == cancelled' = TRUE /\ UNCHANGED signaled

\* wait() returns on a signal, which it consumes, or on a cancellation.
EventWait ==
  /\ signaled \/ cancelled
  /\ signaled' = FALSE
  /\ cancelled' = (CancelLatches /\ cancelled)

EnqueueCallback(p, kind, r) ==
  mCallbackQueue' = [mCallbackQueue EXCEPT ![p] = Append(@, [kind |-> kind, req |-> r])]

\* What httplib is given: a call without parameters sends none.
Params(r) == IF r \in Bare THEN "empty" ELSE "given"

\* Main is inside unordered_map::emplace or ::erase: nothing keeps the worker
\* out of the map meanwhile.
MainMutatesCache == getPc = "emplacing" \/ main = "erasing"

\* ClientImpl::request_mutex_ is held around a whole exchange.
RequestMutexFree == worker # "sending" /\ main # "blocking"

-----------------------------------------------------------------------------
(***************************************************************************)
(* RestClient::get, on the main thread: between frames or, as user code,   *)
(* from inside a callback.                                                 *)
(***************************************************************************)

\* copyParams, generateUUID, and into mRequestParamsCache.emplace.
GetEmplace(r) ==
  /\ main \in {"idle", "callback"} /\ getPc = "none"
  /\ r \notin Range(issued)
  /\ getPc' = "emplacing" /\ getReq' = r
  /\ UNCHANGED <<mRunning, queueVars, mRequestParamsCache, eventVars, workerVars,
                 lifeVars, updateVars, histVars>>

\* The emplace is done.
GetEmplaced ==
  /\ getPc = "emplacing"
  /\ mRequestParamsCache' = mRequestParamsCache \cup {getReq}
  /\ getPc' = "emplaced"
  /\ UNCHANGED <<mRunning, queueVars, eventVars, workerVars, lifeVars, updateVars,
                 getReq, histVars>>

\* Mutant: the newest request goes first.
GetEnqueueFront ==
  /\ getPc = "emplaced"
  /\ mRequestQueue' = <<getReq>> \o mRequestQueue
  /\ issued' = Append(issued, getReq)
  /\ getPc' = "queued"
  /\ UNCHANGED <<mRunning, mCallbackQueue, mRequestParamsCache, eventVars, workerVars,
                 lifeVars, updateVars, getReq, answers, sent>>

\* Mutant: the request is enqueued with the uuid that was moved into the map.
GetEnqueueMovedFrom ==
  /\ getPc = "emplaced"
  /\ mRequestQueue' = Append(mRequestQueue, None)
  /\ issued' = Append(issued, getReq)
  /\ getPc' = "queued"
  /\ UNCHANGED <<mRunning, mCallbackQueue, mRequestParamsCache, eventVars, workerVars,
                 lifeVars, updateVars, getReq, answers, sent>>

\* mRequestQueue.enqueue.
GetEnqueue ==
  /\ getPc = "emplaced"
  /\ mRequestQueue' = Append(mRequestQueue, getReq)
  /\ issued' = Append(issued, getReq)
  /\ getPc' = "queued"
  /\ UNCHANGED <<mRunning, mCallbackQueue, mRequestParamsCache, eventVars, workerVars,
                 lifeVars, updateVars, getReq, answers, sent>>

\* mRequestEvent.set, and get() returns.
GetSignal ==
  /\ getPc = "queued"
  /\ EventSet
  /\ getPc' = "none" /\ getReq' = None
  /\ UNCHANGED <<mRunning, queueVars, mRequestParamsCache, workerVars, lifeVars,
                 updateVars, histVars>>

-----------------------------------------------------------------------------
(***************************************************************************)
(* RestClient::run, on the worker thread.                                  *)
(***************************************************************************)

\* while(mRunning)
WorkerLoop ==
  /\ worker = "loop"
  /\ worker' = IF mRunning THEN "wait" ELSE "exited"
  /\ UNCHANGED <<mRunning, queueVars, mRequestParamsCache, eventVars, cur, lifeVars,
                 updateVars, getVars, histVars>>

\* mRequestEvent.wait() returns.
WorkerWake ==
  /\ worker = "wait"
  /\ EventWait
  /\ worker' = "drain"
  /\ UNCHANGED <<mRunning, queueVars, mRequestParamsCache, cur, lifeVars, updateVars,
                 getVars, histVars>>

\* while(mRequestQueue.try_dequeue(request)): one more request ...
WorkerDequeue ==
  /\ worker = "drain" /\ mRequestQueue # <<>>
  /\ cur' = Head(mRequestQueue)
  /\ mRequestQueue' = Tail(mRequestQueue)
  /\ worker' = "lookup"
  /\ UNCHANGED <<mRunning, mCallbackQueue, mRequestParamsCache, eventVars, lifeVars,
                 updateVars, getVars, histVars>>

\* ... or none.
WorkerDrained ==
  /\ worker = "drain" /\ mRequestQueue = <<>>
  /\ worker' = "loop"
  /\ UNCHANGED <<mRunning, queueVars, mRequestParamsCache, eventVars, cur, lifeVars,
                 updateVars, getVars, histVars>>

\* mRequestParamsCache[uuid4] and toHTTPParams.  operator[] inserts an empty
\* entry when it finds none, and it may miss an entry that is there while the
\* main thread rearranges the table.
WorkerLookup ==
  /\ worker = "lookup"
  /\ \E found \in (IF MainMutatesCache THEN BOOLEAN ELSE {TRUE}) :
       IF found /\ cur \in mRequestParamsCache
       THEN /\ sent' = [sent EXCEPT ![cur] = Params(cur)]
            /\ UNCHANGED mRequestParamsCache
       ELSE /\ sent' = [sent EXCEPT ![cur] = "empty"]
            /\ mRequestParamsCache' = mRequestParamsCache \cup {cur}
  /\ worker' = "locking"
  /\ UNCHANGED <<mRunning, queueVars, eventVars, cur, lifeVars, updateVars, getVars,
                 issued, answers>>

\* mClient.Get takes the request mutex of the httplib client.
WorkerAcquire ==
  /\ worker = "locking" /\ RequestMutexFree
  /\ worker' = "sending"
  /\ UNCHANGED <<mRunning, queueVars, mRequestParamsCache, eventVars, cur, lifeVars,
                 updateVars, getVars, histVars>>

\* The progress lambda of getBlocking.  Get(path, params, ...) drops the
\* progress argument of a request that has no parameters.
WorkerProgress ==
  /\ worker = "sending" /\ sent[cur] = "given"
  /\ Len(mCallbackQueue[starts]) < MaxBacklog
  /\ EnqueueCallback(starts, "progress", cur)
  /\ UNCHANGED <<mRunning, mRequestQueue, mRequestParamsCache, eventVars, workerVars,
                 lifeVars, updateVars, getVars, histVars>>

\* Mutant: one request for each signal, if(try_dequeue) instead of while.
WorkerSentOnce ==
  /\ worker = "sending"
  /\ \E kind \in Completion : EnqueueCallback(starts, kind, cur)
  /\ cur' = None
  /\ worker' = "loop"
  /\ UNCHANGED <<mRunning, mRequestQueue, mRequestParamsCache, eventVars, lifeVars,
                 updateVars, getVars, histVars>>

\* Mutant: the else is missing, an exchange that succeeds reports both.
WorkerSentBoth ==
  /\ worker = "sending"
  /\ \E after \in {<<>>, <<[kind |-> "error", req |-> cur]>>} :
       mCallbackQueue' = [mCallbackQueue EXCEPT
                            ![starts] = Append(@, [kind |-> "success", req |-> cur]) \o after]
  /\ cur' = None
  /\ worker' = "drain"
  /\ UNCHANGED <<mRunning, mRequestQueue, mRequestParamsCache, eventVars, lifeVars,
                 updateVars, getVars, histVars>>

\* The exchange ends, with a response or (refused, timed out, broken) without
\* one, and the matching callback is enqueued.
WorkerSent ==
  /\ worker = "sending"
  /\ \E kind \in Completion : EnqueueCallback(starts, kind, cur)
  /\ cur' = None
  /\ worker' = "drain"
  /\ UNCHANGED <<mRunning, mRequestQueue, mRequestParamsCache, eventVars, lifeVars,
                 updateVars, getVars, histVars>>

-----------------------------------------------------------------------------
(***************************************************************************)
(* RestClient::update, called by RestService::update for every registered  *)
(* client once per frame of the main loop.                                 *)
(***************************************************************************)

\* Mutant: size_approx() > 1, off by one.
UpdateBeginOffByOne ==
  /\ main = "idle" /\ getPc = "none" /\ registered
  /\ \E p \in Producers : Len(mCallbackQueue[p]) > 1
  /\ main' = "update"
  /\ UNCHANGED <<mRunning, queueVars, mRequestParamsCache, eventVars, workerVars,
                 lifeVars, cb, getVars, histVars>>

\* mCallbackQueue.size_approx() > 0
UpdateBegin ==
  /\ main = "idle" /\ getPc = "none" /\ registered
  /\ \E p \in Producers : mCallbackQueue[p] # <<>>
  /\ main' = "update"
  /\ UNCHANGED <<mRunning, queueVars, mRequestParamsCache, eventVars, workerVars,
                 lifeVars, cb, getVars, histVars>>

\* try_dequeue finds a callback, of any producer, and it is called.
UpdateDequeue(p) ==
  /\ main = "update" /\ mCallbackQueue[p] # <<>>
  /\ cb' = Head(mCallbackQueue[p])
  /\ mCallbackQueue' = [mCallbackQueue EXCEPT ![p] = Tail(@)]
  /\ main' = "callback"
  /\ answers' = IF cb'.kind = "progress" THEN answers ELSE Append(answers, cb'.req)
  /\ UNCHANGED <<mRunning, mRequestQueue, mRequestParamsCache, eventVars, workerVars,
                 lifeVars, getVars, issued, sent>>

\* The user's code returns; after onSuccess and onError the entry is erased.
CallbackReturn ==
  /\ main = "callback" /\ getPc = "none"
  /\ main' = IF cb.kind = "progress" THEN "update" ELSE "erasing"
  /\ UNCHANGED <<mRunning, queueVars, mRequestParamsCache, eventVars, workerVars,
                 lifeVars, cb, getVars, histVars>>

\* Mutant: only the success callback erases the entry.
CallbackEraseOnSuccess ==
  /\ main = "erasing"
  /\ mRequestParamsCache' = IF cb.kind = "success" THEN mRequestParamsCache \ {cb.req}
                            ELSE mRequestParamsCache
  /\ main' = "update"
  /\ UNCHANGED <<mRunning, queueVars, eventVars, workerVars, lifeVars, cb, getVars,
                 histVars>>

\* mRequestParamsCache.erase(uuid4) is done.
CallbackErase ==
  /\ main = "erasing"
  /\ mRequestParamsCache' = mRequestParamsCache \ {cb.req}
  /\ main' = "update"
  /\ UNCHANGED <<mRunning, queueVars, eventVars, workerVars, lifeVars, cb, getVars,
                 histVars>>

\* try_dequeue finds nothing.
UpdateEnd ==
  /\ main = "update" /\ \A p \in Producers : mCallbackQueue[p] = <<>>
  /\ main' = "idle"
  /\ UNCHANGED <<mRunning, queueVars, mRequestParamsCache, eventVars, workerVars,
                 lifeVars, cb, getVars, histVars>>

-----------------------------------------------------------------------------
(***************************************************************************)
(* RestClient::getBlocking on the main thread.                             *)
(***************************************************************************)

BlockingCall ==
  /\ main = "idle" /\ getPc = "none"
  /\ main' = "locking"
  /\ UNCHANGED <<mRunning, queueVars, mRequestParamsCache, eventVars, workerVars,
                 lifeVars, cb, getVars, histVars>>

BlockingAcquire ==
  /\ main = "locking" /\ RequestMutexFree
  /\ main' = "blocking"
  /\ UNCHANGED <<mRunning, queueVars, mRequestParamsCache, eventVars, workerVars,
                 lifeVars, cb, getVars, histVars>>

\* Even here progress goes through the callback queue.
BlockingProgress ==
  /\ main = "blocking" /\ Len(mCallbackQueue[0]) < MaxBacklog
  /\ EnqueueCallback(0, "progress", None)
  /\ UNCHANGED <<mRunning, mRequestQueue, mRequestParamsCache, eventVars, workerVars,
                 lifeVars, updateVars, getVars, histVars>>

\* The caller gets its response or its error as the return value.
BlockingReturn ==
  /\ main = "blocking"
  /\ main' = "idle"
  /\ UNCHANGED <<mRunning, queueVars, mRequestParamsCache, eventVars, workerVars,
                 lifeVars, cb, getVars, histVars>>

-----------------------------------------------------------------------------
(***************************************************************************)
(* RestClient::start and RestClient::stop.                                 *)
(***************************************************************************)

\* The framework starts a device only when it is stopped.
Start ==
  /\ main = "idle" /\ getPc = "none" /\ worker = "none"
  /\ starts < MaxStarts
  /\ registered' = TRUE
  /\ mRunning' = TRUE
  /\ starts' = starts + 1
  /\ worker' = "loop"
  /\ UNCHANGED <<queueVars, mRequestParamsCache, eventVars, cur, updateVars, getVars,
                 histVars>>

\* removeRestClient, cancelWait ...
StopCancel ==
  /\ main = "idle" /\ getPc = "none" /\ worker # "none"
  /\ registered' = FALSE
  /\ EventCancelWait
  /\ main' = "clearRunning"
  /\ UNCHANGED <<mRunning, queueVars, mRequestParamsCache, workerVars, starts, cb,
                 getVars, histVars>>

\* Mutant: stop() forgets the flag.
StopClearNothing ==
  /\ main = "clearRunning"
  /\ main' = "join"
  /\ UNCHANGED <<mRunning, queueVars, mRequestParamsCache, eventVars, workerVars, lifeVars,
                 cb, getVars, histVars>>

\* ... mRunning = false ...
StopClear ==
  /\ main = "clearRunning"
  /\ mRunning' = FALSE
  /\ main' = "join"
  /\ UNCHANGED <<queueVars, mRequestParamsCache, eventVars, workerVars, lifeVars, cb,
                 getVars, histVars>>

\* ... mThread.join(), mClient.stop().
StopJoin ==
  /\ main = "join" /\ worker = "exited"
  /\ worker' = "none"
  /\ main' = "idle"
  /\ UNCHANGED <<mRunning, queueVars, mRequestParamsCache, eventVars, cur, lifeVars, cb,
                 getVars, histVars>>

-----------------------------------------------------------------------------
GetStep == GetEmplaced \/ GetEnqueue \/ GetSignal

WorkerStep == WorkerLoop \/ WorkerWake \/ WorkerDequeue \/ WorkerDrained \/ WorkerLookup
                \/ WorkerAcquire \/ WorkerSent

CallbackStep == (\E p \in Producers : UpdateDequeue(p)) \/ CallbackReturn \/ CallbackErase
                  \/ UpdateEnd

Next ==
  \/ \E r \in Requests : GetEmplace(r)
  \/ GetStep
  \/ WorkerStep \/ WorkerProgress
  \/ UpdateBegin \/ CallbackStep
  \/ BlockingCall \/ BlockingAcquire \/ BlockingProgress \/ BlockingReturn
  \/ Start \/ StopCancel \/ StopClear \/ StopJoin

\* The threads are scheduled, an exchange ends (httplib times out every connect,
\* read and write), a callback returns.  Strong fairness where a step is
\* disabled now and then: the frame loop runs update() again and again, and
\* the request mutex is not taken by the other thread forever.  The application
\* need not make a call, start or stop, and progress need not be reported.
Fairness ==
  /\ WF_vars(GetStep) /\ WF_vars(WorkerStep) /\ WF_vars(CallbackStep)
  /\ WF_vars(BlockingReturn)
  /\ WF_vars(StopClear) /\ WF_vars(StopJoin)
  /\ SF_vars(UpdateBegin) /\ SF_vars(WorkerAcquire) /\ SF_vars(BlockingAcquire)

Spec == Init /\ [][Next]_vars

FairSpec == Spec /\ Fairness
-----------------------------------------------------------------------------
(***************************************************************************)
(* Properties.                                                             *)
(***************************************************************************)

\* A request that waits in mRequestQueue is never forgotten by a sleeping
\* worker: the event is signaled, or about to be by the get() that enqueued it,
\* or the worker is awake and will try the queue again before it sleeps.  (The
\* enqueue and the set of get() interleave with try_dequeue and wait of run().)
NoLostWakeup ==
  mRequestQueue # <<>> =>
    \/ signaled \/ getPc = "queued"
    \/ worker \in {"drain", "lookup", "locking", "sending"}

\* httplib performs one exchange at a time: a blocking call of the main thread
\* and a queued call of the worker never overlap, and a request is in flight
\* only on a thread that stop() has yet to join.
OneExchange ==
  /\ ~(main = "blocking" /\ worker = "sending")
  /\ cur # None <=> worker \in {"lookup", "locking", "sending"}

\* The completions that wait for update().
CompletionPlaces ==
  {pl \in UNION {{p} \X DOMAIN mCallbackQueue[p] : p \in Producers} :
     mCallbackQueue[pl[1]][pl[2]].kind \in Completion}

\* Where a call is that get() has issued.
Places(r) ==
  {<<"requested", i>> : i \in {j \in DOMAIN mRequestQueue : mRequestQueue[j] = r}}
    \cup {<<"performed", w>> : w \in {cur} \cap {r}}
    \cup {<<"completed", pl>> :
            pl \in {q \in CompletionPlaces : mCallbackQueue[q[1]][q[2]].req = r}}
    \cup {<<"answered", i>> : i \in {j \in DOMAIN answers : answers[j] = r}}

\* Each issued call is in exactly one place: it waits, is performed, has its
\* completion queued, or was answered, through any number of stops and
\* restarts.  No call is lost, none gets two callbacks or both of them.
EachCallInOnePlace ==
  \A r \in Requests :
    IF r \in Range(issued) THEN \E pl \in Places(r) : Places(r) = {pl} ELSE Places(r) = {}

\* The parameter map holds an entry for exactly the calls that are on their way
\* or whose callback runs now: run() finds every entry it looks for, and the
\* map does not grow with the number of calls made.
CacheMatchesOutstanding ==
  mRequestParamsCache =
    (Range(issued) \ Range(answers))
      \cup (IF getPc = "emplaced" THEN {getReq} ELSE {})
      \cup (IF main \in {"callback", "erasing"} /\ cb.kind \in Completion
            THEN {cb.req} ELSE {})

\* The progress of a call is reported before its success or error callback and
\* never after it, though update() may interleave the queues of several threads.
ProgressPrecedesCompletion ==
  \A p \in Producers : \A i \in DOMAIN mCallbackQueue[p] :
    LET m == mCallbackQueue[p][i]
    IN m.kind = "progress" /\ m.req # None =>
         /\ m.req \notin Range(answers)
         /\ \A q \in Producers : \A j \in DOMAIN mCallbackQueue[q] :
              mCallbackQueue[q][j].kind \in Completion /\ mCallbackQueue[q][j].req = m.req
                => q = p /\ i < j

\* Callbacks come in order: those of a call among themselves, and while the
\* device has not been restarted those of the calls as they were made.  (After a
\* restart the completions left over from the previous worker are in a queue of
\* their own and may come late.)
CallbackOrder ==
  /\ ProgressPrecedesCompletion
  /\ starts <= 1 => \A i \in DOMAIN answers : i \in DOMAIN issued /\ answers[i] = issued[i]

\* A call is performed with its own parameters.  The header promises so; the
\* unsynchronised parameter map does not keep the promise.
RequestsCarryTheirParams == \A r \in Requests : sent[r] \in {"none", Params(r)}

\* stop() returns: the worker it joins leaves run(), whatever it was doing.
StopReturns == main \in {"clearRunning", "join"} ~> main = "idle"

\* What get() promises its callers, without threads and queues.
Promise == INSTANCE AsyncCalls
             WITH Calls <- Requests, open <- registered,
                  pending <- Range(issued) \ Range(answers), answered <- answers

\* The client implements the promise: a call is answered once, after it was
\* issued, only while the device is started, and at last if it stays started.
KeepsPromise == Promise!FairSpec
=============================================================================
