------------------------------ MODULE RestServer ------------------------------
(***************************************************************************)
(* The REST server device of src/restserver.cpp and the part of            *)
(* httplib::Server it drives: start and stop from the main thread, the     *)
(* listener thread (RestServer::run, Server::listen), and the connections, *)
(* each handled by one job of the task queue.                              *)
(*                                                                         *)
(* Threads share atomics only (mRunning, is_running_, is_decommisioned,    *)
(* svr_sock_), so an action reads or writes one of them at a time.  The    *)
(* task queue is the abstract JobPool, which ThreadPool implements; every  *)
(* start of the listener makes a new one.                                  *)
(***************************************************************************)
EXTENDS Naturals, Sequences, FiniteSets, Functions

CONSTANTS
  Connections,   \* client connections; each is made at most once
  Size,          \* workers of the task queue
  MaxStarts,     \* bound: how often the server is started
  KeepAliveMax   \* keep_alive_max_count_: requests served on one connection

ASSUME ServerAssumption ==
  /\ Size \in Nat \ {0}
  /\ MaxStarts \in Nat
  /\ KeepAliveMax \in Nat \ {0}

VARIABLES
  mRunning, is_running_, is_decommisioned,
  svr_sock_,     \* the listening socket, named by the start that made it; 0: INVALID_SOCKET
  \* the main thread
  main,          \* where stop() is; "idle" outside of it
  starts,        \* number of threads started
  stopSock,      \* sock in Server::stop
  \* the listener thread
  listener,      \* where run() is; "none" when there is no thread to join
  ret,           \* ret in listen_internal
  get_handlers_, \* the starts whose RestFunctions are registered, in order
  \* the task queue of the current start
  phase, queued, running, finished,
  \* the connections
  conn,          \* state of each connection
  served,        \* requests served on it
  calling,       \* the start whose function vector its handler reads; 0: no handler runs
  \* the operating system
  open,          \* listening sockets that are open
  \* history
  closes,        \* how often close was called on each listening socket
  broken         \* starts whose accept failed

lifeVars == <<mRunning, is_running_, is_decommisioned, svr_sock_>>
mainVars == <<main, starts, stopSock>>
listenVars == <<listener, ret, get_handlers_>>
poolVars == <<phase, queued, running, finished>>
connVars == <<conn, served, calling>>
osVars == <<open, closes, broken>>
vars == <<lifeVars, mainVars, listenVars, poolVars, connVars, osVars>>

TaskQueue == INSTANCE JobPool WITH Jobs <- Connections

Runs == 1 .. MaxStarts
INVALID_SOCKET == 0

MainPcs == {"idle", "test", "exchange", "close", "reset", "join"}
ListenerPcs == {"none", "register", "check", "create", "failed", "listen", "loop", "accept",
                "error", "closing", "shutdown", "joining", "verdict", "unset", "exited"}
ConnStates == {"new", "backlog", "queued", "waiting", "calling", "closed"}

\* The types of the variables.
TypeOK ==
  /\ mRunning \in BOOLEAN /\ is_running_ \in BOOLEAN /\ is_decommisioned \in BOOLEAN
  /\ svr_sock_ \in Runs \cup {INVALID_SOCKET}
  /\ main \in MainPcs
  /\ starts \in 0 .. MaxStarts
  /\ stopSock \in Runs \cup {INVALID_SOCKET}
  /\ listener \in ListenerPcs
  /\ ret \in BOOLEAN
  /\ get_handlers_ \in Seq(Runs)
  /\ phase \in {"open", "closing", "closed"}
  /\ queued \in Seq(Connections)
  /\ running \subseteq Connections /\ finished \subseteq Connections
  /\ conn \in [Connections -> ConnStates]
  /\ served \in [Connections -> 0 .. KeepAliveMax]
  /\ calling \in [Connections -> 0 .. MaxStarts]
  /\ open \subseteq Runs
  /\ closes \in [Runs -> Nat]
  /\ broken \subseteq Runs

Init ==
  /\ mRunning = FALSE /\ is_running_ = FALSE /\ is_decommisioned = FALSE
  /\ svr_sock_ = INVALID_SOCKET
  /\ main = "idle" /\ starts = 0 /\ stopSock = INVALID_SOCKET
  /\ listener = "none" /\ ret = TRUE /\ get_handlers_ = <<>>
  /\ phase = "closed" /\ queued = <<>> /\ running = {} /\ finished = {}
  /\ conn = [c \in Connections |-> "new"]
  /\ served = [c \in Connections |-> 0]
  /\ calling = [c \in Connections |-> 0]
  /\ open = {} /\ closes = [s \in Runs |-> 0] /\ broken = {}

\* close_socket: the system resets the connections nobody has accepted.
\* Closing INVALID_SOCKET does nothing.
CloseListening(s) ==
  /\ open' = open \ {s}
  /\ closes' = IF s \in Runs THEN [closes EXCEPT ![s] = @ + 1] ELSE closes
  /\ conn' = IF s \in open
             THEN [c \in Connections |-> IF conn[c] = "backlog" THEN "closed" ELSE conn[c]]
             ELSE conn
  /\ UNCHANGED <<served, calling, broken>>

-----------------------------------------------------------------------------
(***************************************************************************)
(* RestServer::start and ::stop (and onDestroy, which calls stop).         *)
(***************************************************************************)

Start ==
  /\ main = "idle" /\ ~mRunning
  /\ starts < MaxStarts
  /\ mRunning' = TRUE
  /\ starts' = starts + 1
  /\ listener' = "register"
  /\ UNCHANGED <<is_running_, is_decommisioned, svr_sock_, main, stopSock, ret,
                 get_handlers_, poolVars, connVars, osVars>>

\* mRunning.store(false)
StopBegin ==
  /\ main = "idle" /\ mRunning
  /\ mRunning' = FALSE
  /\ main' = "test"
  /\ UNCHANGED <<is_running_, is_decommisioned, svr_sock_, starts, stopSock, listenVars,
                 poolVars, connVars, osVars>>

\* Server::stop: if (is_running_)
StopTest ==
  /\ main = "test"
  /\ main' = IF is_running_ THEN "exchange" ELSE "reset"
  /\ UNCHANGED <<lifeVars, starts, stopSock, listenVars, poolVars, connVars, osVars>>

\* Mutant: the socket is read but left in place.
StopExchangeLoads ==
  /\ main = "exchange"
  /\ stopSock' = svr_sock_
  /\ main' = "close"
  /\ UNCHANGED <<lifeVars, starts, listenVars, poolVars, connVars, osVars>>

\* svr_sock_.exchange(INVALID_SOCKET)
StopExchange ==
  /\ main = "exchange"
  /\ stopSock' = svr_sock_
  /\ svr_sock_' = INVALID_SOCKET
  /\ main' = "close"
  /\ UNCHANGED <<mRunning, is_running_, is_decommisioned, starts, listenVars, poolVars,
                 connVars, osVars>>

\* shutdown_socket and close_socket
StopClose ==
  /\ main = "close"
  /\ CloseListening(stopSock)
  /\ main' = "reset"
  /\ UNCHANGED <<lifeVars, starts, stopSock, listenVars, poolVars>>

\* is_decommisioned = false
StopReset ==
  /\ main = "reset"
  /\ is_decommisioned' = FALSE
  /\ main' = "join"
  /\ UNCHANGED <<mRunning, is_running_, svr_sock_, starts, stopSock, listenVars, poolVars,
                 connVars, osVars>>

\* mThread.join()
StopJoin ==
  /\ main = "join" /\ listener = "exited"
  /\ listener' = "none"
  /\ main' = "idle"
  /\ UNCHANGED <<lifeVars, starts, stopSock, ret, get_handlers_, poolVars, connVars, osVars>>

-----------------------------------------------------------------------------
(***************************************************************************)
(* RestServer::run and Server::listen on the listener thread.              *)
(***************************************************************************)

\* A step that only moves the listener.
Goto(pc) == listener' = pc /\ UNCHANGED <<ret, get_handlers_>>

\* One Get() for each function: the handlers of earlier starts stay in front.
ListenRegister ==
  /\ listener = "register"
  /\ get_handlers_' = Append(get_handlers_, starts)
  /\ listener' = "check"
  /\ UNCHANGED <<lifeVars, mainVars, ret, poolVars, connVars, osVars>>

\* bind_internal: if (is_decommisioned) { return -1; }
ListenCheck ==
  /\ listener = "check"
  /\ Goto(IF is_decommisioned THEN "failed" ELSE "create")
  /\ UNCHANGED <<lifeVars, mainVars, poolVars, connVars, osVars>>

\* create_server_socket binds and listens ...
ListenCreate ==
  /\ listener = "create"
  /\ svr_sock_' = starts
  /\ open' = open \cup {starts}
  /\ Goto("listen")
  /\ UNCHANGED <<mRunning, is_running_, is_decommisioned, mainVars, poolVars, connVars,
                 closes, broken>>

\* ... or fails: the port is taken.
ListenCreateFails ==
  /\ listener = "create"
  /\ svr_sock_' = INVALID_SOCKET
  /\ Goto("failed")
  /\ UNCHANGED <<mRunning, is_running_, is_decommisioned, mainVars, poolVars, connVars,
                 osVars>>

\* bind_to_port: is_decommisioned = true, and listen returns false.
ListenFailed ==
  /\ listener = "failed"
  /\ is_decommisioned' = TRUE
  /\ Goto("exited")
  /\ UNCHANGED <<mRunning, is_running_, svr_sock_, mainVars, poolVars, connVars, osVars>>

\* listen_internal: is_running_ = true and a new task queue.
ListenBegin ==
  /\ listener = "listen"
  /\ IF is_decommisioned
     THEN Goto("exited") /\ UNCHANGED <<is_running_, poolVars>>
     ELSE /\ is_running_' = TRUE
          /\ listener' = "loop" /\ ret' = TRUE /\ UNCHANGED get_handlers_
          /\ phase' = "open" /\ queued' = <<>> /\ running' = {} /\ finished' = {}
  /\ UNCHANGED <<mRunning, is_decommisioned, svr_sock_, mainVars, connVars, osVars>>

\* while (svr_sock_ != INVALID_SOCKET)
ListenLoop ==
  /\ listener = "loop"
  /\ Goto(IF svr_sock_ # INVALID_SOCKET THEN "accept" ELSE "shutdown")
  /\ UNCHANGED <<lifeVars, mainVars, poolVars, connVars, osVars>>

\* accept returns a connection, and its job is enqueued.
Accept(c) ==
  /\ listener = "accept" /\ starts \in open
  /\ conn[c] = "backlog"
  /\ conn' = [conn EXCEPT ![c] = "queued"]
  /\ TaskQueue!Submit(c)
  /\ Goto("loop")
  /\ UNCHANGED <<lifeVars, mainVars, served, calling, osVars>>

\* Mutant: accept is tried again without looking at svr_sock_.
AcceptClosedRetries ==
  /\ listener = "accept" /\ starts \notin open
  /\ Goto("accept")
  /\ UNCHANGED <<lifeVars, mainVars, poolVars, connVars, osVars>>

\* accept fails because the socket was closed ...
AcceptClosed ==
  /\ listener = "accept" /\ starts \notin open
  /\ Goto("error")
  /\ UNCHANGED <<lifeVars, mainVars, poolVars, connVars, osVars>>

\* ... or for a reason other than EMFILE, EINTR and EAGAIN, which only loop.
AcceptFails ==
  /\ listener = "accept" /\ starts \in open
  /\ Goto("error")
  /\ broken' = broken \cup {starts}
  /\ UNCHANGED <<lifeVars, mainVars, poolVars, connVars, open, closes>>

\* if (svr_sock_ != INVALID_SOCKET): not closed by stop()
AcceptError ==
  /\ listener = "error"
  /\ Goto(IF svr_sock_ # INVALID_SOCKET THEN "closing" ELSE "shutdown")
  /\ UNCHANGED <<lifeVars, mainVars, poolVars, connVars, osVars>>

\* close_socket(svr_sock_), whatever svr_sock_ is by now; it keeps its value.
ListenCloseSocket ==
  /\ listener = "closing"
  /\ CloseListening(svr_sock_)
  /\ ret' = FALSE
  /\ listener' = "shutdown"
  /\ UNCHANGED <<lifeVars, mainVars, get_handlers_, poolVars>>

\* task_queue->shutdown() begins ...
ListenShutdown ==
  /\ listener = "shutdown"
  /\ TaskQueue!Shutdown
  /\ Goto("joining")
  /\ UNCHANGED <<lifeVars, mainVars, connVars, osVars>>

\* Mutant: the workers are not joined.
ListenJoinedDetaches ==
  /\ listener = "joining"
  /\ phase' = "closed" /\ UNCHANGED <<queued, running, finished>>
  /\ Goto("verdict")
  /\ UNCHANGED <<lifeVars, mainVars, connVars, osVars>>

\* ... and returns.
ListenJoined ==
  /\ listener = "joining"
  /\ TaskQueue!Close
  /\ Goto("verdict")
  /\ UNCHANGED <<lifeVars, mainVars, connVars, osVars>>

\* is_decommisioned = !ret
ListenVerdict ==
  /\ listener = "verdict"
  /\ is_decommisioned' = ~ret
  /\ Goto("unset")
  /\ UNCHANGED <<mRunning, is_running_, svr_sock_, mainVars, poolVars, connVars, osVars>>

\* Mutant: no scope_exit.
ListenUnsetForgotten ==
  /\ listener = "unset"
  /\ Goto("exited")
  /\ UNCHANGED <<lifeVars, mainVars, poolVars, connVars, osVars>>

\* scope_exit: is_running_ = false; run() returns and its functions are gone.
ListenUnset ==
  /\ listener = "unset"
  /\ is_running_' = FALSE
  /\ Goto("exited")
  /\ UNCHANGED <<mRunning, is_decommisioned, svr_sock_, mainVars, poolVars, connVars, osVars>>

-----------------------------------------------------------------------------
(***************************************************************************)
(* The clients, and process_and_close_socket on a worker of the task queue.*)
(***************************************************************************)

Connect(c) ==
  /\ conn[c] = "new" /\ open # {}
  /\ conn' = [conn EXCEPT ![c] = "backlog"]
  /\ UNCHANGED <<lifeVars, mainVars, listenVars, poolVars, served, calling, osVars>>

\* Mutant: a connection still queued when the server is stopped is not begun.
ConnBeginWhileListening ==
  /\ svr_sock_ # INVALID_SOCKET
  /\ TaskQueue!Begin
  /\ conn' = [conn EXCEPT ![Head(queued)] = "waiting"]
  /\ UNCHANGED <<lifeVars, mainVars, listenVars, served, calling, osVars>>

\* A worker begins the job of the connection that has waited longest.
ConnBegin ==
  /\ TaskQueue!Begin
  /\ conn' = [conn EXCEPT ![Head(queued)] = "waiting"]
  /\ UNCHANGED <<lifeVars, mainVars, listenVars, served, calling, osVars>>

\* Mutant: the requests of a connection are not counted.
RequestUncounted(c) ==
  /\ conn[c] = "waiting"
  /\ conn' = [conn EXCEPT ![c] = "calling"]
  /\ calling' = [calling EXCEPT ![c] = Head(get_handlers_)]
  /\ UNCHANGED <<lifeVars, mainVars, listenVars, poolVars, served, osVars>>

\* keep_alive finds a request to read, even when the server is being stopped;
\* dispatch_request calls the first handler that matches the path.
Request(c) ==
  /\ conn[c] = "waiting" /\ served[c] < KeepAliveMax
  /\ conn' = [conn EXCEPT ![c] = "calling"]
  /\ calling' = [calling EXCEPT ![c] = Head(get_handlers_)]
  /\ UNCHANGED <<lifeVars, mainVars, listenVars, poolVars, served, osVars>>

\* The function returns and the response is written.
Respond(c) ==
  /\ conn[c] = "calling"
  /\ conn' = [conn EXCEPT ![c] = "waiting"]
  /\ calling' = [calling EXCEPT ![c] = 0]
  /\ served' = [served EXCEPT ![c] = @ + 1]
  /\ UNCHANGED <<lifeVars, mainVars, listenVars, poolVars, osVars>>

\* The client has closed, no request came in time, the server socket is gone,
\* or the connection has had its requests: the job closes the connection.
ConnClose(c) ==
  /\ conn[c] = "waiting"
  /\ conn' = [conn EXCEPT ![c] = "closed"]
  /\ TaskQueue!Finish(c)
  /\ UNCHANGED <<lifeVars, mainVars, listenVars, served, calling, osVars>>

-----------------------------------------------------------------------------
StopStep == StopTest \/ StopExchange \/ StopClose \/ StopReset \/ StopJoin

AcceptStep == (\E c \in Connections : Accept(c)) \/ AcceptClosed

ListenStep ==
  \/ ListenRegister \/ ListenCheck \/ ListenCreate \/ ListenFailed \/ ListenBegin \/ ListenLoop
  \/ AcceptError \/ ListenCloseSocket \/ ListenShutdown \/ ListenJoined \/ ListenVerdict
  \/ ListenUnset

ConnStep(c) == Respond(c) \/ ConnClose(c)

Next ==
  \/ Start \/ StopBegin \/ StopStep
  \/ ListenStep \/ AcceptStep \/ ListenCreateFails \/ AcceptFails
  \/ ConnBegin
  \/ \E c \in Connections : Connect(c) \/ Request(c) \/ ConnStep(c)

\* Threads are scheduled, functions return, and a connection without a request
\* is given up after the keep-alive time.  Nobody need connect, send a request,
\* start or stop, and nothing need fail.
Fairness ==
  /\ WF_vars(StopStep) /\ WF_vars(ListenStep) /\ WF_vars(AcceptStep) /\ WF_vars(ConnBegin)
  /\ \A c \in Connections : WF_vars(ConnStep(c))

Spec == Init /\ [][Next]_vars

FairSpec == Spec /\ Fairness
-----------------------------------------------------------------------------
(***************************************************************************)
(* Properties.                                                             *)
(***************************************************************************)

\* The assertion in Server::stop: the socket it is about to close is valid,
\* wherever the listener is and however often the server was restarted.
StopFindsASocket == main = "exchange" => svr_sock_ # INVALID_SOCKET

\* When stop() has returned, nothing of the server is left: no function is
\* called any more and no connection is served, waits for a worker or for accept.
StoppedIsQuiet ==
  main = "idle" /\ ~mRunning =>
    /\ listener = "none"
    /\ \A c \in Connections : conn[c] \in {"new", "closed"} /\ calling[c] = 0

\* Each listening socket is closed when stop() has returned, and it is closed
\* once, unless its accept had failed (then stop() may close its number again).
ListeningSocketsClosedOnce ==
  /\ main = "idle" /\ ~mRunning => open = {}
  /\ \A s \in Runs : closes[s] <= (IF s \in broken THEN 2 ELSE 1)

\* stop() of a server that it found running returns, however busy the
\* connections are.
RunningServerStops == main = "exchange" ~> main = "idle"

\* A connection that was accepted is served to its end, also through a stop().
AcceptedIsServed == \A c \in Connections : conn[c] = "queued" ~> conn[c] = "closed"

\* stop() returns.  Violated: Server::stop leaves a listener alone that has not
\* come to is_running_ = true yet, and stop() then joins it.
StopReturns == main = "test" ~> main = "idle"

\* A request is routed to the functions of the running server.  Violated after
\* a restart: the handler found first reads the vector of a thread that is gone.
RoutesToLiveFunction ==
  \A c \in Connections : conn[c] = "calling" => calling[c] = starts
=============================================================================
