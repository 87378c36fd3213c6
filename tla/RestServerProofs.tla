--------------------------- MODULE RestServerProofs ---------------------------
(***************************************************************************)
(* Theorems about RestServer, for any connections, any number of workers   *)
(* and starts and any keep-alive limit, and about its task queue.          *)
(***************************************************************************)
EXTENDS RestServer, ThreadPool, SequenceLemmas, FiniteSetTheorems, TLAPS

USE DEF Runs, INVALID_SOCKET

\* The listener is within listen_internal, with is_running_ set.
Up == {"loop", "accept", "error", "closing", "shutdown", "joining", "verdict", "unset"}
\* The listener has its socket and has not begun to give it up.
Listening == {"listen", "loop", "accept"}
\* The task queue of this start is in use.
Pooled == {"loop", "accept", "error", "closing", "shutdown", "joining"}

-----------------------------------------------------------------------------
(***************************************************************************)
(* Where the two threads are, and who holds the socket.                    *)
(***************************************************************************)

\* stop() and the listener: there is a thread to join exactly when the server
\* runs or is being stopped, and is_running_ follows the listener.
ThreadsInv ==
  /\ mRunning => main = "idle"
  /\ listener = "none" <=> main = "idle" /\ ~mRunning
  /\ listener # "none" => starts \in Runs
  /\ is_running_ <=> listener \in Up
  /\ listener \in {"create", "listen"} => ~is_decommisioned

\* The socket of this start goes from the listener to svr_sock_, and from
\* there to the stop() that exchanged it; only these two close it.
SocketInv ==
  /\ open \subseteq {starts}
  /\ listener \in {"none", "register", "check", "create", "failed"} => open = {}
  /\ listener \in Up \cup {"listen"} =>
       \/ svr_sock_ = starts
       \/ svr_sock_ = INVALID_SOCKET /\ main \in {"close", "reset", "join"}
  /\ main = "exchange" => svr_sock_ = starts /\ listener \in Up \cup {"exited"}
  /\ main = "close" =>
       stopSock = starts /\ svr_sock_ = INVALID_SOCKET /\ listener \in Up \cup {"exited"}
  /\ starts \in open =>
       \/ svr_sock_ = starts /\ listener \in Listening \cup {"error", "closing"}
       \/ main = "close"
  /\ listener \in Listening /\ starts \notin open =>
       svr_sock_ = INVALID_SOCKET /\ main \in {"reset", "join"}

\* The connections: the backlog needs an open socket, the others the task
\* queue, which is empty when the listener does not use it.
ConnInv ==
  /\ \A c \in Connections :
       /\ conn[c] = "backlog" => open # {}
       /\ conn[c] \in {"waiting", "calling"} => c \in running
       /\ conn[c] # "calling" => calling[c] = 0
       /\ conn[c] = "calling" => served[c] < KeepAliveMax
  /\ Range(queued) = {c \in Connections : conn[c] = "queued"}
  /\ IsInjective(queued)
  /\ listener \notin Pooled => queued = <<>> /\ running = {}
  /\ listener \in Up => get_handlers_ # <<>>
  /\ listener \in {"check", "create", "listen"} => get_handlers_ # <<>>

IInv == TypeOK /\ ThreadsInv /\ SocketInv /\ ConnInv

\* Who may still close the socket of this start: a stop() that has not come to
\* it yet, and a listener whose accept has failed.
StopMayClose == listener # "none" /\ main \in {"idle", "test", "exchange", "close"}
ListenerMayClose == listener \in {"error", "closing"} /\ svr_sock_ = starts

\* The closes of each socket and those still to come are at most one, or two
\* when its accept has failed.
CloseInv ==
  /\ \A s \in Runs : s > starts => closes[s] = 0 /\ s \notin broken
  /\ \A s \in Runs : closes[s] <= (IF s \in broken THEN 2 ELSE 1)
  /\ listener \in {"register", "check", "create", "failed"} \cup Listening =>
       starts \notin broken
  /\ listener = "closing" => starts \in broken
  /\ listener = "error" /\ starts \notin broken => svr_sock_ = INVALID_SOCKET
  /\ StopMayClose /\ (ListenerMayClose \/ starts \notin broken) => closes[starts] = 0
  /\ StopMayClose \/ ListenerMayClose => closes[starts] <= 1

\* TypeOK in two parts: the two threads, and what the connections are served with.
ThreadTypes ==
  /\ mRunning \in BOOLEAN /\ is_running_ \in BOOLEAN /\ is_decommisioned \in BOOLEAN
  /\ svr_sock_ \in Runs \cup {INVALID_SOCKET}
  /\ main \in MainPcs
  /\ starts \in 0 .. MaxStarts
  /\ stopSock \in Runs \cup {INVALID_SOCKET}
  /\ listener \in ListenerPcs
  /\ ret \in BOOLEAN
  /\ get_handlers_ \in Seq(Runs)

ServiceTypes ==
  /\ phase \in {"open", "closing", "closed"}
  /\ queued \in Seq(Connections)
  /\ running \subseteq Connections /\ finished \subseteq Connections
  /\ conn \in [Connections -> ConnStates]
  /\ served \in [Connections -> 0 .. KeepAliveMax]
  /\ calling \in [Connections -> 0 .. MaxStarts]
  /\ open \subseteq Runs
  /\ closes \in [Runs -> Nat]
  /\ broken \subseteq Runs

LEMMA TypeParts == TypeOK <=> ThreadTypes /\ ServiceTypes
  BY DEF TypeOK, ThreadTypes, ServiceTypes

LEMMA InitInv == Init => IInv
  <1> SUFFICES ASSUME Init PROVE IInv
    OBVIOUS
  <1> USE DEF Init
  <1>1. TypeOK
    <2>1. ThreadTypes
      <3>1. <<>> \in Seq(Runs) /\ 0 \in 0 .. MaxStarts
        BY ServerAssumption
      <3> HIDE DEF Runs
      <3> QED
        BY <3>1 DEF ThreadTypes, MainPcs, ListenerPcs
    <2>2. ServiceTypes
      <3>1. <<>> \in Seq(Connections)
        OBVIOUS
      <3> QED
        BY <3>1, ServerAssumption DEF ServiceTypes, ConnStates
    <2> QED
      BY <2>1, <2>2, TypeParts
  <1>2. ThreadsInv
    BY DEF ThreadsInv, Up
  <1>3. SocketInv
    BY DEF SocketInv, Up, Listening
  <1>4. ConnInv
    <2>1. Range(<<>>) = {} /\ IsInjective(<<>>)
      BY DEF Range, IsInjective
    <2> QED
      BY <2>1 DEF ConnInv, Up, Pooled
  <1> QED
    BY <1>1, <1>2, <1>3, <1>4 DEF IInv

-----------------------------------------------------------------------------
(***************************************************************************)
(* The variables keep their types.                                         *)
(***************************************************************************)

\* close_socket touches the connections and the history only.
LEMMA CloseTypes ==
  ASSUME ServiceTypes, NEW s, CloseListening(s), UNCHANGED poolVars
  PROVE  ServiceTypes'
  <1> USE DEF ServiceTypes, CloseListening, poolVars
  <1>1. open' \subseteq Runs
    OBVIOUS
  <1>2. closes' \in [Runs -> Nat]
    <2>1. CASE s \in Runs
      <3> HIDE DEF Runs
      <3>1. closes[s] + 1 \in Nat /\ closes' = [closes EXCEPT ![s] = closes[s] + 1]
        BY <2>1
      <3> QED
        BY <3>1
    <2>2. CASE s \notin Runs
      BY <2>2
    <2> QED
      BY <2>1, <2>2
  <1>3. conn' \in [Connections -> ConnStates]
    BY DEF ConnStates
  <1> QED
    BY <1>1, <1>2, <1>3

LEMMA ThreadTypesStep == IInv /\ [Next]_vars => ThreadTypes'
  <1> SUFFICES ASSUME IInv, [Next]_vars PROVE ThreadTypes'
    OBVIOUS
  <1>0. ThreadTypes
    BY TypeParts DEF IInv
  <1> USE <1>0 DEF ThreadTypes, MainPcs, ListenerPcs, mainVars, listenVars, lifeVars
  <1>1. CASE Start
    BY <1>1, ServerAssumption DEF Start
  <1>2. CASE StopBegin \/ StopStep
    <2>1. CASE StopBegin
      BY <2>1 DEF StopBegin
    <2>2. CASE StopTest \/ StopReset
      BY <2>2 DEF StopTest, StopReset
    <2>3. CASE StopExchange
      BY <2>3 DEF StopExchange
    <2>4. CASE StopClose \/ StopJoin
      BY <2>4 DEF StopClose, StopJoin
    <2> QED
      BY <1>2, <2>1, <2>2, <2>3, <2>4 DEF StopStep
  <1>3. CASE ListenRegister
    <2>1. starts \in Runs
      BY <1>3 DEF ListenRegister, IInv, ThreadsInv
    <2>2. get_handlers_' \in Seq(Runs)
      BY <1>3, <2>1 DEF ListenRegister
    <2> QED
      BY <1>3, <2>2 DEF ListenRegister
  <1>4. CASE ListenCreate
    <2>1. starts \in Runs
      BY <1>4 DEF ListenCreate, IInv, ThreadsInv
    <2> QED
      BY <1>4, <2>1 DEF ListenCreate, Goto
  <1>5. CASE ListenCheck \/ ListenCreateFails \/ ListenFailed \/ ListenBegin
    BY <1>5 DEF ListenCheck, ListenCreateFails, ListenFailed, ListenBegin, Goto
  <1>6. CASE ListenLoop \/ AcceptClosed \/ AcceptFails \/ AcceptError \/ ListenCloseSocket
    BY <1>6 DEF ListenLoop, AcceptClosed, AcceptFails, AcceptError, ListenCloseSocket, Goto
  <1>7. CASE ListenShutdown \/ ListenJoined \/ ListenVerdict \/ ListenUnset
    BY <1>7 DEF ListenShutdown, ListenJoined, ListenVerdict, ListenUnset, Goto
  <1>8. ASSUME NEW c \in Connections,
               Accept(c) \/ Connect(c) \/ Request(c) \/ Respond(c) \/ ConnClose(c)
        PROVE  ThreadTypes'
    BY <1>8 DEF Accept, Connect, Request, Respond, ConnClose, Goto
  <1>9. CASE ConnBegin
    BY <1>9 DEF ConnBegin
  <1>10. CASE UNCHANGED vars
    BY <1>10 DEF vars
  <1> QED
    BY <1>1, <1>2, <1>3, <1>4, <1>5, <1>6, <1>7, <1>8, <1>9, <1>10
       DEF Next, StopStep, ListenStep, AcceptStep, ConnStep

LEMMA ServiceTypesStep == IInv /\ [Next]_vars => ServiceTypes'
  <1> SUFFICES ASSUME IInv, [Next]_vars PROVE ServiceTypes'
    OBVIOUS
  <1>0. ServiceTypes
    BY TypeParts DEF IInv
  <1>1. ASSUME UNCHANGED <<poolVars, connVars, osVars>> PROVE ServiceTypes'
    BY <1>0, <1>1 DEF ServiceTypes, poolVars, connVars, osVars
  <1>2. CASE Start \/ StopBegin \/ StopTest \/ StopExchange \/ StopReset \/ StopJoin
    BY <1>1, <1>2 DEF Start, StopBegin, StopTest, StopExchange, StopReset, StopJoin
  <1>3. CASE ListenRegister \/ ListenCheck \/ ListenCreateFails \/ ListenFailed \/ ListenLoop
             \/ AcceptClosed \/ AcceptError \/ ListenVerdict \/ ListenUnset
    BY <1>1, <1>3 DEF ListenRegister, ListenCheck, ListenCreateFails, ListenFailed, ListenLoop,
                      AcceptClosed, AcceptError, ListenVerdict, ListenUnset
  <1>4. CASE StopClose \/ ListenCloseSocket
    BY <1>0, <1>4, CloseTypes DEF StopClose, ListenCloseSocket
  <1>5. CASE ListenCreate \/ AcceptFails
    <2>1. starts \in Runs
      BY <1>5 DEF ListenCreate, AcceptFails, IInv, ThreadsInv
    <2> QED
      BY <1>0, <1>5, <2>1 DEF ListenCreate, AcceptFails, ServiceTypes, poolVars, connVars
  <1>6. CASE ListenBegin
    <2>1. <<>> \in Seq(Connections)
      OBVIOUS
    <2> QED
      BY <1>0, <1>1, <1>6, <2>1 DEF ListenBegin, ServiceTypes, poolVars, connVars, osVars
  <1>7. CASE ListenShutdown \/ ListenJoined
    BY <1>0, <1>7 DEF ListenShutdown, ListenJoined, TaskQueue!Shutdown, TaskQueue!Close,
                      ServiceTypes, connVars, osVars
  <1>8. CASE ConnBegin
    <2>1. Head(queued) \in Connections /\ queued' \in Seq(Connections)
      BY <1>0, <1>8, HeadTailProperties DEF ConnBegin, TaskQueue!Begin, ServiceTypes
    <2> QED
      BY <1>0, <1>8, <2>1 DEF ConnBegin, TaskQueue!Begin, ServiceTypes, ConnStates, osVars
  <1>9. ASSUME NEW c \in Connections, Accept(c) PROVE ServiceTypes'
    <2>1. queued' \in Seq(Connections)
      BY <1>0, <1>9 DEF Accept, TaskQueue!Submit, ServiceTypes
    <2> QED
      BY <1>0, <1>9, <2>1 DEF Accept, TaskQueue!Submit, ServiceTypes, ConnStates, osVars
  <1>10. ASSUME NEW c \in Connections, Connect(c) PROVE ServiceTypes'
    BY <1>0, <1>10 DEF Connect, ServiceTypes, ConnStates, poolVars, osVars
  <1>11. ASSUME NEW c \in Connections, ConnClose(c) PROVE ServiceTypes'
    BY <1>0, <1>11 DEF ConnClose, TaskQueue!Finish, ServiceTypes, ConnStates, osVars
  <1>12. ASSUME NEW c \in Connections, Request(c) PROVE ServiceTypes'
    <2>1. get_handlers_ # <<>>
      BY <1>12 DEF Request, IInv, ConnInv, Pooled, Up
    <2>2. Head(get_handlers_) \in Runs
      BY <2>1, TypeParts, HeadTailProperties DEF IInv, ThreadTypes
    <2>3. calling' \in [Connections -> 0 .. MaxStarts]
      BY <1>0, <1>12, <2>2, ServerAssumption DEF Request, ServiceTypes
    <2> QED
      BY <1>0, <1>12, <2>3 DEF Request, ServiceTypes, ConnStates, poolVars, osVars
  <1>13. ASSUME NEW c \in Connections, Respond(c) PROVE ServiceTypes'
    <2>1. served[c] \in 0 .. KeepAliveMax /\ served[c] < KeepAliveMax
      BY <1>0, <1>13 DEF Respond, IInv, ConnInv, ServiceTypes
    <2>2. served' \in [Connections -> 0 .. KeepAliveMax]
      BY <1>0, <1>13, <2>1, ServerAssumption DEF Respond, ServiceTypes
    <2>3. calling' \in [Connections -> 0 .. MaxStarts]
      BY <1>0, <1>13, ServerAssumption DEF Respond, ServiceTypes
    <2> QED
      BY <1>0, <1>13, <2>2, <2>3 DEF Respond, ServiceTypes, ConnStates, poolVars, osVars
  <1>14. CASE UNCHANGED vars
    BY <1>1, <1>14 DEF vars
  <1> QED
    BY <1>2, <1>3, <1>4, <1>5, <1>6, <1>7, <1>8, <1>9, <1>10, <1>11, <1>12, <1>13, <1>14
       DEF Next, StopStep, ListenStep, AcceptStep, ConnStep

LEMMA TypeStep == IInv /\ [Next]_vars => TypeOK'
  BY ThreadTypesStep, ServiceTypesStep, TypeParts DEF TypeOK, ThreadTypes, ServiceTypes

-----------------------------------------------------------------------------
\* Stop and the listener keep step.
LEMMA ThreadsStep == IInv /\ [Next]_vars => ThreadsInv'
  <1> SUFFICES ASSUME IInv, [Next]_vars PROVE ThreadsInv'
    OBVIOUS
  <1> USE DEF IInv, ThreadsInv, Up, mainVars, listenVars, lifeVars
  <1>1. CASE Start
    BY <1>1, ServerAssumption DEF Start, TypeOK
  <1>2. CASE StopBegin \/ StopStep
    BY <1>2 DEF StopBegin, StopStep, StopTest, StopExchange, StopClose, StopReset, StopJoin
  <1>3. CASE ListenRegister \/ ListenCheck \/ ListenCreate \/ ListenFailed \/ ListenBegin
    BY <1>3 DEF ListenRegister, ListenCheck, ListenCreate, ListenFailed, ListenBegin, Goto,
                SocketInv
  <1>4. CASE ListenLoop \/ AcceptError \/ ListenCloseSocket \/ ListenShutdown \/ ListenJoined
             \/ ListenVerdict \/ ListenUnset
    BY <1>4 DEF ListenLoop, AcceptError, ListenCloseSocket, ListenShutdown, ListenJoined,
                ListenVerdict, ListenUnset, Goto
  <1>5. CASE AcceptClosed \/ ListenCreateFails \/ AcceptFails
    BY <1>5 DEF AcceptClosed, ListenCreateFails, AcceptFails, Goto
  <1>6. ASSUME NEW c \in Connections,
               Accept(c) \/ Connect(c) \/ Request(c) \/ Respond(c) \/ ConnClose(c)
        PROVE  ThreadsInv'
    BY <1>6 DEF Accept, Connect, Request, Respond, ConnClose, Goto
  <1>7. CASE ConnBegin
    BY <1>7 DEF ConnBegin
  <1>8. CASE UNCHANGED vars
    BY <1>8 DEF vars
  <1> QED
    BY <1>1, <1>2, <1>3, <1>4, <1>5, <1>6, <1>7, <1>8 DEF Next, ListenStep, AcceptStep, ConnStep

\* The socket passes from the listener to svr_sock_ and on to stop().
LEMMA SocketStep == IInv /\ [Next]_vars => SocketInv'
  <1> SUFFICES ASSUME IInv, [Next]_vars PROVE SocketInv'
    OBVIOUS
  <1> USE DEF IInv, SocketInv, Up, Listening, mainVars, listenVars, lifeVars, osVars
  <1>0. starts \in 0 .. MaxStarts /\ (listener # "none" => starts # INVALID_SOCKET)
    BY DEF TypeOK, ThreadsInv
  <1>1. CASE Start
    BY <1>0, <1>1 DEF Start, ThreadsInv
  <1>2. CASE StopBegin \/ StopTest \/ StopExchange
    BY <1>0, <1>2 DEF StopBegin, StopTest, StopExchange, ThreadsInv
  <1>3. CASE StopClose
    BY <1>0, <1>3 DEF StopClose, CloseListening
  <1>4. CASE StopReset \/ StopJoin
    BY <1>4 DEF StopReset, StopJoin
  <1>5. CASE ListenRegister \/ ListenCheck
    BY <1>5 DEF ListenRegister, ListenCheck, Goto, ThreadsInv
  <1>6. CASE ListenCreate
    BY <1>0, <1>6 DEF ListenCreate, Goto, ThreadsInv
  <1>7. CASE ListenCreateFails \/ ListenFailed
    BY <1>7 DEF ListenCreateFails, ListenFailed, Goto, ThreadsInv
  <1>8. CASE ListenBegin
    BY <1>8 DEF ListenBegin, Goto, ThreadsInv
  <1>9. CASE ListenLoop \/ AcceptError
    BY <1>0, <1>9 DEF ListenLoop, AcceptError, Goto, ThreadsInv
  <1>10. CASE AcceptClosed \/ AcceptFails
    BY <1>10 DEF AcceptClosed, AcceptFails, Goto
  <1>11. CASE ListenCloseSocket
    BY <1>0, <1>11 DEF ListenCloseSocket, CloseListening
  <1>12. CASE ListenShutdown \/ ListenJoined \/ ListenVerdict \/ ListenUnset
    BY <1>12 DEF ListenShutdown, ListenJoined, ListenVerdict, ListenUnset, Goto
  <1>13. ASSUME NEW c \in Connections,
                Accept(c) \/ Connect(c) \/ Request(c) \/ Respond(c) \/ ConnClose(c)
         PROVE  SocketInv'
    BY <1>13 DEF Accept, Connect, Request, Respond, ConnClose, Goto
  <1>14. CASE ConnBegin
    BY <1>14 DEF ConnBegin
  <1>15. CASE UNCHANGED vars
    BY <1>15 DEF vars
  <1> QED
    BY <1>1, <1>2, <1>3, <1>4, <1>5, <1>6, <1>7, <1>8, <1>9, <1>10, <1>11, <1>12, <1>13, <1>14,
       <1>15
       DEF Next, StopStep, ListenStep, AcceptStep, ConnStep

\* A connection that is accepted joins the queue.
LEMMA AcceptQueues ==
  ASSUME TypeOK, ConnInv, NEW c \in Connections, Accept(c)
  PROVE  ConnInv'
  <1>1. /\ conn[c] = "backlog" /\ conn' = [conn EXCEPT ![c] = "queued"]
        /\ queued' = Append(queued, c) /\ listener = "accept" /\ listener' = "loop"
        /\ UNCHANGED <<get_handlers_, running, served, calling, open>>
    BY DEF Accept, TaskQueue!Submit, Goto, osVars
  <1>2. queued \in Seq(Connections) /\ conn \in [Connections -> ConnStates]
    BY DEF TypeOK
  <1>3. Range(queued) = {d \in Connections : conn[d] = "queued"} /\ IsInjective(queued)
    BY DEF ConnInv
  <1>4. c \notin Range(queued)
    BY <1>1, <1>3
  <1>5. Range(queued') = Range(queued) \cup {c} /\ IsInjective(queued')
    BY <1>1, <1>2, <1>3, <1>4, QueueAppend
  <1>6. Range(queued') = {d \in Connections : conn'[d] = "queued"}
    BY <1>1, <1>2, <1>3, <1>5
  <1> QED
    BY <1>1, <1>2, <1>5, <1>6 DEF ConnInv, Pooled, Up

\* The connection at the head of the queue leaves it.
LEMMA BeginTakesHead ==
  ASSUME TypeOK, ConnInv, ConnBegin
  PROVE  ConnInv'
  <1> DEFINE h == Head(queued)
  <1>1. /\ queued # <<>> /\ queued' = Tail(queued)
        /\ conn' = [conn EXCEPT ![h] = "waiting"] /\ running' = running \cup {h}
        /\ UNCHANGED <<listener, get_handlers_, served, calling, open>>
    BY DEF ConnBegin, TaskQueue!Begin, listenVars, osVars
  <1>2. queued \in Seq(Connections) /\ conn \in [Connections -> ConnStates]
    BY DEF TypeOK
  <1>3. Range(queued) = {d \in Connections : conn[d] = "queued"} /\ IsInjective(queued)
    BY DEF ConnInv
  <1>4. /\ h \in Range(queued)
        /\ Range(queued') = Range(queued) \ {h} /\ IsInjective(queued')
    BY <1>1, <1>2, <1>3, QueueHead
  <1>5. listener \in Pooled
    BY <1>1 DEF ConnInv
  <1> HIDE DEF h
  <1>6. Range(queued') = {d \in Connections : conn'[d] = "queued"}
    BY <1>1, <1>2, <1>3, <1>4
  <1> QED
    BY <1>1, <1>2, <1>3, <1>4, <1>5, <1>6 DEF ConnInv

\* A connection is where its state says, and the queue names each one once.
LEMMA ConnectionsStep == IInv /\ [Next]_vars => ConnInv'
  <1> SUFFICES ASSUME IInv, [Next]_vars PROVE ConnInv'
    OBVIOUS
  <1>0. ServiceTypes /\ ThreadTypes /\ ConnInv /\ SocketInv
    BY TypeParts DEF IInv
  <1> USE <1>0 DEF ServiceTypes, ConnInv, Pooled, Up
  <1>1. CASE Start \/ StopBegin \/ StopTest \/ StopExchange \/ StopReset \/ StopJoin
    BY <1>1 DEF Start, StopBegin, StopTest, StopExchange, StopReset, StopJoin, IInv, ThreadsInv,
                listenVars, poolVars, connVars, osVars
  <1>2. CASE StopClose \/ ListenCloseSocket
    BY <1>2 DEF StopClose, ListenCloseSocket, CloseListening, SocketInv, ThreadTypes,
                listenVars, poolVars
  <1>3. CASE ListenRegister
    <2>1. get_handlers_' # <<>>
      BY <1>3 DEF ListenRegister, ThreadTypes
    <2> QED
      BY <1>3, <2>1 DEF ListenRegister, poolVars, connVars, osVars
  <1>4. CASE ListenCheck \/ ListenCreate \/ ListenCreateFails \/ ListenFailed
    BY <1>4 DEF ListenCheck, ListenCreate, ListenCreateFails, ListenFailed, Goto,
                poolVars, connVars, osVars
  <1>5. CASE ListenBegin
    <2>1. Range(<<>>) = {} /\ IsInjective(<<>>)
      BY DEF Range, IsInjective
    <2> QED
      BY <1>5, <2>1 DEF ListenBegin, Goto, poolVars, connVars, osVars
  <1>6. CASE ListenLoop \/ AcceptClosed \/ AcceptFails \/ AcceptError
    BY <1>6 DEF ListenLoop, AcceptClosed, AcceptFails, AcceptError, Goto,
                poolVars, connVars, osVars
  <1>7. CASE ListenShutdown \/ ListenJoined
    BY <1>7 DEF ListenShutdown, ListenJoined, TaskQueue!Shutdown, TaskQueue!Close, Goto,
                connVars, osVars
  <1>8. CASE ListenVerdict \/ ListenUnset
    BY <1>8 DEF ListenVerdict, ListenUnset, Goto, poolVars, connVars, osVars
  <1>9. ASSUME NEW c \in Connections, Accept(c) PROVE ConnInv'
    BY <1>9, AcceptQueues DEF IInv
  <1>10. CASE ConnBegin
    BY <1>10, BeginTakesHead DEF IInv
  <1>11. ASSUME NEW c \in Connections, Connect(c) \/ Request(c) \/ Respond(c)
         PROVE  ConnInv'
    <2>1. CASE Connect(c)
      BY <1>11, <2>1 DEF Connect, listenVars, poolVars, osVars
    <2>2. CASE Request(c)
      BY <1>11, <2>2 DEF Request, listenVars, poolVars, osVars
    <2>3. CASE Respond(c)
      BY <1>11, <2>3 DEF Respond, listenVars, poolVars, osVars
    <2> QED
      BY <1>11, <2>1, <2>2, <2>3
  <1>12. ASSUME NEW c \in Connections, ConnClose(c) PROVE ConnInv'
    BY <1>12 DEF ConnClose, TaskQueue!Finish, listenVars, osVars
  <1>13. CASE UNCHANGED vars
    BY <1>13 DEF vars, listenVars, poolVars, connVars, osVars
  <1> QED
    BY <1>1, <1>2, <1>3, <1>4, <1>5, <1>6, <1>7, <1>8, <1>9, <1>10, <1>11, <1>12, <1>13
       DEF Next, StopStep, ListenStep, AcceptStep, ConnStep

-----------------------------------------------------------------------------
(***************************************************************************)
(* The theorems.                                                           *)
(***************************************************************************)

\* The inductive invariant holds always.
THEOREM Invariant == Spec => []IInv
  <1>1. IInv /\ [Next]_vars => IInv'
    BY TypeStep, ThreadsStep, SocketStep, ConnectionsStep DEF IInv
  <1> QED
    BY InitInv, <1>1, PTL DEF Spec

\* The variables of the server keep their types: no connection serves more
\* requests than KeepAliveMax, whatever the threads do.
THEOREM TypeCorrect == Spec => []TypeOK
  BY Invariant, PTL DEF IInv

\* The assertion in Server::stop holds for any number of starts and stops.
THEOREM StopHasASocket == Spec => []StopFindsASocket
  <1>1. IInv => StopFindsASocket
    BY DEF IInv, ThreadsInv, SocketInv, Up, StopFindsASocket
  <1> QED
    BY <1>1, Invariant, PTL

\* When stop() has returned no function runs and no connection is left, for any
\* number of connections and workers.
THEOREM StopLeavesNothing == Spec => []StoppedIsQuiet
  <1>1. IInv => StoppedIsQuiet
    <2> SUFFICES ASSUME IInv, main = "idle", ~mRunning, NEW c \in Connections
                 PROVE  listener = "none" /\ conn[c] \in {"new", "closed"} /\ calling[c] = 0
      BY DEF StoppedIsQuiet, IInv, ThreadsInv
    <2>1. listener = "none"
      BY DEF IInv, ThreadsInv
    <2>2. open = {}
      BY <2>1 DEF IInv, SocketInv
    <2>3. queued = <<>> /\ running = {}
      BY <2>1 DEF IInv, ConnInv, Pooled
    <2>4. conn[c] \notin {"backlog", "queued", "waiting", "calling"}
      BY <2>2, <2>3 DEF IInv, ConnInv, Range
    <2>5. conn[c] \in ConnStates
      BY DEF IInv, TypeOK
    <2> QED
      BY <2>1, <2>4, <2>5 DEF ConnStates, IInv, ConnInv
  <1> QED
    BY <1>1, Invariant, PTL

LEMMA CloseInit == Init => CloseInv
  BY ServerAssumption DEF Init, CloseInv, StopMayClose, ListenerMayClose, Listening

\* A close uses up one of those that were still to come.
LEMMA CloseStep == IInv /\ CloseInv /\ [Next]_vars => CloseInv'
  <1> SUFFICES ASSUME IInv, CloseInv, [Next]_vars PROVE CloseInv'
    OBVIOUS
  <1>0. /\ starts \in Nat /\ (listener # "none" => starts \in Runs)
        /\ closes \in [Runs -> Nat] /\ broken \subseteq Runs
        /\ SocketInv /\ ThreadsInv
    BY ServerAssumption DEF IInv, TypeOK, ThreadsInv
  <1> USE <1>0 DEF CloseInv, StopMayClose, ListenerMayClose, Listening,
                   mainVars, listenVars, lifeVars, osVars
  <1>1. CASE Start
    BY <1>1, ServerAssumption DEF Start
  <1>2. CASE StopBegin \/ StopTest \/ StopExchange \/ StopReset \/ StopJoin
    <2>1. CASE StopBegin \/ StopTest \/ StopReset
      BY <2>1 DEF StopBegin, StopTest, StopReset
    <2>2. CASE StopExchange
      BY <2>2 DEF StopExchange
    <2>3. CASE StopJoin
      BY <2>3 DEF StopJoin
    <2> QED
      BY <1>2, <2>1, <2>2, <2>3
  <1>3. CASE StopClose
    BY <1>3 DEF StopClose, CloseListening, SocketInv, Up
  <1>4. CASE ListenRegister \/ ListenCheck \/ ListenCreate \/ ListenCreateFails \/ ListenFailed
             \/ ListenBegin
    BY <1>4 DEF ListenRegister, ListenCheck, ListenCreate, ListenCreateFails, ListenFailed,
                ListenBegin, Goto
  <1>5. CASE ListenLoop \/ AcceptError
    BY <1>5 DEF ListenLoop, AcceptError, Goto
  <1>6. CASE AcceptClosed
    BY <1>6 DEF AcceptClosed, Goto, SocketInv, Up
  <1>7. CASE AcceptFails
    BY <1>7 DEF AcceptFails, Goto
  <1>8. CASE ListenCloseSocket
    BY <1>8 DEF ListenCloseSocket, CloseListening, SocketInv, Up
  <1>9. CASE ListenShutdown \/ ListenJoined \/ ListenVerdict \/ ListenUnset
    BY <1>9 DEF ListenShutdown, ListenJoined, ListenVerdict, ListenUnset, Goto
  <1>10. ASSUME NEW c \in Connections,
                Accept(c) \/ Connect(c) \/ Request(c) \/ Respond(c) \/ ConnClose(c)
         PROVE  CloseInv'
    BY <1>10 DEF Accept, Connect, Request, Respond, ConnClose, Goto
  <1>11. CASE ConnBegin
    BY <1>11 DEF ConnBegin
  <1>12. CASE UNCHANGED vars
    BY <1>12 DEF vars
  <1> QED
    BY <1>1, <1>2, <1>3, <1>4, <1>5, <1>6, <1>7, <1>8, <1>9, <1>10, <1>11, <1>12
       DEF Next, StopStep, ListenStep, AcceptStep, ConnStep

\* Every listening socket is closed when stop() has returned, and closed twice
\* only when its accept had failed: over any number of restarts.
THEOREM SocketsAreClosedOnce == Spec => []ListeningSocketsClosedOnce
  <1>1. IInv /\ CloseInv => ListeningSocketsClosedOnce
    BY DEF IInv, CloseInv, ThreadsInv, SocketInv, ListeningSocketsClosedOnce
  <1>2. Spec => []CloseInv
    BY CloseInit, CloseStep, Invariant, PTL DEF Spec
  <1> QED
    BY <1>1, <1>2, Invariant, PTL

-----------------------------------------------------------------------------
(***************************************************************************)
(* The task queue of the server, ThreadPool, for any finite set of         *)
(* workers, any jobs and any limit of the queue.                           *)
(***************************************************************************)
USE DEF histVars

(***************************************************************************)
(* Type correctness, together with what makes it inductive: a worker that  *)
(* runs has a job, and only a worker before its critical section waits.    *)
(***************************************************************************)
WorkersInOrder ==
  /\ \A w \in Workers : pc[w] = "run" => fn[w] \in Jobs
  /\ \A w \in waiting : pc[w] = "fetch"

PoolTypeInv == PoolTypeOK /\ WorkersInOrder

LEMMA PoolTypeInit == PoolInit => PoolTypeInv
  <1> SUFFICES ASSUME PoolInit PROVE PoolTypeInv
    OBVIOUS
  <1>1. pc \in [Workers -> WorkerPcs] /\ fn \in [Workers -> Jobs \cup {None}]
    BY DEF PoolInit, WorkerPcs
  <1>2. jobs_ \in Seq(Jobs) /\ accepted \in Seq(Jobs) /\ started \in Seq(Jobs)
    BY DEF PoolInit
  <1>3. \A w \in Workers : pc[w] = "fetch"
    BY DEF PoolInit
  <1> QED
    BY <1>1, <1>2, <1>3 DEF PoolInit, PoolTypeInv, PoolTypeOK, WorkersInOrder, OwnerPcs

LEMMA PoolTypeStep == PoolTypeInv /\ [PoolNext]_queueVars => PoolTypeInv'
  <1> SUFFICES ASSUME PoolTypeInv, [PoolNext]_queueVars PROVE PoolTypeInv'
    OBVIOUS
  <1> USE DEF PoolTypeInv, PoolTypeOK, WorkersInOrder, WorkerPcs, OwnerPcs
  <1>1. ASSUME NEW j \in Jobs, Enqueue(j) PROVE PoolTypeInv'
    <2>1. jobs_' \in Seq(Jobs) /\ accepted' \in Seq(Jobs)
      BY <1>1 DEF Enqueue
    <2> QED
      BY <1>1, <2>1 DEF Enqueue
  <1>2. ASSUME NEW j \in Jobs, EnqueueFull(j) PROVE PoolTypeInv'
    BY <1>2 DEF EnqueueFull
  <1>3. CASE NotifyOne
    BY <1>3 DEF NotifyOne
  <1>4. CASE Shutdown \/ NotifyAll \/ Join
    BY <1>4 DEF Shutdown, NotifyAll, Join
  <1>5. ASSUME NEW w \in Workers, Wait(w) \/ SpuriousWakeup(w) \/ Exit(w) PROVE PoolTypeInv'
    BY <1>5 DEF Wait, SpuriousWakeup, Exit
  <1>6. ASSUME NEW w \in Workers, Take(w) PROVE PoolTypeInv'
    <2>1. Head(jobs_) \in Jobs /\ jobs_' \in Seq(Jobs)
      BY <1>6, HeadTailProperties DEF Take
    <2>2. started' \in Seq(Jobs)
      BY <1>6, <2>1 DEF Take
    <2> QED
      BY <1>6, <2>1, <2>2 DEF Take
  <1>7. ASSUME NEW w \in Workers, Return(w) PROVE PoolTypeInv'
    BY <1>7 DEF Return
  <1>8. CASE UNCHANGED queueVars
    BY <1>8 DEF queueVars
  <1> QED
    BY <1>1, <1>2, <1>3, <1>4, <1>5, <1>6, <1>7, <1>8 DEF PoolNext, WorkerStep

LEMMA PoolTypeInvariant == PoolSpec => []PoolTypeInv
  BY PoolTypeInit, PoolTypeStep, PTL DEF PoolSpec

\* Every variable keeps its type.
THEOREM PoolTypeCorrect == PoolSpec => []PoolTypeOK
  <1>1. PoolTypeInv => PoolTypeOK
    BY DEF PoolTypeInv
  <1> QED
    BY <1>1, PoolTypeInvariant, PTL

-----------------------------------------------------------------------------
(***************************************************************************)
(* The order of the jobs.                                                  *)
(***************************************************************************)

\* Each step keeps the order: MoveHead takes the front of what waits to what was started.
LEMMA OrderStep ==
  PoolTypeInv /\ FirstComeFirstServed /\ [PoolNext]_queueVars => FirstComeFirstServed'
  <1> SUFFICES ASSUME PoolTypeInv, FirstComeFirstServed, [PoolNext]_queueVars
               PROVE  FirstComeFirstServed'
    OBVIOUS
  <1> USE DEF FirstComeFirstServed
  <1>t. jobs_ \in Seq(Jobs) /\ started \in Seq(Jobs)
    BY DEF PoolTypeInv, PoolTypeOK
  <1>1. ASSUME NEW j \in Jobs, Enqueue(j) PROVE FirstComeFirstServed'
    <2>1. (started \o jobs_) \o <<j>> = started \o (jobs_ \o <<j>>)
      BY <1>t, ConcatAssociative
    <2>2. Append(started \o jobs_, j) = (started \o jobs_) \o <<j>>
      <3>1. started \o jobs_ \in Seq(Jobs)
        BY <1>t, ConcatProperties
      <3> QED
        BY <3>1, AppendIsConcat
    <2>3. Append(jobs_, j) = jobs_ \o <<j>>
      BY <1>t, AppendIsConcat
    <2>4. accepted' = Append(accepted, j) /\ started' = started /\ jobs_' = Append(jobs_, j)
      BY <1>1 DEF Enqueue
    <2> QED
      BY <2>1, <2>2, <2>3, <2>4, Zenon
  <1>2. ASSUME NEW w \in Workers, Take(w) PROVE FirstComeFirstServed'
    <2>1. started \o jobs_ = Append(started, Head(jobs_)) \o Tail(jobs_)
      BY <1>2, <1>t, MoveHead DEF Take
    <2>2. accepted' = accepted /\ started' = Append(started, Head(jobs_)) /\ jobs_' = Tail(jobs_)
      BY <1>2 DEF Take
    <2> QED
      BY <2>1, <2>2, Zenon
  <1>3. ASSUME NEW j \in Jobs, EnqueueFull(j) PROVE FirstComeFirstServed'
    BY <1>3 DEF EnqueueFull
  <1>4. CASE NotifyOne \/ Shutdown \/ NotifyAll \/ Join
    BY <1>4 DEF NotifyOne, Shutdown, NotifyAll, Join
  <1>5. ASSUME NEW w \in Workers, Wait(w) \/ SpuriousWakeup(w) \/ Return(w) \/ Exit(w)
        PROVE  FirstComeFirstServed'
    BY <1>5 DEF Wait, SpuriousWakeup, Return, Exit
  <1>6. CASE UNCHANGED queueVars
    BY <1>6 DEF queueVars
  <1> QED
    BY <1>1, <1>2, <1>3, <1>4, <1>5, <1>6 DEF PoolNext, WorkerStep

\* Jobs start in the order in which they were enqueued, each exactly once.
THEOREM JobsStartInOrder == PoolSpec => []FirstComeFirstServed
  <1>1. PoolInit => FirstComeFirstServed
    BY DEF PoolInit, FirstComeFirstServed
  <1> QED
    BY <1>1, OrderStep, PoolTypeInvariant, PTL DEF PoolSpec

-----------------------------------------------------------------------------
(***************************************************************************)
(* The shutdown.                                                           *)
(***************************************************************************)

\* A worker leaves only after the flag is set, when no job can come any more;
\* the notification of the shutdown leaves no sleeper behind; the jobs that
\* were started are those that have finished and those that run.
ShutdownInv ==
  /\ shutdown_ <=> owner \in {"notifyAll", "join", "joined"}
  /\ \A w \in Workers : pc[w] = "exited" => shutdown_ /\ jobs_ = <<>>
  /\ owner \in {"join", "joined"} => waiting = {}
  /\ owner = "joined" => \A w \in Workers : pc[w] = "exited"
  /\ Range(started) = completed \cup {fn[w] : w \in {v \in Workers : pc[v] = "run"}}

LEMMA ShutdownStep == PoolTypeInv /\ ShutdownInv /\ [PoolNext]_queueVars => ShutdownInv'
  <1> SUFFICES ASSUME PoolTypeInv, ShutdownInv, [PoolNext]_queueVars PROVE ShutdownInv'
    OBVIOUS
  <1> DEFINE Run == {fn[w] : w \in {v \in Workers : pc[v] = "run"}}
  <1> USE DEF ShutdownInv
  <1>t. PoolTypeOK /\ WorkersInOrder
    BY DEF PoolTypeInv
  <1>1. ASSUME NEW j \in Jobs, Enqueue(j) PROVE ShutdownInv'
    BY <1>1 DEF Enqueue
  <1>2. ASSUME NEW j \in Jobs, EnqueueFull(j) PROVE ShutdownInv'
    BY <1>2 DEF EnqueueFull
  <1>3. CASE NotifyOne \/ Shutdown \/ NotifyAll \/ Join
    BY <1>3 DEF NotifyOne, Shutdown, NotifyAll, Join
  <1>4. ASSUME NEW w \in Workers, Wait(w) \/ SpuriousWakeup(w) PROVE ShutdownInv'
    BY <1>4 DEF Wait, SpuriousWakeup, MayProceed
  <1>5. ASSUME NEW w \in Workers, Take(w) PROVE ShutdownInv'
    <2>1. Head(jobs_) \in Jobs /\ started \in Seq(Jobs)
      BY <1>5, <1>t, HeadTailProperties DEF Take, PoolTypeOK
    <2>2. Range(started') = Range(started) \cup {Head(jobs_)}
      BY <1>5, <2>1, RangeAppend DEF Take
    <2>3. Run' = Run \cup {Head(jobs_)}
      BY <1>5, <1>t DEF Take, PoolTypeOK
    <2>4. Range(started') = completed' \cup Run'
      BY <1>5, <2>2, <2>3 DEF Take
    <2>5. \A v \in Workers : pc'[v] = "exited" => pc[v] = "exited"
      BY <1>5, <1>t DEF Take, PoolTypeOK
    <2> QED
      BY <1>5, <1>t, <2>4, <2>5 DEF Take, PoolTypeOK
  <1>6. ASSUME NEW w \in Workers, Return(w) PROVE ShutdownInv'
    <2>1. completed' \cup Run' = completed \cup Run
      BY <1>6, <1>t DEF Return, PoolTypeOK
    <2>2. \A v \in Workers : pc'[v] = "exited" => pc[v] = "exited"
      BY <1>6, <1>t DEF Return, PoolTypeOK
    <2>3. owner # "joined"
      BY <1>6 DEF Return
    <2> QED
      BY <1>6, <2>1, <2>2, <2>3 DEF Return
  <1>7. ASSUME NEW w \in Workers, Exit(w) PROVE ShutdownInv'
    <2>1. Run' = Run
      BY <1>7, <1>t DEF Exit, PoolTypeOK
    <2> QED
      BY <1>7, <1>t, <2>1 DEF Exit, PoolTypeOK
  <1>8. CASE UNCHANGED queueVars
    BY <1>8 DEF queueVars
  <1> QED
    BY <1>1, <1>2, <1>3, <1>4, <1>5, <1>6, <1>7, <1>8 DEF PoolNext, WorkerStep

LEMMA ShutdownInvariant == PoolSpec => []ShutdownInv
  <1>1. PoolInit => ShutdownInv
    <2> SUFFICES ASSUME PoolInit PROVE ShutdownInv
      OBVIOUS
    <2>1. Range(started) = {}
      BY DEF PoolInit, Range
    <2> QED
      BY <2>1 DEF PoolInit, ShutdownInv
  <1> QED
    BY <1>1, ShutdownStep, PoolTypeInvariant, PTL DEF PoolSpec

\* shutdown() leaves no worker asleep, and when it returns every job that
\* enqueue() accepted has finished.
THEOREM ShutdownIsComplete == PoolSpec => []ShutdownCompletesJobs
  <1>1. PoolTypeInv /\ ShutdownInv /\ FirstComeFirstServed => ShutdownCompletesJobs
    <2> SUFFICES ASSUME PoolTypeInv, ShutdownInv, FirstComeFirstServed, owner = "joined"
                 PROVE  completed = Range(accepted)
      BY DEF ShutdownCompletesJobs, ShutdownInv
    <2>1. \A w \in Workers : pc[w] = "exited"
      BY DEF ShutdownInv
    <2>2. jobs_ = <<>>
      BY <2>1, PoolAssumption DEF ShutdownInv
    <2>3. accepted = started
      BY <2>2 DEF FirstComeFirstServed, PoolTypeInv, PoolTypeOK
    <2> QED
      BY <2>1, <2>3 DEF ShutdownInv
  <1> QED
    BY <1>1, PoolTypeInvariant, ShutdownInvariant, JobsStartInOrder, PTL

-----------------------------------------------------------------------------
(***************************************************************************)
(* No worker sleeps while jobs wait for one: the number of queued jobs is  *)
(* balanced by the number of awake workers.  A job comes with its          *)
(* notification, a notification with an awake worker, and an awake worker  *)
(* is used up only by taking a job.                                        *)
(***************************************************************************)
LEMMA IdleStep ==
  PoolTypeInv /\ NoIdleWorkerWhileJobsQueue /\ [PoolNext]_queueVars => NoIdleWorkerWhileJobsQueue'
  <1> SUFFICES ASSUME PoolTypeInv, NoIdleWorkerWhileJobsQueue, [PoolNext]_queueVars, waiting' # {}
               PROVE  Len(jobs_') <= Cardinality(Fetching')
                                       + (IF owner' = "notify" THEN 1 ELSE 0)
    BY DEF NoIdleWorkerWhileJobsQueue
  <1> USE DEF NoIdleWorkerWhileJobsQueue
  <1>t. PoolTypeOK /\ WorkersInOrder
    BY DEF PoolTypeInv
  <1>f. IsFiniteSet(Fetching) /\ Cardinality(Fetching) \in Nat
        /\ IsFiniteSet(Fetching') /\ Cardinality(Fetching') \in Nat
    <2>1. Fetching \in SUBSET Workers /\ Fetching' \in SUBSET Workers
      BY DEF Fetching
    <2> QED
      BY <2>1, PoolAssumption, FS_Subset, FS_CardinalityType
  <1>l. Len(jobs_) \in Nat
    BY <1>t DEF PoolTypeOK
  <1>m. ASSUME Fetching \subseteq Fetching'
        PROVE  Cardinality(Fetching) <= Cardinality(Fetching')
    BY <1>f, <1>m, FS_Subset
  <1>1. CASE \E j \in Jobs : Enqueue(j)
    <2>1. Fetching' = Fetching /\ Len(jobs_') = Len(jobs_) + 1 /\ waiting' = waiting
      BY <1>1, <1>t DEF Enqueue, Fetching, PoolTypeOK
    <2> QED
      BY <1>1, <1>f, <1>l, <2>1 DEF Enqueue
  <1>2. CASE NotifyOne
    <2>1. PICK w \in waiting : waiting' = waiting \ {w}
      BY <1>2 DEF NotifyOne
    <2>2. Fetching' = Fetching \cup {w} /\ w \notin Fetching
      BY <1>2, <1>t, <2>1 DEF NotifyOne, Fetching, PoolTypeOK, WorkersInOrder
    <2>3. Cardinality(Fetching') = Cardinality(Fetching) + 1
      BY <2>2, <1>f, FS_AddElement
    <2> QED
      BY <1>2, <2>1, <2>3, <1>f, <1>l DEF NotifyOne
  <1>3. CASE NotifyAll
    BY <1>3 DEF NotifyAll
  <1>4. CASE Shutdown \/ Join \/ (\E j \in Jobs : EnqueueFull(j)) \/ UNCHANGED queueVars
    <2>1. Fetching' = Fetching /\ jobs_' = jobs_ /\ waiting' = waiting
          /\ (owner = "notify" <=> owner' = "notify")
      BY <1>4 DEF Shutdown, Join, EnqueueFull, queueVars, Fetching
    <2> QED
      BY <2>1
  <1>5. ASSUME NEW w \in Workers, Wait(w) \/ Exit(w)
        PROVE  Len(jobs_') <= Cardinality(Fetching') + (IF owner' = "notify" THEN 1 ELSE 0)
    <2>1. Len(jobs_') = 0
      BY <1>5 DEF Wait, Exit, MayProceed
    <2> QED
      BY <2>1, <1>f
  <1>6. ASSUME NEW w \in Workers, SpuriousWakeup(w) \/ Return(w)
        PROVE  Len(jobs_') <= Cardinality(Fetching') + (IF owner' = "notify" THEN 1 ELSE 0)
    <2>1. Fetching \subseteq Fetching'
      BY <1>6, <1>t DEF SpuriousWakeup, Return, Fetching, PoolTypeOK
    <2>2. jobs_' = jobs_ /\ owner' = owner /\ waiting # {}
      BY <1>6 DEF SpuriousWakeup, Return
    <2> QED
      BY <2>1, <2>2, <1>m, <1>f, <1>l
  <1>7. ASSUME NEW w \in Workers, Take(w)
        PROVE  Len(jobs_') <= Cardinality(Fetching') + (IF owner' = "notify" THEN 1 ELSE 0)
    <2>1. Fetching' = Fetching \ {w} /\ w \in Fetching
      BY <1>7, <1>t DEF Take, Fetching, PoolTypeOK
    <2>2. Cardinality(Fetching') = Cardinality(Fetching) - 1
      BY <2>1, <1>f, FS_RemoveElement
    <2>3. Len(jobs_') = Len(jobs_) - 1
      BY <1>7, <1>t, HeadTailProperties DEF Take, PoolTypeOK
    <2> QED
      BY <1>7, <2>2, <2>3, <1>f, <1>l DEF Take
  <1> QED
    BY <1>1, <1>2, <1>3, <1>4, <1>5, <1>6, <1>7 DEF PoolNext, WorkerStep

\* A worker never sleeps while there is a job for it.
THEOREM WorkersAreWoken == PoolSpec => []NoIdleWorkerWhileJobsQueue
  <1>1. PoolInit => NoIdleWorkerWhileJobsQueue
    BY DEF PoolInit, NoIdleWorkerWhileJobsQueue
  <1> QED
    BY <1>1, IdleStep, PoolTypeInvariant, PTL DEF PoolSpec

-----------------------------------------------------------------------------
(***************************************************************************)
(* The pool implements the task queue of JobPool.  A job that was accepted *)
(* waits, is run by one worker or has finished, and only one of the three. *)
(***************************************************************************)
Running == {fn[w] : w \in {v \in Workers : pc[v] = "run"}}

PlacesInv ==
  /\ IsInjective(jobs_)
  /\ Range(jobs_) \cap (Running \cup completed) = {}
  /\ Running \cap completed = {}
  /\ \A v, w \in Workers : pc[v] = "run" /\ pc[w] = "run" /\ fn[v] = fn[w] => v = w
  /\ Range(accepted) = Range(jobs_) \cup Running \cup completed

\* A new job joins the queue.
LEMMA EnqueuePlaces ==
  ASSUME PoolTypeInv, PlacesInv, NEW j \in Jobs, Enqueue(j)
  PROVE  PlacesInv' /\ j \notin Range(jobs_) \cup Running \cup completed
  <1>1. /\ jobs_' = Append(jobs_, j) /\ accepted' = Append(accepted, j)
        /\ j \notin Range(accepted)
        /\ UNCHANGED <<pc, fn, completed>>
    BY DEF Enqueue
  <1>2. jobs_ \in Seq(Jobs) /\ accepted \in Seq(Jobs)
    BY DEF PoolTypeInv, PoolTypeOK
  <1>3. j \notin Range(jobs_) \cup Running \cup completed
    BY <1>1 DEF PlacesInv
  <1>4. Range(jobs_') = Range(jobs_) \cup {j} /\ IsInjective(jobs_')
    BY <1>1, <1>2, <1>3, QueueAppend DEF PlacesInv
  <1>5. Range(accepted') = Range(accepted) \cup {j}
    BY <1>1, <1>2, RangeAppend
  <1>6. Running' = Running
    BY <1>1 DEF Running
  <1> QED
    BY <1>1, <1>3, <1>4, <1>5, <1>6 DEF PlacesInv

\* The job at the head of the queue goes to a worker.
LEMMA TakePlaces ==
  ASSUME PoolTypeInv, PlacesInv, NEW w \in Workers, Take(w)
  PROVE  PlacesInv' /\ Running' = Running \cup {Head(jobs_)}
  <1> DEFINE h == Head(jobs_)
  <1>1. /\ jobs_ # <<>> /\ jobs_' = Tail(jobs_) /\ pc[w] = "fetch"
        /\ fn' = [fn EXCEPT ![w] = h] /\ pc' = [pc EXCEPT ![w] = "run"]
        /\ UNCHANGED <<accepted, completed>>
    BY DEF Take
  <1>2. /\ jobs_ \in Seq(Jobs)
        /\ pc \in [Workers -> WorkerPcs] /\ fn \in [Workers -> Jobs \cup {None}]
    BY DEF PoolTypeInv, PoolTypeOK
  <1>3. h \in Range(jobs_) /\ Range(jobs_') = Range(jobs_) \ {h} /\ IsInjective(jobs_')
    BY <1>1, <1>2, QueueHead DEF PlacesInv
  <1> HIDE DEF h
  <1>4. /\ pc'[w] = "run" /\ fn'[w] = h
        /\ \A v \in Workers : v # w => pc'[v] = pc[v] /\ fn'[v] = fn[v]
    BY <1>1, <1>2
  <1>5. Running' = Running \cup {h}
    BY <1>1, <1>4 DEF Running
  <1>6. \A v \in Workers : pc[v] = "run" => fn[v] # h
    BY <1>3 DEF PlacesInv, Running
  <1>7. ASSUME NEW u \in Workers, NEW v \in Workers, pc'[u] = "run", pc'[v] = "run",
               fn'[u] = fn'[v]
        PROVE  u = v
    BY <1>4, <1>6, <1>7 DEF PlacesInv
  <1>8. PlacesInv'
    BY <1>1, <1>3, <1>5, <1>7 DEF PlacesInv
  <1> QED
    BY <1>5, <1>8 DEF h

\* The job of a worker has finished, and no other worker has the same job.
LEMMA ReturnPlaces ==
  ASSUME PoolTypeInv, PlacesInv, NEW w \in Workers, Return(w)
  PROVE  PlacesInv' /\ fn[w] \in Running /\ Running' = Running \ {fn[w]}
  <1>1. /\ pc[w] = "run" /\ completed' = completed \cup {fn[w]}
        /\ fn' = [fn EXCEPT ![w] = None] /\ pc' = [pc EXCEPT ![w] = "fetch"]
        /\ UNCHANGED <<jobs_, accepted>>
    BY DEF Return
  <1>2. pc \in [Workers -> WorkerPcs] /\ fn \in [Workers -> Jobs \cup {None}]
    BY DEF PoolTypeInv, PoolTypeOK
  <1>3. /\ pc'[w] = "fetch"
        /\ \A v \in Workers : v # w => pc'[v] = pc[v] /\ fn'[v] = fn[v]
    BY <1>1, <1>2
  <1>4. fn[w] \in Running
    BY <1>1 DEF Running
  <1>5. \A v \in Workers : v # w /\ pc[v] = "run" => fn[v] # fn[w]
    BY <1>1 DEF PlacesInv
  <1>6. Running' = Running \ {fn[w]}
    <2>1. ASSUME NEW x PROVE x \in Running' <=> x \in Running /\ x # fn[w]
      BY <1>1, <1>3, <1>5 DEF Running
    <2> QED
      BY <2>1
  <1>7. ASSUME NEW u \in Workers, NEW v \in Workers, pc'[u] = "run", pc'[v] = "run",
               fn'[u] = fn'[v]
        PROVE  u = v
    BY <1>3, <1>7 DEF PlacesInv
  <1>8. PlacesInv'
    BY <1>1, <1>4, <1>6, <1>7 DEF PlacesInv
  <1> QED
    BY <1>4, <1>6, <1>8

\* The other steps move no job.
LEMMA SamePlaces ==
  ASSUME PoolTypeInv, PlacesInv,
         \/ \E j \in Jobs : EnqueueFull(j)
         \/ NotifyOne \/ Shutdown \/ NotifyAll \/ Join
         \/ \E w \in Workers : Wait(w) \/ SpuriousWakeup(w) \/ Exit(w)
         \/ UNCHANGED queueVars
  PROVE  PlacesInv' /\ UNCHANGED <<jobs_, Running, completed>>
  <1>1. UNCHANGED <<jobs_, fn, accepted, completed>>
    BY DEF EnqueueFull, NotifyOne, Shutdown, NotifyAll, Join, Wait, SpuriousWakeup, Exit, queueVars
  <1>2. \A v \in Workers : pc'[v] = "run" <=> pc[v] = "run"
    BY DEF EnqueueFull, NotifyOne, Shutdown, NotifyAll, Join, Wait, SpuriousWakeup, Exit, queueVars,
           PoolTypeInv, PoolTypeOK
  <1>3. Running' = Running
    BY <1>1, <1>2 DEF Running
  <1> QED
    BY <1>1, <1>2, <1>3 DEF PlacesInv

LEMMA PlacesStep == PoolTypeInv /\ PlacesInv /\ [PoolNext]_queueVars => PlacesInv'
  BY EnqueuePlaces, TakePlaces, ReturnPlaces, SamePlaces DEF PoolNext, WorkerStep

LEMMA PlacesInvariant == PoolSpec => []PlacesInv
  <1>1. PoolInit => PlacesInv
    <2> SUFFICES ASSUME PoolInit PROVE PlacesInv
      OBVIOUS
    <2>1. jobs_ = <<>> /\ accepted = <<>> /\ completed = {} /\ Running = {}
      BY DEF PoolInit, Running
    <2>2. Range(<<>>) = {} /\ IsInjective(<<>>)
      BY DEF Range, IsInjective
    <2>3. \A w \in Workers : pc[w] # "run"
      BY DEF PoolInit
    <2> QED
      BY <2>1, <2>2, <2>3 DEF PlacesInv
  <1> QED
    BY <1>1, PlacesStep, PoolTypeInvariant, PTL DEF PoolSpec

\* While a worker fetches, fewer jobs run than there are workers.
LEMMA WorkerIsFree ==
  ASSUME PoolTypeInv, NEW w \in Workers, pc[w] = "fetch"
  PROVE  Cardinality(Running) < Cardinality(Workers)
  <1> DEFINE busy == {v \in Workers : pc[v] = "run"}
  <1>1. busy \subseteq Workers \ {w}
    OBVIOUS
  <1>2. /\ IsFiniteSet(Workers \ {w})
        /\ Cardinality(Workers \ {w}) = Cardinality(Workers) - 1
        /\ Cardinality(Workers) \in Nat
    BY PoolAssumption, FS_RemoveElement, FS_CardinalityType
  <1>3. IsFiniteSet(busy) /\ Cardinality(busy) <= Cardinality(Workers \ {w})
    BY <1>1, <1>2, FS_Subset
  <1>4. IsFiniteSet(Running) /\ Cardinality(Running) <= Cardinality(busy)
    <2> DEFINE f == [v \in busy |-> fn[v]]
    <2>1. f \in Surjection(busy, Running)
      BY DEF Surjection, Running
    <2> HIDE DEF f, busy
    <2> QED
      BY <1>3, <2>1, FS_Surjection
  <1>5. Cardinality(busy) \in Nat /\ Cardinality(Running) \in Nat
        /\ Cardinality(Workers \ {w}) \in Nat
    BY <1>2, <1>3, <1>4, FS_CardinalityType
  <1> HIDE DEF busy
  <1> QED
    BY <1>2, <1>3, <1>4, <1>5

\* The phase as the refinement mapping names it.
Phase == CASE ~shutdown_ -> "open" [] owner = "joined" -> "closed" [] OTHER -> "closing"

\* What the refinement mapping makes of the flag and the owner.
LEMMA PhaseIs ==
  ASSUME ShutdownInv
  PROVE  /\ ~shutdown_ => Phase = "open"
         /\ owner \in {"notifyAll", "join"} => shutdown_ /\ Phase = "closing"
         /\ owner = "joined" => shutdown_ /\ Phase = "closed"
         /\ owner \in {"idle", "notify"} => Phase = "open"
  BY DEF ShutdownInv, Phase

LEMMA PoolStep == PoolTypeInv /\ ShutdownInv /\ PlacesInv /\ [PoolNext]_queueVars => [Pool!Next]_(Pool!vars)
  <1> SUFFICES ASSUME PoolTypeInv, ShutdownInv, PlacesInv, [PoolNext]_queueVars
               PROVE  [Pool!Next]_(Pool!vars)
    OBVIOUS
  <1>s. ShutdownInv'
    BY ShutdownStep
  <1>o. owner \in OwnerPcs /\ owner' \in OwnerPcs
    BY PoolTypeStep DEF PoolTypeInv, PoolTypeOK
  <1>p. /\ owner \in {"idle", "notify"} => Phase = "open"
        /\ owner \in {"notifyAll", "join"} => Phase = "closing"
        /\ owner = "joined" => Phase = "closed"
    BY PhaseIs
  <1>q. /\ owner' \in {"idle", "notify"} => Phase' = "open"
        /\ owner' \in {"notifyAll", "join"} => Phase' = "closing"
        /\ owner' = "joined" => Phase' = "closed"
    BY <1>s DEF ShutdownInv, Phase
  <1>u. UNCHANGED <<Phase, jobs_, Running, completed>> => UNCHANGED Pool!vars
    BY DEF Pool!vars, Phase, Running
  <1>1. ASSUME NEW j \in Jobs, Enqueue(j) PROVE [Pool!Next]_(Pool!vars)
    <2>1. j \notin Range(jobs_) \cup Running \cup completed
      BY <1>1, EnqueuePlaces
    <2>2. /\ Phase = "open" /\ Phase' = Phase
          /\ jobs_' = Append(jobs_, j)
          /\ UNCHANGED <<Running, completed>>
      BY <1>1, <1>p, <1>q DEF Enqueue, Running
    <2>3. \A i \in DOMAIN jobs_ : jobs_[i] # j
      BY <2>1 DEF Range
    <2>4. Pool!Submit(j)
      BY <2>1, <2>2, <2>3 DEF Pool!Submit, Phase, Running
    <2> QED
      BY <2>4 DEF Pool!Next
  <1>2. ASSUME NEW w \in Workers, Take(w) PROVE [Pool!Next]_(Pool!vars)
    <2>1. Running' = Running \cup {Head(jobs_)}
      BY <1>2, TakePlaces
    <2>2. Cardinality(Running) < Cardinality(Workers)
      BY <1>2, WorkerIsFree DEF Take
    <2>3. /\ jobs_ # <<>> /\ jobs_' = Tail(jobs_)
          /\ UNCHANGED <<Phase, completed>>
      BY <1>2 DEF Take, Phase
    <2>4. Pool!Cardinality(Running) = Cardinality(Running)
      BY Zenon DEF Cardinality, Pool!Cardinality
    <2>5. Pool!Begin
      BY <2>1, <2>2, <2>3, <2>4 DEF Pool!Begin, Phase, Running
    <2> QED
      BY <2>5 DEF Pool!Next
  <1>3. ASSUME NEW w \in Workers, Return(w) PROVE [Pool!Next]_(Pool!vars)
    <2>1. fn[w] \in Running /\ Running' = Running \ {fn[w]}
      BY <1>3, ReturnPlaces
    <2>2. PICK j \in Jobs : j = fn[w]
      BY <1>3 DEF Return, PoolTypeInv, WorkersInOrder
    <2>3. completed' = completed \cup {fn[w]} /\ UNCHANGED <<Phase, jobs_>>
      BY <1>3 DEF Return, Phase
    <2>4. Pool!Finish(j)
      BY <2>1, <2>2, <2>3 DEF Pool!Finish, Phase, Running
    <2> QED
      BY <2>4 DEF Pool!Next
  <1>4. CASE Shutdown
    <2>1. UNCHANGED <<jobs_, Running, completed>>
      BY <1>4, SamePlaces
    <2>2. Phase = "open" /\ Phase' = "closing"
      BY <1>4, <1>p, <1>q DEF Shutdown
    <2>3. Pool!Shutdown
      BY <2>1, <2>2 DEF Pool!Shutdown, Phase, Running
    <2> QED
      BY <2>3 DEF Pool!Next
  <1>5. CASE Join
    <2>1. UNCHANGED <<jobs_, Running, completed>>
      BY <1>5, SamePlaces
    <2>2. Phase = "closing" /\ Phase' = "closed"
      BY <1>5, <1>p, <1>q DEF Join
    <2>3. jobs_ = <<>> /\ Running = {}
      BY <1>5, PoolAssumption DEF Join, ShutdownInv, Running
    <2>4. Pool!Close
      BY <2>1, <2>2, <2>3 DEF Pool!Close, Phase, Running
    <2> QED
      BY <2>4 DEF Pool!Next
  <1>6. CASE NotifyOne \/ NotifyAll
    <2>1. UNCHANGED <<jobs_, Running, completed>>
      BY <1>6, SamePlaces
    <2>2. Phase' = Phase
      BY <1>6, <1>p, <1>q DEF NotifyOne, NotifyAll
    <2> QED
      BY <1>u, <2>1, <2>2
  <1>7. CASE (\E j \in Jobs : EnqueueFull(j))
               \/ (\E w \in Workers : Wait(w) \/ SpuriousWakeup(w) \/ Exit(w))
               \/ UNCHANGED queueVars
    <2>1. UNCHANGED <<jobs_, Running, completed>>
      BY <1>7, SamePlaces
    <2>2. UNCHANGED <<shutdown_, owner>>
      BY <1>7 DEF EnqueueFull, Wait, SpuriousWakeup, Exit, queueVars
    <2>3. Phase' = Phase
      BY <2>2 DEF Phase
    <2> QED
      BY <1>u, <2>1, <2>3
  <1> QED
    BY <1>1, <1>2, <1>3, <1>4, <1>5, <1>6, <1>7 DEF PoolNext, WorkerStep

\* The pool is a task queue: jobs begin in the order they were submitted, each
\* once, never more at a time than there are workers, and a shutdown that has
\* returned left none behind.  (That every job finishes and shutdown() returns is
\* IsTaskQueue, which TLC checks.)
THEOREM PoolImplementsTaskQueue == PoolSpec => Pool!Spec
  <1>1. PoolInit => Pool!Init
    <2> SUFFICES ASSUME PoolInit PROVE Pool!Init
      OBVIOUS
    <2>1. Running = {} /\ jobs_ = <<>> /\ completed = {}
      BY DEF PoolInit, Running
    <2>2. Phase = "open"
      BY DEF PoolInit, Phase
    <2> QED
      BY <2>1, <2>2 DEF Pool!Init, Phase, Running
  <1> QED
    BY <1>1, PoolStep, PoolTypeInvariant, ShutdownInvariant, PlacesInvariant, PTL
    DEF PoolSpec, Pool!Spec
=============================================================================
