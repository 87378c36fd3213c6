----------------------------- MODULE HttpClient -----------------------------
(***************************************************************************)
(* httplib::ClientImpl and SSLClient: the socket a client keeps between    *)
(* requests.  Several threads send requests, any thread may call stop(),   *)
(* and the server answers, stays silent or closes the connection.          *)
(*                                                                         *)
(* request_mutex_ is held for the whole of a call, and is recursive: a     *)
(* redirect or an authentication sends again from within handle_request.   *)
(* `stack` holds the nested activations of send_, the innermost first.     *)
(* Every block of the code under socket_mutex_ is one action.              *)
(***************************************************************************)
EXTENDS Naturals, Sequences

CONSTANTS
  Threads,           \* threads that use the client
  Sockets,           \* descriptors the system can hand out, 1..n
  None,              \* no thread
  RedirectMax,       \* CPPHTTPLIB_REDIRECT_MAX_COUNT
  AuthorizationMax,  \* the 5 of handle_request
  MaxCalls,          \* bound: calls of send by the threads
  MaxStops           \* bound: calls of stop

ASSUME ThreadsAssumption == None \notin Threads
ASSUME SocketsAssumption == Sockets \subseteq Nat \ {0}
ASSUME BoundsAssumption ==
  /\ RedirectMax \in Nat /\ AuthorizationMax \in Nat
  /\ MaxCalls \in Nat /\ MaxStops \in Nat

VARIABLES
  settings,     \* keep_alive_, follow_location_, credentials, SSLClient, proxy
  sock,         \* socket_.sock, 0 for INVALID_SOCKET
  ssl,          \* socket_.ssl is set
  inFlight,     \* socket_requests_in_flight_
  owner,        \* socket_requests_are_from_thread_
  shouldClose,  \* socket_should_be_closed_when_request_is_done_
  holder,       \* thread that holds request_mutex_
  stack,        \* activations of send_ of that thread
  peerClosed,   \* error is SSLPeerCouldBeClosed_
  conn,         \* the system's view of each descriptor
  calls, stops, \* number of calls so far
  stopped       \* history: stop() came while the present call was in flight

members == <<sock, ssl, inFlight, owner, shouldClose>>
bounds == <<calls, stops, stopped>>
vars == <<settings, members, holder, stack, peerClosed, conn, bounds>>

Settings == [keep_alive: BOOLEAN, follow: BOOLEAN, digest: BOOLEAN,
             ssl: BOOLEAN, proxy: BOOLEAN]
Statuses == {"ok", "redirect", "unauthorized"}

\* A descriptor of the process: closed, open, or shut down locally; whether
\* the server still has its end; the request it works on; unread answers.
Closed == [state |-> "closed", peer |-> FALSE, request |-> 0, answers |-> <<>>]
Fresh == [Closed EXCEPT !.state = "open", !.peer = TRUE]

Frame(kind, redirects, auths) ==
  [kind |-> kind, redirects |-> redirects, auths |-> auths, pc |-> "begin",
   strm |-> 0, n |-> 0, got |-> 0, status |-> "ok", ends |-> FALSE,
   ret |-> FALSE, retried |-> FALSE]

Init ==
  /\ settings \in Settings
  /\ sock = 0 /\ ssl = FALSE
  /\ inFlight = 0 /\ owner = None /\ shouldClose = FALSE
  /\ holder = None /\ stack = <<>> /\ peerClosed = FALSE
  /\ conn = [s \in Sockets |-> Closed]
  /\ calls = 0 /\ stops = 0 /\ stopped = FALSE

-----------------------------------------------------------------------------
Top == stack[1]
At(pc) == stack # <<>> /\ Top.pc = pc
Become(f) == stack' = <<f>> \o Tail(stack)
Go(pc) == Become([Top EXCEPT !.pc = pc])
Fails == Become([Top EXCEPT !.pc = "leave", !.ret = FALSE])

ShutDown(s) ==
  IF s # 0 THEN [conn EXCEPT ![s].state = "shut"] ELSE conn
CloseOf(s) == IF s # 0 THEN [conn EXCEPT ![s] = Closed] ELSE conn

\* shutdown_ssl, shutdown_socket and close_socket, always called together.
CloseSocket == sock' = 0 /\ ssl' = FALSE /\ conn' = CloseOf(sock)

\* is_socket_alive: nothing to read and no end of file, or a byte to read.
\* With SSL the peek that follows tells a close_notify from data.
IsAlive(s) ==
  /\ s # 0
  /\ conn[s].answers = <<>> => conn[s].state = "open" /\ conn[s].peer

\* A number for an exchange that no unread answer carries.
Unused ==
  LET taken == {conn[s].request : s \in Sockets}
                 \cup UNION {{conn[s].answers[i].n : i \in DOMAIN conn[s].answers} :
                              s \in Sockets}
  IN  CHOOSE n \in 1..(2 * RedirectMax + 4) :
        n \notin taken /\ \A m \in 1..(n - 1) : m \in taken

\* What the caller of send does with the result of the innermost send_: once
\* more if the SSL peer had closed, else back to handle_request or the thread.
Resume(p, f) ==
  LET q == IF f.ret THEN [p EXCEPT !.status = f.status, !.ret = TRUE]
           ELSE [p EXCEPT !.ret = FALSE]
  IN  IF f.kind = "auth" THEN [q EXCEPT !.pc = "leave"]
      ELSE [q EXCEPT !.pc = "authorize",
                     !.redirects = IF f.ret THEN f.redirects ELSE @]

\* Mutant: send tries again as long as the SSL peer closes.
ReturnRetries(f, gone) ==
  IF gone
    THEN /\ Become(Frame(f.kind, f.redirects, f.auths))
         /\ UNCHANGED holder
    ELSE IF Len(stack) = 1
      THEN stack' = <<>> /\ holder' = None
      ELSE /\ stack' = <<Resume(stack[2], f)>> \o Tail(Tail(stack))
           /\ UNCHANGED holder

Return(f, gone) ==
  IF gone /\ ~f.retried
    THEN /\ Become([Frame(f.kind, f.redirects, f.auths) EXCEPT !.retried = TRUE])
         /\ UNCHANGED holder
    ELSE IF Len(stack) = 1
      THEN stack' = <<>> /\ holder' = None
      ELSE /\ stack' = <<Resume(stack[2], f)>> \o Tail(Tail(stack))
           /\ UNCHANGED holder

-----------------------------------------------------------------------------
\* A thread calls send and gets request_mutex_.
Call(t) ==
  /\ holder = None /\ calls < MaxCalls
  /\ calls' = calls + 1 /\ stopped' = FALSE
  /\ holder' = t
  /\ stack' = <<Frame("call", RedirectMax, 0)>>
  /\ peerClosed' = FALSE
  /\ UNCHANGED <<settings, members, conn, stops>>

\* The first locked block of send_ with a usable socket.
BeginReuse ==
  /\ At("begin")
  /\ IsAlive(sock)
  /\ shouldClose' = FALSE
  /\ inFlight' = inFlight + 1 /\ owner' = holder
  /\ Become([Top EXCEPT !.pc = "write", !.strm = sock, !.n = Unused])
  /\ UNCHANGED <<settings, sock, ssl, holder, peerClosed, conn, bounds>>

\* Mutant: the dead socket is forgotten instead of closed.
BeginConnectLeaks ==
  /\ At("begin")
  /\ ~IsAlive(sock)
  /\ shouldClose' = FALSE
  /\ \E s \in Sockets :
       /\ conn[s].state = "closed"
       /\ sock' = s
       /\ conn' = [conn EXCEPT ![s] = Fresh]
       /\ Become([Top EXCEPT !.pc = "write", !.strm = s, !.n = Unused])
  /\ ssl' = settings.ssl
  /\ peerClosed' = FALSE
  /\ inFlight' = inFlight + 1 /\ owner' = holder
  /\ UNCHANGED <<settings, holder, bounds>>

\* The same without one: a dead socket is closed, a new one connected.
BeginConnect ==
  /\ At("begin")
  /\ ~IsAlive(sock)
  /\ shouldClose' = FALSE
  /\ \E s \in Sockets :
       /\ CloseOf(sock)[s].state = "closed"
       /\ \A q \in Sockets : CloseOf(sock)[q].state = "closed" => s <= q
       /\ sock' = s
       /\ conn' = [CloseOf(sock) EXCEPT ![s] = Fresh]
       /\ Become([Top EXCEPT !.pc = "write", !.strm = s, !.n = Unused])
  /\ ssl' = settings.ssl
  /\ peerClosed' = FALSE
  /\ inFlight' = inFlight + 1 /\ owner' = holder
  /\ UNCHANGED <<settings, holder, bounds>>

\* Mutant: connecting does not reset the error of an earlier attempt.
BeginRefusedKeepsError ==
  /\ At("begin")
  /\ ~IsAlive(sock)
  /\ shouldClose' = FALSE
  /\ CloseSocket
  /\ Return([Top EXCEPT !.ret = settings.ssl /\ settings.proxy], FALSE)
  /\ UNCHANGED <<settings, inFlight, owner, peerClosed, bounds>>

\* The same when there is no connection, or the handshake or the proxy fails:
\* send_ returns before it counts the request.  An answer of the proxy other
\* than 200 is handed out as the response of the request.  The error of an
\* earlier attempt stays when the name cannot be resolved.
BeginRefused ==
  /\ At("begin")
  /\ ~IsAlive(sock)
  /\ shouldClose' = FALSE
  /\ CloseSocket
  /\ \/ /\ peerClosed' \in {FALSE, peerClosed}
        /\ Return([Top EXCEPT !.ret = FALSE], peerClosed')
     \/ /\ settings.ssl /\ settings.proxy
        /\ peerClosed' = FALSE
        /\ Return([Top EXCEPT !.ret = TRUE], FALSE)
  /\ UNCHANGED <<settings, inFlight, owner, bounds>>

\* write_request.
Write ==
  /\ At("write")
  /\ Top.strm # 0 /\ conn[Top.strm].state = "open"
  /\ conn' = IF conn[Top.strm].peer
             THEN [conn EXCEPT ![Top.strm].request = Top.n] ELSE conn
  /\ peerClosed' = FALSE
  /\ Go("read")
  /\ UNCHANGED <<settings, members, holder, bounds>>

\* The socket was shut down or closed by the peer, or the write times out.
WriteFails ==
  /\ At("write")
  /\ Fails
  /\ UNCHANGED <<settings, members, holder, peerClosed, conn, bounds>>

\* The rest of process_request: the first answer on the stream is the response.
Read ==
  /\ At("read")
  /\ conn[Top.strm].answers # <<>>
  /\ LET a == Head(conn[Top.strm].answers)
     IN  Become([Top EXCEPT !.pc = "answered", !.got = a.n, !.ret = TRUE,
                            !.status = a.status, !.ends = a.close])
  /\ conn' = [conn EXCEPT ![Top.strm].answers = Tail(@)]
  /\ UNCHANGED <<settings, members, holder, peerClosed, bounds>>

\* The time is out, the stream ends, the answer is malformed or a callback
\* of the user refuses it; what was not read stays in the socket.
ReadFails ==
  /\ At("read")
  /\ Fails
  /\ UNCHANGED <<settings, members, holder, peerClosed, conn, bounds>>

\* is_ssl_peer_could_be_closed after the request was written.
ReadPeerClosed ==
  /\ At("read")
  /\ settings.ssl /\ ~settings.proxy
  /\ ~conn[Top.strm].peer /\ conn[Top.strm].answers = <<>>
  /\ peerClosed' = TRUE
  /\ Fails
  /\ UNCHANGED <<settings, members, holder, conn, bounds>>

\* The locked block of handle_request for "Connection: close" and HTTP/1.0.
Answered ==
  /\ At("answered")
  /\ IF Top.ends THEN CloseSocket ELSE UNCHANGED <<sock, ssl, conn>>
  /\ Go("follow")
  /\ UNCHANGED <<settings, inFlight, owner, shouldClose, holder, peerClosed, bounds>>

NoRedirect ==
  /\ At("follow")
  /\ ~(Top.status = "redirect" /\ settings.follow)
  /\ Go("authorize")
  /\ UNCHANGED <<settings, members, holder, peerClosed, conn, bounds>>

\* redirect: too many, or a location that cannot be followed.
RedirectFails ==
  /\ At("follow")
  /\ Top.status = "redirect" /\ settings.follow
  /\ Become([Top EXCEPT !.pc = "authorize", !.ret = FALSE])
  /\ UNCHANGED <<settings, members, holder, peerClosed, conn, bounds>>

\* Mutant: redirect_count_ is not decremented.
RedirectSameUncounted ==
  /\ At("follow")
  /\ Top.status = "redirect" /\ settings.follow
  /\ Top.redirects # 0
  /\ stack' = <<Frame("redirect", Top.redirects, Top.auths)>> \o stack
  /\ UNCHANGED <<settings, members, holder, peerClosed, conn, bounds>>

\* redirect to the same scheme, host and port: this client sends again.
RedirectSame ==
  /\ At("follow")
  /\ Top.status = "redirect" /\ settings.follow
  /\ Top.redirects # 0
  /\ stack' = <<Frame("redirect", Top.redirects - 1, Top.auths)>> \o stack
  /\ UNCHANGED <<settings, members, holder, peerClosed, conn, bounds>>

\* redirect to another host: a client of its own, with the same settings.
RedirectElsewhere ==
  /\ At("follow")
  /\ Top.status = "redirect" /\ settings.follow
  /\ Top.redirects # 0
  /\ \/ /\ \E status \in Statuses, left \in 0..(Top.redirects - 1) :
             Become([Top EXCEPT !.pc = "authorize", !.status = status,
                                !.redirects = left])
        /\ peerClosed' = FALSE
     \/ /\ Become([Top EXCEPT !.pc = "authorize", !.ret = FALSE])
        /\ peerClosed' \in BOOLEAN
  /\ UNCHANGED <<settings, members, holder, conn, bounds>>

\* 401 and 407: once more with credentials, while there are some to give.
Authorize ==
  /\ At("authorize")
  /\ Top.status = "unauthorized" /\ settings.digest
  /\ Top.auths < AuthorizationMax
  /\ stack' = <<Frame("auth", Top.redirects, Top.auths + 1)>> \o stack
  /\ UNCHANGED <<settings, members, holder, peerClosed, conn, bounds>>

\* No challenge, or one that cannot be parsed.
NoAuthorize ==
  /\ At("authorize")
  /\ Go("leave")
  /\ UNCHANGED <<settings, members, holder, peerClosed, conn, bounds>>

\* Mutant: a failed request leaves the socket open.
LeaveKeepsFailed ==
  /\ At("leave")
  /\ inFlight' = inFlight - 1
  /\ owner' = IF inFlight = 1 THEN None ELSE owner
  /\ IF shouldClose \/ ~settings.keep_alive
       THEN CloseSocket ELSE UNCHANGED <<sock, ssl, conn>>
  /\ Return(Top, peerClosed)
  /\ UNCHANGED <<settings, shouldClose, peerClosed, bounds>>

\* The scope_exit of send_, and the return from send.
Leave ==
  /\ At("leave")
  /\ inFlight' = inFlight - 1
  /\ owner' = IF inFlight = 1 THEN None ELSE owner
  /\ IF shouldClose \/ ~settings.keep_alive \/ ~Top.ret
       THEN CloseSocket ELSE UNCHANGED <<sock, ssl, conn>>
  /\ Return(Top, peerClosed)
  /\ UNCHANGED <<settings, shouldClose, peerClosed, bounds>>

\* Mutant: stop closes also under a request.
StopCloses ==
  /\ stops < MaxStops
  /\ stops' = stops + 1
  /\ CloseSocket
  /\ UNCHANGED <<settings, inFlight, owner, shouldClose, holder, stack,
                  peerClosed, calls, stopped>>

\* ClientImpl::stop, from any thread.
Stop ==
  /\ stops < MaxStops
  /\ stops' = stops + 1
  /\ IF inFlight > 0
       THEN /\ conn' = ShutDown(sock)
            /\ shouldClose' = TRUE
            /\ stopped' = TRUE
            /\ UNCHANGED <<sock, ssl>>
       ELSE CloseSocket /\ UNCHANGED <<shouldClose, stopped>>
  /\ UNCHANGED <<settings, inFlight, owner, holder, stack, peerClosed, calls>>

-----------------------------------------------------------------------------
\* The server answers the request on a connection, and may close with it.
ServerAnswers(s) ==
  /\ conn[s].state = "open" /\ conn[s].peer /\ conn[s].request # 0
  /\ \E status \in Statuses, close \in BOOLEAN :
       conn' = [conn EXCEPT ![s] =
                 [conn[s] EXCEPT !.request = 0, !.peer = ~close,
                    !.answers = Append(conn[s].answers,
                                       [n |-> conn[s].request, status |-> status,
                                        close |-> close])]]
  /\ UNCHANGED <<settings, members, holder, stack, peerClosed, bounds>>

\* The server closes: idle for too long, stopped, or crashed.
ServerCloses(s) ==
  /\ conn[s].state # "closed" /\ conn[s].peer
  /\ conn' = [conn EXCEPT ![s] = [conn[s] EXCEPT !.peer = FALSE, !.request = 0]]
  /\ UNCHANGED <<settings, members, holder, stack, peerClosed, bounds>>

ClientStep ==
  \/ BeginReuse \/ BeginConnect \/ BeginRefused
  \/ Write \/ WriteFails \/ Read \/ ReadFails \/ ReadPeerClosed
  \/ Answered \/ NoRedirect \/ RedirectFails \/ RedirectSame
  \/ RedirectElsewhere \/ Authorize \/ NoAuthorize \/ Leave

Next ==
  \/ \E t \in Threads : Call(t)
  \/ ClientStep
  \/ Stop
  \/ \E s \in Sockets : ServerAnswers(s) \/ ServerCloses(s)

Spec == Init /\ [][Next]_vars

\* The thread in send goes on: its waits for the socket have time limits.
FairSpec == Spec /\ WF_vars(ClientStep)

-----------------------------------------------------------------------------
Conn == [state: {"closed", "open", "shut"}, peer: BOOLEAN, request: Nat,
         answers: Seq([n: Nat, status: Statuses, close: BOOLEAN])]

\* Every variable has its type, the bookkeeping matches the calls, and redirects
\* and authentications nest no deeper than their limits together.
TypeOK ==
  /\ settings \in Settings
  /\ sock \in Sockets \cup {0} /\ ssl \in BOOLEAN
  /\ inFlight \in 0..Len(stack) /\ owner \in Threads \cup {None}
  /\ shouldClose \in BOOLEAN /\ peerClosed \in BOOLEAN /\ stopped \in BOOLEAN
  /\ holder \in Threads \cup {None}
  /\ holder = None <=> stack = <<>>
  /\ owner # None => owner = holder
  /\ Len(stack) <= 1 + RedirectMax + AuthorizationMax
  /\ conn \in [Sockets -> Conn]
  /\ calls \in 0..MaxCalls /\ stops \in 0..MaxStops

\* A request reads and writes the socket it was started on, which nobody has
\* closed under it: the descriptor could be somebody else's by then (comment
\* in close_socket).  With SSL its session is there (assert in process_socket).
NoUseOfClosedSocket ==
  \A pc \in {"write", "read"} :
    At(pc) => /\ Top.strm = sock /\ sock # 0
              /\ conn[sock].state # "closed"
              /\ settings.ssl => ssl

\* The answer a request gets is the one to this request, never a late one to
\* a request that was given up before on the same connection.
AnswerIsForRequest ==
  \A i \in DOMAIN stack : stack[i].got \in {0, stack[i].n}

\* The only descriptor and SSL session the client holds are those it knows,
\* so that a stop or the destructor releases everything.
NothingLeaks ==
  /\ \A s \in Sockets : conn[s].state # "closed" => s = sock
  /\ ssl => sock # 0

\* The assertion in send: an SSL peer that closed means that send_ failed.
PeerClosedMeansFailed == At("leave") /\ peerClosed => ~Top.ret

\* Every call of send ends, whatever the server does.
CallReturns == holder # None ~> holder = None

\* "we set a flag for the socket to be closed when we're done" (stop): after
\* a call that stop() found in flight the socket is closed.
StopClosesSocket == holder = None /\ stopped => sock = 0
=============================================================================
