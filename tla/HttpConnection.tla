--------------------------- MODULE HttpConnection ---------------------------
(***************************************************************************)
(* The two ends of a keep-alive connection: ClientImpl::process_request    *)
(* and Server::process_request with routing, the reading of the request's  *)
(* content, the response and the keep-alive loop.  The client sends one    *)
(* request after the other; the stream in each direction holds at most     *)
(* Capacity tokens, so that either side may have to wait for the other.    *)
(*                                                                         *)
(* SocketStream reads ahead: a read of a few bytes takes all that has      *)
(* arrived into a buffer, and the buffer goes with the stream object, that *)
(* is with the request.                                                    *)
(***************************************************************************)
EXTENDS HttpBody, FiniteSets

CONSTANTS
  Requests,      \* requests the application makes
  Replies,       \* what a handler can answer
  Capacity,      \* tokens in a direction of the connection
  KeepAliveMax,  \* keep_alive_max_count_
  PayloadMax,    \* payload_max_length_
  MaxRequests    \* bound: requests of the client

ASSUME LimitsAssumption ==
  /\ Capacity \in Nat \ {0} /\ KeepAliveMax \in Nat \ {0}
  /\ PayloadMax \in Nat /\ MaxRequests \in Nat

\* The pieces a content provider writes; a write of nothing would end chunked
\* content without its last chunk (httplib.h 4546).
Pieces == Seq(Nat \ {0})

\* A body has a framing, and a DELETE has none or a length (Delete takes no provider).
ASSUME RequestsAssumption ==
  \A q \in Requests :
    /\ q \in [method : {"GET", "HEAD", "POST", "DELETE"},
              framing : {"none", "length", "chunked"}, chunks : Pieces,
              expect : BOOLEAN, close : BOOLEAN, long : BOOLEAN]
    /\ q.framing = "none" => q.chunks = <<>>
    /\ q.method = "DELETE" => q.framing # "chunked"

\* Statuses with which the client expects no content.
Contentless == {204, 304}

\* A handler gives a final status, and no content where none is read.
ASSUME RepliesAssumption ==
  \A p \in Replies :
    /\ p \in [status : Nat \ {100}, chunks : Pieces, fields : Nat,
              framing : {"none", "string", "length", "chunked", "close"}]
    /\ p.framing = "none" => p.chunks = <<>>
    /\ p.status \in Contentless => p.framing = "none"

VARIABLES
  cl,       \* the client's end and its process_request
  srv,      \* the server's end and its process_request
  c2s, s2c, \* the stream in each direction
  stopping, \* the server's svr_sock_ is INVALID_SOCKET
  cause     \* history: something went wrong that excuses an error

vars == <<cl, srv, c2s, s2c, stopping, cause>>

NoReader == [got |-> <<>>, left |-> 0, mode |-> "done"]
NoRequest == [method |-> "GET", framing |-> "none", chunks |-> <<>>,
              expect |-> FALSE, close |-> FALSE, long |-> FALSE]

\* The server's side of a new connection, in the keep-alive loop.
NewServer ==
  [pc |-> "idle", count |-> KeepAliveMax, id |-> 0, q |-> NoRequest,
   gone |-> FALSE, rd |-> NoReader, buf |-> <<>>,
   out |-> <<>>, ok |-> TRUE, skewed |-> FALSE]

ClosedServer(skewed) == [NewServer EXCEPT !.pc = "closed", !.skewed = skewed]

Init ==
  /\ cl = [pc |-> "idle", id |-> 0, q |-> NoRequest, out |-> <<>>,
           buf |-> <<>>, rd |-> NoReader, line |-> <<>>, head |-> <<>>, ok |-> TRUE]
  /\ srv = NewServer
  /\ c2s = <<>> /\ s2c = <<>>
  /\ stopping = FALSE /\ cause = FALSE

-----------------------------------------------------------------------------
(* SocketStream: read takes from the buffer, else receives all there is.   *)
Readable(buf, pipe) == buf # <<>> \/ pipe # <<>>
Next1(buf, pipe) == Head(IF buf # <<>> THEN buf ELSE pipe)
BufferAfter(buf, pipe) == Tail(IF buf # <<>> THEN buf ELSE pipe)
PipeAfter(buf, pipe) == IF buf # <<>> THEN pipe ELSE <<>>

SClosed == srv.pc = "closed"

-----------------------------------------------------------------------------
(* The client.                                                             *)

\* write_request: the headers that frame the body.
RequestHead(q) ==
  Headers(CASE q.framing = "length" -> Total(q.chunks)
            [] q.framing = "none" /\ q.method = "POST" -> 0
            [] OTHER -> NoLength,
          q.framing = "chunked", q.close)

\* Request line, headers and body as they are written.
RequestTokens(id, q) ==
  <<<<"request", id, q>>, <<"headers", id, RequestHead(q)>>>>
    \o CASE q.framing = "none" -> <<>>
         [] q.framing = "length" -> Content(id, q.chunks)
         [] q.framing = "chunked" -> ChunkedContent(id, q.chunks, 0)

\* send_ takes the socket it has unless it is dead, and connects otherwise;
\* the stream object and its buffer are new.
CSend ==
  /\ cl.pc = "idle" /\ cl.id < MaxRequests
  /\ \E q \in Requests :
       cl' = [cl EXCEPT !.pc = "write", !.id = @ + 1, !.q = q, !.buf = <<>>,
                        !.rd = NoReader, !.line = <<>>, !.head = <<>>, !.ok = FALSE,
                        !.out = RequestTokens(cl.id + 1, q)]
  /\ IF SClosed /\ s2c = <<>>
       THEN /\ ~stopping
            /\ srv' = NewServer /\ c2s' = <<>>
            /\ cause' = FALSE
       ELSE UNCHANGED <<srv, c2s, cause>>
  /\ UNCHANGED <<s2c, stopping>>

\* write_data: as much as the stream takes.  is_writable also wants the peer
\* alive, and takes unread data as a sign of life.
CWrite ==
  /\ cl.pc = "write" /\ cl.out # <<>>
  /\ IF SClosed THEN s2c # <<>> ELSE Len(c2s) < Capacity
  /\ c2s' = IF SClosed THEN c2s ELSE Append(c2s, Head(cl.out))
  /\ cl' = [cl EXCEPT !.out = Tail(@)]
  /\ UNCHANGED <<srv, s2c, stopping, cause>>

CWritten ==
  /\ cl.pc = "write" /\ cl.out = <<>>
  /\ cl' = [cl EXCEPT !.pc = "line"]
  /\ UNCHANGED <<srv, c2s, s2c, stopping, cause>>

\* The request is over; send_ closes the socket when it failed and
\* handle_request when the response or the request says close.
CEnd(ok) ==
  /\ cl' = [cl EXCEPT !.pc = "done", !.ok = ok]
  /\ IF ~ok \/ cl.q.close \/ (cl.head # <<>> /\ cl.head.close)
       THEN /\ srv' = ClosedServer(srv.skewed)
            /\ c2s' = <<>> /\ s2c' = <<>>
       ELSE UNCHANGED <<srv, c2s, s2c>>

\* The server has closed, or the time to write is over.
CWriteFails ==
  /\ cl.pc = "write"
  /\ SClosed \/ Len(c2s) = Capacity
  /\ CEnd(FALSE)
  /\ cause' = TRUE
  /\ UNCHANGED stopping

\* The content provider of the request returns false.
CProviderFails ==
  /\ cl.pc = "write" /\ cl.out # <<>>
  /\ Head(cl.out)[1] \in {"data", "size"}
  /\ CEnd(FALSE)
  /\ cause' = TRUE
  /\ UNCHANGED stopping

CTaken == Next1(cl.buf, s2c)
CTake(c) ==
  /\ cl' = [c EXCEPT !.buf = BufferAfter(cl.buf, s2c)]
  /\ s2c' = PipeAfter(cl.buf, s2c)
  /\ UNCHANGED <<srv, c2s, stopping, cause>>

\* read_response_line: 100 Continue and the empty line after it are skipped.
CLine ==
  /\ cl.pc = "line" /\ Readable(cl.buf, s2c)
  /\ CTaken[1] = "status"
  /\ CTake([cl EXCEPT !.line = CTaken,
              !.pc = IF CTaken[3].status = 100 THEN "crlf" ELSE "headers"])

CSkipEmptyLine ==
  /\ cl.pc = "crlf" /\ Readable(cl.buf, s2c)
  /\ CTake([cl EXCEPT !.pc = "line"])

\* read_headers, and the reader that read_content chooses from them.
CHeaders ==
  /\ cl.pc = "headers" /\ Readable(cl.buf, s2c)
  /\ CTaken[1] \in {"headers", "crlf"}
  /\ LET h == IF CTaken[1] = "headers" THEN CTaken[3]
              ELSE Headers(NoLength, FALSE, FALSE)
     IN  CTake([cl EXCEPT !.head = h, !.pc = "body",
                  !.rd = IF cl.q.method = "HEAD" \/ cl.line[3].status \in Contentless
                         THEN NoReader ELSE NewReader(h, h.length)])

CBody ==
  /\ cl.pc = "body" /\ ~Ended(cl.rd) /\ Readable(cl.buf, s2c)
  /\ CTake([cl EXCEPT !.rd = Feed(cl.rd, CTaken)])

\* Mutant: the result of read_content is not looked at.
CBodyEndedAnyhow ==
  /\ cl.pc = "body" /\ Ended(cl.rd)
  /\ CEnd(TRUE)
  /\ UNCHANGED <<stopping, cause>>

CBodyEnded ==
  /\ cl.pc = "body" /\ Ended(cl.rd)
  /\ CEnd(cl.rd.mode = "done")
  /\ UNCHANGED <<stopping, cause>>

\* A line that is no status line, or no headers where they are expected.
CGarbled ==
  /\ Readable(cl.buf, s2c)
  /\ \/ cl.pc = "line" /\ CTaken[1] # "status"
     \/ cl.pc = "headers" /\ CTaken[1] \notin {"headers", "crlf"}
  /\ CEnd(FALSE)
  /\ UNCHANGED <<stopping, cause>>

\* Mutant: no time limit for the body.
CNothingButBody ==
  /\ ~Readable(cl.buf, s2c)
  /\ cl.pc \in {"line", "crlf", "headers"}
  /\ CEnd(FALSE)
  /\ cause' = TRUE
  /\ UNCHANGED stopping

\* The stream ended, or nothing came in time.
CNothing ==
  /\ ~Readable(cl.buf, s2c)
  /\ \/ /\ cl.pc \in {"line", "crlf", "headers"}
        /\ CEnd(FALSE)
     \/ /\ cl.pc = "body" /\ ~Ended(cl.rd)
        /\ cl' = [cl EXCEPT !.rd = FeedEnd(@)]
        /\ UNCHANGED <<srv, c2s, s2c>>
  /\ cause' = TRUE
  /\ UNCHANGED stopping

\* response_handler, content_receiver or progress returns false.
CCancels ==
  /\ cl.pc = "body" /\ ~Ended(cl.rd)
  /\ CEnd(FALSE)
  /\ cause' = TRUE
  /\ UNCHANGED stopping

\* The caller has its result.
CResult ==
  /\ cl.pc = "done"
  /\ cl' = [cl EXCEPT !.pc = "idle"]
  /\ UNCHANGED <<srv, c2s, s2c, stopping, cause>>

-----------------------------------------------------------------------------
(* The server.                                                             *)

STaken == Next1(srv.buf, c2s)
STake(s) ==
  /\ srv' = [s EXCEPT !.buf = BufferAfter(srv.buf, c2s)]
  /\ c2s' = PipeAfter(srv.buf, c2s)
  /\ UNCHANGED <<cl, s2c, stopping, cause>>

\* What a response is made of.  Without apply_ranges no header tells where a
\* string or a provided content ends, and none is needed when there is neither.
ResponseHead(p, applied, close) ==
  Headers(IF p.framing \in {"none", "string", "length"} /\ (applied \/ Total(p.chunks) = 0)
            THEN Total(p.chunks) ELSE NoLength,
          p.framing = "chunked" /\ applied, close)

ResponseTokens(id, method, p, applied, close) ==
  <<<<"status", id, p>>, <<"headers", id, ResponseHead(p, applied, close)>>>>
    \o IF method = "HEAD" \/ p.framing = "none" THEN <<>>
       ELSE IF p.framing = "chunked" THEN ChunkedContent(id, p.chunks, p.fields)
       ELSE Content(id, p.chunks)

Plain(status) == [status |-> status, framing |-> "none", chunks |-> <<>>, fields |-> 0]

\* write_response_core: close is announced with the last request of the
\* connection and when the client asked for it.
Respond(s, p, applied, last) ==
  [s EXCEPT !.pc = "send", !.ok = TRUE,
            !.out = @ \o ResponseTokens(s.id, s.q.method, p, applied,
                                        last \/ s.q.close)]

LastOne == srv.count = 1   \* close_connection

\* The request line: too long, not understood, or accepted.
SLine ==
  /\ srv.pc = "idle" /\ c2s # <<>>
  /\ LET s == [srv EXCEPT !.id = STaken[2], !.rd = NoReader,
                          !.gone = FALSE]
     IN  IF STaken[1] # "request"
           THEN STake(Respond([s EXCEPT !.q = NoRequest], Plain(400), FALSE, LastOne))
           ELSE STake([s EXCEPT !.pc = "headers", !.q = STaken[3]])

\* read_headers; 414 after them when the line was too long.
SHeaders ==
  /\ srv.pc = "headers" /\ Readable(srv.buf, c2s)
  /\ LET h == STaken[3]
         s == [srv EXCEPT !.rd = NewReader(h, PayloadMax), !.gone = h.close]
     IN  IF STaken[1] # "headers"
           THEN STake(Respond(srv, Plain(400), FALSE, LastOne))
           ELSE IF srv.q.long
             THEN STake(Respond([s EXCEPT !.gone = FALSE, !.q.close = FALSE],
                                Plain(414), FALSE, LastOne))
             ELSE STake([s EXCEPT !.pc = IF srv.q.expect THEN "expect" ELSE "route"])

\* Expect: 100-continue.  The handler continues, refuses (417: the response
\* proper follows all the same), or has its own answer, with which the
\* connection ends.
SExpect ==
  /\ srv.pc = "expect"
  /\ \/ \E status \in {100, 417} :
          srv' = [srv EXCEPT !.pc = "route", !.skewed = @ \/ status = 417,
                    !.out = <<<<"status", srv.id, Plain(status)>>,
                              <<"crlf", srv.id, 0>>>>]
     \/ srv' = Respond([srv EXCEPT !.gone = TRUE], Plain(401), FALSE, TRUE)
  /\ UNCHANGED <<cl, c2s, s2c, stopping, cause>>

HasContent(q) == q.method \in {"POST", "DELETE"}   \* expect_content

\* Mutant: the rule for DELETE applies to every method.
SRouteNoLength ==
  /\ srv.pc = "route" /\ srv.out = <<>>
  /\ srv' = IF ~HasContent(srv.q) THEN [srv EXCEPT !.pc = "dispatch"]
            ELSE IF srv.q.framing # "length"
              THEN [srv EXCEPT !.pc = "dispatch", !.rd = NoReader]
              ELSE [srv EXCEPT !.pc = "read"]
  /\ UNCHANGED <<cl, c2s, s2c, stopping, cause>>

\* routing: the content is read for a content reader or into the body; a
\* DELETE without a length has none.
SRoute ==
  /\ srv.pc = "route" /\ srv.out = <<>>
  /\ srv' = IF ~HasContent(srv.q) THEN [srv EXCEPT !.pc = "dispatch"]
            ELSE IF srv.q.method = "DELETE" /\ srv.q.framing # "length"
              THEN [srv EXCEPT !.pc = "dispatch", !.rd = NoReader]
              ELSE [srv EXCEPT !.pc = "read"]
  /\ UNCHANGED <<cl, c2s, s2c, stopping, cause>>

\* A pre-routing handler, the file handler and a content reader that does not
\* read answer at once.
SRouteAtOnce ==
  /\ srv.pc = "route" /\ srv.out = <<>>
  /\ \E p \in Replies : srv' = Respond(srv, p, TRUE, LastOne)
  /\ UNCHANGED <<cl, c2s, s2c, stopping, cause>>

\* A handler throws, possibly after it has set the content of the response.
SThrows ==
  /\ srv.pc \in {"route", "read", "dispatch"} /\ srv.out = <<>>
  /\ \E p \in Replies :
       srv' = Respond(srv, [p EXCEPT !.status = 500], FALSE, LastOne)
  /\ UNCHANGED <<cl, c2s, s2c, stopping, cause>>

SRead ==
  /\ srv.pc = "read" /\ ~Ended(srv.rd) /\ Readable(srv.buf, c2s)
  /\ STake([srv EXCEPT !.rd = Feed(srv.rd, STaken)])

\* A receiver refuses what it is given.
SReadRefused ==
  /\ srv.pc = "read" /\ Delivers(srv.rd) /\ srv.rd.got # <<>>
  /\ srv' = [srv EXCEPT !.rd.mode = "bad"]
  /\ UNCHANGED <<cl, c2s, s2c, stopping, cause>>

SReadEnded ==
  /\ srv.pc = "read" /\ Ended(srv.rd)
  /\ CASE srv.rd.mode = "done" -> srv' = [srv EXCEPT !.pc = "dispatch"]
       [] srv.rd.mode = "bad" -> srv' = Respond(srv, Plain(400), FALSE, LastOne)
       [] srv.rd.mode = "large" -> srv' = Respond(srv, Plain(413), FALSE, LastOne)
  /\ UNCHANGED <<cl, c2s, s2c, stopping, cause>>

\* The stream ended, or nothing came in time.
SNothing ==
  /\ ~Readable(srv.buf, c2s)
  /\ \/ /\ srv.pc = "headers"
        /\ srv' = Respond(srv, Plain(400), FALSE, LastOne)
     \/ /\ srv.pc = "read" /\ ~Ended(srv.rd)
        /\ srv' = [srv EXCEPT !.rd = FeedEnd(@)]
  /\ cause' = TRUE
  /\ UNCHANGED <<cl, c2s, s2c, stopping>>

\* dispatch_request: the first handler that matches, or none.
SDispatch ==
  /\ srv.pc = "dispatch"
  /\ \/ \E p \in Replies : srv' = Respond(srv, p, TRUE, LastOne)
     \/ srv' = Respond(srv, Plain(404), FALSE, LastOne)
  /\ UNCHANGED <<cl, c2s, s2c, stopping, cause>>

\* The tokens of the response go out while the stream takes them.
SSend ==
  /\ srv.out # <<>> /\ ~SClosed
  /\ Len(s2c) < Capacity
  /\ s2c' = Append(s2c, Head(srv.out))
  /\ srv' = [srv EXCEPT !.out = Tail(@)]
  /\ UNCHANGED <<cl, c2s, stopping, cause>>

\* The content provider fails or the time to write is over.  That the line
\* and the headers could not be written goes unnoticed without a body.
SSendFails ==
  /\ srv.pc = "send" /\ srv.out # <<>>
  /\ Head(srv.out)[1] \in {"data", "size"} \/ Len(s2c) = Capacity
  /\ srv' = [srv EXCEPT !.out = <<>>,
               !.ok = \A t \in ToSet(srv.out) : t[1] \in {"status", "headers"}]
  /\ cause' = TRUE
  /\ UNCHANGED <<cl, c2s, s2c, stopping>>

\* is_shutting_down ends provided content early, and counts as success.
SSendCut ==
  /\ srv.pc = "send" /\ stopping
  /\ srv.out # <<>> /\ Head(srv.out)[1] \in {"data", "size"}
  /\ srv' = [srv EXCEPT !.out = <<>>]
  /\ cause' = TRUE
  /\ UNCHANGED <<cl, c2s, s2c, stopping>>

\* The server's end is closed; what it has not read may take what it sent
\* along (the system resets the connection).
SClose(skewed) ==
  /\ srv' = ClosedServer(skewed)
  /\ s2c' \in IF c2s = <<>> THEN {s2c} ELSE {s2c, <<>>}

\* process_server_socket_core: the buffer goes; what was not read of this
\* request will be taken for the next one.
SFinish ==
  /\ srv.pc = "send" /\ srv.out = <<>>
  /\ LET unread == \E t \in ToSet(cl.out \o c2s) : t[2] = srv.id
         s == [srv EXCEPT !.buf = <<>>, !.count = @ - 1, !.skewed = @ \/ unread]
     IN  IF ~srv.ok \/ srv.gone \/ srv.count = 1
           THEN SClose(s.skewed) /\ UNCHANGED c2s
           ELSE srv' = [s EXCEPT !.pc = "idle"] /\ UNCHANGED <<s2c, c2s>>
  /\ UNCHANGED <<cl, stopping, cause>>

\* keep_alive: no further request in time, or the server stops.
SIdleCloses ==
  /\ srv.pc = "idle" /\ c2s = <<>>
  /\ SClose(srv.skewed)
  /\ cause' = (cl.pc # "idle" \/ cause)
  /\ UNCHANGED <<cl, c2s, stopping>>

Stop ==
  /\ ~stopping
  /\ stopping' = TRUE
  /\ UNCHANGED <<cl, srv, c2s, s2c, cause>>

ClientGoesOn ==
  \/ CWrite \/ CWritten \/ CWriteFails \/ CLine \/ CSkipEmptyLine \/ CHeaders
  \/ CBody \/ CBodyEnded \/ CGarbled \/ CNothing \/ CResult

ServerGoesOn ==
  \/ SLine \/ SHeaders \/ SExpect \/ SRoute \/ SRead \/ SReadEnded \/ SNothing
  \/ SDispatch \/ SSend \/ SFinish \/ SIdleCloses

Next ==
  \/ CSend \/ ClientGoesOn \/ CProviderFails \/ CCancels
  \/ ServerGoesOn \/ SRouteAtOnce \/ SThrows \/ SReadRefused
  \/ SSendFails \/ SSendCut \/ Stop

Spec == Init /\ [][Next]_vars

\* Both threads run, and their waits for the stream have time limits.  What
\* the application may do (refuse, throw, cancel, stop) it need not do.
FairSpec == Spec /\ WF_vars(ClientGoesOn) /\ WF_vars(ServerGoesOn)

-----------------------------------------------------------------------------
\* The states of both ends and the capacity of the streams.
TypeOK ==
  /\ cl.pc \in {"idle", "write", "line", "crlf", "headers", "body", "done"}
  /\ cl.id \in 0..MaxRequests /\ cl.q \in Requests \cup {NoRequest}
  /\ srv.pc \in {"idle", "headers", "expect", "route", "read", "dispatch",
                "send", "closed"}
  /\ srv.pc # "closed" => srv.count \in 1..KeepAliveMax
  /\ srv.pc \in {"idle", "closed"} => srv.out = <<>>
  /\ Len(c2s) <= Capacity /\ Len(s2c) <= Capacity
  /\ {stopping, cause, srv.skewed, srv.gone, srv.ok, cl.ok} \subseteq BOOLEAN

\* A result the client accepts is the answer to its request and, where the
\* headers say how long it is, the whole of what the handler gave: never the
\* answer to an earlier request, and never a truncated body.  It holds as long
\* as the server has read the content of each request it answered.
AnswerIsForRequest ==
  cl.pc = "done" /\ cl.ok /\ ~srv.skewed =>
    /\ cl.line[2] = cl.id
    /\ (cl.head.length # NoLength \/ cl.head.chunked) /\ cl.q.method # "HEAD" =>
         cl.rd.got = Content(cl.id, cl.line[3].chunks)

\* The handler sees the request the client is making, with all its content.
HandlerSeesRequest ==
  srv.pc = "dispatch" /\ ~srv.skewed =>
    /\ srv.id = cl.id /\ srv.q = cl.q
    /\ HasContent(srv.q) => srv.rd.got = Content(srv.id, srv.q.chunks)

\* A request fails only for a reason: time, a refusal, a failing provider, a
\* closed connection.  The two ends never misread one another.
NoSpuriousError == cl.pc = "done" /\ ~cl.ok => cause \/ srv.skewed

\* When a result is accepted nothing of it is left in the buffer, which is
\* dropped, or in the stream, where the next request would read it.
NothingLeftBehind ==
  cl.pc = "done" /\ cl.ok /\ ~cause /\ ~srv.skewed =>
    cl.buf = <<>> /\ s2c = <<>>

\* Every request ends with a result, with both ends waiting for one another
\* only as long as their limits say.
RequestEnds == cl.pc = "write" ~> cl.pc = "done"
=============================================================================
