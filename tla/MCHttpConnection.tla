-------------------------- MODULE MCHttpConnection --------------------------
(* A small instance of HttpConnection for TLC. *)
EXTENDS HttpConnection

Request(method, framing, chunks) ==
  [NoRequest EXCEPT !.method = method, !.framing = framing, !.chunks = chunks]

MCRequests ==
  {Request("GET", "none", <<>>),
   Request("HEAD", "none", <<>>),
   Request("POST", "length", <<2>>),
   Request("POST", "length", <<3>>),
   Request("POST", "chunked", <<1, 1>>),
   Request("DELETE", "none", <<>>),
   [Request("GET", "none", <<>>) EXCEPT !.long = TRUE],
   [Request("POST", "length", <<1>>) EXCEPT !.expect = TRUE, !.close = TRUE]}

Reply(status, framing, chunks, fields) ==
  [status |-> status, framing |-> framing, chunks |-> chunks, fields |-> fields]

MCReplies ==
  {Reply(200, "string", <<2>>, 0),
   Reply(200, "length", <<1, 1>>, 0),
   Reply(200, "chunked", <<2>>, 1),
   Reply(200, "close", <<1>>, 0),
   Reply(204, "none", <<>>, 0),
   Reply(304, "none", <<>>, 0)}
=============================================================================
