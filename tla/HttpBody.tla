------------------------------ MODULE HttpBody ------------------------------
(***************************************************************************)
(* How httplib frames messages on a stream: what is written of a message   *)
(* and how read_content finds its end.  A stream carries tokens            *)
(* <<kind, id, value>>: a request or status line, a block of headers, a    *)
(* unit of data, the size line of a chunk, an empty line, a trailer field. *)
(* `id` tells which message the token was written for.                     *)
(***************************************************************************)
EXTENDS Integers, Sequences, SequencesExt

NoLength == -1   \* there is no Content-Length header

Headers(length, chunked, close) ==
  [length |-> length, chunked |-> chunked, close |-> close]

\* A content provider writes its content in several calls of sink.write;
\* `chunks` holds the length of each.
Total(chunks) == FoldLeft(LAMBDA sum, n : sum + n, 0, chunks)
Before(chunks, k) == Total(SubSeq(chunks, 1, k - 1))

Data(id, first, n) == [i \in 1..n |-> <<"data", id, first + i>>]
Content(id, chunks) == Data(id, 0, Total(chunks))

\* Mutant: no end of line after the data of a chunk.
ChunksRunTogether(id, chunks, fields) ==
  FlattenSeq([k \in 1..Len(chunks) |->
                <<<<"size", id, chunks[k]>>>> \o Data(id, Before(chunks, k), chunks[k])])
    \o <<<<"size", id, 0>>, <<"crlf", id, 0>>>>

\* write_content_chunked: one chunk per call, then done_with_trailer.
ChunkedContent(id, chunks, fields) ==
  FlattenSeq([k \in 1..Len(chunks) |->
                <<<<"size", id, chunks[k]>>>>
                  \o Data(id, Before(chunks, k), chunks[k])
                  \o <<<<"crlf", id, 0>>>>])
    \o <<<<"size", id, 0>>>>
    \o [k \in 1..fields |-> <<"field", id, k>>]
    \o <<<<"crlf", id, 0>>>>

-----------------------------------------------------------------------------
\* The state of read_content: what comes next, how much of it, the content so
\* far.  "done" is success; "bad" and "large" are 400 and 413.
NewReader(h, max) ==
  [got |-> <<>>,
   left |-> IF h.length > 0 THEN h.length ELSE 0,
   mode |-> IF h.chunked THEN "size"
            ELSE IF h.length = NoLength THEN "close"
            ELSE IF h.length > max THEN "skip"
            ELSE IF h.length = 0 THEN "done" ELSE "length"]

Ended(r) == r.mode \in {"done", "bad", "large"}
Delivers(r) == r.mode \in {"length", "chunk", "close"}

Deliver(r, t) == [r EXCEPT !.got = Append(@, t)]
Count(r, next) ==
  [r EXCEPT !.left = @ - 1, !.mode = IF r.left = 1 THEN next ELSE @]

\* Mutant: the last chunk ends the content, whatever follows it.
FeedNoTrailer(r, t) ==
  CASE r.mode = "length" -> Count(Deliver(r, t), "done")
    [] r.mode = "close" -> Deliver(r, t)
    [] r.mode = "skip" -> Count(r, "large")
    [] r.mode = "chunk" -> Count(Deliver(r, t), "crlf")
    [] r.mode = "size" ->
         IF t[1] # "size" THEN [r EXCEPT !.mode = "bad"]
         ELSE [r EXCEPT !.mode = IF t[3] = 0 THEN "done" ELSE "chunk",
                        !.left = t[3]]
    [] r.mode = "crlf" ->
         [r EXCEPT !.mode = IF t[1] = "crlf" THEN "size" ELSE "bad"]

\* The reader after the next token of the stream.
Feed(r, t) ==
  CASE r.mode = "length" -> Count(Deliver(r, t), "done")
    [] r.mode = "close" -> Deliver(r, t)
    [] r.mode = "skip" -> Count(r, "large")
    [] r.mode = "chunk" -> Count(Deliver(r, t), "crlf")
    [] r.mode = "size" ->
         IF t[1] # "size" THEN [r EXCEPT !.mode = "bad"]
         ELSE [r EXCEPT !.mode = IF t[3] = 0 THEN "trailer" ELSE "chunk",
                        !.left = t[3]]
    [] r.mode = "crlf" ->
         [r EXCEPT !.mode = IF t[1] = "crlf" THEN "size" ELSE "bad"]
    [] r.mode \in {"trailer", "fields"} ->
         [r EXCEPT !.mode = IF t[1] = "crlf" THEN "done" ELSE "fields"]

\* The reader when the stream ends or the time for a read is over.  Content
\* without a length is complete then, and the last empty line may be missing.
FeedEnd(r) ==
  [r EXCEPT !.mode = CASE r.mode \in {"close", "trailer"} -> "done"
                       [] r.mode = "skip" -> "large"
                       [] OTHER -> "bad"]
=============================================================================
