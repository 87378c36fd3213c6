# TLA+ models of the NAP REST module

This directory holds the formal models of the REST module of the NAP framework (`src/src`)
and of cpp-httplib 0.18.3, the HTTP library that the repository carries and the module is built on:
its server, task queue and client, the framing of messages on a connection, and the text formats
on which the two ends of a connection must agree. The models are checked with TLC on small instances; the theorems are
proved with TLAPS for every value of the constants.

    tlc -config MCRestClient.cfg MCRestClient      # one of the runs below
    tlapm RestClientProofs.tla                     # one of the proof modules

## 1. The system

| Part | Code | State | Operations |
|---|---|---|---|
| RestClient (device) | `restclient.cpp` 53-209 | `mRunning`, `mThread`, `mRequestQueue`, `mCallbackQueue`, `mRequestEvent`, `mRequestParamsCache`, the httplib client | `start`, `stop`, `get`, `getBlocking`, `update`, `run` |
| RestService | `restservice.cpp` | `mClients` | `update`, `registerRestClient`, `removeRestClient` |
| RestServer (device) | `restserver.cpp` | `mRunning`, `mThread`, the httplib server | `init`, `start`, `stop`, `onDestroy`, `run` |
| Request handling | `restserver.cpp` 127-196, `restutils.cpp`, `restfunction.cpp/.h` | none across requests | handler lambda, error handler, `RestFunction::call`, `extractValue` |
| httplib::Server | `httplib.h` 6310-6345, 6704-6826, 6905, 7219 | `svr_sock_`, `is_running_`, `is_decommisioned`, handlers, task queue | `listen`, `stop`, dispatch, keep-alive loop |
| httplib::ThreadPool | `httplib.h` 752-832 | `jobs_`, `shutdown_`, mutex, condition variable, threads | `enqueue`, `shutdown`, worker loop |
| httplib::ClientImpl | `httplib.h` 7341-7690, 8681-8710 | `socket_`, `socket_requests_in_flight_`, `socket_should_be_closed_when_request_is_done_`, request mutex | `send`, `send_`, `handle_request`, `redirect`, `stop` |
| HTTP connection | `httplib.h` 3270-3330, 4195-4640, 6414-6640, 6829-6925, 7021-7220, 7696-7830, 7939-8060 | the streams and their read-ahead buffers, the state of each `process_request` | `write_request`, `write_response`, `read_content`, routing, keep-alive loop |
| HTTP texts and files | `httplib.h` 2500-2870, 4110-4160, 4670-5260, 6153-6176, 6642-6690, 6919-7020 | the form parser's buffer and state | encoding and decoding, queries, headers, routes, ranges, multipart forms, mount points |
| Parameter conversion | `restclient.cpp` 215-353, `restserver.cpp` 182-196 | none | `copyParams`, `toHTTPParam(s)`, `toHTTPParamArray`, `createValue` |
| Demo | `demo/restdemo` | | one `get` per click |

**Threads and interactions.** The main thread runs the frame loop: `RestService::update` calls
`RestClient::update` of each registered client, which runs the callbacks that wait in
`mCallbackQueue`. User code on the main thread (also inside callbacks) calls `get` or
`getBlocking`; the framework calls `start` and `stop` of the devices there. Each started client
has a worker thread that sleeps on an auto-reset event, drains `mRequestQueue` and performs one
exchange after the other. Each started server has a listener thread that accepts connections
and enqueues a job for each into the task queue, whose workers read the requests and call the
RestFunctions.

**What is hard.** Wake-ups of sleeping threads (client event, pool condition variable); `stop`
racing the start-up, the failure or the work of the thread it joins; the parameter map that two
threads use without a lock; restarts that find what an earlier run left (queued requests,
completions in the queue of an ended producer, handlers, flags); a keep-alive connection that is
busy while the server stops; failing binds and accepts; a socket that one thread uses and another
shuts down, with late answers in it and descriptors that the system hands out again; a message cut
off anywhere, or a body that nobody has read, between two requests of a connection; a boundary that
arrives in pieces; texts that one end encodes and the other decodes. The file `PROJECT.json` lists each hazard
at its line with the properties aimed at it.

**What makes each part correct.**
- Client: every call gets exactly one callback, in order, on the main thread and only while the
  client is started; its entry in the parameter map lives exactly as long; `stop` returns.
- Pool: accepted jobs start in order, once, without a worker sleeping beside them; a shutdown
  finishes them all and returns.
- Server: `stop` returns and leaves no handler, connection or socket behind; what was accepted is
  served; a stopped server can start again; a request reaches a function that exists.
- HTTP client: nobody closes a socket under a request, no descriptor is lost, an answer that comes too
  late is never the answer to the next request, every call returns.
- HTTP connection: both ends agree where each message ends; a truncated body is no success.
- HTTP texts: what one end writes the other reads back; what is served lies below its mount point;
  the length that is announced is the length that is written.
- Request handling: required values are enforced and values reach the function as they were sent.

## 2. Modules

| Module | What it is |
|---|---|
| `RestClient` | the client device: main thread and worker thread |
| `AsyncCalls` | what `get` promises: an abstract service that answers each call once, while it is open |
| `RestClientProofs` | theorems about `RestClient`: types, exclusion, wake-ups, its calls, and that it implements `AsyncCalls` |
| `SequenceLemmas` | lemmas that the proofs share: queues, streams, pieces of sequences, induction, loops, recursive functions and folds |
| `JobPool` | what a task queue promises |
| `ThreadPool` | `httplib::ThreadPool`, which implements `JobPool` |
| `RestServer` | the server device, the listener and the connections; its task queue is `JobPool` |
| `ApiValues` | values as text and back: pure operators of client and server |
| `RestHandler` | how the server answers a request; its requests come from `RestCall` |
| `RestCall` | a call's data from `get` over the server to the callback; EXTENDS `RestHandler` |
| `RestCallProofs` | theorems about `RestCall` |
| `RestServerProofs` | theorems about `RestServer`, about `ThreadPool` and that this implements `JobPool` |
| `HttpClient` | `httplib::ClientImpl` and `SSLClient`: threads that share a client and its socket |
| `HttpClientProofs` | theorems about `HttpClient` |
| `HttpBody` | how a message is framed on a stream, and the reader that finds its end |
| `HttpConnection` | the two ends of a keep-alive connection; EXTENDS `HttpBody` |
| `HttpConnectionProofs` | theorems about `HttpBody` and `HttpConnection` |
| `HttpText` | percent encoding, queries, request line, header fields, base 64, paths, routes |
| `HttpFiles` | files served from mount points; EXTENDS `HttpText` |
| `HttpRanges` | range requests and the length of the answer; EXTENDS `HttpText` |
| `HttpMultipart` | a multipart form cut into pieces, and the parser |
| `HttpFormats` | the texts and the form, put to the operators of the four modules before |
| `HttpTextProofs` | theorems about what `HttpText` encodes, parses and matches: parameters, texts, routes |
| `HttpFormatsProofs` | theorems about forms, files and ranges; EXTENDS `HttpTextProofs` |
| `MCRestClient`, `MCThreadPool`, `MCRestServer`, `MCRestCall`, `MCHttpClient`, `MCHttpConnection`, `MCHttpFormats` | instances for TLC |

`ThreadPool` implements `JobPool`, which `RestServer` instantiates; `RestClient` implements `AsyncCalls`.
No module uses a RECURSIVE operator: recursion is a fold or a recursive function.

Operators whose comment begins with "Mutant" are variants of the definition after them with a
plausible bug. No specification uses them; they exist to show that each property notices a bug of
the kind it is there for (`PROJECT.json`, "mutants").

### RestClient

The variables keep the names of the members where there is one. `worker` and `main` are the
program counters of the two threads, `cur` is the request that the worker has dequeued, `cb` the
callback that `update` runs, `getPc`/`getReq` the progress of a `get` call. One action is one
access to something shared: `get` is `GetEmplace`, `GetEmplaced`, `GetEnqueue`, `GetSignal`;
`run` is `WorkerLoop` (test of `mRunning`), `WorkerWake` (the event), `WorkerDequeue` or
`WorkerDrained` (`try_dequeue`), `WorkerLookup`, `WorkerAcquire`, `WorkerProgress`, `WorkerSent`;
`update` is `UpdateBegin`, `UpdateDequeue`, `CallbackReturn`, `CallbackErase`, `UpdateEnd`; `stop`
is `StopCancel` (with the removal from the service, which only the main thread sees),
`StopClear`, `StopJoin`. `start` is one action because the worker does not exist before its last step.

Abstractions and assumptions:
- A request is a model value; all that is kept of its parameters is whether it has any (`Bare`),
  because `httplib::ClientImpl::Get` drops the progress function of a request without
  (`httplib.h` 8174), and whether they reach the exchange.
- The map is a set of keys. Growing or unlinking it is not atomic with respect to the worker: a
  look-up while the main thread is inside `emplace` or `erase` may miss an entry (the data race
  is a choice over those outcomes; a crash is not modelled).
- `moodycamel::ConcurrentQueue` is FIFO per producing thread; a dequeue takes the head of any
  non-empty sub-queue. Producer 0 is the main thread (progress of `getBlocking`), producer *n* the
  worker of the *n*-th start.
- `AutoResetEvent` is part of the framework, not of the repository: `set` latches a signal that
  one `wait` consumes, `cancelWait` releases a waiter. Whether the cancellation also holds for
  later waits is the constant `CancelLatches`. `stop` needs that it does: it cancels *before* it
  clears `mRunning`, so with a one-shot cancellation the worker can consume it, still see
  `mRunning`, and wait for ever. The runs use `TRUE`; the theorems hold for both.
- The framework starts a device only when it is stopped (guard of `Start`), and `stop`, `start`
  and `update` come from the one main thread. `getBlocking` is modelled between frames.

### ThreadPool and JobPool

`jobs_` and `shutdown_` are only touched under `mutex_`, so each critical section is one action;
the notifications come after the unlock and are actions of their own. `waiting` is the wait set of
the condition variable: `Wait` tests the predicate and blocks in one step (the mutex is released
atomically), `NotifyOne` removes any one waiter or none if nobody waits, `SpuriousWakeup` may
remove one at any time, and a woken worker tests the predicate again. One thread owns the pool
(the listener), so enqueue and shutdown do not overlap. A job that throws ends the process and is not
modelled. `JobPool` is the abstract view: a queue, a bounded set of running jobs, a shutdown.

### RestServer

One action per access to one of the shared atomics, in the order of the code: `stop` is
`StopBegin`, `StopTest`, `StopExchange`, `StopClose`, `StopReset`, `StopJoin`; the listener goes from
`ListenRegister` over `bind_internal` (`ListenCheck`, `ListenCreate` or `ListenCreateFails`,
`ListenFailed`) to `listen_internal` (`ListenBegin` to `ListenUnset`). A listening socket is named
by the start that created it; `open` is what the system holds open and `closes` counts the calls of
close. The fd number is not reused: `ListeningSocketsClosedOnce` counts closes instead. A
connection is accepted, queued in the task queue, and then alternates between waiting for a
request and a running handler until it is closed. `ConnClose` is always possible while it waits: the
client may close, and after the keep-alive time (5 s) the server does. `Request` is possible also
when the server socket is gone, because `keep_alive` looks for input first (`httplib.h` 3291).
`calling` is the start whose function vector the handler reads: the handler found first is the
oldest one. The functions of a server are registered at every start in the same order and matched
in that order, so one function stands for all of them. Accept errors that only loop (EMFILE,
EINTR, EAGAIN) change nothing and are left out. The actions of the task queue are those of `JobPool`
(`TaskQueue!Submit`, `Begin`, `Finish`, `Shutdown`, `Close`), which `ThreadPool` implements; every
`ListenBegin` makes a new one.

### ApiValues, RestHandler and RestCall

`RestClient` and `RestServer` have the threads and no data; these three have the data. `RestCall`
follows one call: `Get` copies the parameters, `CallerGoesOn` is the caller changing or destroying
its own, `Send` converts the copy and sends it, `Answered` or `SendFails` is the end of
`getBlocking`, `CallbackDone` erases the copy. The server (`RestHandler`) goes through
`process_request`: `RefuseLine` or `Parse`, `RefuseRoute` or `Route`, then the handler lambda with one
step per value description (`ExtractValue`, `SkipValue`, `MissValue`), `Call`, `CallThrows` or
`SkipCall`, `Serve`, and `WriteResponse` with the error handler. Between calls it also answers the
requests of others (`OtherRequest`), which need not be well-formed.

Abstractions and assumptions:
- A text is a sequence of tokens (number, word, space, separator). A number is an integer in units of
  1/`Unit`, so that the six decimals of `std::to_string` and the four of the echo's JSON are
  divisors of the unit. Range and precision of the floating-point types, exponents and locales are left
  out. The limits of `int` and `long` are constants, because reading a number that does not fit gives
  the limit.
- `T value;` without input stays uninitialised unless it is a string: `extractValue` then has any
  value of `Garbage[T]`.
- One worker: handlers run concurrently, but all they write is local to them. One call at a time, because
  the exchanges of a client exclude one another (`OneExchange`).
- `httplib::Params` is a multimap (`httplib.h` 510): `toHTTPParams` has for each name the sequence of its
  texts in the order in which they were emplaced. The order of the calls is lost between names and kept
  within one, and `parse_query_text` drops what repeats a pair (`Distinct`, 4692). Encoding is left
  out (`ParametersArrive` of `HttpFormats` has it, for names that need none).
- The status of the answer to a request that lacks a required value is left open (`Outcome`): the code leaves it at
  200, the comment beside it asks for a bad request (see section 4).
- A function of the application answers with JSON of its own or throws. Requests have no body and
  no Range header. A URL that exceeds the limit is counted in tokens (`UriMax`).

### HttpClient

`request_mutex_` is recursive and held for the whole of a call, so at any time one thread is inside
`send` (`holder`), and `stack` holds its activations of `send_`: a redirect or an authentication sends again
from within `handle_request`, and `send` calls `send_` a second time when the TLS peer had closed.
`stop` comes from any thread and takes `socket_mutex_` only; each block under that mutex is one
action: `BeginReuse`, `BeginConnect`, `BeginRefused` (the first block of `send_`), `Answered` (the one in
`handle_request` for "Connection: close"), `Leave` (the scope_exit of `send_`) and `Stop`. Between them are
`Write`, `Read` and their failures, the redirect and the authorization.

- `conn` is the system's view of each descriptor: closed, open or shut down locally, whether the
  server still has its end, the request it works on, the answers nobody has read. A closed descriptor is
  handed out again, the lowest first, so that a use after close would hit another connection.
- An exchange has a number that no unread answer carries; `AnswerIsForRequest` compares it.
- The server may answer as late as it likes and close whenever it likes (idle, stopped, crashed).
- Connecting is one step, with the TLS handshake and the request to a proxy in it.

### HttpBody and HttpConnection

A stream carries tokens: a request or status line, a block of headers, a unit of data, the size line of a
chunk, an empty line, a trailer field. Each token has the number of the message for which it was written,
which only the properties look at. `HttpBody` has what is written (`Content`, `ChunkedContent`) and the reader
(`NewReader`, `Feed`, `FeedEnd`: `read_content` with its three framings, the limit of the payload and the
trailer). `HttpConnection` has `ClientImpl::process_request` (`CSend` to `CResult`) and
`Server::process_request` (`SLine` to `SFinish`) with the keep-alive loop around it, connected by two streams of
`Capacity` tokens, so that either end may have to wait for the other to read.

- `SocketStream` reads ahead: `BufferAfter` and `PipeAfter` move all that has arrived into the buffer, which goes
  with the stream object, that is with the request.
- `cause` is set when something has happened that excuses an error: a time limit, a refusal by the
  application, a content provider that fails, a connection that was closed. It lets
  `NoSpuriousError` say that the two ends never misread one another.
- `srv.skewed` is set when the server has answered a request without reading all of its content, or has
  sent 417 and then the response proper (`httplib.h` 7084, 7116-7131). From there the rest of that
  content is taken for the next request, and the properties say nothing until the connection is closed.
- The data of a request are its framing, the lengths of the pieces of its content, and the flags that
  change control (`expect`, `close`, `long`).
- `RequestsAssumption` and `RepliesAssumption` say what the application gives: a provider writes no empty
  piece, which `write_content_chunked` takes for the end (`httplib.h` 4546) without writing the last chunk;
  the content of a `Delete` comes as a string; a handler answers with a final status, and without content
  if it is 204 or 304, for which the client reads none (7965, 8013; `Contentless`). Were there content
  all the same, it would stay on the connection and be taken for the next response.

### HttpText, HttpFiles, HttpRanges, HttpMultipart and HttpFormats

Texts are sequences of bytes, because the properties are about the conversions themselves. `HttpFormats` spells
out every text over an alphabet of the bytes that matter for its kind, up to a bound, and each
property puts it to the operators: a query is written by `append_query_params` and `encode_url` and read by
`parse_request_line`; a header field by `write_headers` and `read_headers`, which finds its lines by their
ends; ranges by `make_range_header` and
`parse_range_header`; paths go to `is_valid_path`, resolved step by step in the definition they are
compared with, and to `handle_file_request` over a tree of directories with several mount points;
routes to `MatchPath`. `HttpMultipart` is a state machine: a form is written with its boundary and
arrives in pieces of every size (`FormNext`), and the parser keeps what may be the beginning of a
boundary in its buffer. A header line of an item is a single symbol beyond the bytes, of `LineSize` bytes
where the parser counts them: it looks at the length of the first line of a piece only
(4835 is outside of the inner loop).

- `encode_url` stops at the first NUL (`UpToNul`, 2704), so neither a path nor a parameter name may have one; a NUL
  in a value is encoded before.
- A header field is written as it is, line ends included. `set_header` drops a key or value with CR LF
  (5689, 5755), so only a field put into the multimap itself can have one, and `HeadersArrive` leaves it out. A
  single CR, LF or NUL makes the reader refuse the headers, as does a line longer than `HeaderMax`.
- The constructor of a route means to refuse a parameter name that occurs twice, but looks it up in
  `param_name_set`, into which nothing is ever put (5995, 6015). The route is accepted, and `emplace` keeps
  the first value of the name (6065): `NewMatcher` and `Emplaced` do the same.
- A file that exists and cannot be opened and mapped (`Unreadable`) ends the search of the mount points
  (6665). A directory whose path has a CR or LF is answered without a Location ("blank", 5763).

## 3. Runs

| Run | Module and configuration | Shows | Result |
|---|---|---|---|
| client | MCRestClient / MCRestClient.cfg | no lost wake-up, each call in exactly one place, parameter map in step, callbacks and progress in order, no deadlock; `stop` returns; the client implements `AsyncCalls` with its liveness | holds |
| client_params_race | MCRestClient / MCRestClientRace.cfg | a request may go out without its parameters | violated |
| pool | MCThreadPool / MCThreadPool.cfg | no worker sleeps beside a job, order, complete and wakeful shutdown; the pool implements `JobPool` with its liveness | holds |
| server | MCRestServer / MCRestServer.cfg | the assertion in `Server::stop`, nothing left after `stop`, sockets closed once; `stop` of a running server returns, accepted connections are served | holds |
| server_early_stop | MCRestServer / MCRestServerEarlyStop.cfg | `stop` before the listener is up never returns | violated |
| server_restart | MCRestServer / MCRestServerRestart.cfg | after a restart handlers read a dead vector | violated |
| call_values | MCRestCall / MCRestCall.cfg | the map of values is what the descriptions say, required values are there, one outcome per request, the server sees the parameters of the time of the call, texts say the values, the echo returns them | holds |
| call_echo_spaces | MCRestCall / MCRestCallSpaces.cfg | strings with white space come back shortened | violated |
| http_client | MCHttpClient / MCHttpClient.cfg | no use of a closed socket, no lost descriptor, no late answer taken for another, nesting within the limits, the error of a closed TLS peer only with a failure, every call returns | holds |
| http_client_stop | MCHttpClient / MCHttpClientStop.cfg | a `stop` during a call is forgotten when the call sends once more | violated |
| http_connection | MCHttpConnection / MCHttpConnection.cfg | also with answers that have no content (HEAD, 204, 304): the handler sees the request, the client its answer, no error without a cause, nothing left in buffer or stream, every request ends | holds |
| http_formats | MCHttpFormats / MCHttpFormats.cfg | parameters, paths, header values, credentials and escapes arrive; paths stay below their mount point; routes match part by part; ranges and announced lengths; forms arrive however they are cut | holds |

**Bounds.**
- Client: two calls, one with parameters and one without, are enough for one in flight and one queued or
  completed. Three starts give every leftover of a run two
  later runs to meet; a backlog of two callbacks per producer (`MaxBacklog`) lets progress reports and
  completions interleave.
- Pool: three workers and four jobs with a queue of three give refused jobs, more jobs than workers and
  idle workers beside busy ones.
- Server: two connections on one worker, so that one waits behind the other, two requests each, three
  starts.
- Calls: `MCFunctions` has two echo functions and one of the application with two paths, required and
  optional values, an unsupported type and a value described twice; the requests and calls cover every
  type, its limits, arrays with one, several and no elements, absent, repeated, blank, malformed and too
  large values, unknown paths and methods, and a line over the limit. `IntMax` 3 and `LongMax` 7 with a
  `Unit` of 36 and decimals of 4 and 12 keep rounding, truncation and limits apart. The calls of
  call_values echo no string with white space: that is the finding of call_echo_spaces.
- HTTP client: two threads, two descriptors, two calls and one `stop`, one redirect and one
  authentication (20 and 5 in the code), all combinations of the settings. A second call
  meets whatever the first left: a kept socket, a dead one, a late answer, a forgotten flag.
- HTTP connection: two requests on streams of two tokens, payload limit 2 with contents of 2 and 3,
  two requests per connection: both ends block, contents are within and over the limit, the last request
  of a connection and the first of the next one happen.
- Formats: texts and queries of four bytes (three parameters with two names), paths and routes of seven.
  The alphabet of a text has every character that encoding, the request line or a header line treats differently
  (NUL, tab, line feed, carriage return, blank, `#`, `%`, `+`, `?`, a hexadecimal digit, `u`, a letter and a byte
  that is not ASCII), that of a path NUL, CR, `.`, `/` and the backslash; one `index.html` is a file and one a
  directory, two files are unreadable and one directory has a CR for a name. `HeaderMax` 8 lets a value of four
  bytes make a line too long, and header lines of items have 5, 8 and 9 bytes. A route has a name that occurs twice. Ranges of five parts of which some are
  whole ranges, so that the limits of four ranges and of two that
  overlap are passed, `LongMax` 99 so that a number of three digits is one that `std::stoll` rejects, contents of
  0, 1, 3 and 21 bytes; four hexadecimal digits on either side of each
  change of length in UTF-8; forms of at most two items with contents up to three bytes that look like the
  beginning of a boundary, in pieces of every length.

The deadlock check is on for the client, where it covers a `stop` that hangs in the join, and for the
calls. It is off for what ends: the pool after its shutdown, the server, the HTTP client and the
connection when starts, calls and connections are used up, the formats when a text has its
length. There the temporal properties cover a thread that hangs.

**Fairness.** Weak fairness for the steps of threads that run (the scheduler), for the end of an
exchange (httplib bounds connect, read and write by timeouts), for the return of callbacks and
RestFunctions (user code is assumed to return), and for giving up an idle connection (keep-alive
time). In `HttpClient` and `HttpConnection` weak fairness for the steps of the client and of the server, whose
waits are `select_read` and `select_write` with a limit, so that "nothing came" is one of the steps. Strong
fairness for `UpdateBegin`, since the frame loop comes back to `update` between whatever
else the main thread does, and for taking the request mutex, which neither thread holds
for ever and which is free again and again. No fairness for what nobody must do: making
calls, starting, stopping, connecting, sending, answering, closing, progress reports, failures, spurious
wake-ups.

## 4. Findings

1. `mRequestParamsCache` is shared without a lock (`restclient.cpp` 134, 146, 157, 171): run
   client_params_race.
2. `RestServer::stop` right after `start` hangs, because `Server::stop` ignores a server whose
   listener has not set `is_running_` yet and nobody waits for it (`wait_until_ready`): run
   server_early_stop.
3. The handler lambdas capture a reference into a vector that lives only as long as the listener
   thread, and are never unregistered: run server_restart.
4. `extractValue<std::string>` ends at the first white space, so "Hello World" arrives as "Hello":
   run call_echo_spaces.
5. `ClientImpl::stop` during a call sets a flag that `send_` clears when the same call sends once more, for a
   redirect, for digest authentication or after the TLS peer has closed: the client reconnects and keeps
   the socket: run http_client_stop.

Seen while modelling, without a run of their own:
- `start` reports success whatever becomes of the bind, and stays a no-op afterwards.
- The comment at `src/src/restserver.cpp:156` says "return a bad request" of a missing required value. The
  code writes an error message as JSON and sets no status, so the answer has status 200 and
  `getBlocking` hands it to `onSuccess`; only its body tells of the error. No run checks a status here, since
  `OneOutcome` leaves it open.
- `is_decommisioned` may be set by the failing listener after `stop` has reset it (`httplib.h` 6344); the next
  start then does not listen.
- A header value is percent-decoded by the reader but never encoded by the writer (4146); parameter
  names are not encoded (4681), and a parameter given twice with the same value arrives once (4692). A
  header value put into the multimap with a line end in it is written as two lines (4425-4437).
- The check for path parameters that occur twice never fires, because `param_name_set` stays empty (5995, 6015).
- The client does not read content that comes with a 304 (8013) and keeps the connection.
- `Get(path, params, headers, progress)` drops the progress function when there are no parameters
  (8172-8178).
- A multipart body whose first piece is shorter than the opening boundary loses it (4821-4822); a form
  without items is rejected.
- A suffix range longer than the content is answered with 416, as is every range of a response set with
  `set_file_content` (7175 comes before 7183). A content provider whose handler sets a status other than
  206 for a range request announces the whole length and writes the range (6499-6511).
- An expectation answered with 417 is followed by the response proper, and content that was not read on a
  kept connection is taken for the next request (7084, 7116-7131).
- An `index.html` that is a directory makes the server answer the path of its parent with a redirect to the same path
  with another `/` at the end, for ever (`handle_file_request`, 6642-6690).
- Mount points match by characters, not by parts of the path (`/aa` matches `/aaa`), and the redirect to a
  directory leaves the mount point out (6649-6658).

## 5. Proofs

`RestClientProofs` (assumption: `ConstantsAssumption`, i.e. the bounds are naturals, `None` is no
request):
- `TypeCorrect` and `ExchangesAreExclusive`. The types alone are not inductive, because the
  worker enqueues a callback for `cur`: the invariant is `TypeInv`, the types together with
  `OneExchange` (the worker has a request exactly while it performs one) and the fact that a
  `get` in progress has one. One step per action.
- `NeverLosesAWakeup`. `NoLostWakeup` is inductive as it stands; it has three ways to hold, and
  the steps of `get` and `run` hand over from one to the next without a gap.
- `CallsAreNeverLostOrDoubled`, from `WayInv` and `GetInv`. The places of a call (a queue of requests, the
  worker, a completion, a callback that runs, an answer) are separated by three parts: no request and no
  completion is queued twice (`Once`), the places exclude one another (`Apart`), and together they hold
  what was issued (`Covered`). Each step moves one call from one place to the next; `SentWay` and
  `AnswerWay` are the moves, and a stop or restart leaves the places alone.
- `CacheIsExact`, from `CacheInv`. The entry is made before the call is issued and erased after its
  callback, so the property is inductive once `WayInv` says that nothing is answered twice.
- `CallbacksComeInOrder`, from `ProgressInv` (a progress report is of the call the worker has, or the
  completion follows in the same queue), `ThreadInv` (completions come from a worker, a worker from a
  `start`) and `OrderInv`: during the first start a call that was issued before another is ahead of it
  everywhere, in the queue of requests, at the worker, among the completions and among the answers.
- `ClientImplementsPromise`: the initial states and every step of the client are those of `AsyncCalls` or
  stutter, which is the safety part of `KeepsPromise`.

`RestCallProofs` (assumptions: `FunctionsAssumption`, i.e. the functions are a sequence of records with
sequences of descriptions; `ValuesAssumption`, i.e. units and decimals are positive and the array separator
is one token that is no number; `CallsAssumption`, i.e. a parameter of type `int`, `string` and so on holds a
value of that type, or an array of them):
- `ValuesAreAsDescribed` and `RequiredValuesArrive`, from `LoopInv`, which says where the loop over the
  descriptions is and that it has passed no absent required value, and `FreshInv`, that it begins with an
  empty map. `ExtractedSoFar` alone is not inductive: the step that emplaces a value needs that the
  position is within the descriptions. The lemma `ExtractMore` is this step: an entry that is there
  stays, so each name keeps the value of its first description.
- `AnswersHaveOneOutcome`, from `StageInv`, which follows a request from stage to stage: what the
  response, the status, the count of calls and the exception can be at each (lemmas `StageStep` and
  `OutcomeStep`).

- `CallReachesServer`, from `SeenInv`: a queued call has the copy of the parameters of its time in the
  cache, a sent one has their texts in the request. The step that sends needs that of a copy the same is sent
  as of the parameters themselves (`CopySaysTheSame`).
- `TextsSayValues`, for sequences and arrays of any length. `ParamsHold` says what the multimap holds: the names of the
  parameters of known types, and for each name their texts in order, so that the first is that of the first; `DistinctIs`, that
  the server keeps the same texts, each once, and the first in front. `JoinStep` keeps `PartsIn`, which says where the parts
  of an array's text begin and end and that the separators lie between them and nowhere else, through one
  round of the loop of `toHTTPParamArray`; `PartsComeApart` then finds each part by counting separators.
  `TextOfValue` is the conversion of one value; a floating-point number comes back to half of the last
  decimal (`RoundIsClose`).

What a loop computes is proved for every length by induction over a *set* of numbers, since a theorem with
an operator as parameter cannot be used: `NatSetInduction` of `SequenceLemmas` follows from the library's fact
that the order of the naturals is well-founded. A recursive function and a fold are choices, and say
something only when there is such a function; `LoopRecursion` and `SubsetRecursion` construct it.

`RestServerProofs` (assumption: `ServerAssumption`, at least one worker and one request per connection). The
invariant `IInv` has four parts:
- `TypeOK`, which needs the others: a handler is called only when some are registered, and the
  requests of a connection are counted up only below the limit.
- `ThreadsInv`: there is a thread to join exactly when the server runs or is being stopped, and
  `is_running_` follows the listener. So `stop` exchanges `svr_sock_` only while the listener is up or has
  just left.
- `SocketInv`: the socket of this start passes from the listener to `svr_sock_` and from there to the `stop`
  that exchanged it; if it is open, one of them has it. This gives `StopHasASocket`.
- `ConnInv`: the queue of the task queue names exactly the connections that wait in it, each once
  (lemmas `QueueHead` and `QueueAppend`); it is empty when the listener does not use it. With the two
  before, this gives `StopLeavesNothing`.

`SocketsAreClosedOnce` adds `CloseInv`, which counts: the closes of a socket so far and those that are still to
come, by a `stop` that has not reached it and by a listener whose `accept` has failed, are at most one, or
two after a failed `accept`. Each close uses up one of them.

The part of `RestServerProofs` about the task queue (assumption: `PoolAssumption`, a finite non-empty set of
workers, and a limit that is a natural):
- `PoolTypeCorrect`, from the types and the fact that a running worker has a job.
- `JobsStartInOrder`: `accepted = started \o jobs_` is kept by enqueuing at the end and taking
  from the front.
- `ShutdownIsComplete`, from `ShutdownInv`: the flag follows the
  owner, a worker leaves only when the flag is set and the queue is empty (and, as nobody enqueues
  after the shutdown, stays so), started jobs are the finished and the running ones, and nobody sleeps
  through the notification of the shutdown.
- `WorkersAreWoken`: while somebody waits, the queue is no longer than the number of awake workers
  plus a notification under way. A job comes with its notification, a notification with an awake
  worker, and an awake worker is used up only by taking a job. The proof counts with
  the cardinality facts of the library.
- `PoolImplementsTaskQueue`: each critical section is an operation of `JobPool`, every notification and
  wake-up a stutter. That the owner joins the threads only when no job runs needs `ShutdownInv`.

`HttpClientProofs` (assumptions: `ThreadsAssumption`, `SocketsAssumption` and `BoundsAssumption`, i.e.
descriptors are positive, `None` is no thread, limits and bounds are naturals). The theorems hold for any
number of threads, descriptors, calls and stops. The invariant `IInv` has four parts:
- `StackInv`: the depth of an activation of `send_` is bounded by the redirects that those below have used up
  and the authentications they have counted (`FrameOK`), only the innermost is anywhere but in the
  middle of `redirect` or the authorization, and none has more redirects left than those below it. With the limits
  of both counts this bounds the nesting in `TypeCorrect`. The lemmas `PushOK`, `BecomeOK` and `ReturnOK` say
  what sending again, going on and returning do to the stack.
- `CountInv`: `socket_requests_in_flight_` counts the activations past their first block, so that a `stop`
  that finds none in flight closes a socket nobody reads or writes.
- `SocketInv`: a descriptor is open exactly when `socket_` names it. This is `EverythingIsReleased`.
- `TopInv`: outside of a wait for an answer, and of a failure that has yet to close the socket,
  the socket has no request under way and nothing unread (`Clean`). So the answer that `Read` takes is the
  answer to the request that `Write` sent, which is `AnswersBelong`. `AnswerIsForRequest` alone is not
  inductive: what it needs is that every failure closes the socket before the next request (`LeaveOK`).

`HttpConnectionProofs` (assumptions: `LimitsAssumption`, `RequestsAssumption` and `RepliesAssumption`). The
theorems hold for requests and replies with contents of any length in any pieces, streams of any
capacity, any limit of the payload and any number of requests on a connection.
- The first part is about `HttpBody`: `Reads(r, s, mode, c)` says that the reader `r` takes all of `s` and not
  one token more, and has then the content `c`. `ReadsContent`, `ReadsChunk` and `ReadsTrailer` are its parts,
  `ReadsRequest` and `ReadsResponse` put them together: `NewReader`, made from the headers that `RequestHead` or `ResponseHead`
  has written, reads exactly the body that follows them, whichever of the framings it has. A content is a
  fold over its pieces, so this is an induction over the pieces, and inside a piece over its units.
- `TypeCorrect`, from `Types` (each end, and tokens on the streams) and `Writing` (who has something to write).
- `RequestsArriveWhole`, from `RequestSeen`: unless the server is skewed, the tokens that are under way to it,
  in its buffer, in the stream and in the client's hands, are exactly the rest of the request that the
  client is making, counted from where the server is in it (`Sees`). The handler's view alone is not
  inductive: what it needs is that an idle server finds nothing, or a request from its first
  token on, so that it takes each request from where the one before it ended.
- `AnswersBelongToRequests`, `NoErrorWithoutCause` and `NothingStaysBehind`, from `AnswerSeen`, which says the same
  of the way back, with two complications. The rest of an answer may be lost (`Fits`, with `cause`), and in
  front of the answer there may be what is left of "100 Continue" (`Old`, `Handshake`). `View` says what the
  client sees at each of its steps: `Awaits` before the status line, `Heading` before the headers,
  `Reading` in the body, `Over` at the end. `Unanswered` says that while the server has not begun its answer
  the client still waits, and `Sound` that a server that cut an answer short has set `cause`. A server
  that will close after an answer has said so in its headers (`LastAnswer`), so that the client does not send its
  next request into a connection that goes away.
- Each step of the server is one of seven changes to what is under way (`Works`, `Answered`, `Continues`, `Sends`,
  `Drops`, `Closes`, `NextRequest`; lemma `ServerSteps`), and both parts of the invariant are shown for these.

`HttpTextProofs` and `HttpFormatsProofs` have an induction for every loop over a text. Their assumptions: `FormsAssumption` (the items
of a form have a name, a type or none and bytes, and the boundary does not occur in a content), `LineSizeAssumption`,
`FileSystemAssumption` (directories and files are apart, unreadable files are files, and what has a parent lies in a directory),
`MountedAssumption` (a list of pairs of texts), `AlphabetAssumption` (texts consist of bytes), `NamesAssumption`
(neither the path nor a parameter name has a NUL or a character that ends it, since `params_to_query_str` does not encode
names; and the names are in order, as a multimap has them), `PatternsAssumption` (a pattern begins with a slash and has no NUL), `LengthsAssumption`,
`HeaderMaxAssumption`, `FileMaxAssumption`, `RangeMaxAssumption` and `LongMaxAssumption` (naturals). There is no bound on the length of a text, the number of parameters, parts of a
route, ranges or items, or the pieces a form arrives in.
- `FormsArrive`, from `FormInv`. A form whose first piece was long enough is being read, accepted or rejected (`Reading`,
  `Accepted`, `Rejected`). `After(its)[k]` is what
  follows the boundary behind item *k*: while it reads, the parser's buffer and the
  bytes still to be sent are what is left of the current item and what follows it, at each of its five states. It
  hands out only what cannot be the beginning of a boundary; that this
  is the content and nothing else needs that a boundary is first found where it was written (`FindFirst`,
  `FirstBehindContent`), also when it arrives in two pieces. Without items no boundary is followed by a line break
  (`NoEntry`), so the opening is never found.
- `PathsStay`. The level that `is_valid_path` counts and the names that `Resolved` collects are two folds over the
  components; `LevelResolved` keeps them in step, with the level as the number of names, and at -1 exactly `Above`. `WalkBelow`
  says that a walk in the tree from a mounted directory stays below it while the level does not go
  under zero, so a served file is one of that directory (`FileServed`); `RedirectLeads` is the part about redirects.
- `QueriesArrive`. `Spelled` says that a text is a sequence of codes, each the byte itself, its escape or the `+` of a
  blank; `EncodeIs` that encoding makes such a sequence, of what is before the first NUL; as no code has a NUL in it
  (`CodesHaveNoNul`), that is all of a target without one. `DecodeSpelled` says that decoding undoes any of them. No code has a separator
  in it (`SeparatorStays`), so what was joined is cut at the same places (`SentPieces`, `SentSplit`), and equal pairs are
  equal texts, which is why `parse_query_text` drops just the repeated ones (`SentParsed`).
- `TextsAreKept`: paths by the same codes (`EncodedTwice`: an escape is not escaped again); of a header field `FieldWritten` says
  what is written and `FieldLines` that it is read as one line and an empty one; the value in it by `TrimBlank` and
  `TrimKeeps`, since without a percent sign decoding changes nothing (`FieldParsed`); an escape `%uXXXX` by arithmetic (`UnicodeDecoded`,
  `Utf8Reads`). For base 64 `LoopInv` says, after *n* bytes, how many digits are written and how many bits wait, that each digit
  is the right six bits of the text (`ByteBegins`, `ByteEnds`), and that the waiting bits are the low ones of `val`;
  `LastDigit` and `FilledUp` add the last digit and the `=` signs.
- `RangesKept`: `DecimalIs` says that a number read from its decimal digits is that number. `ListedPieces` and `ListedSplit` cut
  the list of ranges where it was joined, and `ParsedIs` puts them together. `WithoutError` is the invariant of the loop of
  `range_error`, that without an error every range so far lies in the content; from it follow `PartsLieWithinContent` and, with
  `AnnouncedIs`, that the announced length is that of the body.
- `RoutesAgree`. The matcher knows fragments and names, the property parts; `IsCut` has the places at which a
  text is cut into parts, and both sides are stated over these places. `MatcherIs` says what the constructor makes
  of a pattern: the free parts one after the other (`AreFree`), their names, and the fragments between them
  (`Matches`). `PartsSame` says that a path with the bytes of a fragment behind a slash is cut there like the
  pattern, provided it goes on behind the fragment; `RestSame` is the same for the last fragment and the end of the
  path. `RightAt` is the invariant of the loop of `match`: after a name, the path has matched so far exactly if
  its parts agree so far, the position is the slash behind the part, and each name has the value of its first part
  (`Taken`, kept by `TakenGrows`). `EndsBehind` shows that an empty part, and
  nothing else, may follow a last name.

A decoder is a recursive function that looks ahead, so it is unfolded from the end of the text (`BackwardRecursion`);
everything else here is a fold, taken apart at its last step.

Only model-checked:
- `EchoReturnsParameters`. It is false for strings with white space (finding 4), so it holds for the calls of
  the run and not for all that `CallsAssumption` allows.
- Liveness: `StopReturns`, `RunningServerStops`, `AcceptedIsServed`, `CallReturns`, `RequestEnds` and the
  fairness of the two refinements. The prover has no rules for fairness and ENABLED here.

`PoolTypeOK` of `ThreadPool` and `TypeOK` of `HttpConnection` are proved and not run; the type definitions of `RestCall`
document the variables.

## 6. Plan

1. Done: `RestClient`, `ThreadPool`, `RestServer`, `RestCall` with their abstract specifications; the `Http`
   modules; the proofs about the first four and `HttpClient`.
2. Done: the proofs about the calls of `RestClient`, about the data of `RestCall`, about `HttpConnection`, and
   both refinements.
3. Done: the proofs about the texts, files, ranges, routes and forms of `HttpFormats`.
4. `RestService` with several clients, whose callbacks stop and start clients during
   `RestService::update` (`restservice.cpp` 32), and a client and a server in one process, as in the demo.

## 7. Not modelled, and why

- Of httplib: OpenSSL, zlib and Brotli behind their thin wrappers (a TLS connection is one that may
  report that its peer has closed), system calls (address resolution, `select`, memory-mapped files), the
  overloads of `Get`, `Post` and so on, which fill in a `Request`, routes given as `std::regex`, the Accept
  header, digests of authentication, MIME types.
- The registry of `RestService` with several clients (see the plan): `restservice.cpp` 32 is a hazard
  without a property.
- `RestClient::init` and `RestServer::init` only store settings (timeouts, the size of the pool).
  `toHTTPHeaders` copies headers that are fixed after loading. Property registration (`naprest.cpp`,
  `restvalue.cpp`) and plain data types have no behaviour. The demo's rendering and GUI.
- Memory: a use of freed memory is modelled only as "reads a vector that is gone" and "uses a descriptor
  that is closed".
