----------------------------- MODULE RestHandler -----------------------------
(***************************************************************************)
(* How the REST server answers a request: Server::process_request of       *)
(* httplib.h, the handler that RestServer::run registers for each          *)
(* RestFunction, and the function itself.                                  *)
(*                                                                         *)
(* A worker of the server answers one request after the other, and         *)
(* handlers share nothing that they write, so one worker is modelled.  The *)
(* requests come from RestCall, which has the specification.               *)
(***************************************************************************)
EXTENDS ApiValues

CONSTANTS
  Functions,  \* RestFunctions, in order: [paths |-> the paths its address matches,
              \*   echo |-> whether it is a RestEchoFunction,
              \*   descriptions |-> sequence of [name, type, array, required]]
  UriMax      \* CPPHTTPLIB_REQUEST_URI_MAX_LENGTH, in tokens

ASSUME FunctionsAssumption ==
  /\ Functions \in Seq([paths: SUBSET STRING, echo: BOOLEAN,
                        descriptions: Seq([name: STRING, type: STRING,
                                           array: BOOLEAN, required: BOOLEAN])])
  /\ UriMax \in Nat

VARIABLES
  pc,            \* where the worker is
  req,           \* the request: [method, path, params |-> texts of each name]
  function,      \* index of the function that handles it
  desc,          \* index of the next value description
  values,        \* the map of values, name -> API value
  valid_params,
  response,      \* the handler's RestResponse
  status, body,  \* of the httplib Response; status -1: not set
  calls,         \* history: calls of the function for this request
  threw          \* history: the function threw

vars == <<pc, req, function, desc, values, valid_params, response, status, body, calls, threw>>

Methods == {"GET", "HEAD", "POST", "PUT", "DELETE", "CONNECT", "OPTIONS", "TRACE", "PATCH", "PRI"}
Json == "application/json"
Text == "text/plain"

\* RestResponse: the content type, an error message ("" if it is no error) and
\* the members of the JSON object of an echo.
RestResponse(type, message, members) ==
  [mContentType |-> type, message |-> message, members |-> members]
Nothing == RestResponse("", "", <<>>)
generateErrorResponse(message) == RestResponse(Json, message, <<>>)

\* The types of the variables.
TypeOK ==
  /\ pc \in {"idle", "parse", "route", "extract", "call", "serve", "write", "sent"}
  /\ function \in 0 .. Len(Functions)
  /\ desc \in Nat \ {0}
  /\ valid_params \in BOOLEAN
  /\ status \in {-1, 200, 400, 404, 414, 500}
  /\ calls \in 0 .. 1
  /\ threw \in BOOLEAN

Init ==
  /\ pc = "idle"
  /\ req = [method |-> "", path |-> "", params |-> NoParams]
  /\ function = 0 /\ desc = 1 /\ values = <<>> /\ valid_params = TRUE
  /\ response = Nothing /\ status = -1 /\ body = Nothing
  /\ calls = 0 /\ threw = FALSE

-----------------------------------------------------------------------------
(***************************************************************************)
(* Server::process_request up to the handler.                              *)
(***************************************************************************)

\* A request line is read; Request, Response and the handler's locals are new.
Receive(r) ==
  /\ pc = "idle"
  /\ req' = r
  /\ function' = 0 /\ desc' = 1 /\ values' = <<>> /\ valid_params' = TRUE
  /\ response' = Nothing /\ status' = -1 /\ body' = Nothing
  /\ calls' = 0 /\ threw' = FALSE
  /\ pc' = "parse"

\* The response gets a status without a handler having run.
Refuse(code) ==
  /\ status' = code
  /\ pc' = "write"
  /\ UNCHANGED <<req, function, desc, values, valid_params, response, body, calls, threw>>

Size(texts) == FoldLeft(LAMBDA n, text : n + 1 + Len(text), 0, texts)
LineLength(r) ==
  FoldFunction(LAMBDA m, n : m + n, 1, [name \in DOMAIN r.params |-> Size(r.params[name])])

\* The request line is too long, or it is malformed (an unknown method).
RefuseLine ==
  /\ pc = "parse"
  /\ \/ LineLength(req) > UriMax /\ Refuse(414)
     \/ LineLength(req) <= UriMax /\ req.method \notin Methods /\ Refuse(400)

\* The request line is parsed, its query included.
Parse ==
  /\ pc = "parse"
  /\ LineLength(req) <= UriMax /\ req.method \in Methods
  /\ req' = [req EXCEPT !.params = parse_query_text(@)]
  /\ pc' = "route"
  /\ UNCHANGED <<function, desc, values, valid_params, response, status, body, calls, threw>>

Matching(r) == {f \in DOMAIN Functions : r.path \in Functions[f].paths}

\* routing: only get_handlers_ has handlers, and it also serves HEAD.
RefuseRoute ==
  /\ pc = "route"
  /\ \/ req.method \in {"CONNECT", "TRACE", "PRI"} /\ Refuse(400)
     \/ req.method \in {"POST", "PUT", "DELETE", "OPTIONS", "PATCH"} /\ Refuse(404)
     \/ req.method \in {"GET", "HEAD"} /\ Matching(req) = {} /\ Refuse(404)

\* dispatch_request calls the handler of the first match, which begins.
Route ==
  /\ pc = "route" /\ req.method \in {"GET", "HEAD"}
  /\ \E f \in Matching(req) :
       /\ \A g \in Matching(req) : f <= g
       /\ function' = f
  /\ response' = RestResponse(Text, "", <<>>)
  /\ pc' = "extract"
  /\ UNCHANGED <<req, desc, values, valid_params, status, body, calls, threw>>

-----------------------------------------------------------------------------
(***************************************************************************)
(* The handler: one step for each value description, then the call.        *)
(***************************************************************************)

Descriptions(f) == Functions[f].descriptions

has_param(r, name) == name \in DOMAIN r.params

\* The first one, when several parameters have the name.
get_param_value(r, name) == r.params[name][1]

\* sValueCreators has the type.
Supported(d) == d.type \in Types /\ ~d.array

\* values.emplace: an entry that is there stays.
Emplaced(map, name, value) ==
  [n \in DOMAIN map \cup {name} |-> IF n \in DOMAIN map THEN map[n] ELSE value]

\* Mutant: values[name] = value, a later description replaces an earlier one.
ExtractValueAssigns ==
  /\ pc = "extract" /\ desc \in DOMAIN Descriptions(function)
  /\ LET d == Descriptions(function)[desc] IN
       /\ has_param(req, d.name) /\ Supported(d)
       /\ \E v \in createValue(d.type, d.name, get_param_value(req, d.name)) :
            values' = [n \in DOMAIN values \cup {d.name} |-> IF n = d.name THEN v ELSE values[n]]
  /\ desc' = desc + 1
  /\ UNCHANGED <<pc, req, function, valid_params, response, status, body, calls, threw>>

\* The value is present and becomes an entry of the map.
ExtractValue ==
  /\ pc = "extract" /\ desc \in DOMAIN Descriptions(function)
  /\ LET d == Descriptions(function)[desc] IN
       /\ has_param(req, d.name) /\ Supported(d)
       /\ \E v \in createValue(d.type, d.name, get_param_value(req, d.name)) :
            values' = Emplaced(values, d.name, v)
  /\ desc' = desc + 1
  /\ UNCHANGED <<pc, req, function, valid_params, response, status, body, calls, threw>>

\* The type is not supported, or an optional value is absent.
SkipValue ==
  /\ pc = "extract" /\ desc \in DOMAIN Descriptions(function)
  /\ LET d == Descriptions(function)[desc] IN
       IF has_param(req, d.name) THEN ~Supported(d) ELSE ~d.required
  /\ desc' = desc + 1
  /\ UNCHANGED <<pc, req, function, values, valid_params, response, status, body, calls, threw>>

\* Mutant: valid_params is not cleared.
MissValueStaysValid ==
  /\ pc = "extract" /\ desc \in DOMAIN Descriptions(function)
  /\ LET d == Descriptions(function)[desc] IN
       /\ ~has_param(req, d.name) /\ d.required
       /\ response' = generateErrorResponse(d.name)
  /\ pc' = "call"
  /\ UNCHANGED <<req, function, desc, values, valid_params, status, body, calls, threw>>

\* A required value is absent: break with an error response.
MissValue ==
  /\ pc = "extract" /\ desc \in DOMAIN Descriptions(function)
  /\ LET d == Descriptions(function)[desc] IN
       /\ ~has_param(req, d.name) /\ d.required
       /\ response' = generateErrorResponse(d.name)
  /\ valid_params' = FALSE
  /\ pc' = "call"
  /\ UNCHANGED <<req, function, desc, values, status, body, calls, threw>>

\* The loop is done.
Extracted ==
  /\ pc = "extract" /\ desc \notin DOMAIN Descriptions(function)
  /\ pc' = "call"
  /\ UNCHANGED <<req, function, desc, values, valid_params, response, status, body, calls, threw>>

\* RestEchoFunction::call: a member for each value; numbers with a fraction
\* are written with four decimals.
Member(v) ==
  IF v.type \in {"float", "double"} THEN Truncate(v.value, Decimal4) ELSE v.value
Echo(map) == RestResponse(Json, "", [n \in DOMAIN map |-> Member(map[n])])

\* The call of the function; one of the application answers with JSON of its
\* own (no members are kept of it), or ...
Call ==
  /\ pc = "call" /\ valid_params
  /\ response' = IF Functions[function].echo THEN Echo(values) ELSE RestResponse(Json, "", <<>>)
  /\ calls' = calls + 1
  /\ pc' = "serve"
  /\ UNCHANGED <<req, function, desc, values, valid_params, status, body, threw>>

\* ... throws, and process_request catches.
CallThrows ==
  /\ pc = "call" /\ valid_params /\ ~Functions[function].echo
  /\ calls' = calls + 1
  /\ threw' = TRUE
  /\ status' = 500
  /\ pc' = "write"
  /\ UNCHANGED <<req, function, desc, values, valid_params, response, body>>

\* The function is not called without valid parameters.
SkipCall ==
  /\ pc = "call" /\ ~valid_params
  /\ pc' = "serve"
  /\ UNCHANGED <<req, function, desc, values, valid_params, response, status, body, calls, threw>>

\* res.set_content; the handler returns, routed and without a status: 200.
Serve ==
  /\ pc = "serve"
  /\ body' = response
  /\ status' = 200
  /\ pc' = "write"
  /\ UNCHANGED <<req, function, desc, values, valid_params, response, calls, threw>>

-----------------------------------------------------------------------------
\* The error handler set by RestServer::run.
error_handler == generateErrorResponse("Not Found")

\* Mutant: the error handler is left out.
WriteResponsePlain ==
  /\ pc = "write"
  /\ body' = IF req.method = "HEAD" THEN Nothing ELSE body
  /\ pc' = "sent"
  /\ UNCHANGED <<req, function, desc, values, valid_params, response, status, calls, threw>>

\* write_response_core: the error handler of RestServer::run replaces the body
\* of every error; the answer to HEAD has no body.
WriteResponse ==
  /\ pc = "write"
  /\ body' = IF req.method = "HEAD" THEN Nothing
             ELSE IF status >= 400 THEN error_handler ELSE body
  /\ pc' = "sent"
  /\ UNCHANGED <<req, function, desc, values, valid_params, response, status, calls, threw>>

\* The connection waits for its next request.
Finish ==
  /\ pc = "sent"
  /\ pc' = "idle"
  /\ UNCHANGED <<req, function, desc, values, valid_params, response, status, body, calls, threw>>

Answer ==
  \/ RefuseLine \/ Parse \/ RefuseRoute \/ Route
  \/ ExtractValue \/ SkipValue \/ MissValue \/ Extracted
  \/ Call \/ CallThrows \/ SkipCall \/ Serve \/ WriteResponse

-----------------------------------------------------------------------------
(***************************************************************************)
(* Properties.                                                             *)
(***************************************************************************)

\* The loop over the descriptions (restserver.cpp 139-163) computes what they
\* say, whatever mixture of absent, unsupported, repeated and malformed values a
\* request has: there is a value for just the names that are described so far with
\* a supported type and that the request has, it has the type of the first
\* such description, and it is what the first parameter of that name says.
ExtractedSoFar ==
  pc \in {"extract", "call"} =>
    LET D == Descriptions(function)
        Present == {i \in 1 .. desc - 1 : Supported(D[i]) /\ has_param(req, D[i].name)}
    IN /\ DOMAIN values = {D[i].name : i \in Present}
       /\ \A i \in Present :
            (\A j \in Present : D[j].name = D[i].name => i <= j)
              => values[D[i].name] \in
                   createValue(D[i].type, D[i].name, get_param_value(req, D[i].name))

\* RestFunction::extractValue<T> (restfunction.h 52): the value is in the map
\* and of the asked type.
HasValue(name, type, map) == name \in DOMAIN map /\ map[name].type = type

\* A function may rely on its required values (restvalue.h 24): it is called only
\* when the request has all of them, and then extractValue succeeds for each
\* that is of a supported type and described once.
RequiredReachesFunction ==
  pc = "call" /\ valid_params =>
    LET D == Descriptions(function) IN
      \A i \in DOMAIN D : D[i].required =>
        /\ has_param(req, D[i].name)
        /\ Supported(D[i]) /\ (\A j \in DOMAIN D : D[j].name = D[i].name => j = i)
             => HasValue(D[i].name, D[i].type, values)

\* The outcomes of a request r that reaches the function f (status s, body b, c calls,
\* t: it threw).  The status of the last is left open: it is 200, where the comment at
\* restserver.cpp 156 says "return a bad request".
Outcome(r, f, s, b, c, t) ==
  /\ b.mContentType = Json
  /\ \/ s = 200 /\ c = 1 /\ ~t /\ b.message = ""
     \/ s >= 400 /\ b.message = "Not Found" /\ (c = 1 <=> t)
     \/ /\ c = 0
        /\ \E i \in DOMAIN Descriptions(f) :
             LET d == Descriptions(f)[i] IN
               d.required /\ ~has_param(r, d.name) /\ b.message = d.name

\* A request has one of three outcomes: the function was called once and its
\* response is sent; the status is an error, the body is the error handler's, and
\* a function that was called has thrown; or it was not called and the response names
\* a required value that is absent.  In particular the empty plain-text
\* response that the handler begins with (restserver.cpp 133) is never sent.
OneOutcome ==
  pc = "sent" /\ req.method # "HEAD" => Outcome(req, function, status, body, calls, threw)
=============================================================================
