------------------------------- MODULE RestCall -------------------------------
(***************************************************************************)
(* A value's way from RestClient::get to a RestFunction and back: the      *)
(* client copies the parameters, the caller goes on and changes or         *)
(* destroys its own, the worker converts the copy and sends it, the server *)
(* answers (RestHandler), and a callback gets the answer.  RestClient has  *)
(* the threads and queues of this; here is the data, one call at a time,   *)
(* while the server also answers requests of others.                       *)
(***************************************************************************)
EXTENDS RestHandler

CONSTANTS
  Calls,    \* sequence of the calls made: [address, params]
  Requests  \* sequence of the requests of others: [method, path, params]

\* The value of an APIValue<T>, for the name of T.
Holds(type, value) ==
  CASE type \in {"int", "long", "float", "double"} -> value \in Int
    [] type = "bool"   -> value \in BOOLEAN
    [] type = "string" -> value \in Seq(ToSet(value))

\* The parameters of a call are API values.
ASSUME CallsAssumption ==
  \A i \in DOMAIN Calls :
    /\ Calls[i].params \in Seq(ToSet(Calls[i].params))
    /\ \A p \in ToSet(Calls[i].params) :
         IF p.array THEN /\ p.value \in Seq(ToSet(p.value))
                         /\ \A v \in ToSet(p.value) : p.type \in Types => Holds(p.type, v)
                    ELSE p.type \in Types => Holds(p.type, p.value)

VARIABLES
  call,     \* where the call is
  address,
  params,   \* the caller's parameters
  cache,    \* mRequestParamsCache[uuid4]
  result,   \* what the callback is told: "success", "error", "" (not yet)
  reply,    \* the RestResponse given to onSuccess
  asked     \* history: the parameters at the time of the call

callVars == <<call, address, params, cache, result, reply, asked>>
allVars == <<vars, callVars>>

\* The types of the variables.
CallTypeOK ==
  /\ TypeOK
  /\ call \in {"idle", "queued", "sending", "done"}
  /\ address \in {Calls[i].address : i \in DOMAIN Calls} \cup {""}
  /\ result \in {"", "success", "error"}

CallInit ==
  /\ Init
  /\ call = "idle" /\ address = "" /\ params = <<>> /\ cache = <<>> /\ asked = <<>>
  /\ result = "" /\ reply = Nothing

\* get: a deep copy of the parameters goes to the cache, the request to the queue.
Get(c) ==
  /\ call = "idle"
  /\ address' = c.address
  /\ params' = c.params /\ asked' = c.params
  /\ cache' = copyParams(c.params)
  /\ result' = "" /\ reply' = Nothing
  /\ call' = "queued"
  /\ UNCHANGED vars

\* The caller of get goes on; its vector is changed or gone.
CallerGoesOn ==
  /\ call \in {"queued", "sending"}
  /\ \E i \in DOMAIN Calls : params' = Calls[i].params
  /\ UNCHANGED <<vars, call, address, cache, result, reply, asked>>

\* Mutant: the caller's parameters are sent, not the copy.
SendUncopied ==
  /\ call = "queued"
  /\ Receive([method |-> "GET", path |-> address, params |-> toHTTPParams(params)])
  /\ call' = "sending"
  /\ UNCHANGED <<address, params, cache, result, reply, asked>>

\* getBlocking in the worker: Get with the converted parameters.
Send ==
  /\ call = "queued"
  /\ Receive([method |-> "GET", path |-> address, params |-> toHTTPParams(cache)])
  /\ call' = "sending"
  /\ UNCHANGED <<address, params, cache, result, reply, asked>>

\* The exchange fails before or after the server has answered: onError.
SendFails ==
  /\ \/ call = "queued" /\ UNCHANGED vars
     \/ call = "sending" /\ pc = "sent" /\ Finish
  /\ result' = "error"
  /\ call' = "done"
  /\ UNCHANGED <<address, params, cache, reply, asked>>

\* if(result): any answer, whatever its status, goes to onSuccess.
Answered ==
  /\ call = "sending" /\ pc = "sent"
  /\ Finish
  /\ reply' = body
  /\ result' = "success"
  /\ call' = "done"
  /\ UNCHANGED <<address, params, cache, asked>>

\* The callback returns and the entry of the cache is erased.
CallbackDone ==
  /\ call = "done"
  /\ call' = "idle"
  /\ cache' = <<>>
  /\ UNCHANGED <<vars, address, params, result, reply, asked>>

\* Requests of others; answers to the client are left to Answered and SendFails.
OtherRequest ==
  /\ call # "sending"
  /\ (\E i \in DOMAIN Requests : Receive(Requests[i])) \/ Finish
  /\ UNCHANGED callVars

ServerAnswers == Answer /\ UNCHANGED callVars

CallNext ==
  \/ \E i \in DOMAIN Calls : Get(Calls[i])
  \/ CallerGoesOn \/ Send \/ SendFails \/ Answered \/ CallbackDone
  \/ OtherRequest \/ ServerAnswers

CallSpec == CallInit /\ [][CallNext]_allVars

-----------------------------------------------------------------------------
(***************************************************************************)
(* Properties.                                                             *)
(***************************************************************************)

\* From the parsing of its line until its response is written a request that was not
\* refused is with the handler.
Handled == pc \in {"route", "extract", "call", "serve"}

\* What reaches the server are the parameters of the time of the call
\* (restclient.cpp 127: "create deep copy of params"), whatever the caller does with
\* its own before the worker comes to send them.
ServerSeesTheCall ==
  call = "sending" =>
    /\ pc = "parse" => req.params = toHTTPParams(asked)
    /\ Handled => req.params = parse_query_text(toHTTPParams(asked))
    /\ pc # "idle" => req.path = address

\* What a text says of a value of a type, independent of the code: the reference
\* for conversion there and back.
Says(type, text, value) ==
  CASE type \in {"int", "long"}     -> text = <<Number(value * Unit)>>
    [] type \in {"float", "double"} ->
         Len(text) = 1 /\ 2 * (text[1][2] - value) \in -Decimal6 .. Decimal6
    [] type = "bool"                -> text = <<Number(IF value THEN Unit ELSE 0)>>
    [] type = "string"              -> text = value

\* The parts of an array's text: cut at every separator.
Cuts(text) == {i \in DOMAIN text : text[i] = mArraySeparator[1]}
Part(text, k) ==
  LET Before == {i \in Cuts(text) : Cardinality({j \in Cuts(text) : j < i}) = k - 2}
      After  == {i \in Cuts(text) : Cardinality({j \in Cuts(text) : j < i}) = k - 1}
      first  == IF k = 1 THEN 1 ELSE (CHOOSE i \in Before : TRUE) + 1
      last   == IF After = {} THEN Len(text) ELSE (CHOOSE i \in After : TRUE) - 1
  IN SubSeq(text, first, last)

\* An array can be told from its text unless an element is a string with a
\* separator in it, or an empty string (a leading one leaves no trace).
Separable(p) ==
  p.type = "string" => \A k \in DOMAIN p.value : p.value[k] # <<>> /\ Cuts(p.value[k]) = {}

\* A text says the value of a parameter; that of an array comes apart into its
\* elements, no more and no fewer.
SaysParam(text, p) ==
  /\ ~p.array => Says(p.type, text, p.value)
  /\ p.array /\ Separable(p) /\ p.value # <<>> =>
       /\ Cardinality(Cuts(text)) + 1 = Len(p.value)
       /\ \A k \in DOMAIN p.value : Says(p.type, Part(text, k), p.value[k])

\* What the handler reads says what the caller meant (restclient.cpp 247-337,
\* httplib.h 4688-4712), although parameters are reordered by name and repetitions
\* are dropped on the way.  The names are those of the values of a supported type
\* (but not an empty name); some text of its name says each value, and the one that
\* get_param_value reads says the first of its name; no text of a name says anything
\* but a value of that name, and no two are the same.
TextSaysValue ==
  call = "sending" /\ Handled =>
    LET Given == {i \in DOMAIN asked : asked[i].type \in Types /\ asked[i].name # ""}
        Named(n) == {i \in Given : asked[i].name = n}
    IN /\ DOMAIN req.params = {asked[i].name : i \in Given}
       /\ \A n \in DOMAIN req.params :
            LET texts == req.params[n] IN
              /\ \A i \in Named(n) : \E k \in DOMAIN texts : SaysParam(texts[k], asked[i])
              /\ \A k \in DOMAIN texts : \E i \in Named(n) : SaysParam(texts[k], asked[i])
              /\ \A i \in Named(n) :
                   (\A j \in Named(n) : i <= j) => SaysParam(get_param_value(req, n), asked[i])
              /\ \A j, k \in DOMAIN texts : texts[j] = texts[k] => j = k

\* "The function simply echo's the given required parameters as set in Napkin"
\* (demo/restdemo/src/restapp.h 27): the reply of an echo function, unless it is an
\* error, has the value of every parameter that is described with its type and
\* given once; of a floating-point number it has the first decimals.
EchoReturnsParameters ==
  call = "done" /\ result = "success" /\ reply.message = "" =>
    \A f \in Matching([path |-> address]) :
      LET D == Descriptions(f)
          Once(s, i) == \A j \in DOMAIN s : s[j].name = s[i].name => j = i
      IN Functions[f].echo /\ (\A g \in Matching([path |-> address]) : f <= g) =>
           \A i \in DOMAIN asked, k \in DOMAIN D :
             /\ asked[i].name = D[k].name /\ asked[i].type = D[k].type
             /\ asked[i].name # ""
             /\ ~asked[i].array /\ Supported(D[k])
             /\ Once(asked, i) /\ Once(D, k)
             => /\ asked[i].name \in DOMAIN reply.members
                /\ LET diff == 2 * (reply.members[asked[i].name] - asked[i].value)
                       bound == 2 * Decimal4 + Decimal6
                   IN IF asked[i].type \in {"float", "double"} THEN diff \in -bound .. bound
                      ELSE reply.members[asked[i].name] = asked[i].value
=============================================================================
