---------------------------- MODULE RestCallProofs ----------------------------
(***************************************************************************)
(* Theorems about RestCall: what the handler promises to the function and  *)
(* to the client, for all functions, requests and calls.                   *)
(***************************************************************************)
EXTENDS RestCall, SequenceLemmas, FiniteSetTheorems, TLAPS

USE DEF Descriptions

\* What a step of RestCall is for the handler.
LEMMA HandlerSteps ==
  ASSUME [CallNext]_allVars
  PROVE  (\E r : Receive(r)) \/ Answer \/ Finish \/ UNCHANGED vars
BY DEF CallNext, allVars, Get, CallerGoesOn, Send, SendFails, Answered, CallbackDone,
       OtherRequest, ServerAnswers

\* The descriptions of a function are a sequence.
LEMMA DescriptionsType ==
  ASSUME NEW f \in DOMAIN Functions
  PROVE  /\ Len(Descriptions(f)) \in Nat
         /\ DOMAIN Descriptions(f) = 1 .. Len(Descriptions(f))
BY FunctionsAssumption

-----------------------------------------------------------------------------
(***************************************************************************)
(* The loop over the descriptions.                                         *)
(***************************************************************************)

\* Where the loop is: it has not passed the end, and it has not passed a required
\* value that is absent.
LoopInv ==
  /\ desc \in Nat \ {0}
  /\ pc \in {"extract", "call", "serve"} => function \in DOMAIN Functions
  /\ pc \in {"parse", "route"} => valid_params /\ desc = 1
  /\ pc = "extract" => valid_params /\ desc <= Len(Descriptions(function)) + 1
  /\ pc = "call" /\ valid_params => desc = Len(Descriptions(function)) + 1
  /\ pc \in {"extract", "call"} /\ valid_params =>
       \A i \in 1 .. desc - 1 :
         Descriptions(function)[i].required => has_param(req, Descriptions(function)[i].name)

\* Before the loop the map is empty.
FreshInv == pc \in {"parse", "route"} => values = <<>>

LEMMA FreshInit == ASSUME Init PROVE FreshInv
BY DEF Init, FreshInv

LEMMA FreshStep ==
  ASSUME FreshInv, (\E r : Receive(r)) \/ Answer \/ Finish \/ UNCHANGED vars
  PROVE  FreshInv'
<1> USE DEF FreshInv
<1>1. CASE \E r : Receive(r)
  BY <1>1 DEF Receive
<1>2. CASE RefuseLine \/ RefuseRoute \/ Parse \/ Route
  BY <1>2 DEF RefuseLine, RefuseRoute, Refuse, Parse, Route
<1>3. CASE ExtractValue \/ SkipValue \/ MissValue \/ Extracted
  BY <1>3 DEF ExtractValue, SkipValue, MissValue, Extracted
<1>4. CASE Call \/ CallThrows \/ SkipCall \/ Serve \/ WriteResponse \/ Finish
  BY <1>4 DEF Call, CallThrows, SkipCall, Serve, WriteResponse, Finish
<1>5. CASE UNCHANGED vars
  BY <1>5 DEF vars
<1> QED
  BY <1>1, <1>2, <1>3, <1>4, <1>5 DEF Answer

LEMMA LoopInit == ASSUME Init PROVE LoopInv /\ ExtractedSoFar
<1>1. pc = "idle" /\ desc = 1
  BY DEF Init
<1>2. LoopInv
  BY <1>1 DEF LoopInv
<1>3. ExtractedSoFar
  BY <1>1 DEF ExtractedSoFar
<1> QED
  BY <1>2, <1>3

LEMMA LoopStep ==
  ASSUME LoopInv, (\E r : Receive(r)) \/ Answer \/ Finish \/ UNCHANGED vars
  PROVE  LoopInv'
<1> USE DEF LoopInv
<1>1. CASE \E r : Receive(r)
  BY <1>1 DEF Receive
<1>2. CASE RefuseLine \/ RefuseRoute
  BY <1>2 DEF RefuseLine, RefuseRoute, Refuse
<1>3. CASE Parse
  BY <1>3 DEF Parse
<1>4. CASE Route
  <2>1. function' \in DOMAIN Functions
    BY <1>4 DEF Route, Matching
  <2>2. Len(Descriptions(function')) \in Nat
    BY <2>1, DescriptionsType
  <2>3. /\ pc' = "extract" /\ desc' = 1
        /\ valid_params' = valid_params /\ valid_params
    BY <1>4 DEF Route
  <2> QED
    BY <2>1, <2>2, <2>3
<1>5. CASE ExtractValue
  <2>1. /\ pc = "extract" /\ pc' = pc /\ desc' = desc + 1
        /\ desc \in DOMAIN Descriptions(function) /\ has_param(req, Descriptions(function)[desc].name)
        /\ UNCHANGED <<function, req, valid_params>>
    BY <1>5 DEF ExtractValue
  <2> QED
    BY <2>1, DescriptionsType
<1>6. CASE SkipValue
  <2>1. /\ pc = "extract" /\ pc' = pc /\ desc' = desc + 1
        /\ desc \in DOMAIN Descriptions(function)
        /\ Descriptions(function)[desc].required => has_param(req, Descriptions(function)[desc].name)
        /\ UNCHANGED <<function, req, valid_params>>
    BY <1>6 DEF SkipValue
  <2> QED
    BY <2>1, DescriptionsType
<1>7. CASE MissValue
  BY <1>7 DEF MissValue
<1>8. CASE Extracted
  <2>1. Len(Descriptions(function)) \in Nat
        /\ DOMAIN Descriptions(function) = 1 .. Len(Descriptions(function))
    BY <1>8, DescriptionsType DEF Extracted
  <2> QED
    BY <1>8, <2>1 DEF Extracted
<1>9. CASE Call \/ CallThrows \/ SkipCall
  BY <1>9 DEF Call, CallThrows, SkipCall
<1>10. CASE Serve \/ WriteResponse \/ Finish
  BY <1>10 DEF Serve, WriteResponse, Finish
<1>11. CASE UNCHANGED vars
  BY <1>11 DEF vars
<1> QED
  BY <1>1, <1>2, <1>3, <1>4, <1>5, <1>6, <1>7, <1>8, <1>9, <1>10, <1>11 DEF Answer

\* The map after one more value.
LEMMA ExtractMore ==
  ASSUME LoopInv, ExtractedSoFar, ExtractValue
  PROVE  ExtractedSoFar'
<1> DEFINE D == Descriptions(function)
           Present(k) == {i \in 1 .. k : Supported(D[i]) /\ has_param(req, D[i].name)}
           Created(i) == createValue(D[i].type, D[i].name, get_param_value(req, D[i].name))
<1>1. /\ pc = "extract" /\ pc' = pc /\ desc' = desc + 1 /\ UNCHANGED <<req, function>>
      /\ desc \in Nat \ {0}
      /\ Supported(D[desc]) /\ has_param(req, D[desc].name)
  BY DEF ExtractValue, LoopInv
<1>2. PICK v \in Created(desc) : values' = Emplaced(values, D[desc].name, v)
  BY DEF ExtractValue
<1>3. /\ DOMAIN values = {D[i].name : i \in Present(desc - 1)}
      /\ \A i \in Present(desc - 1) :
           (\A j \in Present(desc - 1) : D[j].name = D[i].name => i <= j)
             => values[D[i].name] \in Created(i)
  BY <1>1 DEF ExtractedSoFar
<1>4. Present(desc) = Present(desc - 1) \cup {desc}
  BY <1>1
<1>5. /\ DOMAIN values' = DOMAIN values \cup {D[desc].name}
      /\ \A n \in DOMAIN values : values'[n] = values[n]
      /\ D[desc].name \notin DOMAIN values => values'[D[desc].name] = v
  BY <1>2 DEF Emplaced
<1> HIDE DEF Created
<1>6. DOMAIN values' = {D[i].name : i \in Present(desc)}
  <2>1. \A S, k : {D[i].name : i \in S \cup {k}} = {D[i].name : i \in S} \cup {D[k].name}
    OBVIOUS
  <2>2. {D[i].name : i \in Present(desc - 1) \cup {desc}}
          = {D[i].name : i \in Present(desc - 1)} \cup {D[desc].name}
    BY <2>1
  <2> HIDE DEF D, Present
  <2> QED
    BY <1>3, <1>4, <1>5, <2>2
<1>7. ASSUME NEW i \in Present(desc),
             \A j \in Present(desc) : D[j].name = D[i].name => i <= j
      PROVE  values'[D[i].name] \in Created(i)
  <2>1. CASE i = desc
    <3>1. \A j \in Present(desc - 1) : D[j].name # D[desc].name
      BY <1>1, <1>4, <1>7, <2>1
    <3>2. D[desc].name \notin DOMAIN values
      BY <1>3, <3>1
    <3> QED
      BY <1>2, <1>5, <2>1, <3>2
  <2>2. CASE i # desc
    <3>1. i \in Present(desc - 1) /\ D[i].name \in DOMAIN values
      BY <1>3, <1>4, <2>2
    <3>2. values[D[i].name] \in Created(i)
      BY <1>3, <1>4, <1>7, <3>1
    <3> QED
      BY <1>5, <3>1, <3>2
  <2> QED
    BY <2>1, <2>2
<1>8. desc' - 1 = desc
  BY <1>1
<1>9. \A i \in Present(desc) :
        (\A j \in Present(desc) : D[j].name = D[i].name => i <= j)
          => values'[D[i].name] \in Created(i)
  BY <1>7
<1> QED
  BY <1>1, <1>6, <1>8, <1>9, Zenon DEF ExtractedSoFar, Created

LEMMA ExtractedStep ==
  ASSUME LoopInv, FreshInv, ExtractedSoFar, (\E r : Receive(r)) \/ Answer \/ Finish \/ UNCHANGED vars
  PROVE  ExtractedSoFar'
<1> DEFINE D == Descriptions(function)
<1>1. CASE \E r : Receive(r)
  <2>1. pc' = "parse"
    BY <1>1 DEF Receive
  <2> QED
    BY <2>1 DEF ExtractedSoFar
<1>2. CASE RefuseLine \/ RefuseRoute \/ Parse
  <2>1. pc' \in {"write", "route"}
    BY <1>2 DEF RefuseLine, RefuseRoute, Refuse, Parse
  <2> QED
    BY <2>1 DEF ExtractedSoFar
<1>3. CASE Route
  <2>1. desc' = 1 /\ values' = <<>>
    BY <1>3 DEF Route, LoopInv, FreshInv
  <2>2. desc' - 1 = 0
    BY <2>1
  <2>3. 1 .. desc' - 1 = {} /\ DOMAIN values' = {}
    BY <2>1, <2>2
  <2> QED
    BY <2>3 DEF ExtractedSoFar
<1>4. CASE ExtractValue
  BY <1>4, ExtractMore
<1>5. CASE SkipValue
  <2>1. /\ pc = "extract" /\ desc' = desc + 1 /\ UNCHANGED <<pc, req, function, values>>
        /\ desc \in Nat \ {0}
        /\ ~(Supported(D[desc]) /\ has_param(req, D[desc].name))
    BY <1>5 DEF SkipValue, LoopInv
  <2>2. {i \in 1 .. desc' - 1 : Supported(D[i]) /\ has_param(req, D[i].name)}
          = {i \in 1 .. desc - 1 : Supported(D[i]) /\ has_param(req, D[i].name)}
    BY <2>1
  <2> QED
    BY <2>1, <2>2, Zenon DEF ExtractedSoFar
<1>6. CASE MissValue \/ Extracted
  <2>1. /\ pc = "extract" /\ UNCHANGED <<req, function, desc, values>>
    BY <1>6 DEF MissValue, Extracted
  <2> QED
    BY <2>1 DEF ExtractedSoFar
<1>7. CASE Call \/ CallThrows \/ SkipCall
  <2>1. pc' \in {"serve", "write"}
    BY <1>7 DEF Call, CallThrows, SkipCall
  <2> QED
    BY <2>1 DEF ExtractedSoFar
<1>8. CASE Serve \/ WriteResponse \/ Finish
  <2>1. pc' \in {"write", "sent", "idle"}
    BY <1>8 DEF Serve, WriteResponse, Finish
  <2> QED
    BY <2>1 DEF ExtractedSoFar
<1>9. CASE UNCHANGED vars
  BY <1>9 DEF vars, ExtractedSoFar
<1> QED
  BY <1>1, <1>2, <1>3, <1>4, <1>5, <1>6, <1>7, <1>8, <1>9 DEF Answer

\* At the call the loop is complete, so every required value was seen.
LEMMA LoopComplete ==
  ASSUME LoopInv, ExtractedSoFar
  PROVE  RequiredReachesFunction
<1> SUFFICES ASSUME pc = "call", valid_params,
                    NEW i \in DOMAIN Descriptions(function),
                    Descriptions(function)[i].required
             PROVE  /\ has_param(req, Descriptions(function)[i].name)
                    /\ Supported(Descriptions(function)[i])
                       /\ (\A j \in DOMAIN Descriptions(function) :
                             Descriptions(function)[j].name = Descriptions(function)[i].name
                               => j = i)
                         => HasValue(Descriptions(function)[i].name,
                                     Descriptions(function)[i].type, values)
  BY DEF RequiredReachesFunction
<1> DEFINE D == Descriptions(function)
           Present == {k \in 1 .. desc - 1 : Supported(D[k]) /\ has_param(req, D[k].name)}
<1>1. i \in 1 .. desc - 1 /\ 1 .. desc - 1 = DOMAIN D
  BY DescriptionsType DEF LoopInv
<1>2. has_param(req, D[i].name)
  BY <1>1 DEF LoopInv
<1>3. ASSUME Supported(D[i]), \A j \in DOMAIN D : D[j].name = D[i].name => j = i
      PROVE  HasValue(D[i].name, D[i].type, values)
  <2>1. i \in Present /\ \A j \in Present : D[j].name = D[i].name => i <= j
    <3>1. i \in Present
      BY <1>1, <1>2, <1>3
    <3>2. ASSUME NEW j \in Present, D[j].name = D[i].name PROVE i <= j
      <4>1. j \in DOMAIN D
        BY <1>1
      <4>2. j = i
        BY <1>3, <3>2, <4>1
      <4> QED
        BY <1>1, <4>2
    <3> QED
      BY <3>1, <3>2
  <2>2. /\ D[i].name \in DOMAIN values
        /\ values[D[i].name] \in
             createValue(D[i].type, D[i].name, get_param_value(req, D[i].name))
    BY <2>1 DEF ExtractedSoFar
  <2>3. values[D[i].name].type = D[i].type
    BY <2>2 DEF createValue
  <2> QED
    BY <2>2, <2>3 DEF HasValue
<1> QED
  BY <1>2, <1>3

-----------------------------------------------------------------------------
\* The loop computes what the descriptions say, for every request: the map that a
\* function gets has no other values than the described ones that the request has.
THEOREM ValuesAreAsDescribed == CallSpec => []ExtractedSoFar
<1>1. CallInit => LoopInv /\ FreshInv /\ ExtractedSoFar
  BY LoopInit, FreshInit DEF CallInit
<1>2. LoopInv /\ FreshInv /\ ExtractedSoFar /\ [CallNext]_allVars
        => (LoopInv /\ FreshInv /\ ExtractedSoFar)'
  BY HandlerSteps, LoopStep, FreshStep, ExtractedStep
<1> QED
  BY <1>1, <1>2, PTL DEF CallSpec

\* A function is called only when its required values are there, and extractValue
\* finds them.
THEOREM RequiredValuesArrive == CallSpec => []RequiredReachesFunction
<1>1. CallInit => LoopInv /\ FreshInv /\ ExtractedSoFar
  BY LoopInit, FreshInit DEF CallInit
<1>2. LoopInv /\ FreshInv /\ ExtractedSoFar /\ [CallNext]_allVars
        => (LoopInv /\ FreshInv /\ ExtractedSoFar)'
  BY HandlerSteps, LoopStep, FreshStep, ExtractedStep
<1>3. LoopInv /\ ExtractedSoFar => RequiredReachesFunction
  BY LoopComplete
<1> QED
  BY <1>1, <1>2, <1>3, PTL DEF CallSpec

-----------------------------------------------------------------------------
(***************************************************************************)
(* One outcome.                                                            *)
(***************************************************************************)

\* An error response of the handler names an absent required value of the request q
\* to the function f.
Names(r, q, f) ==
  /\ r.mContentType = Json
  /\ \E i \in DOMAIN Descriptions(f) :
       LET d == Descriptions(f)[i] IN
         d.required /\ ~has_param(q, d.name) /\ r.message = d.name

Replies(r, q, f, c, t) ==
  /\ ~t
  /\ \/ c = 1 /\ r.mContentType = Json /\ r.message = ""
     \/ c = 0 /\ Names(r, q, f)

\* What is known of the outcome on the way to it: at p, with valid parameters v, the
\* response r, status s and body b.
Stage(p, v, r, s, b, c, t, q, f) ==
  /\ p \in {"parse", "route", "extract", "call"} => c = 0 /\ ~t
  /\ p \in {"parse", "route", "extract"} => v
  /\ p = "call" /\ ~v => Names(r, q, f)
  /\ p = "serve" => Replies(r, q, f, c, t)
  /\ p = "write" => \/ s = 200 /\ Replies(b, q, f, c, t)
                    \/ /\ s \in {400, 404, 414, 500}
                       /\ (c = 0 /\ ~t) \/ (c = 1 /\ t)

StageInv == Stage(pc, valid_params, response, status, body, calls, threw, req, function)

LEMMA StageStep ==
  ASSUME StageInv, (\E r : Receive(r)) \/ Answer \/ Finish \/ UNCHANGED vars
  PROVE  StageInv'
<1>1. CASE \E r : Receive(r)
  BY <1>1 DEF Receive, StageInv, Stage
<1>2. CASE RefuseLine \/ RefuseRoute
  <2>1. pc' = "write" /\ status' \in {400, 404, 414} /\ calls' = 0 /\ ~threw'
    BY <1>2 DEF RefuseLine, RefuseRoute, Refuse, StageInv, Stage
  <2> QED
    BY <2>1 DEF StageInv, Stage
<1>3. CASE Parse
  BY <1>3 DEF Parse, StageInv, Stage
<1>4. CASE Route
  <2>1. pc = "route" /\ pc' = "extract" /\ calls' = 0 /\ ~threw' /\ valid_params'
    BY <1>4 DEF Route, StageInv, Stage
  <2> QED
    BY <2>1 DEF StageInv, Stage
<1>5. CASE ExtractValue \/ SkipValue \/ Extracted
  <2>1. pc = "extract" /\ pc' \in {"extract", "call"} /\ calls' = 0 /\ ~threw' /\ valid_params'
    BY <1>5 DEF ExtractValue, SkipValue, Extracted, StageInv, Stage
  <2> QED
    BY <2>1 DEF StageInv, Stage
<1>6. CASE MissValue
  <2>1. /\ pc = "extract" /\ pc' = "call" /\ UNCHANGED <<calls, req, function>>
        /\ threw' = threw
        /\ desc \in DOMAIN Descriptions(function)
        /\ ~has_param(req, Descriptions(function)[desc].name)
        /\ Descriptions(function)[desc].required
        /\ response' = generateErrorResponse(Descriptions(function)[desc].name)
    BY <1>6 DEF MissValue
  <2>2. /\ response'.mContentType = Json
        /\ response'.message = Descriptions(function)[desc].name
    BY <2>1 DEF generateErrorResponse, RestResponse
  <2>3. Names(response', req, function)
    BY <2>1, <2>2, Zenon DEF Names
  <2>4. calls' = 0 /\ ~threw'
    BY <2>1 DEF StageInv, Stage
  <2> QED
    BY <2>1, <2>3, <2>4 DEF StageInv, Stage
<1>7. CASE Call
  <2>0. pc = "call" /\ calls = 0 /\ ~threw
    BY <1>7 DEF Call, StageInv, Stage
  <2>1. pc' = "serve" /\ calls' = calls + 1 /\ ~threw'
    BY <1>7, <2>0 DEF Call
  <2>2. response' = IF Functions[function].echo THEN Echo(values)
                    ELSE RestResponse(Json, "", <<>>)
    BY <1>7 DEF Call
  <2>3. response'.mContentType = Json /\ response'.message = ""
    BY <2>2 DEF Echo, RestResponse
  <2>4. calls' = 1
    BY <2>0, <2>1
  <2>5. Replies(response', req', function', calls', threw')
    BY <2>1, <2>3, <2>4 DEF Replies
  <2> QED
    BY <2>1, <2>5 DEF StageInv, Stage
<1>8. CASE CallThrows
  <2>1. pc = "call" /\ pc' = "write" /\ status' = 500 /\ calls' = calls + 1 /\ threw'
    BY <1>8 DEF CallThrows
  <2>2. calls = 0
    BY <2>1 DEF StageInv, Stage
  <2> QED
    BY <2>1, <2>2 DEF StageInv, Stage
<1>9. CASE SkipCall
  <2>1. /\ pc = "call" /\ ~valid_params /\ pc' = "serve" /\ threw' = threw
        /\ UNCHANGED <<calls, req, function, response>>
    BY <1>9 DEF SkipCall
  <2>2. calls = 0 /\ ~threw /\ Names(response, req, function)
    BY <2>1 DEF StageInv, Stage
  <2>3. Replies(response', req', function', calls', threw')
    BY <2>1, <2>2, Zenon DEF Replies
  <2> QED
    BY <2>1, <2>3 DEF StageInv, Stage
<1>10. CASE Serve
  <2>1. /\ pc = "serve" /\ pc' = "write" /\ body' = response /\ status' = 200 /\ threw' = threw
        /\ UNCHANGED <<calls, req, function>>
    BY <1>10 DEF Serve
  <2>2. Replies(response, req, function, calls, threw)
    BY <2>1 DEF StageInv, Stage
  <2>3. Replies(body', req', function', calls', threw')
    BY <2>1, <2>2, Zenon
  <2> QED
    BY <2>1, <2>3 DEF StageInv, Stage
<1>11. CASE WriteResponse \/ Finish
  BY <1>11 DEF WriteResponse, Finish, StageInv, Stage
<1>12. CASE UNCHANGED vars
  BY <1>12, Zenon DEF StageInv, vars
<1> QED
  BY <1>1, <1>2, <1>3, <1>4, <1>5, <1>6, <1>7, <1>8, <1>9, <1>10, <1>11, <1>12 DEF Answer

\* Only the writing of the response brings a request to its end.
LEMMA OutcomeStep ==
  ASSUME StageInv, OneOutcome, (\E r : Receive(r)) \/ Answer \/ Finish \/ UNCHANGED vars
  PROVE  OneOutcome'
<1>1. CASE pc' # "sent"
  BY <1>1 DEF OneOutcome
<1>2. CASE WriteResponse
  <2>1. pc = "write" /\ UNCHANGED <<req, function, status, calls>> /\ threw' = threw
    BY <1>2 DEF WriteResponse
  <2>2. CASE req.method # "HEAD" /\ status = 200 /\ Replies(body, req, function, calls, threw)
    <3>1. body' = body
      BY <1>2, <2>2 DEF WriteResponse
    <3>2. Outcome(req, function, status, body, calls, threw)
      BY <2>2 DEF Outcome, Replies, Names
    <3> QED
      BY <2>1, <3>1, <3>2, Zenon DEF OneOutcome
  <2>3. CASE /\ req.method # "HEAD" /\ status \in {400, 404, 414, 500}
             /\ (calls = 0 /\ ~threw) \/ (calls = 1 /\ threw)
    <3>1. status >= 400
      BY <2>3
    <3>2. body' = error_handler
      <4>1. body' = IF req.method = "HEAD" THEN Nothing
                    ELSE IF status >= 400 THEN error_handler ELSE body
        BY <1>2, Zenon DEF WriteResponse
      <4> QED
        BY <2>3, <3>1, <4>1, Zenon
    <3>3. body'.mContentType = Json /\ body'.message = "Not Found"
      BY <3>2 DEF error_handler, generateErrorResponse, RestResponse
    <3>4. calls = 1 <=> threw
      BY <2>3
    <3>5. Outcome(req, function, status, body', calls, threw)
      BY <3>1, <3>3, <3>4, Zenon DEF Outcome
    <3> QED
      BY <2>1, <3>5, Zenon DEF OneOutcome
  <2>4. CASE req.method = "HEAD"
    BY <2>1, <2>4 DEF OneOutcome
  <2> QED
    BY <2>1, <2>2, <2>3, <2>4 DEF StageInv, Stage
<1>3. CASE UNCHANGED vars
  BY <1>3, Zenon DEF OneOutcome, vars
<1>4. pc' = "sent" => WriteResponse \/ UNCHANGED vars
  <2>1. CASE \E r : Receive(r)
    BY <2>1 DEF Receive
  <2>2. CASE RefuseLine \/ RefuseRoute \/ Parse \/ Route
    BY <2>2 DEF RefuseLine, RefuseRoute, Refuse, Parse, Route
  <2>3. CASE Extracted \/ MissValue \/ Call \/ CallThrows \/ SkipCall \/ Serve \/ Finish
    BY <2>3 DEF Extracted, MissValue, Call, CallThrows, SkipCall, Serve, Finish
  <2>4. CASE ExtractValue \/ SkipValue
    BY <2>4 DEF ExtractValue, SkipValue
  <2> QED
    BY <2>1, <2>2, <2>3, <2>4 DEF Answer
<1> QED
  BY <1>1, <1>2, <1>3, <1>4

\* Every answer is the function's one response, names what is missing, or is the
\* error handler's.
THEOREM AnswersHaveOneOutcome == CallSpec => []OneOutcome
<1>1. CallInit => StageInv /\ OneOutcome
  BY DEF CallInit, Init, StageInv, Stage, OneOutcome
<1>2. StageInv /\ OneOutcome /\ [CallNext]_allVars => (StageInv /\ OneOutcome)'
  BY HandlerSteps, StageStep, OutcomeStep
<1> QED
  BY <1>1, <1>2, PTL DEF CallSpec

-----------------------------------------------------------------------------
(***************************************************************************)
(* The copy of the parameters.                                             *)
(***************************************************************************)

\* A sequence over a set is one over every larger set.
LEMMA SeqOfMore ==
  ASSUME NEW A, NEW B, A \subseteq B, NEW s \in Seq(A)
  PROVE  s \in Seq(B)
OBVIOUS

\* c is the loop of copyParams: what it has copied of the first i parameters.
IsCopy(c, ps) ==
  c = [i \in 0 .. Len(ps) |->
         IF i = 0 THEN <<>>
         ELSE IF ps[i].type \in Types THEN Append(c[i - 1], ps[i]) ELSE c[i - 1]]

LEMMA CopyLoop ==
  ASSUME NEW S, NEW ps \in Seq(S)
  PROVE  \E c \in [0 .. Len(ps) -> Seq({p \in S : p.type \in Types})] :
           /\ copyParams(ps) = c[Len(ps)]
           /\ c[0] = <<>>
           /\ \A i \in 1 .. Len(ps) :
                c[i] = IF ps[i].type \in Types THEN Append(c[i - 1], ps[i])
                       ELSE c[i - 1]
<1> DEFINE n == Len(ps)
           K == {p \in S : p.type \in Types}
           V == Seq(K)
           step == [i \in 1 .. n |-> [v \in V |->
                      IF ps[i].type \in Types THEN Append(v, ps[i]) ELSE v]]
<1>1. n \in Nat /\ <<>> \in V /\ \A i \in 1 .. n : ps[i] \in S
  BY LenProperties, EmptySeq
<1>2. step \in [1 .. n -> [V -> V]]
  <2>1. ASSUME NEW i \in 1 .. n, NEW v \in V
        PROVE  (IF ps[i].type \in Types THEN Append(v, ps[i]) ELSE v) \in V
    <3>1. ps[i].type \in Types => ps[i] \in K
      BY <1>1
    <3> HIDE DEF K
    <3> QED
      BY <3>1, AppendProperties
  <2> HIDE DEF V
  <2> QED
    BY <2>1
<1>3. PICK c \in [0 .. n -> V] : IsLoop(c, n, <<>>, step)
  <2> HIDE DEF n, V, step
  <2> QED
    BY <1>1, <1>2, LoopRecursion
<1>4. c[0] = <<>>
  BY <1>3 DEF IsLoop
<1>5. ASSUME NEW i \in 1 .. n
      PROVE  c[i] = IF ps[i].type \in Types THEN Append(c[i - 1], ps[i]) ELSE c[i - 1]
  <2>1. c[i] = step[i][c[i - 1]]
    BY <1>3 DEF IsLoop
  <2>2. i - 1 \in 0 .. n
    BY <1>1
  <2>3. c[i - 1] \in V
    BY <1>3, <2>2
  <2> HIDE DEF V
  <2> QED
    BY <2>1, <2>3
<1>6. IsCopy(c, ps)
  <2> HIDE DEF V, step
  <2>1. \A i \in 0 .. n : i = 0 \/ (i # 0 /\ i \in 1 .. n)
    BY <1>1
  <2>2. c = [i \in 0 .. n |-> c[i]]
    BY <1>3
  <2>3. \A i \in 0 .. n :
          c[i] = IF i = 0 THEN <<>>
                 ELSE IF ps[i].type \in Types THEN Append(c[i - 1], ps[i]) ELSE c[i - 1]
    BY <1>4, <1>5, <2>1, Zenon
  <2> QED
    BY <2>2, <2>3, Zenon DEF IsCopy
<1> DEFINE d == CHOOSE e : IsCopy(e, ps)
<1>7. copyParams(ps) = d[n] /\ IsCopy(d, ps)
  <2>1. copyParams(ps) = d[n]
    BY Zenon DEF copyParams, IsCopy
  <2>2. IsCopy(d, ps)
    BY <1>6, Zenon
  <2> QED
    BY <2>1, <2>2
<1> HIDE DEF d
<1>8. /\ d[0] = <<>>
      /\ \A i \in 1 .. n :
           d[i] = IF ps[i].type \in Types THEN Append(d[i - 1], ps[i]) ELSE d[i - 1]
  <2>1. \A i \in 0 .. n :
          d[i] = IF i = 0 THEN <<>>
                 ELSE IF ps[i].type \in Types THEN Append(d[i - 1], ps[i]) ELSE d[i - 1]
    BY <1>7, Zenon DEF IsCopy
  <2>2. 0 \in 0 .. n /\ \A i \in 1 .. n : i \in 0 .. n /\ i # 0
    BY <1>1
  <2> QED
    BY <2>1, <2>2, Zenon
<1>9. d = c
  <2> DEFINE T == {i \in Nat : i \in 0 .. n => d[i] = c[i]}
  <2>1. 0 \in T
    BY <1>4, <1>8
  <2>2. ASSUME NEW i \in Nat, i \in T
        PROVE  i + 1 \in T
    <3> SUFFICES ASSUME i + 1 \in 0 .. n PROVE d[i + 1] = c[i + 1]
      OBVIOUS
    <3>1. i + 1 \in 1 .. n /\ (i + 1) - 1 = i /\ i \in 0 .. n
      BY <1>1
    <3>2. d[i] = c[i]
      BY <2>2, <3>1
    <3> QED
      BY <1>5, <1>8, <3>1, <3>2
  <2>3. \A i \in 0 .. n : d[i] = c[i]
    <3>1. Nat \subseteq T
      <4> HIDE DEF T
      <4> QED
        BY <2>1, <2>2, NatSetInduction
    <3> QED
      BY <1>1, <3>1
  <2>4. d = [i \in 0 .. n |-> d[i]] /\ c = [i \in 0 .. n |-> c[i]]
    BY <1>3, <1>7 DEF IsCopy
  <2> QED
    BY <2>3, <2>4, Zenon
<1> QED
  BY <1>3, <1>4, <1>5, <1>7, <1>9

\* What is copied of a sequence that grew at its end.
LEMMA CopyGrows ==
  ASSUME NEW S
  PROVE  /\ copyParams(<<>>) = <<>>
         /\ \A s \in Seq(S) : copyParams(s) \in Seq(S)
         /\ \A s \in Seq(S), e \in S :
              copyParams(Append(s, e)) = IF e.type \in Types THEN Append(copyParams(s), e)
                                         ELSE copyParams(s)
<1> DEFINE K == {p \in S : p.type \in Types}
<1>0. ASSUME NEW u \in Seq(S)
      PROVE  \E c \in [0 .. Len(u) -> Seq(K)] :
               /\ copyParams(u) = c[Len(u)] /\ c[0] = <<>>
               /\ \A i \in 1 .. Len(u) : c[i] = IF u[i].type \in Types THEN Append(c[i - 1], u[i])
                                               ELSE c[i - 1]
  BY CopyLoop
<1>1. copyParams(<<>>) = <<>>
  <2> DEFINE none == <<>>
  <2>1. none \in Seq(S) /\ Len(none) = 0
    BY EmptySeq
  <2> HIDE DEF none
  <2>2. PICK c \in [0 .. Len(none) -> Seq(K)] : copyParams(none) = c[Len(none)] /\ c[0] = <<>>
    BY <2>1, CopyLoop
  <2> QED
    BY <2>1, <2>2 DEF none
<1>2. ASSUME NEW s \in Seq(S) PROVE copyParams(s) \in Seq(S)
  <2>1. Len(s) \in 0 .. Len(s)
    BY LenProperties
  <2>2. PICK c \in [0 .. Len(s) -> Seq(K)] : copyParams(s) = c[Len(s)]
    BY CopyLoop
  <2>3. copyParams(s) \in Seq(K)
    <3> HIDE DEF K
    <3> QED
      BY <2>1, <2>2
  <2> QED
    BY <2>3, SeqOfMore, K \subseteq S
<1>3. ASSUME NEW s \in Seq(S), NEW e \in S
      PROVE  copyParams(Append(s, e)) = IF e.type \in Types THEN Append(copyParams(s), e)
                                        ELSE copyParams(s)
  <2> DEFINE t == Append(s, e)
             n == Len(s)
  <2>1. /\ t \in Seq(S) /\ Len(t) = n + 1 /\ t[n + 1] = e
        /\ \A i \in 1 .. n : t[i] = s[i]
        /\ n \in Nat
    BY AppendProperties, LenProperties
  <2> HIDE DEF t, n
  <2>2. PICK c \in [0 .. n -> Seq(K)] :
          /\ copyParams(s) = c[n] /\ c[0] = <<>>
          /\ \A i \in 1 .. n : c[i] = IF s[i].type \in Types THEN Append(c[i - 1], s[i])
                                      ELSE c[i - 1]
    BY CopyLoop DEF n
  <2>3. PICK d \in [0 .. n + 1 -> Seq(K)] :
          /\ copyParams(t) = d[n + 1] /\ d[0] = <<>>
          /\ \A i \in 1 .. n + 1 : d[i] = IF t[i].type \in Types THEN Append(d[i - 1], t[i])
                                          ELSE d[i - 1]
    <3>1. PICK d \in [0 .. Len(t) -> Seq(K)] :
            /\ copyParams(t) = d[Len(t)] /\ d[0] = <<>>
            /\ \A i \in 1 .. Len(t) : d[i] = IF t[i].type \in Types THEN Append(d[i - 1], t[i])
                                           ELSE d[i - 1]
      <4>1. t \in Seq(S)
        BY <2>1
      <4> HIDE DEF K
      <4> QED
        BY <4>1, <1>0
    <3>2. Len(t) = n + 1
      BY <2>1
    <3> QED
      BY <3>1, <3>2, Zenon
  <2> DEFINE T == {i \in Nat : i <= n => d[i] = c[i]}
  <2>4. 0 \in T
    BY <2>2, <2>3
  <2>5. ASSUME NEW i \in Nat, i \in T PROVE i + 1 \in T
    <3> SUFFICES ASSUME i + 1 <= n PROVE d[i + 1] = c[i + 1]
      OBVIOUS
    <3>1. i + 1 \in 1 .. n /\ i + 1 \in 1 .. n + 1 /\ (i + 1) - 1 = i /\ d[i] = c[i]
      BY <2>1, <2>5
    <3> QED
      BY <2>1, <2>2, <2>3, <3>1
  <2>6. d[n] = c[n]
    <3>1. Nat \subseteq T
      <4> HIDE DEF T
      <4> QED
        BY <2>4, <2>5, NatSetInduction
    <3> QED
      BY <2>1, <3>1
  <2>7. n + 1 \in 1 .. n + 1 /\ (n + 1) - 1 = n
    BY <2>1
  <2> QED
    BY <2>1, <2>2, <2>3, <2>6, <2>7 DEF t
<1> QED
  BY <1>1, <1>2, <1>3

-----------------------------------------------------------------------------
(***************************************************************************)
(* The multimap of the parameters.                                         *)
(***************************************************************************)

\* The multimaps from names N to texts T, and what becomes of one for a parameter.
Multimaps(N, T) == UNION {[names -> Seq(T)] : names \in SUBSET N}
Added(map, p) == IF p.type \in Types THEN emplace(map, p.name, TextOf(p)) ELSE map

TextsAs(map, name) == IF name \in DOMAIN map THEN map[name] ELSE <<>>

OneMore(T, map, name, text) ==
  LET more == emplace(map, name, text)
  IN  /\ DOMAIN more = DOMAIN map \cup {name}
      /\ \A n \in DOMAIN map : map[n] \in Seq(T) /\ (n # name => more[n] = map[n])
      /\ TextsAs(map, name) \in Seq(T)
      /\ more[name] = Append(TextsAs(map, name), text)

LEMMA Emplacement ==
  ASSUME NEW N, NEW T, NEW map \in Multimaps(N, T), NEW name \in N, NEW text \in T
  PROVE  /\ emplace(map, name, text) \in Multimaps(N, T)
         /\ OneMore(T, map, name, text)
<1> DEFINE more == emplace(map, name, text)
           old == TextsAs(map, name)
<1>1. PICK names \in SUBSET N : map \in [names -> Seq(T)]
  BY DEF Multimaps
<1>2. DOMAIN map = names /\ \A n \in names : map[n] \in Seq(T)
  BY <1>1
<1>3. old \in Seq(T) /\ Append(old, text) \in Seq(T)
  BY <1>2, EmptySeq, AppendProperties DEF TextsAs
<1>4. /\ DOMAIN more = names \cup {name}
      /\ \A n \in names : n # name => more[n] = map[n]
      /\ more[name] = Append(old, text)
  BY <1>2 DEF emplace, TextsAs
<1> HIDE DEF old
<1>5. \A n \in names \cup {name} : more[n] \in Seq(T)
  BY <1>2, <1>3, <1>4
<1>6. more = [n \in names \cup {name} |-> more[n]]
  BY <1>2 DEF emplace
<1> HIDE DEF more
<1>7. more \in [names \cup {name} -> Seq(T)] /\ names \cup {name} \in SUBSET N
  BY <1>5, <1>6
<1>8. more \in Multimaps(N, T)
  BY <1>7, Zenon DEF Multimaps
<1> QED
  BY <1>2, <1>3, <1>4, <1>8 DEF more, old, OneMore

\* The multimap of the parameters of a sequence that grew at its end.
LEMMA ParamsGrow ==
  ASSUME NEW S
  PROVE  LET N == {p.name : p \in S}
             T == {TextOf(p) : p \in S}
         IN /\ toHTTPParams(<<>>) = NoParams
            /\ \A s \in Seq(S) : toHTTPParams(s) \in Multimaps(N, T)
            /\ \A s \in Seq(S), e \in S :
                 toHTTPParams(Append(s, e)) = Added(toHTTPParams(s), e)
<1> DEFINE N == {p.name : p \in S}
           T == {TextOf(p) : p \in S}
           V == Multimaps(N, T)
           step == [e \in S |-> [v \in V |-> Added(v, e)]]
           none == NoParams
<1>1. none \in V /\ \A v \in V, e \in S : Added(v, e) \in V
  <2>1. none \in [{} -> Seq(T)] /\ {} \in SUBSET N
    BY DEF NoParams
  <2>2. none \in V
    BY <2>1, Zenon DEF Multimaps
  <2>3. ASSUME NEW v \in V, NEW e \in S PROVE Added(v, e) \in V
    <3>1. e.name \in N /\ TextOf(e) \in T
      BY Zenon
    <3> HIDE DEF N, T
    <3> QED
      BY <3>1, Emplacement DEF Added
  <2> QED
    BY <2>2, <2>3
<1> HIDE DEF V, none
<1>2. step \in [S -> [V -> V]]
  BY <1>1
<1>3. \A e \in S, v \in V : step[e][v] = Added(v, e)
  OBVIOUS
<1> HIDE DEF step
<1>4. ASSUME NEW s \in Seq(S)
      PROVE  toHTTPParams(s) = Folded(s, V, none, step)
  <2> DEFINE Fold(g) == g = [u \in SUBSET DOMAIN s |->
                              IF u = {} THEN none
                              ELSE Added(g[u \ {Max(u)}], s[Max(u)])]
             it == CHOOSE g : Fold(g)
  <2>1. toHTTPParams(s) = it[DOMAIN s]
    BY Zenon DEF toHTTPParams, FoldLeft, MapThenFoldSet, none, Added
  <2>2. PICK g \in [SUBSET DOMAIN s -> V] : IsSetFold(g, s, none, step)
    BY <1>1, <1>2, SetFoldExists, Zenon
  <2>3. ASSUME NEW u \in SUBSET DOMAIN s, u # {}
        PROVE  s[Max(u)] \in S
    <3>1. Len(s) \in Nat /\ DOMAIN s = 1 .. Len(s)
      BY LenProperties
    <3>2. Max(u) \in 1 .. Len(s)
      BY <2>3, <3>1, MaxOfSubset, Zenon
    <3> QED
      BY <3>2, ElementOfSeq
  <2>4. ASSUME NEW u \in SUBSET DOMAIN s
        PROVE  g[u] = IF u = {} THEN none ELSE Added(g[u \ {Max(u)}], s[Max(u)])
    <3>1. u # {} => g[u] = step[s[Max(u)]][g[u \ {Max(u)}]]
      BY <2>2 DEF IsSetFold
    <3>2. g[{}] = none /\ g[u \ {Max(u)}] \in V
      BY <2>2 DEF IsSetFold
    <3> QED
      BY <1>3, <2>3, <3>1, <3>2, Zenon
  <2>5. Fold(g)
    <3>1. g = [u \in SUBSET DOMAIN s |-> g[u]]
      OBVIOUS
    <3> QED
      BY <2>4, <3>1, Zenon
  <2>6. Fold(it)
    <3> HIDE DEF Fold
    <3> QED
      BY <2>5, Zenon
  <2>7. \A u \in SUBSET DOMAIN s :
          it[u] = IF u = {} THEN none ELSE Added(it[u \ {Max(u)}], s[Max(u)])
    <3> HIDE DEF it
    <3> QED
      BY <2>6, Zenon
  <2> HIDE DEF it
  <2>8. FitsFold(it, s, V, none, step)
    BY <1>3, <2>3, <2>7, Zenon DEF FitsFold
  <2>9. it[DOMAIN s] = Folded(s, V, none, step)
    BY <1>1, <1>2, <2>8, SetFoldIs
  <2> QED
    BY <2>1, <2>9, Zenon
<1>5. /\ Folded(<<>>, V, none, step) = none
      /\ \A s \in Seq(S) : Folded(s, V, none, step) \in V
      /\ \A s \in Seq(S), e \in S :
           Folded(Append(s, e), V, none, step) = step[e][Folded(s, V, none, step)]
  BY <1>1, <1>2, FoldedIs
<1>6. <<>> \in Seq(S) /\ \A s \in Seq(S), e \in S : Append(s, e) \in Seq(S)
  BY EmptySeq, AppendProperties
<1>7. toHTTPParams(<<>>) = none
  BY <1>4, <1>5, <1>6, Zenon
<1>8. \A s \in Seq(S) : toHTTPParams(s) \in V
  BY <1>4, <1>5, Zenon
<1>9. ASSUME NEW s \in Seq(S), NEW e \in S
      PROVE  toHTTPParams(Append(s, e)) = Added(toHTTPParams(s), e)
  <2>1. toHTTPParams(Append(s, e)) = step[e][toHTTPParams(s)]
    BY <1>4, <1>5, <1>6, Zenon
  <2> QED
    BY <1>3, <1>8, <2>1
<1> QED
  BY <1>7, <1>8, <1>9, Zenon DEF V, none

\* Of a copy the same is sent as of the parameters themselves.
LEMMA CopySaysTheSame ==
  ASSUME NEW S, NEW ps \in Seq(S)
  PROVE  toHTTPParams(copyParams(ps)) = toHTTPParams(ps)
<1> DEFINE T == {s \in Seq(S) : toHTTPParams(copyParams(s)) = toHTTPParams(s)}
<1>1. <<>> \in T
  BY EmptySeq, CopyGrows, Zenon
<1>2. ASSUME NEW s \in Seq(S), NEW e \in S, s \in T
      PROVE  Append(s, e) \in T
  <2>1. Append(s, e) \in Seq(S) /\ copyParams(s) \in Seq(S)
    BY AppendProperties, CopyGrows
  <2>2. /\ toHTTPParams(Append(s, e)) = Added(toHTTPParams(s), e)
        /\ toHTTPParams(Append(copyParams(s), e)) = Added(toHTTPParams(copyParams(s)), e)
    BY <2>1, ParamsGrow
  <2>3. copyParams(Append(s, e)) = IF e.type \in Types THEN Append(copyParams(s), e)
                                   ELSE copyParams(s)
    BY CopyGrows
  <2>4. e.type \notin Types => Added(toHTTPParams(s), e) = toHTTPParams(s)
    BY Zenon DEF Added
  <2> QED
    BY <1>2, <2>1, <2>2, <2>3, <2>4, Zenon
<1>3. Seq(S) \subseteq T
  <2> HIDE DEF T
  <2> QED
    BY <1>1, <1>2, SeqSetInduction
<1> QED
  BY <1>3

\* The indices in s of the parameters that are sent, and of those of a name.
Known(s) == {i \in 1 .. Len(s) : s[i].type \in Types}
KnownAs(s, n) == {i \in Known(s) : s[i].name = n}

\* The texts of a name are those of its parameters, the first one first.
AreTexts(texts, s, n) ==
  /\ texts # <<>>
  /\ \A i \in KnownAs(s, n) : \E k \in 1 .. Len(texts) : texts[k] = TextOf(s[i])
  /\ \A k \in 1 .. Len(texts) : \E i \in KnownAs(s, n) : texts[k] = TextOf(s[i])
  /\ \A i \in KnownAs(s, n) :
       (\A j \in KnownAs(s, n) : i <= j) => texts[1] = TextOf(s[i])

Holding(map, s) ==
  /\ DOMAIN map = {s[i].name : i \in Known(s)}
  /\ \A n \in DOMAIN map : AreTexts(map[n], s, n)

\* One more parameter.
LEMMA HoldingMore ==
  ASSUME NEW S, NEW s \in Seq(S), NEW e \in S, Holding(toHTTPParams(s), s)
  PROVE  Holding(toHTTPParams(Append(s, e)), Append(s, e))
<1> DEFINE t == Append(s, e)
           l == Len(s)
           map == toHTTPParams(s)
           more == toHTTPParams(t)
           N == {p.name : p \in S}
           T == {TextOf(p) : p \in S}
<1>1. /\ t \in Seq(S) /\ Len(t) = l + 1 /\ t[l + 1] = e
      /\ \A i \in 1 .. l : t[i] = s[i]
      /\ l \in Nat
  BY AppendProperties, LenProperties
<1>2. map \in Multimaps(N, T) /\ more = Added(map, e)
  BY ParamsGrow
<1>3. e.name \in N /\ TextOf(e) \in T
  BY Zenon
<1>4. Holding(map, s)
  OBVIOUS
<1> HIDE DEF t, l, map, more, N, T
<1>5. CASE e.type \notin Types
  <2>1. more = map
    BY <1>2, <1>5, Zenon DEF Added
  <2>2. Known(t) = Known(s)
    BY <1>1, <1>5 DEF Known, l
  <2>3. \A i \in Known(s) : t[i] = s[i]
    BY <1>1 DEF Known, l
  <2>4. \A n : KnownAs(t, n) = KnownAs(s, n)
    BY <2>2, <2>3 DEF KnownAs
  <2>5. {t[i].name : i \in Known(t)} = {s[i].name : i \in Known(s)}
    BY <2>2, <2>3
  <2>6. ASSUME NEW n, NEW texts, AreTexts(texts, s, n)
        PROVE  AreTexts(texts, t, n)
    <3>1. \A i \in KnownAs(s, n) : t[i] = s[i]
      BY <2>3 DEF KnownAs
    <3> QED
      BY <2>4, <2>6, <3>1 DEF AreTexts
  <2> QED
    BY <1>4, <2>1, <2>5, <2>6, Zenon DEF Holding, more, t
<1>6. CASE e.type \in Types
  <2> DEFINE name == e.name
             old == TextsAs(map, name)
  <2>1. more = emplace(map, name, TextOf(e))
    BY <1>2, <1>6, Zenon DEF Added
  <2>2. /\ DOMAIN more = DOMAIN map \cup {name}
        /\ \A n \in DOMAIN map : n # name => more[n] = map[n]
        /\ old \in Seq(T) /\ more[name] = Append(old, TextOf(e))
    <3> DEFINE text == TextOf(e)
    <3>1. name \in N /\ text \in T /\ map \in Multimaps(N, T)
      BY <1>2, <1>3
    <3>2. more = emplace(map, name, text)
      BY <2>1
    <3> HIDE DEF old, name, text
    <3>3. /\ DOMAIN emplace(map, name, text) = DOMAIN map \cup {name}
          /\ \A n \in DOMAIN map : n # name => emplace(map, name, text)[n] = map[n]
          /\ old \in Seq(T) /\ emplace(map, name, text)[name] = Append(old, text)
      <4>1. OneMore(T, map, name, text)
        BY <3>1, Emplacement, Zenon
      <4> QED
        BY <4>1, Zenon DEF old, OneMore
    <3> QED
      BY <3>2, <3>3, Zenon DEF text
  <2>3. Known(t) = Known(s) \cup {l + 1}
    BY <1>1, <1>6 DEF Known, l
  <2>4. /\ \A i \in Known(s) : t[i] = s[i] /\ i < l + 1 /\ i \in Nat
        /\ t[l + 1] = e
    BY <1>1 DEF Known, l
  <2>5. /\ KnownAs(t, name) = KnownAs(s, name) \cup {l + 1}
        /\ \A n : n # name => KnownAs(t, n) = KnownAs(s, n)
        /\ \A n : \A i \in KnownAs(s, n) : t[i] = s[i] /\ i < l + 1 /\ i \in Nat
    BY <2>3, <2>4 DEF KnownAs
  <2>6. DOMAIN more = {t[i].name : i \in Known(t)}
    <3>1. {t[i].name : i \in Known(t)} = {s[i].name : i \in Known(s)} \cup {name}
      BY <2>3, <2>4
    <3>2. DOMAIN map = {s[i].name : i \in Known(s)}
      BY <1>4 DEF Holding
    <3> QED
      BY <2>2, <3>1, <3>2, Zenon
  <2>7. ASSUME NEW n \in DOMAIN more, n # name
        PROVE  AreTexts(more[n], t, n)
    <3>1. n \in DOMAIN map /\ more[n] = map[n]
      BY <2>2, <2>7
    <3>2. AreTexts(map[n], s, n)
      BY <1>4, <3>1 DEF Holding
    <3> QED
      BY <2>5, <2>7, <3>1, <3>2 DEF AreTexts
  <2>8. AreTexts(more[name], t, name)
    <3> DEFINE texts == more[name]
               m == Len(old)
    <3>1. /\ m \in Nat /\ Len(texts) = m + 1 /\ texts[m + 1] = TextOf(e)
          /\ \A k \in 1 .. m : texts[k] = old[k]
      <4>1. TextOf(e) \in T
        BY <1>3
      <4> HIDE DEF old
      <4> QED
        BY <2>2, <4>1, AppendProperties, LenProperties
    <3>2. texts # <<>>
      BY <3>1
    <3>3. CASE name \in DOMAIN map
      <4>1. old = map[name] /\ AreTexts(old, s, name)
        BY <1>4, <3>3 DEF Holding, TextsAs
      <4> HIDE DEF old, texts, name, m
      <4>2. m \in Nat /\ m # 0
        BY <2>2, <3>1, <4>1, EmptySeq DEF AreTexts, m
      <4>3. ASSUME NEW i \in KnownAs(t, name)
            PROVE  \E k \in 1 .. Len(texts) : texts[k] = TextOf(t[i])
        <5>1. CASE i = l + 1
          BY <2>4, <3>1, <5>1
        <5>2. CASE i \in KnownAs(s, name)
          <6>1. PICK k \in 1 .. m : old[k] = TextOf(s[i])
            BY <4>1, <5>2 DEF AreTexts, m
          <6>2. k \in 1 .. Len(texts) /\ texts[k] = TextOf(t[i])
            BY <2>5, <3>1, <5>2, <6>1
          <6> QED
            BY <6>2
        <5> QED
          BY <2>5, <5>1, <5>2
      <4>4. ASSUME NEW k \in 1 .. Len(texts)
            PROVE  \E i \in KnownAs(t, name) : texts[k] = TextOf(t[i])
        <5>1. CASE k = m + 1
          BY <2>4, <2>5, <3>1, <5>1
        <5>2. CASE k \in 1 .. m
          <6>1. PICK i \in KnownAs(s, name) : old[k] = TextOf(s[i])
            BY <4>1, <5>2 DEF AreTexts, m
          <6> QED
            BY <2>5, <3>1, <5>2, <6>1
        <5> QED
          BY <3>1, <5>1, <5>2
      <4>5. ASSUME NEW i \in KnownAs(t, name), \A j \in KnownAs(t, name) : i <= j
            PROVE  texts[1] = TextOf(t[i])
        <5>1. PICK j \in KnownAs(s, name) : TRUE
          <6>1. 1 \in 1 .. m
            BY <4>2
          <6> QED
            BY <4>1, <6>1 DEF AreTexts, m
        <5>2. i <= j /\ j < l + 1 /\ j \in Nat
          BY <2>5, <4>5
        <5>3. i \in KnownAs(s, name)
          BY <1>1, <2>5, <5>2
        <5>4. old[1] = TextOf(s[i])
          BY <2>5, <4>1, <4>5, <5>3 DEF AreTexts
        <5> QED
          BY <2>5, <3>1, <4>2, <5>3, <5>4
      <4> QED
        BY <3>2, <4>3, <4>4, <4>5 DEF AreTexts, texts
    <3>4. CASE name \notin DOMAIN map
      <4>1. old = <<>>
        BY <3>4 DEF TextsAs
      <4>2. KnownAs(s, name) = {}
        BY <1>4, <3>4 DEF Holding, KnownAs
      <4> HIDE DEF old, texts, name
      <4>3. m = 0
        BY <4>1, EmptySeq
      <4>4. KnownAs(t, name) = {l + 1}
        BY <2>5, <4>2
      <4>5. \A k \in 1 .. Len(texts) : k = 1
        BY <3>1, <4>3
      <4>6. 1 \in 1 .. Len(texts) /\ texts[1] = TextOf(t[l + 1])
        BY <2>4, <3>1, <4>3
      <4> QED
        BY <3>2, <4>4, <4>5, <4>6 DEF AreTexts, texts
    <3> QED
      BY <3>3, <3>4
  <2> HIDE DEF name
  <2> QED
    BY <2>6, <2>7, <2>8, Zenon DEF Holding, more, t
<1> QED
  BY <1>5, <1>6

\* The multimap holds the texts of the parameters.
LEMMA ParamsHold ==
  ASSUME NEW S, NEW ps \in Seq(S)
  PROVE  Holding(toHTTPParams(ps), ps)
<1> DEFINE T == {s \in Seq(S) : Holding(toHTTPParams(s), s)}
<1>1. <<>> \in T
  <2>1. toHTTPParams(<<>>) = NoParams /\ <<>> \in Seq(S) /\ Len(<<>>) = 0
    BY ParamsGrow, EmptySeq
  <2>2. DOMAIN NoParams = {}
    BY DEF NoParams
  <2>3. Known(<<>>) = {}
    BY <2>1 DEF Known
  <2>4. {<<>>[i].name : i \in Known(<<>>)} = {}
    BY <2>3
  <2>5. Holding(NoParams, <<>>)
    BY <2>2, <2>4 DEF Holding
  <2> QED
    BY <2>1, <2>5, Zenon
<1>2. \A s \in Seq(S), e \in S : s \in T => Append(s, e) \in T
  BY HoldingMore, AppendProperties
<1>3. Seq(S) \subseteq T
  <2> HIDE DEF T
  <2> QED
    BY <1>1, <1>2, SeqSetInduction
<1> QED
  BY <1>3

\* A text that is kept unless it is there.
Keep(kept, t) == IF t \in ToSet(kept) THEN kept ELSE Append(kept, t)

LEMMA DistinctGrows ==
  ASSUME NEW S
  PROVE  /\ Distinct(<<>>) = <<>>
         /\ \A s \in Seq(S) : Distinct(s) \in Seq(S)
         /\ \A s \in Seq(S), e \in S : Distinct(Append(s, e)) = Keep(Distinct(s), e)
<1> DEFINE V == Seq(S)
           step == [e \in S |-> [v \in V |-> Keep(v, e)]]
           none == <<>>
<1>1. none \in V /\ \A v \in V, e \in S : Keep(v, e) \in V
  BY EmptySeq, AppendProperties DEF Keep
<1> HIDE DEF V, none
<1>2. step \in [S -> [V -> V]]
  BY <1>1
<1>3. \A e \in S, v \in V : step[e][v] = Keep(v, e)
  OBVIOUS
<1> HIDE DEF step
<1>4. ASSUME NEW s \in Seq(S)
      PROVE  Distinct(s) = Folded(s, V, none, step)
  <2> DEFINE Fold(g) == g = [u \in SUBSET DOMAIN s |->
                              IF u = {} THEN none
                              ELSE Keep(g[u \ {Max(u)}], s[Max(u)])]
             it == CHOOSE g : Fold(g)
  <2>1. Distinct(s) = it[DOMAIN s]
    BY Zenon DEF Distinct, FoldLeft, MapThenFoldSet, none, Keep
  <2>2. PICK g \in [SUBSET DOMAIN s -> V] : IsSetFold(g, s, none, step)
    BY <1>1, <1>2, SetFoldExists, Zenon
  <2>3. ASSUME NEW u \in SUBSET DOMAIN s, u # {}
        PROVE  s[Max(u)] \in S
    <3>1. Len(s) \in Nat /\ DOMAIN s = 1 .. Len(s)
      BY LenProperties
    <3>2. Max(u) \in 1 .. Len(s)
      BY <2>3, <3>1, MaxOfSubset, Zenon
    <3> QED
      BY <3>2, ElementOfSeq
  <2>4. ASSUME NEW u \in SUBSET DOMAIN s
        PROVE  g[u] = IF u = {} THEN none ELSE Keep(g[u \ {Max(u)}], s[Max(u)])
    <3>1. u # {} => g[u] = step[s[Max(u)]][g[u \ {Max(u)}]]
      BY <2>2 DEF IsSetFold
    <3>2. g[{}] = none /\ g[u \ {Max(u)}] \in V
      BY <2>2 DEF IsSetFold
    <3> QED
      BY <1>3, <2>3, <3>1, <3>2, Zenon
  <2>5. Fold(g)
    <3>1. g = [u \in SUBSET DOMAIN s |-> g[u]]
      OBVIOUS
    <3> QED
      BY <2>4, <3>1, Zenon
  <2>6. Fold(it)
    <3> HIDE DEF Fold
    <3> QED
      BY <2>5, Zenon
  <2>7. \A u \in SUBSET DOMAIN s :
          it[u] = IF u = {} THEN none ELSE Keep(it[u \ {Max(u)}], s[Max(u)])
    <3> HIDE DEF it
    <3> QED
      BY <2>6, Zenon
  <2> HIDE DEF it
  <2>8. FitsFold(it, s, V, none, step)
    BY <1>3, <2>3, <2>7, Zenon DEF FitsFold
  <2>9. it[DOMAIN s] = Folded(s, V, none, step)
    BY <1>1, <1>2, <2>8, SetFoldIs
  <2> QED
    BY <2>1, <2>9, Zenon
<1>5. /\ Folded(<<>>, V, none, step) = none
      /\ \A s \in Seq(S) : Folded(s, V, none, step) \in V
      /\ \A s \in Seq(S), e \in S :
           Folded(Append(s, e), V, none, step) = step[e][Folded(s, V, none, step)]
  BY <1>1, <1>2, FoldedIs
<1>6. <<>> \in Seq(S) /\ \A s \in Seq(S), e \in S : Append(s, e) \in Seq(S)
  BY EmptySeq, AppendProperties
<1>7. Distinct(<<>>) = none
  BY <1>4, <1>5, <1>6, Zenon
<1>8. \A s \in Seq(S) : Distinct(s) \in V
  BY <1>4, <1>5, Zenon
<1>9. ASSUME NEW s \in Seq(S), NEW e \in S
      PROVE  Distinct(Append(s, e)) = Keep(Distinct(s), e)
  <2>1. Distinct(Append(s, e)) = step[e][Distinct(s)]
    BY <1>4, <1>5, <1>6, Zenon
  <2> QED
    BY <1>3, <1>8, <2>1
<1> QED
  BY <1>7, <1>8, <1>9, Zenon DEF V, none

\* The kept texts are the same, each once, and the first is the first.
IsDistinct(d, s) ==
  /\ ToSet(d) = ToSet(s)
  /\ \A j, k \in 1 .. Len(d) : d[j] = d[k] => j = k
  /\ s # <<>> => d # <<>> /\ d[1] = s[1]

LEMMA DistinctIs ==
  ASSUME NEW S, NEW texts \in Seq(S)
  PROVE  IsDistinct(Distinct(texts), texts)
<1> DEFINE T == {s \in Seq(S) : IsDistinct(Distinct(s), s)}
<1>1. <<>> \in T
  <2>1. <<>> \in Seq(S) /\ Len(<<>>) = 0 /\ Distinct(<<>>) = <<>>
    BY EmptySeq, DistinctGrows
  <2>2. IsDistinct(<<>>, <<>>)
    BY <2>1 DEF IsDistinct
  <2> QED
    BY <2>1, <2>2, Zenon
<1>2. ASSUME NEW s \in Seq(S), NEW e \in S, s \in T
      PROVE  Append(s, e) \in T
  <2> DEFINE d == Distinct(s)
             t == Append(s, e)
             l == Len(d)
  <2>1. d \in Seq(S) /\ Distinct(t) = Keep(d, e) /\ IsDistinct(d, s)
    BY <1>2, DistinctGrows
  <2>2. /\ t \in Seq(S) /\ ToSet(t) = ToSet(s) \cup {e} /\ t # <<>>
        /\ s # <<>> => t[1] = s[1]
        /\ s = <<>> => t[1] = e
    <3>1. Range(t) = Range(s) \cup {e}
      BY RangeAppend
    <3>2. /\ t \in Seq(S) /\ Len(t) = Len(s) + 1 /\ t[Len(s) + 1] = e
          /\ \A i \in 1 .. Len(s) : t[i] = s[i]
          /\ Len(s) \in Nat
      BY AppendProperties, LenProperties
    <3>3. s = <<>> <=> Len(s) = 0
      BY EmptySeq
    <3>4. s # <<>> => 1 \in 1 .. Len(s)
      BY <3>2, <3>3
    <3>5. s = <<>> => t[1] = e
      BY <3>2, <3>3
    <3> HIDE DEF t
    <3>6. t # <<>>
      BY <3>2, EmptySeq
    <3>7. ToSet(t) = ToSet(s) \cup {e}
      BY <3>1, Zenon DEF Range, ToSet
    <3> QED
      BY <3>2, <3>4, <3>5, <3>6, <3>7
  <2>3. d # <<>> => l # 0
    BY <2>1, EmptySeq
  <2> HIDE DEF d, t
  <2>4. CASE e \in ToSet(d)
    <3>1. Distinct(t) = d /\ ToSet(t) = ToSet(d)
      BY <2>1, <2>2, <2>4 DEF Keep, IsDistinct
    <3>2. s # <<>>
      <4>1. s = <<>> => ToSet(s) = {}
        BY DEF ToSet
      <4> QED
        BY <2>1, <2>4, <4>1, Zenon DEF IsDistinct
    <3>3. IsDistinct(d, t)
      BY <2>1, <2>2, <3>1, <3>2, Zenon DEF IsDistinct
    <3> QED
      BY <2>2, <3>1, <3>3, Zenon DEF t
  <2>5. CASE e \notin ToSet(d)
    <3> DEFINE f == Append(d, e)
    <3>1. Distinct(t) = f
      BY <2>1, <2>5, Zenon DEF Keep
    <3>2. /\ f \in Seq(S) /\ Len(f) = l + 1 /\ f[l + 1] = e
          /\ \A i \in 1 .. l : f[i] = d[i]
          /\ l \in Nat /\ DOMAIN d = 1 .. l
      BY <2>1, AppendProperties, LenProperties
    <3>3. ToSet(f) = ToSet(d) \cup {e}
      <4>1. Range(f) = Range(d) \cup {e}
        BY <2>1, RangeAppend
      <4> QED
        BY <4>1, Zenon DEF Range, ToSet
    <3> HIDE DEF f, l
    <3>4. \A i \in 1 .. l : d[i] # e
      BY <2>5, <3>2 DEF ToSet
    <3>5. ASSUME NEW j \in 1 .. l + 1, NEW k \in 1 .. l + 1, f[j] = f[k]
          PROVE  j = k
      <4>1. CASE j = l + 1 \/ k = l + 1
        BY <3>2, <3>4, <3>5, <4>1
      <4>2. CASE j \in 1 .. l /\ k \in 1 .. l
        <5>1. d[j] = d[k]
          BY <3>2, <3>5, <4>2
        <5> QED
          BY <2>1, <4>2, <5>1 DEF IsDistinct, l
      <4> QED
        BY <3>2, <4>1, <4>2
    <3>6. f # <<>>
      BY <3>2, EmptySeq
    <3>7. CASE s # <<>>
      <4>1. d # <<>> /\ d[1] = s[1]
        BY <2>1, <3>7 DEF IsDistinct
      <4>2. f[1] = t[1]
        <5>1. 1 \in 1 .. l
          BY <2>3, <3>2, <4>1 DEF l
        <5> QED
          BY <2>2, <3>2, <3>7, <4>1, <5>1
      <4>3. IsDistinct(f, t)
        BY <2>1, <2>2, <3>2, <3>3, <3>5, <3>6, <4>2 DEF IsDistinct
      <4> QED
        BY <2>2, <3>1, <4>3, Zenon DEF t
    <3>8. CASE s = <<>>
      <4>1. ToSet(s) = {}
        BY <3>8 DEF ToSet
      <4>2. l = 0
        <5>1. ToSet(d) = {}
          BY <2>1, <4>1 DEF IsDistinct
        <5>2. l # 0 => d[1] \in ToSet(d)
          BY <3>2 DEF ToSet
        <5> QED
          BY <5>1, <5>2
      <4>3. f[1] = t[1]
        BY <2>2, <3>2, <3>8, <4>2
      <4>4. IsDistinct(f, t)
        BY <2>1, <2>2, <3>2, <3>3, <3>5, <3>6, <4>3 DEF IsDistinct
      <4> QED
        BY <2>2, <3>1, <4>4, Zenon DEF t
    <3> QED
      BY <3>7, <3>8
  <2> QED
    BY <2>4, <2>5
<1>3. Seq(S) \subseteq T
  <2> HIDE DEF T
  <2> QED
    BY <1>1, <1>2, SeqSetInduction
<1> QED
  BY <1>3

-----------------------------------------------------------------------------
(***************************************************************************)
(* What the server sees of a call.                                         *)
(***************************************************************************)

\* The parameters of a call are kept in the cache as a copy until they are sent, and
\* then they are in the request.
SeenInv ==
  /\ call # "idle" => \E i \in DOMAIN Calls : asked = Calls[i].params
  /\ call = "queued" => cache = copyParams(asked)
  /\ call = "sending" => ServerSeesTheCall /\ {"path", "params"} \subseteq DOMAIN req

LEMMA SeenStep ==
  ASSUME SeenInv, [CallNext]_allVars
  PROVE  SeenInv'
<1> USE DEF SeenInv
<1>1. ASSUME NEW i \in DOMAIN Calls, Get(Calls[i])
      PROVE  SeenInv'
  BY <1>1 DEF Get
<1>2. CASE CallerGoesOn \/ CallbackDone
  BY <1>2 DEF CallerGoesOn, CallbackDone, vars, ServerSeesTheCall, Handled
<1>3. CASE Send
  <2>1. /\ call = "queued" /\ call' = "sending" /\ UNCHANGED <<address, asked>>
        /\ req' = [method |-> "GET", path |-> address, params |-> toHTTPParams(cache)]
    BY <1>3 DEF Send, Receive
  <2>2. PICK i \in DOMAIN Calls : asked = Calls[i].params
    BY <2>1
  <2>3. toHTTPParams(cache) = toHTTPParams(asked)
    <3>1. asked \in Seq(ToSet(asked)) /\ cache = copyParams(asked)
      BY <2>1, <2>2, CallsAssumption
    <3> QED
      BY <3>1, CopySaysTheSame, Zenon
  <2>4. /\ pc' = "parse" /\ req'.path = address /\ req'.params = toHTTPParams(asked)
        /\ {"path", "params"} \subseteq DOMAIN req'
    BY <1>3, <2>1, <2>3 DEF Send, Receive
  <2> QED
    BY <2>1, <2>2, <2>4 DEF ServerSeesTheCall, Handled
<1>4. CASE SendFails \/ Answered
  BY <1>4 DEF SendFails, Answered
<1>5. CASE OtherRequest
  BY <1>5 DEF OtherRequest, callVars
<1>6. CASE ServerAnswers
  <2>1. UNCHANGED callVars
    BY <1>6 DEF ServerAnswers
  <2>2. call = "sending" => ServerSeesTheCall' /\ {"path", "params"} \subseteq DOMAIN req'
    <3> SUFFICES ASSUME call = "sending"
                 PROVE  ServerSeesTheCall' /\ {"path", "params"} \subseteq DOMAIN req'
      OBVIOUS
    <3>0. {"path", "params"} \subseteq DOMAIN req
      OBVIOUS
    <3>1. ServerSeesTheCall /\ UNCHANGED <<address, asked>>
      BY <2>1 DEF callVars
    <3> USE DEF ServerSeesTheCall, Handled
    <3>2. CASE Parse
      <4>1. /\ pc = "parse" /\ pc' = "route"
            /\ req' = [req EXCEPT !.params = parse_query_text(@)]
        BY <3>2 DEF Parse
      <4>2. req.params = toHTTPParams(asked) /\ req.path = address
        BY <3>0, <3>1, <4>1
      <4>3. /\ req'.params = parse_query_text(req.params) /\ req'.path = req.path
            /\ DOMAIN req' = DOMAIN req
        BY <3>0, <4>1
      <4> QED
        BY <3>0, <3>1, <4>1, <4>2, <4>3
    <3>3. CASE RefuseLine \/ RefuseRoute
      <4>1. req' = req /\ pc' = "write" /\ pc # "idle"
        BY <3>3 DEF RefuseLine, RefuseRoute, Refuse
      <4> QED
        BY <3>0, <3>1, <4>1
    <3>4. CASE Route \/ ExtractValue \/ SkipValue \/ MissValue \/ Extracted
      <4>1. req' = req /\ pc' # "parse" /\ Handled
        BY <3>4 DEF Route, ExtractValue, SkipValue, MissValue, Extracted
      <4> QED
        BY <3>0, <3>1, <4>1
    <3>5. CASE Call \/ CallThrows \/ SkipCall \/ Serve
      <4>1. req' = req /\ pc' # "parse" /\ Handled
        BY <3>5 DEF Call, CallThrows, SkipCall, Serve
      <4> QED
        BY <3>0, <3>1, <4>1
    <3>6. CASE WriteResponse
      <4>1. req' = req /\ pc' = "sent" /\ pc # "idle"
        BY <3>6 DEF WriteResponse
      <4> QED
        BY <3>0, <3>1, <4>1
    <3> QED
      BY <1>6, <3>2, <3>3, <3>4, <3>5, <3>6 DEF ServerAnswers, Answer
  <2> QED
    BY <2>1, <2>2 DEF callVars
<1>7. CASE UNCHANGED allVars
  BY <1>7 DEF allVars, vars, callVars, ServerSeesTheCall, Handled
<1> QED
  BY <1>1, <1>2, <1>3, <1>4, <1>5, <1>6, <1>7 DEF CallNext

LEMMA CopiedIsSeen == CallSpec => []SeenInv
<1>1. CallInit => SeenInv
  BY DEF CallInit, SeenInv
<1>2. SeenInv /\ [CallNext]_allVars => SeenInv'
  BY SeenStep
<1> QED
  BY <1>1, <1>2, PTL DEF CallSpec

\* What reaches the server are the parameters of the time of the call, whatever the
\* caller does with its own meanwhile: get() copies them before it returns, and a copy
\* loses nothing that would have been sent.
THEOREM CallReachesServer == CallSpec => []ServerSeesTheCall
<1>1. SeenInv => ServerSeesTheCall
  BY DEF SeenInv, ServerSeesTheCall
<1> QED
  BY <1>1, CopiedIsSeen, PTL

-----------------------------------------------------------------------------
(***************************************************************************)
(* The text of an array.                                                   *)
(***************************************************************************)

\* Where part j of a text begins, when the first j parts have l[j] tokens.
First(l, j) == IF j = 1 THEN 1 ELSE l[j - 1] + 2

\* The text t has the parts w[1], ..., w[k], each between its cuts.
PartsIn(t, w, l, k) ==
  /\ Len(t) = l[k]
  /\ \A i \in 1 .. k, j \in 1 .. k : i < j => l[i] + 1 < l[j]
  /\ \A j \in 1 .. k : First(l, j) \in 1 .. l[j]
  /\ Cuts(t) = {l[j] + 1 : j \in 1 .. k - 1}
  /\ \A j \in 1 .. k : SubSeq(t, First(l, j), l[j]) = w[j]

\* Where the cuts of a text are that got a separator and one more part.
LEMMA CutsMore ==
  ASSUME NEW W, NEW a \in Seq(W), NEW b \in Seq(W), mArraySeparator \in Seq(W),
         Cuts(b) = {}
  PROVE  /\ (a \o mArraySeparator) \o b \in Seq(W)
         /\ Len((a \o mArraySeparator) \o b) = Len(a) + 1 + Len(b)
         /\ Cuts((a \o mArraySeparator) \o b) = Cuts(a) \cup {Len(a) + 1}
<1> DEFINE h == a \o mArraySeparator
           g == h \o b
<1>1. Len(mArraySeparator) = 1 /\ Len(a) \in Nat /\ Len(b) \in Nat
  BY ValuesAssumption, LenProperties
<1>2. /\ h \in Seq(W) /\ Len(h) = Len(a) + Len(mArraySeparator)
      /\ \A x \in 1 .. Len(a) + Len(mArraySeparator) :
           h[x] = IF x <= Len(a) THEN a[x] ELSE mArraySeparator[x - Len(a)]
  BY ConcatProperties
<1> HIDE DEF h
<1>3. Len(h) = Len(a) + 1
  BY <1>1, <1>2
<1>4. /\ g \in Seq(W) /\ Len(g) = Len(h) + Len(b)
      /\ \A x \in 1 .. Len(h) + Len(b) : g[x] = IF x <= Len(h) THEN h[x] ELSE b[x - Len(h)]
  BY <1>2, ConcatProperties
<1> HIDE DEF g
<1>5. Len(g) = Len(a) + 1 + Len(b)
  BY <1>3, <1>4
<1>6. DOMAIN a = 1 .. Len(a) /\ DOMAIN b = 1 .. Len(b) /\ DOMAIN g = 1 .. Len(g)
  BY <1>4, LenProperties
<1>7. ASSUME NEW x \in 1 .. Len(g)
      PROVE  g[x] = mArraySeparator[1] <=> x \in Cuts(a) \/ x = Len(a) + 1
  <2>1. CASE x <= Len(a)
    <3>1. x \in 1 .. Len(a) /\ x \in 1 .. Len(a) + 1 /\ x # Len(a) + 1 /\ x <= Len(h)
      BY <1>1, <1>3, <2>1
    <3>2. g[x] = a[x]
      BY <1>1, <1>2, <1>3, <1>4, <1>5, <2>1, <3>1
    <3> QED
      BY <1>6, <3>1, <3>2 DEF Cuts
  <2>2. CASE x = Len(a) + 1
    <3>1. g[x] = h[x]
      BY <1>1, <1>3, <1>4, <1>5, <2>2
    <3>2. h[x] = mArraySeparator[1]
      <4>1. x \in 1 .. Len(a) + Len(mArraySeparator) /\ ~(x <= Len(a)) /\ x - Len(a) = 1
        BY <1>1, <2>2
      <4> QED
        BY <1>2, <4>1
    <3> QED
      BY <2>2, <3>1, <3>2
  <2>3. CASE x > Len(a) + 1
    <3>1. x - Len(h) \in 1 .. Len(b) /\ ~(x <= Len(h)) /\ x \in 1 .. Len(h) + Len(b)
      BY <1>1, <1>3, <1>5, <2>3
    <3>2. g[x] = b[x - Len(h)]
      BY <1>4, <3>1
    <3>3. b[x - Len(h)] # mArraySeparator[1]
      BY <1>6, <3>1 DEF Cuts
    <3>4. x \notin Cuts(a) /\ x # Len(a) + 1
      BY <1>1, <1>6, <2>3 DEF Cuts
    <3> QED
      BY <3>2, <3>3, <3>4
  <2> QED
    BY <1>1, <2>1, <2>2, <2>3
<1>8. \A x \in Cuts(a) \cup {Len(a) + 1} : x \in 1 .. Len(g)
  BY <1>1, <1>5, <1>6 DEF Cuts
<1>9. Cuts(g) = Cuts(a) \cup {Len(a) + 1}
  BY <1>6, <1>7, <1>8 DEF Cuts
<1> QED
  BY <1>4, <1>5, <1>9 DEF g, h

\* One more part is kept apart from those that are there.
LEMMA JoinStep ==
  ASSUME NEW W, mArraySeparator \in Seq(W),
         NEW k \in Nat \ {0}, NEW w, NEW l,
         \A j \in 1 .. k + 1 : l[j] \in Nat,
         NEW t \in Seq(W), PartsIn(t, w, l, k),
         NEW b \in Seq(W), b # <<>>, Cuts(b) = {},
         w[k + 1] = b, l[k + 1] = l[k] + 1 + Len(b)
  PROVE  PartsIn((t \o mArraySeparator) \o b, w, l, k + 1)
<1> DEFINE h == t \o mArraySeparator
           g == h \o b
<1>1. /\ g \in Seq(W) /\ Len(g) = Len(t) + 1 + Len(b) /\ Cuts(g) = Cuts(t) \cup {Len(t) + 1}
      /\ Len(b) \in Nat \ {0} /\ Len(t) \in Nat /\ Len(t) = l[k]
  <2>1. Len(b) \in Nat \ {0} /\ Len(t) \in Nat
    BY LenProperties, EmptySeq
  <2>2. Len(t) = l[k]
    BY DEF PartsIn
  <2> QED
    BY CutsMore, <2>1, <2>2
<1>2. h \in Seq(W) /\ Len(h) = Len(t) + 1
  <2>1. Len(mArraySeparator) = 1
    BY ValuesAssumption
  <2>2. h \in Seq(W) /\ Len(h) = Len(t) + Len(mArraySeparator)
    BY ConcatProperties
  <2> QED
    BY <2>1, <2>2
<1>3. SubSeq(g, Len(t) + 2, Len(t) + 1 + Len(b)) = b
  <2> HIDE DEF h
  <2>1. SubSeq(h \o b, Len(h) + 1, Len(h) + Len(b)) = b
    BY <1>2, EndOfConcat
  <2>2. Len(h) + 1 = Len(t) + 2 /\ Len(h) + Len(b) = Len(t) + 1 + Len(b)
    BY <1>1, <1>2
  <2> QED
    BY <2>1, <2>2, Zenon
<1>4. ASSUME NEW m \in 1 .. Len(t), NEW n \in 1 .. Len(t)
      PROVE  SubSeq(g, m, n) = SubSeq(t, m, n)
  <2>1. m \in 1 .. Len(h) /\ n \in 1 .. Len(h)
    BY <1>1, <1>2
  <2>2. SubSeq(h \o b, m, n) = SubSeq(h, m, n)
    <3> HIDE DEF h
    <3> QED
      BY <1>2, <2>1, SubSeqOfConcat1
  <2>3. SubSeq(h, m, n) = SubSeq(t, m, n)
    BY SubSeqOfConcat1
  <2> QED
    BY <2>2, <2>3
<1> HIDE DEF g, h
<1>5. /\ 1 .. k + 1 = (1 .. k) \cup {k + 1}
      /\ 1 .. (k + 1) - 1 = (1 .. k - 1) \cup {k}
      /\ k \in 1 .. k /\ (k + 1) - 1 = k /\ k + 1 # 1
  OBVIOUS
<1>6. Len(g) = l[k + 1]
  BY <1>1
<1>7. ASSUME NEW i \in 1 .. k + 1, NEW j \in 1 .. k + 1, i < j
      PROVE  l[i] + 1 < l[j]
  <2>1. CASE j \in 1 .. k
    <3>1. i \in 1 .. k
      BY <1>7, <2>1
    <3> QED
      BY <1>7, <2>1, <3>1, Zenon DEF PartsIn
  <2>2. CASE j = k + 1
    <3>1. i \in 1 .. k /\ (i = k \/ i < k)
      BY <1>7, <2>2
    <3>2. i = k \/ l[i] + 1 < l[k]
      BY <1>5, <3>1, Zenon DEF PartsIn
    <3>3. l[i] \in Nat /\ l[k] \in Nat /\ l[j] = l[k] + 1 + Len(b)
      BY <2>2, <1>5
    <3> QED
      BY <1>1, <3>2, <3>3
  <2> QED
    BY <1>5, <2>1, <2>2
<1>8. ASSUME NEW j \in 1 .. k + 1
      PROVE  First(l, j) \in 1 .. l[j] /\ SubSeq(g, First(l, j), l[j]) = w[j]
  <2>1. CASE j = k + 1
    <3>1. First(l, j) = Len(t) + 2 /\ l[j] = Len(t) + 1 + Len(b)
      BY <1>1, <1>5, <2>1 DEF First
    <3>2. Len(t) + 2 \in 1 .. Len(t) + 1 + Len(b)
      BY <1>1
    <3> QED
      BY <1>3, <2>1, <3>1, <3>2, Zenon
  <2>2. CASE j \in 1 .. k
    <3>1. First(l, j) \in 1 .. l[j] /\ SubSeq(t, First(l, j), l[j]) = w[j]
      BY <2>2 DEF PartsIn
    <3>2. l[j] \in Nat /\ l[j] <= Len(t)
      <4>1. j = k \/ j < k
        BY <2>2
      <4>2. j = k \/ l[j] + 1 < l[k]
        BY <1>5, <2>2, <4>1, Zenon DEF PartsIn
      <4>3. l[j] \in Nat /\ l[k] \in Nat
        BY <1>5
      <4> QED
        BY <1>1, <4>2, <4>3
    <3>3. First(l, j) \in 1 .. Len(t) /\ l[j] \in 1 .. Len(t)
      BY <1>1, <3>1, <3>2
    <3> QED
      BY <1>4, <3>1, <3>3
  <2> QED
    BY <1>5, <2>1, <2>2
<1>9. Cuts(g) = {l[j] + 1 : j \in 1 .. (k + 1) - 1}
  <2>1. Cuts(t) = {l[j] + 1 : j \in 1 .. k - 1}
    BY DEF PartsIn
  <2>2. {l[j] + 1 : j \in (1 .. k - 1) \cup {k}} = {l[j] + 1 : j \in 1 .. k - 1} \cup {l[k] + 1}
    OBVIOUS
  <2> QED
    BY <1>1, <1>5, <2>1, <2>2
<1>10. PartsIn(g, w, l, k + 1)
  BY <1>6, <1>7, <1>8, <1>9, Zenon DEF PartsIn
<1> QED
  BY <1>10 DEF g, h

\* How many cuts there are in front of part k, and in all.
LEMMA CutsCounted ==
  ASSUME NEW n \in Nat \ {0}, NEW t, NEW w, NEW l,
         \A j \in 1 .. n : l[j] \in Nat,
         PartsIn(t, w, l, n),
         NEW k \in 1 .. n
  PROVE  /\ {l[i] + 1 : i \in 1 .. k - 1} = {x \in Cuts(t) : x < l[k] + 1}
         /\ Cardinality({l[i] + 1 : i \in 1 .. k - 1}) = k - 1
<1>1. \A i \in 1 .. n, j \in 1 .. n : i < j => l[i] + 1 < l[j]
  BY DEF PartsIn
<1>2. Cuts(t) = {l[j] + 1 : j \in 1 .. n - 1}
  BY DEF PartsIn
<1>3. {l[i] + 1 : i \in 1 .. k - 1} = {x \in Cuts(t) : x < l[k] + 1}
  <2>1. ASSUME NEW i \in 1 .. k - 1
        PROVE  l[i] + 1 \in Cuts(t) /\ l[i] + 1 < l[k] + 1
    <3>1. i \in 1 .. n - 1 /\ i \in 1 .. n /\ i < k
      OBVIOUS
    <3>2. l[i] \in Nat /\ l[k] \in Nat /\ l[i] + 1 < l[k]
      BY <1>1, <3>1
    <3> QED
      BY <1>2, <3>1, <3>2
  <2>2. ASSUME NEW j \in 1 .. n - 1, l[j] + 1 < l[k] + 1
        PROVE  j \in 1 .. k - 1
    <3>1. j \in 1 .. n /\ l[j] \in Nat /\ l[k] \in Nat
      OBVIOUS
    <3>2. ~(k < j) /\ j # k
      <4>1. CASE k < j
        <5>1. l[k] + 1 < l[j]
          BY <1>1, <3>1, <4>1
        <5> QED
          BY <2>2, <3>1, <5>1
      <4>2. CASE j = k
        BY <2>2, <3>1, <4>2
      <4> QED
        BY <4>1, <4>2
    <3> QED
      BY <3>1, <3>2
  <2> QED
    BY <1>2, <2>1, <2>2
<1>4. Cardinality({l[i] + 1 : i \in 1 .. k - 1}) = k - 1
  <2> DEFINE S == 1 .. k - 1
             C == {l[i] + 1 : i \in S}
             f == [i \in S |-> l[i] + 1]
  <2>1. \A i \in S : i \in 1 .. n /\ l[i] \in Nat
    OBVIOUS
  <2>2. ASSUME NEW i \in S, NEW j \in S, f[i] = f[j]
        PROVE  i = j
    <3>1. /\ i \in 1 .. n /\ j \in 1 .. n /\ l[i] \in Nat /\ l[j] \in Nat /\ l[i] = l[j]
      BY <2>1, <2>2
    <3>2. ~(i < j) /\ ~(j < i)
      <4>1. i < j => l[i] + 1 < l[j]
        BY <1>1, <3>1
      <4>2. j < i => l[j] + 1 < l[i]
        BY <1>1, <3>1
      <4> QED
        BY <3>1, <4>1, <4>2
    <3> QED
      BY <3>1, <3>2
  <2>3. f \in [S -> C] /\ \A c \in C : \E i \in S : f[i] = c
    OBVIOUS
  <2> HIDE DEF f, C
  <2>4. f \in Bijection(S, C)
    BY <2>2, <2>3 DEF Bijection, Injection, Surjection, IsInjective
  <2>5. IsFiniteSet(S) /\ Cardinality(S) = k - 1
    <3>1. k - 1 \in Int /\ 1 \in Int /\ k \in Nat \ {0}
      OBVIOUS
    <3>2. IsFiniteSet(1 .. k - 1) /\ Cardinality(1 .. k - 1) = IF 1 > k - 1 THEN 0 ELSE k - 1 - 1 + 1
      BY <3>1, FS_Interval
    <3> QED
      BY <3>1, <3>2
  <2>6. Cardinality(C) = Cardinality(S)
    BY <2>4, <2>5, FS_Bijection DEF ExistsBijection
  <2> QED
    BY <2>5, <2>6 DEF C
<1> QED
  BY <1>3, <1>4

\* The text comes apart into the parts that it was joined from.
LEMMA PartsComeApart ==
  ASSUME NEW n \in Nat \ {0}, NEW t, NEW w, NEW l,
         \A j \in 1 .. n : l[j] \in Nat,
         PartsIn(t, w, l, n)
  PROVE  /\ Cardinality(Cuts(t)) + 1 = n
         /\ \A k \in 1 .. n : Part(t, k) = w[k]
<1>1. Cuts(t) = {l[j] + 1 : j \in 1 .. n - 1} /\ Len(t) = l[n]
  BY DEF PartsIn
<1>2. Cardinality(Cuts(t)) + 1 = n
  <2>1. Cardinality(Cuts(t)) = n - 1
    BY <1>1, CutsCounted, n \in 1 .. n
  <2> QED
    BY <2>1
<1>3. ASSUME NEW k \in 1 .. n
      PROVE  Part(t, k) = w[k]
  <2> DEFINE Rank(x) == Cardinality({y \in Cuts(t) : y < x})
  <2>1. ASSUME NEW j \in 1 .. n - 1
        PROVE  l[j] + 1 \in Cuts(t) /\ Rank(l[j] + 1) = j - 1
    <3>1. j \in 1 .. n
      OBVIOUS
    <3>2. /\ {l[i] + 1 : i \in 1 .. j - 1} = {x \in Cuts(t) : x < l[j] + 1}
          /\ Cardinality({l[i] + 1 : i \in 1 .. j - 1}) = j - 1
      BY <3>1, CutsCounted
    <3>3. Rank(l[j] + 1) = j - 1
      BY <3>2, Zenon
    <3> QED
      BY <1>1, <3>3
  <2>2. ASSUME NEW j \in 1 .. n - 1
        PROVE  {x \in Cuts(t) : Rank(x) = j - 1} = {l[j] + 1}
    <3>1. ASSUME NEW i \in 1 .. n - 1, Rank(l[i] + 1) = j - 1
          PROVE  i = j
      BY <2>1, <3>1
    <3> HIDE DEF Rank
    <3> QED
      BY <1>1, <2>1, <3>1
  <2>3. {x \in Cuts(t) : Rank(x) = n - 1} = {}
    <3>1. ASSUME NEW i \in 1 .. n - 1
          PROVE  Rank(l[i] + 1) # n - 1
      BY <2>1
    <3> HIDE DEF Rank
    <3> QED
      BY <1>1, <3>1
  <2> DEFINE Bef == {x \in Cuts(t) : Rank(x) = k - 2}
             Aft == {x \in Cuts(t) : Rank(x) = k - 1}
             fst == IF k = 1 THEN 1 ELSE (CHOOSE x \in Bef : TRUE) + 1
             lst == IF Aft = {} THEN Len(t) ELSE (CHOOSE x \in Aft : TRUE) - 1
  <2>4. Part(t, k) = SubSeq(t, fst, lst)
    BY Zenon DEF Part
  <2>5. fst = First(l, k)
    <3>1. CASE k = 1
      BY <3>1 DEF First
    <3>2. CASE k # 1
      <4>1. k - 1 \in 1 .. n - 1 /\ (k - 1) - 1 = k - 2
        BY <3>2
      <4>2. Bef = {l[k - 1] + 1}
        <5> HIDE DEF Rank
        <5> QED
          BY <2>2, <4>1
      <4>3. \A x \in Bef : x = l[k - 1] + 1
        BY <4>2
      <4>4. (CHOOSE x \in Bef : TRUE) = l[k - 1] + 1
        <5> HIDE DEF Bef
        <5> QED
          BY <4>2
      <4>5. l[k - 1] \in Nat
        BY <4>1
      <4>6. l[k - 1] + 1 + 1 = l[k - 1] + 2
        BY <4>5
      <4>7. First(l, k) = l[k - 1] + 2
        BY <3>2, Zenon DEF First
      <4>8. fst = (CHOOSE x \in Bef : TRUE) + 1
        <5> HIDE DEF Bef
        <5> QED
          BY <3>2, Zenon
      <4> HIDE DEF Bef, fst
      <4> QED
        BY <4>4, <4>6, <4>7, <4>8, Zenon
    <3> QED
      BY <3>1, <3>2
  <2>6. lst = l[k]
    <3>1. CASE k = n
      <4>1. Aft = {}
        BY <2>3, <3>1
      <4> HIDE DEF Aft
      <4> QED
        BY <1>1, <3>1, <4>1
    <3>2. CASE k # n
      <4>1. k \in 1 .. n - 1
        BY <3>2
      <4>2. Aft = {l[k] + 1}
        BY <2>2, <4>1
      <4>3. l[k] \in Nat
        OBVIOUS
      <4> HIDE DEF Aft
      <4>4. (CHOOSE x \in Aft : TRUE) = l[k] + 1
        BY <4>2
      <4>5. lst = (CHOOSE x \in Aft : TRUE) - 1
        BY <4>2, Zenon
      <4>6. (l[k] + 1) - 1 = l[k]
        BY <4>3
      <4> HIDE DEF lst
      <4> QED
        BY <4>4, <4>5, <4>6, Zenon
    <3> QED
      BY <3>1, <3>2
  <2>7. SubSeq(t, First(l, k), l[k]) = w[k]
    BY DEF PartsIn
  <2> HIDE DEF fst, lst
  <2> QED
    BY <2>4, <2>5, <2>6, <2>7
<1> QED
  BY <1>2, <1>3

\* The text of the elements so far and the text of one more.
Joined(t, b) == (IF t # <<>> THEN t \o mArraySeparator ELSE t) \o b

\* f[i] is the text after the first i elements.
TextsSoFar(f, W, type, n, els) ==
  /\ f \in [0 .. n -> Seq(W)]
  /\ f[0] = <<>>
  /\ \A i \in 1 .. n : f[i] = Joined(f[i - 1], toHTTPParam(type, els[i]))
  /\ toHTTPParamArray(type, els) = f[n]

\* The loop of toHTTPParamArray.
LEMMA ArrayLoop ==
  ASSUME NEW W, mArraySeparator \in Seq(W),
         NEW type, NEW n \in Nat, NEW els, DOMAIN els = 1 .. n,
         \A i \in 1 .. n : toHTTPParam(type, els[i]) \in Seq(W)
  PROVE  \E f : TextsSoFar(f, W, type, n, els)
<1> DEFINE Shown(i) == toHTTPParam(type, els[i])
           Fold(g) == g = [s \in SUBSET DOMAIN els |->
                            IF s = {} THEN <<>>
                            ELSE Joined(g[s \ {Max(s)}], Shown(Max(s)))]
           it == CHOOSE g : Fold(g)
           f == [i \in 0 .. n |-> it[1 .. i]]
<1>1. toHTTPParamArray(type, els) = it[DOMAIN els]
  BY Zenon DEF toHTTPParamArray, FoldLeft, MapThenFoldSet, Joined
<1> HIDE DEF Shown
<1>2. ASSUME NEW v \in Seq(W), NEW i \in 1 .. n
      PROVE  Joined(v, Shown(i)) \in Seq(W)
  <2>1. Shown(i) \in Seq(W)
    BY DEF Shown
  <2> QED
    BY <2>1, ConcatProperties DEF Joined
<1>3. \E g : Fold(g)
  <2> DEFINE step == [i \in 1 .. n |-> [v \in Seq(W) |-> Joined(v, Shown(i))]]
  <2>1. step \in [1 .. n -> [Seq(W) -> Seq(W)]]
    BY <1>2
  <2>2. <<>> \in Seq(W)
    OBVIOUS
  <2>3. PICK g \in [SUBSET (1 .. n) -> Seq(W)] : IsFold(g, n, <<>>, step)
    <3> HIDE DEF step
    <3> QED
      BY <2>1, <2>2, SubsetRecursion
  <2>4. ASSUME NEW s \in SUBSET (1 .. n), s # {}
        PROVE  g[s] = Joined(g[s \ {Max(s)}], Shown(Max(s)))
    <3>1. Max(s) \in 1 .. n
      BY <2>4, MaxOfSubset
    <3>2. g[s \ {Max(s)}] \in Seq(W)
      OBVIOUS
    <3>3. g[s] = step[Max(s)][g[s \ {Max(s)}]]
      <4> HIDE DEF step
      <4> QED
        BY <2>3, <2>4 DEF IsFold
    <3> QED
      BY <3>1, <3>2, <3>3
  <2>5. g[{}] = <<>>
    BY <2>3 DEF IsFold
  <2>6. \A s \in SUBSET (1 .. n) :
          g[s] = IF s = {} THEN <<>> ELSE Joined(g[s \ {Max(s)}], Shown(Max(s)))
    BY <2>4, <2>5, Zenon
  <2>7. g = [s \in SUBSET (1 .. n) |-> g[s]]
    OBVIOUS
  <2>8. g = [s \in SUBSET (1 .. n) |->
              IF s = {} THEN <<>> ELSE Joined(g[s \ {Max(s)}], Shown(Max(s)))]
    BY <2>6, <2>7, Zenon
  <2> QED
    BY <2>8, Zenon
<1>4. Fold(it)
  <2> HIDE DEF Fold
  <2> QED
    BY <1>3, Zenon
<1>5. ASSUME NEW s \in SUBSET (1 .. n)
      PROVE  it[s] = IF s = {} THEN <<>> ELSE Joined(it[s \ {Max(s)}], Shown(Max(s)))
  <2> HIDE DEF it
  <2> QED
    BY <1>4, Zenon
<1> HIDE DEF it
<1>6. f[0] = <<>>
  <2>1. 1 .. 0 = {} /\ f[0] = it[1 .. 0] /\ {} \in SUBSET (1 .. n)
    OBVIOUS
  <2>2. it[{}] = <<>>
    BY <1>5, <2>1, Zenon
  <2> QED
    BY <2>1, <2>2
<1>7. ASSUME NEW i \in 1 .. n
      PROVE  f[i] = Joined(f[i - 1], Shown(i))
  <2>1. /\ 1 .. i \in SUBSET (1 .. n) /\ 1 .. i # {}
        /\ Max(1 .. i) = i /\ (1 .. i) \ {i} = 1 .. i - 1
    BY MaxOfInterval
  <2>2. it[1 .. i] = Joined(it[(1 .. i) \ {Max(1 .. i)}], Shown(Max(1 .. i)))
    BY <1>5, <2>1, Zenon
  <2>3. f[i] = it[1 .. i] /\ f[i - 1] = it[1 .. i - 1]
    OBVIOUS
  <2> HIDE DEF f
  <2> QED
    BY <2>1, <2>2, <2>3, Zenon
<1>8. f[n] = it[DOMAIN els]
  OBVIOUS
<1>9. f \in [0 .. n -> Seq(W)]
  <2> DEFINE T == {i \in Nat : i <= n => f[i] \in Seq(W)}
  <2> HIDE DEF f
  <2>1. 0 \in T
    <3>1. <<>> \in Seq(W)
      OBVIOUS
    <3>2. f[0] \in Seq(W)
      BY <1>6, <3>1, Zenon
    <3> QED
      BY <3>2
  <2>2. ASSUME NEW i \in Nat, i \in T
        PROVE  i + 1 \in T
    <3> SUFFICES ASSUME i + 1 <= n PROVE f[i + 1] \in Seq(W)
      OBVIOUS
    <3>1. f[i] \in Seq(W) /\ i + 1 \in 1 .. n /\ (i + 1) - 1 = i
      BY <2>2
    <3>2. f[i + 1] = Joined(f[(i + 1) - 1], Shown(i + 1))
      BY <1>7, <3>1
    <3>3. f[i + 1] = Joined(f[i], Shown(i + 1))
      BY <3>1, <3>2, Zenon
    <3> QED
      BY <1>2, <3>1, <3>3
  <2>3. Nat \subseteq T
    <3> HIDE DEF T
    <3> QED
      BY <2>1, <2>2, NatSetInduction
  <2>4. \A i \in 0 .. n : f[i] \in Seq(W)
    BY <2>3
  <2> QED
    BY <2>4 DEF f
<1> HIDE DEF f
<1> QED
  BY <1>1, <1>6, <1>7, <1>8, <1>9, Zenon DEF Shown, TextsSoFar

\* A text alone is its own first part.
LEMMA OnePart ==
  ASSUME NEW W, NEW b \in Seq(W), b # <<>>, Cuts(b) = {},
         NEW w, NEW l, w[1] = b, l[1] = Len(b)
  PROVE  PartsIn(b, w, l, 1)
<1>1. Len(b) \in Nat \ {0}
  BY LenProperties, EmptySeq
<1>2. SubSeq(b, 1, Len(b)) = b
  BY SubSeqFull
<1>3. First(l, 1) = 1
  BY DEF First
<1>4. {l[j] + 1 : j \in 1 .. 1 - 1} = {}
  OBVIOUS
<1>5. \A i \in 1 .. 1, j \in 1 .. 1 : ~(i < j)
  OBVIOUS
<1>6. \A j \in 1 .. 1 : First(l, j) \in 1 .. l[j] /\ SubSeq(b, First(l, j), l[j]) = w[j]
  <2> SUFFICES First(l, 1) \in 1 .. l[1] /\ SubSeq(b, First(l, 1), l[1]) = w[1]
    OBVIOUS
  <2>1. 1 \in 1 .. Len(b)
    BY <1>1
  <2> QED
    BY <1>2, <1>3, <2>1, Zenon
<1> QED
  BY <1>4, <1>5, <1>6, Zenon DEF PartsIn

\* The elements' texts can be told apart: none is empty or has a separator in it.
TextsApart(W, type, n, els) ==
  /\ DOMAIN els = 1 .. n
  /\ \A i \in 1 .. n : /\ toHTTPParam(type, els[i]) \in Seq(W)
                       /\ toHTTPParam(type, els[i]) # <<>>
                       /\ Cuts(toHTTPParam(type, els[i])) = {}

\* The text of an array comes apart into the texts of its n elements.
ComesApart(type, n, els) ==
  /\ Cardinality(Cuts(toHTTPParamArray(type, els))) + 1 = n
  /\ \A k \in 1 .. n : Part(toHTTPParamArray(type, els), k) = toHTTPParam(type, els[k])

LEMMA ArrayComesApart ==
  ASSUME NEW W, mArraySeparator \in Seq(W),
         NEW type, NEW n \in Nat \ {0}, NEW els, TextsApart(W, type, n, els)
  PROVE  ComesApart(type, n, els)
<1>1. PICK f : TextsSoFar(f, W, type, n, els)
  <2>1. /\ n \in Nat /\ DOMAIN els = 1 .. n
        /\ \A i \in 1 .. n : toHTTPParam(type, els[i]) \in Seq(W)
    BY DEF TextsApart
  <2> QED
    BY <2>1, ArrayLoop
<1> USE DEF TextsSoFar, TextsApart
<1> DEFINE w == [j \in 1 .. n |-> toHTTPParam(type, els[j])]
           l == [j \in 1 .. n |-> Len(f[j])]
           T == {k \in Nat : k \in 1 .. n => f[k] # <<>> /\ PartsIn(f[k], w, l, k)}
<1>2. ASSUME NEW k \in 1 .. n
      PROVE  f[k] \in Seq(W) /\ l[k] = Len(f[k]) /\ l[k] \in Nat
  <2>1. f[k] \in Seq(W)
    BY <1>1
  <2>2. Len(f[k]) \in Nat
    BY <2>1, LenProperties
  <2> QED
    BY <2>1, <2>2
<1>3. ASSUME NEW k \in 1 .. n
      PROVE  /\ w[k] \in Seq(W) /\ w[k] # <<>> /\ Cuts(w[k]) = {}
             /\ f[k] = Joined(f[k - 1], w[k])
             /\ w[k] = toHTTPParam(type, els[k])
  <2>1. w[k] = toHTTPParam(type, els[k])
    OBVIOUS
  <2> HIDE DEF w
  <2> QED
    BY <1>1, <2>1, Zenon
<1> HIDE DEF w, l
<1>4. ASSUME NEW k \in Nat, k \in T, k + 1 \in 1 .. n
      PROVE  f[k + 1] # <<>> /\ PartsIn(f[k + 1], w, l, k + 1)
  <2>1. (k + 1) - 1 = k
    OBVIOUS
  <2>2. f[k + 1] = Joined(f[k], w[k + 1])
    BY <1>3, <1>4, <2>1, Zenon
  <2>3. CASE k = 0
    <3>1. f[1] = w[1] /\ 1 \in 1 .. n
      <4>1. 1 \in 1 .. n /\ 0 + 1 = 1
        OBVIOUS
      <4>2. f[1] = Joined(f[0], w[1])
        BY <2>2, <2>3, <4>1, Zenon
      <4>3. f[1] = <<>> \o w[1]
        BY <1>1, <4>2, Zenon DEF Joined
      <4>4. w[1] \in Seq(W)
        BY <1>3, <4>1
      <4> QED
        BY <4>1, <4>3, <4>4, ConcatEmptySeq
    <3>2. PartsIn(w[1], w, l, 1) /\ w[1] # <<>>
      <4>1. w[1] \in Seq(W) /\ w[1] # <<>> /\ Cuts(w[1]) = {}
        BY <1>3, <3>1, Zenon
      <4>2. l[1] = Len(w[1])
        BY <1>2, <3>1, Zenon
      <4> QED
        BY <4>1, <4>2, OnePart
    <3>3. k + 1 = 1
      BY <2>3
    <3> QED
      BY <3>1, <3>2, <3>3, Zenon
  <2>4. CASE k # 0
    <3>1. k \in 1 .. n /\ k \in Nat \ {0} /\ \A j \in 1 .. k + 1 : j \in 1 .. n
      BY <1>4, <2>4
    <3>2. f[k] # <<>> /\ PartsIn(f[k], w, l, k)
      BY <1>4, <3>1
    <3>3. f[k + 1] = (f[k] \o mArraySeparator) \o w[k + 1]
      BY <2>2, <3>2, Zenon DEF Joined
    <3>4. f[k] \in Seq(W) /\ w[k + 1] \in Seq(W) /\ w[k + 1] # <<>> /\ Cuts(w[k + 1]) = {}
      BY <1>2, <1>3, <1>4, <3>1, Zenon
    <3>5. l[k + 1] = l[k] + 1 + Len(w[k + 1]) /\ Len(f[k + 1]) # 0
      <4>1. Len((f[k] \o mArraySeparator) \o w[k + 1]) = Len(f[k]) + 1 + Len(w[k + 1])
        BY <3>4, CutsMore
      <4>2. l[k] = Len(f[k]) /\ l[k + 1] = Len(f[k + 1])
        BY <1>2, <1>4, <3>1, Zenon
      <4>3. l[k + 1] = l[k] + 1 + Len(w[k + 1])
        BY <3>3, <4>1, <4>2, Zenon
      <4>4. l[k] \in Nat /\ Len(w[k + 1]) \in Nat
        BY <1>2, <3>1, <3>4, LenProperties
      <4>5. \A x \in Nat, y \in Nat : x + 1 + y # 0
        OBVIOUS
      <4>6. Len(f[k + 1]) # 0
        BY <4>2, <4>3, <4>4, <4>5, Zenon
      <4> QED
        BY <4>3, <4>6
    <3>6. PartsIn((f[k] \o mArraySeparator) \o w[k + 1], w, l, k + 1)
      <4>1. \A j \in 1 .. k + 1 : l[j] \in Nat
        BY <1>2, <3>1, Zenon
      <4> QED
        BY <3>1, <3>2, <3>4, <3>5, <4>1, JoinStep
    <3>7. f[k + 1] # <<>>
      BY <3>5
    <3> QED
      BY <3>3, <3>6, <3>7, Zenon
  <2> QED
    BY <2>3, <2>4
<1>5. n \in T
  <2>1. 0 \in T
    OBVIOUS
  <2>2. \A k \in Nat : k \in T => k + 1 \in T
    BY <1>4
  <2> HIDE DEF T
  <2> QED
    BY <2>1, <2>2, NatSetInduction
<1>6. PartsIn(f[n], w, l, n)
  BY <1>5
<1>7. \A j \in 1 .. n : l[j] \in Nat
  BY <1>2
<1>8. /\ Cardinality(Cuts(f[n])) + 1 = n
      /\ \A k \in 1 .. n : Part(f[n], k) = w[k]
  BY <1>6, <1>7, PartsComeApart
<1> QED
  BY <1>1, <1>3, <1>8, Zenon DEF ComesApart

-----------------------------------------------------------------------------
(***************************************************************************)
(* The text of one value.                                                  *)
(***************************************************************************)

\* Dividing by a positive number.
LEMMA Division ==
  ASSUME NEW a \in Nat, NEW b \in Nat \ {0}
  PROVE  /\ a \div b \in Nat
         /\ (a \div b) * b <= a /\ a < (a \div b) * b + b
OBVIOUS

\* A number is rounded by half a unit at most.
LEMMA RoundIsClose ==
  ASSUME NEW x \in Int, NEW d \in Nat \ {0}
  PROVE  Round(x, d) \in Int /\ 2 * (Round(x, d) - x) \in -d .. d
<1>1. ASSUME NEW a \in Nat
      PROVE  /\ ((2 * a + d) \div (2 * d)) * d \in Int
             /\ 2 * (((2 * a + d) \div (2 * d)) * d - a) \in -d .. d
  <2> DEFINE q == (2 * a + d) \div (2 * d)
  <2>1. 2 * a + d \in Nat /\ 2 * d \in Nat \ {0}
    OBVIOUS
  <2>2. q \in Nat /\ q * (2 * d) <= 2 * a + d /\ 2 * a + d < q * (2 * d) + 2 * d
    <3> DEFINE n == 2 * a + d
               m == 2 * d
    <3> HIDE DEF n, m
    <3>1. n \in Nat /\ m \in Nat \ {0}
      BY <2>1 DEF n, m
    <3>2. n \div m \in Nat /\ (n \div m) * m <= n /\ n < (n \div m) * m + m
      BY <3>1, Division
    <3> QED
      BY <3>2 DEF n, m
  <2> HIDE DEF q
  <2>3. q * d \in Int /\ q * (2 * d) = 2 * (q * d)
    BY <2>2
  <2> DEFINE r == q * d
  <2>4. r \in Int /\ 2 * r <= 2 * a + d /\ 2 * a + d < 2 * r + 2 * d
    BY <2>2, <2>3
  <2> HIDE DEF r
  <2>5. 2 * (r - a) \in -d .. d
    BY <2>4
  <2> QED
    BY <2>3, <2>5 DEF q, r
<1>2. CASE x >= 0
  BY <1>1, <1>2 DEF Round
<1>3. CASE ~(x >= 0)
  <2> DEFINE r == ((2 * (-x) + d) \div (2 * d)) * d
  <2>1. -x \in Nat /\ 2 * (-x) + d = d - 2 * x
    BY <1>3
  <2>2. r \in Int /\ 2 * (r - (-x)) \in -d .. d
    BY <1>1, <2>1
  <2>3. Round(x, d) = -r
    BY <1>3, <2>1, Zenon DEF Round
  <2> HIDE DEF r
  <2>4. -r \in Int /\ 2 * ((-r) - x) \in -d .. d
    BY <2>2
  <2> QED
    BY <2>3, <2>4, Zenon
<1> QED
  BY <1>2, <1>3

\* The text of a value says the value; a number is one token.
LEMMA TextOfValue ==
  ASSUME NEW type \in Types, NEW v, Holds(type, v)
  PROVE  /\ Says(type, toHTTPParam(type, v), v)
         /\ type = "string" => toHTTPParam(type, v) = v
         /\ type # "string" => \E m \in Int : toHTTPParam(type, v) = <<Number(m)>>
<1>0. Unit \in Nat \ {0} /\ Decimal6 \in Nat \ {0}
  BY ValuesAssumption
<1>1. CASE type \in {"int", "long"}
  <2>1. toHTTPParam(type, v) = <<Number(v * Unit)>>
    BY <1>1 DEF toHTTPParam
  <2>2. v \in Int
    BY <1>1 DEF Holds
  <2>3. v * Unit \in Int
    BY <1>0, <2>2
  <2>4. Says(type, toHTTPParam(type, v), v)
    BY <1>1, <2>1 DEF Says
  <2>5. type # "string"
    BY <1>1
  <2> QED
    BY <2>1, <2>3, <2>4, <2>5
<1>2. CASE type \in {"float", "double"}
  <2>1. toHTTPParam(type, v) = <<Number(Round(v, Decimal6))>>
    BY <1>2 DEF toHTTPParam
  <2>2. v \in Int
    BY <1>2 DEF Holds
  <2>3. Round(v, Decimal6) \in Int /\ 2 * (Round(v, Decimal6) - v) \in -Decimal6 .. Decimal6
    BY <1>0, <2>2, RoundIsClose
  <2>4. /\ Len(<<Number(Round(v, Decimal6))>>) = 1
        /\ <<Number(Round(v, Decimal6))>>[1][2] = Round(v, Decimal6)
    BY DEF Number
  <2>5. Says(type, toHTTPParam(type, v), v)
    BY <1>2, <2>1, <2>3, <2>4 DEF Says
  <2>6. type # "string"
    BY <1>2
  <2> QED
    BY <2>1, <2>3, <2>5, <2>6
<1>3. CASE type = "bool"
  <2>1. toHTTPParam(type, v) = <<Number(IF v THEN Unit ELSE 0)>>
    BY <1>3 DEF toHTTPParam
  <2>2. (IF v THEN Unit ELSE 0) \in Int
    BY <1>0
  <2>3. Says(type, toHTTPParam(type, v), v)
    BY <1>3, <2>1 DEF Says
  <2> QED
    BY <1>3, <2>1, <2>2, <2>3
<1>4. CASE type = "string"
  BY <1>4 DEF toHTTPParam, Says
<1> QED
  BY <1>1, <1>2, <1>3, <1>4 DEF Types

\* The text of an array whose elements can be told apart says what they are.
LEMMA TextOfArray ==
  ASSUME NEW p, p.type \in Types, p.value \in Seq(ToSet(p.value)),
         \A v \in ToSet(p.value) : Holds(p.type, v),
         Separable(p), p.value # <<>>
  PROVE  LET text == toHTTPParamArray(p.type, p.value) IN
           /\ Cardinality(Cuts(text)) + 1 = Len(p.value)
           /\ \A k \in DOMAIN p.value : Says(p.type, Part(text, k), p.value[k])
<1> DEFINE type == p.type
           els == p.value
           n == Len(els)
           W == ToSet(mArraySeparator) \cup {Number(m) : m \in Int}
                  \cup UNION {ToSet(v) : v \in ToSet(els)}
<1>1. n \in Nat \ {0} /\ DOMAIN els = 1 .. n
  BY LenProperties, EmptySeq
<1>2. mArraySeparator \in Seq(W)
  <2>1. mArraySeparator \in Seq(ToSet(mArraySeparator))
    BY ValuesAssumption
  <2>2. ToSet(mArraySeparator) \subseteq W
    BY Zenon
  <2> HIDE DEF W
  <2> QED
    BY <2>1, <2>2, SeqOfMore
<1>3. ASSUME NEW k \in 1 .. n
      PROVE  els[k] \in ToSet(els) /\ Holds(type, els[k])
  BY <1>1 DEF ToSet
<1>4. ASSUME NEW k \in 1 .. n
      PROVE  /\ toHTTPParam(type, els[k]) \in Seq(W)
             /\ toHTTPParam(type, els[k]) # <<>>
             /\ Cuts(toHTTPParam(type, els[k])) = {}
  <2>1. /\ type = "string" => toHTTPParam(type, els[k]) = els[k]
        /\ type # "string" => \E m \in Int : toHTTPParam(type, els[k]) = <<Number(m)>>
    <3> HIDE DEF type, els
    <3> QED
      BY <1>3, TextOfValue, type \in Types DEF type
  <2>2. CASE type = "string"
    <3>1. els[k] \in Seq(ToSet(els[k]))
      BY <1>3, <2>2, Zenon DEF Holds
    <3>2. ToSet(els[k]) \subseteq W
      BY <1>3, Zenon
    <3>3. els[k] # <<>> /\ Cuts(els[k]) = {}
      BY <1>1, <2>2, Zenon DEF Separable
    <3> HIDE DEF W
    <3>4. els[k] \in Seq(W)
      BY <3>1, <3>2, SeqOfMore
    <3> HIDE DEF type, els
    <3> QED
      BY <2>1, <2>2, <3>3, <3>4, Zenon
  <2>3. CASE type # "string"
    <3>1. PICK m \in Int : toHTTPParam(type, els[k]) = <<Number(m)>>
      BY <2>1, <2>3
    <3>2. Number(m) \in W
      BY Zenon
    <3>3. <<Number(m)>> \in Seq(W) /\ <<Number(m)>> # <<>>
      <4> HIDE DEF W
      <4> QED
        BY <3>2
    <3>4. Cuts(<<Number(m)>>) = {}
      <4>1. Number(m)[1] = "number"
        BY DEF Number
      <4>2. mArraySeparator[1][1] # "number"
        BY ValuesAssumption
      <4>3. Number(m) # mArraySeparator[1]
        BY <4>1, <4>2, Zenon
      <4>4. DOMAIN <<Number(m)>> = {1} /\ <<Number(m)>>[1] = Number(m)
        OBVIOUS
      <4> QED
        BY <4>3, <4>4 DEF Cuts
    <3> QED
      BY <3>1, <3>3, <3>4, Zenon
  <2> QED
    BY <2>2, <2>3
<1> DEFINE text == toHTTPParamArray(type, els)
<1>5. /\ Cardinality(Cuts(text)) + 1 = n
      /\ \A k \in 1 .. n : Part(text, k) = toHTTPParam(type, els[k])
  <2> HIDE DEF type, els, W, n
  <2>1. TextsApart(W, type, n, els)
    BY <1>1, <1>4, Zenon DEF TextsApart
  <2>2. ComesApart(type, n, els)
    BY <1>1, <1>2, <2>1, ArrayComesApart
  <2> QED
    BY <2>2, Zenon DEF ComesApart
<1>6. ASSUME NEW k \in 1 .. n
      PROVE  Says(type, Part(text, k), els[k])
  <2>1. Says(type, toHTTPParam(type, els[k]), els[k])
    <3> HIDE DEF type, els
    <3> QED
      BY <1>3, TextOfValue, type \in Types DEF type
  <2> HIDE DEF text
  <2> QED
    BY <1>5, <2>1, Zenon
<1> QED
  BY <1>1, <1>5, <1>6, Zenon

\* What the handler reads says what the caller meant, although parameters are reordered
\* by name and repetitions are dropped on the way: every value is said, the first of
\* its name where get_param_value looks, nothing else is, and an array whose elements
\* can be told apart comes apart into them.
THEOREM TextsSayValues == CallSpec => []TextSaysValue
<1>1. SeenInv => TextSaysValue
  <2> SUFFICES ASSUME SeenInv, call = "sending", Handled
               PROVE  TextSaysValue
    BY DEF TextSaysValue
  <2>1. PICK c \in DOMAIN Calls : asked = Calls[c].params
    BY DEF SeenInv
  <2> DEFINE S == ToSet(asked)
             sent == toHTTPParams(asked)
             got == req.params
             Given == {i \in DOMAIN asked : asked[i].type \in Types /\ asked[i].name # ""}
             Named(n) == {i \in Given : asked[i].name = n}
  <2>2. /\ asked \in Seq(S)
        /\ \A p \in S :
             IF p.array THEN /\ p.value \in Seq(ToSet(p.value))
                             /\ \A v \in ToSet(p.value) : p.type \in Types => Holds(p.type, v)
                        ELSE p.type \in Types => Holds(p.type, p.value)
    BY <2>1, CallsAssumption, Zenon
  <2>3. DOMAIN asked = 1 .. Len(asked) /\ \A i \in DOMAIN asked : asked[i] \in S
    BY <2>2, LenProperties, ElementOfSeq
  <2>4. got = [n \in DOMAIN sent \ {""} |-> Distinct(sent[n])]
    BY Zenon DEF SeenInv, ServerSeesTheCall, parse_query_text
  <2>5. Holding(sent, asked)
    BY <2>2, ParamsHold
  <2>6. \A n \in DOMAIN sent : sent[n] \in Seq({TextOf(p) : p \in S})
    <3>1. sent \in Multimaps({p.name : p \in S}, {TextOf(p) : p \in S})
      BY <2>2, ParamsGrow
    <3> HIDE DEF sent, S
    <3> QED
      BY <3>1 DEF Multimaps
  <2>7. ASSUME NEW p \in S, p.type \in Types
        PROVE  SaysParam(TextOf(p), p)
    <3> DEFINE text == TextOf(p)
    <3>1. CASE p.array
      <4>1. text = toHTTPParamArray(p.type, p.value)
        BY <3>1, Zenon DEF TextOf
      <4>2. /\ p.value \in Seq(ToSet(p.value))
            /\ \A v \in ToSet(p.value) : Holds(p.type, v)
        BY <2>2, <2>7, <3>1, Zenon
      <4>3. Separable(p) /\ p.value # <<>> =>
              /\ Cardinality(Cuts(text)) + 1 = Len(p.value)
              /\ \A k \in DOMAIN p.value : Says(p.type, Part(text, k), p.value[k])
        BY <2>7, <4>1, <4>2, TextOfArray, Zenon
      <4> QED
        BY <3>1, <4>3, Zenon DEF SaysParam
    <3>2. CASE ~p.array
      <4>1. text = toHTTPParam(p.type, p.value)
        BY <3>2, Zenon DEF TextOf
      <4>2. Holds(p.type, p.value)
        BY <2>2, <2>7, <3>2, Zenon
      <4>3. Says(p.type, text, p.value)
        BY <2>7, <4>1, <4>2, TextOfValue, Zenon
      <4> QED
        BY <3>2, <4>3, Zenon DEF SaysParam
    <3> QED
      BY <3>1, <3>2, Zenon
  <2> HIDE DEF sent
  <2>8. DOMAIN got = {asked[i].name : i \in Given}
    <3>1. DOMAIN sent = {asked[i].name : i \in Known(asked)}
      BY <2>5, Zenon DEF Holding
    <3>2. Given = {i \in Known(asked) : asked[i].name # ""}
      BY <2>3 DEF Known
    <3>3. {asked[i].name : i \in Known(asked)} \ {""} = {asked[i].name : i \in Given}
      BY <3>2
    <3> HIDE DEF got, Given
    <3> QED
      BY <2>4, <3>1, <3>3
  <2>9. ASSUME NEW n \in DOMAIN got
        PROVE  LET texts == got[n] IN
                 /\ \A i \in Named(n) : \E k \in DOMAIN texts : SaysParam(texts[k], asked[i])
                 /\ \A k \in DOMAIN texts : \E i \in Named(n) : SaysParam(texts[k], asked[i])
                 /\ \A i \in Named(n) :
                      (\A j \in Named(n) : i <= j) => SaysParam(got[n][1], asked[i])
                 /\ \A j, k \in DOMAIN texts : texts[j] = texts[k] => j = k
    <3> DEFINE texts == got[n]
               all == sent[n]
               T == {TextOf(p) : p \in S}
    <3>1. n \in DOMAIN sent /\ n # "" /\ texts = Distinct(all)
      BY <2>4
    <3>2. Named(n) = KnownAs(asked, n)
      BY <2>3, <3>1 DEF Known, KnownAs
    <3>3. ASSUME NEW i \in KnownAs(asked, n)
          PROVE  asked[i] \in S /\ asked[i].type \in Types
      BY <2>3 DEF Known, KnownAs
    <3>4. AreTexts(all, asked, n) /\ all \in Seq(T)
      BY <2>5, <2>6, <3>1, Zenon DEF Holding
    <3> HIDE DEF T, S, all
    <3>5. /\ IsDistinct(texts, all) /\ texts \in Seq(T)
          /\ DOMAIN texts = 1 .. Len(texts) /\ DOMAIN all = 1 .. Len(all)
      BY <3>1, <3>4, DistinctIs, DistinctGrows, LenProperties
    <3> HIDE DEF texts, Given, got, Named
    <3>6. /\ \A k \in DOMAIN texts : \E m \in DOMAIN all : texts[k] = all[m]
          /\ \A m \in DOMAIN all : \E k \in DOMAIN texts : texts[k] = all[m]
      <4>1. ToSet(texts) = ToSet(all)
        BY <3>5 DEF IsDistinct
      <4>2. \A k \in DOMAIN texts : texts[k] \in ToSet(texts)
        BY Zenon DEF ToSet
      <4>3. \A m \in DOMAIN all : all[m] \in ToSet(all)
        BY Zenon DEF ToSet
      <4>4. \A x \in ToSet(texts) : \E k \in DOMAIN texts : texts[k] = x
        BY Zenon DEF ToSet
      <4>5. \A x \in ToSet(all) : \E k \in DOMAIN all : x = all[k]
        BY Zenon DEF ToSet
      <4> QED
        BY <4>1, <4>2, <4>3, <4>4, <4>5, Zenon
    <3>7. ASSUME NEW i \in KnownAs(asked, n)
          PROVE  \E k \in DOMAIN texts : SaysParam(texts[k], asked[i])
      <4>1. PICK m \in DOMAIN all : all[m] = TextOf(asked[i])
        BY <3>4, <3>5, Zenon DEF AreTexts
      <4>2. PICK k \in DOMAIN texts : texts[k] = all[m]
        BY <3>6
      <4> QED
        BY <2>7, <3>3, <4>1, <4>2, Zenon
    <3>8. ASSUME NEW k \in DOMAIN texts
          PROVE  \E i \in KnownAs(asked, n) : SaysParam(texts[k], asked[i])
      <4>1. PICK m \in DOMAIN all : texts[k] = all[m]
        BY <3>6
      <4>2. PICK i \in KnownAs(asked, n) : all[m] = TextOf(asked[i])
        BY <3>4, <3>5, Zenon DEF AreTexts
      <4> QED
        BY <2>7, <3>3, <4>1, <4>2, Zenon
    <3>9. ASSUME NEW i \in KnownAs(asked, n), \A j \in KnownAs(asked, n) : i <= j
          PROVE  SaysParam(texts[1], asked[i])
      <4>1. all[1] = TextOf(asked[i]) /\ texts[1] = all[1]
        BY <3>4, <3>5, <3>9, Zenon DEF AreTexts, IsDistinct
      <4> QED
        BY <2>7, <3>3, <4>1, Zenon
    <3>10. \A j, k \in DOMAIN texts : texts[j] = texts[k] => j = k
      BY <3>5, Zenon DEF IsDistinct
    <3> QED
      BY <3>2, <3>7, <3>8, <3>9, <3>10, Zenon DEF texts, got
  <2> HIDE DEF got, Given
  <2> QED
    BY <2>8, <2>9, Zenon DEF TextSaysValue, got, Given, get_param_value
<1> QED
  BY <1>1, CopiedIsSeen, PTL
=============================================================================
