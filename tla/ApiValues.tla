------------------------------ MODULE ApiValues ------------------------------
(***************************************************************************)
(* How values travel in a request: the client turns API values into the    *)
(* parameters of a URL (src/restclient.cpp), the server turns a parameter  *)
(* into an API value of the described type (src/restserver.cpp).           *)
(*                                                                         *)
(* An API value is a record of its name, its type, whether it is an array  *)
(* (std::vector of the type) and its value.  A text is a sequence of       *)
(* tokens: numbers, words, spaces and separators.  A floating-point number *)
(* is an integer in units of 1/Unit, and so is the number of a token.      *)
(***************************************************************************)
EXTENDS Integers, Sequences, SequencesExt

CONSTANTS
  IntMax, LongMax,   \* limits of int and long
  Unit,              \* the number 1
  Decimal6,          \* 0.000001, the last decimal of std::to_string
  Decimal4,          \* 0.0001, the last decimal of the echo's JSON
  mArraySeparator,   \* text between the elements of an array
  Garbage            \* Garbage[T]: values an uninitialized T may have

ASSUME ValuesAssumption ==
  /\ IntMax \in Nat /\ LongMax \in Nat /\ IntMax <= LongMax
  /\ Unit \in Nat \ {0} /\ Decimal6 \in Nat \ {0} /\ Decimal4 \in Nat \ {0}
  \* the separator (by default ",") is a token, and not a number
  /\ mArraySeparator \in Seq(ToSet(mArraySeparator)) /\ Len(mArraySeparator) = 1
  /\ mArraySeparator[1][1] # "number"

Number(n) == <<"number", n>>
Word(w) == <<"word", w>>
Space == <<"space">>

\* The types with an entry in copyValueMap, toHTTPParamMap and sValueCreators;
\* the first two and toHTTPParamArrayMap have their arrays as well.
Types == {"int", "float", "bool", "string", "double", "long"}

\* x to the nearest, and down to a, multiple of d.
Round(x, d) == IF x >= 0 THEN ((2 * x + d) \div (2 * d)) * d
                         ELSE -(((d - 2 * x) \div (2 * d)) * d)
Truncate(x, d) == IF x >= 0 THEN (x \div d) * d ELSE -(((-x) \div d) * d)

-----------------------------------------------------------------------------
(***************************************************************************)
(* The client.                                                             *)
(***************************************************************************)

\* copyParams: values of other types are left out.
copyParams(params) ==
  LET copy[i \in 0 .. Len(params)] ==   \* after the first i
        IF i = 0 THEN <<>>
        ELSE IF params[i].type \in Types THEN Append(copy[i - 1], params[i])
        ELSE copy[i - 1]
  IN  copy[Len(params)]

\* toHTTPParam<T>: std::to_string, or the string itself.
toHTTPParam(type, value) ==
  CASE type \in {"int", "long"}     -> <<Number(value * Unit)>>
    [] type \in {"float", "double"} -> <<Number(Round(value, Decimal6))>>
    [] type = "bool"                -> <<Number(IF value THEN Unit ELSE 0)>>
    [] type = "string"              -> value

\* Mutant: the separator is appended without looking at the result so far.
SeparatedAlways(type, elements) ==
  FoldLeft(LAMBDA result, val : result \o mArraySeparator \o toHTTPParam(type, val),
           <<>>, elements)

\* toHTTPParamArray: a separator unless the result is still empty.
toHTTPParamArray(type, elements) ==
  FoldLeft(LAMBDA result, val :
             (IF result # <<>> THEN result \o mArraySeparator ELSE result)
               \o toHTTPParam(type, val),
           <<>>, elements)

\* httplib::Params, a std::multimap: the texts of each name, in the order in which
\* they were emplaced (between names there is no order but that of the alphabet).
\* What percent encoding does to names and texts is the subject of HttpFormats.
NoParams == [name \in {} |-> <<>>]
emplace(map, name, text) ==
  [n \in DOMAIN map \cup {name} |->
     LET texts == IF n \in DOMAIN map THEN map[n] ELSE <<>>
     IN  IF n = name THEN Append(texts, text) ELSE texts]

TextOf(p) == IF p.array THEN toHTTPParamArray(p.type, p.value)
                        ELSE toHTTPParam(p.type, p.value)

\* toHTTPParams: values of other types are left out.
toHTTPParams(params) ==
  FoldLeft(LAMBDA map, p : IF p.type \in Types THEN emplace(map, p.name, TextOf(p)) ELSE map,
           NoParams, params)

-----------------------------------------------------------------------------
(***************************************************************************)
(* The server.                                                             *)
(***************************************************************************)

\* parse_query_text, of what params_to_query_str has written: a pair that occurs
\* again is dropped, as is one without a name.
Distinct(texts) ==
  FoldLeft(LAMBDA kept, t : IF t \in ToSet(kept) THEN kept ELSE Append(kept, t), <<>>, texts)
parse_query_text(map) == [n \in DOMAIN map \ {""} |-> Distinct(map[n])]

(***************************************************************************)
(* extractValue<T>: std::istringstream(text) >> value.                     *)
(***************************************************************************)

\* Leading spaces are skipped, and a string ends at the next one.
Unspaced(text) ==
  LET i == SelectInSeq(text, LAMBDA t : t # Space) IN
    IF i = 0 THEN <<>> ELSE SubSeq(text, i, Len(text))

FirstWord(text) ==
  LET i == SelectInSeq(Unspaced(text), LAMBDA t : t = Space) IN
    IF i = 0 THEN Unspaced(text) ELSE SubSeq(Unspaced(text), 1, i - 1)

\* The number that a text begins with; a failing extraction stores 0.
LeadingNumber(text) == IF text[1][1] = "number" THEN text[1][2] ELSE 0

\* Mutant: the least number is taken for one that does not fit.
ClampSymmetric(n, max) == IF n > max THEN max ELSE IF n < -max THEN -max ELSE n

\* A number that does not fit becomes the limit.
Clamp(n, max) == IF n > max THEN max ELSE IF n < -max - 1 THEN -max - 1 ELSE n

\* The values that may result.  Without input the stream stores nothing, and
\* `T value;` is uninitialized unless it is a string.
extractValue(type, text) ==
  LET body == Unspaced(text)
      whole == Truncate(LeadingNumber(body), Unit) \div Unit
  IN IF type = "string" THEN {FirstWord(text)}
     ELSE IF body = <<>> THEN Garbage[type]
     ELSE CASE type = "int"  -> {Clamp(whole, IntMax)}
            [] type = "long" -> {Clamp(whole, LongMax)}
            [] type = "bool" -> {whole # 0}
            [] type \in {"float", "double"} -> {LeadingNumber(body)}

\* createValue<T>
createValue(type, name, text) ==
  {[name |-> name, type |-> type, value |-> v] : v \in extractValue(type, text)}
=============================================================================
