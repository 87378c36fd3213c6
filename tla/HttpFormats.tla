----------------------------- MODULE HttpFormats -----------------------------
(***************************************************************************)
(* What the two ends of httplib must agree on: what one writes, the other  *)
(* reads back.  A behaviour either sends a form through the parser of      *)
(* HttpMultipart or spells out a text part by part; every text up to the   *)
(* bound is put to the operators of HttpText, HttpFiles and HttpRanges.     *)
(***************************************************************************)
EXTENDS HttpFiles, HttpRanges, HttpMultipart

CONSTANTS
  Alphabet,    \* kind of text -> the parts it is made of, texts themselves
  MaxLength,   \* bound: kind of text -> number of parts
  Path,        \* the path that parameters are sent to
  ParamNames,  \* the names of the parameters sent, in order
  Patterns,    \* patterns of routes
  Lengths      \* lengths of content that ranges are asked of

ASSUME LengthsAssumption == Lengths \subseteq Nat
ASSUME AlphabetAssumption == \A k \in DOMAIN Alphabet : Alphabet[k] \subseteq Seq(Bytes)

\* The order of std::string.
Precedes(s, t) ==
  \/ IsStrictPrefix(s, t)
  \/ \E n \in DOMAIN s \cap DOMAIN t :
       s[n] < t[n] /\ \A k \in 1..(n - 1) : s[k] = t[k]

\* encode_url stops at a NUL and leaves a percent sign and the separators of a
\* target as they are, so a path and a name must not have them; and a name is
\* not empty.  A multimap has its names in order.
ASSUME NamesAssumption ==
  /\ Path \in Seq(Bytes \ {0, Tab, Fragment, Percent, Question})
  /\ ParamNames \in
       Seq(Seq(Bytes \ {0, Tab, Fragment, Percent, Ampersand, Equals}) \ {<<>>})
  /\ \A i, k \in DOMAIN ParamNames : i < k => ~Precedes(ParamNames[k], ParamNames[i])

\* A pattern begins with a slash (and strncmp would stop at a NUL).
ASSUME PatternsAssumption ==
  \A p \in Patterns : p \in Seq(Bytes \ {0}) /\ p # <<>> /\ p[1] = Slash

VARIABLES
  kind,  \* "form", or the kind of text spelled out
  text,  \* the text so far
  left   \* number of parts that may follow

allVars == <<kind, text, left, formVars>>

Init ==
  /\ FormInit
  /\ kind \in DOMAIN Alphabet \cup {"form"}
  /\ kind # "form" => form = <<>>
  /\ text = <<>> /\ left = IF kind = "form" THEN 0 ELSE MaxLength[kind]

Spell ==
  /\ kind # "form" /\ left > 0
  /\ \E part \in Alphabet[kind] : text' = text \o part
  /\ left' = left - 1
  /\ UNCHANGED <<kind, formVars>>

SendForm == kind = "form" /\ FormNext /\ UNCHANGED <<kind, text, left>>

Next == Spell \/ SendForm

Spec == Init /\ [][Next]_allVars

-----------------------------------------------------------------------------
\* The client's parameters: `text` cut at the zeros gives their values.
Params ==
  LET values == Pieces(text, 0)
      n == IF Len(values) < Len(ParamNames) THEN Len(values) ELSE Len(ParamNames)
  IN  [i \in 1..n |-> <<ParamNames[i], values[i]>>]

Distinct(s) ==
  LET new == {i \in DOMAIN s : \A k \in 1..(i - 1) : s[k] # s[i]}
  IN  FlattenSeq([i \in DOMAIN s |-> IF i \in new THEN <<s[i]>> ELSE <<>>])

\* What the server makes of a request for a path, with or without a query.
Received(target) == parse_request_line(RequestLine(500, encode_url(target)))

\* The parameters of a Get reach the server with names and values as they
\* were, in the order of the multimap, whatever characters the values have; only
\* a parameter given twice with the same value arrives once.  (The names are another
\* matter: params_to_query_str does not encode them, see NamesAssumption.)
ParametersArrive ==
  kind = "query" =>
    Received(append_query_params(Path, Params))
      = [ok |-> TRUE, path |-> Path, params |-> Distinct(Params)]

\* A path arrives as it was, unless it has a percent sign or a character that
\* ends a path or its encoding; and encoding it again, as a redirect to the same
\* place does, changes nothing.
PathsArrive ==
  kind = "text" =>
    /\ encode_url(encode_url(text)) = encode_url(text)
    /\ ToSet(text) \cap {0, Tab, Fragment, Percent, Question} = {} /\ text # <<>> =>
         Received(text) = [ok |-> TRUE, path |-> text, params |-> <<>>]

HasCrLf(s) == \E k \in 1..(Len(s) - 1) : s[k] = 13 /\ s[k + 1] = 10

\* The value of a header field arrives without the blanks around it, or the
\* headers are refused: with a CR, LF or NUL in the value, or a line that is too
\* long.  It needs a value without a percent sign, as the reader decodes what the
\* writer never encoded, and without a whole line end: what is behind that is
\* read as further lines, which is why set_header drops such a value, and only
\* headers put into the multimap itself can have one.
HeadersArrive ==
  kind = "text" /\ Percent \notin ToSet(text) /\ ~HasCrLf(text) =>
    LET headers == read_headers(write_headers(<<<<<<97>>, text>>>>))
    IN  /\ headers.ok <=> ToSet(text) \cap {0, 10, 13} = {} /\ Len(text) + 5 <= HeaderMax
        /\ headers.ok => headers.fields = {<<<<97>>, Trim(text)>>}

\* The bytes that a digit string of base 64 stands for: each begins in one
\* digit and ends in the next.
ByteFrom(d, i) ==
  LET j == i + (i - 1) \div 3
  IN  CASE i % 3 = 1 -> d[j] * 4 + d[j + 1] \div 16
        [] i % 3 = 2 -> (d[j] % 16) * 16 + d[j + 1] \div 4
        [] i % 3 = 0 -> (d[j] % 4) * 64 + d[j + 1]
FromBase64(d) ==
  [i \in 1..((6 * Len(Divide(d, 64)[1])) \div 8) |-> ByteFrom(d, i)]

\* Credentials in base 64 decode to what was encoded, for every length modulo
\* three, and fill whole groups of four digits.
CredentialsArrive ==
  kind = "text" =>
    /\ Len(base64_encode(text)) % 4 = 0
    /\ FromBase64(base64_encode(text)) = text

\* The code point that the bytes of UTF-8 stand for.
FromUtf8(b) ==
  CASE Len(b) = 1 -> b[1]
    [] Len(b) = 2 -> (b[1] - 192) * 64 + (b[2] - 128)
    [] Len(b) = 3 -> (b[1] - 224) * 4096 + (b[2] - 128) * 64 + (b[3] - 128)

\* An escape %uXXXX is the UTF-8 of its code point, on either side of each
\* change of length, and nothing for half of a surrogate pair.
UnicodeEscapesDecode ==
  kind = "unicode" /\ Len(text) = 4 /\ HasHex(text, 1, 4) =>
    LET code == HexNumber(text, 1, 4)
        utf8 == decode_url(<<Percent, 117>> \o text, FALSE)
    IN  IF code \in Surrogates THEN utf8 = <<>>
        ELSE /\ FromUtf8(utf8) = code
             /\ Len(utf8) = IF code < 128 THEN 1 ELSE IF code < 2048 THEN 2 ELSE 3

\* Texts that are encoded on one end arrive on the other.
TextsArrive ==
  PathsArrive /\ HeadersArrive /\ CredentialsArrive /\ UnicodeEscapesDecode

\* Where a path leads from the base directory: the names on the way down, or
\* Above, with an empty name, once it has left it.
Above == <<<<>>>>
Resolved(path) ==
  FoldLeft(LAMBDA at, p : IF at = Above \/ p = Here THEN at
                          ELSE IF p # Up THEN Append(at, p)
                          ELSE IF at = <<>> THEN Above ELSE Front(at),
           <<>>, Components(path))

\* A path is accepted for the file system exactly if following it never
\* leaves the base directory, also on the way, and it has no NUL or backslash.
\* What is served is a file below the directory mounted at a prefix of the path;
\* and a redirect by the root mount leads to the same directory, with '/' at the
\* end, where its index.html is looked for.  If that is a directory itself, the
\* path with '/' is redirected to itself with another '/', and so on.  (Another
\* mount point is missing from the location of its redirects.)
PathsStayBelow ==
  kind = "path" =>
    /\ is_valid_path(text) <=>
         ToSet(text) \cap {0, Backslash} = {} /\ Resolved(text) # Above
    /\ LET a == handle_file_request(text)
       IN  /\ a.answer = "file" =>
                /\ IsPrefix(a.entry.at, text) /\ a.file \in Files \ Unreadable
                /\ IsPrefix(Walk(a.entry.dir), a.file)
           /\ a.answer = "redirect" /\ a.entry.at = <<Slash>> =>
                Walk(FilePath(a.entry, a.location)) \in
                  IF Last(text) = Slash THEN {a.directory}
                  ELSE {Missing, a.directory \o <<IndexHtml>>}

IsFree(part) == part # <<>> /\ part[1] = Colon

\* The parts of a pattern, less an empty one behind one that is free.
Wanted(pattern) ==
  LET parts == Pieces(pattern, Slash)
  IN  IF Last(parts) = <<>> /\ IsFree(parts[Len(parts) - 1]) THEN Front(parts) ELSE parts

\* The parts of a path, less an empty one behind the last that is wanted, if
\* that is free.
Given(path, wanted) ==
  LET parts == Pieces(path, Slash)
  IN  IF Len(parts) = Len(wanted) + 1 /\ Last(parts) = <<>> /\ IsFree(Last(wanted))
        THEN Front(parts) ELSE parts

\* The parameters are the parts that are free.
HasParts(params, given, wanted) ==
  LET free == {i \in DOMAIN wanted : IsFree(wanted[i])}
  IN  /\ DOMAIN params = {Tail(wanted[i]) : i \in free}
      /\ \A i \in free :
           (\A k \in free : k < i => Tail(wanted[k]) # Tail(wanted[i]))
             => params[Tail(wanted[i])] = given[i]

\* A route with named parts matches a path exactly if their parts agree one
\* by one, those after ':' being free, and each parameter is the first part that
\* has its name.  A slash at the end of the route or of the path, after a named
\* part, makes no difference.
RoutesMatchByPart ==
  kind = "route" =>
    \A pattern \in Patterns :
      LET m == MatchPath(NewMatcher(pattern), text)
          wanted == Wanted(pattern)
          given == Given(text, wanted)
      IN  /\ m.ok <=> /\ Len(given) = Len(wanted)
                      /\ \A i \in DOMAIN wanted : IsFree(wanted[i]) \/ given[i] = wanted[i]
          /\ m.ok => HasParts(m.params, given, wanted)

-----------------------------------------------------------------------------
Parsed == parse_range_header(BytesEquals \o text)

\* The ranges that a client writes are those the server reads.
RangesArrive ==
  kind = "range" =>
    LET p == Parsed
    IN  p.ok => parse_range_header(make_range_header(p.ranges)) = p

\* The assertions of get_range_offset_and_length: a partial answer consists of
\* parts that lie within the content.
PartsLieWithinContent ==
  kind = "range" =>
    LET p == Parsed
    IN  p.ok =>
          \A n \in Lengths :
            LET a == Answer(p.ranges, NoStatus, n)
            IN  a.status = 206 => \A i \in DOMAIN a.ranges :
                  /\ 0 <= a.ranges[i][1] /\ a.ranges[i][1] <= a.ranges[i][2]
                  /\ a.ranges[i][2] < n

\* The Content-Length is the length of what is written, for no, one and several
\* ranges, a body and a content provider.  It needs the status to be left to
\* the server when a content provider answers a range request.
LengthIsTrue ==
  kind = "range" =>
    LET p == Parsed
    IN  \A n \in Lengths, status \in {NoStatus, 200, 404}, provided \in BOOLEAN :
          (provided /\ p.ranges # <<>> => status = NoStatus) =>
            LET a == Answer(p.ranges, status, n)
            IN  Announced(a) = Len(Written(a, provided))

\* Ranges arrive as they were asked for, and the answer is true to them.
RangesAreAnswered == RangesArrive /\ PartsLieWithinContent /\ LengthIsTrue
=============================================================================
