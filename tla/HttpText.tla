------------------------------ MODULE HttpText ------------------------------
(***************************************************************************)
(* The text of requests in httplib: percent encoding, query strings, base  *)
(* 64, the check of paths, and route patterns with named parts.  A text is *)
(* a sequence of bytes.                                                    *)
(***************************************************************************)
EXTENDS Integers, Sequences, SequencesExt, FiniteSets

CONSTANT HeaderMax   \* CPPHTTPLIB_HEADER_MAX_LENGTH

ASSUME HeaderMaxAssumption == HeaderMax \in Nat

Tab == 9
Space == 32
Fragment == 35
Percent == 37
Ampersand == 38
Plus == 43
Comma == 44
Minus == 45
Dot == 46
Slash == 47
Colon == 58
Equals == 61
Question == 63
Backslash == 92
CrLf == <<13, 10>>

Digits == 48..57
Upper == 65..90
Lower == 97..122
Bytes == 0..255

-----------------------------------------------------------------------------
(* Splitting.                                                              *)

Find(s, c) == SelectInSeq(s, LAMBDA x : x = c)

\* divide: at the first c, and without it all is on the left.
Divide(s, c) ==
  LET i == Find(s, c)
  IN  IF i = 0 THEN <<s, <<>>>>
      ELSE <<SubSeq(s, 1, i - 1), SubSeq(s, i + 1, Len(s))>>

-----------------------------------------------------------------------------
(* Percent encoding.                                                       *)

Hex(d) == IF d < 10 THEN 48 + d ELSE 55 + d
IsHex(c) == c \in Digits \cup 65..70 \cup 97..102
HexValue(c) == IF c \in Digits THEN c - 48
               ELSE IF c \in Upper THEN c - 55 ELSE c - 87

Escaped(c) == <<Percent, Hex(c \div 16), Hex(c % 16)>>

\* from_hex_to_i: whether s has n hexadecimal digits from i, and their value.
HasHex(s, i, n) == i + n - 1 <= Len(s) /\ \A k \in i..(i + n - 1) : IsHex(s[k])
HexNumber(s, i, n) ==
  FoldLeft(LAMBDA v, c : 16 * v + HexValue(c), 0, SubSeq(s, i, i + n - 1))

\* Code points that stand for halves of a pair.
Surrogates == 55296..57343

\* A byte after the first: six bits from d on.
Continuation(code, d) == 128 + ((code \div d) % 64)

\* Mutant: two bytes up to the surrogates.
Utf8TwoBytes(code) ==
  IF code < 128 THEN <<code>>
  ELSE IF code < 55296 THEN <<192 + ((code \div 64) % 32), Continuation(code, 1)>>
  ELSE IF code \in Surrogates THEN <<>>
  ELSE <<224 + code \div 4096, Continuation(code, 64), Continuation(code, 1)>>

\* to_utf8: none for the surrogates.
Utf8(code) ==
  IF code < 128 THEN <<code>>
  ELSE IF code < 2048 THEN <<192 + code \div 64, Continuation(code, 1)>>
  ELSE IF code \in Surrogates THEN <<>>
  ELSE <<224 + code \div 4096, Continuation(code, 64), Continuation(code, 1)>>

\* ! ' ( ) * - . _ ~
Unreserved == Digits \cup Upper \cup Lower \cup {33, 39, 40, 41, 42, 45, 46, 95, 126}

\* Mutant: the ampersand is not encoded.
EncodeAmpersandRaw(s) ==
  FlattenSeq([i \in DOMAIN s |->
    IF s[i] \in Unreserved \cup {Ampersand} THEN <<s[i]>> ELSE Escaped(s[i])])

encode_query_param(s) ==
  FlattenSeq([i \in DOMAIN s |->
    IF s[i] \in Unreserved THEN <<s[i]>> ELSE Escaped(s[i])])

\* The loop of encode_url ends at the first NUL.
UpToNul(s) == Divide(s, 0)[1]

\* encode_url: blank + CR LF ' , ; and the bytes that are not ASCII.
encode_url(s) ==
  LET seen == UpToNul(s)
  IN  FlattenSeq([i \in DOMAIN seen |->
        IF seen[i] >= 128 \/ seen[i] \in {Space, 13, 10, 39, Plus, Comma, 59}
          THEN Escaped(seen[i]) ELSE <<seen[i]>>])

\* %XX and %uXXXX; a percent sign that begins neither stays.
decode_url(s, plus_is_space) ==
  LET from[i \in 1..(Len(s) + 1)] ==
        IF i > Len(s) THEN <<>>
        ELSE IF s[i] = Percent /\ HasHex(s, i + 1, 2)
          THEN <<HexNumber(s, i + 1, 2)>> \o from[i + 3]
        ELSE IF s[i] = Percent /\ i < Len(s) /\ s[i + 1] = 117 /\ HasHex(s, i + 2, 4)
          THEN Utf8(HexNumber(s, i + 2, 4)) \o from[i + 6]
        ELSE <<IF plus_is_space /\ s[i] = Plus THEN Space ELSE s[i]>> \o from[i + 1]
  IN  from[1]

-----------------------------------------------------------------------------
(* Splitting into pieces.                                                  *)

IsBlank(c) == c \in {Space, Tab}
Trim(s) ==
  LET solid == {i \in DOMAIN s : ~IsBlank(s[i])}
      lo == CHOOSE i \in solid : \A k \in solid : i <= k
      hi == CHOOSE i \in solid : \A k \in solid : k <= i
  IN  IF solid = {} THEN <<>> ELSE SubSeq(s, lo, hi)

Pieces(s, c) ==
  FoldLeft(LAMBDA ps, x : IF x = c THEN Append(ps, <<>>)
                          ELSE [ps EXCEPT ![Len(ps)] = Append(@, x)],
           <<<<>>>>, s)

NotEmpty(ps) == FlattenSeq([i \in DOMAIN ps |-> IF ps[i] = <<>> THEN <<>> ELSE <<ps[i]>>])

\* split: the pieces without the blanks around them, and no empty ones.
Split(s, c) ==
  NotEmpty([i \in DOMAIN Pieces(s, c) |-> Trim(Pieces(s, c)[i])])

-----------------------------------------------------------------------------
(* Query strings.  Params is a multimap: a sequence of <<name, value>>.    *)

params_to_query_str(params) ==
  FlattenSeq([i \in DOMAIN params |->
    (IF i = 1 THEN <<>> ELSE <<Ampersand>>)
      \o params[i][1] \o <<Equals>> \o encode_query_param(params[i][2])])

\* The expression "[^?]+\?.*" tells whether the path has a query.
append_query_params(path, params) ==
  path \o (IF Find(path, Question) > 1 THEN <<Ampersand>> ELSE <<Question>>)
       \o params_to_query_str(params)

\* parse_query_text: a pair that occurs again is dropped, as is one without
\* a name.
parse_query_text(s) ==
  LET pairs == Split(s, Ampersand)
      firsts == {i \in DOMAIN pairs : \A k \in 1..(i - 1) : pairs[k] # pairs[i]}
      Parsed(p) == [k \in 1..2 |-> decode_url(Divide(p, Equals)[k], TRUE)]
  IN  FlattenSeq([i \in DOMAIN pairs |->
        IF i \in firsts /\ Divide(pairs[i], Equals)[1] # <<>>
          THEN <<Parsed(pairs[i])>> ELSE <<>>])

\* Methods and versions are one symbol each.
Methods == 500..509
Versions == {510, 511}

\* write_request_line, the end of the line left out.
RequestLine(method, target) == <<method, Space>> \o target \o <<Space, 511>>

NoTarget == [ok |-> FALSE, path |-> <<>>, params |-> <<>>]

\* parse_request_line: three parts; what follows # in the target is cut off.
parse_request_line(line) ==
  LET parts == Split(line, Space)
      target == Divide(Divide(parts[2], Fragment)[1], Question)
  IN  IF Len(parts) # 3 \/ parts[1][1] \notin Methods \/ parts[3][1] \notin Versions
        THEN NoTarget
        ELSE [ok |-> TRUE, path |-> decode_url(target[1], FALSE),
              params |-> parse_query_text(target[2])]

-----------------------------------------------------------------------------
(* Header fields.                                                          *)

\* write_headers: nothing looks for line ends in what is written.
HeaderLine(key, value) == key \o <<Colon, Space>> \o value \o CrLf
write_headers(fields) ==
  FlattenSeq([i \in DOMAIN fields |-> HeaderLine(fields[i][1], fields[i][2])]) \o CrLf

\* parse_header, of a field other than Location: at most one <<key, value>>.
ParseHeader(line) ==
  LET i == Find(line, Colon)
      value == decode_url(Trim(SubSeq(line, i + 1, Len(line))), FALSE)
  IN  IF i <= 1 \/ ToSet(value) \cap {0, 10, 13} # {} THEN <<>>
      ELSE <<<<SubSeq(line, 1, i - 1), value>>>>

\* getline: the lines of s, from and up to (without) a line end.
Lines(s) ==
  LET ends == {k \in 1..(Len(s) - 1) : s[k] = 13 /\ s[k + 1] = 10}
  IN  {l \in ({1} \cup {k + 2 : k \in ends}) \X ends :
         l[1] <= l[2] /\ ~\E k \in ends : l[1] <= k /\ k < l[2]}

\* read_headers: the lines before the first empty one are fields, none too
\* long or refused.  (A field that is there twice counts once.)
read_headers(s) ==
  LET read == {l \in Lines(s) : \A e \in Lines(s) : e[1] = e[2] => l[2] < e[1]}
      parsed == {ParseHeader(SubSeq(s, l[1], l[2] - 1)) : l \in read}
  IN  [ok |-> /\ \E e \in Lines(s) : e[1] = e[2]
              /\ \A l \in read : l[2] + 2 - l[1] <= HeaderMax
              /\ <<>> \notin parsed,
       fields |-> UNION {ToSet(p) : p \in parsed}]

-----------------------------------------------------------------------------
(* Base 64, the digits as numbers with 64 for '='.                         *)

\* val >> n.
Shifted(val, n) == CASE n = 0 -> val [] n = 2 -> val \div 4
                     [] n = 4 -> val \div 16 [] n = 6 -> val \div 64

\* The loop of base64_encode: val holds the bytes so far (of which 14 bits
\* matter) and valb + 6 is the number of bits that are not written yet.
OutDigit(a) ==
  IF a.valb < 0 THEN a
  ELSE [a EXCEPT !.out = Append(@, Shifted(a.val, a.valb) % 64), !.valb = @ - 6]
AddByte(a, c) ==
  OutDigit(OutDigit([a EXCEPT !.val = (@ * 256 + c) % 16384, !.valb = @ + 8]))

base64_encode(s) ==
  LET all == FoldLeft(AddByte, [val |-> 0, valb |-> -6, out |-> <<>>], s)
      digits == IF all.valb > -6
                THEN Append(all.out, Shifted(all.val * 256, all.valb + 8) % 64)
                ELSE all.out
  IN  digits \o [i \in 1..((4 - (Len(digits) % 4)) % 4) |-> 64]

-----------------------------------------------------------------------------
(* Paths.                                                                  *)

Components(path) == NotEmpty(Pieces(path, Slash))
Up == <<Dot, Dot>>
Here == <<Dot>>

\* Mutant: only the level at the end counts.
ValidAtTheEnd(path) ==
  /\ ~\E i \in DOMAIN path : path[i] \in {0, Backslash}
  /\ FoldLeft(LAMBDA n, p : IF p = Here THEN n ELSE IF p = Up THEN n - 1 ELSE n + 1,
              0, Components(path)) >= 0

\* The level below the base directory; -1 once it was left.
is_valid_path(path) ==
  /\ ~\E i \in DOMAIN path : path[i] \in {0, Backslash}
  /\ FoldLeft(LAMBDA n, p : IF n = -1 \/ p = Here THEN n
                            ELSE IF p = Up THEN n - 1 ELSE n + 1,
              0, Components(path)) >= 0

-----------------------------------------------------------------------------
(* Routes: PathParamsMatcher.                                              *)

\* Position of the first "/:" in s from i, of the first '/' from i or the end.
Marker(s, i) ==
  LET at == {k \in i..(Len(s) - 1) : s[k] = Slash /\ s[k + 1] = Colon}
  IN  IF at = {} THEN 0 ELSE CHOOSE k \in at : \A m \in at : k <= m
Separator(s, i) ==
  LET at == {k \in i..Len(s) : s[k] = Slash}
  IN  IF at = {} THEN Len(s) + 1 ELSE CHOOSE k \in at : \A m \in at : k <= m

\* The constructor, whose check for a name that occurs twice never finds one, as
\* nothing is ever put into param_name_set.  `from[i]` continues after the
\* parameter that ends before the '/' at i - 1; the fragment of a parameter
\* includes the '/' before it.
NewMatcher(pattern) ==
  LET from[i \in 1..(Len(pattern) + 2)] ==
        LET m == Marker(pattern, IF i = 1 THEN 1 ELSE i - 1)
            sep == Separator(pattern, m + 2)
        IN  IF m = 0
              THEN [fragments |-> IF i <= Len(pattern)
                                  THEN <<SubSeq(pattern, i, Len(pattern))>> ELSE <<>>,
                    names |-> <<>>]
              ELSE [fragments |-> <<SubSeq(pattern, i, m)>> \o from[sep + 1].fragments,
                    names |-> <<SubSeq(pattern, m + 2, sep - 1)>> \o from[sep + 1].names]
  IN  from[1]

\* path_params.emplace: the first value of a name stays.
Emplaced(params, name, value) ==
  [n \in DOMAIN params \cup {name} |-> IF n \in DOMAIN params THEN params[n] ELSE value]
NoPathParams == [n \in {} |-> <<>>]

\* Mutant: the rest of the path is not looked at.
MatchPathPrefix(m, path) ==
  LET Step(a, i) ==
        LET f == m.fragments[i]
            at == a.pos + Len(f)
            sep == Separator(path, at + 1)
        IN  IF ~a.ok \/ at > Len(path) \/ SubSeq(path, a.pos + 1, at) # f
              THEN [a EXCEPT !.ok = FALSE]
            ELSE IF i > Len(m.names) THEN [a EXCEPT !.pos = at]
            ELSE [a EXCEPT !.pos = sep, !.params =
                    Emplaced(@, m.names[i], SubSeq(path, at + 1, sep - 1))]
      all == FoldLeft(Step, [ok |-> TRUE, pos |-> 0, params |-> NoPathParams],
                      [i \in DOMAIN m.fragments |-> i])
  IN  [ok |-> all.ok, params |-> all.params]

\* match: `pos` is starting_pos.
MatchPath(m, path) ==
  LET Step(a, i) ==
        LET f == m.fragments[i]
            at == a.pos + Len(f)
            sep == Separator(path, at + 1)
        IN  IF ~a.ok \/ at > Len(path) \/ SubSeq(path, a.pos + 1, at) # f
              THEN [a EXCEPT !.ok = FALSE]
            ELSE IF i > Len(m.names) THEN [a EXCEPT !.pos = at]
            ELSE [a EXCEPT !.pos = sep, !.params =
                    Emplaced(@, m.names[i], SubSeq(path, at + 1, sep - 1))]
      all == FoldLeft(Step, [ok |-> TRUE, pos |-> 0, params |-> NoPathParams],
                      [i \in DOMAIN m.fragments |-> i])
  IN  [ok |-> all.ok /\ all.pos >= Len(path), params |-> all.params]
=============================================================================
