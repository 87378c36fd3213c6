----------------------------- MODULE HttpRanges -----------------------------
(***************************************************************************)
(* Range requests in httplib: parsing the header, the check against the    *)
(* content, the length that apply_ranges announces and the body that is    *)
(* then written.                                                           *)
(***************************************************************************)
EXTENDS HttpText

CONSTANTS
  RangeMaxCount,  \* CPPHTTPLIB_RANGE_MAX_COUNT
  LongMax         \* the largest long long

ASSUME RangeMaxAssumption == RangeMaxCount \in Nat
ASSUME LongMaxAssumption == LongMax \in Nat

None == -1   \* no position given
NoStatus == -1

\* std::to_string: decimal digits without leading zeros.
Decimal(n) ==
  LET digits[m \in 0..n] ==
        (IF m < 10 THEN <<>> ELSE digits[m \div 10]) \o <<48 + (m % 10)>>
  IN  digits[n]
NumberOf(s) == FoldLeft(LAMBDA v, c : 10 * v + (c - 48), 0, s)
BytesEquals == <<98, 121, 116, 101, 115, 61>>

\* make_range_header.
RangeText(r) ==
  (IF r[1] = None THEN <<>> ELSE Decimal(r[1])) \o <<Minus>>
    \o (IF r[2] = None THEN <<>> ELSE Decimal(r[2]))
make_range_header(ranges) ==
  BytesEquals \o FlattenSeq([i \in DOMAIN ranges |->
    (IF i = 1 THEN <<>> ELSE <<Comma, Space>>) \o RangeText(ranges[i])])

\* is_valid, and a number that std::stoll does not reject: it throws, and the
\* handler at the end of parse_range_header answers as for a wrong range.
IsNumber(s) == ToSet(s) \subseteq Digits /\ NumberOf(s) <= LongMax
IsRange(p) ==
  LET lhs == Divide(p, Minus)[1]
      rhs == Divide(p, Minus)[2]
  IN  /\ Minus \in ToSet(p)
      /\ IsNumber(lhs) /\ IsNumber(rhs)
      /\ lhs # <<>> \/ rhs # <<>>
      /\ lhs # <<>> /\ rhs # <<>> => NumberOf(lhs) <= NumberOf(rhs)

\* parse_range_header: all ranges or, if one is wrong, none.
parse_range_header(s) ==
  LET pieces == Split(SubSeq(s, 7, Len(s)), Comma)
      Bound(t) == IF t = <<>> THEN None ELSE NumberOf(t)
      RangeOf(p) == <<Bound(Divide(p, Minus)[1]), Bound(Divide(p, Minus)[2])>>
      ok == /\ Len(s) > 7 /\ SubSeq(s, 1, 6) = BytesEquals
            /\ pieces # <<>> /\ \A i \in DOMAIN pieces : IsRange(pieces[i])
  IN  [ok |-> ok, ranges |-> IF ok THEN [i \in DOMAIN pieces |-> RangeOf(pieces[i])]
                             ELSE <<>>]

-----------------------------------------------------------------------------
Larger(a, b) == IF a > b THEN a ELSE b

\* A range in terms of positions of a content of n bytes.
Resolve(r, n) ==
  IF r[1] = None THEN <<n - r[2], n - 1>>
  ELSE IF r[2] = None THEN <<r[1], n - 1>> ELSE r

\* range_error: rejects ranges outside of the content, not in ascending order
\* or overlapping more than twice, and resolves them in the request.  The
\* ranges after a rejected one, which nobody looks at, are resolved here too.
range_error(ranges, status, n) ==
  LET Step(a, r) ==
        LET p == Resolve(r, n)
            laps == a.laps + IF p[1] <= a.last THEN 1 ELSE 0
        IN  [error |-> a.error \/ ~(0 <= p[1] /\ p[1] <= p[2] /\ p[2] <= n - 1)
                               \/ p[1] <= a.first \/ laps > 2,
             first |-> Larger(a.first, p[1]), last |-> Larger(a.last, p[2]),
             laps |-> laps, ranges |-> Append(a.ranges, p)]
      none == [error |-> FALSE, first |-> -1, last |-> -1, laps |-> 0, ranges |-> <<>>]
  IN  IF status \notin 200..299 THEN [none EXCEPT !.ranges = ranges]
      ELSE IF Len(ranges) > RangeMaxCount THEN [none EXCEPT !.error = TRUE, !.ranges = ranges]
      ELSE FoldLeft(Step, none, ranges)

-----------------------------------------------------------------------------
(* The response.  A content is the sequence of its positions 0..n-1; a     *)
(* boundary line, the header fields of a part and the like are single      *)
(* symbols.                                                                *)

\* get_range_offset_and_length, and the part of the content it denotes.
OffsetAndLength(r) == <<r[1], r[2] - r[1] + 1>>
Part(r) == [i \in 1..OffsetAndLength(r)[2] |-> OffsetAndLength(r)[1] + i - 1]

\* process_multipart_ranges_data.
MultipartRanges(ranges) ==
  FlattenSeq([i \in DOMAIN ranges |->
    <<"delimiter", "type", ranges[i], "crlf">> \o Part(ranges[i]) \o <<"crlf">>])
    \o <<"end">>

Whole(n) == [i \in 1..n |-> i - 1]

\* process_request after routing: the status of a handler that set none, the
\* check, and 416 without a content.
Answer(ranges, status, n) ==
  LET given == IF status # NoStatus THEN status ELSE IF ranges = <<>> THEN 200 ELSE 206
      check == range_error(ranges, given, n)
  IN  IF check.error
        THEN [status |-> 416, ranges |-> check.ranges, length |-> 0]
        ELSE [status |-> given, ranges |-> check.ranges, length |-> n]

\* Mutant: the length of the content is announced for a single range too.
AnnouncedWhole(a) ==
  IF a.ranges = <<>> \/ a.status # 206 \/ Len(a.ranges) = 1 THEN a.length
  ELSE Len(MultipartRanges(a.ranges))

\* apply_ranges, Content-Length.
Announced(a) ==
  IF a.ranges = <<>> \/ a.status # 206 THEN a.length
  ELSE IF Len(a.ranges) = 1 THEN OffsetAndLength(a.ranges[1])[2]
  ELSE Len(MultipartRanges(a.ranges))

\* What is written: of a body that apply_ranges has cut, and by
\* write_content_with_provider, which does not look at the status.
Written(a, provided) ==
  IF a.ranges = <<>> \/ (~provided /\ a.status # 206) \/ a.length = 0
    THEN Whole(a.length)
  ELSE IF Len(a.ranges) = 1 THEN Part(a.ranges[1])
  ELSE MultipartRanges(a.ranges)
=============================================================================
