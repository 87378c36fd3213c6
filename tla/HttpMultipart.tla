---------------------------- MODULE HttpMultipart ----------------------------
(***************************************************************************)
(* Forms as multipart/form-data: what serialize_multipart_formdata writes, *)
(* and MultipartFormDataParser, which gets it in pieces of any size (as    *)
(* much as a read of the stream returned) and hands out the items.         *)
(*                                                                         *)
(* A text is a sequence of bytes, in which a whole header line is one      *)
(* symbol: a number from Names for "Content-Disposition: form-data;        *)
(* name=...", from Types for "Content-Type: ...".                          *)
(***************************************************************************)
EXTENDS HttpText

CONSTANTS
  Forms,     \* the forms sent: sequences of items [name, type, content]
  LineSize,  \* the number of bytes of a header line
  FileMax    \* CPPHTTPLIB_MULTIPART_FORM_DATA_FILE_MAX_COUNT

Names == 300..399
Types == 400..499
NoType == 0
Dash == <<45, 45>>
Boundary == <<98>>
DashBoundaryCrLf == Dash \o Boundary \o CrLf
CrLfDashBoundary == CrLf \o Dash \o Boundary

ASSUME FileMaxAssumption == FileMax \in Nat
ASSUME LineSizeAssumption == LineSize \in [Names \cup Types -> Nat \ {0}]

\* A boundary is drawn at random so that no content has one.
ASSUME FormsAssumption ==
  \A f \in Forms :
    /\ f \in Seq([name : Names, type : Types \cup {NoType}, content : Seq(Bytes)])
    /\ \A i \in DOMAIN f : \A k \in 1..(Len(f[i].content) - Len(CrLfDashBoundary) + 1) :
         SubSeq(f[i].content, k, k + Len(CrLfDashBoundary) - 1) # CrLfDashBoundary

VARIABLES
  form,    \* the items sent
  rest,    \* bytes of the body that the parser has not been given
  opening, \* history: the first piece had the "whole" opening or a "part"
  state,   \* state_: 0 opening boundary, 1 entry, 2 headers, 3 body, 4 boundary
  buf,     \* the buffer between buf_spos_ and buf_epos_
  valid,   \* is_valid_
  file,    \* file_: name and type of the headers so far
  items,   \* the items handed out
  pc       \* "wait" for a piece, "parse" in the loop of parse, "lines" in the
           \* loop over header lines within, "ok", "failed"

formVars == <<form, rest, opening, state, buf, valid, file, items, pc>>

\* serialize_multipart_formdata_item_begin.
ItemBegin(item) ==
  Dash \o Boundary \o CrLf
    \o <<item.name>> \o CrLf
    \o (IF item.type = NoType THEN <<>> ELSE <<item.type>> \o CrLf)
    \o CrLf

\* serialize_multipart_formdata.
Serialized(its) ==
  FlattenSeq([i \in DOMAIN its |-> ItemBegin(its[i]) \o its[i].content \o CrLf])
    \o Dash \o Boundary \o Dash \o CrLf

NoFile == [name |-> 0, type |-> NoType]

FormInit ==
  /\ form \in Forms
  /\ rest = Serialized(form)
  /\ opening = "none" /\ state = 0 /\ buf = <<>> /\ valid = FALSE
  /\ file = NoFile /\ items = <<>> /\ pc = "wait"

-----------------------------------------------------------------------------
\* buf_find: the offset of s in the buffer, or the size of the buffer.
BufFind(s) ==
  LET at == {k \in 0..(Len(buf) - Len(s)) : SubSeq(buf, k + 1, k + Len(s)) = s}
  IN  IF at = {} THEN Len(buf) ELSE CHOOSE k \in at : \A m \in at : k <= m
BufStartsWith(s) == IsPrefix(s, buf)
BufErase(n) == buf' = SubSeq(buf, n + 1, Len(buf))

\* The bytes that the first n symbols of the buffer stand for.
BufBytes(n) ==
  FoldLeft(LAMBDA m, c : m + IF c \in DOMAIN LineSize THEN LineSize[c] ELSE 1,
           0, SubSeq(buf, 1, n))

Fail == pc' = "failed"
Parsing(s) == pc = "parse" /\ buf # <<>> /\ state = s

\* A piece arrives: buf_append, and the loop begins.
Receive(n) ==
  /\ pc = "wait" /\ n \in 1..Len(rest)
  /\ buf' = buf \o SubSeq(rest, 1, n)
  /\ rest' = SubSeq(rest, n + 1, Len(rest))
  /\ opening' = IF opening # "none" THEN opening
                ELSE IF n >= Len(DashBoundaryCrLf) THEN "whole" ELSE "part"
  /\ pc' = "parse"
  /\ UNCHANGED <<form, state, valid, file, items>>

\* The buffer is used up: parse returns true.
ParseReturns ==
  /\ pc \in {"parse", "lines"} /\ buf = <<>>
  /\ pc' = "wait"
  /\ UNCHANGED <<form, rest, opening, state, buf, valid, file, items>>

\* The opening boundary: all before it is erased, and all of the buffer if it
\* is not there.
OpeningBoundary ==
  /\ Parsing(0)
  /\ LET at == BufFind(DashBoundaryCrLf)
     IN  IF at = Len(buf)
           THEN BufErase(at) /\ pc' = "wait" /\ UNCHANGED state
           ELSE BufErase(at + Len(DashBoundaryCrLf)) /\ state' = 1 /\ UNCHANGED pc
  /\ UNCHANGED <<form, rest, opening, valid, file, items>>

NewEntry ==
  /\ Parsing(1)
  /\ file' = NoFile
  /\ state' = 2
  /\ UNCHANGED <<form, rest, opening, buf, valid, items, pc>>

\* One header line, the empty line at their end (header_callback, which may
\* refuse and does from the last allowed file on), or not a whole line yet.
\* What is too long for a line is refused, but where a line follows another in
\* the same piece nobody looks.
Header ==
  /\ pc \in {"parse", "lines"} /\ buf # <<>> /\ state = 2
  /\ LET at == BufFind(CrLf)
     IN  IF pc = "parse" /\ BufBytes(at) > HeaderMax
           THEN Fail /\ UNCHANGED <<state, buf, valid, file, items>>
         ELSE IF at = Len(buf)
           THEN pc' = "wait" /\ UNCHANGED <<state, buf, valid, file, items>>
         ELSE IF at = 0
           THEN \/ /\ Len(items) < FileMax
                   /\ items' = Append(items, [name |-> file.name, type |-> file.type,
                                              content |-> <<>>])
                   /\ BufErase(Len(CrLf)) /\ state' = 3 /\ pc' = "parse"
                   /\ UNCHANGED <<valid, file>>
                \/ Fail /\ valid' = FALSE /\ UNCHANGED <<state, buf, file, items>>
         ELSE /\ file' = IF buf[1] \in Types THEN [file EXCEPT !.type = buf[1]]
                         ELSE [file EXCEPT !.name = buf[1]]
              /\ BufErase(at + Len(CrLf)) /\ pc' = "lines"
              /\ UNCHANGED <<state, valid, items>>
  /\ UNCHANGED <<form, rest, opening>>

\* content_callback: what is certain to be content is handed out.
Content(n) ==
  items' = [items EXCEPT ![Len(items)].content = @ \o SubSeq(buf, 1, n)]

Body ==
  /\ Parsing(3)
  /\ LET at == BufFind(CrLfDashBoundary)
         sure == Len(buf) - Len(CrLfDashBoundary)
     IN  IF sure < 0 THEN pc' = "wait" /\ UNCHANGED <<state, buf, items>>
         ELSE IF at < Len(buf)
           THEN /\ Content(at) /\ BufErase(at + Len(CrLfDashBoundary))
                /\ state' = 4 /\ UNCHANGED pc
           ELSE /\ Content(sure) /\ BufErase(sure)
                /\ pc' = "wait" /\ UNCHANGED state
  /\ UNCHANGED <<form, rest, opening, valid, file>>

\* content_callback refuses.
BodyRefused ==
  /\ Parsing(3)
  /\ Len(buf) > Len(CrLfDashBoundary) \/ BufFind(CrLfDashBoundary) < Len(buf)
  /\ Fail /\ valid' = FALSE
  /\ UNCHANGED <<form, rest, opening, state, buf, file, items>>

\* Mutant: what cannot be decided yet is dropped.
AfterBoundaryForgets ==
  /\ Parsing(4)
  /\ IF BufStartsWith(CrLf)
       THEN BufErase(2) /\ state' = 1 /\ UNCHANGED <<valid, pc>>
       ELSE /\ valid' = BufStartsWith(Dash)
            /\ buf' = <<>> /\ UNCHANGED <<state, pc>>
  /\ UNCHANGED <<form, rest, opening, file, items>>

\* After a boundary: another entry, or the end and what follows it is ignored.
AfterBoundary ==
  /\ Parsing(4)
  /\ IF BufStartsWith(CrLf)
       THEN BufErase(2) /\ state' = 1 /\ UNCHANGED <<valid, pc>>
       ELSE IF BufStartsWith(Dash)
         THEN valid' = TRUE /\ buf' = <<>> /\ UNCHANGED <<state, pc>>
         ELSE pc' = "wait" /\ UNCHANGED <<state, buf, valid>>
  /\ UNCHANGED <<form, rest, opening, file, items>>

\* The content has ended, complete or cut off, and read_content_core asks
\* is_valid.
Ends ==
  /\ pc = "wait"
  /\ pc' = IF valid THEN "ok" ELSE "failed"
  /\ UNCHANGED <<form, rest, opening, state, buf, valid, file, items>>

FormNext ==
  \/ \E n \in 1..Len(rest) : Receive(n)
  \/ ParseReturns \/ OpeningBoundary \/ NewEntry \/ Header
  \/ Body \/ BodyRefused \/ AfterBoundary \/ Ends

-----------------------------------------------------------------------------
\* Whatever the sizes of the pieces, what has been handed out is the beginning
\* of what was sent, no byte of a boundary taken for content or the other way
\* round; a body accepted as valid has brought all of it; and a form that came
\* whole and was not refused by a callback or for a long line is accepted, the
\* parser never waiting for more of it.  It holds when the opening boundary came
\* in one piece (see OpeningBoundary), and a form without items is always rejected.
FormArrives ==
  opening = "whole" =>
    /\ Len(items) <= Len(form)
    /\ \A i \in DOMAIN items :
         /\ items[i].name = form[i].name /\ items[i].type = form[i].type
         /\ IsPrefix(items[i].content, form[i].content)
         /\ i < Len(items) => items[i] = form[i]
    /\ valid => items = form
    /\ form # <<>> /\ pc = "wait" /\ rest = <<>> => valid
=============================================================================
