--------------------------- MODULE HttpFormatsProofs ---------------------------
(***************************************************************************)
(* Theorems about the forms, the files and the ranges of HttpFormats: a    *)
(* form arrives as it was sent, in whatever pieces it is read; what is     *)
(* served lies below its mount point; a range that was asked for is read   *)
(* back and answered with what it names.                                   *)
(***************************************************************************)
EXTENDS HttpTextProofs

-----------------------------------------------------------------------------
(***************************************************************************)
(* Forms: the invariant.  Left is what the parser has not used up yet; it  *)
(* is at each state the end of the text sent from some place on.           *)
(***************************************************************************)
Left == buf \o rest

TypeLine(item) == IF item.type = NoType THEN <<>> ELSE <<item.type>> \o CrLf

\* The text from some place of an item on, t being what follows the boundary
\* behind it.
FromContent(item, t) == item.content \o (CrLfDashBoundary \o t)
FromEmptyLine(item, t) == CrLf \o FromContent(item, t)
FromType(item, t) == TypeLine(item) \o FromEmptyLine(item, t)
FromName(item, t) == (<<item.name>> \o CrLf) \o FromType(item, t)

\* f[k] is what follows the boundary behind the first k items.
IsAfter(f, its) ==
  /\ f \in [0 .. Len(its) -> Seq(Nat)]
  /\ f[Len(its)] = Dash \o CrLf
  /\ \A k \in 1 .. Len(its) : f[k - 1] = CrLf \o FromName(its[k], f[k])
After(its) == CHOOSE f : IsAfter(f, its)

\* The items handed out, of any names and types.
ItemsOut == [name : Nat, type : Nat, content : Seq(Nat)]

Typed ==
  /\ form \in Forms
  /\ rest \in Seq(Nat) /\ buf \in Seq(Nat)
  /\ items \in Seq(ItemsOut)
  /\ file \in [name : Nat, type : Nat]
  /\ state = 3 => items # <<>>

Complete(k) == \A i \in 1 .. k : items[i] = form[i]

AtOpening ==
  /\ state = 0 /\ items = <<>> /\ pc = "parse" /\ Len(buf) >= 5
  /\ Left = DashBoundaryCrLf \o FromName(form[1], After(form)[1])

AtEntry ==
  LET k == Len(items) + 1
  IN  /\ state = 1 /\ k <= Len(form) /\ Complete(k - 1)
      /\ Left = FromName(form[k], After(form)[k])

AtHeader ==
  LET k == Len(items) + 1
      item == form[k]
      t == After(form)[k]
  IN  /\ state = 2 /\ k <= Len(form) /\ Complete(k - 1)
      /\ \/ file = NoFile /\ Left = FromName(item, t)
         \/ file = [name |-> item.name, type |-> NoType] /\ Left = FromType(item, t)
         \/ file = [name |-> item.name, type |-> item.type] /\ Left = FromEmptyLine(item, t)

AtContent ==
  LET k == Len(items)
  IN  /\ state = 3 /\ k > 0 /\ k <= Len(form) /\ Complete(k - 1)
      /\ items[k].name = form[k].name /\ items[k].type = form[k].type
      /\ \E c \in Seq(Nat) : /\ form[k].content = items[k].content \o c
                             /\ Left = c \o (CrLfDashBoundary \o After(form)[k])

AtBoundary ==
  LET k == Len(items)
  IN  /\ state = 4 /\ k > 0 /\ k <= Len(form) /\ Complete(k)
      /\ Left = After(form)[k]

\* The parser is at one of these places, and waits only for what comes.
Reading ==
  /\ pc \in {"wait", "parse", "lines"} /\ ~valid
  /\ pc = "wait" => rest # <<>>
  /\ AtOpening \/ AtEntry \/ AtHeader \/ AtContent \/ AtBoundary

\* All has been handed out; the end of the line behind the last boundary may
\* still come.
Accepted ==
  /\ valid /\ items = form
  /\ \/ state = 4 /\ Len(buf) + Len(rest) <= 2
     \/ state = 1 /\ buf = <<>> /\ rest = <<>>

ItemsBegin ==
  /\ Len(items) <= Len(form)
  /\ \A i \in DOMAIN items :
       /\ items[i].name = form[i].name /\ items[i].type = form[i].type
       /\ IsPrefix(items[i].content, form[i].content)
       /\ i < Len(items) => items[i] = form[i]

\* A callback has refused, a line was too long, or the body was cut off.
Rejected == pc = "failed" /\ ~valid /\ ItemsBegin

\* Nothing of the form has been given to the parser.
Unread ==
  /\ rest = Serialized(form) /\ buf = <<>> /\ state = 0 /\ items = <<>> /\ ~valid
  /\ pc \in {"wait", "failed"}

\* In a form without items no boundary is followed by a line break.
NoEntry ==
  /\ state = 0 /\ items = <<>> /\ ~valid
  /\ \A i \in 1 .. Len(Left) - 1 : Left[i] = 98 => Left[i + 1] # 13

FormInv ==
  /\ Typed
  /\ form = <<>> => NoEntry
  /\ form # <<>> /\ opening = "none" => Unread
  /\ form # <<>> /\ opening = "whole" => Accepted \/ Rejected \/ Reading

-----------------------------------------------------------------------------
(***************************************************************************)
(* Sequences that are read in pieces.                                      *)
(***************************************************************************)
\* b is the first part of p \o q and longer than p: it begins with p, and what
\* follows p in b is the first part of q.
BeginsWith(S, b, r, p, q) ==
  /\ b \in Seq(S) /\ r \in Seq(S) /\ p \in Seq(S) /\ q \in Seq(S)
  /\ b \o r = p \o q /\ Len(p) <= Len(b)

Without(S, b, r, p, q) ==
  /\ SubSeq(b, 1, Len(p)) = p
  /\ SubSeq(b, Len(p) + 1, Len(b)) \in Seq(S)
  /\ SubSeq(b, Len(p) + 1, Len(b)) \o r = q

\* What a buffer begins with can be taken off it.
LEMMA CutOff ==
  ASSUME NEW S, NEW b, NEW r, NEW p, NEW q, BeginsWith(S, b, r, p, q)
  PROVE  Without(S, b, r, p, q)
  <1> DEFINE e == SubSeq(b, Len(p) + 1, Len(b))
             h == SubSeq(b, 1, Len(p))
  <1>1. /\ b \in Seq(S) /\ r \in Seq(S) /\ p \in Seq(S) /\ q \in Seq(S)
        /\ b \o r = p \o q /\ Len(p) <= Len(b)
    BY DEF BeginsWith
  <1>2. Len(b) \in Nat /\ Len(r) \in Nat /\ Len(p) \in Nat /\ Len(q) \in Nat
    BY <1>1, LenProperties
  <1>3. /\ b \o r \in Seq(S) /\ Len(b \o r) = Len(b) + Len(r)
        /\ \A i \in 1 .. Len(b) + Len(r) :
             (b \o r)[i] = IF i <= Len(b) THEN b[i] ELSE r[i - Len(b)]
    BY <1>1, ConcatProperties
  <1>4. /\ Len(p \o q) = Len(p) + Len(q)
        /\ \A i \in 1 .. Len(p) + Len(q) :
             (p \o q)[i] = IF i <= Len(p) THEN p[i] ELSE q[i - Len(p)]
    BY <1>1, ConcatProperties
  <1>5. Len(p) + Len(q) = Len(b) + Len(r)
    BY <1>1, <1>3, <1>4
  <1>6. /\ e \in Seq(S) /\ Len(e) = Len(b) - Len(p)
        /\ \A i \in 1 .. Len(b) - Len(p) : e[i] = b[Len(p) + i]
    <2>1. Len(p) + 1 \in 1 .. Len(b) + 1 /\ Len(b) \in (Len(p) + 1) - 1 .. Len(b)
      BY <1>1, <1>2
    <2>2. /\ e \in Seq(S) /\ Len(e) = Len(b) - (Len(p) + 1) + 1
          /\ \A i \in 1 .. Len(b) - (Len(p) + 1) + 1 : e[i] = b[(Len(p) + 1) + i - 1]
      BY <1>1, <2>1, PieceOf
    <2> HIDE DEF e
    <2> QED
      BY <1>2, <2>2
  <1>7. /\ h \in Seq(S) /\ Len(h) = Len(p)
        /\ \A i \in 1 .. Len(p) : h[i] = b[i]
    <2>1. 1 \in 1 .. Len(b) + 1 /\ Len(p) \in 1 - 1 .. Len(b)
      BY <1>1, <1>2
    <2>2. /\ h \in Seq(S) /\ Len(h) = Len(p) - 1 + 1
          /\ \A i \in 1 .. Len(p) - 1 + 1 : h[i] = b[1 + i - 1]
      BY <1>1, <2>1, PieceOf
    <2> HIDE DEF h
    <2> QED
      BY <1>2, <2>2
  <1> HIDE DEF e, h
  <1>8. h = p
    <2>1. ASSUME NEW i \in 1 .. Len(h)
          PROVE  h[i] = p[i]
      <3>1. i \in 1 .. Len(b) + Len(r) /\ i \in 1 .. Len(p) + Len(q) /\ i <= Len(b) /\ i <= Len(p)
        BY <1>1, <1>2, <1>7
      <3> QED
        BY <1>1, <1>3, <1>4, <1>7, <3>1
    <2> QED
      BY <1>1, <1>7, <2>1, SeqEqual
  <1>9. /\ e \o r \in Seq(S) /\ Len(e \o r) = Len(e) + Len(r)
        /\ \A i \in 1 .. Len(e) + Len(r) :
             (e \o r)[i] = IF i <= Len(e) THEN e[i] ELSE r[i - Len(e)]
    BY <1>1, <1>6, ConcatProperties, Zenon
  <1>10. Len(e \o r) = Len(q)
    BY <1>2, <1>5, <1>6, <1>9
  <1>11. ASSUME NEW i \in 1 .. Len(e \o r)
         PROVE  (e \o r)[i] = q[i]
    <2> DEFINE j == Len(p) + i
    <2>1. /\ i \in 1 .. Len(e) + Len(r) /\ j \in 1 .. Len(b) + Len(r)
          /\ j \in 1 .. Len(p) + Len(q) /\ ~(j <= Len(p)) /\ j - Len(p) = i
          /\ j <= Len(b) <=> i <= Len(e)
          /\ j - Len(b) = i - Len(e)
          /\ i <= Len(e) => i \in 1 .. Len(b) - Len(p)
      BY <1>1, <1>2, <1>5, <1>6, <1>9, <1>10, SMTT(20)
    <2>2. (p \o q)[j] = q[i]
      BY <1>4, <2>1
    <2>3. (b \o r)[j] = IF i <= Len(e) THEN b[j] ELSE r[i - Len(e)]
      BY <1>3, <2>1, Zenon
    <2>4. i <= Len(e) => e[i] = b[j]
      BY <1>6, <2>1, Zenon
    <2> QED
      BY <1>1, <1>9, <2>1, <2>2, <2>3, <2>4
  <1>12. e \o r = q
    BY <1>1, <1>9, <1>10, <1>11, SeqEqual, Zenon
  <1> QED
    BY <1>6, <1>8, <1>12, Zenon DEF Without, e, h

\* s lies nowhere in p \o s before the end of p.
FirstBehind(p, s) == \A k \in Nat : k < Len(p) => SubSeq(p \o s, k + 1, k + Len(s)) # s

\* What is searched in the buffer lies behind p, in the buffer or in what follows.
Ahead(p, s, q) ==
  /\ buf \in Seq(Nat) /\ rest \in Seq(Nat)
  /\ p \in Seq(Nat) /\ s \in Seq(Nat) /\ q \in Seq(Nat)
  /\ s # <<>> /\ Left = p \o (s \o q) /\ FirstBehind(p, s)

Found(p, s, q) ==
  /\ BufFind(s) = Len(p) /\ Len(p) + Len(s) <= Len(buf) /\ Len(p) < Len(buf)
  /\ SubSeq(buf, 1, Len(p)) = p
  /\ SubSeq(buf, Len(p) + Len(s) + 1, Len(buf)) \in Seq(Nat)
  /\ SubSeq(buf, Len(p) + Len(s) + 1, Len(buf)) \o rest = q

NotYet(p, s) ==
  /\ BufFind(s) = Len(buf) /\ Len(buf) < Len(p) + Len(s) /\ rest # <<>>

\* buf_find finds it where it is first, once the buffer holds all of it.
LEMMA FindFirst ==
  ASSUME NEW p, NEW s, NEW q, Ahead(p, s, q)
  PROVE  Found(p, s, q) \/ NotYet(p, s)
  <1> DEFINE n == Len(s)
             At(k) == SubSeq(buf, k + 1, k + n) = s
             at == {k \in 0 .. Len(buf) - n : At(k)}
             ps == p \o s
  <1>1. /\ buf \in Seq(Nat) /\ rest \in Seq(Nat)
        /\ p \in Seq(Nat) /\ s \in Seq(Nat) /\ q \in Seq(Nat)
        /\ s # <<>> /\ Left = p \o (s \o q)
    BY DEF Ahead
  <1>2. /\ Len(buf) \in Nat /\ Len(rest) \in Nat /\ Len(p) \in Nat /\ n \in Nat \ {0}
        /\ Len(q) \in Nat
    BY <1>1, LenProperties, EmptySeq
  <1>3. ps \in Seq(Nat) /\ Len(ps) = Len(p) + n
    BY <1>1, ConcatProperties
  <1>4. Left = ps \o q
    <2>1. ThreeAsOne(Nat, p, s, q)
      BY <1>1, ConcatThree DEF Three
    <2>2. (p \o s) \o q = p \o (s \o q)
      BY <2>1 DEF ThreeAsOne
    <2> QED
      BY <1>1, <2>2, Zenon
  <1>5. BufFind(s) = IF at = {} THEN Len(buf)
                     ELSE CHOOSE k \in at : \A m \in at : k <= m
    BY DEF BufFind
  <1>6. \A k \in Nat : k < Len(p) => SubSeq(ps, k + 1, k + n) # s
    BY Zenon DEF Ahead, FirstBehind
  <1>7. SubSeq(ps, Len(p) + 1, Len(p) + n) = s
    BY <1>1, EndOfConcat
  <1> HIDE DEF ps
  <1>8. ASSUME NEW k \in Nat, k + n <= Len(buf), k + n <= Len(ps)
        PROVE  SubSeq(buf, k + 1, k + n) = SubSeq(ps, k + 1, k + n)
    <2> DEFINE i == k + 1
               j == k + n
    <2>1. i \in 1 .. Len(buf) /\ j \in 1 .. Len(buf) /\ i \in 1 .. Len(ps) /\ j \in 1 .. Len(ps)
      BY <1>2, <1>3, <1>8
    <2> HIDE DEF i, j, n
    <2>2. SubSeq(buf \o rest, i, j) = SubSeq(buf, i, j)
      BY <1>1, <2>1, SubSeqOfConcat1
    <2>3. SubSeq(ps \o q, i, j) = SubSeq(ps, i, j)
      BY <1>1, <1>3, <2>1, SubSeqOfConcat1, Zenon
    <2>4. SubSeq(buf, i, j) = SubSeq(ps, i, j)
      BY <1>4, <2>2, <2>3, Zenon DEF Left
    <2> QED
      BY <2>4 DEF i, j, n
  <1> HIDE DEF n
  <1>9. CASE Len(p) + n <= Len(buf)
    <2>1. Len(p) \in at
      <3>1. /\ Len(p) \in 0 .. Len(buf) - n
            /\ Len(p) + n <= Len(buf) /\ Len(p) + n <= Len(ps)
        BY <1>2, <1>3, <1>9
      <3>2. SubSeq(buf, Len(p) + 1, Len(p) + n) = SubSeq(ps, Len(p) + 1, Len(p) + n)
        BY <1>2, <1>8, <3>1, Zenon
      <3>3. At(Len(p))
        BY <1>7, <3>2, Zenon
      <3> QED
        BY <3>1, <3>3
    <2>2. \A k \in at : k \in Nat /\ ~(k < Len(p))
      <3> SUFFICES ASSUME NEW k \in at, k < Len(p) PROVE FALSE
        BY <1>2
      <3>1. k \in Nat /\ k + n <= Len(buf) /\ k + n <= Len(ps) /\ At(k)
        BY <1>2, <1>3, <1>9, SMTT(20)
      <3> QED
        BY <1>6, <1>8, <3>1, Zenon
    <2>3. BufFind(s) = Len(p)
      <3> DEFINE x == CHOOSE k \in at : \A m \in at : k <= m
      <3>1. \A m \in at : Len(p) <= m
        BY <1>2, <2>2
      <3>2. x \in at /\ \A m \in at : x <= m
        <4> HIDE DEF at
        <4> QED
          BY <2>1, <3>1, Zenon
      <3>3. BufFind(s) = x
        BY <1>5, <2>1, Zenon
      <3> HIDE DEF x
      <3>4. x \in Nat /\ x <= Len(p) /\ ~(x < Len(p))
        BY <2>1, <2>2, <3>2, Zenon
      <3> QED
        BY <1>2, <3>3, <3>4
    <2>4. Without(Nat, buf, rest, ps, q)
      <3>1. BeginsWith(Nat, buf, rest, ps, q)
        BY <1>1, <1>3, <1>4, <1>9 DEF BeginsWith, Left
      <3> QED
        BY <3>1, CutOff
    <2>5. Without(Nat, buf, rest, p, s \o q)
      <3>1. s \o q \in Seq(Nat) /\ Len(p) <= Len(buf)
        BY <1>1, <1>2, <1>9, ConcatProperties
      <3>2. BeginsWith(Nat, buf, rest, p, s \o q)
        BY <1>1, <3>1 DEF BeginsWith, Left
      <3> QED
        BY <3>2, CutOff
    <2>6. Len(p) < Len(buf)
      BY <1>2, <1>9
    <2> QED
      BY <1>3, <1>9, <2>3, <2>4, <2>5, <2>6, Zenon DEF Found, Without, n
  <1>10. CASE Len(buf) < Len(p) + n
    <2>1. at = {}
      <3> SUFFICES ASSUME NEW k \in at PROVE FALSE
        OBVIOUS
      <3>1. k \in Nat /\ k + n <= Len(buf) /\ k + n <= Len(ps) /\ k < Len(p) /\ At(k)
        BY <1>2, <1>3, <1>10
      <3> QED
        BY <1>6, <1>8, <3>1, Zenon
    <2>2. rest # <<>>
      <3>1. Len(buf) + Len(rest) = Len(ps) + Len(q)
        <4>1. Len(buf \o rest) = Len(buf) + Len(rest)
          BY <1>1, ConcatProperties
        <4>2. Len(ps \o q) = Len(ps) + Len(q)
          BY <1>1, <1>3, ConcatProperties, Zenon
        <4> QED
          BY <1>4, <4>1, <4>2 DEF Left
      <3> QED
        BY <1>2, <1>3, <1>10, <3>1, EmptySeq
    <2> QED
      BY <1>5, <1>10, <2>1, <2>2 DEF NotYet, n
  <1> QED
    BY <1>2, <1>9, <1>10

-----------------------------------------------------------------------------
(***************************************************************************)
(* The lines of a form.                                                    *)
(***************************************************************************)
\* The items of a form, all that the forms sent promise about them.
Items == [name : Names, type : Types \cup {NoType}, content : Seq(Bytes)]

\* No content has the boundary.
LEMMA FormItems ==
  ASSUME NEW f \in Forms
  PROVE  /\ f \in Seq(Items)
         /\ \A i \in 1 .. Len(f) :
              \A k \in 1 .. (Len(f[i].content) - Len(CrLfDashBoundary) + 1) :
                SubSeq(f[i].content, k, k + Len(CrLfDashBoundary) - 1) # CrLfDashBoundary
  <1>1. f \in Seq(Items)
    BY FormsAssumption, Zenon DEF Items
  <1>2. DOMAIN f = 1 .. Len(f)
    BY <1>1, LenProperties
  <1> QED
    BY <1>1, <1>2, FormsAssumption, Zenon

\* The name, the type and the content of an item.
LEMMA ItemType ==
  ASSUME NEW item \in Items
  PROVE  /\ item.name \in Nat /\ item.type \in Nat /\ item.content \in Seq(Nat)
         /\ item.name # 13 /\ item.type # 13 /\ item.name \notin Types /\ item.name # NoType
         /\ item.type # NoType => item.type \in Types
  <1>1. item.content \in Seq(Nat)
    <2>1. item.content \in Seq(Bytes)
      BY DEF Items
    <2>2. Bytes \subseteq Nat
      BY DEF Bytes
    <2> QED
      BY <2>1, <2>2, SeqOfNumbers, Zenon
  <1>2. item.name \in Names /\ item.type \in Types \cup {NoType}
    BY DEF Items
  <1>3. /\ item.name \in Nat /\ item.name # 13 /\ item.name \notin Types
        /\ item.name # NoType
    BY <1>2 DEF Names, Types, NoType
  <1>4. /\ item.type \in Nat /\ item.type # 13
        /\ item.type # NoType => item.type \in Types
    BY <1>2 DEF Types, NoType
  <1> QED
    BY <1>1, <1>3, <1>4

\* The bytes of the lines of a form.
LEMMA LineBytes ==
  /\ Dash = <<45, 45>> /\ CrLf = <<13, 10>> /\ Boundary = <<98>>
  /\ DashBoundaryCrLf = <<45, 45, 98, 13, 10>>
  /\ CrLfDashBoundary = <<13, 10, 45, 45, 98>>
  <1> DEFINE d == <<45, 45>>
             b == <<98>>
             c == <<13, 10>>
             db == <<45, 45, 98>>
             cd == <<13, 10, 45, 45>>
             dbc == <<45, 45, 98, 13, 10>>
             cdb == <<13, 10, 45, 45, 98>>
             N == Nat
  <1>1. /\ d \in Seq(Nat) /\ Len(d) = 2 /\ d[1] = 45 /\ d[2] = 45
        /\ b \in Seq(Nat) /\ Len(b) = 1 /\ b[1] = 98
        /\ c \in Seq(Nat) /\ Len(c) = 2 /\ c[1] = 13 /\ c[2] = 10
    OBVIOUS
  <1>2. /\ db \in Seq(Nat) /\ Len(db) = 3 /\ db[1] = 45 /\ db[2] = 45 /\ db[3] = 98
        /\ cd \in Seq(Nat) /\ Len(cd) = 4
        /\ cd[1] = 13 /\ cd[2] = 10 /\ cd[3] = 45 /\ cd[4] = 45
    OBVIOUS
  <1>3. /\ dbc \in Seq(Nat) /\ Len(dbc) = 5
        /\ dbc[1] = 45 /\ dbc[2] = 45 /\ dbc[3] = 98 /\ dbc[4] = 13 /\ dbc[5] = 10
        /\ cdb \in Seq(Nat) /\ Len(cdb) = 5
        /\ cdb[1] = 13 /\ cdb[2] = 10 /\ cdb[3] = 45 /\ cdb[4] = 45 /\ cdb[5] = 98
    OBVIOUS
  <1> HIDE DEF d, b, c, db, cd, dbc, cdb, N
  <1>4. d \o b = db
    <2>1. \A i \in 1 .. 2 : i = 1 \/ i = 2
      OBVIOUS
    <2>2. \A i \in 1 .. 1 : i = 1
      OBVIOUS
    <2>3. Len(db) = Len(d) + Len(b) /\ \A i \in 1 .. Len(d) : db[i] = d[i]
      BY <1>1, <1>2, <1>3, <2>1
    <2>4. \A i \in 1 .. Len(b) : db[Len(d) + i] = b[i]
      BY <1>1, <1>2, <1>3, <2>2
    <2>5. d \in Seq(N) /\ b \in Seq(N) /\ db \in Seq(N)
      BY <1>1, <1>2, <1>3 DEF N
    <2> QED
      BY <2>3, <2>4, <2>5, ConcatIs, Zenon
  <1>5. db \o c = dbc
    <2>1. \A i \in 1 .. 3 : i = 1 \/ i = 2 \/ i = 3
      OBVIOUS
    <2>2. \A i \in 1 .. 2 : i = 1 \/ i = 2
      OBVIOUS
    <2>3. Len(dbc) = Len(db) + Len(c) /\ \A i \in 1 .. Len(db) : dbc[i] = db[i]
      BY <1>1, <1>2, <1>3, <2>1
    <2>4. \A i \in 1 .. Len(c) : dbc[Len(db) + i] = c[i]
      BY <1>1, <1>2, <1>3, <2>2
    <2>5. db \in Seq(N) /\ c \in Seq(N) /\ dbc \in Seq(N)
      BY <1>1, <1>2, <1>3 DEF N
    <2> QED
      BY <2>3, <2>4, <2>5, ConcatIs, Zenon
  <1>6. c \o d = cd
    <2>1. \A i \in 1 .. 2 : i = 1 \/ i = 2
      OBVIOUS
    <2>2. \A i \in 1 .. 2 : i = 1 \/ i = 2
      OBVIOUS
    <2>3. Len(cd) = Len(c) + Len(d) /\ \A i \in 1 .. Len(c) : cd[i] = c[i]
      BY <1>1, <1>2, <1>3, <2>1
    <2>4. \A i \in 1 .. Len(d) : cd[Len(c) + i] = d[i]
      BY <1>1, <1>2, <1>3, <2>2
    <2>5. c \in Seq(N) /\ d \in Seq(N) /\ cd \in Seq(N)
      BY <1>1, <1>2, <1>3 DEF N
    <2> QED
      BY <2>3, <2>4, <2>5, ConcatIs, Zenon
  <1>7. cd \o b = cdb
    <2>1. \A i \in 1 .. 4 : i = 1 \/ i = 2 \/ i = 3 \/ i = 4
      OBVIOUS
    <2>2. \A i \in 1 .. 1 : i = 1
      OBVIOUS
    <2>3. Len(cdb) = Len(cd) + Len(b) /\ \A i \in 1 .. Len(cd) : cdb[i] = cd[i]
      BY <1>1, <1>2, <1>3, <2>1
    <2>4. \A i \in 1 .. Len(b) : cdb[Len(cd) + i] = b[i]
      BY <1>1, <1>2, <1>3, <2>2
    <2>5. cd \in Seq(N) /\ b \in Seq(N) /\ cdb \in Seq(N)
      BY <1>1, <1>2, <1>3 DEF N
    <2> QED
      BY <2>3, <2>4, <2>5, ConcatIs, Zenon
  <1>8. (d \o b) \o c = dbc /\ (c \o d) \o b = cdb
    BY <1>4, <1>5, <1>6, <1>7, Zenon
  <1>9. Dash = d /\ CrLf = c /\ Boundary = b
    BY Zenon DEF Dash, CrLf, Boundary, d, b, c
  <1>10. DashBoundaryCrLf = dbc /\ CrLfDashBoundary = cdb
    BY <1>8, <1>9, Zenon DEF DashBoundaryCrLf, CrLfDashBoundary
  <1> QED
    BY <1>9, <1>10, Zenon DEF d, b, c, dbc, cdb

\* The lines of a form are sequences of numbers.
LEMMA LineTypes ==
  /\ Dash \in Seq(Nat) /\ CrLf \in Seq(Nat) /\ Boundary \in Seq(Nat)
  /\ DashBoundaryCrLf \in Seq(Nat) /\ CrLfDashBoundary \in Seq(Nat)
  /\ Len(Dash) = 2 /\ Len(CrLf) = 2 /\ Len(Boundary) = 1
  /\ Len(DashBoundaryCrLf) = 5 /\ Len(CrLfDashBoundary) = 5
  /\ CrLf # <<>> /\ DashBoundaryCrLf # <<>> /\ CrLfDashBoundary # <<>>
  BY LineBytes

\* What follows some place of an item is a sequence of numbers.
LEMMA FromTypes ==
  ASSUME NEW item \in Items, NEW t \in Seq(Nat)
  PROVE  /\ CrLfDashBoundary \o t \in Seq(Nat)
         /\ FromContent(item, t) \in Seq(Nat) /\ FromEmptyLine(item, t) \in Seq(Nat)
         /\ <<item.type>> \o CrLf \in Seq(Nat) /\ TypeLine(item) \in Seq(Nat)
         /\ FromType(item, t) \in Seq(Nat)
         /\ <<item.name>> \in Seq(Nat) /\ <<item.type>> \in Seq(Nat)
         /\ <<item.name>> \o CrLf \in Seq(Nat) /\ FromName(item, t) \in Seq(Nat)
  <1>1. item.name \in Nat /\ item.type \in Nat /\ item.content \in Seq(Nat)
    BY ItemType
  <1>2. CrLfDashBoundary \o t \in Seq(Nat)
    BY LineTypes, ConcatProperties
  <1>3. FromContent(item, t) \in Seq(Nat)
    BY <1>1, <1>2, ConcatProperties DEF FromContent
  <1>4. FromEmptyLine(item, t) \in Seq(Nat)
    BY <1>3, LineTypes, ConcatProperties DEF FromEmptyLine
  <1>5. <<item.name>> \in Seq(Nat) /\ <<item.type>> \in Seq(Nat)
    BY <1>1
  <1>6. <<item.name>> \o CrLf \in Seq(Nat) /\ <<item.type>> \o CrLf \in Seq(Nat)
    BY <1>5, LineTypes, ConcatProperties
  <1>7. TypeLine(item) \in Seq(Nat)
    <2>1. <<>> \in Seq(Nat)
      OBVIOUS
    <2> QED
      BY <1>6, <2>1, Zenon DEF TypeLine
  <1>8. FromType(item, t) \in Seq(Nat)
    BY <1>4, <1>7, ConcatProperties DEF FromType
  <1>9. FromName(item, t) \in Seq(Nat)
    BY <1>6, <1>8, ConcatProperties DEF FromName
  <1> QED
    BY <1>2, <1>3, <1>4, <1>5, <1>6, <1>7, <1>8, <1>9

-----------------------------------------------------------------------------
(***************************************************************************)
(* Where a line break or a boundary is found first.                        *)
(***************************************************************************)
\* At the beginning.
LEMMA FirstAtOnce ==
  ASSUME NEW s
  PROVE  FirstBehind(<<>>, s)
  BY DEF FirstBehind

\* A line break, behind one symbol.
LEMMA FirstBehindSymbol ==
  ASSUME NEW x \in Nat, x # 13
  PROVE  FirstBehind(<<x>>, CrLf)
  <1> DEFINE p == <<x>>
             w == p \o CrLf
  <1>1. p \in Seq(Nat) /\ Len(p) = 1 /\ p[1] = x
    OBVIOUS
  <1>2. CrLf \in Seq(Nat) /\ Len(CrLf) = 2 /\ CrLf[1] = 13
    BY LineBytes
  <1> HIDE DEF p
  <1>3. w \in Seq(Nat) /\ Len(w) = 3 /\ w[1] = x
    <2>1. /\ w \in Seq(Nat) /\ Len(w) = Len(p) + Len(CrLf)
          /\ \A i \in 1 .. Len(p) + Len(CrLf) :
               w[i] = IF i <= Len(p) THEN p[i] ELSE CrLf[i - Len(p)]
      BY <1>1, <1>2, ConcatProperties, Zenon
    <2> QED
      BY <1>1, <1>2, <2>1
  <1> HIDE DEF w
  <1>4. SubSeq(w, 1, 2) # CrLf
    <2>1. \A i \in 1 .. 2 : SubSeq(w, 1, 2)[i] = w[1 + i - 1]
      BY <1>3, PieceOf
    <2>2. SubSeq(w, 1, 2)[1] = x
      BY <1>3, <2>1
    <2> QED
      BY <1>2, <2>2
  <1>5. ASSUME NEW k \in Nat, k < Len(p)
        PROVE  SubSeq(w, k + 1, k + Len(CrLf)) # CrLf
    <2>1. k + 1 = 1 /\ k + Len(CrLf) = 2
      BY <1>1, <1>2, <1>5
    <2> QED
      BY <1>4, <2>1, Zenon
  <1> QED
    BY <1>5, Zenon DEF FirstBehind, w, p

\* A boundary, behind what is left of a content without one: its CR occurs
\* only at its beginning.
LEMMA FirstBehindContent ==
  ASSUME NEW x \in Seq(Nat), NEW d \in Seq(Nat), NEW c \in Seq(Nat), x = d \o c,
         \A k \in 1 .. (Len(x) - Len(CrLfDashBoundary) + 1) :
           SubSeq(x, k, k + Len(CrLfDashBoundary) - 1) # CrLfDashBoundary
  PROVE  FirstBehind(c, CrLfDashBoundary)
  <1> DEFINE s == CrLfDashBoundary
             w == c \o s
  <1>1. /\ s \in Seq(Nat) /\ Len(s) = 5 /\ s[1] = 13
        /\ s[2] # 13 /\ s[3] # 13 /\ s[4] # 13 /\ s[5] # 13
    BY LineBytes, LineTypes
  <1> HIDE DEF s
  <1>2. Len(c) \in Nat /\ Len(d) \in Nat
    BY LenProperties
  <1>3. Len(x) = Len(d) + Len(c)
    BY ConcatProperties
  <1>4. /\ w \in Seq(Nat) /\ Len(w) = Len(c) + 5
        /\ \A i \in 1 .. Len(c) + 5 : w[i] = IF i <= Len(c) THEN c[i] ELSE s[i - Len(c)]
    <2>1. /\ w \in Seq(Nat) /\ Len(w) = Len(c) + Len(s)
          /\ \A i \in 1 .. Len(c) + Len(s) :
               w[i] = IF i <= Len(c) THEN c[i] ELSE s[i - Len(c)]
      BY <1>1, ConcatProperties, Zenon
    <2> HIDE DEF w
    <2> QED
      BY <1>1, <2>1
  <1>5. ASSUME NEW k \in Nat, k < Len(c)
        PROVE  SubSeq(w, k + 1, k + 5) # s
    <2>1. CASE k + 5 <= Len(c)
      <3> DEFINE i == k + 1
                 j == k + 5
                 m == Len(d) + i
                 n == Len(d) + j
      <3>1. /\ i \in 1 .. Len(c) /\ j \in 1 .. Len(c)
            /\ m \in Len(d) + 1 .. Len(d) + Len(c) /\ n \in Len(d) + 1 .. Len(d) + Len(c)
            /\ m - Len(d) = i /\ n - Len(d) = j
            /\ m \in 1 .. (Len(x) - 5 + 1) /\ n = m + 5 - 1
        BY <1>2, <1>3, <2>1
      <3> HIDE DEF i, j, m, n
      <3>2. SubSeq(w, i, j) = SubSeq(c, i, j)
        BY <1>1, <3>1, SubSeqOfConcat1
      <3>3. SubSeq(x, m, n) = SubSeq(c, i, j)
        <4>1. SubSeq(d \o c, m, n) = SubSeq(c, m - Len(d), n - Len(d))
          <5>1. m \in Len(d) + 1 .. Len(d) + Len(c) /\ n \in Len(d) + 1 .. Len(d) + Len(c)
            BY <3>1
          <5> QED
            BY <5>1, SubSeqOfConcat2, SMTT(20)
        <4> QED
          BY <3>1, <4>1, Zenon
      <3>4. SubSeq(x, m, m + 5 - 1) # s
        BY <1>1, <3>1, Zenon DEF s
      <3> QED
        BY <3>1, <3>2, <3>3, <3>4, Zenon DEF i, j
    <2>2. CASE ~(k + 5 <= Len(c))
      <3> DEFINE j == Len(c) - k + 1
      <3>1. /\ j = 2 \/ j = 3 \/ j = 4 \/ j = 5
            /\ (k + 1) + j - 1 = Len(c) + 1
            /\ Len(c) + 1 \in 1 .. Len(c) + 5 /\ (Len(c) + 1) - Len(c) = 1
            /\ ~(Len(c) + 1 <= Len(c))
            /\ j \in 1 .. (k + 5) - (k + 1) + 1
        <4> DEFINE n == Len(c)
        <4>1. n \in Nat /\ k \in Nat /\ k < n /\ n < k + 5
          BY <1>2, <1>5, <2>2
        <4> HIDE DEF n
        <4>2. n - k + 1 = 2 \/ n - k + 1 = 3 \/ n - k + 1 = 4 \/ n - k + 1 = 5
          BY <4>1
        <4>3. /\ (k + 1) + (n - k + 1) - 1 = n + 1
              /\ n + 1 \in 1 .. n + 5 /\ (n + 1) - n = 1 /\ ~(n + 1 <= n)
              /\ (k + 5) - (k + 1) + 1 = 5
          BY <4>1
        <4>4. n - k + 1 \in 1 .. 5
          BY <4>1
        <4> QED
          BY <4>2, <4>3, <4>4, Zenon DEF n
      <3> HIDE DEF j
      <3>2. w[Len(c) + 1] = 13
        BY <1>1, <1>4, <3>1
      <3>3. SubSeq(w, k + 1, k + 5)[j] = w[(k + 1) + j - 1]
        <4>1. k + 1 \in 1 .. Len(w) + 1 /\ k + 5 \in (k + 1) - 1 .. Len(w)
          BY <1>2, <1>4, <1>5
        <4> HIDE DEF w
        <4> QED
          BY <1>4, <3>1, <4>1, PieceOf
      <3>4. s[j] # 13
        BY <1>1, <3>1, Zenon
      <3> QED
        BY <3>1, <3>2, <3>3, <3>4, Zenon
    <2> QED
      BY <2>1, <2>2, Zenon
  <1> QED
    BY <1>1, <1>5, Zenon DEF FirstBehind, s

-----------------------------------------------------------------------------
(***************************************************************************)
(* The text of a form, from the boundary behind each of its items on.      *)
(***************************************************************************)
\* There is such a function.
LEMMA AfterExists ==
  ASSUME NEW its \in Seq(Items)
  PROVE  IsAfter(After(its), its)
  <1> DEFINE n == Len(its)
             base == Dash \o CrLf
             step == [i \in 1 .. n |->
                       [v \in Seq(Nat) |-> CrLf \o FromName(its[n + 1 - i], v)]]
  <1>1. n \in Nat /\ \A i \in 1 .. n : its[i] \in Items
    BY LenProperties, ElementOfSeq
  <1>2. base \in Seq(Nat)
    BY LineTypes, ConcatProperties
  <1> HIDE DEF base
  <1>3. ASSUME NEW item \in Items, NEW v \in Seq(Nat)
        PROVE  CrLf \o FromName(item, v) \in Seq(Nat)
    <2>1. FromName(item, v) \in Seq(Nat)
      BY FromTypes
    <2> QED
      BY <2>1, LineTypes, ConcatProperties
  <1>4. \A i \in 1 .. n : n + 1 - i \in 1 .. n
    BY <1>1
  <1> HIDE DEF n
  <1>5. step \in [1 .. n -> [Seq(Nat) -> Seq(Nat)]]
    BY <1>1, <1>3, <1>4
  <1>6. PICK g \in [0 .. n -> Seq(Nat)] : IsLoop(g, n, base, step)
    <2> HIDE DEF step
    <2> QED
      BY <1>1, <1>2, <1>5, LoopRecursion, Zenon
  <1> DEFINE f == [k \in 0 .. n |-> g[n - k]]
  <1>7. f \in [0 .. n -> Seq(Nat)]
    <2>1. \A k \in 0 .. n : n - k \in 0 .. n
      BY <1>1
    <2> QED
      BY <2>1
  <1>8. f[n] = base
    <2>1. n \in 0 .. n /\ n - n = 0
      BY <1>1
    <2>2. g[0] = base
      BY <1>6 DEF IsLoop
    <2> QED
      BY <2>1, <2>2
  <1>9. ASSUME NEW k \in 1 .. n
        PROVE  f[k - 1] = CrLf \o FromName(its[k], f[k])
    <2> DEFINE i == n - (k - 1)
    <2>1. /\ i \in 1 .. n /\ i - 1 = n - k /\ n + 1 - i = k
          /\ k - 1 \in 0 .. n /\ k \in 0 .. n /\ i - 1 \in 0 .. n
      BY <1>1
    <2>2. g[i] = step[i][g[i - 1]]
      <3> HIDE DEF step, i
      <3> QED
        BY <1>6, <2>1 DEF IsLoop
    <2>3. f[k - 1] = g[i] /\ f[k] = g[i - 1]
      BY <2>1
    <2>4. g[i - 1] \in Seq(Nat)
      BY <2>1
    <2> HIDE DEF f, i
    <2>5. step[i][g[i - 1]] = CrLf \o FromName(its[n + 1 - i], g[i - 1])
      BY <2>1, <2>4
    <2> QED
      BY <2>1, <2>2, <2>3, <2>5, Zenon
  <1> HIDE DEF f
  <1>10. IsAfter(f, its)
    BY <1>7, <1>8, <1>9, Zenon DEF IsAfter, n, base
  <1> QED
    BY <1>10, Zenon DEF After

\* An item as it is written, with the boundary behind it and what follows.
LEMMA ItemText ==
  ASSUME NEW item \in Items, NEW t \in Seq(Nat)
  PROVE  /\ (ItemBegin(item) \o item.content \o CrLf) \in Seq(Nat)
         /\ (ItemBegin(item) \o item.content \o CrLf) \o ((Dash \o Boundary) \o t)
              = (Dash \o Boundary) \o (CrLf \o FromName(item, t))
  <1> DEFINE db == Dash \o Boundary
             c == CrLf
             n == <<item.name>>
             y == TypeLine(item)
             x == item.content
             p1 == db \o c
             p2 == p1 \o n
             p3 == p2 \o c
             p4 == p3 \o y
             p5 == p4 \o c
             p6 == p5 \o x
             p7 == p6 \o c
             q7 == db \o t
             q6 == c \o q7
             q5 == x \o q6
             q4 == c \o q5
             q3 == y \o q4
             q2 == c \o q3
             q1 == n \o q2
             q0 == c \o q1
  <1>1. /\ db \in Seq(Nat) /\ c \in Seq(Nat) /\ n \in Seq(Nat) /\ y \in Seq(Nat)
        /\ x \in Seq(Nat) /\ t \in Seq(Nat)
    BY LineTypes, FromTypes, ItemType, ConcatProperties, Zenon
  <1>2. p7 = ItemBegin(item) \o item.content \o CrLf
    BY Zenon DEF ItemBegin, TypeLine
  <1>3. q6 = CrLfDashBoundary \o t
    <2>1. FourAsOne(Nat, CrLf, Dash, Boundary, t)
      BY <1>1, LineTypes, ConcatFour DEF Four, Three
    <2>2. CrLfDashBoundary \o t = CrLf \o (Dash \o (Boundary \o t))
      BY <2>1 DEF FourAsOne, CrLfDashBoundary
    <2>3. ThreeAsOne(Nat, Dash, Boundary, t)
      BY <1>1, LineTypes, ConcatThree DEF Three
    <2>4. (Dash \o Boundary) \o t = Dash \o (Boundary \o t)
      BY <2>3 DEF ThreeAsOne
    <2> QED
      BY <2>2, <2>4, Zenon
  <1>4. q3 = FromType(item, t)
    BY <1>3, Zenon DEF FromType, FromEmptyLine, FromContent
  <1>5. (n \o c) \o q3 = FromName(item, t)
    BY <1>4, Zenon DEF FromName
  <1> HIDE DEF db, c, n, y, x
  <1>6. p1 \in Seq(Nat) /\ p2 \in Seq(Nat) /\ p3 \in Seq(Nat) /\ p4 \in Seq(Nat)
    <2>1. p1 \in Seq(Nat)
      BY <1>1, ConcatProperties
    <2> HIDE DEF p1
    <2>2. p2 \in Seq(Nat)
      BY <1>1, <2>1, ConcatProperties
    <2> HIDE DEF p2
    <2>3. p3 \in Seq(Nat)
      BY <1>1, <2>2, ConcatProperties
    <2> HIDE DEF p3
    <2> QED
      BY <1>1, <2>1, <2>2, <2>3, ConcatProperties
  <1> HIDE DEF p1, p2, p3
  <1>7. p5 \in Seq(Nat) /\ p6 \in Seq(Nat) /\ p7 \in Seq(Nat)
    <2> HIDE DEF p4
    <2>1. p5 \in Seq(Nat)
      BY <1>1, <1>6, ConcatProperties
    <2> HIDE DEF p5
    <2>2. p6 \in Seq(Nat)
      BY <1>1, <2>1, ConcatProperties
    <2> HIDE DEF p6
    <2> QED
      BY <1>1, <2>1, <2>2, ConcatProperties
  <1> HIDE DEF p4, p5, p6, p7
  <1>8. q7 \in Seq(Nat) /\ q6 \in Seq(Nat) /\ q5 \in Seq(Nat) /\ q4 \in Seq(Nat)
    <2>1. q7 \in Seq(Nat)
      BY <1>1, ConcatProperties
    <2> HIDE DEF q7
    <2>2. q6 \in Seq(Nat)
      BY <1>1, <2>1, ConcatProperties
    <2> HIDE DEF q6
    <2>3. q5 \in Seq(Nat)
      BY <1>1, <2>2, ConcatProperties
    <2> HIDE DEF q5
    <2> QED
      BY <1>1, <2>1, <2>2, <2>3, ConcatProperties
  <1> HIDE DEF q7, q6, q5
  <1>9. q3 \in Seq(Nat) /\ q2 \in Seq(Nat) /\ q1 \in Seq(Nat) /\ q0 \in Seq(Nat)
    <2> HIDE DEF q4
    <2>1. q3 \in Seq(Nat)
      BY <1>1, <1>8, ConcatProperties
    <2> HIDE DEF q3
    <2>2. q2 \in Seq(Nat)
      BY <1>1, <2>1, ConcatProperties
    <2> HIDE DEF q2
    <2>3. q1 \in Seq(Nat)
      BY <1>1, <2>2, ConcatProperties
    <2> HIDE DEF q1
    <2> QED
      BY <1>1, <2>1, <2>2, <2>3, ConcatProperties
  <1> HIDE DEF q4, q3, q2, q1, q0
  \* The parts move from one side to the other.
  <1> DEFINE Moves(u, v, w) == (u \o v) \o w = u \o (v \o w)
  <1>10. ASSUME NEW u, NEW v, NEW w, u \in Seq(Nat), v \in Seq(Nat), w \in Seq(Nat)
         PROVE  Moves(u, v, w)
    <2>1. ThreeAsOne(Nat, u, v, w)
      BY <1>10, ConcatThree DEF Three
    <2> QED
      BY <2>1 DEF ThreeAsOne
  <1> HIDE DEF Moves
  <1>11. Moves(p6, c, q7) /\ Moves(p5, x, q6) /\ Moves(p4, c, q5) /\ Moves(p3, y, q4)
    BY <1>1, <1>6, <1>7, <1>8, <1>10, Zenon
  <1>12. Moves(p2, c, q3) /\ Moves(p1, n, q2) /\ Moves(db, c, q1) /\ Moves(n, c, q3)
    BY <1>1, <1>6, <1>9, <1>10, Zenon
  <1>13. p7 \o q7 = p6 \o q6 /\ p6 \o q6 = p5 \o q5
    BY <1>11, Zenon DEF Moves, p7, p6, q6, q5
  <1>14. p5 \o q5 = p4 \o q4 /\ p4 \o q4 = p3 \o q3
    BY <1>11, Zenon DEF Moves, p5, p4, q4, q3
  <1>15. p3 \o q3 = p2 \o q2 /\ p2 \o q2 = p1 \o q1
    BY <1>12, Zenon DEF Moves, p3, p2, q2, q1
  <1>16. p1 \o q1 = db \o q0
    BY <1>12, Zenon DEF Moves, p1, q0
  <1>18. q1 = (n \o c) \o q3
    BY <1>12, Zenon DEF Moves, q1, q2
  <1>19. p7 \o q7 = db \o q0
    BY <1>13, <1>14, <1>15, <1>16, Zenon
  <1>20. q0 = CrLf \o FromName(item, t)
    BY <1>5, <1>18, Zenon DEF q0, c
  <1> QED
    BY <1>2, <1>7, <1>19, <1>20, Zenon DEF q7, db

\* The text of a form is the first boundary and what follows it.
LEMMA SerializedBegins ==
  ASSUME NEW its \in Seq(Items)
  PROVE  Serialized(its) = (Dash \o Boundary) \o After(its)[0]
  <1> DEFINE n == Len(its)
             f == After(its)
             db == Dash \o Boundary
             seqs == [i \in DOMAIN its |-> ItemBegin(its[i]) \o its[i].content \o CrLf]
  <1>1. n \in Nat /\ \A i \in 1 .. n : its[i] \in Items
    BY LenProperties, ElementOfSeq
  <1>2. DOMAIN its = 1 .. n
    BY LenProperties
  <1>3. /\ f \in [0 .. n -> Seq(Nat)]
        /\ f[n] = Dash \o CrLf
        /\ \A k \in 1 .. n : f[k - 1] = CrLf \o FromName(its[k], f[k])
    BY AfterExists, Zenon DEF IsAfter
  <1>4. db \in Seq(Nat)
    BY LineTypes, ConcatProperties
  <1> HIDE DEF n, f
  <1>5. ASSUME NEW k \in 1 .. n
        PROVE  seqs[k] \in Seq(Nat) /\ seqs[k] \o (db \o f[k]) = db \o f[k - 1]
    <2>1. its[k] \in Items /\ f[k] \in Seq(Nat)
      BY <1>1, <1>3
    <2>2. seqs[k] = ItemBegin(its[k]) \o its[k].content \o CrLf
      BY <1>2, Zenon
    <2>3. /\ (ItemBegin(its[k]) \o its[k].content \o CrLf) \in Seq(Nat)
          /\ (ItemBegin(its[k]) \o its[k].content \o CrLf) \o (db \o f[k])
               = db \o (CrLf \o FromName(its[k], f[k]))
      BY <2>1, ItemText, Zenon
    <2>4. f[k - 1] = CrLf \o FromName(its[k], f[k])
      BY <1>3, Zenon
    <2> HIDE DEF seqs
    <2> QED
      BY <2>2, <2>3, <2>4, Zenon
  <1>6. seqs \in Seq(Seq(Nat)) /\ Len(seqs) = n
    <2> DEFINE V == Seq(Nat)
    <2>1. seqs = [i \in 1 .. n |-> seqs[i]]
      BY <1>2, Zenon
    <2> HIDE DEF seqs
    <2>2. \A i \in 1 .. n : seqs[i] \in V
      BY <1>5, Zenon
    <2> HIDE DEF V
    <2>3. seqs \in Seq(V) /\ Len(seqs) = n
      BY <1>1, <2>1, <2>2
    <2> QED
      BY <2>3 DEF V
  <1>7. Serialized(its) = (((FlattenSeq(seqs) \o Dash) \o Boundary) \o Dash) \o CrLf
    BY Zenon DEF Serialized
  <1> HIDE DEF seqs
  <1>8. PICK g : IsFlattening(g, Nat, seqs) /\ FlattenSeq(seqs) = g[Len(seqs)]
    BY <1>6, FlattenIsLoop
  <1>9. /\ g \in [0 .. n -> Seq(Nat)] /\ g[0] = <<>>
        /\ \A i \in 1 .. n : g[i] = g[i - 1] \o seqs[i]
        /\ FlattenSeq(seqs) = g[n]
    BY <1>6, <1>8, Zenon DEF IsFlattening
  <1> HIDE DEF db
  <1> DEFINE Same(k) == g[k] \o (db \o f[k]) = db \o f[0]
             T == {k \in Nat : k <= n => Same(k)}
  <1> HIDE DEF Same
  <1>10. 0 \in T
    <2>1. f[0] \in Seq(Nat)
      BY <1>1, <1>3
    <2>2. db \o f[0] \in Seq(Nat)
      BY <1>4, <2>1, ConcatProperties
    <2>3. <<>> \o (db \o f[0]) = db \o f[0]
      BY <2>2, ConcatEmptySeq
    <2>4. Same(0)
      BY <1>9, <2>3, Zenon DEF Same
    <2> QED
      BY <2>4
  <1>11. ASSUME NEW k \in Nat, k \in T
         PROVE  k + 1 \in T
    <2> SUFFICES ASSUME k + 1 <= n PROVE Same(k + 1)
      BY <1>11
    <2> DEFINE j == k + 1
               x == seqs[j]
               y == db \o f[j]
    <2>1. j \in 1 .. n /\ j - 1 = k /\ k \in 0 .. n /\ j \in 0 .. n /\ k <= n
      BY <1>1
    <2> HIDE DEF j
    <2>2. g[j] = g[k] \o x
      BY <1>9, <2>1, Zenon
    <2>3. x \in Seq(Nat) /\ x \o y = db \o f[k]
      BY <1>5, <2>1, Zenon
    <2>4. g[k] \in Seq(Nat) /\ f[j] \in Seq(Nat)
      BY <1>3, <1>9, <2>1, Zenon
    <2>5. y \in Seq(Nat)
      BY <1>4, <2>4, ConcatProperties
    <2> HIDE DEF x, y
    <2>6. ThreeAsOne(Nat, g[k], x, y)
      BY <2>3, <2>4, <2>5, ConcatThree DEF Three
    <2>7. (g[k] \o x) \o y = g[k] \o (x \o y)
      BY <2>6 DEF ThreeAsOne
    <2>8. Same(k)
      BY <1>11, <2>1
    <2>9. g[j] \o y = db \o f[0]
      BY <2>2, <2>3, <2>7, <2>8, Zenon DEF Same
    <2> QED
      BY <2>9, Zenon DEF Same, j, y
  <1>12. g[n] \o (db \o f[n]) = db \o f[0]
    <2>1. n \in T
      <3> HIDE DEF T
      <3> QED
        BY <1>1, <1>10, <1>11, NatSetInduction, Zenon
    <2>2. Same(n)
      BY <1>1, <2>1
    <2> QED
      BY <2>2, Zenon DEF Same
  <1> DEFINE h == g[n]
             e == Dash \o CrLf
  <1>13. h \in Seq(Nat) /\ e \in Seq(Nat)
    BY <1>1, <1>9, LineTypes, ConcatProperties
  <1> HIDE DEF h
  <1>14. (((h \o Dash) \o Boundary) \o Dash) \o CrLf = h \o (db \o e)
    <2>1. h \o Dash \in Seq(Nat)
      BY <1>13, LineTypes, ConcatProperties
    <2>2. (h \o Dash) \o Boundary \in Seq(Nat)
      BY <2>1, LineTypes, ConcatProperties
    <2>3. ThreeAsOne(Nat, h, Dash, Boundary)
      BY <1>13, LineTypes, ConcatThree DEF Three
    <2>4. (h \o Dash) \o Boundary = h \o db
      BY <2>3 DEF ThreeAsOne, db
    <2> DEFINE u == (h \o Dash) \o Boundary
    <2> HIDE DEF u, e
    <2>5. u = h \o db /\ u \in Seq(Nat)
      BY <2>2, <2>4 DEF u
    <2>6. ThreeAsOne(Nat, u, Dash, CrLf)
      BY <2>5, LineTypes, ConcatThree, Zenon DEF Three
    <2>7. (u \o Dash) \o CrLf = u \o e
      BY <2>6 DEF ThreeAsOne, e
    <2>8. ThreeAsOne(Nat, h, db, e)
      BY <1>4, <1>13, ConcatThree DEF Three
    <2>9. (h \o db) \o e = h \o (db \o e)
      BY <2>8 DEF ThreeAsOne
    <2> QED
      BY <2>5, <2>7, <2>9, Zenon DEF u
  <1>15. Serialized(its) = db \o f[0]
    BY <1>3, <1>7, <1>9, <1>12, <1>14, Zenon DEF h, e
  <1> QED
    BY <1>15, Zenon DEF db, f

-----------------------------------------------------------------------------
(***************************************************************************)
(* The types, and what is left after a step.                               *)
(***************************************************************************)
\* The place that buf_find returns leaves room for what was found there.
LEMMA BufFindRange ==
  ASSUME buf \in Seq(Nat), NEW s \in Seq(Nat), s # <<>>
  PROVE  /\ BufFind(s) \in 0 .. Len(buf)
         /\ BufFind(s) < Len(buf) =>
              /\ BufFind(s) + Len(s) <= Len(buf)
              /\ SubSeq(buf, BufFind(s) + 1, BufFind(s) + Len(s)) = s
  <1> DEFINE n == Len(s)
             at == {k \in 0 .. Len(buf) - n : SubSeq(buf, k + 1, k + n) = s}
             x == CHOOSE k \in at : \A m \in at : k <= m
  <1>1. Len(buf) \in Nat /\ n \in Nat \ {0}
    BY LenProperties, EmptySeq
  <1>2. BufFind(s) = IF at = {} THEN Len(buf) ELSE x
    BY DEF BufFind
  <1> HIDE DEF n
  <1>3. ASSUME at # {}
        PROVE  x \in at
    <2>1. at \subseteq Nat
      BY <1>1
    <2> HIDE DEF at
    <2>2. PICK m \in at : \A y \in at : ~(<<y, m>> \in OpToRel(<, Nat))
      BY <1>3, <2>1, WFMin, NatLessThanWellFounded, Zenon
    <2>3. ASSUME NEW y \in at, ~(m <= y)
          PROVE  FALSE
      <3>1. m \in Nat /\ y \in Nat
        BY <2>1
      <3>2. y < m
        BY <2>3, <3>1
      <3>3. <<y, m>> \in OpToRel(<, Nat)
        BY <3>1, <3>2 DEF OpToRel
      <3> QED
        BY <2>2, <3>3, Zenon
    <2> QED
      BY <2>2, <2>3, Zenon
  <1>4. CASE at = {}
    BY <1>1, <1>2, <1>4
  <1>5. CASE at # {}
    <2>1. BufFind(s) = x /\ x \in at
      BY <1>2, <1>3, <1>5, Zenon
    <2> HIDE DEF x
    <2> QED
      BY <1>1, <2>1 DEF n
  <1> QED
    BY <1>4, <1>5

\* Erasing leaves bytes.
LEMMA EraseType ==
  ASSUME buf \in Seq(Nat), NEW n \in Nat, BufErase(n)
  PROVE  buf' \in Seq(Nat)
  <1>1. Len(buf) \in Nat /\ \A i \in 1 .. Len(buf) : buf[i] \in Nat
    BY LenProperties, ElementOfSeq
  <1>2. n + 1 \in Int /\ Len(buf) \in Int /\ \A i \in n + 1 .. Len(buf) : buf[i] \in Nat
    BY <1>1
  <1>3. SubSeq(buf, n + 1, Len(buf)) \in Seq(Nat)
    BY <1>2, SubSeqProperties
  <1> QED
    BY <1>3 DEF BufErase

\* Content goes to the last item.
LEMMA ContentAdded ==
  ASSUME Typed, items # <<>>, NEW n \in 0 .. Len(buf), Content(n)
  PROVE  /\ items' \in Seq(ItemsOut) /\ Len(items') = Len(items) /\ items' # <<>>
         /\ SubSeq(buf, 1, n) \in Seq(Nat)
         /\ Len(items) \in Nat \ {0}
         /\ \A i \in 1 .. Len(items) - 1 : items'[i] = items[i]
         /\ items[Len(items)] \in ItemsOut
         /\ items'[Len(items)].name = items[Len(items)].name
         /\ items'[Len(items)].type = items[Len(items)].type
         /\ items'[Len(items)].content = items[Len(items)].content \o SubSeq(buf, 1, n)
  <1> DEFINE k == Len(items)
             x == SubSeq(buf, 1, n)
             e == [items[k] EXCEPT !.content = @ \o x]
  <1>1. items \in Seq(ItemsOut) /\ k \in Nat \ {0} /\ DOMAIN items = 1 .. k
    BY EmptySeq, LenProperties DEF Typed
  <1>2. x \in Seq(Nat)
    <2>1. buf \in Seq(Nat) /\ 1 \in 1 .. Len(buf) + 1 /\ n \in 1 - 1 .. Len(buf)
      BY LenProperties DEF Typed
    <2> QED
      BY <2>1, PieceOf
  <1>3. items' = [items EXCEPT ![k] = e]
    BY DEF Content
  <1> HIDE DEF k, x
  <1>4. items[k] \in ItemsOut
    BY <1>1, ElementOfSeq DEF k
  <1>5. items[k].content \in Seq(Nat)
    BY <1>4 DEF ItemsOut
  <1>6. items[k].content \o x \in Seq(Nat)
    BY <1>2, <1>5, ConcatProperties
  <1>7. /\ e.name = items[k].name /\ e.type = items[k].type
        /\ e.content = items[k].content \o x
    BY <1>4, Zenon DEF ItemsOut
  <1>8. e \in ItemsOut
    BY <1>4, <1>6, Zenon DEF ItemsOut
  <1> HIDE DEF e
  <1>9. k \in 1 .. k
    BY <1>1
  <1>10. items'[k] = e /\ \A i \in 1 .. k - 1 : items'[i] = items[i]
    BY <1>1, <1>3, <1>9
  <1>11. items' \in Seq(ItemsOut) /\ Len(items') = k
    BY <1>1, <1>3, <1>8, <1>9 DEF k
  <1>12. items' # <<>>
    BY <1>1, <1>11
  <1> QED
    BY <1>1, <1>2, <1>4, <1>7, <1>10, <1>11, <1>12, Zenon DEF k, x

\* A piece that arrives moves from one end of what is left to the other.
LEMMA ReceiveMoves ==
  ASSUME buf \in Seq(Nat), rest \in Seq(Nat), NEW n, Receive(n)
  PROVE  /\ buf' \in Seq(Nat) /\ rest' \in Seq(Nat) /\ Left' = Left
         /\ n \in Nat \ {0}
         /\ Len(buf') = Len(buf) + n
  <1> DEFINE x == SubSeq(rest, 1, n)
             y == SubSeq(rest, n + 1, Len(rest))
  <1>1. /\ n \in 1 .. Len(rest) /\ Len(rest) \in Nat
        /\ buf' = buf \o x /\ rest' = y
    BY LenProperties DEF Receive
  <1>2. x \in Seq(Nat) /\ Len(x) = n
    <2>1. 1 \in 1 .. Len(rest) + 1 /\ n \in 1 - 1 .. Len(rest)
      BY <1>1
    <2>2. x \in Seq(Nat) /\ Len(x) = n - 1 + 1
      BY <2>1, PieceOf
    <2> QED
      BY <1>1, <2>2
  <1>3. y \in Seq(Nat)
    <2>1. n + 1 \in 1 .. Len(rest) + 1 /\ Len(rest) \in (n + 1) - 1 .. Len(rest)
      BY <1>1
    <2> QED
      BY <2>1, PieceOf, Zenon
  <1>4. x \o y = rest
    <2>1. 1 \in 1 .. Len(rest) + 1 /\ n \in 1 - 1 .. Len(rest) /\ Len(rest) \in n .. Len(rest)
      BY <1>1
    <2>2. x \o y = SubSeq(rest, 1, Len(rest))
      BY <2>1, ConcatAdjacentSubSeq, Zenon
    <2> QED
      BY <2>2, SubSeqFull, Zenon
  <1> HIDE DEF x, y
  <1>5. ThreeAsOne(Nat, buf, x, y)
    BY <1>2, <1>3, ConcatThree DEF Three
  <1>6. (buf \o x) \o y = buf \o (x \o y)
    BY <1>5 DEF ThreeAsOne
  <1>7. Left' = Left
    BY <1>1, <1>4, <1>6, Zenon DEF Left
  <1>8. buf \o x \in Seq(Nat) /\ Len(buf \o x) = Len(buf) + Len(x)
    BY <1>2, ConcatProperties, Zenon
  <1> QED
    BY <1>1, <1>2, <1>3, <1>7, <1>8

\* Every step keeps the types.
LEMMA TypedStep ==
  ASSUME Typed, FormNext
  PROVE  Typed'
  <1>1. /\ form \in Forms /\ rest \in Seq(Nat) /\ buf \in Seq(Nat)
        /\ items \in Seq(ItemsOut) /\ file \in [name : Nat, type : Nat]
        /\ state = 3 => items # <<>>
    BY DEF Typed
  <1>2. \A n \in Nat : BufErase(n) => buf' \in Seq(Nat)
    BY <1>1, EraseType
  <1>3. /\ BufFind(DashBoundaryCrLf) \in 0 .. Len(buf) /\ BufFind(CrLf) \in 0 .. Len(buf)
        /\ BufFind(CrLfDashBoundary) \in 0 .. Len(buf)
    BY <1>1, LineTypes, BufFindRange
  <1>4. Len(buf) \in Nat
    BY <1>1, LenProperties
  <1>5. NoFile \in [name : Nat, type : Nat]
    BY DEF NoFile, NoType
  <1>6. ASSUME NEW n, Receive(n) PROVE Typed'
    <2>1. buf' \in Seq(Nat) /\ rest' \in Seq(Nat)
      BY <1>1, <1>6, ReceiveMoves
    <2> QED
      BY <1>1, <1>6, <2>1, Zenon DEF Receive, Typed
  <1>7. CASE ParseReturns
    BY <1>1, <1>7 DEF ParseReturns, Typed
  <1>8. CASE OpeningBoundary
    <2> DEFINE a == BufFind(DashBoundaryCrLf)
    <2>1. a \in Nat /\ a + Len(DashBoundaryCrLf) \in Nat
      BY <1>3, LineTypes, SMTT(20)
    <2> HIDE DEF a
    <2>2. buf' \in Seq(Nat)
      <3>1. BufErase(a) \/ BufErase(a + Len(DashBoundaryCrLf))
        BY <1>8 DEF OpeningBoundary, a
      <3> QED
        BY <1>2, <2>1, <3>1
    <2>3. state' # 3 /\ UNCHANGED <<form, rest, items, file>>
      BY <1>8 DEF OpeningBoundary, Parsing
    <2> QED
      BY <1>1, <2>2, <2>3 DEF Typed
  <1>9. CASE NewEntry
    BY <1>1, <1>5, <1>9 DEF NewEntry, Typed
  <1>10. CASE Header
    <2> DEFINE a == BufFind(CrLf)
               e == [name |-> file.name, type |-> file.type, content |-> <<>>]
    <2>1. a \in Nat /\ a + Len(CrLf) \in Nat /\ Len(CrLf) \in Nat
      BY <1>3, LineTypes
    <2>2. UNCHANGED <<form, rest>> /\ state = 2 /\ buf # <<>>
      BY <1>10 DEF Header
    <2>3. buf[1] \in Nat
      <3>1. 1 \in 1 .. Len(buf)
        BY <1>1, <1>4, <2>2, EmptySeq
      <3> QED
        BY <1>1, <3>1, ElementOfSeq
    <2> HIDE DEF a
    <2>4. e \in ItemsOut
      BY <1>1 DEF ItemsOut
    <2>5. \/ UNCHANGED <<state, buf, file, items>>
          \/ items' = Append(items, e) /\ BufErase(Len(CrLf)) /\ UNCHANGED file
          \/ /\ file' = IF buf[1] \in Types THEN [file EXCEPT !.type = buf[1]]
                        ELSE [file EXCEPT !.name = buf[1]]
             /\ BufErase(a + Len(CrLf)) /\ UNCHANGED <<state, items>>
      BY <1>10, Zenon DEF Header, a, e
    <2> HIDE DEF e
    <2>6. CASE UNCHANGED <<state, buf, file, items>>
      BY <1>1, <2>2, <2>6 DEF Typed
    <2>7. CASE items' = Append(items, e) /\ BufErase(Len(CrLf)) /\ UNCHANGED file
      <3>1. items' \in Seq(ItemsOut) /\ items' # <<>>
        <4>1. /\ Append(items, e) \in Seq(ItemsOut)
              /\ Len(Append(items, e)) = Len(items) + 1 /\ Len(items) \in Nat
          BY <1>1, <2>4, AppendProperties, LenProperties
        <4>2. items' \in Seq(ItemsOut) /\ Len(items') # 0
          BY <2>7, <4>1
        <4> QED
          BY <4>2, EmptySeq
      <3>2. buf' \in Seq(Nat)
        BY <1>2, <2>1, <2>7
      <3> QED
        BY <1>1, <2>2, <2>7, <3>1, <3>2, Zenon DEF Typed
    <2>8. CASE /\ file' = IF buf[1] \in Types THEN [file EXCEPT !.type = buf[1]]
                          ELSE [file EXCEPT !.name = buf[1]]
               /\ BufErase(a + Len(CrLf)) /\ UNCHANGED <<state, items>>
      <3>1. buf' \in Seq(Nat)
        BY <1>2, <2>1, <2>8
      <3>2. /\ [file EXCEPT !.type = buf[1]] \in [name : Nat, type : Nat]
            /\ [file EXCEPT !.name = buf[1]] \in [name : Nat, type : Nat]
        BY <1>1, <2>3, Zenon
      <3>3. file' \in [name : Nat, type : Nat]
        BY <2>8, <3>2, Zenon
      <3> QED
        BY <1>1, <2>2, <2>8, <3>1, <3>3 DEF Typed
    <2> QED
      BY <2>5, <2>6, <2>7, <2>8, Zenon
  <1>11. CASE Body
    <2> DEFINE a == BufFind(CrLfDashBoundary)
               u == Len(buf) - Len(CrLfDashBoundary)
    <2>1. a \in 0 .. Len(buf) /\ a + Len(CrLfDashBoundary) \in Nat
      BY <1>3, LineTypes, SMTT(20)
    <2>2. UNCHANGED <<form, rest, file>> /\ state = 3 /\ items # <<>>
      BY <1>1, <1>11 DEF Body, Parsing
    <2>3. u < 0 \/ u \in 0 .. Len(buf)
      BY <1>4, LineTypes
    <2> HIDE DEF a, u
    <2>4. \/ UNCHANGED <<state, buf, items>>
          \/ Content(a) /\ BufErase(a + Len(CrLfDashBoundary))
          \/ ~(u < 0) /\ Content(u) /\ BufErase(u)
      BY <1>11, Zenon DEF Body, a, u
    <2>5. \A n \in 0 .. Len(buf) : Content(n) => items' \in Seq(ItemsOut) /\ items' # <<>>
      BY <2>2, ContentAdded, Zenon
    <2>6. items' \in Seq(ItemsOut) /\ items' # <<>>
      BY <1>1, <2>1, <2>2, <2>3, <2>4, <2>5
    <2>7. buf' \in Seq(Nat)
      BY <1>1, <1>2, <2>1, <2>3, <2>4
    <2> QED
      BY <1>1, <2>2, <2>6, <2>7 DEF Typed
  <1>12. CASE BodyRefused
    BY <1>1, <1>12 DEF BodyRefused, Typed
  <1>13. CASE AfterBoundary
    <2>1. BufErase(2) \/ buf' = <<>> \/ UNCHANGED buf
      BY <1>13 DEF AfterBoundary
    <2>2. buf' \in Seq(Nat)
      <3>1. BufErase(2) => buf' \in Seq(Nat)
        BY <1>2
      <3>2. buf' = <<>> => buf' \in Seq(Nat)
        OBVIOUS
      <3>3. UNCHANGED buf => buf' \in Seq(Nat)
        BY <1>1
      <3> QED
        BY <2>1, <3>1, <3>2, <3>3, Zenon
    <2>3. state' # 3 /\ UNCHANGED <<form, rest, items, file>>
      BY <1>13 DEF AfterBoundary, Parsing
    <2> QED
      BY <1>1, <2>2, <2>3 DEF Typed
  <1>14. CASE Ends
    BY <1>1, <1>14 DEF Ends, Typed
  <1> QED
    BY <1>6, <1>7, <1>8, <1>9, <1>10, <1>11, <1>12, <1>13, <1>14 DEF FormNext

-----------------------------------------------------------------------------
(***************************************************************************)
(* A form without items, and one of which nothing was read.                *)
(***************************************************************************)
\* In a form without items the opening boundary is never found.
LEMMA NoEntryStep ==
  ASSUME Typed, NoEntry, FormNext
  PROVE  NoEntry'
  <1>1. buf \in Seq(Nat) /\ rest \in Seq(Nat)
    BY DEF Typed
  <1>2. /\ state = 0 /\ items = <<>> /\ ~valid
        /\ \A i \in 1 .. Len(Left) - 1 : Left[i] = 98 => Left[i + 1] # 13
    BY DEF NoEntry
  <1>3. CASE \E n \in 1 .. Len(rest) : Receive(n)
    <2>1. Left' = Left
      BY <1>1, <1>3, ReceiveMoves
    <2>2. UNCHANGED <<state, items, valid>>
      BY <1>3 DEF Receive
    <2> QED
      BY <1>2, <2>1, <2>2 DEF NoEntry
  <1>4. CASE ParseReturns \/ Ends
    BY <1>2, <1>4 DEF ParseReturns, Ends, NoEntry, Left
  <1>5. CASE OpeningBoundary
    <2> DEFINE s == DashBoundaryCrLf
               a == BufFind(s)
    <2>1. /\ UNCHANGED <<rest, items, valid>>
          /\ \/ a = Len(buf) /\ BufErase(a) /\ UNCHANGED state
             \/ a # Len(buf)
      BY <1>5, Zenon DEF OpeningBoundary
    <2>2. /\ s \in Seq(Nat) /\ s # <<>> /\ Len(s) = 5 /\ s[3] = 98 /\ s[4] = 13
      BY LineBytes, LineTypes
    <2> HIDE DEF s
    <2>3. /\ a \in 0 .. Len(buf) /\ Len(buf) \in Nat /\ Len(rest) \in Nat
          /\ a < Len(buf) => a + 5 <= Len(buf) /\ SubSeq(buf, a + 1, a + 5) = s
      <3>1. /\ a \in 0 .. Len(buf)
            /\ a < Len(buf) => /\ a + Len(s) <= Len(buf)
                               /\ SubSeq(buf, a + 1, a + Len(s)) = s
        BY <1>1, <2>2, BufFindRange, Zenon
      <3> QED
        BY <1>1, <2>2, <3>1, LenProperties, Zenon
    <2> HIDE DEF a
    <2>4. /\ Left \in Seq(Nat) /\ Len(Left) = Len(buf) + Len(rest)
          /\ \A i \in 1 .. Len(buf) + Len(rest) :
               Left[i] = IF i <= Len(buf) THEN buf[i] ELSE rest[i - Len(buf)]
      BY <1>1, ConcatProperties DEF Left
    <2>5. a = Len(buf)
      <3> SUFFICES ASSUME a # Len(buf) PROVE FALSE
        OBVIOUS
      <3>1. a < Len(buf) /\ a + 5 <= Len(buf) /\ SubSeq(buf, a + 1, a + 5) = s
        BY <2>3
      <3>2. a + 1 \in 1 .. Len(buf) + 1 /\ a + 5 \in (a + 1) - 1 .. Len(buf)
        BY <2>3, <3>1
      <3>3. \A i \in 1 .. (a + 5) - (a + 1) + 1 :
              SubSeq(buf, a + 1, a + 5)[i] = buf[(a + 1) + i - 1]
        BY <1>1, <3>2, PieceOf, Zenon
      <3>4. /\ 3 \in 1 .. (a + 5) - (a + 1) + 1 /\ (a + 1) + 3 - 1 = a + 3
            /\ 4 \in 1 .. (a + 5) - (a + 1) + 1 /\ (a + 1) + 4 - 1 = a + 4
        BY <2>3
      <3>5. buf[a + 3] = 98 /\ buf[a + 4] = 13
        <4> DEFINE w == SubSeq(buf, a + 1, a + 5)
        <4>1. w[3] = buf[(a + 1) + 3 - 1] /\ w[4] = buf[(a + 1) + 4 - 1]
          BY <3>3, <3>4, Zenon
        <4>2. w = s
          BY <3>1
        <4> HIDE DEF w
        <4> QED
          BY <2>2, <3>4, <4>1, <4>2
      <3>6. /\ a + 3 \in 1 .. Len(buf) + Len(rest) /\ a + 4 \in 1 .. Len(buf) + Len(rest)
            /\ a + 3 <= Len(buf) /\ a + 4 <= Len(buf)
            /\ a + 3 \in 1 .. (Len(buf) + Len(rest)) - 1 /\ (a + 3) + 1 = a + 4
        BY <2>3, <3>1
      <3>7. Left[a + 3] = 98 /\ Left[a + 4] = 13
        BY <2>4, <3>5, <3>6, Zenon
      <3> QED
        BY <1>2, <2>4, <3>6, <3>7
    <2>6. Left' = rest
      <3>1. buf' = SubSeq(buf, Len(buf) + 1, Len(buf))
        BY <2>1, <2>5 DEF BufErase
      <3>2. buf' = <<>>
        BY <2>3, <3>1, SubSeqEmpty
      <3>3. <<>> \o rest = rest
        BY <1>1, ConcatEmptySeq
      <3> QED
        BY <2>1, <3>2, <3>3, Zenon DEF Left
    <2>7. ASSUME NEW i \in 1 .. Len(rest) - 1, rest[i] = 98
          PROVE  rest[i + 1] # 13
      <3> DEFINE j == Len(buf) + i
      <3>1. /\ j \in 1 .. Len(buf) + Len(rest) /\ j + 1 \in 1 .. Len(buf) + Len(rest)
            /\ ~(j <= Len(buf)) /\ ~(j + 1 <= Len(buf))
            /\ j - Len(buf) = i /\ (j + 1) - Len(buf) = i + 1
            /\ j \in 1 .. (Len(buf) + Len(rest)) - 1
        BY <2>3
      <3> HIDE DEF j
      <3>2. Left[j] = rest[i] /\ Left[j + 1] = rest[i + 1]
        BY <2>4, <3>1, Zenon
      <3> QED
        BY <1>2, <2>4, <2>7, <3>1, <3>2, SMTT(20)
    <2>8. UNCHANGED <<state, items, valid>>
      BY <2>1, <2>5
    <2>9. \A i \in 1 .. Len(Left') - 1 : Left'[i] = 98 => Left'[i + 1] # 13
      BY <2>6, <2>7
    <2> QED
      BY <1>2, <2>8, <2>9 DEF NoEntry
  <1>6. CASE NewEntry \/ Header \/ Body \/ BodyRefused \/ AfterBoundary
    BY <1>2, <1>6 DEF NewEntry, Header, Body, BodyRefused, AfterBoundary, Parsing
  <1> QED
    BY <1>3, <1>4, <1>5, <1>6 DEF FormNext

\* The items sent and what follows each.
LEMMA FormAfter ==
  ASSUME form \in Forms
  PROVE  /\ form \in Seq(Items) /\ Len(form) \in Nat
         /\ \A k \in 1 .. Len(form) : form[k] \in Items
         /\ After(form) \in [0 .. Len(form) -> Seq(Nat)]
         /\ After(form)[Len(form)] = Dash \o CrLf
         /\ \A k \in 1 .. Len(form) :
              /\ After(form)[k] \in Seq(Nat)
              /\ After(form)[k - 1] = CrLf \o FromName(form[k], After(form)[k])
  <1>1. form \in Seq(Items)
    BY FormItems
  <1>2. Len(form) \in Nat /\ \A k \in 1 .. Len(form) : form[k] \in Items
    BY <1>1, LenProperties, ElementOfSeq
  <1>3. IsAfter(After(form), form)
    BY <1>1, AfterExists
  <1>4. /\ After(form) \in [0 .. Len(form) -> Seq(Nat)]
        /\ After(form)[Len(form)] = Dash \o CrLf
        /\ \A k \in 1 .. Len(form) :
             After(form)[k - 1] = CrLf \o FromName(form[k], After(form)[k])
    BY <1>3, Zenon DEF IsAfter
  <1>5. \A k \in 1 .. Len(form) : After(form)[k] \in Seq(Nat)
    <2> DEFINE V == Seq(Nat)
    <2>1. After(form) \in [0 .. Len(form) -> V]
      BY <1>4
    <2> HIDE DEF V
    <2>2. \A k \in 1 .. Len(form) : k \in 0 .. Len(form)
      BY <1>2
    <2>3. \A k \in 1 .. Len(form) : After(form)[k] \in V
      BY <2>1, <2>2
    <2> QED
      BY <2>3 DEF V
  <1> QED
    BY <1>1, <1>2, <1>4, <1>5, Zenon

\* The text of a form with items: the opening boundary and the first item.
LEMMA OpeningText ==
  ASSUME form \in Forms, form # <<>>
  PROVE  Serialized(form) = DashBoundaryCrLf \o FromName(form[1], After(form)[1])
  <1> DEFINE db == Dash \o Boundary
             u == FromName(form[1], After(form)[1])
  <1>1. /\ form \in Seq(Items) /\ Len(form) \in Nat \ {0}
        /\ \A k \in 1 .. Len(form) :
              /\ form[k] \in Items /\ After(form)[k] \in Seq(Nat)
              /\ After(form)[k - 1] = CrLf \o FromName(form[k], After(form)[k])
    BY FormAfter, EmptySeq, Zenon
  <1>2. 1 \in 1 .. Len(form) /\ 1 - 1 = 0
    BY <1>1
  <1>3. After(form)[0] = CrLf \o u
    BY <1>1, <1>2
  <1>4. u \in Seq(Nat)
    BY <1>1, <1>2, FromTypes
  <1>5. Serialized(form) = db \o (CrLf \o u)
    BY <1>1, <1>3, SerializedBegins, Zenon
  <1>6. db \in Seq(Nat)
    BY LineTypes, ConcatProperties
  <1> HIDE DEF db, u
  <1>7. ThreeAsOne(Nat, db, CrLf, u)
    BY <1>4, <1>6, LineTypes, ConcatThree DEF Three
  <1>8. (db \o CrLf) \o u = db \o (CrLf \o u)
    BY <1>7 DEF ThreeAsOne
  <1> QED
    BY <1>5, <1>8, Zenon DEF db, u, DashBoundaryCrLf

\* The first piece: with the whole opening boundary the parser stands before it.
LEMMA UnreadStep ==
  ASSUME Typed, form # <<>>, opening = "none", Unread, FormNext
  PROVE  /\ opening' = "none" => Unread'
         /\ opening' = "whole" => Reading'
  <1>1. /\ rest = Serialized(form) /\ buf = <<>> /\ state = 0 /\ items = <<>> /\ ~valid
        /\ pc \in {"wait", "failed"}
    BY DEF Unread
  <1>2. form \in Forms /\ buf \in Seq(Nat) /\ rest \in Seq(Nat)
    BY DEF Typed
  <1>3. CASE \E n \in 1 .. Len(rest) : Receive(n)
    <2>1. PICK n \in 1 .. Len(rest) : Receive(n)
      BY <1>3
    <2>2. /\ Left' = Left /\ Len(buf') = Len(buf) + n /\ n \in Nat
      BY <1>2, <2>1, ReceiveMoves
    <2>3. /\ UNCHANGED <<form, state, valid, items>> /\ pc' = "parse"
          /\ opening' = IF n >= Len(DashBoundaryCrLf) THEN "whole" ELSE "part"
      BY <2>1 DEF Receive
    <2>4. opening' # "none" /\ (opening' = "whole" => n >= 5)
      BY <2>3, LineTypes
    <2> SUFFICES ASSUME opening' = "whole" PROVE Reading'
      BY <2>4
    <2>5. Len(buf') >= 5
      <3>1. Len(buf) = 0
        BY <1>1, EmptySeq
      <3> QED
        BY <2>2, <2>4, <3>1
    <2>6. Left = rest
      BY <1>1, <1>2, ConcatEmptySeq DEF Left
    <2>7. Left' = DashBoundaryCrLf \o FromName(form[1], After(form)[1])
      BY <1>1, <1>2, <2>2, <2>6, OpeningText, Zenon
    <2>8. AtOpening'
      BY <1>1, <2>3, <2>5, <2>7 DEF AtOpening
    <2> QED
      BY <1>1, <2>3, <2>8 DEF Reading
  <1>4. CASE Ends
    BY <1>1, <1>4 DEF Ends, Unread
  <1>5. CASE \/ ParseReturns \/ OpeningBoundary \/ NewEntry \/ Header
             \/ Body \/ BodyRefused \/ AfterBoundary
    BY <1>1, <1>5 DEF ParseReturns, OpeningBoundary, NewEntry, Header, Body, BodyRefused,
                      AfterBoundary, Parsing
  <1> QED
    BY <1>3, <1>4, <1>5 DEF FormNext

-----------------------------------------------------------------------------
(***************************************************************************)
(* The steps of a parser that reads a form with items.                     *)
(***************************************************************************)
\* What follows some place of an item is never empty.
LEMMA FromNotEmpty ==
  ASSUME NEW item \in Items, NEW t \in Seq(Nat)
  PROVE  /\ FromName(item, t) # <<>> /\ FromType(item, t) # <<>>
         /\ FromEmptyLine(item, t) # <<>>
         /\ CrLfDashBoundary \o t # <<>> /\ DashBoundaryCrLf \o t # <<>>
         /\ \A c \in Seq(Nat) : c \o (CrLfDashBoundary \o t) # <<>>
  <1>1. \A u, v \in Seq(Nat) : u # <<>> \/ v # <<>> => u \o v # <<>>
    BY ConcatEqualIffEmpty
  <1>2. /\ FromContent(item, t) \in Seq(Nat) /\ FromEmptyLine(item, t) \in Seq(Nat)
        /\ TypeLine(item) \in Seq(Nat) /\ FromType(item, t) \in Seq(Nat)
        /\ <<item.name>> \o CrLf \in Seq(Nat) /\ CrLfDashBoundary \o t \in Seq(Nat)
        /\ <<item.name>> \in Seq(Nat)
    BY FromTypes, Zenon
  <1>3. FromEmptyLine(item, t) # <<>>
    BY <1>1, <1>2, LineTypes, Zenon DEF FromEmptyLine
  <1>4. FromType(item, t) # <<>>
    BY <1>1, <1>2, <1>3, Zenon DEF FromType
  <1>5. FromName(item, t) # <<>>
    BY <1>1, <1>2, <1>4, Zenon DEF FromName
  <1>6. CrLfDashBoundary \o t # <<>> /\ DashBoundaryCrLf \o t # <<>>
    BY <1>1, LineTypes, Zenon
  <1> QED
    BY <1>1, <1>2, <1>3, <1>4, <1>5, <1>6, Zenon

\* What follows the boundary behind an item begins with a line break or, behind
\* the last one, with dashes.
LEMMA AfterBegins ==
  ASSUME form \in Forms, NEW k \in 1 .. Len(form)
  PROVE  /\ After(form)[k] # <<>>
         /\ IF k = Len(form) THEN After(form)[k] = Dash \o CrLf
            ELSE /\ k + 1 \in 1 .. Len(form)
                 /\ After(form)[k] = CrLf \o FromName(form[k + 1], After(form)[k + 1])
                 /\ FromName(form[k + 1], After(form)[k + 1]) \in Seq(Nat)
  <1>1. /\ Len(form) \in Nat
        /\ \A i \in 1 .. Len(form) :
             /\ form[i] \in Items /\ After(form)[i] \in Seq(Nat)
             /\ After(form)[i - 1] = CrLf \o FromName(form[i], After(form)[i])
        /\ After(form)[Len(form)] = Dash \o CrLf
    BY FormAfter, Zenon
  <1>2. \A u, v \in Seq(Nat) : u # <<>> => u \o v # <<>>
    BY ConcatEqualIffEmpty
  <1>3. CASE k = Len(form)
    <2>1. Dash \o CrLf # <<>>
      BY <1>2, LineTypes, EmptySeq
    <2> QED
      BY <1>1, <1>3, <2>1
  <1>4. CASE k # Len(form)
    <2> DEFINE j == k + 1
    <2>1. j \in 1 .. Len(form) /\ j - 1 = k
      BY <1>1, <1>4
    <2> HIDE DEF j
    <2>2. /\ form[j] \in Items /\ After(form)[j] \in Seq(Nat)
          /\ After(form)[k] = CrLf \o FromName(form[j], After(form)[j])
      BY <1>1, <2>1, Zenon
    <2>3. FromName(form[j], After(form)[j]) \in Seq(Nat)
      BY <2>2, FromTypes
    <2>4. CrLf \o FromName(form[j], After(form)[j]) # <<>>
      BY <1>2, <2>3, LineTypes
    <2> QED
      BY <1>4, <2>1, <2>2, <2>3, <2>4, Zenon DEF j
  <1> QED
    BY <1>3, <1>4

\* While the parser reads, something is left.
LEMMA ReadingNotEmpty ==
  ASSUME Typed, form # <<>>, Reading
  PROVE  Left # <<>>
  <1>1. /\ form \in Forms /\ Len(form) \in Nat \ {0}
        /\ \A k \in 1 .. Len(form) : form[k] \in Items /\ After(form)[k] \in Seq(Nat)
    BY FormAfter, EmptySeq DEF Typed
  <1>2. Len(items) \in Nat
    BY LenProperties DEF Typed
  <1>3. CASE AtOpening
    <2>1. 1 \in 1 .. Len(form)
      BY <1>1
    <2>2. FromName(form[1], After(form)[1]) \in Seq(Nat)
      BY <1>1, <2>1, FromTypes
    <2>3. form[1] \in Items
      BY <1>1, <2>1
    <2> QED
      BY <1>3, <2>2, <2>3, FromNotEmpty DEF AtOpening
  <1>4. CASE AtEntry \/ AtHeader
    <2> DEFINE k == Len(items) + 1
    <2>1. k \in 1 .. Len(form)
      BY <1>1, <1>2, <1>4 DEF AtEntry, AtHeader
    <2>2. form[k] \in Items /\ After(form)[k] \in Seq(Nat)
      BY <1>1, <2>1
    <2>3. \/ Left = FromName(form[k], After(form)[k])
          \/ Left = FromType(form[k], After(form)[k])
          \/ Left = FromEmptyLine(form[k], After(form)[k])
      BY <1>4, Zenon DEF AtEntry, AtHeader
    <2> HIDE DEF k
    <2> QED
      BY <2>2, <2>3, FromNotEmpty
  <1>5. CASE AtContent
    <2> DEFINE k == Len(items)
    <2>1. k \in 1 .. Len(form)
      BY <1>1, <1>2, <1>5 DEF AtContent
    <2>2. form[k] \in Items /\ After(form)[k] \in Seq(Nat)
      BY <1>1, <2>1
    <2>3. \E c \in Seq(Nat) : Left = c \o (CrLfDashBoundary \o After(form)[k])
      BY <1>5, Zenon DEF AtContent
    <2> HIDE DEF k
    <2> QED
      BY <2>2, <2>3, FromNotEmpty
  <1>6. CASE AtBoundary
    <2>1. Len(items) \in 1 .. Len(form) /\ Left = After(form)[Len(items)]
      BY <1>1, <1>2, <1>6 DEF AtBoundary
    <2> QED
      BY <1>1, <2>1, AfterBegins
  <1> QED
    BY <1>3, <1>4, <1>5, <1>6 DEF Reading

\* What was handed out is the beginning of what was sent.
LEMMA ReadingBegins ==
  ASSUME Typed, form # <<>>, Reading
  PROVE  ItemsBegin
  <1>1. /\ form \in Forms /\ Len(form) \in Nat \ {0}
        /\ \A k \in 1 .. Len(form) : form[k] \in Items
    BY FormAfter, EmptySeq DEF Typed
  <1>2. /\ Len(items) \in Nat /\ DOMAIN items = 1 .. Len(items)
        /\ \A i \in 1 .. Len(items) : items[i] \in ItemsOut
    BY LenProperties, ElementOfSeq DEF Typed
  <1>3. \A i \in 1 .. Len(items) : IsPrefix(items[i].content, items[i].content)
    <2>1. \A i \in 1 .. Len(items) : Len(items[i].content) \in Nat
      BY <1>2, LenProperties DEF ItemsOut
    <2> QED
      BY <2>1 DEF IsPrefix
  <1>4. ASSUME Len(items) <= Len(form), Complete(Len(items))
        PROVE  ItemsBegin
    BY <1>2, <1>3, <1>4 DEF Complete, ItemsBegin
  <1>5. CASE AtOpening
    <2>1. Len(items) = 0
      BY <1>5, EmptySeq DEF AtOpening
    <2> QED
      BY <1>1, <1>4, <2>1 DEF Complete
  <1>6. CASE AtEntry \/ AtHeader
    <2>1. Len(items) + 1 <= Len(form) /\ Complete(Len(items) + 1 - 1)
      <3>1. AtEntry => Len(items) + 1 <= Len(form) /\ Complete(Len(items) + 1 - 1)
        BY DEF AtEntry
      <3>2. AtHeader => Len(items) + 1 <= Len(form) /\ Complete(Len(items) + 1 - 1)
        BY DEF AtHeader
      <3> QED
        BY <1>6, <3>1, <3>2
    <2>2. Len(items) + 1 - 1 = Len(items) /\ Len(items) <= Len(form)
      BY <1>1, <1>2, <2>1
    <2> QED
      BY <1>4, <2>1, <2>2
  <1>7. CASE AtContent
    <2> DEFINE k == Len(items)
    <2>1. /\ k > 0 /\ k <= Len(form) /\ Complete(k - 1)
          /\ items[k].name = form[k].name /\ items[k].type = form[k].type
          /\ \E c \in Seq(Nat) : form[k].content = items[k].content \o c
      BY <1>7, Zenon DEF AtContent
    <2>2. k \in 1 .. k
      BY <1>2, <2>1
    <2>3. IsPrefix(items[k].content, form[k].content)
      <3> DEFINE x == items[k].content
      <3>1. PICK c \in Seq(Nat) : form[k].content = x \o c
        BY <2>1
      <3>2. x \in Seq(Nat)
        BY <1>2, <2>2 DEF ItemsOut
      <3> HIDE DEF x
      <3>3. Len(x \o c) = Len(x) + Len(c) /\ Len(x) \in Nat /\ Len(c) \in Nat
        BY <3>2, ConcatProperties, LenProperties
      <3>4. x \o c \in Seq(Nat)
        BY <3>2, ConcatProperties
      <3>5. Without(Nat, x \o c, <<>>, x, c)
        <4>1. (x \o c) \o <<>> = x \o c
          BY <3>4, ConcatEmptySeq
        <4>2. BeginsWith(Nat, x \o c, <<>>, x, c)
          BY <3>2, <3>3, <3>4, <4>1, EmptySeq DEF BeginsWith
        <4> QED
          BY <4>2, CutOff
      <3>6. SubSeq(x \o c, 1, Len(x)) = x /\ SubSeq(x, 1, Len(x)) = x
        BY <3>2, <3>5, SubSeqFull DEF Without
      <3>7. Len(x) <= Len(x \o c)
        BY <3>3
      <3> QED
        BY <3>1, <3>6, <3>7, Zenon DEF IsPrefix, x
    <2> HIDE DEF k
    <2>5. k \in Nat
      BY <1>2 DEF k
    <2>6. Complete(k - 1) /\ \A i \in 1 .. k : IsPrefix(items[i].content, items[i].content)
      BY <1>3, <2>1 DEF k
    <2>4. ASSUME NEW i \in 1 .. k
          PROVE  /\ items[i].name = form[i].name /\ items[i].type = form[i].type
                 /\ IsPrefix(items[i].content, form[i].content)
                 /\ i < k => items[i] = form[i]
      <3>1. CASE i = k
        <4>1. ~(i < k)
          BY <2>5, <3>1
        <4> QED
          BY <2>1, <2>3, <3>1, <4>1, Zenon
      <3>2. CASE i # k
        <4>1. i \in 1 .. k - 1
          BY <2>5, <3>2
        <4>2. items[i] = form[i]
          BY <2>1, <4>1 DEF Complete
        <4> QED
          BY <2>6, <4>2, Zenon
      <3> QED
        BY <3>1, <3>2
    <2> QED
      BY <1>2, <2>1, <2>4, Zenon DEF ItemsBegin, k
  <1>8. CASE AtBoundary
    BY <1>4, <1>8 DEF AtBoundary
  <1> QED
    BY <1>5, <1>6, <1>7, <1>8 DEF Reading

\* Nothing but the parser's loop has the opening boundary in front of it.
LEMMA PlacesKept ==
  ASSUME UNCHANGED <<form, items, state, file>>, Left' = Left,
         AtEntry \/ AtHeader \/ AtContent \/ AtBoundary
  PROVE  (AtEntry \/ AtHeader \/ AtContent \/ AtBoundary)'
  BY Zenon DEF AtEntry, AtHeader, AtContent, AtBoundary, Complete

\* A piece arrives, and the loop goes on where it stopped.
LEMMA ReadingReceive ==
  ASSUME Typed, form # <<>>, Reading, NEW n, Receive(n)
  PROVE  Reading'
  <1>1. buf \in Seq(Nat) /\ rest \in Seq(Nat)
    BY DEF Typed
  <1>2. Left' = Left
    BY <1>1, ReceiveMoves
  <1>3. pc = "wait" /\ pc' = "parse" /\ UNCHANGED <<form, state, valid, file, items>>
    BY DEF Receive
  <1>4. ~AtOpening
    BY <1>3 DEF AtOpening
  <1>5. ~valid /\ (AtEntry \/ AtHeader \/ AtContent \/ AtBoundary)
    BY <1>4 DEF Reading
  <1>6. (AtEntry \/ AtHeader \/ AtContent \/ AtBoundary)'
    BY <1>2, <1>3, <1>5, PlacesKept
  <1> QED
    BY <1>3, <1>5, <1>6 DEF Reading

\* The buffer is used up, and something is still to come.
LEMMA ReadingReturns ==
  ASSUME Typed, form # <<>>, Reading, ParseReturns
  PROVE  Reading'
  <1>1. buf = <<>> /\ rest \in Seq(Nat) /\ pc' = "wait"
        /\ UNCHANGED <<form, rest, state, buf, valid, file, items>>
    BY DEF Typed, ParseReturns
  <1>2. ~AtOpening
    BY <1>1, EmptySeq DEF AtOpening
  <1>3. Left = rest
    BY <1>1, ConcatEmptySeq DEF Left
  <1>4. rest # <<>>
    BY <1>3, ReadingNotEmpty
  <1>5. ~valid /\ (AtEntry \/ AtHeader \/ AtContent \/ AtBoundary)
    BY <1>2 DEF Reading
  <1>6. Left' = Left
    BY <1>1 DEF Left
  <1>7. (AtEntry \/ AtHeader \/ AtContent \/ AtBoundary)'
    BY <1>1, <1>5, <1>6, PlacesKept
  <1> QED
    BY <1>1, <1>4, <1>5, <1>7 DEF Reading

\* The end of the content and the refusal of a callback.
LEMMA ReadingFails ==
  ASSUME Typed, form # <<>>, Reading, pc' = "failed", ~valid', UNCHANGED <<form, items>>
  PROVE  Rejected'
  <1>1. ItemsBegin
    BY ReadingBegins
  <1>2. ItemsBegin'
    BY <1>1 DEF ItemsBegin
  <1> QED
    BY <1>2 DEF Rejected

\* The opening boundary is found at once.
LEMMA ReadingOpening ==
  ASSUME Typed, form # <<>>, Reading, OpeningBoundary
  PROVE  Reading'
  <1> DEFINE s == DashBoundaryCrLf
             q == FromName(form[1], After(form)[1])
             a == BufFind(s)
  <1>1. /\ state = 0 /\ pc = "parse" /\ UNCHANGED <<form, rest, valid, items>>
        /\ IF a = Len(buf) THEN BufErase(a) /\ pc' = "wait" /\ UNCHANGED state
           ELSE BufErase(a + Len(s)) /\ state' = 1 /\ UNCHANGED pc
    BY DEF OpeningBoundary, Parsing
  <1>2. AtOpening /\ ~valid
    BY <1>1 DEF Reading, AtEntry, AtHeader, AtContent, AtBoundary
  <1>3. /\ form \in Forms /\ Len(form) \in Nat \ {0} /\ buf \in Seq(Nat) /\ rest \in Seq(Nat)
        /\ \A k \in 1 .. Len(form) : form[k] \in Items /\ After(form)[k] \in Seq(Nat)
    BY FormAfter, EmptySeq DEF Typed
  <1>4. form[1] \in Items /\ After(form)[1] \in Seq(Nat)
    <2>1. 1 \in 1 .. Len(form)
      BY <1>3
    <2> QED
      BY <1>3, <2>1
  <1>5. q \in Seq(Nat)
    BY <1>4, FromTypes
  <1>6. s \in Seq(Nat) /\ s # <<>> /\ Len(s) = 5
    BY LineTypes
  <1>7. items = <<>> /\ Len(buf) >= 5 /\ Left = s \o q
    BY <1>2 DEF AtOpening
  <1> HIDE DEF q, s
  <1>8. s \o q \in Seq(Nat)
    BY <1>5, <1>6, ConcatProperties
  <1>9. <<>> \o (s \o q) = s \o q
    BY <1>8, ConcatEmptySeq
  <1>10. Ahead(<<>>, s, q)
    BY <1>3, <1>5, <1>6, <1>7, <1>9, FirstAtOnce, EmptySeq DEF Ahead
  <1>11. Found(<<>>, s, q) \/ NotYet(<<>>, s)
    BY <1>10, FindFirst
  <1>12. Len(<<>>) = 0 /\ Len(buf) \in Nat
    BY <1>3, EmptySeq, LenProperties
  <1>13. Found(<<>>, s, q)
    BY <1>6, <1>7, <1>11, <1>12 DEF NotYet
  <1>14. /\ a = 0 /\ 0 < Len(buf)
         /\ SubSeq(buf, 0 + Len(s) + 1, Len(buf)) \o rest = q
    BY <1>12, <1>13, Zenon DEF Found
  <1> HIDE DEF a
  <1>15. a # Len(buf)
    BY <1>12, <1>14
  <1>16. buf' \o rest = q /\ state' = 1 /\ UNCHANGED pc
    BY <1>1, <1>14, <1>15, Zenon DEF BufErase
  <1>17. Left' = FromName(form[1], After(form)[1])
    BY <1>1, <1>16 DEF Left, q
  <1>18. AtEntry'
    <2>1. Len(items') = 0 /\ form' = form
      BY <1>1, <1>7, <1>12
    <2>2. Complete(0)'
      BY DEF Complete
    <2>3. 1 <= Len(form) /\ 0 + 1 = 1 /\ 1 - 1 = 0
      BY <1>3
    <2> QED
      BY <1>16, <1>17, <2>1, <2>2, <2>3 DEF AtEntry
  <1> QED
    BY <1>1, <1>2, <1>16, <1>18 DEF Reading

\* A new entry begins with its headers.
LEMMA ReadingNewEntry ==
  ASSUME Typed, form # <<>>, Reading, NewEntry
  PROVE  Reading'
  <1>1. /\ state = 1 /\ pc = "parse" /\ state' = 2 /\ file' = NoFile
        /\ UNCHANGED <<form, rest, buf, valid, items, pc>>
    BY DEF NewEntry, Parsing
  <1>2. AtEntry /\ ~valid
    BY <1>1 DEF Reading, AtOpening, AtHeader, AtContent, AtBoundary
  <1>3. Left' = Left
    BY <1>1 DEF Left
  <1>4. AtHeader'
    BY <1>1, <1>2, <1>3 DEF AtEntry, AtHeader, Complete
  <1> QED
    BY <1>1, <1>2, <1>4 DEF Reading

\* The symbol of a line, and the end of the line, are found together.
LEMMA LineAhead ==
  ASSUME buf \in Seq(Nat), rest \in Seq(Nat), NEW x \in Nat, x # 13, NEW q \in Seq(Nat),
         Left = (<<x>> \o CrLf) \o q
  PROVE  \/ /\ BufFind(CrLf) = 1 /\ Len(buf) # 1 /\ buf[1] = x
            /\ BufErase(1 + Len(CrLf)) /\ UNCHANGED rest => Left' = q
         \/ BufFind(CrLf) = Len(buf) /\ rest # <<>>
  <1> DEFINE p == <<x>>
             s == CrLf
  <1>1. p \in Seq(Nat) /\ Len(p) = 1 /\ p[1] = x
    OBVIOUS
  <1>2. s \in Seq(Nat) /\ s # <<>>
    BY LineTypes
  <1>3. FirstBehind(p, s)
    BY FirstBehindSymbol
  <1> HIDE DEF p, s
  <1>4. ThreeAsOne(Nat, p, s, q)
    BY <1>1, <1>2, ConcatThree DEF Three
  <1>5. Left = p \o (s \o q)
    BY <1>4, Zenon DEF ThreeAsOne, p, s
  <1>6. Found(p, s, q) \/ NotYet(p, s)
    <2>1. Ahead(p, s, q)
      BY <1>1, <1>2, <1>3, <1>5, Zenon DEF Ahead
    <2> QED
      BY <2>1, FindFirst
  <1>7. CASE Found(p, s, q)
    <2>1. /\ BufFind(s) = 1 /\ 1 < Len(buf) /\ SubSeq(buf, 1, 1) = p
          /\ SubSeq(buf, 1 + Len(s) + 1, Len(buf)) \o rest = q
      BY <1>1, <1>7, Zenon DEF Found
    <2>2. Len(buf) \in Nat
      BY LenProperties
    <2>3. buf[1] = x
      <3>1. 1 \in 1 .. Len(buf) + 1 /\ 1 \in 1 - 1 .. Len(buf)
        BY <2>1, <2>2
      <3>2. \A i \in 1 .. 1 - 1 + 1 : SubSeq(buf, 1, 1)[i] = buf[1 + i - 1]
        BY <3>1, PieceOf
      <3>3. SubSeq(buf, 1, 1)[1] = buf[1]
        BY <3>2
      <3> QED
        BY <1>1, <2>1, <3>3, Zenon
    <2>4. BufErase(1 + Len(s)) /\ UNCHANGED rest => Left' = q
      BY <2>1, Zenon DEF BufErase, Left
    <2>5. Len(buf) # 1
      <3> DEFINE n == Len(buf)
      <3>1. 1 < n /\ n \in Nat
        BY <2>1, <2>2, Zenon
      <3> HIDE DEF n
      <3>2. n # 1
        BY <3>1
      <3> QED
        BY <3>2 DEF n
    <2> QED
      BY <2>1, <2>3, <2>4, <2>5, Zenon DEF s
  <1>8. CASE NotYet(p, s)
    BY <1>8 DEF NotYet, s
  <1> QED
    BY <1>6, <1>7, <1>8, Zenon

\* A line break at the beginning is found at once.
LEMMA BreakAhead ==
  ASSUME buf \in Seq(Nat), rest \in Seq(Nat), NEW q \in Seq(Nat), Left = CrLf \o q
  PROVE  \/ /\ BufFind(CrLf) = 0 /\ Len(buf) # 0
            /\ BufErase(Len(CrLf)) /\ UNCHANGED rest => Left' = q
         \/ BufFind(CrLf) = Len(buf) /\ rest # <<>>
  <1> DEFINE s == CrLf
  <1>1. s \in Seq(Nat) /\ s # <<>> /\ Len(s) \in Nat
    BY LineTypes
  <1> HIDE DEF s
  <1>2. s \o q \in Seq(Nat)
    BY <1>1, ConcatProperties
  <1>3. Left = <<>> \o (s \o q)
    BY <1>2, ConcatEmptySeq DEF s
  <1>4. Found(<<>>, s, q) \/ NotYet(<<>>, s)
    <2>1. Ahead(<<>>, s, q)
      BY <1>1, <1>3, FirstAtOnce, EmptySeq DEF Ahead
    <2> QED
      BY <2>1, FindFirst
  <1>5. CASE Found(<<>>, s, q)
    <2>1. Len(<<>>) = 0 /\ 0 + Len(s) = Len(s) /\ Len(buf) \in Nat
      BY <1>1, EmptySeq, LenProperties
    <2>2. /\ BufFind(s) = 0 /\ 0 < Len(buf)
          /\ SubSeq(buf, Len(s) + 1, Len(buf)) \o rest = q
      BY <1>5, <2>1, Zenon DEF Found
    <2>3. BufErase(Len(s)) /\ UNCHANGED rest => Left' = q
      BY <2>2, Zenon DEF BufErase, Left
    <2>4. Len(buf) # 0
      BY <2>1, <2>2
    <2> QED
      BY <2>2, <2>3, <2>4, Zenon DEF s
  <1>6. CASE NotYet(<<>>, s)
    BY <1>6 DEF NotYet, s
  <1> QED
    BY <1>4, <1>5, <1>6, Zenon

\* The parser waits for more and stays where it is.
LEMMA ReadingWaits ==
  ASSUME Reading, state # 0, rest # <<>>, pc' = "wait",
         UNCHANGED <<form, rest, state, buf, valid, file, items>>
  PROVE  Reading'
  <1>1. ~valid /\ (AtEntry \/ AtHeader \/ AtContent \/ AtBoundary)
    BY DEF Reading, AtOpening
  <1>2. Left' = Left
    BY DEF Left
  <1>3. (AtEntry \/ AtHeader \/ AtContent \/ AtBoundary)'
    BY <1>1, <1>2, PlacesKept
  <1> QED
    BY <1>1, <1>3 DEF Reading

\* One line of the headers, or their end.
LEMMA ReadingHeader ==
  ASSUME Typed, form # <<>>, Reading, Header
  PROVE  Rejected' \/ Reading'
  <1> DEFINE k == Len(items) + 1
             item == form[k]
             t == After(form)[k]
             a == BufFind(CrLf)
             e == [name |-> file.name, type |-> file.type, content |-> <<>>]
  <1>1. state = 2 /\ pc \in {"parse", "lines"} /\ UNCHANGED <<form, rest>>
    BY DEF Header
  <1> DEFINE TooLong == pc' = "failed" /\ UNCHANGED <<valid, items>>
  <1>b. \/ TooLong
        \/ /\ a = Len(buf) => pc' = "wait" /\ UNCHANGED <<state, buf, valid, file, items>>
           /\ a # Len(buf) /\ a = 0 =>
                \/ /\ items' = Append(items, e) /\ BufErase(Len(CrLf)) /\ state' = 3
                   /\ pc' = "parse" /\ UNCHANGED <<valid, file>>
                \/ pc' = "failed" /\ valid' = FALSE /\ UNCHANGED items
           /\ a # Len(buf) /\ a # 0 =>
                /\ file' = IF buf[1] \in Types THEN [file EXCEPT !.type = buf[1]]
                           ELSE [file EXCEPT !.name = buf[1]]
                /\ BufErase(a + Len(CrLf)) /\ pc' = "lines" /\ UNCHANGED <<state, valid, items>>
    BY Zenon DEF Header, Fail
  <1>3. AtHeader /\ ~valid
    BY <1>1 DEF Reading, AtOpening, AtEntry, AtContent, AtBoundary
  <1>c. CASE TooLong
    BY <1>1, <1>3, <1>c, ReadingFails
  <1> SUFFICES ASSUME ~TooLong PROVE Rejected' \/ Reading'
    BY <1>c
  <1>2. /\ a = Len(buf) => pc' = "wait" /\ UNCHANGED <<state, buf, valid, file, items>>
        /\ a # Len(buf) /\ a = 0 =>
             \/ /\ items' = Append(items, e) /\ BufErase(Len(CrLf)) /\ state' = 3
                /\ pc' = "parse" /\ UNCHANGED <<valid, file>>
             \/ pc' = "failed" /\ valid' = FALSE /\ UNCHANGED items
        /\ a # Len(buf) /\ a # 0 =>
             /\ file' = IF buf[1] \in Types THEN [file EXCEPT !.type = buf[1]]
                        ELSE [file EXCEPT !.name = buf[1]]
             /\ BufErase(a + Len(CrLf)) /\ pc' = "lines" /\ UNCHANGED <<state, valid, items>>
    <2> HIDE DEF TooLong
    <2> QED
      BY <1>b, Zenon
  <1>4. /\ form \in Forms /\ Len(form) \in Nat /\ buf \in Seq(Nat) /\ rest \in Seq(Nat)
        /\ items \in Seq(ItemsOut) /\ Len(items) \in Nat
        /\ \A i \in 1 .. Len(form) : form[i] \in Items /\ After(form)[i] \in Seq(Nat)
        /\ file \in [name : Nat, type : Nat]
    BY FormAfter, LenProperties DEF Typed
  <1>5. /\ k <= Len(form) /\ Complete(k - 1)
        /\ \/ file = NoFile /\ Left = FromName(item, t)
           \/ file = [name |-> item.name, type |-> NoType] /\ Left = FromType(item, t)
           \/ file = [name |-> item.name, type |-> item.type] /\ Left = FromEmptyLine(item, t)
    BY <1>3, Zenon DEF AtHeader
  <1>6. k \in 1 .. Len(form) /\ k - 1 = Len(items)
    BY <1>4, <1>5
  <1>7. item \in Items /\ t \in Seq(Nat)
    BY <1>4, <1>6
  <1>8. ASSUME a = Len(buf), rest # <<>> PROVE Reading'
    <2>1. pc' = "wait" /\ UNCHANGED <<form, rest, state, buf, valid, file, items>>
      BY <1>1, <1>2, <1>8
    <2> QED
      BY <1>1, <1>8, <2>1, ReadingWaits
  <1>9. /\ item.name \in Nat /\ item.type \in Nat /\ item.content \in Seq(Nat)
        /\ item.name # 13 /\ item.type # 13 /\ item.name \notin Types
        /\ item.type # NoType => item.type \in Types
    BY <1>7, ItemType
  <1>10. /\ FromType(item, t) \in Seq(Nat) /\ FromEmptyLine(item, t) \in Seq(Nat)
         /\ FromContent(item, t) \in Seq(Nat)
    BY <1>7, FromTypes
  <1>11. Len(CrLf) = 2
    BY LineTypes
  <1> HIDE DEF a, e, item, t
  \* The parser stays at the headers, one of them further.
  <1>12. ASSUME state' = 2, pc' = "lines", UNCHANGED <<form, valid, items>>,
                \/ file' = [name |-> item.name, type |-> NoType] /\ Left' = FromType(item, t)
                \/ /\ file' = [name |-> item.name, type |-> item.type]
                   /\ Left' = FromEmptyLine(item, t)
         PROVE  Reading'
    <2>1. Complete(k - 1)'
      BY <1>5, <1>12 DEF Complete
    <2>2. AtHeader'
      BY <1>5, <1>12, <2>1 DEF AtHeader, item, t
    <2> QED
      BY <1>1, <1>3, <1>12, <2>2 DEF Reading
  <1>13. CASE file = NoFile /\ Left = FromName(item, t)
    <2>1. \/ /\ a = 1 /\ Len(buf) # 1 /\ buf[1] = item.name
             /\ BufErase(1 + Len(CrLf)) /\ UNCHANGED rest => Left' = FromType(item, t)
          \/ a = Len(buf) /\ rest # <<>>
      BY <1>4, <1>9, <1>10, <1>13, LineAhead, Zenon DEF FromName, a
    <2>2. CASE /\ a = 1 /\ Len(buf) # 1 /\ buf[1] = item.name
               /\ BufErase(1 + Len(CrLf)) /\ UNCHANGED rest => Left' = FromType(item, t)
      <3>1. /\ file' = [file EXCEPT !.name = item.name] /\ BufErase(1 + Len(CrLf))
            /\ pc' = "lines" /\ UNCHANGED <<state, valid, items>>
        BY <1>2, <1>9, <2>2
      <3>2. file' = [name |-> item.name, type |-> NoType]
        BY <1>13, <3>1 DEF NoFile
      <3>3. Left' = FromType(item, t)
        BY <1>1, <2>2, <3>1
      <3> QED
        BY <1>1, <1>12, <3>1, <3>2, <3>3, Zenon
    <2> QED
      BY <1>8, <2>1, <2>2
  <1>14. CASE /\ item.type # NoType
              /\ file = [name |-> item.name, type |-> NoType] /\ Left = FromType(item, t)
    <2>1. TypeLine(item) = <<item.type>> \o CrLf
      BY <1>14 DEF TypeLine
    <2>2. \/ /\ a = 1 /\ Len(buf) # 1 /\ buf[1] = item.type
             /\ BufErase(1 + Len(CrLf)) /\ UNCHANGED rest => Left' = FromEmptyLine(item, t)
          \/ a = Len(buf) /\ rest # <<>>
      BY <1>4, <1>9, <1>10, <1>14, <2>1, LineAhead, Zenon DEF FromType, a
    <2>3. CASE /\ a = 1 /\ Len(buf) # 1 /\ buf[1] = item.type
               /\ BufErase(1 + Len(CrLf)) /\ UNCHANGED rest => Left' = FromEmptyLine(item, t)
      <3>1. /\ file' = [file EXCEPT !.type = item.type] /\ BufErase(1 + Len(CrLf))
            /\ pc' = "lines" /\ UNCHANGED <<state, valid, items>>
        BY <1>2, <1>9, <1>14, <2>3
      <3>2. file' = [name |-> item.name, type |-> item.type]
        BY <1>14, <3>1
      <3>3. Left' = FromEmptyLine(item, t)
        BY <1>1, <2>3, <3>1
      <3> QED
        BY <1>1, <1>12, <3>1, <3>2, <3>3, Zenon
    <2> QED
      BY <1>8, <2>2, <2>3
  <1>15. ASSUME file = [name |-> item.name, type |-> item.type], Left = FromEmptyLine(item, t)
         PROVE  Rejected' \/ Reading'
    <2>1. \/ /\ a = 0 /\ Len(buf) # 0
             /\ BufErase(Len(CrLf)) /\ UNCHANGED rest => Left' = FromContent(item, t)
          \/ a = Len(buf) /\ rest # <<>>
      BY <1>4, <1>10, <1>15, BreakAhead, Zenon DEF FromEmptyLine, a
    <2>2. CASE /\ a = 0 /\ Len(buf) # 0
               /\ BufErase(Len(CrLf)) /\ UNCHANGED rest => Left' = FromContent(item, t)
      <3>1. \/ /\ items' = Append(items, e) /\ BufErase(Len(CrLf)) /\ state' = 3
               /\ pc' = "parse" /\ UNCHANGED <<valid, file>>
            \/ pc' = "failed" /\ valid' = FALSE /\ UNCHANGED items
        BY <1>2, <2>2
      <3>2. CASE pc' = "failed" /\ valid' = FALSE /\ UNCHANGED items
        BY <1>1, <3>2, ReadingFails
      <3>3. CASE /\ items' = Append(items, e) /\ BufErase(Len(CrLf)) /\ state' = 3
                 /\ pc' = "parse" /\ UNCHANGED <<valid, file>>
        <4>1. Left' = FromContent(item, t)
          BY <1>1, <2>2, <3>3
        <4>2. /\ e \in ItemsOut /\ e.name = item.name /\ e.type = item.type
              /\ e.content = <<>>
          BY <1>9, <1>15 DEF e, ItemsOut
        <4>3. /\ Len(items') = k /\ items'[k] = e
              /\ \A i \in 1 .. k - 1 : items'[i] = items[i]
          <5>1. /\ Len(Append(items, e)) = Len(items) + 1
                /\ \A i \in 1 .. Len(items) : Append(items, e)[i] = items[i]
                /\ Append(items, e)[Len(items) + 1] = e
            BY <1>4, <4>2, AppendProperties
          <5> QED
            BY <1>6, <3>3, <5>1
        <4>4. \A i \in 1 .. k - 1 : items'[i] = form'[i]
          BY <1>1, <1>5, <4>3 DEF Complete
        <4>5. item.content = <<>> \o item.content
          BY <1>9, ConcatEmptySeq
        <4>6. Left' = item.content \o (CrLfDashBoundary \o t)
          BY <4>1 DEF FromContent
        <4> HIDE DEF k
        <4>7. k > 0 /\ k <= Len(form)
          BY <1>4, <1>6
        <4>8. /\ items'[k].name = form'[k].name /\ items'[k].type = form'[k].type
              /\ form'[k].content = items'[k].content \o item.content
          BY <1>1, <4>2, <4>3, <4>5, Zenon DEF item
        <4>9. t = After(form')[k] /\ form' = form
          BY <1>1 DEF t
        <4>10. /\ state' = 3 /\ Len(items') > 0 /\ Len(items') <= Len(form')
               /\ Complete(Len(items) - 1)'
               /\ items'[Len(items')].name = form'[Len(items')].name
               /\ items'[Len(items')].type = form'[Len(items')].type
          BY <3>3, <4>3, <4>4, <4>7, <4>8, <4>9, Zenon DEF Complete
        <4>11. \E c \in Seq(Nat) :
                 /\ form'[Len(items')].content = items'[Len(items')].content \o c
                 /\ Left' = c \o (CrLfDashBoundary \o After(form')[Len(items')])
          BY <1>9, <4>3, <4>6, <4>8, <4>9, Zenon
        <4>12. AtContent'
          BY <4>10, <4>11, Zenon DEF AtContent
        <4> QED
          BY <1>1, <1>3, <3>3, <4>12 DEF Reading
      <3> QED
        BY <3>1, <3>2, <3>3, Zenon
    <2> QED
      BY <1>8, <2>1, <2>2
  <1>16. CASE /\ item.type = NoType
              /\ file = [name |-> item.name, type |-> NoType] /\ Left = FromType(item, t)
    <2>1. TypeLine(item) = <<>>
      BY <1>16 DEF TypeLine
    <2>2. Left = FromEmptyLine(item, t)
      <3>1. <<>> \o FromEmptyLine(item, t) = FromEmptyLine(item, t)
        BY <1>10, ConcatEmptySeq
      <3> QED
        BY <1>16, <2>1, <3>1, Zenon DEF FromType
    <2> QED
      BY <1>15, <1>16, <2>2
  <1> QED
    BY <1>5, <1>13, <1>14, <1>15, <1>16, Zenon DEF item, t

\* What the buffer begins with, when what is left begins with x.
LEMMA StartAhead ==
  ASSUME buf \in Seq(Nat), rest \in Seq(Nat), NEW x \in Seq(Nat), NEW y \in Seq(Nat),
         x # <<>>, Left = x \o y
  PROVE  /\ BufStartsWith(x) /\ BufErase(Len(x)) /\ UNCHANGED rest => Left' = y
         /\ rest = <<>> => BufStartsWith(x)
         /\ \A z \in Seq(Nat) : z # <<>> /\ BufStartsWith(z) => z[1] = x[1]
  <1>1. Len(buf) \in Nat /\ Len(rest) \in Nat /\ Len(x) \in Nat \ {0} /\ Len(y) \in Nat
    BY LenProperties, EmptySeq
  <1>2. SubSeq(x, 1, Len(x)) = x
    BY SubSeqFull
  <1>3. Len(x) <= Len(buf) => Without(Nat, buf, rest, x, y)
    <2> SUFFICES ASSUME Len(x) <= Len(buf) PROVE Without(Nat, buf, rest, x, y)
      OBVIOUS
    <2>1. BeginsWith(Nat, buf, rest, x, y)
      BY DEF BeginsWith, Left
    <2> QED
      BY <2>1, CutOff
  <1>4. BufStartsWith(x) /\ BufErase(Len(x)) /\ UNCHANGED rest => Left' = y
    BY <1>3, Zenon DEF BufStartsWith, IsPrefix, BufErase, Left, Without
  <1>5. rest = <<>> => BufStartsWith(x)
    <2> SUFFICES ASSUME rest = <<>> PROVE BufStartsWith(x)
      OBVIOUS
    <2>1. buf \o rest = buf
      BY ConcatEmptySeq
    <2>2. buf = x \o y
      BY <2>1, Zenon DEF Left
    <2>3. Len(x) <= Len(buf)
      <3>1. Len(x \o y) = Len(x) + Len(y)
        BY ConcatProperties
      <3> QED
        BY <1>1, <2>2, <3>1
    <2>4. SubSeq(buf, 1, Len(x)) = x
      BY <1>3, <2>3 DEF Without
    <2> QED
      BY <1>2, <2>3, <2>4, Zenon DEF BufStartsWith, IsPrefix
  <1>6. ASSUME NEW z \in Seq(Nat), z # <<>>, BufStartsWith(z)
        PROVE  z[1] = x[1]
    <2>1. Len(z) \in Nat \ {0} /\ Len(z) <= Len(buf) /\ SubSeq(z, 1, Len(z)) = SubSeq(buf, 1, Len(z))
      BY <1>6, EmptySeq DEF BufStartsWith, IsPrefix
    <2>2. SubSeq(z, 1, Len(z)) = z
      BY <1>6, SubSeqFull
    <2>3. z[1] = buf[1]
      <3> DEFINE n == Len(z)
                 w == SubSeq(buf, 1, n)
      <3>1. 1 \in 1 .. Len(buf) + 1 /\ n \in 1 - 1 .. Len(buf) /\ 1 \in 1 .. n - 1 + 1
        BY <1>1, <2>1
      <3>2. \A i \in 1 .. n - 1 + 1 : w[i] = buf[1 + i - 1]
        BY <3>1, PieceOf
      <3>3. w = z
        BY <2>1, <2>2, Zenon
      <3> HIDE DEF w, n
      <3>4. w[1] = buf[1 + 1 - 1]
        BY <3>1, <3>2
      <3> QED
        BY <3>3, <3>4
    <2>4. buf[1] = Left[1]
      <3>1. \A i \in 1 .. Len(buf) + Len(rest) :
              (buf \o rest)[i] = IF i <= Len(buf) THEN buf[i] ELSE rest[i - Len(buf)]
        BY ConcatProperties
      <3>2. 1 \in 1 .. Len(buf) + Len(rest) /\ 1 <= Len(buf)
        BY <1>1, <2>1
      <3> QED
        BY <3>1, <3>2 DEF Left
    <2>5. (x \o y)[1] = x[1]
      <3>1. \A i \in 1 .. Len(x) + Len(y) :
              (x \o y)[i] = IF i <= Len(x) THEN x[i] ELSE y[i - Len(x)]
        BY ConcatProperties
      <3>2. 1 \in 1 .. Len(x) + Len(y) /\ 1 <= Len(x)
        BY <1>1
      <3> QED
        BY <3>1, <3>2
    <2> QED
      BY <2>3, <2>4, <2>5, Zenon
  <1> QED
    BY <1>4, <1>5, <1>6, Zenon

\* All items have been handed out as they were.
LEMMA AllComplete ==
  ASSUME Typed, Len(items) = Len(form), Complete(Len(items))
  PROVE  items = form
  <1>1. /\ items \in [1 .. Len(items) -> ItemsOut] /\ form \in [1 .. Len(form) -> Items]
    BY FormAfter, LenProperties DEF Typed
  <1>2. \A i \in 1 .. Len(items) : items[i] = form[i]
    BY DEF Complete
  <1> QED
    BY <1>1, <1>2

\* Behind a boundary: another item, the end, or not enough to tell.
LEMMA ReadingAfter ==
  ASSUME Typed, form # <<>>, Reading, AfterBoundary
  PROVE  Accepted' \/ Reading'
  <1> DEFINE k == Len(items)
             q == FromName(form[k + 1], After(form)[k + 1])
  <1>1. state = 4 /\ pc = "parse" /\ UNCHANGED <<form, rest, file, items>>
    BY DEF AfterBoundary, Parsing
  <1>2. AtBoundary /\ ~valid
    BY <1>1 DEF Reading, AtOpening, AtEntry, AtHeader, AtContent
  <1>3. /\ form \in Forms /\ Len(form) \in Nat /\ k \in Nat
        /\ buf \in Seq(Nat) /\ rest \in Seq(Nat)
    BY FormAfter, LenProperties DEF Typed
  <1>4. k \in 1 .. Len(form) /\ Complete(k) /\ Left = After(form)[k]
    BY <1>2, <1>3 DEF AtBoundary
  <1>5. IF k = Len(form) THEN Left = Dash \o CrLf
        ELSE k + 1 \in 1 .. Len(form) /\ Left = CrLf \o q /\ q \in Seq(Nat)
    BY <1>3, <1>4, AfterBegins, Zenon
  <1>6. /\ Dash \in Seq(Nat) /\ Dash # <<>> /\ Dash[1] = 45 /\ Len(Dash) = 2
        /\ CrLf \in Seq(Nat) /\ CrLf # <<>> /\ CrLf[1] = 13 /\ Len(CrLf) = 2
    BY LineBytes, LineTypes
  <1>7. \/ BufStartsWith(CrLf) /\ BufErase(2) /\ state' = 1 /\ UNCHANGED <<valid, pc>>
        \/ BufStartsWith(Dash) /\ valid' = TRUE /\ buf' = <<>> /\ UNCHANGED <<state, pc>>
        \/ /\ ~BufStartsWith(CrLf) /\ ~BufStartsWith(Dash)
           /\ pc' = "wait" /\ UNCHANGED <<state, buf, valid>>
    BY DEF AfterBoundary
  <1> HIDE DEF q
  <1>8. CASE k = Len(form)
    <2>1. Left = Dash \o CrLf
      BY <1>5, <1>8
    <2>2. /\ rest = <<>> => BufStartsWith(Dash)
          /\ \A z \in Seq(Nat) : z # <<>> /\ BufStartsWith(z) => z[1] = Dash[1]
      BY <1>3, <1>6, <2>1, StartAhead, Zenon
    <2>3. ~BufStartsWith(CrLf)
      BY <1>6, <2>2
    <2>4. CASE BufStartsWith(Dash) /\ valid' = TRUE /\ buf' = <<>> /\ UNCHANGED <<state, pc>>
      <3>1. items' = form'
        BY <1>1, <1>4, <1>8, AllComplete
      <3>2. Len(buf') + Len(rest') <= 2
        <4>1. Len(buf) + Len(rest) = 4
          <5>1. Len(buf \o rest) = Len(buf) + Len(rest)
            BY <1>3, ConcatProperties
          <5>2. Len(Dash \o CrLf) = Len(Dash) + Len(CrLf)
            BY <1>6, ConcatProperties, ZenonT(30)
          <5>3. Len(buf \o rest) = Len(Dash \o CrLf)
            BY <2>1, Zenon DEF Left
          <5> QED
            BY <1>6, <5>1, <5>2, <5>3
        <4>2. 2 <= Len(buf)
          BY <1>6, <2>4 DEF BufStartsWith, IsPrefix
        <4>3. Len(buf') = 0
          BY <2>4, EmptySeq
        <4>4. Len(buf) \in Nat /\ Len(rest) \in Nat
          BY <1>3, LenProperties
        <4> QED
          BY <1>1, <4>1, <4>2, <4>3, <4>4
      <3> QED
        BY <1>1, <2>4, <3>1, <3>2 DEF Accepted
    <2>5. CASE /\ ~BufStartsWith(Dash) /\ pc' = "wait" /\ UNCHANGED <<state, buf, valid>>
      BY <1>1, <2>2, <2>5, ReadingWaits
    <2> QED
      BY <1>7, <2>3, <2>4, <2>5, Zenon
  <1>9. CASE k # Len(form)
    <2>1. k + 1 \in 1 .. Len(form) /\ Left = CrLf \o q /\ q \in Seq(Nat)
      BY <1>5, <1>9
    <2>2. /\ BufStartsWith(CrLf) /\ BufErase(Len(CrLf)) /\ UNCHANGED rest => Left' = q
          /\ rest = <<>> => BufStartsWith(CrLf)
          /\ \A z \in Seq(Nat) : z # <<>> /\ BufStartsWith(z) => z[1] = CrLf[1]
      BY <1>3, <1>6, <2>1, StartAhead, Zenon
    <2>3. ~BufStartsWith(Dash)
      BY <1>6, <2>2
    <2>4. CASE BufStartsWith(CrLf) /\ BufErase(2) /\ state' = 1 /\ UNCHANGED <<valid, pc>>
      <3>1. Left' = q
        BY <1>1, <1>6, <2>2, <2>4
      <3>2. Complete(k)'
        BY <1>1, <1>4 DEF Complete
      <3>3. k + 1 <= Len(form) /\ (k + 1) - 1 = k
        BY <1>3, <2>1
      <3>4. AtEntry'
        BY <1>1, <2>4, <3>1, <3>2, <3>3 DEF AtEntry, q
      <3> QED
        BY <1>1, <1>2, <2>4, <3>4 DEF Reading
    <2>5. CASE /\ ~BufStartsWith(CrLf) /\ pc' = "wait" /\ UNCHANGED <<state, buf, valid>>
      BY <1>1, <2>2, <2>5, ReadingWaits
    <2> QED
      BY <1>7, <2>3, <2>4, <2>5, Zenon
  <1> QED
    BY <1>8, <1>9

\* Content is handed out up to the boundary, or as far as it is certain.
LEMMA ReadingBody ==
  ASSUME Typed, form # <<>>, Reading, Body
  PROVE  Reading'
  <1> DEFINE k == Len(items)
             s == CrLfDashBoundary
             t == After(form)[k]
             x == form[k].content
             d == items[k].content
             a == BufFind(s)
             u == Len(buf) - Len(s)
  <1>1. state = 3 /\ pc = "parse" /\ UNCHANGED <<form, rest, valid, file>>
    BY DEF Body, Parsing
  <1>2. \/ u < 0 /\ pc' = "wait" /\ UNCHANGED <<state, buf, items>>
        \/ /\ ~(u < 0) /\ a < Len(buf)
           /\ Content(a) /\ BufErase(a + Len(s)) /\ state' = 4 /\ UNCHANGED pc
        \/ /\ ~(u < 0) /\ ~(a < Len(buf))
           /\ Content(u) /\ BufErase(u) /\ pc' = "wait" /\ UNCHANGED state
    BY Zenon DEF Body
  <1>3. AtContent /\ ~valid
    BY <1>1 DEF Reading, AtOpening, AtEntry, AtHeader, AtBoundary
  <1>4. /\ form \in Forms /\ Len(form) \in Nat /\ k \in Nat /\ items # <<>>
        /\ buf \in Seq(Nat) /\ rest \in Seq(Nat)
        /\ \A i \in 1 .. Len(form) : form[i] \in Items /\ After(form)[i] \in Seq(Nat)
    BY <1>1, FormAfter, LenProperties DEF Typed
  <1>5. /\ k > 0 /\ k <= Len(form) /\ Complete(k - 1)
        /\ items[k].name = form[k].name /\ items[k].type = form[k].type
        /\ \E c \in Seq(Nat) : x = d \o c /\ Left = c \o (s \o t)
    BY <1>3, Zenon DEF AtContent
  <1>6. PICK c \in Seq(Nat) : x = d \o c /\ Left = c \o (s \o t)
    BY <1>5, Zenon
  <1>7. k \in 1 .. Len(form)
    BY <1>4, <1>5
  <1>8. form[k] \in Items /\ x \in Seq(Nat) /\ t \in Seq(Nat)
    BY <1>4, <1>7, ItemType
  <1>9. items[k] \in ItemsOut /\ d \in Seq(Nat)
    <2>1. k \in 1 .. Len(items) /\ items \in Seq(ItemsOut)
      BY <1>4, <1>5 DEF Typed
    <2>2. items[k] \in ItemsOut
      BY <2>1, ElementOfSeq
    <2> QED
      BY <2>2 DEF ItemsOut
  <1>10. s \in Seq(Nat) /\ s # <<>> /\ Len(s) = 5
    BY LineTypes
  <1>11. FirstBehind(c, s)
    <2>1. \A j \in 1 .. (Len(x) - Len(s) + 1) : SubSeq(x, j, j + Len(s) - 1) # s
      BY <1>4, <1>7, FormItems, Zenon
    <2> HIDE DEF x, d
    <2> QED
      BY <1>6, <1>8, <1>9, <2>1, FirstBehindContent, Zenon
  <1> HIDE DEF a, u, s
  <1>12. Found(c, s, t) \/ NotYet(c, s)
    <2>1. Ahead(c, s, t)
      BY <1>4, <1>6, <1>8, <1>10, <1>11 DEF Ahead
    <2> QED
      BY <2>1, FindFirst
  <1>13. Len(buf) \in Nat /\ Len(c) \in Nat /\ u = Len(buf) - 5
    BY <1>4, <1>10, LenProperties DEF u
  <1>14. CASE Found(c, s, t)
    <2>1. /\ a = Len(c) /\ Len(c) + 5 <= Len(buf) /\ Len(c) < Len(buf)
          /\ SubSeq(buf, 1, Len(c)) = c
          /\ SubSeq(buf, Len(c) + Len(s) + 1, Len(buf)) \o rest = t
      BY <1>10, <1>14, Zenon DEF Found, a
    <2>2. ~(u < 0) /\ a < Len(buf) /\ a \in 0 .. Len(buf)
      BY <1>13, <2>1
    <2>3. Content(a) /\ BufErase(a + Len(s)) /\ state' = 4 /\ UNCHANGED pc
      BY <1>2, <2>2
    <2>4. /\ items' \in Seq(ItemsOut) /\ Len(items') = Len(items)
          /\ \A i \in 1 .. Len(items) - 1 : items'[i] = items[i]
          /\ items'[Len(items)].name = items[Len(items)].name
          /\ items'[Len(items)].type = items[Len(items)].type
          /\ items'[Len(items)].content = items[Len(items)].content \o SubSeq(buf, 1, a)
      BY <1>4, <2>2, <2>3, ContentAdded, Zenon
    <2>5. Left' = t
      BY <1>1, <2>1, <2>3, Zenon DEF BufErase, Left
    <2>6. items'[k] = form[k]
      <3>1. items'[k] \in ItemsOut
        <4>1. k \in 1 .. Len(items')
          BY <1>4, <1>5, <2>4
        <4> QED
          BY <2>4, <4>1, ElementOfSeq
      <3>2. items'[k].content = x
        BY <1>6, <2>1, <2>4, Zenon
      <3>3. items'[k].name = form[k].name /\ items'[k].type = form[k].type
        BY <1>5, <2>4, Zenon
      <3> DEFINE y == items'[k]
                 z == form[k]
      <3>4. y = [name |-> y.name, type |-> y.type, content |-> y.content]
        <4>1. y \in ItemsOut
          BY <3>1
        <4> HIDE DEF y
        <4> QED
          BY <4>1 DEF ItemsOut
      <3>5. z = [name |-> z.name, type |-> z.type, content |-> z.content]
        <4>1. z \in Items
          BY <1>8
        <4> HIDE DEF z
        <4> QED
          BY <4>1 DEF Items
      <3>6. y.name = z.name /\ y.type = z.type /\ y.content = z.content
        BY <3>2, <3>3, Zenon
      <3> HIDE DEF y, z
      <3>7. y = z
        BY <3>4, <3>5, <3>6
      <3> QED
        BY <3>7 DEF y, z
    <2>7. \A i \in 1 .. k : items'[i] = form'[i]
      <3>1. \A i \in 1 .. k - 1 : items'[i] = form[i]
        BY <1>5, <2>4 DEF Complete
      <3>2. \A i \in 1 .. k : i = k \/ i \in 1 .. k - 1
        BY <1>4
      <3> QED
        BY <1>1, <2>6, <3>1, <3>2
    <2>8. AtBoundary'
      <3>1. Len(items') = k /\ form' = form
        BY <1>1, <2>4
      <3>2. Complete(Len(items))'
        BY <2>7, <3>1, Zenon DEF Complete
      <3> QED
        BY <1>5, <2>3, <2>5, <3>1, <3>2, Zenon DEF AtBoundary, t
    <2> QED
      BY <1>1, <1>3, <2>3, <2>8 DEF Reading
  <1>15. CASE NotYet(c, s)
    <2>1. a = Len(buf) /\ Len(buf) < Len(c) + 5 /\ rest # <<>>
      BY <1>10, <1>15 DEF NotYet, a
    <2>2. CASE u < 0 /\ pc' = "wait" /\ UNCHANGED <<state, buf, items>>
      BY <1>1, <2>1, <2>2, ReadingWaits
    <2>3. CASE /\ ~(u < 0) /\ Content(u) /\ BufErase(u) /\ pc' = "wait" /\ UNCHANGED state
      <3> DEFINE c1 == SubSeq(c, 1, u)
                 c2 == SubSeq(c, u + 1, Len(c))
                 st == s \o t
      <3>1. u \in 0 .. Len(buf) /\ u \in 0 .. Len(c)
        BY <1>13, <2>1, <2>3
      <3>2. /\ items' \in Seq(ItemsOut) /\ Len(items') = Len(items)
            /\ \A i \in 1 .. Len(items) - 1 : items'[i] = items[i]
            /\ items'[Len(items)].name = items[Len(items)].name
            /\ items'[Len(items)].type = items[Len(items)].type
            /\ items'[Len(items)].content = items[Len(items)].content \o SubSeq(buf, 1, u)
        BY <1>4, <2>3, <3>1, ContentAdded, Zenon
      <3>3. c1 \in Seq(Nat) /\ Len(c1) = u
        <4>1. 1 \in 1 .. Len(c) + 1 /\ u \in 1 - 1 .. Len(c)
          BY <1>13, <3>1
        <4>2. c1 \in Seq(Nat) /\ Len(c1) = u - 1 + 1
          BY <4>1, PieceOf
        <4> QED
          BY <3>1, <4>2
      <3>4. c2 \in Seq(Nat)
        <4>1. u + 1 \in 1 .. Len(c) + 1 /\ Len(c) \in (u + 1) - 1 .. Len(c)
          BY <1>13, <3>1
        <4> QED
          BY <4>1, PieceOf, Zenon
      <3>5. c1 \o c2 = c
        <4>1. 1 \in 1 .. Len(c) + 1 /\ u \in 1 - 1 .. Len(c) /\ Len(c) \in u .. Len(c)
          BY <1>13, <3>1
        <4>2. c1 \o c2 = SubSeq(c, 1, Len(c))
          BY <4>1, ConcatAdjacentSubSeq, Zenon
        <4> QED
          BY <4>2, SubSeqFull, Zenon
      <3> HIDE DEF c1, c2
      <3>6. st \in Seq(Nat)
        BY <1>8, <1>10, ConcatProperties
      <3> HIDE DEF st
      <3>7. ThreeAsOne(Nat, c1, c2, st)
        BY <3>3, <3>4, <3>6, ConcatThree DEF Three
      <3>8. c2 \o st \in Seq(Nat) /\ Left = c1 \o (c2 \o st)
        BY <1>6, <3>5, <3>7, Zenon DEF ThreeAsOne, st
      <3>9. Without(Nat, buf, rest, c1, c2 \o st)
        <4>1. BeginsWith(Nat, buf, rest, c1, c2 \o st)
          BY <1>4, <3>1, <3>3, <3>8 DEF BeginsWith, Left
        <4> QED
          BY <4>1, CutOff
      <3>10. /\ SubSeq(buf, 1, u) = c1
             /\ SubSeq(buf, u + 1, Len(buf)) \o rest = c2 \o st
        BY <3>3, <3>9, Zenon DEF Without
      <3>11. Left' = c2 \o (s \o t)
        BY <1>1, <2>3, <3>10, Zenon DEF BufErase, Left, st
      <3>12. ThreeAsOne(Nat, d, c1, c2)
        BY <1>9, <3>3, <3>4, ConcatThree DEF Three
      <3>13. x = (d \o c1) \o c2
        BY <1>6, <3>5, <3>12, Zenon DEF ThreeAsOne
      <3>14. /\ Len(items') = k /\ form' = form
             /\ items'[k].content = d \o c1
             /\ items'[k].name = form[k].name /\ items'[k].type = form[k].type
        BY <1>1, <1>5, <3>2, <3>10, Zenon
      <3>15. \A i \in 1 .. k - 1 : items'[i] = form'[i]
        BY <1>1, <1>5, <3>2, Zenon DEF Complete
      <3>16. Complete(Len(items) - 1)'
        BY <3>14, <3>15, Zenon DEF Complete
      <3>17. \E c0 \in Seq(Nat) :
               /\ form'[Len(items')].content = items'[Len(items')].content \o c0
               /\ Left' = c0 \o (CrLfDashBoundary \o After(form')[Len(items')])
        BY <3>4, <3>11, <3>13, <3>14, Zenon DEF s, t
      <3>18. state' = 3
        BY <1>1, <2>3
      <3>19. AtContent'
        BY <1>5, <3>14, <3>16, <3>17, <3>18, Zenon DEF AtContent
      <3> QED
        BY <1>1, <1>3, <2>1, <2>3, <3>19 DEF Reading
    <2>4. ~(a < Len(buf))
      BY <1>13, <2>1
    <2> QED
      BY <1>2, <2>2, <2>3, <2>4, Zenon
  <1> QED
    BY <1>12, <1>14, <1>15

\* A form that has been accepted stays accepted.
LEMMA AcceptedStep ==
  ASSUME Typed, Accepted, FormNext
  PROVE  Accepted'
  <1>1. buf \in Seq(Nat) /\ rest \in Seq(Nat)
    BY DEF Typed
  <1>2. Len(buf) \in Nat /\ Len(rest) \in Nat
    BY <1>1, LenProperties
  <1>3. /\ valid /\ items = form
        /\ \/ state = 4 /\ Len(buf) + Len(rest) <= 2
           \/ state = 1 /\ buf = <<>> /\ rest = <<>>
    BY DEF Accepted
  <1>4. ASSUME NEW n, Receive(n) PROVE Accepted'
    <2>1. n \in 1 .. Len(rest) /\ UNCHANGED <<form, state, valid, items>>
      BY <1>4 DEF Receive
    <2>2. rest # <<>>
      BY <1>2, <2>1, EmptySeq
    <2>3. Len(buf') + Len(rest') = Len(buf) + Len(rest)
      <3>1. buf' \in Seq(Nat) /\ rest' \in Seq(Nat) /\ buf' \o rest' = buf \o rest
        BY <1>1, <1>4, ReceiveMoves, Zenon DEF Left
      <3>2. /\ Len(buf' \o rest') = Len(buf') + Len(rest')
            /\ Len(buf \o rest) = Len(buf) + Len(rest)
        BY <1>1, <3>1, ConcatProperties
      <3> QED
        BY <3>1, <3>2, Zenon
    <2> QED
      BY <1>3, <2>1, <2>2, <2>3 DEF Accepted
  <1>5. CASE ParseReturns \/ Ends
    BY <1>3, <1>5, Zenon DEF ParseReturns, Ends, Accepted
  <1>6. CASE OpeningBoundary \/ NewEntry \/ Header \/ Body \/ BodyRefused
    <2>1. buf # <<>> /\ state # 4
      <3>1. CASE Header
        BY <3>1 DEF Header
      <3>2. CASE ~Header
        <4>1. Parsing(0) \/ Parsing(1) \/ Parsing(3)
          BY <1>6, <3>2, Zenon DEF OpeningBoundary, NewEntry, Body, BodyRefused
        <4> QED
          BY <4>1 DEF Parsing
      <3> QED
        BY <3>1, <3>2
    <2> QED
      BY <1>3, <2>1
  <1>7. CASE AfterBoundary
    <2>1. /\ state = 4 /\ UNCHANGED <<form, rest, items>>
          /\ \/ BufStartsWith(CrLf) /\ BufErase(2) /\ state' = 1 /\ UNCHANGED valid
             \/ valid' = TRUE /\ buf' = <<>> /\ UNCHANGED state
             \/ UNCHANGED <<state, buf, valid>>
      BY <1>7 DEF AfterBoundary, Parsing
    <2>2. Len(buf) + Len(rest) <= 2
      BY <1>3, <2>1
    <2>3. CASE BufStartsWith(CrLf) /\ BufErase(2) /\ state' = 1 /\ UNCHANGED valid
      <3>1. 2 <= Len(buf)
        BY <2>3, LineTypes DEF BufStartsWith, IsPrefix
      <3> DEFINE n == Len(buf)
                 r == Len(rest)
      <3>a. n \in Nat /\ r \in Nat /\ n + r <= 2 /\ 2 <= n
        BY <1>2, <2>2, <3>1
      <3> HIDE DEF n, r
      <3>b. n = 2 /\ r = 0
        BY <3>a
      <3>2. Len(buf) = 2 /\ Len(rest) = 0
        BY <3>b DEF n, r
      <3>3. rest = <<>>
        BY <1>1, <3>2, EmptySeq
      <3>4. buf' = <<>>
        BY <2>3, <3>2, SubSeqEmpty DEF BufErase
      <3> QED
        BY <1>3, <2>1, <2>3, <3>3, <3>4 DEF Accepted
    <2>4. CASE valid' = TRUE /\ buf' = <<>> /\ UNCHANGED state
      <3>1. Len(buf') = 0
        BY <2>4, EmptySeq
      <3>2. Len(buf') + Len(rest') <= 2
        BY <1>2, <2>1, <2>2, <3>1
      <3> QED
        BY <1>3, <2>1, <2>4, <3>2 DEF Accepted
    <2>5. CASE UNCHANGED <<state, buf, valid>>
      BY <1>3, <2>1, <2>5 DEF Accepted
    <2> QED
      BY <2>1, <2>3, <2>4, <2>5, Zenon
  <1> QED
    BY <1>4, <1>5, <1>6, <1>7 DEF FormNext

\* Every step of a parser that reads leaves it accepted, rejected or reading.
LEMMA ReadingStep ==
  ASSUME Typed, form # <<>>, Reading, FormNext
  PROVE  (Accepted \/ Rejected \/ Reading)'
  <1>1. ~valid
    BY DEF Reading
  <1>2. CASE Ends
    BY <1>1, <1>2, ReadingFails DEF Ends
  <1>3. CASE BodyRefused
    BY <1>3, ReadingFails DEF BodyRefused, Fail
  <1>4. CASE \E n \in 1 .. Len(rest) : Receive(n)
    BY <1>4, ReadingReceive
  <1> QED
    BY <1>2, <1>3, <1>4, ReadingReturns, ReadingOpening, ReadingNewEntry, ReadingHeader,
       ReadingBody, ReadingAfter DEF FormNext

-----------------------------------------------------------------------------
\* The invariant holds at first.
LEMMA FormInvInit ==
  ASSUME FormInit
  PROVE  FormInv
  <1>1. /\ form \in Forms /\ rest = Serialized(form) /\ opening = "none" /\ state = 0
        /\ buf = <<>> /\ valid = FALSE /\ file = NoFile /\ items = <<>> /\ pc = "wait"
    BY DEF FormInit
  <1> DEFINE db == Dash \o Boundary
             u == After(form)[0]
  <1>2. /\ form \in Seq(Items) /\ Len(form) \in Nat
        /\ After(form) \in [0 .. Len(form) -> Seq(Nat)]
        /\ After(form)[Len(form)] = Dash \o CrLf
    BY <1>1, FormAfter
  <1>3. u \in Seq(Nat)
    <2> DEFINE V == Seq(Nat)
    <2>1. After(form) \in [0 .. Len(form) -> V] /\ 0 \in 0 .. Len(form)
      BY <1>2
    <2> HIDE DEF V
    <2>2. u \in V
      BY <2>1
    <2> QED
      BY <2>2 DEF V
  <1>4. db \in Seq(Nat)
    BY LineTypes, ConcatProperties
  <1>5. rest = db \o u
    BY <1>1, <1>2, SerializedBegins, Zenon
  <1> HIDE DEF db, u
  <1>6. rest \in Seq(Nat)
    BY <1>3, <1>4, <1>5, ConcatProperties
  <1>7. Typed
    BY <1>1, <1>6, EmptySeq DEF Typed, NoFile, NoType
  <1>8. ASSUME form = <<>> PROVE NoEntry
    <2>1. u = Dash \o CrLf
      <3>1. Len(form) = 0
        BY <1>8, EmptySeq
      <3> QED
        BY <1>2, <3>1, Zenon DEF u
    <2>2. Left = rest
      BY <1>1, <1>6, ConcatEmptySeq DEF Left
    <2> DEFINE b == Boundary
               d == Dash
               c == CrLf
    <2>3. /\ d \in Seq(Nat) /\ Len(d) = 2 /\ d[1] = 45 /\ d[2] = 45
          /\ c \in Seq(Nat) /\ Len(c) = 2
          /\ b \in Seq(Nat) /\ Len(b) = 1
      BY LineBytes, LineTypes
    <2> HIDE DEF b, d, c
    <2>4. /\ Len(db) = 3 /\ db[1] = 45 /\ db[2] = 45
      <3>1. /\ Len(d \o b) = Len(d) + Len(b)
            /\ \A i \in 1 .. Len(d) + Len(b) :
                 (d \o b)[i] = IF i <= Len(d) THEN d[i] ELSE b[i - Len(d)]
        BY <2>3, ConcatProperties, ZenonT(30)
      <3>2. db = d \o b
        BY Zenon DEF db, d, b
      <3> QED
        BY <2>3, <3>1, <3>2
    <2>5. Len(u) = 4 /\ u[1] = 45 /\ u[2] = 45 /\ u[3] = c[1] /\ u[4] = c[2]
      <3>1. /\ Len(d \o c) = Len(d) + Len(c)
            /\ \A i \in 1 .. Len(d) + Len(c) :
                 (d \o c)[i] = IF i <= Len(d) THEN d[i] ELSE c[i - Len(d)]
        BY <2>3, ConcatProperties, ZenonT(30)
      <3>2. u = d \o c
        BY <2>1, Zenon DEF d, c
      <3> QED
        BY <2>3, <3>1, <3>2
    <2>6. c[1] = 13 /\ c[2] = 10
      BY LineBytes DEF c
    <2>7. /\ Len(rest) = 7 /\ rest[1] = 45 /\ rest[2] = 45 /\ rest[4] = 45
          /\ rest[5] = 45 /\ rest[6] = 13
      <3>1. /\ Len(db \o u) = Len(db) + Len(u)
            /\ \A i \in 1 .. Len(db) + Len(u) :
                 (db \o u)[i] = IF i <= Len(db) THEN db[i] ELSE u[i - Len(db)]
        BY <1>3, <1>4, ConcatProperties
      <3>2. /\ Len(rest) = 3 + 4
            /\ \A i \in 1 .. 7 : rest[i] = IF i <= 3 THEN db[i] ELSE u[i - 3]
        BY <1>5, <2>4, <2>5, <3>1
      <3> QED
        BY <2>4, <2>5, <2>6, <3>2
    <2>8. \A i \in 1 .. Len(rest) - 1 : rest[i] = 98 => rest[i + 1] # 13
      <3>1. \A i \in 1 .. 6 : i = 1 \/ i = 2 \/ i = 3 \/ i = 4 \/ i = 5 \/ i = 6
        OBVIOUS
      <3> QED
        BY <2>7, <3>1
    <2> QED
      BY <1>1, <2>2, <2>8 DEF NoEntry
  <1>9. Unread
    BY <1>1 DEF Unread
  <1> QED
    BY <1>1, <1>7, <1>8, <1>9 DEF FormInv

\* Every step keeps the invariant.
LEMMA FormInvStep ==
  ASSUME FormInv, FormNext
  PROVE  FormInv'
  <1>1. /\ Typed
        /\ form = <<>> => NoEntry
        /\ form # <<>> /\ opening = "none" => Unread
        /\ form # <<>> /\ opening = "whole" => Accepted \/ Rejected \/ Reading
    BY DEF FormInv
  <1>2. Typed'
    BY <1>1, TypedStep
  <1>3. /\ form' = form
        /\ opening # "none" => opening' = opening
    BY DEF FormNext, Receive, ParseReturns, OpeningBoundary, NewEntry, Header, Body, BodyRefused,
           AfterBoundary, Ends
  <1>4. form' = <<>> => NoEntry'
    BY <1>1, <1>3, NoEntryStep
  <1>5. CASE opening = "none" /\ form # <<>>
    <2>1. (opening' = "none" => Unread') /\ (opening' = "whole" => Reading')
      BY <1>1, <1>5, UnreadStep
    <2> QED
      BY <1>2, <1>4, <2>1 DEF FormInv
  <1>6. CASE opening = "whole" /\ form # <<>>
    <2>1. ~Rejected
      BY DEF Rejected, FormNext, Receive, ParseReturns, OpeningBoundary, NewEntry, Header, Body,
             BodyRefused, AfterBoundary, Ends, Parsing
    <2>2. (Accepted \/ Rejected \/ Reading)'
      BY <1>1, <1>6, <2>1, AcceptedStep, ReadingStep
    <2>3. opening' # "none"
      BY <1>3, <1>6
    <2> QED
      BY <1>2, <1>4, <2>2, <2>3 DEF FormInv
  <1>7. CASE opening \notin {"none", "whole"} \/ form = <<>>
    BY <1>2, <1>3, <1>4, <1>7 DEF FormInv
  <1> QED
    BY <1>5, <1>6, <1>7

\* The invariant is about the variables of the form alone.
LEMMA FormInvSame ==
  ASSUME FormInv, UNCHANGED formVars
  PROVE  FormInv'
  BY Zenon DEF formVars, FormInv, Typed, NoEntry, Unread, Accepted, Rejected, Reading, ItemsBegin,
         AtOpening, AtEntry, AtHeader, AtContent, AtBoundary, Complete, Left

\* What it says of what was handed out.
LEMMA FormInvArrives ==
  ASSUME FormInv
  PROVE  FormArrives
  <1> SUFFICES ASSUME opening = "whole"
               PROVE  /\ ItemsBegin
                      /\ valid => items = form
                      /\ form # <<>> /\ pc = "wait" /\ rest = <<>> => valid
    BY DEF FormArrives, ItemsBegin
  <1>1. Typed
    BY DEF FormInv
  <1>2. /\ Len(form) \in Nat /\ Len(items) \in Nat /\ DOMAIN items = 1 .. Len(items)
        /\ \A i \in 1 .. Len(items) : items[i] \in ItemsOut
    BY <1>1, FormAfter, LenProperties, ElementOfSeq DEF Typed
  <1>3. CASE form = <<>>
    <2>1. items = <<>> /\ ~valid
      BY <1>3 DEF FormInv, NoEntry
    <2>2. Len(items) = 0
      BY <2>1, EmptySeq
    <2> QED
      BY <1>2, <1>3, <2>1, <2>2 DEF ItemsBegin
  <1>4. CASE form # <<>>
    <2>1. Accepted \/ Rejected \/ Reading
      BY <1>4 DEF FormInv
    <2>2. CASE Accepted
      <3>1. \A i \in 1 .. Len(items) : Len(items[i].content) \in Nat
        BY <1>2, LenProperties DEF ItemsOut
      <3>2. items = form /\ valid
        BY <2>2 DEF Accepted
      <3> QED
        BY <1>2, <3>1, <3>2 DEF ItemsBegin, IsPrefix
    <2>3. CASE Rejected
      BY <2>3 DEF Rejected
    <2>4. CASE Reading
      BY <1>1, <1>4, <2>4, ReadingBegins DEF Reading
    <2> QED
      BY <2>1, <2>2, <2>3, <2>4
  <1> QED
    BY <1>3, <1>4

\* Whatever the sizes of the pieces in which the parser of HttpMultipart gets
\* a form, what it has handed out is the beginning of what was sent, a body
\* that it accepts has brought all of it, and it accepts a form that came whole
\* and that was not refused by a callback or for a line longer than HeaderMax,
\* unless the opening boundary came in parts.
THEOREM FormsArrive == Spec => []FormArrives
  <1>1. Init => FormInv
    BY FormInvInit DEF Init
  <1>2. FormInv /\ [Next]_allVars => FormInv'
    <2> SUFFICES ASSUME FormInv, [Next]_allVars PROVE FormInv'
      OBVIOUS
    <2>1. FormNext \/ UNCHANGED formVars
      BY DEF Next, SendForm, Spell, allVars
    <2> QED
      BY <2>1, FormInvStep, FormInvSame
  <1>3. FormInv => FormArrives
    BY FormInvArrives
  <1> QED
    BY <1>1, <1>2, <1>3, PTL DEF Spec

-----------------------------------------------------------------------------
(***************************************************************************)
(* Paths, component by component.                                          *)
(***************************************************************************)
\* Places in a file system, as sequences of names.
Places == Seq(Texts)

LevelStep(n, p) == IF n = -1 \/ p = Here THEN n ELSE IF p = Up THEN n - 1 ELSE n + 1
Level(cs) == FoldLeft(LevelStep, 0, cs)

ResolveStep(at, p) ==
  IF at = Above \/ p = Here THEN at
  ELSE IF p # Up THEN Append(at, p)
  ELSE IF at = <<>> THEN Above ELSE Front(at)
ResolvedTo(cs) == FoldLeft(ResolveStep, <<>>, cs)

WalkStep(at, p) ==
  IF at \notin Directories THEN Missing
  ELSE IF p = Here THEN at
  ELSE IF p = Up THEN IF at = <<>> THEN at ELSE Front(at)
  ELSE IF Append(at, p) \in Directories \cup Files THEN Append(at, p) ELSE Missing
WalkedTo(cs) == FoldLeft(WalkStep, <<>>, cs)

Entries == {e \in [at : Texts, dir : Texts] : Walk(e.dir) \in Directories}
MountStep(dirs, m) == set_mount_point(dirs, m.at, m.dir)
MountedBy(ms) == FoldLeft(MountStep, <<>>, ms)

\* The model's definitions are these folds.
LEMMA PathFolds ==
  /\ \A path : is_valid_path(path) <=>
       /\ ~\E i \in DOMAIN path : path[i] \in {0, Backslash}
       /\ Level(Components(path)) >= 0
  /\ \A path : Resolved(path) = ResolvedTo(Components(path))
  /\ \A path : Walk(path) = WalkedTo(Components(path))
  /\ base_dirs_ = MountedBy(Mounted)
  <1>1. ASSUME NEW path
        PROVE  is_valid_path(path) <=>
                 /\ ~\E i \in DOMAIN path : path[i] \in {0, Backslash}
                 /\ Level(Components(path)) >= 0
    BY Zenon DEF is_valid_path, Level, LevelStep, FoldLeft, MapThenFoldSet
  <1>2. ASSUME NEW path PROVE Resolved(path) = ResolvedTo(Components(path))
    BY Zenon DEF Resolved, ResolvedTo, ResolveStep, FoldLeft, MapThenFoldSet
  <1>3. ASSUME NEW path PROVE Walk(path) = WalkedTo(Components(path))
    BY Zenon DEF Walk, WalkedTo, WalkStep, FoldLeft, MapThenFoldSet
  <1>4. base_dirs_ = MountedBy(Mounted)
    BY Zenon DEF base_dirs_, MountedBy, MountStep, FoldLeft, MapThenFoldSet
  <1> QED
    BY <1>1, <1>2, <1>3, <1>4

\* Names and places are sequences.
LEMMA PlaceTypes ==
  /\ Here \in PathNames /\ Up \in PathNames /\ Here # Up
  /\ Missing \in Places /\ Above \in Places /\ <<>> \in Places
  /\ \A at \in Places, p \in Texts : Append(at, p) \in Places
  /\ \A at \in Places : at # <<>> => Front(at) \in Places
  <1> DEFINE V == Texts
  <1>1. /\ Here \in PathNames /\ Up \in PathNames /\ Here # Up
        /\ <<>> \in V
    BY DEF Here, Up, PathNames, Texts, Dot
  <1> HIDE DEF V
  <1>2. /\ <<<<>>>> \in Seq(V) /\ <<>> \in Seq(V)
        /\ \A at \in Seq(V), p \in V : Append(at, p) \in Seq(V)
    BY <1>1
  <1>3. ASSUME NEW at \in Seq(V), at # <<>>
        PROVE  Front(at) \in Seq(V)
    <2>1. Len(at) \in Nat /\ \A i \in 1 .. Len(at) : at[i] \in V
      BY LenProperties, ElementOfSeq
    <2>2. \A i \in 1 .. Len(at) - 1 : at[i] \in V
      BY <2>1
    <2>3. 1 \in Int /\ Len(at) - 1 \in Int
      BY <2>1
    <2> QED
      BY <2>2, <2>3, SubSeqProperties DEF Front
  <1> QED
    BY <1>1, <1>2, <1>3, Zenon DEF V, Places, Missing, Above

\* The level below the base directory.
LEMMA LevelIs ==
  /\ Level(<<>>) = 0
  /\ \A s \in Seq(PathNames) : Level(s) \in Int
  /\ \A s \in Seq(PathNames), e \in PathNames :
       Level(Append(s, e)) = LevelStep(Level(s), e)
  <1> DEFINE V == Int
             N == PathNames
             none == 0
             step == [e \in N |-> [v \in V |-> LevelStep(v, e)]]
  <1>1. none \in V /\ \A v \in V, e \in N : LevelStep(v, e) \in V
    BY DEF LevelStep
  <1> HIDE DEF V, N, none
  <1>2. step \in [N -> [V -> V]]
    BY <1>1
  <1>3. \A e \in N, v \in V : step[e][v] = LevelStep(v, e)
    OBVIOUS
  <1> HIDE DEF step
  <1>4. ASSUME NEW s \in Seq(N)
        PROVE  Level(s) = Folded(s, V, none, step)
    <2> DEFINE Fold(g) == g = [u \in SUBSET DOMAIN s |->
                                IF u = {} THEN none
                                ELSE LevelStep(g[u \ {Max(u)}], s[Max(u)])]
               it == CHOOSE g : Fold(g)
    <2>1. Level(s) = it[DOMAIN s]
      BY Zenon DEF Level, FoldLeft, MapThenFoldSet, none
    <2>2. PICK g \in [SUBSET DOMAIN s -> V] : IsSetFold(g, s, none, step)
      BY <1>1, <1>2, SetFoldExists, Zenon
    <2>3. ASSUME NEW u \in SUBSET DOMAIN s, u # {}
          PROVE  s[Max(u)] \in N
      <3>1. Len(s) \in Nat /\ DOMAIN s = 1 .. Len(s)
        BY LenProperties
      <3>2. Max(u) \in 1 .. Len(s)
        BY <2>3, <3>1, MaxOfSubset, Zenon
      <3> QED
        BY <3>2, ElementOfSeq
    <2>4. ASSUME NEW u \in SUBSET DOMAIN s
          PROVE  g[u] = IF u = {} THEN none ELSE LevelStep(g[u \ {Max(u)}], s[Max(u)])
      <3>1. u # {} => g[u] = step[s[Max(u)]][g[u \ {Max(u)}]]
        BY <2>2 DEF IsSetFold
      <3>2. g[{}] = none /\ g[u \ {Max(u)}] \in V
        BY <2>2 DEF IsSetFold
      <3> QED
        BY <1>3, <2>3, <3>1, <3>2, Zenon
    <2>5. Fold(g)
      <3>1. g = [u \in SUBSET DOMAIN s |-> g[u]]
        OBVIOUS
      <3> QED
        BY <2>4, <3>1, Zenon
    <2>6. Fold(it)
      <3> HIDE DEF Fold
      <3> QED
        BY <2>5, Zenon
    <2>7. \A u \in SUBSET DOMAIN s :
            it[u] = IF u = {} THEN none ELSE LevelStep(it[u \ {Max(u)}], s[Max(u)])
      <3> HIDE DEF it
      <3> QED
        BY <2>6, Zenon
    <2> HIDE DEF it
    <2>8. FitsFold(it, s, V, none, step)
      BY <1>3, <2>3, <2>7, Zenon DEF FitsFold
    <2>9. it[DOMAIN s] = Folded(s, V, none, step)
      BY <1>1, <1>2, <2>8, SetFoldIs
    <2> QED
      BY <2>1, <2>9, Zenon
  <1>5. /\ Folded(<<>>, V, none, step) = none
        /\ \A s \in Seq(N) : Folded(s, V, none, step) \in V
        /\ \A s \in Seq(N), e \in N :
             Folded(Append(s, e), V, none, step) = step[e][Folded(s, V, none, step)]
    BY <1>1, <1>2, FoldedIs
  <1>6. <<>> \in Seq(N) /\ \A s \in Seq(N), e \in N : Append(s, e) \in Seq(N)
    BY EmptySeq, AppendProperties
  <1>7. Level(<<>>) = none
    BY <1>4, <1>5, <1>6, Zenon
  <1>8. \A s \in Seq(N) : Level(s) \in V
    BY <1>4, <1>5, Zenon
  <1>9. ASSUME NEW s \in Seq(N), NEW e \in N
        PROVE  Level(Append(s, e)) = LevelStep(Level(s), e)
    <2>1. Level(Append(s, e)) = step[e][Level(s)]
      BY <1>4, <1>5, <1>6, Zenon
    <2> QED
      BY <1>3, <1>8, <2>1
  <1> QED
    BY <1>7, <1>8, <1>9, Zenon DEF V, N, none

\* Where names lead.
LEMMA ResolvedToIs ==
  /\ ResolvedTo(<<>>) = <<>>
  /\ \A s \in Seq(PathNames) : ResolvedTo(s) \in Places
  /\ \A s \in Seq(PathNames), e \in PathNames :
       ResolvedTo(Append(s, e)) = ResolveStep(ResolvedTo(s), e)
  <1> DEFINE V == Places
             N == PathNames
             none == <<>>
             step == [e \in N |-> [v \in V |-> ResolveStep(v, e)]]
  <1>1. none \in V /\ \A v \in V, e \in N : ResolveStep(v, e) \in V
    BY PlaceTypes DEF ResolveStep, PathNames
  <1> HIDE DEF V, N, none
  <1>2. step \in [N -> [V -> V]]
    BY <1>1
  <1>3. \A e \in N, v \in V : step[e][v] = ResolveStep(v, e)
    OBVIOUS
  <1> HIDE DEF step
  <1>4. ASSUME NEW s \in Seq(N)
        PROVE  ResolvedTo(s) = Folded(s, V, none, step)
    <2> DEFINE Fold(g) == g = [u \in SUBSET DOMAIN s |->
                                IF u = {} THEN none
                                ELSE ResolveStep(g[u \ {Max(u)}], s[Max(u)])]
               it == CHOOSE g : Fold(g)
    <2>1. ResolvedTo(s) = it[DOMAIN s]
      BY Zenon DEF ResolvedTo, FoldLeft, MapThenFoldSet, none
    <2>2. PICK g \in [SUBSET DOMAIN s -> V] : IsSetFold(g, s, none, step)
      BY <1>1, <1>2, SetFoldExists, Zenon
    <2>3. ASSUME NEW u \in SUBSET DOMAIN s, u # {}
          PROVE  s[Max(u)] \in N
      <3>1. Len(s) \in Nat /\ DOMAIN s = 1 .. Len(s)
        BY LenProperties
      <3>2. Max(u) \in 1 .. Len(s)
        BY <2>3, <3>1, MaxOfSubset, Zenon
      <3> QED
        BY <3>2, ElementOfSeq
    <2>4. ASSUME NEW u \in SUBSET DOMAIN s
          PROVE  g[u] = IF u = {} THEN none ELSE ResolveStep(g[u \ {Max(u)}], s[Max(u)])
      <3>1. u # {} => g[u] = step[s[Max(u)]][g[u \ {Max(u)}]]
        BY <2>2 DEF IsSetFold
      <3>2. g[{}] = none /\ g[u \ {Max(u)}] \in V
        BY <2>2 DEF IsSetFold
      <3> QED
        BY <1>3, <2>3, <3>1, <3>2, Zenon
    <2>5. Fold(g)
      <3>1. g = [u \in SUBSET DOMAIN s |-> g[u]]
        OBVIOUS
      <3> QED
        BY <2>4, <3>1, Zenon
    <2>6. Fold(it)
      <3> HIDE DEF Fold
      <3> QED
        BY <2>5, Zenon
    <2>7. \A u \in SUBSET DOMAIN s :
            it[u] = IF u = {} THEN none ELSE ResolveStep(it[u \ {Max(u)}], s[Max(u)])
      <3> HIDE DEF it
      <3> QED
        BY <2>6, Zenon
    <2> HIDE DEF it
    <2>8. FitsFold(it, s, V, none, step)
      BY <1>3, <2>3, <2>7, Zenon DEF FitsFold
    <2>9. it[DOMAIN s] = Folded(s, V, none, step)
      BY <1>1, <1>2, <2>8, SetFoldIs
    <2> QED
      BY <2>1, <2>9, Zenon
  <1>5. /\ Folded(<<>>, V, none, step) = none
        /\ \A s \in Seq(N) : Folded(s, V, none, step) \in V
        /\ \A s \in Seq(N), e \in N :
             Folded(Append(s, e), V, none, step) = step[e][Folded(s, V, none, step)]
    BY <1>1, <1>2, FoldedIs
  <1>6. <<>> \in Seq(N) /\ \A s \in Seq(N), e \in N : Append(s, e) \in Seq(N)
    BY EmptySeq, AppendProperties
  <1>7. ResolvedTo(<<>>) = none
    BY <1>4, <1>5, <1>6, Zenon
  <1>8. \A s \in Seq(N) : ResolvedTo(s) \in V
    BY <1>4, <1>5, Zenon
  <1>9. ASSUME NEW s \in Seq(N), NEW e \in N
        PROVE  ResolvedTo(Append(s, e)) = ResolveStep(ResolvedTo(s), e)
    <2>1. ResolvedTo(Append(s, e)) = step[e][ResolvedTo(s)]
      BY <1>4, <1>5, <1>6, Zenon
    <2> QED
      BY <1>3, <1>8, <2>1
  <1> QED
    BY <1>7, <1>8, <1>9, Zenon DEF V, N, none

\* Where names lead in the file system.
LEMMA WalkedToIs ==
  /\ WalkedTo(<<>>) = <<>>
  /\ \A s \in Seq(PathNames) : WalkedTo(s) \in Places
  /\ \A s \in Seq(PathNames), e \in PathNames :
       WalkedTo(Append(s, e)) = WalkStep(WalkedTo(s), e)
  <1> DEFINE V == Places
             N == PathNames
             none == <<>>
             step == [e \in N |-> [v \in V |-> WalkStep(v, e)]]
  <1>1. none \in V /\ \A v \in V, e \in N : WalkStep(v, e) \in V
    BY PlaceTypes DEF WalkStep, PathNames
  <1> HIDE DEF V, N, none
  <1>2. step \in [N -> [V -> V]]
    BY <1>1
  <1>3. \A e \in N, v \in V : step[e][v] = WalkStep(v, e)
    OBVIOUS
  <1> HIDE DEF step
  <1>4. ASSUME NEW s \in Seq(N)
        PROVE  WalkedTo(s) = Folded(s, V, none, step)
    <2> DEFINE Fold(g) == g = [u \in SUBSET DOMAIN s |->
                                IF u = {} THEN none
                                ELSE WalkStep(g[u \ {Max(u)}], s[Max(u)])]
               it == CHOOSE g : Fold(g)
    <2>1. WalkedTo(s) = it[DOMAIN s]
      BY Zenon DEF WalkedTo, FoldLeft, MapThenFoldSet, none
    <2>2. PICK g \in [SUBSET DOMAIN s -> V] : IsSetFold(g, s, none, step)
      BY <1>1, <1>2, SetFoldExists, Zenon
    <2>3. ASSUME NEW u \in SUBSET DOMAIN s, u # {}
          PROVE  s[Max(u)] \in N
      <3>1. Len(s) \in Nat /\ DOMAIN s = 1 .. Len(s)
        BY LenProperties
      <3>2. Max(u) \in 1 .. Len(s)
        BY <2>3, <3>1, MaxOfSubset, Zenon
      <3> QED
        BY <3>2, ElementOfSeq
    <2>4. ASSUME NEW u \in SUBSET DOMAIN s
          PROVE  g[u] = IF u = {} THEN none ELSE WalkStep(g[u \ {Max(u)}], s[Max(u)])
      <3>1. u # {} => g[u] = step[s[Max(u)]][g[u \ {Max(u)}]]
        BY <2>2 DEF IsSetFold
      <3>2. g[{}] = none /\ g[u \ {Max(u)}] \in V
        BY <2>2 DEF IsSetFold
      <3> QED
        BY <1>3, <2>3, <3>1, <3>2, Zenon
    <2>5. Fold(g)
      <3>1. g = [u \in SUBSET DOMAIN s |-> g[u]]
        OBVIOUS
      <3> QED
        BY <2>4, <3>1, Zenon
    <2>6. Fold(it)
      <3> HIDE DEF Fold
      <3> QED
        BY <2>5, Zenon
    <2>7. \A u \in SUBSET DOMAIN s :
            it[u] = IF u = {} THEN none ELSE WalkStep(it[u \ {Max(u)}], s[Max(u)])
      <3> HIDE DEF it
      <3> QED
        BY <2>6, Zenon
    <2> HIDE DEF it
    <2>8. FitsFold(it, s, V, none, step)
      BY <1>3, <2>3, <2>7, Zenon DEF FitsFold
    <2>9. it[DOMAIN s] = Folded(s, V, none, step)
      BY <1>1, <1>2, <2>8, SetFoldIs
    <2> QED
      BY <2>1, <2>9, Zenon
  <1>5. /\ Folded(<<>>, V, none, step) = none
        /\ \A s \in Seq(N) : Folded(s, V, none, step) \in V
        /\ \A s \in Seq(N), e \in N :
             Folded(Append(s, e), V, none, step) = step[e][Folded(s, V, none, step)]
    BY <1>1, <1>2, FoldedIs
  <1>6. <<>> \in Seq(N) /\ \A s \in Seq(N), e \in N : Append(s, e) \in Seq(N)
    BY EmptySeq, AppendProperties
  <1>7. WalkedTo(<<>>) = none
    BY <1>4, <1>5, <1>6, Zenon
  <1>8. \A s \in Seq(N) : WalkedTo(s) \in V
    BY <1>4, <1>5, Zenon
  <1>9. ASSUME NEW s \in Seq(N), NEW e \in N
        PROVE  WalkedTo(Append(s, e)) = WalkStep(WalkedTo(s), e)
    <2>1. WalkedTo(Append(s, e)) = step[e][WalkedTo(s)]
      BY <1>4, <1>5, <1>6, Zenon
    <2> QED
      BY <1>3, <1>8, <2>1
  <1> QED
    BY <1>7, <1>8, <1>9, Zenon DEF V, N, none

-----------------------------------------------------------------------------
\* What is mounted at a path is a directory.
LEMMA MountStepIs ==
  ASSUME NEW dirs \in Seq(Entries), NEW m \in [at : Seq(Bytes), dir : Seq(Bytes)]
  PROVE  MountStep(dirs, m) \in Seq(Entries)
  <1> DEFINE mnt == IF m.at = <<>> THEN <<Slash>> ELSE m.at
             e == [at |-> mnt, dir |-> m.dir]
             E == Entries
  <1>1. \A s \in Seq(Bytes) : s \in Texts
    <2> DEFINE B == Bytes
    <2>1. B \subseteq Nat
      BY DEF Bytes
    <2> HIDE DEF B
    <2>2. \A s \in Seq(B) : s \in Seq(Nat)
      BY <2>1, SeqOfNumbers, Zenon
    <2> QED
      BY <2>2 DEF B, Texts
  <1>2. <<Slash>> \in Texts
    BY DEF Slash, Texts
  <1>3. mnt \in Texts /\ m.dir \in Texts
    BY <1>1, <1>2
  <1> HIDE DEF mnt
  <1>4. /\ MountStep(dirs, m) = IF Walk(m.dir) \in Directories /\ mnt[1] = Slash
                                THEN Append(dirs, e) ELSE dirs
    BY Zenon DEF MountStep, set_mount_point, mnt
  <1>5. Walk(m.dir) \in Directories => e \in E
    BY <1>3 DEF Entries
  <1> HIDE DEF e
  <1>6. dirs \in Seq(E)
    OBVIOUS
  <1> HIDE DEF E
  <1>7. MountStep(dirs, m) \in Seq(E)
    BY <1>4, <1>5, <1>6, AppendProperties
  <1> QED
    BY <1>7 DEF E

\* The mount points.
LEMMA MountedByIs ==
  /\ MountedBy(<<>>) = <<>>
  /\ \A s \in Seq([at : Seq(Bytes), dir : Seq(Bytes)]) : MountedBy(s) \in Seq(Entries)
  /\ \A s \in Seq([at : Seq(Bytes), dir : Seq(Bytes)]), e \in [at : Seq(Bytes), dir : Seq(Bytes)] :
       MountedBy(Append(s, e)) = MountStep(MountedBy(s), e)
  <1> DEFINE V == Seq(Entries)
             N == [at : Seq(Bytes), dir : Seq(Bytes)]
             none == <<>>
             step == [e \in N |-> [v \in V |-> MountStep(v, e)]]
  <1>1. none \in V /\ \A v \in V, e \in N : MountStep(v, e) \in V
    BY MountStepIs, EmptySeq
  <1> HIDE DEF V, N, none
  <1>2. step \in [N -> [V -> V]]
    BY <1>1
  <1>3. \A e \in N, v \in V : step[e][v] = MountStep(v, e)
    OBVIOUS
  <1> HIDE DEF step
  <1>4. ASSUME NEW s \in Seq(N)
        PROVE  MountedBy(s) = Folded(s, V, none, step)
    <2> DEFINE Fold(g) == g = [u \in SUBSET DOMAIN s |->
                                IF u = {} THEN none
                                ELSE MountStep(g[u \ {Max(u)}], s[Max(u)])]
               it == CHOOSE g : Fold(g)
    <2>1. MountedBy(s) = it[DOMAIN s]
      BY Zenon DEF MountedBy, FoldLeft, MapThenFoldSet, none
    <2>2. PICK g \in [SUBSET DOMAIN s -> V] : IsSetFold(g, s, none, step)
      BY <1>1, <1>2, SetFoldExists, Zenon
    <2>3. ASSUME NEW u \in SUBSET DOMAIN s, u # {}
          PROVE  s[Max(u)] \in N
      <3>1. Len(s) \in Nat /\ DOMAIN s = 1 .. Len(s)
        BY LenProperties
      <3>2. Max(u) \in 1 .. Len(s)
        BY <2>3, <3>1, MaxOfSubset, Zenon
      <3> QED
        BY <3>2, ElementOfSeq
    <2>4. ASSUME NEW u \in SUBSET DOMAIN s
          PROVE  g[u] = IF u = {} THEN none ELSE MountStep(g[u \ {Max(u)}], s[Max(u)])
      <3>1. u # {} => g[u] = step[s[Max(u)]][g[u \ {Max(u)}]]
        BY <2>2 DEF IsSetFold
      <3>2. g[{}] = none /\ g[u \ {Max(u)}] \in V
        BY <2>2 DEF IsSetFold
      <3> QED
        BY <1>3, <2>3, <3>1, <3>2, Zenon
    <2>5. Fold(g)
      <3>1. g = [u \in SUBSET DOMAIN s |-> g[u]]
        OBVIOUS
      <3> QED
        BY <2>4, <3>1, Zenon
    <2>6. Fold(it)
      <3> HIDE DEF Fold
      <3> QED
        BY <2>5, Zenon
    <2>7. \A u \in SUBSET DOMAIN s :
            it[u] = IF u = {} THEN none ELSE MountStep(it[u \ {Max(u)}], s[Max(u)])
      <3> HIDE DEF it
      <3> QED
        BY <2>6, Zenon
    <2> HIDE DEF it
    <2>8. FitsFold(it, s, V, none, step)
      BY <1>3, <2>3, <2>7, Zenon DEF FitsFold
    <2>9. it[DOMAIN s] = Folded(s, V, none, step)
      BY <1>1, <1>2, <2>8, SetFoldIs
    <2> QED
      BY <2>1, <2>9, Zenon
  <1>5. /\ Folded(<<>>, V, none, step) = none
        /\ \A s \in Seq(N) : Folded(s, V, none, step) \in V
        /\ \A s \in Seq(N), e \in N :
             Folded(Append(s, e), V, none, step) = step[e][Folded(s, V, none, step)]
    BY <1>1, <1>2, FoldedIs
  <1>6. <<>> \in Seq(N) /\ \A s \in Seq(N), e \in N : Append(s, e) \in Seq(N)
    BY EmptySeq, AppendProperties
  <1>7. MountedBy(<<>>) = none
    BY <1>4, <1>5, <1>6, Zenon
  <1>8. \A s \in Seq(N) : MountedBy(s) \in V
    BY <1>4, <1>5, Zenon
  <1>9. ASSUME NEW s \in Seq(N), NEW e \in N
        PROVE  MountedBy(Append(s, e)) = MountStep(MountedBy(s), e)
    <2>1. MountedBy(Append(s, e)) = step[e][MountedBy(s)]
      BY <1>4, <1>5, <1>6, Zenon
    <2> QED
      BY <1>3, <1>8, <2>1
  <1> QED
    BY <1>7, <1>8, <1>9, Zenon DEF V, N, none

\* What is mounted at a path is a directory.
LEMMA BaseDirs ==
  base_dirs_ \in Seq(Entries)
  <1> DEFINE M == [at : Seq(Bytes), dir : Seq(Bytes)]
  <1>1. Mounted \in Seq(M) /\ base_dirs_ = MountedBy(Mounted)
    BY PathFolds, MountedAssumption
  <1>2. \A s \in Seq(M) : MountedBy(s) \in Seq(Entries)
    BY MountedByIs, Zenon
  <1> QED
    BY <1>1, <1>2, Zenon

-----------------------------------------------------------------------------
\* The level is -1 exactly if the way has left the base directory.
LEMMA LevelResolved ==
  ASSUME NEW cs \in Seq(PathNames)
  PROVE  \/ Level(cs) = -1 /\ ResolvedTo(cs) = Above
         \/ /\ Level(cs) \in Nat /\ ResolvedTo(cs) \in Seq(PathNames)
            /\ Len(ResolvedTo(cs)) = Level(cs)
  <1> DEFINE N == PathNames
             Agree(n, at) == \/ n = -1 /\ at = Above
                             \/ n \in Nat /\ at \in Seq(N) /\ Len(at) = n
             T == {s \in Seq(N) : Agree(Level(s), ResolvedTo(s))}
  <1>1. /\ Level(<<>>) = 0 /\ ResolvedTo(<<>>) = <<>>
        /\ \A s \in Seq(N), p \in N :
             /\ Level(Append(s, p)) = LevelStep(Level(s), p)
             /\ ResolvedTo(Append(s, p)) = ResolveStep(ResolvedTo(s), p)
    BY LevelIs, ResolvedToIs, Zenon
  <1>2. Here # Up
    BY PlaceTypes
  <1>3. Above \notin Seq(N)
    <2> SUFFICES ASSUME Above \in Seq(N) PROVE FALSE
      OBVIOUS
    <2>1. Len(Above) = 1 /\ Above[1] = <<>>
      BY DEF Above
    <2>2. <<>> \notin N
      BY DEF PathNames
    <2> HIDE DEF N
    <2>3. Above[1] \in N
      <3>1. 1 \in 1 .. Len(Above)
        BY <2>1
      <3> QED
        BY <3>1, ElementOfSeq
    <2> QED
      BY <2>1, <2>2, <2>3, Zenon
  <1> HIDE DEF N
  <1>4. <<>> \in T
    <2>1. <<>> \in Seq(N) /\ Len(<<>>) = 0
      BY EmptySeq
    <2>2. Agree(0, <<>>)
      BY <2>1
    <2> HIDE DEF Agree
    <2> QED
      BY <1>1, <2>1, <2>2, Zenon
  <1>5. ASSUME NEW s \in Seq(N), NEW p \in N, s \in T
        PROVE  Append(s, p) \in T
    <2> DEFINE n == Level(s)
               at == ResolvedTo(s)
    <2>1. Agree(n, at) /\ Append(s, p) \in Seq(N)
      BY <1>5, AppendProperties
    <2>2. /\ Level(Append(s, p)) = LevelStep(n, p)
          /\ ResolvedTo(Append(s, p)) = ResolveStep(at, p)
      BY <1>1
    <2> HIDE DEF n, at
    <2>3. Agree(LevelStep(n, p), ResolveStep(at, p))
      <3>1. CASE n = -1 /\ at = Above
        BY <3>1 DEF LevelStep, ResolveStep
      <3>2. CASE p = Here
        BY <2>1, <3>2 DEF LevelStep, ResolveStep
      <3>3. CASE n \in Nat /\ at \in Seq(N) /\ Len(at) = n /\ p # Here
        <4>1. n # -1 /\ at # Above
          BY <1>3, <3>3
        <4>2. CASE p # Up
          <5>1. LevelStep(n, p) = n + 1 /\ ResolveStep(at, p) = Append(at, p)
            BY <3>3, <4>1, <4>2 DEF LevelStep, ResolveStep
          <5>2. Append(at, p) \in Seq(N) /\ Len(Append(at, p)) = n + 1
            BY <3>3, AppendProperties
          <5> QED
            BY <3>3, <5>1, <5>2
        <4>3. CASE p = Up /\ at = <<>>
          <5>1. n = 0
            BY <3>3, <4>3
          <5> QED
            BY <3>3, <4>1, <4>3, <5>1 DEF LevelStep, ResolveStep
        <4>4. CASE p = Up /\ at # <<>>
          <5>1. LevelStep(n, p) = n - 1 /\ ResolveStep(at, p) = Front(at)
            BY <3>3, <4>1, <4>4 DEF LevelStep, ResolveStep
          <5>2. n > 0
            BY <3>3, <4>4, EmptySeq
          <5>3. Front(at) \in Seq(N) /\ Len(Front(at)) = n - 1
            <6>1. \A i \in 1 .. n - 1 : at[i] \in N
              BY <3>3, ElementOfSeq
            <6>2. 1 \in Int /\ n - 1 \in Int /\ Front(at) = SubSeq(at, 1, n - 1)
              BY <3>3 DEF Front
            <6>3. /\ SubSeq(at, 1, n - 1) \in Seq(N)
                  /\ Len(SubSeq(at, 1, n - 1)) = IF 1 <= n - 1 THEN n - 1 - 1 + 1 ELSE 0
              BY <6>1, <6>2, SubSeqProperties
            <6> QED
              BY <3>3, <5>2, <6>2, <6>3
          <5> QED
            BY <3>3, <5>1, <5>2, <5>3
        <4> QED
          BY <4>2, <4>3, <4>4
      <3> QED
        BY <2>1, <3>1, <3>2, <3>3
    <2> HIDE DEF Agree
    <2> QED
      BY <2>1, <2>2, <2>3
  <1>6. Seq(N) \subseteq T
    <2> HIDE DEF T
    <2> QED
      BY <1>4, <1>5, SeqSetInduction
  <1> QED
    BY <1>6 DEF N

\* The directories and files are sequences of names.
LEMMA TreeTypes ==
  /\ <<>> \in Directories /\ Directories \cap Files = {}
  /\ \A at \in Directories : at # <<>> => Front(at) \in Directories
  /\ \A at \in Directories \cup Files : at \in Seq(PathNames)
  /\ Missing \notin Directories \cup Files
  <1>1. /\ <<>> \in Directories /\ Directories \cap Files = {}
        /\ \A at \in Directories : at # <<>> => Front(at) \in Directories
        /\ \A at \in Directories \cup Files : at \in Seq(PathNames)
    BY FileSystemAssumption, Zenon DEF PathNames, Texts
  <1>2. Missing \notin Seq(PathNames)
    <2> SUFFICES ASSUME Missing \in Seq(PathNames) PROVE FALSE
      OBVIOUS
    <2>1. Len(Missing) = 1 /\ Missing[1] = <<>>
      BY DEF Missing
    <2>2. Missing[1] \in PathNames
      <3>1. 1 \in 1 .. Len(Missing)
        BY <2>1
      <3> QED
        BY <3>1, ElementOfSeq
    <2> QED
      BY <2>1, <2>2, Zenon DEF PathNames
  <1> QED
    BY <1>1, <1>2

\* Names lead to a directory or a file, or to nothing.
LEMMA WalkRange ==
  ASSUME NEW cs \in Seq(PathNames)
  PROVE  WalkedTo(cs) \in Directories \cup Files \cup {Missing}
  <1> DEFINE N == PathNames
             R == Directories \cup Files \cup {Missing}
             T == {s \in Seq(N) : WalkedTo(s) \in R}
  <1>1. /\ WalkedTo(<<>>) = <<>>
        /\ \A s \in Seq(N), p \in N : WalkedTo(Append(s, p)) = WalkStep(WalkedTo(s), p)
    BY WalkedToIs, Zenon
  <1> HIDE DEF N
  <1>2. <<>> \in T
    BY <1>1, TreeTypes
  <1>3. ASSUME NEW s \in Seq(N), NEW p \in N, s \in T
        PROVE  Append(s, p) \in T
    <2>1. WalkedTo(Append(s, p)) = WalkStep(WalkedTo(s), p) /\ Append(s, p) \in Seq(N)
      BY <1>1, AppendProperties
    <2>2. \A at \in R : WalkStep(at, p) \in R
      BY TreeTypes DEF WalkStep
    <2> QED
      BY <1>3, <2>1, <2>2
  <1>4. Seq(N) \subseteq T
    <2> HIDE DEF T
    <2> QED
      BY <1>2, <1>3, SeqSetInduction
  <1> QED
    BY <1>4 DEF N

\* The front of what has grown.
LEMMA FrontAppend ==
  ASSUME NEW S, NEW s \in Seq(S), NEW e \in S
  PROVE  Front(Append(s, e)) = s
  <1>1. /\ Append(s, e) = s \o <<e>> /\ <<e>> \in Seq(S)
        /\ Len(Append(s, e)) = Len(s) + 1 /\ Len(s) \in Nat
    BY AppendProperties, AppendIsConcat, LenProperties
  <1>2. Front(Append(s, e)) = SubSeq(Append(s, e), 1, Len(s))
    BY <1>1 DEF Front
  <1>3. CASE Len(s) = 0
    <2>1. s = <<>>
      BY <1>3, EmptySeq
    <2>2. SubSeq(Append(s, e), 1, Len(s)) = <<>>
      BY <1>3, SubSeqEmpty
    <2> QED
      BY <1>2, <2>1, <2>2
  <1>4. CASE Len(s) # 0
    <2> DEFINE t == <<e>>
    <2>1. t \in Seq(S) /\ Append(s, e) = s \o t
      BY <1>1
    <2> HIDE DEF t
    <2>2. 1 \in 1 .. Len(s) /\ Len(s) \in 1 .. Len(s)
      BY <1>1, <1>4
    <2>3. SubSeq(s \o t, 1, Len(s)) = SubSeq(s, 1, Len(s))
      BY <2>1, <2>2, SubSeqOfConcat1
    <2> QED
      BY <1>2, <2>1, <2>3, SubSeqFull, Zenon
  <1> QED
    BY <1>3, <1>4

\* at lies n names below the directory b.
Below(b, at, n) == \E x \in Places : at = b \o x /\ Len(x) = n

\* A step of the walk and of the level.
LEMMA BelowStep ==
  ASSUME NEW b \in Places, NEW at \in Places, NEW n \in Nat, NEW p \in PathNames,
         at = Missing \/ Below(b, at, n), LevelStep(n, p) >= 0
  PROVE  WalkStep(at, p) = Missing \/ Below(b, WalkStep(at, p), LevelStep(n, p))
  <1> DEFINE V == Texts
  <1>1. /\ b \in Seq(V) /\ p \in V
        /\ \A s, m : Below(b, s, m) <=> \E x \in Seq(V) : s = b \o x /\ Len(x) = m
    BY DEF Below, Places, PathNames
  <1> HIDE DEF V
  <1> SUFFICES ASSUME at \in Directories, p # Here
               PROVE  WalkStep(at, p) = Missing \/ Below(b, WalkStep(at, p), LevelStep(n, p))
    BY TreeTypes DEF WalkStep, LevelStep
  <1>2. PICK x \in Seq(V) : at = b \o x /\ Len(x) = n
    BY <1>1, TreeTypes, Zenon
  <1>3. n # -1
    OBVIOUS
  <1>4. CASE p = Up
    <2>1. LevelStep(n, p) = n - 1 /\ n > 0
      BY <1>3, <1>4, PlaceTypes DEF LevelStep
    <2>2. x # <<>>
      BY <1>2, <2>1, EmptySeq
    <2>3. PICK y \in Seq(V), e \in V : x = Append(y, e)
      BY <2>2, SequenceEmptyOrAppend
    <2>4. /\ at = Append(b \o y, e) /\ b \o y \in Seq(V)
          /\ Len(x) = Len(y) + 1 /\ Len(y) \in Nat
      BY <1>1, <1>2, <2>3, ConcatAppend, ConcatProperties, AppendProperties, LenProperties
    <2>5. Front(at) = b \o y /\ at # <<>>
      <3> DEFINE w == b \o y
      <3>1. w \in Seq(V) /\ e \in V /\ at = Append(w, e)
        BY <2>3, <2>4
      <3> HIDE DEF w
      <3>2. Front(at) = w /\ at # <<>>
        BY <3>1, FrontAppend, AppendProperties
      <3> QED
        BY <3>2 DEF w
    <2>6. WalkStep(at, p) = b \o y
      BY <1>4, <2>5, PlaceTypes DEF WalkStep
    <2>7. Len(y) = LevelStep(n, p)
      BY <1>2, <2>1, <2>4
    <2> QED
      BY <1>1, <2>6, <2>7, Zenon
  <1>5. CASE p # Up
    <2>1. LevelStep(n, p) = n + 1
      BY <1>3, <1>5 DEF LevelStep
    <2>2. WalkStep(at, p) \in {Missing, Append(at, p)}
      BY <1>5 DEF WalkStep
    <2>3. /\ Append(at, p) = b \o Append(x, p) /\ Append(x, p) \in Seq(V)
          /\ Len(Append(x, p)) = n + 1
      <3>1. Append(at, p) = b \o Append(x, p)
        <4>1. b \o Append(x, p) = Append(b \o x, p)
          BY <1>1, ConcatAppend
        <4> QED
          BY <1>2, <4>1, Zenon
      <3>2. Append(x, p) \in Seq(V) /\ Len(Append(x, p)) = Len(x) + 1
        BY <1>1, <1>2, AppendProperties
      <3> QED
        BY <1>2, <3>1, <3>2
    <2> QED
      BY <1>1, <2>1, <2>2, <2>3, Zenon
  <1> QED
    BY <1>4, <1>5

\* From a directory on, names that never leave it lead to what lies below it.
LEMMA WalkBelow ==
  ASSUME NEW d \in Seq(PathNames), NEW cs \in Seq(PathNames), Level(cs) >= 0
  PROVE  \/ WalkedTo(d \o cs) = Missing
         \/ Below(WalkedTo(d), WalkedTo(d \o cs), Level(cs))
  <1> DEFINE N == PathNames
             b == WalkedTo(d)
             Stays(s) == WalkedTo(d \o s) = Missing \/ Below(b, WalkedTo(d \o s), Level(s))
             T == {s \in Seq(N) : Level(s) >= 0 => Stays(s)}
  <1>1. /\ \A s \in Seq(N) : WalkedTo(s) \in Places
        /\ \A s \in Seq(N), p \in N : WalkedTo(Append(s, p)) = WalkStep(WalkedTo(s), p)
        /\ Level(<<>>) = 0
        /\ \A s \in Seq(N), p \in N : Level(Append(s, p)) = LevelStep(Level(s), p)
        /\ \A s \in Seq(N) : Level(s) = -1 \/ Level(s) \in Nat
    BY WalkedToIs, LevelIs, LevelResolved, Zenon
  <1>2. d \in Seq(N) /\ cs \in Seq(N)
    OBVIOUS
  <1>3. b \in Places
    BY <1>1, <1>2
  <1>4. \A p \in N : LevelStep(-1, p) = -1
    BY DEF LevelStep
  <1>5. ASSUME NEW at \in Places, NEW n \in Nat, NEW p \in N,
               at = Missing \/ Below(b, at, n), LevelStep(n, p) >= 0
        PROVE  WalkStep(at, p) = Missing \/ Below(b, WalkStep(at, p), LevelStep(n, p))
    BY <1>3, <1>5, BelowStep
  <1>6. <<>> \in T
    <2>1. d \o <<>> = d /\ <<>> \in Seq(N)
      BY ConcatEmptySeq
    <2>2. <<>> \in Places /\ b \o <<>> = b
      BY <1>3, ConcatEmptySeq DEF Places
    <2>3. Below(b, b, 0)
      BY <2>2, Zenon DEF Below
    <2> QED
      BY <1>1, <2>1, <2>3
  <1> HIDE DEF N, b
  <1>7. ASSUME NEW s \in Seq(N), NEW p \in N, s \in T
        PROVE  Append(s, p) \in T
    <2> DEFINE at == WalkedTo(d \o s)
               n == Level(s)
    <2>1. /\ d \o s \in Seq(N) /\ Append(s, p) \in Seq(N)
          /\ d \o Append(s, p) = Append(d \o s, p)
      BY <1>2, ConcatProperties, AppendProperties, ConcatAppend
    <2>2. /\ at \in Places /\ WalkedTo(d \o Append(s, p)) = WalkStep(at, p)
          /\ Level(Append(s, p)) = LevelStep(n, p)
          /\ n = -1 \/ n \in Nat
      BY <1>1, <2>1, Zenon
    <2>3. n >= 0 => at = Missing \/ Below(b, at, n)
      BY <1>7
    <2> HIDE DEF at, n
    <2> SUFFICES ASSUME LevelStep(n, p) >= 0 PROVE Stays(Append(s, p))
      BY <2>1, <2>2, Zenon
    <2>4. n \in Nat
      BY <1>4, <2>2
    <2>5. WalkStep(at, p) = Missing \/ Below(b, WalkStep(at, p), LevelStep(n, p))
      BY <1>5, <2>2, <2>3, <2>4
    <2> QED
      BY <2>2, <2>5, Zenon
  <1>8. Seq(N) \subseteq T
    <2> HIDE DEF T
    <2> QED
      BY <1>6, <1>7, SeqSetInduction
  <1>9. cs \in T
    BY <1>2, <1>8
  <1> QED
    BY <1>9, Zenon DEF b

-----------------------------------------------------------------------------
(***************************************************************************)
(* The file that a path of a mount point names: Full is base_dir and       *)
(* sub_path, r being what follows the mount point.                         *)
(***************************************************************************)
Full(e, r) == Append(e.dir, Slash) \o r
Behind(e, path) == SubSeq(path, Len(e.at) + 1, Len(path))

\* Where the text below a mount point leads.
LEMMA FullIs ==
  ASSUME NEW e \in Entries, NEW r \in Texts
  PROVE  /\ Full(e, r) \in Texts /\ Full(e, r) # <<>>
         /\ e.dir \o (<<Slash>> \o r) = Full(e, r)
         /\ Components(e.dir) \in Seq(PathNames) /\ Components(r) \in Seq(PathNames)
         /\ Components(Full(e, r)) = Components(e.dir) \o Components(r)
         /\ Components(<<Slash>> \o r) = Components(r)
  <1> DEFINE s == <<Slash>>
             d == e.dir
  <1>1. s \in Seq(Nat) /\ d \in Texts /\ Slash \in Nat
    BY DEF Slash, Entries
  <1>2. s = Append(<<>>, Slash) /\ <<>> \in Texts
    BY DEF Texts
  <1> HIDE DEF s, d
  <1>3. ThreeAsOne(Nat, d, s, r)
    BY <1>1, ConcatThree DEF Three, Texts
  <1>4. Append(d, Slash) = d \o s
    BY <1>1, AppendIsConcat DEF s, Texts
  <1>5. d \o (s \o r) = Append(d, Slash) \o r /\ d \o (s \o r) \in Texts
    BY <1>3, <1>4, Zenon DEF ThreeAsOne, Texts
  <1>6. Append(d, Slash) \o r # <<>>
    <2>1. Append(d, Slash) \in Seq(Nat) /\ Append(d, Slash) # <<>> /\ r \in Seq(Nat)
      BY <1>1, AppendProperties DEF Texts
    <2> QED
      BY <2>1, ConcatEqualIffEmpty
  <1>7. /\ Components(d) \in Seq(PathNames) /\ Components(r) \in Seq(PathNames)
        /\ Components(Append(d, Slash) \o r) = Components(d) \o Components(r)
        /\ Components(Append(<<>>, Slash) \o r) = Components(<<>>) \o Components(r)
    BY <1>1, <1>2, ComponentsConcat, Zenon
  <1>8. Components(s \o r) = Components(r)
    <2>1. <<>> \o Components(r) = Components(r)
      BY <1>7, ConcatEmptySeq
    <2> QED
      BY <1>2, <1>7, <2>1, ComponentsOfName, Zenon
  <1> QED
    BY <1>5, <1>6, <1>7, <1>8, Zenon DEF Full, s, d

\* With a slash at the end, the index of a directory is meant.
LEMMA IndexNamed ==
  ASSUME NEW t \in Texts, t # <<>>, t[Len(t)] = Slash
  PROVE  Components(t \o IndexHtml) = Append(Components(t), IndexHtml)
  <1>1. PICK w \in Seq(Nat), v \in Nat : t = Append(w, v)
    BY SequenceEmptyOrAppend DEF Texts
  <1>2. v = Slash
    BY <1>1, AppendProperties
  <1> DEFINE h == IndexHtml
             cs == Components(w)
  <1>3. h \in Texts /\ h \in PathNames /\ <<>> \in Texts /\ w \in Texts
    BY DEF IndexHtml, Texts, PathNames
  <1>4. /\ cs \in Seq(PathNames)
        /\ Components(t \o h) = cs \o Components(h)
        /\ Components(t \o <<>>) = cs \o Components(<<>>)
    BY <1>1, <1>2, <1>3, ComponentsConcat, Zenon
  <1>5. t \o <<>> = t /\ cs \o <<>> = cs
    BY <1>4, ConcatEmptySeq DEF Texts
  <1>6. Components(<<>>) = <<>> /\ Components(h) = <<h>>
    BY ComponentsOfName
  <1> HIDE DEF h, cs
  <1>7. cs \o <<h>> = Append(cs, h)
    BY <1>3, <1>4, AppendIsConcat
  <1> QED
    BY <1>4, <1>5, <1>6, <1>7, Zenon DEF h

\* The components of what is looked for.
LEMMA FilePathIs ==
  ASSUME NEW e \in Entries, NEW path \in Texts, IsPrefix(e.at, path)
  PROVE  LET r == Behind(e, path)
             full == Full(e, r)
         IN  /\ r \in Texts /\ path = e.at \o r
             /\ SubPath(e, path) = <<Slash>> \o r
             /\ full[Len(full)] # Slash => FilePath(e, path) = full
             /\ full[Len(full)] = Slash =>
                  /\ FilePath(e, path) = full \o IndexHtml
                  /\ Components(FilePath(e, path)) = Append(Components(full), IndexHtml)
  <1> DEFINE r == Behind(e, path)
             full == Full(e, r)
             n == Len(e.at)
  <1>1. /\ n \in Nat /\ Len(path) \in Nat /\ n <= Len(path)
        /\ SubSeq(path, 1, n) = e.at
    <2>1. e.at \in Seq(Nat) /\ path \in Seq(Nat)
      BY DEF Entries, Texts
    <2>2. n \in Nat /\ Len(path) \in Nat
      BY <2>1, LenProperties
    <2>3. n <= Len(path) /\ SubSeq(path, 1, n) = SubSeq(e.at, 1, n)
      BY DEF IsPrefix
    <2> QED
      BY <2>1, <2>2, <2>3, SubSeqFull
  <1>2. r \in Texts /\ path = e.at \o r
    <2>1. path \in Seq(Nat) /\ n + 1 \in 1 .. Len(path) + 1 /\ Len(path) \in (n + 1) - 1 .. Len(path)
      BY <1>1 DEF Texts
    <2>2. SubSeq(path, n + 1, Len(path)) \in Seq(Nat)
      BY <2>1, PieceOf
    <2>3. /\ 1 \in 1 .. Len(path) + 1 /\ n \in 1 - 1 .. Len(path)
          /\ Len(path) \in n .. Len(path)
      BY <1>1
    <2>4. SubSeq(path, 1, n) \o SubSeq(path, n + 1, Len(path)) = SubSeq(path, 1, Len(path))
      BY <2>1, <2>3, ConcatAdjacentSubSeq, Zenon
    <2>5. SubSeq(path, 1, Len(path)) = path
      BY <2>1, SubSeqFull
    <2> QED
      BY <1>1, <2>2, <2>4, <2>5, Zenon DEF Behind, Texts
  <1>3. SubPath(e, path) = <<Slash>> \o r
    BY Zenon DEF SubPath, Behind
  <1> HIDE DEF r
  <1>4. full \in Texts /\ full # <<>> /\ e.dir \o (<<Slash>> \o r) = full
    BY <1>2, FullIs, Zenon
  <1>5. FilePath(e, path) = IF full[Len(full)] = Slash THEN full \o IndexHtml ELSE full
    BY <1>3, <1>4, Zenon DEF FilePath
  <1>6. full[Len(full)] = Slash => Components(full \o IndexHtml) = Append(Components(full), IndexHtml)
    BY <1>4, IndexNamed, Zenon
  <1> HIDE DEF full
  <1> QED
    BY <1>2, <1>3, <1>5, <1>6, Zenon DEF r, full

\* What a valid path names below a mount point is missing or lies below the directory.
LEMMA FoundBelow ==
  ASSUME NEW e \in Entries, NEW path \in Texts, IsPrefix(e.at, path),
         is_valid_path(SubPath(e, path))
  PROVE  LET at == Walk(FilePath(e, path))
         IN  /\ at \in Directories \cup Files \cup {Missing}
             /\ at = Missing \/ IsPrefix(Walk(e.dir), at)
  <1> DEFINE r == Behind(e, path)
             full == Full(e, r)
             at == Walk(FilePath(e, path))
             d == Components(e.dir)
             cr == Components(r)
  <1>1. /\ r \in Texts /\ SubPath(e, path) = <<Slash>> \o r
        /\ full[Len(full)] # Slash => FilePath(e, path) = full
        /\ full[Len(full)] = Slash =>
             Components(FilePath(e, path)) = Append(Components(full), IndexHtml)
    BY FilePathIs
  <1> HIDE DEF r
  <1>2. /\ d \in Seq(PathNames) /\ cr \in Seq(PathNames)
        /\ Components(full) = d \o cr /\ Components(<<Slash>> \o r) = cr
    BY <1>1, FullIs, Zenon
  <1>3. Level(cr) >= 0
    BY <1>1, <1>2, PathFolds
  <1> HIDE DEF full
  <1>4. PICK cs \in Seq(PathNames) : Level(cs) >= 0 /\ Components(FilePath(e, path)) = d \o cs
    <2>1. CASE full[Len(full)] # Slash
      BY <1>1, <1>2, <1>3, <2>1, Zenon
    <2>2. CASE full[Len(full)] = Slash
      <3> DEFINE h == IndexHtml
                 cs == Append(cr, h)
                 N == PathNames
      <3>1. h \in N /\ h # Up /\ h # Here
        BY DEF IndexHtml, PathNames, Texts, Up, Here, Dot
      <3>2. Level(cr) \in Int /\ Level(Append(cr, h)) = LevelStep(Level(cr), h)
        BY <1>2, <3>1, LevelIs
      <3>3. Level(cs) >= 0
        BY <1>3, <3>1, <3>2 DEF LevelStep
      <3>4. d \in Seq(N) /\ cr \in Seq(N)
        BY <1>2
      <3>5. Components(FilePath(e, path)) = Append(d \o cr, h)
        BY <1>1, <1>2, <2>2, Zenon
      <3> HIDE DEF h, N, d, cr
      <3>6. cs \in Seq(N) /\ d \o cs = Append(d \o cr, h)
        BY <3>1, <3>4, AppendProperties, ConcatAppend
      <3>7. cs \in Seq(PathNames)
        BY <3>6, Zenon DEF N
      <3> QED
        BY <3>3, <3>5, <3>6, <3>7, Zenon DEF d
    <2> QED
      BY <2>1, <2>2, Zenon
  <1>5. /\ at = WalkedTo(d \o cs) /\ Walk(e.dir) = WalkedTo(d)
    BY <1>4, PathFolds, Zenon
  <1>6. d \o cs \in Seq(PathNames)
    BY <1>2, <1>4, ConcatProperties
  <1>7. WalkedTo(d \o cs) \in Directories \cup Files \cup {Missing}
    BY <1>6, WalkRange, Zenon
  <1>8. \/ WalkedTo(d \o cs) = Missing
        \/ Below(WalkedTo(d), WalkedTo(d \o cs), Level(cs))
    BY <1>2, <1>4, WalkBelow
  <1>9. ASSUME Below(WalkedTo(d), WalkedTo(d \o cs), Level(cs))
        PROVE  IsPrefix(WalkedTo(d), WalkedTo(d \o cs))
    <2> DEFINE V == Texts
               b == WalkedTo(d)
    <2>1. PICK x \in Seq(V) : WalkedTo(d \o cs) = b \o x
      BY <1>9, Zenon DEF Below, Places
    <2>2. b \in Seq(V)
      BY <1>2, WalkedToIs DEF Places
    <2> HIDE DEF V, b
    <2>3. IsPrefix(b, b \o x)
      <3>1. /\ b \o x \in Seq(V) /\ Len(b \o x) = Len(b) + Len(x)
            /\ Len(b) \in Nat /\ Len(x) \in Nat
        BY <2>2, ConcatProperties, LenProperties
      <3>2. SubSeq(b \o x, 1, Len(b)) = b
        BY <2>1, <2>2, <3>1
      <3>3. SubSeq(b, 1, Len(b)) = b
        BY <2>2, SubSeqFull
      <3> QED
        BY <3>1, <3>2, <3>3 DEF IsPrefix
    <2> QED
      BY <2>1, <2>3, Zenon DEF b
  <1> QED
    BY <1>5, <1>7, <1>8, <1>9, Zenon

\* The file or the redirect that answers a request comes from a mount point
\* that has it.
LEMMA AnsweredFrom ==
  ASSUME NEW path \in Texts, handle_file_request(path).answer \in {"file", "redirect"}
  PROVE  \E e \in Entries :
           LET a == handle_file_request(path)
               at == Walk(FilePath(e, path))
           IN  /\ IsPrefix(e.at, path) /\ is_valid_path(SubPath(e, path))
               /\ at # Missing /\ at \notin Unreadable
               /\ at \in Directories =>
                    a = [answer |-> "redirect", entry |-> e, directory |-> at,
                         location |-> SubPath(e, path) \o <<Slash>>]
               /\ at \notin Directories => a = [answer |-> "file", entry |-> e, file |-> at]
  <1> DEFINE Hit(i) == /\ IsPrefix(base_dirs_[i].at, path)
                       /\ is_valid_path(SubPath(base_dirs_[i], path))
                       /\ Walk(FilePath(base_dirs_[i], path)) # Missing
             hits == {i \in DOMAIN base_dirs_ : Hit(i)}
             first == CHOOSE i \in hits : \A k \in hits : i <= k
             e == base_dirs_[first]
             at == Walk(FilePath(e, path))
             l == SubPath(e, path) \o <<Slash>>
             a == handle_file_request(path)
  <1>1. a = IF hits = {} \/ at \in Unreadable THEN [answer |-> "none"]
            ELSE IF at \in Directories
              THEN IF ToSet(l) \cap {10, 13} # {} THEN [answer |-> "blank"]
                   ELSE [answer |-> "redirect", entry |-> e, directory |-> at, location |-> l]
              ELSE [answer |-> "file", entry |-> e, file |-> at]
    BY Zenon DEF handle_file_request
  <1>2. /\ hits # {} /\ at \notin Unreadable
        /\ at \in Directories => a = [answer |-> "redirect", entry |-> e, directory |-> at,
                                     location |-> l]
        /\ at \notin Directories => a = [answer |-> "file", entry |-> e, file |-> at]
    <2>1. /\ [answer |-> "none"].answer \notin {"file", "redirect"}
          /\ [answer |-> "blank"].answer \notin {"file", "redirect"}
      OBVIOUS
    <2>2. a.answer \in {"file", "redirect"}
      OBVIOUS
    <2> HIDE DEF hits, at, e, l, a
    <2>3. a # [answer |-> "none"] /\ a # [answer |-> "blank"]
      BY <2>1, <2>2, Zenon
    <2> QED
      BY <1>1, <2>3, Zenon
  <1>3. hits \in SUBSET Nat /\ \A i \in hits : Hit(i) /\ base_dirs_[i] \in Entries
    <2>1. Len(base_dirs_) \in Nat /\ DOMAIN base_dirs_ = 1 .. Len(base_dirs_)
      BY BaseDirs, LenProperties
    <2>2. \A i \in DOMAIN base_dirs_ : base_dirs_[i] \in Entries
      BY <2>1, BaseDirs, ElementOfSeq
    <2> HIDE DEF Hit
    <2> QED
      BY <2>1, <2>2
  <1> HIDE DEF Hit, hits
  <1>4. first \in hits
    <2>1. \E i \in hits : \A k \in hits : i <= k
      BY <1>2, <1>3, LeastNumber
    <2> QED
      BY <2>1, Zenon
  <1>5. Hit(first) /\ e \in Entries
    BY <1>3, <1>4, Zenon
  <1> HIDE DEF first
  <1>6. IsPrefix(e.at, path) /\ is_valid_path(SubPath(e, path)) /\ at # Missing
    BY <1>5, Zenon DEF Hit
  <1> HIDE DEF e, at
  <1> QED
    BY <1>2, <1>5, <1>6, Zenon DEF at, l

\* What is served lies below the directory that is mounted.
LEMMA FileServed ==
  ASSUME NEW path \in Texts, handle_file_request(path).answer = "file"
  PROVE  LET a == handle_file_request(path)
         IN  /\ IsPrefix(a.entry.at, path) /\ a.file \in Files \ Unreadable
             /\ IsPrefix(Walk(a.entry.dir), a.file)
  <1> DEFINE a == handle_file_request(path)
  <1>1. PICK e \in Entries :
          LET at == Walk(FilePath(e, path))
          IN  /\ IsPrefix(e.at, path) /\ is_valid_path(SubPath(e, path))
              /\ at # Missing /\ at \notin Unreadable
              /\ at \in Directories =>
                   a = [answer |-> "redirect", entry |-> e, directory |-> at,
                        location |-> SubPath(e, path) \o <<Slash>>]
              /\ at \notin Directories => a = [answer |-> "file", entry |-> e, file |-> at]
    <2>1. handle_file_request(path).answer \in {"file", "redirect"}
      OBVIOUS
    <2> QED
      BY <2>1, AnsweredFrom, Zenon
  <1> DEFINE at == Walk(FilePath(e, path))
  <1>2. /\ at \in Directories \cup Files \cup {Missing}
        /\ at = Missing \/ IsPrefix(Walk(e.dir), at)
    BY <1>1, FoundBelow
  <1>3. a.answer = "file"
    OBVIOUS
  <1> HIDE DEF a, at
  <1>4. at \notin Directories
    <2> SUFFICES ASSUME at \in Directories PROVE FALSE
      OBVIOUS
    <2> DEFINE l == SubPath(e, path) \o <<Slash>>
    <2>1. a = [answer |-> "redirect", entry |-> e, directory |-> at, location |-> l]
      BY <1>1, Zenon DEF at
    <2> HIDE DEF l
    <2> QED
      BY <1>3, <2>1
  <1>5. a = [answer |-> "file", entry |-> e, file |-> at]
    BY <1>1, <1>4, Zenon DEF at
  <1>6. a.entry = e /\ a.file = at
    BY <1>5
  <1>7. at # Missing /\ at \notin Unreadable /\ IsPrefix(e.at, path)
    BY <1>1, Zenon DEF at
  <1> QED
    BY <1>2, <1>4, <1>6, <1>7, Zenon DEF a

\* A redirect by the root mount leads to the directory's index.
LEMMA RedirectLeads ==
  ASSUME NEW path \in Texts, handle_file_request(path).answer = "redirect",
         handle_file_request(path).entry.at = <<Slash>>
  PROVE  LET a == handle_file_request(path)
         IN  Walk(FilePath(a.entry, a.location)) \in
               IF Last(path) = Slash THEN {a.directory}
               ELSE {Missing, a.directory \o <<IndexHtml>>}
  <1> DEFINE a == handle_file_request(path)
             s == <<Slash>>
  <1>1. PICK e \in Entries :
          LET at == Walk(FilePath(e, path))
          IN  /\ IsPrefix(e.at, path) /\ is_valid_path(SubPath(e, path))
              /\ at # Missing /\ at \notin Unreadable
              /\ at \in Directories =>
                   a = [answer |-> "redirect", entry |-> e, directory |-> at,
                        location |-> SubPath(e, path) \o s]
              /\ at \notin Directories => a = [answer |-> "file", entry |-> e, file |-> at]
    <2>1. handle_file_request(path).answer \in {"file", "redirect"}
      OBVIOUS
    <2> QED
      BY <2>1, AnsweredFrom, Zenon
  <1> DEFINE at == Walk(FilePath(e, path))
             l == SubPath(e, path) \o s
  <1>2. a.answer = "redirect" /\ a.entry.at = s
    OBVIOUS
  <1>3. s \in Seq(Nat) /\ Len(s) = 1 /\ s[1] = Slash /\ s # <<>> /\ Slash \in Nat
    BY DEF Slash
  <1> HIDE DEF a, at, l, s
  <1>4. at \in Directories
    <2> SUFFICES ASSUME at \notin Directories PROVE FALSE
      OBVIOUS
    <2>1. a = [answer |-> "file", entry |-> e, file |-> at]
      BY <1>1, Zenon DEF at
    <2> QED
      BY <1>2, <2>1
  <1>5. a = [answer |-> "redirect", entry |-> e, directory |-> at, location |-> l]
    BY <1>1, <1>4, Zenon DEF at, l
  <1>6. a.entry = e /\ a.directory = at /\ a.location = l /\ e.at = s
    BY <1>2, <1>5
  <1> DEFINE r == Behind(e, path)
             full == Full(e, r)
             w == FilePath(e, path)
  <1>7. IsPrefix(e.at, path)
    BY <1>1, Zenon
  <1>8. /\ r \in Texts /\ path = e.at \o r
        /\ SubPath(e, path) = s \o r
        /\ full[Len(full)] # Slash => w = full
        /\ full[Len(full)] = Slash => Components(w) = Append(Components(full), IndexHtml)
    BY <1>7, FilePathIs, Zenon DEF s
  <1> HIDE DEF r, w
  <1>9. full \in Texts /\ full # <<>>
    BY <1>8, FullIs, Zenon
  <1>10. path = s \o r /\ SubPath(e, path) = path
    BY <1>6, <1>8, Zenon
  <1>11. l = s \o (r \o s) /\ r \o s \in Texts /\ l \in Texts
    <2>1. ThreeAsOne(Nat, s, r, s)
      BY <1>3, <1>8, ConcatThree, Zenon DEF Three, Texts
    <2> QED
      BY <1>10, <2>1, Zenon DEF ThreeAsOne, Texts, l
  <1>12. IsPrefix(e.at, l) /\ Behind(e, l) = r \o s
    <2> DEFINE u == r \o s
               k == Len(l)
    <2>1. u \in Seq(Nat) /\ l = s \o u
      BY <1>11 DEF Texts
    <2> HIDE DEF u
    <2>2. /\ k = 1 + Len(u) /\ Len(u) \in Nat
          /\ SubSeq(l, 1, 1) = s /\ SubSeq(l, 2, k) = u
      BY <1>3, <2>1, BehindFirst, LenProperties
    <2>3. SubSeq(s, 1, 1) = s
      BY <1>3, SubSeqFull
    <2>4. Len(e.at) = 1 /\ Len(e.at) + 1 = 2
      <3>1. Len(e.at) = Len(s) /\ Len(s) = 1
        BY <1>3, <1>6, Zenon
      <3> HIDE DEF s
      <3> QED
        BY <3>1
    <2>5. IsPrefix(e.at, l)
      <3>1. Len(e.at) <= k
        BY <2>2, <2>4
      <3>2. SubSeq(e.at, 1, Len(e.at)) = SubSeq(l, 1, Len(e.at))
        BY <1>6, <2>2, <2>3, <2>4, Zenon
      <3> QED
        BY <3>1, <3>2 DEF IsPrefix
    <2>6. Behind(e, l) = u
      BY <2>2, <2>4, Zenon DEF Behind, k
    <2> QED
      BY <2>5, <2>6, Zenon DEF u
  <1> DEFINE again == FilePath(e, l)
             next == Full(e, r \o s)
  <1>13. next = Append(full, Slash) /\ Components(next) = Components(full)
    <2> DEFINE d == Append(e.dir, Slash)
    <2>1. d \in Seq(Nat) /\ r \in Seq(Nat)
      BY <1>3, <1>8, AppendProperties DEF Entries, Texts
    <2>2. full = d \o r /\ next = d \o (r \o s)
      BY Zenon DEF Full
    <2> HIDE DEF d
    <2>3. ThreeAsOne(Nat, d, r, s)
      BY <1>3, <2>1, ConcatThree, Zenon DEF Three
    <2>4. next = full \o s
      BY <2>2, <2>3, Zenon DEF ThreeAsOne
    <2>5. Append(full, Slash) = full \o s
      <3>1. full \in Seq(Nat)
        BY <1>9 DEF Texts
      <3> HIDE DEF full
      <3> QED
        BY <1>3, <3>1, AppendIsConcat DEF s
    <2>6. Components(Append(full, Slash)) = Components(full)
      <3>1. <<>> \in Texts /\ Append(full, Slash) \in Seq(Nat)
        BY <1>3, <1>9, AppendProperties DEF Texts
      <3>2. /\ Components(full) \in Seq(PathNames)
            /\ Components(Append(full, Slash) \o <<>>) = Components(full) \o Components(<<>>)
        BY <1>9, <3>1, ComponentsConcat, Zenon
      <3>3. /\ Append(full, Slash) \o <<>> = Append(full, Slash)
            /\ Components(full) \o <<>> = Components(full)
        BY <3>1, <3>2, ConcatEmptySeq
      <3> QED
        BY <3>2, <3>3, ComponentsOfName, Zenon
    <2> QED
      BY <2>4, <2>5, <2>6, Zenon
  <1>14. Components(again) = Append(Components(full), IndexHtml)
    <2>1. next[Len(next)] = Slash
      BY <1>3, <1>9, <1>13, AppendProperties DEF Texts
    <2>2. next[Len(next)] = Slash => Components(again) = Append(Components(next), IndexHtml)
      BY <1>11, <1>12, FilePathIs, ZenonT(30)
    <2> QED
      BY <1>13, <2>1, <2>2, Zenon
  <1> HIDE DEF again, next
  <1>15. Components(full) \in Seq(PathNames) /\ IndexHtml \in PathNames
    <2>1. Components(full) \in Seq(PathNames)
      BY <1>9, ComponentsConcat
    <2>2. IndexHtml \in PathNames
      BY DEF IndexHtml, PathNames, Texts
    <2> QED
      BY <2>1, <2>2
  <1>16. Last(path) = full[Len(full)]
    <2> DEFINE d == Append(e.dir, Slash)
    <2>1. d \in Seq(Nat) /\ r \in Seq(Nat) /\ Len(d) \in Nat \ {0} /\ d[Len(d)] = Slash
      <3>1. e.dir \in Seq(Nat)
        BY DEF Entries, Texts
      <3>2. /\ d \in Seq(Nat) /\ Len(d) = Len(e.dir) + 1 /\ d[Len(e.dir) + 1] = Slash
            /\ Len(e.dir) \in Nat
        BY <1>3, <3>1, AppendProperties, LenProperties
      <3> HIDE DEF d
      <3> QED
        BY <1>8, <3>2 DEF Texts
    <2>2. full = d \o r
      BY Zenon DEF Full
    <2> HIDE DEF d, full
    <2>3. CASE r = <<>>
      <3>1. full = d /\ path = s
        BY <1>3, <1>10, <2>1, <2>2, <2>3, ConcatEmptySeq
      <3> QED
        BY <1>3, <2>1, <3>1, Zenon DEF Last
    <2>4. CASE r # <<>>
      <3>1. full[Len(full)] = r[Len(r)]
        BY <2>1, <2>2, <2>4, LastOfConcat
      <3>2. path[Len(path)] = r[Len(r)]
        BY <1>3, <1>10, <2>1, <2>4, LastOfConcat
      <3> QED
        BY <3>1, <3>2 DEF Last
    <2> QED
      BY <2>3, <2>4
  <1>17. CASE Last(path) = Slash
    <2>1. Components(w) = Components(again)
      BY <1>8, <1>14, <1>16, <1>17, Zenon
    <2>2. Walk(again) = at
      BY <2>1, PathFolds, Zenon DEF at, w
    <2> QED
      BY <1>6, <1>17, <2>2, Zenon DEF a, again
  <1>18. CASE Last(path) # Slash
    <2>1. w = full
      BY <1>8, <1>16, <1>18
    <2>2. at = WalkedTo(Components(full))
      BY <2>1, PathFolds, Zenon DEF at, w
    <2>3. Walk(again) = WalkedTo(Append(Components(full), IndexHtml))
      BY <1>14, PathFolds, Zenon
    <2>4. Walk(again) = WalkStep(at, IndexHtml)
      BY <1>15, <2>2, <2>3, WalkedToIs, Zenon
    <2>5. IndexHtml # Here /\ IndexHtml # Up
      BY DEF IndexHtml, Here, Up, Dot
    <2>6. Walk(again) \in {Missing, Append(at, IndexHtml)}
      BY <1>4, <2>4, <2>5 DEF WalkStep
    <2>7. Append(at, IndexHtml) = at \o <<IndexHtml>>
      <3> DEFINE h == IndexHtml
      <3>1. at \in Seq(PathNames) /\ h \in PathNames
        BY <1>4, <1>15, TreeTypes
      <3> HIDE DEF h
      <3>2. Append(at, h) = at \o <<h>>
        BY <3>1, AppendIsConcat
      <3> QED
        BY <3>2 DEF h
    <2>8. Walk(again) \in {Missing, a.directory \o <<IndexHtml>>}
      BY <1>6, <2>6, <2>7, Zenon
    <2> QED
      BY <1>6, <1>18, <2>8, Zenon DEF a, again
  <1> QED
    BY <1>17, <1>18

\* For any file system, mount points and path: a path is accepted exactly if
\* following it never leaves the base directory, a file served lies below the
\* directory mounted, and a redirect by the root mount leads to the index of the
\* directory found (HttpFiles: handle_file_request, HttpText: is_valid_path).
THEOREM PathsStay == Spec => []PathsStayBelow
  <1>1. TextType => PathsStayBelow
    <2> SUFFICES ASSUME TextType PROVE PathsStayBelow
      OBVIOUS
    <2>1. text \in Texts
      <3> DEFINE B == Bytes
      <3>1. text \in Seq(B) /\ B \subseteq Nat
        BY DEF TextType, Bytes
      <3> HIDE DEF B
      <3> QED
        BY <3>1, SeqOfNumbers, Zenon DEF Texts
    <2>2. is_valid_path(text) <=>
            ToSet(text) \cap {0, Backslash} = {} /\ Resolved(text) # Above
      <3> DEFINE cs == Components(text)
      <3>1. cs \in Seq(PathNames)
        BY <2>1, ComponentsConcat
      <3>2. /\ is_valid_path(text) <=>
                 /\ ~\E i \in DOMAIN text : text[i] \in {0, Backslash}
                 /\ Level(cs) >= 0
            /\ Resolved(text) = ResolvedTo(cs)
        BY PathFolds, Zenon
      <3>3. (~\E i \in DOMAIN text : text[i] \in {0, Backslash})
              <=> ToSet(text) \cap {0, Backslash} = {}
        BY DEF ToSet
      <3> HIDE DEF cs
      <3>4. Level(cs) >= 0 <=> ResolvedTo(cs) # Above
        <4>1. Above \notin Seq(PathNames)
          <5> SUFFICES ASSUME Above \in Seq(PathNames) PROVE FALSE
            OBVIOUS
          <5>1. 1 \in 1 .. Len(Above) /\ Above[1] = <<>>
            BY DEF Above
          <5>2. Above[1] \in PathNames
            BY <5>1, ElementOfSeq
          <5> QED
            BY <5>1, <5>2, Zenon DEF PathNames
        <4>2. CASE Level(cs) = -1 /\ ResolvedTo(cs) = Above
          BY <4>2
        <4>3. CASE Level(cs) \in Nat /\ ResolvedTo(cs) \in Seq(PathNames)
          BY <4>1, <4>3
        <4> QED
          BY <3>1, <4>2, <4>3, LevelResolved
      <3> QED
        BY <3>2, <3>3, <3>4, Zenon
    <2> QED
      BY <2>1, <2>2, FileServed, RedirectLeads, Zenon DEF PathsStayBelow
  <1> QED
    BY <1>1, TextTyped, PTL

-----------------------------------------------------------------------------
(***************************************************************************)
(* Decimal numbers.                                                        *)
(***************************************************************************)
\* The digits of m, when f has those of the numbers before.
DecimalFrom(f, m) == (IF m < 10 THEN <<>> ELSE f[m \div 10]) \o <<48 + (m % 10)>>

IsDecimal(f, n) ==
  \A m \in 0 .. n : f[m] \in Seq(Digits) /\ f[m] = DecimalFrom(f, m)

\* There is such a function.
LEMMA DecimalUnfolds ==
  ASSUME NEW n \in Nat
  PROVE  \E f : Decimal(n) = f[n] /\ IsDecimal(f, n)
  <1> DEFINE V == Seq(Digits)
             k == n + 1
             F == [1 .. k -> V]
             none == <<>>
             \* The number m has the place k - m, behind the larger ones.
             Of(f, m) == (IF m < 10 THEN none ELSE f[k - (m \div 10)]) \o <<48 + (m % 10)>>
             step == [i \in 1 .. k |-> [f \in F |-> Of(f, k - i)]]
             Fits(g) == g = [m \in 0 .. n |-> DecimalFrom(g, m)]
             it == CHOOSE g : Fits(g)
  <1>1. /\ k \in Nat /\ none \in V
        /\ \A v \in V, d \in Digits : v \o <<d>> \in V
    OBVIOUS
  <1>2. \A m \in 0 .. n : /\ 48 + (m % 10) \in Digits
                          /\ m >= 10 => m \div 10 \in 0 .. n /\ m \div 10 < m
    BY DEF Digits
  <1>3. \A i \in 1 .. k : k - i \in 0 .. n
    OBVIOUS
  <1>4. \A m \in 0 .. n : k - m \in 1 .. k /\ k - (k - m) = m
    OBVIOUS
  <1>5. ASSUME NEW f \in F, NEW m \in 0 .. n
        PROVE  Of(f, m) \in V
    <2>1. m >= 10 => f[k - (m \div 10)] \in V
      BY <1>2, <1>4
    <2>2. (IF m < 10 THEN none ELSE f[k - (m \div 10)]) \in V
      BY <1>1, <2>1
    <2> HIDE DEF V, none
    <2> QED
      BY <1>1, <1>2, <2>2
  <1>6. ASSUME NEW i \in 1 .. k, NEW f \in F, NEW g \in F,
               \A j \in i + 1 .. k : f[j] = g[j]
        PROVE  Of(f, k - i) = Of(g, k - i)
    <2> DEFINE m == k - i
    <2>1. m \in 0 .. n /\ (m >= 10 => k - (m \div 10) \in i + 1 .. k)
      <3>1. m \in 0 .. n /\ i = k - m
        BY <1>3
      <3>2. m >= 10 => m \div 10 \in 0 .. n /\ m \div 10 < m
        BY <1>2, <3>1
      <3> HIDE DEF m
      <3> QED
        BY <3>1, <3>2
    <2>2. m >= 10 => f[k - (m \div 10)] = g[k - (m \div 10)]
      BY <1>6, <2>1
    <2> HIDE DEF m
    <2>3. ~(m < 10) => m >= 10
      BY <2>1
    <2>4. Of(f, m) = Of(g, m)
      BY <2>2, <2>3, Zenon
    <2> QED
      BY <2>4, Zenon DEF m
  <1>7. \A i \in 1 .. k, f \in F : step[i][f] = Of(f, k - i)
    BY Zenon
  <1>8. step \in [1 .. k -> [F -> V]]
    BY <1>3, <1>5, Zenon
  <1> HIDE DEF step, V, none, Of
  <1>9. LooksAhead(step, k, V)
    <2>1. ASSUME NEW i \in 1 .. k, NEW f \in F, NEW g \in F,
                 \A j \in i + 1 .. k : f[j] = g[j]
          PROVE  step[i][f] = step[i][g]
      <3>1. Of(f, k - i) = Of(g, k - i)
        BY <1>6, <2>1
      <3> HIDE DEF k, F
      <3> QED
        BY <1>7, <3>1, Zenon
    <2> HIDE DEF k
    <2> QED
      BY <1>8, <2>1, Zenon DEF LooksAhead
  <1>10. PICK h \in F : \A i \in 1 .. k : h[i] = Of(h, k - i)
    <2> HIDE DEF k
    <2>1. PICK h : IsRecursion(h, step, k, V)
      BY <1>1, <1>9, BackwardRecursion
    <2> QED
      BY <1>7, <2>1, Zenon DEF IsRecursion
  <1> DEFINE g == [m \in 0 .. n |-> h[k - m]]
  <1>11. \A m \in 0 .. n : g[m] = DecimalFrom(g, m)
    <2> SUFFICES ASSUME NEW m \in 0 .. n PROVE g[m] = DecimalFrom(g, m)
      OBVIOUS
    <2>1. h[k - m] = Of(h, m)
      BY <1>4, <1>10
    <2>2. g[m] = h[k - m]
      OBVIOUS
    <2>3. m >= 10 => g[m \div 10] = h[k - (m \div 10)]
      BY <1>2
    <2>4. ~(m < 10) => m >= 10
      OBVIOUS
    <2> HIDE DEF g
    <2> QED
      BY <2>1, <2>2, <2>3, <2>4, Zenon DEF Of, DecimalFrom, none
  <1>12. Fits(g)
    <2>1. g = [m \in 0 .. n |-> g[m]]
      OBVIOUS
    <2> HIDE DEF g
    <2> QED
      BY <1>11, <2>1, Zenon
  <1> HIDE DEF g
  <1>13. Fits(it)
    <2> HIDE DEF Fits
    <2> QED
      BY <1>12, Zenon
  <1>14. \A m \in 0 .. n : it[m] = DecimalFrom(it, m)
    <2> HIDE DEF it
    <2> QED
      BY <1>13, Zenon
  <1>15. Decimal(n) = it[n]
    BY Zenon DEF Decimal, DecimalFrom
  <1> HIDE DEF it
  <1> DEFINE T == {j \in Nat : \A m \in 0 .. n : m <= j => it[m] \in V}
  <1>16. \A d \in Digits : none \o <<d>> \in V
    BY <1>1, Zenon
  <1>17. 0 \in T
    <2>1. ASSUME NEW m \in 0 .. n, m <= 0
          PROVE  it[m] \in V
      <3>1. m < 10 /\ 48 + (m % 10) \in Digits
        BY <1>2, <2>1
      <3>2. it[m] = none \o <<48 + (m % 10)>>
        BY <1>14, <3>1, Zenon DEF DecimalFrom, none
      <3> QED
        BY <1>16, <3>1, <3>2
    <2> QED
      BY <2>1
  <1>18. ASSUME NEW j \in Nat, j \in T
         PROVE  j + 1 \in T
    <2> SUFFICES ASSUME NEW m \in 0 .. n, m <= j + 1 PROVE it[m] \in V
      OBVIOUS
    <2>1. 48 + (m % 10) \in Digits
      BY <1>2
    <2>2. CASE m < 10
      <3>1. it[m] = none \o <<48 + (m % 10)>>
        BY <1>14, <2>2, Zenon DEF DecimalFrom, none
      <3> QED
        BY <1>16, <2>1, <3>1
    <2>3. CASE ~(m < 10)
      <3>1. m \div 10 \in 0 .. n /\ m \div 10 <= j
        <4>1. m >= 10
          BY <2>3
        <4>2. m \div 10 \in 0 .. n /\ m \div 10 < m
          BY <1>2, <4>1
        <4> QED
          BY <4>2
      <3>2. it[m \div 10] \in V
        BY <1>18, <3>1
      <3>3. it[m] = it[m \div 10] \o <<48 + (m % 10)>>
        BY <1>14, <2>3, Zenon DEF DecimalFrom
      <3> QED
        BY <1>1, <2>1, <3>2, <3>3
    <2> QED
      BY <2>2, <2>3
  <1>19. n \in T
    <2> HIDE DEF T
    <2> QED
      BY <1>17, <1>18, NatSetInduction
  <1>20. \A m \in 0 .. n : it[m] \in Seq(Digits)
    BY <1>19 DEF V
  <1> QED
    BY <1>14, <1>15, <1>20, Zenon DEF IsDecimal

NumberStep(v, c) == 10 * v + (c - 48)

\* The number that decimal digits say.
LEMMA NumberIs ==
  /\ NumberOf(<<>>) = 0
  /\ \A s \in Seq(Digits) : NumberOf(s) \in Nat
  /\ \A s \in Seq(Digits), e \in Digits :
       NumberOf(Append(s, e)) = NumberStep(NumberOf(s), e)
  <1> DEFINE V == Nat
             N == Digits
             none == 0
             step == [e \in N |-> [v \in V |-> NumberStep(v, e)]]
  <1>1. none \in V /\ \A v \in V, e \in N : NumberStep(v, e) \in V
    BY DEF NumberStep, Digits
  <1> HIDE DEF V, N, none
  <1>2. step \in [N -> [V -> V]]
    BY <1>1
  <1>3. \A e \in N, v \in V : step[e][v] = NumberStep(v, e)
    OBVIOUS
  <1> HIDE DEF step
  <1>4. ASSUME NEW s \in Seq(N)
        PROVE  NumberOf(s) = Folded(s, V, none, step)
    <2> DEFINE Fold(g) == g = [u \in SUBSET DOMAIN s |->
                                IF u = {} THEN none
                                ELSE NumberStep(g[u \ {Max(u)}], s[Max(u)])]
               it == CHOOSE g : Fold(g)
    <2>1. NumberOf(s) = it[DOMAIN s]
      BY Zenon DEF NumberOf, NumberStep, FoldLeft, MapThenFoldSet, none
    <2>2. PICK g \in [SUBSET DOMAIN s -> V] : IsSetFold(g, s, none, step)
      BY <1>1, <1>2, SetFoldExists, Zenon
    <2>3. ASSUME NEW u \in SUBSET DOMAIN s, u # {}
          PROVE  s[Max(u)] \in N
      <3>1. Len(s) \in Nat /\ DOMAIN s = 1 .. Len(s)
        BY LenProperties
      <3>2. Max(u) \in 1 .. Len(s)
        BY <2>3, <3>1, MaxOfSubset, Zenon
      <3> QED
        BY <3>2, ElementOfSeq
    <2>4. ASSUME NEW u \in SUBSET DOMAIN s
          PROVE  g[u] = IF u = {} THEN none ELSE NumberStep(g[u \ {Max(u)}], s[Max(u)])
      <3>1. u # {} => g[u] = step[s[Max(u)]][g[u \ {Max(u)}]]
        BY <2>2 DEF IsSetFold
      <3>2. g[{}] = none /\ g[u \ {Max(u)}] \in V
        BY <2>2 DEF IsSetFold
      <3> QED
        BY <1>3, <2>3, <3>1, <3>2, Zenon
    <2>5. Fold(g)
      <3>1. g = [u \in SUBSET DOMAIN s |-> g[u]]
        OBVIOUS
      <3> QED
        BY <2>4, <3>1, Zenon
    <2>6. Fold(it)
      <3> HIDE DEF Fold
      <3> QED
        BY <2>5, Zenon
    <2>7. \A u \in SUBSET DOMAIN s :
            it[u] = IF u = {} THEN none ELSE NumberStep(it[u \ {Max(u)}], s[Max(u)])
      <3> HIDE DEF it
      <3> QED
        BY <2>6, Zenon
    <2> HIDE DEF it
    <2>8. FitsFold(it, s, V, none, step)
      BY <1>3, <2>3, <2>7, Zenon DEF FitsFold
    <2>9. it[DOMAIN s] = Folded(s, V, none, step)
      BY <1>1, <1>2, <2>8, SetFoldIs
    <2> QED
      BY <2>1, <2>9, Zenon
  <1>5. /\ Folded(<<>>, V, none, step) = none
        /\ \A s \in Seq(N) : Folded(s, V, none, step) \in V
        /\ \A s \in Seq(N), e \in N :
             Folded(Append(s, e), V, none, step) = step[e][Folded(s, V, none, step)]
    BY <1>1, <1>2, FoldedIs
  <1>6. <<>> \in Seq(N) /\ \A s \in Seq(N), e \in N : Append(s, e) \in Seq(N)
    BY EmptySeq, AppendProperties
  <1>7. NumberOf(<<>>) = none
    BY <1>4, <1>5, <1>6, Zenon
  <1>8. \A s \in Seq(N) : NumberOf(s) \in V
    BY <1>4, <1>5, Zenon
  <1>9. ASSUME NEW s \in Seq(N), NEW e \in N
        PROVE  NumberOf(Append(s, e)) = NumberStep(NumberOf(s), e)
    <2>1. NumberOf(Append(s, e)) = step[e][NumberOf(s)]
      BY <1>4, <1>5, <1>6, Zenon
    <2> QED
      BY <1>3, <1>8, <2>1
  <1> QED
    BY <1>7, <1>8, <1>9, Zenon DEF V, N, none

\* Written in decimal, a number can be read again.
LEMMA DecimalIs ==
  ASSUME NEW n \in Nat
  PROVE  Decimal(n) \in Seq(Digits) /\ Decimal(n) # <<>> /\ NumberOf(Decimal(n)) = n
  <1>1. PICK f : Decimal(n) = f[n] /\ IsDecimal(f, n)
    BY DecimalUnfolds
  <1> DEFINE D == Digits
             none == <<>>
             Reads(m) == f[m] # <<>> /\ NumberOf(f[m]) = m
             T == {j \in Nat : \A m \in 0 .. n : m <= j => Reads(m)}
  <1>2. /\ NumberOf(none) = 0
        /\ \A s \in Seq(D), e \in D : NumberOf(Append(s, e)) = NumberStep(NumberOf(s), e)
    BY NumberIs
  <1>3. \A m \in 0 .. n : /\ 48 + (m % 10) \in D
                          /\ m >= 10 => m \div 10 \in 0 .. n /\ m \div 10 < m
                          /\ m < 10 => NumberStep(0, 48 + (m % 10)) = m
                          /\ NumberStep(m \div 10, 48 + (m % 10)) = m
    BY DEF Digits, NumberStep
  <1>4. /\ none \in Seq(D)
        /\ \A s \in Seq(D), e \in D : s \o <<e>> = Append(s, e) /\ Append(s, e) # <<>>
    OBVIOUS
  <1>5. \A m \in 0 .. n :
          /\ f[m] \in Seq(D)
          /\ m < 10 => f[m] = none \o <<48 + (m % 10)>>
          /\ ~(m < 10) => f[m] = f[m \div 10] \o <<48 + (m % 10)>>
    BY <1>1, Zenon DEF IsDecimal, DecimalFrom
  <1> HIDE DEF D, none, Reads
  <1>6. ASSUME NEW m \in 0 .. n, m < 10
        PROVE  Reads(m)
    <2> DEFINE e == 48 + (m % 10)
    <2>1. e \in D /\ NumberStep(0, e) = m /\ f[m] = none \o <<e>>
      BY <1>3, <1>5, <1>6, Zenon
    <2> HIDE DEF e
    <2>2. f[m] = Append(none, e) /\ f[m] # <<>>
      BY <1>4, <2>1, Zenon
    <2>3. NumberOf(f[m]) = m
      BY <1>2, <1>4, <2>1, <2>2, Zenon
    <2> QED
      BY <2>2, <2>3, Zenon DEF Reads
  <1>7. ASSUME NEW m \in 0 .. n, ~(m < 10), Reads(m \div 10)
        PROVE  Reads(m)
    <2> DEFINE e == 48 + (m % 10)
               k == m \div 10
    <2>1. m >= 10
      BY <1>7
    <2>2. /\ e \in D /\ NumberStep(k, e) = m /\ k \in 0 .. n
          /\ f[m] = f[k] \o <<e>>
      BY <1>3, <1>5, <1>7, <2>1, Zenon
    <2>3. f[k] \in Seq(D) /\ NumberOf(f[k]) = k
      BY <1>5, <1>7, <2>2, Zenon DEF Reads
    <2> HIDE DEF e, k
    <2>4. f[m] = Append(f[k], e) /\ f[m] # <<>>
      BY <1>4, <2>2, <2>3, Zenon
    <2>5. NumberOf(f[m]) = m
      BY <1>2, <2>2, <2>3, <2>4, Zenon
    <2> QED
      BY <2>4, <2>5, Zenon DEF Reads
  <1>8. 0 \in T
    BY <1>6
  <1>9. ASSUME NEW j \in Nat, j \in T
        PROVE  j + 1 \in T
    <2> SUFFICES ASSUME NEW m \in 0 .. n, m <= j + 1 PROVE Reads(m)
      OBVIOUS
    <2>1. m >= 10 => Reads(m \div 10)
      <3>1. m >= 10 => m \div 10 \in 0 .. n /\ m \div 10 <= j
        BY <1>3
      <3> QED
        BY <1>9, <3>1
    <2>2. ~(m < 10) => m >= 10
      OBVIOUS
    <2> QED
      BY <1>6, <1>7, <2>1, <2>2, Zenon
  <1>10. n \in T
    <2> HIDE DEF T
    <2> QED
      BY <1>8, <1>9, NatSetInduction
  <1>11. Reads(n)
    BY <1>10
  <1>12. f[n] \in Seq(Digits)
    <2>1. n \in 0 .. n
      OBVIOUS
    <2> QED
      BY <1>5, <2>1, Zenon DEF D
  <1> QED
    BY <1>1, <1>11, <1>12, Zenon DEF Reads

-----------------------------------------------------------------------------
(***************************************************************************)
(* One range, written and read.                                            *)
(***************************************************************************)
Bounds == {b \in Nat : b <= LongMax} \cup {None}

\* What can be asked for.
Asked == {r \in Bounds \X Bounds :
            /\ r[1] # None \/ r[2] # None
            /\ r[1] # None /\ r[2] # None => r[1] <= r[2]}

BoundText(b) == IF b = None THEN <<>> ELSE Decimal(b)
BoundOf(t) == IF t = <<>> THEN None ELSE NumberOf(t)
RangeOf(p) == <<BoundOf(Divide(p, Minus)[1]), BoundOf(Divide(p, Minus)[2])>>

\* A bound is written as nothing or as a number that can be read.
LEMMA BoundIs ==
  ASSUME NEW b \in Bounds
  PROVE  /\ BoundText(b) \in Seq(Digits) /\ IsNumber(BoundText(b))
         /\ BoundOf(BoundText(b)) = b
         /\ BoundText(b) = <<>> <=> b = None
         /\ b # None => NumberOf(BoundText(b)) = b
  <1> DEFINE t == BoundText(b)
  <1>1. CASE b = None
    <2>1. t = <<>>
      BY <1>1, Zenon DEF BoundText
    <2>2. t \in Seq(Digits) /\ ToSet(t) = {}
      BY <2>1, EmptySeq DEF ToSet
    <2>3. NumberOf(t) = 0 /\ 0 <= LongMax
      BY <2>1, NumberIs, LongMaxAssumption
    <2> HIDE DEF t
    <2>4. ToSet(t) \subseteq Digits /\ NumberOf(t) <= LongMax
      BY <2>2, <2>3
    <2> QED
      BY <1>1, <2>1, <2>2, <2>4, Zenon DEF IsNumber, BoundOf, t
  <1>2. CASE b # None
    <2>1. b \in Nat /\ b <= LongMax
      BY <1>2 DEF Bounds
    <2>2. t = Decimal(b)
      BY <1>2, Zenon DEF BoundText
    <2>3. t \in Seq(Digits) /\ t # <<>> /\ NumberOf(t) = b
      BY <2>1, <2>2, DecimalIs
    <2> HIDE DEF t
    <2>4. ToSet(t) \subseteq Digits
      <3>1. DOMAIN t = 1 .. Len(t) /\ \A i \in 1 .. Len(t) : t[i] \in Digits
        BY <2>3, LenProperties, ElementOfSeq
      <3> QED
        BY <3>1 DEF ToSet
    <2>5. IsNumber(t)
      BY <2>1, <2>3, <2>4, Zenon DEF IsNumber
    <2>6. BoundOf(t) = b
      BY <2>3, Zenon DEF BoundOf
    <2> QED
      BY <1>2, <2>3, <2>5, <2>6, Zenon DEF t
  <1> QED
    BY <1>1, <1>2

RangeBytes == Digits \cup {Minus}

\* A range is written as a text that is one range.
LEMMA RangeWritten ==
  ASSUME NEW r \in Asked
  PROVE  /\ RangeText(r) \in Seq(RangeBytes) /\ RangeText(r) # <<>>
         /\ Len(RangeText(r)) >= 2
         /\ IsRange(RangeText(r)) /\ RangeOf(RangeText(r)) = r
  <1> DEFINE B == RangeBytes
             x == BoundText(r[1])
             y == BoundText(r[2])
             o == <<Minus>>
             p == RangeText(r)
             N == Nat
             L == Nat \ {Minus}
  <1>1. /\ r[1] \in Bounds /\ r[2] \in Bounds /\ r = <<r[1], r[2]>>
        /\ r[1] # None \/ r[2] # None
        /\ r[1] # None /\ r[2] # None => r[1] <= r[2]
    BY DEF Asked
  <1>2. /\ x \in Seq(Digits) /\ IsNumber(x) /\ BoundOf(x) = r[1]
        /\ x = <<>> <=> r[1] = None
        /\ r[1] # None => NumberOf(x) = r[1]
    BY <1>1, BoundIs
  <1>3. /\ y \in Seq(Digits) /\ IsNumber(y) /\ BoundOf(y) = r[2]
        /\ y = <<>> <=> r[2] = None
        /\ r[2] # None => NumberOf(y) = r[2]
    BY <1>1, BoundIs
  <1>4. p = (x \o o) \o y
    BY Zenon DEF RangeText, BoundText
  <1>5. /\ Digits \subseteq B /\ Digits \subseteq N /\ Digits \subseteq L /\ Minus \in B
        /\ Minus \in N /\ B \subseteq N
    BY DEF RangeBytes, Digits, Minus
  <1> HIDE DEF x, y, p, B, N, L
  <1>6. x \in Seq(B) /\ y \in Seq(B) /\ x \in Seq(L) /\ y \in Seq(N)
    BY <1>2, <1>3, <1>5, SeqMonotonic
  <1>7. o \in Seq(B) /\ Len(o) = 1 /\ o[1] = Minus
    BY <1>5
  <1>8. ThreeAsOne(B, x, o, y)
    <2>1. Three(B, x, o, y)
      BY <1>6, <1>7, Zenon DEF Three
    <2> QED
      BY <2>1, ConcatThree
  <1> HIDE DEF o
  <1>9. p = x \o (o \o y) /\ p \in Seq(B)
    BY <1>4, <1>8, Zenon DEF ThreeAsOne
  <1>10. Divide(p, Minus) = <<x, y>>
    <2>1. Divide(x \o (<<Minus>> \o y), Minus) = <<x, y>>
      BY <1>5, <1>6, DivideIs, Zenon DEF N, L
    <2> QED
      BY <1>9, <2>1, Zenon DEF o
  <1>11. /\ Divide(p, Minus)[1] = x /\ Divide(p, Minus)[2] = y
         /\ RangeOf(p) = <<BoundOf(x), BoundOf(y)>>
    BY <1>10 DEF RangeOf
  <1>12. Minus \in ToSet(p) /\ Len(p) >= 2
    <2>1. /\ p \in Seq(B) /\ Len(p) = Len(x) + (1 + Len(y))
          /\ p[Len(x) + 1] = Minus /\ Len(x) \in Nat /\ Len(y) \in Nat
      <3>1. /\ o \o y \in Seq(B) /\ Len(o \o y) = 1 + Len(y) /\ (o \o y)[1] = Minus
            /\ Len(x) \in Nat /\ Len(y) \in Nat
        BY <1>6, <1>7, ConcatProperties, LenProperties
      <3> DEFINE q == o \o y
      <3> HIDE DEF q
      <3>2. q \in Seq(B) /\ Len(q) = 1 + Len(y) /\ q[1] = Minus /\ p = x \o q
        BY <1>9, <3>1 DEF q
      <3>3. /\ p \in Seq(B) /\ Len(p) = Len(x) + Len(q)
            /\ \A i \in 1 .. Len(x) + Len(q) :
                 p[i] = IF i <= Len(x) THEN x[i] ELSE q[i - Len(x)]
        <4>1. /\ x \o q \in Seq(B) /\ Len(x \o q) = Len(x) + Len(q)
              /\ \A i \in 1 .. Len(x) + Len(q) :
                   (x \o q)[i] = IF i <= Len(x) THEN x[i] ELSE q[i - Len(x)]
          <5>1. x \in Seq(B) /\ q \in Seq(B)
            BY <1>6, <3>2, Zenon
          <5> QED
            BY <5>1, ConcatProperties
        <4> QED
          BY <3>2, <4>1, Zenon
      <3> DEFINE n == Len(x)
                 m == Len(y)
      <3>4. n \in Nat /\ m \in Nat
        BY <3>1
      <3> HIDE DEF n, m
      <3>5. n + 1 \in 1 .. n + (1 + m) /\ ~(n + 1 <= n) /\ n + 1 - n = 1
        BY <3>4
      <3>6. Len(p) = n + (1 + m) /\ p[n + 1] = q[1]
        BY <3>2, <3>3, <3>5 DEF n, m
      <3> QED
        BY <3>2, <3>3, <3>4, <3>6 DEF n, m
    <2>2. Len(x) # 0 \/ Len(y) # 0
      BY <1>1, <1>2, <1>3, EmptySeq
    <2>3. Len(x) + 1 \in DOMAIN p
      BY <2>1, LenProperties
    <2> QED
      BY <2>1, <2>2, <2>3 DEF ToSet
  <1>13. x # <<>> \/ y # <<>>
    BY <1>1, <1>2, <1>3, Zenon
  <1>14. x # <<>> /\ y # <<>> => NumberOf(x) <= NumberOf(y)
    BY <1>1, <1>2, <1>3
  <1>15. IsRange(p)
    BY <1>2, <1>3, <1>11, <1>12, <1>13, <1>14, Zenon DEF IsRange
  <1>16. p # <<>>
    BY <1>12, EmptySeq
  <1>17. RangeOf(p) = r
    BY <1>1, <1>2, <1>3, <1>11
  <1> QED
    BY <1>9, <1>12, <1>15, <1>16, <1>17, Zenon DEF p, B

\* What is read as a range can be asked for.
LEMMA RangeRead ==
  ASSUME NEW p \in Texts, IsRange(p)
  PROVE  RangeOf(p) \in Asked
  <1> DEFINE d == Divide(p, Minus)
             x == d[1]
             y == d[2]
  <1>1. /\ IsNumber(x) /\ IsNumber(y)
        /\ x # <<>> \/ y # <<>>
        /\ x # <<>> /\ y # <<>> => NumberOf(x) <= NumberOf(y)
        /\ Minus \in ToSet(p)
    BY Zenon DEF IsRange
  <1>2. \E a \in Texts, b \in Texts : d = <<a, b>>
    <2>1. p \in Seq(Nat) /\ Len(p) \in Nat /\ DOMAIN p = 1 .. Len(p)
      BY LenProperties DEF Texts
    <2> DEFINE P(i) == p[i] = Minus
               at == {i \in 1 .. Len(p) : P(i)}
               k == CHOOSE i \in at : \A j \in at : i <= j
    <2>2. PICK i0 \in 1 .. Len(p) : P(i0)
      BY <1>1, <2>1 DEF ToSet
    <2>3. at \in SUBSET Nat /\ at # {}
      BY <2>2
    <2>4. PICK i \in at : \A j \in at : i <= j
      <3> HIDE DEF at
      <3> QED
        BY <2>3, LeastNumber
    <2>5. i \in 1 .. Len(p) /\ p[i] = Minus /\ \A j \in 1 .. i - 1 : p[j] # Minus
      BY <2>1, <2>4
    <2>6. Find(p, Minus) = i
      BY <2>1, <2>5, FindIs
    <2>7. i # 0
      BY <2>5
    <2>8. d = <<SubSeq(p, 1, i - 1), SubSeq(p, i + 1, Len(p))>>
      BY <2>6, <2>7, Zenon DEF Divide
    <2>9. SubSeq(p, 1, i - 1) \in Seq(Nat) /\ SubSeq(p, i + 1, Len(p)) \in Seq(Nat)
      <3> DEFINE n == Len(p)
      <3>1. n \in Nat /\ i \in 1 .. n
        BY <2>1, <2>5
      <3> HIDE DEF n
      <3>2. /\ 1 \in 1 .. n + 1 /\ i - 1 \in 1 - 1 .. n
            /\ i + 1 \in 1 .. n + 1 /\ n \in i + 1 - 1 .. n
        BY <3>1
      <3> QED
        BY <2>1, <3>2, PieceOf DEF n
    <2> QED
      BY <2>8, <2>9, Zenon DEF Texts
  <1>3. x \in Texts /\ y \in Texts
    BY <1>2
  <1> HIDE DEF d
  <1>4. ASSUME NEW t \in Texts, IsNumber(t)
        PROVE  /\ BoundOf(t) \in Bounds
               /\ t = <<>> <=> BoundOf(t) = None
               /\ t # <<>> => BoundOf(t) = NumberOf(t)
    <2>1. t \in Seq(Digits)
      <3>1. t \in Seq(Nat) /\ \A i \in 1 .. Len(t) : t[i] \in Digits
        <4>1. t \in Seq(Nat) /\ DOMAIN t = 1 .. Len(t)
          BY LenProperties DEF Texts
        <4>2. \A i \in DOMAIN t : t[i] \in Digits
          BY <1>4 DEF IsNumber, ToSet
        <4> QED
          BY <4>1, <4>2
      <3> QED
        BY <3>1, SeqInSubset
    <2>2. NumberOf(t) \in Nat /\ NumberOf(t) <= LongMax
      BY <1>4, <2>1, NumberIs DEF IsNumber
    <2>3. None \notin Nat
      BY DEF None
    <2> QED
      BY <2>2, <2>3 DEF BoundOf, Bounds
  <1>5. RangeOf(p) = <<BoundOf(x), BoundOf(y)>>
    BY Zenon DEF RangeOf, d
  <1> HIDE DEF x, y
  <1> DEFINE a == BoundOf(x)
             b == BoundOf(y)
  <1>6. /\ a \in Bounds /\ b \in Bounds
        /\ a # None \/ b # None
        /\ a # None /\ b # None => a <= b
    BY <1>1, <1>3, <1>4, Zenon
  <1> HIDE DEF a, b
  <1>7. <<a, b>> \in Asked
    BY <1>6 DEF Asked
  <1> QED
    BY <1>5, <1>7 DEF a, b

-----------------------------------------------------------------------------
(***************************************************************************)
(* The ranges of a header.                                                 *)
(***************************************************************************)
\* What g makes of each element at its place.
ByPlace(s, g) == [i \in DOMAIN s |-> g[i][s[i]]]

MakesByPlace(g, S, V) == g \in [Nat -> [S -> V]]

\* An element more, a result more.
LEMMA ByPlaceIs ==
  ASSUME NEW S, NEW V, NEW g, MakesByPlace(g, S, V)
  PROVE  /\ ByPlace(<<>>, g) = <<>>
         /\ \A s \in Seq(S) : ByPlace(s, g) \in Seq(V)
         /\ \A s \in Seq(S), e \in S :
              ByPlace(Append(s, e), g) = Append(ByPlace(s, g), g[Len(s) + 1][e])
  <1>1. \A i \in Nat, e \in S : g[i][e] \in V
    BY DEF MakesByPlace
  <1>2. ASSUME NEW s \in Seq(S)
        PROVE  /\ ByPlace(s, g) \in Seq(V) /\ Len(ByPlace(s, g)) = Len(s)
               /\ \A i \in 1 .. Len(s) : ByPlace(s, g)[i] = g[i][s[i]]
               /\ Len(s) \in Nat
    <2>1. /\ Len(s) \in Nat /\ DOMAIN s = 1 .. Len(s)
          /\ \A i \in 1 .. Len(s) : s[i] \in S
      BY LenProperties, ElementOfSeq
    <2>2. \A i \in 1 .. Len(s) : g[i][s[i]] \in V
      BY <1>1, <2>1
    <2> QED
      BY <2>1, <2>2 DEF ByPlace
  <1>3. ByPlace(<<>>, g) = <<>>
    BY <1>2, EmptySeq, Zenon
  <1>4. ASSUME NEW s \in Seq(S), NEW e \in S
        PROVE  ByPlace(Append(s, e), g) = Append(ByPlace(s, g), g[Len(s) + 1][e])
    <2> DEFINE n == Len(s)
               u == Append(s, e)
               l == g[n + 1][e]
               a == ByPlace(u, g)
               c == ByPlace(s, g)
               b == Append(c, l)
    <2>1. /\ u \in Seq(S) /\ Len(u) = n + 1 /\ n \in Nat
          /\ \A i \in 1 .. n : u[i] = s[i]
          /\ u[n + 1] = e
      BY AppendProperties, LenProperties
    <2>2. l \in V
      BY <1>1, <2>1
    <2> HIDE DEF u
    <2>3. /\ a \in Seq(V) /\ Len(a) = n + 1
          /\ \A i \in 1 .. n + 1 : a[i] = g[i][u[i]]
          /\ c \in Seq(V) /\ Len(c) = n
          /\ \A i \in 1 .. n : c[i] = g[i][s[i]]
      BY <1>2, <2>1
    <2> HIDE DEF a, c, l, n
    <2>4. /\ b \in Seq(V) /\ Len(b) = n + 1
          /\ \A i \in 1 .. n : b[i] = c[i]
          /\ b[n + 1] = l
      BY <2>2, <2>3, AppendProperties
    <2> HIDE DEF b
    <2>5. ASSUME NEW i \in 1 .. n + 1
          PROVE  a[i] = b[i]
      <3>1. a[i] = g[i][u[i]]
        BY <2>3
      <3>2. CASE i = n + 1
        BY <2>1, <2>4, <3>1, <3>2, Zenon DEF l
      <3>3. CASE i # n + 1
        <4>1. i \in 1 .. n
          BY <2>1, <3>3
        <4> QED
          BY <2>1, <2>3, <2>4, <3>1, <4>1, Zenon
      <3> QED
        BY <3>2, <3>3
    <2>6. a = b
      BY <2>3, <2>4, <2>5, SeqEqual
    <2> QED
      BY <2>6, Zenon DEF a, b, c, l, u, n
  <1> QED
    BY <1>2, <1>3, <1>4, Zenon

\* What stands before a range, and what is left of it when the commas are gone.
Lead(i) == IF i = 1 THEN <<>> ELSE <<Comma, Space>>
Blank(i) == IF i = 1 THEN <<>> ELSE <<Space>>

ListBytes == RangeBytes \cup {Comma, Space}

LedTexts == [i \in Nat |-> [r \in Asked |-> Lead(i) \o RangeText(r)]]
BlankTexts == [i \in Nat |-> [r \in Asked |-> Blank(i) \o RangeText(r)]]
Listed(rs) == FlattenSeq(ByPlace(rs, LedTexts))

\* What the parts of a header are made of.
LEMMA LedIs ==
  ASSUME NEW r \in Asked, NEW i \in Nat
  PROVE  /\ RangeText(r) \in Seq(ListBytes) /\ RangeText(r) \in Seq(RangeBytes)
         /\ Lead(i) \o RangeText(r) \in Seq(ListBytes)
         /\ Blank(i) \o RangeText(r) \in Seq(ListBytes \ {Comma})
         /\ Blank(i) \o RangeText(r) \in Seq(ListBytes)
         /\ Lead(1) \o RangeText(r) = RangeText(r)
         /\ Blank(1) \o RangeText(r) = RangeText(r)
         /\ i # 1 => Lead(i) \o RangeText(r) = <<Comma>> \o (Blank(i) \o RangeText(r))
         /\ Len(RangeText(r)) >= 2
  <1> DEFINE L == ListBytes
             M == ListBytes \ {Comma}
             t == RangeText(r)
             o == <<Comma>>
             b == <<Space>>
             e == <<>>
  <1>1. RangeBytes \subseteq L /\ RangeBytes \subseteq M /\ M \subseteq L
        /\ Comma \in L /\ Space \in L /\ Space \in M
    BY DEF ListBytes, RangeBytes, Digits, Minus, Comma, Space
  <1>2. t \in Seq(RangeBytes) /\ Len(t) >= 2
    BY RangeWritten
  <1> HIDE DEF L, M, t
  <1>3. t \in Seq(L) /\ t \in Seq(M)
    BY <1>1, <1>2, SeqMonotonic
  <1>4. o \in Seq(L) /\ b \in Seq(L) /\ b \in Seq(M) /\ <<Comma, Space>> = o \o b
    BY <1>1
  <1>5. e \o t = t
    BY <1>3, ConcatEmptySeq
  <1> HIDE DEF o, b, e
  <1>6. b \o t \in Seq(M) /\ b \o t \in Seq(L)
    BY <1>3, <1>4, ConcatProperties
  <1>7. ThreeAsOne(L, o, b, t)
    <2>1. Three(L, o, b, t)
      BY <1>3, <1>4, Zenon DEF Three
    <2> QED
      BY <2>1, ConcatThree
  <1>8. (o \o b) \o t = o \o (b \o t) /\ o \o (b \o t) \in Seq(L)
    BY <1>7, Zenon DEF ThreeAsOne
  <1>9. Lead(1) = e /\ Blank(1) = e
    BY Zenon DEF Lead, Blank, e
  <1>10. i # 1 => Lead(i) = o \o b /\ Blank(i) = b
    BY <1>4, Zenon DEF Lead, Blank, b
  <1>11. i = 1 => /\ Lead(i) \o t \in Seq(L) /\ Blank(i) \o t \in Seq(M)
                  /\ Blank(i) \o t \in Seq(L)
    BY <1>3, <1>5, <1>9, Zenon
  <1>12. i # 1 => /\ Lead(i) \o t \in Seq(L) /\ Blank(i) \o t \in Seq(M)
                  /\ Blank(i) \o t \in Seq(L)
                  /\ Lead(i) \o t = o \o (Blank(i) \o t)
    BY <1>6, <1>8, <1>10, Zenon
  <1> QED
    BY <1>2, <1>3, <1>5, <1>9, <1>11, <1>12, Zenon DEF L, M, t, o

\* The header without its beginning is what the ranges are listed as.
LEMMA HeaderIs ==
  ASSUME NEW rs \in Seq(Asked)
  PROVE  make_range_header(rs) = BytesEquals \o Listed(rs)
  <1>1. DOMAIN rs = 1 .. Len(rs) /\ \A i \in 1 .. Len(rs) : i \in Nat /\ rs[i] \in Asked
    BY LenProperties, ElementOfSeq
  <1>2. \A i \in DOMAIN rs :
          LedTexts[i][rs[i]] = (IF i = 1 THEN <<>> ELSE <<Comma, Space>>) \o RangeText(rs[i])
    BY <1>1, Zenon DEF LedTexts, Lead
  <1>3. ByPlace(rs, LedTexts)
          = [i \in DOMAIN rs |->
              (IF i = 1 THEN <<>> ELSE <<Comma, Space>>) \o RangeText(rs[i])]
    BY <1>2, Zenon DEF ByPlace
  <1> QED
    BY <1>3, Zenon DEF make_range_header, Listed

\* Between the commas are the ranges, with a blank before all but the first.
LEMMA ListedPieces ==
  ASSUME NEW rs \in Seq(Asked), rs # <<>>
  PROVE  /\ Listed(rs) \in Seq(ListBytes) /\ Len(Listed(rs)) >= 2
         /\ Pieces(Listed(rs), Comma) = ByPlace(rs, BlankTexts)
  <1> DEFINE A == Asked
             B == ListBytes
             M == ListBytes \ {Comma}
             N == Nat
             V == Seq(B)
             none == <<>>
             F(s) == ByPlace(s, LedTexts)
             C(s) == ByPlace(s, BlankTexts)
             Holds(s) == /\ Listed(s) \in V /\ Len(Listed(s)) >= 2
                         /\ Pieces(Listed(s), Comma) = C(s)
             T == {s \in Seq(A) : s # <<>> => Holds(s)}
  <1>1. Comma \in B /\ Comma \in N /\ B \subseteq N
    BY DEF ListBytes, RangeBytes, Digits, Minus, Comma, Space
  <1>2. LedTexts \in [N -> [A -> V]] /\ BlankTexts \in [N -> [A -> V]]
    <2>1. \A i \in N, r \in A : /\ Lead(i) \o RangeText(r) \in V
                                /\ Blank(i) \o RangeText(r) \in V
      BY LedIs, Zenon
    <2> HIDE DEF N, A, V
    <2> QED
      BY <2>1, Zenon DEF LedTexts, BlankTexts, N, A
  <1>3. /\ F(<<>>) = <<>>
        /\ \A s \in Seq(A) : F(s) \in Seq(V)
        /\ \A s \in Seq(A), r \in A : F(Append(s, r)) = Append(F(s), LedTexts[Len(s) + 1][r])
    <2> HIDE DEF A, V
    <2>1. MakesByPlace(LedTexts, A, V)
      BY <1>2, Zenon DEF MakesByPlace, N
    <2>2. /\ ByPlace(<<>>, LedTexts) = <<>>
          /\ \A s \in Seq(A) : ByPlace(s, LedTexts) \in Seq(V)
          /\ \A s \in Seq(A), r \in A :
               ByPlace(Append(s, r), LedTexts)
                 = Append(ByPlace(s, LedTexts), LedTexts[Len(s) + 1][r])
      BY <2>1, ByPlaceIs
    <2> QED
      BY <2>2, Zenon
  <1>4. /\ C(<<>>) = <<>>
        /\ \A s \in Seq(A) : C(s) \in Seq(V)
        /\ \A s \in Seq(A), r \in A : C(Append(s, r)) = Append(C(s), BlankTexts[Len(s) + 1][r])
    <2> HIDE DEF A, V
    <2>1. MakesByPlace(BlankTexts, A, V)
      BY <1>2, Zenon DEF MakesByPlace, N
    <2>2. /\ ByPlace(<<>>, BlankTexts) = <<>>
          /\ \A s \in Seq(A) : ByPlace(s, BlankTexts) \in Seq(V)
          /\ \A s \in Seq(A), r \in A :
               ByPlace(Append(s, r), BlankTexts)
                 = Append(ByPlace(s, BlankTexts), BlankTexts[Len(s) + 1][r])
      BY <2>1, ByPlaceIs
    <2> QED
      BY <2>2, Zenon
  <1>5. /\ FlattenSeq(none) = none
        /\ \A ss \in Seq(V) : FlattenSeq(ss) \in V
        /\ \A ss \in Seq(V), s \in V : FlattenSeq(Append(ss, s)) = FlattenSeq(ss) \o s
    BY FlattenGrows
  <1>6. \A i \in N, r \in A : /\ LedTexts[i][r] = Lead(i) \o RangeText(r)
                              /\ BlankTexts[i][r] = Blank(i) \o RangeText(r)
    BY Zenon DEF LedTexts, BlankTexts
  <1>7. ASSUME NEW i \in N, NEW r \in A
        PROVE  LET l == Lead(i) \o RangeText(r)
                   b == Blank(i) \o RangeText(r)
               IN  /\ l \in V /\ b \in V /\ b \in Seq(N) /\ Pieces(b, Comma) = <<b>>
                   /\ i = 1 => l = b /\ Len(b) >= 2
                   /\ i # 1 => l = <<Comma>> \o b
    <2> DEFINE l == Lead(i) \o RangeText(r)
               b == Blank(i) \o RangeText(r)
    <2>1. l \in V /\ b \in V /\ b \in Seq(M)
      BY LedIs, Zenon
    <2>2. /\ i = 1 => l = b /\ b = RangeText(r)
          /\ Len(RangeText(r)) >= 2
      BY LedIs, Zenon
    <2>3. i # 1 => l = <<Comma>> \o b
      BY LedIs, Zenon
    <2> HIDE DEF l, b
    <2>4. \A j \in 1 .. Len(b) : b[j] # Comma
      BY <2>1, ElementOfSeq
    <2> HIDE DEF B, M
    <2>5. b \in Seq(N)
      BY <1>1, <2>1, SeqMonotonic, Zenon
    <2>6. Pieces(b, Comma) = <<b>>
      BY <1>1, <2>4, <2>5, OnePiece DEF Texts
    <2> QED
      BY <2>1, <2>2, <2>3, <2>5, <2>6, Zenon DEF l, b
  <1>8. \A s \in Seq(A) : /\ Len(s) + 1 \in N
                          /\ s = <<>> => Len(s) + 1 = 1
                          /\ s # <<>> => Len(s) + 1 # 1
    BY LenProperties, EmptySeq
  <1>9. /\ none \in Seq(A) /\ none \in Seq(V) /\ none \in V
        /\ \A s \in V : none \o s = s /\ Append(none, s) = <<s>>
    BY EmptySeq, ConcatEmptySeq
  <1> HIDE DEF A, B, M, N, V, F, C
  <1>10. none \in T
    BY <1>9
  <1>11. ASSUME NEW s \in Seq(A), NEW r \in A, s \in T
         PROVE  Append(s, r) \in T
    <2> DEFINE i == Len(s) + 1
               u == Append(s, r)
               l == Lead(i) \o RangeText(r)
               b == Blank(i) \o RangeText(r)
               x == Listed(s)
    <2>1. u \in Seq(A)
      BY AppendProperties
    <2>2. /\ i \in N
          /\ s = <<>> => i = 1
          /\ s # <<>> => i # 1
      BY <1>8
    <2>3. /\ l \in V /\ b \in V /\ b \in Seq(N) /\ Pieces(b, Comma) = <<b>>
          /\ i = 1 => l = b /\ Len(b) >= 2
          /\ i # 1 => l = <<Comma>> \o b
      <3> HIDE DEF i
      <3> QED
        BY <1>7, <2>2, Zenon
    <2>4. F(u) = Append(F(s), l) /\ C(u) = Append(C(s), b)
      BY <1>3, <1>4, <1>6, <2>2, Zenon
    <2>5. Listed(u) = x \o l /\ x = FlattenSeq(F(s)) /\ x \in V
      BY <1>3, <1>5, <2>3, <2>4, Zenon DEF Listed, F
    <2>6. CASE s = <<>>
      <3>1. F(s) = none /\ C(s) = none /\ x = none
        BY <1>3, <1>4, <1>5, <2>5, <2>6, Zenon
      <3>2. Listed(u) = b /\ C(u) = <<b>>
        BY <1>9, <2>2, <2>3, <2>4, <2>5, <2>6, <3>1, Zenon
      <3>3. Holds(u)
        BY <2>2, <2>3, <2>6, <3>2, Zenon
      <3> QED
        BY <2>1, <3>3
    <2>7. CASE s # <<>>
      <3> DEFINE o == <<Comma>>
      <3>1. Holds(s)
        BY <1>11, <2>7
      <3>2. x \in V /\ Len(x) >= 2 /\ Pieces(x, Comma) = C(s)
        BY <3>1
      <3>3. Listed(u) = x \o (o \o b)
        BY <2>2, <2>3, <2>5, <2>7, Zenon
      <3>4. x \in Seq(N) /\ b \in Seq(N) /\ o \in Seq(B) /\ o \in Seq(N) /\ b \in Seq(B)
            /\ x \in Seq(B)
        <4>1. x \in Seq(B) /\ b \in Seq(B) /\ b \in Seq(N)
          BY <2>3, <3>2 DEF V
        <4>2. x \in Seq(N)
          BY <1>1, <4>1, SeqMonotonic
        <4>3. o \in Seq(B) /\ o \in Seq(N)
          BY <1>1
        <4> QED
          BY <4>1, <4>2, <4>3
      <3> HIDE DEF x, b
      <3>5. Append(x, Comma) = x \o o
        BY <1>1, <3>4, AppendIsConcat
      <3> HIDE DEF o
      <3>6. ThreeAsOne(B, x, o, b)
        <4>1. Three(B, x, o, b)
          BY <3>4, Zenon DEF Three
        <4> QED
          BY <4>1, ConcatThree
      <3>7. Listed(u) = Append(x, Comma) \o b /\ Listed(u) \in V
        BY <3>3, <3>5, <3>6, Zenon DEF ThreeAsOne, V
      <3>8. Pieces(Append(x, Comma) \o b, Comma) = Pieces(x, Comma) \o Pieces(b, Comma)
        BY <1>1, <3>4, PiecesConcat, Zenon DEF N, Texts
      <3>9. C(s) \o <<b>> = Append(C(s), b)
        <4>1. C(s) \in Seq(V) /\ b \in V
          BY <1>4, <2>3 DEF b
        <4> QED
          BY <4>1, AppendIsConcat
      <3>10. Pieces(Listed(u), Comma) = C(u)
        BY <2>3, <2>4, <3>2, <3>7, <3>8, <3>9, Zenon DEF b
      <3>11. Len(Listed(u)) >= 2
        <4>1. Len(x \o (o \o b)) = Len(x) + Len(o \o b) /\ Len(o \o b) \in Nat /\ Len(x) \in Nat
          <5>1. o \o b \in Seq(B) /\ x \in Seq(B)
            BY <3>4, ConcatProperties
          <5> QED
            BY <5>1, ConcatProperties, LenProperties
        <4> QED
          BY <3>2, <3>3, <4>1
      <3>12. Holds(u)
        BY <3>7, <3>10, <3>11, Zenon
      <3> QED
        BY <2>1, <3>12
    <2> QED
      BY <2>6, <2>7
  <1>12. Seq(A) \subseteq T
    <2> HIDE DEF T
    <2> QED
      BY <1>10, <1>11, SeqSetInduction
  <1>13. Holds(rs)
    BY <1>12 DEF A
  <1> QED
    BY <1>13, Zenon DEF V, B, C

\* Split at the commas, they are the ranges one by one.
LEMMA ListedSplit ==
  ASSUME NEW rs \in Seq(Asked), rs # <<>>
  PROVE  /\ DOMAIN Split(Listed(rs), Comma) = DOMAIN rs
         /\ \A i \in DOMAIN rs : Split(Listed(rs), Comma)[i] = RangeText(rs[i])
  <1> DEFINE ps == Pieces(Listed(rs), Comma)
             ts == [i \in DOMAIN ps |-> Trim(ps[i])]
             qs == [i \in DOMAIN rs |-> RangeText(rs[i])]
             W == PathNames
  <1>1. /\ DOMAIN rs = 1 .. Len(rs) /\ Len(rs) \in Nat
        /\ \A i \in 1 .. Len(rs) : i \in Nat /\ rs[i] \in Asked
    BY LenProperties, ElementOfSeq
  <1>2. ps = ByPlace(rs, BlankTexts)
    BY ListedPieces
  <1>3. DOMAIN ps = DOMAIN rs /\ \A i \in DOMAIN rs : ps[i] = Blank(i) \o RangeText(rs[i])
    <2>1. \A i \in DOMAIN rs : BlankTexts[i][rs[i]] = Blank(i) \o RangeText(rs[i])
      BY <1>1, Zenon DEF BlankTexts
    <2> HIDE DEF ps
    <2> QED
      BY <1>2, <2>1, Zenon DEF ByPlace
  <1>4. ASSUME NEW r \in Asked
        PROVE  /\ RangeText(r) \in Seq(Bytes) /\ RangeText(r) \in W
               /\ Trim(RangeText(r)) = RangeText(r)
    <2> DEFINE t == RangeText(r)
               R == RangeBytes
               S == Nat \ {Space, Tab}
               N == Nat
               B == Bytes
    <2>1. t \in Seq(R) /\ t # <<>>
      BY RangeWritten
    <2>2. R \subseteq S /\ R \subseteq N /\ R \subseteq B
      BY DEF RangeBytes, Digits, Minus, Space, Tab, Bytes
    <2> HIDE DEF t, R, S, N, B
    <2>3. t \in Seq(S) /\ t \in Seq(N) /\ t \in Seq(B)
      BY <2>1, <2>2, SeqMonotonic
    <2>4. Trim(t) = t
      BY <2>3, TrimNone DEF S
    <2> QED
      BY <2>1, <2>3, <2>4, Zenon DEF t, N, B, PathNames, Texts
  <1>5. ASSUME NEW r \in Asked, NEW i
        PROVE  Trim(Blank(i) \o RangeText(r)) = RangeText(r)
    <2>1. CASE i = 1
      <3>1. Blank(i) \o RangeText(r) = RangeText(r)
        BY <1>4, <2>1, ConcatEmptySeq DEF Blank
      <3> QED
        BY <1>4, <3>1, Zenon
    <2>2. CASE i # 1
      <3>1. Blank(i) = <<Space>>
        BY <2>2, Zenon DEF Blank
      <3>2. Trim(<<Space>> \o RangeText(r)) = Trim(RangeText(r))
        BY <1>4, TrimBlank
      <3> QED
        BY <1>4, <3>1, <3>2, Zenon
    <2> QED
      BY <2>1, <2>2
  <1>6. Split(Listed(rs), Comma) = NotEmpty(ts)
    BY Zenon DEF Split
  <1> HIDE DEF ps
  <1>7. ts = qs
    <2>1. \A i \in DOMAIN rs : Trim(ps[i]) = RangeText(rs[i])
      BY <1>1, <1>3, <1>5, Zenon
    <2> QED
      BY <1>3, <2>1, Zenon
  <1> HIDE DEF W, ts
  <1>8. qs \in Seq(W)
    <2>1. \A i \in 1 .. Len(rs) : RangeText(rs[i]) \in W
      BY <1>1, <1>4
    <2> QED
      BY <1>1, <2>1
  <1>9. NotEmpty(qs) = qs
    <2> HIDE DEF qs
    <2> QED
      BY <1>8, NotEmptyAll DEF W
  <1>10. Split(Listed(rs), Comma) = qs
    BY <1>6, <1>7, <1>9, Zenon
  <1> QED
    BY <1>10

\* The name of the unit, with its sign.
LEMMA BytesEqualsIs ==
  /\ BytesEquals \in Seq(Nat) /\ Len(BytesEquals) = 6
  BY DEF BytesEquals

\* What is read from a header has been asked for, or is nothing.
LEMMA ParsedIs ==
  ASSUME NEW t \in Seq(Bytes)
  PROVE  LET p == parse_range_header(BytesEquals \o t)
         IN  /\ p = [ok |-> p.ok, ranges |-> p.ranges]
             /\ p.ok => p.ok = TRUE /\ p.ranges \in Seq(Asked) /\ p.ranges # <<>>
             /\ ~p.ok => p.ranges = <<>>
  <1> DEFINE s == BytesEquals \o t
             u == SubSeq(s, 7, Len(s))
             pieces == Split(u, Comma)
             ok == /\ Len(s) > 7 /\ SubSeq(s, 1, 6) = BytesEquals
                   /\ pieces # <<>> /\ \A i \in DOMAIN pieces : IsRange(pieces[i])
             ranges == [i \in DOMAIN pieces |-> RangeOf(pieces[i])]
             p == parse_range_header(s)
  <1>1. p = [ok |-> ok, ranges |-> IF ok THEN ranges ELSE <<>>]
    BY Zenon DEF parse_range_header, RangeOf, BoundOf
  <1>2. ok => u \in Seq(Nat)
    <2> DEFINE N == Nat
               o == BytesEquals
               B == Bytes
    <2>1. t \in Seq(N) /\ o \in Seq(N)
      <3>1. B \subseteq N
        BY DEF Bytes
      <3>2. t \in Seq(B)
        OBVIOUS
      <3> HIDE DEF B, N
      <3>3. t \in Seq(N)
        BY <3>1, <3>2, SeqMonotonic
      <3> QED
        BY <3>3, BytesEqualsIs DEF N
    <2> HIDE DEF N, o
    <2>2. o \o t \in Seq(N)
      BY <2>1, ConcatProperties
    <2>3. s \in Seq(N)
      BY <2>2 DEF o
    <2> HIDE DEF s
    <2> DEFINE n == Len(s)
    <2>4. n \in Nat
      BY <2>3, LenProperties
    <2> HIDE DEF n
    <2>5. n > 7 => 7 \in 1 .. n + 1 /\ n \in 7 - 1 .. n
      BY <2>4
    <2>6. n > 7 => SubSeq(s, 7, n) \in Seq(N)
      BY <2>3, <2>5, PieceOf DEF n
    <2> QED
      BY <2>6 DEF n, N
  <1>3. ASSUME ok
        PROVE  ranges \in Seq(Asked) /\ ranges # <<>>
    <2> DEFINE ps == Pieces(u, Comma)
               ts == [i \in DOMAIN ps |-> Trim(ps[i])]
    <2>1. u \in Seq(Bytes)
      <3>1. u \in Seq(Nat) /\ \A i \in 1 .. Len(u) : u[i] \in Bytes
        <4> DEFINE o == BytesEquals
                   n == Len(o)
                   x == o \o t
        <4>1. o \in Seq(Bytes) /\ n = 6
          BY DEF BytesEquals, Bytes
        <4> HIDE DEF o, n
        <4>2. x \in Seq(Bytes)
          BY <4>1, ConcatProperties
        <4>3. s = x
          BY DEF o
        <4> HIDE DEF s, x
        <4> DEFINE k == Len(s)
        <4>4. s \in Seq(Bytes) /\ k \in Nat /\ k > 7
          BY <1>3, <4>2, <4>3, LenProperties
        <4> HIDE DEF k
        <4>5. 7 \in 1 .. k + 1 /\ k \in 7 - 1 .. k
          BY <4>4
        <4>6. SubSeq(s, 7, k) \in Seq(Bytes)
          BY <4>4, <4>5, PieceOf DEF k
        <4>7. u \in Seq(Bytes)
          BY <4>6 DEF k
        <4> QED
          BY <1>2, <1>3, <4>7, ElementOfSeq
      <3> QED
        BY <3>1, SeqInSubset, Zenon
    <2> HIDE DEF s, u
    <2>2. ps \in Seq(Seq(Bytes))
      <3>1. Comma \in Nat /\ Bytes \subseteq Nat
        BY DEF Comma, Bytes
      <3> DEFINE B == Bytes
      <3>2. u \in Seq(B) /\ B \subseteq Nat
        BY <2>1, <3>1
      <3> HIDE DEF B
      <3>3. ps \in Seq(Seq(B))
        BY <3>1, <3>2, PiecesOf, Zenon
      <3> QED
        BY <3>3 DEF B
    <2>3. /\ DOMAIN ps = 1 .. Len(ps) /\ Len(ps) \in Nat
          /\ \A i \in 1 .. Len(ps) : ps[i] \in Seq(Bytes)
      BY <2>2, LenProperties, ElementOfSeq
    <2> HIDE DEF ps
    <2>4. \A w \in Seq(Bytes) : Trim(w) \in Texts
      <3> SUFFICES ASSUME NEW w \in Seq(Bytes) PROVE Trim(w) \in Texts
        OBVIOUS
      <3>1. Trim(w) \in Seq(Bytes)
        BY TrimKeeps
      <3> DEFINE B == Bytes
                 N == Nat
      <3>2. B \subseteq N /\ Trim(w) \in Seq(B)
        BY <3>1 DEF Bytes
      <3> HIDE DEF B, N
      <3>3. Trim(w) \in Seq(N)
        BY <3>2, SeqMonotonic
      <3> QED
        BY <3>3 DEF Texts, N
    <2>5. ts \in Seq(Texts)
      BY <2>3, <2>4
    <2>6. pieces = NotEmpty(ts)
      BY Zenon DEF Split, ps
    <2> HIDE DEF ts
    <2>7. pieces \in Seq(PathNames)
      BY <2>5, <2>6, NotEmptyIs
    <2>8. /\ pieces # <<>>
          /\ \A i \in DOMAIN pieces : IsRange(pieces[i])
      BY <1>3
    <2> HIDE DEF pieces
    <2>9. /\ DOMAIN pieces = 1 .. Len(pieces) /\ Len(pieces) \in Nat
          /\ \A i \in 1 .. Len(pieces) : pieces[i] \in Texts
      BY <2>7, LenProperties, ElementOfSeq DEF PathNames
    <2>10. \A i \in 1 .. Len(pieces) : RangeOf(pieces[i]) \in Asked
      BY <2>8, <2>9, RangeRead
    <2>11. ranges \in Seq(Asked) /\ Len(ranges) = Len(pieces)
      BY <2>9, <2>10
    <2>12. Len(pieces) # 0
      BY <2>7, <2>8, EmptySeq
    <2> HIDE DEF ranges
    <2> QED
      BY <2>11, <2>12, EmptySeq
  <1> HIDE DEF ranges
  <1>4. ok \in BOOLEAN
    OBVIOUS
  <1> HIDE DEF ok
  <1>5. p.ok = ok /\ p.ranges = IF ok THEN ranges ELSE <<>>
    BY <1>1
  <1> QED
    BY <1>1, <1>3, <1>4, <1>5, Zenon DEF s

\* Ranges that were asked for are read from the header that is made of them.
LEMMA RangesRead ==
  ASSUME NEW rs \in Seq(Asked), rs # <<>>
  PROVE  parse_range_header(make_range_header(rs)) = [ok |-> TRUE, ranges |-> rs]
  <1> DEFINE o == BytesEquals
             t == Listed(rs)
             s == o \o t
             n == Len(t)
             pieces == Split(t, Comma)
             N == Nat
  <1>1. make_range_header(rs) = s
    BY HeaderIs
  <1>2. o \in Seq(N) /\ Len(o) = 6 /\ t \in Seq(N) /\ n >= 2 /\ n \in Nat
    <2> DEFINE B == ListBytes
    <2>1. t \in Seq(B) /\ n >= 2
      BY ListedPieces
    <2>2. B \subseteq N
      BY DEF ListBytes, RangeBytes, Digits, Minus, Comma, Space
    <2>3. o \in Seq(N) /\ Len(o) = 6
      BY BytesEqualsIs
    <2> HIDE DEF t, N, B, o
    <2>4. t \in Seq(N)
      BY <2>1, <2>2, SeqMonotonic
    <2> QED
      BY <2>1, <2>3, <2>4, LenProperties
  <1>3. /\ DOMAIN pieces = DOMAIN rs
        /\ \A i \in DOMAIN rs : pieces[i] = RangeText(rs[i])
    BY ListedSplit
  <1>4. /\ DOMAIN rs = 1 .. Len(rs) /\ Len(rs) \in Nat /\ Len(rs) # 0
        /\ \A i \in DOMAIN rs : rs[i] \in Asked
    BY LenProperties, EmptySeq, ElementOfSeq
  <1> HIDE DEF o, t, N, n
  <1>5. s \in Seq(N) /\ Len(s) = 6 + n
    BY <1>2, ConcatProperties, ZenonT(30) DEF n
  <1>6. SubSeq(s, 1, 6) = o
    <2>1. SubSeq(s, 1, Len(o)) = SubSeq(o, 1, Len(o))
      <3>1. 1 \in 1 .. Len(o) /\ Len(o) \in 1 .. Len(o)
        BY <1>2
      <3> QED
        BY <1>2, <3>1, SubSeqOfConcat1, Zenon
    <2>2. SubSeq(o, 1, Len(o)) = o
      BY <1>2, SubSeqFull
    <2> QED
      BY <1>2, <2>1, <2>2, Zenon
  <1>7. SubSeq(s, 7, Len(s)) = t
    <2>1. t # <<>>
      BY <1>2, EmptySeq DEF n
    <2>2. SubSeq(s, Len(o) + 1, Len(o) + Len(t)) = t
      BY <1>2, <2>1, EndOfConcat, Zenon
    <2>3. Len(o) + 1 = 7 /\ Len(o) + Len(t) = Len(s)
      BY <1>2, <1>5 DEF n
    <2> QED
      BY <2>2, <2>3, Zenon
  <1>8. Len(s) > 7
    BY <1>2, <1>5
  <1> HIDE DEF s, pieces
  <1>9. \A i \in DOMAIN pieces : IsRange(pieces[i]) /\ RangeOf(pieces[i]) = rs[i]
    BY <1>3, <1>4, RangeWritten, Zenon
  <1>10. pieces # <<>>
    BY <1>3, <1>4, EmptySeq
  <1> DEFINE ok == /\ Len(s) > 7 /\ SubSeq(s, 1, 6) = BytesEquals
                   /\ pieces # <<>> /\ \A i \in DOMAIN pieces : IsRange(pieces[i])
             ranges == [i \in DOMAIN pieces |-> RangeOf(pieces[i])]
  <1>11. Split(SubSeq(s, 7, Len(s)), Comma) = pieces
    BY <1>7, Zenon DEF pieces
  <1>12. parse_range_header(s) = [ok |-> ok, ranges |-> IF ok THEN ranges ELSE <<>>]
    BY <1>11, Zenon DEF parse_range_header, RangeOf, BoundOf
  <1>13. ok = TRUE
    <2>1. ok
      BY <1>6, <1>8, <1>9, <1>10, Zenon DEF o
    <2> QED
      BY <2>1, Zenon
  <1>14. ranges = rs
    <2>1. rs = [i \in DOMAIN rs |-> rs[i]]
      BY <1>4
    <2> QED
      BY <1>3, <1>9, <2>1, Zenon
  <1> HIDE DEF ok, ranges
  <1> QED
    BY <1>1, <1>12, <1>13, <1>14, Zenon

\* The part of RangesKept about the header.
LEMMA RangesArriveSame == TextType => RangesArrive
  <1> SUFFICES ASSUME TextType PROVE RangesArrive
    OBVIOUS
  <1>1. text \in Seq(Bytes)
    BY DEF TextType
  <1> DEFINE p == Parsed
  <1>2. /\ p = [ok |-> p.ok, ranges |-> p.ranges]
        /\ p.ok => p.ok = TRUE /\ p.ranges \in Seq(Asked) /\ p.ranges # <<>>
    BY <1>1, ParsedIs, Zenon DEF Parsed
  <1> HIDE DEF p
  <1>3. p.ok => parse_range_header(make_range_header(p.ranges)) = p
    BY <1>2, RangesRead, Zenon
  <1> QED
    BY <1>3, Zenon DEF RangesArrive, p

-----------------------------------------------------------------------------
(***************************************************************************)
(* The check of the ranges against a content of n bytes.                   *)
(***************************************************************************)
Resolutions == Seq(Int \X Int)
Checks == [error : BOOLEAN, first : Int, last : Int, laps : Int, ranges : Resolutions]

NoCheck == [error |-> FALSE, first |-> -1, last |-> -1, laps |-> 0, ranges |-> <<>>]
CheckStep(n, a, r) ==
  LET p == Resolve(r, n)
      laps == a.laps + IF p[1] <= a.last THEN 1 ELSE 0
  IN  [error |-> a.error \/ ~(0 <= p[1] /\ p[1] <= p[2] /\ p[2] <= n - 1)
                         \/ p[1] <= a.first \/ laps > 2,
       first |-> Larger(a.first, p[1]), last |-> Larger(a.last, p[2]),
       laps |-> laps, ranges |-> Append(a.ranges, p)]
Checked(rs, n) == FoldLeft(LAMBDA a, r : CheckStep(n, a, r), NoCheck, rs)

\* The check is this fold, for a partial answer to few ranges.
LEMMA RangeErrorIs ==
  ASSUME NEW rs, NEW status, NEW n
  PROVE  range_error(rs, status, n) =
           IF status \notin 200..299 THEN [NoCheck EXCEPT !.ranges = rs]
           ELSE IF Len(rs) > RangeMaxCount
             THEN [NoCheck EXCEPT !.error = TRUE, !.ranges = rs]
           ELSE Checked(rs, n)
  BY Zenon DEF range_error, Checked, CheckStep, NoCheck, FoldLeft, MapThenFoldSet

\* A range in terms of positions.
LEMMA ResolveIs ==
  ASSUME NEW r \in Asked, NEW n \in Int
  PROVE  /\ Resolve(r, n)[1] \in Int /\ Resolve(r, n)[2] \in Int
         /\ Resolve(r, n) = <<Resolve(r, n)[1], Resolve(r, n)[2]>>
  <1>1. /\ r[1] \in Int /\ r[2] \in Int /\ r = <<r[1], r[2]>>
    BY DEF Asked, Bounds, None
  <1>2. CASE r[1] = None
    BY <1>1, <1>2 DEF Resolve
  <1>3. CASE r[1] # None /\ r[2] = None
    BY <1>1, <1>3 DEF Resolve
  <1>4. CASE r[1] # None /\ r[2] # None
    BY <1>1, <1>4 DEF Resolve
  <1> QED
    BY <1>2, <1>3, <1>4

\* What one more range does to the check.
LEMMA CheckStepIs ==
  ASSUME NEW n \in Int, NEW a \in Checks, NEW r \in Asked
  PROVE  /\ CheckStep(n, a, r) \in Checks
         /\ CheckStep(n, a, r).ranges = Append(a.ranges, Resolve(r, n))
         /\ ~CheckStep(n, a, r).error =>
              /\ ~a.error
              /\ 0 <= Resolve(r, n)[1] /\ Resolve(r, n)[1] <= Resolve(r, n)[2]
              /\ Resolve(r, n)[2] <= n - 1
  <1> DEFINE p == Resolve(r, n)
             R == Resolutions
             laps == a.laps + IF p[1] <= a.last THEN 1 ELSE 0
             error == a.error \/ ~(0 <= p[1] /\ p[1] <= p[2] /\ p[2] <= n - 1)
                              \/ p[1] <= a.first \/ laps > 2
             first == Larger(a.first, p[1])
             last == Larger(a.last, p[2])
             ranges == Append(a.ranges, p)
  <1>1. /\ a.error \in BOOLEAN /\ a.first \in Int /\ a.last \in Int
        /\ a.laps \in Int /\ a.ranges \in R
    BY DEF Checks
  <1>2. p[1] \in Int /\ p[2] \in Int /\ p = <<p[1], p[2]>>
    BY ResolveIs
  <1>3. CheckStep(n, a, r) = [error |-> error, first |-> first, last |-> last,
                              laps |-> laps, ranges |-> ranges]
    BY Zenon DEF CheckStep
  <1> HIDE DEF p, R
  <1>4. ranges \in R
    <2>1. p \in Int \X Int
      BY <1>2
    <2> QED
      BY <1>1, <2>1, AppendProperties DEF R, Resolutions
  <1>5. laps \in Int /\ first \in Int /\ last \in Int /\ error \in BOOLEAN
    BY <1>1, <1>2 DEF Larger
  <1>6. ~error => ~a.error /\ 0 <= p[1] /\ p[1] <= p[2] /\ p[2] <= n - 1
    BY <1>1
  <1> HIDE DEF laps, first, last, error, ranges
  <1>7. CheckStep(n, a, r) \in Checks
    BY <1>3, <1>4, <1>5 DEF Checks, R
  <1>8. CheckStep(n, a, r).error = error /\ CheckStep(n, a, r).ranges = ranges
    BY <1>3
  <1> QED
    BY <1>6, <1>7, <1>8, Zenon DEF p, ranges

\* The check of the ranges one after the other.
LEMMA CheckedIs ==
  ASSUME NEW n \in Int
  PROVE  /\ Checked(<<>>, n) = NoCheck
         /\ \A s \in Seq(Asked) : Checked(s, n) \in Checks
         /\ \A s \in Seq(Asked), e \in Asked :
              Checked(Append(s, e), n) = CheckStep(n, Checked(s, n), e)
  <1> DEFINE V == Checks
             N == Asked
             none == NoCheck
             step == [e \in N |-> [v \in V |-> CheckStep(n, v, e)]]
  <1>1. none \in V /\ \A v \in V, e \in N : CheckStep(n, v, e) \in V
    <2>1. none \in V
      BY DEF NoCheck, Checks, Resolutions
    <2> QED
      BY <2>1, CheckStepIs
  <1> HIDE DEF V, N, none
  <1>2. step \in [N -> [V -> V]]
    BY <1>1
  <1>3. \A e \in N, v \in V : step[e][v] = CheckStep(n, v, e)
    OBVIOUS
  <1> HIDE DEF step
  <1>4. ASSUME NEW s \in Seq(N)
        PROVE  Checked(s, n) = Folded(s, V, none, step)
    <2> DEFINE Fold(g) == g = [u \in SUBSET DOMAIN s |->
                                IF u = {} THEN none
                                ELSE CheckStep(n, g[u \ {Max(u)}], s[Max(u)])]
               it == CHOOSE g : Fold(g)
    <2>1. Checked(s, n) = it[DOMAIN s]
      BY Zenon DEF Checked, FoldLeft, MapThenFoldSet, none
    <2>2. PICK g \in [SUBSET DOMAIN s -> V] : IsSetFold(g, s, none, step)
      BY <1>1, <1>2, SetFoldExists, Zenon
    <2>3. ASSUME NEW u \in SUBSET DOMAIN s, u # {}
          PROVE  s[Max(u)] \in N
      <3>1. Len(s) \in Nat /\ DOMAIN s = 1 .. Len(s)
        BY LenProperties
      <3>2. Max(u) \in 1 .. Len(s)
        BY <2>3, <3>1, MaxOfSubset, Zenon
      <3> QED
        BY <3>2, ElementOfSeq
    <2>4. ASSUME NEW u \in SUBSET DOMAIN s
          PROVE  g[u] = IF u = {} THEN none ELSE CheckStep(n, g[u \ {Max(u)}], s[Max(u)])
      <3>1. u # {} => g[u] = step[s[Max(u)]][g[u \ {Max(u)}]]
        BY <2>2 DEF IsSetFold
      <3>2. g[{}] = none /\ g[u \ {Max(u)}] \in V
        BY <2>2 DEF IsSetFold
      <3> QED
        BY <1>3, <2>3, <3>1, <3>2, Zenon
    <2>5. Fold(g)
      <3>1. g = [u \in SUBSET DOMAIN s |-> g[u]]
        OBVIOUS
      <3> QED
        BY <2>4, <3>1, Zenon
    <2>6. Fold(it)
      <3> HIDE DEF Fold
      <3> QED
        BY <2>5, Zenon
    <2>7. \A u \in SUBSET DOMAIN s :
            it[u] = IF u = {} THEN none ELSE CheckStep(n, it[u \ {Max(u)}], s[Max(u)])
      <3> HIDE DEF it
      <3> QED
        BY <2>6, Zenon
    <2> HIDE DEF it
    <2>8. FitsFold(it, s, V, none, step)
      BY <1>3, <2>3, <2>7, Zenon DEF FitsFold
    <2>9. it[DOMAIN s] = Folded(s, V, none, step)
      BY <1>1, <1>2, <2>8, SetFoldIs
    <2> QED
      BY <2>1, <2>9, Zenon
  <1>5. /\ Folded(<<>>, V, none, step) = none
        /\ \A s \in Seq(N) : Folded(s, V, none, step) \in V
        /\ \A s \in Seq(N), e \in N :
             Folded(Append(s, e), V, none, step) = step[e][Folded(s, V, none, step)]
    BY <1>1, <1>2, FoldedIs
  <1>6. <<>> \in Seq(N) /\ \A s \in Seq(N), e \in N : Append(s, e) \in Seq(N)
    BY EmptySeq, AppendProperties
  <1>7. Checked(<<>>, n) = none
    BY <1>4, <1>5, <1>6, Zenon
  <1>8. \A s \in Seq(N) : Checked(s, n) \in V
    BY <1>4, <1>5, Zenon
  <1>9. ASSUME NEW s \in Seq(N), NEW e \in N
        PROVE  Checked(Append(s, e), n) = CheckStep(n, Checked(s, n), e)
    <2>1. Checked(Append(s, e), n) = step[e][Checked(s, n)]
      BY <1>4, <1>5, <1>6, Zenon
    <2> QED
      BY <1>3, <1>8, <2>1
  <1> QED
    BY <1>7, <1>8, <1>9, Zenon DEF V, N, none

\* Without an error, the ranges are as many as were asked for, and each of them
\* lies within the content.
LEMMA WithoutError ==
  ASSUME NEW n \in Int, NEW rs \in Seq(Asked)
  PROVE  LET a == Checked(rs, n)
         IN  /\ a \in Checks /\ Len(a.ranges) = Len(rs)
             /\ ~a.error =>
                  \A i \in 1 .. Len(a.ranges) :
                    /\ a.ranges[i][1] \in Int /\ a.ranges[i][2] \in Int
                    /\ 0 <= a.ranges[i][1] /\ a.ranges[i][1] <= a.ranges[i][2]
                    /\ a.ranges[i][2] <= n - 1
  <1> DEFINE A == Asked
             Within(p) == /\ p[1] \in Int /\ p[2] \in Int
                          /\ 0 <= p[1] /\ p[1] <= p[2] /\ p[2] <= n - 1
             Fits(s) == LET a == Checked(s, n)
                        IN  /\ a \in Checks /\ Len(a.ranges) = Len(s)
                            /\ ~a.error => \A i \in 1 .. Len(a.ranges) : Within(a.ranges[i])
             T == {s \in Seq(A) : Fits(s)}
  <1>1. /\ Checked(<<>>, n) = NoCheck
        /\ \A s \in Seq(A) : Checked(s, n) \in Checks
        /\ \A s \in Seq(A), e \in A :
             Checked(Append(s, e), n) = CheckStep(n, Checked(s, n), e)
    BY CheckedIs
  <1> HIDE DEF Within
  <1>2. <<>> \in T
    <2>1. <<>> \in Seq(A) /\ Checked(<<>>, n) \in Checks
      BY <1>1, EmptySeq, Zenon
    <2>2. NoCheck.ranges = <<>>
      BY DEF NoCheck
    <2> QED
      BY <1>1, <2>1, <2>2
  <1>3. ASSUME NEW s \in Seq(A), NEW r \in A, s \in T
        PROVE  Append(s, r) \in T
    <2> DEFINE a == Checked(s, n)
               b == Checked(Append(s, r), n)
               p == Resolve(r, n)
    <2>1. /\ a \in Checks /\ Len(a.ranges) = Len(s)
          /\ ~a.error => \A i \in 1 .. Len(a.ranges) : Within(a.ranges[i])
      BY <1>3
    <2>2. b = CheckStep(n, a, r)
      BY <1>1
    <2>3. /\ CheckStep(n, a, r) \in Checks
          /\ CheckStep(n, a, r).ranges = Append(a.ranges, p)
          /\ ~CheckStep(n, a, r).error =>
               ~a.error /\ 0 <= p[1] /\ p[1] <= p[2] /\ p[2] <= n - 1
      <3> HIDE DEF a
      <3> QED
        BY <2>1, CheckStepIs, Zenon
    <2>4. p[1] \in Int /\ p[2] \in Int /\ p = <<p[1], p[2]>>
      BY ResolveIs
    <2> HIDE DEF a, b, p
    <2>5. /\ b \in Checks /\ b.ranges = Append(a.ranges, p)
          /\ ~b.error => ~a.error /\ Within(p)
      BY <2>2, <2>3, <2>4 DEF Within
    <2> DEFINE x == a.ranges
               y == b.ranges
    <2>6. x \in Resolutions /\ p \in Int \X Int
      BY <2>1, <2>4 DEF Checks
    <2> HIDE DEF x, y
    <2>7. /\ y \in Resolutions /\ Len(y) = Len(x) + 1 /\ Len(x) \in Nat
          /\ \A i \in 1 .. Len(x) : y[i] = x[i]
          /\ y[Len(x) + 1] = p
      <3>1. y = Append(x, p)
        BY <2>5 DEF x, y
      <3> QED
        BY <2>6, <3>1, AppendProperties, LenProperties DEF Resolutions
    <2>8. Append(s, r) \in Seq(A) /\ Len(Append(s, r)) = Len(s) + 1
      BY AppendProperties
    <2>9. ASSUME ~b.error, NEW i \in 1 .. Len(y)
          PROVE  Within(y[i])
      <3>1. CASE i = Len(x) + 1
        BY <2>5, <2>7, <2>9, <3>1
      <3>2. CASE i # Len(x) + 1
        <4>1. i \in 1 .. Len(x)
          BY <2>7, <3>2
        <4>2. Within(x[i])
          BY <2>1, <2>5, <2>9, <4>1 DEF x
        <4> QED
          BY <2>7, <4>1, <4>2
      <3> QED
        BY <3>1, <3>2
    <2>10. Len(y) = Len(Append(s, r))
      BY <2>1, <2>7, <2>8 DEF x
    <2>11. Fits(Append(s, r))
      BY <2>5, <2>9, <2>10, Zenon DEF b, y
    <2> QED
      BY <2>8, <2>11
  <1>4. rs \in T
    <2>1. Seq(A) \subseteq T
      <3> HIDE DEF T
      <3> QED
        BY <1>2, <1>3, SeqSetInduction
    <2> QED
      BY <2>1
  <1>5. Fits(rs)
    BY <1>4
  <1> QED
    BY <1>5, Zenon DEF Within

\* What is answered: as many ranges as were asked for, and when the answer is
\* partial, each of them within the content.
Answers(a, n, rs) ==
  /\ a = [status |-> a.status, ranges |-> a.ranges, length |-> a.length]
  /\ a.length \in Nat
  /\ rs = <<>> => a.ranges = <<>>
  /\ a.status = 206 =>
       /\ a.ranges # <<>> => a.length = n
       /\ \A i \in 1 .. Len(a.ranges) :
            /\ a.ranges[i][1] \in Int /\ a.ranges[i][2] \in Int
            /\ 0 <= a.ranges[i][1] /\ a.ranges[i][1] <= a.ranges[i][2]
            /\ a.ranges[i][2] < n
  /\ a.ranges \in Seq(Int \X Int)

\* Every answer is such.
LEMMA AnswerIs ==
  ASSUME NEW rs \in Seq(Asked), NEW status \in Int, status # 206, NEW n \in Nat
  PROVE  LET a == Answer(rs, status, n)
         IN  /\ Answers(a, n, rs)
             /\ a.status = 206 => rs # <<>> /\ status = NoStatus
             /\ status = NoStatus /\ rs # <<>> /\ a.status # 206 => a.length = 0
  <1> DEFINE given == IF status # NoStatus THEN status ELSE IF rs = <<>> THEN 200 ELSE 206
             check == range_error(rs, given, n)
             a == Answer(rs, status, n)
             P == Int \X Int
             Within(qs) == \A i \in 1 .. Len(qs) :
                             /\ qs[i][1] \in Int /\ qs[i][2] \in Int
                             /\ 0 <= qs[i][1] /\ qs[i][1] <= qs[i][2]
                             /\ qs[i][2] < n
  <1>1. a = IF check.error THEN [status |-> 416, ranges |-> check.ranges, length |-> 0]
            ELSE [status |-> given, ranges |-> check.ranges, length |-> n]
    BY Zenon DEF Answer
  <1>2. /\ given \in Int
        /\ given = 206 => rs # <<>> /\ status = NoStatus
        /\ status = NoStatus /\ rs # <<>> => given = 206
    BY DEF NoStatus
  <1>3. rs \in Seq(P) /\ Len(rs) \in Nat
    <2>1. Asked \subseteq P
      BY DEF Asked, Bounds, None
    <2> HIDE DEF P
    <2> QED
      BY <2>1, SeqMonotonic, LenProperties
  <1>4. check = IF given \notin 200..299 THEN [NoCheck EXCEPT !.ranges = rs]
                ELSE IF Len(rs) > RangeMaxCount
                  THEN [NoCheck EXCEPT !.error = TRUE, !.ranges = rs]
                ELSE Checked(rs, n)
    BY RangeErrorIs, Zenon
  <1> HIDE DEF given, check, a, P, Within
  <1>5. /\ check.error \in BOOLEAN /\ check.ranges \in Seq(P)
        /\ rs = <<>> => check.ranges = <<>>
        /\ given = 206 /\ ~check.error => Within(check.ranges)
    <2>1. CASE given \notin 200..299
      <3>1. check = [error |-> FALSE, first |-> -1, last |-> -1, laps |-> 0, ranges |-> rs]
        BY <1>4, <2>1, Zenon DEF NoCheck
      <3>2. given # 206
        BY <2>1
      <3> QED
        BY <1>3, <3>1, <3>2
    <2>2. CASE given \in 200..299 /\ Len(rs) > RangeMaxCount
      <3>1. check = [error |-> TRUE, first |-> -1, last |-> -1, laps |-> 0, ranges |-> rs]
        BY <1>4, <2>2, Zenon DEF NoCheck
      <3> QED
        BY <1>3, <3>1
    <2>3. CASE given \in 200..299 /\ ~(Len(rs) > RangeMaxCount)
      <3> DEFINE c == Checked(rs, n)
      <3>1. check = c
        BY <1>4, <2>3
      <3>2. /\ c \in Checks /\ Len(c.ranges) = Len(rs)
            /\ ~c.error =>
                 \A i \in 1 .. Len(c.ranges) :
                   /\ c.ranges[i][1] \in Int /\ c.ranges[i][2] \in Int
                   /\ 0 <= c.ranges[i][1] /\ c.ranges[i][1] <= c.ranges[i][2]
                   /\ c.ranges[i][2] <= n - 1
        <4>1. n \in Int
          OBVIOUS
        <4> QED
          BY <4>1, WithoutError
      <3> HIDE DEF c
      <3>3. c.error \in BOOLEAN /\ c.ranges \in Seq(P)
        BY <3>2 DEF Checks, Resolutions, P
      <3>4. rs = <<>> => c.ranges = <<>>
        BY <3>2, <3>3, EmptySeq
      <3>5. ~c.error => Within(c.ranges)
        BY <3>2 DEF Within
      <3> QED
        BY <3>1, <3>3, <3>4, <3>5, Zenon
    <2> QED
      BY <2>1, <2>2, <2>3
  <1>6. CASE check.error
    <2>1. a = [status |-> 416, ranges |-> check.ranges, length |-> 0]
      BY <1>1, <1>6, Zenon
    <2>2. a.status = 416 /\ a.ranges = check.ranges /\ a.length = 0
      BY <2>1
    <2>3. Answers(a, n, rs)
      <3>1. 416 # 206 /\ 0 \in Nat
        OBVIOUS
      <3> QED
        BY <1>5, <2>1, <2>2, <3>1, Zenon DEF Answers, P
    <2> QED
      BY <2>2, <2>3 DEF a
  <1>7. CASE ~check.error
    <2>1. a = [status |-> given, ranges |-> check.ranges, length |-> n]
      BY <1>1, <1>7, Zenon
    <2>2. a.status = given /\ a.ranges = check.ranges /\ a.length = n
      BY <2>1
    <2>3. Answers(a, n, rs)
      BY <1>5, <1>7, <2>1, <2>2, Zenon DEF Answers, P, Within
    <2> QED
      BY <1>2, <2>2, <2>3, Zenon DEF a
  <1> QED
    BY <1>6, <1>7

\* The whole content has its length.
LEMMA WholeIs ==
  ASSUME NEW n \in Nat
  PROVE  Len(Whole(n)) = n
  BY DEF Whole

\* A part has the length that is announced for it.
LEMMA PartIs ==
  ASSUME NEW r \in Int \X Int, r[1] <= r[2]
  PROVE  Len(Part(r)) = OffsetAndLength(r)[2]
  <1> DEFINE m == r[2] - r[1] + 1
  <1>1. r[1] \in Int /\ r[2] \in Int /\ m \in Nat
    OBVIOUS
  <1>2. OffsetAndLength(r)[1] = r[1] /\ OffsetAndLength(r)[2] = m
    BY DEF OffsetAndLength
  <1> HIDE DEF m
  <1>3. Part(r) = [i \in 1 .. m |-> r[1] + i - 1]
    BY <1>2, Zenon DEF Part
  <1> QED
    BY <1>1, <1>2, <1>3

\* The part of RangesKept about the check of the ranges.
LEMMA PartsLie == TextType => PartsLieWithinContent
  <1> SUFFICES ASSUME TextType, Parsed.ok, NEW n \in Lengths
               PROVE  LET a == Answer(Parsed.ranges, NoStatus, n)
                      IN  a.status = 206 => \A i \in DOMAIN a.ranges :
                            /\ 0 <= a.ranges[i][1] /\ a.ranges[i][1] <= a.ranges[i][2]
                            /\ a.ranges[i][2] < n
    BY Zenon DEF PartsLieWithinContent
  <1> DEFINE rs == Parsed.ranges
             a == Answer(rs, NoStatus, n)
  <1>1. text \in Seq(Bytes)
    BY DEF TextType
  <1>2. rs \in Seq(Asked)
    BY <1>1, ParsedIs, Zenon DEF Parsed
  <1>3. n \in Nat /\ NoStatus \in Int /\ NoStatus # 206
    BY LengthsAssumption DEF NoStatus
  <1> HIDE DEF rs
  <1>4. Answers(a, n, rs)
    BY <1>2, <1>3, AnswerIs
  <1> HIDE DEF a
  <1>5. DOMAIN a.ranges = 1 .. Len(a.ranges)
    BY <1>4, LenProperties DEF Answers
  <1>6. a.status = 206 => \A i \in 1 .. Len(a.ranges) :
          /\ 0 <= a.ranges[i][1] /\ a.ranges[i][1] <= a.ranges[i][2]
          /\ a.ranges[i][2] < n
    BY <1>4, Zenon DEF Answers
  <1>7. a.status = 206 => \A i \in DOMAIN a.ranges :
          /\ 0 <= a.ranges[i][1] /\ a.ranges[i][1] <= a.ranges[i][2]
          /\ a.ranges[i][2] < n
    BY <1>5, <1>6
  <1> QED
    BY <1>7 DEF a, rs

\* What is announced is the length of what is written, of one answer.
LEMMA AnnouncedIs ==
  ASSUME NEW rs \in Seq(Asked), NEW status \in {NoStatus, 200, 404}, NEW n \in Nat,
         NEW provided \in BOOLEAN, provided /\ rs # <<>> => status = NoStatus
  PROVE  LET a == Answer(rs, status, n)
         IN  Announced(a) = Len(Written(a, provided))
  <1> DEFINE a == Answer(rs, status, n)
             r == a.ranges[1]
  <1>1. status \in Int /\ status # 206
    BY DEF NoStatus
  <1>2. /\ Answers(a, n, rs)
        /\ a.status = 206 => rs # <<>> /\ status = NoStatus
        /\ status = NoStatus /\ rs # <<>> /\ a.status # 206 => a.length = 0
    BY <1>1, AnswerIs
  <1> HIDE DEF a
  <1>3. a.length \in Nat /\ Len(Whole(a.length)) = a.length
    BY <1>2, WholeIs DEF Answers
  <1>4. CASE a.ranges = <<>>
    <2>1. Announced(a) = a.length /\ Written(a, provided) = Whole(a.length)
      BY <1>4, Zenon DEF Announced, Written
    <2> QED
      BY <1>3, <2>1, Zenon DEF a
  <1>5. CASE a.ranges # <<>> /\ a.status # 206
    <2>1. Announced(a) = a.length
      BY <1>5, Zenon DEF Announced
    <2>2. ~provided \/ a.length = 0
      BY <1>2, <1>5, Zenon DEF Answers
    <2>3. Written(a, provided) = Whole(a.length)
      BY <1>5, <2>2, Zenon DEF Written
    <2> QED
      BY <1>3, <2>1, <2>3, Zenon DEF a
  <1>6. CASE a.ranges # <<>> /\ a.status = 206
    <2>1. /\ a.length = n
          /\ \A i \in 1 .. Len(a.ranges) :
               /\ a.ranges[i][1] \in Int /\ a.ranges[i][2] \in Int
               /\ 0 <= a.ranges[i][1] /\ a.ranges[i][1] <= a.ranges[i][2]
               /\ a.ranges[i][2] < n
      BY <1>2, <1>6, Zenon DEF Answers
    <2>2. /\ a.ranges \in Seq(Int \X Int)
          /\ 1 \in 1 .. Len(a.ranges)
      <3> DEFINE x == a.ranges
      <3>1. x \in Seq(Int \X Int) /\ x # <<>>
        BY <1>2, <1>6, Zenon DEF Answers
      <3> HIDE DEF x
      <3>2. 1 \in 1 .. Len(x)
        BY <3>1, EmptySeq, LenProperties
      <3> QED
        BY <3>1, <3>2 DEF x
    <2>3. r \in Int \X Int /\ r[1] <= r[2]
      BY <2>1, <2>2, ElementOfSeq
    <2>4. a.length # 0
      BY <2>1, <2>2
    <2>5. Written(a, provided) = IF Len(a.ranges) = 1 THEN Part(r) ELSE MultipartRanges(a.ranges)
      BY <1>6, <2>4, Zenon DEF Written
    <2>6. Announced(a) = IF Len(a.ranges) = 1 THEN OffsetAndLength(r)[2]
                         ELSE Len(MultipartRanges(a.ranges))
      BY <1>6, Zenon DEF Announced
    <2>7. Len(Part(r)) = OffsetAndLength(r)[2]
      <3> HIDE DEF r
      <3> QED
        BY <2>3, PartIs
    <2> QED
      BY <2>5, <2>6, <2>7, Zenon DEF a
  <1> QED
    BY <1>4, <1>5, <1>6, Zenon

\* The part of RangesKept about the announced length.
LEMMA LengthsTrue == TextType => LengthIsTrue
  <1> SUFFICES ASSUME TextType, NEW n \in Lengths, NEW status \in {NoStatus, 200, 404},
                      NEW provided \in BOOLEAN,
                      provided /\ Parsed.ranges # <<>> => status = NoStatus
               PROVE  LET a == Answer(Parsed.ranges, status, n)
                      IN  Announced(a) = Len(Written(a, provided))
    BY Zenon DEF LengthIsTrue
  <1> DEFINE rs == Parsed.ranges
  <1>1. text \in Seq(Bytes)
    BY DEF TextType
  <1>2. rs \in Seq(Asked) \/ rs = <<>>
    BY <1>1, ParsedIs, Zenon DEF Parsed
  <1>3. rs \in Seq(Asked) /\ n \in Nat
    <2>1. <<>> \in Seq(Asked) /\ n \in Nat
      BY EmptySeq, LengthsAssumption
    <2> HIDE DEF rs
    <2> QED
      BY <1>2, <2>1, Zenon
  <1>4. provided /\ rs # <<>> => status = NoStatus
    OBVIOUS
  <1> HIDE DEF rs
  <1> QED
    BY <1>3, <1>4, AnnouncedIs DEF rs

\* Ranges arrive, the parts of an answer lie within the content, and the length
\* that is announced is the length of what is written.
THEOREM RangesKept == Spec => []RangesAreAnswered
  <1>1. TextType => RangesAreAnswered
    BY RangesArriveSame, PartsLie, LengthsTrue, Zenon DEF RangesAreAnswered
  <1> QED
    BY <1>1, TextTyped, PTL
=============================================================================
