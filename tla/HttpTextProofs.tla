---------------------------- MODULE HttpTextProofs ----------------------------
(***************************************************************************)
(* Theorems about the texts of HttpFormats, for any texts: what one end    *)
(* encodes or writes, the other decodes and reads as it was; and a route   *)
(* is the handler's exactly if the parts of the path are those of its      *)
(* pattern.                                                                *)
(***************************************************************************)
EXTENDS HttpFormats, SequenceLemmas

\* Every text up to the bound consists of bytes.
TextType ==
  /\ kind \in DOMAIN Alphabet \cup {"form"}
  /\ text \in Seq(Bytes)

\* Every step keeps the text a sequence of bytes.
LEMMA TextTyped == Spec => []TextType
  <1>1. Init => TextType
    BY EmptySeq DEF Init, TextType
  <1>2. TextType /\ [Next]_allVars => TextType'
    <2> SUFFICES ASSUME TextType, [Next]_allVars PROVE TextType'
      OBVIOUS
    <2>1. CASE Spell
      <3>1. PICK part \in Alphabet[kind] : text' = text \o part
        BY <2>1, Zenon DEF Spell
      <3> DEFINE B == Bytes
      <3>2. kind \in DOMAIN Alphabet /\ kind' = kind
        BY <2>1 DEF Spell, TextType
      <3>3. part \in Seq(B)
        BY <3>1, <3>2, AlphabetAssumption
      <3>4. text \in Seq(B)
        BY DEF TextType
      <3> HIDE DEF B
      <3>5. text' \in Seq(B)
        BY <3>1, <3>3, <3>4, ConcatProperties
      <3> QED
        BY <3>2, <3>5 DEF TextType, B
    <2>2. CASE SendForm \/ UNCHANGED allVars
      BY <2>2 DEF SendForm, allVars, TextType
    <2> QED
      BY <2>1, <2>2 DEF Next
  <1> QED
    BY <1>1, <1>2, PTL DEF Spec

-----------------------------------------------------------------------------
(***************************************************************************)
(* Texts in pieces.  What the folds and loops of HttpText and HttpFiles    *)
(* compute, for a sequence that grew at its end.                           *)
(***************************************************************************)
Texts == Seq(Nat)
Lists == Seq(Texts) \ {<<>>}

\* The names between the slashes of a path.
PathNames == Texts \ {<<>>}

PieceStep(ps, v, c) ==
  IF v = c THEN Append(ps, <<>>) ELSE [ps EXCEPT ![Len(ps)] = Append(@, v)]

LastReplaced(s, r) == [s EXCEPT ![Len(s)] = r]

\* The last element of a sequence replaced.
LEMMA ExceptLast ==
  ASSUME NEW S, NEW q \in Seq(S), NEW e \in S, NEW r \in S
  PROVE  LastReplaced(Append(q, e), r) = Append(q, r)
  <1> DEFINE s == Append(q, e)
             t == Append(q, r)
             n == Len(q)
  <1>1. /\ s \in Seq(S) /\ t \in Seq(S) /\ Len(s) = n + 1 /\ Len(t) = n + 1
        /\ \A i \in 1 .. n : s[i] = q[i] /\ t[i] = q[i]
        /\ s[n + 1] = e /\ t[n + 1] = r
        /\ n \in Nat
    BY AppendProperties, LenProperties
  <1> HIDE DEF s, t, n
  <1> DEFINE u == [s EXCEPT ![n + 1] = r]
  <1>2. n + 1 \in 1 .. Len(s)
    BY <1>1
  <1>3. /\ u \in Seq(S) /\ Len(u) = Len(s)
        /\ \A j \in 1 .. Len(s) : u[j] = IF j = n + 1 THEN r ELSE s[j]
    BY <1>1, <1>2, ExceptSeq
  <1> HIDE DEF u
  <1>4. ASSUME NEW j \in 1 .. Len(u)
        PROVE  u[j] = t[j]
    <2>1. j = n + 1 \/ j \in 1 .. n
      BY <1>1, <1>3
    <2> QED
      BY <1>1, <1>3, <2>1
  <1>5. u = t
    BY <1>1, <1>3, <1>4, SeqEqual
  <1> QED
    BY <1>1, <1>5, Zenon DEF s, t, u, LastReplaced

\* A byte after the pieces so far.
LEMMA PieceStepIs ==
  ASSUME NEW c \in Nat, NEW v \in Nat, NEW ps \in Seq(Texts), NEW p \in Texts
  PROVE  /\ v = c => PieceStep(Append(ps, p), v, c) = Append(Append(ps, p), <<>>)
         /\ v # c => PieceStep(Append(ps, p), v, c) = Append(ps, Append(p, v))
         /\ PieceStep(Append(ps, p), v, c) \in Lists
  <1> DEFINE V == Texts
  <1>1. ps \in Seq(V) /\ p \in V /\ Append(p, v) \in V /\ <<>> \in V
    BY DEF Texts
  <1> HIDE DEF V
  <1> DEFINE s == Append(ps, p)
  <1>2. s \in Seq(V) /\ s # <<>> /\ Len(s) = Len(ps) + 1 /\ s[Len(ps) + 1] = p
    BY <1>1, AppendProperties
  <1>3. s[Len(s)] = p
    BY <1>2
  <1>4. [s EXCEPT ![Len(s)] = Append(@, v)] = Append(ps, Append(p, v))
    <2>1. [s EXCEPT ![Len(s)] = Append(@, v)] = [s EXCEPT ![Len(s)] = Append(p, v)]
      BY <1>3
    <2>2. LastReplaced(s, Append(p, v)) = Append(ps, Append(p, v))
      BY <1>1, ExceptLast, Zenon
    <2> QED
      BY <2>1, <2>2, Zenon DEF LastReplaced
  <1>5. /\ Append(ps, Append(p, v)) \in Seq(V) /\ Append(ps, Append(p, v)) # <<>>
        /\ Append(s, <<>>) \in Seq(V) /\ Append(s, <<>>) # <<>>
    BY <1>1, <1>2, AppendProperties
  <1>6. PieceStep(s, v, c) = IF v = c THEN Append(s, <<>>) ELSE Append(ps, Append(p, v))
    BY <1>4, Zenon DEF PieceStep
  <1>7. PieceStep(s, v, c) \in Seq(V) \ {<<>>}
    BY <1>5, <1>6
  <1> QED
    BY <1>6, <1>7, Zenon DEF Lists, V

\* A list of pieces has a last one.
LEMMA LastPiece ==
  ASSUME NEW ps \in Lists
  PROVE  \E qs \in Seq(Texts), q \in Texts : ps = Append(qs, q)
  BY SequenceEmptyOrAppend DEF Lists

\* The fold of Pieces.
LEMMA PiecesIs ==
  ASSUME NEW c \in Nat
  PROVE  /\ Pieces(<<>>, c) = <<<<>>>>
         /\ \A s \in Texts : Pieces(s, c) \in Lists
         /\ \A s \in Texts, v \in Nat :
              Pieces(Append(s, v), c) = PieceStep(Pieces(s, c), v, c)
  <1> DEFINE V == Lists
             step == [v \in Nat |-> [ps \in V |-> PieceStep(ps, v, c)]]
             none == <<<<>>>>
             N == Nat
  <1>1. none \in V /\ \A ps \in V, v \in Nat : PieceStep(ps, v, c) \in V
    <2>1. none \in V
      BY DEF Lists, Texts
    <2>2. ASSUME NEW ps \in V, NEW v \in Nat PROVE PieceStep(ps, v, c) \in V
      <3>1. PICK qs \in Seq(Texts), q \in Texts : ps = Append(qs, q)
        BY LastPiece
      <3>2. PieceStep(Append(qs, q), v, c) \in V
        BY PieceStepIs
      <3> QED
        BY <3>1, <3>2, Zenon
    <2> QED
      BY <2>1, <2>2
  <1> HIDE DEF V, none
  <1>2. step \in [N -> [V -> V]]
    BY <1>1
  <1>3. \A v \in Nat, ps \in V : step[v][ps] = PieceStep(ps, v, c)
    OBVIOUS
  <1> HIDE DEF step, N
  <1>4. ASSUME NEW s \in Texts
        PROVE  Pieces(s, c) = Folded(s, V, none, step)
    <2> DEFINE Fold(g) == g = [u \in SUBSET DOMAIN s |->
                                IF u = {} THEN none
                                ELSE PieceStep(g[u \ {Max(u)}], s[Max(u)], c)]
               it == CHOOSE g : Fold(g)
    <2>1. Pieces(s, c) = it[DOMAIN s]
      BY Zenon DEF Pieces, FoldLeft, MapThenFoldSet, PieceStep, none
    <2>2. /\ s \in Seq(N) /\ Len(s) \in Nat /\ DOMAIN s = 1 .. Len(s)
          /\ \A i \in 1 .. Len(s) : s[i] \in N
      BY LenProperties, ElementOfSeq DEF Texts, N
    <2>3. PICK g \in [SUBSET DOMAIN s -> V] : IsSetFold(g, s, none, step)
      BY <1>1, <1>2, <2>2, SetFoldExists, Zenon
    <2>4. ASSUME NEW u \in SUBSET DOMAIN s, u # {}
          PROVE  s[Max(u)] \in N
      BY <2>2, <2>4, MaxOfSubset, Zenon
    <2>5. ASSUME NEW u \in SUBSET DOMAIN s
          PROVE  g[u] = IF u = {} THEN none ELSE PieceStep(g[u \ {Max(u)}], s[Max(u)], c)
      <3>1. u # {} => g[u] = step[s[Max(u)]][g[u \ {Max(u)}]]
        BY <2>3 DEF IsSetFold
      <3>2. g[u \ {Max(u)}] \in V
        OBVIOUS
      <3>3. g[{}] = none
        BY <2>3 DEF IsSetFold
      <3> QED
        BY <1>3, <2>4, <3>1, <3>2, <3>3, Zenon DEF N
    <2>6. Fold(g)
      <3>1. g = [u \in SUBSET DOMAIN s |-> g[u]]
        OBVIOUS
      <3> QED
        BY <2>5, <3>1, Zenon
    <2>7. Fold(it)
      <3> HIDE DEF Fold
      <3> QED
        BY <2>6, Zenon
    <2>8. \A u \in SUBSET DOMAIN s :
            it[u] = IF u = {} THEN none ELSE PieceStep(it[u \ {Max(u)}], s[Max(u)], c)
      <3> HIDE DEF it
      <3> QED
        BY <2>7, Zenon
    <2> HIDE DEF it
    <2>9. it[{}] = none
      BY <2>8, Zenon
    <2>10. ASSUME NEW u \in SUBSET DOMAIN s, u # {}, it[u \ {Max(u)}] \in V
           PROVE  it[u] = step[s[Max(u)]][it[u \ {Max(u)}]]
      BY <1>3, <2>4, <2>8, <2>10, Zenon DEF N
    <2>11. FitsFold(it, s, V, none, step)
      BY <2>9, <2>10, Zenon DEF FitsFold
    <2>12. it[DOMAIN s] = Folded(s, V, none, step)
      BY <1>1, <1>2, <2>2, <2>11, SetFoldIs
    <2> QED
      BY <2>1, <2>12, Zenon
  <1>5. /\ Folded(<<>>, V, none, step) = none
        /\ \A s \in Seq(N) : Folded(s, V, none, step) \in V
        /\ \A s \in Seq(N), v \in N :
             Folded(Append(s, v), V, none, step) = step[v][Folded(s, V, none, step)]
    BY <1>1, <1>2, FoldedIs
  <1> USE DEF N
  <1>6. <<>> \in Texts /\ \A s \in Texts, v \in Nat : Append(s, v) \in Texts
    BY DEF Texts
  <1>7. Pieces(<<>>, c) = none
    BY <1>4, <1>5, <1>6, Zenon
  <1>8. \A s \in Texts : Pieces(s, c) \in V
    BY <1>4, <1>5, Zenon DEF Texts
  <1>9. ASSUME NEW s \in Texts, NEW v \in Nat
        PROVE  Pieces(Append(s, v), c) = PieceStep(Pieces(s, c), v, c)
    <2>1. Pieces(Append(s, v), c) = step[v][Pieces(s, c)]
      BY <1>4, <1>5, <1>6, Zenon DEF Texts
    <2> QED
      BY <1>3, <1>8, <2>1
  <1> QED
    BY <1>7, <1>8, <1>9, Zenon DEF V, none

-----------------------------------------------------------------------------
\* The elements that are not empty, each alone in a sequence.
Kept(ps) == [i \in DOMAIN ps |-> IF ps[i] = <<>> THEN <<>> ELSE <<ps[i]>>]

\* The elements that are not empty, for a sequence that grew at its end.
LEMMA NotEmptyIs ==
  /\ NotEmpty(<<>>) = <<>>
  /\ \A ps \in Seq(Texts) : NotEmpty(ps) \in Seq(PathNames)
  /\ \A ps \in Seq(Texts), p \in Texts :
       NotEmpty(Append(ps, p)) = IF p = <<>> THEN NotEmpty(ps) ELSE Append(NotEmpty(ps), p)
  <1> DEFINE V == Texts
             W == PathNames
             Q == Seq(W)
  <1>1. W = V \ {<<>>}
    BY DEF PathNames
  <1> HIDE DEF V, W
  <1>8. ASSUME NEW p \in V
        PROVE  (IF p = <<>> THEN <<>> ELSE <<p>>) \in Q
    <2>1. CASE p = <<>>
      BY <2>1
    <2>2. CASE p # <<>>
      <3>1. p \in W
        BY <1>1, <2>2
      <3> QED
        BY <2>2, <3>1
    <2> QED
      BY <2>1, <2>2
  <1>2. \A ps : NotEmpty(ps) = FlattenSeq(Kept(ps))
    BY Zenon DEF NotEmpty, Kept
  <1>3. ASSUME NEW ps \in Seq(V)
        PROVE  /\ Kept(ps) \in Seq(Q) /\ Len(Kept(ps)) = Len(ps)
               /\ \A i \in 1 .. Len(ps) :
                    Kept(ps)[i] = IF ps[i] = <<>> THEN <<>> ELSE <<ps[i]>>
    <2>1. /\ Len(ps) \in Nat /\ DOMAIN ps = 1 .. Len(ps)
          /\ \A i \in 1 .. Len(ps) : ps[i] \in V
      BY LenProperties, ElementOfSeq
    <2>2. \A i \in 1 .. Len(ps) : (IF ps[i] = <<>> THEN <<>> ELSE <<ps[i]>>) \in Q
      BY <1>8, <2>1
    <2> HIDE DEF Q
    <2> QED
      BY <2>1, <2>2 DEF Kept
  <1>4. /\ FlattenSeq(<<>>) = <<>>
        /\ \A ss \in Seq(Q) : FlattenSeq(ss) \in Q
        /\ \A ss \in Seq(Q), s \in Q : FlattenSeq(Append(ss, s)) = FlattenSeq(ss) \o s
    BY FlattenGrows, Zenon
  <1>5. NotEmpty(<<>>) = <<>>
    <2>1. Kept(<<>>) = <<>>
      BY DEF Kept
    <2> QED
      BY <1>2, <1>4, <2>1, Zenon
  <1>6. ASSUME NEW ps \in Seq(V)
        PROVE  NotEmpty(ps) \in Q
    <2> HIDE DEF Q
    <2> QED
      BY <1>2, <1>3, <1>4, Zenon
  <1>7. ASSUME NEW ps \in Seq(V), NEW p \in V
        PROVE  NotEmpty(Append(ps, p)) =
                 IF p = <<>> THEN NotEmpty(ps) ELSE Append(NotEmpty(ps), p)
    <2> DEFINE k == IF p = <<>> THEN <<>> ELSE <<p>>
               ls == Append(ps, p)
    <2>1. k \in Q
      BY <1>8
    <2>2. /\ \A s \in Q : s \o <<>> = s
          /\ p # <<>> => \A s \in Q : s \o <<p>> = Append(s, p)
      BY <1>1, ConcatEmptySeq, AppendIsConcat
    <2> HIDE DEF Q
    <2>3. /\ ls \in Seq(V) /\ Len(ls) = Len(ps) + 1 /\ ls[Len(ps) + 1] = p
          /\ \A i \in 1 .. Len(ps) : ls[i] = ps[i]
          /\ Len(ps) \in Nat
      BY AppendProperties, LenProperties
    <2> HIDE DEF ls
    <2>4. /\ Kept(ps) \in Seq(Q) /\ Len(Kept(ps)) = Len(ps)
          /\ Kept(ls) \in Seq(Q) /\ Len(Kept(ls)) = Len(ps) + 1
      BY <1>3, <2>3
    <2>5. /\ Append(Kept(ps), k) \in Seq(Q)
          /\ Len(Append(Kept(ps), k)) = Len(Kept(ps)) + 1
          /\ \A i \in 1 .. Len(Kept(ps)) : Append(Kept(ps), k)[i] = Kept(ps)[i]
          /\ Append(Kept(ps), k)[Len(Kept(ps)) + 1] = k
      <3> HIDE DEF k
      <3> QED
        BY <2>1, <2>4, AppendProperties
    <2>6. ASSUME NEW i \in 1 .. Len(ps) + 1
          PROVE  Kept(ls)[i] = Append(Kept(ps), k)[i]
      <3>1. Kept(ls)[i] = IF ls[i] = <<>> THEN <<>> ELSE <<ls[i]>>
        BY <1>3, <2>3
      <3>2. CASE i = Len(ps) + 1
        BY <2>3, <2>4, <2>5, <3>1, <3>2
      <3>3. CASE i \in 1 .. Len(ps)
        BY <1>3, <2>3, <2>4, <2>5, <3>1, <3>3
      <3>4. i = Len(ps) + 1 \/ i \in 1 .. Len(ps)
        BY <2>3
      <3> QED
        BY <3>2, <3>3, <3>4, Zenon
    <2> HIDE DEF k
    <2>7. Kept(ls) = Append(Kept(ps), k)
      BY <2>4, <2>5, <2>6, SeqEqual
    <2>8. NotEmpty(ls) = NotEmpty(ps) \o k
      BY <1>2, <1>4, <2>1, <2>4, <2>7, Zenon
    <2>9. CASE p = <<>>
      BY <1>6, <2>2, <2>8, <2>9 DEF k, ls
    <2>10. CASE p # <<>>
      BY <1>6, <2>2, <2>8, <2>10 DEF k, ls
    <2> QED
      BY <2>9, <2>10, Zenon
  <1> QED
    BY <1>5, <1>6, <1>7, Zenon DEF V, W, Q

\* Two sequences lose their empty elements one by one.
LEMMA NotEmptyConcat ==
  ASSUME NEW ps \in Seq(Texts), NEW qs \in Seq(Texts)
  PROVE  NotEmpty(ps \o qs) = NotEmpty(ps) \o NotEmpty(qs)
  <1> DEFINE V == Texts
             W == PathNames
             T == {t \in Seq(V) : NotEmpty(ps \o t) = NotEmpty(ps) \o NotEmpty(t)}
  <1>1. /\ NotEmpty(<<>>) = <<>>
        /\ \A s \in Seq(V) : NotEmpty(s) \in Seq(W)
        /\ \A s \in Seq(V), p \in V :
             NotEmpty(Append(s, p)) = IF p = <<>> THEN NotEmpty(s) ELSE Append(NotEmpty(s), p)
        /\ \A p \in V : p # <<>> => p \in W
    BY NotEmptyIs, Zenon DEF PathNames
  <1> HIDE DEF V, W
  <1>2. ps \in Seq(V) /\ qs \in Seq(V)
    BY DEF V
  <1>3. <<>> \in T
    <2>1. <<>> \in Seq(V) /\ ps \o <<>> = ps
      BY <1>2, EmptySeq, ConcatEmptySeq
    <2>2. NotEmpty(ps) \o <<>> = NotEmpty(ps)
      BY <1>1, <1>2, ConcatEmptySeq
    <2> QED
      BY <1>1, <2>1, <2>2, Zenon
  <1>4. ASSUME NEW t \in Seq(V), NEW p \in V, t \in T
        PROVE  Append(t, p) \in T
    <2>1. ps \o t \in Seq(V) /\ Append(t, p) \in Seq(V)
      BY <1>2, ConcatProperties, AppendProperties
    <2>2. ps \o Append(t, p) = Append(ps \o t, p)
      BY <1>2, ConcatAppend
    <2>3. NotEmpty(ps) \in Seq(W) /\ NotEmpty(t) \in Seq(W)
      BY <1>1, <1>2
    <2>4. p # <<>> => NotEmpty(ps) \o Append(NotEmpty(t), p) = Append(NotEmpty(ps) \o NotEmpty(t), p)
      BY <1>1, <2>3, ConcatAppend
    <2>5. NotEmpty(ps \o t) = NotEmpty(ps) \o NotEmpty(t)
      BY <1>4
    <2>6. NotEmpty(ps \o Append(t, p)) = NotEmpty(ps) \o NotEmpty(Append(t, p))
      BY <1>1, <2>1, <2>2, <2>4, <2>5, Zenon
    <2> QED
      BY <2>1, <2>6
  <1>5. Seq(V) \subseteq T
    <2> HIDE DEF T
    <2> QED
      BY <1>3, <1>4, SeqSetInduction
  <1> QED
    BY <1>2, <1>5

\* A text without the byte c is one piece.
LEMMA OnePiece ==
  ASSUME NEW c \in Nat, NEW t \in Texts, \A i \in 1 .. Len(t) : t[i] # c
  PROVE  Pieces(t, c) = <<t>>
  <1> DEFINE T == {s \in Texts : (\A i \in 1 .. Len(s) : s[i] # c) => Pieces(s, c) = <<s>>}
  <1>1. Pieces(<<>>, c) = <<<<>>>> /\ <<>> \in Texts
    BY PiecesIs DEF Texts
  <1>2. <<>> \in T
    BY <1>1
  <1>3. ASSUME NEW s \in Seq(Nat), NEW v \in Nat, s \in T
        PROVE  Append(s, v) \in T
    <2> DEFINE a == Append(s, v)
    <2>1. /\ a \in Texts /\ Len(a) = Len(s) + 1 /\ a[Len(s) + 1] = v
          /\ \A i \in 1 .. Len(s) : a[i] = s[i]
          /\ Len(s) \in Nat
      BY AppendProperties, LenProperties DEF Texts
    <2> SUFFICES ASSUME \A i \in 1 .. Len(a) : a[i] # c PROVE Pieces(a, c) = <<a>>
      BY <2>1, Zenon
    <2>2. v # c /\ \A i \in 1 .. Len(s) : s[i] # c
      <3>1. Len(s) + 1 \in 1 .. Len(a) /\ \A i \in 1 .. Len(s) : i \in 1 .. Len(a)
        BY <2>1
      <3> HIDE DEF a
      <3> QED
        BY <2>1, <3>1
    <2>3. Pieces(s, c) = <<s>> /\ s \in Texts
      BY <1>3, <2>2
    <2>4. <<s>> = Append(<<>>, s) /\ <<>> \in Seq(Texts) /\ <<a>> = Append(<<>>, a)
      OBVIOUS
    <2>5. Pieces(a, c) = PieceStep(Append(<<>>, s), v, c)
      BY <2>3, <2>4, PiecesIs
    <2>6. PieceStep(Append(<<>>, s), v, c) = Append(<<>>, a)
      <3> DEFINE o == <<>>
      <3>1. o \in Seq(Texts) /\ s \in Texts
        BY <2>3, <2>4
      <3> HIDE DEF o
      <3>2. PieceStep(Append(o, s), v, c) = Append(o, Append(s, v))
        BY <2>2, <3>1, PieceStepIs, SMTT(20)
      <3> QED
        BY <2>2, <3>2, Zenon DEF o
    <2> QED
      BY <2>4, <2>5, <2>6, Zenon
  <1>4. Seq(Nat) \subseteq T
    <2> HIDE DEF T
    <2> QED
      BY <1>2, <1>3, SeqSetInduction
  <1> QED
    BY <1>4 DEF Texts

\* A byte after pieces of which there are two parts.
LEMMA PieceStepConcat ==
  ASSUME NEW c \in Nat, NEW v \in Nat, NEW ps \in Seq(Texts), NEW qs \in Lists
  PROVE  PieceStep(ps \o qs, v, c) = ps \o PieceStep(qs, v, c)
  <1> DEFINE V == Texts
  <1>1. PICK rs \in Seq(V), r \in V : qs = Append(rs, r)
    BY LastPiece
  <1>2. Append(r, v) \in V /\ <<>> \in V
    BY DEF Texts
  <1>3. ASSUME NEW us \in Seq(V)
        PROVE  /\ v = c => PieceStep(Append(us, r), v, c) = Append(Append(us, r), <<>>)
               /\ v # c => PieceStep(Append(us, r), v, c) = Append(us, Append(r, v))
    <2>1. us \in Seq(Texts) /\ r \in Texts
      BY <1>3
    <2> HIDE DEF V
    <2> QED
      BY <2>1, PieceStepIs, ZenonT(30)
  <1>4. ps \in Seq(V)
    OBVIOUS
  <1> HIDE DEF V
  <1>5. ps \o rs \in Seq(V) /\ Append(rs, r) \in Seq(V)
    BY <1>4, ConcatProperties, AppendProperties
  <1>6. /\ ps \o Append(rs, r) = Append(ps \o rs, r)
        /\ ps \o Append(rs, Append(r, v)) = Append(ps \o rs, Append(r, v))
        /\ ps \o Append(Append(rs, r), <<>>) = Append(ps \o Append(rs, r), <<>>)
    BY <1>2, <1>4, <1>5, ConcatAppend
  <1> QED
    BY <1>1, <1>3, <1>5, <1>6, Zenon

\* The byte c ends a piece.
LEMMA PiecesConcat ==
  ASSUME NEW c \in Nat, NEW x \in Texts, NEW y \in Texts
  PROVE  Pieces(Append(x, c) \o y, c) = Pieces(x, c) \o Pieces(y, c)
  <1> DEFINE a == Append(x, c)
             T == {t \in Texts : Pieces(a \o t, c) = Pieces(x, c) \o Pieces(t, c)}
             V == Texts
             none == <<<<>>>>
  <1>1. a \in Texts /\ <<>> \in Texts
    BY DEF Texts
  <1>2. /\ Pieces(<<>>, c) = none
        /\ \A s \in Texts : Pieces(s, c) \in Lists
        /\ \A s \in Texts, v \in Nat : Pieces(Append(s, v), c) = PieceStep(Pieces(s, c), v, c)
    BY PiecesIs
  <1>3. Pieces(x, c) \in Seq(V)
    BY <1>2 DEF Lists
  <1>4. <<>> \in T
    <2>1. a \o <<>> = a
      BY <1>1, ConcatEmptySeq DEF Texts
    <2>2. Pieces(a, c) = Append(Pieces(x, c), <<>>)
      BY <1>2, Zenon DEF PieceStep
    <2>3. Append(Pieces(x, c), <<>>) = Pieces(x, c) \o none
      <3> HIDE DEF V
      <3>1. <<>> \in V
        BY <1>1 DEF V
      <3> QED
        BY <1>3, <3>1, AppendIsConcat
    <2> HIDE DEF a, none
    <2> QED
      BY <1>1, <1>2, <2>1, <2>2, <2>3, Zenon
  <1>5. ASSUME NEW t \in Seq(Nat), NEW v \in Nat, t \in T
        PROVE  Append(t, v) \in T
    <2>1. t \in Texts /\ a \o t \in Texts /\ Append(t, v) \in Texts
      BY <1>1, ConcatProperties, AppendProperties DEF Texts
    <2>2. a \o Append(t, v) = Append(a \o t, v)
      <3> HIDE DEF a
      <3>1. a \in Seq(Nat)
        BY <1>1 DEF Texts
      <3> QED
        BY <3>1, ConcatAppend
    <2>3. Pieces(a \o t, c) = Pieces(x, c) \o Pieces(t, c)
      BY <1>5
    <2> HIDE DEF a, V
    <2>4. Pieces(a \o Append(t, v), c) = PieceStep(Pieces(x, c) \o Pieces(t, c), v, c)
      BY <1>2, <2>1, <2>2, <2>3, Zenon
    <2>5. PieceStep(Pieces(x, c) \o Pieces(t, c), v, c)
            = Pieces(x, c) \o PieceStep(Pieces(t, c), v, c)
      BY <1>2, <1>3, <2>1, PieceStepConcat, Zenon DEF V
    <2>6. Pieces(Append(t, v), c) = PieceStep(Pieces(t, c), v, c)
      BY <1>2, <2>1
    <2>7. Pieces(a \o Append(t, v), c) = Pieces(x, c) \o Pieces(Append(t, v), c)
      BY <2>4, <2>5, <2>6, Zenon
    <2> QED
      BY <2>1, <2>7
  <1>6. Seq(Nat) \subseteq T
    <2> HIDE DEF T
    <2> QED
      BY <1>4, <1>5, SeqSetInduction
  <1> QED
    BY <1>6 DEF Texts

\* A slash separates the names of a path.
LEMMA ComponentsConcat ==
  ASSUME NEW x \in Texts, NEW y \in Texts
  PROVE  /\ Components(x) \in Seq(PathNames)
         /\ Components(Append(x, Slash) \o y) = Components(x) \o Components(y)
  <1>1. Slash \in Nat
    BY DEF Slash
  <1>2. Pieces(x, Slash) \in Seq(Texts) /\ Pieces(y, Slash) \in Seq(Texts)
    BY <1>1, PiecesIs DEF Lists
  <1>3. Pieces(Append(x, Slash) \o y, Slash) = Pieces(x, Slash) \o Pieces(y, Slash)
    BY <1>1, PiecesConcat, Zenon
  <1>4. NotEmpty(Pieces(x, Slash) \o Pieces(y, Slash))
          = NotEmpty(Pieces(x, Slash)) \o NotEmpty(Pieces(y, Slash))
    BY <1>2, NotEmptyConcat
  <1>5. NotEmpty(Pieces(x, Slash)) \in Seq(PathNames)
    BY <1>2, NotEmptyIs
  <1> QED
    BY <1>3, <1>4, <1>5, Zenon DEF Components

\* A text without a slash is a name.
LEMMA ComponentsOfName ==
  /\ Components(<<>>) = <<>>
  /\ Components(IndexHtml) = <<IndexHtml>>
  <1>1. Components(<<>>) = <<>>
    <2>1. Pieces(<<>>, Slash) = <<<<>>>>
      BY PiecesIs DEF Slash
    <2>2. <<<<>>>> = Append(<<>>, <<>>) /\ <<>> \in Seq(Texts) /\ <<>> \in Texts
      BY DEF Texts
    <2>3. NotEmpty(Append(<<>>, <<>>)) = <<>>
      BY <2>2, NotEmptyIs, Zenon
    <2> QED
      BY <2>1, <2>2, <2>3, Zenon DEF Components
  <1>2. Components(IndexHtml) = <<IndexHtml>>
    <2>1. /\ IndexHtml \in Texts /\ \A i \in 1 .. Len(IndexHtml) : IndexHtml[i] # Slash
          /\ Slash \in Nat /\ IndexHtml # <<>>
      BY DEF IndexHtml, Slash, Texts
    <2>2. Pieces(IndexHtml, Slash) = <<IndexHtml>>
      BY <2>1, OnePiece
    <2> DEFINE h == IndexHtml
    <2>3. h \in Texts /\ h # <<>>
      BY <2>1
    <2> HIDE DEF h
    <2>4. <<h>> = Append(<<>>, h) /\ <<>> \in Seq(Texts)
      OBVIOUS
    <2>5. NotEmpty(Append(<<>>, h)) = Append(<<>>, h)
      BY <2>3, <2>4, NotEmptyIs, Zenon
    <2> QED
      BY <2>2, <2>4, <2>5, Zenon DEF Components, h
  <1> QED
    BY <1>1, <1>2

-----------------------------------------------------------------------------
(***************************************************************************)
(* Recursion from the end of a sequence to its beginning: step[i] makes    *)
(* the value at i from those behind it.                                    *)
(***************************************************************************)
LooksAhead(step, n, V) ==
  /\ step \in [1 .. n -> [[1 .. n -> V] -> V]]
  /\ \A i \in 1 .. n : \A f, g \in [1 .. n -> V] :
       (\A j \in i + 1 .. n : f[j] = g[j]) => step[i][f] = step[i][g]

IsRecursion(f, step, n, V) ==
  /\ f \in [1 .. n -> V]
  /\ \A i \in 1 .. n : f[i] = step[i][f]

\* There is a function that the recursion defines.
LEMMA BackwardRecursion ==
  ASSUME NEW n \in Nat, NEW V, NEW none \in V, NEW step, LooksAhead(step, n, V)
  PROVE  \E f : IsRecursion(f, step, n, V)
  <1> DEFINE W == [1 .. n -> V]
             base == [i \in 1 .. n |-> none]
             Next1(i, f) == [f EXCEPT ![n + 1 - i] = step[n + 1 - i][f]]
             steps == [i \in 1 .. n |-> [f \in W |-> Next1(i, f)]]
  <1>1. base \in W
    OBVIOUS
  <1>2. ASSUME NEW i \in 1 .. n, NEW f \in W
        PROVE  step[n + 1 - i][f] \in V /\ n + 1 - i \in 1 .. n
    BY DEF LooksAhead
  <1>3. ASSUME NEW i \in 1 .. n, NEW f \in W
        PROVE  Next1(i, f) \in W
    BY <1>2
  <1>4. steps \in [1 .. n -> [W -> W]]
    BY <1>3
  <1>5. \A i \in 1 .. n, f \in W : steps[i][f] = Next1(i, f)
    OBVIOUS
  <1> HIDE DEF steps, base, Next1
  <1>6. PICK h \in [0 .. n -> W] : IsLoop(h, n, base, steps)
    <2> HIDE DEF W
    <2> QED
      BY <1>1, <1>4, LoopRecursion
  <1> DEFINE T == {k \in Nat : k <= n => \A i \in n + 1 - k .. n : h[k][i] = step[i][h[k]]}
  <1>7. 0 \in T
    OBVIOUS
  <1>8. ASSUME NEW k \in Nat, k \in T
        PROVE  k + 1 \in T
    <2> SUFFICES ASSUME k + 1 <= n
                 PROVE  \A i \in n + 1 - (k + 1) .. n : h[k + 1][i] = step[i][h[k + 1]]
      OBVIOUS
    <2> DEFINE m == n - k
               f == h[k]
               g == h[k + 1]
    <2>1. f \in W /\ g \in W /\ m \in 1 .. n /\ n + 1 - (k + 1) = m
      OBVIOUS
    <2>2. g = Next1(k + 1, f)
      <3>1. k + 1 \in 1 .. n /\ (k + 1) - 1 = k
        OBVIOUS
      <3>2. h[k + 1] = steps[k + 1][h[(k + 1) - 1]]
        BY <1>6, <3>1 DEF IsLoop
      <3> QED
        BY <1>5, <2>1, <3>1, <3>2
    <2>3. g = [f EXCEPT ![m] = step[m][f]]
      BY <2>1, <2>2 DEF Next1
    <2>4. \A i \in m + 1 .. n : f[i] = step[i][f]
      BY <1>8
    <2> HIDE DEF f, g, m
    <2>5. /\ g[m] = step[m][f]
          /\ \A j \in m + 1 .. n : g[j] = f[j]
      BY <2>1, <2>3
    <2>6. ASSUME NEW i \in m .. n
          PROVE  g[i] = step[i][g]
      <3>1. i \in 1 .. n /\ \A j \in i + 1 .. n : f[j] = g[j]
        BY <2>1, <2>5
      <3>2. step[i][f] = step[i][g]
        BY <2>1, <3>1, Zenon DEF LooksAhead
      <3>3. CASE i = m
        BY <2>5, <3>2, <3>3
      <3>4. CASE i # m
        <4>1. i \in m + 1 .. n
          BY <2>1, <3>4
        <4> QED
          BY <2>4, <2>5, <3>2, <4>1
      <3> QED
        BY <3>3, <3>4
    <2> QED
      BY <2>1, <2>6 DEF g
  <1>9. n \in T
    <2> HIDE DEF T
    <2> QED
      BY <1>7, <1>8, NatSetInduction, Zenon
  <1>10. h[n] \in W /\ \A i \in 1 .. n : h[n][i] = step[i][h[n]]
    BY <1>9
  <1> QED
    BY <1>10, Zenon DEF IsRecursion

-----------------------------------------------------------------------------
(***************************************************************************)
(* Codes.  A text is written with a code for each of its bytes.            *)
(***************************************************************************)
\* u has the elements of s and then those of t.
Joins(S, s, t, u) ==
  /\ s \in Seq(S) /\ t \in Seq(S) /\ u \in Seq(S)
  /\ Len(u) = Len(s) + Len(t)
  /\ \A i \in 1 .. Len(s) : u[i] = s[i]
  /\ \A i \in 1 .. Len(t) : u[Len(s) + i] = t[i]

\* It is their concatenation then.
LEMMA JoinedIs ==
  ASSUME NEW S, NEW s, NEW t, NEW u, Joins(S, s, t, u)
  PROVE  s \o t = u
  <1>1. /\ s \in Seq(S) /\ t \in Seq(S) /\ u \in Seq(S)
        /\ Len(u) = Len(s) + Len(t)
        /\ \A i \in 1 .. Len(s) : u[i] = s[i]
        /\ \A i \in 1 .. Len(t) : u[Len(s) + i] = t[i]
    BY DEF Joins
  <1> QED
    BY <1>1, ConcatIs, Zenon

Coded(s, code) == [i \in DOMAIN s |-> code[s[i]]]
Spelled(s, code) == FlattenSeq(Coded(s, code))
IsCode(code, B, S) == code \in [B -> S]
ByteCodes == [Bytes -> Seq(Bytes)]

\* The codes of a text that grew or is a concatenation.
LEMMA CodedIs ==
  ASSUME NEW B, NEW S, NEW code, IsCode(code, B, S)
  PROVE  /\ Coded(<<>>, code) = <<>>
         /\ \A s \in Seq(B) : Coded(s, code) \in Seq(S)
         /\ \A s \in Seq(B), t \in Seq(B) :
              Coded(s \o t, code) = Coded(s, code) \o Coded(t, code)
         /\ \A c \in B : Coded(<<c>>, code) = <<code[c]>>
  <1>1. ASSUME NEW s \in Seq(B)
        PROVE  /\ Coded(s, code) \in Seq(S) /\ Len(Coded(s, code)) = Len(s)
               /\ \A i \in 1 .. Len(s) : Coded(s, code)[i] = code[s[i]]
               /\ Len(s) \in Nat
    <2>1. /\ Len(s) \in Nat /\ DOMAIN s = 1 .. Len(s)
          /\ \A i \in 1 .. Len(s) : s[i] \in B
      BY LenProperties, ElementOfSeq
    <2> QED
      BY <2>1 DEF Coded, IsCode
  <1>2. Coded(<<>>, code) = <<>>
    BY <1>1, EmptySeq, Zenon
  <1>3. ASSUME NEW s \in Seq(B), NEW t \in Seq(B)
        PROVE  Coded(s \o t, code) = Coded(s, code) \o Coded(t, code)
    <2> DEFINE a == Coded(s, code)
               b == Coded(t, code)
               u == s \o t
               e == Coded(u, code)
               m == Len(s)
               n == Len(t)
    <2>1. /\ u \in Seq(B) /\ Len(u) = m + n
          /\ \A i \in 1 .. m + n : u[i] = IF i <= m THEN s[i] ELSE t[i - m]
      BY ConcatProperties
    <2>2. /\ a \in Seq(S) /\ Len(a) = m /\ b \in Seq(S) /\ Len(b) = n
          /\ m \in Nat /\ n \in Nat
          /\ \A i \in 1 .. m : a[i] = code[s[i]]
          /\ \A i \in 1 .. n : b[i] = code[t[i]]
      BY <1>1
    <2>3. /\ e \in Seq(S) /\ Len(e) = Len(u)
          /\ \A i \in 1 .. Len(u) : e[i] = code[u[i]]
      BY <1>1, <2>1, Zenon
    <2> HIDE DEF a, b, u, e, m, n
    <2>4. Len(e) = Len(a) + Len(b)
      BY <2>1, <2>2, <2>3
    <2>5. ASSUME NEW i \in 1 .. Len(a)
          PROVE  e[i] = a[i]
      <3>1. i \in 1 .. m /\ i \in 1 .. m + n /\ i <= m
        BY <2>2
      <3>2. u[i] = s[i]
        BY <2>1, <3>1
      <3>3. e[i] = code[s[i]]
        BY <2>1, <2>3, <3>1, <3>2
      <3> QED
        BY <2>2, <3>1, <3>3
    <2>6. ASSUME NEW i \in 1 .. Len(b)
          PROVE  e[Len(a) + i] = b[i]
      <3>1. /\ i \in 1 .. n /\ m + i \in 1 .. m + n /\ ~(m + i <= m) /\ (m + i) - m = i
        BY <2>2
      <3>2. u[m + i] = t[i]
        BY <2>1, <3>1
      <3>3. e[m + i] = code[t[i]]
        BY <2>1, <2>3, <3>1, <3>2
      <3> QED
        BY <2>2, <3>1, <3>3
    <2>7. Joins(S, a, b, e)
      BY <2>2, <2>3, <2>4, <2>5, <2>6 DEF Joins
    <2>8. a \o b = e
      BY <2>7, JoinedIs
    <2> QED
      BY <2>8 DEF a, b, e, u
  <1>4. ASSUME NEW c \in B
        PROVE  Coded(<<c>>, code) = <<code[c]>>
    <2> DEFINE s == <<c>>
    <2>1. s \in Seq(B) /\ Len(s) = 1 /\ s[1] = c
      OBVIOUS
    <2> HIDE DEF s
    <2>2. /\ Coded(s, code) \in Seq(S) /\ Len(Coded(s, code)) = 1
          /\ Coded(s, code)[1] = code[c]
      BY <1>1, <2>1
    <2> HIDE DEF Coded
    <2>3. Coded(s, code) = <<code[c]>>
      BY <2>2
    <2> QED
      BY <2>3, Zenon DEF s
  <1> QED
    BY <1>1, <1>2, <1>3, <1>4

\* What is written for a text that grew or is a concatenation.
LEMMA SpelledIs ==
  ASSUME NEW code \in ByteCodes
  PROVE  /\ Spelled(<<>>, code) = <<>>
         /\ \A s \in Seq(Bytes) : Spelled(s, code) \in Seq(Bytes)
         /\ \A s \in Seq(Bytes), t \in Seq(Bytes) :
              Spelled(s \o t, code) = Spelled(s, code) \o Spelled(t, code)
         /\ \A c \in Bytes : Spelled(<<c>>, code) = code[c]
  <1> DEFINE N == Bytes
  <1>1. code \in [Bytes -> Seq(N)] /\ IsCode(code, Bytes, Seq(N))
    BY DEF ByteCodes, IsCode
  <1> HIDE DEF N
  <1>2. Spelled(<<>>, code) = <<>>
    <2>1. Coded(<<>>, code) = <<>>
      BY <1>1, CodedIs
    <2> QED
      BY <2>1, FlattenGrows DEF Spelled
  <1>3. ASSUME NEW s \in Seq(Bytes)
        PROVE  Spelled(s, code) \in Seq(N)
    BY <1>1, CodedIs, FlattenGrows DEF Spelled
  <1>4. ASSUME NEW s \in Seq(Bytes), NEW t \in Seq(Bytes)
        PROVE  Spelled(s \o t, code) = Spelled(s, code) \o Spelled(t, code)
    <2>1. /\ Coded(s, code) \in Seq(Seq(N)) /\ Coded(t, code) \in Seq(Seq(N))
          /\ Coded(s \o t, code) = Coded(s, code) \o Coded(t, code)
      <3> DEFINE V == Seq(N)
      <3>1. IsCode(code, Bytes, V)
        BY <1>1
      <3> HIDE DEF V
      <3>2. /\ Coded(s, code) \in Seq(V) /\ Coded(t, code) \in Seq(V)
            /\ Coded(s \o t, code) = Coded(s, code) \o Coded(t, code)
        BY <3>1, CodedIs
      <3> QED
        BY <3>2, Zenon DEF V
    <2>2. FlattenSeq(Coded(s, code) \o Coded(t, code))
            = FlattenSeq(Coded(s, code)) \o FlattenSeq(Coded(t, code))
      BY <2>1, FlattenConcat
    <2> QED
      BY <2>1, <2>2, Zenon DEF Spelled
  <1>5. ASSUME NEW c \in Bytes
        PROVE  Spelled(<<c>>, code) = code[c]
    <2> DEFINE w == code[c]
               o == <<>>
    <2>1. w \in Seq(N) /\ o \in Seq(Seq(N)) /\ Coded(<<c>>, code) = Append(o, w)
      <3>1. Coded(<<c>>, code) = <<w>>
        BY <1>1, CodedIs
      <3> QED
        BY <1>1, <3>1
    <2>2. FlattenSeq(o) = <<>>
      BY <1>1, FlattenGrows
    <2> HIDE DEF w, o
    <2>3. FlattenSeq(Append(o, w)) = FlattenSeq(o) \o w
      BY <2>1, FlattenGrows
    <2>4. <<>> \o w = w
      BY <2>1, ConcatEmptySeq
    <2> QED
      BY <2>1, <2>2, <2>3, <2>4, Zenon DEF Spelled, w
  <1> QED
    BY <1>2, <1>3, <1>4, <1>5, Zenon DEF N

-----------------------------------------------------------------------------
(***************************************************************************)
(* Percent encoding.  The codes of the two encodings, and of a value that  *)
(* is encoded by both.                                                     *)
(***************************************************************************)
UrlCode == [c \in Bytes |->
  IF c >= 128 \/ c \in {Space, 13, 10, 39, Plus, Comma, 59} THEN Escaped(c) ELSE <<c>>]
ParamCode == [c \in Bytes |-> IF c \in Unreserved THEN <<c>> ELSE Escaped(c)]
ValueCode == [c \in Bytes |-> IF c \in Unreserved \ {39} THEN <<c>> ELSE Escaped(c)]

\* What encode_url reads to the end.
NoNul == Bytes \ {0}

\* The letters and digits of an escape.
HexDigits == Digits \cup 65..70

\* A digit says its number.
LEMMA HexIs ==
  ASSUME NEW d \in 0 .. 15
  PROVE  Hex(d) \in HexDigits /\ IsHex(Hex(d)) /\ HexValue(Hex(d)) = d
  <1>1. d < 10 \/ d \in 10 .. 15
    OBVIOUS
  <1>2. CASE d < 10
    BY <1>2 DEF Hex, HexDigits, IsHex, HexValue, Digits
  <1>3. CASE d \in 10 .. 15
    BY <1>3 DEF Hex, HexDigits, IsHex, HexValue, Digits, Upper
  <1> QED
    BY <1>1, <1>2, <1>3

\* An escape is three bytes.
LEMMA EscapedIs ==
  ASSUME NEW c \in Bytes
  PROVE  /\ Escaped(c) \in Seq(Bytes) /\ Len(Escaped(c)) = 3 /\ Escaped(c)[1] = Percent
         /\ Escaped(c)[2] \in HexDigits /\ Escaped(c)[3] \in HexDigits
         /\ IsHex(Escaped(c)[2]) /\ IsHex(Escaped(c)[3])
         /\ 16 * HexValue(Escaped(c)[2]) + HexValue(Escaped(c)[3]) = c
  <1> DEFINE h == c \div 16
             l == c % 16
             x == Hex(h)
             y == Hex(l)
  <1>1. h \in 0 .. 15 /\ l \in 0 .. 15 /\ 16 * h + l = c
    BY DEF Bytes
  <1> HIDE DEF h, l
  <1>2. /\ x \in HexDigits /\ IsHex(x) /\ HexValue(x) = h
        /\ y \in HexDigits /\ IsHex(y) /\ HexValue(y) = l
    BY <1>1, HexIs
  <1>3. Escaped(c) = <<Percent, x, y>>
    BY Zenon DEF Escaped, h, l
  <1> HIDE DEF x, y
  <1>4. Percent \in Bytes /\ HexDigits \subseteq Bytes
    BY DEF Percent, HexDigits, Digits, Bytes
  <1> DEFINE e == Escaped(c)
  <1>5. e \in Seq(Bytes) /\ Len(e) = 3 /\ e[1] = Percent /\ e[2] = x /\ e[3] = y
    BY <1>2, <1>3, <1>4
  <1> HIDE DEF e
  <1>6. 16 * HexValue(e[2]) + HexValue(e[3]) = c
    BY <1>1, <1>2, <1>5
  <1> QED
    BY <1>2, <1>5, <1>6, Zenon DEF e

\* The codes are codes.
LEMMA CodeTypes ==
  UrlCode \in ByteCodes /\ ParamCode \in ByteCodes /\ ValueCode \in ByteCodes
  <1> DEFINE V == Seq(Bytes)
  <1>1. \A c \in Bytes : <<c>> \in V
    OBVIOUS
  <1>2. \A c \in Bytes : Escaped(c) \in V
    BY EscapedIs
  <1> HIDE DEF V
  <1>3. UrlCode \in [Bytes -> V]
    BY <1>1, <1>2 DEF UrlCode
  <1>4. ParamCode \in [Bytes -> V]
    BY <1>1, <1>2 DEF ParamCode
  <1>5. ValueCode \in [Bytes -> V]
    BY <1>1, <1>2 DEF ValueCode
  <1> QED
    BY <1>3, <1>4, <1>5, Zenon DEF ByteCodes, V

\* The first place of a byte.
LEMMA FindIs ==
  ASSUME NEW S, NEW s \in Seq(S), NEW c
  PROVE  /\ (\A i \in 1 .. Len(s) : s[i] # c) => Find(s, c) = 0
         /\ \A i \in 1 .. Len(s) :
              s[i] = c /\ (\A k \in 1 .. i - 1 : s[k] # c) => Find(s, c) = i
  <1> DEFINE I == {i \in 1 .. Len(s) : s[i] = c}
  <1>1. Find(s, c) = IF I # {} THEN Min(I) ELSE 0
    BY Zenon DEF Find, SelectInSeq
  <1>2. ASSUME \A i \in 1 .. Len(s) : s[i] # c
        PROVE  Find(s, c) = 0
    BY <1>1, <1>2
  <1>3. ASSUME NEW i \in 1 .. Len(s), s[i] = c, \A k \in 1 .. i - 1 : s[k] # c
        PROVE  Find(s, c) = i
    <2>1. i \in I
      BY <1>3
    <2>2. \A k \in I : i =< k
      <3> SUFFICES ASSUME NEW k \in I PROVE i =< k
        OBVIOUS
      <3>1. Len(s) \in Nat
        BY LenProperties
      <3>2. ~(k \in 1 .. i - 1)
        BY <1>3
      <3> QED
        BY <3>1, <3>2
    <2>3. I \subseteq Int
      OBVIOUS
    <2> HIDE DEF I
    <2> DEFINE m == CHOOSE x \in I : \A y \in I : x =< y
    <2>4. m \in I /\ \A y \in I : m =< y
      BY <2>1, <2>2, Zenon
    <2> HIDE DEF m
    <2>5. m = i
      BY <2>1, <2>2, <2>3, <2>4
    <2>6. Min(I) = m
      BY Zenon DEF Min, m
    <2> QED
      BY <1>1, <2>1, <2>5, <2>6
  <1> QED
    BY <1>2, <1>3

\* The first place of a byte that is behind a text without it, and what stands
\* before and behind this place.
LEMMA FoundAt ==
  ASSUME NEW S, NEW c \in S, NEW a \in Seq(S \ {c}), NEW b \in Seq(S)
  PROVE  LET x == a \o (<<c>> \o b)
         IN  /\ Find(x, c) = Len(a) + 1
             /\ SubSeq(x, 1, Len(a)) = a
             /\ SubSeq(x, Len(a) + 2, Len(x)) = b
             /\ Len(a) \in Nat
  <1> DEFINE o == <<c>>
             x == a \o (o \o b)
             m == Len(a)
             n == Len(b)
  <1>1. a \in Seq(S) /\ o \in Seq(S) /\ Len(o) = 1 /\ o[1] = c /\ m \in Nat /\ n \in Nat
    BY SeqMonotonic
  <1>2. \A i \in 1 .. m : a[i] # c
    BY ElementOfSeq
  <1> HIDE DEF o, x, m, n
  <1>3. /\ o \o b \in Seq(S) /\ Len(o \o b) = 1 + n
        /\ (o \o b)[1] = c /\ \A i \in 1 .. n : (o \o b)[1 + i] = b[i]
    <2>1. /\ o \o b \in Seq(S) /\ Len(o \o b) = Len(o) + Len(b)
          /\ \A i \in 1 .. Len(o) + Len(b) :
               (o \o b)[i] = IF i <= Len(o) THEN o[i] ELSE b[i - Len(o)]
      BY <1>1, ConcatProperties, Zenon
    <2>2. \A i \in 1 .. 1 + n : (o \o b)[i] = IF i <= 1 THEN o[i] ELSE b[i - 1]
      BY <1>1, <2>1 DEF n
    <2>3. (o \o b)[1] = c
      BY <1>1, <2>2
    <2>4. ASSUME NEW i \in 1 .. n
          PROVE  (o \o b)[1 + i] = b[i]
      <3>1. 1 + i \in 1 .. 1 + n /\ ~(1 + i <= 1) /\ (1 + i) - 1 = i
        BY <1>1
      <3> QED
        BY <2>2, <3>1, Zenon
    <2> QED
      BY <1>1, <2>1, <2>3, <2>4 DEF n
  <1>4. /\ x \in Seq(S) /\ Len(x) = m + 1 + n
        /\ \A i \in 1 .. m : x[i] = a[i]
        /\ x[m + 1] = c
        /\ \A i \in 1 .. n : x[m + 1 + i] = b[i]
    <2> DEFINE d == o \o b
    <2>1. /\ d \in Seq(S) /\ Len(d) = 1 + n /\ d[1] = c
          /\ \A i \in 1 .. n : d[1 + i] = b[i]
      BY <1>3, Zenon
    <2> HIDE DEF d
    <2>2. /\ a \o d \in Seq(S) /\ Len(a \o d) = Len(a) + Len(d)
          /\ \A i \in 1 .. Len(a) + Len(d) :
               (a \o d)[i] = IF i <= Len(a) THEN a[i] ELSE d[i - Len(a)]
      BY <1>1, <2>1, ConcatProperties, Zenon
    <2>3. x = a \o d
      BY Zenon DEF x, d
    <2>4. /\ x \in Seq(S) /\ Len(x) = m + (1 + n)
          /\ \A i \in 1 .. m + (1 + n) : x[i] = IF i <= m THEN a[i] ELSE d[i - m]
      BY <2>1, <2>2, <2>3, Zenon DEF m
    <2>5. \A i \in 1 .. m : x[i] = a[i]
      BY <1>1, <2>4
    <2>6. x[m + 1] = c
      BY <1>1, <2>1, <2>4
    <2>7. ASSUME NEW i \in 1 .. n
          PROVE  x[m + 1 + i] = b[i]
      <3>1. /\ m + 1 + i \in 1 .. m + (1 + n) /\ ~(m + 1 + i <= m)
            /\ (m + 1 + i) - m = 1 + i
        BY <1>1
      <3> QED
        BY <2>1, <2>4, <3>1, Zenon
    <2> QED
      BY <1>1, <2>4, <2>5, <2>6, <2>7
  <1>5. Find(x, c) = m + 1
    <2>1. m + 1 \in 1 .. Len(x) /\ (m + 1) - 1 = m
      <3>1. m \in Nat /\ n \in Nat
        BY <1>1
      <3>2. Len(x) = m + 1 + n
        BY <1>4, Zenon
      <3> QED
        BY <3>1, <3>2
    <2>2. \A k \in 1 .. (m + 1) - 1 : x[k] # c
      BY <1>2, <1>4, <2>1
    <2> QED
      BY <1>4, <2>1, <2>2, FindIs, Zenon
  <1>6. SubSeq(x, 1, m) = a
    <2>1. 1 \in 1 .. Len(x) + 1 /\ m \in 1 - 1 .. Len(x)
      BY <1>1, <1>4
    <2>2. /\ SubSeq(x, 1, m) \in Seq(S) /\ Len(SubSeq(x, 1, m)) = m - 1 + 1
          /\ \A i \in 1 .. m - 1 + 1 : SubSeq(x, 1, m)[i] = x[1 + i - 1]
      BY <1>4, <2>1, PieceOf
    <2>3. m - 1 + 1 = m /\ \A i \in 1 .. m : 1 + i - 1 = i
      BY <1>1
    <2>4. \A i \in 1 .. m : SubSeq(x, 1, m)[i] = a[i]
      BY <1>4, <2>2, <2>3
    <2> QED
      BY <1>1, <2>2, <2>3, <2>4, SeqEqual DEF m
  <1>7. SubSeq(x, m + 2, Len(x)) = b
    <2> DEFINE l == m + 2
               r == Len(x)
               e == SubSeq(x, l, r)
    <2>1. l \in 1 .. r + 1 /\ r \in l - 1 .. r
      BY <1>1, <1>4
    <2> HIDE DEF l
    <2>2. /\ e \in Seq(S) /\ Len(e) = r - l + 1
          /\ \A i \in 1 .. r - l + 1 : e[i] = x[l + i - 1]
      BY <1>4, <2>1, PieceOf
    <2> HIDE DEF e
    <2>3. r - l + 1 = n /\ \A i \in 1 .. n : l + i - 1 = m + 1 + i
      BY <1>1, <1>4 DEF l
    <2>4. \A i \in 1 .. n : e[i] = b[i]
      BY <1>4, <2>2, <2>3
    <2>5. e = b
      BY <1>1, <2>2, <2>3, <2>4, SeqEqual, Zenon DEF n
    <2> QED
      BY <2>5 DEF e, l
  <1> QED
    BY <1>1, <1>5, <1>6, <1>7, Zenon DEF x, o, m

\* A text is divided there.
LEMMA DivideIs ==
  ASSUME NEW S, NEW c \in S, NEW a \in Seq(S \ {c}), NEW b \in Seq(S)
  PROVE  Divide(a \o (<<c>> \o b), c) = <<a, b>>
  <1> DEFINE x == a \o (<<c>> \o b)
             m == Len(a)
  <1>1. /\ Find(x, c) = m + 1 /\ m \in Nat
        /\ SubSeq(x, 1, m) = a /\ SubSeq(x, m + 2, Len(x)) = b
    BY FoundAt
  <1> HIDE DEF x, m
  <1>2. m + 1 # 0 /\ (m + 1) - 1 = m /\ (m + 1) + 1 = m + 2
    BY <1>1
  <1>3. Divide(x, c) = <<a, b>>
    BY <1>1, <1>2, Zenon DEF Divide
  <1> QED
    BY <1>3, Zenon DEF x

\* A text without the byte is not divided.
LEMMA DivideNone ==
  ASSUME NEW S, NEW c, NEW a \in Seq(S \ {c})
  PROVE  Find(a, c) = 0 /\ Divide(a, c) = <<a, <<>>>>
  <1>1. \A i \in 1 .. Len(a) : a[i] # c
    BY ElementOfSeq
  <1>2. Find(a, c) = 0
    BY <1>1, FindIs
  <1> QED
    BY <1>2, Zenon DEF Divide

\* What is written with codes of certain bytes has only these.
LEMMA SpelledIn ==
  ASSUME NEW A, NEW B, NEW code, \A c \in A : code[c] \in Seq(B), NEW s \in Seq(A)
  PROVE  Spelled(s, code) \in Seq(B)
  <1> DEFINE V == Seq(B)
             e == Coded(s, code)
  <1>1. /\ Len(s) \in Nat /\ DOMAIN s = 1 .. Len(s)
        /\ \A i \in 1 .. Len(s) : s[i] \in A
    BY LenProperties, ElementOfSeq
  <1>2. \A c \in A : code[c] \in V
    OBVIOUS
  <1>3. e \in Seq(V)
    <2> HIDE DEF V
    <2> QED
      BY <1>1, <1>2 DEF Coded
  <1> HIDE DEF e
  <1>4. FlattenSeq(e) \in Seq(B)
    BY <1>3, FlattenGrows
  <1> QED
    BY <1>4, Zenon DEF Spelled, e

\* What is before the first NUL has none.
LEMMA BeforeNul ==
  ASSUME NEW s \in Seq(Bytes)
  PROVE  UpToNul(s) \in Seq(NoNul)
  <1> DEFINE n == Len(s)
             I == {i \in 1 .. n : s[i] = 0}
             m == CHOOSE x \in I : \A y \in I : x =< y
  <1>1. n \in Nat /\ \A i \in 1 .. n : s[i] \in Bytes
    BY LenProperties, ElementOfSeq
  <1>2. Find(s, 0) = IF I # {} THEN m ELSE 0
    BY Zenon DEF Find, SelectInSeq, Min
  <1>3. CASE I = {}
    <2>1. \A i \in 1 .. n : s[i] \in NoNul
      BY <1>1, <1>3 DEF NoNul
    <2>2. UpToNul(s) = s
      BY <1>2, <1>3 DEF UpToNul, Divide
    <2>3. SubSeq(s, 1, n) = s
      BY SubSeqFull
    <2>4. SubSeq(s, 1, n) \in Seq(NoNul)
      BY <1>1, <2>1, SubSeqProperties
    <2> QED
      BY <2>2, <2>3, <2>4, Zenon
  <1>4. CASE I # {}
    <2>1. I \subseteq Nat
      BY <1>1
    <2>2. \E x \in I : \A y \in I : x =< y
      BY <1>4, <2>1, LeastNumber
    <2> HIDE DEF I
    <2>3. m \in I /\ \A y \in I : m =< y
      BY <2>2, Zenon
    <2> HIDE DEF m
    <2>4. m \in 1 .. n /\ \A k \in 1 .. m - 1 : k \in 1 .. n /\ s[k] # 0
      BY <1>1, <2>3 DEF I
    <2>5. UpToNul(s) = SubSeq(s, 1, m - 1)
      <3>1. Find(s, 0) = m /\ m # 0
        BY <1>2, <1>4, <2>4
      <3> QED
        BY <3>1 DEF UpToNul, Divide
    <2>6. 1 \in Int /\ m - 1 \in Int /\ \A k \in 1 .. m - 1 : s[k] \in NoNul
      BY <1>1, <2>4 DEF NoNul
    <2>7. SubSeq(s, 1, m - 1) \in Seq(NoNul)
      BY <2>6, SubSeqProperties
    <2> QED
      BY <2>5, <2>7
  <1> QED
    BY <1>3, <1>4

\* The codes of bytes that are not NUL have none, and a parameter is written
\* without it.
LEMMA CodesHaveNoNul ==
  /\ \A c \in NoNul : UrlCode[c] \in Seq(NoNul)
  /\ \A c \in Bytes : ParamCode[c] \in Seq(NoNul)
  <1> DEFINE V == Seq(NoNul)
  <1>1. \A c \in Bytes : Escaped(c) \in V
    <2> SUFFICES ASSUME NEW c \in Bytes PROVE Escaped(c) \in Seq(NoNul)
      OBVIOUS
    <2> DEFINE e == Escaped(c)
    <2>1. /\ e \in Seq(Bytes) /\ Len(e) = 3 /\ e[1] = Percent
          /\ e[2] \in HexDigits /\ e[3] \in HexDigits
      BY EscapedIs
    <2>2. HexDigits \subseteq NoNul /\ Percent \in NoNul
      BY DEF HexDigits, Digits, Percent, Bytes, NoNul
    <2> HIDE DEF e
    <2>3. \A i \in 1 .. 3 : e[i] \in NoNul
      <3>1. \A i \in 1 .. 3 : i = 1 \/ i = 2 \/ i = 3
        OBVIOUS
      <3> QED
        BY <2>1, <2>2, <3>1
    <2>4. SubSeq(e, 1, 3) = e
      BY <2>1, SubSeqFull
    <2>5. SubSeq(e, 1, 3) \in Seq(NoNul)
      <3>1. 1 \in Int /\ 3 \in Int
        OBVIOUS
      <3> QED
        BY <2>3, <3>1, SubSeqProperties
    <2> QED
      BY <2>4, <2>5, Zenon DEF e
  <1>2. \A c \in NoNul : <<c>> \in V
    OBVIOUS
  <1>3. NoNul \subseteq Bytes /\ Unreserved \subseteq NoNul
    BY DEF NoNul, Bytes, Unreserved, Digits, Upper, Lower
  <1> HIDE DEF V
  <1>4. \A c \in NoNul : UrlCode[c] \in V
    BY <1>1, <1>2, <1>3, Zenon DEF UrlCode
  <1>5. \A c \in Bytes : ParamCode[c] \in V
    BY <1>1, <1>2, <1>3, Zenon DEF ParamCode
  <1> QED
    BY <1>4, <1>5, Zenon DEF V

\* The model's encodings write these codes; encode_url up to the first NUL.
LEMMA EncodeIs ==
  /\ \A s \in Seq(Bytes) : /\ UpToNul(s) \in Seq(NoNul)
                           /\ encode_url(s) = Spelled(UpToNul(s), UrlCode)
                           /\ encode_query_param(s) = Spelled(s, ParamCode)
  /\ \A s \in Seq(NoNul) : encode_url(s) = Spelled(s, UrlCode) /\ s \in Seq(Bytes)
  <1> DEFINE Url(s) == [i \in DOMAIN s |->
                          IF s[i] >= 128 \/ s[i] \in {Space, 13, 10, 39, Plus, Comma, 59}
                            THEN Escaped(s[i]) ELSE <<s[i]>>]
             Param(s) == [i \in DOMAIN s |->
                            IF s[i] \in Unreserved THEN <<s[i]>> ELSE Escaped(s[i])]
  <1>1. \A s \in Seq(Bytes) : \A i \in DOMAIN s : s[i] \in Bytes
    BY LenProperties, ElementOfSeq
  <1>2. /\ \A c \in Bytes : UrlCode[c] =
             IF c >= 128 \/ c \in {Space, 13, 10, 39, Plus, Comma, 59}
               THEN Escaped(c) ELSE <<c>>
        /\ \A c \in Bytes : ParamCode[c] = IF c \in Unreserved THEN <<c>> ELSE Escaped(c)
    BY Zenon DEF UrlCode, ParamCode
  <1>3. ASSUME NEW s \in Seq(Bytes)
        PROVE  Url(s) = Coded(s, UrlCode) /\ Param(s) = Coded(s, ParamCode)
    BY <1>1, <1>2, Zenon DEF Coded
  <1>4. \A s \in Seq(NoNul) : s \in Seq(Bytes) /\ UpToNul(s) = s
    <2> SUFFICES ASSUME NEW s \in Seq(NoNul)
                 PROVE  s \in Seq(Bytes) /\ UpToNul(s) = s
      OBVIOUS
    <2>1. NoNul = Bytes \ {0} /\ NoNul \subseteq Bytes
      BY DEF NoNul
    <2>2. Divide(s, 0) = <<s, <<>>>>
      BY <2>1, DivideNone
    <2> QED
      BY <2>1, <2>2, SeqMonotonic DEF UpToNul
  <1>5. \A s \in Seq(Bytes) : UpToNul(s) \in Seq(NoNul)
    BY BeforeNul
  <1>6. \A s : encode_url(s) = FlattenSeq(Url(UpToNul(s)))
               /\ encode_query_param(s) = FlattenSeq(Param(s))
    BY Zenon DEF encode_url, encode_query_param
  <1> HIDE DEF Url, Param
  <1>7. \A s \in Seq(Bytes) : /\ encode_url(s) = Spelled(UpToNul(s), UrlCode)
                              /\ encode_query_param(s) = Spelled(s, ParamCode)
    BY <1>3, <1>4, <1>5, <1>6, Zenon DEF Spelled
  <1> QED
    BY <1>4, <1>5, <1>7, Zenon

\* A text whose bytes stand for themselves.
LEMMA PlainSpelled ==
  ASSUME NEW code \in ByteCodes, NEW s \in Seq(Bytes),
         \A i \in 1 .. Len(s) : code[s[i]] = <<s[i]>>
  PROVE  Spelled(s, code) = s
  <1> DEFINE Plain(t) == \A i \in 1 .. Len(t) : code[t[i]] = <<t[i]>>
             T == {t \in Seq(Bytes) : Plain(t) => Spelled(t, code) = t}
  <1>1. <<>> \in T
    <2>1. <<>> \in Seq(Bytes)
      BY EmptySeq
    <2> QED
      BY <2>1, SpelledIs
  <1>2. ASSUME NEW t \in Seq(Bytes), NEW c \in Bytes, t \in T
        PROVE  Append(t, c) \in T
    <2> DEFINE u == Append(t, c)
    <2>1. /\ u \in Seq(Bytes) /\ Len(u) = Len(t) + 1 /\ Len(t) \in Nat
          /\ \A i \in 1 .. Len(t) : u[i] = t[i]
          /\ u[Len(t) + 1] = c
      BY AppendProperties, LenProperties
    <2>2. u = t \o <<c>> /\ <<c>> \in Seq(Bytes)
      BY AppendIsConcat
    <2> HIDE DEF u
    <2>3. ASSUME Plain(u)
          PROVE  Spelled(u, code) = u
      <3>1. Plain(t)
        <4> SUFFICES ASSUME NEW i \in 1 .. Len(t) PROVE code[t[i]] = <<t[i]>>
          OBVIOUS
        <4>1. i \in 1 .. Len(u) /\ u[i] = t[i]
          BY <2>1
        <4> QED
          BY <2>3, <4>1, Zenon
      <3>2. Spelled(t, code) = t
        BY <1>2, <3>1
      <3>3. code[c] = <<c>>
        <4>1. Len(t) + 1 \in 1 .. Len(u) /\ u[Len(t) + 1] = c
          BY <2>1
        <4> QED
          BY <2>3, <4>1, Zenon
      <3>4. /\ Spelled(t \o <<c>>, code) = Spelled(t, code) \o Spelled(<<c>>, code)
            /\ Spelled(<<c>>, code) = code[c]
        BY <2>2, SpelledIs, Zenon
      <3> QED
        BY <2>2, <3>2, <3>3, <3>4, Zenon
    <2> QED
      BY <2>1, <2>3, Zenon DEF u
  <1>3. Seq(Bytes) \subseteq T
    <2> HIDE DEF T
    <2> QED
      BY <1>1, <1>2, SeqSetInduction
  <1> QED
    BY <1>3, Zenon

\* What is written by one code is written by another.
LEMMA Respelled ==
  ASSUME NEW code \in ByteCodes, NEW over \in ByteCodes, NEW both \in ByteCodes,
         \A c \in Bytes : both[c] = Spelled(code[c], over),
         NEW s \in Seq(Bytes)
  PROVE  Spelled(Spelled(s, code), over) = Spelled(s, both)
  <1> DEFINE T == {t \in Seq(Bytes) : Spelled(Spelled(t, code), over) = Spelled(t, both)}
  <1>1. <<>> \in T
    <2>1. <<>> \in Seq(Bytes)
      BY EmptySeq
    <2>2. Spelled(<<>>, code) = <<>> /\ Spelled(<<>>, over) = <<>> /\ Spelled(<<>>, both) = <<>>
      BY SpelledIs
    <2> QED
      BY <2>1, <2>2
  <1>2. ASSUME NEW t \in Seq(Bytes), NEW c \in Bytes, t \in T
        PROVE  Append(t, c) \in T
    <2> DEFINE o == <<c>>
               w == code[c]
               p == Spelled(t, code)
    <2>1. Append(t, c) = t \o o /\ o \in Seq(Bytes) /\ Append(t, c) \in Seq(Bytes)
      BY AppendIsConcat, AppendProperties
    <2>2. w \in Seq(Bytes) /\ p \in Seq(Bytes) /\ Spelled(o, code) = w /\ Spelled(o, both) = both[c]
      BY SpelledIs, Zenon DEF ByteCodes
    <2> HIDE DEF o, w, p
    <2>3. Spelled(t \o o, code) = p \o w
      BY <2>1, <2>2, SpelledIs, Zenon DEF p
    <2>4. Spelled(p \o w, over) = Spelled(p, over) \o Spelled(w, over)
      BY <2>2, SpelledIs, Zenon
    <2>5. Spelled(t \o o, both) = Spelled(t, both) \o both[c]
      <3>1. Spelled(t \o o, both) = Spelled(t, both) \o Spelled(o, both)
        BY <2>1, SpelledIs, Zenon
      <3> QED
        BY <2>2, <3>1, Zenon
    <2>6. Spelled(p, over) = Spelled(t, both)
      BY <1>2 DEF p
    <2>7. Spelled(Spelled(t \o o, code), over) = Spelled(t \o o, both)
      BY <2>3, <2>4, <2>5, <2>6, Zenon DEF w
    <2> QED
      BY <2>1, <2>7
  <1>3. Seq(Bytes) \subseteq T
    <2> HIDE DEF T
    <2> QED
      BY <1>1, <1>2, SeqSetInduction
  <1> QED
    BY <1>3

\* An escape has none of the bytes that are escaped, and encode_url leaves it
\* as it is.
LEMMA EscapesStay ==
  ASSUME NEW c \in Bytes
  PROVE  Spelled(Escaped(c), UrlCode) = Escaped(c)
  <1> DEFINE e == Escaped(c)
  <1>1. /\ e \in Seq(Bytes) /\ Len(e) = 3 /\ e[1] = Percent
        /\ e[2] \in HexDigits /\ e[3] \in HexDigits
    BY EscapedIs
  <1> HIDE DEF e
  <1>2. ASSUME NEW b \in HexDigits \cup {Percent}
        PROVE  UrlCode[b] = <<b>>
    <2>1. b \in Bytes /\ ~(b >= 128 \/ b \in {Space, 13, 10, 39, Plus, Comma, 59})
      BY DEF HexDigits, Digits, Percent, Bytes, Space, Plus, Comma
    <2> QED
      BY <2>1, Zenon DEF UrlCode
  <1>3. \A i \in 1 .. Len(e) : UrlCode[e[i]] = <<e[i]>>
    <2>1. \A i \in 1 .. 3 : i = 1 \/ i = 2 \/ i = 3
      OBVIOUS
    <2>2. \A i \in 1 .. Len(e) : e[i] \in HexDigits \cup {Percent}
      BY <1>1, <2>1
    <2> QED
      BY <1>2, <2>2, Zenon
  <1>4. Spelled(e, UrlCode) = e
    BY <1>1, <1>3, CodeTypes, PlainSpelled, Zenon
  <1> QED
    BY <1>4 DEF e

\* Encoding a text again changes nothing, and a value that was encoded as a
\* parameter only loses its quotes.
LEMMA EncodedTwice ==
  ASSUME NEW s \in Seq(Bytes)
  PROVE  /\ encode_url(encode_url(s)) = encode_url(s)
         /\ encode_url(encode_query_param(s)) = Spelled(s, ValueCode)
         /\ encode_query_param(s) \in Seq(NoNul) /\ encode_query_param(s) \in Seq(Bytes)
  <1> DEFINE t == UpToNul(s)
  <1>1. /\ t \in Seq(NoNul) /\ t \in Seq(Bytes)
        /\ encode_url(s) = Spelled(t, UrlCode)
        /\ encode_query_param(s) = Spelled(s, ParamCode)
    BY EncodeIs, Zenon
  <1> HIDE DEF t
  <1>0. encode_url(s) \in Seq(NoNul) /\ encode_query_param(s) \in Seq(NoNul)
    BY <1>1, CodesHaveNoNul, SpelledIn, Zenon
  <1>2. ASSUME NEW c \in Bytes
        PROVE  /\ Spelled(UrlCode[c], UrlCode) = UrlCode[c]
               /\ Spelled(ParamCode[c], UrlCode) = ValueCode[c]
    <2>1. Spelled(<<c>>, UrlCode) = UrlCode[c] /\ Spelled(Escaped(c), UrlCode) = Escaped(c)
      BY CodeTypes, SpelledIs, EscapesStay, Zenon
    <2>2. UrlCode[c] = Escaped(c) \/ UrlCode[c] = <<c>>
      BY Zenon DEF UrlCode
    <2>3. CASE c \in Unreserved \ {39}
      <3>1. ParamCode[c] = <<c>> /\ ValueCode[c] = <<c>>
        BY <2>3, Zenon DEF ParamCode, ValueCode
      <3>2. ~(c >= 128 \/ c \in {Space, 13, 10, 39, Plus, Comma, 59})
        BY <2>3 DEF Unreserved, Digits, Upper, Lower, Space, Plus, Comma
      <3>3. UrlCode[c] = <<c>>
        BY <3>2, Zenon DEF UrlCode
      <3> QED
        BY <2>1, <2>2, <3>1, <3>3, Zenon
    <2>4. CASE c = 39
      <3>1. c \in Unreserved /\ c \in {Space, 13, 10, 39, Plus, Comma, 59}
            /\ c \notin Unreserved \ {39}
        BY <2>4 DEF Unreserved
      <3>2. ParamCode[c] = <<c>> /\ ValueCode[c] = Escaped(c) /\ UrlCode[c] = Escaped(c)
        BY <3>1, Zenon DEF ParamCode, ValueCode, UrlCode
      <3> QED
        BY <2>1, <3>2, Zenon
    <2>5. CASE c \notin Unreserved
      <3>1. ParamCode[c] = Escaped(c) /\ ValueCode[c] = Escaped(c)
        BY <2>5, Zenon DEF ParamCode, ValueCode
      <3> QED
        BY <2>1, <2>2, <3>1, Zenon
    <2> QED
      BY <2>3, <2>4, <2>5
  <1>3. Spelled(Spelled(t, UrlCode), UrlCode) = Spelled(t, UrlCode)
    BY <1>1, <1>2, CodeTypes, Respelled
  <1>4. Spelled(Spelled(s, ParamCode), UrlCode) = Spelled(s, ValueCode)
    BY <1>2, CodeTypes, Respelled
  <1>5. /\ encode_url(encode_url(s)) = Spelled(encode_url(s), UrlCode)
        /\ encode_url(encode_query_param(s)) = Spelled(encode_query_param(s), UrlCode)
        /\ encode_query_param(s) \in Seq(Bytes)
    BY <1>0, EncodeIs, Zenon
  <1> QED
    BY <1>0, <1>1, <1>3, <1>4, <1>5, Zenon

HexStep(v, c) == 16 * v + HexValue(c)
HexOf(s) == FoldLeft(HexStep, 0, s)

\* The number that hexadecimal digits say.
LEMMA HexOfIs ==
  /\ HexOf(<<>>) = 0
  /\ \A s \in Seq(Nat) : HexOf(s) \in Int
  /\ \A s \in Seq(Nat), e \in Nat :
       HexOf(Append(s, e)) = HexStep(HexOf(s), e)
  <1> DEFINE V == Int
             N == Nat
             none == 0
             step == [e \in N |-> [v \in V |-> HexStep(v, e)]]
  <1>1. none \in V /\ \A v \in V, e \in N : HexStep(v, e) \in V
    BY DEF HexStep, HexValue
  <1> HIDE DEF V, N, none
  <1>2. step \in [N -> [V -> V]]
    BY <1>1
  <1>3. \A e \in N, v \in V : step[e][v] = HexStep(v, e)
    OBVIOUS
  <1> HIDE DEF step
  <1>4. ASSUME NEW s \in Seq(N)
        PROVE  HexOf(s) = Folded(s, V, none, step)
    <2> DEFINE Fold(g) == g = [u \in SUBSET DOMAIN s |->
                                IF u = {} THEN none
                                ELSE HexStep(g[u \ {Max(u)}], s[Max(u)])]
               it == CHOOSE g : Fold(g)
    <2>1. HexOf(s) = it[DOMAIN s]
      BY Zenon DEF HexOf, FoldLeft, MapThenFoldSet, none
    <2>2. PICK g \in [SUBSET DOMAIN s -> V] : IsSetFold(g, s, none, step)
      BY <1>1, <1>2, SetFoldExists, Zenon
    <2>3. ASSUME NEW u \in SUBSET DOMAIN s, u # {}
          PROVE  s[Max(u)] \in N
      <3>1. Len(s) \in Nat /\ DOMAIN s = 1 .. Len(s)
        BY LenProperties
      <3>2. Max(u) \in 1 .. Len(s)
        BY <2>3, <3>1, MaxOfSubset, Zenon
      <3> QED
        BY <3>2, ElementOfSeq
    <2>4. ASSUME NEW u \in SUBSET DOMAIN s
          PROVE  g[u] = IF u = {} THEN none ELSE HexStep(g[u \ {Max(u)}], s[Max(u)])
      <3>1. u # {} => g[u] = step[s[Max(u)]][g[u \ {Max(u)}]]
        BY <2>2 DEF IsSetFold
      <3>2. g[{}] = none /\ g[u \ {Max(u)}] \in V
        BY <2>2 DEF IsSetFold
      <3> QED
        BY <1>3, <2>3, <3>1, <3>2, Zenon
    <2>5. Fold(g)
      <3>1. g = [u \in SUBSET DOMAIN s |-> g[u]]
        OBVIOUS
      <3> QED
        BY <2>4, <3>1, Zenon
    <2>6. Fold(it)
      <3> HIDE DEF Fold
      <3> QED
        BY <2>5, Zenon
    <2>7. \A u \in SUBSET DOMAIN s :
            it[u] = IF u = {} THEN none ELSE HexStep(it[u \ {Max(u)}], s[Max(u)])
      <3> HIDE DEF it
      <3> QED
        BY <2>6, Zenon
    <2> HIDE DEF it
    <2>8. FitsFold(it, s, V, none, step)
      BY <1>3, <2>3, <2>7, Zenon DEF FitsFold
    <2>9. it[DOMAIN s] = Folded(s, V, none, step)
      BY <1>1, <1>2, <2>8, SetFoldIs
    <2> QED
      BY <2>1, <2>9, Zenon
  <1>5. /\ Folded(<<>>, V, none, step) = none
        /\ \A s \in Seq(N) : Folded(s, V, none, step) \in V
        /\ \A s \in Seq(N), e \in N :
             Folded(Append(s, e), V, none, step) = step[e][Folded(s, V, none, step)]
    BY <1>1, <1>2, FoldedIs
  <1>6. <<>> \in Seq(N) /\ \A s \in Seq(N), e \in N : Append(s, e) \in Seq(N)
    BY EmptySeq, AppendProperties
  <1>7. HexOf(<<>>) = none
    BY <1>4, <1>5, <1>6, Zenon
  <1>8. \A s \in Seq(N) : HexOf(s) \in V
    BY <1>4, <1>5, Zenon
  <1>9. ASSUME NEW s \in Seq(N), NEW e \in N
        PROVE  HexOf(Append(s, e)) = HexStep(HexOf(s), e)
    <2>1. HexOf(Append(s, e)) = step[e][HexOf(s)]
      BY <1>4, <1>5, <1>6, Zenon
    <2> QED
      BY <1>3, <1>8, <2>1
  <1> QED
    BY <1>7, <1>8, <1>9, Zenon DEF V, N, none

\* Two digits.
LEMMA HexOfTwo ==
  ASSUME NEW s \in Seq(Nat), NEW i \in 1 .. Len(s) - 1
  PROVE  HexNumber(s, i, 2) = 16 * HexValue(s[i]) + HexValue(s[i + 1])
  <1> DEFINE x == s[i]
             y == s[i + 1]
             N == Nat
             o == <<>>
  <1>1. Len(s) \in Nat /\ x \in N /\ y \in N /\ o \in Seq(N)
    BY LenProperties, ElementOfSeq, EmptySeq
  <1>2. SubSeq(s, i, i + 1) = <<x, y>>
    <2> DEFINE p == SubSeq(s, i, i + 1)
               q == <<x, y>>
    <2>1. p \in Seq(N) /\ Len(p) = 2 /\ p[1] = x /\ p[2] = y
      BY <1>1
    <2>2. q \in Seq(N) /\ Len(q) = 2 /\ q[1] = x /\ q[2] = y
      BY <1>1
    <2> HIDE DEF p, q, x, y, N
    <2>3. \A k \in 1 .. Len(p) : p[k] = q[k]
      <3>1. \A k \in 1 .. 2 : k = 1 \/ k = 2
        OBVIOUS
      <3> QED
        BY <2>1, <2>2, <3>1, Zenon
    <2>4. p = q
      BY <2>1, <2>2, <2>3, SeqEqual, Zenon
    <2> QED
      BY <2>4 DEF p, q
  <1>3. <<x, y>> = Append(Append(o, x), y)
    OBVIOUS
  <1>4. HexNumber(s, i, 2) = HexOf(SubSeq(s, i, i + 2 - 1))
    BY Zenon DEF HexNumber, HexOf, HexStep, FoldLeft, MapThenFoldSet
  <1>5. i + 2 - 1 = i + 1
    BY <1>1
  <1>6. HexOf(o) = 0
    BY HexOfIs
  <1> HIDE DEF x, y, o, N
  <1>7. Append(o, x) \in Seq(N)
    BY <1>1, AppendProperties
  <1>8. /\ HexOf(Append(o, x)) = HexStep(HexOf(o), x)
        /\ HexOf(Append(Append(o, x), y)) = HexStep(HexOf(Append(o, x)), y)
    BY <1>1, <1>7, HexOfIs, Zenon DEF N
  <1>9. HexStep(HexStep(0, x), y) = 16 * HexValue(x) + HexValue(y)
    BY <1>1 DEF HexStep, HexValue, N
  <1> QED
    BY <1>2, <1>3, <1>4, <1>5, <1>6, <1>8, <1>9, Zenon DEF x, y

-----------------------------------------------------------------------------
(***************************************************************************)
(* Percent decoding.  f[i] is what decode_url makes of s from i on.        *)
(***************************************************************************)
DecodeStep(s, plus, f, i) ==
  IF i > Len(s) THEN <<>>
  ELSE IF s[i] = Percent /\ HasHex(s, i + 1, 2)
    THEN <<HexNumber(s, i + 1, 2)>> \o f[i + 3]
  ELSE IF s[i] = Percent /\ i < Len(s) /\ s[i + 1] = 117 /\ HasHex(s, i + 2, 4)
    THEN Utf8(HexNumber(s, i + 2, 4)) \o f[i + 6]
  ELSE <<IF plus /\ s[i] = Plus THEN Space ELSE s[i]>> \o f[i + 1]

IsDecoding(f, s, plus) ==
  \A i \in 1 .. Len(s) + 1 : f[i] = DecodeStep(s, plus, f, i)

\* Digits say an integer.
LEMMA HexNumberIs ==
  ASSUME NEW s \in Seq(Nat), NEW i \in Nat \ {0}, NEW n \in Nat, HasHex(s, i, n)
  PROVE  HexNumber(s, i, n) \in Int
  <1>1. i + n - 1 <= Len(s) /\ Len(s) \in Nat
    BY LenProperties DEF HasHex
  <1>2. i \in 1 .. Len(s) + 1 /\ i + n - 1 \in i - 1 .. Len(s)
    BY <1>1
  <1> DEFINE j == i + n - 1
             N == Nat
  <1>3. s \in Seq(N) /\ i \in 1 .. Len(s) + 1 /\ j \in i - 1 .. Len(s)
    BY <1>2
  <1>4. HexNumber(s, i, n) = HexOf(SubSeq(s, i, j))
    BY Zenon DEF HexNumber, HexOf, HexStep, FoldLeft, MapThenFoldSet
  <1> HIDE DEF N, j
  <1>5. SubSeq(s, i, j) \in Seq(N)
    BY <1>3, PieceOf
  <1>6. HexOf(SubSeq(s, i, j)) \in Int
    BY <1>5, HexOfIs, Zenon DEF N
  <1> QED
    BY <1>4, <1>6

\* The code of a character is a sequence of numbers.
LEMMA Utf8Is ==
  ASSUME NEW code \in Int
  PROVE  Utf8(code) \in Seq(Int)
  BY DEF Utf8, Continuation

\* There is such a function.
LEMMA DecodeUnfolds ==
  ASSUME NEW s \in Seq(Bytes), NEW plus
  PROVE  \E f : decode_url(s, plus) = f[1] /\ IsDecoding(f, s, plus)
  <1> DEFINE V == Seq(Int)
             n == Len(s) + 1
             F == [1 .. n -> V]
             none == <<>>
             step == [i \in 1 .. n |-> [f \in F |-> DecodeStep(s, plus, f, i)]]
             Fits(g) == g = [i \in 1 .. n |-> DecodeStep(s, plus, g, i)]
             it == CHOOSE g : Fits(g)
  <1>1. /\ Len(s) \in Nat /\ n \in Nat /\ \A i \in 1 .. Len(s) : s[i] \in Int
        /\ s \in Seq(Nat)
    <2>1. Bytes \subseteq Nat
      BY DEF Bytes
    <2>2. s \in Seq(Nat) /\ Len(s) \in Nat
      BY <2>1, LenProperties, SeqOfNumbers, Zenon
    <2>3. \A i \in 1 .. Len(s) : s[i] \in Nat
      BY <2>2, ElementOfSeq
    <2> QED
      BY <2>2, <2>3
  <1>2. none \in V /\ \A x \in Int, v \in V : <<x>> \o v \in V
    OBVIOUS
  <1>3. ASSUME NEW i \in 1 .. n, i <= Len(s)
        PROVE  /\ i + 1 \in i + 1 .. n
               /\ HasHex(s, i + 1, 2) => i + 3 \in i + 1 .. n /\ HexNumber(s, i + 1, 2) \in Int
               /\ HasHex(s, i + 2, 4) => i + 6 \in i + 1 .. n /\ HexNumber(s, i + 2, 4) \in Int
    <2>1. i + 1 \in Nat \ {0} /\ i + 2 \in Nat \ {0} /\ i + 1 \in i + 1 .. n
      BY <1>1, <1>3
    <2>2. ASSUME HasHex(s, i + 1, 2)
          PROVE  i + 3 \in i + 1 .. n
      BY <1>1, <1>3, <2>2 DEF HasHex
    <2>3. ASSUME HasHex(s, i + 2, 4)
          PROVE  i + 6 \in i + 1 .. n
      BY <1>1, <1>3, <2>3 DEF HasHex
    <2>4. HasHex(s, i + 1, 2) => HexNumber(s, i + 1, 2) \in Int
      BY <1>1, <2>1, HexNumberIs
    <2>5. HasHex(s, i + 2, 4) => HexNumber(s, i + 2, 4) \in Int
      BY <1>1, <2>1, HexNumberIs
    <2> QED
      BY <2>1, <2>2, <2>3, <2>4, <2>5
  <1>4. ASSUME NEW i \in 1 .. n, NEW f \in F
        PROVE  DecodeStep(s, plus, f, i) \in V
    <2>1. CASE i > Len(s)
      BY <1>2, <2>1 DEF DecodeStep
    <2>2. CASE ~(i > Len(s))
      <3>1. i <= Len(s) /\ i \in 1 .. Len(s)
        BY <1>1, <2>2
      <3>2. \A j \in i + 1 .. n : f[j] \in V
        BY <1>1
      <3>3. s[i] \in Int /\ Space \in Int
        BY <1>1, <3>1 DEF Space
      <3> DEFINE x == IF plus /\ s[i] = Plus THEN Space ELSE s[i]
      <3>4. x \in Int
        BY <3>3
      <3>5. \A u \in V, v \in V : u \o v \in V
        OBVIOUS
      <3>6. HasHex(s, i + 1, 2) => <<HexNumber(s, i + 1, 2)>> \o f[i + 3] \in V
        BY <1>2, <1>3, <3>1, <3>2
      <3>7. HasHex(s, i + 2, 4) => Utf8(HexNumber(s, i + 2, 4)) \o f[i + 6] \in V
        BY <1>3, <3>1, <3>2, <3>5, Utf8Is
      <3>8. <<x>> \o f[i + 1] \in V
        BY <1>2, <1>3, <3>1, <3>2, <3>4
      <3> QED
        BY <2>2, <3>6, <3>7, <3>8, Zenon DEF DecodeStep
    <2> QED
      BY <2>1, <2>2
  <1>5. ASSUME NEW i \in 1 .. n, NEW f \in F, NEW g \in F,
               \A j \in i + 1 .. n : f[j] = g[j]
        PROVE  DecodeStep(s, plus, f, i) = DecodeStep(s, plus, g, i)
    <2>1. CASE i > Len(s)
      BY <2>1, Zenon DEF DecodeStep
    <2>2. CASE ~(i > Len(s))
      <3>1. i <= Len(s)
        BY <1>1, <2>2
      <3>2. /\ f[i + 1] = g[i + 1]
            /\ HasHex(s, i + 1, 2) => f[i + 3] = g[i + 3]
            /\ HasHex(s, i + 2, 4) => f[i + 6] = g[i + 6]
        BY <1>3, <1>5, <3>1
      <3> QED
        BY <2>2, <3>2, Zenon DEF DecodeStep
    <2> QED
      BY <2>1, <2>2
  <1>6. \A i \in 1 .. n, f \in F : step[i][f] = DecodeStep(s, plus, f, i)
    BY Zenon
  <1>7. step \in [1 .. n -> [F -> V]]
    BY <1>4, Zenon
  <1> HIDE DEF step, n, V, F
  <1>8. LooksAhead(step, n, V)
    <2>1. ASSUME NEW i \in 1 .. n, NEW f \in F, NEW g \in F,
                 \A j \in i + 1 .. n : f[j] = g[j]
          PROVE  step[i][f] = step[i][g]
      <3>1. DecodeStep(s, plus, f, i) = DecodeStep(s, plus, g, i)
        BY <1>5, <2>1
      <3>2. /\ step[i][f] = DecodeStep(s, plus, f, i)
            /\ step[i][g] = DecodeStep(s, plus, g, i)
        BY <1>6
      <3> QED
        BY <3>1, <3>2, Zenon
    <2> QED
      BY <1>7, <2>1, Zenon DEF LooksAhead, F
  <1>9. PICK g \in F : \A i \in 1 .. n : g[i] = step[i][g]
    <2>1. n \in Nat /\ none \in V
      BY <1>1, <1>2
    <2> HIDE DEF none
    <2>2. \E g : IsRecursion(g, step, n, V)
      BY <1>8, <2>1, BackwardRecursion
    <2> QED
      BY <2>2, Zenon DEF F, IsRecursion
  <1>10. Fits(g)
    <2>1. g = [i \in 1 .. n |-> g[i]]
      BY DEF F
    <2> QED
      BY <1>6, <1>9, <2>1, Zenon
  <1>11. Fits(it)
    <2> HIDE DEF Fits
    <2> QED
      BY <1>10, Zenon
  <1>12. \A i \in 1 .. n : it[i] = DecodeStep(s, plus, it, i)
    <2> HIDE DEF it
    <2> QED
      BY <1>11, Zenon
  <1>13. decode_url(s, plus) = it[1]
    BY Zenon DEF decode_url, DecodeStep, n
  <1> HIDE DEF it
  <1> QED
    BY <1>12, <1>13, Zenon DEF IsDecoding, n

\* The middle of three sequences, as part of their concatenation.
LEMMA MiddleOf ==
  ASSUME NEW S, NEW a \in Seq(S), NEW b \in Seq(S), NEW c \in Seq(S)
  PROVE  LET x == a \o (b \o c)
         IN  /\ x \in Seq(S) /\ Len(x) = Len(a) + (Len(b) + Len(c))
             /\ \A j \in 1 .. Len(b) : x[Len(a) + j] = b[j]
  <1> DEFINE d == b \o c
             x == a \o d
             m == Len(a)
             n == Len(b)
             k == Len(c)
  <1>1. /\ d \in Seq(S) /\ Len(d) = n + k
        /\ \A j \in 1 .. n + k : d[j] = IF j <= n THEN b[j] ELSE c[j - n]
    BY ConcatProperties
  <1> HIDE DEF d
  <1>2. /\ x \in Seq(S) /\ Len(x) = m + Len(d)
        /\ \A j \in 1 .. m + Len(d) : x[j] = IF j <= m THEN a[j] ELSE d[j - m]
    <2>1. d \in Seq(S)
      BY <1>1
    <2> QED
      BY <2>1, ConcatProperties
  <1>3. m \in Nat /\ n \in Nat /\ k \in Nat
    BY LenProperties
  <1> HIDE DEF x, m, n, k
  <1>4. ASSUME NEW j \in 1 .. n
        PROVE  x[m + j] = b[j]
    <2>1. /\ m + j \in 1 .. m + Len(d) /\ ~(m + j <= m) /\ (m + j) - m = j
          /\ j \in 1 .. n + k /\ j <= n
      BY <1>1, <1>3
    <2>2. x[m + j] = d[j]
      BY <1>2, <2>1
    <2> QED
      BY <1>1, <2>1, <2>2
  <1>5. Len(x) = m + (n + k)
    BY <1>1, <1>2
  <1> QED
    BY <1>2, <1>4, <1>5, Zenon DEF x, d, m, n, k

\* A code that is decoded to its byte.
Decodes(code, c, plus) ==
  \/ code[c] = Escaped(c)
  \/ code[c] = <<c>> /\ c # Percent /\ ~(plus /\ c = Plus)

\* The code of c stands in x behind a.
CodeStands(x, plus, f, code, c, a, b) ==
  /\ code \in ByteCodes /\ c \in Bytes
  /\ IsDecoding(f, x, plus) /\ Decodes(code, c, plus)
  /\ a \in Seq(Bytes) /\ b \in Seq(Bytes) /\ x = a \o (code[c] \o b)

DecodesOne(f, a, w, c) == f[Len(a) + 1] = <<c>> \o f[Len(a \o w) + 1]

\* One code decoded.
LEMMA DecodeOne ==
  ASSUME NEW x, NEW plus, NEW f, NEW code, NEW c, NEW a, NEW b,
         CodeStands(x, plus, f, code, c, a, b)
  PROVE  DecodesOne(f, a, code[c], c)
  <1> DEFINE w == code[c]
             m == Len(a)
             B == Bytes
             i == m + 1
  <1>0. /\ code \in ByteCodes /\ c \in Bytes
        /\ IsDecoding(f, x, plus) /\ Decodes(code, c, plus)
        /\ a \in Seq(Bytes) /\ b \in Seq(Bytes) /\ x = a \o (w \o b)
    BY DEF CodeStands
  <1>1. w \in Seq(B)
    BY <1>0 DEF ByteCodes
  <1> HIDE DEF w, B
  <1>2. /\ x \in Seq(B) /\ Len(x) = m + (Len(w) + Len(b))
        /\ \A j \in 1 .. Len(w) : x[m + j] = w[j]
    BY <1>0, <1>1, MiddleOf DEF B
  <1>3. m \in Nat /\ Len(w) \in Nat /\ Len(b) \in Nat /\ Len(a \o w) = m + Len(w)
    BY <1>0, <1>1, LenProperties, ConcatProperties DEF B
  <1> HIDE DEF m
  <1>4. ASSUME Len(w) >= 1
        PROVE  i \in 1 .. Len(x) + 1 /\ ~(i > Len(x)) /\ x[i] = w[1]
    <2> DEFINE k == Len(w)
               n == Len(b)
    <2>1. /\ Len(x) = m + (k + n) /\ m \in Nat /\ k \in Nat /\ n \in Nat /\ k >= 1
          /\ \A j \in 1 .. k : x[m + j] = w[j]
      BY <1>2, <1>3, <1>4
    <2> HIDE DEF k, n
    <2>2. 1 \in 1 .. k
      BY <2>1
    <2>3. x[m + 1] = w[1]
      BY <2>1, <2>2
    <2>4. i \in 1 .. Len(x) + 1 /\ ~(i > Len(x))
      BY <2>1
    <2> QED
      BY <2>3, <2>4
  <1>5. ASSUME Len(w) >= 1
        PROVE  f[i] = DecodeStep(x, plus, f, i)
    BY <1>0, <1>4, <1>5 DEF IsDecoding
  <1>6. CASE w = Escaped(c)
    <2>1. /\ Len(w) = 3 /\ w[1] = Percent /\ IsHex(w[2]) /\ IsHex(w[3])
          /\ 16 * HexValue(w[2]) + HexValue(w[3]) = c
      BY <1>0, <1>6, EscapedIs, Zenon
    <2>2. /\ i + 1 = m + 2 /\ i + 2 = m + 3 /\ (i + 1) + 2 - 1 = m + 3
          /\ i + 3 = Len(a \o w) + 1 /\ m + 3 <= Len(x)
          /\ \A k \in i + 1 .. (i + 1) + 2 - 1 : k = m + 2 \/ k = m + 3
      BY <1>2, <1>3, <2>1
    <2>3. x[m + 2] = w[2] /\ x[m + 3] = w[3]
      <3>1. 2 \in 1 .. Len(w) /\ 3 \in 1 .. Len(w)
        BY <2>1
      <3> QED
        BY <1>2, <3>1
    <2>4. HasHex(x, i + 1, 2)
      <3>1. (i + 1) + 2 - 1 <= Len(x)
        BY <2>2
      <3>2. ASSUME NEW k \in i + 1 .. (i + 1) + 2 - 1
            PROVE  IsHex(x[k])
        BY <2>1, <2>2, <2>3, Zenon
      <3> QED
        BY <3>1, <3>2 DEF HasHex
    <2>5. HexNumber(x, i + 1, 2) = c
      <3>1. x \in Seq(Nat)
        <4>1. B \subseteq Nat
          BY DEF B, Bytes
        <4> QED
          BY <1>2, <4>1, SeqOfNumbers, Zenon
      <3>2. i + 1 \in 1 .. Len(x) - 1 /\ (i + 1) + 1 = m + 3
        <4> DEFINE n == Len(b)
        <4>1. Len(x) = m + (3 + n) /\ m \in Nat /\ n \in Nat
          BY <1>2, <1>3, <2>1
        <4> HIDE DEF n
        <4> QED
          BY <4>1
      <3>3. HexNumber(x, i + 1, 2) = 16 * HexValue(x[i + 1]) + HexValue(x[(i + 1) + 1])
        BY <3>1, <3>2, HexOfTwo, Zenon
      <3> QED
        BY <2>1, <2>2, <2>3, <3>2, <3>3, Zenon
    <2>6. Len(w) >= 1
      BY <2>1
    <2>7. x[i] = Percent /\ ~(i > Len(x))
      BY <1>4, <2>1, <2>6
    <2>8. f[i] = <<HexNumber(x, i + 1, 2)>> \o f[i + 3]
      BY <1>5, <2>4, <2>6, <2>7, Zenon DEF DecodeStep
    <2> QED
      BY <2>2, <2>5, <2>8, Zenon DEF m, w, DecodesOne
  <1>7. CASE w = <<c>> /\ c # Percent /\ ~(plus /\ c = Plus)
    <2>1. Len(w) = 1 /\ w[1] = c
      BY <1>7
    <2>2. Len(w) >= 1 /\ i + 1 = Len(a \o w) + 1
      BY <1>3, <2>1
    <2>3. x[i] = c /\ ~(i > Len(x))
      BY <1>4, <2>1, <2>2
    <2>4. f[i] = <<c>> \o f[i + 1]
      BY <1>5, <1>7, <2>2, <2>3, Zenon DEF DecodeStep
    <2> QED
      BY <2>2, <2>4, Zenon DEF m, w, DecodesOne
  <1> QED
    BY <1>0, <1>6, <1>7 DEF Decodes, w

\* What was written with codes that decode to their bytes is decoded to what
\* it was.
LEMMA DecodeSpelled ==
  ASSUME NEW plus, NEW code \in ByteCodes, NEW s \in Seq(Bytes),
         \A i \in 1 .. Len(s) : Decodes(code, s[i], plus)
  PROVE  decode_url(Spelled(s, code), plus) = s
  <1> DEFINE x == Spelled(s, code)
  <1>1. x \in Seq(Bytes)
    BY SpelledIs
  <1> HIDE DEF x
  <1>2. PICK f : decode_url(x, plus) = f[1] /\ IsDecoding(f, x, plus)
    BY <1>1, DecodeUnfolds
  <1> DEFINE Rest(p, t, k) ==
               s = p \o t /\ Len(t) = k => f[Len(Spelled(p, code)) + 1] = t
             T == {k \in Nat : \A p \in Seq(Bytes), t \in Seq(Bytes) : Rest(p, t, k)}
  <1>3. 0 \in T
    <2> SUFFICES ASSUME NEW p \in Seq(Bytes), NEW t \in Seq(Bytes), s = p \o t, Len(t) = 0
                 PROVE  f[Len(Spelled(p, code)) + 1] = t
      BY Zenon
    <2>1. t = <<>>
      BY EmptySeq
    <2>2. p = s
      BY <2>1, ConcatEmptySeq
    <2>3. Len(x) \in Nat
      BY <1>1, LenProperties
    <2>4. f[Len(x) + 1] = <<>>
      <3>1. Len(x) + 1 \in 1 .. Len(x) + 1 /\ Len(x) + 1 > Len(x)
        BY <2>3
      <3>2. f[Len(x) + 1] = DecodeStep(x, plus, f, Len(x) + 1)
        BY <1>2, <3>1 DEF IsDecoding
      <3> QED
        BY <3>1, <3>2, Zenon DEF DecodeStep
    <2> QED
      BY <2>1, <2>2, <2>4, Zenon DEF x
  <1>4. ASSUME NEW k \in Nat, k \in T
        PROVE  k + 1 \in T
    <2> SUFFICES ASSUME NEW p \in Seq(Bytes), NEW t \in Seq(Bytes)
                 PROVE  Rest(p, t, k + 1)
      <3> HIDE DEF Rest
      <3> QED
        BY <1>4
    <2> SUFFICES ASSUME s = p \o t, Len(t) = k + 1
                 PROVE  f[Len(Spelled(p, code)) + 1] = t
      OBVIOUS
    <2> DEFINE c == Head(t)
               u == Tail(t)
               o == <<c>>
               q == p \o o
               a == Spelled(p, code)
               b == Spelled(u, code)
               w == code[c]
    <2>1. t # <<>>
      BY EmptySeq
    <2>2. c \in Bytes /\ u \in Seq(Bytes) /\ t = o \o u /\ o \in Seq(Bytes)
      BY <2>1, HeadAndRest
    <2>3. Len(u) = k /\ c = t[1]
      BY <2>1
    <2> HIDE DEF c, u, o
    <2>4. q \in Seq(Bytes) /\ s = q \o u
      <3>1. ThreeAsOne(Bytes, p, o, u)
        BY <2>2, ConcatThree, Zenon DEF Three
      <3>2. q \in Seq(Bytes)
        BY <2>2, ConcatProperties
      <3> QED
        BY <2>2, <3>1, <3>2, Zenon DEF ThreeAsOne
    <2>5. f[Len(Spelled(q, code)) + 1] = u
      <3>1. Rest(q, u, k)
        BY <1>4, <2>2, <2>4, Zenon
      <3> QED
        BY <2>3, <2>4, <3>1, Zenon
    <2>6. /\ a \in Seq(Bytes) /\ b \in Seq(Bytes)
          /\ Spelled(q, code) = a \o w /\ x = a \o (w \o b)
      <3>1. Spelled(o, code) = w
        BY <2>2, SpelledIs, Zenon DEF o
      <3>2. Spelled(q, code) = a \o Spelled(o, code)
        BY <2>2, SpelledIs, Zenon
      <3>3. Spelled(t, code) = Spelled(o, code) \o b
        BY <2>2, SpelledIs, Zenon
      <3>4. x = a \o Spelled(t, code)
        BY SpelledIs, Zenon DEF x
      <3>5. a \in Seq(Bytes) /\ b \in Seq(Bytes)
        BY <2>2, SpelledIs
      <3> QED
        BY <3>1, <3>2, <3>3, <3>4, <3>5, Zenon
    <2>7. Decodes(code, c, plus)
      <3>1. 1 \in 1 .. Len(t)
        OBVIOUS
      <3>2. Len(p) + 1 \in 1 .. Len(s) /\ s[Len(p) + 1] = t[1]
        <4> DEFINE m == Len(p)
                   n == Len(t)
        <4>1. /\ Len(s) = m + n /\ m \in Nat
              /\ \A j \in 1 .. m + n : s[j] = IF j <= m THEN p[j] ELSE t[j - m]
          BY ConcatProperties, LenProperties, Zenon
        <4>2. n = k + 1
          OBVIOUS
        <4> HIDE DEF m, n
        <4>3. m + 1 \in 1 .. m + n /\ ~(m + 1 <= m) /\ (m + 1) - m = 1
          BY <4>1, <4>2
        <4>4. m + 1 \in 1 .. Len(s) /\ s[m + 1] = t[1]
          BY <4>1, <4>3, Zenon
        <4> QED
          BY <4>4 DEF m
      <3> QED
        BY <2>3, <3>2, Zenon
    <2> HIDE DEF q, a, b
    <2>8. DecodesOne(f, a, w, c)
      <3>1. CodeStands(x, plus, f, code, c, a, b)
        BY <1>2, <2>2, <2>6, <2>7, Zenon DEF CodeStands
      <3> QED
        BY <3>1, DecodeOne
    <2>9. f[Len(a) + 1] = t
      BY <2>2, <2>5, <2>6, <2>8, Zenon DEF o, DecodesOne
    <2> QED
      BY <2>9, Zenon DEF a
  <1>5. Nat \subseteq T
    <2> HIDE DEF T
    <2> QED
      BY <1>3, <1>4, NatSetInduction
  <1>6. Rest(<<>>, s, Len(s))
    <2>1. Len(s) \in Nat /\ <<>> \in Seq(Bytes)
      BY LenProperties, EmptySeq
    <2> QED
      BY <1>5, <2>1, Zenon
  <1>7. f[1] = s
    <2>1. <<>> \o s = s /\ Spelled(<<>>, code) = <<>>
      BY ConcatEmptySeq, SpelledIs
    <2>2. Len(<<>>) + 1 = 1
      OBVIOUS
    <2> QED
      BY <1>6, <2>1, <2>2, Zenon
  <1> QED
    BY <1>2, <1>7, Zenon DEF x

-----------------------------------------------------------------------------
(***************************************************************************)
(* Parsing.  What the splitting operators of HttpText make of texts with   *)
(* known separators.                                                       *)
(***************************************************************************)
\* A text without blanks is not trimmed.
LEMMA TrimNone ==
  ASSUME NEW s \in Seq(Nat \ {Space, Tab})
  PROVE  Trim(s) = s
  <1> DEFINE S == Nat \ {Space, Tab}
             n == Len(s)
             solid == {i \in DOMAIN s : ~IsBlank(s[i])}
             lo == CHOOSE i \in solid : \A k \in solid : i <= k
             hi == CHOOSE i \in solid : \A k \in solid : k <= i
  <1>1. n \in Nat /\ DOMAIN s = 1 .. n /\ \A i \in 1 .. n : s[i] \in S
    BY LenProperties, ElementOfSeq
  <1>2. solid = 1 .. n
    BY <1>1 DEF IsBlank
  <1>3. Trim(s) = IF solid = {} THEN <<>> ELSE SubSeq(s, lo, hi)
    BY Zenon DEF Trim
  <1> HIDE DEF n, solid, S
  <1>4. CASE n = 0
    <2>1. solid = {} /\ s = <<>>
      BY <1>2, <1>4, EmptySeq DEF n
    <2> QED
      BY <1>3, <2>1
  <1>5. CASE n # 0
    <2>1. 1 \in solid /\ n \in solid /\ \A k \in solid : 1 <= k /\ k <= n
      <3>1. 1 \in 1 .. n /\ n \in 1 .. n /\ \A k \in 1 .. n : 1 <= k /\ k <= n
        BY <1>1, <1>5
      <3> QED
        BY <1>2, <3>1, Zenon
    <2>2. solid \subseteq Int
      BY <1>2
    <2>3. lo \in solid /\ (\A k \in solid : lo <= k)
      BY <2>1
    <2>4. hi \in solid /\ (\A k \in solid : k <= hi)
      BY <2>1
    <2> HIDE DEF lo, hi
    <2>5. lo = 1 /\ hi = n
      BY <1>1, <2>1, <2>2, <2>3, <2>4
    <2>6. SubSeq(s, 1, n) = s
      BY SubSeqFull DEF n
    <2> QED
      BY <1>3, <2>1, <2>5, <2>6
  <1> QED
    BY <1>4, <1>5

\* Texts without blanks that are not empty.
Words == Seq(Nat \ {Space, Tab}) \ {<<>>}

\* The pieces of a text of certain bytes are texts of these bytes.
LEMMA PiecesOf ==
  ASSUME NEW c \in Nat, NEW B, B \subseteq Nat, NEW s \in Seq(B)
  PROVE  Pieces(s, c) \in Seq(Seq(B))
  <1> DEFINE V == Seq(B)
             I == {t \in V : t \in Texts /\ Pieces(t, c) \in Seq(V) \ {<<>>}}
  <1>1. <<>> \in V
    BY EmptySeq
  <1>2. ASSUME NEW t \in V PROVE t \in Texts
    BY SeqMonotonic, Zenon DEF Texts
  <1>3. <<>> \in I
    <2>1. <<<<>>>> \in Seq(V) /\ <<<<>>>> # <<>>
      BY <1>1
    <2> HIDE DEF V
    <2> QED
      BY <1>1, <1>2, <2>1, PiecesIs, Zenon
  <1>4. ASSUME NEW t \in V, NEW v \in B, t \in I
        PROVE  Append(t, v) \in I
    <2>1. Append(t, v) \in V /\ t \in Texts /\ v \in Nat
      BY <1>2
    <2>2. Append(t, v) \in Texts
      BY <1>2, <2>1, Zenon
    <2> DEFINE ps == Pieces(t, c)
    <2>3. ps \in Seq(V) /\ ps # <<>>
      BY <1>4
    <2>4. \A r \in V : Append(r, v) \in V
      OBVIOUS
    <2>5. Pieces(Append(t, v), c) = PieceStep(ps, v, c)
      BY <2>1, PiecesIs
    <2>6. \A r \in Seq(V) : r \in Seq(Texts)
      <3>1. V \subseteq Texts
        BY <1>2
      <3> HIDE DEF V
      <3> QED
        BY <3>1, SeqMonotonic
    <2> HIDE DEF V, ps
    <2>7. PICK qs \in Seq(V), q \in V : ps = Append(qs, q)
      BY <2>3, SequenceEmptyOrAppend
    <2>8. /\ v = c => PieceStep(Append(qs, q), v, c) = Append(Append(qs, q), <<>>)
          /\ v # c => PieceStep(Append(qs, q), v, c) = Append(qs, Append(q, v))
      <3>1. qs \in Seq(Texts) /\ q \in Texts
        BY <1>2, <2>6
      <3> QED
        BY <2>1, <3>1, PieceStepIs, ZenonT(30)
    <2>9. /\ Append(Append(qs, q), <<>>) \in Seq(V) \ {<<>>}
          /\ Append(qs, Append(q, v)) \in Seq(V) \ {<<>>}
      BY <1>1, <2>4, AppendProperties
    <2> QED
      BY <2>1, <2>2, <2>5, <2>7, <2>8, <2>9, Zenon
  <1>5. V \subseteq I
    <2> HIDE DEF I
    <2> QED
      BY <1>3, <1>4, SeqSetInduction, Zenon
  <1> QED
    BY <1>5

\* Nothing is left out if no piece is empty.
LEMMA NotEmptyAll ==
  ASSUME NEW ps \in Seq(PathNames)
  PROVE  NotEmpty(ps) = ps
  <1> DEFINE W == PathNames
             T == {t \in Seq(W) : NotEmpty(t) = t}
  <1>1. <<>> \in T
    BY EmptySeq, NotEmptyIs
  <1>2. ASSUME NEW t \in Seq(W), NEW p \in W, t \in T
        PROVE  Append(t, p) \in T
    <2>1. W \subseteq Texts /\ p # <<>> /\ p \in Texts
      BY DEF PathNames
    <2> HIDE DEF W
    <2>2. t \in Seq(Texts)
      BY <2>1, SeqMonotonic
    <2>3. NotEmpty(Append(t, p)) = Append(NotEmpty(t), p)
      BY <2>1, <2>2, NotEmptyIs
    <2>4. Append(t, p) \in Seq(W)
      BY AppendProperties
    <2> QED
      BY <1>2, <2>3, <2>4
  <1>3. Seq(W) \subseteq T
    <2> HIDE DEF T, W
    <2> QED
      BY <1>1, <1>2, SeqSetInduction
  <1> QED
    BY <1>3

\* Pieces without blanks that are not empty are what a text is split into.
LEMMA SplitWords ==
  ASSUME NEW s, NEW c, Pieces(s, c) \in Seq(Words)
  PROVE  Split(s, c) = Pieces(s, c)
  <1> DEFINE ps == Pieces(s, c)
             ts == [i \in DOMAIN ps |-> Trim(ps[i])]
  <1>1. /\ ps \in Seq(Words) /\ DOMAIN ps = 1 .. Len(ps) /\ Len(ps) \in Nat
        /\ \A i \in 1 .. Len(ps) : ps[i] \in Words
    BY LenProperties, ElementOfSeq
  <1>2. Split(s, c) = NotEmpty(ts)
    BY Zenon DEF Split
  <1> HIDE DEF ps
  <1>3. \A w \in Words : Trim(w) = w
    BY TrimNone DEF Words
  <1>4. ts = [i \in DOMAIN ps |-> ps[i]]
    BY <1>1, <1>3, Zenon
  <1>5. ps = [i \in DOMAIN ps |-> ps[i]]
    BY <1>1
  <1>6. Words \subseteq PathNames
    <2> DEFINE S == Nat \ {Space, Tab}
               N == Nat
    <2>1. S \subseteq N
      OBVIOUS
    <2> HIDE DEF S, N
    <2>2. \A w \in Seq(S) : w \in Seq(N)
      BY <2>1, SeqMonotonic
    <2> QED
      BY <2>2, Zenon DEF Words, PathNames, Texts, S, N
  <1>7. ps \in Seq(PathNames)
    BY <1>1, <1>6, SeqMonotonic
  <1> QED
    BY <1>2, <1>4, <1>5, <1>7, NotEmptyAll, Zenon DEF ps

\* A text is divided into one piece before the first separator and the rest.
LEMMA SplitFirst ==
  ASSUME NEW c \in Nat, NEW w \in Seq(Nat \ {c}), NEW y \in Texts
  PROVE  Pieces(Append(w, c) \o y, c) = <<w>> \o Pieces(y, c)
  <1> DEFINE S == Nat \ {c}
  <1>1. w \in Texts
    BY SeqMonotonic DEF Texts
  <1>2. \A i \in 1 .. Len(w) : w[i] # c
    BY ElementOfSeq
  <1>3. Pieces(w, c) = <<w>>
    BY <1>1, <1>2, OnePiece
  <1> QED
    BY <1>1, <1>3, PiecesConcat, Zenon

\* The three parts of a request line.
LEMMA RequestParts ==
  ASSUME NEW t \in Words
  PROVE  LET parts == Split(RequestLine(500, t), Space)
         IN  Len(parts) = 3 /\ parts[1] = <<500>> /\ parts[2] = t /\ parts[3] = <<511>>
  <1> DEFINE S == Nat \ {Space}
             get == <<500>>
             http == <<511>>
             o == <<Space>>
             line == RequestLine(500, t)
             y == Append(t, Space) \o http
  <1>1. Space \in Nat /\ 500 \notin {Space, Tab} /\ 511 \notin {Space, Tab}
    BY DEF Space, Tab
  <1>2. /\ get \in Seq(S) /\ http \in Seq(S) /\ t \in Seq(S)
        /\ get \in Texts /\ http \in Texts /\ t \in Texts /\ o \in Texts
    <2>1. get \in Seq(S) /\ http \in Seq(S)
      BY <1>1
    <2>2. t \in Seq(S)
      <3> DEFINE B == Nat \ {Space, Tab}
      <3>1. B \subseteq S /\ t \in Seq(B)
        BY DEF Words
      <3> HIDE DEF B, S
      <3> QED
        BY <3>1, SeqMonotonic
    <2>3. get \in Texts /\ http \in Texts /\ o \in Texts
      BY <1>1 DEF Texts
    <2>4. t \in Texts
      BY <2>2, SeqMonotonic DEF Texts
    <2> QED
      BY <2>1, <2>2, <2>3, <2>4
  <1>3. line = (<<500, Space>> \o t) \o <<Space, 511>>
    BY Zenon DEF RequestLine
  <1>4. /\ <<500, Space>> = Append(get, Space)
        /\ <<Space, 511>> = o \o http
        /\ Append(t, Space) = t \o o
    BY <1>1, <1>2, AppendIsConcat DEF Texts
  <1> HIDE DEF get, http, o, S
  <1>5. /\ y \in Texts /\ Append(get, Space) \in Texts /\ Append(t, Space) \in Texts
    BY <1>1, <1>2, AppendProperties, ConcatProperties DEF Texts
  <1>6. line = Append(get, Space) \o y
    <2> DEFINE x == Append(get, Space)
               N == Nat
    <2>1. x \in Seq(N) /\ t \in Seq(N) /\ o \in Seq(N) /\ http \in Seq(N)
      BY <1>2, <1>5 DEF Texts
    <2> HIDE DEF x, N
    <2>2. ThreeAsOne(N, t, o, http)
      BY <2>1, ConcatThree, Zenon DEF Three
    <2>3. o \o http \in Seq(N)
      BY <2>1, ConcatProperties
    <2>4. ThreeAsOne(N, x, t, o \o http)
      BY <2>1, <2>3, ConcatThree, Zenon DEF Three
    <2>5. line = (x \o t) \o (o \o http)
      BY <1>3, <1>4, Zenon DEF x
    <2>6. y = t \o (o \o http)
      BY <1>4, <2>2, Zenon DEF ThreeAsOne
    <2> QED
      BY <2>4, <2>5, <2>6, Zenon DEF ThreeAsOne, x
  <1>7. Pieces(y, Space) = <<t>> \o <<http>>
    <2>1. Pieces(http, Space) = <<http>>
      <3>1. \A i \in 1 .. Len(http) : http[i] # Space
        BY <1>2, ElementOfSeq DEF S
      <3> QED
        BY <1>1, <1>2, <3>1, OnePiece
    <2>2. Pieces(y, Space) = <<t>> \o Pieces(http, Space)
      BY <1>1, <1>2, SplitFirst, Zenon DEF S
    <2> QED
      BY <2>1, <2>2
  <1>8. Pieces(line, Space) = <<get>> \o (<<t>> \o <<http>>)
    <2> HIDE DEF y, line
    <2>1. Pieces(Append(get, Space) \o y, Space) = <<get>> \o Pieces(y, Space)
      BY <1>1, <1>2, <1>5, SplitFirst, Zenon DEF S
    <2> QED
      BY <1>6, <1>7, <2>1, Zenon
  <1>9. get \in Words /\ http \in Words
    BY <1>1 DEF get, http, Words
  <1> DEFINE parts == <<get>> \o (<<t>> \o <<http>>)
  <1>10. parts \in Seq(Words) /\ Len(parts) = 3 /\ parts[1] = get /\ parts[2] = t
         /\ parts[3] = http
    <2> DEFINE W == Words
    <2>1. get \in W /\ http \in W /\ t \in W
      BY <1>9
    <2> HIDE DEF W
    <2> DEFINE x == <<get>>
               y1 == <<t>>
               z == <<http>>
               u == y1 \o z
    <2>2. /\ x \in Seq(W) /\ Len(x) = 1 /\ x[1] = get
          /\ y1 \in Seq(W) /\ Len(y1) = 1 /\ y1[1] = t
          /\ z \in Seq(W) /\ Len(z) = 1 /\ z[1] = http
      BY <2>1
    <2> HIDE DEF x, y1, z
    <2>3. u \in Seq(W) /\ Len(u) = 2 /\ u[1] = t /\ u[2] = http
      BY <2>2, ConcatProperties
    <2> HIDE DEF u
    <2>4. /\ x \o u \in Seq(W) /\ Len(x \o u) = 3
          /\ (x \o u)[1] = get /\ (x \o u)[2] = t /\ (x \o u)[3] = http
      BY <2>2, <2>3, ConcatProperties, SMTT(20)
    <2> QED
      BY <2>4 DEF W, x, u, y1, z
  <1> HIDE DEF parts, line
  <1>11. Split(line, Space) = parts
    BY <1>8, <1>10, SplitWords, Zenon DEF parts
  <1>12. /\ Len(Split(line, Space)) = 3 /\ Split(line, Space)[1] = get
         /\ Split(line, Space)[2] = t /\ Split(line, Space)[3] = http
    BY <1>10, <1>11, Zenon
  <1> QED
    BY <1>12, Zenon DEF get, http, line

-----------------------------------------------------------------------------
(***************************************************************************)
(* Targets.  The bytes that a reader would not take for themselves in a    *)
(* path or a name are not in them (encode_url leaves them as they are),    *)
(* and what is written has no separators but those put between its parts.  *)
(***************************************************************************)
PathBytes == Bytes \ {0, Tab, Fragment, Percent, Question}
NameBytes == Bytes \ {0, Tab, Fragment, Percent, Ampersand, Equals}
TargetBytes == Bytes \ {Space, Tab, Fragment}
PairBytes == TargetBytes \ {Ampersand, Equals}
EscapeBytes == HexDigits \cup {Percent}

\* The bytes of the codes.
LEMMA CodeBytes ==
  ASSUME NEW X, X \cap EscapeBytes = {}, NEW c \in Bytes
  PROVE  /\ c \notin X \ {Space} => UrlCode[c] \in Seq(Bytes \ X)
         /\ X \cap Unreserved = {} => ValueCode[c] \in Seq(Bytes \ X)
  <1> DEFINE S == Bytes \ X
             e == Escaped(c)
             o == <<c>>
  <1>1. e \in Seq(S)
    <2>1. /\ e \in Seq(Bytes) /\ Len(e) = 3 /\ e[1] = Percent
          /\ e[2] \in HexDigits /\ e[3] \in HexDigits
      BY EscapedIs
    <2>2. EscapeBytes \subseteq S
      BY DEF EscapeBytes, HexDigits, Digits, Percent, Bytes
    <2> HIDE DEF e, S
    <2>3. \A i \in 1 .. 3 : e[i] \in S
      <3>1. \A i \in 1 .. 3 : i = 1 \/ i = 2 \/ i = 3
        OBVIOUS
      <3> QED
        BY <2>1, <2>2, <3>1 DEF EscapeBytes
    <2>4. SubSeq(e, 1, 3) = e
      BY <2>1, SubSeqFull
    <2>5. SubSeq(e, 1, 3) \in Seq(S)
      <3>1. 1 \in Int /\ 3 \in Int
        OBVIOUS
      <3> QED
        BY <2>3, <3>1, SubSeqProperties
    <2> QED
      BY <2>4, <2>5, Zenon
  <1>2. c \notin X => o \in Seq(S)
    OBVIOUS
  <1> HIDE DEF S
  <1>3. ASSUME c \notin X \ {Space}
        PROVE  UrlCode[c] \in Seq(S)
    <2>1. UrlCode[c] = IF c >= 128 \/ c \in {Space, 13, 10, 39, Plus, Comma, 59} THEN e ELSE o
      BY Zenon DEF UrlCode
    <2>2. CASE c = Space
      <3>1. UrlCode[c] = e
        BY <2>1, <2>2, Zenon
      <3> QED
        BY <1>1, <3>1
    <2>3. CASE c # Space
      <3>1. o \in Seq(S)
        BY <1>2, <1>3, <2>3
      <3> QED
        BY <1>1, <2>1, <3>1, Zenon
    <2> QED
      BY <2>2, <2>3
  <1>4. ASSUME X \cap Unreserved = {}
        PROVE  ValueCode[c] \in Seq(S)
    <2>1. ValueCode[c] = IF c \in Unreserved \ {39} THEN o ELSE e
      BY Zenon DEF ValueCode
    <2>2. c \in Unreserved \ {39} => o \in Seq(S)
      BY <1>2, <1>4
    <2> QED
      BY <1>1, <2>1, <2>2, Zenon
  <1> QED
    BY <1>3, <1>4 DEF S

\* What is written for a path, for a name and for a value.
LEMMA TargetTexts ==
  /\ \A s \in Seq(PathBytes) : Spelled(s, UrlCode) \in Seq(TargetBytes \ {Question})
  /\ \A s \in Seq(NameBytes) : Spelled(s, UrlCode) \in Seq(PairBytes)
  /\ \A s \in Seq(Bytes) : Spelled(s, ValueCode) \in Seq(PairBytes)
  <1> DEFINE X == {Space, Tab, Fragment, Question}
             Y == {Space, Tab, Fragment, Ampersand, Equals}
  <1>1. X \cap EscapeBytes = {} /\ Y \cap EscapeBytes = {} /\ Y \cap Unreserved = {}
    BY DEF EscapeBytes, HexDigits, Digits, Percent, Space, Tab, Fragment, Question,
           Ampersand, Equals, Unreserved, Upper, Lower
  <1>2. Bytes \ X = TargetBytes \ {Question} /\ Bytes \ Y = PairBytes
    BY DEF TargetBytes, PairBytes
  <1>3. /\ \A c \in PathBytes : c \in Bytes /\ c \notin X \ {Space}
        /\ \A c \in NameBytes : c \in Bytes /\ c \notin Y \ {Space}
    BY DEF PathBytes, NameBytes
  <1> HIDE DEF X, Y
  <1>4. /\ \A c \in PathBytes : UrlCode[c] \in Seq(Bytes \ X)
        /\ \A c \in NameBytes : UrlCode[c] \in Seq(Bytes \ Y)
        /\ \A c \in Bytes : ValueCode[c] \in Seq(Bytes \ Y)
    BY <1>1, <1>3, CodeBytes, Zenon
  <1> QED
    BY <1>2, <1>4, SpelledIn, Zenon

\* Each of them decodes to what was written.
LEMMA TargetDecodes ==
  /\ \A c \in PathBytes : Decodes(UrlCode, c, FALSE)
  /\ \A c \in NameBytes : Decodes(UrlCode, c, TRUE)
  /\ \A c \in Bytes : Decodes(ValueCode, c, TRUE)
  <1>1. ASSUME NEW c \in Bytes, NEW plus, c # Percent
        PROVE  Decodes(UrlCode, c, plus)
    <2>1. UrlCode[c] = Escaped(c) \/ UrlCode[c] = <<c>>
      BY Zenon DEF UrlCode
    <2>2. c = Plus => UrlCode[c] = Escaped(c)
      BY Zenon DEF UrlCode
    <2> QED
      BY <1>1, <2>1, <2>2, Zenon DEF Decodes
  <1>2. ASSUME NEW c \in Bytes
        PROVE  Decodes(ValueCode, c, TRUE)
    <2>1. ValueCode[c] = IF c \in Unreserved \ {39} THEN <<c>> ELSE Escaped(c)
      BY Zenon DEF ValueCode
    <2>2. Percent \notin Unreserved /\ Plus \notin Unreserved
      BY DEF Percent, Plus, Unreserved, Digits, Upper, Lower
    <2> QED
      BY <2>1, <2>2, Zenon DEF Decodes
  <1>3. /\ \A c \in PathBytes : c \in Bytes /\ c # Percent
        /\ \A c \in NameBytes : c \in Bytes /\ c # Percent
    BY DEF PathBytes, NameBytes
  <1> QED
    BY <1>1, <1>2, <1>3, Zenon

-----------------------------------------------------------------------------
(***************************************************************************)
(* Parameters: pairs of a name and a value, as params_to_query_str writes  *)
(* them and as they are sent.                                              *)
(***************************************************************************)
Named == (Seq(NameBytes) \ {<<>>}) \X Seq(Bytes)

RawPair(p) == p[1] \o (<<Equals>> \o encode_query_param(p[2]))
PairText(p) == Spelled(p[1], UrlCode) \o (<<Equals>> \o Spelled(p[2], ValueCode))
PairTexts == [p \in Named |-> PairText(p)]

ParsedPair(w) == [k \in 1 .. 2 |-> decode_url(Divide(w, Equals)[k], TRUE)]

\* The separators of parameters are bytes that encode_url leaves as they are.
LEMMA SeparatorStays ==
  ASSUME NEW c \in {Ampersand, Equals, Question}
  PROVE  /\ c \in Bytes /\ <<c>> \in Seq(Bytes) /\ Spelled(<<c>>, UrlCode) = <<c>>
         /\ <<c>> \in Seq(NoNul)
  <1>1. c \in Bytes /\ ~(c >= 128 \/ c \in {Space, 13, 10, 39, Plus, Comma, 59})
    BY DEF Ampersand, Equals, Question, Bytes, Space, Plus, Comma
  <1>2. UrlCode[c] = <<c>>
    BY <1>1, Zenon DEF UrlCode
  <1>3. <<c>> \in Seq(Bytes) /\ c \in NoNul
    BY <1>1 DEF NoNul, Ampersand, Equals, Question
  <1>4. <<c>> \in Seq(NoNul)
    BY <1>3
  <1> QED
    BY <1>1, <1>2, <1>3, <1>4, CodeTypes, SpelledIs

\* A pair is sent with its name and its value encoded, without blanks and
\* separators, and parsed to what it was.
LEMMA PairSent ==
  ASSUME NEW p \in Named
  PROVE  /\ RawPair(p) \in Seq(Bytes)
         /\ RawPair(p) \in Seq(NoNul)
         /\ encode_url(RawPair(p)) = PairText(p)
         /\ PairText(p) \in Seq(TargetBytes \ {Ampersand})
         /\ Divide(PairText(p), Equals)[1] # <<>>
         /\ ParsedPair(PairText(p)) = p
  <1> DEFINE n == p[1]
             v == p[2]
             o == <<Equals>>
             q == encode_query_param(v)
             x == Spelled(n, UrlCode)
             y == Spelled(v, ValueCode)
             S == TargetBytes \ {Ampersand}
             B == Bytes
             U == NoNul
  <1>1. n \in Seq(NameBytes) /\ n # <<>> /\ v \in Seq(B) /\ p = <<n, v>>
    BY DEF Named
  <1>2. n \in Seq(B) /\ n \in Seq(U)
    <2>1. NameBytes \subseteq B /\ NameBytes \subseteq U
      BY DEF NameBytes, NoNul
    <2> HIDE DEF B, U
    <2> QED
      BY <1>1, <2>1, SeqMonotonic
  <1>3. /\ x \in Seq(PairBytes) /\ y \in Seq(PairBytes)
        /\ q \in Seq(B) /\ q \in Seq(U) /\ Spelled(q, UrlCode) = y
    <2>1. q \in Seq(B) /\ q \in Seq(U) /\ encode_url(q) = y
      BY <1>1, EncodedTwice
    <2>2. encode_url(q) = Spelled(q, UrlCode)
      BY <2>1, EncodeIs, Zenon
    <2> QED
      BY <1>1, <2>1, <2>2, TargetTexts, Zenon
  <1>4. o \in Seq(B) /\ o \in Seq(U) /\ Spelled(o, UrlCode) = o
    BY SeparatorStays
  <1>5. decode_url(x, TRUE) = n /\ decode_url(y, TRUE) = v
    <2>1. \A i \in 1 .. Len(n) : Decodes(UrlCode, n[i], TRUE)
      BY <1>1, ElementOfSeq, TargetDecodes, Zenon
    <2>2. \A i \in 1 .. Len(v) : Decodes(ValueCode, v[i], TRUE)
      BY <1>1, ElementOfSeq, TargetDecodes, Zenon
    <2> QED
      BY <1>1, <1>2, <2>1, <2>2, CodeTypes, DecodeSpelled, Zenon
  <1>6. x # <<>>
    <2>1. decode_url(<<>>, TRUE) = <<>>
      <3> DEFINE e == <<>>
      <3>1. e \in Seq(Bytes) /\ Len(e) = 0
        BY EmptySeq
      <3>2. \A i \in 1 .. Len(e) : Decodes(UrlCode, e[i], TRUE)
        BY <3>1
      <3>3. Spelled(e, UrlCode) = e
        BY CodeTypes, SpelledIs
      <3> HIDE DEF e
      <3>4. decode_url(Spelled(e, UrlCode), TRUE) = e
        BY <3>1, <3>2, CodeTypes, DecodeSpelled, Zenon
      <3> QED
        BY <3>3, <3>4, Zenon DEF e
    <2> QED
      BY <1>1, <1>5, <2>1, Zenon
  <1>7. Equals \in S /\ PairBytes = S \ {Equals} /\ PairBytes \subseteq S
    BY DEF TargetBytes, PairBytes, Equals, Ampersand, Bytes, Space, Tab, Fragment
  <1>8. x \in Seq(S \ {Equals}) /\ x \in Seq(S) /\ y \in Seq(S) /\ o \in Seq(S)
    <2>1. o \in Seq(S)
      BY <1>7
    <2> HIDE DEF S, x, y, o
    <2> QED
      BY <1>3, <1>7, <2>1, SeqMonotonic
  <1> HIDE DEF n, v, q, x, y, S
  <1>9. Divide(x \o (o \o y), Equals) = <<x, y>>
    BY <1>7, <1>8, DivideIs
  <1>10. x \o (o \o y) \in Seq(S)
    <2> HIDE DEF o
    <2>1. o \o y \in Seq(S)
      BY <1>8, ConcatProperties
    <2> QED
      BY <1>8, <2>1, ConcatProperties
  <1>11. PairText(p) = x \o (o \o y) /\ RawPair(p) = n \o (o \o q)
    BY Zenon DEF PairText, RawPair, x, y, n, v, q
  <1> HIDE DEF o, B, U
  <1>12. /\ n \o (o \o q) \in Seq(B) /\ o \o q \in Seq(B)
         /\ n \o (o \o q) \in Seq(U)
    BY <1>2, <1>3, <1>4, ConcatProperties
  <1>13. encode_url(n \o (o \o q)) = x \o (o \o y)
    <2>1. Spelled(o \o q, UrlCode) = Spelled(o, UrlCode) \o Spelled(q, UrlCode)
      BY <1>3, <1>4, CodeTypes, SpelledIs, Zenon DEF B
    <2>2. Spelled(n \o (o \o q), UrlCode) = Spelled(n, UrlCode) \o Spelled(o \o q, UrlCode)
      BY <1>2, <1>12, CodeTypes, SpelledIs, Zenon DEF B
    <2>3. encode_url(n \o (o \o q)) = Spelled(n \o (o \o q), UrlCode)
      BY <1>12, EncodeIs, Zenon DEF U
    <2> QED
      BY <1>3, <1>4, <2>1, <2>2, <2>3, Zenon DEF x
  <1>14. ParsedPair(PairText(p)) = p
    <2> DEFINE d == <<x, y>>
               D(z) == decode_url(z, TRUE)
               f == [k \in 1 .. 2 |-> D(d[k])]
               Z == {n, v}
               g == <<n, v>>
    <2>1. ParsedPair(PairText(p)) = f
      BY <1>9, <1>11, Zenon DEF ParsedPair
    <2>2. d[1] = x /\ d[2] = y
      OBVIOUS
    <2> HIDE DEF d
    <2>3. D(d[1]) = n /\ D(d[2]) = v
      BY <1>5, <2>2, Zenon
    <2> HIDE DEF D
    <2>4. f[1] = n /\ f[2] = v
      BY <2>3
    <2>5. /\ f \in Seq(Z) /\ Len(f) = 2
          /\ g \in Seq(Z) /\ Len(g) = 2 /\ g[1] = n /\ g[2] = v
      <3>1. g \in Seq(Z) /\ Len(g) = 2 /\ g[1] = n /\ g[2] = v
        OBVIOUS
      <3>2. \A k \in 1 .. 2 : D(d[k]) \in Z
        <4>1. \A k \in 1 .. 2 : k = 1 \/ k = 2
          OBVIOUS
        <4> QED
          BY <2>3, <4>1
      <3> HIDE DEF Z
      <3>3. f \in Seq(Z) /\ Len(f) = 2
        BY <3>2
      <3> QED
        BY <3>1, <3>3
    <2> HIDE DEF f, g, Z
    <2>6. \A k \in 1 .. Len(f) : f[k] = g[k]
      <3>1. \A k \in 1 .. 2 : k = 1 \/ k = 2
        OBVIOUS
      <3> QED
        BY <2>4, <2>5, <3>1
    <2>7. f = g
      BY <2>5, <2>6, SeqEqual
    <2> QED
      BY <1>1, <2>1, <2>7, Zenon DEF g
  <1>15. Divide(PairText(p), Equals)[1] # <<>>
    BY <1>6, <1>9, <1>11
  <1> QED
    BY <1>10, <1>11, <1>12, <1>13, <1>14, <1>15, Zenon DEF S, B, U

\* What params_to_query_str puts before its i-th pair, and what it writes for it.
Before(i) == IF i = 1 THEN <<>> ELSE <<Ampersand>>
QueryParts(ps) ==
  [i \in DOMAIN ps |->
     Before(i) \o ps[i][1] \o <<Equals>> \o encode_query_param(ps[i][2])]

\* One part.
LEMMA QueryPart ==
  ASSUME NEW p \in Named, NEW i
  PROVE  /\ Before(i) \o p[1] \o <<Equals>> \o encode_query_param(p[2])
              = Before(i) \o RawPair(p)
         /\ Before(i) \in Seq(Bytes) /\ RawPair(p) \in Seq(Bytes)
         /\ Before(i) \o RawPair(p) \in Seq(Bytes)
         /\ Before(i) \o RawPair(p) \in Seq(NoNul)
  <1> DEFINE B == NoNul
             b == Before(i)
             n == p[1]
             o == <<Equals>>
             q == encode_query_param(p[2])
  <1>1. b \in Seq(B) /\ o \in Seq(B)
    <2>1. <<Ampersand>> \in Seq(B) /\ o \in Seq(B) /\ <<>> \in Seq(B)
      BY SeparatorStays, EmptySeq, Zenon
    <2> HIDE DEF B
    <2> QED
      BY <2>1, Zenon DEF Before
  <1>2. n \in Seq(B) /\ q \in Seq(B)
    <2>1. n \in Seq(NameBytes) /\ p[2] \in Seq(Bytes) /\ NameBytes \subseteq B
      BY DEF Named, NameBytes, NoNul
    <2>2. q \in Seq(B)
      BY <2>1, EncodedTwice
    <2> HIDE DEF B, q
    <2> QED
      BY <2>1, <2>2, SeqMonotonic
  <1> HIDE DEF B, b, n, o, q
  <1>3. FourAsOne(B, b, n, o, q)
    <2>1. Four(B, b, n, o, q)
      BY <1>1, <1>2, Zenon DEF Four, Three
    <2> QED
      BY <2>1, ConcatFour
  <1>4. RawPair(p) = n \o (o \o q)
    BY Zenon DEF RawPair, n, o, q
  <1>5. ((b \o n) \o o) \o q = b \o (n \o (o \o q))
    BY <1>3, Zenon DEF FourAsOne
  <1>6. n \o (o \o q) \in Seq(B)
    BY <1>1, <1>2, ConcatProperties
  <1>7. b \o (n \o (o \o q)) \in Seq(B)
    BY <1>1, <1>6, ConcatProperties
  <1>8. \A s \in Seq(B) : s \in Seq(Bytes)
    BY EncodeIs, Zenon DEF B
  <1> QED
    BY <1>1, <1>4, <1>5, <1>6, <1>7, <1>8, Zenon DEF B, b, n, o, q

\* The parts of parameters that grew.
LEMMA QueryPartsIs ==
  /\ QueryParts(<<>>) = <<>>
  /\ \A ps \in Seq(Named) : QueryParts(ps) \in Seq(Seq(NoNul))
  /\ \A ps \in Seq(Named), p \in Named :
       QueryParts(Append(ps, p))
         = Append(QueryParts(ps), Before(Len(ps) + 1) \o RawPair(p))
  <1> DEFINE V == Seq(NoNul)
             M == Named
             One(p, i) == Before(i) \o RawPair(p)
  <1>1. \A p \in M : \A i : One(p, i) \in V
    BY QueryPart, Zenon
  <1>2. ASSUME NEW ps \in Seq(M)
        PROVE  QueryParts(ps) = [i \in DOMAIN ps |-> One(ps[i], i)]
    <2>1. \A i \in DOMAIN ps : ps[i] \in M
      BY LenProperties, ElementOfSeq
    <2>2. \A i \in DOMAIN ps :
            Before(i) \o ps[i][1] \o <<Equals>> \o encode_query_param(ps[i][2])
              = One(ps[i], i)
      BY <2>1, QueryPart, Zenon
    <2> HIDE DEF One
    <2> QED
      BY <2>2, Zenon DEF QueryParts
  <1> HIDE DEF V, M, One
  <1>3. ASSUME NEW ps \in Seq(M)
        PROVE  /\ QueryParts(ps) \in Seq(V) /\ Len(QueryParts(ps)) = Len(ps)
               /\ \A i \in 1 .. Len(ps) : QueryParts(ps)[i] = One(ps[i], i)
               /\ Len(ps) \in Nat
    <2>1. /\ Len(ps) \in Nat /\ DOMAIN ps = 1 .. Len(ps)
          /\ \A i \in 1 .. Len(ps) : ps[i] \in M
      BY LenProperties, ElementOfSeq
    <2>2. \A i \in 1 .. Len(ps) : One(ps[i], i) \in V
      BY <1>1, <2>1
    <2> QED
      BY <1>2, <2>1, <2>2
  <1>4. QueryParts(<<>>) = <<>>
    BY <1>3, EmptySeq, Zenon
  <1>5. ASSUME NEW ps \in Seq(M), NEW p \in M
        PROVE  QueryParts(Append(ps, p)) = Append(QueryParts(ps), One(p, Len(ps) + 1))
    <2> DEFINE n == Len(ps)
               qs == Append(ps, p)
               l == One(p, n + 1)
               a == QueryParts(qs)
               c == QueryParts(ps)
               b == Append(c, l)
    <2>1. /\ qs \in Seq(M) /\ Len(qs) = n + 1 /\ n \in Nat
          /\ \A i \in 1 .. n : qs[i] = ps[i]
          /\ qs[n + 1] = p
      BY AppendProperties, LenProperties
    <2>2. l \in V
      BY <1>1
    <2> HIDE DEF qs
    <2>3. /\ a \in Seq(V) /\ Len(a) = n + 1
          /\ \A i \in 1 .. n + 1 : a[i] = One(qs[i], i)
          /\ c \in Seq(V) /\ Len(c) = n
          /\ \A i \in 1 .. n : c[i] = One(ps[i], i)
      BY <1>3, <2>1
    <2> HIDE DEF a, c, l, n
    <2>4. /\ b \in Seq(V) /\ Len(b) = n + 1
          /\ \A i \in 1 .. n : b[i] = c[i]
          /\ b[n + 1] = l
      BY <2>2, <2>3, AppendProperties
    <2> HIDE DEF b
    <2>5. ASSUME NEW i \in 1 .. n + 1
          PROVE  a[i] = b[i]
      <3>1. a[i] = One(qs[i], i)
        BY <2>3
      <3>2. CASE i = n + 1
        BY <2>1, <2>4, <3>1, <3>2 DEF l
      <3>3. CASE i # n + 1
        <4>1. i \in 1 .. n
          BY <2>1, <3>3
        <4> QED
          BY <2>1, <2>3, <2>4, <3>1, <4>1
      <3> QED
        BY <3>2, <3>3
    <2>6. a = b
      BY <2>3, <2>4, <2>5, SeqEqual
    <2> QED
      BY <2>6, Zenon DEF a, b, c, l, qs, n
  <1> QED
    BY <1>3, <1>4, <1>5, Zenon DEF V, M, One

\* The query string of parameters that grew, before and behind encode_url.
Sent(ps) == encode_url(params_to_query_str(ps))

\* It grows by one pair at a time.
LEMMA SentIs ==
  /\ Sent(<<>>) = <<>>
  /\ \A ps \in Seq(Named) : /\ params_to_query_str(ps) \in Seq(NoNul)
                             /\ params_to_query_str(ps) \in Seq(Bytes)
  /\ \A p \in Named : Sent(<<p>>) = PairText(p)
  /\ \A ps \in Seq(Named), p \in Named :
       ps # <<>> => Sent(Append(ps, p)) = Sent(ps) \o (<<Ampersand>> \o PairText(p))
  <1> DEFINE Q(ps) == params_to_query_str(ps)
             F(ps) == QueryParts(ps)
             M == Named
             V == Seq(NoNul)
             U(s) == Spelled(s, UrlCode)
  <1>1. \A ps : Q(ps) = FlattenSeq(F(ps))
    BY Zenon DEF params_to_query_str, QueryParts, Before
  <1>2. /\ F(<<>>) = <<>>
        /\ \A ps \in Seq(M) : F(ps) \in Seq(V)
        /\ \A ps \in Seq(M), p \in M :
             F(Append(ps, p)) = Append(F(ps), Before(Len(ps) + 1) \o RawPair(p))
    BY QueryPartsIs
  <1>3. /\ FlattenSeq(<<>>) = <<>>
        /\ \A ss \in Seq(V) : FlattenSeq(ss) \in V
        /\ \A ss \in Seq(V), s \in V : FlattenSeq(Append(ss, s)) = FlattenSeq(ss) \o s
    BY FlattenGrows, Zenon
  <1>4. \A p \in M : \A i : /\ Before(i) \o RawPair(p) \in V
                            /\ RawPair(p) \in V /\ Before(i) \in V
                            /\ U(RawPair(p)) = PairText(p)
    <2>1. \A i : Before(i) \in V
      BY SeparatorStays, EmptySeq, Zenon DEF Before
    <2> QED
      BY <2>1, QueryPart, PairSent, EncodeIs, Zenon
  <1>5. /\ \A s \in V : encode_url(s) = U(s) /\ s \in Seq(Bytes)
        /\ U(<<>>) = <<>>
        /\ \A s \in V, t \in V : U(s \o t) = U(s) \o U(t)
    BY EncodeIs, SpelledIs, CodeTypes, Zenon
  <1>6. <<Ampersand>> \in V /\ U(<<Ampersand>>) = <<Ampersand>> /\ <<>> \in V
    BY SeparatorStays, EmptySeq
  <1>7. /\ \A s \in V, t \in V : s \o t \in V
        /\ \A s \in V : <<>> \o s = s
    BY ConcatProperties, ConcatEmptySeq
  <1>8. /\ \A ps \in Seq(M) : Len(ps) \in Nat /\ (ps # <<>> => Len(ps) + 1 # 1)
        /\ Len(<<>>) + 1 = 1
        /\ <<>> \in Seq(M)
    BY EmptySeq, LenProperties
  <1>9. \A p \in M : <<p>> = Append(<<>>, p)
    OBVIOUS
  <1> HIDE DEF F, M, V, U
  <1>10. \A ps \in Seq(M) : Q(ps) \in V
    BY <1>1, <1>2, <1>3, Zenon
  <1>11. Q(<<>>) = <<>>
    BY <1>1, <1>2, <1>3, Zenon
  <1>12. \A ps \in Seq(M), p \in M :
           Q(Append(ps, p)) = Q(ps) \o (Before(Len(ps) + 1) \o RawPair(p))
    BY <1>1, <1>2, <1>3, <1>4, Zenon
  <1> HIDE DEF Q
  <1>13. ASSUME NEW p \in M
         PROVE  Sent(<<p>>) = PairText(p)
    <2>1. Before(Len(<<>>) + 1) = <<>>
      BY <1>8, Zenon DEF Before
    <2>2. Q(<<p>>) = RawPair(p)
      BY <1>4, <1>7, <1>8, <1>9, <1>11, <1>12, <2>1, Zenon
    <2> QED
      BY <1>4, <1>5, <2>2, Zenon DEF Sent, Q
  <1>14. ASSUME NEW ps \in Seq(M), NEW p \in M, ps # <<>>
         PROVE  Sent(Append(ps, p)) = Sent(ps) \o (<<Ampersand>> \o PairText(p))
    <2> DEFINE o == <<Ampersand>>
    <2>1. Before(Len(ps) + 1) = o
      BY <1>8, <1>14, Zenon DEF Before
    <2>2. Q(Append(ps, p)) = Q(ps) \o (o \o RawPair(p))
      BY <1>12, <2>1, Zenon
    <2> HIDE DEF o
    <2>3. o \in V /\ U(o) = o /\ RawPair(p) \in V /\ o \o RawPair(p) \in V /\ Q(ps) \in V
      BY <1>4, <1>6, <1>7, <1>10, Zenon DEF o
    <2>4. Q(ps) \o (o \o RawPair(p)) \in V
      BY <1>7, <2>3, Zenon
    <2>5. U(Q(ps) \o (o \o RawPair(p))) = U(Q(ps)) \o (o \o PairText(p))
      <3>1. U(o \o RawPair(p)) = o \o PairText(p)
        <4>1. U(o \o RawPair(p)) = U(o) \o U(RawPair(p))
          BY <1>5, <2>3, Zenon
        <4> QED
          BY <1>4, <2>3, <4>1, Zenon
      <3>2. U(Q(ps) \o (o \o RawPair(p))) = U(Q(ps)) \o U(o \o RawPair(p))
        BY <1>5, <2>3, Zenon
      <3> QED
        BY <3>1, <3>2, Zenon
    <2> QED
      BY <1>5, <2>2, <2>3, <2>4, <2>5, Zenon DEF Sent, Q, o
  <1>15. Sent(<<>>) = <<>>
    BY <1>5, <1>6, <1>11, Zenon DEF Sent, Q
  <1> QED
    BY <1>5, <1>10, <1>13, <1>14, <1>15, Zenon DEF Q, M, V

\* The pieces of what is sent are the pairs.
LEMMA SentPieces ==
  ASSUME NEW ps \in Seq(Named), ps # <<>>
  PROVE  /\ Sent(ps) \in Seq(TargetBytes)
         /\ Pieces(Sent(ps), Ampersand) = Coded(ps, PairTexts)
         /\ Coded(ps, PairTexts) \in Seq(Words)
  <1> DEFINE M == Named
             S == TargetBytes
             N == Nat
             W == Words
             A == Ampersand
             C(s) == Coded(s, PairTexts)
             T == {t \in Seq(M) : t # <<>> =>
                     Sent(t) \in Seq(S) /\ Pieces(Sent(t), A) = C(t)}
  <1>1. A \in S /\ A \in N /\ S \subseteq N /\ S \subseteq N \ {Space, Tab}
    BY DEF Ampersand, TargetBytes, Bytes, Space, Tab, Fragment
  <1>2. \A p \in M : /\ PairTexts[p] = PairText(p)
                     /\ PairText(p) \in Seq(S \ {A}) /\ PairText(p) # <<>>
    <2> SUFFICES ASSUME NEW p \in M
                 PROVE  /\ PairTexts[p] = PairText(p)
                        /\ PairText(p) \in Seq(S \ {A}) /\ PairText(p) # <<>>
      OBVIOUS
    <2> DEFINE w == PairText(p)
    <2>1. PairTexts[p] = w
      BY Zenon DEF PairTexts
    <2>2. /\ w \in Seq(S \ {A})
          /\ Divide(w, Equals)[1] # <<>>
      BY PairSent
    <2>3. w # <<>>
      <3>1. <<>> \in Seq(S \ {Equals})
        BY EmptySeq
      <3>2. Divide(<<>>, Equals) = <<<<>>, <<>>>>
        BY <3>1, DivideNone, Zenon
      <3>3. Divide(<<>>, Equals)[1] = <<>>
        BY <3>2
      <3> HIDE DEF w
      <3> QED
        BY <2>2, <3>3
    <2> QED
      BY <2>1, <2>2, <2>3
  <1> HIDE DEF M, S, N, A
  <1>3. ASSUME NEW p \in M
        PROVE  /\ PairText(p) \in Seq(S) /\ PairText(p) \in Seq(N) /\ PairText(p) \in W
               /\ Pieces(PairText(p), A) = <<PairText(p)>>
    <2> DEFINE w == PairText(p)
               R == N \ {Space, Tab}
    <2>1. w \in Seq(S \ {A}) /\ w # <<>>
      BY <1>2
    <2> HIDE DEF w
    <2>2. w \in Seq(S)
      <3>1. S \ {A} \subseteq S
        OBVIOUS
      <3> QED
        BY <2>1, <3>1, SeqMonotonic
    <2>3. w \in Seq(N)
      BY <1>1, <2>2, SeqMonotonic
    <2>4. w \in Seq(R)
      <3>1. S \subseteq R
        BY <1>1
      <3> HIDE DEF R
      <3> QED
        BY <2>2, <3>1, SeqMonotonic
    <2>5. w \in W
      BY <2>1, <2>4, Zenon DEF Words, R, N
    <2>6. \A i \in 1 .. Len(w) : w[i] # A
      BY <2>1, ElementOfSeq
    <2>7. Pieces(w, A) = <<w>>
      BY <1>1, <2>3, <2>6, OnePiece DEF Texts, N
    <2> QED
      BY <2>2, <2>3, <2>5, <2>7, Zenon DEF w
  <1> HIDE DEF W
  <1>4. IsCode(PairTexts, M, W)
    <2>1. PairTexts = [p \in M |-> PairText(p)]
      BY Zenon DEF PairTexts, M
    <2> QED
      BY <1>3, <2>1 DEF IsCode
  <1>5. /\ C(<<>>) = <<>>
        /\ \A s \in Seq(M) : C(s) \in Seq(W)
        /\ \A s \in Seq(M), t \in Seq(M) : C(s \o t) = C(s) \o C(t)
        /\ \A p \in M : C(<<p>>) = <<PairTexts[p]>>
    BY <1>4, CodedIs
  <1>6. /\ Sent(<<>>) = <<>>
        /\ \A p \in M : Sent(<<p>>) = PairText(p)
        /\ \A s \in Seq(M), p \in M :
             s # <<>> => Sent(Append(s, p)) = Sent(s) \o (<<A>> \o PairText(p))
    BY SentIs, Zenon DEF M, A
  <1> HIDE DEF C
  <1>7. <<>> \in T
    BY EmptySeq
  <1>8. ASSUME NEW t \in Seq(M), NEW p \in M, t \in T
        PROVE  Append(t, p) \in T
    <2> DEFINE w == PairText(p)
               x == Sent(t)
               o == <<A>>
               u == Append(t, p)
    <2>1. /\ w \in Seq(S) /\ w \in Seq(N) /\ Pieces(w, A) = <<w>>
          /\ PairTexts[p] = w
      BY <1>2, <1>3
    <2>2. u \in Seq(M) /\ u = t \o <<p>> /\ <<p>> \in Seq(M)
      BY AppendProperties, AppendIsConcat
    <2>3. C(u) = C(t) \o <<w>>
      BY <1>5, <2>1, <2>2, Zenon
    <2>4. o \in Seq(S) /\ o \in Seq(N)
      BY <1>1
    <2> HIDE DEF w, u
    <2>5. CASE t = <<>>
      <3>1. u = <<p>>
        BY <2>5 DEF u
      <3>2. Sent(u) = w
        BY <1>6, <3>1, Zenon DEF w
      <3>3. C(u) = <<w>>
        BY <1>5, <2>1, <3>1, Zenon
      <3> QED
        BY <2>1, <2>2, <3>2, <3>3, Zenon DEF u
    <2>6. CASE t # <<>>
      <3>1. x \in Seq(S) /\ Pieces(x, A) = C(t)
        BY <1>8, <2>6
      <3>2. x \in Seq(N)
        BY <1>1, <3>1, SeqMonotonic
      <3>3. Sent(u) = x \o (o \o w)
        BY <1>6, <2>6, Zenon DEF u, w
      <3> HIDE DEF x
      <3>4. Append(x, A) = x \o o
        BY <1>1, <3>2, AppendIsConcat
      <3> HIDE DEF o
      <3>5. ThreeAsOne(N, x, o, w) /\ ThreeAsOne(S, x, o, w)
        <4>1. Three(N, x, o, w) /\ Three(S, x, o, w)
          BY <2>1, <2>4, <3>1, <3>2, Zenon DEF Three
        <4> QED
          BY <4>1, ConcatThree
      <3>6. Sent(u) = Append(x, A) \o w
        BY <3>3, <3>4, <3>5, Zenon DEF ThreeAsOne
      <3>7. Pieces(Append(x, A) \o w, A) = Pieces(x, A) \o Pieces(w, A)
        BY <1>1, <2>1, <3>2, PiecesConcat, Zenon DEF N, Texts
      <3>8. Pieces(Sent(u), A) = C(u)
        BY <2>1, <2>3, <3>1, <3>6, <3>7, Zenon
      <3>9. Sent(u) \in Seq(S)
        BY <3>3, <3>5, Zenon DEF ThreeAsOne
      <3> QED
        BY <2>2, <3>8, <3>9, Zenon DEF u
    <2> QED
      BY <2>5, <2>6
  <1>9. ps \in T
    <2>1. Seq(M) \subseteq T
      <3> HIDE DEF T
      <3> QED
        BY <1>7, <1>8, SeqSetInduction
    <2> QED
      BY <2>1 DEF M
  <1>10. C(ps) \in Seq(W)
    BY <1>5 DEF M
  <1> QED
    BY <1>9, <1>10, Zenon DEF C, S, A, W

\* They are what it is split into, and nothing is split into nothing.
LEMMA SentSplit ==
  ASSUME NEW ps \in Seq(Named)
  PROVE  /\ Sent(ps) \in Seq(TargetBytes)
         /\ Split(Sent(ps), Ampersand) = Coded(ps, PairTexts)
  <1>1. CASE ps = <<>>
    <2> DEFINE o == <<>>
               ls == Append(o, o)
    <2>1. o \in Texts /\ o \in Seq(Texts) /\ o \in Seq(Nat \ {Space, Tab})
      BY EmptySeq DEF Texts
    <2>2. Sent(ps) = o
      BY <1>1, SentIs, Zenon
    <2>3. Coded(ps, PairTexts) = <<>>
      BY <1>1 DEF Coded
    <2>4. Pieces(o, Ampersand) = <<o>>
      <3>1. Ampersand \in Nat
        BY DEF Ampersand
      <3> QED
        BY <3>1, PiecesIs
    <2>5. Trim(o) = o
      BY <2>1, TrimNone, Zenon
    <2>6. <<o>> = ls
      OBVIOUS
    <2>7. DOMAIN ls = {1} /\ ls[1] = o
      OBVIOUS
    <2>8. [i \in DOMAIN ls |-> Trim(ls[i])] = [i \in DOMAIN ls |-> ls[i]]
      BY <2>5, <2>7
    <2>9. ls = [i \in DOMAIN ls |-> ls[i]]
      OBVIOUS
    <2> HIDE DEF o, ls
    <2>10. Split(o, Ampersand) = NotEmpty(ls)
      BY <2>4, <2>6, <2>8, <2>9, Zenon DEF Split
    <2>11. NotEmpty(ls) = o
      BY <2>1, NotEmptyIs, Zenon DEF ls, o
    <2>12. o \in Seq(TargetBytes)
      BY EmptySeq DEF o
    <2> QED
      BY <2>2, <2>3, <2>10, <2>11, <2>12, Zenon DEF o
  <1>2. CASE ps # <<>>
    <2>1. /\ Sent(ps) \in Seq(TargetBytes)
          /\ Pieces(Sent(ps), Ampersand) = Coded(ps, PairTexts)
          /\ Coded(ps, PairTexts) \in Seq(Words)
      BY <1>2, SentPieces
    <2>2. Pieces(Sent(ps), Ampersand) \in Seq(Words)
      BY <2>1
    <2>3. Split(Sent(ps), Ampersand) = Pieces(Sent(ps), Ampersand)
      BY <2>2, SplitWords
    <2> QED
      BY <2>1, <2>3, Zenon
  <1> QED
    BY <1>1, <1>2

\* Parameters are parsed to what they were, but for those given again.
LEMMA SentParsed ==
  ASSUME NEW ps \in Seq(Named)
  PROVE  parse_query_text(Sent(ps)) = Distinct(ps)
  <1> DEFINE ws == Coded(ps, PairTexts)
             D == DOMAIN ps
             firsts == {i \in D : \A k \in 1 .. (i - 1) : ws[k] # ws[i]}
             new == {i \in D : \A k \in 1 .. (i - 1) : ps[k] # ps[i]}
             Name(w) == Divide(w, Equals)[1]
             parsed == [i \in D |-> IF i \in firsts /\ Name(ws[i]) # <<>>
                                      THEN <<ParsedPair(ws[i])>> ELSE <<>>]
             kept == [i \in D |-> IF i \in new THEN <<ps[i]>> ELSE <<>>]
  <1>1. D = 1 .. Len(ps) /\ Len(ps) \in Nat /\ \A i \in D : ps[i] \in Named
    BY LenProperties, ElementOfSeq
  <1>2. DOMAIN ws = D /\ \A i \in D : ws[i] = PairTexts[ps[i]]
    BY DEF Coded
  <1>3. \A i \in D : ws[i] = PairText(ps[i])
    <2>1. \A p \in Named : PairTexts[p] = PairText(p)
      BY Zenon DEF PairTexts
    <2> QED
      BY <1>1, <1>2, <2>1, Zenon
  <1>4. \A i \in D : ParsedPair(ws[i]) = ps[i] /\ Name(ws[i]) # <<>>
    BY <1>1, <1>3, PairSent, Zenon
  <1>5. parse_query_text(Sent(ps)) = FlattenSeq(parsed)
    <2>1. Split(Sent(ps), Ampersand) = ws
      BY SentSplit
    <2> HIDE DEF ws
    <2>2. parse_query_text(Sent(ps)) =
            FlattenSeq([i \in DOMAIN ws |->
              IF /\ i \in {m \in DOMAIN ws : \A k \in 1 .. (m - 1) : ws[k] # ws[m]}
                 /\ Divide(ws[i], Equals)[1] # <<>>
                THEN <<ParsedPair(ws[i])>> ELSE <<>>])
      BY <2>1, Zenon DEF parse_query_text, ParsedPair
    <2> QED
      BY <1>2, <2>2, Zenon
  <1>6. Distinct(ps) = FlattenSeq(kept)
    BY Zenon DEF Distinct
  <1> HIDE DEF ws, Name
  <1>7. \A i \in D : i \in firsts <=> i \in new
    <2> SUFFICES ASSUME NEW i \in D
                 PROVE  \A k \in 1 .. (i - 1) : ws[k] # ws[i] <=> ps[k] # ps[i]
      OBVIOUS
    <2> TAKE k \in 1 .. (i - 1)
    <2>1. k \in D
      BY <1>1
    <2> QED
      BY <1>3, <1>4, <2>1, Zenon
  <1>8. parsed = kept
    <2> HIDE DEF firsts, new, D
    <2> QED
      BY <1>4, <1>7, Zenon
  <1> QED
    BY <1>5, <1>6, <1>8, Zenon

-----------------------------------------------------------------------------
(***************************************************************************)
(* Requests.                                                               *)
(***************************************************************************)
\* What is read from the line of a request whose target was encoded.
Parse(t) == parse_request_line(RequestLine(500, t))

\* A target has its path before the first question mark and its query behind.
LEMMA TargetParsed ==
  ASSUME NEW t \in Seq(TargetBytes), t # <<>>
  PROVE  Parse(t) = [ok |-> TRUE, path |-> decode_url(Divide(t, Question)[1], FALSE),
                     params |-> parse_query_text(Divide(t, Question)[2])]
  <1> DEFINE S == TargetBytes
             line == RequestLine(500, t)
             parts == Split(line, Space)
  <1>1. t \in Words
    <2> DEFINE R == Nat \ {Space, Tab}
    <2>1. S \subseteq R
      BY DEF TargetBytes, Bytes, Space, Tab, Fragment
    <2> HIDE DEF S, R
    <2>2. t \in Seq(R)
      <3>1. t \in Seq(S)
        BY DEF S
      <3> QED
        BY <2>1, <3>1, SeqMonotonic
    <2> QED
      BY <2>2, Zenon DEF Words, R
  <1>2. /\ Len(parts) = 3 /\ parts[1] = <<500>> /\ parts[2] = t /\ parts[3] = <<511>>
    BY <1>1, RequestParts
  <1>3. Divide(t, Fragment)[1] = t
    <2>1. t \in Seq(S \ {Fragment})
      <3>1. S \ {Fragment} = S
        BY DEF TargetBytes
      <3> QED
        BY <3>1
    <2>2. Divide(t, Fragment) = <<t, <<>>>>
      BY <2>1, DivideNone, Zenon
    <2> QED
      BY <2>2
  <1>4. 500 \in Methods /\ 511 \in Versions
    BY DEF Methods, Versions
  <1>5. parts[1][1] = 500 /\ parts[3][1] = 511
    BY <1>2
  <1> HIDE DEF line, parts
  <1>6. ~(Len(parts) # 3 \/ parts[1][1] \notin Methods \/ parts[3][1] \notin Versions)
    BY <1>2, <1>4, <1>5
  <1> DEFINE target == Divide(Divide(parts[2], Fragment)[1], Question)
  <1>7. parse_request_line(line) =
          [ok |-> TRUE, path |-> decode_url(target[1], FALSE),
           params |-> parse_query_text(target[2])]
    BY <1>6, Zenon DEF parse_request_line, parts
  <1>8. target = Divide(t, Question)
    BY <1>2, <1>3, Zenon
  <1> QED
    BY <1>7, <1>8, Zenon DEF Parse, line

\* A path arrives, and with it the query behind it.
LEMMA PathParsed ==
  ASSUME NEW p \in Seq(PathBytes)
  PROVE  LET x == Spelled(p, UrlCode)
         IN  /\ \A q \in Seq(TargetBytes) :
                  Parse(x \o (<<Question>> \o q)) =
                    [ok |-> TRUE, path |-> p, params |-> parse_query_text(q)]
             /\ p # <<>> =>
                  Parse(x) = [ok |-> TRUE, path |-> p, params |-> parse_query_text(<<>>)]
  <1> DEFINE x == Spelled(p, UrlCode)
             S == TargetBytes
             o == <<Question>>
  <1>1. x \in Seq(S \ {Question})
    BY TargetTexts
  <1>2. decode_url(x, FALSE) = p
    <2>1. p \in Seq(Bytes)
      <3> DEFINE A == PathBytes
                 B == Bytes
      <3>1. A \subseteq B /\ p \in Seq(A)
        BY DEF PathBytes
      <3> HIDE DEF A, B
      <3> QED
        BY <3>1, SeqMonotonic DEF B
    <2>2. \A i \in 1 .. Len(p) : Decodes(UrlCode, p[i], FALSE)
      BY ElementOfSeq, TargetDecodes, Zenon
    <2> QED
      BY <2>1, <2>2, CodeTypes, DecodeSpelled, Zenon
  <1>3. Question \in S
    BY DEF Question, TargetBytes, Bytes, Space, Tab, Fragment
  <1> HIDE DEF x, S
  <1>4. x \in Seq(S)
    <2>1. S \ {Question} \subseteq S
      OBVIOUS
    <2> QED
      BY <1>1, <2>1, SeqMonotonic
  <1>5. ASSUME NEW q \in Seq(S)
        PROVE  Parse(x \o (o \o q)) =
                 [ok |-> TRUE, path |-> p, params |-> parse_query_text(q)]
    <2> DEFINE t == x \o (o \o q)
    <2>1. Divide(t, Question) = <<x, q>>
      BY <1>1, <1>3, DivideIs, Zenon
    <2>2. Divide(t, Question)[1] = x /\ Divide(t, Question)[2] = q
      BY <2>1
    <2>3. o \in Seq(S) /\ o # <<>>
      BY <1>3
    <2> HIDE DEF o
    <2>4. t \in Seq(S) /\ t # <<>>
      <3>1. o \o q \in Seq(S) /\ o \o q # <<>>
        BY <2>3, ConcatProperties, ConcatEqualIffEmpty
      <3> QED
        BY <1>4, <3>1, ConcatProperties, ConcatEqualIffEmpty
    <2> HIDE DEF t
    <2>5. Parse(t) = [ok |-> TRUE, path |-> decode_url(Divide(t, Question)[1], FALSE),
                      params |-> parse_query_text(Divide(t, Question)[2])]
      BY <2>4, TargetParsed, Zenon DEF S
    <2> QED
      BY <1>2, <2>2, <2>5, Zenon DEF t
  <1>6. ASSUME p # <<>>
        PROVE  Parse(x) = [ok |-> TRUE, path |-> p, params |-> parse_query_text(<<>>)]
    <2>1. x # <<>>
      <3>1. decode_url(<<>>, FALSE) = <<>>
        <4> DEFINE e == <<>>
        <4>1. e \in Seq(Bytes) /\ Len(e) = 0
          BY EmptySeq
        <4>2. \A i \in 1 .. Len(e) : Decodes(UrlCode, e[i], FALSE)
          BY <4>1
        <4>3. Spelled(e, UrlCode) = e
          BY CodeTypes, SpelledIs
        <4> HIDE DEF e
        <4>4. decode_url(Spelled(e, UrlCode), FALSE) = e
          BY <4>1, <4>2, CodeTypes, DecodeSpelled, Zenon
        <4> QED
          BY <4>3, <4>4, Zenon DEF e
      <3> QED
        BY <1>2, <1>6, <3>1, Zenon
    <2>2. Divide(x, Question) = <<x, <<>>>>
      BY <1>1, DivideNone, Zenon
    <2>3. Divide(x, Question)[1] = x /\ Divide(x, Question)[2] = <<>>
      BY <2>2
    <2>4. Parse(x) = [ok |-> TRUE, path |-> decode_url(Divide(x, Question)[1], FALSE),
                      params |-> parse_query_text(Divide(x, Question)[2])]
      BY <1>4, <2>1, TargetParsed, Zenon DEF S
    <2> QED
      BY <1>2, <2>3, <2>4, Zenon
  <1> QED
    BY <1>5, <1>6, Zenon DEF x, S, o

\* Parameters sent to a path arrive.
LEMMA QueryArrives ==
  ASSUME NEW p \in Seq(PathBytes), NEW ps \in Seq(Named)
  PROVE  Received(append_query_params(p, ps))
           = [ok |-> TRUE, path |-> p, params |-> Distinct(ps)]
  <1> DEFINE B == Bytes
             o == <<Question>>
             q == params_to_query_str(ps)
             t == append_query_params(p, ps)
  <1>1. p \in Seq(B) /\ p \in Seq(NoNul) /\ Find(p, Question) = 0
    <2> DEFINE A == PathBytes
    <2>1. A \subseteq B /\ A \subseteq NoNul /\ p \in Seq(A) /\ A = A \ {Question}
      BY DEF PathBytes, NoNul
    <2> HIDE DEF A, B
    <2>2. p \in Seq(A \ {Question})
      BY <2>1
    <2> QED
      BY <2>1, <2>2, SeqMonotonic, DivideNone, Zenon
  <1>2. o \in Seq(B) /\ o \in Seq(NoNul) /\ Spelled(o, UrlCode) = o
    BY SeparatorStays
  <1>3. /\ q \in Seq(B) /\ q \in Seq(NoNul)
        /\ encode_url(q) = Sent(ps) /\ Sent(ps) = Spelled(q, UrlCode)
    BY SentIs, EncodeIs, Zenon DEF Sent
  <1>4. t = (p \o o) \o q
    <2>1. ~(Find(p, Question) > 1)
      BY <1>1
    <2> QED
      BY <2>1, Zenon DEF append_query_params
  <1> HIDE DEF B, o, q, t
  <1>5. ThreeAsOne(B, p, o, q)
    <2>1. Three(B, p, o, q)
      BY <1>1, <1>2, <1>3, Zenon DEF Three
    <2> QED
      BY <2>1, ConcatThree
  <1>6. t = p \o (o \o q) /\ o \o q \in Seq(B) /\ t \in Seq(NoNul)
    <2>1. p \o (o \o q) \in Seq(NoNul)
      BY <1>1, <1>2, <1>3, ConcatProperties
    <2> QED
      BY <1>4, <1>5, <2>1, Zenon DEF ThreeAsOne
  <1>7. encode_url(t) = Spelled(p, UrlCode) \o (o \o Sent(ps))
    <2>1. Spelled(o \o q, UrlCode) = Spelled(o, UrlCode) \o Spelled(q, UrlCode)
      BY <1>2, <1>3, CodeTypes, SpelledIs, Zenon DEF B
    <2>2. Spelled(p \o (o \o q), UrlCode) = Spelled(p, UrlCode) \o Spelled(o \o q, UrlCode)
      BY <1>1, <1>6, CodeTypes, SpelledIs, Zenon DEF B
    <2>3. encode_url(t) = Spelled(t, UrlCode)
      BY <1>6, EncodeIs, Zenon
    <2> QED
      BY <1>2, <1>3, <1>6, <2>1, <2>2, <2>3, Zenon
  <1>8. Parse(Spelled(p, UrlCode) \o (o \o Sent(ps))) =
          [ok |-> TRUE, path |-> p, params |-> parse_query_text(Sent(ps))]
    <2>1. Sent(ps) \in Seq(TargetBytes)
      BY SentSplit
    <2> QED
      BY <2>1, PathParsed, Zenon DEF o
  <1>9. Received(t) = Parse(encode_url(t))
    BY Zenon DEF Received, Parse
  <1> QED
    BY <1>7, <1>8, <1>9, SentParsed, Zenon DEF t

\* The client's parameters have the names and values of parameters.
LEMMA ParamsTyped ==
  ASSUME TextType
  PROVE  Params \in Seq(Named)
  <1> DEFINE V == Seq(Bytes)
             values == Pieces(text, 0)
             M == Seq(NameBytes) \ {<<>>}
             n == IF Len(values) < Len(ParamNames) THEN Len(values) ELSE Len(ParamNames)
  <1>1. values \in Seq(V)
    <2> DEFINE B == Bytes
    <2>1. B \subseteq Nat /\ text \in Seq(B) /\ 0 \in Nat
      BY DEF TextType, Bytes
    <2> HIDE DEF B
    <2>2. Pieces(text, 0) \in Seq(Seq(B))
      BY <2>1, PiecesOf, Zenon
    <2> QED
      BY <2>2 DEF B
  <1>2. ParamNames \in Seq(M)
    BY NamesAssumption, Zenon DEF NameBytes
  <1> HIDE DEF V, values, M
  <1>3. /\ Len(values) \in Nat /\ \A i \in 1 .. Len(values) : values[i] \in V
        /\ Len(ParamNames) \in Nat /\ \A i \in 1 .. Len(ParamNames) : ParamNames[i] \in M
    BY <1>1, <1>2, LenProperties, ElementOfSeq
  <1>4. n \in Nat /\ n <= Len(values) /\ n <= Len(ParamNames)
    BY <1>3
  <1>5. Params = [i \in 1 .. n |-> <<ParamNames[i], values[i]>>]
    BY Zenon DEF Params, values
  <1> HIDE DEF n
  <1>6. \A i \in 1 .. n : <<ParamNames[i], values[i]>> \in M \X V
    BY <1>3, <1>4
  <1>7. Params \in Seq(M \X V)
    <2> DEFINE Z == M \X V
               e(i) == <<ParamNames[i], values[i]>>
    <2>1. \A i \in 1 .. n : e(i) \in Z
      BY <1>6
    <2>2. Params = [i \in 1 .. n |-> e(i)]
      BY <1>5
    <2> HIDE DEF Z, e
    <2> DEFINE f == [i \in 1 .. n |-> e(i)]
    <2>3. f \in [1 .. n -> Z]
      BY <2>1
    <2>4. \A m \in Nat : [1 .. m -> Z] \subseteq Seq(Z)
      OBVIOUS
    <2> HIDE DEF f
    <2>5. f \in Seq(Z)
      BY <1>4, <2>3, <2>4
    <2> QED
      BY <2>2, <2>5, Zenon DEF f, Z
  <1> QED
    BY <1>7, Zenon DEF Named, M, V

\* For any path and names that need no encoding, and any values: the parameters
\* of a Get reach the server as they were, in the order of the multimap, which has
\* its names sorted (NamesAssumption), but for those given twice
\* (HttpText: append_query_params, encode_url, parse_request_line).
THEOREM QueriesArrive == Spec => []ParametersArrive
  <1>1. TextType => ParametersArrive
    <2>1. Path \in Seq(PathBytes)
      BY NamesAssumption, Zenon DEF PathBytes
    <2> QED
      BY <2>1, ParamsTyped, QueryArrives DEF ParametersArrive
  <1> QED
    BY <1>1, TextTyped, PTL

\* A sequence whose elements are in a smaller set.
LEMMA SeqInSubset ==
  ASSUME NEW S, NEW R, NEW s \in Seq(S), \A i \in 1 .. Len(s) : s[i] \in R
  PROVE  s \in Seq(R)
  <1> DEFINE n == Len(s)
  <1>1. n \in Nat /\ SubSeq(s, 1, n) = s
    BY LenProperties, SubSeqFull
  <1>2. \A i \in 1 .. n : s[i] \in R
    OBVIOUS
  <1> HIDE DEF n
  <1>3. 1 \in Int /\ n \in Int
    BY <1>1
  <1>4. SubSeq(s, 1, n) \in Seq(R)
    BY <1>2, <1>3, SubSeqProperties
  <1> QED
    BY <1>1, <1>4

\* A path arrives, and encoding it again changes nothing.
LEMMA PathsArriveSame == TextType => PathsArrive
  <1> SUFFICES ASSUME TextType PROVE PathsArrive
    OBVIOUS
  <1>1. text \in Seq(Bytes)
    BY DEF TextType
  <1>2. encode_url(encode_url(text)) = encode_url(text)
    BY <1>1, EncodedTwice
  <1>3. ASSUME ToSet(text) \cap {0, Tab, Fragment, Percent, Question} = {}, text # <<>>
        PROVE  Received(text) = [ok |-> TRUE, path |-> text, params |-> <<>>]
    <2>1. text \in Seq(PathBytes)
      <3>1. \A i \in 1 .. Len(text) : text[i] \in ToSet(text) /\ text[i] \in Bytes
        <4>1. DOMAIN text = 1 .. Len(text)
          BY <1>1, LenProperties
        <4> QED
          BY <1>1, <4>1, ElementOfSeq DEF ToSet
      <3>2. \A i \in 1 .. Len(text) : text[i] \in PathBytes
        BY <1>3, <3>1 DEF PathBytes
      <3> QED
        BY <1>1, <3>2, SeqInSubset
    <2>2. Parse(Spelled(text, UrlCode)) =
            [ok |-> TRUE, path |-> text, params |-> parse_query_text(<<>>)]
      BY <1>3, <2>1, PathParsed
    <2>3. parse_query_text(<<>>) = <<>>
      <3> DEFINE o == <<>>
                 f == [i \in DOMAIN o |->
                         IF i \in {m \in DOMAIN o : \A k \in 1 .. (m - 1) : o[k] # o[m]}
                           THEN <<o[i]>> ELSE <<>>]
      <3>1. o \in Seq(Named)
        BY EmptySeq
      <3>2. parse_query_text(Sent(o)) = Distinct(o)
        BY <3>1, SentParsed, Zenon
      <3>3. Distinct(o) = FlattenSeq(f)
        BY Zenon DEF Distinct
      <3>4. f = <<>>
        OBVIOUS
      <3>5. FlattenSeq(<<>>) = <<>>
        BY FlattenGrows
      <3>6. Sent(o) = <<>>
        BY SentIs
      <3> QED
        BY <3>2, <3>3, <3>4, <3>5, <3>6, Zenon
    <2>4. encode_url(text) = Spelled(text, UrlCode)
      <3>1. PathBytes \subseteq NoNul
        BY DEF PathBytes, NoNul
      <3>2. text \in Seq(NoNul)
        BY <2>1, <3>1, SeqMonotonic
      <3> QED
        BY <3>2, EncodeIs, Zenon
    <2> QED
      BY <2>2, <2>3, <2>4, Zenon DEF Received, Parse
  <1> QED
    BY <1>2, <1>3, Zenon DEF PathsArrive

-----------------------------------------------------------------------------
\* A header's value begins behind a blank.
LEMMA TrimBlank ==
  ASSUME NEW t \in Seq(Bytes)
  PROVE  Trim(<<Space>> \o t) = Trim(t)
  <1> DEFINE o == <<Space>>
             u == o \o t
             n == Len(t)
             I == {i \in DOMAIN t : ~IsBlank(t[i])}
             J == {i \in DOMAIN u : ~IsBlank(u[i])}
             lo == CHOOSE i \in I : \A k \in I : i <= k
             hi == CHOOSE i \in I : \A k \in I : k <= i
             first == CHOOSE i \in J : \A k \in J : i <= k
             last == CHOOSE i \in J : \A k \in J : k <= i
  <1>1. o \in Seq(Bytes) /\ Len(o) = 1 /\ o[1] = Space
    BY DEF Space, Bytes
  <1> HIDE DEF o
  <1>2. /\ u \in Seq(Bytes) /\ Len(u) = 1 + n /\ n \in Nat /\ DOMAIN t = 1 .. n
        /\ DOMAIN u = 1 .. 1 + n
        /\ u[1] = Space
        /\ \A i \in 1 .. n : u[i + 1] = t[i]
    <2>1. /\ u \in Seq(Bytes) /\ Len(u) = Len(o) + n
          /\ \A i \in 1 .. Len(o) + n : u[i] = IF i <= Len(o) THEN o[i] ELSE t[i - Len(o)]
      BY <1>1, ConcatProperties, Zenon
    <2>2. n \in Nat /\ DOMAIN t = 1 .. n /\ DOMAIN u = 1 .. Len(u)
      BY <2>1, LenProperties
    <2> HIDE DEF u, n
    <2>3. \A i \in 1 .. 1 + n : u[i] = IF i <= 1 THEN o[i] ELSE t[i - 1]
      BY <1>1, <2>1
    <2>4. u[1] = Space
      BY <1>1, <2>2, <2>3
    <2>5. ASSUME NEW i \in 1 .. n
          PROVE  u[i + 1] = t[i]
      <3>1. i + 1 \in 1 .. 1 + n /\ ~(i + 1 <= 1) /\ (i + 1) - 1 = i
        BY <2>2
      <3> QED
        BY <2>3, <3>1
    <2> QED
      BY <1>1, <2>1, <2>2, <2>4, <2>5
  <1> HIDE DEF u, n
  <1>3. /\ \A i \in I : i \in 1 .. n /\ i + 1 \in J
        /\ \A i \in J : i \in 2 .. 1 + n /\ i - 1 \in I
    <2>1. IsBlank(Space)
      BY DEF IsBlank
    <2>2. \A i \in I : i \in 1 .. n /\ i + 1 \in J
      <3> SUFFICES ASSUME NEW i \in I PROVE i \in 1 .. n /\ i + 1 \in J
        OBVIOUS
      <3>1. i \in 1 .. n /\ i + 1 \in 1 .. 1 + n /\ ~IsBlank(t[i])
        BY <1>2
      <3>2. u[i + 1] = t[i]
        BY <1>2, <3>1
      <3> QED
        BY <1>2, <3>1, <3>2
    <2>3. \A i \in J : i \in 2 .. 1 + n /\ i - 1 \in I
      <3> SUFFICES ASSUME NEW i \in J PROVE i \in 2 .. 1 + n /\ i - 1 \in I
        OBVIOUS
      <3>1. i \in 1 .. 1 + n /\ ~IsBlank(u[i])
        BY <1>2
      <3>2. i # 1
        BY <1>2, <2>1, <3>1
      <3>3. i \in 2 .. 1 + n /\ i - 1 \in 1 .. n /\ (i - 1) + 1 = i
        BY <1>2, <3>1, <3>2
      <3>4. u[(i - 1) + 1] = t[i - 1]
        BY <1>2, <3>3
      <3> QED
        BY <1>2, <3>1, <3>3, <3>4
    <2> QED
      BY <2>2, <2>3
  <1>4. /\ Trim(t) = IF I = {} THEN <<>> ELSE SubSeq(t, lo, hi)
        /\ Trim(u) = IF J = {} THEN <<>> ELSE SubSeq(u, first, last)
    BY Zenon DEF Trim
  <1>5. CASE I = {}
    <2>1. J = {}
      <3> HIDE DEF I, J
      <3> QED
        BY <1>3, <1>5
    <2> QED
      BY <1>4, <1>5, <2>1, Zenon DEF u, o
  <1>6. CASE I # {}
    <2> HIDE DEF I, J
    <2>1. /\ lo \in I /\ hi \in I /\ \A k \in I : lo <= k /\ k <= hi
          /\ lo \in 1 .. n /\ hi \in 1 .. n
      <3>1. I \subseteq 1 .. n
        BY <1>3
      <3>2. \E i \in I : \A k \in I : i <= k
        <4>1. I \in SUBSET Nat
          BY <3>1
        <4> QED
          BY <1>6, <4>1, LeastNumber
      <3>3. \E i \in I : \A k \in I : k <= i
        BY <1>2, <1>6, <3>1, MaxOfSubset, Zenon
      <3> QED
        BY <3>1, <3>2, <3>3, Zenon
    <2> HIDE DEF lo, hi
    <2>2. /\ lo + 1 \in J /\ hi + 1 \in J
          /\ \A k \in J : lo + 1 <= k /\ k <= hi + 1
      <3>1. lo + 1 \in J /\ hi + 1 \in J
        BY <1>3, <2>1
      <3>2. ASSUME NEW k \in J
            PROVE  lo + 1 <= k /\ k <= hi + 1
        <4>1. k - 1 \in I /\ k \in 2 .. 1 + n
          BY <1>3
        <4>2. lo <= k - 1 /\ k - 1 <= hi
          BY <2>1, <4>1
        <4> QED
          BY <1>2, <2>1, <4>1, <4>2
      <3> QED
        BY <3>1, <3>2
    <2>3. first \in J /\ last \in J /\ \A k \in J : first <= k /\ k <= last
      BY <2>2
    <2> HIDE DEF first, last
    <2>4. first = lo + 1 /\ last = hi + 1
      <3>1. J \subseteq Int /\ lo + 1 <= first /\ first <= lo + 1
            /\ hi + 1 <= last /\ last <= hi + 1
        BY <1>2, <1>3, <2>2, <2>3
      <3> QED
        BY <1>2, <2>1, <2>3, <3>1
    <2>5. SubSeq(u, lo + 1, hi + 1) = SubSeq(t, lo, hi)
      <3>1. /\ lo + 1 \in Len(o) + 1 .. Len(o) + Len(t)
            /\ hi + 1 \in Len(o) + 1 .. Len(o) + Len(t)
            /\ (lo + 1) - Len(o) = lo /\ (hi + 1) - Len(o) = hi
        BY <1>1, <1>2, <2>1 DEF n
      <3>2. SubSeq(o \o t, lo + 1, hi + 1) = SubSeq(t, (lo + 1) - Len(o), (hi + 1) - Len(o))
        BY <1>1, <3>1, SubSeqOfConcat2, Zenon
      <3> QED
        BY <3>1, <3>2, Zenon DEF u
    <2>6. J # {}
      BY <2>2
    <2> QED
      BY <1>4, <1>6, <2>4, <2>5, <2>6, Zenon DEF u, o
  <1> QED
    BY <1>5, <1>6

\* Trimming takes only blanks away.
LEMMA TrimKeeps ==
  ASSUME NEW t \in Seq(Bytes)
  PROVE  /\ Trim(t) \in Seq(Bytes)
         /\ \A i \in 1 .. Len(Trim(t)) : Trim(t)[i] \in ToSet(t)
         /\ \A c \in ToSet(t) : ~IsBlank(c) => c \in ToSet(Trim(t))
  <1> DEFINE B == Bytes
             n == Len(t)
             I == {i \in DOMAIN t : ~IsBlank(t[i])}
             lo == CHOOSE i \in I : \A k \in I : i <= k
             hi == CHOOSE i \in I : \A k \in I : k <= i
             w == Trim(t)
  <1>1. n \in Nat /\ DOMAIN t = 1 .. n /\ \A i \in 1 .. n : t[i] \in ToSet(t)
    <2>1. n \in Nat /\ DOMAIN t = 1 .. n
      BY LenProperties
    <2> QED
      BY <2>1 DEF ToSet
  <1>2. w = IF I = {} THEN <<>> ELSE SubSeq(t, lo, hi)
    BY Zenon DEF Trim
  <1>3. I \subseteq 1 .. n
    BY <1>1
  <1>4. \A c \in ToSet(t) : ~IsBlank(c) => \E i \in I : c = t[i]
    BY DEF ToSet
  <1>5. t \in Seq(B)
    OBVIOUS
  <1> HIDE DEF I, w, B
  <1>6. CASE I = {}
    <2>1. w = <<>>
      BY <1>2, <1>6
    <2>2. w \in Seq(B) /\ 1 .. Len(w) = {}
      BY <2>1, EmptySeq
    <2> QED
      BY <1>4, <1>6, <2>2, Zenon DEF w, B
  <1>7. CASE I # {}
    <2>1. /\ lo \in I /\ hi \in I /\ \A k \in I : lo <= k /\ k <= hi
          /\ lo \in 1 .. n /\ hi \in 1 .. n
      <3>1. \E i \in I : \A k \in I : i <= k
        <4>1. I \in SUBSET Nat
          BY <1>3
        <4> QED
          BY <1>7, <4>1, LeastNumber
      <3>2. \E i \in I : \A k \in I : k <= i
        BY <1>1, <1>3, <1>7, MaxOfSubset, Zenon
      <3> QED
        BY <1>3, <3>1, <3>2, Zenon
    <2> HIDE DEF lo, hi
    <2>2. lo <= hi
      BY <2>1
    <2>3. /\ w \in Seq(B) /\ Len(w) = hi - lo + 1
          /\ \A i \in 1 .. hi - lo + 1 : w[i] = t[lo + i - 1]
      <3>1. lo \in 1 .. Len(t) + 1 /\ hi \in lo - 1 .. Len(t)
        BY <1>1, <2>1, <2>2 DEF n
      <3>2. w = SubSeq(t, lo, hi)
        BY <1>2, <1>7, Zenon
      <3> QED
        BY <1>5, <3>1, <3>2, PieceOf
    <2>4. \A i \in 1 .. Len(w) : w[i] \in ToSet(t)
      BY <1>1, <2>1, <2>3
    <2>5. ASSUME NEW i \in I
          PROVE  t[i] \in ToSet(w)
      <3>1. /\ i - lo + 1 \in 1 .. hi - lo + 1 /\ lo + (i - lo + 1) - 1 = i
        BY <1>1, <1>3, <2>1
      <3>2. w[i - lo + 1] = t[i]
        BY <2>3, <3>1
      <3>3. i - lo + 1 \in DOMAIN w
        BY <2>3, <3>1, LenProperties
      <3> QED
        BY <3>2, <3>3 DEF ToSet
    <2>6. \A c \in ToSet(t) : ~IsBlank(c) => c \in ToSet(w)
      BY <1>4, <2>5, Zenon
    <2> QED
      BY <2>3, <2>4, <2>6, Zenon DEF w, B
  <1> QED
    BY <1>6, <1>7

\* A text without percent signs decodes to itself, but for plus signs.
LEMMA DecodePlain ==
  ASSUME NEW s \in Seq(Bytes), \A i \in 1 .. Len(s) : s[i] # Percent
  PROVE  decode_url(s, FALSE) = s
  <1> DEFINE code == [c \in Bytes |-> <<c>>]
  <1>1. code \in ByteCodes
    <2>1. \A c \in Bytes : <<c>> \in Seq(Bytes)
      OBVIOUS
    <2> QED
      BY <2>1 DEF ByteCodes
  <1>2. \A c \in Bytes : code[c] = <<c>>
    BY Zenon
  <1>3. \A i \in 1 .. Len(s) : s[i] \in Bytes
    BY ElementOfSeq
  <1> HIDE DEF code
  <1>4. Spelled(s, code) = s
    BY <1>1, <1>2, <1>3, PlainSpelled
  <1>5. \A i \in 1 .. Len(s) : Decodes(code, s[i], FALSE)
    BY <1>2, <1>3, Zenon DEF Decodes
  <1>6. decode_url(Spelled(s, code), FALSE) = s
    BY <1>1, <1>5, DecodeSpelled, Zenon
  <1> QED
    BY <1>4, <1>6, Zenon

\* A field without its line end.
FieldLine(t) == (<<97>> \o <<Colon, Space>>) \o t

\* The value of a header field is parsed, without the blanks around it.
LEMMA FieldParsed ==
  ASSUME NEW t \in Seq(Bytes), Percent \notin ToSet(t)
  PROVE  ParseHeader(FieldLine(t)) =
           IF ToSet(t) \cap {0, 10, 13} # {} THEN <<>> ELSE <<<<<<97>>, Trim(t)>>>>
  <1> DEFINE X == {0, 10, 13}
             B == Bytes
             key == <<97>>
             sep == <<Colon>>
             blank == <<Space>>
             b == blank \o t
             line == FieldLine(t)
             w == Trim(t)
             value(i) == decode_url(Trim(SubSeq(line, i + 1, Len(line))), FALSE)
  <1>1. t \in Seq(B)
    OBVIOUS
  <1>2. /\ w \in Seq(B) /\ \A i \in 1 .. Len(w) : w[i] \in ToSet(t)
        /\ \A c \in ToSet(t) : ~IsBlank(c) => c \in ToSet(w)
    BY <1>1, TrimKeeps
  <1>3. Trim(b) = w
    BY <1>1, TrimBlank
  <1>4. decode_url(w, FALSE) = w
    <2>1. \A i \in 1 .. Len(w) : w[i] # Percent
      BY <1>2
    <2> HIDE DEF w
    <2> QED
      BY <1>2, <2>1, DecodePlain, Zenon DEF B
  <1>5. ToSet(w) \cap X # {} <=> ToSet(t) \cap X # {}
    <2>1. \A c \in X : ~IsBlank(c)
      BY DEF IsBlank, Space, Tab
    <2>2. ToSet(w) \subseteq ToSet(t)
      <3>1. DOMAIN w = 1 .. Len(w)
        BY <1>2, LenProperties
      <3> QED
        BY <1>2, <3>1 DEF ToSet
    <2> HIDE DEF X, w
    <2> QED
      BY <1>2, <2>1, <2>2
  <1>6. /\ key \in Seq(B \ {Colon}) /\ Len(key) = 1 /\ Colon \in B
        /\ key \in Seq(B) /\ sep \in Seq(B) /\ blank \in Seq(B)
    BY DEF Colon, Bytes, Space
  <1> HIDE DEF B, key, w, X
  <1>7. line = key \o (sep \o b) /\ b \in Seq(B)
    <2>1. line = (key \o <<Colon, Space>>) \o t
      BY Zenon DEF FieldLine, key
    <2>2. <<Colon, Space>> = sep \o blank
      OBVIOUS
    <2> HIDE DEF sep, blank
    <2>3. sep \o blank \in Seq(B) /\ b \in Seq(B)
      BY <1>1, <1>6, ConcatProperties
    <2>4. ThreeAsOne(B, key, sep \o blank, t) /\ ThreeAsOne(B, sep, blank, t)
      <3>1. Three(B, key, sep \o blank, t) /\ Three(B, sep, blank, t)
        BY <1>1, <1>6, <2>3, Zenon DEF Three
      <3> QED
        BY <3>1, ConcatThree
    <2>5. line = key \o ((sep \o blank) \o t) /\ (sep \o blank) \o t = sep \o b
      BY <2>1, <2>2, <2>4, Zenon DEF ThreeAsOne
    <2> QED
      BY <2>3, <2>5, Zenon
  <1> HIDE DEF b, line
  <1>8. Find(line, Colon) = 2 /\ SubSeq(line, 1, 1) = key /\ SubSeq(line, 3, Len(line)) = b
    <2>1. LET x == key \o (<<Colon>> \o b)
          IN  /\ Find(x, Colon) = Len(key) + 1
              /\ SubSeq(x, 1, Len(key)) = key
              /\ SubSeq(x, Len(key) + 2, Len(x)) = b
              /\ Len(key) \in Nat
      BY <1>6, <1>7, FoundAt, Zenon
    <2>2. /\ Find(line, Colon) = Len(key) + 1
          /\ SubSeq(line, 1, Len(key)) = key
          /\ SubSeq(line, Len(key) + 2, Len(line)) = b
      BY <1>7, <2>1, Zenon DEF sep
    <2> QED
      BY <1>6, <2>2
  <1>9. value(2) = w
    <2>1. 2 + 1 = 3
      OBVIOUS
    <2> QED
      BY <1>3, <1>4, <1>8, <2>1, Zenon
  <1>10. ParseHeader(line) = IF 2 <= 1 \/ ToSet(value(2)) \cap {0, 10, 13} # {} THEN <<>>
                             ELSE <<<<SubSeq(line, 1, 2 - 1), value(2)>>>>
    BY <1>8, Zenon DEF ParseHeader
  <1>11. 2 - 1 = 1 /\ ~(2 <= 1)
    OBVIOUS
  <1> HIDE DEF value
  <1> QED
    BY <1>5, <1>8, <1>9, <1>10, <1>11, Zenon DEF X, line, w, key

\* What is written for one field: its line and an empty one.
LEMMA FieldWritten ==
  ASSUME NEW t \in Seq(Bytes)
  PROVE  LET s == write_headers(<<<<<<97>>, t>>>>)
             n == Len(t) + 3
         IN  /\ s \in Seq(Bytes) /\ Len(s) = n + 4 /\ n \in Nat
             /\ SubSeq(s, 1, n) = FieldLine(t)
             /\ s[1] = 97 /\ s[2] = Colon /\ s[3] = Space
             /\ \A i \in 1 .. Len(t) : s[3 + i] = t[i]
             /\ s[n + 1] = 13 /\ s[n + 2] = 10 /\ s[n + 3] = 13 /\ s[n + 4] = 10
  <1> DEFINE B == Bytes
             k == <<97>> \o <<Colon, Space>>
             m == Len(t)
             n == m + 3
             line == k \o t
             e == CrLf
             f == <<<<<<97>>, t>>>>
             r == [i \in DOMAIN f |-> HeaderLine(f[i][1], f[i][2])]
             full == line \o e
             s == full \o e
  <1>1. k \in Seq(B) /\ Len(k) = 3 /\ k[1] = 97 /\ k[2] = Colon /\ k[3] = Space
    BY DEF Bytes, Colon, Space
  <1>2. e \in Seq(B) /\ Len(e) = 2 /\ e[1] = 13 /\ e[2] = 10
    BY DEF CrLf, Bytes
  <1>3. m \in Nat /\ t \in Seq(B)
    BY LenProperties
  <1> HIDE DEF B, k, m, e
  <1>4. /\ line \in Seq(B) /\ Len(line) = 3 + m
        /\ \A i \in 1 .. 3 + m : line[i] = IF i <= 3 THEN k[i] ELSE t[i - 3]
    <2>0. k \in Seq(B) /\ t \in Seq(B)
      BY <1>1, <1>3
    <2>1. /\ line \in Seq(B) /\ Len(line) = Len(k) + Len(t)
          /\ \A i \in 1 .. Len(k) + Len(t) :
               line[i] = IF i <= Len(k) THEN k[i] ELSE t[i - Len(k)]
      BY <2>0, ConcatProperties
    <2> HIDE DEF line
    <2> QED
      BY <1>1, <2>1 DEF m
  <1>5. /\ line[1] = 97 /\ line[2] = Colon /\ line[3] = Space
        /\ \A i \in 1 .. m : line[3 + i] = t[i]
    <2> HIDE DEF line
    <2>1. 1 \in 1 .. 3 + m /\ 2 \in 1 .. 3 + m /\ 3 \in 1 .. 3 + m
      BY <1>3
    <2>2. \A i \in 1 .. m : 3 + i \in 1 .. 3 + m /\ ~(3 + i <= 3) /\ (3 + i) - 3 = i
      BY <1>3
    <2> QED
      BY <1>1, <1>4, <2>1, <2>2
  <1> HIDE DEF line
  <1>6. /\ full \in Seq(B) /\ Len(full) = n + 2
        /\ \A i \in 1 .. n : full[i] = line[i]
        /\ full[n + 1] = 13 /\ full[n + 2] = 10
    <2>1. /\ full \in Seq(B) /\ Len(full) = Len(line) + Len(e)
          /\ \A i \in 1 .. Len(line) + Len(e) :
               full[i] = IF i <= Len(line) THEN line[i] ELSE e[i - Len(line)]
      BY <1>2, <1>4, ConcatProperties, Zenon
    <2> HIDE DEF full
    <2>2. Len(line) = n /\ n \in Nat
      BY <1>3, <1>4
    <2> HIDE DEF n
    <2> QED
      BY <1>2, <2>1, <2>2
  <1> HIDE DEF full
  <1>7. /\ s \in Seq(B) /\ Len(s) = n + 4
        /\ \A i \in 1 .. n + 2 : s[i] = full[i]
        /\ s[n + 3] = 13 /\ s[n + 4] = 10
    <2>1. /\ s \in Seq(B) /\ Len(s) = Len(full) + Len(e)
          /\ \A i \in 1 .. Len(full) + Len(e) :
               s[i] = IF i <= Len(full) THEN full[i] ELSE e[i - Len(full)]
      BY <1>2, <1>6, ConcatProperties, Zenon
    <2> HIDE DEF s
    <2>2. n \in Nat
      BY <1>3
    <2> HIDE DEF n
    <2> QED
      BY <1>2, <1>6, <2>1, <2>2
  <1>8. write_headers(f) = s
    <2>1. r = <<full>>
      <3>1. DOMAIN f = 1 .. 1 /\ f[1] = <<<<97>>, t>>
        OBVIOUS
      <3>2. f[1][1] = <<97>> /\ f[1][2] = t
        BY <3>1
      <3>3. HeaderLine(<<97>>, t) = full
        BY Zenon DEF HeaderLine, full, line, k, e
      <3> HIDE DEF f
      <3>4. \A i \in 1 .. 1 : i = 1
        OBVIOUS
      <3>5. r = [i \in 1 .. 1 |-> full]
        BY <3>1, <3>2, <3>3, <3>4, Zenon
      <3>6. [i \in 1 .. 1 |-> full] = <<full>>
        OBVIOUS
      <3> QED
        BY <3>5, <3>6, Zenon
    <2>2. FlattenSeq(<<full>>) = full
      <3> DEFINE o == <<>>
      <3>1. o \in Seq(Seq(B)) /\ Append(o, full) = <<full>>
        BY <1>6
      <3>2. FlattenSeq(o) = <<>>
        BY FlattenGrows
      <3> HIDE DEF o
      <3>3. FlattenSeq(Append(o, full)) = FlattenSeq(o) \o full
        BY <1>6, <3>1, FlattenGrows
      <3>4. <<>> \o full = full
        BY <1>6, ConcatEmptySeq
      <3> QED
        BY <3>1, <3>2, <3>3, <3>4, Zenon
    <2>3. write_headers(f) = FlattenSeq(r) \o e
      BY Zenon DEF write_headers, e
    <2> QED
      BY <2>1, <2>2, <2>3, Zenon
  <1> HIDE DEF f, s
  <1>9. SubSeq(s, 1, n) = line
    <2>1. 1 \in 1 .. Len(s) + 1 /\ n \in 1 - 1 .. Len(s) /\ n - 1 + 1 = n
      BY <1>3, <1>7
    <2>2. /\ SubSeq(s, 1, n) \in Seq(B) /\ Len(SubSeq(s, 1, n)) = n
          /\ \A i \in 1 .. n : SubSeq(s, 1, n)[i] = s[1 + i - 1]
      BY <1>7, <2>1, PieceOf
    <2>3. \A i \in 1 .. n : i \in 1 .. n + 2 /\ 1 + i - 1 = i
      BY <1>3
    <2>4. \A i \in 1 .. n : SubSeq(s, 1, n)[i] = line[i]
      BY <1>6, <1>7, <2>2, <2>3
    <2>5. Len(line) = n
      BY <1>3, <1>4
    <2> QED
      BY <1>4, <2>2, <2>4, <2>5, SeqEqual
  <1>10. /\ s[1] = 97 /\ s[2] = Colon /\ s[3] = Space
         /\ \A i \in 1 .. m : s[3 + i] = t[i]
         /\ s[n + 1] = 13 /\ s[n + 2] = 10 /\ n \in Nat
    <2>1. \A i \in 1 .. n : s[i] = line[i]
      <3>1. \A i \in 1 .. n : i \in 1 .. n + 2
        BY <1>3
      <3> QED
        BY <1>6, <1>7, <3>1
    <2>2. 1 \in 1 .. n /\ 2 \in 1 .. n /\ 3 \in 1 .. n /\ \A i \in 1 .. m : 3 + i \in 1 .. n
      BY <1>3
    <2>3. n + 1 \in 1 .. n + 2 /\ n + 2 \in 1 .. n + 2 /\ n \in Nat
      BY <1>3
    <2> QED
      BY <1>5, <1>6, <1>7, <2>1, <2>2, <2>3
  <1> QED
    BY <1>7, <1>8, <1>9, <1>10, Zenon DEF FieldLine, line, k, m, B, f

\* Its lines, of a value without a line end.
LEMMA FieldLines ==
  ASSUME NEW t \in Seq(Bytes), ~HasCrLf(t)
  PROVE  LET n == Len(t) + 3
         IN  Lines(write_headers(<<<<<<97>>, t>>>>)) = {<<1, n + 1>>, <<n + 3, n + 3>>}
  <1> DEFINE s == write_headers(<<<<<<97>>, t>>>>)
             m == Len(t)
             n == m + 3
             ends == {k \in 1..(Len(s) - 1) : s[k] = 13 /\ s[k + 1] = 10}
             starts == {1} \cup {k + 2 : k \in ends}
  <1>1. /\ Len(s) = n + 4 /\ n \in Nat
        /\ s[1] = 97 /\ s[2] = Colon /\ s[3] = Space
        /\ \A i \in 1 .. m : s[3 + i] = t[i]
        /\ s[n + 1] = 13 /\ s[n + 2] = 10 /\ s[n + 3] = 13 /\ s[n + 4] = 10
    BY FieldWritten, Zenon
  <1>2. m \in Nat /\ \A k \in 1 .. m - 1 : ~(t[k] = 13 /\ t[k + 1] = 10)
    BY LenProperties DEF HasCrLf
  <1> HIDE DEF s, m
  <1>3. ends = {n + 1, n + 3}
    <2>1. ASSUME NEW k \in 1 .. n + 3, s[k] = 13, s[k + 1] = 10
          PROVE  k = n + 1 \/ k = n + 3
      <3>1. k # 1 /\ k # 2 /\ k # 3
        <4>1. s[1] # 13 /\ s[2] # 13 /\ s[3] # 13
          BY <1>1 DEF Colon, Space
        <4> QED
          BY <2>1, <4>1, Zenon
      <3>2. k # n
        <4> SUFFICES ASSUME k = n PROVE FALSE
          OBVIOUS
        <4>1. s[k + 1] = 13
          BY <1>1, Zenon
        <4> QED
          BY <2>1, <4>1
      <3>3. k # n + 2
        <4> SUFFICES ASSUME k = n + 2 PROVE FALSE
          OBVIOUS
        <4>1. s[k] = 10
          BY <1>1, Zenon
        <4> QED
          BY <2>1, <4>1
      <3>4. ~(k \in 4 .. n - 1)
        <4> SUFFICES ASSUME k \in 4 .. n - 1 PROVE FALSE
          OBVIOUS
        <4>1. k - 3 \in 1 .. m - 1 /\ k - 3 \in 1 .. m /\ (k - 3) + 1 \in 1 .. m
          BY <1>2
        <4>2. 3 + (k - 3) = k /\ 3 + ((k - 3) + 1) = k + 1
          BY <1>2
        <4>3. t[k - 3] = 13 /\ t[(k - 3) + 1] = 10
          BY <1>1, <2>1, <4>1, <4>2
        <4> DEFINE j == k - 3
        <4>4. j \in 1 .. m - 1 /\ t[j] = 13 /\ t[j + 1] = 10
          BY <4>1, <4>3
        <4> HIDE DEF j
        <4> QED
          BY <1>2, <4>4, Zenon
      <3>5. m \in Nat
        BY <1>2
      <3> QED
        BY <3>1, <3>2, <3>3, <3>4, <3>5
    <2>2. /\ n + 1 \in 1 .. n + 3 /\ n + 3 \in 1 .. n + 3
          /\ (n + 1) + 1 = n + 2 /\ (n + 3) + 1 = n + 4 /\ Len(s) - 1 = n + 3
      BY <1>1
    <2>3. \A k \in ends : k = n + 1 \/ k = n + 3
      BY <2>1, <2>2
    <2>4. n + 1 \in ends /\ n + 3 \in ends
      BY <1>1, <2>2
    <2> HIDE DEF ends, n
    <2> QED
      BY <2>3, <2>4
  <1>4. Lines(s) = {l \in starts \X ends :
                      l[1] <= l[2] /\ ~\E k \in ends : l[1] <= k /\ k < l[2]}
    BY Zenon DEF Lines
  <1> HIDE DEF ends
  <1>5. starts = {1, n + 3, n + 5}
    <2>1. (n + 1) + 2 = n + 3 /\ (n + 3) + 2 = n + 5
      BY <1>1
    <2> HIDE DEF n
    <2> QED
      BY <1>3, <2>1
  <1> HIDE DEF starts, n
  <1>6. \A x \in starts, y \in ends :
          /\ <<x, y>>[1] = x /\ <<x, y>>[2] = y
          /\ (x <= y /\ ~\E k \in ends : x <= k /\ k < y) <=>
               (x = 1 /\ y = n + 1) \/ (x = n + 3 /\ y = n + 3)
    BY <1>1, <1>3, <1>5
  <1>7. 1 \in starts /\ n + 3 \in starts /\ n + 1 \in ends /\ n + 3 \in ends
    BY <1>3, <1>5
  <1>8. Lines(s) = {<<1, n + 1>>, <<n + 3, n + 3>>}
    <2>1. ASSUME NEW l \in Lines(s)
          PROVE  l \in {<<1, n + 1>>, <<n + 3, n + 3>>}
      <3>1. PICK x \in starts, y \in ends : l = <<x, y>>
        BY <1>4
      <3>2. l[1] <= l[2] /\ ~\E k \in ends : l[1] <= k /\ k < l[2]
        BY <1>4, <2>1
      <3>3. l[1] = x /\ l[2] = y
        BY <1>6, <3>1, Zenon
      <3>4. x <= y /\ ~\E k \in ends : x <= k /\ k < y
        BY <3>2, <3>3
      <3> QED
        BY <1>6, <3>1, <3>4
    <2>2. <<1, n + 1>> \in Lines(s)
      <3>1. <<1, n + 1>>[1] = 1 /\ <<1, n + 1>>[2] = n + 1
        OBVIOUS
      <3>2. 1 <= n + 1 /\ ~\E k \in ends : 1 <= k /\ k < n + 1
        BY <1>6, <1>7
      <3> QED
        BY <1>4, <1>7, <3>1, <3>2
    <2>3. <<n + 3, n + 3>> \in Lines(s)
      <3>1. <<n + 3, n + 3>>[1] = n + 3 /\ <<n + 3, n + 3>>[2] = n + 3
        OBVIOUS
      <3>2. n + 3 <= n + 3 /\ ~\E k \in ends : n + 3 <= k /\ k < n + 3
        BY <1>6, <1>7
      <3> QED
        BY <1>4, <1>7, <3>1, <3>2
    <2> QED
      BY <2>1, <2>2, <2>3
  <1> QED
    BY <1>8, Zenon DEF s, n, m

\* The value of a header field arrives, or the headers are refused.
LEMMA HeadersArriveSame == TextType => HeadersArrive
  <1> DEFINE s == write_headers(<<<<<<97>>, text>>>>)
             n == Len(text) + 3
             field == <<<<97>>, Trim(text)>>
             bad == ToSet(text) \cap {0, 10, 13} # {}
             read == {l \in Lines(s) : \A e \in Lines(s) : e[1] = e[2] => l[2] < e[1]}
             parsed == {ParseHeader(SubSeq(s, l[1], l[2] - 1)) : l \in read}
  <1> SUFFICES ASSUME TextType, Percent \notin ToSet(text), ~HasCrLf(text)
               PROVE  /\ read_headers(s).ok <=> ~bad /\ Len(text) + 5 <= HeaderMax
                      /\ read_headers(s).ok => read_headers(s).fields = {field}
    BY Zenon DEF HeadersArrive
  <1>1. text \in Seq(Bytes) /\ Len(text) \in Nat /\ HeaderMax \in Nat
    BY HeaderMaxAssumption, LenProperties DEF TextType
  <1>2. Lines(s) = {<<1, n + 1>>, <<n + 3, n + 3>>}
    BY <1>1, FieldLines, Zenon
  <1>3. SubSeq(s, 1, n) = FieldLine(text) /\ n \in Nat
    BY <1>1, FieldWritten, Zenon
  <1>4. ParseHeader(FieldLine(text)) = IF bad THEN <<>> ELSE <<field>>
    BY <1>1, FieldParsed, Zenon
  <1>5. /\ read_headers(s).ok <=> /\ \E e \in Lines(s) : e[1] = e[2]
                                  /\ \A l \in read : l[2] + 2 - l[1] <= HeaderMax
                                  /\ <<>> \notin parsed
        /\ read_headers(s).fields = UNION {ToSet(p) : p \in parsed}
    BY DEF read_headers
  <1>6. n + 3 = Len(text) + 6 /\ n + 2 = Len(text) + 5
    BY <1>1
  <1> HIDE DEF s, n, field, bad
  <1>7. read = {<<1, n + 1>>}
    <2> DEFINE a == <<1, n + 1>>
               b == <<n + 3, n + 3>>
    <2>1. Lines(s) = {a, b}
      BY <1>2, Zenon
    <2>2. a[1] # a[2] /\ b[1] = b[2] /\ a[2] < b[1] /\ ~(b[2] < b[1])
      <3>1. a[1] = 1 /\ a[2] = n + 1 /\ b[1] = n + 3 /\ b[2] = n + 3
        OBVIOUS
      <3>2. 1 # n + 1 /\ n + 1 < n + 3 /\ ~(n + 3 < n + 3)
        <4>1. Len(text) \in Nat
          BY <1>1
        <4> QED
          BY <4>1 DEF n
      <3> HIDE DEF a, b
      <3> QED
        BY <3>1, <3>2, Zenon
    <2> HIDE DEF a, b
    <2>3. \A e \in Lines(s) : e[1] = e[2] => e = b
      BY <2>1, <2>2, Zenon
    <2>4. a \in read
      BY <2>1, <2>2, <2>3, Zenon
    <2>5. b \notin read
      BY <2>1, <2>2, Zenon
    <2>6. read \subseteq {a, b}
      BY <2>1, Zenon
    <2> HIDE DEF read
    <2> QED
      BY <2>4, <2>5, <2>6 DEF a
  <1> HIDE DEF read
  <1>8. \A l \in read : l[1] = 1 /\ l[2] = n + 1 /\ l[2] - 1 = n
    BY <1>3, <1>7
  <1>9. parsed = {IF bad THEN <<>> ELSE <<field>>}
    <2>1. \A l \in read : ParseHeader(SubSeq(s, l[1], l[2] - 1)) = IF bad THEN <<>> ELSE <<field>>
      BY <1>3, <1>4, <1>8, Zenon
    <2>2. <<1, n + 1>> \in read
      BY <1>7
    <2> QED
      BY <2>1, <2>2, Zenon
  <1> HIDE DEF parsed
  <1>10. \E e \in Lines(s) : e[1] = e[2]
    BY <1>2
  <1>11. (\A l \in read : l[2] + 2 - l[1] <= HeaderMax) <=> Len(text) + 5 <= HeaderMax
    <2>1. (n + 1) + 2 - 1 = Len(text) + 5
      BY <1>3, <1>6
    <2> QED
      BY <1>7, <1>8, <2>1
  <1>12. <<>> \notin parsed <=> ~bad
    <2>1. <<field>> # <<>>
      OBVIOUS
    <2> QED
      BY <1>9, <2>1
  <1>13. ~bad => UNION {ToSet(p) : p \in parsed} = {field}
    <2>1. ToSet(<<field>>) = {field}
      BY DEF ToSet
    <2> QED
      BY <1>9, <2>1
  <1> QED
    BY <1>5, <1>10, <1>11, <1>12, <1>13

\* The numbers of 16 bits.
Short(n) == n \in Nat /\ n < 65536

\* The surrogates are beyond the code points of two bytes.
LEMMA SurrogatesAre ==
  ASSUME NEW n \in Nat, n \in Surrogates
  PROVE  n >= 2048
  <1> DEFINE lo == 55296
             hi == 57343
  <1>1. lo \in Int /\ hi \in Int /\ lo >= 2048
    OBVIOUS
  <1>2. n \in lo .. hi
    BY DEF Surrogates
  <1> HIDE DEF lo, hi
  <1> QED
    BY <1>1, <1>2

\* The value of a hexadecimal digit.
LEMMA HexValueIs ==
  ASSUME NEW c \in Nat, IsHex(c)
  PROVE  HexValue(c) \in Int /\ 0 <= HexValue(c) /\ HexValue(c) < 16
  <1>1. \/ 48 <= c /\ c <= 57
        \/ 65 <= c /\ c <= 70
        \/ 97 <= c /\ c <= 102
    BY DEF IsHex, Digits
  <1>2. c \in Digits <=> 48 <= c /\ c <= 57
    BY DEF Digits
  <1>3. c \in Upper <=> 65 <= c /\ c <= 90
    BY DEF Upper
  <1> QED
    BY <1>1, <1>2, <1>3 DEF HexValue

\* Four hexadecimal digits say a number of 16 bits.
LEMMA HexOfFour ==
  ASSUME NEW s \in Seq(Nat), Len(s) = 4, \A i \in 1 .. 4 : IsHex(s[i])
  PROVE  Short(HexOf(s))
  <1> DEFINE N == Nat
             o == <<>>
             s1 == Append(o, s[1])
             s2 == Append(s1, s[2])
             s3 == Append(s2, s[3])
             s4 == Append(s3, s[4])
  <1>1. \A i \in 1 .. 4 : /\ s[i] \in N /\ HexValue(s[i]) \in Int
                           /\ 0 <= HexValue(s[i]) /\ HexValue(s[i]) < 16
    <2> SUFFICES ASSUME NEW i \in 1 .. 4
                 PROVE  /\ s[i] \in N /\ HexValue(s[i]) \in Int
                        /\ 0 <= HexValue(s[i]) /\ HexValue(s[i]) < 16
      BY Zenon
    <2>1. s[i] \in N /\ IsHex(s[i])
      BY ElementOfSeq, Zenon
    <2> QED
      BY <2>1, HexValueIs
  <1>2. s[1] \in N /\ s[2] \in N /\ s[3] \in N /\ s[4] \in N
    BY <1>1
  <1>3. o \in Seq(N)
    BY EmptySeq
  <1>4. s4 = s
    <2>1. s4 \in Seq(N) /\ Len(s4) = 4 /\ s4[1] = s[1] /\ s4[2] = s[2] /\ s4[3] = s[3]
          /\ s4[4] = s[4]
      BY <1>2
    <2> HIDE DEF s4
    <2>2. \A i \in 1 .. Len(s4) : s4[i] = s[i]
      <3>1. \A i \in 1 .. 4 : i = 1 \/ i = 2 \/ i = 3 \/ i = 4
        OBVIOUS
      <3> QED
        BY <2>1, <3>1
    <2> HIDE DEF N
    <2>3. s \in Seq(N)
      BY DEF N
    <2> QED
      BY <2>1, <2>2, <2>3, SeqEqual, Zenon
  <1>5. \A v \in Int : HexStep(v, s[1]) = 16 * v + HexValue(s[1])
    BY DEF HexStep
  <1> HIDE DEF o, N
  <1>6. s1 \in Seq(N) /\ HexOf(s1) = HexStep(HexOf(o), s[1])
    BY <1>2, <1>3, HexOfIs, AppendProperties DEF N
  <1> HIDE DEF s1
  <1>7. s2 \in Seq(N) /\ HexOf(s2) = HexStep(HexOf(s1), s[2])
    BY <1>2, <1>6, HexOfIs, AppendProperties DEF N
  <1> HIDE DEF s2
  <1>8. s3 \in Seq(N) /\ HexOf(s3) = HexStep(HexOf(s2), s[3])
    BY <1>2, <1>7, HexOfIs, AppendProperties DEF N
  <1> HIDE DEF s3
  <1>9. HexOf(s4) = HexStep(HexOf(s3), s[4])
    BY <1>2, <1>8, HexOfIs DEF N
  <1> HIDE DEF s4
  <1>10. HexOf(o) = 0
    BY HexOfIs DEF o
  <1> DEFINE a == HexValue(s[1])
             b == HexValue(s[2])
             c == HexValue(s[3])
             d == HexValue(s[4])
  <1>11. /\ a \in Int /\ 0 <= a /\ a < 16 /\ b \in Int /\ 0 <= b /\ b < 16
         /\ c \in Int /\ 0 <= c /\ c < 16 /\ d \in Int /\ 0 <= d /\ d < 16
    BY <1>1
  <1>12. /\ HexOf(s1) = 16 * HexOf(o) + a /\ HexOf(s2) = 16 * HexOf(s1) + b
         /\ HexOf(s3) = 16 * HexOf(s2) + c /\ HexOf(s4) = 16 * HexOf(s3) + d
    BY <1>6, <1>7, <1>8, <1>9, Zenon DEF HexStep
  <1> HIDE DEF a, b, c, d
  <1> DEFINE v == HexOf(s4)
  <1>13. v \in Int /\ 0 <= v /\ v < 65536
    BY <1>10, <1>11, <1>12
  <1>14. v \in Nat
    BY <1>13
  <1>15. HexOf(s) = v
    BY <1>4, Zenon
  <1> HIDE DEF v
  <1> QED
    BY <1>13, <1>14, <1>15 DEF Short

\* The number of bytes of a code point.
Utf8Length(code) == IF code < 128 THEN 1 ELSE IF code < 2048 THEN 2 ELSE 3

\* UTF-8 stands for its code point.
LEMMA Utf8Reads ==
  ASSUME NEW code, Short(code)
  PROVE  /\ code \in Surrogates => Utf8(code) = <<>>
         /\ code \notin Surrogates =>
              FromUtf8(Utf8(code)) = code /\ Len(Utf8(code)) = Utf8Length(code)
  <1>0. code \in Nat /\ code < 65536
    BY DEF Short
  <1>1. CASE code < 128
    <2> DEFINE u == <<code>>
    <2>1. Utf8(code) = u
      BY <1>1 DEF Utf8
    <2>2. Len(u) = 1 /\ u[1] = code
      OBVIOUS
    <2> HIDE DEF u
    <2>3. FromUtf8(u) = code
      BY <2>2 DEF FromUtf8
    <2>4. code \notin Surrogates
      BY <1>0, <1>1, SurrogatesAre
    <2>5. Utf8Length(code) = 1
      BY <1>1 DEF Utf8Length
    <2> QED
      BY <2>1, <2>2, <2>3, <2>4, <2>5
  <1>2. CASE ~(code < 128) /\ code < 2048
    <2> DEFINE x == 192 + code \div 64
               y == 128 + ((code \div 1) % 64)
               u == <<x, y>>
    <2>1. Utf8(code) = u
      BY <1>2 DEF Utf8, Continuation
    <2>2. Len(u) = 2 /\ u[1] = x /\ u[2] = y
      OBVIOUS
    <2>3. (x - 192) * 64 + (y - 128) = code
      BY <1>0, <1>2
    <2> HIDE DEF u, x, y
    <2>4. FromUtf8(u) = code
      BY <2>2, <2>3 DEF FromUtf8
    <2>5. code \notin Surrogates
      BY <1>0, <1>2, SurrogatesAre
    <2>6. Utf8Length(code) = 2
      BY <1>2 DEF Utf8Length
    <2> QED
      BY <2>1, <2>2, <2>4, <2>5, <2>6
  <1>3. CASE code \in Surrogates
    <2>1. ~(code < 2048) /\ ~(code < 128)
      BY <1>0, <1>3, SurrogatesAre
    <2> QED
      BY <1>3, <2>1 DEF Utf8
  <1>4. CASE ~(code < 128) /\ ~(code < 2048) /\ code \notin Surrogates
    <2> DEFINE x == 224 + code \div 4096
               y == 128 + ((code \div 64) % 64)
               z == 128 + ((code \div 1) % 64)
               u == <<x, y, z>>
    <2>1. Utf8(code) = u
      BY <1>4 DEF Utf8, Continuation
    <2>2. Len(u) = 3 /\ u[1] = x /\ u[2] = y /\ u[3] = z
      OBVIOUS
    <2>3. (x - 224) * 4096 + (y - 128) * 64 + (z - 128) = code
      BY <1>0, <1>4
    <2> HIDE DEF u, x, y, z
    <2>4. FromUtf8(u) = code
      BY <2>2, <2>3 DEF FromUtf8
    <2>5. Utf8Length(code) = 3
      BY <1>4 DEF Utf8Length
    <2> QED
      BY <1>4, <2>1, <2>2, <2>4, <2>5
  <1> QED
    BY <1>0, <1>1, <1>2, <1>3, <1>4

\* An escape of four digits is their code point in UTF-8.
LEMMA UnicodeDecoded ==
  ASSUME NEW t \in Seq(Bytes), Len(t) = 4, HasHex(t, 1, 4)
  PROVE  /\ decode_url(<<Percent, 117>> \o t, FALSE) = Utf8(HexNumber(t, 1, 4))
         /\ Short(HexNumber(t, 1, 4))
  <1> DEFINE B == Bytes
             e == <<Percent, 117>>
             x == e \o t
             N == Nat
  <1>1. e \in Seq(B) /\ Len(e) = 2 /\ e[1] = Percent /\ e[2] = 117
    BY DEF Percent, Bytes
  <1>2. B \subseteq N
    BY DEF Bytes
  <1>3. \A i \in 1 .. 4 : IsHex(t[i])
    BY DEF HasHex
  <1> HIDE DEF e, B, N
  <1>4. t \in Seq(B)
    BY DEF B
  <1>5. /\ x \in Seq(B) /\ Len(x) = 6 /\ x[1] = Percent /\ x[2] = 117
        /\ \A i \in 1 .. 4 : x[i + 2] = t[i]
    <2>1. /\ x \in Seq(B) /\ Len(x) = Len(e) + Len(t)
          /\ \A i \in 1 .. Len(e) + Len(t) : x[i] = IF i <= Len(e) THEN e[i] ELSE t[i - Len(e)]
      <3>1. e \in Seq(B)
        BY <1>1
      <3> QED
        BY <1>4, <3>1, ConcatProperties, Zenon
    <2> HIDE DEF x
    <2>2. \A i \in 1 .. 6 : x[i] = IF i <= 2 THEN e[i] ELSE t[i - 2]
      BY <1>1, <2>1
    <2>3. ASSUME NEW i \in 1 .. 4
          PROVE  x[i + 2] = t[i]
      <3>1. i + 2 \in 1 .. 6 /\ ~(i + 2 <= 2) /\ (i + 2) - 2 = i
        OBVIOUS
      <3> QED
        BY <2>2, <3>1
    <2> QED
      BY <1>1, <2>1, <2>2, <2>3
  <1>6. x \in Seq(N) /\ t \in Seq(N)
    BY <1>2, <1>4, <1>5, SeqMonotonic, Zenon
  <1> HIDE DEF x
  <1>7. SubSeq(x, 3, 6) = t /\ SubSeq(t, 1, 4) = t
    <2> DEFINE u == SubSeq(x, 3, 6)
    <2>1. 3 \in 1 .. Len(x) + 1 /\ 6 \in 3 - 1 .. Len(x)
      BY <1>5
    <2>2. u \in Seq(N) /\ Len(u) = 6 - 3 + 1 /\ \A i \in 1 .. 6 - 3 + 1 : u[i] = x[3 + i - 1]
      BY <1>6, <2>1, PieceOf
    <2> HIDE DEF u
    <2>3. Len(u) = 4 /\ \A i \in 1 .. 4 : u[i] = t[i]
      BY <1>5, <2>2
    <2>4. u = t
      BY <1>6, <2>2, <2>3, SeqEqual, Zenon
    <2>5. SubSeq(t, 1, 4) = t
      BY SubSeqFull
    <2> QED
      BY <2>4, <2>5 DEF u
  <1>8. HexNumber(x, 3, 4) = HexOf(t) /\ HexNumber(t, 1, 4) = HexOf(t)
    <2>1. /\ HexNumber(x, 3, 4) = HexOf(SubSeq(x, 3, 3 + 4 - 1))
          /\ HexNumber(t, 1, 4) = HexOf(SubSeq(t, 1, 1 + 4 - 1))
      BY Zenon DEF HexNumber, HexOf, HexStep, FoldLeft, MapThenFoldSet
    <2>2. 3 + 4 - 1 = 6 /\ 1 + 4 - 1 = 4
      OBVIOUS
    <2> QED
      BY <1>7, <2>1, <2>2, Zenon
  <1>9. Short(HexOf(t))
    <2>1. t \in Seq(Nat)
      BY <1>6 DEF N
    <2> QED
      BY <1>3, <2>1, HexOfFour, Zenon
  <1>10. PICK f : decode_url(x, FALSE) = f[1] /\ IsDecoding(f, x, FALSE)
    <2>1. x \in Seq(Bytes)
      BY <1>5 DEF B
    <2> QED
      BY <2>1, DecodeUnfolds, Zenon
  <1>11. f[7] = <<>>
    <2>1. 7 \in 1 .. Len(x) + 1 /\ 7 > Len(x)
      BY <1>5
    <2>2. f[7] = DecodeStep(x, FALSE, f, 7)
      BY <1>10, <2>1, Zenon DEF IsDecoding
    <2> QED
      BY <2>1, <2>2, Zenon DEF DecodeStep
  <1>12. f[1] = Utf8(HexOf(t)) \o <<>>
    <2>1. 1 \in 1 .. Len(x) + 1 /\ ~(1 > Len(x)) /\ 1 < Len(x)
      BY <1>5
    <2>2. f[1] = DecodeStep(x, FALSE, f, 1)
      BY <1>10, <2>1, Zenon DEF IsDecoding
    <2>3. ~HasHex(x, 1 + 1, 2)
      <3>1. ~IsHex(x[2])
        BY <1>5 DEF IsHex, Digits
      <3>2. 2 \in 1 + 1 .. (1 + 1) + 2 - 1
        OBVIOUS
      <3> QED
        BY <3>1, <3>2 DEF HasHex
    <2>4. HasHex(x, 1 + 2, 4)
      <3>1. (1 + 2) + 4 - 1 = 6 /\ 1 + 2 = 3
        OBVIOUS
      <3>2. \A k \in 3 .. 6 : IsHex(x[k])
        <4> SUFFICES ASSUME NEW k \in 3 .. 6 PROVE IsHex(x[k])
          OBVIOUS
        <4>1. k - 2 \in 1 .. 4 /\ (k - 2) + 2 = k
          OBVIOUS
        <4>2. x[k] = t[k - 2]
          BY <1>5, <4>1
        <4> QED
          BY <1>3, <4>1, <4>2
      <3> QED
        BY <1>5, <3>1, <3>2 DEF HasHex
    <2>5. x[1] = Percent /\ x[1 + 1] = 117 /\ 1 + 2 = 3 /\ 1 + 6 = 7
      BY <1>5
    <2>6. DecodeStep(x, FALSE, f, 1) = Utf8(HexNumber(x, 1 + 2, 4)) \o f[1 + 6]
      BY <2>1, <2>3, <2>4, <2>5, Zenon DEF DecodeStep
    <2>7. HexNumber(x, 1 + 2, 4) = HexOf(t) /\ f[1 + 6] = <<>>
      BY <1>8, <1>11, <2>5, Zenon
    <2> QED
      BY <2>2, <2>6, <2>7, Zenon
  <1>13. Utf8(HexOf(t)) \o <<>> = Utf8(HexOf(t))
    <2>1. Utf8(HexOf(t)) \in Seq(Int)
      <3>1. HexOf(t) \in Int
        BY <1>9 DEF Short
      <3> QED
        BY <3>1, Utf8Is
    <2> QED
      BY <2>1, ConcatEmptySeq
  <1> QED
    BY <1>8, <1>9, <1>10, <1>12, <1>13, Zenon DEF x, e

\* Escapes of code points arrive.
LEMMA UnicodeArrives == TextType => UnicodeEscapesDecode
  <1> SUFFICES ASSUME TextType PROVE UnicodeEscapesDecode
    OBVIOUS
  <1> DEFINE code == HexNumber(text, 1, 4)
             utf8 == decode_url(<<Percent, 117>> \o text, FALSE)
             reads == IF code \in Surrogates THEN utf8 = <<>>
                      ELSE /\ FromUtf8(utf8) = code
                           /\ Len(utf8) = IF code < 128 THEN 1
                                          ELSE IF code < 2048 THEN 2 ELSE 3
  <1>1. ASSUME Len(text) = 4, HasHex(text, 1, 4)
        PROVE  reads
    <2>1. text \in Seq(Bytes)
      BY DEF TextType
    <2>2. utf8 = Utf8(code) /\ Short(code)
      BY <1>1, <2>1, UnicodeDecoded, Zenon
    <2> HIDE DEF code, utf8
    <2>3. /\ code \in Surrogates => Utf8(code) = <<>>
          /\ code \notin Surrogates =>
               FromUtf8(Utf8(code)) = code /\ Len(Utf8(code)) = Utf8Length(code)
      BY <2>2, Utf8Reads, Zenon
    <2>4. CASE code \in Surrogates
      BY <2>2, <2>3, <2>4, Zenon
    <2>5. CASE code \notin Surrogates
      BY <2>2, <2>3, <2>5 DEF Utf8Length
    <2> QED
      BY <2>4, <2>5, Zenon
  <1> QED
    BY <1>1, Zenon DEF UnicodeEscapesDecode

-----------------------------------------------------------------------------
(***************************************************************************)
(* Base 64.                                                                *)
(***************************************************************************)
\* The states of the loop, and the bits that matter after a byte.
Loops == [val : Nat, valb : {-6, -4, -2}, out : Seq(Nat)]
Loop(v, w, o) == [val |-> v, valb |-> w, out |-> o]
Bits(v, c) == (v * 256 + c) % 16384

\* The fields of such a record.
LEMMA LoopFields ==
  \A v, w, o :
    Loop(v, w, o).val = v /\ Loop(v, w, o).valb = w /\ Loop(v, w, o).out = o
  <1> TAKE v, w, o
  <1> DEFINE a == [val |-> v, valb |-> w, out |-> o]
  <1>1. Loop(v, w, o) = a
    BY Zenon DEF Loop
  <1>2. a.val = v /\ a.valb = w /\ a.out = o
    OBVIOUS
  <1> HIDE DEF a
  <1> QED
    BY <1>1, <1>2, Zenon

\* Such a record with two other values.
WithVal(a, x, y) == [a EXCEPT !.val = x, !.valb = y]
WithOut(a, x, y) == [a EXCEPT !.out = x, !.valb = y]
\* The records of the loop of base64_encode, with values replaced.
LEMMA LoopChanges ==
  \A v, w, o, x, y : /\ WithVal(Loop(v, w, o), x, y) = Loop(x, y, o)
                     /\ WithOut(Loop(v, w, o), x, y) = Loop(v, y, x)
  <1> TAKE v, w, o, x, y
  <1> DEFINE a == [val |-> v, valb |-> w, out |-> o]
             R == [val : {v, x}, valb : {w, y}, out : {o, x}]
             b == [a EXCEPT !.val = x, !.valb = y]
             c == [a EXCEPT !.out = x, !.valb = y]
             d == [val |-> x, valb |-> y, out |-> o]
             e == [val |-> v, valb |-> y, out |-> x]
  <1>1. Loop(v, w, o) = a /\ Loop(x, y, o) = d /\ Loop(v, y, x) = e
    BY Zenon DEF Loop
  <1>2. a \in R /\ d \in R /\ e \in R
    OBVIOUS
  <1>3. b \in R /\ c \in R
    BY <1>2, Zenon
  <1>4. b.val = x /\ b.valb = y /\ b.out = o
    OBVIOUS
  <1>5. c.val = v /\ c.valb = y /\ c.out = x
    OBVIOUS
  <1>6. b = d
    <2> HIDE DEF b
    <2> QED
      BY <1>2, <1>3, <1>4
  <1>7. c = e
    <2> HIDE DEF c
    <2> QED
      BY <1>2, <1>3, <1>5
  <1> HIDE DEF a, d, e
  <1> QED
    BY <1>1, <1>6, <1>7, Zenon DEF b, c, WithVal, WithOut

\* A digit is put out when there are bits for it.
LEMMA OutDigitIs ==
  ASSUME NEW v, NEW w \in Int, NEW o
  PROVE  /\ w < 0 => OutDigit(Loop(v, w, o)) = Loop(v, w, o)
         /\ ~(w < 0) => OutDigit(Loop(v, w, o))
                          = Loop(v, w - 6, Append(o, Shifted(v, w) % 64))
  <1> DEFINE a == Loop(v, w, o)
             d == Shifted(v, w) % 64
  <1>2. a.val = v /\ a.valb = w /\ a.out = o
    BY LoopFields
  <1>3. CASE w < 0
    BY <1>2, <1>3 DEF OutDigit
  <1>4. CASE ~(w < 0)
    <2>1. OutDigit(a) = [a EXCEPT !.out = Append(@, Shifted(a.val, a.valb) % 64),
                                  !.valb = @ - 6]
      BY <1>2, <1>4, Zenon DEF OutDigit
    <2>2. Shifted(a.val, a.valb) % 64 = d
      BY <1>2, Zenon
    <2> HIDE DEF d
    <2> DEFINE t == Append(o, d)
    <2> DEFINE x == w - 6
    <2>3. Append(a.out, Shifted(a.val, a.valb) % 64) = t /\ a.valb - 6 = x
      BY <1>2, <2>2, Zenon
    <2> HIDE DEF t, x
    <2>4. WithOut(a, t, x) = Loop(v, x, t)
      BY LoopChanges
    <2> QED
      BY <1>4, <2>1, <2>3, <2>4, Zenon DEF t, d, x, WithOut
  <1> QED
    BY <1>3, <1>4

\* What a byte adds.
LEMMA AddByteIs ==
  ASSUME NEW v \in Nat, NEW w \in {-6, -4, -2}, NEW o \in Seq(Nat), NEW c \in Bytes
  PROVE  LET b == Bits(v, c)
             a == AddByte(Loop(v, w, o), c)
         IN  /\ w = -6 => a = Loop(b, -4, Append(o, (b \div 4) % 64))
             /\ w = -4 => a = Loop(b, -2, Append(o, (b \div 16) % 64))
             /\ w = -2 => a = Loop(b, -6, Append(Append(o, (b \div 64) % 64), b % 64))
  <1> DEFINE b == Bits(v, c)
             a == Loop(v, w, o)
             a1 == Loop(b, w + 8, o)
  <1>1. AddByte(a, c) = OutDigit(OutDigit(a1))
    <2> DEFINE x == w + 8
               B(u) == (u * 256 + c) % 16384
    <2>1. a.val = v /\ a.valb = w
      BY LoopFields
    <2>5. B(v) = b
      BY DEF Bits
    <2>2. AddByte(a, c)
            = OutDigit(OutDigit([a EXCEPT !.val = B(a.val), !.valb = a.valb + 8]))
      BY DEF AddByte
    <2> HIDE DEF b, B
    <2>3. B(a.val) = b /\ a.valb + 8 = x
      BY <2>1, <2>5, Zenon
    <2> HIDE DEF x
    <2>4. WithVal(a, b, x) = Loop(b, x, o)
      BY LoopChanges
    <2> QED
      BY <2>2, <2>3, <2>4, Zenon DEF x, WithVal
  <1> HIDE DEF b
  <1>2. ASSUME w = -6
        PROVE  AddByte(a, c) = Loop(b, -4, Append(o, (b \div 4) % 64))
    <2>1. w + 8 = 2 /\ 2 - 6 = -4 /\ -4 < 0 /\ ~(2 < 0)
      BY <1>2
    <2> DEFINE d == Shifted(b, 2) % 64
               t == Append(o, d)
    <2>2. d = (b \div 4) % 64
      BY DEF Shifted
    <2> HIDE DEF d, t
    <2>3. OutDigit(Loop(b, 2, o)) = Loop(b, 2 - 6, t)
      BY <2>1, OutDigitIs DEF t, d
    <2>4. OutDigit(Loop(b, -4, t)) = Loop(b, -4, t)
      BY <2>1, OutDigitIs
    <2>5. AddByte(a, c) = Loop(b, -4, t)
      BY <1>1, <2>1, <2>3, <2>4
    <2> QED
      BY <2>2, <2>5, Zenon DEF t
  <1>3. ASSUME w = -4
        PROVE  AddByte(a, c) = Loop(b, -2, Append(o, (b \div 16) % 64))
    <2>1. w + 8 = 4 /\ 4 - 6 = -2 /\ -2 < 0 /\ ~(4 < 0)
      BY <1>3
    <2> DEFINE d == Shifted(b, 4) % 64
               t == Append(o, d)
    <2>2. d = (b \div 16) % 64
      BY DEF Shifted
    <2> HIDE DEF d, t
    <2>3. OutDigit(Loop(b, 4, o)) = Loop(b, 4 - 6, t)
      BY <2>1, OutDigitIs DEF t, d
    <2>4. OutDigit(Loop(b, -2, t)) = Loop(b, -2, t)
      BY <2>1, OutDigitIs
    <2>5. AddByte(a, c) = Loop(b, -2, t)
      BY <1>1, <2>1, <2>3, <2>4
    <2> QED
      BY <2>2, <2>5, Zenon DEF t
  <1>4. ASSUME w = -2
        PROVE  AddByte(a, c) = Loop(b, -6, Append(Append(o, (b \div 64) % 64), b % 64))
    <2>1. w + 8 = 6 /\ 6 - 6 = 0 /\ 0 - 6 = -6 /\ ~(0 < 0) /\ ~(6 < 0)
      BY <1>4
    <2> DEFINE d == Shifted(b, 6) % 64
               t == Append(o, d)
               e == Shifted(b, 0) % 64
               u == Append(t, e)
    <2>2. d = (b \div 64) % 64 /\ e = b % 64
      BY DEF Shifted
    <2> HIDE DEF d, t, e, u
    <2>3. OutDigit(Loop(b, 6, o)) = Loop(b, 6 - 6, t)
      BY <2>1, OutDigitIs DEF t, d
    <2>4. OutDigit(Loop(b, 0, t)) = Loop(b, 0 - 6, u)
      BY <2>1, OutDigitIs DEF u, e
    <2>5. AddByte(a, c) = Loop(b, -6, u)
      BY <1>1, <2>1, <2>3, <2>4
    <2> QED
      BY <2>2, <2>5, Zenon DEF t, u
  <1> QED
    BY <1>2, <1>3, <1>4, Zenon DEF b

\* What the loop makes of a text.
Looped(s) == FoldLeft(AddByte, [val |-> 0, valb |-> -6, out |-> <<>>], s)

\* A byte leads from one state of the loop to another.
LEMMA AddByteTyped ==
  ASSUME NEW a \in Loops, NEW c \in Bytes
  PROVE  AddByte(a, c) \in Loops
  <1> DEFINE v == a.val
             w == a.valb
             o == a.out
             b == Bits(v, c)
  <1>1. v \in Nat /\ w \in {-6, -4, -2} /\ o \in Seq(Nat) /\ a = Loop(v, w, o)
    BY DEF Loops, Loop
  <1>2. b \in Nat
    BY <1>1 DEF Bits, Bytes
  <1>3. (b \div 4) % 64 \in Nat /\ (b \div 16) % 64 \in Nat /\ (b \div 64) % 64 \in Nat
        /\ b % 64 \in Nat
    BY <1>2
  <1> HIDE DEF v, w, o, b
  <1> DEFINE o1 == Append(o, (b \div 4) % 64)
             o2 == Append(o, (b \div 16) % 64)
             o3 == Append(Append(o, (b \div 64) % 64), b % 64)
  <1>4. o1 \in Seq(Nat) /\ o2 \in Seq(Nat) /\ o3 \in Seq(Nat)
    BY <1>1, <1>3, AppendProperties
  <1>5. /\ w = -6 => AddByte(a, c) = Loop(b, -4, o1)
        /\ w = -4 => AddByte(a, c) = Loop(b, -2, o2)
        /\ w = -2 => AddByte(a, c) = Loop(b, -6, o3)
    <2>1. /\ w = -6 => AddByte(Loop(v, w, o), c) = Loop(b, -4, o1)
          /\ w = -4 => AddByte(Loop(v, w, o), c) = Loop(b, -2, o2)
          /\ w = -2 => AddByte(Loop(v, w, o), c) = Loop(b, -6, o3)
      BY <1>1, AddByteIs DEF b
    <2> QED
      BY <1>1, <2>1, Zenon
  <1> HIDE DEF o1, o2, o3
  <1>6. Loop(b, -4, o1) \in Loops /\ Loop(b, -2, o2) \in Loops /\ Loop(b, -6, o3) \in Loops
    BY <1>2, <1>4 DEF Loop, Loops
  <1>7. w = -6 \/ w = -4 \/ w = -2
    BY <1>1
  <1> QED
    BY <1>5, <1>6, <1>7, Zenon

\* The loop, byte by byte.
LEMMA LoopedIs ==
  /\ Looped(<<>>) = Loop(0, -6, <<>>)
  /\ \A s \in Seq(Bytes) : Looped(s) \in Loops
  /\ \A s \in Seq(Bytes), e \in Bytes :
       Looped(Append(s, e)) = AddByte(Looped(s), e)
  <1> DEFINE V == Loops
             N == Bytes
             none == [val |-> 0, valb |-> -6, out |-> <<>>]
             step == [e \in N |-> [v \in V |-> AddByte(v, e)]]
  <1>1. none \in V /\ \A v \in V, e \in N : AddByte(v, e) \in V
    <2>1. <<>> \in Seq(Nat) /\ 0 \in Nat /\ -6 \in {-6, -4, -2}
      BY EmptySeq
    <2>2. none \in V
      BY <2>1 DEF Loops
    <2> HIDE DEF none
    <2> QED
      BY <2>2, AddByteTyped
  <1>10. none = Loop(0, -6, <<>>)
    BY Zenon DEF Loop
  <1> HIDE DEF V, N, none
  <1>2. step \in [N -> [V -> V]]
    BY <1>1
  <1>3. \A e \in N, v \in V : step[e][v] = AddByte(v, e)
    OBVIOUS
  <1> HIDE DEF step
  <1>4. ASSUME NEW s \in Seq(N)
        PROVE  Looped(s) = Folded(s, V, none, step)
    <2> DEFINE Fold(g) == g = [u \in SUBSET DOMAIN s |->
                                IF u = {} THEN none
                                ELSE AddByte(g[u \ {Max(u)}], s[Max(u)])]
               it == CHOOSE g : Fold(g)
    <2>1. Looped(s) = it[DOMAIN s]
      BY Zenon DEF Looped, FoldLeft, MapThenFoldSet, none
    <2>2. PICK g \in [SUBSET DOMAIN s -> V] : IsSetFold(g, s, none, step)
      BY <1>1, <1>2, SetFoldExists, Zenon
    <2>3. ASSUME NEW u \in SUBSET DOMAIN s, u # {}
          PROVE  s[Max(u)] \in N
      <3>1. Len(s) \in Nat /\ DOMAIN s = 1 .. Len(s)
        BY LenProperties
      <3>2. Max(u) \in 1 .. Len(s)
        BY <2>3, <3>1, MaxOfSubset, Zenon
      <3> QED
        BY <3>2, ElementOfSeq
    <2>4. ASSUME NEW u \in SUBSET DOMAIN s
          PROVE  g[u] = IF u = {} THEN none ELSE AddByte(g[u \ {Max(u)}], s[Max(u)])
      <3>1. u # {} => g[u] = step[s[Max(u)]][g[u \ {Max(u)}]]
        BY <2>2 DEF IsSetFold
      <3>2. g[{}] = none /\ g[u \ {Max(u)}] \in V
        BY <2>2 DEF IsSetFold
      <3> QED
        BY <1>3, <2>3, <3>1, <3>2, Zenon
    <2>5. Fold(g)
      <3>1. g = [u \in SUBSET DOMAIN s |-> g[u]]
        OBVIOUS
      <3> QED
        BY <2>4, <3>1, Zenon
    <2>6. Fold(it)
      <3> HIDE DEF Fold
      <3> QED
        BY <2>5, Zenon
    <2>7. \A u \in SUBSET DOMAIN s :
            it[u] = IF u = {} THEN none ELSE AddByte(it[u \ {Max(u)}], s[Max(u)])
      <3> HIDE DEF it
      <3> QED
        BY <2>6, Zenon
    <2> HIDE DEF it
    <2>8. FitsFold(it, s, V, none, step)
      BY <1>3, <2>3, <2>7, Zenon DEF FitsFold
    <2>9. it[DOMAIN s] = Folded(s, V, none, step)
      BY <1>1, <1>2, <2>8, SetFoldIs
    <2> QED
      BY <2>1, <2>9, Zenon
  <1>5. /\ Folded(<<>>, V, none, step) = none
        /\ \A s \in Seq(N) : Folded(s, V, none, step) \in V
        /\ \A s \in Seq(N), e \in N :
             Folded(Append(s, e), V, none, step) = step[e][Folded(s, V, none, step)]
    BY <1>1, <1>2, FoldedIs
  <1>6. <<>> \in Seq(N) /\ \A s \in Seq(N), e \in N : Append(s, e) \in Seq(N)
    BY EmptySeq, AppendProperties
  <1>7. Looped(<<>>) = none
    BY <1>4, <1>5, <1>6, Zenon
  <1>8. \A s \in Seq(N) : Looped(s) \in V
    BY <1>4, <1>5, Zenon
  <1>9. ASSUME NEW s \in Seq(N), NEW e \in N
        PROVE  Looped(Append(s, e)) = AddByte(Looped(s), e)
    <2>1. /\ Looped(Append(s, e)) = Folded(Append(s, e), V, none, step)
          /\ Looped(s) = Folded(s, V, none, step)
      BY <1>4, <1>6, Zenon
    <2>2. Looped(Append(s, e)) = step[e][Looped(s)]
      BY <1>5, <2>1, Zenon
    <2> QED
      BY <1>3, <1>8, <2>2, Zenon
  <1> QED
    BY <1>7, <1>8, <1>9, <1>10, Zenon DEF V, N

\* Byte i begins in the digit at Place(i) and ends in the next.
Place(i) == i + (i - 1) \div 3
ByteBegins(o, i, c) ==
  /\ i % 3 = 1 => o[Place(i)] = c \div 4
  /\ i % 3 = 2 => o[Place(i)] % 16 = c \div 16
  /\ i % 3 = 0 => o[Place(i)] % 4 = c \div 64
ByteEnds(o, i, c) ==
  /\ i % 3 = 1 => o[Place(i) + 1] \div 16 = c % 4
  /\ i % 3 = 2 => o[Place(i) + 1] \div 4 = c % 16
  /\ i % 3 = 0 => o[Place(i) + 1] = c % 64

\* A sequence of digits, and one that continues another.
AreDigits(o) == o \in Seq(Nat) /\ \A i \in 1 .. Len(o) : o[i] < 64
Continues(o, u) == \A j \in 1 .. Len(o) : u[j] = o[j]

\* The bits that matter: those of the last byte, behind six of those before it.
HasBits(b, v, c) ==
  /\ b \in Nat /\ b % 256 = c
  /\ (b \div 4) % 64 = c \div 4
  /\ (b \div 16) % 64 = (v % 4) * 16 + c \div 16
  /\ (b \div 64) % 64 = (v % 16) * 4 + c \div 64
  /\ b % 64 = c % 64

\* They are these.
LEMMA BitsAre ==
  ASSUME NEW v \in Nat, NEW c \in Nat, c < 256
  PROVE  HasBits(Bits(v, c), v, c)
  <1> DEFINE b == Bits(v, c)
             r == v % 64
             q == v \div 64
  <1>1. v = 64 * q + r /\ r \in Int /\ 0 <= r /\ r < 64 /\ q \in Nat
    OBVIOUS
  <1>2. b = (v * 256 + c) % 16384
    BY DEF Bits
  <1>3. r % 4 = v % 4 /\ r % 16 = v % 16
    BY <1>1
  <1> HIDE DEF b, r, q
  <1>4. v * 256 + c = 16384 * q + (256 * r + c) /\ 256 * r + c \in Int
        /\ 0 <= 256 * r + c /\ 256 * r + c < 16384
    BY <1>1
  <1>5. b = 256 * r + c
    BY <1>1, <1>2, <1>4
  <1>6. b \in Nat /\ b % 256 = c /\ b % 64 = c % 64
    BY <1>1, <1>5
  <1>7. (b \div 4) % 64 = c \div 4
    BY <1>1, <1>5
  <1>8. (b \div 16) % 64 = (r % 4) * 16 + c \div 16
    BY <1>1, <1>5
  <1>9. (b \div 64) % 64 = (r % 16) * 4 + c \div 64
    BY <1>1, <1>5
  <1> QED
    BY <1>3, <1>6, <1>7, <1>8, <1>9 DEF b, HasBits

\* The bits of two bytes in one digit.
LEMMA SharedDigits ==
  ASSUME NEW v \in Nat, NEW p \in Nat, v % 256 = p, NEW c \in Nat, c < 256
  PROVE  /\ LET d == (v % 4) * 16 + c \div 16
            IN  d \in Nat /\ d < 64 /\ d \div 16 = p % 4 /\ d % 16 = c \div 16
         /\ LET d == (v % 16) * 4 + c \div 64
            IN  d \in Nat /\ d < 64 /\ d \div 4 = p % 16 /\ d % 4 = c \div 64
  <1> DEFINE x == v % 4
             y == v % 16
             e == c \div 16
             f == c \div 64
  <1>1. x = p % 4 /\ y = p % 16 /\ x \in Int /\ 0 <= x /\ x < 4
        /\ y \in Int /\ 0 <= y /\ y < 16
    OBVIOUS
  <1>2. e \in Int /\ 0 <= e /\ e < 16 /\ f \in Int /\ 0 <= f /\ f < 4
    OBVIOUS
  <1> HIDE DEF x, y, e, f
  <1>3. LET d == x * 16 + e
        IN  d \in Nat /\ d < 64 /\ d \div 16 = x /\ d % 16 = e
    BY <1>1, <1>2
  <1>4. LET d == y * 4 + f
        IN  d \in Nat /\ d < 64 /\ d \div 4 = y /\ d % 4 = f
    BY <1>1, <1>2
  <1> QED
    BY <1>1, <1>3, <1>4 DEF x, y, e, f

\* Where bytes are.
LEMMA PlacesAre ==
  ASSUME NEW k \in Nat
  PROVE  LET n == k + k \div 3
         IN  /\ \A i \in 1 .. k : /\ Place(i) \in 1 .. n
                                  /\ i < k \/ k % 3 = 0 => Place(i) + 1 \in 1 .. n
             /\ Place(k + 1) = n + 1
             /\ k % 3 # 0 => Place(k) + 1 = n + 1
             /\ k % 3 = 0 => n % 4 = 0 /\ (6 * n) \div 8 = k
             /\ k % 3 = 1 => n % 4 = 1 /\ (6 * (n + 1)) \div 8 = k
             /\ k % 3 = 2 => n % 4 = 2 /\ (6 * (n + 1)) \div 8 = k
             /\ (k + 1) + (k + 1) \div 3 = IF k % 3 = 2 THEN n + 2 ELSE n + 1
  <1> DEFINE q == k \div 3
             r == k % 3
             n == k + q
  <1>1. k = 3 * q + r /\ q \in Nat /\ r \in Int /\ (r = 0 \/ r = 1 \/ r = 2)
    OBVIOUS
  <1> HIDE DEF q, r
  <1>2. ASSUME NEW i \in 1 .. k
        PROVE  Place(i) \in 1 .. n /\ (i < k \/ r = 0 => Place(i) + 1 \in 1 .. n)
    <2> DEFINE m == (i - 1) \div 3
    <2>1. m \in Nat /\ 3 * m <= i - 1 /\ i - 1 < 3 * m + 3
      OBVIOUS
    <2> HIDE DEF m
    <2>2. m <= q
      BY <1>1, <2>1
    <2>3. i < k => i + m + 1 <= k + q
      BY <1>1, <2>1, <2>2
    <2>4. r = 0 => m + 1 <= q
      BY <1>1, <2>1
    <2>5. Place(i) = i + m
      BY DEF Place, m
    <2>6. i + m \in 1 .. n
      BY <1>1, <2>1, <2>2
    <2>7. i < k \/ r = 0 => i + m + 1 \in 1 .. n
      BY <1>1, <2>1, <2>3, <2>4
    <2> QED
      BY <2>5, <2>6, <2>7
  <1>3. Place(k + 1) = n + 1
    BY <1>1 DEF Place, q
  <1>4. r # 0 => Place(k) + 1 = n + 1
    <2>1. r # 0 => (k - 1) \div 3 = q
      BY <1>1
    <2> QED
      BY <1>1, <2>1 DEF Place
  <1>5. /\ r = 0 => n % 4 = 0 /\ (6 * n) \div 8 = k
        /\ r = 1 => n % 4 = 1 /\ (6 * (n + 1)) \div 8 = k
        /\ r = 2 => n % 4 = 2 /\ (6 * (n + 1)) \div 8 = k
    <2>1. r = 0 => n = 4 * q /\ 6 * n = 8 * (3 * q) /\ k = 3 * q
      BY <1>1
    <2>2. r = 1 => n = 4 * q + 1 /\ 6 * (n + 1) = 8 * (3 * q + 1) + 4 /\ k = 3 * q + 1
      BY <1>1
    <2>3. r = 2 => n = 4 * q + 2 /\ 6 * (n + 1) = 8 * (3 * q + 2) + 2 /\ k = 3 * q + 2
      BY <1>1
    <2> QED
      BY <1>1, <2>1, <2>2, <2>3
  <1>6. (k + 1) + (k + 1) \div 3 = IF r = 2 THEN n + 2 ELSE n + 1
    <2>1. (k + 1) \div 3 = IF r = 2 THEN q + 1 ELSE q
      BY <1>1
    <2> QED
      BY <1>1, <2>1
  <1> QED
    BY <1>2, <1>3, <1>4, <1>5, <1>6 DEF q, r

\* A byte is where it was in what continues the digits.
LEMMA StillThere ==
  ASSUME NEW o, NEW u, Len(o) \in Nat, Continues(o, u), NEW i \in Nat, NEW c
  PROVE  /\ Place(i) \in 1 .. Len(o) /\ ByteBegins(o, i, c) => ByteBegins(u, i, c)
         /\ Place(i) + 1 \in 1 .. Len(o) /\ ByteEnds(o, i, c) => ByteEnds(u, i, c)
  <1>1. Place(i) \in 1 .. Len(o) => u[Place(i)] = o[Place(i)]
    BY DEF Continues
  <1>2. Place(i) + 1 \in 1 .. Len(o) => u[Place(i) + 1] = o[Place(i) + 1]
    BY DEF Continues
  <1>3. ASSUME Place(i) \in 1 .. Len(o), ByteBegins(o, i, c)
        PROVE  ByteBegins(u, i, c)
    BY <1>1, <1>3, Zenon DEF ByteBegins
  <1>4. ASSUME Place(i) + 1 \in 1 .. Len(o), ByteEnds(o, i, c)
        PROVE  ByteEnds(u, i, c)
    BY <1>2, <1>4, Zenon DEF ByteEnds
  <1> QED
    BY <1>3, <1>4

\* One more digit.
LEMMA DigitAdded ==
  ASSUME NEW o, AreDigits(o), NEW d \in Nat, d < 64
  PROVE  LET u == Append(o, d)
         IN  /\ AreDigits(u) /\ Len(o) \in Nat /\ Len(u) = Len(o) + 1
             /\ Continues(o, u) /\ u[Len(o) + 1] = d
  <1> DEFINE u == Append(o, d)
  <1>1. o \in Seq(Nat) /\ \A i \in 1 .. Len(o) : o[i] < 64
    BY DEF AreDigits
  <1>2. /\ u \in Seq(Nat) /\ Len(u) = Len(o) + 1 /\ u[Len(o) + 1] = d
        /\ \A i \in 1 .. Len(o) : u[i] = o[i]
        /\ Len(o) \in Nat
    BY <1>1, AppendProperties, LenProperties
  <1> HIDE DEF u
  <1>3. \A i \in 1 .. Len(u) : i \in 1 .. Len(o) \/ i = Len(o) + 1
    BY <1>2
  <1>4. \A i \in 1 .. Len(u) : u[i] < 64
    BY <1>1, <1>2, <1>3, Zenon
  <1> QED
    BY <1>2, <1>4 DEF AreDigits, Continues, u

\* What the loop has when it has read s: the state of its bits, and digits in
\* which all bytes begin and all end that need no more digits.
LoopInv(s, a) ==
  LET k == Len(s)
  IN  /\ k % 3 = 0 => a.valb = -6
      /\ k % 3 = 1 => a.valb = -4
      /\ k % 3 = 2 => a.valb = -2
      /\ AreDigits(a.out) /\ Len(a.out) = k + k \div 3
      /\ k > 0 => a.val % 256 = s[k]
      /\ \A i \in 1 .. k : ByteBegins(a.out, i, s[i])
      /\ \A i \in 1 .. k : i < k \/ k % 3 = 0 => ByteEnds(a.out, i, s[i])

\* The loop keeps that.
LEMMA LoopStep ==
  ASSUME NEW s \in Seq(Bytes), NEW c \in Bytes, NEW a \in Loops, LoopInv(s, a)
  PROVE  LoopInv(Append(s, c), AddByte(a, c))
  <1> DEFINE t == Append(s, c)
             k == Len(s)
             n == k + k \div 3
             v == a.val
             w == a.valb
             o == a.out
             b == Bits(v, c)
             p == s[k]
  <1>1. /\ k \in Nat /\ Len(t) = k + 1 /\ t[k + 1] = c
        /\ \A i \in 1 .. k : t[i] = s[i]
    BY AppendProperties, LenProperties
  <1>2. /\ v \in Nat /\ w \in {-6, -4, -2} /\ o \in Seq(Nat) /\ a = Loop(v, w, o)
    BY DEF Loops, Loop
  <1>3. /\ k % 3 = 0 => w = -6
        /\ k % 3 = 1 => w = -4
        /\ k % 3 = 2 => w = -2
        /\ AreDigits(o) /\ Len(o) = n
        /\ k > 0 => v % 256 = p
        /\ \A i \in 1 .. k : ByteBegins(o, i, s[i])
        /\ \A i \in 1 .. k : i < k \/ k % 3 = 0 => ByteEnds(o, i, s[i])
    BY Zenon DEF LoopInv
  <1>4. c \in Nat /\ c < 256
    BY DEF Bytes
  <1>5. k > 0 => p \in Nat
    <2>1. k > 0 => k \in 1 .. k
      BY <1>1
    <2>2. k > 0 => p \in Bytes
      BY <2>1, ElementOfSeq
    <2>3. \A z \in Bytes : z \in Nat
      BY DEF Bytes
    <2> QED
      BY <2>2, <2>3, Zenon
  <1>6. /\ b \in Nat /\ b % 256 = c
        /\ (b \div 4) % 64 = c \div 4
        /\ (b \div 16) % 64 = (v % 4) * 16 + c \div 16
        /\ (b \div 64) % 64 = (v % 16) * 4 + c \div 64
        /\ b % 64 = c % 64
    <2>1. v \in Nat
      BY <1>2
    <2> HIDE DEF v
    <2>2. HasBits(Bits(v, c), v, c)
      BY <1>4, <2>1, BitsAre
    <2> HIDE DEF b
    <2>3. HasBits(b, v, c)
      BY <2>2 DEF b
    <2> QED
      BY <2>3 DEF HasBits
  <1>7. /\ w = -6 => AddByte(a, c) = Loop(b, -4, Append(o, (b \div 4) % 64))
        /\ w = -4 => AddByte(a, c) = Loop(b, -2, Append(o, (b \div 16) % 64))
        /\ w = -2 => AddByte(a, c)
                       = Loop(b, -6, Append(Append(o, (b \div 64) % 64), b % 64))
    <2> HIDE DEF v, w, o
    <2>1. AddByte(a, c) = AddByte(Loop(v, w, o), c)
      BY <1>2, Zenon
    <2> QED
      BY <1>2, <2>1, AddByteIs DEF b
  <1>8. /\ \A i \in 1 .. k : /\ Place(i) \in 1 .. n
                             /\ i < k \/ k % 3 = 0 => Place(i) + 1 \in 1 .. n
        /\ Place(k + 1) = n + 1
        /\ k % 3 # 0 => Place(k) + 1 = n + 1
        /\ (k + 1) + (k + 1) \div 3 = IF k % 3 = 2 THEN n + 2 ELSE n + 1
        /\ n \in Nat
    <2>1. n \in Nat
      BY <1>1
    <2> QED
      BY <1>1, <2>1, PlacesAre, Zenon
  <1> HIDE DEF t, k, n, v, w, o, b, p
  <1>9. ASSUME NEW u, Continues(o, u)
        PROVE  /\ \A i \in 1 .. k : ByteBegins(u, i, t[i])
               /\ \A i \in 1 .. k : i < k \/ k % 3 = 0 => ByteEnds(u, i, t[i])
    <2>1. ASSUME NEW i \in 1 .. k
          PROVE  ByteBegins(u, i, t[i]) /\ (i < k \/ k % 3 = 0 => ByteEnds(u, i, t[i]))
      <3> DEFINE x == t[i]
      <3>1. i \in Nat /\ Len(o) \in Nat
        BY <1>1, <1>3, <1>8
      <3>2. ByteBegins(o, i, x) /\ (i < k \/ k % 3 = 0 => ByteEnds(o, i, x))
        BY <1>1, <1>3, Zenon
      <3>3. Place(i) \in 1 .. Len(o) /\ (i < k \/ k % 3 = 0 => Place(i) + 1 \in 1 .. Len(o))
        BY <1>3, <1>8, Zenon
      <3> HIDE DEF x
      <3>4. /\ Place(i) \in 1 .. Len(o) /\ ByteBegins(o, i, x) => ByteBegins(u, i, x)
            /\ Place(i) + 1 \in 1 .. Len(o) /\ ByteEnds(o, i, x) => ByteEnds(u, i, x)
        BY <1>9, <3>1, StillThere
      <3> QED
        BY <3>2, <3>3, <3>4, Zenon DEF x
    <2> QED
      BY <2>1
  <1>10. ASSUME NEW u, AreDigits(u), Continues(o, u),
                Len(u) = (k + 1) + (k + 1) \div 3,
                k % 3 # 0 => ByteEnds(u, k, p),
                ByteBegins(u, k + 1, c), k % 3 = 2 => ByteEnds(u, k + 1, c),
                NEW x, k % 3 = 0 => x = -4, k % 3 = 1 => x = -2, k % 3 = 2 => x = -6
         PROVE  LoopInv(t, Loop(b, x, u))
    <2> DEFINE l == Loop(b, x, u)
    <2>1. l.val = b /\ l.valb = x /\ l.out = u
      BY LoopFields
    <2> HIDE DEF l
    <2>2. /\ (k + 1) % 3 = 0 <=> k % 3 = 2
          /\ (k + 1) % 3 = 1 <=> k % 3 = 0
          /\ (k + 1) % 3 = 2 <=> k % 3 = 1
          /\ k + 1 > 0
      BY <1>1
    <2>3. \A i \in 1 .. k + 1 : i \in 1 .. k \/ i = k + 1
      BY <1>1
    <2>4. \A i \in 1 .. k + 1 : ByteBegins(u, i, t[i])
      BY <1>1, <1>9, <1>10, <2>3, Zenon
    <2>5. ASSUME NEW i \in 1 .. k + 1, i < k + 1 \/ (k + 1) % 3 = 0
          PROVE  ByteEnds(u, i, t[i])
      <3>1. CASE i = k + 1
        <4>1. k % 3 = 2
          BY <1>1, <2>2, <2>5, <3>1
        <4> QED
          BY <1>1, <1>10, <3>1, <4>1, Zenon
      <3>2. CASE i = k /\ k % 3 # 0
        <4>1. t[i] = p /\ i = k
          BY <1>1, <2>5, <3>2 DEF p
        <4> QED
          BY <1>10, <3>2, <4>1, Zenon
      <3>3. CASE i # k + 1 /\ ~(i = k /\ k % 3 # 0)
        <4>1. i \in 1 .. k /\ (i < k \/ k % 3 = 0)
          BY <1>1, <3>3
        <4> QED
          BY <1>9, <1>10, <4>1, Zenon
      <3> QED
        BY <3>1, <3>2, <3>3, Zenon
    <2>6. /\ (k + 1) % 3 = 0 => l.valb = -6
          /\ (k + 1) % 3 = 1 => l.valb = -4
          /\ (k + 1) % 3 = 2 => l.valb = -2
      BY <1>10, <2>1, <2>2, Zenon
    <2>7. /\ AreDigits(l.out) /\ Len(l.out) = (k + 1) + (k + 1) \div 3
          /\ l.val % 256 = t[k + 1]
          /\ \A i \in 1 .. k + 1 : ByteBegins(l.out, i, t[i])
          /\ \A i \in 1 .. k + 1 :
               i < k + 1 \/ (k + 1) % 3 = 0 => ByteEnds(l.out, i, t[i])
      <3>1. l.val % 256 = t[k + 1]
        BY <1>1, <1>6, <2>1
      <3> QED
        BY <1>10, <2>1, <2>4, <2>5, <3>1, Zenon
    <2>8. LoopInv(t, l)
      BY <1>1, <2>6, <2>7, Zenon DEF LoopInv
    <2> QED
      BY <2>8 DEF l
  <1>11. k % 3 = 0 \/ k % 3 = 1 \/ k % 3 = 2
    BY <1>1
  <1>12. CASE k % 3 = 0
    <2> DEFINE d == (b \div 4) % 64
               u == Append(o, d)
    <2>1. d = c \div 4 /\ d \in Nat /\ d < 64
      BY <1>4, <1>6
    <2> HIDE DEF d
    <2>2. AreDigits(u) /\ Len(u) = Len(o) + 1 /\ Continues(o, u) /\ u[Len(o) + 1] = d
      BY <1>3, <2>1, DigitAdded, Zenon
    <2>3. AddByte(a, c) = Loop(b, -4, u)
      BY <1>3, <1>7, <1>12, Zenon DEF d
    <2> HIDE DEF u
    <2>4. ByteBegins(u, k + 1, c)
      <3>1. (k + 1) % 3 = 1
        BY <1>1, <1>12
      <3>2. u[Place(k + 1)] = c \div 4
        BY <1>3, <1>8, <2>1, <2>2
      <3> QED
        BY <3>1, <3>2 DEF ByteBegins
    <2>5. Len(u) = (k + 1) + (k + 1) \div 3
      BY <1>3, <1>8, <1>12, <2>2
    <2>6. k % 3 # 2 /\ k % 3 # 1
      BY <1>12
    <2> QED
      BY <1>10, <1>12, <2>2, <2>3, <2>4, <2>5, <2>6, Zenon DEF t
  <1>13. CASE k % 3 = 1
    <2> DEFINE d == (b \div 16) % 64
               u == Append(o, d)
    <2>1. v % 256 = p /\ p \in Nat
      <3>1. k > 0
        BY <1>1, <1>13
      <3> QED
        BY <1>3, <1>5, <3>1
    <2>2. d \in Nat /\ d < 64 /\ d \div 16 = p % 4 /\ d % 16 = c \div 16
      BY <1>2, <1>4, <1>6, <2>1, SharedDigits
    <2> HIDE DEF d
    <2>3. AreDigits(u) /\ Len(u) = Len(o) + 1 /\ Continues(o, u) /\ u[Len(o) + 1] = d
      BY <1>3, <2>2, DigitAdded, Zenon
    <2>4. AddByte(a, c) = Loop(b, -2, u)
      BY <1>3, <1>7, <1>13, Zenon DEF d
    <2> HIDE DEF u
    <2>5. ByteBegins(u, k + 1, c)
      <3>1. (k + 1) % 3 = 2
        BY <1>1, <1>13
      <3>2. u[Place(k + 1)] % 16 = c \div 16
        BY <1>3, <1>8, <2>2, <2>3, Zenon
      <3> QED
        BY <3>1, <3>2 DEF ByteBegins
    <2>6. ByteEnds(u, k, p)
      <3>1. u[Place(k) + 1] \div 16 = p % 4
        BY <1>3, <1>8, <1>13, <2>2, <2>3
      <3> QED
        BY <1>13, <3>1 DEF ByteEnds
    <2>7. Len(u) = (k + 1) + (k + 1) \div 3
      BY <1>3, <1>8, <1>13, <2>3
    <2>8. k % 3 # 2 /\ k % 3 # 0
      BY <1>13
    <2> QED
      BY <1>10, <1>13, <2>3, <2>4, <2>5, <2>6, <2>7, <2>8, Zenon DEF t
  <1>14. CASE k % 3 = 2
    <2> DEFINE d == (b \div 64) % 64
               e == b % 64
               m == Append(o, d)
               u == Append(m, e)
    <2>1. v % 256 = p /\ p \in Nat
      <3>1. k > 0
        BY <1>1, <1>14
      <3> QED
        BY <1>3, <1>5, <3>1
    <2>2. /\ d \in Nat /\ d < 64 /\ d \div 4 = p % 16 /\ d % 4 = c \div 64
          /\ e \in Nat /\ e < 64 /\ e = c % 64
      <3>1. d \in Nat /\ d < 64 /\ d \div 4 = p % 16 /\ d % 4 = c \div 64
        <4>1. v \in Nat
          BY <1>2
        <4>2. LET x == (v % 16) * 4 + c \div 64
              IN  x \in Nat /\ x < 64 /\ x \div 4 = p % 16 /\ x % 4 = c \div 64
          BY <1>4, <2>1, <4>1, SharedDigits
        <4>3. d = (v % 16) * 4 + c \div 64
          BY <1>6 DEF d
        <4> QED
          BY <4>2, <4>3
      <3>2. e \in Nat /\ e < 64
        BY <1>6
      <3> QED
        BY <1>6, <3>1, <3>2
    <2> HIDE DEF d, e
    <2>3. AreDigits(m) /\ Len(m) = Len(o) + 1 /\ Continues(o, m) /\ m[Len(o) + 1] = d
      BY <1>3, <2>2, DigitAdded, Zenon
    <2>4. AddByte(a, c) = Loop(b, -6, u)
      BY <1>3, <1>7, <1>14, Zenon DEF d, e
    <2> HIDE DEF m
    <2>5. AreDigits(u) /\ Len(u) = Len(m) + 1 /\ Continues(m, u) /\ u[Len(m) + 1] = e
      <3>1. e \in Nat /\ e < 64
        BY <2>2
      <3> QED
        BY <2>3, <3>1, DigitAdded, Zenon
    <2> HIDE DEF u
    <2>6. Continues(o, u) /\ u[n + 1] = d /\ u[n + 2] = e /\ Len(u) = n + 2
      BY <1>3, <1>8, <2>3, <2>5 DEF Continues
    <2>7. ByteBegins(u, k + 1, c) /\ ByteEnds(u, k + 1, c)
      <3>1. (k + 1) % 3 = 0
        BY <1>1, <1>14
      <3>2. u[Place(k + 1)] % 4 = c \div 64 /\ u[Place(k + 1) + 1] = c % 64
        BY <1>8, <2>2, <2>6
      <3> QED
        BY <3>1, <3>2 DEF ByteBegins, ByteEnds
    <2>8. ByteEnds(u, k, p)
      <3>1. u[Place(k) + 1] \div 4 = p % 16
        BY <1>8, <1>14, <2>2, <2>6
      <3> QED
        BY <1>14, <3>1 DEF ByteEnds
    <2>9. Len(u) = (k + 1) + (k + 1) \div 3
      BY <1>8, <1>14, <2>6
    <2>10. k % 3 # 1 /\ k % 3 # 0
      BY <1>14
    <2> QED
      BY <1>10, <1>14, <2>4, <2>5, <2>6, <2>7, <2>8, <2>9, <2>10, Zenon DEF t
  <1> QED
    BY <1>11, <1>12, <1>13, <1>14, Zenon DEF t

\* It holds of what the loop makes.
LEMMA LoopHas ==
  ASSUME NEW s \in Seq(Bytes)
  PROVE  LoopInv(s, Looped(s)) /\ Looped(s) \in Loops
  <1> DEFINE B == Bytes
             T == {x \in Seq(B) : LoopInv(x, Looped(x))}
             o == <<>>
  <1>1. /\ Looped(o) = Loop(0, -6, o)
        /\ \A x \in Seq(B) : Looped(x) \in Loops
        /\ \A x \in Seq(B), e \in B : Looped(Append(x, e)) = AddByte(Looped(x), e)
    BY LoopedIs
  <1>2. o \in Seq(B) /\ o \in Seq(Nat) /\ Len(o) = 0
    BY EmptySeq
  <1> HIDE DEF o
  <1>3. LoopInv(o, Looped(o))
    <2> DEFINE l == Looped(o)
    <2>1. l.val = 0 /\ l.valb = -6 /\ l.out = o
      BY <1>1, LoopFields
    <2> HIDE DEF l
    <2>2. AreDigits(o)
      BY <1>2 DEF AreDigits
    <2>3. /\ Len(o) % 3 = 0 /\ Len(o) % 3 # 1 /\ Len(o) % 3 # 2 /\ ~(Len(o) > 0)
          /\ Len(o) = Len(o) + Len(o) \div 3
          /\ \A i \in 1 .. Len(o) : FALSE
      BY <1>2
    <2>4. LoopInv(o, l)
      BY <2>1, <2>2, <2>3, Zenon DEF LoopInv
    <2> QED
      BY <2>4 DEF l
  <1>4. o \in T
    BY <1>2, <1>3
  <1>5. ASSUME NEW x \in Seq(B), NEW e \in B, x \in T
        PROVE  Append(x, e) \in T
    <2>1. LoopInv(x, Looped(x)) /\ Looped(x) \in Loops
      BY <1>1, <1>5
    <2>2. LoopInv(Append(x, e), AddByte(Looped(x), e))
      BY <2>1, LoopStep DEF B
    <2>3. Append(x, e) \in Seq(B)
      BY AppendProperties
    <2> QED
      BY <1>1, <2>2, <2>3
  <1>6. Seq(B) \subseteq T
    <2> HIDE DEF B, T
    <2> QED
      BY <1>4, <1>5, SeqSetInduction DEF o
  <1> QED
    BY <1>1, <1>6

\* The digits behind the loop, and what fills the last group.
DigitsOf(a) ==
  IF a.valb > -6 THEN Append(a.out, Shifted(a.val * 256, a.valb + 8) % 64) ELSE a.out
Filling(n) == [i \in 1..((4 - (n % 4)) % 4) |-> 64]

\* The digits of a text: all its bytes begin and end in them.
DigitsFor(s, o) ==
  /\ AreDigits(o)
  /\ (6 * Len(o)) \div 8 = Len(s)
  /\ \A i \in 1 .. Len(s) : /\ Place(i) \in 1 .. Len(o) /\ Place(i) + 1 \in 1 .. Len(o)
                            /\ ByteBegins(o, i, s[i]) /\ ByteEnds(o, i, s[i])

\* One more digit ends the last byte.
LEMMA LastDigit ==
  ASSUME NEW s \in Seq(Bytes), NEW a \in Loops, LoopInv(s, a)
  PROVE  DigitsFor(s, DigitsOf(a))
  <1> DEFINE k == Len(s)
             n == k + k \div 3
             v == a.val
             w == a.valb
             o == a.out
             p == s[k]
  <1>1. k \in Nat
    BY LenProperties
  <1>2. v \in Nat /\ w \in {-6, -4, -2} /\ o \in Seq(Nat)
    BY DEF Loops
  <1>3. /\ k % 3 = 0 => w = -6
        /\ k % 3 = 1 => w = -4
        /\ k % 3 = 2 => w = -2
        /\ AreDigits(o) /\ Len(o) = n
        /\ k > 0 => v % 256 = p
        /\ \A i \in 1 .. k : ByteBegins(o, i, s[i])
        /\ \A i \in 1 .. k : i < k \/ k % 3 = 0 => ByteEnds(o, i, s[i])
    BY Zenon DEF LoopInv
  <1>4. k > 0 => p \in Nat
    <2>1. k > 0 => k \in 1 .. k
      BY <1>1
    <2>2. k > 0 => p \in Bytes
      BY <2>1, ElementOfSeq
    <2>3. \A z \in Bytes : z \in Nat
      BY DEF Bytes
    <2> QED
      BY <2>2, <2>3, Zenon
  <1>5. /\ \A i \in 1 .. k : /\ Place(i) \in 1 .. n
                             /\ i < k \/ k % 3 = 0 => Place(i) + 1 \in 1 .. n
        /\ k % 3 # 0 => Place(k) + 1 = n + 1
        /\ k % 3 = 0 => (6 * n) \div 8 = k
        /\ k % 3 = 1 => (6 * (n + 1)) \div 8 = k
        /\ k % 3 = 2 => (6 * (n + 1)) \div 8 = k
        /\ n \in Nat
    <2>1. n \in Nat
      BY <1>1
    <2> QED
      BY <1>1, <2>1, PlacesAre, Zenon
  <1>6. DigitsOf(a) = IF w > -6 THEN Append(o, Shifted(v * 256, w + 8) % 64) ELSE o
    BY Zenon DEF DigitsOf
  <1> HIDE DEF k, n, v, w, o, p
  <1>7. CASE k % 3 = 0
    <2>1. DigitsOf(a) = o
      <3>1. ~(w > -6)
        BY <1>3, <1>7
      <3> QED
        BY <1>6, <3>1, Zenon
    <2>2. (6 * Len(o)) \div 8 = k
      BY <1>3, <1>5, <1>7
    <2>3. \A i \in 1 .. k : /\ Place(i) \in 1 .. Len(o) /\ Place(i) + 1 \in 1 .. Len(o)
                            /\ ByteBegins(o, i, s[i]) /\ ByteEnds(o, i, s[i])
      BY <1>3, <1>5, <1>7, Zenon
    <2>4. DigitsFor(s, o)
      BY <1>3, <2>2, <2>3, Zenon DEF DigitsFor, k
    <2> QED
      BY <2>1, <2>4, Zenon
  <1>8. ASSUME k % 3 # 0, NEW d \in Nat, d < 64, DigitsOf(a) = Append(o, d),
               k % 3 = 1 => d \div 16 = p % 4, k % 3 = 2 => d \div 4 = p % 16
        PROVE  DigitsFor(s, DigitsOf(a))
    <2> DEFINE u == Append(o, d)
    <2>1. AreDigits(u) /\ Len(u) = n + 1 /\ Continues(o, u) /\ u[n + 1] = d
      BY <1>3, <1>8, DigitAdded, ZenonT(30)
    <2>8. u = DigitsOf(a)
      BY <1>8
    <2> HIDE DEF u
    <2>2. (6 * Len(u)) \div 8 = k
      <3>1. k % 3 = 1 \/ k % 3 = 2
        BY <1>1, <1>8
      <3> QED
        BY <1>5, <2>1, <3>1
    <2>3. ByteEnds(u, k, p)
      <3>1. u[Place(k) + 1] = d
        BY <1>5, <1>8, <2>1
      <3> QED
        BY <1>8, <3>1, Zenon DEF ByteEnds
    <2>4. ASSUME NEW i \in 1 .. k
          PROVE  /\ Place(i) \in 1 .. Len(u) /\ Place(i) + 1 \in 1 .. Len(u)
                 /\ ByteBegins(u, i, s[i]) /\ ByteEnds(u, i, s[i])
      <3> DEFINE x == s[i]
      <3>1. i \in Nat /\ Len(o) \in Nat
        BY <1>1, <1>3, <1>5
      <3>2. ByteBegins(o, i, x) /\ (i < k => ByteEnds(o, i, x))
        BY <1>3, Zenon
      <3>3. Place(i) \in 1 .. Len(o) /\ (i < k => Place(i) + 1 \in 1 .. Len(o))
        BY <1>3, <1>5, Zenon
      <3>4. i = k => x = p
        BY Zenon DEF p
      <3> HIDE DEF x
      <3>5. /\ Place(i) \in 1 .. Len(o) /\ ByteBegins(o, i, x) => ByteBegins(u, i, x)
            /\ Place(i) + 1 \in 1 .. Len(o) /\ ByteEnds(o, i, x) => ByteEnds(u, i, x)
        BY <2>1, <3>1, StillThere
      <3>6. Place(i) \in 1 .. Len(u) /\ Place(i) + 1 \in 1 .. Len(u)
        BY <1>3, <1>5, <2>1, <3>3
      <3>7. i = k \/ i < k
        BY <1>1
      <3> QED
        BY <2>3, <3>2, <3>3, <3>4, <3>5, <3>6, <3>7, Zenon DEF x
    <2>5. DigitsFor(s, u)
      BY <2>1, <2>2, <2>4, Zenon DEF DigitsFor, k
    <2> QED
      BY <2>5, <2>8, Zenon
  <1>9. CASE k % 3 = 1
    <2>1. w = -4 /\ w + 8 = 4 /\ w > -6 /\ k > 0
      BY <1>1, <1>3, <1>9
    <2> DEFINE d == Shifted(v * 256, 4) % 64
    <2>2. DigitsOf(a) = Append(o, d)
      BY <1>6, <2>1
    <2>3. d = ((v * 256) \div 16) % 64
      BY DEF Shifted
    <2>4. v % 256 = p /\ p \in Nat
      BY <1>3, <1>4, <2>1
    <2> HIDE DEF d
    <2>5. d = (v % 4) * 16
      <3>1. (v * 256) \div 16 = v * 16
        BY <1>2
      <3>2. (v * 16) % 64 = (v % 4) * 16
        BY <1>2
      <3> QED
        BY <2>3, <3>1, <3>2
    <2>6. v % 4 = p % 4
      BY <1>2, <2>4
    <2>7. d \in Nat /\ d < 64 /\ d \div 16 = p % 4
      BY <2>4, <2>5, <2>6
    <2>8. k % 3 # 0 /\ k % 3 # 2
      BY <1>9
    <2> QED
      BY <1>8, <2>2, <2>7, <2>8, Zenon
  <1>10. CASE k % 3 = 2
    <2>1. w = -2 /\ w + 8 = 6 /\ w > -6 /\ k > 0
      BY <1>1, <1>3, <1>10
    <2> DEFINE d == Shifted(v * 256, 6) % 64
    <2>2. DigitsOf(a) = Append(o, d)
      BY <1>6, <2>1
    <2>3. d = ((v * 256) \div 64) % 64
      BY DEF Shifted
    <2>4. v % 256 = p /\ p \in Nat
      BY <1>3, <1>4, <2>1
    <2> HIDE DEF d
    <2>5. d = (v % 16) * 4
      <3>1. (v * 256) \div 64 = v * 4
        BY <1>2
      <3>2. (v * 4) % 64 = (v % 16) * 4
        BY <1>2
      <3> QED
        BY <2>3, <3>1, <3>2
    <2>6. v % 16 = p % 16
      BY <1>2, <2>4
    <2>7. d \in Nat /\ d < 64 /\ d \div 4 = p % 16
      BY <2>4, <2>5, <2>6
    <2>8. k % 3 # 0 /\ k % 3 # 1
      BY <1>10
    <2> QED
      BY <1>8, <2>2, <2>7, <2>8, Zenon
  <1>11. k % 3 = 0 \/ k % 3 = 1 \/ k % 3 = 2
    BY <1>1
  <1> QED
    BY <1>7, <1>9, <1>10, <1>11, Zenon

\* The digits are filled up to whole groups, with what is no digit.
LEMMA FilledUp ==
  ASSUME NEW o, AreDigits(o)
  PROVE  LET d == o \o Filling(Len(o))
         IN  /\ Len(d) % 4 = 0 /\ Continues(o, d) /\ Len(Divide(d, 64)[1]) = Len(o)
  <1> DEFINE N == Nat
             n == Len(o)
             m == (4 - (n % 4)) % 4
             f == Filling(n)
             d == o \o f
  <1>1. o \in Seq(N) /\ n \in Nat /\ \A i \in 1 .. n : o[i] # 64
    BY LenProperties DEF AreDigits
  <1>2. f \in Seq(N) /\ Len(f) = m /\ m \in Nat /\ \A i \in 1 .. m : f[i] = 64
    <2>1. m \in Nat
      BY <1>1
    <2>2. f = [i \in 1 .. m |-> 64]
      BY DEF Filling
    <2> HIDE DEF f, m
    <2>3. f \in [1 .. m -> N]
      BY <2>2
    <2>4. f \in Seq(N) /\ Len(f) = m
      BY <2>1, <2>3
    <2> QED
      BY <2>1, <2>2, <2>4
  <1>3. (n + m) % 4 = 0
    BY <1>1
  <1> HIDE DEF N, n, m, f
  <1>4. /\ d \in Seq(N) /\ Len(d) = n + m
        /\ \A i \in 1 .. n + m : d[i] = IF i <= n THEN o[i] ELSE f[i - n]
    <2>1. o \in Seq(N) /\ f \in Seq(N)
      BY <1>1, <1>2
    <2>2. /\ d \in Seq(N) /\ Len(d) = Len(o) + Len(f)
          /\ \A i \in 1 .. Len(o) + Len(f) :
               d[i] = IF i <= Len(o) THEN o[i] ELSE f[i - Len(o)]
      BY <2>1, ConcatProperties
    <2> QED
      BY <1>2, <2>2, Zenon DEF n
  <1>5. (\A i \in 1 .. n : d[i] = o[i]) /\ (m > 0 => d[n + 1] = 64)
    <2> HIDE DEF d
    <2>1. ASSUME NEW i \in 1 .. n PROVE d[i] = o[i]
      BY <1>1, <1>2, <1>4
    <2>2. ASSUME m > 0 PROVE d[n + 1] = 64
      <3>1. n + 1 \in 1 .. n + m /\ ~(n + 1 <= n) /\ (n + 1) - n = 1 /\ 1 \in 1 .. m
        BY <1>1, <1>2, <2>2
      <3> QED
        BY <1>2, <1>4, <3>1
    <2> QED
      BY <2>1, <2>2
  <1>6. Len(Divide(d, 64)[1]) = n
    <2> HIDE DEF d
    <2>1. CASE m = 0
      <3>1. \A i \in 1 .. Len(d) : d[i] # 64
        BY <1>1, <1>4, <1>5, <2>1
      <3>2. Find(d, 64) = 0
        BY <1>4, <3>1, FindIs
      <3>3. Divide(d, 64)[1] = d
        BY <3>2 DEF Divide
      <3>4. Len(d) = n
        BY <1>1, <1>4, <2>1
      <3> QED
        BY <3>3, <3>4
    <2>2. CASE m > 0
      <3>1. n + 1 \in 1 .. Len(d) /\ d[n + 1] = 64 /\ \A i \in 1 .. (n + 1) - 1 : d[i] # 64
        BY <1>1, <1>2, <1>4, <1>5, <2>2
      <3>2. Find(d, 64) = n + 1
        BY <1>4, <3>1, FindIs
      <3>3. n + 1 # 0 /\ (n + 1) - 1 = n
        BY <1>1
      <3> DEFINE q == SubSeq(d, 1, n)
                 z == SubSeq(d, n + 2, Len(d))
      <3>4. Divide(d, 64) = <<q, z>>
        <4>1. Divide(d, 64) = <<SubSeq(d, 1, (n + 1) - 1), SubSeq(d, (n + 1) + 1, Len(d))>>
          BY <3>2, <3>3, Zenon DEF Divide
        <4>2. (n + 1) + 1 = n + 2
          BY <1>1
        <4> QED
          BY <3>3, <4>1, <4>2, Zenon
      <3>5. Len(q) = n
        <4>1. 1 \in 1 .. Len(d) + 1 /\ n \in 1 - 1 .. Len(d)
          BY <1>1, <1>2, <1>4
        <4>2. Len(q) = n - 1 + 1
          BY <1>4, <4>1, PieceOf
        <4> QED
          BY <1>1, <4>2
      <3> HIDE DEF q, z
      <3> QED
        BY <3>4, <3>5
    <2> QED
      BY <1>2, <2>1, <2>2
  <1> QED
    BY <1>3, <1>4, <1>5, <1>6 DEF Continues, n, f

\* Credentials decode to what was encoded.
LEMMA CredentialsStay ==
  ASSUME NEW s \in Seq(Bytes)
  PROVE  Len(base64_encode(s)) % 4 = 0 /\ FromBase64(base64_encode(s)) = s
  <1> DEFINE k == Len(s)
             a == Looped(s)
             o == DigitsOf(a)
             d == o \o Filling(Len(o))
  <1>1. base64_encode(s) = d
    BY Zenon DEF base64_encode, Looped, DigitsOf, Filling
  <1>2. DigitsFor(s, o)
    BY LoopHas, LastDigit
  <1> HIDE DEF a, o
  <1>3. AreDigits(o)
    BY <1>2, Zenon DEF DigitsFor
  <1>4. Len(d) % 4 = 0 /\ Continues(o, d) /\ Len(Divide(d, 64)[1]) = Len(o)
    BY <1>3, FilledUp
  <1> HIDE DEF d
  <1>5. ASSUME NEW i \in 1 .. k
        PROVE  ByteFrom(d, i) = s[i]
    <2> DEFINE c == s[i]
               j == Place(i)
               x == d[j]
               y == d[j + 1]
    <2>1. c \in Bytes
      BY ElementOfSeq
    <2>2. c \in Nat /\ c < 256
      <3>1. \A z \in Bytes : z \in Nat /\ z < 256
        BY DEF Bytes
      <3> HIDE DEF c
      <3> QED
        BY <2>1, <3>1
    <2>3. /\ j \in 1 .. Len(o) /\ j + 1 \in 1 .. Len(o)
          /\ ByteBegins(o, i, c) /\ ByteEnds(o, i, c)
      BY <1>2, Zenon DEF DigitsFor
    <2>4. /\ i \in Nat /\ Len(o) \in Nat
      BY <1>3, LenProperties DEF AreDigits
    <2> HIDE DEF c
    <2>5. ByteBegins(d, i, c) /\ ByteEnds(d, i, c)
      BY <1>4, <2>3, <2>4, StillThere
    <2>6. /\ i % 3 = 1 => x = c \div 4 /\ y \div 16 = c % 4
          /\ i % 3 = 2 => x % 16 = c \div 16 /\ y \div 4 = c % 16
          /\ i % 3 = 0 => x % 4 = c \div 64 /\ y = c % 64
      BY <2>5, Zenon DEF ByteBegins, ByteEnds
    <2>7. i % 3 = 0 \/ i % 3 = 1 \/ i % 3 = 2
      BY <2>4
    <2>8. j = i + (i - 1) \div 3
      BY DEF Place
    <2>9. ByteFrom(d, i) = CASE i % 3 = 1 -> x * 4 + y \div 16
                             [] i % 3 = 2 -> (x % 16) * 16 + y \div 4
                             [] i % 3 = 0 -> (x % 4) * 64 + y
      BY <2>8, Zenon DEF ByteFrom
    <2> HIDE DEF x, y, j
    <2>10. CASE i % 3 = 1
      <3>1. ByteFrom(d, i) = x * 4 + y \div 16
        BY <2>9, <2>10
      <3> QED
        BY <2>2, <2>6, <2>10, <3>1 DEF c
    <2>11. CASE i % 3 = 2
      <3>1. ByteFrom(d, i) = (x % 16) * 16 + y \div 4
        BY <2>9, <2>11
      <3> QED
        BY <2>2, <2>6, <2>11, <3>1 DEF c
    <2>12. CASE i % 3 = 0
      <3>1. ByteFrom(d, i) = (x % 4) * 64 + y
        BY <2>9, <2>12
      <3> QED
        BY <2>2, <2>6, <2>12, <3>1 DEF c
    <2> QED
      BY <2>7, <2>10, <2>11, <2>12
  <1>6. FromBase64(d) = [i \in 1 .. k |-> ByteFrom(d, i)]
    <2>1. (6 * Len(Divide(d, 64)[1])) \div 8 = k
      BY <1>2, <1>4, Zenon DEF DigitsFor
    <2> QED
      BY <2>1, Zenon DEF FromBase64
  <1>7. s = [i \in 1 .. k |-> s[i]]
    BY LenProperties
  <1>8. FromBase64(d) = s
    BY <1>5, <1>6, <1>7, Zenon
  <1> QED
    BY <1>1, <1>4, <1>8, Zenon

\* So do those of the model.
LEMMA CredentialsArriveSame == TextType => CredentialsArrive
  BY CredentialsStay DEF TextType, CredentialsArrive

\* For any alphabet and limit of header lines: a path without a percent sign, a
\* NUL or what ends it is on one end what it was on the other; a header value
\* without a percent sign and a whole line end arrives without the blanks around
\* it, or the headers are refused, exactly if it has a CR, LF or NUL or its line
\* is too long; credentials and escapes of code points decode to what was encoded
\* (HttpText: encode_url, write_headers, read_headers, base64_encode, Utf8).
THEOREM TextsAreKept == Spec => []TextsArrive
  <1>1. TextType => TextsArrive
    BY PathsArriveSame, HeadersArriveSame, UnicodeArrives, CredentialsArriveSame, Zenon
    DEF TextsArrive
  <1> QED
    BY <1>1, TextTyped, PTL

-----------------------------------------------------------------------------
(***************************************************************************)
(* Routes.  A text is cut at its slashes: c has their places, between the  *)
(* places before and behind the text.                                      *)
(***************************************************************************)
IsCut(c, s, ps) ==
  /\ Len(ps) \in Nat \ {0} /\ c \in [0 .. Len(ps) -> Nat]
  /\ c[0] = 0 /\ c[Len(ps)] = Len(s) + 1
  /\ \A i \in 1 .. Len(ps) :
       /\ ps[i] \in Texts /\ c[i] = c[i - 1] + Len(ps[i]) + 1
       /\ \A k \in 1 .. Len(ps[i]) : ps[i][k] # Slash /\ s[c[i - 1] + k] = ps[i][k]
  /\ \A i \in 1 .. Len(ps) - 1 : s[c[i]] = Slash

\* One byte more.
LEMMA CutStep ==
  ASSUME NEW s \in Texts, NEW v \in Nat, NEW ps \in Lists, NEW c, IsCut(c, s, ps)
  PROVE  \E d : IsCut(d, Append(s, v), PieceStep(ps, v, Slash))
  <1> DEFINE n == Len(ps)
             m == Len(s)
             t == Append(s, v)
  <1>1. /\ m \in Nat /\ t \in Texts /\ Len(t) = m + 1 /\ t[m + 1] = v
        /\ \A k \in 1 .. m : t[k] = s[k]
    BY AppendProperties, LenProperties DEF Texts
  <1>2. PICK qs \in Seq(Texts), q \in Texts : ps = Append(qs, q)
    BY LastPiece
  <1>3. /\ ps \in Seq(Texts) /\ n = Len(qs) + 1 /\ Len(qs) \in Nat
        /\ \A i \in 1 .. n - 1 : ps[i] = qs[i]
        /\ ps[n] = q /\ n \in Nat \ {0}
    BY <1>2, AppendProperties, LenProperties
  <1>4. /\ c \in [0 .. n -> Nat] /\ c[0] = 0 /\ c[n] = m + 1
        /\ \A i \in 1 .. n :
             /\ ps[i] \in Texts /\ c[i] = c[i - 1] + Len(ps[i]) + 1
             /\ \A k \in 1 .. Len(ps[i]) : ps[i][k] # Slash /\ s[c[i - 1] + k] = ps[i][k]
        /\ \A i \in 1 .. n - 1 : s[c[i]] = Slash
    BY Zenon DEF IsCut
  <1>5. \A i \in 1 .. n : Len(ps[i]) \in Nat /\ c[i] \in Nat /\ c[i - 1] \in Nat
    <2> SUFFICES ASSUME NEW i \in 1 .. n
                 PROVE  Len(ps[i]) \in Nat /\ c[i] \in Nat /\ c[i - 1] \in Nat
      OBVIOUS
    <2>1. i \in 0 .. n /\ i - 1 \in 0 .. n
      BY <1>3
    <2>2. ps[i] \in Texts
      BY <1>4
    <2>3. Len(ps[i]) \in Nat
      BY <2>2, LenProperties DEF Texts
    <2> HIDE DEF n
    <2> QED
      BY <1>4, <2>1, <2>3
  <1>6. ASSUME NEW i \in 1 .. n
        PROVE  c[i] <= m + 1 /\ (i < n => c[i] < m + 1)
    <2> DEFINE T == {k \in Nat : k < n => c[n - k] <= m + 1 /\ (k > 0 => c[n - k] < m + 1)}
    <2>1. 0 \in T
      BY <1>1, <1>4
    <2>2. ASSUME NEW k \in Nat, k \in T
          PROVE  k + 1 \in T
      <3> SUFFICES ASSUME k + 1 < n
                   PROVE  c[n - (k + 1)] <= m + 1 /\ c[n - (k + 1)] < m + 1
        OBVIOUS
      <3>1. n - k \in 1 .. n /\ (n - k) - 1 = n - (k + 1)
        BY <1>3
      <3>2. /\ c[n - k] = c[n - (k + 1)] + Len(ps[n - k]) + 1
            /\ Len(ps[n - k]) \in Nat /\ c[n - k] \in Nat /\ c[n - (k + 1)] \in Nat
        BY <1>4, <1>5, <3>1, Zenon
      <3>3. c[n - k] <= m + 1
        BY <1>3, <2>2
      <3> QED
        BY <1>1, <3>2, <3>3
    <2>3. n - i \in T
      <3> HIDE DEF T
      <3>1. n - i \in Nat
        BY <1>3
      <3> QED
        BY <2>1, <2>2, <3>1, NatSetInduction
    <2> QED
      BY <1>3, <2>3
  <1> DEFINE r == PieceStep(ps, v, Slash)
  <1>7. Slash \in Nat
    BY DEF Slash
  <1>8. /\ v = Slash => r = Append(ps, <<>>)
        /\ v # Slash => r = Append(qs, Append(q, v))
    BY <1>2, <1>7, PieceStepIs, Zenon
  <1>9. \A i \in 1 .. n : \A k \in 1 .. Len(ps[i]) :
          /\ c[i - 1] + k \in 1 .. m /\ t[c[i - 1] + k] = ps[i][k]
          /\ ps[i][k] # Slash
    <2> SUFFICES ASSUME NEW i \in 1 .. n, NEW k \in 1 .. Len(ps[i])
                 PROVE  /\ c[i - 1] + k \in 1 .. m /\ t[c[i - 1] + k] = ps[i][k]
                        /\ ps[i][k] # Slash
      OBVIOUS
    <2>1. c[i - 1] + k \in 1 .. m
      BY <1>1, <1>4, <1>5, <1>6, SMTT(20)
    <2> QED
      BY <1>1, <1>4, <2>1
  <1>10. \A i \in 1 .. n - 1 : t[c[i]] = Slash
    <2> SUFFICES ASSUME NEW i \in 1 .. n - 1 PROVE t[c[i]] = Slash
      BY Zenon
    <2>1. i \in 1 .. n /\ i < n /\ i - 1 \in 0 .. n
      BY <1>3
    <2>2. c[i] \in 1 .. m
      <3>1. c[i] = c[i - 1] + Len(ps[i]) + 1 /\ c[i] < m + 1
        BY <1>4, <1>6, <2>1
      <3>2. c[i - 1] \in Nat /\ Len(ps[i]) \in Nat /\ c[i] \in Nat
        BY <1>5, <2>1
      <3> QED
        BY <1>1, <3>1, <3>2
    <2> QED
      BY <1>1, <1>4, <2>2
  <1> HIDE DEF n, m, t, r
  <1>11. CASE v = Slash
    <2> DEFINE d == [i \in 0 .. n + 1 |-> IF i <= n THEN c[i] ELSE m + 2]
    <2>1. /\ r \in Seq(Texts) /\ Len(r) = n + 1 /\ r[n + 1] = <<>>
          /\ \A i \in 1 .. n : r[i] = ps[i]
      <3>1. r = Append(ps, <<>>) /\ <<>> \in Texts
        BY <1>8, <1>11, EmptySeq DEF Texts
      <3> QED
        BY <1>3, <3>1, AppendProperties DEF n
    <2>2. /\ d \in [0 .. n + 1 -> Nat] /\ d[0] = 0 /\ d[n + 1] = m + 2
          /\ \A i \in 0 .. n : d[i] = c[i]
      BY <1>1, <1>3, <1>4
    <2> HIDE DEF d
    <2>3. ASSUME NEW i \in 1 .. n + 1
          PROVE  /\ r[i] \in Texts /\ d[i] = d[i - 1] + Len(r[i]) + 1
                 /\ \A k \in 1 .. Len(r[i]) : r[i][k] # Slash /\ t[d[i - 1] + k] = r[i][k]
      <3>1. CASE i <= n
        <4>1. i \in 1 .. n /\ i \in 0 .. n /\ i - 1 \in 0 .. n
          BY <1>3, <3>1
        <4>2. r[i] = ps[i] /\ d[i] = c[i] /\ d[i - 1] = c[i - 1]
          BY <2>1, <2>2, <4>1
        <4> QED
          BY <1>4, <1>9, <4>1, <4>2
      <3>2. CASE i = n + 1
        <4>1. r[i] = <<>> /\ Len(r[i]) = 0 /\ r[i] \in Texts
          BY <2>1, <3>2, EmptySeq DEF Texts
        <4>2. d[i] = m + 2 /\ d[i - 1] = m + 1
          BY <1>3, <1>4, <2>2, <3>2
        <4> QED
          BY <1>1, <4>1, <4>2
      <3> QED
        BY <1>3, <3>1, <3>2
    <2>4. ASSUME NEW i \in 1 .. n
          PROVE  t[d[i]] = Slash
      <3>1. CASE i = n
        BY <1>1, <1>3, <1>4, <1>11, <2>2, <3>1
      <3>2. CASE i # n
        BY <1>3, <1>10, <2>2, <3>2
      <3> QED
        BY <3>1, <3>2
    <2>5. /\ Len(r) \in Nat \ {0} /\ d \in [0 .. Len(r) -> Nat]
          /\ d[0] = 0 /\ d[Len(r)] = Len(t) + 1
      BY <1>1, <1>3, <2>1, <2>2
    <2>6. \A i \in 1 .. Len(r) - 1 : t[d[i]] = Slash
      BY <1>3, <2>1, <2>4
    <2>7. IsCut(d, t, r)
      BY <2>1, <2>3, <2>5, <2>6 DEF IsCut
    <2> QED
      BY <2>7 DEF t, r
  <1>12. CASE v # Slash
    <2> DEFINE d == [i \in 0 .. n |-> IF i = n THEN m + 2 ELSE c[i]]
               w == Append(q, v)
    <2>1. w \in Texts /\ Len(w) = Len(q) + 1 /\ w[Len(q) + 1] = v /\ Len(q) \in Nat
          /\ \A k \in 1 .. Len(q) : w[k] = q[k]
      BY AppendProperties, LenProperties DEF Texts
    <2> HIDE DEF w
    <2>2. /\ r \in Seq(Texts) /\ Len(r) = n /\ r[n] = w
          /\ \A i \in 1 .. n - 1 : r[i] = ps[i]
      <3>1. r = Append(qs, w)
        BY <1>8, <1>12 DEF w
      <3> QED
        BY <1>3, <2>1, <3>1, AppendProperties
    <2>3. /\ d \in [0 .. n -> Nat] /\ d[0] = 0 /\ d[n] = m + 2
          /\ \A i \in 0 .. n - 1 : d[i] = c[i]
      BY <1>1, <1>3, <1>4
    <2> HIDE DEF d
    <2>4. ASSUME NEW i \in 1 .. n
          PROVE  /\ r[i] \in Texts /\ d[i] = d[i - 1] + Len(r[i]) + 1
                 /\ \A k \in 1 .. Len(r[i]) : r[i][k] # Slash /\ t[d[i - 1] + k] = r[i][k]
      <3>1. CASE i < n
        <4>1. i \in 1 .. n - 1 /\ i \in 0 .. n - 1 /\ i - 1 \in 0 .. n - 1
          BY <1>3, <3>1
        <4>2. r[i] = ps[i] /\ d[i] = c[i] /\ d[i - 1] = c[i - 1]
          BY <2>2, <2>3, <4>1
        <4> QED
          BY <1>4, <1>9, <4>2
      <3>2. CASE i = n
        <4>1. r[i] = w /\ d[i] = m + 2 /\ d[i - 1] = c[n - 1]
          BY <1>3, <2>2, <2>3, <3>2
        <4>2. m + 1 = c[n - 1] + Len(q) + 1 /\ c[n - 1] \in Nat
          BY <1>3, <1>4, <1>5, <3>2, Zenon
        <4>3. ASSUME NEW k \in 1 .. Len(w)
              PROVE  w[k] # Slash /\ t[c[n - 1] + k] = w[k]
          <5>1. CASE k <= Len(q)
            <6>1. n \in 1 .. n /\ k \in 1 .. Len(ps[n]) /\ w[k] = ps[n][k]
              BY <1>3, <2>1, <5>1
            <6> QED
              BY <1>9, <6>1
          <5>2. CASE k = Len(q) + 1
            BY <1>1, <1>12, <2>1, <4>2, <5>2
          <5> QED
            BY <2>1, <5>1, <5>2
        <4> QED
          BY <1>1, <2>1, <4>1, <4>2, <4>3, SMTT(20)
      <3> QED
        BY <1>3, <3>1, <3>2
    <2>5. ASSUME NEW i \in 1 .. n - 1
          PROVE  t[d[i]] = Slash
      BY <1>3, <1>10, <2>3, SMTT(20)
    <2>6. /\ Len(r) \in Nat \ {0} /\ d \in [0 .. Len(r) -> Nat]
          /\ d[0] = 0 /\ d[Len(r)] = Len(t) + 1
      BY <1>1, <1>3, <2>2, <2>3
    <2>7. IsCut(d, t, r)
      BY <2>2, <2>4, <2>5, <2>6, Zenon DEF IsCut
    <2> QED
      BY <2>7 DEF t, r
  <1> QED
    BY <1>11, <1>12

\* The pieces of a text are what lies between its slashes.
LEMMA CutExists ==
  ASSUME NEW s \in Texts
  PROVE  \E c : IsCut(c, s, Pieces(s, Slash))
  <1> DEFINE T == {t \in Texts : \E c : IsCut(c, t, Pieces(t, Slash))}
  <1>1. Slash \in Nat
    BY DEF Slash
  <1>2. <<>> \in T
    <2> DEFINE c == [i \in 0 .. 1 |-> i]
               e == <<<<>>>>
    <2>1. Pieces(<<>>, Slash) = e /\ <<>> \in Texts
      BY <1>1, PiecesIs, EmptySeq DEF Texts
    <2>2. Len(e) = 1 /\ e[1] = <<>> /\ Len(<<>>) = 0
      BY EmptySeq
    <2>3. IsCut(c, <<>>, e)
      <3> HIDE DEF e
      <3> QED
        BY <2>1, <2>2 DEF IsCut
    <2> QED
      BY <2>1, <2>3
  <1>3. ASSUME NEW t \in Seq(Nat), NEW v \in Nat, t \in T
        PROVE  Append(t, v) \in T
    <2>1. t \in Texts /\ Append(t, v) \in Texts /\ Pieces(t, Slash) \in Lists
      BY <1>1, PiecesIs DEF Texts
    <2>2. PICK c : IsCut(c, t, Pieces(t, Slash))
      BY <1>3
    <2>3. \E d : IsCut(d, Append(t, v), PieceStep(Pieces(t, Slash), v, Slash))
      BY <2>1, <2>2, CutStep
    <2>4. PieceStep(Pieces(t, Slash), v, Slash) = Pieces(Append(t, v), Slash)
      BY <1>1, <2>1, PiecesIs
    <2> QED
      BY <2>1, <2>3, <2>4
  <1>4. Seq(Nat) \subseteq T
    <2> HIDE DEF T
    <2> QED
      BY <1>2, <1>3, SeqSetInduction
  <1> QED
    BY <1>4 DEF Texts

\* The places in numbers.
LEMMA CutIs ==
  ASSUME NEW s \in Texts, NEW ps, NEW c, IsCut(c, s, ps)
  PROVE  /\ Len(s) \in Nat /\ Len(ps) \in Nat \ {0}
         /\ c[0] = 0 /\ c[Len(ps)] = Len(s) + 1
         /\ \A i \in 0 .. Len(ps) : c[i] \in Nat
         /\ \A i \in 1 .. Len(ps) :
              /\ ps[i] \in Texts /\ Len(ps[i]) \in Nat
              /\ c[i - 1] \in Nat /\ c[i] = c[i - 1] + Len(ps[i]) + 1
  <1>1. Len(s) \in Nat
    BY LenProperties DEF Texts
  <1>2. /\ c[0] = 0 /\ c[Len(ps)] = Len(s) + 1
        /\ c \in [0 .. Len(ps) -> Nat] /\ Len(ps) \in Nat \ {0}
        /\ \A i \in 1 .. Len(ps) : ps[i] \in Texts /\ c[i] = c[i - 1] + Len(ps[i]) + 1
    BY DEF IsCut
  <1> DEFINE n == Len(ps)
  <1>3. \A i \in 1 .. n : i - 1 \in 0 .. n /\ i \in 0 .. n
    BY <1>2
  <1>4. \A i \in 1 .. n : Len(ps[i]) \in Nat
    BY <1>2, LenProperties DEF Texts
  <1> HIDE DEF n
  <1>5. \A i \in 0 .. n : c[i] \in Nat
    BY <1>2 DEF n
  <1> QED
    BY <1>1, <1>2, <1>3, <1>4, <1>5 DEF n

\* They are in order.
LEMMA CutGrows ==
  ASSUME NEW s \in Texts, NEW ps, NEW c, IsCut(c, s, ps),
         NEW i \in 0 .. Len(ps), NEW j \in i .. Len(ps)
  PROVE  c[i] + (j - i) <= c[j]
  <1> DEFINE n == Len(ps)
             T == {k \in Nat : i + k <= n => c[i] + k <= c[i + k]}
  <1>1. /\ n \in Nat \ {0}
        /\ \A m \in 0 .. n : c[m] \in Nat
        /\ \A m \in 1 .. n : Len(ps[m]) \in Nat /\ c[m] = c[m - 1] + Len(ps[m]) + 1
    BY CutIs
  <1> HIDE DEF n
  <1>2. i \in Nat /\ j \in Nat /\ i <= j /\ j <= n /\ i \in 0 .. n
    BY <1>1 DEF n
  <1>3. 0 \in T
    BY <1>1, <1>2
  <1>4. ASSUME NEW k \in Nat, k \in T
        PROVE  k + 1 \in T
    <2> SUFFICES ASSUME i + (k + 1) <= n
                 PROVE  c[i] + (k + 1) <= c[i + (k + 1)]
      OBVIOUS
    <2> DEFINE m == i + (k + 1)
    <2>1. m \in 1 .. n /\ m - 1 = i + k /\ m - 1 \in 0 .. n
      BY <1>1, <1>2
    <2>2. c[i] + k <= c[m - 1]
      BY <1>1, <1>2, <1>4, <2>1
    <2> HIDE DEF m
    <2>3. c[m] = c[m - 1] + Len(ps[m]) + 1 /\ Len(ps[m]) \in Nat /\ c[m - 1] \in Nat
      BY <1>1, <2>1
    <2>4. c[i] \in Nat
      BY <1>1, <1>2
    <2>5. c[i] + (k + 1) <= c[m]
      BY <2>2, <2>3, <2>4, SMTT(20)
    <2> QED
      BY <2>5 DEF m
  <1>5. j - i \in T
    <2>1. j - i \in Nat
      BY <1>2
    <2> HIDE DEF T
    <2> QED
      BY <1>3, <1>4, <2>1, NatSetInduction, Zenon
  <1>6. i + (j - i) = j
    BY <1>2
  <1> QED
    BY <1>2, <1>5, <1>6

\* Every place of the text, and the one behind it, is between two of them.
LEMMA CutCovers ==
  ASSUME NEW s \in Texts, NEW ps, NEW c, IsCut(c, s, ps), NEW k \in 1 .. Len(s) + 1
  PROVE  \E i \in 1 .. Len(ps) : c[i - 1] < k /\ k <= c[i]
  <1> DEFINE n == Len(ps)
             T == {m \in Nat : m <= n /\ k <= c[m] => \E i \in 1 .. n : c[i - 1] < k /\ k <= c[i]}
  <1>1. /\ n \in Nat \ {0} /\ Len(s) \in Nat
        /\ c[0] = 0 /\ c[n] = Len(s) + 1
        /\ \A m \in 0 .. n : c[m] \in Nat
    BY CutIs
  <1> HIDE DEF n
  <1>2. k \in Nat \ {0} /\ k <= c[n]
    BY <1>1
  <1>3. 0 \in T
    BY <1>1, <1>2
  <1>4. ASSUME NEW m \in Nat, m \in T
        PROVE  m + 1 \in T
    <2> SUFFICES ASSUME m + 1 <= n, k <= c[m + 1]
                 PROVE  \E i \in 1 .. n : c[i - 1] < k /\ k <= c[i]
      OBVIOUS
    <2>1. CASE k <= c[m]
      BY <1>1, <1>4, <2>1
    <2>2. CASE ~(k <= c[m])
      <3>1. m + 1 \in 1 .. n /\ (m + 1) - 1 = m /\ m \in 0 .. n
        BY <1>1
      <3>2. c[m] < k
        BY <1>1, <1>2, <2>2, <3>1
      <3> QED
        BY <3>1, <3>2
    <2> QED
      BY <2>1, <2>2
  <1>5. n \in T
    <2> HIDE DEF T
    <2> QED
      BY <1>1, <1>3, <1>4, NatSetInduction, Zenon
  <1> QED
    BY <1>1, <1>2, <1>5 DEF n

\* What stands at a place.
LEMMA CutAt ==
  ASSUME NEW s \in Texts, NEW ps, NEW c, IsCut(c, s, ps), NEW i \in 1 .. Len(ps)
  PROVE  /\ \A k \in c[i - 1] + 1 .. c[i] - 1 :
              /\ k \in 1 .. Len(s) /\ k - c[i - 1] \in 1 .. Len(ps[i])
              /\ s[k] # Slash /\ s[k] = ps[i][k - c[i - 1]]
         /\ i < Len(ps) => c[i] \in 1 .. Len(s) /\ s[c[i]] = Slash
         /\ c[i] \in 1 .. Len(s) + 1
  <1> DEFINE n == Len(ps)
  <1>1. /\ n \in Nat \ {0} /\ Len(s) \in Nat /\ c[n] = Len(s) + 1
        /\ c[i] \in Nat /\ c[i - 1] \in Nat /\ Len(ps[i]) \in Nat
        /\ c[i] = c[i - 1] + Len(ps[i]) + 1
    BY CutIs
  <1>2. c[i] + (n - i) <= c[n]
    <2>1. i \in 0 .. Len(ps) /\ Len(ps) \in i .. Len(ps)
      BY <1>1
    <2> QED
      BY <2>1, CutGrows
  <1>3. /\ \A k \in 1 .. Len(ps[i]) : ps[i][k] # Slash /\ s[c[i - 1] + k] = ps[i][k]
        /\ \A m \in 1 .. n - 1 : s[c[m]] = Slash
    BY DEF IsCut
  <1> HIDE DEF n
  <1>4. i \in 1 .. n /\ i \in Nat
    BY <1>1 DEF n
  <1>5. c[i] <= Len(s) + 1 /\ (i < n => c[i] <= Len(s))
    BY <1>1, <1>2, <1>4
  <1>6. ASSUME NEW k \in c[i - 1] + 1 .. c[i] - 1
        PROVE  /\ k \in 1 .. Len(s) /\ k - c[i - 1] \in 1 .. Len(ps[i])
               /\ s[k] # Slash /\ s[k] = ps[i][k - c[i - 1]]
    <2>1. /\ k \in 1 .. Len(s) /\ k - c[i - 1] \in 1 .. Len(ps[i])
          /\ c[i - 1] + (k - c[i - 1]) = k
      <3> DEFINE a == c[i - 1]
                 b == c[i]
                 l == Len(ps[i])
      <3>1. k \in Nat /\ a + 1 <= k /\ k <= b - 1
        BY <1>1
      <3>2. a \in Nat /\ b \in Nat /\ l \in Nat /\ b = a + l + 1 /\ b <= Len(s) + 1
        BY <1>1, <1>5
      <3> HIDE DEF a, b, l
      <3>3. k \in 1 .. Len(s) /\ k - a \in 1 .. l /\ a + (k - a) = k
        BY <1>1, <3>1, <3>2
      <3> QED
        BY <3>3 DEF a, l
    <2> QED
      BY <1>3, <2>1
  <1>7. i < n => c[i] \in 1 .. Len(s) /\ s[c[i]] = Slash
    BY <1>1, <1>3, <1>4, <1>5
  <1>8. c[i] \in 1 .. Len(s) + 1
    BY <1>1, <1>5
  <1> QED
    BY <1>6, <1>7, <1>8 DEF n

\* The slashes are at these places, and the places before them grow.
LEMMA SlashIsCut ==
  ASSUME NEW s \in Texts, NEW ps, NEW c, IsCut(c, s, ps),
         NEW k \in 1 .. Len(s), s[k] = Slash
  PROVE  \E i \in 1 .. Len(ps) : i < Len(ps) /\ k = c[i]
  <1>1. /\ Len(s) \in Nat /\ Len(ps) \in Nat \ {0} /\ c[Len(ps)] = Len(s) + 1
        /\ \A i \in 0 .. Len(ps) : c[i] \in Nat
    BY CutIs
  <1>2. k \in 1 .. Len(s) + 1
    BY <1>1
  <1>3. PICK i \in 1 .. Len(ps) : c[i - 1] < k /\ k <= c[i]
    BY <1>2, CutCovers
  <1>4. ~(k \in c[i - 1] + 1 .. c[i] - 1)
    BY CutAt
  <1>5. c[i] \in Nat /\ c[i - 1] \in Nat
    BY <1>1
  <1>6. k = c[i]
    BY <1>3, <1>4, <1>5
  <1>7. i # Len(ps)
    BY <1>1, <1>6
  <1> QED
    BY <1>1, <1>6, <1>7

\* The next slash, from within a piece.
LEMMA SeparatorIs ==
  ASSUME NEW s \in Texts, NEW ps, NEW c, IsCut(c, s, ps),
         NEW i \in 1 .. Len(ps), NEW k \in c[i - 1] + 1 .. c[i]
  PROVE  Separator(s, k) = c[i]
  <1> DEFINE at == {m \in k .. Len(s) : s[m] = Slash}
  <1>1. /\ Len(s) \in Nat /\ Len(ps) \in Nat \ {0} /\ c[Len(ps)] = Len(s) + 1
        /\ c[i] \in Nat /\ c[i - 1] \in Nat
    BY CutIs
  <1>2. /\ \A m \in c[i - 1] + 1 .. c[i] - 1 : s[m] # Slash
        /\ i < Len(ps) => c[i] \in 1 .. Len(s) /\ s[c[i]] = Slash
    BY CutAt
  <1>3. Separator(s, k) = IF at = {} THEN Len(s) + 1
                          ELSE CHOOSE m \in at : \A l \in at : m <= l
    BY Zenon DEF Separator
  <1>4. \A m \in at : m \in Nat /\ c[i] <= m
    <2> SUFFICES ASSUME NEW m \in at PROVE m \in Nat /\ c[i] <= m
      OBVIOUS
    <2>1. m \in Nat /\ s[m] = Slash /\ k <= m
      BY <1>1
    <2>2. ~(m \in c[i - 1] + 1 .. c[i] - 1)
      BY <1>2, <2>1
    <2> QED
      BY <1>1, <2>1, <2>2
  <1>5. CASE i < Len(ps)
    <2>1. c[i] \in at
      BY <1>1, <1>2, <1>5
    <2> HIDE DEF at
    <2> DEFINE x == CHOOSE m \in at : \A l \in at : m <= l
    <2>2. \E m \in at : \A l \in at : m <= l
      BY <1>4, <2>1
    <2>3. x \in at /\ \A l \in at : x <= l
      BY <2>2
    <2> HIDE DEF x
    <2>4. x = c[i]
      BY <1>1, <1>4, <2>1, <2>3
    <2>5. Separator(s, k) = x
      BY <1>3, <2>1 DEF x
    <2> QED
      BY <2>4, <2>5
  <1>6. CASE ~(i < Len(ps))
    <2>1. i = Len(ps) /\ c[i] = Len(s) + 1
      BY <1>1, <1>6
    <2>2. at = {}
      <3> SUFFICES ASSUME NEW m \in at PROVE FALSE
        OBVIOUS
      <3>1. m <= Len(s)
        BY <1>1
      <3> HIDE DEF at
      <3> QED
        BY <1>1, <1>4, <2>1, <3>1
    <2> QED
      BY <1>3, <2>1, <2>2
  <1> QED
    BY <1>5, <1>6

\* No piece behind the j-th is free, up to the i-th.
Plain(ps, j, i) == \A m \in j + 1 .. i : ~IsFree(ps[m])

\* Where a slash and a colon are, a piece that is free begins.
LEMMA MarkerHere ==
  ASSUME NEW s \in Texts, NEW ps, NEW c, IsCut(c, s, ps),
         NEW k \in 1 .. Len(s) - 1
  PROVE  s[k] = Slash /\ s[k + 1] = Colon <=>
           \E m \in 2 .. Len(ps) : k = c[m - 1] /\ IsFree(ps[m])
  <1>1. /\ Len(s) \in Nat /\ Len(ps) \in Nat \ {0} /\ c[Len(ps)] = Len(s) + 1
        /\ \A i \in 0 .. Len(ps) : c[i] \in Nat
        /\ \A i \in 1 .. Len(ps) :
             /\ ps[i] \in Texts /\ Len(ps[i]) \in Nat
             /\ c[i] = c[i - 1] + Len(ps[i]) + 1
    BY CutIs
  <1>2. Slash # Colon
    BY DEF Slash, Colon
  <1>3. ASSUME s[k] = Slash, s[k + 1] = Colon
        PROVE  \E m \in 2 .. Len(ps) : k = c[m - 1] /\ IsFree(ps[m])
    <2>1. k \in 1 .. Len(s)
      BY <1>1
    <2>2. PICK i \in 1 .. Len(ps) : i < Len(ps) /\ k = c[i]
      BY <1>3, <2>1, SlashIsCut
    <2> DEFINE m == i + 1
    <2>3. m \in 2 .. Len(ps) /\ m \in 1 .. Len(ps) /\ m - 1 = i
      BY <1>1, <2>2
    <2> HIDE DEF m
    <2>4. c[m] = k + Len(ps[m]) + 1 /\ Len(ps[m]) \in Nat /\ ps[m] \in Texts
      BY <1>1, <2>2, <2>3
    <2>5. c[m] # k + 1
      <3> SUFFICES ASSUME c[m] = k + 1 PROVE FALSE
        OBVIOUS
      <3>1. m < Len(ps) => s[c[m]] = Slash
        BY <2>3, CutAt
      <3>2. m = Len(ps) => c[m] = Len(s) + 1
        BY <1>1
      <3> QED
        BY <1>1, <1>2, <1>3, <2>3, <3>1, <3>2
    <2>6. k + 1 \in c[m - 1] + 1 .. c[m] - 1
      BY <1>1, <2>2, <2>3, <2>4, <2>5
    <2>7. s[k + 1] = ps[m][1]
      <3>1. 1 \in 1 .. Len(ps[m])
        BY <1>1, <2>2, <2>3, <2>4, <2>5
      <3>2. s[c[m - 1] + 1] = ps[m][1]
        BY <2>3, <3>1 DEF IsCut
      <3> QED
        BY <2>2, <2>3, <3>2
    <2>8. ps[m] # <<>>
      BY <2>4, <2>5, EmptySeq
    <2>9. IsFree(ps[m])
      BY <1>3, <2>7, <2>8 DEF IsFree
    <2> QED
      BY <2>2, <2>3, <2>9
  <1>4. ASSUME NEW m \in 2 .. Len(ps), k = c[m - 1], IsFree(ps[m])
        PROVE  s[k] = Slash /\ s[k + 1] = Colon
    <2>1. m \in 1 .. Len(ps) /\ m - 1 \in 1 .. Len(ps) /\ m - 1 < Len(ps)
      BY <1>1
    <2>2. s[k] = Slash
      BY <1>4, <2>1, CutAt
    <2>3. Len(ps[m]) \in Nat /\ Len(ps[m]) # 0 /\ c[m] = c[m - 1] + Len(ps[m]) + 1
      <3>1. ps[m] # <<>> /\ ps[m] \in Seq(Nat)
        BY <1>1, <1>4, <2>1 DEF IsFree, Texts
      <3> QED
        BY <1>1, <2>1, <3>1, EmptySeq
    <2>4. k + 1 \in c[m - 1] + 1 .. c[m] - 1
      BY <1>1, <1>4, <2>1, <2>3
    <2>5. s[k + 1] = ps[m][(k + 1) - c[m - 1]]
      BY <2>1, <2>4, CutAt
    <2>6. (k + 1) - c[m - 1] = 1
      BY <1>4
    <2> QED
      BY <1>4, <2>2, <2>5, <2>6 DEF IsFree
  <1> QED
    BY <1>3, <1>4

\* Where the search for the next marker begins, behind the j-th piece.
SearchFrom(c, j) == IF j = 0 THEN 1 ELSE c[j]

\* The next marker is in front of the next piece that is free.
LEMMA MarkerIs ==
  ASSUME NEW s \in Texts, NEW ps, NEW c, IsCut(c, s, ps), ~IsFree(ps[1]),
         NEW j \in 0 .. Len(ps)
  PROVE  /\ Plain(ps, j, Len(ps)) => Marker(s, SearchFrom(c, j)) = 0
         /\ \A e \in j + 1 .. Len(ps) :
              Plain(ps, j, e - 1) /\ IsFree(ps[e]) => Marker(s, SearchFrom(c, j)) = c[e - 1]
  <1> DEFINE n == Len(ps)
             b == SearchFrom(c, j)
             at == {k \in b .. Len(s) - 1 : s[k] = Slash /\ s[k + 1] = Colon}
  <1>1. /\ Len(s) \in Nat /\ n \in Nat \ {0} /\ c[n] = Len(s) + 1
        /\ \A i \in 0 .. n : c[i] \in Nat
        /\ \A i \in 1 .. n :
             /\ ps[i] \in Texts /\ Len(ps[i]) \in Nat
             /\ c[i - 1] \in Nat /\ c[i] = c[i - 1] + Len(ps[i]) + 1
    BY CutIs
  <1>2. j \in Nat /\ j <= n
    BY <1>1
  <1>3. ASSUME NEW i \in 0 .. n, NEW m \in i .. n
        PROVE  c[i] + (m - i) <= c[m]
    BY <1>3, CutGrows
  <1> HIDE DEF n
  <1>4. b \in Nat \ {0}
    <2>1. j # 0 => c[j] = c[j - 1] + Len(ps[j]) + 1 /\ c[j - 1] \in Nat /\ Len(ps[j]) \in Nat
      BY <1>1, <1>2
    <2> QED
      BY <2>1 DEF SearchFrom
  <1>5. Marker(s, b) = IF at = {} THEN 0 ELSE CHOOSE k \in at : \A m \in at : k <= m
    BY Zenon DEF Marker
  <1>6. ASSUME NEW k \in at
        PROVE  k \in Nat /\ \E m \in j + 1 .. n : m >= 2 /\ k = c[m - 1] /\ IsFree(ps[m])
    <2>1. k \in 1 .. Len(s) - 1 /\ b <= k /\ s[k] = Slash /\ s[k + 1] = Colon
      BY <1>1, <1>4
    <2>2. PICK m \in 2 .. n : k = c[m - 1] /\ IsFree(ps[m])
      BY <2>1, MarkerHere DEF n
    <2>3. m \in Nat /\ m >= 2 /\ m <= n /\ m - 1 \in 0 .. n
      BY <1>1
    <2>4. j <= m - 1
      <3> SUFFICES ASSUME m - 1 < j PROVE FALSE
        BY <1>2, <2>3
      <3>1. j \in m - 1 .. n
        BY <1>2, <2>3
      <3>2. c[m - 1] + (j - (m - 1)) <= c[j]
        BY <1>3, <2>3, <3>1
      <3>3. b = c[j] /\ c[j] \in Nat /\ c[m - 1] \in Nat
        BY <1>1, <1>2, <2>3 DEF SearchFrom
      <3> HIDE DEF b
      <3> QED
        BY <1>2, <2>1, <2>2, <2>3, <3>2, <3>3
    <2>5. m \in j + 1 .. n
      BY <1>2, <2>3, <2>4
    <2> QED
      BY <2>1, <2>2, <2>3, <2>5
  <1>7. ASSUME Plain(ps, j, n)
        PROVE  Marker(s, b) = 0
    <2>1. at = {}
      <3> SUFFICES ASSUME NEW k \in at PROVE FALSE
        OBVIOUS
      <3> QED
        BY <1>6, <1>7 DEF Plain
    <2> QED
      BY <1>5, <2>1
  <1>8. ASSUME NEW e \in j + 1 .. n, Plain(ps, j, e - 1), IsFree(ps[e])
        PROVE  Marker(s, b) = c[e - 1]
    <2> DEFINE k == c[e - 1]
    <2>1. e \in 1 .. n /\ e # 1
      BY <1>1, <1>2, <1>8
    <2>2. e \in 2 .. n /\ e - 1 \in 1 .. n /\ e - 1 < n /\ e \in Nat
      BY <1>1, <2>1
    <2>3. k \in 1 .. Len(s) - 1
      <3>1. k \in 1 .. Len(s)
        BY <2>2, CutAt DEF n
      <3>2. ps[e] # <<>> /\ ps[e] \in Seq(Nat)
        BY <1>1, <1>8, <2>1 DEF IsFree, Texts
      <3>3. Len(ps[e]) # 0
        BY <3>2, EmptySeq
      <3>4. c[e] = k + Len(ps[e]) + 1 /\ Len(ps[e]) \in Nat
        BY <1>1, <2>1
      <3>5. c[e] <= Len(s) + 1
        <4>1. e \in 1 .. Len(ps)
          BY <2>1 DEF n
        <4>2. c[e] \in 1 .. Len(s) + 1
          BY <4>1, CutAt
        <4> QED
          BY <1>1, <4>2
      <3> HIDE DEF k
      <3> QED
        BY <1>1, <3>1, <3>3, <3>4, <3>5
    <2>4. s[k] = Slash /\ s[k + 1] = Colon
      <3>1. \E m \in 2 .. n : k = c[m - 1] /\ IsFree(ps[m])
        BY <1>8, <2>2
      <3> HIDE DEF k
      <3>2. s[k] = Slash /\ s[k + 1] = Colon <=>
              \E m \in 2 .. Len(ps) : k = c[m - 1] /\ IsFree(ps[m])
        BY <2>3, MarkerHere
      <3> QED
        BY <3>1, <3>2 DEF n
    <2>5. b <= k
      <3>1. CASE j = 0
        BY <2>3, <3>1 DEF SearchFrom
      <3>2. CASE j # 0
        <4>1. j \in 0 .. n /\ e - 1 \in j .. n
          BY <1>1, <1>2, <2>2
        <4>2. c[j] + ((e - 1) - j) <= k
          BY <1>3, <4>1
        <4>3. b = c[j] /\ c[j] \in Nat /\ k \in Nat
          BY <1>1, <2>2, <3>2, <4>1 DEF SearchFrom
        <4>4. (e - 1) - j \in Nat
          BY <1>2, <4>1
        <4> HIDE DEF b, k
        <4> QED
          BY <4>2, <4>3, <4>4
      <3> QED
        BY <3>1, <3>2
    <2>6. k \in at
      BY <1>1, <1>4, <2>3, <2>4, <2>5
    <2>7. ASSUME NEW q \in at
          PROVE  k <= q
      <3>1. PICK m \in j + 1 .. n : m >= 2 /\ q = c[m - 1] /\ IsFree(ps[m])
        BY <1>6
      <3>2. m \in Nat /\ m <= n /\ j + 1 <= m
        BY <1>1, <1>2
      <3>3. ~(m <= e - 1)
        BY <1>2, <1>8, <2>2, <3>1, <3>2 DEF Plain
      <3>4. e - 1 \in 0 .. n /\ m - 1 \in e - 1 .. n /\ (m - 1) - (e - 1) \in Nat
        BY <1>1, <2>2, <3>2, <3>3
      <3>5. k + ((m - 1) - (e - 1)) <= q
        BY <1>3, <3>1, <3>4
      <3>6. k \in Nat /\ q \in Nat
        BY <1>1, <3>1, <3>4
      <3> HIDE DEF k
      <3> QED
        BY <3>4, <3>5, <3>6
    <2>8. \A q \in at : q \in Nat
      BY <1>6
    <2> HIDE DEF at
    <2> DEFINE x == CHOOSE q \in at : \A m \in at : q <= m
    <2>9. \E q \in at : \A m \in at : q <= m
      BY <2>6, <2>7
    <2>10. x \in at /\ \A m \in at : x <= m
      BY <2>9
    <2>11. Marker(s, b) = x
      BY <1>5, <2>6 DEF x
    <2> HIDE DEF x, k, b
    <2>12. x = k
      BY <2>6, <2>7, <2>8, <2>10
    <2> QED
      BY <2>11, <2>12 DEF k
  <1> QED
    BY <1>7, <1>8 DEF n

\* A marker lies within the text.
LEMMA MarkerRange ==
  ASSUME NEW s \in Texts, NEW i \in Nat \ {0}
  PROVE  Marker(s, i) = 0 \/ Marker(s, i) \in i .. Len(s) - 1
  <1> DEFINE at == {k \in i .. Len(s) - 1 : s[k] = Slash /\ s[k + 1] = Colon}
             x == CHOOSE k \in at : \A m \in at : k <= m
  <1>1. Marker(s, i) = IF at = {} THEN 0 ELSE x
    BY Zenon DEF Marker
  <1>2. at \in SUBSET Nat /\ \A k \in at : k \in i .. Len(s) - 1
    BY LenProperties DEF Texts
  <1> HIDE DEF at
  <1>3. at # {} => x \in at
    <2>1. at # {} => \E k \in at : \A m \in at : k <= m
      BY <1>2, LeastNumber
    <2> QED
      BY <2>1
  <1> HIDE DEF x
  <1> QED
    BY <1>1, <1>2, <1>3, Zenon

\* So does a separator, or behind it.
LEMMA SeparatorRange ==
  ASSUME NEW s \in Texts, NEW i \in 1 .. Len(s) + 1
  PROVE  Separator(s, i) \in i .. Len(s) + 1
  <1> DEFINE at == {k \in i .. Len(s) : s[k] = Slash}
             x == CHOOSE k \in at : \A m \in at : k <= m
  <1>1. Separator(s, i) = IF at = {} THEN Len(s) + 1 ELSE x
    BY Zenon DEF Separator
  <1>2. at \in SUBSET Nat /\ (\A k \in at : k \in i .. Len(s)) /\ Len(s) \in Nat
    BY LenProperties DEF Texts
  <1> HIDE DEF at
  <1>3. at # {} => x \in at
    <2>1. at # {} => \E k \in at : \A m \in at : k <= m
      BY <1>2, LeastNumber
    <2> QED
      BY <2>1
  <1> HIDE DEF x
  <1>4. Len(s) + 1 \in i .. Len(s) + 1 /\ \A k \in i .. Len(s) : k \in i .. Len(s) + 1
    BY <1>2
  <1>5. at # {} => x \in i .. Len(s) + 1
    BY <1>2, <1>3, <1>4, Zenon
  <1> QED
    BY <1>1, <1>4, <1>5

\* The constructor of the matcher, from the place i on.
MarkerFrom(s, i) == Marker(s, IF i = 1 THEN 1 ELSE i - 1)
EndOfName(s, i) == Separator(s, MarkerFrom(s, i) + 2)
MatcherFrom(s, f, i) ==
  IF MarkerFrom(s, i) = 0
    THEN [fragments |-> IF i <= Len(s) THEN <<SubSeq(s, i, Len(s))>> ELSE <<>>, names |-> <<>>]
    ELSE [fragments |-> <<SubSeq(s, i, MarkerFrom(s, i))>> \o f[EndOfName(s, i) + 1].fragments,
          names |-> <<SubSeq(s, MarkerFrom(s, i) + 2, EndOfName(s, i) - 1)>>
                      \o f[EndOfName(s, i) + 1].names]
Matchers == [fragments : Seq(Texts), names : Seq(Texts)]
IsMatcher(f, s) ==
  /\ f \in [1 .. Len(s) + 2 -> Matchers]
  /\ \A i \in 1 .. Len(s) + 2 : f[i] = MatcherFrom(s, f, i)

\* The places it visits, and the texts it cuts out.
LEMMA MatcherSteps ==
  ASSUME NEW s \in Texts, NEW i \in 1 .. Len(s) + 2
  PROVE  /\ i <= Len(s) => SubSeq(s, i, Len(s)) \in Texts
         /\ MarkerFrom(s, i) # 0 =>
              /\ EndOfName(s, i) + 1 \in i + 1 .. Len(s) + 2
              /\ SubSeq(s, i, MarkerFrom(s, i)) \in Texts
              /\ SubSeq(s, MarkerFrom(s, i) + 2, EndOfName(s, i) - 1) \in Texts
  <1> DEFINE b == IF i = 1 THEN 1 ELSE i - 1
             m == MarkerFrom(s, i)
             e == EndOfName(s, i)
  <1>1. s \in Seq(Nat) /\ Len(s) \in Nat /\ i \in Nat \ {0}
    BY LenProperties DEF Texts
  <1>2. b \in Nat \ {0} /\ i - 1 <= b
    BY <1>1
  <1>3. m = Marker(s, b)
    BY Zenon DEF MarkerFrom
  <1> HIDE DEF b
  <1>4. m = 0 \/ m \in b .. Len(s) - 1
    BY <1>2, <1>3, MarkerRange
  <1>5. e = Separator(s, m + 2)
    BY Zenon DEF EndOfName
  <1> HIDE DEF m, e
  <1>6. ASSUME i <= Len(s)
        PROVE  SubSeq(s, i, Len(s)) \in Texts
    <2>1. i \in 1 .. Len(s) + 1 /\ Len(s) \in i - 1 .. Len(s)
      BY <1>1, <1>6
    <2> QED
      BY <1>1, <2>1, PieceOf DEF Texts
  <1>7. ASSUME m # 0
        PROVE  /\ e + 1 \in i + 1 .. Len(s) + 2
               /\ SubSeq(s, i, m) \in Texts
               /\ SubSeq(s, m + 2, e - 1) \in Texts
    <2>1. m \in Nat \ {0} /\ b <= m /\ m + 1 <= Len(s)
      BY <1>1, <1>2, <1>4, <1>7
    <2>2. m + 2 \in 1 .. Len(s) + 1
      BY <1>1, <2>1
    <2>3. e \in m + 2 .. Len(s) + 1
      BY <1>5, <2>2, SeparatorRange
    <2>4. e \in Nat /\ m + 2 <= e /\ e <= Len(s) + 1
      BY <1>1, <2>1, <2>3
    <2>5. e + 1 \in i + 1 .. Len(s) + 2
      BY <1>1, <1>2, <2>1, <2>4
    <2>6. i \in 1 .. Len(s) + 1 /\ m \in i - 1 .. Len(s) /\ e - 1 \in (m + 2) - 1 .. Len(s)
      BY <1>1, <1>2, <2>1, <2>4
    <2>7. SubSeq(s, i, m) \in Texts
      BY <1>1, <2>6, PieceOf, Zenon DEF Texts
    <2>8. SubSeq(s, m + 2, e - 1) \in Texts
      BY <1>1, <2>2, <2>6, PieceOf, Zenon DEF Texts
    <2> QED
      BY <2>5, <2>7, <2>8
  <1> QED
    BY <1>6, <1>7 DEF m, e

\* There is such a function.
LEMMA MatcherUnfolds ==
  ASSUME NEW s \in Texts
  PROVE  \E f : NewMatcher(s) = f[1] /\ IsMatcher(f, s)
  <1> DEFINE V == Matchers
             n == Len(s) + 2
             F == [1 .. n -> V]
             none == [fragments |-> <<>>, names |-> <<>>]
             step == [i \in 1 .. n |-> [f \in F |-> MatcherFrom(s, f, i)]]
             Fits(g) == g = [i \in 1 .. n |-> MatcherFrom(s, g, i)]
             it == CHOOSE g : Fits(g)
  <1>1. Len(s) \in Nat /\ n \in Nat
    BY LenProperties DEF Texts
  <1>2. none \in V
    <2>1. <<>> \in Seq(Texts)
      BY EmptySeq
    <2> QED
      BY <2>1 DEF Matchers
  <1>3. ASSUME NEW i \in 1 .. n, NEW f, \A j \in i + 1 .. n : f[j] \in V
        PROVE  MatcherFrom(s, f, i) \in V
    <2>1. CASE MarkerFrom(s, i) = 0
      <3>1. <<>> \in Seq(Texts)
        BY EmptySeq
      <3>2. i <= Len(s) => <<SubSeq(s, i, Len(s))>> \in Seq(Texts)
        <4> SUFFICES ASSUME i <= Len(s) PROVE <<SubSeq(s, i, Len(s))>> \in Seq(Texts)
          OBVIOUS
        <4> DEFINE w == SubSeq(s, i, Len(s))
        <4>1. w \in Texts
          BY MatcherSteps
        <4> HIDE DEF w
        <4>2. <<w>> \in Seq(Texts)
          BY <4>1
        <4> QED
          BY <4>2 DEF w
      <3> DEFINE x == IF i <= Len(s) THEN <<SubSeq(s, i, Len(s))>> ELSE <<>>
      <3>3. x \in Seq(Texts)
        BY <3>1, <3>2
      <3>4. MatcherFrom(s, f, i) = [fragments |-> x, names |-> <<>>]
        BY <2>1, Zenon DEF MatcherFrom
      <3> HIDE DEF x
      <3> QED
        BY <3>1, <3>3, <3>4 DEF Matchers
    <2>2. CASE MarkerFrom(s, i) # 0
      <3> DEFINE k == EndOfName(s, i) + 1
                 w == SubSeq(s, i, MarkerFrom(s, i))
                 z == SubSeq(s, MarkerFrom(s, i) + 2, EndOfName(s, i) - 1)
                 r == f[k]
      <3>1. k \in i + 1 .. n /\ w \in Texts /\ z \in Texts
        BY <2>2, MatcherSteps
      <3>2. r \in Matchers
        BY <1>3, <3>1
      <3>3. MatcherFrom(s, f, i) =
              [fragments |-> <<w>> \o r.fragments, names |-> <<z>> \o r.names]
        BY <2>2, Zenon DEF MatcherFrom
      <3> HIDE DEF k, w, z
      <3> HIDE DEF r
      <3>5. r.fragments \in Seq(Texts) /\ r.names \in Seq(Texts)
        BY <3>2 DEF Matchers
      <3>6. <<w>> \o r.fragments \in Seq(Texts) /\ <<z>> \o r.names \in Seq(Texts)
        BY <3>1, <3>5, ElementBefore
      <3> QED
        BY <3>3, <3>6 DEF Matchers
    <2> QED
      BY <2>1, <2>2
  <1>4. ASSUME NEW i \in 1 .. n, NEW f \in F, NEW g \in F,
               \A j \in i + 1 .. n : f[j] = g[j]
        PROVE  MatcherFrom(s, f, i) = MatcherFrom(s, g, i)
    <2>1. CASE MarkerFrom(s, i) = 0
      BY <2>1, Zenon DEF MatcherFrom
    <2>2. CASE MarkerFrom(s, i) # 0
      <3>1. EndOfName(s, i) + 1 \in i + 1 .. n
        BY <2>2, MatcherSteps
      <3>2. f[EndOfName(s, i) + 1] = g[EndOfName(s, i) + 1]
        BY <1>4, <3>1
      <3> QED
        BY <2>2, <3>2, Zenon DEF MatcherFrom
    <2> QED
      BY <2>1, <2>2
  <1>5. \A i \in 1 .. n, f \in F : step[i][f] = MatcherFrom(s, f, i)
    BY Zenon
  <1>6. step \in [1 .. n -> [F -> V]]
    <2> SUFFICES ASSUME NEW i \in 1 .. n, NEW f \in F
                 PROVE  MatcherFrom(s, f, i) \in V
      BY Zenon
    <2>1. \A j \in i + 1 .. n : f[j] \in V
      BY <1>1
    <2> QED
      BY <1>3, <2>1
  <1> HIDE DEF step, n, V, F
  <1>7. LooksAhead(step, n, V)
    <2>1. ASSUME NEW i \in 1 .. n, NEW f \in F, NEW g \in F,
                 \A j \in i + 1 .. n : f[j] = g[j]
          PROVE  step[i][f] = step[i][g]
      <3>1. MatcherFrom(s, f, i) = MatcherFrom(s, g, i)
        BY <1>4, <2>1
      <3>2. /\ step[i][f] = MatcherFrom(s, f, i)
            /\ step[i][g] = MatcherFrom(s, g, i)
        BY <1>5
      <3> QED
        BY <3>1, <3>2, Zenon
    <2> QED
      BY <1>6, <2>1, Zenon DEF LooksAhead, F
  <1>8. PICK g \in F : \A i \in 1 .. n : g[i] = step[i][g]
    <2> HIDE DEF none
    <2>1. \E g : IsRecursion(g, step, n, V)
      BY <1>1, <1>2, <1>7, BackwardRecursion
    <2> QED
      BY <2>1, Zenon DEF F, IsRecursion
  <1>9. Fits(g)
    <2>1. g = [i \in 1 .. n |-> g[i]]
      BY DEF F
    <2> QED
      BY <1>5, <1>8, <2>1, Zenon
  <1>10. Fits(it)
    <2> HIDE DEF Fits
    <2> QED
      BY <1>9, Zenon
  <1>11. NewMatcher(s) = it[1]
    BY Zenon DEF NewMatcher, MatcherFrom, MarkerFrom, EndOfName, n
  <1> HIDE DEF it
  <1>12. \A i \in 1 .. n : it[i] = MatcherFrom(s, it, i)
    BY <1>10, Zenon
  <1>13. it \in F
    <2> DEFINE T == {k \in Nat : \A i \in 1 .. n : i + k > n => it[i] \in V}
    <2>1. 0 \in T
      BY <1>1
    <2>2. ASSUME NEW k \in Nat, k \in T
          PROVE  k + 1 \in T
      <3> SUFFICES ASSUME NEW i \in 1 .. n, i + (k + 1) > n
                   PROVE  it[i] \in V
        OBVIOUS
      <3>1. ASSUME NEW j \in i + 1 .. n
            PROVE  it[j] \in V
        BY <1>1, <2>2
      <3>2. MatcherFrom(s, it, i) \in V
        BY <1>3, <3>1
      <3> QED
        BY <1>12, <3>2
    <2>3. n \in T
      <3> HIDE DEF T
      <3> QED
        BY <1>1, <2>1, <2>2, NatSetInduction
    <2>4. \A i \in 1 .. n : it[i] \in V
      BY <1>1, <2>3
    <2>5. it = [i \in 1 .. n |-> it[i]]
      BY <1>10, <1>12, Zenon
    <2> QED
      BY <2>4, <2>5, Zenon DEF F
  <1> QED
    BY <1>11, <1>12, <1>13, Zenon DEF IsMatcher, n, F, V

\* The pieces as parts of the text, and the names of those that are free.
LEMMA CutPiece ==
  ASSUME NEW s \in Texts, NEW ps, NEW c, IsCut(c, s, ps), NEW i \in 1 .. Len(ps)
  PROVE  /\ SubSeq(s, c[i - 1] + 1, c[i] - 1) = ps[i]
         /\ IsFree(ps[i]) => SubSeq(s, c[i - 1] + 2, c[i] - 1) = Tail(ps[i])
  <1> DEFINE a == c[i - 1]
             b == c[i]
             p == ps[i]
  <1>1. /\ s \in Seq(Nat) /\ p \in Seq(Nat) /\ Len(s) \in Nat /\ Len(p) \in Nat
        /\ a \in Nat /\ b = a + Len(p) + 1 /\ b \in Nat
    BY CutIs DEF Texts
  <1>2. b \in 1 .. Len(s) + 1
    BY CutAt
  <1>3. \A k \in 1 .. Len(p) : s[a + k] = p[k]
    BY DEF IsCut
  <1> HIDE DEF a, b, p
  <1>4. SubSeq(s, a + 1, b - 1) = p
    <2> DEFINE q == SubSeq(s, a + 1, b - 1)
    <2>1. a + 1 \in 1 .. Len(s) + 1 /\ b - 1 \in (a + 1) - 1 .. Len(s)
      BY <1>1, <1>2
    <2>2. /\ q \in Seq(Nat) /\ Len(q) = (b - 1) - (a + 1) + 1
          /\ \A k \in 1 .. (b - 1) - (a + 1) + 1 : q[k] = s[(a + 1) + k - 1]
      BY <1>1, <2>1, PieceOf, Zenon
    <2>3. (b - 1) - (a + 1) + 1 = Len(p) /\ \A k \in 1 .. Len(p) : (a + 1) + k - 1 = a + k
      BY <1>1
    <2> HIDE DEF q
    <2>4. Len(q) = Len(p) /\ \A k \in 1 .. Len(q) : q[k] = p[k]
      BY <1>3, <2>2, <2>3
    <2>5. q = p
      BY <1>1, <2>2, <2>4, SeqEqual, Zenon
    <2> QED
      BY <2>5 DEF q
  <1>5. ASSUME p # <<>>
        PROVE  SubSeq(s, a + 2, b - 1) = Tail(p)
    <2> DEFINE q == SubSeq(s, a + 2, b - 1)
               t == Tail(p)
    <2>1. Len(p) # 0
      BY <1>1, <1>5, EmptySeq
    <2>2. a + 2 \in 1 .. Len(s) + 1 /\ b - 1 \in (a + 2) - 1 .. Len(s)
      BY <1>1, <1>2, <2>1
    <2>3. /\ q \in Seq(Nat) /\ Len(q) = (b - 1) - (a + 2) + 1
          /\ \A k \in 1 .. (b - 1) - (a + 2) + 1 : q[k] = s[(a + 2) + k - 1]
      BY <1>1, <2>2, PieceOf, Zenon
    <2>4. /\ t \in Seq(Nat) /\ Len(t) = Len(p) - 1
          /\ \A k \in 1 .. Len(t) : t[k] = p[k + 1]
      BY <1>1, <1>5, <2>1, HeadTailProperties
    <2>5. (b - 1) - (a + 2) + 1 = Len(p) - 1 /\ Len(p) - 1 \in Nat
      BY <1>1, <2>1
    <2> HIDE DEF q, t
    <2>6. ASSUME NEW k \in 1 .. Len(q)
          PROVE  q[k] = t[k]
      <3>1. k \in 1 .. Len(p) - 1 /\ k + 1 \in 1 .. Len(p) /\ (a + 2) + k - 1 = a + (k + 1)
        BY <1>1, <2>3, <2>5
      <3>2. q[k] = s[a + (k + 1)]
        BY <2>3, <2>5, <3>1, Zenon
      <3>3. t[k] = p[k + 1]
        BY <2>4, <2>5, <3>1, Zenon
      <3> QED
        BY <1>3, <3>1, <3>2, <3>3
    <2>7. q = t
      BY <2>3, <2>4, <2>5, <2>6, SeqEqual, Zenon
    <2> QED
      BY <2>7, Zenon DEF q, t
  <1> QED
    BY <1>4, <1>5, Zenon DEF a, b, p, IsFree

\* The pieces that are free, one after the other, behind the j-th; and what
\* the matcher m has of them.
AreFree(e, k, ps, j) ==
  /\ k \in Nat /\ e \in [0 .. k -> 0 .. Len(ps)] /\ e[0] = j
  /\ \A i \in 1 .. k : /\ e[i - 1] < e[i] /\ IsFree(ps[e[i]])
                       /\ Plain(ps, e[i - 1], e[i] - 1)
  /\ Plain(ps, e[k], Len(ps))
Matches(m, e, k, c, s, ps) ==
  /\ m \in Matchers /\ Len(m.names) = k
  /\ \A i \in 1 .. k : m.names[i] = Tail(ps[e[i]])
  /\ Len(m.fragments) = IF c[e[k]] + 1 <= Len(s) THEN k + 1 ELSE k
  /\ \A i \in 1 .. k : m.fragments[i] = SubSeq(s, c[e[i - 1]] + 1, c[e[i] - 1])
  /\ c[e[k]] + 1 <= Len(s) => m.fragments[k + 1] = SubSeq(s, c[e[k]] + 1, Len(s))
HasChain(m, c, s, ps, j) ==
  \E e : AreFree(e, Len(m.names), ps, j) /\ Matches(m, e, Len(m.names), c, s, ps)

\* The last matcher, without names.
LEMMA ChainEnds ==
  ASSUME NEW s \in Texts, NEW ps, NEW c, IsCut(c, s, ps), ~IsFree(ps[1]),
         NEW f, IsMatcher(f, s), NEW j \in 0 .. Len(ps), Plain(ps, j, Len(ps))
  PROVE  HasChain(f[c[j] + 1], c, s, ps, j)
  <1> DEFINE i == c[j] + 1
             m == f[i]
             e == [q \in 0 .. 0 |-> j]
             w == SubSeq(s, i, Len(s))
  <1>1. /\ Len(s) \in Nat /\ Len(ps) \in Nat \ {0} /\ c[j] \in Nat
        /\ c[0] = 0
    BY CutIs
  <1>2. c[j] <= Len(s) + 1 /\ (j # 0 => c[j] # 0) /\ (j = 0 => c[j] = 0)
    <2>1. j # 0 => j \in 1 .. Len(ps)
      BY <1>1
    <2>2. j # 0 => c[j] \in 1 .. Len(s) + 1
      BY <2>1, CutAt
    <2> QED
      BY <1>1, <2>2
  <1>3. i \in 1 .. Len(s) + 2
    BY <1>1, <1>2
  <1>4. MarkerFrom(s, i) = Marker(s, SearchFrom(c, j))
    BY <1>1, <1>2 DEF MarkerFrom, SearchFrom
  <1>5. MarkerFrom(s, i) = 0
    BY <1>4, MarkerIs
  <1>6. m = [fragments |-> IF i <= Len(s) THEN <<w>> ELSE <<>>, names |-> <<>>]
    <2>1. m = MatcherFrom(s, f, i)
      BY <1>3 DEF IsMatcher
    <2> QED
      BY <1>5, <2>1, Zenon DEF MatcherFrom
  <1>7. m \in Matchers
    BY <1>3 DEF IsMatcher
  <1> HIDE DEF i, m, w
  <1>8. m.names = <<>> /\ Len(m.names) = 0 /\ m.fragments = IF i <= Len(s) THEN <<w>> ELSE <<>>
    BY <1>6
  <1>9. e[0] = j /\ e \in [0 .. 0 -> 0 .. Len(ps)]
    OBVIOUS
  <1> HIDE DEF e
  <1>10. AreFree(e, 0, ps, j)
    BY <1>9 DEF AreFree
  <1>11. Matches(m, e, 0, c, s, ps)
    <2>1. Len(m.fragments) = IF i <= Len(s) THEN 1 ELSE 0
      BY <1>8
    <2>2. i <= Len(s) => m.fragments[1] = w
      BY <1>8
    <2>3. \A q \in 1 .. 0 : FALSE
      OBVIOUS
    <2>4. Len(m.fragments) = IF i <= Len(s) THEN 0 + 1 ELSE 0
      BY <2>1
    <2> QED
      BY <1>7, <1>8, <1>9, <2>2, <2>3, <2>4, Zenon DEF Matches, i, w
  <1> QED
    BY <1>8, <1>10, <1>11 DEF HasChain, m, i

\* The matcher for one more name.
LEMMA ChainGrows ==
  ASSUME NEW s \in Texts, NEW ps, NEW c, IsCut(c, s, ps), ~IsFree(ps[1]),
         NEW f, IsMatcher(f, s), NEW j \in 0 .. Len(ps), NEW g \in j + 1 .. Len(ps),
         IsFree(ps[g]), Plain(ps, j, g - 1), HasChain(f[c[g] + 1], c, s, ps, g)
  PROVE  HasChain(f[c[j] + 1], c, s, ps, j)
  <1> DEFINE i == c[j] + 1
             m == f[i]
             h == f[c[g] + 1]
             n == Len(ps)
             w == SubSeq(s, i, c[g - 1])
             z == Tail(ps[g])
             k == Len(h.names)
  <1>1. /\ Len(s) \in Nat /\ n \in Nat \ {0} /\ c[j] \in Nat
        /\ c[0] = 0 /\ j \in Nat /\ j <= n
    BY CutIs
  <1>2. g \in 1 .. n /\ g \in 0 .. n /\ j < g /\ g \in Nat \ {0} /\ g - 1 \in 0 .. n
    BY <1>1
  <1>3. /\ ps[g] \in Texts /\ Len(ps[g]) \in Nat \ {0}
        /\ c[g - 1] \in Nat /\ c[g] = c[g - 1] + Len(ps[g]) + 1
    <2>1. /\ ps[g] \in Seq(Nat) /\ Len(ps[g]) \in Nat
          /\ c[g - 1] \in Nat /\ c[g] = c[g - 1] + Len(ps[g]) + 1
      BY <1>2, CutIs DEF Texts
    <2>2. Len(ps[g]) # 0
      BY <2>1, EmptySeq DEF IsFree
    <2> QED
      BY <2>1, <2>2 DEF Texts
  <1>4. c[j] <= Len(s) + 1 /\ (j # 0 => c[j] # 0) /\ (j = 0 => c[j] = 0)
    <2>1. j # 0 => j \in 1 .. Len(ps)
      BY <1>1
    <2>2. j # 0 => c[j] \in 1 .. Len(s) + 1
      BY <2>1, CutAt
    <2> QED
      BY <1>1, <2>2
  <1>5. i \in 1 .. Len(s) + 2 /\ c[g] + 1 \in 1 .. Len(s) + 2
    <2>1. c[g] \in 1 .. Len(s) + 1
      BY <1>2, CutAt
    <2> QED
      BY <1>1, <1>4, <2>1, SMTT(20)
  <1>6. MarkerFrom(s, i) = Marker(s, SearchFrom(c, j))
    BY <1>1, <1>4 DEF MarkerFrom, SearchFrom
  <1>7. MarkerFrom(s, i) = c[g - 1]
    BY <1>6, MarkerIs
  <1>8. EndOfName(s, i) = c[g]
    <2>1. c[g - 1] + 2 \in c[g - 1] + 1 .. c[g]
      BY <1>3
    <2>2. Separator(s, c[g - 1] + 2) = c[g]
      BY <1>2, <2>1, SeparatorIs
    <2> QED
      BY <1>7, <2>2, Zenon DEF EndOfName
  <1>9. c[g - 1] # 0
    <2>1. g # 1
      BY <1>1
    <2>2. g - 1 \in 1 .. n
      BY <1>2, <2>1
    <2>3. c[g - 1] \in 1 .. Len(s) + 1
      BY <2>2, CutAt, Zenon
    <2> QED
      BY <2>3
  <1>10. m = [fragments |-> <<w>> \o h.fragments, names |-> <<z>> \o h.names]
    <2>1. m = MatcherFrom(s, f, i)
      BY <1>5 DEF IsMatcher
    <2>2. SubSeq(s, c[g - 1] + 2, c[g] - 1) = z
      BY <1>2, CutPiece, ZenonT(30)
    <2>3. m = [fragments |-> <<SubSeq(s, i, MarkerFrom(s, i))>>
                               \o f[EndOfName(s, i) + 1].fragments,
               names |-> <<SubSeq(s, MarkerFrom(s, i) + 2, EndOfName(s, i) - 1)>>
                           \o f[EndOfName(s, i) + 1].names]
      BY <1>7, <1>9, <2>1, Zenon DEF MatcherFrom
    <2> QED
      BY <1>7, <1>8, <2>2, <2>3, Zenon
  <1>11. m \in Matchers /\ h \in Matchers
    BY <1>5 DEF IsMatcher
  <1>12. w \in Texts /\ z \in Texts
    <2>1. w \in Texts
      BY <1>5, <1>7, <1>9, MatcherSteps
    <2>2. ps[g] \in Seq(Nat) /\ ps[g] # <<>>
      BY <1>3 DEF Texts, IsFree
    <2>3. z \in Texts
      BY <2>2, HeadTailProperties DEF Texts
    <2> QED
      BY <2>1, <2>3
  <1>13. PICK d : AreFree(d, k, ps, g) /\ Matches(h, d, k, c, s, ps)
    BY DEF HasChain
  <1> HIDE DEF i, m, h, w, z, k
  <1>14. /\ m.fragments = <<w>> \o h.fragments /\ m.names = <<z>> \o h.names
         /\ h.fragments \in Seq(Texts) /\ h.names \in Seq(Texts) /\ k \in Nat
    BY <1>10, <1>11, <1>13, Zenon DEF Matchers, AreFree
  <1>15. /\ Len(m.fragments) = Len(h.fragments) + 1 /\ m.fragments[1] = w
         /\ \A q \in 1 .. Len(h.fragments) : m.fragments[q + 1] = h.fragments[q]
         /\ Len(m.names) = Len(h.names) + 1 /\ m.names[1] = z
         /\ \A q \in 1 .. Len(h.names) : m.names[q + 1] = h.names[q]
         /\ Len(h.fragments) \in Nat
    <2>1. ASSUME NEW x \in Texts, NEW y \in Seq(Texts)
          PROVE  /\ Len(<<x>> \o y) = Len(y) + 1 /\ (<<x>> \o y)[1] = x
                 /\ \A q \in 1 .. Len(y) : (<<x>> \o y)[q + 1] = y[q]
      <3> DEFINE v == <<x>>
                 u == v \o y
      <3>1. v \in Seq(Texts) /\ Len(v) = 1 /\ v[1] = x /\ Len(y) \in Nat
        BY LenProperties
      <3> HIDE DEF v
      <3>2. /\ u \in Seq(Texts) /\ Len(u) = Len(v) + Len(y)
            /\ \A q \in 1 .. Len(v) + Len(y) :
                 u[q] = IF q <= Len(v) THEN v[q] ELSE y[q - Len(v)]
        BY <3>1, ConcatProperties, Zenon
      <3> HIDE DEF u
      <3>3. /\ Len(u) = Len(y) + 1 /\ u[1] = x
            /\ \A q \in 1 .. Len(y) : u[q + 1] = y[q]
        BY <3>1, <3>2
      <3> QED
        BY <3>3 DEF u, v
    <2> QED
      BY <1>12, <1>14, <2>1, LenProperties
  <1> DEFINE e == [q \in 0 .. k + 1 |-> IF q = 0 THEN j ELSE d[q - 1]]
  <1>16. /\ k = Len(h.names) /\ d \in [0 .. k -> 0 .. n] /\ d[0] = g
         /\ \A q \in 1 .. k : /\ d[q - 1] < d[q] /\ IsFree(ps[d[q]])
                              /\ Plain(ps, d[q - 1], d[q] - 1)
         /\ Plain(ps, d[k], n)
    BY <1>13 DEF AreFree, k
  <1>17. /\ e \in [0 .. k + 1 -> 0 .. n] /\ e[0] = j
         /\ \A q \in 1 .. k + 1 : e[q] = d[q - 1]
    BY <1>1, <1>14, <1>16
  <1> HIDE DEF e
  <1>18. ASSUME NEW q \in 1 .. k + 1
         PROVE  \/ q = 1 /\ e[q - 1] = j /\ e[q] = g
                \/ q > 1 /\ q - 1 \in 1 .. k /\ e[q - 1] = d[(q - 1) - 1] /\ e[q] = d[q - 1]
    <2>1. CASE q = 1
      BY <1>14, <1>16, <1>17, <2>1
    <2>2. CASE q # 1
      <3>1. q > 1 /\ q - 1 \in 1 .. k /\ q - 1 \in 1 .. k + 1
        BY <1>14, <2>2
      <3> QED
        BY <1>17, <3>1
    <2> QED
      BY <2>1, <2>2
  <1>19. AreFree(e, k + 1, ps, j)
    <2>1. ASSUME NEW q \in 1 .. k + 1
          PROVE  /\ e[q - 1] < e[q] /\ IsFree(ps[e[q]])
                 /\ Plain(ps, e[q - 1], e[q] - 1)
      <3>1. CASE q = 1
        BY <1>2, <1>18, <3>1
      <3>2. CASE q # 1
        BY <1>16, <1>18, <3>2, Zenon
      <3> QED
        BY <3>1, <3>2
    <2>2. Plain(ps, e[k + 1], n) /\ k + 1 \in Nat
      <3>1. e[k + 1] = d[k] /\ k + 1 \in Nat
        BY <1>14, <1>17
      <3> QED
        BY <1>16, <3>1
    <2> QED
      BY <1>17, <2>1, <2>2 DEF AreFree
  <1>20. Matches(m, e, k + 1, c, s, ps)
    <2>1. /\ \A q \in 1 .. k : h.names[q] = Tail(ps[d[q]])
          /\ Len(h.fragments) = IF c[d[k]] + 1 <= Len(s) THEN k + 1 ELSE k
          /\ \A q \in 1 .. k : h.fragments[q] = SubSeq(s, c[d[q - 1]] + 1, c[d[q] - 1])
          /\ c[d[k]] + 1 <= Len(s) => h.fragments[k + 1] = SubSeq(s, c[d[k]] + 1, Len(s))
      BY <1>13, Zenon DEF Matches
    <2>2. e[k + 1] = d[k]
      BY <1>14, <1>17
    <2>3. Len(m.names) = k + 1
      BY <1>15, <1>16
    <2>4. ASSUME NEW q \in 1 .. k + 1
          PROVE  m.names[q] = Tail(ps[e[q]])
      <3>1. CASE q = 1
        BY <1>15, <1>18, <3>1 DEF z
      <3>2. CASE q # 1
        <4>1. q - 1 \in 1 .. k /\ (q - 1) + 1 = q /\ e[q] = d[q - 1]
          BY <1>18, <3>2
        <4>2. m.names[(q - 1) + 1] = h.names[q - 1]
          BY <1>15, <1>16, <4>1
        <4> QED
          BY <2>1, <4>1, <4>2, Zenon
      <3> QED
        BY <3>1, <3>2
    <2>5. ASSUME NEW q \in 1 .. k + 1
          PROVE  m.fragments[q] = SubSeq(s, c[e[q - 1]] + 1, c[e[q] - 1])
      <3>1. CASE q = 1
        <4>1. e[q - 1] = j /\ e[q] = g
          BY <1>18, <3>1
        <4>2. m.fragments[q] = w
          BY <1>15, <3>1
        <4> QED
          BY <4>1, <4>2, Zenon DEF w, i
      <3>2. CASE q # 1
        <4>1. q - 1 \in 1 .. k /\ (q - 1) + 1 = q /\ e[q] = d[q - 1]
              /\ e[q - 1] = d[(q - 1) - 1]
          BY <1>18, <3>2
        <4>2. q - 1 \in 1 .. Len(h.fragments)
          BY <1>14, <2>1, <4>1
        <4>3. m.fragments[(q - 1) + 1] = h.fragments[q - 1]
          BY <1>15, <4>2
        <4> QED
          BY <2>1, <4>1, <4>3, Zenon
      <3> QED
        BY <3>1, <3>2
    <2>6. /\ Len(m.fragments) = IF c[e[k + 1]] + 1 <= Len(s) THEN (k + 1) + 1 ELSE k + 1
          /\ c[e[k + 1]] + 1 <= Len(s) =>
               m.fragments[(k + 1) + 1] = SubSeq(s, c[e[k + 1]] + 1, Len(s))
      <3>1. CASE c[d[k]] + 1 <= Len(s)
        <4>1. Len(h.fragments) = k + 1 /\ k + 1 \in 1 .. Len(h.fragments)
          BY <1>14, <2>1, <3>1, SMTT(20)
        <4> QED
          BY <1>15, <2>1, <2>2, <3>1, <4>1, Zenon
      <3>2. CASE ~(c[d[k]] + 1 <= Len(s))
        BY <1>15, <2>1, <2>2, <3>2
      <3> QED
        BY <3>1, <3>2
    <2> QED
      BY <1>11, <2>3, <2>4, <2>5, <2>6, Zenon DEF Matches
  <1>21. Len(m.names) = k + 1
    BY <1>15, <1>16
  <1> QED
    BY <1>19, <1>20, <1>21 DEF HasChain, m, i

\* What the constructor makes of a pattern.
LEMMA MatcherIs ==
  ASSUME NEW s \in Texts, NEW ps, NEW c, IsCut(c, s, ps), ~IsFree(ps[1])
  PROVE  HasChain(NewMatcher(s), c, s, ps, 0)
  <1>1. PICK f : NewMatcher(s) = f[1] /\ IsMatcher(f, s)
    BY MatcherUnfolds
  <1> DEFINE n == Len(ps)
             Holds(j) == HasChain(f[c[j] + 1], c, s, ps, j)
             T == {k \in Nat : \A j \in 0 .. n : j + k >= n => Holds(j)}
  <1>2. n \in Nat /\ c[0] = 0
    BY CutIs
  <1>3. ASSUME NEW j \in 0 .. n, Plain(ps, j, n)
        PROVE  Holds(j)
    BY <1>1, <1>3, ChainEnds
  <1>4. ASSUME NEW j \in 0 .. n, NEW g \in j + 1 .. n, IsFree(ps[g]), Plain(ps, j, g - 1),
               Holds(g)
        PROVE  Holds(j)
    BY <1>1, <1>4, ChainGrows
  <1> HIDE DEF n, Holds
  <1>5. 0 \in T
    <2> SUFFICES ASSUME NEW j \in 0 .. n, j + 0 >= n PROVE Holds(j)
      OBVIOUS
    <2>1. Plain(ps, j, n)
      BY <1>2 DEF Plain
    <2> QED
      BY <1>3, <2>1
  <1>6. ASSUME NEW k \in Nat, k \in T
        PROVE  k + 1 \in T
    <2> SUFFICES ASSUME NEW j \in 0 .. n, j + (k + 1) >= n PROVE Holds(j)
      OBVIOUS
    <2>1. CASE Plain(ps, j, n)
      BY <1>3, <2>1
    <2>2. CASE ~Plain(ps, j, n)
      <3> DEFINE F == {g \in j + 1 .. n : IsFree(ps[g])}
      <3>1. F \in SUBSET Nat /\ F # {}
        BY <1>2, <2>2 DEF Plain
      <3>2. PICK g \in F : \A h \in F : g <= h
        BY <3>1, LeastNumber, Zenon
      <3>3. g \in j + 1 .. n /\ IsFree(ps[g]) /\ g \in Nat /\ j \in Nat
        BY <1>2
      <3>4. Plain(ps, j, g - 1)
        <4> SUFFICES ASSUME NEW q \in j + 1 .. g - 1, IsFree(ps[q]) PROVE FALSE
          BY DEF Plain
        <4>1. q \in F /\ q < g
          BY <1>2, <3>3
        <4>2. g <= q /\ q \in Nat
          BY <3>1, <3>2, <4>1
        <4> QED
          BY <3>3, <4>1, <4>2
      <3>5. Holds(g)
        <4>1. g \in 0 .. n /\ g + k >= n
          BY <1>2, <3>3
        <4> QED
          BY <1>6, <4>1
      <3> QED
        BY <1>4, <3>3, <3>4, <3>5
    <2> QED
      BY <2>1, <2>2
  <1>7. n \in T
    <2> HIDE DEF T
    <2> QED
      BY <1>2, <1>5, <1>6, NatSetInduction
  <1>8. Holds(0)
    BY <1>2, <1>7
  <1>9. c[0] + 1 = 1
    BY <1>2
  <1> QED
    BY <1>1, <1>8, <1>9 DEF Holds

\* The loop of match, fragment by fragment.
MatchStep(m, path, a, i) ==
  LET f == m.fragments[i]
      at == a.pos + Len(f)
      sep == Separator(path, at + 1)
  IN  IF ~a.ok \/ at > Len(path) \/ SubSeq(path, a.pos + 1, at) # f
        THEN [a EXCEPT !.ok = FALSE]
      ELSE IF i > Len(m.names) THEN [a EXCEPT !.pos = at]
      ELSE [a EXCEPT !.pos = sep, !.params =
              Emplaced(@, m.names[i], SubSeq(path, at + 1, sep - 1))]
Unmatched == [ok |-> TRUE, pos |-> 0, params |-> NoPathParams]
PathParams == UNION {[names -> Texts] : names \in SUBSET Texts}
Matchings == [ok : BOOLEAN, pos : Nat, params : PathParams]
IsMatching(r, m, path) ==
  /\ r \in [0 .. Len(m.fragments) -> Matchings]
  /\ r[0] = Unmatched
  /\ \A i \in 1 .. Len(m.fragments) : r[i] = MatchStep(m, path, r[i - 1], i)
Matched(m, path, is) ==
  FoldLeft(LAMBDA a, i : MatchStep(m, path, a, i), Unmatched, is)

\* A parameter that is put into a map of them.
LEMMA EmplacedIs ==
  ASSUME NEW p \in PathParams, NEW n \in Texts, NEW y \in Texts
  PROVE  /\ Emplaced(p, n, y) \in PathParams
         /\ DOMAIN Emplaced(p, n, y) = DOMAIN p \cup {n}
         /\ \A k \in DOMAIN p : Emplaced(p, n, y)[k] = p[k]
         /\ n \notin DOMAIN p => Emplaced(p, n, y)[n] = y
  <1>1. PICK names \in SUBSET Texts : p \in [names -> Texts]
    BY DEF PathParams
  <1> DEFINE D == names \cup {n}
             q == [k \in D |-> IF k \in names THEN p[k] ELSE y]
  <1>2. Emplaced(p, n, y) = q /\ DOMAIN p = names
    BY <1>1 DEF Emplaced
  <1>3. q \in [D -> Texts] /\ D \in SUBSET Texts
    BY <1>1
  <1>4. q \in PathParams
    <2> HIDE DEF q, D
    <2> QED
      BY <1>3 DEF PathParams
  <1> QED
    BY <1>2, <1>3, <1>4

\* What one fragment does.
LEMMA MatchStepIs ==
  ASSUME NEW m \in Matchers, NEW path \in Texts, NEW a \in Matchings,
         NEW i \in 1 .. Len(m.fragments)
  PROVE  LET f == m.fragments[i]
             at == a.pos + Len(f)
             sep == Separator(path, at + 1)
             fits == a.ok /\ at <= Len(path) /\ SubSeq(path, a.pos + 1, at) = f
             b == MatchStep(m, path, a, i)
         IN  /\ b \in Matchings
             /\ ~fits => ~b.ok
             /\ fits /\ i > Len(m.names) => b.ok /\ b.pos = at /\ b.params = a.params
             /\ fits /\ i <= Len(m.names) =>
                  /\ b.ok /\ b.pos = sep
                  /\ b.params = Emplaced(a.params, m.names[i], SubSeq(path, at + 1, sep - 1))
  <1> DEFINE f == m.fragments[i]
             at == a.pos + Len(f)
             sep == Separator(path, at + 1)
             fits == a.ok /\ at <= Len(path) /\ SubSeq(path, a.pos + 1, at) = f
             b == MatchStep(m, path, a, i)
             name == m.names[i]
             x == SubSeq(path, at + 1, sep - 1)
             P == PathParams
  <1>1. /\ m.fragments \in Seq(Texts) /\ m.names \in Seq(Texts) /\ Len(m.names) \in Nat
        /\ Len(m.fragments) \in Nat /\ i \in Nat \ {0}
    BY LenProperties DEF Matchers
  <1>2. f \in Seq(Nat) /\ Len(f) \in Nat
    <2>1. f \in Texts
      BY <1>1, ElementOfSeq
    <2> QED
      BY <2>1, LenProperties DEF Texts
  <1>3. a.ok \in BOOLEAN /\ a.pos \in Nat /\ a.params \in P
        /\ a = [ok |-> a.ok, pos |-> a.pos, params |-> a.params]
    BY DEF Matchings
  <1>4. path \in Seq(Nat) /\ Len(path) \in Nat
    BY LenProperties DEF Texts
  <1>5. at \in Nat
    <2>1. a.pos \in Nat /\ Len(f) \in Nat
      BY <1>2, <1>3, Zenon
    <2> HIDE DEF f
    <2> QED
      BY <2>1
  <1> DEFINE no == ~a.ok \/ at > Len(path) \/ SubSeq(path, a.pos + 1, at) # f
  <1>6. no <=> ~fits
    BY <1>4, <1>5
  <1>7. b = IF no THEN [a EXCEPT !.ok = FALSE]
            ELSE IF i > Len(m.names) THEN [a EXCEPT !.pos = at]
            ELSE [a EXCEPT !.pos = sep, !.params = Emplaced(@, name, x)]
    BY Zenon DEF MatchStep
  <1> HIDE DEF b, P
  <1>8. CASE ~fits
    <2>1. b = [a EXCEPT !.ok = FALSE]
      <3> HIDE DEF no, fits
      <3> QED
        BY <1>6, <1>7, <1>8
    <2> HIDE DEF fits
    <2>2. b = [ok |-> FALSE, pos |-> a.pos, params |-> a.params]
      BY <1>3, <2>1, Zenon
    <2>3. b \in Matchings /\ ~b.ok
      BY <1>3, <2>2 DEF Matchings, P
    <2> QED
      BY <1>8, <2>3 DEF b, fits
  <1>9. CASE fits /\ i > Len(m.names)
    <2>1. b = [a EXCEPT !.pos = at]
      <3> HIDE DEF no, fits, at
      <3> QED
        BY <1>6, <1>7, <1>9
    <2> HIDE DEF fits, at
    <2>2. b = [ok |-> a.ok, pos |-> at, params |-> a.params]
      BY <1>3, <2>1
    <2>3. b \in Matchings /\ b.ok = a.ok /\ b.pos = at /\ b.params = a.params
      BY <1>3, <1>5, <2>2 DEF Matchings, P
    <2>4. a.ok /\ ~(i <= Len(m.names))
      BY <1>1, <1>9 DEF fits
    <2> QED
      BY <1>9, <2>3, <2>4 DEF b, fits, at
  <1>10. CASE fits /\ ~(i > Len(m.names))
    <2>1. b = [a EXCEPT !.pos = sep, !.params = Emplaced(@, name, x)]
      <3> HIDE DEF no, fits, at, sep, name, x
      <3> QED
        BY <1>6, <1>7, <1>10
    <2>2. a.ok /\ at <= Len(path) /\ i <= Len(m.names)
      BY <1>1, <1>10
    <2>3. at + 1 \in 1 .. Len(path) + 1
      BY <1>4, <1>5, <2>2
    <2>4. sep \in at + 1 .. Len(path) + 1
      BY <2>3, SeparatorRange
    <2> HIDE DEF sep
    <2>5. sep \in Nat /\ sep - 1 \in (at + 1) - 1 .. Len(path)
      BY <1>4, <1>5, <2>4
    <2>6. x \in Texts /\ name \in Texts
      <3>1. SubSeq(path, at + 1, sep - 1) \in Texts
        <4> HIDE DEF at
        <4> QED
          BY <1>4, <2>3, <2>5, PieceOf, Zenon DEF Texts
      <3>2. m.names[i] \in Texts
        BY <1>1, <2>2, ElementOfSeq
      <3> QED
        BY <3>1, <3>2, Zenon
    <2> HIDE DEF name, x
    <2>7. Emplaced(a.params, name, x) \in P
      BY <1>3, <2>6, EmplacedIs DEF P
    <2> DEFINE y == Emplaced(a.params, name, x)
    <2>8. b = [ok |-> a.ok, pos |-> sep, params |-> y]
      BY <1>3, <2>1, Zenon
    <2>9. b.ok = a.ok /\ b.pos = sep /\ b.params = y
      <3> HIDE DEF y
      <3> QED
        BY <2>8
    <2>10. b \in Matchings
      <3> HIDE DEF y
      <3> QED
        BY <1>3, <2>5, <2>7, <2>8 DEF Matchings, P, y
    <2> QED
      BY <1>1, <1>10, <2>2, <2>9, <2>10, Zenon DEF b, fits, at, sep, name, x
  <1> QED
    BY <1>8, <1>9, <1>10, Zenon

\* The fold of match, as the states between its fragments.
LEMMA MatchingIs ==
  ASSUME NEW m \in Matchers, NEW path \in Texts
  PROVE  \E r : /\ IsMatching(r, m, path)
                /\ MatchPath(m, path) =
                     [ok |-> r[Len(m.fragments)].ok /\ r[Len(m.fragments)].pos >= Len(path),
                      params |-> r[Len(m.fragments)].params]
  <1> DEFINE n == Len(m.fragments)
             N == 1 .. n
             V == Matchings
             none == Unmatched
             s == [i \in DOMAIN m.fragments |-> i]
             step == [i \in N |-> [v \in V |-> MatchStep(m, path, v, i)]]
  <1>1. n \in Nat /\ DOMAIN m.fragments = N
    BY LenProperties DEF Matchers
  <1>2. s \in Seq(N) /\ Len(s) = n /\ DOMAIN s = N /\ \A i \in N : s[i] = i
    BY <1>1
  <1>3. none \in V
    <2>1. NoPathParams \in [{} -> Texts]
      BY DEF NoPathParams
    <2>2. NoPathParams \in PathParams
      BY <2>1 DEF PathParams
    <2> QED
      BY <2>2 DEF Unmatched, Matchings
  <1>4. \A v \in V, i \in N : MatchStep(m, path, v, i) \in V
    BY MatchStepIs
  <1> HIDE DEF V, none, N
  <1>5. step \in [N -> [V -> V]]
    BY <1>4
  <1>6. \A i \in N, v \in V : step[i][v] = MatchStep(m, path, v, i)
    OBVIOUS
  <1> HIDE DEF step
  <1> DEFINE last == Matched(m, path, s)
  <1>7. last = Folded(s, V, none, step)
    <2> DEFINE Fold(g) == g = [u \in SUBSET DOMAIN s |->
                                IF u = {} THEN none
                                ELSE MatchStep(m, path, g[u \ {Max(u)}], s[Max(u)])]
               it == CHOOSE g : Fold(g)
    <2>1. last = it[DOMAIN s]
      BY Zenon DEF Matched, FoldLeft, MapThenFoldSet, none
    <2> HIDE DEF s, last
    <2>2. PICK g \in [SUBSET DOMAIN s -> V] : IsSetFold(g, s, none, step)
      BY <1>2, <1>3, <1>5, SetFoldExists, Zenon
    <2>3. ASSUME NEW u \in SUBSET DOMAIN s, u # {}
          PROVE  s[Max(u)] \in N
      <3>1. u \in SUBSET (1 .. n)
        BY <1>2 DEF N
      <3>2. Max(u) \in 1 .. n
        BY <1>1, <2>3, <3>1, MaxOfSubset, Zenon
      <3> QED
        BY <1>2, <3>2 DEF N
    <2>4. ASSUME NEW u \in SUBSET DOMAIN s
          PROVE  g[u] = IF u = {} THEN none ELSE MatchStep(m, path, g[u \ {Max(u)}], s[Max(u)])
      <3>1. u # {} => g[u] = step[s[Max(u)]][g[u \ {Max(u)}]]
        BY <2>2 DEF IsSetFold
      <3>2. g[{}] = none /\ g[u \ {Max(u)}] \in V
        BY <2>2 DEF IsSetFold
      <3> QED
        BY <1>6, <2>3, <3>1, <3>2, Zenon
    <2>5. Fold(g)
      <3>1. g = [u \in SUBSET DOMAIN s |-> g[u]]
        OBVIOUS
      <3> QED
        BY <2>4, <3>1, Zenon
    <2>6. Fold(it)
      <3> HIDE DEF Fold
      <3> QED
        BY <2>5, Zenon
    <2>7. \A u \in SUBSET DOMAIN s :
            it[u] = IF u = {} THEN none ELSE MatchStep(m, path, it[u \ {Max(u)}], s[Max(u)])
      <3> HIDE DEF it
      <3> QED
        BY <2>6, Zenon
    <2> HIDE DEF it
    <2>8. FitsFold(it, s, V, none, step)
      BY <1>6, <2>3, <2>7, Zenon DEF FitsFold
    <2>9. it[DOMAIN s] = Folded(s, V, none, step)
      <3>1. s \in Seq(N) /\ none \in V
        BY <1>2, <1>3
      <3> HIDE DEF it
      <3> QED
        BY <1>5, <2>8, <3>1, SetFoldIs
    <2> QED
      BY <2>1, <2>9, Zenon
  <1>8. PICK r : IsFolding(r, s, V, none, step)
    BY <1>2, <1>3, <1>5, FoldingExists, Zenon
  <1>9. last = r[n]
    BY <1>2, <1>3, <1>5, <1>7, <1>8, FoldingIs
  <1>10. MatchPath(m, path) = [ok |-> last.ok /\ last.pos >= Len(path), params |-> last.params]
    BY Zenon DEF MatchPath, Matched, MatchStep, Unmatched
  <1> HIDE DEF last, s
  <1>11. IsMatching(r, m, path)
    <2>1. r \in [0 .. n -> V] /\ r[0] = none
      BY <1>2, <1>8 DEF IsFolding
    <2>2. ASSUME NEW i \in 1 .. n
          PROVE  r[i] = MatchStep(m, path, r[i - 1], i)
      <3>1. i \in N /\ s[i] = i /\ i - 1 \in 0 .. n
        BY <1>1, <1>2 DEF N
      <3>2. r[i] = step[s[i]][r[i - 1]]
        BY <1>2, <1>8, <3>1 DEF IsFolding, N
      <3>3. r[i - 1] \in V
        BY <2>1, <3>1
      <3> QED
        BY <1>6, <3>1, <3>2, <3>3
    <2> QED
      BY <2>1, <2>2 DEF IsMatching, V, none
  <1> QED
    BY <1>9, <1>10, <1>11 DEF n

\* n bytes of t, behind the a-th, are those of s behind the b-th.
SameBytes(t, a, s, b, n) == \A k \in 1 .. n : t[a + k] = s[b + k]

\* Two pieces are equal if their bytes are.
LEMMA SubSeqSame ==
  ASSUME NEW t \in Texts, NEW s \in Texts, NEW a \in Nat, NEW b \in Nat, NEW n \in Nat,
         a + n <= Len(t), b + n <= Len(s)
  PROVE  SubSeq(t, a + 1, a + n) = SubSeq(s, b + 1, b + n) <=> SameBytes(t, a, s, b, n)
  <1> DEFINE x == SubSeq(t, a + 1, a + n)
             y == SubSeq(s, b + 1, b + n)
  <1>1. Len(t) \in Nat /\ Len(s) \in Nat /\ t \in Seq(Nat) /\ s \in Seq(Nat)
    BY LenProperties DEF Texts
  <1>2. /\ a + 1 \in 1 .. Len(t) + 1 /\ a + n \in (a + 1) - 1 .. Len(t)
        /\ b + 1 \in 1 .. Len(s) + 1 /\ b + n \in (b + 1) - 1 .. Len(s)
        /\ (a + n) - (a + 1) + 1 = n /\ (b + n) - (b + 1) + 1 = n
    BY <1>1
  <1>3. /\ x \in Seq(Nat) /\ Len(x) = (a + n) - (a + 1) + 1
        /\ \A i \in 1 .. (a + n) - (a + 1) + 1 : x[i] = t[(a + 1) + i - 1]
    BY <1>1, <1>2, PieceOf
  <1>4. /\ y \in Seq(Nat) /\ Len(y) = (b + n) - (b + 1) + 1
        /\ \A i \in 1 .. (b + n) - (b + 1) + 1 : y[i] = s[(b + 1) + i - 1]
    BY <1>1, <1>2, PieceOf
  <1> HIDE DEF x, y
  <1>5. \A i \in 1 .. n : (a + 1) + i - 1 = a + i /\ (b + 1) + i - 1 = b + i
    OBVIOUS
  <1>6. Len(x) = n /\ Len(y) = n /\ \A i \in 1 .. n : x[i] = t[a + i] /\ y[i] = s[b + i]
    BY <1>2, <1>3, <1>4, <1>5
  <1>7. x = y => SameBytes(t, a, s, b, n)
    BY <1>6, Zenon DEF SameBytes
  <1>8. ASSUME SameBytes(t, a, s, b, n)
        PROVE  x = y
    <2>1. \A i \in 1 .. Len(x) : x[i] = y[i]
      BY <1>6, <1>8, Zenon DEF SameBytes
    <2> QED
      BY <1>3, <1>4, <1>6, <2>1, SeqEqual, Zenon
  <1> QED
    BY <1>7, <1>8 DEF x, y

\* The i-th parts of two texts, with the slash behind them.
LEMMA PartSame ==
  ASSUME NEW t \in Texts, NEW v, NEW d, IsCut(d, t, v),
         NEW s \in Texts, NEW w, NEW c, IsCut(c, s, w),
         NEW i \in 1 .. Len(w), i <= Len(v), i < Len(w)
  PROVE  LET n == c[i] - c[i - 1]
             same == SameBytes(t, d[i - 1], s, c[i - 1], n)
         IN  /\ i < Len(v) /\ v[i] = w[i] => d[i] = d[i - 1] + n /\ same
             /\ d[i - 1] + n <= Len(t) /\ same => i < Len(v) /\ v[i] = w[i] /\ d[i] = d[i - 1] + n
  <1> DEFINE a == d[i - 1]
             b == c[i - 1]
             n == c[i] - c[i - 1]
             p == v[i]
             q == w[i]
  <1>1. i \in 1 .. Len(v) /\ Len(v) \in Nat /\ Len(w) \in Nat /\ Len(t) \in Nat /\ Len(s) \in Nat
    BY CutIs
  <1>2. /\ a \in Nat /\ d[i] = a + Len(p) + 1 /\ p \in Texts /\ Len(p) \in Nat
    BY <1>1, CutIs
  <1>3. /\ b \in Nat /\ c[i] = b + Len(q) + 1 /\ q \in Texts /\ Len(q) \in Nat
    BY <1>1, CutIs
  <1>4. n = Len(q) + 1 /\ n \in Nat
    BY <1>3
  <1>5. s[c[i]] = Slash
    BY CutAt
  <1>6. i < Len(v) => t[d[i]] = Slash /\ d[i] \in 1 .. Len(t)
    BY <1>1, CutAt
  <1>7. \A k \in 1 .. Len(p) : t[a + k] = p[k] /\ p[k] # Slash
    BY <1>1 DEF IsCut
  <1>8. \A k \in 1 .. Len(q) : s[b + k] = q[k] /\ q[k] # Slash
    BY DEF IsCut
  <1>9. i = Len(v) => d[i] = Len(t) + 1
    BY CutIs
  <1> DEFINE same == SameBytes(t, a, s, b, n)
  <1> HIDE DEF a, b, n, p, q
  <1>10. ASSUME i < Len(v), p = q
         PROVE  d[i] = a + n /\ same
    <2>1. d[i] = a + n /\ c[i] = b + n
      BY <1>2, <1>3, <1>4, <1>10
    <2>2. ASSUME NEW k \in 1 .. n
          PROVE  t[a + k] = s[b + k]
      <3>1. CASE k = n
        BY <1>5, <1>6, <1>10, <2>1, <3>1
      <3>2. CASE k # n
        <4>1. k \in 1 .. Len(q) /\ k \in 1 .. Len(p)
          BY <1>3, <1>4, <1>10, <3>2
        <4> QED
          BY <1>7, <1>8, <1>10, <4>1
      <3> QED
        BY <3>1, <3>2
    <2> QED
      BY <2>1, <2>2 DEF SameBytes
  <1>11. ASSUME a + n <= Len(t), same
         PROVE  i < Len(v) /\ p = q /\ d[i] = a + n
    <2>1. \A k \in 1 .. n : t[a + k] = s[b + k]
      BY <1>11 DEF SameBytes
    <2>2. t[a + n] = Slash
      <3>1. n \in 1 .. n /\ c[i] = b + n
        BY <1>3, <1>4
      <3> QED
        BY <1>5, <2>1, <3>1
    <2>3. Len(p) <= Len(q)
      <3> SUFFICES ASSUME Len(p) > Len(q) PROVE FALSE
        BY <1>2, <1>3
      <3>1. n \in 1 .. Len(p)
        BY <1>2, <1>3, <1>4
      <3> QED
        BY <1>7, <2>2, <3>1
    <2>4. i < Len(v)
      <3> SUFFICES ASSUME i = Len(v) PROVE FALSE
        BY <1>1
      <3> QED
        BY <1>1, <1>2, <1>3, <1>4, <1>9, <1>11, <2>3
    <2>5. Len(p) >= Len(q)
      <3> SUFFICES ASSUME Len(p) < Len(q) PROVE FALSE
        BY <1>2, <1>3
      <3> DEFINE k == Len(p) + 1
      <3>1. k \in 1 .. Len(q) /\ k \in 1 .. n /\ d[i] = a + k
        BY <1>2, <1>3, <1>4
      <3> HIDE DEF k
      <3>2. t[a + k] = Slash
        BY <1>6, <2>4, <3>1
      <3>3. s[b + k] = Slash
        BY <2>1, <3>1, <3>2
      <3> QED
        BY <1>8, <3>1, <3>3
    <2>6. Len(p) = Len(q)
      BY <1>2, <1>3, <2>3, <2>5
    <2>7. \A k \in 1 .. Len(p) : p[k] = q[k]
      <3> SUFFICES ASSUME NEW k \in 1 .. Len(p) PROVE p[k] = q[k]
        OBVIOUS
      <3>1. k \in 1 .. Len(q) /\ k \in 1 .. n
        BY <1>2, <1>3, <1>4, <2>6
      <3> QED
        BY <1>7, <1>8, <2>1, <3>1
    <2>8. p = q
      BY <1>2, <1>3, <2>6, <2>7, SeqEqual, Zenon DEF Texts
    <2>9. d[i] = a + n
      BY <1>2, <1>3, <1>4, <2>6
    <2> QED
      BY <2>4, <2>8, <2>9
  <1> QED
    BY <1>10, <1>11 DEF a, b, n, p, q

\* The parts behind the j-th, if both texts are cut there.
LEMMA PartsSame ==
  ASSUME NEW t \in Texts, NEW v, NEW d, IsCut(d, t, v),
         NEW s \in Texts, NEW w, NEW c, IsCut(c, s, w),
         NEW j \in 0 .. Len(w), j <= Len(v), NEW i \in j .. Len(w) - 1
  PROVE  LET n == c[i] - c[j]
             agree == i < Len(v) /\ \A q \in j + 1 .. i : v[q] = w[q]
         IN  /\ agree => d[i] = d[j] + n
             /\ d[j] + n <= Len(t) /\ SameBytes(t, d[j], s, c[j], n) <=> agree
  <1> DEFINE N(x) == c[x] - c[j]
             Agree(x) == x < Len(v) /\ \A q \in j + 1 .. x : v[q] = w[q]
             Fits(x) == d[j] + N(x) <= Len(t) /\ SameBytes(t, d[j], s, c[j], N(x))
             Holds(x) == (Agree(x) => d[x] = d[j] + N(x)) /\ (Fits(x) <=> Agree(x))
             T == {k \in Nat : j + k <= Len(w) - 1 => Holds(j + k)}
  <1>1. /\ Len(v) \in Nat \ {0} /\ Len(w) \in Nat \ {0} /\ Len(t) \in Nat /\ Len(s) \in Nat
        /\ j \in Nat /\ i \in Nat
        /\ d[0] = 0 /\ d[Len(v)] = Len(t) + 1
        /\ \A x \in 0 .. Len(v) : d[x] \in Nat
        /\ \A x \in 0 .. Len(w) : c[x] \in Nat
    BY CutIs
  <1>2. d[j] \in Nat /\ c[j] \in Nat
    BY <1>1
  <1>3. 0 \in T
    <2> SUFFICES ASSUME j + 0 <= Len(w) - 1 PROVE Holds(j)
      BY <1>1
    <2>1. N(j) = 0 /\ d[j] = d[j] + N(j)
      BY <1>2
    <2>2. SameBytes(t, d[j], s, c[j], N(j))
      BY <2>1 DEF SameBytes
    <2>3. d[j] + N(j) <= Len(t) <=> j < Len(v)
      <3>1. CASE j = Len(v)
        BY <1>1, <2>1, <3>1
      <3>2. CASE j = 0
        BY <1>1, <2>1, <3>2
      <3>3. CASE j # 0 /\ j < Len(v)
        <4>1. j \in 1 .. Len(v)
          BY <1>1, <3>3
        <4>2. d[j] \in 1 .. Len(t)
          BY <3>3, <4>1, CutAt
        <4> QED
          BY <1>1, <1>2, <2>1, <3>3, <4>2
      <3> QED
        BY <1>1, <3>1, <3>2, <3>3
    <2>4. Agree(j) <=> j < Len(v)
      BY <1>1
    <2> HIDE DEF N, Agree
    <2> QED
      BY <2>1, <2>2, <2>3, <2>4
  <1>4. ASSUME NEW k \in Nat, k \in T
        PROVE  k + 1 \in T
    <2> DEFINE x == j + (k + 1)
               y == j + k
               m == c[x] - c[x - 1]
    <2> SUFFICES ASSUME x <= Len(w) - 1 PROVE Holds(x)
      OBVIOUS
    <2>1. /\ x \in 1 .. Len(w) /\ x < Len(w) /\ x - 1 = y /\ y \in Nat /\ y \in 0 .. Len(w)
          /\ x \in 0 .. Len(w) /\ x \in Nat /\ y <= Len(w) - 1 /\ y >= j
      BY <1>1
    <2>2. Holds(y)
      BY <1>4, <2>1
    <2> HIDE DEF x, y
    <2>3. c[x] \in Nat /\ c[y] \in Nat /\ c[j] <= c[y] /\ c[y] <= c[x]
      <3>1. c[x] \in Nat /\ c[y] \in Nat
        BY <1>1, <2>1
      <3>2. y \in j .. Len(w) /\ x \in y .. Len(w)
        BY <1>1, <2>1
      <3>3. c[j] + (y - j) <= c[y] /\ c[y] + (x - y) <= c[x]
        BY <2>1, <3>2, CutGrows
      <3> QED
        BY <1>1, <1>2, <2>1, <3>1, <3>3, SMTT(20)
    <2>4. /\ N(x) \in Nat /\ N(y) \in Nat /\ m \in Nat /\ N(x) = N(y) + m
          /\ m = c[x] - c[y]
      BY <1>2, <2>1, <2>3, SMTT(20)
    <2>5. Agree(x) => Agree(y) /\ v[x] = w[x] /\ x < Len(v)
      BY <1>1, <2>1
    <2>6. Agree(y) /\ v[x] = w[x] /\ x < Len(v) => Agree(x)
      <3> SUFFICES ASSUME Agree(y), v[x] = w[x], x < Len(v), NEW q \in j + 1 .. x
                   PROVE  v[q] = w[q]
        OBVIOUS
      <3>1. q = x \/ q \in j + 1 .. y
        BY <1>1, <2>1
      <3> QED
        BY <3>1
    <2>7. x <= Len(v) =>
            /\ x < Len(v) /\ v[x] = w[x] =>
                 d[x] = d[y] + m /\ SameBytes(t, d[y], s, c[y], m)
            /\ d[y] + m <= Len(t) /\ SameBytes(t, d[y], s, c[y], m) =>
                 x < Len(v) /\ v[x] = w[x] /\ d[x] = d[y] + m
      <3> SUFFICES ASSUME x <= Len(v)
                   PROVE  /\ x < Len(v) /\ v[x] = w[x] =>
                               d[x] = d[y] + m /\ SameBytes(t, d[y], s, c[y], m)
                          /\ d[y] + m <= Len(t) /\ SameBytes(t, d[y], s, c[y], m) =>
                               x < Len(v) /\ v[x] = w[x] /\ d[x] = d[y] + m
        OBVIOUS
      <3>1. LET n == c[x] - c[x - 1]
                same == SameBytes(t, d[x - 1], s, c[x - 1], n)
            IN  /\ x < Len(v) /\ v[x] = w[x] => d[x] = d[x - 1] + n /\ same
                /\ d[x - 1] + n <= Len(t) /\ same =>
                     x < Len(v) /\ v[x] = w[x] /\ d[x] = d[x - 1] + n
        BY <2>1, PartSame
      <3> QED
        BY <2>1, <3>1, Zenon
    <2>8. y < Len(v) => x <= Len(v) /\ d[y] \in Nat
      BY <1>1, <2>1
    <2>9. SameBytes(t, d[j], s, c[j], N(x)) => SameBytes(t, d[j], s, c[j], N(y))
      BY <2>4 DEF SameBytes
    <2>10. ASSUME d[y] \in Nat, d[y] = d[j] + N(y), SameBytes(t, d[j], s, c[j], N(y))
           PROVE  SameBytes(t, d[y], s, c[y], m) <=> SameBytes(t, d[j], s, c[j], N(x))
      <3>1. c[y] = c[j] + N(y)
        BY <1>2, <2>3
      <3> HIDE DEF N, m
      <3>2. ASSUME SameBytes(t, d[y], s, c[y], m), NEW k2 \in 1 .. N(x)
            PROVE  t[d[j] + k2] = s[c[j] + k2]
        <4>1. CASE k2 \in 1 .. N(y)
          BY <2>10, <4>1 DEF SameBytes
        <4>2. CASE ~(k2 \in 1 .. N(y))
          <5> DEFINE h == k2 - N(y)
          <5>1. h \in 1 .. m /\ d[j] + k2 = d[y] + h /\ c[j] + k2 = c[y] + h
            <6>1. \A a, b, y1, m1 \in Nat : \A z \in 1 .. y1 + m1 : ~(z \in 1 .. y1) =>
                    /\ z - y1 \in 1 .. m1
                    /\ a + z = (a + y1) + (z - y1) /\ b + z = (b + y1) + (z - y1)
              OBVIOUS
            <6>2. k2 \in 1 .. N(y) + m
              BY <2>4
            <6>3. N(y) \in Nat /\ m \in Nat /\ d[j] \in Nat /\ c[j] \in Nat
              BY <1>2, <2>4
            <6>4. /\ h \in 1 .. m /\ d[j] + k2 = (d[j] + N(y)) + h
                  /\ c[j] + k2 = (c[j] + N(y)) + h
              BY <4>2, <6>1, <6>2, <6>3, SMTT(20)
            <6>5. d[y] = d[j] + N(y)
              BY <2>10
            <6> QED
              BY <3>1, <6>4, <6>5, Zenon
          <5> HIDE DEF h
          <5> QED
            BY <3>2, <5>1 DEF SameBytes
        <4> QED
          BY <4>1, <4>2
      <3>3. ASSUME SameBytes(t, d[j], s, c[j], N(x)), NEW h \in 1 .. m
            PROVE  t[d[y] + h] = s[c[y] + h]
        <4> DEFINE k2 == N(y) + h
        <4>1. k2 \in 1 .. N(x) /\ d[j] + k2 = d[y] + h /\ c[j] + k2 = c[y] + h
          <5>1. \A a, b, y1, m1 \in Nat : \A z \in 1 .. m1 :
                  /\ y1 + z \in 1 .. y1 + m1
                  /\ a + (y1 + z) = (a + y1) + z /\ b + (y1 + z) = (b + y1) + z
            OBVIOUS
          <5>2. N(x) = N(y) + m
            BY <2>4
          <5>3. N(y) \in Nat /\ m \in Nat /\ d[j] \in Nat /\ c[j] \in Nat
            BY <1>2, <2>4
          <5>4. /\ k2 \in 1 .. N(y) + m /\ d[j] + k2 = (d[j] + N(y)) + h
                /\ c[j] + k2 = (c[j] + N(y)) + h
            BY <5>1, <5>3, SMTT(20)
          <5>5. d[y] = d[j] + N(y)
            BY <2>10
          <5> QED
            BY <3>1, <5>2, <5>4, <5>5, Zenon
        <4> HIDE DEF k2
        <4> QED
          BY <3>3, <4>1 DEF SameBytes
      <3> QED
        BY <3>2, <3>3 DEF SameBytes
    <2>11. ASSUME Agree(x)
           PROVE  d[x] = d[j] + N(x) /\ Fits(x)
      <3>1. Agree(y) /\ v[x] = w[x] /\ x < Len(v) /\ Fits(y) /\ d[y] = d[j] + N(y)
        BY <2>2, <2>5, <2>11
      <3>2. y < Len(v) /\ SameBytes(t, d[j], s, c[j], N(y))
        BY <3>1
      <3>3. d[x] = d[y] + m /\ SameBytes(t, d[y], s, c[y], m) /\ d[y] \in Nat
        BY <2>7, <2>8, <3>1, <3>2
      <3>4. SameBytes(t, d[j], s, c[j], N(x))
        BY <2>10, <3>1, <3>2, <3>3
      <3>5. d[x] = d[j] + N(x)
        <4> HIDE DEF N, m
        <4> QED
          BY <1>2, <2>4, <3>1, <3>3
      <3>6. d[x] <= Len(t)
        <4>1. x \in 1 .. Len(v)
          BY <1>1, <2>1, <3>1
        <4>2. d[x] \in 1 .. Len(t)
          BY <3>1, <4>1, CutAt
        <4> QED
          BY <1>1, <4>2
      <3> QED
        BY <3>4, <3>5, <3>6
    <2>12. ASSUME Fits(x)
           PROVE  Agree(x)
      <3>1. Fits(y)
        <4>1. SameBytes(t, d[j], s, c[j], N(y))
          BY <2>9, <2>12
        <4>2. d[j] + N(y) <= Len(t)
          <5> HIDE DEF N
          <5> QED
            BY <1>1, <1>2, <2>4, <2>12, SMTT(20)
        <4> QED
          BY <4>1, <4>2
      <3>2. Agree(y) /\ d[y] = d[j] + N(y)
        BY <2>2, <3>1
      <3>3. y < Len(v) /\ SameBytes(t, d[j], s, c[j], N(y))
        BY <3>1, <3>2
      <3>4. x <= Len(v) /\ d[y] \in Nat
        BY <2>8, <3>3
      <3>5. SameBytes(t, d[y], s, c[y], m)
        BY <2>10, <2>12, <3>2, <3>3, <3>4
      <3>6. d[y] + m <= Len(t)
        <4>1. d[j] + N(x) <= Len(t)
          BY <2>12
        <4> HIDE DEF N, m
        <4> QED
          BY <1>2, <2>4, <3>2, <4>1
      <3>7. v[x] = w[x] /\ x < Len(v)
        BY <2>7, <3>4, <3>5, <3>6
      <3> QED
        BY <2>6, <3>2, <3>7
    <2> QED
      BY <2>11, <2>12
  <1>5. i - j \in T
    <2>1. i - j \in Nat
      BY <1>1
    <2> HIDE DEF T
    <2> QED
      BY <1>3, <1>4, <2>1, NatSetInduction, Zenon
  <1>6. Holds(i)
    <2>1. i - j \in Nat /\ j + (i - j) = i /\ i <= Len(w) - 1
      BY <1>1
    <2> HIDE DEF Holds
    <2> QED
      BY <1>5, <2>1
  <1> QED
    BY <1>6

\* All parts behind the j-th, up to the end of both texts.
LEMMA RestSame ==
  ASSUME NEW t \in Texts, NEW v, NEW d, IsCut(d, t, v),
         NEW s \in Texts, NEW w, NEW c, IsCut(c, s, w),
         NEW j \in 0 .. Len(w) - 1, j <= Len(v)
  PROVE  LET n == Len(s) - c[j]
         IN  /\ n \in Nat
             /\ d[j] + n = Len(t) /\ SameBytes(t, d[j], s, c[j], n)
                  <=> Len(v) = Len(w) /\ \A q \in j + 1 .. Len(w) : v[q] = w[q]
  <1> DEFINE z == Len(w)
             l == Len(v)
             i == z - 1
             n == Len(s) - c[j]
             n1 == c[i] - c[j]
             p == v[z]
             q == w[z]
             same == SameBytes(t, d[j], s, c[j], n)
             begin == SameBytes(t, d[j], s, c[j], n1)
             agree == i < l /\ \A x \in j + 1 .. i : v[x] = w[x]
  <1>1. /\ l \in Nat \ {0} /\ z \in Nat \ {0} /\ Len(t) \in Nat /\ Len(s) \in Nat
        /\ d[l] = Len(t) + 1 /\ c[z] = Len(s) + 1
        /\ \A x \in 0 .. l : d[x] \in Nat
        /\ \A x \in 0 .. z : c[x] \in Nat
    BY CutIs
  <1>2. /\ i \in Nat /\ i \in j .. z - 1 /\ z \in 1 .. z /\ j \in Nat /\ j <= i /\ i \in 0 .. z
        /\ j \in 0 .. z /\ j \in 0 .. l
    BY <1>1
  <1>3. /\ q \in Texts /\ Len(q) \in Nat /\ c[i] \in Nat /\ Len(s) = c[i] + Len(q)
        /\ c[j] \in Nat /\ d[j] \in Nat
    <2>1. /\ q \in Texts /\ Len(q) \in Nat /\ c[i] \in Nat /\ c[z] = c[i] + Len(q) + 1
      BY <1>2, CutIs
    <2> QED
      BY <1>1, <1>2, <2>1, SMTT(20)
  <1>4. n1 \in Nat /\ n \in Nat /\ n = n1 + Len(q)
    <2>1. c[j] + (i - j) <= c[i]
      <3>1. i \in j .. z
        BY <1>1, <1>2
      <3> QED
        BY <1>2, <3>1, CutGrows
    <2>2. n = n1 + Len(q)
      BY <1>3, SMTT(20)
    <2>3. c[j] <= c[i]
      <3> HIDE DEF i
      <3> QED
        BY <1>2, <1>3, <2>1
    <2>4. n1 \in Nat
      <3>1. c[i] \in Nat /\ c[j] \in Nat
        BY <1>3
      <3> HIDE DEF i
      <3> QED
        BY <2>3, <3>1
    <2>5. n \in Nat
      <3>1. Len(q) \in Nat
        BY <1>3
      <3> HIDE DEF n, n1, q
      <3> QED
        BY <2>2, <2>4, <3>1
    <2> QED
      BY <2>2, <2>4, <2>5
  <1>5. /\ agree => d[i] = d[j] + n1
        /\ d[j] + n1 <= Len(t) /\ begin <=> agree
    <2>1. LET y == c[i] - c[j]
              a == i < Len(v) /\ \A x \in j + 1 .. i : v[x] = w[x]
          IN  /\ a => d[i] = d[j] + y
              /\ d[j] + y <= Len(t) /\ SameBytes(t, d[j], s, c[j], y) <=> a
      BY <1>2, PartsSame
    <2> QED
      BY <2>1, Zenon
  <1>6. \A k \in 1 .. Len(q) : s[c[i] + k] = q[k] /\ q[k] # Slash
    BY <1>2, Zenon DEF IsCut
  <1>7. z <= l => /\ p \in Texts /\ Len(p) \in Nat /\ d[i] \in Nat /\ d[z] = d[i] + Len(p) + 1
                  /\ \A k \in 1 .. Len(p) : t[d[i] + k] = p[k]
                  /\ z < l => t[d[z]] = Slash /\ d[z] \in 1 .. Len(t)
    <2> SUFFICES ASSUME z <= l
                 PROVE  /\ p \in Texts /\ Len(p) \in Nat /\ d[i] \in Nat
                        /\ d[z] = d[i] + Len(p) + 1
                        /\ \A k \in 1 .. Len(p) : t[d[i] + k] = p[k]
                        /\ z < l => t[d[z]] = Slash /\ d[z] \in 1 .. Len(t)
      OBVIOUS
    <2>1. z \in 1 .. l
      BY <1>1
    <2>2. /\ p \in Texts /\ Len(p) \in Nat /\ d[i] \in Nat
          /\ d[z] = d[i] + Len(p) + 1
      BY <2>1, CutIs
    <2>3. \A k \in 1 .. Len(p) : t[d[i] + k] = p[k]
      BY <2>1 DEF IsCut
    <2>4. z < l => t[d[z]] = Slash /\ d[z] \in 1 .. Len(t)
      BY <2>1, CutAt
    <2> QED
      BY <2>2, <2>3, <2>4, Zenon
  <1>8. c[i] = c[j] + n1
    BY <1>3
  <1>9. z = i + 1
    BY <1>1
  <1> HIDE DEF z, l, i, n, n1, p, q
  <1>10. ASSUME d[j] + n = Len(t), same
         PROVE  l = z /\ \A x \in j + 1 .. z : v[x] = w[x]
    <2>1. \A k \in 1 .. n : t[d[j] + k] = s[c[j] + k]
      BY <1>10 DEF SameBytes
    <2>2. begin
      BY <1>3, <1>4, <2>1 DEF SameBytes
    <2>3. agree /\ d[i] = d[j] + n1
      <3>1. d[j] + n1 <= Len(t)
        BY <1>1, <1>3, <1>4, <1>10, SMTT(20)
      <3> HIDE DEF agree, begin
      <3> QED
        BY <1>5, <2>2, <3>1
    <2>4. z <= l /\ d[i] \in Nat /\ Len(t) = d[i] + Len(q)
      <3>1. z <= l
        BY <1>1, <1>2, <1>9, <2>3
      <3>2. Len(t) = d[j] + n /\ d[i] = d[j] + n1
        BY <1>10, <2>3
      <3>3. \A a, b, x \in Nat : a + (b + x) = (a + b) + x
        OBVIOUS
      <3>4. d[j] + n = (d[j] + n1) + Len(q)
        BY <1>3, <1>4, <3>3
      <3> QED
        BY <1>7, <3>1, <3>2, <3>4
    <2>5. \A k \in 1 .. Len(q) : t[d[i] + k] = q[k]
      <3> SUFFICES ASSUME NEW k \in 1 .. Len(q) PROVE t[d[i] + k] = q[k]
        OBVIOUS
      <3>1. n1 + k \in 1 .. n
        BY <1>3, <1>4
      <3>2. t[d[j] + (n1 + k)] = s[c[j] + (n1 + k)]
        BY <2>1, <3>1
      <3>3. d[j] + (n1 + k) = (d[j] + n1) + k /\ c[j] + (n1 + k) = (c[j] + n1) + k
        <4>1. \A a, b, x, y \in Nat : a + (b + x) = (a + b) + x /\ y + (b + x) = (y + b) + x
          OBVIOUS
        <4>2. d[j] \in Nat /\ c[j] \in Nat /\ n1 \in Nat /\ k \in Nat
          BY <1>3, <1>4
        <4> QED
          BY <4>1, <4>2
      <3>4. t[d[i] + k] = s[c[i] + k]
        BY <1>8, <2>3, <3>2, <3>3, Zenon
      <3> QED
        BY <1>6, <3>4
    <2>6. l = z
      <3> SUFFICES ASSUME z < l PROVE FALSE
        BY <1>1, <2>4
      <3> DEFINE k == Len(p) + 1
      <3>1. t[d[z]] = Slash /\ d[z] \in 1 .. Len(t) /\ Len(p) \in Nat
            /\ d[z] = d[i] + Len(p) + 1
        BY <1>7, <2>4
      <3>2. d[z] = d[i] + k /\ k \in 1 .. Len(q)
        <4>1. \A a, b, x, y \in Nat : y = a + b + 1 /\ y <= a + x =>
                y = a + (b + 1) /\ b + 1 \in 1 .. x
          OBVIOUS
        <4>2. d[z] \in Nat /\ d[z] <= d[i] + Len(q)
          <5> DEFINE a == d[z]
                     m == Len(t)
          <5>1. m \in Nat /\ a \in 1 .. m
            BY <1>1, <3>1
          <5> HIDE DEF a, m
          <5>2. a \in Nat /\ a <= m
            BY <5>1
          <5> QED
            BY <2>4, <5>2, Zenon DEF a, m
        <4> QED
          BY <1>3, <2>4, <3>1, <4>1, <4>2, Zenon
      <3> HIDE DEF k
      <3> QED
        BY <1>6, <2>5, <3>1, <3>2
    <2>7. p = q
      <3>1. Len(p) = Len(q)
        BY <1>1, <1>3, <1>7, <2>4, <2>6, SMTT(20)
      <3>2. \A k \in 1 .. Len(p) : p[k] = q[k]
        BY <1>7, <2>4, <2>5, <3>1
      <3> QED
        BY <1>3, <1>7, <2>4, <3>1, <3>2, SeqEqual, Zenon DEF Texts
    <2>8. ASSUME NEW x \in j + 1 .. z
          PROVE  v[x] = w[x]
      <3>1. x = z \/ x \in j + 1 .. i
        BY <1>1, <1>2, <1>9
      <3> QED
        BY <2>3, <2>7, <3>1 DEF p, q
    <2> QED
      BY <2>6, <2>8
  <1>11. ASSUME l = z, \A x \in j + 1 .. z : v[x] = w[x]
         PROVE  d[j] + n = Len(t) /\ same
    <2>1. agree
      BY <1>1, <1>2, <1>9, <1>11
    <2>2. d[i] = d[j] + n1 /\ begin
      <3> HIDE DEF agree, begin
      <3> QED
        BY <1>5, <2>1
    <2>3. p = q
      <3>1. z \in j + 1 .. z
        BY <1>1, <1>2, <1>9
      <3> QED
        BY <1>11, <3>1 DEF p, q
    <2>4. z <= l /\ d[i] \in Nat /\ Len(t) = d[i] + Len(q)
      BY <1>1, <1>7, <1>11, <2>3, SMTT(20)
    <2>5. d[j] + n = Len(t)
      BY <1>1, <1>3, <1>4, <2>2, <2>4
    <2>6. ASSUME NEW k \in 1 .. n
          PROVE  t[d[j] + k] = s[c[j] + k]
      <3>1. CASE k \in 1 .. n1
        BY <2>2, <3>1 DEF SameBytes
      <3>2. CASE ~(k \in 1 .. n1)
        <4> DEFINE h == k - n1
        <4>1. h \in 1 .. Len(q) /\ d[j] + k = (d[j] + n1) + h /\ c[j] + k = (c[j] + n1) + h
          <5>1. \A a, b, y1, m1 \in Nat : \A x \in 1 .. y1 + m1 : ~(x \in 1 .. y1) =>
                  /\ x - y1 \in 1 .. m1
                  /\ a + x = (a + y1) + (x - y1) /\ b + x = (b + y1) + (x - y1)
            OBVIOUS
          <5>2. k \in 1 .. n1 + Len(q)
            BY <1>4
          <5>3. n1 \in Nat /\ Len(q) \in Nat /\ d[j] \in Nat /\ c[j] \in Nat
            BY <1>3, <1>4
          <5> QED
            BY <3>2, <5>1, <5>2, <5>3, SMTT(20)
        <4>2. d[j] + k = d[i] + h /\ c[j] + k = c[i] + h
          <5> HIDE DEF h, begin
          <5> QED
            BY <1>8, <2>2, <4>1, Zenon
        <4> HIDE DEF h
        <4>3. t[d[i] + h] = q[h] /\ s[c[i] + h] = q[h]
          BY <1>6, <1>7, <2>3, <2>4, <4>1
        <4> QED
          BY <4>2, <4>3
      <3> QED
        BY <3>1, <3>2
    <2> QED
      BY <2>5, <2>6 DEF SameBytes
  <1> QED
    BY <1>4, <1>10, <1>11 DEF z, l, n

\* The parameters are those of the first x parts.
FreeIn(w, x) == {i \in 1 .. x : IsFree(w[i])}
FirstOfName(w, x, i) == \A k \in FreeIn(w, x) : k < i => Tail(w[k]) # Tail(w[i])
Taken(params, w, v, x) ==
  /\ DOMAIN params = {Tail(w[i]) : i \in FreeIn(w, x)}
  /\ \A i \in FreeIn(w, x) : FirstOfName(w, x, i) => params[Tail(w[i])] = v[i]

\* They grow with the part that is added.
LEMMA TakenGrows ==
  ASSUME NEW w, NEW v, NEW x \in Nat, IsFree(w[x + 1]), NEW params \in PathParams,
         Tail(w[x + 1]) \in Texts, v[x + 1] \in Texts, Taken(params, w, v, x)
  PROVE  Taken(Emplaced(params, Tail(w[x + 1]), v[x + 1]), w, v, x + 1)
  <1> DEFINE n == Tail(w[x + 1])
             q == Emplaced(params, n, v[x + 1])
             F == FreeIn(w, x)
             G == FreeIn(w, x + 1)
  <1>1. /\ DOMAIN q = DOMAIN params \cup {n}
        /\ \A k \in DOMAIN params : q[k] = params[k]
        /\ n \notin DOMAIN params => q[n] = v[x + 1]
    BY EmplacedIs, Zenon
  <1>2. G = F \cup {x + 1} /\ \A i \in F : i < x + 1
    <2>1. \A i : i \in 1 .. x + 1 <=> i \in 1 .. x \/ i = x + 1
      OBVIOUS
    <2>2. \A i \in 1 .. x : i < x + 1
      OBVIOUS
    <2> QED
      BY <2>1, <2>2 DEF FreeIn
  <1>3. /\ DOMAIN params = {Tail(w[i]) : i \in F}
        /\ \A i \in F : FirstOfName(w, x, i) => params[Tail(w[i])] = v[i]
    BY Zenon DEF Taken
  <1> HIDE DEF q, F, G
  <1>4. DOMAIN q = {Tail(w[i]) : i \in G}
    BY <1>1, <1>2, <1>3, Zenon DEF n
  <1>5. ASSUME NEW i \in G, FirstOfName(w, x + 1, i)
        PROVE  q[Tail(w[i])] = v[i]
    <2>1. \A k \in G : k < i => Tail(w[k]) # Tail(w[i])
      BY <1>5, Zenon DEF FirstOfName, G
    <2>2. CASE i \in F
      <3>1. FirstOfName(w, x, i)
        BY <1>2, <2>1, Zenon DEF FirstOfName, F
      <3>2. Tail(w[i]) \in DOMAIN params
        BY <1>3, <2>2, Zenon
      <3> QED
        BY <1>1, <1>3, <2>2, <3>1, <3>2, Zenon
    <2>3. CASE i = x + 1
      <3>1. n \notin DOMAIN params
        BY <1>2, <1>3, <2>1, <2>3, Zenon DEF n
      <3> QED
        BY <1>1, <2>3, <3>1, Zenon DEF n
    <2> QED
      BY <1>2, <2>2, <2>3, Zenon
  <1>6. Taken(q, w, v, x + 1)
    BY <1>4, <1>5, Zenon DEF Taken, G
  <1> QED
    BY <1>6, Zenon DEF q, n

\* Nothing is taken from parts that are not free.
LEMMA TakenPlain ==
  ASSUME NEW w, NEW v, NEW j \in Nat, NEW i \in Nat, j <= i, Plain(w, j, i), NEW params
  PROVE  Taken(params, w, v, i) <=> Taken(params, w, v, j)
  <1>1. \A q : q \in 1 .. i <=> q \in 1 .. j \/ q \in j + 1 .. i
    OBVIOUS
  <1>2. FreeIn(w, i) = FreeIn(w, j)
    BY <1>1 DEF FreeIn, Plain
  <1> QED
    BY <1>2, Zenon DEF Taken, FirstOfName

\* The first x parts of a path agree with those of the pattern; and so the
\* state a of the match behind them is right.
AgreeTo(v, w, x) == x <= Len(v) /\ \A q \in 1 .. x : IsFree(w[q]) \/ v[q] = w[q]
RightAt(a, d, v, w, x) ==
  /\ a.ok <=> AgreeTo(v, w, x)
  /\ a.ok => a.pos = d[x] /\ Taken(a.params, w, v, x)

\* One part in numbers.
LEMMA CutOne ==
  ASSUME NEW s \in Texts, NEW ps, NEW c, IsCut(c, s, ps), NEW i \in 1 .. Len(ps)
  PROVE  /\ c[i - 1] \in Nat /\ c[i] = c[i - 1] + Len(ps[i]) + 1
         /\ Len(ps[i]) \in Nat
  BY CutIs

\* One fragment with the name behind it.
LEMMA MatchingGoes ==
  ASSUME NEW t \in Texts, NEW v, NEW d, IsCut(d, t, v),
         NEW s \in Texts, NEW w, NEW c, IsCut(c, s, w),
         NEW m \in Matchers, NEW a \in Matchings,
         NEW i \in 1 .. Len(m.fragments), i <= Len(m.names),
         NEW j \in 0 .. Len(w), NEW g \in j + 1 .. Len(w),
         Plain(w, j, g - 1), IsFree(w[g]),
         m.fragments[i] = SubSeq(s, c[j] + 1, c[g - 1]), m.names[i] = Tail(w[g]),
         RightAt(a, d, v, w, j)
  PROVE  RightAt(MatchStep(m, t, a, i), d, v, w, g)
  <1> DEFINE l == Len(v)
             z == Len(w)
             f == m.fragments[i]
             at == a.pos + Len(f)
             sep == Separator(t, at + 1)
             fits == a.ok /\ at <= Len(t) /\ SubSeq(t, a.pos + 1, at) = f
             b == MatchStep(m, t, a, i)
             n == c[g - 1] - c[j]
             x == SubSeq(t, at + 1, sep - 1)
  <1>1. /\ ~fits => ~b.ok
        /\ fits => b.ok /\ b.pos = sep /\ b.params = Emplaced(a.params, m.names[i], x)
    <2>1. LET f1 == m.fragments[i]
              at1 == a.pos + Len(f1)
              sep1 == Separator(t, at1 + 1)
              fits1 == a.ok /\ at1 <= Len(t) /\ SubSeq(t, a.pos + 1, at1) = f1
              b1 == MatchStep(m, t, a, i)
          IN  /\ b1 \in Matchings
              /\ ~fits1 => ~b1.ok
              /\ fits1 /\ i > Len(m.names) => b1.ok /\ b1.pos = at1 /\ b1.params = a.params
              /\ fits1 /\ i <= Len(m.names) =>
                   /\ b1.ok /\ b1.pos = sep1
                   /\ b1.params = Emplaced(a.params, m.names[i], SubSeq(t, at1 + 1, sep1 - 1))
      BY MatchStepIs, Zenon
    <2> QED
      BY <2>1, Zenon
  <1>2. /\ l \in Nat \ {0} /\ z \in Nat \ {0} /\ Len(t) \in Nat /\ Len(s) \in Nat
        /\ \A q \in 0 .. l : d[q] \in Nat
        /\ \A q \in 0 .. z : c[q] \in Nat
        /\ \A q \in 1 .. l : v[q] \in Texts
        /\ \A q \in 1 .. z : w[q] \in Texts
    BY CutIs, Zenon
  <1>3. /\ j \in Nat /\ g \in Nat /\ j < g /\ g - 1 \in j .. z - 1 /\ g - 1 \in Nat /\ g \in 1 .. z
        /\ j \in 0 .. z /\ g - 1 \in 0 .. z /\ g - 1 >= j /\ (g - 1) + 1 = g /\ j <= g - 1
    BY <1>2
  <1>4. c[j] \in Nat /\ c[g - 1] \in Nat /\ n \in Nat /\ c[j] + n = c[g - 1] /\ c[g - 1] <= Len(s)
    <2>1. c[j] \in Nat /\ c[g - 1] \in Nat
      BY <1>2, <1>3
    <2>2. c[j] + ((g - 1) - j) <= c[g - 1]
      <3>1. g - 1 \in j .. z
        BY <1>2, <1>3
      <3> QED
        BY <1>3, <3>1, CutGrows, Zenon
    <2>3. c[j] <= c[g - 1]
      BY <1>3, <2>1, <2>2, SMTT(20)
    <2>4. c[g - 1] <= Len(s)
      <3>1. CASE g - 1 = 0
        <4>1. c[g - 1] = 0
          BY <3>1, CutIs
        <4> QED
          BY <1>2, <4>1
      <3>2. CASE g - 1 # 0
        <4>1. g - 1 \in 1 .. z /\ g - 1 < z
          BY <1>2, <1>3, <3>2
        <4>2. c[g - 1] \in 1 .. Len(s)
          BY <4>1, CutAt, Zenon
        <4> QED
          BY <1>2, <4>2
      <3> QED
        BY <3>1, <3>2
    <2>5. n \in Nat /\ c[j] + n = c[g - 1]
      BY <2>1, <2>3, SMTT(20)
    <2> QED
      BY <2>1, <2>4, <2>5
  <1>5. /\ AgreeTo(v, w, g) => AgreeTo(v, w, j)
        /\ AgreeTo(v, w, g) <=>
             AgreeTo(v, w, j) /\ g - 1 < l /\ \A q \in j + 1 .. g - 1 : v[q] = w[q]
    <2>1. ASSUME AgreeTo(v, w, g)
          PROVE  AgreeTo(v, w, j) /\ g - 1 < l /\ \A q \in j + 1 .. g - 1 : v[q] = w[q]
      BY <1>2, <1>3, <2>1 DEF AgreeTo, Plain
    <2>2. ASSUME AgreeTo(v, w, j), g - 1 < l, \A q \in j + 1 .. g - 1 : v[q] = w[q]
          PROVE  AgreeTo(v, w, g)
      <3>1. ASSUME NEW q \in 1 .. g
            PROVE  IsFree(w[q]) \/ v[q] = w[q]
        <4>1. q \in 1 .. j \/ q \in j + 1 .. g - 1 \/ q = g
          BY <1>3
        <4> QED
          BY <2>2, <4>1, Zenon DEF AgreeTo
      <3> QED
        BY <1>2, <1>3, <2>2, <3>1 DEF AgreeTo
    <2> QED
      BY <2>1, <2>2
  <1>6. a.ok <=> AgreeTo(v, w, j)
    BY DEF RightAt
  <1>7. CASE ~a.ok
    <2>1. ~b.ok
      BY <1>1, <1>7
    <2>2. ~AgreeTo(v, w, g)
      BY <1>5, <1>6, <1>7
    <2> QED
      BY <2>1, <2>2 DEF RightAt, b
  <1>8. CASE a.ok
    <2>1. AgreeTo(v, w, j) /\ a.pos = d[j] /\ Taken(a.params, w, v, j) /\ j <= l
      BY <1>8, Zenon DEF RightAt, AgreeTo
    <2>2. d[j] \in Nat /\ j \in 0 .. l
      BY <1>2, <1>3, <2>1
    <2>3. Len(f) = n
      <3> DEFINE p == c[j]
                 q == c[g - 1]
      <3>1. f = SubSeq(s, p + 1, q)
        OBVIOUS
      <3>2. /\ p \in Nat /\ q \in Nat /\ p + n = q /\ n \in Nat /\ q <= Len(s)
            /\ Len(s) \in Nat /\ s \in Seq(Nat)
        BY <1>2, <1>4 DEF Texts
      <3> HIDE DEF p, q, n, f
      <3>3. p + 1 \in 1 .. Len(s) + 1 /\ q \in (p + 1) - 1 .. Len(s)
        BY <3>2
      <3>4. Len(SubSeq(s, p + 1, q)) = q - (p + 1) + 1
        BY <3>2, <3>3, PieceOf
      <3> QED
        BY <3>1, <3>2, <3>4
    <2>4. /\ at = d[j] + n /\ SubSeq(t, a.pos + 1, at) = SubSeq(t, d[j] + 1, d[j] + n)
          /\ f = SubSeq(s, c[j] + 1, c[j] + n)
      BY <1>4, <2>1, <2>3, Zenon
    <2>5. fits <=> d[j] + n <= Len(t) /\ SameBytes(t, d[j], s, c[j], n)
      <3>1. c[j] + n <= Len(s)
        BY <1>4
      <3>2. d[j] + n <= Len(t) =>
              (SubSeq(t, d[j] + 1, d[j] + n) = SubSeq(s, c[j] + 1, c[j] + n)
                 <=> SameBytes(t, d[j], s, c[j], n))
        <4> HIDE DEF n
        <4> QED
          BY <1>4, <2>2, <3>1, SubSeqSame, Zenon
      <3>3. fits <=> /\ d[j] + n <= Len(t)
                     /\ SubSeq(t, d[j] + 1, d[j] + n) = SubSeq(s, c[j] + 1, c[j] + n)
        BY <1>8, <2>4, Zenon
      <3> HIDE DEF fits, n
      <3> QED
        BY <3>2, <3>3, Zenon
    <2>6. LET agree == g - 1 < Len(v) /\ \A q \in j + 1 .. g - 1 : v[q] = w[q]
          IN  /\ agree => d[g - 1] = d[j] + n
              /\ d[j] + n <= Len(t) /\ SameBytes(t, d[j], s, c[j], n) <=> agree
      BY <1>3, <2>1, PartsSame
    <2>7. /\ fits <=> AgreeTo(v, w, g)
          /\ fits => d[g - 1] = at
      <3> HIDE DEF fits, n, at
      <3> QED
        BY <1>5, <2>1, <2>4, <2>5, <2>6
    <2>8. CASE ~fits
      <3>1. ~b.ok /\ ~AgreeTo(v, w, g)
        BY <1>1, <2>7, <2>8, Zenon
      <3> QED
        BY <3>1 DEF RightAt, b
    <2>9. CASE fits
      <3>1. AgreeTo(v, w, g) /\ at = d[g - 1]
        BY <2>7, <2>9, Zenon
      <3>2. g \in 1 .. l
        BY <1>2, <1>3, <3>1 DEF AgreeTo
      <3>3. d[g - 1] \in Nat /\ d[g] = d[g - 1] + Len(v[g]) + 1 /\ Len(v[g]) \in Nat
        BY <3>2, CutOne, Zenon
      <3>4. sep = d[g]
        <4>1. d[g - 1] + 1 \in d[g - 1] + 1 .. d[g]
          BY <3>3, SMTT(20)
        <4>2. Separator(t, d[g - 1] + 1) = d[g]
          BY <3>2, <4>1, SeparatorIs
        <4> QED
          BY <3>1, <4>2, Zenon DEF sep
      <3>5. SubSeq(t, at + 1, sep - 1) = v[g]
        <4>1. SubSeq(t, d[g - 1] + 1, d[g] - 1) = v[g]
          BY <3>2, CutPiece
        <4> HIDE DEF at, sep
        <4> QED
          BY <3>1, <3>4, <4>1, Zenon
      <3>6. b.ok /\ b.pos = d[g] /\ b.params = Emplaced(a.params, Tail(w[g]), v[g])
        <4>1. b.ok /\ b.pos = sep /\ b.params = Emplaced(a.params, m.names[i], x)
          BY <1>1, <2>9, Zenon
        <4>2. x = v[g]
          BY <3>5, Zenon
        <4> HIDE DEF b, x, sep, at
        <4> QED
          BY <3>4, <4>1, <4>2, Zenon
      <3>7. Taken(a.params, w, v, g - 1)
        BY <1>3, <2>1, TakenPlain
      <3>8. Taken(Emplaced(a.params, Tail(w[g]), v[g]), w, v, g)
        <4>1. a.params \in PathParams
          BY DEF Matchings
        <4>2. Tail(w[g]) \in Texts /\ v[g] \in Texts
          <5>1. w[g] \in Seq(Nat) /\ w[g] # <<>> /\ v[g] \in Texts
            BY <1>2, <1>3, <3>2 DEF IsFree, Texts
          <5> QED
            BY <5>1, HeadTailProperties DEF Texts
        <4>3. g - 1 \in Nat /\ (g - 1) + 1 = g
          BY <1>3
        <4> DEFINE k == g - 1
        <4>4. k \in Nat /\ k + 1 = g
          BY <4>3
        <4>5. Taken(a.params, w, v, k)
          BY <3>7
        <4> HIDE DEF k
        <4>6. IsFree(w[k + 1]) /\ Tail(w[k + 1]) \in Texts /\ v[k + 1] \in Texts
          BY <4>2, <4>4
        <4>7. Taken(Emplaced(a.params, Tail(w[k + 1]), v[k + 1]), w, v, k + 1)
          BY <4>1, <4>4, <4>5, <4>6, TakenGrows
        <4> QED
          BY <4>4, <4>7
      <3> HIDE DEF b
      <3> QED
        BY <3>1, <3>6, <3>8, Zenon DEF RightAt, b
    <2> QED
      BY <2>8, <2>9, Zenon
  <1> QED
    BY <1>7, <1>8

\* All fragments that have a name behind them.
LEMMA MatchingKeeps ==
  ASSUME NEW t \in Texts, NEW v, NEW d, IsCut(d, t, v),
         NEW s \in Texts, NEW w, NEW c, IsCut(c, s, w),
         NEW m \in Matchers, NEW r, IsMatching(r, m, t),
         NEW k, k = Len(m.names), NEW e, AreFree(e, k, w, 0), Matches(m, e, k, c, s, w)
  PROVE  RightAt(r[k], d, v, w, e[k])
  <1> DEFINE z == Len(w)
             T == {h \in Nat : h <= k => RightAt(r[h], d, v, w, e[h])}
             n == Len(m.fragments)
  <1>1. /\ k \in Nat /\ e \in [0 .. k -> 0 .. z] /\ e[0] = 0
        /\ \A i \in 1 .. k : /\ e[i - 1] < e[i] /\ IsFree(w[e[i]])
                             /\ Plain(w, e[i - 1], e[i] - 1)
    BY DEF AreFree
  <1>2. /\ \A i \in 1 .. k : m.names[i] = Tail(w[e[i]])
        /\ \A i \in 1 .. k : m.fragments[i] = SubSeq(s, c[e[i - 1]] + 1, c[e[i] - 1])
        /\ n = k \/ n = k + 1
    BY DEF Matches
  <1>3. /\ r \in [0 .. n -> Matchings] /\ r[0] = Unmatched
        /\ \A i \in 1 .. n : r[i] = MatchStep(m, t, r[i - 1], i)
    BY DEF IsMatching
  <1>4. z \in Nat /\ Len(v) \in Nat /\ d[0] = 0
    BY CutIs
  <1> HIDE DEF z, n
  <1>5. 0 \in T
    <2>1. AgreeTo(v, w, 0)
      BY <1>4 DEF AgreeTo
    <2>2. Taken(NoPathParams, w, v, 0)
      <3>1. FreeIn(w, 0) = {}
        BY DEF FreeIn
      <3> QED
        BY <3>1 DEF Taken, NoPathParams
    <2>3. RightAt(r[0], d, v, w, 0)
      BY <1>3, <1>4, <2>1, <2>2 DEF RightAt, Unmatched
    <2> QED
      BY <1>1, <2>3
  <1>6. ASSUME NEW h \in Nat, h \in T
        PROVE  h + 1 \in T
    <2> SUFFICES ASSUME h + 1 <= k PROVE RightAt(r[h + 1], d, v, w, e[h + 1])
      OBVIOUS
    <2> DEFINE i == h + 1
               j == e[h]
               g == e[i]
               a == r[h]
    <2>1. i \in 1 .. k /\ i - 1 = h /\ i \in 1 .. n /\ h \in 0 .. k /\ i \in 0 .. k /\ h \in 0 .. n
          /\ h <= k /\ i <= k
      BY <1>1, <1>2
    <2> HIDE DEF i
    <2>2. /\ j \in 0 .. z /\ g \in 0 .. z /\ j < g /\ IsFree(w[g]) /\ Plain(w, j, g - 1)
          /\ m.names[i] = Tail(w[g]) /\ m.fragments[i] = SubSeq(s, c[j] + 1, c[g - 1])
      BY <1>1, <1>2, <2>1, Zenon
    <2>3. a \in Matchings /\ r[i] = MatchStep(m, t, a, i)
      BY <1>3, <2>1
    <2>4. RightAt(a, d, v, w, j)
      BY <1>6, <2>1
    <2> HIDE DEF j, g, a
    <2>5. g \in j + 1 .. z
      BY <1>4, <2>2
    <2>6. RightAt(MatchStep(m, t, a, i), d, v, w, g)
      BY <2>1, <2>2, <2>3, <2>4, <2>5, MatchingGoes, Zenon DEF z, n
    <2> QED
      BY <2>3, <2>6 DEF g, i
  <1>7. k \in T
    <2> HIDE DEF T
    <2> QED
      BY <1>1, <1>5, <1>6, NatSetInduction, Zenon
  <1> QED
    BY <1>1, <1>7

\* Nothing but an empty part is left behind the j-th.
LEMMA EndsBehind ==
  ASSUME NEW t \in Texts, NEW v, NEW d, IsCut(d, t, v), NEW j \in 1 .. Len(v)
  PROVE  d[j] >= Len(t) <=> Len(v) = j \/ (Len(v) = j + 1 /\ v[j + 1] = <<>>)
  <1> DEFINE l == Len(v)
             x == d[j]
             m == Len(t)
  <1>1. /\ l \in Nat \ {0} /\ m \in Nat /\ d[l] = m + 1 /\ j \in Nat
        /\ \A i \in 0 .. l : d[i] \in Nat
    BY CutIs
  <1>2. x \in Nat
    BY <1>1
  <1>3. CASE l = j
    BY <1>1, <1>3
  <1>4. CASE l = j + 1
    <2>1. j + 1 \in 1 .. l /\ (j + 1) - 1 = j
      BY <1>1, <1>4
    <2>2. /\ d[(j + 1) - 1] \in Nat /\ d[j + 1] = d[(j + 1) - 1] + Len(v[j + 1]) + 1
          /\ Len(v[j + 1]) \in Nat
      BY <2>1, CutOne, Zenon
    <2> DEFINE p == v[j + 1]
               n == Len(p)
    <2>3. n \in Nat /\ m + 1 = x + n + 1
      BY <1>1, <1>4, <2>1, <2>2
    <2>4. n = 0 <=> p = <<>>
      <3>1. p \in Seq(Nat)
        BY <2>1, CutIs DEF Texts
      <3> QED
        BY <3>1, EmptySeq
    <2>5. ~(l = j)
      BY <1>1, <1>4
    <2> HIDE DEF l, x, m, n, p
    <2>6. x >= m <=> n = 0
      BY <1>1, <1>2, <2>3
    <2> QED
      BY <1>4, <2>4, <2>5, <2>6 DEF l, x, m, p
  <1>5. CASE ~(l = j) /\ ~(l = j + 1)
    <2>1. j \in 0 .. l /\ j + 2 \in j .. l /\ l \in j + 2 .. l /\ j + 2 \in 0 .. l
      BY <1>1, <1>5
    <2>2. d[j] + ((j + 2) - j) <= d[j + 2]
      BY <2>1, CutGrows
    <2>3. d[j + 2] + (l - (j + 2)) <= d[l]
      BY <2>1, CutGrows
    <2>4. d[j + 2] \in Nat /\ l - (j + 2) \in Nat /\ (j + 2) - j = 2
      BY <1>1, <2>1
    <2> DEFINE y == d[j + 2]
               g == l - (j + 2)
    <2>5. y \in Nat /\ g \in Nat /\ x + 2 <= y /\ y + g <= m + 1
      BY <1>1, <2>2, <2>3, <2>4
    <2> HIDE DEF l, x, m, y, g
    <2>6. ~(x >= m)
      BY <1>1, <1>2, <2>5
    <2> QED
      BY <1>5, <2>6 DEF l, x, m
  <1> QED
    BY <1>3, <1>4, <1>5

\* Which parts of the pattern, the first x, a path must have; an empty part may
\* follow them, if the last of them is free.
IsWanted(w, x) ==
  \/ x = Len(w) /\ (w[x] = <<>> => ~IsFree(w[x - 1]))
  \/ x = Len(w) - 1 /\ w[x + 1] = <<>> /\ IsFree(w[x])
HasThese(v, w, x) ==
  /\ AgreeTo(v, w, x)
  /\ Len(v) = x \/ (Len(v) = x + 1 /\ v[x + 1] = <<>> /\ IsFree(w[x]))
RouteHolds(a, v, w) ==
  \E x \in 1 .. Len(w) : /\ IsWanted(w, x) /\ (a.ok <=> HasThese(v, w, x))
                         /\ a.ok => Taken(a.params, w, v, x)

\* A match without a last fragment.
LEMMA RouteNamed ==
  ASSUME NEW t \in Texts, NEW v, NEW d, IsCut(d, t, v),
         NEW s \in Texts, NEW w, NEW c, IsCut(c, s, w), s # <<>>,
         NEW j \in 1 .. Len(w), IsFree(w[j]), ~(c[j] + 1 <= Len(s)),
         NEW a \in Matchings, RightAt(a, d, v, w, j)
  PROVE  RouteHolds([ok |-> a.ok /\ a.pos >= Len(t), params |-> a.params], v, w)
  <1> DEFINE z == Len(w)
             M == [ok |-> a.ok /\ a.pos >= Len(t), params |-> a.params]
  <1>1. /\ z \in Nat \ {0} /\ Len(s) \in Nat /\ c[z] = Len(s) + 1 /\ j \in Nat
        /\ \A i \in 0 .. z : c[i] \in Nat
        /\ Len(v) \in Nat
    BY CutIs
  <1>2. IsWanted(w, j)
    <2>1. CASE j = z
      BY <2>1 DEF IsWanted, IsFree
    <2>2. CASE j # z
      <3>1. j + 1 \in 1 .. z /\ j + 1 \in j .. z /\ z \in j + 1 .. z /\ j + 1 \in 0 .. z
            /\ j \in 0 .. z /\ (j + 1) - 1 = j
        BY <1>1, <2>2
      <3>2. /\ c[(j + 1) - 1] \in Nat /\ c[j + 1] = c[(j + 1) - 1] + Len(w[j + 1]) + 1
            /\ Len(w[j + 1]) \in Nat
        BY <3>1, CutOne, Zenon
      <3>3. c[j + 1] + (z - (j + 1)) <= c[z]
        BY <3>1, CutGrows
      <3> DEFINE x == c[j]
                 y == c[j + 1]
                 n == Len(w[j + 1])
                 g == z - (j + 1)
                 m == Len(s)
      <3>4. /\ x \in Nat /\ y \in Nat /\ n \in Nat /\ g \in Nat /\ m \in Nat
            /\ y = x + n + 1 /\ y + g <= m + 1 /\ ~(x + 1 <= m)
        BY <1>1, <3>1, <3>2, <3>3
      <3> HIDE DEF x, y, n, g, m
      <3>5. n = 0 /\ g = 0
        BY <3>4
      <3>6. j = z - 1
        BY <1>1, <3>5 DEF g
      <3>7. w[j + 1] = <<>>
        <4>1. w[j + 1] \in Seq(Nat)
          BY <3>1, CutIs, Zenon DEF Texts
        <4> QED
          BY <3>5, <4>1, EmptySeq DEF n
      <3> QED
        BY <3>6, <3>7 DEF IsWanted
    <2> QED
      BY <2>1, <2>2
  <1>3. M.ok <=> HasThese(v, w, j)
    <2>1. CASE ~a.ok
      BY <2>1, Zenon DEF RightAt, HasThese
    <2>2. CASE a.ok
      <3>1. AgreeTo(v, w, j) /\ a.pos = d[j] /\ j \in 1 .. Len(v)
        BY <1>1, <2>2 DEF RightAt, AgreeTo
      <3>2. d[j] >= Len(t) <=> Len(v) = j \/ (Len(v) = j + 1 /\ v[j + 1] = <<>>)
        BY <3>1, EndsBehind
      <3>3. M.ok <=> d[j] >= Len(t)
        BY <2>2, <3>1, Zenon
      <3> HIDE DEF M
      <3> QED
        BY <3>1, <3>2, <3>3 DEF HasThese
    <2> QED
      BY <2>1, <2>2
  <1>4. M.ok => Taken(M.params, w, v, j)
    BY Zenon DEF RightAt
  <1> HIDE DEF M
  <1>5. RouteHolds(M, v, w)
    BY <1>2, <1>3, <1>4 DEF RouteHolds
  <1> QED
    BY <1>5 DEF M

\* A match with a last fragment.
LEMMA RoutePlain ==
  ASSUME NEW t \in Texts, NEW v, NEW d, IsCut(d, t, v),
         NEW s \in Texts, NEW w, NEW c, IsCut(c, s, w),
         NEW m \in Matchers, NEW i \in 1 .. Len(m.fragments), i > Len(m.names),
         NEW j \in 0 .. Len(w), Plain(w, j, Len(w)), c[j] + 1 <= Len(s),
         m.fragments[i] = SubSeq(s, c[j] + 1, Len(s)),
         NEW a \in Matchings, RightAt(a, d, v, w, j),
         NEW b, b = MatchStep(m, t, a, i)
  PROVE  RouteHolds([ok |-> b.ok /\ b.pos >= Len(t), params |-> b.params], v, w)
  <1> DEFINE z == Len(w)
             l == Len(v)
             M == [ok |-> b.ok /\ b.pos >= Len(t), params |-> b.params]
             f == m.fragments[i]
             at == a.pos + Len(f)
             fits == a.ok /\ at <= Len(t) /\ SubSeq(t, a.pos + 1, at) = f
             n == Len(s) - c[j]
  <1>1. /\ z \in Nat \ {0} /\ l \in Nat \ {0} /\ Len(s) \in Nat /\ Len(t) \in Nat
        /\ c[z] = Len(s) + 1 /\ j \in Nat
        /\ \A x \in 0 .. z : c[x] \in Nat
        /\ \A x \in 0 .. l : d[x] \in Nat
        /\ \A x \in 1 .. z : w[x] \in Texts
        /\ \A x \in 1 .. l : v[x] \in Texts
    BY CutIs, SMTT(20)
  <1>2. c[j] \in Nat /\ j # z /\ j \in 0 .. z - 1 /\ z \in j + 1 .. z /\ j < z
    <2>1. c[j] \in Nat
      BY <1>1
    <2>2. j # z
      <3> SUFFICES ASSUME j = z PROVE FALSE
        OBVIOUS
      <3>1. c[j] = Len(s) + 1
        BY <1>1
      <3> QED
        BY <1>1, <3>1
    <2> QED
      BY <1>1, <2>1, <2>2
  <1>3. /\ ~fits => ~b.ok
        /\ fits => b.ok /\ b.pos = at /\ b.params = a.params
    <2>1. LET f1 == m.fragments[i]
              at1 == a.pos + Len(f1)
              sep1 == Separator(t, at1 + 1)
              fits1 == a.ok /\ at1 <= Len(t) /\ SubSeq(t, a.pos + 1, at1) = f1
              b1 == MatchStep(m, t, a, i)
          IN  /\ b1 \in Matchings
              /\ ~fits1 => ~b1.ok
              /\ fits1 /\ i > Len(m.names) => b1.ok /\ b1.pos = at1 /\ b1.params = a.params
              /\ fits1 /\ i <= Len(m.names) =>
                   /\ b1.ok /\ b1.pos = sep1
                   /\ b1.params = Emplaced(a.params, m.names[i], SubSeq(t, at1 + 1, sep1 - 1))
      BY MatchStepIs, Zenon
    <2> QED
      BY <2>1, Zenon
  <1>4. IsWanted(w, z)
    <2> SUFFICES ASSUME w[z] = <<>> PROVE ~IsFree(w[z - 1])
      BY DEF IsWanted
    <2>1. z \in 1 .. z
      BY <1>1
    <2>2. c[z - 1] \in Nat /\ c[z] = c[z - 1] + Len(w[z]) + 1 /\ Len(w[z]) = 0
      <3>1. c[z - 1] \in Nat /\ c[z] = c[z - 1] + Len(w[z]) + 1
        BY <2>1, CutOne
      <3>2. Len(w[z]) = 0
        BY EmptySeq
      <3> QED
        BY <3>1, <3>2
    <2>3. j # z - 1
      <3> SUFFICES ASSUME j = z - 1 PROVE FALSE
        OBVIOUS
      <3>1. c[z] = c[j] + 0 + 1
        BY <2>2
      <3> QED
        BY <1>1, <1>2, <3>1
    <2>4. z - 1 \in j + 1 .. z
      BY <1>1, <1>2, <2>3
    <2> QED
      BY <2>4 DEF Plain
  <1>5. ~IsFree(w[z])
    BY <1>2 DEF Plain
  <1>6. HasThese(v, w, z) <=>
          AgreeTo(v, w, j) /\ l = z /\ \A q \in j + 1 .. z : v[q] = w[q]
    <2>1. ASSUME HasThese(v, w, z)
          PROVE  AgreeTo(v, w, j) /\ l = z /\ \A q \in j + 1 .. z : v[q] = w[q]
      <3>1. AgreeTo(v, w, z) /\ l = z
        BY <1>5, <2>1 DEF HasThese
      <3>2. AgreeTo(v, w, j)
        BY <1>1, <1>2, <3>1 DEF AgreeTo
      <3>3. ASSUME NEW q \in j + 1 .. z
            PROVE  v[q] = w[q]
        <4>1. q \in 1 .. z
          BY <1>1
        <4> QED
          BY <3>1, <4>1 DEF AgreeTo, Plain
      <3> QED
        BY <3>1, <3>2, <3>3
    <2>2. ASSUME AgreeTo(v, w, j), l = z, \A q \in j + 1 .. z : v[q] = w[q]
          PROVE  HasThese(v, w, z)
      <3>1. ASSUME NEW q \in 1 .. z
            PROVE  IsFree(w[q]) \/ v[q] = w[q]
        <4>1. q \in 1 .. j \/ q \in j + 1 .. z
          BY <1>1
        <4> QED
          BY <2>2, <4>1 DEF AgreeTo
      <3>2. z <= l
        BY <1>1, <2>2
      <3>3. AgreeTo(v, w, z)
        BY <3>1, <3>2 DEF AgreeTo
      <3> QED
        BY <2>2, <3>3 DEF HasThese
    <2> QED
      BY <2>1, <2>2
  <1>7. (M.ok <=> HasThese(v, w, z)) /\ (M.ok => Taken(M.params, w, v, z))
    <2>1. CASE ~a.ok
      <3>1. ~AgreeTo(v, w, j)
        BY <2>1 DEF RightAt
      <3>2. ~M.ok
        BY <1>3, <2>1, Zenon
      <3> HIDE DEF M
      <3> QED
        BY <1>6, <3>1, <3>2
    <2>2. CASE a.ok
      <3>1. AgreeTo(v, w, j) /\ a.pos = d[j] /\ Taken(a.params, w, v, j) /\ j <= l
        BY <2>2, Zenon DEF RightAt, AgreeTo
      <3>2. d[j] \in Nat
        <4>1. j \in 0 .. l
          BY <1>1, <3>1
        <4> QED
          BY <1>1, <4>1
      <3>3. /\ n \in Nat /\ c[j] + n = Len(s)
            /\ d[j] + n = Len(t) /\ SameBytes(t, d[j], s, c[j], n)
                 <=> l = z /\ \A q \in j + 1 .. z : v[q] = w[q]
        <4>1. LET y == Len(s) - c[j]
              IN  /\ y \in Nat
                  /\ d[j] + y = Len(t) /\ SameBytes(t, d[j], s, c[j], y)
                       <=> Len(v) = Len(w) /\ \A q \in j + 1 .. Len(w) : v[q] = w[q]
          BY <1>2, <3>1, RestSame, SMTT(20)
        <4>2. c[j] + n = Len(s)
          BY <1>1, <1>2, SMTT(20)
        <4> QED
          BY <4>1, <4>2, Zenon
      <3>4. Len(f) = n
        <4> DEFINE x == c[j]
                   y == Len(s)
        <4>1. f = SubSeq(s, x + 1, y) /\ x \in Nat /\ x + 1 <= y /\ y \in Nat /\ s \in Seq(Nat)
          BY <1>1, <1>2 DEF Texts
        <4>2. n = y - x
          OBVIOUS
        <4> HIDE DEF x, f, n
        <4>3. x + 1 \in 1 .. Len(s) + 1 /\ y \in (x + 1) - 1 .. Len(s)
          BY <4>1
        <4>4. Len(SubSeq(s, x + 1, y)) = y - (x + 1) + 1
          BY <4>1, <4>3, PieceOf
        <4> QED
          BY <4>1, <4>2, <4>4
      <3>5. at = d[j] + n /\ f = SubSeq(s, c[j] + 1, c[j] + n)
        BY <3>1, <3>3, <3>4, Zenon
      <3>6. fits <=> d[j] + n <= Len(t) /\ SameBytes(t, d[j], s, c[j], n)
        <4>1. c[j] + n <= Len(s)
          BY <1>1, <3>3
        <4>2. d[j] + n <= Len(t) =>
                (SubSeq(t, d[j] + 1, d[j] + n) = SubSeq(s, c[j] + 1, c[j] + n)
                   <=> SameBytes(t, d[j], s, c[j], n))
          <5> HIDE DEF n
          <5> QED
            BY <1>2, <3>2, <3>3, <4>1, SubSeqSame, Zenon
        <4>3. fits <=> /\ d[j] + n <= Len(t)
                       /\ SubSeq(t, d[j] + 1, d[j] + n) = SubSeq(s, c[j] + 1, c[j] + n)
          BY <2>2, <3>1, <3>5, Zenon
        <4> HIDE DEF fits, n
        <4> QED
          BY <4>2, <4>3, Zenon
      <3>7. M.ok <=> fits /\ at >= Len(t)
        <4> HIDE DEF fits, at
        <4> QED
          BY <1>3, Zenon
      <3>8. M.ok <=> d[j] + n = Len(t) /\ SameBytes(t, d[j], s, c[j], n)
        <4> DEFINE x == d[j] + n
                   y == Len(t)
                   same == SameBytes(t, d[j], s, c[j], n)
        <4>1. (fits <=> x <= y /\ same) /\ x = at
          BY <3>5, <3>6, Zenon
        <4>2. x \in Nat /\ y \in Nat
          <5>1. n \in Nat
            BY <3>3
          <5> HIDE DEF n
          <5> QED
            BY <1>1, <3>2, <5>1, SMTT(20)
        <4> HIDE DEF x, y, same, fits, M, at
        <4>3. M.ok <=> fits /\ x >= y
          BY <3>7, <4>1 DEF y
        <4>4. M.ok <=> x = y /\ same
          BY <4>1, <4>2, <4>3
        <4> QED
          BY <4>4 DEF x, y, same
      <3>9. M.ok <=> HasThese(v, w, z)
        <4> HIDE DEF M, n
        <4> QED
          BY <1>6, <3>1, <3>3, <3>8
      <3>10. ASSUME M.ok PROVE Taken(M.params, w, v, z)
        <4>1. fits
          <5> HIDE DEF M, fits, n
          <5> QED
            BY <3>7, <3>10
        <4>2. b.params = a.params
          <5> HIDE DEF fits
          <5> QED
            BY <1>3, <4>1
        <4>3. Taken(a.params, w, v, z)
          <5>1. j \in Nat /\ z \in Nat /\ j <= z /\ Plain(w, j, z)
            BY <1>1, <1>2
          <5> HIDE DEF z
          <5> QED
            BY <3>1, <5>1, TakenPlain
        <4> QED
          BY <4>2, <4>3
      <3> QED
        BY <3>9, <3>10
    <2> QED
      BY <2>1, <2>2
  <1> HIDE DEF M
  <1>8. RouteHolds(M, v, w)
    <2>1. z \in 1 .. z
      BY <1>1
    <2> QED
      BY <1>4, <1>7, <2>1 DEF RouteHolds
  <1> QED
    BY <1>8 DEF M

\* What a match is, for a pattern and a path.
LEMMA RouteIs ==
  ASSUME NEW t \in Texts, NEW v, NEW d, IsCut(d, t, v),
         NEW s \in Texts, NEW w, NEW c, IsCut(c, s, w), s # <<>>, ~IsFree(w[1])
  PROVE  RouteHolds(MatchPath(NewMatcher(s), t), v, w)
  <1> DEFINE m == NewMatcher(s)
             k == Len(m.names)
             n == Len(m.fragments)
             z == Len(w)
  <1>1. PICK e : AreFree(e, k, w, 0) /\ Matches(m, e, k, c, s, w)
    BY MatcherIs DEF HasChain
  <1>2. /\ m \in Matchers /\ n = (IF c[e[k]] + 1 <= Len(s) THEN k + 1 ELSE k)
        /\ c[e[k]] + 1 <= Len(s) => m.fragments[k + 1] = SubSeq(s, c[e[k]] + 1, Len(s))
    BY <1>1 DEF Matches
  <1> HIDE DEF m
  <1>3. PICK r : /\ IsMatching(r, m, t)
                 /\ MatchPath(m, t) = [ok |-> r[n].ok /\ r[n].pos >= Len(t),
                                       params |-> r[n].params]
    BY <1>2, MatchingIs
  <1> DEFINE j == e[k]
             a == r[k]
  <1>4. /\ k \in Nat /\ e \in [0 .. k -> 0 .. z] /\ e[0] = 0
        /\ k # 0 => IsFree(w[j]) /\ e[k - 1] < j
        /\ Plain(w, j, z) /\ j \in 0 .. z
    <2>1. /\ k \in Nat /\ e \in [0 .. k -> 0 .. z] /\ e[0] = 0
          /\ \A i \in 1 .. k : e[i - 1] < e[i] /\ IsFree(w[e[i]])
          /\ Plain(w, j, z)
      BY <1>1 DEF AreFree
    <2> HIDE DEF k
    <2>2. k \in 0 .. k /\ (k # 0 => k \in 1 .. k)
      BY <2>1
    <2> QED
      BY <2>1, <2>2
  <1>5. RightAt(a, d, v, w, j)
    BY <1>1, <1>2, <1>3, MatchingKeeps
  <1>6. /\ Len(s) \in Nat /\ z \in Nat \ {0} /\ c[0] = 0 /\ n \in Nat /\ Len(s) # 0
    <2>1. /\ Len(s) \in Nat /\ z \in Nat \ {0} /\ c[0] = 0
      BY CutIs
    <2>2. Len(s) # 0
      BY EmptySeq DEF Texts
    <2> HIDE DEF k
    <2> QED
      BY <1>2, <1>4, <2>1, <2>2
  <1>7. a \in Matchings
    <2>1. r \in [0 .. n -> Matchings] /\ k \in 0 .. n
      <3>1. r \in [0 .. n -> Matchings]
        BY <1>3 DEF IsMatching
      <3> HIDE DEF k, n
      <3> QED
        BY <1>2, <1>4, <1>6, <3>1
    <2> QED
      BY <2>1
  <1> HIDE DEF k, n, z
  <1>8. CASE c[j] + 1 <= Len(s)
    <2>1. n = k + 1 /\ n \in 1 .. n /\ n > k /\ k = n - 1
      BY <1>2, <1>4, <1>8
    <2>2. r[n] = MatchStep(m, t, a, n)
      <3>1. \A i \in 1 .. n : r[i] = MatchStep(m, t, r[i - 1], i)
        BY <1>3 DEF IsMatching, n
      <3> QED
        BY <2>1, <3>1
    <2>3. m.fragments[n] = SubSeq(s, c[j] + 1, Len(s))
      BY <1>2, <1>8, <2>1
    <2> DEFINE b == r[n]
    <2> HIDE DEF a, b, j
    <2>4. RouteHolds([ok |-> b.ok /\ b.pos >= Len(t), params |-> b.params], v, w)
      BY <1>2, <1>4, <1>5, <1>7, <1>8, <2>1, <2>2, <2>3, RoutePlain, Zenon DEF b, k, n, z
    <2> QED
      BY <1>3, <2>4, Zenon DEF b, m
  <1>9. CASE ~(c[j] + 1 <= Len(s))
    <2>1. n = k
      BY <1>2, <1>9
    <2>2. k # 0
      <3> SUFFICES ASSUME k = 0 PROVE FALSE
        OBVIOUS
      <3>1. c[j] = 0
        BY <1>4, <1>6
      <3> HIDE DEF j
      <3> QED
        BY <1>6, <1>9, <3>1
    <2>3. j \in 1 .. z /\ IsFree(w[j])
      <3>1. e[k - 1] \in 0 .. z
        <4>1. k - 1 \in 0 .. k
          BY <1>4, <2>2
        <4> QED
          BY <1>4, <4>1
      <3> QED
        BY <1>4, <1>6, <2>2, <3>1
    <2>4. RouteHolds([ok |-> a.ok /\ a.pos >= Len(t), params |-> a.params], v, w)
      <3> HIDE DEF a, j
      <3> QED
        BY <1>5, <1>7, <1>9, <2>3, RouteNamed DEF z
    <2> QED
      BY <1>3, <2>1, <2>4, Zenon DEF m
  <1> QED
    BY <1>8, <1>9

\* A list of parts less its last one.
LEMMA FrontPart ==
  ASSUME NEW ps \in Lists
  PROVE  /\ Len(ps) \in Nat \ {0} /\ Last(ps) = ps[Len(ps)]
         /\ Len(Front(ps)) = Len(ps) - 1
         /\ \A i \in 1 .. Len(ps) - 1 : Front(ps)[i] = ps[i]
         /\ DOMAIN Front(ps) = 1 .. Len(ps) - 1 /\ DOMAIN ps = 1 .. Len(ps)
  <1>1. PICK qs \in Seq(Texts), q \in Texts : ps = Append(qs, q)
    BY LastPiece
  <1>2. /\ Len(ps) = Len(qs) + 1 /\ Len(qs) \in Nat /\ ps \in Seq(Texts)
        /\ DOMAIN ps = 1 .. Len(ps)
    BY <1>1, AppendProperties, LenProperties
  <1> DEFINE n == Len(ps)
             f == SubSeq(ps, 1, n - 1)
  <1>3. 1 \in 1 .. Len(ps) + 1 /\ n - 1 \in 1 - 1 .. Len(ps) /\ (n - 1) - 1 + 1 = n - 1
    BY <1>2
  <1>4. /\ f \in Seq(Texts) /\ Len(f) = (n - 1) - 1 + 1
        /\ \A i \in 1 .. (n - 1) - 1 + 1 : f[i] = ps[1 + i - 1]
    BY <1>2, <1>3, PieceOf
  <1>5. DOMAIN f = 1 .. Len(f)
    BY <1>4, LenProperties
  <1>6. \A i \in 1 .. n - 1 : 1 + i - 1 = i
    OBVIOUS
  <1>7. Front(ps) = f /\ Last(ps) = ps[n]
    BY DEF Front, Last
  <1> HIDE DEF f
  <1> QED
    BY <1>2, <1>3, <1>4, <1>5, <1>6, <1>7

\* For any patterns and path: the path matches exactly if its parts agree with
\* those of the pattern; and the parameters are the parts in the places that
\* are free, the first one of each name (HttpText: NewMatcher, MatchPath).
THEOREM RoutesAgree == Spec => []RoutesMatchByPart
  <1>1. ASSUME NEW s \in Texts, NEW t \in Texts, s # <<>>, s[1] = Slash
        PROVE  LET m == MatchPath(NewMatcher(s), t)
                   wanted == Wanted(s)
                   given == Given(t, wanted)
               IN  /\ m.ok <=> /\ Len(given) = Len(wanted)
                               /\ \A i \in DOMAIN wanted : IsFree(wanted[i]) \/ given[i] = wanted[i]
                   /\ m.ok => HasParts(m.params, given, wanted)
    <2> DEFINE v == Pieces(t, Slash)
               w == Pieces(s, Slash)
               m == MatchPath(NewMatcher(s), t)
               wanted == Wanted(s)
               given == Given(t, wanted)
               l == Len(v)
               z == Len(w)
    <2>1. v \in Lists /\ w \in Lists
      BY PiecesIs DEF Slash
    <2>2. PICK c, d : IsCut(c, s, w) /\ IsCut(d, t, v)
      BY CutExists
    <2>3. wanted = IF Last(w) = <<>> /\ IsFree(w[z - 1]) THEN Front(w) ELSE w
      BY Zenon DEF Wanted
    <2>4. given = IF l = Len(wanted) + 1 /\ Last(v) = <<>> /\ IsFree(Last(wanted))
                    THEN Front(v) ELSE v
      BY Zenon DEF Given
    <2> HIDE DEF v, w, wanted, given
    <2>5. w[1] = <<>>
      <3>1. 1 \in 1 .. z /\ w[1] \in Texts /\ Len(w[1]) \in Nat
        <4>1. z \in Nat \ {0}
          BY <2>2, CutIs
        <4>2. 1 \in 1 .. z
          BY <4>1
        <4> QED
          BY <2>2, <4>2, CutIs
      <3>2. Len(w[1]) = 0
        <4> SUFFICES ASSUME Len(w[1]) # 0 PROVE FALSE
          OBVIOUS
        <4>1. 1 \in 1 .. Len(w[1])
          BY <3>1
        <4>2. w[1][1] # Slash /\ s[c[1 - 1] + 1] = w[1][1] /\ c[0] = 0
          BY <2>2, <3>1, <4>1 DEF IsCut
        <4> QED
          BY <1>1, <4>2
      <3> QED
        BY <3>1, <3>2, EmptySeq DEF Texts
    <2>6. PICK x \in 1 .. z : /\ IsWanted(w, x) /\ (m.ok <=> HasThese(v, w, x))
                              /\ m.ok => Taken(m.params, w, v, x)
      <3>1. ~IsFree(w[1])
        BY <2>5 DEF IsFree
      <3>2. RouteHolds(m, v, w)
        BY <1>1, <2>2, <3>1, RouteIs
      <3> HIDE DEF m
      <3> QED
        BY <3>2 DEF RouteHolds
    <2> HIDE DEF m
    <2>7. /\ z \in Nat \ {0} /\ Last(w) = w[z] /\ Len(Front(w)) = z - 1
          /\ \A i \in 1 .. z - 1 : Front(w)[i] = w[i]
          /\ DOMAIN Front(w) = 1 .. z - 1 /\ DOMAIN w = 1 .. z
      BY <2>1, FrontPart
    <2>8. /\ l \in Nat \ {0} /\ Last(v) = v[l] /\ Len(Front(v)) = l - 1
          /\ \A i \in 1 .. l - 1 : Front(v)[i] = v[i]
      BY <2>1, FrontPart
    <2> HIDE DEF l, z
    <2>9. /\ Len(wanted) = x /\ DOMAIN wanted = 1 .. x /\ \A i \in 1 .. x : wanted[i] = w[i]
      <3>1. CASE x = z /\ (w[x] = <<>> => ~IsFree(w[x - 1]))
        <4>1. wanted = w
          BY <2>3, <2>7, <3>1
        <4> QED
          BY <2>7, <3>1, <4>1 DEF z
      <3>2. CASE x = z - 1 /\ w[x + 1] = <<>> /\ IsFree(w[x])
        <4>1. x + 1 = z
          BY <2>7, <3>2
        <4>2. wanted = Front(w)
          BY <2>3, <2>7, <3>2, <4>1
        <4> QED
          BY <2>7, <3>2, <4>2
      <3> QED
        BY <2>6, <3>1, <3>2 DEF IsWanted, z
    <2>10. x \in Nat \ {0} /\ Last(wanted) = w[x]
      <3>1. x \in Nat \ {0} /\ x \in 1 .. x
        BY <2>7
      <3> QED
        BY <2>9, <3>1 DEF Last
    <2>11. given = IF l = x + 1 /\ v[x + 1] = <<>> /\ IsFree(w[x]) THEN Front(v) ELSE v
      BY <2>4, <2>8, <2>9, <2>10
    <2>12. /\ Len(given) = x <=> l = x \/ (l = x + 1 /\ v[x + 1] = <<>> /\ IsFree(w[x]))
           /\ Len(given) = x => \A i \in 1 .. x : given[i] = v[i]
      <3>1. CASE l = x + 1 /\ v[x + 1] = <<>> /\ IsFree(w[x])
        <4>1. given = Front(v) /\ l - 1 = x
          BY <2>10, <2>11, <3>1
        <4> QED
          BY <2>8, <3>1, <4>1
      <3>2. CASE ~(l = x + 1 /\ v[x + 1] = <<>> /\ IsFree(w[x]))
        <4>1. given = v
          BY <2>11, <3>2
        <4> QED
          BY <3>2, <4>1 DEF l
      <3> QED
        BY <3>1, <3>2
    <2>13. HasThese(v, w, x) <=>
             /\ Len(given) = x
             /\ \A i \in 1 .. x : IsFree(w[i]) \/ given[i] = w[i]
      <3>1. Len(given) = x => x <= l
        BY <2>8, <2>10, <2>12
      <3> QED
        BY <2>12, <3>1 DEF HasThese, AgreeTo, l
    <2>14. m.ok <=> /\ Len(given) = Len(wanted)
                    /\ \A i \in DOMAIN wanted : IsFree(wanted[i]) \/ given[i] = wanted[i]
      BY <2>6, <2>9, <2>13
    <2>15. ASSUME m.ok
           PROVE  HasParts(m.params, given, wanted)
      <3>1. \A i \in 1 .. x : given[i] = v[i] /\ wanted[i] = w[i]
        BY <2>6, <2>9, <2>12, <2>13, <2>15
      <3>2. Taken(m.params, w, v, x)
        BY <2>6, <2>15
      <3> DEFINE free == {i \in DOMAIN wanted : IsFree(wanted[i])}
      <3>3. free = FreeIn(w, x)
        BY <2>9, <3>1 DEF FreeIn
      <3>4. \A i \in free : Tail(wanted[i]) = Tail(w[i]) /\ given[i] = v[i]
        BY <2>9, <3>1, Zenon
      <3>5. HasParts(m.params, given, wanted) <=>
              /\ DOMAIN m.params = {Tail(wanted[i]) : i \in free}
              /\ \A i \in free :
                   (\A k \in free : k < i => Tail(wanted[k]) # Tail(wanted[i]))
                     => m.params[Tail(wanted[i])] = given[i]
        BY Zenon DEF HasParts
      <3> HIDE DEF free
      <3>6. DOMAIN m.params = {Tail(wanted[i]) : i \in free}
        <4>1. DOMAIN m.params = {Tail(w[i]) : i \in free}
          BY <3>2, <3>3, Zenon DEF Taken
        <4> QED
          BY <3>4, <4>1
      <3>7. ASSUME NEW i \in free,
                   \A k \in free : k < i => Tail(wanted[k]) # Tail(wanted[i])
            PROVE  m.params[Tail(wanted[i])] = given[i]
        <4>1. FirstOfName(w, x, i)
          BY <3>3, <3>4, <3>7, Zenon DEF FirstOfName
        <4>2. m.params[Tail(w[i])] = v[i]
          BY <3>2, <3>3, <4>1, Zenon DEF Taken
        <4> QED
          BY <3>4, <4>2, Zenon
      <3> QED
        BY <3>5, <3>6, <3>7, Zenon
    <2> QED
      BY <2>14, <2>15, Zenon DEF m, wanted, given
  <1>2. TextType => RoutesMatchByPart
    <2> SUFFICES ASSUME TextType, kind = "route", NEW pattern \in Patterns
                 PROVE  LET m == MatchPath(NewMatcher(pattern), text)
                            wanted == Wanted(pattern)
                            given == Given(text, wanted)
                        IN  /\ m.ok <=> /\ Len(given) = Len(wanted)
                                        /\ \A i \in DOMAIN wanted : IsFree(wanted[i]) \/ given[i] = wanted[i]
                            /\ m.ok => HasParts(m.params, given, wanted)
      BY Zenon DEF RoutesMatchByPart
    <2>1. text \in Texts
      <3> DEFINE B == Bytes
      <3>1. text \in Seq(B) /\ B \subseteq Nat
        BY DEF TextType, Bytes
      <3> HIDE DEF B
      <3> QED
        BY <3>1, SeqOfNumbers, Zenon DEF Texts
    <2>2. pattern \in Texts /\ pattern # <<>> /\ pattern[1] = Slash
      <3> DEFINE B == Bytes \ {0}
      <3>1. pattern \in Seq(B) /\ pattern # <<>> /\ pattern[1] = Slash
        BY PatternsAssumption
      <3>2. B \subseteq Nat
        BY DEF Bytes
      <3> HIDE DEF B
      <3> QED
        BY <3>1, <3>2, SeqOfNumbers, Zenon DEF Texts
    <2> QED
      BY <1>1, <2>1, <2>2, Zenon
  <1> QED
    BY <1>2, TextTyped, PTL

=============================================================================
