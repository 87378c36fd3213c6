---------------------------- MODULE SequenceLemmas ----------------------------
(***************************************************************************)
(* Lemmas that the proofs of several components use.  Sequences as queues: *)
(* what an append at the end and a removal of the head do to the elements, *)
(* to their positions and to a queue that names nothing twice.  Loops over *)
(* sequences: induction over the natural numbers, for sets of them, and    *)
(* the functions that the recursive definitions of a loop define.  Folds:  *)
(* what one makes of a sequence that grows at its end, as a value.  Pieces *)
(* of sequences.                                                           *)
(***************************************************************************)
EXTENDS SequenceTheorems, WellFoundedInduction, SequencesExt, TLAPS

\* What a queue holds after something was appended.
LEMMA AppendElements ==
  ASSUME NEW S, NEW q \in Seq(S), NEW c \in S
  PROVE  /\ Append(q, c) \in Seq(S)
         /\ Len(q) \in Nat
         /\ DOMAIN q = 1 .. Len(q)
         /\ DOMAIN Append(q, c) = 1 .. (Len(q) + 1)
         /\ \A i \in DOMAIN q : Append(q, c)[i] = q[i]
         /\ Append(q, c)[Len(q) + 1] = c
  <1>1. /\ Append(q, c) \in Seq(S)
        /\ Len(Append(q, c)) = Len(q) + 1
        /\ \A i \in 1 .. Len(q) : Append(q, c)[i] = q[i]
        /\ Append(q, c)[Len(q) + 1] = c
    BY AppendProperties
  <1> QED
    BY <1>1, LenProperties

\* What a queue holds after its head was taken.
LEMMA TailElements ==
  ASSUME NEW S, NEW q \in Seq(S), q # <<>>
  PROVE  /\ Head(q) \in S /\ Tail(q) \in Seq(S)
         /\ 1 \in DOMAIN q /\ Head(q) = q[1]
         /\ \A i \in DOMAIN q : i \in Nat \ {0}
         /\ \A i \in DOMAIN Tail(q) :
              /\ i \in Nat \ {0}
              /\ i + 1 \in DOMAIN q
              /\ Tail(q)[i] = q[i + 1]
         /\ \A i \in DOMAIN q : i # 1 =>
              /\ i - 1 \in DOMAIN Tail(q)
              /\ Tail(q)[i - 1] = q[i]
  <1>1. /\ Head(q) \in S /\ Head(q) = q[1] /\ Tail(q) \in Seq(S)
        /\ Len(Tail(q)) = Len(q) - 1
        /\ \A i \in 1 .. Len(Tail(q)) : Tail(q)[i] = q[i + 1]
    BY HeadTailProperties
  <1>2. /\ Len(q) \in Nat \ {0}
        /\ DOMAIN q = 1 .. Len(q) /\ DOMAIN Tail(q) = 1 .. (Len(q) - 1)
    BY <1>1, LenProperties
  <1>3. \A i \in DOMAIN Tail(q) :
          i \in Nat \ {0} /\ i + 1 \in DOMAIN q /\ Tail(q)[i] = q[i + 1]
    BY <1>1, <1>2
  <1>4. ASSUME NEW i \in DOMAIN q, i # 1
        PROVE  i - 1 \in DOMAIN Tail(q) /\ Tail(q)[i - 1] = q[i]
    <2>1. i - 1 \in 1 .. (Len(q) - 1)
      BY <1>2, <1>4
    <2>2. Tail(q)[i - 1] = q[(i - 1) + 1]
      BY <1>1, <2>1
    <2> QED
      BY <1>2, <2>1, <2>2
  <1> QED
    BY <1>1, <1>2, <1>3, <1>4

\* The range of a sequence that grew by one element.
LEMMA RangeAppend ==
  ASSUME NEW S, NEW s \in Seq(S), NEW e \in S
  PROVE  Range(Append(s, e)) = Range(s) \cup {e}
  <1>1. DOMAIN Append(s, e) = 1 .. Len(s) + 1 /\ DOMAIN s = 1 .. Len(s)
    OBVIOUS
  <1>2. Append(s, e)[Len(s) + 1] = e /\ \A i \in 1 .. Len(s) : Append(s, e)[i] = s[i]
    OBVIOUS
  <1>3. Len(s) + 1 \in 1 .. Len(s) + 1 /\ 1 .. Len(s) + 1 = (1 .. Len(s)) \cup {Len(s) + 1}
    OBVIOUS
  <1> QED
    BY <1>1, <1>2, <1>3 DEF Range

\* What is taken from the head of a queue without repetitions leaves it.
LEMMA QueueHead ==
  ASSUME NEW S, NEW q \in Seq(S), q # <<>>, IsInjective(q)
  PROVE  /\ Head(q) \in Range(q)
         /\ Range(Tail(q)) = Range(q) \ {Head(q)}
         /\ IsInjective(Tail(q))
  <1>1. /\ Head(q) = q[1] /\ Tail(q) \in Seq(S)
        /\ Len(Tail(q)) = Len(q) - 1
        /\ \A i \in 1 .. Len(Tail(q)) : Tail(q)[i] = q[i + 1]
    BY HeadTailProperties
  <1>2. /\ Len(q) \in Nat \ {0}
        /\ DOMAIN q = 1 .. Len(q) /\ DOMAIN Tail(q) = 1 .. (Len(q) - 1)
    BY <1>1, LenProperties
  <1>3. 1 \in DOMAIN q
    BY <1>2
  <1>4. ASSUME NEW i \in DOMAIN Tail(q)
        PROVE  i + 1 \in DOMAIN q /\ i + 1 # 1 /\ Tail(q)[i] = q[i + 1]
    BY <1>1, <1>2
  <1>5. ASSUME NEW i \in DOMAIN q, q[i] # Head(q)
        PROVE  i - 1 \in DOMAIN Tail(q) /\ Tail(q)[i - 1] = q[i]
    <2>1. i - 1 \in 1 .. (Len(q) - 1)
      BY <1>1, <1>2, <1>5
    <2>2. Tail(q)[i - 1] = q[(i - 1) + 1]
      BY <1>1, <2>1
    <2> QED
      BY <1>2, <2>1, <2>2
  <1>6. ASSUME NEW i \in DOMAIN Tail(q), NEW j \in DOMAIN Tail(q), Tail(q)[i] = Tail(q)[j]
        PROVE  i = j
    <2>1. q[i + 1] = q[j + 1]
      BY <1>4, <1>6
    <2>2. i + 1 = j + 1
      BY <1>4, <2>1 DEF IsInjective
    <2> QED
      BY <1>2, <2>2
  <1>7. Range(Tail(q)) \subseteq Range(q) \ {Head(q)}
    <2> SUFFICES ASSUME NEW i \in DOMAIN Tail(q)
                 PROVE  Tail(q)[i] \in Range(q) /\ Tail(q)[i] # Head(q)
      BY DEF Range
    <2> QED
      BY <1>1, <1>3, <1>4 DEF IsInjective, Range
  <1>8. Range(q) \ {Head(q)} \subseteq Range(Tail(q))
    BY <1>5 DEF Range
  <1> QED
    BY <1>1, <1>3, <1>6, <1>7, <1>8 DEF IsInjective, Range

\* What is not in the queue is appended.
LEMMA QueueAppend ==
  ASSUME NEW S, NEW q \in Seq(S), NEW c \in S, IsInjective(q), c \notin Range(q)
  PROVE  /\ Range(Append(q, c)) = Range(q) \cup {c}
         /\ IsInjective(Append(q, c))
  <1>1. /\ Append(q, c) \in Seq(S)
        /\ Len(Append(q, c)) = Len(q) + 1
        /\ \A i \in 1 .. Len(q) : Append(q, c)[i] = q[i]
        /\ Append(q, c)[Len(q) + 1] = c
    BY AppendProperties
  <1>2. /\ Len(q) \in Nat
        /\ DOMAIN q = 1 .. Len(q) /\ DOMAIN Append(q, c) = 1 .. (Len(q) + 1)
    BY <1>1, LenProperties
  <1>3. Len(q) + 1 \in DOMAIN Append(q, c)
    BY <1>2
  <1>4. ASSUME NEW i \in DOMAIN q
        PROVE  i \in DOMAIN Append(q, c) /\ Append(q, c)[i] = q[i]
    BY <1>1, <1>2
  <1>5. ASSUME NEW i \in DOMAIN Append(q, c)
        PROVE  i \in DOMAIN q \/ i = Len(q) + 1
    BY <1>2
  <1>6. \A i \in DOMAIN q : q[i] # c
    BY DEF Range
  <1>7. ASSUME NEW i \in DOMAIN Append(q, c), NEW j \in DOMAIN Append(q, c),
               Append(q, c)[i] = Append(q, c)[j]
        PROVE  i = j
    BY <1>1, <1>4, <1>5, <1>6, <1>7 DEF IsInjective
  <1>8. Range(Append(q, c)) \subseteq Range(q) \cup {c}
    BY <1>1, <1>4, <1>5 DEF Range
  <1>9. Range(q) \cup {c} \subseteq Range(Append(q, c))
    BY <1>1, <1>3, <1>4 DEF Range
  <1> QED
    BY <1>7, <1>8, <1>9 DEF IsInjective

\* The second of two sequences is the end of their concatenation.
LEMMA EndOfConcat ==
  ASSUME NEW S, NEW s \in Seq(S), NEW t \in Seq(S), t # <<>>
  PROVE  SubSeq(s \o t, Len(s) + 1, Len(s) + Len(t)) = t
  <1> DEFINE m == Len(s) + 1
             n == Len(s) + Len(t)
  <1>1. Len(s) \in Nat /\ Len(t) \in Nat \ {0}
    BY LenProperties, EmptySeq
  <1>2. /\ m \in Len(s) + 1 .. Len(s) + Len(t) /\ n \in Len(s) + 1 .. Len(s) + Len(t)
        /\ m - Len(s) = 1 /\ n - Len(s) = Len(t)
    BY <1>1
  <1> HIDE DEF m, n
  <1>3. SubSeq(s \o t, m, n) = SubSeq(t, m - Len(s), n - Len(s))
    BY <1>2, SubSeqOfConcat2
  <1>4. SubSeq(s \o t, m, n) = t
    BY <1>2, <1>3, SubSeqFull
  <1> QED
    BY <1>4 DEF m, n

-----------------------------------------------------------------------------
\* Sequences put together: elements that move from the head of one to the end of the
\* one before it do not change the whole.

\* A sequence that is not empty is its head and the rest.
LEMMA HeadAndRest ==
  ASSUME NEW S, NEW s \in Seq(S), s # <<>>
  PROVE  /\ Head(s) \in S /\ Tail(s) \in Seq(S)
         /\ s = <<Head(s)>> \o Tail(s)
  <1>1. /\ Head(s) = s[1] /\ Head(s) \in S /\ Tail(s) \in Seq(S)
        /\ Len(Tail(s)) = Len(s) - 1
        /\ \A i \in 1 .. Len(Tail(s)) : Tail(s)[i] = s[i + 1]
    BY HeadTailProperties
  <1>2. Len(s) \in Nat \ {0}
    BY EmptySeq
  <1>3. <<Head(s)>> \in Seq(S) /\ Len(<<Head(s)>>) = 1 /\ <<Head(s)>>[1] = Head(s)
    BY <1>1
  <1> DEFINE h == <<Head(s)>>
             t == Tail(s)
  <1> HIDE DEF h, t
  <1>4. /\ h \o t \in Seq(S) /\ Len(h \o t) = Len(h) + Len(t)
        /\ \A i \in 1 .. Len(h) + Len(t) :
             (h \o t)[i] = IF i <= Len(h) THEN h[i] ELSE t[i - Len(h)]
    BY <1>1, <1>3, ConcatProperties DEF h, t
  <1>5. Len(h) = 1 /\ Len(t) = Len(s) - 1 /\ h[1] = s[1]
    BY <1>1, <1>3 DEF h, t
  <1>6. \A i \in 1 .. Len(t) : t[i] = s[i + 1]
    BY <1>1 DEF t
  <1>7. Len(h \o t) = Len(s)
    BY <1>2, <1>4, <1>5
  <1>8. ASSUME NEW i \in 1 .. Len(h \o t)
        PROVE  (h \o t)[i] = s[i]
    <2>1. CASE i = 1
      BY <1>2, <1>4, <1>5, <2>1
    <2>2. CASE i # 1
      <3>1. /\ i - 1 \in 1 .. Len(t) /\ ~(i <= Len(h)) /\ i - Len(h) = i - 1
            /\ i \in 1 .. Len(h) + Len(t) /\ (i - 1) + 1 = i
        BY <1>2, <1>5, <1>7, <2>2
      <3>2. (h \o t)[i] = t[i - 1]
        BY <1>4, <3>1, Zenon
      <3> QED
        BY <1>6, <3>1, <3>2, Zenon
    <2> QED
      BY <2>1, <2>2
  <1>9. h \o t = s
    BY <1>4, <1>7, <1>8, SeqEqual
  <1> QED
    BY <1>1, <1>9 DEF h, t

\* An element before a sequence.
LEMMA ElementBefore ==
  ASSUME NEW S, NEW e \in S, NEW t \in Seq(S)
  PROVE  /\ <<e>> \in Seq(S) /\ <<e>> \o t \in Seq(S) /\ <<e>> \o t # <<>>
         /\ Head(<<e>> \o t) = e /\ Tail(<<e>> \o t) = t
         /\ Len(<<e>> \o t) = Len(t) + 1
  <1> DEFINE h == <<e>>
             s == h \o t
  <1>1. h \in Seq(S) /\ Len(h) = 1 /\ h[1] = e
    OBVIOUS
  <1> HIDE DEF h
  <1>2. /\ s \in Seq(S) /\ Len(s) = Len(h) + Len(t)
        /\ \A i \in 1 .. Len(h) + Len(t) :
             s[i] = IF i <= Len(h) THEN h[i] ELSE t[i - Len(h)]
    BY <1>1, ConcatProperties
  <1> HIDE DEF s
  <1>3. Len(t) \in Nat /\ Len(s) = Len(t) + 1
    BY <1>1, <1>2, LenProperties
  <1>4. s # <<>>
    BY <1>3, EmptySeq
  <1>5. /\ Head(s) = s[1] /\ Tail(s) \in Seq(S) /\ Len(Tail(s)) = Len(s) - 1
        /\ \A i \in 1 .. Len(Tail(s)) : Tail(s)[i] = s[i + 1]
    BY <1>2, <1>4, HeadTailProperties
  <1>6. Head(s) = e
    BY <1>1, <1>2, <1>3, <1>5
  <1>7. ASSUME NEW i \in 1 .. Len(Tail(s))
        PROVE  Tail(s)[i] = t[i]
    <2>1. /\ i + 1 \in 1 .. Len(h) + Len(t) /\ ~(i + 1 <= Len(h))
          /\ (i + 1) - Len(h) = i
      BY <1>1, <1>3, <1>5
    <2>2. s[i + 1] = t[(i + 1) - Len(h)]
      BY <1>2, <2>1, Zenon
    <2> QED
      BY <1>5, <2>1, <2>2
  <1>8. Tail(s) = t
    BY <1>3, <1>5, <1>7, SeqEqual
  <1> QED
    BY <1>1, <1>2, <1>3, <1>4, <1>6, <1>8 DEF s, h

\* The head of a concatenation is that of its first part.
LEMMA HeadOfConcat ==
  ASSUME NEW S, NEW s \in Seq(S), NEW t \in Seq(S), s # <<>>
  PROVE  /\ Head(s \o t) = Head(s) /\ Tail(s \o t) = Tail(s) \o t
         /\ s \o t # <<>>
  <1>1. /\ Head(s) \in S /\ Tail(s) \in Seq(S)
        /\ s = <<Head(s)>> \o Tail(s)
    BY HeadAndRest
  <1>2. <<Head(s)>> \in Seq(S)
    BY <1>1
  <1>3. s \o t = <<Head(s)>> \o (Tail(s) \o t)
    BY <1>1, <1>2, ConcatAssociative
  <1>4. Tail(s) \o t \in Seq(S)
    BY <1>1, ConcatProperties
  <1> DEFINE e == Head(s)
             u == Tail(s) \o t
  <1>5. e \in S /\ u \in Seq(S) /\ s \o t = <<e>> \o u
    BY <1>1, <1>3, <1>4
  <1> HIDE DEF e, u
  <1>6. <<e>> \o u # <<>> /\ Head(<<e>> \o u) = e /\ Tail(<<e>> \o u) = u
    BY <1>5, ElementBefore
  <1>7. s \o t # <<>> /\ Head(s \o t) = e /\ Tail(s \o t) = u
    BY <1>5, <1>6, Zenon
  <1> QED
    BY <1>7 DEF e, u

\* The head of the second part moves to the end of the first.
LEMMA MoveHead ==
  ASSUME NEW S, NEW s \in Seq(S), NEW t \in Seq(S), t # <<>>
  PROVE  Append(s, Head(t)) \o Tail(t) = s \o t
  <1>1. /\ Head(t) \in S /\ Tail(t) \in Seq(S) /\ t = <<Head(t)>> \o Tail(t)
    BY HeadAndRest
  <1>2. <<Head(t)>> \in Seq(S) /\ Append(s, Head(t)) = s \o <<Head(t)>>
    BY <1>1, AppendIsConcat
  <1>3. (s \o <<Head(t)>>) \o Tail(t) = s \o (<<Head(t)>> \o Tail(t))
    BY <1>1, <1>2, ConcatAssociative
  <1> QED
    BY <1>1, <1>2, <1>3

\* Three and four sequences put together, from the left or from the right.
Three(S, s, t, u) == s \in Seq(S) /\ t \in Seq(S) /\ u \in Seq(S)
Four(S, s, t, u, v) == Three(S, s, t, u) /\ v \in Seq(S)

ThreeAsOne(S, s, t, u) ==
  /\ s \o t \in Seq(S) /\ t \o u \in Seq(S) /\ s \o (t \o u) \in Seq(S)
  /\ (s \o t) \o u = s \o (t \o u)
FourAsOne(S, s, t, u, v) ==
  /\ u \o v \in Seq(S) /\ t \o (u \o v) \in Seq(S)
  /\ s \o (t \o (u \o v)) \in Seq(S)
  /\ ((s \o t) \o u) \o v = s \o (t \o (u \o v))

\* How three sequences are put together makes no difference.
LEMMA ConcatThree ==
  ASSUME NEW S, NEW s, NEW t, NEW u, Three(S, s, t, u)
  PROVE  ThreeAsOne(S, s, t, u)
  <1>1. s \in Seq(S) /\ t \in Seq(S) /\ u \in Seq(S)
    BY DEF Three
  <1>2. s \o t \in Seq(S) /\ t \o u \in Seq(S)
    BY <1>1, ConcatProperties
  <1>3. s \o (t \o u) \in Seq(S)
    BY <1>1, <1>2, ConcatProperties
  <1>4. (s \o t) \o u = s \o (t \o u)
    BY <1>1, ConcatAssociative
  <1> QED
    BY <1>2, <1>3, <1>4 DEF ThreeAsOne

\* How four sequences are put together makes no difference.
LEMMA ConcatFour ==
  ASSUME NEW S, NEW s, NEW t, NEW u, NEW v, Four(S, s, t, u, v)
  PROVE  FourAsOne(S, s, t, u, v)
  <1> DEFINE x == s \o t
             y == u \o v
  <1>1. s \in Seq(S) /\ t \in Seq(S) /\ u \in Seq(S) /\ v \in Seq(S)
    BY DEF Three, Four
  <1>2. x \in Seq(S)
    BY <1>1, ConcatProperties
  <1>3. y \in Seq(S)
    BY <1>1, ConcatProperties
  <1> HIDE DEF x, y
  <1>4. ThreeAsOne(S, x, u, v) /\ ThreeAsOne(S, s, t, y)
    BY <1>1, <1>2, <1>3, ConcatThree DEF Three
  <1>5. (x \o u) \o v = x \o (u \o v)
    BY <1>4 DEF ThreeAsOne
  <1>6. /\ (s \o t) \o y = s \o (t \o y)
        /\ t \o y \in Seq(S) /\ s \o (t \o y) \in Seq(S)
    BY <1>4 DEF ThreeAsOne
  <1> QED
    BY <1>3, <1>5, <1>6 DEF x, y, FourAsOne

\* The elements of a concatenation, of a tail and of an element before a sequence.
LEMMA ConcatSet ==
  ASSUME NEW S, NEW s \in Seq(S), NEW t \in Seq(S)
  PROVE  ToSet(s \o t) = ToSet(s) \cup ToSet(t)
  <1>1. Range(s \o t) = Range(s) \cup Range(t)
    BY RangeConcatenation
  <1> QED
    BY <1>1, Zenon DEF Range, ToSet

\* The elements of a sequence are its first and the others.
LEMMA HeadSet ==
  ASSUME NEW S, NEW s \in Seq(S), s # <<>>
  PROVE  ToSet(s) = {Head(s)} \cup ToSet(Tail(s))
  <1>1. /\ Head(s) \in S /\ Tail(s) \in Seq(S) /\ s = <<Head(s)>> \o Tail(s)
    BY HeadAndRest
  <1>2. <<Head(s)>> \in Seq(S) /\ ToSet(<<Head(s)>>) = {Head(s)}
    BY <1>1 DEF ToSet
  <1> DEFINE h == <<Head(s)>>
             u == Tail(s)
  <1>3. h \in Seq(S) /\ u \in Seq(S) /\ ToSet(h) = {Head(s)} /\ s = h \o u
    BY <1>1, <1>2
  <1> HIDE DEF h, u
  <1>4. ToSet(h \o u) = ToSet(h) \cup ToSet(u)
    BY <1>3, ConcatSet
  <1>5. ToSet(s) = {Head(s)} \cup ToSet(u)
    BY <1>3, <1>4, Zenon
  <1> QED
    BY <1>5 DEF u

-----------------------------------------------------------------------------
\* Induction over the natural numbers, for the set of those that have a property.
LEMMA NatSetInduction ==
  ASSUME NEW T, 0 \in T, \A n \in Nat : n \in T => n + 1 \in T
  PROVE  Nat \subseteq T
  <1> DEFINE Rest == Nat \ T
  <1> SUFFICES ASSUME Rest # {} PROVE FALSE
    OBVIOUS
  <1>1. PICK x \in Rest : \A y \in Rest : ~(<<y, x>> \in OpToRel(<, Nat))
    BY WFMin, NatLessThanWellFounded
  <1>2. x \in Nat /\ x # 0
    OBVIOUS
  <1>3. x - 1 \in Rest
    BY <1>2
  <1>4. <<x - 1, x>> \in OpToRel(<, Nat)
    BY <1>2 DEF OpToRel
  <1> QED
    BY <1>1, <1>3, <1>4

\* The greatest number of a non-empty set of numbers up to n.
LEMMA MaxOfSubset ==
  ASSUME NEW n \in Nat, NEW s \in SUBSET (1 .. n), s # {}
  PROVE  Max(s) \in s /\ \A y \in s : y <= Max(s)
  <1> DEFINE T == {m \in Nat : \A u \in SUBSET (1 .. m) :
                     u # {} => \E x \in u : \A y \in u : x >= y}
  <1>1. 0 \in T
    <2>1. 1 .. 0 = {}
      OBVIOUS
    <2> QED
      BY <2>1
  <1>2. ASSUME NEW m \in Nat, m \in T
        PROVE  m + 1 \in T
    <2> SUFFICES ASSUME NEW u \in SUBSET (1 .. m + 1), u # {}
                 PROVE  \E x \in u : \A y \in u : x >= y
      OBVIOUS
    <2>1. CASE m + 1 \in u
      BY <2>1
    <2>2. CASE m + 1 \notin u
      <3>1. u \in SUBSET (1 .. m)
        BY <2>2
      <3> QED
        BY <1>2, <3>1
    <2> QED
      BY <2>1, <2>2
  <1> HIDE DEF T
  <1>3. n \in T
    BY <1>1, <1>2, NatSetInduction
  <1>4. PICK x \in s : \A y \in s : x >= y
    BY <1>3 DEF T
  <1>5. Max(s) \in s /\ \A y \in s : Max(s) >= y
    BY <1>4, Zenon DEF Max
  <1> QED
    BY <1>5

\* The greatest of the numbers from 1 to k.
LEMMA MaxOfInterval ==
  ASSUME NEW n \in Nat, NEW k \in 1 .. n
  PROVE  /\ 1 .. k \in SUBSET (1 .. n) /\ 1 .. k # {}
         /\ Max(1 .. k) = k
         /\ (1 .. k) \ {k} = 1 .. k - 1
  <1>1. 1 .. k \in SUBSET (1 .. n) /\ k \in 1 .. k
    OBVIOUS
  <1>2. Max(1 .. k) \in 1 .. k /\ \A y \in 1 .. k : y <= Max(1 .. k)
    BY <1>1, MaxOfSubset
  <1>3. Max(1 .. k) = k
    BY <1>1, <1>2
  <1> QED
    BY <1>1, <1>3

\* What a fold of the community modules and what a loop computes, when step[i][v] is
\* the value that the i-th element makes of v.
IsFold(f, n, base, step) ==
  /\ f[{}] = base
  /\ \A s \in SUBSET (1 .. n) : s # {} => f[s] = step[Max(s)][f[s \ {Max(s)}]]
IsLoop(f, n, base, step) ==
  /\ f[0] = base
  /\ \A i \in 1 .. n : f[i] = step[i][f[i - 1]]

\* What the folds of the community modules define exists: a function of the subsets
\* of 1..n that takes the greatest element off its argument.
LEMMA SubsetRecursion ==
  ASSUME NEW n \in Nat, NEW V, NEW base \in V, NEW step \in [1 .. n -> [V -> V]]
  PROVE  \E f \in [SUBSET (1 .. n) -> V] :
           IsFold(f, n, base, step)
  <1> USE DEF IsFold
  <1> DEFINE Fold(m, f) == f \in [SUBSET (1 .. m) -> V] /\ IsFold(f, m, base, step)
             T == {m \in Nat : m <= n => \E f : Fold(m, f)}
  <1>1. 0 \in T
    <2>1. SUBSET (1 .. 0) = {{}}
      OBVIOUS
    <2>2. Fold(0, [s \in SUBSET (1 .. 0) |-> base])
      BY <2>1
    <2> HIDE DEF Fold
    <2> QED
      BY <2>2
  <1>2. ASSUME NEW m \in Nat, m \in T
        PROVE  m + 1 \in T
    <2> HIDE DEF Fold
    <2> SUFFICES ASSUME m + 1 <= n PROVE \E f : Fold(m + 1, f)
      OBVIOUS
    <2> USE DEF Fold
    <2>1. PICK f : Fold(m, f)
      <3> HIDE DEF Fold
      <3> QED
        BY <1>2
    <2> DEFINE g == [s \in SUBSET (1 .. m + 1) |->
                       IF m + 1 \in s THEN step[m + 1][f[s \ {m + 1}]] ELSE f[s]]
    <2>2. ASSUME NEW s \in SUBSET (1 .. m + 1)
          PROVE  /\ m + 1 \in s => s \ {m + 1} \in SUBSET (1 .. m)
                 /\ m + 1 \notin s => s \in SUBSET (1 .. m)
      OBVIOUS
    <2>3. step[m + 1] \in [V -> V]
      BY m + 1 \in 1 .. n
    <2>4. g \in [SUBSET (1 .. m + 1) -> V]
      BY <2>1, <2>2, <2>3
    <2>5. g[{}] = base
      BY <2>1
    <2>6. ASSUME NEW s \in SUBSET (1 .. m + 1), s # {}
          PROVE  g[s] = step[Max(s)][g[s \ {Max(s)}]]
      <3>1. Max(s) \in s /\ \A y \in s : y <= Max(s)
        BY <2>6, m + 1 \in Nat, MaxOfSubset
      <3>2. s \ {Max(s)} \in SUBSET (1 .. m + 1)
        OBVIOUS
      <3>3. CASE m + 1 \in s
        <4>1. Max(s) = m + 1
          BY <3>1, <3>3, Max(s) \in 1 .. m + 1
        <4>2. g[s \ {m + 1}] = f[s \ {m + 1}]
          BY <3>2, <4>1
        <4> QED
          BY <3>3, <4>1, <4>2
      <3>4. CASE m + 1 \notin s
        <4>1. s \in SUBSET (1 .. m) /\ m + 1 \notin s \ {Max(s)}
          BY <2>2, <3>4
        <4>2. f[s] = step[Max(s)][f[s \ {Max(s)}]]
          BY <2>1, <2>6, <4>1
        <4>3. g[s] = f[s] /\ g[s \ {Max(s)}] = f[s \ {Max(s)}]
          BY <3>2, <3>4, <4>1
        <4> QED
          BY <4>2, <4>3
      <3> QED
        BY <3>3, <3>4
    <2> HIDE DEF g
    <2>7. Fold(m + 1, g)
      BY <2>4, <2>5, <2>6
    <2> QED
      BY <2>7, Zenon
  <1>3. PICK f : Fold(n, f)
    <2> HIDE DEF Fold
    <2>1. n \in T
      <3> HIDE DEF T
      <3> QED
        BY <1>1, <1>2, NatSetInduction
    <2> QED
      BY <2>1
  <1> QED
    BY <1>3, Zenon

\* What a loop defines exists: its value after the first i of n steps.
LEMMA LoopRecursion ==
  ASSUME NEW n \in Nat, NEW V, NEW base \in V, NEW step \in [1 .. n -> [V -> V]]
  PROVE  \E f \in [0 .. n -> V] :
           IsLoop(f, n, base, step)
  <1>1. PICK g \in [SUBSET (1 .. n) -> V] : IsFold(g, n, base, step)
    BY SubsetRecursion
  <1> DEFINE f == [i \in 0 .. n |-> g[1 .. i]]
  <1>2. \A i \in 0 .. n : 1 .. i \in SUBSET (1 .. n)
    OBVIOUS
  <1>3. f \in [0 .. n -> V]
    BY <1>2
  <1>4. f[0] = base
    <2>1. 1 .. 0 = {} /\ f[0] = g[1 .. 0]
      OBVIOUS
    <2>2. g[{}] = base
      BY <1>1 DEF IsFold
    <2> QED
      BY <2>1, <2>2
  <1>5. ASSUME NEW i \in 1 .. n
        PROVE  f[i] = step[i][f[i - 1]]
    <2>1. /\ 1 .. i \in SUBSET (1 .. n) /\ 1 .. i # {}
          /\ Max(1 .. i) = i /\ (1 .. i) \ {i} = 1 .. i - 1
      BY MaxOfInterval
    <2>2. g[1 .. i] = step[Max(1 .. i)][g[(1 .. i) \ {Max(1 .. i)}]]
      BY <1>1, <2>1 DEF IsFold
    <2>3. f[i] = g[1 .. i] /\ f[i - 1] = g[1 .. i - 1]
      OBVIOUS
    <2> QED
      BY <2>1, <2>2, <2>3
  <1> HIDE DEF f
  <1> QED
    BY <1>3, <1>4, <1>5 DEF IsLoop

\* f holds the sequences put together, after each of them.
IsFlattening(f, S, seqs) ==
  /\ f \in [0 .. Len(seqs) -> Seq(S)]
  /\ f[0] = <<>>
  /\ \A i \in 1 .. Len(seqs) : f[i] = f[i - 1] \o seqs[i]

\* FlattenSeq puts one sequence after the other.
LEMMA FlattenIsLoop ==
  ASSUME NEW S, NEW seqs \in Seq(Seq(S))
  PROVE  \E f : IsFlattening(f, S, seqs) /\ FlattenSeq(seqs) = f[Len(seqs)]
  <1> DEFINE n == Len(seqs)
             step == [i \in 1 .. n |-> [v \in Seq(S) |-> v \o seqs[i]]]
             Loop(g) == g = [i \in 1 .. n |->
                              IF i = 1 THEN seqs[i] ELSE g[i - 1] \o seqs[i]]
             it == CHOOSE g : Loop(g)
  <1>1. FlattenSeq(seqs) = IF n = 0 THEN seqs ELSE it[n]
    BY Zenon DEF FlattenSeq
  <1>2. n \in Nat /\ \A i \in 1 .. n : seqs[i] \in Seq(S)
    BY LenProperties, ElementOfSeq
  <1>3. n = 0 => seqs = <<>>
    BY EmptySeq
  <1> HIDE DEF n
  <1>4. ASSUME NEW v \in Seq(S), NEW i \in 1 .. n
        PROVE  v \o seqs[i] \in Seq(S)
    BY <1>2, ConcatProperties
  <1>5. step \in [1 .. n -> [Seq(S) -> Seq(S)]] /\ <<>> \in Seq(S)
    BY <1>4
  <1>6. PICK f \in [0 .. n -> Seq(S)] : IsLoop(f, n, <<>>, step)
    <2> HIDE DEF step
    <2> QED
      BY <1>2, <1>5, LoopRecursion
  <1>7. f[0] = <<>>
    BY <1>6 DEF IsLoop
  <1>8. ASSUME NEW i \in 1 .. n
        PROVE  f[i] = f[i - 1] \o seqs[i]
    <2>1. f[i] = step[i][f[i - 1]]
      <3> HIDE DEF step
      <3> QED
        BY <1>6 DEF IsLoop
    <2>2. f[i - 1] \in Seq(S)
      BY <1>2
    <2> QED
      BY <2>1, <2>2
  <1> HIDE DEF step
  <1>9. Loop([i \in 1 .. n |-> f[i]])
    <2> DEFINE g == [i \in 1 .. n |-> f[i]]
    <2>1. ASSUME NEW i \in 1 .. n
          PROVE  g[i] = IF i = 1 THEN seqs[i] ELSE g[i - 1] \o seqs[i]
      <3>1. CASE i = 1
        <4>1. f[1] = <<>> \o seqs[1]
          <5>1. 1 \in 1 .. n /\ 1 - 1 = 0
            BY <3>1
          <5> QED
            BY <1>7, <1>8, <5>1, Zenon
        <4>2. <<>> \o seqs[1] = seqs[1]
          BY <1>2, <3>1, ConcatEmptySeq
        <4> QED
          BY <3>1, <4>1, <4>2
      <3>2. CASE i # 1
        <4>1. i - 1 \in 1 .. n
          BY <1>2, <3>2
        <4> QED
          BY <1>8, <3>2, <4>1
      <3> QED
        BY <3>1, <3>2
    <2>2. g = [i \in 1 .. n |-> g[i]]
      OBVIOUS
    <2> HIDE DEF g
    <2>3. g = [i \in 1 .. n |-> IF i = 1 THEN seqs[i] ELSE g[i - 1] \o seqs[i]]
      BY <2>1, <2>2, Zenon
    <2>4. Loop(g)
      BY <2>3, Zenon
    <2> QED
      BY <2>4, Zenon DEF g
  <1>10. Loop(it)
    <2> HIDE DEF Loop
    <2> QED
      BY <1>9, Zenon
  <1>11. ASSUME NEW i \in 1 .. n
         PROVE  it[i] = IF i = 1 THEN seqs[i] ELSE it[i - 1] \o seqs[i]
    <2> HIDE DEF it
    <2> QED
      BY <1>10, Zenon
  <1> HIDE DEF it
  <1> DEFINE T == {k \in Nat : k \in 1 .. n => it[k] = f[k]}
  <1>12. 0 \in T
    OBVIOUS
  <1>13. ASSUME NEW k \in Nat, k \in T
         PROVE  k + 1 \in T
    <2> SUFFICES ASSUME k + 1 \in 1 .. n PROVE it[k + 1] = f[k + 1]
      OBVIOUS
    <2>1. it[k + 1] = IF k + 1 = 1 THEN seqs[k + 1] ELSE it[(k + 1) - 1] \o seqs[k + 1]
      BY <1>11
    <2>2. f[k + 1] = f[(k + 1) - 1] \o seqs[k + 1]
      BY <1>8
    <2>3. (k + 1) - 1 = k
      OBVIOUS
    <2>4. CASE k = 0
      <3>1. f[k + 1] = <<>> \o seqs[k + 1]
        BY <1>7, <2>2, <2>3, <2>4, Zenon
      <3>2. <<>> \o seqs[k + 1] = seqs[k + 1]
        BY <1>2, ConcatEmptySeq
      <3>3. k + 1 = 1
        BY <2>4
      <3> QED
        BY <2>1, <3>1, <3>2, <3>3, Zenon
    <2>5. CASE k # 0
      <3>1. k \in 1 .. n /\ k + 1 # 1
        BY <1>2, <2>5
      <3>2. it[k] = f[k]
        BY <1>13, <3>1
      <3> QED
        BY <2>1, <2>2, <2>3, <3>1, <3>2, Zenon
    <2> QED
      BY <2>4, <2>5
  <1>14. n \in T
    <2> HIDE DEF T
    <2> QED
      BY <1>2, <1>12, <1>13, NatSetInduction
  <1>15. FlattenSeq(seqs) = f[n]
    <2>1. CASE n = 0
      BY <1>1, <1>3, <1>7, <2>1, Zenon
    <2>2. CASE n # 0
      <3>1. n \in 1 .. n
        BY <1>2, <2>2
      <3>2. it[n] = f[n]
        BY <1>14, <3>1
      <3> QED
        BY <1>1, <2>2, <3>2, Zenon
    <2> QED
      BY <2>1, <2>2
  <1> QED
    BY <1>6, <1>7, <1>8, <1>15, Zenon DEF IsFlattening, n

-----------------------------------------------------------------------------
(***************************************************************************)
(* Folds as values.  Folded(s, V, base, step) is what a fold from the left *)
(* makes of s, step[e][v] in V being what the element e makes of v: a      *)
(* fold is known from its value for <<>> and for Append(s, e).             *)
(***************************************************************************)
\* Induction over sequences that grow at the end, for the set of those that have
\* a property.
LEMMA SeqSetInduction ==
  ASSUME NEW S, NEW T, <<>> \in T,
         \A s \in Seq(S), e \in S : s \in T => Append(s, e) \in T
  PROVE  Seq(S) \subseteq T
  <1> DEFINE N == {n \in Nat : \A s \in Seq(S) : Len(s) = n => s \in T}
  <1>1. 0 \in N
    BY EmptySeq
  <1>2. ASSUME NEW n \in Nat, n \in N
        PROVE  n + 1 \in N
    <2> SUFFICES ASSUME NEW s \in Seq(S), Len(s) = n + 1 PROVE s \in T
      OBVIOUS
    <2>1. s # <<>>
      BY EmptySeq
    <2>2. PICK r \in Seq(S), e \in S : s = Append(r, e)
      BY <2>1, SequenceEmptyOrAppend
    <2>3. Len(s) = Len(r) + 1 /\ Len(r) \in Nat
      BY <2>2, AppendProperties, LenProperties
    <2>4. Len(r) = n
      BY <2>3
    <2> QED
      BY <1>2, <2>2, <2>4
  <1>3. Nat \subseteq N
    <2> HIDE DEF N
    <2> QED
      BY <1>1, <1>2, NatSetInduction
  <1> QED
    BY <1>3, LenProperties

\* The same, where the elements of T are sequences of elements of S.
IsFolding(f, s, V, base, step) ==
  /\ f \in [0 .. Len(s) -> V]
  /\ f[0] = base
  /\ \A i \in 1 .. Len(s) : f[i] = step[s[i]][f[i - 1]]
Folded(s, V, base, step) ==
  LET f == CHOOSE f : IsFolding(f, s, V, base, step)
  IN  f[Len(s)]

\* The run of a fold exists.
LEMMA FoldingExists ==
  ASSUME NEW S, NEW s \in Seq(S), NEW V, NEW base \in V, NEW step \in [S -> [V -> V]]
  PROVE  \E f : IsFolding(f, s, V, base, step)
  <1> DEFINE by == [i \in 1 .. Len(s) |-> step[s[i]]]
  <1>1. Len(s) \in Nat /\ \A i \in 1 .. Len(s) : s[i] \in S
    BY LenProperties, ElementOfSeq
  <1>2. by \in [1 .. Len(s) -> [V -> V]]
    BY <1>1
  <1>3. PICK f \in [0 .. Len(s) -> V] : IsLoop(f, Len(s), base, by)
    <2> HIDE DEF by
    <2> QED
      BY <1>1, <1>2, LoopRecursion
  <1>4. \A i \in 1 .. Len(s) : f[i] = step[s[i]][f[i - 1]]
    BY <1>3 DEF IsLoop
  <1>5. f[0] = base
    BY <1>3 DEF IsLoop
  <1> QED
    BY <1>4, <1>5 DEF IsFolding

\* It determines the value at the end.
LEMMA FoldingIs ==
  ASSUME NEW S, NEW s \in Seq(S), NEW V, NEW base \in V, NEW step \in [S -> [V -> V]],
         NEW f, IsFolding(f, s, V, base, step)
  PROVE  Folded(s, V, base, step) = f[Len(s)] /\ f[Len(s)] \in V
  <1> DEFINE g == CHOOSE g : IsFolding(g, s, V, base, step)
             T == {i \in Nat : i <= Len(s) => g[i] = f[i]}
  <1>1. IsFolding(g, s, V, base, step)
    BY Zenon
  <1>2. Folded(s, V, base, step) = g[Len(s)]
    BY Zenon DEF Folded
  <1> HIDE DEF g
  <1>3. Len(s) \in Nat
    BY LenProperties
  <1>4. 0 \in T
    BY <1>1 DEF IsFolding
  <1>5. ASSUME NEW i \in Nat, i \in T
        PROVE  i + 1 \in T
    <2> SUFFICES ASSUME i + 1 <= Len(s) PROVE g[i + 1] = f[i + 1]
      OBVIOUS
    <2>1. i + 1 \in 1 .. Len(s) /\ (i + 1) - 1 = i /\ i <= Len(s)
      BY <1>3
    <2>2. g[i + 1] = step[s[i + 1]][g[i]] /\ f[i + 1] = step[s[i + 1]][f[i]]
      BY <1>1, <2>1 DEF IsFolding
    <2> QED
      BY <1>5, <2>1, <2>2
  <1>6. Nat \subseteq T
    <2> HIDE DEF T
    <2> QED
      BY <1>4, <1>5, NatSetInduction
  <1>7. g[Len(s)] = f[Len(s)]
    BY <1>3, <1>6
  <1>8. Len(s) \in 0 .. Len(s)
    BY <1>3
  <1> QED
    BY <1>2, <1>7, <1>8 DEF IsFolding

\* The value of a fold for the empty sequence and for one that grew.
LEMMA FoldedIs ==
  ASSUME NEW S, NEW V, NEW base \in V, NEW step \in [S -> [V -> V]]
  PROVE  /\ Folded(<<>>, V, base, step) = base
         /\ \A s \in Seq(S) : Folded(s, V, base, step) \in V
         /\ \A s \in Seq(S), e \in S :
              Folded(Append(s, e), V, base, step) = step[e][Folded(s, V, base, step)]
  <1>1. Folded(<<>>, V, base, step) = base
    <2>1. <<>> \in Seq(S) /\ Len(<<>>) = 0
      BY EmptySeq
    <2>2. ASSUME NEW o \in Seq(S), Len(o) = 0
          PROVE  Folded(o, V, base, step) = base
      <3>1. PICK f : IsFolding(f, o, V, base, step)
        BY FoldingExists
      <3>2. Folded(o, V, base, step) = f[Len(o)]
        BY <3>1, FoldingIs
      <3>3. f[0] = base
        BY <3>1 DEF IsFolding
      <3> QED
        BY <2>2, <3>2, <3>3, Zenon
    <2> QED
      BY <2>1, <2>2
  <1>2. ASSUME NEW s \in Seq(S)
        PROVE  Folded(s, V, base, step) \in V
    <2>1. PICK f : IsFolding(f, s, V, base, step)
      BY FoldingExists
    <2> QED
      BY <2>1, FoldingIs
  <1>3. ASSUME NEW s \in Seq(S), NEW e \in S
        PROVE  Folded(Append(s, e), V, base, step) = step[e][Folded(s, V, base, step)]
    <2> DEFINE t == Append(s, e)
    <2>1. /\ t \in Seq(S) /\ Len(t) = Len(s) + 1 /\ t[Len(s) + 1] = e
          /\ \A i \in 1 .. Len(s) : t[i] = s[i]
          /\ Len(s) \in Nat
      BY AppendProperties, LenProperties
    <2> HIDE DEF t
    <2>2. PICK f : IsFolding(f, t, V, base, step)
      BY <2>1, FoldingExists
    <2> DEFINE g == [i \in 0 .. Len(s) |-> f[i]]
    <2>3. /\ f \in [0 .. Len(s) + 1 -> V] /\ f[0] = base
          /\ \A i \in 1 .. Len(s) + 1 : f[i] = step[t[i]][f[i - 1]]
      BY <2>1, <2>2 DEF IsFolding
    <2>4. g \in [0 .. Len(s) -> V] /\ g[0] = base
      BY <2>1, <2>3
    <2>5. ASSUME NEW i \in 1 .. Len(s)
          PROVE  g[i] = step[s[i]][g[i - 1]]
      <3>1. i \in 1 .. Len(s) + 1 /\ i \in 0 .. Len(s) /\ i - 1 \in 0 .. Len(s)
        BY <2>1
      <3> QED
        BY <2>1, <2>3, <3>1
    <2>6. g[Len(s)] = f[Len(s)]
      BY <2>1
    <2> HIDE DEF g
    <2>7. IsFolding(g, s, V, base, step)
      BY <2>4, <2>5 DEF IsFolding
    <2>8. Folded(s, V, base, step) = g[Len(s)]
      BY <2>7, FoldingIs
    <2>9. Folded(t, V, base, step) = f[Len(t)]
      BY <2>1, <2>2, FoldingIs
    <2>10. f[Len(s) + 1] = step[e][f[Len(s)]]
      <3>1. Len(s) + 1 \in 1 .. Len(s) + 1 /\ (Len(s) + 1) - 1 = Len(s)
        BY <2>1
      <3> QED
        BY <2>1, <2>3, <3>1
    <2>11. Folded(t, V, base, step) = step[e][Folded(s, V, base, step)]
      BY <2>1, <2>6, <2>8, <2>9, <2>10
    <2> QED
      BY <2>11 DEF t
  <1> QED
    BY <1>1, <1>2, <1>3

\* What the folds of the community modules define, on the subsets of the domain of s.
IsSetFold(f, s, base, step) ==
  /\ f[{}] = base
  /\ \A u \in SUBSET DOMAIN s : u # {} => f[u] = step[s[Max(u)]][f[u \ {Max(u)}]]

\* It exists, with values in V.
LEMMA SetFoldExists ==
  ASSUME NEW S, NEW s \in Seq(S), NEW V, NEW base \in V, NEW step \in [S -> [V -> V]]
  PROVE  \E f \in [SUBSET DOMAIN s -> V] : IsSetFold(f, s, base, step)
  <1> DEFINE by == [i \in 1 .. Len(s) |-> step[s[i]]]
  <1>1. /\ Len(s) \in Nat /\ DOMAIN s = 1 .. Len(s)
        /\ \A i \in 1 .. Len(s) : s[i] \in S
    BY LenProperties, ElementOfSeq
  <1>2. by \in [1 .. Len(s) -> [V -> V]]
    BY <1>1
  <1>3. PICK f \in [SUBSET (1 .. Len(s)) -> V] : IsFold(f, Len(s), base, by)
    <2> HIDE DEF by
    <2> QED
      BY <1>1, <1>2, SubsetRecursion
  <1>4. ASSUME NEW u \in SUBSET (1 .. Len(s)), u # {}
        PROVE  f[u] = step[s[Max(u)]][f[u \ {Max(u)}]]
    <2>1. Max(u) \in 1 .. Len(s)
      BY <1>1, <1>4, MaxOfSubset
    <2>2. f[u] = by[Max(u)][f[u \ {Max(u)}]]
      <3> HIDE DEF by
      <3> QED
        BY <1>3, <1>4 DEF IsFold
    <2> QED
      BY <2>1, <2>2
  <1>5. f[{}] = base
    BY <1>3 DEF IsFold
  <1>6. IsSetFold(f, s, base, step)
    BY <1>1, <1>4, <1>5 DEF IsSetFold
  <1> QED
    BY <1>1, <1>3, <1>6, Zenon

\* That f satisfies the recursion as far as its values are in V.
FitsFold(it, s, V, base, step) ==
  /\ it[{}] = base
  /\ \A u \in SUBSET DOMAIN s : u # {} /\ it[u \ {Max(u)}] \in V =>
       it[u] = step[s[Max(u)]][it[u \ {Max(u)}]]

\* It is the fold then.
LEMMA SetFoldIs ==
  ASSUME NEW S, NEW s \in Seq(S), NEW V, NEW base \in V, NEW step \in [S -> [V -> V]],
         NEW it, FitsFold(it, s, V, base, step)
  PROVE  it[DOMAIN s] = Folded(s, V, base, step)
  <1> USE DEF FitsFold
  <1>1. PICK f : IsFolding(f, s, V, base, step)
    BY FoldingExists
  <1>2. /\ Len(s) \in Nat /\ DOMAIN s = 1 .. Len(s)
        /\ \A i \in 1 .. Len(s) : s[i] \in S
    BY LenProperties, ElementOfSeq
  <1> DEFINE T == {i \in Nat : i <= Len(s) => it[1 .. i] = f[i]}
  <1>3. 0 \in T
    <2>1. 1 .. 0 = {}
      OBVIOUS
    <2>2. f[0] = it[{}]
      BY <1>1 DEF IsFolding
    <2> QED
      BY <2>1, <2>2
  <1>4. ASSUME NEW i \in Nat, i \in T
        PROVE  i + 1 \in T
    <2> SUFFICES ASSUME i + 1 <= Len(s) PROVE it[1 .. i + 1] = f[i + 1]
      OBVIOUS
    <2> DEFINE k == i + 1
    <2>1. k \in 1 .. Len(s) /\ k - 1 = i /\ i <= Len(s) /\ i \in 0 .. Len(s)
      BY <1>2
    <2> HIDE DEF k
    <2>2. /\ 1 .. k \in SUBSET (1 .. Len(s)) /\ 1 .. k # {}
          /\ Max(1 .. k) = k /\ (1 .. k) \ {k} = 1 .. k - 1
      BY <1>2, <2>1, MaxOfInterval
    <2>3. it[1 .. i] = f[i] /\ f[i] \in V
      BY <1>1, <1>4, <2>1 DEF IsFolding
    <2> DEFINE u == 1 .. k
    <2>a. /\ u \in SUBSET DOMAIN s /\ u # {} /\ Max(u) = k /\ u \ {Max(u)} = 1 .. i
      BY <1>2, <2>1, <2>2, Zenon
    <2> HIDE DEF u
    <2>b. it[u \ {Max(u)}] \in V
      BY <2>3, <2>a, Zenon
    <2>c. it[u] = step[s[Max(u)]][it[u \ {Max(u)}]]
      BY <2>a, <2>b, Zenon
    <2>4. it[1 .. k] = step[s[k]][it[1 .. i]]
      BY <2>a, <2>c, Zenon DEF u
    <2>5. f[k] = step[s[k]][f[i]]
      BY <1>1, <2>1 DEF IsFolding
    <2>6. it[1 .. k] = f[k]
      BY <2>3, <2>4, <2>5
    <2> QED
      BY <2>6 DEF k
  <1>5. Nat \subseteq T
    <2> HIDE DEF T
    <2> QED
      BY <1>3, <1>4, NatSetInduction
  <1>6. it[1 .. Len(s)] = f[Len(s)]
    BY <1>2, <1>5
  <1> QED
    BY <1>1, <1>2, <1>6, FoldingIs

-----------------------------------------------------------------------------
\* An element at the end of what is put together.
LEMMA ConcatAppend ==
  ASSUME NEW S, NEW s \in Seq(S), NEW t \in Seq(S), NEW e \in S
  PROVE  s \o Append(t, e) = Append(s \o t, e)
  <1> DEFINE l == <<e>>
             u == s \o t
  <1>1. l \in Seq(S) /\ u \in Seq(S)
    BY ConcatProperties
  <1>2. Append(t, e) = t \o l /\ Append(u, e) = u \o l
    BY <1>1, AppendIsConcat
  <1> HIDE DEF l
  <1>3. u \o l = s \o (t \o l)
    BY <1>1, ConcatThree DEF Three, ThreeAsOne
  <1> QED
    BY <1>2, <1>3

\* A flattened sequence grows with the sequence.
LEMMA FlattenGrows ==
  ASSUME NEW S
  PROVE  /\ FlattenSeq(<<>>) = <<>>
         /\ \A ss \in Seq(Seq(S)) : FlattenSeq(ss) \in Seq(S)
         /\ \A ss \in Seq(Seq(S)), s \in Seq(S) :
              FlattenSeq(Append(ss, s)) = FlattenSeq(ss) \o s
  <1> DEFINE V == Seq(S)
             step == [s \in V |-> [v \in V |-> v \o s]]
             none == <<>>
  <1>1. none \in V /\ \A v \in V, s \in V : v \o s \in V
    BY ConcatProperties
  <1>2. ASSUME NEW ss \in Seq(Seq(S)) PROVE
          \E f : IsFlattening(f, S, ss) /\ FlattenSeq(ss) = f[Len(ss)]
    BY FlattenIsLoop
  <1>3. \A ss \in Seq(V) : \E f : IsFlattening(f, S, ss) /\ FlattenSeq(ss) = f[Len(ss)]
    BY <1>2, Zenon
  <1>4. \A ss, f : IsFlattening(f, S, ss) <=>
          /\ f \in [0 .. Len(ss) -> V]
          /\ f[0] = none
          /\ \A i \in 1 .. Len(ss) : f[i] = f[i - 1] \o ss[i]
    BY Zenon DEF IsFlattening
  <1> HIDE DEF V
  <1>5. step \in [V -> [V -> V]]
    BY <1>1
  <1>6. \A s \in V, v \in V : step[s][v] = v \o s
    OBVIOUS
  <1> HIDE DEF step, none
  <1>7. ASSUME NEW ss \in Seq(V)
        PROVE  FlattenSeq(ss) = Folded(ss, V, none, step)
    <2>1. PICK f : IsFlattening(f, S, ss) /\ FlattenSeq(ss) = f[Len(ss)]
      BY <1>3
    <2>2. Len(ss) \in Nat /\ \A i \in 1 .. Len(ss) : ss[i] \in V
      BY LenProperties, ElementOfSeq
    <2>3. \A i \in 1 .. Len(ss) : f[i] = step[ss[i]][f[i - 1]]
      <3> SUFFICES ASSUME NEW i \in 1 .. Len(ss) PROVE f[i] = step[ss[i]][f[i - 1]]
        OBVIOUS
      <3>1. f \in [0 .. Len(ss) -> V] /\ f[i] = f[i - 1] \o ss[i]
        BY <1>4, <2>1, Zenon
      <3>2. i - 1 \in 0 .. Len(ss)
        BY <2>2
      <3> QED
        BY <1>6, <2>2, <3>1, <3>2
    <2>4. IsFolding(f, ss, V, none, step)
      BY <1>4, <2>1, <2>3, Zenon DEF IsFolding
    <2> QED
      BY <1>1, <1>5, <2>1, <2>4, FoldingIs
  <1>8. /\ Folded(<<>>, V, none, step) = none
        /\ \A ss \in Seq(V) : Folded(ss, V, none, step) \in V
        /\ \A ss \in Seq(V), s \in V :
             Folded(Append(ss, s), V, none, step) = step[s][Folded(ss, V, none, step)]
    BY <1>1, <1>5, FoldedIs
  <1>9. <<>> \in Seq(V)
    BY EmptySeq
  <1>10. FlattenSeq(<<>>) = none
    BY <1>7, <1>8, <1>9, Zenon
  <1>11. \A ss \in Seq(V) : FlattenSeq(ss) \in V
    BY <1>7, <1>8
  <1>12. ASSUME NEW ss \in Seq(V), NEW s \in V
         PROVE  FlattenSeq(Append(ss, s)) = FlattenSeq(ss) \o s
    <2>1. Append(ss, s) \in Seq(V)
      BY AppendProperties
    <2>2. FlattenSeq(Append(ss, s)) = step[s][FlattenSeq(ss)]
      BY <1>7, <1>8, <2>1, Zenon
    <2> QED
      BY <1>6, <1>11, <2>2
  <1> QED
    BY <1>10, <1>11, <1>12, Zenon DEF V, none

\* A sequence of sequences may be flattened in two parts.
LEMMA FlattenConcat ==
  ASSUME NEW S, NEW ss \in Seq(Seq(S)), NEW ts \in Seq(Seq(S))
  PROVE  FlattenSeq(ss \o ts) = FlattenSeq(ss) \o FlattenSeq(ts)
  <1> DEFINE V == Seq(S)
             T == {t \in Seq(V) : FlattenSeq(ss \o t) = FlattenSeq(ss) \o FlattenSeq(t)}
  <1>1. /\ FlattenSeq(<<>>) = <<>>
        /\ \A t \in Seq(V) : FlattenSeq(t) \in V
        /\ \A t \in Seq(V), s \in V : FlattenSeq(Append(t, s)) = FlattenSeq(t) \o s
    BY FlattenGrows
  <1>2. /\ ss \in Seq(V) /\ ts \in Seq(V)
        /\ \A v \in V : v \o <<>> = v
        /\ \A u \in V, v \in V, w \in V : u \o (v \o w) = (u \o v) \o w
    <2>1. ss \in Seq(V) /\ ts \in Seq(V) /\ \A v \in V : v \o <<>> = v
      BY ConcatEmptySeq
    <2>2. ASSUME NEW u \in V, NEW v \in V, NEW w \in V
          PROVE  u \o (v \o w) = (u \o v) \o w
      <3>1. ThreeAsOne(S, u, v, w)
        BY ConcatThree, Zenon DEF Three
      <3> QED
        BY <3>1, Zenon DEF ThreeAsOne
    <2> HIDE DEF V
    <2> QED
      BY <2>1, <2>2
  <1> HIDE DEF V
  <1>3. <<>> \in T
    <2>1. <<>> \in Seq(V) /\ ss \o <<>> = ss
      BY <1>2, EmptySeq, ConcatEmptySeq
    <2>2. FlattenSeq(ss) \o <<>> = FlattenSeq(ss)
      BY <1>1, <1>2
    <2> QED
      BY <1>1, <2>1, <2>2
  <1>4. ASSUME NEW t \in Seq(V), NEW s \in V, t \in T
        PROVE  Append(t, s) \in T
    <2>1. ss \o t \in Seq(V) /\ Append(t, s) \in Seq(V)
      BY <1>2, ConcatProperties, AppendProperties
    <2>2. ss \o Append(t, s) = Append(ss \o t, s)
      BY <1>2, ConcatAppend
    <2>3. FlattenSeq(Append(ss \o t, s)) = (FlattenSeq(ss) \o FlattenSeq(t)) \o s
      BY <1>1, <1>4, <2>1, Zenon
    <2>4. FlattenSeq(Append(t, s)) = FlattenSeq(t) \o s
      BY <1>1
    <2>5. FlattenSeq(ss) \o (FlattenSeq(t) \o s) = (FlattenSeq(ss) \o FlattenSeq(t)) \o s
      BY <1>1, <1>2, Zenon
    <2>6. FlattenSeq(ss \o Append(t, s)) = FlattenSeq(ss) \o FlattenSeq(Append(t, s))
      BY <2>2, <2>3, <2>4, <2>5, Zenon
    <2> QED
      BY <2>1, <2>6
  <1>5. Seq(V) \subseteq T
    <2> HIDE DEF T
    <2> QED
      BY <1>3, <1>4, SeqSetInduction
  <1> QED
    BY <1>2, <1>5

\* What follows the first element of a sequence.
LEMMA BehindFirst ==
  ASSUME NEW S, NEW s \in Seq(S), NEW u \in Seq(S), Len(s) = 1
  PROVE  /\ s \o u \in Seq(S) /\ Len(s \o u) = 1 + Len(u)
         /\ SubSeq(s \o u, 1, 1) = s
         /\ SubSeq(s \o u, 2, Len(s \o u)) = u
  <1> DEFINE b == s \o u
             l == Len(b)
  <1>1. b \in Seq(S) /\ l = Len(s) + Len(u)
    BY ConcatProperties
  <1>2. Len(u) \in Nat
    BY LenProperties
  <1>3. l = 1 + Len(u)
    BY <1>1
  <1>4. SubSeq(b, 1, 1) = s
    <2>1. 1 \in 1 .. Len(s)
      BY <1>3
    <2>2. SubSeq(b, 1, 1) = SubSeq(s, 1, 1)
      BY <2>1, SubSeqOfConcat1
    <2> QED
      BY <2>2, SubSeqFull
  <1> HIDE DEF b, l
  <1>5. SubSeq(b, 2, l) = u
    <2>1. CASE u = <<>>
      <3>1. l = 1
        BY <1>2, <1>3, <2>1
      <3> QED
        BY <1>1, <2>1, <3>1
    <2>2. CASE u # <<>>
      <3>1. SubSeq(b, Len(s) + 1, Len(s) + Len(u)) = u
        BY <2>2, EndOfConcat DEF b
      <3>2. Len(s) + 1 = 2
        OBVIOUS
      <3> QED
        BY <1>1, <3>1, <3>2, Zenon
    <2> QED
      BY <2>1, <2>2
  <1> QED
    BY <1>1, <1>3, <1>4, <1>5 DEF b, l

\* The last element of a concatenation.
LEMMA LastOfConcat ==
  ASSUME NEW S, NEW d \in Seq(S), NEW r \in Seq(S), r # <<>>
  PROVE  (d \o r)[Len(d \o r)] = r[Len(r)]
  <1> DEFINE b == d \o r
             m == Len(d)
             n == Len(r)
  <1>1. m \in Nat /\ n \in Nat \ {0}
    BY LenProperties, EmptySeq
  <1>2. /\ Len(b) = m + n
        /\ \A i \in 1 .. m + n : b[i] = IF i <= m THEN d[i] ELSE r[i - m]
    BY ConcatProperties
  <1> HIDE DEF b, m, n
  <1>3. b[m + n] = r[n]
    <2>1. m + n \in 1 .. m + n /\ ~(m + n <= m) /\ (m + n) - m = n
      BY <1>1
    <2> QED
      BY <1>2, <2>1
  <1> QED
    BY <1>2, <1>3, Zenon DEF b, n

-----------------------------------------------------------------------------
(***************************************************************************)
(* Pieces of sequences, and what they are joined to.                       *)
(***************************************************************************)
\* A piece of a sequence.
LEMMA PieceOf ==
  ASSUME NEW S, NEW b \in Seq(S), NEW m \in 1 .. Len(b) + 1, NEW n \in m - 1 .. Len(b)
  PROVE  /\ SubSeq(b, m, n) \in Seq(S)
         /\ Len(SubSeq(b, m, n)) = n - m + 1
         /\ \A i \in 1 .. n - m + 1 : SubSeq(b, m, n)[i] = b[m + i - 1]
  <1>1. Len(b) \in Nat /\ \A i \in 1 .. Len(b) : b[i] \in S
    BY LenProperties, ElementOfSeq
  <1>2. m \in Int /\ n \in Int /\ \A i \in m .. n : b[i] \in S
    BY <1>1
  <1>3. /\ SubSeq(b, m, n) \in Seq(S)
        /\ Len(SubSeq(b, m, n)) = IF m <= n THEN n - m + 1 ELSE 0
        /\ \A i \in 1 .. n - m + 1 : SubSeq(b, m, n)[i] = b[m + i - 1]
    BY <1>2, SubSeqProperties
  <1>4. (IF m <= n THEN n - m + 1 ELSE 0) = n - m + 1
    BY <1>1, <1>2
  <1> QED
    BY <1>3, <1>4, Zenon

\* A sequence that has the elements of one and then those of another.
LEMMA ConcatIs ==
  ASSUME NEW S, NEW s \in Seq(S), NEW t \in Seq(S), NEW u \in Seq(S),
         Len(u) = Len(s) + Len(t),
         \A i \in 1 .. Len(s) : u[i] = s[i],
         \A i \in 1 .. Len(t) : u[Len(s) + i] = t[i]
  PROVE  s \o t = u
  <1>1. /\ s \o t \in Seq(S) /\ Len(s \o t) = Len(s) + Len(t)
        /\ \A i \in 1 .. Len(s) + Len(t) :
             (s \o t)[i] = IF i <= Len(s) THEN s[i] ELSE t[i - Len(s)]
    BY ConcatProperties
  <1>2. Len(s) \in Nat /\ Len(t) \in Nat
    BY LenProperties
  <1>3. ASSUME NEW i \in 1 .. Len(s \o t)
        PROVE  (s \o t)[i] = u[i]
    <2>1. CASE i <= Len(s)
      <3>1. i \in 1 .. Len(s) + Len(t) /\ i \in 1 .. Len(s)
        BY <1>1, <1>2, <2>1
      <3> QED
        BY <1>1, <2>1, <3>1
    <2>2. CASE ~(i <= Len(s))
      <3>1. /\ i \in 1 .. Len(s) + Len(t) /\ i - Len(s) \in 1 .. Len(t)
            /\ Len(s) + (i - Len(s)) = i
        BY <1>1, <1>2, <2>2
      <3>2. u[Len(s) + (i - Len(s))] = t[i - Len(s)]
        BY <3>1
      <3> QED
        BY <1>1, <2>2, <3>1, <3>2
    <2> QED
      BY <2>1, <2>2
  <1> QED
    BY <1>1, <1>3, SeqEqual

\* A sequence of bytes or symbols is one of numbers.
LEMMA SeqOfNumbers ==
  ASSUME NEW S, S \subseteq Nat, NEW s \in Seq(S)
  PROVE  s \in Seq(Nat)
  <1>1. Len(s) \in Nat /\ \A i \in 1 .. Len(s) : s[i] \in S
    BY LenProperties, ElementOfSeq
  <1>2. s = [i \in 1 .. Len(s) |-> s[i]]
    BY LenProperties
  <1> QED
    BY <1>1, <1>2

\* A set of numbers has a least one.
LEMMA LeastNumber ==
  ASSUME NEW s \in SUBSET Nat, s # {}
  PROVE  \E x \in s : \A y \in s : x <= y
  <1>1. PICK x \in s : \A y \in s : ~(<<y, x>> \in OpToRel(<, Nat))
    BY WFMin, NatLessThanWellFounded, Zenon
  <1>2. \A y \in s : ~(y < x)
    BY <1>1, Zenon DEF OpToRel
  <1>3. \A y \in s : x <= y
    BY <1>2
  <1> QED
    BY <1>3

=============================================================================
