------------------------ MODULE HttpConnectionProofs ------------------------
(***************************************************************************)
(* Proofs about HttpConnection: the reader finds the end of whatever the   *)
(* other end frames, and from that the invariant under which the two ends  *)
(* of a connection never misread one another.                              *)
(***************************************************************************)
EXTENDS HttpConnection, SequenceLemmas

-----------------------------------------------------------------------------
(* What is on the streams.                                                 *)

AnyRequest ==
  [method : {"GET", "HEAD", "POST", "DELETE"}, framing : {"none", "length", "chunked"},
   chunks : Pieces, expect : BOOLEAN, close : BOOLEAN, long : BOOLEAN]

AnyReply ==
  [status : Nat, chunks : Pieces, fields : Nat,
   framing : {"none", "string", "length", "chunked", "close"}]

Heads == [length : Int, chunked : BOOLEAN, close : BOOLEAN]

Token ==
  ({"request"} \X Nat \X AnyRequest) \cup ({"headers"} \X Nat \X Heads)
    \cup ({"status"} \X Nat \X AnyReply)
    \cup ({"data", "size", "crlf", "field"} \X Nat \X Int)

Tokens == Seq(Token)

\* The tokens of a body of the message id.
BodyToken(id) == {"data", "size", "crlf", "field"} \X {id} \X Int
Body(id) == Seq(BodyToken(id))

\* What a body is made of goes on the stream.
LEMMA BodyIsTokens ==
  ASSUME NEW id \in Nat, NEW s \in Body(id)
  PROVE  s \in Tokens
<1>1. BodyToken(id) \subseteq Token
  BY DEF BodyToken, Token
<1> QED
  BY <1>1, SeqMonotonic DEF Body, Tokens

-----------------------------------------------------------------------------
(* The reader of a content.                                                *)

Rd(got, left, mode) == [got |-> got, left |-> left, mode |-> mode]

\* In these modes the content has been read.
Complete == {"trailer", "fields", "done"}

\* f holds the states of the reader r while it takes the tokens of s.
IsRun(f, r, s) ==
  /\ f[0] = r
  /\ \A i \in 1 .. Len(s) : f[i] = Feed(f[i - 1], s[i]) /\ ~Ended(f[i - 1])

\* The reader takes all tokens of s, not one more, and has then the content c.
Reads(r, s, mode, c) ==
  \E f : /\ IsRun(f, r, s)
         /\ f[Len(s)].mode = mode
         /\ \A i \in 0 .. Len(s) : f[i].mode \in Complete => f[i].got = c

\* A run and what is read after it.
LEMMA RunThen ==
  ASSUME NEW S, NEW s \in Seq(S), NEW e \in Seq(S), NEW f, NEW r, NEW c, NEW mode,
         IsRun(f, r, s),
         \A i \in 0 .. Len(s) - 1 : f[i].mode \in Complete => f[i].got = c,
         Reads(f[Len(s)], e, mode, c)
  PROVE  Reads(r, s \o e, mode, c)
<1>1. PICK g : /\ IsRun(g, f[Len(s)], e)
               /\ g[Len(e)].mode = mode
               /\ \A i \in 0 .. Len(e) : g[i].mode \in Complete => g[i].got = c
  BY Zenon DEF Reads
<1> DEFINE m == Len(s)
           n == Len(e)
           w == s \o e
           h == [i \in 0 .. m + n |-> IF i <= m THEN f[i] ELSE g[i - m]]
<1>2. /\ m \in Nat /\ n \in Nat /\ Len(w) = m + n
      /\ \A i \in 1 .. m + n : w[i] = IF i <= m THEN s[i] ELSE e[i - m]
  BY ConcatProperties, LenProperties
<1>3. /\ \A i \in 1 .. m : f[i] = Feed(f[i - 1], s[i]) /\ ~Ended(f[i - 1])
      /\ \A i \in 1 .. n : g[i] = Feed(g[i - 1], e[i]) /\ ~Ended(g[i - 1])
      /\ g[0] = f[m] /\ f[0] = r /\ g[n].mode = mode
      /\ \A i \in 0 .. m - 1 : f[i].mode \in Complete => f[i].got = c
      /\ \A i \in 0 .. n : g[i].mode \in Complete => g[i].got = c
  BY <1>1, Zenon DEF IsRun
<1> HIDE DEF m, n, w
<1>4. ASSUME NEW i \in 1 .. m
      PROVE  h[i] = f[i] /\ h[i - 1] = f[i - 1] /\ w[i] = s[i]
  BY <1>2
<1>5. ASSUME NEW i \in 1 .. m + n, ~(i <= m)
      PROVE  /\ i - m \in 1 .. n /\ h[i] = g[i - m] /\ w[i] = e[i - m]
             /\ h[i - 1] = g[(i - m) - 1]
  <2>1. i - m \in 1 .. n /\ h[i] = g[i - m] /\ w[i] = e[i - m]
    BY <1>2, <1>5
  <2>2. CASE i - 1 <= m
    <3>1. i - 1 = m /\ (i - m) - 1 = 0 /\ m \in 0 .. m + n
      BY <1>2, <1>5, <2>2
    <3> QED
      BY <1>3, <2>1, <3>1
  <2>3. CASE ~(i - 1 <= m)
    <3>1. i - 1 \in 0 .. m + n /\ (i - m) - 1 = (i - 1) - m
      BY <1>2, <1>5
    <3> QED
      BY <2>1, <2>3, <3>1
  <2> QED
    BY <2>2, <2>3
<1>6. h[0] = r
  BY <1>2, <1>3
<1>7. h[m + n] = g[n]
  <2>1. CASE n = 0
    BY <1>2, <1>3, <2>1
  <2>2. CASE n # 0
    BY <1>2, <2>2
  <2> QED
    BY <2>1, <2>2
<1>8. ASSUME NEW i \in 0 .. m + n, h[i].mode \in Complete
      PROVE  h[i].got = c
  <2>1. CASE i <= m - 1
    <3>1. i \in 0 .. m - 1 /\ h[i] = f[i]
      BY <1>2, <2>1
    <3> QED
      BY <1>3, <1>8, <3>1
  <2>2. CASE ~(i <= m - 1)
    <3>1. i - m \in 0 .. n
      BY <1>2, <2>2
    <3>2. h[i] = g[i - m]
      <4>1. CASE i = m
        BY <1>2, <1>3, <4>1
      <4>2. CASE i # m
        BY <1>2, <2>2, <4>2
      <4> QED
        BY <4>1, <4>2
    <3> HIDE DEF h
    <3> QED
      BY <1>3, <1>8, <3>1, <3>2
  <2> QED
    BY <2>1, <2>2
<1> HIDE DEF h
<1>9. ASSUME NEW i \in 1 .. Len(w)
      PROVE  h[i] = Feed(h[i - 1], w[i]) /\ ~Ended(h[i - 1])
  <2>1. i \in 1 .. m + n
    BY <1>2
  <2>2. CASE i <= m
    <3>1. i \in 1 .. m
      BY <1>2, <2>2
    <3> QED
      BY <1>3, <1>4, <3>1, Zenon
  <2>3. CASE ~(i <= m)
    BY <1>3, <1>5, <2>1, <2>3, Zenon
  <2> QED
    BY <2>2, <2>3
<1>10. IsRun(h, r, w)
  BY <1>6, <1>9, Zenon DEF IsRun
<1>11. h[Len(w)].mode = mode /\ \A i \in 0 .. Len(w) : h[i].mode \in Complete => h[i].got = c
  BY <1>2, <1>3, <1>7, <1>8, Zenon
<1>12. Reads(r, w, mode, c)
  BY <1>10, <1>11, Zenon DEF Reads
<1> QED
  BY <1>12 DEF w

\* A token before what is read.
LEMMA ReadsCons ==
  ASSUME NEW S, NEW t \in S, NEW e \in Seq(S), NEW r, NEW c, NEW mode,
         ~Ended(r), r.mode \notin Complete \/ r.got = c,
         Reads(Feed(r, t), e, mode, c)
  PROVE  Reads(r, <<t>> \o e, mode, c)
<1> DEFINE s == <<t>>
           f == [i \in 0 .. 1 |-> IF i = 0 THEN r ELSE Feed(r, t)]
<1>1. s \in Seq(S) /\ Len(s) = 1 /\ s[1] = t
  OBVIOUS
<1>2. f[0] = r /\ f[1] = Feed(r, t)
  OBVIOUS
<1> HIDE DEF s, f
<1>3. ASSUME NEW i \in 1 .. Len(s)
      PROVE  f[i] = Feed(f[i - 1], s[i]) /\ ~Ended(f[i - 1])
  <2>1. i = 1 /\ i - 1 = 0
    BY <1>1
  <2> QED
    BY <1>1, <1>2, <2>1, Zenon
<1>4. IsRun(f, r, s)
  BY <1>2, <1>3, Zenon DEF IsRun
<1>5. ASSUME NEW i \in 0 .. Len(s) - 1
      PROVE  f[i].mode \in Complete => f[i].got = c
  <2>1. i = 0
    BY <1>1
  <2> QED
    BY <1>2, <2>1, Zenon
<1>6. Reads(f[Len(s)], e, mode, c)
  BY <1>1, <1>2, Zenon
<1>7. Reads(r, s \o e, mode, c)
  BY <1>1, <1>4, <1>5, <1>6, RunThen
<1> QED
  BY <1>7 DEF s

\* The first of the tokens that are read.
LEMMA ReadStep ==
  ASSUME NEW S, NEW s \in Seq(S), s # <<>>, NEW r, NEW c, NEW mode, Reads(r, s, mode, c)
  PROVE  ~Ended(r) /\ Reads(Feed(r, Head(s)), Tail(s), mode, c)
<1>1. PICK f : /\ IsRun(f, r, s)
               /\ f[Len(s)].mode = mode
               /\ \A i \in 0 .. Len(s) : f[i].mode \in Complete => f[i].got = c
  BY Zenon DEF Reads
<1> DEFINE n == Len(s)
           u == Tail(s)
           g == [i \in 0 .. n - 1 |-> f[i + 1]]
<1>2. /\ n \in Nat \ {0} /\ Head(s) = s[1] /\ Len(u) = n - 1
      /\ \A i \in 1 .. Len(u) : u[i] = s[i + 1]
  BY EmptySeq, HeadTailProperties
<1>3. /\ f[0] = r /\ f[n].mode = mode
      /\ \A i \in 1 .. n : f[i] = Feed(f[i - 1], s[i]) /\ ~Ended(f[i - 1])
      /\ \A i \in 0 .. n : f[i].mode \in Complete => f[i].got = c
  BY <1>1, Zenon DEF IsRun
<1> HIDE DEF n, u
<1>4. 1 \in 1 .. n /\ 1 - 1 = 0 /\ (n - 1) + 1 = n /\ n - 1 \in 0 .. n - 1
  BY <1>2
<1>5. f[1] = Feed(r, s[1]) /\ ~Ended(r)
  BY <1>3, <1>4, Zenon
<1>6. g[0] = f[1] /\ g[n - 1] = f[n]
  BY <1>2
<1>7. ASSUME NEW i \in 1 .. n - 1
      PROVE  /\ g[i] = f[i + 1] /\ g[i - 1] = f[(i + 1) - 1]
             /\ i + 1 \in 1 .. n /\ u[i] = s[i + 1]
  BY <1>2
<1>8. ASSUME NEW i \in 0 .. n - 1
      PROVE  g[i] = f[i + 1] /\ i + 1 \in 0 .. n
  BY <1>2
<1> HIDE DEF g
<1>9. \A i \in 1 .. Len(u) : g[i] = Feed(g[i - 1], u[i]) /\ ~Ended(g[i - 1])
  BY <1>2, <1>3, <1>7, Zenon
<1>10. IsRun(g, Feed(r, s[1]), u)
  BY <1>5, <1>6, <1>9, Zenon DEF IsRun
<1>11. ASSUME NEW i \in 0 .. Len(u), g[i].mode \in Complete
       PROVE  g[i].got = c
  <2>1. i \in 0 .. n - 1
    BY <1>2
  <2> QED
    BY <1>3, <1>8, <1>11, <2>1, Zenon
<1>12. g[Len(u)].mode = mode
  BY <1>2, <1>3, <1>6, Zenon
<1>13. Reads(Feed(r, s[1]), u, mode, c)
  BY <1>10, <1>11, <1>12, Zenon DEF Reads
<1> QED
  BY <1>2, <1>5, <1>13 DEF u

\* What is read when nothing is left to read.
LEMMA ReadsNothing ==
  ASSUME NEW r, NEW c, NEW mode
  PROVE  Reads(r, <<>>, mode, c) <=> r.mode = mode /\ (r.mode \in Complete => r.got = c)
<1>1. Len(<<>>) = 0 /\ \A i \in 0 .. 0 : i = 0
  OBVIOUS
<1>2. 1 .. 0 = {} /\ 0 \in 0 .. 0
  OBVIOUS
<1>3. ASSUME r.mode = mode, r.mode \in Complete => r.got = c
      PROVE  Reads(r, <<>>, mode, c)
  <2> DEFINE f == [i \in 0 .. 0 |-> r]
  <2>1. f[0] = r
    OBVIOUS
  <2> HIDE DEF f
  <2> QED
    BY <1>1, <1>2, <1>3, <2>1, Zenon DEF Reads, IsRun
<1>4. ASSUME Reads(r, <<>>, mode, c)
      PROVE  r.mode = mode /\ (r.mode \in Complete => r.got = c)
  BY <1>1, <1>2, <1>4, Zenon DEF Reads, IsRun
<1> QED
  BY <1>3, <1>4

\* A reader that has the content has the right one.
LEMMA ReadsRight ==
  ASSUME NEW S, NEW s \in Seq(S), NEW r, NEW c, NEW mode, Reads(r, s, mode, c)
  PROVE  /\ r.mode \in Complete => r.got = c
         /\ Ended(r) => s = <<>> /\ r.mode = mode
<1>1. r.mode \in Complete => r.got = c
  <2>1. Len(s) \in Nat /\ 0 \in 0 .. Len(s)
    BY LenProperties
  <2> QED
    BY <2>1, Zenon DEF Reads, IsRun
<1>2. Ended(r) => s = <<>>
  BY ReadStep, Zenon
<1>3. Ended(r) => r.mode = mode
  BY <1>2, ReadsNothing, Zenon
<1> QED
  BY <1>1, <1>2, <1>3

-----------------------------------------------------------------------------
(* What is written of a content, and the reader that takes it.             *)

\* f holds the lengths of the content after each of its pieces.
IsSums(f, chunks) ==
  /\ f[0] = 0
  /\ \A i \in 1 .. Len(chunks) : f[i] = f[i - 1] + chunks[i]

\* The fold is the loop.
LEMMA TotalIsLast ==
  ASSUME NEW chunks \in Seq(Nat), NEW f, IsSums(f, chunks)
  PROVE  Total(chunks) = f[Len(chunks)]
<1> DEFINE n == Len(chunks)
           Fold(g) == g = [s \in SUBSET DOMAIN chunks |->
                            IF s = {} THEN 0
                            ELSE g[s \ {Max(s)}] + chunks[Max(s)]]
           it == CHOOSE g : Fold(g)
           T == {k \in Nat : k <= n => it[1 .. k] = f[k] /\ f[k] \in Nat}
<1>1. Total(chunks) = it[DOMAIN chunks]
  BY Zenon DEF Total, FoldLeft, MapThenFoldSet
<1>2. n \in Nat /\ DOMAIN chunks = 1 .. n /\ \A i \in 1 .. n : chunks[i] \in Nat
  BY LenProperties, ElementOfSeq
<1> HIDE DEF n
<1>3. \E g : Fold(g)
  <2> DEFINE step == [i \in 1 .. n |-> [v \in Nat |-> v + chunks[i]]]
  <2>1. step \in [1 .. n -> [Nat -> Nat]] /\ 0 \in Nat
    BY <1>2
  <2>2. PICK g \in [SUBSET (1 .. n) -> Nat] : IsFold(g, n, 0, step)
    <3> HIDE DEF step
    <3> QED
      BY <1>2, <2>1, SubsetRecursion
  <2>3. ASSUME NEW s \in SUBSET (1 .. n), s # {}
        PROVE  g[s] = g[s \ {Max(s)}] + chunks[Max(s)]
    <3>1. Max(s) \in 1 .. n
      BY <1>2, <2>3, MaxOfSubset
    <3>2. g[s \ {Max(s)}] \in Nat
      OBVIOUS
    <3>3. g[s] = step[Max(s)][g[s \ {Max(s)}]]
      <4> HIDE DEF step
      <4> QED
        BY <2>2, <2>3 DEF IsFold
    <3> QED
      BY <3>1, <3>2, <3>3
  <2>4. g[{}] = 0
    BY <2>2 DEF IsFold
  <2>5. \A s \in SUBSET (1 .. n) :
          g[s] = IF s = {} THEN 0 ELSE g[s \ {Max(s)}] + chunks[Max(s)]
    BY <2>3, <2>4, Zenon
  <2>6. g = [s \in SUBSET (1 .. n) |-> g[s]]
    OBVIOUS
  <2>7. g = [s \in SUBSET (1 .. n) |->
              IF s = {} THEN 0 ELSE g[s \ {Max(s)}] + chunks[Max(s)]]
    BY <2>5, <2>6, Zenon
  <2> QED
    BY <1>2, <2>7, Zenon
<1>4. Fold(it)
  <2> HIDE DEF Fold
  <2> QED
    BY <1>3, Zenon
<1>5. ASSUME NEW s \in SUBSET (1 .. n)
      PROVE  it[s] = IF s = {} THEN 0 ELSE it[s \ {Max(s)}] + chunks[Max(s)]
  <2> HIDE DEF it
  <2> QED
    BY <1>2, <1>4, Zenon
<1> HIDE DEF it
<1>6. 0 \in T
  <2>1. 1 .. 0 = {} /\ {} \in SUBSET (1 .. n)
    OBVIOUS
  <2>2. it[{}] = 0 /\ f[0] = 0
    BY <1>5, <2>1, Zenon DEF IsSums
  <2> QED
    BY <2>1, <2>2
<1>7. ASSUME NEW k \in Nat, k \in T
      PROVE  k + 1 \in T
  <2> SUFFICES ASSUME k + 1 <= n PROVE it[1 .. k + 1] = f[k + 1] /\ f[k + 1] \in Nat
    OBVIOUS
  <2> DEFINE i == k + 1
  <2>1. i \in 1 .. n /\ i - 1 = k /\ k <= n
    BY <1>2
  <2>2. it[1 .. k] = f[k] /\ f[k] \in Nat
    BY <1>7, <2>1
  <2> HIDE DEF i
  <2>3. /\ 1 .. i \in SUBSET (1 .. n) /\ 1 .. i # {}
        /\ Max(1 .. i) = i /\ (1 .. i) \ {i} = 1 .. i - 1
    BY <1>2, <2>1, MaxOfInterval
  <2>4. it[1 .. i] = it[(1 .. i) \ {Max(1 .. i)}] + chunks[Max(1 .. i)]
    BY <1>5, <2>3, Zenon
  <2>5. it[1 .. i] = it[1 .. k] + chunks[i]
    BY <2>1, <2>3, <2>4, Zenon
  <2>6. f[i] = f[k] + chunks[i]
    BY <2>1, Zenon DEF IsSums, n
  <2>7. it[1 .. i] = f[i]
    BY <2>2, <2>5, <2>6, Zenon
  <2>8. f[i] \in Nat
    BY <1>2, <2>1, <2>2, <2>6
  <2> QED
    BY <2>7, <2>8 DEF i
<1>8. n \in T
  <2> HIDE DEF T
  <2> QED
    BY <1>2, <1>6, <1>7, NatSetInduction
<1> QED
  BY <1>1, <1>2, <1>8 DEF n

\* The sizes of the chunks add up, from the first to the last, to Total.
LEMMA Sums ==
  ASSUME NEW chunks \in Seq(Nat)
  PROVE  \E f \in [0 .. Len(chunks) -> Nat] :
           /\ IsSums(f, chunks)
           /\ f[Len(chunks)] = Total(chunks)
           /\ \A i \in 1 .. Len(chunks) : f[i - 1] = Before(chunks, i)
<1> DEFINE n == Len(chunks)
           step == [i \in 1 .. n |-> [v \in Nat |-> v + chunks[i]]]
<1>1. n \in Nat /\ \A i \in 1 .. n : chunks[i] \in Nat
  BY LenProperties, ElementOfSeq
<1> HIDE DEF n
<1>2. step \in [1 .. n -> [Nat -> Nat]]
  BY <1>1
<1>3. PICK f \in [0 .. n -> Nat] : IsLoop(f, n, 0, step)
  <2> HIDE DEF step
  <2> QED
    BY <1>1, <1>2, LoopRecursion
<1>4. f[0] = 0
  BY <1>3 DEF IsLoop
<1>5. ASSUME NEW i \in 1 .. n
      PROVE  f[i] = f[i - 1] + chunks[i]
  <2>1. f[i] = step[i][f[i - 1]]
    <3> HIDE DEF step
    <3> QED
      BY <1>3 DEF IsLoop
  <2>2. f[i - 1] \in Nat
    BY <1>1
  <2> QED
    BY <2>1, <2>2
<1>6. IsSums(f, chunks)
  BY <1>4, <1>5 DEF IsSums, n
<1>7. f[n] = Total(chunks)
  BY <1>6, TotalIsLast DEF n
<1>8. ASSUME NEW i \in 1 .. n
      PROVE  f[i - 1] = Before(chunks, i)
  <2> DEFINE k == i - 1
             s == SubSeq(chunks, 1, k)
  <2>1. k \in 0 .. n
    BY <1>1
  <2>2. s \in Seq(Nat) /\ Len(s) = k /\ \A j \in 1 .. k : s[j] = chunks[j]
    <3>1. \A j \in 1 .. k : chunks[j] \in Nat
      BY <1>1
    <3> HIDE DEF k
    <3>2. /\ s \in Seq(Nat) /\ Len(s) = IF 1 <= k THEN k - 1 + 1 ELSE 0
          /\ \A j \in 1 .. k - 1 + 1 : s[j] = chunks[1 + j - 1]
      BY <2>1, <3>1, SubSeqProperties
    <3> HIDE DEF s
    <3>3. Len(s) = k
      BY <2>1, <3>2
    <3>4. ASSUME NEW j \in 1 .. k PROVE s[j] = chunks[j]
      <4>1. j \in 1 .. k - 1 + 1 /\ 1 + j - 1 = j
        BY <2>1
      <4> QED
        BY <3>2, <4>1, Zenon
    <3> QED
      BY <3>2, <3>3, <3>4
  <2> HIDE DEF k, s
  <2>3. \A j \in 1 .. k : f[j] = f[j - 1] + s[j]
    <3> SUFFICES ASSUME NEW j \in 1 .. k PROVE f[j] = f[j - 1] + s[j]
      OBVIOUS
    <3>1. j \in 1 .. n
      BY <1>1, <2>1
    <3> QED
      BY <1>5, <2>2, <3>1, Zenon
  <2>4. IsSums(f, s)
    BY <1>4, <2>2, <2>3, Zenon DEF IsSums
  <2>5. Total(s) = f[k]
    BY <2>2, <2>4, TotalIsLast
  <2> QED
    BY <2>5 DEF k, s, Before
<1> QED
  BY <1>3, <1>6, <1>7, <1>8 DEF n

\* One step of the reader, mode by mode.
LEMMA FeedIs ==
  ASSUME NEW g, NEW l, NEW t
  PROVE  /\ Feed(Rd(g, l, "length"), t)
              = Rd(Append(g, t), l - 1, IF l = 1 THEN "done" ELSE "length")
         /\ Feed(Rd(g, l, "skip"), t) = Rd(g, l - 1, IF l = 1 THEN "large" ELSE "skip")
         /\ Feed(Rd(g, l, "chunk"), t)
              = Rd(Append(g, t), l - 1, IF l = 1 THEN "crlf" ELSE "chunk")
         /\ t[1] = "size" =>
              Feed(Rd(g, l, "size"), t)
                = Rd(g, t[3], IF t[3] = 0 THEN "trailer" ELSE "chunk")
         /\ t[1] = "crlf" =>
              /\ Feed(Rd(g, l, "crlf"), t) = Rd(g, l, "size")
              /\ Feed(Rd(g, l, "trailer"), t) = Rd(g, l, "done")
              /\ Feed(Rd(g, l, "fields"), t) = Rd(g, l, "done")
         /\ t[1] = "field" =>
              /\ Feed(Rd(g, l, "trailer"), t) = Rd(g, l, "fields")
              /\ Feed(Rd(g, l, "fields"), t) = Rd(g, l, "fields")
BY DEF Feed, Rd, Deliver, Count

\* Data is a sequence of tokens, and grows at its end.
LEMMA DataIs ==
  ASSUME NEW id \in Nat, NEW first \in Int, NEW n \in Nat
  PROVE  /\ Data(id, first, n) \in Body(id) /\ Data(id, first, n) \in Tokens
         /\ Len(Data(id, first, n)) = n
         /\ \A i \in 1 .. n : Data(id, first, n)[i] = <<"data", id, first + i>>
         /\ \A i \in 1 .. n : <<"data", id, first + i>> \in Token
         /\ n = 0 => Data(id, first, n) = <<>>
<1>1. ASSUME NEW i \in 1 .. n
      PROVE  <<"data", id, first + i>> \in BodyToken(id) /\ <<"data", id, first + i>> \in Token
  BY DEF Token, BodyToken
<1>2. Data(id, first, n) \in Body(id) /\ Data(id, first, n) \in Tokens
  <2>1. Data(id, first, n) \in Body(id)
    BY <1>1 DEF Data, Body
  <2> QED
    BY <2>1, BodyIsTokens
<1>3. Len(Data(id, first, n)) = n
  BY DEF Data
<1>4. n = 0 => Data(id, first, n) = <<>>
  BY <1>2, <1>3, EmptySeq DEF Tokens
<1> QED
  BY <1>1, <1>2, <1>3, <1>4 DEF Data

\* One unit of content more.
LEMMA DataGrows ==
  ASSUME NEW id \in Nat, NEW first \in Int, NEW n \in Nat
  PROVE  Data(id, first, n + 1) = Append(Data(id, first, n), <<"data", id, first + n + 1>>)
<1> DEFINE d == Data(id, first, n)
           w == Data(id, first, n + 1)
           t == <<"data", id, first + n + 1>>
<1>1. d \in Tokens /\ Len(d) = n /\ \A i \in 1 .. n : d[i] = <<"data", id, first + i>>
  BY DataIs
<1>2. /\ w \in Tokens /\ Len(w) = n + 1 /\ t \in Token
      /\ \A i \in 1 .. n + 1 : w[i] = <<"data", id, first + i>>
  <2> DEFINE m == n + 1
  <2>1. m \in Nat /\ m \in 1 .. m /\ first + m = first + n + 1
    OBVIOUS
  <2> HIDE DEF m
  <2>2. /\ w \in Tokens /\ Len(w) = m /\ <<"data", id, first + m>> \in Token
        /\ \A i \in 1 .. m : w[i] = <<"data", id, first + i>>
    BY <2>1, DataIs DEF m
  <2> QED
    BY <2>1, <2>2 DEF m
<1> HIDE DEF d, w
<1>3. /\ Append(d, t) \in Tokens /\ Len(Append(d, t)) = n + 1
      /\ \A i \in 1 .. n : Append(d, t)[i] = d[i]
      /\ Append(d, t)[n + 1] = t
  BY <1>1, <1>2, AppendProperties DEF Tokens
<1>4. ASSUME NEW i \in 1 .. n + 1
      PROVE  w[i] = Append(d, t)[i]
  <2>1. CASE i \in 1 .. n
    BY <1>1, <1>2, <1>3, <2>1
  <2>2. CASE i \notin 1 .. n
    <3>1. i = n + 1
      BY <2>2
    <3> QED
      BY <1>2, <1>3, <3>1
  <2> QED
    BY <2>1, <2>2
<1>5. w = Append(d, t)
  BY <1>2, <1>3, <1>4, SeqEqual DEF Tokens
<1> QED
  BY <1>5 DEF w, d

\* What the reader has after a block of data.
Got(mode, g, d) == IF mode = "skip" THEN g ELSE g \o d
After(mode) == CASE mode = "length" -> "done"
                 [] mode = "skip" -> "large"
                 [] OTHER -> "crlf"

\* The reader takes as much content as it expects.
LEMMA ReadsData ==
  ASSUME NEW id \in Nat, NEW first \in Int, NEW n \in Nat \ {0},
         NEW kind \in {"length", "skip", "chunk"},
         NEW g \in Tokens, NEW e \in Tokens, NEW mode, NEW c,
         Reads(Rd(Got(kind, g, Data(id, first, n)), 0, After(kind)), e, mode, c)
  PROVE  Reads(Rd(g, n, kind), Data(id, first, n) \o e, mode, c)
<1> DEFINE d == Data(id, first, n)
           f == [i \in 0 .. n |-> Rd(Got(kind, g, Data(id, first, i)), n - i,
                                    IF i = n THEN After(kind) ELSE kind)]
<1>1. d \in Tokens /\ Len(d) = n /\ \A i \in 1 .. n : d[i] = <<"data", id, first + i>>
  BY DataIs
<1>2. ASSUME NEW i \in 1 .. n
      PROVE  /\ Got(kind, g, Data(id, first, i))
                  = IF kind = "skip" THEN Got(kind, g, Data(id, first, i - 1))
                    ELSE Append(Got(kind, g, Data(id, first, i - 1)), d[i])
  <2> DEFINE p == Data(id, first, i - 1)
  <2>1. i - 1 \in Nat /\ (i - 1) + 1 = i /\ first + (i - 1) + 1 = first + i
    OBVIOUS
  <2>2. p \in Tokens /\ Data(id, first, i) = Append(p, d[i]) /\ d[i] \in Token
    <3>1. p \in Tokens
      BY <2>1, DataIs
    <3>2. Data(id, first, (i - 1) + 1) = Append(p, <<"data", id, first + (i - 1) + 1>>)
      BY <2>1, DataGrows
    <3>3. d[i] = <<"data", id, first + i>> /\ <<"data", id, first + i>> \in Token
      BY DataIs
    <3> QED
      BY <2>1, <3>1, <3>2, <3>3
  <2> HIDE DEF p, d
  <2>3. g \o Append(p, d[i]) = Append(g \o p, d[i])
    <3> DEFINE t == d[i]
    <3>1. t \in Token
      BY <2>2
    <3> HIDE DEF t
    <3> DEFINE u == <<t>>
    <3>2. u \in Tokens
      BY <3>1 DEF Tokens
    <3>3. Append(p, t) = p \o u /\ Append(g \o p, t) = (g \o p) \o u
      BY <2>2, <3>1, AppendIsConcat, ConcatProperties DEF Tokens
    <3> HIDE DEF u
    <3>4. g \in Seq(Token) /\ p \in Seq(Token) /\ u \in Seq(Token)
      BY <2>2, <3>2 DEF Tokens
    <3>5. (g \o p) \o u = g \o (p \o u)
      BY <3>4, ConcatAssociative
    <3> QED
      BY <3>3, <3>5 DEF t
  <2> QED
    BY <2>2, <2>3 DEF p, Got
<1> HIDE DEF d
<1>3. ASSUME NEW i \in 1 .. n
      PROVE  f[i] = Feed(f[i - 1], d[i]) /\ ~Ended(f[i - 1])
  <2>1. /\ f[i] = Rd(Got(kind, g, Data(id, first, i)), n - i,
                    IF i = n THEN After(kind) ELSE kind)
        /\ f[i - 1] = Rd(Got(kind, g, Data(id, first, i - 1)), n - (i - 1), kind)
    OBVIOUS
  <2> DEFINE a == Got(kind, g, Data(id, first, i - 1))
             b == Got(kind, g, Data(id, first, i))
             l == n - (i - 1)
  <2>2. n - i = l - 1 /\ (l = 1 <=> i = n)
    OBVIOUS
  <2>3. b = IF kind = "skip" THEN a ELSE Append(a, d[i])
    BY <1>2, Zenon
  <2> HIDE DEF a, b, l, f
  <2>4. /\ f[i] = Rd(b, l - 1, IF l = 1 THEN After(kind) ELSE kind)
        /\ f[i - 1] = Rd(a, l, kind)
    BY <2>1, <2>2, Zenon DEF a, b, l
  <2>5. ~Ended(Rd(a, l, kind))
    BY DEF Ended, Rd
  <2>6. CASE kind = "length"
    <3>1. Feed(Rd(a, l, "length"), d[i])
             = Rd(Append(a, d[i]), l - 1, IF l = 1 THEN "done" ELSE "length")
      BY FeedIs
    <3>2. After(kind) = "done" /\ b = Append(a, d[i])
      BY <2>3, <2>6 DEF After
    <3> QED
      BY <2>4, <2>5, <2>6, <3>1, <3>2
  <2>7. CASE kind = "skip"
    <3>1. Feed(Rd(a, l, "skip"), d[i])
             = Rd(a, l - 1, IF l = 1 THEN "large" ELSE "skip")
      BY FeedIs
    <3>2. After(kind) = "large" /\ b = a
      BY <2>3, <2>7 DEF After
    <3> QED
      BY <2>4, <2>5, <2>7, <3>1, <3>2
  <2>8. CASE kind = "chunk"
    <3>1. Feed(Rd(a, l, "chunk"), d[i])
             = Rd(Append(a, d[i]), l - 1, IF l = 1 THEN "crlf" ELSE "chunk")
      BY FeedIs
    <3>2. After(kind) = "crlf" /\ b = Append(a, d[i])
      BY <2>3, <2>8 DEF After
    <3> QED
      BY <2>4, <2>5, <2>8, <3>1, <3>2
  <2> QED
    BY <2>4, <2>5, <2>6, <2>7, <2>8
<1>4. f[0] = Rd(g, n, kind)
  <2>1. f[0] = Rd(Got(kind, g, Data(id, first, 0)), n, kind)
    OBVIOUS
  <2>2. Data(id, first, 0) = <<>>
    BY DataIs
  <2>3. g \o <<>> = g
    BY ConcatEmptySeq DEF Tokens
  <2> HIDE DEF f
  <2> QED
    BY <2>1, <2>2, <2>3, Zenon DEF Got
<1>5. f[n] = Rd(Got(kind, g, d), 0, After(kind))
  BY DEF d
<1>6. ASSUME NEW i \in 0 .. n - 1
      PROVE  f[i].mode = kind
  <2>1. f[i] = Rd(Got(kind, g, Data(id, first, i)), n - i, kind)
    OBVIOUS
  <2> HIDE DEF f
  <2> QED
    BY <2>1 DEF Rd
<1> HIDE DEF f
<1>7. IsRun(f, Rd(g, n, kind), d)
  <2>1. \A i \in 1 .. Len(d) : f[i] = Feed(f[i - 1], d[i]) /\ ~Ended(f[i - 1])
    BY <1>1, <1>3
  <2> QED
    BY <1>4, <2>1, Zenon DEF IsRun
<1>8. \A i \in 0 .. Len(d) - 1 : f[i].mode \in Complete => f[i].got = c
  BY <1>1, <1>6 DEF Complete
<1>9. Reads(f[Len(d)], e, mode, c)
  BY <1>1, <1>5, Zenon DEF d
<1>10. Reads(Rd(g, n, kind), d \o e, mode, c)
  <2> DEFINE r == Rd(g, n, kind)
  <2> HIDE DEF r
  <2>1. IsRun(f, r, d)
    BY <1>7 DEF r
  <2>2. Reads(r, d \o e, mode, c)
    BY <1>1, <1>8, <1>9, <2>1, RunThen DEF Tokens
  <2> QED
    BY <2>2 DEF r
<1> QED
  BY <1>10 DEF d

\* Two blocks of data that follow one another.
LEMMA DataConcat ==
  ASSUME NEW id \in Nat, NEW a \in Nat, NEW n \in Nat
  PROVE  Data(id, 0, a) \o Data(id, a, n) = Data(id, 0, a + n)
<1> DEFINE s == Data(id, 0, a)
           t == Data(id, a, n)
           w == Data(id, 0, a + n)
<1>0. 0 \in Int /\ a \in Int /\ a + n \in Nat
  OBVIOUS
<1>1. /\ s \in Seq(Token) /\ Len(s) = a
      /\ \A i \in 1 .. a : s[i] = <<"data", id, 0 + i>>
  BY <1>0, DataIs, Zenon DEF Tokens
<1>2. /\ t \in Seq(Token) /\ Len(t) = n
      /\ \A i \in 1 .. n : t[i] = <<"data", id, a + i>>
  BY <1>0, DataIs, Zenon DEF Tokens
<1>3. /\ w \in Seq(Token) /\ Len(w) = a + n
      /\ \A i \in 1 .. a + n : w[i] = <<"data", id, 0 + i>>
  BY <1>0, DataIs, Zenon DEF Tokens
<1> HIDE DEF s, t, w
<1>4. /\ s \o t \in Seq(Token) /\ Len(s \o t) = a + n
      /\ \A i \in 1 .. a + n : (s \o t)[i] = IF i <= a THEN s[i] ELSE t[i - a]
  BY <1>1, <1>2, ConcatProperties
<1>5. ASSUME NEW i \in 1 .. a + n
      PROVE  (s \o t)[i] = w[i]
  <2>1. CASE i <= a
    <3>1. i \in 1 .. a
      BY <2>1
    <3> QED
      BY <1>1, <1>3, <1>4, <2>1, <3>1, Zenon
  <2>2. CASE ~(i <= a)
    <3>1. i - a \in 1 .. n /\ a + (i - a) = 0 + i
      BY <2>2
    <3>2. t[i - a] = <<"data", id, a + (i - a)>>
      BY <1>2, <3>1, Zenon
    <3> QED
      BY <1>3, <1>4, <2>2, <3>1, <3>2, Zenon
  <2> QED
    BY <2>1, <2>2
<1>6. s \o t = w
  BY <1>3, <1>4, <1>5, SeqEqual
<1> QED
  BY <1>6 DEF s, t, w

\* A chunk: its size, its data and the end of its line.
Chunk(id, first, n) ==
  <<<<"size", id, n>>>> \o Data(id, first, n) \o <<<<"crlf", id, 0>>>>

\* A chunk is part of a body.
LEMMA ChunkIs ==
  ASSUME NEW id \in Nat, NEW first \in Nat, NEW n \in Nat
  PROVE  Chunk(id, first, n) \in Body(id)
<1> DEFINE a == <<<<"size", id, n>>>>
           d == Data(id, first, n)
           z == <<<<"crlf", id, 0>>>>
<1>1. a \in Body(id) /\ z \in Body(id)
  BY DEF Body, BodyToken
<1>2. d \in Body(id)
  <2>1. first \in Int
    OBVIOUS
  <2> QED
    BY <2>1, DataIs, Zenon
<1> HIDE DEF a, d, z
<1>3. a \o d \in Body(id)
  BY <1>1, <1>2, ConcatProperties DEF Body
<1>4. (a \o d) \o z \in Body(id)
  BY <1>1, <1>3, ConcatProperties DEF Body
<1> QED
  BY <1>4 DEF Chunk, a, d, z

PartsOfChunk(a, d, z, id, first, n, e) ==
  /\ id \in Nat /\ first \in Nat /\ n \in Nat /\ e \in Tokens
  /\ a = <<"size", id, n>> /\ d = Data(id, first, n) /\ z = <<"crlf", id, 0>>
ChunkAsParts(a, d, z, id, first, n, e) ==
  /\ <<z>> \o e \in Tokens /\ d \o (<<z>> \o e) \in Tokens
  /\ Chunk(id, first, n) \o e = <<a>> \o (d \o (<<z>> \o e))

\* What follows a chunk follows its last token.
LEMMA ChunkBefore ==
  ASSUME NEW a, NEW d, NEW z, NEW id, NEW first, NEW n, NEW e,
         PartsOfChunk(a, d, z, id, first, n, e)
  PROVE  ChunkAsParts(a, d, z, id, first, n, e)
<1> USE DEF PartsOfChunk
<1>1. a \in Token /\ z \in Token
  BY DEF Token
<1>2. d \in Seq(Token)
  <2>1. first \in Int
    OBVIOUS
  <2> QED
    BY <2>1, DataIs, Zenon DEF Tokens
<1> DEFINE s == <<a>>
           v == <<z>>
<1>3. s \in Seq(Token)
  BY <1>1
<1>4. v \in Seq(Token)
  BY <1>1
<1>5. Chunk(id, first, n) = (s \o d) \o v
  BY DEF Chunk
<1>6. e \in Seq(Token)
  BY DEF Tokens
<1> HIDE DEF s, v
<1>7. /\ v \o e \in Seq(Token) /\ d \o (v \o e) \in Seq(Token)
      /\ ((s \o d) \o v) \o e = s \o (d \o (v \o e))
  <2>1. Four(Token, s, d, v, e)
    BY <1>2, <1>3, <1>4, <1>6 DEF Three, Four
  <2>2. FourAsOne(Token, s, d, v, e)
    BY <2>1, ConcatFour
  <2> QED
    BY <2>2 DEF FourAsOne
<1> QED
  BY <1>5, <1>7 DEF Tokens, ChunkAsParts, s, v

\* The reader takes a chunk.
LEMMA ReadsChunk ==
  ASSUME NEW id \in Nat, NEW first \in Nat, NEW n \in Nat \ {0},
         NEW g \in Tokens, NEW l, NEW e \in Tokens, NEW mode, NEW c,
         Reads(Rd(g \o Data(id, first, n), 0, "size"), e, mode, c)
  PROVE  Reads(Rd(g, l, "size"), Chunk(id, first, n) \o e, mode, c)
<1> DEFINE z == <<"crlf", id, 0>>
           a == <<"size", id, n>>
           d == Data(id, first, n)
           e1 == <<z>> \o e
           e2 == d \o e1
<1>1. z \in Token /\ a \in Token /\ z[1] = "crlf" /\ a[1] = "size" /\ a[3] = n
  BY DEF Token
<1>2. e1 \in Tokens /\ e2 \in Tokens /\ Chunk(id, first, n) \o e = <<a>> \o e2
  <2>1. PartsOfChunk(a, d, z, id, first, n, e)
    BY DEF PartsOfChunk
  <2> HIDE DEF z, a, d
  <2>2. ChunkAsParts(a, d, z, id, first, n, e)
    BY <2>1, ChunkBefore
  <2> QED
    BY <2>2 DEF ChunkAsParts
<1> HIDE DEF z, a
<1>3. Reads(Rd(g \o d, 0, "crlf"), e1, mode, c)
  <2> DEFINE r == Rd(g \o d, 0, "crlf")
  <2>1. Feed(r, z) = Rd(g \o d, 0, "size")
    BY <1>1, FeedIs
  <2>2. ~Ended(r) /\ r.mode \notin Complete
    BY DEF Ended, Complete, Rd
  <2> HIDE DEF r, d
  <2>3. Reads(Feed(r, z), e, mode, c)
    BY <2>1 DEF d
  <2>4. Reads(r, <<z>> \o e, mode, c)
    BY <1>1, <2>2, <2>3, ReadsCons DEF Tokens
  <2> QED
    BY <2>4 DEF r
<1> HIDE DEF e1
<1>4. Reads(Rd(g, n, "chunk"), e2, mode, c)
  <2>1. Got("chunk", g, d) = g \o d /\ After("chunk") = "crlf"
    BY DEF Got, After
  <2>2. Reads(Rd(Got("chunk", g, d), 0, After("chunk")), e1, mode, c)
    BY <1>3, <2>1, Zenon
  <2> QED
    <3>1. first \in Int /\ "chunk" \in {"length", "skip", "chunk"}
      OBVIOUS
    <3> QED
      BY <1>2, <2>2, <3>1, ReadsData, Zenon
<1> HIDE DEF e2, d
<1>5. Reads(Rd(g, l, "size"), <<a>> \o e2, mode, c)
  <2> DEFINE r == Rd(g, l, "size")
  <2>1. Feed(r, a) = Rd(g, n, "chunk")
    <3>1. Feed(r, a) = Rd(g, a[3], IF a[3] = 0 THEN "trailer" ELSE "chunk")
      BY <1>1, FeedIs
    <3> QED
      BY <1>1, <3>1
  <2>2. ~Ended(r) /\ r.mode \notin Complete
    BY DEF Ended, Complete, Rd
  <2> HIDE DEF r
  <2>3. Reads(Feed(r, a), e2, mode, c)
    BY <1>4, <2>1
  <2>4. Reads(r, <<a>> \o e2, mode, c)
    BY <1>1, <1>2, <2>2, <2>3, ReadsCons DEF Tokens
  <2> QED
    BY <2>4 DEF r
<1> QED
  BY <1>2, <1>5

\* The trailer of chunked content: its fields and an empty line.
Trailer(id, n) == [k \in 1 .. n |-> <<"field", id, k>>] \o <<<<"crlf", id, 0>>>>

\* A trailer is its fields and an empty line.
LEMMA TrailerIs ==
  ASSUME NEW id \in Nat, NEW n \in Nat
  PROVE  /\ Trailer(id, n) \in Body(id)
         /\ Len(Trailer(id, n)) = n + 1
         /\ \A i \in 1 .. n : Trailer(id, n)[i][1] = "field"
         /\ Trailer(id, n)[n + 1][1] = "crlf"
<1> DEFINE s == [k \in 1 .. n |-> <<"field", id, k>>]
           z == <<<<"crlf", id, 0>>>>
<1>1. s \in Body(id) /\ Len(s) = n /\ \A i \in 1 .. n : s[i][1] = "field"
  BY DEF Body, BodyToken
<1>2. z \in Body(id) /\ Len(z) = 1 /\ z[1][1] = "crlf"
  BY DEF Body, BodyToken
<1> HIDE DEF s, z
<1>3. /\ s \o z \in Body(id) /\ Len(s \o z) = Len(s) + Len(z)
      /\ \A i \in 1 .. Len(s) + Len(z) :
           (s \o z)[i] = IF i <= Len(s) THEN s[i] ELSE z[i - Len(s)]
  BY <1>1, <1>2, ConcatProperties DEF Body
<1>4. n + 1 \in 1 .. Len(s) + Len(z) /\ ~(n + 1 <= Len(s)) /\ (n + 1) - Len(s) = 1
  BY <1>1, <1>2
<1>5. (s \o z)[n + 1][1] = "crlf"
  BY <1>2, <1>3, <1>4, Zenon
<1>6. ASSUME NEW i \in 1 .. n
      PROVE  (s \o z)[i][1] = "field"
  <2>1. i \in 1 .. Len(s) + Len(z) /\ i <= Len(s)
    BY <1>1, <1>2
  <2> QED
    BY <1>1, <1>3, <2>1, Zenon
<1> QED
  BY <1>1, <1>2, <1>3, <1>5, <1>6 DEF Trailer, s, z

\* The reader takes the trailer and nothing after it.
LEMMA ReadsTrailer ==
  ASSUME NEW id \in Nat, NEW n \in Nat, NEW g, NEW l
  PROVE  Reads(Rd(g, l, "trailer"), Trailer(id, n), "done", g)
<1> DEFINE s == Trailer(id, n)
           f == [i \in 0 .. n + 1 |->
                  Rd(g, l, IF i = 0 THEN "trailer" ELSE IF i = n + 1 THEN "done"
                           ELSE "fields")]
<1>1. /\ Len(s) = n + 1 /\ s[n + 1][1] = "crlf"
      /\ \A i \in 1 .. n : s[i][1] = "field"
  BY TrailerIs
<1> HIDE DEF s
<1>2. f[0] = Rd(g, l, "trailer") /\ f[n + 1] = Rd(g, l, "done")
  OBVIOUS
<1>3. ASSUME NEW i \in 1 .. n + 1
      PROVE  f[i] = Feed(f[i - 1], s[i]) /\ ~Ended(f[i - 1])
  <2>1. f[i - 1] = Rd(g, l, "trailer") \/ f[i - 1] = Rd(g, l, "fields")
    OBVIOUS
  <2>2. ~Ended(f[i - 1])
    BY <2>1 DEF Ended, Rd
  <2>3. CASE i = n + 1
    <3>1. f[i] = Rd(g, l, "done") /\ s[i][1] = "crlf"
      BY <1>1, <2>3
    <3> HIDE DEF f
    <3>2. /\ Feed(Rd(g, l, "trailer"), s[i]) = Rd(g, l, "done")
          /\ Feed(Rd(g, l, "fields"), s[i]) = Rd(g, l, "done")
      BY <3>1, FeedIs
    <3> QED
      BY <2>1, <2>2, <3>1, <3>2, Zenon
  <2>4. CASE i # n + 1
    <3>1. f[i] = Rd(g, l, "fields") /\ s[i][1] = "field"
      BY <1>1, <2>4
    <3> HIDE DEF f
    <3>2. /\ Feed(Rd(g, l, "trailer"), s[i]) = Rd(g, l, "fields")
          /\ Feed(Rd(g, l, "fields"), s[i]) = Rd(g, l, "fields")
      BY <3>1, FeedIs
    <3> QED
      BY <2>1, <2>2, <3>1, <3>2, Zenon
  <2> QED
    BY <2>3, <2>4
<1>4. \A i \in 0 .. n + 1 : f[i].got = g
  BY DEF Rd
<1> HIDE DEF f
<1>5. IsRun(f, Rd(g, l, "trailer"), s)
  BY <1>1, <1>2, <1>3, Zenon DEF IsRun
<1>6. f[Len(s)].mode = "done"
  BY <1>1, <1>2 DEF Rd
<1>7. Reads(Rd(g, l, "trailer"), s, "done", g)
  BY <1>1, <1>4, <1>5, <1>6, Zenon DEF Reads
<1> QED
  BY <1>7 DEF s

\* The last chunk and the trailer.
LastChunk(id, fields) == <<<<"size", id, 0>>>> \o Trailer(id, fields)

\* The reader takes the last chunk and the trailer.
LEMMA ReadsLastChunk ==
  ASSUME NEW id \in Nat, NEW n \in Nat, NEW g, NEW l
  PROVE  /\ LastChunk(id, n) \in Body(id)
         /\ Reads(Rd(g, l, "size"), LastChunk(id, n), "done", g)
<1> DEFINE a == <<"size", id, 0>>
           s == Trailer(id, n)
           r == Rd(g, l, "size")
<1>1. a \in Token /\ a \in BodyToken(id) /\ a[1] = "size" /\ a[3] = 0
  BY DEF Token, BodyToken
<1> HIDE DEF a
<1>2. s \in Body(id) /\ s \in Tokens
  BY TrailerIs, BodyIsTokens
<1>3. Feed(r, a) = Rd(g, 0, "trailer")
  <2>1. Feed(r, a) = Rd(g, a[3], IF a[3] = 0 THEN "trailer" ELSE "chunk")
    BY <1>1, FeedIs
  <2> QED
    BY <1>1, <2>1
<1>4. ~Ended(r) /\ r.mode \notin Complete
  BY DEF Ended, Complete, Rd
<1>5. Reads(Rd(g, 0, "trailer"), s, "done", g)
  BY ReadsTrailer
<1> HIDE DEF r, s
<1>6. Reads(Feed(r, a), s, "done", g)
  BY <1>3, <1>5
<1>7. Reads(r, <<a>> \o s, "done", g)
  BY <1>1, <1>2, <1>4, <1>6, ReadsCons DEF Tokens
<1>8. <<a>> \o s \in Body(id)
  BY <1>1, <1>2, ElementBefore DEF Body
<1> QED
  BY <1>7, <1>8 DEF LastChunk, a, r, s

\* Chunked content as the chunks and the last one.
Chunks(id, chunks) ==
  [k \in 1 .. Len(chunks) |-> Chunk(id, Before(chunks, k), chunks[k])]

\* Chunked content is its chunks one after the other, and the last one.
LEMMA ChunkedContentIs ==
  ASSUME NEW id \in Nat, NEW chunks \in Pieces, NEW fields \in Nat
  PROVE  /\ Chunks(id, chunks) \in Seq(Body(id))
         /\ ChunkedContent(id, chunks, fields)
              = FlattenSeq(Chunks(id, chunks)) \o LastChunk(id, fields)
<1> DEFINE n == Len(chunks)
<1>1. n \in Nat /\ chunks \in Seq(Nat) /\ \A k \in 1 .. n : chunks[k] \in Nat
  BY LenProperties, ElementOfSeq, SeqMonotonic DEF Pieces
<1>2. PICK f \in [0 .. n -> Nat] : \A i \in 1 .. n : f[i - 1] = Before(chunks, i)
  BY <1>1, Sums
<1>3. ASSUME NEW k \in 1 .. n
      PROVE  Before(chunks, k) \in Nat
  BY <1>1, <1>2, k - 1 \in 0 .. n
<1>4. ASSUME NEW k \in 1 .. n
      PROVE  Chunk(id, Before(chunks, k), chunks[k]) \in Body(id)
  BY <1>1, <1>3, ChunkIs
<1>5. Chunks(id, chunks) \in Seq(Body(id))
  BY <1>1, <1>4 DEF Chunks
<1> DEFINE a == <<<<"size", id, 0>>>>
           u == [k \in 1 .. fields |-> <<"field", id, k>>]
           z == <<<<"crlf", id, 0>>>>
           w == FlattenSeq(Chunks(id, chunks))
<1>6. ChunkedContent(id, chunks, fields) = ((w \o a) \o u) \o z
  BY DEF ChunkedContent, Chunks, Chunk
<1>7. LastChunk(id, fields) = a \o (u \o z)
  BY DEF LastChunk, Trailer
<1>8. a \in Body(id) /\ u \in Body(id) /\ z \in Body(id)
  BY DEF Body, BodyToken
<1>9. w \in Body(id)
  <2>1. PICK h : /\ IsFlattening(h, BodyToken(id), Chunks(id, chunks))
                 /\ w = h[Len(Chunks(id, chunks))]
    BY <1>5, FlattenIsLoop DEF Body
  <2>2. Len(Chunks(id, chunks)) \in 0 .. Len(Chunks(id, chunks))
    BY <1>5, LenProperties
  <2> QED
    BY <2>1, <2>2 DEF IsFlattening, Body
<1> HIDE DEF a, u, z, w
<1>10. ((w \o a) \o u) \o z = w \o (a \o (u \o z))
  <2>1. Four(BodyToken(id), w, a, u, z)
    BY <1>8, <1>9 DEF Three, Four, Body
  <2>2. FourAsOne(BodyToken(id), w, a, u, z)
    BY <2>1, ConcatFour
  <2> QED
    BY <2>2 DEF FourAsOne
<1> QED
  BY <1>5, <1>6, <1>7, <1>10 DEF w

\* The reader takes chunked content and has what the chunks hold.
LEMMA ReadsChunkedContent ==
  ASSUME NEW id \in Nat, NEW chunks \in Pieces, NEW fields \in Nat
  PROVE  /\ ChunkedContent(id, chunks, fields) \in Body(id)
         /\ Reads(Rd(<<>>, 0, "size"), ChunkedContent(id, chunks, fields), "done",
                  Content(id, chunks))
<1> DEFINE n == Len(chunks)
           w == Chunks(id, chunks)
           start == Rd(<<>>, 0, "size")
<1>1. /\ n \in Nat /\ chunks \in Seq(Nat) /\ Len(w) = n
      /\ \A k \in 1 .. n : chunks[k] \in Nat \ {0}
                           /\ w[k] = Chunk(id, Before(chunks, k), chunks[k])
  BY LenProperties, ElementOfSeq, SeqMonotonic DEF Pieces, Chunks
<1>2. /\ w \in Seq(Body(id))
      /\ ChunkedContent(id, chunks, fields) = FlattenSeq(w) \o LastChunk(id, fields)
  BY ChunkedContentIs
<1>3. PICK F : IsFlattening(F, BodyToken(id), w) /\ FlattenSeq(w) = F[Len(w)]
  BY <1>2, FlattenIsLoop DEF Body
<1>4. PICK B \in [0 .. n -> Nat] :
        /\ IsSums(B, chunks) /\ B[n] = Total(chunks)
        /\ \A i \in 1 .. n : B[i - 1] = Before(chunks, i)
  BY <1>1, Sums
<1> DEFINE c == Content(id, chunks)
           T == {k \in Nat : k <= n =>
                  \A e \in Tokens : Reads(Rd(Data(id, 0, B[k]), 0, "size"), e, "done", c)
                                      => Reads(start, F[k] \o e, "done", c)}
<1>5. /\ F[0] = <<>> /\ B[0] = 0
      /\ \A k \in 0 .. n : F[k] \in Body(id) /\ F[k] \in Tokens
      /\ \A k \in 1 .. n : F[k] = F[k - 1] \o w[k]
  <2>1. \A k \in 0 .. n : F[k] \in Body(id)
    BY <1>1, <1>3 DEF IsFlattening, Body
  <2>2. \A k \in 0 .. n : F[k] \in Tokens
    BY <2>1, BodyIsTokens
  <2>3. F[0] = <<>> /\ B[0] = 0
    BY <1>3, <1>4 DEF IsFlattening, IsSums
  <2>4. \A k \in 1 .. n : F[k] = F[k - 1] \o w[k]
    <3> HIDE DEF w
    <3> QED
      BY <1>1, <1>3, Zenon DEF IsFlattening
  <2> QED
    BY <2>1, <2>2, <2>3, <2>4
<1> HIDE DEF n, w, start, c
<1>6. 0 \in T
  <2> SUFFICES ASSUME NEW e \in Tokens, Reads(Rd(Data(id, 0, B[0]), 0, "size"), e, "done", c)
               PROVE  Reads(start, F[0] \o e, "done", c)
    BY DEF T
  <2>1. 0 \in Int /\ 0 \in Nat
    OBVIOUS
  <2>2. Data(id, 0, 0) = <<>>
    BY <2>1, DataIs, Zenon
  <2>3. <<>> \o e = e
    BY ConcatEmptySeq DEF Tokens
  <2> QED
    BY <1>5, <2>2, <2>3, Zenon DEF start
<1>7. ASSUME NEW k \in Nat, k \in T
      PROVE  k + 1 \in T
  <2> DEFINE i == k + 1
             first == B[k]
             m == chunks[i]
             g == Data(id, 0, first)
  <2> SUFFICES ASSUME i <= n,
                      NEW e \in Tokens, Reads(Rd(Data(id, 0, B[i]), 0, "size"), e, "done", c)
               PROVE  Reads(start, F[i] \o e, "done", c)
    BY DEF T
  <2>1. i \in 1 .. n /\ i - 1 = k /\ k <= n /\ k \in 0 .. n
    BY <1>1
  <2> HIDE DEF i
  <2>2. /\ first \in Nat /\ m \in Nat \ {0} /\ B[i] = first + m
        /\ w[i] = Chunk(id, first, m)
    <3>1. first \in Nat
      BY <1>4, <2>1
    <3>2. m \in Nat \ {0} /\ w[i] = Chunk(id, Before(chunks, i), m)
      BY <1>1, <2>1
    <3>3. B[i] = B[i - 1] + m /\ B[i - 1] = Before(chunks, i)
      BY <1>4, <2>1 DEF IsSums, n
    <3> QED
      BY <2>1, <3>1, <3>2, <3>3, Zenon
  <2> HIDE DEF first, m
  <2>3. g \o Data(id, first, m) = Data(id, 0, B[i])
    <3>1. m \in Nat
      BY <2>2
    <3>2. g \o Data(id, first, m) = Data(id, 0, first + m)
      BY <2>2, <3>1, DataConcat
    <3> QED
      BY <2>2, <3>2
  <2>4. g \in Tokens
    <3>1. 0 \in Int
      OBVIOUS
    <3> QED
      BY <2>2, <3>1, DataIs, Zenon
  <2> HIDE DEF g
  <2>5. Reads(Rd(g, 0, "size"), w[i] \o e, "done", c)
    <3>1. Reads(Rd(g \o Data(id, first, m), 0, "size"), e, "done", c)
      BY <2>3
    <3>2. Reads(Rd(g, 0, "size"), Chunk(id, first, m) \o e, "done", c)
      BY <2>2, <2>4, <3>1, ReadsChunk
    <3> QED
      BY <2>2, <3>2
  <2>6. w[i] \in Tokens
    <3>1. m \in Nat
      BY <2>2
    <3>2. w[i] \in Body(id)
      BY <2>2, <3>1, ChunkIs
    <3> QED
      BY <3>2, BodyIsTokens
  <2>7. ThreeAsOne(Token, F[k], w[i], e)
    <3>1. Three(Token, F[k], w[i], e)
      BY <1>5, <2>1, <2>6 DEF Three, Tokens
    <3> QED
      BY <3>1, ConcatThree
  <2>8. w[i] \o e \in Tokens /\ F[i] \o e = F[k] \o (w[i] \o e)
    <3>1. F[i] = F[k] \o w[i]
      BY <1>5, <2>1, Zenon
    <3>2. /\ w[i] \o e \in Tokens
          /\ (F[k] \o w[i]) \o e = F[k] \o (w[i] \o e)
      BY <2>7 DEF ThreeAsOne, Tokens
    <3> QED
      BY <3>1, <3>2, Zenon
  <2> DEFINE v == w[i] \o e
  <2>9. v \in Tokens /\ Reads(Rd(Data(id, 0, B[k]), 0, "size"), v, "done", c)
    BY <2>5, <2>8 DEF g, first
  <2> HIDE DEF v
  <2>10. Reads(start, F[k] \o v, "done", c)
    BY <1>7, <2>1, <2>9 DEF T
  <2> QED
    BY <2>8, <2>10, Zenon DEF v
<1>8. n \in T
  <2> HIDE DEF T
  <2> QED
    BY <1>1, <1>6, <1>7, NatSetInduction
<1> DEFINE z == LastChunk(id, fields)
<1>9. z \in Body(id) /\ Reads(Rd(c, 0, "size"), z, "done", c)
  BY ReadsLastChunk
<1>10. z \in Tokens
  BY <1>9, BodyIsTokens
<1>11. Data(id, 0, B[n]) = c
  BY <1>4 DEF Content, c
<1> HIDE DEF z
<1>12. Reads(start, F[n] \o z, "done", c)
  BY <1>1, <1>8, <1>9, <1>10, <1>11 DEF T
<1>13. ChunkedContent(id, chunks, fields) = F[n] \o z
  BY <1>1, <1>2, <1>3 DEF z
<1>14. F[n] \o z \in Body(id)
  <2>1. F[n] \in Body(id)
    BY <1>1, <1>5
  <2> QED
    BY <1>9, <2>1, ConcatProperties DEF Body
<1> QED
  BY <1>12, <1>13, <1>14 DEF start, c

\* The reader takes content of a known length, or skips it.
LEMMA ReadsContent ==
  ASSUME NEW id \in Nat, NEW chunks \in Pieces, NEW kind \in {"length", "skip"}
  PROVE  /\ Total(chunks) \in Nat
         /\ Content(id, chunks) \in Body(id)
         /\ Total(chunks) = 0 => Content(id, chunks) = <<>>
         /\ Total(chunks) # 0 =>
              Reads(Rd(<<>>, Total(chunks), kind), Content(id, chunks), After(kind),
                    Content(id, chunks))
<1> DEFINE n == Total(chunks)
           d == Data(id, 0, n)
<1>1. n \in Nat
  <2>1. chunks \in Seq(Nat) /\ Len(chunks) \in Nat
    BY SeqMonotonic, LenProperties DEF Pieces
  <2>2. \E B \in [0 .. Len(chunks) -> Nat] : B[Len(chunks)] = n
    BY <2>1, Sums
  <2> QED
    BY <2>1, <2>2
<1> HIDE DEF n
<1>2. d \in Body(id) /\ d \in Tokens /\ (n = 0 => d = <<>>)
  <2>1. 0 \in Int
    OBVIOUS
  <2> QED
    BY <1>1, <2>1, DataIs, Zenon
<1>3. ASSUME n # 0
      PROVE  Reads(Rd(<<>>, n, kind), d, After(kind), d)
  <2>1. <<>> \in Tokens /\ <<>> \o d = d /\ d \o <<>> = d
    BY <1>2, ConcatEmptySeq DEF Tokens
  <2> DEFINE r == Rd(Got(kind, <<>>, d), 0, After(kind))
  <2>2. r.mode = After(kind) /\ (r.mode \in Complete => r.got = d)
    <3> HIDE DEF d
    <3>1. CASE kind = "length"
      BY <2>1, <3>1 DEF Got, After, Rd
    <3>2. CASE kind = "skip"
      BY <3>2 DEF Got, After, Rd, Complete
    <3> QED
      BY <3>1, <3>2
  <2>3. Reads(r, <<>>, After(kind), d)
    <3> HIDE DEF r, d
    <3> QED
      BY <2>2, ReadsNothing
  <2>4. Reads(Rd(<<>>, n, kind), d \o <<>>, After(kind), d)
    <3>1. n \in Nat \ {0} /\ 0 \in Int /\ kind \in {"length", "skip", "chunk"}
      BY <1>1, <1>3
    <3> QED
      BY <2>1, <2>3, <3>1, ReadsData, Zenon
  <2> QED
    BY <2>1, <2>4
<1> QED
  BY <1>1, <1>2, <1>3 DEF Content, n

\* What is read when nothing comes and the content is known to be empty.
LEMMA ReadsNoContent ==
  ASSUME NEW left
  PROVE  Reads(Rd(<<>>, left, "done"), <<>>, "done", <<>>)
<1> DEFINE r == Rd(<<>>, left, "done")
<1>1. r.mode = "done" /\ r.got = <<>>
  BY DEF Rd
<1> HIDE DEF r
<1>2. Reads(r, <<>>, "done", <<>>)
  BY <1>1, ReadsNothing
<1> QED
  BY <1>2 DEF r

\* The content of nothing.
LEMMA EmptyContent ==
  ASSUME NEW id \in Nat
  PROVE  Total(<<>>) = 0 /\ Content(id, <<>>) = <<>>
<1>1. <<>> \in Seq(Nat) /\ Len(<<>>) = 0 /\ <<>> \in Pieces
  BY DEF Pieces
<1>2. PICK B \in [0 .. 0 -> Nat] : IsSums(B, <<>>) /\ B[0] = Total(<<>>)
  BY <1>1, Sums
<1>3. Total(<<>>) = 0
  BY <1>2 DEF IsSums
<1>4. Total(<<>>) = 0 => Content(id, <<>>) = <<>>
  BY <1>1, ReadsContent
<1> QED
  BY <1>3, <1>4

\* A message: two tokens and a body.
PartsOfMessage(id, a, b, body) ==
  id \in Nat /\ a \in Token /\ b \in Token /\ a[2] = id /\ b[2] = id /\ body \in Body(id)
IsMessage(m, id, a, b, body) ==
  /\ m \in Tokens /\ m # <<>> /\ Head(m) = a
  /\ Tail(m) \in Tokens /\ Tail(m) # <<>> /\ Head(Tail(m)) = b
  /\ Tail(Tail(m)) = body
  /\ body \in Tokens
  /\ \A t \in ToSet(m) : t[2] = id
  /\ \A t \in ToSet(body) : t[1] \in {"data", "size", "crlf", "field"}

\* What is left of a message after one token and after two.
LEMMA MessageIs ==
  ASSUME NEW id, NEW a, NEW b, NEW body, PartsOfMessage(id, a, b, body)
  PROVE  IsMessage(<<a, b>> \o body, id, a, b, body)
<1> USE DEF PartsOfMessage
<1> DEFINE two == <<a, b>>
           m == two \o body
<1>1. body \in Tokens
  BY BodyIsTokens
<1>2. two \in Tokens /\ two # <<>> /\ Head(two) = a /\ Tail(two) = <<b>>
  BY DEF Tokens
<1>3. <<b>> \in Tokens /\ <<b>> # <<>> /\ Head(<<b>>) = b /\ Tail(<<b>>) = <<>>
  BY DEF Tokens
<1>4. ToSet(two) = {a, b}
  BY DEF ToSet
<1>5. \A t \in ToSet(body) : t \in BodyToken(id)
  BY LenProperties DEF ToSet, Body
<1>6. \A t \in ToSet(body) : t[2] = id /\ t[1] \in {"data", "size", "crlf", "field"}
  BY <1>5 DEF BodyToken
<1> HIDE DEF two
<1>7. m \in Tokens /\ m # <<>> /\ Head(m) = a /\ Tail(m) = <<b>> \o body
  <2>1. two \in Seq(Token) /\ body \in Seq(Token)
    BY <1>1, <1>2 DEF Tokens
  <2>2. m \in Seq(Token)
    BY <2>1, ConcatProperties
  <2>3. m # <<>> /\ Head(m) = Head(two) /\ Tail(m) = Tail(two) \o body
    BY <1>2, <2>1, HeadOfConcat
  <2> QED
    BY <1>2, <2>2, <2>3, Zenon DEF Tokens
<1>8. /\ <<b>> \o body \in Tokens /\ <<b>> \o body # <<>>
      /\ Head(<<b>> \o body) = b /\ Tail(<<b>> \o body) = body
  BY <1>1, ElementBefore DEF Tokens
<1>9. ToSet(m) = ToSet(two) \cup ToSet(body)
  BY <1>1, <1>2, ConcatSet DEF Tokens
<1>10. \A t \in ToSet(m) : t[2] = id
  BY <1>4, <1>6, <1>9
<1> HIDE DEF m
<1>11. /\ m \in Tokens /\ m # <<>> /\ Head(m) = a
       /\ Tail(m) \in Tokens /\ Tail(m) # <<>> /\ Head(Tail(m)) = b
       /\ Tail(Tail(m)) = body
  BY <1>7, <1>8
<1> QED
  BY <1>1, <1>6, <1>10, <1>11 DEF IsMessage, m, two

-----------------------------------------------------------------------------
(* Requests and responses as they are written.                             *)

\* What RequestsAssumption says of a request.
WellFormed(q) ==
  /\ q.framing = "none" => q.chunks = <<>>
  /\ q.method = "DELETE" => q.framing # "chunked"

RequestBody(id, q) ==
  CASE q.framing = "none" -> <<>>
    [] q.framing = "length" -> Content(id, q.chunks)
    [] q.framing = "chunked" -> ChunkedContent(id, q.chunks, 0)

\* The parts of a request.
LEMMA RequestIs ==
  ASSUME NEW id \in Nat, NEW q \in AnyRequest
  PROVE  /\ RequestBody(id, q) \in Body(id) /\ RequestBody(id, q) \in Tokens
         /\ RequestHead(q) \in Heads
         /\ RequestHead(q).close = q.close
         /\ RequestTokens(id, q) \in Tokens /\ RequestTokens(id, q) # <<>>
         /\ Head(RequestTokens(id, q)) = <<"request", id, q>>
         /\ Tail(RequestTokens(id, q)) \in Tokens /\ Tail(RequestTokens(id, q)) # <<>>
         /\ Head(Tail(RequestTokens(id, q))) = <<"headers", id, RequestHead(q)>>
         /\ Tail(Tail(RequestTokens(id, q))) = RequestBody(id, q)
         /\ \A t \in ToSet(RequestTokens(id, q)) : t[2] = id
<1> DEFINE a == <<"request", id, q>>
           h == RequestHead(q)
           b == <<"headers", id, h>>
           body == RequestBody(id, q)
<1>1. q.chunks \in Pieces /\ q.framing \in {"none", "length", "chunked"} /\ q.close \in BOOLEAN
  BY DEF AnyRequest
<1>2. Total(q.chunks) \in Nat /\ Content(id, q.chunks) \in Body(id)
  BY <1>1, ReadsContent
<1>3. ChunkedContent(id, q.chunks, 0) \in Body(id) /\ <<>> \in Body(id)
  BY <1>1, ReadsChunkedContent DEF Body
<1>4. body \in Body(id)
  BY <1>1, <1>2, <1>3 DEF RequestBody
<1>5. h \in Heads /\ h.close = q.close
  BY <1>1, <1>2 DEF RequestHead, Headers, Heads, NoLength
<1>6. RequestTokens(id, q) = <<a, b>> \o body
  BY DEF RequestTokens, RequestBody
<1> HIDE DEF h
<1>7. a \in Token /\ b \in Token /\ a[2] = id /\ b[2] = id
  BY <1>5 DEF Token
<1> HIDE DEF a, b, body
<1>8. IsMessage(<<a, b>> \o body, id, a, b, body)
  BY <1>4, <1>7, MessageIs DEF PartsOfMessage
<1>9. IsMessage(RequestTokens(id, q), id, a, b, body)
  BY <1>6, <1>8
<1> QED
  BY <1>4, <1>5, <1>9 DEF IsMessage, a, b, body, h

\* The server's reader takes the body of a request that the routing has read.
LEMMA ReadsRequest ==
  ASSUME NEW id \in Nat, NEW q \in AnyRequest, WellFormed(q), HasContent(q),
         ~(q.method = "DELETE" /\ q.framing # "length")
  PROVE  \E mode \in {"done", "large"} :
           Reads(NewReader(RequestHead(q), PayloadMax), RequestBody(id, q), mode,
                 Content(id, q.chunks))
<1> DEFINE n == Total(q.chunks)
           c == Content(id, q.chunks)
           r == NewReader(RequestHead(q), PayloadMax)
<1>1. /\ q.chunks \in Pieces /\ q.framing \in {"none", "length", "chunked"}
      /\ q.method \in {"POST", "DELETE"}
  BY DEF AnyRequest, HasContent
<1>2. /\ n \in Nat /\ (n = 0 => c = <<>>)
      /\ n # 0 => Reads(Rd(<<>>, n, "length"), c, "done", c)
      /\ n # 0 => Reads(Rd(<<>>, n, "skip"), c, "large", c)
  <2>1. /\ n \in Nat /\ (n = 0 => c = <<>>)
        /\ n # 0 => Reads(Rd(<<>>, n, "length"), c, After("length"), c)
    BY <1>1, ReadsContent
  <2>2. n # 0 => Reads(Rd(<<>>, n, "skip"), c, After("skip"), c)
    BY <1>1, ReadsContent
  <2> QED
    BY <2>1, <2>2 DEF After
<1>3. CASE q.framing = "none"
  <2>1. q.method = "POST" /\ q.chunks = <<>>
    BY <1>1, <1>3 DEF WellFormed
  <2>2. r = Rd(<<>>, 0, "done")
    <3>1. RequestHead(q) = Headers(0, FALSE, q.close)
      BY <1>3, <2>1 DEF RequestHead
    <3> QED
      BY <3>1, LimitsAssumption DEF NewReader, Headers, NoLength, Rd
  <2>3. RequestBody(id, q) = <<>> /\ c = <<>>
    BY <1>3, <2>1, EmptyContent DEF RequestBody
  <2> QED
    BY <2>2, <2>3, ReadsNoContent
<1>4. CASE q.framing = "length"
  <2>1. RequestBody(id, q) = c
    BY <1>4 DEF RequestBody
  <2>2. r = Rd(<<>>, n, IF n > PayloadMax THEN "skip" ELSE IF n = 0 THEN "done" ELSE "length")
    <3> HIDE DEF n
    <3>1. RequestHead(q) = Headers(n, FALSE, q.close)
      BY <1>4 DEF RequestHead, n
    <3> QED
      BY <1>2, <3>1, LimitsAssumption DEF NewReader, Headers, NoLength, Rd
  <2> HIDE DEF n, c, r
  <2>3. CASE n = 0
    <3>1. r = Rd(<<>>, 0, "done") /\ c = <<>>
      BY <1>2, <2>2, <2>3, LimitsAssumption
    <3> QED
      BY <2>1, <3>1, ReadsNoContent DEF r, c
  <2>4. CASE n # 0 /\ n > PayloadMax
    BY <1>2, <2>1, <2>2, <2>4 DEF r, c
  <2>5. CASE n # 0 /\ ~(n > PayloadMax)
    BY <1>2, <2>1, <2>2, <2>5 DEF r, c
  <2> QED
    BY <2>3, <2>4, <2>5
<1>5. CASE q.framing = "chunked"
  <2>1. RequestBody(id, q) = ChunkedContent(id, q.chunks, 0)
    BY <1>5 DEF RequestBody
  <2>2. r = Rd(<<>>, 0, "size")
    <3>1. RequestHead(q) = Headers(NoLength, TRUE, q.close)
      BY <1>5 DEF RequestHead
    <3> QED
      BY <3>1 DEF NewReader, Headers, NoLength, Rd
  <2>3. Reads(Rd(<<>>, 0, "size"), ChunkedContent(id, q.chunks, 0), "done", c)
    BY <1>1, ReadsChunkedContent
  <2> QED
    BY <2>1, <2>2, <2>3
<1> QED
  BY <1>1, <1>3, <1>4, <1>5

\* What RepliesAssumption says of a reply, and a handler that throws keeps.
Answers ==
  {p \in AnyReply : /\ p.status # 100
                    /\ p.framing = "none" => p.chunks = <<>>
                    /\ p.status \in Contentless => p.framing = "none"}

ResponseBody(id, method, p) ==
  IF method = "HEAD" \/ p.framing = "none" THEN <<>>
  ELSE IF p.framing = "chunked" THEN ChunkedContent(id, p.chunks, p.fields)
  ELSE Content(id, p.chunks)

\* No response begins in s.
NoStatus(s) == \A t \in ToSet(s) : t[1] # "status"

\* The parts of a response.
LEMMA ResponseIs ==
  ASSUME NEW id \in Nat, NEW method, NEW p \in Answers, NEW applied \in BOOLEAN,
         NEW close \in BOOLEAN
  PROVE  LET m == ResponseTokens(id, method, p, applied, close)
             h == ResponseHead(p, applied, close)
         IN  /\ ResponseBody(id, method, p) \in Tokens
             /\ h \in Heads /\ h.close = close
             /\ m \in Tokens /\ m # <<>> /\ Head(m) = <<"status", id, p>>
             /\ Tail(m) \in Tokens /\ Tail(m) # <<>>
             /\ Head(Tail(m)) = <<"headers", id, h>>
             /\ Tail(Tail(m)) = ResponseBody(id, method, p)
             /\ NoStatus(Tail(m)) /\ NoStatus(ResponseBody(id, method, p))
<1> DEFINE a == <<"status", id, p>>
           h == ResponseHead(p, applied, close)
           b == <<"headers", id, h>>
           body == ResponseBody(id, method, p)
<1>1. p \in AnyReply /\ p.chunks \in Pieces /\ p.fields \in Nat
  BY DEF Answers, AnyReply
<1>2. Total(p.chunks) \in Nat /\ Content(id, p.chunks) \in Body(id)
  BY <1>1, ReadsContent
<1>3. ChunkedContent(id, p.chunks, p.fields) \in Body(id) /\ <<>> \in Body(id)
  <2>1. <<>> \in Body(id)
    BY DEF Body
  <2> QED
    BY <1>1, <2>1, ReadsChunkedContent
<1>4. body \in Body(id)
  BY <1>2, <1>3 DEF ResponseBody
<1>5. h \in Heads /\ h.close = close
  BY <1>2 DEF ResponseHead, Headers, Heads, NoLength
<1>6. ResponseTokens(id, method, p, applied, close) = <<a, b>> \o body
  BY DEF ResponseTokens, ResponseBody
<1> HIDE DEF h
<1>7. a \in Token /\ b \in Token /\ a[2] = id /\ b[2] = id /\ b[1] = "headers"
  BY <1>1, <1>5 DEF Token
<1> HIDE DEF a, b, body
<1> DEFINE m == <<a, b>> \o body
<1>8. IsMessage(m, id, a, b, body)
  BY <1>4, <1>7, MessageIs DEF PartsOfMessage
<1> DEFINE u == Tail(m)
<1>9. ToSet(u) = {b} \cup ToSet(body)
  <2>1. u \in Tokens /\ u # <<>> /\ Head(u) = b /\ Tail(u) = body
    <3> HIDE DEF m
    <3> QED
      BY <1>8 DEF IsMessage
  <2> HIDE DEF u
  <2>2. ToSet(u) = {Head(u)} \cup ToSet(Tail(u))
    BY <2>1, HeadSet DEF Tokens
  <2> QED
    BY <2>1, <2>2, Zenon
<1>10. NoStatus(u) /\ NoStatus(body)
  <2>1. \A t \in ToSet(body) : t[1] \in {"data", "size", "crlf", "field"}
    BY <1>8 DEF IsMessage
  <2> HIDE DEF u
  <2> QED
    BY <1>7, <1>9, <2>1 DEF NoStatus
<1>11. IsMessage(m, id, a, b, body) /\ m = ResponseTokens(id, method, p, applied, close)
  BY <1>6, <1>8
<1> HIDE DEF m
<1> QED
  BY <1>4, <1>5, <1>10, <1>11 DEF IsMessage, a, b, body, h, u

\* The headers tell where the content ends.
Framed(h) == h.length # NoLength \/ h.chunked

\* The reader that the client chooses.
ClientReader(method, p, h) ==
  IF method = "HEAD" \/ p.status \in Contentless THEN NoReader ELSE NewReader(h, h.length)

\* The client's reader takes the body of a response whose headers frame it; without
\* them it reads until the stream ends.
LEMMA ReadsResponse ==
  ASSUME NEW id \in Nat, NEW method, NEW p \in Answers, NEW applied \in BOOLEAN,
         NEW close \in BOOLEAN, NEW h, h = ResponseHead(p, applied, close)
  PROVE  /\ Framed(h) /\ method # "HEAD" =>
              Reads(ClientReader(method, p, h), ResponseBody(id, method, p), "done",
                    Content(id, p.chunks))
         /\ ~(Framed(h) /\ method # "HEAD") =>
              \/ ClientReader(method, p, h).mode = "close"
              \/ /\ method = "HEAD" /\ ClientReader(method, p, h).mode = "done"
                 /\ ResponseBody(id, method, p) = <<>>
<1> DEFINE n == Total(p.chunks)
           c == Content(id, p.chunks)
           r == ClientReader(method, p, h)
           body == ResponseBody(id, method, p)
<1>1. /\ p.chunks \in Pieces /\ p.fields \in Nat
      /\ p.framing \in {"none", "string", "length", "chunked", "close"}
      /\ p.framing = "none" => p.chunks = <<>>
      /\ p.status \in Contentless => p.framing = "none"
  BY DEF Answers, AnyReply
<1>2. /\ n \in Nat /\ (n = 0 => c = <<>>)
      /\ n # 0 => Reads(Rd(<<>>, n, "length"), c, "done", c)
  <2>1. /\ n \in Nat /\ (n = 0 => c = <<>>)
        /\ n # 0 => Reads(Rd(<<>>, n, "length"), c, After("length"), c)
    BY <1>1, ReadsContent
  <2> QED
    BY <2>1 DEF After
<1>3. CASE method = "HEAD"
  <2>1. r = NoReader /\ body = <<>>
    BY <1>3 DEF ClientReader, ResponseBody
  <2> QED
    BY <1>3, <2>1 DEF NoReader
<1>4. CASE method # "HEAD" /\ p.framing = "none"
  <2>1. body = <<>> /\ c = <<>> /\ n = 0
    BY <1>1, <1>4, EmptyContent DEF ResponseBody
  <2>2. h = Headers(0, FALSE, close)
    BY <1>4, <2>1 DEF ResponseHead
  <2>3. r = Rd(<<>>, 0, "done")
    BY <1>4, <2>2 DEF ClientReader, NoReader, NewReader, Headers, NoLength, Rd
  <2>4. Framed(h)
    BY <2>2 DEF Framed, Headers, NoLength
  <2>5. Reads(r, body, "done", c)
    BY <2>1, <2>3, ReadsNoContent
  <2> QED
    BY <1>4, <2>4, <2>5
<1>5. CASE method # "HEAD" /\ p.framing \in {"string", "length"}
  <2>1. body = c
    BY <1>5 DEF ResponseBody
  <2>2. r = NewReader(h, h.length)
    BY <1>1, <1>5 DEF ClientReader
  <2> HIDE DEF n, c, body, r
  <2>3. CASE applied \/ n = 0
    <3>1. h = Headers(n, FALSE, close)
      BY <1>5, <2>3 DEF ResponseHead, n
    <3>2. r = Rd(<<>>, n, IF n = 0 THEN "done" ELSE "length")
      BY <1>2, <2>2, <3>1 DEF NewReader, Headers, NoLength, Rd
    <3>3. Framed(h)
      BY <1>2, <3>1 DEF Framed, Headers, NoLength
    <3>4. Reads(r, body, "done", c)
      <4>1. CASE n = 0
        <5>1. r = Rd(<<>>, 0, "done") /\ c = <<>>
          BY <1>2, <3>2, <4>1
        <5> QED
          BY <2>1, <5>1, ReadsNoContent
      <4>2. CASE n # 0
        BY <1>2, <2>1, <3>2, <4>2
      <4> QED
        BY <4>1, <4>2
    <3> QED
      BY <1>5, <3>3, <3>4 DEF r, body, c
  <2>4. CASE ~(applied \/ n = 0)
    <3>1. h = Headers(NoLength, FALSE, close)
      BY <1>5, <2>4 DEF ResponseHead, n
    <3>2. r.mode = "close" /\ ~Framed(h)
      BY <2>2, <3>1 DEF NewReader, Headers, NoLength, Framed
    <3> QED
      BY <3>2 DEF r
  <2> QED
    BY <2>3, <2>4
<1>6. CASE method # "HEAD" /\ p.framing = "chunked"
  <2>1. body = ChunkedContent(id, p.chunks, p.fields)
    BY <1>6 DEF ResponseBody
  <2>2. r = NewReader(h, h.length) /\ h = Headers(NoLength, applied, close)
    BY <1>1, <1>6 DEF ClientReader, ResponseHead
  <2>3. CASE applied
    <3>1. r = Rd(<<>>, 0, "size")
      BY <2>2, <2>3 DEF NewReader, Headers, NoLength, Rd
    <3>2. Framed(h)
      BY <2>2, <2>3 DEF Framed, Headers
    <3>3. Reads(Rd(<<>>, 0, "size"), ChunkedContent(id, p.chunks, p.fields), "done", c)
      BY <1>1, ReadsChunkedContent
    <3> QED
      BY <1>6, <2>1, <3>1, <3>2, <3>3
  <2>4. CASE ~applied
    BY <2>2, <2>4 DEF NewReader, Headers, NoLength, Framed
  <2> QED
    BY <2>3, <2>4
<1>7. CASE method # "HEAD" /\ p.framing = "close"
  <2>1. r = NewReader(h, h.length) /\ h = Headers(NoLength, FALSE, close)
    BY <1>1, <1>7 DEF ClientReader, ResponseHead
  <2> QED
    BY <2>1 DEF NewReader, Headers, NoLength, Framed
<1> QED
  BY <1>1, <1>3, <1>4, <1>5, <1>6, <1>7

-----------------------------------------------------------------------------
(* Types.                                                                  *)

Reader ==
  [got : Tokens, left : Int,
   mode : {"length", "close", "skip", "chunk", "size", "crlf", "trailer", "fields",
           "done", "bad", "large"}]

Client ==
  [pc : {"idle", "write", "line", "crlf", "headers", "body", "done"},
   id : 0 .. MaxRequests, q : Requests \cup {NoRequest}, out : Tokens, buf : Tokens,
   rd : Reader, line : Token \cup {<<>>}, head : Heads \cup {<<>>}, ok : BOOLEAN]

Server ==
  [pc : {"idle", "headers", "expect", "route", "read", "dispatch", "send", "closed"},
   count : 1 .. KeepAliveMax, id : Nat, q : AnyRequest, gone : BOOLEAN, rd : Reader,
   buf : Tokens, out : Tokens, ok : BOOLEAN, skewed : BOOLEAN]

Types ==
  /\ cl \in Client /\ srv \in Server
  /\ c2s \in Tokens /\ Len(c2s) <= Capacity
  /\ s2c \in Tokens /\ Len(s2c) <= Capacity
  /\ stopping \in BOOLEAN /\ cause \in BOOLEAN

\* Who has something to write.
Writing ==
  /\ cl.out # <<>> => cl.pc = "write" \/ SClosed
  /\ srv.pc \in {"idle", "closed", "headers", "expect"} => srv.out = <<>>

\* What the assumption says of the requests.
LEMMA RequestsAre ==
  ASSUME NEW q \in Requests \cup {NoRequest}
  PROVE  q \in AnyRequest /\ WellFormed(q)
<1>1. CASE q = NoRequest
  BY <1>1 DEF NoRequest, AnyRequest, WellFormed, Pieces
<1>2. CASE q \in Requests
  BY <1>2, RequestsAssumption DEF AnyRequest, WellFormed
<1> QED
  BY <1>1, <1>2

\* What the assumption says of the replies, and what the server itself answers.
LEMMA AnswersAre ==
  /\ \A p \in Replies : p \in Answers /\ [p EXCEPT !.status = 500] \in Answers
  /\ \A n \in {400, 401, 404, 413, 414} : Plain(n) \in Answers
  /\ \A n \in {100, 417} : Plain(n) \in AnyReply
<1>1. ASSUME NEW p \in Replies
      PROVE  p \in Answers /\ [p EXCEPT !.status = 500] \in Answers
  BY RepliesAssumption DEF Answers, AnyReply, Contentless
<1>2. ASSUME NEW n \in Nat
      PROVE  Plain(n) \in AnyReply /\ (n # 100 => Plain(n) \in Answers)
  <2>1. <<>> \in Pieces
    BY DEF Pieces
  <2> QED
    BY <2>1 DEF Answers, AnyReply, Plain
<1> QED
  BY <1>1, <1>2

\* What is in a token of each kind.
LEMMA TokenIs ==
  ASSUME NEW t \in Token
  PROVE  /\ t[2] \in Nat
         /\ t[1] = "request" => t[3] \in AnyRequest
         /\ t[1] = "headers" => t[3] \in Heads
         /\ t[1] = "status" => t[3] \in AnyReply
         /\ t[1] = "size" => t[3] \in Int
         /\ t \notin {<<>>}
BY DEF Token

\* What a read takes is the head of what there is to read.
IsTaken(buf, pipe, rest) ==
  /\ Next1(buf, pipe) \in Token
  /\ BufferAfter(buf, pipe) \in Tokens
  /\ PipeAfter(buf, pipe) \in Tokens /\ Len(PipeAfter(buf, pipe)) <= Len(pipe)
  /\ (buf \o pipe) \o rest # <<>>
  /\ Next1(buf, pipe) = Head((buf \o pipe) \o rest)
  /\ (BufferAfter(buf, pipe) \o PipeAfter(buf, pipe)) \o rest
       = Tail((buf \o pipe) \o rest)

\* What an end takes from the stream, and what is left of it.
LEMMA Taken ==
  ASSUME NEW buf \in Tokens, NEW pipe \in Tokens, NEW rest \in Tokens, Readable(buf, pipe)
  PROVE  IsTaken(buf, pipe, rest)
<1> DEFINE s == buf \o pipe
           t == Next1(buf, pipe)
           b == BufferAfter(buf, pipe)
           u == PipeAfter(buf, pipe)
<1>1. buf \in Seq(Token) /\ pipe \in Seq(Token) /\ rest \in Seq(Token)
  BY DEF Tokens
<1>2. Len(pipe) \in Nat /\ Len(<<>>) = 0
  BY <1>1, LenProperties
<1>3. CASE buf # <<>>
  <2>1. t = Head(buf) /\ b = Tail(buf) /\ u = pipe
    BY <1>3 DEF Next1, BufferAfter, PipeAfter
  <2>2. Head(buf) \in Token /\ Tail(buf) \in Seq(Token)
    BY <1>1, <1>3, HeadTailProperties
  <2>3. s # <<>> /\ Head(s) = Head(buf) /\ Tail(s) = Tail(buf) \o pipe
    BY <1>1, <1>3, HeadOfConcat
  <2>4. s \in Seq(Token)
    BY <1>1, ConcatProperties
  <2> HIDE DEF s
  <2>5. s \o rest # <<>> /\ Head(s \o rest) = Head(s) /\ Tail(s \o rest) = Tail(s) \o rest
    BY <1>1, <2>3, <2>4, HeadOfConcat
  <2> HIDE DEF t, b, u
  <2> QED
    BY <1>1, <1>2, <2>1, <2>2, <2>3, <2>5 DEF IsTaken, Tokens, t, b, u, s
<1>4. CASE buf = <<>>
  <2>1. t = Head(pipe) /\ b = Tail(pipe) /\ u = <<>> /\ pipe # <<>>
    BY <1>4 DEF Next1, BufferAfter, PipeAfter, Readable
  <2>2. Head(pipe) \in Token /\ Tail(pipe) \in Seq(Token) /\ <<>> \in Seq(Token)
    BY <1>1, <2>1, HeadTailProperties
  <2>3. s = pipe /\ Tail(pipe) \o <<>> = Tail(pipe)
    BY <1>1, <1>4, <2>2, ConcatEmptySeq
  <2> HIDE DEF s
  <2>4. /\ pipe \o rest # <<>> /\ Head(pipe \o rest) = Head(pipe)
        /\ Tail(pipe \o rest) = Tail(pipe) \o rest
    BY <1>1, <2>1, HeadOfConcat
  <2> HIDE DEF t, b, u
  <2>5. Len(u) <= Len(pipe)
    BY <1>2, <2>1
  <2> QED
    BY <2>1, <2>2, <2>3, <2>4, <2>5, Zenon DEF IsTaken, Tokens, t, b, u, s
<1> QED
  BY <1>3, <1>4

\* The reader stays a reader.
LEMMA FeedType ==
  ASSUME NEW r \in Reader, NEW t \in Token, ~Ended(r)
  PROVE  Feed(r, t) \in Reader
<1>1. r.left \in Int /\ r.left - 1 \in Int /\ r.got \in Tokens
  BY DEF Reader
<1>2. Append(r.got, t) \in Tokens
  BY <1>1, AppendProperties DEF Tokens
<1>3. t[1] = "size" => t[3] \in Int
  BY TokenIs
<1>4. CASE r.mode = "length"
  BY <1>1, <1>2, <1>4 DEF Feed, Count, Deliver, Reader
<1>5. CASE r.mode = "close"
  BY <1>1, <1>2, <1>5 DEF Feed, Deliver, Reader
<1>6. CASE r.mode = "skip"
  BY <1>1, <1>6 DEF Feed, Count, Reader
<1>7. CASE r.mode = "chunk"
  BY <1>1, <1>2, <1>7 DEF Feed, Count, Deliver, Reader
<1>8. CASE r.mode = "size"
  BY <1>3, <1>8 DEF Feed, Reader
<1>9. CASE r.mode \in {"crlf", "trailer", "fields"}
  BY <1>9 DEF Feed, Reader
<1> QED
  BY <1>4, <1>5, <1>6, <1>7, <1>8, <1>9 DEF Reader, Ended

\* The readers there are.
LEMMA ReadersAre ==
  /\ NoReader \in Reader
  /\ \A h \in Heads : \A max : NewReader(h, max) \in Reader
  /\ \A r \in Reader : FeedEnd(r) \in Reader /\ [r EXCEPT !.mode = "bad"] \in Reader
<1>1. <<>> \in Tokens
  BY DEF Tokens
<1>2. NoReader \in Reader
  BY <1>1 DEF NoReader, Reader
<1>3. ASSUME NEW h \in Heads, NEW max
      PROVE  NewReader(h, max) \in Reader
  BY <1>1 DEF NewReader, Reader, Heads
<1>4. ASSUME NEW r \in Reader
      PROVE  FeedEnd(r) \in Reader /\ [r EXCEPT !.mode = "bad"] \in Reader
  BY DEF FeedEnd, Reader
<1> QED
  BY <1>2, <1>3, <1>4

\* The server that responds is a server.
LEMMA RespondIs ==
  ASSUME NEW s \in Server, NEW p \in Answers, NEW applied \in BOOLEAN, NEW last \in BOOLEAN
  PROVE  /\ Respond(s, p, applied, last) \in Server
         /\ Respond(s, p, applied, last).pc = "send"
<1> DEFINE m == ResponseTokens(s.id, s.q.method, p, applied, last \/ s.q.close)
<1>1. s.id \in Nat /\ (last \/ s.q.close) \in BOOLEAN /\ s.out \in Tokens
  BY DEF Server, AnyRequest
<1>2. m \in Tokens
  BY <1>1, ResponseIs
<1> HIDE DEF m
<1>3. s.out \o m \in Tokens
  BY <1>1, <1>2, ConcatProperties DEF Tokens
<1>4. Respond(s, p, applied, last) = [s EXCEPT !.pc = "send", !.ok = TRUE, !.out = @ \o m]
  BY DEF Respond, m
<1> HIDE DEF m
<1> QED
  BY <1>3, <1>4 DEF Server

\* A new server and a closed one.
LEMMA NewEnds ==
  /\ NewServer \in Server
  /\ \A skewed \in BOOLEAN : ClosedServer(skewed) \in Server
<1>1. <<>> \in Tokens /\ KeepAliveMax \in 1 .. KeepAliveMax
  BY LimitsAssumption DEF Tokens
<1>2. NoRequest \in AnyRequest /\ NoReader \in Reader
  BY RequestsAre, ReadersAre
<1>3. NewServer \in Server
  BY <1>1, <1>2 DEF NewServer, Server
<1> QED
  BY <1>3 DEF ClosedServer, Server

\* The types hold at the beginning.
LEMMA InitTypes == Init => Types /\ Writing
<1> SUFFICES ASSUME Init PROVE Types /\ Writing
  OBVIOUS
<1>1. <<>> \in Tokens /\ Len(<<>>) <= Capacity
  BY LimitsAssumption DEF Tokens
<1>2. NewServer \in Server /\ NoReader \in Reader
  BY NewEnds, ReadersAre
<1>3. cl \in Client
  BY <1>1, <1>2, LimitsAssumption DEF Init, Client
<1>4. Types
  BY <1>1, <1>2, <1>3 DEF Init, Types
<1> QED
  BY <1>4 DEF Init, Writing, NewServer

\* What CEnd leaves.
LEMMA EndTypes ==
  ASSUME Types, Writing, NEW ok \in BOOLEAN, CEnd(ok), UNCHANGED stopping,
         cause' \in BOOLEAN, cl.pc = "body" \/ ~ok
  PROVE  Types' /\ Writing'
<1>1. cl' \in Client
  BY DEF CEnd, Types, Client
<1>2. CASE UNCHANGED <<srv, c2s, s2c>>
  <2>1. ok \/ SClosed
    <3>1. CASE ~ok
      <4>1. srv' = ClosedServer(srv.skewed)
        BY <3>1 DEF CEnd
      <4>2. ClosedServer(srv.skewed).pc = "closed"
        BY DEF ClosedServer, NewServer
      <4> QED
        BY <1>2, <4>1, <4>2 DEF SClosed
    <3> QED
      BY <3>1
  <2>2. cl.out # <<>> => SClosed
    BY <2>1 DEF Writing
  <2>3. cl'.out = cl.out
    BY DEF CEnd, Types, Client
  <2> QED
    BY <1>1, <1>2, <2>2, <2>3 DEF Types, Writing, SClosed
<1>3. CASE srv' = ClosedServer(srv.skewed) /\ c2s' = <<>> /\ s2c' = <<>>
  <2>1. <<>> \in Tokens /\ Len(<<>>) <= Capacity
    BY LimitsAssumption DEF Tokens
  <2>2. srv' \in Server
    BY <1>3, NewEnds DEF Types, Server
  <2>3. srv'.pc = "closed" /\ srv'.out = <<>>
    BY <1>3 DEF ClosedServer, NewServer
  <2> QED
    BY <1>1, <1>3, <2>1, <2>2, <2>3 DEF Types, Writing, SClosed
<1> QED
  BY <1>2, <1>3 DEF CEnd

\* A step of the client keeps the types.
LEMMA ClientTypes ==
  ASSUME Types, Writing, CSend \/ ClientGoesOn \/ CProviderFails \/ CCancels
  PROVE  Types' /\ Writing'
<1> USE DEF Types
<1>1. /\ cl \in Client /\ srv \in Server /\ cl.rd \in Reader
      /\ c2s \in Tokens /\ s2c \in Tokens /\ cl.out \in Tokens /\ cl.buf \in Tokens
      /\ Len(c2s) \in Nat /\ Len(s2c) \in Nat
      /\ <<>> \in Tokens /\ Len(<<>>) = 0
  BY LenProperties DEF Client, Tokens
<1>2. CASE CSend
  <2>1. PICK q \in Requests :
          cl' = [cl EXCEPT !.pc = "write", !.id = @ + 1, !.q = q, !.buf = <<>>,
                           !.rd = NoReader, !.line = <<>>, !.head = <<>>, !.ok = FALSE,
                           !.out = RequestTokens(cl.id + 1, q)]
    BY <1>2 DEF CSend
  <2>2. cl.id \in 0 .. MaxRequests /\ cl.id + 1 \in 0 .. MaxRequests /\ cl.id + 1 \in Nat
    <3> DEFINE id == cl.id
    <3>1. id \in 0 .. MaxRequests /\ id < MaxRequests
      BY <1>1, <1>2 DEF CSend, Client
    <3> HIDE DEF id
    <3>2. id + 1 \in 0 .. MaxRequests /\ id + 1 \in Nat
      BY <3>1, LimitsAssumption
    <3> QED
      BY <3>1, <3>2 DEF id
  <2>3. RequestTokens(cl.id + 1, q) \in Tokens
    BY <2>2, RequestsAre, RequestIs
  <2>4. cl' \in Client /\ cl'.pc = "write"
    BY <1>1, <2>1, <2>2, <2>3, ReadersAre DEF Client
  <2>5. /\ srv' \in Server /\ (srv' = srv \/ srv' = NewServer)
        /\ c2s' \in Tokens /\ Len(c2s') <= Capacity /\ cause' \in BOOLEAN
    BY <1>1, <1>2, NewEnds, LimitsAssumption DEF CSend
  <2>6. UNCHANGED <<s2c, stopping>>
    BY <1>2 DEF CSend
  <2> QED
    BY <1>1, <2>4, <2>5, <2>6 DEF Writing, NewServer
<1>3. CASE CWrite
  <2>1. Head(cl.out) \in Token /\ Tail(cl.out) \in Tokens
    BY <1>1, <1>3, HeadTailProperties DEF CWrite, Tokens
  <2>2. cl' \in Client /\ cl'.pc = "write"
    BY <1>1, <1>3, <2>1 DEF CWrite, Client
  <2>3. Append(c2s, Head(cl.out)) \in Tokens /\ Len(Append(c2s, Head(cl.out))) = Len(c2s) + 1
    BY <1>1, <2>1, AppendProperties DEF Tokens
  <2>4. c2s' \in Tokens /\ Len(c2s') <= Capacity
    BY <1>1, <1>3, <2>3, LimitsAssumption DEF CWrite
  <2> QED
    BY <1>1, <1>3, <2>2, <2>4 DEF CWrite, Writing
<1>4. CASE CWritten
  BY <1>1, <1>4 DEF CWritten, Writing, Client
<1>5. CASE CWriteFails \/ CProviderFails \/ CCancels \/ CGarbled
  <2>1. CEnd(FALSE) /\ UNCHANGED stopping /\ cause' \in BOOLEAN
    BY <1>5 DEF CWriteFails, CProviderFails, CCancels, CGarbled
  <2> QED
    BY <2>1, EndTypes DEF Types
<1>6. CASE CBodyEnded
  <2>1. CEnd(cl.rd.mode = "done") /\ UNCHANGED stopping /\ cause' \in BOOLEAN /\ cl.pc = "body"
    BY <1>6 DEF CBodyEnded
  <2> QED
    BY <2>1, EndTypes DEF Types
<1>7. CASE CLine \/ CSkipEmptyLine \/ CHeaders \/ CBody
  <2> DEFINE t == CTaken
             b == BufferAfter(cl.buf, s2c)
             u == PipeAfter(cl.buf, s2c)
  <2>1. Readable(cl.buf, s2c)
    BY <1>7 DEF CLine, CSkipEmptyLine, CHeaders, CBody
  <2>2. t \in Token /\ b \in Tokens /\ u \in Tokens /\ Len(u) <= Len(s2c)
    BY <1>1, <2>1, Taken DEF IsTaken, CTaken
  <2>3. Len(u) <= Capacity
    BY <1>1, <2>2, LenProperties, LimitsAssumption DEF Tokens
  <2> HIDE DEF t, b, u
  <2>4. PICK c : CTake(c) /\ c \in Client /\ cl.pc # "write" /\ c.out = cl.out
    <3>1. CASE CLine
      <4> DEFINE c == [cl EXCEPT !.line = CTaken,
                         !.pc = IF CTaken[3].status = 100 THEN "crlf" ELSE "headers"]
      <4>1. CTake(c) /\ cl.pc # "write"
        BY <3>1 DEF CLine
      <4>2. c \in Client /\ c.out = cl.out
        BY <1>1, <2>2 DEF Client, t
      <4> HIDE DEF c
      <4> QED
        BY <4>1, <4>2, Zenon
    <3>2. CASE CSkipEmptyLine
      <4> DEFINE c == [cl EXCEPT !.pc = "line"]
      <4>1. CTake(c) /\ cl.pc # "write"
        BY <3>2 DEF CSkipEmptyLine
      <4>2. c \in Client /\ c.out = cl.out
        BY <1>1 DEF Client
      <4> QED
        BY <4>1, <4>2, Zenon
    <3>3. CASE CHeaders
      <4> DEFINE h == IF CTaken[1] = "headers" THEN CTaken[3]
                      ELSE Headers(NoLength, FALSE, FALSE)
                 r == IF cl.q.method = "HEAD" \/ cl.line[3].status \in Contentless
                      THEN NoReader ELSE NewReader(h, h.length)
                 c == [cl EXCEPT !.head = h, !.pc = "body", !.rd = r]
      <4>1. CTake(c) /\ cl.pc # "write"
        BY <3>3 DEF CHeaders
      <4>2. h \in Heads
        BY <2>2, TokenIs DEF Heads, Headers, NoLength, t
      <4> HIDE DEF h
      <4>3. r \in Reader
        BY <4>2, ReadersAre
      <4> HIDE DEF r
      <4>4. c \in Client /\ c.out = cl.out
        BY <1>1, <4>2, <4>3 DEF Client
      <4> QED
        BY <4>1, <4>4, Zenon
    <3>4. CASE CBody
      <4> DEFINE c == [cl EXCEPT !.rd = Feed(cl.rd, CTaken)]
      <4>1. CTake(c) /\ cl.pc # "write"
        BY <3>4 DEF CBody
      <4>2. Feed(cl.rd, CTaken) \in Reader
        BY <1>1, <2>2, <3>4, FeedType DEF CBody, t
      <4>3. c \in Client /\ c.out = cl.out
        BY <1>1, <4>2 DEF Client
      <4> QED
        BY <4>1, <4>3, Zenon
    <3> QED
      BY <1>7, <3>1, <3>2, <3>3, <3>4
  <2>5. /\ cl' = [c EXCEPT !.buf = b] /\ s2c' = u
        /\ UNCHANGED <<srv, c2s, stopping, cause>>
    BY <2>4 DEF CTake, b, u
  <2>6. cl' \in Client /\ cl'.out = cl.out
    BY <2>2, <2>4, <2>5 DEF Client
  <2>7. Types'
    BY <1>1, <2>2, <2>3, <2>5, <2>6
  <2>8. Writing'
    BY <2>4, <2>5, <2>6 DEF Writing, SClosed
  <2> QED
    BY <2>7, <2>8
<1>8. CASE CNothing
  <2>1. CASE CEnd(FALSE)
    <3>1. UNCHANGED stopping /\ cause' \in BOOLEAN
      BY <1>8 DEF CNothing
    <3> QED
      BY <2>1, <3>1, EndTypes DEF Types
  <2>2. CASE cl.pc = "body" /\ cl' = [cl EXCEPT !.rd = FeedEnd(@)] /\ UNCHANGED <<srv, c2s, s2c>>
    <3>1. FeedEnd(cl.rd) \in Reader
      BY <1>1, ReadersAre
    <3>2. cl' \in Client /\ cl'.out = cl.out /\ cl'.pc = "body"
      BY <1>1, <2>2, <3>1 DEF Client
    <3> QED
      BY <1>1, <1>8, <2>2, <3>2 DEF CNothing, Writing, SClosed
  <2> QED
    BY <1>8, <2>1, <2>2 DEF CNothing
<1>9. CASE CResult
  BY <1>1, <1>9 DEF CResult, Writing, SClosed, Client
<1> QED
  BY <1>2, <1>3, <1>4, <1>5, <1>6, <1>7, <1>8, <1>9 DEF ClientGoesOn

\* The responses there are.
Sending(s) == s \in Server /\ s.pc = "send"
Flag == BOOLEAN
Thrown(p) == [p EXCEPT !.status = 500]

Responding(s) ==
  /\ \A last \in Flag :
       /\ Sending(Respond(s, Plain(400), FALSE, last))
       /\ Sending(Respond(s, Plain(401), FALSE, last))
       /\ Sending(Respond(s, Plain(404), FALSE, last))
       /\ Sending(Respond(s, Plain(413), FALSE, last))
       /\ Sending(Respond(s, Plain(414), FALSE, last))
  /\ \A p \in Replies : \A last \in Flag :
       /\ Sending(Respond(s, p, TRUE, last))
       /\ Sending(Respond(s, Thrown(p), FALSE, last))

\* The types of all that the server responds.
LEMMA RefusalTypes ==
  ASSUME NEW s \in Server
  PROVE  Responding(s)
<1>1. TRUE \in Flag /\ FALSE \in Flag
  BY DEF Flag
<1>2. \A p \in Answers : \A applied, last \in Flag : Sending(Respond(s, p, applied, last))
  BY RespondIs, Zenon DEF Sending, Flag
<1>3. /\ \A p \in Replies : p \in Answers /\ [p EXCEPT !.status = 500] \in Answers
      /\ \A n \in {400, 401, 404, 413, 414} : Plain(n) \in Answers
  BY AnswersAre, Zenon
<1>4. ASSUME NEW last \in Flag
      PROVE  /\ Sending(Respond(s, Plain(400), FALSE, last))
             /\ Sending(Respond(s, Plain(401), FALSE, last))
             /\ Sending(Respond(s, Plain(404), FALSE, last))
             /\ Sending(Respond(s, Plain(413), FALSE, last))
             /\ Sending(Respond(s, Plain(414), FALSE, last))
  <2>1. /\ Plain(400) \in Answers /\ Plain(401) \in Answers /\ Plain(404) \in Answers
        /\ Plain(413) \in Answers /\ Plain(414) \in Answers
    BY <1>3
  <2>2. \A p \in Answers : Sending(Respond(s, p, FALSE, last))
    BY <1>1, <1>2
  <2> QED
    BY <2>1, <2>2, Zenon
<1>5. ASSUME NEW p \in Replies, NEW last \in Flag
      PROVE  /\ Sending(Respond(s, p, TRUE, last))
             /\ Sending(Respond(s, [p EXCEPT !.status = 500], FALSE, last))
  <2> DEFINE e == [p EXCEPT !.status = 500]
  <2>1. p \in Answers /\ e \in Answers
    BY <1>3
  <2> HIDE DEF e
  <2>2. Sending(Respond(s, p, TRUE, last)) /\ Sending(Respond(s, e, FALSE, last))
    BY <1>1, <1>2, <2>1
  <2> QED
    BY <2>2 DEF e
<1> QED
  BY <1>4, <1>5 DEF Responding, Thrown

\* A step of the server that only changes the server.
LEMMA ServerAlone ==
  ASSUME Types, Writing, srv' \in Server, UNCHANGED <<cl, c2s, s2c, stopping>>,
         cause' \in BOOLEAN, ~SClosed,
         srv'.pc \in {"idle", "closed", "headers", "expect"} => srv'.out = <<>>
  PROVE  Types' /\ Writing'
<1>1. Types'
  BY DEF Types
<1>2. cl.out # <<>> => cl.pc = "write"
  BY DEF Writing
<1> QED
  BY <1>1, <1>2 DEF Writing

\* What STake leaves.
LEMMA TakeTypes ==
  ASSUME Types, Writing, NEW s \in Server, STake(s), Readable(srv.buf, c2s), ~SClosed,
         s.pc \in {"idle", "closed", "headers", "expect"} => s.out = <<>>
  PROVE  Types' /\ Writing'
<1> DEFINE b == BufferAfter(srv.buf, c2s)
           u == PipeAfter(srv.buf, c2s)
<1>1. srv.buf \in Tokens /\ c2s \in Tokens /\ <<>> \in Tokens /\ Len(c2s) \in Nat
  BY LenProperties DEF Types, Server, Tokens
<1>2. b \in Tokens /\ u \in Tokens /\ Len(u) <= Len(c2s)
  BY <1>1, Taken DEF IsTaken
<1>3. Len(u) <= Capacity
  BY <1>1, <1>2, LenProperties, LimitsAssumption DEF Tokens, Types
<1>4. srv' = [s EXCEPT !.buf = b] /\ c2s' = u /\ UNCHANGED <<cl, s2c, stopping, cause>>
  BY DEF STake
<1> HIDE DEF b, u
<1>5. srv' \in Server /\ srv'.pc = s.pc /\ srv'.out = s.out
  BY <1>2, <1>4 DEF Server
<1>6. Types'
  BY <1>2, <1>3, <1>4, <1>5 DEF Types
<1>7. cl.out # <<>> => cl.pc = "write"
  BY DEF Writing
<1> QED
  BY <1>4, <1>5, <1>6, <1>7 DEF Writing

\* What SClose leaves.
LEMMA CloseTypes ==
  ASSUME Types, Writing, NEW skewed \in BOOLEAN, SClose(skewed), UNCHANGED <<cl, c2s, stopping>>,
         cause' \in BOOLEAN
  PROVE  Types' /\ Writing'
<1>1. <<>> \in Tokens /\ Len(<<>>) <= Capacity
  BY LimitsAssumption DEF Tokens
<1>2. s2c' = s2c \/ s2c' = <<>>
  BY DEF SClose
<1>3. srv' \in Server /\ srv'.pc = "closed" /\ srv'.out = <<>>
  BY NewEnds DEF SClose, ClosedServer, NewServer
<1> QED
  BY <1>1, <1>2, <1>3 DEF Types, Writing, SClosed

\* A step of the server keeps the types.
LEMMA ServerTypes ==
  ASSUME Types, Writing,
         ServerGoesOn \/ SRouteAtOnce \/ SThrows \/ SReadRefused \/ SSendFails \/ SSendCut
  PROVE  Types' /\ Writing'
<1>1. /\ srv \in Server /\ srv.rd \in Reader /\ srv.q \in AnyRequest /\ srv.out \in Tokens
      /\ c2s \in Tokens /\ s2c \in Tokens /\ cause \in BOOLEAN /\ srv.buf \in Tokens
      /\ LastOne \in Flag /\ TRUE \in Flag /\ srv.skewed \in BOOLEAN /\ srv.gone \in BOOLEAN
      /\ <<>> \in Tokens
  BY DEF Types, Server, LastOne, Tokens, Flag
<1>0. srv \in Server /\ LastOne \in Flag /\ TRUE \in Flag
  BY <1>1
<1>17. Responding(srv)
  BY <1>0, RefusalTypes
<1>2. NoRequest \in AnyRequest /\ NoReader \in Reader
  BY RequestsAre, ReadersAre
<1>3. ASSUME Readable(srv.buf, c2s)
      PROVE  STaken \in Token
  BY <1>1, <1>3, Taken DEF IsTaken, STaken
<1>4. CASE SLine
  <2> DEFINE s == [srv EXCEPT !.id = STaken[2], !.rd = NoReader, !.gone = FALSE]
  <2>1. Readable(srv.buf, c2s) /\ srv.pc = "idle"
    BY <1>4 DEF SLine, Readable
  <2>2. STaken \in Token /\ STaken[2] \in Nat /\ (STaken[1] = "request" => STaken[3] \in AnyRequest)
    BY <1>3, <2>1, TokenIs
  <2>3. s \in Server /\ s.out = <<>>
    BY <1>1, <1>2, <2>1, <2>2 DEF Server, Writing
  <2>4. CASE STaken[1] # "request"
    <3>1. STake(Respond([s EXCEPT !.q = NoRequest], Plain(400), FALSE, LastOne))
      BY <1>4, <2>4 DEF SLine
    <3> HIDE DEF s
    <3>2. [s EXCEPT !.q = NoRequest] \in Server
      BY <1>2, <2>3 DEF Server
    <3> DEFINE w == Respond([s EXCEPT !.q = NoRequest], Plain(400), FALSE, LastOne)
    <3>5. Responding([s EXCEPT !.q = NoRequest])
      BY <3>2, RefusalTypes
    <3>3. Sending(w)
      BY <1>0, <3>5, Zenon DEF Responding
    <3>4. STake(w)
      BY <3>1
    <3> HIDE DEF w
    <3> QED
      BY <2>1, <3>3, <3>4, TakeTypes DEF SClosed, Sending
  <2>5. CASE STaken[1] = "request"
    <3> DEFINE w == [s EXCEPT !.pc = "headers", !.q = STaken[3]]
    <3>1. STake(w)
      BY <1>4, <2>5 DEF SLine
    <3>2. w \in Server /\ w.out = <<>>
      <4> HIDE DEF s
      <4> QED
        BY <2>2, <2>3, <2>5 DEF Server
    <3> HIDE DEF s, w
    <3> QED
      BY <2>1, <3>1, <3>2, TakeTypes DEF SClosed
  <2> QED
    BY <2>4, <2>5
<1>5. CASE SHeaders
  <2> DEFINE h == STaken[3]
             s == [srv EXCEPT !.rd = NewReader(h, PayloadMax), !.gone = h.close]
  <2>1. Readable(srv.buf, c2s) /\ srv.pc = "headers" /\ srv.out = <<>>
    BY <1>5 DEF SHeaders, Writing
  <2>2. STaken \in Token /\ (STaken[1] = "headers" => h \in Heads)
    BY <1>3, <2>1, TokenIs
  <2> HIDE DEF h
  <2>3. CASE STaken[1] # "headers"
    <3>1. STake(Respond(srv, Plain(400), FALSE, LastOne))
      BY <1>5, <2>3 DEF SHeaders
    <3> DEFINE w == Respond(srv, Plain(400), FALSE, LastOne)
    <3>2. Sending(w)
      BY <1>0, <1>17, Zenon DEF Responding
    <3>3. STake(w)
      BY <3>1
    <3> HIDE DEF w
    <3> QED
      BY <2>1, <3>2, <3>3, TakeTypes DEF SClosed, Sending
  <2>4. CASE STaken[1] = "headers"
    <3>1. h \in Heads /\ h.close \in BOOLEAN /\ NewReader(h, PayloadMax) \in Reader
      BY <2>2, <2>4, ReadersAre DEF Heads
    <3>2. s \in Server /\ s.out = <<>>
      BY <1>1, <2>1, <3>1 DEF Server
    <3>3. CASE srv.q.long
      <4> DEFINE w == [s EXCEPT !.gone = FALSE, !.q.close = FALSE]
      <4>1. STake(Respond(w, Plain(414), FALSE, LastOne))
        BY <1>5, <2>4, <3>3 DEF SHeaders, h
      <4>2. w \in Server
        <5> HIDE DEF s
        <5>1. s.q \in AnyRequest
          BY <3>2 DEF Server
        <5>2. [s.q EXCEPT !.close = FALSE] \in AnyRequest
          BY <5>1 DEF AnyRequest
        <5> QED
          BY <3>2, <5>2 DEF Server
      <4> HIDE DEF w
      <4> DEFINE x == Respond(w, Plain(414), FALSE, LastOne)
      <4>5. Responding(w)
        BY <4>2, RefusalTypes
      <4>3. Sending(x)
        BY <1>0, <4>5, Zenon DEF Responding
      <4>4. STake(x)
        BY <4>1
      <4> HIDE DEF x
      <4> QED
        BY <2>1, <4>3, <4>4, TakeTypes DEF SClosed, Sending
    <3>4. CASE ~srv.q.long
      <4> DEFINE w == [s EXCEPT !.pc = IF srv.q.expect THEN "expect" ELSE "route"]
      <4>1. STake(w)
        BY <1>5, <2>4, <3>4 DEF SHeaders, h
      <4>2. w \in Server /\ w.out = <<>>
        <5> HIDE DEF s
        <5> QED
          BY <3>2 DEF Server
      <4> HIDE DEF s, w
      <4> QED
        BY <2>1, <4>1, <4>2, TakeTypes DEF SClosed
    <3> QED
      BY <3>3, <3>4
  <2> QED
    BY <2>3, <2>4
<1>6. CASE SExpect
  <2>1. srv.pc = "expect" /\ UNCHANGED <<cl, c2s, s2c, stopping, cause>>
    BY <1>6 DEF SExpect
  <2>2. CASE \E status \in {100, 417} :
               srv' = [srv EXCEPT !.pc = "route", !.skewed = @ \/ status = 417,
                         !.out = <<<<"status", srv.id, Plain(status)>>, <<"crlf", srv.id, 0>>>>]
    <3>1. PICK status \in {100, 417} :
               srv' = [srv EXCEPT !.pc = "route", !.skewed = @ \/ status = 417,
                         !.out = <<<<"status", srv.id, Plain(status)>>, <<"crlf", srv.id, 0>>>>]
      BY <2>2
    <3>2. srv.id \in Nat /\ Plain(status) \in AnyReply /\ (srv.skewed \/ status = 417) \in BOOLEAN
      BY <1>1, AnswersAre DEF Server
    <3>3. <<<<"status", srv.id, Plain(status)>>, <<"crlf", srv.id, 0>>>> \in Tokens
      BY <3>2 DEF Tokens, Token
    <3>4. srv' \in Server /\ srv'.pc = "route"
      BY <1>1, <3>1, <3>2, <3>3 DEF Server
    <3> QED
      BY <1>1, <2>1, <3>4, ServerAlone DEF SClosed
  <2>3. CASE srv' = Respond([srv EXCEPT !.gone = TRUE], Plain(401), FALSE, TRUE)
    <3>1. [srv EXCEPT !.gone = TRUE] \in Server
      BY <1>1 DEF Server
    <3>3. Responding([srv EXCEPT !.gone = TRUE])
      BY <3>1, RefusalTypes
    <3>2. Sending(srv')
      BY <1>0, <2>3, <3>3, Zenon DEF Responding
    <3> QED
      BY <1>1, <2>1, <3>2, ServerAlone DEF SClosed, Sending
  <2> QED
    BY <1>6, <2>2, <2>3 DEF SExpect
<1>7. CASE SRoute
  <2>1. srv' \in Server /\ srv'.pc \in {"dispatch", "read"}
    BY <1>1, <1>2, <1>7 DEF SRoute, Server
  <2> QED
    BY <1>1, <1>7, <2>1, ServerAlone DEF SRoute, SClosed
<1>8. CASE SRouteAtOnce \/ SThrows \/ SDispatch
  <2>1. Sending(srv')
    <3>1. CASE \E p \in Replies : srv' = Respond(srv, p, TRUE, LastOne)
      <4>1. PICK p \in Replies : srv' = Respond(srv, p, TRUE, LastOne)
        BY <3>1
      <4>2. Sending(Respond(srv, p, TRUE, LastOne))
        BY <1>0, <1>17, Zenon DEF Responding
      <4> QED
        BY <4>1, <4>2, Zenon
    <3>2. CASE \E p \in Replies : srv' = Respond(srv, [p EXCEPT !.status = 500], FALSE, LastOne)
      <4>1. PICK p \in Replies : srv' = Respond(srv, [p EXCEPT !.status = 500], FALSE, LastOne)
        BY <3>2
      <4>2. Sending(Respond(srv, Thrown(p), FALSE, LastOne))
        BY <1>0, <1>17, Zenon DEF Responding
      <4> QED
        BY <4>1, <4>2 DEF Thrown
    <3>3. CASE srv' = Respond(srv, Plain(404), FALSE, LastOne)
      BY <1>0, <1>17, <3>3, Zenon DEF Responding
    <3> QED
      BY <1>8, <3>1, <3>2, <3>3 DEF SRouteAtOnce, SThrows, SDispatch
  <2> QED
    BY <1>1, <1>8, <2>1, ServerAlone DEF SRouteAtOnce, SThrows, SDispatch, SClosed, Sending
<1>9. CASE SRead
  <2>1. Readable(srv.buf, c2s) /\ srv.pc = "read" /\ ~Ended(srv.rd)
    BY <1>9 DEF SRead
  <2> DEFINE s == [srv EXCEPT !.rd = Feed(srv.rd, STaken)]
  <2>2. Feed(srv.rd, STaken) \in Reader
    BY <1>1, <1>3, <2>1, FeedType
  <2>3. s \in Server /\ s.pc = "read"
    BY <1>1, <2>1, <2>2 DEF Server
  <2>4. STake(s)
    BY <1>9 DEF SRead
  <2> HIDE DEF s
  <2> QED
    BY <2>1, <2>3, <2>4, TakeTypes DEF SClosed
<1>10. CASE SReadRefused
  <2>1. [srv.rd EXCEPT !.mode = "bad"] \in Reader
    BY <1>1, ReadersAre
  <2>2. srv' \in Server /\ srv'.pc = "read"
    BY <1>1, <1>10, <2>1 DEF SReadRefused, Server
  <2> QED
    BY <1>1, <1>10, <2>2, ServerAlone DEF SReadRefused, SClosed
<1>11. CASE SReadEnded
  <2>1. srv' \in Server /\ srv'.pc \in {"dispatch", "send"}
    <3>1. CASE srv.rd.mode = "done"
      BY <1>1, <1>11, <3>1 DEF SReadEnded, Server
    <3>2. CASE srv.rd.mode = "bad"
      <4>1. srv' = Respond(srv, Plain(400), FALSE, LastOne)
        BY <1>11, <3>2 DEF SReadEnded
      <4>2. Sending(srv')
        BY <1>0, <1>17, <4>1, Zenon DEF Responding
      <4> QED
        BY <4>2 DEF Sending
    <3>3. CASE srv.rd.mode = "large"
      <4>1. srv' = Respond(srv, Plain(413), FALSE, LastOne)
        BY <1>11, <3>3 DEF SReadEnded
      <4>2. Sending(srv')
        BY <1>0, <1>17, <4>1, Zenon DEF Responding
      <4> QED
        BY <4>2 DEF Sending
    <3> QED
      BY <1>11, <3>1, <3>2, <3>3 DEF SReadEnded, Ended
  <2> QED
    BY <1>1, <1>11, <2>1, ServerAlone DEF SReadEnded, SClosed
<1>12. CASE SNothing
  <2>1. srv' \in Server /\ srv'.pc \in {"read", "send"}
    <3>1. CASE srv' = Respond(srv, Plain(400), FALSE, LastOne)
      <4>1. Sending(srv')
        BY <1>0, <1>17, <3>1, Zenon DEF Responding
      <4> QED
        BY <4>1 DEF Sending
    <3>2. CASE srv.pc = "read" /\ srv' = [srv EXCEPT !.rd = FeedEnd(@)]
      <4>1. FeedEnd(srv.rd) \in Reader
        BY <1>1, ReadersAre
      <4> QED
        BY <1>1, <3>2, <4>1 DEF Server
    <3> QED
      BY <1>12, <3>1, <3>2 DEF SNothing
  <2>2. ~SClosed /\ cause' \in BOOLEAN /\ UNCHANGED <<cl, c2s, s2c, stopping>>
    BY <1>12 DEF SNothing, SClosed
  <2> QED
    BY <2>1, <2>2, ServerAlone
<1>13. CASE SSend
  <2>1. Head(srv.out) \in Token /\ Tail(srv.out) \in Tokens /\ Len(s2c) \in Nat
    BY <1>1, <1>13, HeadTailProperties, LenProperties DEF SSend, Tokens
  <2>2. Append(s2c, Head(srv.out)) \in Tokens /\ Len(Append(s2c, Head(srv.out))) = Len(s2c) + 1
    BY <1>1, <2>1, AppendProperties DEF Tokens
  <2>3. srv' \in Server /\ srv'.pc = srv.pc
    BY <1>1, <1>13, <2>1 DEF SSend, Server
  <2>4. ~SClosed /\ srv.pc \notin {"idle", "closed", "headers", "expect"}
    BY <1>13 DEF SSend, Writing
  <2>5. Len(s2c) < Capacity /\ s2c' = Append(s2c, Head(srv.out))
    BY <1>13 DEF SSend
  <2>6. s2c' \in Tokens /\ Len(s2c') <= Capacity
    BY <2>1, <2>2, <2>5, LimitsAssumption
  <2> QED
    BY <1>1, <1>13, <2>3, <2>4, <2>6 DEF SSend, Types, Writing
<1>14. CASE SSendFails \/ SSendCut
  <2>1. srv' \in Server /\ srv'.pc = "send"
    <3>1. (\A t \in ToSet(srv.out) : t[1] \in {"status", "headers"}) \in BOOLEAN
      OBVIOUS
    <3> QED
      BY <1>1, <1>14, <3>1 DEF SSendFails, SSendCut, Server
  <2> QED
    BY <1>1, <1>14, <2>1, ServerAlone DEF SSendFails, SSendCut, SClosed
<1>15. CASE SFinish
  <2> DEFINE unread == \E t \in ToSet(cl.out \o c2s) : t[2] = srv.id
             s == [srv EXCEPT !.buf = <<>>, !.count = @ - 1, !.skewed = @ \/ unread]
  <2>1. (srv.skewed \/ unread) \in BOOLEAN
    BY <1>1
  <2>2. s.skewed = (srv.skewed \/ unread)
    BY <1>1 DEF Server
  <2>3. /\ srv.pc = "send" /\ srv.out = <<>> /\ UNCHANGED <<cl, c2s, stopping, cause>>
        /\ IF ~srv.ok \/ srv.gone \/ srv.count = 1 THEN SClose(s.skewed)
           ELSE srv' = [s EXCEPT !.pc = "idle"] /\ UNCHANGED s2c
    BY <1>15 DEF SFinish
  <2>4. CASE SClose(s.skewed)
    <3> HIDE DEF s
    <3> QED
      BY <1>1, <2>1, <2>2, <2>3, <2>4, CloseTypes
  <2>5. CASE srv.count # 1 /\ srv' = [s EXCEPT !.pc = "idle"] /\ UNCHANGED s2c
    <3> HIDE DEF unread
    <3>1. srv.count - 1 \in 1 .. KeepAliveMax
      <4> DEFINE n == srv.count
      <4>1. n \in 1 .. KeepAliveMax
        BY <1>1 DEF Server
      <4> HIDE DEF n
      <4>2. n # 1 => n - 1 \in 1 .. KeepAliveMax
        BY <4>1, LimitsAssumption
      <4> QED
        BY <2>5, <4>2 DEF n
    <3>2. srv' \in Server /\ srv'.out = <<>>
      BY <1>1, <2>1, <2>3, <2>5, <3>1 DEF Server
    <3> QED
      BY <1>1, <2>3, <2>5, <3>2, ServerAlone DEF SClosed
  <2> HIDE DEF s
  <2> QED
    BY <2>3, <2>4, <2>5
<1>16. CASE SIdleCloses
  <2>1. SClose(srv.skewed) /\ UNCHANGED <<cl, c2s, stopping>> /\ cause' \in BOOLEAN
    BY <1>1, <1>16 DEF SIdleCloses
  <2> QED
    BY <1>1, <2>1, CloseTypes
<1> QED
  BY <1>4, <1>5, <1>6, <1>7, <1>8, <1>9, <1>10, <1>11, <1>12, <1>13, <1>14, <1>15, <1>16
  DEF ServerGoesOn

\* The two ends and the streams keep their types, and who has closed writes nothing.
THEOREM TypeCorrect == Spec => []TypeOK
<1>1. Init => Types /\ Writing
  BY InitTypes
<1>2. Types /\ Writing /\ [Next]_vars => Types' /\ Writing'
  <2> SUFFICES ASSUME Types, Writing, [Next]_vars PROVE Types' /\ Writing'
    OBVIOUS
  <2>1. CASE Stop
    BY <2>1 DEF Stop, Types, Writing, SClosed
  <2>2. CASE UNCHANGED vars
    BY <2>2 DEF vars, Types, Writing, SClosed
  <2> QED
    BY <2>1, <2>2, ClientTypes, ServerTypes DEF Next
<1>3. Types /\ Writing => TypeOK
  <2> SUFFICES ASSUME Types, Writing PROVE TypeOK
    OBVIOUS
  <2>1. cl \in Client /\ srv \in Server
    BY DEF Types
  <2> QED
    BY <2>1 DEF Types, Writing, TypeOK, Client, Server
<1> QED
  BY <1>1, <1>2, <1>3, PTL DEF Spec

-----------------------------------------------------------------------------
(* What is under way in each direction.                                    *)

ToServer == c2s \o cl.out
Unread == srv.buf \o ToServer
FromServer == s2c \o srv.out
ToClient == cl.buf \o FromServer

Ids(s, id) == \A t \in ToSet(s) : t[2] = id

Waiting == {"write", "line", "crlf"}
Working == {"headers", "expect", "route", "read", "dispatch"}

\* A request whose answer the server has not begun: nothing of it is sent but
\* perhaps that the client may go on.
Early == \/ srv.pc = "idle" /\ ToServer # <<>>
         \/ srv.pc \in {"headers", "expect"}
         \/ srv.pc = "send" /\ srv.id # cl.id
New == Early \/ srv.pc \in {"route", "read", "dispatch"}

\* The types of what is under way.
LEMMA StreamsAre ==
  ASSUME Types
  PROVE  /\ ToServer \in Tokens /\ Unread \in Tokens
         /\ FromServer \in Tokens /\ ToClient \in Tokens
         /\ c2s \in Tokens /\ s2c \in Tokens /\ cl.out \in Tokens /\ cl.buf \in Tokens
         /\ srv.buf \in Tokens /\ srv.out \in Tokens
         /\ cl.id \in Nat /\ cl.q \in AnyRequest /\ WellFormed(cl.q)
<1>1. /\ c2s \in Tokens /\ s2c \in Tokens /\ cl.out \in Tokens /\ cl.buf \in Tokens
      /\ srv.buf \in Tokens /\ srv.out \in Tokens
  BY DEF Types, Client, Server
<1>2. ToServer \in Tokens /\ FromServer \in Tokens
  BY <1>1, ConcatProperties DEF ToServer, FromServer, Tokens
<1>3. Unread \in Tokens /\ ToClient \in Tokens
  BY <1>1, <1>2, ConcatProperties DEF Unread, ToClient, Tokens
<1>4. cl.q \in Requests \cup {NoRequest} /\ cl.id \in 0 .. MaxRequests
  BY DEF Types, Client
<1>5. cl.q \in AnyRequest /\ WellFormed(cl.q)
  BY <1>4, RequestsAre
<1> QED
  BY <1>1, <1>2, <1>3, <1>4, <1>5, LimitsAssumption

\* What a read takes of all that is under way.
Takes(buf, pipe, rest) ==
  /\ Next1(buf, pipe) \in Token
  /\ buf \o (pipe \o rest) # <<>>
  /\ Next1(buf, pipe) = Head(buf \o (pipe \o rest))
  /\ BufferAfter(buf, pipe) \o (PipeAfter(buf, pipe) \o rest) = Tail(buf \o (pipe \o rest))
  /\ ToSet(PipeAfter(buf, pipe) \o rest) \subseteq ToSet(pipe \o rest)

\* What is taken is the first of all that is under way.
LEMMA TakenOfAll ==
  ASSUME NEW buf \in Tokens, NEW pipe \in Tokens, NEW rest \in Tokens, Readable(buf, pipe)
  PROVE  Takes(buf, pipe, rest)
<1> DEFINE b == BufferAfter(buf, pipe)
           u == PipeAfter(buf, pipe)
<1>1. IsTaken(buf, pipe, rest)
  BY Taken
<1>2. b \in Tokens /\ u \in Tokens
  BY <1>1 DEF IsTaken
<1>3. (u = pipe \/ u = <<>>) /\ <<>> \in Tokens
  BY DEF PipeAfter, Tokens
<1> HIDE DEF b, u
<1>4. ThreeAsOne(Token, buf, pipe, rest) /\ ThreeAsOne(Token, b, u, rest)
  BY <1>2, ConcatThree DEF Three, Tokens
<1>5. (buf \o pipe) \o rest = buf \o (pipe \o rest) /\ (b \o u) \o rest = b \o (u \o rest)
  BY <1>4 DEF ThreeAsOne
<1>6. /\ ToSet(u \o rest) = ToSet(u) \cup ToSet(rest)
      /\ ToSet(pipe \o rest) = ToSet(pipe) \cup ToSet(rest)
  BY <1>2, ConcatSet DEF Tokens
<1>7. ToSet(u) \subseteq ToSet(pipe)
  <2>1. ToSet(<<>>) = {}
    BY DEF ToSet
  <2> QED
    BY <1>3, <2>1
<1>8. ToSet(u \o rest) \subseteq ToSet(pipe \o rest)
  BY <1>6, <1>7
<1> QED
  BY <1>1, <1>5, <1>8, Zenon DEF IsTaken, Takes, b, u

\* The servers that differ only in their buffer.
SameBut(s, t) ==
  /\ s.pc = t.pc /\ s.count = t.count /\ s.id = t.id /\ s.q = t.q /\ s.gone = t.gone
  /\ s.rd = t.rd /\ s.out = t.out /\ s.ok = t.ok /\ s.skewed = t.skewed

\* What the server takes it has not read before.
LEMMA ServerTakes ==
  ASSUME Types, NEW s \in Server, STake(s), Readable(srv.buf, c2s)
  PROVE  /\ STaken \in Token /\ Unread # <<>>
         /\ STaken = Head(Unread) /\ Unread' = Tail(Unread)
         /\ ToSet(ToServer') \subseteq ToSet(ToServer)
         /\ SameBut(srv', s) /\ UNCHANGED <<cl, s2c, stopping, cause>>
<1>1. Takes(srv.buf, c2s, cl.out)
  BY StreamsAre, TakenOfAll
<1> DEFINE b == BufferAfter(srv.buf, c2s)
           u == PipeAfter(srv.buf, c2s)
<1>2. srv' = [s EXCEPT !.buf = b] /\ c2s' = u /\ UNCHANGED <<cl, s2c, stopping, cause>>
  BY DEF STake
<1> HIDE DEF b
<1>3. SameBut(srv', s) /\ srv'.buf = b
  BY <1>2 DEF Server, SameBut
<1>4. ToServer' = u \o cl.out /\ Unread' = b \o (u \o cl.out)
  BY <1>2, <1>3 DEF ToServer, Unread
<1> HIDE DEF u
<1> QED
  BY <1>1, <1>2, <1>3, <1>4, Zenon DEF Takes, STaken, Unread, ToServer, b, u

\* What the client takes comes first of what is under way to it.
LEMMA ClientTakes ==
  ASSUME Types, NEW c \in Client, CTake(c), Readable(cl.buf, s2c)
  PROVE  /\ CTaken \in Token /\ ToClient # <<>>
         /\ CTaken = Head(ToClient) /\ ToClient' = Tail(ToClient)
         /\ ToSet(FromServer') \subseteq ToSet(FromServer)
         /\ cl' = [c EXCEPT !.buf = cl'.buf]
         /\ UNCHANGED <<srv, c2s, stopping, cause>>
<1>1. Takes(cl.buf, s2c, srv.out)
  BY StreamsAre, TakenOfAll
<1> DEFINE b == BufferAfter(cl.buf, s2c)
           u == PipeAfter(cl.buf, s2c)
<1>2. cl' = [c EXCEPT !.buf = b] /\ s2c' = u /\ UNCHANGED <<srv, c2s, stopping, cause>>
  BY DEF CTake
<1> HIDE DEF b
<1>3. cl'.buf = b
  BY <1>2 DEF Client
<1>4. FromServer' = u \o srv.out /\ ToClient' = b \o (u \o srv.out)
  BY <1>2, <1>3 DEF FromServer, ToClient
<1> HIDE DEF u
<1> QED
  BY <1>1, <1>2, <1>3, <1>4, Zenon DEF Takes, CTaken, ToClient, FromServer, b, u

-----------------------------------------------------------------------------
(* The server sees the request that the client is making.                  *)

\* The reader r has the content c or takes it from u.
Fed(r, u, c) ==
  IF Ended(r) THEN r.mode = "done" => r.got = c
  ELSE \E mode \in {"done", "large"} : Reads(r, u, mode, c)

\* What the server s knows of the request q with the number id, when w is under
\* way to it and u is what it has not read.
Sees(s, id, q, w, u) ==
  /\ s.pc = "idle" => s.buf = <<>> /\ (w = <<>> \/ w = RequestTokens(id, q))
  /\ s.pc \in Working => s.id = id /\ s.q = q /\ (s.gone => q.close)
  /\ s.pc \in Working \/ (s.pc = "send" /\ s.id = id) => Ids(w, id)
  /\ s.pc = "send" /\ s.id # id => w = RequestTokens(id, q) \/ \E t \in ToSet(w) : t[2] = s.id
  /\ s.pc = "headers" => u = Tail(RequestTokens(id, q))
  /\ s.pc \in {"expect", "route"} =>
       u = RequestBody(id, q) /\ s.rd = NewReader(RequestHead(q), PayloadMax)
  /\ s.pc = "read" => HasContent(q) /\ Fed(s.rd, u, Content(id, q.chunks))
  /\ s.pc = "dispatch" /\ HasContent(q) => s.rd.got = Content(id, q.chunks)

RequestSeen == ~srv.skewed => Sees(srv, cl.id, cl.q, ToServer, Unread)

\* A server that has closed, or that works on nothing, knows nothing.
LEMMA SeesNothing ==
  ASSUME NEW s, s.pc = "closed" \/ (s.pc = "idle" /\ s.buf = <<>>), NEW id, NEW q, NEW u,
         NEW w, s.pc = "idle" => w = <<>> \/ w = RequestTokens(id, q)
  PROVE  Sees(s, id, q, w, u)
BY DEF Sees, Working

\* The client does something else than to send.
LEMMA SameRequest ==
  ASSUME RequestSeen, UNCHANGED <<srv, c2s>>,
         cl'.id = cl.id, cl'.q = cl.q, cl'.out = cl.out
  PROVE  RequestSeen'
BY Zenon DEF RequestSeen, ToServer, Unread

\* The end of a request tells the server nothing wrong.
LEMMA EndRequest ==
  ASSUME Types, RequestSeen, NEW ok, CEnd(ok)
  PROVE  RequestSeen'
<1>1. cl'.id = cl.id /\ cl'.q = cl.q /\ cl'.out = cl.out
  BY DEF CEnd, Types, Client
<1>2. CASE UNCHANGED <<srv, c2s, s2c>>
  BY <1>1, <1>2, SameRequest
<1>3. CASE srv' = ClosedServer(srv.skewed)
  <2>1. srv'.pc = "closed"
    BY <1>3 DEF ClosedServer, NewServer
  <2> QED
    BY <2>1, SeesNothing DEF RequestSeen
<1> QED
  BY <1>2, <1>3 DEF CEnd

\* A step of the client.
LEMMA ClientRequest ==
  ASSUME Types, Writing, RequestSeen, ~srv.skewed => (New => cl.pc \in Waiting),
         CSend \/ ClientGoesOn \/ CProviderFails \/ CCancels
  PROVE  RequestSeen'
<1>1. CASE CSend
  <2>1. PICK q \in Requests :
          cl' = [cl EXCEPT !.pc = "write", !.id = @ + 1, !.q = q, !.buf = <<>>,
                           !.rd = NoReader, !.line = <<>>, !.head = <<>>, !.ok = FALSE,
                           !.out = RequestTokens(cl.id + 1, q)]
    BY <1>1 DEF CSend
  <2>2. cl'.id = cl.id + 1 /\ cl'.q = q /\ cl'.out = RequestTokens(cl.id + 1, q)
    BY <2>1 DEF Types, Client
  <2>3. cl.pc = "idle" /\ cl.id \in Nat
    BY <1>1, StreamsAre DEF CSend
  <2> DEFINE m == RequestTokens(cl.id + 1, q)
  <2>4. m \in Tokens
    <3>1. cl.id + 1 \in Nat
      BY <2>3
    <3> QED
      BY <3>1, RequestsAre, RequestIs
  <2>5. m = RequestTokens(cl'.id, cl'.q) /\ cl'.out = m
    BY <2>2
  <2> HIDE DEF m
  <2>6. <<>> \o m = m /\ <<>> \in Tokens
    BY <2>4, ConcatEmptySeq DEF Tokens
  <2>7. CASE SClosed /\ s2c = <<>>
    <3>1. srv' = NewServer /\ c2s' = <<>>
      BY <1>1, <2>7 DEF CSend
    <3>2. srv'.pc = "idle" /\ srv'.buf = <<>>
      BY <3>1 DEF NewServer
    <3>3. ToServer' = m
      BY <2>5, <2>6, <3>1 DEF ToServer
    <3> QED
      BY <2>5, <3>2, <3>3, SeesNothing DEF RequestSeen
  <2>8. CASE ~(SClosed /\ s2c = <<>>) /\ ~srv.skewed
    <3>1. UNCHANGED <<srv, c2s>>
      BY <1>1, <2>8 DEF CSend
    <3>2. CASE SClosed
      BY <3>1, <3>2, SeesNothing DEF RequestSeen, SClosed
    <3>3. CASE ~SClosed
      <4>1. cl.out = <<>> /\ ToServer = c2s
        <5>1. cl.out = <<>>
          BY <2>3, <3>3 DEF Writing
        <5> QED
          BY <5>1, StreamsAre, ConcatEmptySeq DEF ToServer, Tokens
      <4>2. ~New
        BY <2>3, <2>8 DEF Waiting
      <4>3. Sees(srv, cl.id, cl.q, ToServer, Unread)
        BY <2>8 DEF RequestSeen
      <4>4. ToServer' = c2s \o m
        BY <2>5, <3>1 DEF ToServer
      <4>5. CASE srv.pc = "idle"
        <5>1. srv.buf = <<>> /\ c2s = <<>>
          BY <4>1, <4>2, <4>3, <4>5 DEF Sees, New, Early
        <5>2. ToServer' = m
          BY <2>6, <4>4, <5>1
        <5> QED
          BY <2>5, <3>1, <4>5, <5>1, <5>2, SeesNothing DEF RequestSeen
      <4>6. CASE srv.pc = "send"
        <5>1. srv.id = cl.id
          BY <4>2, <4>6 DEF New, Early
        <5>2. srv.id # cl'.id
          BY <2>2, <2>3, <5>1
        <5>3. CASE c2s = <<>>
          <6>1. ToServer' = RequestTokens(cl'.id, cl'.q)
            BY <2>5, <2>6, <4>4, <5>3
          <6> QED
            BY <3>1, <4>6, <5>2, <6>1 DEF RequestSeen, Sees, Working
        <5>4. CASE c2s # <<>>
          <6>1. c2s \in Seq(Token) /\ m \in Seq(Token)
            BY <2>4, StreamsAre DEF Tokens
          <6>2. Head(c2s) \in ToSet(c2s)
            BY <5>4, <6>1, HeadSet
          <6>3. Head(c2s)[2] = cl.id
            BY <4>1, <4>3, <4>6, <5>1, <6>2 DEF Sees, Ids
          <6>4. ToSet(c2s \o m) = ToSet(c2s) \cup ToSet(m)
            BY <6>1, ConcatSet
          <6>5. \E t \in ToSet(ToServer') : t[2] = srv'.id
            BY <3>1, <4>4, <5>1, <6>2, <6>3, <6>4
          <6> QED
            BY <3>1, <4>6, <5>2, <6>5 DEF RequestSeen, Sees, Working
        <5> QED
          BY <5>3, <5>4
      <4>7. srv.pc \in {"idle", "send"}
        BY <3>3, <4>2 DEF New, Early, SClosed, Types, Server
      <4> QED
        BY <4>5, <4>6, <4>7
    <3> QED
      BY <3>2, <3>3
  <2>9. CASE ~(SClosed /\ s2c = <<>>) /\ srv.skewed
    BY <1>1, <2>9 DEF CSend, RequestSeen
  <2> QED
    BY <2>7, <2>8, <2>9
<1>2. CASE CWrite
  <2>1. cl'.id = cl.id /\ cl'.q = cl.q /\ srv' = srv /\ cl'.out = Tail(cl.out)
    BY <1>2 DEF CWrite, Types, Client
  <2>2. CASE SClosed
    BY <2>1, <2>2, SeesNothing DEF RequestSeen, SClosed
  <2>3. CASE ~SClosed
    <3>1. c2s' = Append(c2s, Head(cl.out)) /\ cl.out # <<>>
      BY <1>2, <2>3 DEF CWrite
    <3>2. c2s \in Seq(Token) /\ cl.out \in Seq(Token)
      BY StreamsAre DEF Tokens
    <3>3. Append(c2s, Head(cl.out)) \o Tail(cl.out) = c2s \o cl.out
      BY <3>1, <3>2, MoveHead
    <3>4. ToServer' = ToServer
      BY <2>1, <3>1, <3>3 DEF ToServer
    <3>5. Unread' = Unread
      BY <2>1, <3>4 DEF Unread
    <3> QED
      BY <2>1, <3>4, <3>5, Zenon DEF RequestSeen
  <2> QED
    BY <2>2, <2>3
<1>3. CASE CWritten \/ CResult
  <2>1. cl'.id = cl.id /\ cl'.q = cl.q /\ cl'.out = cl.out /\ UNCHANGED <<srv, c2s>>
    BY <1>3 DEF CWritten, CResult, Types, Client
  <2> QED
    BY <2>1, SameRequest
<1>4. CASE CWriteFails \/ CProviderFails \/ CCancels \/ CGarbled
  BY <1>4, EndRequest DEF CWriteFails, CProviderFails, CCancels, CGarbled
<1>5. CASE CBodyEnded
  BY <1>5, EndRequest DEF CBodyEnded
<1>6. CASE CNothing
  <2>1. CASE CEnd(FALSE)
    BY <2>1, EndRequest
  <2>2. CASE cl' = [cl EXCEPT !.rd = FeedEnd(@)] /\ UNCHANGED <<srv, c2s, s2c>>
    <3>1. cl'.id = cl.id /\ cl'.q = cl.q /\ cl'.out = cl.out
      BY <2>2 DEF Types, Client
    <3> QED
      BY <2>2, <3>1, SameRequest
  <2> QED
    BY <1>6, <2>1, <2>2 DEF CNothing
<1>7. CASE CLine \/ CSkipEmptyLine \/ CHeaders \/ CBody
  <2> DEFINE Kept == cl'.id = cl.id /\ cl'.q = cl.q /\ cl'.out = cl.out /\ UNCHANGED <<srv, c2s>>
  <2>1. ASSUME CLine \/ CSkipEmptyLine PROVE Kept
    BY <2>1 DEF CLine, CSkipEmptyLine, CTake, Types, Client
  <2>2. ASSUME CHeaders PROVE Kept
    BY <2>2 DEF CHeaders, CTake, Types, Client
  <2>3. ASSUME CBody PROVE Kept
    BY <2>3 DEF CBody, CTake, Types, Client
  <2>4. Kept
    BY <1>7, <2>1, <2>2, <2>3
  <2> QED
    BY <2>4, SameRequest
<1> QED
  BY <1>1, <1>2, <1>3, <1>4, <1>5, <1>6, <1>7 DEF ClientGoesOn

\* A reader that reads to the end of the stream finds no other end.
LEMMA ReadsNotClose ==
  ASSUME NEW s \in Tokens, NEW r \in Reader, NEW c, NEW mode, Reads(r, s, mode, c),
         mode # "close"
  PROVE  r.mode # "close"
<1> SUFFICES ASSUME r.mode = "close" PROVE FALSE
  OBVIOUS
<1>1. PICK f : IsRun(f, r, s) /\ f[Len(s)].mode = mode
  BY Zenon DEF Reads
<1> DEFINE n == Len(s)
           T == {k \in Nat : k <= n => f[k] \in Reader /\ f[k].mode = "close"}
<1>2. n \in Nat /\ \A i \in 1 .. n : s[i] \in Token
  BY LenProperties, ElementOfSeq DEF Tokens
<1>3. 0 \in T
  BY <1>1 DEF IsRun
<1>4. ASSUME NEW k \in Nat, k \in T
      PROVE  k + 1 \in T
  <2> SUFFICES ASSUME k + 1 <= n PROVE f[k + 1] \in Reader /\ f[k + 1].mode = "close"
    OBVIOUS
  <2>1. k + 1 \in 1 .. n /\ (k + 1) - 1 = k /\ k <= n
    BY <1>2
  <2>2. f[k] \in Reader /\ f[k].mode = "close" /\ s[k + 1] \in Token
    BY <1>2, <1>4, <2>1
  <2>3. f[k + 1] = Feed(f[k], s[k + 1])
    BY <1>1, <2>1, Zenon DEF IsRun
  <2>4. Feed(f[k], s[k + 1]).mode = f[k].mode
    BY <2>2 DEF Feed, Deliver, Reader
  <2>5. Feed(f[k], s[k + 1]) \in Reader
    BY <2>2, FeedType DEF Ended
  <2> QED
    BY <2>2, <2>3, <2>4, <2>5
<1>5. n \in T
  <2> HIDE DEF T
  <2> QED
    BY <1>2, <1>3, <1>4, NatSetInduction
<1> QED
  BY <1>1, <1>2, <1>5

\* The server's reader goes on, or has to stop.
LEMMA FedOn ==
  ASSUME NEW r \in Reader, NEW u \in Tokens, NEW c, Fed(r, u, c), ~Ended(r)
  PROVE  /\ u # <<>> => Fed(Feed(r, Head(u)), Tail(u), c)
         /\ \A w : Fed(FeedEnd(r), w, c)
         /\ \A w : Fed([r EXCEPT !.mode = "bad"], w, c)
<1>1. PICK mode \in {"done", "large"} : Reads(r, u, mode, c)
  BY DEF Fed
<1>2. u \in Seq(Token)
  BY DEF Tokens
<1>3. ASSUME u # <<>>
      PROVE  Fed(Feed(r, Head(u)), Tail(u), c)
  <2> DEFINE f == Feed(r, Head(u))
             t == Tail(u)
  <2>1. Reads(f, t, mode, c)
    BY <1>1, <1>2, <1>3, ReadStep
  <2>2. t \in Seq(Token)
    BY <1>2, <1>3, HeadTailProperties
  <2> HIDE DEF f, t
  <2>3. f.mode \in Complete => f.got = c
    BY <2>1, <2>2, ReadsRight
  <2> QED
    BY <2>1, <2>3 DEF Fed, Complete, f, t
<1>4. r.mode # "close" /\ (r.mode \in Complete => r.got = c)
  BY <1>1, <1>2, ReadsNotClose, ReadsRight
<1>5. ASSUME NEW w
      PROVE  Fed(FeedEnd(r), w, c)
  <2>1. /\ FeedEnd(r).got = r.got /\ FeedEnd(r).mode \in {"done", "bad", "large"}
        /\ FeedEnd(r).mode = "done" => r.mode = "trailer"
    BY <1>4 DEF FeedEnd, Reader
  <2> QED
    BY <1>4, <2>1 DEF Fed, Ended, Complete
<1>6. ASSUME NEW w
      PROVE  Fed([r EXCEPT !.mode = "bad"], w, c)
  BY DEF Fed, Ended, Reader
<1> QED
  BY <1>3, <1>5, <1>6

\* What a response changes of the server.
IsResponse(w, s) ==
  /\ w.pc = "send" /\ w.ok = TRUE /\ w.id = s.id /\ w.gone = s.gone /\ w.count = s.count
  /\ w.skewed = s.skewed

\* What Respond changes.
LEMMA RespondFields ==
  ASSUME NEW s \in Server
  PROVE  \A p, applied, last : IsResponse(Respond(s, p, applied, last), s)
BY DEF Respond, Server, IsResponse

\* The server w has just begun to answer in the state s.
Answering(w, s, last) ==
  \E p \in Answers : \E applied \in BOOLEAN : w = Respond(s, p, applied, last)

Wrote(w, s, last) ==
  \E p \in Answers : \E applied \in BOOLEAN :
    w.out = s.out \o ResponseTokens(s.id, s.q.method, p, applied, last \/ s.q.close)

\* A server that answers has written a response.
LEMMA AnsweringIs ==
  ASSUME NEW s \in Server, NEW w, NEW last, Answering(w, s, last)
  PROVE  IsResponse(w, s) /\ Wrote(w, s, last)
<1>1. PICK p \in Answers, applied \in BOOLEAN : w = Respond(s, p, applied, last)
  BY DEF Answering
<1>2. w.out = s.out \o ResponseTokens(s.id, s.q.method, p, applied, last \/ s.q.close)
  BY <1>1 DEF Respond, Server
<1>3. Wrote(w, s, last)
  BY <1>2, Zenon DEF Wrote
<1> QED
  BY <1>1, <1>3, RespondFields

\* The answers that leave everything else as it is.
Refuses(s, last) ==
  /\ Answering(Respond(s, Plain(400), FALSE, last), s, last)
  /\ Answering(Respond(s, Plain(401), FALSE, last), s, last)
  /\ Answering(Respond(s, Plain(404), FALSE, last), s, last)
  /\ Answering(Respond(s, Plain(413), FALSE, last), s, last)
  /\ Answering(Respond(s, Plain(414), FALSE, last), s, last)
Replied(s, last) ==
  \A p \in Replies : /\ Answering(Respond(s, p, TRUE, last), s, last)
                     /\ Answering(Respond(s, Thrown(p), FALSE, last), s, last)

\* The server's own answers and those of the application are responses.
LEMMA AnAnswer ==
  ASSUME NEW s, NEW last
  PROVE  Refuses(s, last) /\ Replied(s, last)
<1>1. ASSUME NEW p \in Answers
      PROVE  /\ Answering(Respond(s, p, TRUE, last), s, last)
             /\ Answering(Respond(s, p, FALSE, last), s, last)
  <2>1. \A a \in BOOLEAN : Answering(Respond(s, p, a, last), s, last)
    BY Zenon DEF Answering
  <2> QED
    BY <2>1
<1>2. /\ Plain(400) \in Answers /\ Plain(401) \in Answers /\ Plain(404) \in Answers
      /\ Plain(413) \in Answers /\ Plain(414) \in Answers
  BY AnswersAre
<1>3. \A p \in Replies : p \in Answers /\ Thrown(p) \in Answers
  BY AnswersAre DEF Thrown
<1>4. \A p \in Answers : Answering(Respond(s, p, FALSE, last), s, last)
  BY <1>1, Zenon
<1>5. Refuses(s, last)
  BY <1>2, <1>4, Zenon DEF Refuses
<1>6. Replied(s, last)
  BY <1>1, <1>3, Zenon DEF Replied
<1> QED
  BY <1>5, <1>6, Zenon

AnswersNow == Answering(srv', srv, LastOne)
ReadingEnds ==
  \/ srv.rd.mode \in {"bad", "large"} /\ AnswersNow
  \/ srv.rd.mode = "done" /\ srv' = [srv EXCEPT !.pc = "dispatch"]
TimeIsOver ==
  \/ srv.pc = "headers" /\ AnswersNow
  \/ srv.pc = "read" /\ ~Ended(srv.rd) /\ srv' = [srv EXCEPT !.rd = FeedEnd(@)]

\* The steps in which the server answers.
LEMMA ServerAnswers ==
  /\ SRouteAtOnce \/ SThrows \/ SDispatch => AnswersNow
  /\ SReadEnded => ReadingEnds
  /\ SNothing => TimeIsOver
<1>1. Refuses(srv, LastOne) /\ Replied(srv, LastOne)
  BY AnAnswer
<1>2. /\ srv' = Respond(srv, Plain(400), FALSE, LastOne) => AnswersNow
      /\ srv' = Respond(srv, Plain(404), FALSE, LastOne) => AnswersNow
      /\ srv' = Respond(srv, Plain(413), FALSE, LastOne) => AnswersNow
  <2> DEFINE bad == Respond(srv, Plain(400), FALSE, LastOne)
             none == Respond(srv, Plain(404), FALSE, LastOne)
             large == Respond(srv, Plain(413), FALSE, LastOne)
  <2>1. /\ Answering(bad, srv, LastOne) /\ Answering(none, srv, LastOne)
        /\ Answering(large, srv, LastOne)
    BY <1>1 DEF Refuses
  <2> HIDE DEF bad, none, large
  <2>2. /\ srv' = bad => AnswersNow
        /\ srv' = none => AnswersNow
        /\ srv' = large => AnswersNow
    BY <2>1, Zenon DEF AnswersNow
  <2> QED
    BY <2>2 DEF bad, none, large
<1>3. (\E p \in Replies : srv' = Respond(srv, p, TRUE, LastOne)) => AnswersNow
  BY <1>1, Zenon DEF AnswersNow, Replied
<1>4. (\E p \in Replies : srv' = Respond(srv, [p EXCEPT !.status = 500], FALSE, LastOne))
        => AnswersNow
  BY <1>1, Zenon DEF AnswersNow, Replied, Thrown
<1>5. SRouteAtOnce \/ SThrows \/ SDispatch => AnswersNow
  BY <1>2, <1>3, <1>4, Zenon DEF SRouteAtOnce, SThrows, SDispatch
<1>6. SReadEnded => ReadingEnds
  BY <1>2 DEF SReadEnded, Ended, ReadingEnds
<1>7. SNothing => TimeIsOver
  BY <1>2, Zenon DEF SNothing, TimeIsOver
<1> QED
  BY <1>5, <1>6, <1>7

\* A server that answers the request leaves the rest of it alone.
LEMMA AnswersRequest ==
  ASSUME NEW s, NEW id, NEW q, NEW w, NEW u, NEW v, s.pc = "send", s.id = id,
         Ids(v, id), ToSet(w) \subseteq ToSet(v)
  PROVE  Sees(s, id, q, w, u)
<1>1. Ids(w, id)
  BY DEF Ids
<1> QED
  BY <1>1 DEF Sees, Working

\* Once a server has left content unread there is no telling what it sees.
LEMMA StaysSkewed ==
  ASSUME Types,
         ServerGoesOn \/ SRouteAtOnce \/ SThrows \/ SReadRefused \/ SSendFails \/ SSendCut,
         srv.skewed
  PROVE  srv'.skewed
<1>1. srv \in Server
  BY DEF Types
<1>2. CASE SLine
  <2> DEFINE s == [srv EXCEPT !.id = STaken[2], !.rd = NoReader, !.gone = FALSE]
             x == Respond([s EXCEPT !.q = NoRequest], Plain(400), FALSE, LastOne)
             y == [s EXCEPT !.pc = "headers", !.q = STaken[3]]
  <2>1. STake(x) \/ STake(y)
    BY <1>2 DEF SLine
  <2>2. x.skewed /\ y.skewed
    BY <1>1 DEF Respond, Server
  <2> HIDE DEF x, y
  <2>3. \A z : STake(z) => srv'.skewed = z.skewed \/ "skewed" \notin DOMAIN z
    BY DEF STake
  <2>4. "skewed" \in DOMAIN x /\ "skewed" \in DOMAIN y
    BY <1>1 DEF x, y, Respond, Server
  <2> QED
    BY <2>1, <2>2, <2>3, <2>4
<1>3. CASE SHeaders
  <2> DEFINE h == STaken[3]
             s == [srv EXCEPT !.rd = NewReader(h, PayloadMax), !.gone = h.close]
             x == Respond(srv, Plain(400), FALSE, LastOne)
             y == Respond([s EXCEPT !.gone = FALSE, !.q.close = FALSE], Plain(414), FALSE, LastOne)
             z == [s EXCEPT !.pc = IF srv.q.expect THEN "expect" ELSE "route"]
  <2>1. STake(x) \/ STake(y) \/ STake(z)
    BY <1>3 DEF SHeaders
  <2>2. x.skewed /\ y.skewed /\ z.skewed
    BY <1>1 DEF Respond, Server
  <2>3. "skewed" \in DOMAIN x /\ "skewed" \in DOMAIN y /\ "skewed" \in DOMAIN z
    BY <1>1 DEF Respond, Server
  <2> HIDE DEF x, y, z
  <2>4. \A w : STake(w) => srv'.skewed = w.skewed \/ "skewed" \notin DOMAIN w
    BY DEF STake
  <2> QED
    BY <2>1, <2>2, <2>3, <2>4
<1>4. CASE SExpect
  <2> DEFINE w == [srv EXCEPT !.gone = TRUE]
  <2>1. w \in Server /\ w.skewed
    BY <1>1 DEF Server
  <2>2. CASE srv' = Respond(w, Plain(401), FALSE, TRUE)
    <3> HIDE DEF w
    <3>1. IsResponse(Respond(w, Plain(401), FALSE, TRUE), w)
      BY <2>1, RespondFields
    <3> QED
      BY <2>1, <2>2, <3>1 DEF IsResponse
  <2>3. CASE \E status \in {100, 417} :
               srv' = [srv EXCEPT !.pc = "route", !.skewed = @ \/ status = 417,
                         !.out = <<<<"status", srv.id, Plain(status)>>, <<"crlf", srv.id, 0>>>>]
    BY <1>1, <2>3 DEF Server
  <2> QED
    BY <1>4, <2>2, <2>3 DEF SExpect
<1>5. CASE SRoute
  BY <1>1, <1>5 DEF SRoute, Server
<1>6. CASE SRouteAtOnce \/ SThrows \/ SDispatch
  <2>1. IsResponse(srv', srv)
    BY <1>1, <1>6, ServerAnswers, AnsweringIs DEF AnswersNow
  <2> QED
    BY <2>1 DEF IsResponse
<1>7. CASE SRead
  BY <1>1, <1>7 DEF SRead, STake, Server
<1>8. CASE SReadRefused
  BY <1>1, <1>8 DEF SReadRefused, Server
<1>9. CASE SReadEnded
  <2>1. CASE AnswersNow
    BY <1>1, <2>1, AnsweringIs DEF IsResponse, AnswersNow
  <2>2. CASE srv' = [srv EXCEPT !.pc = "dispatch"]
    BY <1>1, <2>2 DEF Server
  <2> QED
    BY <1>9, <2>1, <2>2, ServerAnswers DEF ReadingEnds
<1>10. CASE SNothing
  <2>1. CASE AnswersNow
    BY <1>1, <2>1, AnsweringIs DEF IsResponse, AnswersNow
  <2>2. CASE srv' = [srv EXCEPT !.rd = FeedEnd(@)]
    BY <1>1, <2>2 DEF Server
  <2> QED
    BY <1>10, <2>1, <2>2, ServerAnswers DEF TimeIsOver
<1>11. CASE SSend
  BY <1>1, <1>11 DEF SSend, Server
<1>12. CASE SSendFails \/ SSendCut
  BY <1>1, <1>12 DEF SSendFails, SSendCut, Server
<1>13. CASE SFinish
  <2> DEFINE unread == \E t \in ToSet(cl.out \o c2s) : t[2] = srv.id
             s == [srv EXCEPT !.buf = <<>>, !.count = @ - 1, !.skewed = @ \/ unread]
  <2>1. srv' = ClosedServer(s.skewed) \/ srv' = [s EXCEPT !.pc = "idle"]
    BY <1>13 DEF SFinish, SClose
  <2> HIDE DEF unread
  <2>2. s.skewed
    BY <1>1 DEF Server
  <2>3. ClosedServer(s.skewed).skewed = s.skewed
    BY DEF ClosedServer, NewServer
  <2>4. [s EXCEPT !.pc = "idle"].skewed = s.skewed
    OBVIOUS
  <2> HIDE DEF s
  <2> QED
    BY <2>1, <2>2, <2>3, <2>4
<1>14. CASE SIdleCloses
  BY <1>14 DEF SIdleCloses, SClose, ClosedServer, NewServer
<1> QED
  BY <1>2, <1>3, <1>4, <1>5, <1>6, <1>7, <1>8, <1>9, <1>10, <1>11, <1>12, <1>13, <1>14
  DEF ServerGoesOn

\* The server w has begun to answer the request of s.
Begins(w, s) ==
  /\ w.pc = "send" /\ w.ok = TRUE /\ w.id = s.id /\ w.count = s.count /\ w.skewed = s.skewed
  /\ \E p \in Answers : \E applied \in BOOLEAN : \E close \in BOOLEAN :
       /\ w.gone \/ w.count = 1 => close
       /\ w.out = s.out \o ResponseTokens(s.id, s.q.method, p, applied, close)

\* The kinds of steps of the server, as far as the client is concerned.
Quietly == UNCHANGED <<cl, s2c>> /\ (cause => cause')
Works == New /\ (Early' => Early) /\ srv'.pc \in Working /\ srv'.out = srv.out /\ Quietly
Answered == srv.pc \in Working /\ Begins(srv', srv) /\ Quietly

\* What the server sees after its step.
SeesThen == Sees(srv', cl.id, cl.q, ToServer', Unread')

\* A server that answers a request still knows what is left of it.
LEMMA AnswersNowBegins ==
  ASSUME Types, RequestSeen, ~srv.skewed, srv.pc \in Working, AnswersNow,
         UNCHANGED <<cl, c2s, s2c>>, cause => cause'
  PROVE  Answered /\ SeesThen
<1>1. srv \in Server
  BY DEF Types
<1>2. Sees(srv, cl.id, cl.q, ToServer, Unread)
  BY DEF RequestSeen
<1>3. srv.id = cl.id /\ (srv.gone => srv.q.close) /\ Ids(ToServer, cl.id)
  BY <1>2 DEF Sees
<1>11. IsResponse(srv', srv) /\ Wrote(srv', srv, LastOne)
  BY <1>1, AnsweringIs DEF AnswersNow
<1>4. PICK p \in Answers, applied \in BOOLEAN :
        /\ IsResponse(srv', srv)
        /\ srv'.out = srv.out \o ResponseTokens(srv.id, srv.q.method, p, applied,
                                                LastOne \/ srv.q.close)
  BY <1>11, Zenon DEF Wrote
<1> DEFINE close == LastOne \/ srv.q.close
<1>5. close \in BOOLEAN
  BY <1>1 DEF Server, AnyRequest, LastOne
<1>6. srv'.gone \/ srv'.count = 1 => close
  BY <1>3, <1>4 DEF IsResponse, LastOne
<1>7. srv'.out = srv.out \o ResponseTokens(srv.id, srv.q.method, p, applied, close)
  BY <1>4
<1> HIDE DEF close
<1>8. Begins(srv', srv)
  BY <1>4, <1>5, <1>6, <1>7, Zenon DEF Begins, IsResponse
<1>9. ToServer' = ToServer
  BY DEF ToServer
<1>10. SeesThen
  BY <1>3, <1>4, <1>9, AnswersRequest DEF SeesThen, IsResponse
<1> QED
  BY <1>8, <1>10 DEF Answered, Quietly

\* The server takes the first of what it has not read.
LEMMA TakesHead ==
  ASSUME Types, Readable(srv.buf, c2s)
  PROVE  STaken = Head(Unread)
<1>1. Takes(srv.buf, c2s, cl.out)
  BY StreamsAre, TakenOfAll
<1> QED
  BY <1>1, Zenon DEF Takes, STaken, Unread, ToServer

\* The server takes the request line.
LEMMA LineSeen ==
  ASSUME Types, Writing, RequestSeen, ~srv.skewed, SLine
  PROVE  Works /\ SeesThen
<1> DEFINE m == RequestTokens(cl.id, cl.q)
<1>1. /\ srv \in Server /\ c2s \in Tokens /\ cl.out \in Tokens
      /\ cl.id \in Nat /\ cl.q \in AnyRequest
  BY StreamsAre DEF Types
<1>2. srv.pc = "idle" /\ c2s # <<>> /\ srv.out = <<>>
  BY DEF SLine, Writing
<1>3. Sees(srv, cl.id, cl.q, ToServer, Unread)
  BY DEF RequestSeen
<1>4. ToServer # <<>>
  BY <1>1, <1>2, HeadOfConcat DEF ToServer, Tokens
<1>5. srv.buf = <<>> /\ ToServer = m
  BY <1>2, <1>3, <1>4 DEF Sees
<1>6. Unread = m
  BY <1>5, StreamsAre, ConcatEmptySeq DEF Unread, Tokens
<1>7. /\ Head(m) = <<"request", cl.id, cl.q>> /\ Tail(m) \in Tokens
      /\ \A t \in ToSet(m) : t[2] = cl.id
  BY <1>1, RequestIs
<1> HIDE DEF m
<1>8. Readable(srv.buf, c2s)
  BY <1>2 DEF Readable
<1>9. STaken = Head(Unread)
  BY <1>8, TakesHead
<1>10. STaken = <<"request", cl.id, cl.q>>
  BY <1>6, <1>7, <1>9
<1> DEFINE s == [srv EXCEPT !.id = cl.id, !.rd = NoReader, !.gone = FALSE,
                            !.pc = "headers", !.q = cl.q]
<1>11. STake(s)
  BY <1>1, <1>10 DEF SLine, Server
<1>12. /\ s \in Server /\ s.pc = "headers" /\ s.id = cl.id /\ s.q = cl.q /\ s.gone = FALSE
       /\ s.out = <<>>
  BY <1>1, <1>2, ReadersAre DEF Server
<1> HIDE DEF s
<1>13. /\ Unread' = Tail(m) /\ ToSet(ToServer') \subseteq ToSet(m)
       /\ SameBut(srv', s) /\ UNCHANGED <<cl, s2c, stopping, cause>>
  BY <1>5, <1>6, <1>8, <1>11, <1>12, ServerTakes
<1>14. Ids(ToServer', cl.id)
  BY <1>7, <1>13 DEF Ids
<1>15. SeesThen
  BY <1>12, <1>13, <1>14 DEF SeesThen, Sees, SameBut, Working, m
<1>16. Early /\ New
  BY <1>2, <1>4 DEF Early, New
<1> QED
  BY <1>2, <1>12, <1>13, <1>15, <1>16 DEF Works, SameBut, Quietly, Working

\* The server takes the headers.
LEMMA HeadersSeen ==
  ASSUME Types, Writing, RequestSeen, ~srv.skewed, SHeaders
  PROVE  (Works \/ Answered) /\ SeesThen
<1> DEFINE m == RequestTokens(cl.id, cl.q)
           h == RequestHead(cl.q)
           r == NewReader(h, PayloadMax)
<1>1. /\ srv \in Server /\ cl.id \in Nat /\ cl.q \in AnyRequest
  BY StreamsAre DEF Types
<1>2. srv.pc = "headers" /\ Readable(srv.buf, c2s) /\ srv.out = <<>>
  BY DEF SHeaders, Writing
<1>3. Sees(srv, cl.id, cl.q, ToServer, Unread)
  BY DEF RequestSeen
<1>4. Unread = Tail(m) /\ srv.id = cl.id /\ srv.q = cl.q /\ Ids(ToServer, cl.id)
  BY <1>2, <1>3 DEF Sees, Working
<1>5. /\ Head(Tail(m)) = <<"headers", cl.id, h>> /\ Tail(Tail(m)) = RequestBody(cl.id, cl.q)
      /\ h \in Heads /\ h.close = cl.q.close
  BY <1>1, RequestIs
<1>6. r \in Reader
  BY <1>5, ReadersAre
<1> HIDE DEF m
<1>7. STaken = Head(Unread)
  BY <1>2, TakesHead
<1>8. STaken = <<"headers", cl.id, h>>
  BY <1>4, <1>5, <1>7
<1> HIDE DEF h, r
<1> DEFINE s == [srv EXCEPT !.rd = r, !.gone = h.close]
<1>9. s \in Server
  BY <1>1, <1>5, <1>6 DEF Server, Heads
<1>10. New /\ Early /\ srv.pc \in Working
  BY <1>2 DEF New, Early, Working
<1>11. CASE srv.q.long
  <2> DEFINE w == [s EXCEPT !.gone = FALSE, !.q.close = FALSE]
             x == Respond(w, Plain(414), FALSE, LastOne)
  <2>1. STake(x)
    BY <1>8, <1>11 DEF SHeaders, h, r
  <2>2. w \in Server /\ w.gone = FALSE /\ w.q.method = srv.q.method /\ w.q.close = FALSE
        /\ w.id = srv.id /\ w.count = srv.count /\ w.skewed = srv.skewed /\ w.out = srv.out
    <3>1. [srv.q EXCEPT !.close = FALSE] \in AnyRequest
      BY <1>1 DEF AnyRequest, Server
    <3> QED
      BY <1>1, <1>9, <3>1 DEF Server, AnyRequest
  <2> HIDE DEF w
  <2>14. Responding(w) /\ LastOne \in Flag
    BY <2>2, RefusalTypes DEF LastOne, Flag
  <2>15. Sending(x)
    BY <2>14, Zenon DEF Responding
  <2>3. x \in Server
    BY <2>15 DEF Sending
  <2>4. Refuses(w, LastOne)
    BY AnAnswer
  <2>5. Answering(x, w, LastOne)
    BY <2>4 DEF Refuses
  <2> HIDE DEF x
  <2>6. IsResponse(x, w) /\ Wrote(x, w, LastOne)
    BY <2>2, <2>5, AnsweringIs
  <2>7. PICK p \in Answers, applied \in BOOLEAN :
          x.out = w.out \o ResponseTokens(w.id, w.q.method, p, applied, LastOne \/ w.q.close)
    BY <2>6, Zenon DEF Wrote
  <2>8. /\ ToSet(ToServer') \subseteq ToSet(ToServer)
        /\ SameBut(srv', x) /\ UNCHANGED <<cl, s2c, stopping, cause>>
    BY <1>2, <2>1, <2>3, ServerTakes
  <2> DEFINE close == LastOne \/ w.q.close
  <2>9. close \in BOOLEAN /\ (x.gone \/ x.count = 1 => close)
    BY <2>2, <2>6 DEF LastOne, IsResponse
  <2>10. x.out = srv.out \o ResponseTokens(srv.id, srv.q.method, p, applied, close)
    BY <2>2, <2>7
  <2> HIDE DEF close
  <2>11. Begins(srv', srv)
    <3>1. Begins(x, srv)
      BY <2>2, <2>6, <2>9, <2>10, Zenon DEF Begins, IsResponse
    <3> QED
      BY <2>8, <3>1, Zenon DEF Begins, SameBut
  <2>12. srv'.pc = "send" /\ srv'.id = cl.id
    BY <1>4, <2>11 DEF Begins
  <2>13. SeesThen
    BY <1>4, <2>8, <2>12, AnswersRequest DEF SeesThen
  <2> QED
    BY <1>10, <2>8, <2>11, <2>13 DEF Answered, Quietly
<1>12. CASE ~srv.q.long
  <2> DEFINE w == [s EXCEPT !.pc = IF srv.q.expect THEN "expect" ELSE "route"]
  <2>1. STake(w)
    BY <1>8, <1>12 DEF SHeaders, h, r
  <2>2. /\ w \in Server /\ w.pc \in {"expect", "route"} /\ w.id = srv.id /\ w.q = srv.q
        /\ w.gone = h.close /\ w.rd = r /\ w.out = srv.out
    BY <1>1, <1>9 DEF Server
  <2> HIDE DEF s, w
  <2>3. /\ Unread' = Tail(Unread) /\ ToSet(ToServer') \subseteq ToSet(ToServer)
        /\ SameBut(srv', w) /\ UNCHANGED <<cl, s2c, stopping, cause>>
    BY <1>2, <2>1, <2>2, ServerTakes
  <2>4. Ids(ToServer', cl.id)
    BY <1>4, <2>3 DEF Ids
  <2>5. Unread' = RequestBody(cl.id, cl.q)
    BY <1>4, <1>5, <2>3
  <2>6. srv'.pc \in {"expect", "route"} /\ srv'.id = cl.id /\ srv'.q = cl.q
        /\ srv'.gone = cl.q.close /\ srv'.rd = r /\ srv'.out = srv.out
    BY <1>4, <1>5, <2>2, <2>3 DEF SameBut
  <2>7. SeesThen
    BY <2>4, <2>5, <2>6 DEF SeesThen, Sees, Working, r, h
  <2> QED
    BY <1>10, <2>3, <2>6, <2>7 DEF Works, Quietly, Working
<1> QED
  BY <1>11, <1>12

\* The server tells the client to go on.
GoOn(id) == <<<<"status", id, Plain(100)>>, <<"crlf", id, 0>>>>
Continues ==
  /\ srv.pc = "expect" /\ srv.out = <<>>
  /\ srv'.pc = "route" /\ srv'.out = GoOn(cl.id) /\ Quietly

\* The server closes, or takes the next request, after an answer.
Closes ==
  /\ srv'.pc = "closed" /\ srv'.out = <<>> /\ cl' = cl /\ (cause => cause')
  /\ srv.out = <<>> /\ s2c' \in {s2c, <<>>}
  /\ \/ srv.pc = "idle" /\ s2c' = s2c
     \/ /\ srv.pc = "send" /\ (~srv.ok \/ srv.gone \/ srv.count = 1)
        /\ srv.id = cl.id => s2c' = s2c
NextRequest ==
  /\ srv.pc = "send" /\ srv.out = <<>>
  /\ srv'.pc = "idle" /\ srv'.out = <<>> /\ (Early' => Early) /\ Quietly

\* The server tells the client to go on, or answers instead.
LEMMA ExpectSeen ==
  ASSUME Types, Writing, RequestSeen, ~srv.skewed, SExpect, ~srv'.skewed
  PROVE  (Continues \/ Answered) /\ SeesThen
<1>1. srv \in Server /\ srv.pc = "expect" /\ srv.out = <<>> /\ UNCHANGED <<cl, c2s, s2c, cause>>
  BY DEF Types, SExpect, Writing
<1>2. Sees(srv, cl.id, cl.q, ToServer, Unread)
  BY DEF RequestSeen
<1>3. /\ srv.id = cl.id /\ srv.q = cl.q /\ (srv.gone => cl.q.close) /\ Ids(ToServer, cl.id)
      /\ Unread = RequestBody(cl.id, cl.q) /\ srv.rd = NewReader(RequestHead(cl.q), PayloadMax)
  BY <1>1, <1>2 DEF Sees, Working
<1>4. CASE \E status \in {100, 417} :
             srv' = [srv EXCEPT !.pc = "route", !.skewed = @ \/ status = 417,
                       !.out = <<<<"status", srv.id, Plain(status)>>, <<"crlf", srv.id, 0>>>>]
  <2>1. PICK status \in {100, 417} :
             srv' = [srv EXCEPT !.pc = "route", !.skewed = @ \/ status = 417,
                       !.out = <<<<"status", srv.id, Plain(status)>>, <<"crlf", srv.id, 0>>>>]
    BY <1>4
  <2>2. srv'.skewed = (srv.skewed \/ status = 417)
    BY <1>1, <2>1 DEF Server
  <2>3. status = 100
    BY <2>2
  <2>4. /\ srv'.pc = "route" /\ srv'.out = GoOn(srv.id) /\ srv'.id = srv.id /\ srv'.q = srv.q
        /\ srv'.gone = srv.gone /\ srv'.rd = srv.rd /\ srv'.buf = srv.buf
    BY <1>1, <2>1, <2>3 DEF Server, GoOn
  <2>5. ToServer' = ToServer /\ Unread' = Unread
    BY <1>1, <2>4 DEF ToServer, Unread
  <2>6. SeesThen
    BY <1>3, <2>4, <2>5 DEF SeesThen, Sees, Working
  <2> QED
    BY <1>1, <1>3, <2>4, <2>6 DEF Continues, Quietly
<1>5. CASE srv' = Respond([srv EXCEPT !.gone = TRUE], Plain(401), FALSE, TRUE)
  <2> DEFINE w == [srv EXCEPT !.gone = TRUE]
  <2>1. /\ w \in Server /\ w.id = srv.id /\ w.count = srv.count /\ w.skewed = srv.skewed
        /\ w.out = srv.out /\ w.q = srv.q
    BY <1>1 DEF Server
  <2>2. srv' = Respond(w, Plain(401), FALSE, TRUE)
    BY <1>5
  <2> HIDE DEF w
  <2> DEFINE last == TRUE
             x == Respond(w, Plain(401), FALSE, last)
  <2>3. srv' = x
    BY <2>2
  <2> HIDE DEF last
  <2>4. Answering(x, w, last)
    <3>1. Refuses(w, last)
      BY AnAnswer
    <3> QED
      BY <3>1 DEF Refuses
  <2> HIDE DEF x
  <2>5. IsResponse(x, w) /\ Wrote(x, w, last)
    BY <2>1, <2>4, AnsweringIs
  <2>6. PICK p \in Answers, applied \in BOOLEAN :
          x.out = w.out \o ResponseTokens(w.id, w.q.method, p, applied, last \/ w.q.close)
    BY <2>5, Zenon DEF Wrote
  <2>7. x.out = srv.out \o ResponseTokens(srv.id, srv.q.method, p, applied, TRUE)
    BY <2>1, <2>6 DEF last
  <2>8. Begins(srv', srv)
    BY <2>1, <2>3, <2>5, <2>7, Zenon DEF Begins, IsResponse
  <2>9. ToServer' = ToServer /\ srv'.pc = "send" /\ srv'.id = cl.id
    BY <1>1, <1>3, <2>8 DEF ToServer, Begins
  <2>10. SeesThen
    BY <1>3, <2>9, AnswersRequest DEF SeesThen
  <2> QED
    BY <1>1, <2>8, <2>10 DEF Answered, Quietly, Working
<1> QED
  BY <1>4, <1>5 DEF SExpect

\* The server decides whether there is content to read.
LEMMA RouteSeen ==
  ASSUME Types, RequestSeen, ~srv.skewed, SRoute
  PROVE  Works /\ SeesThen
<1>1. /\ srv \in Server /\ srv.pc = "route" /\ UNCHANGED <<cl, c2s, s2c, cause>>
      /\ cl.id \in Nat /\ cl.q \in AnyRequest /\ WellFormed(cl.q)
  BY StreamsAre DEF Types, SRoute
<1>2. Sees(srv, cl.id, cl.q, ToServer, Unread)
  BY DEF RequestSeen
<1>3. /\ srv.id = cl.id /\ srv.q = cl.q /\ (srv.gone => cl.q.close) /\ Ids(ToServer, cl.id)
      /\ Unread = RequestBody(cl.id, cl.q) /\ srv.rd = NewReader(RequestHead(cl.q), PayloadMax)
  BY <1>1, <1>2 DEF Sees, Working
<1> DEFINE none == cl.q.method = "DELETE" /\ cl.q.framing # "length"
           c == Content(cl.id, cl.q.chunks)
<1>4. /\ srv'.pc \in {"dispatch", "read"} /\ srv'.id = srv.id /\ srv'.q = srv.q
      /\ srv'.gone = srv.gone /\ srv'.buf = srv.buf /\ srv'.out = srv.out
      /\ srv'.pc = "read" => HasContent(cl.q) /\ ~none /\ srv'.rd = srv.rd
      /\ srv'.pc = "dispatch" /\ HasContent(cl.q) => none /\ srv'.rd = NoReader
  BY <1>1, <1>3 DEF SRoute, Server
<1>5. ToServer' = ToServer /\ Unread' = Unread
  BY <1>1, <1>4 DEF ToServer, Unread
<1>6. none => c = <<>>
  BY <1>1, EmptyContent DEF WellFormed, AnyRequest
<1>7. ASSUME srv'.pc = "read"
      PROVE  Fed(srv.rd, Unread, c)
  <2>1. RequestBody(cl.id, cl.q) \in Seq(Token)
    BY <1>1, RequestIs DEF Tokens
  <2>2. PICK mode \in {"done", "large"} : Reads(srv.rd, Unread, mode, c)
    BY <1>1, <1>3, <1>4, <1>7, ReadsRequest
  <2> HIDE DEF c
  <2>3. srv.rd.mode \in Complete => srv.rd.got = c
    BY <1>3, <2>1, <2>2, ReadsRight
  <2> QED
    BY <2>2, <2>3 DEF Fed, Complete
<1> HIDE DEF c, none
<1>8. ASSUME srv'.pc = "dispatch", HasContent(cl.q)
      PROVE  srv'.rd.got = c
  BY <1>4, <1>6, <1>8 DEF NoReader
<1>9. SeesThen
  BY <1>3, <1>4, <1>5, <1>7, <1>8 DEF SeesThen, Sees, Working, c
<1> QED
  BY <1>1, <1>4, <1>9 DEF Works, Quietly, Working, New, Early

\* The server reads the content.
LEMMA ReadSeen ==
  ASSUME Types, RequestSeen, ~srv.skewed, srv.pc = "read",
         SRead \/ SReadRefused \/ SReadEnded \/ SNothing
  PROVE  (Works \/ Answered) /\ SeesThen
<1> DEFINE c == Content(cl.id, cl.q.chunks)
<1>1. srv \in Server /\ srv.rd \in Reader /\ Unread \in Tokens
  BY StreamsAre DEF Types, Server
<1>2. Sees(srv, cl.id, cl.q, ToServer, Unread)
  BY DEF RequestSeen
<1> HIDE DEF c
<1>3. /\ srv.id = cl.id /\ srv.q = cl.q /\ (srv.gone => cl.q.close) /\ Ids(ToServer, cl.id)
      /\ HasContent(cl.q) /\ Fed(srv.rd, Unread, c)
  BY <1>2 DEF Sees, Working, c
<1>4. srv.pc \in Working /\ New
  BY DEF Working, New
<1>5. ASSUME NEW r, ~Ended(srv.rd), Fed(r, Unread', c), Ids(ToServer', cl.id),
             srv'.pc = "read", srv'.id = srv.id, srv'.q = srv.q, srv'.gone = srv.gone,
             srv'.rd = r, srv'.out = srv.out, UNCHANGED <<cl, s2c>>, cause => cause'
      PROVE  Works /\ SeesThen
  <2>1. SeesThen
    BY <1>3, <1>5 DEF SeesThen, Sees, Working, c
  <2> QED
    BY <1>4, <1>5, <2>1 DEF Works, Quietly, Early, Working
<1>6. CASE SRead
  <2> DEFINE s == [srv EXCEPT !.rd = Feed(srv.rd, STaken)]
  <2>1. Readable(srv.buf, c2s) /\ ~Ended(srv.rd) /\ STake(s)
    BY <1>6 DEF SRead
  <2>2. STaken = Head(Unread) /\ Unread # <<>>
    <3>1. Takes(srv.buf, c2s, cl.out)
      BY <2>1, StreamsAre, TakenOfAll
    <3> QED
      BY <3>1, Zenon DEF Takes, STaken, Unread, ToServer
  <2>3. STaken \in Token
    BY <1>1, <2>2, HeadTailProperties DEF Tokens
  <2>4. Feed(srv.rd, STaken) \in Reader
    BY <1>1, <2>1, <2>3, FeedType
  <2>5. /\ s \in Server /\ s.pc = "read" /\ s.id = srv.id /\ s.q = srv.q /\ s.gone = srv.gone
        /\ s.rd = Feed(srv.rd, STaken) /\ s.out = srv.out
    BY <1>1, <2>4 DEF Server
  <2> HIDE DEF s
  <2>6. /\ Unread' = Tail(Unread) /\ ToSet(ToServer') \subseteq ToSet(ToServer)
        /\ SameBut(srv', s) /\ UNCHANGED <<cl, s2c, stopping, cause>>
    BY <2>1, <2>5, ServerTakes
  <2>7. Fed(Feed(srv.rd, STaken), Unread', c)
    BY <1>1, <1>3, <2>1, <2>2, <2>6, FedOn
  <2>8. Ids(ToServer', cl.id)
    BY <1>3, <2>6 DEF Ids
  <2> QED
    BY <1>5, <2>1, <2>5, <2>6, <2>7, <2>8 DEF SameBut
<1>7. CASE SReadRefused
  <2>1. ~Ended(srv.rd)
    BY <1>7 DEF SReadRefused, Delivers, Ended
  <2>2. \A w : Fed([srv.rd EXCEPT !.mode = "bad"], w, c)
    BY <1>1, <1>3, <2>1, FedOn
  <2>3. /\ srv'.pc = "read" /\ srv'.id = srv.id /\ srv'.q = srv.q /\ srv'.gone = srv.gone
        /\ srv'.rd = [srv.rd EXCEPT !.mode = "bad"] /\ srv'.out = srv.out
        /\ UNCHANGED <<cl, c2s, s2c, cause>>
    BY <1>1, <1>7 DEF SReadRefused, Server
  <2>4. ToServer' = ToServer
    BY <2>3 DEF ToServer
  <2> QED
    BY <1>3, <1>5, <2>1, <2>2, <2>3, <2>4
<1>8. CASE SReadEnded
  <2>1. UNCHANGED <<cl, c2s, s2c, cause>> /\ ReadingEnds /\ Ended(srv.rd)
    BY <1>8, ServerAnswers DEF SReadEnded
  <2>2. CASE AnswersNow
    BY <1>4, <2>1, <2>2, AnswersNowBegins
  <2>3. CASE srv.rd.mode = "done" /\ srv' = [srv EXCEPT !.pc = "dispatch"]
    <3>1. srv.rd.got = c
      BY <1>3, <2>1, <2>3 DEF Fed
    <3>2. /\ srv'.pc = "dispatch" /\ srv'.id = srv.id /\ srv'.q = srv.q
          /\ srv'.gone = srv.gone /\ srv'.rd = srv.rd /\ srv'.out = srv.out
      BY <1>1, <2>3 DEF Server
    <3>3. ToServer' = ToServer
      BY <2>1 DEF ToServer
    <3>4. SeesThen
      BY <1>3, <3>1, <3>2, <3>3 DEF SeesThen, Sees, Working, c
    <3> QED
      BY <1>4, <2>1, <3>2, <3>4 DEF Works, Quietly, Early, Working
  <2> QED
    BY <2>1, <2>2, <2>3 DEF ReadingEnds
<1>9. CASE SNothing
  <2>1. UNCHANGED <<cl, c2s, s2c>> /\ cause' = TRUE /\ ~Ended(srv.rd)
        /\ srv' = [srv EXCEPT !.rd = FeedEnd(@)]
    BY <1>9, ServerAnswers DEF SNothing, TimeIsOver
  <2>2. \A w : Fed(FeedEnd(srv.rd), w, c)
    BY <1>1, <1>3, <2>1, FedOn
  <2>3. /\ srv'.pc = "read" /\ srv'.id = srv.id /\ srv'.q = srv.q /\ srv'.gone = srv.gone
        /\ srv'.rd = FeedEnd(srv.rd) /\ srv'.out = srv.out
    BY <1>1, <2>1 DEF Server
  <2>4. ToServer' = ToServer
    BY <2>1 DEF ToServer
  <2> QED
    BY <1>3, <1>5, <2>1, <2>2, <2>3, <2>4
<1> QED
  BY <1>6, <1>7, <1>8, <1>9

\* The next token of an answer goes out, or the rest of it does not.
SameServer ==
  /\ srv'.pc = srv.pc /\ srv'.id = srv.id /\ srv'.q = srv.q /\ srv'.gone = srv.gone
  /\ srv'.count = srv.count /\ srv'.rd = srv.rd /\ srv'.buf = srv.buf
  /\ UNCHANGED <<cl, c2s>>
Sends ==
  /\ srv.out # <<>> /\ SameServer /\ srv'.ok = srv.ok /\ cause' = cause
  /\ srv'.out = Tail(srv.out) /\ s2c' = Append(s2c, Head(srv.out))
Drops ==
  /\ srv.pc = "send" /\ SameServer /\ srv'.out = <<>> /\ s2c' = s2c /\ cause' = TRUE

\* The response goes out, or is cut short.
LEMMA SendSeen ==
  ASSUME Types, RequestSeen, ~srv.skewed, SSend \/ SSendFails \/ SSendCut
  PROVE  (Sends \/ Drops) /\ SeesThen
<1>1. srv \in Server
  BY DEF Types
<1>2. ASSUME SSend PROVE Sends
  BY <1>1, <1>2 DEF SSend, Sends, SameServer, Server
<1>3. ASSUME SSendFails \/ SSendCut PROVE Drops
  BY <1>1, <1>3 DEF SSendFails, SSendCut, Drops, SameServer, Server
<1>4. SameServer
  BY <1>2, <1>3 DEF Sends, Drops
<1>5. ToServer' = ToServer /\ Unread' = Unread
  BY <1>4 DEF SameServer, ToServer, Unread
<1>6. SeesThen
  BY <1>4, <1>5 DEF RequestSeen, SeesThen, Sees, SameServer
<1> QED
  BY <1>2, <1>3, <1>6

\* The request is over: the server closes or waits for the next one.
LEMMA FinishSeen ==
  ASSUME Types, Writing, RequestSeen, ~srv.skewed, SFinish, ~srv'.skewed
  PROVE  (Closes \/ NextRequest) /\ SeesThen
<1> DEFINE unread == \E t \in ToSet(cl.out \o c2s) : t[2] = srv.id
           s == [srv EXCEPT !.buf = <<>>, !.count = @ - 1, !.skewed = @ \/ unread]
<1>1. srv \in Server /\ srv.pc = "send" /\ srv.out = <<>> /\ UNCHANGED <<cl, c2s, cause>>
  BY DEF Types, SFinish
<1>2. Sees(srv, cl.id, cl.q, ToServer, Unread)
  BY DEF RequestSeen
<1>3. s.skewed = unread
  BY <1>1 DEF Server
<1>4. \/ (~srv.ok \/ srv.gone \/ srv.count = 1) /\ SClose(unread)
      \/ ~srv.gone /\ srv' = [s EXCEPT !.pc = "idle"] /\ UNCHANGED s2c
  <2> HIDE DEF unread
  <2> QED
    BY <1>3 DEF SFinish, unread
<1>5. srv'.skewed = unread
  <2> HIDE DEF unread
  <2>1. CASE SClose(unread)
    BY <2>1 DEF SClose, ClosedServer, NewServer
  <2>2. CASE srv' = [s EXCEPT !.pc = "idle"]
    BY <1>1, <1>3, <2>2 DEF Server
  <2> QED
    BY <1>4, <2>1, <2>2
<1>6. ~unread
  BY <1>5
<1>7. \A t \in ToSet(ToServer) : t[2] # srv.id
  <2>1. c2s \in Seq(Token) /\ cl.out \in Seq(Token)
    BY StreamsAre DEF Tokens
  <2>2. /\ ToSet(c2s \o cl.out) = ToSet(c2s) \cup ToSet(cl.out)
        /\ ToSet(cl.out \o c2s) = ToSet(cl.out) \cup ToSet(c2s)
    BY <2>1, ConcatSet
  <2> QED
    BY <1>6, <2>2 DEF ToServer
<1>8. srv.id = cl.id => ToServer = <<>> /\ c2s = <<>>
  <2> SUFFICES ASSUME srv.id = cl.id PROVE ToServer = <<>> /\ c2s = <<>>
    OBVIOUS
  <2>1. Ids(ToServer, cl.id)
    BY <1>1, <1>2 DEF Sees
  <2>2. ToServer = <<>>
    <3> SUFFICES ASSUME ToServer # <<>> PROVE FALSE
      OBVIOUS
    <3>1. Head(ToServer) \in ToSet(ToServer)
      BY StreamsAre, HeadSet DEF Tokens
    <3> QED
      BY <1>7, <2>1, <3>1 DEF Ids
  <2>3. c2s # <<>> => ToServer # <<>>
    BY StreamsAre, HeadOfConcat DEF ToServer, Tokens
  <2> QED
    BY <2>2, <2>3
<1>9. srv.id # cl.id => ToServer = RequestTokens(cl.id, cl.q)
  BY <1>1, <1>2, <1>7 DEF Sees
<1> HIDE DEF unread
<1>10. CASE SClose(unread) /\ (~srv.ok \/ srv.gone \/ srv.count = 1)
  <2>1. /\ srv'.pc = "closed" /\ srv'.out = <<>>
        /\ s2c' \in {s2c, <<>>} /\ (c2s = <<>> => s2c' = s2c)
    BY <1>10 DEF SClose, ClosedServer, NewServer
  <2>2. SeesThen
    BY <2>1, SeesNothing DEF SeesThen
  <2>3. Closes
    BY <1>1, <1>8, <1>10, <2>1 DEF Closes
  <2> QED
    BY <2>2, <2>3
<1>11. CASE srv' = [s EXCEPT !.pc = "idle"] /\ UNCHANGED s2c
  <2>1. srv'.pc = "idle" /\ srv'.buf = <<>> /\ srv'.out = <<>>
    BY <1>1, <1>11 DEF Server
  <2>2. ToServer' = ToServer
    BY <1>1 DEF ToServer
  <2>3. ToServer = <<>> \/ ToServer = RequestTokens(cl.id, cl.q)
    BY <1>8, <1>9
  <2>4. SeesThen
    BY <2>1, <2>2, <2>3, SeesNothing DEF SeesThen
  <2>5. Early' => Early
    BY <1>1, <1>8, <2>1, <2>2 DEF Early
  <2> QED
    BY <1>1, <1>11, <2>1, <2>4, <2>5 DEF NextRequest, Quietly
<1> QED
  BY <1>4, <1>10, <1>11

\* A step of the server, as the client and the request see it.
LEMMA ServerSteps ==
  ASSUME Types, Writing, RequestSeen, ~srv.skewed, ~srv'.skewed,
         ServerGoesOn \/ SRouteAtOnce \/ SThrows \/ SReadRefused \/ SSendFails \/ SSendCut
  PROVE  /\ Works \/ Answered \/ Continues \/ Sends \/ Drops \/ Closes \/ NextRequest
         /\ SeesThen
<1>1. CASE SLine
  BY <1>1, LineSeen
<1>2. CASE SHeaders
  BY <1>2, HeadersSeen
<1>3. CASE SExpect
  BY <1>3, ExpectSeen
<1>4. CASE SRoute
  BY <1>4, RouteSeen
<1>5. CASE SRouteAtOnce \/ SThrows \/ SDispatch
  <2>1. srv.pc \in Working /\ UNCHANGED <<cl, c2s, s2c, cause>>
    BY <1>5 DEF SRouteAtOnce, SThrows, SDispatch, Working
  <2>2. AnswersNow
    BY <1>5, ServerAnswers
  <2> QED
    BY <2>1, <2>2, AnswersNowBegins
<1>6. CASE SRead \/ SReadRefused \/ SReadEnded
  BY <1>6, ReadSeen DEF SRead, SReadRefused, SReadEnded
<1>7. CASE SNothing
  <2>1. CASE srv.pc = "read"
    BY <1>7, <2>1, ReadSeen
  <2>2. CASE srv.pc # "read"
    <3>1. srv.pc \in Working /\ UNCHANGED <<cl, c2s, s2c>> /\ cause' = TRUE
      BY <1>7, <2>2 DEF SNothing, Working
    <3>2. AnswersNow
      BY <1>7, <2>2, ServerAnswers DEF TimeIsOver
    <3> QED
      BY <3>1, <3>2, AnswersNowBegins
  <2> QED
    BY <2>1, <2>2
<1>8. CASE SSend \/ SSendFails \/ SSendCut
  BY <1>8, SendSeen
<1>9. CASE SFinish
  BY <1>9, FinishSeen
<1>10. CASE SIdleCloses
  <2>1. srv'.pc = "closed" /\ srv'.out = <<>> /\ s2c' = s2c /\ srv.pc = "idle" /\ cl' = cl
        /\ (cause => cause') /\ srv.out = <<>>
    BY <1>10 DEF SIdleCloses, SClose, ClosedServer, NewServer, Writing
  <2>2. SeesThen
    BY <2>1, SeesNothing DEF SeesThen
  <2> QED
    BY <2>1, <2>2 DEF Closes
<1> QED
  BY <1>1, <1>2, <1>3, <1>4, <1>5, <1>6, <1>7, <1>8, <1>9, <1>10 DEF ServerGoesOn

\* A step of the server keeps what it knows of the request.
LEMMA ServerRequest ==
  ASSUME Types, Writing, RequestSeen,
         ServerGoesOn \/ SRouteAtOnce \/ SThrows \/ SReadRefused \/ SSendFails \/ SSendCut
  PROVE  RequestSeen'
<1> SUFFICES ASSUME ~srv'.skewed PROVE RequestSeen'
  BY DEF RequestSeen
<1>1. ~srv.skewed
  BY StaysSkewed
<1>2. SeesThen /\ cl' = cl
  <2>1. SeesThen
    BY <1>1, ServerSteps
  <2>2. Works \/ Answered \/ Continues \/ Sends \/ Drops \/ Closes \/ NextRequest
    BY <1>1, ServerSteps
  <2> QED
    BY <2>1, <2>2 DEF Works, Answered, Continues, Sends, Drops, Closes, NextRequest,
                      Quietly, SameServer
<1> QED
  BY <1>2 DEF SeesThen, RequestSeen

-----------------------------------------------------------------------------
(* The answer that the client is waiting for.                              *)

\* The line that ends the wait of the client.
Final(t) == t[1] = "status" /\ t[3].status # 100
Stale(s) == \A t \in ToSet(s) : ~Final(t)

\* T is the rest of m, or the beginning of it when something may be lost.
Fits(T, m, lost) == \E rest \in Tokens : T \o rest = m /\ (~lost => rest = <<>>)

\* What remains of "100 Continue" and the empty line after it.
Handshake(J, pc) ==
  \/ J = <<>> /\ pc # "crlf"
  \/ J # <<>> /\ Tail(J) = <<>> /\ Head(J)[1] = "crlf" /\ pc = "crlf"
  \/ /\ J # <<>> /\ Head(J)[1] = "status" /\ pc # "crlf"
     /\ Tail(J) # <<>> /\ Tail(Tail(J)) = <<>> /\ Head(Tail(J))[1] = "crlf"

\* What may come before the answer.
Old(J, pc, lost) ==
  /\ Stale(J) /\ (J # <<>> => J[Len(J)][1] # "status") /\ (pc = "crlf" => J # <<>>)
  /\ ~lost => Handshake(J, pc)

\* The answer comes after J.  `last` says that the server will close after it.
Coming(J, T, c, last, lost) ==
  /\ J \in Tokens /\ Old(J, c.pc, lost)
  /\ \E p \in Answers : \E applied \in BOOLEAN : \E close \in BOOLEAN :
       /\ last => close
       /\ Fits(T, J \o ResponseTokens(c.id, c.q.method, p, applied, close), lost)

\* What the client c waits for, reads, or leaves behind, when T comes to it.
Awaits(T, c, last, lost) ==
  \/ lost /\ Stale(T)
  \/ Old(T, c.pc, lost)
  \/ \E J : Coming(J, T, c, last, lost)

Heading(T, c, last, lost) ==
  /\ c.line[2] = c.id /\ c.line[3] \in Answers
  /\ \E applied \in BOOLEAN : \E close \in BOOLEAN :
       /\ last => close
       /\ Fits(T, Tail(ResponseTokens(c.id, c.q.method, c.line[3], applied, close)), lost)

Fetches(T, r, content, lost) ==
  IF Ended(r) THEN (r.mode = "done" => r.got = content) /\ (~lost => T = <<>> /\ r.mode = "done")
  ELSE \E t \in Tokens : Fits(T, t, lost) /\ Reads(r, t, "done", content)

Whole(c) == Framed(c.head) /\ c.q.method # "HEAD"
Expected(c) == Content(c.id, c.line[3].chunks)

Reading(T, c, last, lost) ==
  /\ c.line[2] = c.id /\ c.head \in Heads /\ (last => c.head.close) /\ NoStatus(T)
  /\ IF Whole(c) THEN Fetches(T, c.rd, Expected(c), lost)
     ELSE lost \/ c.rd.mode = "close" \/ (c.rd.mode = "done" /\ T = <<>>)

Over(T, L, c, lost) ==
  /\ NoStatus(L) /\ (~lost => T = <<>>)
  /\ c.pc = "done" =>
       /\ ~lost => c.ok
       /\ c.ok => c.line[2] = c.id /\ (Whole(c) => c.rd.got = Expected(c))

View(T, L, c, last, lost) ==
  /\ c.pc \in Waiting => Awaits(T, c, last, lost)
  /\ c.pc = "headers" => Heading(T, c, last, lost)
  /\ c.pc = "body" => Reading(T, c, last, lost)
  /\ c.pc \in {"done", "idle"} => Over(T, L, c, lost)

EndsWithThis == srv.gone \/ srv.count = 1
LastAnswer == srv.pc = "send" /\ srv.id = cl.id /\ EndsWithThis

Unanswered ==
  /\ Early => NoStatus(ToClient) /\ cl.pc # "crlf" /\ (~cause => ToClient = <<>>)
  /\ New => cl.pc \in Waiting /\ Old(ToClient, cl.pc, cause)
Sound ==
  srv.pc = "send" /\ ~cause =>
    srv.ok /\ (srv.id # cl.id \/ cl.pc \in {"done", "idle"} => ~EndsWithThis)

AnswerSeen ==
  ~srv.skewed => Unanswered /\ View(ToClient, FromServer, cl, LastAnswer, cause) /\ Sound

\* The next token that comes is the next of what is expected.
LEMMA FitsStep ==
  ASSUME NEW T \in Tokens, T # <<>>, NEW m, NEW lost, Fits(T, m, lost)
  PROVE  m # <<>> /\ Head(m) = Head(T) /\ Fits(Tail(T), Tail(m), lost)
<1>1. PICK rest \in Tokens : T \o rest = m /\ (~lost => rest = <<>>)
  BY DEF Fits
<1>2. Head(T \o rest) = Head(T) /\ Tail(T \o rest) = Tail(T) \o rest /\ T \o rest # <<>>
  BY HeadOfConcat DEF Tokens
<1> QED
  BY <1>1, <1>2 DEF Fits

\* Less of it fits if something may be lost.
LEMMA FitsLess ==
  ASSUME NEW T \in Tokens, NEW U \in Tokens, NEW m, NEW lost, NEW less,
         Fits(T \o U, m, lost), ~less => ~lost /\ U = <<>>
  PROVE  Fits(T, m, less)
<1>1. PICK rest \in Tokens : (T \o U) \o rest = m /\ (~lost => rest = <<>>)
  BY DEF Fits
<1>2. ThreeAsOne(Token, T, U, rest)
  BY ConcatThree DEF Three, Tokens
<1>3. U \o rest \in Tokens /\ T \o (U \o rest) = m
  BY <1>1, <1>2 DEF ThreeAsOne, Tokens
<1>4. ~less => U \o rest = <<>>
  BY <1>1
<1> QED
  BY <1>3, <1>4 DEF Fits

\* What fits a message has only tokens of it.
LEMMA FitsSet ==
  ASSUME NEW T \in Tokens, NEW m, NEW lost, Fits(T, m, lost)
  PROVE  ToSet(T) \subseteq ToSet(m)
<1>1. PICK rest \in Tokens : T \o rest = m
  BY DEF Fits
<1>2. ToSet(T \o rest) = ToSet(T) \cup ToSet(rest)
  BY ConcatSet DEF Tokens
<1> QED
  BY <1>1, <1>2

\* All of it fits.
LEMMA FitsAll ==
  ASSUME NEW m \in Tokens, NEW lost
  PROVE  Fits(m, m, lost)
<1>1. m \o <<>> = m /\ <<>> \in Tokens
  BY ConcatEmptySeq DEF Tokens
<1> QED
  BY <1>1 DEF Fits

\* Nothing is an old remainder, unless an empty line has still to come.
LEMMA OldNothing ==
  ASSUME NEW pc, pc # "crlf", NEW lost
  PROVE  Old(<<>>, pc, lost)
BY DEF Old, Stale, Handshake, ToSet

\* What may come before the answer may do so too when something may be lost.
LEMMA OldWeaker ==
  ASSUME NEW J, NEW pc, NEW lost, NEW less, Old(J, pc, lost), ~less => ~lost
  PROVE  Old(J, pc, less)
BY DEF Old

\* No status line is old when the empty line after it is not due.
LEMMA OldNoStatus ==
  ASSUME NEW J \in Tokens, NEW pc, pc # "crlf", NEW lost, NoStatus(J), lost \/ J = <<>>
  PROVE  Old(J, pc, lost)
<1>1. J # <<>> => J[Len(J)] \in ToSet(J)
  <2>1. J # <<>> => Len(J) \in DOMAIN J
    BY EmptySeq, LenProperties DEF Tokens
  <2> QED
    BY <2>1 DEF ToSet
<1>2. Stale(J)
  BY DEF Stale, Final, NoStatus
<1> QED
  BY <1>1, <1>2 DEF Old, Handshake, NoStatus

\* The client takes a token of what is old.
LEMMA OldStep ==
  ASSUME NEW J \in Tokens, J # <<>>, NEW pc, NEW lost, Old(J, pc, lost)
  PROVE  /\ ~Final(Head(J)) /\ Stale(Tail(J))
         /\ pc = "line" /\ Head(J)[1] = "status" => Old(Tail(J), "crlf", lost)
         /\ pc = "crlf" => Old(Tail(J), "line", lost)
         /\ pc = "line" /\ ~lost => Head(J)[1] = "status"
<1>1. /\ Head(J) = J[1] /\ Tail(J) \in Tokens /\ Len(Tail(J)) = Len(J) - 1
      /\ \A i \in 1 .. Len(Tail(J)) : Tail(J)[i] = J[i + 1]
  BY HeadTailProperties DEF Tokens
<1>2. ToSet(J) = {Head(J)} \cup ToSet(Tail(J))
  BY HeadSet DEF Tokens
<1>3. ~Final(Head(J)) /\ Stale(Tail(J))
  BY <1>2 DEF Old, Stale
<1>4. Tail(J) # <<>> => Tail(J)[Len(Tail(J))] = J[Len(J)]
  <2> SUFFICES ASSUME Tail(J) # <<>> PROVE Tail(J)[Len(Tail(J))] = J[Len(J)]
    OBVIOUS
  <2> DEFINE n == Len(Tail(J))
  <2>1. n \in Nat \ {0}
    BY <1>1, EmptySeq, LenProperties DEF Tokens
  <2>2. n \in 1 .. n /\ n + 1 = Len(J)
    BY <1>1, <2>1, LenProperties DEF Tokens
  <2> QED
    BY <1>1, <2>2
<1>5. Tail(J) = <<>> => J[Len(J)] = Head(J)
  <2>1. Tail(J) = <<>> => Len(J) = 1
    <3>1. Len(J) \in Nat /\ (Tail(J) = <<>> => Len(Tail(J)) = 0)
      BY <1>1, EmptySeq, LenProperties DEF Tokens
    <3> QED
      BY <1>1, <3>1
  <2> QED
    BY <1>1, <2>1
<1>6. pc = "line" /\ Head(J)[1] = "status" => Old(Tail(J), "crlf", lost)
  BY <1>3, <1>4, <1>5 DEF Old, Handshake
<1>7. pc = "crlf" => Old(Tail(J), "line", lost)
  BY <1>3, <1>4 DEF Old, Handshake
<1>8. pc = "line" /\ ~lost => Head(J)[1] = "status"
  BY DEF Old, Handshake
<1> QED
  BY <1>3, <1>6, <1>7, <1>8

\* The client c, that sees the stream T \o U, will see T and no more.
Narrows(T, U, L, M, c, last, final, lost, less) ==
  /\ T \in Tokens /\ U \in Tokens
  /\ View(T \o U, L, c, last, lost)
  /\ ToSet(M) \subseteq ToSet(L)
  /\ final => last
  /\ ~less => ~lost /\ U = <<>>

\* Less comes, or the server does not say after all that it will close: what the
\* client knows stays true.
LEMMA ViewLess ==
  ASSUME NEW T, NEW U, NEW L, NEW M, NEW c, NEW last, NEW final, NEW lost, NEW less,
         Narrows(T, U, L, M, c, last, final, lost, less)
  PROVE  View(T, M, c, final, less)
<1> USE DEF Narrows
<1>1. /\ ToSet(T) \subseteq ToSet(T \o U)
      /\ U = <<>> => T \o U = T
  BY ConcatSet, ConcatEmptySeq DEF Tokens
<1>2. ASSUME NEW m, Fits(T \o U, m, lost)
      PROVE  Fits(T, m, less)
  BY <1>2, FitsLess
<1>3. ASSUME Awaits(T \o U, c, last, lost)
      PROVE  Awaits(T, c, final, less)
  <2>1. CASE lost /\ Stale(T \o U)
    BY <1>1, <2>1 DEF Awaits, Stale
  <2>2. CASE Old(T \o U, c.pc, lost)
    BY <1>1, <2>2 DEF Awaits, Old, Stale
  <2>3. CASE \E J : Coming(J, T \o U, c, last, lost)
    <3>1. PICK J : Coming(J, T \o U, c, last, lost)
      BY <2>3
    <3>2. J \in Tokens /\ Old(J, c.pc, lost)
      BY <3>1 DEF Coming
    <3>3. Old(J, c.pc, less)
      BY <3>2, OldWeaker
    <3>4. PICK p \in Answers, applied \in BOOLEAN, close \in BOOLEAN :
            /\ last => close
            /\ Fits(T \o U, J \o ResponseTokens(c.id, c.q.method, p, applied, close), lost)
      BY <3>1, Zenon DEF Coming
    <3>5. Fits(T, J \o ResponseTokens(c.id, c.q.method, p, applied, close), less)
      BY <1>2, <3>4
    <3>6. Coming(J, T, c, final, less)
      BY <3>2, <3>3, <3>4, <3>5, Zenon DEF Coming
    <3> QED
      BY <3>6 DEF Awaits
  <2> QED
    BY <1>3, <2>1, <2>2, <2>3 DEF Awaits
<1>4. ASSUME Heading(T \o U, c, last, lost)
      PROVE  Heading(T, c, final, less)
  <2>1. PICK applied \in BOOLEAN, close \in BOOLEAN :
          /\ last => close
          /\ Fits(T \o U, Tail(ResponseTokens(c.id, c.q.method, c.line[3], applied, close)), lost)
    BY <1>4, Zenon DEF Heading
  <2>2. Fits(T, Tail(ResponseTokens(c.id, c.q.method, c.line[3], applied, close)), less)
    BY <1>2, <2>1
  <2> QED
    BY <1>4, <2>1, <2>2, Zenon DEF Heading
<1>5. ASSUME Reading(T \o U, c, last, lost)
      PROVE  Reading(T, c, final, less)
  <2>1. NoStatus(T)
    BY <1>1, <1>5 DEF Reading, NoStatus
  <2>2. ASSUME Whole(c), Ended(c.rd)
        PROVE  Fetches(T, c.rd, Expected(c), less)
    BY <1>1, <1>5, <2>2 DEF Reading, Fetches
  <2>3. ASSUME Whole(c), ~Ended(c.rd)
        PROVE  Fetches(T, c.rd, Expected(c), less)
    <3>1. PICK t \in Tokens : Fits(T \o U, t, lost) /\ Reads(c.rd, t, "done", Expected(c))
      BY <1>5, <2>3 DEF Reading, Fetches
    <3>2. Fits(T, t, less)
      BY <1>2, <3>1
    <3> QED
      BY <2>3, <3>1, <3>2 DEF Fetches
  <2> QED
    BY <1>1, <1>5, <2>1, <2>2, <2>3 DEF Reading
<1>6. ASSUME Over(T \o U, L, c, lost)
      PROVE  Over(T, M, c, less)
  BY <1>1, <1>6 DEF Over, NoStatus
<1> QED
  BY <1>3, <1>4, <1>5, <1>6, Zenon DEF View

\* The message m is the answer p to the client c.
AnswersClient(m, c, p, applied, close) ==
  /\ c \in Client /\ p \in Answers /\ applied \in BOOLEAN /\ close \in BOOLEAN
  /\ m = ResponseTokens(c.id, c.q.method, p, applied, close)
HasParts(m, c, p, h, body, close) ==
  /\ m \in Tokens /\ m # <<>> /\ Head(m) = <<"status", c.id, p>>
  /\ Tail(m) \in Tokens /\ Tail(m) # <<>> /\ Head(Tail(m)) = <<"headers", c.id, h>>
  /\ Tail(Tail(m)) = body
  /\ h \in Heads /\ h.close = close /\ body \in Tokens /\ NoStatus(body)

\* The parts of the answer to a request.
LEMMA AnswerParts ==
  ASSUME NEW m, NEW c, NEW p, NEW applied, NEW close, AnswersClient(m, c, p, applied, close)
  PROVE  HasParts(m, c, p, ResponseHead(p, applied, close),
                  ResponseBody(c.id, c.q.method, p), close)
<1>1. /\ c.id \in Nat /\ p \in Answers /\ applied \in BOOLEAN /\ close \in BOOLEAN
      /\ m = ResponseTokens(c.id, c.q.method, p, applied, close)
  BY LimitsAssumption DEF AnswersClient, Client
<1>2. LET n == ResponseTokens(c.id, c.q.method, p, applied, close)
             h == ResponseHead(p, applied, close)
         IN  /\ ResponseBody(c.id, c.q.method, p) \in Tokens
             /\ h \in Heads /\ h.close = close
             /\ n \in Tokens /\ n # <<>> /\ Head(n) = <<"status", c.id, p>>
             /\ Tail(n) \in Tokens /\ Tail(n) # <<>>
             /\ Head(Tail(n)) = <<"headers", c.id, h>>
             /\ Tail(Tail(n)) = ResponseBody(c.id, c.q.method, p)
             /\ NoStatus(Tail(n)) /\ NoStatus(ResponseBody(c.id, c.q.method, p))
  BY <1>1, ResponseIs
<1> QED
  BY <1>1, <1>2 DEF HasParts

\* The first token that comes while the client waits for a status line.
LEMMA LineComes ==
  ASSUME NEW T \in Tokens, T # <<>>, NEW c \in Client, NEW last, NEW lost,
         c.pc = "line", Awaits(T, c, last, lost)
  PROVE  /\ ~lost => Head(T)[1] = "status"
         /\ \A d : /\ d.pc = "crlf" /\ d.id = c.id /\ d.q = c.q
                   /\ Head(T)[1] = "status" /\ ~Final(Head(T))
                   => Awaits(Tail(T), d, last, lost)
         /\ \A d : /\ d.line = Head(T) /\ d.id = c.id /\ d.q = c.q /\ Final(Head(T))
                   => Heading(Tail(T), d, last, lost)
<1>1. CASE lost /\ Stale(T)
  <2>1. ToSet(T) = {Head(T)} \cup ToSet(Tail(T))
    BY HeadSet DEF Tokens
  <2> QED
    BY <1>1, <2>1 DEF Awaits, Stale
<1>2. CASE Old(T, "line", lost)
  BY <1>2, OldStep DEF Awaits
<1>3. CASE \E J : Coming(J, T, c, last, lost)
  <2>1. PICK J : Coming(J, T, c, last, lost)
    BY <1>3
  <2>2. J \in Tokens /\ Old(J, "line", lost)
    BY <2>1 DEF Coming
  <2>3. PICK p \in Answers, applied \in BOOLEAN, close \in BOOLEAN :
          /\ last => close
          /\ Fits(T, J \o ResponseTokens(c.id, c.q.method, p, applied, close), lost)
    BY <2>1, Zenon DEF Coming
  <2> DEFINE m == ResponseTokens(c.id, c.q.method, p, applied, close)
  <2>4. m = ResponseTokens(c.id, c.q.method, p, applied, close)
    OBVIOUS
  <2>5. Fits(T, J \o m, lost)
    BY <2>3
  <2>6. \A d : d.id = c.id /\ d.q = c.q => m = ResponseTokens(d.id, d.q.method, p, applied, close)
    OBVIOUS
  <2> HIDE DEF m
  <2>11. m \in Tokens /\ m # <<>> /\ Head(m) = <<"status", c.id, p>>
    <3>1. AnswersClient(m, c, p, applied, close)
      BY <2>4 DEF AnswersClient
    <3>2. HasParts(m, c, p, ResponseHead(p, applied, close),
                   ResponseBody(c.id, c.q.method, p), close)
      BY <3>1, AnswerParts
    <3> QED
      BY <3>2 DEF HasParts
  <2>7. Head(J \o m) = Head(T) /\ Fits(Tail(T), Tail(J \o m), lost)
    BY <2>5, FitsStep
  <2>8. p.status # 100
    BY DEF Answers
  <2>9. CASE J = <<>>
    <3>1. J \o m = m
      BY <2>11, <2>9, ConcatEmptySeq DEF Tokens
    <3>2. Head(T) = <<"status", c.id, p>> /\ Fits(Tail(T), Tail(m), lost)
      BY <2>11, <2>7, <3>1
    <3>3. Final(Head(T)) /\ Head(T)[1] = "status"
      BY <2>8, <3>2 DEF Final
    <3>4. ASSUME NEW d, d.line = Head(T), d.id = c.id, d.q = c.q
          PROVE  Heading(Tail(T), d, last, lost)
      <4>1. m = ResponseTokens(d.id, d.q.method, d.line[3], applied, close)
        BY <2>6, <3>2, <3>4
      <4>2. d.line[2] = d.id /\ d.line[3] \in Answers
        BY <3>2, <3>4
      <4> QED
        BY <2>3, <3>2, <4>1, <4>2, Zenon DEF Heading
    <3> QED
      BY <3>3, <3>4
  <2>10. CASE J # <<>>
    <3>1. Head(J \o m) = Head(J) /\ Tail(J \o m) = Tail(J) \o m
      BY <2>2, <2>11, <2>10, HeadOfConcat DEF Tokens
    <3>2. Head(T) = Head(J) /\ Fits(Tail(T), Tail(J) \o m, lost)
      BY <2>7, <3>1
    <3>3. /\ ~Final(Head(J))
          /\ Head(J)[1] = "status" => Old(Tail(J), "crlf", lost)
          /\ ~lost => Head(J)[1] = "status"
      BY <2>2, <2>10, OldStep
    <3>4. Tail(J) \in Tokens
      BY <2>2, <2>10, HeadTailProperties DEF Tokens
    <3>5. ASSUME NEW d, d.pc = "crlf", d.id = c.id, d.q = c.q, Head(T)[1] = "status"
          PROVE  Awaits(Tail(T), d, last, lost)
      <4>1. m = ResponseTokens(d.id, d.q.method, p, applied, close)
        BY <2>6, <3>5
      <4>2. Coming(Tail(J), Tail(T), d, last, lost)
        BY <2>3, <3>2, <3>3, <3>4, <3>5, <4>1, Zenon DEF Coming
      <4> QED
        BY <4>2 DEF Awaits
    <3> QED
      BY <3>2, <3>3, <3>5
  <2> QED
    BY <2>9, <2>10
<1> QED
  BY <1>1, <1>2, <1>3 DEF Awaits

\* Nothing fits nothing.
LEMMA FitsNothing ==
  ASSUME NEW T \in Tokens, NEW lost, Fits(T, <<>>, lost)
  PROVE  T = <<>>
BY FitsStep

\* The headers of the answer come.
LEMMA HeadersCome ==
  ASSUME NEW T \in Tokens, T # <<>>, NEW c \in Client, NEW last, NEW lost,
         Heading(T, c, last, lost)
  PROVE  /\ Head(T)[1] = "headers"
         /\ \A d : /\ d.id = c.id /\ d.q = c.q /\ d.line = c.line /\ d.head = Head(T)[3]
                   /\ d.rd = ClientReader(c.q.method, c.line[3], Head(T)[3])
                   => Reading(Tail(T), d, last, lost)
<1> DEFINE p == c.line[3]
<1>1. p \in Answers /\ c.line[2] = c.id /\ c.id \in Nat
  BY LimitsAssumption DEF Heading, Client
<1>2. PICK applied \in BOOLEAN, close \in BOOLEAN :
        /\ last => close
        /\ Fits(T, Tail(ResponseTokens(c.id, c.q.method, p, applied, close)), lost)
  BY Zenon DEF Heading
<1> DEFINE m == ResponseTokens(c.id, c.q.method, p, applied, close)
           h == ResponseHead(p, applied, close)
           body == ResponseBody(c.id, c.q.method, p)
           r == ClientReader(c.q.method, p, h)
           content == Content(c.id, p.chunks)
<1>3. HasParts(m, c, p, h, body, close)
  <2>1. AnswersClient(m, c, p, applied, close)
    BY <1>1 DEF AnswersClient
  <2> HIDE DEF m, p
  <2> QED
    BY <2>1, AnswerParts
<1>4. /\ Framed(h) /\ c.q.method # "HEAD" => Reads(r, body, "done", content)
      /\ ~(Framed(h) /\ c.q.method # "HEAD") =>
           r.mode = "close" \/ (r.mode = "done" /\ body = <<>>)
  <2> HIDE DEF p
  <2> DEFINE g == h
  <2>1. g = ResponseHead(p, applied, close)
    OBVIOUS
  <2> HIDE DEF g
  <2>2. /\ Framed(g) /\ c.q.method # "HEAD" =>
             Reads(ClientReader(c.q.method, p, g), ResponseBody(c.id, c.q.method, p), "done",
                   Content(c.id, p.chunks))
        /\ ~(Framed(g) /\ c.q.method # "HEAD") =>
             \/ ClientReader(c.q.method, p, g).mode = "close"
             \/ /\ c.q.method = "HEAD" /\ ClientReader(c.q.method, p, g).mode = "done"
                /\ ResponseBody(c.id, c.q.method, p) = <<>>
    BY <1>1, <2>1, ReadsResponse
  <2> QED
    BY <2>2 DEF g
<1>5. Fits(T, Tail(m), lost)
  BY <1>2
<1> HIDE DEF m, h, body
<1>6. Head(T) = <<"headers", c.id, h>> /\ Fits(Tail(T), body, lost)
  BY <1>3, <1>5, FitsStep DEF HasParts
<1>7. body \in Seq(Token) /\ Tail(T) \in Tokens /\ h.close = close /\ h \in Heads
  BY <1>3, HeadTailProperties DEF HasParts, Tokens
<1>8. NoStatus(Tail(T))
  <2>1. ToSet(Tail(T)) \subseteq ToSet(body)
    BY <1>6, <1>7, FitsSet
  <2> QED
    BY <1>3, <2>1 DEF HasParts, NoStatus
<1>9. body = <<>> => Tail(T) = <<>>
  BY <1>6, <1>7, FitsNothing
<1> HIDE DEF r, content
<1>10. Framed(h) /\ c.q.method # "HEAD" => Fetches(Tail(T), r, content, lost)
  <2> SUFFICES ASSUME Framed(h), c.q.method # "HEAD" PROVE Fetches(Tail(T), r, content, lost)
    OBVIOUS
  <2>1. Reads(r, body, "done", content)
    BY <1>4
  <2>2. /\ r.mode \in Complete => r.got = content
        /\ Ended(r) => body = <<>> /\ r.mode = "done"
    BY <1>7, <2>1, ReadsRight
  <2>3. CASE Ended(r)
    BY <1>9, <2>2, <2>3 DEF Fetches, Complete
  <2>4. CASE ~Ended(r)
    BY <1>6, <1>7, <2>1, <2>4 DEF Fetches, Tokens
  <2> QED
    BY <2>3, <2>4
<1>11. ASSUME NEW d, d.id = c.id, d.q = c.q, d.line = c.line, d.head = Head(T)[3],
              d.rd = ClientReader(c.q.method, c.line[3], Head(T)[3])
       PROVE  Reading(Tail(T), d, last, lost)
  <2>1. d.head = h /\ Expected(d) = content /\ d.line[2] = d.id
    BY <1>1, <1>6, <1>11 DEF Expected, content
  <2>2. d.rd = r
    BY <1>6, <1>11 DEF r
  <2>3. Whole(d) <=> Framed(h) /\ c.q.method # "HEAD"
    BY <1>11, <2>1 DEF Whole
  <2> QED
    BY <1>2, <1>4, <1>7, <1>8, <1>9, <1>10, <2>1, <2>2, <2>3 DEF Reading
<1> QED
  BY <1>6, <1>11

\* Another client that has come as far with the same answer.
SameAnswer(d, c) == d.id = c.id /\ d.q = c.q /\ d.line = c.line /\ d.head = c.head

\* A piece of the content comes.
LEMMA BodyComes ==
  ASSUME NEW T \in Tokens, T # <<>>, NEW c \in Client, NEW last, NEW lost,
         Reading(T, c, last, lost), ~Ended(c.rd),
         NEW d, SameAnswer(d, c), d.rd = Feed(c.rd, Head(T))
  PROVE  Reading(Tail(T), d, last, lost)
<1>1. /\ d.line[2] = d.id /\ d.head \in Heads /\ (last => d.head.close)
      /\ Expected(d) = Expected(c) /\ (Whole(d) <=> Whole(c))
  BY DEF Reading, SameAnswer, Expected, Whole
<1>2. NoStatus(Tail(T))
  <2>1. ToSet(T) = {Head(T)} \cup ToSet(Tail(T))
    BY HeadSet DEF Tokens
  <2> QED
    BY <2>1 DEF Reading, NoStatus
<1>3. CASE Whole(c)
  <2>1. PICK t \in Tokens : Fits(T, t, lost) /\ Reads(c.rd, t, "done", Expected(c))
    BY <1>3 DEF Reading, Fetches
  <2>2. t # <<>> /\ Head(t) = Head(T) /\ Fits(Tail(T), Tail(t), lost)
    BY <2>1, FitsStep
  <2>3. Reads(Feed(c.rd, Head(t)), Tail(t), "done", Expected(c))
    BY <2>1, <2>2, ReadStep DEF Tokens
  <2>4. Reads(d.rd, Tail(t), "done", Expected(d))
    BY <1>1, <2>2, <2>3
  <2>5. Tail(t) \in Seq(Token) /\ Tail(T) \in Tokens
    BY <2>2, HeadTailProperties DEF Tokens
  <2>6. /\ d.rd.mode \in Complete => d.rd.got = Expected(d)
        /\ Ended(d.rd) => Tail(t) = <<>> /\ d.rd.mode = "done"
    BY <2>4, <2>5, ReadsRight
  <2>7. Tail(t) = <<>> => Tail(T) = <<>>
    BY <2>2, <2>5, FitsNothing
  <2>8. Fetches(Tail(T), d.rd, Expected(d), lost)
    BY <2>2, <2>4, <2>5, <2>6, <2>7 DEF Fetches, Complete, Tokens
  <2> QED
    BY <1>1, <1>2, <1>3, <2>8 DEF Reading
<1>4. CASE ~Whole(c)
  <2>1. lost \/ c.rd.mode = "close"
    BY <1>4 DEF Reading, Ended
  <2>2. c.rd.mode = "close" => d.rd.mode = "close"
    BY DEF Feed, Deliver, Client, Reader
  <2> QED
    BY <1>1, <1>2, <1>4, <2>1, <2>2 DEF Reading
<1> QED
  BY <1>3, <1>4

\* No more of the content comes.
LEMMA BodyStops ==
  ASSUME NEW T \in Tokens, NEW c \in Client, NEW last, NEW lost,
         Reading(T, c, last, lost), ~Ended(c.rd),
         NEW d, SameAnswer(d, c), d.rd = FeedEnd(c.rd)
  PROVE  Reading(T, d, last, TRUE)
<1>1. /\ d.line[2] = d.id /\ d.head \in Heads /\ (last => d.head.close) /\ NoStatus(T)
      /\ Expected(d) = Expected(c) /\ (Whole(d) <=> Whole(c))
  BY DEF Reading, SameAnswer, Expected, Whole
<1>2. CASE Whole(c)
  <2>1. PICK t \in Tokens : Reads(c.rd, t, "done", Expected(c))
    BY <1>2 DEF Reading, Fetches
  <2>2. c.rd \in Reader
    BY DEF Client
  <2>3. c.rd.mode # "close" /\ (c.rd.mode \in Complete => c.rd.got = Expected(c))
    BY <2>1, <2>2, ReadsNotClose, ReadsRight DEF Tokens
  <2>4. /\ d.rd.got = c.rd.got /\ d.rd.mode \in {"done", "bad", "large"}
        /\ d.rd.mode = "done" => c.rd.mode = "trailer"
    BY <2>2, <2>3 DEF FeedEnd, Reader
  <2>5. Fetches(T, d.rd, Expected(d), TRUE)
    BY <1>1, <2>3, <2>4 DEF Fetches, Ended, Complete
  <2> QED
    BY <1>1, <1>2, <2>5 DEF Reading
<1>3. CASE ~Whole(c)
  BY <1>1, <1>3 DEF Reading
<1> QED
  BY <1>2, <1>3

\* What the client's step has to keep when the server's end stays as it is.
ClientKeeps ==
  /\ Early => NoStatus(ToClient') /\ cl'.pc # "crlf" /\ (~cause' => ToClient' = <<>>)
  /\ New => cl'.pc \in Waiting /\ Old(ToClient', cl'.pc, cause')
  /\ View(ToClient', FromServer', cl', LastAnswer, cause')
  /\ srv.pc = "send" /\ ~cause' /\ cl'.pc \in {"done", "idle"} => ~EndsWithThis

\* The client goes on without the server.
LEMMA ClientGoes ==
  ASSUME AnswerSeen, srv' = srv, cl'.id = cl.id, SClosed \/ ToServer' = ToServer,
         cause => cause', ~srv.skewed => ClientKeeps
  PROVE  AnswerSeen'
<1> SUFFICES ASSUME ~srv.skewed
             PROVE  /\ Unanswered' /\ Sound'
                    /\ View(ToClient', FromServer', cl', LastAnswer', cause')
  BY DEF AnswerSeen
<1>1. (Early' <=> Early) /\ (New' <=> New)
  BY DEF Early, New, SClosed
<1>2. Unanswered'
  BY <1>1 DEF ClientKeeps, Unanswered
<1>3. Sound'
  BY DEF ClientKeeps, AnswerSeen, Sound, EndsWithThis
<1>4. View(ToClient', FromServer', cl', LastAnswer, cause')
  BY DEF ClientKeeps
<1>5. LastAnswer' = LastAnswer
  BY DEF LastAnswer, EndsWithThis
<1> QED
  BY <1>2, <1>3, <1>4, <1>5, Zenon

\* Nothing is under way to a client whose connection is closed but what it has read.
LEMMA NothingComes ==
  ASSUME NEW s \in Tokens, NEW t \in Tokens, s \o t = <<>>
  PROVE  s = <<>> /\ t = <<>>
<1>1. s = <<>>
  BY HeadOfConcat DEF Tokens
<1> QED
  BY <1>1, ConcatEmptySeq DEF Tokens

\* The request is over and so is the connection.
LEMMA ClosedAnswer ==
  ASSUME srv'.pc = "closed", cl'.pc = "done",
         Over(ToClient', FromServer', cl', cause')
  PROVE  AnswerSeen'
BY DEF AnswerSeen, Unanswered, Early, New, View, Sound, Waiting

\* The client gives up.
LEMMA FailedAnswer ==
  ASSUME Types, CEnd(FALSE), cause' = TRUE
  PROVE  AnswerSeen'
<1>1. /\ srv'.pc = "closed" /\ srv'.out = <<>> /\ s2c' = <<>>
      /\ cl'.pc = "done" /\ cl'.ok = FALSE
  BY DEF CEnd, ClosedServer, NewServer, Types, Client
<1>2. FromServer' = <<>>
  <2>1. <<>> \o <<>> = <<>>
    BY StreamsAre, ConcatEmptySeq DEF Tokens
  <2> QED
    BY <1>1, <2>1 DEF FromServer
<1>3. NoStatus(FromServer')
  BY <1>2 DEF NoStatus, ToSet
<1> QED
  BY <1>1, <1>3, ClosedAnswer DEF Over

\* The client begins to wait or goes on, and takes nothing.
LEMMA WriteAnswer ==
  ASSUME Types, Writing, AnswerSeen, CWrite \/ CWritten \/ CResult
  PROVE  AnswerSeen'
<1>1. /\ srv' = srv /\ s2c' = s2c /\ cause' = cause
      /\ cl'.id = cl.id /\ cl'.q = cl.q /\ cl'.buf = cl.buf /\ cl'.rd = cl.rd
      /\ cl'.line = cl.line /\ cl'.head = cl.head /\ cl'.ok = cl.ok
      /\ \/ cl.pc \in {"write"} /\ cl'.pc \in {"write", "line"}
         \/ cl.pc = "done" /\ cl'.pc = "idle"
  BY DEF CWrite, CWritten, CResult, Types, Client
<1>2. SClosed \/ ToServer' = ToServer
  <2>1. CASE CWrite /\ ~SClosed
    <3>1. c2s \in Seq(Token) /\ cl.out \in Seq(Token)
      BY StreamsAre DEF Tokens
    <3>2. /\ cl.out # <<>> /\ c2s' = Append(c2s, Head(cl.out)) /\ cl'.out = Tail(cl.out)
      BY <2>1 DEF CWrite, Types, Client
    <3> QED
      BY <3>1, <3>2, MoveHead DEF ToServer
  <2>2. CASE CWritten \/ CResult
    BY <2>2 DEF CWritten, CResult, ToServer, Types, Client
  <2> QED
    BY <2>1, <2>2
<1>3. ToClient' = ToClient /\ FromServer' = FromServer
  BY <1>1 DEF ToClient, FromServer
<1>4. ASSUME ~srv.skewed, cl.pc = "write"
      PROVE  ClientKeeps
  <2>1. /\ Unanswered /\ Awaits(ToClient, cl, LastAnswer, cause)
    BY <1>4 DEF AnswerSeen, View, Waiting
  <2>2. ASSUME NEW J, NEW lost
        PROVE  Old(J, cl.pc, lost) => Old(J, cl'.pc, lost)
    BY <1>1, <1>4 DEF Old, Handshake
  <2>3. Awaits(ToClient, cl', LastAnswer, cause)
    <3>1. ASSUME NEW J, Coming(J, ToClient, cl, LastAnswer, cause)
          PROVE  Coming(J, ToClient, cl', LastAnswer, cause)
      BY <1>1, <2>2, <3>1, Zenon DEF Coming
    <3> QED
      BY <2>1, <2>2, <3>1, Zenon DEF Awaits
  <2>4. cl'.pc \in {"write", "line"}
    BY <1>1, <1>4
  <2> QED
    BY <1>1, <1>3, <2>1, <2>2, <2>3, <2>4 DEF ClientKeeps, Unanswered, View, Waiting
<1>5. ASSUME ~srv.skewed, cl.pc = "done"
      PROVE  ClientKeeps
  <2>1. Unanswered /\ Sound /\ Over(ToClient, FromServer, cl, cause)
    BY <1>5 DEF AnswerSeen, View
  <2>2. cl'.pc = "idle" /\ ~New /\ ~Early
    BY <1>1, <1>5, <2>1 DEF Unanswered, Waiting, New
  <2>3. Over(ToClient, FromServer, cl', cause)
    BY <2>1, <2>2 DEF Over
  <2> QED
    BY <1>1, <1>3, <1>5, <2>1, <2>2, <2>3 DEF ClientKeeps, View, Waiting, Sound
<1> QED
  BY <1>1, <1>2, <1>4, <1>5, ClientGoes

\* What a read leaves as it is.
LEMMA ClientTakesOne ==
  ASSUME Types, NEW c \in Client, CTake(c), Readable(cl.buf, s2c), c.out = cl.out
  PROVE  /\ ToClient \in Tokens /\ ToClient # <<>>
         /\ CTaken = Head(ToClient) /\ ToClient' = Tail(ToClient)
         /\ cl'.pc = c.pc /\ cl'.id = c.id /\ cl'.q = c.q /\ cl'.rd = c.rd
         /\ cl'.line = c.line /\ cl'.head = c.head
         /\ srv' = srv /\ cause' = cause /\ ToServer' = ToServer
<1>1. /\ ToClient # <<>> /\ CTaken = Head(ToClient) /\ ToClient' = Tail(ToClient)
      /\ cl' = [c EXCEPT !.buf = cl'.buf] /\ UNCHANGED <<srv, c2s, stopping, cause>>
  BY ClientTakes
<1>2. /\ cl'.pc = c.pc /\ cl'.id = c.id /\ cl'.q = c.q /\ cl'.rd = c.rd
      /\ cl'.line = c.line /\ cl'.head = c.head /\ cl'.out = c.out
  BY <1>1 DEF Client
<1> QED
  BY <1>1, <1>2, StreamsAre DEF ToServer

\* The client takes a status line.
LEMMA LineAnswer ==
  ASSUME Types, AnswerSeen, CLine
  PROVE  AnswerSeen'
<1> DEFINE next == IF CTaken[3].status = 100 THEN "crlf" ELSE "headers"
           c == [cl EXCEPT !.line = CTaken, !.pc = next]
<1>1. /\ cl \in Client /\ cl.pc = "line" /\ Readable(cl.buf, s2c) /\ CTaken[1] = "status"
      /\ CTake(c)
  BY DEF CLine, Types
<1>2. Takes(cl.buf, s2c, srv.out)
  BY <1>1, StreamsAre, TakenOfAll
<1>3. CTaken \in Token
  BY <1>2 DEF Takes, CTaken
<1> HIDE DEF next
<1>4. next \in {"crlf", "headers"}
  BY DEF next
<1>5. /\ c \in Client /\ c.pc = next /\ c.id = cl.id /\ c.q = cl.q /\ c.out = cl.out
      /\ c.line = CTaken
  BY <1>1, <1>3, <1>4 DEF Client
<1> HIDE DEF c
<1>6. /\ ToClient \in Tokens /\ ToClient # <<>>
      /\ CTaken = Head(ToClient) /\ ToClient' = Tail(ToClient)
      /\ cl'.pc = next /\ cl'.id = cl.id /\ cl'.q = cl.q /\ cl'.line = Head(ToClient)
      /\ srv' = srv /\ cause' = cause /\ ToServer' = ToServer
  BY <1>1, <1>5, ClientTakesOne
<1>7. Head(ToClient)[1] = "status" /\ Head(ToClient) \in ToSet(ToClient)
  BY <1>1, <1>6, HeadSet DEF Tokens
<1>8. ASSUME ~srv.skewed
      PROVE  ClientKeeps
  <2>1. Unanswered /\ Awaits(ToClient, cl, LastAnswer, cause)
    BY <1>1, <1>8 DEF AnswerSeen, View, Waiting
  <2>2. ~Early
    BY <1>7, <2>1 DEF Unanswered, NoStatus
  <2>3. New => ~Final(Head(ToClient)) /\ Old(Tail(ToClient), "crlf", cause)
    <3>1. New => Old(ToClient, "line", cause)
      BY <1>1, <2>1 DEF Unanswered
    <3> QED
      BY <1>6, <1>7, <3>1, OldStep
  <2>4. CASE ~Final(Head(ToClient))
    <3>1. next = "crlf"
      BY <1>6, <1>7, <2>4 DEF Final, next
    <3>2. Awaits(ToClient', cl', LastAnswer, cause')
      BY <1>1, <1>6, <1>7, <2>1, <2>4, <3>1, LineComes
    <3> QED
      BY <1>6, <2>2, <2>3, <3>1, <3>2 DEF ClientKeeps, View, Waiting
  <2>5. CASE Final(Head(ToClient))
    <3>1. next = "headers"
      BY <1>6, <2>5 DEF Final, next
    <3>2. Heading(ToClient', cl', LastAnswer, cause')
      BY <1>1, <1>6, <2>1, <2>5, LineComes
    <3> QED
      BY <1>6, <2>2, <2>3, <2>5, <3>1, <3>2 DEF ClientKeeps, View, Waiting
  <2> QED
    BY <2>4, <2>5
<1> QED
  BY <1>6, <1>8, ClientGoes

\* The client takes the empty line after "100 Continue".
LEMMA EmptyLineAnswer ==
  ASSUME Types, AnswerSeen, CSkipEmptyLine
  PROVE  AnswerSeen'
<1> DEFINE c == [cl EXCEPT !.pc = "line"]
<1>1. cl \in Client /\ cl.pc = "crlf" /\ Readable(cl.buf, s2c) /\ CTake(c)
  BY DEF CSkipEmptyLine, Types
<1>2. c \in Client /\ c.pc = "line" /\ c.id = cl.id /\ c.q = cl.q /\ c.out = cl.out
  BY <1>1 DEF Client
<1> HIDE DEF c
<1>3. /\ ToClient \in Tokens /\ ToClient # <<>> /\ ToClient' = Tail(ToClient)
      /\ cl'.pc = "line" /\ cl'.id = cl.id /\ cl'.q = cl.q
      /\ srv' = srv /\ cause' = cause /\ ToServer' = ToServer
  BY <1>1, <1>2, ClientTakesOne
<1>4. ASSUME ~srv.skewed
      PROVE  ClientKeeps
  <2>1. Unanswered /\ Awaits(ToClient, cl, LastAnswer, cause)
    BY <1>1, <1>4 DEF AnswerSeen, View, Waiting
  <2>2. ~Early
    BY <1>1, <2>1 DEF Unanswered
  <2>3. ASSUME NEW J \in Tokens, Old(J, "crlf", cause)
        PROVE  J # <<>> /\ Old(Tail(J), "line", cause) /\ Stale(Tail(J))
    <3>1. J # <<>>
      BY <2>3 DEF Old
    <3> QED
      BY <2>3, <3>1, OldStep
  <2>4. New => Old(ToClient', "line", cause)
    BY <1>1, <1>3, <2>1, <2>3 DEF Unanswered
  <2>5. CASE cause /\ Stale(ToClient)
    <3>1. ToSet(ToClient) = {Head(ToClient)} \cup ToSet(Tail(ToClient))
      BY <1>3, HeadSet DEF Tokens
    <3>2. Awaits(ToClient', cl', LastAnswer, cause)
      BY <1>3, <2>5, <3>1 DEF Awaits, Stale
    <3> QED
      BY <1>3, <2>2, <2>4, <3>2 DEF ClientKeeps, View, Waiting
  <2>6. CASE Old(ToClient, "crlf", cause)
    <3>1. Awaits(ToClient', cl', LastAnswer, cause)
      BY <1>3, <2>3, <2>6 DEF Awaits
    <3> QED
      BY <1>3, <2>2, <2>4, <3>1 DEF ClientKeeps, View, Waiting
  <2>7. CASE \E J : Coming(J, ToClient, cl, LastAnswer, cause)
    <3>1. PICK J : Coming(J, ToClient, cl, LastAnswer, cause)
      BY <2>7
    <3>2. J \in Tokens /\ J # <<>> /\ Old(Tail(J), "line", cause)
      BY <1>1, <2>3, <3>1 DEF Coming
    <3>3. Tail(J) \in Tokens
      BY <3>2, HeadTailProperties DEF Tokens
    <3>4. PICK p \in Answers, applied \in BOOLEAN, close \in BOOLEAN :
            /\ LastAnswer => close
            /\ Fits(ToClient, J \o ResponseTokens(cl.id, cl.q.method, p, applied, close), cause)
      BY <3>1, Zenon DEF Coming
    <3> DEFINE m == ResponseTokens(cl.id, cl.q.method, p, applied, close)
    <3>5. /\ m = ResponseTokens(cl'.id, cl'.q.method, p, applied, close)
          /\ Fits(ToClient, J \o m, cause)
      BY <1>3, <3>4
    <3>6. m \in Tokens
      <4>1. m = ResponseTokens(cl.id, cl.q.method, p, applied, close)
        OBVIOUS
      <4> HIDE DEF m
      <4>2. AnswersClient(m, cl, p, applied, close)
        BY <1>1, <4>1 DEF AnswersClient
      <4>3. HasParts(m, cl, p, ResponseHead(p, applied, close),
                     ResponseBody(cl.id, cl.q.method, p), close)
        BY <4>2, AnswerParts
      <4> QED
        BY <4>3 DEF HasParts
    <3> HIDE DEF m
    <3>7. Fits(ToClient', Tail(J) \o m, cause)
      <4>1. Tail(J \o m) = Tail(J) \o m
        BY <3>2, <3>6, HeadOfConcat DEF Tokens
      <4> QED
        BY <1>3, <3>5, <4>1, FitsStep
    <3>8. Coming(Tail(J), ToClient', cl', LastAnswer, cause)
      BY <1>3, <3>2, <3>3, <3>4, <3>5, <3>7, Zenon DEF Coming
    <3>9. Awaits(ToClient', cl', LastAnswer, cause)
      BY <3>8 DEF Awaits
    <3> QED
      BY <1>3, <2>2, <2>4, <3>9 DEF ClientKeeps, View, Waiting
  <2> QED
    BY <1>1, <2>1, <2>5, <2>6, <2>7 DEF Awaits
<1> QED
  BY <1>3, <1>4, ClientGoes

\* Who reads the answer knows that the server has begun it.
LEMMA ReadingIsAnswered ==
  ASSUME AnswerSeen, ~srv.skewed, cl.pc \notin Waiting
  PROVE  ~New /\ ~Early
BY DEF AnswerSeen, Unanswered, New

\* The client takes the headers.
LEMMA HeadersAnswer ==
  ASSUME Types, AnswerSeen, CHeaders
  PROVE  AnswerSeen'
<1> DEFINE h == IF CTaken[1] = "headers" THEN CTaken[3] ELSE Headers(NoLength, FALSE, FALSE)
           r == ClientReader(cl.q.method, cl.line[3], h)
           c == [cl EXCEPT !.head = h, !.pc = "body", !.rd = r]
<1>1. /\ cl \in Client /\ cl.pc = "headers" /\ Readable(cl.buf, s2c)
      /\ CTaken[1] \in {"headers", "crlf"}
  BY DEF CHeaders, Types
<1>2. CTake(c)
  BY DEF CHeaders, ClientReader
<1>3. Takes(cl.buf, s2c, srv.out)
  BY <1>1, StreamsAre, TakenOfAll
<1>4. CTaken \in Token
  BY <1>3 DEF Takes, CTaken
<1>5. h \in Heads
  BY <1>4, TokenIs DEF Headers, NoLength, Heads
<1> HIDE DEF h
<1>6. r \in Reader
  BY <1>5, ReadersAre DEF ClientReader
<1> HIDE DEF r
<1>7. /\ c \in Client /\ c.pc = "body" /\ c.id = cl.id /\ c.q = cl.q /\ c.out = cl.out
      /\ c.line = cl.line /\ c.head = h /\ c.rd = r
  BY <1>1, <1>5, <1>6 DEF Client
<1> HIDE DEF c
<1>8. /\ ToClient \in Tokens /\ ToClient # <<>>
      /\ CTaken = Head(ToClient) /\ ToClient' = Tail(ToClient)
      /\ cl'.pc = "body" /\ cl'.id = cl.id /\ cl'.q = cl.q /\ cl'.line = cl.line
      /\ cl'.head = h /\ cl'.rd = r
      /\ srv' = srv /\ cause' = cause /\ ToServer' = ToServer
  BY <1>1, <1>2, <1>7, ClientTakesOne
<1>9. ASSUME ~srv.skewed
      PROVE  ClientKeeps
  <2>1. Heading(ToClient, cl, LastAnswer, cause)
    BY <1>1, <1>9 DEF AnswerSeen, View
  <2>2. ~New /\ ~Early
    BY <1>1, <1>9, ReadingIsAnswered DEF Waiting
  <2>3. Head(ToClient)[1] = "headers"
    BY <1>1, <1>8, <2>1, HeadersCome
  <2>4. cl'.head = Head(ToClient)[3]
        /\ cl'.rd = ClientReader(cl.q.method, cl.line[3], Head(ToClient)[3])
    BY <1>8, <2>3 DEF h, r
  <2>5. Reading(ToClient', cl', LastAnswer, cause')
    BY <1>1, <1>8, <2>1, <2>4, HeadersCome
  <2> QED
    BY <1>8, <2>2, <2>5 DEF ClientKeeps, View, Waiting
<1> QED
  BY <1>8, <1>9, ClientGoes

\* The client takes a piece of the content, or no more of it comes.
LEMMA BodyAnswer ==
  ASSUME Types, AnswerSeen, cl.pc = "body", ~Ended(cl.rd), CBody \/ CNothing
  PROVE  AnswerSeen'
<1>1. cl \in Client /\ cl.rd \in Reader
  BY DEF Types, Client
<1>2. ~srv.skewed => Reading(ToClient, cl, LastAnswer, cause) /\ ~New /\ ~Early
  BY ReadingIsAnswered DEF AnswerSeen, View, Waiting
<1>3. CASE CBody
  <2> DEFINE c == [cl EXCEPT !.rd = Feed(cl.rd, CTaken)]
  <2>1. Readable(cl.buf, s2c) /\ CTake(c)
    BY <1>3 DEF CBody
  <2>2. Takes(cl.buf, s2c, srv.out)
    BY <2>1, StreamsAre, TakenOfAll
  <2>3. Feed(cl.rd, CTaken) \in Reader
    BY <1>1, <2>2, FeedType DEF Takes, CTaken
  <2>4. /\ c \in Client /\ c.pc = "body" /\ c.out = cl.out /\ SameAnswer(c, cl)
        /\ c.rd = Feed(cl.rd, CTaken)
    BY <1>1, <2>3 DEF Client, SameAnswer
  <2> HIDE DEF c
  <2>5. /\ ToClient \in Tokens /\ ToClient # <<>> /\ ToClient' = Tail(ToClient)
        /\ cl'.pc = "body" /\ SameAnswer(cl', cl) /\ cl'.rd = Feed(cl.rd, Head(ToClient))
        /\ srv' = srv /\ cause' = cause /\ ToServer' = ToServer
    BY <2>1, <2>4, ClientTakesOne DEF SameAnswer
  <2>6. ~srv.skewed => Reading(ToClient', cl', LastAnswer, cause')
    BY <1>1, <1>2, <2>5, BodyComes
  <2>7. ~srv.skewed => ClientKeeps
    BY <1>2, <2>5, <2>6 DEF ClientKeeps, View, Waiting
  <2> QED
    BY <2>5, <2>7, ClientGoes DEF SameAnswer
<1>4. CASE CNothing
  <2>1. /\ cl' = [cl EXCEPT !.rd = FeedEnd(@)] /\ UNCHANGED <<srv, c2s, s2c>>
        /\ cause' = TRUE
    BY <1>4 DEF CNothing
  <2>2. /\ cl'.pc = "body" /\ SameAnswer(cl', cl) /\ cl'.rd = FeedEnd(cl.rd)
        /\ cl'.buf = cl.buf /\ cl'.out = cl.out
    BY <1>1, <2>1 DEF Client, SameAnswer
  <2>3. ToClient' = ToClient /\ ToServer' = ToServer
    BY <2>1, <2>2 DEF ToClient, FromServer, ToServer
  <2>4. ~srv.skewed => Reading(ToClient', cl', LastAnswer, TRUE)
    BY <1>1, <1>2, <2>2, <2>3, StreamsAre, BodyStops
  <2>5. ~srv.skewed => ClientKeeps
    BY <1>2, <2>1, <2>2, <2>4 DEF ClientKeeps, View, Waiting
  <2> QED
    BY <2>1, <2>2, <2>3, <2>5, ClientGoes DEF SameAnswer
<1> QED
  BY <1>3, <1>4

\* What comes is what the client expects, unless something went wrong.
LEMMA GarbledAnswer ==
  ASSUME Types, AnswerSeen, CGarbled
  PROVE  AnswerSeen'
<1>1. /\ cl \in Client /\ Readable(cl.buf, s2c) /\ CEnd(FALSE) /\ cause' = cause
      /\ \/ cl.pc = "line" /\ CTaken[1] # "status"
         \/ cl.pc = "headers" /\ CTaken[1] \notin {"headers", "crlf"}
  BY DEF CGarbled, Types
<1>2. CASE srv.skewed
  BY <1>1, <1>2 DEF CEnd, ClosedServer, NewServer, AnswerSeen
<1>3. CASE ~srv.skewed
  <2>1. Takes(cl.buf, s2c, srv.out)
    BY <1>1, StreamsAre, TakenOfAll
  <2>2. ToClient # <<>> /\ CTaken = Head(ToClient) /\ ToClient \in Tokens
    <3>1. ToClient # <<>> /\ CTaken = Head(ToClient)
      BY <2>1, Zenon DEF Takes, CTaken, ToClient, FromServer
    <3> QED
      BY <3>1, StreamsAre
  <2>3. cause
    <3>1. CASE cl.pc = "line"
      <4>1. Awaits(ToClient, cl, LastAnswer, cause)
        BY <1>3, <3>1 DEF AnswerSeen, View, Waiting
      <4> QED
        BY <1>1, <2>2, <3>1, <4>1, LineComes
    <3>2. CASE cl.pc = "headers"
      <4>1. Heading(ToClient, cl, LastAnswer, cause)
        BY <1>3, <3>2 DEF AnswerSeen, View
      <4> QED
        BY <1>1, <2>2, <3>2, <4>1, HeadersCome
    <3> QED
      BY <1>1, <3>1, <3>2
  <2>4. cause' = TRUE
    BY <1>1, <2>3 DEF Types
  <2> QED
    BY <1>1, <2>4, FailedAnswer
<1> QED
  BY <1>2, <1>3

\* The content is complete, or the client gives up.
LEMMA BodyEndedAnswer ==
  ASSUME Types, AnswerSeen, CBodyEnded
  PROVE  AnswerSeen'
<1> DEFINE ok == cl.rd.mode = "done"
<1>1. /\ cl \in Client /\ cl.pc = "body" /\ Ended(cl.rd) /\ CEnd(ok) /\ cause' = cause
  BY DEF CBodyEnded, Types
<1> HIDE DEF ok
<1>2. /\ cl'.pc = "done" /\ cl'.ok = ok /\ SameAnswer(cl', cl) /\ cl'.rd = cl.rd
      /\ cl'.buf = cl.buf /\ cl'.out = cl.out
  BY <1>1 DEF CEnd, Client, SameAnswer
<1>3. /\ cl.buf \in Tokens /\ FromServer \in Tokens /\ s2c \in Tokens /\ srv.out \in Tokens
  BY StreamsAre
<1>4. CASE srv.skewed
  <2>1. srv'.skewed
    BY <1>1, <1>4 DEF CEnd, ClosedServer, NewServer
  <2> QED
    BY <2>1 DEF AnswerSeen
<1>5. CASE ~srv.skewed
  <2>1. Reading(ToClient, cl, LastAnswer, cause) /\ Sound /\ Unanswered
    BY <1>1, <1>5 DEF AnswerSeen, View
  <2>2. ~New /\ ~Early
    BY <1>1, <1>5, ReadingIsAnswered DEF Waiting
  <2>3. ~cause => ok /\ ToClient = <<>>
    BY <1>1, <2>1 DEF Reading, Fetches, ok, Ended
  <2>4. ok => cl'.line[2] = cl'.id /\ (Whole(cl') => cl'.rd.got = Expected(cl'))
    <3>1. cl.line[2] = cl.id
      BY <2>1 DEF Reading
    <3>2. ok /\ Whole(cl) => cl.rd.got = Expected(cl)
      BY <1>1, <2>1 DEF Reading, Fetches, ok
    <3>3. (Whole(cl') <=> Whole(cl)) /\ Expected(cl') = Expected(cl)
      BY <1>2 DEF SameAnswer, Whole, Expected
    <3> QED
      BY <1>2, <3>1, <3>2, <3>3 DEF SameAnswer
  <2>5. NoStatus(FromServer)
    <3>1. ToSet(ToClient) = ToSet(cl.buf) \cup ToSet(FromServer)
      BY <1>3, ConcatSet DEF ToClient, Tokens
    <3> QED
      BY <2>1, <3>1 DEF Reading, NoStatus
  <2>6. CASE ~ok \/ cl.q.close \/ (cl.head # <<>> /\ cl.head.close)
    <3>1. srv' = ClosedServer(srv.skewed) /\ s2c' = <<>>
      BY <1>1, <2>6 DEF CEnd
    <3>2. srv'.pc = "closed" /\ srv'.out = <<>>
      BY <3>1 DEF ClosedServer, NewServer
    <3>3. FromServer' = <<>>
      <4>1. <<>> \o <<>> = <<>>
        BY StreamsAre, ConcatEmptySeq DEF Tokens
      <4> QED
        BY <3>1, <3>2, <4>1 DEF FromServer
    <3>4. ToClient' = cl.buf
      BY <1>2, <1>3, <3>3, ConcatEmptySeq DEF ToClient, Tokens
    <3>5. ~cause => ToClient' = <<>>
      BY <1>3, <2>3, <3>4, NothingComes DEF ToClient
    <3>6. NoStatus(FromServer')
      BY <3>3 DEF NoStatus, ToSet
    <3>7. Over(ToClient', FromServer', cl', cause')
      BY <1>1, <1>2, <2>3, <2>4, <3>5, <3>6 DEF Over
    <3> QED
      BY <1>2, <3>2, <3>7, ClosedAnswer
  <2>7. CASE ok /\ ~cl.q.close /\ ~(cl.head # <<>> /\ cl.head.close)
    <3>1. UNCHANGED <<srv, c2s, s2c>>
      BY <1>1, <2>7 DEF CEnd
    <3>2. /\ ToClient' = ToClient /\ FromServer' = FromServer /\ ToServer' = ToServer
      BY <1>2, <3>1 DEF ToClient, FromServer, ToServer
    <3>3. ~LastAnswer
      BY <2>1, <2>7 DEF Reading, Heads
    <3>4. srv.pc = "send" => ~EndsWithThis
      BY <2>2, <3>3 DEF LastAnswer, Early
    <3>5. Over(ToClient', FromServer', cl', cause')
      BY <1>1, <1>2, <2>3, <2>4, <2>5, <3>2 DEF Over
    <3>6. ClientKeeps
      BY <1>2, <2>2, <3>4, <3>5 DEF ClientKeeps, View, Waiting
    <3> QED
      BY <1>1, <1>2, <3>1, <3>2, <3>6, ClientGoes DEF SameAnswer
  <2> QED
    BY <2>6, <2>7
<1> QED
  BY <1>4, <1>5

\* The client makes a request.
LEMMA SendAnswer ==
  ASSUME Types, Writing, AnswerSeen, CSend
  PROVE  AnswerSeen'
<1>1. PICK q \in Requests :
        cl' = [cl EXCEPT !.pc = "write", !.id = @ + 1, !.q = q, !.buf = <<>>,
                         !.rd = NoReader, !.line = <<>>, !.head = <<>>, !.ok = FALSE,
                         !.out = RequestTokens(cl.id + 1, q)]
  BY DEF CSend
<1>2. cl'.pc = "write" /\ cl'.id = cl.id + 1 /\ cl'.buf = <<>>
  BY <1>1 DEF Types, Client
<1>3. cl.pc = "idle" /\ cl.id \in Nat /\ s2c' = s2c
  BY StreamsAre DEF CSend
<1>4. <<>> \in Tokens /\ <<>> \o <<>> = <<>>
  BY ConcatEmptySeq DEF Tokens
<1>5. ASSUME ToClient' = <<>>
      PROVE  View(ToClient', FromServer', cl', LastAnswer', cause')
  <2>1. Old(<<>>, cl'.pc, cause')
    BY <1>2, OldNothing
  <2>2. Awaits(ToClient', cl', LastAnswer', cause')
    BY <1>5, <2>1 DEF Awaits
  <2> QED
    BY <1>2, <2>2 DEF View
<1>6. CASE SClosed /\ s2c = <<>>
  <2>1. srv' = NewServer /\ cause' = FALSE
    BY <1>6 DEF CSend
  <2>2. srv'.pc = "idle" /\ srv'.out = <<>>
    BY <2>1 DEF NewServer
  <2>3. ToClient' = <<>>
    BY <1>2, <1>3, <1>4, <1>6, <2>2 DEF ToClient, FromServer
  <2>4. Old(<<>>, cl'.pc, cause') /\ NoStatus(<<>>)
    BY <1>2, OldNothing DEF NoStatus, ToSet
  <2>5. Unanswered' /\ Sound'
    BY <1>2, <2>2, <2>3, <2>4 DEF Unanswered, Sound, Waiting
  <2> QED
    BY <1>5, <2>3, <2>5 DEF AnswerSeen
<1>7. CASE ~(SClosed /\ s2c = <<>>)
  <2>1. srv' = srv /\ cause' = cause
    BY <1>7 DEF CSend
  <2> SUFFICES ASSUME ~srv.skewed PROVE AnswerSeen'
    BY <2>1 DEF AnswerSeen
  <2>2. /\ Over(ToClient, FromServer, cl, cause) /\ Sound /\ Unanswered
    BY <1>3 DEF AnswerSeen, View
  <2>3. ~New /\ ~Early
    BY <1>3, ReadingIsAnswered DEF Waiting
  <2>4. ToClient' = FromServer /\ FromServer \in Tokens
    <3>1. FromServer' = FromServer
      BY <1>3, <2>1 DEF FromServer
    <3> QED
      BY <1>2, <3>1, StreamsAre, ConcatEmptySeq DEF ToClient, Tokens
  <2>5. NoStatus(ToClient') /\ (~cause => ToClient' = <<>>)
    <3>1. ToClient = <<>> => FromServer = <<>>
      BY StreamsAre, NothingComes DEF ToClient
    <3> QED
      BY <2>2, <2>4, <3>1 DEF Over
  <2>6. Old(ToClient', cl'.pc, cause')
    BY <1>2, <2>1, <2>4, <2>5, OldNoStatus
  <2>7. Awaits(ToClient', cl', LastAnswer', cause')
    BY <2>6 DEF Awaits
  <2>8. Unanswered'
    BY <1>2, <2>1, <2>5, <2>6 DEF Unanswered, Waiting
  <2>9. Sound'
    BY <1>3, <2>1, <2>2 DEF Sound, EndsWithThis
  <2> QED
    BY <1>2, <2>7, <2>8, <2>9 DEF AnswerSeen, View
<1> QED
  BY <1>6, <1>7

\* A step of the client keeps what it knows of the answer.
LEMMA ClientAnswer ==
  ASSUME Types, Writing, AnswerSeen, CSend \/ ClientGoesOn \/ CProviderFails \/ CCancels
  PROVE  AnswerSeen'
<1>1. CASE CNothing
  <2>1. CASE cl.pc = "body" /\ ~Ended(cl.rd)
    BY <1>1, <2>1, BodyAnswer
  <2>2. CASE CEnd(FALSE)
    BY <1>1, <2>2, FailedAnswer DEF CNothing
  <2> QED
    BY <1>1, <2>1, <2>2 DEF CNothing
<1>2. CASE CWriteFails \/ CProviderFails \/ CCancels
  BY <1>2, FailedAnswer DEF CWriteFails, CProviderFails, CCancels
<1>3. CASE CBody
  BY <1>3, BodyAnswer DEF CBody
<1> QED
  BY <1>1, <1>2, <1>3, SendAnswer, WriteAnswer, LineAnswer, EmptyLineAnswer, HeadersAnswer,
     GarbledAnswer, BodyEndedAnswer DEF ClientGoesOn

\* What the client knows, after a step of the server.
AnswerKept == Unanswered' /\ View(ToClient', FromServer', cl', LastAnswer', cause')

\* The server does nothing that the client could see.
LEMMA QuietAnswer ==
  ASSUME Types, AnswerSeen, ~srv.skewed, cl' = cl, ToClient' = ToClient,
         FromServer' = FromServer, cause => cause', Early' => Early, New' => New,
         LastAnswer' => LastAnswer
  PROVE  AnswerKept
<1>1. Unanswered /\ View(ToClient, FromServer, cl, LastAnswer, cause)
  BY DEF AnswerSeen
<1>2. ToClient \in Tokens /\ <<>> \in Tokens /\ ToClient \o <<>> = ToClient
  BY StreamsAre, ConcatEmptySeq DEF Tokens
<1>3. View(ToClient \o <<>>, FromServer, cl, LastAnswer, cause)
  BY <1>1, <1>2
<1>4. ~cause' => ~cause /\ <<>> = <<>>
  OBVIOUS
<1> DEFINE none == <<>>
           final == LastAnswer'
           less == cause'
<1>5. View(ToClient, FromServer, cl, final, less)
  <2>1. Narrows(ToClient, none, FromServer, FromServer, cl, LastAnswer, final, cause, less)
    BY <1>2, <1>3, <1>4 DEF Narrows
  <2> HIDE DEF none, final, less
  <2> QED
    BY <2>1, ViewLess
<1>6. New' => cl'.pc \in Waiting /\ Old(ToClient', cl'.pc, cause')
  BY <1>1, OldWeaker DEF Unanswered
<1>7. Unanswered'
  BY <1>1, <1>6 DEF Unanswered
<1> QED
  BY <1>5, <1>7 DEF AnswerKept

\* The rest of the answer is lost.
LEMMA LostAnswer ==
  ASSUME Types, AnswerSeen, ~srv.skewed, cl' = cl, cause' = TRUE,
         NEW U \in Tokens, ToClient = ToClient' \o U, ToClient' \in Tokens,
         ToSet(FromServer') \subseteq ToSet(FromServer), Early' => Early, New' => Early',
         LastAnswer' => LastAnswer
  PROVE  AnswerKept
<1>1. Unanswered /\ View(ToClient, FromServer, cl, LastAnswer, cause)
  BY DEF AnswerSeen
<1>2. View(ToClient' \o U, FromServer, cl, LastAnswer, cause)
  BY <1>1
<1> DEFINE final == LastAnswer'
           T == ToClient'
           M == FromServer'
           yes == TRUE
<1>3. View(T, M, cl, final, yes)
  <2>1. Narrows(T, U, FromServer, M, cl, LastAnswer, final, cause, yes)
    BY <1>2 DEF Narrows
  <2> HIDE DEF T, M, final, yes
  <2> QED
    BY <2>1, ViewLess
<1>4. ToSet(ToClient) = ToSet(ToClient') \cup ToSet(U)
  BY ConcatSet DEF Tokens
<1>5. Early' => /\ NoStatus(ToClient') /\ cl'.pc # "crlf" /\ cl'.pc \in Waiting
  BY <1>1, <1>4 DEF Unanswered, NoStatus, New
<1>6. Early' => Old(ToClient', cl'.pc, TRUE)
  BY <1>5, OldNoStatus
<1>7. Unanswered'
  BY <1>5, <1>6 DEF Unanswered
<1> QED
  BY <1>3, <1>7 DEF AnswerKept

\* What the server appends to its output comes after all that is under way.
LEMMA Appended ==
  ASSUME Types, cl' = cl, s2c' = s2c, NEW m \in Tokens, srv'.out = srv.out \o m
  PROVE  ToClient' = ToClient \o m
<1> DEFINE b == cl.buf
           s == s2c
           o == srv.out
<1>1. b \in Tokens /\ s \in Tokens /\ o \in Tokens
  BY StreamsAre
<1>2. ToClient = b \o (s \o o) /\ ToClient' = b \o (s \o (o \o m))
  BY DEF ToClient, FromServer
<1> HIDE DEF b, s, o
<1>3. s \o o \in Tokens
  BY <1>1, ConcatProperties DEF Tokens
<1> DEFINE x == s \o o
<1>4. ThreeAsOne(Token, s, o, m)
  BY <1>1, ConcatThree DEF Three, Tokens
<1>5. x \o m = s \o (o \o m) /\ x \in Tokens
  BY <1>3, <1>4 DEF ThreeAsOne
<1>6. ToClient = b \o x /\ ToClient' = b \o (x \o m)
  BY <1>2, <1>5
<1> HIDE DEF x
<1>7. ThreeAsOne(Token, b, x, m)
  BY <1>1, <1>5, ConcatThree DEF Three, Tokens
<1> QED
  BY <1>6, <1>7 DEF ThreeAsOne

\* The server begins the answer.
LEMMA BeginAnswer ==
  ASSUME Types, RequestSeen, AnswerSeen, ~srv.skewed, Answered
  PROVE  AnswerKept /\ Sound'
<1>1. Sees(srv, cl.id, cl.q, ToServer, Unread) /\ srv.pc \in Working /\ Quietly
  BY DEF RequestSeen, Answered
<1>2. srv.id = cl.id /\ srv.q = cl.q /\ New
  BY <1>1 DEF Sees, Working, New, Early
<1>3. /\ srv'.pc = "send" /\ srv'.ok = TRUE /\ srv'.id = srv.id
      /\ cl' = cl /\ s2c' = s2c /\ (cause => cause')
  BY DEF Answered, Begins, Quietly
<1>4. PICK p \in Answers, applied \in BOOLEAN, close \in BOOLEAN :
        /\ srv'.gone \/ srv'.count = 1 => close
        /\ srv'.out = srv.out \o ResponseTokens(srv.id, srv.q.method, p, applied, close)
  BY Zenon DEF Answered, Begins
<1> DEFINE m == ResponseTokens(cl.id, cl.q.method, p, applied, close)
<1>5. m = ResponseTokens(cl'.id, cl'.q.method, p, applied, close) /\ srv'.out = srv.out \o m
  BY <1>2, <1>3, <1>4
<1>6. m \in Tokens
  <2>1. m = ResponseTokens(cl.id, cl.q.method, p, applied, close)
    OBVIOUS
  <2> HIDE DEF m
  <2>2. AnswersClient(m, cl, p, applied, close)
    BY <2>1 DEF AnswersClient, Types
  <2>3. HasParts(m, cl, p, ResponseHead(p, applied, close),
                 ResponseBody(cl.id, cl.q.method, p), close)
    BY <2>2, AnswerParts
  <2> QED
    BY <2>3 DEF HasParts
<1> HIDE DEF m
<1>7. ToClient' = ToClient \o m
  BY <1>3, <1>5, <1>6, Appended
<1>8. cl.pc \in Waiting /\ Old(ToClient, cl.pc, cause) /\ ToClient \in Tokens
  BY <1>2, StreamsAre DEF AnswerSeen, Unanswered
<1>9. Old(ToClient, cl'.pc, cause')
  BY <1>3, <1>8, OldWeaker
<1>10. Fits(ToClient', ToClient \o m, cause')
  <2>1. ToClient \o m \in Tokens
    BY <1>6, <1>8, ConcatProperties DEF Tokens
  <2> QED
    BY <1>7, <2>1, FitsAll
<1>11. LastAnswer' => close
  BY <1>4 DEF LastAnswer, EndsWithThis
<1>12. Coming(ToClient, ToClient', cl', LastAnswer', cause')
  BY <1>4, <1>5, <1>8, <1>9, <1>10, <1>11, Zenon DEF Coming
<1>13. Awaits(ToClient', cl', LastAnswer', cause')
  BY <1>12 DEF Awaits
<1>14. View(ToClient', FromServer', cl', LastAnswer', cause')
  BY <1>3, <1>8, <1>13 DEF View, Waiting
<1>15. ~Early' /\ ~New'
  BY <1>2, <1>3 DEF Early, New
<1>16. Unanswered' /\ Sound'
  BY <1>2, <1>3, <1>8, <1>15 DEF Unanswered, Sound, Waiting
<1> QED
  BY <1>14, <1>16 DEF AnswerKept

\* The server lets the client go on.
LEMMA ContinueAnswer ==
  ASSUME Types, AnswerSeen, ~srv.skewed, Continues
  PROVE  AnswerKept /\ Sound'
<1> DEFINE g == GoOn(cl.id)
<1>1. /\ srv.pc = "expect" /\ srv.out = <<>> /\ srv'.pc = "route" /\ srv'.out = g
      /\ cl' = cl /\ s2c' = s2c /\ (cause => cause')
  BY DEF Continues, Quietly
<1>2. /\ g \in Seq(Token) /\ Len(g) = 2 /\ g # <<>> /\ Head(g)[1] = "status"
      /\ Tail(g) # <<>> /\ Tail(Tail(g)) = <<>> /\ Head(Tail(g))[1] = "crlf"
      /\ g[2][1] = "crlf" /\ Stale(g)
  <2> DEFINE a == <<"status", cl.id, Plain(100)>>
             b == <<"crlf", cl.id, 0>>
  <2>1. Plain(100) \in AnyReply /\ cl.id \in Nat
    BY StreamsAre, AnswersAre
  <2>2. a \in Token /\ b \in Token /\ ~Final(a) /\ ~Final(b) /\ a[1] = "status" /\ b[1] = "crlf"
    BY <2>1 DEF Token, Final, Plain
  <2>3. g = <<a, b>>
    BY DEF GoOn
  <2> HIDE DEF a, b, g
  <2>4. /\ g \in Seq(Token) /\ Len(g) = 2 /\ g # <<>> /\ Head(g) = a /\ Tail(g) = <<b>>
        /\ Tail(g) # <<>> /\ Tail(Tail(g)) = <<>> /\ Head(Tail(g)) = b
        /\ g[2] = b /\ ToSet(g) = {a, b}
    BY <2>2, <2>3 DEF ToSet
  <2> QED
    BY <2>2, <2>4 DEF Stale
<1> HIDE DEF g
<1>3. ToClient' = ToClient \o g /\ ToClient \in Seq(Token)
  <2>1. srv'.out = srv.out \o g
    BY <1>1, <1>2, ConcatEmptySeq
  <2> QED
    BY <1>1, <1>2, <2>1, StreamsAre, Appended DEF Tokens
<1>4. Early /\ New /\ Unanswered
  BY <1>1 DEF AnswerSeen, Early, New
<1>5. /\ NoStatus(ToClient) /\ cl.pc # "crlf" /\ (~cause => ToClient = <<>>)
      /\ cl.pc \in Waiting
  BY <1>4 DEF Unanswered
<1>6. Stale(ToClient')
  <2>1. ToSet(ToClient \o g) = ToSet(ToClient) \cup ToSet(g)
    BY <1>2, <1>3, ConcatSet
  <2> QED
    BY <1>2, <1>3, <1>5, <2>1 DEF Stale, NoStatus, Final
<1>7. ToClient'[Len(ToClient')][1] # "status"
  <2>1. /\ Len(ToClient \o g) = Len(ToClient) + Len(g)
        /\ \A i \in 1 .. Len(ToClient) + Len(g) :
             (ToClient \o g)[i] = IF i <= Len(ToClient) THEN ToClient[i] ELSE g[i - Len(ToClient)]
    BY <1>2, <1>3, ConcatProperties
  <2>2. Len(ToClient) \in Nat
    BY <1>3, LenProperties
  <2> DEFINE n == Len(ToClient)
  <2>3. n + 2 \in 1 .. n + Len(g) /\ ~(n + 2 <= n) /\ (n + 2) - n = 2 /\ n + Len(g) = n + 2
    BY <1>2, <2>2
  <2>4. (ToClient \o g)[n + 2] = g[2] /\ Len(ToClient \o g) = n + 2
    BY <2>1, <2>3
  <2> QED
    BY <1>2, <1>3, <2>4
<1>8. ~cause' => Handshake(ToClient', cl'.pc)
  <2>1. ~cause' => ToClient' = g
    BY <1>1, <1>2, <1>3, <1>5, ConcatEmptySeq
  <2> QED
    BY <1>1, <1>2, <1>5, <2>1 DEF Handshake
<1>9. Old(ToClient', cl'.pc, cause')
  BY <1>1, <1>5, <1>6, <1>7, <1>8 DEF Old
<1>10. Awaits(ToClient', cl', LastAnswer', cause')
  BY <1>9 DEF Awaits
<1>11. View(ToClient', FromServer', cl', LastAnswer', cause')
  BY <1>1, <1>5, <1>10 DEF View, Waiting
<1>12. Unanswered' /\ Sound'
  BY <1>1, <1>5, <1>9 DEF Unanswered, Sound, Early
<1> QED
  BY <1>11, <1>12 DEF AnswerKept

\* A step of the server.
LEMMA ServerAnswer ==
  ASSUME Types, Writing, RequestSeen, AnswerSeen,
         ServerGoesOn \/ SRouteAtOnce \/ SThrows \/ SReadRefused \/ SSendFails \/ SSendCut
  PROVE  AnswerSeen'
<1> SUFFICES ASSUME ~srv'.skewed PROVE AnswerKept /\ Sound'
  BY DEF AnswerSeen, AnswerKept
<1>1. ~srv.skewed
  BY StaysSkewed
<1>2. Works \/ Answered \/ Continues \/ Sends \/ Drops \/ Closes \/ NextRequest
  BY <1>1, ServerSteps
<1>3. Unanswered /\ Sound
  BY <1>1 DEF AnswerSeen
<1>4. CASE Works
  <2>1. ToClient' = ToClient /\ FromServer' = FromServer
    BY <1>4 DEF Works, Quietly, ToClient, FromServer
  <2>2. ~LastAnswer' /\ Sound'
    BY <1>4 DEF Works, Working, LastAnswer, Sound
  <2>3. AnswerKept
    BY <1>1, <1>4, <2>1, <2>2, QuietAnswer DEF Works, Quietly
  <2> QED
    BY <2>2, <2>3
<1>5. CASE Answered
  BY <1>1, <1>5, BeginAnswer
<1>6. CASE Continues
  BY <1>1, <1>6, ContinueAnswer
<1>7. CASE Sends
  <2>1. /\ srv.out # <<>> /\ cl' = cl /\ cause' = cause /\ c2s' = c2s
        /\ srv'.out = Tail(srv.out) /\ s2c' = Append(s2c, Head(srv.out))
        /\ srv'.pc = srv.pc /\ srv'.id = srv.id /\ srv'.gone = srv.gone
        /\ srv'.count = srv.count /\ srv'.ok = srv.ok
    BY <1>7 DEF Sends, SameServer
  <2>2. Append(s2c, Head(srv.out)) \o Tail(srv.out) = s2c \o srv.out
    BY <2>1, StreamsAre, MoveHead DEF Tokens
  <2>3. FromServer' = FromServer
    BY <2>1, <2>2 DEF FromServer
  <2>4. ToClient' = ToClient
    BY <2>1, <2>3 DEF ToClient
  <2>5. /\ (Early' <=> Early) /\ (New' <=> New) /\ (LastAnswer' <=> LastAnswer)
        /\ Sound'
    BY <1>3, <2>1 DEF Early, New, LastAnswer, EndsWithThis, ToServer, Sound
  <2>6. AnswerKept
    BY <1>1, <2>1, <2>3, <2>4, <2>5, QuietAnswer
  <2> QED
    BY <2>5, <2>6
<1>8. CASE Drops
  <2>1. /\ srv.pc = "send" /\ cl' = cl /\ cause' = TRUE /\ c2s' = c2s
        /\ srv'.out = <<>> /\ s2c' = s2c
        /\ srv'.pc = srv.pc /\ srv'.id = srv.id /\ srv'.gone = srv.gone
        /\ srv'.count = srv.count
    BY <1>8 DEF Drops, SameServer
  <2>2. cl.buf \in Tokens /\ s2c \in Tokens /\ srv.out \in Tokens
    BY StreamsAre
  <2>3. FromServer' = s2c
    BY <2>1, <2>2, ConcatEmptySeq DEF FromServer, Tokens
  <2>4. ToClient' = cl.buf \o s2c
    BY <2>1, <2>3 DEF ToClient
  <2>5. ThreeAsOne(Token, cl.buf, s2c, srv.out)
    BY <2>2, ConcatThree DEF Three, Tokens
  <2>6. ToClient' \in Tokens /\ ToClient = ToClient' \o srv.out
    BY <2>4, <2>5 DEF ThreeAsOne, ToClient, FromServer, Tokens
  <2>7. ToSet(FromServer') \subseteq ToSet(FromServer)
    BY <2>2, <2>3, ConcatSet DEF FromServer, Tokens
  <2>8. (Early' => Early) /\ (New' => Early') /\ (LastAnswer' => LastAnswer) /\ Sound'
    BY <2>1 DEF Early, New, LastAnswer, EndsWithThis, Sound
  <2>9. AnswerKept
    BY <1>1, <2>1, <2>2, <2>6, <2>7, <2>8, LostAnswer
  <2> QED
    BY <2>8, <2>9
<1>9. CASE Closes
  <2>1. /\ srv'.pc = "closed" /\ srv'.out = <<>> /\ cl' = cl /\ (cause => cause')
        /\ srv.out = <<>> /\ s2c' \in {s2c, <<>>}
    BY <1>9 DEF Closes
  <2>2. ~Early' /\ ~New' /\ ~LastAnswer' /\ Sound'
    BY <2>1 DEF Early, New, LastAnswer, Sound
  <2>3. CASE s2c' = s2c
    <3>1. ToClient' = ToClient /\ FromServer' = FromServer
      BY <2>1, <2>3 DEF ToClient, FromServer
    <3>2. AnswerKept
      BY <1>1, <2>1, <2>2, <3>1, QuietAnswer
    <3> QED
      BY <2>2, <3>2
  <2>4. CASE s2c' # s2c
    <3>1. cause
      BY <1>3, <1>9, <2>4 DEF Closes, Sound, EndsWithThis
    <3>2. cause' = TRUE /\ s2c' = <<>>
      <4>1. cause' \in BOOLEAN
        BY ServerTypes DEF Types
      <4> QED
        BY <2>1, <2>4, <3>1, <4>1
    <3>3. <<>> \o <<>> = <<>> /\ cl.buf \o <<>> = cl.buf /\ cl.buf \in Tokens
          /\ FromServer \in Tokens
      BY StreamsAre, ConcatEmptySeq DEF Tokens
    <3>4. FromServer' = <<>>
      BY <2>1, <3>2, <3>3 DEF FromServer
    <3>5. ToClient' = cl.buf
      BY <2>1, <3>3, <3>4 DEF ToClient
    <3>6. ToClient = ToClient' \o FromServer
      BY <3>5 DEF ToClient
    <3>7. ToSet(FromServer') \subseteq ToSet(FromServer)
      BY <3>4 DEF ToSet
    <3>8. AnswerKept
      BY <1>1, <2>1, <2>2, <3>2, <3>3, <3>5, <3>6, <3>7, LostAnswer
    <3> QED
      BY <2>2, <3>8
  <2> QED
    BY <2>3, <2>4
<1>10. CASE NextRequest
  <2>1. /\ srv.out = <<>> /\ srv'.out = <<>> /\ cl' = cl /\ s2c' = s2c /\ (cause => cause')
        /\ srv'.pc = "idle" /\ (Early' => Early)
    BY <1>10 DEF NextRequest, Quietly
  <2>2. ToClient' = ToClient /\ FromServer' = FromServer
    BY <2>1 DEF ToClient, FromServer
  <2>3. ~LastAnswer' /\ (New' => New) /\ Sound'
    BY <2>1 DEF LastAnswer, New, Sound
  <2>4. AnswerKept
    BY <1>1, <2>1, <2>2, <2>3, QuietAnswer
  <2> QED
    BY <2>3, <2>4
<1> QED
  BY <1>2, <1>4, <1>5, <1>6, <1>7, <1>8, <1>9, <1>10

-----------------------------------------------------------------------------
(* The invariant, and what it says of requests and answers.                *)

HttpInv == Types /\ Writing /\ RequestSeen /\ AnswerSeen

\* Nothing is under way on a connection that is not there yet.
LEMMA InitSees == Init => HttpInv
<1> SUFFICES ASSUME Init PROVE HttpInv
  OBVIOUS
<1>1. Types /\ Writing
  BY InitTypes
<1>2. /\ srv.pc = "idle" /\ srv.buf = <<>> /\ srv.out = <<>> /\ c2s = <<>> /\ s2c = <<>>
      /\ cl.pc = "idle" /\ cl.buf = <<>> /\ cl.out = <<>>
  BY DEF Init, NewServer
<1>3. <<>> \o <<>> = <<>> /\ <<>> \in Tokens
  BY ConcatEmptySeq DEF Tokens
<1>4. ToServer = <<>> /\ FromServer = <<>>
  BY <1>2, <1>3 DEF ToServer, FromServer
<1>5. ToClient = <<>>
  BY <1>2, <1>3, <1>4 DEF ToClient
<1>6. RequestSeen
  BY <1>2, <1>4, SeesNothing DEF RequestSeen
<1>7. ~Early /\ ~New /\ Sound
  BY <1>2, <1>4 DEF Early, New, Sound
<1>8. Over(ToClient, FromServer, cl, cause)
  BY <1>2, <1>4, <1>5 DEF Over, NoStatus, ToSet
<1> QED
  BY <1>1, <1>2, <1>6, <1>7, <1>8 DEF HttpInv, AnswerSeen, Unanswered, View, Waiting

\* Each end keeps what the other knows.
LEMMA StepSees == HttpInv /\ [Next]_vars => HttpInv'
<1> SUFFICES ASSUME HttpInv, [Next]_vars PROVE HttpInv'
  OBVIOUS
<1>1. Types /\ Writing /\ RequestSeen /\ AnswerSeen
  BY DEF HttpInv
<1>2. CASE CSend \/ ClientGoesOn \/ CProviderFails \/ CCancels
  <2>1. ~srv.skewed => (New => cl.pc \in Waiting)
    BY <1>1 DEF AnswerSeen, Unanswered
  <2> QED
    BY <1>1, <1>2, <2>1, ClientTypes, ClientRequest, ClientAnswer DEF HttpInv
<1>3. CASE ServerGoesOn \/ SRouteAtOnce \/ SThrows \/ SReadRefused \/ SSendFails \/ SSendCut
  BY <1>1, <1>3, ServerTypes, ServerRequest, ServerAnswer DEF HttpInv
<1>4. CASE Stop \/ UNCHANGED vars
  <2>1. /\ cl' = cl /\ srv' = srv /\ c2s' = c2s /\ s2c' = s2c /\ cause' = cause
        /\ stopping' \in BOOLEAN
    BY <1>1, <1>4 DEF Stop, vars, Types
  <2>2. Types' /\ Writing'
    BY <1>1, <2>1 DEF Types, Writing, SClosed
  <2>3. /\ ToServer' = ToServer /\ FromServer' = FromServer
    BY <2>1 DEF ToServer, FromServer
  <2>4. Unread' = Unread /\ ToClient' = ToClient
    BY <2>1, <2>3 DEF Unread, ToClient
  <2>5. RequestSeen'
    BY <1>1, <2>1, <2>3, <2>4 DEF RequestSeen
  <2>6. /\ Early' = Early /\ LastAnswer' = LastAnswer /\ Sound' = Sound
    BY <2>1, <2>3 DEF Early, LastAnswer, EndsWithThis, Sound
  <2>7. Unanswered' = Unanswered
    BY <2>1, <2>4, <2>6 DEF Unanswered, New
  <2>8. AnswerSeen'
    BY <1>1, <2>1, <2>3, <2>4, <2>6, <2>7 DEF AnswerSeen
  <2> QED
    BY <2>2, <2>5, <2>8 DEF HttpInv
<1> QED
  BY <1>2, <1>3, <1>4 DEF Next

\* The invariant holds always.
LEMMA HttpInvariant == Spec => []HttpInv
BY InitSees, StepSees, PTL DEF Spec

\* The handler that is called sees the request that the client is making and the
\* whole of its content, for all requests, replies, limits and capacities.
THEOREM RequestsArriveWhole == Spec => []HandlerSeesRequest
<1>1. HttpInv => HandlerSeesRequest
  <2> SUFFICES ASSUME HttpInv, srv.pc = "dispatch", ~srv.skewed
               PROVE  /\ srv.id = cl.id /\ srv.q = cl.q
                      /\ HasContent(srv.q) => srv.rd.got = Content(srv.id, srv.q.chunks)
    BY DEF HandlerSeesRequest
  <2>1. Sees(srv, cl.id, cl.q, ToServer, Unread)
    BY DEF HttpInv, RequestSeen
  <2> QED
    BY <2>1 DEF Sees, Working
<1> QED
  BY <1>1, HttpInvariant, PTL

\* A result that the client accepts is the answer to its own request and, where the
\* headers frame it, the whole of what the handler gave.
THEOREM AnswersBelongToRequests == Spec => []AnswerIsForRequest
<1>1. HttpInv => AnswerIsForRequest
  <2> SUFFICES ASSUME HttpInv, cl.pc = "done", cl.ok, ~srv.skewed
               PROVE  /\ cl.line[2] = cl.id
                      /\ Whole(cl) => cl.rd.got = Content(cl.id, cl.line[3].chunks)
    BY DEF AnswerIsForRequest, Whole, Framed
  <2>1. Over(ToClient, FromServer, cl, cause)
    BY DEF HttpInv, AnswerSeen, View
  <2> QED
    BY <2>1 DEF Over, Expected
<1> QED
  BY <1>1, HttpInvariant, PTL

\* A request that fails has a reason: the two ends never misread one another.
THEOREM NoErrorWithoutCause == Spec => []NoSpuriousError
<1>1. HttpInv => NoSpuriousError
  <2> SUFFICES ASSUME HttpInv, cl.pc = "done", ~cause, ~srv.skewed
               PROVE  cl.ok
    BY DEF NoSpuriousError
  <2>1. Over(ToClient, FromServer, cl, cause)
    BY DEF HttpInv, AnswerSeen, View
  <2> QED
    BY <2>1 DEF Over
<1> QED
  BY <1>1, HttpInvariant, PTL

\* An accepted result leaves nothing in the buffer or in the stream for the next
\* request to read.
THEOREM NothingStaysBehind == Spec => []NothingLeftBehind
<1>1. HttpInv => NothingLeftBehind
  <2> SUFFICES ASSUME HttpInv, cl.pc = "done", ~cause, ~srv.skewed
               PROVE  cl.buf = <<>> /\ s2c = <<>>
    BY DEF NothingLeftBehind
  <2>1. Over(ToClient, FromServer, cl, cause)
    BY DEF HttpInv, AnswerSeen, View
  <2>2. ToClient = <<>>
    BY <2>1 DEF Over
  <2>3. /\ cl.buf \in Tokens /\ FromServer \in Tokens /\ s2c \in Tokens
        /\ srv.out \in Tokens
    BY StreamsAre DEF HttpInv
  <2>4. cl.buf = <<>> /\ FromServer = <<>>
    BY <2>2, <2>3, NothingComes DEF ToClient
  <2>5. s2c = <<>>
    BY <2>3, <2>4, NothingComes DEF FromServer
  <2> QED
    BY <2>4, <2>5
<1> QED
  BY <1>1, HttpInvariant, PTL
=============================================================================
