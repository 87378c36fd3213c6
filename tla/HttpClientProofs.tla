--------------------------- MODULE HttpClientProofs ---------------------------
(***************************************************************************)
(* Theorems about HttpClient, for any threads and descriptors, any number  *)
(* of calls and stops, and any limits of redirects and authentications.    *)
(***************************************************************************)
EXTENDS HttpClient, SequenceTheorems, TLAPS

Pcs == {"begin", "write", "read", "answered", "follow", "authorize", "leave"}
Frames ==
  [kind: {"call", "redirect", "auth"}, redirects: 0 .. RedirectMax,
   auths: 0 .. AuthorizationMax, pc: Pcs, strm: Sockets \cup {0}, n: Nat, got: Nat,
   status: Statuses, ends: BOOLEAN, ret: BOOLEAN, retried: BOOLEAN]

\* One activation of send_, the depth-th from the outermost: each redirect has
\* used one up, each authentication has been counted, and before its answer it
\* has none.
FrameOK(f, depth) ==
  /\ depth + f.redirects <= 1 + RedirectMax + f.auths
  /\ f.got \in {0, f.n}
  /\ f.pc \in {"begin", "write", "read"} => f.got = 0 /\ ~f.ret

\* The activations below the innermost wait within redirect or authorization,
\* and have no fewer redirects left than those above them.
StackOK(st) ==
  /\ st \in Seq(Frames)
  /\ \A i \in 1 .. Len(st) :
       /\ FrameOK(st[i], Len(st) + 1 - i)
       /\ i > 1 => /\ st[i].pc \in {"follow", "authorize"}
                   /\ st[i - 1].redirects <= st[i].redirects

StackInv == StackOK(stack)

\* Every activation that has come past its first block is counted in
\* socket_requests_in_flight_, for the thread that holds request_mutex_.
CountInv ==
  /\ settings \in Settings
  /\ shouldClose \in BOOLEAN /\ peerClosed \in BOOLEAN /\ stopped \in BOOLEAN
  /\ calls \in 0 .. MaxCalls /\ stops \in 0 .. MaxStops
  /\ holder \in Threads \cup {None}
  /\ holder = None <=> stack = <<>>
  /\ inFlight = IF At("begin") THEN Len(stack) - 1 ELSE Len(stack)
  /\ owner = IF inFlight = 0 THEN None ELSE holder

\* The client knows every descriptor that is not closed.
SocketInv ==
  /\ sock \in Sockets \cup {0} /\ ssl \in BOOLEAN
  /\ conn \in [Sockets -> Conn]
  /\ \A s \in Sockets : conn[s].state = "closed" => conn[s] = Closed
  /\ \A s \in Sockets : conn[s].state # "closed" <=> s = sock
  /\ ssl <=> settings.ssl /\ sock # 0

\* Nobody waits for anything on this descriptor: nothing is asked, nothing unread.
Clean(s) == conn[s].request = 0 /\ conn[s].answers = <<>>

\* What the innermost activation expects of the socket.
TopInv ==
  /\ sock # 0 => Clean(sock) \/ At("read") \/ (At("leave") /\ ~Top.ret)
  /\ At("write") \/ At("read") => Top.strm = sock /\ sock # 0
  /\ At("read") =>
       \/ conn[sock].request \in {0, Top.n} /\ conn[sock].answers = <<>>
       \/ /\ conn[sock].request = 0 /\ Len(conn[sock].answers) = 1
          /\ conn[sock].answers[1].n = Top.n
  /\ At("read") \/ At("answered") \/ At("follow") => ~peerClosed
  /\ stack # <<>> /\ peerClosed => ~Top.ret

IInv == StackInv /\ CountInv /\ SocketInv /\ TopInv

-----------------------------------------------------------------------------
(***************************************************************************)
(* The stack of activations.                                               *)
(***************************************************************************)

LEMMA FrameNumbers ==
  ASSUME NEW f \in Frames
  PROVE  /\ f.redirects \in Nat /\ f.redirects <= RedirectMax
         /\ f.auths \in Nat /\ f.auths <= AuthorizationMax
  <1>1. f.redirects \in 0 .. RedirectMax /\ f.auths \in 0 .. AuthorizationMax
    BY DEF Frames
  <1> QED
    BY <1>1, BoundsAssumption

\* Without its innermost activation.
LEMMA TailOK ==
  ASSUME NEW st, StackOK(st), st # <<>>
  PROVE  /\ StackOK(Tail(st)) /\ Len(Tail(st)) = Len(st) - 1
         /\ Tail(st) # <<>> => /\ Len(st) > 1 /\ Tail(st)[1] = st[2]
                              /\ st[2].pc \in {"follow", "authorize"}
                              /\ st[1].redirects <= st[2].redirects
  <1>1. st \in Seq(Frames) /\ Len(st) \in Nat \ {0}
    BY LenProperties, EmptySeq DEF StackOK
  <1>2. /\ Tail(st) \in Seq(Frames) /\ Len(Tail(st)) = Len(st) - 1
        /\ \A i \in 1 .. Len(Tail(st)) : Tail(st)[i] = st[i + 1]
    BY <1>1, HeadTailProperties
  <1>3. ASSUME NEW i \in 1 .. Len(Tail(st))
        PROVE  /\ FrameOK(Tail(st)[i], Len(Tail(st)) + 1 - i)
               /\ i > 1 => /\ Tail(st)[i].pc \in {"follow", "authorize"}
                           /\ Tail(st)[i - 1].redirects <= Tail(st)[i].redirects
    <2>1. /\ i + 1 \in 1 .. Len(st) /\ i + 1 > 1
          /\ Len(st) + 1 - (i + 1) = Len(Tail(st)) + 1 - i
          /\ Tail(st)[i] = st[i + 1] /\ (i + 1) - 1 = i
      <3> DEFINE n == Len(st)
      <3>1. n \in Nat \ {0} /\ Len(Tail(st)) = n - 1 /\ i \in 1 .. n - 1
        BY <1>1, <1>2
      <3>2. Tail(st)[i] = st[i + 1]
        BY <1>2
      <3> HIDE DEF n
      <3>3. i + 1 \in 1 .. n /\ i + 1 > 1 /\ n + 1 - (i + 1) = (n - 1) + 1 - i /\ (i + 1) - 1 = i
        BY <3>1
      <3> QED
        BY <3>1, <3>2, <3>3 DEF n
    <2>2. FrameOK(st[i + 1], Len(st) + 1 - (i + 1))
      BY <2>1 DEF StackOK
    <2>3. st[i + 1].pc \in {"follow", "authorize"} /\ st[i].redirects <= st[i + 1].redirects
      BY <2>1 DEF StackOK
    <2>4. i > 1 => Tail(st)[i - 1] = st[i]
      <3> HAVE i > 1
      <3>1. i - 1 \in 1 .. Len(Tail(st)) /\ (i - 1) + 1 = i
        BY <1>1, <1>2
      <3> QED
        BY <1>2, <3>1
    <2> QED
      BY <2>1, <2>2, <2>3, <2>4
  <1>4. StackOK(Tail(st))
    BY <1>2, <1>3 DEF StackOK
  <1>5. ASSUME Tail(st) # <<>>
        PROVE  /\ Len(st) > 1 /\ Tail(st)[1] = st[2]
               /\ st[2].pc \in {"follow", "authorize"}
               /\ st[1].redirects <= st[2].redirects
    <2>1. Len(Tail(st)) > 0
      BY <1>2, <1>5, LenProperties, EmptySeq
    <2>2. 1 \in 1 .. Len(Tail(st)) /\ 2 \in 1 .. Len(st) /\ Len(st) > 1 /\ 2 - 1 = 1
      BY <1>1, <1>2, <2>1
    <2> QED
      BY <1>2, <2>2 DEF StackOK
  <1> QED
    BY <1>2, <1>4, <1>5

\* With another activation on top.
LEMMA PushOK ==
  ASSUME NEW st, StackOK(st), NEW f \in Frames, FrameOK(f, Len(st) + 1),
         st # <<>> => /\ st[1].pc \in {"follow", "authorize"}
                      /\ f.redirects <= st[1].redirects
  PROVE  /\ StackOK(<<f>> \o st) /\ Len(<<f>> \o st) = Len(st) + 1
         /\ (<<f>> \o st)[1] = f /\ <<f>> \o st # <<>>
  <1> DEFINE t == <<f>> \o st
  <1>1. st \in Seq(Frames) /\ Len(st) \in Nat /\ <<f>> \in Seq(Frames) /\ Len(<<f>>) = 1
    BY LenProperties DEF StackOK
  <1>2. /\ t \in Seq(Frames) /\ Len(t) = Len(st) + 1 /\ t[1] = f
        /\ \A i \in 1 .. Len(st) : t[i + 1] = st[i]
    BY <1>1, ConcatProperties
  <1>3. t # <<>>
    BY <1>1, <1>2, EmptySeq
  <1> HIDE DEF t
  <1>4. ASSUME NEW i \in 1 .. Len(t)
        PROVE  /\ FrameOK(t[i], Len(t) + 1 - i)
               /\ i > 1 => /\ t[i].pc \in {"follow", "authorize"}
                           /\ t[i - 1].redirects <= t[i].redirects
    <2>1. CASE i = 1
      BY <1>1, <1>2, <2>1
    <2>2. CASE i = 2
      <3>1. 1 \in 1 .. Len(st) /\ t[2] = st[1] /\ Len(st) + 1 - 1 = Len(t) + 1 - i
        BY <1>1, <1>2, <2>2
      <3>2. st # <<>>
        BY <3>1, <1>1, EmptySeq
      <3>3. FrameOK(st[1], Len(st) + 1 - 1)
        BY <3>1 DEF StackOK
      <3> QED
        BY <1>2, <2>2, <3>1, <3>2, <3>3
    <2>3. CASE i > 2
      <3>1. /\ i - 1 \in 1 .. Len(st) /\ i - 1 > 1 /\ (i - 1) - 1 \in 1 .. Len(st)
            /\ (i - 1) + 1 = i /\ ((i - 1) - 1) + 1 = i - 1
            /\ Len(st) + 1 - (i - 1) = Len(t) + 1 - i
        <4>1. i \in Nat /\ i <= Len(st) + 1 /\ Len(t) = Len(st) + 1 /\ Len(st) \in Nat
          BY <1>1, <1>2
        <4> QED
          BY <2>3, <4>1
      <3>2. t[i] = st[i - 1] /\ t[i - 1] = st[(i - 1) - 1]
        <4>1. t[(i - 1) + 1] = st[i - 1] /\ t[((i - 1) - 1) + 1] = st[(i - 1) - 1]
          BY <1>2, <3>1
        <4> QED
          BY <3>1, <4>1
      <3>3. /\ FrameOK(st[i - 1], Len(st) + 1 - (i - 1))
            /\ st[i - 1].pc \in {"follow", "authorize"}
            /\ st[(i - 1) - 1].redirects <= st[i - 1].redirects
        BY <3>1 DEF StackOK
      <3> QED
        BY <3>1, <3>2, <3>3
    <2> QED
      BY <1>1, <1>2, <2>1, <2>2, <2>3
  <1> QED
    BY <1>2, <1>3, <1>4 DEF StackOK, t

\* With the innermost activation changed.
LEMMA BecomeOK ==
  ASSUME NEW st, StackOK(st), st # <<>>, NEW f \in Frames, FrameOK(f, Len(st)),
         f.redirects <= st[1].redirects
  PROVE  /\ StackOK(<<f>> \o Tail(st)) /\ Len(<<f>> \o Tail(st)) = Len(st)
         /\ (<<f>> \o Tail(st))[1] = f /\ <<f>> \o Tail(st) # <<>>
  <1>1. st \in Seq(Frames) /\ Len(st) \in Nat \ {0} /\ st[1] \in Frames
    BY LenProperties, EmptySeq DEF StackOK
  <1>2. StackOK(Tail(st)) /\ Len(Tail(st)) + 1 = Len(st)
    BY <1>1, TailOK
  <1>3. ASSUME Tail(st) # <<>>
        PROVE  Tail(st)[1].pc \in {"follow", "authorize"} /\ f.redirects <= Tail(st)[1].redirects
    <2>1. /\ Len(st) > 1 /\ Tail(st)[1] = st[2] /\ st[2].pc \in {"follow", "authorize"}
          /\ st[1].redirects <= st[2].redirects
      BY <1>3, TailOK
    <2>2. st[2] \in Frames
      BY <1>1, <2>1
    <2>3. /\ f.redirects \in Nat /\ st[1].redirects \in Nat /\ st[2].redirects \in Nat
          /\ f.redirects <= st[1].redirects
      BY <1>1, <2>2, FrameNumbers
    <2>4. f.redirects <= st[2].redirects
      BY <2>1, <2>3
    <2> QED
      BY <2>1, <2>4
  <1> QED
    BY <1>2, <1>3, PushOK

LEMMA TopFrame ==
  ASSUME StackInv, stack # <<>>
  PROVE  /\ Top \in Frames /\ FrameOK(Top, Len(stack)) /\ Len(stack) \in Nat \ {0}
  <1>1. stack \in Seq(Frames) /\ Len(stack) \in Nat \ {0}
    BY LenProperties, EmptySeq DEF StackInv, StackOK
  <1>2. 1 \in 1 .. Len(stack) /\ Len(stack) + 1 - 1 = Len(stack)
    BY <1>1
  <1>3. FrameOK(stack[1], Len(stack) + 1 - 1)
    BY <1>2 DEF StackInv, StackOK
  <1> QED
    BY <1>1, <1>2, <1>3 DEF Top

\* What the end of send_ does to the stack: it tries again, the call ends, or
\* the activation below goes on with the result.
LEMMA ReturnOK ==
  ASSUME StackInv, stack # <<>>, NEW f \in Frames, NEW gone \in BOOLEAN,
         f.redirects = Top.redirects, f.auths = Top.auths, Return(f, gone)
  PROVE  /\ StackInv'
         /\ \/ /\ stack' # <<>> /\ Len(stack') = Len(stack) /\ holder' = holder
               /\ Top'.pc = "begin" /\ ~Top'.ret
            \/ Len(stack) = 1 /\ stack' = <<>> /\ holder' = None
            \/ /\ stack' # <<>> /\ Len(stack') = Len(stack) - 1 /\ holder' = holder
               /\ Top'.pc \in {"leave", "authorize"} /\ Top'.ret = f.ret
  <1>0. /\ Top \in Frames /\ Len(stack) \in Nat \ {0} /\ StackOK(stack)
        /\ FrameOK(Top, Len(stack))
    BY TopFrame DEF StackInv
  <1>1. CASE gone /\ ~f.retried
    <2> DEFINE g == [Frame(f.kind, f.redirects, f.auths) EXCEPT !.retried = TRUE]
    <2>1. stack' = <<g>> \o Tail(stack) /\ holder' = holder
      BY <1>1 DEF Return, Become
    <2>2. /\ g \in Frames /\ g.redirects = f.redirects /\ g.auths = f.auths
          /\ g.pc = "begin" /\ ~g.ret /\ g.got = 0
      BY DEF Frames, Frame, Pcs, Statuses
    <2>3. FrameOK(g, Len(stack)) /\ g.redirects <= Top.redirects
      BY <1>0, <2>2, FrameNumbers DEF FrameOK
    <2> HIDE DEF g
    <2>4. /\ StackOK(stack') /\ Len(stack') = Len(stack) /\ stack'[1] = g /\ stack' # <<>>
      BY <1>0, <2>1, <2>2, <2>3, BecomeOK DEF Top
    <2> QED
      BY <2>1, <2>2, <2>4 DEF StackInv, Top
  <1>2. CASE ~(gone /\ ~f.retried) /\ Len(stack) = 1
    <2>1. stack' = <<>> /\ holder' = None
      BY <1>2 DEF Return
    <2>2. StackOK(<<>>)
      BY DEF StackOK
    <2> QED
      BY <1>2, <2>1, <2>2 DEF StackInv
  <1>3. CASE ~(gone /\ ~f.retried) /\ Len(stack) # 1
    <2> DEFINE p == stack[2]
               g == Resume(p, f)
    <2>1. stack' = <<g>> \o Tail(Tail(stack)) /\ holder' = holder
      BY <1>3 DEF Return
    <2>2. /\ StackOK(Tail(stack)) /\ Len(Tail(stack)) = Len(stack) - 1 /\ Tail(stack) # <<>>
      <3>1. StackOK(Tail(stack)) /\ Len(Tail(stack)) = Len(stack) - 1
        BY <1>0, TailOK
      <3>2. Len(Tail(stack)) # 0
        BY <1>0, <1>3, <3>1
      <3> QED
        BY <3>1, <3>2, EmptySeq
    <2>3. /\ p = Tail(stack)[1] /\ p.pc \in {"follow", "authorize"}
          /\ Top.redirects <= p.redirects
      BY <1>0, <2>2, TailOK DEF Top
    <2>4. p \in Frames /\ FrameOK(p, Len(stack) - 1)
      <3>1. Tail(stack) \in Seq(Frames) /\ 1 \in 1 .. Len(Tail(stack))
        BY <1>0, <1>3, <2>2 DEF StackOK
      <3>2. FrameOK(Tail(stack)[1], Len(Tail(stack)) + 1 - 1)
        BY <2>2, <3>1 DEF StackOK
      <3> QED
        BY <1>0, <2>2, <2>3, <3>1, <3>2
    <2>5. f.redirects <= p.redirects
      BY <2>3
    <2>6. /\ g \in Frames /\ g.pc \in {"leave", "authorize"} /\ g.ret = f.ret
          /\ g.redirects \in {p.redirects, f.redirects} /\ g.auths = p.auths
          /\ g.got = p.got /\ g.n = p.n
      <3> DEFINE q == IF f.ret THEN [p EXCEPT !.status = f.status, !.ret = TRUE]
                      ELSE [p EXCEPT !.ret = FALSE]
      <3>1. /\ q \in Frames /\ q.ret = f.ret /\ q.redirects = p.redirects
            /\ q.auths = p.auths /\ q.got = p.got /\ q.n = p.n
        BY <2>4 DEF Frames
      <3>2. g = IF f.kind = "auth" THEN [q EXCEPT !.pc = "leave"]
                ELSE [q EXCEPT !.pc = "authorize",
                               !.redirects = IF f.ret THEN f.redirects ELSE q.redirects]
        BY DEF Resume
      <3> HIDE DEF q, g, p
      <3> QED
        BY <3>1, <3>2 DEF Frames, Pcs
    <2>7. g.redirects <= p.redirects
      BY <2>4, <2>5, <2>6, FrameNumbers
    <2>8. FrameOK(g, Len(stack) - 1)
      <3>1. /\ p.redirects \in Nat /\ g.redirects \in Nat /\ p.auths \in Nat
            /\ Len(stack) - 1 \in Nat
            /\ Len(stack) - 1 + p.redirects <= 1 + RedirectMax + p.auths
        BY <1>0, <2>4, <2>6, FrameNumbers DEF FrameOK
      <3>2. Len(stack) - 1 + g.redirects <= 1 + RedirectMax + p.auths
        BY <2>7, <3>1, BoundsAssumption
      <3> QED
        BY <2>4, <2>6, <3>2 DEF FrameOK
    <2> HIDE DEF p, g
    <2>9. /\ StackOK(stack') /\ Len(stack') = Len(Tail(stack)) /\ stack'[1] = g
          /\ stack' # <<>>
      BY <2>1, <2>2, <2>3, <2>6, <2>7, <2>8, BecomeOK
    <2> QED
      BY <2>1, <2>2, <2>6, <2>9 DEF StackInv, Top
  <1> QED
    BY <1>1, <1>2, <1>3

\* The innermost activation goes on.
LEMMA GoOn ==
  ASSUME StackInv, stack # <<>>, NEW f \in Frames, FrameOK(f, Len(stack)),
         f.redirects <= Top.redirects, Become(f)
  PROVE  StackInv' /\ stack' # <<>> /\ Len(stack') = Len(stack) /\ Top' = f
  <1>1. /\ StackOK(<<f>> \o Tail(stack)) /\ Len(<<f>> \o Tail(stack)) = Len(stack)
        /\ (<<f>> \o Tail(stack))[1] = f /\ <<f>> \o Tail(stack) # <<>>
    BY BecomeOK DEF StackInv, Top
  <1> QED
    BY <1>1 DEF Become, StackInv, Top

\* It sends once more.
LEMMA Nest ==
  ASSUME StackInv, stack # <<>>, Top.pc \in {"follow", "authorize"},
         NEW f \in Frames, FrameOK(f, Len(stack) + 1), f.redirects <= Top.redirects,
         stack' = <<f>> \o stack
  PROVE  StackInv' /\ stack' # <<>> /\ Len(stack') = Len(stack) + 1 /\ Top' = f
  <1>1. /\ StackOK(<<f>> \o stack) /\ Len(<<f>> \o stack) = Len(stack) + 1
        /\ (<<f>> \o stack)[1] = f /\ <<f>> \o stack # <<>>
    BY PushOK DEF StackInv, Top
  <1> QED
    BY <1>1 DEF StackInv, Top

-----------------------------------------------------------------------------
(***************************************************************************)
(* Sockets.                                                                *)
(***************************************************************************)

\* When an activation begins, no descriptor has an exchange under way.
LEMMA UnusedIsNumber ==
  ASSUME \A s \in Sockets : Clean(s)
  PROVE  Unused \in Nat
  <1> DEFINE taken == {conn[s].request : s \in Sockets}
                 \cup UNION {{conn[s].answers[i].n : i \in DOMAIN conn[s].answers} :
                              s \in Sockets}
             P(n) == n \notin taken /\ \A m \in 1..(n - 1) : m \in taken
  <1>1. taken \subseteq {0}
    <2>1. ASSUME NEW s \in Sockets PROVE conn[s].request = 0 /\ DOMAIN conn[s].answers = {}
      BY DEF Clean
    <2> QED
      BY <2>1
  <1> HIDE DEF taken
  <1>2. 1 \in 1..(2 * RedirectMax + 4) /\ 1 - 1 = 0 /\ 1 \notin taken
    BY <1>1, BoundsAssumption
  <1>3. P(1)
    BY <1>2
  <1> HIDE DEF P
  <1>4. (CHOOSE n \in 1..(2 * RedirectMax + 4) : P(n)) \in 1..(2 * RedirectMax + 4)
    BY <1>2, <1>3
  <1>5. (CHOOSE n \in 1..(2 * RedirectMax + 4) : P(n)) \in Nat
    BY <1>4, BoundsAssumption
  <1> QED
    BY <1>5 DEF Unused, P, taken

LEMMA AllClean ==
  ASSUME SocketInv, TopInv, At("begin")
  PROVE  \A s \in Sockets : Clean(s)
  BY DEF SocketInv, TopInv, At, Clean, Closed

\* close_socket gives the descriptor back, for good.
LEMMA CloseOK ==
  ASSUME SocketInv, UNCHANGED settings, CloseSocket
  PROVE  SocketInv' /\ sock' = 0
  <1>1. Closed \in Conn /\ Closed.state = "closed"
    <2>1. <<>> \in Seq([n: Nat, status: Statuses, close: BOOLEAN])
      OBVIOUS
    <2> QED
      BY <2>1 DEF Closed, Conn
  <1>2. sock' = 0 /\ ssl' = FALSE /\ 0 \notin Sockets
    BY SocketsAssumption DEF CloseSocket
  <1>3. CASE sock = 0
    <2>1. conn' = conn
      BY <1>3 DEF CloseSocket, CloseOf
    <2> QED
      BY <1>2, <1>3, <2>1 DEF SocketInv
  <1>4. CASE sock # 0
    <2>1. conn' = [conn EXCEPT ![sock] = Closed] /\ sock \in Sockets
      BY <1>4 DEF CloseSocket, CloseOf, SocketInv
    <2>2. conn' \in [Sockets -> Conn]
      BY <1>1, <2>1 DEF SocketInv
    <2>3. \A s \in Sockets : conn'[s] = Closed
      BY <2>1 DEF SocketInv
    <2> QED
      BY <1>1, <1>2, <2>2, <2>3 DEF SocketInv
  <1> QED
    BY <1>3, <1>4

LEMMA OneItem ==
  ASSUME NEW S, NEW q \in Seq(S), Len(q) = 1
  PROVE  q[1] \in S /\ Head(q) = q[1] /\ Tail(q) = <<>>
  <1>1. q # <<>>
    BY EmptySeq
  <1>2. Tail(q) \in Seq(S) /\ Len(Tail(q)) = 0 /\ Head(q) \in S
    BY <1>1, HeadTailProperties
  <1>3. Head(q) = q[1]
    OBVIOUS
  <1>4. Tail(q) = <<>>
    BY <1>2, EmptySeq
  <1> QED
    BY <1>2, <1>3, <1>4

LEMMA SameSocket ==
  ASSUME SocketInv, UNCHANGED <<settings, sock, ssl, conn>>
  PROVE  SocketInv'
  BY DEF SocketInv

\* An exchange changes what is known of the socket, and nothing else.
LEMMA ExchangeOK ==
  ASSUME SocketInv, UNCHANGED <<settings, sock, ssl>>, NEW s \in Sockets,
         conn[s].state # "closed", NEW c \in Conn, c.state # "closed",
         conn' = [conn EXCEPT ![s] = c]
  PROVE  SocketInv' /\ conn'[sock] = c /\ s = sock
  <1>1. s = sock /\ sock # 0
    BY SocketsAssumption DEF SocketInv
  <1>2. conn' \in [Sockets -> Conn] /\ conn'[s] = c
        /\ \A q \in Sockets : q # s => conn'[q] = conn[q]
    BY DEF SocketInv
  <1> QED
    BY <1>1, <1>2 DEF SocketInv

-----------------------------------------------------------------------------
(***************************************************************************)
(* The steps of the thread in send.                                        *)
(***************************************************************************)

\* Past its first block and before its last, an activation stays counted.
LEMMA Forward ==
  ASSUME IInv, stack # <<>>, Top.pc # "begin",
         NEW f \in Frames, f.pc # "begin", f.redirects <= Top.redirects,
         f.auths = Top.auths, f.got \in {0, f.n},
         f.pc \in {"write", "read"} => f.got = 0 /\ ~f.ret, Become(f),
         UNCHANGED <<settings, inFlight, owner, holder, bounds, shouldClose>>,
         peerClosed' \in BOOLEAN
  PROVE  StackInv' /\ CountInv' /\ stack' # <<>> /\ Top' = f
  <1>1. Top \in Frames /\ FrameOK(Top, Len(stack)) /\ Len(stack) \in Nat \ {0}
    BY TopFrame DEF IInv
  <1>2. FrameOK(f, Len(stack))
    BY <1>1, FrameNumbers, BoundsAssumption DEF FrameOK
  <1>3. StackInv' /\ stack' # <<>> /\ Len(stack') = Len(stack) /\ Top' = f
    BY <1>2, GoOn DEF IInv
  <1>4. CountInv'
    BY <1>3 DEF IInv, CountInv, At, bounds
  <1> QED
    BY <1>3, <1>4

\* The new frame of each step that only goes on.
LEMMA GoFrame ==
  ASSUME NEW f \in Frames, NEW pc \in Pcs
  PROVE  /\ [f EXCEPT !.pc = pc] \in Frames
         /\ [f EXCEPT !.pc = pc].pc = pc
         /\ [f EXCEPT !.pc = pc].redirects = f.redirects
         /\ [f EXCEPT !.pc = pc].auths = f.auths
         /\ [f EXCEPT !.pc = pc].got = f.got
         /\ [f EXCEPT !.pc = pc].n = f.n
         /\ [f EXCEPT !.pc = pc].ret = f.ret
         /\ [f EXCEPT !.pc = pc].strm = f.strm
  BY DEF Frames

LEMMA RetFrame ==
  ASSUME NEW f \in Frames, NEW pc \in Pcs, NEW ret \in BOOLEAN
  PROVE  /\ [f EXCEPT !.pc = pc, !.ret = ret] \in Frames
         /\ [f EXCEPT !.pc = pc, !.ret = ret].pc = pc
         /\ [f EXCEPT !.pc = pc, !.ret = ret].redirects = f.redirects
         /\ [f EXCEPT !.pc = pc, !.ret = ret].auths = f.auths
         /\ [f EXCEPT !.pc = pc, !.ret = ret].got = f.got
         /\ [f EXCEPT !.pc = pc, !.ret = ret].n = f.n
         /\ [f EXCEPT !.pc = pc, !.ret = ret].ret = ret
  BY DEF Frames

LEMMA FrameType ==
  ASSUME IInv, stack # <<>>
  PROVE  /\ Top \in Frames /\ FrameOK(Top, Len(stack)) /\ Len(stack) \in Nat \ {0}
         /\ Top.redirects <= Top.redirects
  <1>1. Top \in Frames /\ FrameOK(Top, Len(stack)) /\ Len(stack) \in Nat \ {0}
    BY TopFrame DEF IInv
  <1> QED
    BY <1>1, FrameNumbers

\* write_request leaves the request at the server, or in a connection that
\* the server has closed.
LEMMA WriteOK == ASSUME IInv, Write PROVE IInv'
  <1>1. /\ stack # <<>> /\ Top.pc = "write" /\ Top.strm = sock /\ sock # 0 /\ Clean(sock)
        /\ sock \in Sockets /\ conn[sock] \in Conn /\ conn[sock].state = "open"
    BY DEF Write, At, IInv, TopInv, SocketInv
  <1>2. Top \in Frames /\ FrameOK(Top, Len(stack)) /\ Top.redirects <= Top.redirects
    BY <1>1, FrameType
  <1> DEFINE f == [Top EXCEPT !.pc = "read"]
  <1>3. /\ f \in Frames /\ f.pc = "read" /\ f.redirects = Top.redirects
        /\ f.auths = Top.auths /\ f.got = Top.got /\ f.n = Top.n /\ f.ret = Top.ret
        /\ f.strm = Top.strm
    BY <1>2, GoFrame DEF Pcs
  <1>4. Become(f)
    BY DEF Write, Go
  <1> HIDE DEF f
  <1>5. UNCHANGED <<settings, inFlight, owner, holder, bounds, shouldClose, sock, ssl>>
        /\ peerClosed' = FALSE
    BY DEF Write, members
  <1>6. StackInv' /\ CountInv' /\ stack' # <<>> /\ Top' = f
    BY <1>1, <1>2, <1>3, <1>4, <1>5, Forward DEF FrameOK
  <1> DEFINE c == [conn[sock] EXCEPT !.request = Top.n]
  <1>7. c \in Conn /\ c.state = "open" /\ c.request = Top.n /\ c.answers = <<>>
    BY <1>1, <1>2 DEF Conn, Frames, Clean
  <1>8. \/ conn' = conn
        \/ conn' = [conn EXCEPT ![sock] = c]
    BY <1>1 DEF Write
  <1> HIDE DEF c
  <1>9. SocketInv' /\ conn'[sock].request \in {0, Top.n} /\ conn'[sock].answers = <<>>
    <2>1. CASE conn' = conn
      BY <1>1, <1>5, <2>1, SameSocket DEF Clean, IInv
    <2>2. CASE conn' = [conn EXCEPT ![sock] = c]
      BY <1>1, <1>5, <1>7, <2>2, ExchangeOK DEF IInv
    <2> QED
      BY <1>8, <2>1, <2>2
  <1>10. TopInv'
    BY <1>1, <1>3, <1>5, <1>6, <1>9 DEF TopInv, At
  <1> QED
    BY <1>6, <1>9, <1>10 DEF IInv

\* An activation that fails has only its last block left.
LEMMA FailsOK ==
  ASSUME IInv, At("write") \/ At("read"), Fails, peerClosed' \in BOOLEAN,
         UNCHANGED <<settings, members, holder, conn, bounds>>
  PROVE  IInv'
  <1>1. /\ stack # <<>> /\ Top.pc \in {"write", "read"}
    BY DEF At
  <1>2. Top \in Frames /\ FrameOK(Top, Len(stack)) /\ Top.redirects <= Top.redirects
    BY <1>1, FrameType
  <1> DEFINE f == [Top EXCEPT !.pc = "leave", !.ret = FALSE]
  <1>3. /\ f \in Frames /\ f.pc = "leave" /\ f.redirects = Top.redirects
        /\ f.auths = Top.auths /\ f.got = Top.got /\ f.n = Top.n /\ ~f.ret
    BY <1>2, RetFrame DEF Pcs
  <1>4. Become(f)
    BY DEF Fails
  <1> HIDE DEF f
  <1>5. UNCHANGED <<settings, inFlight, owner, holder, bounds, shouldClose, sock, ssl, conn>>
    BY DEF members
  <1>6. StackInv' /\ CountInv' /\ stack' # <<>> /\ Top' = f
    BY <1>1, <1>2, <1>3, <1>4, <1>5, Forward DEF FrameOK
  <1>7. SocketInv'
    BY <1>5, SameSocket DEF IInv
  <1>8. TopInv'
    BY <1>3, <1>6 DEF TopInv, At
  <1> QED
    BY <1>6, <1>7, <1>8 DEF IInv

\* The first answer on the stream is the only one there.
LEMMA ReadOK == ASSUME IInv, Read PROVE IInv'
  <1>1. /\ stack # <<>> /\ Top.pc = "read" /\ Top.strm = sock /\ sock # 0 /\ peerClosed = FALSE
        /\ sock \in Sockets /\ conn[sock] \in Conn /\ conn[sock].state # "closed"
    BY DEF Read, At, IInv, TopInv, SocketInv, CountInv
  <1>2. Top \in Frames /\ FrameOK(Top, Len(stack)) /\ Top.redirects <= Top.redirects
    BY <1>1, FrameType
  <1> DEFINE as == conn[sock].answers
             a == as[1]
             f == [Top EXCEPT !.pc = "answered", !.got = a.n, !.ret = TRUE,
                              !.status = a.status, !.ends = a.close]
             c == [conn[sock] EXCEPT !.answers = Tail(@)]
  <1>3. /\ as \in Seq([n: Nat, status: Statuses, close: BOOLEAN]) /\ Len(as) = 1
        /\ a.n = Top.n /\ conn[sock].request = 0
    <2>1. as # <<>>
      BY <1>1 DEF Read
    <2> QED
      BY <1>1, <2>1 DEF IInv, TopInv, At, Conn
  <1>4. a \in [n: Nat, status: Statuses, close: BOOLEAN] /\ Tail(as) = <<>> /\ Head(as) = a
    BY <1>3, OneItem
  <1>5. Become(f) /\ conn' = [conn EXCEPT ![sock] = c]
    BY <1>1, <1>4 DEF Read
  <1>6. c \in Conn /\ c.state = conn[sock].state /\ c.request = 0 /\ c.answers = <<>>
    <2>1. <<>> \in Seq([n: Nat, status: Statuses, close: BOOLEAN])
      OBVIOUS
    <2> QED
      BY <1>1, <1>3, <1>4, <2>1 DEF Conn
  <1> HIDE DEF as, a, c
  <1>7. /\ f \in Frames /\ f.pc = "answered" /\ f.redirects = Top.redirects
        /\ f.auths = Top.auths /\ f.got = f.n /\ f.ret
    BY <1>2, <1>3, <1>4 DEF Frames, Pcs
  <1> HIDE DEF f
  <1>8. UNCHANGED <<settings, inFlight, owner, holder, bounds, shouldClose, sock, ssl, peerClosed>>
    BY DEF Read, members
  <1>9. StackInv' /\ CountInv' /\ stack' # <<>> /\ Top' = f
    BY <1>1, <1>2, <1>5, <1>7, <1>8, Forward
  <1>10. SocketInv' /\ conn'[sock] = c
    BY <1>1, <1>5, <1>6, <1>8, ExchangeOK DEF IInv
  <1>11. TopInv'
    BY <1>1, <1>6, <1>7, <1>8, <1>9, <1>10 DEF TopInv, At, Clean
  <1> QED
    BY <1>9, <1>10, <1>11 DEF IInv

\* Connection: close gives the socket back before a redirect or an
\* authentication takes another one.
LEMMA AnsweredOK == ASSUME IInv, Answered PROVE IInv'
  <1>1. /\ stack # <<>> /\ Top.pc = "answered" /\ peerClosed = FALSE
        /\ sock # 0 => Clean(sock)
    BY DEF Answered, At, IInv, TopInv, CountInv
  <1>2. Top \in Frames /\ FrameOK(Top, Len(stack)) /\ Top.redirects <= Top.redirects
    BY <1>1, FrameType
  <1> DEFINE f == [Top EXCEPT !.pc = "follow"]
  <1>3. /\ f \in Frames /\ f.pc = "follow" /\ f.redirects = Top.redirects
        /\ f.auths = Top.auths /\ f.got = Top.got /\ f.n = Top.n
    BY <1>2, GoFrame DEF Pcs
  <1>4. Become(f)
    BY DEF Answered, Go
  <1> HIDE DEF f
  <1>5. UNCHANGED <<settings, inFlight, owner, holder, bounds, shouldClose, peerClosed>>
    BY DEF Answered
  <1>6. StackInv' /\ CountInv' /\ stack' # <<>> /\ Top' = f
    BY <1>1, <1>2, <1>3, <1>4, <1>5, Forward DEF FrameOK
  <1>7. SocketInv' /\ (sock' = 0 \/ (sock' = sock /\ conn' = conn))
    <2>1. CASE Top.ends
      BY <1>5, <2>1, CloseOK DEF IInv, Answered
    <2>2. CASE ~Top.ends
      BY <1>5, <2>2, SameSocket DEF IInv, Answered
    <2> QED
      BY <2>1, <2>2
  <1>8. TopInv'
    BY <1>1, <1>3, <1>5, <1>6, <1>7 DEF TopInv, At, Clean
  <1> QED
    BY <1>6, <1>7, <1>8 DEF IInv

\* Between the answer and the last block an activation leaves the socket alone.
LEMMA ThroughOK ==
  ASSUME IInv, stack # <<>>, NEW f \in Frames, Become(f),
         \/ Top.pc = "follow" /\ f.pc = "authorize"
         \/ Top.pc = "authorize" /\ f.pc = "leave" /\ peerClosed' = peerClosed,
         f.redirects <= Top.redirects, f.auths = Top.auths,
         f.got = Top.got, f.n = Top.n, peerClosed' \in BOOLEAN,
         peerClosed' => ~f.ret,
         UNCHANGED <<settings, members, holder, conn, bounds>>
  PROVE  IInv'
  <1>1. /\ Top.pc \in {"follow", "authorize"} /\ (sock # 0 => Clean(sock))
    BY DEF At, IInv, TopInv
  <1>2. Top \in Frames /\ FrameOK(Top, Len(stack))
    BY FrameType
  <1>3. UNCHANGED <<settings, inFlight, owner, holder, bounds, shouldClose, sock, ssl, conn>>
    BY DEF members
  <1>4. StackInv' /\ CountInv' /\ stack' # <<>> /\ Top' = f
    BY <1>1, <1>2, <1>3, Forward DEF FrameOK
  <1>5. SocketInv'
    BY <1>3, SameSocket DEF IInv
  <1>6. TopInv'
    BY <1>1, <1>3, <1>4 DEF TopInv, At, Clean
  <1> QED
    BY <1>4, <1>5, <1>6 DEF IInv

LEMMA NoRedirectOK == ASSUME IInv, NoRedirect PROVE IInv'
  <1>1. stack # <<>> /\ Top.pc = "follow" /\ peerClosed = FALSE
    BY DEF NoRedirect, At, IInv, TopInv, CountInv
  <1>2. Top \in Frames /\ Top.redirects <= Top.redirects
    BY <1>1, FrameType
  <1> DEFINE f == [Top EXCEPT !.pc = "authorize"]
  <1>3. /\ f \in Frames /\ f.pc = "authorize" /\ f.redirects = Top.redirects
        /\ f.auths = Top.auths /\ f.got = Top.got /\ f.n = Top.n
    BY <1>2, GoFrame DEF Pcs
  <1>4. Become(f) /\ UNCHANGED <<settings, members, holder, conn, bounds, peerClosed>>
    BY DEF NoRedirect, Go
  <1> HIDE DEF f
  <1> QED
    BY <1>1, <1>2, <1>3, <1>4, ThroughOK

LEMMA RedirectFailsOK == ASSUME IInv, RedirectFails PROVE IInv'
  <1>1. stack # <<>> /\ Top.pc = "follow" /\ peerClosed = FALSE
    BY DEF RedirectFails, At, IInv, TopInv, CountInv
  <1>2. Top \in Frames /\ Top.redirects <= Top.redirects
    BY <1>1, FrameType
  <1> DEFINE f == [Top EXCEPT !.pc = "authorize", !.ret = FALSE]
  <1>3. /\ f \in Frames /\ f.pc = "authorize" /\ f.redirects = Top.redirects
        /\ f.auths = Top.auths /\ f.got = Top.got /\ f.n = Top.n
    BY <1>2, RetFrame DEF Pcs
  <1>4. Become(f) /\ UNCHANGED <<settings, members, holder, conn, bounds, peerClosed>>
    BY DEF RedirectFails
  <1> HIDE DEF f
  <1> QED
    BY <1>1, <1>2, <1>3, <1>4, ThroughOK

LEMMA NoAuthorizeOK == ASSUME IInv, NoAuthorize PROVE IInv'
  <1>1. stack # <<>> /\ Top.pc = "authorize" /\ peerClosed \in BOOLEAN /\ (peerClosed => ~Top.ret)
    BY DEF NoAuthorize, At, IInv, TopInv, CountInv
  <1>2. Top \in Frames /\ Top.redirects <= Top.redirects
    BY <1>1, FrameType
  <1> DEFINE f == [Top EXCEPT !.pc = "leave"]
  <1>3. /\ f \in Frames /\ f.pc = "leave" /\ f.redirects = Top.redirects
        /\ f.auths = Top.auths /\ f.got = Top.got /\ f.n = Top.n /\ f.ret = Top.ret
    BY <1>2, GoFrame DEF Pcs
  <1>4. Become(f) /\ UNCHANGED <<settings, members, holder, conn, bounds, peerClosed>>
    BY DEF NoAuthorize, Go
  <1> HIDE DEF f
  <1> QED
    BY <1>1, <1>2, <1>3, <1>4, ThroughOK

\* A client of its own answers, or fails: this client's socket is not touched.
LEMMA RedirectElsewhereOK == ASSUME IInv, RedirectElsewhere PROVE IInv'
  <1>1. stack # <<>> /\ Top.pc = "follow"
        /\ UNCHANGED <<settings, members, holder, conn, bounds>>
    BY DEF RedirectElsewhere, At
  <1>2. Top \in Frames /\ Top.redirects <= Top.redirects /\ Top.redirects \in Nat
        /\ Top.redirects <= RedirectMax
    BY <1>1, FrameType, FrameNumbers
  <1>3. ASSUME NEW status \in Statuses, NEW left \in 0 .. (Top.redirects - 1), peerClosed' = FALSE,
               Become([Top EXCEPT !.pc = "authorize", !.status = status, !.redirects = left])
        PROVE  IInv'
    <2> DEFINE f == [Top EXCEPT !.pc = "authorize", !.status = status, !.redirects = left]
    <2>1. left \in 0 .. RedirectMax /\ left <= Top.redirects
      BY <1>2, BoundsAssumption
    <2>2. /\ f \in Frames /\ f.pc = "authorize" /\ f.redirects <= Top.redirects
          /\ f.auths = Top.auths /\ f.got = Top.got /\ f.n = Top.n
      BY <1>2, <2>1 DEF Frames, Pcs
    <2>3. Become(f)
      BY <1>3
    <2> HIDE DEF f
    <2> QED
      BY <1>1, <1>3, <2>2, <2>3, ThroughOK
  <1>4. ASSUME Become([Top EXCEPT !.pc = "authorize", !.ret = FALSE]), peerClosed' \in BOOLEAN
        PROVE  IInv'
    <2> DEFINE f == [Top EXCEPT !.pc = "authorize", !.ret = FALSE]
    <2>1. /\ f \in Frames /\ f.pc = "authorize" /\ f.redirects = Top.redirects
          /\ f.auths = Top.auths /\ f.got = Top.got /\ f.n = Top.n /\ ~f.ret
      BY <1>2, RetFrame DEF Pcs
    <2>2. Become(f)
      BY <1>4
    <2> HIDE DEF f
    <2> QED
      BY <1>1, <1>2, <1>4, <2>1, <2>2, ThroughOK
  <1> QED
    BY <1>3, <1>4 DEF RedirectElsewhere

\* redirect and the authentication send again above this activation.
LEMMA NestOK ==
  ASSUME IInv, stack # <<>>, Top.pc \in {"follow", "authorize"},
         NEW f \in Frames, FrameOK(f, Len(stack) + 1), f.redirects <= Top.redirects,
         f.pc = "begin", stack' = <<f>> \o stack,
         UNCHANGED <<settings, members, holder, peerClosed, conn, bounds>>
  PROVE  IInv'
  <1>1. UNCHANGED <<settings, inFlight, owner, holder, bounds, shouldClose, sock, ssl, conn,
                    peerClosed>>
    BY DEF members
  <1>2. Len(stack) \in Nat \ {0}
    BY FrameType
  <1>3. StackInv' /\ stack' # <<>> /\ Len(stack') = Len(stack) + 1 /\ Top' = f
    BY Nest DEF IInv
  <1>4. CountInv'
    BY <1>1, <1>2, <1>3 DEF IInv, CountInv, At, bounds
  <1>5. SocketInv'
    BY <1>1, SameSocket DEF IInv
  <1>6. ~f.ret
    BY DEF FrameOK
  <1>7. TopInv'
    BY <1>1, <1>3, <1>6 DEF IInv, TopInv, At, Clean
  <1> QED
    BY <1>3, <1>4, <1>5, <1>7 DEF IInv

LEMMA RedirectSameOK == ASSUME IInv, RedirectSame PROVE IInv'
  <1>1. stack # <<>> /\ Top.pc = "follow" /\ Top.redirects # 0
        /\ UNCHANGED <<settings, members, holder, peerClosed, conn, bounds>>
    BY DEF RedirectSame, At
  <1>2. Top \in Frames /\ FrameOK(Top, Len(stack)) /\ Len(stack) \in Nat \ {0}
    BY <1>1, FrameType
  <1>3. Top.redirects \in 1 .. RedirectMax /\ Top.auths \in 0 .. AuthorizationMax
    BY <1>1, <1>2, FrameNumbers
  <1> DEFINE f == Frame("redirect", Top.redirects - 1, Top.auths)
  <1>4. Top.redirects - 1 \in 0 .. RedirectMax
    BY <1>3, BoundsAssumption
  <1>5. /\ f \in Frames /\ f.pc = "begin" /\ f.redirects = Top.redirects - 1
        /\ f.auths = Top.auths /\ f.got = 0 /\ f.ret = FALSE
    BY <1>3, <1>4 DEF Frame, Frames, Pcs, Statuses
  <1>6. stack' = <<f>> \o stack
    BY DEF RedirectSame
  <1> HIDE DEF f
  <1>7. FrameOK(f, Len(stack) + 1)
    <2>1. Len(stack) + Top.redirects <= 1 + RedirectMax + Top.auths
      BY <1>2 DEF FrameOK
    <2>2. (Len(stack) + 1) + (Top.redirects - 1) <= 1 + RedirectMax + Top.auths
      BY <1>2, <1>3, <2>1, BoundsAssumption
    <2> QED
      BY <1>5, <2>2 DEF FrameOK
  <1>8. f.redirects <= Top.redirects
    BY <1>3, <1>5, BoundsAssumption
  <1> QED
    BY <1>1, <1>5, <1>6, <1>7, <1>8, NestOK

LEMMA AuthorizeOK == ASSUME IInv, Authorize PROVE IInv'
  <1>1. stack # <<>> /\ Top.pc = "authorize" /\ Top.auths < AuthorizationMax
        /\ UNCHANGED <<settings, members, holder, peerClosed, conn, bounds>>
    BY DEF Authorize, At
  <1>2. Top \in Frames /\ FrameOK(Top, Len(stack)) /\ Len(stack) \in Nat \ {0}
    BY <1>1, FrameType
  <1>3. Top.redirects \in 0 .. RedirectMax /\ Top.auths \in Nat
    BY <1>1, <1>2, FrameNumbers, BoundsAssumption
  <1> DEFINE f == Frame("auth", Top.redirects, Top.auths + 1)
  <1>4. Top.auths + 1 \in 0 .. AuthorizationMax
    BY <1>1, <1>3, BoundsAssumption
  <1>5. /\ f \in Frames /\ f.pc = "begin" /\ f.redirects = Top.redirects
        /\ f.auths = Top.auths + 1 /\ f.got = 0 /\ f.ret = FALSE
    BY <1>3, <1>4 DEF Frame, Frames, Pcs, Statuses
  <1>6. stack' = <<f>> \o stack
    BY DEF Authorize
  <1> HIDE DEF f
  <1>7. FrameOK(f, Len(stack) + 1)
    <2>1. Len(stack) + Top.redirects <= 1 + RedirectMax + Top.auths
      BY <1>2 DEF FrameOK
    <2>2. (Len(stack) + 1) + Top.redirects <= 1 + RedirectMax + (Top.auths + 1)
      BY <1>2, <1>3, <2>1, BoundsAssumption
    <2> QED
      BY <1>5, <2>2 DEF FrameOK
  <1>8. f.redirects <= Top.redirects
    BY <1>3, <1>5, BoundsAssumption
  <1> QED
    BY <1>1, <1>5, <1>6, <1>7, <1>8, NestOK

-----------------------------------------------------------------------------
(***************************************************************************)
(* The first block of send_.                                               *)
(***************************************************************************)

\* With a socket to write to, the activation is counted.
LEMMA BeginsOK ==
  ASSUME IInv, At("begin"), NEW s \in Sockets, Unused \in Nat,
         Become([Top EXCEPT !.pc = "write", !.strm = s, !.n = Unused]),
         inFlight' = inFlight + 1, owner' = holder, shouldClose' = FALSE,
         peerClosed' \in BOOLEAN, UNCHANGED <<settings, holder, bounds>>
  PROVE  /\ StackInv' /\ CountInv' /\ stack' # <<>>
         /\ Top'.pc = "write" /\ Top'.strm = s /\ ~Top'.ret
  <1>1. /\ Top \in Frames /\ FrameOK(Top, Len(stack)) /\ Len(stack) \in Nat \ {0}
        /\ Top.redirects <= Top.redirects /\ stack # <<>> /\ Top.pc = "begin"
    BY FrameType DEF At
  <1>2. Top.got = 0 /\ ~Top.ret
    BY <1>1 DEF FrameOK
  <1> DEFINE f == [Top EXCEPT !.pc = "write", !.strm = s, !.n = Unused]
  <1>3. /\ f \in Frames /\ f.pc = "write" /\ f.redirects = Top.redirects
        /\ f.auths = Top.auths /\ f.got = Top.got /\ f.ret = Top.ret /\ f.strm = s
    BY <1>1 DEF Frames, Pcs
  <1> HIDE DEF f
  <1>4. FrameOK(f, Len(stack))
    BY <1>1, <1>2, <1>3 DEF FrameOK
  <1>5. StackInv' /\ stack' # <<>> /\ Len(stack') = Len(stack) /\ Top' = f
    BY <1>1, <1>3, <1>4, GoOn DEF IInv, f
  <1>6. CountInv'
    <2>1. inFlight = Len(stack) - 1 /\ inFlight' = Len(stack') /\ inFlight' # 0
      BY <1>1, <1>5 DEF IInv, CountInv
    <2>2. ~At("begin")'
      BY <1>3, <1>5 DEF At
    <2>3. /\ settings' \in Settings /\ stopped' \in BOOLEAN
          /\ calls' \in 0 .. MaxCalls /\ stops' \in 0 .. MaxStops
          /\ holder' \in Threads \cup {None} /\ holder' # None
      BY <1>1 DEF IInv, CountInv, bounds
    <2> QED
      BY <1>5, <2>1, <2>2, <2>3 DEF CountInv
  <1> QED
    BY <1>2, <1>3, <1>5, <1>6

LEMMA BeginReuseOK == ASSUME IInv, BeginReuse PROVE IInv'
  <1>1. /\ At("begin") /\ sock # 0 /\ UNCHANGED <<settings, sock, ssl, holder, peerClosed, conn, bounds>>
        /\ Become([Top EXCEPT !.pc = "write", !.strm = sock, !.n = Unused])
        /\ inFlight' = inFlight + 1 /\ owner' = holder /\ shouldClose' = FALSE
    BY DEF BeginReuse, IsAlive
  <1>2. sock \in Sockets /\ Clean(sock) /\ Unused \in Nat /\ peerClosed \in BOOLEAN
    BY <1>1, AllClean, UnusedIsNumber DEF IInv, SocketInv, CountInv
  <1>3. /\ StackInv' /\ CountInv' /\ stack' # <<>>
        /\ Top'.pc = "write" /\ Top'.strm = sock /\ ~Top'.ret
    BY <1>1, <1>2, BeginsOK
  <1>4. SocketInv'
    BY <1>1, SameSocket DEF IInv
  <1>5. TopInv'
    BY <1>1, <1>2, <1>3 DEF TopInv, At, Clean
  <1> QED
    BY <1>3, <1>4, <1>5 DEF IInv

\* A dead socket is closed before another one takes its place.
LEMMA BeginConnectOK == ASSUME IInv, BeginConnect PROVE IInv'
  <1>1. PICK s \in Sockets :
          /\ conn' = [CloseOf(sock) EXCEPT ![s] = Fresh] /\ sock' = s
          /\ Become([Top EXCEPT !.pc = "write", !.strm = s, !.n = Unused])
    BY DEF BeginConnect
  <1>2. /\ At("begin") /\ UNCHANGED <<settings, holder, bounds>>
        /\ inFlight' = inFlight + 1 /\ owner' = holder /\ shouldClose' = FALSE
        /\ ssl' = settings.ssl /\ peerClosed' = FALSE
    BY DEF BeginConnect
  <1>3. Unused \in Nat
    BY <1>2, AllClean, UnusedIsNumber DEF IInv
  <1>4. /\ StackInv' /\ CountInv' /\ stack' # <<>>
        /\ Top'.pc = "write" /\ Top'.strm = s /\ ~Top'.ret
    BY <1>1, <1>2, <1>3, BeginsOK
  <1>5. /\ Closed \in Conn /\ Closed.state = "closed"
        /\ Fresh \in Conn /\ Fresh.state = "open" /\ Fresh.request = 0 /\ Fresh.answers = <<>>
    <2>1. <<>> \in Seq([n: Nat, status: Statuses, close: BOOLEAN])
      OBVIOUS
    <2> QED
      BY <2>1 DEF Closed, Fresh, Conn
  <1>6. CloseOf(sock) \in [Sockets -> Conn] /\ \A q \in Sockets : CloseOf(sock)[q] = Closed
    BY <1>5, SocketsAssumption DEF CloseOf, IInv, SocketInv
  <1>7. conn' \in [Sockets -> Conn] /\ conn'[s] = Fresh
        /\ \A q \in Sockets : q # s => conn'[q] = Closed
    BY <1>1, <1>5, <1>6
  <1>8. s # 0 /\ settings' = settings /\ settings.ssl \in BOOLEAN
    BY <1>2, SocketsAssumption DEF IInv, CountInv, Settings
  <1>9. SocketInv'
    BY <1>1, <1>2, <1>5, <1>7, <1>8 DEF SocketInv
  <1>10. TopInv'
    BY <1>1, <1>2, <1>4, <1>5, <1>7, <1>8 DEF TopInv, At, Clean
  <1> QED
    BY <1>4, <1>9, <1>10 DEF IInv

-----------------------------------------------------------------------------
(***************************************************************************)
(* The end of send_.                                                       *)
(***************************************************************************)

\* Once the activation is no longer counted, and the socket holds nothing of
\* it, the caller goes on with the result.
LEMMA EndOK ==
  ASSUME IInv, stack # <<>>, NEW f \in Frames, NEW gone \in BOOLEAN,
         f.redirects = Top.redirects, f.auths = Top.auths, Return(f, gone),
         inFlight' = Len(stack) - 1,
         owner' = IF Len(stack) = 1 THEN None ELSE holder,
         SocketInv', sock' # 0 => Clean(sock)', peerClosed' \in BOOLEAN,
         peerClosed' => ~f.ret, shouldClose' \in BOOLEAN,
         UNCHANGED <<settings, bounds>>
  PROVE  IInv'
  <1>1. Len(stack) \in Nat \ {0} /\ holder \in Threads \cup {None} /\ holder # None
        /\ None \in Threads \cup {None}
    BY FrameType DEF IInv, CountInv
  <1>2. /\ StackInv'
        /\ \/ /\ stack' # <<>> /\ Len(stack') = Len(stack) /\ holder' = holder
              /\ Top'.pc = "begin" /\ ~Top'.ret
           \/ Len(stack) = 1 /\ stack' = <<>> /\ holder' = None
           \/ /\ stack' # <<>> /\ Len(stack') = Len(stack) - 1 /\ holder' = holder
              /\ Top'.pc \in {"leave", "authorize"} /\ Top'.ret = f.ret
    BY ReturnOK DEF IInv
  <1>3. /\ settings' \in Settings /\ stopped' \in BOOLEAN
        /\ calls' \in 0 .. MaxCalls /\ stops' \in 0 .. MaxStops
        /\ peerClosed' \in BOOLEAN /\ shouldClose' \in BOOLEAN
    BY DEF IInv, CountInv, bounds
  <1>4. CASE /\ stack' # <<>> /\ Len(stack') = Len(stack) /\ holder' = holder
             /\ Top'.pc = "begin" /\ ~Top'.ret
    <2>1. CountInv'
      BY <1>1, <1>3, <1>4 DEF CountInv, At
    <2>2. TopInv'
      BY <1>4 DEF TopInv, At
    <2> QED
      BY <1>2, <2>1, <2>2 DEF IInv
  <1>5. CASE Len(stack) = 1 /\ stack' = <<>> /\ holder' = None
    <2>1. CountInv'
      <3>1. Len(stack') = 0 /\ ~At("begin")'
        BY <1>5 DEF At
      <3> QED
        BY <1>1, <1>3, <1>5, <3>1 DEF CountInv
    <2>2. TopInv'
      BY <1>5 DEF TopInv, At
    <2> QED
      BY <1>2, <2>1, <2>2 DEF IInv
  <1>6. CASE /\ stack' # <<>> /\ Len(stack') = Len(stack) - 1 /\ holder' = holder
             /\ Top'.pc \in {"leave", "authorize"} /\ Top'.ret = f.ret
    <2>1. Len(stack') # 0
      <3>1. stack' \in Seq(Frames)
        BY <1>2 DEF StackInv, StackOK
      <3> QED
        BY <1>6, <3>1, EmptySeq
    <2>2. CountInv'
      BY <1>1, <1>3, <1>6, <2>1 DEF CountInv, At
    <2>3. TopInv'
      BY <1>6 DEF TopInv, At
    <2> QED
      BY <1>2, <2>2, <2>3 DEF IInv
  <1> QED
    BY <1>2, <1>4, <1>5, <1>6

LEMMA BeginRefusedOK == ASSUME IInv, BeginRefused PROVE IInv'
  <1>1. /\ At("begin") /\ shouldClose' = FALSE /\ CloseSocket
        /\ UNCHANGED <<settings, inFlight, owner, bounds>>
    BY DEF BeginRefused
  <1>2. Top \in Frames /\ Len(stack) \in Nat \ {0} /\ stack # <<>>
    BY <1>1, FrameType DEF At
  <1>3. inFlight' = Len(stack) - 1 /\ peerClosed \in BOOLEAN
        /\ owner' = IF Len(stack) = 1 THEN None ELSE holder
    BY <1>1, <1>2 DEF IInv, CountInv
  <1>4. SocketInv' /\ sock' = 0
    BY <1>1, CloseOK DEF IInv
  <1>5. ASSUME NEW ret \in BOOLEAN, NEW gone \in BOOLEAN, gone => ~ret,
               peerClosed' = gone, Return([Top EXCEPT !.ret = ret], gone)
        PROVE  IInv'
    <2> DEFINE f == [Top EXCEPT !.ret = ret]
    <2>1. f \in Frames /\ f.redirects = Top.redirects /\ f.auths = Top.auths /\ f.ret = ret
      BY <1>2 DEF Frames
    <2>2. Return(f, gone)
      BY <1>5
    <2> HIDE DEF f
    <2> QED
      BY <1>1, <1>2, <1>3, <1>4, <1>5, <2>1, <2>2, EndOK
  <1>6. CASE /\ peerClosed' \in {FALSE, peerClosed}
             /\ Return([Top EXCEPT !.ret = FALSE], peerClosed')
    BY <1>3, <1>5, <1>6
  <1>7. CASE peerClosed' = FALSE /\ Return([Top EXCEPT !.ret = TRUE], FALSE)
    BY <1>5, <1>7
  <1> QED
    BY <1>6, <1>7 DEF BeginRefused

\* What fails closes the socket, so what is handed on has read its answer.
LEMMA LeaveOK == ASSUME IInv, Leave PROVE IInv'
  <1>1. /\ stack # <<>> /\ Top.pc = "leave" /\ Return(Top, peerClosed)
        /\ UNCHANGED <<settings, bounds, shouldClose, peerClosed>>
        /\ inFlight' = inFlight - 1 /\ owner' = IF inFlight = 1 THEN None ELSE owner
    BY DEF Leave, At
  <1>2. Top \in Frames /\ Len(stack) \in Nat \ {0}
    BY <1>1, FrameType
  <1>3. inFlight = Len(stack) /\ owner = holder
        /\ peerClosed \in BOOLEAN /\ shouldClose \in BOOLEAN /\ (peerClosed => ~Top.ret)
    BY <1>1, <1>2 DEF IInv, CountInv, TopInv, At
  <1>4. SocketInv' /\ (sock' # 0 => Clean(sock)')
    <2>1. CASE shouldClose \/ ~settings.keep_alive \/ ~Top.ret
      <3>1. SocketInv' /\ sock' = 0
        BY <1>1, <2>1, CloseOK DEF IInv, Leave
      <3> QED
        BY <3>1
    <2>2. CASE ~(shouldClose \/ ~settings.keep_alive \/ ~Top.ret)
      <3>1. UNCHANGED <<sock, ssl, conn>> /\ Top.ret
        BY <2>2 DEF Leave
      <3>2. sock # 0 => Clean(sock)
        BY <1>1, <3>1 DEF IInv, TopInv, At
      <3> QED
        BY <1>1, <3>1, <3>2, SameSocket DEF IInv, Clean
    <2> QED
      BY <2>1, <2>2
  <1> QED
    BY <1>1, <1>2, <1>3, <1>4, EndOK

-----------------------------------------------------------------------------
(***************************************************************************)
(* The other threads and the server.                                       *)
(***************************************************************************)

LEMMA CallOK == ASSUME IInv, NEW t \in Threads, Call(t) PROVE IInv'
  <1>1. /\ holder = None /\ holder' = t /\ t # None /\ peerClosed' = FALSE
        /\ calls < MaxCalls /\ calls' = calls + 1 /\ stopped' = FALSE
        /\ UNCHANGED <<settings, sock, ssl, inFlight, owner, shouldClose, conn, stops>>
    BY ThreadsAssumption DEF Call, members
  <1> DEFINE f == Frame("call", RedirectMax, 0)
  <1>2. /\ f \in Frames /\ f.pc = "begin" /\ f.redirects = RedirectMax
        /\ f.auths = 0 /\ f.got = 0 /\ f.ret = FALSE
    BY BoundsAssumption DEF Frame, Frames, Pcs, Statuses
  <1>3. stack' = <<f>>
    BY DEF Call
  <1> HIDE DEF f
  <1>4. FrameOK(f, 1)
    BY <1>2, BoundsAssumption DEF FrameOK
  <1>5. Len(stack') = 1 /\ stack' \in Seq(Frames) /\ Top' = f /\ stack' # <<>>
    BY <1>2, <1>3 DEF Top
  <1>6. StackInv'
    <2>1. ASSUME NEW i \in 1 .. 1 PROVE FrameOK(stack'[i], 1 + 1 - i) /\ ~(i > 1)
      BY <1>3, <1>4
    <2> QED
      BY <1>5, <2>1 DEF StackInv, StackOK
  <1>7. stack = <<>> /\ Len(stack) = 0 /\ ~At("begin")
    BY <1>1 DEF IInv, CountInv, At
  <1>8. CountInv'
    <2>1. inFlight = 0 /\ owner = None /\ calls \in 0 .. MaxCalls
      BY <1>7 DEF IInv, CountInv
    <2>2. calls' \in 0 .. MaxCalls
      BY <1>1, <2>1, BoundsAssumption
    <2>3. At("begin")'
      BY <1>2, <1>5 DEF At
    <2>4. /\ settings' \in Settings /\ shouldClose' \in BOOLEAN /\ stops' \in 0 .. MaxStops
          /\ peerClosed' \in BOOLEAN /\ stopped' \in BOOLEAN
          /\ holder' \in Threads \cup {None} /\ holder' # None
      BY <1>1 DEF IInv, CountInv
    <2>5. inFlight' = 0 /\ owner' = None
      BY <1>1, <2>1
    <2> QED
      BY <1>5, <2>2, <2>3, <2>4, <2>5 DEF CountInv
  <1>9. SocketInv'
    BY <1>1, SameSocket DEF IInv
  <1>10. TopInv'
    BY <1>1, <1>2, <1>5, <1>7 DEF IInv, TopInv, At, Clean
  <1> QED
    BY <1>6, <1>8, <1>9, <1>10 DEF IInv

\* Under a request the socket is only shut down; without one it is closed.
LEMMA StopOK == ASSUME IInv, Stop PROVE IInv'
  <1>1. /\ stops < MaxStops /\ stops' = stops + 1
        /\ UNCHANGED <<settings, inFlight, owner, holder, stack, peerClosed, calls>>
    BY DEF Stop
  <1>2. StackInv'
    BY <1>1 DEF IInv, StackInv
  <1>3. UNCHANGED Top /\ \A pc \in Pcs : UNCHANGED At(pc)
    BY <1>1 DEF At, Top
  <1>4. shouldClose' \in BOOLEAN /\ stopped' \in BOOLEAN
    BY DEF Stop, IInv, CountInv
  <1>5. CountInv'
    <2>1. stops' \in 0 .. MaxStops
      BY <1>1, BoundsAssumption DEF IInv, CountInv
    <2>2. UNCHANGED At("begin")
      BY <1>3 DEF Pcs
    <2> QED
      BY <1>1, <1>4, <2>1, <2>2 DEF IInv, CountInv
  <1>6. CASE inFlight > 0
    <2>1. conn' = ShutDown(sock) /\ UNCHANGED <<sock, ssl>>
      BY <1>6 DEF Stop
    <2>2. CASE sock = 0
      <3>1. conn' = conn
        BY <2>1, <2>2 DEF ShutDown
      <3>2. SocketInv'
        BY <1>1, <2>1, <3>1, SameSocket DEF IInv
      <3>3. TopInv'
        BY <1>1, <2>1, <3>1 DEF IInv, TopInv, At, Clean, Top
      <3> QED
        BY <1>2, <1>5, <3>2, <3>3 DEF IInv
    <2>3. CASE sock # 0
      <3> DEFINE c == [conn[sock] EXCEPT !.state = "shut"]
      <3>1. sock \in Sockets /\ conn[sock] \in Conn /\ conn[sock].state # "closed"
        BY <2>3 DEF IInv, SocketInv
      <3>2. conn' = [conn EXCEPT ![sock] = c]
        BY <2>1, <2>3 DEF ShutDown
      <3>3. /\ c \in Conn /\ c.state = "shut" /\ c.request = conn[sock].request
            /\ c.answers = conn[sock].answers
        BY <3>1 DEF Conn
      <3> HIDE DEF c
      <3>4. SocketInv' /\ conn'[sock] = c
        BY <1>1, <2>1, <3>1, <3>2, <3>3, ExchangeOK DEF IInv
      <3>5. TopInv'
        BY <1>1, <2>1, <3>3, <3>4 DEF IInv, TopInv, At, Clean, Top
      <3> QED
        BY <1>2, <1>5, <3>4, <3>5 DEF IInv
    <2> QED
      BY <2>2, <2>3
  <1>7. CASE ~(inFlight > 0)
    <2>1. SocketInv' /\ sock' = 0
      BY <1>1, <1>7, CloseOK DEF Stop, IInv
    <2>2. ~At("write") /\ ~At("read") /\ ~At("answered") /\ ~At("follow")
      <3>1. ASSUME stack # <<>>, ~At("begin") PROVE FALSE
        BY <1>7, <3>1, FrameType DEF IInv, CountInv
      <3> QED
        BY <3>1 DEF At
    <2>3. TopInv'
      BY <1>1, <2>1, <2>2 DEF IInv, TopInv, At, Clean, Top
    <2> QED
      BY <1>2, <1>5, <2>1, <2>3 DEF IInv
  <1> QED
    BY <1>6, <1>7 DEF IInv, CountInv

\* The answer to the request that the innermost activation waits for, or to
\* one that failed and whose socket is closed in the last block.
LEMMA ServerAnswersOK ==
  ASSUME IInv, NEW s \in Sockets, ServerAnswers(s) PROVE IInv'
  <1>1. /\ conn[s].state = "open" /\ conn[s].request # 0 /\ conn[s] \in Conn
        /\ UNCHANGED <<settings, sock, ssl, inFlight, owner, shouldClose, holder, stack,
                       peerClosed, bounds>>
    BY DEF ServerAnswers, members, IInv, SocketInv
  <1> DEFINE Answer == [n: Nat, status: Statuses, close: BOOLEAN]
             a(status, close) == [n |-> conn[s].request, status |-> status, close |-> close]
             c(status, close) ==
               [conn[s] EXCEPT !.request = 0, !.peer = ~close,
                               !.answers = Append(conn[s].answers, a(status, close))]
  <1>2. PICK status \in Statuses, close \in BOOLEAN :
          conn' = [conn EXCEPT ![s] = c(status, close)]
    BY DEF ServerAnswers
  <1>3. a(status, close) \in Answer /\ a(status, close).n = conn[s].request
    BY <1>1 DEF Conn
  <1>4. conn[s].answers \in Seq(Answer)
    BY <1>1 DEF Conn
  <1> HIDE DEF a
  <1>5. /\ Append(conn[s].answers, a(status, close)) \in Seq(Answer)
        /\ conn[s].answers = <<>> =>
             /\ Len(Append(conn[s].answers, a(status, close))) = 1
             /\ Append(conn[s].answers, a(status, close))[1] = a(status, close)
    BY <1>3, <1>4, AppendProperties
  <1>6. /\ c(status, close) \in Conn /\ c(status, close).state = "open"
        /\ c(status, close).request = 0
        /\ c(status, close).answers = Append(conn[s].answers, a(status, close))
    BY <1>1, <1>5 DEF Conn
  <1> HIDE DEF c
  <1>7. SocketInv' /\ conn'[sock] = c(status, close) /\ s = sock
    BY <1>1, <1>2, <1>6, ExchangeOK DEF IInv
  <1>8. StackInv' /\ CountInv'
    BY <1>1 DEF IInv, StackInv, CountInv, At, Top, bounds
  <1>9. At("read") \/ (At("leave") /\ ~Top.ret)
    BY <1>1, <1>7, SocketsAssumption DEF IInv, TopInv, Clean
  <1>10. At("read") => conn[s].request = Top.n /\ conn[s].answers = <<>>
    BY <1>1, <1>7 DEF IInv, TopInv
  <1>11. TopInv'
    <2>1. UNCHANGED Top /\ stack' = stack /\ sock' = sock /\ peerClosed' = peerClosed
      BY <1>1 DEF Top
    <2>2. At("read") => /\ conn'[sock].request = 0 /\ Len(conn'[sock].answers) = 1
                        /\ conn'[sock].answers[1].n = Top.n
      BY <1>3, <1>5, <1>6, <1>7, <1>10
    <2> QED
      BY <1>9, <2>1, <2>2 DEF IInv, TopInv, At
  <1> QED
    BY <1>7, <1>8, <1>11 DEF IInv

LEMMA ServerClosesOK ==
  ASSUME IInv, NEW s \in Sockets, ServerCloses(s) PROVE IInv'
  <1>1. /\ conn[s].state # "closed" /\ conn[s] \in Conn
        /\ UNCHANGED <<settings, sock, ssl, inFlight, owner, shouldClose, holder, stack,
                       peerClosed, bounds>>
    BY DEF ServerCloses, members, IInv, SocketInv
  <1> DEFINE c == [conn[s] EXCEPT !.peer = FALSE, !.request = 0]
  <1>2. conn' = [conn EXCEPT ![s] = c]
    BY DEF ServerCloses
  <1>3. /\ c \in Conn /\ c.state = conn[s].state /\ c.request = 0
        /\ c.answers = conn[s].answers
    BY <1>1 DEF Conn
  <1> HIDE DEF c
  <1>4. SocketInv' /\ conn'[sock] = c /\ s = sock
    BY <1>1, <1>2, <1>3, ExchangeOK DEF IInv
  <1>5. StackInv' /\ CountInv'
    BY <1>1 DEF IInv, StackInv, CountInv, At, Top, bounds
  <1>6. TopInv'
    BY <1>1, <1>3, <1>4 DEF IInv, TopInv, At, Clean, Top
  <1> QED
    BY <1>4, <1>5, <1>6 DEF IInv

-----------------------------------------------------------------------------
(***************************************************************************)
(* The theorems.                                                           *)
(***************************************************************************)

LEMMA InitInv == ASSUME Init PROVE IInv
  <1>1. StackInv /\ ~At("begin") /\ Len(stack) = 0
    BY DEF Init, StackInv, StackOK, At
  <1>2. CountInv
    <2>1. /\ settings \in Settings /\ shouldClose = FALSE /\ peerClosed = FALSE
          /\ stopped = FALSE /\ calls = 0 /\ stops = 0 /\ holder = None /\ stack = <<>>
          /\ inFlight = 0 /\ owner = None
      BY DEF Init
    <2>2. 0 \in 0 .. MaxCalls /\ 0 \in 0 .. MaxStops
      BY BoundsAssumption
    <2>3. inFlight = IF At("begin") THEN Len(stack) - 1 ELSE Len(stack)
      BY <1>1, <2>1
    <2>4. owner = IF inFlight = 0 THEN None ELSE holder
      BY <2>1
    <2>5. holder = None <=> stack = <<>>
      BY <2>1
    <2> QED
      BY <2>1, <2>2, <2>3, <2>4, <2>5, Zenon DEF CountInv
  <1>3. Closed \in Conn /\ Closed.state = "closed"
    <2>1. <<>> \in Seq([n: Nat, status: Statuses, close: BOOLEAN])
      OBVIOUS
    <2> QED
      BY <2>1 DEF Closed, Conn
  <1>4. SocketInv
    BY <1>3, SocketsAssumption DEF Init, SocketInv
  <1>5. TopInv
    BY DEF Init, TopInv, At
  <1> QED
    BY <1>1, <1>2, <1>4, <1>5 DEF IInv

LEMMA StepInv == IInv /\ [Next]_vars => IInv'
  <1> SUFFICES ASSUME IInv, [Next]_vars PROVE IInv'
    OBVIOUS
  <1>1. CASE UNCHANGED vars
    BY <1>1 DEF vars, members, bounds, IInv, StackInv, CountInv, SocketInv, TopInv, At, Top, Clean
  <1>2. ASSUME NEW t \in Threads, Call(t) PROVE IInv'
    BY <1>2, CallOK
  <1>3. CASE BeginReuse
    BY <1>3, BeginReuseOK
  <1>4. CASE BeginConnect
    BY <1>4, BeginConnectOK
  <1>5. CASE BeginRefused
    BY <1>5, BeginRefusedOK
  <1>6. CASE Write
    BY <1>6, WriteOK
  <1>7. CASE WriteFails \/ ReadFails \/ ReadPeerClosed
    <2>1. peerClosed \in BOOLEAN
      BY DEF IInv, CountInv
    <2> QED
      BY <1>7, <2>1, FailsOK DEF WriteFails, ReadFails, ReadPeerClosed
  <1>8. CASE Read
    BY <1>8, ReadOK
  <1>9. CASE Answered
    BY <1>9, AnsweredOK
  <1>10. CASE NoRedirect
    BY <1>10, NoRedirectOK
  <1>11. CASE RedirectFails
    BY <1>11, RedirectFailsOK
  <1>12. CASE RedirectSame
    BY <1>12, RedirectSameOK
  <1>13. CASE RedirectElsewhere
    BY <1>13, RedirectElsewhereOK
  <1>14. CASE Authorize
    BY <1>14, AuthorizeOK
  <1>15. CASE NoAuthorize
    BY <1>15, NoAuthorizeOK
  <1>16. CASE Leave
    BY <1>16, LeaveOK
  <1>17. CASE Stop
    BY <1>17, StopOK
  <1>18. ASSUME NEW s \in Sockets, ServerAnswers(s) PROVE IInv'
    BY <1>18, ServerAnswersOK
  <1>19. ASSUME NEW s \in Sockets, ServerCloses(s) PROVE IInv'
    BY <1>19, ServerClosesOK
  <1> QED
    BY <1>1, <1>2, <1>3, <1>4, <1>5, <1>6, <1>7, <1>8, <1>9, <1>10, <1>11, <1>12, <1>13,
       <1>14, <1>15, <1>16, <1>17, <1>18, <1>19 DEF Next, ClientStep

\* The inductive invariant holds always.
THEOREM Invariant == Spec => []IInv
  BY InitInv, StepInv, PTL DEF Spec

\* Every variable has its type; the requests in flight are never more than the
\* activations, and redirects and authentications nest no deeper than
\* redirect_count_ and authorization_count_ together allow.
THEOREM TypeCorrect == Spec => []TypeOK
  <1>1. IInv => TypeOK
    <2> SUFFICES ASSUME IInv PROVE TypeOK
      OBVIOUS
    <2>1. Len(stack) \in Nat /\ Len(stack) <= 1 + RedirectMax + AuthorizationMax
      <3>1. CASE stack = <<>>
        BY <3>1, BoundsAssumption
      <3>2. CASE stack # <<>>
        <4>1. /\ Top \in Frames /\ Len(stack) \in Nat
              /\ Len(stack) + Top.redirects <= 1 + RedirectMax + Top.auths
          BY <3>2, FrameType DEF FrameOK
        <4> QED
          BY <4>1, FrameNumbers, BoundsAssumption
      <3> QED
        BY <3>1, <3>2
    <2>2. inFlight \in 0 .. Len(stack)
      <3>1. At("begin") => Len(stack) \in Nat \ {0}
        BY FrameType DEF At
      <3> QED
        BY <2>1, <3>1 DEF IInv, CountInv
    <2>3. owner \in Threads \cup {None} /\ (owner # None => owner = holder)
      BY DEF IInv, CountInv
    <2> QED
      BY <2>1, <2>2, <2>3 DEF TypeOK, IInv, CountInv, SocketInv
  <1> QED
    BY <1>1, Invariant, PTL

\* What is read and written is the socket of the request, which neither stop
\* nor another thread has closed under it.
THEOREM NoClosedSocketIsUsed == Spec => []NoUseOfClosedSocket
  <1>1. IInv => NoUseOfClosedSocket
    BY DEF IInv, TopInv, SocketInv, NoUseOfClosedSocket
  <1> QED
    BY <1>1, Invariant, PTL

\* A late answer to a request that was given up is never taken for another's:
\* what fails closes the socket before the next request.
THEOREM AnswersBelong == Spec => []AnswerIsForRequest
  <1>1. IInv => AnswerIsForRequest
    <2> SUFFICES ASSUME IInv, NEW i \in DOMAIN stack PROVE stack[i].got \in {0, stack[i].n}
      BY DEF AnswerIsForRequest
    <2>1. i \in 1 .. Len(stack)
      BY LenProperties DEF IInv, StackInv, StackOK
    <2> QED
      BY <2>1 DEF IInv, StackInv, StackOK, FrameOK
  <1> QED
    BY <1>1, Invariant, PTL

\* The client knows every descriptor and session it holds, whatever fails.
THEOREM EverythingIsReleased == Spec => []NothingLeaks
  <1>1. IInv => NothingLeaks
    BY DEF IInv, SocketInv, NothingLeaks
  <1> QED
    BY <1>1, Invariant, PTL

\* The assertion of send: no request succeeds whose SSL peer has closed.
THEOREM PeerClosedIsFailure == Spec => []PeerClosedMeansFailed
  <1>1. IInv => PeerClosedMeansFailed
    BY DEF IInv, TopInv, PeerClosedMeansFailed, At
  <1> QED
    BY <1>1, Invariant, PTL
=============================================================================
