---------------------------- MODULE MCHttpFormats ----------------------------
(* A small instance of HttpFormats for TLC. *)
EXTENDS HttpFormats

Each(bytes) == {<<c>> : c \in bytes}

MCAlphabet ==
  \* NUL tab LF CR blank # % + 4 ? a u, not ASCII
  [text |-> Each({0, 9, 10, 13, 32, 35, 37, 43, 52, 63, 97, 117, 200}),
   unicode |-> Each({48, 55, 56, 68, 70}),            \* 0 7 8 D F
   query |-> Each({0, 32, 37, 38, 39, 43, 61, 97}),   \* end of value, blank % & ' + = a
   path |-> Each({0, 13, 46, 47, 92, 97}),            \* NUL CR . / \ a
   route |-> Each({47, 97, 98}),                      \* / a b
   \* , - 0 2 and whole ranges: "0-1," "1-," "2-2," "-1,"
   range |-> Each({44, 45, 48, 50})
               \cup {<<48, 45, 49, 44>>, <<49, 45, 44>>, <<50, 45, 50, 44>>, <<45, 49, 44>>}]
MCMaxLength ==
  [text |-> 4, unicode |-> 4, query |-> 4, path |-> 7, route |-> 7, range |-> 5]
MCPath == <<47, 97, 200>>
MCParamNames == <<<<97>>, <<97>>, <<98>>>>
\* "/a/:a", "/:a/a", "/:a/:a", "/:a/:b/", "/a/:a/b/:b"
MCPatterns ==
  {<<47, 97, 47, 58, 97>>, <<47, 58, 97, 47, 97>>, <<47, 58, 97, 47, 58, 97>>,
   <<47, 58, 97, 47, 58, 98, 47>>,
   <<47, 97, 47, 58, 97, 47, 98, 47, 58, 98>>}
MCLengths == {0, 1, 3, 21}

\* The names a, aa and others, and a tree with files beside the directories
\* that are mounted: b at /aa, c at / (and two mounts that are refused).
a == <<97>>
aa == <<97, 97>>
MCDirectories ==
  {<<>>, <<<<98>>>>, <<<<98>>, aa>>, <<<<99>>>>, <<<<99>>, <<13>>>>, <<<<99>>, a>>,
   <<<<99>>, a, aa>>,
   <<<<99>>, a, aa, IndexHtml>>}
MCFiles ==
  {<<a>>, <<IndexHtml>>, <<<<98>>, a>>, <<<<98>>, IndexHtml>>,
   <<<<99>>, aa>>, <<<<99>>, a, IndexHtml>>, <<<<99>>, a, a>>}
MCUnreadable == {<<<<98>>, a>>, <<<<99>>, a, a>>}
MCMounted ==
  <<[at |-> a, dir |-> <<47, 98>>], [at |-> <<47>>, dir |-> <<47, 100>>],
    [at |-> <<47, 97, 97>>, dir |-> <<47, 98>>], [at |-> <<>>, dir |-> <<47, 99>>]>>

Item(n, t, c) == [name |-> 300 + n, type |-> t, content |-> c]
\* Contents that look like the beginning of a boundary.
MCContents == UNION {[1..n -> {10, 13, 45, 98}] : n \in 0..3}
MCForms ==
  {<<>>}
    \cup {<<Item(1, t, c)>> : t \in {NoType, 401}, c \in MCContents}
    \cup {<<Item(1, 401, c), Item(2, NoType, d)>> :
            c, d \in {<<>>, <<13>>, <<13, 10, 45, 45>>}}
    \cup {<<Item(3, NoType, <<>>)>>, <<Item(1, 402, <<>>)>>}
\* As long as allowed, but for one name and one type.
MCLineSize ==
  [c \in Names \cup Types |-> IF c \in {303, 402} THEN 9 ELSE IF c = 401 THEN 5 ELSE 8]
=============================================================================
