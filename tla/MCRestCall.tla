----------------------------- MODULE MCRestCall ------------------------------
(* An instance of RestCall: echo functions and one of the application, with   *)
(* every kind of description, and requests and calls with every kind of value.*)
EXTENDS RestCall

MCGarbage == [type \in Types \ {"string"} |-> IF type = "bool" THEN BOOLEAN ELSE {-1, 3}]

Separator == <<"separator">>
MCSeparator == <<Separator>>

Required(name, type) == [name |-> name, type |-> type, array |-> FALSE, required |-> TRUE]
Optional(name, type) == [name |-> name, type |-> type, array |-> FALSE, required |-> FALSE]

MCFunctions == <<
  [paths |-> {"/echo"}, echo |-> TRUE,
   descriptions |-> <<Required("f", "float"), Required("n", "int"), Required("s", "string")>>],
  [paths |-> {"/echo", "/custom"}, echo |-> FALSE,
   descriptions |-> <<Required("c", "char"), Optional("n", "long"), Required("n", "int"),
                      Optional("b", "bool")>>],
  [paths |-> {"/all"}, echo |-> TRUE,
   descriptions |-> <<Optional("b", "bool"), Optional("l", "long"), Optional("d", "double"),
                      Optional("n", "int"), Optional("s", "string")>>] >>

Param(name, text) == [name |-> name, text |-> text]
One(k) == <<Number(k * Unit)>>
Request(method, path, ps) ==
  [method |-> method, path |-> path,
   params |-> FoldLeft(LAMBDA map, p : emplace(map, p.name, p.text), NoParams, ps)]
Enough == <<Param("f", <<Number(Unit + 1)>>), Param("n", One(2)), Param("s", <<Word("x")>>)>>

MCRequests == <<
  Request("GET", "/echo", Enough),
  Request("HEAD", "/echo", Enough),
  Request("POST", "/echo", Enough),
  Request("TRACE", "/echo", <<>>),
  Request("BREW", "/echo", <<>>),
  Request("GET", "/none", <<>>),
  Request("GET", "/echo", <<Param("n", One(1))>>),
  Request("GET", "/echo", <<Param("f", <<>>), Param("n", <<Space>>), Param("s", <<>>)>>),
  Request("GET", "/echo", <<Param("n", One(9)), Param("n", One(1)), Param("s", <<Word("x")>>),
                            Param("f", <<Word("x")>>)>>),
  Request("GET", "/custom", <<Param("c", <<Word("x")>>), Param("n", <<Number(-9 * Unit - 1)>>)>>),
  Request("GET", "/custom", <<Param("n", One(1)), Param("b", <<Word("true")>>)>>),
  Request("GET", "/all", <<Param("b", <<>>), Param("l", <<Space, Number(7 * Unit), Separator>>)>>),
  Request("GET", "/all", <<Param("s", [i \in 1 .. UriMax |-> Word("x")])>>) >>

Scalar(name, type, value) == [name |-> name, type |-> type, array |-> FALSE, value |-> value]
Array(name, type, value) == [name |-> name, type |-> type, array |-> TRUE, value |-> value]
Call1(path, ps) == [address |-> path, params |-> ps]

MCCalls == <<
  Call1("/echo", <<Scalar("n", "int", 2), Scalar("f", "float", 3 * Unit + 5),
                   Scalar("s", "string", <<Word("x"), Separator>>)>>),
  Call1("/echo", <<Scalar("n", "int", -IntMax - 1), Scalar("f", "float", -Unit - 7),
                   Scalar("s", "string", <<Number(Unit)>>)>>),
  Call1("/echo", <<Scalar("n", "int", 0)>>),
  Call1("/all", <<Scalar("b", "bool", TRUE), Scalar("l", "long", LongMax),
                  Scalar("d", "double", 1), Scalar("n", "long", LongMax)>>),
  Call1("/all", <<Scalar("b", "bool", FALSE), Scalar("l", "long", -LongMax - 1),
                  Scalar("c", "char", 0), Scalar("d", "double", -2)>>),
  Call1("/custom", <<Scalar("c", "char", 0), Array("b", "bool", <<TRUE, FALSE, TRUE>>),
                     Array("n", "int", <<1, -1>>)>>),
  Call1("/custom", <<Array("a", "double", <<Unit + 1, 0, -Unit - 1>>), Array("e", "long", <<>>),
                     Array("c", "string", <<<<Word("x")>>, <<Number(0), Space>>, <<Word("y")>>>>)>>),
  Call1("/all", <<Scalar("n", "int", 1), Scalar("", "int", 3), Scalar("n", "int", 0),
                  Scalar("b", "bool", TRUE), Scalar("n", "int", 1)>>),
  Call1("/all", <<Array("n", "int", [i \in 1 .. UriMax |-> 1])>>),
  Call1("/none", <<>>) >>

MCSpacedCalls == <<
  Call1("/echo", <<Scalar("n", "int", 2), Scalar("f", "float", Unit),
                   Scalar("s", "string", <<Word("Hello"), Space, Word("World")>>)>>),
  Call1("/echo", <<Scalar("n", "int", 1), Scalar("f", "float", 0),
                   Scalar("s", "string", <<Space>>)>>),
  Call1("/echo", <<Scalar("n", "int", 1), Scalar("f", "float", 0),
                   Scalar("s", "string", <<Word("Hello")>>)>>) >>
=============================================================================
