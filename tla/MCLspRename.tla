---------------------------- MODULE MCLspRename ----------------------------
(***************************************************************************)
(* Workspaces of two files for the renames: a library r that defines a     *)
(* callable f in one of many ways, and a file m that loads and uses it.    *)
(***************************************************************************)
EXTENDS LspRename

Tree(op, names, kids) == [op |-> op, names |-> names, kids |-> kids, file |-> ""]
Id(n) == Tree("id", <<n>>, <<>>)
Member(head, n) == Tree("member", <<head, n>>, <<>>)
One == Tree("literal", <<>>, <<>>)
Plus(a, b) == Tree("operator", <<>>, <<a, b>>)
Call(callee, args, keys) == Tree("call", keys, <<callee>> \o args)
Lambda(params, body) == Tree("lambda", params, <<body>>)
Functionof(body, values, keys) == Tree("reify", keys, <<body>> \o values)
Record(values, keys) == Tree("record", keys, values)
Bind(name, rhs) == Tree("bind", <<name>>, <<rhs>>)
Elementof == Tree("input", <<>>, <<>>)
LoadOf(file, values, keys) == [Tree("load", keys, values) EXCEPT !.file = file]
Load(values, keys) == LoadOf("r", values, keys)

(* A tree as nodes, each after the nodes below it.                         *)
RECURSIVE Flatten(_, _)
Flatten(trees, offset) ==
  IF trees = <<>> THEN [nodes |-> <<>>, roots |-> <<>>]
  ELSE LET below == Flatten(Head(trees).kids, offset)
           first == Append(below.nodes, [Head(trees) EXCEPT !.kids = below.roots])
           rest == Flatten(Tail(trees), offset + Len(first))
       IN [nodes |-> first \o rest.nodes, roots |-> <<offset + Len(first)>> \o rest.roots]
Above(nodes, n) ==
  {p \in DOMAIN nodes : n \in Range(nodes[p].kids)}
File(trees) ==
  LET nodes == Flatten(trees, 0).nodes
      Up(n) == IF Above(nodes, n) = {} THEN 0 ELSE CHOOSE p \in Above(nodes, n) : TRUE
  IN [n \in DOMAIN nodes |-> nodes[n] @@ ("up" :> Up(n))]

-----------------------------------------------------------------------------
(* The library.                                                            *)
OneInput ==
  {Lambda(<<"a">>, Plus(Id("a"), Id("x"))),
   Lambda(<<"a">>, Plus(Id("_a_"), Id("exp"))),
   Lambda(<<"a">>, Call(Id("pushfwd"), <<Lambda(<<"b">>, Plus(Id("b"), Id("x"))), Id("a")>>, <<>>)),
   Lambda(<<"a">>, Functionof(One, <<Id("x")>>, <<"c">>)),
   Functionof(Plus(Id("_a_"), Id("x")), <<Id("_a_")>>, <<"a">>),
   Functionof(Plus(Id("_c_"), One), <<Id("_c_")>>, <<"a">>),
   Functionof(Plus(Id("x"), One), <<Id("x")>>, <<"a">>),
   Functionof(Call(Id("pushfwd"), <<Functionof(Id("_a_"), <<Id("_a_")>>, <<"a">>), Id("_a_")>>,
                   <<>>), <<Id("_a_")>>, <<"a">>)}
TwoInputs ==
  {Lambda(<<"a", "b">>, Plus(Id("a"), Plus(Id("b"), Member("self", "x")))),
   Functionof(Plus(Id("_a_"), Id("_b_")), <<Id("_a_"), Id("_b_")>>, <<"a", "b">>)}
FromBindings ==
  {Functionof(Plus(Id("x"), One), <<Id("x")>>, <<>>),
   Functionof(Plus(Id("x"), One), <<>>, <<>>)}

Library(rhs) == File(<<Bind("x", Elementof), Bind("f", rhs)>>)

(* The uses of f, through the module, its alias, a binding or a parameter. *)
F == Member("h", "f")
Direct(key) == {<<Bind("u", Call(F, <<One>>, <<key>>))>>,
                <<Bind("H", Id("h")), Bind("u", Call(Member("H", "f"), <<One>>, <<key>>))>>,
                <<Bind("g", F), Bind("u", Call(Id("broadcast"), <<Id("g"), Id("h")>>, <<key>>))>>,
                <<Bind("g", Lambda(<<"c">>, Call(Id("c"), <<One>>, <<key>>))),
                  Bind("u", Call(Id("g"), <<F>>, <<>>))>>,
                <<Bind("g", F), Bind("u", Call(Member("self", "g"), <<One>>, <<key>>))>>}
Indirect == {<<Bind("u", Call(Id("pushfwd"), <<F, One>>, <<>>))>>,
             <<Bind("u", Record(<<F>>, <<"a">>))>>,
             <<Bind("a", Lambda(<<"b">>, Plus(Id("b"), Member("h", "x")))),
               Bind("u", Call(Id("fchain"), <<Id("a"), F>>, <<>>))>>,
             <<Bind("u", Lambda(<<"a">>, Call(F, <<Plus(Id("a"), Id("exp"))>>, <<>>)))>>}
Both == {<<Bind("u", Call(F, <<One, One>>, <<"a", "b">>))>>,
         <<Bind("u", Call(F, <<One, One>>, <<"b">>))>>,
         <<Bind("y", Record(<<One, One>>, <<"a", "b">>)), Bind("u", Call(F, <<Id("y")>>, <<>>))>>,
         <<Bind("y", Record(<<One, One>>, <<"a", "b">>)),
           Bind("u", Call(Id("fchain"), <<Id("y"), F>>, <<>>))>>}

Main(load, uses) == File(<<Bind("h", load)>> \o uses)
Plain == Load(<<>>, <<>>)
Substituted == Load(<<One>>, <<"x">>)

(* The library as a member of an archive.                                  *)
Archived(rhs, uses) == [z |-> Library(rhs), m |-> Main(LoadOf("z", <<>>, <<>>), uses)]

MCWorkspaces ==
  UNION {{[r |-> Library(rhs), m |-> Main(Plain, uses)] : uses \in Direct("a") \cup Indirect}
           : rhs \in OneInput}
  \cup UNION {{[r |-> Library(rhs), m |-> Main(Plain, uses)] : uses \in Both \cup Indirect}
           : rhs \in TwoInputs}
  \cup UNION {{[r |-> Library(rhs), m |-> Main(Substituted, uses)] : uses \in Direct("x") \cup Indirect}
           : rhs \in FromBindings}
  \cup {Archived(Lambda(<<"a">>, Id("a")), uses) : uses \in Direct("a")}
=============================================================================
