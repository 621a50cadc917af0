------------------------------ MODULE MCInferWalk ------------------------------
(***************************************************************************)
(* Programs of up to three modules for InferWalk, and what a walk without  *)
(* errors must come to, defined by recursion on the program.               *)
(***************************************************************************)
EXTENDS InferWalk, SequencesExt

\* Expressions: arenas whose last node is the whole.
Leaf(op, names) == <<[op |-> op, kids |-> <<>>, names |-> names]>>
Moved(e, by) == [i \in DOMAIN e |-> [e[i] EXCEPT !.kids = [k \in DOMAIN @ |-> @[k] + by]]]
Unary(op, e, names) == Append(e, [op |-> op, kids |-> <<Len(e)>>, names |-> names])
Lit == Leaf("literal", <<>>)
Ext == Leaf("external", <<>>)
Bad == Leaf("unknown", <<>>)
X == Leaf("local", <<"x">>)
Ref(name) == Leaf("ref", <<name>>)
Import(alias, name) == Leaf("import", <<alias, name>>)
Vec(e) == Unary("vector", e, <<>>)
Fun(e) == Unary("fun", e, <<"local", "x">>)
FunOf(name, e) == Unary("fun", e, <<"self", name>>)
Load(dep) == Leaf("load", <<dep>>)
LoadWith(dep, input, e) == Unary("load", e, <<dep, input>>)
Apply(f, a) ==
  Append(f \o Moved(a, Len(f)),
         [op |-> "apply", kids |-> <<Len(f), Len(f) + Len(a)>>, names |-> <<>>])

\* A module from <<name, expression>> pairs; `private` is not exported.
Build(defs) ==
  FoldLeft(LAMBDA m, d :
             [nodes |-> m.nodes \o Moved(d[2], Len(m.nodes)),
              binds |-> Append(m.binds, [name |-> d[1], rhs |-> Len(m.nodes) + Len(d[2]),
                                         public |-> d[1] # "private"])],
           [nodes |-> <<>>, binds |-> <<>>], defs)

-----------------------------------------------------------------------------
\* What may stand where.
MainLoads == <<Load("p"), LoadWith("p", "k", Ref("v")), LoadWith("p", "k", Ref("g")),
               LoadWith("p", "f", Ref("v"))>>
MainValues == <<Import("n", "b"), Ref("y"), Fun(X), Bad>>
MainCallees == <<Import("m", "f"), Fun(Vec(X)), Apply(Import("m", "f"), Lit)>>
MainBodies == <<FunOf("v", Import("m", "a")), Fun(Apply(Ref("h"), Lit)),
                FunOf("g", Apply(Ref("g"), Lit)), FunOf("v", Vec(Ref("v")))>>
MainCalls == <<Apply(Ref("h"), Ref("v")), Apply(Ref("g"), Vec(Lit)),
               Apply(Import("m", "f"), Ref("g"))>>
DepLoads == <<LoadWith("r", "k", Ref("k")), Load("main")>>
DepCallees == <<Fun(Vec(X)), FunOf("k", Vec(Ref("k"))), FunOf("k", Import("n", "g")),
                Fun(Apply(Ref("f"), Lit)), Import("n", "g"), Lit>>
DepUses == <<Apply(Ref("f"), Lit), Import("n", "private"), Import("n", "b")>>

\* The importer, its bindings before or after their uses, the dependency p it
\* may put something into, and the dependency r of both.
Main(w) ==
  LET defs == <<<<"m", MainLoads[w.load]>>, <<"n", Load("r")>>, <<"v", MainValues[w.value]>>,
                <<"g", MainCallees[w.callee]>>, <<"h", MainBodies[w.body]>>,
                <<"y", MainCalls[w.call]>>>>
  IN  Build(IF w.usesFirst THEN Reverse(defs) ELSE defs)
P(w) == Build(<<<<"k", Ext>>, <<"n", DepLoads[w.depLoad]>>,
                <<"f", DepCallees[w.depCallee]>>, <<"a", DepUses[w.depUse]>>>>)
R == Build(<<<<"k", Ext>>, <<"private", Lit>>, <<"b", Vec(Ref("k"))>>,
             <<"g", FunOf("k", Vec(Ref("k")))>>>>)
Bundle(w) == [main |-> Main(w), p |-> P(w), r |-> R]

\* Importers with one dependency, some importers with every one, and
\* more of those that may be free of errors.
SmallPrograms ==
  {Bundle(w) : w \in
     [usesFirst : {FALSE}, load : 1..4, value : 1..4, callee : {1, 3}, body : 1..4,
      call : 1..3, depLoad : {1}, depCallee : {2}, depUse : {1}]
     \cup
     [usesFirst : {TRUE}, load : 1..2, value : 1..2, callee : {1}, body : {1},
      call : {1, 3}, depLoad : 1..2, depCallee : 1..6, depUse : 1..2]
     \cup
     [usesFirst : {FALSE}, load : 1..2, value : {1}, callee : 1..3, body : {1, 4},
      call : {1}, depLoad : {1}, depCallee : 1..5, depUse : {1, 3}]}

\* Importers with cycles of bindings or of calls, and a dependency that
\* imports the importer back.
CyclicPrograms ==
  {Bundle(w) : w \in
     [usesFirst : BOOLEAN, load : 1..2, value : {2}, callee : 1..2, body : 2..3,
      call : 1..2, depLoad : {2}, depCallee : {1, 5}, depUse : {2}]}

AllPrograms == SmallPrograms \cup CyclicPrograms

-----------------------------------------------------------------------------
\* The type of node n of module m when the bindings in `seeds` are replaced.
RECURSIVE Meaning(_, _, _, _)
Meaning(p, m, seeds, n) ==
  LET node == m.nodes[n]
      of(k) == Meaning(p, m, seeds, k)
      annos(alias) == LET subs == Substitutions(m, alias)
                      IN  [i \in DOMAIN subs |-> <<subs[i][1], of(subs[i][2])>>]
      source(alias) == p[m.nodes[Directive(m, alias)].names[1]]
      first(t) == IF IsFailed(t) THEN t ELSE Deferred
  IN CASE n \in DOMAIN seeds -> seeds[n]
       [] n \notin DOMAIN seeds /\ node.op \in {"literal", "external"} -> Real
       [] n \notin DOMAIN seeds /\ node.op \in {"local", "hole"} -> AnyType
       [] n \notin DOMAIN seeds /\ node.op = "load" -> ModuleType
       [] n \notin DOMAIN seeds /\ node.op = "fun" -> FunctionType
       [] n \notin DOMAIN seeds /\ node.op = "ref" -> of(RefRhs(m, n))
       [] n \notin DOMAIN seeds /\ node.op = "vector" ->
            IF Forbidden(of(node.kids[1])) THEN Failed("array element")
            ELSE IF IsFailed(of(node.kids[1])) THEN of(node.kids[1])
            ELSE Array(of(node.kids[1]))
       [] n \notin DOMAIN seeds /\ node.op = "import" ->
            LET d == source(node.names[1])
            IN  Meaning(p, d, SeedPlan(d, annos(node.names[1])), Rhs(d, node.names[2]))
       [] n \notin DOMAIN seeds /\ node.op = "apply" ->
            LET callee == node.kids[1]
                arg == of(node.kids[2])
                f == LocalReification(m, callee)
                import == m.nodes[RefTarget(m, callee)]
            IN  IF of(callee) # FunctionType THEN first(arg)
                ELSE IF f # 0
                THEN LET t == Meaning(p, m,
                                [k \in DOMAIN seeds \cup InputNodes(m, f) |->
                                   IF k \in InputNodes(m, f) THEN arg ELSE seeds[k]],
                                Body(m, f))
                     IN  IF IsFailed(arg) /\ ~IsFailed(t) THEN arg ELSE t
                ELSE IF import.op = "import" /\ ~IsFailed(arg)
                THEN LET d == source(import.names[1])
                     IN  Meaning(p, WithCall(d, import.names[2]),
                                 Put(SeedPlan(d, annos(import.names[1])), CallArgument(d), arg),
                                 CallRoot(d))
                ELSE first(arg)

\* No call goes through a binding that some callable takes as its input.
FirstOrder(m) ==
  \A f, call \in DOMAIN m.nodes :
    Op(m, f) = "fun" /\ Op(m, call) = "apply" =>
      Route(m, m.nodes[call].kids[1]) \cap InputNodes(m, f) = {}

\* The explicit stack, the scopes and the memo of dependencies change nothing:
\* a walk that reports no error gives every binding the type that plain
\* recursion would give it, and so it does for each way a dependency is loaded.
ResultsAgree ==
  outcome = "done" /\ scope.errors = {} /\ (\A id \in DOMAIN program : FirstOrder(program[id])) =>
    /\ \A b \in Names(program[Root]) :
         TypeOf(Rhs(program[Root], b)) =
           Meaning(program, program[Root], <<>>, Rhs(program[Root], b))
    /\ \A key \in DOMAIN memo :
         LET m == program[key[1]]
         IN  \A b \in Names(m) :
               memo[key][Rhs(m, b)] = Meaning(program, m, SeedPlan(m, key[2]), Rhs(m, b))

=============================================================================
