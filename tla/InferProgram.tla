----------------------------- MODULE InferProgram -----------------------------
(***************************************************************************)
(* FlatPPL programs as inference reads them (crates/core, crates/infer):   *)
(* modules that import each other, their bindings and expression nodes,    *)
(* and what can be read off the graph without any annotation.              *)
(*                                                                         *)
(* The fragment: scalars, one-element vectors, `external` inputs, unknown  *)
(* names, references, imports with substitutions, callables of one input   *)
(* and calls of one argument.  A module is an arena of nodes, children     *)
(* before parents, and bindings in source order.  A node is                *)
(* [op, kids, names]; what `names` holds depends on `op`:                  *)
(*    "ref", "local"  the name            "import"  alias, exported name   *)
(*    "fun"   "self" or "local", and the name its input stands for         *)
(*    "load"  identity of the file, then the input each child is put for   *)
(* The placeholder of a "fun" occurs neither in an argument of a call nor  *)
(* in a load, and a "fun" is the whole right-hand side of a binding: then  *)
(* every phase that crosses a call or an import is fixed.                  *)
(***************************************************************************)
EXTENDS Naturals, Sequences, FiniteSets

\* Follow at most this many references (`resolve_binding_refs`).
RefHops == 16

\* Types, as a path from the outside to the innermost element.
Real == <<"real">>
AnyType == <<"any">>
Deferred == <<"deferred">>
ModuleType == <<"module">>
FunctionType == <<"function">>
Array(t) == <<"array">> \o t
Failed(why) == <<"failed", why>>
IsFailed(t) == t[1] = "failed"

\* Array elements may not be callables or modules.
Forbidden(t) == t \in {FunctionType, ModuleType}

\* No value of type t can lie in the declared type d, which must be concrete.
Incompatible(d, t) ==
  /\ d[Len(d)] = "real"
  /\ \E i \in DOMAIN d \cap DOMAIN t :
       /\ {d[i], t[i]} = {"real", "array"}
       /\ SubSeq(d, 1, i - 1) = SubSeq(t, 1, i - 1)

-----------------------------------------------------------------------------
\* Modules: what kinds of nodes there are, and how many children each has.
Ops == {"literal", "external", "unknown", "local", "hole", "ref", "import",
        "load", "vector", "fun", "apply"}
Arity(op) == CASE op \in {"vector", "fun"} -> 1
               [] op = "apply" -> 2
               [] OTHER -> 0
Modules == [nodes : Seq([op : Ops, kids : Seq(Nat), names : Seq(STRING)]),
            binds : Seq([name : STRING, rhs : Nat, public : BOOLEAN])]

Names(m) == {m.binds[i].name : i \in DOMAIN m.binds}
BindingOf(m, name) == CHOOSE b \in {m.binds[i] : i \in DOMAIN m.binds} : b.name = name
Rhs(m, name) == BindingOf(m, name).rhs
Op(m, n) == m.nodes[n].op
Kids(m, n) == {m.nodes[n].kids[i] : i \in DOMAIN m.nodes[n].kids}

\* An arena built from the leaves up; a load has a child for each substitution.
WellFormed(m) ==
  /\ m \in Modules
  /\ \A n \in DOMAIN m.nodes :
       /\ Kids(m, n) \subseteq 1..(n - 1)
       /\ Op(m, n) # "load" => Len(m.nodes[n].kids) = Arity(Op(m, n))
  /\ \A i \in DOMAIN m.binds : m.binds[i].rhs \in DOMAIN m.nodes

\* A reference to a binding of the same module.
IsRef(m, n) == Op(m, n) = "ref" /\ m.nodes[n].names[1] \in Names(m)
RefRhs(m, n) == Rhs(m, m.nodes[n].names[1])

\* The nodes that references lead to from n, itself included.
Route(m, n) ==
  LET hop[i \in 0..RefHops] ==
        IF i = 0 THEN {n}
        ELSE UNION {IF IsRef(m, k) THEN {k, RefRhs(m, k)} ELSE {k} : k \in hop[i - 1]}
  IN  hop[RefHops]

\* The last of them; some reference if they go round or on for too long.
RefTarget(m, n) ==
  LET ends == {k \in Route(m, n) \cap DOMAIN m.nodes : ~IsRef(m, k)}
  IN  IF ends = {} THEN n ELSE CHOOSE k \in ends : TRUE

Body(m, f) == m.nodes[f].kids[1]

\* The node stands for the input of callable f.
IsInput(m, f, n) ==
  /\ Op(m, n) = IF m.nodes[f].names[1] = "local" THEN "local" ELSE "ref"
  /\ m.nodes[n].names[1] = m.nodes[f].names[2]

\* What a call returns when its callee hands on an argument or a callable
\* as it is; 0 if the callee is not a callable of this module.
ForwardedResult(m, call) ==
  LET f == RefTarget(m, m.nodes[call].kids[1])
  IN  IF Op(m, f) # "fun" THEN 0
      ELSE IF IsInput(m, f, Body(m, f)) THEN m.nodes[call].kids[2] ELSE Body(m, f)

\* The callable of this module that n denotes, or 0.
LocalReification(m, n) ==
  LET next(k) == CASE IsRef(m, k) -> {RefRhs(m, k)}
                   [] Op(m, k) = "fun" -> {k}
                   [] Op(m, k) = "apply" -> {ForwardedResult(m, k)} \ {0}
                   [] OTHER -> {}
      at[i \in 0..Len(m.nodes)] ==
        IF i = 0 THEN {n} ELSE UNION {next(k) : k \in at[i - 1]}
      funs == {k \in at[Len(m.nodes)] \cap DOMAIN m.nodes : Op(m, k) = "fun"}
  IN  IF funs = {} THEN 0 ELSE CHOOSE f \in funs : TRUE

\* The nodes of the expression n.
Inside(m, n) ==
  LET tree[k \in 1..n] == {k} \cup UNION {tree[j] : j \in Kids(m, k)} IN tree[n]

\* What an argument of callable f is substituted for.
InputNodes(m, f) ==
  LET name == m.nodes[f].names[2]
  IN  IF m.nodes[f].names[1] = "local"
      THEN {n \in Inside(m, Body(m, f)) : IsInput(m, f, n)}
      ELSE IF name \in Names(m) THEN {Rhs(m, name)} ELSE {}

\* Bindings of callables that reach themselves through references.
RecursiveNames(m) ==
  LET uses(b) == {m.nodes[n].names[1] :
                    n \in {k \in Inside(m, Rhs(m, b)) : IsRef(m, k)}}
      reach(b) ==
        LET r[i \in 0..Len(m.binds)] ==
              IF i = 0 THEN uses(b) ELSE UNION {{c} \cup uses(c) : c \in r[i - 1]}
        IN  r[Len(m.binds)]
  IN  {b \in Names(m) : Op(m, Rhs(m, b)) = "fun" /\ b \in reach(b)}

\* The load a module alias stands for, or 0.
Directive(m, alias) ==
  LET n == RefTarget(m, Rhs(m, alias))
  IN  IF alias \in Names(m) /\ Op(m, n) = "load" THEN n ELSE 0

\* Its substitutions: the input and the node of the value.
Substitutions(m, alias) ==
  LET d == Directive(m, alias)
  IN  IF d = 0 THEN <<>>
      ELSE [i \in DOMAIN m.nodes[d].kids |-> <<m.nodes[d].names[i + 1], m.nodes[d].kids[i]>>]

\* Substitutions a load refuses: of no binding, or of one that is no input.
RefusedAssigns(m, load, dep) ==
  {IF n \notin Names(dep) THEN "no such input" ELSE "not an input" :
     n \in {x \in {m.nodes[load].names[i] : i \in 2..Len(m.nodes[load].names)} :
              x \notin Names(dep) \/ Op(dep, Rhs(dep, x)) # "external"}}

\* An export that can be called: public, a callable or an import of one.
CallableExport(m, name) ==
  /\ name \in Names(m)
  /\ BindingOf(m, name).public
  /\ Op(m, RefTarget(m, Rhs(m, name))) \in {"fun", "import"}

\* Where the substituted values go: the right-hand sides of bindings.
SeedPlan(m, annos) ==
  LET bound == {i \in DOMAIN annos : annos[i][1] \in Names(m)}
  IN  [n \in {Rhs(m, annos[i][1]) : i \in bound} |->
         annos[CHOOSE i \in bound : Rhs(m, annos[i][1]) = n][2]]

\* The module with a call of its export on one argument, the node CallArgument.
CallArgument(m) == Len(m.nodes) + 2
CallRoot(m) == Len(m.nodes) + 3
WithCall(m, name) ==
  [m EXCEPT !.nodes = @ \o
     <<[op |-> "ref", kids |-> <<>>, names |-> <<name>>],
       [op |-> "hole", kids |-> <<>>, names |-> <<>>],
       [op |-> "apply", kids |-> <<Len(m.nodes) + 1, Len(m.nodes) + 2>>, names |-> <<>>]>>]
=============================================================================
