---------------------------- MODULE MeasureMeaning ----------------------------
(***************************************************************************)
(* What the nodes of MeasureTypes mean, and what their annotations may     *)
(* then say.  A value is a point in every world, a measure a weight on     *)
(* every point, a callable either of them in every world and for every     *)
(* input.  A world gives a point to each `elementof`, `external` and       *)
(* `draw` a node depends on.                                               *)
(*                                                                         *)
(* The real line is five cells, named by a number in each: below, zero, a  *)
(* half, one and above.  The outer two are unbounded, so a reference       *)
(* measure gives them infinite weight.  Weights are exact fractions.       *)
(***************************************************************************)
EXTENDS MeasureTypes, TLC

Cells == {-2, 0, 1, 2, 4}
Far == 4
Outer == {-2, Far}
IsFar(p) == \E i \in DOMAIN p : p[i] \in Outer

PointsIn(set) ==
  CASE set.kind \in {"power", "simplex"} -> {p \in Cells \X Cells : Member(set, p)}
    [] OTHER -> {<<c>> : c \in {d \in Cells : Member(set, <<d>>)}}

-----------------------------------------------------------------------------
(* Weights: fractions in lowest terms, or infinite.                        *)
Zero == <<0, 1>>
Unit == <<1, 1>>
Infinity == <<1, 0>>

Gcd[a, b \in Nat] == IF b = 0 THEN a ELSE Gcd[b, a % b]
Fraction(n, d) == <<n \div Gcd[n, d], d \div Gcd[n, d]>>

Plus(a, b) ==
  IF Infinity \in {a, b} THEN Infinity
  ELSE Fraction(a[1] * b[2] + b[1] * a[2], a[2] * b[2])

Times(a, b) ==
  IF Zero \in {a, b} THEN Zero
  ELSE IF Infinity \in {a, b} THEN Infinity
  ELSE Fraction(a[1] * b[1], a[2] * b[2])

Total(mu) == FoldFunction(Plus, Zero, mu)

(* The measure that puts weight(s) on key(s), for every s.                 *)
Collect(from, key(_), weight(_)) ==
  LET heavy == {s \in from : weight(s) # Zero}
  IN [p \in {key(s) : s \in heavy} |->
        FoldSet(LAMBDA s, t : Plus(weight(s), t), Zero, {s \in heavy : key(s) = p})]

Scaled(mu, by(_)) == Collect(DOMAIN mu, LAMBDA p : p, LAMBDA p : Times(by(p), mu[p]))

Onwards(mu, next(_)) ==
  UNION {{<<p, q>> : q \in DOMAIN next(p)} : p \in DOMAIN mu}
Pairs(mu, next(_)) ==
  Collect(Onwards(mu, next), LAMBDA s : s[1] \o s[2],
          LAMBDA s : Times(mu[s[1]], next(s[1])[s[2]]))
Ends(mu, next(_)) ==
  Collect(Onwards(mu, next), LAMBDA s : s[2],
          LAMBDA s : Times(mu[s[1]], next(s[1])[s[2]]))

-----------------------------------------------------------------------------
VARIABLE meaning

(* meaning[i].at: what node i is in each world of the coordinates `on` and *)
(* the inputs `ins` of a callable.  range: the points of a coordinate.     *)
Meaning(on, ins, range, at) == [on |-> on, ins |-> ins, range |-> range, at |-> at]

MeaningOf(o) ==
  IF IsLiteral(o) THEN Meaning({}, {}, {}, <<>> :> <<o.value>>) ELSE meaning[o.node]

(* A draw is drawn by the coordinates of its measure, unless it is cut.    *)
Feeds(cut) ==
  [d \in DOMAIN prog |->
     IF prog[d].op = "draw" /\ d \notin cut THEN MeaningOf(prog[d].args[1]).on ELSE {}]
Upstream(on, cut) == Reached(Feeds(cut), on)

Worlds(coords) ==
  FoldSet(LAMBDA d, ws : {w @@ (d :> p) : w \in ws, p \in meaning[d].range}, {<<>>}, coords)

In(m, w) == m.at[Restrict(w, m.on \cup m.ins)]

(* Distributions, by their first parameter where they have one here.       *)
Weighed(points, n) == [p \in points |-> Fraction(1, n)]
Distribution(op, a) ==
  CASE op = "Normal" -> (<<a>> :> <<1, 2>>) @@ Weighed({<<c>> : c \in Cells}, 8)
    [] op = "LogNormal" -> (<<One>> :> <<1, 2>>) @@ Weighed({<<1>>, <<4>>}, 4)
    [] op = "Exponential" -> Weighed({<<0>>, <<1>>, <<2>>, <<4>>}, 4)
    [] op = "Beta" -> (<<1>> :> <<1, 2>>) @@ Weighed({<<0>>, <<2>>}, 4)
    [] op = "Poisson" -> (<<0>> :> <<1, 2>>) @@ Weighed({<<2>>, <<4>>}, 4)
    [] op = "Bernoulli" ->
         Collect({0, One}, LAMBDA b : <<b>>,
                 LAMBDA b : Fraction(IF b = One THEN a ELSE One - a, One))
    [] OTHER -> (<<1, 1>> :> <<1, 2>>) @@ Weighed({<<0, 2>>, <<2, 0>>}, 4)

Reference(set) ==
  [p \in PointsIn(set) |-> IF p[1] \in Outer THEN Infinity ELSE Unit]

(* The law of what m is in world w: the draws upstream summed out.         *)
PointWeight(d, w) ==
  LET mu == In(MeaningOf(prog[d].args[1]), w)
  IN IF w[d] \in DOMAIN mu THEN mu[w[d]] ELSE Zero

DrawsAmong(coords) == {d \in coords : prog[d].op = "draw"}

Law(m, w) ==
  LET draws == DrawsAmong(Upstream(m.on, DOMAIN w) \ DOMAIN w)
  IN Collect({v @@ w : v \in Worlds(draws)}, LAMBDA v : In(m, v),
             LAMBDA v : FoldSet(LAMBDA d, t : Times(t, PointWeight(d, v)), Unit, draws))

(* Callables: an argument takes the place of the one input.                *)
Applied(k, p, w) == In(k, [i \in k.ins |-> p] @@ w)

Normalized(mu) ==
  LET t == Total(mu)
  IN [p \in DOMAIN mu |-> Fraction(mu[p][1] * t[2], mu[p][2] * t[1])]

(* What a node of each operation is in world w.                            *)
PointOf(nd, ms, w) ==
  LET x(i) == In(ms[i], w)
  IN CASE nd.op = "sub1" -> <<One - x(1)[1]>>
       [] nd.op = "abs" -> <<IF x(1)[1] < 0 THEN Far ELSE x(1)[1]>>
       [] nd.op = "exp" -> <<CASE x(1)[1] < 0 -> 1 [] x(1)[1] = 0 -> One [] OTHER -> Far>>
       [] nd.op = "get" -> <<x(1)[x(2)[1] \div One]>>
       [] OTHER -> x(1) \o x(2)

ProductOf(mu, nu) == Pairs(mu, LAMBDA p : nu)

ChainOf(nd, ms, w) ==
  LET start == IF nd.op = "markovchain" THEN In(ms[2], w) :> Unit ELSE In(ms[1], w)
      step(p) == Applied(ms[IF nd.op = "markovchain" THEN 1 ELSE 2], p, w)
  IN CASE nd.op = "kchain" -> Ends(start, step)
       [] nd.op = "jointchain" -> Pairs(start, step)
       [] OTHER -> Pairs(Ends(start, step), step)

WeightsOf(nd, ms, w) ==
  LET x(i) == In(ms[i], w)
  IN CASE nd.op \in {"Lebesgue", "Counting"} -> Reference(nd.set)
       [] nd.op = "Uniform" -> Normalized(Reference(nd.set))
       [] nd.op = "Dirac" -> x(1) :> Unit
       [] nd.op = "iid" -> ProductOf(x(1), x(1))
       [] nd.op = "joint" -> ProductOf(x(1), x(2))
       [] nd.op \in {"kchain", "jointchain", "markovchain"} -> ChainOf(nd, ms, w)
       [] nd.op = "pushfwd" ->
            Collect(DOMAIN x(2), LAMBDA p : Applied(ms[1], p, w), LAMBDA p : x(2)[p])
       [] nd.op = "truncate" -> Restrict(x(1), {p \in DOMAIN x(1) : Member(nd.set, p)})
       [] nd.op = "normalize" -> Normalized(x(1))
       [] nd.op = "weighted" ->
            Scaled(x(2), LAMBDA p : Fraction(x(1)[1], One))
       [] nd.op = "logweighted" ->
            Scaled(x(2), LAMBDA p : IF x(1)[1] > 0 THEN <<2, 1>> ELSE <<1, 2>>)
       [] nd.op = "superpose" ->
            LET all == DOMAIN x(1) \cup DOMAIN x(2)
                on(mu, p) == IF p \in DOMAIN mu THEN mu[p] ELSE Zero
            IN [p \in all |-> Plus(on(x(1), p), on(x(2), p))]
       [] nd.op = "relabel" -> x(1)
       [] OTHER -> Distribution(nd.op, IF nd.args = <<>> THEN 0 ELSE x(1)[1])

(* The coordinates a node may vary with: a law leaves those that are not   *)
(* drawn, a reification what is not an input.                              *)
OnOf(nd, i) ==
  LET body == MeaningOf(nd.args[1])
      inputs == InputsOf(prog, ann, nd)
      settled(cut) == Upstream(body.on, cut) \ DrawsAmong(Upstream(body.on, cut))
  IN CASE nd.op \in {"elementof", "external", "draw"} -> {i}
       [] nd.op = "lawof" -> settled({})
       [] nd.op = "kernelof" -> settled(inputs) \ inputs
       [] nd.op = "functionof" -> body.on \ inputs
       [] OTHER -> UNION {MeaningOf(nd.args[j]).on : j \in DOMAIN nd.args}

InsOf(nd) ==
  CASE nd.op \in {"functionof", "kernelof"} -> InputsOf(prog, ann, nd)
    [] nd.op \in {"elementof", "external", "draw", "lawof", "call", "sub1", "abs", "exp",
                  "get", "vector", "record", "kchain", "jointchain", "markovchain",
                  "pushfwd"} -> {}
    [] OTHER -> UNION {MeaningOf(nd.args[j]).ins : j \in DOMAIN nd.args}

RangeOf(nd) ==
  LET mus == MeaningOf(nd.args[1]).at
  IN CASE nd.op \in {"elementof", "external"} -> PointsIn(nd.set)
       [] nd.op = "draw" -> UNION {DOMAIN mus[w] : w \in DOMAIN mus}
       [] OTHER -> {}

InWorld(nd, w) ==
  LET ms == [j \in DOMAIN nd.args |-> MeaningOf(nd.args[j])]
  IN CASE nd.op \in {"lawof", "kernelof"} -> Law(ms[1], w)
       [] nd.op = "functionof" -> In(ms[1], w)
       [] nd.op = "call" -> Applied(ms[1], In(ms[2], w), w)
       [] nd.op \in {"sub1", "abs", "exp", "get", "vector", "record"} -> PointOf(nd, ms, w)
       [] OTHER -> WeightsOf(nd, ms, w)

MeaningOfNode(nd, i) ==
  LET on == OnOf(nd, i)
      ins == InsOf(nd)
      range == RangeOf(nd)
  IN Meaning(on, ins, range,
             IF nd.op \in {"elementof", "external", "draw"}
               THEN [w \in [{i} -> range] |-> w[i]]
               ELSE [w \in Worlds(on \cup ins) |-> InWorld(nd, w)])

-----------------------------------------------------------------------------
(* Programs the language gives a meaning here: parameters in their sets,   *)
(* weights not negative, a callable applied within its input's range.      *)
CONSTANTS ChainLifted, (* whether chains may use truncated, weighted and   *)
                       (* normalized kernels                               *)
          PushAnyMap   (* whether a measure that is not finite may be      *)
                       (* pushed through a map that brings far points near *)
ASSUME OperationsAssumption == {ChainLifted, PushAnyMap} \subseteq BOOLEAN

TypeAt(o) == Of(ann, o).ty
VariateOf(o) ==
  IF TypeAt(o).kind \in {"measure", "kernel"} THEN Variate(prog, ann, o) ELSE TypeAt(o)
IsValue(o) == TypeAt(o).kind \in {"scalar", "array", "record"}
IsScalarVariate(o) == VariateOf(o).kind = "scalar"
IsReal(t) == t.kind = "scalar" /\ t.of = "real"
OneInput(k) == Cardinality(MeaningOf(k).ins) = 1

Always(o, holds(_)) ==
  LET m == MeaningOf(o) IN \A w \in DOMAIN m.at : holds(m.at[w])
Infinitely(o) == ~Always(o, LAMBDA mu : Total(mu) # Infinity)
Vanishes(o) == ~Always(o, LAMBDA mu : Total(mu) # Zero)

Takes(k, p) == \A i \in MeaningOf(k).ins : p \in meaning[i].range
TakesAll(k, m) == Always(m, LAMBDA mu : \A p \in DOMAIN mu : Takes(k, p))

KeepsFar(k) ==
  LET m == MeaningOf(k)
  IN \A w \in DOMAIN m.at, i \in m.ins : IsFar(w[i]) => IsFar(m.at[w])

Keyword(o) == \E i \in Walked(prog, o, DOMAIN prog, {}) : prog[i].named
Laws(o) == \E i \in Walked(prog, o, DOMAIN prog, {}) : prog[i].op = "lawof"

LegalValue(nd) ==
  CASE nd.op \in {"elementof", "external"} -> nd.args = <<>>
    [] nd.op = "draw" ->
         /\ IsMeasure(TypeAt(nd.args[1]))
         /\ ChainLifted \/ VariateOf(nd.args[1]) # Deferred
    [] nd.op = "sub1" -> TypeAt(nd.args[1]).kind = "scalar" /\ TypeAt(nd.args[1]).of # "bool"
    [] nd.op \in {"abs", "exp"} -> IsReal(TypeAt(nd.args[1]))
    [] nd.op = "get" -> TypeAt(nd.args[1]).kind = "array"
    [] nd.op \in {"vector", "record"} -> \A o \in Range(nd.args) : TypeAt(o).kind = "scalar"

LegalCallable(nd) ==
  LET k == nd.args[1]
  IN CASE nd.op \in {"functionof", "kernelof"} ->
            /\ ~IsLiteral(k) /\ (IsValue(k) \/ IsMeasure(TypeAt(k)))
            /\ VariateOf(k) # Deferred
            /\ DrawsAmong(nd.inputs) # {} => ~Laws(k)
       [] nd.op = "call" ->
            /\ IsCallable(TypeAt(k)) /\ OneInput(k)
            /\ Always(nd.args[2], LAMBDA p : Takes(k, p))
       [] nd.op = "pushfwd" ->
            /\ TypeAt(k).kind = "function" /\ OneInput(k)
            /\ IsMeasure(TypeAt(nd.args[2])) /\ TakesAll(k, nd.args[2])
            /\ PushAnyMap \/ ~Infinitely(nd.args[2]) \/ KeepsFar(k)

LegalChain(nd) ==
  LET k == nd.args[IF nd.op = "markovchain" THEN 1 ELSE 2]
      from == nd.args[IF nd.op = "markovchain" THEN 2 ELSE 1]
  IN /\ IsKernel(TypeAt(k)) /\ OneInput(k)
     /\ ChainLifted \/ OwnMass(prog, k)
     /\ ChainLifted \/ IsScalarVariate(k)
     /\ IF nd.op = "markovchain"
          THEN /\ TypeAt(from).kind = "scalar" /\ TakesAll(k, k)
               /\ Always(from, LAMBDA p : Takes(k, p))
          ELSE IsMeasure(TypeAt(from)) /\ IsScalarVariate(from) /\ TakesAll(k, from)

LegalMeasure(nd) ==
  LET o == nd.args[1]
      m == nd.args[Len(nd.args)]
      measures == \A a \in Range(nd.args) : IsMeasure(TypeAt(a)) \/ IsKernel(TypeAt(a))
  IN CASE nd.op = "lawof" -> IsValue(o) /\ ~Keyword(o)
       [] nd.op = "Dirac" -> IsValue(o)
       [] nd.op = "iid" -> IsMeasure(TypeAt(o)) /\ IsScalarVariate(o)
       [] nd.op = "relabel" -> measures
       [] nd.op = "truncate" -> measures /\ VariateOf(o) = ElementType(nd.set)
       [] nd.op = "normalize" -> measures /\ ~Infinitely(o) /\ ~Vanishes(o)
       [] nd.op = "weighted" ->
            /\ IsMeasure(TypeAt(m)) \/ IsKernel(TypeAt(m))
            /\ TypeAt(o).kind = "scalar" /\ Always(o, LAMBDA p : p[1] >= 0)
            /\ Infinitely(m) => Always(o, LAMBDA p : p[1] > 0)
       [] nd.op = "logweighted" -> TypeAt(o).kind = "scalar" /\ IsMeasure(TypeAt(m))
       [] nd.op = "superpose" ->
            /\ \A a \in Range(nd.args) : IsMeasure(TypeAt(a))
            /\ TypeAt(o).dom = TypeAt(m).dom
       [] nd.op = "joint" ->
            /\ measures /\ \A a \in Range(nd.args) : IsScalarVariate(a) \/ IsKernel(TypeAt(a))
            /\ ~(Infinitely(o) /\ Vanishes(m)) /\ ~(Infinitely(m) /\ Vanishes(o))
       [] nd.op \in {"kchain", "jointchain", "markovchain"} -> LegalChain(nd)
       [] nd.op = "Bernoulli" ->
            TypeAt(o).kind = "scalar" /\ Always(o, LAMBDA p : p[1] \in 0..One)
       [] nd.op = "Normal" -> IsReal(TypeAt(o))
       [] OTHER -> nd.args = <<>>

Legal(nd) ==
  CASE nd.op \in {"elementof", "external", "draw", "sub1", "abs", "exp", "get", "vector",
                 "record"} ->
         LegalValue(nd)
    [] nd.op \in {"functionof", "kernelof", "call", "pushfwd"} -> LegalCallable(nd)
    [] OTHER -> LegalMeasure(nd)

(* Operands and boundaries are defined before the node that names them.    *)
Boundaries == {i \in DOMAIN prog : prog[i].op \in {"elementof", "draw"}}
Written(nd) ==
  /\ DOMAIN nd = DOMAIN Node("", <<>>)
  /\ nd.args \in Seq([node : 0..Len(prog), value : Int, whole : BOOLEAN])
  /\ nd.inputs \subseteq Boundaries
  /\ nd.op \in {"draw", "lawof", "functionof", "kernelof"} => Len(nd.args) = 1

Defined(nd) ==
  /\ Written(nd) /\ Legal(nd)
  /\ Define(nd)
  /\ meaning' = Append(meaning, MeaningOfNode(nd, Len(prog) + 1))

vars == <<prog, ann, meaning>>

Init == prog = <<>> /\ ann = <<>> /\ meaning = <<>>
Next == \E nd : Defined(nd)
Spec == Init /\ [][Next]_vars

-----------------------------------------------------------------------------
(* What the annotations of the newest node may say.                        *)
Newest == Len(prog)
NewType == ann[Newest].ty
NewIs(holds(_)) ==
  \A w \in DOMAIN meaning[Newest].at : holds(meaning[Newest].at[w])

FiniteWhereBounded(mu) == \A p \in DOMAIN mu : IsFar(p) \/ mu[p] # Infinity

MassAgrees(mass, mu) ==
  CASE mass = "normalized" -> Total(mu) = Unit
    [] mass = "finite" -> Total(mu) # Infinity
    [] mass = "locallyfinite" -> Total(mu) = Infinity /\ FiniteWhereBounded(mu)
    [] OTHER -> TRUE

(* The total-mass class of a measure, and of a kernel whose own rule wrote *)
(* it, is right in every world and for every input: a normalized one       *)
(* weighs one, a finite one less than infinity, a locally finite one       *)
(* infinity, and finitely on every bounded set (fill_mass over every       *)
(* measure operation).                                                     *)
MassSound ==
  (prog # <<>> /\ (IsMeasure(NewType) \/ (IsKernel(NewType) /\ OwnMass(prog, Ref(Newest)))))
    => NewIs(LAMBDA mu : MassAgrees(NewType.mass, mu))

ScalarFits(of, x) ==
  CASE of = "int" -> x % One = 0
    [] of = "bool" -> x \in {0, One}
    [] OTHER -> TRUE

Fits(t, p) ==
  CASE t.kind = "scalar" -> Len(p) = 1 /\ ScalarFits(t.of, p[1])
    [] t.kind = "array" -> Len(p) = 2 /\ \A i \in DOMAIN p : ScalarFits(t.of, p[i])
    [] t.kind = "record" ->
         Len(p) = Len(t.parts) /\ \A i \in DOMAIN p : ScalarFits(t.parts[i], p[i])
    [] OTHER -> TRUE

(* A value is in its value set and of its type, and a measure puts weight  *)
(* only on points of its support and domain (call_valueset, op_rule).      *)
SupportSound ==
  LET sound(t, p) == Fits(t, p) /\ Member(ann[Newest].vs, p)
  IN prog # <<>> =>
       /\ IsMeasure(NewType) =>
            NewIs(LAMBDA mu : \A p \in DOMAIN mu : sound(NewType.dom, p))
       /\ NewType.kind \in {"scalar", "array", "record"} =>
            NewIs(LAMBDA p : sound(NewType, p))

(* Only probability measures are drawn from, whatever the parameters are   *)
(* (draw_mass_gate).                                                       *)
DrawsNormalized ==
  (prog # <<>> /\ prog[Newest].op = "draw") =>
    Always(prog[Newest].args[1], LAMBDA mu : Total(mu) = Unit)

(* The coordinates the newest node really varies with.                     *)
Varying ==
  LET m == meaning[Newest]
  IN {d \in m.on : \E w \in DOMAIN m.at, p \in meaning[d].range :
                     m.at[w] # m.at[[w EXCEPT ![d] = p]]}

(* A fixed node varies with no parameter and no draw, a parametric one     *)
(* with no draw, and what lawof absorbs stays absorbed.  A callable is     *)
(* fixed: no parameter and no draw outside its inputs reaches its body     *)
(* (join_phase, law_phase, captured_draws, unbound_parameter).             *)
PhaseSound ==
  prog # <<>> =>
    \A d \in Varying :
      \/ prog[d].op = "external"
      \/ prog[d].op = "elementof" /\ ann[Newest].ph # "fixed"
      \/ ann[Newest].ph = "stochastic"
==============================================================================
