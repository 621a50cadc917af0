----------------------------- MODULE MeasureTypes -----------------------------
(***************************************************************************)
(* The annotation rules for values, measures, kernels and functions        *)
(* (crates/infer/src/ops.rs with the phase rules of trace.rs): the type    *)
(* with its total-mass class, the value set, and the phase of every node   *)
(* of a program, read off its operands' annotations and, for mixtures,     *)
(* laws and reifications, off the syntax.                                  *)
(*                                                                         *)
(* A program P is a sequence of nodes and A the annotations of its first   *)
(* nodes.  A node is a named binding unless it is `inline`; an operand is  *)
(* a literal (node 0) or a node.  A keyword call keeps its operands in     *)
(* order with `named` set.  `inputs` are the bindings a reification cuts   *)
(* at.  Boundaries are `elementof` or `draw` bindings, a callable with     *)
(* several inputs is not applied, vectors have length 2, and broadcast,    *)
(* tilt, disintegrate, scans and the Bayesian operations are left out.     *)
(***************************************************************************)
EXTENDS ValueSets, SequencesExt

NoSet == Unknown
Node(op, args) ==
  [op |-> op, args |-> args, named |-> FALSE, set |-> NoSet, inputs |-> {},
   auto |-> FALSE, inline |-> FALSE]
WithSet(op, args, set) == [Node(op, args) EXCEPT !.set = set]

Ref(i) == [node |-> i, value |-> 0, whole |-> FALSE]
Whole(x) == [node |-> 0, value |-> x, whole |-> TRUE]
Decimal(x) == [node |-> 0, value |-> x, whole |-> FALSE]
IsLiteral(o) == o.node = 0
Operands(nd) == {o.node : o \in Range(nd.args)} \ {0}

(* The nodes that are reached from `start` along `next`.                   *)
Reached(next, start) ==
  LET reach[i \in DOMAIN next] == {i} \cup UNION {reach[k] : k \in next[i]}
  IN UNION {reach[i] : i \in start}

(* A walk from the operand o down the operands of nodes: those that are    *)
(* not `open` are skipped, and those in `ends` are not entered.            *)
Walked(P, o, open, ends) ==
  Reached([i \in open |-> IF i \in ends THEN {} ELSE Operands(P[i]) \cap open],
          {o.node} \cap open)

(* What a call of the callable k with argument annotation a re-infers      *)
(* (SubstitutedResult in MeasureCalls).                                    *)
CONSTANT Substituted(_, _, _, _)

-----------------------------------------------------------------------------
(* Types.                                                                  *)
Scalar(of) == [kind |-> "scalar", of |-> of]
Vector(of) == [kind |-> "array", of |-> of]
Record(parts) == [kind |-> "record", parts |-> parts]
Measure(dom, mass) == [kind |-> "measure", dom |-> dom, mass |-> mass]
Kernel(inputs, mass) == [kind |-> "kernel", inputs |-> inputs, mass |-> mass]
Function(inputs) == [kind |-> "function", inputs |-> inputs]
Deferred == [kind |-> "deferred"]
Failed == [kind |-> "failed"]

IsMeasure(t) == t.kind = "measure"
IsKernel(t) == t.kind = "kernel"
IsCallable(t) == t.kind \in {"kernel", "function"}
IsScalarType(t) == t.kind = "scalar"

(* `promote2` over a list.                                                 *)
Promote(kinds) ==
  IF \E k \in kinds : kinds = {k} THEN CHOOSE k \in kinds : TRUE
  ELSE IF "real" \in kinds THEN "real" ELSE "int"

(* `cat_shape`: scalars make a vector, records merge.                      *)
Cat(types) ==
  IF \A i \in DOMAIN types : IsScalarType(types[i])
    THEN Vector(Promote({types[i].of : i \in DOMAIN types}))
  ELSE Deferred

(* `natural_of`.                                                           *)
NaturalScalar(of) ==
  Named(CASE of = "real" -> "reals" [] of = "int" -> "integers"
          [] OTHER -> "booleans")
NaturalValue(t) ==
  CASE t.kind = "scalar" -> NaturalScalar(t.of)
    [] t.kind = "array" -> Power(NaturalScalar(t.of), 2)
    [] t.kind = "record" ->
         Fields([i \in DOMAIN t.parts |-> NaturalScalar(t.parts[i])])
    [] OTHER -> Unknown
NaturalOf(t) == NaturalValue(IF IsMeasure(t) THEN t.dom ELSE t)

(* `set_element_type`.                                                     *)
ScalarOf(set) ==
  CASE set.kind \in {"integers", "posintegers", "nonnegintegers"} -> "int"
    [] set.kind = "booleans" -> "bool"
    [] OTHER -> "real"
ElementType(set) ==
  CASE set.kind = "power" -> Vector(ScalarOf(set.of))
    [] set.kind = "simplex" -> Vector("real")
    [] OTHER -> Scalar(ScalarOf(set))

-----------------------------------------------------------------------------
(* Annotations: type, value set, phase, and the phase of the node's law    *)
(* (`law_phase`), which the code re-derives from the syntax.               *)
Annotation(ty, vs, ph, law) == [ty |-> ty, vs |-> vs, ph |-> ph, law |-> law]

LiteralSet(o) ==
  CASE ~o.whole -> Interval(o.value, o.value)
    [] o.whole /\ o.value > 0 -> Named("posintegers")
    [] o.whole /\ o.value = 0 -> Named("nonnegintegers")
    [] OTHER -> Named("integers")

Of(A, o) ==
  IF IsLiteral(o)
    THEN Annotation(Scalar(IF o.whole THEN "int" ELSE "real"), LiteralSet(o),
                    "fixed", "fixed")
    ELSE A[o.node]

Types(A, nd) == [i \in DOMAIN nd.args |-> Of(A, nd.args[i]).ty]
Sets(A, nd) == [i \in DOMAIN nd.args |-> Of(A, nd.args[i]).vs]

(* `join_phase`.                                                           *)
JoinPhase(phases) ==
  IF "stochastic" \in phases THEN "stochastic"
  ELSE IF "parametric" \in phases THEN "parametric" ELSE "fixed"

Joined(A, nd) == JoinPhase({Of(A, nd.args[i]).ph : i \in DOMAIN nd.args})

LawPhase(A, nd) ==
  CASE nd.op \in {"elementof", "call"} -> "parametric"
    [] OTHER -> IF nd.op = "external" \/ nd.named THEN "fixed"
                ELSE JoinPhase({Of(A, nd.args[i]).law : i \in DOMAIN nd.args})

PhaseOf(A, nd) ==
  CASE nd.op = "elementof" -> "parametric"
    [] nd.op \in {"external", "functionof", "kernelof"} -> "fixed"
    [] nd.op = "draw" -> "stochastic"
    [] nd.op = "lawof" -> Of(A, nd.args[1]).law
    [] OTHER -> Joined(A, nd)
-----------------------------------------------------------------------------
(* Syntax the mixture rule reads.  A reference to a binding spells its     *)
(* name; an inline node is spelled out.                                    *)
Binding(P, o) == ~IsLiteral(o) /\ ~P[o.node].inline

SpelledOut(P, o) == ~IsLiteral(o) /\ P[o.node].inline

SameSpelling(P, a, b) ==
  LET same[x, y \in DOMAIN P] ==
        /\ [P[x] EXCEPT !.args = <<>>] = [P[y] EXCEPT !.args = <<>>]
        /\ Len(P[x].args) = Len(P[y].args)
        /\ \A i \in DOMAIN P[x].args :
             LET c == P[x].args[i]
                 d == P[y].args[i]
             IN \/ c = d
                \/ SpelledOut(P, c) /\ SpelledOut(P, d) /\ same[c.node, d.node]
  IN a = b \/ (SpelledOut(P, a) /\ SpelledOut(P, b) /\ same[a.node, b.node])

(* `contains_opaque_value_source`: references are not entered.             *)
WritesSource(P, o) ==
  \E i \in Walked(P, o, {j \in DOMAIN P : P[j].inline}, {}) :
    P[i].op \in {"draw", "elementof", "external"}

SpellingIsValue(P, a, b) == SameSpelling(P, a, b)

(* `is_complement_of`.                                                     *)
SameValue(P, a, b) ==
  /\ SameSpelling(P, a, b)
  /\ \/ a = b /\ ~Binding(P, a)
     \/ ~WritesSource(P, a) /\ ~WritesSource(P, b)

IsComplementOf(P, A, part, whole) ==
  /\ ~IsLiteral(whole) /\ P[whole.node].op = "sub1"
  /\ SameValue(P, part, P[whole.node].args[1])
  /\ Below(Of(A, part).vs, Named("unitinterval"))

ComplementPair(P, A, ws) ==
  /\ Len(ws) = 2
  /\ IsComplementOf(P, A, ws[1], ws[2]) \/ IsComplementOf(P, A, ws[2], ws[1])

(* `literal_weights_sum_to_one`, exact on the declared decimals.           *)
LiteralsSumToOne(ws) ==
  /\ \A i \in DOMAIN ws : IsLiteral(ws[i]) /\ ws[i].value >= 0
  /\ FoldLeft(LAMBDA t, o : t + o.value, 0, ws) = One

(* `simplex_weights_cover_vector`: every coordinate of one node, once.     *)
CoordinatesOfOne(P, A, ws) ==
  \A i \in DOMAIN ws :
    /\ ~IsLiteral(ws[i]) /\ P[ws[i].node].op = "get"
    /\ P[ws[i].node].args[1] = P[ws[1].node].args[1]
    /\ Of(A, P[ws[i].node].args[1]).vs = Simplex(Len(ws))

SimplexCovered(P, A, ws) ==
  /\ CoordinatesOfOne(P, A, ws)
  /\ {P[ws[i].node].args[2].value : i \in DOMAIN ws} = {One * i : i \in DOMAIN ws}

(* `superpose_is_provably_normalized`.                                     *)
WeightsSumToOne(P, A, ws) ==
  LiteralsSumToOne(ws) \/ ComplementPair(P, A, ws) \/ SimplexCovered(P, A, ws)

ProvablyNormalized(P, A, nd) ==
  LET parts == [i \in DOMAIN nd.args |-> P[nd.args[i].node]]
  IN /\ \A i \in DOMAIN parts :
          /\ parts[i].op = "weighted" /\ ~parts[i].named
          /\ Of(A, parts[i].args[2]).ty.mass = "normalized"
     /\ WeightsSumToOne(P, A, [i \in DOMAIN parts |-> parts[i].args[1]])

-----------------------------------------------------------------------------
(* The total-mass classes (`fill_mass`).                                   *)
MassOf(t) == IF t.kind \in {"measure", "kernel"} THEN t.mass ELSE "unknown"

ReferenceMass(set) ==
  CASE IsUnbounded(set) -> "locallyfinite"
    [] IsBounded(set) -> "finite"
    [] OTHER -> "unknown"

RestrictedMass(mass, set) ==
  CASE mass \in {"normalized", "finite"} -> "finite"
    [] mass = "locallyfinite" /\ IsBounded(set) -> "finite"
    [] OTHER -> "unknown"

(* `kernel_mass_is_own_rules`: heads whose rule writes a kernel's mass.    *)
OwnMass(P, o) == P[o.node].op \in {"kernelof", "functionof", "joint"}

TrustedComponentMass(P, A, o) == MassOf(Of(A, o).ty)

ComponentMass(P, A, o) ==
  LET t == Of(A, o).ty
  IN IF IsMeasure(t) \/ OwnMass(P, o) THEN MassOf(t) ELSE "unknown"

ProductMass(masses) ==
  IF masses = {"normalized"} THEN "normalized"
  ELSE IF masses \subseteq {"normalized", "finite"} THEN "finite"
  ELSE IF "unknown" \notin masses THEN "locallyfinite" ELSE "unknown"

JointMass(P, A, nd) ==
  ProductMass({ComponentMass(P, A, nd.args[i]) : i \in DOMAIN nd.args})

ChainMass(A, nd) ==
  IF \A i \in DOMAIN nd.args : MassOf(Of(A, nd.args[i]).ty) = "normalized"
    THEN "normalized" ELSE "unknown"

JointChainMass(A, nd) ==
  IF \A i \in 2..Len(nd.args) : MassOf(Of(A, nd.args[i]).ty) = "normalized"
    THEN MassOf(Of(A, nd.args[1]).ty) ELSE "unknown"

SumMass(masses) ==
  IF "unknown" \in masses THEN "unknown"
  ELSE IF "locallyfinite" \in masses THEN "locallyfinite" ELSE "finite"

WeightedMass(A, nd) ==
  LET base == MassOf(Of(A, nd.args[2]).ty)
  IN IF Of(A, nd.args[1]).ph # "fixed" THEN "unknown"
     ELSE IF base \in {"normalized", "finite"} THEN "finite" ELSE base

(* A mass the rule for measures fills in; `normalize` refuses an infinite  *)
(* base before this.                                                       *)
FillMass(P, A, nd) ==
  LET base == MassOf(Of(A, nd.args[1]).ty)
  IN CASE nd.op \in {"Lebesgue", "Counting"} -> ReferenceMass(nd.set)
       [] nd.op = "iid" -> base
       [] nd.op = "joint" -> JointMass(P, A, nd)
       [] nd.op = "truncate" -> RestrictedMass(base, nd.set)
       [] nd.op = "pushfwd" -> MassOf(Of(A, nd.args[2]).ty)
       [] nd.op = "markovchain" ->
            IF base = "normalized" THEN base ELSE "unknown"
       [] nd.op = "kchain" -> ChainMass(A, nd)
       [] nd.op = "jointchain" -> JointChainMass(A, nd)
       [] nd.op = "superpose" ->
            IF ProvablyNormalized(P, A, nd) THEN "normalized"
            ELSE SumMass({MassOf(Types(A, nd)[i]) : i \in DOMAIN nd.args})
       [] nd.op \in {"weighted", "logweighted"} -> WeightedMass(A, nd)
       [] OTHER -> "normalized"

(* `unprovable_normalization`: what `draw` admits.                         *)
Drawable(t) == IsMeasure(t) => t.mass \in {"normalized", "deferred"}

-----------------------------------------------------------------------------
(* Reification boundaries.                                                 *)
Reifies(P, o) == ~IsLiteral(o) /\ P[o.node].op \in {"functionof", "kernelof"}
Body(P, o) == P[o.node].args[1]

(* The `elementof` bindings below o that no boundary in cut covers: the    *)
(* walk of `collect_auto_inputs` and of `unbound_parameter`.  Both prune   *)
(* what is fixed.                                                          *)
Parameters(P, A, o, cut) ==
  {i \in Walked(P, o, {j \in DOMAIN A : A[j].ph # "fixed" /\ j \notin cut}, {}) :
     P[i].op = "elementof"}

(* `captured_draws`: what is settled and not stochastic hides no draw.     *)
CapturedDraws(P, A, o, cut) ==
  LET draws == {j \in DOMAIN A : P[j].op = "draw"}
  IN Walked(P, o, {j \in DOMAIN A : A[j].ph = "stochastic" /\ j \notin cut}, draws)
     \cap draws

NamedCaptures(P, A, o, cut) ==
  IF IsLiteral(o) \/ o.node \in cut \/ P[o.node].op # "draw" THEN {} ELSE {o.node}

Captures(P, A, o, cut) == CapturedDraws(P, A, o, cut)

Unbound(P, A, o, cut) == Parameters(P, A, o, cut)

InputsOf(P, A, nd) ==
  IF nd.auto THEN Parameters(P, A, nd.args[1], {}) ELSE nd.inputs

(* `reification_type`.                                                     *)
Refused(P, A, nd) ==
  LET body == nd.args[1]
      inputs == InputsOf(P, A, nd)
  IN \/ ~nd.auto /\ Unbound(P, A, body, inputs) # {}
     \/ nd.op = "functionof" /\ Captures(P, A, body, inputs) # {}
     \/ /\ nd.op = "kernelof"
        /\ Of(A, body).ty.kind \in {"measure", "kernel", "function"}

ReificationType(P, A, nd) ==
  LET t == Of(A, nd.args[1]).ty
      inputs == InputsOf(P, A, nd)
  IN IF Refused(P, A, nd) THEN Failed
     ELSE IF nd.op = "kernelof" THEN Kernel(inputs, "normalized")
     ELSE IF IsMeasure(t) THEN Kernel(inputs, t.mass) ELSE Function(inputs)

-----------------------------------------------------------------------------
(* The output variate of a chain component (`component_variate`).          *)
JointDomain(doms, named) ==
  IF named THEN Record([i \in DOMAIN doms |-> doms[i].of]) ELSE Cat(doms)

PlainVariate(P, A, o) ==
  LET t == Of(A, o).ty
      body == Of(A, Body(P, o)).ty
  IN CASE IsMeasure(t) -> t.dom
       [] IsKernel(t) /\ Reifies(P, o) -> IF IsMeasure(body) THEN body.dom ELSE body
       [] OTHER -> Deferred

Variate(P, A, o) ==
  LET nd == P[o.node]
      parts == [i \in DOMAIN nd.args |-> PlainVariate(P, A, nd.args[i])]
  IN IF IsKernel(Of(A, o).ty) /\ nd.op = "joint"
       THEN IF \E i \in DOMAIN parts : parts[i] = Deferred THEN Deferred
            ELSE JointDomain(parts, nd.named)
     ELSE PlainVariate(P, A, o)

Variates(P, A, nd) == [i \in DOMAIN nd.args |-> Variate(P, A, nd.args[i])]

(* `jointchain_domain`, also the shape of a joint measure's variate.       *)
ChainDomain(P, A, nd) ==
  IF \E i \in DOMAIN nd.args : Variate(P, A, nd.args[i]) = Deferred THEN Deferred
  ELSE JointDomain(Variates(P, A, nd), nd.named)

(* `kernel_support`: the support of the body as it was annotated, with     *)
(* its inputs anywhere in their declared sets.                             *)
KernelSupport(P, A, o) ==
  IF Reifies(P, o) THEN Of(A, Body(P, o)).vs ELSE Unknown

(* `support_or_natural`.                                                   *)
SupportOrNatural(a) == IF a.vs = Unknown THEN NaturalOf(a.ty) ELSE a.vs

-----------------------------------------------------------------------------
(* The catalogue's distributions: domain and support.                      *)
Distributions ==
  [Normal |-> Named("reals"), LogNormal |-> Named("posreals"),
   Exponential |-> Named("nonnegreals"), Beta |-> Named("unitinterval"),
   Bernoulli |-> Named("booleans"), Poisson |-> Named("nonnegintegers"),
   Dirichlet |-> Simplex(2)]

DistributionDomain(op) ==
  CASE op \in {"Bernoulli", "Poisson"} -> Scalar("int")
    [] op = "Dirichlet" -> Vector("real")
    [] OTHER -> Scalar("real")

(* `user_call_type` and the call arm of `call_valueset`: the callee's mass *)
(* over the substituted domain.                                            *)
ResultMeasure(result, mass) ==
  Measure(IF IsMeasure(result) THEN result.dom ELSE result, mass)

CallType(P, A, nd) ==
  LET k == nd.args[1]
      t == Of(A, k).ty
      result == Substituted(P, A, k, Of(A, nd.args[2])).ty
  IN CASE t.kind = "function" -> result
       [] IsKernel(t) /\ Reifies(P, k) -> ResultMeasure(result, t.mass)
       [] IsKernel(t) /\ ~Reifies(P, k) /\ Variate(P, A, k) # Deferred ->
            Measure(Variate(P, A, k), t.mass)
       [] OTHER -> Deferred

CallSet(P, A, nd) ==
  LET k == nd.args[1]
      finer == Substituted(P, A, k, Of(A, nd.args[2])).vs
  IN IF ~Reifies(P, k) THEN Unknown
     ELSE IF finer # Unknown THEN finer ELSE Of(A, Body(P, k)).vs

(* `pushfwd_codomain`: the input is bound to the base's whole domain.      *)
Codomain(P, A, nd) ==
  LET dom == Of(A, nd.args[2]).ty.dom
      point == Annotation(dom, NaturalValue(dom), Of(A, nd.args[2]).ph, "parametric")
  IN Substituted(P, A, nd.args[1], point).ty

-----------------------------------------------------------------------------
(* The type rule of each operation (`op_rule`).                            *)
Fresh(P, A, nd, t) == IF IsMeasure(t) THEN Measure(t.dom, FillMass(P, A, nd)) ELSE t

KernelJoint(P, A, nd) ==
  Kernel(UNION {Types(A, nd)[i].inputs :
                  i \in {j \in DOMAIN nd.args : IsKernel(Types(A, nd)[j])}},
         JointMass(P, A, nd))

ValueType(A, nd) ==
  LET t == Types(A, nd)
  IN CASE nd.op = "sub1" -> Scalar(Promote({"int", t[1].of}))
       [] nd.op \in {"abs", "exp"} -> Scalar("real")
       [] nd.op = "get" -> Scalar(t[1].of)
       [] nd.op = "vector" -> Cat(t)
       [] nd.op = "record" -> Record([i \in DOMAIN t |-> t[i].of])

JointType(P, A, nd, mass) ==
  IF \E i \in DOMAIN nd.args : IsKernel(Types(A, nd)[i]) THEN KernelJoint(P, A, nd)
  ELSE Measure(ChainDomain(P, A, nd), mass)

MeasureType(P, A, nd) ==
  LET t == Types(A, nd)
      mass == FillMass(P, A, nd)
  IN CASE nd.op \in {"Lebesgue", "Counting"} -> Measure(ElementType(nd.set), mass)
       [] nd.op \in {"lawof", "Dirac"} -> Measure(t[1], mass)
       [] nd.op = "Uniform" -> Measure(Scalar("real"), mass)
       [] nd.op = "iid" -> Measure(Vector(t[1].dom.of), mass)
       [] nd.op = "joint" -> JointType(P, A, nd, mass)
       [] nd.op = "jointchain" -> Measure(ChainDomain(P, A, nd), mass)
       [] nd.op = "kchain" -> Measure(Variate(P, A, nd.args[Len(nd.args)]), mass)
       [] nd.op = "markovchain" -> Measure(Vector(t[2].of), mass)
       [] nd.op = "pushfwd" -> Measure(Codomain(P, A, nd), mass)
       [] nd.op = "normalize" ->
            IF MassOf(t[1]) = "locallyfinite" THEN Failed ELSE Fresh(P, A, nd, t[1])
       [] nd.op \in {"truncate", "superpose"} -> Fresh(P, A, nd, t[1])
       [] nd.op \in {"weighted", "logweighted"} -> Fresh(P, A, nd, t[2])
       [] nd.op = "relabel" -> t[1]
       [] OTHER -> Measure(DistributionDomain(nd.op), mass)

TypeOf(P, A, nd) ==
  LET t == Types(A, nd)
  IN CASE nd.op \in {"elementof", "external"} -> ElementType(nd.set)
       [] nd.op = "draw" -> IF Drawable(t[1]) THEN t[1].dom ELSE Failed
       [] nd.op = "lawof" /\ t[1].kind \in {"measure", "kernel", "function"} -> Failed
       [] nd.op \in {"functionof", "kernelof"} -> ReificationType(P, A, nd)
       [] nd.op = "call" -> CallType(P, A, nd)
       [] nd.op \in {"sub1", "abs", "exp", "get", "vector", "record"} -> ValueType(A, nd)
       [] OTHER -> MeasureType(P, A, nd)

(* The value set of each operation (`call_valueset`); a measure's value    *)
(* set is its support.                                                     *)
ComponentSupport(P, A, nd, i) ==
  IF nd.op = "jointchain" /\ i > 1 THEN KernelSupport(P, A, nd.args[i])
  ELSE SupportOrNatural(Of(A, nd.args[i]))

ComponentSupports(P, A, nd) ==
  [i \in DOMAIN nd.args |-> ComponentSupport(P, A, nd, i)]

TruncatedSet(set, base) == IF Meet(set, base) = Unknown THEN set ELSE Meet(set, base)

PowerOrUnknown(set) == IF set = Unknown THEN Unknown ELSE Power(set, 2)

SetOf(P, A, nd, ty) ==
  LET vs == Sets(A, nd)
  IN CASE nd.op \in {"elementof", "external", "Lebesgue", "Counting", "Uniform"} ->
            nd.set
       [] nd.op \in {"functionof", "kernelof", "pushfwd", "kchain", "sub1", "get"} ->
            Unknown
       [] nd.op = "call" -> CallSet(P, A, nd)
       [] nd.op \in {"lawof", "relabel", "Dirac", "normalize", "draw"} -> vs[1]
       [] nd.op \in {"weighted", "logweighted"} -> vs[2]
       [] nd.op \in {"joint", "jointchain", "record"} ->
            IF nd.op = "joint" /\ ~IsMeasure(ty) THEN Unknown
            ELSE ProductSupport(ComponentSupports(P, A, nd), nd.named)
       [] nd.op = "markovchain" -> PowerOrUnknown(KernelSupport(P, A, nd.args[1]))
       [] nd.op = "superpose" ->
            JoinScalarSets({ComponentSupport(P, A, nd, i) : i \in DOMAIN nd.args})
       [] nd.op = "truncate" -> TruncatedSet(nd.set, vs[1])
       [] nd.op = "iid" -> PowerOrUnknown(vs[1])
       [] nd.op = "vector" -> PowerOrUnknown(JoinScalarSets({vs[i] : i \in DOMAIN vs}))
       [] nd.op = "abs" -> Named("nonnegreals")
       [] nd.op = "exp" -> Named("posreals")
       [] OTHER -> Distributions[nd.op]

Annotate(P, A, nd) ==
  LET ty == TypeOf(P, A, nd)
  IN Annotation(ty, SetOf(P, A, nd, ty), PhaseOf(A, nd), LawPhase(A, nd))

-----------------------------------------------------------------------------
VARIABLES prog, ann

(* A node whose rule fails is reported and the program refused; an Auto    *)
(* reification keeps the boundary its first trace found.                   *)
Settled(nd) ==
  IF nd.op \in {"functionof", "kernelof"}
    THEN [nd EXCEPT !.inputs = InputsOf(prog, ann, nd), !.auto = FALSE]
  ELSE nd

Define(nd) ==
  LET a == Annotate(prog, ann, nd)
  IN /\ a.ty # Failed
     /\ prog' = Append(prog, Settled(nd))
     /\ ann' = Append(ann, a)
==============================================================================
