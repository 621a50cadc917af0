----------------------------- MODULE Determinizer -----------------------------
(***************************************************************************)
(* The determinizer (crates/determinizer): it replaces the density and     *)
(* sampling queries of a module, one after the other, by deterministic     *)
(* expressions until no measure is left, or refuses.                       *)
(*                                                                         *)
(* A query that scores or samples a draw overwrites the draw's binding     *)
(* with the point or the sample (it pins it) and remembers what the binding *)
(* was declared as.  Queries share bindings, so what one leaves behind is  *)
(* what the next one reads.                                                *)
(*                                                                         *)
(* Values are residues modulo three, a distribution is a table of weights, *)
(* and densities are kept without the logarithm: the sum of the code is a  *)
(* product here, its logsumexp a sum.  Translation on residues stands for  *)
(* the maps that can be inverted.  Of the conjugate rows there is the one  *)
(* of a parameter that is the latent itself.  Draws are bindings of their  *)
(* own, as `a ~ M` makes them.                                             *)
(***************************************************************************)
EXTENDS Naturals, Sequences, FiniteSets, SequencesExt, FiniteSetsExt

CONSTANT Programs   \* what may be determinized, with the outputs asked for

VARIABLES
  program,  \* the module as it was given; never changes
  rhs,      \* binding -> its right-hand side now
  declared, \* pinned binding -> the right-hand side the first pin replaced
  status    \* "running", "done" or "refused"

vars == <<program, rhs, declared, status>>

-----------------------------------------------------------------------------
(* Expressions: an operation, a number, names and operands.                *)

Node(op, num, names, args) == [op |-> op, num |-> num, names |-> names, args |-> args]
Lit(v) == Node("lit", v, <<>>, <<>>)
Ref(x) == Node("ref", 0, <<x>>, <<>>)
Elementof == Node("elementof", 0, <<>>, <<>>)
Hole == Ref("_")                                \* the input of a map
Add(a, b) == Node("add", 0, <<>>, <<a, b>>)
Sub(a, b) == Node("sub", 0, <<>>, <<a, b>>)
Record(fields, values) == Node("record", 0, fields, values)

Draw(m) == Node("draw", 0, <<>>, <<m>>)
Dist(param) == Node("dist", 0, <<>>, <<param>>)
Lawof(e) == Node("lawof", 0, <<>>, <<e>>)
Weighted(w, m) == Node("weighted", 0, <<>>, <<w, m>>)
Superpose(m, n) == Node("superpose", 0, <<>>, <<m, n>>)
Joint(fields, measures) == Node("joint", 0, fields, measures)
Pushfwd(map, m) == Node("pushfwd", 0, <<>>, <<map, m>>)
Kernelof(body, inputs) == Node("kernelof", 0, inputs, <<body>>)
Apply(k, inputs, values) == Node("apply", 0, inputs, <<k>> \o values)
Likelihoodof(k, obs) == Node("likelihoodof", 0, <<>>, <<k, obs>>)
JointLikelihood(l, k) == Node("joint_likelihood", 0, <<>>, <<l, k>>)
Bayesupdate(l, prior) == Node("bayesupdate", 0, <<>>, <<l, prior>>)
Density(m, point) == Node("densityof", 0, <<>>, <<m, point>>)
Restriction(m, values) == Node("restrict", 0, <<>>, <<m, values>>)
Disintegrate(selector, m) == Node("disintegrate", 0, selector, <<m>>)
Part(i, pair) == Node("get", i, <<>>, <<pair>>)
Rand(m, state) == Node("rand", 0, <<>>, <<m, state>>)

\* The law of a draw from Dist(z) where z comes from `prior`: what the conjugate
\* rows give in closed form.
Marginal(prior) == Node("marginal", 0, <<>>, <<prior>>)

\* Lowered densities.
Mass(m, v) == Node("mass", 0, <<>>, <<m, v>>)
Times(a, b) == Node("times", 0, <<>>, <<a, b>>)
Plus(a, b) == Node("plus", 0, <<>>, <<a, b>>)

\* Lowered samples: a value and the state of the generator after it, from the
\* distribution with a parameter and the state before; a query that is lowered.
Sample(state, param) == Node("sample", 0, <<>>, <<state, param>>)
Pair(v, state) == Node("tuple", 0, <<>>, <<v, state>>)
Result(e) == Node("result", 0, <<>>, <<e>>)

MeasureExprs == {"dist", "weighted", "superpose", "joint", "pushfwd", "marginal"}
MeasureLayer == MeasureExprs \cup {"draw", "lawof", "kernelof", "likelihoodof",
                                   "joint_likelihood", "bayesupdate", "restrict", "disintegrate"}

RECURSIVE Nodes(_)
Nodes(e) == {e} \cup UNION {Nodes(e.args[i]) : i \in DOMAIN e.args}

\* Names a right-hand side refers to, inputs of kernels included.
Referenced(e) ==
  UNION {Range(n.names) : n \in {k \in Nodes(e) : k.op \in {"ref", "kernelof"}}}

Operands(e, new) == [e EXCEPT !.args = new]

-----------------------------------------------------------------------------
(* A module at work: d.rhs and d.declared.  `Current` follows names to what *)
(* they stand for now, `Traced` to what they were declared as; a lowering   *)
(* must not take a point of another query for a part of the model.          *)

DeclaredRhsNow(d, x) == d.rhs[x]
DeclaredRhs(d, x) == IF x \in DOMAIN d.declared THEN d.declared[x] ELSE d.rhs[x]
IsName(d, e) == e.op = "ref" /\ e.names[1] \in DOMAIN d.rhs

RECURSIVE Current(_, _)
Current(d, e) == IF IsName(d, e) THEN Current(d, d.rhs[e.names[1]]) ELSE e

\* The expression, and the last name on the way to it.
RECURSIVE Traced(_, _, _)
Traced(d, e, holder) ==
  IF IsName(d, e) THEN Traced(d, DeclaredRhs(d, e.names[1]), {e.names[1]})
  ELSE [node |-> e, holder |-> holder]

\* First pin wins.
PinLast(d, x, point) ==
  [rhs |-> [d.rhs EXCEPT ![x] = point],
   declared |-> [y \in DOMAIN d.declared \cup {x} |->
                   IF y = x THEN d.rhs[x] ELSE d.declared[y]]]
Pin(d, x, point) ==
  [rhs |-> [d.rhs EXCEPT ![x] = point],
   declared |-> IF x \in DOMAIN d.declared THEN d.declared
                ELSE [y \in DOMAIN d.declared \cup {x} |->
                        IF y = x THEN d.rhs[x] ELSE d.declared[y]]]

\* Draws a value is made from.
RECURSIVE DrawSites(_, _)
DrawSites(d, e) ==
  IF IsName(d, e)
  THEN LET x == e.names[1]
       IN  IF DeclaredRhs(d, x).op = "draw" THEN {x} ELSE DrawSites(d, DeclaredRhs(d, x))
  ELSE UNION {DrawSites(d, e.args[i]) : i \in DOMAIN e.args}

\* Draws the law of a measure depends on; `given` are inputs of the kernel at
\* work, and a law within integrates its own draws out.
RECURSIVE Ancestors(_, _, _, _)
Ancestors(d, e, exempt, given) ==
  IF IsName(d, e)
  THEN LET x == e.names[1]
       IN  IF x \in given THEN {}
           ELSE IF DeclaredRhs(d, x).op = "draw" THEN {x} \ exempt
           ELSE Ancestors(d, DeclaredRhs(d, x), exempt, given)
  ELSE IF e.op = "lawof" THEN {}
  ELSE UNION {Ancestors(d, e.args[i], exempt, given) : i \in DOMAIN e.args}

\* Bindings of `s` replaced, also behind the names of other values, but not
\* within what a draw of the model is drawn from.
RECURSIVE Substitute(_, _, _)
Substitute(d, e, s) ==
  IF e.op = "ref" /\ e.names[1] \in DOMAIN s THEN s[e.names[1]]
  ELSE IF IsName(d, e)
  THEN LET of == DeclaredRhs(d, e.names[1])
           new == Substitute(d, of, s)
       IN  IF of.op = "draw" \/ new = of THEN e ELSE new
  ELSE Operands(e, [i \in DOMAIN e.args |-> Substitute(d, e.args[i], s)])

\* The same on a finished density, which stands for what names are now.
RECURSIVE Inline(_, _, _)
Inline(d, e, s) ==
  IF e.op = "ref" /\ e.names[1] \in DOMAIN s THEN s[e.names[1]]
  ELSE IF IsName(d, e)
  THEN LET of == d.rhs[e.names[1]]
           new == Inline(d, of, s)
       IN  IF new = of THEN e ELSE new
  ELSE Operands(e, [i \in DOMAIN e.args |-> Inline(d, e.args[i], s)])

\* What a density depends on in the model, whatever is pinned.
RECURSIVE DependsOn(_, _, _)
DependsOn(d, e, xs) ==
  \/ e.op = "ref" /\ e.names[1] \in xs
  \/ IsName(d, e) /\ DependsOn(d, DeclaredRhs(d, e.names[1]), xs)
  \/ \E i \in DOMAIN e.args : DependsOn(d, e.args[i], xs)

\* A value as a map of one of its draws.
RECURSIVE Abstract(_, _, _)
Abstract(d, e, site) ==
  IF e = Ref(site) THEN Hole
  ELSE IF IsName(d, e)
  THEN LET of == DeclaredRhs(d, e.names[1])
           new == Abstract(d, of, site)
       IN  IF of.op = "draw" \/ new = of THEN e ELSE new
  ELSE Operands(e, [i \in DOMAIN e.args |-> Abstract(d, e.args[i], site)])

\* Maps that can be inverted: a constant added to their input, or their input
\* subtracted from a constant and so on, the input occurring once.
RECURSIVE Invertible(_), Invert(_, _)
Invertible(map) ==
  \/ map = Hole
  \/ map.op \in {"add", "sub"} /\ map.args[2].op = "lit" /\ Invertible(map.args[1])
Invert(map, v) ==
  CASE map = Hole -> v
    [] map # Hole /\ map.op = "add" -> Invert(map.args[1], Sub(v, map.args[2]))
    [] map # Hole /\ map.op = "sub" -> Invert(map.args[1], Add(v, map.args[2]))

-----------------------------------------------------------------------------
(* Lowering the density of a measure at a point.  A lowering either gives a *)
(* term and the module with its pins, or refuses.  `origin` says whether    *)
(* the point is the query's own value ("point"), which alone may be pinned, *)
(* or belongs to some other value; `given` are the inputs conditioned on.   *)

Refused == [ok |-> FALSE, term |-> Lit(0), rhs |-> <<>>, declared |-> <<>>]
Lowered(d, term) == [ok |-> TRUE, term |-> term, rhs |-> d.rhs, declared |-> d.declared]
Then(r, next(_)) == IF r.ok THEN next(r) ELSE Refused
PinnedAt(r, holder, point, origin) ==
  IF origin = "point" /\ holder # {}
  THEN Lowered(Pin(r, CHOOSE x \in holder : TRUE, point), r.term) ELSE r

\* A value that is one draw, or a map of exactly one: the draw, its measure,
\* the map, and the binding that a query on the value pins.
ComponentOf(d, t) ==
  IF t.node.op = "draw"
  THEN {[site |-> t.holder, measure |-> t.node.args[1], map |-> Hole, holder |-> t.holder]}
  ELSE {[site |-> {x}, measure |-> DeclaredRhs(d, x).args[1], map |-> t.node, holder |-> t.holder] :
          x \in {y \in DrawSites(d, t.node) : t.node.args # <<>> /\ DrawSites(d, t.node) = {y}}}
Component(d, value) == ComponentOf(d, Traced(d, value, {}))
AllComponents(d, rec) == \A i \in DOMAIN rec.args : Component(d, rec.args[i]) # {}
Components(d, rec) == [i \in DOMAIN rec.args |-> CHOOSE c \in Component(d, rec.args[i]) : TRUE]

\* The law of a draw whose only latent is its parameter, the latents above it
\* integrated out first; nothing when there is no closed form.
RECURSIVE ConjugateMarginal(_, _, _, _)
PriorForms(d, prior, above, exempt, given) ==
  IF above = {} THEN {[form |-> prior, latents |-> {}]}
  ELSE IF Ancestors(d, prior, exempt, given) = above THEN ConjugateMarginal(d, prior, exempt, given)
  ELSE {}
MarginalOver(d, z, prior, exempt, given) ==
  {[form |-> Marginal(p.form), latents |-> p.latents \cup {z}] :
     p \in {q \in PriorForms(d, prior, Ancestors(d, prior, {}, given), exempt, given) :
              q.form.op \in {"dist", "marginal"}}}
ConjugateMarginal(d, measure, exempt, given) ==
  UNION {MarginalOver(d, z, DeclaredRhs(d, z).args[1], exempt, given) :
           z \in {x \in DOMAIN d.rhs :
                    /\ measure.op = "dist" /\ measure.args[1] = Ref(x)
                    /\ Ancestors(d, measure, exempt, given) = {x}}}

Field(rec, name) == rec.args[CHOOSE i \in DOMAIN rec.names : rec.names[i] = name]
Covers(point, rec) == point.op = "record" /\ Range(rec.names) \subseteq Range(point.names)

RECURSIVE LowerMeasure(_, _, _, _, _), Product(_, _, _, _)

\* The product of several densities, each <<measure, point>>.
Product(d, items, origin, given) ==
  IF items = <<>> THEN Lowered(d, Lit(1))
  ELSE Then(LowerMeasure(d, items[1][1], items[1][2], origin, given),
            LAMBDA r : Then(Product(r, Tail(items), origin, given),
                            LAMBDA s : Lowered(s, Times(r.term, s.term))))

\* The law of one component, the points of the others (`siblings`) put in for
\* the bindings that hold them.
FieldLaw(d, c, siblings) ==
  IF c.map = Hole THEN Substitute(d, c.measure, siblings)
  ELSE Pushfwd(Substitute(d, Abstract(d, c.map, CHOOSE x \in c.site : TRUE), siblings),
               Substitute(d, c.measure, siblings))
Siblings(c, at, i) ==
  LET others == {j \in DOMAIN c \ {i} : c[j].holder # {}}
  IN  [x \in UNION {c[j].holder : j \in others} |-> at[CHOOSE j \in others : c[j].holder = {x}]]
PinFields(d, c, at) ==
  FoldLeft(LAMBDA m, i : IF c[i].holder = {} THEN m ELSE Pin(m, CHOOSE x \in c[i].holder : TRUE, at[i]),
           [rhs |-> d.rhs, declared |-> d.declared], [i \in DOMAIN c |-> i])

\* A record whose fields are draws or maps of different draws: the product of
\* their densities.  `closed` has the fields whose law is a marginal.
ScoreFields(d, rec, c, at, closed, given) ==
  IF \E i, j \in DOMAIN c : i # j /\ c[i].site = c[j].site THEN Refused
  ELSE Then(Product(d, [i \in DOMAIN c |->
                          <<IF rec.names[i] \in DOMAIN closed THEN closed[rec.names[i]]
                            ELSE FieldLaw(d, c[i], Siblings(c, at, i)), at[i]>>], "other", given),
            LAMBDA r : Lowered(PinFields(r, c, at), r.term))
PointsOf(point, rec) == [i \in DOMAIN rec.names |-> Field(point, rec.names[i])]
RecordOfDraws(d, rec, point, closed, given) ==
  IF Covers(point, rec) /\ AllComponents(d, rec)
  THEN ScoreFields(d, rec, Components(d, rec), PointsOf(point, rec), closed, given)
  ELSE Refused

\* Laws of values that depend on draws they do not carry: the closed form, a
\* refusal, or not such a law.
NotALatentLaw == [decided |-> FALSE, by |-> Refused]
DecidedBy(r) == [decided |-> TRUE, by |-> r]

\* The fields that depend on a draw the record does not carry, and their
\* marginals.
OpenFields(d, c, carried, given) ==
  {i \in DOMAIN c : Ancestors(d, c[i].measure, carried, given)
                      \cup Ancestors(d, c[i].map, carried, given) # {}}
OpenForms(d, c, carried, open, given) ==
  [i \in open |-> IF c[i].map # Hole THEN {} ELSE ConjugateMarginal(d, c[i].measure, carried, given)]
LatentsOf(built, i) == UNION {m.latents : m \in built[i]}
ScoreOpen(d, rec, v, built, given) ==
  IF \/ \E i \in DOMAIN built : built[i] = {}
     \/ \E i, j \in DOMAIN built : i # j /\ LatentsOf(built, i) \cap LatentsOf(built, j) # {}
  THEN Refused
  ELSE RecordOfDraws(d, rec, Current(d, v),
                     [n \in {rec.names[i] : i \in DOMAIN built} |->
                        (CHOOSE m \in built[CHOOSE i \in DOMAIN built : rec.names[i] = n] : TRUE).form],
                     given)
OpenLaw(d, rec, v, c, carried, open, given) ==
  IF open = {} THEN NotALatentLaw
  ELSE DecidedBy(ScoreOpen(d, rec, v, OpenForms(d, c, carried, open, given), given))
Carrying(d, rec, v, c, carried, given) ==
  OpenLaw(d, rec, v, c, carried, OpenFields(d, c, carried, given), given)
RecordLaw(d, rec, v, c, given) == Carrying(d, rec, v, c, UNION {c[i].site : i \in DOMAIN c}, given)

\* A measure scored by the closed form of its marginal.
ScoreClosed(d, closed, v) ==
  IF closed = {} THEN Refused ELSE Lowered(d, Mass((CHOOSE m \in closed : TRUE).form, v))

MarginalizeOrRefuse(d, n, v, given) ==
  IF n.op = "record" /\ AllComponents(d, n) THEN RecordLaw(d, n, v, Components(d, n), given)
  ELSE IF n.op \in MeasureExprs /\ Ancestors(d, n, {}, given) # {}
  THEN DecidedBy(ScoreClosed(d, ConjugateMarginal(d, n, {}, given), v))
  ELSE NotALatentLaw

DecidedOr(law, r) == IF law.decided THEN law.by ELSE r
LowerLaw(d, arg, v, origin, given) ==
  DecidedOr(MarginalizeOrRefuse(d, Current(d, arg), v, given), LowerMeasure(d, arg, v, origin, given))

\* The law of a value of one draw.
ComponentLaw(d, c, v, given) ==
  IF Ancestors(d, c.measure, {}, given) = {}
  THEN LowerMeasure(d, FieldLaw(d, c, <<>>), v, "other", given)
  ELSE ScoreClosed(d, IF c.map = Hole THEN ConjugateMarginal(d, c.measure, {}, given) ELSE {}, v)
ValueLaw(d, cs, v, origin, given) ==
  IF cs = {} THEN Refused
  ELSE LET c == CHOOSE c \in cs : TRUE
       IN  Then(ComponentLaw(d, c, v, given), LAMBDA r : PinnedAt(r, c.holder, v, origin))

\* A kernel applied: its body with the inputs given, then the values put in
\* for the inputs.  A value that is not put in everywhere is a refusal.
Applies(d, n) == n.op = "apply" /\ Current(d, n.args[1]).op = "kernelof"
BodyOf(d, traced) == IF traced.op = "draw" THEN Current(d, traced.args[1]) ELSE traced
PutIn(d, term, value) ==
  IF DependsOn(d, term, {x \in DOMAIN value : \A y \in DOMAIN value : ~DependsOn(d, value[y], {x})})
  THEN Refused ELSE Lowered(d, term)
LowerApplication(d, kernel, value, v, origin, given) ==
  Then(LowerLaw(d, BodyOf(d, Traced(d, kernel.args[1], {}).node), v, origin, given \cup DOMAIN value),
       LAMBDA r : PutIn(r, Inline(r, r.term, value), value))
Inputs(app, kernel) ==
  [x \in Range(kernel.names) |-> app.args[1 + CHOOSE i \in DOMAIN app.names : app.names[i] = x]]

LowerJoint(d, n, point, origin, given) ==
  IF Covers(point, n)
  THEN Product(d, [i \in DOMAIN n.args |-> <<n.args[i], Field(point, n.names[i])>>], origin, given)
  ELSE Refused
LowerPushfwd(d, n, v, origin, given) ==
  IF Invertible(n.args[1]) THEN LowerMeasure(d, n.args[2], Invert(n.args[1], v), origin, given)
  ELSE Refused
LowerWeighted(d, n, v, given) ==
  Then(LowerMeasure(d, n.args[2], v, "other", given),
       LAMBDA r : Lowered(r, Times(n.args[1], r.term)))
LowerSuperpose(d, n, v, given) ==
  Then(LowerMeasure(d, n.args[1], v, "other", given),
       LAMBDA r : Then(LowerMeasure(r, n.args[2], v, "other", given),
                       LAMBDA s : Lowered(s, Plus(r.term, s.term))))

\* `n` is what `e` stands for.
LowerShape(d, e, n, v, origin, given) ==
  CASE Applies(d, n) ->
         LowerApplication(d, Current(d, n.args[1]), Inputs(n, Current(d, n.args[1])), v, origin, given)
    [] n.op = "record" -> RecordOfDraws(d, n, Current(d, v), <<>>, given)
    [] n.op = "lawof" -> LowerLaw(d, n.args[1], v, origin, given)
    [] n.op = "weighted" -> LowerWeighted(d, n, v, given)
    [] n.op = "superpose" -> LowerSuperpose(d, n, v, given)
    [] n.op = "joint" -> LowerJoint(d, n, Current(d, v), origin, given)
    [] n.op = "pushfwd" -> LowerPushfwd(d, n, v, origin, given)
    [] n.op \in {"dist", "marginal"} -> Lowered(d, Mass(n, v))
    [] /\ ~Applies(d, n)
       /\ n.op \in {"apply", "likelihoodof", "joint_likelihood", "bayesupdate", "kernelof"} -> Refused
    [] OTHER -> ValueLaw(d, Component(d, e), v, origin, given)
LowerMeasure(d, e, v, origin, given) == LowerShape(d, e, Current(d, e), v, origin, given)

-----------------------------------------------------------------------------
(* Queries.                                                                 *)

\* A likelihood at the parameters theta: the kernel at the inputs theta names,
\* scored at what was observed.
RECURSIVE LowerLikelihood(_, _, _)
LikelihoodOf(d, l, kernel, point) ==
  IF kernel.op = "kernelof" /\ Range(kernel.names) \subseteq Range(point.names)
  THEN LowerMeasure(d, Apply(l.args[1], kernel.names,
                             [i \in DOMAIN kernel.names |-> Field(point, kernel.names[i])]),
                    l.args[2], "point", {})
  ELSE Refused
LowerLikelihood(d, l, theta) ==
  IF l.op = "likelihoodof" THEN LikelihoodOf(d, l, Current(d, l.args[1]), Current(d, theta))
  ELSE Then(LowerLikelihood(d, Current(d, l.args[1]), theta),
            LAMBDA r : Then(LowerLikelihood(r, Current(d, l.args[2]), theta),
                            LAMBDA s : Lowered(s, Times(r.term, s.term))))

LowerQueryOn(d, n, measure, point) ==
  CASE n.op \in {"likelihoodof", "joint_likelihood"} -> LowerLikelihood(d, n, point)
    [] n.op = "bayesupdate" ->
         Then(LowerMeasure(d, n.args[2], point, "other", {}),
              LAMBDA r : Then(LowerLikelihood(r, Current(d, n.args[1]), point),
                              LAMBDA s : Lowered(s, Times(s.term, r.term))))
    [] OTHER -> LowerMeasure(d, measure, point, "point", {})
LowerDensity(d, query) == LowerQueryOn(d, Current(d, query.args[1]), query.args[1], query.args[2])

-----------------------------------------------------------------------------
(* Disintegration: the law of a record taken apart into the law of the      *)
(* fields that are not selected and a kernel from those to the selected     *)
(* ones.  Fields are labelled with the bindings they hold, so that labels   *)
(* of kernel inputs and their targets are the same names.                   *)

RECURSIVE Reachable(_, _)
Reachable(d, names) ==
  LET more == names \cup UNION {Referenced(d.rhs[x]) \cap DOMAIN d.rhs : x \in names}
  IN  IF more = names THEN names ELSE Reachable(d, more)

\* The names a selected value refers to, and what they are other names of.
RECURSIVE Renamed(_, _)
Renamed(d, names) ==
  LET more == names \cup UNION {Referenced(d.rhs[x]) : x \in {y \in names : IsName(d, d.rhs[y])}}
  IN  IF more = names THEN names ELSE Renamed(d, more)
SelectedNamesHere(d, value) == Referenced(value) \cap DOMAIN d.rhs
SelectedNames(d, value) == Renamed(d, Referenced(value) \cap DOMAIN d.rhs)
NamesBelowHere(d, value) == Renamed(d, Referenced(value) \cap DOMAIN d.rhs)
NamesBelow(d, value) == Reachable(d, Referenced(value) \cap DOMAIN d.rhs)

RecordOf(rec, fields) == Record(fields, [i \in DOMAIN fields |-> Field(rec, fields[i])])

\* Both sides have fields, those that stay are names, and none of them is made
\* from a selected one.
Splits(d, rec, selected) ==
  LET kept == Range(rec.names) \ selected
      values(fields, names(_, _)) == UNION {names(d, Field(rec, f)) : f \in fields}
  IN  /\ selected # {} /\ selected \subseteq Range(rec.names) /\ kept # {}
      /\ \A f \in kept : Field(rec, f).op = "ref"
      /\ values(kept, NamesBelow) \cap values(selected, SelectedNames) = {}

\* The kernel and the law of the rest, in a set that is empty when the measure
\* does not split.
SplitRecord(d, rec, selected) ==
  LET among(names) == SelectSeq(rec.names, LAMBDA f : f \in names)
      kept == among(Range(rec.names) \ selected)
  IN  IF rec.op = "record" /\ Splits(d, rec, selected)
      THEN {[kernel |-> Kernelof(RecordOf(rec, among(selected)), kept),
             marginal |-> Lawof(RecordOf(rec, kept))]}
      ELSE {}
SplitLaw(d, measure, selected) ==
  LET law == Current(d, measure)
  IN  IF law.op = "lawof" THEN SplitRecord(d, Current(d, law.args[1]), selected) ELSE {}

\* A selector that is one name instead of a list gives the value itself.
Projected(split, pair, i) ==
  IF i = 2 THEN split.marginal
  ELSE IF pair.num = 1 THEN Kernelof(split.kernel.args[1].args[1], split.kernel.names)
  ELSE split.kernel
PartRewritten(d, e) ==
  LET pair == Current(d, e.args[1])
  IN  {Projected(split, pair, e.num) : split \in SplitLaw(d, pair.args[1], Range(pair.names))}

\* restrict(M, x) is the law of the rest, weighted by how likely it makes x.
RestrictionRewritten(d, e) ==
  LET x == Current(d, e.args[2])
  IN  {Bayesupdate(Likelihoodof(split.kernel, e.args[2]), split.marginal) :
         split \in IF x.op = "record" THEN SplitLaw(d, e.args[1], Range(x.names)) ELSE {}}

-----------------------------------------------------------------------------
(* Sampling.  rand(measure, state) takes a sample of every distribution the *)
(* measure is made of, each from the state the one before left.            *)

RECURSIVE Fresh(_, _)
Fresh(d, name) == IF name \in DOMAIN d.rhs THEN Fresh(d, name \o "_") ELSE name

\* A sampling query is a value, whatever it was asked of.
IsRandBoundary(e) == e.op \in {"rand", "result"}
RECURSIVE MadeOf(_), Cone(_, _)
MadeOf(e) ==
  IF e.op = "ref" THEN Range(e.names)
  ELSE IF IsRandBoundary(e) THEN {}
  ELSE UNION {MadeOf(e.args[i]) : i \in DOMAIN e.args}
Cone(d, names) ==
  LET more == names \cup UNION {MadeOf(DeclaredRhs(d, x)) \cap DOMAIN d.rhs : x \in names}
  IN  IF more = names THEN names ELSE Cone(d, more)
DrawsIn(d, e) ==
  {x \in Cone(d, MadeOf(e) \cap DOMAIN d.rhs) : DeclaredRhs(d, x).op = "draw"}

\* Bindings of `s` replaced in all a law is made of.  The draws of a kernel that
\* change with its inputs become draws of their own; when what other queries
\* pinned is restored, `s` has all draws there are, but inputs of kernels stay.
RECURSIVE Reinstated(_, _, _, _)
Reinstated(d, e, s, restoring) ==
  IF restoring /\ IsRandBoundary(e) THEN e
  ELSE IF e.op = "ref" /\ e.names[1] \in DOMAIN s THEN s[e.names[1]]
  ELSE IF IsName(d, e)
  THEN LET of == DeclaredRhs(d, e.names[1])
           new == Reinstated(d, of, s, restoring)
       IN  IF new = of THEN e
           ELSE IF of.op = "draw" /\ ~restoring THEN Ref(Fresh(d, "__kernel_draw_" \o e.names[1]))
           ELSE new
  ELSE LET open == DOMAIN s \ (IF e.op = "kernelof" THEN Range(e.names) ELSE {})
       IN  Operands(e, [i \in DOMAIN e.args |->
                          Reinstated(d, e.args[i], [x \in open |-> s[x]], restoring)])

\* The measure to sample, and the module, with copies of its draws when another
\* query has pinned something on the way to them.
RestoredNever(d, measure) == [law |-> measure, rhs |-> d.rhs, declared |-> d.declared]
Restored(d, measure) ==
  LET draws == DrawsIn(d, measure)
      copy == [x \in draws |-> Fresh(d, "__draw_" \o x)]
      as == [x \in draws |-> Ref(copy[x])]
      copies == [y \in Range(copy) |->
                   Reinstated(d, DeclaredRhs(d, CHOOSE x \in draws : copy[x] = y), as, TRUE)]
      pinned == Cone(d, MadeOf(measure) \cap DOMAIN d.rhs) \cap DOMAIN d.declared
  IN  IF pinned = {} \/ draws = {}
      THEN [law |-> measure, rhs |-> d.rhs, declared |-> d.declared]
      ELSE [law |-> Reinstated(d, measure, as, TRUE), rhs |-> copies @@ d.rhs,
            declared |-> d.declared]

\* The law of a kernel applied, and the module with the draws that are its own.
Applied(d, app) ==
  LET kernel == Current(d, app.args[1])
      value == Inputs(app, kernel)
      body == BodyOf(d, Traced(d, kernel.args[1], {}).node)
      with(e) == Reinstated(d, e, value, FALSE)
      own == {x \in DrawsIn(d, body) \ DOMAIN value : with(DeclaredRhs(d, x)) # DeclaredRhs(d, x)}
      name == [x \in own |-> Fresh(d, "__kernel_draw_" \o x)]
  IN  [law |-> with(body), declared |-> d.declared,
       rhs |-> [y \in Range(name) |-> with(DeclaredRhs(d, CHOOSE x \in own : name[x] = y))] @@ d.rhs]

\* The draw that other names of it lead to; the draws among the operands of an
\* expression; and those that its values are made from.
RECURSIVE DrawBehind(_, _), ReadDraws(_, _)
DrawBehind(d, e) ==
  IF ~IsName(d, e) THEN {}
  ELSE IF d.rhs[e.names[1]].op = "draw" THEN {e.names[1]}
  ELSE DrawBehind(d, d.rhs[e.names[1]])
DirectDraws(d, e) == UNION {DrawBehind(d, n) : n \in Nodes(e)}
ReadDraws(d, e) ==
  IF IsName(d, e)
  THEN IF d.rhs[e.names[1]].op = "draw" THEN {e.names[1]} ELSE ReadDraws(d, d.rhs[e.names[1]])
  ELSE UNION {ReadDraws(d, e.args[i]) : i \in DOMAIN e.args}

Drawn(d, term, state) ==
  [ok |-> TRUE, term |-> term, state |-> state, rhs |-> d.rhs, declared |-> d.declared]
DrawnFrom(d, sample) == Drawn(d, Part(1, sample), Part(2, sample))

\* A sample from a distribution; that of a latent is bound to a name, so that
\* all who read it read the same.
Primitive(d, dist, state, latent) ==
  LET sample == Sample(state, dist.args[1])
      name == Fresh(d, "__sample_" \o CHOOSE x \in latent : TRUE)
  IN  IF latent = {} THEN DrawnFrom(d, sample)
      ELSE DrawnFrom([rhs |-> (name :> sample) @@ d.rhs, declared |-> d.declared], Ref(name))

\* A draw.
RECURSIVE SampleDraw(_, _, _, _)
SampleDrawn(d, m, state, latent) ==
  CASE Applies(d, m) -> SampleDraw(Applied(d, m), Applied(d, m).law, state, latent)
    [] m.op = "dist" -> Primitive(d, m, state, latent)
    [] OTHER -> Refused
SampleDraw(d, measure, state, latent) == SampleDrawn(d, Current(d, measure), state, latent)

\* Latents, each after those its distribution refers to, and pinned to samples.
RECURSIVE After(_, _, _)
After(d, order, x) ==
  IF x \in Range(order) THEN order
  ELSE Append(FoldLeft(LAMBDA o, y : After(d, o, y), order,
                       SetToSeq(DirectDraws(d, d.rhs[x].args[1]))), x)
DependencyOrder(d, seeds) ==
  FoldLeft(LAMBDA order, xs : FoldLeft(LAMBDA o, x : After(d, o, x), order, SetToSeq(xs)), <<>>, seeds)
PinnedToFirst(r, x) == Drawn([Pin(r, x, r.term) EXCEPT !.declared = r.declared], r.term, r.state)
PinnedToSample(r, x) == Drawn(Pin(r, x, r.term), r.term, r.state)
SampleLatents(d, latents, state) ==
  FoldLeft(LAMBDA m, x :
             Then(m, LAMBDA at : Then(SampleDraw(at, at.rhs[x].args[1], at.state, {x}),
                                      LAMBDA r : PinnedToSample(r, x))),
           Drawn(d, Lit(0), state), latents)

\* The fields of a record: those of `latents` are read as they are, and so are
\* values; the others are sampled in their order.
Derived(d, v) == Current(d, v).op \notin MeasureLayer \cup MeasureExprs \cup {"record", "apply"}
RECURSIVE SampleRecord(_, _, _)
SampleField(d, v, state) ==
  LET n == Current(d, v)
  IN  CASE n.op = "record" -> SampleRecord(d, n, state)
        [] n.op = "draw" -> SampleDraw(d, n.args[1], state, {})
        [] OTHER -> Refused
WithFieldAlone(m, r) == Drawn(r, Operands(m.term, Append(m.term.args, r.term)), m.state)
WithField(m, r) == Drawn(r, Operands(m.term, Append(m.term.args, r.term)), r.state)
SampleFields(d, rec, latents, state) ==
  FoldLeft(LAMBDA m, i :
             Then(m, LAMBDA at :
                       Then(IF i \in latents \/ Derived(at, rec.args[i])
                            THEN Drawn(at, rec.args[i], at.state)
                            ELSE SampleField(at, rec.args[i], at.state),
                            LAMBDA r : WithField(at, r))),
           Drawn(d, Record(rec.names, <<>>), state), [i \in DOMAIN rec.args |-> i])

\* A latent that two fields are, that another field is drawn with or made of, is
\* sampled once for all of them.
SampleRecordApart(d, rec, state) == SampleFields(d, rec, {}, state)
SampleRecord(d, rec, state) ==
  LET fields == DOMAIN rec.args
      draw == [i \in fields |-> DrawBehind(d, rec.args[i])]
      drawn == {i \in fields : draw[i] # {}}
      derived == {i \in fields \ drawn : Derived(d, rec.args[i])}
      read == UNION {ReadDraws(d, rec.args[i]) : i \in derived}
      shared == \/ read # {}
                \/ \E i, j \in drawn : i # j /\ draw[i] = draw[j]
                \/ \E i \in drawn : \E x \in draw[i] : DirectDraws(d, d.rhs[x].args[1]) # {}
  IN  IF ~shared THEN SampleFields(d, rec, {}, state)
      ELSE Then(SampleLatents(d, DependencyOrder(d, Append(draw, read)), state),
                LAMBDA r : SampleFields(r, rec, drawn, r.state))

\* Expressions that read a draw outside every law.
RECURSIVE ReadsDraw(_, _)
ReadsDraw(d, e) ==
  \/ e.op = "draw"
  \/ IsName(d, e) /\ ReadsDraw(d, d.rhs[e.names[1]])
  \/ e.op \notin {"lawof", "kernelof"} /\ \E i \in DOMAIN e.args : ReadsDraw(d, e.args[i])

RECURSIVE SampleMeasure(_, _, _)
SampleShape(d, n, state) ==
  CASE Applies(d, n) -> SampleMeasure(Applied(d, n), Applied(d, n).law, state)
    [] n.op = "lawof" ->
         IF ReadsDraw(d, n.args[1]) THEN SampleMeasure(d, n.args[1], state) ELSE Refused
    [] n.op = "pushfwd" ->
         Then(SampleMeasure(d, n.args[2], state),
              LAMBDA r : Drawn(r, Inline(r, n.args[1], "_" :> r.term), r.state))
    [] n.op = "record" -> SampleRecord(d, n, state)
    [] n.op = "draw" -> SampleDraw(d, n.args[1], state, {})
    [] n.op = "dist" -> Primitive(d, n, state, {})
    [] OTHER -> Refused
SampleMeasure(d, e, state) == SampleShape(d, Current(d, e), state)

\* Both the value and the state after it are given when something takes the
\* result apart, the value alone when nothing does.
TakenApart(d, q) ==
  \E x \in DOMAIN d.rhs : \E n \in Nodes(d.rhs[x]) : n.op = "get" /\ n.args[1] = Ref(q)
LowerSample(d, q) ==
  LET restored == Restored(d, d.rhs[q].args[1])
  IN  Then(SampleMeasure(restored, restored.law, d.rhs[q].args[2]),
           LAMBDA r : Lowered(r, Result(IF TakenApart(d, q) THEN Pair(r.term, r.state) ELSE r.term)))

-----------------------------------------------------------------------------
(* The driver.                                                              *)

Parts(d) == {x \in DOMAIN d.rhs :
               d.rhs[x].op = "get" /\ Current(d, d.rhs[x].args[1]).op = "disintegrate"}
Restrictions(d) == {x \in DOMAIN d.rhs : d.rhs[x].op = "restrict"}
Densities(d) == {x \in DOMAIN d.rhs : d.rhs[x].op = "densityof"}
Samples(d) == {x \in DOMAIN d.rhs : d.rhs[x].op = "rand"}
Queries(d) == Densities(d) \cup Samples(d)
MeasureBindings(d) ==
  {x \in DOMAIN d.rhs : d.rhs[x].op = "draw" \/ Current(d, d.rhs[x]).op \in MeasureLayer \ {"draw"}}

\* What a pin replaced stays needed as long as there are queries.
NeededNow(d) == UNION {Referenced(d.rhs[x]) \ {x} : x \in DOMAIN d.rhs}
Needed(d) ==
  UNION {(Referenced(d.rhs[x])
            \cup IF x \in DOMAIN d.declared /\ Queries(d) # {} THEN Referenced(d.declared[x]) ELSE {})
           \ {x} : x \in DOMAIN d.rhs}

RECURSIVE Sweep(_)
Sweep(d) ==
  LET dead == MeasureBindings(d) \ Needed(d)
  IN  IF dead = {} THEN d
      ELSE Sweep([d EXCEPT !.rhs = [x \in DOMAIN d.rhs |-> IF x \in dead THEN Lit(0) ELSE @[x]]])

\* The density queries that outputs ask for may not read a draw outside a law.
RECURSIVE DensitiesOf(_, _)
DensitiesOf(d, e) ==
  (IF e.op = "densityof" THEN {e} ELSE {})
    \cup (IF IsName(d, e) THEN DensitiesOf(d, d.rhs[e.names[1]]) ELSE {})
    \cup (IF e.op \in {"lawof", "kernelof"} THEN {}
          ELSE UNION {DensitiesOf(d, e.args[i]) : i \in DOMAIN e.args})
HasFreeDraw(d, outputs) ==
  \E x \in outputs : \E q \in DensitiesOf(d, d.rhs[x]) : ReadsDraw(d, q.args[1])

Retained(d, roots) ==
  [d EXCEPT !.rhs = [x \in Reachable(d, roots) |-> d.rhs[x]]]

First(order, among) == order[CHOOSE i \in DOMAIN order :
                               order[i] \in among /\ \A j \in 1..(i - 1) : order[j] \notin among]

\* A binding gets what it is rewritten to, and what is dead then goes.
Rewritten(d, x, e) == Sweep([d EXCEPT !.rhs[x] = e])

RewrittenOrRefused(d, x, to) ==
  IF to = {} THEN [d EXCEPT !.status = "refused"]
  ELSE Rewritten(d, x, CHOOSE e \in to : TRUE)

\* A turn of the loop that takes a measure apart, and one that lowers a query:
\* all densities before the first sample.
Splitting(d, order) ==
  LET part == Parts(d) # {}
      x == First(order, IF part THEN Parts(d) ELSE Restrictions(d))
  IN  RewrittenOrRefused(d, x, IF part THEN PartRewritten(d, d.rhs[x])
                               ELSE RestrictionRewritten(d, d.rhs[x]))
Lowering(d, order) ==
  LET density == Densities(d) # {}
      q == First(order, IF density THEN Densities(d) ELSE Samples(d))
      r == IF density THEN LowerDensity(d, d.rhs[q]) ELSE LowerSample(d, q)
  IN  IF ~r.ok THEN [d EXCEPT !.status = "refused"]
      ELSE Rewritten([rhs |-> r.rhs, declared |-> r.declared, status |-> "running"], q, r.term)

\* Names defined in terms of themselves have no type, and a module that is not
\* typed or has a measure left does not conform.
Cyclic(d) == \E x \in DOMAIN d.rhs : x \in Reachable(d, Referenced(d.rhs[x]) \cap DOMAIN d.rhs)
Ending(d, roots) ==
  LET kept == IF roots = {} THEN d ELSE Retained(d, roots)
  IN  [kept EXCEPT !.status = IF ~Cyclic(kept) /\ MeasureBindings(kept) = {} THEN "done" ELSE "refused"]
Starting(p) ==
  LET d == [rhs |-> p.rhs, declared |-> <<>>]
      outputs == IF p.roots = {} THEN DOMAIN p.rhs ELSE p.roots
  IN  [rhs |-> p.rhs, declared |-> <<>>,
       status |-> IF HasFreeDraw(d, outputs) THEN "refused" ELSE "running"]

-----------------------------------------------------------------------------
Work == [rhs |-> rhs, declared |-> declared, status |-> status]
Become(d) == rhs' = d.rhs /\ declared' = d.declared /\ status' = d.status

Init ==
  /\ program \in Programs
  /\ LET d == Starting(program)
     IN  rhs = d.rhs /\ declared = d.declared /\ status = d.status

Split ==
  /\ status = "running" /\ Parts(Work) \cup Restrictions(Work) # {}
  /\ Become(Splitting(Work, program.order))
  /\ UNCHANGED program

LowerQuery ==
  /\ status = "running" /\ Parts(Work) \cup Restrictions(Work) = {} /\ Queries(Work) # {}
  /\ Become(Lowering(Work, program.order))
  /\ UNCHANGED program

Finish ==
  /\ status = "running" /\ Parts(Work) \cup Restrictions(Work) \cup Queries(Work) = {}
  /\ Become(Ending(Work, program.roots))
  /\ UNCHANGED program

Next == Split \/ LowerQuery \/ Finish
Spec == Init /\ [][Next]_vars

=============================================================================
