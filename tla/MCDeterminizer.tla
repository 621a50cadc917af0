---------------------------- MODULE MCDeterminizer ----------------------------
(***************************************************************************)
(* Modules for Determinizer, and the densities and the laws of the samples *)
(* their queries must come to, by summing over everything the draws of the *)
(* module could be.                                                        *)
(***************************************************************************)
EXTENDS Determinizer, TLC

Residues == 0..2

\* The weight of value x under the distribution with parameter p; none is zero,
\* and those of a distribution add up to ten.
Weight(p, x) == <<<<1, 2, 7>>, <<3, 1, 6>>, <<2, 5, 3>>>>[p + 1][x + 1]

SumOf(f(_), s) == FoldSet(LAMBDA x, acc : f(x) + acc, 0, s)
ProductOf(f(_), s) == FoldSet(LAMBDA x, acc : f(x) * acc, 1, s)

\* A value in a world: parameters and draws have the values `w` gives them.
RECURSIVE ValueIn(_, _, _)
ValueIn(model, e, w) ==
  LET of(i) == ValueIn(model, e.args[i], w)
  IN  CASE e.op = "ref" /\ e.names[1] \in DOMAIN w -> w[e.names[1]]
        [] e.op = "ref" /\ e.names[1] \notin DOMAIN w -> ValueIn(model, model[e.names[1]], w)
        [] e.op = "lit" -> e.num
        [] e.op = "add" -> (of(1) + of(2)) % 3
        [] e.op = "sub" -> (of(1) + 3 - of(2)) % 3
        [] e.op = "get" -> w[e.args[1].names[1]]   \* what a query sampled
        [] e.op = "record" -> [n \in Range(e.names) |->
                                 ValueIn(model, Field(e, n), w)]

RECURSIVE Meant(_, _)
Meant(model, e) == IF e.op = "ref" THEN Meant(model, model[e.names[1]]) ELSE e

\* Draws a value or a measure depends on, those above them included; a law
\* within has its own.
RECURSIVE DrawsOf(_, _, _)
DrawsOf(model, e, given) ==
  CASE e.op = "ref" ->
         LET x == e.names[1]
         IN  IF x \in given THEN {}
             ELSE (IF model[x].op = "draw" THEN {x} ELSE {}) \cup DrawsOf(model, model[x], given)
    [] e.op \in {"lawof", "kernelof"} -> {}
    [] OTHER -> UNION {DrawsOf(model, e.args[i], given) : i \in DOMAIN e.args}

Support(model, x) ==
  LET m == Meant(model, model[x].args[1])
  IN  IF m.op = "joint" THEN [Range(m.names) -> Residues] ELSE Residues

\* The worlds that extend `given` by values for the draws.
RECURSIVE Worlds(_, _, _)
Worlds(model, given, draws) ==
  IF draws = {} THEN {given}
  ELSE LET x == CHOOSE x \in draws : TRUE
       IN  {w @@ (x :> v) : w \in Worlds(model, given, draws \ {x}), v \in Support(model, x)}

\* The fields of a disintegrated measure that are not selected.
RestOf(model, pair) ==
  LET rec == Meant(model, Meant(model, pair.args[1]).args[1])
  IN  RecordOf(rec, SelectSeq(rec.names, LAMBDA f : f \notin Range(pair.names)))

\* The density of a measure at x, and of a value's law: the worlds in which the
\* value is x, each with the density of its draws.
RECURSIVE MeasureAt(_, _, _, _, _), LawAt(_, _, _, _)
MeasureAt(model, e, x, given, w) ==
  LET m == Meant(model, e)
      of(i) == MeasureAt(model, m.args[i], x, given, w)
      kernel == Meant(model, m.args[1])
      inputs == [n \in Range(kernel.names) |->
                   ValueIn(model, m.args[1 + CHOOSE i \in DOMAIN m.names : m.names[i] = n], w)]
      map(u) == ValueIn([n \in {"_"} |-> Lit(u)] @@ model, m.args[1], w)
  IN  CASE m.op = "dist" -> Weight(ValueIn(model, m.args[1], w), x)
        [] m.op = "weighted" -> ValueIn(model, m.args[1], w) * of(2)
        [] m.op = "superpose" -> of(1) + of(2)
        [] m.op = "joint" -> ProductOf(LAMBDA n : MeasureAt(model, Field(m, n), x[n], given, w),
                                       Range(m.names))
        [] m.op = "pushfwd" ->
             SumOf(LAMBDA u : MeasureAt(model, m.args[2], u, given, w),
                   {u \in Residues : map(u) = x})
        [] m.op = "lawof" -> LawAt(model, m.args[1], x, given)
        [] m.op = "restrict" ->
             MeasureAt(model, m.args[1], ValueIn(model, m.args[2], w) @@ x, given, w)
        [] m.op = "get" -> LawAt(model, RestOf(model, Meant(model, m.args[1])), x, given)
        [] m.op = "apply" ->
             IF Meant(model, kernel.args[1]).op \in MeasureExprs
             THEN MeasureAt(model, kernel.args[1], x, inputs @@ given, inputs @@ given)
             ELSE LawAt(model, kernel.args[1], x, inputs @@ given)

LawAt(model, value, x, given) ==
  LET draws == DrawsOf(model, value, DOMAIN given)
  IN  SumOf(LAMBDA w : ProductOf(LAMBDA y : MeasureAt(model, model[y].args[1], w[y], given, w),
                                 draws),
            {w \in Worlds(model, given, draws) : ValueIn(model, value, w) = x})

RECURSIVE LikelihoodAt(_, _, _, _)
LikelihoodAt(model, e, theta, given) ==
  LET l == Meant(model, e)
      kernel == Meant(model, l.args[1])
      values == [i \in DOMAIN kernel.names |-> Field(Meant(model, theta), kernel.names[i])]
  IN  IF l.op = "joint_likelihood"
      THEN LikelihoodAt(model, l.args[1], theta, given) * LikelihoodAt(model, l.args[2], theta, given)
      ELSE MeasureAt(model, Apply(l.args[1], kernel.names, values),
                     ValueIn(model, l.args[2], given), given, given)

\* The marginal of a disintegrated measure updated with the likelihood of its
\* kernel is the measure itself, at what was observed.
PosteriorAt(model, posterior, x, given) ==
  LET observed == Meant(model, posterior.args[1]).args[2]
      pair == Meant(model, Meant(model, posterior.args[2]).args[1])
      selected == IF pair.num = 0 THEN ValueIn(model, observed, given)
                  ELSE [f \in Range(pair.names) |-> ValueIn(model, observed, given)]
  IN  MeasureAt(model, pair.args[1], x @@ selected, given, given)

\* What a query must come to.
DensityAt(model, q, given) ==
  LET m == Meant(model, q.args[1])
      x == ValueIn(model, q.args[2], given)
  IN  CASE m.op \in {"likelihoodof", "joint_likelihood"} ->
             LikelihoodAt(model, m, q.args[2], given)
        [] m.op = "bayesupdate" /\ Meant(model, m.args[2]).op = "get" ->
             PosteriorAt(model, m, x, given)
        [] m.op = "bayesupdate" /\ Meant(model, m.args[2]).op # "get" ->
             LikelihoodAt(model, m.args[1], q.args[2], given)
               * MeasureAt(model, m.args[2], x, given, given)
        [] OTHER -> MeasureAt(model, m, x, given, given)

-----------------------------------------------------------------------------
(* What a finished module says: every name replaced by what it stands for, a *)
(* sample is a random choice, and samples that are the same term the same   *)
(* choice, for the generator gives the same value from the same state.      *)

RECURSIVE Spelled(_, _)
Spelled(model, e) ==
  IF e.op = "ref" /\ e.names[1] \in DOMAIN model /\ model[e.names[1]].op # "elementof"
  THEN Spelled(model, model[e.names[1]])
  ELSE LET args == [i \in DOMAIN e.args |-> Spelled(model, e.args[i])]
       IN  CASE e.op = "result" -> args[1]
             [] e.op = "get" /\ args[1].op = "tuple" -> args[1].args[e.num]
             [] OTHER -> Operands(e, args)

SamplesOf(terms) == {n \in UNION {Nodes(e) : e \in terms} : n.op = "sample"}
ReadIn(terms, samples) == {n \in samples : \E e \in terms : Part(1, n) \in Nodes(e)}

\* The value of such a term when the samples are `chosen`.
RECURSIVE Comes(_, _, _), MassAt(_, _, _, _)
MassAt(m, x, w, chosen) ==
  IF m.op = "dist" THEN Weight(Comes(m.args[1], w, chosen), x)
  ELSE SumOf(LAMBDA z : MassAt(m.args[1], z, w, chosen) * Weight(z, x), Residues)
Comes(e, w, chosen) ==
  LET of(i) == Comes(e.args[i], w, chosen)
  IN  CASE e.op = "ref" -> w[e.names[1]]
        [] e.op = "lit" -> e.num
        [] e.op = "add" -> (of(1) + of(2)) % 3
        [] e.op = "sub" -> (of(1) + 3 - of(2)) % 3
        [] e.op = "record" -> [n \in Range(e.names) |-> Comes(Field(e, n), w, chosen)]
        [] e.op = "get" /\ e.num = 1 -> chosen[e.args[1]]
        [] e.op = "tuple" -> of(1)
        [] e.op = "times" -> of(1) * of(2)
        [] e.op = "plus" -> of(1) + of(2)
        [] e.op = "mass" -> MassAt(e.args[1], of(2), w, chosen)

-----------------------------------------------------------------------------
Parameters(p) == {x \in DOMAIN p.rhs \ {"s"} : p.rhs[x].op = "elementof"}
Scored(p) == {x \in DOMAIN p.rhs : p.rhs[x].op = "densityof"}
Drawing(p) == {x \in DOMAIN p.rhs : p.rhs[x].op = "rand"}
Asked(p) == Scored(p) \cup Drawing(p)

\* Every density query comes to the density that the module gives, at whatever
\* was sampled.
DensitiesCorrect(terms, given, drawn, chosen) ==
  \A q \in Scored(program) \cap DOMAIN rhs :
    Comes(terms[q], given, chosen) = DensityAt(program.rhs, program.rhs[q], drawn @@ given)

\* What is sampled together is as likely as the laws of the module say, each
\* sample independent of the others except for what it is asked to depend on.
\* An outcome that no choice comes to leaves too much weight for the others.
LawOfSamples(given, drawn) ==
  ProductOf(LAMBDA q : MeasureAt(program.rhs, program.rhs[q].args[1], drawn[q],
                                 drawn @@ given, drawn @@ given),
            DOMAIN drawn)
SamplesCorrect(given, choices, outcome(_), all) ==
  LET weight(chosen) ==
        ProductOf(LAMBDA n : Weight(Comes(n.args[2], given, chosen), chosen[n]), choices)
      weights == FoldSet(LAMBDA chosen, sums : [sums EXCEPT ![outcome(chosen)] = @ + weight(chosen)],
                         [drawn \in {outcome(chosen) : chosen \in all} |-> 0], all)
  IN  \A drawn \in DOMAIN weights : weights[drawn] = LawOfSamples(given, drawn)

\* Queries come to what the module says of them, whatever the parameters are,
\* and no two samples are taken from the same state.
QueriesCorrect ==
  status = "done" =>
    LET asked == Asked(program) \cap DOMAIN rhs
        terms == [q \in asked |-> Spelled(rhs, rhs[q])]
        samples == SamplesOf({terms[q] : q \in asked})
        choices == ReadIn({terms[q] : q \in asked}, samples)
        all == [choices -> Residues]
    IN  /\ \A n, m \in samples : n.args[1] = m.args[1] => n = m
        /\ \A given \in [Parameters(program) -> Residues] :
             LET outcome(chosen) ==
                   [q \in asked \cap Drawing(program) |-> Comes(terms[q], given, chosen)]
             IN  /\ \A chosen \in all : DensitiesCorrect(terms, given, outcome(chosen), chosen)
                 /\ SamplesCorrect(given, choices, outcome, all)

\* The module with one query only, what the other one sampled being given.
Only(p, q) ==
  [p EXCEPT !.rhs = [x \in (DOMAIN @ \ Asked(p)) \cup {q} |->
                       IF x \in {"v1", "s2"} THEN Elementof ELSE @[x]],
            !.order = SelectSeq(@, LAMBDA x : x \notin Asked(p) \ {q}),
            !.roots = IF @ = {} THEN {} ELSE {q}]
RECURSIVE Determinized(_, _)
Determinized(p, d) ==
  IF d.status # "running" THEN d
  ELSE Determinized(p, IF Parts(d) \cup Restrictions(d) # {} THEN Splitting(d, p.order)
                       ELSE IF Queries(d) # {} THEN Lowering(d, p.order)
                       ELSE Ending(d, p.roots))
LowersAlone(p, q) == Determinized(Only(p, q), Starting(Only(p, q))).status = "done"

\* A module is refused only for a query that would be refused alone, and is
\* accepted only when all of its queries would be.
QueriesIndependent ==
  status = "refused" \/ (status = "done" /\ program.roots # {}) =>
    (status = "done" <=> \A q \in Asked(program) : LowersAlone(program, q))

-----------------------------------------------------------------------------
(* Modules: a latent `a`, a value `b` made of it, a draw `c` whose law may  *)
(* depend on either or on a draw `h` of its own, names for them,            *)
(* likelihoods, conditionals, and two queries.                              *)

A == Ref("a")
B == Ref("b")
C == Ref("c")
Model(mean) ==
  [p |-> Elementof, a |-> Draw(Dist(Ref("p"))), b |-> Add(A, Lit(1)), c |-> Draw(Dist(mean)),
   h |-> Draw(Dist(Ref("p"))),
   a2 |-> A, law |-> Lawof(Ref("a2")),
   k |-> Kernelof(C, <<"a">>), l |-> Likelihoodof(Ref("k"), Lit(2)), l2 |-> Ref("l"),
   both |-> JointLikelihood(Ref("l2"), Likelihoodof(Kernelof(C, <<"a">>), Lit(0))),
   post |-> Bayesupdate(Ref("l"), Lawof(Record(<<"a">>, <<A>>)))]

Asks == <<
  Density(Lawof(A), Lit(1)),
  Density(Ref("law"), Ref("p")),
  Density(Lawof(C), Lit(2)),
  Density(Lawof(Record(<<"x", "y">>, <<A, C>>)), Record(<<"x", "y">>, <<Lit(0), Lit(2)>>)),
  Density(Lawof(Record(<<"y">>, <<C>>)), Record(<<"y">>, <<Lit(1)>>)),
  Density(Ref("l2"), Record(<<"a">>, <<Lit(2)>>)),
  Density(Ref("both"), Record(<<"a">>, <<Ref("p")>>)),
  Density(Ref("post"), Record(<<"a">>, <<Lit(1)>>)),
  Density(Weighted(Lit(3), Lawof(A)), Lit(0)),
  Density(Superpose(Lawof(A), Lawof(C)), Lit(1)),
  Density(Joint(<<"u", "v">>, <<Lawof(A), Lawof(C)>>), Record(<<"u", "v">>, <<Lit(2), Lit(1)>>)),
  Density(Pushfwd(Add(Hole, Lit(1)), Lawof(A)), Lit(0)),
  Density(Apply(Ref("k"), <<"a">>, <<Lit(0)>>), Lit(1)),
  Density(Lawof(B), Lit(0)),
  Density(Lawof(Record(<<"x", "y">>, <<B, C>>)), Record(<<"x", "y">>, <<Lit(2), Lit(2)>>)),
  Density(Ref("of_a"), Record(<<"a">>, <<Lit(1)>>)),
  Density(Ref("of_b"), Record(<<"b">>, <<Ref("p")>>)),
  Density(Ref("of_a2"), Record(<<"a2">>, <<Lit(1)>>)),
  Density(Ref("of_both"), Record(<<"a", "h">>, <<Lit(2), Lit(1)>>)),
  Density(Ref("of_c"), Record(<<"c">>, <<Lit(1)>>)),
  Density(Ref("of_c2"), Record(<<"c">>, <<Lit(1)>>)),
  Density(Bayesupdate(Likelihoodof(Ref("kernel"), Record(<<"c">>, <<Lit(2)>>)), Ref("rest")),
          Record(<<"a">>, <<Lit(0)>>)),
  Density(Bayesupdate(Likelihoodof(Ref("scalar_kernel"), Lit(2)), Ref("scalar_rest")),
          Record(<<"a">>, <<Lit(0)>>)),
  Density(Ref("rest"), Record(<<"a">>, <<Lit(2)>>)),
  Rand(Lawof(A), Ref("s")),
  Rand(Ref("law"), Ref("s")),
  Rand(Apply(Ref("k"), <<"a">>, <<Lit(0)>>), Ref("s")),
  Rand(Pushfwd(Add(Hole, Hole), Lawof(A)), Ref("s")),
  Rand(Lawof(C), Ref("s")),
  Rand(Lawof(Record(<<"x", "y">>, <<A, C>>)), Ref("s")),
  Rand(Lawof(Record(<<"y">>, <<C>>)), Ref("s")),
  Rand(Lawof(Record(<<"x", "y">>, <<B, C>>)), Ref("s")),
  Rand(Lawof(Record(<<"x", "y", "z">>, <<A, Ref("h"), Ref("a2")>>)), Ref("s")),
  Rand(Lawof(Record(<<"x", "y">>, <<Record(<<"u">>, <<Ref("h")>>), C>>)), Ref("s")),
  Rand(Lawof(Record(<<"x", "y">>, <<Ref("h"), Ref("g")>>)), Ref("s")),
  Rand(Apply(Ref("k2"), <<"a">>, <<Lit(0)>>), Ref("s")),
  Rand(Ref("rest"), Ref("s")),
  Rand(Ref("post"), Ref("s")),
  Rand(Apply(Ref("k"), <<"a">>, <<Ref("v1")>>), Ref("s")),
  Rand(Dist(Ref("v1")), Ref("s")),
  Density(Lawof(A), Ref("v1"))
>>
Draws == 25..40            \* sampling queries
OneValue == 25..29         \* those for one value
OfASample == 39..41        \* queries about what the first query sampled
BesideSamples == {1, 3, 8, 24, 41}
Means == <<Lit(1), Ref("p"), A, Ref("a2"), B, Add(A, Lit(2)), Ref("h")>>

\* What some of the queries need besides: conditionals of the law of a record.
JointOf(fields) == Lawof(Record(fields, [i \in DOMAIN fields |-> Ref(fields[i])]))
Given(field, v) == Record(<<field>>, <<Lit(v)>>)
SplitPair == Disintegrate(<<"c">>, JointOf(<<"a", "c">>))
Besides(ask) ==
  CASE ask = 16 -> [of_a |-> Restriction(JointOf(<<"a", "c">>), Given("c", 2))]
    [] ask = 17 -> [of_b |-> Restriction(JointOf(<<"c", "b">>), Given("c", 2))]
    [] ask = 18 -> [of_a2 |-> Restriction(JointOf(<<"a2", "c">>), Given("c", 0))]
    [] ask = 19 -> [of_both |-> Restriction(JointOf(<<"a", "h", "c">>), Given("c", 0))]
    [] ask = 20 -> [of_c |-> Restriction(JointOf(<<"a", "c">>), Given("a", 0))]
    [] ask = 21 -> [of_c2 |-> Restriction(JointOf(<<"a2", "c">>), Given("a2", 0))]
    [] ask \in {22, 24, 37} ->
         [pair |-> SplitPair, kernel |-> Part(1, Ref("pair")), rest |-> Part(2, Ref("pair"))]
    [] ask = 23 ->
         [scalar |-> [SplitPair EXCEPT !.num = 1], scalar_kernel |-> Part(1, Ref("scalar")),
          scalar_rest |-> Part(2, Ref("scalar"))]
    [] ask = 35 -> [g |-> Draw(Apply(Ref("k"), <<"a">>, <<Ref("h")>>))]
    [] ask = 36 -> [k2 |-> Kernelof(Record(<<"y">>, <<C>>), <<"a">>)]
    [] OTHER -> <<>>

\* The second of two sampling queries takes the state the first one left.
Second(asks) ==
  [q2 |-> IF asks[1] \in Draws /\ asks[2] \in Draws
          THEN [Asks[asks[2]] EXCEPT !.args[2] = Ref("s2")] ELSE Asks[asks[2]]]
    @@ (IF Range(asks) \cap Draws # {} THEN [s |-> Elementof] ELSE <<>>)
    @@ (IF asks[1] \in Draws /\ asks[2] \in Draws THEN [s2 |-> Part(2, Ref("q1"))] ELSE <<>>)
    @@ (IF asks[2] \in OfASample THEN [v1 |-> Part(1, Ref("q1"))] ELSE <<>>)

Bindings == <<"p", "a", "b", "h", "c", "a2", "law", "k", "l", "l2", "both", "post",
              "of_a", "of_b", "of_a2", "of_both", "of_c", "of_c2",
              "pair", "kernel", "rest", "scalar", "scalar_kernel", "scalar_rest", "g", "k2",
              "s", "q1", "v1", "s2", "q2">>
Module(mean, asks, roots) ==
  LET rhs_ == [q1 |-> Asks[asks[1]]] @@ Second(asks)
                @@ Model(Means[mean]) @@ Besides(asks[1]) @@ Besides(asks[2])
  IN  [rhs |-> rhs_, order |-> SelectSeq(Bindings, LAMBDA x : x \in DOMAIN rhs_), roots |-> roots]

\* In these the code does not keep QueriesCorrect or QueriesIndependent: a record
\* with a field that is a function of a draw another query has pinned (what
\* DeterminizerClaims shows), an input of a kernel that is one, and a conditional
\* on a kept field that is a function of, or another name for, a draw that the
\* selected field is drawn with: the kernel then integrates that draw out.
DerivedField(mean, asks) == 15 \in Range(asks) /\ mean \in {3, 4, 6}
DerivedInput(mean, asks) ==
  /\ mean = 5 /\ Range(asks) \cap {14, 15, 17} # {}
  /\ Range(asks) \cap {6, 7, 8, 13, 16, 19, 22, 23} # {}
LostCondition(mean, asks) == mean = 3 /\ Range(asks) \cap {17, 18} # {}

\* Of sampling: a record with a draw whose parameter is a function of a draw; a
\* kernel applied once another query has pinned what its draws are drawn with,
\* for the copies of its draws no longer read its input; a record with a draw
\* that a kernel applied in it reads but does not take as an input, which is
\* sampled once for both, or not at all.
Pinning == {1, 2, 3, 4, 5, 8, 11, 12, 14, 15, 24, 41} \cup 30..35
DerivedParameter(mean, asks) == mean = 5 /\ Range(asks) \cap {30, 31, 32, 34} # {}
LostInput(mean, asks) ==
  \E i \in 1..2 : mean \in 3..6 /\ asks[i] \in {27, 35, 36} /\ asks[3 - i] \in Pinning
OwnLatent(mean, asks) ==
  /\ mean = 7
  /\ 35 \in Range(asks) \/ (34 \in Range(asks) /\ Range(asks) \cap {27, 29} # {})
Diverges(mean, asks) ==
  \/ DerivedField(mean, asks) \/ DerivedInput(mean, asks) \/ LostCondition(mean, asks)
  \/ DerivedParameter(mean, asks) \/ LostInput(mean, asks) \/ OwnLatent(mean, asks)

\* Two densities, or a sample and one of some densities, or two samples.
AskPairs ==
  {asks \in (DOMAIN Asks) \X (DOMAIN Asks) :
     asks[1] \notin OfASample /\ (asks[2] \in OfASample => asks[1] \in OneValue)}
ScoredPairs == {asks \in AskPairs : Range(asks) \cap Draws = {}}
DrawnPairs == {asks \in AskPairs \ ScoredPairs : Range(asks) \subseteq Draws \cup BesideSamples}
Modules(means, pairs, roots) ==
  {Module(k[1], k[2], roots) : k \in {k \in means \X pairs : ~Diverges(k[1], k[2])}}
AllPrograms ==
  Modules(DOMAIN Means, ScoredPairs, {}) \cup Modules(DOMAIN Means, ScoredPairs, {"q1", "q2"})
    \cup Modules((DOMAIN Means) \ {2, 6}, DrawnPairs, {"q1", "q2"})
DerivedFieldPrograms == {Module(mean, <<2, 15>>, {}) : mean \in DOMAIN Means}
=============================================================================
