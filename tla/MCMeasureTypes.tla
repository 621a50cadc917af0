---------------------------- MODULE MCMeasureTypes ----------------------------
(***************************************************************************)
(* Programs for MeasureMeaning: a script, then every legal continuation by *)
(* Extra nodes that each use the node before.                              *)
(***************************************************************************)
EXTENDS MeasureCalls

CONSTANT Extra
ASSUME ExtraAssumption == Extra \in Nat

VARIABLES script, extra

Leaf(op) == Node(op, <<>>)
Standard == Node("Normal", <<Decimal(0)>>)
Inline(nd) == [nd EXCEPT !.inline = TRUE]
Reals == Named("reals")
UnitInterval == Named("unitinterval")
Theta(set) == WithSet("elementof", <<>>, set)
Given(op, body, inputs) == [Node(op, <<Ref(body)>>) EXCEPT !.inputs = inputs]
Auto(op, body) == [Node(op, <<Ref(body)>>) EXCEPT !.auto = TRUE]
Keywords(op, args) == [Node(op, args) EXCEPT !.named = TRUE]
N(i) == Node("Normal", <<Ref(i)>>)
Draw(i) == Node("draw", <<Ref(i)>>)
Weighted(i, j) == Node("weighted", <<Ref(i), Ref(j)>>)
Cut(i, set) == WithSet("truncate", <<Ref(i)>>, set)
Share(x, j) == Node("weighted", <<Decimal(x), Ref(j)>>)
At(v, i) == Node("get", <<Ref(v), Whole(One * i)>>)
Line == WithSet("Lebesgue", <<>>, Reals)

Scripts ==
  { <<Theta(Reals), N(1), Draw(2)>>,
    <<Theta(UnitInterval), Node("Bernoulli", <<Ref(1)>>), Draw(2)>>,
    <<Theta(Reals), N(1), Draw(2), Given("kernelof", 3, {1}), Standard>>,
    <<Theta(Reals), N(1), Auto("functionof", 2), Standard>>,
    <<Theta(Reals), Node("abs", <<Ref(1)>>), Auto("functionof", 2), Line>>,
    <<WithSet("external", <<>>, Named("nonnegreals")), Standard>>,
    <<WithSet("Uniform", <<>>, UnitInterval), Draw(1), Node("sub1", <<Ref(2)>>),
      Standard, Weighted(2, 4), Weighted(3, 4)>>,
    <<WithSet("Uniform", <<>>, UnitInterval), Inline(Draw(1)), Inline(Draw(1)),
      Inline(Node("sub1", <<Ref(3)>>)), Standard, Weighted(2, 5), Weighted(4, 5)>>,
    <<Leaf("Dirichlet"), Draw(1), At(2, 1), At(2, 2), Standard, Weighted(3, 5),
      Weighted(4, 5)>>,
    <<Standard, Leaf("LogNormal"), Share(1, 1), Share(1, 2)>>,
    <<Standard, Leaf("Exponential"), Share(One, 1), Share(1, 2)>>,
    <<Line, Standard>>,
    <<WithSet("Counting", <<>>, Named("integers")), Leaf("Poisson")>>,
    <<Line, Cut(1, UnitInterval)>>,
    <<Standard, Draw(1), N(2), Draw(3), Given("kernelof", 4, {2})>>,
    <<Standard, Draw(1), Node("abs", <<Ref(2)>>), Given("functionof", 3, {2}),
      Leaf("Beta")>>,
    <<Leaf("LogNormal"), Draw(1)>>,
    <<Theta(Reals), N(1), Draw(2), N(3), Draw(4)>>,
    <<Leaf("Exponential"), Draw(1), Standard, Weighted(2, 3)>>,
    <<Theta(Named("nonnegreals")), Standard, Weighted(1, 2), Given("functionof", 3, {1}),
      Leaf("Exponential")>>,
    <<Theta(Reals), N(1), Cut(2, UnitInterval), Given("functionof", 3, {1}), Standard>>,
    <<Leaf("Poisson"), Draw(1), Node("sub1", <<Ref(2)>>)>>,
    <<Theta(Reals), Node("exp", <<Ref(1)>>), Given("functionof", 2, {1}), Line>>,
    <<Line, Cut(1, Named("posreals")), Leaf("LogNormal")>> }

-----------------------------------------------------------------------------
(* Continuations.  An inline node is spelled in one place, so none of them *)
(* is used again.                                                          *)
Bindings == {Ref(i) : i \in {j \in 1..Len(prog) : ~prog[j].inline}}
OfKind(kinds) == {o \in Bindings : TypeAt(o).kind \in kinds}
Values == OfKind({"scalar", "array", "record"})
Scalars == OfKind({"scalar"})
Measures == OfKind({"measure"})
Kernels == OfKind({"kernel"})
Maps == OfKind({"function"})
Weighables == Measures \cup Kernels
Restrictions == {UnitInterval, Named("posreals"), Named("nonnegintegers"), Interval(-1, One)}

Unary ==
  {Node(op, <<v>>) : op \in {"Dirac", "lawof", "sub1", "abs", "exp"}, v \in Values}
  \cup {Node(op, <<v>>) : op \in {"Normal", "Bernoulli"}, v \in Scalars}
  \cup {Node("get", <<v, Whole(One * i)>>) : v \in OfKind({"array"}), i \in 1..2}
  \cup {Node(op, <<m>>) : op \in {"draw", "iid"}, m \in Measures}
  \cup {Node(op, <<m>>) : op \in {"normalize", "relabel"}, m \in Weighables}
  \cup {WithSet("truncate", <<m>>, set) : m \in Weighables, set \in Restrictions}

Binary ==
  {Node("vector", <<u, v>>) : u \in Scalars \cup {Decimal(0)}, v \in Scalars}
  \cup {Keywords("record", <<u, v>>) : u, v \in Scalars}
  \cup {Node("weighted", <<v, m>>) : v \in Scalars \cup {Decimal(0), Decimal(One)},
                                   m \in Weighables}
  \cup {Node("logweighted", <<v, m>>) : v \in Scalars, m \in Measures}
  \cup {Node("superpose", <<m, l>>) : m, l \in Measures}
  \cup {Node("joint", <<m, l>>) : m, l \in Weighables}
  \cup {Keywords("joint", <<m, l>>) : m, l \in Measures}
  \cup {Node(op, <<m, k>>) : op \in {"kchain", "jointchain"}, m \in Measures,
                             k \in Kernels}
  \cup {Node("markovchain", <<k, v>>) : k \in Kernels, v \in Scalars \cup {Decimal(0)}}
  \cup {Node("pushfwd", <<f, m>>) : f \in Maps, m \in Measures}
  \cup {Node("call", <<k, v>>) : k \in Kernels \cup Maps,
                               v \in Values \cup {Whole(One), Decimal(1)}}

Reifications ==
  {Given(op, o.node, {i}) : op \in {"functionof", "kernelof"},
                            o \in Values \cup Measures, i \in Boundaries}
  \cup {Auto(op, o.node) : op \in {"functionof", "kernelof"}, o \in Values \cup Measures}

Uses(nd, i) == \E o \in Range(nd.args) : o.node = i

Continuations == {nd \in Unary \cup Binary \cup Reifications : Uses(nd, Len(prog))}

MCInit == Init /\ script \in Scripts /\ extra = 0

ReadScript ==
  /\ script # <<>>
  /\ Defined(Head(script))
  /\ script' = Tail(script)
  /\ UNCHANGED extra

Continue ==
  /\ script = <<>> /\ extra < Extra
  /\ \E nd \in Continuations : Defined(nd)
  /\ extra' = extra + 1
  /\ UNCHANGED script

MCNext == ReadScript \/ Continue
MCSpec == MCInit /\ [][MCNext]_<<vars, script, extra>>
==============================================================================
