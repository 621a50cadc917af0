------------------------------ MODULE ValueSets ------------------------------
(***************************************************************************)
(* The value sets of crates/core/src/ty.rs: the sets an annotation may     *)
(* name, what is provable about them (`subset_of`, `is_bounded`), and the  *)
(* two operations the measure rules of crates/infer/src/ops.rs build on    *)
(* them (`intersect_intervals`, `join_scalar_sets`).                       *)
(*                                                                         *)
(* A number is an integer that counts halves, so 1 is One = 2.  A value is *)
(* the sequence of its scalar positions.  Powers have static length, a   *)
(* simplex has two coordinates, the parts of a product are scalar sets,    *)
(* and complexes, orderings, zero sums and generator states are left out.  *)
(***************************************************************************)
EXTENDS Integers, Sequences

One == 2

Named(kind) == [kind |-> kind]
Interval(lo, hi) == [kind |-> "interval", lo |-> lo, hi |-> hi]
Power(of, n) == [kind |-> "power", of |-> of, n |-> n]
Product(parts) == [kind |-> "product", parts |-> parts]
Fields(parts) == [kind |-> "fields", parts |-> parts]
Simplex(n) == [kind |-> "simplex", n |-> n]
Unknown == Named("unknown")
Anything == Named("anything")

NamedKinds == {"reals", "posreals", "nonnegreals", "unitinterval", "integers",
               "posintegers", "nonnegintegers", "booleans"}
IsScalar(s) == s.kind \in NamedKinds \cup {"interval"}

(* What a set contains, by the words of the language the variants name.    *)
InScalar(s, x) ==
  CASE s.kind = "posreals" -> x > 0
    [] s.kind = "nonnegreals" -> x >= 0
    [] s.kind = "unitinterval" -> x \in 0..One
    [] s.kind = "integers" -> x % One = 0
    [] s.kind = "posintegers" -> x > 0 /\ x % One = 0
    [] s.kind = "nonnegintegers" -> x >= 0 /\ x % One = 0
    [] s.kind = "booleans" -> x \in {0, One}
    [] s.kind = "interval" -> x \in s.lo..s.hi
    [] OTHER -> TRUE

Member(s, p) ==
  CASE s.kind \in {"unknown", "anything"} -> TRUE
    [] s.kind = "power" ->
         Len(p) = s.n /\ \A i \in DOMAIN p : InScalar(s.of, p[i])
    [] s.kind = "simplex" ->
         Len(p) = 2 /\ p[1] >= 0 /\ p[2] >= 0 /\ p[1] + p[2] = One
    [] s.kind \in {"product", "fields"} ->
         Len(p) = Len(s.parts) /\ \A i \in DOMAIN p : InScalar(s.parts[i], p[i])
    [] OTHER -> Len(p) = 1 /\ InScalar(s, p[1])

(* `subset_of` on scalar sets.  Unproven is FALSE, never a refutation.     *)
Above(kind) ==
  CASE kind \in {"posreals", "unitinterval"} -> {"nonnegreals", "reals"}
    [] kind = "nonnegreals" -> {"reals"}
    [] kind = "posintegers" ->
         {"nonnegintegers", "integers", "posreals", "nonnegreals", "reals"}
    [] kind = "nonnegintegers" -> {"integers", "nonnegreals", "reals"}
    [] kind = "integers" -> {"reals"}
    [] OTHER -> {}

IntervalBelowOpen(s, kind) ==
  CASE kind = "reals" -> TRUE
    [] kind \in {"nonnegreals", "posreals"} -> s.lo >= 0
    [] kind = "unitinterval" -> s.lo >= 0 /\ s.hi <= One
    [] OTHER -> FALSE

IntervalBelow(s, kind) ==
  CASE kind = "reals" -> TRUE
    [] kind = "nonnegreals" -> s.lo >= 0
    [] kind = "posreals" -> s.lo > 0
    [] kind = "unitinterval" -> s.lo >= 0 /\ s.hi <= One
    [] OTHER -> FALSE

ScalarBelow(s, t) ==
  \/ s = t
  \/ s.kind \in NamedKinds /\ t.kind \in Above(s.kind)
  \/ s.kind = "interval" /\ IntervalBelow(s, t.kind)

PartsBelow(s, t) ==
  /\ Len(s.parts) = Len(t.parts)
  /\ \A i \in DOMAIN s.parts : ScalarBelow(s.parts[i], t.parts[i])

(* `subset_of`.                                                            *)
Below(s, t) ==
  /\ s.kind # "unknown"
  /\ \/ s = t
     \/ t.kind = "anything"
     \/ IsScalar(s) /\ IsScalar(t) /\ ScalarBelow(s, t)
     \/ /\ s.kind = "simplex" /\ t.kind = "power"
        /\ s.n = t.n /\ ScalarBelow(Named("unitinterval"), t.of)
     \/ /\ s.kind = "power" /\ t.kind = "power"
        /\ s.n = t.n /\ ScalarBelow(s.of, t.of)
     \/ /\ s.kind = "product" /\ t.kind = "power" /\ t.n = Len(s.parts)
        /\ \A i \in DOMAIN s.parts : ScalarBelow(s.parts[i], t.of)
     \/ s.kind = t.kind /\ s.kind \in {"product", "fields"} /\ PartsBelow(s, t)

(* `is_bounded`: TRUE, FALSE or not statically known.                      *)
BoundedKinds == {"unitinterval", "booleans", "simplex", "interval"}
UnboundedKinds == NamedKinds \ BoundedKinds

PartsOf(s) ==
  CASE s.kind \in {"product", "fields"} -> {s.parts[i] : i \in DOMAIN s.parts}
    [] s.kind = "power" -> {s.of}
    [] OTHER -> {s}
IsBounded(s) == \A t \in PartsOf(s) : t.kind \in BoundedKinds
IsUnbounded(s) == \E t \in PartsOf(s) : t.kind \in UnboundedKinds

(* `intersect_intervals`: Unknown where no set form names the result.      *)
Infinite == 1000
Limits(s) ==
  CASE s.kind = "reals" -> <<-Infinite, Infinite>>
    [] s.kind \in {"posreals", "nonnegreals"} -> <<0, Infinite>>
    [] s.kind = "unitinterval" -> <<0, One>>
    [] s.kind = "interval" -> <<s.lo, s.hi>>
    [] OTHER -> <<>>

Larger(x, y) == IF x >= y THEN x ELSE y
Smaller(x, y) == IF x <= y THEN x ELSE y

Overlap(s, t) ==
  LET a == Limits(s)
      b == Limits(t)
      lo == Larger(a[1], b[1])
      hi == Smaller(a[2], b[2])
  IN IF a = <<>> \/ b = <<>> \/ lo > hi THEN Unknown ELSE Interval(lo, hi)

MeetScalars(s, t) ==
  IF Below(s, t) THEN s ELSE IF Below(t, s) THEN t ELSE Overlap(s, t)

MeetParts(s, t) ==
  LET parts == [i \in DOMAIN s.parts |-> MeetScalars(s.parts[i], t.parts[i])]
  IN IF \E i \in DOMAIN parts : parts[i] = Unknown THEN Unknown
     ELSE [s EXCEPT !.parts = parts]

MeetShapes(s, t) ==
  CASE s.kind = "power" /\ t.kind = "power" /\ s.n = t.n ->
         IF MeetScalars(s.of, t.of) = Unknown THEN Unknown
         ELSE Power(MeetScalars(s.of, t.of), s.n)
    [] /\ s.kind = t.kind /\ s.kind \in {"product", "fields"}
       /\ Len(s.parts) = Len(t.parts) -> MeetParts(s, t)
    [] OTHER -> Overlap(s, t)

Meet(s, t) ==
  IF Below(s, t) THEN s ELSE IF Below(t, s) THEN t ELSE MeetShapes(s, t)

(* `join_scalar_sets`: the common set, or the first candidate above all.   *)
Candidates == <<"posintegers", "nonnegintegers", "integers", "unitinterval",
                "posreals", "nonnegreals", "reals", "booleans">>

JoinScalarSets(sets) ==
  LET above == {i \in DOMAIN Candidates :
                  \A s \in sets : Below(s, Named(Candidates[i]))}
  IN IF \E s \in sets : sets = {s} /\ s # Unknown THEN CHOOSE s \in sets : TRUE
     ELSE IF sets = {} \/ above = {} THEN Unknown
     ELSE Named(Candidates[CHOOSE i \in above : \A j \in above : i <= j])

(* `product_support`: record fields by name, otherwise positions.          *)
ProductSupport(sets, named) ==
  IF \E i \in DOMAIN sets : sets[i] = Unknown THEN Unknown
  ELSE IF named THEN Fields(sets) ELSE Product(sets)
==============================================================================
