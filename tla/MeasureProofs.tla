---------------------------- MODULE MeasureProofs ----------------------------
(***************************************************************************)
(* The phases of MeasureTypes are right for every program, of any length   *)
(* and whatever its calls are annotated with (PhasesAreSound).             *)
(*                                                                         *)
(* A reification is judged by walks (captured_draws, unbound_parameter)    *)
(* that prune nodes by their phase and stop at the boundary; the meaning   *)
(* of the reification varies with what is upstream of its body.  The       *)
(* invariant is that, whatever bindings a node is cut at, the walks find   *)
(* every parameter upstream of it and every draw it varies with; with it,  *)
(* that each phase covers what the node varies with, and the law's phase   *)
(* what is upstream.  A program grows by a node at a time, so the proof is *)
(* about what a node does to the walks, the phases and the meanings of the *)
(* nodes before it (nothing) and what it reads of its operands.            *)
(*                                                                         *)
(* The last section is about the algebra of value sets: what `subset_of`   *)
(* proves is so, and joins and meets lose no point (SubsetIsSound,         *)
(* JoinCovers, MeetCovers).                                                *)
(***************************************************************************)
EXTENDS MeasureMeaning, SequenceTheorems, WellFoundedInduction, TLAPS

-----------------------------------------------------------------------------
(* Walks.  What is reached is the least set that has the start and is      *)
(* closed under the steps, when every step goes to an earlier node.        *)

Closed(next, S) == \A i \in S : next[i] \subseteq S
Descends(next) ==
  \A i \in DOMAIN next : i \in Nat /\ next[i] \subseteq {k \in DOMAIN next : k < i}

LEMMA LeastNumber ==
  ASSUME NEW T \in SUBSET Nat, T # {}
  PROVE  \E m \in T : \A k \in T : m <= k
<1>. DEFINE R == {ss \in Nat \X Nat : ss[1] < ss[2]}
<1>1. IsWellFoundedOn(R, Nat)
  BY NatLessThanWellFounded DEF OpToRel
<1>2. \A x, y \in Nat : x < y => <<x, y>> \in R
  OBVIOUS
<1>. HIDE DEF R
<1>3. PICK m \in T : \A k \in T : ~ (<<k, m>> \in R)
  BY <1>1, WFMin
<1>4. \A k \in T : ~ (k < m)
  BY <1>2, <1>3
<1>. QED
  BY <1>4

LEMMA ReachedLeast ==
  ASSUME NEW next, Descends(next), NEW start, start \subseteq DOMAIN next
  PROVE  LET R == Reached(next, start)
         IN /\ start \subseteq R /\ R \subseteq DOMAIN next /\ Closed(next, R)
            /\ \A S : start \subseteq S /\ Closed(next, S \cap DOMAIN next) => R \subseteq S
<1>. DEFINE D == DOMAIN next
            least(i) == {x \in D : \A S \in SUBSET D : i \in S /\ Closed(next, S) => x \in S}
            Solves(f) == f = [i \in D |-> {i} \cup UNION {f[k] : k \in next[i]}]
            f == CHOOSE f : Solves(f)
<1>1. Solves([i \in D |-> least(i)])
  <2>1. ASSUME NEW i \in D
        PROVE  least(i) = {i} \cup UNION {least(k) : k \in next[i]}
    <3>. DEFINE U == {i} \cup UNION {least(k) : k \in next[i]}
    <3>1. next[i] \subseteq D
      BY DEF Descends
    <3>2. \A k \in D : k \in least(k) /\ Closed(next, least(k)) /\ least(k) \subseteq D
      BY DEF Closed, Descends
    <3>3. U \subseteq D /\ i \in U /\ Closed(next, U)
      BY <3>1, <3>2 DEF Closed
    <3>4. least(i) \subseteq U
      BY <3>3
    <3>5. i \in least(i)
      BY <3>2
    <3>6. ASSUME NEW k \in next[i] PROVE least(k) \subseteq least(i)
      <4>1. \A S \in SUBSET D : i \in S /\ Closed(next, S) => k \in S
        BY DEF Closed
      <4>. QED
        BY <4>1
    <3>. QED
      BY <3>4, <3>5, <3>6
  <2>2. \A i \in D : next[i] \subseteq D
    BY DEF Descends
  <2>. DEFINE g == [i \in D |-> least(i)]
  <2>3. \A i \in D : {g[k] : k \in next[i]} = {least(k) : k \in next[i]}
    BY <2>2
  <2>. QED
    BY <2>1, <2>3
<1>2. Solves(f)
  BY <1>1
<1>3. Reached(next, start) = UNION {f[i] : i \in start}
  BY DEF Reached
<1>. HIDE DEF f
<1>4. \A i \in D : f[i] = {i} \cup UNION {f[k] : k \in next[i]}
  BY <1>2
<1>5. ASSUME NEW S, Closed(next, S \cap D), NEW i \in S \cap D
      PROVE  f[i] \subseteq S /\ f[i] \subseteq D
  <2>. DEFINE T == {j \in S \cap D : ~(f[j] \subseteq S /\ f[j] \subseteq D)}
  <2>. SUFFICES ASSUME T # {} PROVE FALSE
    OBVIOUS
  <2>1. T \subseteq Nat
    BY DEF Descends
  <2>2. PICK m \in T : \A k \in T : m <= k
    BY <2>1, LeastNumber
  <2>3. \A k \in next[m] : k \in S \cap D /\ k < m /\ k \in Nat /\ m \in Nat
    BY <1>5, <2>1 DEF Closed, Descends
  <2>4. \A k \in next[m] : f[k] \subseteq S /\ f[k] \subseteq D
    BY <2>2, <2>3
  <2>5. f[m] = {m} \cup UNION {f[k] : k \in next[m]}
    BY <1>4
  <2>. QED
    BY <2>4, <2>5
<1>6. \A i \in D : i \in f[i] /\ f[i] \subseteq D
  <2>1. Closed(next, D \cap D)
    BY DEF Closed, Descends
  <2>. QED
    BY <2>1, <1>4, <1>5
<1>7. ASSUME NEW i \in D PROVE Closed(next, f[i])
  <2>. DEFINE T == {j \in D : ~Closed(next, f[j])}
  <2>. SUFFICES ASSUME T # {} PROVE FALSE
    OBVIOUS
  <2>1. T \subseteq Nat
    BY DEF Descends
  <2>2. PICK m \in T : \A k \in T : m <= k
    BY <2>1, LeastNumber
  <2>3. \A k \in next[m] : k \in D /\ k < m /\ k \in Nat /\ m \in Nat
    BY DEF Descends
  <2>4. \A k \in next[m] : Closed(next, f[k]) /\ k \in f[k]
    BY <2>2, <2>3, <1>6
  <2>5. f[m] = {m} \cup UNION {f[k] : k \in next[m]}
    BY <1>4
  <2>. QED
    BY <2>4, <2>5 DEF Closed
<1>8. Closed(next, UNION {f[i] : i \in start})
  BY <1>7 DEF Closed
<1>9. start \subseteq UNION {f[i] : i \in start} /\ UNION {f[i] : i \in start} \subseteq D
  BY <1>6
<1>10. \A S : start \subseteq S /\ Closed(next, S \cap D)
                => UNION {f[i] : i \in start} \subseteq S
  BY <1>5
<1>. QED
  BY <1>3, <1>8, <1>9, <1>10

(* Steps that are kept reach the same.                                     *)
LEMMA ReachedFrame ==
  ASSUME NEW next, Descends(next), NEW next2, Descends(next2),
         DOMAIN next \subseteq DOMAIN next2,
         \A i \in DOMAIN next : next2[i] = next[i],
         NEW start, start \subseteq DOMAIN next
  PROVE  Reached(next2, start) = Reached(next, start)
<1>. DEFINE R == Reached(next, start)
            R2 == Reached(next2, start)
<1>1. /\ start \subseteq R /\ R \subseteq DOMAIN next /\ Closed(next, R)
      /\ \A S : start \subseteq S /\ Closed(next, S \cap DOMAIN next) => R \subseteq S
  BY ReachedLeast
<1>2. start \subseteq DOMAIN next2
  OBVIOUS
<1>3. /\ start \subseteq R2 /\ Closed(next2, R2)
      /\ \A S : start \subseteq S /\ Closed(next2, S \cap DOMAIN next2) => R2 \subseteq S
  BY <1>2, ReachedLeast
<1>. HIDE DEF R, R2
<1>4. Closed(next, R2 \cap DOMAIN next)
  BY <1>3 DEF Closed, Descends
<1>5. Closed(next2, R \cap DOMAIN next2)
  BY <1>1 DEF Closed
<1>. QED
  BY <1>1, <1>3, <1>4, <1>5 DEF R, R2

(* What is reached is reached from one of the beginnings.                  *)
LEMMA ReachedFromOne ==
  ASSUME NEW next, Descends(next), NEW start, start \subseteq DOMAIN next,
         NEW x \in Reached(next, start)
  PROVE  \E i \in start : x \in Reached(next, {i})
<1>. DEFINE S == UNION {Reached(next, {i}) : i \in start}
<1>1. \A i \in start : i \in Reached(next, {i}) /\ Closed(next, Reached(next, {i}))
  <2>. TAKE i \in start
  <2>1. {i} \subseteq DOMAIN next
    OBVIOUS
  <2>. QED
    BY <2>1, ReachedLeast
<1>2. start \subseteq S
  BY <1>1
<1>3. Closed(next, S \cap DOMAIN next)
  BY <1>1 DEF Closed, Descends
<1>. HIDE DEF S
<1>4. Reached(next, start) \subseteq S
  BY <1>2, <1>3, ReachedLeast
<1>. QED
  BY <1>4 DEF S

LEMMA ReachedGrows ==
  ASSUME NEW next, Descends(next), NEW start, NEW more,
         start \subseteq more, more \subseteq DOMAIN next
  PROVE  Reached(next, start) \subseteq Reached(next, more)
<1>. DEFINE R == Reached(next, more)
<1>1. more \subseteq R /\ Closed(next, R) /\ R \subseteq DOMAIN next
  BY ReachedLeast
<1>. HIDE DEF R
<1>2. R \cap DOMAIN next = R /\ start \subseteq R /\ start \subseteq DOMAIN next
  BY <1>1
<1>3. Reached(next, start) \subseteq R
  BY <1>1, <1>2, ReachedLeast
<1>. QED
  BY <1>3 DEF R

-----------------------------------------------------------------------------
(* Programs, whatever state they are in: what a node varies with, and what *)
(* is upstream of it.                                                      *)

OnAt(M, o) == IF o.node = 0 THEN {} ELSE M[o.node].on
FeedsIn(P, M, cut) ==
  [d \in DOMAIN P |-> IF P[d].op = "draw" /\ d \notin cut THEN OnAt(M, P[d].args[1]) ELSE {}]
Up(P, M, on, cut) == Reached(FeedsIn(P, M, cut), on)
Steps(P, open, ends) ==
  [i \in open |-> IF i \in ends THEN {} ELSE Operands(P[i]) \cap open]
KeywordIn(P, o) == \E i \in Walked(P, o, DOMAIN P, {}) : P[i].named
LawsIn(P, o) == \E i \in Walked(P, o, DOMAIN P, {}) : P[i].op = "lawof"

IsCoordinate(nd) == nd.op \in {"elementof", "external", "draw"}
Phases == {"fixed", "parametric", "stochastic"}

(* Operands come first, and a node varies with coordinates before it.      *)
Placed(P, A, M, i) ==
  /\ Operands(P[i]) \subseteq 1..(i - 1)
  /\ P[i].op = "draw" => 1 \in DOMAIN P[i].args
  /\ A[i].ph \in Phases /\ A[i].law \in Phases
  /\ M[i].on \subseteq {d \in 1..i : IsCoordinate(P[d])}
  /\ IsCoordinate(P[i]) => M[i].on = {i}

Sane(P, A, M, n) ==
  /\ n \in Nat
  /\ DOMAIN P = 1..n /\ DOMAIN A = 1..n /\ DOMAIN M = 1..n
  /\ \A i \in 1..n : Placed(P, A, M, i)

LEMMA OperandPlace ==
  ASSUME NEW nd, NEW n \in Nat, Operands(nd) \subseteq 1..n, NEW j \in DOMAIN nd.args
  PROVE  nd.args[j].node # 0 => nd.args[j].node \in 1..n /\ nd.args[j].node \in Operands(nd)
BY DEF Operands, Range

LEMMA FeedsDescend ==
  ASSUME NEW P, NEW A, NEW M, NEW n, Sane(P, A, M, n), NEW cut
  PROVE  Descends(FeedsIn(P, M, cut)) /\ DOMAIN FeedsIn(P, M, cut) = 1..n
<1>1. DOMAIN FeedsIn(P, M, cut) = 1..n /\ n \in Nat
  BY DEF FeedsIn, Sane
<1>2. ASSUME NEW d \in 1..n
      PROVE  FeedsIn(P, M, cut)[d] \subseteq {k \in 1..n : k < d}
  <2>. DEFINE o == P[d].args[1]
  <2>1. CASE P[d].op = "draw" /\ d \notin cut /\ o.node # 0
    <3>1. o.node \in 1..(d - 1)
      BY <2>1, OperandPlace, <1>1 DEF Sane, Placed
    <3>2. M[o.node].on \subseteq 1..o.node
      BY <3>1, <1>1 DEF Sane, Placed
    <3>3. FeedsIn(P, M, cut)[d] = M[o.node].on
      BY <2>1, <1>1 DEF FeedsIn, OnAt, Sane
    <3>. QED
      BY <3>1, <3>2, <3>3, <1>1
  <2>2. CASE ~(P[d].op = "draw" /\ d \notin cut /\ o.node # 0)
    BY <2>2, <1>1 DEF FeedsIn, OnAt, Sane
  <2>. QED
    BY <2>1, <2>2
<1>. QED
  BY <1>1, <1>2 DEF Descends

Backward(P, n) == n \in Nat /\ \A i \in 1..n : Operands(P[i]) \subseteq 1..(i - 1)

LEMMA SaneBackward ==
  ASSUME NEW P, NEW A, NEW M, NEW n, Sane(P, A, M, n)
  PROVE  Backward(P, n)
BY DEF Backward, Sane, Placed

LEMMA StepsDescend ==
  ASSUME NEW P, NEW n, Backward(P, n), NEW open, open \subseteq 1..n, NEW ends
  PROVE  Descends(Steps(P, open, ends)) /\ DOMAIN Steps(P, open, ends) = open
<1>1. DOMAIN Steps(P, open, ends) = open /\ n \in Nat
  BY DEF Steps, Backward
<1>2. ASSUME NEW i \in open
      PROVE  Steps(P, open, ends)[i] \subseteq {k \in open : k < i}
  <2>1. Operands(P[i]) \subseteq 1..(i - 1) /\ i \in Nat
    BY <1>1 DEF Backward
  <2>2. Steps(P, open, ends)[i] \subseteq Operands(P[i]) \cap open
    BY DEF Steps
  <2>. QED
    BY <2>1, <2>2
<1>. DEFINE next == Steps(P, open, ends)
<1>3. DOMAIN next = open /\ \A i \in open : i \in Nat /\ next[i] \subseteq {k \in open : k < i}
  BY <1>1, <1>2
<1>. HIDE DEF next
<1>4. Descends(next) /\ DOMAIN next = open
  BY <1>3 DEF Descends
<1>. QED
  BY <1>4 DEF next

LEMMA WalkedIs ==
  ASSUME NEW P, NEW o, NEW open, NEW ends
  PROVE  Walked(P, o, open, ends) = Reached(Steps(P, open, ends), {o.node} \cap open)
BY DEF Walked, Steps

-----------------------------------------------------------------------------
(* One node more.  The node nd is annotated and given its meaning by the   *)
(* program before it.                                                      *)

OnIn(P, A, M, nd, i) ==
  LET on == OnAt(M, nd.args[1])
      inputs == InputsOf(P, A, nd)
      settled(cut) == {d \in Up(P, M, on, cut) : P[d].op # "draw"}
  IN CASE IsCoordinate(nd) -> {i}
       [] nd.op = "lawof" -> settled({})
       [] nd.op = "kernelof" -> settled(inputs) \ inputs
       [] nd.op = "functionof" -> on \ inputs
       [] OTHER -> UNION {OnAt(M, nd.args[j]) : j \in DOMAIN nd.args}

(* Where a node may be cut, so that what is found below it is all there is. *)
Cuts(P, cut, o) ==
  /\ \A c \in cut \cap DOMAIN P : IsCoordinate(P[c])
  /\ (\E c \in cut \cap DOMAIN P : P[c].op = "draw") => ~LawsIn(P, o)

Reifying == {"functionof", "kernelof"}

Formed(P, A, M, n, nd) ==
  /\ Operands(nd) \subseteq 1..n
  /\ nd.op \in Reifying \cup {"draw", "lawof"} => DOMAIN nd.args = {1}
  /\ nd.op = "lawof" => ~KeywordIn(P, nd.args[1])
  /\ nd.op \in Reifying =>
       /\ nd.args[1].node # 0
       /\ Cuts(P, InputsOf(P, A, nd), nd.args[1])
       /\ ~nd.auto => Parameters(P, A, nd.args[1], InputsOf(P, A, nd)) = {}
  /\ nd.op = "functionof" => CapturedDraws(P, A, nd.args[1], InputsOf(P, A, nd)) = {}

Grown(f, g, n) == DOMAIN g = 1..(n + 1) /\ \A i \in 1..n : g[i] = f[i]

Extended(P, A, M, n, nd, Q, B, N) ==
  /\ Sane(P, A, M, n) /\ Formed(P, A, M, n, nd)
  /\ Grown(P, Q, n) /\ Grown(A, B, n) /\ Grown(M, N, n)
  /\ Q[n + 1].op = nd.op /\ Q[n + 1].args = nd.args /\ Q[n + 1].named = nd.named
  /\ B[n + 1].ph = PhaseOf(A, nd) /\ B[n + 1].law = LawPhase(A, nd)
  /\ N[n + 1].on = OnIn(P, A, M, nd, n + 1)

LEMMA ArgumentOn ==
  ASSUME NEW P, NEW A, NEW M, NEW n, Sane(P, A, M, n), NEW nd, Operands(nd) \subseteq 1..n,
         NEW j \in DOMAIN nd.args
  PROVE  OnAt(M, nd.args[j]) \subseteq {d \in 1..n : IsCoordinate(P[d])}
<1>. DEFINE o == nd.args[j]
<1>1. n \in Nat
  BY DEF Sane
<1>2. CASE o.node = 0
  BY <1>2 DEF OnAt
<1>3. CASE o.node # 0
  <2>1. o.node \in 1..n
    BY <1>1, <1>3, OperandPlace
  <2>2. M[o.node].on \subseteq {d \in 1..o.node : IsCoordinate(P[d])}
    BY <2>1 DEF Sane, Placed
  <2>. QED
    BY <1>1, <1>3, <2>1, <2>2 DEF OnAt
<1>. QED
  BY <1>2, <1>3

LEMMA UpFacts ==
  ASSUME NEW P, NEW A, NEW M, NEW n, Sane(P, A, M, n), NEW on, on \subseteq 1..n, NEW cut
  PROVE  LET U == Up(P, M, on, cut)
         IN /\ on \subseteq U /\ U \subseteq 1..n /\ Closed(FeedsIn(P, M, cut), U)
            /\ \A S : on \subseteq S /\ Closed(FeedsIn(P, M, cut), S \cap 1..n) => U \subseteq S
            /\ \A d \in U : d \notin on => IsCoordinate(P[d])
<1>. DEFINE next == FeedsIn(P, M, cut)
            U == Up(P, M, on, cut)
<1>1. Descends(next) /\ DOMAIN next = 1..n
  BY FeedsDescend
<1>2. /\ on \subseteq U /\ U \subseteq 1..n /\ Closed(next, U)
      /\ \A S : on \subseteq S /\ Closed(next, S \cap 1..n) => U \subseteq S
  <2>. HIDE DEF next
  <2>. QED
    BY <1>1, ReachedLeast DEF Up, next
<1>. DEFINE S == {d \in 1..n : d \in on \/ IsCoordinate(P[d])}
<1>3. Closed(next, S \cap 1..n)
  <2>1. ASSUME NEW d \in 1..n, P[d].op = "draw"
        PROVE  OnAt(M, P[d].args[1]) \subseteq {c \in 1..n : IsCoordinate(P[c])}
    <3>1. Operands(P[d]) \subseteq 1..n /\ 1 \in DOMAIN P[d].args
      BY <2>1 DEF Sane, Placed
    <3>. QED
      BY <3>1, ArgumentOn
  <2>2. \A d \in 1..n : next[d] \subseteq {c \in 1..n : IsCoordinate(P[c])}
    BY <2>1 DEF FeedsIn, Sane
  <2>. QED
    BY <2>2 DEF Closed
<1>4. on \subseteq S
  OBVIOUS
<1>. HIDE DEF next, U
<1>5. U \subseteq S
  BY <1>2, <1>3, <1>4
<1>. QED
  BY <1>2, <1>5 DEF next, U

(* What nodes feed is settled when they are defined.                       *)
LEMMA FeedsFrame ==
  ASSUME NEW P, NEW A, NEW M, NEW n, NEW nd, NEW Q, NEW B, NEW N,
         Extended(P, A, M, n, nd, Q, B, N), NEW cut, NEW d \in 1..n
  PROVE  FeedsIn(Q, N, cut)[d] = FeedsIn(P, M, cut)[d]
<1>1. Sane(P, A, M, n) /\ n \in Nat
  BY DEF Extended, Sane
<1>2. Q[d] = P[d] /\ d \in DOMAIN Q /\ d \in DOMAIN P
  BY <1>1 DEF Extended, Grown, Sane
<1>3. ASSUME P[d].op = "draw"
      PROVE  OnAt(N, P[d].args[1]) = OnAt(M, P[d].args[1])
  <2>1. Operands(P[d]) \subseteq 1..n /\ 1 \in DOMAIN P[d].args
    BY <1>1, <1>3 DEF Sane, Placed
  <2>2. P[d].args[1].node # 0 => P[d].args[1].node \in 1..n
    BY <1>1, <2>1, OperandPlace
  <2>. QED
    BY <2>2 DEF OnAt, Extended, Grown
<1>. QED
  BY <1>2, <1>3 DEF FeedsIn

(* Walks below an earlier node are the same.                               *)
Agree(n, open, open2, ends, ends2) ==
  /\ open \subseteq 1..n /\ open2 \subseteq 1..(n + 1) /\ open2 \cap 1..n = open
  /\ \A i \in 1..n : i \in ends2 <=> i \in ends

LEMMA WalkedFrame ==
  ASSUME NEW P, NEW Q, NEW n, Backward(P, n), Backward(Q, n + 1), Grown(P, Q, n),
         NEW o, o.node \in 0..n,
         NEW open, NEW open2, NEW ends, NEW ends2, Agree(n, open, open2, ends, ends2)
  PROVE  Walked(Q, o, open2, ends2) = Walked(P, o, open, ends)
<1>. DEFINE next == Steps(P, open, ends)
            next2 == Steps(Q, open2, ends2)
            start == {o.node} \cap open
<1>1. n \in Nat
  BY DEF Backward
<1>. USE DEF Agree
<1>2. Descends(next) /\ DOMAIN next = open
  BY StepsDescend
<1>3. Descends(next2) /\ DOMAIN next2 = open2
  BY StepsDescend
<1>4. ASSUME NEW i \in open
      PROVE  next2[i] = next[i]
  <2>1. i \in 1..n /\ Q[i] = P[i] /\ i \in open2
    BY DEF Grown
  <2>2. Operands(P[i]) \subseteq 1..n
    BY <2>1 DEF Backward
  <2>. QED
    BY <2>1, <2>2 DEF Steps
<1>5. {o.node} \cap open2 = start
  <2>1. 0 \notin open2 /\ 0 \notin open
    BY <1>1
  <2>2. o.node # 0 => o.node \in 1..n
    BY <1>1
  <2>. QED
    BY <2>1, <2>2
<1>. HIDE DEF next, next2
<1>6. start \subseteq open /\ open \subseteq open2
  OBVIOUS
<1>. HIDE DEF start
<1>7. /\ DOMAIN next \subseteq DOMAIN next2 /\ start \subseteq DOMAIN next
      /\ \A i \in DOMAIN next : next2[i] = next[i]
  BY <1>2, <1>3, <1>4, <1>6
<1>8. Reached(next2, start) = Reached(next, start)
  BY <1>2, <1>3, <1>7, ReachedFrame, Zenon
<1>. QED
  BY <1>5, <1>8, WalkedIs DEF next, next2, start

LEMMA OfLiteral ==
  ASSUME NEW A, NEW o, o.node = 0
  PROVE  Of(A, o).ph = "fixed" /\ Of(A, o).law = "fixed"
BY DEF Of, IsLiteral, Annotation

LEMMA JoinedPhases ==
  ASSUME NEW phases
  PROVE  /\ JoinPhase(phases) \in Phases
         /\ phases \subseteq Phases =>
              (JoinPhase(phases) = "fixed" <=> \A ph \in phases : ph = "fixed")
         /\ "stochastic" \in phases => JoinPhase(phases) = "stochastic"
BY DEF JoinPhase, Phases

LEMMA ArgumentPhases ==
  ASSUME NEW P, NEW A, NEW M, NEW n, Sane(P, A, M, n), NEW nd, Operands(nd) \subseteq 1..n,
         NEW j \in DOMAIN nd.args
  PROVE  Of(A, nd.args[j]).ph \in Phases /\ Of(A, nd.args[j]).law \in Phases
<1>. DEFINE o == nd.args[j]
<1>1. n \in Nat
  BY DEF Sane
<1>2. CASE o.node = 0
  BY <1>2, OfLiteral DEF Phases
<1>3. CASE o.node # 0
  <2>1. o.node \in 1..n
    BY <1>1, <1>3, OperandPlace
  <2>2. Of(A, o) = A[o.node]
    BY <1>3 DEF Of, IsLiteral
  <2>. QED
    BY <2>1, <2>2 DEF Sane, Placed
<1>. QED
  BY <1>2, <1>3

LEMMA OnWithin ==
  ASSUME NEW P, NEW A, NEW M, NEW n, Sane(P, A, M, n), NEW nd, Formed(P, A, M, n, nd)
  PROVE  /\ IsCoordinate(nd) => OnIn(P, A, M, nd, n + 1) = {n + 1}
         /\ ~IsCoordinate(nd) =>
              OnIn(P, A, M, nd, n + 1) \subseteq {d \in 1..n : IsCoordinate(P[d])}
<1>. DEFINE inputs == InputsOf(P, A, nd)
            on == OnAt(M, nd.args[1])
            old == {d \in 1..n : IsCoordinate(P[d])}
<1>1. Operands(nd) \subseteq 1..n
  BY DEF Formed
<1>2. CASE IsCoordinate(nd)
  BY <1>2 DEF OnIn, IsCoordinate
<1>3. CASE nd.op \in {"lawof"} \cup Reifying
  <2>1. 1 \in DOMAIN nd.args
    BY <1>3 DEF Formed
  <2>2. on \subseteq old
    BY <1>1, <2>1, ArgumentOn
  <2>3. \A cut : Up(P, M, on, cut) \subseteq old
    <3>. TAKE cut
    <3>1. on \subseteq 1..n
      BY <2>2
    <3>. HIDE DEF on
    <3>. QED
      BY <2>2, <3>1, UpFacts
  <2>. QED
    BY <1>3, <2>2, <2>3 DEF OnIn, IsCoordinate, Reifying
<1>4. CASE ~IsCoordinate(nd) /\ nd.op \notin {"lawof"} \cup Reifying
  <2>1. OnIn(P, A, M, nd, n + 1) = UNION {OnAt(M, nd.args[j]) : j \in DOMAIN nd.args}
    BY <1>4 DEF OnIn, IsCoordinate, Reifying
  <2>2. \A j \in DOMAIN nd.args : OnAt(M, nd.args[j]) \subseteq old
    BY <1>1, ArgumentOn
  <2>. QED
    BY <1>4, <2>1, <2>2
<1>. QED
  BY <1>2, <1>3, <1>4 DEF IsCoordinate, Reifying

LEMMA StaysSane ==
  ASSUME NEW P, NEW A, NEW M, NEW n, NEW nd, NEW Q, NEW B, NEW N,
         Extended(P, A, M, n, nd, Q, B, N)
  PROVE  Sane(Q, B, N, n + 1)
<1>1. Sane(P, A, M, n) /\ n \in Nat /\ Formed(P, A, M, n, nd)
  BY DEF Extended, Sane
<1>2. /\ n + 1 \in Nat
      /\ DOMAIN Q = 1..(n + 1) /\ DOMAIN B = 1..(n + 1) /\ DOMAIN N = 1..(n + 1)
  BY <1>1 DEF Extended, Grown
<1>3. ASSUME NEW i \in 1..n
      PROVE  Placed(Q, B, N, i)
  <2>1. Q[i] = P[i] /\ B[i] = A[i] /\ N[i] = M[i] /\ Placed(P, A, M, i)
    BY <1>1 DEF Extended, Grown, Sane
  <2>2. \A d \in 1..i : Q[d] = P[d]
    BY <1>1 DEF Extended, Grown
  <2>. QED
    BY <2>1, <2>2 DEF Placed
<1>4. Placed(Q, B, N, n + 1)
  <2>1. Operands(Q[n + 1]) \subseteq 1..n /\ Operands(nd) \subseteq 1..n
    BY <1>1 DEF Extended, Formed, Operands
  <2>2. Q[n + 1].op = "draw" => 1 \in DOMAIN Q[n + 1].args
    BY <1>1 DEF Extended, Formed
  <2>3. LawPhase(A, nd) \in Phases
    BY JoinedPhases DEF LawPhase, Phases
  <2>4. PhaseOf(A, nd) \in Phases
    <3>1. CASE nd.op = "lawof"
      <4>1. 1 \in DOMAIN nd.args
        BY <1>1, <3>1 DEF Formed
      <4>. QED
        BY <1>1, <2>1, <3>1, <4>1, ArgumentPhases DEF PhaseOf
    <3>2. CASE nd.op # "lawof"
      BY <3>2, JoinedPhases DEF PhaseOf, Joined, Phases
    <3>. QED
      BY <3>1, <3>2
  <2>5. /\ IsCoordinate(nd) => N[n + 1].on = {n + 1}
        /\ ~IsCoordinate(nd) => N[n + 1].on \subseteq {d \in 1..n : IsCoordinate(P[d])}
    BY <1>1, OnWithin DEF Extended
  <2>6. IsCoordinate(Q[n + 1]) <=> IsCoordinate(nd)
    BY DEF IsCoordinate, Extended
  <2>7. \A d \in 1..n : Q[d] = P[d]
    BY DEF Extended, Grown
  <2>8. N[n + 1].on \subseteq {d \in 1..(n + 1) : IsCoordinate(Q[d])}
    BY <1>1, <2>5, <2>6, <2>7
  <2>9. 1..n = 1..((n + 1) - 1)
    BY <1>1
  <2>10. B[n + 1].ph \in Phases /\ B[n + 1].law \in Phases
    BY <2>3, <2>4 DEF Extended
  <2>11. IsCoordinate(Q[n + 1]) => N[n + 1].on = {n + 1}
    BY <2>5, <2>6
  <2>12. Operands(Q[n + 1]) \subseteq 1..((n + 1) - 1)
    BY <2>1, <2>9
  <2>. QED
    BY <2>2, <2>8, <2>10, <2>11, <2>12, Zenon DEF Placed
<1>. QED
  BY <1>1, <1>2, <1>3, <1>4 DEF Sane

LEMMA ExtendedFacts ==
  ASSUME NEW P, NEW A, NEW M, NEW n, NEW nd, NEW Q, NEW B, NEW N,
         Extended(P, A, M, n, nd, Q, B, N)
  PROVE  /\ Sane(P, A, M, n) /\ n \in Nat /\ Sane(Q, B, N, n + 1)
         /\ Formed(P, A, M, n, nd) /\ Operands(nd) \subseteq 1..n
         /\ DOMAIN P = 1..n /\ DOMAIN Q = 1..(n + 1)
         /\ \A i \in 1..n : Q[i] = P[i] /\ B[i] = A[i] /\ N[i] = M[i]
<1>1. Sane(P, A, M, n) /\ Formed(P, A, M, n, nd)
  BY DEF Extended
<1>2. Sane(Q, B, N, n + 1)
  BY StaysSane
<1>3. n \in Nat /\ DOMAIN P = 1..n /\ DOMAIN Q = 1..(n + 1)
  BY <1>1, <1>2 DEF Sane
<1>4. Operands(nd) \subseteq 1..n
  BY <1>1 DEF Formed
<1>5. \A i \in 1..n : Q[i] = P[i] /\ B[i] = A[i] /\ N[i] = M[i]
  BY DEF Extended, Grown
<1>. QED
  BY <1>1, <1>2, <1>3, <1>4, <1>5

LEMMA UpFrame ==
  ASSUME NEW P, NEW A, NEW M, NEW n, NEW nd, NEW Q, NEW B, NEW N,
         Extended(P, A, M, n, nd, Q, B, N)
  PROVE  \A on, cut : on \subseteq DOMAIN P => Up(Q, N, on, cut) = Up(P, M, on, cut)
<1>. SUFFICES ASSUME NEW on, NEW cut, on \subseteq DOMAIN P
              PROVE  Up(Q, N, on, cut) = Up(P, M, on, cut)
  OBVIOUS
<1>. DEFINE next == FeedsIn(P, M, cut)
            next2 == FeedsIn(Q, N, cut)
<1>1. Sane(P, A, M, n) /\ n \in Nat /\ Sane(Q, B, N, n + 1) /\ DOMAIN P = 1..n
  BY ExtendedFacts
<1>2. Descends(next) /\ DOMAIN next = 1..n
  BY <1>1, FeedsDescend
<1>3. Descends(next2) /\ DOMAIN next2 = 1..(n + 1)
  BY <1>1, FeedsDescend
<1>4. \A d \in 1..n : next2[d] = next[d]
  BY FeedsFrame
<1>5. 1..n \subseteq 1..(n + 1)
  BY <1>1
<1>. HIDE DEF next, next2
<1>6. /\ DOMAIN next \subseteq DOMAIN next2 /\ on \subseteq DOMAIN next
      /\ \A i \in DOMAIN next : next2[i] = next[i]
  BY <1>1, <1>2, <1>3, <1>4, <1>5
<1>7. Reached(next2, on) = Reached(next, on)
  BY <1>2, <1>3, <1>6, ReachedFrame, Zenon
<1>. QED
  BY <1>7 DEF Up, next, next2

LEMMA WalkedWithin ==
  ASSUME NEW P, NEW A, NEW M, NEW n, Sane(P, A, M, n),
         NEW open, open \subseteq 1..n, NEW ends, NEW o
  PROVE  /\ Walked(P, o, open, ends) \subseteq open
         /\ o.node \in open => o.node \in Walked(P, o, open, ends)
<1>. DEFINE next == Steps(P, open, ends)
            start == {o.node} \cap open
<1>1. Descends(next) /\ DOMAIN next = open
  BY SaneBackward, StepsDescend
<1>2. start \subseteq Reached(next, start) /\ Reached(next, start) \subseteq open
  <2>. HIDE DEF next
  <2>. QED
    BY <1>1, ReachedLeast
<1>. QED
  BY <1>2, WalkedIs

LEMMA WalkedBelow ==
  ASSUME NEW P, NEW A, NEW M, NEW n, Sane(P, A, M, n),
         NEW open, open \subseteq 1..n, NEW ends,
         NEW i \in open \ ends, NEW k \in Operands(P[i])
  PROVE  Walked(P, Ref(k), open, ends) \subseteq Walked(P, Ref(i), open, ends)
<1>. DEFINE next == Steps(P, open, ends)
            W == Reached(next, {i})
            start == {k} \cap open
<1>1. Descends(next) /\ DOMAIN next = open
  BY SaneBackward, StepsDescend
<1>2. next[i] = Operands(P[i]) \cap open
  BY DEF Steps
<1>3. Walked(P, Ref(i), open, ends) = W /\ Walked(P, Ref(k), open, ends) = Reached(next, start)
  <2>1. {i} \cap open = {i} /\ Ref(i).node = i /\ Ref(k).node = k
    BY DEF Ref
  <2>. QED
    BY <2>1, WalkedIs
<1>. HIDE DEF next
<1>4. {i} \subseteq W /\ W \subseteq open /\ Closed(next, W)
  BY <1>1, ReachedLeast
<1>5. start \subseteq W
  BY <1>2, <1>4 DEF Closed
<1>. HIDE DEF W
<1>6. start \subseteq open /\ W \cap open = W
  BY <1>4
<1>7. Reached(next, start) \subseteq W
  BY <1>1, <1>4, <1>5, <1>6, ReachedLeast
<1>. QED
  BY <1>3, <1>7

-----------------------------------------------------------------------------
(* What is found below an earlier node stays the same.                     *)

LEMMA FoundFrame ==
  ASSUME NEW P, NEW A, NEW M, NEW n, NEW nd, NEW Q, NEW B, NEW N,
         Extended(P, A, M, n, nd, Q, B, N),
         NEW o, o.node \in 0..n
  PROVE  /\ KeywordIn(Q, o) = KeywordIn(P, o)
         /\ LawsIn(Q, o) = LawsIn(P, o)
         /\ \A cut : /\ Parameters(Q, B, o, cut) = Parameters(P, A, o, cut)
                     /\ CapturedDraws(Q, B, o, cut) = CapturedDraws(P, A, o, cut)
<1>1. /\ Sane(P, A, M, n) /\ n \in Nat /\ Sane(Q, B, N, n + 1)
      /\ DOMAIN P = 1..n /\ DOMAIN A = 1..n /\ DOMAIN Q = 1..(n + 1) /\ DOMAIN B = 1..(n + 1)
      /\ \A i \in 1..n : Q[i] = P[i] /\ B[i] = A[i]
  <2>1. Sane(P, A, M, n) /\ Sane(Q, B, N, n + 1)
    BY StaysSane DEF Extended
  <2>2. /\ n \in Nat /\ DOMAIN P = 1..n /\ DOMAIN A = 1..n
        /\ DOMAIN Q = 1..(n + 1) /\ DOMAIN B = 1..(n + 1)
    BY <2>1 DEF Sane
  <2>3. \A i \in 1..n : Q[i] = P[i] /\ B[i] = A[i]
    BY DEF Extended, Grown
  <2>. QED
    BY <2>1, <2>2, <2>3
<1>2. ASSUME NEW open, NEW open2, NEW ends, NEW ends2, Agree(n, open, open2, ends, ends2)
      PROVE  /\ Walked(Q, o, open2, ends2) = Walked(P, o, open, ends)
             /\ Walked(P, o, open, ends) \subseteq 1..n
  <2>1. /\ open \subseteq 1..n /\ open2 \subseteq 1..(n + 1) /\ open2 \cap 1..n = open
    BY <1>2 DEF Agree
  <2>2. Backward(P, n) /\ Backward(Q, n + 1) /\ Grown(P, Q, n) /\ Sane(P, A, M, n)
    BY <1>1, SaneBackward DEF Extended
  <2>3. Walked(Q, o, open2, ends2) = Walked(P, o, open, ends)
    BY <1>2, <2>2, WalkedFrame
  <2>4. Walked(P, o, open, ends) \subseteq open
    BY <2>1, <2>2, WalkedWithin
  <2>. QED
    BY <2>1, <2>3, <2>4
<1>3. /\ Walked(Q, o, 1..(n + 1), {}) = Walked(P, o, 1..n, {})
      /\ Walked(P, o, 1..n, {}) \subseteq 1..n
  <2>1. Agree(n, 1..n, 1..(n + 1), {}, {})
    BY <1>1 DEF Agree
  <2>. QED
    BY <2>1, <1>2, Zenon
<1>4. KeywordIn(Q, o) = KeywordIn(P, o) /\ LawsIn(Q, o) = LawsIn(P, o)
  BY <1>1, <1>3 DEF KeywordIn, LawsIn
<1>5. ASSUME NEW cut
      PROVE  Parameters(Q, B, o, cut) = Parameters(P, A, o, cut)
  <2>. DEFINE open == {j \in DOMAIN A : A[j].ph # "fixed" /\ j \notin cut}
              open2 == {j \in DOMAIN B : B[j].ph # "fixed" /\ j \notin cut}
  <2>1. Agree(n, open, open2, {}, {})
    BY <1>1 DEF Agree
  <2>. HIDE DEF open, open2
  <2>2. /\ Walked(Q, o, open2, {}) = Walked(P, o, open, {})
        /\ Walked(P, o, open, {}) \subseteq 1..n
    BY <1>2, <2>1, Zenon
  <2>. QED
    BY <1>1, <2>2 DEF Parameters, open, open2
<1>6. ASSUME NEW cut
      PROVE  CapturedDraws(Q, B, o, cut) = CapturedDraws(P, A, o, cut)
  <2>. DEFINE open == {j \in DOMAIN A : A[j].ph = "stochastic" /\ j \notin cut}
              open2 == {j \in DOMAIN B : B[j].ph = "stochastic" /\ j \notin cut}
              ends == {j \in DOMAIN A : P[j].op = "draw"}
              ends2 == {j \in DOMAIN B : Q[j].op = "draw"}
  <2>1. open \subseteq 1..n /\ open2 \subseteq 1..(n + 1) /\ open2 \cap 1..n = open
    BY <1>1
  <2>2. \A i \in 1..n : i \in ends2 <=> i \in ends
    BY <1>1
  <2>3. Agree(n, open, open2, ends, ends2)
    BY <2>1, <2>2 DEF Agree
  <2>. HIDE DEF open, open2, ends, ends2
  <2>4. /\ Walked(Q, o, open2, ends2) = Walked(P, o, open, ends)
        /\ Walked(P, o, open, ends) \subseteq 1..n
    BY <1>2, <2>3, Zenon
  <2>5. Walked(Q, o, open2, ends2) \cap ends2 = Walked(P, o, open, ends) \cap ends
    BY <2>2, <2>4
  <2>. QED
    BY <2>5 DEF CapturedDraws, open, open2, ends, ends2
<1>. QED
  BY <1>4, <1>5, <1>6

(* What is found below an operand is found below the node.                 *)
LEMMA FoundBelow ==
  ASSUME NEW P, NEW A, NEW M, NEW n, Sane(P, A, M, n), NEW i \in 1..n,
         NEW k \in Operands(P[i])
  PROVE  /\ KeywordIn(P, Ref(k)) => KeywordIn(P, Ref(i))
         /\ LawsIn(P, Ref(k)) => LawsIn(P, Ref(i))
         /\ \A cut : i \notin cut /\ A[i].ph # "fixed" =>
              Parameters(P, A, Ref(k), cut) \subseteq Parameters(P, A, Ref(i), cut)
         /\ \A cut : i \notin cut /\ A[i].ph = "stochastic" /\ P[i].op # "draw" =>
              CapturedDraws(P, A, Ref(k), cut) \subseteq CapturedDraws(P, A, Ref(i), cut)
<1>1. DOMAIN P = 1..n /\ DOMAIN A = 1..n
  BY DEF Sane
<1>2. ASSUME NEW open, open \subseteq 1..n, NEW ends, i \in open, i \notin ends
      PROVE  Walked(P, Ref(k), open, ends) \subseteq Walked(P, Ref(i), open, ends)
  <2>1. i \in open \ ends
    BY <1>2
  <2>. QED
    BY <1>2, <2>1, WalkedBelow
<1>3. Walked(P, Ref(k), 1..n, {}) \subseteq Walked(P, Ref(i), 1..n, {})
  BY <1>2
<1>4. ASSUME NEW cut, i \notin cut, A[i].ph # "fixed"
      PROVE  Parameters(P, A, Ref(k), cut) \subseteq Parameters(P, A, Ref(i), cut)
  <2>. DEFINE open == {j \in DOMAIN A : A[j].ph # "fixed" /\ j \notin cut}
  <2>1. open \subseteq 1..n /\ i \in open
    BY <1>1, <1>4
  <2>. HIDE DEF open
  <2>2. Walked(P, Ref(k), open, {}) \subseteq Walked(P, Ref(i), open, {})
    BY <1>2, <2>1
  <2>. QED
    BY <2>2 DEF Parameters, open
<1>5. ASSUME NEW cut, i \notin cut, A[i].ph = "stochastic", P[i].op # "draw"
      PROVE  CapturedDraws(P, A, Ref(k), cut) \subseteq CapturedDraws(P, A, Ref(i), cut)
  <2>. DEFINE open == {j \in DOMAIN A : A[j].ph = "stochastic" /\ j \notin cut}
              ends == {j \in DOMAIN A : P[j].op = "draw"}
  <2>1. open \subseteq 1..n /\ i \in open /\ i \notin ends
    BY <1>1, <1>5
  <2>. HIDE DEF open, ends
  <2>2. Walked(P, Ref(k), open, ends) \subseteq Walked(P, Ref(i), open, ends)
    BY <1>2, <2>1
  <2>. QED
    BY <2>2 DEF CapturedDraws, open, ends
<1>. QED
  BY <1>1, <1>3, <1>4, <1>5 DEF KeywordIn, LawsIn

LEMMA FoundItself ==
  ASSUME NEW P, NEW A, NEW M, NEW n, Sane(P, A, M, n), NEW i \in 1..n
  PROVE  /\ P[i].named => KeywordIn(P, Ref(i))
         /\ P[i].op = "lawof" => LawsIn(P, Ref(i))
         /\ \A cut : i \notin cut /\ A[i].ph # "fixed" /\ P[i].op = "elementof" =>
              i \in Parameters(P, A, Ref(i), cut)
         /\ \A cut : i \notin cut /\ A[i].ph = "stochastic" /\ P[i].op = "draw" =>
              i \in CapturedDraws(P, A, Ref(i), cut)
<1>1. DOMAIN P = 1..n /\ DOMAIN A = 1..n
  BY DEF Sane
<1>2. ASSUME NEW open, open \subseteq 1..n, NEW ends, i \in open
      PROVE  i \in Walked(P, Ref(i), open, ends)
  <2>1. Ref(i).node = i
    BY DEF Ref
  <2>2. Ref(i).node \in open => Ref(i).node \in Walked(P, Ref(i), open, ends)
    BY <1>2, WalkedWithin, Zenon
  <2>. QED
    BY <1>2, <2>1, <2>2
<1>3. i \in Walked(P, Ref(i), 1..n, {})
  BY <1>2
<1>4. ASSUME NEW cut, i \notin cut, A[i].ph # "fixed", P[i].op = "elementof"
      PROVE  i \in Parameters(P, A, Ref(i), cut)
  <2>. DEFINE open == {j \in DOMAIN A : A[j].ph # "fixed" /\ j \notin cut}
  <2>1. open \subseteq 1..n /\ i \in open
    BY <1>1, <1>4
  <2>. HIDE DEF open
  <2>2. i \in Walked(P, Ref(i), open, {})
    BY <1>2, <2>1
  <2>. QED
    BY <2>2, <1>4 DEF Parameters, open
<1>5. ASSUME NEW cut, i \notin cut, A[i].ph = "stochastic", P[i].op = "draw"
      PROVE  i \in CapturedDraws(P, A, Ref(i), cut)
  <2>. DEFINE open == {j \in DOMAIN A : A[j].ph = "stochastic" /\ j \notin cut}
              ends == {j \in DOMAIN A : P[j].op = "draw"}
  <2>1. open \subseteq 1..n /\ i \in open /\ i \in ends
    BY <1>1, <1>5
  <2>. HIDE DEF open, ends
  <2>2. i \in Walked(P, Ref(i), open, ends)
    BY <1>2, <2>1
  <2>. QED
    BY <2>1, <2>2 DEF CapturedDraws, open, ends
<1>. QED
  BY <1>1, <1>3, <1>4, <1>5 DEF KeywordIn, LawsIn

-----------------------------------------------------------------------------
(* What is upstream of sets of coordinates.                                *)

LEMMA UpArguments ==
  ASSUME NEW P, NEW A, NEW M, NEW n, Sane(P, A, M, n), NEW nd, Operands(nd) \subseteq 1..n,
         NEW on, on \subseteq UNION {OnAt(M, nd.args[j]) : j \in DOMAIN nd.args},
         NEW cut, NEW d \in Up(P, M, on, cut)
  PROVE  \E j \in DOMAIN nd.args : d \in Up(P, M, OnAt(M, nd.args[j]), cut)
<1>. DEFINE next == FeedsIn(P, M, cut)
<1>1. Descends(next) /\ DOMAIN next = 1..n
  BY FeedsDescend
<1>2. \A j \in DOMAIN nd.args : OnAt(M, nd.args[j]) \subseteq 1..n
  BY ArgumentOn
<1>3. on \subseteq 1..n
  BY <1>2
<1>4. d \in Reached(next, on)
  BY DEF Up
<1>. HIDE DEF next
<1>5. PICK c \in on : d \in Reached(next, {c})
  BY <1>1, <1>3, <1>4, ReachedFromOne
<1>6. PICK j \in DOMAIN nd.args : c \in OnAt(M, nd.args[j])
  OBVIOUS
<1>. DEFINE more == OnAt(M, nd.args[j])
<1>7. {c} \subseteq more /\ more \subseteq 1..n
  BY <1>2, <1>6
<1>. HIDE DEF more
<1>8. Reached(next, {c}) \subseteq Reached(next, more)
  BY <1>1, <1>7, ReachedGrows
<1>. QED
  BY <1>5, <1>8 DEF Up, next, more

LEMMA UpStill ==
  ASSUME NEW P, NEW A, NEW M, NEW n, Sane(P, A, M, n), NEW on, on \subseteq DOMAIN P,
         \A d \in on : P[d].op # "draw", NEW cut
  PROVE  Up(P, M, on, cut) = on
<1>3. on \subseteq 1..n
  BY DEF Sane
<1>1. Closed(FeedsIn(P, M, cut), on \cap 1..n)
  BY DEF Closed, FeedsIn, Sane
<1>2. Up(P, M, on, cut) \subseteq on
  BY <1>1, <1>3, UpFacts
<1>4. on \subseteq Up(P, M, on, cut)
  BY <1>3, UpFacts
<1>. QED
  BY <1>2, <1>4

LEMMA UpCutLess ==
  ASSUME NEW P, NEW A, NEW M, NEW n, Sane(P, A, M, n), NEW on, on \subseteq 1..n, NEW cut
  PROVE  Up(P, M, on, cut) \subseteq Up(P, M, on, {})
<1>. DEFINE U == Up(P, M, on, {})
<1>1. on \subseteq U /\ U \subseteq 1..n /\ Closed(FeedsIn(P, M, {}), U)
  BY UpFacts
<1>2. \A d \in 1..n : FeedsIn(P, M, cut)[d] \subseteq FeedsIn(P, M, {})[d]
  BY DEF FeedsIn, Sane
<1>3. Closed(FeedsIn(P, M, cut), U \cap 1..n)
  BY <1>1, <1>2 DEF Closed
<1>. HIDE DEF U
<1>4. Up(P, M, on, cut) \subseteq U
  BY <1>1, <1>3, UpFacts
<1>. QED
  BY <1>4 DEF U

LEMMA UpNoDrawCut ==
  ASSUME NEW P, NEW M, NEW on, NEW cut, \A c \in cut \cap DOMAIN P : P[c].op # "draw"
  PROVE  Up(P, M, on, cut) = Up(P, M, on, {})
<1>1. FeedsIn(P, M, cut) = FeedsIn(P, M, {})
  BY DEF FeedsIn
<1>. QED
  BY <1>1 DEF Up

(* Upstream of the new node: itself, and what was upstream of operands.    *)
LEMMA NewUpstream ==
  ASSUME NEW P, NEW A, NEW M, NEW n, NEW nd, NEW Q, NEW B, NEW N,
         Extended(P, A, M, n, nd, Q, B, N), NEW cut,
         nd.op = "kernelof" => cut = {},
         nd.op = "lawof" => \A c \in cut \cap DOMAIN P : P[c].op # "draw",
         NEW d \in Up(Q, N, N[n + 1].on, cut), d # n + 1
  PROVE  d \in 1..n /\ \E j \in DOMAIN nd.args : d \in Up(P, M, OnAt(M, nd.args[j]), cut)
<1>. DEFINE on == N[n + 1].on
            first == OnAt(M, nd.args[1])
            inputs == InputsOf(P, A, nd)
<1>1. /\ Sane(P, A, M, n) /\ n \in Nat /\ Sane(Q, B, N, n + 1)
      /\ Formed(P, A, M, n, nd) /\ Operands(nd) \subseteq 1..n
      /\ on = OnIn(P, A, M, nd, n + 1)
  <2>1. on = OnIn(P, A, M, nd, n + 1)
    BY DEF Extended
  <2>. QED
    BY <2>1, ExtendedFacts
<1>2. nd.op \in Reifying \cup {"draw", "lawof"} =>
        /\ DOMAIN nd.args = {1} /\ first \subseteq 1..n
  <2>1. nd.op \in Reifying \cup {"draw", "lawof"} => DOMAIN nd.args = {1}
    BY <1>1 DEF Formed
  <2>2. 1 \in DOMAIN nd.args => first \subseteq 1..n
    BY <1>1, ArgumentOn
  <2>. QED
    BY <2>1, <2>2
<1>3. ~IsCoordinate(nd) => on \subseteq 1..n /\ Up(Q, N, on, cut) = Up(P, M, on, cut)
  <2>1. ~IsCoordinate(nd) => on \subseteq 1..n
    BY <1>1, OnWithin
  <2>. HIDE DEF on
  <2>2. \A cut1, on1 : on1 \subseteq DOMAIN P => Up(Q, N, on1, cut1) = Up(P, M, on1, cut1)
    BY UpFrame
  <2>. QED
    BY <1>1, <2>1, <2>2 DEF Sane
<1>4. CASE IsCoordinate(nd)
  <2>. DEFINE U == IF nd.op = "draw" THEN Up(P, M, first, cut) ELSE {}
              S == {n + 1} \cup U
  <2>1. on = {n + 1} /\ {n + 1} \subseteq 1..(n + 1)
    BY <1>1, <1>4, OnWithin
  <2>2. U \subseteq 1..n /\ Closed(FeedsIn(P, M, cut), U) /\ (nd.op = "draw" => first \subseteq U)
    <3>1. CASE nd.op = "draw"
      BY <1>1, <1>2, <3>1, UpFacts
    <3>2. CASE nd.op # "draw"
      BY <3>2 DEF Closed
    <3>. QED
      BY <3>1, <3>2
  <2>3. FeedsIn(Q, N, cut)[n + 1] \subseteq U
    <3>1. n + 1 \in DOMAIN Q /\ Q[n + 1].op = nd.op /\ Q[n + 1].args = nd.args
      BY <1>1 DEF Extended, Sane
    <3>2. CASE nd.op = "draw"
      <4>1. nd.args[1].node # 0 => nd.args[1].node \in 1..n
        BY <1>1, <1>2, <3>2, OperandPlace
      <4>2. OnAt(N, nd.args[1]) = first
        BY <4>1 DEF OnAt, Extended, Grown
      <4>. HIDE DEF U
      <4>. QED
        BY <2>2, <3>1, <3>2, <4>2 DEF FeedsIn
    <3>3. CASE nd.op # "draw"
      BY <3>1, <3>3 DEF FeedsIn
    <3>. QED
      BY <3>2, <3>3
  <2>4. \A c \in 1..n : FeedsIn(Q, N, cut)[c] = FeedsIn(P, M, cut)[c]
    BY FeedsFrame
  <2>. HIDE DEF U
  <2>5. Closed(FeedsIn(Q, N, cut), S \cap 1..(n + 1))
    <3>. DEFINE K == 1..(n + 1)
    <3>a. 1..n \subseteq K /\ n + 1 \in K
      BY <1>1
    <3>b. U \subseteq K
      BY <2>2, <3>a
    <3>. HIDE DEF K
    <3>c. S \cap K = S
      BY <3>a, <3>b
    <3>1. S \cap 1..(n + 1) = S
      BY <3>c DEF K
    <3>2. \A c \in U : FeedsIn(Q, N, cut)[c] \subseteq U
      BY <2>2, <2>4 DEF Closed
    <3>3. Closed(FeedsIn(Q, N, cut), S)
      BY <2>3, <3>2 DEF Closed
    <3>. QED
      BY <3>1, <3>3
  <2>6. on \subseteq S /\ on \subseteq 1..(n + 1)
    BY <2>1
  <2>. HIDE DEF S, on
  <2>7. Up(Q, N, on, cut) \subseteq S
    BY <1>1, <2>5, <2>6, UpFacts
  <2>8. d \in U
    BY <2>7 DEF S, on
  <2>. QED
    BY <1>2, <2>2, <2>8 DEF U
<1>5. CASE nd.op \in {"lawof", "kernelof"}
  <2>. DEFINE by == IF nd.op = "lawof" THEN {} ELSE inputs
  <2>1. ~IsCoordinate(nd) /\ first \subseteq 1..n /\ DOMAIN nd.args = {1}
    BY <1>2, <1>5 DEF IsCoordinate, Reifying
  <2>2. on \subseteq {c \in Up(P, M, first, by) : P[c].op # "draw"}
    BY <1>1, <1>5 DEF OnIn, IsCoordinate
  <2>. HIDE DEF by, first
  <2>3. Up(P, M, first, by) \subseteq Up(P, M, first, {})
    BY <1>1, <2>1, UpCutLess
  <2>. HIDE DEF on
  <2>4. Up(P, M, on, cut) = on
    <3>1. on \subseteq DOMAIN P /\ (\A c \in on : P[c].op # "draw") /\ Sane(P, A, M, n)
      BY <1>1, <1>3, <2>1, <2>2 DEF Sane
    <3>. QED
      BY <3>1, UpStill
  <2>5. Up(P, M, first, cut) = Up(P, M, first, {})
    BY <1>5, UpNoDrawCut
  <2>6. d \in on /\ on \subseteq 1..n
    BY <1>3, <2>1, <2>4 DEF on
  <2>7. d \in Up(P, M, first, cut)
    BY <2>2, <2>3, <2>5, <2>6
  <2>. QED
    BY <2>1, <2>6, <2>7 DEF first
<1>6. CASE ~IsCoordinate(nd) /\ nd.op \notin {"lawof", "kernelof"}
  <2>1. on \subseteq UNION {OnAt(M, nd.args[j]) : j \in DOMAIN nd.args}
    <3>1. CASE nd.op = "functionof"
      BY <1>1, <1>2, <3>1 DEF OnIn, IsCoordinate, Reifying
    <3>2. CASE nd.op # "functionof"
      BY <1>1, <1>6, <3>2 DEF OnIn, IsCoordinate
    <3>. QED
      BY <3>1, <3>2
  <2>2. d \in Up(P, M, on, cut) /\ on \subseteq 1..n
    BY <1>3, <1>6
  <2>. HIDE DEF on
  <2>3. d \in 1..n
    BY <1>1, <2>2, UpFacts
  <2>. QED
    BY <1>1, <2>1, <2>2, <2>3, UpArguments
<1>. QED
  BY <1>4, <1>5, <1>6

-----------------------------------------------------------------------------
(* The invariant.  For each node: what it varies with is in its phase; what *)
(* is upstream is in the phase of its law, unless keyword operands hide it; *)
(* the parameters upstream and the draws it varies with are found by the   *)
(* walks, whatever it is cut at.                                           *)

Varies(P, A, M, i) ==
  \A d \in M[i].on :
    \/ P[d].op = "external"
    \/ P[d].op = "elementof" /\ A[i].ph # "fixed"
    \/ A[i].ph = "stochastic"

LawVaries(P, A, M, i) ==
  ~KeywordIn(P, Ref(i)) =>
    \A d \in Up(P, M, M[i].on, {}) : P[d].op = "elementof" => A[i].law # "fixed"

ParametersFound(P, A, M, i) ==
  \A cut : Cuts(P, cut, Ref(i)) =>
    \A d \in Up(P, M, M[i].on, cut) \ cut :
      P[d].op = "elementof" => d \in Parameters(P, A, Ref(i), cut)

DrawsFound(P, A, M, i) ==
  \A cut : (\A c \in cut \cap DOMAIN P : IsCoordinate(P[c])) =>
    \A d \in M[i].on \ cut :
      P[d].op = "draw" => d \in CapturedDraws(P, A, Ref(i), cut)

Sound(P, A, M, n) ==
  /\ Sane(P, A, M, n)
  /\ \A i \in 1..n : /\ Varies(P, A, M, i) /\ LawVaries(P, A, M, i)
                     /\ ParametersFound(P, A, M, i) /\ DrawsFound(P, A, M, i)

LEMMA EarlierSound ==
  ASSUME NEW P, NEW A, NEW M, NEW n, NEW nd, NEW Q, NEW B, NEW N,
         Extended(P, A, M, n, nd, Q, B, N), Sound(P, A, M, n), NEW i \in 1..n
  PROVE  /\ Varies(Q, B, N, i) /\ LawVaries(Q, B, N, i)
         /\ ParametersFound(Q, B, N, i) /\ DrawsFound(Q, B, N, i)
<1>1. /\ Sane(P, A, M, n) /\ n \in Nat /\ Sane(Q, B, N, n + 1)
      /\ DOMAIN P = 1..n /\ DOMAIN Q = 1..(n + 1)
      /\ \A k \in 1..n : Q[k] = P[k] /\ B[k] = A[k] /\ N[k] = M[k]
  BY ExtendedFacts
<1>2. /\ Varies(P, A, M, i) /\ LawVaries(P, A, M, i)
      /\ ParametersFound(P, A, M, i) /\ DrawsFound(P, A, M, i)
  BY DEF Sound
<1>3. N[i].on = M[i].on /\ B[i] = A[i] /\ M[i].on \subseteq 1..n
  BY <1>1 DEF Sane, Placed
<1>4. \A on, cut : on \subseteq DOMAIN P => Up(Q, N, on, cut) = Up(P, M, on, cut)
  BY UpFrame
<1>12. \A cut : /\ Up(Q, N, M[i].on, cut) = Up(P, M, M[i].on, cut)
               /\ Up(P, M, M[i].on, cut) \subseteq 1..n
  <2>. DEFINE on == M[i].on
  <2>. TAKE cut
  <2>1. on \subseteq 1..n
    BY <1>3
  <2>. HIDE DEF on
  <2>2. Up(Q, N, on, cut) = Up(P, M, on, cut)
    BY <2>1, <1>1, <1>4
  <2>3. Up(P, M, on, cut) \subseteq 1..n
    BY <1>1, <2>1, UpFacts
  <2>. QED
    BY <2>2, <2>3 DEF on
<1>5. Ref(i).node \in 0..n
  BY <1>1 DEF Ref
<1>6. /\ KeywordIn(Q, Ref(i)) = KeywordIn(P, Ref(i))
      /\ LawsIn(Q, Ref(i)) = LawsIn(P, Ref(i))
      /\ \A cut : /\ Parameters(Q, B, Ref(i), cut) = Parameters(P, A, Ref(i), cut)
                  /\ CapturedDraws(Q, B, Ref(i), cut) = CapturedDraws(P, A, Ref(i), cut)
  BY <1>5, FoundFrame
<1>7. \A cut, k : k \in cut \cap DOMAIN P => k \in cut \cap DOMAIN Q /\ Q[k] = P[k]
  BY <1>1
<1>8. \A cut : Cuts(Q, cut, Ref(i)) => Cuts(P, cut, Ref(i))
  BY <1>6, <1>7 DEF Cuts
<1>9. Varies(Q, B, N, i) /\ LawVaries(Q, B, N, i)
  BY <1>1, <1>2, <1>3, <1>12, <1>6 DEF Varies, LawVaries
<1>10. ParametersFound(Q, B, N, i)
  BY <1>1, <1>2, <1>3, <1>12, <1>6, <1>8 DEF ParametersFound
<1>11. DrawsFound(Q, B, N, i)
  <2>1. \A cut : (\A c \in cut \cap DOMAIN Q : IsCoordinate(Q[c]))
                   => (\A c \in cut \cap DOMAIN P : IsCoordinate(P[c]))
    BY <1>7
  <2>. QED
    BY <1>1, <1>2, <1>3, <1>6, <2>1 DEF DrawsFound
<1>. QED
  BY <1>9, <1>10, <1>11

(* The same of an operand.                                                 *)
LEMMA OperandSound ==
  ASSUME NEW P, NEW A, NEW M, NEW n, Sound(P, A, M, n), NEW nd, Operands(nd) \subseteq 1..n,
         NEW j \in DOMAIN nd.args
  PROVE  LET o == nd.args[j]
         IN /\ \A d \in OnAt(M, o) : \/ P[d].op = "external"
                                     \/ P[d].op = "elementof" /\ Of(A, o).ph # "fixed"
                                     \/ Of(A, o).ph = "stochastic"
            /\ ~KeywordIn(P, o) =>
                 \A d \in Up(P, M, OnAt(M, o), {}) :
                   P[d].op = "elementof" => Of(A, o).law # "fixed"
            /\ \A cut : Cuts(P, cut, o) =>
                 \A d \in Up(P, M, OnAt(M, o), cut) \ cut :
                   P[d].op = "elementof" => d \in Parameters(P, A, o, cut)
            /\ \A cut : (\A c \in cut \cap DOMAIN P : IsCoordinate(P[c])) =>
                 \A d \in OnAt(M, o) \ cut :
                   P[d].op = "draw" => d \in CapturedDraws(P, A, o, cut)
<1>. DEFINE o == nd.args[j]
<1>1. Sane(P, A, M, n) /\ n \in Nat
  BY DEF Sound, Sane
<1>2. CASE o.node = 0
  <2>1. OnAt(M, o) = {}
    BY <1>2 DEF OnAt
  <2>2. \A cut : Up(P, M, {}, cut) = {}
    BY <1>1, UpStill
  <2>. HIDE DEF o
  <2>3. /\ \A d \in OnAt(M, o) : FALSE
        /\ \A cut : \A d \in Up(P, M, OnAt(M, o), cut) : FALSE
    BY <2>1, <2>2
  <2>. QED
    BY <2>3 DEF o
<1>3. CASE o.node # 0
  <2>. DEFINE i == o.node
  <2>1. i \in 1..n
    BY <1>1, <1>3, OperandPlace
  <2>2. OnAt(M, o) = M[i].on /\ Of(A, o) = A[i]
    BY <1>3 DEF OnAt, Of, IsLiteral
  <2>3. \A open, ends : Walked(P, o, open, ends) = Walked(P, Ref(i), open, ends)
    BY DEF Walked, Ref
  <2>. HIDE DEF o, i
  <2>4. /\ KeywordIn(P, o) = KeywordIn(P, Ref(i)) /\ LawsIn(P, o) = LawsIn(P, Ref(i))
        /\ \A cut : /\ Parameters(P, A, o, cut) = Parameters(P, A, Ref(i), cut)
                    /\ CapturedDraws(P, A, o, cut) = CapturedDraws(P, A, Ref(i), cut)
    BY <2>3 DEF KeywordIn, LawsIn, Parameters, CapturedDraws
  <2>5. \A cut : Cuts(P, cut, o) => Cuts(P, cut, Ref(i))
    BY <2>4 DEF Cuts
  <2>6. /\ Varies(P, A, M, i) /\ LawVaries(P, A, M, i)
        /\ ParametersFound(P, A, M, i) /\ DrawsFound(P, A, M, i)
    BY <2>1 DEF Sound
  <2>7. \A d \in OnAt(M, o) : \/ P[d].op = "external"
                              \/ P[d].op = "elementof" /\ Of(A, o).ph # "fixed"
                              \/ Of(A, o).ph = "stochastic"
    BY <2>2, <2>6 DEF Varies
  <2>8. ~KeywordIn(P, o) =>
          \A d \in Up(P, M, OnAt(M, o), {}) :
            P[d].op = "elementof" => Of(A, o).law # "fixed"
    BY <2>2, <2>4, <2>6 DEF LawVaries
  <2>9. \A cut : Cuts(P, cut, o) =>
          \A d \in Up(P, M, OnAt(M, o), cut) \ cut :
            P[d].op = "elementof" => d \in Parameters(P, A, o, cut)
    BY <2>2, <2>4, <2>5, <2>6 DEF ParametersFound
  <2>10. \A cut : (\A c \in cut \cap DOMAIN P : IsCoordinate(P[c])) =>
           \A d \in OnAt(M, o) \ cut :
             P[d].op = "draw" => d \in CapturedDraws(P, A, o, cut)
    BY <2>2, <2>4, <2>6 DEF DrawsFound
  <2>. QED
    BY <2>7, <2>8, <2>9, <2>10 DEF o
<1>. QED
  BY <1>2, <1>3

(* What is found below an operand is found below the new node.             *)
LEMMA OperandFound ==
  ASSUME NEW P, NEW A, NEW M, NEW n, NEW nd, NEW Q, NEW B, NEW N,
         Extended(P, A, M, n, nd, Q, B, N), NEW j \in DOMAIN nd.args, nd.args[j].node # 0
  PROVE  LET o == nd.args[j]
             new == Ref(n + 1)
         IN /\ KeywordIn(P, o) => KeywordIn(Q, new)
            /\ LawsIn(P, o) => LawsIn(Q, new)
            /\ \A cut : n + 1 \notin cut /\ B[n + 1].ph # "fixed" =>
                 Parameters(P, A, o, cut) \subseteq Parameters(Q, B, new, cut)
            /\ \A cut : n + 1 \notin cut /\ B[n + 1].ph = "stochastic" /\ nd.op # "draw" =>
                 CapturedDraws(P, A, o, cut) \subseteq CapturedDraws(Q, B, new, cut)
<1>. DEFINE o == nd.args[j]
            k == o.node
            new == Ref(n + 1)
<1>1. /\ Sane(P, A, M, n) /\ n \in Nat /\ Sane(Q, B, N, n + 1) /\ Operands(nd) \subseteq 1..n
      /\ n + 1 \in 1..(n + 1)
  BY ExtendedFacts
<1>2. k \in 1..n /\ k \in Operands(nd)
  BY <1>1, OperandPlace
<1>3. Operands(Q[n + 1]) = Operands(nd) /\ Q[n + 1].op = nd.op
  BY DEF Extended, Operands
<1>4. Ref(k).node = k /\ k \in 0..n
  BY <1>1, <1>2 DEF Ref
<1>5. \A open, ends : Walked(P, o, open, ends) = Walked(P, Ref(k), open, ends)
  BY DEF Walked, Ref
<1>6. /\ KeywordIn(P, o) = KeywordIn(P, Ref(k)) /\ LawsIn(P, o) = LawsIn(P, Ref(k))
      /\ \A cut : /\ Parameters(P, A, o, cut) = Parameters(P, A, Ref(k), cut)
                  /\ CapturedDraws(P, A, o, cut) = CapturedDraws(P, A, Ref(k), cut)
  BY <1>5 DEF KeywordIn, LawsIn, Parameters, CapturedDraws
<1>. HIDE DEF o, k
<1>7. /\ KeywordIn(Q, Ref(k)) = KeywordIn(P, Ref(k)) /\ LawsIn(Q, Ref(k)) = LawsIn(P, Ref(k))
      /\ \A cut : /\ Parameters(Q, B, Ref(k), cut) = Parameters(P, A, Ref(k), cut)
                  /\ CapturedDraws(Q, B, Ref(k), cut) = CapturedDraws(P, A, Ref(k), cut)
  BY <1>4, FoundFrame
<1>8. k \in Operands(Q[n + 1])
  BY <1>2, <1>3
<1>9. /\ KeywordIn(Q, Ref(k)) => KeywordIn(Q, new)
      /\ LawsIn(Q, Ref(k)) => LawsIn(Q, new)
      /\ \A cut : n + 1 \notin cut /\ B[n + 1].ph # "fixed" =>
           Parameters(Q, B, Ref(k), cut) \subseteq Parameters(Q, B, new, cut)
      /\ \A cut : n + 1 \notin cut /\ B[n + 1].ph = "stochastic" /\ Q[n + 1].op # "draw" =>
           CapturedDraws(Q, B, Ref(k), cut) \subseteq CapturedDraws(Q, B, new, cut)
  BY <1>1, <1>8, FoundBelow
<1>. HIDE DEF new
<1>. QED
  BY <1>3, <1>6, <1>7, <1>9 DEF o, new

-----------------------------------------------------------------------------
(* The new node.                                                           *)

LEMMA NewOn ==
  ASSUME NEW P, NEW A, NEW M, NEW n, NEW nd, NEW Q, NEW B, NEW N,
         Extended(P, A, M, n, nd, Q, B, N)
  PROVE  /\ N[n + 1].on = OnIn(P, A, M, nd, n + 1)
         /\ IsCoordinate(nd) => N[n + 1].on = {n + 1}
         /\ ~IsCoordinate(nd) => N[n + 1].on \subseteq DOMAIN P
         /\ N[n + 1].on \subseteq DOMAIN Q
         /\ n + 1 \in DOMAIN Q /\ n + 1 \notin DOMAIN P
         /\ \A d \in DOMAIN Q : d # n + 1 => d \in DOMAIN P
         /\ \A d \in DOMAIN P : d \in DOMAIN Q /\ Q[d] = P[d]
         /\ Q[n + 1].op = nd.op /\ (IsCoordinate(Q[n + 1]) <=> IsCoordinate(nd))
<1>1. /\ Sane(P, A, M, n) /\ n \in Nat /\ Formed(P, A, M, n, nd)
      /\ DOMAIN P = 1..n /\ DOMAIN Q = 1..(n + 1)
      /\ \A i \in 1..n : Q[i] = P[i]
  BY ExtendedFacts
<1>2. N[n + 1].on = OnIn(P, A, M, nd, n + 1) /\ Q[n + 1].op = nd.op
  BY DEF Extended
<1>3. /\ IsCoordinate(nd) => N[n + 1].on = {n + 1}
      /\ ~IsCoordinate(nd) => N[n + 1].on \subseteq {d \in 1..n : IsCoordinate(P[d])}
  BY <1>1, <1>2, OnWithin
<1>4. /\ n + 1 \in DOMAIN Q /\ n + 1 \notin DOMAIN P
      /\ \A d \in DOMAIN Q : d # n + 1 => d \in DOMAIN P
      /\ \A d \in DOMAIN P : d \in DOMAIN Q /\ Q[d] = P[d]
  BY <1>1
<1>5. ~IsCoordinate(nd) => N[n + 1].on \subseteq DOMAIN P
  BY <1>1, <1>3
<1>6. N[n + 1].on \subseteq DOMAIN Q
  BY <1>3, <1>4, <1>5
<1>. QED
  BY <1>2, <1>3, <1>4, <1>5, <1>6 DEF IsCoordinate

(* What is upstream of a reification is a parameter of its body, or cut.   *)
LEMMA NothingUnbound ==
  ASSUME NEW P, NEW A, NEW M, NEW n, Sound(P, A, M, n), NEW nd, Formed(P, A, M, n, nd),
         nd.op \in Reifying,
         NEW d \in Up(P, M, OnAt(M, nd.args[1]), InputsOf(P, A, nd)), P[d].op = "elementof"
  PROVE  d \in InputsOf(P, A, nd)
<1>. DEFINE o == nd.args[1]
            inputs == InputsOf(P, A, nd)
            on == OnAt(M, o)
<1>1. /\ Operands(nd) \subseteq 1..n /\ 1 \in DOMAIN nd.args /\ Cuts(P, inputs, o)
      /\ ~nd.auto => Parameters(P, A, o, inputs) = {}
  BY DEF Formed
<1>2. \A cut : Cuts(P, cut, o) =>
        \A c \in Up(P, M, on, cut) \ cut : P[c].op = "elementof" => c \in Parameters(P, A, o, cut)
  BY <1>1, OperandSound
<1>. HIDE DEF on, o
<1>. SUFFICES ASSUME d \notin inputs PROVE FALSE
  OBVIOUS
<1>3. CASE ~nd.auto
  <2>1. d \in Parameters(P, A, o, inputs)
    BY <1>1, <1>2 DEF on, o
  <2>. QED
    BY <1>1, <1>3, <2>1
<1>4. CASE nd.auto
  <2>1. inputs = Parameters(P, A, o, {})
    BY <1>4 DEF InputsOf, o
  <2>2. \A c \in inputs : P[c].op = "elementof"
    BY <2>1 DEF Parameters
  <2>3. Up(P, M, on, inputs) = Up(P, M, on, {})
    <3>. HIDE DEF inputs
    <3>. QED
      BY <2>2, UpNoDrawCut
  <2>4. Cuts(P, {}, o)
    BY DEF Cuts
  <2>5. d \in Up(P, M, on, {}) \ {}
    BY <2>3 DEF on, o
  <2>. QED
    BY <1>2, <2>1, <2>4, <2>5
<1>. QED
  BY <1>3, <1>4

LEMMA NewVaries ==
  ASSUME NEW P, NEW A, NEW M, NEW n, NEW nd, NEW Q, NEW B, NEW N,
         Extended(P, A, M, n, nd, Q, B, N), Sound(P, A, M, n)
  PROVE  Varies(Q, B, N, n + 1)
<1>. DEFINE on == N[n + 1].on
            first == OnAt(M, nd.args[1])
            inputs == InputsOf(P, A, nd)
            ph == B[n + 1].ph
<1>1. /\ Sane(P, A, M, n) /\ n \in Nat /\ Formed(P, A, M, n, nd)
      /\ Operands(nd) \subseteq 1..n
  BY ExtendedFacts
<1>2. /\ on = OnIn(P, A, M, nd, n + 1)
      /\ IsCoordinate(nd) => on = {n + 1}
      /\ ~IsCoordinate(nd) => on \subseteq DOMAIN P
      /\ \A d \in DOMAIN P : Q[d] = P[d]
      /\ Q[n + 1].op = nd.op
  BY NewOn
<1>3. ph = PhaseOf(A, nd)
  BY DEF Extended
<1>. HIDE DEF on
<1>. SUFFICES ASSUME NEW d \in on
              PROVE  \/ Q[d].op = "external"
                     \/ Q[d].op = "elementof" /\ ph # "fixed"
                     \/ ph = "stochastic"
  BY DEF Varies, on
<1>4. CASE IsCoordinate(nd)
  BY <1>2, <1>3, <1>4 DEF IsCoordinate, PhaseOf
<1>5. ASSUME ~IsCoordinate(nd)
      PROVE  Q[d] = P[d] /\ d \in DOMAIN P /\ IsCoordinate(P[d])
  <2>1. d \in DOMAIN P
    BY <1>2, <1>5
  <2>2. on \subseteq {c \in 1..n : IsCoordinate(P[c])}
    BY <1>1, <1>2, <1>5, OnWithin
  <2>. QED
    BY <1>2, <2>1, <2>2
<1>6. CASE nd.op = "lawof"
  <2>1. d \in Up(P, M, first, {}) /\ P[d].op # "draw"
    BY <1>2, <1>6 DEF OnIn, IsCoordinate
  <2>2. 1 \in DOMAIN nd.args /\ ~KeywordIn(P, nd.args[1])
    BY <1>1, <1>6 DEF Formed
  <2>3. P[d].op = "elementof" => Of(A, nd.args[1]).law # "fixed"
    BY <1>1, <2>1, <2>2, OperandSound
  <2>4. ph = Of(A, nd.args[1]).law
    BY <1>3, <1>6 DEF PhaseOf
  <2>. QED
    BY <1>5, <1>6, <2>1, <2>3, <2>4 DEF IsCoordinate
<1>7. CASE nd.op = "kernelof"
  <2>1. d \in Up(P, M, first, inputs) /\ P[d].op # "draw" /\ d \notin inputs
    BY <1>2, <1>7 DEF OnIn, IsCoordinate
  <2>2. nd.op \in Reifying
    BY <1>7 DEF Reifying
  <2>3. P[d].op # "elementof"
    BY <1>1, <2>1, <2>2, NothingUnbound
  <2>. QED
    BY <1>5, <1>7, <2>1, <2>3 DEF IsCoordinate
<1>8. CASE nd.op = "functionof"
  <2>1. d \in first /\ d \notin inputs
    BY <1>2, <1>8 DEF OnIn, IsCoordinate
  <2>2. nd.op \in Reifying /\ 1 \in DOMAIN nd.args
    BY <1>1, <1>8 DEF Reifying, Formed
  <2>3. d \in Up(P, M, first, inputs)
    <3>1. first \subseteq 1..n
      BY <1>1, <2>2, ArgumentOn
    <3>. HIDE DEF first, inputs
    <3>2. first \subseteq Up(P, M, first, inputs)
      BY <1>1, <3>1, UpFacts
    <3>. QED
      BY <2>1, <3>2
  <2>4. P[d].op # "elementof"
    BY <1>1, <2>1, <2>2, <2>3, NothingUnbound
  <2>5. P[d].op # "draw"
    <3>1. \A c \in inputs \cap DOMAIN P : IsCoordinate(P[c])
      BY <1>1, <2>2 DEF Formed, Cuts
    <3>2. CapturedDraws(P, A, nd.args[1], inputs) = {}
      BY <1>1, <1>8 DEF Formed
    <3>3. \A cut : (\A c \in cut \cap DOMAIN P : IsCoordinate(P[c])) =>
            \A c \in first \ cut :
              P[c].op = "draw" => c \in CapturedDraws(P, A, nd.args[1], cut)
      BY <1>1, <2>2, OperandSound
    <3>. HIDE DEF first, inputs
    <3>. QED
      BY <2>1, <3>1, <3>2, <3>3
  <2>. QED
    BY <1>5, <1>8, <2>4, <2>5 DEF IsCoordinate
<1>9. CASE ~IsCoordinate(nd) /\ nd.op \notin {"lawof"} \cup Reifying
  <2>1. on = UNION {OnAt(M, nd.args[j]) : j \in DOMAIN nd.args}
    BY <1>2, <1>9 DEF OnIn, IsCoordinate, Reifying
  <2>2. PICK j \in DOMAIN nd.args : d \in OnAt(M, nd.args[j])
    BY <2>1
  <2>3. \/ P[d].op = "external"
        \/ P[d].op = "elementof" /\ Of(A, nd.args[j]).ph # "fixed"
        \/ Of(A, nd.args[j]).ph = "stochastic"
    BY <1>1, <2>2, OperandSound
  <2>. DEFINE phases == {Of(A, nd.args[k]).ph : k \in DOMAIN nd.args}
  <2>4. ph = JoinPhase(phases)
    BY <1>3, <1>9 DEF PhaseOf, Joined, IsCoordinate, Reifying
  <2>5. phases \subseteq Phases
    BY <1>1, ArgumentPhases
  <2>6. Of(A, nd.args[j]).ph \in phases
    OBVIOUS
  <2>. HIDE DEF phases
  <2>7. /\ JoinPhase(phases) = "fixed" <=> \A p \in phases : p = "fixed"
        /\ "stochastic" \in phases => JoinPhase(phases) = "stochastic"
    BY <2>5, JoinedPhases
  <2>. QED
    BY <1>5, <1>9, <2>3, <2>4, <2>6, <2>7
<1>. QED
  BY <1>4, <1>6, <1>7, <1>8, <1>9 DEF Reifying

(* A literal has nothing upstream.                                         *)
LEMMA UpstreamOperand ==
  ASSUME NEW P, NEW A, NEW M, NEW n, Sane(P, A, M, n), NEW o, NEW cut,
         NEW d \in Up(P, M, OnAt(M, o), cut)
  PROVE  o.node # 0
<1>1. OnAt(M, o) = {} => Up(P, M, OnAt(M, o), cut) = {}
  BY UpStill
<1>. QED
  BY <1>1 DEF OnAt

LEMMA NewLaw ==
  ASSUME NEW P, NEW A, NEW M, NEW n, NEW nd, NEW Q, NEW B, NEW N,
         Extended(P, A, M, n, nd, Q, B, N), Sound(P, A, M, n)
  PROVE  LawVaries(Q, B, N, n + 1)
<1>. DEFINE on == N[n + 1].on
            new == Ref(n + 1)
            law == B[n + 1].law
<1>1. /\ Sane(P, A, M, n) /\ n \in Nat /\ Sane(Q, B, N, n + 1) /\ Formed(P, A, M, n, nd)
      /\ Operands(nd) \subseteq 1..n /\ n + 1 \in 1..(n + 1) /\ DOMAIN Q = 1..(n + 1)
  BY ExtendedFacts
<1>2. /\ IsCoordinate(nd) => on = {n + 1}
      /\ on \subseteq DOMAIN Q
      /\ \A d \in DOMAIN Q : d # n + 1 => d \in DOMAIN P
      /\ \A d \in DOMAIN P : Q[d] = P[d]
      /\ Q[n + 1].op = nd.op
  BY NewOn
<1>3. law = LawPhase(A, nd) /\ Q[n + 1].named = nd.named
  BY DEF Extended
<1>. SUFFICES ASSUME ~KeywordIn(Q, new), NEW d \in Up(Q, N, on, {}), Q[d].op = "elementof"
              PROVE  law # "fixed"
  BY DEF LawVaries
<1>4. ~nd.named
  BY <1>1, <1>3, FoundItself
<1>5. CASE nd.op \in {"elementof", "call"}
  BY <1>3, <1>5 DEF LawPhase
<1>6. CASE nd.op = "external"
  <2>1. on = {n + 1}
    BY <1>2, <1>6 DEF IsCoordinate
  <2>2. \A c \in on : Q[c].op # "draw"
    BY <1>2, <1>6, <2>1
  <2>. HIDE DEF on
  <2>4. Up(Q, N, on, {}) = on
    BY <1>1, <1>2, <2>2, UpStill
  <2>. QED
    BY <1>2, <1>6, <2>1, <2>4
<1>7. CASE nd.op \notin {"elementof", "call", "external"}
  <2>. DEFINE laws == {Of(A, nd.args[k]).law : k \in DOMAIN nd.args}
  <2>1. law = JoinPhase(laws)
    BY <1>3, <1>4, <1>7 DEF LawPhase
  <2>2. laws \subseteq Phases
    BY <1>1, ArgumentPhases
  <2>3. d # n + 1
    BY <1>2, <1>7
  <2>4. d \in 1..n /\ \E j \in DOMAIN nd.args : d \in Up(P, M, OnAt(M, nd.args[j]), {})
    <3>. DEFINE cut == {}
    <3>1. nd.op = "kernelof" => cut = {}
      OBVIOUS
    <3>2. nd.op = "lawof" => \A c \in cut \cap DOMAIN P : P[c].op # "draw"
      OBVIOUS
    <3>3. d \in Up(Q, N, N[n + 1].on, cut)
      OBVIOUS
    <3>. HIDE DEF cut
    <3>4. d \in 1..n /\ \E j \in DOMAIN nd.args : d \in Up(P, M, OnAt(M, nd.args[j]), cut)
      BY <2>3, <3>1, <3>2, <3>3, NewUpstream
    <3>. QED
      BY <3>4 DEF cut
  <2>5. PICK j \in DOMAIN nd.args : d \in Up(P, M, OnAt(M, nd.args[j]), {})
    BY <2>4
  <2>6. nd.args[j].node # 0
    BY <1>1, <2>5, UpstreamOperand
  <2>7. ~KeywordIn(P, nd.args[j])
    BY <2>6, OperandFound
  <2>8. P[d].op = "elementof"
    BY <1>1, <1>2, <2>4 DEF Sane
  <2>9. Of(A, nd.args[j]).law # "fixed"
    BY <1>1, <2>5, <2>7, <2>8, OperandSound
  <2>10. Of(A, nd.args[j]).law \in laws
    OBVIOUS
  <2>. HIDE DEF laws
  <2>11. JoinPhase(laws) = "fixed" <=> \A p \in laws : p = "fixed"
    BY <2>2, JoinedPhases
  <2>. QED
    BY <2>1, <2>9, <2>10, <2>11
<1>. QED
  BY <1>5, <1>6, <1>7

(* A node that is cut has nothing else upstream.                           *)
LEMMA CutItself ==
  ASSUME NEW P, NEW A, NEW M, NEW n, NEW nd, NEW Q, NEW B, NEW N,
         Extended(P, A, M, n, nd, Q, B, N), NEW cut, n + 1 \in cut,
         \A c \in cut \cap DOMAIN Q : IsCoordinate(Q[c])
  PROVE  N[n + 1].on \subseteq cut /\ Up(Q, N, N[n + 1].on, cut) \subseteq cut
<1>. DEFINE on == N[n + 1].on
<1>1. Sane(Q, B, N, n + 1) /\ DOMAIN Q = 1..(n + 1)
  BY ExtendedFacts
<1>2. /\ IsCoordinate(nd) => on = {n + 1}
      /\ on \subseteq DOMAIN Q /\ n + 1 \in DOMAIN Q
      /\ IsCoordinate(Q[n + 1]) <=> IsCoordinate(nd)
  BY NewOn
<1>3. on = {n + 1}
  BY <1>2
<1>4. FeedsIn(Q, N, cut)[n + 1] = {}
  BY <1>2 DEF FeedsIn
<1>. DEFINE m == n + 1
<1>5. Sane(Q, B, N, m) /\ on \subseteq 1..m
  BY <1>1, <1>2
<1>. HIDE DEF on, m
<1>6. Closed(FeedsIn(Q, N, cut), on \cap 1..m)
  BY <1>3, <1>4 DEF Closed
<1>7. Up(Q, N, on, cut) \subseteq on
  BY <1>5, <1>6, UpFacts
<1>. QED
  BY <1>3, <1>7 DEF on

LEMMA NewParameters ==
  ASSUME NEW P, NEW A, NEW M, NEW n, NEW nd, NEW Q, NEW B, NEW N,
         Extended(P, A, M, n, nd, Q, B, N), Sound(P, A, M, n)
  PROVE  ParametersFound(Q, B, N, n + 1)
<1>. DEFINE on == N[n + 1].on
            new == Ref(n + 1)
<1>1. /\ Sane(P, A, M, n) /\ n \in Nat /\ Sane(Q, B, N, n + 1) /\ Formed(P, A, M, n, nd)
      /\ Operands(nd) \subseteq 1..n /\ n + 1 \in 1..(n + 1) /\ DOMAIN Q = 1..(n + 1)
  BY ExtendedFacts
<1>2. /\ on \subseteq DOMAIN Q
      /\ \A d \in DOMAIN P : d \in DOMAIN Q /\ Q[d] = P[d]
      /\ Q[n + 1].op = nd.op
  BY NewOn
<1>3. B[n + 1].ph = PhaseOf(A, nd)
  BY DEF Extended
<1>. SUFFICES ASSUME NEW cut, Cuts(Q, cut, new),
                     NEW d \in Up(Q, N, on, cut) \ cut, Q[d].op = "elementof"
              PROVE  d \in Parameters(Q, B, new, cut)
  BY DEF ParametersFound
<1>4. n + 1 \notin cut
  <2>1. \A c \in cut \cap DOMAIN Q : IsCoordinate(Q[c])
    BY DEF Cuts
  <2>. QED
    BY <2>1, CutItself
<1>5. B[n + 1].ph # "fixed"
  <2>. SUFFICES ASSUME B[n + 1].ph = "fixed" PROVE FALSE
    OBVIOUS
  <2>1. \A c \in on : Q[c].op = "external"
    BY NewVaries DEF Varies
  <2>2. on \subseteq DOMAIN Q /\ \A c \in on : Q[c].op # "draw"
    BY <1>2, <2>1
  <2>. HIDE DEF on
  <2>3. Up(Q, N, on, cut) = on
    BY <1>1, <2>2, UpStill
  <2>. QED
    BY <2>1, <2>3
<1>6. CASE d = n + 1
  BY <1>1, <1>4, <1>5, <1>6, FoundItself
<1>7. CASE d # n + 1
  <2>1. nd.op # "kernelof"
    BY <1>3, <1>5 DEF PhaseOf
  <2>2. nd.op = "lawof" => \A c \in cut \cap DOMAIN P : P[c].op # "draw"
    <3>1. nd.op = "lawof" => LawsIn(Q, new)
      BY <1>1, <1>2, FoundItself
    <3>. QED
      BY <1>2, <3>1 DEF Cuts
  <2>3. d \in 1..n /\ \E j \in DOMAIN nd.args : d \in Up(P, M, OnAt(M, nd.args[j]), cut)
    BY <1>7, <2>1, <2>2, NewUpstream
  <2>4. PICK j \in DOMAIN nd.args : d \in Up(P, M, OnAt(M, nd.args[j]), cut)
    BY <2>3
  <2>5. nd.args[j].node # 0
    BY <1>1, <2>4, UpstreamOperand
  <2>6. /\ LawsIn(P, nd.args[j]) => LawsIn(Q, new)
        /\ n + 1 \notin cut /\ B[n + 1].ph # "fixed" =>
             Parameters(P, A, nd.args[j], cut) \subseteq Parameters(Q, B, new, cut)
    BY <2>5, OperandFound
  <2>7. Cuts(P, cut, nd.args[j])
    BY <1>2, <2>6 DEF Cuts
  <2>8. P[d].op = "elementof"
    BY <1>1, <1>2, <2>3 DEF Sane
  <2>9. d \in Parameters(P, A, nd.args[j], cut)
    BY <1>1, <2>4, <2>7, <2>8, OperandSound
  <2>. QED
    BY <1>4, <1>5, <2>6, <2>9
<1>. QED
  BY <1>6, <1>7

LEMMA NewDraws ==
  ASSUME NEW P, NEW A, NEW M, NEW n, NEW nd, NEW Q, NEW B, NEW N,
         Extended(P, A, M, n, nd, Q, B, N), Sound(P, A, M, n)
  PROVE  DrawsFound(Q, B, N, n + 1)
<1>. DEFINE on == N[n + 1].on
            new == Ref(n + 1)
<1>1. /\ Sane(P, A, M, n) /\ n \in Nat /\ Sane(Q, B, N, n + 1) /\ Formed(P, A, M, n, nd)
      /\ Operands(nd) \subseteq 1..n /\ n + 1 \in 1..(n + 1)
  BY ExtendedFacts
<1>2. /\ on = OnIn(P, A, M, nd, n + 1)
      /\ IsCoordinate(nd) => on = {n + 1}
      /\ ~IsCoordinate(nd) => on \subseteq DOMAIN P
      /\ \A d \in DOMAIN P : d \in DOMAIN Q /\ Q[d] = P[d]
      /\ Q[n + 1].op = nd.op
  BY NewOn
<1>3. B[n + 1].ph = PhaseOf(A, nd)
  BY DEF Extended
<1>. SUFFICES ASSUME NEW cut, \A c \in cut \cap DOMAIN Q : IsCoordinate(Q[c]),
                     NEW d \in on \ cut, Q[d].op = "draw"
              PROVE  d \in CapturedDraws(Q, B, new, cut)
  BY DEF DrawsFound
<1>4. n + 1 \notin cut
  BY CutItself
<1>5. B[n + 1].ph = "stochastic"
  BY NewVaries DEF Varies
<1>6. CASE IsCoordinate(nd)
  <2>1. d = n + 1
    BY <1>2, <1>6
  <2>. QED
    BY <1>1, <1>4, <1>5, <2>1, FoundItself
<1>7. CASE ~IsCoordinate(nd)
  <2>1. d \in DOMAIN P /\ P[d].op = "draw"
    BY <1>2, <1>7
  <2>2. nd.op \notin Reifying
    BY <1>3, <1>5 DEF PhaseOf, Reifying
  <2>3. nd.op # "lawof"
    <3>1. nd.op = "lawof" => \A c \in on : P[c].op # "draw"
      BY <1>2 DEF OnIn, IsCoordinate
    <3>. QED
      BY <2>1, <3>1
  <2>4. on = UNION {OnAt(M, nd.args[j]) : j \in DOMAIN nd.args}
    BY <1>2, <1>7, <2>2, <2>3 DEF OnIn, IsCoordinate, Reifying
  <2>5. PICK j \in DOMAIN nd.args : d \in OnAt(M, nd.args[j])
    BY <2>4
  <2>6. nd.args[j].node # 0
    BY <2>5 DEF OnAt
  <2>7. nd.op # "draw"
    BY <1>7 DEF IsCoordinate
  <2>8. n + 1 \notin cut /\ B[n + 1].ph = "stochastic" /\ nd.op # "draw" =>
          CapturedDraws(P, A, nd.args[j], cut) \subseteq CapturedDraws(Q, B, new, cut)
    BY <2>6, OperandFound
  <2>9. \A c \in cut \cap DOMAIN P : IsCoordinate(P[c])
    BY <1>2
  <2>10. d \in CapturedDraws(P, A, nd.args[j], cut)
    BY <1>1, <2>1, <2>5, <2>9, OperandSound
  <2>. QED
    BY <1>4, <1>5, <2>7, <2>8, <2>10
<1>. QED
  BY <1>6, <1>7

LEMMA StepSound ==
  ASSUME NEW P, NEW A, NEW M, NEW n, NEW nd, NEW Q, NEW B, NEW N,
         Extended(P, A, M, n, nd, Q, B, N), Sound(P, A, M, n)
  PROVE  Sound(Q, B, N, n + 1)
<1>1. Sane(Q, B, N, n + 1) /\ n \in Nat
  BY ExtendedFacts
<1>2. \A i \in 1..n : /\ Varies(Q, B, N, i) /\ LawVaries(Q, B, N, i)
                      /\ ParametersFound(Q, B, N, i) /\ DrawsFound(Q, B, N, i)
  BY EarlierSound
<1>3. /\ Varies(Q, B, N, n + 1) /\ LawVaries(Q, B, N, n + 1)
      /\ ParametersFound(Q, B, N, n + 1) /\ DrawsFound(Q, B, N, n + 1)
  BY NewVaries, NewLaw, NewParameters, NewDraws
<1>4. \A i \in 1..(n + 1) : i \in 1..n \/ i = n + 1
  BY <1>1
<1>. QED
  BY <1>1, <1>2, <1>3, <1>4 DEF Sound

-----------------------------------------------------------------------------
(* States.                                                                 *)

IsSequence(s) == \E S : s \in Seq(S)
StateSound ==
  /\ IsSequence(prog) /\ IsSequence(ann) /\ IsSequence(meaning)
  /\ Len(ann) = Len(prog) /\ Len(meaning) = Len(prog)
  /\ Sound(prog, ann, meaning, Len(prog))

LEMMA Appended ==
  ASSUME NEW s, IsSequence(s), NEW e
  PROVE  /\ IsSequence(Append(s, e)) /\ Len(Append(s, e)) = Len(s) + 1
         /\ Grown(s, Append(s, e), Len(s)) /\ Append(s, e)[Len(s) + 1] = e
<1>1. PICK S : s \in Seq(S)
  BY DEF IsSequence
<1>. DEFINE T == S \cup {e}
<1>2. s \in Seq(T) /\ e \in T
  BY <1>1
<1>. HIDE DEF T
<1>3. Append(s, e) \in Seq(T)
  BY <1>2
<1>4. /\ Len(s) \in Nat /\ Len(Append(s, e)) = Len(s) + 1
      /\ DOMAIN Append(s, e) = 1..(Len(s) + 1)
      /\ \A i \in 1..Len(s) : Append(s, e)[i] = s[i]
      /\ Append(s, e)[Len(s) + 1] = e
  BY <1>2
<1>. QED
  BY <1>3, <1>4 DEF IsSequence, Grown

LEMMA OnOfIs ==
  ASSUME NEW nd, NEW i
  PROVE  OnOf(nd, i) = OnIn(prog, ann, meaning, nd, i)
<1>1. \A o : MeaningOf(o).on = OnAt(meaning, o)
  BY DEF MeaningOf, Meaning, OnAt, IsLiteral
<1>2. \A cut : Feeds(cut) = FeedsIn(prog, meaning, cut)
  BY <1>1 DEF Feeds, FeedsIn
<1>3. \A on, cut : Upstream(on, cut) = Up(prog, meaning, on, cut)
  BY <1>2 DEF Upstream, Up
<1>4. \A on, cut : Upstream(on, cut) \ DrawsAmong(Upstream(on, cut))
                     = {d \in Up(prog, meaning, on, cut) : prog[d].op # "draw"}
  BY <1>3 DEF DrawsAmong
<1>. QED
  BY <1>1, <1>4 DEF OnOf, OnIn, IsCoordinate

(* What is not reported and legal is formed.                               *)
LEMMA DefinedFormed ==
  ASSUME StateSound, NEW nd, Written(nd), Legal(nd), Annotate(prog, ann, nd).ty # Failed
  PROVE  Formed(prog, ann, meaning, Len(prog), nd)
<1>. DEFINE n == Len(prog)
            o == nd.args[1]
            inputs == InputsOf(prog, ann, nd)
<1>1. n \in Nat /\ DOMAIN prog = 1..n
  BY DEF StateSound, Sound, Sane
<1>2. nd.args \in Seq([node : 0..n, value : Int, whole : BOOLEAN])
  BY DEF Written
<1>3. Operands(nd) \subseteq 1..n
  <2>. DEFINE R == [node : 0..n, value : Int, whole : BOOLEAN]
  <2>a. \A x \in R : x.node \in 0..n
    OBVIOUS
  <2>b. nd.args \in Seq(R)
    BY <1>2
  <2>. HIDE DEF R
  <2>c. \A j \in DOMAIN nd.args : nd.args[j] \in R
    BY <2>b
  <2>1. \A j \in DOMAIN nd.args : nd.args[j].node \in 0..n
    BY <2>a, <2>c
  <2>2. \A x \in Range(nd.args) : x.node \in 0..n
    BY <2>1 DEF Range
  <2>. QED
    BY <1>1, <2>2 DEF Operands
<1>4. nd.op \in Reifying \cup {"draw", "lawof"} => DOMAIN nd.args = {1}
  <2>1. nd.op \in Reifying \cup {"draw", "lawof"} => Len(nd.args) = 1
    BY DEF Written, Reifying
  <2>2. Len(nd.args) = 1 => DOMAIN nd.args = {1}
    BY <1>2
  <2>. QED
    BY <2>1, <2>2
<1>5. nd.op = "lawof" => ~KeywordIn(prog, o)
  BY DEF Legal, LegalMeasure, Keyword, KeywordIn
<1>6. ASSUME nd.op \in Reifying
      PROVE  /\ o.node # 0
             /\ DrawsAmong(nd.inputs) # {} => ~LawsIn(prog, o)
             /\ ~Refused(prog, ann, nd)
  <2>1. LegalCallable(nd)
    BY <1>6 DEF Legal, Reifying
  <2>2. ~IsLiteral(o) /\ (DrawsAmong(nd.inputs) # {} => ~Laws(o))
    BY <1>6, <2>1 DEF LegalCallable, Reifying
  <2>3. TypeOf(prog, ann, nd) = ReificationType(prog, ann, nd)
    <3>1. CASE nd.op = "functionof"
      BY <3>1 DEF TypeOf
    <3>2. CASE nd.op = "kernelof"
      BY <3>2 DEF TypeOf
    <3>. QED
      BY <1>6, <3>1, <3>2 DEF Reifying
  <2>4. TypeOf(prog, ann, nd) # Failed
    BY DEF Annotate, Annotation
  <2>5. ~Refused(prog, ann, nd)
    BY <2>3, <2>4 DEF ReificationType
  <2>. QED
    BY <2>2, <2>5 DEF IsLiteral, Laws, LawsIn
<1>7. ASSUME nd.op \in Reifying
      PROVE  Cuts(prog, inputs, o)
  <2>1. CASE nd.auto
    <3>1. inputs = Parameters(prog, ann, o, {})
      BY <2>1 DEF InputsOf
    <3>2. \A c \in inputs : prog[c].op = "elementof"
      BY <3>1 DEF Parameters
    <3>. QED
      BY <3>2 DEF Cuts, IsCoordinate
  <2>2. CASE ~nd.auto
    <3>1. inputs = nd.inputs
      BY <2>2 DEF InputsOf
    <3>2. \A c \in inputs : prog[c].op \in {"elementof", "draw"}
      BY <3>1 DEF Written, Boundaries
    <3>3. (\E c \in inputs : prog[c].op = "draw") => ~LawsIn(prog, o)
      BY <1>6, <1>7, <3>1 DEF DrawsAmong
    <3>. QED
      BY <3>2, <3>3 DEF Cuts, IsCoordinate
  <2>. QED
    BY <2>1, <2>2
<1>8. ASSUME nd.op \in Reifying
      PROVE  /\ ~nd.auto => Parameters(prog, ann, o, inputs) = {}
             /\ nd.op = "functionof" => CapturedDraws(prog, ann, o, inputs) = {}
  BY <1>6, <1>8 DEF Refused, Unbound, Captures
<1>. QED
  BY <1>3, <1>4, <1>5, <1>6, <1>7, <1>8 DEF Formed, Reifying

LEMMA DefinedExtends ==
  ASSUME StateSound, NEW nd, Defined(nd)
  PROVE  Extended(prog, ann, meaning, Len(prog), nd, prog', ann', meaning')
<1>. DEFINE n == Len(prog)
<1>1. /\ Sane(prog, ann, meaning, n) /\ Len(ann) = n /\ Len(meaning) = n
      /\ IsSequence(prog) /\ IsSequence(ann) /\ IsSequence(meaning)
  BY DEF StateSound, Sound
<1>2. /\ Written(nd) /\ Legal(nd) /\ Annotate(prog, ann, nd).ty # Failed
      /\ prog' = Append(prog, Settled(nd)) /\ ann' = Append(ann, Annotate(prog, ann, nd))
      /\ meaning' = Append(meaning, MeaningOfNode(nd, n + 1))
  BY DEF Defined, Define
<1>3. Formed(prog, ann, meaning, n, nd)
  BY <1>2, DefinedFormed
<1>4. /\ Grown(prog, prog', n) /\ prog'[n + 1] = Settled(nd)
      /\ Grown(ann, ann', n) /\ ann'[n + 1] = Annotate(prog, ann, nd)
      /\ Grown(meaning, meaning', n) /\ meaning'[n + 1] = MeaningOfNode(nd, n + 1)
  BY <1>1, <1>2, Appended
<1>5. Settled(nd).op = nd.op /\ Settled(nd).args = nd.args /\ Settled(nd).named = nd.named
  <2>1. {"op", "args", "named"} \subseteq DOMAIN nd
    BY <1>2 DEF Written, Node
  <2>. QED
    BY <2>1 DEF Settled
<1>6. /\ Annotate(prog, ann, nd).ph = PhaseOf(ann, nd)
      /\ Annotate(prog, ann, nd).law = LawPhase(ann, nd)
  BY DEF Annotate, Annotation
<1>7. MeaningOfNode(nd, n + 1).on = OnIn(prog, ann, meaning, nd, n + 1)
  BY OnOfIs DEF MeaningOfNode, Meaning
<1>. QED
  BY <1>1, <1>3, <1>4, <1>5, <1>6, <1>7 DEF Extended

(* What a state may be.                                                    *)
LEMMA StateSoundHolds == Spec => []StateSound
<1>1. Init => StateSound
  <2>. SUFFICES ASSUME Init PROVE StateSound
    OBVIOUS
  <2>1. prog = <<>> /\ ann = <<>> /\ meaning = <<>>
    BY DEF Init
  <2>2. <<>> \in Seq({}) /\ Len(<<>>) = 0 /\ DOMAIN <<>> = 1..0 /\ 1..0 = {}
    OBVIOUS
  <2>3. IsSequence(<<>>)
    BY <2>2 DEF IsSequence
  <2>4. Sane(<<>>, <<>>, <<>>, 0)
    BY <2>2 DEF Sane
  <2>5. Sound(<<>>, <<>>, <<>>, 0)
    BY <2>2, <2>4 DEF Sound
  <2>. QED
    BY <2>1, <2>2, <2>3, <2>5 DEF StateSound
<1>2. StateSound /\ [Next]_vars => StateSound'
  <2>. SUFFICES ASSUME StateSound, [Next]_vars PROVE StateSound'
    OBVIOUS
  <2>1. CASE Next
    <3>1. PICK nd : Defined(nd)
      BY <2>1 DEF Next
    <3>2. Extended(prog, ann, meaning, Len(prog), nd, prog', ann', meaning')
      BY <3>1, DefinedExtends
    <3>3. Sound(prog, ann, meaning, Len(prog))
      BY DEF StateSound
    <3>4. Sound(prog', ann', meaning', Len(prog) + 1)
      BY <3>2, <3>3, StepSound
    <3>5. /\ prog' = Append(prog, Settled(nd))
          /\ ann' = Append(ann, Annotate(prog, ann, nd))
          /\ meaning' = Append(meaning, MeaningOfNode(nd, Len(prog) + 1))
      BY <3>1 DEF Defined, Define
    <3>6. /\ IsSequence(prog') /\ Len(prog') = Len(prog) + 1
          /\ IsSequence(ann') /\ Len(ann') = Len(ann) + 1
          /\ IsSequence(meaning') /\ Len(meaning') = Len(meaning) + 1
      BY <3>5, Appended DEF StateSound
    <3>. QED
      BY <3>4, <3>6 DEF StateSound
  <2>2. CASE UNCHANGED vars
    BY <2>2 DEF vars, StateSound
  <2>. QED
    BY <2>1, <2>2
<1>. QED
  BY <1>1, <1>2, PTL DEF Spec

(* The phases of every node of every program are right: what is fixed      *)
(* varies with no parameter and no draw, what is parametric with no draw,  *)
(* and a callable with nothing that is not an input (join_phase,           *)
(* law_phase, captured_draws, unbound_parameter).                          *)
THEOREM PhasesAreSound == Spec => []PhaseSound
<1>1. StateSound => PhaseSound
  <2>. SUFFICES ASSUME StateSound, prog # <<>>
                PROVE  \A d \in Varying :
                         \/ prog[d].op = "external"
                         \/ prog[d].op = "elementof" /\ ann[Newest].ph # "fixed"
                         \/ ann[Newest].ph = "stochastic"
    BY DEF PhaseSound
  <2>1. Len(prog) \in Nat /\ Len(prog) # 0
    BY DEF StateSound, IsSequence
  <2>2. Newest \in 1..Len(prog)
    BY <2>1 DEF Newest
  <2>3. Varies(prog, ann, meaning, Newest)
    BY <2>2 DEF StateSound, Sound
  <2>4. Varying \subseteq meaning[Newest].on
    BY DEF Varying
  <2>. QED
    BY <2>3, <2>4 DEF Varies
<1>. QED
  BY <1>1, StateSoundHolds, PTL
-----------------------------------------------------------------------------
(* The order, joins and meets of value sets.  The sets are those of the    *)
(* model: scalar sets, powers and products of them, the simplex.           *)

ScalarForms ==
  [kind : NamedKinds]
  \cup [kind : {"interval"}, lo : (-Infinite)..Infinite, hi : (-Infinite)..Infinite]
ValueSetForms ==
  ScalarForms \cup {Unknown, Anything} \cup [kind : {"power"}, of : ScalarForms, n : Nat]
  \cup [kind : {"simplex"}, n : {2}] \cup [kind : {"product", "fields"}, parts : Seq(ScalarForms)]

LEMMA ScalarShapes ==
  ASSUME NEW s \in ScalarForms
  PROVE  /\ s.kind \in NamedKinds \/ s.kind = "interval"
         /\ s.kind = "interval" => s = Interval(s.lo, s.hi)
         /\ s.kind = "interval" => s.lo \in Int /\ s.hi \in Int
         /\ s.kind = "interval" => -Infinite <= s.lo /\ s.hi <= Infinite
         /\ s.kind = "interval" => s.lo <= Infinite /\ -Infinite <= s.hi
<1>1. CASE s \in [kind : NamedKinds]
  BY <1>1 DEF NamedKinds
<1>2. CASE s \in [kind : {"interval"}, lo : (-Infinite)..Infinite, hi : (-Infinite)..Infinite]
  <2>1. /\ s.kind = "interval"
        /\ s.lo \in (-Infinite)..Infinite
        /\ s.hi \in (-Infinite)..Infinite
    BY <1>2
  <2>2. s = Interval(s.lo, s.hi)
    BY <1>2 DEF Interval
  <2>3. \A x \in (-Infinite)..Infinite : x \in Int /\ -Infinite <= x /\ x <= Infinite
    BY DEF Infinite
  <2>. QED
    BY <2>1, <2>2, <2>3, Zenon
<1>. QED
  BY <1>1, <1>2 DEF ScalarForms

LEMMA SetShapes ==
  ASSUME NEW s \in ValueSetForms
  PROVE  /\ \/ s.kind \in NamedKinds
            \/ s.kind \in {"interval", "unknown", "anything", "power", "simplex", "product", "fields"}
         /\ IsScalar(s) => s \in ScalarForms
         /\ s.kind = "unknown" => s = Unknown
         /\ s.kind = "power" => s.of \in ScalarForms /\ s.n \in Nat /\ s = Power(s.of, s.n)
         /\ s.kind = "simplex" => s.n = 2
         /\ s.kind \in {"product", "fields"} => s.parts \in Seq(ScalarForms)
<1>1. CASE s \in ScalarForms
  BY <1>1, ScalarShapes DEF NamedKinds
<1>2. CASE s \in {Unknown, Anything}
  BY <1>2 DEF Unknown, Anything, Named, IsScalar, NamedKinds
<1>3. CASE s \in [kind : {"power"}, of : ScalarForms, n : Nat]
  BY <1>3 DEF IsScalar, NamedKinds, Power
<1>4. CASE s \in [kind : {"simplex"}, n : {2}]
  BY <1>4 DEF IsScalar, NamedKinds
<1>5. CASE s \in [kind : {"product", "fields"}, parts : Seq(ScalarForms)]
  <2>1. s.kind \in {"product", "fields"} /\ s.parts \in Seq(ScalarForms)
    BY <1>5
  <2>. QED
    BY <2>1 DEF IsScalar, NamedKinds
<1>. QED
  BY <1>1, <1>2, <1>3, <1>4, <1>5 DEF ValueSetForms

LEMMA PartsRecord ==
  ASSUME NEW s \in ValueSetForms, s.kind \in {"product", "fields"}
  PROVE  s = [kind |-> s.kind, parts |-> s.parts]
<1>1. s \notin ScalarForms
  BY ScalarShapes DEF NamedKinds
<1>2. s \notin {Unknown, Anything}
  BY DEF Unknown, Anything, Named
<1>3. s \notin [kind : {"power"}, of : ScalarForms, n : Nat] \cup [kind : {"simplex"}, n : {2}]
  OBVIOUS
<1>4. s \in [kind : {"product", "fields"}, parts : Seq(ScalarForms)]
  BY <1>1, <1>2, <1>3 DEF ValueSetForms
<1>. QED
  BY <1>4

LEMMA ScalarBelowSound ==
  ASSUME NEW s \in ScalarForms, NEW t \in ScalarForms, NEW x \in Int,
         ScalarBelow(s, t), InScalar(s, x)
  PROVE  InScalar(t, x)
<1>1. CASE s = t
  BY <1>1
<1>2. CASE s.kind \in NamedKinds /\ t.kind \in Above(s.kind)
  <2>1. CASE s.kind = "posreals"
    BY <1>2, <2>1 DEF Above, InScalar
  <2>2. CASE s.kind = "unitinterval"
    BY <1>2, <2>2 DEF Above, InScalar
  <2>3. CASE s.kind = "nonnegreals"
    BY <1>2, <2>3 DEF Above, InScalar
  <2>4. CASE s.kind = "posintegers"
    BY <1>2, <2>4 DEF Above, InScalar
  <2>5. CASE s.kind = "nonnegintegers"
    BY <1>2, <2>5 DEF Above, InScalar
  <2>6. CASE s.kind = "integers"
    BY <1>2, <2>6 DEF Above, InScalar
  <2>7. CASE s.kind \in {"reals", "booleans"}
    BY <1>2, <2>7 DEF Above
  <2>8. \/ s.kind = "posreals" \/ s.kind = "unitinterval" \/ s.kind = "nonnegreals"
        \/ s.kind = "posintegers" \/ s.kind = "nonnegintegers" \/ s.kind = "integers"
        \/ s.kind \in {"reals", "booleans"}
    BY <1>2 DEF NamedKinds
  <2>. QED
    BY <2>1, <2>2, <2>3, <2>4, <2>5, <2>6, <2>7, <2>8, Zenon
<1>3. CASE s.kind = "interval" /\ IntervalBelow(s, t.kind)
  <2>1. x \in s.lo..s.hi
    BY <1>3 DEF InScalar
  <2>2. s.lo \in Int /\ s.hi \in Int
    BY <1>3, ScalarShapes
  <2>3. x >= s.lo /\ x <= s.hi
    BY <2>1, <2>2
  <2>. QED
    BY <1>3, <2>2, <2>3 DEF IntervalBelow, InScalar, One
<1>. QED
  BY <1>1, <1>2, <1>3 DEF ScalarBelow

LEMMA MemberScalar ==
  ASSUME NEW s, NEW p, IsScalar(s)
  PROVE  Member(s, p) <=> Len(p) = 1 /\ InScalar(s, p[1])
BY DEF Member, IsScalar, NamedKinds

LEMMA TwoNumbers ==
  ASSUME NEW p \in Seq(Int), Len(p) = 2
  PROVE  DOMAIN p = {1, 2} /\ p[1] \in Int /\ p[2] \in Int
OBVIOUS

LEMMA OneNumber ==
  ASSUME NEW p \in Seq(Int), Len(p) = 1
  PROVE  DOMAIN p = {1} /\ p[1] \in Int
OBVIOUS

LEMMA PartsBelowSound ==
  ASSUME NEW S \in Seq(ScalarForms), NEW T \in Seq(ScalarForms), NEW p \in Seq(Int),
         Len(p) = Len(S), Len(S) = Len(T),
         \A i \in DOMAIN S : ScalarBelow(S[i], T[i]),
         \A i \in DOMAIN p : InScalar(S[i], p[i])
  PROVE  \A i \in DOMAIN p : InScalar(T[i], p[i])
<1>. SUFFICES ASSUME NEW i \in DOMAIN p PROVE InScalar(T[i], p[i])
  OBVIOUS
<1>1. i \in DOMAIN S /\ S[i] \in ScalarForms /\ T[i] \in ScalarForms /\ p[i] \in Int
  OBVIOUS
<1>. QED
  BY <1>1, ScalarBelowSound

(* What `subset_of` proves is so: every point of the first set is one of   *)
(* the second, whatever positions the sets are made of.                    *)
THEOREM SubsetIsSound ==
  ASSUME NEW s \in ValueSetForms, NEW t \in ValueSetForms, NEW p \in Seq(Int),
         Below(s, t), Member(s, p)
  PROVE  Member(t, p)
<1>1. CASE s = t
  BY <1>1
<1>2. CASE t.kind = "anything"
  BY <1>2 DEF Member
<1>3. CASE IsScalar(s) /\ IsScalar(t) /\ ScalarBelow(s, t)
  <2>1. s \in ScalarForms /\ t \in ScalarForms
    BY <1>3, SetShapes
  <2>2. Len(p) = 1 /\ InScalar(s, p[1])
    <3>1. IsScalar(s) /\ Member(s, p)
      BY <1>3
    <3>. QED
      BY <3>1, MemberScalar, Zenon
  <2>3. p[1] \in Int
    BY <2>2, OneNumber
  <2>4. InScalar(t, p[1])
    BY <1>3, <2>1, <2>2, <2>3, ScalarBelowSound
  <2>. QED
    BY <1>3, <2>2, <2>4, MemberScalar, Zenon
<1>4. CASE /\ s.kind = "simplex" /\ t.kind = "power"
           /\ s.n = t.n /\ ScalarBelow(Named("unitinterval"), t.of)
  <2>1. t.n = 2 /\ t.of \in ScalarForms /\ Named("unitinterval") \in ScalarForms
    BY <1>4, SetShapes DEF ScalarForms, Named, NamedKinds
  <2>2. Len(p) = 2 /\ p[1] >= 0 /\ p[2] >= 0 /\ p[1] + p[2] = One
    BY <1>4 DEF Member
  <2>3. p[1] \in Int /\ p[2] \in Int /\ DOMAIN p = {1, 2}
    BY <2>2, TwoNumbers
  <2>4. \A i \in DOMAIN p : p[i] \in Int /\ InScalar(Named("unitinterval"), p[i])
    BY <2>2, <2>3 DEF InScalar, Named, One
  <2>5. \A i \in DOMAIN p : InScalar(t.of, p[i])
    BY <1>4, <2>1, <2>4, ScalarBelowSound
  <2>. QED
    BY <1>4, <2>1, <2>2, <2>5 DEF Member
<1>5. CASE s.kind = "power" /\ t.kind = "power" /\ s.n = t.n /\ ScalarBelow(s.of, t.of)
  <2>1. s.of \in ScalarForms /\ t.of \in ScalarForms
    BY <1>5, SetShapes
  <2>2. Len(p) = s.n /\ \A i \in DOMAIN p : p[i] \in Int /\ InScalar(s.of, p[i])
    BY <1>5 DEF Member
  <2>3. \A i \in DOMAIN p : InScalar(t.of, p[i])
    BY <1>5, <2>1, <2>2, ScalarBelowSound
  <2>. QED
    BY <1>5, <2>2, <2>3 DEF Member
<1>6. CASE /\ s.kind = "product" /\ t.kind = "power" /\ t.n = Len(s.parts)
           /\ \A i \in DOMAIN s.parts : ScalarBelow(s.parts[i], t.of)
  <2>1. s.parts \in Seq(ScalarForms) /\ t.of \in ScalarForms
    BY <1>6, SetShapes
  <2>2. Len(p) = Len(s.parts) /\ \A i \in DOMAIN p : InScalar(s.parts[i], p[i])
    BY <1>6 DEF Member
  <2>3. \A i \in DOMAIN p : p[i] \in Int /\ i \in DOMAIN s.parts /\ s.parts[i] \in ScalarForms
    BY <2>1, <2>2
  <2>4. \A i \in DOMAIN p : InScalar(t.of, p[i])
    BY <1>6, <2>1, <2>2, <2>3, ScalarBelowSound
  <2>. QED
    BY <1>6, <2>2, <2>4 DEF Member
<1>7. CASE s.kind = t.kind /\ s.kind \in {"product", "fields"} /\ PartsBelow(s, t)
  <2>1. s.parts \in Seq(ScalarForms) /\ t.parts \in Seq(ScalarForms)
    BY <1>7, SetShapes
  <2>2. Len(p) = Len(s.parts) /\ \A i \in DOMAIN p : InScalar(s.parts[i], p[i])
    BY <1>7 DEF Member
  <2>3. Len(s.parts) = Len(t.parts) /\ \A i \in DOMAIN s.parts : ScalarBelow(s.parts[i], t.parts[i])
    BY <1>7 DEF PartsBelow
  <2>4. \A i \in DOMAIN p : InScalar(t.parts[i], p[i])
    BY <2>1, <2>2, <2>3, PartsBelowSound
  <2>. QED
    BY <1>7, <2>2, <2>3, <2>4 DEF Member
<1>. QED
  BY <1>1, <1>2, <1>3, <1>4, <1>5, <1>6, <1>7 DEF Below

LEMMA UnknownCovers ==
  ASSUME NEW p
  PROVE  Member(Unknown, p)
BY DEF Member, Unknown, Named

LEMMA CandidateSets ==
  ASSUME NEW i \in DOMAIN Candidates
  PROVE  Named(Candidates[i]) \in ValueSetForms
<1>1. Candidates[i] \in NamedKinds
  BY DEF Candidates, NamedKinds
<1>. QED
  BY <1>1 DEF Named, ValueSetForms, ScalarForms

(* The answer of `join_scalar_sets` contains each of the sets it joins, so *)
(* a superposition or a vector has the support of each of its parts.       *)
THEOREM JoinCovers ==
  ASSUME NEW S \in SUBSET ValueSetForms, NEW s \in S, NEW p \in Seq(Int), Member(s, p)
  PROVE  Member(JoinScalarSets(S), p)
<1>. DEFINE above == {i \in DOMAIN Candidates :
                        \A u \in S : Below(u, Named(Candidates[i]))}
<1>1. CASE \E u \in S : S = {u} /\ u # Unknown
  <2>1. PICK u \in S : S = {u} /\ u # Unknown
    BY <1>1
  <2>2. JoinScalarSets(S) = CHOOSE v \in S : TRUE
    BY <1>1 DEF JoinScalarSets
  <2>3. JoinScalarSets(S) = s
    BY <2>1, <2>2
  <2>. QED
    BY <2>3
<1>2. CASE ~ (\E u \in S : S = {u} /\ u # Unknown) /\ above # {}
  <2>. DEFINE first == CHOOSE i \in above : \A j \in above : i <= j
  <2>1. JoinScalarSets(S) = Named(Candidates[first])
    BY <1>2 DEF JoinScalarSets
  <2>2. above \in SUBSET Nat
    BY DEF Candidates
  <2>3. \E i \in above : \A j \in above : i <= j
    BY <1>2, <2>2, LeastNumber
  <2>4. first \in above
    BY <2>3
  <2>5. Below(s, Named(Candidates[first])) /\ first \in DOMAIN Candidates
    BY <2>4
  <2>6. Named(Candidates[first]) \in ValueSetForms
    BY <2>5, CandidateSets
  <2>. QED
    BY <2>1, <2>5, <2>6, SubsetIsSound
<1>3. CASE ~ (\E u \in S : S = {u} /\ u # Unknown) /\ above = {}
  <2>1. JoinScalarSets(S) = Unknown
    BY <1>3 DEF JoinScalarSets
  <2>. QED
    BY <2>1, UnknownCovers
<1>. QED
  BY <1>1, <1>2, <1>3

(* Points within the bounds that stand for the infinities of the code.     *)
Reach == (-Infinite)..Infinite
Points == Seq(Reach)

LEMMA PointShapes ==
  ASSUME NEW p \in Points
  PROVE  /\ p \in Seq(Int)
         /\ \A i \in DOMAIN p : p[i] \in Int /\ -Infinite <= p[i] /\ p[i] <= Infinite
<1>1. \A x \in Reach : x \in Int /\ -Infinite <= x /\ x <= Infinite
  BY DEF Infinite, Reach
<1>2. \A i \in DOMAIN p : p[i] \in Reach
  BY DEF Points
<1>3. p \in Seq(Int)
  BY <1>1 DEF Points
<1>. QED
  BY <1>1, <1>2, <1>3

LEMMA LimitsCover ==
  ASSUME NEW s \in ScalarForms, NEW x \in Int, -Infinite <= x, x <= Infinite,
         InScalar(s, x), Limits(s) # <<>>
  PROVE  /\ Limits(s)[1] \in Int /\ Limits(s)[2] \in Int
         /\ Limits(s)[1] <= x /\ x <= Limits(s)[2]
         /\ -Infinite <= Limits(s)[1] /\ Limits(s)[2] <= Infinite
         /\ Limits(s)[1] <= Infinite /\ -Infinite <= Limits(s)[2]
<1>1. CASE s.kind = "reals"
  BY <1>1 DEF Limits, Infinite
<1>2. CASE s.kind \in {"posreals", "nonnegreals"}
  BY <1>2 DEF Limits, InScalar, Infinite
<1>3. CASE s.kind = "unitinterval"
  BY <1>3 DEF Limits, InScalar, Infinite, One
<1>4. CASE s.kind = "interval"
  <2>1. x \in s.lo..s.hi /\ Limits(s) = <<s.lo, s.hi>>
    BY <1>4 DEF InScalar, Limits
  <2>2. /\ s.lo \in Int /\ s.hi \in Int /\ -Infinite <= s.lo /\ s.hi <= Infinite
        /\ s.lo <= Infinite /\ -Infinite <= s.hi
    BY <1>4, ScalarShapes
  <2>. QED
    BY <2>1, <2>2
<1>. QED
  BY <1>1, <1>2, <1>3, <1>4 DEF Limits

LEMMA OverlapCovers ==
  ASSUME NEW s \in ScalarForms, NEW t \in ScalarForms, NEW x \in Int, -Infinite <= x, x <= Infinite,
         InScalar(s, x), InScalar(t, x)
  PROVE  \/ Overlap(s, t) = Unknown
         \/ Overlap(s, t) \in ScalarForms /\ InScalar(Overlap(s, t), x)
<1>1. CASE Limits(s) = <<>> \/ Limits(t) = <<>>
  BY <1>1 DEF Overlap
<1>2. CASE Limits(s) # <<>> /\ Limits(t) # <<>>
  <2>. DEFINE lo == Larger(Limits(s)[1], Limits(t)[1])
              hi == Smaller(Limits(s)[2], Limits(t)[2])
  <2>1. /\ Limits(s)[1] \in Int /\ Limits(s)[2] \in Int
        /\ Limits(s)[1] <= x /\ x <= Limits(s)[2]
        /\ -Infinite <= Limits(s)[1] /\ Limits(s)[2] <= Infinite
        /\ Limits(s)[1] <= Infinite /\ -Infinite <= Limits(s)[2]
    BY <1>2, LimitsCover
  <2>2. /\ Limits(t)[1] \in Int /\ Limits(t)[2] \in Int
        /\ Limits(t)[1] <= x /\ x <= Limits(t)[2]
        /\ -Infinite <= Limits(t)[1] /\ Limits(t)[2] <= Infinite
        /\ Limits(t)[1] <= Infinite /\ -Infinite <= Limits(t)[2]
    BY <1>2, LimitsCover
  <2>3. /\ lo \in Int /\ hi \in Int /\ lo <= x /\ x <= hi
        /\ -Infinite <= lo /\ lo <= Infinite /\ -Infinite <= hi /\ hi <= Infinite
    BY <2>1, <2>2 DEF Larger, Smaller, Infinite
  <2>. HIDE DEF lo, hi
  <2>4. lo \in (-Infinite)..Infinite /\ hi \in (-Infinite)..Infinite /\ ~ (lo > hi)
    BY <2>3 DEF Infinite
  <2>5. Overlap(s, t) = Interval(lo, hi)
    BY <1>2, <2>4 DEF Overlap, lo, hi
  <2>6. Interval(lo, hi) \in ScalarForms
    BY <2>4 DEF Interval, ScalarForms
  <2>7. InScalar(Interval(lo, hi), x)
    BY <2>3 DEF InScalar, Interval
  <2>. QED
    BY <2>5, <2>6, <2>7
<1>. QED
  BY <1>1, <1>2

LEMMA MeetScalarsCovers ==
  ASSUME NEW s \in ScalarForms, NEW t \in ScalarForms, NEW x \in Int, -Infinite <= x, x <= Infinite,
         InScalar(s, x), InScalar(t, x)
  PROVE  \/ MeetScalars(s, t) = Unknown
         \/ MeetScalars(s, t) \in ScalarForms /\ InScalar(MeetScalars(s, t), x)
BY OverlapCovers DEF MeetScalars

LEMMA OverlapOfSets ==
  ASSUME NEW s \in ValueSetForms, NEW t \in ValueSetForms, NEW p \in Points, Member(s, p), Member(t, p)
  PROVE  Member(Overlap(s, t), p)
<1>1. CASE Limits(s) = <<>> \/ Limits(t) = <<>>
  BY <1>1, UnknownCovers DEF Overlap
<1>2. CASE Limits(s) # <<>> /\ Limits(t) # <<>>
  <2>1. IsScalar(s) /\ IsScalar(t)
    BY <1>2 DEF Limits, IsScalar, NamedKinds
  <2>2. s \in ScalarForms /\ t \in ScalarForms
    BY <2>1, SetShapes
  <2>3. Len(p) = 1 /\ InScalar(s, p[1]) /\ InScalar(t, p[1])
    BY <2>1, MemberScalar, Zenon
  <2>4. p \in Seq(Int)
    BY PointShapes
  <2>5. DOMAIN p = {1}
    BY <2>3, <2>4, OneNumber
  <2>6. p[1] \in Int /\ -Infinite <= p[1] /\ p[1] <= Infinite
    BY <2>5, PointShapes
  <2>7. CASE Overlap(s, t) = Unknown
    BY <2>7, UnknownCovers
  <2>8. CASE Overlap(s, t) \in ScalarForms /\ InScalar(Overlap(s, t), p[1])
    <3>1. IsScalar(Overlap(s, t))
      BY <2>8, ScalarShapes DEF IsScalar
    <3>. QED
      BY <2>3, <2>8, <3>1, MemberScalar, Zenon
  <2>. QED
    BY <2>2, <2>3, <2>6, <2>7, <2>8, OverlapCovers
<1>. QED
  BY <1>1, <1>2

LEMMA MeetPartsCovers ==
  ASSUME NEW s \in ValueSetForms, NEW t \in ValueSetForms, NEW p \in Points, Member(s, p), Member(t, p),
         s.kind = t.kind, s.kind \in {"product", "fields"}, Len(s.parts) = Len(t.parts)
  PROVE  Member(MeetParts(s, t), p)
<1>. DEFINE parts == [i \in DOMAIN s.parts |-> MeetScalars(s.parts[i], t.parts[i])]
<1>1. CASE \E i \in DOMAIN parts : parts[i] = Unknown
  BY <1>1, UnknownCovers DEF MeetParts
<1>2. CASE ~ \E i \in DOMAIN parts : parts[i] = Unknown
  <2>1. s.parts \in Seq(ScalarForms) /\ t.parts \in Seq(ScalarForms)
    BY SetShapes
  <2>2. /\ Len(p) = Len(s.parts)
        /\ \A i \in DOMAIN p : InScalar(s.parts[i], p[i]) /\ InScalar(t.parts[i], p[i])
    BY DEF Member
  <2>3. p \in Seq(Int)
    BY PointShapes
  <2>4. DOMAIN p = DOMAIN s.parts /\ DOMAIN p = DOMAIN t.parts
    BY <2>1, <2>2, <2>3
  <2>5. \A i \in DOMAIN p : InScalar(parts[i], p[i])
    <3>. SUFFICES ASSUME NEW i \in DOMAIN p PROVE InScalar(parts[i], p[i])
      OBVIOUS
    <3>1. s.parts[i] \in ScalarForms /\ t.parts[i] \in ScalarForms
      BY <2>1, <2>4
    <3>2. p[i] \in Int /\ -Infinite <= p[i] /\ p[i] <= Infinite
      BY PointShapes
    <3>3. parts[i] = MeetScalars(s.parts[i], t.parts[i]) /\ parts[i] # Unknown
      BY <1>2, <2>4
    <3>. QED
      BY <2>2, <3>1, <3>2, <3>3, MeetScalarsCovers
  <2>6. Len(parts) = Len(s.parts)
    BY <2>1
  <2>7. MeetParts(s, t) = [s EXCEPT !.parts = parts]
    BY <1>2 DEF MeetParts
  <2>8. s = [kind |-> s.kind, parts |-> s.parts]
    BY PartsRecord
  <2>. HIDE DEF parts
  <2>9. [s EXCEPT !.parts = parts].kind = s.kind /\ [s EXCEPT !.parts = parts].parts = parts
    BY <2>8
  <2>. QED
    BY <2>2, <2>5, <2>6, <2>7, <2>9 DEF Member
<1>. QED
  BY <1>1, <1>2

(* The answer of `intersect_intervals` contains every point of both sets:  *)
(* it widens at most, also position by position in powers and products.    *)
THEOREM MeetCovers ==
  ASSUME NEW s \in ValueSetForms, NEW t \in ValueSetForms, NEW p \in Points, Member(s, p), Member(t, p)
  PROVE  Member(Meet(s, t), p)
<1>1. CASE Below(s, t) \/ Below(t, s)
  BY <1>1 DEF Meet
<1>2. CASE ~ (Below(s, t) \/ Below(t, s))
  <2>1. Meet(s, t) = MeetShapes(s, t)
    BY <1>2 DEF Meet
  <2>2. CASE s.kind = "power" /\ t.kind = "power" /\ s.n = t.n
    <3>1. s.of \in ScalarForms /\ t.of \in ScalarForms
      BY <2>2, SetShapes
    <3>2. /\ Len(p) = s.n
          /\ \A i \in DOMAIN p : InScalar(s.of, p[i]) /\ InScalar(t.of, p[i])
      BY <2>2 DEF Member
    <3>3. CASE MeetScalars(s.of, t.of) = Unknown
      BY <2>1, <2>2, <3>3, UnknownCovers DEF MeetShapes
    <3>4. CASE MeetScalars(s.of, t.of) # Unknown
      <4>1. \A i \in DOMAIN p : InScalar(MeetScalars(s.of, t.of), p[i])
        BY <3>1, <3>2, <3>4, PointShapes, MeetScalarsCovers
      <4>2. MeetShapes(s, t) = Power(MeetScalars(s.of, t.of), s.n)
        BY <2>2, <3>4 DEF MeetShapes
      <4>. QED
        BY <2>1, <3>2, <4>1, <4>2 DEF Member, Power
    <3>. QED
      BY <3>3, <3>4
  <2>3. CASE /\ s.kind = t.kind /\ s.kind \in {"product", "fields"}
             /\ Len(s.parts) = Len(t.parts)
    <3>1. MeetShapes(s, t) = MeetParts(s, t)
      BY <2>3 DEF MeetShapes
    <3>. QED
      BY <2>1, <2>3, <3>1, MeetPartsCovers
  <2>4. CASE /\ ~ (s.kind = "power" /\ t.kind = "power" /\ s.n = t.n)
             /\ ~ (/\ s.kind = t.kind /\ s.kind \in {"product", "fields"}
                   /\ Len(s.parts) = Len(t.parts))
    <3>1. MeetShapes(s, t) = Overlap(s, t)
      BY <2>4 DEF MeetShapes
    <3>. QED
      BY <2>1, <3>1, OverlapOfSets
  <2>. QED
    BY <2>2, <2>3, <2>4
<1>. QED
  BY <1>1, <1>2
(* The support of a truncated measure (`call_valueset`) has every point of *)
(* the base support that the restriction keeps.                            *)
THEOREM TruncationCovers ==
  ASSUME NEW set \in ValueSetForms, NEW base \in ValueSetForms, NEW p \in Points,
         Member(set, p), Member(base, p)
  PROVE  Member(TruncatedSet(set, base), p)
BY MeetCovers DEF TruncatedSet

=============================================================================
