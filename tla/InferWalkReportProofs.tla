----------------------- MODULE InferWalkReportProofs -----------------------
(***************************************************************************)
(* Proofs that inference reports what fails, and that it reads no          *)
(* annotation before it has been made, for all programs.                   *)
(*                                                                         *)
(* Every failed type that its caller sees has a reason among the errors.   *)
(* A failed type moves between scopes in five ways: as an annotation, as   *)
(* a result kept for a callable, as the seed of a scope opened for a       *)
(* dependency, a body or a call, as an argument that a Resume item holds,  *)
(* and through the session's memo.  The invariant says of each where the   *)
(* reason is: with the scope's own errors, with the session's, or with the *)
(* scope below it, for what a scope was opened with.                       *)
(*                                                                         *)
(* The walk aborts nowhere but at a call through a binding that a callable *)
(* is substituted for.  Three kinds of step read annotations: Finish reads *)
(* those of the node's children, an import those of the values substituted *)
(* into it, and a call of an imported callable, through any chain of       *)
(* references, those of the values that its module was loaded with.  The   *)
(* first two find them made because an item above them was to make them,   *)
(* in the same scope.  The third finds them because the chain was walked   *)
(* to its end, unless it is a cycle, which fails, or meets a seed, which   *)
(* is the exception.                                                       *)
(***************************************************************************)
EXTENDS InferWalkProofs, WellFoundedInduction

-----------------------------------------------------------------------------
(* The scopes, from the one at work down: each suspended scope waits in    *)
(* an item, and the scope over that item is the next one above it.         *)

Resumes == {"ResumeModule", "ResumeBody", "ResumeCall"}
Frames(w) == Marked(w, Resumes)

\* The scope over place c: place 0 is below them all.
ScopesOver(w, s, c) ==
  IF \A e \in Frames(w) : e <= c THEN {s}
  ELSE {Under(w, e).scope :
          e \in {x \in Frames(w) : c < x /\ \A y \in Frames(w) : y <= c \/ x <= y}}

\* From work w to v, the topmost scope h gives way to t and the others stay.
GivesWay(w, v, frames, s, h, t, c) ==
  IF \A e \in frames : e <= c
  THEN ScopesOver(w, s, c) = {h} /\ ScopesOver(v, t, c) = {t}
  ELSE ScopesOver(v, t, c) = ScopesOver(w, s, c)

LEMMA OverStays ==
  ASSUME NEW w, NEW v, NEW items, Replaces(v, w, items), NEW s, NEW t,
         Head(w).do \notin Resumes,
         \A i \in 1..Len(items) : items[i].do \notin Resumes
  PROVE  /\ Frames(v) = Frames(w) /\ Frames(w) \subseteq 1..(Len(w) - 1)
         /\ \A c \in Frames(w) : Under(v, c) = Under(w, c)
         /\ \A c : GivesWay(w, v, Frames(w), s, s, t, c)
<1>1. Frames(v) = Frames(w) /\ Frames(w) \subseteq 1..(Len(w) - 1)
  BY MarksStay DEF Frames
<1>2. \A c \in Frames(w) : Under(v, c) = Under(w, c)
  BY <1>1 DEF Replaces
<1>3. ASSUME NEW c
      PROVE  GivesWay(w, v, Frames(w), s, s, t, c)
  BY <1>1, <1>2 DEF ScopesOver, GivesWay
<1>. QED
  BY <1>1, <1>2, <1>3

LEMMA OverPushed ==
  ASSUME NEW w, NEW v, NEW items, Replaces(v, w, items), NEW s, NEW t,
         Head(w).do \notin Resumes, Len(items) > 0,
         items[Len(items)].do \in Resumes, items[Len(items)].scope = s,
         \A i \in 1..(Len(items) - 1) : items[i].do \notin Resumes
  PROVE  /\ Frames(v) = Frames(w) \cup {Len(w)}
         /\ Frames(w) \subseteq 1..(Len(w) - 1) /\ Len(w) \in Nat
         /\ Under(v, Len(w)) = items[Len(items)]
         /\ \A c \in Frames(w) : Under(v, c) = Under(w, c)
         /\ \A c \in Frames(w) \cup {0} : ScopesOver(v, t, c) = ScopesOver(w, s, c)
         /\ ScopesOver(v, t, Len(w)) = {t}
<1>1. /\ Frames(v) = Frames(w) \cup {Len(w)}
      /\ Frames(w) \subseteq 1..(Len(w) - 1)
      /\ Under(v, Len(w)) = items[Len(items)]
  BY MarkPushed DEF Frames
<1>2. Len(w) \in Nat \ {0} /\ \A c \in Frames(w) : Under(v, c) = Under(w, c)
  BY <1>1 DEF Replaces
<1>3. ScopesOver(v, t, Len(w)) = {t}
  BY <1>1, <1>2 DEF ScopesOver
<1>4. ASSUME NEW c \in Frames(w) \cup {0}
      PROVE  ScopesOver(v, t, c) = ScopesOver(w, s, c)
  <2>1. c \in Nat /\ c < Len(w)
    BY <1>1, <1>2
  <2>2. ~ \A e \in Frames(v) : e <= c
    BY <1>1, <1>2, <2>1
  <2>. DEFINE next(u) == {x \in Frames(u) : c < x /\ \A y \in Frames(u) : y <= c \/ x <= y}
  <2>3. ScopesOver(v, t, c) = {Under(v, e).scope : e \in next(v)}
    BY <2>2 DEF ScopesOver
  <2>4. CASE \A e \in Frames(w) : e <= c
    <3>1. next(v) = {Len(w)}
      BY <1>1, <1>2, <2>1, <2>4
    <3>2. ScopesOver(w, s, c) = {s}
      BY <2>4 DEF ScopesOver
    <3>. QED
      BY <1>1, <2>3, <3>1, <3>2
  <2>5. CASE ~ \A e \in Frames(w) : e <= c
    <3>1. PICK f \in Frames(w) : ~(f <= c)
      BY <2>5
    <3>2. f < Len(w) /\ f \in Nat
      BY <1>1, <1>2
    <3>3. Len(w) \notin next(v)
      BY <1>1, <1>2, <2>1, <3>1, <3>2
    <3>4. \A x \in Frames(w) : x <= Len(w)
      BY <1>1, <1>2
    <3>5. next(v) = next(w)
      BY <1>1, <3>3, <3>4
    <3>6. ScopesOver(w, s, c) = {Under(w, e).scope : e \in next(w)}
      BY <2>5 DEF ScopesOver
    <3>7. \A e \in next(w) : Under(v, e) = Under(w, e)
      BY <1>2
    <3>. QED
      BY <2>3, <3>5, <3>6, <3>7
  <2>. QED
    BY <2>4, <2>5
<1>. QED
  BY <1>1, <1>2, <1>3, <1>4

LEMMA OverPopped ==
  ASSUME NEW w, NEW v, Replaces(v, w, <<>>), NEW s, NEW t, Head(w).do \in Resumes
  PROVE  /\ Frames(v) = Frames(w) \ {Len(w)} /\ Len(w) \in Frames(w)
         /\ Frames(v) \subseteq 1..(Len(w) - 1) /\ Len(w) \in Nat
         /\ Under(w, Len(w)) = Head(w)
         /\ \A c \in Frames(v) : Under(v, c) = Under(w, c)
         /\ ScopesOver(w, s, Len(w)) = {s}
         /\ \A c \in Frames(v) \cup {0} :
              GivesWay(w, v, Frames(v), s, Head(w).scope, t, c)
<1>1. /\ Frames(v) = Frames(w) \ {Len(w)} /\ Len(w) \in Frames(w)
      /\ Frames(v) \subseteq 1..(Len(w) - 1)
  BY MarkPopped DEF Frames
<1>2. /\ Len(w) \in Nat \ {0} /\ \A c \in Frames(v) : Under(v, c) = Under(w, c)
      /\ Under(w, Len(w)) = Head(w)
  BY <1>1 DEF Replaces
<1>3. ScopesOver(w, s, Len(w)) = {s}
  BY <1>1, <1>2 DEF ScopesOver
<1>4. ASSUME NEW c \in Frames(v) \cup {0}
      PROVE  GivesWay(w, v, Frames(v), s, Head(w).scope, t, c)
  <2>1. c \in Nat /\ c < Len(w)
    BY <1>1, <1>2
  <2>2. ~ \A e \in Frames(w) : e <= c
    BY <1>1, <1>2, <2>1
  <2>. DEFINE next(u) == {x \in Frames(u) : c < x /\ \A y \in Frames(u) : y <= c \/ x <= y}
  <2>3. ScopesOver(w, s, c) = {Under(w, e).scope : e \in next(w)}
    BY <2>2 DEF ScopesOver
  <2>4. CASE \A e \in Frames(v) : e <= c
    <3>1. next(w) = {Len(w)}
      BY <1>1, <1>2, <2>1, <2>4
    <3>2. ScopesOver(v, t, c) = {t}
      BY <2>4 DEF ScopesOver
    <3>. QED
      BY <1>2, <2>3, <2>4, <3>1, <3>2 DEF GivesWay
  <2>5. CASE ~ \A e \in Frames(v) : e <= c
    <3>1. PICK f \in Frames(v) : ~(f <= c)
      BY <2>5
    <3>2. f < Len(w) /\ f \in Nat /\ f \in Frames(w)
      BY <1>1, <1>2
    <3>3. Len(w) \notin next(w)
      BY <1>1, <1>2, <2>1, <3>1, <3>2
    <3>4. \A x \in Frames(v) : x <= Len(w)
      BY <1>1, <1>2
    <3>5. next(v) = next(w)
      BY <1>1, <3>3, <3>4
    <3>6. ScopesOver(v, t, c) = {Under(v, e).scope : e \in next(v)}
      BY <2>5 DEF ScopesOver
    <3>7. \A e \in next(v) : Under(v, e) = Under(w, e)
      BY <1>2
    <3>. QED
      BY <2>3, <2>5, <3>5, <3>6, <3>7 DEF GivesWay
  <2>. QED
    BY <2>4, <2>5
<1>. QED
  BY <1>1, <1>2, <1>3, <1>4

-----------------------------------------------------------------------------
(* Where the failed types of a scope come from: what the scope reported    *)
(* itself, what the session did, or a failed type it was opened with.  And *)
(* a scope that a call opened has typed the node it was opened for, or the *)
(* item for that node still lies on the one that waits for it.             *)

Covers(reasons, t) == IsSequence(t) /\ (IsFailed(t) => t[2] \in reasons)
AllCovered(reasons, f) == \A x \in DOMAIN f : Covers(reasons, f[x])

SeedReasons(s) == {s.seeds[n][2] : n \in {k \in DOMAIN s.seeds : IsFailed(s.seeds[k])}}
AnnoReasons(annos) == {annos[i][2][2] : i \in {j \in DOMAIN annos : IsFailed(annos[j][2])}}

\* The reasons scope s may give when the session has reported D.
Context(s, D) == s.errors \cup D \cup SeedReasons(s)

IsScope(s) == s = [inferred |-> s.inferred, seeds |-> s.seeds, active |-> s.active,
                   results |-> s.results, errors |-> s.errors]

ScopeOK(s, D) ==
  /\ IsScope(s)
  /\ AllCovered(Context(s, D), s.inferred)
  /\ AllCovered(Context(s, D), s.results)
  /\ AllCovered(SeedReasons(s), s.seeds)

\* How scope s, opened by what the item f waits for, depends on f's scope.
Link(f, s, D) ==
  /\ AllCovered(Context(f.scope, D), s.seeds)
  /\ f.do = "ResumeModule" =>
       /\ \A i \in DOMAIN f.key[2] : Covers(Context(f.scope, D), f.key[2][i][2])
       /\ AllCovered(AnnoReasons(f.key[2]), s.seeds)
  /\ f.do = "ResumeBody" => Covers(Context(f.scope, D), f.arg)

Target(f) == IF f.do = "ResumeBody" THEN f.body ELSE f.root
Lies(item) == item.do \in {"Enter", "Finish"} \cup Resumes

Waits(w, c, s) ==
  Under(w, c).do \in {"ResumeBody", "ResumeCall"} =>
    \/ Target(Under(w, c)) \in DOMAIN s.inferred
    \/ /\ c + 1 <= Len(w) /\ Lies(Under(w, c + 1))
       /\ Under(w, c + 1).node = Target(Under(w, c))

Chain(w, s, D) ==
  /\ ScopeOK(s, D)
  /\ \A c \in Frames(w) : ScopeOK(Under(w, c).scope, D)
  /\ \A t \in ScopesOver(w, s, 0) : t.seeds = <<>>
  /\ \A c \in Frames(w) : \A t \in ScopesOver(w, s, c) : Link(Under(w, c), t, D) /\ Waits(w, c, t)

LEMMA CoversMore ==
  ASSUME NEW A, NEW B, A \subseteq B
  PROVE  /\ \A t : Covers(A, t) => Covers(B, t)
         /\ \A f : AllCovered(A, f) => AllCovered(B, f)
BY DEF Covers, AllCovered

LEMMA ContextGrows ==
  ASSUME NEW D, NEW E, D \subseteq E
  PROVE  \A s : Context(s, D) \subseteq Context(s, E)
BY DEF Context

LEMMA ScopeStaysOK ==
  ASSUME NEW D, NEW E, D \subseteq E, NEW s, ScopeOK(s, D)
  PROVE  ScopeOK(s, E)
<1>1. Context(s, D) \subseteq Context(s, E)
  BY ContextGrows
<1>. QED
  BY <1>1, CoversMore DEF ScopeOK

LEMMA LinkStays ==
  ASSUME NEW D, NEW E, D \subseteq E, NEW f, NEW s, Link(f, s, D)
  PROVE  Link(f, s, E)
<1>1. Context(f.scope, D) \subseteq Context(f.scope, E)
  BY ContextGrows
<1>2. /\ AllCovered(Context(f.scope, E), s.seeds)
      /\ \A t : Covers(Context(f.scope, D), t) => Covers(Context(f.scope, E), t)
  BY <1>1, CoversMore DEF Link
<1>. QED
  BY <1>2 DEF Link

\* Links do not depend on more of a scope than its seeds.
LEMMA LinkSeeds ==
  ASSUME NEW f, NEW s, NEW t, NEW D, Link(f, s, D), t.seeds = s.seeds
  PROVE  Link(f, t, D)
BY DEF Link

\* What a step in a scope may do to it.
Grows(t, s) == t.seeds = s.seeds /\ DOMAIN s.inferred \subseteq DOMAIN t.inferred

\* The item on top is done with, or goes on as the last of `items`.
HandsOn(items, top, t) ==
  top.do \in {"Enter", "Finish"} =>
    \/ top.node \in DOMAIN t.inferred
    \/ /\ Len(items) > 0 /\ items[Len(items)].do \in {"Enter", "Finish"}
       /\ items[Len(items)].node = top.node

LEMMA ChainStays ==
  ASSUME NEW w, NEW v, NEW items, Replaces(v, w, items), NEW s, NEW t, NEW D,
         Head(w).do \notin Resumes,
         \A i \in 1..Len(items) : items[i].do \notin Resumes,
         Chain(w, s, D), ScopeOK(t, D), Grows(t, s), HandsOn(items, Head(w), t)
  PROVE  Chain(v, t, D)
<1>1. /\ Frames(v) = Frames(w) /\ Frames(w) \subseteq 1..(Len(w) - 1)
      /\ \A c \in Frames(w) : Under(v, c) = Under(w, c)
      /\ \A c : GivesWay(w, v, Frames(w), s, s, t, c)
  BY OverStays
<1>2. /\ Len(w) \in Nat \ {0} /\ Len(items) \in Nat /\ Len(v) = Len(items) + Len(w) - 1
      /\ \A q \in 1..(Len(w) - 1) : Under(v, q) = Under(w, q)
      /\ Under(w, Len(w)) = Head(w)
  BY DEF Replaces
<1>3. \A c \in Frames(v) : ScopeOK(Under(v, c).scope, D)
  BY <1>1 DEF Chain
<1>4. \A u \in ScopesOver(v, t, 0) : u.seeds = <<>>
  BY <1>1 DEF Chain, Grows, GivesWay
<1>5. Len(items) > 0 => Under(v, Len(w)) = items[Len(items)] /\ Len(w) <= Len(v)
  <2>. SUFFICES ASSUME Len(items) > 0
                PROVE  Under(v, Len(w)) = items[Len(items)] /\ Len(w) <= Len(v)
    OBVIOUS
  <2>1. Len(w) \in Len(w)..Len(v) /\ Len(v) + 1 - Len(w) = Len(items)
    BY <1>2
  <2>2. Under(v, Len(w)) = items[Len(v) + 1 - Len(w)]
    BY <2>1 DEF Replaces
  <2>. QED
    BY <2>1, <2>2
<1>6. ASSUME NEW c \in Frames(v), NEW u \in ScopesOver(v, t, c)
      PROVE  Link(Under(v, c), u, D) /\ Waits(v, c, u)
  <2>1. c \in Frames(w) /\ c \in 1..(Len(w) - 1) /\ Under(v, c) = Under(w, c)
    BY <1>1
  <2>2. CASE \A e \in Frames(w) : e <= c
    <3>1. u = t /\ s \in ScopesOver(w, s, c)
      BY <1>1, <1>6, <2>2 DEF GivesWay
    <3>2. Link(Under(w, c), s, D) /\ Waits(w, c, s)
      BY <2>1, <3>1 DEF Chain
    <3>3. Link(Under(v, c), u, D)
      BY <2>1, <3>1, <3>2, LinkSeeds DEF Grows
    <3>4. Waits(v, c, u)
      <4>. SUFFICES ASSUME Under(w, c).do \in {"ResumeBody", "ResumeCall"},
                           Target(Under(w, c)) \notin DOMAIN t.inferred
                    PROVE  /\ c + 1 <= Len(v) /\ Lies(Under(v, c + 1))
                           /\ Under(v, c + 1).node = Target(Under(w, c))
        BY <2>1, <3>1 DEF Waits
      <4>1. /\ c + 1 <= Len(w) /\ Lies(Under(w, c + 1))
            /\ Under(w, c + 1).node = Target(Under(w, c))
        BY <3>2 DEF Waits, Grows
      <4>2. CASE c + 1 = Len(w)
        <5>1. Lies(Head(w)) /\ Head(w).node = Target(Under(w, c))
          BY <1>2, <4>1, <4>2
        <5>2. Head(w).do \in {"Enter", "Finish"}
          BY <5>1 DEF Lies
        <5>3. /\ Len(items) > 0 /\ items[Len(items)].do \in {"Enter", "Finish"}
              /\ items[Len(items)].node = Head(w).node
          BY <5>1, <5>2 DEF HandsOn
        <5>. QED
          BY <1>5, <4>2, <5>1, <5>3 DEF Lies
      <4>3. CASE c + 1 # Len(w)
        <5>1. c + 1 \in 1..(Len(w) - 1) /\ c + 1 <= Len(v)
          BY <1>2, <2>1, <4>3
        <5>. QED
          BY <1>2, <4>1, <5>1
      <4>. QED
        BY <4>2, <4>3
    <3>. QED
      BY <3>3, <3>4
  <2>3. CASE ~ \A e \in Frames(w) : e <= c
    <3>1. u \in ScopesOver(w, s, c)
      BY <1>1, <1>6, <2>3 DEF GivesWay
    <3>2. Link(Under(w, c), u, D) /\ Waits(w, c, u)
      BY <2>1, <3>1 DEF Chain
    <3>3. PICK e \in Frames(w) : ~(e <= c)
      BY <2>3
    <3>4. c + 1 \in 1..(Len(w) - 1) /\ c + 1 <= Len(v)
      BY <1>1, <1>2, <2>1, <3>3
    <3>5. Under(v, c + 1) = Under(w, c + 1)
      BY <1>2, <3>4
    <3>. QED
      BY <2>1, <3>2, <3>4, <3>5 DEF Waits
  <2>. QED
    BY <2>2, <2>3
<1>. QED
  BY <1>3, <1>4, <1>6 DEF Chain

LEMMA ChainPushed ==
  ASSUME NEW w, NEW v, NEW items, Replaces(v, w, items), NEW s, NEW t, NEW D, NEW E,
         Head(w).do = "Finish", Len(items) > 0,
         items[Len(items)].do \in Resumes, items[Len(items)].scope = s,
         items[Len(items)].node = Head(w).node,
         \A i \in 1..(Len(items) - 1) : items[i].do \notin Resumes,
         Chain(w, s, D), D \subseteq E, ScopeOK(t, E),
         Link(items[Len(items)], t, E), Waits(v, Len(w), t)
  PROVE  Chain(v, t, E)
<1>. DEFINE L == Len(w)
            r == items[Len(items)]
<1>0. Head(w).do \notin Resumes
  BY DEF Resumes
<1>1. /\ Frames(v) = Frames(w) \cup {L} /\ Frames(w) \subseteq 1..(L - 1) /\ L \in Nat
      /\ Under(v, L) = r
      /\ \A c \in Frames(w) : Under(v, c) = Under(w, c)
      /\ \A c \in Frames(w) \cup {0} : ScopesOver(v, t, c) = ScopesOver(w, s, c)
      /\ ScopesOver(v, t, L) = {t}
  BY <1>0, OverPushed
<1>2. /\ Len(w) \in Nat \ {0} /\ Len(items) \in Nat /\ Len(v) = Len(items) + Len(w) - 1
      /\ \A q \in 1..(Len(w) - 1) : Under(v, q) = Under(w, q)
      /\ Under(w, Len(w)) = Head(w)
  BY DEF Replaces
<1>3. \A c \in Frames(v) : ScopeOK(Under(v, c).scope, E)
  <2>. TAKE c \in Frames(v)
  <2>1. CASE c = L
    BY <1>1, <2>1, ScopeStaysOK DEF Chain
  <2>2. CASE c \in Frames(w)
    BY <1>1, <2>2, ScopeStaysOK DEF Chain
  <2>. QED
    BY <1>1, <2>1, <2>2
<1>4. \A u \in ScopesOver(v, t, 0) : u.seeds = <<>>
  BY <1>1 DEF Chain
<1>5. ASSUME NEW c \in Frames(v), NEW u \in ScopesOver(v, t, c)
      PROVE  Link(Under(v, c), u, E) /\ Waits(v, c, u)
  <2>1. CASE c = L
    BY <1>1, <1>5, <2>1
  <2>2. CASE c \in Frames(w)
    <3>1. Link(Under(w, c), u, D) /\ Waits(w, c, u) /\ Under(v, c) = Under(w, c)
      BY <1>1, <1>5, <2>2 DEF Chain
    <3>2. Link(Under(v, c), u, E)
      BY <3>1, LinkStays
    <3>3. c \in 1..(L - 1) /\ c + 1 <= Len(v)
      BY <1>1, <1>2, <2>2
    <3>4. CASE c + 1 = L
      <4>1. Lies(Under(v, c + 1)) /\ Under(v, c + 1).node = Under(w, c + 1).node
        BY <1>1, <1>2, <3>4 DEF Lies
      <4>. QED
        BY <3>1, <3>2, <3>3, <4>1 DEF Waits
    <3>5. CASE c + 1 # L
      <4>1. c + 1 \in 1..(L - 1)
        BY <1>2, <3>3, <3>5
      <4>2. Under(v, c + 1) = Under(w, c + 1)
        BY <1>2, <4>1
      <4>. QED
        BY <3>1, <3>2, <3>3, <4>2 DEF Waits
    <3>. QED
      BY <3>4, <3>5
  <2>. QED
    BY <1>1, <2>1, <2>2
<1>. QED
  BY <1>3, <1>4, <1>5 DEF Chain

LEMMA ChainPopped ==
  ASSUME NEW w, NEW v, Replaces(v, w, <<>>), NEW s, NEW t, NEW D, NEW E,
         Head(w).do \in Resumes, Chain(w, s, D), D \subseteq E,
         ScopeOK(t, E), Grows(t, Head(w).scope), Head(w).node \in DOMAIN t.inferred
  PROVE  Chain(v, t, E)
<1>. DEFINE L == Len(w)
            h == Head(w).scope
<1>1. /\ Frames(v) = Frames(w) \ {L} /\ L \in Frames(w)
      /\ Frames(v) \subseteq 1..(L - 1) /\ L \in Nat
      /\ Under(w, L) = Head(w)
      /\ \A c \in Frames(v) : Under(v, c) = Under(w, c)
      /\ \A c \in Frames(v) \cup {0} : GivesWay(w, v, Frames(v), s, h, t, c)
  BY OverPopped
<1>2. /\ Len(w) \in Nat \ {0} /\ Len(v) = Len(w) - 1
      /\ \A q \in 1..(Len(w) - 1) : Under(v, q) = Under(w, q)
  <2>1. Len(<<>>) = 0
    OBVIOUS
  <2>. QED
    BY <2>1 DEF Replaces
<1>3. \A c \in Frames(v) : ScopeOK(Under(v, c).scope, E)
  BY <1>1, ScopeStaysOK DEF Chain
<1>4. \A u \in ScopesOver(v, t, 0) : u.seeds = <<>>
  BY <1>1 DEF Chain, Grows, GivesWay
<1>5. ASSUME NEW c \in Frames(v), NEW u \in ScopesOver(v, t, c)
      PROVE  Link(Under(v, c), u, E) /\ Waits(v, c, u)
  <2>1. c \in Frames(w) /\ c \in 1..(L - 1) /\ Under(v, c) = Under(w, c)
    BY <1>1
  <2>2. CASE \A e \in Frames(v) : e <= c
    <3>1. u = t /\ h \in ScopesOver(w, s, c)
      BY <1>1, <1>5, <2>2 DEF GivesWay
    <3>2. Link(Under(w, c), h, D) /\ Waits(w, c, h)
      BY <2>1, <3>1 DEF Chain
    <3>3. Link(Under(v, c), u, E)
      BY <2>1, <3>1, <3>2, LinkSeeds, LinkStays DEF Grows
    <3>4. Waits(v, c, u)
      <4>. SUFFICES ASSUME Under(w, c).do \in {"ResumeBody", "ResumeCall"},
                           Target(Under(w, c)) \notin DOMAIN t.inferred
                    PROVE  /\ c + 1 <= Len(v) /\ Lies(Under(v, c + 1))
                           /\ Under(v, c + 1).node = Target(Under(w, c))
        BY <2>1, <3>1 DEF Waits
      <4>1. /\ c + 1 <= Len(w) /\ Lies(Under(w, c + 1))
            /\ Under(w, c + 1).node = Target(Under(w, c))
        BY <3>2 DEF Waits, Grows
      <4>2. c + 1 # L
        BY <1>1, <4>1
      <4>3. c + 1 \in 1..(L - 1) /\ c + 1 <= Len(v)
        BY <1>2, <2>1, <4>2
      <4>. QED
        BY <1>2, <4>1, <4>3
    <3>. QED
      BY <3>3, <3>4
  <2>3. CASE ~ \A e \in Frames(v) : e <= c
    <3>1. u \in ScopesOver(w, s, c)
      BY <1>1, <1>5, <2>3 DEF GivesWay
    <3>2. Link(Under(w, c), u, D) /\ Waits(w, c, u)
      BY <2>1, <3>1 DEF Chain
    <3>3. PICK e \in Frames(v) : ~(e <= c)
      BY <2>3
    <3>4. c + 1 \in 1..(L - 1) /\ c + 1 <= Len(v)
      BY <1>1, <1>2, <2>1, <3>3
    <3>5. Under(v, c + 1) = Under(w, c + 1)
      BY <1>2, <3>4
    <3>6. Link(Under(v, c), u, E)
      BY <2>1, <3>2, LinkStays
    <3>. QED
      BY <2>1, <3>2, <3>4, <3>5, <3>6 DEF Waits
  <2>. QED
    BY <2>2, <2>3
<1>. QED
  BY <1>3, <1>4, <1>5 DEF Chain

-----------------------------------------------------------------------------
(* The invariant of reports.                                               *)

Cyclic == "recursive definition"

\* What the session has reported, recursive callables included: the module
\* that declares one reports it.
Reported == depErrors \cup {x \in {Cyclic} : recursive # {}}

\* The report of a recursive callable is in a module's scope, or is the
\* session's already.
CycleNoted(w, s, errors) ==
  \/ Cyclic \in errors
  \/ \E c \in Frames(w) \cup {0} :
       /\ c = 0 \/ Under(w, c).do = "ResumeModule"
       /\ \E t \in ScopesOver(w, s, c) : Cyclic \in t.errors

MemoOK(m, D) == \A key \in DOMAIN m : AllCovered(D \cup AnnoReasons(key[2]), m[key])

ReportInv ==
  /\ outcome # "done" =>
       /\ Chain(work, scope, Reported)
       /\ recursive # {} => CycleNoted(work, scope, depErrors)
       /\ MemoOK(memo, Reported)
  /\ outcome = "done" => AllCovered(scope.errors, scope.inferred)

LEMMA MemoStaysOK ==
  ASSUME NEW m, NEW D, NEW E, D \subseteq E, MemoOK(m, D)
  PROVE  MemoOK(m, E)
<1>. SUFFICES ASSUME NEW key \in DOMAIN m
              PROVE  AllCovered(E \cup AnnoReasons(key[2]), m[key])
  BY DEF MemoOK
<1>1. D \cup AnnoReasons(key[2]) \subseteq E \cup AnnoReasons(key[2])
  OBVIOUS
<1>. QED
  BY <1>1, CoversMore DEF MemoOK

LEMMA CycleStaysNoted ==
  ASSUME NEW w, NEW v, NEW items, Replaces(v, w, items), NEW s, NEW t, NEW errors,
         Head(w).do \notin Resumes,
         \A i \in 1..Len(items) : items[i].do \notin Resumes,
         s.errors \subseteq t.errors, CycleNoted(w, s, errors)
  PROVE  CycleNoted(v, t, errors)
<1>1. /\ Frames(v) = Frames(w) /\ Frames(w) \subseteq 1..(Len(w) - 1)
      /\ \A c \in Frames(w) : Under(v, c) = Under(w, c)
      /\ \A c : GivesWay(w, v, Frames(w), s, s, t, c)
  BY OverStays
<1>2. ASSUME NEW c \in Frames(w) \cup {0}, NEW u \in ScopesOver(w, s, c), Cyclic \in u.errors
      PROVE  \E x \in ScopesOver(v, t, c) : Cyclic \in x.errors
  BY <1>1, <1>2 DEF GivesWay
<1>. QED
  BY <1>1, <1>2 DEF CycleNoted

LEMMA CyclePushed ==
  ASSUME NEW w, NEW v, NEW items, Replaces(v, w, items), NEW s, NEW t, NEW errors,
         Head(w).do \notin Resumes, Len(items) > 0,
         items[Len(items)].do \in Resumes, items[Len(items)].scope = s,
         \A i \in 1..(Len(items) - 1) : items[i].do \notin Resumes,
         \/ CycleNoted(w, s, errors)
         \/ items[Len(items)].do = "ResumeModule" /\ Cyclic \in t.errors
  PROVE  CycleNoted(v, t, errors)
<1>1. /\ Frames(v) = Frames(w) \cup {Len(w)}
      /\ Frames(w) \subseteq 1..(Len(w) - 1) /\ Len(w) \in Nat
      /\ Under(v, Len(w)) = items[Len(items)]
      /\ \A c \in Frames(w) : Under(v, c) = Under(w, c)
      /\ \A c \in Frames(w) \cup {0} : ScopesOver(v, t, c) = ScopesOver(w, s, c)
      /\ ScopesOver(v, t, Len(w)) = {t}
  BY OverPushed
<1>2. CASE CycleNoted(w, s, errors)
  BY <1>1, <1>2 DEF CycleNoted
<1>3. CASE items[Len(items)].do = "ResumeModule" /\ Cyclic \in t.errors
  BY <1>1, <1>3 DEF CycleNoted
<1>. QED
  BY <1>2, <1>3

LEMMA CyclePopped ==
  ASSUME NEW w, NEW v, Replaces(v, w, <<>>), NEW s, NEW t, NEW errors, NEW after,
         Head(w).do \in Resumes, errors \subseteq after,
         Head(w).do = "ResumeModule" => s.errors \subseteq after,
         Head(w).scope.errors \subseteq t.errors, CycleNoted(w, s, errors)
  PROVE  CycleNoted(v, t, after)
<1>1. /\ Frames(v) = Frames(w) \ {Len(w)} /\ Len(w) \in Frames(w)
      /\ Frames(v) \subseteq 1..(Len(w) - 1) /\ Len(w) \in Nat
      /\ Under(w, Len(w)) = Head(w)
      /\ \A c \in Frames(v) : Under(v, c) = Under(w, c)
      /\ ScopesOver(w, s, Len(w)) = {s}
      /\ \A c \in Frames(v) \cup {0} : GivesWay(w, v, Frames(v), s, Head(w).scope, t, c)
  BY OverPopped
<1>2. CASE Cyclic \in errors
  BY <1>2 DEF CycleNoted
<1>3. ASSUME NEW c \in Frames(w) \cup {0}, c = 0 \/ Under(w, c).do = "ResumeModule",
             NEW u \in ScopesOver(w, s, c), Cyclic \in u.errors
      PROVE  CycleNoted(v, t, after)
  <2>1. CASE c = Len(w)
    <3>1. Len(w) # 0
      BY DEF Replaces
    <3>2. Head(w).do = "ResumeModule" /\ u = s
      BY <1>1, <1>3, <2>1, <3>1
    <3>. QED
      BY <1>3, <3>2 DEF CycleNoted
  <2>2. CASE c # Len(w)
    <3>1. c \in Frames(v) \cup {0} /\ (c = 0 \/ Under(v, c).do = "ResumeModule")
      BY <1>1, <1>3, <2>2
    <3>2. \E x \in ScopesOver(v, t, c) : Cyclic \in x.errors
      BY <1>1, <1>3, <3>1 DEF GivesWay
    <3>. QED
      BY <3>1, <3>2 DEF CycleNoted
  <2>. QED
    BY <2>1, <2>2
<1>. QED
  BY <1>2, <1>3 DEF CycleNoted

LEMMA StayReports ==
  ASSUME IsSequence(work), work # <<>>, ReportInv, outcome = "running",
         NEW items, IsSequence(items), work' = items \o Tail(work),
         Head(work).do \notin Resumes,
         \A i \in 1..Len(items) : items[i].do \notin Resumes,
         NEW t, scope' = t, ScopeOK(t, Reported), Grows(t, scope),
         scope.errors \subseteq t.errors, HandsOn(items, Head(work), t),
         UNCHANGED <<memo, depErrors, recursive, outcome>>
  PROVE  ReportInv'
<1>. DEFINE v == items \o Tail(work)
<1>1. Replaces(v, work, items)
  BY ReplaceTop DEF IsSequence
<1>. HIDE DEF v
<1>2. PICK D : D = Reported
  OBVIOUS
<1>3. Chain(v, t, D)
  BY <1>1, <1>2, ChainStays DEF ReportInv
<1>4. recursive # {} => CycleNoted(v, t, depErrors)
  BY <1>1, CycleStaysNoted DEF ReportInv
<1>5. MemoOK(memo, D)
  BY <1>2 DEF ReportInv
<1>6. work' = v /\ scope' = t /\ Reported' = D
  BY <1>2 DEF v, Reported
<1>7. outcome' # "done"
  OBVIOUS
<1>8. Chain(work', scope', Reported')
  BY <1>3, <1>6
<1>9. recursive' # {} => CycleNoted(work', scope', depErrors')
  BY <1>4, <1>6
<1>10. MemoOK(memo', Reported')
  BY <1>5, <1>6
<1>. QED
  BY <1>7, <1>8, <1>9, <1>10 DEF ReportInv

LEMMA PushReports ==
  ASSUME IsSequence(work), work # <<>>, ReportInv, outcome = "running",
         NEW items, IsSequence(items), Len(items) > 0, work' = items \o Tail(work),
         Head(work).do = "Finish",
         items[Len(items)].do \in Resumes, items[Len(items)].scope = scope,
         items[Len(items)].node = Head(work).node,
         \A i \in 1..(Len(items) - 1) : items[i].do \notin Resumes,
         NEW t, scope' = t, ScopeOK(t, Reported'),
         Link(items[Len(items)], t, Reported'), Waits(work', Len(work), t),
         UNCHANGED <<memo, depErrors, outcome>>,
         \/ recursive' = recursive
         \/ /\ recursive # {} => recursive' # {}
            /\ recursive' # {} /\ recursive = {} =>
                 items[Len(items)].do = "ResumeModule" /\ Cyclic \in t.errors
  PROVE  ReportInv'
<1>. DEFINE v == items \o Tail(work)
<1>1. Replaces(v, work, items)
  BY ReplaceTop DEF IsSequence
<1>. HIDE DEF v
<1>2. PICK D, E : D = Reported /\ E = Reported'
  OBVIOUS
<1>3. D \subseteq E
  BY <1>2 DEF Reported
<1>4. work' = v /\ scope' = t /\ Reported' = E
  BY <1>2 DEF v
<1>5. ScopeOK(t, E) /\ Link(items[Len(items)], t, E) /\ Waits(v, Len(work), t)
  BY <1>4
<1>6. Chain(work, scope, D)
  BY <1>2 DEF ReportInv
<1>7. Chain(v, t, E)
  BY <1>1, <1>3, <1>5, <1>6, ChainPushed
<1>8. recursive' # {} => CycleNoted(v, t, depErrors)
  <2>1. Head(work).do \notin Resumes
    BY DEF Resumes
  <2>2. recursive # {} => CycleNoted(work, scope, depErrors)
    BY DEF ReportInv
  <2>. QED
    BY <1>1, <2>1, <2>2, CyclePushed
<1>9. MemoOK(memo, E)
  BY <1>2, <1>3, MemoStaysOK DEF ReportInv
<1>10. Chain(work', scope', Reported')
  BY <1>4, <1>7
<1>11. recursive' # {} => CycleNoted(work', scope', depErrors')
  BY <1>4, <1>8
<1>12. MemoOK(memo', Reported')
  BY <1>4, <1>9
<1>13. outcome' # "done"
  OBVIOUS
<1>. QED
  BY <1>10, <1>11, <1>12, <1>13 DEF ReportInv

LEMMA PopReports ==
  ASSUME IsSequence(work), work # <<>>, ReportInv, outcome = "running",
         work' = Tail(work), Head(work).do \in Resumes,
         NEW t, scope' = t, ScopeOK(t, Reported'), Grows(t, Head(work).scope),
         Head(work).node \in DOMAIN t.inferred,
         Head(work).scope.errors \subseteq t.errors, depErrors \subseteq depErrors',
         Head(work).do = "ResumeModule" => scope.errors \subseteq depErrors',
         MemoOK(memo', Reported'), UNCHANGED <<recursive, outcome>>
  PROVE  ReportInv'
<1>. DEFINE v == Tail(work)
<1>0. v = <<>> \o Tail(work) /\ IsSequence(<<>>)
  BY NothingInstead, EmptySequence
<1>1. Replaces(v, work, <<>>)
  BY <1>0, ReplaceTop DEF IsSequence
<1>. HIDE DEF v
<1>2. PICK D, E, after : D = Reported /\ E = Reported' /\ after = depErrors'
  OBVIOUS
<1>3. D \subseteq E
  BY <1>2 DEF Reported
<1>4. work' = v /\ scope' = t /\ Reported' = E
  BY <1>2 DEF v
<1>5. Chain(work, scope, D)
  BY <1>2 DEF ReportInv
<1>6. Chain(v, t, E)
  BY <1>1, <1>3, <1>4, <1>5, ChainPopped
<1>7. recursive # {} => CycleNoted(v, t, after)
  <2>1. recursive # {} => CycleNoted(work, scope, depErrors)
    BY DEF ReportInv
  <2>. QED
    BY <1>1, <1>2, <2>1, CyclePopped
<1>8. Chain(work', scope', Reported')
  BY <1>4, <1>6
<1>9. recursive' # {} => CycleNoted(work', scope', depErrors')
  BY <1>2, <1>4, <1>7
<1>10. outcome' # "done"
  OBVIOUS
<1>. QED
  BY <1>8, <1>9, <1>10 DEF ReportInv

-----------------------------------------------------------------------------
(* Types, and what annotating a node does to a scope.                      *)

LEMMA NameCovered ==
  ASSUME NEW reasons, NEW w, w # "failed"
  PROVE  Covers(reasons, <<w>>)
BY PuttingOne DEF Covers, IsFailed

LEMMA PlainTypesCovered ==
  ASSUME NEW reasons
  PROVE  /\ Covers(reasons, Real) /\ Covers(reasons, AnyType) /\ Covers(reasons, Deferred)
         /\ Covers(reasons, ModuleType) /\ Covers(reasons, FunctionType)
<1>1. Covers(reasons, Real)
  BY NameCovered DEF Real
<1>2. Covers(reasons, AnyType)
  BY NameCovered DEF AnyType
<1>3. Covers(reasons, Deferred)
  BY NameCovered DEF Deferred
<1>4. Covers(reasons, ModuleType)
  BY NameCovered DEF ModuleType
<1>5. Covers(reasons, FunctionType)
  BY NameCovered DEF FunctionType
<1>. QED
  BY <1>1, <1>2, <1>3, <1>4, <1>5

LEMMA FailedCovered ==
  ASSUME NEW reasons, NEW why, why \in reasons
  PROVE  Covers(reasons, Failed(why))
<1>1. IsSequence(<<"failed", why>>) /\ <<"failed", why>>[2] = why
  BY PuttingTwo
<1>. QED
  BY <1>1 DEF Covers, Failed

LEMMA ArrayCovered ==
  ASSUME NEW reasons, NEW A, NEW t, Covers(A, t)
  PROVE  Covers(reasons, Array(t))
<1>. DEFINE a == <<"array">>
            c == a \o t
<1>1. IsSequence(a) /\ Len(a) = 1 /\ a[1] = "array"
  BY PuttingOne
<1>2. IsSequence(t)
  BY DEF Covers
<1>. HIDE DEF a
<1>3. Joins(c, a, t)
  BY <1>1, <1>2, Joined
<1>. HIDE DEF c
<1>4. IsSequence(c) /\ c[1] = "array"
  BY <1>1, <1>3 DEF Joins
<1>5. Array(t) = c
  BY DEF Array, a, c
<1>. QED
  BY <1>4, <1>5 DEF Covers, IsFailed

\* Scope t is scope s with node n annotated and more errors reported, or with
\* the annotation kept that was there.
Annotates(t, s, n, type, errors) ==
  /\ IsScope(t) /\ t.seeds = s.seeds /\ t.results = s.results
  /\ t.errors = s.errors \cup errors
  /\ DOMAIN t.inferred = DOMAIN s.inferred \cup {n}
  /\ \A x \in DOMAIN t.inferred :
       (x \in DOMAIN s.inferred /\ t.inferred[x] = s.inferred[x]) \/ t.inferred[x] = type

\* Function g is function f with something new at n.
Extends(g, f, n, type) ==
  /\ DOMAIN g = DOMAIN f \cup {n}
  /\ \A x \in DOMAIN g : (x \in DOMAIN f /\ g[x] = f[x]) \/ g[x] = type

LEMMA PutExtends ==
  ASSUME NEW f, NEW n, NEW type
  PROVE  Extends(Put(f, n, type), f, n, type) /\ Put(f, n, type)[n] = type
BY DEF Put, Extends

LEMMA PutNewExtends ==
  ASSUME NEW f, NEW n, NEW type
  PROVE  Extends(PutNew(f, n, type), f, n, type)
<1>1. CASE n \in DOMAIN f
  BY <1>1 DEF PutNew, Extends
<1>2. CASE n \notin DOMAIN f
  BY <1>2, PutExtends DEF PutNew
<1>. QED
  BY <1>1, <1>2

\* Scope t is scope s with these annotations and errors.
With(t, s, inferred, errors) ==
  /\ IsScope(t) /\ t.seeds = s.seeds /\ t.results = s.results
  /\ t.inferred = inferred /\ t.errors = errors /\ t.active = s.active

LEMMA AnnotationsReplaced ==
  ASSUME NEW s, IsScope(s), NEW f
  PROVE  With([s EXCEPT !.inferred = f], s, f, s.errors)
BY DEF IsScope, With

LEMMA ErrorsReplaced ==
  ASSUME NEW s, IsScope(s), NEW e
  PROVE  With([s EXCEPT !.errors = e], s, s.inferred, e)
BY DEF IsScope, With

LEMMA BothReplaced ==
  ASSUME NEW s, IsScope(s), NEW f, NEW e
  PROVE  With([s EXCEPT !.inferred = f, !.errors = e], s, f, e)
<1>. DEFINE t == [s EXCEPT !.inferred = f]
            u == [t EXCEPT !.errors = e]
<1>1. With(t, s, f, s.errors)
  BY AnnotationsReplaced
<1>2. [s EXCEPT !.inferred = f, !.errors = e] = u
  OBVIOUS
<1>. HIDE DEF t
<1>3. With(u, t, t.inferred, e)
  BY <1>1, ErrorsReplaced DEF With
<1>. HIDE DEF u
<1>. QED
  BY <1>1, <1>2, <1>3 DEF With

LEMMA WithAnnotates ==
  ASSUME NEW s, NEW t, NEW f, NEW n, NEW type, NEW errors,
         Extends(f, s.inferred, n, type), With(t, s, f, s.errors \cup errors)
  PROVE  Annotates(t, s, n, type, errors)
BY DEF Extends, With, Annotates

LEMMA Annotating ==
  ASSUME NEW s, IsScope(s), NEW n, NEW type, NEW errors
  PROVE  /\ Annotates([s EXCEPT !.inferred = Put(@, n, type)], s, n, type, {})
         /\ Annotates([s EXCEPT !.inferred = Put(@, n, type), !.errors = @ \cup errors],
                      s, n, type, errors)
         /\ Annotates([s EXCEPT !.inferred = PutNew(@, n, type), !.errors = @ \cup errors],
                      s, n, type, errors)
<1>1. /\ Extends(Put(s.inferred, n, type), s.inferred, n, type)
      /\ Extends(PutNew(s.inferred, n, type), s.inferred, n, type)
  BY PutExtends, PutNewExtends
<1>2. \A f : With([s EXCEPT !.inferred = f], s, f, s.errors \cup {})
  BY AnnotationsReplaced
<1>3. \A f : With([s EXCEPT !.inferred = f, !.errors = s.errors \cup errors], s, f,
                  s.errors \cup errors)
  BY BothReplaced
<1>4. Annotates([s EXCEPT !.inferred = Put(s.inferred, n, type)], s, n, type, {})
  BY <1>1, <1>2, WithAnnotates
<1>5. Annotates([s EXCEPT !.inferred = Put(s.inferred, n, type),
                          !.errors = s.errors \cup errors], s, n, type, errors)
  BY <1>1, <1>3, WithAnnotates
<1>6. Annotates([s EXCEPT !.inferred = PutNew(s.inferred, n, type),
                          !.errors = s.errors \cup errors], s, n, type, errors)
  BY <1>1, <1>3, WithAnnotates
<1>. QED
  BY <1>4, <1>5, <1>6

\* What it takes to keep a scope's failed types accounted for.
LEMMA AnnotatedOK ==
  ASSUME NEW s, NEW D, ScopeOK(s, D), NEW t, NEW n, NEW type, NEW errors,
         Annotates(t, s, n, type, errors), Covers(Context(s, D) \cup errors, type)
  PROVE  /\ ScopeOK(t, D) /\ Grows(t, s)
         /\ s.errors \subseteq t.errors /\ n \in DOMAIN t.inferred
<1>1. SeedReasons(t) = SeedReasons(s) /\ Context(t, D) = Context(s, D) \cup errors
  BY DEF SeedReasons, Context, Annotates
<1>2. AllCovered(Context(t, D), s.inferred) /\ AllCovered(Context(t, D), s.results)
  BY <1>1, CoversMore DEF ScopeOK
<1>3. AllCovered(Context(t, D), t.inferred)
  BY <1>1, <1>2 DEF AllCovered, Annotates
<1>. QED
  BY <1>1, <1>2, <1>3 DEF ScopeOK, Annotates, Grows

\* Scope t is scope s gone on, with its failed types accounted for.
GoesWell(t, s, D) ==
  ScopeOK(t, D) /\ Grows(t, s) /\ s.errors \subseteq t.errors

LEMMA AnnotationOK ==
  ASSUME NEW s, NEW D, ScopeOK(s, D), NEW n, NEW type, NEW errors,
         Covers(Context(s, D) \cup errors, type)
  PROVE  LET t == [s EXCEPT !.inferred = Put(@, n, type), !.errors = @ \cup errors]
             u == [s EXCEPT !.inferred = PutNew(@, n, type), !.errors = @ \cup errors]
         IN  /\ GoesWell(t, s, D) /\ n \in DOMAIN t.inferred
             /\ GoesWell(u, s, D) /\ n \in DOMAIN u.inferred
<1>. DEFINE t == [s EXCEPT !.inferred = Put(@, n, type), !.errors = @ \cup errors]
            u == [s EXCEPT !.inferred = PutNew(@, n, type), !.errors = @ \cup errors]
<1>1. Annotates(t, s, n, type, errors) /\ Annotates(u, s, n, type, errors)
  BY Annotating DEF ScopeOK
<1>. HIDE DEF t, u
<1>2. GoesWell(t, s, D) /\ n \in DOMAIN t.inferred
  BY <1>1, AnnotatedOK DEF GoesWell
<1>3. GoesWell(u, s, D) /\ n \in DOMAIN u.inferred
  BY <1>1, AnnotatedOK DEF GoesWell
<1>. QED
  BY <1>2, <1>3 DEF t, u

LEMMA QuietAnnotationOK ==
  ASSUME NEW s, NEW D, ScopeOK(s, D), NEW n, NEW type, Covers(Context(s, D), type)
  PROVE  LET t == [s EXCEPT !.inferred = Put(@, n, type)]
         IN  GoesWell(t, s, D) /\ n \in DOMAIN t.inferred
<1>. DEFINE t == [s EXCEPT !.inferred = Put(@, n, type)]
<1>1. Annotates(t, s, n, type, {})
  BY Annotating DEF ScopeOK
<1>2. Context(s, D) \cup {} = Context(s, D)
  OBVIOUS
<1>. HIDE DEF t
<1>3. GoesWell(t, s, D) /\ n \in DOMAIN t.inferred
  BY <1>1, <1>2, AnnotatedOK DEF GoesWell
<1>. QED
  BY <1>3 DEF t

\* The active bindings are nobody's reasons.
LEMMA ActiveOK ==
  ASSUME NEW s, NEW D, ScopeOK(s, D), NEW active
  PROVE  LET t == [s EXCEPT !.active = active]
         IN  GoesWell(t, s, D) /\ t.inferred = s.inferred
<1>. DEFINE t == [s EXCEPT !.active = active]
<1>1. /\ IsScope(t) /\ t.seeds = s.seeds /\ t.results = s.results
      /\ t.inferred = s.inferred /\ t.errors = s.errors
  BY DEF ScopeOK, IsScope
<1>. HIDE DEF t
<1>2. SeedReasons(t) = SeedReasons(s) /\ Context(t, D) = Context(s, D)
  BY <1>1 DEF SeedReasons, Context
<1>3. GoesWell(t, s, D) /\ t.inferred = s.inferred
  BY <1>1, <1>2 DEF ScopeOK, Grows, GoesWell
<1>. QED
  BY <1>3 DEF t

\* What an import or a callable returns may be remembered beside its type.
LEMMA ResultsOK ==
  ASSUME NEW s, NEW D, ScopeOK(s, D), NEW results, AllCovered(Context(s, D), results)
  PROVE  LET t == [s EXCEPT !.results = results]
         IN  GoesWell(t, s, D) /\ t.inferred = s.inferred
<1>. DEFINE t == [s EXCEPT !.results = results]
<1>1. /\ IsScope(t) /\ t.seeds = s.seeds /\ t.results = results
      /\ t.inferred = s.inferred /\ t.errors = s.errors
  BY DEF ScopeOK, IsScope
<1>. HIDE DEF t
<1>2. SeedReasons(t) = SeedReasons(s) /\ Context(t, D) = Context(s, D)
  BY <1>1 DEF SeedReasons, Context
<1>3. GoesWell(t, s, D) /\ t.inferred = s.inferred
  BY <1>1, <1>2 DEF ScopeOK, Grows, GoesWell
<1>. QED
  BY <1>3 DEF t

LEMMA PutCovered ==
  ASSUME NEW A, NEW f, AllCovered(A, f), NEW n, NEW type, Covers(A, type)
  PROVE  AllCovered(A, Put(f, n, type)) /\ AllCovered(A, PutNew(f, n, type))
<1>1. \A g : Extends(g, f, n, type) => AllCovered(A, g)
  BY DEF Extends, AllCovered
<1>. QED
  BY <1>1, PutExtends, PutNewExtends

LEMMA ResolvedOK ==
  ASSUME NEW s, NEW D, ScopeOK(s, D), NEW n, NEW dep, NEW annotations, NEW name,
         AllCovered(Context(s, D), annotations)
  PROVE  LET t == Resolved(s, n, dep, annotations, name)
         IN  GoesWell(t, s, D) /\ n \in DOMAIN t.inferred
<1>. DEFINE m == program[dep]
            rhs == Rhs(m, name)
            type == IF rhs \in DOMAIN annotations THEN annotations[rhs] ELSE Deferred
            result == IF Op(m, rhs) = "fun" /\ Body(m, rhs) \in DOMAIN annotations
                      THEN {annotations[Body(m, rhs)]} ELSE {}
            found == name \in Names(m) /\ BindingOf(m, name).public
            why == "cross-module resolution"
            failed == [s EXCEPT !.inferred = Put(@, n, Failed(why)), !.errors = @ \cup {why}]
            results == IF result = {} THEN s.results
                       ELSE Put(s.results, n, CHOOSE t \in result : TRUE)
            t == Resolved(s, n, dep, annotations, name)
<1>1. CASE ~found
  <2>1. t = failed
    BY <1>1 DEF Resolved
  <2>2. Covers(Context(s, D) \cup {why}, Failed(why))
    BY FailedCovered
  <2>3. GoesWell(failed, s, D) /\ n \in DOMAIN failed.inferred
    BY <2>2, AnnotationOK
  <2>. HIDE DEF failed, t
  <2>4. GoesWell(t, s, D) /\ n \in DOMAIN t.inferred
    BY <2>1, <2>3
  <2>. QED
    BY <2>4 DEF t
<1>2. CASE found
  <2>1. Covers(Context(s, D), type)
    BY PlainTypesCovered DEF AllCovered
  <2>2. \A x \in result : Covers(Context(s, D), x)
    BY DEF AllCovered
  <2>. DEFINE u == [s EXCEPT !.inferred = Put(s.inferred, n, type)]
              v == [u EXCEPT !.results = results]
  <2>3. t = [s EXCEPT !.inferred = Put(@, n, type),
                      !.results = IF result = {} THEN @
                                  ELSE Put(@, n, CHOOSE x \in result : TRUE)]
    BY <1>2 DEF Resolved
  <2>. HIDE DEF type, result
  <2>4. t = v
    <3>. HIDE DEF t
    <3>. QED
      BY <2>3
  <2>5. AllCovered(Context(s, D), results)
    <3>1. CASE result = {}
      BY <3>1 DEF ScopeOK
    <3>2. CASE result # {}
      <4>1. (CHOOSE x \in result : TRUE) \in result
        BY <3>2
      <4>. QED
        BY <2>2, <3>2, <4>1, PutCovered DEF ScopeOK
    <3>. QED
      BY <3>1, <3>2
  <2>. HIDE DEF results, t
  <2>6. GoesWell(u, s, D) /\ n \in DOMAIN u.inferred
    BY <2>1, QuietAnnotationOK
  <2>. HIDE DEF u
  <2>7. SeedReasons(u) = SeedReasons(s) /\ Context(s, D) \subseteq Context(u, D)
    BY <2>6 DEF GoesWell, Grows, SeedReasons, Context
  <2>8. AllCovered(Context(u, D), results)
    BY <2>5, <2>7, CoversMore
  <2>9. GoesWell(v, u, D) /\ v.inferred = u.inferred
    BY <2>6, <2>8, ResultsOK DEF GoesWell
  <2>. HIDE DEF v
  <2>10. GoesWell(t, s, D) /\ n \in DOMAIN t.inferred
    BY <2>4, <2>6, <2>9 DEF GoesWell, Grows
  <2>. QED
    BY <2>10 DEF t
<1>. QED
  BY <1>1, <1>2

-----------------------------------------------------------------------------
(* The same, action by action: first those that go on in their scope.      *)

LEMMA DropReports ==
  ASSUME ItemsInv, ReportInv, At(Item.do), Item.do \notin Resumes, work' = Tail(work),
         GoesWell(scope', scope, Reported),
         Item.do \in {"Enter", "Finish"} => Item.node \in DOMAIN scope'.inferred,
         UNCHANGED <<memo, depErrors, recursive, outcome>>
  PROVE  ReportInv'
<1>1. /\ IsSequence(work) /\ work # <<>> /\ outcome = "running" /\ Item = Head(work)
  BY DEF ItemsInv, At, Item
<1>2. Tail(work) = <<>> \o Tail(work) /\ IsSequence(<<>>) /\ 1..Len(<<>>) = {}
  BY <1>1, NothingInstead, EmptySequence
<1>3. PICK t : t = scope'
  OBVIOUS
<1>4. ScopeOK(t, Reported) /\ Grows(t, scope) /\ scope.errors \subseteq t.errors
  BY <1>3 DEF GoesWell
<1>5. HandsOn(<<>>, Head(work), t)
  BY <1>1, <1>3 DEF HandsOn
<1>. QED
  BY <1>1, <1>2, <1>3, <1>4, <1>5, StayReports

LEMMA LeaveReports ==
  ASSUME ItemsInv, ReportInv, LeaveBinding
  PROVE  ReportInv'
<1>. USE DEF session
<1>1. /\ At(Item.do) /\ Item.do = "Leave" /\ work' = Tail(work)
      /\ scope' = [scope EXCEPT !.active = SubSeq(@, 1, Len(@) - 1)]
      /\ UNCHANGED <<memo, depErrors, recursive, outcome>>
  BY DEF LeaveBinding, At
<1>2. ScopeOK(scope, Reported)
  BY <1>1 DEF ReportInv, Chain, At
<1>3. GoesWell(scope', scope, Reported)
  BY <1>1, <1>2, ActiveOK
<1>. QED
  BY <1>1, <1>3, DropReports DEF Resumes

LEMMA SeededReports ==
  ASSUME ItemsInv, ReportInv, EnterSeeded
  PROVE  ReportInv'
<1>. USE DEF session
<1>1. /\ At(Item.do) /\ Item.do = "Enter" /\ work' = Tail(work)
      /\ Item.node \in DOMAIN scope.seeds
      /\ scope' = [scope EXCEPT !.inferred = Put(@, Item.node, scope.seeds[Item.node])]
      /\ UNCHANGED <<memo, depErrors, recursive, outcome>>
  BY DEF EnterSeeded, At
<1>2. ScopeOK(scope, Reported)
  BY <1>1 DEF ReportInv, Chain, At
<1>3. Covers(Context(scope, Reported), scope.seeds[Item.node])
  BY <1>1, <1>2, CoversMore DEF ScopeOK, AllCovered, Context
<1>4. GoesWell(scope', scope, Reported) /\ Item.node \in DOMAIN scope'.inferred
  BY <1>1, <1>2, <1>3, QuietAnnotationOK
<1>. QED
  BY <1>1, <1>4, DropReports DEF Resumes

LEMMA KnownReports ==
  ASSUME ItemsInv, ReportInv, EnterKnown
  PROVE  ReportInv'
<1>. USE DEF session
<1>1. /\ At(Item.do) /\ Item.do = "Enter" /\ work' = Tail(work)
      /\ Item.node \in DOMAIN scope.inferred /\ scope' = scope
      /\ UNCHANGED <<memo, depErrors, recursive, outcome>>
  BY DEF EnterKnown, At, Known
<1>2. ScopeOK(scope, Reported)
  BY <1>1 DEF ReportInv, Chain, At
<1>3. GoesWell(scope', scope, Reported)
  BY <1>1, <1>2 DEF GoesWell, Grows
<1>. QED
  BY <1>1, <1>3, DropReports DEF Resumes

LEMMA VisitReports ==
  ASSUME ItemsInv, ReportInv, At(Item.do), Item.do \notin Resumes,
         NEW name, NEW front, IsSequence(front),
         \A i \in 1..Len(front) : front[i].do \notin Resumes,
         \A t : HandsOn(front, Head(work), t),
         VisitBinding(name, front \o Tail(work)),
         UNCHANGED <<memo, depErrors, recursive, outcome>>
  PROVE  ReportInv'
<1>. DEFINE rhs == Rhs(Mod, name)
            two == <<EnterItem(rhs), LeaveItem(name)>>
            why == "reference cycle"
<1>1. /\ IsSequence(work) /\ work # <<>> /\ outcome = "running" /\ Item = Head(work)
      /\ IsSequence(Tail(work)) /\ ScopeOK(scope, Reported)
  BY NothingInstead DEF ItemsInv, At, Item, ReportInv, Chain
<1>2. GoesWell(scope', scope, Reported)
  <2>1. Covers(Context(scope, Reported) \cup {why}, Failed(why))
    BY FailedCovered
  <2>2. GoesWell([scope EXCEPT !.inferred = Put(@, rhs, Failed(why)), !.errors = @ \cup {why}],
                 scope, Reported)
    BY <1>1, <2>1, AnnotationOK
  <2>3. \A active : GoesWell([scope EXCEPT !.active = active], scope, Reported)
    BY <1>1, ActiveOK
  <2>4. \/ scope' = [scope EXCEPT !.inferred = Put(@, rhs, Failed(why)), !.errors = @ \cup {why}]
        \/ \E active : scope' = [scope EXCEPT !.active = active]
    BY DEF VisitBinding
  <2>. QED
    BY <2>2, <2>3, <2>4
<1>3. PICK t : t = scope'
  OBVIOUS
<1>4. ScopeOK(t, Reported) /\ Grows(t, scope) /\ scope.errors \subseteq t.errors
  BY <1>2, <1>3 DEF GoesWell
<1>5. CASE work' = front \o Tail(work)
  BY <1>1, <1>3, <1>4, <1>5, StayReports
<1>6. CASE work' = two \o (front \o Tail(work))
  <2>. DEFINE items == two \o front
  <2>1. /\ IsSequence(two) /\ 1..Len(two) = {1, 2}
        /\ two[1] = EnterItem(rhs) /\ two[2] = LeaveItem(name)
    BY PuttingTwo
  <2>2. \A i \in 1..Len(two) : two[i].do \notin Resumes
    BY <2>1 DEF EnterItem, LeaveItem, Resumes
  <2>. HIDE DEF two
  <2>3. Joins(items, two, front)
    BY <2>1, Joined
  <2>. HIDE DEF items
  <2>4. items \o Tail(work) = two \o (front \o Tail(work)) /\ IsSequence(items)
    BY <1>1, <2>3 DEF Joins
  <2>5. ASSUME NEW i \in 1..Len(items)
        PROVE  items[i].do \notin Resumes
    <3>1. CASE i \in 1..Len(two)
      BY <2>2, <2>3, <3>1 DEF Joins
    <3>2. CASE i - Len(two) \in 1..Len(front)
      <4>. DEFINE j == i - Len(two)
      <4>1. items[Len(two) + j] = front[j] /\ Len(two) + j = i
        BY <2>3, <3>2 DEF Joins
      <4>. QED
        BY <3>2, <4>1
    <3>. QED
      BY <2>3, <3>1, <3>2 DEF Joins
  <2>6. HandsOn(items, Head(work), t)
    <3>1. Len(front) > 0 => /\ Len(items) > 0 /\ Len(front) \in 1..Len(front)
                            /\ items[Len(items)] = front[Len(front)]
      BY <2>3 DEF Joins
    <3>2. HandsOn(front, Head(work), t)
      OBVIOUS
    <3>. QED
      BY <3>1, <3>2 DEF HandsOn
  <2>. QED
    BY <1>1, <1>3, <1>4, <1>6, <2>4, <2>5, <2>6, StayReports
<1>. QED
  BY <1>5, <1>6 DEF VisitBinding

LEMMA BindingReports ==
  ASSUME ItemsInv, ReportInv, Binding
  PROVE  ReportInv'
<1>1. /\ At(Item.do) /\ Item.do = "Binding" /\ Item = Head(work) /\ work # <<>>
      /\ VisitBinding(Item.name, Tail(work))
      /\ UNCHANGED <<memo, depErrors, recursive, outcome>>
  BY DEF Binding, At, Item, session
<1>2. Tail(work) = <<>> \o Tail(work) /\ IsSequence(<<>>) /\ 1..Len(<<>>) = {}
  BY <1>1, NothingInstead, EmptySequence DEF ItemsInv
<1>3. VisitBinding(Item.name, <<>> \o Tail(work))
  BY <1>1, <1>2
<1>4. \A t : HandsOn(<<>>, Head(work), t)
  BY <1>1 DEF HandsOn
<1>5. Item.do \notin Resumes
  BY <1>1 DEF Resumes
<1>6. PICK name : name = Item.name
  OBVIOUS
<1>. QED
  BY <1>1, <1>2, <1>3, <1>4, <1>5, <1>6, VisitReports

LEMMA EnterRefReports ==
  ASSUME ItemsInv, ReportInv, EnterRef
  PROVE  ReportInv'
<1>. DEFINE n == Item.node
            front == <<FinishItem(n)>>
            name == Node.names[1]
<1>1. /\ At(Item.do) /\ Item.do = "Enter" /\ Item = Head(work)
      /\ VisitBinding(name, front \o Tail(work))
      /\ UNCHANGED <<memo, depErrors, recursive, outcome>>
  BY DEF EnterRef, Opens, At, Item, session
<1>2. IsSequence(front) /\ Len(front) = 1 /\ 1..Len(front) = {1} /\ front[1] = FinishItem(n)
  BY PuttingOne
<1>3. \A i \in 1..Len(front) : front[i].do \notin Resumes
  BY <1>2 DEF FinishItem, Resumes
<1>4. \A t : HandsOn(front, Head(work), t)
  BY <1>1, <1>2 DEF HandsOn, FinishItem
<1>5. Item.do \notin Resumes
  BY <1>1 DEF Resumes
<1>. HIDE DEF front, name
<1>. QED
  BY <1>1, <1>2, <1>3, <1>4, <1>5, VisitReports

LEMMA EnterNodeReports ==
  ASSUME ItemsInv, ReportInv, EnterNode
  PROVE  ReportInv'
<1>. DEFINE n == Item.node
            enters == [i \in DOMAIN Awaited |-> EnterItem(Awaited[i])]
            last == <<FinishItem(n)>>
            items == enters \o last
<1>1. /\ work # <<>> /\ Head(work).do = "Enter" /\ Item = Head(work)
      /\ work' = items \o Tail(work) /\ outcome = "running" /\ scope' = scope
      /\ UNCHANGED <<memo, depErrors, recursive, outcome>>
  BY DEF EnterNode, Opens, At, Item, session
<1>2. n \in DOMAIN Mod.nodes /\ IsSequence(Tail(work))
  BY <1>1, TopItemFits DEF Fits, Crossing
<1>3. PICK a : a = Awaited
  OBVIOUS
<1>4. Len(a) \in Nat /\ DOMAIN a = 1..Len(a)
  BY <1>2, <1>3, AwaitedInModule
<1>5. enters = [i \in 1..Len(a) |-> EnterItem(a[i])]
  BY <1>3, <1>4
<1>6. IsSequence(enters) /\ Len(enters) = Len(a)
  <2>. HIDE DEF enters
  <2>1. enters = [i \in 1..Len(a) |-> enters[i]]
    BY <1>5
  <2>. QED
    BY <1>4, <2>1, SequenceOf
<1>7. \A i \in 1..Len(enters) : enters[i].do \notin Resumes
  <2>1. \A i \in 1..Len(a) : enters[i] = EnterItem(a[i])
    BY <1>5
  <2>2. \A x : EnterItem(x).do \notin Resumes
    BY DEF EnterItem, Resumes
  <2>. HIDE DEF enters
  <2>. QED
    BY <1>6, <2>1, <2>2
<1>8. /\ IsSequence(last) /\ Len(last) = 1 /\ 1..Len(last) = {1}
      /\ last[1] = FinishItem(n)
  BY PuttingOne
<1>. HIDE DEF enters, last
<1>9. Joins(items, enters, last)
  BY <1>6, <1>8, Joined
<1>. HIDE DEF items
<1>10. /\ IsSequence(items) /\ Len(items) = Len(enters) + 1 /\ Len(enters) \in Nat
       /\ items[Len(items)] = FinishItem(n)
       /\ \A i \in 1..Len(enters) : items[i] = enters[i]
  BY <1>8, <1>9 DEF Joins
<1>11. \A i \in 1..Len(items) : i \in 1..Len(enters) \/ i = Len(items)
  BY <1>10
<1>12. \A i \in 1..Len(items) : items[i].do \notin Resumes
  BY <1>7, <1>10, <1>11 DEF FinishItem, Resumes
<1>13. PICK t : t = scope
  OBVIOUS
<1>14. ScopeOK(t, Reported) /\ Grows(t, scope) /\ scope.errors \subseteq t.errors
  BY <1>1, <1>13 DEF ReportInv, Chain, Grows
<1>15. HandsOn(items, Head(work), t)
  BY <1>1, <1>10 DEF HandsOn, FinishItem
<1>16. IsSequence(work) /\ Head(work).do \notin Resumes
  BY <1>1 DEF ItemsInv, Resumes
<1>. QED
  BY <1>1, <1>10, <1>12, <1>13, <1>14, <1>15, <1>16, StayReports

-----------------------------------------------------------------------------
(* Finishing of nodes: what they read is there and accounted for.          *)

LEMMA LeastNumber ==
  ASSUME NEW T \in SUBSET Nat, T # {}
  PROVE  \E m \in T : \A k \in T : m <= k
<1>. DEFINE R == {ss \in Nat \X Nat : ss[1] < ss[2]}
<1>1. IsWellFoundedOn(R, Nat)
  BY NatLessThanWellFounded DEF OpToRel
<1>2. \A x, y \in Nat : x < y => <<x, y>> \in R
  OBVIOUS
<1>. HIDE DEF R
<1>3. PICK m \in T : \A k \in T : ~ (<<k, m>> \in R)
  BY <1>1, WFMin
<1>4. \A k \in T : ~ (k < m)
  BY <1>2, <1>3
<1>. QED
  BY <1>4

\* A type that scope s may show when the session has reported D.
Fine(t) == Covers(Context(scope, Reported), t)

LEMMA AtFinish ==
  ASSUME ItemsInv, ReportInv, At("Finish")
  PROVE  /\ At(Item.do) /\ Item.do = "Finish" /\ Item = Head(work) /\ work # <<>>
         /\ IsSequence(work) /\ outcome = "running" /\ Item.do \notin Resumes
         /\ WellFormed(Mod) /\ Item.node \in DOMAIN Mod.nodes
         /\ Node.op \in Ops /\ Node.op = Op(Mod, Item.node)
         /\ ScopeOK(scope, Reported)
         /\ \A n : Known(n) => Fine(TypeOf(n))
<1>1. /\ At(Item.do) /\ Item.do = "Finish" /\ Item = Head(work) /\ work # <<>>
      /\ IsSequence(work) /\ outcome = "running" /\ Item.do \notin Resumes
      /\ WellFormed(Mod) /\ ScopeOK(scope, Reported)
  BY DEF At, Item, ItemsInv, ReportInv, Chain, Resumes
<1>2. Item.node \in DOMAIN Mod.nodes
  BY <1>1, TopItemFits DEF Fits, Crossing
<1>3. Node.op \in Ops /\ Node.op = Op(Mod, Item.node)
  BY <1>1, <1>2, ModuleFacts DEF Node, Op
<1>4. \A n : Known(n) => Fine(TypeOf(n))
  BY <1>1 DEF ScopeOK, AllCovered, Known, TypeOf, Fine
<1>. QED
  BY <1>1, <1>2, <1>3, <1>4

LEMMA KidsKnown ==
  ASSUME ItemsInv, ReportInv, At("Finish"), Complete, Node.op \notin {"ref", "import"}
  PROVE  /\ \A i \in DOMAIN Node.kids : Known(Node.kids[i]) /\ Fine(TypeOf(Node.kids[i]))
         /\ DOMAIN Node.kids = 1..Len(Node.kids) /\ Len(Node.kids) \in Nat
         /\ Node.op # "load" => Len(Node.kids) = Arity(Node.op)
<1>1. Node = Mod.nodes[Item.node]
  BY DEF Node
<1>2. ~IsRef(Mod, Item.node)
  BY AtFinish DEF IsRef
<1>3. Reads = Kids(Mod, Item.node)
  BY <1>2 DEF Reads
<1>4. \A i \in DOMAIN Node.kids : Node.kids[i] \in Kids(Mod, Item.node)
  BY <1>1 DEF Kids
<1>5. \A i \in DOMAIN Node.kids : Known(Node.kids[i]) /\ Fine(TypeOf(Node.kids[i]))
  BY <1>3, <1>4, AtFinish DEF Complete
<1>6. Node.kids \in Seq(DOMAIN Mod.nodes)
  BY <1>1, AtFinish, ModuleFacts
<1>7. Node.op # "load" => Len(Node.kids) = Arity(Node.op)
  BY <1>1, AtFinish DEF WellFormed
<1>. QED
  BY <1>5, <1>6, <1>7

LEMMA FirstFailedFine ==
  ASSUME ItemsInv, ReportInv, At("Finish"), Complete, Node.op \notin {"ref", "import"},
         NEW t, Fine(t)
  PROVE  Fine(FirstFailed(t))
<1>. DEFINE bad == {i \in DOMAIN Node.kids : IsFailed(TypeOf(Node.kids[i]))}
            first == CHOOSE i \in bad : \A j \in bad : i <= j
<1>1. CASE bad = {}
  BY <1>1 DEF FirstFailed
<1>2. CASE bad # {}
  <2>1. bad \in SUBSET Nat /\ bad \subseteq DOMAIN Node.kids
    BY KidsKnown
  <2>2. \E i \in bad : \A j \in bad : i <= j
    <3>. HIDE DEF bad
    <3>. QED
      BY <1>2, <2>1, LeastNumber
  <2>3. first \in bad
    <3>. HIDE DEF bad
    <3>. QED
      BY <2>2
  <2>4. FirstFailed(t) = TypeOf(Node.kids[first])
    BY <1>2 DEF FirstFailed
  <2>. HIDE DEF bad, first
  <2>. QED
    BY <2>1, <2>3, <2>4, KidsKnown
<1>. QED
  BY <1>1, <1>2

\* Errors reported while a node is finished give reasons, too.
LEMMA FinishReports ==
  ASSUME ItemsInv, ReportInv, At("Finish"), work' = Tail(work),
         NEW type, NEW errors, Covers(Context(scope, Reported) \cup errors, type),
         \/ scope' = [scope EXCEPT !.inferred = Put(@, Item.node, type),
                                   !.errors = @ \cup errors]
         \/ scope' = [scope EXCEPT !.inferred = PutNew(@, Item.node, type),
                                   !.errors = @ \cup errors],
         UNCHANGED <<memo, depErrors, recursive, outcome>>
  PROVE  ReportInv'
<1>1. PICK s, D, n : s = scope /\ D = Reported /\ n = Item.node
  OBVIOUS
<1>. DEFINE t == [s EXCEPT !.inferred = Put(@, n, type), !.errors = @ \cup errors]
            u == [s EXCEPT !.inferred = PutNew(@, n, type), !.errors = @ \cup errors]
<1>2. ScopeOK(s, D) /\ Covers(Context(s, D) \cup errors, type)
  BY <1>1, AtFinish
<1>3. GoesWell(t, s, D) /\ n \in DOMAIN t.inferred
  BY <1>2, AnnotationOK
<1>4. GoesWell(u, s, D) /\ n \in DOMAIN u.inferred
  BY <1>2, AnnotationOK
<1>5. scope' = t \/ scope' = u
  BY <1>1
<1>. HIDE DEF t, u
<1>6. GoesWell(scope', scope, Reported) /\ Item.node \in DOMAIN scope'.inferred
  BY <1>1, <1>3, <1>4, <1>5
<1>. QED
  BY <1>6, AtFinish, DropReports

LEMMA PlainTypeCovered ==
  ASSUME ItemsInv, ReportInv, At("Finish"), Node.op \notin {"import", "apply"}, Complete
  PROVE  Covers(Context(scope, Reported) \cup PlainErrors, PlainType)
<1>. DEFINE R == Context(scope, Reported)
<1>0. \A t : Fine(t) => Covers(R \cup PlainErrors, t)
  BY CoversMore DEF Fine
<1>1. CASE Refusal # {}
  <2>. DEFINE why == CHOOSE x \in Refusal : TRUE
  <2>1. why \in Refusal
    BY <1>1
  <2>2. Node.op # "load"
    BY <1>1 DEF Refusal
  <2>3. why \in R \cup PlainErrors
    BY <2>1, <2>2 DEF PlainErrors
  <2>4. PlainType = Failed(why)
    BY <1>1 DEF PlainType
  <2>. HIDE DEF why
  <2>5. Covers(R \cup PlainErrors, Failed(why))
    <3>. HIDE DEF R
    <3>. QED
      BY <2>3, FailedCovered
  <2>. QED
    BY <2>4, <2>5
<1>2. CASE Refusal = {}
  <2>1. Node.op \in {"literal", "external", "local", "hole", "ref", "vector", "load", "fun"}
    <3>1. Node.op # "unknown"
      BY <1>2 DEF Refusal
    <3>. QED
      BY <3>1, AtFinish DEF Ops
  <2>2. CASE Node.op \in {"literal", "external"}
    <3>0. ~IsRef(Mod, Item.node)
      BY <2>2, AtFinish DEF IsRef
    <3>1. PlainType = Real
      BY <1>2, <2>2, <3>0 DEF PlainType
    <3>. QED
      BY <1>0, <3>1, PlainTypesCovered
  <2>3. CASE Node.op \in {"local", "hole"}
    <3>0. ~IsRef(Mod, Item.node)
      BY <2>3, AtFinish DEF IsRef
    <3>1. PlainType = AnyType
      BY <1>2, <2>3, <3>0 DEF PlainType
    <3>. QED
      BY <1>0, <3>1, PlainTypesCovered
  <2>4. CASE Node.op = "ref"
    <3>1. IsRef(Mod, Item.node)
      BY <1>2, <2>4 DEF Refusal
    <3>2. PlainType = TypeOf(RefRhs(Mod, Item.node))
      BY <1>2, <2>4, <3>1 DEF PlainType
    <3>3. Known(RefRhs(Mod, Item.node))
      BY <3>1 DEF Complete, Reads
    <3>. QED
      BY <1>0, <3>2, <3>3, AtFinish
  <2>5. CASE Node.op = "vector"
    <3>1. Len(Node.kids) = 1 /\ 1 \in DOMAIN Node.kids
      BY <2>5, KidsKnown DEF Arity
    <3>2. Fine(TypeOf(Node.kids[1]))
      BY <2>5, <3>1, KidsKnown
    <3>3. Fine(Array(TypeOf(Node.kids[1])))
      BY <3>2, ArrayCovered DEF Fine
    <3>4. ~IsRef(Mod, Item.node)
      BY <2>5, AtFinish DEF IsRef
    <3>5. PlainType = FirstFailed(Array(TypeOf(Node.kids[1])))
      BY <1>2, <2>5, <3>4 DEF PlainType
    <3>. QED
      BY <1>0, <2>5, <3>3, <3>5, FirstFailedFine
  <2>6. CASE Node.op = "load"
    <3>1. ~IsRef(Mod, Item.node)
      BY <2>6, AtFinish DEF IsRef
    <3>2. PlainType = FirstFailed(ModuleType)
      BY <1>2, <2>6, <3>1 DEF PlainType
    <3>3. Fine(ModuleType)
      BY PlainTypesCovered DEF Fine
    <3>. QED
      BY <1>0, <2>6, <3>2, <3>3, FirstFailedFine
  <2>7. CASE Node.op = "fun"
    <3>1. ~IsRef(Mod, Item.node)
      BY <2>7, AtFinish DEF IsRef
    <3>2. PlainType = FunctionType
      BY <1>2, <2>7, <3>1 DEF PlainType
    <3>. QED
      BY <1>0, <3>2, PlainTypesCovered
  <2>. QED
    BY <2>1, <2>2, <2>3, <2>4, <2>5, <2>6, <2>7
<1>. QED
  BY <1>1, <1>2

LEMMA FinishPlainReports ==
  ASSUME ItemsInv, ReportInv, FinishPlain
  PROVE  ReportInv'
<1>1. /\ At("Finish") /\ work' = Tail(work)
      /\ Node.op \notin {"import", "apply"} /\ Complete
      /\ scope' = [scope EXCEPT !.inferred = PutNew(@, Item.node, PlainType),
                                !.errors = @ \cup PlainErrors]
      /\ UNCHANGED <<memo, depErrors, recursive, outcome>>
  BY DEF FinishPlain, session
<1>2. PICK type, errors : type = PlainType /\ errors = PlainErrors
  OBVIOUS
<1>3. Covers(Context(scope, Reported) \cup errors, type)
  BY <1>1, <1>2, PlainTypeCovered
<1>. QED
  BY <1>1, <1>2, <1>3, FinishReports

LEMMA SubstitutedFine ==
  ASSUME ItemsInv, ReportInv, At("Finish"), NEW alias, SubstKnown(alias)
  PROVE  /\ \A i \in DOMAIN SubstAnnos(alias) : Fine(SubstAnnos(alias)[i][2])
         /\ AnnoReasons(SubstAnnos(alias)) \subseteq Context(scope, Reported)
<1>. DEFINE subs == Substitutions(Mod, alias)
            annos == SubstAnnos(alias)
<1>1. annos = [i \in DOMAIN subs |-> <<subs[i][1], TypeOf(subs[i][2])>>]
  BY DEF SubstAnnos
<1>2. \A i \in DOMAIN subs : Fine(TypeOf(subs[i][2]))
  BY AtFinish DEF SubstKnown
<1>. HIDE DEF subs, annos
<1>3. \A i \in DOMAIN annos : Fine(annos[i][2])
  BY <1>1, <1>2
<1>4. AnnoReasons(annos) \subseteq Context(scope, Reported)
  BY <1>3 DEF AnnoReasons, Fine, Covers
<1>. QED
  BY <1>3, <1>4 DEF annos

LEMMA ImportReads ==
  ASSUME ItemsInv, ReportInv, FinishesImport
  PROVE  At("Finish") /\ SubstKnown(Node.names[1])
<1>1. At("Finish") /\ Node.op = "import" /\ Complete
  BY DEF FinishesImport
<1>2. ~IsRef(Mod, Item.node)
  BY <1>1, AtFinish DEF IsRef
<1>3. Reads = {s[2] : s \in Elements(Substitutions(Mod, Node.names[1]))}
  BY <1>1, <1>2 DEF Reads
<1>. QED
  BY <1>1, <1>3 DEF SubstKnown, Complete, Elements

LEMMA ImportFailsReports ==
  ASSUME ItemsInv, ReportInv, ImportFails
  PROVE  ReportInv'
<1>. DEFINE why == "cross-module resolution"
<1>1. /\ At("Finish") /\ work' = Tail(work)
      /\ scope' = [scope EXCEPT !.inferred = Put(@, Item.node, Failed(why)),
                                !.errors = @ \cup {why}]
      /\ UNCHANGED <<memo, depErrors, recursive, outcome>>
  BY DEF ImportFails, FinishesImport, session
<1>2. PICK type, errors : type = Failed(why) /\ errors = {why}
  OBVIOUS
<1>3. Covers(Context(scope, Reported) \cup {why}, Failed(why))
  BY FailedCovered
<1>. QED
  BY <1>1, <1>2, <1>3, FinishReports

LEMMA ImportRememberedReports ==
  ASSUME ItemsInv, ReportInv, ImportRemembered
  PROVE  ReportInv'
<1>. DEFINE annos == SubstAnnos(Node.names[1])
<1>1. PICK dep \in Sources(Node.names[1]) :
        /\ MemoKey(dep, annos) \in DOMAIN memo
        /\ scope' = Resolved(scope, Item.node, dep, memo[MemoKey(dep, annos)], Node.names[2])
  BY DEF ImportRemembered
<1>2. /\ At("Finish") /\ SubstKnown(Node.names[1]) /\ work' = Tail(work)
      /\ UNCHANGED <<memo, depErrors, recursive, outcome>>
  BY ImportReads DEF ImportRemembered, session
<1>3. ScopeOK(scope, Reported) /\ outcome # "done"
  BY <1>2, AtFinish
<1>4. AllCovered(Context(scope, Reported), memo[MemoKey(dep, annos)])
  <2>1. AllCovered(Reported \cup AnnoReasons(MemoKey(dep, annos)[2]), memo[MemoKey(dep, annos)])
    BY <1>1, <1>3 DEF ReportInv, MemoOK
  <2>2. MemoKey(dep, annos)[2] = annos
    BY DEF MemoKey
  <2>3. AnnoReasons(annos) \subseteq Context(scope, Reported)
    BY <1>2, SubstitutedFine
  <2>4. Reported \subseteq Context(scope, Reported)
    BY DEF Context
  <2>. QED
    BY <2>1, <2>2, <2>3, <2>4, CoversMore
<1>5. PICK s, D, n, annotations, name :
        /\ s = scope /\ D = Reported /\ n = Item.node
        /\ annotations = memo[MemoKey(dep, annos)] /\ name = Node.names[2]
  OBVIOUS
<1>6. /\ GoesWell(Resolved(s, n, dep, annotations, name), s, D)
      /\ n \in DOMAIN Resolved(s, n, dep, annotations, name).inferred
  BY <1>3, <1>4, <1>5, ResolvedOK
<1>7. GoesWell(scope', scope, Reported) /\ Item.node \in DOMAIN scope'.inferred
  BY <1>1, <1>5, <1>6
<1>. QED
  BY <1>2, <1>7, AtFinish, DropReports

LEMMA CallReads ==
  ASSUME ItemsInv, ReportInv, Applies
  PROVE  /\ At("Finish") /\ Known(Callee) /\ Known(Argument)
         /\ Fine(TypeOf(Callee)) /\ Fine(TypeOf(Argument))
<1>1. At("Finish") /\ Node.op = "apply" /\ Complete
  BY DEF Applies
<1>2. DOMAIN Node.kids = {1, 2}
  <2>1. Len(Node.kids) = 2 /\ DOMAIN Node.kids = 1..Len(Node.kids)
    BY <1>1, KidsKnown DEF Arity
  <2>. QED
    BY <2>1
<1>3. \A i \in DOMAIN Node.kids : Known(Node.kids[i]) /\ Fine(TypeOf(Node.kids[i]))
  BY <1>1, KidsKnown
<1>. QED
  BY <1>1, <1>2, <1>3 DEF Callee, Argument

LEMMA CallTypeCovered ==
  ASSUME ItemsInv, ReportInv, Applies
  PROVE  Covers(Context(scope, Reported) \cup IF Mismatch THEN {"argument bound whole"} ELSE {},
                CallType)
<1>. DEFINE why == "argument bound whole"
            errors == IF Mismatch THEN {why} ELSE {}
            R == Context(scope, Reported) \cup errors
<1>1. \A t : Fine(t) => Covers(R, t)
  BY CoversMore DEF Fine
<1>2. Covers(R, TypeOf(Argument))
  BY <1>1, CallReads
<1>3. Fine(Unsubstituted)
  <2>1. Fine(Deferred)
    BY PlainTypesCovered DEF Fine
  <2>2. \A n \in DOMAIN scope.results : Fine(scope.results[n])
    BY CallReads, AtFinish DEF ScopeOK, AllCovered, Fine
  <2>3. \A n : Known(n) => Fine(TypeOf(n))
    BY CallReads, AtFinish
  <2>. QED
    BY <2>1, <2>2, <2>3 DEF Unsubstituted
<1>4. Covers(R, IF Mismatch THEN Failed(why) ELSE Unsubstituted)
  <2>1. CASE Mismatch
    <3>1. why \in R
      BY <2>1
    <3>. HIDE DEF R
    <3>2. Covers(R, Failed(why))
      BY <3>1, FailedCovered
    <3>. QED
      BY <2>1, <3>2
  <2>2. CASE ~Mismatch
    BY <1>1, <1>3, <2>2
  <2>. QED
    BY <2>1, <2>2
<1>. HIDE DEF R
<1>5. Covers(R, CallType)
  BY <1>2, <1>4 DEF CallType, WithArgument
<1>. QED
  BY <1>5 DEF R

LEMMA ApplyPlainReports ==
  ASSUME ItemsInv, ReportInv, ApplyPlain
  PROVE  ReportInv'
<1>1. /\ Applies /\ work' = Tail(work)
      /\ scope' = [scope EXCEPT !.inferred = PutNew(@, Item.node, CallType),
                                !.errors = @ \cup IF Mismatch THEN {"argument bound whole"} ELSE {}]
      /\ UNCHANGED <<memo, depErrors, recursive, outcome>>
  BY DEF ApplyPlain, session
<1>2. PICK type, errors :
        type = CallType /\ errors = IF Mismatch THEN {"argument bound whole"} ELSE {}
  OBVIOUS
<1>3. Covers(Context(scope, Reported) \cup errors, type)
  BY <1>1, <1>2, CallTypeCovered
<1>. QED
  BY <1>1, <1>2, <1>3, CallReads, FinishReports

-----------------------------------------------------------------------------
(* Scopes that are opened.                                                 *)

LEMMA OwnReasons ==
  ASSUME NEW s, NEW A, AllCovered(A, s.seeds)
  PROVE  AllCovered(SeedReasons(s), s.seeds)
BY DEF SeedReasons, AllCovered, Covers

LEMMA FreshFields ==
  ASSUME NEW seeds
  PROVE  LET s == Fresh(seeds) IN
         /\ IsScope(s) /\ s.seeds = seeds /\ s.inferred = <<>>
         /\ s.results = <<>> /\ s.errors = {}
BY DEF Fresh, IsScope

LEMMA FreshOK ==
  ASSUME NEW seeds, NEW A, AllCovered(A, seeds), NEW D
  PROVE  ScopeOK(Fresh(seeds), D)
<1>. DEFINE s == Fresh(seeds)
<1>1. /\ IsScope(s) /\ s.seeds = seeds /\ s.inferred = <<>>
      /\ s.results = <<>> /\ s.errors = {}
  BY FreshFields
<1>. HIDE DEF s
<1>2. AllCovered(SeedReasons(s), s.seeds)
  BY <1>1, OwnReasons
<1>3. \A R : AllCovered(R, <<>>)
  BY DEF AllCovered
<1>. QED
  BY <1>1, <1>2, <1>3 DEF ScopeOK, s

LEMMA InitializedOK ==
  ASSUME NEW m, NEW seeds, NEW A, AllCovered(A, seeds), NEW D
  PROVE  /\ ScopeOK(Initialized(m, seeds), D) /\ Initialized(m, seeds).seeds = seeds
         /\ RecursiveBodies(m) # {} => Cyclic \in Initialized(m, seeds).errors
<1>. DEFINE bad == RecursiveNames(m)
            f == [n \in {Rhs(m, b) : b \in bad} |-> Failed(Cyclic)]
            e == IF bad = {} THEN {} ELSE {Cyclic}
            s == Fresh(seeds)
            t == Initialized(m, seeds)
<1>1. /\ IsScope(s) /\ s.seeds = seeds /\ s.results = <<>> /\ ScopeOK(s, D)
  BY FreshFields, FreshOK
<1>2. t = [s EXCEPT !.inferred = f, !.errors = e]
  BY DEF Initialized, Cyclic
<1>3. \A n \in DOMAIN f : Covers(e, f[n])
  <2>. TAKE n \in DOMAIN f
  <2>1. bad # {}
    OBVIOUS
  <2>2. Cyclic \in e
    BY <2>1
  <2>3. f[n] = Failed(Cyclic)
    OBVIOUS
  <2>. HIDE DEF e, f
  <2>. QED
    BY <2>2, <2>3, FailedCovered
<1>4. RecursiveBodies(m) # {} => Cyclic \in e
  BY DEF RecursiveBodies
<1>. HIDE DEF bad, f, e, s, t
<1>5. With(t, s, f, e)
  BY <1>1, <1>2, BothReplaced
<1>6. /\ IsScope(t) /\ t.seeds = seeds /\ t.results = <<>> /\ t.inferred = f /\ t.errors = e
  BY <1>1, <1>5 DEF With
<1>7. AllCovered(SeedReasons(t), t.seeds)
  BY <1>6, OwnReasons
<1>8. AllCovered(Context(t, D), t.inferred)
  <2>1. AllCovered(e, f) /\ e \subseteq Context(t, D)
    BY <1>3, <1>6 DEF AllCovered, Context
  <2>. QED
    BY <1>6, <2>1, CoversMore
<1>9. AllCovered(Context(t, D), t.results)
  BY <1>6 DEF AllCovered
<1>. QED
  BY <1>4, <1>6, <1>7, <1>8, <1>9 DEF ScopeOK, t

LEMMA SeedPlanFrom ==
  ASSUME NEW m, NEW annos, NEW R, \A i \in DOMAIN annos : Covers(R, annos[i][2])
  PROVE  AllCovered(R, SeedPlan(m, annos))
<1>. DEFINE bound == {i \in DOMAIN annos : annos[i][1] \in Names(m)}
            at(n) == CHOOSE i \in bound : Rhs(m, annos[i][1]) = n
            plan == [n \in {Rhs(m, annos[i][1]) : i \in bound} |-> annos[at(n)][2]]
<1>1. SeedPlan(m, annos) = plan
  BY DEF SeedPlan
<1>2. ASSUME NEW n \in {Rhs(m, annos[i][1]) : i \in bound}
      PROVE  at(n) \in DOMAIN annos
  <2>1. \E i \in bound : Rhs(m, annos[i][1]) = n
    BY <1>2
  <2>2. at(n) \in bound
    BY <2>1
  <2>. QED
    BY <2>2
<1>. HIDE DEF bound, at
<1>3. \A n \in DOMAIN plan : Covers(R, plan[n])
  BY <1>2
<1>. QED
  BY <1>1, <1>3 DEF AllCovered

\* What the scope that suspends itself has to be looked at for.
LEMMA LinkFrom ==
  ASSUME NEW f, NEW t, NEW D, NEW E, D \subseteq E,
         AllCovered(Context(f.scope, D), t.seeds),
         f.do = "ResumeModule" =>
           /\ \A i \in DOMAIN f.key[2] : Covers(Context(f.scope, D), f.key[2][i][2])
           /\ AllCovered(AnnoReasons(f.key[2]), t.seeds),
         f.do = "ResumeBody" => Covers(Context(f.scope, D), f.arg)
  PROVE  Link(f, t, E)
<1>1. Link(f, t, D)
  BY DEF Link
<1>. QED
  BY <1>1, LinkStays

LEMMA ImportInfersReports ==
  ASSUME ItemsInv, ReportInv, ImportInfers
  PROVE  ReportInv'
<1>. DEFINE R(key) == [do |-> "ResumeModule", node |-> Item.node, here |-> here,
                       scope |-> scope, key |-> key, export |-> Node.names[2]]
            annos == SubstAnnos(Node.names[1])
<1>1. PICK dep \in Sources(Node.names[1]) :
        /\ scope' = Initialized(program[dep], SeedPlan(program[dep], annos))
        /\ work' = Schedule(program[dep]) \o <<R(MemoKey(dep, annos))>> \o Tail(work)
        /\ recursive' = recursive \cup RecursiveBodies(program[dep])
  BY DEF ImportInfers
<1>. DEFINE m == program[dep]
            key == MemoKey(dep, annos)
            resume == R(key)
            schedule == Schedule(m)
            last == <<resume>>
            items == schedule \o last
<1>2. /\ At("Finish") /\ SubstKnown(Node.names[1])
      /\ UNCHANGED <<program, memo, depErrors, outcome>>
  BY ImportReads DEF ImportInfers
<1>3. /\ work # <<>> /\ IsSequence(work) /\ outcome = "running" /\ Item = Head(work)
      /\ Head(work).do = "Finish" /\ ScopeOK(scope, Reported)
  BY <1>2, AtFinish
<1>4. dep \in DOMAIN program /\ WellFormed(m)
  BY SourcesInBundle, ProgramsAssumption DEF ItemsInv
<1>5. Len(m.binds) \in Nat /\ DOMAIN m.binds = 1..Len(m.binds)
  BY <1>4, ModuleFacts
<1>6. schedule = [i \in 1..Len(m.binds) |-> BindingItem(m.binds[i].name)]
  BY <1>5 DEF Schedule
<1>7. IsSequence(schedule) /\ Len(schedule) = Len(m.binds)
  <2>. HIDE DEF schedule
  <2>1. schedule = [i \in 1..Len(m.binds) |-> schedule[i]]
    BY <1>6
  <2>. QED
    BY <1>5, <2>1, SequenceOf
<1>8. \A i \in 1..Len(schedule) : schedule[i].do \notin Resumes
  <2>1. \A i \in 1..Len(m.binds) : schedule[i] = BindingItem(m.binds[i].name)
    BY <1>6
  <2>2. \A x : BindingItem(x).do \notin Resumes
    BY DEF BindingItem, Resumes
  <2>. HIDE DEF schedule, m
  <2>. QED
    BY <1>7, <2>1, <2>2
<1>9. IsSequence(last) /\ Len(last) = 1 /\ last[1] = resume
  BY PuttingOne
<1>10. /\ resume.do = "ResumeModule" /\ resume.scope = scope /\ resume.key[2] = annos
       /\ resume.node = Head(work).node /\ resume.do \in Resumes
  BY <1>3 DEF Resumes, MemoKey
<1>11. work' = items \o Tail(work)
  BY <1>1
<1>. HIDE DEF schedule, last, resume
<1>12. Joins(items, schedule, last)
  BY <1>7, <1>9, Joined
<1>. HIDE DEF items
<1>13. /\ IsSequence(items) /\ Len(items) > 0 /\ Len(items) = Len(schedule) + 1
       /\ items[Len(items)] = resume
       /\ \A i \in 1..(Len(items) - 1) : i \in 1..Len(schedule) /\ items[i] = schedule[i]
  BY <1>9, <1>12 DEF Joins
<1>14. \A i \in 1..(Len(items) - 1) : items[i].do \notin Resumes
  BY <1>8, <1>13
<1>15. PICK t, D, E : t = scope' /\ D = Reported /\ E = Reported'
  OBVIOUS
<1>16. D \subseteq E
  BY <1>1, <1>2, <1>15 DEF Reported
<1>17. /\ \A i \in DOMAIN annos : Covers(Context(scope, D), annos[i][2])
  BY <1>2, <1>15, SubstitutedFine DEF Fine
<1>18. AllCovered(Context(scope, D), SeedPlan(m, annos))
  BY <1>17, SeedPlanFrom
<1>19. AllCovered(AnnoReasons(annos), SeedPlan(m, annos))
  <2>1. \A i \in DOMAIN annos : Covers(AnnoReasons(annos), annos[i][2])
    BY <1>17 DEF Covers, AnnoReasons
  <2>. QED
    BY <2>1, SeedPlanFrom
<1>20. /\ ScopeOK(t, E) /\ t.seeds = SeedPlan(m, annos)
       /\ RecursiveBodies(m) # {} => Cyclic \in t.errors
  BY <1>1, <1>15, <1>18, InitializedOK
<1>21. Link(resume, t, E)
  <2>1. /\ AllCovered(Context(resume.scope, D), t.seeds)
        /\ \A i \in DOMAIN resume.key[2] : Covers(Context(resume.scope, D), resume.key[2][i][2])
        /\ AllCovered(AnnoReasons(resume.key[2]), t.seeds)
        /\ resume.do # "ResumeBody"
    BY <1>10, <1>17, <1>18, <1>19, <1>20
  <2>. HIDE DEF annos, m, key
  <2>. QED
    BY <1>16, <2>1, LinkFrom
<1>22. Waits(work', Len(work), t)
  <2>1. Replaces(work', work, items)
    BY <1>3, <1>11, <1>13, ReplaceTop DEF IsSequence
  <2>2. Head(work).do \notin Resumes
    BY <1>3 DEF Resumes
  <2>3. Under(work', Len(work)) = items[Len(items)]
    BY <1>10, <1>13, <1>14, <2>1, <2>2, MarkPushed
  <2>. QED
    BY <1>10, <1>13, <2>3 DEF Waits
<1>23. /\ recursive # {} => recursive' # {}
       /\ recursive' # {} /\ recursive = {} => resume.do = "ResumeModule" /\ Cyclic \in t.errors
  BY <1>1, <1>10, <1>20
<1>. QED
  BY <1>2, <1>3, <1>10, <1>11, <1>13, <1>14, <1>15, <1>20, <1>21, <1>22, <1>23, PushReports

\* A scope that a call opens waits for the node on top of it.
LEMMA WaitsForEntered ==
  ASSUME NEW w, NEW v, NEW items, Replaces(v, w, items), Len(items) = 2,
         items[2].do \in Resumes, items[1] = EnterItem(Target(items[2])), NEW t
  PROVE  Waits(v, Len(w), t)
<1>1. Len(w) \in Nat \ {0} /\ Len(v) = Len(w) + 1
  BY DEF Replaces
<1>2. /\ Len(w) \in Len(w)..Len(v) /\ Len(v) + 1 - Len(w) = 2
      /\ Len(w) + 1 \in Len(w)..Len(v) /\ Len(v) + 1 - (Len(w) + 1) = 1
  BY <1>1
<1>3. Under(v, Len(w)) = items[2] /\ Under(v, Len(w) + 1) = items[1]
  BY <1>2 DEF Replaces
<1>4. items[1].do = "Enter" /\ items[1].node = Target(items[2])
  BY DEF EnterItem
<1>. QED
  BY <1>1, <1>3, <1>4 DEF Waits, Lies

\* One that has its result already does not wait.
LEMMA WaitsForNothing ==
  ASSUME NEW w, NEW v, NEW items, Replaces(v, w, items), Len(items) = 1,
         NEW t, Target(items[1]) \in DOMAIN t.inferred
  PROVE  Waits(v, Len(w), t)
<1>1. Len(w) \in Nat \ {0} /\ Len(v) = Len(w)
  BY DEF Replaces
<1>2. Len(w) \in Len(w)..Len(v) /\ Len(v) + 1 - Len(w) = 1
  BY <1>1
<1>3. Under(v, Len(w)) = items[1]
  BY <1>2 DEF Replaces
<1>. QED
  BY <1>3 DEF Waits

LEMMA ApplyBodyReports ==
  ASSUME ItemsInv, ReportInv, ApplyBody
  PROVE  ReportInv'
<1>. DEFINE body == Body(Mod, LocalReification(Mod, Callee))
            seeds == [n \in BodyInputs \cup DOMAIN scope.seeds |->
                        IF n \in BodyInputs THEN TypeOf(Argument) ELSE scope.seeds[n]]
            resume == [do |-> "ResumeBody", node |-> Item.node, body |-> body,
                       arg |-> TypeOf(Argument), scope |-> scope]
            failing == [Fresh(seeds) EXCEPT !.inferred =
                          Put(@, body, Failed("recursive definition"))]
<1>1. /\ Applies /\ UNCHANGED <<memo, depErrors, recursive, outcome>>
      /\ \/ /\ body \in recursive /\ scope' = failing
            /\ work' = <<resume>> \o Tail(work)
         \/ /\ scope' = Fresh(seeds)
            /\ work' = <<EnterItem(body), resume>> \o Tail(work)
  BY DEF ApplyBody, session
<1>2. /\ work # <<>> /\ IsSequence(work) /\ outcome = "running" /\ Item = Head(work)
      /\ Head(work).do = "Finish" /\ ScopeOK(scope, Reported) /\ Fine(TypeOf(Argument))
  BY <1>1, AtFinish, CallReads
<1>3. /\ resume.do = "ResumeBody" /\ resume.scope = scope /\ resume.arg = TypeOf(Argument)
      /\ resume.node = Head(work).node /\ resume.do \in Resumes /\ Target(resume) = body
  BY <1>2 DEF Resumes, Target
<1>4. AllCovered(Context(scope, Reported), seeds)
  <2>1. \A n \in DOMAIN scope.seeds : Fine(scope.seeds[n])
    BY <1>2, CoversMore DEF ScopeOK, AllCovered, Context, Fine
  <2>. QED
    BY <1>2, <2>1 DEF AllCovered, Fine
<1>5. PICK t, D : t = scope' /\ D = Reported
  OBVIOUS
<1>6. Reported' = D
  BY <1>1, <1>5 DEF Reported
<1>7. EnterItem(body).do \notin Resumes
  BY DEF EnterItem, Resumes
<1>. HIDE DEF body, seeds, resume
<1>8. ScopeOK(Fresh(seeds), D) /\ Fresh(seeds).seeds = seeds
  BY <1>4, FreshOK, FreshFields
<1>9. \A u : u.seeds = seeds => Link(resume, u, D)
  <2>. TAKE u
  <2>. HAVE u.seeds = seeds
  <2>1. /\ AllCovered(Context(resume.scope, D), u.seeds) /\ Covers(Context(resume.scope, D), resume.arg)
        /\ resume.do # "ResumeModule" /\ D \subseteq D
    BY <1>2, <1>3, <1>4, <1>5 DEF Fine
  <2>. QED
    BY <2>1, LinkFrom
<1>10. CASE body \in recursive /\ scope' = failing /\ work' = <<resume>> \o Tail(work)
  <2>. DEFINE items == <<resume>>
  <2>1. /\ IsSequence(items) /\ Len(items) = 1 /\ items[1] = resume
        /\ 1..(Len(items) - 1) = {}
    BY PuttingOne
  <2>. HIDE DEF items
  <2>2. work' = items \o Tail(work)
    BY <1>10 DEF items
  <2>3. Covers(Context(Fresh(seeds), D), Failed("recursive definition"))
    <3>1. "recursive definition" \in Context(Fresh(seeds), D)
      BY <1>5, <1>10 DEF Context, Reported, Cyclic
    <3>. QED
      BY <3>1, FailedCovered
  <2>4. GoesWell(failing, Fresh(seeds), D) /\ body \in DOMAIN failing.inferred
    BY <1>8, <2>3, QuietAnnotationOK
  <2>. HIDE DEF failing
  <2>5. ScopeOK(t, D) /\ t.seeds = seeds /\ body \in DOMAIN t.inferred
    BY <1>5, <1>8, <1>10, <2>4 DEF GoesWell, Grows
  <2>6. Link(resume, t, D)
    BY <1>9, <2>5
  <2>7. Replaces(work', work, items)
    BY <1>2, <2>1, <2>2, ReplaceTop DEF IsSequence
  <2>8. Waits(work', Len(work), t)
    BY <1>3, <2>1, <2>5, <2>7, WaitsForNothing
  <2>9. /\ \A i \in 1..(Len(items) - 1) : items[i].do \notin Resumes
        /\ Len(items) > 0
    BY <2>1
  <2>. QED
    BY <1>1, <1>2, <1>3, <1>5, <1>6, <2>1, <2>2, <2>5, <2>6, <2>8, <2>9, PushReports
<1>11. CASE scope' = Fresh(seeds) /\ work' = <<EnterItem(body), resume>> \o Tail(work)
  <2>. DEFINE items == <<EnterItem(body), resume>>
  <2>1. /\ IsSequence(items) /\ Len(items) = 2
        /\ items[1] = EnterItem(body) /\ items[2] = resume /\ 1..(Len(items) - 1) = {1}
    <3>1. Len(items) - 1 = 1
      BY PuttingTwo
    <3>. QED
      BY <3>1, PuttingTwo
  <2>. HIDE DEF items
  <2>2. work' = items \o Tail(work)
    BY <1>11 DEF items
  <2>3. ScopeOK(t, D) /\ t.seeds = seeds
    BY <1>5, <1>8, <1>11
  <2>4. Link(resume, t, D)
    BY <1>9, <2>3
  <2>5. Replaces(work', work, items)
    BY <1>2, <2>1, <2>2, ReplaceTop DEF IsSequence
  <2>6. Waits(work', Len(work), t)
    BY <1>3, <2>1, <2>5, WaitsForEntered
  <2>7. \A i \in 1..(Len(items) - 1) : items[i].do \notin Resumes
    BY <1>7, <2>1
  <2>8. Len(items) > 0
    BY <2>1
  <2>. QED
    BY <1>1, <1>2, <1>3, <1>5, <1>6, <2>1, <2>2, <2>3, <2>4, <2>6, <2>7, <2>8, PushReports
<1>. QED
  BY <1>1, <1>10, <1>11

LEMMA ApplyImportedReports ==
  ASSUME ItemsInv, ReportInv, ApplyImported
  PROVE  ReportInv'
<1>. DEFINE annos == SubstAnnos(Imported.names[1])
            Seeds(m) == Put(SeedPlan(m, annos), CallArgument(m), TypeOf(Argument))
            R(m) == [do |-> "ResumeCall", node |-> Item.node, root |-> CallRoot(m),
                     here |-> here, scope |-> scope]
<1>1. PICK dep \in CallScopes :
        /\ scope' = Fresh(Seeds(program[dep]))
        /\ work' = <<EnterItem(CallRoot(program[dep])), R(program[dep])>> \o Tail(work)
  BY DEF ApplyImported
<1>. DEFINE m == program[dep]
            seeds == Seeds(m)
            resume == R(m)
            enter == EnterItem(CallRoot(m))
            items == <<enter, resume>>
<1>2. Applies /\ UNCHANGED <<memo, depErrors, recursive, outcome>>
  BY DEF ApplyImported
<1>3. /\ work # <<>> /\ IsSequence(work) /\ outcome = "running" /\ Item = Head(work)
      /\ Head(work).do = "Finish" /\ ScopeOK(scope, Reported) /\ Fine(TypeOf(Argument))
      /\ At("Finish")
  BY <1>2, AtFinish, CallReads
<1>4. SubstKnown(Imported.names[1])
  BY DEF CallScopes
<1>5. AllCovered(Context(scope, Reported), seeds)
  <2>1. AllCovered(Context(scope, Reported), SeedPlan(m, annos))
    BY <1>3, <1>4, SubstitutedFine, SeedPlanFrom DEF Fine
  <2>. QED
    BY <1>3, <2>1, PutCovered DEF Fine
<1>6. /\ resume.do = "ResumeCall" /\ resume.scope = scope
      /\ resume.node = Head(work).node /\ resume.do \in Resumes /\ Target(resume) = CallRoot(m)
  BY <1>3 DEF Resumes, Target
<1>7. enter.do \notin Resumes
  BY DEF EnterItem, Resumes
<1>8. work' = items \o Tail(work) /\ scope' = Fresh(seeds)
  BY <1>1
<1>9. PICK t, D : t = scope' /\ D = Reported
  OBVIOUS
<1>10. Reported' = D
  BY <1>2, <1>9 DEF Reported
<1>11. enter = EnterItem(Target(resume))
  BY <1>6
<1>. HIDE DEF seeds, resume, enter
<1>12. /\ IsSequence(items) /\ Len(items) = 2
       /\ items[1] = enter /\ items[2] = resume /\ 1..(Len(items) - 1) = {1}
  <2>1. Len(items) - 1 = 1
    BY PuttingTwo
  <2>. QED
    BY <2>1, PuttingTwo
<1>. HIDE DEF items
<1>13. ScopeOK(t, D) /\ t.seeds = seeds
  BY <1>5, <1>8, <1>9, FreshOK, FreshFields
<1>14. Link(resume, t, D)
  <2>1. /\ AllCovered(Context(resume.scope, D), t.seeds)
        /\ resume.do # "ResumeModule" /\ resume.do # "ResumeBody" /\ D \subseteq D
    BY <1>5, <1>6, <1>9, <1>13
  <2>. QED
    BY <2>1, LinkFrom
<1>15. Replaces(work', work, items)
  BY <1>3, <1>8, <1>12, ReplaceTop DEF IsSequence
<1>16. Waits(work', Len(work), t)
  BY <1>6, <1>11, <1>12, <1>15, WaitsForEntered
<1>17. /\ \A i \in 1..(Len(items) - 1) : items[i].do \notin Resumes
       /\ Len(items) > 0
  BY <1>7, <1>12
<1>. QED
  BY <1>2, <1>3, <1>6, <1>8, <1>9, <1>10, <1>12, <1>13, <1>14, <1>16, <1>17, PushReports

-----------------------------------------------------------------------------
(* Scopes that end.                                                        *)

\* What the item that suspended a scope promises of the one above it.
LEMMA AtResume ==
  ASSUME ItemsInv, ReportInv, At(Item.do), Item.do \in Resumes
  PROVE  /\ IsSequence(work) /\ work # <<>> /\ outcome = "running" /\ Item = Head(work)
         /\ ScopeOK(scope, Reported) /\ ScopeOK(Item.scope, Reported)
         /\ Link(Item, scope, Reported)
         /\ Item.do \in {"ResumeBody", "ResumeCall"} => Known(Target(Item))
         /\ SeedReasons(scope) \subseteq Context(Item.scope, Reported)
<1>1. /\ IsSequence(work) /\ work # <<>> /\ outcome = "running" /\ Item = Head(work)
      /\ Chain(work, scope, Reported)
  BY DEF ItemsInv, At, Item, ReportInv
<1>2. Replaces(Tail(work), work, <<>>)
  <2>1. Tail(work) = <<>> \o Tail(work) /\ IsSequence(<<>>)
    BY <1>1, NothingInstead, EmptySequence
  <2>. QED
    BY <1>1, <2>1, ReplaceTop DEF IsSequence
<1>3. PICK L : L = Len(work)
  OBVIOUS
<1>4. /\ L \in Frames(work) /\ Under(work, L) = Item /\ ScopesOver(work, scope, L) = {scope}
      /\ L \in Nat
  BY <1>1, <1>2, <1>3, OverPopped
<1>5. ScopeOK(Item.scope, Reported) /\ Link(Item, scope, Reported) /\ Waits(work, L, scope)
  BY <1>1, <1>4 DEF Chain
<1>6. Item.do \in {"ResumeBody", "ResumeCall"} => Known(Target(Item))
  <2>1. ~(L + 1 <= Len(work))
    BY <1>3, <1>4
  <2>. QED
    BY <1>4, <1>5, <2>1 DEF Waits, Known
<1>7. SeedReasons(scope) \subseteq Context(Item.scope, Reported)
  BY <1>5 DEF Link, AllCovered, Covers, SeedReasons
<1>. QED
  BY <1>1, <1>5, <1>6, <1>7 DEF Chain

LEMMA ResumeModuleReports ==
  ASSUME ItemsInv, ReportInv, ResumeModule
  PROVE  ReportInv'
<1>1. /\ At(Item.do) /\ Item.do = "ResumeModule" /\ Item.do \in Resumes
      /\ work' = Tail(work)
      /\ depErrors' = depErrors \cup scope.errors
      /\ memo' = Put(memo, Item.key, scope.inferred)
      /\ scope' = Resolved(Item.scope, Item.node, Item.key[1], scope.inferred, Item.export)
      /\ UNCHANGED <<recursive, outcome>>
  BY DEF ResumeModule, At, Resumes
<1>2. /\ IsSequence(work) /\ work # <<>> /\ outcome = "running" /\ Item = Head(work)
      /\ ScopeOK(scope, Reported) /\ ScopeOK(Item.scope, Reported)
      /\ Link(Item, scope, Reported)
      /\ SeedReasons(scope) \subseteq Context(Item.scope, Reported)
  BY <1>1, AtResume
<1>3. PICK D, E : D = Reported /\ E = Reported'
  OBVIOUS
<1>4. D \subseteq E /\ scope.errors \subseteq E
  BY <1>1, <1>3 DEF Reported
<1>5. ScopeOK(Item.scope, E)
  BY <1>2, <1>3, <1>4, ScopeStaysOK
<1>6. AllCovered(Context(scope, D), scope.inferred)
  BY <1>2, <1>3 DEF ScopeOK
<1>7. AllCovered(Context(Item.scope, E), scope.inferred)
  <2>1. Context(Item.scope, D) \subseteq Context(Item.scope, E)
    BY <1>4, ContextGrows
  <2>2. Context(scope, D) \subseteq Context(Item.scope, E)
    BY <1>2, <1>3, <1>4, <2>1 DEF Context
  <2>. QED
    BY <1>6, <2>2, CoversMore
<1>8. PICK t : t = scope'
  OBVIOUS
<1>9. GoesWell(t, Item.scope, E) /\ Item.node \in DOMAIN t.inferred
  <2>1. PICK s, n, dep, annotations, name :
          /\ s = Item.scope /\ n = Item.node /\ dep = Item.key[1]
          /\ annotations = scope.inferred /\ name = Item.export
    OBVIOUS
  <2>2. /\ GoesWell(Resolved(s, n, dep, annotations, name), s, E)
        /\ n \in DOMAIN Resolved(s, n, dep, annotations, name).inferred
    BY <1>5, <1>7, <2>1, ResolvedOK
  <2>. QED
    BY <1>1, <1>8, <2>1, <2>2
<1>10. MemoOK(memo', E)
  <2>1. MemoOK(memo, E)
    BY <1>2, <1>3, <1>4, MemoStaysOK DEF ReportInv
  <2>2. AllCovered(E \cup AnnoReasons(Item.key[2]), scope.inferred)
    <3>1. SeedReasons(scope) \subseteq AnnoReasons(Item.key[2])
      BY <1>1, <1>2 DEF Link, AllCovered, Covers, SeedReasons
    <3>2. Context(scope, D) \subseteq E \cup AnnoReasons(Item.key[2])
      BY <1>4, <3>1 DEF Context
    <3>. QED
      BY <1>6, <3>2, CoversMore
  <2>3. Extends(memo', memo, Item.key, scope.inferred)
    BY <1>1, PutExtends
  <2>4. ASSUME NEW key \in DOMAIN memo'
        PROVE  AllCovered(E \cup AnnoReasons(key[2]), memo'[key])
    <3>1. CASE key \in DOMAIN memo /\ memo'[key] = memo[key]
      BY <2>1, <3>1 DEF MemoOK
    <3>2. CASE key = Item.key /\ memo'[key] = scope.inferred
      BY <2>2, <3>2
    <3>3. key # Item.key => key \in DOMAIN memo /\ memo'[key] = memo[key]
      BY <1>1 DEF Put
    <3>4. memo'[Item.key] = scope.inferred
      BY <1>1, PutExtends
    <3>. QED
      BY <3>1, <3>2, <3>3, <3>4
  <2>. QED
    BY <2>4 DEF MemoOK
<1>. QED
  BY <1>1, <1>2, <1>3, <1>4, <1>8, <1>9, <1>10, PopReports DEF GoesWell

\* A failed result brings its scope's errors along.
LEMMA ResultCovered ==
  ASSUME ItemsInv, ReportInv, At(Item.do), Item.do \in {"ResumeBody", "ResumeCall"},
         NEW type, type = TypeOf(Target(Item))
  PROVE  Covers(Context(Item.scope, Reported) \cup TakenOver(type), type)
<1>1. Item.do \in Resumes
  BY DEF Resumes
<1>2. /\ ScopeOK(scope, Reported) /\ Known(Target(Item))
      /\ SeedReasons(scope) \subseteq Context(Item.scope, Reported)
  BY <1>1, AtResume
<1>3. Covers(Context(scope, Reported), type)
  BY <1>2 DEF ScopeOK, AllCovered, Known, TypeOf
<1>4. Context(scope, Reported) \subseteq Context(Item.scope, Reported) \cup scope.errors
  BY <1>2 DEF Context
<1>. QED
  BY <1>3, <1>4 DEF Covers, TakenOver

LEMMA ResumeBodyReports ==
  ASSUME ItemsInv, ReportInv, ResumeBody
  PROVE  ReportInv'
<1>1. /\ At(Item.do) /\ Item.do = "ResumeBody" /\ Item.do \in Resumes /\ Target(Item) = Item.body
      /\ work' = Tail(work) /\ UNCHANGED <<memo, depErrors, recursive, outcome>>
  BY DEF ResumeBody, At, Resumes, Target, session
<1>2. PICK s, n, arg, type, taken, D, t :
        /\ s = Item.scope /\ n = Item.node /\ arg = Item.arg /\ type = TypeOf(Item.body)
        /\ taken = TakenOver(type) /\ D = Reported /\ t = scope'
  OBVIOUS
<1>3. t = [s EXCEPT !.inferred = PutNew(@, n, WithArgument(type, arg)),
                    !.errors = @ \cup taken]
  BY <1>2 DEF ResumeBody
<1>4. /\ IsSequence(work) /\ work # <<>> /\ outcome = "running" /\ Item = Head(work)
      /\ ScopeOK(s, D) /\ Link(Item, scope, D)
  BY <1>1, <1>2, AtResume
<1>5. Covers(Context(s, D) \cup taken, type)
  BY <1>1, <1>2, ResultCovered
<1>6. Covers(Context(s, D) \cup taken, arg)
  BY <1>1, <1>2, <1>4, CoversMore DEF Link
<1>7. Covers(Context(s, D) \cup taken, WithArgument(type, arg))
  BY <1>5, <1>6 DEF WithArgument
<1>8. GoesWell(t, s, D) /\ n \in DOMAIN t.inferred
  BY <1>3, <1>4, <1>7, AnnotationOK
<1>9. Reported' = D /\ MemoOK(memo', D)
  BY <1>1, <1>2, <1>4 DEF Reported, ReportInv
<1>. QED
  BY <1>1, <1>2, <1>4, <1>8, <1>9, PopReports DEF GoesWell

LEMMA ResumeCallReports ==
  ASSUME ItemsInv, ReportInv, ResumeCall
  PROVE  ReportInv'
<1>1. /\ At(Item.do) /\ Item.do = "ResumeCall" /\ Item.do \in Resumes /\ Target(Item) = Item.root
      /\ work' = Tail(work) /\ UNCHANGED <<memo, depErrors, recursive, outcome>>
  BY DEF ResumeCall, At, Resumes, Target
<1>2. PICK s, n, type, taken, D, t :
        /\ s = Item.scope /\ n = Item.node /\ type = TypeOf(Item.root)
        /\ taken = TakenOver(type) /\ D = Reported /\ t = scope'
  OBVIOUS
<1>3. t = [s EXCEPT !.inferred = Put(@, n, type), !.errors = @ \cup taken]
  BY <1>2 DEF ResumeCall
<1>4. /\ IsSequence(work) /\ work # <<>> /\ outcome = "running" /\ Item = Head(work)
      /\ ScopeOK(s, D)
  BY <1>1, <1>2, AtResume
<1>5. Covers(Context(s, D) \cup taken, type)
  BY <1>1, <1>2, ResultCovered
<1>6. GoesWell(t, s, D) /\ n \in DOMAIN t.inferred
  BY <1>3, <1>4, <1>5, AnnotationOK
<1>7. Reported' = D /\ MemoOK(memo', D)
  BY <1>1, <1>2, <1>4 DEF Reported, ReportInv
<1>. QED
  BY <1>1, <1>2, <1>4, <1>6, <1>7, PopReports DEF GoesWell

-----------------------------------------------------------------------------
(* The end, the beginning, and all steps together.                         *)

LEMMA FinishedReports ==
  ASSUME ReportInv, Finished
  PROVE  ReportInv'
<1>1. /\ work = <<>> /\ outcome = "running" /\ outcome' = "done"
      /\ scope' = [scope EXCEPT !.errors = @ \cup depErrors]
  BY DEF Finished
<1>2. Frames(work) = {} /\ ScopesOver(work, scope, 0) = {scope}
  <2>1. 1..Len(<<>>) = {}
    OBVIOUS
  <2>2. Frames(work) = {}
    BY <1>1, <2>1 DEF Frames, Marked
  <2>. QED
    BY <2>2 DEF ScopesOver
<1>3. ScopeOK(scope, Reported) /\ scope.seeds = <<>>
  BY <1>1, <1>2 DEF ReportInv, Chain
<1>4. recursive # {} => Cyclic \in depErrors \cup scope.errors
  BY <1>1, <1>2 DEF ReportInv, CycleNoted
<1>5. SeedReasons(scope) = {}
  BY <1>3 DEF SeedReasons
<1>6. Context(scope, Reported) \subseteq scope.errors \cup depErrors
  BY <1>4, <1>5 DEF Context, Reported
<1>7. With(scope', scope, scope.inferred, scope.errors \cup depErrors)
  BY <1>1, <1>3, ErrorsReplaced DEF ScopeOK
<1>8. AllCovered(scope'.errors, scope'.inferred)
  BY <1>3, <1>6, <1>7, CoversMore DEF ScopeOK, With
<1>. QED
  BY <1>1, <1>8 DEF ReportInv

LEMMA InitReportInv == Init => ReportInv
<1>. SUFFICES ASSUME Init PROVE ReportInv
  OBVIOUS
<1>. DEFINE m == program[Root]
<1>1. /\ work = Schedule(m) /\ scope = Initialized(m, <<>>) /\ outcome = "running"
      /\ memo = <<>> /\ depErrors = {} /\ recursive = RecursiveBodies(m) /\ WellFormed(m)
  BY ProgramsAssumption DEF Init
<1>2. DOMAIN m.binds = 1..Len(m.binds) /\ Len(m.binds) \in Nat
  BY <1>1, ModuleFacts
<1>3. PICK w : w = work
  OBVIOUS
<1>4. w = [i \in 1..Len(m.binds) |-> BindingItem(m.binds[i].name)]
  BY <1>1, <1>2, <1>3 DEF Schedule
<1>5. w = [i \in 1..Len(m.binds) |-> w[i]]
  BY <1>4
<1>6. Len(w) = Len(m.binds)
  BY <1>2, <1>5, SequenceOf
<1>7. \A i \in 1..Len(w) : w[i].do \notin Resumes
  <2>1. \A i \in 1..Len(m.binds) : w[i] = BindingItem(m.binds[i].name)
    BY <1>4
  <2>2. \A x : BindingItem(x).do \notin Resumes
    BY DEF BindingItem, Resumes
  <2>. HIDE DEF m
  <2>. QED
    BY <1>6, <2>1, <2>2
<1>8. Frames(w) = {}
  <2>1. \A q \in 1..Len(w) : Len(w) + 1 - q \in 1..Len(w)
    BY <1>2, <1>6
  <2>. QED
    BY <1>7, <2>1 DEF Frames, Marked, Under
<1>9. \A c : ScopesOver(w, scope, c) = {scope}
  BY <1>8 DEF ScopesOver
<1>10. AllCovered({}, <<>>)
  BY DEF AllCovered
<1>. HIDE DEF m
<1>11. PICK D : D = Reported
  OBVIOUS
<1>12. /\ ScopeOK(scope, D) /\ scope.seeds = <<>>
       /\ RecursiveBodies(m) # {} => Cyclic \in scope.errors
  BY <1>1, <1>10, InitializedOK
<1>13. Chain(w, scope, D)
  BY <1>8, <1>9, <1>12 DEF Chain
<1>14. recursive # {} => CycleNoted(w, scope, depErrors)
  BY <1>1, <1>9, <1>12 DEF CycleNoted
<1>15. MemoOK(memo, D)
  BY <1>1 DEF MemoOK
<1>. QED
  BY <1>1, <1>3, <1>11, <1>13, <1>14, <1>15 DEF ReportInv

LEMMA NextReportInv == WalkInv /\ ReportInv /\ [Next]_vars => ReportInv'
<1>. SUFFICES ASSUME WalkInv, ReportInv, [Next]_vars PROVE ReportInv'
  OBVIOUS
<1>0. ItemsInv
  BY DEF WalkInv
<1>1. CASE Binding  BY <1>0, <1>1, BindingReports
<1>2. CASE LeaveBinding  BY <1>0, <1>2, LeaveReports
<1>3. CASE EnterSeeded  BY <1>0, <1>3, SeededReports
<1>4. CASE EnterKnown  BY <1>0, <1>4, KnownReports
<1>5. CASE EnterRef  BY <1>0, <1>5, EnterRefReports
<1>6. CASE EnterNode  BY <1>0, <1>6, EnterNodeReports
<1>7. CASE FinishPlain  BY <1>0, <1>7, FinishPlainReports
<1>8. CASE ImportFails  BY <1>0, <1>8, ImportFailsReports
<1>9. CASE ImportRemembered  BY <1>0, <1>9, ImportRememberedReports
<1>10. CASE ImportInfers  BY <1>0, <1>10, ImportInfersReports
<1>11. CASE ResumeModule  BY <1>0, <1>11, ResumeModuleReports
<1>12. CASE ApplyPlain  BY <1>0, <1>12, ApplyPlainReports
<1>13. CASE ApplyBody  BY <1>0, <1>13, ApplyBodyReports
<1>14. CASE ResumeBody  BY <1>0, <1>14, ResumeBodyReports
<1>15. CASE ApplyImported  BY <1>0, <1>15, ApplyImportedReports
<1>16. CASE ResumeCall  BY <1>0, <1>16, ResumeCallReports
<1>17. CASE Panic
  <2>1. /\ outcome = "running" /\ outcome' = "panicked"
        /\ UNCHANGED <<scope, work, memo, depErrors, recursive>>
    BY <1>17 DEF Panic, At, session
  <2>2. PICK D : D = Reported
    OBVIOUS
  <2>3. Chain(work, scope, D) /\ MemoOK(memo, D) /\ Reported' = D
    BY <2>1, <2>2 DEF ReportInv, Reported
  <2>4. recursive # {} => CycleNoted(work, scope, depErrors)
    BY <2>1 DEF ReportInv
  <2>5. recursive' # {} => CycleNoted(work', scope', depErrors')
    BY <2>1, <2>4
  <2>6. Chain(work', scope', Reported') /\ MemoOK(memo', Reported')
    BY <2>1, <2>3
  <2>. QED
    BY <2>1, <2>5, <2>6 DEF ReportInv
<1>18. CASE Finished  BY <1>18, FinishedReports
<1>19. CASE UNCHANGED vars
  <2>1. UNCHANGED <<scope, work, memo, depErrors, recursive, outcome>>
    BY <1>19 DEF vars, session
  <2>2. PICK D : D = Reported
    OBVIOUS
  <2>3. outcome # "done" =>
          /\ Chain(work, scope, D) /\ MemoOK(memo, D)
          /\ recursive # {} => CycleNoted(work, scope, depErrors)
    BY <2>2 DEF ReportInv
  <2>4. outcome = "done" => AllCovered(scope.errors, scope.inferred)
    BY DEF ReportInv
  <2>5. Reported' = D
    BY <2>1, <2>2 DEF Reported
  <2>6. outcome' # "done" =>
          /\ Chain(work', scope', Reported') /\ MemoOK(memo', Reported')
          /\ recursive' # {} => CycleNoted(work', scope', depErrors')
    BY <2>1, <2>3, <2>5
  <2>7. outcome' = "done" => AllCovered(scope'.errors, scope'.inferred)
    BY <2>1, <2>4
  <2>. QED
    BY <2>6, <2>7 DEF ReportInv
<1>. QED
  BY <1>1, <1>2, <1>3, <1>4, <1>5, <1>6, <1>7, <1>8, <1>9, <1>10, <1>11, <1>12, <1>13,
     <1>14, <1>15, <1>16, <1>17, <1>18, <1>19 DEF Next

\* A failed type that the caller of inference sees was reported, for its
\* reason, through any nesting of suspended scopes, calls and remembered
\* dependencies.
THEOREM FailuresAreReported == Spec => []FailedIsReported
<1>1. ReportInv => FailedIsReported
  BY DEF ReportInv, FailedIsReported, AllCovered, Covers, TypeOf
<1>2. WalkInv /\ ReportInv /\ [Next]_vars => (WalkInv /\ ReportInv)'
  BY NextWalkInv, NextReportInv
<1>. QED
  BY InitWalkInv, InitReportInv, <1>1, <1>2, PTL DEF Spec

-----------------------------------------------------------------------------
(* Where a chain of references leads: what is reached in so many hops, for *)
(* which no node but the last leads to one that was not reached before.    *)

\* One more hop from each of some nodes.
Hop(m, T) == UNION {IF IsRef(m, k) THEN {k, RefRhs(m, k)} ELSE {k} : k \in T}

\* The nodes within i hops of n, for every i up to last.
Hops(m, n, last, f) ==
  /\ f = [i \in 0..last |-> f[i]] /\ f[0] = {n}
  /\ \A i \in 1..last : f[i] = Hop(m, f[i - 1])

\* As many hops as wanted can be made.
LEMMA HopsExist ==
  ASSUME NEW m, NEW n, NEW last \in Nat
  PROVE  \E f : Hops(m, n, last, f)
<1>. DEFINE Good(k) == \E f : Hops(m, n, k, f)
            Bad == {k \in 0..last : ~Good(k)}
<1>1. Good(0)
  <2>. DEFINE f == [i \in 0..0 |-> {n}]
  <2>1. f = [i \in 0..0 |-> f[i]] /\ f[0] = {n} /\ 1..0 = {}
    OBVIOUS
  <2>. QED
    BY <2>1 DEF Hops
<1>2. ASSUME NEW k \in 1..last, Good(k - 1) PROVE Good(k)
  <2>1. PICK f : Hops(m, n, k - 1, f)
    BY <1>2
  <2>. DEFINE g == [i \in 0..k |-> IF i = k THEN Hop(m, f[k - 1]) ELSE f[i]]
  <2>5. k \in Nat \ {0}
    OBVIOUS
  <2>8. f[0] = {n}
    BY <2>1 DEF Hops
  <2>6. \A i \in 0..k : g[i] = IF i = k THEN Hop(m, f[k - 1]) ELSE f[i]
    OBVIOUS
  <2>7. \A i \in 0..k : [j \in 0..k |-> g[j]][i] = g[i]
    OBVIOUS
  <2>2. g = [i \in 0..k |-> g[i]] /\ k \in Nat \ {0} /\ f[0] = {n}
    BY <2>5, <2>6, <2>7, <2>8
  <2>4. g[0] = {n}
    BY <2>2
  <2>3. ASSUME NEW i \in 1..k PROVE g[i] = Hop(m, g[i - 1])
    <3>1. g[i - 1] = f[i - 1]
      BY <2>2, <2>3
    <3>2. CASE i = k
      BY <3>1, <3>2
    <3>3. CASE i # k
      <4>1. i \in 1..(k - 1) /\ g[i] = f[i]
        BY <2>2, <3>3
      <4>. QED
        BY <2>1, <3>1, <4>1 DEF Hops
    <3>. QED
      BY <3>2, <3>3
  <2>. HIDE DEF g
  <2>. QED
    BY <2>2, <2>3, <2>4 DEF Hops
<1>. HIDE DEF Good
<1>3. Good(last)
  <2>. SUFFICES ASSUME ~Good(last) PROVE FALSE
    OBVIOUS
  <2>1. Bad \in SUBSET Nat /\ last \in Bad
    OBVIOUS
  <2>2. PICK k \in Bad : \A j \in Bad : k <= j
    BY <2>1, LeastNumber
  <2>3. k \in 1..last /\ k - 1 \in 0..last /\ k - 1 \notin Bad
    BY <1>1, <2>2
  <2>. QED
    BY <1>2, <2>2, <2>3
<1>. QED
  BY <1>3 DEF Good

\* Route(m, n) is what the hops from n come to.
LEMMA RouteHops ==
  ASSUME NEW m, NEW n
  PROVE  \E f : Hops(m, n, RefHops, f) /\ Route(m, n) = f[RefHops]
<1>. DEFINE Onward(f) == [i \in 0..RefHops |->
                          IF i = 0 THEN {n}
                          ELSE UNION {IF IsRef(m, k) THEN {k, RefRhs(m, k)} ELSE {k} : k \in f[i - 1]}]
            hop == CHOOSE f : f = Onward(f)
<1>1. PICK f : Hops(m, n, RefHops, f)
  BY HopsExist DEF RefHops
<1>2. f = Onward(f)
  <2>. DEFINE b == Onward(f)
  <2>1. \A i \in 0..RefHops : b[i] = IF i = 0 THEN {n} ELSE Hop(m, f[i - 1])
    BY DEF Hop
  <2>2. b = [i \in 0..RefHops |-> b[i]]
    OBVIOUS
  <2>. HIDE DEF b
  <2>3. \A i \in 0..RefHops : f[i] = b[i]
    BY <1>1, <2>1 DEF Hops, RefHops
  <2>. QED
    BY <1>1, <2>2, <2>3 DEF Hops, b
<1>3. hop = Onward(hop)
  BY <1>2
<1>4. Route(m, n) = hop[RefHops]
  BY DEF Route
<1>. HIDE DEF hop
<1>5. Hops(m, n, RefHops, hop)
  <2>1. \A i \in 0..RefHops : hop[i] = IF i = 0 THEN {n} ELSE Hop(m, hop[i - 1])
    BY <1>3 DEF Hop
  <2>2. hop = [i \in 0..RefHops |-> hop[i]]
    BY <1>3
  <2>. HIDE DEF Onward
  <2>. QED
    BY <2>1, <2>2 DEF Hops, RefHops
<1>. QED
  BY <1>4, <1>5

LEMMA HopReaches ==
  ASSUME NEW m, NEW T
  PROVE  \A x : x \in Hop(m, T) <=> x \in T \/ \E k \in T : IsRef(m, k) /\ x = RefRhs(m, k)
<1>1. \A k : k \in IF IsRef(m, k) THEN {k, RefRhs(m, k)} ELSE {k}
  OBVIOUS
<1>. QED
  BY <1>1 DEF Hop

\* Of the nodes reached at most the last, e, leads elsewhere.
Ahead(m, T, e) == e \in T /\ \A k \in T \ {e} : IsRef(m, k) /\ RefRhs(m, k) \in T

\* A chain has one node ahead, and once that is no reference it stays.
LEMMA AheadMoves ==
  ASSUME NEW m, NEW T, NEW e, Ahead(m, T, e)
  PROVE  /\ \E x : Ahead(m, Hop(m, T), x)
         /\ (\E x \in T : ~IsRef(m, x)) => Hop(m, T) = T
<1>1. CASE IsRef(m, e)
  <2>1. \A x : x \in Hop(m, T) <=> x \in T \/ x = RefRhs(m, e)
    BY <1>1, HopReaches DEF Ahead
  <2>2. Ahead(m, Hop(m, T), RefRhs(m, e))
    BY <1>1, <2>1 DEF Ahead
  <2>. QED
    BY <1>1, <2>2 DEF Ahead
<1>2. CASE ~IsRef(m, e)
  <2>1. \A x : x \in Hop(m, T) <=> x \in T
    BY <1>2, HopReaches DEF Ahead
  <2>2. Hop(m, T) = T
    BY <2>1
  <2>. QED
    BY <2>2
<1>. QED
  BY <1>1, <1>2

\* From a reference the same nodes are reached as from its right-hand side,
\* one hop later.
Follows(m, n, f, g, i) ==
  /\ f[i + 1] = {n} \cup g[i] /\ RefRhs(m, n) \in g[i]
  /\ \E e : Ahead(m, g[i], e)

\* From a reference and from where it leads, the same nodes are ahead.
LEMMA HopsFollow ==
  ASSUME NEW m, NEW n, IsRef(m, n), NEW last \in Nat, NEW f, NEW g,
         Hops(m, n, last + 1, f), Hops(m, RefRhs(m, n), last, g)
  PROVE  Follows(m, n, f, g, last)
<1>. DEFINE r == RefRhs(m, n)
            Bad == {k \in 0..last : ~Follows(m, n, f, g, k)}
<1>1. Follows(m, n, f, g, 0)
  <2>1. f[1] = Hop(m, f[0]) /\ f[0] = {n} /\ g[0] = {r}
    <3>1. 1 \in 1..(last + 1) /\ 1 - 1 = 0
      OBVIOUS
    <3>. QED
      BY <3>1 DEF Hops
  <2>2. \A x : x \in Hop(m, {n}) <=> x = n \/ x = r
    BY HopReaches
  <2>3. f[1] = {n} \cup g[0]
    BY <2>1, <2>2
  <2>4. Ahead(m, g[0], r)
    BY <2>1 DEF Ahead
  <2>. QED
    BY <2>1, <2>3, <2>4 DEF Follows
<1>2. ASSUME NEW k \in 1..last, Follows(m, n, f, g, k - 1)
      PROVE  Follows(m, n, f, g, k)
  <2>1. k + 1 \in 1..(last + 1) /\ (k + 1) - 1 = k /\ (k - 1) + 1 = k
    OBVIOUS
  <2>2. /\ f[k + 1] = Hop(m, f[k]) /\ g[k] = Hop(m, g[k - 1])
        /\ f[k] = {n} \cup g[k - 1] /\ r \in g[k - 1]
    BY <1>2, <2>1 DEF Hops, Follows
  <2>3. PICK a, b, c, d : a = f[k + 1] /\ b = f[k] /\ c = g[k] /\ d = g[k - 1]
    OBVIOUS
  <2>4. a = Hop(m, b) /\ c = Hop(m, d) /\ b = {n} \cup d /\ r \in d
    BY <2>2, <2>3
  <2>5. \A x : x \in a <=> x = n \/ x \in c
    BY <2>4, HopReaches
  <2>6. a = {n} \cup c /\ r \in c
    BY <2>4, <2>5, HopReaches
  <2>7. \E e : Ahead(m, c, e)
    BY <1>2, <2>3, <2>4, AheadMoves DEF Follows
  <2>. QED
    BY <2>3, <2>6, <2>7 DEF Follows
<1>3. Bad = {}
  <2>. SUFFICES ASSUME Bad # {} PROVE FALSE
    OBVIOUS
  <2>1. Bad \in SUBSET Nat
    OBVIOUS
  <2>2. PICK k \in Bad : \A j \in Bad : k <= j
    BY <2>1, LeastNumber
  <2>3. k \in 1..last /\ k - 1 \in 0..last /\ k - 1 \notin Bad
    BY <1>1, <2>2
  <2>. QED
    BY <1>2, <2>2, <2>3
<1>. QED
  BY <1>3

\* A node is on its own route.
LEMMA RouteBegins ==
  ASSUME NEW m, NEW n
  PROVE  n \in Route(m, n)
<1>1. PICK f : Hops(m, n, RefHops, f) /\ Route(m, n) = f[RefHops]
  BY RouteHops
<1>. DEFINE Bad == {k \in 0..RefHops : n \notin f[k]}
<1>2. Bad = {}
  <2>. SUFFICES ASSUME Bad # {} PROVE FALSE
    OBVIOUS
  <2>1. Bad \in SUBSET Nat
    BY DEF RefHops
  <2>2. PICK k \in Bad : \A j \in Bad : k <= j
    BY <2>1, LeastNumber
  <2>3. k \in 1..RefHops /\ k - 1 \in 0..RefHops /\ k - 1 \notin Bad
    BY <1>1, <2>2 DEF Hops, RefHops
  <2>4. n \in f[k - 1] /\ f[k] = Hop(m, f[k - 1])
    BY <1>1, <2>3 DEF Hops
  <2>. QED
    BY <2>2, <2>4, HopReaches
<1>. QED
  BY <1>1, <1>2 DEF RefHops

\* A reference that leads to an import leads where its right-hand side does,
\* and by way of it.
LEMMA RefLeadsOn ==
  ASSUME NEW m, NEW n, IsRef(m, n), Op(m, RefTarget(m, n)) # "ref"
  PROVE  /\ Route(m, RefRhs(m, n)) \subseteq Route(m, n)
         /\ RefTarget(m, RefRhs(m, n)) = RefTarget(m, n)
<1>. DEFINE r == RefRhs(m, n)
            Ends(T) == {k \in T \cap DOMAIN m.nodes : ~IsRef(m, k)}
<1>1. PICK f : Hops(m, n, 16, f) /\ Route(m, n) = f[16]
  BY RouteHops DEF RefHops
<1>2. PICK g : Hops(m, r, 16, g) /\ Route(m, r) = g[16]
  BY RouteHops DEF RefHops
<1>3. Hops(m, r, 15, [i \in 0..15 |-> g[i]])
  BY <1>2 DEF Hops
<1>4. Follows(m, n, f, [i \in 0..15 |-> g[i]], 15)
  <2>1. 15 + 1 = 16 /\ 15 \in Nat
    OBVIOUS
  <2>. QED
    BY <1>1, <1>3, <2>1, HopsFollow
<1>5. PICK a, e : a = g[15] /\ f[16] = {n} \cup a /\ Ahead(m, a, e)
  BY <1>4 DEF Follows
<1>6. Route(m, r) = Hop(m, a)
  <2>1. 16 \in 1..16 /\ 16 - 1 = 15
    OBVIOUS
  <2>. QED
    BY <1>2, <1>5, <2>1 DEF Hops
<1>7. Route(m, n) = {n} \cup a
  BY <1>1, <1>5
<1>8. Ends(Route(m, n)) # {}
  <2>1. Ends(Route(m, n)) = {} => RefTarget(m, n) = n
    BY DEF RefTarget
  <2>. QED
    BY <2>1 DEF IsRef
<1>9. Ends(Route(m, n)) = Ends(a)
  BY <1>7
<1>10. Hop(m, a) = a
  BY <1>5, <1>8, <1>9, AheadMoves
<1>11. RefTarget(m, r) = RefTarget(m, n)
  <2>1. Ends(Route(m, r)) = Ends(Route(m, n))
    BY <1>6, <1>9, <1>10
  <2>2. Ends(Route(m, r)) # {} /\ Ends(Route(m, n)) # {}
    BY <1>8, <2>1
  <2>3. RefTarget(m, r) = CHOOSE k \in Ends(Route(m, r)) : TRUE
    BY <2>2 DEF RefTarget
  <2>4. RefTarget(m, n) = CHOOSE k \in Ends(Route(m, n)) : TRUE
    BY <2>2 DEF RefTarget
  <2>. QED
    BY <2>1, <2>3, <2>4
<1>. QED
  BY <1>6, <1>7, <1>10, <1>11

\* What is no reference leads nowhere else.
LEMMA OtherStays ==
  ASSUME NEW m, NEW n, ~IsRef(m, n)
  PROVE  RefTarget(m, n) = n
<1>1. PICK f : Hops(m, n, RefHops, f) /\ Route(m, n) = f[RefHops]
  BY RouteHops
<1>. DEFINE Bad == {k \in 0..RefHops : f[k] # {n}}
<1>2. Bad = {}
  <2>. SUFFICES ASSUME Bad # {} PROVE FALSE
    OBVIOUS
  <2>1. Bad \in SUBSET Nat
    BY DEF RefHops
  <2>2. PICK k \in Bad : \A j \in Bad : k <= j
    BY <2>1, LeastNumber
  <2>3. k \in 1..RefHops /\ k - 1 \in 0..RefHops /\ k - 1 \notin Bad
    BY <1>1, <2>2 DEF Hops, RefHops
  <2>4. f[k] = Hop(m, {n})
    BY <1>1, <2>3 DEF Hops
  <2>5. \A x : x \in Hop(m, {n}) <=> x = n
    BY HopReaches
  <2>. QED
    BY <2>2, <2>4, <2>5
<1>3. Route(m, n) = {n}
  BY <1>1, <1>2 DEF RefHops
<1>. DEFINE ends == {k \in Route(m, n) \cap DOMAIN m.nodes : ~IsRef(m, k)}
<1>4. ends \subseteq {n}
  BY <1>3
<1>5. ends = {} \/ ends = {n}
  BY <1>4
<1>6. RefTarget(m, n) = IF ends = {} THEN n ELSE CHOOSE k \in ends : TRUE
  BY DEF RefTarget
<1>. HIDE DEF ends
<1>7. ends # {} => (CHOOSE k \in ends : TRUE) = n
  BY <1>5
<1>. QED
  BY <1>6, <1>7

-----------------------------------------------------------------------------
(* The module of each place, found as its scope is.                        *)

\* What holds over place c when x holds on top and val holds below places F.
Held(F, val, x, c) ==
  IF \A e \in F : e <= c THEN {x}
  ELSE {val[e] : e \in {k \in F : c < k /\ \A y \in F : y <= c \/ k <= y}}

\* With one more place, top, that holds more[top], and y on top of it.
PushesOn(F, top, val, more, y) ==
  (\A e \in F : more[e] = val[e]) =>
    /\ \A c \in 0..(top - 1) : Held(F \cup {top}, more, y, c) = Held(F, val, more[top], c)
    /\ \A c \in Nat : top <= c => Held(F \cup {top}, more, y, c) = {y}

\* One more place on top leaves what holds below it alone.
LEMMA HeldPushed ==
  ASSUME NEW F, NEW top \in Nat, F \subseteq 1..(top - 1), NEW val, NEW more, NEW y
  PROVE  PushesOn(F, top, val, more, y)
<1>. SUFFICES ASSUME \A e \in F : more[e] = val[e]
              PROVE  /\ \A c \in 0..(top - 1) : Held(F \cup {top}, more, y, c) = Held(F, val, more[top], c)
                     /\ \A c \in Nat : top <= c => Held(F \cup {top}, more, y, c) = {y}
  BY DEF PushesOn
<1>. DEFINE x == more[top]
<1>1. ASSUME NEW c \in 0..(top - 1)
      PROVE  Held(F \cup {top}, more, y, c) = Held(F, val, x, c)
  <2>. DEFINE next(G) == {k \in G : c < k /\ \A z \in G : z <= c \/ k <= z}
  <2>1. Held(F \cup {top}, more, y, c) = {more[e] : e \in next(F \cup {top})}
    BY DEF Held
  <2>2. CASE \A e \in F : e <= c
    <3>1. next(F \cup {top}) = {top}
      <4>1. \A k \in F : ~(c < k)
        BY <2>2
      <4>2. c < top /\ top <= top
        OBVIOUS
      <4>. QED
        BY <2>2, <4>1, <4>2
    <3>2. Held(F, val, x, c) = {x}
      BY <2>2 DEF Held
    <3>. QED
      BY <2>1, <3>1, <3>2
  <2>3. CASE ~ \A e \in F : e <= c
    <3>1. PICK e \in F : ~(e <= c)
      BY <2>3
    <3>2. e < top /\ e \in Nat /\ top \notin next(F \cup {top})
      BY <3>1
    <3>6. \A k \in F : k <= top
      OBVIOUS
    <3>3. next(F \cup {top}) = next(F)
      BY <3>2, <3>6
    <3>4. Held(F, val, x, c) = {val[k] : k \in next(F)}
      BY <2>3 DEF Held
    <3>5. \A k \in next(F) : more[k] = val[k]
      OBVIOUS
    <3>. QED
      BY <2>1, <3>3, <3>4, <3>5
  <2>. QED
    BY <2>2, <2>3
<1>2. ASSUME NEW c \in Nat, top <= c
      PROVE  Held(F \cup {top}, more, y, c) = {y}
  <2>1. \A e \in F \cup {top} : e <= c
    BY <1>2
  <2>. QED
    BY <2>1 DEF Held
<1>. QED
  BY <1>1, <1>2

\* On top of the places F.
LEMMA HeldOnTop == \A F, c : (\A e \in F : e <= c) => \A val, x : Held(F, val, x, c) = {x}
BY DEF Held

\* Below the last place nothing depends on what is on top.
LEMMA HeldBelow ==
  ASSUME NEW F, NEW c, ~ \A e \in F : e <= c, NEW val, NEW more,
         \A e \in F : more[e] = val[e]
  PROVE  \A x, y : Held(F, val, x, c) = Held(F, more, y, c)
<1>. DEFINE next == {k \in F : c < k /\ \A y \in F : y <= c \/ k <= y}
<1>1. {val[e] : e \in next} = {more[e] : e \in next}
  OBVIOUS
<1>. QED
  BY <1>1 DEF Held

ScopesIn(w) == [e \in Frames(w) |-> Under(w, e).scope]
ModulesIn(w) == [e \in Crosses(w) |-> Under(w, e).here.module]

\* The scope and the module of place q.
ScopesAt(w, s, q) == Held(Frames(w), ScopesIn(w), s, q - 1)
ModulesAt(w, m, q) == Held(Crosses(w), ModulesIn(w), m, q - 1)

-----------------------------------------------------------------------------
(* What is read is there: the annotations that a waiting item will read    *)
(* have been made in its scope, or an item above it, of that scope, will   *)
(* make them.  And an annotated reference that leads to an import, through *)
(* nothing that was substituted, finds the values annotated that the       *)
(* import's module was loaded with.                                        *)

ReadsOf(m, n) ==
  CASE IsRef(m, n) -> {RefRhs(m, n)}
    [] Op(m, n) = "import" -> {s[2] : s \in Elements(Substitutions(m, m.nodes[n].names[1]))}
    [] OTHER -> Kids(m, n)

Waiting == {"Finish"} \cup Resumes

\* A scope was opened for an import or a call, not for a reference.
Attended(w, q, u, m) ==
  Under(w, q).do \in Waiting =>
    /\ Under(w, q).do \in Resumes => ~IsRef(m, Under(w, q).node)
    /\ \A r \in ReadsOf(m, Under(w, q).node) :
         \/ r \in DOMAIN u.inferred
         \/ \E p \in (q + 1)..Len(w) :
              /\ Lies(Under(w, p)) /\ Under(w, p).node = r
              /\ \A e \in Frames(w) : e < q \/ p <= e

\* The values that the module of alias is loaded with.
ValuesKnown(u, m, alias) ==
  \A i \in DOMAIN Substitutions(m, alias) : Substitutions(m, alias)[i][2] \in DOMAIN u.inferred

Ready(u, m, n) ==
  Op(m, RefTarget(m, n)) = "import" =>
    ValuesKnown(u, m, m.nodes[RefTarget(m, n)].names[1])

Settled(u, m) ==
  \A n \in DOMAIN u.inferred :
    ~IsFailed(u.inferred[n]) /\ Route(m, n) \cap DOMAIN u.seeds = {} => Ready(u, m, n)

Sound(w, q, u, m) == Attended(w, q, u, m) /\ Settled(u, m)

AllSound(w, s, m) ==
  /\ Settled(s, m)
  /\ \A q \in 1..Len(w) : \A u \in ScopesAt(w, s, q), n \in ModulesAt(w, m, q) : Sound(w, q, u, n)

\* An item that waits goes on waiting: what its scope has it keeps, and if
\* the item on top is one it waits for, that is done with or stays.
LEMMA AttendedStays ==
  ASSUME NEW w, NEW v, NEW items, Replaces(v, w, items), NEW q \in 1..(Len(w) - 1),
         NEW u, NEW x, DOMAIN u.inferred \subseteq DOMAIN x.inferred, NEW m,
         \A e \in Frames(v) : e \in Frames(w) \/ Len(w) <= e,
         (\A e \in Frames(w) : e < q \/ Len(w) <= e) /\ Lies(Head(w)) =>
           \/ Head(w).node \in DOMAIN x.inferred
           \/ /\ Len(w) <= Len(v) /\ Lies(Under(v, Len(w)))
              /\ Under(v, Len(w)).node = Head(w).node,
         Attended(w, q, u, m)
  PROVE  Attended(v, q, x, m)
<1>1. /\ Len(w) \in Nat \ {0} /\ Len(items) \in Nat /\ Len(v) = Len(items) + Len(w) - 1
      /\ \A k \in 1..(Len(w) - 1) : Under(v, k) = Under(w, k)
      /\ Under(w, Len(w)) = Head(w)
  BY DEF Replaces
<1>0. Under(v, q) = Under(w, q)
  BY <1>1
<1>. SUFFICES ASSUME Under(v, q).do \in Waiting, NEW r \in ReadsOf(m, Under(v, q).node),
                     r \notin DOMAIN x.inferred
              PROVE  \E p \in (q + 1)..Len(v) :
                       /\ Lies(Under(v, p)) /\ Under(v, p).node = r
                       /\ \A e \in Frames(v) : e < q \/ p <= e
  BY <1>0 DEF Attended
<1>2. PICK p \in (q + 1)..Len(w) : /\ Lies(Under(w, p)) /\ Under(w, p).node = r
                                   /\ \A e \in Frames(w) : e < q \/ p <= e
  BY <1>0 DEF Attended
<1>3. \A e \in Frames(v) : e < q \/ p <= e
  <2>. TAKE e \in Frames(v)
  <2>1. CASE e \in Frames(w)
    BY <1>2, <2>1
  <2>2. CASE Len(w) <= e
    <3>1. e \in Nat /\ p \in Nat /\ p <= Len(w)
      BY <1>1, <1>2 DEF Frames, Marked
    <3>. QED
      BY <1>1, <2>2, <3>1
  <2>. QED
    BY <2>1, <2>2
<1>4. CASE p = Len(w)
  <2>1. /\ Len(w) <= Len(v) /\ Lies(Under(v, p)) /\ Under(v, p).node = r
    BY <1>1, <1>2, <1>4
  <2>2. p \in (q + 1)..Len(v)
    BY <1>1, <1>2, <1>4, <2>1
  <2>. QED
    BY <1>3, <2>1, <2>2
<1>5. CASE p # Len(w)
  <2>1. p \in 1..(Len(w) - 1) /\ p \in (q + 1)..Len(v)
    BY <1>1, <1>2, <1>5
  <2>2. Under(v, p) = Under(w, p)
    BY <1>1, <2>1
  <2>. QED
    BY <1>2, <1>3, <2>1, <2>2
<1>. QED
  BY <1>4, <1>5

-----------------------------------------------------------------------------
(* Places that stay, and items that are put on top.                        *)

LEMMA HeldSame ==
  ASSUME NEW F, NEW val, NEW more, \A e \in F : more[e] = val[e]
  PROVE  \A x, c : Held(F, val, x, c) = Held(F, more, x, c)
<1>. TAKE x, c
<1>1. CASE \A e \in F : e <= c
  BY <1>1, HeldOnTop
<1>2. CASE ~ \A e \in F : e <= c
  BY <1>2, HeldBelow
<1>. QED
  BY <1>1, <1>2

LEMMA CrossesAreFrames ==
  \A w : Crosses(w) \subseteq Frames(w) /\ Crosses(w) \subseteq Nat
BY DEF Crosses, Frames, Marked, Crossing, Resumes

\* What the items put on the work wait for is there, or comes before them.
Attends(items, t, m) ==
  \A i \in 1..Len(items) : items[i].do = "Finish" =>
    \A r \in ReadsOf(m, items[i].node) :
      \/ r \in DOMAIN t.inferred
      \/ \E j \in 1..(i - 1) : items[j].do = "Enter" /\ items[j].node = r

\* Work that stays in its scope and puts items in front of itself.
LEMMA SoundStays ==
  ASSUME NEW w, NEW v, NEW items, Replaces(v, w, items), NEW s, NEW t, NEW m,
         Head(w).do \notin Resumes,
         \A i \in 1..Len(items) : items[i].do \notin Resumes,
         AllSound(w, s, m), Grows(t, s), Settled(t, m),
         HandsOn(items, Head(w), t), Attends(items, t, m)
  PROVE  AllSound(v, t, m)
<1>. DEFINE F == Frames(w)
            C == Crosses(w)
<1>1. /\ Len(w) \in Nat \ {0} /\ Len(items) \in Nat /\ Len(v) = Len(items) + Len(w) - 1
      /\ \A q \in 1..(Len(w) - 1) : Under(v, q) = Under(w, q)
      /\ \A q \in Len(w)..Len(v) : /\ Len(v) + 1 - q \in 1..Len(items)
                                    /\ Under(v, q) = items[Len(v) + 1 - q]
  BY DEF Replaces
<1>2. Frames(v) = F /\ F \subseteq 1..(Len(w) - 1)
  BY MarksStay DEF Frames
<1>3. Crosses(v) = C /\ C \subseteq F
  <2>1. Head(w).do \notin Crossing /\ \A i \in 1..Len(items) : items[i].do \notin Crossing
    BY DEF Crossing, Resumes
  <2>. QED
    BY <2>1, MarksStay, CrossesAreFrames DEF Crosses
<1>. HIDE DEF F, C
<1>4. /\ \A e \in F : ScopesIn(v)[e] = ScopesIn(w)[e]
      /\ \A e \in C : ModulesIn(v)[e] = ModulesIn(w)[e]
  BY <1>1, <1>2, <1>3 DEF ScopesIn, ModulesIn, F, C
<1>5. \A q : ModulesAt(v, m, q) = ModulesAt(w, m, q)
  BY <1>3, <1>4, HeldSame DEF ModulesAt, C
<1>6. \A q : (\A e \in F : e <= q - 1) =>
        ScopesAt(v, t, q) = {t} /\ ScopesAt(w, s, q) = {s} /\ ModulesAt(w, m, q) = {m}
  BY <1>2, <1>3, HeldOnTop DEF ScopesAt, ModulesAt, F, C
<1>7. \A q : ~(\A e \in F : e <= q - 1) => ScopesAt(v, t, q) = ScopesAt(w, s, q)
  BY <1>2, <1>4, HeldBelow DEF ScopesAt, F
<1>8. Len(items) > 0 => Len(w) <= Len(v) /\ Under(v, Len(w)) = items[Len(items)]
  <2>. SUFFICES ASSUME Len(items) > 0
                PROVE  Len(w) <= Len(v) /\ Under(v, Len(w)) = items[Len(items)]
    OBVIOUS
  <2>1. Len(w) \in Len(w)..Len(v) /\ Len(v) + 1 - Len(w) = Len(items)
    BY <1>1
  <2>. QED
    BY <1>1, <2>1
<1>9. Lies(Head(w)) =>
        \/ Head(w).node \in DOMAIN t.inferred
        \/ /\ Len(w) <= Len(v) /\ Lies(Under(v, Len(w)))
           /\ Under(v, Len(w)).node = Head(w).node
  BY <1>8 DEF HandsOn, Lies
<1>10. ASSUME NEW q \in 1..Len(v), NEW u \in ScopesAt(v, t, q), NEW n \in ModulesAt(v, m, q)
       PROVE  Sound(v, q, u, n)
  <2>1. CASE q < Len(w) /\ \A e \in F : e <= q - 1
    <3>1. q \in 1..(Len(w) - 1) /\ q \in 1..Len(w)
      BY <1>1, <2>1
    <3>2. u = t /\ n = m /\ Sound(w, q, s, m)
      BY <1>5, <1>6, <2>1, <3>1 DEF AllSound
    <3>3. Attended(v, q, t, m)
      BY <1>2, <1>9, <3>1, <3>2, AttendedStays DEF Sound, Grows, F
    <3>. QED
      BY <3>2, <3>3 DEF Sound
  <2>2. CASE q < Len(w) /\ ~ \A e \in F : e <= q - 1
    <3>1. q \in 1..(Len(w) - 1) /\ q \in 1..Len(w)
      BY <1>1, <2>2
    <3>2. Sound(w, q, u, n)
      BY <1>5, <1>7, <2>2, <3>1 DEF AllSound
    <3>3. ~ \A e \in F : e < q \/ Len(w) <= e
      <4>1. PICK e \in F : ~(e <= q - 1)
        BY <2>2
      <4>2. e \in Nat /\ ~(e < q) /\ ~(Len(w) <= e)
        BY <1>1, <1>2, <4>1
      <4>. QED
        BY <4>2
    <3>4. Attended(v, q, u, n)
      BY <1>2, <3>1, <3>2, <3>3, AttendedStays DEF Sound, F
    <3>. QED
      BY <3>2, <3>4 DEF Sound
  <2>3. CASE q >= Len(w)
    <3>1. \A e \in F : e <= q - 1 /\ e < q
      BY <1>1, <1>2, <2>3
    <3>2. u = t /\ n = m
      BY <1>5, <1>6, <3>1
    <3>. DEFINE i == Len(v) + 1 - q
    <3>3. q \in Len(w)..Len(v) /\ i \in 1..Len(items) /\ Under(v, q) = items[i]
      BY <1>1, <2>3
    <3>4. ASSUME Under(v, q).do \in Waiting, NEW r \in ReadsOf(m, Under(v, q).node),
                 r \notin DOMAIN t.inferred
          PROVE  \E p \in (q + 1)..Len(v) :
                   /\ Lies(Under(v, p)) /\ Under(v, p).node = r
                   /\ \A e \in Frames(v) : e < q \/ p <= e
      <4>1. items[i].do = "Finish"
        BY <3>3, <3>4 DEF Waiting
      <4>2. PICK j \in 1..(i - 1) : items[j].do = "Enter" /\ items[j].node = r
        BY <3>3, <3>4, <4>1 DEF Attends
      <4>. DEFINE p == Len(v) + 1 - j
      <4>3. p \in (q + 1)..Len(v) /\ p \in Len(w)..Len(v) /\ Len(v) + 1 - p = j
        BY <1>1, <3>3
      <4>4. Under(v, p) = items[j]
        BY <1>1, <4>3
      <4>. QED
        BY <1>2, <3>1, <4>2, <4>3, <4>4 DEF Lies
    <3>5. Under(v, q).do \notin Resumes
      BY <3>3
    <3>6. Attended(v, q, t, m)
      BY <3>4, <3>5 DEF Attended
    <3>. QED
      BY <3>2, <3>6 DEF Sound
  <2>. QED
    BY <1>1, <2>1, <2>2, <2>3
<1>. QED
  BY <1>10 DEF AllSound

\* The module that is gone back to at place q, the item there being taken off.
ModuleBelow(item, m) == IF item.do \in Crossing THEN item.here.module ELSE m

\* A scope that is suspended, with everything read that its node reads.
LEMMA SoundPushed ==
  ASSUME NEW w, NEW v, NEW items, Replaces(v, w, items), NEW s, NEW t, NEW m, NEW n,
         Head(w).do = "Finish", Len(items) > 0, items[Len(items)].do \in Resumes,
         items[Len(items)].scope = s, items[Len(items)].node = Head(w).node,
         ModuleBelow(items[Len(items)], n) = m,
         \A i \in 1..(Len(items) - 1) : items[i].do \in {"Binding", "Enter"},
         ~IsRef(m, Head(w).node), ReadsOf(m, Head(w).node) \subseteq DOMAIN s.inferred,
         AllSound(w, s, m), Settled(t, n)
  PROVE  AllSound(v, t, n)
<1>. DEFINE F == Frames(w)
            C == Crosses(w)
            L == Len(w)
            last == items[Len(items)]
<1>1. /\ L \in Nat \ {0} /\ Len(items) \in Nat /\ Len(v) = Len(items) + L - 1
      /\ \A q \in 1..(L - 1) : Under(v, q) = Under(w, q)
      /\ \A q \in L..Len(v) : /\ Len(v) + 1 - q \in 1..Len(items)
                              /\ Under(v, q) = items[Len(v) + 1 - q]
  BY DEF Replaces
<1>2. /\ Head(w).do \notin Resumes
      /\ \A i \in 1..(Len(items) - 1) : items[i].do \notin Resumes /\ items[i].do \notin Waiting
  BY DEF Resumes, Waiting
<1>3. Frames(v) = F \cup {L} /\ F \subseteq 1..(L - 1) /\ Under(v, L) = last
  BY <1>2, MarkPushed DEF Frames
<1>4. C \subseteq F
  BY CrossesAreFrames
<1>. HIDE DEF F, C, L
<1>5. /\ \A e \in F : ScopesIn(v)[e] = ScopesIn(w)[e]
      /\ ScopesIn(v)[L] = s
  BY <1>1, <1>3 DEF ScopesIn, F
<1>6. /\ \A c \in 0..(L - 1) : Held(F \cup {L}, ScopesIn(v), t, c) = Held(F, ScopesIn(w), s, c)
      /\ \A c \in Nat : L <= c => Held(F \cup {L}, ScopesIn(v), t, c) = {t}
  <2>1. PushesOn(F, L, ScopesIn(w), ScopesIn(v), t)
    BY <1>1, <1>3, HeldPushed
  <2>. QED
    BY <1>5, <2>1 DEF PushesOn
<1>7. /\ \A q \in 1..L : ScopesAt(v, t, q) = ScopesAt(w, s, q)
      /\ \A q \in 1..Len(v) : q > L => ScopesAt(v, t, q) = {t}
  <2>1. \A q \in 1..L : q - 1 \in 0..(L - 1)
    BY <1>1
  <2>2. \A q \in 1..Len(v) : q > L => q - 1 \in Nat /\ L <= q - 1
    BY <1>1
  <2>. QED
    BY <1>3, <1>6, <2>1, <2>2 DEF ScopesAt, F
<1>8. /\ \A q \in 1..L : ModulesAt(v, n, q) = ModulesAt(w, m, q)
      /\ \A q \in 1..Len(v) : q > L => ModulesAt(v, n, q) = {n}
  <2>0. \A i \in 1..(Len(items) - 1) : items[i].do \notin Crossing
    BY <1>2 DEF Crossing, Resumes
  <2>00. Head(w).do \notin Crossing
    BY DEF Crossing
  <2>1. CASE last.do \in Crossing
    <3>1. Crosses(v) = C \cup {L} /\ C \subseteq 1..(L - 1)
      BY <2>0, <2>00, <2>1, MarkPushed DEF Crosses, C, L
    <3>2. /\ \A e \in C : ModulesIn(v)[e] = ModulesIn(w)[e]
          /\ ModulesIn(v)[L] = m
      <4>1. last.here.module = m
        BY <2>1 DEF ModuleBelow
      <4>. QED
        BY <1>1, <1>3, <3>1, <4>1 DEF ModulesIn, C
    <3>3. /\ \A c \in 0..(L - 1) : Held(C \cup {L}, ModulesIn(v), n, c) = Held(C, ModulesIn(w), m, c)
          /\ \A c \in Nat : L <= c => Held(C \cup {L}, ModulesIn(v), n, c) = {n}
      <4>1. PushesOn(C, L, ModulesIn(w), ModulesIn(v), n)
        BY <1>1, <3>1, HeldPushed
      <4>. QED
        BY <3>2, <4>1 DEF PushesOn
    <3>4. \A q \in 1..L : q - 1 \in 0..(L - 1)
      BY <1>1
    <3>5. \A q \in 1..Len(v) : q > L => q - 1 \in Nat /\ L <= q - 1
      BY <1>1
    <3>. QED
      BY <3>1, <3>3, <3>4, <3>5 DEF ModulesAt, C
  <2>2. CASE last.do \notin Crossing
    <3>1. \A i \in 1..Len(items) : items[i].do \notin Crossing
      <4>1. \A i \in 1..Len(items) : i = Len(items) \/ i \in 1..(Len(items) - 1)
        BY <1>1
      <4>. QED
        BY <2>0, <2>2, <4>1
    <3>2. Crosses(v) = C /\ C \subseteq 1..(L - 1)
      BY <2>00, <3>1, MarksStay DEF Crosses, C, L
    <3>3. \A e \in C : ModulesIn(v)[e] = ModulesIn(w)[e]
      BY <1>1, <3>2 DEF ModulesIn, C
    <3>4. n = m
      BY <2>2 DEF ModuleBelow
    <3>5. \A q : ModulesAt(v, n, q) = ModulesAt(w, m, q)
      BY <3>2, <3>3, <3>4, HeldSame DEF ModulesAt, C
    <3>6. \A q \in 1..Len(v) : q > L => \A e \in C : e <= q - 1
      BY <1>1, <3>2
    <3>7. \A q \in 1..Len(v) : q > L => ModulesAt(v, n, q) = {n}
      <4>1. \A c : (\A e \in C : e <= c) => Held(C, ModulesIn(v), n, c) = {n}
        BY HeldOnTop
      <4>. QED
        BY <3>2, <3>6, <4>1, Zenon DEF ModulesAt
    <3>. QED
      BY <3>5, <3>7
  <2>. QED
    BY <2>1, <2>2
<1>9. ScopesAt(w, s, L) = {s} /\ ModulesAt(w, m, L) = {m}
  <2>1. \A e \in F : e <= L - 1
    BY <1>1, <1>3
  <2>. QED
    BY <1>4, <2>1, HeldOnTop DEF ScopesAt, ModulesAt, F, C
<1>10. ASSUME NEW q \in 1..Len(v), NEW u \in ScopesAt(v, t, q), NEW k \in ModulesAt(v, n, q)
       PROVE  Sound(v, q, u, k)
  <2>1. CASE q < L
    <3>1. q \in 1..(L - 1) /\ q \in 1..L
      BY <1>1, <2>1
    <3>2. Sound(w, q, u, k)
      BY <1>7, <1>8, <3>1 DEF AllSound, L
    <3>3. /\ L <= Len(v) /\ Lies(Under(v, L)) /\ Under(v, L).node = Head(w).node
      BY <1>1, <1>3 DEF Lies
    <3>4. \A e \in Frames(v) : e \in Frames(w) \/ L <= e
      BY <1>1, <1>3 DEF F
    <3>5. Attended(v, q, u, k)
      BY <3>1, <3>2, <3>3, <3>4, AttendedStays DEF Sound, L
    <3>. QED
      BY <3>2, <3>5 DEF Sound
  <2>2. CASE q = L
    <3>1. u = s /\ k = m
      BY <1>1, <1>7, <1>8, <1>9, <2>2
    <3>2. Attended(v, q, s, m)
      BY <1>3, <2>2 DEF Attended
    <3>. QED
      BY <3>1, <3>2 DEF Sound, AllSound
  <2>3. CASE q > L
    <3>1. u = t /\ k = n
      BY <1>7, <1>8, <2>3
    <3>2. /\ q \in L..Len(v) /\ Len(v) + 1 - q \in 1..(Len(items) - 1)
          /\ Under(v, q) = items[Len(v) + 1 - q]
      BY <1>1, <2>3
    <3>3. Attended(v, q, t, n)
      BY <1>2, <3>2 DEF Attended
    <3>. QED
      BY <3>1, <3>3 DEF Sound
  <2>. QED
    BY <1>1, <2>1, <2>2, <2>3
<1>. QED
  BY <1>10 DEF AllSound

-----------------------------------------------------------------------------
(* Suspended scopes: taken off the stack, and resumed.                     *)

\* Taking off the item that suspended scope h leaves the places below alone.
LEMMA PlacesBelow ==
  ASSUME NEW w, NEW v, Replaces(v, w, <<>>), Head(w).do \in Resumes, NEW s, NEW m
  PROVE  /\ Frames(w) = Frames(v) \cup {Len(w)} /\ Frames(v) \subseteq 1..(Len(w) - 1)
         /\ \A q \in 1..Len(w) :
              /\ ScopesAt(w, s, q) = ScopesAt(v, Head(w).scope, q)
              /\ ModulesAt(w, m, q) = ModulesAt(v, ModuleBelow(Head(w), m), q)
<1>. DEFINE L == Len(w)
            h == Head(w).scope
            n == ModuleBelow(Head(w), m)
            F == Frames(v)
            C == Crosses(v)
<1>1. /\ L \in Nat \ {0} /\ Len(v) = L - 1 /\ Under(w, L) = Head(w)
      /\ \A q \in 1..(L - 1) : Under(v, q) = Under(w, q)
  BY DEF Replaces
<1>2. Frames(w) = F \cup {L} /\ F \subseteq 1..(L - 1)
  BY MarkPopped DEF Frames
<1>3. \A q \in 1..L : q - 1 \in 0..(L - 1)
  BY <1>1
<1>4. C \subseteq F
  BY CrossesAreFrames
<1>. HIDE DEF L, F, C, h, n
<1>5. \A q \in 1..L : ScopesAt(w, s, q) = ScopesAt(v, h, q)
  <2>1. PushesOn(F, L, ScopesIn(v), ScopesIn(w), s)
    BY <1>1, <1>2, HeldPushed
  <2>2. /\ \A e \in F : ScopesIn(w)[e] = ScopesIn(v)[e]
        /\ ScopesIn(w)[L] = h
    BY <1>1, <1>2 DEF ScopesIn, F, h
  <2>3. \A c \in 0..(L - 1) : Held(F \cup {L}, ScopesIn(w), s, c) = Held(F, ScopesIn(v), h, c)
    BY <2>1, <2>2 DEF PushesOn
  <2>. QED
    BY <1>2, <1>3, <2>3 DEF ScopesAt, F
<1>6. \A q \in 1..L : ModulesAt(w, m, q) = ModulesAt(v, n, q)
  <2>1. CASE Head(w).do \in Crossing
    <3>1. Crosses(w) = C \cup {L} /\ C \subseteq 1..(L - 1)
      BY <2>1, MarkPopped DEF Crosses, C, L
    <3>2. PushesOn(C, L, ModulesIn(v), ModulesIn(w), m)
      BY <1>1, <3>1, HeldPushed
    <3>3. /\ \A e \in C : ModulesIn(w)[e] = ModulesIn(v)[e]
          /\ ModulesIn(w)[L] = n
      BY <1>1, <2>1, <3>1 DEF ModulesIn, ModuleBelow, C, n
    <3>4. \A c \in 0..(L - 1) : Held(C \cup {L}, ModulesIn(w), m, c) = Held(C, ModulesIn(v), n, c)
      BY <3>2, <3>3 DEF PushesOn
    <3>. QED
      BY <1>3, <3>1, <3>4 DEF ModulesAt, C
  <2>2. CASE Head(w).do \notin Crossing
    <3>0. \A i \in 1..Len(<<>>) : <<>>[i].do \notin Crossing
      OBVIOUS
    <3>1. Crosses(w) = C /\ C \subseteq 1..(L - 1)
      BY <2>2, <3>0, MarksStay DEF Crosses, C, L
    <3>2. \A e \in C : ModulesIn(w)[e] = ModulesIn(v)[e]
      BY <1>1, <3>1 DEF ModulesIn, C
    <3>3. n = m
      BY <2>2 DEF ModuleBelow, n
    <3>. QED
      BY <3>1, <3>2, <3>3, HeldSame DEF ModulesAt, C
  <2>. QED
    BY <2>1, <2>2
<1>. QED
  BY <1>2, <1>5, <1>6 DEF L, F, h, n

\* What the item that is taken off promises of the scope that it suspended.
LEMMA SoundAtResume ==
  ASSUME NEW w, NEW v, Replaces(v, w, <<>>), Head(w).do \in Resumes, NEW s, NEW m,
         AllSound(w, s, m)
  PROVE  LET h == Head(w).scope
             n == ModuleBelow(Head(w), m)
         IN  /\ Settled(h, n) /\ ~IsRef(n, Head(w).node)
             /\ ReadsOf(n, Head(w).node) \subseteq DOMAIN h.inferred
<1>. DEFINE L == Len(w)
            h == Head(w).scope
            n == ModuleBelow(Head(w), m)
<1>1. L \in Nat \ {0} /\ Under(w, L) = Head(w) /\ L \in 1..L
  BY DEF Replaces
<1>2. /\ Frames(v) \subseteq 1..(L - 1)
      /\ ScopesAt(w, s, L) = ScopesAt(v, h, L) /\ ModulesAt(w, m, L) = ModulesAt(v, n, L)
  BY <1>1, PlacesBelow
<1>. HIDE DEF h, n
<1>3. h \in ScopesAt(w, s, L) /\ n \in ModulesAt(w, m, L)
  <2>1. \A e \in Frames(v) : e <= L - 1
    BY <1>1, <1>2
  <2>2. \A e \in Crosses(v) : e <= L - 1
    BY <2>1, CrossesAreFrames
  <2>3. ScopesAt(v, h, L) = {h}
    BY <2>1, HeldOnTop DEF ScopesAt
  <2>4. ModulesAt(v, n, L) = {n}
    BY <2>2, HeldOnTop DEF ModulesAt
  <2>. QED
    BY <1>2, <2>3, <2>4
<1>4. Sound(w, L, h, n)
  BY <1>1, <1>3 DEF AllSound
<1>5. (L + 1)..Len(w) = {}
  BY <1>1
<1>6. ~IsRef(n, Head(w).node) /\ \A r \in ReadsOf(n, Head(w).node) : r \in DOMAIN h.inferred
  <2>1. Under(w, L).do \in Waiting
    BY <1>1 DEF Waiting
  <2>. HIDE DEF L
  <2>. QED
    BY <1>1, <1>4, <1>5, <2>1 DEF Sound, Attended
<1>. QED
  BY <1>4, <1>6 DEF Sound, h, n

\* A scope that is resumed, with its node annotated.
LEMMA SoundPopped ==
  ASSUME NEW w, NEW v, Replaces(v, w, <<>>), Head(w).do \in Resumes, NEW s, NEW t, NEW m, NEW n,
         n = ModuleBelow(Head(w), m), AllSound(w, s, m),
         Grows(t, Head(w).scope), Head(w).node \in DOMAIN t.inferred, Settled(t, n)
  PROVE  AllSound(v, t, n)
<1>. DEFINE L == Len(w)
            F == Frames(v)
            C == Crosses(v)
            h == Head(w).scope
<1>1. L \in Nat \ {0} /\ Len(v) = L - 1
  BY DEF Replaces
<1>2. /\ Frames(w) = F \cup {L} /\ F \subseteq 1..(L - 1) /\ C \subseteq F
      /\ \A q \in 1..L : /\ ScopesAt(w, s, q) = ScopesAt(v, h, q)
                         /\ ModulesAt(w, m, q) = ModulesAt(v, n, q)
  BY PlacesBelow, CrossesAreFrames
<1>. HIDE DEF F, C, h, L
<1>3. ASSUME NEW q \in 1..Len(v), NEW u \in ScopesAt(v, t, q), NEW k \in ModulesAt(v, n, q)
      PROVE  Sound(v, q, u, k)
  <2>1. q \in 1..(L - 1) /\ q \in 1..L /\ q \in Nat
    BY <1>1
  <2>2. CASE \A e \in F : e <= q - 1
    <3>1. \A e \in C : e <= q - 1
      BY <1>2, <2>2
    <3>2. \A x : ScopesAt(v, x, q) = {x}
      BY <2>2, HeldOnTop DEF ScopesAt, F
    <3>3. ModulesAt(v, n, q) = {n}
      BY <3>1, HeldOnTop DEF ModulesAt, C
    <3>4. u = t /\ k = n /\ h \in ScopesAt(w, s, q) /\ n \in ModulesAt(w, m, q)
      BY <1>2, <2>1, <3>2, <3>3
    <3>5. Attended(w, q, h, n)
      BY <2>1, <3>4 DEF AllSound, Sound, L
    <3>6. /\ DOMAIN h.inferred \subseteq DOMAIN t.inferred
          /\ \A e \in F : e \in Frames(w)
      BY <1>2 DEF Grows, h
    <3>7. Attended(v, q, t, n)
      BY <2>1, <3>5, <3>6, AttendedStays DEF L, F
    <3>. QED
      BY <3>4, <3>7 DEF Sound
  <2>3. CASE ~ \A e \in F : e <= q - 1
    <3>1. ScopesAt(v, t, q) = ScopesAt(v, h, q)
      <4>1. \A e \in F : ScopesIn(v)[e] = ScopesIn(v)[e]
        OBVIOUS
      <4>2. \A x, y : Held(F, ScopesIn(v), x, q - 1) = Held(F, ScopesIn(v), y, q - 1)
        BY <2>3, <4>1, HeldBelow
      <4>. QED
        BY <4>2 DEF ScopesAt, F
    <3>2. Sound(w, q, u, k)
      BY <1>2, <2>1, <3>1 DEF AllSound, L
    <3>3. ~ \A e \in Frames(w) : e < q \/ L <= e
      <4>1. PICK e \in F : ~(e <= q - 1)
        BY <2>3
      <4>2. e \in Frames(w) /\ ~(e < q) /\ ~(L <= e)
        BY <1>1, <1>2, <2>1, <4>1
      <4>. QED
        BY <4>2
    <3>4. \A e \in F : e \in Frames(w)
      BY <1>2
    <3>5. Attended(v, q, u, k)
      BY <2>1, <3>2, <3>3, <3>4, AttendedStays DEF Sound, L, F
    <3>. QED
      BY <3>2, <3>5 DEF Sound
  <2>. QED
    BY <2>2, <2>3
<1>. QED
  BY <1>3 DEF AllSound

-----------------------------------------------------------------------------
(* What one more annotation settles.                                       *)

\* Scope t is scope s with an annotation of node n, or with what it had there.
Gains(t, s, n, type) ==
  /\ t.seeds = s.seeds /\ DOMAIN t.inferred = DOMAIN s.inferred \cup {n}
  /\ \A x \in DOMAIN t.inferred :
       \/ x \in DOMAIN s.inferred /\ t.inferred[x] = s.inferred[x]
       \/ x = n /\ t.inferred[x] = type

\* What it takes to annotate node n of module m in scope s.
Supported(s, m, n, type) ==
  ~IsFailed(type) /\ Route(m, n) \cap DOMAIN s.seeds = {} => Ready(s, m, n)

\* One more annotation, with what it takes, keeps a scope settled.
LEMMA GainsSettled ==
  ASSUME NEW s, NEW t, NEW n, NEW type, Gains(t, s, n, type),
         NEW m, Settled(s, m), Supported(s, m, n, type)
  PROVE  Settled(t, m) /\ Grows(t, s) /\ n \in DOMAIN t.inferred
<1>1. \A k : Ready(s, m, k) => Ready(t, m, k)
  BY DEF Ready, ValuesKnown, Gains
<1>2. ASSUME NEW x \in DOMAIN t.inferred, ~IsFailed(t.inferred[x]),
             Route(m, x) \cap DOMAIN t.seeds = {}
      PROVE  Ready(t, m, x)
  <2>1. CASE x \in DOMAIN s.inferred /\ t.inferred[x] = s.inferred[x]
    BY <1>1, <1>2, <2>1 DEF Settled, Gains
  <2>2. CASE x = n /\ t.inferred[x] = type
    BY <1>1, <1>2, <2>2 DEF Supported, Gains
  <2>. QED
    BY <2>1, <2>2 DEF Gains
<1>. QED
  BY <1>2 DEF Settled, Grows, Gains

LEMMA SameSettled ==
  ASSUME NEW s, NEW t, t.inferred = s.inferred, t.seeds = s.seeds, NEW m, Settled(s, m)
  PROVE  Settled(t, m) /\ Grows(t, s)
BY DEF Settled, Grows, Ready, ValuesKnown

\* The three ways in which the walk annotates.
LEMMA PutGains ==
  ASSUME NEW s, IsScope(s), NEW n, NEW type, NEW errors
  PROVE  /\ Gains([s EXCEPT !.inferred = Put(@, n, type)], s, n, type)
         /\ Gains([s EXCEPT !.inferred = Put(@, n, type), !.errors = @ \cup errors], s, n, type)
         /\ Gains([s EXCEPT !.inferred = PutNew(@, n, type), !.errors = @ \cup errors], s, n, type)
<1>1. \A t, f, e :
        With(t, s, f, e) /\ f \in {Put(s.inferred, n, type), PutNew(s.inferred, n, type)} =>
          Gains(t, s, n, type)
  <2>. TAKE t, f, e
  <2>1. DOMAIN Put(s.inferred, n, type) = DOMAIN s.inferred \cup {n}
    BY DEF Put
  <2>2. \A x \in DOMAIN s.inferred \cup {n} :
          Put(s.inferred, n, type)[x] = IF x = n THEN type ELSE s.inferred[x]
    BY DEF Put
  <2>. QED
    BY <2>1, <2>2 DEF PutNew, With, Gains
<1>2. With([s EXCEPT !.inferred = Put(s.inferred, n, type)], s,
           Put(s.inferred, n, type), s.errors)
  BY AnnotationsReplaced
<1>3. With([s EXCEPT !.inferred = Put(s.inferred, n, type), !.errors = s.errors \cup errors], s,
           Put(s.inferred, n, type), s.errors \cup errors)
  BY BothReplaced
<1>4. With([s EXCEPT !.inferred = PutNew(s.inferred, n, type), !.errors = s.errors \cup errors], s,
           PutNew(s.inferred, n, type), s.errors \cup errors)
  BY BothReplaced
<1>5. Gains([s EXCEPT !.inferred = Put(s.inferred, n, type)], s, n, type)
  BY <1>1, <1>2
<1>6. Gains([s EXCEPT !.inferred = Put(s.inferred, n, type),
                      !.errors = s.errors \cup errors], s, n, type)
  BY <1>1, <1>3
<1>7. Gains([s EXCEPT !.inferred = PutNew(s.inferred, n, type),
                      !.errors = s.errors \cup errors], s, n, type)
  BY <1>1, <1>4
<1>. QED
  BY <1>5, <1>6, <1>7

\* An import resolved to an export of a dependency is annotated.
LEMMA ResolvedGains ==
  ASSUME NEW s, IsScope(s), NEW n, NEW dep, NEW annotations, NEW name
  PROVE  \E type : Gains(Resolved(s, n, dep, annotations, name), s, n, type)
<1>. DEFINE m == program[dep]
            rhs == Rhs(m, name)
            type == IF rhs \in DOMAIN annotations THEN annotations[rhs] ELSE Deferred
            result == IF Op(m, rhs) = "fun" /\ Body(m, rhs) \in DOMAIN annotations
                      THEN {annotations[Body(m, rhs)]} ELSE {}
            found == name \in Names(m) /\ BindingOf(m, name).public
            why == "cross-module resolution"
            failed == [s EXCEPT !.inferred = Put(@, n, Failed(why)), !.errors = @ \cup {why}]
            results == IF result = {} THEN s.results
                       ELSE Put(s.results, n, CHOOSE x \in result : TRUE)
            t == Resolved(s, n, dep, annotations, name)
<1>1. CASE ~found
  <2>1. t = failed
    BY <1>1 DEF Resolved
  <2>2. Gains(failed, s, n, Failed(why))
    BY PutGains
  <2>. HIDE DEF failed, t
  <2>3. \E x : Gains(t, s, n, x)
    BY <2>1, <2>2
  <2>. QED
    BY <2>3 DEF t
<1>2. CASE found
  <2>. DEFINE u == [s EXCEPT !.inferred = Put(s.inferred, n, type)]
              v == [u EXCEPT !.results = results]
  <2>3. t = [s EXCEPT !.inferred = Put(@, n, type),
                      !.results = IF result = {} THEN @
                                  ELSE Put(@, n, CHOOSE x \in result : TRUE)]
    BY <1>2 DEF Resolved
  <2>. HIDE DEF type, result
  <2>4. t = v
    <3>. HIDE DEF t
    <3>. QED
      BY <2>3
  <2>5. Gains(u, s, n, type) /\ IsScope(u)
    BY PutGains, AnnotationsReplaced DEF With
  <2>. HIDE DEF u, results
  <2>6. v.inferred = u.inferred /\ v.seeds = u.seeds
    BY <2>5 DEF IsScope
  <2>. HIDE DEF t, v
  <2>7. Gains(t, s, n, type)
    BY <2>4, <2>5, <2>6 DEF Gains
  <2>8. \E x : Gains(t, s, n, x)
    BY <2>7
  <2>. QED
    BY <2>8 DEF t
<1>. QED
  BY <1>1, <1>2

-----------------------------------------------------------------------------
(* Why a node can be annotated.                                            *)

LEMMA FailedSupported ==
  ASSUME NEW s, NEW m, NEW n, NEW why
  PROVE  Supported(s, m, n, Failed(why))
BY DEF Supported, IsFailed, Failed

LEMMA SeedSupported ==
  ASSUME NEW s, NEW m, NEW n \in DOMAIN s.seeds, NEW type
  PROVE  Supported(s, m, n, type)
BY RouteBegins DEF Supported

\* A reference, by what it refers to.
LEMMA RefSupported ==
  ASSUME NEW s, NEW m, Settled(s, m), NEW n, IsRef(m, n), RefRhs(m, n) \in DOMAIN s.inferred
  PROVE  Supported(s, m, n, s.inferred[RefRhs(m, n)])
<1>. DEFINE r == RefRhs(m, n)
<1>. SUFFICES ASSUME ~IsFailed(s.inferred[r]), Route(m, n) \cap DOMAIN s.seeds = {},
                     Op(m, RefTarget(m, n)) = "import"
              PROVE  ValuesKnown(s, m, m.nodes[RefTarget(m, n)].names[1])
  BY DEF Supported, Ready
<1>1. Route(m, r) \subseteq Route(m, n) /\ RefTarget(m, r) = RefTarget(m, n)
  BY RefLeadsOn
<1>2. Route(m, r) \cap DOMAIN s.seeds = {}
  BY <1>1
<1>3. Ready(s, m, r)
  BY <1>2 DEF Settled
<1>. QED
  BY <1>1, <1>3 DEF Ready

\* Any other node, by what it reads.
LEMMA OtherSupported ==
  ASSUME NEW s, NEW m, NEW n, ~IsRef(m, n), ReadsOf(m, n) \subseteq DOMAIN s.inferred, NEW type
  PROVE  Supported(s, m, n, type)
<1>1. RefTarget(m, n) = n
  BY OtherStays
<1>2. CASE Op(m, n) = "import"
  <2>. DEFINE subs == Substitutions(m, m.nodes[n].names[1])
  <2>1. ReadsOf(m, n) = {x[2] : x \in Elements(subs)}
    BY <1>2 DEF ReadsOf
  <2>2. \A i \in DOMAIN subs : subs[i][2] \in ReadsOf(m, n)
    BY <2>1 DEF Elements
  <2>3. ValuesKnown(s, m, m.nodes[n].names[1])
    BY <2>2 DEF ValuesKnown
  <2>. QED
    BY <1>1, <2>3 DEF Supported, Ready
<1>3. CASE Op(m, n) # "import"
  BY <1>1, <1>3 DEF Supported, Ready
<1>. QED
  BY <1>2, <1>3

\* Nothing that a scope begins with has been annotated but failures.
LEMMA FreshSettled ==
  ASSUME NEW seeds, NEW m
  PROVE  Settled(Fresh(seeds), m)
BY FreshFields DEF Settled

\* A scope opened for a module has the seeds annotated and nothing else.
LEMMA InitializedSettled ==
  ASSUME NEW seeds, NEW k, NEW m
  PROVE  Settled(Initialized(k, seeds), m)
<1>. DEFINE bad == RecursiveNames(k)
            why == "recursive definition"
            f == [n \in {Rhs(k, b) : b \in bad} |-> Failed(why)]
            e == IF bad = {} THEN {} ELSE {why}
            s == Fresh(seeds)
            t == Initialized(k, seeds)
<1>1. t = [s EXCEPT !.inferred = f, !.errors = e]
  BY DEF Initialized
<1>2. \A n \in DOMAIN f : IsFailed(f[n])
  BY DEF IsFailed, Failed
<1>3. IsScope(s)
  BY FreshFields
<1>. HIDE DEF f, e, s, t
<1>4. With(t, s, f, e)
  BY <1>1, <1>3, BothReplaced
<1>5. \A n \in DOMAIN t.inferred : IsFailed(t.inferred[n])
  BY <1>2, <1>4 DEF With
<1>. QED
  BY <1>5 DEF Settled, t

\* What a node reads is there when it is finished.
LEMMA SoundAtFinish ==
  ASSUME NEW w, NEW v, Replaces(v, w, <<>>), Head(w).do = "Finish", NEW s, NEW m, AllSound(w, s, m)
  PROVE  ReadsOf(m, Head(w).node) \subseteq DOMAIN s.inferred
<1>. DEFINE L == Len(w)
<1>1. L \in Nat \ {0} /\ Under(w, L) = Head(w) /\ L \in 1..L
  BY DEF Replaces
<1>2. Frames(w) \subseteq 1..(L - 1)
  <2>1. \A i \in 1..Len(<<>>) : <<>>[i].do \notin Resumes
    OBVIOUS
  <2>2. Head(w).do \notin Resumes
    BY DEF Resumes
  <2>. QED
    BY <2>1, <2>2, MarksStay DEF Frames
<1>3. s \in ScopesAt(w, s, L) /\ m \in ModulesAt(w, m, L)
  <2>1. \A e \in Frames(w) : e <= L - 1
    BY <1>1, <1>2
  <2>2. \A e \in Crosses(w) : e <= L - 1
    BY <2>1, CrossesAreFrames
  <2>3. ScopesAt(w, s, L) = {s}
    BY <2>1, HeldOnTop DEF ScopesAt
  <2>4. ModulesAt(w, m, L) = {m}
    BY <2>2, HeldOnTop DEF ModulesAt
  <2>. QED
    BY <2>3, <2>4
<1>4. Attended(w, L, s, m)
  BY <1>1, <1>3 DEF AllSound, Sound
<1>5. (L + 1)..Len(w) = {}
  BY <1>1
<1>6. \A r \in ReadsOf(m, Head(w).node) : r \in DOMAIN s.inferred
  <2>1. Under(w, L).do \in Waiting
    BY <1>1 DEF Waiting
  <2>. HIDE DEF L
  <2>. QED
    BY <1>1, <1>4, <1>5, <2>1 DEF Attended
<1>. QED
  BY <1>6

-----------------------------------------------------------------------------
(* The invariant, and the steps that stay in their scope.                  *)

ReadsInv ==
  /\ outcome = "running" => AllSound(work, scope, Mod)
  /\ ReadsAreComplete

GoesOnSound == outcome' = "running" /\ AllSound(work', scope', Mod')

\* What is known while an item is worked on.
LEMMA AtItem ==
  ASSUME ItemsInv, ReportInv, ReadsInv, At(Item.do)
  PROVE  /\ IsSequence(work) /\ work # <<>> /\ outcome = "running" /\ Item = Head(work)
         /\ WellFormed(Mod) /\ IsScope(scope)
         /\ AllSound(work, scope, Mod) /\ Settled(scope, Mod)
         /\ Replaces(Tail(work), work, <<>>)
<1>1. /\ IsSequence(work) /\ work # <<>> /\ outcome = "running" /\ Item = Head(work)
      /\ WellFormed(Mod) /\ AllSound(work, scope, Mod)
  BY DEF ItemsInv, ReadsInv, At, Item
<1>2. IsScope(scope)
  BY <1>1 DEF ReportInv, Chain, ScopeOK
<1>3. Settled(scope, Mod)
  BY <1>1 DEF AllSound
<1>4. Replaces(Tail(work), work, <<>>)
  <2>1. Tail(work) = <<>> \o Tail(work) /\ IsSequence(<<>>)
    BY <1>1, NothingInstead, EmptySequence
  <2>. QED
    BY <1>1, <2>1, ReplaceTop DEF IsSequence
<1>. QED
  BY <1>1, <1>2, <1>3, <1>4

LEMMA StaysSound ==
  ASSUME ItemsInv, ReportInv, ReadsInv, At(Item.do), Item.do \notin Resumes,
         NEW items, IsSequence(items), work' = items \o Tail(work),
         \A i \in 1..Len(items) : items[i].do \notin Resumes,
         UNCHANGED <<here, outcome>>, NEW t, scope' = t, Grows(t, scope), Settled(t, Mod),
         HandsOn(items, Head(work), t), Attends(items, t, Mod)
  PROVE  GoesOnSound
<1>1. /\ IsSequence(work) /\ work # <<>> /\ outcome = "running" /\ Item = Head(work)
      /\ AllSound(work, scope, Mod)
  BY AtItem
<1>2. PICK w, v, s, m : w = work /\ v = work' /\ s = scope /\ m = Mod
  OBVIOUS
<1>3. m = Mod'
  BY <1>2 DEF Mod
<1>4. Replaces(v, w, items)
  BY <1>1, <1>2, ReplaceTop DEF IsSequence
<1>5. AllSound(v, t, m)
  BY <1>1, <1>2, <1>4, SoundStays
<1>. QED
  BY <1>1, <1>2, <1>3, <1>5 DEF GoesOnSound

LEMMA DropSound ==
  ASSUME ItemsInv, ReportInv, ReadsInv, At(Item.do), Item.do \notin Resumes,
         work' = Tail(work), UNCHANGED <<here, outcome>>,
         NEW t, scope' = t, Grows(t, scope), Settled(t, Mod),
         Item.do \in {"Enter", "Finish"} => Item.node \in DOMAIN t.inferred
  PROVE  GoesOnSound
<1>1. IsSequence(work) /\ work # <<>> /\ Item = Head(work)
  BY AtItem
<1>2. Tail(work) = <<>> \o Tail(work) /\ IsSequence(<<>>) /\ 1..Len(<<>>) = {}
  BY <1>1, NothingInstead, EmptySequence
<1>3. HandsOn(<<>>, Head(work), t)
  BY <1>1 DEF HandsOn
<1>4. Attends(<<>>, t, Mod)
  BY <1>2 DEF Attends
<1>. QED
  BY <1>2, <1>3, <1>4, StaysSound

LEMMA LeaveSound ==
  ASSUME ItemsInv, ReportInv, ReadsInv, LeaveBinding
  PROVE  GoesOnSound
<1>1. /\ At(Item.do) /\ Item.do = "Leave" /\ work' = Tail(work)
      /\ scope' = [scope EXCEPT !.active = SubSeq(@, 1, Len(@) - 1)]
      /\ UNCHANGED <<here, outcome>>
  BY DEF LeaveBinding, At
<1>2. IsScope(scope) /\ Settled(scope, Mod)
  BY <1>1, AtItem
<1>3. PICK s, t : s = scope /\ t = scope'
  OBVIOUS
<1>4. t.inferred = s.inferred /\ t.seeds = s.seeds
  BY <1>1, <1>2, <1>3 DEF IsScope
<1>5. Settled(t, Mod) /\ Grows(t, s)
  BY <1>2, <1>3, <1>4, SameSettled
<1>. QED
  BY <1>1, <1>3, <1>5, DropSound DEF Resumes

\* Taking an item off with its node annotated.
LEMMA AnnotateSound ==
  ASSUME ItemsInv, ReportInv, ReadsInv, At(Item.do), Item.do \notin Resumes,
         work' = Tail(work), UNCHANGED <<here, outcome>>,
         NEW n, n = Item.node, NEW type, Gains(scope', scope, n, type),
         Supported(scope, Mod, n, type)
  PROVE  GoesOnSound
<1>1. Settled(scope, Mod)
  BY AtItem
<1>2. PICK s, t, m : s = scope /\ t = scope' /\ m = Mod
  OBVIOUS
<1>3. Settled(t, m) /\ Grows(t, s) /\ n \in DOMAIN t.inferred
  BY <1>1, <1>2, GainsSettled
<1>. QED
  BY <1>2, <1>3, DropSound

LEMMA SeededSound ==
  ASSUME ItemsInv, ReportInv, ReadsInv, EnterSeeded
  PROVE  GoesOnSound
<1>1. /\ At(Item.do) /\ Item.do = "Enter" /\ work' = Tail(work)
      /\ Item.node \in DOMAIN scope.seeds
      /\ scope' = [scope EXCEPT !.inferred = Put(@, Item.node, scope.seeds[Item.node])]
      /\ UNCHANGED <<here, outcome>>
  BY DEF EnterSeeded, At
<1>2. PICK s, m, n, type : s = scope /\ m = Mod /\ n = Item.node /\ type = scope.seeds[Item.node]
  OBVIOUS
<1>3. IsScope(s)
  BY <1>1, <1>2, AtItem
<1>4. Gains([s EXCEPT !.inferred = Put(@, n, type)], s, n, type)
  BY <1>3, PutGains
<1>5. Supported(s, m, n, type)
  BY <1>1, <1>2, SeedSupported
<1>6. Gains(scope', scope, n, type)
  BY <1>1, <1>2, <1>4
<1>. QED
  BY <1>1, <1>2, <1>5, <1>6, AnnotateSound DEF Resumes

LEMMA KnownSound ==
  ASSUME ItemsInv, ReportInv, ReadsInv, EnterKnown
  PROVE  GoesOnSound
<1>1. /\ At(Item.do) /\ Item.do = "Enter" /\ work' = Tail(work)
      /\ Item.node \in DOMAIN scope.inferred /\ scope' = scope
      /\ UNCHANGED <<here, outcome>>
  BY DEF EnterKnown, At, Known
<1>2. Settled(scope, Mod) /\ Grows(scope, scope)
  BY <1>1, AtItem DEF Grows
<1>3. PICK s : s = scope
  OBVIOUS
<1>. QED
  BY <1>1, <1>2, <1>3, DropSound DEF Resumes

-----------------------------------------------------------------------------
(* Going on with a binding, a reference or a node.                         *)

\* Going on with a binding: what waits for it, in front, finds it annotated
\* or entered first.
LEMMA VisitSound ==
  ASSUME ItemsInv, ReportInv, ReadsInv, At(Item.do), Item.do \notin Resumes,
         NEW name, NEW front, IsSequence(front),
         \A i \in 1..Len(front) : front[i].do \notin Resumes,
         \A i \in 1..Len(front) : front[i].do = "Finish" =>
           ReadsOf(Mod, front[i].node) = {Rhs(Mod, name)},
         \A t : HandsOn(front, Head(work), t),
         VisitBinding(name, front \o Tail(work)), UNCHANGED <<here, outcome>>
  PROVE  GoesOnSound
<1>. DEFINE two == <<EnterItem(Rhs(Mod, name)), LeaveItem(name)>>
            why == "reference cycle"
<1>1. /\ IsSequence(work) /\ work # <<>> /\ Item = Head(work)
      /\ IsSequence(Tail(work)) /\ IsScope(scope) /\ Settled(scope, Mod)
  BY AtItem, NothingInstead
<1>2. PICK s, t, m, rhs : s = scope /\ t = scope' /\ m = Mod /\ rhs = Rhs(Mod, name)
  OBVIOUS
<1>3. \/ /\ t = [s EXCEPT !.inferred = Put(@, rhs, Failed(why)), !.errors = @ \cup {why}]
         /\ work' = front \o Tail(work)
      \/ /\ \E active : t = [s EXCEPT !.active = active]
         /\ rhs \in DOMAIN s.inferred /\ work' = front \o Tail(work)
      \/ /\ \E active : t = [s EXCEPT !.active = active]
         /\ work' = two \o (front \o Tail(work))
  BY <1>2 DEF VisitBinding, Known
<1>4. ASSUME t = [s EXCEPT !.inferred = Put(@, rhs, Failed(why)), !.errors = @ \cup {why}]
      PROVE  Settled(t, m) /\ Grows(t, s) /\ rhs \in DOMAIN t.inferred
  <2>1. Gains([s EXCEPT !.inferred = Put(@, rhs, Failed(why)), !.errors = @ \cup {why}],
              s, rhs, Failed(why))
    BY <1>1, <1>2, PutGains
  <2>2. Gains(t, s, rhs, Failed(why))
    BY <1>4, <2>1
  <2>3. Supported(s, m, rhs, Failed(why))
    BY FailedSupported
  <2>. QED
    BY <1>1, <1>2, <2>2, <2>3, GainsSettled
<1>5. ASSUME NEW active, t = [s EXCEPT !.active = active]
      PROVE  Settled(t, m) /\ Grows(t, s) /\ t.inferred = s.inferred
  <2>1. t.inferred = s.inferred /\ t.seeds = s.seeds
    BY <1>1, <1>2, <1>5 DEF IsScope
  <2>. QED
    BY <1>1, <1>2, <2>1, SameSettled
<1>6. Settled(t, m) /\ Grows(t, s)
  BY <1>3, <1>4, <1>5
<1>7. CASE work' = front \o Tail(work) /\ rhs \in DOMAIN t.inferred
  <2>1. Attends(front, t, m)
    BY <1>2, <1>7 DEF Attends
  <2>. QED
    BY <1>1, <1>2, <1>6, <1>7, <2>1, StaysSound
<1>8. CASE work' = two \o (front \o Tail(work))
  <2>. DEFINE items == two \o front
  <2>1. /\ IsSequence(two) /\ Len(two) = 2 /\ 1..Len(two) = {1, 2}
        /\ two[1] = EnterItem(rhs) /\ two[2] = LeaveItem(name)
    BY <1>2, PuttingTwo
  <2>2. \A i \in 1..Len(two) : two[i].do \notin Resumes /\ two[i].do # "Finish"
    BY <2>1 DEF EnterItem, LeaveItem, Resumes
  <2>. HIDE DEF two
  <2>3. Joins(items, two, front)
    BY <2>1, Joined
  <2>. HIDE DEF items
  <2>4. items \o Tail(work) = two \o (front \o Tail(work)) /\ IsSequence(items)
    BY <1>1, <2>3 DEF Joins
  <2>5. ASSUME NEW i \in 1..Len(items)
        PROVE  /\ items[i].do \notin Resumes
               /\ items[i].do = "Finish" =>
                    1 \in 1..(i - 1) /\ ReadsOf(m, items[i].node) = {rhs}
    <3>1. CASE i \in 1..Len(two)
      BY <2>2, <2>3, <3>1 DEF Joins
    <3>2. CASE i - Len(two) \in 1..Len(front)
      <4>. DEFINE j == i - Len(two)
      <4>1. items[Len(two) + j] = front[j] /\ Len(two) + j = i
        BY <2>3, <3>2 DEF Joins
      <4>2. 1 \in 1..(i - 1)
        BY <2>1, <2>3, <3>2 DEF Joins
      <4>. QED
        BY <1>2, <3>2, <4>1, <4>2
    <3>. QED
      BY <2>3, <3>1, <3>2 DEF Joins
  <2>6. HandsOn(items, Head(work), t)
    <3>1. Len(front) > 0 => /\ Len(items) > 0 /\ Len(front) \in 1..Len(front)
                            /\ items[Len(items)] = front[Len(front)]
      BY <2>3 DEF Joins
    <3>2. HandsOn(front, Head(work), t)
      OBVIOUS
    <3>. QED
      BY <3>1, <3>2 DEF HandsOn
  <2>7. items[1].do = "Enter" /\ items[1].node = rhs
    <3>1. items[1] = EnterItem(rhs)
      BY <2>1, <2>3 DEF Joins
    <3>. QED
      BY <3>1 DEF EnterItem
  <2>8. Attends(items, t, m)
    BY <2>5, <2>7 DEF Attends
  <2>. QED
    BY <1>1, <1>2, <1>6, <1>8, <2>4, <2>5, <2>6, <2>8, StaysSound
<1>. QED
  BY <1>3, <1>4, <1>5, <1>7, <1>8

LEMMA RefReads ==
  ASSUME NEW m, NEW n, IsRef(m, n)
  PROVE  ReadsOf(m, n) = {RefRhs(m, n)}
BY DEF ReadsOf, IsRef

LEMMA BindingSound ==
  ASSUME ItemsInv, ReportInv, ReadsInv, Binding
  PROVE  GoesOnSound
<1>1. /\ At(Item.do) /\ Item.do = "Binding" /\ Item = Head(work) /\ work # <<>>
      /\ VisitBinding(Item.name, Tail(work))
      /\ UNCHANGED <<here, outcome>>
  BY DEF Binding, At, Item
<1>2. Tail(work) = <<>> \o Tail(work) /\ IsSequence(<<>>) /\ 1..Len(<<>>) = {}
  BY <1>1, NothingInstead, EmptySequence DEF ItemsInv
<1>3. VisitBinding(Item.name, <<>> \o Tail(work))
  BY <1>1, <1>2
<1>4. \A t : HandsOn(<<>>, Head(work), t)
  BY <1>1 DEF HandsOn
<1>5. Item.do \notin Resumes
  BY <1>1 DEF Resumes
<1>6. PICK name : name = Item.name
  OBVIOUS
<1>. QED
  BY <1>1, <1>2, <1>3, <1>4, <1>5, <1>6, VisitSound

LEMMA EnterRefSound ==
  ASSUME ItemsInv, ReportInv, ReadsInv, EnterRef
  PROVE  GoesOnSound
<1>. DEFINE n == Item.node
            front == <<FinishItem(n)>>
            name == Node.names[1]
<1>1. /\ At(Item.do) /\ Item.do = "Enter" /\ Item = Head(work) /\ IsRef(Mod, n)
      /\ VisitBinding(name, front \o Tail(work))
      /\ UNCHANGED <<here, outcome>>
  BY DEF EnterRef, Opens, At, Item
<1>2. IsSequence(front) /\ Len(front) = 1 /\ 1..Len(front) = {1} /\ front[1] = FinishItem(n)
  BY PuttingOne
<1>3. \A i \in 1..Len(front) : front[i].do \notin Resumes
  BY <1>2 DEF FinishItem, Resumes
<1>4. \A t : HandsOn(front, Head(work), t)
  BY <1>1, <1>2 DEF HandsOn, FinishItem
<1>5. Item.do \notin Resumes
  BY <1>1 DEF Resumes
<1>6. ReadsOf(Mod, n) = {Rhs(Mod, name)}
  BY <1>1, RefReads DEF RefRhs, Node
<1>7. \A i \in 1..Len(front) : front[i].do = "Finish" => ReadsOf(Mod, front[i].node) = {Rhs(Mod, name)}
  BY <1>2, <1>6 DEF FinishItem
<1>. HIDE DEF front, name
<1>. QED
  BY <1>1, <1>2, <1>3, <1>4, <1>5, <1>7, VisitSound

LEMMA EnterNodeSound ==
  ASSUME ItemsInv, ReportInv, ReadsInv, EnterNode
  PROVE  GoesOnSound
<1>. DEFINE n == Item.node
            enters == [i \in DOMAIN Awaited |-> EnterItem(Awaited[i])]
            last == <<FinishItem(n)>>
            items == enters \o last
<1>1. /\ work # <<>> /\ Head(work).do = "Enter" /\ Item = Head(work) /\ At(Item.do)
      /\ work' = items \o Tail(work) /\ scope' = scope /\ ~IsRef(Mod, n)
      /\ UNCHANGED <<here, outcome>>
  BY DEF EnterNode, Opens, At, Item
<1>2. n \in DOMAIN Mod.nodes /\ IsSequence(Tail(work))
  BY <1>1, TopItemFits DEF Fits, Crossing
<1>3. PICK a : a = Awaited
  OBVIOUS
<1>4. Len(a) \in Nat /\ DOMAIN a = 1..Len(a)
  BY <1>2, <1>3, AwaitedInModule
<1>5. enters = [i \in 1..Len(a) |-> EnterItem(a[i])]
  BY <1>3, <1>4
<1>20. ReadsOf(Mod, n) \subseteq {a[i] : i \in 1..Len(a)}
  <2>1. Node = Mod.nodes[n] /\ Node.op = Op(Mod, n)
    BY DEF Node, Op
  <2>2. CASE Node.op = "import"
    <3>. DEFINE subs == Substitutions(Mod, Node.names[1])
    <3>1. a = [i \in DOMAIN subs |-> subs[i][2]]
      BY <1>3, <2>2 DEF Awaited
    <3>2. ReadsOf(Mod, n) = {x[2] : x \in Elements(subs)}
      BY <1>1, <2>1, <2>2 DEF ReadsOf
    <3>. HIDE DEF subs
    <3>3. \A i \in DOMAIN subs : i \in 1..Len(a) /\ a[i] = subs[i][2]
      BY <1>4, <3>1
    <3>. QED
      BY <3>2, <3>3 DEF Elements
  <2>3. CASE Node.op # "import"
    <3>1. ReadsOf(Mod, n) = Kids(Mod, n)
      BY <1>1, <2>1, <2>3 DEF ReadsOf
    <3>2. a = Node.kids
      BY <1>3, <2>3 DEF Awaited
    <3>. QED
      BY <1>4, <2>1, <3>1, <3>2 DEF Kids
  <2>. QED
    BY <2>2, <2>3
<1>6. IsSequence(enters) /\ Len(enters) = Len(a)
  <2>. HIDE DEF enters
  <2>1. enters = [i \in 1..Len(a) |-> enters[i]]
    BY <1>5
  <2>. QED
    BY <1>4, <2>1, SequenceOf
<1>7. \A i \in 1..Len(enters) : enters[i] = EnterItem(a[i])
  <2>1. \A i \in 1..Len(a) : enters[i] = EnterItem(a[i])
    BY <1>5
  <2>. HIDE DEF enters
  <2>. QED
    BY <1>6, <2>1
<1>8. /\ IsSequence(last) /\ Len(last) = 1 /\ 1..Len(last) = {1}
      /\ last[1] = FinishItem(n)
  BY PuttingOne
<1>. HIDE DEF enters, last
<1>9. Joins(items, enters, last)
  BY <1>6, <1>8, Joined
<1>. HIDE DEF items
<1>10. /\ IsSequence(items) /\ Len(items) = Len(enters) + 1 /\ Len(enters) \in Nat
       /\ items[Len(items)] = FinishItem(n)
       /\ \A i \in 1..Len(enters) : items[i] = enters[i]
  BY <1>8, <1>9 DEF Joins
<1>11. \A i \in 1..Len(items) : i \in 1..Len(enters) \/ i = Len(items)
  BY <1>10
<1>12. /\ \A x : EnterItem(x).do = "Enter" /\ EnterItem(x).node = x
       /\ FinishItem(n).do = "Finish" /\ FinishItem(n).node = n
  BY DEF EnterItem, FinishItem
<1>13. \A i \in 1..Len(items) : items[i].do \notin Resumes
  BY <1>7, <1>10, <1>11, <1>12 DEF Resumes
<1>14. PICK t, m : t = scope /\ m = Mod
  OBVIOUS
<1>15. Settled(t, m) /\ Grows(t, scope)
  BY <1>1, <1>14, AtItem DEF Grows
<1>16. HandsOn(items, Head(work), t)
  BY <1>1, <1>10, <1>12 DEF HandsOn
<1>17. Attends(items, t, m)
  <2>. SUFFICES ASSUME NEW i \in 1..Len(items), items[i].do = "Finish",
                       NEW r \in ReadsOf(m, items[i].node)
                PROVE  \E j \in 1..(i - 1) : items[j].do = "Enter" /\ items[j].node = r
    BY DEF Attends
  <2>1. i = Len(items) /\ items[i].node = n
    BY <1>7, <1>10, <1>11, <1>12
  <2>2. PICK j \in 1..Len(a) : r = a[j]
    BY <1>14, <1>20, <2>1
  <2>3. j \in 1..(i - 1) /\ items[j] = EnterItem(a[j])
    BY <1>6, <1>7, <1>10, <2>1
  <2>. QED
    BY <1>12, <2>2, <2>3
<1>18. Item.do \notin Resumes
  BY <1>1 DEF Resumes
<1>. QED
  BY <1>1, <1>10, <1>13, <1>14, <1>15, <1>16, <1>17, <1>18, StaysSound

-----------------------------------------------------------------------------
(* Finishing of nodes.                                                     *)

\* What a node reads is there when the walk finishes it.
LEMMA FinishReads ==
  ASSUME ItemsInv, ReportInv, ReadsInv, At("Finish")
  PROVE  /\ At(Item.do) /\ Item.do = "Finish" /\ Item.do \notin Resumes
         /\ Item = Head(work) /\ Complete
         /\ ReadsOf(Mod, Item.node) \subseteq DOMAIN scope.inferred
         /\ Node.op # "ref" => ~IsRef(Mod, Item.node)
<1>1. At(Item.do) /\ Item.do = "Finish" /\ Item.do \notin Resumes
  BY DEF At, Resumes
<1>2. Item = Head(work) /\ Replaces(Tail(work), work, <<>>) /\ AllSound(work, scope, Mod)
  BY <1>1, AtItem
<1>3. ReadsOf(Mod, Item.node) \subseteq DOMAIN scope.inferred
  BY <1>1, <1>2, SoundAtFinish
<1>4. Node.op = Op(Mod, Item.node)
  BY DEF Node, Op
<1>5. Reads = ReadsOf(Mod, Item.node)
  BY <1>4 DEF Reads, ReadsOf, Node
<1>. QED
  BY <1>1, <1>2, <1>3, <1>4, <1>5 DEF Complete, Known, IsRef

\* Finishing a node with an annotation, which only a reference passes on.
LEMMA FinishSound ==
  ASSUME ItemsInv, ReportInv, ReadsInv, At("Finish"), work' = Tail(work),
         NEW type, NEW errors,
         IsRef(Mod, Item.node) => IsFailed(type) \/ type = scope.inferred[RefRhs(Mod, Item.node)],
         \/ scope' = [scope EXCEPT !.inferred = Put(@, Item.node, type),
                                   !.errors = @ \cup errors]
         \/ scope' = [scope EXCEPT !.inferred = PutNew(@, Item.node, type),
                                   !.errors = @ \cup errors],
         UNCHANGED <<here, outcome>>
  PROVE  GoesOnSound
<1>1. PICK s, m, n : s = scope /\ m = Mod /\ n = Item.node
  OBVIOUS
<1>2. /\ At(Item.do) /\ Item.do \notin Resumes /\ IsScope(s) /\ Settled(s, m)
      /\ ReadsOf(m, n) \subseteq DOMAIN s.inferred
  BY <1>1, FinishReads, AtItem
<1>3. Gains(scope', s, n, type)
  <2>1. /\ Gains([s EXCEPT !.inferred = Put(@, n, type), !.errors = @ \cup errors], s, n, type)
        /\ Gains([s EXCEPT !.inferred = PutNew(@, n, type), !.errors = @ \cup errors], s, n, type)
    BY <1>2, PutGains
  <2>2. \/ scope' = [s EXCEPT !.inferred = Put(@, n, type), !.errors = @ \cup errors]
        \/ scope' = [s EXCEPT !.inferred = PutNew(@, n, type), !.errors = @ \cup errors]
    BY <1>1
  <2>. QED
    BY <2>1, <2>2
<1>4. Supported(s, m, n, type)
  <2>1. CASE IsRef(m, n) /\ ~IsFailed(type)
    <3>1. RefRhs(m, n) \in DOMAIN s.inferred
      BY <1>2, <2>1, RefReads
    <3>2. Supported(s, m, n, s.inferred[RefRhs(m, n)])
      BY <1>2, <2>1, <3>1, RefSupported
    <3>3. type = s.inferred[RefRhs(m, n)]
      BY <1>1, <2>1
    <3>. QED
      BY <3>2, <3>3
  <2>2. CASE IsFailed(type)
    BY <2>2 DEF Supported
  <2>3. CASE ~IsRef(m, n)
    BY <1>2, <2>3, OtherSupported
  <2>. QED
    BY <2>1, <2>2, <2>3
<1>. QED
  BY <1>1, <1>2, <1>3, <1>4, AnnotateSound

LEMMA FinishPlainSound ==
  ASSUME ItemsInv, ReportInv, ReadsInv, FinishPlain
  PROVE  GoesOnSound
<1>1. /\ At("Finish") /\ work' = Tail(work) /\ UNCHANGED <<here, outcome>>
      /\ scope' = [scope EXCEPT !.inferred = PutNew(@, Item.node, PlainType),
                                !.errors = @ \cup PlainErrors]
  BY DEF FinishPlain
<1>2. PICK type, errors : type = PlainType /\ errors = PlainErrors
  OBVIOUS
<1>3. ASSUME IsRef(Mod, Item.node)
      PROVE  IsFailed(type) \/ type = scope.inferred[RefRhs(Mod, Item.node)]
  <2>1. Node.op = "ref"
    BY <1>3 DEF IsRef, Op, Node
  <2>2. CASE Refusal # {}
    BY <1>2, <2>2 DEF PlainType, IsFailed, Failed
  <2>3. CASE Refusal = {}
    BY <1>2, <1>3, <2>1, <2>3 DEF PlainType, TypeOf
  <2>. QED
    BY <2>2, <2>3
<1>. QED
  BY <1>1, <1>2, <1>3, FinishSound

LEMMA ImportFailsSound ==
  ASSUME ItemsInv, ReportInv, ReadsInv, ImportFails
  PROVE  GoesOnSound
<1>. DEFINE why == "cross-module resolution"
<1>1. /\ At("Finish") /\ work' = Tail(work) /\ UNCHANGED <<here, outcome>>
      /\ scope' = [scope EXCEPT !.inferred = Put(@, Item.node, Failed(why)),
                                !.errors = @ \cup {why}]
  BY DEF ImportFails, FinishesImport
<1>2. PICK type, errors : type = Failed(why) /\ errors = {why}
  OBVIOUS
<1>3. IsFailed(type)
  BY <1>2 DEF IsFailed, Failed
<1>. QED
  BY <1>1, <1>2, <1>3, FinishSound

LEMMA ImportRememberedSound ==
  ASSUME ItemsInv, ReportInv, ReadsInv, ImportRemembered
  PROVE  GoesOnSound
<1>1. /\ At("Finish") /\ Node.op = "import" /\ work' = Tail(work) /\ UNCHANGED <<here, outcome>>
      /\ \E dep, annotations :
           scope' = Resolved(scope, Item.node, dep, annotations, Node.names[2])
  BY DEF ImportRemembered, FinishesImport
<1>2. PICK dep, annotations : scope' = Resolved(scope, Item.node, dep, annotations, Node.names[2])
  BY <1>1
<1>3. PICK s, m, n, name : s = scope /\ m = Mod /\ n = Item.node /\ name = Node.names[2]
  OBVIOUS
<1>4. /\ At(Item.do) /\ Item.do \notin Resumes /\ IsScope(s)
      /\ ReadsOf(m, n) \subseteq DOMAIN s.inferred /\ ~IsRef(m, n)
  BY <1>1, <1>3, FinishReads, AtItem
<1>5. PICK type : Gains(Resolved(s, n, dep, annotations, name), s, n, type)
  BY <1>4, ResolvedGains
<1>6. Supported(s, m, n, type)
  BY <1>4, OtherSupported
<1>7. Gains(scope', s, n, type)
  BY <1>2, <1>3, <1>5
<1>. QED
  BY <1>1, <1>3, <1>4, <1>6, <1>7, AnnotateSound

LEMMA ApplyPlainSound ==
  ASSUME ItemsInv, ReportInv, ReadsInv, ApplyPlain
  PROVE  GoesOnSound
<1>1. /\ At("Finish") /\ Node.op = "apply" /\ work' = Tail(work) /\ UNCHANGED <<here, outcome>>
      /\ scope' = [scope EXCEPT !.inferred = PutNew(@, Item.node, CallType),
                                !.errors = @ \cup IF Mismatch THEN {"argument bound whole"} ELSE {}]
  BY DEF ApplyPlain, Applies
<1>2. PICK type, errors :
        type = CallType /\ errors = IF Mismatch THEN {"argument bound whole"} ELSE {}
  OBVIOUS
<1>3. ~IsRef(Mod, Item.node)
  BY <1>1, FinishReads
<1>. QED
  BY <1>1, <1>2, <1>3, FinishSound

-----------------------------------------------------------------------------
(* Scopes that are opened, and scopes that end.                            *)

\* Every step that suspends the scope and opens another.
LEMMA SuspendSound ==
  ASSUME ItemsInv, ReportInv, ReadsInv, At("Finish"), Node.op # "ref",
         NEW items, IsSequence(items), Len(items) > 0, work' = items \o Tail(work),
         items[Len(items)].do \in Resumes, items[Len(items)].scope = scope,
         items[Len(items)].node = Item.node,
         ModuleBelow(items[Len(items)], Mod') = Mod,
         \A i \in 1..(Len(items) - 1) : items[i].do \in {"Binding", "Enter"},
         Settled(scope', Mod'), outcome' = outcome
  PROVE  GoesOnSound
<1>1. PICK w, v, s, t, m, n :
        w = work /\ v = work' /\ s = scope /\ t = scope' /\ m = Mod /\ n = Mod'
  OBVIOUS
<1>2. /\ Item.do = "Finish" /\ Item = Head(w) /\ ~IsRef(m, Item.node)
      /\ ReadsOf(m, Item.node) \subseteq DOMAIN s.inferred
      /\ IsSequence(w) /\ w # <<>> /\ AllSound(w, s, m) /\ outcome = "running"
  BY <1>1, FinishReads, AtItem
<1>3. Replaces(v, w, items)
  BY <1>1, <1>2, ReplaceTop DEF IsSequence
<1>4. AllSound(v, t, n)
  BY <1>1, <1>2, <1>3, SoundPushed
<1>. QED
  BY <1>1, <1>2, <1>4 DEF GoesOnSound

\* Every step that resumes a scope.
LEMMA ResumeSound ==
  ASSUME ItemsInv, ReportInv, ReadsInv, At(Item.do), Item.do \in Resumes, work' = Tail(work),
         Mod' = ModuleBelow(Item, Mod), outcome' = outcome,
         NEW h, h = Item.scope, NEW k, k = Item.node, NEW type, Gains(scope', h, k, type)
  PROVE  GoesOnSound
<1>1. PICK w, v, s, t, m, n :
        w = work /\ v = work' /\ s = scope /\ t = scope' /\ m = Mod /\ n = ModuleBelow(Item, Mod)
  OBVIOUS
<1>2. /\ Item = Head(w) /\ AllSound(w, s, m) /\ outcome = "running" /\ Replaces(v, w, <<>>)
  BY <1>1, AtItem
<1>3. Settled(h, n) /\ ~IsRef(n, k) /\ ReadsOf(n, k) \subseteq DOMAIN h.inferred
  BY <1>1, <1>2, SoundAtResume
<1>4. Supported(h, n, k, type)
  BY <1>3, OtherSupported
<1>5. Settled(t, n) /\ Grows(t, h) /\ k \in DOMAIN t.inferred
  BY <1>1, <1>3, <1>4, GainsSettled
<1>6. AllSound(v, t, n)
  BY <1>1, <1>2, <1>5, SoundPopped
<1>. QED
  BY <1>1, <1>2, <1>6 DEF GoesOnSound

LEMMA ImportInfersSound ==
  ASSUME ItemsInv, ReportInv, ReadsInv, ImportInfers
  PROVE  GoesOnSound
<1>. DEFINE R(key) == [do |-> "ResumeModule", node |-> Item.node, here |-> here,
                       scope |-> scope, key |-> key, export |-> Node.names[2]]
<1>1. /\ At("Finish") /\ Node.op = "import" /\ UNCHANGED outcome
      /\ \E dep \in Sources(Node.names[1]) : \E seeds, key :
           /\ scope' = Initialized(program[dep], seeds)
           /\ work' = Schedule(program[dep]) \o <<R(key)>> \o Tail(work)
  BY DEF ImportInfers, FinishesImport
<1>0. PICK dep \in Sources(Node.names[1]) : \E seeds, key :
        /\ scope' = Initialized(program[dep], seeds)
        /\ work' = Schedule(program[dep]) \o <<R(key)>> \o Tail(work)
  BY <1>1
<1>2. PICK seeds, key :
        /\ scope' = Initialized(program[dep], seeds)
        /\ work' = Schedule(program[dep]) \o <<R(key)>> \o Tail(work)
  BY <1>0
<1>. DEFINE m == program[dep]
            resume == R(key)
            schedule == Schedule(m)
            last == <<resume>>
            items == schedule \o last
<1>3. WellFormed(m)
  BY SourcesInBundle, ProgramsAssumption DEF ItemsInv
<1>4. Len(m.binds) \in Nat /\ DOMAIN m.binds = 1..Len(m.binds)
  BY <1>3, ModuleFacts
<1>5. schedule = [i \in 1..Len(m.binds) |-> BindingItem(m.binds[i].name)]
  BY <1>4 DEF Schedule
<1>6. IsSequence(schedule) /\ Len(schedule) = Len(m.binds)
  <2>. HIDE DEF schedule
  <2>1. schedule = [i \in 1..Len(m.binds) |-> schedule[i]]
    BY <1>5
  <2>. QED
    BY <1>4, <2>1, SequenceOf
<1>7. \A i \in 1..Len(schedule) : schedule[i].do = "Binding"
  <2>1. \A i \in 1..Len(m.binds) : schedule[i] = BindingItem(m.binds[i].name)
    BY <1>5
  <2>2. \A x : BindingItem(x).do = "Binding"
    BY DEF BindingItem
  <2>. HIDE DEF schedule, m
  <2>. QED
    BY <1>6, <2>1, <2>2
<1>8. IsSequence(last) /\ Len(last) = 1 /\ last[1] = resume
  BY PuttingOne
<1>9. /\ resume.do \in Resumes /\ resume.scope = scope /\ resume.node = Item.node
      /\ ModuleBelow(resume, Mod') = Mod
  BY DEF Resumes, ModuleBelow, Crossing, Mod
<1>10. work' = items \o Tail(work)
  BY <1>2
<1>11. Settled(scope', Mod')
  BY <1>2, InitializedSettled
<1>. HIDE DEF schedule, last, resume
<1>12. Joins(items, schedule, last)
  BY <1>6, <1>8, Joined
<1>. HIDE DEF items
<1>13. /\ IsSequence(items) /\ Len(items) > 0 /\ Len(items) = Len(schedule) + 1
       /\ items[Len(items)] = resume
       /\ \A i \in 1..(Len(items) - 1) : i \in 1..Len(schedule) /\ items[i] = schedule[i]
  BY <1>8, <1>12 DEF Joins
<1>14. \A i \in 1..(Len(items) - 1) : items[i].do \in {"Binding", "Enter"}
  BY <1>7, <1>13
<1>15. Node.op # "ref"
  BY <1>1
<1>. QED
  BY <1>1, <1>9, <1>10, <1>11, <1>13, <1>14, <1>15, SuspendSound

\* A call opens a scope with at most one node to enter.
LEMMA CallSound ==
  ASSUME ItemsInv, ReportInv, ReadsInv, At("Finish"), Node.op = "apply",
         NEW resume, resume.do \in Resumes, resume.scope = scope, resume.node = Item.node,
         ModuleBelow(resume, Mod') = Mod,
         \/ work' = <<resume>> \o Tail(work)
         \/ \E n : work' = <<EnterItem(n), resume>> \o Tail(work),
         Settled(scope', Mod'), outcome' = outcome
  PROVE  GoesOnSound
<1>0. Node.op # "ref"
  OBVIOUS
<1>1. CASE work' = <<resume>> \o Tail(work)
  <2>. DEFINE items == <<resume>>
  <2>1. IsSequence(items) /\ Len(items) = 1 /\ items[1] = resume
    BY PuttingOne
  <2>. HIDE DEF items
  <2>2. work' = items \o Tail(work)
    BY <1>1 DEF items
  <2>3. Len(items) > 0 /\ items[Len(items)] = resume /\ 1..(Len(items) - 1) = {}
    BY <2>1
  <2>. QED
    BY <1>0, <2>1, <2>2, <2>3, SuspendSound
<1>2. ASSUME NEW n, work' = <<EnterItem(n), resume>> \o Tail(work)
      PROVE  GoesOnSound
  <2>. DEFINE items == <<EnterItem(n), resume>>
  <2>1. IsSequence(items) /\ Len(items) = 2 /\ items[1] = EnterItem(n) /\ items[2] = resume
    BY PuttingTwo
  <2>. HIDE DEF items
  <2>2. work' = items \o Tail(work)
    BY <1>2 DEF items
  <2>3. Len(items) > 0 /\ items[Len(items)] = resume /\ 1..(Len(items) - 1) = {1}
    BY <2>1
  <2>4. \A i \in 1..(Len(items) - 1) : items[i].do \in {"Binding", "Enter"}
    BY <2>1, <2>3 DEF EnterItem
  <2>. QED
    BY <1>0, <2>1, <2>2, <2>3, <2>4, SuspendSound
<1>. QED
  BY <1>1, <1>2

LEMMA ApplyBodySound ==
  ASSUME ItemsInv, ReportInv, ReadsInv, ApplyBody
  PROVE  GoesOnSound
<1>. DEFINE body == Body(Mod, LocalReification(Mod, Callee))
            seeds == [n \in BodyInputs \cup DOMAIN scope.seeds |->
                        IF n \in BodyInputs THEN TypeOf(Argument) ELSE scope.seeds[n]]
            resume == [do |-> "ResumeBody", node |-> Item.node, body |-> body,
                       arg |-> TypeOf(Argument), scope |-> scope]
            failing == [Fresh(seeds) EXCEPT !.inferred =
                          Put(@, body, Failed("recursive definition"))]
<1>1. /\ At("Finish") /\ Node.op = "apply" /\ UNCHANGED <<here, outcome>>
      /\ \/ scope' = failing /\ work' = <<resume>> \o Tail(work)
         \/ scope' = Fresh(seeds) /\ work' = <<EnterItem(body), resume>> \o Tail(work)
  BY DEF ApplyBody, Applies
<1>2. /\ resume.do \in Resumes /\ resume.scope = scope /\ resume.node = Item.node
      /\ resume.do \notin Crossing
  BY DEF Resumes, Crossing
<1>3. Mod' = Mod
  BY <1>1 DEF Mod
<1>4. ModuleBelow(resume, Mod') = Mod
  BY <1>2, <1>3 DEF ModuleBelow
<1>. HIDE DEF body, seeds, resume
<1>5. Settled(Fresh(seeds), Mod)
  BY FreshSettled
<1>6. Settled(failing, Mod)
  <2>1. Gains(failing, Fresh(seeds), body, Failed("recursive definition"))
    BY FreshFields, PutGains
  <2>2. Supported(Fresh(seeds), Mod, body, Failed("recursive definition"))
    BY FailedSupported
  <2>3. PICK s, t, m, type : /\ s = Fresh(seeds) /\ t = failing /\ m = Mod
                             /\ type = Failed("recursive definition")
    OBVIOUS
  <2>. HIDE DEF failing
  <2>4. Settled(t, m)
    BY <1>5, <2>1, <2>2, <2>3, GainsSettled
  <2>. QED
    BY <2>3, <2>4
<1>. HIDE DEF failing
<1>7. Settled(scope', Mod')
  BY <1>1, <1>3, <1>5, <1>6
<1>. QED
  BY <1>1, <1>2, <1>4, <1>7, CallSound

LEMMA ApplyImportedSound ==
  ASSUME ItemsInv, ReportInv, ReadsInv, ApplyImported
  PROVE  GoesOnSound
<1>. DEFINE R(root) == [do |-> "ResumeCall", node |-> Item.node, root |-> root,
                        here |-> here, scope |-> scope]
<1>1. /\ At("Finish") /\ Node.op = "apply" /\ UNCHANGED outcome
      /\ \E seeds, root : /\ scope' = Fresh(seeds)
                          /\ work' = <<EnterItem(root), R(root)>> \o Tail(work)
  BY DEF ApplyImported, Applies
<1>2. PICK seeds, root : /\ scope' = Fresh(seeds)
                         /\ work' = <<EnterItem(root), R(root)>> \o Tail(work)
  BY <1>1
<1>. DEFINE resume == R(root)
<1>3. /\ resume.do \in Resumes /\ resume.scope = scope /\ resume.node = Item.node
      /\ ModuleBelow(resume, Mod') = Mod
  BY DEF Resumes, ModuleBelow, Crossing, Mod
<1>4. Settled(scope', Mod')
  BY <1>2, FreshSettled
<1>5. \E n : work' = <<EnterItem(n), resume>> \o Tail(work)
  BY <1>2
<1>. HIDE DEF resume
<1>. QED
  BY <1>1, <1>3, <1>4, <1>5, CallSound

LEMMA ResumeModuleSound ==
  ASSUME ItemsInv, ReportInv, ReadsInv, ResumeModule
  PROVE  GoesOnSound
<1>1. /\ At(Item.do) /\ Item.do = "ResumeModule" /\ Item.do \in Resumes
      /\ work' = Tail(work) /\ here' = Item.here /\ UNCHANGED outcome
      /\ scope' = Resolved(Item.scope, Item.node, Item.key[1], scope.inferred, Item.export)
  BY DEF ResumeModule, At, Resumes, Suspended
<1>2. Mod' = ModuleBelow(Item, Mod)
  BY <1>1 DEF ModuleBelow, Crossing, Mod
<1>3. PICK h, k, dep, annotations, name :
        /\ h = Item.scope /\ k = Item.node /\ dep = Item.key[1]
        /\ annotations = scope.inferred /\ name = Item.export
  OBVIOUS
<1>4. IsScope(h)
  BY <1>1, <1>3, AtResume DEF ScopeOK
<1>5. PICK type : Gains(Resolved(h, k, dep, annotations, name), h, k, type)
  BY <1>4, ResolvedGains
<1>6. Gains(scope', h, k, type)
  BY <1>1, <1>3, <1>5
<1>. QED
  BY <1>1, <1>2, <1>3, <1>6, ResumeSound

LEMMA ResumeBodySound ==
  ASSUME ItemsInv, ReportInv, ReadsInv, ResumeBody
  PROVE  GoesOnSound
<1>1. /\ At(Item.do) /\ Item.do = "ResumeBody" /\ Item.do \in Resumes
      /\ work' = Tail(work) /\ UNCHANGED <<here, outcome>>
  BY DEF ResumeBody, At, Resumes
<1>2. Mod' = ModuleBelow(Item, Mod)
  BY <1>1 DEF ModuleBelow, Crossing, Mod
<1>3. PICK h, k, type, taken :
        /\ h = Item.scope /\ k = Item.node /\ type = WithArgument(TypeOf(Item.body), Item.arg)
        /\ taken = TakenOver(TypeOf(Item.body))
  OBVIOUS
<1>4. scope' = [h EXCEPT !.inferred = PutNew(@, k, type), !.errors = @ \cup taken]
  BY <1>3 DEF ResumeBody
<1>5. IsScope(h)
  BY <1>1, <1>3, AtResume DEF ScopeOK
<1>6. Gains([h EXCEPT !.inferred = PutNew(@, k, type), !.errors = @ \cup taken], h, k, type)
  BY <1>5, PutGains
<1>7. Gains(scope', h, k, type)
  BY <1>4, <1>6
<1>. QED
  BY <1>1, <1>2, <1>3, <1>7, ResumeSound

LEMMA ResumeCallSound ==
  ASSUME ItemsInv, ReportInv, ReadsInv, ResumeCall
  PROVE  GoesOnSound
<1>1. /\ At(Item.do) /\ Item.do = "ResumeCall" /\ Item.do \in Resumes
      /\ work' = Tail(work) /\ here' = Item.here /\ UNCHANGED outcome
  BY DEF ResumeCall, At, Resumes, Suspended
<1>2. Mod' = ModuleBelow(Item, Mod)
  BY <1>1 DEF ModuleBelow, Crossing, Mod
<1>3. PICK h, k, type, taken :
        /\ h = Item.scope /\ k = Item.node /\ type = TypeOf(Item.root)
        /\ taken = TakenOver(TypeOf(Item.root))
  OBVIOUS
<1>4. scope' = [h EXCEPT !.inferred = Put(@, k, type), !.errors = @ \cup taken]
  BY <1>3 DEF ResumeCall
<1>5. IsScope(h)
  BY <1>1, <1>3, AtResume DEF ScopeOK
<1>6. Gains([h EXCEPT !.inferred = Put(@, k, type), !.errors = @ \cup taken], h, k, type)
  BY <1>5, PutGains
<1>7. Gains(scope', h, k, type)
  BY <1>4, <1>6
<1>. QED
  BY <1>1, <1>2, <1>3, <1>7, ResumeSound

-----------------------------------------------------------------------------
(* The walk aborts for one reason only.                                    *)

\* A call that finds no values goes through a binding that is substituted for.
LEMMA PanicReads ==
  ASSUME ItemsInv, ReportInv, ReadsInv, Panic
  PROVE  Node.op = "apply" /\ Route(Mod, Callee) \cap DOMAIN scope.seeds # {}
<1>1. At("Finish") /\ (~Complete \/ (Applies /\ LooksImported /\ ~SubstKnown(Imported.names[1])))
  BY DEF Panic
<1>2. Applies /\ LooksImported /\ ~SubstKnown(Imported.names[1])
  BY <1>1, FinishReads
<1>3. Node.op = "apply" /\ Known(Callee) /\ ~IsFailed(TypeOf(Callee))
  BY <1>2, CallReads DEF Applies, LooksImported, IsFailed, FunctionType
<1>4. Op(Mod, RefTarget(Mod, Callee)) = "import"
  BY <1>2 DEF LooksImported, Imported, Op
<1>5. ASSUME Route(Mod, Callee) \cap DOMAIN scope.seeds = {}
      PROVE  FALSE
  <2>1. Settled(scope, Mod)
    BY <1>1, FinishReads, AtItem
  <2>2. Ready(scope, Mod, Callee)
    BY <1>3, <1>5, <2>1 DEF Settled, Known, TypeOf
  <2>3. ValuesKnown(scope, Mod, Imported.names[1])
    BY <1>4, <2>2 DEF Ready, Imported
  <2>. QED
    BY <1>2, <2>3 DEF ValuesKnown, SubstKnown, Known
<1>. QED
  BY <1>3, <1>5

LEMMA InitReadsInv == Init => ReadsInv
<1>. SUFFICES ASSUME Init PROVE ReadsInv
  OBVIOUS
<1>. DEFINE m == program[Root]
<1>1. /\ work = Schedule(m) /\ scope = Initialized(m, <<>>) /\ outcome = "running"
      /\ Mod = m /\ WellFormed(m)
  BY ProgramsAssumption DEF Init, Mod
<1>2. DOMAIN m.binds = 1..Len(m.binds) /\ Len(m.binds) \in Nat
  BY <1>1, ModuleFacts
<1>3. PICK w : w = work
  OBVIOUS
<1>4. w = [i \in 1..Len(m.binds) |-> BindingItem(m.binds[i].name)]
  BY <1>1, <1>2, <1>3 DEF Schedule
<1>5. w = [i \in 1..Len(m.binds) |-> w[i]]
  BY <1>4
<1>6. Len(w) = Len(m.binds)
  BY <1>2, <1>5, SequenceOf
<1>7. \A i \in 1..Len(w) : w[i].do = "Binding"
  <2>1. \A i \in 1..Len(m.binds) : w[i] = BindingItem(m.binds[i].name)
    BY <1>4
  <2>2. \A x : BindingItem(x).do = "Binding"
    BY DEF BindingItem
  <2>. HIDE DEF m
  <2>. QED
    BY <1>6, <2>1, <2>2
<1>8. \A q \in 1..Len(w) : Under(w, q).do = "Binding"
  <2>1. \A q \in 1..Len(w) : Len(w) + 1 - q \in 1..Len(w)
    BY <1>2, <1>6
  <2>. QED
    BY <1>7, <2>1 DEF Under
<1>9. Frames(w) = {} /\ Crosses(w) = {}
  BY <1>8 DEF Frames, Crosses, Crossing, Marked, Resumes
<1>. HIDE DEF m
<1>10. PICK s : s = scope
  OBVIOUS
<1>11. Settled(s, m)
  BY <1>1, <1>10, InitializedSettled
<1>12. \A q : ScopesAt(w, s, q) = {s} /\ ModulesAt(w, m, q) = {m}
  BY <1>9, HeldOnTop DEF ScopesAt, ModulesAt
<1>13. \A q \in 1..Len(w) : Attended(w, q, s, m)
  BY <1>8 DEF Attended, Waiting, Resumes
<1>14. AllSound(w, s, m)
  BY <1>11, <1>12, <1>13 DEF AllSound, Sound
<1>. QED
  BY <1>1, <1>3, <1>10, <1>14 DEF ReadsInv, ReadsAreComplete

LEMMA NextReadsInv == WalkInv /\ ReportInv /\ ReadsInv /\ [Next]_vars => ReadsInv'
<1>. SUFFICES ASSUME WalkInv, ReportInv, ReadsInv, [Next]_vars PROVE ReadsInv'
  OBVIOUS
<1>0. ItemsInv
  BY DEF WalkInv
<1>00. ASSUME GoesOnSound
       PROVE  ReadsInv'
  BY <1>00 DEF GoesOnSound, ReadsInv, ReadsAreComplete
<1>1. CASE Binding  BY <1>0, <1>00, <1>1, BindingSound
<1>2. CASE LeaveBinding  BY <1>0, <1>00, <1>2, LeaveSound
<1>3. CASE EnterSeeded  BY <1>0, <1>00, <1>3, SeededSound
<1>4. CASE EnterKnown  BY <1>0, <1>00, <1>4, KnownSound
<1>5. CASE EnterRef  BY <1>0, <1>00, <1>5, EnterRefSound
<1>6. CASE EnterNode  BY <1>0, <1>00, <1>6, EnterNodeSound
<1>7. CASE FinishPlain  BY <1>0, <1>00, <1>7, FinishPlainSound
<1>8. CASE ImportFails  BY <1>0, <1>00, <1>8, ImportFailsSound
<1>9. CASE ImportRemembered  BY <1>0, <1>00, <1>9, ImportRememberedSound
<1>10. CASE ImportInfers  BY <1>0, <1>00, <1>10, ImportInfersSound
<1>11. CASE ResumeModule  BY <1>0, <1>00, <1>11, ResumeModuleSound
<1>12. CASE ApplyPlain  BY <1>0, <1>00, <1>12, ApplyPlainSound
<1>13. CASE ApplyBody  BY <1>0, <1>00, <1>13, ApplyBodySound
<1>14. CASE ResumeBody  BY <1>0, <1>00, <1>14, ResumeBodySound
<1>15. CASE ApplyImported  BY <1>0, <1>00, <1>15, ApplyImportedSound
<1>16. CASE ResumeCall  BY <1>0, <1>00, <1>16, ResumeCallSound
<1>17. CASE Panic
  <2>1. outcome' = "panicked" /\ UNCHANGED <<here, scope, work>>
    BY <1>17 DEF Panic
  <2>2. Node.op = "apply" /\ Route(Mod, Callee) \cap DOMAIN scope.seeds # {}
    BY <1>0, <1>17, PanicReads
  <2>3. ReadsAreComplete'
    BY <2>1, <2>2 DEF ReadsAreComplete, Node, Callee, Mod, Item
  <2>. QED
    BY <2>1, <2>3 DEF ReadsInv
<1>18. CASE Finished
  <2>1. outcome' = "done"
    BY <1>18 DEF Finished
  <2>. QED
    BY <2>1 DEF ReadsInv, ReadsAreComplete
<1>19. CASE UNCHANGED vars
  <2>1. UNCHANGED <<outcome, here, scope, work>>
    BY <1>19 DEF vars
  <2>2. PICK v, s, m : v = work /\ s = scope /\ m = Mod
    OBVIOUS
  <2>3. work' = v /\ scope' = s /\ Mod' = m
    BY <2>1, <2>2 DEF Mod
  <2>4. outcome' = "running" => AllSound(work', scope', Mod')
    BY <2>1, <2>2, <2>3 DEF ReadsInv
  <2>5. ReadsAreComplete'
    BY <2>1 DEF ReadsInv, ReadsAreComplete, Node, Callee, Mod, Item
  <2>. QED
    BY <2>4, <2>5 DEF ReadsInv
<1>. QED
  BY <1>1, <1>2, <1>3, <1>4, <1>5, <1>6, <1>7, <1>8, <1>9, <1>10, <1>11, <1>12, <1>13,
     <1>14, <1>15, <1>16, <1>17, <1>18, <1>19 DEF Next

\* An annotation that is read has been made, however scopes were opened, left
\* and resumed, but for a call through a binding that a callable is
\* substituted for: no other walk aborts.
THEOREM ReadsAreThere == Spec => []ReadsAreComplete
<1>1. ReadsInv => ReadsAreComplete
  BY DEF ReadsInv
<1>2. WalkInv /\ ReportInv /\ ReadsInv /\ [Next]_vars => (WalkInv /\ ReportInv /\ ReadsInv)'
  BY NextWalkInv, NextReportInv, NextReadsInv
<1>. QED
  BY InitWalkInv, InitReportInv, InitReadsInv, <1>1, <1>2, PTL DEF Spec

=============================================================================
