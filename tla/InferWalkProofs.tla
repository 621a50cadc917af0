-------------------------- MODULE InferWalkProofs --------------------------
(***************************************************************************)
(* Proofs about InferWalk, for all programs.                               *)
(***************************************************************************)
EXTENDS InferWalk, FiniteSetTheorems, SequenceTheorems, TLAPS

\* The modules in progress are modules of the bundle.
StackOK == stack \in Seq(DOMAIN program)

IInv == StackOK /\ NeverInsideItself

\* Taking the innermost dependency off keeps the rest as it was.
LEMMA PopKeeps ==
  ASSUME NEW S, NEW s \in Seq(S), \A i, j \in DOMAIN s : s[i] = s[j] => i = j
  PROVE  LET t == SubSeq(s, 1, Len(s) - 1)
         IN  /\ t \in Seq(S)
             /\ \A i, j \in DOMAIN t : t[i] = t[j] => i = j
<1> DEFINE t == SubSeq(s, 1, Len(s) - 1)
<1>1. CASE s = <<>>
  <2>1. t = <<>>  BY <1>1
  <2> QED  BY <2>1
<1>2. CASE s # <<>>
  <2>1. /\ Len(s) \in Nat \ {0}
        /\ DOMAIN s = 1..Len(s)
    BY <1>2
  <2>2. /\ t \in Seq(S)
        /\ DOMAIN t = 1..(Len(s) - 1)
        /\ \A i \in DOMAIN t : t[i] = s[i]
    BY <2>1
  <2> QED  BY <2>1, <2>2
<1> QED  BY <1>1, <1>2

\* Putting a module on that is not in progress keeps them apart.
LEMMA PushKeeps ==
  ASSUME NEW S, NEW s \in Seq(S), NEW x \in S, x \notin Elements(s),
         \A i, j \in DOMAIN s : s[i] = s[j] => i = j
  PROVE  LET t == Append(s, x)
         IN  /\ t \in Seq(S)
             /\ \A i, j \in DOMAIN t : t[i] = t[j] => i = j
<1> DEFINE t == Append(s, x)
<1>1. /\ Len(s) \in Nat
      /\ DOMAIN s = 1..Len(s)
  OBVIOUS
<1>2. /\ t \in Seq(S)
      /\ DOMAIN t = 1..(Len(s) + 1)
      /\ \A i \in DOMAIN s : t[i] = s[i]
      /\ t[Len(s) + 1] = x
  OBVIOUS
<1>3. \A i \in DOMAIN s : s[i] # x
  BY DEF Elements
<1>4. ASSUME NEW i \in DOMAIN t, NEW j \in DOMAIN t, t[i] = t[j]
      PROVE  i = j
  <2>1. i \in DOMAIN s \/ i = Len(s) + 1  BY <1>1, <1>2
  <2>2. j \in DOMAIN s \/ j = Len(s) + 1  BY <1>1, <1>2
  <2> QED  BY <1>2, <1>3, <1>4, <2>1, <2>2
<1> QED  BY <1>2, <1>4

\* A dependency that is started is a module of the bundle.
LEMMA SourcesInBundle == \A alias : Sources(alias) \subseteq DOMAIN program
BY DEF Sources

LEMMA InitIInv == Init => IInv
BY DEF Init, IInv, StackOK, NeverInsideItself

LEMMA NextIInv == IInv /\ [Next]_vars => IInv'
<1> SUFFICES ASSUME IInv, [Next]_vars
             PROVE  IInv'
  OBVIOUS
<1> USE DEF IInv, StackOK, NeverInsideItself, session
<1>1. ASSUME UNCHANGED <<program, stack>>
      PROVE  IInv'
  BY <1>1
<1>2. ASSUME UNCHANGED program, stack' = Popped
      PROVE  IInv'
  <2>1. LET t == SubSeq(stack, 1, Len(stack) - 1)
        IN  /\ t \in Seq(DOMAIN program)
            /\ \A i, j \in DOMAIN t : t[i] = t[j] => i = j
    BY PopKeeps
  <2> QED  BY <1>2, <2>1 DEF Popped
<1>3. ASSUME UNCHANGED program, NEW dep \in DOMAIN program,
             ~InProgress(dep), stack' = Append(stack, dep)
      PROVE  IInv'
  <2>1. LET t == Append(stack, dep)
        IN  /\ t \in Seq(DOMAIN program)
            /\ \A i, j \in DOMAIN t : t[i] = t[j] => i = j
    BY <1>3, PushKeeps DEF InProgress
  <2> QED  BY <1>3, <2>1
<1>4. CASE Binding  BY <1>1, <1>4 DEF Binding
<1>5. CASE LeaveBinding  BY <1>1, <1>5 DEF LeaveBinding
<1>6. CASE EnterSeeded  BY <1>1, <1>6 DEF EnterSeeded
<1>7. CASE EnterKnown  BY <1>1, <1>7 DEF EnterKnown
<1>8. CASE EnterRef  BY <1>1, <1>8 DEF EnterRef
<1>9. CASE EnterNode  BY <1>1, <1>9 DEF EnterNode
<1>10. CASE FinishPlain  BY <1>1, <1>10 DEF FinishPlain
<1>11. CASE ImportFails  BY <1>1, <1>11 DEF ImportFails
<1>12. CASE ImportRemembered  BY <1>1, <1>12 DEF ImportRemembered
<1>13. CASE ImportInfers
  <2>1. PICK dep \in Sources(Node.names[1]) :
          ~InProgress(dep) /\ stack' = Append(stack, dep)
    BY <1>13 DEF ImportInfers
  <2>2. UNCHANGED program  BY <1>13 DEF ImportInfers
  <2> QED  BY <1>3, <2>1, <2>2, SourcesInBundle
<1>14. CASE ResumeModule  BY <1>2, <1>14 DEF ResumeModule
<1>15. CASE ApplyPlain  BY <1>1, <1>15 DEF ApplyPlain
<1>16. CASE ApplyBody  BY <1>1, <1>16 DEF ApplyBody
<1>17. CASE ResumeBody  BY <1>1, <1>17 DEF ResumeBody
<1>18. CASE ApplyImported
  <2>1. PICK dep \in CallScopes : stack' = Append(stack, dep)
    BY <1>18 DEF ApplyImported
  <2>2. UNCHANGED program  BY <1>18 DEF ApplyImported
  <2>3. dep \in DOMAIN program /\ ~InProgress(dep)
    BY <2>1, SourcesInBundle DEF CallScopes
  <2> QED  BY <1>3, <2>1, <2>2, <2>3
<1>19. CASE ResumeCall  BY <1>2, <1>19 DEF ResumeCall
<1>20. CASE Panic  BY <1>1, <1>20 DEF Panic
<1>21. CASE Finished  BY <1>1, <1>21 DEF Finished
<1>22. CASE UNCHANGED vars  BY <1>1, <1>22 DEF vars
<1> QED
  BY <1>4, <1>5, <1>6, <1>7, <1>8, <1>9, <1>10, <1>11, <1>12, <1>13, <1>14, <1>15,
     <1>16, <1>17, <1>18, <1>19, <1>20, <1>21, <1>22 DEF Next

\* No module is inferred, or called, inside itself, whatever programs import
\* each other: `ModuleBundle`'s stack guards both ways into a dependency.
THEOREM NotInsideItself == Spec => []NeverInsideItself
<1>1. IInv => NeverInsideItself  BY DEF IInv
<1> QED  BY InitIInv, NextIInv, <1>1, PTL DEF Spec

-----------------------------------------------------------------------------
(* The work items, counted from the bottom of the stack: a step changes    *)
(* those on top of the item it takes off, and no others.                   *)

IsSequence(s) == s \in Seq(Elements(s))

Under(w, q) == w[Len(w) + 1 - q]

\* The places of the items of some kinds.
Marked(w, kinds) == {q \in 1..Len(w) : Under(w, q).do \in kinds}

\* What a step makes of the work: `items` in place of the item on top.
Replaces(v, w, items) ==
  /\ IsSequence(v) /\ Len(v) = Len(items) + Len(w) - 1
  /\ Len(w) \in Nat \ {0} /\ Len(items) \in Nat
  /\ Under(w, Len(w)) = Head(w)
  /\ \A q \in 1..(Len(w) - 1) : Under(v, q) = Under(w, q)
  /\ \A q \in Len(w)..Len(v) : /\ Len(v) + 1 - q \in 1..Len(items)
                                /\ Under(v, q) = items[Len(v) + 1 - q]

LEMMA ReplaceTop ==
  ASSUME NEW w, IsSequence(w), w # <<>>, NEW I, NEW items \in Seq(I)
  PROVE  Replaces(items \o Tail(w), w, items)
<1>. DEFINE v == items \o Tail(w)
            W == Elements(w) \cup I
<1>1. w \in Seq(W) /\ items \in Seq(W)
  BY SeqMonotonic DEF IsSequence
<1>2. Len(w) \in Nat \ {0} /\ Len(items) \in Nat
  BY <1>1
<1>3. /\ Tail(w) \in Seq(W) /\ Len(Tail(w)) = Len(w) - 1
      /\ \A i \in 1..(Len(w) - 1) : Tail(w)[i] = w[i + 1]
      /\ Head(w) = w[1]
  BY <1>1
<1>4. v \in Seq(W) /\ Len(v) = Len(items) + Len(w) - 1
  BY <1>1, <1>2, <1>3
<1>5. \A i \in 1..Len(v) : v[i] = IF i <= Len(items) THEN items[i] ELSE Tail(w)[i - Len(items)]
  BY <1>1, <1>2, <1>3
<1>. HIDE DEF v, W
<1>6. IsSequence(v)
  <2>1. DOMAIN v = 1..Len(v) /\ Len(v) \in Nat
    BY <1>4
  <2>2. v \in [1..Len(v) -> Elements(v)]
    BY <1>4, <2>1 DEF Elements
  <2>. QED
    BY <2>1, <2>2 DEF IsSequence
<1>7. ASSUME NEW q \in 1..(Len(w) - 1)
      PROVE  Under(v, q) = Under(w, q)
  <2>1. Len(v) + 1 - q \in 1..Len(v) /\ Len(v) + 1 - q > Len(items)
    BY <1>2, <1>4
  <2>2. v[Len(v) + 1 - q] = Tail(w)[Len(w) - q]
    BY <1>2, <1>4, <1>5, <2>1
  <2>3. Tail(w)[Len(w) - q] = w[Len(w) + 1 - q]
    BY <1>2, <1>3
  <2>. QED
    BY <2>2, <2>3 DEF Under
<1>8. ASSUME NEW q \in Len(w)..Len(v)
      PROVE  /\ Len(v) + 1 - q \in 1..Len(items)
             /\ Under(v, q) = items[Len(v) + 1 - q]
  <2>1. Len(v) + 1 - q \in 1..Len(v) /\ Len(v) + 1 - q \in 1..Len(items)
    BY <1>2, <1>4
  <2>. QED
    BY <1>2, <1>5, <2>1 DEF Under
<1>9. Under(w, Len(w)) = Head(w)
  BY <1>2, <1>3 DEF Under
<1>. QED
  BY <1>2, <1>4, <1>6, <1>7, <1>8, <1>9 DEF Replaces, v

\* Places stay marked when neither what is taken off nor what is put on is
\* of these kinds.
LEMMA MarksStay ==
  ASSUME NEW w, NEW v, NEW items, Replaces(v, w, items), NEW kinds,
         Head(w).do \notin kinds,
         \A i \in 1..Len(items) : items[i].do \notin kinds
  PROVE  Marked(v, kinds) = Marked(w, kinds) /\ Marked(w, kinds) \subseteq 1..(Len(w) - 1)
<1>1. Len(w) \in Nat \ {0} /\ Len(items) \in Nat /\ Len(v) = Len(items) + Len(w) - 1
  BY DEF Replaces
<1>2. \A q \in Marked(w, kinds) : q \in 1..(Len(w) - 1)
  BY <1>1 DEF Marked, Replaces
<1>3. \A q \in Marked(v, kinds) : q \in 1..(Len(w) - 1)
  <2>. SUFFICES ASSUME NEW q \in Marked(v, kinds), q >= Len(w)
                PROVE  FALSE
    BY <1>1 DEF Marked
  <2>1. q \in Len(w)..Len(v) /\ Under(v, q).do \in kinds
    BY <1>1 DEF Marked
  <2>. QED
    BY <2>1 DEF Replaces
<1>4. \A q \in 1..(Len(w) - 1) : q \in 1..Len(v) /\ q \in 1..Len(w) /\ Under(v, q) = Under(w, q)
  BY <1>1 DEF Replaces
<1>. QED
  BY <1>2, <1>3, <1>4 DEF Marked

\* A place becomes marked where the item on top was taken off.
LEMMA MarkPushed ==
  ASSUME NEW w, NEW v, NEW items, Replaces(v, w, items), NEW kinds,
         Head(w).do \notin kinds, Len(items) > 0,
         items[Len(items)].do \in kinds,
         \A i \in 1..(Len(items) - 1) : items[i].do \notin kinds
  PROVE  /\ Marked(v, kinds) = Marked(w, kinds) \cup {Len(w)}
         /\ Marked(w, kinds) \subseteq 1..(Len(w) - 1)
         /\ Under(v, Len(w)) = items[Len(items)]
<1>1. Len(w) \in Nat \ {0} /\ Len(items) \in Nat /\ Len(v) = Len(items) + Len(w) - 1
  BY DEF Replaces
<1>2. \A q \in Marked(w, kinds) : q \in 1..(Len(w) - 1)
  BY <1>1 DEF Marked, Replaces
<1>3. Len(w) \in Len(w)..Len(v) /\ Len(v) + 1 - Len(w) = Len(items)
  BY <1>1
<1>4. Under(v, Len(w)) = items[Len(items)]
  BY <1>3 DEF Replaces
<1>5. \A q \in Marked(v, kinds) : q \in 1..(Len(w) - 1) \/ q = Len(w)
  <2>. SUFFICES ASSUME NEW q \in Marked(v, kinds), q > Len(w)
                PROVE  FALSE
    BY <1>1 DEF Marked
  <2>1. q \in Len(w)..Len(v) /\ Under(v, q).do \in kinds /\ q \in Nat
    BY <1>1 DEF Marked
  <2>2. Len(v) + 1 - q \in 1..(Len(items) - 1)
    BY <1>1, <2>1
  <2>. QED
    BY <2>1, <2>2 DEF Replaces
<1>6. \A q \in 1..(Len(w) - 1) : q \in 1..Len(v) /\ q \in 1..Len(w) /\ Under(v, q) = Under(w, q)
  BY <1>1 DEF Replaces
<1>7. Len(w) \in Marked(v, kinds)
  BY <1>1, <1>3, <1>4 DEF Marked
<1>. QED
  BY <1>2, <1>4, <1>5, <1>6, <1>7 DEF Marked

\* The mark of the item that is taken off goes.
LEMMA MarkPopped ==
  ASSUME NEW w, NEW v, Replaces(v, w, <<>>), NEW kinds, Head(w).do \in kinds
  PROVE  /\ Len(v) = Len(w) - 1
         /\ Marked(v, kinds) = Marked(w, kinds) \ {Len(w)}
         /\ Len(w) \in Marked(w, kinds)
         /\ Marked(v, kinds) \subseteq 1..(Len(w) - 1)
<1>1. Len(w) \in Nat \ {0} /\ Len(v) = Len(w) - 1
  BY DEF Replaces
<1>2. Len(w) \in Marked(w, kinds)
  BY <1>1 DEF Marked, Replaces
<1>3. \A q \in 1..(Len(w) - 1) : q \in 1..Len(v) /\ q \in 1..Len(w) /\ Under(v, q) = Under(w, q)
  BY <1>1 DEF Replaces
<1>4. Marked(v, kinds) \subseteq 1..(Len(w) - 1) /\ Marked(w, kinds) \subseteq 1..Len(w)
  BY <1>1 DEF Marked
<1>. QED
  BY <1>1, <1>2, <1>3, <1>4 DEF Marked

-----------------------------------------------------------------------------
(* What the operators on programs return for modules that are well formed: *)
(* nodes of the same module.                                               *)

LEMMA ModuleFacts ==
  ASSUME NEW m, WellFormed(m)
  PROVE  /\ Len(m.nodes) \in Nat /\ DOMAIN m.nodes = 1..Len(m.nodes)
         /\ Len(m.binds) \in Nat /\ DOMAIN m.binds = 1..Len(m.binds)
         /\ \A n \in DOMAIN m.nodes :
              /\ m.nodes[n].kids \in Seq(DOMAIN m.nodes)
              /\ Op(m, n) \in Ops
              /\ m.nodes[n].names \in Seq(STRING)
         /\ Names(m) \subseteq STRING
<1>1. /\ m.nodes \in Seq([op : Ops, kids : Seq(Nat), names : Seq(STRING)])
      /\ m.binds \in Seq([name : STRING, rhs : Nat, public : BOOLEAN])
  BY DEF WellFormed, Modules
<1>2. /\ Len(m.nodes) \in Nat /\ DOMAIN m.nodes = 1..Len(m.nodes)
      /\ Len(m.binds) \in Nat /\ DOMAIN m.binds = 1..Len(m.binds)
  BY <1>1
<1>3. Names(m) \subseteq STRING
  <2>. DEFINE B == [name : STRING, rhs : Nat, public : BOOLEAN]
  <2>1. m.binds \in Seq(B)
    BY <1>1
  <2>. HIDE DEF B
  <2>2. \A i \in DOMAIN m.binds : m.binds[i] \in B
    BY <1>2, <2>1, ElementOfSeq
  <2>3. \A i \in DOMAIN m.binds : m.binds[i].name \in STRING
    BY <2>2 DEF B
  <2>. QED
    BY <2>3 DEF Names
<1>4. ASSUME NEW n \in DOMAIN m.nodes
      PROVE  /\ m.nodes[n].kids \in Seq(DOMAIN m.nodes)
             /\ Op(m, n) \in Ops
             /\ m.nodes[n].names \in Seq(STRING)
  <2>. DEFINE N == [op : Ops, kids : Seq(Nat), names : Seq(STRING)]
  <2>0. m.nodes \in Seq(N)
    BY <1>1
  <2>. HIDE DEF N
  <2>1. m.nodes[n] \in N
    BY <1>2, <2>0, ElementOfSeq
  <2>. USE DEF N
  <2>. DEFINE k == m.nodes[n].kids
  <2>2. k \in Seq(Nat) /\ Op(m, n) \in Ops /\ m.nodes[n].names \in Seq(STRING)
    BY <2>1 DEF Op
  <2>3. Kids(m, n) \subseteq DOMAIN m.nodes
    BY <1>2 DEF WellFormed
  <2>4. \A i \in DOMAIN k : k[i] \in DOMAIN m.nodes
    BY <2>3 DEF Kids
  <2>. HIDE DEF k
  <2>5. k \in Seq(DOMAIN m.nodes)
    BY <2>2, <2>4, IsASeq, LenProperties
  <2>. QED
    BY <2>2, <2>5 DEF k
<1>. QED
  BY <1>2, <1>3, <1>4

LEMMA RhsInModule ==
  ASSUME NEW m, WellFormed(m), NEW name \in Names(m)
  PROVE  Rhs(m, name) \in DOMAIN m.nodes
<1>1. PICK i \in DOMAIN m.binds : m.binds[i].name = name
  BY DEF Names
<1>2. BindingOf(m, name) \in {m.binds[j] : j \in DOMAIN m.binds}
  BY <1>1 DEF BindingOf
<1>. QED
  BY <1>2 DEF Rhs, WellFormed

LEMMA RefRhsInModule ==
  ASSUME NEW m, WellFormed(m), NEW n, IsRef(m, n)
  PROVE  /\ m.nodes[n].names[1] \in Names(m)
         /\ RefRhs(m, n) \in DOMAIN m.nodes
BY RhsInModule DEF IsRef, RefRhs

LEMMA RefTargetInModule ==
  ASSUME NEW m, NEW n \in DOMAIN m.nodes
  PROVE  RefTarget(m, n) \in DOMAIN m.nodes
<1>. DEFINE ends == {k \in Route(m, n) \cap DOMAIN m.nodes : ~IsRef(m, k)}
<1>1. CASE ends = {}
  BY <1>1 DEF RefTarget
<1>2. CASE ends # {}
  <2>1. (CHOOSE k \in ends : TRUE) \in ends
    BY <1>2
  <2>. QED
    BY <1>2, <2>1 DEF RefTarget
<1>. QED
  BY <1>1, <1>2

LEMMA DirectiveInModule ==
  ASSUME NEW m, WellFormed(m), NEW alias, Directive(m, alias) # 0
  PROVE  Directive(m, alias) \in DOMAIN m.nodes
<1>1. alias \in Names(m) /\ Directive(m, alias) = RefTarget(m, Rhs(m, alias))
  BY DEF Directive
<1>. QED
  BY <1>1, RhsInModule, RefTargetInModule

LEMMA SubstitutionsInModule ==
  ASSUME NEW m, WellFormed(m), NEW alias
  PROVE  LET subs == Substitutions(m, alias) IN
         /\ Len(subs) \in Nat /\ DOMAIN subs = 1..Len(subs)
         /\ \A i \in DOMAIN subs : subs[i][2] \in DOMAIN m.nodes
<1>. DEFINE d == Directive(m, alias)
<1>1. CASE d = 0
  <2>1. Substitutions(m, alias) = <<>>
    BY <1>1 DEF Substitutions
  <2>. QED
    BY <2>1
<1>2. CASE d # 0
  <2>. DEFINE k == m.nodes[d].kids
              subs == [i \in DOMAIN k |-> <<m.nodes[d].names[i + 1], k[i]>>]
  <2>1. Substitutions(m, alias) = subs
    BY <1>2 DEF Substitutions
  <2>2. k \in Seq(DOMAIN m.nodes)
    BY <1>2, DirectiveInModule, ModuleFacts
  <2>. HIDE DEF k
  <2>3. DOMAIN k = 1..Len(k) /\ Len(k) \in Nat /\ \A i \in DOMAIN k : k[i] \in DOMAIN m.nodes
    BY <2>2
  <2>4. DOMAIN subs = 1..Len(k) /\ Len(subs) = Len(k)
    BY <2>3
  <2>5. \A i \in DOMAIN subs : subs[i][2] = k[i]
    BY <2>3
  <2>. QED
    BY <2>1, <2>3, <2>4, <2>5
<1>. QED
  BY <1>1, <1>2

LEMMA ReificationInModule ==
  ASSUME NEW m, WellFormed(m), NEW n, LocalReification(m, n) # 0
  PROVE  LET f == LocalReification(m, n) IN
         /\ f \in DOMAIN m.nodes /\ Op(m, f) = "fun" /\ Body(m, f) \in DOMAIN m.nodes
<1>. DEFINE f == LocalReification(m, n)
<1>1. f \in DOMAIN m.nodes /\ Op(m, f) = "fun"
  BY DEF LocalReification
<1>2. Body(m, f) \in DOMAIN m.nodes
  <2>. HIDE DEF f
  <2>1. Len(m.nodes[f].kids) = 1
    BY <1>1 DEF WellFormed, Arity
  <2>2. m.nodes[f].kids \in Seq(DOMAIN m.nodes)
    BY <1>1, ModuleFacts
  <2>. QED
    BY <2>1, <2>2 DEF Body
<1>. QED
  BY <1>1, <1>2

LEMMA WithCallWellFormed ==
  ASSUME NEW m, WellFormed(m), NEW name \in STRING
  PROVE  /\ WellFormed(WithCall(m, name))
         /\ CallRoot(m) \in DOMAIN WithCall(m, name).nodes
<1>. DEFINE L == Len(m.nodes)
            a == [op |-> "ref", kids |-> <<>>, names |-> <<name>>]
            b == [op |-> "hole", kids |-> <<>>, names |-> <<>>]
            c == [op |-> "apply", kids |-> <<L + 1, L + 2>>, names |-> <<>>]
            w == WithCall(m, name)
            N == [op : Ops, kids : Seq(Nat), names : Seq(STRING)]
<1>1. L \in Nat /\ DOMAIN m.nodes = 1..L /\ m.nodes \in Seq(N) /\ m \in Modules
  BY ModuleFacts DEF WellFormed, Modules
<1>2. a \in N /\ b \in N /\ c \in N
  BY <1>1 DEF Ops
<1>3. w = [m EXCEPT !.nodes = m.nodes \o <<a, b, c>>]
  BY DEF WithCall
<1>4. w.nodes = m.nodes \o <<a, b, c>> /\ w.binds = m.binds /\ w = [nodes |-> w.nodes, binds |-> m.binds]
  BY <1>1, <1>3 DEF Modules
<1>. HIDE DEF N, w
<1>5. <<a, b, c>> \in Seq(N)
  BY <1>2
<1>6. w.nodes \in Seq(N) /\ Len(w.nodes) = L + 3
  BY <1>1, <1>4, <1>5
<1>7. /\ \A n \in 1..L : w.nodes[n] = m.nodes[n]
      /\ w.nodes[L + 1] = a /\ w.nodes[L + 2] = b /\ w.nodes[L + 3] = c
  BY <1>1, <1>4, <1>5
<1>8. DOMAIN w.nodes = 1..(L + 3)
  BY <1>1, <1>6
<1>9. w \in Modules
  BY <1>1, <1>4, <1>6 DEF Modules, N
<1>10. ASSUME NEW n \in DOMAIN w.nodes
       PROVE  /\ Kids(w, n) \subseteq 1..(n - 1)
              /\ Op(w, n) # "load" => Len(w.nodes[n].kids) = Arity(Op(w, n))
  <2>1. CASE n \in 1..L
    BY <1>1, <1>7, <2>1 DEF WellFormed, Kids, Op
  <2>2. CASE n = L + 1
    BY <1>7, <2>2 DEF Kids, Op, Arity
  <2>3. CASE n = L + 2
    BY <1>7, <2>3 DEF Kids, Op, Arity
  <2>4. CASE n = L + 3
    <3>1. Kids(w, n) \subseteq {L + 1, L + 2}
      BY <1>7, <2>4 DEF Kids
    <3>2. Op(w, n) = "apply" /\ Len(w.nodes[n].kids) = 2
      BY <1>7, <2>4 DEF Op
    <3>. QED
      BY <1>1, <2>4, <3>1, <3>2 DEF Arity
  <2>. QED
    BY <1>1, <1>8, <2>1, <2>2, <2>3, <2>4
<1>11. \A i \in DOMAIN w.binds : w.binds[i].rhs \in DOMAIN w.nodes
  BY <1>1, <1>4, <1>8 DEF WellFormed
<1>. QED
  BY <1>1, <1>8, <1>9, <1>10, <1>11 DEF WellFormed, CallRoot, w

-----------------------------------------------------------------------------
(* An item belongs to the module that the next item above it going back to *)
(* a suspended module goes back to, and to the module at work if there is  *)
(* none above it: its node or binding is one of that module's.             *)

Crossing == {"ResumeModule", "ResumeCall"}
Crosses(w) == Marked(w, Crossing)

Fits(item, m) ==
  /\ item.do = "Binding" => item.name \in Names(m)
  /\ item.do \in {"Enter", "Finish"} => item.node \in DOMAIN m.nodes

TopFits(w, m) ==
  \A q \in 1..Len(w) : (\A c \in Crosses(w) : c < q) => Fits(Under(w, q), m)

BelowFits(w) ==
  \A c \in Crosses(w) :
    LET m == Under(w, c).here.module
    IN  /\ WellFormed(m)
        /\ \A q \in 1..c : (\A e \in Crosses(w) : e < q \/ c <= e) => Fits(Under(w, q), m)

ItemsInv ==
  /\ IsSequence(work) /\ program \in Programs
  /\ WellFormed(Mod) /\ TopFits(work, Mod) /\ BelowFits(work)

LEMMA FitsStay ==
  ASSUME NEW w, NEW v, NEW items, Replaces(v, w, items), NEW m,
         Head(w).do \notin Crossing, TopFits(w, m), BelowFits(w),
         \A i \in 1..Len(items) : items[i].do \notin Crossing /\ Fits(items[i], m)
  PROVE  TopFits(v, m) /\ BelowFits(v)
<1>1. Crosses(v) = Crosses(w) /\ Crosses(w) \subseteq 1..(Len(w) - 1)
  BY MarksStay DEF Crosses
<1>2. Len(w) \in Nat \ {0} /\ Len(items) \in Nat /\ Len(v) = Len(items) + Len(w) - 1
  BY DEF Replaces
<1>3. ASSUME NEW q \in 1..Len(v), \A c \in Crosses(v) : c < q
      PROVE  Fits(Under(v, q), m)
  <2>1. CASE q < Len(w)
    <3>1. q \in 1..(Len(w) - 1) /\ q \in 1..Len(w)
      BY <1>2, <2>1
    <3>2. Fits(Under(w, q), m)
      BY <1>1, <1>3, <3>1 DEF TopFits
    <3>. QED
      BY <3>1, <3>2 DEF Replaces
  <2>2. CASE q >= Len(w)
    <3>1. q \in Len(w)..Len(v)
      BY <1>2, <2>2
    <3>. QED
      BY <3>1 DEF Replaces
  <2>. QED
    BY <1>2, <2>1, <2>2
<1>4. \A q \in 1..(Len(w) - 1) : Under(v, q) = Under(w, q)
  BY DEF Replaces
<1>5. ASSUME NEW c \in Crosses(v)
      PROVE  LET n == Under(v, c).here.module
             IN  /\ WellFormed(n)
                 /\ \A q \in 1..c : (\A e \in Crosses(v) : e < q \/ c <= e)
                                    => Fits(Under(v, q), n)
  <2>1. c \in Crosses(w) /\ c \in 1..(Len(w) - 1) /\ Under(v, c) = Under(w, c)
    BY <1>1, <1>4
  <2>2. \A q \in 1..c : q \in 1..(Len(w) - 1)
    BY <1>2, <2>1
  <2>. QED
    BY <1>1, <1>4, <2>1, <2>2 DEF BelowFits
<1>. QED
  BY <1>3, <1>5 DEF TopFits, BelowFits

LEMMA FitsPushed ==
  ASSUME NEW w, NEW v, NEW items, Replaces(v, w, items), NEW m, NEW n,
         Head(w).do \notin Crossing, TopFits(w, m), BelowFits(w),
         Len(items) > 0, items[Len(items)].do \in Crossing,
         items[Len(items)].here.module = m, WellFormed(m),
         \A i \in 1..(Len(items) - 1) : items[i].do \notin Crossing /\ Fits(items[i], n)
  PROVE  TopFits(v, n) /\ BelowFits(v)
<1>1. /\ Crosses(v) = Crosses(w) \cup {Len(w)}
      /\ Crosses(w) \subseteq 1..(Len(w) - 1)
      /\ Under(v, Len(w)) = items[Len(items)]
  BY MarkPushed DEF Crosses
<1>2. Len(w) \in Nat \ {0} /\ Len(items) \in Nat /\ Len(v) = Len(items) + Len(w) - 1
  BY DEF Replaces
<1>3. ASSUME NEW q \in 1..Len(v), \A c \in Crosses(v) : c < q
      PROVE  Fits(Under(v, q), n)
  <2>1. q \in Len(w)..Len(v) /\ Len(w) < q
    BY <1>1, <1>2, <1>3
  <2>2. Len(v) + 1 - q \in 1..(Len(items) - 1)
    BY <1>2, <2>1
  <2>. QED
    BY <2>1, <2>2 DEF Replaces
<1>4. \A q \in 1..(Len(w) - 1) : Under(v, q) = Under(w, q)
  BY DEF Replaces
<1>5. ASSUME NEW c \in Crosses(v), NEW q \in 1..c, \A e \in Crosses(v) : e < q \/ c <= e
      PROVE  /\ WellFormed(Under(v, c).here.module)
             /\ Fits(Under(v, q), Under(v, c).here.module)
  <2>1. CASE c \in Crosses(w)
    <3>1. c \in 1..(Len(w) - 1) /\ q \in 1..(Len(w) - 1)
      BY <1>1, <1>2, <2>1
    <3>2. \A e \in Crosses(w) : e < q \/ c <= e
      BY <1>1, <1>5
    <3>. QED
      BY <1>4, <2>1, <3>1, <3>2 DEF BelowFits
  <2>2. CASE c = Len(w)
    <3>1. Under(v, c).here.module = m
      BY <1>1, <2>2
    <3>2. CASE q = Len(w)
      BY <1>1, <3>1, <3>2 DEF Fits, Crossing
    <3>3. CASE q # Len(w)
      <4>1. q \in 1..(Len(w) - 1) /\ q \in 1..Len(w)
        BY <1>2, <2>2, <3>3
      <4>2. \A e \in Crosses(w) : e < q
        BY <1>1, <1>2, <1>5, <2>2
      <4>3. Fits(Under(w, q), m)
        BY <4>1, <4>2 DEF TopFits
      <4>. QED
        BY <1>4, <3>1, <4>1, <4>3
    <3>. QED
      BY <3>2, <3>3
  <2>. QED
    BY <1>1, <2>1, <2>2
<1>6. ASSUME NEW c \in Crosses(v)
      PROVE  WellFormed(Under(v, c).here.module)
  <2>1. CASE c = Len(w)
    BY <1>1, <2>1
  <2>2. CASE c \in Crosses(w)
    BY <1>1, <1>4, <2>2 DEF BelowFits
  <2>. QED
    BY <1>1, <2>1, <2>2
<1>. QED
  BY <1>3, <1>5, <1>6 DEF TopFits, BelowFits

LEMMA FitsPopped ==
  ASSUME NEW w, NEW v, Replaces(v, w, <<>>), Head(w).do \in Crossing, BelowFits(w)
  PROVE  LET m == Head(w).here.module
         IN  WellFormed(m) /\ TopFits(v, m) /\ BelowFits(v)
<1>. DEFINE m == Head(w).here.module
<1>1. /\ Len(v) = Len(w) - 1
      /\ Crosses(v) = Crosses(w) \ {Len(w)} /\ Len(w) \in Crosses(w)
      /\ Crosses(v) \subseteq 1..(Len(w) - 1)
  BY MarkPopped DEF Crosses
<1>2. Len(w) \in Nat \ {0} /\ Under(w, Len(w)) = Head(w)
  BY DEF Replaces
<1>3. \A q \in 1..(Len(w) - 1) : Under(v, q) = Under(w, q)
  BY DEF Replaces
<1>4. WellFormed(m)
  BY <1>1, <1>2 DEF BelowFits
<1>5. ASSUME NEW q \in 1..Len(v), \A c \in Crosses(v) : c < q
      PROVE  Fits(Under(v, q), m)
  <2>1. q \in 1..(Len(w) - 1) /\ q \in 1..Len(w)
    BY <1>1, <1>2
  <2>2. \A e \in Crosses(w) : e < q \/ Len(w) <= e
    BY <1>1, <1>2, <1>5
  <2>3. Fits(Under(w, q), m)
    BY <1>1, <1>2, <2>1, <2>2 DEF BelowFits
  <2>. QED
    BY <1>3, <2>1, <2>3
<1>6. ASSUME NEW c \in Crosses(v)
      PROVE  LET n == Under(v, c).here.module
             IN  /\ WellFormed(n)
                 /\ \A q \in 1..c : (\A e \in Crosses(v) : e < q \/ c <= e)
                                    => Fits(Under(v, q), n)
  <2>1. c \in Crosses(w) /\ c \in 1..(Len(w) - 1) /\ Under(v, c) = Under(w, c)
    BY <1>1, <1>3
  <2>2. \A q \in 1..c : q \in 1..(Len(w) - 1)
    BY <1>2, <2>1
  <2>3. \A q \in 1..c : (\A e \in Crosses(v) : e < q \/ c <= e)
                        => (\A e \in Crosses(w) : e < q \/ c <= e)
    BY <1>1, <1>2, <2>1
  <2>. QED
    BY <1>3, <2>1, <2>2, <2>3 DEF BelowFits
<1>. QED
  BY <1>4, <1>5, <1>6 DEF TopFits, BelowFits

-----------------------------------------------------------------------------
(* Going back through the suspended modules leads, one by one, through the *)
(* dependencies in progress.                                               *)

Depth(w, q) == Cardinality({c \in Crosses(w) : c <= q})

Returns(w, s) ==
  /\ Cardinality(Crosses(w)) = Len(s)
  /\ \A q \in Crosses(w) : Under(w, q).here.id = Importer(SubSeq(s, 1, Depth(w, q) - 1))

LEMMA CrossesFinite ==
  ASSUME NEW w, Len(w) \in Nat
  PROVE  IsFiniteSet(Crosses(w)) /\ \A q : IsFiniteSet({c \in Crosses(w) : c <= q})
<1>1. IsFiniteSet(1..Len(w)) /\ Crosses(w) \subseteq 1..Len(w)
  BY FS_Interval DEF Crosses, Marked
<1>. QED
  BY <1>1, FS_Subset

LEMMA ReturnsStay ==
  ASSUME NEW w, NEW v, NEW items, Replaces(v, w, items), NEW s, Returns(w, s),
         Head(w).do \notin Crossing,
         \A i \in 1..Len(items) : items[i].do \notin Crossing
  PROVE  Returns(v, s)
<1>1. Crosses(v) = Crosses(w) /\ Crosses(w) \subseteq 1..(Len(w) - 1)
  BY MarksStay DEF Crosses
<1>2. \A q \in Crosses(w) : Under(v, q) = Under(w, q) /\ Depth(v, q) = Depth(w, q)
  BY <1>1 DEF Replaces, Depth
<1>. QED
  BY <1>1, <1>2 DEF Returns

LEMMA ReturnsPushed ==
  ASSUME NEW w, NEW v, NEW items, Replaces(v, w, items), NEW S, NEW s \in Seq(S), Returns(w, s),
         Head(w).do \notin Crossing, Len(items) > 0,
         items[Len(items)].do \in Crossing,
         \A i \in 1..(Len(items) - 1) : items[i].do \notin Crossing,
         items[Len(items)].here.id = Importer(s), NEW x \in S
  PROVE  Returns(v, Append(s, x)) /\ Importer(Append(s, x)) = x
<1>. DEFINE t == Append(s, x)
<1>1. /\ Crosses(v) = Crosses(w) \cup {Len(w)}
      /\ Crosses(w) \subseteq 1..(Len(w) - 1)
      /\ Under(v, Len(w)) = items[Len(items)]
  BY MarkPushed DEF Crosses
<1>2. /\ Len(w) \in Nat \ {0} /\ Len(items) \in Nat /\ Len(v) = Len(items) + Len(w) - 1
      /\ Len(v) \in Nat
  BY DEF Replaces
<1>3. Cardinality(Crosses(v)) = Len(s) + 1
  <2>1. IsFiniteSet(Crosses(w)) /\ Len(w) \notin Crosses(w)
    BY <1>1, <1>2, CrossesFinite
  <2>. QED
    BY <1>1, <2>1, FS_AddElement DEF Returns
<1>4. Len(t) = Len(s) + 1 /\ Len(s) \in Nat /\ \A i \in 1..Len(s) : t[i] = s[i]
  OBVIOUS
<1>5. t # <<>> /\ t[Len(t)] = x
  OBVIOUS
<1>6. ASSUME NEW k \in 0..Len(s)
      PROVE  SubSeq(t, 1, k) = SubSeq(s, 1, k)
  <2>. HIDE DEF t
  <2>1. SubSeq(t, 1, k) = [i \in 1..k |-> t[i]] /\ SubSeq(s, 1, k) = [i \in 1..k |-> s[i]]
    <3>. USE DEF t
    <3>. QED OBVIOUS
  <2>2. \A i \in 1..k : t[i] = s[i]
    BY <1>4
  <2>. QED
    BY <2>1, <2>2
<1>7. ASSUME NEW q \in Crosses(v)
      PROVE  Under(v, q).here.id = Importer(SubSeq(t, 1, Depth(v, q) - 1))
  <2>1. CASE q = Len(w)
    <3>1. {c \in Crosses(v) : c <= q} = Crosses(v)
      BY <1>1, <1>2, <2>1
    <3>2. Depth(v, q) = Len(s) + 1
      BY <1>3, <3>1 DEF Depth
    <3>4. Depth(v, q) - 1 = Len(s)
      BY <1>4, <3>2
    <3>3. SubSeq(t, 1, Depth(v, q) - 1) = s
      BY <1>4, <1>6, <3>4
    <3>. QED
      BY <1>1, <2>1, <3>3
  <2>2. CASE q \in Crosses(w)
    <3>1. {c \in Crosses(v) : c <= q} = {c \in Crosses(w) : c <= q}
      BY <1>1, <1>2, <2>2
    <3>. DEFINE D == {c \in Crosses(w) : c <= q}
    <3>6. D \subseteq Crosses(w) /\ D # {}
      BY <1>1, <1>2, <2>2
    <3>7. IsFiniteSet(Crosses(w)) /\ IsFiniteSet(D)
      BY <1>2, CrossesFinite
    <3>2. /\ IsFiniteSet(Crosses(w)) /\ IsFiniteSet(D) /\ D \subseteq Crosses(w) /\ D # {}
      BY <3>6, <3>7
    <3>3. Cardinality(D) \in Nat /\ Cardinality(D) <= Len(s) /\ Cardinality(D) # 0
      <4>. HIDE DEF D
      <4>1. Cardinality(D) \in Nat /\ Cardinality(D) <= Cardinality(Crosses(w))
        BY <3>2, FS_Subset, FS_CardinalityType
      <4>2. Cardinality(D) # 0
        BY <3>2, FS_EmptySet
      <4>. QED
        BY <4>1, <4>2 DEF Returns
    <3>8. Depth(v, q) = Depth(w, q) /\ Depth(w, q) = Cardinality(D)
      BY <3>1 DEF Depth
    <3>4. Depth(v, q) = Depth(w, q) /\ Depth(w, q) - 1 \in 0..Len(s)
      <4>. HIDE DEF D
      <4>. QED
        BY <1>4, <3>3, <3>8
    <3>5. Under(v, q) = Under(w, q)
      BY <1>1, <2>2 DEF Replaces
    <3>. QED
      BY <1>6, <2>2, <3>4, <3>5 DEF Returns
  <2>. QED
    BY <1>1, <2>1, <2>2
<1>. QED
  BY <1>3, <1>4, <1>5, <1>7 DEF Returns, Importer

LEMMA ReturnsPopped ==
  ASSUME NEW w, NEW v, Replaces(v, w, <<>>), NEW S, NEW s \in Seq(S), Returns(w, s),
         Head(w).do \in Crossing
  PROVE  LET t == SubSeq(s, 1, Len(s) - 1)
         IN  Returns(v, t) /\ Head(w).here.id = Importer(t)
<1>. DEFINE t == SubSeq(s, 1, Len(s) - 1)
<1>1. /\ Len(v) = Len(w) - 1
      /\ Crosses(v) = Crosses(w) \ {Len(w)} /\ Len(w) \in Crosses(w)
      /\ Crosses(v) \subseteq 1..(Len(w) - 1)
  BY MarkPopped DEF Crosses
<1>2. Len(w) \in Nat \ {0} /\ Under(w, Len(w)) = Head(w) /\ Len(s) \in Nat
  BY DEF Replaces
<1>3. IsFiniteSet(Crosses(w)) /\ \A q : IsFiniteSet({c \in Crosses(w) : c <= q})
  BY <1>2, CrossesFinite
<1>4. Cardinality(Crosses(v)) = Len(s) - 1 /\ Len(s) # 0
  <2>1. Cardinality(Crosses(v)) = Cardinality(Crosses(w)) - 1
    BY <1>1, <1>3, FS_RemoveElement
  <2>2. Cardinality(Crosses(w)) # 0
    BY <1>1, <1>3, FS_EmptySet
  <2>. QED
    BY <2>1, <2>2 DEF Returns
<1>5. Len(t) = Len(s) - 1 /\ \A k \in 0..(Len(s) - 1) : SubSeq(t, 1, k) = SubSeq(s, 1, k)
  <2>0. Len(s) - 1 \in 0..Len(s)
    BY <1>2, <1>4
  <2>1. t = [i \in 1..(Len(s) - 1) |-> s[i]] /\ Len(t) = Len(s) - 1
    <3>. DEFINE n == Len(s) - 1
    <3>1. n \in Nat /\ n \in 0..Len(s)
      BY <1>2, <2>0
    <3>2. t = SubSeq(s, 1, n)
      OBVIOUS
    <3>. HIDE DEF n, t
    <3>3. t = [i \in 1..n |-> s[i]]
      BY <3>1, <3>2
    <3>4. Len(t) = n
      BY <3>1, <3>3
    <3>. QED
      BY <3>3, <3>4 DEF n
  <2>. HIDE DEF t
  <2>2. ASSUME NEW k \in 0..(Len(s) - 1)
        PROVE  SubSeq(t, 1, k) = SubSeq(s, 1, k)
    <3>1. SubSeq(t, 1, k) = [i \in 1..k |-> t[i]] /\ SubSeq(s, 1, k) = [i \in 1..k |-> s[i]]
      BY <1>2, <2>1
    <3>2. \A i \in 1..k : t[i] = s[i]
      BY <1>2, <2>1
    <3>. QED
      BY <3>1, <3>2
  <2>. QED
    BY <2>1, <2>2
<1>6. Head(w).here.id = Importer(t)
  <2>1. {c \in Crosses(w) : c <= Len(w)} = Crosses(w)
    BY <1>1, <1>2
  <2>2. Depth(w, Len(w)) = Len(s)
    BY <2>1 DEF Depth, Returns
  <2>. QED
    BY <1>1, <1>2, <2>2 DEF Returns
<1>7. ASSUME NEW q \in Crosses(v)
      PROVE  Under(v, q).here.id = Importer(SubSeq(t, 1, Depth(v, q) - 1))
  <2>. DEFINE D == {c \in Crosses(w) : c <= q}
  <2>1. {c \in Crosses(v) : c <= q} = D /\ q \in Crosses(w)
    BY <1>1, <1>2
  <2>2. D \subseteq Crosses(w) \ {Len(w)} /\ D # {}
    BY <1>1, <1>2, <2>1
  <2>3. IsFiniteSet(D) /\ IsFiniteSet(Crosses(v)) /\ D \subseteq Crosses(v)
    BY <1>1, <1>2, <1>3, <2>2, FS_Subset
  <2>4. Cardinality(D) \in Nat /\ Cardinality(D) <= Len(s) - 1 /\ Cardinality(D) # 0
    <3>. HIDE DEF D
    <3>1. Cardinality(D) \in Nat /\ Cardinality(D) <= Cardinality(Crosses(v))
      BY <2>3, FS_Subset, FS_CardinalityType
    <3>2. Cardinality(D) # 0
      BY <2>2, <2>3, FS_EmptySet
    <3>. QED
      BY <1>4, <3>1, <3>2
  <2>7. Depth(v, q) = Depth(w, q) /\ Depth(w, q) = Cardinality(D)
    BY <2>1 DEF Depth
  <2>5. Depth(v, q) = Depth(w, q) /\ Depth(w, q) - 1 \in 0..(Len(s) - 1)
    <3>. HIDE DEF D
    <3>. QED
      BY <1>2, <2>4, <2>7
  <2>6. Under(v, q) = Under(w, q)
    BY <1>1 DEF Replaces
  <2>. QED
    BY <1>5, <2>1, <2>5, <2>6 DEF Returns
<1>. QED
  BY <1>4, <1>5, <1>6, <1>7 DEF Returns

-----------------------------------------------------------------------------
(* What a step does to the work: it goes on in the same module, suspends   *)
(* the module for another one, or goes back to a suspended module.         *)

\* A dependency is inferred to be remembered under a key that is not taken.
KeyFree(item, dep, m) ==
  item.do = "ResumeModule" => item.key \notin DOMAIN m /\ item.key[1] = dep

GoesOn(items) ==
  /\ IsSequence(work) /\ work # <<>> /\ Head(work).do \notin Crossing
  /\ IsSequence(items) /\ work' = items \o Tail(work)
  /\ \A i \in 1..Len(items) : items[i].do \notin Crossing /\ Fits(items[i], Mod)
  /\ UNCHANGED <<program, here, stack>>

Suspends(items) ==
  /\ IsSequence(work) /\ work # <<>> /\ Head(work).do \notin Crossing
  /\ IsSequence(items) /\ Len(items) > 0 /\ work' = items \o Tail(work)
  /\ items[Len(items)].do \in Crossing /\ items[Len(items)].here = here
  /\ WellFormed(here'.module)
  /\ \A i \in 1..(Len(items) - 1) : items[i].do \notin Crossing /\ Fits(items[i], here'.module)
  /\ here'.id \in DOMAIN program /\ stack' = Append(stack, here'.id)
  /\ KeyFree(items[Len(items)], here'.id, memo)
  /\ UNCHANGED <<program, memo>>

GoesBack ==
  /\ IsSequence(work) /\ work # <<>> /\ Head(work).do \in Crossing
  /\ work' = Tail(work) /\ here' = Head(work).here
  /\ stack' = Popped
  /\ UNCHANGED program

WalkInv == StackOK /\ ItemsInv /\ Returns(work, stack) /\ ImporterIsCurrent

LEMMA EmptySequence == IsSequence(<<>>) /\ Len(<<>>) = 0
BY DEF IsSequence

LEMMA NothingInstead ==
  ASSUME NEW w, IsSequence(w), w # <<>>
  PROVE  Tail(w) = <<>> \o Tail(w) /\ IsSequence(Tail(w))
<1>1. w \in Seq(Elements(w))
  BY DEF IsSequence
<1>2. Tail(w) \in Seq(Elements(w))
  BY <1>1
<1>. DEFINE t == Tail(w)
<1>. HIDE DEF t
<1>3. t \in Seq(Elements(w))
  BY <1>2 DEF t
<1>4. DOMAIN t = 1..Len(t) /\ Len(t) \in Nat
  BY <1>3, LenProperties
<1>5. t \in [1..Len(t) -> Elements(t)]
  BY <1>3, <1>4 DEF Elements
<1>6. t \in Seq(Elements(t))
  BY <1>4, <1>5
<1>7. <<>> \o t = t
  BY <1>3, ConcatEmptySeq
<1>. QED
  BY <1>6, <1>7 DEF IsSequence, t

LEMMA GoingOnKeeps ==
  ASSUME WalkInv, NEW items, GoesOn(items)
  PROVE  WalkInv'
<1>. DEFINE v == items \o Tail(work)
<1>1. Replaces(v, work, items)
  BY ReplaceTop DEF GoesOn, IsSequence
<1>. HIDE DEF v
<1>2. TopFits(v, Mod) /\ BelowFits(v)
  BY <1>1, FitsStay DEF WalkInv, ItemsInv, GoesOn
<1>3. Returns(v, stack)
  BY <1>1, ReturnsStay DEF WalkInv, GoesOn
<1>4. work' = v /\ UNCHANGED <<program, here, stack>>
  BY DEF GoesOn, v
<1>5. IsSequence(v)
  BY <1>1 DEF Replaces
<1>6. StackOK'
  BY <1>4 DEF WalkInv, StackOK
<1>7. ItemsInv'
  <2>1. IsSequence(work)' /\ program' \in Programs /\ WellFormed(here'.module)
    BY <1>4, <1>5 DEF WalkInv, ItemsInv, Mod
  <2>2. TopFits(work', here'.module) /\ BelowFits(work')
    BY <1>2, <1>4 DEF Mod
  <2>. QED
    BY <2>1, <2>2 DEF ItemsInv, Mod
<1>8. Returns(work', stack') /\ ImporterIsCurrent'
  BY <1>3, <1>4 DEF WalkInv, ImporterIsCurrent, Importer
<1>. QED
  BY <1>6, <1>7, <1>8 DEF WalkInv

LEMMA SuspendingKeeps ==
  ASSUME WalkInv, NEW items, Suspends(items)
  PROVE  WalkInv'
<1>. DEFINE v == items \o Tail(work)
            r == items[Len(items)]
<1>1. Replaces(v, work, items)
  BY ReplaceTop DEF Suspends, IsSequence
<1>. HIDE DEF v
<1>2. PICK new : new = here'
  OBVIOUS
<1>3. TopFits(v, new.module) /\ BelowFits(v)
  <2>1. /\ Head(work).do \notin Crossing /\ Len(items) > 0 /\ r.do \in Crossing
        /\ r.here.module = Mod
        /\ \A i \in 1..(Len(items) - 1) : items[i].do \notin Crossing /\ Fits(items[i], new.module)
    BY <1>2 DEF Suspends, Mod
  <2>2. TopFits(work, Mod) /\ BelowFits(work) /\ WellFormed(Mod)
    BY DEF WalkInv, ItemsInv
  <2>. QED
    BY <1>1, <2>1, <2>2, FitsPushed
<1>4. Returns(v, Append(stack, new.id)) /\ Importer(Append(stack, new.id)) = new.id
  <2>1. /\ Head(work).do \notin Crossing /\ Len(items) > 0 /\ r.do \in Crossing
        /\ r.here.id = Importer(stack)
        /\ \A i \in 1..(Len(items) - 1) : items[i].do \notin Crossing
    BY DEF Suspends, WalkInv, ImporterIsCurrent
  <2>2. stack \in Seq(DOMAIN program) /\ new.id \in DOMAIN program /\ Returns(work, stack)
    BY <1>2 DEF Suspends, WalkInv, StackOK
  <2>. QED
    BY <1>1, <2>1, <2>2, ReturnsPushed
<1>5. /\ work' = v /\ here' = new /\ stack' = Append(stack, new.id)
      /\ UNCHANGED program
  BY <1>2 DEF Suspends, v
<1>6. IsSequence(v)
  BY <1>1 DEF Replaces
<1>7. StackOK'
  BY <1>5 DEF Suspends, WalkInv, StackOK
<1>8. ItemsInv'
  <2>1. IsSequence(work)' /\ program' \in Programs /\ WellFormed(here'.module)
    BY <1>5, <1>6 DEF WalkInv, ItemsInv, Suspends
  <2>2. TopFits(work', here'.module) /\ BelowFits(work')
    BY <1>3, <1>5
  <2>. QED
    BY <2>1, <2>2 DEF ItemsInv, Mod
<1>9. Returns(work', stack') /\ ImporterIsCurrent'
  BY <1>4, <1>5 DEF ImporterIsCurrent
<1>. QED
  BY <1>7, <1>8, <1>9 DEF WalkInv

LEMMA GoingBackKeeps ==
  ASSUME WalkInv, GoesBack
  PROVE  WalkInv'
<1>. DEFINE v == Tail(work)
<1>0. v = <<>> \o Tail(work) /\ IsSequence(<<>>)
  BY NothingInstead, EmptySequence DEF GoesBack
<1>1. Replaces(v, work, <<>>)
  BY <1>0, ReplaceTop DEF GoesBack, IsSequence
<1>. HIDE DEF v
<1>2. PICK old : old = Head(work).here
  OBVIOUS
<1>3. WellFormed(old.module) /\ TopFits(v, old.module) /\ BelowFits(v)
  BY <1>1, <1>2, FitsPopped DEF GoesBack, WalkInv, ItemsInv
<1>4. Returns(v, Popped) /\ old.id = Importer(Popped)
  BY <1>1, <1>2, ReturnsPopped DEF GoesBack, WalkInv, StackOK, Popped
<1>5. work' = v /\ here' = old /\ stack' = Popped /\ UNCHANGED program
  BY <1>2 DEF GoesBack, v
<1>6. IsSequence(v)
  BY <1>1 DEF Replaces
<1>7. StackOK'
  <2>1. Popped \in Seq(DOMAIN program)
    <3>1. stack \in Seq(DOMAIN program)
      BY DEF WalkInv, StackOK
    <3>2. CASE stack = <<>>
      BY <3>2 DEF Popped
    <3>3. CASE stack # <<>>
      <4>1. Len(stack) \in Nat \ {0}
        BY <3>1, <3>3
      <4>. QED
        BY <3>1, <4>1 DEF Popped
    <3>. QED
      BY <3>2, <3>3
  <2>. QED
    BY <1>5, <2>1 DEF StackOK
<1>8. ItemsInv'
  <2>1. IsSequence(work)' /\ program' \in Programs /\ WellFormed(here'.module)
    BY <1>3, <1>5, <1>6 DEF WalkInv, ItemsInv
  <2>2. TopFits(work', here'.module) /\ BelowFits(work')
    BY <1>3, <1>5
  <2>. QED
    BY <2>1, <2>2 DEF ItemsInv, Mod
<1>9. Returns(work', stack') /\ ImporterIsCurrent'
  <2>1. here'.id = Importer(stack')
    BY <1>4, <1>5
  <2>. QED
    BY <1>4, <1>5, <2>1 DEF ImporterIsCurrent
<1>. QED
  BY <1>7, <1>8, <1>9 DEF WalkInv

LEMMA SequenceOf ==
  ASSUME NEW n \in Nat, NEW s, s = [i \in 1..n |-> s[i]]
  PROVE  IsSequence(s) /\ Len(s) = n
<1>1. s \in [1..n -> Elements(s)]
  BY DEF Elements
<1>. QED
  BY <1>1 DEF IsSequence

Joins(c, a, b) ==
  /\ IsSequence(c) /\ Len(c) = Len(a) + Len(b)
  /\ Len(a) \in Nat /\ Len(b) \in Nat
  /\ \A i \in 1..Len(a) : c[i] = a[i]
  /\ \A i \in 1..Len(b) : c[Len(a) + i] = b[i]
  /\ \A i \in 1..Len(c) : i \in 1..Len(a) \/ i - Len(a) \in 1..Len(b)
  /\ \A d : IsSequence(d) => c \o d = a \o (b \o d)

LEMMA Joined ==
  ASSUME NEW a, IsSequence(a), NEW b, IsSequence(b)
  PROVE  Joins(a \o b, a, b)
<1>. DEFINE W == Elements(a) \cup Elements(b)
            c == a \o b
<1>1. a \in Seq(W) /\ b \in Seq(W)
  BY SeqMonotonic DEF IsSequence
<1>. HIDE DEF W
<1>2. /\ c \in Seq(W) /\ Len(c) = Len(a) + Len(b)
      /\ \A i \in 1..(Len(a) + Len(b)) :
           c[i] = IF i <= Len(a) THEN a[i] ELSE b[i - Len(a)]
      /\ Len(a) \in Nat /\ Len(b) \in Nat
  BY <1>1, ConcatProperties, LenProperties
<1>. HIDE DEF c
<1>3. c = [i \in 1..(Len(a) + Len(b)) |-> c[i]]
  BY <1>2
<1>4. IsSequence(c)
  BY <1>2, <1>3, SequenceOf
<1>5. \A i \in 1..Len(a) : c[i] = a[i]
  BY <1>2
<1>6. ASSUME NEW i \in 1..Len(b)
      PROVE  c[Len(a) + i] = b[i]
  <2>1. Len(a) + i \in 1..(Len(a) + Len(b)) /\ ~(Len(a) + i <= Len(a)) /\ Len(a) + i - Len(a) = i
    BY <1>2
  <2>. QED
    BY <1>2, <2>1
<1>7. \A i \in 1..Len(c) : i \in 1..Len(a) \/ i - Len(a) \in 1..Len(b)
  BY <1>2
<1>8. ASSUME NEW d, IsSequence(d)
      PROVE  c \o d = a \o (b \o d)
  <2>. DEFINE V == W \cup Elements(d)
  <2>1. a \in Seq(V) /\ b \in Seq(V) /\ d \in Seq(V)
    BY <1>1, <1>8, SeqMonotonic DEF IsSequence
  <2>. HIDE DEF V
  <2>. QED
    BY <2>1, ConcatAssociative DEF c
<1>. QED
  BY <1>2, <1>4, <1>5, <1>6, <1>7, <1>8 DEF c, Joins

LEMMA TopItemFits ==
  ASSUME ItemsInv, work # <<>>, Head(work).do \notin Crossing
  PROVE  Fits(Head(work), Mod) /\ IsSequence(Tail(work)) /\ Tail(work) = <<>> \o Tail(work)
<1>1. Replaces(<<>> \o Tail(work), work, <<>>)
  BY ReplaceTop, EmptySequence DEF ItemsInv, IsSequence
<1>2. Len(work) \in Nat \ {0} /\ Under(work, Len(work)) = Head(work)
  BY <1>1 DEF Replaces
<1>3. \A c \in Crosses(work) : c < Len(work)
  BY <1>2 DEF Crosses, Marked
<1>4. Fits(Head(work), Mod)
  BY <1>2, <1>3 DEF ItemsInv, TopFits
<1>. QED
  BY <1>4, NothingInstead DEF ItemsInv

\* Nothing is put on the work.
LEMMA Dropping ==
  ASSUME ItemsInv, work # <<>>, Head(work).do \notin Crossing,
         work' = Tail(work), UNCHANGED <<program, here, stack>>
  PROVE  GoesOn(<<>>)
<1>1. 1..Len(<<>>) = {}
  OBVIOUS
<1>. QED
  BY <1>1, TopItemFits, EmptySequence DEF GoesOn, ItemsInv

\* One item is put on the work.
LEMMA PuttingOne ==
  ASSUME NEW x
  PROVE  /\ IsSequence(<<x>>) /\ Len(<<x>>) = 1 /\ 1..Len(<<x>>) = {1}
         /\ <<x>>[1] = x
<1>1. <<x>> = [i \in 1..1 |-> <<x>>[i]] /\ <<x>>[1] = x
  OBVIOUS
<1>. DEFINE s == <<x>>
<1>. HIDE DEF s
<1>2. IsSequence(s) /\ Len(s) = 1
  BY <1>1, SequenceOf DEF s
<1>. QED
  BY <1>1, <1>2 DEF s

LEMMA PuttingTwo ==
  ASSUME NEW x, NEW y
  PROVE  /\ IsSequence(<<x, y>>) /\ Len(<<x, y>>) = 2 /\ 1..Len(<<x, y>>) = {1, 2}
         /\ <<x, y>>[1] = x /\ <<x, y>>[2] = y
<1>1. <<x, y>> = [i \in 1..2 |-> <<x, y>>[i]] /\ <<x, y>>[1] = x /\ <<x, y>>[2] = y
  OBVIOUS
<1>. DEFINE s == <<x, y>>
<1>. HIDE DEF s
<1>2. IsSequence(s) /\ Len(s) = 2
  BY <1>1, SequenceOf DEF s
<1>. QED
  BY <1>1, <1>2 DEF s

LEMMA Visiting ==
  ASSUME ItemsInv, work # <<>>, Head(work).do \notin Crossing,
         NEW name \in Names(Mod), NEW front, IsSequence(front),
         \A i \in 1..Len(front) : front[i].do \notin Crossing /\ Fits(front[i], Mod),
         VisitBinding(name, front \o Tail(work)), UNCHANGED <<program, here, stack>>
  PROVE  \E items : GoesOn(items)
<1>. DEFINE rhs == Rhs(Mod, name)
            two == <<EnterItem(rhs), LeaveItem(name)>>
<1>1. CASE work' = front \o Tail(work)
  BY <1>1 DEF GoesOn, ItemsInv
<1>2. CASE work' = two \o (front \o Tail(work))
  <2>. DEFINE items == two \o front
  <2>1. /\ IsSequence(two) /\ 1..Len(two) = {1, 2}
        /\ two[1] = EnterItem(rhs) /\ two[2] = LeaveItem(name)
    BY PuttingTwo
  <2>2. rhs \in DOMAIN Mod.nodes
    BY RhsInModule DEF ItemsInv
  <2>3. \A i \in 1..Len(two) : two[i].do \notin Crossing /\ Fits(two[i], Mod)
    BY <2>1, <2>2 DEF EnterItem, LeaveItem, Crossing, Fits
  <2>. HIDE DEF two
  <2>4. Joins(items, two, front)
    BY <2>1, Joined
  <2>. HIDE DEF items
  <2>6. items \o Tail(work) = two \o (front \o Tail(work)) /\ IsSequence(items)
    BY <2>4, TopItemFits DEF Joins
  <2>5. ASSUME NEW i \in 1..Len(items)
        PROVE  items[i].do \notin Crossing /\ Fits(items[i], Mod)
    <3>1. CASE i \in 1..Len(two)
      BY <2>3, <2>4, <3>1 DEF Joins
    <3>2. CASE i - Len(two) \in 1..Len(front)
      <4>. DEFINE j == i - Len(two)
      <4>1. items[Len(two) + j] = front[j] /\ Len(two) + j = i
        BY <2>4, <3>2 DEF Joins
      <4>. QED
        BY <3>2, <4>1
    <3>. QED
      BY <2>4, <3>1, <3>2 DEF Joins
  <2>. QED
    BY <1>2, <2>5, <2>6 DEF GoesOn, ItemsInv
<1>. QED
  BY <1>1, <1>2 DEF VisitBinding

-----------------------------------------------------------------------------
(* The same, action by action.                                             *)

LEMMA ItemsFit ==
  ASSUME NEW m
  PROVE  /\ \A n \in DOMAIN m.nodes : /\ EnterItem(n).do \notin Crossing /\ Fits(EnterItem(n), m)
                                     /\ FinishItem(n).do \notin Crossing /\ Fits(FinishItem(n), m)
         /\ \A name \in Names(m) : BindingItem(name).do \notin Crossing /\ Fits(BindingItem(name), m)
         /\ \A name : LeaveItem(name).do \notin Crossing /\ Fits(LeaveItem(name), m)
BY DEF EnterItem, FinishItem, BindingItem, LeaveItem, Crossing, Fits

LEMMA BindingGoesOn ==
  ASSUME ItemsInv, Binding
  PROVE  \E items : GoesOn(items)
<1>1. /\ work # <<>> /\ Head(work).do = "Binding"
      /\ VisitBinding(Head(work).name, Tail(work))
      /\ UNCHANGED <<program, here, stack>>
  BY DEF Binding, At, Item, session
<1>2. Head(work).name \in Names(Mod) /\ Tail(work) = <<>> \o Tail(work)
  BY <1>1, TopItemFits DEF Fits, Crossing
<1>3. VisitBinding(Head(work).name, <<>> \o Tail(work))
  BY <1>1, <1>2
<1>4. IsSequence(<<>>) /\ 1..Len(<<>>) = {}
  BY EmptySequence
<1>5. Head(work).do \notin Crossing
  BY <1>1 DEF Crossing
<1>. QED
  BY <1>1, <1>2, <1>3, <1>4, <1>5, Visiting

LEMMA EnterRefGoesOn ==
  ASSUME ItemsInv, EnterRef
  PROVE  \E items : GoesOn(items)
<1>. DEFINE n == Head(work).node
            front == <<FinishItem(n)>>
            name == Mod.nodes[n].names[1]
<1>1. /\ work # <<>> /\ Head(work).do = "Enter" /\ IsRef(Mod, n)
      /\ VisitBinding(name, front \o Tail(work))
      /\ UNCHANGED <<program, here, stack>>
  BY DEF EnterRef, Opens, At, Item, Node, session
<1>2. n \in DOMAIN Mod.nodes
  BY <1>1, TopItemFits DEF Fits, Crossing
<1>3. name \in Names(Mod)
  BY <1>1 DEF IsRef
<1>4. IsSequence(front) /\ 1..Len(front) = {1} /\ front[1] = FinishItem(n)
  BY PuttingOne
<1>5. \A i \in 1..Len(front) : front[i].do \notin Crossing /\ Fits(front[i], Mod)
  BY <1>2, <1>4 DEF FinishItem, Crossing, Fits
<1>6. Head(work).do \notin Crossing
  BY <1>1 DEF Crossing
<1>. HIDE DEF front, name
<1>. QED
  BY <1>1, <1>3, <1>4, <1>5, <1>6, Visiting

\* The nodes an expression waits for are a sequence of nodes of its module.
LEMMA AwaitedInModule ==
  ASSUME ItemsInv, Item.node \in DOMAIN Mod.nodes
  PROVE  /\ Len(Awaited) \in Nat /\ DOMAIN Awaited = 1..Len(Awaited)
         /\ \A i \in DOMAIN Awaited : Awaited[i] \in DOMAIN Mod.nodes
<1>0. WellFormed(Mod)
  BY DEF ItemsInv
<1>1. CASE Node.op = "import"
  <2>. DEFINE subs == Substitutions(Mod, Node.names[1])
              a == [i \in DOMAIN subs |-> subs[i][2]]
  <2>1. Awaited = a
    BY <1>1 DEF Awaited
  <2>2. /\ Len(subs) \in Nat /\ DOMAIN subs = 1..Len(subs)
        /\ \A i \in DOMAIN subs : subs[i][2] \in DOMAIN Mod.nodes
    BY <1>0, SubstitutionsInModule
  <2>. HIDE DEF subs
  <2>3. DOMAIN a = 1..Len(subs) /\ Len(a) = Len(subs)
    BY <2>2
  <2>4. \A i \in DOMAIN a : a[i] \in DOMAIN Mod.nodes
    BY <2>2
  <2>. QED
    BY <2>1, <2>2, <2>3, <2>4
<1>2. CASE Node.op # "import"
  <2>. DEFINE k == Node.kids
  <2>1. Awaited = k
    BY <1>2 DEF Awaited
  <2>2. k \in Seq(DOMAIN Mod.nodes)
    BY <1>0, ModuleFacts DEF Node
  <2>. HIDE DEF k
  <2>3. /\ Len(k) \in Nat /\ DOMAIN k = 1..Len(k)
        /\ \A i \in DOMAIN k : k[i] \in DOMAIN Mod.nodes
    BY <2>2
  <2>. QED
    BY <2>1, <2>3
<1>. QED
  BY <1>1, <1>2

LEMMA EnterNodeGoesOn ==
  ASSUME ItemsInv, EnterNode
  PROVE  \E items : GoesOn(items)
<1>. DEFINE n == Item.node
            enters == [i \in DOMAIN Awaited |-> EnterItem(Awaited[i])]
            last == <<FinishItem(n)>>
            items == enters \o last
<1>1. /\ work # <<>> /\ Head(work).do = "Enter" /\ Item = Head(work)
      /\ work' = items \o Tail(work)
      /\ UNCHANGED <<program, here, stack>>
  BY DEF EnterNode, Opens, At, Item, session
<1>2. n \in DOMAIN Mod.nodes
  BY <1>1, TopItemFits DEF Fits, Crossing
<1>3. PICK a : a = Awaited
  OBVIOUS
<1>4. /\ Len(a) \in Nat /\ DOMAIN a = 1..Len(a)
      /\ \A i \in DOMAIN a : a[i] \in DOMAIN Mod.nodes
  BY <1>2, <1>3, AwaitedInModule
<1>5. enters = [i \in 1..Len(a) |-> EnterItem(a[i])]
  BY <1>3, <1>4
<1>6. IsSequence(enters) /\ Len(enters) = Len(a)
  <2>. HIDE DEF enters
  <2>1. enters = [i \in 1..Len(a) |-> enters[i]]
    BY <1>5
  <2>. QED
    BY <1>4, <2>1, SequenceOf
<1>7. \A i \in 1..Len(enters) : enters[i].do \notin Crossing /\ Fits(enters[i], Mod)
  <2>1. \A i \in 1..Len(a) : enters[i] = EnterItem(a[i])
    BY <1>5
  <2>. HIDE DEF enters
  <2>2. \A i \in 1..Len(a) : a[i] \in DOMAIN Mod.nodes
    BY <1>4
  <2>. QED
    BY <1>6, <2>1, <2>2, ItemsFit
<1>8. IsSequence(last) /\ 1..Len(last) = {1} /\ last[1] = FinishItem(n)
  BY PuttingOne
<1>. HIDE DEF enters, last
<1>9. Joins(items, enters, last)
  BY <1>6, <1>8, Joined
<1>10. last[1].do \notin Crossing /\ Fits(last[1], Mod)
  BY <1>2, <1>8 DEF FinishItem, Crossing, Fits
<1>11. ASSUME NEW i \in 1..Len(items)
       PROVE  items[i].do \notin Crossing /\ Fits(items[i], Mod)
  <2>. HIDE DEF items
  <2>1. CASE i \in 1..Len(enters)
    BY <1>7, <1>9, <2>1 DEF Joins
  <2>2. CASE i - Len(enters) \in 1..Len(last)
    <3>0. i - Len(enters) \in {1}
      BY <1>8, <2>2, Zenon
    <3>2. Len(enters) \in Nat /\ Len(last) \in Nat /\ Len(items) = Len(enters) + Len(last)
      BY <1>9 DEF Joins
    <3>3. i \in 1..(Len(enters) + Len(last))
      BY <3>2
    <3>4. i = Len(enters) + 1
      BY <3>0, <3>2, <3>3
    <3>5. 1 \in 1..Len(last)
      BY <1>8
    <3>1. i = Len(enters) + 1 /\ items[Len(enters) + 1] = last[1]
      BY <1>9, <3>4, <3>5 DEF Joins
    <3>. QED
      BY <1>10, <3>1
  <2>. QED
    BY <1>9, <2>1, <2>2 DEF Joins
<1>12. IsSequence(items) /\ Head(work).do \notin Crossing
  BY <1>1, <1>9 DEF Joins, Crossing
<1>. QED
  BY <1>1, <1>11, <1>12 DEF GoesOn, ItemsInv

LEMMA ApplyBodyGoesOn ==
  ASSUME ItemsInv, ApplyBody
  PROVE  \E items : GoesOn(items)
<1>. DEFINE f == LocalReification(Mod, Callee)
            body == Body(Mod, f)
            resume == [do |-> "ResumeBody", node |-> Item.node, body |-> body,
                       arg |-> TypeOf(Argument), scope |-> scope]
<1>1. /\ work # <<>> /\ Head(work).do = "Finish"
      /\ CallsBody /\ UNCHANGED <<program, here, stack>>
      /\ \/ work' = <<resume>> \o Tail(work)
         \/ work' = <<EnterItem(body), resume>> \o Tail(work)
  BY DEF ApplyBody, Applies, At, Item, session
<1>2. f # 0
  BY <1>1 DEF CallsBody, BodyInputs
<1>3. body \in DOMAIN Mod.nodes
  BY <1>2, ReificationInModule DEF ItemsInv
<1>. HIDE DEF f, body
<1>4. resume.do \notin Crossing /\ Fits(resume, Mod)
  BY DEF Crossing, Fits
<1>5. EnterItem(body).do \notin Crossing /\ Fits(EnterItem(body), Mod)
  BY <1>3 DEF EnterItem, Crossing, Fits
<1>6. Head(work).do \notin Crossing
  BY <1>1 DEF Crossing
<1>. HIDE DEF resume
<1>7. CASE work' = <<resume>> \o Tail(work)
  <2>. DEFINE items == <<resume>>
  <2>1. IsSequence(items) /\ 1..Len(items) = {1} /\ items[1] = resume
    BY PuttingOne
  <2>2. \A i \in 1..Len(items) : items[i].do \notin Crossing /\ Fits(items[i], Mod)
    BY <1>4, <2>1
  <2>. QED
    BY <1>1, <1>6, <1>7, <2>1, <2>2 DEF GoesOn, ItemsInv
<1>8. CASE work' = <<EnterItem(body), resume>> \o Tail(work)
  <2>. DEFINE items == <<EnterItem(body), resume>>
  <2>1. /\ IsSequence(items) /\ 1..Len(items) = {1, 2}
        /\ items[1] = EnterItem(body) /\ items[2] = resume
    BY PuttingTwo
  <2>2. \A i \in 1..Len(items) : items[i].do \notin Crossing /\ Fits(items[i], Mod)
    BY <1>4, <1>5, <2>1
  <2>. QED
    BY <1>1, <1>6, <1>8, <2>1, <2>2 DEF GoesOn, ItemsInv
<1>. QED
  BY <1>1, <1>7, <1>8

LEMMA ImportInfersSuspends ==
  ASSUME ItemsInv, ImportInfers
  PROVE  \E items : Suspends(items)
<1>1. PICK dep \in Sources(Node.names[1]) :
        /\ here' = [id |-> dep, module |-> program[dep]]
        /\ stack' = Append(stack, dep)
        /\ \E key :
             /\ key \notin DOMAIN memo /\ key[1] = dep
             /\ work' = Schedule(program[dep])
                  \o <<[do |-> "ResumeModule", node |-> Item.node, here |-> here,
                        scope |-> scope, key |-> key, export |-> Node.names[2]]>>
                  \o Tail(work)
  BY DEF ImportInfers, MemoKey
<1>2. PICK key :
        /\ key \notin DOMAIN memo /\ key[1] = dep
        /\ work' = Schedule(program[dep])
             \o <<[do |-> "ResumeModule", node |-> Item.node, here |-> here,
                   scope |-> scope, key |-> key, export |-> Node.names[2]]>>
             \o Tail(work)
  BY <1>1
<1>. DEFINE m == program[dep]
            resume == [do |-> "ResumeModule", node |-> Item.node, here |-> here,
                       scope |-> scope, key |-> key, export |-> Node.names[2]]
            schedule == Schedule(m)
            items == schedule \o <<resume>>
<1>3. /\ work # <<>> /\ Head(work).do = "Finish" /\ UNCHANGED <<program, memo>>
  BY DEF ImportInfers, FinishesImport, At, Item
<1>4. dep \in DOMAIN program /\ WellFormed(m)
  BY SourcesInBundle, ProgramsAssumption DEF ItemsInv
<1>5. Len(m.binds) \in Nat /\ DOMAIN m.binds = 1..Len(m.binds)
  BY <1>4, ModuleFacts
<1>6. schedule = [i \in 1..Len(m.binds) |-> BindingItem(m.binds[i].name)]
  BY <1>5 DEF Schedule
<1>7. IsSequence(schedule) /\ Len(schedule) = Len(m.binds)
  <2>. HIDE DEF schedule
  <2>1. schedule = [i \in 1..Len(m.binds) |-> schedule[i]]
    BY <1>6
  <2>. QED
    BY <1>5, <2>1, SequenceOf
<1>8. \A i \in 1..Len(schedule) : schedule[i].do \notin Crossing /\ Fits(schedule[i], m)
  <2>1. \A i \in 1..Len(m.binds) : schedule[i] = BindingItem(m.binds[i].name)
    BY <1>6
  <2>2. \A i \in 1..Len(m.binds) : m.binds[i].name \in Names(m)
    BY <1>5 DEF Names
  <2>. HIDE DEF schedule, m
  <2>. QED
    BY <1>7, <2>1, <2>2, ItemsFit
<1>9. IsSequence(<<resume>>) /\ Len(<<resume>>) = 1 /\ <<resume>>[1] = resume
  BY PuttingOne
<1>. DEFINE last == <<resume>>
<1>10. resume.do \in Crossing /\ resume.here = here /\ KeyFree(resume, dep, memo)
  BY <1>2 DEF Crossing, KeyFree
<1>11. work' = items \o Tail(work) /\ items = schedule \o last /\ last[1] = resume /\ Len(last) = 1
  BY <1>2, <1>9
<1>12. IsSequence(last)
  BY <1>9
<1>. HIDE DEF schedule, last, resume
<1>13. Joins(items, schedule, last)
  BY <1>7, <1>11, <1>12, Joined
<1>. HIDE DEF items
<1>14. /\ IsSequence(items) /\ Len(items) > 0 /\ Len(items) = Len(schedule) + 1
       /\ items[Len(items)] = resume
       /\ \A i \in 1..(Len(items) - 1) : i \in 1..Len(schedule) /\ items[i] = schedule[i]
  BY <1>11, <1>13 DEF Joins
<1>15. Head(work).do \notin Crossing
  BY <1>3 DEF Crossing
<1>16. here'.module = m /\ here'.id = dep
  BY <1>1
<1>17. \A i \in 1..(Len(items) - 1) : items[i].do \notin Crossing /\ Fits(items[i], here'.module)
  BY <1>8, <1>14, <1>16
<1>18. /\ items[Len(items)].do \in Crossing /\ items[Len(items)].here = here
       /\ KeyFree(items[Len(items)], here'.id, memo)
  BY <1>10, <1>14, <1>16
<1>19. WellFormed(here'.module) /\ here'.id \in DOMAIN program /\ stack' = Append(stack, here'.id)
  BY <1>1, <1>4, <1>16
<1>. QED
  BY <1>3, <1>11, <1>14, <1>15, <1>17, <1>18, <1>19 DEF Suspends, ItemsInv

LEMMA ApplyImportedSuspends ==
  ASSUME ItemsInv, ApplyImported
  PROVE  \E items : Suspends(items)
<1>. DEFINE name == Imported.names[2]
            R(m) == [do |-> "ResumeCall", node |-> Item.node, root |-> CallRoot(m),
                     here |-> here, scope |-> scope]
<1>1. PICK dep \in CallScopes :
        /\ here' = [id |-> dep, module |-> WithCall(program[dep], name)]
        /\ stack' = Append(stack, dep)
        /\ work' = <<EnterItem(CallRoot(program[dep])), R(program[dep])>> \o Tail(work)
  BY DEF ApplyImported
<1>. DEFINE m == program[dep]
            resume == R(m)
            enter == EnterItem(CallRoot(m))
            items == <<enter, resume>>
<1>2. /\ work # <<>> /\ Head(work).do = "Finish" /\ UNCHANGED <<program, memo>>
  BY DEF ApplyImported, Applies, At, Item
<1>3. dep \in Sources(Imported.names[1]) /\ CallableExport(m, name)
  BY DEF CallScopes
<1>4. dep \in DOMAIN program /\ WellFormed(m)
  BY <1>3, SourcesInBundle, ProgramsAssumption DEF ItemsInv
<1>5. name \in STRING
  BY <1>3, <1>4, ModuleFacts DEF CallableExport
<1>6. WellFormed(WithCall(m, name)) /\ CallRoot(m) \in DOMAIN WithCall(m, name).nodes
  BY <1>4, <1>5, WithCallWellFormed
<1>7. here'.module = WithCall(m, name) /\ here'.id = dep /\ work' = items \o Tail(work)
  BY <1>1
<1>8. resume.do \in Crossing /\ resume.here = here /\ KeyFree(resume, dep, memo)
  BY DEF Crossing, KeyFree
<1>9. enter.do \notin Crossing /\ Fits(enter, here'.module)
  BY <1>6, <1>7 DEF EnterItem, Crossing, Fits
<1>. HIDE DEF resume, enter
<1>10. /\ IsSequence(items) /\ Len(items) = 2
       /\ items[1] = enter /\ items[2] = resume
  BY PuttingTwo
<1>. HIDE DEF items
<1>11. Head(work).do \notin Crossing
  BY <1>2 DEF Crossing
<1>12. \A i \in 1..(Len(items) - 1) : items[i].do \notin Crossing /\ Fits(items[i], here'.module)
  BY <1>9, <1>10
<1>13. /\ Len(items) > 0 /\ items[Len(items)].do \in Crossing
       /\ items[Len(items)].here = here /\ KeyFree(items[Len(items)], here'.id, memo)
  BY <1>7, <1>8, <1>10
<1>14. WellFormed(here'.module) /\ here'.id \in DOMAIN program /\ stack' = Append(stack, here'.id)
  BY <1>1, <1>4, <1>6, <1>7
<1>. QED
  BY <1>2, <1>7, <1>10, <1>11, <1>12, <1>13, <1>14 DEF Suspends, ItemsInv

LEMMA InitWalkInv == Init => WalkInv
<1>. SUFFICES ASSUME Init PROVE WalkInv
  OBVIOUS
<1>. DEFINE m == program[Root]
<1>1. /\ program \in Programs /\ Root \in DOMAIN program /\ WellFormed(m)
      /\ here = [id |-> Root, module |-> m] /\ stack = <<>> /\ work = Schedule(m)
  BY ProgramsAssumption DEF Init
<1>2. Len(m.binds) \in Nat /\ DOMAIN m.binds = 1..Len(m.binds)
  BY <1>1, ModuleFacts
<1>3. work = [i \in 1..Len(m.binds) |-> BindingItem(m.binds[i].name)]
  BY <1>1, <1>2 DEF Schedule
<1>4. work = [i \in 1..Len(m.binds) |-> work[i]]
  BY <1>3
<1>5. IsSequence(work) /\ Len(work) = Len(m.binds)
  BY <1>2, <1>4, SequenceOf
<1>6. \A i \in 1..Len(work) : work[i].do \notin Crossing /\ Fits(work[i], m)
  <2>1. \A i \in 1..Len(m.binds) : work[i] = BindingItem(m.binds[i].name)
    BY <1>3
  <2>2. \A i \in 1..Len(m.binds) : m.binds[i].name \in Names(m)
    BY <1>2 DEF Names
  <2>. HIDE DEF m
  <2>. QED
    BY <1>5, <2>1, <2>2, ItemsFit
<1>. HIDE DEF m
<1>7. \A q \in 1..Len(work) : Under(work, q).do \notin Crossing /\ Fits(Under(work, q), m)
  <2>. TAKE q \in 1..Len(work)
  <2>1. Len(work) + 1 - q \in 1..Len(work)
    BY <1>2, <1>5
  <2>. QED
    BY <1>6, <2>1 DEF Under
<1>8. Crosses(work) = {}
  BY <1>7 DEF Crosses, Marked
<1>9. Mod = m /\ here.id = Root
  BY <1>1 DEF Mod
<1>10. ItemsInv
  BY <1>1, <1>5, <1>7, <1>8, <1>9 DEF ItemsInv, TopFits, BelowFits, m
<1>11. StackOK /\ Len(stack) = 0
  BY <1>1 DEF StackOK
<1>12. Returns(work, stack)
  BY <1>8, <1>11, FS_EmptySet DEF Returns
<1>13. ImporterIsCurrent
  BY <1>1, <1>9 DEF ImporterIsCurrent, Importer
<1>. QED
  BY <1>10, <1>11, <1>12, <1>13 DEF WalkInv

LEMMA NextWalkInv == WalkInv /\ [Next]_vars => WalkInv'
<1>. SUFFICES ASSUME WalkInv, [Next]_vars PROVE WalkInv'
  OBVIOUS
<1>0. ItemsInv
  BY DEF WalkInv
<1>1. ASSUME \E items : GoesOn(items)
      PROVE  WalkInv'
  BY <1>1, GoingOnKeeps
<1>2. ASSUME \E items : Suspends(items)
      PROVE  WalkInv'
  BY <1>2, SuspendingKeeps
<1>3. ASSUME At(Item.do), Item.do \notin Crossing, work' = Tail(work),
             UNCHANGED <<program, here, stack>>
      PROVE  WalkInv'
  <2>1. GoesOn(<<>>)
    BY <1>0, <1>3, Dropping DEF At, Item
  <2>. QED
    BY <1>1, <2>1
<1>4. ASSUME UNCHANGED <<program, here, work, stack>>
      PROVE  WalkInv'
  BY <1>4 DEF WalkInv, StackOK, ItemsInv, ImporterIsCurrent, Mod, Returns, Importer
<1>5. ASSUME At(Item.do), Item.do \in Crossing, work' = Tail(work), here' = Suspended,
             stack' = Popped, UNCHANGED program
      PROVE  WalkInv'
  <2>1. GoesBack
    BY <1>0, <1>5 DEF GoesBack, At, Item, Suspended, ItemsInv
  <2>. QED
    BY <2>1, GoingBackKeeps
<1>. USE DEF session
<1>6. CASE Binding  BY <1>0, <1>1, <1>6, BindingGoesOn
<1>7. CASE LeaveBinding  BY <1>3, <1>7 DEF LeaveBinding, At, Crossing
<1>8. CASE EnterSeeded  BY <1>3, <1>8 DEF EnterSeeded, At, Crossing
<1>9. CASE EnterKnown  BY <1>3, <1>9 DEF EnterKnown, At, Crossing
<1>10. CASE EnterRef  BY <1>0, <1>1, <1>10, EnterRefGoesOn
<1>11. CASE EnterNode  BY <1>0, <1>1, <1>11, EnterNodeGoesOn
<1>12. CASE FinishPlain  BY <1>3, <1>12 DEF FinishPlain, At, Crossing
<1>13. CASE ImportFails  BY <1>3, <1>13 DEF ImportFails, FinishesImport, At, Crossing
<1>14. CASE ImportRemembered  BY <1>3, <1>14 DEF ImportRemembered, FinishesImport, At, Crossing
<1>15. CASE ImportInfers  BY <1>0, <1>2, <1>15, ImportInfersSuspends
<1>16. CASE ResumeModule  BY <1>5, <1>16 DEF ResumeModule, At, Crossing
<1>17. CASE ApplyPlain  BY <1>3, <1>17 DEF ApplyPlain, Applies, At, Crossing
<1>18. CASE ApplyBody  BY <1>0, <1>1, <1>18, ApplyBodyGoesOn
<1>19. CASE ResumeBody  BY <1>3, <1>19 DEF ResumeBody, At, Crossing
<1>20. CASE ApplyImported  BY <1>0, <1>2, <1>20, ApplyImportedSuspends
<1>21. CASE ResumeCall  BY <1>5, <1>21 DEF ResumeCall, At, Crossing
<1>22. CASE Panic  BY <1>4, <1>22 DEF Panic
<1>23. CASE Finished  BY <1>4, <1>23 DEF Finished
<1>24. CASE UNCHANGED vars  BY <1>4, <1>24 DEF vars
<1>. QED
  BY <1>6, <1>7, <1>8, <1>9, <1>10, <1>11, <1>12, <1>13, <1>14, <1>15, <1>16, <1>17,
     <1>18, <1>19, <1>20, <1>21, <1>22, <1>23, <1>24 DEF Next

\* However scopes open and end, the module at work is the session's innermost
\* dependency, so that load literals are resolved against the module that
\* wrote them.
THEOREM ImporterStaysCurrent == Spec => []ImporterIsCurrent
<1>1. WalkInv => ImporterIsCurrent
  BY DEF WalkInv
<1>. QED
  BY InitWalkInv, NextWalkInv, <1>1, PTL DEF Spec

-----------------------------------------------------------------------------
(* A dependency that is being inferred will be remembered under a key of   *)
(* its own: by then no other dependency that was inferred inside it, or    *)
(* that it is inferred inside of, can have taken it.                       *)

\* Each dependency in progress has its place among those in progress.
KeysFree(w, s, m) == \A q \in Crosses(w) : KeyFree(Under(w, q), s[Depth(w, q)], m)

LEMMA DepthsDiffer ==
  ASSUME NEW w, Len(w) \in Nat, NEW q \in Crosses(w), NEW s, Returns(w, s)
  PROVE  /\ Depth(w, q) \in 1..Len(s)
         /\ \A e \in Crosses(w) : q < e => Depth(w, q) < Depth(w, e)
<1>. DEFINE D(e) == {c \in Crosses(w) : c <= e}
<1>1. Crosses(w) \subseteq Nat /\ Cardinality(Crosses(w)) = Len(s)
  BY DEF Crosses, Marked, Returns
<1>2. IsFiniteSet(Crosses(w)) /\ \A e : IsFiniteSet(D(e))
  BY CrossesFinite
<1>3. q \in D(q) /\ \A e : D(e) \subseteq Crosses(w)
  BY <1>1
<1>4. \A e \in Crosses(w) : q < e => D(q) \subseteq D(e) \ {e} /\ e \in D(e)
  BY <1>1
<1>5. \A e : Depth(w, e) = Cardinality(D(e))
  BY DEF Depth
<1>. HIDE DEF D
<1>6. /\ Cardinality(D(q)) \in Nat /\ Cardinality(D(q)) <= Len(s)
      /\ Cardinality(D(q)) # 0
  BY <1>1, <1>2, <1>3, FS_Subset, FS_CardinalityType, FS_EmptySet
<1>7. ASSUME NEW e \in Crosses(w), q < e
      PROVE  Cardinality(D(q)) < Cardinality(D(e))
  <2>1. Cardinality(D(q)) <= Cardinality(D(e) \ {e}) /\ IsFiniteSet(D(e) \ {e})
    BY <1>2, <1>4, <1>7, FS_Subset
  <2>2. Cardinality(D(e) \ {e}) = Cardinality(D(e)) - 1 /\ Cardinality(D(e)) \in Nat
    BY <1>2, <1>4, <1>7, FS_RemoveElement, FS_CardinalityType
  <2>. QED
    BY <1>6, <2>1, <2>2
<1>. QED
  BY <1>5, <1>6, <1>7

LEMMA KeysStay ==
  ASSUME NEW w, NEW v, NEW items, Replaces(v, w, items), NEW s, NEW m, KeysFree(w, s, m),
         Head(w).do \notin Crossing,
         \A i \in 1..Len(items) : items[i].do \notin Crossing
  PROVE  KeysFree(v, s, m)
<1>1. Crosses(v) = Crosses(w) /\ Crosses(w) \subseteq 1..(Len(w) - 1)
  BY MarksStay DEF Crosses
<1>2. \A q \in Crosses(w) : Under(v, q) = Under(w, q) /\ Depth(v, q) = Depth(w, q)
  BY <1>1 DEF Replaces, Depth
<1>. QED
  BY <1>1, <1>2 DEF KeysFree

LEMMA KeysPushed ==
  ASSUME NEW w, NEW v, NEW items, Replaces(v, w, items), NEW S, NEW s \in Seq(S), Returns(w, s),
         NEW x \in S, NEW m, KeysFree(w, s, m),
         Head(w).do \notin Crossing, Len(items) > 0,
         items[Len(items)].do \in Crossing,
         \A i \in 1..(Len(items) - 1) : items[i].do \notin Crossing,
         KeyFree(items[Len(items)], x, m)
  PROVE  KeysFree(v, Append(s, x), m)
<1>. DEFINE t == Append(s, x)
<1>1. /\ Crosses(v) = Crosses(w) \cup {Len(w)}
      /\ Crosses(w) \subseteq 1..(Len(w) - 1)
      /\ Under(v, Len(w)) = items[Len(items)]
  BY MarkPushed DEF Crosses
<1>2. Len(w) \in Nat \ {0}
  BY DEF Replaces
<1>3. Len(s) \in Nat /\ t[Len(s) + 1] = x /\ \A i \in 1..Len(s) : t[i] = s[i]
  OBVIOUS
<1>4. Depth(v, Len(w)) = Len(s) + 1
  <2>1. IsFiniteSet(Crosses(w)) /\ Len(w) \notin Crosses(w)
    BY <1>1, <1>2, CrossesFinite
  <2>2. Cardinality(Crosses(v)) = Len(s) + 1
    BY <1>1, <2>1, FS_AddElement DEF Returns
  <2>3. {c \in Crosses(v) : c <= Len(w)} = Crosses(v)
    BY <1>1, <1>2
  <2>. QED
    BY <2>2, <2>3 DEF Depth
<1>5. ASSUME NEW q \in Crosses(w)
      PROVE  /\ Under(v, q) = Under(w, q) /\ Depth(v, q) = Depth(w, q)
             /\ t[Depth(w, q)] = s[Depth(w, q)]
  <2>1. {c \in Crosses(v) : c <= q} = {c \in Crosses(w) : c <= q}
    BY <1>1, <1>2
  <2>2. Depth(w, q) \in 1..Len(s)
    BY <1>2, DepthsDiffer
  <2>. QED
    BY <1>1, <1>3, <2>1, <2>2 DEF Replaces, Depth
<1>. HIDE DEF t
<1>6. ASSUME NEW q \in Crosses(v)
      PROVE  KeyFree(Under(v, q), t[Depth(v, q)], m)
  <2>1. CASE q = Len(w)
    BY <1>1, <1>3, <1>4, <2>1
  <2>2. CASE q \in Crosses(w)
    BY <1>5, <2>2 DEF KeysFree
  <2>. QED
    BY <1>1, <2>1, <2>2
<1>. QED
  BY <1>6 DEF KeysFree, t

KeyTaken(item) == IF item.do = "ResumeModule" THEN {item.key} ELSE {}

\* The key of the dependency that ends is the only one that is taken.
LEMMA KeysPopped ==
  ASSUME NEW w, NEW v, Replaces(v, w, <<>>), NEW S, NEW s \in Seq(S), Returns(w, s),
         \A i, j \in DOMAIN s : s[i] = s[j] => i = j,
         NEW m, NEW n, KeysFree(w, s, m), Head(w).do \in Crossing,
         DOMAIN n \subseteq DOMAIN m \cup KeyTaken(Head(w))
  PROVE  KeysFree(v, SubSeq(s, 1, Len(s) - 1), n)
<1>. DEFINE t == SubSeq(s, 1, Len(s) - 1)
<1>1. /\ Crosses(v) = Crosses(w) \ {Len(w)} /\ Len(w) \in Crosses(w)
      /\ Crosses(v) \subseteq 1..(Len(w) - 1)
  BY MarkPopped DEF Crosses
<1>2. Len(w) \in Nat \ {0} /\ Under(w, Len(w)) = Head(w)
  BY DEF Replaces
<1>3. Depth(w, Len(w)) = Len(s)
  <2>1. {c \in Crosses(w) : c <= Len(w)} = Crosses(w)
    BY <1>1, <1>2 DEF Crosses, Marked
  <2>. QED
    BY <2>1 DEF Depth, Returns
<1>4. KeyFree(Head(w), s[Len(s)], m)
  BY <1>1, <1>2, <1>3 DEF KeysFree
<1>5. ASSUME NEW q \in Crosses(v)
      PROVE  KeyFree(Under(v, q), t[Depth(v, q)], n)
  <2>1. q \in Crosses(w) /\ q < Len(w) /\ Under(v, q) = Under(w, q)
    BY <1>1, <1>2 DEF Replaces
  <2>2. {c \in Crosses(v) : c <= q} = {c \in Crosses(w) : c <= q}
    BY <1>1, <1>2, <2>1
  <2>3. Depth(v, q) = Depth(w, q)
    BY <2>2 DEF Depth
  <2>4. /\ Depth(w, q) \in 1..Len(s) /\ Depth(w, q) < Len(s)
    BY <1>1, <1>2, <1>3, <2>1, DepthsDiffer
  <2>5. Len(s) \in Nat \ {0} /\ DOMAIN s = 1..Len(s)
    BY <2>4
  <2>6. t[Depth(w, q)] = s[Depth(w, q)]
    BY <2>4, <2>5
  <2>7. s[Depth(w, q)] # s[Len(s)]
    BY <2>4, <2>5
  <2>8. KeyFree(Under(w, q), s[Depth(w, q)], m)
    BY <2>1 DEF KeysFree
  <2>. HIDE DEF t
  <2>. QED
    BY <1>4, <2>1, <2>3, <2>6, <2>7, <2>8 DEF KeyFree, KeyTaken
<1>. QED
  BY <1>5 DEF KeysFree

KeysInv == KeysFree(work, stack, memo)

LEMMA InitKeysInv == Init /\ WalkInv => KeysInv
<1>. SUFFICES ASSUME Init, WalkInv PROVE KeysInv
  OBVIOUS
<1>1. stack = <<>> /\ Returns(work, stack) /\ Len(work) \in Nat
  BY DEF Init, WalkInv, ItemsInv, IsSequence
<1>2. Cardinality(Crosses(work)) = 0 /\ IsFiniteSet(Crosses(work))
  BY <1>1, CrossesFinite DEF Returns
<1>3. Crosses(work) = {}
  BY <1>2, FS_EmptySet
<1>. QED
  BY <1>3 DEF KeysInv, KeysFree

LEMMA NextKeysInv == IInv /\ WalkInv /\ KeysInv /\ [Next]_vars => KeysInv'
<1>. SUFFICES ASSUME IInv, WalkInv, KeysInv, [Next]_vars PROVE KeysInv'
  OBVIOUS
<1>0. /\ ItemsInv /\ Returns(work, stack) /\ stack \in Seq(DOMAIN program)
      /\ KeysFree(work, stack, memo)
      /\ \A i, j \in DOMAIN stack : stack[i] = stack[j] => i = j
  BY DEF WalkInv, IInv, StackOK, NeverInsideItself, KeysInv
<1>1. ASSUME \E items : GoesOn(items), UNCHANGED memo
      PROVE  KeysInv'
  <2>1. PICK items : GoesOn(items)
    BY <1>1
  <2>. DEFINE v == items \o Tail(work)
  <2>2. Replaces(v, work, items) /\ work' = v /\ UNCHANGED stack
    BY <2>1, ReplaceTop DEF GoesOn, IsSequence
  <2>. HIDE DEF v
  <2>3. KeysFree(v, stack, memo)
    BY <1>0, <2>1, <2>2, KeysStay DEF GoesOn
  <2>. QED
    BY <1>1, <2>2, <2>3 DEF KeysInv
<1>2. ASSUME \E items : Suspends(items)
      PROVE  KeysInv'
  <2>1. PICK items : Suspends(items)
    BY <1>2
  <2>. DEFINE v == items \o Tail(work)
  <2>2. Replaces(v, work, items) /\ work' = v
    BY <2>1, ReplaceTop DEF Suspends, IsSequence
  <2>. HIDE DEF v
  <2>3. PICK x : x = here'.id
    OBVIOUS
  <2>4. /\ Head(work).do \notin Crossing /\ Len(items) > 0
        /\ items[Len(items)].do \in Crossing
        /\ \A i \in 1..(Len(items) - 1) : items[i].do \notin Crossing
        /\ KeyFree(items[Len(items)], x, memo) /\ x \in DOMAIN program
        /\ stack' = Append(stack, x) /\ memo' = memo
    BY <2>1, <2>3 DEF Suspends
  <2>5. KeysFree(v, Append(stack, x), memo)
    BY <1>0, <2>2, <2>4, KeysPushed
  <2>. QED
    BY <2>2, <2>4, <2>5 DEF KeysInv
<1>3. ASSUME At(Item.do), Item.do \notin Crossing, work' = Tail(work),
             UNCHANGED <<program, here, stack, memo>>
      PROVE  KeysInv'
  <2>1. GoesOn(<<>>)
    BY <1>0, <1>3, Dropping DEF At, Item
  <2>. QED
    BY <1>1, <1>3, <2>1
<1>4. ASSUME UNCHANGED <<work, stack, memo>>
      PROVE  KeysInv'
  BY <1>4 DEF KeysInv
<1>5. ASSUME At(Item.do), Item.do \in Crossing, work' = Tail(work), stack' = Popped,
             DOMAIN memo' \subseteq DOMAIN memo \cup KeyTaken(Item)
      PROVE  KeysInv'
  <2>. DEFINE v == Tail(work)
  <2>1. work # <<>> /\ Item = Head(work) /\ IsSequence(work)
    BY <1>0, <1>5 DEF At, Item, ItemsInv
  <2>2. v = <<>> \o Tail(work) /\ IsSequence(<<>>)
    BY <2>1, NothingInstead, EmptySequence
  <2>3. Replaces(v, work, <<>>)
    BY <2>1, <2>2, ReplaceTop DEF IsSequence
  <2>. HIDE DEF v
  <2>4. PICK n : n = memo'
    OBVIOUS
  <2>5. KeysFree(v, SubSeq(stack, 1, Len(stack) - 1), n)
    BY <1>0, <1>5, <2>1, <2>3, <2>4, KeysPopped
  <2>. QED
    BY <1>5, <2>4, <2>5 DEF KeysInv, Popped, v
<1>. USE DEF session
<1>6. CASE Binding  BY <1>0, <1>1, <1>6, BindingGoesOn DEF Binding
<1>7. CASE LeaveBinding  BY <1>3, <1>7 DEF LeaveBinding, At, Crossing
<1>8. CASE EnterSeeded  BY <1>3, <1>8 DEF EnterSeeded, At, Crossing
<1>9. CASE EnterKnown  BY <1>3, <1>9 DEF EnterKnown, At, Crossing
<1>10. CASE EnterRef  BY <1>0, <1>1, <1>10, EnterRefGoesOn DEF EnterRef
<1>11. CASE EnterNode  BY <1>0, <1>1, <1>11, EnterNodeGoesOn DEF EnterNode
<1>12. CASE FinishPlain  BY <1>3, <1>12 DEF FinishPlain, At, Crossing
<1>13. CASE ImportFails  BY <1>3, <1>13 DEF ImportFails, FinishesImport, At, Crossing
<1>14. CASE ImportRemembered  BY <1>3, <1>14 DEF ImportRemembered, FinishesImport, At, Crossing
<1>15. CASE ImportInfers  BY <1>0, <1>2, <1>15, ImportInfersSuspends
<1>16. CASE ResumeModule
  <2>1. /\ At(Item.do) /\ Item.do = "ResumeModule" /\ work' = Tail(work) /\ stack' = Popped
        /\ memo' = Put(memo, Item.key, scope.inferred)
    BY <1>16 DEF ResumeModule, At
  <2>2. DOMAIN memo' = DOMAIN memo \cup KeyTaken(Item)
    BY <2>1 DEF Put, KeyTaken
  <2>. QED
    BY <1>5, <2>1, <2>2 DEF Crossing
<1>17. CASE ApplyPlain  BY <1>3, <1>17 DEF ApplyPlain, Applies, At, Crossing
<1>18. CASE ApplyBody  BY <1>0, <1>1, <1>18, ApplyBodyGoesOn DEF ApplyBody
<1>19. CASE ResumeBody  BY <1>3, <1>19 DEF ResumeBody, At, Crossing
<1>20. CASE ApplyImported  BY <1>0, <1>2, <1>20, ApplyImportedSuspends
<1>21. CASE ResumeCall
  <2>1. /\ At(Item.do) /\ Item.do = "ResumeCall" /\ work' = Tail(work) /\ stack' = Popped
        /\ memo' = memo
    BY <1>21 DEF ResumeCall, At
  <2>. QED
    BY <1>5, <2>1 DEF Crossing
<1>22. CASE Panic  BY <1>4, <1>22 DEF Panic
<1>23. CASE Finished  BY <1>4, <1>23 DEF Finished
<1>24. CASE UNCHANGED vars  BY <1>4, <1>24 DEF vars
<1>. QED
  BY <1>6, <1>7, <1>8, <1>9, <1>10, <1>11, <1>12, <1>13, <1>14, <1>15, <1>16, <1>17,
     <1>18, <1>19, <1>20, <1>21, <1>22, <1>23, <1>24 DEF Next

\* What is remembered of a dependency is never replaced: its annotations are
\* made once for each set of substituted types, and every importer reads the
\* same (modules.rs, `resolve`).
RememberedStays ==
  \A key \in DOMAIN memo : key \in DOMAIN memo' /\ memo'[key] = memo[key]

THEOREM DependenciesInferredOnce == Spec => [][RememberedStays]_vars
<1>1. ASSUME WalkInv, KeysInv, [Next]_vars
      PROVE  RememberedStays \/ UNCHANGED vars
  <2>1. CASE ResumeModule
    <3>1. work # <<>> /\ Item = Head(work) /\ IsSequence(work) /\ Item.do = "ResumeModule"
      BY <1>1, <2>1 DEF ResumeModule, At, Item, WalkInv, ItemsInv
    <3>2. Len(work) \in 1..Len(work) /\ Under(work, Len(work)) = Item
      BY <3>1 DEF Under, IsSequence
    <3>3. Len(work) \in Crosses(work)
      BY <3>1, <3>2 DEF Crosses, Marked, Crossing
    <3>4. Item.key \notin DOMAIN memo
      BY <1>1, <3>1, <3>2, <3>3 DEF KeysInv, KeysFree, KeyFree
    <3>5. memo' = Put(memo, Item.key, scope.inferred)
      BY <2>1 DEF ResumeModule
    <3>. QED
      BY <3>4, <3>5 DEF RememberedStays, Put
  <2>2. CASE UNCHANGED memo
    BY <2>2 DEF RememberedStays
  <2>. QED
    BY <1>1, <2>1, <2>2
    DEF Next, vars, session, Binding, LeaveBinding, EnterSeeded, EnterKnown, EnterRef,
        EnterNode, FinishPlain, ImportFails, ImportRemembered, ImportInfers, ApplyPlain,
        ApplyBody, ResumeBody, ApplyImported, ResumeCall, Panic, Finished
<1>2. Init => WalkInv /\ KeysInv /\ IInv
  BY InitWalkInv, InitKeysInv, InitIInv
<1>3. WalkInv /\ KeysInv /\ IInv /\ [Next]_vars => (WalkInv /\ KeysInv /\ IInv)'
  BY NextWalkInv, NextKeysInv, NextIInv
<1>. QED
  BY <1>1, <1>2, <1>3, PTL DEF Spec
=============================================================================
