----------------------- MODULE ExpressionParserProofs -----------------------
(***************************************************************************)
(* Proof that the parser's frames, values and scopes stay in step, for     *)
(* every text, every tree and every printer.                               *)
(***************************************************************************)
EXTENDS ExpressionParser, SequenceTheorems, TLAPS

-----------------------------------------------------------------------------
(* Stacks: sequences with one element put on top or taken off.             *)

IsSequence(s) == s \in Seq(Range(s))

LEMMA EmptySequence == IsSequence(<<>>) /\ DOMAIN <<>> = {} /\ Len(<<>>) = 0
BY DEF IsSequence, Range

LEMMA SequenceFacts ==
  ASSUME NEW s, IsSequence(s)
  PROVE  Len(s) \in Nat /\ DOMAIN s = 1..Len(s) /\ (s # <<>> <=> Len(s) > 0)
<1>1. s \in Seq(Range(s))
  BY DEF IsSequence
<1>. QED
  BY <1>1, LenProperties, EmptySeq

LEMMA SequenceMakes ==
  ASSUME NEW Elems, NEW s \in Seq(Elems)
  PROVE  IsSequence(s)
<1>1. Len(s) \in Nat /\ s \in [1..Len(s) -> Elems] /\ DOMAIN s = 1..Len(s)
  BY LenProperties
<1>2. s \in [1..Len(s) -> Range(s)]
  BY <1>1 DEF Range
<1>. QED
  BY <1>1, <1>2 DEF IsSequence

LEMMA SameSequence ==
  ASSUME NEW s, IsSequence(s), NEW t, IsSequence(t),
         Len(s) = Len(t), \A i \in 1..Len(s) : s[i] = t[i]
  PROVE  s = t
<1>. DEFINE Elems == Range(s) \cup Range(t)
<1>1. s \in Seq(Elems) /\ t \in Seq(Elems)
  BY SeqMonotonic DEF IsSequence
<1>. HIDE DEF Elems
<1>. QED
  BY <1>1, SeqEqual

LEMMA Joins ==
  ASSUME NEW s, IsSequence(s), NEW t, IsSequence(t)
  PROVE  /\ IsSequence(s \o t) /\ Len(s \o t) = Len(s) + Len(t)
         /\ \A i \in 1..Len(s) : (s \o t)[i] = s[i]
         /\ \A i \in 1..Len(t) : (s \o t)[Len(s) + i] = t[i]
<1>. DEFINE Elems == Range(s) \cup Range(t)
            u == s \o t
<1>1. s \in Seq(Elems) /\ t \in Seq(Elems)
  BY SeqMonotonic DEF IsSequence
<1>. HIDE DEF Elems
<1>2. /\ u \in Seq(Elems) /\ Len(u) = Len(s) + Len(t)
      /\ \A i \in 1..(Len(s) + Len(t)) :
           u[i] = IF i <= Len(s) THEN s[i] ELSE t[i - Len(s)]
  BY <1>1, ConcatProperties
<1>. HIDE DEF u
<1>3. Len(s) \in Nat /\ Len(t) \in Nat
  BY SequenceFacts
<1>4. \A i \in 1..Len(s) : u[i] = s[i]
  BY <1>2, <1>3
<1>5. ASSUME NEW i \in 1..Len(t) PROVE u[Len(s) + i] = t[i]
  <2>1. /\ Len(s) + i \in 1..(Len(s) + Len(t)) /\ ~(Len(s) + i <= Len(s))
        /\ (Len(s) + i) - Len(s) = i
    BY <1>3
  <2>. QED
    BY <1>2, <2>1
<1>6. IsSequence(u)
  BY <1>2, SequenceMakes
<1>. QED
  BY <1>2, <1>4, <1>5, <1>6 DEF u

LEMMA Single ==
  ASSUME NEW x
  PROVE  IsSequence(<<x>>) /\ Len(<<x>>) = 1 /\ <<x>>[1] = x
<1>1. <<x>> \in Seq({x})
  OBVIOUS
<1>. QED
  BY <1>1, SequenceMakes

LEMMA Popped ==
  ASSUME NEW s, IsSequence(s), s # <<>>
  PROVE  /\ IsSequence(Tail(s)) /\ Len(s) = Len(Tail(s)) + 1
         /\ Head(s) = s[1] /\ \A i \in 1..Len(Tail(s)) : Tail(s)[i] = s[i + 1]
<1>1. s \in Seq(Range(s))
  BY DEF IsSequence
<1>2. /\ Tail(s) \in Seq(Range(s)) /\ Len(Tail(s)) = Len(s) - 1
      /\ \A i \in 1..Len(Tail(s)) : Tail(s)[i] = s[i + 1]
  BY <1>1, HeadTailProperties
<1>3. IsSequence(Tail(s))
  BY <1>2, SequenceMakes
<1>4. Len(s) \in Nat
  BY SequenceFacts
<1>5. Head(s) = s[1]
  OBVIOUS
<1>. QED
  BY <1>2, <1>3, <1>4, <1>5

LEMMA Pushed ==
  ASSUME NEW s, IsSequence(s), NEW x
  PROVE  LET t == <<x>> \o s IN
         /\ IsSequence(t) /\ t # <<>> /\ Len(t) = Len(s) + 1
         /\ t[1] = x /\ \A i \in 1..Len(s) : t[i + 1] = s[i]
         /\ Head(t) = x /\ Tail(t) = s
<1>. DEFINE t == <<x>> \o s
<1>1. /\ IsSequence(t) /\ Len(t) = 1 + Len(s)
      /\ t[1] = x /\ \A i \in 1..Len(s) : t[1 + i] = s[i]
  <2>1. 1 \in 1..Len(<<x>>)
    BY Single
  <2>. QED
    BY <2>1, Joins, Single
<1>. HIDE DEF t
<1>2. Len(s) \in Nat
  BY SequenceFacts
<1>3. t # <<>> /\ Len(t) = Len(s) + 1 /\ \A i \in 1..Len(s) : t[i + 1] = s[i]
  BY <1>1, <1>2, EmptySequence
<1>4. /\ IsSequence(Tail(t)) /\ Len(Tail(t)) = Len(s) /\ Head(t) = x
      /\ \A i \in 1..Len(Tail(t)) : Tail(t)[i] = t[i + 1]
  <2>1. Len(t) = Len(Tail(t)) + 1 /\ Len(Tail(t)) \in Nat
    BY <1>1, <1>3, Popped, SequenceFacts
  <2>. QED
    BY <1>1, <1>2, <1>3, <2>1, Popped
<1>5. Tail(t) = s
  BY <1>3, <1>4, SameSequence
<1>. QED
  BY <1>1, <1>3, <1>4, <1>5 DEF t

LEMMA Split ==
  ASSUME NEW s, IsSequence(s), s # <<>>
  PROVE  s = <<Head(s)>> \o Tail(s)
<1>. DEFINE t == <<Head(s)>> \o Tail(s)
<1>1. /\ IsSequence(Tail(s)) /\ Len(s) = Len(Tail(s)) + 1 /\ Head(s) = s[1]
      /\ \A i \in 1..Len(Tail(s)) : Tail(s)[i] = s[i + 1]
  BY Popped
<1>2. /\ IsSequence(t) /\ Len(t) = Len(s) /\ t[1] = s[1]
      /\ \A i \in 1..Len(Tail(s)) : t[i + 1] = s[i + 1]
  BY <1>1, Pushed
<1>. HIDE DEF t
<1>3. \A j \in 1..Len(s) : j = 1 \/ (j - 1 \in 1..Len(Tail(s)) /\ (j - 1) + 1 = j)
  BY <1>1, SequenceFacts
<1>4. \A j \in 1..Len(s) : s[j] = t[j]
  BY <1>2, <1>3
<1>5. s = t
  BY <1>2, <1>4, SameSequence
<1>. QED
  BY <1>5 DEF t

LEMMA PushedOver ==
  ASSUME NEW s, IsSequence(s), NEW t, IsSequence(t), NEW x
  PROVE  (<<x>> \o s) \o t = <<x>> \o (s \o t)
<1>. DEFINE Elems == Range(s) \cup Range(t) \cup {x}
<1>1. s \in Seq(Elems) /\ t \in Seq(Elems) /\ x \in Elems
  BY SeqMonotonic DEF IsSequence
<1>. HIDE DEF Elems
<1>2. <<x>> \in Seq(Elems)
  BY <1>1
<1>. QED
  BY <1>1, <1>2, ConcatAssociative

LEMMA PushedTwo ==
  ASSUME NEW s, IsSequence(s), NEW x, NEW y
  PROVE  <<x, y>> \o s = <<x>> \o (<<y>> \o s)
<1>1. <<x, y>> = <<x>> \o <<y>>
  <2>1. <<x, y>> \in Seq({x, y})
    OBVIOUS
  <2>2. IsSequence(<<x, y>>) /\ Len(<<x, y>>) = 2
        /\ <<x, y>>[1] = x /\ <<x, y>>[2] = y
    BY <2>1, SequenceMakes
  <2>3. /\ IsSequence(<<x>> \o <<y>>) /\ Len(<<x>> \o <<y>>) = 2
        /\ (<<x>> \o <<y>>)[1] = x /\ (<<x>> \o <<y>>)[1 + 1] = y
    BY Single, Pushed
  <2>4. \A i \in 1..2 : i = 1 \/ i = 1 + 1
    OBVIOUS
  <2>5. 1 + 1 = 2
    OBVIOUS
  <2>. QED
    BY <2>2, <2>3, <2>4, <2>5, SameSequence
<1>. QED
  BY <1>1, PushedOver, Single

-----------------------------------------------------------------------------
(* Frames and the scopes they own.                                         *)

LEMMA OwnsOneOrNone == \A f : Owned(f) = {} \/ \E o : Owned(f) = {o}
BY DEF Owned

LEMMA NoFrames ==
  ASSUME NEW s, IsSequence(s)
  PROVE  Paired(<<>>, s) <=> s = <<>>
<1>1. Owners(<<>>) = {}
  BY EmptySequence DEF Owners
<1>2. ASSUME Paired(<<>>, s) PROVE s = <<>>
  BY <1>1, <1>2, SequenceFacts DEF Paired
<1>3. [x \in {} |-> x] \in [{} -> {}]
  OBVIOUS
<1>4. Paired(<<>>, <<>>)
  BY <1>1, <1>3, EmptySequence DEF Paired
<1>. QED
  BY <1>2, <1>4

LEMMA PushedOwners ==
  ASSUME NEW w, IsSequence(w), NEW f
  PROVE  Owners(<<f>> \o w) =
           {i + 1 : i \in Owners(w)} \cup {i \in {1} : Owned(f) # {}}
<1>. DEFINE t == <<f>> \o w
<1>1. /\ Len(w) \in Nat /\ DOMAIN w = 1..Len(w) /\ DOMAIN t = 1..(Len(w) + 1)
      /\ t[1] = f /\ \A i \in 1..Len(w) : t[i + 1] = w[i]
  BY Pushed, SequenceFacts
<1>. HIDE DEF t
<1>2. \A j \in 1..(Len(w) + 1) : j = 1 \/ (j - 1 \in 1..Len(w) /\ j = (j - 1) + 1)
  BY <1>1
<1>3. \A i \in 1..Len(w) : i + 1 \in 1..(Len(w) + 1) /\ i + 1 # 1
  BY <1>1
<1>4. ASSUME NEW j \in Owners(t), j # 1
      PROVE  j \in {i + 1 : i \in Owners(w)}
  BY <1>4, <1>1, <1>2 DEF Owners
<1>5. ASSUME NEW i \in Owners(w) PROVE i + 1 \in Owners(t)
  BY <1>5, <1>1, <1>3 DEF Owners
<1>6. 1 \in Owners(t) <=> Owned(f) # {}
  BY <1>1 DEF Owners
<1>. QED
  BY <1>4, <1>5, <1>6 DEF t

LEMMA PlainFrame ==
  ASSUME NEW w, IsSequence(w), NEW s, IsSequence(s), NEW f, Owned(f) = {}
  PROVE  Paired(<<f>> \o w, s) <=> Paired(w, s)
<1>. DEFINE t == <<f>> \o w
            n == Len(w)
<1>1. /\ n \in Nat /\ DOMAIN w = 1..n /\ \A i \in 1..n : t[i + 1] = w[i]
  BY Pushed, SequenceFacts
<1>2. Owners(t) = {i + 1 : i \in Owners(w)}
  BY PushedOwners
<1>3. DOMAIN s = 1..Len(s) /\ Len(s) \in Nat /\ Owners(w) \subseteq 1..n
  BY <1>1, SequenceFacts DEF Owners
<1>. HIDE DEF t, n
<1>4. ASSUME NEW owner \in [DOMAIN s -> Owners(t)],
             \A i, j \in DOMAIN s : i < j => owner[i] < owner[j],
             \A k \in Owners(t) : \E i \in DOMAIN s : owner[i] = k,
             \A i \in DOMAIN s : WithoutHoles(s[i]) \in Owned(t[owner[i]])
      PROVE  Paired(w, s)
  <2>. DEFINE old == [i \in DOMAIN s |-> owner[i] - 1]
  <2>1. \A i \in DOMAIN s : old[i] \in Owners(w) /\ old[i] + 1 = owner[i]
    BY <1>2, <1>3, <1>4
  <2>2. old \in [DOMAIN s -> Owners(w)]
    BY <2>1
  <2>. HIDE DEF old
  <2>3. \A i, j \in DOMAIN s : i < j => old[i] < old[j]
    BY <1>3, <1>4, <2>1
  <2>4. ASSUME NEW k \in Owners(w) PROVE \E i \in DOMAIN s : old[i] = k
    <3>1. PICK i \in DOMAIN s : owner[i] = k + 1
      BY <1>2, <1>4
    <3>. QED
      BY <3>1, <2>1, <1>3
  <2>5. \A i \in DOMAIN s : WithoutHoles(s[i]) \in Owned(w[old[i]])
    BY <1>1, <1>3, <1>4, <2>1
  <2>. QED
    BY <2>2, <2>3, <2>4, <2>5 DEF Paired
<1>5. ASSUME NEW owner \in [DOMAIN s -> Owners(w)],
             \A i, j \in DOMAIN s : i < j => owner[i] < owner[j],
             \A k \in Owners(w) : \E i \in DOMAIN s : owner[i] = k,
             \A i \in DOMAIN s : WithoutHoles(s[i]) \in Owned(w[owner[i]])
      PROVE  Paired(t, s)
  <2>. DEFINE new == [i \in DOMAIN s |-> owner[i] + 1]
  <2>1. \A i \in DOMAIN s : new[i] \in Owners(t) /\ new[i] = owner[i] + 1
    BY <1>2, <1>5
  <2>2. new \in [DOMAIN s -> Owners(t)]
    BY <2>1
  <2>. HIDE DEF new
  <2>3. \A i, j \in DOMAIN s : i < j => new[i] < new[j]
    BY <1>3, <1>5, <2>1
  <2>4. ASSUME NEW k \in Owners(t) PROVE \E i \in DOMAIN s : new[i] = k
    <3>1. PICK l \in Owners(w) : k = l + 1
      BY <1>2
    <3>2. PICK i \in DOMAIN s : owner[i] = l
      BY <1>5
    <3>. QED
      BY <3>1, <3>2, <2>1
  <2>5. \A i \in DOMAIN s : WithoutHoles(s[i]) \in Owned(t[new[i]])
    BY <1>1, <1>3, <1>5, <2>1
  <2>. QED
    BY <2>2, <2>3, <2>4, <2>5 DEF Paired
<1>. QED
  BY <1>4, <1>5 DEF Paired, t

LEMMA OwningFrame ==
  ASSUME NEW w, IsSequence(w), NEW s, IsSequence(s),
         NEW f, NEW o, Owned(f) = {o}
  PROVE  Paired(<<f>> \o w, s) <=>
           s # <<>> /\ WithoutHoles(Head(s)) = o /\ Paired(w, Tail(s))
<1>. DEFINE t == <<f>> \o w
            n == Len(w)
            r == Tail(s)
<1>1. /\ n \in Nat /\ DOMAIN w = 1..n /\ \A i \in 1..n : t[i + 1] = w[i]
      /\ t[1] = f
  BY Pushed, SequenceFacts
<1>2. Owners(t) = {i + 1 : i \in Owners(w)} \cup {1}
  BY PushedOwners
<1>3. DOMAIN s = 1..Len(s) /\ Len(s) \in Nat /\ Owners(w) \subseteq 1..n
      /\ (s # <<>> <=> Len(s) > 0)
  BY <1>1, SequenceFacts DEF Owners
<1>4. s # <<>> => /\ Head(s) = s[1] /\ Len(r) \in Nat /\ Len(s) = Len(r) + 1
                  /\ DOMAIN r = 1..Len(r) /\ \A i \in 1..Len(r) : r[i] = s[i + 1]
  BY Popped, SequenceFacts
<1>. HIDE DEF t, n, r
<1>5. ASSUME NEW owner \in [DOMAIN s -> Owners(t)],
             \A i, j \in DOMAIN s : i < j => owner[i] < owner[j],
             \A k \in Owners(t) : \E i \in DOMAIN s : owner[i] = k,
             \A i \in DOMAIN s : WithoutHoles(s[i]) \in Owned(t[owner[i]])
      PROVE  s # <<>> /\ WithoutHoles(Head(s)) = o /\ Paired(w, r)
  <2>1. PICK one \in DOMAIN s : owner[one] = 1
    BY <1>2, <1>5
  <2>2. \A k \in Owners(t) : k \in Nat /\ k >= 1
    BY <1>2, <1>3
  <2>3. Len(s) > 0 /\ 1 \in DOMAIN s /\ one \in Nat /\ one >= 1
    BY <2>1, <1>3
  <2>4. one = 1
    <3>1. owner[1] >= 1 /\ owner[1] \in Nat
      BY <2>2, <2>3
    <3>2. ~(1 < one)
      BY <3>1, <2>1, <2>3, <1>5
    <3>. QED
      BY <3>2, <2>3
  <2>5. s # <<>> /\ WithoutHoles(Head(s)) = o
    BY <1>1, <1>3, <1>4, <1>5, <2>1, <2>3, <2>4
  <2>. DEFINE old == [i \in DOMAIN r |-> owner[i + 1] - 1]
  <2>6. \A i \in DOMAIN r : i \in Nat /\ i + 1 \in DOMAIN s /\ 1 < i + 1
    BY <2>5, <1>3, <1>4
  <2>7. ASSUME NEW i \in DOMAIN r
        PROVE  old[i] \in Owners(w) /\ old[i] + 1 = owner[i + 1]
    <3>1. owner[i + 1] \in Owners(t) /\ owner[1] < owner[i + 1]
      BY <2>3, <2>6, <1>5
    <3>2. owner[i + 1] # 1
      BY <3>1, <2>1, <2>4
    <3>3. PICK l \in Owners(w) : owner[i + 1] = l + 1
      BY <3>1, <3>2, <1>2
    <3>. QED
      BY <3>3, <1>3
  <2>8. old \in [DOMAIN r -> Owners(w)]
    BY <2>7
  <2>. HIDE DEF old
  <2>9. ASSUME NEW i \in DOMAIN r, NEW j \in DOMAIN r, i < j
        PROVE  old[i] < old[j]
    <3>1. i + 1 < j + 1
      BY <2>6, <2>9
    <3>2. owner[i + 1] < owner[j + 1]
      BY <3>1, <2>6, <1>5
    <3>. QED
      BY <3>2, <2>7, <1>3
  <2>10. ASSUME NEW k \in Owners(w) PROVE \E i \in DOMAIN r : old[i] = k
    <3>1. k + 1 \in Owners(t) /\ k + 1 # 1 /\ k \in Nat
      BY <1>2, <1>3
    <3>2. PICK i \in DOMAIN s : owner[i] = k + 1
      BY <3>1, <1>5
    <3>3. i # 1
      BY <3>1, <3>2, <2>1, <2>4
    <3>4. i - 1 \in DOMAIN r /\ (i - 1) + 1 = i
      BY <3>3, <2>5, <1>3, <1>4
    <3>5. old[i - 1] + 1 = k + 1 /\ old[i - 1] \in Nat
      BY <3>2, <3>4, <2>7, <1>3
    <3>6. old[i - 1] = k
      BY <3>1, <3>5
    <3>. QED
      BY <3>4, <3>6
  <2>11. \A i \in DOMAIN r : WithoutHoles(r[i]) \in Owned(w[old[i]])
    <3>. SUFFICES ASSUME NEW i \in DOMAIN r
                  PROVE  WithoutHoles(r[i]) \in Owned(w[old[i]])
      OBVIOUS
    <3>1. r[i] = s[i + 1]
      BY <2>5, <1>4
    <3>2. t[owner[i + 1]] = w[old[i]]
      BY <2>7, <1>1, <1>3
    <3>. QED
      BY <3>1, <3>2, <2>6, <1>5
  <2>. QED
    BY <2>5, <2>8, <2>9, <2>10, <2>11 DEF Paired
<1>6. ASSUME s # <<>>, WithoutHoles(Head(s)) = o,
             NEW owner \in [DOMAIN r -> Owners(w)],
             \A i, j \in DOMAIN r : i < j => owner[i] < owner[j],
             \A k \in Owners(w) : \E i \in DOMAIN r : owner[i] = k,
             \A i \in DOMAIN r : WithoutHoles(r[i]) \in Owned(w[owner[i]])
      PROVE  Paired(t, s)
  <2>. DEFINE new == [i \in DOMAIN s |-> IF i = 1 THEN 1 ELSE owner[i - 1] + 1]
  <2>1. \A i \in DOMAIN s : /\ i \in Nat /\ i >= 1
                            /\ i # 1 => i - 1 \in DOMAIN r /\ (i - 1) + 1 = i
    BY <1>3, <1>4, <1>6
  <2>2. 1 \in DOMAIN s
    BY <1>3, <1>6
  <2>3. \A i \in DOMAIN r : owner[i] \in Owners(w) /\ owner[i] \in Nat /\ owner[i] >= 1
    BY <1>3, <1>6
  <2>4. /\ new[1] = 1
        /\ \A i \in DOMAIN s : i # 1 => new[i] = owner[i - 1] + 1
    BY <2>2
  <2>5. new \in [DOMAIN s -> Owners(t)]
    <3>1. \A i \in DOMAIN s : i # 1 => owner[i - 1] + 1 \in Owners(t)
      BY <1>2, <2>1, <2>3
    <3>. QED
      BY <1>2, <3>1
  <2>. HIDE DEF new
  <2>6. ASSUME NEW i \in DOMAIN s, NEW j \in DOMAIN s, i < j
        PROVE  new[i] < new[j]
    <3>1. j # 1 /\ j - 1 \in DOMAIN r /\ new[j] = owner[j - 1] + 1
      BY <2>1, <2>4, <2>6
    <3>2. CASE i = 1
      BY <3>1, <3>2, <2>3, <2>4
    <3>3. CASE i # 1
      <4>1. i - 1 \in DOMAIN r /\ new[i] = owner[i - 1] + 1 /\ i - 1 < j - 1
        BY <3>3, <2>1, <2>4, <2>6
      <4>2. owner[i - 1] < owner[j - 1]
        BY <4>1, <3>1, <1>6
      <4>. QED
        BY <4>1, <4>2, <3>1, <2>3
    <3>. QED
      BY <3>2, <3>3
  <2>7. ASSUME NEW k \in Owners(t) PROVE \E i \in DOMAIN s : new[i] = k
    <3>1. CASE k = 1
      BY <3>1, <2>2, <2>4
    <3>2. CASE k # 1
      <4>1. PICK l \in Owners(w) : k = l + 1
        BY <3>2, <1>2
      <4>2. PICK i \in DOMAIN r : owner[i] = l
        BY <1>6
      <4>3. i + 1 \in DOMAIN s /\ i + 1 # 1 /\ (i + 1) - 1 = i
        BY <1>3, <1>4, <1>6
      <4>4. new[i + 1] = k
        BY <4>1, <4>2, <4>3, <2>4
      <4>. QED
        BY <4>3, <4>4
    <3>. QED
      BY <3>1, <3>2
  <2>8. ASSUME NEW i \in DOMAIN s PROVE WithoutHoles(s[i]) \in Owned(t[new[i]])
    <3>1. CASE i = 1
      BY <3>1, <1>1, <1>4, <1>6, <2>4
    <3>2. CASE i # 1
      <4>1. i - 1 \in DOMAIN r /\ (i - 1) + 1 = i /\ new[i] = owner[i - 1] + 1
        BY <3>2, <2>1, <2>4
      <4>2. r[i - 1] = s[i]
        BY <4>1, <1>4, <1>6
      <4>3. owner[i - 1] \in 1..n
        BY <4>1, <2>3, <1>3
      <4>4. t[new[i]] = w[owner[i - 1]]
        BY <4>1, <4>3, <1>1
      <4>. QED
        BY <4>1, <4>2, <4>4, <1>6
    <3>. QED
      BY <3>1, <3>2
  <2>. QED
    BY <2>5, <2>6, <2>7, <2>8 DEF Paired
<1>7. Paired(t, s) => s # <<>> /\ WithoutHoles(Head(s)) = o /\ Paired(w, r)
  BY <1>5 DEF Paired
<1>8. s # <<>> /\ WithoutHoles(Head(s)) = o /\ Paired(w, r) => Paired(t, s)
  BY <1>6 DEF Paired
<1>. QED
  BY <1>7, <1>8 DEF t, r

LEMMA SameOwner ==
  ASSUME NEW w, IsSequence(w), NEW s, IsSequence(s),
         NEW f, NEW g, Owned(f) = Owned(g)
  PROVE  Paired(<<f>> \o w, s) <=> Paired(<<g>> \o w, s)
<1>1. CASE Owned(f) = {}
  BY <1>1, PlainFrame
<1>2. CASE Owned(f) # {}
  <2>1. PICK o : Owned(f) = {o}
    BY <1>2, OwnsOneOrNone
  <2>2. Owned(g) = {o}
    BY <2>1
  <2>. QED
    BY <2>1, <2>2, OwningFrame
<1>. QED
  BY <1>1, <1>2

-----------------------------------------------------------------------------
(* The invariant.  Below the frame at work all wait for a node, and a      *)
(* frame keeps what it opened with.                                        *)

IsCall(c) ==
  c = [target |-> c.target, positional |-> c.positional, named |-> c.named,
       keys |-> c.keys, reify |-> c.reify, bare |-> c.bare]

Formed(f) ==
  /\ f.frame = "Compare" =>
       IsSequence(f.ops) /\ (f.ops = <<>> => f.operands = <<>>)
  /\ f.frame \in {"Call", "CallItem"} => IsCall(f.call)

Takes(f) == f.frame \in Continuations
Waiting(w) == IsSequence(w) /\ \A i \in 1..Len(w) : Takes(w[i]) /\ Formed(w[i])

Stack(w, v, s) ==
  /\ IsSequence(w) /\ IsSequence(s) /\ Paired(w, s)
  /\ w = <<>> => v # Absent
  /\ w # <<>> => /\ Waiting(Tail(w)) /\ Formed(Head(w))
                 /\ v # Absent <=> Takes(Head(w))

ParseInv ==
  /\ stage = "parse" => Stack(work, value, scopes)
  /\ stage = "print" => scopes = <<>> /\ value = Absent

LEMMA WaitingPushed ==
  ASSUME NEW w, Waiting(w), NEW f, Takes(f), Formed(f)
  PROVE  Waiting(<<f>> \o w)
<1>. DEFINE t == <<f>> \o w
<1>1. IsSequence(w) /\ Len(w) \in Nat
  BY SequenceFacts DEF Waiting
<1>2. /\ IsSequence(t) /\ Len(t) = Len(w) + 1
      /\ t[1] = f /\ \A i \in 1..Len(w) : t[i + 1] = w[i]
  BY <1>1, Pushed
<1>. HIDE DEF t
<1>3. \A j \in 1..(Len(w) + 1) : j = 1 \/ (j - 1 \in 1..Len(w) /\ (j - 1) + 1 = j)
  BY <1>1
<1>4. ASSUME NEW j \in 1..Len(t) PROVE Takes(t[j]) /\ Formed(t[j])
  <2>1. CASE j = 1
    BY <2>1, <1>2
  <2>2. CASE j # 1
    <3>1. j - 1 \in 1..Len(w) /\ t[j] = w[j - 1]
      BY <2>2, <1>2, <1>3
    <3>. QED
      BY <3>1 DEF Waiting
  <2>. QED
    BY <2>1, <2>2
<1>5. Waiting(t)
  BY <1>2, <1>4 DEF Waiting
<1>. QED
  BY <1>5 DEF t

LEMMA WaitingPopped ==
  ASSUME NEW w, Waiting(w), w # <<>>
  PROVE  Waiting(Tail(w)) /\ Takes(Head(w)) /\ Formed(Head(w))
<1>1. /\ IsSequence(Tail(w)) /\ Len(w) = Len(Tail(w)) + 1 /\ Head(w) = w[1]
      /\ \A i \in 1..Len(Tail(w)) : Tail(w)[i] = w[i + 1]
  BY Popped DEF Waiting
<1>2. Len(Tail(w)) \in Nat
  BY <1>1, SequenceFacts
<1>3. 1 \in 1..Len(w) /\ \A i \in 1..Len(Tail(w)) : i + 1 \in 1..Len(w)
  BY <1>1, <1>2
<1>. QED
  BY <1>1, <1>3 DEF Waiting

(* A node goes to the frame that waits for it.                             *)
LEMMA NodeReturned ==
  ASSUME NEW w, Waiting(w), NEW s, IsSequence(s), Paired(w, s),
         NEW v, v # Absent
  PROVE  Stack(w, v, s)
<1>1. w # <<>> => Waiting(Tail(w)) /\ Takes(Head(w)) /\ Formed(Head(w))
  BY WaitingPopped
<1>. QED
  BY <1>1 DEF Stack, Waiting

(* A frame is put on top of those that wait.                               *)
LEMMA FrameOnTop ==
  ASSUME NEW w, Waiting(w), NEW f, Formed(f),
         NEW s, IsSequence(s), Paired(<<f>> \o w, s),
         NEW v, v # Absent <=> Takes(f)
  PROVE  Stack(<<f>> \o w, v, s)
<1>1. /\ IsSequence(<<f>> \o w) /\ <<f>> \o w # <<>>
      /\ Head(<<f>> \o w) = f /\ Tail(<<f>> \o w) = w
  BY Pushed DEF Waiting
<1>. QED
  BY <1>1 DEF Stack

LEMMA Taken ==
  ASSUME ParseInv, stage = "parse", work # <<>>
  PROVE  /\ Waiting(Tail(work)) /\ IsSequence(Tail(work)) /\ IsSequence(scopes)
         /\ Formed(Top) /\ (value # Absent <=> Takes(Top))
         /\ work = <<Top>> \o Tail(work) /\ Paired(<<Top>> \o Tail(work), scopes)
<1>1. Stack(work, value, scopes)
  BY DEF ParseInv
<1>2. /\ IsSequence(work) /\ IsSequence(scopes) /\ Paired(work, scopes)
      /\ Waiting(Tail(work)) /\ Formed(Top) /\ (value # Absent <=> Takes(Top))
  BY <1>1 DEF Stack, Top
<1>3. work = <<Top>> \o Tail(work)
  BY <1>2, Split DEF Top
<1>4. IsSequence(Tail(work))
  BY <1>2 DEF Waiting
<1>5. Paired(<<Top>> \o Tail(work), scopes)
  BY <1>2, <1>3
<1>. QED
  BY <1>2, <1>3, <1>4, <1>5

-----------------------------------------------------------------------------
(* What a step may do with the frame at work.                              *)

Working == ParseInv /\ stage = "parse" /\ work # <<>>

LEMMA Fails == Fail => ParseInv'
BY DEF Fail, ParseInv

LEMMA Lands ==
  ASSUME stage = "parse", UNCHANGED stage, Stack(work', value', scopes')
  PROVE  ParseInv'
BY DEF ParseInv

LEMMA Prepended ==
  ASSUME NEW w, IsSequence(w), NEW f, NEW g
  PROVE  <<>> \o w = w /\ <<f, g>> \o w = <<f>> \o (<<g>> \o w)
BY PushedTwo, ConcatEmptySeq DEF IsSequence

LEMMA Couple == \A f, g : <<f>> \o <<g>> = <<f, g>>
<1>. SUFFICES ASSUME NEW f, NEW g PROVE <<f>> \o <<g>> = <<f, g>>
  OBVIOUS
<1>1. <<f, g>> \in Seq({f, g}) /\ <<g>> \in Seq({f, g})
  OBVIOUS
<1>2. <<f, g>> = <<f, g>> \o <<>> /\ <<g>> \o <<>> = <<g>>
  BY <1>1, ConcatEmptySeq
<1>3. <<f, g>> \o <<>> = <<f>> \o (<<g>> \o <<>>)
  BY EmptySequence, PushedTwo
<1>. QED
  BY <1>2, <1>3

(* The frame is done.                                                      *)
LEMMA Yields ==
  ASSUME Working, NEW k, NEW node, Goto(k, <<>>, node),
         Owned(Top) = {}, node # Absent
  PROVE  ParseInv'
<1>. DEFINE w == Tail(work)
<1>1. Waiting(w) /\ IsSequence(w) /\ IsSequence(scopes) /\ Paired(<<Top>> \o w, scopes)
  BY Taken DEF Working
<1>2. Paired(w, scopes)
  BY <1>1, PlainFrame
<1>3. work' = w /\ value' = node /\ scopes' = scopes /\ UNCHANGED stage
  BY <1>1, Prepended DEF Goto, Go
<1>4. Stack(w, node, scopes)
  BY <1>1, <1>2, NodeReturned
<1>. QED
  BY <1>3, <1>4, Lands DEF Working

(* The frame is done, and so is the scope it opened.                       *)
LEMMA Closes ==
  ASSUME Working, NEW k, NEW node, Go(k, <<>>, node),
         scopes' = Tail(scopes), Owned(Top) # {}, node # Absent
  PROVE  ParseInv'
<1>. DEFINE w == Tail(work)
<1>1. Waiting(w) /\ IsSequence(w) /\ IsSequence(scopes) /\ Paired(<<Top>> \o w, scopes)
  BY Taken DEF Working
<1>2. PICK o : Owned(Top) = {o}
  BY OwnsOneOrNone
<1>3. scopes # <<>> /\ Paired(w, Tail(scopes))
  BY <1>1, <1>2, OwningFrame
<1>4. IsSequence(Tail(scopes))
  BY <1>1, <1>3, Popped
<1>5. work' = w /\ value' = node /\ UNCHANGED stage
  BY <1>1, Prepended DEF Go
<1>6. Stack(w, node, Tail(scopes))
  BY <1>1, <1>3, <1>4, NodeReturned
<1>. QED
  BY <1>5, <1>6, Lands DEF Working

(* It goes on as another frame with the same scope.                        *)
LEMMA Becomes ==
  ASSUME Working, NEW k, NEW f, NEW node, Goto(k, <<f>>, node),
         Owned(f) = Owned(Top), Formed(f), node # Absent <=> Takes(f)
  PROVE  ParseInv'
<1>. DEFINE w == Tail(work)
<1>1. Waiting(w) /\ IsSequence(w) /\ IsSequence(scopes) /\ Paired(<<Top>> \o w, scopes)
  BY Taken DEF Working
<1>2. Paired(<<f>> \o w, scopes)
  BY <1>1, SameOwner
<1>3. work' = <<f>> \o w /\ value' = node /\ scopes' = scopes /\ UNCHANGED stage
  BY DEF Goto, Go
<1>4. Stack(<<f>> \o w, node, scopes)
  BY <1>1, <1>2, FrameOnTop
<1>. QED
  BY <1>3, <1>4, Lands DEF Working

(* It starts a child and waits under it.                                   *)
LEMMA Descends ==
  ASSUME Working, NEW k, NEW f, NEW g, Goto(k, <<f, g>>, Absent),
         Owned(f) = {}, Formed(f), ~Takes(f),
         Owned(g) = Owned(Top), Formed(g), Takes(g)
  PROVE  ParseInv'
<1>. DEFINE w == Tail(work)
            u == <<g>> \o w
<1>1. Waiting(w) /\ IsSequence(w) /\ IsSequence(scopes) /\ Paired(<<Top>> \o w, scopes)
  BY Taken DEF Working
<1>2. Paired(u, scopes)
  BY <1>1, SameOwner
<1>3. Waiting(u) /\ IsSequence(u)
  BY <1>1, WaitingPushed DEF Waiting
<1>4. work' = <<f>> \o u /\ value' = Absent /\ scopes' = scopes /\ UNCHANGED stage
  BY <1>1, Prepended DEF Goto, Go
<1>. HIDE DEF u
<1>5. Paired(<<f>> \o u, scopes)
  BY <1>1, <1>2, <1>3, PlainFrame
<1>6. Stack(<<f>> \o u, Absent, scopes)
  BY <1>1, <1>3, <1>5, FrameOnTop
<1>. QED
  BY <1>4, <1>6, Lands DEF Working

(* It starts a child in a scope of its own and waits under it to close     *)
(* that scope.                                                             *)
LEMMA Opens ==
  ASSUME Working, NEW k, NEW f, NEW g, Go(k, <<f, g>>, Absent),
         NEW x, scopes' = <<x>> \o scopes, Owned(Top) = {},
         Owned(f) = {}, Formed(f), ~Takes(f),
         Owned(g) = {WithoutHoles(x)}, Formed(g), Takes(g)
  PROVE  ParseInv'
<1>. DEFINE w == Tail(work)
            u == <<g>> \o w
            s == <<x>> \o scopes
<1>1. Waiting(w) /\ IsSequence(w) /\ IsSequence(scopes) /\ Paired(<<Top>> \o w, scopes)
  BY Taken DEF Working
<1>2. Paired(w, scopes)
  BY <1>1, PlainFrame
<1>3. IsSequence(s) /\ s # <<>> /\ Head(s) = x /\ Tail(s) = scopes
  BY <1>1, Pushed
<1>. HIDE DEF s
<1>4. Paired(u, s)
  BY <1>1, <1>2, <1>3, OwningFrame
<1>5. Waiting(u) /\ IsSequence(u)
  BY <1>1, WaitingPushed DEF Waiting
<1>6. work' = <<f>> \o u /\ value' = Absent /\ scopes' = s /\ UNCHANGED stage
  BY <1>1, Prepended DEF Go, s
<1>. HIDE DEF u
<1>7. Paired(<<f>> \o u, s)
  BY <1>3, <1>4, <1>5, PlainFrame
<1>8. Stack(<<f>> \o u, Absent, s)
  BY <1>3, <1>5, <1>7, FrameOnTop
<1>. QED
  BY <1>6, <1>8, Lands DEF Working

-----------------------------------------------------------------------------
(* Frames and nodes.                                                       *)

LEMMA PlainKinds ==
  ASSUME NEW f, f.frame \notin {"Lambda", "Fn", "Call", "CallItem", "Compare"}
  PROVE  Owned(f) = {} /\ Formed(f)
BY DEF Owned, Formed

LEMMA Children ==
  /\ Owned(Expr) = {} /\ Formed(Expr) /\ ~Takes(Expr)
  /\ \A l : Owned(Level(l)) = {} /\ Formed(Level(l)) /\ ~Takes(Level(l))
BY DEF Owned, Formed, Takes, Continuations, Expr, Level

LEMMA Present ==
  /\ \A op, args : Call(op, args) # Absent
  /\ \A op, args, keys : CallKeyed(op, args, keys) # Absent
  /\ \A op, args, keys : Apply(op, args, keys) # Absent
  /\ \A op, body, inputs, entries : Reify(op, body, inputs, entries) # Absent
  /\ \A n : LocalRef(n) # Absent /\ SelfRef(n) # Absent
  /\ \A m, n : MemberRef(m, n) # Absent /\ Axis(m, n) # Absent
  /\ \A n : Num(n) # Absent /\ Str(n) # Absent /\ Bool(n) # Absent /\ Const(n) # Absent
  /\ \A n : Leaf("lit", n, "real") # Absent
BY DEF Call, CallKeyed, Apply, Reify, LocalRef, SelfRef, MemberRef, Axis,
       Num, Str, Bool, Const, Leaf, Node, Absent

LEMMA BinopPresent == \A op, lhs, rhs : apply_binop(op, lhs, rhs) # Absent
BY Present DEF apply_binop

LEMMA ComparisonPresent ==
  ASSUME NEW operands, NEW ops, IsSequence(ops), ops = <<>> => operands[1] # Absent
  PROVE  lower_comparison(operands, ops) # Absent
<1>1. CASE Len(ops) = 0
  <2>1. ops = <<>>
    BY <1>1, SequenceFacts
  <2>. QED
    BY <1>1, <2>1 DEF lower_comparison
<1>2. CASE Len(ops) = 1
  BY <1>2, BinopPresent DEF lower_comparison
<1>3. CASE Len(ops) # 0 /\ Len(ops) # 1
  BY <1>3, Present DEF lower_comparison
<1>. QED
  BY <1>1, <1>2, <1>3

-----------------------------------------------------------------------------
(* The arms of the loop: levels and operators.                             *)

LEMMA AtWork ==
  ASSUME ParseInv, NEW kind, At(kind)
  PROVE  Working /\ Top.frame = kind /\ (value # Absent <=> kind \in Continuations)
<1>1. Working /\ Top.frame = kind
  BY DEF At, Working
<1>. QED
  BY <1>1, Taken DEF Working, Takes

LEMMA LevelStarts ==
  ASSUME ParseInv, At("Level"), NEW l, NEW k, NEW g, Goto(k, <<Level(l), g>>, value),
         g.frame \in Continuations \ {"Lambda", "Fn", "CallItem"},
         Formed(g)
  PROVE  ParseInv'
<1>1. Working /\ Top.frame = "Level" /\ value = Absent
  BY AtWork DEF Continuations
<1>2. Owned(g) = {} /\ Takes(g) /\ Owned(Top) = {}
  BY <1>1 DEF Owned, Takes, Continuations
<1>. QED
  BY <1>1, <1>2, Children, Descends

LEMMA BinaryKeeps == ParseInv /\ ParseBinary => ParseInv'
<1>. SUFFICES ASSUME ParseInv, ParseBinary PROVE ParseInv'
  OBVIOUS
<1>. DEFINE g == [frame |-> "BinaryTail", level |-> Top.level]
<1>1. g.frame \in Continuations \ {"Lambda", "Fn", "CallItem"} /\ Formed(g)
  BY DEF Continuations, Formed
<1>2. At("Level") /\ Goto(pos, <<Level(Operand[Top.level]), g>>, value)
  BY DEF ParseBinary, AtLevel
<1>. QED
  BY <1>1, <1>2, LevelStarts

LEMMA ComparisonKeeps == ParseInv /\ ParseComparison => ParseInv'
<1>. SUFFICES ASSUME ParseInv, ParseComparison PROVE ParseInv'
  OBVIOUS
<1>. DEFINE g == [frame |-> "Compare", operands |-> <<>>, ops |-> <<>>]
<1>1. g.frame \in Continuations \ {"Lambda", "Fn", "CallItem"} /\ Formed(g)
  BY EmptySequence DEF Continuations, Formed
<1>2. At("Level") /\ Goto(pos, <<Level("add"), g>>, value)
  BY DEF ParseComparison, AtLevel
<1>. QED
  BY <1>1, <1>2, LevelStarts

LEMMA PowerStarts == ParseInv /\ ParsePower => ParseInv'
<1>. SUFFICES ASSUME ParseInv, ParsePower PROVE ParseInv'
  OBVIOUS
<1>. DEFINE g == [frame |-> "Power"]
<1>1. g.frame \in Continuations \ {"Lambda", "Fn", "CallItem"} /\ Formed(g)
  BY DEF Continuations, Formed
<1>2. At("Level") /\ Goto(pos, <<Level("postfix"), g>>, value)
  BY DEF ParsePower, AtLevel
<1>. QED
  BY <1>1, <1>2, LevelStarts

LEMMA PostfixStarts == ParseInv /\ ParsePostfix => ParseInv'
<1>. SUFFICES ASSUME ParseInv, ParsePostfix PROVE ParseInv'
  OBVIOUS
<1>. DEFINE g == [frame |-> "Postfix"]
<1>1. g.frame \in Continuations \ {"Lambda", "Fn", "CallItem"} /\ Formed(g)
  BY DEF Continuations, Formed
<1>2. At("Level") /\ Goto(pos, <<Level("primary"), g>>, value)
  BY DEF ParsePostfix, AtLevel
<1>. QED
  BY <1>1, <1>2, LevelStarts

LEMMA UnaryStarts == ParseInv /\ ParseUnary => ParseInv'
<1>. SUFFICES ASSUME ParseInv, ParseUnary PROVE ParseInv'
  OBVIOUS
<1>1. At("Level")
  BY DEF ParseUnary, AtLevel
<1>2. Working /\ Top.frame = "Level" /\ value = Absent
  BY <1>1, AtWork DEF Continuations
<1>3. Owned(Top) = {}
  BY <1>2, PlainKinds
<1>4. CASE Goto(pos, <<Level("power")>>, value)
  BY <1>2, <1>3, <1>4, Children, Becomes
<1>5. ASSUME NEW op \in OpsHere("unary"),
             Goto(pos + 1, <<Level("unary"), [frame |-> "Unary", op |-> op]>>, value)
      PROVE  ParseInv'
  <2>. DEFINE g == [frame |-> "Unary", op |-> op]
  <2>1. g.frame \in Continuations \ {"Lambda", "Fn", "CallItem"} /\ Formed(g)
    BY DEF Continuations, Formed
  <2>. QED
    BY <1>1, <1>5, <2>1, LevelStarts
<1>. QED
  BY <1>4, <1>5 DEF ParseUnary

(* A continuation that reads an operator starts its right side.            *)
LEMMA RightSide ==
  ASSUME Working, Owned(Top) = {}, NEW l, NEW k, NEW g,
         Goto(k, <<Level(l), g>>, Absent),
         g.frame \in Continuations \ {"Lambda", "Fn", "CallItem"}, Formed(g)
  PROVE  ParseInv'
<1>1. Owned(g) = {} /\ Takes(g)
  BY DEF Owned, Takes, Continuations
<1>. QED
  BY <1>1, Children, Descends

LEMMA BinaryTailKeeps == ParseInv /\ BinaryTail => ParseInv'
<1>. SUFFICES ASSUME ParseInv, BinaryTail PROVE ParseInv'
  OBVIOUS
<1>1. Working /\ Top.frame = "BinaryTail" /\ value # Absent
  BY AtWork DEF BinaryTail, Continuations
<1>2. Owned(Top) = {}
  BY <1>1, PlainKinds
<1>3. CASE Goto(pos, <<>>, value)
  BY <1>1, <1>2, <1>3, Yields
<1>4. ASSUME NEW op,
             Goto(pos + 1,
                  <<Level(Operand[Top.level]),
                    [frame |-> "BinaryRhs", level |-> Top.level, lhs |-> value,
                     op |-> op]>>, Absent)
      PROVE  ParseInv'
  <2>. DEFINE g == [frame |-> "BinaryRhs", level |-> Top.level, lhs |-> value,
                    op |-> op]
  <2>1. g.frame \in Continuations \ {"Lambda", "Fn", "CallItem"} /\ Formed(g)
    BY DEF Continuations, Formed
  <2>. QED
    BY <1>1, <1>2, <1>4, <2>1, RightSide
<1>. QED
  BY <1>3, <1>4 DEF BinaryTail

LEMMA BinaryRhsKeeps == ParseInv /\ BinaryRhs => ParseInv'
<1>. SUFFICES ASSUME ParseInv, BinaryRhs PROVE ParseInv'
  OBVIOUS
<1>. DEFINE f == [frame |-> "BinaryTail", level |-> Top.level]
            node == apply_binop(Top.op, Top.lhs, value)
<1>1. Working /\ Top.frame = "BinaryRhs"
  BY AtWork DEF BinaryRhs, Continuations
<1>2. Owned(Top) = {} /\ Owned(f) = {} /\ Formed(f)
  BY <1>1, PlainKinds
<1>3. Takes(f) /\ node # Absent
  BY BinopPresent DEF Takes, Continuations
<1>4. Goto(pos, <<f>>, node)
  BY DEF BinaryRhs
<1>. QED
  BY <1>1, <1>2, <1>3, <1>4, Becomes

LEMMA CompareKeeps == ParseInv /\ Compare => ParseInv'
<1>. SUFFICES ASSUME ParseInv, Compare PROVE ParseInv'
  OBVIOUS
<1>. DEFINE operands == Append(Top.operands, value)
<1>1. Working /\ Top.frame = "Compare" /\ value # Absent
  BY AtWork DEF Compare, Continuations
<1>2. Owned(Top) = {}
  BY <1>1 DEF Owned
<1>3. IsSequence(Top.ops) /\ (Top.ops = <<>> => Top.operands = <<>>)
  BY <1>1, Taken DEF Working, Formed
<1>4. ASSUME NEW op,
             Goto(pos + 1,
                  <<Level("add"),
                    [frame |-> "Compare", operands |-> operands,
                     ops |-> Append(Top.ops, op)]>>, Absent)
      PROVE  ParseInv'
  <2>. DEFINE ops == Append(Top.ops, op)
              g == [frame |-> "Compare", operands |-> operands, ops |-> ops]
  <2>1. IsSequence(ops) /\ ops # <<>>
    <3>1. Top.ops \in Seq(Range(Top.ops) \cup {op})
      BY <1>3, SeqMonotonic DEF IsSequence
    <3>2. ops \in Seq(Range(Top.ops) \cup {op}) /\ ops # <<>>
      BY <3>1
    <3>. QED
      BY <3>2, SequenceMakes
  <2>. HIDE DEF ops, operands
  <2>2. g.frame \in Continuations \ {"Lambda", "Fn", "CallItem"} /\ Formed(g)
    BY <2>1 DEF Continuations, Formed
  <2>3. Goto(pos + 1, <<Level("add"), g>>, Absent)
    BY <1>4 DEF ops, operands
  <2>. HIDE DEF g
  <2>. QED
    BY <1>1, <1>2, <2>2, <2>3, RightSide
<1>5. CASE Goto(pos, <<>>, lower_comparison(operands, Top.ops))
  <2>1. Top.ops = <<>> => operands[1] = value
    BY <1>3
  <2>2. lower_comparison(operands, Top.ops) # Absent
    BY <1>1, <1>3, <2>1, ComparisonPresent
  <2>. QED
    BY <1>1, <1>2, <1>5, <2>2, Yields
<1>. QED
  BY <1>4, <1>5, Fails DEF Compare

LEMMA UnaryKeeps == ParseInv /\ Unary => ParseInv'
<1>. SUFFICES ASSUME ParseInv, Unary PROVE ParseInv'
  OBVIOUS
<1>. DEFINE node == IF Top.op.dotted
                      THEN Call("broadcast", <<Const(Top.op.func), value>>)
                      ELSE Call(Top.op.func, <<value>>)
<1>1. Working /\ Top.frame = "Unary"
  BY AtWork DEF Unary, Continuations
<1>2. Owned(Top) = {} /\ node # Absent
  BY <1>1, PlainKinds, Present
<1>3. Goto(pos, <<>>, node)
  BY DEF Unary
<1>. QED
  BY <1>1, <1>2, <1>3, Yields

LEMMA PowerKeeps == ParseInv /\ Power => ParseInv'
<1>. SUFFICES ASSUME ParseInv, Power PROVE ParseInv'
  OBVIOUS
<1>1. Working /\ Top.frame = "Power" /\ value # Absent
  BY AtWork DEF Power, Continuations
<1>2. Owned(Top) = {}
  BY <1>1, PlainKinds
<1>3. CASE Goto(pos, <<>>, value)
  BY <1>1, <1>2, <1>3, Yields
<1>4. ASSUME NEW op,
             Goto(pos + 1,
                  <<Level("unary"), [frame |-> "PowerRhs", lhs |-> value, op |-> op]>>,
                  Absent)
      PROVE  ParseInv'
  <2>. DEFINE g == [frame |-> "PowerRhs", lhs |-> value, op |-> op]
  <2>1. g.frame \in Continuations \ {"Lambda", "Fn", "CallItem"} /\ Formed(g)
    BY DEF Continuations, Formed
  <2>. QED
    BY <1>1, <1>2, <1>4, <2>1, RightSide
<1>. QED
  BY <1>3, <1>4 DEF Power

LEMMA PowerRhsKeeps == ParseInv /\ PowerRhs => ParseInv'
<1>. SUFFICES ASSUME ParseInv, PowerRhs PROVE ParseInv'
  OBVIOUS
<1>1. Working /\ Top.frame = "PowerRhs"
  BY AtWork DEF PowerRhs, Continuations
<1>2. Owned(Top) = {} /\ apply_binop(Top.op, Top.lhs, value) # Absent
  BY <1>1, PlainKinds, BinopPresent
<1>. QED
  BY <1>1, <1>2, Yields DEF PowerRhs

-----------------------------------------------------------------------------
(* Lists and groups.                                                       *)

LEMMA ListFrames ==
  ASSUME NEW kind, NEW elems
  PROVE  /\ \A name \in {"List", "ListItem"} :
              /\ Owned(ListFrame(name, kind, elems)) = {}
              /\ Formed(ListFrame(name, kind, elems))
         /\ ~Takes(ListFrame("List", kind, elems))
         /\ Takes(ListFrame("ListItem", kind, elems))
BY DEF Owned, Formed, ListFrame, Takes, Continuations

LEMMA ListFinished ==
  ASSUME Working, Owned(Top) = {}, NEW list, NEW k, finish_list(list, k)
  PROVE  ParseInv'
<1>1. CASE Fail
  BY <1>1, Fails
<1>2. CASE Goto(k + 1, <<>>, Call(ListOp[list.kind], list.elems))
  BY <1>2, Present, Yields
<1>. QED
  BY <1>1, <1>2 DEF finish_list

LEMMA GroupKeeps == ParseInv /\ Group => ParseInv'
<1>. SUFFICES ASSUME ParseInv, Group PROVE ParseInv'
  OBVIOUS
<1>1. Working /\ Top.frame = "Group" /\ value # Absent
  BY AtWork DEF Group, Continuations
<1>2. Owned(Top) = {}
  BY <1>1, PlainKinds
<1>3. CASE Goto(pos + 1, <<ListFrame("List", "Tuple", <<value>>)>>, Absent)
  BY <1>1, <1>2, <1>3, ListFrames, Becomes
<1>4. CASE Goto(pos + 1, <<>>, value)
  BY <1>1, <1>2, <1>4, Yields
<1>. QED
  BY <1>3, <1>4, Fails DEF Group

LEMMA ListKeeps == ParseInv /\ List => ParseInv'
<1>. SUFFICES ASSUME ParseInv, List PROVE ParseInv'
  OBVIOUS
<1>0. At("List") /\ "List" \notin Continuations
  BY DEF List, Continuations
<1>1. Working /\ Top.frame = "List" /\ value = Absent
  BY <1>0, AtWork
<1>2. Owned(Top) = {}
  BY <1>1, PlainKinds
<1>3. ASSUME NEW elems, NEW k, Goto(k, <<ListFrame("List", Top.kind, elems)>>, value)
      PROVE  ParseInv'
  BY <1>1, <1>2, <1>3, ListFrames, Becomes
<1>4. ASSUME NEW list, NEW k, finish_list(list, k) PROVE ParseInv'
  BY <1>1, <1>2, <1>4, ListFinished
<1>5. ASSUME Goto(pos, <<Expr, ListFrame("ListItem", Top.kind, Top.elems)>>, value)
      PROVE  ParseInv'
  BY <1>1, <1>2, <1>5, ListFrames, Children, Descends
<1>. QED
  BY <1>3, <1>4, <1>5 DEF List

LEMMA ListItemKeeps == ParseInv /\ ListItem => ParseInv'
<1>. SUFFICES ASSUME ParseInv, ListItem PROVE ParseInv'
  OBVIOUS
<1>. DEFINE list == ListFrame("List", Top.kind, Append(Top.elems, value))
<1>1. Working /\ Top.frame = "ListItem"
  BY AtWork DEF ListItem, Continuations
<1>2. Owned(Top) = {}
  BY <1>1, PlainKinds
<1>3. CASE Goto(pos + 1, <<list>>, Absent)
  BY <1>1, <1>2, <1>3, ListFrames, Becomes
<1>4. CASE finish_list(list, pos)
  BY <1>1, <1>2, <1>4, ListFinished
<1>. QED
  BY <1>3, <1>4 DEF ListItem

-----------------------------------------------------------------------------
(* Calls.                                                                  *)

CallFrame(call) == [frame |-> "Call", call |-> call]

LEMMA CallFrames ==
  ASSUME NEW call, IsCall(call), NEW key
  PROVE  /\ Formed(CallFrame(call)) /\ ~Takes(CallFrame(call))
         /\ Formed(CallItemFrame(call, key)) /\ Takes(CallItemFrame(call, key))
         /\ Owned(CallItemFrame(call, key)) = Owned(CallFrame(call))
         /\ Owned(CallFrame(call)) =
              IF call.reify THEN {Scope("Explicit", <<>>)} ELSE {}
BY DEF Formed, Takes, Continuations, Owned, CallFrame, CallItemFrame

LEMMA MadeCall == \A target, reify : IsCall(CallArgs(target, reify))
BY DEF IsCall, CallArgs

LEMMA ScopesWithoutHoles ==
  /\ \A names : /\ WithoutHoles(Scope("Fn", names)) = Scope("Fn", <<>>)
                /\ WithoutHoles(Scope("Lambda", names)) = Scope("Lambda", names)
  /\ WithoutHoles(Scope("Explicit", <<>>)) = Scope("Explicit", <<>>)
BY DEF WithoutHoles, Scope

(* A call that opens a scope is put on top of frames that wait.            *)
LEMMA CallOpens ==
  ASSUME ParseInv, stage = "parse", UNCHANGED stage,
         NEW w, Waiting(w), Paired(w, scopes), IsSequence(scopes),
         NEW call, IsCall(call), call.reify = TRUE,
         work' = <<CallFrame(call)>> \o w, value' = Absent,
         scopes' = <<Scope("Explicit", <<>>)>> \o scopes
  PROVE  ParseInv'
<1>. DEFINE x == Scope("Explicit", <<>>)
            s == <<x>> \o scopes
            f == CallFrame(call)
<1>1. IsSequence(s) /\ s # <<>> /\ Head(s) = x /\ Tail(s) = scopes
  BY Pushed
<1>2. Owned(f) = {x} /\ WithoutHoles(x) = x /\ Formed(f) /\ ~Takes(f)
  BY CallFrames, ScopesWithoutHoles
<1>3. IsSequence(w)
  BY DEF Waiting
<1>. HIDE DEF x, f
<1>4. Paired(<<f>> \o w, s)
  <2>. HIDE DEF s
  <2>. QED
    BY <1>1, <1>2, <1>3, OwningFrame
<1>5. Stack(<<f>> \o w, Absent, s)
  <2>. HIDE DEF s
  <2>. QED
    BY <1>1, <1>2, <1>4, FrameOnTop
<1>. QED
  BY <1>5, Lands DEF x, f

(* A primary found where one is due: its level is done.                    *)
LEMMA Schedules ==
  ASSUME Working, Owned(Top) = {},
         NEW p, p.is \in {"refused", "ready", "fn", "call"},
         p.is = "ready" => p.node # Absent, schedule_primary(p, <<>>)
  PROVE  ParseInv'
<1>. DEFINE w == Tail(work)
<1>1. Waiting(w) /\ IsSequence(w) /\ IsSequence(scopes) /\ Paired(<<Top>> \o w, scopes)
  BY Taken DEF Working
<1>2. Paired(w, scopes)
  BY <1>1, PlainFrame
<1>3. \A f, g : <<f>> \o <<>> = <<f>> /\ <<f, g>> \o <<>> = <<f, g>>
  <2>. SUFFICES ASSUME NEW f, NEW g
                PROVE  <<f>> \o <<>> = <<f>> /\ <<f, g>> \o <<>> = <<f, g>>
    OBVIOUS
  <2>1. <<f>> \in Seq({f, g}) /\ <<f, g>> \in Seq({f, g})
    OBVIOUS
  <2>. QED
    BY <2>1, ConcatEmptySeq
<1>4. CASE p.is = "refused"
  BY <1>4, Fails DEF schedule_primary
<1>5. CASE p.is = "ready"
  <2>1. Goto(p.next, <<>>, p.node)
    BY <1>5 DEF schedule_primary
  <2>. QED
    BY <1>5, <2>1, Yields
<1>6. CASE p.is = "fn"
  <2>. DEFINE g == [frame |-> "Fn"]
              x == Scope("Fn", <<>>)
  <2>1. Go(p.next, <<Expr, g>>, Absent) /\ scopes' = <<x>> \o scopes
    BY <1>3, <1>6 DEF schedule_primary
  <2>2. Owned(g) = {WithoutHoles(x)} /\ Formed(g) /\ Takes(g)
    BY ScopesWithoutHoles DEF Owned, Formed, Takes, Continuations
  <2>. HIDE DEF g, x
  <2>. QED
    BY <2>1, <2>2, Children, Opens
<1>7. CASE p.is = "call"
  <2>. DEFINE call == CallArgs(p.target, IsReify(p.target))
              f == CallFrame(call)
  <2>1. /\ Go(p.next, <<f>>, Absent)
        /\ scopes' = IF IsReify(p.target)
                       THEN <<Scope("Explicit", <<>>)>> \o scopes ELSE scopes
    BY <1>3, <1>7 DEF schedule_primary, CallFrame
  <2>2. IsCall(call) /\ call.reify = IsReify(p.target)
    BY MadeCall DEF CallArgs
  <2>. HIDE DEF call
  <2>3. CASE IsReify(p.target)
    <3>1. /\ work' = <<f>> \o w /\ value' = Absent /\ UNCHANGED stage
          /\ scopes' = <<Scope("Explicit", <<>>)>> \o scopes
      BY <2>1, <2>3 DEF Go
    <3>2. call.reify = TRUE
      BY <2>2, <2>3
    <3>. QED
      BY <1>1, <1>2, <2>2, <3>1, <3>2, CallOpens DEF Working
  <2>4. CASE ~IsReify(p.target)
    <3>1. Goto(p.next, <<f>>, Absent)
      BY <2>1, <2>4 DEF Goto
    <3>2. Owned(f) = {} /\ Formed(f) /\ ~Takes(f)
      BY <2>2, <2>4, CallFrames
    <3>. QED
      BY <3>1, <3>2, Becomes
  <2>. QED
    BY <2>3, <2>4
<1>. QED
  BY <1>4, <1>5, <1>6, <1>7

(* A primary found behind another: its frame waits for what follows.       *)
LEMMA SchedulesAgain ==
  ASSUME Working, Owned(Top) = {}, Takes(Top),
         NEW p, p.is \in {"ready", "call"},
         p.is = "ready" => p.node # Absent, schedule_primary(p, <<Top>>)
  PROVE  ParseInv'
<1>. DEFINE w == Tail(work)
            u == <<Top>> \o w
<1>1. /\ Waiting(w) /\ IsSequence(w) /\ IsSequence(scopes) /\ Paired(u, scopes)
      /\ Formed(Top)
  BY Taken DEF Working
<1>2. Waiting(u)
  BY <1>1, WaitingPushed
<1>3. CASE p.is = "ready"
  <2>1. Goto(p.next, <<Top>>, p.node)
    BY <1>3 DEF schedule_primary
  <2>. QED
    BY <1>1, <1>3, <2>1, Becomes
<1>4. CASE p.is = "call"
  <2>. DEFINE call == CallArgs(p.target, IsReify(p.target))
              f == CallFrame(call)
  <2>1. <<f>> \o <<Top>> = <<f, Top>>
    BY Couple
  <2>2. /\ Go(p.next, <<f, Top>>, Absent)
        /\ scopes' = IF IsReify(p.target)
                       THEN <<Scope("Explicit", <<>>)>> \o scopes ELSE scopes
    BY <2>1, <1>4 DEF schedule_primary, CallFrame
  <2>3. IsCall(call) /\ call.reify = IsReify(p.target)
    BY MadeCall DEF CallArgs
  <2>. HIDE DEF call
  <2>4. CASE IsReify(p.target)
    <3>1. /\ work' = <<f>> \o u /\ value' = Absent /\ UNCHANGED stage
          /\ scopes' = <<Scope("Explicit", <<>>)>> \o scopes
      BY <1>1, <2>2, <2>4, Prepended DEF Go
    <3>2. call.reify = TRUE
      BY <2>3, <2>4
    <3>. HIDE DEF u
    <3>. QED
      BY <1>1, <1>2, <2>3, <3>1, <3>2, CallOpens DEF Working
  <2>5. CASE ~IsReify(p.target)
    <3>1. Goto(p.next, <<f, Top>>, Absent)
      BY <2>2, <2>5 DEF Goto
    <3>2. Owned(f) = {} /\ Formed(f) /\ ~Takes(f)
      BY <2>3, <2>5, CallFrames
    <3>. QED
      BY <1>1, <3>1, <3>2, Descends
  <2>. QED
    BY <2>4, <2>5
<1>. QED
  BY <1>3, <1>4

LEMMA ReadyFacts ==
  /\ \A node, k : Ready(node, k).is = "ready" /\ Ready(node, k).node = node
  /\ \A target, k : Calling(target, k).is = "call"
  /\ \A k : OpenFn(k).is = "fn"
  /\ Refused.is = "refused"
BY DEF Ready, Calling, OpenFn, Refused

(* What is read is refused, a call or a node.                              *)
Read(p) == p.is \in {"refused", "ready", "fn", "call"} /\ (p.is = "ready" => p.node # Absent)
ReadBehind(p) == p.is \in {"ready", "call"} /\ (p.is = "ready" => p.node # Absent)

LEMMA RefOrCallReads ==
  ASSUME NEW ref, ref # Absent, NEW k
  PROVE  ReadBehind(RefOrCall(ref, k))
BY ReadyFacts DEF RefOrCall, ReadBehind

LEMMA MemberReads ==
  ASSUME NEW e, NEW n, NEW k, NEW space \in {"base", "self", "module"}
  PROVE  ReadBehind(lower_member(space, e, n, k))
<1>1. CASE space = "base"
  BY <1>1, ReadyFacts, Present DEF lower_member, ReadBehind
<1>2. CASE space = "self"
  <2>1. lower_member(space, e, n, k) = RefOrCall(SelfRef(n), k)
    BY <1>2 DEF lower_member
  <2>. QED
    BY <2>1, RefOrCallReads, Present
<1>3. CASE space = "module"
  <2>1. lower_member(space, e, n, k) = RefOrCall(MemberRef(e.name, n), k)
    BY <1>3 DEF lower_member
  <2>. QED
    BY <2>1, RefOrCallReads, Present
<1>. QED
  BY <1>1, <1>2, <1>3

LEMMA NameReads == \A n, k : Read(parse_name_tail(n, k))
<1>. SUFFICES ASSUME NEW n, NEW k PROVE Read(parse_name_tail(n, k))
  OBVIOUS
<1>. DEFINE p == parse_name_tail(n, k)
<1>1. \/ p = Ready(Bool(n), k) \/ p = RefOrCall(LocalRef(Placeholder(n)), k)
      \/ p = Refused \/ p = OpenFn(k) \/ p = Calling(Target("name", n, Absent), k)
      \/ p = Calling(Target("name", n, Absent), k + 1)
      \/ p = OpenFn(k + 1) \/ p = Ready(LocalRef(n), k)
      \/ p = Ready(SelfRef(n), k) \/ p = Ready(Const(n), k)
  BY DEF parse_name_tail
<1>. HIDE DEF p
<1>2. Read(RefOrCall(LocalRef(Placeholder(n)), k))
  BY RefOrCallReads, Present DEF Read, ReadBehind
<1>3. \A x \in {Bool(n), LocalRef(n), SelfRef(n), Const(n)} : Read(Ready(x, k))
  BY ReadyFacts, Present DEF Read
<1>4. /\ Read(Refused) /\ Read(OpenFn(k)) /\ Read(OpenFn(k + 1))
      /\ \A target, j : Read(Calling(target, j))
  BY ReadyFacts DEF Read
<1>. QED
  BY <1>1, <1>2, <1>3, <1>4 DEF p

LEMMA AxisReads == Read(parse_axis_node)
<1>. DEFINE p == parse_axis_node
<1>1. p = Refused \/ \E n, variance, k : p = Ready(Axis(n, variance), k)
  BY DEF parse_axis_node
<1>. HIDE DEF p
<1>2. \A n, variance, k : Read(Ready(Axis(n, variance), k))
  BY ReadyFacts, Present DEF Read
<1>3. Read(Refused)
  BY ReadyFacts DEF Read
<1>4. Read(p)
  BY <1>1, <1>2, <1>3
<1>. QED
  BY <1>4 DEF p

LEMMA PrimaryReads == Read(parse_primary)
<1>. DEFINE p == parse_primary
            v == Tok(pos).v
<1>1. \/ p = Ready(Num(v), pos + 1) \/ p = Ready(Leaf("lit", v, "real"), pos + 1)
      \/ p = Ready(Str(v), pos + 1) \/ p = parse_name_tail(v, pos + 1)
      \/ p = parse_axis_node \/ p = Refused
  BY DEF parse_primary
<1>2. \A x \in {Num(v), Leaf("lit", v, "real"), Str(v)} : Read(Ready(x, pos + 1))
  BY ReadyFacts, Present DEF Read
<1>3. Read(Refused)
  BY ReadyFacts DEF Read
<1>. HIDE DEF p, v
<1>4. Read(p)
  BY <1>1, <1>2, <1>3, NameReads, AxisReads
<1>. QED
  BY <1>4 DEF p

LEMMA PostfixKeeps == ParseInv /\ Postfix => ParseInv'
<1>. SUFFICES ASSUME ParseInv, Postfix PROVE ParseInv'
  OBVIOUS
<1>0. At("Postfix") /\ "Postfix" \in Continuations
  BY DEF Postfix, Continuations
<1>1. Working /\ Top.frame = "Postfix" /\ value # Absent
  BY <1>0, AtWork
<1>2. Owned(Top) = {} /\ Takes(Top) /\ Formed(Top)
  BY <1>0, <1>1, PlainKinds DEF Takes
<1>3. ASSUME NEW k, NEW node, node # Absent, Goto(k, <<Top>>, node) PROVE ParseInv'
  BY <1>1, <1>2, <1>3, Becomes
<1>4. ASSUME NEW p, ReadBehind(p), schedule_primary(p, <<Top>>) PROVE ParseInv'
  BY <1>1, <1>2, <1>4, SchedulesAgain DEF ReadBehind
<1>5. \A target, k : ReadBehind(Calling(target, k))
  BY ReadyFacts DEF ReadBehind
<1>6. ASSUME Goto(pos + 1, <<ListFrame("List", "Index", <<value>>)>> \o <<Top>>, Absent)
      PROVE  ParseInv'
  <2>. DEFINE f == ListFrame("List", "Index", <<value>>)
  <2>1. <<f>> \o <<Top>> = <<f, Top>>
    BY Couple
  <2>. HIDE DEF f
  <2>2. Goto(pos + 1, <<f, Top>>, Absent)
    BY <2>1, <1>6 DEF f
  <2>3. Owned(f) = {} /\ Formed(f) /\ ~Takes(f)
    BY ListFrames DEF f
  <2>. QED
    BY <1>1, <1>2, <2>2, <2>3, Descends
<1>7. CASE Goto(pos, <<>>, value)
  BY <1>1, <1>2, <1>7, Yields
<1>8. CASE Is(pos, ".")
  <2>1. CASE Fail
    BY <2>1, Fails
  <2>2. CASE Goto(pos + 2, <<Top>>, Call("get", <<value, Str(Tok(pos + 1).v)>>))
    BY <2>2, <1>3, Present
  <2>3. ASSUME member_namespace(value) # "none",
               schedule_primary(lower_member(member_namespace(value), value,
                                             Tok(pos + 1).v, pos + 2), <<Top>>)
        PROVE  ParseInv'
    <3>1. member_namespace(value) \in {"base", "self", "module"}
      BY <2>3 DEF member_namespace, Spaces
    <3>. QED
      BY <2>3, <3>1, <1>4, MemberReads
  <2>. QED
    BY <1>8, <2>1, <2>2, <2>3 DEF Postfix
<1>9. CASE ~Is(pos, ".")
  BY <1>9, <1>4, <1>5, <1>6, <1>7 DEF Postfix
<1>. QED
  BY <1>8, <1>9

LEMMA ExprKeeps == ParseInv /\ ParseExpr => ParseInv'
<1>. SUFFICES ASSUME ParseInv, ParseExpr PROVE ParseInv'
  OBVIOUS
<1>0. At("Expr") /\ "Expr" \notin Continuations
  BY DEF ParseExpr, Continuations
<1>1. Working /\ Top.frame = "Expr" /\ value = Absent
  BY <1>0, AtWork
<1>2. Owned(Top) = {}
  BY <1>1, PlainKinds
<1>3. CASE Goto(pos, <<Level("or")>>, value)
  BY <1>1, <1>2, <1>3, Children, Becomes
<1>4. ASSUME NEW k, NEW names,
             Go(k, <<Expr, [frame |-> "Lambda", names |-> names]>>, value),
             scopes' = <<Scope("Lambda", names)>> \o scopes
      PROVE  ParseInv'
  <2>. DEFINE g == [frame |-> "Lambda", names |-> names]
              x == Scope("Lambda", names)
  <2>1. Owned(g) = {WithoutHoles(x)} /\ Formed(g) /\ Takes(g)
    BY ScopesWithoutHoles DEF Owned, Formed, Takes, Continuations
  <2>. HIDE DEF g, x
  <2>. QED
    BY <1>1, <1>2, <1>4, <2>1, Children, Opens DEF g, x
<1>. QED
  BY <1>3, <1>4, Fails DEF ParseExpr

LEMMA PrimaryKeeps == ParseInv /\ ParsePrimary => ParseInv'
<1>. SUFFICES ASSUME ParseInv, ParsePrimary PROVE ParseInv'
  OBVIOUS
<1>0. At("Level") /\ "Level" \notin Continuations
  BY DEF ParsePrimary, AtLevel, Continuations
<1>1. Working /\ Top.frame = "Level" /\ value = Absent
  BY <1>0, AtWork
<1>2. Owned(Top) = {}
  BY <1>1, PlainKinds
<1>3. ASSUME NEW p, Read(p), schedule_primary(p, <<>>) PROVE ParseInv'
  BY <1>1, <1>2, <1>3, Schedules DEF Read
<1>4. Read(Calling(Target("record", "record", Absent), pos + 1)) /\ Read(parse_primary)
  BY ReadyFacts, PrimaryReads DEF Read
<1>5. ASSUME Goto(pos + 1, <<Expr, [frame |-> "Group"]>>, value) PROVE ParseInv'
  <2>. DEFINE g == [frame |-> "Group"]
  <2>1. Owned(g) = {} /\ Formed(g) /\ Takes(g)
    BY DEF Owned, Formed, Takes, Continuations
  <2>. HIDE DEF g
  <2>. QED
    BY <1>1, <1>2, <1>5, <2>1, Children, Descends DEF g
<1>6. ASSUME Goto(pos + 1, <<ListFrame("List", "Array", <<>>)>>, value) PROVE ParseInv'
  BY <1>1, <1>2, <1>6, ListFrames, Becomes
<1>7. ASSUME NEW arg, NEW node, scopes # <<>>, Head(scopes).kind = "Fn",
             node # Absent, Go(pos + 1, <<>>, node),
             scopes' = <<Scope("Fn", Append(Head(scopes).names, arg))>> \o Tail(scopes)
      PROVE  ParseInv'
  <2>. DEFINE w == Tail(work)
              x == Scope("Fn", Append(Head(scopes).names, arg))
              s == <<x>> \o Tail(scopes)
  <2>1. Waiting(w) /\ IsSequence(w) /\ IsSequence(scopes) /\ Paired(<<Top>> \o w, scopes)
    BY <1>1, Taken DEF Working
  <2>2. Paired(w, scopes)
    BY <1>2, <2>1, PlainFrame
  <2>3. IsSequence(Tail(scopes))
    BY <1>7, <2>1, Popped
  <2>4. WithoutHoles(x) = WithoutHoles(Head(scopes))
    BY <1>7, ScopesWithoutHoles DEF WithoutHoles
  <2>. HIDE DEF x
  <2>5. IsSequence(s) /\ s # <<>> /\ Head(s) = x /\ Tail(s) = Tail(scopes)
    BY <2>3, Pushed
  <2>6. Paired(w, s)
    <3>1. /\ IsSequence(s) /\ Len(s) = Len(scopes)
          /\ \A i \in 1..Len(s) : WithoutHoles(s[i]) = WithoutHoles(scopes[i])
      <4>1. /\ Len(scopes) = Len(Tail(scopes)) + 1 /\ Head(scopes) = scopes[1]
            /\ \A i \in 1..Len(Tail(scopes)) : Tail(scopes)[i] = scopes[i + 1]
        BY <1>7, <2>1, Popped
      <4>2. /\ Len(s) = Len(Tail(scopes)) + 1 /\ s[1] = x
            /\ \A i \in 1..Len(Tail(scopes)) : s[i + 1] = Tail(scopes)[i]
        BY <2>3, Pushed
      <4>3. \A j \in 1..Len(scopes) :
              j = 1 \/ (j - 1 \in 1..Len(Tail(scopes)) /\ (j - 1) + 1 = j)
        BY <2>3, <4>1, SequenceFacts
      <4>. HIDE DEF s
      <4>4. ASSUME NEW j \in 1..Len(s) PROVE WithoutHoles(s[j]) = WithoutHoles(scopes[j])
        <5>1. CASE j = 1
          BY <5>1, <2>4, <4>1, <4>2
        <5>2. CASE j # 1
          <6>1. s[j] = Tail(scopes)[j - 1] /\ scopes[j] = Tail(scopes)[j - 1]
            BY <5>2, <4>1, <4>2, <4>3
          <6>. QED
            BY <6>1
        <5>. QED
          BY <5>1, <5>2
      <4>. QED
        BY <2>5, <4>1, <4>2, <4>4
    <3>2. DOMAIN s = 1..Len(s) /\ DOMAIN scopes = 1..Len(s)
      BY <2>1, <3>1, SequenceFacts
    <3>. HIDE DEF s, w
    <3>. QED
      BY <2>2, <3>1, <3>2 DEF Paired
  <2>7. work' = w /\ value' = node /\ scopes' = s /\ UNCHANGED stage
    BY <1>7, <2>1, Prepended DEF Go, x
  <2>. HIDE DEF s
  <2>8. Stack(w, node, s)
    BY <1>7, <2>1, <2>5, <2>6, NodeReturned
  <2>. QED
    BY <1>1, <2>7, <2>8, Lands DEF Working
<1>8. CASE Tok(pos) = N("_") /\ ~Is(pos, "(") /\ ~Is(pos, "[")
  BY <1>7, <1>8, Present, Fails DEF ParsePrimary
<1>9. CASE ~(Tok(pos) = N("_") /\ ~Is(pos, "(") /\ ~Is(pos, "["))
  BY <1>9, <1>3, <1>4, <1>5, <1>6 DEF ParsePrimary
<1>. QED
  BY <1>8, <1>9

LEMMA ArgumentKeeps == ParseInv /\ ParseArgument => ParseInv'
<1>. SUFFICES ASSUME ParseInv, ParseArgument PROVE ParseInv'
  OBVIOUS
<1>0. At("Call") /\ "Call" \notin Continuations
  BY DEF ParseArgument, Continuations
<1>1. Working /\ Top.frame = "Call" /\ value = Absent
  BY <1>0, AtWork
<1>2. IsCall(Top.call)
  BY <1>1, Taken DEF Working, Formed
<1>3. Owned(Top) = Owned(CallFrame(Top.call))
  BY <1>1 DEF Owned, CallFrame
<1>4. ASSUME NEW c, IsCall(c), c.reify = Top.call.reify, NEW key, NEW k,
             Goto(k, <<Expr, CallItemFrame(c, key)>>, value)
      PROVE  ParseInv'
  <2>. DEFINE g == CallItemFrame(c, key)
  <2>1. Owned(g) = Owned(Top) /\ Formed(g) /\ Takes(g)
    BY <1>2, <1>3, <1>4, CallFrames
  <2>. HIDE DEF g
  <2>. QED
    BY <1>1, <1>4, <2>1, Children, Descends DEF g
<1>5. \A form : \A c \in boundary_form(Top.call, form) :
        IsCall(c) /\ c.reify = Top.call.reify
  BY <1>2 DEF boundary_form, IsCall
<1>. DEFINE Continues(c, key, k) == Goto(k, <<Expr, CallItemFrame(c, key)>>, value)
            entry == Top.call.reify /\ Top.call.positional # <<>>
            named == IF entry THEN boundary_form(Top.call, "keyed") ELSE {Top.call}
            name == bare_boundary_name(Tok(pos).v)
<1>6. \A c \in named : IsCall(c) /\ c.reify = Top.call.reify
  BY <1>2, <1>5
<1>7. \/ Fail
      \/ \E c \in named : Continues(c, Tok(pos).v, pos + 2)
      \/ \E c \in boundary_form(Top.call, "bare") : Continues(c, name, pos)
      \/ Continues(Top.call, "", pos)
  <2>. HIDE DEF Continues, name
  <2>. QED
    BY Zenon DEF ParseArgument, Continues, name
<1>8. ASSUME NEW c, IsCall(c), c.reify = Top.call.reify, NEW key, NEW k,
             Continues(c, key, k)
      PROVE  ParseInv'
  BY <1>4, <1>8
<1>. HIDE DEF Continues, named, name
<1>. QED
  BY <1>2, <1>5, <1>6, <1>7, <1>8, Fails

LEMMA CallFinished ==
  ASSUME Working, NEW call, NEW k, finish_call(call, k), IsCall(call),
         Owned(Top) = Owned(CallFrame(call))
  PROVE  ParseInv'
<1>. DEFINE node == MakeCall(call)
<1>1. CASE Fail
  BY <1>1, Fails
<1>2. ASSUME Go(k + 1, <<>>, node), node # Absent,
             scopes' = IF call.reify THEN Tail(scopes) ELSE scopes
      PROVE  ParseInv'
  <2>. HIDE DEF node
  <2>1. CASE call.reify
    <3>1. Owned(Top) # {}
      BY <2>1, CallFrames
    <3>. QED
      BY <1>2, <2>1, <3>1, Closes
  <2>2. CASE ~call.reify
    <3>1. Owned(Top) = {}
      BY <2>2, CallFrames
    <3>2. Goto(k + 1, <<>>, node)
      BY <1>2, <2>2 DEF Goto
    <3>. QED
      BY <1>2, <3>1, <3>2, Yields
  <2>. QED
    BY <2>1, <2>2
<1>. QED
  BY <1>1, <1>2 DEF finish_call

LEMMA FinishCallKeeps == ParseInv /\ FinishCall => ParseInv'
<1>. SUFFICES ASSUME ParseInv, FinishCall PROVE ParseInv'
  OBVIOUS
<1>1. Working /\ Top.frame = "Call" /\ finish_call(Top.call, pos)
  BY AtWork DEF FinishCall
<1>2. IsCall(Top.call)
  BY <1>1, Taken DEF Working, Formed
<1>3. Owned(Top) = Owned(CallFrame(Top.call))
  BY <1>1 DEF Owned, CallFrame
<1>. QED
  BY <1>1, <1>2, <1>3, CallFinished

LEMMA CallItemKeeps == ParseInv /\ CallItem => ParseInv'
<1>. SUFFICES ASSUME ParseInv, CallItem PROVE ParseInv'
  OBVIOUS
<1>. DEFINE call == IF Top.key = ""
                      THEN [Top.call EXCEPT !.positional = Append(@, value)]
                      ELSE [Top.call EXCEPT !.named = Append(@, value),
                                            !.keys = Append(@, Top.key)]
<1>1. Working /\ Top.frame = "CallItem"
  BY AtWork DEF CallItem
<1>2. IsCall(Top.call)
  BY <1>1, Taken DEF Working, Formed
<1>3. IsCall(call) /\ call.reify = Top.call.reify
  <2>1. \A x : /\ IsCall([Top.call EXCEPT !.positional = x])
               /\ [Top.call EXCEPT !.positional = x].reify = Top.call.reify
    BY <1>2 DEF IsCall
  <2>2. \A x : /\ IsCall([Top.call EXCEPT !.named = x])
               /\ [Top.call EXCEPT !.named = x].reify = Top.call.reify
    BY <1>2 DEF IsCall
  <2>3. \A c, y : IsCall(c) => /\ IsCall([c EXCEPT !.keys = y])
                              /\ [c EXCEPT !.keys = y].reify = c.reify
    BY DEF IsCall
  <2>4. CASE Top.key = ""
    BY <2>1, <2>4
  <2>5. CASE Top.key # ""
    <3>1. PICK c : c = [Top.call EXCEPT !.named = Append(@, value)]
      OBVIOUS
    <3>2. IsCall(c) /\ c.reify = Top.call.reify
      BY <3>1, <2>2
    <3>3. call = [c EXCEPT !.keys = Append(Top.call.keys, Top.key)]
      BY <2>5, <3>1
    <3>. HIDE DEF call
    <3>. QED
      BY <2>3, <3>2, <3>3
  <2>. QED
    BY <2>4, <2>5
<1>4. Owned(Top) = IF Top.call.reify THEN {Scope("Explicit", <<>>)} ELSE {}
  BY <1>1 DEF Owned
<1>5. \/ Goto(pos + 1, <<CallFrame(call)>>, Absent)
      \/ finish_call(call, pos)
  BY DEF CallItem, CallFrame
<1>. HIDE DEF call
<1>6. Owned(CallFrame(call)) = Owned(Top) /\ Formed(CallFrame(call))
      /\ ~Takes(CallFrame(call))
  BY <1>3, <1>4, CallFrames
<1>7. CASE Goto(pos + 1, <<CallFrame(call)>>, Absent)
  BY <1>1, <1>6, <1>7, Becomes
<1>8. CASE finish_call(call, pos)
  BY <1>1, <1>3, <1>6, <1>8, CallFinished
<1>. QED
  BY <1>5, <1>7, <1>8

LEMMA LambdaKeeps == ParseInv /\ Lambda => ParseInv'
<1>. SUFFICES ASSUME ParseInv, Lambda PROVE ParseInv'
  OBVIOUS
<1>1. Working /\ Top.frame = "Lambda"
  BY AtWork DEF Lambda
<1>2. Owned(Top) # {}
  BY <1>1 DEF Owned
<1>3. Closure(Top.names, value) # Absent
  BY Present DEF Closure
<1>. QED
  BY <1>1, <1>2, <1>3, Closes DEF Lambda

LEMMA FnKeeps == ParseInv /\ Fn => ParseInv'
<1>. SUFFICES ASSUME ParseInv, Fn PROVE ParseInv'
  OBVIOUS
<1>1. Working /\ Top.frame = "Fn"
  BY AtWork DEF Fn
<1>2. Owned(Top) # {}
  BY <1>1 DEF Owned
<1>3. Closure(Head(scopes).names, value) # Absent
  BY Present DEF Closure
<1>. QED
  BY <1>1, <1>2, <1>3, Closes, Fails DEF Fn

-----------------------------------------------------------------------------
(* The round.                                                              *)

LEMMA ReturnKeeps == ParseInv /\ Return => ParseInv'
<1>. SUFFICES ASSUME ParseInv, Return PROVE ParseInv'
  OBVIOUS
<1>1. stage = "parse" /\ work = <<>>
  BY DEF Return
<1>2. IsSequence(scopes) /\ Paired(<<>>, scopes)
  BY <1>1 DEF ParseInv, Stack
<1>3. scopes = <<>>
  BY <1>2, NoFrames
<1>. QED
  BY <1>3, Fails DEF Return, ParseInv

LEMMA StartsToParse ==
  ASSUME NEW s, s = <<>>
  PROVE  Stack(<<Expr>>, Absent, s)
<1>1. Waiting(<<>>)
  BY EmptySequence DEF Waiting
<1>2. <<Expr>> \o <<>> = <<Expr>>
  <2>1. <<Expr>> \in Seq({Expr})
    OBVIOUS
  <2>. QED
    BY <2>1, ConcatEmptySeq
<1>3. Paired(<<>>, s) /\ IsSequence(s)
  BY NoFrames, EmptySequence
<1>4. Paired(<<Expr>> \o <<>>, s)
  BY <1>3, EmptySequence, Children, PlainFrame
<1>5. Stack(<<Expr>> \o <<>>, Absent, s)
  BY <1>1, <1>3, <1>4, Children, FrameOnTop
<1>. QED
  BY <1>2, <1>5

LEMMA PrintKeeps == ParseInv /\ PrintTree => ParseInv'
<1>. SUFFICES ASSUME ParseInv, PrintTree PROVE ParseInv'
  OBVIOUS
<1>1. /\ scopes' = <<>> /\ value' = Absent
      /\ stage' = "parse" /\ work' = <<Expr>>
  BY DEF ParseInv, PrintTree
<1>2. Stack(<<Expr>>, Absent, scopes')
  BY <1>1, StartsToParse
<1>. QED
  BY <1>1, <1>2 DEF ParseInv

LEMMA ParseInvInitial == Init => ParseInv
<1>. SUFFICES ASSUME Init PROVE ParseInv
  OBVIOUS
<1>1. Stack(<<Expr>>, Absent, scopes)
  BY StartsToParse DEF Init
<1>. QED
  BY <1>1 DEF Init, ParseInv

LEMMA ParseInvInductive == ParseInv /\ [Next]_vars => ParseInv'
<1>. SUFFICES ASSUME ParseInv, [Next]_vars PROVE ParseInv'
  OBVIOUS
<1>1. CASE ParseExpr \/ ParseBinary \/ ParseComparison \/ ParseUnary
  BY <1>1, ExprKeeps, BinaryKeeps, ComparisonKeeps, UnaryStarts
<1>2. CASE ParsePower \/ ParsePostfix \/ ParsePrimary
  BY <1>2, PowerStarts, PostfixStarts, PrimaryKeeps
<1>3. CASE BinaryTail \/ BinaryRhs \/ Compare \/ Unary
  BY <1>3, BinaryTailKeeps, BinaryRhsKeeps, CompareKeeps, UnaryKeeps
<1>4. CASE Power \/ PowerRhs \/ Postfix \/ Group
  BY <1>4, PowerKeeps, PowerRhsKeeps, PostfixKeeps, GroupKeeps
<1>5. CASE List \/ ListItem \/ ParseArgument \/ FinishCall
  BY <1>5, ListKeeps, ListItemKeeps, ArgumentKeeps, FinishCallKeeps
<1>6. CASE CallItem \/ Lambda \/ Fn
  BY <1>6, CallItemKeeps, LambdaKeeps, FnKeeps
<1>7. CASE Return \/ PrintTree
  BY <1>7, ReturnKeeps, PrintKeeps
<1>8. CASE Finished \/ UNCHANGED vars
  BY <1>8 DEF Finished, vars, ParseInv
<1>. QED
  BY <1>1, <1>2, <1>3, <1>4, <1>5, <1>6, <1>7, <1>8 DEF Next, Parse

(* Each child leaves exactly one node, and exactly where a frame waits for *)
(* it, and the open scopes are those of the frames that will close them,   *)
(* in every nesting of every text (`parse_expr`, `reify_frames`).          *)
THEOREM FramesStayInStep == Spec => []FramesAgree
<1>1. ParseInv => FramesAgree
  <2>. SUFFICES ASSUME ParseInv, stage = "parse"
                PROVE  /\ (value # Absent) = (work = <<>> \/ Top.frame \in Continuations)
                       /\ Paired(work, scopes)
    BY DEF FramesAgree
  <2>. QED
    BY DEF ParseInv, Stack, Top, Takes
<1>. QED
  BY <1>1, ParseInvInitial, ParseInvInductive, PTL DEF Spec
=============================================================================
