--------------------------- MODULE HostContextProofs ---------------------------
(***************************************************************************)
(* Theorems about HostContext, for every set of directories, names, texts, *)
(* archives and links, and for every bound.                                *)
(***************************************************************************)
EXTENDS HostContext, FiniteSetTheorems, SequenceTheorems,
        WellFoundedInduction, TLAPS

(* A set of numbers has a least one: what the choice of a free number   *)
(* rests on.                                                               *)
LEMMA LeastNumber ==
  ASSUME NEW T \in SUBSET Nat, T # {}
  PROVE  \E m \in T : \A k \in T : m <= k
<1>. DEFINE R == {ss \in Nat \X Nat : ss[1] < ss[2]}
<1>1. IsWellFoundedOn(R, Nat)
  BY NatLessThanWellFounded DEF OpToRel
<1>2. \A x, y \in Nat : x < y => <<x, y>> \in R
  OBVIOUS
<1>. HIDE DEF R
<1>3. PICK m \in T : \A k \in T : ~ (<<k, m>> \in R)
  BY <1>1, WFMin
<1>4. \A k \in T : ~ (k < m)
  BY <1>2, <1>3
<1>. QED
  BY <1>4

-----------------------------------------------------------------------------
(* What the ways of obtaining a module come to: an error, a definition that *)
(* is there handed on, or one begun.                                       *)

Settled == UNCHANGED <<registry, print, nextInline, modules>>

Failing == frames' = <<>> /\ call' = Idle("error") /\ files' = files

Known(keys, d) ==
  /\ DOMAIN files' = DOMAIN files \cup keys
  /\ \A k \in DOMAIN files' : files'[k] = IF k \in keys THEN d ELSE files[k]

Delivering(d, keys) == Deliver(frames, d) /\ Known(keys, d)

Starting(id, keys, text, origin) ==
  /\ ~InProgress(id)
  /\ frames' = Append(frames, Frame(id, keys, text, origin))
  /\ call' = call /\ files' = files

LEMMA ExtendKnows ==
  ASSUME NEW keys, NEW d, files' = Extend(files, keys, d)
  PROVE  Known(keys, d)
BY DEF Extend, Known

LEMMA SameKnows == ASSUME NEW d, files' = files PROVE Known({}, d)
BY DEF Known

LEMMA DefineOutcomes ==
  ASSUME NEW id, NEW keys, NEW text, NEW origin, Define(id, keys, text, origin)
  PROVE  Settled /\ (Failing \/ Starting(id, keys, text, origin))
BY DEF Define, Fail, Settled, Failing, Starting

LEMMA MemberOutcomes ==
  ASSUME NEW zip, NEW content, NEW name, NEW keys,
         ObtainMember(zip, content, name, keys)
  PROVE  LET key == MemberKey(zip, name) IN
         /\ Settled /\ UNCHANGED sources
         /\ \/ Failing
            \/ key \in DOMAIN files /\ Delivering(files[key], keys)
            \/ /\ key \notin DOMAIN files /\ name \in DOMAIN content.members
               /\ Starting(key, {key} \cup keys, content.members[name],
                           ArchiveOrigin(zip, content, name))
<1>. DEFINE key == MemberKey(zip, name)
<1>1. UNCHANGED sources
  BY DEF ObtainMember
<1>2. CASE key \in DOMAIN files
  BY <1>1, <1>2, ExtendKnows DEF ObtainMember, Settled, Delivering
<1>3. CASE key \notin DOMAIN files /\ name \notin DOMAIN content.members
  BY <1>1, <1>3 DEF ObtainMember, Fail, Settled, Failing
<1>4. CASE key \notin DOMAIN files /\ name \in DOMAIN content.members
  <2>1. Define(key, {key} \cup keys, content.members[name],
               ArchiveOrigin(zip, content, name))
    BY <1>4 DEF ObtainMember
  <2>. QED
    BY <1>1, <1>4, <2>1, DefineOutcomes
<1>. QED
  BY <1>2, <1>3, <1>4

(* The bundle and the real path that a location is looked up in.           *)
RootOf(at, from) == IF at.name = Whole THEN at.dir ELSE from
PathOf(at) == Real[[at EXCEPT !.name = IF at.name = Whole THEN Main ELSE @]]
Allowed(at, from) ==
  /\ disk[PathOf(at)] # None
  /\ at.name = Whole => InBundle(at, from)
  /\ InBundle(PathOf(at), RootOf(at, from))
Reading(path) == sources' = Extend(sources, {path}, ReadText(path))

LEMMA FileOutcomes ==
  ASSUME NEW at, NEW from, ObtainFile(at, from)
  PROVE  LET request == FileKey(at, from)
             path == PathOf(at)
             root == RootOf(at, from)
             key == FileKey(path, root)
             member == MemberKey([file |-> path], Main)
         IN
         /\ Settled
         /\ \/ Failing /\ UNCHANGED sources
            \/ /\ request \in DOMAIN files /\ UNCHANGED sources
               /\ Delivering(files[request], {})
            \/ /\ Allowed(at, from) /\ UNCHANGED sources
               /\ key \in DOMAIN files /\ Delivering(files[key], {request})
            \/ /\ Allowed(at, from) /\ UNCHANGED sources
               /\ path.name \in Zips /\ key \notin DOMAIN files
               /\ \/ Failing
                  \/ /\ member \in DOMAIN files
                     /\ Delivering(files[member], {key, request})
                  \/ /\ member \notin DOMAIN files /\ Main \in DOMAIN disk[path].members
                     /\ Starting(member, {member} \cup {key, request},
                                 disk[path].members[Main],
                                 ArchiveOrigin([file |-> path], disk[path], Main))
            \/ /\ Allowed(at, from) /\ Reading(path)
               /\ path.name \notin Zips /\ key \notin DOMAIN files
               /\ \/ Failing
                  \/ Starting(key, {key, request}, ReadText(path),
                              FileOrigin(path, root))
<1>. DEFINE request == FileKey(at, from)
            path == PathOf(at)
            root == RootOf(at, from)
            key == FileKey(path, root)
<1>1. CASE request \in DOMAIN files
  <2>1. Deliver(frames, files[request]) /\ UNCHANGED context
    BY <1>1 DEF ObtainFile
  <2>. QED
    BY <1>1, <2>1, SameKnows DEF context, Delivering, Settled
<1>2. CASE request \notin DOMAIN files /\ ~Allowed(at, from)
  <2>1. Fail /\ UNCHANGED sources
    BY <1>2 DEF ObtainFile, Allowed, PathOf, RootOf, Escapes
  <2>. QED
    BY <2>1 DEF Fail, Settled, Failing
<1>3. CASE /\ request \notin DOMAIN files /\ Allowed(at, from)
           /\ key \in DOMAIN files
  <2>1. /\ Deliver(frames, files[key])
        /\ files' = Extend(files, {request}, files[key])
        /\ UNCHANGED <<sources, registry, print, nextInline, modules>>
    BY <1>3 DEF ObtainFile, Allowed, PathOf, RootOf, Escapes
  <2>. QED
    BY <1>3, <2>1, ExtendKnows DEF Settled, Delivering
<1>4. CASE /\ request \notin DOMAIN files /\ Allowed(at, from)
           /\ key \notin DOMAIN files /\ path.name \in Zips
  <2>1. ObtainMember([file |-> path], disk[path], Main, {key, request})
    BY <1>4 DEF ObtainFile, Allowed, PathOf, RootOf, Escapes
  <2>. HIDE DEF request, path, root, key
  <2>2. LET member == MemberKey([file |-> path], Main) IN
        /\ Settled /\ UNCHANGED sources
        /\ \/ Failing
           \/ member \in DOMAIN files /\ Delivering(files[member], {key, request})
           \/ /\ member \notin DOMAIN files /\ Main \in DOMAIN disk[path].members
              /\ Starting(member, {member} \cup {key, request},
                          disk[path].members[Main],
                          ArchiveOrigin([file |-> path], disk[path], Main))
    BY <2>1, MemberOutcomes
  <2>. QED
    BY <1>4, <2>2 DEF request, path, root, key
<1>5. CASE /\ request \notin DOMAIN files /\ Allowed(at, from)
           /\ key \notin DOMAIN files /\ path.name \notin Zips
  <2>1. /\ Reading(path)
        /\ Define(key, {key, request}, ReadText(path), FileOrigin(path, root))
    BY <1>5 DEF ObtainFile, Allowed, PathOf, RootOf, Escapes, Reading
  <2>2. Settled /\ (Failing \/ Starting(key, {key, request}, ReadText(path),
                                        FileOrigin(path, root)))
    BY <2>1, DefineOutcomes
  <2>. QED
    BY <1>5, <2>1, <2>2
<1>. QED
  BY <1>1, <1>2, <1>3, <1>4, <1>5

(* What an import of the innermost definition obtains.                     *)
LEMMA ImportOutcomes ==
  ASSUME Import
  PROVE  LET origin == Innermost.origin
             lit == Innermost.text.imports[Len(Innermost.done) + 1]
         IN \/ Fail /\ UNCHANGED sources
            \/ /\ origin.kind = "archive"
               /\ ObtainMember(origin.zip, origin.content, lit.name, {})
            \/ /\ origin.kind = "file"
               /\ ObtainFile(Join(origin.path, lit), origin.root)
            \/ /\ origin.kind = "inline" /\ lit.name \in DOMAIN registry
               /\ Deliver(frames, registry[lit.name]) /\ UNCHANGED context
            \/ /\ origin.kind = "inline"
               /\ lit.to = "abs" \/ origin.file # None
               /\ ObtainFile(IF lit.to = "abs" THEN lit.at
                             ELSE Join(origin.file, lit), None)
BY DEF Import, FromArchive, FromFile, FromInline

LEMMA ImportRegistersNothing == ASSUME Import PROVE Settled
BY ImportOutcomes, MemberOutcomes, FileOutcomes DEF Fail, Settled, context

LEMMA OpenRegistersNothing == ASSUME Open PROVE Settled
BY MemberOutcomes, FileOutcomes, DefineOutcomes DEF Open, Settled

-----------------------------------------------------------------------------
(* The fingerprint.                                                        *)

(* What is hashed is the names and what they stand for, not how the table  *)
(* came about.                                                             *)
LEMMA ExposedNothing == Prints(Exposed(NoEntries)) = Prints(registry)
BY DEF Prints, Exposed, NoEntries

(* The remembered fingerprint is that of the names registered now, for     *)
(* every history of calls (`fingerprint`, `restore_registry`, `register`).  *)
THEOREM PrintIsCurrent == Spec => []FingerprintCurrent
<1>1. Init => FingerprintCurrent
  BY DEF Init, FingerprintCurrent
<1>2. FingerprintCurrent /\ [Next]_vars => FingerprintCurrent'
  <2>. SUFFICES ASSUME FingerprintCurrent, [Next]_vars
                PROVE  FingerprintCurrent'
    OBVIOUS
  <2>. USE DEF FingerprintCurrent
  <2>1. CASE UNCHANGED <<registry, print>>
    BY <2>1 DEF Prints
  <2>2. CASE Open \/ Import
    BY <2>1, <2>2, OpenRegistersNothing, ImportRegistersNothing DEF Settled
  <2>3. CASE ObtainNamed
    BY <2>1, <2>3, MemberOutcomes DEF ObtainNamed, Settled
  <2>4. CASE Finish
    BY <2>1, <2>4 DEF Finish
  <2>5. CASE Instantiate
    BY <2>1, <2>5 DEF Instantiate, InstantiateRoot, InstantiateNamed, Fail
  <2>6. CASE Restore
    BY <2>6, ExposedNothing DEF Restore, Prints
  <2>7. CASE \E n \in RegNames, d \in modules : Register(n, d)
    BY <2>7 DEF Register, Forget, Prints
  <2>8. CASE \E d \in modules : Transform(d) \/ TransformFails(d)
    BY <2>8 DEF Transform, TransformFails, Forget, Prints
  <2>9. CASE Fingerprint
    BY <2>9 DEF Fingerprint, Prints
  <2>10. CASE NewContext
    BY <2>10 DEF NewContext, Prints
  <2>11. CASE \/ \E at \in Loads : Load(at)
              \/ \E content \in Bundles : LoadBundle(content)
              \/ \E inline \in Inline : Parse(inline)
              \/ \E d \in modules : Derive(d) \/ DeriveFails \/ Export(d)
              \/ RestoreName \/ Edit \/ UNCHANGED vars
    BY <2>1, <2>11
    DEF Load, LoadBundle, Parse, Derive, DeriveFails, Export, RestoreName, Edit, context, vars
  <2>. QED
    BY <2>2, <2>3, <2>4, <2>5, <2>6, <2>7, <2>8, <2>9, <2>10, <2>11 DEF Next
<1>. QED
  BY <1>1, <1>2, PTL DEF Spec

-----------------------------------------------------------------------------
(* The inductive invariant.                                                *)

IsSequence(s) == s \in Seq(Range(s))

IsFrame(f) == f = [id |-> f.id, keys |-> f.keys, text |-> f.text,
                   origin |-> f.origin, done |-> f.done]
IsCall(c) == c = [op |-> c.op, stage |-> c.stage, target |-> c.target,
                  def |-> c.def, root |-> c.root, todo |-> c.todo,
                  name |-> c.name, pending |-> c.pending, result |-> c.result]

Roots == Dirs \cup {Top, None}

(* The keys that are identities: of a member, or of a file by its real     *)
(* path.  The others are names under which something was asked for.        *)
Canonical(k) ==
  \/ DOMAIN k = {"zip", "member"}
  \/ /\ DOMAIN k = {"path", "root"} /\ k.root \in Roots
     /\ k.path \in Paths /\ Real[k.path] = k.path
     /\ k.path.name \notin Zips

(* What has the identity id lies in the bundle.                            *)
Inside(id, root) ==
  \/ root = None
  \/ ("path" \in DOMAIN id /\ root \in {Top, id.path.dir})
  \/ ("zip" \in DOMAIN id /\ root \in {Top, id.zip.file.dir})

(* What a key of `files` may lead to.                                      *)
Denotes(k, id) ==
  /\ Canonical(k) => k = id
  /\ "path" \in DOMAIN k => Inside(id, k.root)

(* The definitions there are, with those the call has in hand.             *)
InHand ==
  Range(call.pending)
  \cup (IF call.stage = "infer" THEN {call.def} ELSE {})
  \cup (IF \/ call.stage \in {"names", "member"}
           \/ (call.stage = "infer" /\ call.name # None)
        THEN {call.root} ELSE {})
Live == Held \cup InHand

KeptIn(table, d) == /\ Canonical(d.id)
                    /\ d.id \in DOMAIN table /\ table[d.id] = d
Kept(d) == KeptIn(files, d)
Numbered(id) == \E n \in Nat : n < nextInline /\ id = InlineKey(n)

ShapeInv ==
  /\ disk \in Disks /\ nextInline \in Nat
  /\ IsFiniteSet(DOMAIN registry) /\ IsFiniteSet(DOMAIN call.pending)
  /\ IsCall(call) /\ IsSequence(frames)
  /\ \A i \in DOMAIN frames : IsFrame(frames[i]) /\ IsSequence(frames[i].done)

StageInv ==
  /\ call.op = "idle" => call.stage = "none"
  /\ frames # <<>> => call.stage \in {"open", "member"}
  /\ call.stage = "open" => call.op # "idle" /\ call.name = None
  /\ call.op = "load" => call.target \in Locations
  /\ call.op = "parse" =>
       /\ call.name = None /\ call.stage \in {"open", "infer"}
       /\ call.target.inline \in Inline /\ Numbered(call.target.id)
       /\ call.stage = "open" => \A d \in Live : d.id # call.target.id

SourcesInv == \A p \in DOMAIN sources : sources[p] \in Text

FilesInv == \A k \in DOMAIN files : Kept(files[k]) /\ Denotes(k, files[k].id)

(* Each definition.                                                        *)
Sound(d) ==
  /\ Kept(d) \/ Numbered(d.id)
  /\ IsFile(d) => /\ d.id.path \in DOMAIN sources
                  /\ d.text = sources[d.id.path]
                  /\ \A e \in Range(d.imports) : Inside(e.id, d.id.root)
LiveInv == /\ \A d \in Live : Sound(d)
           /\ \A d, e \in Live : d.id = e.id => d = e

(* Each definition that is being made.                                     *)
FileFrame(f) ==
  /\ f.origin = FileOrigin(f.id.path, f.id.root)
  /\ f.id.path \in DOMAIN sources /\ f.text = sources[f.id.path]
  /\ \A e \in Range(f.done) : Inside(e.id, f.id.root)
InlineFrame(f) ==
  /\ call.op = "parse" /\ f.id = call.target.id /\ f.keys = {}
  /\ f.origin = InlineOrigin(call.target.inline.name, call.target.inline.file)
  /\ f.text = call.target.inline.text
KeyedFrame(f) ==
  /\ Canonical(f.id) /\ f.id \notin DOMAIN files
  /\ f.id \in f.keys /\ \A k \in f.keys : Denotes(k, f.id)
  /\ "path" \in DOMAIN f.id => FileFrame(f)
  /\ "path" \notin DOMAIN f.id => f.origin.kind = "archive"
FramesInv ==
  /\ \A i \in DOMAIN frames : \/ KeyedFrame(frames[i])
                            \/ (i = 1 /\ InlineFrame(frames[i]))
  /\ \A i, j \in DOMAIN frames : frames[i].id = frames[j].id => i = j
  /\ \A i \in DOMAIN frames : i + 1 \in DOMAIN frames /\ "path" \in DOMAIN frames[i].id
       => Inside(frames[i + 1].id, frames[i].id.root)

IInv == ShapeInv /\ StageInv /\ SourcesInv /\ FilesInv /\ LiveInv /\ FramesInv

-----------------------------------------------------------------------------
(* Sequences of definitions and of frames: what is put on top and taken    *)
(* off.                                                                    *)

LEMMA EmptySequence == IsSequence(<<>>) /\ DOMAIN <<>> = {} /\ Range(<<>>) = {}
BY DEF IsSequence, Range

LEMMA SequenceFacts ==
  ASSUME NEW s, IsSequence(s)
  PROVE  /\ Len(s) \in Nat /\ DOMAIN s = 1..Len(s)
         /\ s # <<>> => Len(s) \in DOMAIN s
         /\ \A i \in DOMAIN s : s[i] \in Range(s)
<1>1. s \in Seq(Range(s))
  BY DEF IsSequence
<1>2. Len(s) \in Nat /\ DOMAIN s = 1..Len(s)
  BY <1>1, LenProperties
<1>3. s # <<>> => Len(s) > 0
  BY <1>1, EmptySeq
<1>. QED
  BY <1>2, <1>3 DEF Range

LEMMA Typed ==
  ASSUME NEW s, NEW n \in Nat, s = [i \in 1..n |-> s[i]]
  PROVE  IsSequence(s) /\ Len(s) = n
<1>1. \A i \in 1..n : s[i] \in Range(s)
  BY DEF Range
<1>2. s \in [1..n -> Range(s)]
  BY <1>1
<1>. QED
  BY <1>2 DEF IsSequence

LEMMA SequenceAppend ==
  ASSUME NEW s, IsSequence(s), NEW x
  PROVE  LET t == Append(s, x) IN
         /\ IsSequence(t) /\ Len(t) = Len(s) + 1
         /\ \A i \in DOMAIN s : t[i] = s[i]
         /\ t[Len(s) + 1] = x /\ Range(t) = Range(s) \cup {x}
<1>. DEFINE t == Append(s, x)
<1>1. s \in Seq(Range(s) \cup {x}) /\ x \in Range(s) \cup {x}
  BY SeqMonotonic DEF IsSequence
<1>2. /\ t \in Seq(Range(s) \cup {x}) /\ Len(t) = Len(s) + 1
      /\ \A i \in 1..Len(s) : t[i] = s[i]
      /\ t[Len(s) + 1] = x
  BY <1>1, AppendProperties
<1>3. Len(s) \in Nat /\ DOMAIN s = 1..Len(s) /\ DOMAIN t = 1..(Len(s) + 1)
  BY <1>1, <1>2, LenProperties
<1>. HIDE DEF t
<1>4. Range(t) = Range(s) \cup {x}
  BY <1>2, <1>3 DEF Range
<1>. QED
  BY <1>2, <1>3, <1>4 DEF IsSequence, t

LEMMA SequenceFront ==
  ASSUME NEW s, IsSequence(s), s # <<>>
  PROVE  LET t == SubSeq(s, 1, Len(s) - 1) IN
         /\ IsSequence(t) /\ Len(t) = Len(s) - 1
         /\ DOMAIN t = 1..(Len(s) - 1) /\ \A i \in DOMAIN t : t[i] = s[i]
<1>. DEFINE n == Len(s) - 1
            t == SubSeq(s, 1, n)
<1>1. Len(s) \in Nat /\ Len(s) # 0 /\ s \in Seq(Range(s))
  BY SequenceFacts DEF IsSequence
<1>2. n \in Nat /\ 1..n \subseteq 1..Len(s)
  BY <1>1
<1>3. t = [i \in 1..n |-> s[i]]
  BY <1>1, <1>2
<1>. HIDE DEF t, n
<1>4. t = [i \in 1..n |-> t[i]]
  BY <1>3
<1>. QED
  BY <1>2, <1>3, <1>4, Typed DEF t, n

LEMMA SequenceTop ==
  ASSUME NEW s, IsSequence(s), s # <<>>, NEW x
  PROVE  LET t == [s EXCEPT ![Len(s)] = x] IN
         /\ IsSequence(t) /\ Len(t) = Len(s)
         /\ \A i \in DOMAIN s \ {Len(s)} : t[i] = s[i]
         /\ t[Len(s)] = x
<1>. DEFINE t == [s EXCEPT ![Len(s)] = x]
<1>1. Len(s) \in Nat /\ DOMAIN s = 1..Len(s) /\ Len(s) \in DOMAIN s
  BY SequenceFacts
<1>2. DOMAIN t = 1..Len(s) /\ \A i \in 1..Len(s) : t[i] = IF i = Len(s) THEN x ELSE s[i]
  BY <1>1
<1>3. t = [i \in 1..Len(s) |-> t[i]]
  BY <1>1
<1>. QED
  BY <1>1, <1>2, <1>3, Typed

-----------------------------------------------------------------------------
(* What a step has to leave alone for the definitions to stay sound.       *)

KeysKept == \A k \in DOMAIN files :
              Canonical(k) => k \in DOMAIN files' /\ files'[k] = files[k]
SourcesGrow ==
  /\ \A p \in DOMAIN sources : p \in DOMAIN sources' /\ sources'[p] = sources[p]
  /\ \A p \in DOMAIN sources' : sources'[p] \in Text

LEMMA SourcesSame == SourcesInv /\ UNCHANGED sources => SourcesGrow
BY DEF SourcesInv, SourcesGrow

LEMMA StaysNumbered ==
  ASSUME nextInline \in Nat, nextInline' \in Nat, nextInline <= nextInline',
         NEW id, Numbered(id)
  PROVE  Numbered(id)'
<1>1. PICK n \in Nat : n < nextInline /\ id = InlineKey(n)
  BY DEF Numbered
<1>2. n < nextInline'
  BY <1>1
<1>3. InlineKey(n)' = InlineKey(n)
  BY DEF InlineKey
<1>. QED
  BY <1>1, <1>2 DEF Numbered, InlineKey

LEMMA StaysSound ==
  ASSUME ShapeInv, SourcesGrow, KeysKept, nextInline' \in Nat,
         nextInline <= nextInline', NEW d, Sound(d)
  PROVE  Sound(d)'
<1>1. nextInline \in Nat
  BY DEF ShapeInv
<1>2. Kept(d) => Kept(d)'
  BY DEF KeysKept, Kept, KeptIn
<1>3. Numbered(d.id) => Numbered(d.id)'
  BY <1>1, StaysNumbered
<1>4. IsFile(d) => d.id.path \in DOMAIN sources' /\ d.text = sources'[d.id.path]
  BY DEF Sound, SourcesGrow
<1>. QED
  BY <1>2, <1>3, <1>4 DEF Sound, IsFile

(* A step that adds no definition, or one whose identity is new.           *)
LEMMA DefinitionsStay ==
  ASSUME ShapeInv, LiveInv, SourcesGrow, KeysKept, nextInline' \in Nat,
         nextInline <= nextInline', NEW n, Live' \subseteq Live \cup {n},
         n \in Live \/ (Sound(n)' /\ \A d \in Live : d.id # n.id)
  PROVE  LiveInv'
<1>1. \A d \in Live : Sound(d)'
  <2>. TAKE d \in Live
  <2>1. Sound(d)
    BY DEF LiveInv
  <2>. QED
    BY <2>1, StaysSound
<1>2. \A d \in Live' : Sound(d)'
  BY <1>1
<1>3. \A d, e \in Live' : d.id = e.id => d = e
  BY DEF LiveInv
<1>. QED
  BY <1>2, <1>3 DEF LiveInv

LEMMA NothingNew ==
  ASSUME ShapeInv, LiveInv, SourcesGrow, KeysKept, nextInline' \in Nat,
         nextInline <= nextInline', Live' \subseteq Live
  PROVE  LiveInv'
<1>1. CASE Live = {}
  BY <1>1 DEF LiveInv
<1>2. CASE Live # {}
  <2>1. PICK n : n \in Live
    BY <1>2
  <2>. QED
    BY <2>1, DefinitionsStay
<1>. QED
  BY <1>1, <1>2

(* Where the definitions are.                                              *)
LEMMA LiveOnes ==
  /\ \A k \in DOMAIN files : files[k] \in Live
  /\ \A n \in DOMAIN registry : registry[n] \in Live
  /\ \A n \in DOMAIN call.pending : call.pending[n] \in Live
  /\ modules \subseteq Live
  /\ \A i \in DOMAIN frames : Range(frames[i].done) \subseteq Live
  /\ call.stage = "infer" => call.def \in Live
  /\ call.stage \in {"names", "member"} => call.root \in Live
  /\ call.stage = "infer" /\ call.name # None => call.root \in Live
BY DEF Live, Held, InHand, Range

(* The keys of `files`.                                                    *)
LEMMA FilesStay == 
  ASSUME FilesInv, files' = files
  PROVE  FilesInv' /\ KeysKept
BY DEF FilesInv, KeysKept, Kept

LEMMA KnownIsKept ==
  ASSUME FilesInv, NEW keys, NEW d, Known(keys, d),
         d \in Range(files) \/ keys = {}, \A k \in keys : Denotes(k, d.id)
  PROVE  /\ FilesInv' /\ KeysKept
         /\ \A k \in DOMAIN files' : Canonical(k) => k \in DOMAIN files
         /\ \A k \in DOMAIN files' : files'[k] \in Range(files)
<1>1. CASE keys = {}
  <2>1. DOMAIN files' = DOMAIN files /\ \A k \in DOMAIN files : files'[k] = files[k]
    BY <1>1 DEF Known
  <2>. QED
    BY <2>1 DEF FilesInv, KeysKept, Kept, KeptIn, Range
<1>2. CASE d \in Range(files)
  <2>1. Kept(d)
    BY <1>2 DEF FilesInv, Range
  <2>2. \A k \in keys : Canonical(k) => k \in DOMAIN files /\ files[k] = d
    BY <2>1 DEF Denotes, Kept, KeptIn
  <2>3. /\ DOMAIN files' = DOMAIN files \cup keys
        /\ \A k \in DOMAIN files' : files'[k] = IF k \in keys THEN d ELSE files[k]
    BY DEF Known
  <2>4. KeysKept
    BY <2>2, <2>3 DEF KeysKept
  <2>5. \A e : KeptIn(files, e) => KeptIn(files', e)
    BY <2>4 DEF KeysKept, KeptIn
  <2>6. ASSUME NEW k \in DOMAIN files'
        PROVE  /\ KeptIn(files', files'[k]) /\ Denotes(k, files'[k].id)
               /\ files'[k] \in Range(files)
    <3>1. CASE k \in keys
      <4>1. files'[k] = d
        BY <2>3, <3>1
      <4>. QED
        BY <1>2, <2>1, <2>5, <3>1, <4>1 DEF Kept
    <3>2. CASE k \notin keys
      <4>1. k \in DOMAIN files /\ files'[k] = files[k]
        BY <2>3, <3>2
      <4>2. KeptIn(files, files[k]) /\ Denotes(k, files[k].id)
        BY <4>1 DEF FilesInv, Kept
      <4>. QED
        BY <2>5, <4>1, <4>2 DEF Range
    <3>. QED
      BY <3>1, <3>2
  <2>7. FilesInv'
    BY <2>6 DEF FilesInv, Kept
  <2>8. \A k \in DOMAIN files' : Canonical(k) => k \in DOMAIN files
    BY <2>2, <2>3
  <2>. QED
    BY <2>4, <2>6, <2>7, <2>8
<1>. QED
  BY <1>1, <1>2

LEMMA NoFrames == ASSUME frames' = <<>> PROVE FramesInv'
BY EmptySequence DEF FramesInv

(* An error leaves what was made.                                          *)
LEMMA IdleShape ==
  ASSUME NEW r
  PROVE  /\ IsCall(Idle(r)) /\ Idle(r).op = "idle" /\ Idle(r).stage = "none"
         /\ Idle(r).pending = NoEntries /\ Idle(r).name = None
         /\ DOMAIN NoEntries = {} /\ Range(NoEntries) = {}
BY DEF Idle, IsCall, NoEntries, Range

LEMMA FailKeeps ==
  ASSUME IInv, Failing, Settled, disk' \in Disks, SourcesGrow
  PROVE  IInv'
<1>1. /\ frames' = <<>> /\ call' = Idle("error") /\ files' = files
      /\ UNCHANGED <<registry, print, nextInline, modules>>
  BY DEF Failing, Settled
<1>2. /\ IsCall(call') /\ call'.op = "idle" /\ call'.stage = "none"
      /\ DOMAIN call'.pending = {} /\ Range(call'.pending) = {}
  BY <1>1, IdleShape
<1>3. ShapeInv'
  BY <1>1, <1>2, EmptySequence, FS_EmptySet DEF IInv, ShapeInv
<1>4. StageInv'
  BY <1>1, <1>2 DEF StageInv
<1>5. Live' \subseteq Live
  BY <1>1, <1>2, EmptySequence DEF Live, Held, InHand
<1>6. FilesInv' /\ KeysKept
  BY <1>1, FilesStay DEF IInv
<1>7. LiveInv'
  BY <1>1, <1>5, <1>6, NothingNew DEF IInv, ShapeInv
<1>. QED
  BY <1>1, <1>3, <1>4, <1>6, <1>7, NoFrames DEF IInv, SourcesInv, SourcesGrow

-----------------------------------------------------------------------------
(* A definition handed on.                                                 *)

LEMMA TopPush ==
  ASSUME NEW s, IsSequence(s), s # <<>>, NEW d,
         IsFrame(s[Len(s)]), IsSequence(s[Len(s)].done)
  PROVE  LET t == [s EXCEPT ![Len(s)].done = Append(@, d)]
             n == Len(s)
         IN /\ IsSequence(t) /\ Len(t) = n /\ DOMAIN t = DOMAIN s
            /\ \A i \in DOMAIN s \ {n} : t[i] = s[i]
            /\ \A i \in DOMAIN s :
                 /\ t[i].id = s[i].id /\ t[i].keys = s[i].keys
                 /\ t[i].text = s[i].text /\ t[i].origin = s[i].origin
            /\ IsFrame(t[n]) /\ IsSequence(t[n].done)
            /\ Range(t[n].done) = Range(s[n].done) \cup {d}
            /\ t[n].done = Append(s[n].done, d)
<1>. DEFINE n == Len(s)
            x == [s[n] EXCEPT !.done = Append(s[n].done, d)]
            t == [s EXCEPT ![n] = x]
<1>1. n \in DOMAIN s
  BY SequenceFacts
<1>2. [s EXCEPT ![Len(s)].done = Append(@, d)] = t
  OBVIOUS
<1>3. x = [id |-> s[n].id, keys |-> s[n].keys, text |-> s[n].text,
           origin |-> s[n].origin, done |-> Append(s[n].done, d)]
  BY DEF IsFrame
<1>4. IsFrame(x)
  BY <1>3 DEF IsFrame
<1>5. /\ IsSequence(x.done) /\ Range(x.done) = Range(s[n].done) \cup {d}
      /\ x.done = Append(s[n].done, d)
  BY <1>3, SequenceAppend
<1>6. /\ IsSequence(t) /\ Len(t) = n /\ t[n] = x
      /\ \A i \in DOMAIN s \ {n} : t[i] = s[i]
  BY SequenceTop
<1>7. DOMAIN t = DOMAIN s
  OBVIOUS
<1>8. \A i \in DOMAIN s :
        /\ t[i].id = s[i].id /\ t[i].keys = s[i].keys
        /\ t[i].text = s[i].text /\ t[i].origin = s[i].origin
  BY <1>3, <1>6
<1>. HIDE DEF t, x
<1>. QED
  BY <1>2, <1>4, <1>5, <1>6, <1>7, <1>8

LEMMA DeliveryKeeps ==
  ASSUME IInv, Settled, disk' \in Disks, UNCHANGED sources,
         call.stage \in {"open", "member"},
         NEW d, NEW keys, Delivering(d, keys),
         d \in Range(files) \/ (d \in Range(registry) /\ keys = {}),
         \A k \in keys : Denotes(k, d.id),
         frames # <<>> /\ "path" \in DOMAIN Innermost.id
           => Inside(d.id, Innermost.id.root)
  PROVE  IInv'
<1>1. UNCHANGED <<registry, print, nextInline, modules, sources>>
  BY DEF Settled
<1>2. /\ FilesInv' /\ KeysKept
      /\ \A k \in DOMAIN files' : Canonical(k) => k \in DOMAIN files
      /\ Range(files') \subseteq Range(files)
  <2>1. d \in Range(files) \/ keys = {}
    OBVIOUS
  <2>2. /\ FilesInv' /\ KeysKept
        /\ \A k \in DOMAIN files' : Canonical(k) => k \in DOMAIN files
        /\ \A k \in DOMAIN files' : files'[k] \in Range(files)
    BY <2>1, KnownIsKept DEF Delivering, IInv
  <2>. QED
    BY <2>2 DEF Range
<1>3. d \in Live
  BY DEF Live, Held
<1>4. SourcesInv' /\ SourcesGrow
  BY <1>1, SourcesSame DEF IInv, SourcesInv
<1>5. CASE frames = <<>>
  <2>1. frames' = <<>> /\ call' = [call EXCEPT !.stage = "infer", !.def = d]
    BY <1>5 DEF Delivering, Deliver
  <2>2. call' = [op |-> call.op, stage |-> "infer", target |-> call.target,
                 def |-> d, root |-> call.root, todo |-> call.todo,
                 name |-> call.name, pending |-> call.pending,
                 result |-> call.result]
    BY <2>1 DEF IInv, ShapeInv, IsCall
  <2>3. ShapeInv'
    BY <1>1, <2>1, <2>2, EmptySequence DEF IInv, ShapeInv, IsCall
  <2>4. StageInv'
    <3>1. call.op # "idle"
      BY DEF IInv, StageInv
    <3>2. Numbered(call.target.id)' <=> Numbered(call.target.id)
      BY <1>1, <2>2 DEF Numbered
    <3>. QED
      BY <2>1, <2>2, <3>1, <3>2 DEF IInv, StageInv
  <2>5. Live' \subseteq Live
    <3>1. Held' \subseteq Live
      BY <1>1, <1>2, <2>1, EmptySequence DEF Live, Held
    <3>2. call.name # None => call.root \in Live
      BY LiveOnes DEF IInv, StageInv
    <3>3. InHand' \subseteq Live
      BY <1>3, <2>2, <3>2, LiveOnes DEF InHand, Range
    <3>. QED
      BY <3>1, <3>3 DEF Live
  <2>6. LiveInv'
    BY <1>1, <1>2, <1>4, <2>5, NothingNew DEF IInv, ShapeInv
  <2>. QED
    BY <1>2, <1>4, <2>1, <2>3, <2>4, <2>6, NoFrames DEF IInv
<1>6. CASE frames # <<>>
  <2>. DEFINE n == Len(frames)
  <2>1. n \in DOMAIN frames /\ IsSequence(frames)
    BY <1>6, SequenceFacts DEF IInv, ShapeInv
  <2>2. frames' = [frames EXCEPT ![n].done = Append(@, d)] /\ call' = call
    BY <1>6 DEF Delivering, Deliver
  <2>3. IsFrame(frames[n]) /\ IsSequence(frames[n].done)
    BY <2>1 DEF IInv, ShapeInv
  <2>4. /\ IsSequence(frames') /\ DOMAIN frames' = DOMAIN frames
        /\ \A i \in DOMAIN frames \ {n} : frames'[i] = frames[i]
        /\ \A i \in DOMAIN frames :
             /\ frames'[i].id = frames[i].id /\ frames'[i].keys = frames[i].keys
             /\ frames'[i].text = frames[i].text
             /\ frames'[i].origin = frames[i].origin
        /\ IsFrame(frames'[n]) /\ IsSequence(frames'[n].done)
        /\ Range(frames'[n].done) = Range(frames[n].done) \cup {d}
    BY <1>6, <2>1, <2>2, <2>3, TopPush
  <2>5. ShapeInv'
    BY <1>1, <2>2, <2>4 DEF IInv, ShapeInv
  <2>6. Live' \subseteq Live
    <3>1. \A i \in DOMAIN frames' : Range(frames'[i].done) \subseteq Live
      BY <1>3, <2>4, LiveOnes
    <3>2. Held' \subseteq Live
      BY <1>1, <1>2, <3>1 DEF Live, Held
    <3>. QED
      BY <2>2, <3>2 DEF Live, InHand
  <2>7. StageInv'
    <3>1. Numbered(call.target.id)' <=> Numbered(call.target.id)
      BY <1>1, <2>2 DEF Numbered
    <3>. QED
      BY <2>2, <2>6, <3>1 DEF IInv, StageInv
  <2>8. LiveInv'
    BY <1>1, <1>2, <1>4, <2>6, NothingNew DEF IInv, ShapeInv
  <2>9. FramesInv'
    <3>1. ASSUME NEW i \in DOMAIN frames', "path" \in DOMAIN frames[i].id,
                 FileFrame(frames[i])
          PROVE  FileFrame(frames[i])'
      <4>1. \A e \in Range(frames'[i].done) : Inside(e.id, frames[i].id.root)
        BY <2>4, <3>1 DEF FileFrame, Innermost
      <4>. QED
        BY <1>1, <2>4, <3>1, <4>1 DEF FileFrame
    <3>2. ASSUME NEW i \in DOMAIN frames', KeyedFrame(frames[i])
          PROVE  KeyedFrame(frames[i])'
      BY <1>2, <2>4, <3>1, <3>2 DEF KeyedFrame
    <3>3. ASSUME NEW i \in DOMAIN frames', InlineFrame(frames[i])
          PROVE  InlineFrame(frames[i])'
      BY <2>2, <2>4, <3>3 DEF InlineFrame
    <3>. QED
      BY <2>4, <3>2, <3>3 DEF IInv, FramesInv
  <2>. QED
    BY <1>2, <1>4, <2>5, <2>7, <2>8, <2>9 DEF IInv
<1>. QED
  BY <1>5, <1>6

-----------------------------------------------------------------------------
(* A definition begun.                                                     *)

LEMMA CanonicalNotNumbered == \A k : Canonical(k) => ~Numbered(k)
BY DEF Canonical, Numbered, InlineKey

(* What a frame that is begun has to be, besides new.                      *)
KeyedStart(id, keys, text, origin) ==
  /\ Canonical(id) /\ id \notin DOMAIN files
  /\ id \in keys /\ \A k \in keys : Denotes(k, id)
  /\ "path" \in DOMAIN id => /\ origin = FileOrigin(id.path, id.root)
                             /\ id.path \in DOMAIN sources'
                             /\ text = sources'[id.path]
  /\ "path" \notin DOMAIN id => origin.kind = "archive"
InlineStart(id, keys, text, origin) ==
  /\ frames = <<>> /\ call.op = "parse" /\ id = call.target.id /\ keys = {}
  /\ origin = InlineOrigin(call.target.inline.name, call.target.inline.file)
  /\ text = call.target.inline.text

LEMMA StartKeeps ==
  ASSUME IInv, Settled, disk' \in Disks, SourcesGrow,
         call.stage \in {"open", "member"},
         NEW id, NEW keys, NEW text, NEW origin,
         Starting(id, keys, text, origin),
         \/ KeyedStart(id, keys, text, origin)
         \/ InlineStart(id, keys, text, origin),
         frames # <<>> /\ "path" \in DOMAIN Innermost.id
           => Inside(id, Innermost.id.root)
  PROVE  IInv'
<1>. DEFINE f == Frame(id, keys, text, origin)
            n == Len(frames)
<1>1. /\ UNCHANGED <<registry, print, nextInline, modules>>
      /\ files' = files /\ call' = call /\ frames' = Append(frames, f)
  BY DEF Settled, Starting
<1>2. IsFrame(f) /\ IsSequence(f.done) /\ Range(f.done) = {}
  BY EmptySequence DEF Frame, IsFrame
<1>3. /\ f.id = id /\ f.keys = keys /\ f.text = text /\ f.origin = origin
  BY DEF Frame
<1>. HIDE DEF f
<1>4. IsSequence(frames) /\ n \in Nat /\ DOMAIN frames = 1..n
  BY SequenceFacts DEF IInv, ShapeInv
<1>5. /\ IsSequence(frames') /\ DOMAIN frames' = 1..(n + 1)
      /\ \A i \in 1..n : frames'[i] = frames[i]
      /\ frames'[n + 1] = f
  <2>1. /\ IsSequence(frames') /\ Len(frames') = n + 1
        /\ \A i \in 1..n : frames'[i] = frames[i]
        /\ frames'[n + 1] = f
    BY <1>1, <1>4, SequenceAppend
  <2>. QED
    BY <2>1, SequenceFacts
<1>6. ShapeInv'
  <2>1. ASSUME NEW i \in DOMAIN frames'
        PROVE  IsFrame(frames'[i]) /\ IsSequence(frames'[i].done)
    <3>1. CASE i = n + 1
      BY <1>2, <1>5, <3>1
    <3>2. CASE i \in 1..n
      BY <1>4, <1>5, <3>2 DEF IInv, ShapeInv
    <3>. QED
      BY <1>4, <1>5, <3>1, <3>2
  <2>. QED
    BY <1>1, <1>5, <2>1 DEF IInv, ShapeInv
<1>7. Live' \subseteq Live
  <2>1. ASSUME NEW i \in DOMAIN frames'
        PROVE  Range(frames'[i].done) \subseteq Live
    <3>1. CASE i = n + 1
      BY <1>2, <1>5, <3>1
    <3>2. CASE i \in 1..n
      BY <1>4, <1>5, <3>2, LiveOnes
    <3>. QED
      BY <1>4, <1>5, <3>1, <3>2
  <2>2. Held' \subseteq Live
    BY <1>1, <2>1 DEF Live, Held
  <2>. QED
    BY <1>1, <2>2 DEF Live, InHand
<1>8. StageInv'
  <2>1. Numbered(call.target.id)' <=> Numbered(call.target.id)
    BY <1>1 DEF Numbered
  <2>. QED
    BY <1>1, <1>7, <2>1 DEF IInv, StageInv
<1>9. FilesInv' /\ KeysKept
  BY <1>1, FilesStay DEF IInv
<1>10. LiveInv'
  BY <1>1, <1>7, <1>9, NothingNew DEF IInv, ShapeInv
<1>11. FramesInv'
  <2>1. ASSUME NEW i \in 1..n, KeyedFrame(frames[i])
        PROVE  KeyedFrame(frames[i])'
    <3>1. frames'[i] = frames[i]
      BY <1>5
    <3>2. FileFrame(frames[i]) => FileFrame(frames[i])'
      BY <3>1 DEF FileFrame, SourcesGrow
    <3>. QED
      BY <1>1, <2>1, <3>1, <3>2 DEF KeyedFrame
  <2>2. ASSUME NEW i \in 1..n, InlineFrame(frames[i])
        PROVE  InlineFrame(frames[i])'
    BY <1>1, <1>5, <2>2 DEF InlineFrame
  <2>3. ASSUME NEW i, i = n + 1, KeyedStart(id, keys, text, origin)
        PROVE  KeyedFrame(frames[i])'
    <3>1. frames'[i] = f
      BY <1>5, <2>3
    <3>2. "path" \in DOMAIN id => FileFrame(frames[i])'
      BY <1>2, <1>3, <2>3, <3>1 DEF KeyedStart, FileFrame
    <3>. QED
      BY <1>1, <1>3, <2>3, <3>1, <3>2 DEF KeyedStart, KeyedFrame
  <2>4. ASSUME NEW i, i = n + 1, InlineStart(id, keys, text, origin)
        PROVE  i = 1 /\ InlineFrame(frames[i])'
    <3>1. i = 1
      BY <1>4, <2>4, EmptySequence DEF InlineStart
    <3>2. frames'[i] = f
      BY <1>5, <2>4
    <3>. QED
      BY <1>1, <1>3, <2>4, <3>1, <3>2 DEF InlineStart, InlineFrame
  <2>5. ASSUME NEW i \in DOMAIN frames'
        PROVE  KeyedFrame(frames[i])' \/ (i = 1 /\ InlineFrame(frames[i])')
    <3>1. CASE i = n + 1
      BY <2>3, <2>4, <3>1
    <3>2. CASE i \in 1..n
      BY <1>4, <2>1, <2>2, <3>2 DEF IInv, FramesInv
    <3>. QED
      BY <1>4, <1>5, <3>1, <3>2
  <2>6. \A i \in 1..n : frames[i].id # id
    BY <1>4 DEF Starting, InProgress
  <2>7. \A i, j \in DOMAIN frames' : frames'[i].id = frames'[j].id => i = j
    <3>1. \A i, j \in 1..n : frames[i].id = frames[j].id => i = j
      BY <1>4 DEF IInv, FramesInv
    <3>. QED
      BY <1>3, <1>4, <1>5, <2>6, <3>1
  <2>8. ASSUME NEW i \in DOMAIN frames', i + 1 \in DOMAIN frames',
               "path" \in DOMAIN frames'[i].id
        PROVE  Inside(frames'[i + 1].id, frames'[i].id.root)
    <3>1. CASE i + 1 \in 1..n
      BY <1>4, <1>5, <2>8, <3>1 DEF IInv, FramesInv
    <3>2. CASE i = n
      <4>1. Innermost = frames'[n] /\ frames # <<>>
        BY <1>4, <1>5, <2>8, <3>2, EmptySequence DEF Innermost
      <4>. QED
        BY <1>3, <1>5, <2>8, <3>2, <4>1
    <3>. QED
      BY <1>4, <1>5, <2>8, <3>1, <3>2
  <2>. QED
    BY <2>5, <2>7, <2>8 DEF FramesInv
<1>. QED
  BY <1>6, <1>8, <1>9, <1>10, <1>11 DEF IInv, SourcesInv, SourcesGrow

-----------------------------------------------------------------------------
(* A definition completed.                                                 *)

LEMMA FinishKeeps ==
  ASSUME IInv, Finish
  PROVE  IInv'
<1>a. PICK n : n = Len(frames)
  OBVIOUS
<1>b. PICK f : f = frames[n]
  OBVIOUS
<1>c. PICK d : d = Definition(f.id, f.text, f.origin, f.done)
  OBVIOUS
<1>d. PICK rest : rest = SubSeq(frames, 1, n - 1)
  OBVIOUS
<1>1. /\ files' = Extend(files, f.keys, d) /\ Deliver(rest, d) /\ frames # <<>>
      /\ UNCHANGED <<disk, sources, registry, print, nextInline, modules>>
  BY <1>a, <1>b, <1>c, <1>d DEF Finish, Innermost
<1>2. /\ d.id = f.id /\ d.text = f.text /\ d.imports = f.done
  BY <1>c DEF Definition
<1>3. /\ IsSequence(frames) /\ n \in Nat /\ DOMAIN frames = 1..n
      /\ n \in DOMAIN frames
  BY <1>a, <1>1, SequenceFacts DEF IInv, ShapeInv
<1>4. /\ IsSequence(rest) /\ Len(rest) = n - 1 /\ DOMAIN rest = 1..(n - 1)
      /\ \A i \in 1..(n - 1) : rest[i] = frames[i]
  BY <1>a, <1>d, <1>1, <1>3, SequenceFront
<1>5. KeyedFrame(f) \/ (n = 1 /\ InlineFrame(f))
  BY <1>b, <1>3 DEF IInv, FramesInv
<1>6. \A i \in 1..(n - 1) : frames[i].id # f.id
  BY <1>b, <1>3 DEF IInv, FramesInv
<1>7. call.stage \in {"open", "member"}
  BY <1>1 DEF IInv, StageInv
<1>8. InlineFrame(f) => /\ call.stage = "open" /\ Numbered(f.id)
                        /\ \A e \in Live : e.id # f.id
  BY <1>7 DEF IInv, StageInv, InlineFrame
<1>9. \A k \in f.keys : Denotes(k, f.id)
  BY <1>5 DEF KeyedFrame, InlineFrame
<1>10. \A k \in f.keys : Canonical(k) => k \notin DOMAIN files
  BY <1>5, <1>9 DEF KeyedFrame, InlineFrame, Denotes
<1>11. Known(f.keys, d)
  BY <1>1, ExtendKnows
<1>12. KeysKept
  BY <1>10, <1>11 DEF KeysKept, Known
<1>13. \A e : KeptIn(files, e) => KeptIn(files', e)
  BY <1>12 DEF KeysKept, KeptIn
<1>14. KeyedFrame(f) => KeptIn(files', d)
  BY <1>2, <1>11 DEF KeyedFrame, Known, KeptIn
<1>15. SourcesInv' /\ SourcesGrow
  BY <1>1, SourcesSame DEF IInv, SourcesInv
<1>16. FilesInv'
  <2>1. ASSUME NEW k \in DOMAIN files'
        PROVE  KeptIn(files', files'[k]) /\ Denotes(k, files'[k].id)
    <3>1. CASE k \in f.keys
      BY <1>2, <1>5, <1>9, <1>11, <1>14, <3>1 DEF Known, InlineFrame
    <3>2. CASE k \notin f.keys
      <4>1. k \in DOMAIN files /\ files'[k] = files[k]
        BY <1>11, <3>2 DEF Known
      <4>. QED
        BY <1>13, <4>1 DEF IInv, FilesInv, Kept
    <3>. QED
      BY <3>1, <3>2
  <2>. QED
    BY <2>1 DEF FilesInv, Kept
<1>17. \A e \in Live : e.id # d.id
  <2>1. CASE KeyedFrame(f)
    <3>1. \A e \in Live : Kept(e) \/ Numbered(e.id)
      BY DEF IInv, LiveInv, Sound
    <3>2. Canonical(d.id) /\ d.id \notin DOMAIN files
      BY <1>2, <2>1 DEF KeyedFrame
    <3>. QED
      BY <3>1, <3>2, CanonicalNotNumbered DEF Kept, KeptIn
  <2>2. CASE InlineFrame(f)
    BY <1>2, <1>8, <2>2
  <2>. QED
    BY <1>5, <2>1, <2>2
<1>18. Sound(d)'
  <2>1. Kept(d)' \/ Numbered(d.id)'
    BY <1>1, <1>2, <1>5, <1>8, <1>14 DEF Kept, Numbered
  <2>2. IsFile(d) => FileFrame(f)
    <3>1. InlineFrame(f) => "path" \notin DOMAIN f.id
      <4>1. \A k \in Nat : "path" \notin DOMAIN InlineKey(k)
        BY DEF InlineKey
      <4>. QED
        BY <1>8, <4>1 DEF Numbered
    <3>. QED
      BY <1>2, <1>5, <3>1 DEF IsFile, KeyedFrame
  <2>3. IsFile(d) => /\ d.id.path \in DOMAIN sources'
                     /\ d.text = sources'[d.id.path]
                     /\ \A e \in Range(d.imports) : Inside(e.id, d.id.root)
    BY <1>1, <1>2, <2>2 DEF FileFrame
  <2>. QED
    BY <2>1, <2>3 DEF Sound, IsFile
<1>19. /\ Range(files') \subseteq Live \cup {d}
       /\ Range(registry') \cup modules' \subseteq Live
  BY <1>1, <1>11, LiveOnes DEF Known, Range
<1>20. CASE rest = <<>>
  <2>1. frames' = <<>> /\ call' = [call EXCEPT !.stage = "infer", !.def = d]
    BY <1>1, <1>20 DEF Deliver
  <2>2. call' = [op |-> call.op, stage |-> "infer", target |-> call.target,
                 def |-> d, root |-> call.root, todo |-> call.todo,
                 name |-> call.name, pending |-> call.pending,
                 result |-> call.result]
    BY <2>1 DEF IInv, ShapeInv, IsCall
  <2>3. ShapeInv'
    BY <1>1, <2>1, <2>2, EmptySequence DEF IInv, ShapeInv, IsCall
  <2>4. StageInv'
    <3>1. call.op # "idle"
      BY <1>7 DEF IInv, StageInv
    <3>2. Numbered(call.target.id)' <=> Numbered(call.target.id)
      BY <1>1, <2>2 DEF Numbered
    <3>. QED
      BY <1>7, <2>1, <2>2, <3>1, <3>2 DEF IInv, StageInv
  <2>5. Live' \subseteq Live \cup {d}
    <3>1. Held' \subseteq Live \cup {d}
      BY <1>19, <2>1, EmptySequence DEF Held
    <3>2. call.name # None => call.root \in Live
      BY <1>7, LiveOnes DEF IInv, StageInv
    <3>3. InHand' \subseteq Live \cup {d}
      BY <2>2, <3>2, LiveOnes DEF InHand, Range
    <3>. QED
      BY <3>1, <3>3 DEF Live
  <2>6. LiveInv'
    BY <1>1, <1>12, <1>15, <1>17, <1>18, <2>5, DefinitionsStay DEF IInv, ShapeInv
  <2>. QED
    BY <1>15, <1>16, <2>1, <2>3, <2>4, <2>6, NoFrames DEF IInv
<1>21. CASE rest # <<>>
  <2>. DEFINE m == n - 1
  <2>1. m \in DOMAIN rest /\ m \in Nat /\ m = Len(rest)
    BY <1>3, <1>4, <1>21, SequenceFacts
  <2>2. frames' = [rest EXCEPT ![m].done = Append(@, d)] /\ call' = call
    BY <1>1, <1>21, <2>1 DEF Deliver
  <2>3. \A i \in DOMAIN rest : IsFrame(rest[i]) /\ IsSequence(rest[i].done)
    BY <1>3, <1>4 DEF IInv, ShapeInv
  <2>4. /\ IsSequence(frames') /\ DOMAIN frames' = DOMAIN rest
        /\ \A i \in DOMAIN rest \ {m} : frames'[i] = rest[i]
        /\ \A i \in DOMAIN rest :
             /\ frames'[i].id = rest[i].id /\ frames'[i].keys = rest[i].keys
             /\ frames'[i].text = rest[i].text
             /\ frames'[i].origin = rest[i].origin
        /\ IsFrame(frames'[m]) /\ IsSequence(frames'[m].done)
        /\ Range(frames'[m].done) = Range(rest[m].done) \cup {d}
    <3>1. frames' = [rest EXCEPT ![Len(rest)].done = Append(@, d)]
      BY <2>1, <2>2
    <3>2. IsFrame(rest[Len(rest)]) /\ IsSequence(rest[Len(rest)].done)
      BY <2>1, <2>3
    <3>. QED
      BY <1>4, <1>21, <2>1, <3>1, <3>2, TopPush
  <2>5. ShapeInv'
    BY <1>1, <2>2, <2>3, <2>4 DEF IInv, ShapeInv
  <2>6. Live' \subseteq Live \cup {d}
    <3>1. \A i \in DOMAIN rest : Range(rest[i].done) \subseteq Live
      BY <1>3, <1>4, LiveOnes
    <3>2. \A i \in DOMAIN frames' : Range(frames'[i].done) \subseteq Live \cup {d}
      BY <2>4, <3>1
    <3>3. Held' \subseteq Live \cup {d}
      BY <1>19, <3>2 DEF Held
    <3>. QED
      BY <2>2, <3>3 DEF Live, InHand
  <2>7. KeyedFrame(f)
    BY <1>4, <1>5, <2>1
  <2>8. StageInv'
    <3>1. Numbered(call.target.id)' <=> Numbered(call.target.id)
      BY <1>1, <2>2 DEF Numbered
    <3>2. call.op = "parse" => d.id # call.target.id
      BY <1>2, <2>7, CanonicalNotNumbered DEF IInv, StageInv, KeyedFrame
    <3>. QED
      BY <1>7, <2>2, <2>6, <3>1, <3>2 DEF IInv, StageInv
  <2>9. LiveInv'
    BY <1>1, <1>12, <1>15, <1>17, <1>18, <2>6, DefinitionsStay DEF IInv, ShapeInv
  <2>10. FramesInv'
    <3>1. ASSUME NEW i \in 1..m, "path" \in DOMAIN frames[i].id,
                 FileFrame(frames[i])
          PROVE  FileFrame(frames[i])'
      <4>1. \A e \in Range(frames'[i].done) : Inside(e.id, frames[i].id.root)
        <5>1. CASE i = m
          <6>1. Inside(f.id, frames[i].id.root)
            BY <1>b, <1>3, <2>1, <3>1, <5>1 DEF IInv, FramesInv
          <6>. QED
            BY <1>2, <1>4, <2>1, <2>4, <3>1, <5>1, <6>1 DEF FileFrame
        <5>2. CASE i # m
          BY <1>4, <2>1, <2>4, <3>1, <5>2 DEF FileFrame
        <5>. QED
          BY <5>1, <5>2
      <4>. QED
        BY <1>1, <1>4, <2>4, <3>1, <4>1 DEF FileFrame
    <3>2. ASSUME NEW i \in 1..m, KeyedFrame(frames[i])
          PROVE  KeyedFrame(frames[i])'
      <4>1. frames[i].id \notin f.keys
        BY <1>6, <1>9, <3>2 DEF KeyedFrame, Denotes
      <4>2. frames[i].id \notin DOMAIN files'
        BY <1>11, <3>2, <4>1 DEF Known, KeyedFrame
      <4>3. /\ frames'[i].id = frames[i].id /\ frames'[i].keys = frames[i].keys
            /\ frames'[i].origin = frames[i].origin
        BY <1>4, <2>4
      <4>. QED
        BY <3>1, <3>2, <4>2, <4>3 DEF KeyedFrame
    <3>3. ASSUME NEW i \in 1..m, InlineFrame(frames[i])
          PROVE  InlineFrame(frames[i])'
      BY <1>4, <2>2, <2>4, <3>3 DEF InlineFrame
    <3>4. DOMAIN frames' = 1..m /\ 1..m \subseteq DOMAIN frames
      BY <1>3, <1>4, <2>1, <2>4
    <3>5. ASSUME NEW i \in DOMAIN frames'
          PROVE  KeyedFrame(frames[i])' \/ (i = 1 /\ InlineFrame(frames[i])')
      BY <3>2, <3>3, <3>4 DEF IInv, FramesInv
    <3>6. \A i \in 1..m : frames'[i].id = frames[i].id
      BY <1>4, <2>4
    <3>. QED
      BY <3>4, <3>5, <3>6 DEF IInv, FramesInv
  <2>. QED
    BY <1>15, <1>16, <2>5, <2>8, <2>9, <2>10 DEF IInv
<1>. QED
  BY <1>20, <1>21

-----------------------------------------------------------------------------
(* Obtaining a member, or a file.                                          *)

LEMMA MemberKeeps ==
  ASSUME IInv, NEW zip, NEW content, NEW name,
         ObtainMember(zip, content, name, {}), disk' \in Disks,
         call.stage \in {"open", "member"},
         frames # <<>> => "path" \notin DOMAIN Innermost.id
  PROVE  IInv'
<1>. DEFINE key == MemberKey(zip, name)
<1>1. /\ Settled /\ UNCHANGED sources
      /\ \/ Failing
         \/ key \in DOMAIN files /\ Delivering(files[key], {})
         \/ /\ key \notin DOMAIN files
            /\ \E text : Starting(key, {key} \cup {}, text,
                                  ArchiveOrigin(zip, content, name))
  BY MemberOutcomes
<1>2. DOMAIN key = {"zip", "member"}
  BY DEF MemberKey
<1>. HIDE DEF key
<1>3. SourcesGrow
  BY <1>1, SourcesSame DEF IInv
<1>4. CASE Failing
  BY <1>1, <1>3, <1>4, FailKeeps
<1>5. CASE key \in DOMAIN files /\ Delivering(files[key], {})
  <2>1. files[key] \in Range(files)
    BY <1>5 DEF Range
  <2>. QED
    BY <1>1, <1>5, <2>1, DeliveryKeeps
<1>6. CASE /\ key \notin DOMAIN files
           /\ \E text : Starting(key, {key} \cup {}, text,
                                 ArchiveOrigin(zip, content, name))
  <2>1. PICK text : Starting(key, {key} \cup {}, text,
                             ArchiveOrigin(zip, content, name))
    BY <1>6
  <2>2. KeyedStart(key, {key} \cup {}, text, ArchiveOrigin(zip, content, name))
    BY <1>2, <1>6 DEF KeyedStart, Canonical, Denotes, ArchiveOrigin
  <2>. QED
    BY <1>1, <1>3, <2>1, <2>2, StartKeeps
<1>. QED
  BY <1>1, <1>4, <1>5, <1>6

(* Where a location leads.                                                 *)
LEMMA PathFacts ==
  ASSUME NEW at \in Locations
  PROVE  /\ PathOf(at) \in Paths /\ Real[PathOf(at)] = PathOf(at)
         /\ at \in Paths /\ Real[at] = at => PathOf(at) = at /\ at.name # Whole
<1>. DEFINE asked == [at EXCEPT !.name = IF at.name = Whole THEN Main ELSE @]
<1>1. asked = [dir |-> at.dir, name |-> IF at.name = Whole THEN Main ELSE at.name]
  BY DEF Locations
<1>2. asked \in Paths
  BY <1>1, PathsAssumption DEF Locations, Paths
<1>3. PathOf(at) = Real[asked]
  BY DEF PathOf
<1>4. at \in Paths => at.name # Whole
  BY PathsAssumption DEF Paths
<1>5. at.name # Whole => asked = at
  BY <1>1 DEF Locations
<1>. QED
  BY <1>2, <1>3, <1>4, <1>5, PathsAssumption

LEMMA KeyFacts ==
  ASSUME NEW p, NEW r
  PROVE  /\ DOMAIN FileKey(p, r) = {"path", "root"}
         /\ FileKey(p, r).path = p /\ FileKey(p, r).root = r
BY DEF FileKey

(* What lies in the bundle of a directory that lies in a bundle.           *)
LEMMA Nested ==
  ASSUME NEW at \in Locations, NEW from, Allowed(at, from),
         NEW id, Inside(id, RootOf(at, from))
  PROVE  Inside(id, from)
<1>1. CASE at.name # Whole
  BY <1>1 DEF RootOf
<1>2. CASE at.name = Whole
  <2>1. from \in {None, Top, at.dir} /\ at.dir # None
    BY <1>2, PathsAssumption DEF Allowed, InBundle, Locations
  <2>2. RootOf(at, from) = at.dir
    BY <1>2 DEF RootOf
  <2>. QED
    BY <2>1, <2>2 DEF Inside
<1>. QED
  BY <1>1, <1>2

(* A location asked for is no identity unless it is that of its file.      *)
LEMMA RequestDenotes ==
  ASSUME NEW at \in Locations, NEW from, Allowed(at, from), NEW id,
         Inside(id, RootOf(at, from)),
         LET key == FileKey(PathOf(at), RootOf(at, from))
         IN  Canonical(key) => key = id
  PROVE  Denotes(FileKey(at, from), id)
<1>. DEFINE request == FileKey(at, from)
<1>1. DOMAIN request = {"path", "root"} /\ request.path = at /\ request.root = from
  BY KeyFacts
<1>2. Inside(id, from)
  BY Nested
<1>3. ASSUME Canonical(request) PROVE request = id
  <2>1. at \in Paths /\ Real[at] = at
    BY <1>1, <1>3 DEF Canonical
  <2>2. PathOf(at) = at /\ RootOf(at, from) = from
    BY <2>1, PathFacts DEF RootOf
  <2>. QED
    BY <1>3, <2>2
<1>. QED
  BY <1>1, <1>2, <1>3 DEF Denotes

LEMMA ReadingGrows ==
  ASSUME IInv, NEW path \in Paths, path.name \notin Zips, disk[path] # None,
         Reading(path)
  PROVE  /\ SourcesGrow
         /\ path \in DOMAIN sources' /\ sources'[path] = ReadText(path)
<1>1. disk[path] \in Text
  BY TextsAssumption DEF IInv, ShapeInv
<1>2. ReadText(path) \in Text
  BY <1>1 DEF ReadText, IInv, SourcesInv
<1>3. path \in DOMAIN sources => ReadText(path) = sources[path]
  BY DEF ReadText
<1>4. /\ DOMAIN sources' = DOMAIN sources \cup {path}
      /\ \A p \in DOMAIN sources' :
           sources'[p] = IF p \in {path} THEN ReadText(path) ELSE sources[p]
  BY DEF Reading, Extend
<1>. QED
  BY <1>2, <1>3, <1>4 DEF SourcesGrow, IInv, SourcesInv

LEMMA FileKeeps ==
  ASSUME IInv, NEW at \in Locations, NEW from \in Roots, ObtainFile(at, from),
         disk' \in Disks, call.stage \in {"open", "member"},
         frames # <<>> /\ "path" \in DOMAIN Innermost.id
           => Innermost.id.root = from
  PROVE  IInv'
<1>. DEFINE request == FileKey(at, from)
            path == PathOf(at)
            root == RootOf(at, from)
            key == FileKey(path, root)
            member == MemberKey([file |-> path], Main)
<1>1. /\ path \in Paths /\ Real[path] = path
      /\ root \in Roots
  BY PathFacts DEF RootOf, Roots, Locations
<1>2. /\ DOMAIN key = {"path", "root"} /\ key.path = path /\ key.root = root
      /\ DOMAIN request = {"path", "root"} /\ request.root = from
  BY KeyFacts
<1>3. DOMAIN member = {"zip", "member"} /\ member.zip.file = path
  BY DEF MemberKey
<1>4. Settled
  BY FileOutcomes
<1>5. SourcesInv /\ FilesInv
  BY DEF IInv
<1>6. \A k \in DOMAIN files : files[k] \in Range(files) /\ Denotes(k, files[k].id)
  BY <1>5 DEF Range, FilesInv
<1>7. /\ \/ Failing /\ UNCHANGED sources
         \/ /\ request \in DOMAIN files /\ UNCHANGED sources
            /\ Delivering(files[request], {})
         \/ /\ Allowed(at, from) /\ UNCHANGED sources
            /\ key \in DOMAIN files /\ Delivering(files[key], {request})
         \/ /\ Allowed(at, from) /\ UNCHANGED sources
            /\ path.name \in Zips /\ key \notin DOMAIN files
            /\ \/ Failing
               \/ /\ member \in DOMAIN files
                  /\ Delivering(files[member], {key, request})
               \/ /\ member \notin DOMAIN files
                  /\ \E text : Starting(member, {member} \cup {key, request}, text,
                                 ArchiveOrigin([file |-> path], disk[path], Main))
         \/ /\ Allowed(at, from) /\ Reading(path)
            /\ path.name \notin Zips /\ key \notin DOMAIN files
            /\ \/ Failing
               \/ Starting(key, {key, request}, ReadText(path),
                           FileOrigin(path, root))
  BY FileOutcomes
<1>8. Allowed(at, from) => disk[path] # None /\ root \in {None, Top, path.dir}
  BY DEF Allowed, InBundle
<1>. HIDE DEF request, path, root, key, member
<1>9. CASE Failing /\ UNCHANGED sources
  BY <1>4, <1>5, <1>9, SourcesSame, FailKeeps
<1>10. CASE /\ request \in DOMAIN files /\ UNCHANGED sources
            /\ Delivering(files[request], {})
  <2>1. Inside(files[request].id, from)
    BY <1>2, <1>6, <1>10 DEF Denotes
  <2>. QED
    BY <1>4, <1>6, <1>10, <2>1, DeliveryKeeps
<1>11. CASE /\ Allowed(at, from) /\ UNCHANGED sources
            /\ key \in DOMAIN files /\ Delivering(files[key], {request})
  <2>1. Denotes(key, files[key].id) /\ files[key] \in Range(files)
    BY <1>6, <1>11
  <2>2. Inside(files[key].id, root)
    BY <1>2, <2>1 DEF Denotes
  <2>3. Denotes(request, files[key].id)
    BY <1>11, <2>1, <2>2, RequestDenotes DEF Denotes, key, request, path, root
  <2>4. Inside(files[key].id, from)
    BY <1>11, <2>2, Nested DEF root
  <2>. QED
    BY <1>4, <1>11, <2>1, <2>3, <2>4, DeliveryKeeps
<1>12. CASE /\ Allowed(at, from) /\ UNCHANGED sources
            /\ path.name \in Zips /\ key \notin DOMAIN files
            /\ \/ Failing
               \/ /\ member \in DOMAIN files
                  /\ Delivering(files[member], {key, request})
               \/ /\ member \notin DOMAIN files
                  /\ \E text : Starting(member, {member} \cup {key, request}, text,
                                 ArchiveOrigin([file |-> path], disk[path], Main))
  <2>1. Inside(member, root)
    BY <1>3, <1>8, <1>12 DEF Inside
  <2>2. ~Canonical(key)
    BY <1>2, <1>12 DEF Canonical
  <2>3. Denotes(key, member) /\ Denotes(request, member) /\ Inside(member, from)
    BY <1>2, <1>12, <2>1, <2>2, RequestDenotes, Nested
    DEF Denotes, key, request, path, root
  <2>4. Denotes(member, member) /\ Canonical(member)
    BY <1>3 DEF Denotes, Canonical
  <2>5. CASE Failing
    BY <1>4, <1>5, <1>12, <2>5, SourcesSame, FailKeeps
  <2>6. CASE member \in DOMAIN files /\ Delivering(files[member], {key, request})
    <3>1. files[member].id = member /\ files[member] \in Range(files)
      BY <1>6, <2>4, <2>6 DEF Denotes
    <3>. QED
      BY <1>4, <1>12, <2>3, <2>6, <3>1, DeliveryKeeps
  <2>7. CASE /\ member \notin DOMAIN files
             /\ \E text : Starting(member, {member} \cup {key, request}, text,
                            ArchiveOrigin([file |-> path], disk[path], Main))
    <3>1. PICK text : Starting(member, {member} \cup {key, request}, text,
                               ArchiveOrigin([file |-> path], disk[path], Main))
      BY <2>7
    <3>2. KeyedStart(member, {member} \cup {key, request}, text,
                     ArchiveOrigin([file |-> path], disk[path], Main))
      BY <1>3, <2>3, <2>4, <2>7 DEF KeyedStart, ArchiveOrigin
    <3>. QED
      BY <1>4, <1>5, <1>12, <2>3, <3>1, <3>2, SourcesSame, StartKeeps
  <2>. QED
    BY <1>12, <2>5, <2>6, <2>7
<1>13. CASE /\ Allowed(at, from) /\ Reading(path)
            /\ path.name \notin Zips /\ key \notin DOMAIN files
            /\ \/ Failing
               \/ Starting(key, {key, request}, ReadText(path),
                           FileOrigin(path, root))
  <2>1. /\ SourcesGrow
        /\ path \in DOMAIN sources' /\ sources'[path] = ReadText(path)
    BY <1>1, <1>8, <1>13, ReadingGrows
  <2>2. Canonical(key)
    BY <1>1, <1>2, <1>13 DEF Canonical
  <2>3. Inside(key, root)
    BY <1>2, <1>8, <1>13 DEF Inside
  <2>4. Denotes(key, key) /\ Denotes(request, key) /\ Inside(key, from)
    BY <1>2, <1>13, <2>3, RequestDenotes, Nested
    DEF Denotes, key, request, path, root
  <2>5. CASE Failing
    BY <1>4, <2>1, <2>5, FailKeeps
  <2>6. CASE Starting(key, {key, request}, ReadText(path), FileOrigin(path, root))
    <3>1. KeyedStart(key, {key, request}, ReadText(path), FileOrigin(path, root))
      BY <1>2, <1>13, <2>1, <2>2, <2>4 DEF KeyedStart
    <3>. QED
      BY <1>4, <2>1, <2>4, <2>6, <3>1, StartKeeps
  <2>. QED
    BY <1>13, <2>5, <2>6
<1>. QED
  BY <1>7, <1>9, <1>10, <1>11, <1>12, <1>13

-----------------------------------------------------------------------------
(* Imports.                                                                *)

LEMMA JoinType ==
  ASSUME NEW path \in Paths, NEW lit \in Literals
  PROVE  Join(path, lit) \in Locations
<1>1. CASE lit.to = "here"
  <2>1. lit.name \in Names
    BY <1>1 DEF Literals
  <2>. QED
    BY <1>1, <2>1 DEF Join, Paths, Locations
<1>2. CASE lit.to = "up"
  <2>1. lit.name \in Names
    BY <1>2 DEF Literals
  <2>. QED
    BY <1>2, <2>1 DEF Join, Paths, Locations
<1>3. CASE lit.to \notin {"here", "up"}
  BY <1>3 DEF Join, Literals
<1>. QED
  BY <1>1, <1>2, <1>3

LEMMA InnermostFrame ==
  ASSUME IInv, frames # <<>>
  PROVE  /\ \/ KeyedFrame(Innermost)
            \/ InlineFrame(Innermost) /\ "path" \notin DOMAIN Innermost.id
         /\ Len(Innermost.done) \in Nat /\ call.stage \in {"open", "member"}
<1>1. Len(frames) \in DOMAIN frames
  BY SequenceFacts DEF IInv, ShapeInv
<1>2. Len(Innermost.done) \in Nat
  BY <1>1, SequenceFacts DEF IInv, ShapeInv, Innermost
<1>3. KeyedFrame(Innermost) \/ InlineFrame(Innermost)
  BY <1>1 DEF IInv, FramesInv, Innermost
<1>4. ASSUME InlineFrame(Innermost) PROVE "path" \notin DOMAIN Innermost.id
  <2>1. \A k \in Nat : "path" \notin DOMAIN InlineKey(k)
    BY DEF InlineKey
  <2>2. Numbered(Innermost.id)
    BY <1>4 DEF IInv, StageInv, InlineFrame
  <2>. QED
    BY <2>1, <2>2 DEF Numbered
<1>. QED
  BY <1>2, <1>3, <1>4 DEF IInv, StageInv

LEMMA OriginKinds ==
  ASSUME NEW p, NEW r, NEW n
  PROVE  /\ FileOrigin(p, r).kind = "file" /\ FileOrigin(p, r).path = p
         /\ FileOrigin(p, r).root = r
         /\ InlineOrigin(n, p).kind = "inline" /\ InlineOrigin(n, p).file = p
BY DEF FileOrigin, InlineOrigin

(* What the innermost definition imports, and where it is looked for.      *)
LEMMA ImportLeads ==
  ASSUME IInv, Import
  PROVE  LET f == Innermost
             lit == f.text.imports[Len(f.done) + 1]
         IN /\ f.text \in Text => lit \in Literals
            /\ f.origin.kind = "archive" => "path" \notin DOMAIN f.id
            /\ f.origin.kind = "file" =>
                 /\ f.origin.path \in Paths /\ f.origin.root \in Roots
                 /\ f.text \in Text
                 /\ "path" \in DOMAIN f.id => f.id.root = f.origin.root
            /\ f.origin.kind = "inline" =>
                 /\ "path" \notin DOMAIN f.id /\ f.text \in Text
                 /\ f.origin.file \in Paths \cup {None}
<1>1. PICK f : f = Innermost
  OBVIOUS
<1>2. PICK lit : lit = f.text.imports[Len(f.done) + 1]
  OBVIOUS
<1>3. /\ frames # <<>> /\ Len(f.done) < Len(f.text.imports)
      /\ disk' = disk
  BY <1>1 DEF Import
<1>4. /\ \/ KeyedFrame(f)
         \/ InlineFrame(f) /\ "path" \notin DOMAIN f.id
      /\ Len(f.done) \in Nat /\ call.stage \in {"open", "member"}
  BY <1>1, <1>3, InnermostFrame
<1>5. f.text \in Text => lit \in Literals
  <2>. SUFFICES ASSUME f.text \in Text PROVE lit \in Literals
    OBVIOUS
  <2>1. f.text.imports \in Seq(Literals)
    BY DEF Text
  <2>2. Len(f.done) + 1 \in 1..Len(f.text.imports)
    BY <1>3, <1>4, <2>1, LenProperties
  <2>. QED
    BY <1>2, <2>1, <2>2, ElementOfSeq
<1>6. f.origin.kind = "archive" => "path" \notin DOMAIN f.id
  BY <1>4, OriginKinds DEF KeyedFrame, FileFrame
<1>7. f.origin.kind = "file" =>
        /\ f.origin.path \in Paths /\ f.origin.root \in Roots
        /\ f.text \in Text
        /\ "path" \in DOMAIN f.id => f.id.root = f.origin.root
  <2>. SUFFICES ASSUME f.origin.kind = "file"
                PROVE  /\ f.origin.path \in Paths /\ f.origin.root \in Roots
                       /\ f.text \in Text
                       /\ "path" \in DOMAIN f.id => f.id.root = f.origin.root
    OBVIOUS
  <2>1. KeyedFrame(f) /\ "path" \in DOMAIN f.id
    BY <1>4, OriginKinds DEF KeyedFrame, InlineFrame
  <2>2. FileFrame(f) /\ Canonical(f.id)
    BY <2>1 DEF KeyedFrame
  <2>3. f.id.path \in Paths /\ f.id.root \in Roots
    BY <2>1, <2>2 DEF Canonical
  <2>4. f.text \in Text
    BY <2>2 DEF FileFrame, IInv, SourcesInv
  <2>. QED
    BY <2>2, <2>3, <2>4, OriginKinds DEF FileFrame
<1>8. f.origin.kind = "inline" =>
        /\ "path" \notin DOMAIN f.id /\ f.text \in Text
        /\ f.origin.file \in Paths \cup {None}
  <2>. SUFFICES ASSUME f.origin.kind = "inline"
                PROVE  /\ "path" \notin DOMAIN f.id /\ f.text \in Text
                       /\ f.origin.file \in Paths \cup {None}
    OBVIOUS
  <2>1. InlineFrame(f) /\ "path" \notin DOMAIN f.id
    BY <1>4, OriginKinds DEF KeyedFrame, FileFrame
  <2>2. call.target.inline \in Inline
    BY <2>1 DEF IInv, StageInv, InlineFrame
  <2>. QED
    BY <2>1, <2>2, TextsAssumption, OriginKinds DEF InlineFrame
<1>. QED
  BY <1>1, <1>2, <1>5, <1>6, <1>7, <1>8

LEMMA ImportKeeps ==
  ASSUME IInv, Import
  PROVE  IInv'
<1>1. PICK f : f = Innermost
  OBVIOUS
<1>2. PICK lit : lit = f.text.imports[Len(f.done) + 1]
  OBVIOUS
<1>3. /\ frames # <<>> /\ Len(f.done) < Len(f.text.imports)
      /\ disk' = disk
  BY <1>1 DEF Import
<1>4. /\ \/ KeyedFrame(f)
         \/ InlineFrame(f) /\ "path" \notin DOMAIN f.id
      /\ Len(f.done) \in Nat /\ call.stage \in {"open", "member"}
  BY <1>1, <1>3, InnermostFrame
<1>5. disk' \in Disks
  BY <1>3 DEF IInv, ShapeInv
<1>6. f.text \in Text => lit \in Literals
  BY <1>1, <1>2, ImportLeads
<1>7. f.origin.kind = "archive" => "path" \notin DOMAIN f.id
  BY <1>1, ImportLeads
<1>8. f.origin.kind = "file" =>
        /\ f.origin.path \in Paths /\ f.origin.root \in Roots
        /\ f.text \in Text
        /\ "path" \in DOMAIN f.id => f.id.root = f.origin.root
  BY <1>1, ImportLeads
<1>9. f.origin.kind = "inline" =>
        /\ "path" \notin DOMAIN f.id /\ f.text \in Text
        /\ f.origin.file \in Paths \cup {None}
  BY <1>1, ImportLeads
<1>10. \/ Fail /\ UNCHANGED sources
       \/ /\ f.origin.kind = "archive"
          /\ ObtainMember(f.origin.zip, f.origin.content, lit.name, {})
       \/ /\ f.origin.kind = "file"
          /\ ObtainFile(Join(f.origin.path, lit), f.origin.root)
       \/ /\ f.origin.kind = "inline" /\ lit.name \in DOMAIN registry
          /\ Deliver(frames, registry[lit.name]) /\ UNCHANGED context
       \/ /\ f.origin.kind = "inline"
          /\ lit.to = "abs" \/ f.origin.file # None
          /\ ObtainFile(IF lit.to = "abs" THEN lit.at
                        ELSE Join(f.origin.file, lit), None)
  BY <1>1, <1>2, ImportOutcomes
<1>11. CASE Fail /\ UNCHANGED sources
  BY <1>5, <1>11, SourcesSame, FailKeeps DEF Fail, Failing, Settled, IInv
<1>12. CASE /\ f.origin.kind = "archive"
            /\ ObtainMember(f.origin.zip, f.origin.content, lit.name, {})
  BY <1>1, <1>4, <1>5, <1>7, <1>12, MemberKeeps
<1>13. CASE /\ f.origin.kind = "file"
            /\ ObtainFile(Join(f.origin.path, lit), f.origin.root)
  <2>1. Join(f.origin.path, lit) \in Locations
    BY <1>6, <1>8, <1>13, JoinType
  <2>. QED
    BY <1>1, <1>4, <1>5, <1>8, <1>13, <2>1, FileKeeps
<1>14. CASE /\ f.origin.kind = "inline" /\ lit.name \in DOMAIN registry
            /\ Deliver(frames, registry[lit.name]) /\ UNCHANGED context
  <2>1. registry[lit.name] \in Range(registry)
    BY <1>14 DEF Range
  <2>2. Settled /\ UNCHANGED sources /\ Delivering(registry[lit.name], {})
    BY <1>14, SameKnows DEF context, Settled, Delivering
  <2>. QED
    BY <1>1, <1>4, <1>5, <1>9, <1>14, <2>1, <2>2, DeliveryKeeps
<1>15. CASE /\ f.origin.kind = "inline"
            /\ lit.to = "abs" \/ f.origin.file # None
            /\ ObtainFile(IF lit.to = "abs" THEN lit.at
                          ELSE Join(f.origin.file, lit), None)
  <2>. DEFINE at == IF lit.to = "abs" THEN lit.at ELSE Join(f.origin.file, lit)
  <2>1. CASE lit.to = "abs"
    <3>1. at \in Locations
      BY <1>6, <1>9, <1>15, <2>1 DEF Literals
    <3>. QED
      BY <1>1, <1>4, <1>5, <1>9, <1>15, <3>1, FileKeeps DEF Roots
  <2>2. CASE lit.to # "abs"
    <3>1. at \in Locations
      BY <1>6, <1>9, <1>15, <2>2, JoinType
    <3>. QED
      BY <1>1, <1>4, <1>5, <1>9, <1>15, <3>1, FileKeeps DEF Roots
  <2>. QED
    BY <2>1, <2>2
<1>. QED
  BY <1>10, <1>11, <1>12, <1>13, <1>14, <1>15

LEMMA OpenKeeps ==
  ASSUME IInv, Open
  PROVE  IInv'
<1>1. call.stage = "open" /\ frames = <<>> /\ disk' = disk
  BY DEF Open
<1>2. disk' \in Disks
  BY <1>1 DEF IInv, ShapeInv
<1>3. CASE call.op = "load" /\ ObtainFile(call.target, None)
  <2>1. call.target \in Locations /\ None \in Roots
    BY <1>3 DEF IInv, StageInv, Roots
  <2>. QED
    BY <1>1, <1>2, <1>3, <2>1, FileKeeps
<1>4. CASE ObtainMember(call.target.zip, call.target.content, Main, {})
  BY <1>1, <1>2, <1>4, MemberKeeps
<1>5. CASE /\ call.op = "parse" /\ UNCHANGED sources
           /\ Define(call.target.id, {}, call.target.inline.text,
                     InlineOrigin(call.target.inline.name, call.target.inline.file))
  <2>1. /\ Settled
        /\ \/ Failing
           \/ Starting(call.target.id, {}, call.target.inline.text,
                       InlineOrigin(call.target.inline.name,
                                    call.target.inline.file))
    BY <1>5, DefineOutcomes
  <2>2. SourcesGrow
    BY <1>5, SourcesSame DEF IInv
  <2>3. InlineStart(call.target.id, {}, call.target.inline.text,
                    InlineOrigin(call.target.inline.name, call.target.inline.file))
    BY <1>1, <1>5 DEF InlineStart
  <2>. QED
    BY <1>1, <1>2, <2>1, <2>2, <2>3, FailKeeps, StartKeeps
<1>. QED
  BY <1>3, <1>4, <1>5 DEF Open

LEMMA ObtainNamedKeeps ==
  ASSUME IInv, ObtainNamed
  PROVE  IInv'
<1>1. call.stage = "member" /\ frames = <<>> /\ disk' = disk
  BY DEF ObtainNamed
<1>2. ObtainMember(call.root.origin.zip, call.root.origin.content,
                   call.root.origin.content.names[call.name], {})
  BY DEF ObtainNamed
<1>3. disk' \in Disks
  BY <1>1 DEF IInv, ShapeInv
<1>. QED
  BY <1>1, <1>2, <1>3, MemberKeeps

-----------------------------------------------------------------------------
(* The steps of a call in which nothing is being made.                     *)

Fresh(n) == \E k \in Nat : /\ nextInline <= k /\ k < nextInline'
                           /\ n.id = InlineKey(k)

LEMMA FreshIsNew ==
  ASSUME IInv, nextInline' \in Nat, nextInline <= nextInline', NEW n, Fresh(n)
  PROVE  Sound(n)' /\ \A d \in Live : d.id # n.id
<1>1. PICK k \in Nat : nextInline <= k /\ k < nextInline' /\ n.id = InlineKey(k)
  BY DEF Fresh
<1>2. "path" \notin DOMAIN n.id
  BY <1>1 DEF InlineKey
<1>3. nextInline \in Nat
  BY DEF IInv, ShapeInv
<1>4. Numbered(n.id)'
  BY <1>1 DEF Numbered
<1>5. ~Numbered(n.id)
  <2>1. \A j \in Nat : InlineKey(j) = InlineKey(k) => j = k
    BY DEF InlineKey
  <2>. QED
    BY <1>1, <1>3, <2>1 DEF Numbered
<1>6. ~Canonical(n.id)
  <2>1. Numbered(n.id)'
    BY <1>4
  <2>2. DOMAIN n.id = {"inline"}
    BY <1>1 DEF InlineKey
  <2>. QED
    BY <2>2 DEF Canonical
<1>7. \A d \in Live : Canonical(d.id) \/ Numbered(d.id)
  BY DEF IInv, LiveInv, Sound, Kept, KeptIn
<1>. QED
  BY <1>2, <1>4, <1>5, <1>6, <1>7 DEF Sound, IsFile

LEMMA CallKeeps ==
  ASSUME IInv, frames' = <<>>, UNCHANGED <<files, sources>>, disk' \in Disks,
         nextInline' \in Nat, nextInline <= nextInline',
         IsCall(call'), IsFiniteSet(DOMAIN registry'),
         IsFiniteSet(DOMAIN call'.pending), StageInv',
         NEW n, Live' \subseteq Live \cup {n}, n \in Live \/ Fresh(n)
  PROVE  IInv'
<1>1. ShapeInv'
  BY EmptySequence DEF ShapeInv
<1>2. SourcesInv' /\ SourcesGrow
  BY SourcesSame DEF IInv, SourcesInv
<1>3. FilesInv' /\ KeysKept
  BY FilesStay DEF IInv
<1>4. LiveInv'
  BY <1>2, <1>3, FreshIsNew, DefinitionsStay DEF IInv
<1>. QED
  BY <1>1, <1>2, <1>3, <1>4, NoFrames DEF IInv

(* The same when no definition is made.                                    *)
LEMMA QuietKeeps ==
  ASSUME IInv, frames' = <<>>, UNCHANGED <<files, sources>>, disk' \in Disks,
         nextInline' \in Nat, nextInline <= nextInline',
         IsCall(call'), IsFiniteSet(DOMAIN registry'),
         IsFiniteSet(DOMAIN call'.pending), StageInv', Live' \subseteq Live
  PROVE  IInv'
<1>1. ShapeInv'
  BY EmptySequence DEF ShapeInv
<1>2. SourcesInv' /\ SourcesGrow
  BY SourcesSame DEF IInv, SourcesInv
<1>3. FilesInv' /\ KeysKept
  BY FilesStay DEF IInv
<1>4. LiveInv'
  BY <1>2, <1>3, NothingNew DEF IInv, ShapeInv
<1>. QED
  BY <1>1, <1>2, <1>3, <1>4, NoFrames DEF IInv

LEMMA IdleStage ==
  ASSUME NEW r, call' = Idle(r), frames' = <<>>
  PROVE  /\ StageInv' /\ IsCall(call') /\ IsFiniteSet(DOMAIN call'.pending)
         /\ InHand' = {}
<1>1. /\ IsCall(call') /\ call'.op = "idle" /\ call'.stage = "none"
      /\ DOMAIN call'.pending = {} /\ Range(call'.pending) = {}
  BY IdleShape
<1>. QED
  BY <1>1, FS_EmptySet DEF StageInv, InHand

LEMMA CallShape ==
  ASSUME NEW op, NEW target
  PROVE  LET c == Call(op, target) IN
         /\ IsCall(c) /\ c.op = op /\ c.target = target /\ c.stage = "open"
         /\ c.name = None
         /\ IsFiniteSet(DOMAIN c.pending) /\ Range(c.pending) = {}
<1>. DEFINE rest(o, s) ==
              [op |-> o, stage |-> s, target |-> None, def |-> None,
               root |-> None, todo |-> {}, name |-> None,
               pending |-> NoEntries, result |-> None]
<1>1. [Idle(None) EXCEPT !.op = op] = rest(op, "none")
  BY DEF Idle
<1>2. [rest(op, "none") EXCEPT !.stage = "open"] = rest(op, "open")
  OBVIOUS
<1>3. [rest(op, "open") EXCEPT !.target = target] =
        [op |-> op, stage |-> "open", target |-> target,
         def |-> None, root |-> None, todo |-> {}, name |-> None,
         pending |-> NoEntries, result |-> None]
  OBVIOUS
<1>4. Call(op, target) =
        [[[Idle(None) EXCEPT !.op = op] EXCEPT !.stage = "open"]
           EXCEPT !.target = target]
  BY DEF Call
<1>. HIDE DEF rest
<1>5. Call(op, target) =
        [op |-> op, stage |-> "open", target |-> target,
         def |-> None, root |-> None, todo |-> {}, name |-> None,
         pending |-> NoEntries, result |-> None]
  BY <1>1, <1>2, <1>3, <1>4
<1>6. IsFiniteSet(DOMAIN NoEntries) /\ Range(NoEntries) = {}
  BY IdleShape, FS_EmptySet
<1>. QED
  BY <1>5, <1>6 DEF IsCall

(* What exists besides what a call has in hand, when nothing is being made. *)
LEMMA HeldWithoutFrames ==
  ASSUME frames' = <<>>
  PROVE  Held' = Range(files') \cup Range(registry') \cup modules'
BY EmptySequence DEF Held

LEMMA BeginQuiet ==
  ASSUME IInv, Begin
  PROVE  frames = <<>> /\ call.stage = "none" /\ call.op = "idle"
BY DEF IInv, StageInv, Begin

LEMMA LoadKeeps ==
  ASSUME IInv, NEW at \in Loads, Load(at)
  PROVE  IInv'
<1>1. /\ call' = Call("load", at) /\ frames = <<>>
      /\ UNCHANGED <<disk, context, frames>>
  BY BeginQuiet DEF Load
<1>2. /\ IsCall(call') /\ call'.op = "load" /\ call'.target = at
      /\ call'.stage = "open" /\ call'.name = None
      /\ IsFiniteSet(DOMAIN call'.pending) /\ Range(call'.pending) = {}
  BY <1>1, CallShape
<1>3. Live' \subseteq Live
  BY <1>1, <1>2, HeldWithoutFrames DEF context, Live, Held, InHand
<1>4. StageInv'
  BY <1>1, <1>2, TextsAssumption DEF StageInv
<1>. QED
  <2>1. /\ disk' \in Disks /\ nextInline' \in Nat /\ nextInline <= nextInline'
        /\ IsFiniteSet(DOMAIN registry') /\ IsFiniteSet(DOMAIN call'.pending)
        /\ frames' = <<>> /\ UNCHANGED <<files, sources>>
    BY <1>1, <1>2 DEF context, IInv, ShapeInv
  <2>. QED
    BY <1>2, <1>3, <1>4, <2>1, QuietKeeps

LEMMA LoadBundleKeeps ==
  ASSUME IInv, NEW content, LoadBundle(content)
  PROVE  IInv'
<1>1. /\ call' = Call("bundle", [zip |-> [memory |-> nextInline],
                                 content |-> content])
      /\ frames = <<>> /\ nextInline' = nextInline + 1
      /\ UNCHANGED <<disk, sources, files, registry, modules, frames>>
  BY BeginQuiet DEF LoadBundle
<1>2. /\ IsCall(call') /\ call'.op = "bundle"
      /\ call'.stage = "open" /\ call'.name = None
      /\ IsFiniteSet(DOMAIN call'.pending) /\ Range(call'.pending) = {}
  BY <1>1, CallShape
<1>3. Live' \subseteq Live
  BY <1>1, <1>2, HeldWithoutFrames DEF Live, Held, InHand
<1>4. StageInv'
  BY <1>1, <1>2 DEF StageInv
<1>5. nextInline \in Nat
  BY DEF IInv, ShapeInv
<1>6. /\ disk' \in Disks /\ nextInline' \in Nat /\ nextInline <= nextInline'
      /\ IsFiniteSet(DOMAIN registry') /\ IsFiniteSet(DOMAIN call'.pending)
  BY <1>1, <1>2, <1>5 DEF IInv, ShapeInv
<1>. QED
  BY <1>1, <1>2, <1>3, <1>4, <1>6, QuietKeeps

LEMMA ParseKeeps ==
  ASSUME IInv, NEW inline \in Inline, Parse(inline)
  PROVE  IInv'
<1>1. /\ call' = Call("parse", [id |-> InlineKey(nextInline), inline |-> inline])
      /\ frames = <<>> /\ nextInline' = nextInline + 1
      /\ UNCHANGED <<disk, sources, files, registry, modules, frames>>
  BY BeginQuiet DEF Parse
<1>2. /\ IsCall(call') /\ call'.op = "parse"
      /\ call'.target = [id |-> InlineKey(nextInline), inline |-> inline]
      /\ call'.stage = "open" /\ call'.name = None
      /\ IsFiniteSet(DOMAIN call'.pending) /\ Range(call'.pending) = {}
  BY <1>1, CallShape
<1>3. Live' \subseteq Live
  BY <1>1, <1>2, HeldWithoutFrames DEF Live, Held, InHand
<1>4. nextInline \in Nat
  BY DEF IInv, ShapeInv
<1>5. PICK n : n = [id |-> InlineKey(nextInline)]
  OBVIOUS
<1>6. Fresh(n) /\ call'.target.id = n.id /\ call'.target.inline = inline
  BY <1>1, <1>2, <1>4, <1>5 DEF Fresh
<1>7. \A d \in Live' : d.id # call'.target.id
  BY <1>1, <1>3, <1>4, <1>6, FreshIsNew
<1>8. Numbered(call.target.id)'
  <2>1. nextInline < nextInline'
    BY <1>1, <1>4
  <2>2. call'.target.id = InlineKey(nextInline)
    BY <1>5, <1>6
  <2>. QED
    BY <1>4, <2>1, <2>2 DEF Numbered, InlineKey
<1>9. StageInv'
  BY <1>1, <1>2, <1>6, <1>7, <1>8 DEF StageInv
<1>10. /\ disk' \in Disks /\ nextInline' \in Nat /\ nextInline <= nextInline'
       /\ IsFiniteSet(DOMAIN registry') /\ IsFiniteSet(DOMAIN call'.pending)
  BY <1>1, <1>2, <1>4 DEF IInv, ShapeInv
<1>. QED
  BY <1>1, <1>2, <1>3, <1>9, <1>10, QuietKeeps

(* A root is handed out, or its names are restored first.                  *)
LEMMA ReturnShape ==
  ASSUME NEW d, Return(d), frames' = <<>>
  PROVE  /\ modules' = modules \cup {d} /\ StageInv' /\ IsCall(call')
         /\ IsFiniteSet(DOMAIN call'.pending) /\ InHand' = {}
BY IdleStage DEF Return

LEMMA CountersKept ==
  ASSUME IInv, UNCHANGED <<disk, nextInline>>
  PROVE  disk' \in Disks /\ nextInline' \in Nat /\ nextInline <= nextInline'
BY DEF IInv, ShapeInv

LEMMA InstantiateKeeps ==
  ASSUME IInv, Instantiate
  PROVE  IInv'
<1>1. PICK d : d = call.def
  OBVIOUS
<1>2. /\ call.stage = "infer" /\ frames = <<>> /\ UNCHANGED <<disk, sources>>
      /\ d \in Live
  BY <1>1, LiveOnes DEF Instantiate, IInv, StageInv
<1>3. CASE ~d.types
  <2>1. Fail
    BY <1>1, <1>3 DEF Instantiate
  <2>2. disk' \in Disks
    BY <1>2 DEF IInv, ShapeInv
  <2>. QED
    BY <1>2, <2>1, <2>2, SourcesSame, FailKeeps DEF Fail, Failing, Settled, IInv
<1>4. CASE d.types /\ call.name = None
  <2>1. frames' = <<>> /\ InstantiateRoot(d)
    BY <1>1, <1>2, <1>4 DEF Instantiate
  <2>2. UNCHANGED <<files, registry, nextInline>>
    BY <2>1 DEF InstantiateRoot
  <2>3. CASE Restores(d)
    <3>1. call' = [call EXCEPT !.stage = "names", !.root = d,
                               !.todo = DOMAIN d.origin.content.names]
      BY <2>1, <2>3 DEF InstantiateRoot
    <3>2. call' = [op |-> call.op, stage |-> "names", target |-> call.target,
                   def |-> call.def, root |-> d,
                   todo |-> DOMAIN d.origin.content.names,
                   name |-> call.name, pending |-> call.pending,
                   result |-> call.result]
      BY <3>1 DEF IInv, ShapeInv, IsCall
    <3>3. call.op # "parse" /\ call.op # "idle"
      BY <1>2, <2>3 DEF Restores, IInv, StageInv
    <3>4. modules' = modules
      BY <2>1, <2>3 DEF InstantiateRoot
    <3>5. Live' \subseteq Live
      <4>1. Held' \subseteq Live
        BY <2>1, <2>2, <3>4, HeldWithoutFrames DEF Live, Held
      <4>2. InHand' = Range(call.pending) \cup {d}
        BY <3>2 DEF InHand
      <4>. QED
        BY <1>2, <4>1, <4>2 DEF Live, InHand
    <3>6. StageInv'
      BY <2>1, <3>2, <3>3 DEF IInv, StageInv
    <3>7. /\ IsCall(call') /\ IsFiniteSet(DOMAIN call'.pending)
          /\ IsFiniteSet(DOMAIN registry')
      BY <2>2, <3>2 DEF IInv, ShapeInv, IsCall
    <3>. QED
      BY <1>2, <2>1, <2>2, <3>5, <3>6, <3>7, CountersKept, QuietKeeps
  <2>4. CASE ~Restores(d)
    <3>1. Return(d)
      BY <2>1, <2>4 DEF InstantiateRoot
    <3>2. Live' \subseteq Live
      BY <1>2, <2>1, <2>2, <3>1, ReturnShape, HeldWithoutFrames DEF Live, Held
    <3>3. IsFiniteSet(DOMAIN registry')
      BY <2>2 DEF IInv, ShapeInv
    <3>. QED
      BY <1>2, <2>1, <2>2, <3>1, <3>2, <3>3, ReturnShape, CountersKept, QuietKeeps
  <2>. QED
    BY <2>3, <2>4
<1>5. CASE d.types /\ call.name # None
  <2>1. frames' = <<>> /\ InstantiateNamed(d)
    BY <1>1, <1>2, <1>5 DEF Instantiate
  <2>2. CASE Collides(d)
    <3>1. Fail
      BY <2>1, <2>2 DEF InstantiateNamed
    <3>2. disk' \in Disks
      BY <1>2 DEF IInv, ShapeInv
    <3>. QED
      BY <1>2, <3>1, <3>2, SourcesSame, FailKeeps DEF Fail, Failing, Settled, IInv
  <2>3. CASE ~Collides(d)
    <3>. DEFINE pending == IF call.name \in DOMAIN registry THEN call.pending
                           ELSE Extend(call.pending, {call.name}, d)
    <3>1. /\ call' = [call EXCEPT !.stage = "names", !.name = None,
                                  !.pending = pending]
          /\ UNCHANGED <<files, registry, nextInline, modules>>
      BY <2>1, <2>3 DEF InstantiateNamed
    <3>2. /\ DOMAIN pending \subseteq DOMAIN call.pending \cup {call.name}
          /\ Range(pending) \subseteq Range(call.pending) \cup {d}
      BY DEF Extend, Range
    <3>3. IsFiniteSet(DOMAIN pending)
      <4>1. IsFiniteSet(DOMAIN call.pending \cup {call.name})
        BY FS_AddElement DEF IInv, ShapeInv
      <4>. QED
        BY <3>2, <4>1, FS_Subset
    <3>. HIDE DEF pending
    <3>4. call' = [op |-> call.op, stage |-> "names", target |-> call.target,
                   def |-> call.def, root |-> call.root, todo |-> call.todo,
                   name |-> None, pending |-> pending,
                   result |-> call.result]
      BY <3>1 DEF IInv, ShapeInv, IsCall
    <3>5. call.op # "parse" /\ call.op # "idle"
      BY <1>2, <1>5 DEF IInv, StageInv
    <3>6. Live' \subseteq Live
      <4>1. Held' \subseteq Live
        BY <2>1, <3>1, HeldWithoutFrames DEF Live, Held
      <4>2. InHand' = Range(pending) \cup {call.root}
        BY <3>4 DEF InHand
      <4>3. call.root \in Live /\ Range(call.pending) \subseteq Live
        BY <1>2, <1>5, LiveOnes DEF Live, InHand
      <4>. QED
        BY <1>2, <3>2, <4>1, <4>2, <4>3 DEF Live
    <3>7. StageInv'
      BY <2>1, <3>4, <3>5 DEF IInv, StageInv
    <3>8. /\ IsCall(call') /\ IsFiniteSet(DOMAIN call'.pending)
          /\ IsFiniteSet(DOMAIN registry')
      BY <3>1, <3>3, <3>4 DEF IInv, ShapeInv, IsCall
    <3>. QED
      BY <1>2, <2>1, <3>1, <3>6, <3>7, <3>8, CountersKept, QuietKeeps
  <2>. QED
    BY <2>2, <2>3
<1>. QED
  BY <1>3, <1>4, <1>5

LEMMA RestoreNameKeeps ==
  ASSUME IInv, RestoreName
  PROVE  IInv'
<1>1. PICK n \in call.todo :
        call' = [call EXCEPT !.todo = Left(n), !.name = n, !.stage = "member"]
  BY DEF RestoreName
<1>2. /\ call.stage = "names" /\ frames' = <<>>
      /\ UNCHANGED <<disk, files, sources, registry, nextInline, modules>>
  BY DEF RestoreName, context
<1>3. call' = [op |-> call.op, stage |-> "member", target |-> call.target,
               def |-> call.def, root |-> call.root, todo |-> Left(n),
               name |-> n, pending |-> call.pending, result |-> call.result]
  BY <1>1 DEF IInv, ShapeInv, IsCall
<1>4. call.op # "parse" /\ call.op # "idle"
  BY <1>2 DEF IInv, StageInv
<1>5. Live' \subseteq Live
  <2>1. Held' \subseteq Live
    BY <1>2, HeldWithoutFrames DEF Live, Held
  <2>2. InHand' = Range(call.pending) \cup {call.root}
    BY <1>3 DEF InHand
  <2>. QED
    BY <1>2, <2>1, <2>2 DEF Live, InHand
<1>6. StageInv'
  BY <1>2, <1>3, <1>4 DEF IInv, StageInv
<1>7. /\ IsCall(call') /\ IsFiniteSet(DOMAIN call'.pending)
      /\ IsFiniteSet(DOMAIN registry')
  BY <1>2, <1>3 DEF IInv, ShapeInv, IsCall
<1>. QED
  BY <1>2, <1>5, <1>6, <1>7, CountersKept, QuietKeeps

LEMMA RestoreKeeps ==
  ASSUME IInv, Restore
  PROVE  IInv'
<1>1. /\ call.stage = "names" /\ registry' = Exposed(call.pending)
      /\ Return(call.root)
      /\ UNCHANGED <<disk, sources, files, nextInline, frames>>
  BY DEF Restore
<1>2. frames' = <<>> /\ call.root \in Live
  BY <1>1, LiveOnes DEF IInv, StageInv
<1>3. /\ DOMAIN registry' = DOMAIN registry \cup DOMAIN call.pending
      /\ Range(registry') \subseteq Range(registry) \cup Range(call.pending)
  BY <1>1 DEF Exposed, Range
<1>4. IsFiniteSet(DOMAIN registry')
  BY <1>3, FS_Union DEF IInv, ShapeInv
<1>5. Live' \subseteq Live
  BY <1>1, <1>2, <1>3, ReturnShape, HeldWithoutFrames DEF Live, Held, InHand
<1>. QED
  BY <1>1, <1>2, <1>4, <1>5, ReturnShape, CountersKept, QuietKeeps

-----------------------------------------------------------------------------
(* The calls that load nothing.                                            *)

LEMMA ExtendedRegistry ==
  ASSUME IInv, NEW n, NEW d, registry' = Extend(registry, {n}, d)
  PROVE  /\ IsFiniteSet(DOMAIN registry')
         /\ Range(registry') \subseteq Range(registry) \cup {d}
<1>1. DOMAIN registry' = DOMAIN registry \cup {n}
  BY DEF Extend
<1>2. IsFiniteSet(DOMAIN registry \cup {n})
  BY FS_AddElement DEF IInv, ShapeInv
<1>. QED
  BY <1>1, <1>2 DEF Extend, Range

LEMMA RegisterKeeps ==
  ASSUME IInv, NEW n, NEW d \in modules, Register(n, d)
  PROVE  IInv'
<1>1. /\ frames' = <<>>
      /\ UNCHANGED <<disk, sources, files, nextInline, modules>>
  BY BeginQuiet DEF Register
<1>2. \/ registry' = registry
      \/ registry' = Extend(registry, {n}, d)
  BY DEF Register
<1>3. IsFiniteSet(DOMAIN registry') /\ Range(registry') \subseteq Live
  <2>1. Range(registry) \subseteq Live /\ d \in Live
    BY LiveOnes DEF Range
  <2>2. CASE registry' = registry
    BY <2>1, <2>2 DEF IInv, ShapeInv
  <2>3. CASE registry' = Extend(registry, {n}, d)
    BY <2>1, <2>3, ExtendedRegistry
  <2>. QED
    BY <1>2, <2>2, <2>3
<1>4. PICK r : call' = Idle(r)
  BY DEF Register
<1>5. Live' \subseteq Live
  BY <1>1, <1>3, <1>4, IdleStage, HeldWithoutFrames DEF Live, Held
<1>. QED
  BY <1>1, <1>3, <1>4, <1>5, IdleStage, CountersKept, QuietKeeps

LEMMA DeriveKeeps ==
  ASSUME IInv, NEW d \in modules, Derive(d)
  PROVE  IInv'
<1>1. PICK new : new = Definition(NewIdentity(d),
                         [d.text EXCEPT !.says = Append(@, nextInline)],
                         d.origin, d.imports)
  OBVIOUS
<1>2. /\ frames' = <<>> /\ nextInline' = nextInline + 1 /\ Return(new)
      /\ UNCHANGED <<disk, sources, files, registry>>
  BY <1>1, BeginQuiet DEF Derive
<1>3. new.id = InlineKey(nextInline)
  BY <1>1 DEF Definition, NewIdentity
<1>4. nextInline \in Nat /\ disk' \in Disks /\ IsFiniteSet(DOMAIN registry')
  BY <1>2 DEF IInv, ShapeInv
<1>5. Fresh(new)
  BY <1>2, <1>3, <1>4 DEF Fresh
<1>6. Live' \subseteq Live \cup {new}
  BY <1>2, ReturnShape, HeldWithoutFrames DEF Live, Held
<1>7. nextInline' \in Nat /\ nextInline <= nextInline'
  BY <1>2, <1>4
<1>. QED
  BY <1>2, <1>4, <1>5, <1>6, <1>7, ReturnShape, CallKeeps

(* `transform` finds a generated name that is not taken: among one more    *)
(* numbers than there are names, one is free.                              *)
LEMMA FreeNumberExists ==
  ASSUME nextInline \in Nat, IsFiniteSet(DOMAIN registry)
  PROVE  FreeNumber \in Nat /\ nextInline <= FreeNumber /\ ~Taken(FreeNumber)
<1>. DEFINE c == Cardinality(DOMAIN registry)
            I == nextInline..(nextInline + c)
            F == {n \in I : ~Taken(n)}
<1>1. c \in Nat
  BY FS_CardinalityType
<1>2. I \subseteq Nat
  BY <1>1
<1>3. F # {}
  <2>. SUFFICES ASSUME \A n \in I : Taken(n) PROVE FALSE
    OBVIOUS
  <2>1. IsFiniteSet(I) /\ Cardinality(I) = c + 1
    BY <1>1, FS_Interval
  <2>2. [n \in I |-> Generated(n)] \in [I -> DOMAIN registry]
    BY DEF Taken
  <2>3. PICK x, y \in I : /\ x # y
                          /\ [n \in I |-> Generated(n)][x]
                               = [n \in I |-> Generated(n)][y]
    <3>1. PICK f : f = [n \in I |-> Generated(n)]
      OBVIOUS
    <3>2. f \in [I -> DOMAIN registry]
      BY <2>2, <3>1
    <3>3. c < Cardinality(I)
      BY <1>1, <2>1
    <3>. HIDE DEF I, c
    <3>4. \E x, y \in I : x # y /\ f[x] = f[y]
      BY <2>1, <3>2, <3>3, FS_PigeonHole DEF c
    <3>. QED
      BY <3>1, <3>4
  <2>4. Generated(x) = Generated(y)
    BY <2>3
  <2>. QED
    BY <2>3, <2>4 DEF Generated
<1>4. PICK m \in F : \A k \in F : m <= k
  <2>1. F \in SUBSET Nat
    BY <1>2
  <2>. QED
    BY <1>3, <2>1, LeastNumber
<1>5. \A k \in nextInline..(m - 1) : Taken(k)
  BY <1>1, <1>2, <1>4
<1>6. \E n \in nextInline..(nextInline + Cardinality(DOMAIN registry)) :
        ~Taken(n) /\ \A k \in nextInline..(n - 1) : Taken(k)
  BY <1>4, <1>5
<1>7. /\ FreeNumber \in I /\ ~Taken(FreeNumber)
  BY <1>6 DEF FreeNumber
<1>. QED
  BY <1>1, <1>2, <1>7

LEMMA TransformKeeps ==
  ASSUME IInv, NEW d \in modules, Transform(d)
  PROVE  IInv'
<1>1. PICK n : n = FreeNumber
  OBVIOUS
<1>2. PICK new : new = Definition(InlineKey(n + 1), QueryText(n),
                                  InlineOrigin(Query, None), <<d>>)
  OBVIOUS
<1>3. /\ frames' = <<>> /\ nextInline' = n + 4 /\ Return(new)
      /\ registry' = Extend(registry, {Generated(n)}, d)
      /\ UNCHANGED <<disk, sources, files>>
  BY <1>1, <1>2, BeginQuiet DEF Transform
<1>4. new.id = InlineKey(n + 1)
  BY <1>2 DEF Definition
<1>5. /\ nextInline \in Nat /\ disk' \in Disks
      /\ IsFiniteSet(DOMAIN registry)
  BY <1>3 DEF IInv, ShapeInv
<1>6. n \in Nat /\ nextInline <= n
  BY <1>1, <1>5, FreeNumberExists
<1>7. nextInline' \in Nat /\ nextInline <= nextInline'
  BY <1>3, <1>5, <1>6
<1>8. Fresh(new)
  <2>1. n + 1 \in Nat /\ nextInline <= n + 1 /\ n + 1 < nextInline'
    BY <1>3, <1>5, <1>6
  <2>. QED
    BY <1>4, <2>1 DEF Fresh
<1>9. /\ IsFiniteSet(DOMAIN registry')
      /\ Range(registry') \subseteq Range(registry) \cup {d}
  BY <1>3, ExtendedRegistry
<1>10. Live' \subseteq Live \cup {new}
  <2>1. /\ modules' = modules \cup {new} /\ InHand' = {}
        /\ Held' = Range(files) \cup Range(registry') \cup modules'
    BY <1>3, ReturnShape, HeldWithoutFrames
  <2>2. Range(files) \cup Range(registry) \cup modules \subseteq Live
    BY DEF Live, Held
  <2>. QED
    BY <1>9, <2>1, <2>2 DEF Live
<1>. QED
  BY <1>3, <1>5, <1>7, <1>8, <1>9, <1>10, ReturnShape, CallKeeps

LEMMA FailuresKeep ==
  ASSUME IInv, NEW d \in modules, DeriveFails \/ TransformFails(d)
  PROVE  IInv'
<1>1. /\ frames' = <<>> /\ call' = Idle("error")
      /\ UNCHANGED <<disk, sources, files, modules>>
  BY BeginQuiet DEF DeriveFails, TransformFails
<1>2. /\ nextInline \in Nat /\ disk' \in Disks
      /\ IsFiniteSet(DOMAIN registry)
  BY <1>1 DEF IInv, ShapeInv
<1>3. nextInline' \in Nat /\ nextInline <= nextInline'
  <2>1. CASE DeriveFails
    BY <1>2, <2>1 DEF DeriveFails
  <2>2. CASE TransformFails(d)
    <3>1. FreeNumber \in Nat /\ nextInline <= FreeNumber
      BY <1>2, FreeNumberExists
    <3>2. nextInline' \in (FreeNumber + 2)..(FreeNumber + 4)
      BY <2>2 DEF TransformFails
    <3>. QED
      BY <1>2, <3>1, <3>2
  <2>. QED
    BY <2>1, <2>2
<1>4. /\ IsFiniteSet(DOMAIN registry')
      /\ Range(registry') \subseteq Range(registry) \cup {d}
  <2>1. CASE DeriveFails
    BY <1>2, <2>1 DEF DeriveFails
  <2>2. CASE TransformFails(d)
    BY <2>2, ExtendedRegistry DEF TransformFails
  <2>. QED
    BY <2>1, <2>2
<1>5. Live' \subseteq Live
  BY <1>1, <1>4, IdleStage, HeldWithoutFrames DEF Live, Held
<1>. QED
  BY <1>1, <1>2, <1>3, <1>4, <1>5, IdleStage, QuietKeeps

LEMMA FingerprintKeeps ==
  ASSUME IInv, Fingerprint \/ \E d \in modules : Export(d)
  PROVE  IInv'
<1>1. /\ frames' = <<>> /\ call' = Idle("ok")
      /\ UNCHANGED <<disk, sources, files, registry, nextInline, modules>>
  BY BeginQuiet DEF Fingerprint, Export, context
<1>2. Live' \subseteq Live
  BY <1>1, IdleStage, HeldWithoutFrames DEF Live, Held
<1>3. IsFiniteSet(DOMAIN registry')
  BY <1>1 DEF IInv, ShapeInv
<1>. QED
  BY <1>1, <1>2, <1>3, IdleStage, CountersKept, QuietKeeps

(* A context in which nothing has been made.                               *)
LEMMA NothingMade ==
  ASSUME disk \in Disks, sources = NoEntries, files = NoEntries,
         registry = NoEntries, nextInline = 0, modules = {}, frames = <<>>,
         NEW r, call = Idle(r)
  PROVE  IInv
<1>1. /\ IsCall(call) /\ call.op = "idle" /\ call.stage = "none"
      /\ DOMAIN call.pending = {} /\ Range(call.pending) = {}
      /\ DOMAIN NoEntries = {} /\ Range(NoEntries) = {}
  BY IdleShape
<1>2. \A S : S = {} => IsFiniteSet(S)
  BY FS_EmptySet
<1>3. ShapeInv
  BY <1>1, <1>2, EmptySequence DEF ShapeInv
<1>4. Live = {}
  BY <1>1, EmptySequence DEF Live, Held, InHand
<1>5. StageInv /\ SourcesInv /\ FilesInv
  BY <1>1 DEF StageInv, SourcesInv, FilesInv
<1>6. LiveInv
  BY <1>4 DEF LiveInv
<1>7. FramesInv
  BY EmptySequence DEF FramesInv
<1>. QED
  BY <1>3, <1>5, <1>6, <1>7 DEF IInv

LEMMA NothingMadeNext ==
  ASSUME disk' \in Disks, sources' = NoEntries, files' = NoEntries,
         registry' = NoEntries, nextInline' = 0, modules' = {}, frames' = <<>>,
         NEW r, call' = Idle(r)
  PROVE  IInv'
<1>1. /\ IsCall(call') /\ call'.op = "idle" /\ call'.stage = "none"
      /\ DOMAIN call'.pending = {} /\ Range(call'.pending) = {}
      /\ DOMAIN NoEntries = {} /\ Range(NoEntries) = {}
  BY IdleShape
<1>2. \A S : S = {} => IsFiniteSet(S)
  BY FS_EmptySet
<1>3. ShapeInv'
  BY <1>1, <1>2, EmptySequence DEF ShapeInv
<1>4. Live' = {}
  BY <1>1, EmptySequence DEF Live, Held, InHand
<1>5. StageInv' /\ SourcesInv' /\ FilesInv'
  BY <1>1 DEF StageInv, SourcesInv, FilesInv
<1>6. LiveInv'
  BY <1>4 DEF LiveInv
<1>. QED
  BY <1>3, <1>5, <1>6, NoFrames DEF IInv

LEMMA NewContextKeeps ==
  ASSUME IInv, NewContext
  PROVE  IInv'
<1>1. frames' = <<>> /\ disk' \in Disks
  BY BeginQuiet DEF NewContext, IInv, ShapeInv
<1>. QED
  BY <1>1, NothingMadeNext DEF NewContext

(* Files may change between any two steps.                                 *)
LEMMA OutsideKeeps ==
  ASSUME IInv, UNCHANGED <<context, frames, call>>, disk' \in Disks
  PROVE  IInv'
<1>1. UNCHANGED <<sources, files, registry, nextInline, modules, frames, call>>
  BY DEF context
<1>2. Live' = Live
  BY <1>1 DEF Live, Held, InHand
<1>3. \A id : Numbered(id)' <=> Numbered(id)
  BY <1>1 DEF Numbered
<1>4. ShapeInv'
  BY <1>1 DEF IInv, ShapeInv
<1>5. StageInv'
  BY <1>1, <1>2 DEF IInv, StageInv, Numbered
<1>6. SourcesInv' /\ SourcesGrow
  BY <1>1, SourcesSame DEF IInv, SourcesInv
<1>7. FilesInv' /\ KeysKept
  BY <1>1, FilesStay DEF IInv
<1>8. LiveInv'
  BY <1>1, <1>2, <1>6, <1>7, NothingNew DEF IInv, ShapeInv
<1>9. FramesInv'
  BY <1>1 DEF IInv, FramesInv, KeyedFrame, InlineFrame, FileFrame
<1>. QED
  BY <1>4, <1>5, <1>6, <1>7, <1>8, <1>9 DEF IInv

-----------------------------------------------------------------------------

LEMMA IInvInit == Init => IInv
BY NothingMade DEF Init

LEMMA IInvStep == IInv /\ [Next]_vars => IInv'
<1>. SUFFICES ASSUME IInv, [Next]_vars PROVE IInv'
  OBVIOUS
<1>1. CASE \E at \in Loads : Load(at)
  BY <1>1, LoadKeeps
<1>2. CASE \E content \in Bundles : LoadBundle(content)
  BY <1>2, LoadBundleKeeps
<1>3. CASE \E inline \in Inline : Parse(inline)
  BY <1>3, ParseKeeps
<1>4. CASE Open \/ Import \/ Finish \/ Instantiate
  BY <1>4, OpenKeeps, ImportKeeps, FinishKeeps, InstantiateKeeps
<1>5. CASE RestoreName \/ ObtainNamed \/ Restore
  BY <1>5, RestoreNameKeeps, ObtainNamedKeeps, RestoreKeeps
<1>6. CASE \E d \in modules : \/ \E n \in RegNames : Register(n, d)
                              \/ Derive(d) \/ Transform(d)
                              \/ DeriveFails \/ TransformFails(d)
  BY <1>6, RegisterKeeps, DeriveKeeps, TransformKeeps, FailuresKeep
<1>7. CASE Fingerprint \/ \E d \in modules : Export(d)
  BY <1>7, FingerprintKeeps
<1>8. CASE NewContext
  BY <1>8, NewContextKeeps
<1>9. CASE Edit \/ UNCHANGED vars
  BY <1>9, OutsideKeeps DEF Edit, vars, IInv, ShapeInv
<1>. QED
  BY <1>1, <1>2, <1>3, <1>4, <1>5, <1>6, <1>7, <1>8, <1>9 DEF Next

LEMMA AlwaysIInv == Spec => []IInv
BY IInvInit, IInvStep, PTL DEF Spec

(* Inference, `pack` and `fingerprint` look definitions up by identity: no *)
(* two definitions of a context share one, whatever failed, changed on     *)
(* disk or was derived in between (`instantiate`, `Sources`).              *)
THEOREM IdentitiesAreUnique == Spec => []OneDefinitionPerIdentity
<1>1. IInv => OneDefinitionPerIdentity
  BY DEF IInv, LiveInv, Live, OneDefinitionPerIdentity
<1>. QED
  BY <1>1, AlwaysIInv, PTL

(* A context shows one text of a file, under whatever name and bundle root *)
(* it is asked for, however often it changes (`read_text`, `file`).        *)
THEOREM TextsAreSnapshots == Spec => []OneTextPerFile
<1>1. IInv => OneTextPerFile
  <2>. SUFFICES ASSUME IInv, NEW d \in Held, NEW e \in Held,
                       IsFile(d), IsFile(e), d.id.path = e.id.path
                PROVE  d.text = e.text
    BY DEF OneTextPerFile
  <2>1. Sound(d) /\ Sound(e)
    BY DEF IInv, LiveInv, Live
  <2>. QED
    BY <2>1 DEF Sound
<1>. QED
  BY <1>1, AlwaysIInv, PTL

(* Nothing a directory bundle imports lies outside of it, also when it is  *)
(* reached by a link or was loaded before without the bundle (`file`).     *)
THEOREM BundlesAreClosed == Spec => []Contained
<1>1. IInv => Contained
  <2>. SUFFICES ASSUME IInv, NEW d \in Held, IsFile(d), d.id.root # None,
                       NEW e \in {d} \cup Range(d.imports)
                PROVE  Within(e, d.id.root)
    BY DEF Contained
  <2>1. Sound(d)
    BY DEF IInv, LiveInv, Live
  <2>2. Inside(e.id, d.id.root)
    <3>1. CASE e = d
      <4>1. Kept(d)
        <5>1. \A k \in Nat : "path" \notin DOMAIN InlineKey(k)
          BY DEF InlineKey
        <5>. QED
          BY <2>1, <5>1 DEF Sound, Numbered, IsFile
      <4>2. Denotes(d.id, d.id)
        BY <4>1 DEF IInv, FilesInv, Kept, KeptIn
      <4>. QED
        BY <3>1, <4>2 DEF Denotes, IsFile
    <3>2. CASE e \in Range(d.imports)
      BY <2>1, <3>2 DEF Sound
    <3>. QED
      BY <3>1, <3>2
  <2>. QED
    BY <2>2 DEF Inside, Within, IsFile
<1>. QED
  BY <1>1, AlwaysIInv, PTL

-----------------------------------------------------------------------------
(***************************************************************************)
(* What a context exports comes back: what is made of an archive that      *)
(* `pack` wrote says what the context said of the module and of every      *)
(* registered name, for every set of texts, names and archives.            *)
(*                                                                         *)
(* `pack` collects breadth first, with as many turns as definitions are    *)
(* held: that finds everything that is imported, each identity once, and   *)
(* the names it gives differ.  So the archive says, member by member, what *)
(* the definitions say.  Loading goes the other way: a frame of a member   *)
(* holds one import for each name in the text of the member, in order, and *)
(* all of one archive, so that the digest of what is finished is the one   *)
(* that the archive says.  Archives in memory have numbers that are given  *)
(* once, and are never mixed up; a ZIP on the disk may be rewritten        *)
(* between two loads, and then nothing is promised.                        *)
(***************************************************************************)

(* What `pack` collects.  The recursions of the module, one step at a time. *)

LEMMA Stepwise ==
  ASSUME NEW S, 0 \in S, \A n \in Nat : n \in S => n + 1 \in S
  PROVE  \A n \in Nat : n \in S
<1>. DEFINE T == {n \in Nat : n \notin S}
<1>. SUFFICES ASSUME T # {} PROVE FALSE
  OBVIOUS
<1>1. PICK m \in T : \A k \in T : m <= k
  BY LeastNumber
<1>2. m \in Nat \ {0}
  OBVIOUS
<1>3. m - 1 \in Nat /\ m - 1 \in S
  BY <1>1, <1>2
<1>. QED
  BY <1>2, <1>3

(* A sequence of definitions added one by one.                             *)
Adding(found, ds, last, add) ==
  /\ add = [n \in 0..last |-> add[n]] /\ add[0] = found
  /\ \A n \in 1..last : add[n] = With(add[n - 1], ds[n])

LEMMA AddingExists ==
  ASSUME NEW found, NEW ds
  PROVE  \A last \in Nat : \E add : Adding(found, ds, last, add)
<1>. DEFINE S == {m \in Nat : \E add : Adding(found, ds, m, add)}
<1>1. 0 \in S
  <2>. DEFINE f == [n \in 0..0 |-> found]
  <2>1. f = [n \in 0..0 |-> f[n]] /\ f[0] = found /\ 1..0 = {}
    OBVIOUS
  <2>. QED
    BY <2>1 DEF Adding
<1>2. ASSUME NEW m \in Nat, m \in S PROVE m + 1 \in S
  <2>1. PICK f : Adding(found, ds, m, f)
    BY <1>2
  <2>. DEFINE g == [n \in 0..(m + 1) |-> IF n = m + 1 THEN With(f[m], ds[m + 1])
                                        ELSE f[n]]
  <2>2. g = [n \in 0..(m + 1) |-> g[n]]
    OBVIOUS
  <2>3. /\ g[m + 1] = With(f[m], ds[m + 1])
        /\ \A n \in 0..m : g[n] = f[n]
    OBVIOUS
  <2>. HIDE DEF g
  <2>4. g[0] = found
    BY <2>1, <2>3 DEF Adding
  <2>5. ASSUME NEW n \in 1..(m + 1) PROVE g[n] = With(g[n - 1], ds[n])
    <3>1. n - 1 \in 0..m /\ g[n - 1] = f[n - 1]
      BY <2>3
    <3>2. CASE n = m + 1
      BY <2>3, <3>1, <3>2
    <3>3. CASE n \in 1..m
      <4>1. g[n] = f[n]
        BY <2>3, <3>3
      <4>2. f[n] = With(f[n - 1], ds[n])
        BY <2>1, <3>3 DEF Adding
      <4>. QED
        BY <3>1, <4>1, <4>2
    <3>. QED
      BY <3>2, <3>3
  <2>6. Adding(found, ds, m + 1, g)
    BY <2>2, <2>4, <2>5 DEF Adding
  <2>. QED
    BY <2>6
<1>. HIDE DEF S
<1>3. \A m \in Nat : m \in S
  BY <1>1, <1>2, Stepwise
<1>. QED
  BY <1>3 DEF S

LEMMA AddNewSteps ==
  ASSUME NEW found, NEW ds, Len(ds) \in Nat
  PROVE  \E add : Adding(found, ds, Len(ds), add) /\ AddNew(found, ds) = add[Len(ds)]
<1>. DEFINE Onward(f) == [n \in 0..Len(ds) |->
                           IF n = 0 THEN found ELSE With(f[n - 1], ds[n])]
            add == CHOOSE f : f = Onward(f)
<1>1. PICK f : Adding(found, ds, Len(ds), f)
  BY AddingExists
<1>2. f = Onward(f)
  <2>. DEFINE b == Onward(f)
  <2>1. b = [n \in 0..Len(ds) |-> b[n]]
    OBVIOUS
  <2>2. \A n \in 0..Len(ds) : b[n] = IF n = 0 THEN found ELSE With(f[n - 1], ds[n])
    OBVIOUS
  <2>. HIDE DEF b
  <2>3. \A n \in 0..Len(ds) : f[n] = b[n]
    BY <1>1, <2>2 DEF Adding
  <2>. QED
    BY <1>1, <2>1, <2>3 DEF Adding, b
<1>3. add = Onward(add)
  BY <1>2
<1>4. AddNew(found, ds) = add[Len(ds)]
  BY DEF AddNew
<1>. HIDE DEF add
<1>5. Adding(found, ds, Len(ds), add)
  <2>1. \A n \in 0..Len(ds) : add[n] = IF n = 0 THEN found ELSE With(add[n - 1], ds[n])
    BY <1>3
  <2>2. add = [n \in 0..Len(ds) |-> add[n]]
    BY <1>3
  <2>. HIDE DEF Onward
  <2>. QED
    BY <2>1, <2>2 DEF Adding
<1>. QED
  BY <1>4, <1>5

(* The definitions of a set in a sequence, each once.                      *)
Once(found, S) ==
  /\ IsSequence(found) /\ Range(found) \subseteq S
  /\ \A i, j \in DOMAIN found : found[i].id = found[j].id => i = j

(* No two of the set share an identity.                                    *)
Distinct(S) == \A d, e \in S : d.id = e.id => d = e

(* One sequence is another with more at its end.                           *)
Longer(found, more) ==
  Len(found) <= Len(more) /\ \A i \in DOMAIN found : more[i] = found[i]

LEMMA WithOne ==
  ASSUME NEW S, Distinct(S), NEW found, Once(found, S), NEW d \in S
  PROVE  /\ Once(With(found, d), S) /\ Longer(found, With(found, d))
         /\ Range(With(found, d)) = Range(found) \cup {d}
<1>1. Len(found) \in Nat /\ DOMAIN found = 1..Len(found)
      /\ \A i \in DOMAIN found : found[i] \in Range(found)
  BY SequenceFacts DEF Once
<1>2. CASE \E i \in DOMAIN found : found[i].id = d.id
  <2>1. PICK i \in DOMAIN found : found[i].id = d.id
    BY <1>2
  <2>2. found[i] = d
    BY <1>1, <2>1 DEF Once, Distinct
  <2>. QED
    BY <1>1, <1>2, <2>2 DEF With, Once, Longer
<1>3. CASE ~\E i \in DOMAIN found : found[i].id = d.id
  <2>1. With(found, d) = Append(found, d)
    BY <1>3 DEF With
  <2>. DEFINE t == Append(found, d)
  <2>2. /\ IsSequence(t) /\ Len(t) = Len(found) + 1
        /\ \A i \in DOMAIN found : t[i] = found[i]
        /\ t[Len(found) + 1] = d /\ Range(t) = Range(found) \cup {d}
    BY SequenceAppend DEF Once
  <2>. HIDE DEF t
  <2>3. DOMAIN t = 1..(Len(found) + 1)
    BY <2>2, SequenceFacts
  <2>4. Once(t, S)
    <3>1. Range(t) \subseteq S
      BY <2>2 DEF Once
    <3>2. \A i, j \in DOMAIN t : t[i].id = t[j].id => i = j
      BY <1>1, <1>3, <2>2, <2>3 DEF Once
    <3>. QED
      BY <2>2, <3>1, <3>2 DEF Once
  <2>5. Longer(found, t)
    BY <1>1, <2>2 DEF Longer
  <2>. QED
    BY <2>1, <2>2, <2>4, <2>5 DEF t
<1>. QED
  BY <1>2, <1>3

LEMMA LongerStill ==
  ASSUME NEW a, NEW b, NEW c, IsSequence(a), IsSequence(b), IsSequence(c),
         Longer(a, b), Longer(b, c)
  PROVE  Longer(a, c)
<1>1. /\ Len(a) \in Nat /\ DOMAIN a = 1..Len(a)
      /\ Len(b) \in Nat /\ DOMAIN b = 1..Len(b) /\ Len(c) \in Nat
  BY SequenceFacts
<1>. QED
  BY <1>1 DEF Longer

LEMMA AddedOnce ==
  ASSUME NEW S, Distinct(S), NEW found, Once(found, S),
         NEW ds, IsSequence(ds), Range(ds) \subseteq S
  PROVE  /\ Once(AddNew(found, ds), S) /\ Longer(found, AddNew(found, ds))
         /\ Range(AddNew(found, ds)) = Range(found) \cup Range(ds)
<1>1. Len(ds) \in Nat /\ DOMAIN ds = 1..Len(ds)
      /\ \A i \in DOMAIN ds : ds[i] \in Range(ds)
  BY SequenceFacts
<1>2. PICK add : Adding(found, ds, Len(ds), add) /\ AddNew(found, ds) = add[Len(ds)]
  BY <1>1, AddNewSteps
<1>. DEFINE Upto(n) == Range(found) \cup {ds[k] : k \in 1..n}
            T == {n \in Nat : n <= Len(ds) => /\ Once(add[n], S) /\ Longer(found, add[n])
                                              /\ Range(add[n]) = Upto(n)}
<1>3. 0 \in T
  <2>1. add[0] = found /\ 1..0 = {}
    BY <1>2 DEF Adding
  <2>2. Len(found) \in Nat
    BY SequenceFacts DEF Once
  <2>. QED
    BY <2>1, <2>2 DEF Longer
<1>4. ASSUME NEW n \in Nat, n \in T PROVE n + 1 \in T
  <2>. SUFFICES ASSUME n + 1 <= Len(ds)
                PROVE  /\ Once(add[n + 1], S) /\ Longer(found, add[n + 1])
                       /\ Range(add[n + 1]) = Upto(n + 1)
    OBVIOUS
  <2>1. Once(add[n], S) /\ Longer(found, add[n]) /\ Range(add[n]) = Upto(n)
    BY <1>1, <1>4
  <2>2. n + 1 \in 1..Len(ds) /\ ds[n + 1] \in S
    BY <1>1
  <2>3. add[n + 1] = With(add[n], ds[n + 1])
    <3>1. add[n + 1] = With(add[(n + 1) - 1], ds[n + 1])
      BY <1>2, <2>2 DEF Adding
    <3>2. (n + 1) - 1 = n
      OBVIOUS
    <3>. QED
      BY <3>1, <3>2
  <2>4. /\ Once(add[n + 1], S) /\ Longer(add[n], add[n + 1])
        /\ Range(add[n + 1]) = Upto(n) \cup {ds[n + 1]}
    BY <2>1, <2>2, <2>3, WithOne
  <2>5. Upto(n + 1) = Upto(n) \cup {ds[n + 1]}
    <3>1. 1..(n + 1) = 1..n \cup {n + 1}
      OBVIOUS
    <3>. QED
      BY <3>1
  <2>6. Longer(found, add[n + 1])
    BY <2>1, <2>4, LongerStill DEF Once
  <2>. QED
    BY <2>4, <2>5, <2>6
<1>. HIDE DEF T
<1>5. Len(ds) \in T
  BY <1>1, <1>3, <1>4, Stepwise
<1>6. /\ Once(add[Len(ds)], S) /\ Longer(found, add[Len(ds)])
      /\ Range(add[Len(ds)]) = Upto(Len(ds))
  BY <1>1, <1>5 DEF T
<1>7. Upto(Len(ds)) = Range(found) \cup Range(ds)
  BY <1>1 DEF Range
<1>. QED
  BY <1>2, <1>6, <1>7

LEMMA OneElement ==
  ASSUME NEW x
  PROVE  IsSequence(<<x>>) /\ Len(<<x>>) = 1 /\ <<x>>[1] = x /\ Range(<<x>>) = {x}
<1>1. Range(<<x>>) = {x}
  BY DEF Range
<1>2. <<x>> \in Seq({x})
  OBVIOUS
<1>. QED
  BY <1>1, <1>2 DEF IsSequence

LEMMA AddedFirst ==
  ASSUME NEW ds, IsSequence(ds), ds # <<>>
  PROVE  Longer(<<ds[1]>>, AddNew(<<>>, ds))
<1>1. Len(ds) \in Nat \ {0}
  BY SequenceFacts, EmptySeq DEF IsSequence
<1>2. PICK add : Adding(<<>>, ds, Len(ds), add) /\ AddNew(<<>>, ds) = add[Len(ds)]
  BY <1>1, AddNewSteps
<1>. DEFINE T == {n \in Nat : n + 1 <= Len(ds) =>
                    IsSequence(add[n + 1]) /\ Longer(<<ds[1]>>, add[n + 1])}
<1>3. 0 \in T
  <2>1. add[1] = With(add[0], ds[1]) /\ add[0] = <<>>
    <3>1. 1 \in 1..Len(ds) /\ 1 - 1 = 0
      BY <1>1
    <3>. QED
      BY <1>2, <3>1 DEF Adding
  <2>2. add[1] = <<ds[1]>>
    BY <2>1, EmptySequence DEF With
  <2>3. /\ IsSequence(add[1]) /\ Len(add[1]) = 1 /\ add[1][1] = ds[1]
    BY <2>2, OneElement
  <2>4. Longer(<<ds[1]>>, add[1])
    BY <2>3 DEF Longer
  <2>. QED
    BY <2>3, <2>4
<1>4. ASSUME NEW n \in Nat, n \in T PROVE n + 1 \in T
  <2>. SUFFICES ASSUME n + 2 <= Len(ds)
                PROVE  IsSequence(add[n + 2]) /\ Longer(<<ds[1]>>, add[n + 2])
    OBVIOUS
  <2>1. IsSequence(add[n + 1]) /\ Longer(<<ds[1]>>, add[n + 1])
    BY <1>1, <1>4
  <2>2. add[n + 2] = With(add[n + 1], ds[n + 2])
    <3>1. n + 2 \in 1..Len(ds) /\ (n + 2) - 1 = n + 1
      BY <1>1
    <3>2. add[n + 2] = With(add[(n + 2) - 1], ds[n + 2])
      BY <1>2, <3>1 DEF Adding
    <3>. QED
      BY <3>1, <3>2
  <2>3. /\ IsSequence(Append(add[n + 1], ds[n + 2]))
        /\ Len(Append(add[n + 1], ds[n + 2])) = Len(add[n + 1]) + 1
        /\ \A i \in DOMAIN add[n + 1] : Append(add[n + 1], ds[n + 2])[i] = add[n + 1][i]
    BY <2>1, SequenceAppend
  <2>4. Len(add[n + 1]) \in Nat /\ DOMAIN add[n + 1] = 1..Len(add[n + 1])
    BY <2>1, SequenceFacts
  <2>5. add[n + 2] = add[n + 1] \/ add[n + 2] = Append(add[n + 1], ds[n + 2])
    BY <2>2 DEF With
  <2>6. CASE add[n + 2] = add[n + 1]
    BY <2>1, <2>6
  <2>7. CASE add[n + 2] = Append(add[n + 1], ds[n + 2])
    <3>1. Longer(add[n + 1], add[n + 2])
      BY <2>3, <2>4, <2>7 DEF Longer
    <3>. QED
      BY <2>1, <2>3, <2>7, <3>1, OneElement, LongerStill
  <2>. QED
    BY <2>5, <2>6, <2>7
<1>. HIDE DEF T
<1>5. Len(ds) - 1 \in T
  BY <1>1, <1>3, <1>4, Stepwise
<1>6. (Len(ds) - 1) + 1 = Len(ds)
  BY <1>1
<1>. QED
  BY <1>1, <1>2, <1>5, <1>6 DEF T

(* Breadth first, one definition at a time.                                *)
Walking(roots, last, walk) ==
  /\ walk = [n \in 0..last |-> walk[n]] /\ walk[0] = AddNew(<<>>, roots)
  /\ \A n \in 1..last : walk[n] = Visited(walk[n - 1], n)

LEMMA WalkingExists ==
  ASSUME NEW roots
  PROVE  \A last \in Nat : \E walk : Walking(roots, last, walk)
<1>. DEFINE S == {m \in Nat : \E walk : Walking(roots, m, walk)}
<1>1. 0 \in S
  <2>. DEFINE f == [n \in 0..0 |-> AddNew(<<>>, roots)]
  <2>1. f = [n \in 0..0 |-> f[n]] /\ f[0] = AddNew(<<>>, roots) /\ 1..0 = {}
    OBVIOUS
  <2>. QED
    BY <2>1 DEF Walking
<1>2. ASSUME NEW m \in Nat, m \in S PROVE m + 1 \in S
  <2>1. PICK f : Walking(roots, m, f)
    BY <1>2
  <2>. DEFINE g == [n \in 0..(m + 1) |-> IF n = m + 1 THEN Visited(f[m], m + 1)
                                        ELSE f[n]]
  <2>2. g = [n \in 0..(m + 1) |-> g[n]]
    OBVIOUS
  <2>3. /\ g[m + 1] = Visited(f[m], m + 1)
        /\ \A n \in 0..m : g[n] = f[n]
    OBVIOUS
  <2>. HIDE DEF g
  <2>4. g[0] = AddNew(<<>>, roots)
    BY <2>1, <2>3 DEF Walking
  <2>5. ASSUME NEW n \in 1..(m + 1) PROVE g[n] = Visited(g[n - 1], n)
    <3>1. n - 1 \in 0..m /\ g[n - 1] = f[n - 1]
      BY <2>3
    <3>2. CASE n = m + 1
      BY <2>3, <3>1, <3>2
    <3>3. CASE n \in 1..m
      <4>1. g[n] = f[n]
        BY <2>3, <3>3
      <4>2. f[n] = Visited(f[n - 1], n)
        BY <2>1, <3>3 DEF Walking
      <4>. QED
        BY <3>1, <4>1, <4>2
    <3>. QED
      BY <3>2, <3>3
  <2>6. Walking(roots, m + 1, g)
    BY <2>2, <2>4, <2>5 DEF Walking
  <2>. QED
    BY <2>6
<1>. HIDE DEF S
<1>3. \A m \in Nat : m \in S
  BY <1>1, <1>2, Stepwise
<1>. QED
  BY <1>3 DEF S

LEMMA CollectedSteps ==
  ASSUME NEW roots, NEW most \in Nat
  PROVE  \E walk : Walking(roots, most, walk) /\ Collected(roots, most) = walk[most]
<1>. DEFINE Onward(f) == [n \in 0..most |-> IF n = 0 THEN AddNew(<<>>, roots)
                                           ELSE Visited(f[n - 1], n)]
            walk == CHOOSE f : f = Onward(f)
<1>1. PICK f : Walking(roots, most, f)
  BY WalkingExists
<1>2. f = Onward(f)
  <2>. DEFINE b == Onward(f)
  <2>1. b = [n \in 0..most |-> b[n]]
    OBVIOUS
  <2>2. \A n \in 0..most : b[n] = IF n = 0 THEN AddNew(<<>>, roots)
                                 ELSE Visited(f[n - 1], n)
    OBVIOUS
  <2>. HIDE DEF b
  <2>3. ASSUME NEW n \in 0..most PROVE f[n] = b[n]
    <3>1. CASE n = 0
      BY <1>1, <2>2, <3>1 DEF Walking
    <3>2. CASE n \in 1..most
      <4>1. f[n] = Visited(f[n - 1], n)
        BY <1>1, <3>2 DEF Walking
      <4>. QED
        BY <2>2, <3>2, <4>1
    <3>. QED
      BY <3>1, <3>2
  <2>. QED
    BY <1>1, <2>1, <2>3 DEF Walking, b
<1>3. walk = Onward(walk)
  BY <1>2
<1>4. Collected(roots, most) = walk[most]
  BY DEF Collected
<1>. HIDE DEF walk
<1>5. Walking(roots, most, walk)
  <2>1. \A n \in 0..most : walk[n] = IF n = 0 THEN AddNew(<<>>, roots)
                                    ELSE Visited(walk[n - 1], n)
    BY <1>3
  <2>2. walk = [n \in 0..most |-> walk[n]]
    BY <1>3
  <2>. HIDE DEF Onward
  <2>. QED
    BY <2>1, <2>2 DEF Walking
<1>. QED
  BY <1>4, <1>5

(* A set that holds with each definition what it imports.                  *)
Closed(S) == \A e \in S : IsSequence(e.imports) /\ Range(e.imports) \subseteq S

LEMMA OnceIsShort ==
  ASSUME NEW S, IsFiniteSet(S), NEW found, Once(found, S)
  PROVE  Len(found) <= Cardinality(S)
<1>1. /\ Len(found) \in Nat /\ DOMAIN found = 1..Len(found)
      /\ \A i \in DOMAIN found : found[i] \in S
  BY SequenceFacts DEF Once
<1>2. Cardinality(S) \in Nat
  BY FS_CardinalityType
<1>. SUFFICES ASSUME Cardinality(S) < Len(found) PROVE FALSE
  BY <1>1, <1>2
<1>3. IsFiniteSet(1..Len(found)) /\ Cardinality(1..Len(found)) = Len(found)
  BY <1>1, FS_Interval
<1>. DEFINE f == [i \in 1..Len(found) |-> found[i]]
<1>4. f \in [1..Len(found) -> S] /\ \A i \in 1..Len(found) : f[i] = found[i]
  BY <1>1
<1>. HIDE DEF f
<1>5. \E i, j \in 1..Len(found) : i # j /\ f[i] = f[j]
  BY <1>3, <1>4, FS_PigeonHole
<1>. QED
  BY <1>1, <1>4, <1>5 DEF Once

(* `source_files` finds everything the roots lead to, each once, and the   *)
(* root first.                                                             *)
LEMMA CollectedAll ==
  ASSUME NEW S, IsFiniteSet(S), Distinct(S), Closed(S),
         NEW roots, IsSequence(roots), roots # <<>>, Range(roots) \subseteq S
  PROVE  LET found == Collected(roots, Cardinality(S)) IN
         /\ Once(found, S) /\ Longer(<<roots[1]>>, found)
         /\ Range(roots) \subseteq Range(found)
         /\ \A e \in Range(found) : Range(e.imports) \subseteq Range(found)
<1>. DEFINE most == Cardinality(S)
<1>1. most \in Nat
  BY FS_CardinalityType
<1>2. PICK walk : Walking(roots, most, walk) /\ Collected(roots, most) = walk[most]
  BY <1>1, CollectedSteps
<1>. DEFINE Good(found, n) ==
              /\ Once(found, S) /\ Longer(<<roots[1]>>, found)
              /\ Range(roots) \subseteq Range(found)
              /\ \A i \in DOMAIN found : i <= n =>
                   Range(found[i].imports) \subseteq Range(found)
            T == {n \in Nat : n <= most => Good(walk[n], n)}
<1>3. 0 \in T
  <2>1. walk[0] = AddNew(<<>>, roots)
    BY <1>2 DEF Walking
  <2>2. Once(<<>>, S)
    BY EmptySequence DEF Once
  <2>3. /\ Once(walk[0], S) /\ Range(walk[0]) = Range(<<>>) \cup Range(roots)
    BY <2>1, <2>2, AddedOnce
  <2>4. Longer(<<roots[1]>>, walk[0])
    BY <2>1, AddedFirst
  <2>5. \A i \in DOMAIN walk[0] : ~ (i <= 0)
    BY <2>3, SequenceFacts DEF Once
  <2>. QED
    BY <2>3, <2>4, <2>5
<1>4. ASSUME NEW n \in Nat, n \in T PROVE n + 1 \in T
  <2>. SUFFICES ASSUME n + 1 <= most PROVE Good(walk[n + 1], n + 1)
    OBVIOUS
  <2>. DEFINE old == walk[n]
  <2>1. Good(old, n)
    BY <1>1, <1>4
  <2>2. walk[n + 1] = Visited(old, n + 1)
    <3>1. n + 1 \in 1..most /\ (n + 1) - 1 = n
      BY <1>1
    <3>2. walk[n + 1] = Visited(walk[(n + 1) - 1], n + 1)
      BY <1>2, <3>1 DEF Walking
    <3>. QED
      BY <3>1, <3>2
  <2>3. /\ Len(old) \in Nat /\ DOMAIN old = 1..Len(old)
        /\ \A i \in DOMAIN old : old[i] \in Range(old) /\ old[i] \in S
    BY <2>1, SequenceFacts DEF Once
  <2>. HIDE DEF old
  <2>4. CASE n + 1 > Len(old)
    <3>1. walk[n + 1] = old
      BY <2>2, <2>4 DEF Visited
    <3>. QED
      BY <2>1, <2>3, <2>4, <3>1
  <2>5. CASE ~ (n + 1 > Len(old))
    <3>. DEFINE more == old[n + 1].imports
                new == AddNew(old, more)
    <3>1. n + 1 \in DOMAIN old /\ walk[n + 1] = new
      BY <2>2, <2>3, <2>5 DEF Visited
    <3>2. IsSequence(more) /\ Range(more) \subseteq S
      BY <2>3, <3>1 DEF Closed
    <3>3. /\ Once(new, S) /\ Longer(old, new)
          /\ Range(new) = Range(old) \cup Range(more)
      BY <2>1, <3>2, AddedOnce
    <3>. HIDE DEF new
    <3>4. Len(new) \in Nat /\ DOMAIN new = 1..Len(new)
      BY <3>3, SequenceFacts DEF Once
    <3>5. ASSUME NEW i \in DOMAIN new, i <= n + 1
          PROVE  Range(new[i].imports) \subseteq Range(new)
      <4>1. i \in DOMAIN old /\ new[i] = old[i]
        BY <2>3, <3>1, <3>3, <3>4, <3>5 DEF Longer
      <4>2. CASE i = n + 1
        BY <3>3, <4>1, <4>2
      <4>3. CASE i # n + 1
        <5>1. i <= n
          BY <3>4, <3>5, <4>3
        <5>. QED
          BY <2>1, <3>3, <4>1, <5>1
      <4>. QED
        BY <4>2, <4>3
    <3>6. Longer(<<roots[1]>>, new)
      BY <2>1, <3>3, OneElement, LongerStill DEF Once
    <3>. QED
      BY <2>1, <3>1, <3>3, <3>5, <3>6
  <2>. QED
    BY <2>4, <2>5
<1>. HIDE DEF T
<1>5. most \in T
  BY <1>1, <1>3, <1>4, Stepwise
<1>. DEFINE found == walk[most]
<1>6. Good(found, most)
  BY <1>1, <1>5 DEF T
<1>7. Len(found) <= most
  BY <1>6, OnceIsShort
<1>8. \A e \in Range(found) : \E i \in DOMAIN found : i <= most /\ found[i] = e
  <2>1. Len(found) \in Nat /\ DOMAIN found = 1..Len(found)
    BY <1>6, SequenceFacts DEF Once
  <2>. QED
    BY <1>1, <1>7, <2>1 DEF Range
<1>. HIDE DEF found, most
<1>9. \A e \in Range(found) : Range(e.imports) \subseteq Range(found)
  BY <1>6, <1>8
<1>. QED
  BY <1>2, <1>6, <1>9 DEF found, most

-----------------------------------------------------------------------------
(* The names that `pack` gives.                                            *)

LEMMA SequenceOfSet ==
  ASSUME NEW S, IsFiniteSet(S)
  PROVE  IsSequence(SetToSeq(S)) /\ Range(SetToSeq(S)) = S
<1>. DEFINE n == Cardinality(S)
            s == SetToSeq(S)
<1>1. n \in Nat /\ ExistsBijection(1..n, S)
  BY FS_CardinalityType
<1>2. PICK f : f \in Bijection(1..n, S)
  BY <1>1 DEF ExistsBijection
<1>3. f \in [1..n -> S] /\ IsInjective(f)
  BY <1>2 DEF Bijection, Injection, IsInjective
<1>4. s \in [1..n -> S] /\ IsInjective(s)
  BY <1>3 DEF SetToSeq
<1>. HIDE DEF s
<1>5. IsFiniteSet(1..n) /\ Cardinality(1..n) = n
  BY <1>1, FS_Interval
<1>6. s \in Injection(1..n, S)
  BY <1>4 DEF Injection, IsInjective
<1>7. s \in Surjection(1..n, S)
  BY <1>5, <1>6, FS_Injection
<1>8. \A x \in S : \E i \in 1..n : s[i] = x
  BY <1>7 DEF Surjection
<1>9. s = [i \in 1..n |-> s[i]] /\ DOMAIN s = 1..n /\ \A i \in 1..n : s[i] \in S
  BY <1>4
<1>10. Range(s) = S
  BY <1>8, <1>9 DEF Range
<1>11. IsSequence(s)
  BY <1>1, <1>9, Typed
<1>. QED
  BY <1>10, <1>11 DEF s

LEMMA SequenceOfSeq ==
  ASSUME NEW S, NEW s \in Seq(S)
  PROVE  IsSequence(s) /\ Range(s) \subseteq S
<1>1. Len(s) \in Nat /\ s = [i \in 1..Len(s) |-> s[i]] /\ DOMAIN s = 1..Len(s)
      /\ \A i \in 1..Len(s) : s[i] \in S
  BY LenProperties, ElementOfSeq
<1>. QED
  BY <1>1, Typed DEF Range

LEMMA FirstAndRest ==
  ASSUME NEW d, NEW s, IsSequence(s)
  PROVE  LET t == <<d>> \o s IN
         IsSequence(t) /\ t # <<>> /\ t[1] = d /\ Range(t) = {d} \cup Range(s)
<1>. DEFINE S == {d} \cup Range(s)
            t == <<d>> \o s
<1>1. <<d>> \in Seq(S) /\ s \in Seq(S)
  BY SeqMonotonic DEF IsSequence
<1>2. /\ Len(s) \in Nat /\ DOMAIN s = 1..Len(s) /\ Len(<<d>>) = 1 /\ <<d>>[1] = d
  BY SequenceFacts, OneElement
<1>3. /\ t \in Seq(S) /\ Len(t) = 1 + Len(s)
      /\ \A i \in 1..(1 + Len(s)) : t[i] = IF i <= 1 THEN <<d>>[i] ELSE s[i - 1]
  BY <1>1, <1>2, ConcatProperties
<1>4. IsSequence(t) /\ Range(t) \subseteq S /\ DOMAIN t = 1..Len(t)
  BY <1>3, SequenceOfSeq, LenProperties
<1>. HIDE DEF t
<1>5. t[1] = d
  BY <1>2, <1>3
<1>6. \A i \in DOMAIN s : t[i + 1] = s[i] /\ i + 1 \in DOMAIN t
  BY <1>2, <1>3, <1>4
<1>7. S \subseteq Range(t)
  <2>1. d \in Range(t)
    BY <1>2, <1>3, <1>4, <1>5 DEF Range
  <2>2. \A x \in Range(s) : x \in Range(t)
    BY <1>6 DEF Range
  <2>. QED
    BY <2>1, <2>2
<1>8. t # <<>>
  BY <1>2, <1>3
<1>. QED
  BY <1>4, <1>5, <1>7, <1>8 DEF t

(* The name of the i-th definition, when those before it have theirs.      *)
Unused(base, i, name) ==
  {n \in 1..i : <<base, n>> \notin {name[j] : j \in 1..(i - 1)}}
NextName(found, i, name) ==
  IF i = 1 THEN Main
  ELSE <<Base(found[i].origin), Min(Unused(Base(found[i].origin), i, name))>>
Naming(found, last, name) ==
  /\ name = [i \in 1..last |-> name[i]]
  /\ \A i \in 1..last : name[i] = NextName(found, i, name)

LEMMA NamingExists ==
  ASSUME NEW found
  PROVE  \A last \in Nat : \E name : Naming(found, last, name)
<1>. DEFINE S == {m \in Nat : \E name : Naming(found, m, name)}
<1>1. 0 \in S
  <2>. DEFINE f == [i \in 1..0 |-> Main]
  <2>1. f = [i \in 1..0 |-> f[i]] /\ 1..0 = {}
    OBVIOUS
  <2>. QED
    BY <2>1 DEF Naming
<1>2. ASSUME NEW m \in Nat, m \in S PROVE m + 1 \in S
  <2>1. PICK f : Naming(found, m, f)
    BY <1>2
  <2>. DEFINE g == [i \in 1..(m + 1) |-> IF i = m + 1 THEN NextName(found, m + 1, f)
                                        ELSE f[i]]
  <2>2. g = [i \in 1..(m + 1) |-> g[i]]
    OBVIOUS
  <2>3. /\ g[m + 1] = NextName(found, m + 1, f)
        /\ \A i \in 1..m : g[i] = f[i]
    OBVIOUS
  <2>. HIDE DEF g
  <2>4. ASSUME NEW i \in 1..(m + 1) PROVE NextName(found, i, g) = NextName(found, i, f)
    <3>1. {g[j] : j \in 1..(i - 1)} = {f[j] : j \in 1..(i - 1)}
      <4>1. \A j \in 1..(i - 1) : g[j] = f[j]
        BY <2>3
      <4>. QED
        BY <4>1
    <3>. QED
      BY <3>1 DEF NextName, Unused
  <2>5. ASSUME NEW i \in 1..(m + 1) PROVE g[i] = NextName(found, i, g)
    <3>1. CASE i = m + 1
      BY <2>3, <2>4, <3>1
    <3>2. CASE i \in 1..m
      <4>1. g[i] = f[i]
        BY <2>3, <3>2
      <4>2. f[i] = NextName(found, i, f)
        BY <2>1, <3>2 DEF Naming
      <4>. QED
        BY <2>4, <4>1, <4>2
    <3>. QED
      BY <3>1, <3>2
  <2>6. Naming(found, m + 1, g)
    BY <2>2, <2>5 DEF Naming
  <2>. QED
    BY <2>6
<1>. HIDE DEF S
<1>3. \A m \in Nat : m \in S
  BY <1>1, <1>2, Stepwise
<1>. QED
  BY <1>3 DEF S

LEMMA MemberNamesSteps ==
  ASSUME NEW found, Len(found) \in Nat
  PROVE  Naming(found, Len(found), MemberNames(found))
<1>. DEFINE last == Len(found)
            Onward(f) == [i \in 1..Len(found) |->
                           IF i = 1 THEN Main
                           ELSE <<Base(found[i].origin),
                                  Min({n \in 1..i : <<Base(found[i].origin), n>>
                                         \notin {f[j] : j \in 1..(i - 1)}})>>]
            name == CHOOSE f : f = Onward(f)
<1>1. PICK f : Naming(found, last, f)
  BY NamingExists
<1>2. \A h : h = Onward(h) <=> Naming(found, last, h)
  <2>. TAKE h
  <2>. DEFINE b == Onward(h)
  <2>1. b = [i \in 1..last |-> b[i]]
    OBVIOUS
  <2>2. \A i \in 1..last : b[i] = NextName(found, i, h)
    BY DEF NextName, Unused
  <2>. HIDE DEF b
  <2>3. ASSUME Naming(found, last, h) PROVE h = b
    <3>1. \A i \in 1..last : h[i] = b[i]
      BY <2>2, <2>3 DEF Naming
    <3>2. h = [i \in 1..last |-> h[i]]
      BY <2>3 DEF Naming
    <3>. QED
      BY <2>1, <3>1, <3>2
  <2>4. ASSUME h = b PROVE Naming(found, last, h)
    BY <2>1, <2>2, <2>4 DEF Naming
  <2>. QED
    BY <2>3, <2>4 DEF b
<1>3. name = Onward(name)
  BY <1>1, <1>2
<1>4. MemberNames(found) = name
  BY DEF MemberNames
<1>. HIDE DEF name, Onward
<1>. QED
  BY <1>2, <1>3, <1>4

(* Of as many numbers as there are names, one is not used.                 *)
LEMMA UnusedNumber ==
  ASSUME NEW base, NEW i \in Nat, 1 < i, NEW name
  PROVE  Min(Unused(base, i, name)) \in Unused(base, i, name)
<1>1. Unused(base, i, name) # {}
  <2>. SUFFICES ASSUME \A n \in 1..i : \E j \in 1..(i - 1) : name[j] = <<base, n>>
                PROVE  FALSE
    BY DEF Unused
  <2>. DEFINE f == [n \in 1..i |-> CHOOSE j \in 1..(i - 1) : name[j] = <<base, n>>]
  <2>1. \A n \in 1..i : f[n] \in 1..(i - 1) /\ name[f[n]] = <<base, n>>
    OBVIOUS
  <2>2. f \in [1..i -> 1..(i - 1)]
    BY <2>1
  <2>. HIDE DEF f
  <2>3. /\ IsFiniteSet(1..i) /\ Cardinality(1..i) = i
        /\ IsFiniteSet(1..(i - 1)) /\ Cardinality(1..(i - 1)) = i - 1
    BY FS_Interval
  <2>4. Cardinality(1..(i - 1)) < Cardinality(1..i)
    BY <2>3
  <2>5. PICK x, y \in 1..i : x # y /\ f[x] = f[y]
    <3>. DEFINE I == 1..i
                J == 1..(i - 1)
    <3>1. f \in [I -> J] /\ IsFiniteSet(I) /\ IsFiniteSet(J)
          /\ Cardinality(J) < Cardinality(I)
      BY <2>2, <2>3, <2>4
    <3>. HIDE DEF I, J
    <3>2. \E x, y \in I : x # y /\ f[x] = f[y]
      BY <3>1, FS_PigeonHole
    <3>. QED
      BY <3>2 DEF I
  <2>6. <<base, x>> = <<base, y>>
    BY <2>1, <2>5
  <2>. QED
    BY <2>5, <2>6
<1>2. Unused(base, i, name) \in SUBSET Nat
  BY DEF Unused
<1>3. \E m \in Unused(base, i, name) : \A k \in Unused(base, i, name) : m <= k
  BY <1>1, <1>2, LeastNumber
<1>. QED
  BY <1>3 DEF Min

LEMMA NamesDiffer ==
  ASSUME NEW found, Len(found) \in Nat
  PROVE  /\ Len(found) > 0 => MemberName(found, 1) = Main
         /\ \A i, j \in 1..Len(found) :
              MemberName(found, i) = MemberName(found, j) => i = j
<1>. DEFINE name == MemberNames(found)
<1>1. \A i \in 1..Len(found) : name[i] = NextName(found, i, name)
  BY MemberNamesSteps DEF Naming
<1>. HIDE DEF name
<1>2. ASSUME NEW i \in 1..Len(found), NEW j \in 1..(i - 1) PROVE name[i] # name[j]
  <2>. DEFINE base == Base(found[i].origin)
              free == Unused(base, i, name)
  <2>1. i # 1 /\ 1 < i /\ i \in Nat
    OBVIOUS
  <2>2. name[i] = <<base, Min(free)>>
    BY <1>1, <2>1 DEF NextName
  <2>3. Min(free) \in free
    BY <2>1, UnusedNumber
  <2>4. <<base, Min(free)>> \notin {name[k] : k \in 1..(i - 1)}
    BY <2>3 DEF Unused
  <2>. QED
    BY <2>2, <2>4
<1>3. \A i, j \in 1..Len(found) : name[i] = name[j] => i = j
  <2>. TAKE i, j \in 1..Len(found)
  <2>1. i = j \/ j \in 1..(i - 1) \/ i \in 1..(j - 1)
    OBVIOUS
  <2>. QED
    BY <1>2, <2>1
<1>4. Len(found) > 0 => name[1] = Main
  <2>1. Len(found) > 0 => 1 \in 1..Len(found)
    OBVIOUS
  <2>. QED
    BY <1>1, <2>1 DEF NextName
<1>. QED
  BY <1>3, <1>4 DEF MemberName, name

(* A text, and an archive of texts, as far as they are looked at.          *)
IsText(t) ==
  /\ t = [says |-> t.says, imports |-> t.imports,
          parses |-> t.parses, types |-> t.types]
  /\ IsSequence(t.imports)
IsArchive(content) ==
  \A m \in DOMAIN content.members : IsText(content.members[m])

(* What a definition says is its text, with what its imports say in place  *)
(* of the names.                                                           *)
Complete(d) ==
  /\ IsText(d.text) /\ IsSequence(d.imports)
  /\ DOMAIN d.imports = DOMAIN d.text.imports
  /\ d.digest = <<d.text.says, [i \in DOMAIN d.imports |-> d.imports[i].digest]>>

(* digests says of each member of an archive what a definition of it says. *)
Told(content, digests) ==
  \A m \in DOMAIN content.members :
    LET t == content.members[m] IN
    digests[m] = <<t.says, [i \in DOMAIN t.imports |-> digests[t.imports[i].name]]>>

(* The archive that `pack` writes says of the module and of the registered *)
(* names what they say in the context.                                     *)
LEMMA PackedTells ==
  ASSUME NEW S, IsFiniteSet(S), Distinct(S), Closed(S), \A e \in S : Complete(e),
         NEW d \in S, NEW names, IsFiniteSet(DOMAIN names),
         \A n \in DOMAIN names : names[n] \in S
  PROVE  LET content == Packed(d, names, Cardinality(S)) IN
         /\ IsArchive(content) /\ DOMAIN content.names = DOMAIN names
         /\ \E digests :
              /\ Told(content, digests) /\ digests[Main] = d.digest
              /\ \A n \in DOMAIN names :
                   digests[content.names[n]] = names[n].digest
<1>. DEFINE most == Cardinality(S)
            N == {names[n] : n \in DOMAIN names}
            roots == <<d>> \o SetToSeq(N)
            found == Collected(roots, most)
            nameOf(e) == MemberName(found, CHOOSE i \in DOMAIN found : found[i].id = e.id)
            member(i) ==
              [found[i].text EXCEPT !.imports =
                 [k \in DOMAIN @ |-> [to |-> "here", name |-> nameOf(found[i].imports[k])]]]
            content == Packed(d, names, most)
<1>1. IsFiniteSet(N)
  <2>. DEFINE f == [n \in DOMAIN names |-> names[n]]
  <2>1. f \in [DOMAIN names -> N] /\ \A x \in N : \E n \in DOMAIN names : f[n] = x
    OBVIOUS
  <2>. HIDE DEF f
  <2>2. f \in Surjection(DOMAIN names, N)
    BY <2>1 DEF Surjection
  <2>. QED
    BY <2>2, FS_Surjection
<1>2. IsSequence(SetToSeq(N)) /\ Range(SetToSeq(N)) = N
  BY <1>1, SequenceOfSet
<1>. HIDE DEF N
<1>3. /\ IsSequence(roots) /\ roots # <<>> /\ roots[1] = d
      /\ Range(roots) = {d} \cup N
  BY <1>2, FirstAndRest
<1>. HIDE DEF roots
<1>4. N \subseteq S
  BY DEF N
<1>5. /\ Once(found, S) /\ Longer(<<d>>, found)
      /\ Range(roots) \subseteq Range(found)
      /\ \A e \in Range(found) : Range(e.imports) \subseteq Range(found)
  <2>1. Range(roots) \subseteq S
    BY <1>3, <1>4
  <2>2. /\ Once(found, S) /\ Longer(<<roots[1]>>, found)
        /\ Range(roots) \subseteq Range(found)
        /\ \A e \in Range(found) : Range(e.imports) \subseteq Range(found)
    BY <1>3, <2>1, CollectedAll
  <2>. QED
    BY <1>3, <2>2
<1>6. content = [members |-> [m \in {MemberName(found, i) : i \in DOMAIN found} |->
                   member(CHOOSE i \in DOMAIN found : MemberName(found, i) = m)],
                 names |-> [n \in DOMAIN names |-> nameOf(names[n])]]
  BY DEF Packed, roots, N
<1>. HIDE DEF found, content
<1>7. /\ Len(found) \in Nat /\ DOMAIN found = 1..Len(found)
      /\ \A i \in DOMAIN found : found[i] \in Range(found) /\ found[i] \in S
  BY <1>5, SequenceFacts DEF Once
<1>8. 1 \in DOMAIN found /\ found[1] = d
  <2>1. Len(<<d>>) = 1 /\ <<d>>[1] = d /\ 1 \in DOMAIN <<d>>
    BY OneElement
  <2>. QED
    BY <1>5, <1>7, <2>1 DEF Longer
<1>9. /\ MemberName(found, 1) = Main
      /\ \A i, j \in DOMAIN found : MemberName(found, i) = MemberName(found, j) => i = j
  BY <1>7, <1>8, NamesDiffer
<1>. DEFINE at(m) == CHOOSE i \in DOMAIN found : MemberName(found, i) = m
            digests == [m \in {MemberName(found, i) : i \in DOMAIN found} |->
                          found[at(m)].digest]
<1>10. \A i \in DOMAIN found : at(MemberName(found, i)) = i
  BY <1>9
<1>11. \A i \in DOMAIN found : digests[MemberName(found, i)] = found[i].digest
  BY <1>10
<1>12. ASSUME NEW e \in Range(found) PROVE digests[nameOf(e)] = e.digest
  <2>1. PICK j \in DOMAIN found : found[j] = e
    BY DEF Range
  <2>2. \A i \in DOMAIN found : found[i].id = e.id => i = j
    BY <1>5, <2>1 DEF Once
  <2>3. (CHOOSE i \in DOMAIN found : found[i].id = e.id) = j
    BY <2>1, <2>2
  <2>4. nameOf(e) = MemberName(found, j)
    BY <2>3
  <2>. QED
    BY <1>11, <2>1, <2>4
<1>. HIDE DEF digests, nameOf, at
<1>. DEFINE given(i) == [k \in DOMAIN found[i].text.imports |->
                          [to |-> "here", name |-> nameOf(found[i].imports[k])]]
<1>13. ASSUME NEW i \in DOMAIN found
       PROVE  LET t == found[i].text IN
              /\ member(i) = [says |-> t.says, imports |-> given(i),
                              parses |-> t.parses, types |-> t.types]
              /\ IsSequence(given(i)) /\ DOMAIN given(i) = DOMAIN t.imports
              /\ \A k \in DOMAIN t.imports :
                   given(i)[k].name = nameOf(found[i].imports[k])
  <2>. DEFINE t == found[i].text
              new == given(i)
  <2>1. IsText(t)
    BY <1>7 DEF Complete
  <2>2. t = [says |-> t.says, imports |-> t.imports,
             parses |-> t.parses, types |-> t.types]
    BY <2>1 DEF IsText
  <2>3. member(i) = [t EXCEPT !.imports = new]
    OBVIOUS
  <2>4. Len(t.imports) \in Nat /\ DOMAIN t.imports = 1..Len(t.imports)
    BY <2>1, SequenceFacts DEF IsText
  <2>5. /\ DOMAIN new = DOMAIN t.imports
        /\ \A k \in DOMAIN t.imports : new[k].name = nameOf(found[i].imports[k])
    OBVIOUS
  <2>6. IsSequence(new)
    <3>1. new = [k \in 1..Len(t.imports) |-> new[k]]
      BY <2>4
    <3>. HIDE DEF new
    <3>. QED
      BY <2>4, <3>1, Typed
  <2>. HIDE DEF new, t
  <2>7. [t EXCEPT !.imports = new] = [says |-> t.says, imports |-> new,
                                      parses |-> t.parses, types |-> t.types]
    BY <2>2
  <2>. QED
    BY <2>3, <2>5, <2>6, <2>7 DEF new, t
<1>. HIDE DEF member, given
<1>14. /\ DOMAIN content.members = {MemberName(found, i) : i \in DOMAIN found}
       /\ \A i \in DOMAIN found : content.members[MemberName(found, i)] = member(i)
  BY <1>6, <1>10 DEF at
<1>15. DOMAIN content.names = DOMAIN names
       /\ \A n \in DOMAIN names : content.names[n] = nameOf(names[n])
  BY <1>6
<1>16. IsArchive(content)
  <2>1. ASSUME NEW i \in DOMAIN found PROVE IsText(member(i))
    BY <1>13 DEF IsText
  <2>. QED
    BY <1>14, <2>1 DEF IsArchive
<1>17. Told(content, digests)
  <2>. SUFFICES ASSUME NEW i \in DOMAIN found
                PROVE  LET t == member(i) IN
                       digests[MemberName(found, i)]
                         = <<t.says, [k \in DOMAIN t.imports |-> digests[t.imports[k].name]]>>
    BY <1>14 DEF Told
  <2>. DEFINE e == found[i]
              t == member(i)
  <2>1. e \in Range(found) /\ Complete(e) /\ IsSequence(e.imports)
    BY <1>7 DEF Complete
  <2>2. /\ t.says = e.text.says /\ DOMAIN t.imports = DOMAIN e.imports
        /\ \A k \in DOMAIN e.imports : t.imports[k].name = nameOf(e.imports[k])
    BY <1>13, <2>1 DEF Complete
  <2>3. \A k \in DOMAIN e.imports : e.imports[k] \in Range(found)
    <3>1. Range(e.imports) \subseteq Range(found)
      BY <1>5, <2>1
    <3>. QED
      BY <2>1, <3>1, SequenceFacts
  <2>4. \A k \in DOMAIN e.imports : digests[t.imports[k].name] = e.imports[k].digest
    BY <1>12, <2>2, <2>3
  <2>5. e.digest = <<e.text.says, [k \in DOMAIN e.imports |-> e.imports[k].digest]>>
    BY <2>1 DEF Complete
  <2>. HIDE DEF t
  <2>6. [k \in DOMAIN t.imports |-> digests[t.imports[k].name]]
          = [k \in DOMAIN e.imports |-> e.imports[k].digest]
    BY <2>2, <2>4
  <2>. QED
    BY <1>11, <2>2, <2>5, <2>6 DEF t
<1>18. digests[Main] = d.digest
  BY <1>8, <1>9, <1>11
<1>19. \A n \in DOMAIN names : digests[content.names[n]] = names[n].digest
  <2>1. \A n \in DOMAIN names : names[n] \in Range(found)
    BY <1>3, <1>5 DEF N
  <2>. QED
    BY <1>12, <1>15, <2>1
<1>20. \E D : /\ Told(content, D) /\ D[Main] = d.digest
              /\ \A n \in DOMAIN names : D[content.names[n]] = names[n].digest
  BY <1>17, <1>18, <1>19
<1>. QED
  BY <1>15, <1>16, <1>20 DEF content

-----------------------------------------------------------------------------
(* What the definitions hold, and what archives they come from.            *)

(* The definitions that stay until there is another context.               *)
Lasting == Range(files) \cup Range(registry) \cup modules

(* A definition of a member knows its archive.                             *)
FromArchiveOf(d) ==
  /\ d.origin.kind = "archive" /\ d.origin.zip = d.id.zip
  /\ IsArchive(d.origin.content)

MadeInv ==
  /\ IsFiniteSet(Lasting) /\ Closed(Lasting)
  /\ \A d \in Lasting : Complete(d)
  /\ \A d \in Range(files) : /\ IsMember(d) => FromArchiveOf(d)
                             /\ d.origin.kind = "archive" => IsMember(d)

(* The frame of a member takes its text from the archive, and so far its   *)
(* imports, one for each name.                                             *)
Wanted(f, k) == MemberKey(f.origin.zip, f.text.imports[k].name)
MemberFrame(f) ==
  /\ f.origin.kind = "archive" /\ f.id = MemberKey(f.origin.zip, f.id.member)
  /\ IsArchive(f.origin.content) /\ f.id.member \in DOMAIN f.origin.content.members
  /\ f.text = f.origin.content.members[f.id.member]
  /\ \A k \in DOMAIN f.done : f.done[k].id = Wanted(f, k)
MadeFrame(f, there) ==
  /\ IsText(f.text) /\ Range(f.done) \subseteq there
  /\ f.origin.kind = "archive" => IsMember(f)
  /\ IsMember(f) => MemberFrame(f)
MadeFrames(stack, there) ==
  /\ \A i \in DOMAIN stack : MadeFrame(stack[i], there)
  /\ \A i \in DOMAIN stack : i + 1 \in DOMAIN stack /\ IsMember(stack[i])
       => stack[i + 1].id = Wanted(stack[i], Len(stack[i].done) + 1)
MakingInv == MadeFrames(frames, Lasting)

(* What the call has in hand.                                              *)
Rooted == \/ call.stage \in {"names", "member"}
          \/ call.stage = "infer" /\ call.name # None
HandInv ==
  /\ call.stage = "infer" =>
       \/ call.def \in Range(files)
       \/ /\ call.op = "parse" /\ Complete(call.def)
          /\ Range(call.def.imports) \subseteq Lasting
  /\ Rooted => call.root \in Range(files) /\ call.root.origin.kind = "archive"
  /\ Range(call.pending) \subseteq Range(files)
  /\ call.op = "bundle" => IsArchive(call.target.content)

(* What was exported.                                                      *)
Promised(p) ==
  /\ IsArchive(p.content) /\ DOMAIN p.content.names = DOMAIN p.names
  /\ \E digests : /\ Told(p.content, digests) /\ digests[Main] = p.main
                  /\ \A n \in DOMAIN p.names :
                       digests[p.content.names[n]] = p.names[n]
PackedInv == \A p \in packed : Promised(p)

AInv == MadeInv /\ MakingInv /\ HandInv /\ PackedInv

(* The archives that are read, with their contents.                        *)
Opened ==
  {<<d.origin.zip, d.origin.content>> : d \in {e \in Range(files) : IsMember(e)}}
  \cup {<<frames[i].origin.zip, frames[i].origin.content>> :
          i \in {j \in DOMAIN frames : frames[j].origin.kind = "archive"}}
  \cup (IF call.op = "bundle" THEN {<<call.target.zip, call.target.content>>}
        ELSE {})
InMemory(zip, next) == \E n \in Nat : n < next /\ zip = [memory |-> n]
MemoryInv ==
  \A o \in Opened :
    \/ "file" \in DOMAIN o[1]
    \/ InMemory(o[1], nextInline) /\ \A q \in Opened : q[1] = o[1] => q[2] = o[2]

LEMMA ShapesStay ==
  /\ \A d : Complete(d)' <=> Complete(d)
  /\ \A d : IsMember(d)' <=> IsMember(d)
  /\ \A d : FromArchiveOf(d)' <=> FromArchiveOf(d)
  /\ \A f : MemberFrame(f)' <=> MemberFrame(f)
BY DEF Complete, IsMember, FromArchiveOf, MemberFrame

LEMMA ShapesNext ==
  /\ \A s, S : MadeFrames(s, S)' <=> MadeFrames(s, S)
BY ShapesStay DEF MadeFrames, MadeFrame, Wanted, IsText, IsSequence, IsMember

LEMMA TextsAreTexts == \A t \in Text : IsText(t)
BY SequenceOfSeq DEF Text, IsText

LEMMA IntactIsArchive == ASSUME NEW content, Intact(content) PROVE IsArchive(content)
BY TextsAreTexts DEF Intact, IsArchive

(* No definition that is remembered gets lost or replaced.                 *)
LEMMA FilesLast ==
  ASSUME FilesInv, FilesInv', NEW keys, NEW d, Known(keys, d),
         \A e \in Range(files) : e.id = d.id => e = d
  PROVE  /\ Range(files) \subseteq Range(files')
         /\ Range(files') \subseteq Range(files) \cup {d}
         /\ keys # {} => d \in Range(files')
         /\ d \in Range(files) \/ keys = {} => Range(files') = Range(files)
<1>1. Range(files') \subseteq Range(files) \cup {d}
  BY DEF Known, Range
<1>2. ASSUME NEW e \in Range(files) PROVE e \in Range(files')
  <2>1. Canonical(e.id) /\ e.id \in DOMAIN files /\ files[e.id] = e
    BY DEF FilesInv, Kept, KeptIn, Range
  <2>2. e.id \in DOMAIN files' /\ files'[e.id] \in {e, d}
    BY <2>1 DEF Known
  <2>3. Denotes(e.id, files'[e.id].id)
    BY <2>2 DEF FilesInv, Denotes, Inside, Canonical
  <2>4. files'[e.id] = d => e.id = d.id
    BY <2>1, <2>3 DEF Denotes
  <2>. QED
    BY <2>2, <2>4 DEF Range
<1>3. keys # {} => d \in Range(files')
  BY DEF Known, Range
<1>4. keys = {} => Range(files') \subseteq Range(files)
  BY DEF Known, Range
<1>. QED
  BY <1>1, <1>2, <1>3, <1>4

(* The identity of a member is the key under which it is found.            *)
LEMMA MemberIsNamed ==
  ASSUME FilesInv, NEW zip, NEW name, MemberKey(zip, name) \in DOMAIN files
  PROVE  files[MemberKey(zip, name)].id = MemberKey(zip, name)
<1>1. Canonical(MemberKey(zip, name))
  BY DEF Canonical, MemberKey
<1>. QED
  BY <1>1 DEF FilesInv, Denotes

LEMMA RangesLast ==
  /\ Range(files) \subseteq Lasting /\ Range(registry) \subseteq Lasting
  /\ modules \subseteq Lasting /\ Lasting \subseteq Live
BY DEF Lasting, Live, Held

(* A step that adds one definition, all of whose imports are there.        *)
AsFile(d) == /\ IsMember(d) => FromArchiveOf(d)
             /\ d.origin.kind = "archive" => IsMember(d)
LEMMA MadeKeeps ==
  ASSUME MadeInv, NEW n, Lasting \subseteq Lasting', Lasting' \subseteq Lasting \cup {n},
         n \in Lasting \/ (Complete(n) /\ Range(n.imports) \subseteq Lasting),
         \A d \in Range(files') \ Range(files) : AsFile(d)
  PROVE  MadeInv'
<1>1. IsFiniteSet(Lasting')
  <2>1. IsFiniteSet(Lasting \cup {n})
    BY FS_AddElement DEF MadeInv
  <2>. QED
    BY <2>1, FS_Subset
<1>2. Closed(Lasting')
  BY DEF MadeInv, Closed, Complete
<1>3. \A d \in Lasting' : Complete(d)
  BY DEF MadeInv
<1>4. \A d \in Range(files') : AsFile(d)
  BY DEF MadeInv, AsFile
<1>. QED
  BY <1>1, <1>2, <1>3, <1>4, ShapesStay DEF MadeInv, AsFile, Lasting, Closed

LEMMA FramesLast ==
  ASSUME NEW S, NEW T, S \subseteq T, NEW f, MadeFrame(f, S)
  PROVE  MadeFrame(f, T)
BY DEF MadeFrame

LEMMA NothingInMaking == ASSUME frames' = <<>> PROVE MakingInv'
BY EmptySequence DEF MakingInv, MadeFrames

-----------------------------------------------------------------------------
(* What obtaining a module does.                                           *)

LEMMA IdleHand ==
  ASSUME NEW r, call' = Idle(r)
  PROVE  HandInv'
<1>1. /\ Idle(r).stage = "none" /\ Idle(r).pending = NoEntries /\ Idle(r).op = "idle"
  BY IdleShape
<1>2. Range(NoEntries) = {}
  BY IdleShape
<1>. QED
  BY <1>1, <1>2 DEF HandInv, Rooted

LEMMA SameHand ==
  ASSUME HandInv, call' = call, Range(files) \subseteq Range(files'),
         Lasting \subseteq Lasting'
  PROVE  HandInv'
BY DEF HandInv, Rooted, Complete, IsText, IsArchive, IsSequence

LEMMA SamePacked == ASSUME PackedInv, packed' = packed PROVE PackedInv'
BY DEF PackedInv, Promised, Told, IsArchive, IsText, IsSequence

LEMMA QuietMade ==
  ASSUME AInv, UNCHANGED files, frames' = <<>>, HandInv', PackedInv', NEW n,
         Lasting \subseteq Lasting', Lasting' \subseteq Lasting \cup {n},
         n \in Lasting \/ (Complete(n) /\ Range(n.imports) \subseteq Lasting)
  PROVE  AInv'
<1>1. MadeInv'
  <2>1. \A d \in Range(files') \ Range(files) : AsFile(d)
    OBVIOUS
  <2>. QED
    BY <2>1, MadeKeeps DEF AInv
<1>. QED
  BY <1>1, NothingInMaking DEF AInv

LEMMA FailMade ==
  ASSUME AInv, Failing, Settled, packed' = packed
  PROVE  AInv'
<1>1. HandInv' /\ frames' = <<>> /\ files' = files
  BY IdleHand DEF Failing
<1>2. PackedInv'
  BY SamePacked DEF AInv
<1>3. Lasting' = Lasting
  BY DEF Lasting, Failing, Settled
<1>4. MadeInv'
  BY <1>1, <1>3, ShapesStay DEF AInv, MadeInv, Closed, IsSequence
<1>. QED
  BY <1>1, <1>2, <1>4, NothingInMaking DEF AInv

(* A definition handed to the innermost of a stack of frames.              *)
LEMMA PushMade ==
  ASSUME NEW s, IsSequence(s), s # <<>>, NEW S, NEW d \in S, MadeFrames(s, S),
         \A i \in DOMAIN s : IsFrame(s[i]) /\ IsSequence(s[i].done),
         IsMember(s[Len(s)]) => d.id = Wanted(s[Len(s)], Len(s[Len(s)].done) + 1)
  PROVE  MadeFrames([s EXCEPT ![Len(s)].done = Append(@, d)], S)
<1>. DEFINE n == Len(s)
            t == [s EXCEPT ![n].done = Append(@, d)]
            old == s[n].done
            new == Append(old, d)
<1>1. /\ n \in DOMAIN s /\ DOMAIN s = 1..n /\ n \in Nat
      /\ IsFrame(s[n]) /\ IsSequence(old)
  BY SequenceFacts
<1>2. /\ DOMAIN t = DOMAIN s
      /\ \A i \in DOMAIN s \ {n} : t[i] = s[i]
      /\ \A i \in DOMAIN s : /\ t[i].id = s[i].id /\ t[i].text = s[i].text
                             /\ t[i].origin = s[i].origin
      /\ Range(t[n].done) = Range(old) \cup {d} /\ t[n].done = new
  BY <1>1, TopPush
<1>. HIDE DEF t
<1>3. MadeFrame(s[n], S)
  BY <1>1 DEF MadeFrames
<1>4. ASSUME IsMember(s[n])
      PROVE  \A k \in DOMAIN new : new[k].id = Wanted(s[n], k)
  <2>1. \A k \in DOMAIN old : old[k].id = Wanted(s[n], k)
    BY <1>3, <1>4 DEF MadeFrame, MemberFrame
  <2>2. DOMAIN old = 1..Len(old) /\ Len(old) \in Nat
    BY <1>1, SequenceFacts
  <2>3. /\ IsSequence(new) /\ Len(new) = Len(old) + 1
        /\ \A i \in DOMAIN old : new[i] = old[i]
        /\ new[Len(old) + 1] = d
    BY <1>1, SequenceAppend
  <2>4. DOMAIN new = 1..(Len(old) + 1)
    BY <2>3, SequenceFacts
  <2>. HIDE DEF new
  <2>. QED
    BY <1>4, <2>1, <2>2, <2>3, <2>4
<1>. HIDE DEF new
<1>5. MadeFrame(t[n], S)
  <2>1. IsText(t[n].text) /\ Range(t[n].done) \subseteq S
    BY <1>1, <1>2, <1>3 DEF MadeFrame
  <2>2. t[n].origin.kind = "archive" => IsMember(t[n])
    BY <1>1, <1>2, <1>3 DEF MadeFrame, IsMember
  <2>3. ASSUME IsMember(t[n]) PROVE MemberFrame(t[n])
    <3>1. IsMember(s[n])
      BY <1>1, <1>2, <2>3 DEF IsMember
    <3>2. \A k : Wanted(t[n], k) = Wanted(s[n], k)
      BY <1>1, <1>2 DEF Wanted
    <3>3. MemberFrame(s[n])
      BY <1>3, <3>1 DEF MadeFrame
    <3>. QED
      BY <1>1, <1>2, <1>4, <3>1, <3>2, <3>3 DEF MemberFrame
  <2>. QED
    BY <2>1, <2>2, <2>3 DEF MadeFrame
<1>6. \A i \in DOMAIN t : MadeFrame(t[i], S)
  BY <1>2, <1>5 DEF MadeFrames
<1>7. ASSUME NEW i \in DOMAIN t, i + 1 \in DOMAIN t, IsMember(t[i])
      PROVE  t[i + 1].id = Wanted(t[i], Len(t[i].done) + 1)
  <2>1. i # n /\ i \in DOMAIN s /\ i + 1 \in DOMAIN s
    BY <1>1, <1>2, <1>7
  <2>2. t[i] = s[i] /\ t[i + 1].id = s[i + 1].id
    BY <1>2, <2>1
  <2>. QED
    BY <1>7, <2>1, <2>2 DEF MadeFrames
<1>. QED
  BY <1>6, <1>7 DEF MadeFrames, t

LEMMA DeliverMade ==
  ASSUME IInv, IInv', AInv, Settled, packed' = packed,
         call.stage \in {"open", "member"},
         NEW d, NEW keys, Delivering(d, keys),
         d \in Range(files) \/ (d \in Range(registry) /\ keys = {} /\ frames # <<>>),
         frames # <<>> /\ IsMember(Innermost)
           => d.id = Wanted(Innermost, Len(Innermost.done) + 1)
  PROVE  AInv'
<1>1. /\ FilesInv /\ FilesInv' /\ Known(keys, d) /\ d \in Lasting /\ d \in Live
      /\ d \in Range(files) \/ keys = {}
  BY RangesLast DEF IInv, Delivering
<1>2. \A e \in Range(files) : e.id = d.id => e = d
  BY <1>1, RangesLast DEF IInv, LiveInv
<1>3. Range(files') = Range(files)
  BY <1>1, <1>2, FilesLast
<1>4. Lasting' = Lasting
  BY <1>3 DEF Lasting, Settled
<1>5. MadeInv'
  BY <1>1, <1>3, <1>4, MadeKeeps DEF AInv
<1>6. PackedInv'
  BY SamePacked DEF AInv
<1>7. CASE frames = <<>>
  <2>1. /\ frames' = <<>> /\ d \in Range(files)
        /\ call' = [call EXCEPT !.stage = "infer", !.def = d]
    BY <1>7 DEF Delivering, Deliver
  <2>2. /\ call'.op = call.op /\ call'.target = call.target /\ call'.name = call.name
        /\ call'.root = call.root /\ call'.pending = call.pending
        /\ call'.stage = "infer" /\ call'.def = d
    BY <2>1 DEF IInv, ShapeInv, IsCall
  <2>3. call.name # None => call.stage = "member"
    BY DEF IInv, StageInv
  <2>4. HandInv'
    BY <1>3, <2>1, <2>2, <2>3
    DEF AInv, HandInv, Rooted, IsArchive, IsText, IsSequence
  <2>. QED
    BY <1>5, <1>6, <2>1, <2>4, NothingInMaking DEF AInv
<1>8. CASE frames # <<>>
  <2>1. /\ frames' = [frames EXCEPT ![Len(frames)].done = Append(@, d)]
        /\ call' = call
    BY <1>8 DEF Delivering, Deliver
  <2>2. HandInv'
    BY <1>3, <1>4, <2>1, SameHand DEF AInv
  <2>3. /\ IsSequence(frames)
        /\ \A i \in DOMAIN frames : IsFrame(frames[i]) /\ IsSequence(frames[i].done)
    BY DEF IInv, ShapeInv
  <2>4. IsMember(frames[Len(frames)])
        => d.id = Wanted(frames[Len(frames)], Len(frames[Len(frames)].done) + 1)
    BY <1>8 DEF Innermost
  <2>5. MadeFrames(frames', Lasting)
    BY <1>1, <1>8, <2>1, <2>3, <2>4, PushMade DEF AInv, MakingInv
  <2>6. MakingInv'
    BY <1>4, <2>5, ShapesNext DEF MakingInv
  <2>. QED
    BY <1>5, <1>6, <2>2, <2>6 DEF AInv
<1>. QED
  BY <1>7, <1>8

(* What a frame that is begun takes from its archive, if it has one.       *)
StartsMember(id, text, origin) ==
  /\ IsText(text)
  /\ origin.kind = "archive" <=> "member" \in DOMAIN id
  /\ "member" \in DOMAIN id =>
       /\ id = MemberKey(origin.zip, id.member) /\ IsArchive(origin.content)
       /\ id.member \in DOMAIN origin.content.members
       /\ text = origin.content.members[id.member]

LEMMA FrameFields ==
  ASSUME NEW id, NEW keys, NEW text, NEW origin
  PROVE  LET f == Frame(id, keys, text, origin) IN
         /\ f.id = id /\ f.keys = keys /\ f.text = text /\ f.origin = origin
         /\ f.done = <<>>
BY DEF Frame

LEMMA StartMade ==
  ASSUME IInv, AInv, Settled, packed' = packed,
         NEW id, NEW keys, NEW text, NEW origin,
         Starting(id, keys, text, origin), StartsMember(id, text, origin),
         frames # <<>> /\ IsMember(Innermost)
           => id = Wanted(Innermost, Len(Innermost.done) + 1)
  PROVE  AInv'
<1>1. Lasting' = Lasting /\ Range(files') = Range(files) /\ call' = call
  BY DEF Lasting, Starting, Settled
<1>2. HandInv'
  BY <1>1, SameHand DEF AInv
<1>3. PackedInv'
  BY SamePacked DEF AInv
<1>4. MadeInv'
  BY <1>1, ShapesStay DEF AInv, MadeInv, Closed, IsSequence
<1>. DEFINE f == Frame(id, keys, text, origin)
            t == Append(frames, f)
            n == Len(frames)
<1>5. /\ f.id = id /\ f.text = text /\ f.origin = origin /\ f.done = <<>>
      /\ frames' = t
  BY FrameFields DEF Starting
<1>. HIDE DEF f
<1>6. IsSequence(frames)
  BY DEF IInv, ShapeInv
<1>7. /\ IsSequence(t) /\ Len(t) = n + 1
      /\ \A i \in DOMAIN frames : t[i] = frames[i]
      /\ t[n + 1] = f
  BY <1>6, SequenceAppend
<1>8. DOMAIN t = 1..(n + 1) /\ DOMAIN frames = 1..n /\ n \in Nat
  BY <1>6, <1>7, SequenceFacts
<1>. HIDE DEF t
<1>9. MadeFrame(f, Lasting)
  BY <1>5, EmptySequence
  DEF StartsMember, MadeFrame, IsMember, MemberFrame
<1>10. \A i \in DOMAIN t : MadeFrame(t[i], Lasting)
  <2>1. \A i \in DOMAIN frames : MadeFrame(frames[i], Lasting)
    BY DEF AInv, MakingInv, MadeFrames
  <2>. QED
    BY <1>7, <1>8, <1>9, <2>1
<1>11. ASSUME NEW i \in DOMAIN t, i + 1 \in DOMAIN t, IsMember(t[i])
       PROVE  t[i + 1].id = Wanted(t[i], Len(t[i].done) + 1)
  <2>1. i \in 1..n /\ (i = n \/ i + 1 \in 1..n)
    BY <1>8, <1>11
  <2>2. t[i] = frames[i]
    BY <1>7, <1>8, <2>1
  <2>3. CASE i = n
    <3>1. frames # <<>>
      BY <1>8, <2>1, EmptySequence
    <3>2. Innermost = frames[n]
      BY DEF Innermost
    <3>. QED
      BY <1>5, <1>7, <1>11, <2>2, <2>3, <3>1, <3>2
  <2>4. CASE i + 1 \in 1..n
    BY <1>7, <1>8, <1>11, <2>2, <2>1, <2>4 DEF AInv, MakingInv, MadeFrames
  <2>. QED
    BY <2>1, <2>3, <2>4
<1>12. MakingInv'
  BY <1>1, <1>5, <1>10, <1>11, ShapesNext DEF MakingInv, MadeFrames
<1>. QED
  BY <1>2, <1>3, <1>4, <1>12 DEF AInv

LEMMA MemberMade ==
  ASSUME IInv, IInv', AInv, packed' = packed, call.stage \in {"open", "member"},
         NEW zip, NEW content, NEW name, ObtainMember(zip, content, name, {}),
         IsArchive(content),
         frames # <<>> /\ IsMember(Innermost)
           => MemberKey(zip, name) = Wanted(Innermost, Len(Innermost.done) + 1)
  PROVE  AInv'
<1>. DEFINE key == MemberKey(zip, name)
            origin == ArchiveOrigin(zip, content, name)
<1>1. /\ Settled
      /\ \/ Failing
         \/ key \in DOMAIN files /\ Delivering(files[key], {})
         \/ /\ key \notin DOMAIN files /\ name \in DOMAIN content.members
            /\ Starting(key, {key} \cup {}, content.members[name], origin)
  BY MemberOutcomes
<1>2. CASE Failing
  BY <1>1, <1>2, FailMade
<1>3. CASE key \in DOMAIN files /\ Delivering(files[key], {})
  <2>1. files[key].id = key /\ files[key] \in Range(files)
    BY <1>3, MemberIsNamed DEF IInv, Range
  <2>. QED
    BY <1>1, <1>3, <2>1, DeliverMade
<1>4. CASE /\ key \notin DOMAIN files /\ name \in DOMAIN content.members
           /\ Starting(key, {key} \cup {}, content.members[name], origin)
  <2>1. StartsMember(key, content.members[name], origin)
    BY <1>4 DEF StartsMember, MemberKey, ArchiveOrigin, IsArchive
  <2>. QED
    BY <1>1, <1>4, <2>1, StartMade
<1>. QED
  BY <1>1, <1>2, <1>3, <1>4

LEMMA FileMade ==
  ASSUME IInv, IInv', AInv, packed' = packed, call.stage \in {"open", "member"},
         NEW at \in Locations, NEW from, ObtainFile(at, from),
         frames # <<>> => ~IsMember(Innermost)
  PROVE  AInv'
<1>. DEFINE request == FileKey(at, from)
            path == PathOf(at)
            root == RootOf(at, from)
            key == FileKey(path, root)
            member == MemberKey([file |-> path], Main)
            origin == ArchiveOrigin([file |-> path], disk[path], Main)
<1>1. Settled /\ path \in Paths /\ disk \in Disks
  BY FileOutcomes, PathFacts DEF IInv, ShapeInv
<1>2. CASE Failing
  BY <1>1, <1>2, FailMade
<1>3. ASSUME NEW k \in DOMAIN files, NEW keys, Delivering(files[k], keys) PROVE AInv'
  <2>1. files[k] \in Range(files)
    BY DEF Range
  <2>. QED
    BY <1>1, <1>3, <2>1, DeliverMade
<1>4. CASE /\ Allowed(at, from) /\ path.name \in Zips /\ Main \in DOMAIN disk[path].members
           /\ Starting(member, {member} \cup {key, request},
                       disk[path].members[Main], origin)
  <2>1. disk[path] # None /\ path.name \in Zips
    BY <1>4 DEF Allowed
  <2>2. IsArchive(disk[path])
    BY <1>1, <2>1, ArchivesAssumption, IntactIsArchive
  <2>3. StartsMember(member, disk[path].members[Main], origin)
    BY <1>4, <2>2 DEF StartsMember, MemberKey, ArchiveOrigin, IsArchive
  <2>. QED
    BY <1>1, <1>4, <2>3, StartMade
<1>5. CASE /\ Allowed(at, from) /\ Reading(path) /\ path.name \notin Zips
           /\ Starting(key, {key, request}, ReadText(path), FileOrigin(path, root))
  <2>1. ReadText(path) \in Text
    <3>1. SourcesGrow /\ path \in DOMAIN sources' /\ sources'[path] = ReadText(path)
      BY <1>1, <1>5, ReadingGrows DEF Allowed
    <3>. QED
      BY <3>1 DEF SourcesGrow
  <2>2. IsText(ReadText(path))
    BY <2>1, TextsAreTexts
  <2>3. StartsMember(key, ReadText(path), FileOrigin(path, root))
    BY <2>2, KeyFacts, OriginKinds DEF StartsMember
  <2>. QED
    BY <1>1, <1>5, <2>3, StartMade
<1>. QED
  BY <1>2, <1>3, <1>4, <1>5, FileOutcomes

LEMMA ImportMade ==
  ASSUME IInv, IInv', AInv, Import
  PROVE  AInv'
<1>. DEFINE f == Innermost
            n == Len(frames)
            origin == Innermost.origin
            lit == Innermost.text.imports[Len(Innermost.done) + 1]
<1>1. frames # <<>> /\ packed' = packed /\ call.stage \in {"open", "member"} /\ Settled
  BY ImportRegistersNothing, InnermostFrame DEF Import
<1>2. n \in DOMAIN frames /\ f = frames[n]
  BY <1>1, SequenceFacts DEF IInv, ShapeInv, Innermost
<1>3. MadeFrame(f, Lasting)
  BY <1>2 DEF AInv, MakingInv, MadeFrames
<1>4. IsMember(f) <=> origin.kind = "archive"
  BY <1>3 DEF MadeFrame, MemberFrame
<1>5. CASE Fail
  BY <1>1, <1>5, FailMade DEF Fail, Failing
<1>6. CASE /\ origin.kind = "archive"
           /\ ObtainMember(origin.zip, origin.content, lit.name, {})
  <2>1. IsArchive(origin.content)
    BY <1>3, <1>4, <1>6 DEF MadeFrame, MemberFrame
  <2>2. MemberKey(origin.zip, lit.name) = Wanted(f, Len(f.done) + 1)
    BY DEF Wanted
  <2>. QED
    BY <1>1, <1>6, <2>1, <2>2, MemberMade
<1>7. CASE /\ origin.kind = "file"
           /\ ObtainFile(Join(origin.path, lit), origin.root)
  <2>1. Join(origin.path, lit) \in Locations
    BY <1>7, ImportLeads, JoinType
  <2>. QED
    BY <1>1, <1>4, <1>7, <2>1, FileMade
<1>8. CASE /\ origin.kind = "inline" /\ lit.name \in DOMAIN registry
           /\ Deliver(frames, registry[lit.name]) /\ UNCHANGED context
  <2>1. registry[lit.name] \in Range(registry)
    BY <1>8 DEF Range
  <2>2. Delivering(registry[lit.name], {})
    BY <1>8, SameKnows DEF Delivering, context
  <2>. QED
    BY <1>1, <1>4, <1>8, <2>1, <2>2, DeliverMade
<1>9. CASE /\ origin.kind = "inline"
           /\ lit.to = "abs" \/ origin.file # None
           /\ ObtainFile(IF lit.to = "abs" THEN lit.at
                         ELSE Join(origin.file, lit), None)
  <2>1. (IF lit.to = "abs" THEN lit.at ELSE Join(origin.file, lit)) \in Locations
    <3>1. lit \in Literals /\ origin.file \in Paths \cup {None}
      BY <1>9, ImportLeads
    <3>2. CASE lit.to = "abs"
      BY <3>1, <3>2 DEF Literals
    <3>3. CASE lit.to # "abs"
      BY <1>9, <3>1, <3>3, JoinType
    <3>. QED
      BY <3>2, <3>3
  <2>. QED
    BY <1>1, <1>4, <1>9, <2>1, FileMade
<1>. QED
  BY <1>5, <1>6, <1>7, <1>8, <1>9, ImportOutcomes

LEMMA OpenMade ==
  ASSUME IInv, IInv', AInv, Open
  PROVE  AInv'
<1>1. /\ frames = <<>> /\ packed' = packed /\ call.stage \in {"open", "member"}
      /\ call.stage = "open"
  BY DEF Open
<1>2. CASE call.op = "load" /\ ObtainFile(call.target, None)
  <2>1. call.target \in Locations
    BY <1>2 DEF IInv, StageInv
  <2>. QED
    BY <1>1, <1>2, <2>1, FileMade
<1>3. CASE /\ call.op = "bundle"
           /\ ObtainMember(call.target.zip, call.target.content, Main, {})
  <2>1. IsArchive(call.target.content)
    BY <1>3 DEF AInv, HandInv
  <2>. QED
    BY <1>1, <1>3, <2>1, MemberMade
<1>4. CASE /\ call.op = "parse"
           /\ Define(call.target.id, {}, call.target.inline.text,
                     InlineOrigin(call.target.inline.name, call.target.inline.file))
  <2>. DEFINE id == call.target.id
              text == call.target.inline.text
              origin == InlineOrigin(call.target.inline.name, call.target.inline.file)
  <2>1. Settled /\ (Failing \/ Starting(id, {}, text, origin))
    BY <1>4, DefineOutcomes
  <2>2. CASE Failing
    BY <1>1, <2>1, <2>2, FailMade
  <2>3. CASE Starting(id, {}, text, origin)
    <3>1. call.target.inline \in Inline /\ Numbered(id)
      BY <1>4 DEF IInv, StageInv
    <3>2. IsText(text)
      BY <3>1, TextsAssumption, TextsAreTexts
    <3>3. "member" \notin DOMAIN id /\ origin.kind = "inline"
      BY <3>1, OriginKinds DEF Numbered, InlineKey
    <3>4. StartsMember(id, text, origin)
      BY <3>2, <3>3 DEF StartsMember
    <3>. QED
      BY <1>1, <2>1, <2>3, <3>4, StartMade
  <2>. QED
    BY <2>1, <2>2, <2>3
<1>. QED
  BY <1>2, <1>3, <1>4 DEF Open

LEMMA ObtainNamedMade ==
  ASSUME IInv, IInv', AInv, ObtainNamed
  PROVE  AInv'
<1>. DEFINE root == call.root
<1>1. /\ frames = <<>> /\ packed' = packed /\ call.stage \in {"open", "member"}
      /\ ObtainMember(root.origin.zip, root.origin.content,
                      root.origin.content.names[call.name], {})
  BY DEF ObtainNamed
<1>2. root \in Range(files) /\ root.origin.kind = "archive"
  BY DEF ObtainNamed, AInv, HandInv, Rooted
<1>3. IsArchive(root.origin.content)
  BY <1>2 DEF AInv, MadeInv, FromArchiveOf
<1>. QED
  BY <1>1, <1>3, MemberMade

LEMMA FinishMade ==
  ASSUME IInv, IInv', AInv, Finish
  PROVE  AInv'
<1>. DEFINE n == Len(frames)
            f == frames[n]
            d == Definition(f.id, f.text, f.origin, f.done)
            rest == SubSeq(frames, 1, n - 1)
<1>1. /\ frames # <<>> /\ Len(f.done) = Len(f.text.imports) /\ packed' = packed
      /\ files' = Extend(files, f.keys, d) /\ Deliver(rest, d)
      /\ UNCHANGED <<registry, modules>>
  BY DEF Finish, Innermost
<1>2. /\ IsSequence(frames) /\ n \in DOMAIN frames /\ DOMAIN frames = 1..n /\ n \in Nat
      /\ IsSequence(f.done)
      /\ \A i \in DOMAIN frames : IsFrame(frames[i]) /\ IsSequence(frames[i].done)
  BY <1>1, SequenceFacts DEF IInv, ShapeInv
<1>3. MadeFrame(f, Lasting)
  BY <1>2 DEF AInv, MakingInv, MadeFrames
<1>4. /\ d.id = f.id /\ d.text = f.text /\ d.origin = f.origin /\ d.imports = f.done
      /\ d.digest = <<f.text.says, [i \in DOMAIN f.done |-> f.done[i].digest]>>
  BY DEF Definition
<1>. HIDE DEF d
<1>5. Complete(d) /\ Range(d.imports) \subseteq Lasting
  <2>1. IsText(f.text) /\ IsSequence(f.text.imports)
    BY <1>3 DEF MadeFrame, IsText
  <2>2. DOMAIN f.done = DOMAIN f.text.imports
    BY <1>1, <1>2, <2>1, SequenceFacts
  <2>. QED
    BY <1>2, <1>3, <1>4, <2>1, <2>2 DEF Complete, MadeFrame
<1>6. AsFile(d)
  BY <1>3, <1>4 DEF MadeFrame, AsFile, IsMember, MemberFrame, FromArchiveOf, MemberKey
<1>7. Known(f.keys, d)
  BY <1>1, ExtendKnows
<1>8. KeyedFrame(f) \/ (n = 1 /\ InlineFrame(f))
  BY <1>2 DEF IInv, FramesInv
<1>9. /\ Range(files) \subseteq Range(files')
      /\ Range(files') \subseteq Range(files) \cup {d}
      /\ KeyedFrame(f) => d \in Range(files')
  <2>1. FilesInv /\ FilesInv'
    BY DEF IInv
  <2>2. CASE KeyedFrame(f)
    <3>1. f.keys # {} /\ \A e \in Range(files) : e.id # d.id
      BY <1>4, <2>1, <2>2 DEF KeyedFrame, FilesInv, Kept, KeptIn, Range
    <3>. QED
      BY <1>7, <2>1, <3>1, FilesLast
  <2>3. CASE InlineFrame(f) /\ ~KeyedFrame(f)
    BY <1>7, <2>3 DEF InlineFrame, Known, Range
  <2>. QED
    BY <1>8, <2>2, <2>3
<1>10. Lasting \subseteq Lasting' /\ Lasting' \subseteq Lasting \cup {d}
  BY <1>1, <1>9 DEF Lasting
<1>11. MadeInv'
  BY <1>5, <1>6, <1>9, <1>10, MadeKeeps DEF AInv
<1>12. PackedInv'
  BY <1>1, SamePacked DEF AInv
<1>13. /\ IsSequence(rest) /\ Len(rest) = n - 1 /\ DOMAIN rest = 1..(n - 1)
       /\ \A i \in DOMAIN rest : rest[i] = frames[i]
  BY <1>1, <1>2, SequenceFront
<1>. HIDE DEF rest
<1>14. CASE rest = <<>>
  <2>1. frames' = <<>> /\ call' = [call EXCEPT !.stage = "infer", !.def = d]
    BY <1>1, <1>14 DEF Deliver
  <2>2. /\ call'.op = call.op /\ call'.target = call.target /\ call'.name = call.name
        /\ call'.root = call.root /\ call'.pending = call.pending
        /\ call'.stage = "infer" /\ call'.def = d
    BY <2>1 DEF IInv, ShapeInv, IsCall
  <2>3. call.name # None => call.stage = "member"
    BY <1>1 DEF IInv, StageInv
  <2>4. d \in Range(files') \/ call.op = "parse"
    BY <1>8, <1>9 DEF InlineFrame
  <2>5. HandInv'
    <3>1. call'.stage = "infer" =>
            \/ call'.def \in Range(files')
            \/ /\ call'.op = "parse" /\ Complete(call'.def)
               /\ Range(call'.def.imports) \subseteq Lasting'
      BY <1>5, <1>10, <2>2, <2>4
    <3>2. call'.stage \in {"names", "member"} \/ (call'.stage = "infer" /\ call'.name # None)
            => call'.root \in Range(files') /\ call'.root.origin.kind = "archive"
      BY <1>9, <2>2, <2>3 DEF AInv, HandInv, Rooted
    <3>3. Range(call'.pending) \subseteq Range(files')
      BY <1>9, <2>2 DEF AInv, HandInv
    <3>4. call'.op = "bundle" => IsArchive(call'.target.content)
      BY <2>2 DEF AInv, HandInv
    <3>. QED
      BY <3>1, <3>2, <3>3, <3>4
      DEF HandInv, Rooted, Complete, IsArchive, IsText, IsSequence
  <2>. QED
    BY <1>11, <1>12, <2>1, <2>5, NothingInMaking DEF AInv
<1>15. CASE rest # <<>>
  <2>. DEFINE m == Len(rest)
  <2>1. frames' = [rest EXCEPT ![m].done = Append(@, d)] /\ call' = call
    BY <1>1, <1>15 DEF Deliver
  <2>2. HandInv'
    BY <1>9, <1>10, <2>1, SameHand DEF AInv
  <2>3. m \in DOMAIN rest /\ m + 1 = n /\ m \in DOMAIN frames
    BY <1>2, <1>13, <1>15, SequenceFacts
  <2>4. d \in Range(files') /\ d \in Lasting'
    <3>1. n # 1
      BY <1>2, <1>13, <2>3
    <3>. QED
      BY <1>8, <1>9, <3>1 DEF Lasting
  <2>5. MadeFrames(rest, Lasting')
    <3>1. \A i \in DOMAIN rest : i \in DOMAIN frames
      BY <1>2, <1>13
    <3>2. \A i \in DOMAIN rest : MadeFrame(rest[i], Lasting')
      BY <1>10, <1>13, <3>1, FramesLast DEF AInv, MakingInv, MadeFrames
    <3>. QED
      BY <1>13, <3>1, <3>2 DEF AInv, MakingInv, MadeFrames
  <2>6. IsMember(rest[m]) => d.id = Wanted(rest[m], Len(rest[m].done) + 1)
    BY <1>2, <1>4, <1>13, <2>3 DEF AInv, MakingInv, MadeFrames
  <2>7. \A i \in DOMAIN rest : IsFrame(rest[i]) /\ IsSequence(rest[i].done)
    BY <1>2, <1>13
  <2>8. MadeFrames(frames', Lasting')
    <3>. DEFINE S == Lasting'
    <3>1. d \in S /\ MadeFrames(rest, S)
      BY <2>4, <2>5
    <3>. HIDE DEF S
    <3>2. MadeFrames([rest EXCEPT ![m].done = Append(@, d)], S)
      BY <1>13, <1>15, <2>6, <2>7, <3>1, PushMade
    <3>. QED
      BY <2>1, <3>2 DEF S
  <2>9. MakingInv'
    BY <2>8, ShapesNext DEF MakingInv
  <2>. QED
    BY <1>11, <1>12, <2>2, <2>9 DEF AInv
<1>. QED
  BY <1>14, <1>15

-----------------------------------------------------------------------------
(* The calls.                                                              *)

LEMMA SameMade ==
  ASSUME AInv, UNCHANGED files, frames' = frames, HandInv', PackedInv', Lasting' = Lasting
  PROVE  AInv'
<1>1. MadeInv'
  BY ShapesStay DEF AInv, MadeInv, Closed, IsSequence
<1>2. MakingInv'
  BY ShapesNext DEF AInv, MakingInv
<1>. QED
  BY <1>1, <1>2 DEF AInv

LEMMA CallHand ==
  ASSUME NEW op, NEW target, call' = Call(op, target),
         op = "bundle" => IsArchive(target.content)
  PROVE  HandInv'
<1>1. /\ call'.op = op /\ call'.target = target /\ call'.stage = "open"
      /\ Range(call'.pending) = {}
  BY CallShape
<1>. QED
  BY <1>1 DEF HandInv, Rooted, IsArchive, IsText, IsSequence

LEMMA BeginMade ==
  ASSUME AInv, NEW op, NEW target, call' = Call(op, target),
         op = "bundle" => IsArchive(target.content),
         UNCHANGED <<files, registry, modules, frames, packed>>
  PROVE  AInv'
<1>1. HandInv'
  BY CallHand
<1>2. PackedInv'
  BY SamePacked DEF AInv
<1>3. Lasting' = Lasting
  BY DEF Lasting
<1>. QED
  BY <1>1, <1>2, <1>3, SameMade

LEMMA LoadMade == ASSUME AInv, NEW at, Load(at) PROVE AInv'
<1>1. call' = Call("load", at) /\ UNCHANGED <<files, registry, modules, frames, packed>>
  BY DEF Load, context
<1>. QED
  BY <1>1, BeginMade

LEMMA BundlesAreArchives ==
  ASSUME PackedInv, NEW content \in Bundles
  PROVE  IsArchive(content)
<1>1. content \in Archives => IsArchive(content)
  BY ArchivesAssumption, IntactIsArchive
<1>. QED
  BY <1>1 DEF Bundles, PackedInv, Promised

LEMMA LoadBundleMade ==
  ASSUME AInv, NEW content \in Bundles, LoadBundle(content)
  PROVE  AInv'
<1>. DEFINE target == [zip |-> [memory |-> nextInline], content |-> content]
<1>1. /\ call' = Call("bundle", target)
      /\ UNCHANGED <<files, registry, modules, frames, packed>>
  BY DEF LoadBundle
<1>2. IsArchive(target.content)
  BY BundlesAreArchives DEF AInv
<1>. QED
  BY <1>1, <1>2, BeginMade

LEMMA ParseMade == ASSUME AInv, NEW inline, Parse(inline) PROVE AInv'
<1>1. /\ call' = Call("parse", [id |-> InlineKey(nextInline), inline |-> inline])
      /\ UNCHANGED <<files, registry, modules, frames, packed>>
  BY DEF Parse
<1>. QED
  BY <1>1, BeginMade

(* A definition that is complete is returned.                              *)
LEMMA ReturnMade ==
  ASSUME AInv, frames' = <<>>, UNCHANGED <<files, packed>>, NEW d, Return(d),
         d \in Lasting \/ (Complete(d) /\ Range(d.imports) \subseteq Lasting),
         Range(registry) \subseteq Range(registry'),
         Range(registry') \subseteq Lasting
  PROVE  AInv'
<1>1. HandInv'
  BY IdleHand DEF Return
<1>2. PackedInv'
  BY SamePacked DEF AInv
<1>3. Lasting \subseteq Lasting' /\ Lasting' \subseteq Lasting \cup {d}
  BY DEF Lasting, Return
<1>. QED
  BY <1>1, <1>2, <1>3, QuietMade

LEMMA InstantiateMade ==
  ASSUME IInv, AInv, Instantiate
  PROVE  AInv'
<1>. DEFINE d == call.def
<1>1. /\ call.stage = "infer" /\ UNCHANGED <<disk, sources, packed>>
      /\ frames = <<>> /\ IsCall(call)
      /\ call.op = "parse" => call.name = None
  BY DEF Instantiate, IInv, StageInv, ShapeInv
<1>2. /\ d \in Range(files) \/ (Complete(d) /\ Range(d.imports) \subseteq Lasting)
      /\ call.op # "parse" => d \in Range(files)
  BY <1>1 DEF AInv, HandInv
<1>3. CASE Fail
  BY <1>1, <1>3, FailMade DEF Fail, Failing, Settled
<1>4. CASE call.name = None /\ Restores(d) /\ InstantiateRoot(d) /\ UNCHANGED frames
  <2>1. /\ UNCHANGED <<files, registry, modules, frames>>
        /\ call' = [call EXCEPT !.stage = "names", !.root = d,
                                !.todo = DOMAIN d.origin.content.names]
    BY <1>4 DEF InstantiateRoot
  <2>2. /\ call'.stage = "names" /\ call'.root = d /\ call'.op = call.op
        /\ call'.target = call.target /\ call'.pending = call.pending
    BY <1>1, <2>1 DEF IsCall
  <2>3. d \in Range(files) /\ d.origin.kind = "archive"
    BY <1>2, <1>4 DEF Restores
  <2>4. HandInv'
    BY <2>1, <2>2, <2>3 DEF AInv, HandInv, Rooted, IsArchive, IsText, IsSequence
  <2>5. PackedInv' /\ Lasting' = Lasting
    BY <1>1, <2>1, SamePacked DEF AInv, Lasting
  <2>. QED
    BY <2>1, <2>4, <2>5, SameMade
<1>5. CASE call.name = None /\ ~Restores(d) /\ InstantiateRoot(d) /\ UNCHANGED frames
  <2>1. Return(d) /\ UNCHANGED <<files, registry>> /\ frames' = <<>>
    BY <1>1, <1>5 DEF InstantiateRoot
  <2>2. d \in Lasting \/ (Complete(d) /\ Range(d.imports) \subseteq Lasting)
    BY <1>2, RangesLast
  <2>. QED
    BY <1>1, <2>1, <2>2, RangesLast, ReturnMade
<1>6. CASE call.name # None /\ ~Collides(d) /\ InstantiateNamed(d) /\ UNCHANGED frames
  <2>1. /\ UNCHANGED <<files, registry, modules, frames>>
        /\ call' = [call EXCEPT !.stage = "names", !.name = None,
                     !.pending = IF call.name \in DOMAIN registry THEN @
                                 ELSE Extend(@, {call.name}, d)]
    BY <1>6 DEF InstantiateNamed
  <2>2. /\ call'.stage = "names" /\ call'.root = call.root /\ call'.op = call.op
        /\ call'.target = call.target
        /\ call'.pending \in {call.pending, Extend(call.pending, {call.name}, d)}
    BY <1>1, <2>1 DEF IsCall
  <2>3. /\ d \in Range(files) /\ call.root \in Range(files)
        /\ call.root.origin.kind = "archive" /\ Range(call.pending) \subseteq Range(files)
    BY <1>1, <1>2, <1>6 DEF AInv, HandInv, Rooted
  <2>4. Range(Extend(call.pending, {call.name}, d)) \subseteq Range(call.pending) \cup {d}
    BY DEF Extend, Range
  <2>5. Range(call'.pending) \subseteq Range(files)
    BY <2>2, <2>3, <2>4
  <2>6. HandInv'
    BY <2>1, <2>2, <2>3, <2>5 DEF AInv, HandInv, Rooted, IsArchive, IsText, IsSequence
  <2>7. PackedInv' /\ Lasting' = Lasting
    BY <1>1, <2>1, SamePacked DEF AInv, Lasting
  <2>. QED
    BY <2>1, <2>6, <2>7, SameMade
<1>. QED
  BY <1>3, <1>4, <1>5, <1>6 DEF Instantiate, InstantiateNamed

LEMMA RestoreNameMade ==
  ASSUME IInv, AInv, RestoreName
  PROVE  AInv'
<1>1. PICK n \in call.todo :
        call' = [call EXCEPT !.todo = Left(n), !.name = n, !.stage = "member"]
  BY DEF RestoreName
<1>2. /\ call.stage = "names" /\ UNCHANGED <<files, registry, modules, frames, packed>>
  BY DEF RestoreName, context
<1>3. /\ call'.stage = "member" /\ call'.root = call.root /\ call'.op = call.op
      /\ call'.target = call.target /\ call'.pending = call.pending
  BY <1>1 DEF IInv, ShapeInv, IsCall
<1>4. HandInv'
  BY <1>2, <1>3 DEF AInv, HandInv, Rooted, IsArchive, IsText, IsSequence
<1>5. PackedInv' /\ Lasting' = Lasting
  BY <1>2, SamePacked DEF AInv, Lasting
<1>. QED
  BY <1>2, <1>4, <1>5, SameMade

LEMMA RestoreMade ==
  ASSUME IInv, AInv, Restore
  PROVE  AInv'
<1>1. /\ call.stage = "names" /\ registry' = Exposed(call.pending)
      /\ Return(call.root) /\ UNCHANGED <<files, frames, packed>>
  BY DEF Restore
<1>2. frames' = <<>>
  BY <1>1 DEF IInv, StageInv
<1>3. call.root \in Lasting /\ Range(call.pending) \subseteq Lasting
  BY <1>1, RangesLast DEF AInv, HandInv, Rooted
<1>4. /\ Range(registry) \subseteq Range(registry')
      /\ Range(registry') \subseteq Range(registry) \cup Range(call.pending)
  BY <1>1 DEF Exposed, Range
<1>. QED
  BY <1>1, <1>2, <1>3, <1>4, RangesLast, ReturnMade

LEMMA IdleMade ==
  ASSUME AInv, frames' = <<>>, UNCHANGED <<files, modules, packed>>,
         NEW r, call' = Idle(r),
         Range(registry) \subseteq Range(registry'),
         NEW d \in Lasting, Range(registry') \subseteq Range(registry) \cup {d}
  PROVE  AInv'
<1>1. HandInv'
  BY IdleHand
<1>2. PackedInv'
  BY SamePacked DEF AInv
<1>3. Lasting \subseteq Lasting' /\ Lasting' \subseteq Lasting \cup {d}
  BY DEF Lasting
<1>. QED
  BY <1>1, <1>2, <1>3, QuietMade

LEMMA ExtendedRange ==
  ASSUME NEW n, n \notin DOMAIN registry, NEW d, registry' = Extend(registry, {n}, d)
  PROVE  /\ Range(registry) \subseteq Range(registry')
         /\ Range(registry') \subseteq Range(registry) \cup {d}
BY DEF Extend, Range

LEMMA RegisterMade ==
  ASSUME IInv, AInv, NEW n, NEW d \in modules, Register(n, d)
  PROVE  AInv'
<1>1. /\ frames' = <<>> /\ UNCHANGED <<files, modules, packed>> /\ d \in Lasting
      /\ \E r : call' = Idle(r)
  BY BeginQuiet, RangesLast DEF Register
<1>2. CASE n \in DOMAIN registry
  <2>1. registry' = registry
    BY <1>2 DEF Register
  <2>. QED
    BY <1>1, <2>1, IdleMade
<1>3. CASE n \notin DOMAIN registry
  <2>1. registry' = Extend(registry, {n}, d)
    BY <1>3 DEF Register
  <2>. QED
    BY <1>1, <1>3, <2>1, ExtendedRange, IdleMade
<1>. QED
  BY <1>2, <1>3

LEMMA DeriveMade ==
  ASSUME IInv, AInv, NEW d \in modules, Derive(d)
  PROVE  AInv'
<1>. DEFINE text == [d.text EXCEPT !.says = Append(@, nextInline)]
            new == Definition(NewIdentity(d), text, d.origin, d.imports)
<1>1. /\ frames' = <<>> /\ UNCHANGED <<files, registry, packed>> /\ Return(new)
  BY BeginQuiet DEF Derive
<1>2. d \in Lasting /\ Complete(d) /\ Range(d.imports) \subseteq Lasting
  BY RangesLast DEF AInv, MadeInv, Closed
<1>3. text = [says |-> Append(d.text.says, nextInline), imports |-> d.text.imports,
              parses |-> d.text.parses, types |-> d.text.types]
  BY <1>2 DEF Complete, IsText
<1>4. /\ new.text = text /\ new.imports = d.imports
      /\ new.digest = <<text.says, [i \in DOMAIN d.imports |-> d.imports[i].digest]>>
  BY DEF Definition
<1>. HIDE DEF new, text
<1>5. Complete(new) /\ Range(new.imports) \subseteq Lasting
  BY <1>2, <1>3, <1>4 DEF Complete, IsText
<1>. QED
  BY <1>1, <1>5, RangesLast, ReturnMade

LEMMA TransformMade ==
  ASSUME IInv, AInv, NEW d \in modules, Transform(d)
  PROVE  AInv'
<1>. DEFINE n == FreeNumber
            new == Definition(InlineKey(n + 1), QueryText(n),
                              InlineOrigin(Query, None), <<d>>)
            lit == [to |-> "here", name |-> Generated(n)]
<1>1. /\ frames' = <<>> /\ UNCHANGED <<files, packed>> /\ Return(new)
      /\ registry' = Extend(registry, {Generated(n)}, d)
  BY BeginQuiet DEF Transform
<1>2. nextInline \in Nat /\ IsFiniteSet(DOMAIN registry)
  BY DEF IInv, ShapeInv
<1>3. Generated(n) \notin DOMAIN registry
  BY <1>2, FreeNumberExists DEF Taken
<1>4. d \in Lasting
  BY RangesLast
<1>5. /\ QueryText(n).imports = <<lit>> /\ QueryText(n).says = <<Query>>
      /\ IsText(QueryText(n))
  <2>1. IsSequence(<<lit>>)
    BY OneElement
  <2>. QED
    BY <2>1 DEF QueryText, IsText
<1>6. /\ new.text = QueryText(n) /\ new.imports = <<d>>
      /\ new.digest = <<QueryText(n).says, [i \in DOMAIN <<d>> |-> <<d>>[i].digest]>>
  BY DEF Definition
<1>7. /\ IsSequence(<<d>>) /\ Range(<<d>>) = {d}
      /\ DOMAIN <<d>> = DOMAIN <<lit>>
  BY OneElement
<1>. HIDE DEF new, lit, n
<1>8. Complete(new) /\ Range(new.imports) \subseteq Lasting
  BY <1>4, <1>5, <1>6, <1>7 DEF Complete
<1>. QED
  BY <1>1, <1>3, <1>4, <1>8, ExtendedRange, RangesLast, ReturnMade

LEMMA FailuresMade ==
  ASSUME IInv, AInv, NEW d \in modules, DeriveFails \/ TransformFails(d)
  PROVE  AInv'
<1>1. /\ frames' = <<>> /\ UNCHANGED <<files, modules, packed>> /\ d \in Lasting
      /\ call' = Idle("error")
  BY BeginQuiet, RangesLast DEF DeriveFails, TransformFails
<1>2. CASE DeriveFails
  BY <1>1, <1>2, IdleMade DEF DeriveFails
<1>3. CASE TransformFails(d)
  <2>1. registry' = Extend(registry, {Generated(FreeNumber)}, d)
    BY <1>3 DEF TransformFails
  <2>2. Generated(FreeNumber) \notin DOMAIN registry
    BY FreeNumberExists DEF Taken, IInv, ShapeInv
  <2>. QED
    BY <1>1, <2>1, <2>2, ExtendedRange, IdleMade
<1>. QED
  BY <1>2, <1>3

LEMMA FingerprintMade ==
  ASSUME IInv, AInv, Fingerprint
  PROVE  AInv'
<1>1. /\ frames' = <<>> /\ frames' = frames
      /\ UNCHANGED <<files, modules, registry, packed>>
      /\ call' = Idle("ok")
  BY BeginQuiet DEF Fingerprint
<1>2. HandInv' /\ PackedInv' /\ Lasting' = Lasting
  BY <1>1, IdleHand, SamePacked DEF AInv, Lasting
<1>. QED
  BY <1>1, <1>2, SameMade

(* What is exported is written from all that the context holds.            *)
LEMMA ExportMade ==
  ASSUME IInv, AInv, NEW d \in modules, Export(d)
  PROVE  AInv'
<1>. DEFINE content == Packed(d, registry, Cardinality(Held))
            p == [content |-> content, main |-> d.digest, names |-> Prints(registry)]
<1>1. /\ frames = <<>> /\ UNCHANGED <<files, registry, modules, frames>>
      /\ call' = Idle("ok") /\ packed' = packed \cup {p}
  BY BeginQuiet DEF Export, context
<1>2. HandInv' /\ Lasting' = Lasting
  BY <1>1, IdleHand DEF Lasting
<1>3. Held = Lasting
  BY <1>1, EmptySequence DEF Held, Lasting
<1>4. /\ IsFiniteSet(Lasting) /\ Closed(Lasting) /\ \A e \in Lasting : Complete(e)
      /\ d \in Lasting
  BY RangesLast DEF AInv, MadeInv
<1>5. Distinct(Lasting)
  BY RangesLast DEF IInv, LiveInv, Distinct
<1>6. IsFiniteSet(DOMAIN registry) /\ \A n \in DOMAIN registry : registry[n] \in Lasting
  BY RangesLast DEF IInv, ShapeInv, Range
<1>7. /\ IsArchive(content) /\ DOMAIN content.names = DOMAIN registry
      /\ \E digests :
           /\ Told(content, digests) /\ digests[Main] = d.digest
           /\ \A n \in DOMAIN registry : digests[content.names[n]] = registry[n].digest
  BY <1>3, <1>4, <1>5, <1>6, PackedTells
<1>8. /\ p.content = content /\ p.main = d.digest
      /\ DOMAIN p.names = DOMAIN registry
      /\ \A n \in DOMAIN registry : p.names[n] = registry[n].digest
  BY DEF Prints
<1>. HIDE DEF p, content
<1>9. Promised(p)
  BY <1>7, <1>8 DEF Promised
<1>10. PackedInv'
  <2>1. \A q \in packed' : Promised(q)
    BY <1>1, <1>9 DEF AInv, PackedInv
  <2>. QED
    BY <2>1 DEF PackedInv, Promised, Told, IsArchive, IsText, IsSequence
<1>. QED
  BY <1>1, <1>2, <1>10, SameMade

LEMMA NewContextMade ==
  ASSUME IInv, AInv, NewContext
  PROVE  AInv'
<1>1. /\ frames' = <<>> /\ call' = Idle("ok") /\ packed' = packed
      /\ files' = NoEntries /\ registry' = NoEntries /\ modules' = {}
  BY BeginQuiet DEF NewContext
<1>2. HandInv' /\ PackedInv'
  BY <1>1, IdleHand, SamePacked DEF AInv
<1>3. Range(NoEntries) = {}
  BY IdleShape
<1>4. Lasting' = {} /\ Range(files') = {}
  BY <1>1, <1>3 DEF Lasting
<1>5. MadeInv'
  BY <1>4, FS_EmptySet DEF MadeInv, Closed
<1>. QED
  BY <1>1, <1>2, <1>5, NothingInMaking DEF AInv

LEMMA AInvInit == Init => AInv
<1>. SUFFICES ASSUME Init PROVE AInv
  OBVIOUS
<1>1. /\ frames = <<>> /\ call = Idle(None) /\ packed = {}
      /\ files = NoEntries /\ registry = NoEntries /\ modules = {}
  BY DEF Init
<1>2. /\ Idle(None).stage = "none" /\ Idle(None).pending = NoEntries
      /\ Idle(None).op = "idle" /\ Range(NoEntries) = {}
  BY IdleShape
<1>3. Lasting = {} /\ Range(files) = {}
  BY <1>1, <1>2 DEF Lasting
<1>4. MadeInv /\ HandInv
  BY <1>1, <1>2, <1>3, FS_EmptySet DEF MadeInv, HandInv, Rooted, Closed
<1>5. MakingInv /\ PackedInv
  BY <1>1, EmptySequence DEF MakingInv, MadeFrames, PackedInv
<1>. QED
  BY <1>4, <1>5 DEF AInv

LEMMA AInvStep == IInv /\ AInv /\ [Next]_vars => AInv'
<1>. SUFFICES ASSUME IInv, AInv, [Next]_vars PROVE AInv'
  OBVIOUS
<1>1. IInv'
  BY IInvStep
<1>2. CASE \/ \E at \in Loads : Load(at)
           \/ \E content \in Bundles : LoadBundle(content)
           \/ \E inline \in Inline : Parse(inline)
  BY <1>2, LoadMade, LoadBundleMade, ParseMade
<1>3. CASE Open \/ Import \/ Finish \/ ObtainNamed
  BY <1>1, <1>3, OpenMade, ImportMade, FinishMade, ObtainNamedMade
<1>4. CASE Instantiate \/ RestoreName \/ Restore
  BY <1>4, InstantiateMade, RestoreNameMade, RestoreMade
<1>5. CASE \E d \in modules : \/ \E n \in RegNames : Register(n, d)
                              \/ Derive(d) \/ DeriveFails
                              \/ Transform(d) \/ TransformFails(d) \/ Export(d)
  BY <1>5, RegisterMade, DeriveMade, TransformMade, FailuresMade, ExportMade
<1>6. CASE Fingerprint \/ NewContext
  BY <1>6, FingerprintMade, NewContextMade
<1>7. CASE Edit \/ UNCHANGED vars
  <2>1. UNCHANGED <<files, registry, modules, frames, call, packed>>
    BY <1>7 DEF Edit, vars, context
  <2>2. Lasting' = Lasting
    BY <2>1 DEF Lasting
  <2>3. HandInv' /\ PackedInv'
    BY <2>1, <2>2, SameHand, SamePacked DEF AInv
  <2>. QED
    BY <2>1, <2>2, <2>3, SameMade
<1>. QED
  BY <1>2, <1>3, <1>4, <1>5, <1>6, <1>7 DEF Next

(* What was exported has what it promises, and what is made of an archive  *)
(* is what the archive says.                                               *)
LEMMA AlwaysAInv == Spec => [](IInv /\ AInv)
<1>1. Init => IInv /\ AInv
  BY IInvInit, AInvInit
<1>2. (IInv /\ AInv) /\ [Next]_vars => (IInv /\ AInv)'
  BY IInvStep, AInvStep
<1>. QED
  BY <1>1, <1>2, PTL DEF Spec

-----------------------------------------------------------------------------
(* Archives in memory, and what is made of an archive that is not mixed up *)
(* with another.                                                           *)

Reads(origin) == <<origin.zip, origin.content>>

(* What a step that obtains a module does to the definitions and to the    *)
(* archives that are read.                                                 *)
Obtains ==
  /\ Range(files') = Range(files)
  /\ call'.op = "idle" \/ (call'.op = call.op /\ call'.target = call.target)
  /\ \A j \in DOMAIN frames' : frames'[j].origin.kind = "archive" =>
       \/ Reads(frames'[j].origin) \in Opened
       \/ "file" \in DOMAIN frames'[j].origin.zip

LEMMA FailObtains == ASSUME Failing PROVE Obtains
BY EmptySequence, IdleShape DEF Failing, Obtains

LEMMA FramesAreOpened ==
  ASSUME NEW i \in DOMAIN frames, frames[i].origin.kind = "archive"
  PROVE  Reads(frames[i].origin) \in Opened
BY DEF Opened, Reads

LEMMA DeliveryObtains ==
  ASSUME IInv, IInv', NEW d, NEW keys, Delivering(d, keys),
         d \in Range(files) \/ (d \in Range(registry) /\ keys = {})
  PROVE  Obtains
<1>1. /\ FilesInv /\ FilesInv' /\ Known(keys, d) /\ d \in Live
      /\ d \in Range(files) \/ keys = {}
  BY RangesLast DEF IInv, Delivering
<1>2. \A e \in Range(files) : e.id = d.id => e = d
  BY <1>1, RangesLast DEF IInv, LiveInv
<1>3. Range(files') = Range(files)
  BY <1>1, <1>2, FilesLast
<1>4. CASE frames = <<>>
  <2>1. frames' = <<>> /\ call' = [call EXCEPT !.stage = "infer", !.def = d]
    BY <1>4 DEF Delivering, Deliver
  <2>2. call'.op = call.op /\ call'.target = call.target
    BY <2>1 DEF IInv, ShapeInv, IsCall
  <2>. QED
    BY <1>3, <2>1, <2>2, EmptySequence DEF Obtains
<1>5. CASE frames # <<>>
  <2>. DEFINE n == Len(frames)
  <2>1. frames' = [frames EXCEPT ![n].done = Append(@, d)] /\ call' = call
    BY <1>5 DEF Delivering, Deliver
  <2>2. /\ IsSequence(frames) /\ IsFrame(frames[n]) /\ IsSequence(frames[n].done)
    BY <1>5, SequenceFacts DEF IInv, ShapeInv
  <2>3. /\ DOMAIN frames' = DOMAIN frames
        /\ \A i \in DOMAIN frames : frames'[i].origin = frames[i].origin
    BY <1>5, <2>1, <2>2, TopPush
  <2>. QED
    BY <1>3, <2>1, <2>3, FramesAreOpened DEF Obtains
<1>. QED
  BY <1>4, <1>5

LEMMA StartObtains ==
  ASSUME IInv, NEW id, NEW keys, NEW text, NEW origin,
         Starting(id, keys, text, origin),
         origin.kind = "archive" =>
           Reads(origin) \in Opened \/ "file" \in DOMAIN origin.zip
  PROVE  Obtains
<1>. DEFINE f == Frame(id, keys, text, origin)
            t == Append(frames, f)
<1>1. f.origin = origin /\ frames' = t /\ call' = call /\ files' = files
  BY FrameFields DEF Starting
<1>. HIDE DEF f
<1>2. IsSequence(frames)
  BY DEF IInv, ShapeInv
<1>3. /\ IsSequence(t) /\ Len(t) = Len(frames) + 1
      /\ \A i \in DOMAIN frames : t[i] = frames[i]
      /\ t[Len(frames) + 1] = f
  BY <1>2, SequenceAppend
<1>4. /\ DOMAIN t = 1..(Len(frames) + 1) /\ DOMAIN frames = 1..Len(frames)
      /\ Len(frames) \in Nat
  BY <1>2, <1>3, SequenceFacts
<1>. HIDE DEF t
<1>5. ASSUME NEW j \in DOMAIN t, t[j].origin.kind = "archive"
      PROVE  Reads(t[j].origin) \in Opened \/ "file" \in DOMAIN t[j].origin.zip
  <2>1. CASE j = Len(frames) + 1
    BY <1>1, <1>3, <1>5, <2>1
  <2>2. CASE j \in DOMAIN frames
    BY <1>3, <1>5, <2>2, FramesAreOpened
  <2>. QED
    BY <1>4, <2>1, <2>2
<1>. QED
  BY <1>1, <1>5 DEF Obtains

LEMMA MemberObtains ==
  ASSUME IInv, IInv', NEW zip, NEW content, NEW name,
         ObtainMember(zip, content, name, {}), <<zip, content>> \in Opened
  PROVE  Obtains
<1>. DEFINE key == MemberKey(zip, name)
            origin == ArchiveOrigin(zip, content, name)
<1>1. \/ Failing
      \/ key \in DOMAIN files /\ Delivering(files[key], {})
      \/ Starting(key, {key} \cup {}, content.members[name], origin)
  BY MemberOutcomes
<1>2. Reads(origin) = <<zip, content>>
  BY DEF Reads, ArchiveOrigin
<1>3. key \in DOMAIN files => files[key] \in Range(files)
  BY DEF Range
<1>. HIDE DEF key, origin
<1>. QED
  BY <1>1, <1>2, <1>3, FailObtains, DeliveryObtains, StartObtains

LEMMA FileObtains ==
  ASSUME IInv, IInv', NEW at, NEW from, ObtainFile(at, from)
  PROVE  Obtains
<1>. DEFINE zip == [file |-> PathOf(at)]
            content == disk[PathOf(at)]
            file == FileOrigin(PathOf(at), RootOf(at, from))
<1>1. \/ Failing
      \/ \E k \in DOMAIN files : \E keys : Delivering(files[k], keys)
      \/ \E id, keys, text : Starting(id, keys, text, ArchiveOrigin(zip, content, Main))
      \/ \E id, keys, text : Starting(id, keys, text, file)
  BY FileOutcomes
<1>2. CASE \E k \in DOMAIN files : \E keys : Delivering(files[k], keys)
  BY <1>2, DeliveryObtains DEF Range
<1>3. "file" \in DOMAIN ArchiveOrigin(zip, content, Main).zip
  BY DEF ArchiveOrigin
<1>4. file.kind # "archive"
  BY OriginKinds
<1>. HIDE DEF zip, content, file
<1>. QED
  BY <1>1, <1>2, <1>3, <1>4, FailObtains, StartObtains

LEMMA StepObtains ==
  ASSUME IInv, IInv', AInv, Open \/ Import \/ ObtainNamed
  PROVE  Obtains /\ UNCHANGED <<registry, modules, nextInline>>
<1>1. Settled
  BY OpenRegistersNothing, ImportRegistersNothing, MemberOutcomes DEF ObtainNamed
<1>. SUFFICES Obtains
  BY <1>1 DEF Settled
<1>2. CASE Open
  <2>1. CASE call.op = "load" /\ ObtainFile(call.target, None)
    BY <2>1, FileObtains
  <2>2. CASE /\ call.op = "bundle"
             /\ ObtainMember(call.target.zip, call.target.content, Main, {})
    <3>1. <<call.target.zip, call.target.content>> \in Opened
      BY <2>2 DEF Opened
    <3>. QED
      BY <2>2, <3>1, MemberObtains
  <2>3. CASE Define(call.target.id, {}, call.target.inline.text,
                    InlineOrigin(call.target.inline.name, call.target.inline.file))
    <3>1. InlineOrigin(call.target.inline.name, call.target.inline.file).kind # "archive"
      BY OriginKinds
    <3>. QED
      BY <2>3, <3>1, DefineOutcomes, FailObtains, StartObtains
  <2>. QED
    BY <1>2, <2>1, <2>2, <2>3 DEF Open
<1>3. CASE Import
  <2>. DEFINE origin == Innermost.origin
              lit == Innermost.text.imports[Len(Innermost.done) + 1]
  <2>1. frames # <<>> /\ Len(frames) \in DOMAIN frames
    BY <1>3, SequenceFacts DEF Import, IInv, ShapeInv
  <2>2. CASE Fail
    BY <2>2, FailObtains DEF Fail, Failing
  <2>3. CASE /\ origin.kind = "archive"
             /\ ObtainMember(origin.zip, origin.content, lit.name, {})
    <3>1. <<origin.zip, origin.content>> \in Opened
      BY <2>1, <2>3, FramesAreOpened DEF Innermost, Reads
    <3>. QED
      BY <2>3, <3>1, MemberObtains
  <2>4. CASE ObtainFile(Join(origin.path, lit), origin.root)
    BY <2>4, FileObtains
  <2>5. CASE /\ lit.name \in DOMAIN registry
             /\ Deliver(frames, registry[lit.name]) /\ UNCHANGED context
    <3>1. /\ registry[lit.name] \in Range(registry)
          /\ Delivering(registry[lit.name], {})
      BY <2>5, SameKnows DEF Delivering, context, Range
    <3>. QED
      BY <3>1, DeliveryObtains
  <2>6. CASE ObtainFile(IF lit.to = "abs" THEN lit.at ELSE Join(origin.file, lit), None)
    BY <2>6, FileObtains
  <2>. QED
    BY <1>3, <2>2, <2>3, <2>4, <2>5, <2>6, ImportOutcomes
<1>4. CASE ObtainNamed
  <2>. DEFINE origin == call.root.origin
  <2>1. ObtainMember(origin.zip, origin.content, origin.content.names[call.name], {})
    BY <1>4 DEF ObtainNamed
  <2>2. call.root \in Range(files) /\ origin.kind = "archive"
    BY <1>4 DEF ObtainNamed, AInv, HandInv, Rooted
  <2>3. <<origin.zip, origin.content>> \in Opened
    BY <2>2 DEF Opened, AInv, MadeInv
  <2>. QED
    BY <2>1, <2>3, MemberObtains
<1>. QED
  BY <1>2, <1>3, <1>4

(* A definition that is finished has read what its frame has read.         *)
LEMMA FinishReads ==
  ASSUME IInv, IInv', AInv, Finish
  PROVE  LET d == Definition(Innermost.id, Innermost.text, Innermost.origin, Innermost.done)
         IN /\ Range(files) \subseteq Range(files')
            /\ Range(files') \subseteq Range(files) \cup {d}
            /\ call'.op = call.op /\ call'.target = call.target
            /\ \A j \in DOMAIN frames' :
                 j \in DOMAIN frames /\ frames'[j].origin = frames[j].origin
<1>. DEFINE n == Len(frames)
            f == frames[n]
            d == Definition(f.id, f.text, f.origin, f.done)
            rest == SubSeq(frames, 1, n - 1)
<1>1. /\ frames # <<>> /\ files' = Extend(files, f.keys, d) /\ Deliver(rest, d)
  BY DEF Finish, Innermost
<1>2. /\ IsSequence(frames) /\ n \in DOMAIN frames /\ DOMAIN frames = 1..n /\ n \in Nat
      /\ \A i \in DOMAIN frames : IsFrame(frames[i]) /\ IsSequence(frames[i].done)
  BY <1>1, SequenceFacts DEF IInv, ShapeInv
<1>3. d.id = f.id
  BY DEF Definition
<1>. HIDE DEF d
<1>4. Known(f.keys, d)
  BY <1>1, ExtendKnows
<1>5. KeyedFrame(f) \/ InlineFrame(f)
  BY <1>2 DEF IInv, FramesInv
<1>6. Range(files) \subseteq Range(files') /\ Range(files') \subseteq Range(files) \cup {d}
  <2>1. FilesInv /\ FilesInv'
    BY DEF IInv
  <2>2. CASE KeyedFrame(f)
    <3>1. \A e \in Range(files) : e.id # d.id
      BY <1>3, <2>1, <2>2 DEF KeyedFrame, FilesInv, Kept, KeptIn, Range
    <3>. QED
      BY <1>4, <2>1, <3>1, FilesLast
  <2>3. CASE InlineFrame(f)
    BY <1>4, <2>3 DEF InlineFrame, Known, Range
  <2>. QED
    BY <1>5, <2>2, <2>3
<1>7. /\ IsSequence(rest) /\ Len(rest) = n - 1 /\ DOMAIN rest = 1..(n - 1)
      /\ \A i \in DOMAIN rest : rest[i] = frames[i]
  BY <1>1, <1>2, SequenceFront
<1>. HIDE DEF rest
<1>8. CASE rest = <<>>
  <2>1. frames' = <<>> /\ call' = [call EXCEPT !.stage = "infer", !.def = d]
    BY <1>1, <1>8 DEF Deliver
  <2>2. call'.op = call.op /\ call'.target = call.target
    BY <2>1 DEF IInv, ShapeInv, IsCall
  <2>. QED
    BY <1>6, <2>1, <2>2, EmptySequence DEF d, Innermost
<1>9. CASE rest # <<>>
  <2>. DEFINE m == Len(rest)
  <2>1. frames' = [rest EXCEPT ![m].done = Append(@, d)] /\ call' = call
    BY <1>1, <1>9 DEF Deliver
  <2>2. m \in DOMAIN rest /\ \A i \in DOMAIN rest : i \in DOMAIN frames
    BY <1>2, <1>7, <1>9, SequenceFacts
  <2>3. IsFrame(rest[m]) /\ IsSequence(rest[m].done)
    BY <1>2, <1>7, <2>2
  <2>4. /\ DOMAIN frames' = DOMAIN rest
        /\ \A i \in DOMAIN rest : frames'[i].origin = rest[i].origin
    BY <1>7, <1>9, <2>1, <2>3, TopPush
  <2>. QED
    BY <1>6, <1>7, <2>1, <2>2, <2>4 DEF d, Innermost
<1>. QED
  BY <1>8, <1>9

(* No archive is read besides those that were, if not from a file.         *)
LEMMA MemoryKeeps ==
  ASSUME IInv, MemoryInv, nextInline' \in Nat, nextInline <= nextInline',
         \A o \in Opened' : o \in Opened \/ "file" \in DOMAIN o[1]
  PROVE  MemoryInv'
<1>1. nextInline \in Nat
  BY DEF IInv, ShapeInv
<1>2. \A zip : InMemory(zip, nextInline) =>
               InMemory(zip, nextInline') /\ "file" \notin DOMAIN zip
  BY <1>1 DEF InMemory
<1>. QED
  BY <1>2 DEF MemoryInv, InMemory

LEMMA OpenedFrom ==
  ASSUME \A d \in Range(files') : d \in Range(files),
         \A j \in DOMAIN frames' : frames'[j].origin.kind = "archive" =>
           \/ Reads(frames'[j].origin) \in Opened
           \/ "file" \in DOMAIN frames'[j].origin.zip,
         call'.op = "bundle" => call'.op = call.op /\ call'.target = call.target
  PROVE  \A o \in Opened' : o \in Opened \/ "file" \in DOMAIN o[1]
BY DEF Opened, Reads, IsMember

(* A step that makes no definition, makes no frame, and calls no bundle.   *)
Unread ==
  /\ UNCHANGED files /\ frames' \in {<<>>, frames}
  /\ call'.op = "bundle" => call'.op = call.op /\ call'.target = call.target
  /\ nextInline' \in Nat /\ nextInline <= nextInline'

LEMMA UnreadKeeps ==
  ASSUME IInv, MemoryInv, Unread
  PROVE  MemoryInv'
<1>1. \A j \in DOMAIN frames' : j \in DOMAIN frames /\ frames'[j] = frames[j]
  BY EmptySequence DEF Unread
<1>2. \A o \in Opened' : o \in Opened \/ "file" \in DOMAIN o[1]
  BY <1>1, OpenedFrom, FramesAreOpened DEF Unread
<1>. QED
  BY <1>2, MemoryKeeps DEF Unread

LEMMA InstantiateUnread == ASSUME IInv, Instantiate PROVE Unread
<1>1. nextInline' = nextInline /\ nextInline \in Nat
  BY DEF Instantiate, InstantiateRoot, InstantiateNamed, Fail, IInv, ShapeInv
<1>2. IsCall(call)
  BY DEF IInv, ShapeInv
<1>3. CASE Fail
  BY <1>1, <1>3, IdleShape DEF Fail, Unread
<1>4. CASE UNCHANGED frames /\ InstantiateRoot(call.def)
  <2>1. CASE Return(call.def)
    BY <1>1, <1>4, <2>1, IdleShape DEF InstantiateRoot, Return, Unread
  <2>2. CASE call' = [call EXCEPT !.stage = "names", !.root = call.def,
                                  !.todo = DOMAIN call.def.origin.content.names]
    <3>1. call'.op = call.op /\ call'.target = call.target
      BY <1>2, <2>2 DEF IsCall
    <3>. QED
      BY <1>1, <1>4, <3>1 DEF InstantiateRoot, Unread
  <2>. QED
    BY <1>4, <2>1, <2>2 DEF InstantiateRoot
<1>5. CASE UNCHANGED frames /\ InstantiateNamed(call.def) /\ ~Collides(call.def)
  <2>1. call'.op = call.op /\ call'.target = call.target
    BY <1>2, <1>5 DEF InstantiateNamed, IsCall
  <2>. QED
    BY <1>1, <1>5, <2>1 DEF InstantiateNamed, Unread
<1>. QED
  BY <1>3, <1>4, <1>5 DEF Instantiate, InstantiateNamed

LEMMA CallsUnread ==
  ASSUME IInv,
         \/ \E at \in Loads : Load(at)
         \/ \E inline \in Inline : Parse(inline)
         \/ RestoreName \/ Restore \/ Fingerprint \/ Edit \/ UNCHANGED vars
         \/ \E d \in modules : \/ \E n \in RegNames : Register(n, d)
                               \/ Derive(d) \/ DeriveFails
                               \/ Transform(d) \/ TransformFails(d) \/ Export(d)
  PROVE  Unread
<1>1. nextInline \in Nat /\ IsFiniteSet(DOMAIN registry) /\ IsCall(call)
  BY DEF IInv, ShapeInv
<1>2. CASE \/ \E at \in Loads : Load(at)
           \/ \E inline \in Inline : Parse(inline)
  <2>1. /\ UNCHANGED <<files, frames>> /\ nextInline' \in {nextInline, nextInline + 1}
        /\ \E op \in {"load", "parse"} : \E target : call' = Call(op, target)
    BY <1>2 DEF Load, Parse, context
  <2>2. call'.op # "bundle"
    BY <2>1, CallShape
  <2>. QED
    BY <1>1, <2>1, <2>2 DEF Unread
<1>3. CASE RestoreName
  <2>1. PICK n \in call.todo :
          call' = [call EXCEPT !.todo = Left(n), !.name = n, !.stage = "member"]
    BY <1>3 DEF RestoreName
  <2>2. call'.op = call.op /\ call'.target = call.target
    BY <1>1, <2>1 DEF IsCall
  <2>3. UNCHANGED <<files, frames, nextInline>>
    BY <1>3 DEF RestoreName, context
  <2>. QED
    BY <1>1, <2>2, <2>3 DEF Unread
<1>4. CASE \/ Restore \/ Fingerprint \/ DeriveFails
           \/ \E d \in modules : Derive(d) \/ Export(d)
  <2>1. /\ UNCHANGED <<files, frames>> /\ call' \in {Idle("ok"), Idle("error")}
        /\ nextInline' \in {nextInline, nextInline + 1}
    BY <1>4 DEF Restore, Fingerprint, Derive, DeriveFails, Export, Return, context
  <2>. QED
    BY <1>1, <2>1, IdleShape DEF Unread
<1>5. CASE \E d \in modules, n \in RegNames : Register(n, d)
  BY <1>1, <1>5, IdleShape DEF Register, Unread
<1>6. CASE \E d \in modules : Transform(d) \/ TransformFails(d)
  <2>1. FreeNumber \in Nat /\ nextInline <= FreeNumber
    BY <1>1, FreeNumberExists
  <2>2. /\ nextInline' \in (FreeNumber + 2)..(FreeNumber + 4)
        /\ UNCHANGED <<files, frames>> /\ \E r : call' = Idle(r)
    BY <1>6, <2>1 DEF Transform, TransformFails, Return
  <2>. QED
    BY <1>1, <2>1, <2>2, IdleShape DEF Unread
<1>7. CASE Edit \/ UNCHANGED vars
  BY <1>1, <1>7 DEF Edit, vars, context, Unread
<1>. QED
  BY <1>2, <1>3, <1>4, <1>5, <1>6, <1>7

LEMMA MemoryStep == IInv /\ AInv /\ MemoryInv /\ [Next]_vars => MemoryInv'
<1>. SUFFICES ASSUME IInv, AInv, MemoryInv, [Next]_vars PROVE MemoryInv'
  OBVIOUS
<1>1. IInv' /\ nextInline \in Nat
  BY IInvStep DEF IInv, ShapeInv
<1>2. CASE Unread
  BY <1>2, UnreadKeeps
<1>3. CASE Open \/ Import \/ ObtainNamed
  <2>1. Obtains /\ nextInline' = nextInline
    BY <1>1, <1>3, StepObtains
  <2>2. \A o \in Opened' : o \in Opened \/ "file" \in DOMAIN o[1]
    BY <2>1, OpenedFrom DEF Obtains
  <2>. QED
    BY <1>1, <2>1, <2>2, MemoryKeeps
<1>4. CASE Finish
  <2>. DEFINE d == Definition(Innermost.id, Innermost.text, Innermost.origin, Innermost.done)
  <2>1. /\ Range(files') \subseteq Range(files) \cup {d}
        /\ call'.op = call.op /\ call'.target = call.target
        /\ \A j \in DOMAIN frames' :
             j \in DOMAIN frames /\ frames'[j].origin = frames[j].origin
    BY <1>1, <1>4, FinishReads
  <2>2. /\ frames # <<>> /\ Len(frames) \in DOMAIN frames
        /\ Innermost = frames[Len(frames)] /\ nextInline' = nextInline
    BY <1>4, SequenceFacts DEF Finish, Innermost, IInv, ShapeInv
  <2>3. d.id = Innermost.id /\ d.origin = Innermost.origin
    BY DEF Definition
  <2>. HIDE DEF d
  <2>4. IsMember(d) => d.origin.kind = "archive"
    BY <2>2, <2>3 DEF AInv, MakingInv, MadeFrames, MadeFrame, MemberFrame, IsMember
  <2>5. IsMember(d) => Reads(d.origin) \in Opened
    BY <2>2, <2>3, <2>4, FramesAreOpened
  <2>6. \A o \in Opened' : o \in Opened
    BY <2>1, <2>5, FramesAreOpened DEF Opened, IsMember, Reads
  <2>. QED
    BY <1>1, <2>2, <2>6, MemoryKeeps
<1>5. CASE \E content \in Bundles : LoadBundle(content)
  <2>1. PICK content \in Bundles : LoadBundle(content)
    BY <1>5
  <2>. DEFINE target == [zip |-> [memory |-> nextInline], content |-> content]
              new == <<target.zip, content>>
  <2>2. /\ UNCHANGED <<files, frames>> /\ nextInline' = nextInline + 1
        /\ call' = Call("bundle", target)
    BY <2>1 DEF LoadBundle
  <2>3. call'.op = "bundle" /\ call'.target = target
    BY <2>2, CallShape
  <2>4. Opened' \subseteq Opened \cup {new}
    BY <2>2, <2>3 DEF Opened, IsMember
  <2>5. nextInline < nextInline' /\ nextInline' \in Nat
    BY <1>1, <2>2
  <2>6. ~InMemory(target.zip, nextInline) /\ "file" \notin DOMAIN target.zip
    <3>1. target.zip.memory = nextInline /\ DOMAIN target.zip = {"memory"}
      OBVIOUS
    <3>. HIDE DEF target
    <3>2. ASSUME NEW n \in Nat, n < nextInline, target.zip = [memory |-> n] PROVE FALSE
      <4>1. [memory |-> n].memory = n
        OBVIOUS
      <4>2. nextInline = n
        BY <3>1, <3>2, <4>1
      <4>. QED
        BY <1>1, <3>2, <4>2
    <3>3. ~InMemory(target.zip, nextInline)
      BY <3>2 DEF InMemory
    <3>. QED
      BY <3>1, <3>3
  <2>7. \A o \in Opened : o[1] # target.zip
    BY <2>6 DEF MemoryInv
  <2>8. \A zip : InMemory(zip, nextInline) => InMemory(zip, nextInline')
    BY <1>1, <2>5 DEF InMemory
  <2>9. InMemory(target.zip, nextInline')
    BY <1>1, <2>5 DEF InMemory
  <2>. DEFINE there == Opened
              then == Opened'
  <2>10. new[1] = target.zip /\ new[2] = content
    OBVIOUS
  <2>11. \A o \in there : \/ "file" \in DOMAIN o[1]
                          \/ /\ InMemory(o[1], nextInline')
                             /\ \A q \in there : q[1] = o[1] => q[2] = o[2]
    BY <2>8 DEF MemoryInv
  <2>12. then \subseteq there \cup {new} /\ \A o \in there : o[1] # target.zip
    BY <2>4, <2>7
  <2>. HIDE DEF target, new, there
  <2>13. \A o \in then : \/ "file" \in DOMAIN o[1]
                         \/ /\ InMemory(o[1], nextInline')
                            /\ \A q \in then : q[1] = o[1] => q[2] = o[2]
    <3>. HIDE DEF then
    <3>. QED
      BY <2>9, <2>10, <2>11, <2>12
  <2>. QED
    BY <2>13 DEF MemoryInv, InMemory
<1>6. CASE NewContext
  <2>1. /\ files' = NoEntries /\ frames' = <<>> /\ call' = Idle("ok")
    BY <1>6, BeginQuiet DEF NewContext
  <2>2. Range(files') = {} /\ DOMAIN frames' = {} /\ call'.op = "idle"
    BY <2>1, IdleShape, EmptySequence
  <2>3. Opened' = {}
    BY <2>2 DEF Opened
  <2>. QED
    BY <2>3 DEF MemoryInv
<1>. QED
  BY <1>2, <1>3, <1>4, <1>5, <1>6, InstantiateUnread, CallsUnread DEF Next

(* All members of the archive that the context has made are of one content. *)
UniformIn(zip, made) ==
  \A d, e \in made : IsMember(d) /\ d.id.zip = zip /\ IsMember(e) /\ e.id.zip = zip
                     => d.origin.content = e.origin.content
(* The definition of a member says what the archive says of it.            *)
Steady(d) == \A digests : Told(d.origin.content, digests)
                            => d.digest = digests[d.id.member]
SteadyIn(made) ==
  \A d \in made : IsMember(d) /\ UniformIn(d.id.zip, made) => Steady(d)
SteadyInv == SteadyIn(Range(files))

LEMMA SteadySame == ASSUME SteadyInv, Range(files') = Range(files) PROVE SteadyInv'
BY DEF SteadyInv, SteadyIn, UniformIn, Steady, Told, IsMember

(* A definition that is held and is a member is remembered.                *)
LEMMA MembersAreFiles ==
  ASSUME IInv, NEW d \in Live, "member" \in DOMAIN d.id
  PROVE  d \in Range(files)
<1>1. Kept(d) \/ Numbered(d.id)
  BY DEF IInv, LiveInv, Sound
<1>2. ASSUME NEW n \in Nat, d.id = InlineKey(n) PROVE FALSE
  BY <1>2 DEF InlineKey
<1>. QED
  BY <1>1, <1>2 DEF Numbered, Kept, KeptIn, Range

LEMMA FinishSteady ==
  ASSUME IInv, IInv', AInv, SteadyInv, Finish
  PROVE  SteadyInv'
<1>. DEFINE f == Innermost
            d == Definition(f.id, f.text, f.origin, f.done)
            old == Range(files)
            new == Range(files')
<1>1. old \subseteq new /\ new \subseteq old \cup {d}
  BY FinishReads
<1>2. /\ frames # <<>> /\ Len(frames) \in DOMAIN frames /\ f = frames[Len(frames)]
      /\ IsSequence(f.done) /\ Len(f.done) = Len(f.text.imports)
  BY SequenceFacts DEF Finish, Innermost, IInv, ShapeInv
<1>3. MadeFrame(f, Lasting)
  BY <1>2 DEF AInv, MakingInv, MadeFrames
<1>4. /\ d.id = f.id /\ d.origin = f.origin
      /\ d.digest = <<f.text.says, [i \in DOMAIN f.done |-> f.done[i].digest]>>
  BY DEF Definition
<1>. HIDE DEF d, f
<1>5. ASSUME NEW e \in old, IsMember(e), UniformIn(e.id.zip, new)
      PROVE  Steady(e)
  <2>1. UniformIn(e.id.zip, old)
    BY <1>1, <1>5 DEF UniformIn
  <2>. QED
    BY <1>5, <2>1 DEF SteadyInv, SteadyIn
<1>6. ASSUME d \in new, IsMember(d), UniformIn(d.id.zip, new),
             NEW digests, Told(d.origin.content, digests)
      PROVE  d.digest = digests[d.id.member]
  <2>. DEFINE content == d.origin.content
              t == content.members[d.id.member]
  <2>1. /\ d.id = MemberKey(f.origin.zip, d.id.member)
        /\ d.id.member \in DOMAIN content.members /\ f.text = t
        /\ IsText(f.text) /\ Range(f.done) \subseteq Lasting
        /\ \A k \in DOMAIN f.done : f.done[k].id = Wanted(f, k)
    BY <1>3, <1>4, <1>6 DEF MadeFrame, MemberFrame, IsMember
  <2>2. digests[d.id.member]
          = <<t.says, [i \in DOMAIN t.imports |-> digests[t.imports[i].name]]>>
    BY <1>6, <2>1 DEF Told
  <2>3. DOMAIN f.done = DOMAIN t.imports
    <3>1. IsSequence(t.imports)
      BY <2>1 DEF IsText
    <3>. QED
      BY <1>2, <2>1, <3>1, SequenceFacts
  <2>. HIDE DEF t
  <2>4. ASSUME NEW k \in DOMAIN f.done
        PROVE  f.done[k].digest = digests[t.imports[k].name]
    <3>. DEFINE e == f.done[k]
    <3>1. e.id = MemberKey(f.origin.zip, t.imports[k].name)
      BY <2>1 DEF Wanted
    <3>2. /\ "member" \in DOMAIN e.id /\ e.id.zip = d.id.zip
          /\ e.id.member = t.imports[k].name
      BY <2>1, <3>1 DEF MemberKey
    <3>3. e \in Live
      BY <1>2, <2>1, RangesLast, SequenceFacts
    <3>. HIDE DEF e
    <3>4. e \in old /\ IsMember(e)
      BY <3>2, <3>3, MembersAreFiles DEF IsMember
    <3>5. UniformIn(e.id.zip, new)
      BY <1>6, <3>2
    <3>6. Steady(e)
      BY <1>5, <3>4, <3>5
    <3>7. e.origin.content = d.origin.content
      BY <1>1, <1>6, <3>2, <3>4 DEF UniformIn
    <3>8. e.digest = digests[t.imports[k].name]
      BY <1>6, <3>2, <3>6, <3>7 DEF Steady
    <3>. QED
      BY <3>8 DEF e
  <2>5. [i \in DOMAIN f.done |-> f.done[i].digest]
          = [i \in DOMAIN t.imports |-> digests[t.imports[i].name]]
    BY <2>3, <2>4
  <2>6. f.text.says = t.says
    BY <2>1
  <2>. QED
    BY <1>4, <2>2, <2>5, <2>6
<1>7. SteadyIn(new)
  <2>1. ASSUME NEW e \in new, IsMember(e), UniformIn(e.id.zip, new) PROVE Steady(e)
    <3>1. CASE e \in old
      BY <1>5, <2>1, <3>1
    <3>2. CASE e = d
      BY <1>6, <2>1, <3>2 DEF Steady
    <3>. QED
      BY <1>1, <3>1, <3>2
  <2>. QED
    BY <2>1 DEF SteadyIn
<1>. QED
  BY <1>7 DEF SteadyInv, SteadyIn, UniformIn, Steady, Told, IsMember

LEMMA SteadyStep == IInv /\ AInv /\ SteadyInv /\ [Next]_vars => SteadyInv'
<1>. SUFFICES ASSUME IInv, AInv, SteadyInv, [Next]_vars PROVE SteadyInv'
  OBVIOUS
<1>1. IInv'
  BY IInvStep
<1>2. CASE Range(files') = Range(files)
  BY <1>2, SteadySame
<1>3. CASE Open \/ Import \/ ObtainNamed
  BY <1>1, <1>2, <1>3, StepObtains DEF Obtains
<1>4. CASE Finish
  BY <1>1, <1>4, FinishSteady
<1>5. CASE \E content \in Bundles : LoadBundle(content)
  BY <1>2, <1>5 DEF LoadBundle
<1>6. CASE NewContext
  <2>1. files' = NoEntries
    BY <1>6 DEF NewContext
  <2>2. Range(files') = {}
    BY <2>1, IdleShape
  <2>. QED
    BY <2>2 DEF SteadyInv, SteadyIn
<1>. QED
  BY <1>2, <1>3, <1>4, <1>5, <1>6, InstantiateUnread, CallsUnread DEF Next, Unread

BInv == IInv /\ AInv /\ MemoryInv /\ SteadyInv

LEMMA BInvInit == Init => BInv
<1>. SUFFICES ASSUME Init PROVE BInv
  OBVIOUS
<1>1. IInv /\ AInv
  BY IInvInit, AInvInit
<1>2. /\ DOMAIN frames = {} /\ call.op = "idle" /\ Range(files) = {}
  BY IdleShape, EmptySequence DEF Init
<1>3. Opened = {}
  BY <1>2 DEF Opened
<1>. QED
  BY <1>1, <1>2, <1>3 DEF BInv, MemoryInv, SteadyInv, SteadyIn

LEMMA AlwaysBInv == Spec => []BInv
<1>1. BInv /\ [Next]_vars => BInv'
  BY IInvStep, AInvStep, MemoryStep, SteadyStep DEF BInv
<1>. QED
  BY BInvInit, <1>1, PTL DEF Spec

(* What was exported is loaded again with the same content, by whatever    *)
(* context: the main module and every name it was exported with; unless it *)
(* is a ZIP on the disk that was rewritten between two loads, of which the *)
(* context holds members old and new (`pack`, pack.rs; `archive_member`,   *)
(* `restore_registry`).                                                    *)
THEOREM ExportsComeBack == Spec => []RoundTrip
<1>1. BInv => RoundTrip
  <2>. SUFFICES ASSUME BInv, NEW p \in packed, NEW d \in Held, IsMember(d),
                       d.origin.content = p.content, ~Rewritten(d.id.zip)
                PROVE  /\ d.id.member = Main => d.digest = p.main
                       /\ \A n \in DOMAIN p.names :
                            d.id.member = p.content.names[n] => d.digest = p.names[n]
    BY DEF RoundTrip
  <2>1. IInv /\ MadeInv /\ SteadyInv /\ MemoryInv /\ Promised(p)
    BY DEF BInv, AInv, PackedInv
  <2>2. d \in Range(files)
    BY <2>1, MembersAreFiles DEF Live, IsMember
  <2>3. UniformIn(d.id.zip, Range(files))
    <3>1. CASE "file" \in DOMAIN d.id.zip
      BY <3>1 DEF Rewritten, UniformIn, Held
    <3>2. CASE "file" \notin DOMAIN d.id.zip
      <4>1. \A e \in Range(files) : IsMember(e) =>
              <<e.id.zip, e.origin.content>> \in Opened
        BY <2>1 DEF Opened, MadeInv, FromArchiveOf
      <4>2. \A q \in Opened : q[1] = d.id.zip => q[2] = d.origin.content
        BY <2>1, <2>2, <3>2, <4>1 DEF MemoryInv
      <4>3. \A e \in Range(files) : IsMember(e) /\ e.id.zip = d.id.zip =>
              e.origin.content = d.origin.content
        BY <4>1, <4>2
      <4>. QED
        BY <4>3 DEF UniformIn
    <3>. QED
      BY <3>1, <3>2
  <2>4. Steady(d)
    BY <2>1, <2>2, <2>3 DEF SteadyInv, SteadyIn
  <2>5. PICK digests : /\ Told(p.content, digests) /\ digests[Main] = p.main
                       /\ \A n \in DOMAIN p.names :
                            digests[p.content.names[n]] = p.names[n]
    BY <2>1 DEF Promised
  <2>6. d.digest = digests[d.id.member]
    BY <2>4, <2>5 DEF Steady
  <2>. QED
    BY <2>5, <2>6
<1>. QED
  BY <1>1, AlwaysBInv, PTL

(* Two archives that are loaded from memory are never mixed up, however    *)
(* often a host loads one, and whatever loads fail: of an archive that is  *)
(* no file, all members that the context holds are of one content.         *)
THEOREM MemoryArchivesStayApart ==
  Spec => [](\A d, e \in Held :
               IsMember(d) /\ IsMember(e) /\ d.id.zip = e.id.zip
               /\ "file" \notin DOMAIN d.id.zip
               => d.origin.content = e.origin.content)
<1>1. BInv => \A d, e \in Held :
                IsMember(d) /\ IsMember(e) /\ d.id.zip = e.id.zip
                /\ "file" \notin DOMAIN d.id.zip
                => d.origin.content = e.origin.content
  <2>. SUFFICES ASSUME BInv, NEW d \in Held, NEW e \in Held, IsMember(d), IsMember(e),
                       d.id.zip = e.id.zip, "file" \notin DOMAIN d.id.zip
                PROVE  d.origin.content = e.origin.content
    OBVIOUS
  <2>1. IInv /\ MadeInv /\ MemoryInv
    BY DEF BInv, AInv
  <2>2. d \in Range(files) /\ e \in Range(files)
    BY <2>1, MembersAreFiles DEF Live, IsMember
  <2>3. /\ <<d.id.zip, d.origin.content>> \in Opened
        /\ <<e.id.zip, e.origin.content>> \in Opened
    BY <2>1, <2>2 DEF Opened, MadeInv, FromArchiveOf
  <2>. QED
    BY <2>1, <2>3 DEF MemoryInv
<1>. QED
  BY <1>1, AlwaysBInv, PTL

(* What a context has made it keeps, and a name that is registered keeps   *)
(* its definition, whatever fails, is edited on the disk, restored from an *)
(* archive or registered later, until there is another context (`register` *)
(* and `definition` in compiler.rs, `restore_registry` in pack.rs).        *)
NothingReplaced ==
  /\ Range(files) \subseteq Range(files')
  /\ \A n \in DOMAIN registry : n \in DOMAIN registry' /\ registry'[n] = registry[n]

THEOREM DefinitionsLast == Spec => [][NewContext \/ NothingReplaced]_vars
<1>1. ASSUME BInv, [Next]_vars PROVE NewContext \/ NothingReplaced
  <2>. SUFFICES ASSUME ~NewContext PROVE NothingReplaced
    OBVIOUS
  <2>1. IInv /\ AInv /\ IInv'
    BY <1>1, IInvStep DEF BInv
  <2>2. CASE UNCHANGED <<files, registry>>
    BY <2>2 DEF NothingReplaced
  <2>3. CASE Open \/ Import \/ ObtainNamed
    BY <2>1, <2>3, StepObtains DEF Obtains, NothingReplaced
  <2>4. CASE Finish
    BY <2>1, <2>4, FinishReads DEF Finish, NothingReplaced
  <2>5. CASE Restore
    BY <2>5 DEF Restore, Exposed, NothingReplaced
  <2>6. CASE \E d \in modules, n \in RegNames : Register(n, d)
    BY <2>6 DEF Register, Extend, NothingReplaced
  <2>7. CASE \E d \in modules : Transform(d) \/ TransformFails(d)
    <3>1. ~Taken(FreeNumber)
      BY <2>1, FreeNumberExists DEF IInv, ShapeInv
    <3>. QED
      BY <2>7, <3>1 DEF Transform, TransformFails, Taken, Extend, NothingReplaced
  <2>8. CASE Instantiate
    BY <2>2, <2>8 DEF Instantiate, InstantiateRoot, InstantiateNamed, Fail
  <2>9. CASE \/ \E at \in Loads : Load(at)
             \/ \E content \in Bundles : LoadBundle(content)
             \/ \E inline \in Inline : Parse(inline)
             \/ \E d \in modules : Derive(d) \/ DeriveFails \/ Export(d)
             \/ RestoreName \/ Fingerprint \/ Edit \/ UNCHANGED vars
    BY <2>2, <2>9
    DEF Load, LoadBundle, Parse, Derive, DeriveFails, Export, RestoreName, Fingerprint, Edit,
        context, vars
  <2>. QED
    BY <1>1, <2>3, <2>4, <2>5, <2>6, <2>7, <2>8, <2>9 DEF Next
<1>. QED
  BY <1>1, AlwaysBInv, PTL DEF Spec
=============================================================================
