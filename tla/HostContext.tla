------------------------------ MODULE HostContext ------------------------------
(***************************************************************************)
(* The context of a host (crates/host, compiler.rs and compiler/pack.rs):  *)
(* it loads modules from files, directories, archives and inline text,     *)
(* keeps every definition it has made, and gives registered modules names  *)
(* that inline text can import.                                            *)
(*                                                                         *)
(* A context is used by one caller at a time, but a call reads the disk    *)
(* file by file, and files change between two reads.  A step is one import *)
(* resolved, one definition finished, or a whole call where no import is   *)
(* resolved in it.  Data files are left out, and of the text of a module   *)
(* only what it imports and whether it parses and types.                   *)
(***************************************************************************)
EXTENDS Naturals, Sequences, FiniteSets, SequencesExt

CONSTANTS
  Dirs,        \* directories that are bundles
  Top,         \* the directory around them
  Names,       \* names of files, of members and in the registry
  Main,        \* main.flatppl
  Zips,        \* names that end in .zip
  Whole,       \* in place of a name: the directory itself
  Texts,       \* what the texts of modules say, imports aside
  Query,       \* the text that `transform` writes
  Archives,    \* contents of ZIP files
  Real,        \* Real[p]: what the path p leads to through links
  None,        \* no file, no root, no result
  Disks,       \* what the disk may hold at first, and be changed to
  Loads,       \* what the host loads
  RegNames,    \* names under which the host registers modules
  Inline,      \* inline texts with their name and source path
  MaxCalls,    \* bound: calls of the host
  MaxEdits     \* bound: changes of the disk

Paths == [dir : Dirs \cup {Top}, name : Names]
Locations == [dir : Dirs \cup {Top}, name : Names \cup {Whole}]

(* A literal of load_module: beside the importer, in the directory above,  *)
(* in one below, or with the whole path.                                   *)
Literals == [to : {"here", "up"}, name : Names]
            \cup [to : {"down", "abs"}, at : Locations]

(* The text of a file, or given inline.                                    *)
Text == [says : Seq(Texts), imports : Seq(Literals),
         parses : BOOLEAN, types : BOOLEAN]

ASSUME PathsAssumption ==
  /\ Top \notin Dirs /\ Main \in Names /\ Zips \subseteq Names /\ Main \notin Zips
  /\ Whole \notin Names /\ None \notin Dirs \cup {Top}
  /\ Real \in [Paths -> Paths]
  /\ \A p \in Paths : Real[Real[p]] = Real[p]
  /\ \A p \in Paths : Real[p].name \in Zips <=> p.name \in Zips

ASSUME TextsAssumption ==
  /\ \A f \in Disks : \A p \in Paths : p.name \notin Zips => f[p] \in Text \cup {None}
  /\ \A inline \in Inline : inline.text \in Text /\ inline.file \in Paths \cup {None}
  /\ Loads \subseteq Locations

(* The members of an archive are texts.                                    *)
Intact(content) ==
  \A name \in DOMAIN content.members : content.members[name] \in Text

ASSUME ArchivesAssumption ==
  /\ \A content \in Archives : Intact(content)
  /\ \A f \in Disks : \A p \in Paths :
       p.name \in Zips => f[p] = None \/ Intact(f[p])

ASSUME BoundsAssumption == MaxCalls \in Nat /\ MaxEdits \in Nat

VARIABLES
  disk,       \* the files
  sources,    \* texts read so far
  files,      \* definitions made so far, by location and by member
  registry,   \* definitions by registered name
  print,      \* the context's fingerprint, or None
  nextInline, \* number of the next identity
  modules,    \* definitions the host holds a LoadedModule of
  frames,     \* definitions being made, innermost last
  call,       \* the call that is under way
  edits,      \* changes of the disk still to come
  calls,      \* calls still to come
  packed      \* archives that were exported, with what they should restore

context == <<sources, files, registry, print, nextInline, modules>>
vars == <<disk, context, frames, call, edits, calls, packed>>

-----------------------------------------------------------------------------

(* Identities double as the keys of `files`.                               *)
FileKey(path, root) == [path |-> path, root |-> root]
MemberKey(zip, name) == [zip |-> zip, member |-> name]
InlineKey(n) == [inline |-> n]

(* All definitions that exist are reached from these.                      *)
Held == Range(files) \cup Range(registry) \cup modules
        \cup UNION {Range(frames[i].done) : i \in DOMAIN frames}

(* A definition; whether inference finds no error in it and its imports;   *)
(* and what `fingerprint` hashes of it: the text, with each import in place *)
(* of the literal that named it.                                           *)
Definition(id, text, origin, imports) ==
  [id |-> id, text |-> text, origin |-> origin, imports |-> imports,
   types |-> text.types /\ \A i \in DOMAIN imports : imports[i].types,
   digest |-> <<text.says, [i \in DOMAIN imports |-> imports[i].digest]>>]

Frame(id, keys, text, origin) ==
  [id |-> id, keys |-> keys, text |-> text, origin |-> origin, done |-> <<>>]

FileOrigin(path, root) == [kind |-> "file", path |-> path, root |-> root]
InlineOrigin(name, file) == [kind |-> "inline", name |-> name, file |-> file]
ArchiveOrigin(zip, content, name) ==
  [kind |-> "archive", zip |-> zip, content |-> content, member |-> name]

NoEntries == [k \in {} |-> None]

(* A call: what it was given (`target`), where it is (`stage`), the         *)
(* definition in hand and that of the root, and for an archive the names   *)
(* to restore, the one in hand and those found good.                       *)
Idle(result) == [op |-> "idle", stage |-> "none", target |-> None,
                 def |-> None, root |-> None, todo |-> {}, name |-> None,
                 pending |-> NoEntries, result |-> result]

Call(op, target) ==
  [Idle(None) EXCEPT !.op = op, !.stage = "open", !.target = target]

Extend(f, keys, d) ==
  [k \in DOMAIN f \cup keys |-> IF k \in keys THEN d ELSE f[k]]

Init ==
  /\ disk \in Disks
  /\ sources = NoEntries /\ files = NoEntries /\ registry = NoEntries
  /\ print = None /\ nextInline = 0 /\ modules = {}
  /\ frames = <<>> /\ call = Idle(None)
  /\ edits = MaxEdits /\ calls = MaxCalls /\ packed = {}

-----------------------------------------------------------------------------

(* An error anywhere ends the call.  What was read and made stays.         *)
Fail ==
  /\ frames' = <<>> /\ call' = Idle("error")
  /\ UNCHANGED <<files, registry, print, nextInline, modules>>

(* A definition is handed to the one that imports it, or to the call.      *)
Deliver(stack, d) ==
  IF stack = <<>>
  THEN /\ frames' = <<>>
       /\ call' = [call EXCEPT !.stage = "infer", !.def = d]
  ELSE /\ frames' = [stack EXCEPT ![Len(stack)].done = Append(@, d)]
       /\ UNCHANGED call

Innermost == frames[Len(frames)]
InProgress(id) == \E i \in 1..Len(frames) : frames[i].id = id

Define(id, keys, text, origin) ==
  IF InProgress(id) \/ ~text.parses
  THEN Fail
  ELSE /\ frames' = Append(frames, Frame(id, keys, text, origin))
       /\ UNCHANGED <<call, files, registry, print, nextInline, modules>>

(* `archive_member`, and the locations under which the archive is known.   *)
ObtainMember(zip, content, name, keys) ==
  LET key == MemberKey(zip, name) IN
  /\ UNCHANGED sources
  /\ IF key \in DOMAIN files
     THEN /\ Deliver(frames, files[key])
          /\ files' = Extend(files, keys, files[key])
          /\ UNCHANGED <<registry, print, nextInline, modules>>
     ELSE IF name \notin DOMAIN content.members
     THEN Fail
     ELSE Define(key, {key} \cup keys, content.members[name],
                 ArchiveOrigin(zip, content, name))

(* `file`: known under the name asked for, or known under its real name    *)
(* and bundle, or read.  A directory stands for the main file in it and is *)
(* a bundle of its own.                                                    *)
InBundle(path, root) == root \in {None, Top, path.dir}
EscapesAsked(asked, path, root) == ~InBundle(asked, root)
Escapes(asked, path, root) == ~InBundle(path, root)

ReadAgain(path) == disk[path]
ReadText(path) == IF path \in DOMAIN sources THEN sources[path] ELSE disk[path]

ObtainFile(at, from) ==
  LET request == FileKey(at, from)
      isDir == at.name = Whole
      root == IF isDir THEN at.dir ELSE from
      path == Real[[at EXCEPT !.name = IF isDir THEN Main ELSE @]]
      key == FileKey(path, root)
  IN
  IF request \in DOMAIN files
  THEN /\ Deliver(frames, files[request])
       /\ UNCHANGED context
  ELSE IF \/ disk[path] = None
          \/ isDir /\ ~InBundle(at, from)
          \/ Escapes(at, path, root)
  THEN Fail /\ UNCHANGED sources
  ELSE IF key \in DOMAIN files
  THEN /\ Deliver(frames, files[key])
       /\ files' = Extend(files, {request}, files[key])
       /\ UNCHANGED <<sources, registry, print, nextInline, modules>>
  ELSE IF path.name \in Zips
  THEN ObtainMember([file |-> path], disk[path], Main, {key, request})
  ELSE /\ sources' = Extend(sources, {path}, ReadText(path))
       /\ Define(key, {key, request}, ReadText(path), FileOrigin(path, root))

-----------------------------------------------------------------------------

(* `resolve`, for each kind of importer.                                   *)
Join(path, lit) ==
  CASE lit.to = "here" -> [dir |-> path.dir, name |-> lit.name]
    [] lit.to = "up" -> [dir |-> Top, name |-> lit.name]
    [] OTHER -> lit.at

FromArchive(origin, lit) ==
  IF lit.to # "here"   \* flat: no member lies in a directory
  THEN Fail /\ UNCHANGED sources
  ELSE ObtainMember(origin.zip, origin.content, lit.name, {})

FromFile(origin, lit) ==
  IF origin.root # None /\ lit.to = "abs"
  THEN Fail /\ UNCHANGED sources
  ELSE ObtainFile(Join(origin.path, lit), origin.root)

(* A file of the same name makes a registered name ambiguous, unless it is *)
(* the very file that was registered.                                      *)
Ambiguous(path, d) ==
  LET key == FileKey(Real[path], None) IN
  /\ disk[Real[path]] # None
  /\ (IF key \in DOMAIN files THEN files[key].id ELSE key) # d.id

FromInline(origin, lit) ==
  IF lit.to = "here" /\ lit.name \in DOMAIN registry
  THEN IF /\ origin.file # None
          /\ Ambiguous(Join(origin.file, lit), registry[lit.name])
       THEN Fail /\ UNCHANGED sources
       ELSE /\ Deliver(frames, registry[lit.name])
            /\ UNCHANGED context
  ELSE IF lit.to # "abs" /\ origin.file = None
  THEN Fail /\ UNCHANGED sources
  ELSE ObtainFile(IF lit.to = "abs" THEN lit.at ELSE Join(origin.file, lit), None)

Import ==
  /\ frames # <<>>
  /\ Len(Innermost.done) < Len(Innermost.text.imports)
  /\ LET origin == Innermost.origin
         lit == Innermost.text.imports[Len(Innermost.done) + 1]
     IN \/ origin.kind = "archive" /\ FromArchive(origin, lit)
        \/ origin.kind = "file" /\ FromFile(origin, lit)
        \/ origin.kind = "inline" /\ FromInline(origin, lit)
  /\ UNCHANGED <<disk, edits, calls, packed>>

(* All imports are there: the definition is complete and remembered.       *)
Finish ==
  /\ frames # <<>>
  /\ Len(Innermost.done) = Len(Innermost.text.imports)
  /\ LET f == Innermost
         d == Definition(f.id, f.text, f.origin, f.done)
     IN /\ files' = Extend(files, f.keys, d)
        /\ Deliver(SubSeq(frames, 1, Len(frames) - 1), d)
  /\ UNCHANGED <<sources, registry, print, nextInline, modules>>
  /\ UNCHANGED <<disk, edits, calls, packed>>

-----------------------------------------------------------------------------

(* Calls that load: `load`, `load_bundle`, `parse`.                        *)
Begin ==
  /\ call.op = "idle" /\ calls > 0 /\ calls' = calls - 1

Load(at) ==
  /\ Begin /\ call' = Call("load", at)
  /\ UNCHANGED <<disk, context, frames, edits, packed>>

LoadBundle(content) ==
  /\ Begin
  /\ call' = Call("bundle", [zip |-> [memory |-> nextInline], content |-> content])
  /\ nextInline' = nextInline + 1
  /\ UNCHANGED <<disk, sources, files, registry, print, modules, frames, edits, packed>>

Parse(inline) ==
  /\ Begin
  /\ call' = Call("parse", [id |-> InlineKey(nextInline), inline |-> inline])
  /\ nextInline' = nextInline + 1
  /\ UNCHANGED <<disk, sources, files, registry, print, modules, frames, edits, packed>>

Open ==
  /\ call.stage = "open" /\ frames = <<>>
  /\ \/ call.op = "load" /\ ObtainFile(call.target, None)
     \/ /\ call.op = "bundle"
        /\ ObtainMember(call.target.zip, call.target.content, Main, {})
     \/ /\ call.op = "parse" /\ UNCHANGED sources
        /\ Define(call.target.id, {}, call.target.inline.text,
                  InlineOrigin(call.target.inline.name, call.target.inline.file))
  /\ UNCHANGED <<disk, edits, calls, packed>>

Return(d) == modules' = modules \cup {d} /\ call' = Idle("ok")

(* `instantiate`.  An archive that was exported with its context brings    *)
(* the registered names along (`restore_registry`).                        *)
Restores(d) ==
  /\ call.op # "parse" /\ d.origin.kind = "archive"
  /\ d.origin.content.names # NoEntries

Collides(d) ==
  /\ call.name \in DOMAIN registry
  /\ registry[call.name].digest # d.digest

InstantiateRoot(d) ==
  IF Restores(d)
  THEN /\ call' = [call EXCEPT !.stage = "names", !.root = d,
                               !.todo = DOMAIN d.origin.content.names]
       /\ UNCHANGED <<files, registry, print, nextInline, modules>>
  ELSE Return(d) /\ UNCHANGED <<files, registry, print, nextInline>>

(* A name that is there already keeps its definition.                      *)
InstantiateNamed(d) ==
  IF Collides(d) THEN Fail
  ELSE /\ call' = [call EXCEPT !.stage = "names", !.name = None,
                    !.pending = IF call.name \in DOMAIN registry THEN @
                                ELSE Extend(@, {call.name}, d)]
       /\ UNCHANGED <<files, registry, print, nextInline, modules>>

Instantiate ==
  /\ call.stage = "infer"
  /\ LET d == call.def IN
     IF ~d.types THEN Fail
     ELSE /\ UNCHANGED frames
          /\ IF call.name = None THEN InstantiateRoot(d) ELSE InstantiateNamed(d)
  /\ UNCHANGED <<disk, sources, edits, calls, packed>>

(* The names come in order; which order is left open.                      *)
LeftUnlessNew(n) == IF n \in DOMAIN registry THEN call.todo ELSE call.todo \ {n}
Left(n) == call.todo \ {n}

RestoreName ==
  /\ call.stage = "names" /\ frames = <<>>
  /\ \E n \in call.todo :
       call' = [call EXCEPT !.todo = Left(n), !.name = n, !.stage = "member"]
  /\ UNCHANGED <<disk, context, frames, edits, calls, packed>>

ObtainNamed ==
  /\ call.stage = "member" /\ frames = <<>>
  /\ LET origin == call.root.origin IN
     ObtainMember(origin.zip, origin.content, origin.content.names[call.name], {})
  /\ UNCHANGED <<disk, edits, calls, packed>>

Exposed(pending) ==
  [n \in DOMAIN registry \cup DOMAIN pending |->
     IF n \in DOMAIN registry THEN registry[n] ELSE pending[n]]

Restore ==
  /\ call.stage = "names" /\ call.todo = {}
  /\ registry' = Exposed(call.pending)
  /\ print' = IF call.pending = NoEntries THEN print ELSE None
  /\ Return(call.root)
  /\ UNCHANGED <<disk, sources, files, nextInline, frames, edits, calls, packed>>

-----------------------------------------------------------------------------

(* Calls that load nothing.                                                *)
ForgetNothing == print
Forget == None

Register(name, d) ==
  /\ Begin
  /\ IF name \in DOMAIN registry
     THEN call' = Idle("error") /\ UNCHANGED <<registry, print>>
     ELSE /\ call' = Idle("ok") /\ print' = Forget
          /\ registry' = Extend(registry, {name}, d)
  /\ UNCHANGED <<disk, sources, files, nextInline, modules, frames, edits, packed>>

(* `set` and `slice`: a definition of its own, with the origin and the     *)
(* imports of the module it was made from.                                 *)
SameIdentity(d) == d.id
NewIdentity(d) == InlineKey(nextInline)

Derive(d) ==
  /\ Begin
  /\ nextInline' = nextInline + 1
  /\ Return(Definition(NewIdentity(d),
                       [d.text EXCEPT !.says = Append(@, nextInline)],
                       d.origin, d.imports))
  /\ UNCHANGED <<disk, sources, files, registry, print, frames, edits, packed>>

(* Either fails on its arguments, or on what came of them, when the number *)
(* is spent; so does `transform`, on its arguments.                        *)
DeriveFails ==
  /\ Begin /\ call' = Idle("error")
  /\ nextInline' \in {nextInline, nextInline + 1}
  /\ UNCHANGED <<disk, sources, files, registry, print, modules, frames, edits, packed>>

(* `transform` registers the module under the next free generated name and *)
(* parses a query that imports it (and two texts that import nothing).     *)
Generated(n) == [generated |-> n]
Taken(n) == Generated(n) \in DOMAIN registry
FreeNumber ==
  CHOOSE n \in nextInline..(nextInline + Cardinality(DOMAIN registry)) :
    ~Taken(n) /\ \A k \in nextInline..(n - 1) : Taken(k)

QueryText(n) == [says |-> <<Query>>, parses |-> TRUE, types |-> TRUE,
                 imports |-> <<[to |-> "here", name |-> Generated(n)]>>]

Transform(d) ==
  /\ Begin
  /\ LET n == FreeNumber IN
     /\ registry' = Extend(registry, {Generated(n)}, d)
     /\ print' = Forget
     /\ nextInline' = n + 4
     /\ Return(Definition(InlineKey(n + 1), QueryText(n),
                          InlineOrigin(Query, None), <<d>>))
  /\ UNCHANGED <<disk, sources, files, frames, edits, packed>>

(* One of the three texts is refused: the name stays registered.           *)
TransformFails(d) ==
  /\ Begin /\ call' = Idle("error")
  /\ LET n == FreeNumber IN
     /\ registry' = Extend(registry, {Generated(n)}, d)
     /\ print' = Forget
     /\ nextInline' \in (n + 2)..(n + 4)
  /\ UNCHANGED <<disk, sources, files, modules, frames, edits, packed>>

Prints(names) == [n \in DOMAIN names |-> names[n].digest]

Fingerprint ==
  /\ Begin /\ call' = Idle("ok")
  /\ print' = IF print = None THEN Prints(registry) ELSE print
  /\ UNCHANGED <<disk, sources, files, registry, nextInline, modules, frames, edits, packed>>

(* `pack`: the module and the registered ones, then breadth first what     *)
(* they import, each identity once.                                        *)
With(found, d) ==
  IF \E i \in DOMAIN found : found[i].id = d.id THEN found ELSE Append(found, d)

AddNew(found, ds) ==
  LET add[n \in 0..Len(ds)] ==
        IF n = 0 THEN found ELSE With(add[n - 1], ds[n])
  IN add[Len(ds)]

Visited(found, n) ==
  IF n > Len(found) THEN found ELSE AddNew(found, found[n].imports)

Collected(roots, most) ==
  LET walk[n \in 0..most] ==
        IF n = 0 THEN AddNew(<<>>, roots) ELSE Visited(walk[n - 1], n)
  IN walk[most]

Base(origin) == CASE origin.kind = "file" -> origin.path.name
                  [] origin.kind = "archive" -> origin.member
                  [] origin.kind = "inline" -> origin.name

MemberBase(found, i) == IF i = 1 THEN Main ELSE <<Base(found[i].origin), 1>>

(* A name is numbered until it is free, and main.flatppl is taken.         *)
MemberNames(found) ==
  LET name[i \in 1..Len(found)] ==
        IF i = 1 THEN Main
        ELSE LET base == Base(found[i].origin)
                 used == {name[j] : j \in 1..(i - 1)}
             IN <<base, Min({n \in 1..i : <<base, n>> \notin used})>>
  IN name

MemberName(found, i) == MemberNames(found)[i]

Packed(d, names, most) ==
  LET found == Collected(<<d>> \o SetToSeq({names[n] : n \in DOMAIN names}), most)
      nameOf(e) == MemberName(found, CHOOSE i \in DOMAIN found : found[i].id = e.id)
      member(i) ==
        [found[i].text EXCEPT !.imports =
           [k \in DOMAIN @ |-> [to |-> "here", name |-> nameOf(found[i].imports[k])]]]
  IN [members |-> [n \in {MemberName(found, i) : i \in DOMAIN found} |->
                     member(CHOOSE i \in DOMAIN found : MemberName(found, i) = n)],
      names |-> [n \in DOMAIN names |-> nameOf(names[n])]]

Export(d) ==
  /\ Begin /\ call' = Idle("ok")
  /\ packed' = packed \cup
       {[content |-> Packed(d, registry, Cardinality(Held)),
         main |-> d.digest, names |-> Prints(registry)]}
  /\ UNCHANGED <<disk, context, frames, edits>>

(* Another context, as after a restart of the host.                        *)
NewContext ==
  /\ Begin /\ call' = Idle("ok")
  /\ sources' = NoEntries /\ files' = NoEntries /\ registry' = NoEntries
  /\ print' = None /\ nextInline' = 0 /\ modules' = {}
  /\ UNCHANGED <<disk, frames, edits, packed>>

(* Files change whenever somebody writes them, also in the middle of a call. *)
Edit ==
  /\ edits > 0 /\ edits' = edits - 1
  /\ disk' \in Disks \ {disk}
  /\ UNCHANGED <<context, frames, call, calls, packed>>

Bundles == Archives \cup {p.content : p \in packed}

Next ==
  \/ \E at \in Loads : Load(at)
  \/ \E content \in Bundles : LoadBundle(content)
  \/ \E inline \in Inline : Parse(inline)
  \/ Open \/ Import \/ Finish \/ Instantiate
  \/ RestoreName \/ ObtainNamed \/ Restore
  \/ \E d \in modules : \/ \E n \in RegNames : Register(n, d)
                         \/ Derive(d) \/ DeriveFails
                         \/ Transform(d) \/ TransformFails(d) \/ Export(d)
  \/ Fingerprint \/ NewContext \/ Edit

Advance == \/ Open \/ Import \/ Finish \/ Instantiate
           \/ RestoreName \/ ObtainNamed \/ Restore

Spec == Init /\ [][Next]_vars
FairSpec == Spec /\ WF_vars(Advance)

-----------------------------------------------------------------------------

(* The tables have the shapes of compiler.rs, and what a call works on is  *)
(* there at each of its stages.                                            *)
TypeOK ==
  /\ disk \in [Paths -> UNION {Range(f) : f \in Disks}]
  /\ DOMAIN sources \subseteq Paths
  /\ nextInline \in Nat /\ edits \in 0..MaxEdits /\ calls \in 0..MaxCalls
  /\ call.stage \in {"none", "open", "infer", "names", "member"}
  /\ call.result \in {None, "ok", "error"}
  /\ call.stage = "infer" => call.def \in Held \/ "inline" \in DOMAIN call.def.id
  /\ frames # <<>> => call.stage \in {"open", "member"}
  /\ \A i \in DOMAIN frames : Len(frames[i].done) <= Len(frames[i].text.imports)

(* Inference, `pack` and `fingerprint` find definitions by their identity: *)
(* no two definitions of a context share one, whatever failed, changed or  *)
(* was derived in between (instantiate, compiler.rs; Sources, pack.rs).    *)
OneDefinitionPerIdentity == \A d, e \in Held : d.id = e.id => d = e

(* However often and under whatever bundle root a file is asked for, a     *)
(* context shows one text of it ("source snapshots are append-only").      *)
IsFile(d) == "path" \in DOMAIN d.id
OneTextPerFile ==
  \A d, e \in Held : IsFile(d) /\ IsFile(e) /\ d.id.path = e.id.path
                     => d.text = e.text

(* Nothing that a directory bundle imports lies outside of it, also when   *)
(* it is found by another name or was loaded before without the bundle.    *)
Within(e, root) ==
  \/ IsFile(e) /\ root \in {Top, e.id.path.dir}
  \/ "zip" \in DOMAIN e.id /\ root \in {Top, e.id.zip.file.dir}
Contained ==
  \A d \in Held : IsFile(d) /\ d.id.root # None =>
    \A e \in {d} \cup Range(d.imports) : Within(e, d.id.root)

(* A remembered fingerprint is that of the names registered now.           *)
FingerprintCurrent == print # None => print = Prints(registry)

(* What was exported is loaded again with the same content: the main       *)
(* module, and every name it was exported with (pack.rs, source.rs).  Of a *)
(* ZIP on the disk that was rewritten between two loads the context may    *)
(* hold members old and new; then nothing is promised.  An archive that is *)
(* loaded from memory is never mixed up with another.                      *)
IsMember(d) == "member" \in DOMAIN d.id
Rewritten(zip) ==
  /\ "file" \in DOMAIN zip
  /\ \E d, e \in Held : /\ IsMember(d) /\ d.id.zip = zip
                       /\ IsMember(e) /\ e.id.zip = zip
                       /\ d.origin.content # e.origin.content
RoundTrip ==
  \A p \in packed : \A d \in Held :
    IsMember(d) /\ d.origin.content = p.content /\ ~Rewritten(d.id.zip) =>
    /\ d.id.member = Main => d.digest = p.main
    /\ \A n \in DOMAIN p.names :
         d.id.member = p.content.names[n] => d.digest = p.names[n]

(* Every call returns: cycles of imports are noticed, and every name of an *)
(* archive is taken once.                                                  *)
CallsReturn == call.op # "idle" ~> call.op = "idle"
=============================================================================
