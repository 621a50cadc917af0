------------------------------ MODULE LspRename ------------------------------
(***************************************************************************)
(* textDocument/rename of the language server: which occurrences of a name *)
(* it rewrites over all files, and which requests it refuses.              *)
(*                                                                         *)
(* A file is a forest of nodes; each knows the nodes below it (kids) and   *)
(* the one above (up, 0 at the top).  A node keeps the names written in    *)
(* it; a site is one of them, so the text of an occurrence, whose range    *)
(* names.rs finds again in the source, is a place in a node here.          *)
(* Operators and literals have no names.                                   *)
(*                                                                         *)
(*   bind    a binding: its name, its right-hand side                      *)
(*   id      a name by itself                                              *)
(*   member  `head.name`                                                   *)
(*   call    callee, positional and keyword arguments: its keywords        *)
(*   lambda  `(a, b) -> body`, or the header of `f(a, b) = body`           *)
(*   reify   functionof: body and boundary values; its keywords, or none   *)
(*           if the boundary is bare or there is none                      *)
(*   load    load_module: the values substituted; their keywords           *)
(*   record  the values of its fields; their names                         *)
(*   input   elementof                                                     *)
(***************************************************************************)
EXTENDS Naturals, Sequences, FiniteSets, SequencesExt

CONSTANTS Workspaces, (* the workspaces a session may begin with            *)
          NewNames,   (* the names the user may ask for                     *)
          Reserved,   (* of these, the reserved words                       *)
          Underscored,(* and those that begin with an underscore            *)
          ReadOnly,   (* files that are members of archives                 *)
          MaxRenames
ASSUME NamesAssumption == MaxRenames \in Nat /\ Reserved \cup Underscored \subseteq NewNames

VARIABLES program, (* the texts of the files                                *)
          renames, (* how often the user has renamed                        *)
          meant,   (* what each name denoted when the session began         *)
          beyond   (* the known gaps that a rename has fallen into          *)

Placeholder(n) == "_" \o n \o "_"
Placeholders == {Placeholder(n) : n \in NewNames \ (Underscored \cup Reserved)}

-----------------------------------------------------------------------------
(* Nodes and sites.                                                        *)
Nodes(f) == DOMAIN program[f]
At(f, n) == program[f][n]
Op(f, n) == At(f, n).op
NameAt(s) == At(s.file, s.node).names[s.slot]
Site(f, n, i) == [file |-> f, node |-> n, slot |-> i]
Sites ==
  {Site(f, n, i) : <<f, n, i>> \in
     UNION {{<<f, n, i>> : i \in DOMAIN At(f, n).names} :
              <<f, n>> \in UNION {{<<f, n>> : n \in Nodes(f)} : f \in DOMAIN program}}}

(* The reifications around a node, innermost first (reify_frames).         *)
RECURSIVE Frames(_, _)
Frames(f, n) ==
  LET p == At(f, n).up
  IN IF p = 0 THEN <<>>
     ELSE (IF Op(f, p) \in {"lambda", "reify"} THEN <<p>> ELSE <<>>) \o Frames(f, p)

Bindings(f) == {n \in Nodes(f) : Op(f, n) = "bind"}
NameOf(f, b) == At(f, b).names[1]
Rhs(f, b) == At(f, b).kids[1]
Bound(f, name) == {b \in Bindings(f) : NameOf(f, b) = name}

-----------------------------------------------------------------------------
(* How the parser reads a name (parse_name_tail, lower_member).            *)
IsLambdaArg(f, frame, name) ==
  Op(f, frame) = "lambda" /\ name \in Range(At(f, frame).names)

Local(name) == [ns |-> "local", name |-> name]
SelfMod(name) == [ns |-> "self", name |-> name]
Builtin(name) == [ns |-> "builtin", name |-> name]
Wrong == [ns |-> "wrong", name |-> ""]
Field(name) == [ns |-> "field", name |-> name]

Read(f, n) ==
  LET name == At(f, n).names[1]
      frames == Frames(f, n)
  IN CASE frames # <<>> /\ IsLambdaArg(f, frames[1], name) -> Local(Placeholder(name))
       [] \E i \in DOMAIN frames : IsLambdaArg(f, frames[i], name) -> Wrong
       [] name \in Placeholders -> Local(name)
       [] Bound(f, name) # {} -> SelfMod(name)
       [] OTHER -> Builtin(name)

(* Bindings of modules, and their aliases (collect_module_alias).          *)
RECURSIVE IsModule(_, _)
IsModule(f, name) ==
  \E b \in Bound(f, name) :
    \/ Op(f, Rhs(f, b)) = "load"
    \/ Op(f, Rhs(f, b)) = "id" /\ IsModule(f, At(f, Rhs(f, b)).names[1])

ReadMember(f, n) ==
  LET head == Read(f, n)
      name == At(f, n).names[2]
  IN CASE head = Builtin("self") -> SelfMod(name)
       [] head.ns = "self" /\ IsModule(f, head.name) ->
            [ns |-> "module", alias |-> head.name, name |-> name]
       [] OTHER -> Field(name)

(* The references of the arena that a node stands for.  `alias.member` is  *)
(* two, the first of which names the alias.                                *)
Refs(f, n) ==
  CASE Op(f, n) = "id" -> {[slot |-> 1, ref |-> Read(f, n)]}
    [] Op(f, n) = "member" ->
         {[slot |-> 2, ref |-> ReadMember(f, n)]}
         \cup IF Read(f, n) = Builtin("self") THEN {}
              ELSE {[slot |-> 1, ref |-> Read(f, n)]}
    [] OTHER -> {}

(* The reference a node is, for what follows definitions.                  *)
RefOf(f, n) ==
  CASE Op(f, n) = "id" -> Read(f, n)
    [] Op(f, n) = "member" -> ReadMember(f, n)
    [] OTHER -> Field("")

-----------------------------------------------------------------------------
(* `alias_target` and `module_source`: the file that an alias loads.       *)
RECURSIVE LoadedBy(_, _)
LoadedBy(f, name) ==
  UNION {CASE Op(f, Rhs(f, b)) = "load" -> {At(f, Rhs(f, b)).file}
           [] Op(f, Rhs(f, b)) = "id" -> LoadedBy(f, At(f, Rhs(f, b)).names[1])
           [] OTHER -> {} : b \in Bound(f, name)}

(* `resolve_ref_def`: the bindings a reference may denote, one if all is   *)
(* well.                                                                   *)
BindingAt(f, b) == [file |-> f, bind |-> b]
Definitions(f, ref) ==
  CASE ref.ns = "self" -> {BindingAt(f, b) : b \in Bound(f, ref.name)}
    [] ref.ns = "module" ->
         UNION {{BindingAt(g, b) : b \in Bound(g, ref.name)} : g \in LoadedBy(f, ref.alias)}
    [] OTHER -> {}
Resolves(f, ref, b) == Definitions(f, ref) = {b}

-----------------------------------------------------------------------------
(* Reifications, their inputs and their bodies.                            *)
Reifies(f, n) == Op(f, n) \in {"lambda", "reify"}
Sugar(f, r) == Op(f, r) = "lambda"
Keyworded(f, r) == Op(f, r) = "reify" /\ At(f, r).names # <<>>
Value(f, r, i) == At(f, r).kids[i + 1]

(* An input is named by its argument or keyword, or, in a bare boundary,   *)
(* by its value (bare_boundary_name).                                      *)
InputName(f, r, i) ==
  IF Sugar(f, r) \/ Keyworded(f, r) THEN At(f, r).names[i]
  ELSE LET value == At(f, Value(f, r, i)).names[1]
       IN IF value \in Placeholders THEN CHOOSE n \in NewNames : Placeholder(n) = value
          ELSE value
InputRef(f, r, i) ==
  IF Sugar(f, r) THEN Local(Placeholder(At(f, r).names[i])) ELSE Read(f, Value(f, r, i))
Inputs(f, r) ==
  IF Sugar(f, r) THEN DOMAIN At(f, r).names ELSE 1..(Len(At(f, r).kids) - 1)

(* Boundary values are no children (finish_call drops them).               *)
Children(f, n) ==
  CASE Reifies(f, n) -> {Head(At(f, n).kids)}
    [] OTHER -> Range(At(f, n).kids)

(* `scope_nodes`.                                                          *)
RECURSIVE Below(_, _, _)
Below(f, n, nested) ==
  {n} \cup UNION {IF Reifies(f, k) /\ ~nested THEN {} ELSE Below(f, k, nested) :
                    k \in Children(f, n)}
ScopeNodes(f, r, nested) == Below(f, r, nested)

-----------------------------------------------------------------------------
(* What the cursor is on (resolve_target, argument_target_at).             *)
Refused == [kind |-> "refused"]
BindingTarget(b) == [kind |-> "binding", at |-> b]
ArgumentTarget(f, r, i) == [kind |-> "argument", file |-> f, reif |-> r, input |-> i]

DefinitionTarget(f, ref) ==
  IF Cardinality(Definitions(f, ref)) # 1 THEN Refused
  ELSE BindingTarget(CHOOSE b \in Definitions(f, ref) : TRUE)

(* The input that a placeholder belongs to.  A bare boundary has no        *)
(* keyword to rename.                                                      *)
PlaceholderTarget(f, n, name) ==
  LET owner == Frames(f, n)[1]
      inputs == {i \in Inputs(f, owner) : InputRef(f, owner, i) = Local(name)}
  IN IF Frames(f, n) = <<>> \/ inputs = {} \/ ~(Sugar(f, owner) \/ Keyworded(f, owner))
     THEN Refused
     ELSE ArgumentTarget(f, owner, CHOOSE i \in inputs : \A j \in inputs : i <= j)

RefTarget(f, n, ref) ==
  IF ref.ns = "local" THEN PlaceholderTarget(f, n, ref.name)
  ELSE DefinitionTarget(f, ref)

(* A call by name has its callee's reference span the whole call, so the   *)
(* cursor on a keyword is on the callee.                                   *)
CalleeTarget(f, n) ==
  LET callee == Head(At(f, n).kids) IN RefTarget(f, callee, RefOf(f, callee))

TargetAt(s) ==
  LET f == s.file  n == s.node
  IN CASE Op(f, n) = "bind" -> BindingTarget(BindingAt(f, n))
       [] Reifies(f, n) -> ArgumentTarget(f, n, s.slot)
       [] Op(f, n) = "id" -> RefTarget(f, n, Read(f, n))
       [] Op(f, n) = "member" ->
            LET ref == IF s.slot = 1 /\ Read(f, n) # Builtin("self") THEN Read(f, n)
                       ELSE ReadMember(f, n)
            IN RefTarget(f, n, ref)
       [] Op(f, n) = "call" -> CalleeTarget(f, n)
       [] OTHER -> Refused

-----------------------------------------------------------------------------
(* How the callable of an argument is used (callable_uses).                *)
CallableRef(f, n, callables) ==
  RefOf(f, n).ns \in {"self", "module"}
    /\ Definitions(f, RefOf(f, n)) # {} /\ Definitions(f, RefOf(f, n)) \subseteq callables

AllBindings == UNION {{BindingAt(f, b) : b \in Bindings(f)} : f \in DOMAIN program}

RECURSIVE WithAliases(_)
WithAliases(callables) ==
  LET more == {b \in AllBindings \ callables :
                 CallableRef(b.file, Rhs(b.file, b.bind), callables)}
  IN IF more = {} THEN callables ELSE WithAliases(callables \cup more)

CallablesByOwnName(t) == {b \in AllBindings : b.file = t.file /\ Rhs(b.file, b.bind) = t.reif}
CallablesOf(t) ==
  WithAliases({b \in AllBindings : b.file = t.file /\ Rhs(b.file, b.bind) = t.reif})

PositionalConsumers == {"pushfwd"}
OneInputAppliers == {"fchain"}

Calls(f) == {n \in Nodes(f) : Op(f, n) = "call"}
Callee(f, c) == Head(At(f, c).kids)
Arguments(f, c) == Tail(At(f, c).kids)
BuiltinHead(f, c) ==
  IF Op(f, Callee(f, c)) = "id" /\ Read(f, Callee(f, c)).ns = "builtin"
  THEN NameAt(Site(f, Callee(f, c), 1)) ELSE ""

(* The callable a call applies, by its head or as its first argument.      *)
Applied(f, c) ==
  CASE BuiltinHead(f, c) = "" -> {Callee(f, c)}
    [] BuiltinHead(f, c) \in {"broadcast"} \cup PositionalConsumers -> {Arguments(f, c)[1]}
    [] OTHER -> {}
PassesOn(f, c, one) ==
  IF one /\ BuiltinHead(f, c) \in OneInputAppliers THEN Range(Tail(Arguments(f, c))) ELSE {}

Followed(f, one) ==
  {Rhs(f, b) : b \in Bindings(f)}
    \cup UNION {Applied(f, c) \cup PassesOn(f, c, one) : c \in Calls(f)}

IsCallable(t, callables, f, n) ==
  <<f, n>> = <<t.file, t.reif>> \/ CallableRef(f, n, callables)

Escapes(t) ==
  LET one == Cardinality(Inputs(t.file, t.reif)) = 1
      callables == CallablesOf(t)
  IN \E f \in DOMAIN program : \E n \in Nodes(f) \ Followed(f, one) :
       IsCallable(t, callables, f, n)

(* The keywords of a call are looked for behind the callee's text; behind  *)
(* the `self` of `self.f` there are none.                                  *)
QualifiedBySelf(f, n) == Op(f, n) = "member" /\ Read(f, n) = Builtin("self")

KeywordSites(t, name) ==
  LET callables == CallablesOf(t)
      Reaches(f, c) == /\ BuiltinHead(f, c) \notin PositionalConsumers
                       /\ \E n \in Applied(f, c) : /\ ~QualifiedBySelf(f, n)
                                                   /\ IsCallable(t, callables, f, n)
      Keyword(f, c) == {i \in DOMAIN At(f, c).names : At(f, c).names[i] = name}
  IN UNION {UNION {{Site(f, c, i) : i \in Keyword(f, c)} :
                     c \in {d \in Calls(f) : Keyword(f, d) # {} /\ Reaches(f, d)}} :
              f \in DOMAIN program}

-----------------------------------------------------------------------------
(* The occurrences that are rewritten, and highlighted.                    *)
TargetName(t) ==
  IF t.kind = "binding" THEN NameOf(t.at.file, t.at.bind)
  ELSE InputName(t.file, t.reif, t.input)

BindingOccurrences(b) ==
  {Site(b.file, b.bind, 1)}
  \cup UNION {UNION {{Site(f, n, r.slot) :
                        r \in {q \in Refs(f, n) : Resolves(f, q.ref, b)}} :
                      n \in {m \in Nodes(f) : ~QualifiedBySelf(f, m)}} :
                f \in DOMAIN program}

(* `a = _a_`: renaming the input renames the placeholder with it.          *)
ByPlaceholder(t) ==
  /\ Keyworded(t.file, t.reif)
  /\ InputRef(t.file, t.reif, t.input) = Local(Placeholder(TargetName(t)))

ArgumentOccurrences(t) ==
  LET f == t.file
      ref == InputRef(f, t.reif, t.input)
      spelled == {TargetName(t)}
                 \cup IF ByPlaceholder(t) THEN {Placeholder(TargetName(t))} ELSE {}
      inBody == {Site(f, n, 1) : n \in
                   {m \in ScopeNodes(f, t.reif, FALSE) :
                      /\ Op(f, m) \in {"id", "member"} /\ Read(f, m) = ref /\ ref.ns = "local"
                      /\ NameAt(Site(f, m, 1)) \in spelled}}
  IN {Site(f, t.reif, t.input)} \cup inBody \cup KeywordSites(t, TargetName(t))
     \cup IF ByPlaceholder(t) THEN {Site(f, Value(f, t.reif, t.input), 1)} ELSE {}

Occurrences(t) ==
  IF t.kind = "binding" THEN BindingOccurrences(t.at) ELSE ArgumentOccurrences(t)

-----------------------------------------------------------------------------
(* What is refused (rename_edits, check_argument_rename).                  *)
BindingRenameOk(b, new) ==
  /\ new \notin Reserved \cup Placeholders
  /\ Bound(b.file, new) = {}

IsInputRef(f, r, name) == \E i \in Inputs(f, r) : InputRef(f, r, i) = Local(name)
PlaceholderTaken(t, name) ==
  \/ IsInputRef(t.file, t.reif, name)
  \/ \E n \in ScopeNodes(t.file, t.reif, FALSE) :
       Op(t.file, n) \in {"id", "member"} /\ Read(t.file, n) = Local(name)

(* The body of a sugar callable refers to what the new name would hide.    *)
CapturesOutsideNested(t, new) ==
  \E n \in ScopeNodes(t.file, t.reif, FALSE) :
    /\ Op(t.file, n) \in {"id", "member"}
    /\ Read(t.file, n) \in {SelfMod(new), Builtin(new)}
Captures(t, new) ==
  \E n \in ScopeNodes(t.file, t.reif, TRUE) :
    /\ Op(t.file, n) \in {"id", "member"}
    /\ \/ Read(t.file, n) \in {SelfMod(new), Builtin(new)}
       \/ Op(t.file, n) = "member" /\ ReadMember(t.file, n) = SelfMod(new)

ArgumentRenameOk(t, new) ==
  /\ new \notin Reserved \cup Placeholders
  /\ \A i \in Inputs(t.file, t.reif) : InputName(t.file, t.reif, i) # new
  /\ ByPlaceholder(t) => /\ Placeholder(new) \in Placeholders
                         /\ ~PlaceholderTaken(t, Placeholder(new))
  /\ Sugar(t.file, t.reif) => ~Captures(t, new)
  /\ ~Escapes(t)

RenameOk(t, new) ==
  /\ new # TargetName(t)
  /\ IF t.kind = "binding" THEN BindingRenameOk(t.at, new) ELSE ArgumentRenameOk(t, new)
  /\ \A s \in Occurrences(t) : s.file \notin ReadOnly

(* Of a placeholder the name between the underscores is replaced.          *)
Replaced(t, new, old) == IF old = TargetName(t) THEN new ELSE Placeholder(new)
Edited(t, new) ==
  LET sites == Occurrences(t)
  IN [f \in DOMAIN program |->
       [n \in Nodes(f) |->
         [At(f, n) EXCEPT !.names = [i \in DOMAIN @ |->
            IF Site(f, n, i) \in sites THEN Replaced(t, new, @[i]) ELSE @[i]]]]]

-----------------------------------------------------------------------------
(* What a name denotes, by the rules of the language.                      *)
BindingOf(b) == [is |-> "binding", file |-> b.file, node |-> b.bind, input |-> 0]
InputOf(f, r, i) == [is |-> "input", file |-> f, node |-> r, input |-> i]
Text(ns, name) == [is |-> ns, name |-> name]

OwnInputs(f, n, name) ==
  IF Frames(f, n) = <<>> THEN {}
  ELSE LET owner == Frames(f, n)[1]
       IN {InputOf(f, owner, i) : i \in {j \in Inputs(f, owner) :
             InputRef(f, owner, j) = Local(name)}}

Denoted(f, n, ref) ==
  CASE ref.ns = "local" -> OwnInputs(f, n, ref.name)
    [] ref.ns \in {"self", "module"} -> {BindingOf(b) : b \in Definitions(f, ref)}
    [] OTHER -> {Text(ref.ns, ref.name)}

(* The callables an expression may have for its value; seen are the inputs *)
(* that are being followed.                                                *)
RECURSIVE Values(_, _, _)
PassedTo(e, g, seen) ==
  LET Positional(c) == Len(Arguments(g, c)) - Len(At(g, c).names)
      takers == {c \in Calls(g) : e.input <= Positional(c)}
  IN UNION {Values(g, Arguments(g, c)[e.input], seen) :
              c \in {d \in takers : [file |-> e.file, node |-> e.node]
                                      \in Values(g, Callee(g, d), seen)}}
Values(f, n, seen) ==
  IF Reifies(f, n) THEN {[file |-> f, node |-> n]}
  ELSE UNION {CASE e.is = "binding" -> Values(e.file, Rhs(e.file, e.node), seen)
                [] e.is = "input" /\ e \notin seen ->
                     UNION {PassedTo(e, g, seen \cup {e}) : g \in DOMAIN program}
                [] OTHER -> {} : e \in Denoted(f, n, RefOf(f, n))}

(* The parameters an expression depends on, which an implicit boundary     *)
(* takes for its inputs.                                                   *)
RECURSIVE Depends(_, _)
Depends(f, n) ==
  UNION ({Depends(f, k) : k \in Range(At(f, n).kids)}
    \cup {IF Op(f, Rhs(f, b)) = "input" THEN {BindingAt(f, b)} ELSE Depends(f, Rhs(f, b)) :
            b \in {c \in Bindings(f) : BindingAt(f, c) \in Definitions(f, RefOf(f, n))}})

InputsNamed(v, name) ==
  {InputOf(v.file, v.node, i) : i \in {j \in Inputs(v.file, v.node) :
      InputName(v.file, v.node, j) = name}}
  \cup IF ~Sugar(v.file, v.node) /\ Inputs(v.file, v.node) = {}
       THEN {BindingOf(b) : b \in {c \in Depends(v.file, v.node) : NameOf(c.file, c.bind) = name}}
       ELSE {}

(* The callables that take a keyword, or a record's fields, by name.       *)
TakesKeywords(f, c) ==
  UNION {Values(f, n, {}) : n \in IF BuiltinHead(f, c) \in {"", "broadcast"} THEN Applied(f, c) ELSE {}}

RECURSIVE RecordsOf(_, _)
RecordsOf(f, n) ==
  CASE Op(f, n) = "record" -> {[file |-> f, node |-> n]}
    [] Op(f, n) = "lambda" -> RecordsOf(f, Head(At(f, n).kids))
    [] OTHER -> UNION {RecordsOf(b.file, Rhs(b.file, b.bind)) : b \in Definitions(f, RefOf(f, n))}

SplatsAt(f, c) ==
  LET args == Arguments(f, c)
  IN CASE BuiltinHead(f, c) = "" /\ Len(args) = 1 /\ At(f, c).names = <<>> ->
            [from |-> RecordsOf(f, args[1]), to |-> Values(f, Callee(f, c), {})]
       [] BuiltinHead(f, c) = "fchain" /\ Len(args) = 2 ->
            [from |-> RecordsOf(f, args[1]), to |-> Values(f, args[2], {})]
       [] OTHER -> [from |-> {}, to |-> {}]

SplatInto(f, n) ==
  {v \in UNION {UNION {IF [file |-> f, node |-> n] \in SplatsAt(g, c).from
                       THEN SplatsAt(g, c).to ELSE {} : c \in Calls(g)} : g \in DOMAIN program} :
     Cardinality(Inputs(v.file, v.node)) > 1}

Denotes(s) ==
  LET f == s.file  n == s.node  name == NameAt(s)
  IN CASE Op(f, n) = "bind" -> {BindingOf(BindingAt(f, b)) : b \in Bound(f, name)}
       [] Reifies(f, n) -> InputsNamed([file |-> f, node |-> n], name)
       [] Op(f, n) = "id" \/ (Op(f, n) = "member" /\ s.slot = 1) -> Denoted(f, n, Read(f, n))
       [] Op(f, n) = "member" -> Denoted(f, n, ReadMember(f, n))
       [] Op(f, n) = "load" -> {BindingOf(BindingAt(At(f, n).file, b)) :
                                  b \in Bound(At(f, n).file, name)}
       [] Op(f, n) = "call" ->
            IF TakesKeywords(f, n) = {} THEN {Text("field", name)}
            ELSE UNION {InputsNamed(v, name) : v \in TakesKeywords(f, n)}
       [] OTHER -> {Text("field", name)}
                   \cup UNION {InputsNamed(v, name) : v \in SplatInto(f, n)}

Meaning == [s \in Sites |-> Denotes(s)]

-----------------------------------------------------------------------------
(* Where a rename is known to change what a name means.                    *)

(* An occurrence comes to stand below a parameter of the new name.         *)
Captured(t, new) ==
  t.kind = "binding" /\
    \E s \in BindingOccurrences(t.at) :
      /\ Op(s.file, s.node) # "bind" /\ s.slot = 1
      /\ \E r \in Range(Frames(s.file, s.node)) : IsLambdaArg(s.file, r, new)

(* The file mentions the built-in of that name (documented as deliberate). *)
BuiltinHidden(t, new) ==
  /\ t.kind = "binding"
  /\ \E n \in Nodes(t.at.file) :
       Op(t.at.file, n) \in {"id", "member"} /\ Read(t.at.file, n) = Builtin(new)

(* The binding is mentioned, or the callable called, as `self.name`.       *)
ThroughSelf(t) ==
  \E f \in DOMAIN program : \E n \in {m \in Nodes(f) : QualifiedBySelf(f, m)} :
    IF t.kind = "binding" THEN Resolves(f, ReadMember(f, n), t.at)
    ELSE /\ IsCallable(t, CallablesOf(t), f, n)
         /\ \E c \in Calls(f) : n \in Applied(f, c) /\ TargetName(t) \in Range(At(f, c).names)

(* A keyword or a field is spelled as the binding, without being a         *)
(* reference: a load_module input, or the input of a boundary that takes   *)
(* its names from the bindings.                                            *)
InterfaceOf(b) ==
  {BindingOf(b)} \cup
  {InputOf(b.file, r, i) : <<r, i>> \in
     UNION {{<<r, i>> : i \in {j \in Inputs(b.file, r) : Resolves(b.file, InputRef(b.file, r, j), b)}} :
              r \in {n \in Nodes(b.file) : Op(b.file, n) = "reify" /\ ~Keyworded(b.file, n)}}}
NamesAnInterface(t) ==
  t.kind = "binding" /\
    \E s \in Sites :
      /\ Op(s.file, s.node) \in {"call", "load", "record"}
      /\ Denotes(s) \cap InterfaceOf(t.at) # {}

(* The body writes the placeholder of a parameter.                         *)
SpelledOut(t) ==
  /\ t.kind = "argument" /\ Sugar(t.file, t.reif)
  /\ \E n \in ScopeNodes(t.file, t.reif, FALSE) :
       /\ Op(t.file, n) \in {"id", "member"}
       /\ NameAt(Site(t.file, n, 1)) = Placeholder(TargetName(t))

(* A record's fields are passed by name.                                   *)
Splatted(t) ==
  t.kind = "argument" /\
    \E s \in Sites :
      Op(s.file, s.node) = "record" /\ InputOf(t.file, t.reif, t.input) \in Denotes(s)

(* A boundary value below a lambda has the new name.                       *)
HidesABoundary(t, new) ==
  /\ t.kind = "argument" /\ Sugar(t.file, t.reif)
  /\ \E n \in Nodes(t.file) :
       /\ Op(t.file, n) = "id" /\ t.reif \in Range(Frames(t.file, n))
       /\ n \notin ScopeNodes(t.file, t.reif, TRUE) /\ NameAt(Site(t.file, n, 1)) = new

Gaps(t, new) ==
  {g \in {"captured", "builtin", "self", "interface", "spelled", "splat", "boundary"} :
     CASE g = "captured" -> Captured(t, new)
       [] g = "builtin" -> BuiltinHidden(t, new)
       [] g = "self" -> ThroughSelf(t)
       [] g = "interface" -> NamesAnInterface(t)
       [] g = "spelled" -> SpelledOut(t)
       [] g = "splat" -> Splatted(t)
       [] g = "boundary" -> HidesABoundary(t, new)}

-----------------------------------------------------------------------------
vars == <<program, renames, meant, beyond>>

(* The session begins with files in which every name means something.      *)
Init ==
  /\ program \in Workspaces
  /\ renames = 0
  /\ meant = Meaning
  /\ \A s \in Sites : meant[s] # {} /\ Text("wrong", "") \notin meant[s]
  /\ beyond = {}

(* The cursor is on the name at s.  The editor applies the edits before it *)
(* asks again.                                                             *)
Rename(s, new) ==
  /\ renames < MaxRenames
  /\ beyond = {}
  /\ s.file \notin ReadOnly /\ TargetAt(s) # Refused
  /\ RenameOk(TargetAt(s), new)
  /\ program' = Edited(TargetAt(s), new)
  /\ beyond' = Gaps(TargetAt(s), new)
  /\ renames' = renames + 1
  /\ UNCHANGED meant

Next == \E s \in Sites, new \in NewNames : Rename(s, new)
Spec == Init /\ [][Next]_vars

-----------------------------------------------------------------------------
(* After any renames, of bindings and of the inputs of callables, every    *)
(* name in every file denotes what it denoted before: the same binding,    *)
(* the same input of the same callable (also at a keyword of a call that   *)
(* reaches it through aliases and other files), the same built-in.  The    *)
(* gaps above are all the exceptions, and each of them is one.             *)
NamesKeepTheirMeaning == (beyond = {}) <=> (Meaning = meant)
=============================================================================
