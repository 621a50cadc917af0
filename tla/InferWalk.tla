------------------------------- MODULE InferWalk -------------------------------
(***************************************************************************)
(* Type inference over a program (crates/infer, trace.rs and modules.rs):  *)
(* one stack of work items takes the place of recursion, an annotation     *)
(* table per scope takes the place of results, and a session keeps the     *)
(* dependencies inferred so far and those in progress.                     *)
(*                                                                         *)
(* A scope is opened for a dependency (its inputs replaced by what the     *)
(* importer substitutes), for the body of a callable of the same module    *)
(* (its input replaced by the argument) and for a call of an imported      *)
(* callable in the module that declares it.  The suspended scope waits in  *)
(* a Resume item on the stack.  A step is one work item.                   *)
(***************************************************************************)
EXTENDS InferProgram

CONSTANTS
  Programs,  \* programs to infer: functions from identities to modules
  Root       \* identity of the module that inference is called on

ASSUME ProgramsAssumption ==
  \A p \in Programs :
    Root \in DOMAIN p /\ \A id \in DOMAIN p : WellFormed(p[id])

VARIABLES
  program,    \* the bundle, the root included
  here,       \* the module at work: its identity, and its graph
  scope,      \* its annotations, seeds, active bindings and diagnostics
  work,       \* the work items, next one first
  stack,      \* the session: dependencies in progress, innermost last
  memo,       \* the session: annotations of inferred dependencies
  depErrors,  \* the session: errors found in dependencies
  recursive,  \* bodies of recursive callables
  outcome     \* "running", "done" or "panicked"

session == <<stack, memo, depErrors, recursive>>
vars == <<program, here, scope, work, session, outcome>>

Mod == here.module

Put(f, k, v) == [x \in DOMAIN f \cup {k} |-> IF x = k THEN v ELSE f[x]]
PutNew(f, k, v) == IF k \in DOMAIN f THEN f ELSE Put(f, k, v)
Elements(s) == {s[i] : i \in DOMAIN s}

Fresh(seeds) == [inferred |-> <<>>, seeds |-> seeds, active |-> <<>>,
                 results |-> <<>>, errors |-> {}]

\* A module's scope before its first item: recursive callables have failed.
Initialized(m, seeds) ==
  LET bad == RecursiveNames(m)
  IN  [Fresh(seeds) EXCEPT
         !.inferred = [n \in {Rhs(m, b) : b \in bad} |-> Failed("recursive definition")],
         !.errors = IF bad = {} THEN {} ELSE {"recursive definition"}]
RecursiveBodies(m) == {Body(m, Rhs(m, b)) : b \in RecursiveNames(m)}

BindingItem(name) == [do |-> "Binding", name |-> name]
LeaveItem(name) == [do |-> "Leave", name |-> name]
EnterItem(n) == [do |-> "Enter", node |-> n]
FinishItem(n) == [do |-> "Finish", node |-> n]

Schedule(m) == [i \in DOMAIN m.binds |-> BindingItem(m.binds[i].name)]

Init ==
  /\ program \in Programs
  /\ here = [id |-> Root, module |-> program[Root]]
  /\ scope = Initialized(program[Root], <<>>)
  /\ work = Schedule(program[Root])
  /\ stack = <<>> /\ memo = <<>> /\ depErrors = {}
  /\ recursive = RecursiveBodies(program[Root])
  /\ outcome = "running"

Item == Head(work)
At(what) == outcome = "running" /\ work # <<>> /\ Item.do = what

Known(n) == n \in DOMAIN scope.inferred
TypeOf(n) == scope.inferred[n]
Node == Mod.nodes[Item.node]

-----------------------------------------------------------------------------
\* Bindings and entering of nodes.

Active(name) == name \in Elements(scope.active)

\* Go on with `items`, but first with the binding unless it is annotated.
\* A binding that is already active closes a cycle: it fails on the spot.
VisitBinding(name, items) ==
  LET rhs == Rhs(Mod, name)
      cycle == ~Known(rhs) /\ Active(name)
      opens == ~Known(rhs) /\ ~Active(name)
  IN  /\ scope' = IF cycle
                   THEN [scope EXCEPT !.inferred = Put(@, rhs, Failed("reference cycle")),
                                      !.errors = @ \cup {"reference cycle"}]
                   ELSE [scope EXCEPT !.active = IF opens THEN Append(@, name) ELSE @]
      /\ work' = IF opens THEN <<EnterItem(rhs), LeaveItem(name)>> \o items ELSE items

Binding ==
  /\ At("Binding")
  /\ VisitBinding(Item.name, Tail(work))
  /\ UNCHANGED <<program, here, session, outcome>>

LeaveBinding ==
  /\ At("Leave")
  /\ scope' = [scope EXCEPT !.active = SubSeq(@, 1, Len(@) - 1)]
  /\ work' = Tail(work)
  /\ UNCHANGED <<program, here, session, outcome>>

\* A substituted node takes its seed and nothing below it is looked at.
EnterSeeded ==
  /\ At("Enter") /\ Item.node \in DOMAIN scope.seeds
  /\ scope' = [scope EXCEPT !.inferred = Put(@, Item.node, scope.seeds[Item.node])]
  /\ work' = Tail(work)
  /\ UNCHANGED <<program, here, session, outcome>>

EnterKnownStays ==
  /\ At("Enter") /\ Item.node \notin DOMAIN scope.seeds /\ Known(Item.node)
  /\ UNCHANGED vars

EnterKnown ==
  /\ At("Enter") /\ Item.node \notin DOMAIN scope.seeds /\ Known(Item.node)
  /\ work' = Tail(work)
  /\ UNCHANGED <<program, here, scope, session, outcome>>

Opens == /\ At("Enter")
         /\ Item.node \notin DOMAIN scope.seeds /\ ~Known(Item.node)

EnterRef ==
  /\ Opens /\ IsRef(Mod, Item.node)
  /\ VisitBinding(Node.names[1], <<FinishItem(Item.node)>> \o Tail(work))
  /\ UNCHANGED <<program, here, session, outcome>>

AwaitedKids == Node.kids

\* The nodes an expression waits for: an import waits for the values its
\* module is loaded with, in the importer's scope.
Awaited ==
  IF Node.op = "import"
  THEN LET subs == Substitutions(Mod, Node.names[1]) IN [i \in DOMAIN subs |-> subs[i][2]]
  ELSE Node.kids

EnterNode ==
  /\ Opens /\ ~IsRef(Mod, Item.node)
  /\ work' = [i \in DOMAIN Awaited |-> EnterItem(Awaited[i])]
             \o <<FinishItem(Item.node)>> \o Tail(work)
  /\ UNCHANGED <<program, here, scope, session, outcome>>

-----------------------------------------------------------------------------
\* Finishing of nodes other than imports and calls.

\* The annotations that finishing a node reads.
Reads ==
  CASE IsRef(Mod, Item.node) -> {RefRhs(Mod, Item.node)}
    [] Node.op = "import" -> {s[2] : s \in Elements(Substitutions(Mod, Node.names[1]))}
    [] OTHER -> Kids(Mod, Item.node)
Complete == \A n \in Reads : Known(n)

\* The first failed type among the children fails the operation too.
FirstFailed(t) ==
  LET bad == {i \in DOMAIN Node.kids : IsFailed(TypeOf(Node.kids[i]))}
  IN  IF bad = {} THEN t ELSE TypeOf(Node.kids[CHOOSE i \in bad : \A j \in bad : i <= j])

\* What a node is refused for, by itself.
Refusal ==
  CASE Node.op = "unknown" -> {"unresolvable name"}
    [] Node.op = "ref" /\ ~IsRef(Mod, Item.node) -> {"unresolved reference"}
    [] Node.op = "vector" /\ Forbidden(TypeOf(Node.kids[1])) -> {"array element"}
    [] OTHER -> {}

PlainType ==
  IF Refusal # {} THEN Failed(CHOOSE why \in Refusal : TRUE)
  ELSE CASE Node.op \in {"literal", "external"} -> Real
         [] Node.op \in {"local", "hole"} -> AnyType
         [] IsRef(Mod, Item.node) -> TypeOf(RefRhs(Mod, Item.node))
         [] Node.op = "vector" -> FirstFailed(Array(TypeOf(Node.kids[1])))
         [] Node.op = "load" -> FirstFailed(ModuleType)
         [] Node.op = "fun" -> FunctionType

\* A load also reports the substitutions its file refuses.
PlainErrors ==
  IF Node.op = "load" /\ Node.names[1] \in DOMAIN program
  THEN RefusedAssigns(Mod, Item.node, program[Node.names[1]]) ELSE Refusal

\* An annotation that is already there, a cycle's, is kept.
FinishPlain ==
  /\ At("Finish") /\ Node.op \notin {"import", "apply"} /\ Complete
  /\ scope' = [scope EXCEPT !.inferred = PutNew(@, Item.node, PlainType),
                            !.errors = @ \cup PlainErrors]
  /\ work' = Tail(work)
  /\ UNCHANGED <<program, here, session, outcome>>

-----------------------------------------------------------------------------
\* Imports.

\* The annotations of the values a module is loaded with.
SubstAnnos(alias) ==
  LET subs == Substitutions(Mod, alias)
  IN  [i \in DOMAIN subs |-> <<subs[i][1], TypeOf(subs[i][2])>>]
SubstKnown(alias) ==
  \A i \in DOMAIN Substitutions(Mod, alias) : Known(Substitutions(Mod, alias)[i][2])

\* The file an alias is loaded from, if the bundle has it.
Sources(alias) ==
  LET d == Directive(Mod, alias)
  IN  IF d = 0 THEN {} ELSE {Mod.nodes[d].names[1]} \cap DOMAIN program

NeverInProgress(dep) == FALSE

\* The session's stack: a dependency in progress is not started again.
InProgress(dep) == dep \in Elements(stack)

NotPopped == stack

Popped == SubSeq(stack, 1, Len(stack) - 1)

\* The suspended module that a scope's end goes back to.
Suspended == Item.here

FileKey(dep, annos) == <<dep, <<>>>>

\* Dependencies are remembered by file and substituted types.
MemoKey(dep, annos) == <<dep, annos>>

\* Scope s after import n resolved to export `name` of an inferred dependency.
\* The import's annotation is replaced whatever it was.
Resolved(s, n, dep, annotations, name) ==
  LET m == program[dep]
      rhs == Rhs(m, name)
      type == IF rhs \in DOMAIN annotations THEN annotations[rhs] ELSE Deferred
      result == IF Op(m, rhs) = "fun" /\ Body(m, rhs) \in DOMAIN annotations
                THEN {annotations[Body(m, rhs)]} ELSE {}
  IN  IF name \in Names(m) /\ BindingOf(m, name).public
      THEN [s EXCEPT !.inferred = Put(@, n, type),
                     !.results = IF result = {} THEN @
                                 ELSE Put(@, n, CHOOSE t \in result : TRUE)]
      ELSE [s EXCEPT !.inferred = Put(@, n, Failed("cross-module resolution")),
                     !.errors = @ \cup {"cross-module resolution"}]

FinishesImport == At("Finish") /\ Node.op = "import" /\ Complete

ImportFails ==
  /\ FinishesImport
  /\ \A dep \in Sources(Node.names[1]) :
       /\ MemoKey(dep, SubstAnnos(Node.names[1])) \notin DOMAIN memo
       /\ InProgress(dep)
  /\ scope' = [scope EXCEPT !.inferred = Put(@, Item.node, Failed("cross-module resolution")),
                            !.errors = @ \cup {"cross-module resolution"}]
  /\ work' = Tail(work)
  /\ UNCHANGED <<program, here, session, outcome>>

ImportRemembered ==
  /\ FinishesImport
  /\ \E dep \in Sources(Node.names[1]) :
       LET key == MemoKey(dep, SubstAnnos(Node.names[1]))
       IN  /\ key \in DOMAIN memo
           /\ scope' = Resolved(scope, Item.node, dep, memo[key], Node.names[2])
  /\ work' = Tail(work)
  /\ UNCHANGED <<program, here, session, outcome>>

\* Suspend this module and infer the dependency.
ImportInfers ==
  /\ FinishesImport
  /\ \E dep \in Sources(Node.names[1]) :
       LET key == MemoKey(dep, SubstAnnos(Node.names[1]))
           seeds == SeedPlan(program[dep], SubstAnnos(Node.names[1]))
       IN  /\ key \notin DOMAIN memo /\ ~InProgress(dep)
           /\ here' = [id |-> dep, module |-> program[dep]]
           /\ scope' = Initialized(program[dep], seeds)
           /\ stack' = Append(stack, dep)
           /\ work' = Schedule(program[dep])
                \o <<[do |-> "ResumeModule", node |-> Item.node, here |-> here,
                      scope |-> scope, key |-> key, export |-> Node.names[2]]>>
                \o Tail(work)
           /\ recursive' = recursive \cup RecursiveBodies(program[dep])
  /\ UNCHANGED <<program, memo, depErrors, outcome>>

ResumeModule ==
  /\ At("ResumeModule")
  /\ depErrors' = depErrors \cup scope.errors
  /\ here' = Suspended
  /\ stack' = Popped
  /\ memo' = Put(memo, Item.key, scope.inferred)
  /\ scope' = Resolved(Item.scope, Item.node, Item.key[1], scope.inferred, Item.export)
  /\ work' = Tail(work)
  /\ UNCHANGED <<program, recursive, outcome>>

-----------------------------------------------------------------------------
\* Calls.

Callee == Node.kids[1]
Argument == Node.kids[2]
Applies == At("Finish") /\ Node.op = "apply" /\ Complete

\* The callable's input is a binding whose type does not admit the argument.
Mismatch ==
  LET f == LocalReification(Mod, Callee)
      name == Mod.nodes[f].names[2]
  IN  /\ f # 0 /\ Mod.nodes[f].names[1] = "self"
      /\ name \in Names(Mod) /\ Known(Rhs(Mod, name))
      /\ Incompatible(TypeOf(Rhs(Mod, name)), TypeOf(Argument))

\* The nodes the argument is substituted for, if the callee is local.
BodyInputs ==
  LET f == LocalReification(Mod, Callee) IN IF f = 0 THEN {} ELSE InputNodes(Mod, f)
CallsBody == ~Mismatch /\ TypeOf(Callee) = FunctionType /\ BodyInputs # {}

\* Without a body to infer the result is the one the callable has by itself.
Unsubstituted ==
  LET f == RefTarget(Mod, Callee)
  IN  IF TypeOf(Callee) # FunctionType THEN Deferred
      ELSE IF Callee \in DOMAIN scope.results THEN scope.results[Callee]
      ELSE IF Op(Mod, f) = "fun" /\ Known(Body(Mod, f)) THEN TypeOf(Body(Mod, f))
      ELSE Deferred

\* A failed argument fails the call, unless it failed already.
WithArgument(t, arg) == IF IsFailed(arg) /\ ~IsFailed(t) THEN arg ELSE t

CallType ==
  WithArgument(IF Mismatch THEN Failed("argument bound whole") ELSE Unsubstituted,
               TypeOf(Argument))

\* The import the callee stands for. References are followed as written,
\* through substituted bindings too.
Imported == Mod.nodes[RefTarget(Mod, Callee)]
LooksImported ==
  /\ ~CallsBody /\ ~IsFailed(CallType)
  /\ TypeOf(Callee) = FunctionType /\ Imported.op = "import"

\* Where an imported callable can be called: not in a module in progress.
CallScopes ==
  IF ~LooksImported \/ ~SubstKnown(Imported.names[1]) THEN {}
  ELSE {dep \in Sources(Imported.names[1]) :
          ~InProgress(dep) /\ CallableExport(program[dep], Imported.names[2])}

ApplyPlain ==
  /\ Applies /\ ~CallsBody /\ CallScopes = {}
  /\ LooksImported => SubstKnown(Imported.names[1])
  /\ scope' = [scope EXCEPT !.inferred = PutNew(@, Item.node, CallType),
                            !.errors = @ \cup IF Mismatch THEN {"argument bound whole"} ELSE {}]
  /\ work' = Tail(work)
  /\ UNCHANGED <<program, here, session, outcome>>

\* Infer the body again with the argument in place of the input. Seeds of the
\* enclosing body stay, unless the argument replaces them.
ApplyBody ==
  /\ Applies /\ CallsBody
  /\ LET body == Body(Mod, LocalReification(Mod, Callee))
         seeds == [n \in BodyInputs \cup DOMAIN scope.seeds |->
                     IF n \in BodyInputs THEN TypeOf(Argument) ELSE scope.seeds[n]]
         resume == [do |-> "ResumeBody", node |-> Item.node, body |-> body,
                    arg |-> TypeOf(Argument), scope |-> scope]
     IN  IF body \in recursive
         THEN /\ scope' = [Fresh(seeds) EXCEPT !.inferred =
                             Put(@, body, Failed("recursive definition"))]
              /\ work' = <<resume>> \o Tail(work)
         ELSE /\ scope' = Fresh(seeds)
              /\ work' = <<EnterItem(body), resume>> \o Tail(work)
  /\ UNCHANGED <<program, here, session, outcome>>

NothingTaken(type) == {}

\* The errors a suspended scope takes over from one opened for a call.
TakenOver(type) == IF IsFailed(type) THEN scope.errors ELSE {}

ResumeBody ==
  /\ At("ResumeBody")
  /\ LET type == TypeOf(Item.body)
     IN  scope' = [Item.scope EXCEPT
                     !.inferred = PutNew(@, Item.node, WithArgument(type, Item.arg)),
                     !.errors = @ \cup TakenOver(type)]
  /\ work' = Tail(work)
  /\ UNCHANGED <<program, here, session, outcome>>

ApplyImported ==
  /\ Applies
  /\ \E dep \in CallScopes :
       LET m == program[dep]
           seeds == SeedPlan(m, SubstAnnos(Imported.names[1]))
       IN  /\ here' = [id |-> dep, module |-> WithCall(m, Imported.names[2])]
           /\ scope' = Fresh(Put(seeds, CallArgument(m), TypeOf(Argument)))
           /\ stack' = Append(stack, dep)
           /\ work' = <<EnterItem(CallRoot(m)),
                        [do |-> "ResumeCall", node |-> Item.node, root |-> CallRoot(m),
                         here |-> here, scope |-> scope]>> \o Tail(work)
  /\ UNCHANGED <<program, memo, depErrors, recursive, outcome>>

ResumeCall ==
  /\ At("ResumeCall")
  /\ LET type == TypeOf(Item.root)
     IN  scope' = [Item.scope EXCEPT !.inferred = Put(@, Item.node, type),
                                     !.errors = @ \cup TakenOver(type)]
  /\ here' = Suspended
  /\ stack' = Popped
  /\ work' = Tail(work)
  /\ UNCHANGED <<program, memo, depErrors, recursive, outcome>>

-----------------------------------------------------------------------------
\* An annotation that is read is not there: the walk aborts.
Panic ==
  /\ At("Finish")
  /\ \/ ~Complete
     \/ Applies /\ LooksImported /\ ~SubstKnown(Imported.names[1])
  /\ outcome' = "panicked"
  /\ UNCHANGED <<program, here, scope, work, session>>

Finished ==
  /\ outcome = "running" /\ work = <<>>
  /\ scope' = [scope EXCEPT !.errors = @ \cup depErrors]
  /\ depErrors' = {}
  /\ outcome' = "done"
  /\ UNCHANGED <<program, here, work, stack, memo, recursive>>

Next ==
  \/ Binding \/ LeaveBinding
  \/ EnterSeeded \/ EnterKnown \/ EnterRef \/ EnterNode
  \/ FinishPlain
  \/ ImportFails \/ ImportRemembered \/ ImportInfers \/ ResumeModule
  \/ ApplyPlain \/ ApplyBody \/ ResumeBody \/ ApplyImported \/ ResumeCall
  \/ Panic \/ Finished

Spec == Init /\ [][Next]_vars
FairSpec == Spec /\ WF_vars(Next)

-----------------------------------------------------------------------------
\* The session's innermost dependency is the module at work, so that load
\* literals are resolved against the module that wrote them, however scopes
\* were opened and closed (modules.rs, importer_id).
Importer(s) == IF s = <<>> THEN Root ELSE s[Len(s)]
ImporterIsCurrent == here.id = Importer(stack)

\* No module is inferred, or called, inside itself: this is what bounds the
\* number of suspended scopes on cyclic imports.
NeverInsideItself ==
  \A i, j \in DOMAIN stack : stack[i] = stack[j] => i = j

\* A failed type that the caller of inference sees was reported, for its
\* reason: neither scopes that keep their errors to themselves nor remembered
\* dependencies make one disappear (lib.rs: `(%failed ...)` plus an error).
FailedIsReported ==
  outcome = "done" =>
    \A n \in DOMAIN scope.inferred :
      IsFailed(TypeOf(n)) => TypeOf(n)[2] \in scope.errors

\* An annotation that is read has been made. The one exception in the code is
\* a call through a binding that a callable is substituted for.
ReadsAreComplete ==
  outcome = "panicked" => Node.op = "apply" /\ Route(Mod, Callee) \cap DOMAIN scope.seeds # {}

\* Inference ends, on cyclic bindings, recursive callables and cyclic imports.
Terminates == <>(outcome # "running")

=============================================================================
