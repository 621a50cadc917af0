--------------------------- MODULE ExpressionParser ---------------------------
(***************************************************************************)
(* The expression parser (crates/syntax/src/parser.rs): a loop over a      *)
(* stack of frames instead of recursive calls.  A frame that starts a      *)
(* child leaves its continuation below it; the child's node comes back in  *)
(* `value`.  Around it is the round a formatter makes: a text is parsed,   *)
(* the tree printed, the printed text parsed again.                        *)
(***************************************************************************)
EXTENDS ExpressionTrees, SequencesExt

CONSTANTS
  Sources,       \* token sequences users write
  Trees,         \* trees other parts of the program build
  Styles,        \* the syntaxes to print in, with the width of a line
  TextOf(_, _)   \* the text of a tree in a style

VARIABLES
  stage,   \* "parse", "print", "done", "error"
  style,   \* the style printed in last; Unprinted before
  tree,    \* what the text was printed from; Absent for a user's text
  toks, pos,
  work,    \* the stack of frames, its top first
  value,   \* the node a child returned
  scopes   \* reify_frames, the innermost first

vars == <<stage, style, tree, toks, pos, work, value, scopes>>

-----------------------------------------------------------------------------
(* Frames, operators, scopes.                                              *)

Expr == [frame |-> "Expr"]
Level(l) == [frame |-> "Level", level |-> l]
Op(func, dotted) == [func |-> func, dotted |-> dotted]
Scope(kind, names) == [kind |-> kind, names |-> names]
Target(to, name, callee) == [to |-> to, name |-> name, callee |-> callee]
CallArgs(target, reify) ==
  [target |-> target, positional |-> <<>>, named |-> <<>>, keys |-> <<>>,
   reify |-> reify, bare |-> "unset"]

Unprinted == [full |-> TRUE, width |-> 0]

Init ==
  /\ style = Unprinted /\ pos = 1 /\ value = Absent /\ scopes = <<>>
  /\ \/ /\ stage = "parse" /\ tree = Absent /\ toks \in Sources
        /\ work = <<Expr>>
     \/ /\ stage = "print" /\ tree \in Trees /\ toks = <<>>
        /\ work = <<>>

EndOfInput == S("")
Tok(k) == IF k \in DOMAIN toks THEN toks[k] ELSE EndOfInput
Is(k, s) == Tok(k) = S(s)
IsName(k) == Tok(k).t = "name"

Top == Head(work)
At(f) == stage = "parse" /\ work # <<>> /\ Top.frame = f

(* The frame is replaced by others; the rest of the stack stays.           *)
Go(k, frames, node) ==
  /\ pos' = k /\ work' = frames \o Tail(work) /\ value' = node
  /\ UNCHANGED <<stage, style, tree, toks>>
Goto(k, frames, node) == Go(k, frames, node) /\ UNCHANGED scopes

Fail == stage' = "error" /\ UNCHANGED <<style, tree, toks, pos, work, value, scopes>>

-----------------------------------------------------------------------------
(* Names.                                                                  *)

check_lambda_param(n) ==
  n \notin Reserved \cup Spaces \cup {"_"} /\ ~IsPlaceholder(n)

(* `a ->` or `(a, b) ->` at the cursor: its names.                         *)
NamesInParens(n) ==
  /\ Is(pos, "(") /\ Is(pos + 2 * n, ")") /\ Is(pos + 2 * n + 1, "->")
  /\ \A i \in 1..n : IsName(pos + 2 * i - 1)
  /\ \A i \in 1..(n - 1) : Is(pos + 2 * i, ",")

try_lambda_params ==
  IF IsName(pos) /\ Is(pos + 1, "->") THEN <<Tok(pos).v>>
  ELSE IF \E n \in 1..Len(toks) : NamesInParens(n)
    THEN LET n == CHOOSE n \in 1..Len(toks) : NamesInParens(n)
         IN  [i \in 1..n |-> Tok(pos + 2 * i - 1).v]
  ELSE <<>>

member_namespace(e) ==
  IF e.kind = "const" /\ e.name \in Spaces THEN e.name
  ELSE IF e.kind = "ref" /\ e.of = "%self" /\ e.name \in Loaded \cup Aliases
    THEN "module"
  ELSE "none"

-----------------------------------------------------------------------------
(* Primaries: a finished node, a call to read arguments for, or `fn(`.     *)

Ready(node, k) == [is |-> "ready", node |-> node, next |-> k]
Calling(target, k) == [is |-> "call", target |-> target, next |-> k]
OpenFn(k) == [is |-> "fn", next |-> k]
Refused == [is |-> "refused"]

RefOrCall(ref, k) ==
  IF Is(k, "(") THEN Calling(Target("apply", "", ref), k + 1) ELSE Ready(ref, k)

IsReify(target) ==
  \/ target.to = "builtin" /\ target.name \in {"functionof", "kernelof"}
  \/ /\ target.to = "name" /\ target.name \in {"functionof", "kernelof"}
     /\ target.name \notin Bound

(* `schedule_primary`, above the frames `below` that wait for it.          *)
schedule_primary(p, below) ==
  CASE p.is = "refused" -> Fail
    [] p.is = "ready" -> Goto(p.next, below, p.node)
    [] p.is = "fn" ->
         /\ Go(p.next, <<Expr, [frame |-> "Fn"]>> \o below, Absent)
         /\ scopes' = <<Scope("Fn", <<>>)>> \o scopes
    [] p.is = "call" ->
         LET reify == IsReify(p.target)
             call == CallArgs(p.target, reify)
         IN  /\ Go(p.next, <<[frame |-> "Call", call |-> call]>> \o below, Absent)
             /\ scopes' = IF reify THEN <<Scope("Explicit", <<>>)>> \o scopes
                          ELSE scopes

(* `<namespace>.<name>`; the cursor stands behind the name.                *)
lower_member(space, expr, n, k) ==
  LET call == Is(k, "(") IN
  CASE space = "base" ->
         IF call THEN Calling(Target("builtin", n, Absent), k + 1)
         ELSE Ready(Const(n), k)
    [] space = "self" -> RefOrCall(SelfRef(n), k)
    [] space = "module" -> RefOrCall(MemberRef(expr.name, n), k)

Binds(scope, n) ==
  scope.kind = "Lambda" /\ \E i \in DOMAIN scope.names : scope.names[i] = n

(* A name that is no hole; the cursor stands behind it.  A parameter of a  *)
(* lambda means its placeholder in the innermost scope only.               *)
parse_name_tail(n, k) ==
  IF n \in {"true", "false"} THEN Ready(Bool(n), k)
  ELSE IF scopes # <<>> /\ Binds(Head(scopes), n)
    THEN RefOrCall(LocalRef(Placeholder(n)), k)
  ELSE IF \E i \in DOMAIN scopes : Binds(scopes[i], n) THEN Refused
  ELSE IF Is(k, "(")
    THEN IF n = "fn" THEN OpenFn(k + 1)
         ELSE Calling(Target("name", n, Absent), k + 1)
  ELSE IF IsPlaceholder(n) THEN Ready(LocalRef(n), k)
  ELSE IF n \in Bound THEN Ready(SelfRef(n), k)
  ELSE Ready(Const(n), k)

(* `.i`, `.i_` and `.i^` where an expression begins: an axis.  Only names  *)
(* of Words and those with a trailing underscore are read as axes.         *)
parse_axis_node ==
  LET n == Tok(pos + 1).v
      lower == {w \in Words : n = w \o "_"}
  IN  IF ~IsName(pos + 1) THEN Refused
      ELSE IF lower # {}
        THEN Ready(Axis(CHOOSE w \in lower : TRUE, "lower"), pos + 2)
      ELSE IF n \notin Words THEN Refused
      ELSE IF Is(pos + 2, "^") THEN Ready(Axis(n, "upper"), pos + 3)
      ELSE Ready(Axis(n, ""), pos + 2)

parse_primary ==
  CASE Tok(pos).t = "int" -> Ready(Num(Tok(pos).v), pos + 1)
    [] Tok(pos).t = "real" -> Ready(Leaf("lit", Tok(pos).v, "real"), pos + 1)
    [] Tok(pos).t = "str" -> Ready(Str(Tok(pos).v), pos + 1)
    [] Tok(pos).t = "name" -> parse_name_tail(Tok(pos).v, pos + 1)
    [] Is(pos, ".") -> parse_axis_node
    [] OTHER -> Refused

-----------------------------------------------------------------------------
(* Calls and lists.                                                        *)

make_builtin_call(n, call) ==
  IF n \notin {"functionof", "kernelof"}
    THEN CallKeyed(n, call.positional \o call.named, call.keys)
  ELSE IF Len(call.positional) # 1 THEN Absent
  ELSE IF call.named = <<>> THEN Reify(n, call.positional[1], "auto", <<>>)
  ELSE IF \E i \in DOMAIN call.named : call.named[i].kind # "ref" THEN Absent
  ELSE Reify(n, call.positional[1], "spec",
             [i \in DOMAIN call.named |-> Entry(call.keys[i], call.named[i])])

(* `make_call`, `make_user_call` and `make_applied_call`; Absent where the *)
(* code returns an error.                                                  *)
MakeCall(call) ==
  LET target == call.target
      args == call.positional \o call.named
  IN  CASE target.to = "apply" -> Apply(target.callee, args, call.keys)
        [] target.to = "broadcast" ->
             CallKeyed("broadcast", <<target.callee>> \o args, call.keys)
        [] target.to = "name" /\ target.name \in Bound ->
             Apply(SelfRef(target.name), args, call.keys)
        [] OTHER -> make_builtin_call(target.name, call)

FinishCallOpen(call, k) ==
  LET node == MakeCall(call)
      empty == call.positional = <<>> /\ call.named = <<>>
  IN  IF empty \/ ~Is(k, ")") \/ node = Absent THEN Fail
      ELSE Goto(k + 1, <<>>, node)

(* The closing parenthesis of a call ends the scope it opened.             *)
finish_call(call, k) ==
  LET node == MakeCall(call)
      empty == call.positional = <<>> /\ call.named = <<>>
  IN  IF empty \/ ~Is(k, ")") \/ node = Absent THEN Fail
      ELSE /\ Go(k + 1, <<>>, node)
           /\ scopes' = IF call.reify THEN Tail(scopes) ELSE scopes

ListOp == [Array |-> "vector", Tuple |-> "tuple", Index |-> "get"]
Close(kind) == IF kind = "Tuple" THEN ")" ELSE "]"

finish_list(list, k) ==
  IF Is(k, Close(list.kind))
    THEN Goto(k + 1, <<>>, Call(ListOp[list.kind], list.elems)) ELSE Fail

-----------------------------------------------------------------------------
(* Operators.                                                              *)

apply_binop(op, lhs, rhs) ==
  IF op.dotted THEN Call("broadcast", <<Const(op.func), lhs, rhs>>)
  ELSE Call(op.func, <<lhs, rhs>>)

Operand == [or |-> "and", and |-> "cmp", add |-> "mul", mul |-> "unary"]

(* The operators of each level, by their token.                            *)
Pairs(s) ==
  CASE s = "or" -> {<<S("||"), Op("lor", FALSE)>>, <<S(".||"), Op("lor", TRUE)>>}
    [] s = "and" -> {<<S("&&"), Op("land", FALSE)>>, <<S(".&&"), Op("land", TRUE)>>}
    [] s = "add" -> {<<S("+"), Op("add", FALSE)>>, <<S("-"), Op("sub", FALSE)>>,
                     <<S(".+"), Op("add", TRUE)>>, <<S(".-"), Op("sub", TRUE)>>}
    [] s = "mul" -> {<<S("*"), Op("mul", FALSE)>>, <<S("/"), Op("divide", FALSE)>>,
                     <<S(".*"), Op("mul", TRUE)>>, <<S("./"), Op("divide", TRUE)>>}
    [] s = "cmp" -> {<<S("<"), Op("lt", FALSE)>>, <<S(">"), Op("gt", FALSE)>>,
                     <<S("<="), Op("le", FALSE)>>, <<S(">="), Op("ge", FALSE)>>,
                     <<S("=="), Op("equal", FALSE)>>,
                     <<S("!="), Op("unequal", FALSE)>>, <<N("in"), Op("in", FALSE)>>,
                     <<S(".<"), Op("lt", TRUE)>>, <<S(".>"), Op("gt", TRUE)>>,
                     <<S(".<="), Op("le", TRUE)>>, <<S(".>="), Op("ge", TRUE)>>,
                     <<S(".=="), Op("equal", TRUE)>>,
                     <<S(".!="), Op("unequal", TRUE)>>}
    [] s = "unary" -> {<<S("-"), Op("neg", FALSE)>>, <<S("!"), Op("lnot", FALSE)>>,
                       <<S(".-"), Op("neg", TRUE)>>, <<S(".!"), Op("lnot", TRUE)>>}
    [] s = "power" -> {<<S("^"), Op("pow", FALSE)>>, <<S(".^"), Op("pow", TRUE)>>}

OpsHere(level) == {p[2] : p \in {q \in Pairs(level) : q[1] = Tok(pos)}}

lower_comparison(operands, ops) ==
  LET term(i) == apply_binop(ops[i], operands[i], operands[i + 1])
      And(acc, i) == Call("land", <<acc, term(i)>>)
      all(n) == FoldLeft(And, term(1), [i \in 1..(n - 1) |-> i + 1])
      last == Len(ops)
  IN  CASE last = 0 -> operands[1]
        [] last = 1 -> term(1)
        [] OTHER -> And(all(last - 1), last)

-----------------------------------------------------------------------------
(* The arms of `parse_expr_body`.                                          *)

ParseExpr ==
  /\ At("Expr")
  /\ LET names == try_lambda_params
         legal == /\ \A i \in DOMAIN names : check_lambda_param(names[i])
                  /\ Len(names) = 1 => ~Is(pos, "(")
         behind == IF Len(names) = 1 THEN pos + 2 ELSE pos + 2 * Len(names) + 2
     IN  IF names = <<>> THEN Goto(pos, <<Level("or")>>, value)
         ELSE IF ~legal THEN Fail
         ELSE /\ Go(behind, <<Expr, [frame |-> "Lambda", names |-> names]>>, value)
              /\ scopes' = <<Scope("Lambda", names)>> \o scopes

AtLevel(levels) == At("Level") /\ Top.level \in levels

ParseBinary ==
  /\ AtLevel(DOMAIN Operand)
  /\ Goto(pos, <<Level(Operand[Top.level]),
                 [frame |-> "BinaryTail", level |-> Top.level]>>, value)

ParseComparison ==
  /\ AtLevel({"cmp"})
  /\ Goto(pos, <<Level("add"),
                 [frame |-> "Compare", operands |-> <<>>, ops |-> <<>>]>>, value)

ParseUnary ==
  /\ AtLevel({"unary"})
  /\ IF OpsHere("unary") = {} THEN Goto(pos, <<Level("power")>>, value)
     ELSE \E op \in OpsHere("unary") :
            Goto(pos + 1, <<Level("unary"), [frame |-> "Unary", op |-> op]>>, value)

ParsePower ==
  /\ AtLevel({"power"})
  /\ Goto(pos, <<Level("postfix"), [frame |-> "Power"]>>, value)

ParsePostfix ==
  /\ AtLevel({"postfix"})
  /\ Goto(pos, <<Level("primary"), [frame |-> "Postfix"]>>, value)

ListFrame(frame, kind, elems) == [frame |-> frame, kind |-> kind, elems |-> elems]

(* `(a = ...)` is a record.                                                *)
ParsePrimary ==
  /\ AtLevel({"primary"})
  /\ IF Is(pos, "(") /\ IsName(pos + 1) /\ Is(pos + 2, "=")
       THEN schedule_primary(Calling(Target("record", "record", Absent), pos + 1),
                             <<>>)
     ELSE IF Is(pos, "(") THEN Goto(pos + 1, <<Expr, [frame |-> "Group"]>>, value)
     ELSE IF Is(pos, "[")
       THEN Goto(pos + 1, <<ListFrame("List", "Array", <<>>)>>, value)
     ELSE IF Tok(pos) = N("_")
       THEN \* a hole: the next input of the fn around it
            IF scopes = <<>> \/ Head(scopes).kind # "Fn" THEN Fail
            ELSE LET arg == "arg" \o ToString(Len(Head(scopes).names) + 1) IN
                 /\ Go(pos + 1, <<>>, LocalRef(Placeholder(arg)))
                 /\ scopes' = <<Scope("Fn", Append(Head(scopes).names, arg))>>
                                \o Tail(scopes)
     ELSE schedule_primary(parse_primary, <<>>)

BinaryTail ==
  /\ At("BinaryTail")
  /\ LET ops == OpsHere(Top.level) IN
     IF ops = {} THEN Goto(pos, <<>>, value)
     ELSE \E op \in ops :
            Goto(pos + 1,
                 <<Level(Operand[Top.level]),
                   [frame |-> "BinaryRhs", level |-> Top.level, lhs |-> value,
                    op |-> op]>>, Absent)

BinaryRhs ==
  /\ At("BinaryRhs")
  /\ Goto(pos, <<[frame |-> "BinaryTail", level |-> Top.level]>>,
          apply_binop(Top.op, Top.lhs, value))

Compare ==
  /\ At("Compare")
  /\ LET operands == Append(Top.operands, value) IN
     IF OpsHere("cmp") # {}
       THEN \E op \in OpsHere("cmp") :
              Goto(pos + 1,
                   <<Level("add"),
                     [frame |-> "Compare", operands |-> operands,
                      ops |-> Append(Top.ops, op)]>>, Absent)
     ELSE IF Len(Top.ops) > 1 /\ \E i \in DOMAIN Top.ops : Top.ops[i].dotted
       THEN Fail
     ELSE Goto(pos, <<>>, lower_comparison(operands, Top.ops))

Unary ==
  /\ At("Unary")
  /\ Goto(pos, <<>>,
          IF Top.op.dotted THEN Call("broadcast", <<Const(Top.op.func), value>>)
          ELSE Call(Top.op.func, <<value>>))

(* The right operand is a unary level: `a ^ -b ^ c`.                       *)
Power ==
  /\ At("Power")
  /\ IF OpsHere("power") = {} THEN Goto(pos, <<>>, value)
     ELSE \E op \in OpsHere("power") :
            Goto(pos + 1, <<Level("unary"),
                            [frame |-> "PowerRhs", lhs |-> value, op |-> op]>>,
                 Absent)

PowerRhs ==
  /\ At("PowerRhs")
  /\ Goto(pos, <<>>, apply_binop(Top.op, Top.lhs, value))

Postfix ==
  /\ At("Postfix")
  /\ LET space == member_namespace(value)
         again == <<Top>>
     IN  IF Is(pos, ".")
           THEN IF ~IsName(pos + 1) THEN Fail
                ELSE IF space = "none"
                  THEN Goto(pos + 2, again,
                            Call("get", <<value, Str(Tok(pos + 1).v)>>))
                ELSE schedule_primary(
                       lower_member(space, value, Tok(pos + 1).v, pos + 2), again)
         ELSE IF Is(pos, "[")
           THEN Goto(pos + 1, <<ListFrame("List", "Index", <<value>>)>> \o again,
                     Absent)
         ELSE IF Is(pos, ".(")
           THEN schedule_primary(
                  Calling(Target("broadcast", "", value), pos + 1), again)
         ELSE IF Is(pos, "(")
           THEN schedule_primary(Calling(Target("apply", "", value), pos + 1), again)
         ELSE Goto(pos, <<>>, value)

Group ==
  /\ At("Group")
  /\ IF Is(pos, ",")
       THEN Goto(pos + 1, <<ListFrame("List", "Tuple", <<value>>)>>, Absent)
     ELSE IF Is(pos, ")") THEN Goto(pos + 1, <<>>, value)
     ELSE Fail

(* `:` and a `!` that nothing follows select; any other `!` negates.       *)
List ==
  /\ At("List")
  /\ LET Selector(sel) ==
           LET elems == Append(Top.elems, Const(sel)) IN
           IF Is(pos + 1, ",")
             THEN Goto(pos + 2, <<ListFrame("List", Top.kind, elems)>>, value)
             ELSE finish_list(ListFrame("List", Top.kind, elems), pos + 1)
     IN  IF Is(pos, Close(Top.kind)) THEN finish_list(Top, pos)
         ELSE IF Top.kind = "Index" /\ Is(pos, ":") THEN Selector("all")
         ELSE IF /\ Top.kind = "Index" /\ Is(pos, "!")
                 /\ (Is(pos + 1, ",") \/ Is(pos + 1, "]"))
           THEN Selector("only")
         ELSE Goto(pos, <<Expr, ListFrame("ListItem", Top.kind, Top.elems)>>, value)

ListItem ==
  /\ At("ListItem")
  /\ LET list == ListFrame("List", Top.kind, Append(Top.elems, value)) IN
     IF Is(pos, ",") THEN Goto(pos + 1, <<list>>, Absent)
     ELSE finish_list(list, pos)

CallItemFrame(call, key) == [frame |-> "CallItem", call |-> call, key |-> key]

(* The inputs of a reification are all keyed or all bare names.            *)
boundary_form(call, form) ==
  IF call.bare \in {"unset", form} THEN {[call EXCEPT !.bare = form]} ELSE {}

bare_boundary_name(n) == IF IsPlaceholder(n) THEN Unwrapped(n) ELSE n

ParseArgument ==
  /\ At("Call") /\ ~Is(pos, ")")
  /\ LET call == Top.call
         keyed == IsName(pos) /\ Is(pos + 1, "=")
         entry == call.reify /\ call.positional # <<>>
         named == IF entry THEN boundary_form(call, "keyed") ELSE {call}
         bare == boundary_form(call, "bare")
         name == bare_boundary_name(Tok(pos).v)
     IN  IF keyed
           THEN IF Tok(pos).v \in Reserved \/ named = {} THEN Fail
                ELSE \E c \in named :
                       Goto(pos + 2, <<Expr, CallItemFrame(c, Tok(pos).v)>>, value)
         ELSE IF entry
           THEN IF \/ ~IsName(pos) \/ ~(Is(pos + 1, ",") \/ Is(pos + 1, ")"))
                   \/ bare = {}
                   \/ name \in Reserved /\ IsPlaceholder(Tok(pos).v)
                  THEN Fail
                ELSE \E c \in bare :
                       Goto(pos, <<Expr, CallItemFrame(c, name)>>, value)
         ELSE IF call.named # <<>> \/ call.target.to = "record" THEN Fail
         ELSE Goto(pos, <<Expr, CallItemFrame(call, "")>>, value)

FinishCall == At("Call") /\ Is(pos, ")") /\ finish_call(Top.call, pos)

CallItem ==
  /\ At("CallItem")
  /\ LET call ==
           IF Top.key = "" THEN [Top.call EXCEPT !.positional = Append(@, value)]
           ELSE [Top.call EXCEPT !.named = Append(@, value),
                                 !.keys = Append(@, Top.key)]
     IN  IF Is(pos, ",")
           THEN Goto(pos + 1, <<[frame |-> "Call", call |-> call]>>, Absent)
         ELSE finish_call(call, pos)

(* The functionof that a lambda or an `fn` stands for.                     *)
Closure(names, body) ==
  Reify("functionof", body, "spec",
        [i \in DOMAIN names |-> Entry(names[i], LocalRef(Placeholder(names[i])))])

Lambda ==
  /\ At("Lambda")
  /\ Go(pos, <<>>, Closure(Top.names, value))
  /\ scopes' = Tail(scopes)

Fn ==
  /\ At("Fn")
  /\ LET holes == Head(scopes).names IN
     IF ~Is(pos, ")") \/ holes = <<>> THEN Fail
     ELSE /\ Go(pos + 1, <<>>, Closure(holes, value))
          /\ scopes' = Tail(scopes)

-----------------------------------------------------------------------------
(* Around the expression.                                                  *)

(* `expect_end`.  A tree read from a user's text is printed next.          *)
Return ==
  /\ stage = "parse" /\ work = <<>>
  /\ IF pos <= Len(toks) THEN Fail
     ELSE IF tree # Absent
       THEN stage' = "done" /\ UNCHANGED <<style, tree, toks, pos, work, value, scopes>>
     ELSE /\ stage' = "print" /\ tree' = value /\ value' = Absent
          /\ UNCHANGED <<style, toks, pos, work, scopes>>

PrintTree ==
  /\ stage = "print"
  /\ style' \in Styles
  /\ toks' = TextOf(tree, style')
  /\ stage' = "parse" /\ pos' = 1 /\ work' = <<Expr>>
  /\ UNCHANGED <<tree, value, scopes>>

Finished == stage \in {"done", "error"} /\ UNCHANGED vars

Parse ==
  \/ ParseExpr \/ ParseBinary \/ ParseComparison \/ ParseUnary \/ ParsePower
  \/ ParsePostfix \/ ParsePrimary
  \/ BinaryTail \/ BinaryRhs \/ Compare \/ Unary \/ Power \/ PowerRhs \/ Postfix
  \/ Group \/ List \/ ListItem \/ ParseArgument \/ FinishCall \/ CallItem
  \/ Lambda \/ Fn

Next == Parse \/ Return \/ PrintTree \/ Finished

Spec == Init /\ [][Next]_vars

-----------------------------------------------------------------------------
(* Properties.                                                             *)

Continuations ==
  {"BinaryTail", "BinaryRhs", "Compare", "Unary", "Power", "PowerRhs",
   "Postfix", "Group", "ListItem", "CallItem", "Lambda", "Fn"}

(* The scope that a frame closes when it is done, if any.                  *)
Owned(frame) ==
  CASE frame.frame = "Lambda" -> {Scope("Lambda", frame.names)}
    [] frame.frame = "Fn" -> {Scope("Fn", <<>>)}
    [] frame.frame \in {"Call", "CallItem"} ->
         IF frame.call.reify THEN {Scope("Explicit", <<>>)} ELSE {}
    [] OTHER -> {}

Owners(frames) == {i \in DOMAIN frames : Owned(frames[i]) # {}}

WithoutHoles(scope) ==
  IF scope.kind = "Fn" THEN Scope("Fn", <<>>) ELSE scope

(* The open scopes are those of the frames that will close them, all of    *)
(* them and in the order of the frames.                                    *)
Paired(frames, open) ==
  \E owner \in [DOMAIN open -> Owners(frames)] :
    /\ \A i, j \in DOMAIN open : i < j => owner[i] < owner[j]
    /\ \A k \in Owners(frames) : \E i \in DOMAIN open : owner[i] = k
    /\ \A i \in DOMAIN open : WithoutHoles(open[i]) \in Owned(frames[owner[i]])

(* "Child frames consume `value` before scheduling their child; the        *)
(* continuation receives exactly one completed NodeId" (parser.rs:804): a  *)
(* node is at hand exactly where a continuation takes one, so `unwrap`     *)
(* never panics and no node is lost.  And each open scope is that of a     *)
(* frame that will close it: a name is looked up in the scope its text     *)
(* stands in, whatever was parsed before it.                               *)
FramesAgree ==
  stage = "parse" =>
    /\ (value # Absent) = (work = <<>> \/ Top.frame \in Continuations)
    /\ Paired(work, scopes)
=============================================================================
