-------------------------- MODULE ExpressionPrinter --------------------------
(***************************************************************************)
(* The text the printer gives an expression tree                           *)
(* (crates/syntax/src/printer.rs), as a sequence of tokens.  The full      *)
(* syntax puts the sugar back, operators, chains, fields, lambdas, and     *)
(* lays what exceeds the width out over lines, in forms of their own; the  *)
(* minimal one keeps to calls on one line.  The breaks themselves, always  *)
(* within brackets, are left out like all white space, except where two    *)
(* tokens with nothing between them would be read as one.                  *)
(*                                                                         *)
(* Widths are counted in tokens, with the white space about them; a level  *)
(* of indentation counts for one.                                          *)
(***************************************************************************)
EXTENDS ExpressionTrees, SequencesExt

(* A numeral takes the dot that follows it: `3.k` starts with a real.      *)
Lexed(toks) ==
  LET Digits(i) == i \in DOMAIN toks /\ toks[i].t = "int"
      Dot(i) == toks[i] \in {S("."), S(".(")} /\ Digits(i - 1)
      Read(i) ==
        IF Digits(i) /\ i < Len(toks) /\ Dot(i + 1)
          THEN <<[t |-> "real", v |-> toks[i].v]>>
        ELSE IF ~Dot(i) THEN <<toks[i]>>
        ELSE IF toks[i] = S(".(") THEN <<S("(")>> ELSE <<>>
  IN  FlattenSeq([i \in DOMAIN toks |-> Read(i)])

-----------------------------------------------------------------------------
(* Precedence, low to high.                                                *)

EXPR == 0
OR == 1
AND == 2
CMP == 3
ADD == 4
MUL == 5
UNARY == 6
EXP == 7
POSTFIX == 8
ATOM == 9

Infix(plain, dotted, prec) == [plain |-> plain, dotted |-> dotted, prec |-> prec]

binop ==
  [lor |-> Infix("||", ".||", OR), land |-> Infix("&&", ".&&", AND),
   lt |-> Infix("<", ".<", CMP), gt |-> Infix(">", ".>", CMP),
   le |-> Infix("<=", ".<=", CMP), ge |-> Infix(">=", ".>=", CMP),
   equal |-> Infix("==", ".==", CMP), unequal |-> Infix("!=", ".!=", CMP),
   in |-> Infix("in", "", CMP),
   add |-> Infix("+", ".+", ADD), sub |-> Infix("-", ".-", ADD),
   mul |-> Infix("*", ".*", MUL), divide |-> Infix("/", "./", MUL),
   pow |-> Infix("^", ".^", EXP)]

unop == [neg |-> Infix("-", ".-", UNARY), lnot |-> Infix("!", ".!", UNARY)]

IsBinop(n) == n \in DOMAIN binop
IsUnop(n) == n \in DOMAIN unop

OpToken(s) == IF s = "in" THEN N(s) ELSE S(s)

(* Where the left and the right operand stand.                             *)
LooseRight(prec) ==
  IF prec = EXP THEN <<POSTFIX, UNARY>>
  ELSE IF prec = CMP THEN <<ADD, ADD>> ELSE <<prec, prec>>

operand_mins(prec) ==
  IF prec = EXP THEN <<POSTFIX, UNARY>>
  ELSE IF prec = CMP THEN <<ADD, ADD>> ELSE <<prec, prec + 1>>

-----------------------------------------------------------------------------
(* Which of its forms a node is printed in.                                *)

Positional(e) == Len(e.args) - Len(e.keys)
Plain(e) == e.kind = "call" /\ e.keys = <<>> /\ e.inputs = "none"

is_field_name(k) == k \notin Reserved

is_namespace(e) ==
  \/ e.kind = "const" /\ e.name \in Spaces
  \/ e.kind = "ref" /\ e.of = "%self" /\ e.name \in Loaded

is_lambda_param_name(n) ==
  n \notin Reserved \cup Spaces \cup {"_"} /\ ~IsPlaceholder(n)

(* A functionof over nothing but the placeholders of its own inputs.       *)
lambda_head(e) ==
  /\ e.name = "functionof" /\ e.inputs = "spec"
  /\ \A i \in DOMAIN e.entries :
       LET entry == e.entries[i] IN
       /\ entry.ref = LocalRef(Placeholder(entry.name))
       /\ is_lambda_param_name(entry.name)

RECURSIVE Conjuncts(_)
Conjuncts(e) ==
  IF Plain(e) /\ e.name = "land" /\ Len(e.args) = 2
    THEN Append(Conjuncts(e.args[1]), e.args[2]) ELSE <<e>>

IsComparison(e) ==
  /\ Plain(e) /\ Len(e.args) = 2 /\ IsBinop(e.name)
  /\ binop[e.name].prec = CMP

(* `a < b < c`: comparisons, each beginning with the operand the last one  *)
(* ended with.                                                             *)
IsChain(cs) ==
  /\ \A i \in DOMAIN cs : IsComparison(cs[i])
  /\ \A i \in 1..(Len(cs) - 1) : cs[i].args[2] = cs[i + 1].args[1]

BroadcastForm(e) ==
  LET f == e.args[1].name
      ofConst == e.keys = <<>> /\ e.args[1].kind = "const"
  IN  IF ofConst /\ Len(e.args) = 3 /\ IsBinop(f) /\ f # "in" THEN "dotted infix"
      ELSE IF ofConst /\ Len(e.args) = 2 /\ IsUnop(f) THEN "dotted prefix"
      ELSE "dot call"

GetForm(e) ==
  LET key == e.args[2] IN
  IF /\ Len(e.args) = 2 /\ key.kind = "lit" /\ key.of = "str"
     /\ is_field_name(key.name) /\ ~is_namespace(e.args[1])
    THEN "field" ELSE "index"

(* The sugar the full syntax has for a built-in call, if any.              *)
Sugar(e) ==
  IF Plain(e) /\ Len(e.args) = 2 /\ IsBinop(e.name)
    THEN IF e.name = "land" /\ IsChain(Conjuncts(e)) THEN "chain" ELSE "infix"
  ELSE IF Plain(e) /\ Len(e.args) = 1 /\ IsUnop(e.name) THEN "prefix"
  ELSE IF Plain(e) /\ e.name = "get" /\ Len(e.args) >= 2 THEN GetForm(e)
  ELSE IF e.name = "broadcast" /\ Positional(e) >= 2 THEN BroadcastForm(e)
  ELSE "none"

Literal(e) ==
  IF Plain(e) /\ e.name = "vector" THEN "vector"
  ELSE IF Plain(e) /\ e.name = "tuple" /\ Len(e.args) >= 2 THEN "tuple"
  ELSE "call"

Form(e, full) ==
  IF e.kind # "call" THEN e.kind
  ELSE IF e.inputs # "none"
    THEN IF full /\ lambda_head(e) THEN "lambda" ELSE "reified"
  ELSE LET sugar == IF full THEN Sugar(e) ELSE "none" IN
       IF sugar = "none" THEN Literal(e) ELSE sugar

FormPrec(e, form) ==
  IF form = "lit" THEN IF e.of = "neg" THEN UNARY ELSE ATOM
  ELSE IF form \in {"const", "axis", "vector", "tuple"} THEN ATOM
  ELSE IF form = "ref" THEN IF e.of \in {"%self", "%local"} THEN ATOM ELSE POSTFIX
  ELSE IF form = "lambda" THEN EXPR
  ELSE IF form = "chain" THEN CMP
  ELSE IF form = "infix" THEN binop[e.name].prec
  ELSE IF form = "dotted infix" THEN binop[e.args[1].name].prec
  ELSE IF form \in {"prefix", "dotted prefix"} THEN UNARY
  ELSE POSTFIX

-----------------------------------------------------------------------------
(* Text.                                                                   *)

(* A built-in that a binding hides is spelled through `base`.              *)
builtin_name(n) == IF n \in Bound THEN <<N("base"), S("."), N(n)>> ELSE <<N(n)>>

print_ref(r) ==
  IF r.of \in {"%self", "%local"} THEN <<N(r.name)>>
  ELSE <<N(r.of), S("."), N(r.name)>>

print_scalar(e) ==
  CASE e.of = "neg" -> <<S("-"), [t |-> "int", v |-> e.name]>>
    [] e.of = "bool" -> <<N(e.name)>>
    [] OTHER -> <<[t |-> e.of, v |-> e.name]>>

print_axis(a) ==
  CASE a.of = "lower" -> <<S("."), N(a.name \o "_")>>
    [] a.of = "upper" -> <<S("."), N(a.name), S("^")>>
    [] OTHER -> <<S("."), N(a.name)>>

(* `lambda` holds the parameters of the lambda whose body this is.         *)
LeafText(e, lambda) ==
  CASE e.kind = "lit" -> print_scalar(e)
    [] e.kind = "const" -> builtin_name(e.name)
    [] e.kind = "axis" -> print_axis(e)
    [] e.kind = "ref" ->
         IF e.of = "%local" /\ \E w \in lambda : e.name = Placeholder(w)
           THEN <<N(Unwrapped(e.name))>> ELSE print_ref(e)

Joined(texts) ==
  FlattenSeq([i \in DOMAIN texts |->
                IF i = 1 THEN texts[i] ELSE <<S(",")>> \o texts[i]])

LambdaText(entries) ==
  LET names == Joined([i \in DOMAIN entries |-> <<N(entries[i].name)>>])
  IN  (IF Len(entries) = 1 THEN names ELSE <<S("(")>> \o names \o <<S(")")>>)
        \o <<S("->")>>

EntriesText(entries) ==
  FlattenSeq([i \in DOMAIN entries |->
     <<S(","), N(entries[i].name), S("=")>> \o print_ref(entries[i].ref)])

Wrapped(open, text, close) == <<S(open)>> \o text \o <<S(close)>>

(* Where the i-th argument of a form stands: what prints looser gets       *)
(* parentheses.                                                            *)
ArgMin(e, form, i) ==
  CASE form = "infix" -> operand_mins(binop[e.name].prec)[i]
    [] form = "dotted infix" /\ i > 1 ->
         operand_mins(binop[e.args[1].name].prec)[i - 1]
    [] form \in {"prefix", "dotted prefix"} -> UNARY
    [] form \in {"apply", "dot call", "field", "index"} /\ i = 1 -> POSTFIX
    [] OTHER -> EXPR

IsNumeral(e) == e.kind = "lit" /\ e.of = "int"
DotText(e, text) == IF IsNumeral(e) THEN Wrapped("(", text, ")") ELSE text

SelectorText(e, text) ==
  IF e = Const("all") THEN <<S(":")>>
  ELSE IF e = Const("only") THEN <<S("!")>> ELSE text

(* A form that lists arguments: how it opens, given the text of its head,  *)
(* how it closes, which argument is listed first, and its keywords.        *)
Opening(e, form, head) ==
  CASE form = "vector" -> <<S("[")>>
    [] form = "tuple" -> <<S("(")>>
    [] form = "dot call" -> DotText(e.args[1], head) \o <<S(".(")>>
    [] form = "apply" -> head \o <<S("(")>>
    [] form = "call" -> builtin_name(e.name) \o <<S("(")>>

Closing(form) == IF form = "vector" THEN S("]") ELSE S(")")
FirstListed(form) == IF form \in {"dot call", "apply"} THEN 2 ELSE 1

Keyword(e, i) ==
  LET k == i - Positional(e) IN IF k > 0 THEN <<N(e.keys[k]), S("=")>> ELSE <<>>

ListText(e, form, text) ==
  Opening(e, form, IF text = <<>> THEN <<>> ELSE text[1])
    \o Joined([j \in 1..(Len(e.args) - FirstListed(form) + 1) |->
                 LET i == FirstListed(form) + j - 1 IN Keyword(e, i) \o text[i]])
    \o <<Closing(form)>>

(* The text of a form from the texts of its arguments.                     *)
FormText(e, form, text) ==
  CASE form = "lambda" -> LambdaText(e.entries) \o text[1]
    [] form = "reified" ->
         builtin_name(e.name)
           \o Wrapped("(", text[1] \o EntriesText(e.entries), ")")
    [] form = "infix" -> text[1] \o <<OpToken(binop[e.name].plain)>> \o text[2]
    [] form = "dotted infix" ->
         text[2] \o <<S(binop[e.args[1].name].dotted)>> \o text[3]
    [] form = "prefix" -> <<S(unop[e.name].plain)>> \o text[1]
    [] form = "dotted prefix" -> <<S(unop[e.args[1].name].dotted)>> \o text[2]
    [] form = "field" ->
         DotText(e.args[1], text[1]) \o <<S("."), N(e.args[2].name)>>
    [] form = "index" ->
         text[1] \o Wrapped("[", Joined([i \in 1..(Len(text) - 1) |->
                        SelectorText(e.args[i + 1], text[i + 1])]), "]")
    [] OTHER -> ListText(e, form, text)

(* A lambda replaces the placeholders of the one around it; so does a      *)
(* reification, which opens a scope of its own.                            *)
Inner(e, form, lambda) ==
  CASE form = "lambda" -> {e.entries[i].name : i \in DOMAIN e.entries}
    [] form = "reified" -> {}
    [] OTHER -> lambda

RECURSIVE Flat(_, _, _, _)
FlatArgs(e, form, full, lambda) ==
  [i \in DOMAIN e.args |-> Flat(e.args[i], ArgMin(e, form, i), full, lambda)]

ChainText(cs, full, lambda) ==
  Flat(cs[1].args[1], ADD, full, lambda)
    \o FlattenSeq([i \in DOMAIN cs |->
         <<OpToken(binop[cs[i].name].plain)>>
           \o Flat(cs[i].args[2], ADD, full, lambda)])

FormParts(e, form, full, lambda) ==
  IF form = "chain" THEN ChainText(Conjuncts(e), full, lambda)
  ELSE IF e.args = <<>> /\ e.kind # "call" THEN LeafText(e, lambda)
  ELSE FormText(e, form, FlatArgs(e, form, full, Inner(e, form, lambda)))

Guarded(e, form, min, text, full) ==
  IF full /\ FormPrec(e, form) < min THEN Wrapped("(", text, ")") ELSE text

Printed(e, form, min, full, lambda) ==
  Guarded(e, form, min, FormParts(e, form, full, lambda), full)

Flat(e, min, full, lambda) == Printed(e, Form(e, full), min, full, lambda)

-----------------------------------------------------------------------------
(* Layout over lines.  Only within brackets is an infix operation broken   *)
(* at its operators; elsewhere, and for `land`, it becomes a call.         *)

as_infix(e) ==
  \/ Plain(e) /\ Len(e.args) = 2 /\ IsBinop(e.name) /\ e.name # "land"
  \/ /\ Plain(e) /\ e.name = "broadcast" /\ Len(e.args) = 3
     /\ BroadcastForm(e) = "dotted infix"

IsDotted(e) == e.name = "broadcast"
OpName(e) == IF IsDotted(e) THEN e.args[1].name ELSE e.name
SameOp(e, d) == IsDotted(e) = IsDotted(d) /\ OpName(e) = OpName(d)
OpText(e) ==
  IF IsDotted(e) THEN <<S(binop[OpName(e)].dotted)>> ELSE <<OpToken(binop[OpName(e)].plain)>>

(* The operands along the left spine of one operator.                      *)
RECURSIVE Spine(_, _)
Spine(e, of) ==
  IF as_infix(e) /\ SameOp(e, of)
    THEN Append(Spine(e.args[Len(e.args) - 1], of), e.args[Len(e.args)]) ELSE <<e>>

(* The forms that list their arguments line by line.                       *)
ListForm(e) ==
  IF e.kind = "apply" THEN "apply"
  ELSE IF e.name = "broadcast" /\ Positional(e) >= 2 THEN "dot call" ELSE Literal(e)

Breaks(e) == e.kind = "apply" \/ (e.kind = "call" /\ e.inputs = "none" /\ e.name # "get")

(* What a broken expression is laid out of: expressions, the precedence    *)
(* and the column each starts at, and the indentation of its lines.        *)
Laid(e, min, col, indent) == [e |-> e, min |-> min, col |-> col, indent |-> indent]

Operands(e, indent) ==
  LET elems == Spine(e, e)
      mins == operand_mins(binop[OpName(e)].prec)
  IN  [i \in DOMAIN elems |->
         IF i = 1 THEN Laid(elems[1], mins[1], indent, indent)
         ELSE Laid(elems[i], mins[2], indent + 1, indent)]

Lines(e, indent) ==
  LET first == FirstListed(ListForm(e))
  IN  [j \in 1..(Len(e.args) - first + 1) |->
         LET i == first + j - 1
         IN Laid(e.args[i], EXPR, indent + 1 + Len(Keyword(e, i)), indent + 1)]

Grouped(l) == FormPrec(l.e, Form(l.e, TRUE)) < l.min
InnerIndent(l) == IF Grouped(l) THEN l.indent + 1 ELSE l.indent
AtOperators(l, bracketed) == (bracketed \/ Grouped(l)) /\ as_infix(l.e)
Fits(l, width) == l.col + Len(Flat(l.e, l.min, TRUE, {})) <= width

Pieces(l, bracketed) ==
  IF AtOperators(l, bracketed) THEN Operands(l.e, InnerIndent(l))
  ELSE Lines(l.e, InnerIndent(l))

(* `break_parts`, from the texts of the pieces.                            *)
Broken(l, bracketed, text) ==
  IF AtOperators(l, bracketed)
    THEN FlattenSeq([i \in DOMAIN text |->
                       IF i = 1 THEN text[1] ELSE OpText(l.e) \o text[i]])
  ELSE LET form == ListForm(l.e)
           head == IF l.e.args = <<>> THEN <<>>
                   ELSE Flat(l.e.args[1], POSTFIX, TRUE, {})
       IN  Opening(l.e, form, head)
             \o FlattenSeq([j \in DOMAIN text |->
                  Keyword(l.e, FirstListed(form) + j - 1) \o text[j] \o <<S(",")>>])
             \o <<Closing(form)>>

RECURSIVE Wide(_, _, _)
Wide(l, bracketed, width) ==
  IF Fits(l, width) \/ ~Breaks(l.e) THEN Flat(l.e, l.min, TRUE, {})
  ELSE LET pieces == Pieces(l, bracketed)
           text == Broken(l, bracketed, [i \in DOMAIN pieces |-> Wide(pieces[i], TRUE, width)])
       IN  IF Grouped(l) THEN Wrapped("(", text, ")") ELSE text

(* What the lexer reads of the printed expression, which stands behind a   *)
(* name and an equals sign.                                                *)
Whole(e) == Laid(e, EXPR, 2, 0)

print_with(e, style) ==
  Lexed(IF style.full THEN Wide(Whole(e), FALSE, style.width)
        ELSE Flat(e, EXPR, FALSE, {}))
=============================================================================
