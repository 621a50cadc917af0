---------------------------- MODULE MCExpressions ----------------------------
(***************************************************************************)
(* Trees and texts for the round of parser and printer.                    *)
(***************************************************************************)
EXTENDS ExpressionParser, ExpressionPrinter, FiniteSets

AllWords == {"x", "f", "m", "h", "k", "i", "inf", "sum", "arg1", "arg2", "vector",
             "record", "functionof", "kernelof"}
ModuleBound == {"x", "f", "m", "h", "sum"}
ModuleLoaded == {"m"}
ModuleAliases == {"h"}

(* No width holds nothing and every level breaks, the second holds about   *)
(* one operation, and the third all that there is.                         *)
Minimal == [full |-> FALSE, width |-> 0]
Full(width) == [full |-> TRUE, width |-> width]
ModuleStyles == {Minimal, Full(0), Full(7), Full(100)}

P(w) == LocalRef(Placeholder(w))
Inputs(ws) == [i \in DOMAIN ws |-> Entry(ws[i], P(ws[i]))]
Fun(ws, body) == Reify("functionof", body, "spec", Inputs(ws))

-----------------------------------------------------------------------------
(* Trees: every form over every form, on either side.                      *)

Atoms == {Num("2"), NegNum("3"), Bool("true"), SelfRef("x"), Const("inf"),
          Const("sum"), Const("all"), MemberRef("m", "k"), SelfRef("h")}

Binary == {"lor", "land", "lt", "in", "add", "sub", "mul", "pow"}

Over(a, b) ==
  {Call(op, <<a, b>>) : op \in Binary}
    \cup {Call("broadcast", <<Const(op), a, b>>) : op \in Binary}
    \cup {Call("get", <<a, b>>), Call("tuple", <<a, b>>), Call("sum", <<a, b>>),
          CallKeyed("record", <<a, b>>, <<"x", "k">>),
          CallKeyed("k", <<a, b>>, <<"i">>),
          Call("broadcast", <<a, b>>)}
    \cup (IF a.kind \in {"const", "lit"} THEN {} ELSE {Apply(a, <<b>>, <<"x">>)})

Around(a) ==
  {Call(op, <<a>>) : op \in {"neg", "lnot", "vector", "tuple", "lor"}}
    \cup {Call("broadcast", <<Const(op), a>>) : op \in {"neg", "lnot", "sum"}}
    \cup {Call("get", <<a, Str(k)>>) : k \in {"x", "all"}}
    \cup {Call("get", <<a, Const("only"), Axis("i", "lower"), Const("all")>>),
          Reify("kernelof", a, "spec", <<Entry("k", SelfRef("x"))>>),
          Reify("functionof", a, "auto", <<>>),
          Fun(<<"k">>, a), Fun(<<"k", "i">>, a)}

Children == Atoms \cup Around(SelfRef("x"))
              \cup Over(SelfRef("x"), Num("2"))
              \cup {Call("lt", <<SelfRef("x"), SelfRef("x")>>),
                    Fun(<<"k">>, Apply(P("k"), <<P("k")>>, <<>>)),
                    Call("land", <<Call("lt", <<SelfRef("x"), Num("2")>>),
                                   Call("ge", <<Num("2"), Const("inf")>>)>>)}

(* Operators of four levels over each other, three deep.                   *)
Operations(a) ==
  UNION {{Call(op, <<a, SelfRef("x")>>), Call(op, <<SelfRef("x"), a>>)}
           : op \in {"lor", "lt", "sub", "pow"}} \cup {Call("neg", <<a>>)}
Deep == UNION {Operations(b) : b \in UNION {Operations(a)
                                            : a \in Operations(SelfRef("x"))}}

ModuleTrees ==
  Deep \cup UNION {Around(c) \cup Over(c, SelfRef("x")) \cup Over(SelfRef("x"), c)
           : c \in Children}

-----------------------------------------------------------------------------
(* Texts.                                                                  *)

Word(s) == CASE s \in {"(", ")", "[", "]", ",", ".", ".(", "->", "=", ":", "!",
                       "+", "-", "<", ".<", "^", "&&"} -> S(s)
             [] s \in {"1", "2"} -> [t |-> "int", v |-> s]
             [] OTHER -> N(s)
Text(ws) == [i \in DOMAIN ws |-> Word(ws[i])]

Written ==
  {<<"fn", "(", "_", "+", "_", ")">>, <<"fn", "(", "x", ")">>,
   <<"fn", "(", "k", "->", "_", ")">>, <<"_">>,
   <<"k", "->", "k", "(", "1", ")">>, <<"k", "->", "i", "->", "k">>,
   <<"(", "k", ",", "i", ")", "->", "k", "+", "i">>, <<"(", "k", ")", "->", "k">>,
   <<"_k_", "->", "1">>, <<"k", "->", "fn", "(", "_", "+", "x", ")">>,
   <<"functionof", "(", "_k_", "+", "x", ",", "_k_", ")">>,
   <<"functionof", "(", "x", ",", "k", "=", "x", ",", "f", ")">>,
   <<"functionof", "(", "x", ",", "f", ",", "k", "=", "x", ")">>,
   <<"functionof", "(", "x", ",", "k", "=", "1", ")">>,
   <<"functionof", "(", "k", "=", "x", ")">>,
   <<"base", ".", "functionof", "(", "x", ",", "x", ")">>,
   <<"self", ".", "f", "(", "x", ",", ")">>, <<"m", ".", "k", "(", "1", ")">>,
   <<"m", ".", "k", ".", "x">>, <<"h", ".", "k", "(", "x", ")">>, <<"x", ".", "1">>, <<"f", "(", ")">>,
   <<"f", "(", "k", "=", "1", ",", "2", ")">>, <<"f", "(", "all", "=", "1", ")">>,
   <<"(", "x", "=", "1", ",", "k", "=", "2", ")">>, <<"(", "x", "=", "1", ",", "2", ")">>,
   <<"(", "1", ",", ")">>, <<"(", "1">>, <<"[", "]">>, <<"[", ".", "i", "^", ",", ".", "1", "]">>,
   <<"x", "[", ":", ",", "!", "]">>, <<"x", "[", "!", "true", "]">>,
   <<"1", "<", "2", "<", "x">>, <<"1", ".<", "2", "<", "x">>,
   <<"-", "x", "^", "-", "x", "^", "2">>, <<"1", "<", "2", "&&", "2", "<", "x">>,
   <<"f", "(", "(", "x", "^", "x", ")", "^", "x", ")">>,
   <<"[", "(", "x", "<", "1", ")", "<", "(", "1", "<", "x", ")", "]">>,
   <<"1", "2">>, <<"1", "+">>}

ModuleSources == {Text(ws) : ws \in Written}

-----------------------------------------------------------------------------
(* What comes back.                                                        *)

(* Minus a numeral is read as a negation.                                  *)
RECURSIVE Reread(_)
Reread(e) ==
  IF e = NegNum(e.name) THEN Call("neg", <<Num(e.name)>>)
  ELSE [e EXCEPT !.args = [i \in DOMAIN e.args |-> Reread(e.args[i])]]

(* The names a tree mentions, those of calls included.                     *)
RECURSIVE Names(_)
Names(e) ==
  ({e.name, e.of} \cup {e.entries[i].ref.name : i \in DOMAIN e.entries})
    \cup UNION {Names(e.args[i]) : i \in DOMAIN e.args}

(* A lambda hides nothing that its body names, placeholders are only       *)
(* applied where a lambda spells them, and no field is taken of an alias.  *)
RECURSIVE Spelled(_, _, _)
Spelled(e, syntax, lambda) ==
  LET isLambda == e.kind = "call" /\ e.inputs # "none" /\ syntax /\ lambda_head(e)
      params == {e.entries[i].name : i \in DOMAIN e.entries}
      inner == IF isLambda THEN params
               ELSE IF e.kind = "call" /\ e.inputs # "none" THEN {} ELSE lambda
  IN  /\ isLambda => params \cap Names(e.args[1]) = {}
      /\ e.kind = "apply" /\ e.args[1].of = "%local"
           => \E w \in lambda : e.args[1].name = Placeholder(w)
      /\ e.kind = "apply" => e.args[1].kind # "const"
      /\ Form(e, syntax) = "field" => e.args[1] \notin {SelfRef(a) : a \in Aliases}
      /\ \A i \in DOMAIN e.args : Spelled(e.args[i], syntax, inner)

(* Operators that do not associate to the left.  Broken over lines, those  *)
(* of a left spine are printed one after the other without the parentheses *)
(* that their left operands need: pow(pow(a, b), c) becomes a ^ b ^ c, and *)
(* lt(lt(a, b), c) the chain a < b < c (`break_parts`, printer.rs:797).    *)
RECURSIVE Rejoined(_, _, _)
Rejoined(l, bracketed, width) ==
  /\ ~Fits(l, width) /\ Breaks(l.e)
  /\ LET pieces == Pieces(l, bracketed)
     IN \/ /\ AtOperators(l, bracketed) /\ Len(pieces) > 2
           /\ binop[OpName(l.e)].prec \in {CMP, EXP}
        \/ \E i \in DOMAIN pieces : Rejoined(pieces[i], TRUE, width)

RoundOver == stage \in {"done", "error"} /\ tree # Absent /\ Spelled(tree, style.full, {})
ReadBack == stage = "done" /\ value = Reread(tree)

(* The text of a tree, in either syntax and for any width, is read back as *)
(* that tree, whatever stands in whatever else, and whether a user wrote   *)
(* it or the program built it ("parse -> print is semantically faithful",  *)
(* printer.rs:5); except for broken spines of operators that do not        *)
(* associate to the left, which never are.                                 *)
RoundTrip ==
  RoundOver =>
    (ReadBack <=> ~(style.full /\ Rejoined(Whole(tree), FALSE, style.width)))
=============================================================================
