--------------------------- MODULE ExpressionTrees ---------------------------
(***************************************************************************)
(* Names, expression trees and tokens, as the parser and the printer of    *)
(* crates/syntax share them.                                               *)
(***************************************************************************)
EXTENDS Naturals, Sequences

CONSTANTS
  Words,   \* names that are neither placeholders nor reserved
  Bound,   \* the bindings of the module
  Loaded,  \* those of them that load another module
  Aliases  \* those that are another name of such a binding

ASSUME NamesAssumption ==
  Loaded \cup Aliases \subseteq Bound /\ Bound \subseteq Words

Reserved == {"true", "false", "in", "all", "only"}
Spaces == {"self", "base"}

(* The placeholder that a parameter stands for in the tree.                *)
Placeholder(w) == "_" \o w \o "_"
IsPlaceholder(n) == \E w \in Words \cup Reserved \cup Spaces : n = Placeholder(w)
Unwrapped(n) == CHOOSE w \in Words \cup Reserved \cup Spaces : n = Placeholder(w)

-----------------------------------------------------------------------------
(* Nodes.  The last Len(keys) arguments are the named ones; the first one  *)
(* of an applied callable is the callable.                                 *)

Node(kind, name, of, args, keys, inputs, entries) ==
  [kind |-> kind, name |-> name, of |-> of, args |-> args, keys |-> keys,
   inputs |-> inputs, entries |-> entries]

Leaf(kind, name, of) == Node(kind, name, of, <<>>, <<>>, "none", <<>>)

Absent == Leaf("absent", "", "")
Num(n) == Leaf("lit", n, "int")          \* a non-negative integer
NegNum(n) == Leaf("lit", n, "neg")       \* minus that
Str(s) == Leaf("lit", s, "str")
Bool(b) == Leaf("lit", b, "bool")
Const(n) == Leaf("const", n, "")
Axis(n, variance) == Leaf("axis", n, variance)
SelfRef(n) == Leaf("ref", n, "%self")
LocalRef(n) == Leaf("ref", n, "%local")
MemberRef(m, n) == Leaf("ref", n, m)

Call(op, args) == Node("call", op, "", args, <<>>, "none", <<>>)
CallKeyed(op, args, keys) == Node("call", op, "", args, keys, "none", <<>>)
Apply(callee, args, keys) ==
  Node("apply", "", "", <<callee>> \o args, keys, "none", <<>>)
Reify(op, body, inputs, entries) ==
  Node("call", op, "", <<body>>, <<>>, inputs, entries)
Entry(name, ref) == [name |-> name, ref |-> ref]

-----------------------------------------------------------------------------
(* Tokens.                                                                 *)

N(n) == [t |-> "name", v |-> n]
S(s) == [t |-> "sym", v |-> s]
=============================================================================
