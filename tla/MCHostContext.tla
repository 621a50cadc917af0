----------------------------- MODULE MCHostContext -----------------------------
(***************************************************************************)
(* HostContext on a directory with one bundle and one archive in it, where *)
(* a link leads out of the bundle, files are broken and repaired, and two  *)
(* modules import each other.                                              *)
(***************************************************************************)
EXTENDS HostContext, TLC

CONSTANTS bundle, top, main, a, b, zip, t1, t2, t3, t4

Here(name) == [to |-> "here", name |-> name]
Up(name) == [to |-> "up", name |-> name]
At(dir, name) == [dir |-> dir, name |-> name]
Down(dir, name) == [to |-> "down", at |-> At(dir, name)]
Abs(dir, name) == [to |-> "abs", at |-> At(dir, name)]

Says(t, imports) ==
  [says |-> <<t>>, imports |-> imports, parses |-> TRUE, types |-> TRUE]
Unparsed(t) == [Says(t, <<>>) EXCEPT !.parses = FALSE]
Untyped(t) == [Says(t, <<>>) EXCEPT !.types = FALSE]

Archive(members) == [members |-> members, names |-> NoEntries]
Whole1 == Archive(main :> Says(t1, <<Here(a), Here(b)>>) @@ a :> Says(t1, <<>>)
                  @@ b :> Says(t2, <<>>))
Broken1 == Archive(main :> Says(t1, <<Here(a), Here(b)>>) @@ a :> Says(t3, <<>>)
                   @@ b :> Says(t4, <<Up(a)>>))

Files(f) == f @@ [p \in Paths |-> None]

(* b in the bundle is a link to a beside the bundle.                       *)
SmallReal == [p \in Paths |-> IF p = At(bundle, b) THEN At(top, a) ELSE p]

SmallDisks ==
  {Files(At(top, main) :> Says(t1, <<Here(a), Down(bundle, Whole)>>)
         @@ At(top, a) :> Says(t2, <<>>)
         @@ At(bundle, main) :> Says(t1, <<Here(a)>>)
         @@ At(bundle, a) :> Says(t3, <<>>)
         @@ At(top, zip) :> Whole1),
   Files(At(top, main) :> Says(t1, <<Here(a), Here(zip)>>)
         @@ At(top, a) :> Says(t3, <<Here(main)>>)
         @@ At(bundle, main) :> Says(t1, <<Here(a), Here(b)>>)
         @@ At(bundle, a) :> Says(t2, <<Abs(top, a)>>)
         @@ At(top, zip) :> Broken1)}

SmallInline ==
  {[text |-> Unparsed(t4), name |-> b, file |-> None],
   [text |-> Says(t4, <<Here(a)>>), name |-> b, file |-> None],
   [text |-> Says(t4, <<Here(a), Here(zip)>>), name |-> b, file |-> At(top, b)]}

SmallLoads == {At(top, main), At(bundle, Whole), At(bundle, main), At(top, zip)}

(* Two archives that bring names along; in one of them a name is no good.  *)
Named == [members |-> main :> Says(t1, <<Here(a)>>) @@ a :> Says(t2, <<>>),
          names |-> a :> a @@ Generated(1) :> main]
Spoilt == [members |-> main :> Says(t1, <<>>) @@ a :> Says(t2, <<>>)
                       @@ b :> Untyped(t3),
           names |-> a :> a @@ b :> b]
SmallArchives == {Named, Spoilt}
=============================================================================
