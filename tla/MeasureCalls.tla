----------------------------- MODULE MeasureCalls -----------------------------
(***************************************************************************)
(* Calls in MeasureTypes (`substituted_result`): the body of the callable  *)
(* k is annotated again with its inputs bound to the argument.  That       *)
(* re-annotates the calls in the body in turn, so Annotate takes this      *)
(* result as the constant Substituted.                                     *)
(***************************************************************************)
EXTENDS MeasureMeaning

SubstitutedResult(P, A, k, a) ==
  LET inputs == Of(A, k).ty.inputs
      last == Body(P, k).node
  IN FoldLeft(LAMBDA B, j : Append(B, IF j \in inputs THEN [a EXCEPT !.law = A[j].law]
                                        ELSE Annotate(P, B, P[j])),
              <<>>, [j \in 1..last |-> j])[last]
==============================================================================
