-------------------------- MODULE InferWalkClaims --------------------------
(***************************************************************************)
(* What a comment of the repository says of InferWalk and the code does    *)
(* not do.                                                                 *)
(***************************************************************************)
EXTENDS MCInferWalk

\* "Rules run after their dependencies finish. Reading an annotation must
\* never launch another trace or cross a substituted boundary" (trace.rs, on
\* node_annotation): whatever is read has been inferred, so inference never
\* aborts with "inference dependency must be complete".
NeverAborts == outcome # "panicked"

=============================================================================
