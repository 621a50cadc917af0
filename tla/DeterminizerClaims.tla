-------------------------- MODULE DeterminizerClaims --------------------------
(***************************************************************************)
(* A sentence of the determinizer's comments that the code does not keep.  *)
(***************************************************************************)
EXTENDS MCDeterminizer

\* density.rs:2462 says that a sibling's value is put into a component's measure
\* so that no emitted term reads the other query's point, "a wrong number rather
\* than a refusal".  The value is put in for the name of the binding the field
\* refers to.  Where that binding is a function of a draw (`b = a + 1`) and the
\* other field depends on the draw itself (`c ~ Dist(a)`), the term keeps `a`, and
\* scores c at the point that another query gave a.
OwnPointOnly == QueriesCorrect

=============================================================================
