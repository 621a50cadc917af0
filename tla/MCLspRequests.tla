---------------------------- MODULE MCLspRequests ----------------------------
(***************************************************************************)
(* LspRequests on a small instance.  The request ids are not declared      *)
(* symmetric: the run checks liveness, for which symmetry is unsound.      *)
(***************************************************************************)
EXTENDS LspRequests
=============================================================================
