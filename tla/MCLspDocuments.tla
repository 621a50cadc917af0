---------------------------- MODULE MCLspDocuments ----------------------------
(***************************************************************************)
(* LspDocuments on a small instance.  A text is named after what it loads. *)
(***************************************************************************)
EXTENDS LspDocuments, TLC

CONSTANTS a, b, c, d, loadsB, loadsMounts

(* Chains of imports, a document that loads itself and import cycles; the  *)
(* second text loads a mounted member and a fetched module.                *)
ChainImports == loadsB :> {b} @@ loadsMounts :> {c, d}
=============================================================================
