--------------------------- MODULE LspRequestClaims ---------------------------
(***************************************************************************)
(* What a test of crates/lsp says of the request path that the code does   *)
(* not do: TLC finds a behaviour of LspRequests that contradicts it.       *)
(***************************************************************************)
EXTENDS LspRequests

(* protocol_smoke.rs: "A hover issued just before an invalidating edit     *)
(* must never return a result computed against the PRE-edit text".  When   *)
(* a result is handed to the writer its revision is the current one.       *)
NoPreEditResult ==
  [][ Len(out') > Len(out) /\ out'[Len(out')].kind = "result"
        => out'[Len(out')].rev = rev ]_vars
=============================================================================
