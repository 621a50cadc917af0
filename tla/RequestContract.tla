--------------------------- MODULE RequestContract ---------------------------
(***************************************************************************)
(* What the language server promises a client about requests, whatever     *)
(* happens inside it: JSON-RPC 2.0 section 5, as the comments of           *)
(* lsp/src/server.rs and lsp/src/pool.rs quote it, "exactly one response   *)
(* per request".  LspRequests is shown to implement this module.           *)
(***************************************************************************)
EXTENDS Naturals

CONSTANT Ids    \* the request ids a client uses

VARIABLES asked,     \* asked[id]: requests the server has received under id
          answered,  \* answered[id]: responses the client has been given
          serving    \* FALSE once the server shut down or lost its client

vars == <<asked, answered, serving>>

Init == /\ asked    = [id \in Ids |-> 0]
        /\ answered = [id \in Ids |-> 0]
        /\ serving  = TRUE

(* A client asks under an id only when no request under it is outstanding. *)
Ask(id) == /\ asked[id] = answered[id]
           /\ asked' = [asked EXCEPT ![id] = @ + 1]
           /\ UNCHANGED <<answered, serving>>

(* A response goes out only for an outstanding request.                    *)
Answer(id) == /\ answered[id] < asked[id]
              /\ answered' = [answered EXCEPT ![id] = @ + 1]
              /\ UNCHANGED <<asked, serving>>

Stop == /\ serving
        /\ serving' = FALSE
        /\ UNCHANGED <<asked, answered>>

Next == Stop \/ \E id \in Ids : Ask(id) \/ Answer(id)

Spec == Init /\ [][Next]_vars

(* While it serves, the server answers every request.                      *)
FairSpec == Spec /\ \A id \in Ids : WF_vars(serving /\ Answer(id))
=============================================================================
