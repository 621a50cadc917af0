------------------------------ MODULE MCUrlCache ------------------------------
(***************************************************************************)
(* UrlCache on a small web: a model that loads two modules and a data      *)
(* file, a module that redirects to the address of the other, and that one *)
(* may answer, redirect back or redirect out of http.                      *)
(***************************************************************************)
EXTENDS UrlCache, TLC

CONSTANTS model, module, mirror, file, ftp, m1, d1

Text(c) == [kind |-> "content", body |-> c]
Redirect(u) == [kind |-> "redirect", to |-> u]
Failure == [kind |-> "failure"]

SmallWeb ==
  model :> {Text(m1)} @@ module :> {Text(d1), Redirect(mirror)}
  @@ mirror :> {Text(d1), Redirect(module), Redirect(ftp)}
  @@ file :> {Text(d1)} @@ ftp :> {Failure}

SmallImports == m1 :> {module, mirror} @@ d1 :> {}
SmallData == m1 :> {file} @@ d1 :> {}

Started(offline, trustAll, interactive, update) ==
  [offline |-> offline, trustAll |-> trustAll,
   interactive |-> interactive, update |-> update]

(* Asking and updating, trusting everything, unattended, and offline.      *)
AllModes ==
  {Started(FALSE, FALSE, TRUE, TRUE), Started(FALSE, TRUE, FALSE, FALSE),
   Started(FALSE, FALSE, FALSE, FALSE), Started(TRUE, FALSE, FALSE, FALSE)}
=============================================================================
