----------------------------- MODULE MCAccounts -----------------------------
(***************************************************************************)
(* An account on a small instance: two uploads and a web page.             *)
(***************************************************************************)
EXTENDS Accounts, TLC

CONSTANTS f1, f2, p1, u1, u2, w1, none

MCFilesOf == (u1 :> {f1}) @@ (u2 :> {f2})
MCBytes   == (f1 :> 2) @@ (f2 :> 2) @@ (p1 :> 2)

\* The two uploads change places together with their files.
UploadSymmetry ==
  {p \in Permutations({f1, f2, u1, u2}) :
     \A u \in Uploads : p[u] \in Uploads /\ MCFilesOf[p[u]] = {p[f] : f \in MCFilesOf[u]}}
=============================================================================
