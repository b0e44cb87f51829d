----------------------------- MODULE MCIdentity -----------------------------
(***************************************************************************)
(* The accounts under one address on a small instance.                     *)
(***************************************************************************)
EXTENDS Identity, TLC

CONSTANTS r1, r2, c1, c2, c3, a1, a2, s1, s2, s3, none

\* Requests, rows and ids of a kind are interchangeable.
IdentitySymmetry ==
  Permutations(Requests) \cup Permutations(Challenges)
    \cup Permutations(Sessions) \cup Permutations(Accounts)
=============================================================================
