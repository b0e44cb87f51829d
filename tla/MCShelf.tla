------------------------------ MODULE MCShelf ------------------------------
(***************************************************************************)
(* Two requests, two collections and a reader.                             *)
(***************************************************************************)
EXTENDS Listing, TLC

CONSTANTS c1, c2, n1, n2, r1, r2

Symmetry == Permutations({c1, c2}) \cup Permutations({n1, n2}) \cup Permutations({r1, r2})

\* A page shows what is committed, so that between two pages the requests run one after
\* the other.
OneRequestBesideReader ==
  reader.of # None => Cardinality({r \in Requests : request[r].pc # "idle"}) <= 1
=============================================================================
