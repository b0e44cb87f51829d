----------------------------- MODULE MCChunker -----------------------------
(***************************************************************************)
(* Every text up to a length, cut into chunks of a few runes.              *)
(***************************************************************************)
EXTENDS Chunker
=============================================================================
