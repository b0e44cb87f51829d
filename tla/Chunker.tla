------------------------------ MODULE Chunker ------------------------------
(***************************************************************************)
(* The cutting of a text into the overlapping chunks that are embedded     *)
(* (ChunkText of internal/enrichment/chunker.go), one iteration of its     *)
(* loop a step.  Of a rune it only matters whether TrimSpace removes it    *)
(* and whether a chunk may end after it.                                   *)
(***************************************************************************)
EXTENDS Integers, FiniteSets, Sequences

CONSTANTS
  Size,      \* defaultChunkRunes
  Overlap,   \* defaultOverlapRunes
  MaxLength  \* bound: runes of a text

ASSUME ChunkerAssumption ==
  /\ Size \in Nat \ {0}
  /\ Overlap \in Nat
  /\ Overlap <= Size \div 2
  /\ MaxLength \in Nat

Runes == {"letter", "stop", "newline", "space"}

VARIABLES
  text,    \* runes; they are numbered from 1, where the code numbers them from 0
  start,   \* the runes before the next chunk
  chunks,  \* result: the runes of every chunk
  done

vars == <<text, start, chunks, done>>

Length == Cardinality(DOMAIN text)

IsBlank(i)  == text[i] \in {"newline", "space"}
MayEnd(i) == text[i] \in {"newline", "stop"}

\* TrimSpace on a part of the text: what lies between two runes that are not blank.
TrimSpace(part) == {i \in part : \E a, b \in part : a <= i /\ i <= b /\ ~IsBlank(a) /\ ~IsBlank(b)}

ChunkerTypeOK ==
  /\ \E n \in 1..MaxLength : text \in [1..n -> Runes]
  /\ start \in 0..(Length - 1)
  /\ chunks \in Seq((SUBSET (1..Length)) \ {{}})
  /\ done \in BOOLEAN

\* The content is trimmed first, and is not empty then.
Init ==
  /\ \E n \in 1..MaxLength : text \in [1..n -> Runes]
  /\ ~IsBlank(1) /\ ~IsBlank(Length)
  /\ start = 0
  /\ chunks = <<>>
  /\ done = FALSE

\* Wrong variant: a sentence may end anywhere in the chunk.
NoMinimumBreak(s) == s

MinimumBreak(s) == s + Size \div 2

\* Wrong variant: the rune after the chunk is looked at as well.
BreaksOneFurther(s) == {e \in (MinimumBreak(s) + 1)..(s + Size + 1) : MayEnd(e)}

Breaks(s) == {e \in (MinimumBreak(s) + 1)..(s + Size) : MayEnd(e)}

\* The last end of a sentence in the second half of the chunk, if there is one.
IsEnd(e, s) ==
  \/ s + Size >= Length /\ e = Length
  \/ s + Size < Length /\ Breaks(s) = {} /\ e = s + Size
  \/ s + Size < Length /\ e \in Breaks(s) /\ \A f \in Breaks(s) : f <= e

\* Wrong variant: a chunk of blanks is kept.
AppendAlways(chunk) == Append(chunks, chunk)

AppendChunk(chunk) == IF chunk # {} THEN Append(chunks, chunk) ELSE chunks

\* Wrong variant: one rune less of overlap.
RestartLater(e) == e - Overlap + 1

Restart(e) == IF e - Overlap < 0 THEN 0 ELSE e - Overlap

Cut(e) ==
  /\ ~done
  /\ IsEnd(e, start)
  /\ chunks' = AppendChunk(TrimSpace((start + 1)..e))
  /\ IF e = Length
     THEN done' = TRUE /\ UNCHANGED start
     ELSE start' = Restart(e) /\ UNCHANGED done
  /\ UNCHANGED text

Next == \E e \in 1..Length : Cut(e)

\* The loop has the processor as long as it needs it.
Spec == Init /\ [][Next]_vars /\ WF_vars(Next)

-----------------------------------------------------------------------------
(* What holds of the chunks.                                               *)

\* No chunk is longer than the size (chunker_test.go).
WithinSize == \A k \in DOMAIN chunks : Cardinality(chunks[k]) <= Size

\* A passage that is not longer than the overlap, or by one rune, is in one of the chunks
\* as a whole, so that nothing is lost and no short passage is cut everywhere.
PassagesKept ==
  done => \A p, q \in 1..Length :
            p <= q /\ q <= p + Overlap => \E k \in DOMAIN chunks : TrimSpace(p..q) \subseteq chunks[k]

\* Every chunk starts after the one before, and the loop ends.
Terminates == <>done
=============================================================================
