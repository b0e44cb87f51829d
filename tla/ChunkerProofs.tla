--------------------------- MODULE ChunkerProofs ---------------------------
(***************************************************************************)
(* Theorems about Chunker for every size, overlap and text.                *)
(***************************************************************************)
EXTENDS Chunker, FiniteSetTheorems, TLAPS

\* The runes between the last restart and a given one.
Kept(part) == \E k \in DOMAIN chunks : TrimSpace(part) \subseteq chunks[k]

Passages == {i \in (1..Length) \X (1..Length) : i[1] <= i[2] /\ i[2] <= i[1] + Overlap}

\* A chunk lies in a window of the size; what begins before the next chunk is kept.
Inv ==
  /\ \E n \in 1..MaxLength : text \in [1..n -> Runes]
  /\ Length \in 1..MaxLength
  /\ ~IsBlank(1)
  /\ start \in 0..(Length - 1)
  /\ chunks \in Seq((SUBSET (1..Length)) \ {{}})
  /\ done \in BOOLEAN
  /\ start > 0 \/ done => chunks # <<>>
  /\ \A k \in DOMAIN chunks : \E s \in 0..Length : chunks[k] \subseteq (s + 1)..(s + Size)
  /\ \A i \in Passages : i[1] <= start \/ done => Kept(i[1]..i[2])

\* The length of a text is the last of its runes.
LEMMA LengthOf ==
  ASSUME NEW n \in 1..MaxLength, text \in [1..n -> Runes]
  PROVE  Length = n
  <1>1. Cardinality(1..n) = n
    BY FS_Interval, ChunkerAssumption
  <1> QED BY <1>1 DEF Length

\* Trimming leaves a part of the text, more of a larger one.
LEMMA TrimMonotone ==
  ASSUME NEW a, NEW b, a \subseteq b
  PROVE  TrimSpace(a) \subseteq TrimSpace(b) /\ TrimSpace(a) \subseteq a
  BY DEF TrimSpace

\* A chunk ends behind its beginning, by its size at most, and with the text or so far
\* behind its beginning that the next one begins later.
LEMMA EndBounds ==
  ASSUME Inv, NEW e \in 1..Length, IsEnd(e, start)
  PROVE  /\ start < e /\ e <= start + Size
         /\ e # Length => e < Length /\ start < Restart(e) /\ Restart(e) = e - Overlap
         /\ Restart(e) \in 0..(Length - 1) \/ e = Length
  <1>1. /\ start \in Nat /\ Length \in Nat /\ start < Length /\ e \in Nat /\ e <= Length
        /\ Size \in Nat /\ Size > 0 /\ Overlap \in Nat /\ Overlap <= Size \div 2
    BY ChunkerAssumption DEF Inv
  <1>2. Size \div 2 \in Nat /\ Size \div 2 < Size
    BY <1>1
  <1>3. CASE e = Length /\ start + Size >= Length
    BY <1>1, <1>3
  <1>4. CASE start + Size < Length /\ e = start + Size
    BY <1>1, <1>2, <1>4 DEF Restart
  <1>5. CASE start + Size < Length /\ e \in Breaks(start)
    <2>1. e > start + Size \div 2 /\ e <= start + Size
      BY <1>1, <1>2, <1>5 DEF Breaks, MinimumBreak
    <2> QED BY <1>1, <1>2, <1>5, <2>1 DEF Restart
  <1> QED BY <1>3, <1>4, <1>5 DEF IsEnd

\* At first nothing is cut, and no passage begins before the next chunk.
LEMMA InitInv == Init => Inv
  <1>1. SUFFICES ASSUME Init PROVE Inv
    OBVIOUS
  <1>2. PICK n \in 1..MaxLength : text \in [1..n -> Runes]
    BY <1>1 DEF Init
  <1>3. Length = n
    BY <1>2, LengthOf
  <1>4. \A i \in Passages : ~(i[1] <= start \/ done)
    BY <1>1, <1>2, <1>3, ChunkerAssumption DEF Init, Passages
  <1>5. /\ start \in 0..(Length - 1) /\ done \in BOOLEAN /\ ~done /\ ~(start > 0)
        /\ chunks = <<>> /\ ~IsBlank(1)
    <2>1. n \in Nat /\ n >= 1
      BY ChunkerAssumption
    <2>2. start = 0 /\ done = FALSE /\ chunks = <<>> /\ ~IsBlank(1)
      BY <1>1 DEF Init
    <2>3. 0 \in 0..(n - 1) /\ ~(0 > 0)
      BY <2>1
    <2>4. start \in 0..(Length - 1) /\ ~(start > 0)
      BY <1>3, <2>2, <2>3
    <2> QED BY <2>2, <2>4, Zenon
  <1> QED BY <1>2, <1>3, <1>4, <1>5 DEF Inv

\* What a step appends.
LEMMA CutStep ==
  ASSUME Inv, NEW e \in 1..Length, Cut(e)
  PROVE  Inv' /\ (done' \/ start' > start)
  <1> DEFINE window == (start + 1)..e
             chunk  == TrimSpace(window)
  <1>1. /\ chunks' = IF chunk # {} THEN Append(chunks, chunk) ELSE chunks
        /\ ~done /\ text' = text
        /\ e = Length => done' = TRUE /\ start' = start
        /\ e # Length => start' = Restart(e) /\ done' = done
    BY DEF Cut, AppendChunk
  <1>2. /\ start < e /\ e <= start + Size
        /\ e # Length => e < Length /\ start < Restart(e) /\ Restart(e) = e - Overlap
        /\ Restart(e) \in 0..(Length - 1) \/ e = Length
    <2>1. IsEnd(e, start)
      BY DEF Cut
    <2> QED BY <2>1, EndBounds
  <1>3. Length' = Length /\ Passages' = Passages
    BY <1>1 DEF Length, Passages
  <1>4. /\ start \in Nat /\ Length \in Nat /\ start < Length /\ e \in Nat /\ e <= Length
        /\ Size \in Nat /\ Overlap \in Nat
        /\ chunks \in Seq((SUBSET (1..Length)) \ {{}})
    BY ChunkerAssumption DEF Inv
  <1>5. chunk \subseteq window /\ window \subseteq 1..Length
    BY <1>4, TrimMonotone
  <1> HIDE DEF chunk, window
  <1>6. /\ \A k \in DOMAIN chunks : k \in DOMAIN chunks' /\ chunks'[k] = chunks[k]
        /\ chunk # {} => \E k \in DOMAIN chunks' : chunks'[k] = chunk
        /\ \A k \in DOMAIN chunks' :
             (k \in DOMAIN chunks /\ chunks'[k] = chunks[k]) \/ chunks'[k] = chunk
        /\ chunks' \in Seq((SUBSET (1..Length)) \ {{}})
        /\ chunks' # <<>> \/ (chunk = {} /\ chunks = <<>>)
    <2>1. CASE chunk = {}
      BY <1>1, <1>4, <2>1
    <2>2. CASE chunk # {}
      <3>1. chunk \in (SUBSET (1..Length)) \ {{}}
        <4>1. chunk \subseteq 1..Length
          BY <1>5, Zenon
        <4>2. chunk \in SUBSET (1..Length)
          BY <4>1
        <4>3. chunk \notin {{}}
          BY <2>2
        <4> QED BY <4>2, <4>3
      <3>2. chunks' = Append(chunks, chunk)
        BY <1>1, <2>2
      <3>3. /\ DOMAIN chunks = 1..Len(chunks) /\ Len(chunks) \in Nat
            /\ DOMAIN chunks' = 1..(Len(chunks) + 1)
            /\ chunks'[Len(chunks) + 1] = chunk
            /\ \A k \in 1..Len(chunks) : chunks'[k] = chunks[k]
            /\ chunks' \in Seq((SUBSET (1..Length)) \ {{}})
        BY <1>4, <3>1, <3>2
      <3>4. Len(chunks) + 1 \in DOMAIN chunks'
        BY <3>3
      <3>5. chunks' # <<>>
        BY <3>4
      <3> QED BY <2>2, <3>3, <3>4, <3>5
    <2> QED BY <2>1, <2>2
  <1>7. chunks' # <<>>
    <2>1. CASE start > 0
      BY <1>6, <2>1 DEF Inv
    <2>2. CASE start = 0
      <3>1. 1 \in window
        BY <1>4, <1>2, <2>2 DEF window
      <3>2. 1 \in chunk
        BY <3>1 DEF chunk, TrimSpace, Inv
      <3> QED BY <1>6, <3>2
    <2> QED BY <1>4, <2>1, <2>2
  <1>8. \A k \in DOMAIN chunks' : \E s \in 0..Length : chunks'[k] \subseteq (s + 1)..(s + Size)
    <2>1. chunk \subseteq (start + 1)..(start + Size) /\ start \in 0..Length
      BY <1>2, <1>4, <1>5 DEF window
    <2>2. \A k \in DOMAIN chunks : \E s \in 0..Length : chunks[k] \subseteq (s + 1)..(s + Size)
      BY DEF Inv
    <2> QED BY <1>6, <2>1, <2>2
  <1>9. \A part : Kept(part) => Kept(part)'
    <2>1. TAKE part
    <2>2. TrimSpace(part)' = TrimSpace(part)
      BY <1>1 DEF TrimSpace, IsBlank
    <2> QED BY <1>6, <2>2 DEF Kept
  <1>10. \A i \in Passages : i[1] <= start' \/ done' => Kept(i[1]..i[2])'
    <2>1. SUFFICES ASSUME NEW i \in Passages, i[1] <= start' \/ done'
                   PROVE  Kept(i[1]..i[2])'
      OBVIOUS
    <2>2. CASE i[1] <= start
      BY <1>9, <2>2 DEF Inv
    <2>3. CASE i[1] > start
      <3>1. i[1] \in Nat /\ i[2] \in Nat /\ i[2] <= Length /\ i[2] <= i[1] + Overlap
        BY <1>4 DEF Passages
      <3>2. i[2] <= e
        BY <1>1, <1>2, <1>4, <2>1, <3>1
      <3>3. i[1]..i[2] \subseteq window
        BY <1>4, <2>3, <3>1, <3>2 DEF window
      <3>4. TrimSpace(i[1]..i[2]) \subseteq chunk
        BY <3>3, TrimMonotone DEF chunk
      <3>5. TrimSpace(i[1]..i[2])' = TrimSpace(i[1]..i[2])
        BY <1>1 DEF TrimSpace, IsBlank
      <3>6. CASE chunk # {}
        BY <1>6, <3>4, <3>5, <3>6 DEF Kept
      <3>7. CASE chunk = {}
        <4>1. 1 \in DOMAIN chunks'
          BY <1>6, <1>7
        <4> QED BY <3>4, <3>5, <3>7, <4>1 DEF Kept
      <3> QED BY <3>6, <3>7
    <2>4. i[1] \in Nat
      BY <1>4 DEF Passages
    <2> QED BY <1>4, <2>2, <2>3, <2>4
  <1>11. start' \in 0..(Length - 1) /\ done' \in BOOLEAN /\ (done' \/ start' > start)
    BY <1>1, <1>2, <1>4 DEF Inv
  <1>12. (\E n \in 1..MaxLength : text \in [1..n -> Runes])' /\ Length' \in 1..MaxLength /\ (~IsBlank(1))'
    BY <1>1, <1>3 DEF Inv, IsBlank
  <1> QED BY <1>3, <1>6, <1>7, <1>8, <1>10, <1>11, <1>12 DEF Inv

\* Throughout ChunkText, chunks lie in windows of the size and keep what begins before the next one.
THEOREM ChunkerInvariant == Spec => []Inv
  <1>1. Inv /\ [Next]_vars => Inv'
    <2>1. SUFFICES ASSUME Inv, [Next]_vars PROVE Inv'
      OBVIOUS
    <2>2. CASE Next
      BY <2>1, <2>2, CutStep DEF Next
    <2>3. CASE UNCHANGED vars
      <3>1. Length' = Length /\ Passages' = Passages
        BY <2>3 DEF vars, Length, Passages
      <3>2. \A part : Kept(part)' <=> Kept(part)
        BY <2>3 DEF vars, Kept, TrimSpace, IsBlank
      <3> QED BY <2>1, <2>3, <3>1, <3>2 DEF vars, Inv, IsBlank
    <2> QED BY <2>1, <2>2, <2>3
  <1> QED BY <1>1, InitInv, PTL DEF Spec

-----------------------------------------------------------------------------
(* The theorems.                                                           *)

\* Variables keep their types: no chunk is empty.
THEOREM ChunkerTypes == Spec => []ChunkerTypeOK
  <1>1. Inv => ChunkerTypeOK
    BY DEF Inv, ChunkerTypeOK
  <1> QED BY <1>1, ChunkerInvariant, PTL

\* No chunk is longer than the size.
THEOREM SizeKept == Spec => []WithinSize
  <1>1. Inv => WithinSize
    <2>1. SUFFICES ASSUME Inv, NEW k \in DOMAIN chunks
                   PROVE  Cardinality(chunks[k]) <= Size
      BY DEF WithinSize
    <2>2. PICK s \in 0..Length : chunks[k] \subseteq (s + 1)..(s + Size)
      BY <2>1 DEF Inv
    <2>3. s \in Nat /\ Size \in Nat /\ s + 1 \in Int /\ s + Size \in Int
      BY <2>1, ChunkerAssumption DEF Inv
    <2>4. IsFiniteSet((s + 1)..(s + Size)) /\ Cardinality((s + 1)..(s + Size)) = Size
      BY <2>3, FS_Interval
    <2>5. Cardinality(chunks[k]) <= Cardinality((s + 1)..(s + Size))
      BY <2>2, <2>4, FS_Subset
    <2> QED BY <2>4, <2>5
  <1> QED BY <1>1, ChunkerInvariant, PTL

\* Every passage that is not longer than the overlap and one rune is in a chunk as a whole.
THEOREM NothingLost == Spec => []PassagesKept
  <1>1. Inv => PassagesKept
    <2>1. SUFFICES ASSUME Inv, done, NEW p \in 1..Length, NEW q \in 1..Length,
                          p <= q, q <= p + Overlap
                   PROVE  \E k \in DOMAIN chunks : TrimSpace(p..q) \subseteq chunks[k]
      BY DEF PassagesKept
    <2>2. <<p, q>> \in Passages
      BY <2>1 DEF Passages
    <2> QED BY <2>1, <2>2 DEF Inv, Kept
  <1> QED BY <1>1, ChunkerInvariant, PTL

\* Every chunk starts after the one before: the loop is not caught at a rune.
THEOREM EveryCutAdvances == Spec => [][done' \/ start' > start]_vars
  <1>1. Inv /\ [Next]_vars => [done' \/ start' > start]_vars
    BY CutStep DEF Next
  <1> QED BY <1>1, ChunkerInvariant, PTL DEF Spec
=============================================================================
