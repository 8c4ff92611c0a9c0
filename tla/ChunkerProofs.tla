----------------------------- MODULE ChunkerProofs -----------------------------
(******************************************************************************)
(* ChunkText is correct for every text and all options.  The invariant says   *)
(* where each round of the loop starts and that it has left no gap so far.    *)
(******************************************************************************)
EXTENDS Chunker, TLAPS

USE ChunkerAssumption

(* A round advances by at least one word and at most by a whole window. *)
LEMMA StepFacts ==
    ASSUME TypeOK
    PROVE  /\ MaxTokens \in Nat /\ Overlap \in Nat /\ step \in Nat
           /\ 1 <= step /\ step <= MaxTokens
           /\ Shared = MaxTokens - step
BY DEF TypeOK, Option, MaxTokens, Overlap, step, Shared

Size == Len(chunks)
Reached == IF Size = 0 THEN 0 ELSE chunks[Size].to

\* Every chunk is a window of the text.
Windows ==
    \A n \in 1 .. Size :
        /\ chunks[n].index = n - 1
        /\ chunks[n].from < chunks[n].to
        /\ chunks[n].to <= words
        /\ chunks[n].tokenCount = chunks[n].to - chunks[n].from
        /\ chunks[n].tokenCount <= MaxTokens

\* All but the last are full, and the next starts one step further.
Links ==
    \A n \in 1 .. Size - 1 :
        /\ chunks[n].to = chunks[n].from + MaxTokens
        /\ chunks[n + 1].from = chunks[n].from + step
        /\ chunks[n].to < chunks[n + 1].to

\* Where the loop stands.
Position ==
    /\ pc = "loop" => Reached < words
    /\ pc = "loop" /\ Size = 0 => start = 0
    /\ pc = "loop" /\ Size > 0 =>
         /\ start = chunks[Size].from + step
         /\ chunks[Size].to = chunks[Size].from + MaxTokens
    /\ pc = "done" => Reached = words

NoGap == \A i \in Nat : i < Reached => Covered(i)

Inv == TypeOK /\ Windows /\ Links /\ Position /\ NoGap

(* The invariant holds before the first round. *)
LEMMA InitInv == Init => Inv
BY DEF Init, Inv, TypeOK, Windows, Links, Position, NoGap, Size, Reached, Option, Chunk

(* A round appends one window, which starts where the chunks so far allow it. *)
LEMMA RoundInv == Inv /\ Round => Inv'
<1> SUFFICES ASSUME Inv, Round PROVE Inv'
  OBVIOUS
<1> USE DEF Inv
<1>1. /\ MaxTokens \in Nat /\ step \in Nat /\ 1 <= step /\ step <= MaxTokens
      /\ MaxTokens' = MaxTokens /\ step' = step
  BY StepFacts DEF Round, RoundUntil, input, MaxTokens, step, Overlap
<1>2. words \in Nat /\ start \in Nat /\ chunks \in Seq(Chunk) /\ Size \in Nat /\ pc = "loop"
  BY DEF TypeOK, Size, Round, RoundUntil
<1>3. /\ Size > 0 => chunks[Size] \in Chunk /\ chunks[Size].to = start - step + MaxTokens
      /\ Reached \in Nat /\ Reached < words
      /\ start <= Reached
  <2>1. CASE Size = 0
    BY <1>1, <1>2, <2>1 DEF Position, Reached
  <2>2. CASE Size > 0
    <3>1. chunks[Size] \in Chunk
      BY <1>2, <2>2 DEF Size
    <3>2. chunks[Size].from \in Nat /\ chunks[Size].to \in Nat
      BY <3>1 DEF Chunk
    <3>3. /\ start = chunks[Size].from + step
          /\ chunks[Size].to = chunks[Size].from + MaxTokens
          /\ Reached = chunks[Size].to /\ Reached < words
      BY <1>2, <2>2 DEF Position, Reached
    <3> QED
      BY <1>1, <1>2, <3>1, <3>2, <3>3
  <2> QED
    BY <1>2, <2>1, <2>2
<1>4. PICK e \in Nat : e = end
  BY <1>1, <1>2 DEF end
<1>5. /\ start < e /\ e <= words /\ e <= start + MaxTokens /\ Reached < e
      /\ e # words => e = start + MaxTokens
  <2>1. e = IF start + MaxTokens > words THEN words ELSE start + MaxTokens
    BY <1>4 DEF end
  <2>2. start <= Reached /\ Reached < words /\ Reached \in Nat /\ Reached < start + MaxTokens
    <3>1. CASE Size = 0
      BY <1>1, <1>2, <1>3, <3>1 DEF Reached
    <3>2. CASE Size > 0
      BY <1>1, <1>2, <1>3, <3>2 DEF Reached
    <3> QED
      BY <1>2, <3>1, <3>2
  <2> QED
    BY <1>1, <1>2, <2>1, <2>2
<1> DEFINE c == [index |-> Size, from |-> start, to |-> e, tokenCount |-> e - start]
<1>6. c \in Chunk
  BY <1>2, <1>5 DEF Chunk
<1>7. chunks' = Append(chunks, c) /\ words' = words /\ opts' = opts
  BY <1>4 DEF Round, RoundUntil, Size, input
<1>8. /\ chunks' \in Seq(Chunk) /\ Size' = Size + 1
      /\ chunks'[Size + 1] = c
      /\ \A n \in 1 .. Size : chunks'[n] = chunks[n] /\ chunks[n] \in Chunk
  <2> HIDE DEF c
  <2> QED
    BY <1>2, <1>6, <1>7 DEF Size
<1>9. Reached' = e
  BY <1>2, <1>8 DEF Reached
<1>10. start' = start + step /\ pc' \in {"loop", "done"}
       /\ (pc' = "loop" => e # words) /\ (pc' = "done" => e = words)
  <2>1. e # words => start + step < words
    BY <1>1, <1>2, <1>5
  <2> QED
    BY <1>1, <1>2, <1>4, <1>5, <2>1 DEF Round, RoundUntil
<1>11. TypeOK'
  BY <1>1, <1>2, <1>7, <1>8, <1>10 DEF TypeOK
<1>12. Windows'
  <2> SUFFICES ASSUME NEW n \in 1 .. Size + 1
               PROVE  /\ chunks'[n].index = n - 1
                      /\ chunks'[n].from < chunks'[n].to
                      /\ chunks'[n].to <= words
                      /\ chunks'[n].tokenCount = chunks'[n].to - chunks'[n].from
                      /\ chunks'[n].tokenCount <= MaxTokens
    BY <1>1, <1>7, <1>8 DEF Windows
  <2>1. CASE n \in 1 .. Size
    BY <1>8, <2>1 DEF Windows
  <2>2. CASE n = Size + 1
    BY <1>1, <1>2, <1>5, <1>8, <2>2
  <2> QED
    BY <1>2, <2>1, <2>2
<1>13. Links'
  <2> SUFFICES ASSUME NEW n \in 1 .. Size
               PROVE  /\ chunks'[n].to = chunks'[n].from + MaxTokens
                      /\ chunks'[n + 1].from = chunks'[n].from + step
                      /\ chunks'[n].to < chunks'[n + 1].to
    BY <1>1, <1>2, <1>8 DEF Links
  <2>1. CASE n \in 1 .. Size - 1
    <3>1. n + 1 \in 1 .. Size
      BY <1>2, <2>1
    <3> QED
      BY <1>8, <2>1, <3>1 DEF Links
  <2>2. CASE n = Size
    BY <1>2, <1>5, <1>8, <2>2 DEF Position, Reached
  <2> QED
    BY <1>2, <2>1, <2>2
<1>14. Position'
  <2>1. chunks'[Size'].from = start /\ chunks'[Size'].to = e /\ Size' # 0
    BY <1>2, <1>8
  <2>2. pc' = "loop" => Reached' < words' /\ e = start + MaxTokens'
    BY <1>1, <1>2, <1>5, <1>7, <1>9, <1>10
  <2>3. start' = chunks'[Size'].from + step'
    BY <1>1, <1>10, <2>1
  <2>4. pc' = "done" => Reached' = words'
    BY <1>7, <1>9, <1>10
  <2> QED
    BY <2>1, <2>2, <2>3, <2>4 DEF Position
<1>15. NoGap'
  <2> SUFFICES ASSUME NEW i \in Nat, i < e PROVE Covered(i)'
    BY <1>9 DEF NoGap
  <2>1. DOMAIN chunks = 1 .. Size /\ DOMAIN chunks' = 1 .. Size + 1
    BY <1>2, <1>8 DEF Size
  <2>2. CASE i < Reached
    <3>1. PICK n \in 1 .. Size : chunks[n].from <= i /\ i < chunks[n].to
      BY <2>1, <2>2 DEF NoGap, Covered
    <3>2. n \in 1 .. Size + 1 /\ chunks'[n] = chunks[n]
      BY <1>2, <1>8, <3>1
    <3> QED
      BY <2>1, <3>1, <3>2 DEF Covered
  <2>3. CASE ~(i < Reached)
    <3>1. start <= i
      BY <1>2, <1>3, <2>3
    <3>2. Size + 1 \in 1 .. Size + 1
      BY <1>2
    <3> QED
      BY <1>8, <2>1, <3>1, <3>2 DEF Covered
  <2> QED
    BY <2>2, <2>3
<1> QED
  BY <1>11, <1>12, <1>13, <1>14, <1>15

(* The invariant holds throughout the loop. *)
THEOREM ChunkerInvariant == Spec => []Inv
<1>1. Inv /\ UNCHANGED vars => Inv'
  BY DEF Inv, TypeOK, Windows, Links, Position, NoGap, Covered, Size, Reached, MaxTokens, Overlap,
    step, vars
<1> QED
  BY <1>1, InitInv, RoundInv, PTL DEF Spec, Next

--------------------------------------------------------------------------------
(* The variables of the loop keep their types. *)
THEOREM ChunkerTypeOK == Spec => []TypeOK
<1>1. Inv => TypeOK
  BY DEF Inv
<1> QED
  BY <1>1, ChunkerInvariant, PTL

(* No word of any text is lost. *)
THEOREM EveryWordInAChunkHolds == Spec => []EveryWordInAChunk
<1>1. Inv => EveryWordInAChunk
  BY DEF Inv, TypeOK, Position, NoGap, EveryWordInAChunk
<1> QED
  BY <1>1, ChunkerInvariant, PTL

(* All chunks but the last fill the window, and none exceeds it. *)
THEOREM ChunksFillTheWindowHolds == Spec => []ChunksFillTheWindow
<1>1. Inv => ChunksFillTheWindow
  <2> SUFFICES ASSUME Inv, NEW n \in DOMAIN chunks
               PROVE  /\ chunks[n].index = n - 1
                      /\ chunks[n].to <= words
                      /\ chunks[n].tokenCount = chunks[n].to - chunks[n].from
                      /\ chunks[n].tokenCount \in 1 .. MaxTokens
                      /\ n < Len(chunks) => chunks[n].tokenCount = MaxTokens
    BY DEF ChunksFillTheWindow
  <2>1. chunks \in Seq(Chunk) /\ n \in 1 .. Size /\ chunks[n] \in Chunk /\ MaxTokens \in Nat
    BY StepFacts DEF Inv, TypeOK, Size
  <2>2. n < Len(chunks) => n \in 1 .. Size - 1
    BY <2>1 DEF Size
  <2>3. chunks[n].from \in Nat /\ chunks[n].to \in Nat /\ chunks[n].tokenCount \in Nat
    BY <2>1 DEF Chunk
  <2>4. n < Len(chunks) => chunks[n].to = chunks[n].from + MaxTokens
    BY <2>2 DEF Inv, Links
  <2>5. /\ chunks[n].index = n - 1
        /\ chunks[n].to <= words
        /\ chunks[n].tokenCount = chunks[n].to - chunks[n].from
        /\ chunks[n].from < chunks[n].to
        /\ chunks[n].tokenCount <= MaxTokens
    BY <2>1 DEF Inv, Windows
  <2> QED
    BY <2>1, <2>3, <2>4, <2>5
<1> QED
  BY <1>1, ChunkerInvariant, PTL

(* Neighbouring chunks overlap by exactly what was asked for. *)
THEOREM NeighboursOverlapHolds == Spec => []NeighboursOverlap
<1>1. Inv => NeighboursOverlap
  <2> SUFFICES ASSUME Inv, NEW n \in 1 .. Len(chunks) - 1
               PROVE  /\ chunks[n].to - chunks[n + 1].from = Shared
                      /\ chunks[n].to < chunks[n + 1].to
    BY DEF NeighboursOverlap
  <2>1. n \in 1 .. Size - 1 /\ chunks[n] \in Chunk
    BY DEF Inv, TypeOK, Size
  <2>2. /\ MaxTokens \in Nat /\ step \in Nat /\ Shared = MaxTokens - step
    BY StepFacts DEF Inv
  <2> QED
    BY <2>1, <2>2 DEF Inv, Links, Chunk
<1> QED
  BY <1>1, ChunkerInvariant, PTL

(* A text without words, and no other, gives no chunk: what Store calls Blank. *)
THEOREM OnlyBlankTextHasNoChunk == Spec => [](pc = "done" => (chunks = <<>> <=> words = 0))
<1>1. Inv => (pc = "done" => (chunks = <<>> <=> words = 0))
  <2> SUFFICES ASSUME Inv, pc = "done" PROVE chunks = <<>> <=> words = 0
    OBVIOUS
  <2>1. chunks \in Seq(Chunk) /\ Reached = words
    BY DEF Inv, TypeOK, Position
  <2>2. CASE chunks = <<>>
    BY <2>1, <2>2 DEF Reached, Size
  <2>3. CASE chunks # <<>>
    <3>1. Size \in 1 .. Size /\ chunks[Size] \in Chunk
      BY <2>1, <2>3 DEF Size
    <3> QED
      BY <2>1, <2>3, <3>1 DEF Inv, Windows, Reached, Chunk
  <2> QED
    BY <2>2, <2>3
<1> QED
  BY <1>1, ChunkerInvariant, PTL

(* ChunkText ends because every round leaves less to do: it reaches further   *)
(* into the text, and never beyond its end.                                   *)
THEOREM EveryRoundAdvances ==
    Spec => [][Reached' \in Nat /\ Reached < Reached' /\ Reached' <= words /\ words' = words]_vars
<1>1. Inv /\ Inv' /\ Round =>
        Reached' \in Nat /\ Reached < Reached' /\ Reached' <= words /\ words' = words
  <2> SUFFICES ASSUME Inv, Inv', Round
               PROVE  Reached' \in Nat /\ Reached < Reached' /\ Reached' <= words /\ words' = words
    OBVIOUS
  <2>1. words' = words /\ words \in Nat /\ Size \in Nat
    BY DEF Round, RoundUntil, input, Inv, TypeOK, Size
  <2>2. PICK c : chunks' = Append(chunks, c)
    BY DEF Round, RoundUntil
  <2>3. /\ Size' = Size + 1 /\ chunks' \in Seq(Chunk) /\ chunks \in Seq(Chunk)
        /\ \A n \in 1 .. Size : chunks'[n] = chunks[n]
    BY <2>2 DEF Inv, TypeOK, Size
  <2>4. Reached' = chunks'[Size'].to /\ chunks'[Size'] \in Chunk
    BY <2>1, <2>3 DEF Reached, Size
  <2>5. Reached' \in Nat /\ Reached' <= words /\ Reached' > 0
    <3>1. /\ chunks'[Size'].from < chunks'[Size'].to
          /\ chunks'[Size'].to <= words'
      BY <2>1, <2>3 DEF Inv, Windows
    <3> QED
      BY <2>1, <2>4, <3>1 DEF Chunk
  <2>6. Reached < Reached'
    <3>1. CASE Size = 0
      BY <2>5, <3>1 DEF Reached
    <3>2. CASE Size # 0
      <4>1. Size \in 1 .. Size' - 1
        BY <2>1, <2>3, <3>2
      <4>2. chunks'[Size].to < chunks'[Size + 1].to
        BY <4>1 DEF Inv, Links
      <4>3. chunks'[Size] = chunks[Size]
        BY <2>1, <2>3, <3>2
      <4> QED
        BY <2>3, <2>4, <3>2, <4>2, <4>3 DEF Reached
    <3> QED
      BY <3>1, <3>2
  <2> QED
    BY <2>1, <2>5, <2>6
<1> QED
  BY <1>1, ChunkerInvariant, PTL DEF Spec, Next
================================================================================
