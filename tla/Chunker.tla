-------------------------------- MODULE Chunker --------------------------------
(******************************************************************************)
(* internal/chunker: ChunkText, which cuts a text into windows of words that  *)
(* overlap.  One step is one round of its loop.  A text is the number of its  *)
(* words, and a chunk the positions [from, to) of its words in the text; what *)
(* the words are changes nothing.                                             *)
(******************************************************************************)
EXTENDS Integers, Sequences

CONSTANT Calls    \* texts and Options a caller may pass

Option == [maxTokens : Int, overlap : Int]

ASSUME ChunkerAssumption == Calls \subseteq [words : Nat, opts : Option]

VARIABLES words, opts, start, chunks, pc

input == <<words, opts>>
vars == <<words, opts, start, chunks, pc>>

--------------------------------------------------------------------------------
\* The options as the loop uses them.
MaxTokens == IF opts.maxTokens <= 0 THEN 400 ELSE opts.maxTokens
Overlap == IF opts.overlap < 0 THEN 0 ELSE opts.overlap
\* A step that may be no progress, and a window that may exceed the text.
stepUnchecked == MaxTokens - Overlap
endUnclamped == start + MaxTokens

step == IF MaxTokens - Overlap <= 0 THEN MaxTokens ELSE MaxTokens - Overlap

Init ==
    /\ \E call \in Calls : words = call.words /\ opts = call.opts
    /\ start = 0
    /\ chunks = <<>>
    /\ pc = IF words = 0 THEN "done" ELSE "loop"

end == IF start + MaxTokens > words THEN words ELSE start + MaxTokens

RoundUntil(last) ==
    /\ pc = "loop"
    /\ chunks' = Append(chunks, [index |-> Len(chunks), from |-> start, to |-> end,
                                 tokenCount |-> end - start])
    /\ start' = start + step
    /\ pc' = IF last THEN "done" ELSE "loop"
    /\ UNCHANGED input

\* Variants: one that leaves out a last window, one without the break, one that
\* skips a short window and does not move on.
RoundNoTail == RoundUntil(end = words \/ start + step + MaxTokens > words)
RoundNoBreak == RoundUntil(start + step >= words)
RoundStuck == end - start > Overlap /\ RoundUntil(end = words \/ start + step >= words)

Round == RoundUntil(end = words \/ start + step >= words)

Next == Round

Spec == Init /\ [][Next]_vars
FairSpec == Spec /\ WF_vars(Next)

--------------------------------------------------------------------------------
Chunk == [index : Nat, from : Nat, to : Nat, tokenCount : Nat]

TypeOK ==
    /\ words \in Nat
    /\ opts \in Option
    /\ start \in Nat
    /\ chunks \in Seq(Chunk)
    /\ pc \in {"loop", "done"}

(******************************************************************************)
(* No word is lost: when the loop has ended, every word of the text is in     *)
(* some chunk, whatever the options.                                          *)
(******************************************************************************)
Covered(i) == \E n \in DOMAIN chunks : chunks[n].from <= i /\ i < chunks[n].to

EveryWordInAChunk == pc = "done" => \A i \in 0 .. words - 1 : Covered(i)

(******************************************************************************)
(* Chunks are numbered from 0, lie within the text, are not empty, and are    *)
(* never larger than the limit; only the last one is smaller than it.         *)
(******************************************************************************)
ChunksFillTheWindow ==
    \A n \in DOMAIN chunks :
        /\ chunks[n].index = n - 1
        /\ chunks[n].to <= words
        /\ chunks[n].tokenCount = chunks[n].to - chunks[n].from
        /\ chunks[n].tokenCount \in 1 .. MaxTokens
        /\ n < Len(chunks) => chunks[n].tokenCount = MaxTokens

(******************************************************************************)
(* Neighbouring chunks share exactly Overlap words, or none when the overlap  *)
(* asked for leaves no progress; and no chunk lies inside the one before it,  *)
(* the last one included.                                                     *)
(******************************************************************************)
Shared == IF Overlap < MaxTokens THEN Overlap ELSE 0

NeighboursOverlap ==
    \A n \in 1 .. Len(chunks) - 1 :
        /\ chunks[n].to - chunks[n + 1].from = Shared
        /\ chunks[n].to < chunks[n + 1].to

(******************************************************************************)
(* The loop ends for all options, those that ask for no progress included.    *)
(******************************************************************************)
Terminates == <>(pc = "done")
================================================================================
