--------------------------- MODULE DocumentLifecycle ---------------------------
(******************************************************************************)
(* What the ingestion pipeline promises of a document, to whoever reads the   *)
(* database: no queue, no worker, no retry, no crash.  A document is created, *)
(* its chunk rows are stored, then it is summarised and indexed from a list   *)
(* of them, and only then is it ready; or it fails before anything is stored. *)
(* A list is that of all rows, or, if lists may be cut off, of Part of them.  *)
(* Ready and failed documents do not change again, unless a ready one is      *)
(* summarised or indexed again from another list.                             *)
(******************************************************************************)
EXTENDS Integers

CONSTANTS
    Doc,
    MaxCopies,     \* how often the chunks of a document may be stored
    MayCut         \* a Boolean: whether a list of chunk rows may be cut off

VARIABLES status, chunks, summaries, embeddings

rows == <<status, chunks, summaries, embeddings>>

NoSummary == -1
Part == -2
Pending(d) == status[d] = "processing"
Summarised(d) == summaries[d] # NoSummary

\* What a list of d's chunk rows may hold.
Lists(d) == {chunks[d]} \cup (IF MayCut /\ chunks[d] > 0 THEN {Part} ELSE {})

Init ==
    /\ status = [d \in Doc |-> "none"]
    /\ chunks = [d \in Doc |-> 0]
    /\ summaries = [d \in Doc |-> NoSummary]
    /\ embeddings = [d \in Doc |-> 0]

Create(d) ==
    /\ status[d] = "none"
    /\ status' = [status EXCEPT ![d] = "processing"]
    /\ UNCHANGED <<chunks, summaries, embeddings>>

\* A set of chunk rows is added; the same rows may be stored more than once.
Chunk(d) ==
    /\ Pending(d) /\ ~Summarised(d)
    /\ chunks[d] < MaxCopies
    /\ chunks' = [chunks EXCEPT ![d] = @ + 1]
    /\ UNCHANGED <<status, summaries, embeddings>>

Summarise(d) ==
    /\ status[d] \in {"processing", "ready"}
    /\ \E list \in Lists(d) : summaries' = [summaries EXCEPT ![d] = list]
    /\ UNCHANGED <<status, chunks, embeddings>>

\* Vectors are added until each row has one; then there are none to add.
Index(d) ==
    /\ status[d] \in {"processing", "ready"} /\ Summarised(d)
    /\ embeddings[d] # chunks[d]
    /\ \E list \in Lists(d) : embeddings' = [embeddings EXCEPT ![d] = list]
    /\ UNCHANGED <<status, chunks, summaries>>

Finish(d) ==
    /\ Pending(d) /\ Summarised(d) /\ embeddings[d] \in Lists(d)
    /\ status' = [status EXCEPT ![d] = "ready"]
    /\ UNCHANGED <<chunks, summaries, embeddings>>

Fail(d) ==
    /\ Pending(d) /\ ~Summarised(d) /\ chunks[d] = 0
    /\ status' = [status EXCEPT ![d] = "failed"]
    /\ UNCHANGED <<chunks, summaries, embeddings>>

Next ==
    \E d \in Doc :
        Create(d) \/ Chunk(d) \/ Summarise(d) \/ Index(d) \/ Finish(d) \/ Fail(d)

Spec == Init /\ [][Next]_rows
================================================================================
