--------------------------------- MODULE Store ---------------------------------
(******************************************************************************)
(* internal/store: the Postgres tables the services share.  One action per    *)
(* write of the Store interface, each of them one SQL statement or one        *)
(* transaction, hence atomic.                                                 *)
(*                                                                            *)
(* SaveChunks gives every chunk a fresh id, so running it again adds a second *)
(* set of rows: chunks[d] counts how many whole sets of d's rows are in the   *)
(* table.  summaries[d] says how many of these sets the stored summary was    *)
(* made from, or that it was made from Part of the rows; embeddings[d] says   *)
(* the same of the stored vectors.                                            *)
(******************************************************************************)
EXTENDS Integers, Environment

CONSTANT Blank      \* documents without a word: ChunkText returns no chunk

ASSUME BlankAssumption == Blank \subseteq Doc

VARIABLES status, chunks, summaries, embeddings

rows == <<status, chunks, summaries, embeddings>>

DocumentStatus == {"none", "processing", "ready", "failed"}
NoSummary == -1
Part == -2      \* some of a document's chunk rows, and not all of them

StoreInit ==
    /\ status = [d \in Doc |-> "none"]
    /\ chunks = [d \in Doc |-> 0]
    /\ summaries = [d \in Doc |-> NoSummary]
    /\ embeddings = [d \in Doc |-> 0]

--------------------------------------------------------------------------------
(******************************************************************************)
(* The writes.                                                                *)
(******************************************************************************)
CreateDocument(d) ==
    /\ status[d] = "none"
    /\ status' = [status EXCEPT ![d] = "processing"]
    /\ UNCHANGED <<chunks, summaries, embeddings>>

\* The UPDATE has no condition on the old status; it fails when no row matches.
UpdateDocumentStatus(d, s) ==
    /\ status[d] # "none"
    /\ status' = [status EXCEPT ![d] = s]
    /\ UNCHANGED <<chunks, summaries, embeddings>>

SaveChunks(d) ==
    /\ chunks' = IF d \in Blank THEN chunks ELSE [chunks EXCEPT ![d] = @ + 1]
    /\ UNCHANGED <<status, summaries, embeddings>>

\* ON CONFLICT DO UPDATE: one summary per document, the last one written.
SaveSummary(d, n) ==
    /\ summaries' = [summaries EXCEPT ![d] = n]
    /\ UNCHANGED <<status, chunks, embeddings>>

\* The vectors there are when those of n are added to those of old.  Two
\* different parts may make up the whole.
Joint(d, old, n) ==
    CASE n # Part               -> {IF n > old THEN n ELSE old}
      [] n = Part /\ old = 0    -> {Part}
      [] n = Part /\ old = Part -> {Part, chunks[d]}
      [] n = Part /\ old > 0    -> {old}

\* One INSERT for all vectors, ON CONFLICT DO UPDATE for rows already there.
SaveEmbeddings(d, n) ==
    /\ \E e \in Joint(d, embeddings[d], n) : embeddings' = [embeddings EXCEPT ![d] = e]
    /\ UNCHANGED <<status, chunks, summaries>>

--------------------------------------------------------------------------------
(******************************************************************************)
(* How a call ends.  A write whose result is an error may have been executed: *)
(* the connection can break after the commit and before the answer.  A call   *)
(* made under a cancelled context never reaches the database.                 *)
(******************************************************************************)
StoreOK(p, Write) ==
    /\ p \notin cancelled
    /\ Write
    /\ UNCHANGED errors

StoreError(p, Write) ==
    \/ p \in cancelled /\ UNCHANGED <<rows, errors>>
    \/ CallError /\ (Write \/ UNCHANGED rows)

(******************************************************************************)
(* What ListChunks returns without an error.  It ends its loop when Next says *)
(* false and never asks rows.Err, so a list that was cut off passes for the   *)
(* whole one.  (A query that fails before its first row does say so.  A list  *)
(* cut off by a cancelled context is not kept apart from a refused call:      *)
(* every later call of its handler is refused, and nothing comes of it.)      *)
(******************************************************************************)
ChunkList(d) ==
    {chunks[d]} \cup (IF "cut" \in Disruptions /\ chunks[d] > 0 THEN {Part} ELSE {})

(******************************************************************************)
(* A document is complete when its summary was made from every chunk row it   *)
(* has and every chunk row has its vector.                                    *)
(******************************************************************************)
Complete(d) == summaries[d] = chunks[d] /\ embeddings[d] = chunks[d]
================================================================================
