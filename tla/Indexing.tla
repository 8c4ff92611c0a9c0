-------------------------------- MODULE Indexing -------------------------------
(******************************************************************************)
(* How a document's words get from the chunker into the vector search: the    *)
(* parser cuts the text and stores the chunks as rows, once in each of its    *)
(* attempts; the analysis lists the rows in whatever order the database       *)
(* returns them, and perhaps not all of them, embeds their texts in one       *)
(* batch, and stores the vectors under the ids of the rows.  The only link    *)
(* between a row and its vector is a position in these lists.                 *)
(******************************************************************************)
EXTENDS Chunker, SequencesExt

CONSTANTS
    ControlWords,    \* positions in the text where a word may be all control characters
    MaxAttempts,     \* how often the parser may run before its task is given up
    MaxRows          \* bound on the rows of a document that is stored

VARIABLES
    control,    \* the words of the text that consist of control characters only
    stored,     \* the chunk rows: <<copy, n>> is the copy-th row of chunk n
    listed,     \* what ListChunks returned to the running handler
    vectors,    \* the rows of the embeddings table, by chunk row
    stage       \* what the document's workers do next

rows == <<stored, listed, vectors, stage>>
indexing == <<vars, control, rows>>

Prefix == -1    \* a word of the prefix "Document: <name>"
Embedder == INSTANCE Embeddings WITH Control <- control

IndexingInit ==
    /\ Init
    /\ control \in SUBSET (ControlWords \cap 0 .. words - 1)
    /\ stored = {} /\ listed = <<>> /\ vectors = <<>> /\ stage = "parse"

Text(row) == chunks[row[2]].from .. chunks[row[2]].to - 1

--------------------------------------------------------------------------------
Chunking == Next /\ UNCHANGED <<control, rows>>

Copies == {row[1] : row \in stored}

\* Every run of the parser stores all chunks under new ids.  It may fail after
\* that, and run again until its attempts are used up.
SaveChunks ==
    /\ pc = "done" /\ stage = "parse"
    /\ Cardinality(Copies) < MaxAttempts
    /\ Cardinality(stored) + Len(chunks) <= MaxRows
    /\ stored' = stored \cup {<<Cardinality(Copies) + 1, n>> : n \in DOMAIN chunks}
    /\ stage' \in {"parse", "list"}
    /\ UNCHANGED <<vars, control, listed, vectors>>

\* The query has no ORDER BY, and a list that was cut off after some of its rows
\* passes for the whole one, for the loop that reads them never asks rows.Err.
ListChunks ==
    /\ stage = "list"
    /\ \E part \in SUBSET stored :
         /\ stored # {} => part # {}
         /\ listed' \in SetToSeqs(part)
    /\ stage' = "embed"
    /\ UNCHANGED <<vars, control, stored, vectors>>

\* Variants: the texts as they are, and vectors stored in the order of the rows.
TextsBare == [i \in DOMAIN listed |-> Text(listed[i])]
StoreByNumber(batch) ==
    LET Number(row) == (row[1] - 1) * Len(chunks) + row[2]
        UpTo(row) == {other \in ToSet(listed) : Number(other) <= Number(row)}
    IN  [row \in ToSet(listed) |-> batch[Cardinality(UpTo(row))]] @@ vectors

\* handleAnalyze puts the document's name before each text.
Texts == [i \in DOMAIN listed |-> {Prefix} \cup Text(listed[i])]

\* ON CONFLICT DO UPDATE.
Store(batch) ==
    [row \in ToSet(listed) \cup DOMAIN vectors |->
        IF row \in ToSet(listed)
          THEN batch[CHOOSE i \in DOMAIN listed : listed[i] = row]
          ELSE vectors[row]]

\* The i-th vector is taken for the i-th listed row; a batch that is too short
\* is an index out of range.  The handler may fail on either side of the write,
\* and runs again, with a new list.
EmbedAndSave ==
    LET batch == Embedder!EmbedBatch(Texts)
    IN  /\ stage = "embed"
        /\ IF Len(batch) < Len(listed)
             THEN stage' = "panic" /\ UNCHANGED <<listed, vectors>>
             ELSE \/ vectors' = Store(batch) /\ stage' = "ready" /\ UNCHANGED listed
                  \/ /\ vectors' \in {vectors, Store(batch)}
                     /\ stage' = "list" /\ listed' = <<>>
        /\ UNCHANGED <<vars, control, stored>>

IndexingNext == Chunking \/ SaveChunks \/ ListChunks \/ EmbedAndSave

IndexingSpec == IndexingInit /\ [][IndexingNext]_indexing

\* The chunker's loop runs on.
IndexingFairSpec == IndexingSpec /\ WF_indexing(Chunking)

--------------------------------------------------------------------------------
(******************************************************************************)
(* The vector of a row is that of its own text, in whatever order the rows    *)
(* were listed in this run of the handler or an earlier one, however often    *)
(* they were stored, and whatever the texts consist of.                       *)
(******************************************************************************)
VectorsBelongToTheirRows ==
    \A row \in DOMAIN vectors :
        row \in stored /\ vectors[row] = ({Prefix} \cup Text(row)) \ control

(******************************************************************************)
(* The handler survives every text, though EmbedBatch leaves out those with   *)
(* nothing in them, and every list, though it may be cut off.  A document     *)
(* that was made ready from a list of all its rows can be found by each of    *)
(* its words that is not made of control characters.                          *)
(******************************************************************************)
EveryWordSearchable ==
    /\ stage # "panic"
    /\ stage = "ready" /\ ToSet(listed) = stored =>
         \A word \in (0 .. words - 1) \ control : \E row \in DOMAIN vectors : word \in vectors[row]
================================================================================
