-------------------------------- MODULE Retrieval ------------------------------
(******************************************************************************)
(* The query service over the tables that the ingestion pipeline fills:       *)
(* QueryService with the documents' lifecycle, which Ingestion implements, in *)
(* the place of its Index step.  The two meet in the database alone: TopK     *)
(* joins embeddings, chunks and summaries and does not ask for the status.    *)
(******************************************************************************)
EXTENDS QueryService

CONSTANTS
    MaxCopies,    \* how often the chunks of a document may be stored
    MayCut        \* whether the list a document is analysed from may be cut off

ASSUME RetrievalAssumption == MaxCopies \in Nat /\ MayCut \in BOOLEAN

VARIABLES
    status, chunks, summaries, embeddings,    \* the tables, as in Store
    ready                                     \* when a document was marked ready

rows == <<status, chunks, summaries, embeddings>>

Tables == INSTANCE DocumentLifecycle

\* A variant: an outer join, which finds chunks without a vector.
JoinedLeft(d) == chunks[d] > 0

\* Some row of the document is in the join of embeddings and chunks.
Joined(d) == embeddings[d] # 0 /\ chunks[d] > 0

RetrievalInit == Init /\ Tables!Init /\ ready = [d \in Doc |-> Never]

\* A step of the pipeline, as the tables show it.
IngestionStep ==
    /\ Tables!Next
    /\ indexed' = [d \in Doc |-> IF ~Searchable(d) /\ Joined(d)' THEN now ELSE indexed[d]]
    /\ ready' = [d \in Doc |->
                   IF ready[d] = Never /\ status'[d] = "ready" THEN now ELSE ready[d]]
    /\ UNCHANGED <<now, cache, pc, asked, started, gone, found, reply>>

QueryStep == ServiceNext /\ UNCHANGED <<rows, ready>>

RetrievalNext == IngestionStep \/ QueryStep

RetrievalSpec == RetrievalInit /\ [][RetrievalNext]_<<vars, rows, ready>>

--------------------------------------------------------------------------------
(******************************************************************************)
(* Whatever the search found was analysed: the document has chunk rows, and   *)
(* its summary and its vectors were made from lists of the rows it has to     *)
(* this day, also when it was still processing when it was found.  So an      *)
(* answer rests on whole documents where no list was cut off, and where one   *)
(* may have been, on documents that may be summarised or searchable in part.  *)
(******************************************************************************)
AnswersRestOnAnalysedDocuments ==
    \A r \in Request : reply[r].status = 200 =>
        \A d \in reply[r].answer.found.docs :
            chunks[d] > 0 /\ {summaries[d], embeddings[d]} \subseteq Tables!Lists(d)

(******************************************************************************)
(* A document with words in it that was ready before an answer's search was   *)
(* in the scope of that search: the answer leaves it out only because of what *)
(* its rows say, because of the limit, or because the rows were cut off.      *)
(******************************************************************************)
ReadyIsInScope ==
    \A r \in Request : reply[r].status = 200 =>
        LET answer == reply[r].answer
        IN  \A d \in answer.docs \ answer.found.scope :
              ready[d] < answer.found.at => chunks[d] = 0
================================================================================
