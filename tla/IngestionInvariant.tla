-------------------------- MODULE IngestionInvariant ---------------------------
(******************************************************************************)
(* The inductive invariant of Ingestion.                                      *)
(*                                                                            *)
(* The safety properties are not inductive: what makes them so is where the   *)
(* one task of a document can be (Custody), and what the rows of a document   *)
(* look like at each of these places (DocOK).                                 *)
(******************************************************************************)
EXTENDS Ingestion

\* No answer of the database is cut off.
ReadsWhole == "cut" \notin Disruptions

BusyPC(w) == pc[w] \notin {"idle", "down"}

\* A worker handles tasks of its own type, and holds one exactly while busy.
TaskOK ==
    /\ \A w \in Worker : task[w] # NoTask <=> BusyPC(w)
    /\ \A w \in ParserWorker : task[w] # NoTask => task[w].type = "parse"
    /\ \A w \in AnalysisWorker : task[w] # NoTask => task[w].type = "analyze"
    /\ \A w \in Worker : task[w] # NoTask => task[w].attempts < MaxAttempts
    /\ \A t \in Tasks : t.attempts < MaxAttempts

OneCopy == \A t \in Tasks : wire[t] = 1
OneTask == \A t, u \in Tasks : t.doc = u.doc => t = u
OneWorker ==
    \A v, w \in Worker :
        task[v] # NoTask /\ task[w] # NoTask /\ task[v].doc = task[w].doc => v = w
WireOrWorker ==
    \A w \in Worker, t \in Tasks : task[w] # NoTask => task[w].doc # t.doc

Custody == OneCopy /\ OneTask /\ OneWorker /\ WireOrWorker

--------------------------------------------------------------------------------
(******************************************************************************)
(* What is true of document d, by where its task is.                          *)
(******************************************************************************)
Published == {"respond", "accepted", "crashed"}

Untouched(d) == chunks[d] = 0 /\ summaries[d] = NoSummary /\ embeddings[d] = 0
Summed(d) == summaries[d] \in ChunkList(d)
Indexed(d) == embeddings[d] \in ChunkList(d)

\* Before its parse task is published nothing is stored for a document.
UploadOK(d) ==
    /\ upload[d] \notin Published => ~InFlight(d) /\ Untouched(d)
    /\ upload[d] \in {"validate", "create"} => status[d] = "none"
    /\ upload[d] \in {"enqueue", "markFailed"} => status[d] = "processing"
    /\ status[d] = "failed" =>
         upload[d] \in {"respondError", "errored", "crashed"} /\ ~InFlight(d) /\ Untouched(d)

\* Until its parsing is over only chunk rows are stored, at most one set of them
\* in each attempt; then no chunk row is.
ParsePhase(d) ==
    /\ upload[d] \in Published
    /\ status[d] = "processing"
    /\ summaries[d] = NoSummary
    /\ embeddings[d] = 0

AnalysisPhase(d) == upload[d] \in Published /\ status[d] \in {"processing", "ready"}

WireOK(d) ==
    \A t \in Tasks : t.doc = d =>
        /\ t.type = "parse" => ParsePhase(d) /\ chunks[d] <= t.attempts
        /\ t.type = "analyze" => AnalysisPhase(d)

ParserOK(d) ==
    \A w \in ParserWorker : Busy(w, d) =>
        /\ ParsePhase(d)
        /\ pc[w] = "saveChunks" => chunks[d] <= task[w].attempts
        /\ chunks[d] <= task[w].attempts + 1

\* The analysis holds, and has stored, what is made of a list of the chunk rows,
\* which are all there by then.
AnalysisOK(d) ==
    \A w \in AnalysisWorker : Busy(w, d) =>
        /\ AnalysisPhase(d)
        /\ pc[w] \in AnalysisLabel \ {"listChunks"} => listed[w] \in ChunkList(d)
        /\ pc[w] \in {"getDocument", "embedBatch", "saveEmbeddings", "markReady"} => Summed(d)
        /\ pc[w] = "markReady" => Indexed(d)

\* The rows of a document, whoever works on it.
RowsOK(d) ==
    /\ chunks[d] <= MaxAttempts
    /\ Summed(d) \/ (summaries[d] = NoSummary /\ embeddings[d] = 0)
    /\ Indexed(d) \/ embeddings[d] = 0
    /\ status[d] = "ready" => Summed(d) /\ Indexed(d)

DocOK(d) == UploadOK(d) /\ WireOK(d) /\ ParserOK(d) /\ AnalysisOK(d) /\ RowsOK(d)

--------------------------------------------------------------------------------
TypeInv == TypeOK /\ TaskOK

IInv == TypeInv /\ Custody /\ \A d \in Doc : DocOK(d)
================================================================================
