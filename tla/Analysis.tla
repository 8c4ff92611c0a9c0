-------------------------------- MODULE Analysis --------------------------------
(******************************************************************************)
(* cmd/analysis: one action per call that handleAnalyze makes.  The chunk     *)
(* list is read once, at the start, and everything the handler stores later   *)
(* is computed from it: listed[w] is how many sets of chunk rows it holds, or *)
(* Part.                                                                      *)
(******************************************************************************)
EXTENDS Store, TaskQueue

VARIABLE listed

AnalysisLabel ==
    {"listChunks", "summarize", "saveSummary", "getDocument", "embedBatch",
     "saveEmbeddings", "markReady"}
AnalysisPC == {"idle", "down", "retry"} \cup AnalysisLabel

AnalysisInit == listed = [w \in AnalysisWorker |-> 0]

--------------------------------------------------------------------------------
ReceiveAnalyze(w) == Receive(w, "analyze", "listChunks") /\ UNCHANGED <<rows, listed>>

Forget(w) == listed' = [listed EXCEPT ![w] = 0]

\* The call fails and so does the handler, which drops the list it held.
FailCall(w, Write) == StoreError(w, Write) /\ Goto(w, "retry") /\ Forget(w)

ListChunks(w) ==
    /\ pc[w] = "listChunks"
    /\ \/ /\ StoreOK(w, UNCHANGED rows)
          /\ \E list \in ChunkList(task[w].doc) : listed' = [listed EXCEPT ![w] = list]
          /\ Goto(w, "summarize")
       \/ FailCall(w, UNCHANGED rows)
    /\ UNCHANGED <<wire, tries, cancelled>>

\* A call that reads or computes and changes no row: on success, step on.
Compute(w, from, to) ==
    /\ pc[w] = from
    /\ \/ StoreOK(w, UNCHANGED rows) /\ Goto(w, to) /\ UNCHANGED listed
       \/ FailCall(w, UNCHANGED rows)
    /\ UNCHANGED <<wire, tries, cancelled>>

Summarize(w) == Compute(w, "summarize", "saveSummary")
GetDocument(w) == Compute(w, "getDocument", "embedBatch")

StoreSummary(w) ==
    LET Write == SaveSummary(task[w].doc, listed[w])
    IN  /\ pc[w] = "saveSummary"
        /\ \/ StoreOK(w, Write) /\ Goto(w, "getDocument") /\ UNCHANGED listed
           \/ FailCall(w, Write)
        /\ UNCHANGED <<wire, tries, cancelled>>

\* A variant: nothing is embedded before the document is ready.
EmbedBatchSkipped(w) ==
    /\ pc[w] = "embedBatch"
    /\ Goto(w, "markReady")
    /\ UNCHANGED <<listed, errors, rows, wire, tries, cancelled>>

\* EmbedBatch has no context of its caller, and calls nobody for no chunks.
EmbedBatch(w) ==
    /\ pc[w] = "embedBatch"
    /\ \/ Goto(w, "saveEmbeddings") /\ UNCHANGED <<listed, errors>>
       \/ listed[w] # 0 /\ CallError /\ Goto(w, "retry") /\ Forget(w)
    /\ UNCHANGED <<rows, wire, tries, cancelled>>

\* Variants: an error that is not looked at, and a handler that has no more to
\* do when there is nothing to store.
StoreEmbeddingsUnchecked(w) ==
    LET Write == SaveEmbeddings(task[w].doc, listed[w])
    IN  /\ pc[w] = "saveEmbeddings"
        /\ StoreOK(w, Write) \/ StoreError(w, Write)
        /\ Goto(w, "markReady")
        /\ UNCHANGED <<listed, wire, tries, cancelled>>

StoreEmbeddingsOrLeave(w) ==
    LET Write == SaveEmbeddings(task[w].doc, listed[w])
    IN  /\ pc[w] = "saveEmbeddings"
        /\ \/ listed[w] = 0 /\ Release(w, "idle") /\ UNCHANGED <<rows, errors, listed>>
           \/ listed[w] # 0 /\ StoreOK(w, Write) /\ Goto(w, "markReady") /\ UNCHANGED listed
           \/ listed[w] # 0 /\ FailCall(w, Write)
        /\ UNCHANGED <<wire, tries, cancelled>>

\* With no chunks SaveEmbeddings returns before it touches the database.
StoreEmbeddings(w) ==
    LET Write == SaveEmbeddings(task[w].doc, listed[w])
    IN  /\ pc[w] = "saveEmbeddings"
        /\ \/ listed[w] = 0 /\ Goto(w, "markReady") /\ UNCHANGED <<rows, errors, listed>>
           \/ listed[w] # 0 /\ StoreOK(w, Write) /\ Goto(w, "markReady") /\ UNCHANGED listed
           \/ listed[w] # 0 /\ FailCall(w, Write)
        /\ UNCHANGED <<wire, tries, cancelled>>

MarkReady(w) ==
    LET Write == UpdateDocumentStatus(task[w].doc, "ready")
    IN  /\ pc[w] = "markReady"
        /\ \/ StoreOK(w, Write) /\ Release(w, "idle") /\ Forget(w)
           \/ FailCall(w, Write)
        /\ UNCHANGED <<wire, tries, cancelled>>

handleAnalyze(w) ==
    \/ ListChunks(w) \/ Summarize(w) \/ StoreSummary(w) \/ GetDocument(w)
    \/ EmbedBatch(w) \/ StoreEmbeddings(w) \/ MarkReady(w)

AnalysisStep(w) ==
    \/ ReceiveAnalyze(w) \/ handleAnalyze(w)
    \/ retryTask(w) /\ UNCHANGED <<rows, listed>>

AnalysisDisrupted(w) ==
    /\ \/ HealthServerFails(w) /\ UNCHANGED listed
       \/ Stop(w) /\ Forget(w)
       \/ Restart(w) /\ UNCHANGED listed
    /\ UNCHANGED rows
================================================================================
