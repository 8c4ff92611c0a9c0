--------------------------------- MODULE Parser ---------------------------------
(******************************************************************************)
(* cmd/parser: one action per call that handleParse makes.  The chunks it     *)
(* saves are those of module Chunker; here they are one set of rows.          *)
(******************************************************************************)
EXTENDS Store, TaskQueue

ParserPC == {"idle", "down", "retry", "saveChunks", "enqueue"}

ReceiveParse(w) == Receive(w, "parse", "saveChunks") /\ UNCHANGED rows

\* ChunkText cannot fail; its result is written in one transaction.
StoreChunks(w) ==
    LET d == task[w].doc
    IN  /\ pc[w] = "saveChunks"
        /\ \/ StoreOK(w, SaveChunks(d)) /\ Goto(w, "enqueue")
           \/ StoreError(w, SaveChunks(d)) /\ Goto(w, "retry")
        /\ UNCHANGED <<wire, tries, cancelled>>

\* A variant: the task was published, but the handler fails and runs again.
EnqueueAnalyzeTwice(w) ==
    /\ pc[w] = "enqueue"
    /\ \E label \in {"idle", "retry"} :
         /\ EnqueueOK(w, NewTask("analyze", task[w].doc))
         /\ IF label = "idle" THEN Release(w, label) ELSE Goto(w, label)
    /\ UNCHANGED <<rows, cancelled>>

\* A publish that is given up fails the handler, after the chunks were saved.
EnqueueAnalyze(w) ==
    /\ pc[w] = "enqueue"
    /\ \/ EnqueueOK(w, NewTask("analyze", task[w].doc)) /\ Release(w, "idle")
       \/ EnqueueAgain(w) /\ Goto(w, "enqueue")
       \/ EnqueueGivesUp(w) /\ Goto(w, "retry")
    /\ UNCHANGED <<rows, cancelled>>

handleParse(w) == StoreChunks(w) \/ EnqueueAnalyze(w)

ParserStep(w) == ReceiveParse(w) \/ handleParse(w) \/ (retryTask(w) /\ UNCHANGED rows)

ParserDisrupted(w) == (HealthServerFails(w) \/ Stop(w) \/ Restart(w)) /\ UNCHANGED rows
================================================================================
