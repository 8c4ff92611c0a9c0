-------------------------------- MODULE Gateway --------------------------------
(******************************************************************************)
(* cmd/gateway: the upload handler, one action per call it makes, and what a  *)
(* GET of the summary returns.                                                *)
(*                                                                            *)
(* upload[d] is where the request that creates document d stands:             *)
(*   "validate" .. "respond", "respondError"   the next thing its handler     *)
(*                             does,                                          *)
(*   "accepted"                it was answered 202,                           *)
(*   "rejected", "errored"     it was answered 400, 500,                      *)
(*   "crashed"                 the gateway died before it answered.           *)
(******************************************************************************)
EXTENDS Store, TaskQueue

VARIABLE upload

Handling == {"create", "enqueue", "markFailed", "respond", "respondError"}
Answered == {"accepted", "rejected", "errored"}
UploadState == {"validate", "crashed"} \cup Handling \cup Answered

GatewayInit == upload = [d \in Doc |-> "validate"]

--------------------------------------------------------------------------------
Continue(d, step) ==
    /\ upload' = [upload EXCEPT ![d] = step]
    /\ UNCHANGED cancelled

\* The handler returns; net/http then cancels the request's context.
Return(d, answer) ==
    /\ upload' = [upload EXCEPT ![d] = answer]
    /\ cancelled' = cancelled \cup {d}

\* FormFile, validateUploadedFile and reading the body: bad input ends here,
\* and so does a file that cannot be read.
Validate(d) ==
    /\ upload[d] = "validate"
    /\ Continue(d, "create") \/ Return(d, "rejected") \/ Return(d, "errored")
    /\ UNCHANGED <<rows, queue, errors>>

\* After an error the handler knows no document id and marks nothing.
Create(d) ==
    /\ upload[d] = "create"
    /\ \/ StoreOK(d, CreateDocument(d)) /\ Continue(d, "enqueue")
       \/ StoreError(d, CreateDocument(d)) /\ Continue(d, "respondError")
    /\ UNCHANGED queue

\* A variant: a task that was published after all, in a request taken to fail.
EnqueueParseUncertain(d) ==
    /\ upload[d] = "enqueue"
    /\ \/ EnqueueOK(d, NewTask("parse", d)) /\ Continue(d, "respond")
       \/ EnqueueOK(d, NewTask("parse", d)) /\ Continue(d, "markFailed")
       \/ EnqueueAgain(d) /\ Continue(d, "enqueue")
       \/ EnqueueGivesUp(d) /\ Continue(d, "markFailed")
    /\ UNCHANGED <<rows, pc, task>>

EnqueueParse(d) ==
    /\ upload[d] = "enqueue"
    /\ \/ EnqueueOK(d, NewTask("parse", d)) /\ Continue(d, "respond")
       \/ EnqueueAgain(d) /\ Continue(d, "enqueue")
       \/ EnqueueGivesUp(d) /\ Continue(d, "markFailed")
    /\ UNCHANGED <<rows, pc, task>>

\* fail: runs under the request's context, and its own error is only logged.
MarkFailed(d) ==
    /\ upload[d] = "markFailed"
    /\ \/ StoreOK(d, UpdateDocumentStatus(d, "failed"))
       \/ StoreError(d, UpdateDocumentStatus(d, "failed"))
    /\ Continue(d, "respondError")
    /\ UNCHANGED queue

Respond(d) ==
    /\ upload[d] = "respond"
    /\ Return(d, "accepted")
    /\ UNCHANGED <<rows, queue, errors>>

\* httputil.Fail, after whatever has been marked.
RespondError(d) ==
    /\ upload[d] = "respondError"
    /\ Return(d, "errored")
    /\ UNCHANGED <<rows, queue, errors>>

uploadHandler(d) ==
    \/ Validate(d) \/ Create(d) \/ EnqueueParse(d) \/ MarkFailed(d)
    \/ Respond(d) \/ RespondError(d)

--------------------------------------------------------------------------------
\* The client goes away, or the router's 60 second timeout fires.
ClientGone(d) ==
    /\ upload[d] \in Handling
    /\ Cancel(d)
    /\ UNCHANGED <<rows, queue, upload>>

\* The gateway is one process: every request it was handling dies with it.
GatewayCrash ==
    /\ "crash" \in Disruptions
    /\ \E d \in Doc : upload[d] \in Handling
    /\ upload' = [d \in Doc |-> IF upload[d] \in Handling THEN "crashed" ELSE upload[d]]
    /\ cancelled' = cancelled \cup {d \in Doc : upload[d] \in Handling}
    /\ tries' = [p \in Caller |-> IF p \in Doc THEN 0 ELSE tries[p]]
    /\ UNCHANGED <<rows, wire, pc, task, errors>>

--------------------------------------------------------------------------------
\* GET .../summary answers 200 as soon as a summary row is there, whatever the
\* document's status, and 404 before.
summaryHandler(d) == IF summaries[d] # NoSummary THEN 200 ELSE 404
================================================================================
