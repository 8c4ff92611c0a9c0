------------------------------- MODULE Ingestion -------------------------------
(******************************************************************************)
(* The ingestion pipeline: gateway, parser and analysis workers, joined by    *)
(* the task queue and the store.                                              *)
(******************************************************************************)
EXTENDS Gateway, Parser, Analysis

vars == <<env, rows, queue, upload, listed>>

Init ==
    /\ EnvInit
    /\ StoreInit
    /\ QueueInit
    /\ GatewayInit
    /\ AnalysisInit

GatewayNext ==
    /\ \/ \E d \in Doc : uploadHandler(d) \/ ClientGone(d)
       \/ GatewayCrash
    /\ UNCHANGED listed

ParserNext ==
    /\ \E w \in ParserWorker : ParserStep(w) \/ ParserDisrupted(w)
    /\ UNCHANGED <<upload, listed>>

AnalysisNext ==
    /\ \E w \in AnalysisWorker : AnalysisStep(w) \/ AnalysisDisrupted(w)
    /\ UNCHANGED upload

NetworkNext ==
    /\ \E t \in Tasks : Lose(t)
    /\ UNCHANGED <<rows, upload, listed>>

Next == GatewayNext \/ ParserNext \/ AnalysisNext \/ NetworkNext

Spec == Init /\ [][Next]_vars

(******************************************************************************)
(* Fairness.  A handler that can take its next step takes it, and an idle     *)
(* worker receives a message that waits for its group: goroutines are         *)
(* scheduled, every call returns or times out.  Nothing is assumed of the     *)
(* outcome of a call, of a user, or of a disruption.                          *)
(******************************************************************************)
Fairness ==
    /\ \A d \in Doc : WF_vars(uploadHandler(d) /\ UNCHANGED listed)
    /\ \A w \in ParserWorker : WF_vars(ParserStep(w) /\ UNCHANGED <<upload, listed>>)
    /\ \A w \in AnalysisWorker : WF_vars(AnalysisStep(w) /\ UNCHANGED upload)

FairSpec == Spec /\ Fairness

--------------------------------------------------------------------------------
TypeOK ==
    /\ errors \in 0 .. MaxErrors
    /\ cancelled \subseteq Caller
    /\ status \in [Doc -> DocumentStatus]
    /\ chunks \in [Doc -> Nat]
    /\ summaries \in [Doc -> Nat \cup {NoSummary, Part}]
    /\ embeddings \in [Doc -> Nat \cup {Part}]
    /\ IsABag(wire) /\ Tasks \subseteq Task
    /\ pc \in [Worker -> ParserPC \cup AnalysisPC]
    /\ \A w \in ParserWorker : pc[w] \in ParserPC
    /\ \A w \in AnalysisWorker : pc[w] \in AnalysisPC
    /\ task \in [Worker -> Task \cup {NoTask}]
    /\ tries \in [Caller -> 0 .. EnqueueAttempts - 1]
    /\ upload \in [Doc -> UploadState]
    /\ listed \in [AnalysisWorker -> Nat \cup {Part}]

--------------------------------------------------------------------------------
(******************************************************************************)
(* Work on a document is in one place at a time: one copy of one task on the  *)
(* wire, or one worker, or the gateway that has not published it yet.  At     *)
(* most once delivery and the publish-then-return of handleParse and          *)
(* retryTask keep it so; all that follows rests on it.                        *)
(******************************************************************************)
SingleCustody ==
    \A d \in Doc :
        /\ \A t \in Tasks : t.doc = d => wire[t] = 1
        /\ \A t, u \in Tasks : t.doc = d /\ u.doc = d => t = u
        /\ \A w, v \in Worker : Busy(w, d) /\ Busy(v, d) => w = v
        /\ \A w \in Worker, t \in Tasks : ~(Busy(w, d) /\ t.doc = d)
        /\ upload[d] \notin {"respond", "accepted", "crashed"} => ~InFlight(d)

(******************************************************************************)
(* A document shown as ready has a summary of all of its chunk rows and a     *)
(* vector for each, however often its tasks were retried, whoever crashed,    *)
(* and whichever failed write was executed after all.  This, and the next     *)
(* property, hold as long as no answer of the database is cut off:            *)
(* EveryChunkEmbedded says what that does.                                    *)
(******************************************************************************)
ReadyIsComplete == \A d \in Doc : status[d] = "ready" => Complete(d)

(******************************************************************************)
(* The summary endpoint does not ask whether the document is ready; still, a  *)
(* summary it serves was made from every chunk row there is.                  *)
(******************************************************************************)
ServedSummaryIsComplete ==
    \A d \in Doc : summaryHandler(d) = 200 => summaries[d] = chunks[d]

(******************************************************************************)
(* A document marked failed has nothing stored, nobody works on it, and its   *)
(* upload is not answered with an acceptance: the answer is an error, or none *)
(* if the gateway dies after it marked the document.                          *)
(******************************************************************************)
FailedIsInert ==
    \A d \in Doc : status[d] = "failed" =>
        /\ ~InFlight(d)
        /\ chunks[d] = 0 /\ summaries[d] = NoSummary /\ embeddings[d] = 0
        /\ upload[d] \notin {"respond", "accepted"}

(******************************************************************************)
(* Each run of a parse task stores at most one set of chunk rows, and there   *)
(* are at most MaxAttempts runs: retries duplicate rows, but not without end. *)
(******************************************************************************)
ChunkCopiesBounded == \A d \in Doc : chunks[d] <= MaxAttempts

(******************************************************************************)
(* Ready and failed are final: UpdateDocumentStatus would overwrite any       *)
(* status, but no run of a handler, and no retry of one, gets to do so.       *)
(******************************************************************************)
StatusIsFinal ==
    [][\A d \in Doc : status[d] \in {"ready", "failed"} => status'[d] = status[d]]_vars
(******************************************************************************)
(* Once a document's analysis is asked for, its chunk rows never change: no   *)
(* parser is left that could add some behind the back of the analysis.        *)
(******************************************************************************)
AnalysisAsked(d) ==
    \/ summaries[d] # NoSummary
    \/ \E t \in Tasks : t.doc = d /\ t.type = "analyze"
    \/ \E w \in AnalysisWorker : Busy(w, d)

ChunksFrozenOnceAnalysed ==
    [][\A d \in Doc : AnalysisAsked(d) => chunks'[d] = chunks[d]]_vars

(******************************************************************************)
(* All of it together: seen from the database, gateway, workers, queue and    *)
(* retries go through the documents' lifecycle and nothing else.              *)
(******************************************************************************)
Lifecycle == INSTANCE DocumentLifecycle
                 WITH MaxCopies <- MaxAttempts, MayCut <- ("cut" \in Disruptions)

ImplementsLifecycle == Lifecycle!Spec

--------------------------------------------------------------------------------
(******************************************************************************)
(* One failed call, of whatever kind, costs no document: an accepted document *)
(* is ready or still worked on.  (Two can: a handler that fails, and then the *)
(* publish of its retry.)                                                     *)
(******************************************************************************)
SingleErrorTolerated ==
    \A d \in Doc :
        errors <= 1 /\ upload[d] \in {"respond", "accepted"}
            => status[d] = "ready" \/ InFlight(d)

(******************************************************************************)
(* And as long as at most one call has failed, every accepted document        *)
(* becomes ready, whoever hangs up.                                           *)
(******************************************************************************)
AcceptedBecomesReady ==
    [](errors <= 1) => \A d \in Doc : upload[d] = "accepted" ~> status[d] = "ready"

(******************************************************************************)
(* Retrying ends, even if every call fails for ever: work on a document comes *)
(* to rest.                                                                   *)
(******************************************************************************)
WorkEnds == \A d \in Doc : <>[]~InFlight(d)

(******************************************************************************)
(* Every upload is answered, whatever fails or is cancelled meanwhile.        *)
(******************************************************************************)
UploadIsAnswered ==
    \A d \in Doc : upload[d] \in Handling ~> upload[d] \in Answered

--------------------------------------------------------------------------------
(******************************************************************************)
(* What the documentation says, and the code does not keep.                   *)
(******************************************************************************)

(******************************************************************************)
(* README.md:158 has a task tried at most three times; retryTask allows five. *)
(******************************************************************************)
AtMostThreeAttempts ==
    \A w \in Worker : task[w] # NoTask => task[w].attempts < 3

(******************************************************************************)
(* README.md:158 also has such a task marked as failed; the code only logs,   *)
(* and the document keeps the status processing.                              *)
(******************************************************************************)
GivenUpIsMarkedFailed ==
    [][\A w \in Worker :
        pc[w] = "retry" /\ pc'[w] = "idle" /\ task[w].attempts + 1 = MaxAttempts
            => status'[task[w].doc] = "failed"]_vars

(******************************************************************************)
(* README.md:127: the embeddings that make a document ready are of all of its *)
(* chunks.  ListChunks takes an answer that was cut off for the whole one.    *)
(******************************************************************************)
EveryChunkEmbedded == \A d \in Doc : status[d] = "ready" => embeddings[d] = chunks[d]

(******************************************************************************)
(* README.md:434: a task is not lost when the agent that holds it crashes.    *)
(******************************************************************************)
CrashLosesNoTask ==
    \A d \in Doc : upload[d] = "accepted" => InFlight(d) \/ status[d] = "ready"

(******************************************************************************)
(* cmd/gateway/main_test.go:120: a failed enqueue leaves the document marked  *)
(* failed.  Under a cancelled request context it does not.                    *)
(******************************************************************************)
EnqueueFailureMarksFailed ==
    [][\A d \in Doc :
        upload[d] = "markFailed" /\ upload'[d] = "respondError"
            => status'[d] = "failed"]_vars
================================================================================
