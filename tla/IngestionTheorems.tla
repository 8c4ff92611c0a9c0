--------------------------- MODULE IngestionTheorems ---------------------------
(******************************************************************************)
(* What the invariant of IngestionProofs gives: the safety properties of the  *)
(* ingestion pipeline, and that it implements DocumentLifecycle.              *)
(******************************************************************************)
EXTENDS IngestionProofs

USE EnvironmentAssumption, BlankAssumption, AttemptsAssumption, NoTaskAssumption

--------------------------------------------------------------------------------
(******************************************************************************)
(* Invariants.                                                                *)
(******************************************************************************)

(* The work on a document is in one place at a time: SingleCustody holds. *)
THEOREM SingleCustodyHolds == Spec => []SingleCustody
<1>1. IInv => SingleCustody
  <2> SUFFICES ASSUME IInv, NEW d \in Doc
               PROVE  /\ \A t \in Tasks : t.doc = d => wire[t] = 1
                      /\ \A t, u \in Tasks : t.doc = d /\ u.doc = d => t = u
                      /\ \A w, v \in Worker : Busy(w, d) /\ Busy(v, d) => w = v
                      /\ \A w \in Worker, t \in Tasks : ~(Busy(w, d) /\ t.doc = d)
                      /\ upload[d] \notin Published => ~InFlight(d)
    BY DEF SingleCustody, Published
  <2>1. \A t \in Tasks : t.doc = d => wire[t] = 1
    BY DEF IInv, Custody, OneCopy
  <2>2. \A t, u \in Tasks : t.doc = d /\ u.doc = d => t = u
    BY DEF IInv, Custody, OneTask
  <2>3. \A w, v \in Worker : Busy(w, d) /\ Busy(v, d) => w = v
    BY DEF IInv, Custody, OneWorker, Busy
  <2>4. \A w \in Worker, t \in Tasks : ~(Busy(w, d) /\ t.doc = d)
    BY DEF IInv, Custody, WireOrWorker, Busy
  <2>5. upload[d] \notin Published => ~InFlight(d)
    BY DEF IInv, DocOK, UploadOK
  <2> QED
    BY <2>1, <2>2, <2>3, <2>4, <2>5
<1> QED
  BY <1>1, InvariantHolds, PTL

(* A ready document has a summary and vectors of all of its chunk rows, as    *)
(* long as no list of them is cut off.                                        *)
THEOREM ReadyIsCompleteHolds ==
    ASSUME ReadsWhole PROVE Spec => []ReadyIsComplete
<1>1. IInv => ReadyIsComplete
  BY DEF IInv, DocOK, RowsOK, Summed, Indexed, ChunkList, ReadsWhole, Complete, ReadyIsComplete
<1> QED
  BY <1>1, InvariantHolds, PTL

(* And so has a summary that is served, ready or not. *)
THEOREM ServedSummaryIsCompleteHolds ==
    ASSUME ReadsWhole PROVE Spec => []ServedSummaryIsComplete
<1>1. IInv => ServedSummaryIsComplete
  BY DEF IInv, DocOK, RowsOK, Summed, ChunkList, ReadsWhole, ServedSummaryIsComplete,
    summaryHandler
<1> QED
  BY <1>1, InvariantHolds, PTL

(* A failed document has nothing stored and nobody working on it, and nobody  *)
(* is told that it was accepted, also when the gateway dies before it says    *)
(* that it was not.                                                           *)
THEOREM FailedIsInertHolds == Spec => []FailedIsInert
<1>1. IInv => FailedIsInert
  BY DEF IInv, DocOK, UploadOK, Published, Untouched, FailedIsInert
<1> QED
  BY <1>1, InvariantHolds, PTL

(* Retries store at most MaxAttempts copies of a document's chunk rows. *)
THEOREM ChunkCopiesBoundedHolds == Spec => []ChunkCopiesBounded
<1>1. IInv => ChunkCopiesBounded
  BY DEF IInv, DocOK, RowsOK, ChunkCopiesBounded
<1> QED
  BY <1>1, InvariantHolds, PTL

--------------------------------------------------------------------------------
(******************************************************************************)
(* How rows change.                                                           *)
(******************************************************************************)
RowChange ==
    \/ UNCHANGED rows
    \/ \E d \in Doc : CreateDocument(d)
    \/ \E d \in Doc : upload[d] = "markFailed" /\ UpdateDocumentStatus(d, "failed")
    \/ \E w \in ParserWorker : pc[w] = "saveChunks" /\ SaveChunks(task[w].doc)
    \/ \E w \in AnalysisWorker : pc[w] = "saveSummary" /\ SaveSummary(task[w].doc, listed[w])
    \/ \E w \in AnalysisWorker : pc[w] = "saveEmbeddings" /\ SaveEmbeddings(task[w].doc, listed[w])
    \/ \E w \in AnalysisWorker : pc[w] = "markReady" /\ UpdateDocumentStatus(task[w].doc, "ready")

(* A step changes the rows by one of the six writes of the store, or not. *)
LEMMA RowChanges == [Next]_vars => RowChange
<1> USE DEF RowChange
<1>1. CASE GatewayNext
  BY <1>1 DEF GatewayNext, uploadHandler, Validate, Create, EnqueueParse, MarkFailed, Respond,
    RespondError, ClientGone, GatewayCrash, StoreOK, StoreError
<1>2. CASE ParserNext
  BY <1>2 DEF ParserNext, ParserStep, ParserDisrupted, ReceiveParse, handleParse, StoreChunks,
    EnqueueAnalyze, StoreOK, StoreError
<1>3. CASE AnalysisNext
  <2> SUFFICES ASSUME NEW w \in AnalysisWorker, AnalysisStep(w) \/ AnalysisDisrupted(w)
               PROVE  RowChange
    BY <1>3 DEF AnalysisNext
  <2>1. CASE handleAnalyze(w)
    BY <2>1 DEF handleAnalyze, ListChunks, Summarize, StoreSummary, GetDocument, Compute,
      EmbedBatch, StoreEmbeddings, MarkReady, StoreOK, StoreError, FailCall
  <2> QED
    BY <2>1 DEF AnalysisStep, AnalysisDisrupted, ReceiveAnalyze
<1>4. CASE NetworkNext
  BY <1>4 DEF NetworkNext
<1>5. CASE UNCHANGED vars
  BY <1>5 DEF vars
<1> QED
  BY <1>1, <1>2, <1>3, <1>4, <1>5 DEF Next

(* The lifecycle's lists are those that ListChunks returns. *)
LEMMA ListsFacts ==
    ASSUME TypeOK, NEW d \in Doc
    PROVE  Lifecycle!Lists(d) = ChunkList(d) /\ NoSummary \notin ChunkList(d)
BY DEF TypeOK, Lifecycle!Lists, Lifecycle!Part, ChunkList, Part, NoSummary

(* Seen from the database, a step of the pipeline is a step of the lifecycle. *)
LEMMA LifecycleStep == IInv /\ [Next]_vars => [Lifecycle!Next]_rows
<1> SUFFICES ASSUME IInv, RowChange PROVE [Lifecycle!Next]_rows
  BY RowChanges
<1> USE DEF IInv, TypeInv, TypeOK, NoSummary, Lifecycle!NoSummary, Lifecycle!Pending,
      Lifecycle!Summarised
<1>1. ASSUME NEW d \in Doc, CreateDocument(d) PROVE Lifecycle!Create(d)
  BY <1>1 DEF CreateDocument, Lifecycle!Create
<1>2. ASSUME NEW d \in Doc, upload[d] = "markFailed", UpdateDocumentStatus(d, "failed")
      PROVE  Lifecycle!Fail(d)
  BY <1>2 DEF UpdateDocumentStatus, DocOK, UploadOK, Published, Untouched, Lifecycle!Fail
<1>3. ASSUME NEW w \in ParserWorker, pc[w] = "saveChunks", SaveChunks(task[w].doc)
      PROVE  UNCHANGED rows \/ \E d \in Doc : Lifecycle!Chunk(d)
  <2>1. w \in Worker /\ task[w] # NoTask
    BY <1>3 DEF Worker, TaskOK, BusyPC
  <2>2. PICK d \in Doc : task[w].doc = d /\ Busy(w, d) /\ DocOK(d)
    BY <2>1, Knows
  <2>3. ParsePhase(d) /\ chunks[d] <= task[w].attempts
    BY <1>3, <2>2 DEF DocOK, ParserOK
  <2>4. chunks[d] < MaxAttempts
    BY <2>1, <2>3 DEF TaskOK, Task
  <2> QED
    BY <1>3, <2>2, <2>3, <2>4 DEF SaveChunks, ParsePhase, Lifecycle!Chunk, rows
<1>4. ASSUME NEW w \in AnalysisWorker, pc[w] \in AnalysisLabel
      PROVE  \E d \in Doc : /\ task[w].doc = d /\ RowsOK(d) /\ Holds(w, d)
                            /\ status[d] \in {"processing", "ready"}
  <2>1. w \in Worker /\ task[w] # NoTask
    BY <1>4 DEF Worker, TaskOK, BusyPC, AnalysisLabel
  <2> QED
    BY <2>1, Knows DEF DocOK, AnalysisOK, AnalysisPhase, Holds
<1>5. ASSUME NEW w \in AnalysisWorker, pc[w] = "saveSummary", SaveSummary(task[w].doc, listed[w])
      PROVE  UNCHANGED rows \/ \E d \in Doc : Lifecycle!Summarise(d)
  <2>1. PICK d \in Doc : /\ task[w].doc = d /\ RowsOK(d) /\ Holds(w, d)
                         /\ status[d] \in {"processing", "ready"}
    BY <1>4, <1>5 DEF AnalysisLabel
  <2>2. listed[w] \in Lifecycle!Lists(d)
    BY <1>5, <2>1, ListsFacts DEF Holds, AnalysisLabel
  <2> QED
    BY <1>5, <2>1, <2>2 DEF SaveSummary, Lifecycle!Summarise
<1>6. ASSUME NEW w \in AnalysisWorker, pc[w] = "saveEmbeddings", SaveEmbeddings(task[w].doc, listed[w])
      PROVE  UNCHANGED rows \/ \E d \in Doc : Lifecycle!Index(d)
  <2>1. PICK d \in Doc : /\ task[w].doc = d /\ RowsOK(d) /\ Holds(w, d)
                         /\ status[d] \in {"processing", "ready"}
    BY <1>4, <1>6 DEF AnalysisLabel
  <2>2. listed[w] \in ChunkList(d) /\ Summed(d)
    BY <1>6, <2>1 DEF Holds, AnalysisLabel
  <2>3. PICK e \in Joint(d, embeddings[d], listed[w]) :
          /\ embeddings' = [embeddings EXCEPT ![d] = e]
          /\ UNCHANGED <<status, chunks, summaries>>
    BY <1>6, <2>1 DEF SaveEmbeddings
  <2>4. e \in Lifecycle!Lists(d) /\ summaries[d] # NoSummary
    BY <2>1, <2>2, <2>3, JointFacts, ListsFacts DEF RowsOK, Summed
  <2>5. CASE embeddings[d] = chunks[d]
    <3>1. e = embeddings[d]
      BY <2>2, <2>3, <2>5 DEF Joint, ChunkList, Part
    <3> QED
      BY <2>3, <3>1 DEF rows
  <2>6. CASE embeddings[d] # chunks[d]
    BY <2>1, <2>3, <2>4, <2>6 DEF Lifecycle!Index
  <2> QED
    BY <2>5, <2>6
<1>7. ASSUME NEW w \in AnalysisWorker, pc[w] = "markReady", UpdateDocumentStatus(task[w].doc, "ready")
      PROVE  UNCHANGED rows \/ \E d \in Doc : Lifecycle!Finish(d)
  <2>1. PICK d \in Doc : /\ task[w].doc = d /\ RowsOK(d) /\ Holds(w, d)
                         /\ status[d] \in {"processing", "ready"}
    BY <1>4, <1>7 DEF AnalysisLabel
  <2>2. Summed(d) /\ Indexed(d)
    BY <1>7, <2>1 DEF Holds
  <2>3. status' = [status EXCEPT ![d] = "ready"] /\ UNCHANGED <<chunks, summaries, embeddings>>
    BY <1>7, <2>1 DEF UpdateDocumentStatus
  <2>4. CASE status[d] = "ready"
    BY <2>3, <2>4 DEF rows
  <2>5. CASE status[d] = "processing"
    <3>1. summaries[d] # NoSummary
      BY <2>2, ListsFacts DEF Summed
    <3>2. embeddings[d] \in Lifecycle!Lists(d)
      BY <2>2, ListsFacts DEF Indexed
    <3>3. Lifecycle!Finish(d)
      BY <2>3, <2>5, <3>1, <3>2 DEF Lifecycle!Finish
    <3> QED
      BY <3>3
  <2> QED
    BY <2>1, <2>4, <2>5
<1> QED
  BY <1>1, <1>2, <1>3, <1>5, <1>6, <1>7 DEF RowChange, Lifecycle!Next, Lifecycle!rows, rows

(* The pipeline implements the lifecycle of documents; one whose lists may be *)
(* cut off, the lifecycle whose lists may.                                    *)
THEOREM Refinement == Spec => ImplementsLifecycle
<1>1. Init => Lifecycle!Init
  BY DEF Init, StoreInit, NoSummary, Lifecycle!Init, Lifecycle!NoSummary
<1>2. Lifecycle!rows = rows
  BY DEF Lifecycle!rows, rows
<1>3. IInv /\ [Next]_vars => [Lifecycle!Next]_(Lifecycle!rows)
  BY <1>2, LifecycleStep DEF Lifecycle!rows, rows
<1> QED
  BY <1>1, <1>3, InvariantHolds, PTL DEF Spec, ImplementsLifecycle, Lifecycle!Spec

(* No step of any handler, first run or retry, overwrites ready or failed. *)
LEMMA StatusStays ==
    IInv /\ [Next]_vars =>
        [\A d \in Doc : status[d] \in {"ready", "failed"} => status'[d] = status[d]]_vars
<1> SUFFICES ASSUME IInv, [Next]_vars, NEW d \in Doc, status[d] \in {"ready", "failed"}
             PROVE  status'[d] = status[d]
  OBVIOUS
<1>1. RowChange /\ TypeOK
  BY RowChanges DEF IInv, TypeInv
<1>2. ASSUME NEW e \in Doc, upload[e] = "markFailed", UpdateDocumentStatus(e, "failed")
      PROVE  status'[d] = status[d]
  BY <1>1, <1>2 DEF UpdateDocumentStatus, IInv, DocOK, UploadOK, TypeOK
<1>3. ASSUME NEW w \in AnalysisWorker, pc[w] = "markReady",
             UpdateDocumentStatus(task[w].doc, "ready")
      PROVE  status'[d] = status[d]
  <2>1. w \in Worker /\ task[w] # NoTask
    BY <1>3 DEF Worker, TaskOK, BusyPC, IInv, TypeInv
  <2>2. PICK e \in Doc : task[w].doc = e /\ status[e] \in {"processing", "ready"}
    BY <2>1, Knows DEF DocOK, AnalysisOK, AnalysisPhase
  <2> QED
    BY <1>1, <1>3, <2>2 DEF UpdateDocumentStatus, TypeOK
<1> QED
  BY <1>1, <1>2, <1>3 DEF RowChange, CreateDocument, SaveChunks, SaveSummary, SaveEmbeddings,
    rows, TypeOK

(* Ready and failed are final. *)
THEOREM StatusIsFinalHolds == Spec => StatusIsFinal
  BY StatusStays, InvariantHolds, PTL DEF Spec, StatusIsFinal

(* No chunk row is stored once the analysis was asked for. *)
THEOREM ChunksFrozen == Spec => ChunksFrozenOnceAnalysed
<1>1. IInv /\ [Next]_vars => [\A d \in Doc : AnalysisAsked(d) => chunks'[d] = chunks[d]]_vars
  <2> SUFFICES ASSUME IInv, [Next]_vars, NEW d \in Doc, chunks'[d] # chunks[d]
               PROVE  ~AnalysisAsked(d)
    OBVIOUS
  <2> USE DEF IInv, TypeInv
  <2>1. PICK w \in ParserWorker : pc[w] = "saveChunks" /\ SaveChunks(task[w].doc)
    BY RowChanges DEF RowChange, CreateDocument, UpdateDocumentStatus, SaveSummary,
      SaveEmbeddings, rows
  <2>2. w \in Worker /\ w \notin AnalysisWorker /\ task[w] # NoTask
    BY <2>1 DEF Worker, TaskOK, BusyPC
  <2>3. task[w].doc = d
    BY <2>1 DEF SaveChunks, TypeOK
  <2>4. ParsePhase(d)
    BY <2>1, <2>2, <2>3 DEF DocOK, ParserOK, Busy
  <2> QED
    BY <2>2, <2>3, <2>4 DEF AnalysisAsked, ParsePhase, Custody, OneWorker, WireOrWorker, Busy, Worker
<1> QED
  BY <1>1, InvariantHolds, PTL DEF Spec, ChunksFrozenOnceAnalysed

--------------------------------------------------------------------------------
(******************************************************************************)
(* One failed call costs no document, for any number of documents and         *)
(* workers.  The invariant keeps account of the one failure: whatever was     *)
(* tried a second time, or is about to be, is so because of it, and nothing   *)
(* else can fail without a second.                                            *)
(******************************************************************************)

\* No process dies and no message vanishes, failures are told apart up to the
\* second, and a task is tried more than once.
NothingVanishes ==
    /\ Disruptions \cap {"crash", "loss"} = {}
    /\ "outage" \in Disruptions => MaxErrors >= 2
    /\ MaxAttempts >= 2

Taken == {"respond", "accepted"}

Counted ==
    /\ \A t \in Tasks : t.attempts <= errors
    /\ \A w \in Worker : task[w] # NoTask => task[w].attempts <= errors
    /\ \A w \in Worker : pc[w] = "retry" => task[w].attempts < errors

Kept == \A d \in Doc : upload[d] \in Taken => status[d] = "ready" \/ InFlight(d)

Account == cancelled \cap Worker = {} /\ (errors <= 1 => Counted /\ Kept)

TInv == IInv /\ Account

(* A call that fails, and is not the second one to do so, is counted. *)
LEMMA Calls ==
    ASSUME NothingVanishes, TypeOK, CallError, errors' <= 1
    PROVE  errors' = errors + 1 /\ errors = 0
BY DEF NothingVanishes, TypeOK, CallError

(* What a step may do to the account. *)
LEMMA AccountKept ==
    ASSUME TInv, UNCHANGED cancelled \/ \E d \in Doc : cancelled' = cancelled \cup {d},
           errors' <= 1 =>
             /\ errors <= errors' /\ errors' \in Nat
             /\ \A t \in Tasks' : t \in Tasks \/ t.attempts <= errors'
             /\ \A w \in Worker : \/ task'[w] = task[w]
                                  \/ task'[w] # NoTask => task'[w].attempts <= errors'
             /\ \A w \in Worker : pc'[w] = "retry" =>
                  \/ task'[w].attempts < errors'
                  \/ pc[w] = "retry" /\ task'[w] = task[w]
             /\ \A d \in Doc : upload'[d] \in Taken =>
                  \/ InFlight(d)' \/ status'[d] = "ready"
                  \/ upload[d] \in Taken /\ ~InFlight(d) /\ status[d] # "ready"
    PROVE  Account'
<1> USE DEF TInv, IInv, TypeInv
<1>1. cancelled' \cap Worker = {}
  BY DEF Account
<1>2. ASSUME errors' <= 1 PROVE Counted' /\ Kept'
  <2>1. errors \in Nat /\ errors <= errors' /\ errors' \in Nat /\ errors <= 1
    BY <1>2 DEF TypeOK
  <2>2. Counted /\ Kept
    BY <2>1 DEF Account
  <2>3. \A t \in Tasks : t.attempts \in Nat
    BY DEF TypeOK, Task
  <2>4. \A w \in Worker : task[w] # NoTask => task[w].attempts \in Nat
    BY DEF TypeOK, Task
  <2>5. \A w \in Worker : pc[w] = "retry" => task[w] # NoTask
    BY DEF TaskOK, BusyPC
  <2>6. \A t \in Tasks' : t.attempts <= errors'
    BY <1>2, <2>1, <2>2, <2>3 DEF Counted
  <2>7. \A w \in Worker : task'[w] # NoTask => task'[w].attempts <= errors'
    BY <1>2, <2>1, <2>2, <2>4 DEF Counted
  <2>8. \A w \in Worker : pc'[w] = "retry" => task'[w].attempts < errors'
    BY <1>2, <2>1, <2>2, <2>4, <2>5 DEF Counted
  <2>9. Kept'
    BY <1>2, <2>2 DEF Kept
  <2> QED
    BY <2>6, <2>7, <2>8, <2>9 DEF Counted
<1> QED
  BY <1>1, <1>2 DEF Account

--------------------------------------------------------------------------------
(* A ready document stays ready. *)
LEMMA ReadyStays ==
    ASSUME TInv, Next
    PROVE  \A d \in Doc : status[d] = "ready" => status'[d] = "ready"
<1>1. [\A d \in Doc : status[d] \in {"ready", "failed"} => status'[d] = status[d]]_vars
  BY StatusStays DEF TInv
<1>2. UNCHANGED vars => UNCHANGED status
  BY DEF vars, rows
<1> QED
  BY <1>1, <1>2

(* A step of the gateway: a document is accepted with its task on the wire. *)
LEMMA GatewayAccount ==
    ASSUME NothingVanishes, TInv, GatewayNext
    PROVE  Account'
<1> USE DEF TInv, IInv, TypeInv
<1>1. ~GatewayCrash
  BY DEF GatewayCrash, NothingVanishes
<1>2. PICK d \in Doc : uploadHandler(d) \/ ClientGone(d)
  BY <1>1 DEF GatewayNext
<1>3. UNCHANGED cancelled \/ cancelled' = cancelled \cup {d}
  BY <1>2 DEF uploadHandler, Validate, Create, EnqueueParse, MarkFailed, Respond,
              RespondError, Continue, Return, ClientGone, Cancel
<1>4. \A e \in Doc : status[e] = "ready" => status'[e] = "ready"
  BY ReadyStays DEF Next
<1>5. errors \in Nat /\ (errors' <= 1 => errors' \in {errors, errors + 1})
  <2>1. UNCHANGED errors \/ CallError
    BY <1>2 DEF uploadHandler, Validate, Create, EnqueueParse, MarkFailed, Respond,
                RespondError, ClientGone, Cancel, StoreOK, StoreError,
                EnqueueOK, EnqueueAgain, EnqueueGivesUp
  <2> QED
    BY <2>1, Calls DEF TypeOK
<1>6. UNCHANGED <<pc, task>>
  BY <1>2 DEF uploadHandler, Validate, Create, EnqueueParse, MarkFailed, Respond,
              RespondError, ClientGone, queue
<1>7. CASE /\ UNCHANGED wire
           /\ \A e \in Doc : upload'[e] \in Taken => upload[e] \in Taken
  <2>1. Tasks' = Tasks /\ \A e \in Doc : InFlight(e)' <=> InFlight(e)
    BY <1>6, <1>7 DEF Tasks, InFlight, Busy
  <2> QED
    BY <1>3, <1>4, <1>5, <1>6, <1>7, <2>1, AccountKept
<1>8. CASE /\ wire' = BagAdd(wire, NewTask("parse", d))
           /\ \A e \in Doc \ {d} : upload'[e] \in Taken => upload[e] \in Taken
  <2> DEFINE t == NewTask("parse", d)
  <2>1. Tasks' = Tasks \cup {t}
    BY <1>8, WireAdd
  <2>2. t.doc = d /\ t.attempts = 0
    BY DEF NewTask
  <2> HIDE DEF t
  <2>3. InFlight(d)' /\ \A e \in Doc : InFlight(e) => InFlight(e)'
    BY <1>6, <2>1, <2>2 DEF InFlight, Busy
  <2>4. errors' <= 1 => 0 <= errors'
    BY <1>5
  <2> QED
    BY <1>3, <1>4, <1>5, <1>6, <1>8, <2>1, <2>2, <2>3, <2>4, AccountKept
<1>9. \/ /\ UNCHANGED wire
         /\ \A e \in Doc : upload'[e] \in Taken => upload[e] \in Taken
      \/ /\ wire' = BagAdd(wire, NewTask("parse", d))
         /\ \A e \in Doc \ {d} : upload'[e] \in Taken => upload[e] \in Taken
  <2>1. upload \in [Doc -> UploadState]
    BY DEF TypeOK
  <2>2. CASE ClientGone(d)
    BY <2>2 DEF ClientGone, queue
  <2>3. CASE EnqueueParse(d)
    BY <2>1, <2>3 DEF EnqueueParse, EnqueueOK, EnqueueAgain, EnqueueGivesUp, Continue, Taken
  <2>4. CASE Validate(d) \/ Create(d) \/ MarkFailed(d) \/ Respond(d) \/ RespondError(d)
    BY <2>1, <2>4 DEF Validate, Create, MarkFailed, Respond, RespondError, Continue, Return,
                      Taken, queue
  <2> QED
    BY <1>2, <2>2, <2>3, <2>4 DEF uploadHandler
<1> QED
  BY <1>7, <1>8, <1>9

--------------------------------------------------------------------------------
(* A worker goes on with its task; to retryTask it goes after a failure. *)
LEMMA MoveAccount ==
    ASSUME TInv, NEW w \in Worker, NEW label, pc' = [pc EXCEPT ![w] = label],
           UNCHANGED <<wire, task, upload, cancelled>>,
           errors' <= 1 => errors' \in {errors, errors + 1},
           label = "retry" /\ errors' <= 1 => errors' = errors + 1 /\ task[w] # NoTask,
           \A d \in Doc : status[d] = "ready" => status'[d] = "ready"
    PROVE  Account'
<1> USE DEF TInv, IInv, TypeInv
<1>1. errors \in Nat /\ pc'[w] = label /\ \A v \in Worker \ {w} : pc'[v] = pc[v]
  BY DEF TypeOK
<1>2. Tasks' = Tasks /\ \A d \in Doc : InFlight(d)' <=> InFlight(d)
  BY DEF Tasks, InFlight, Busy
<1>3. ASSUME errors' <= 1, label = "retry"
      PROVE  task'[w].attempts < errors'
  <2>1. errors' = errors + 1 /\ errors <= 1 /\ task[w] # NoTask
    BY <1>1, <1>3
  <2>2. task[w].attempts <= errors /\ task[w].attempts \in Nat
    BY <2>1 DEF Account, Counted, TypeOK, Task
  <2> QED
    BY <1>1, <2>1, <2>2
<1> QED
  BY <1>1, <1>2, <1>3, AccountKept

(* A worker passes its document on to whoever receives the task it publishes. *)
LEMMA PassAccount ==
    ASSUME TInv, NEW w \in Worker, NEW t, task[w] # NoTask, t.doc = task[w].doc,
           wire' = BagAdd(wire, t), errors' <= 1 => t.attempts <= errors',
           pc' = [pc EXCEPT ![w] = "idle"], task' = [task EXCEPT ![w] = NoTask],
           UNCHANGED <<upload, cancelled, errors>>,
           \A d \in Doc : status[d] = "ready" => status'[d] = "ready"
    PROVE  Account'
<1> USE DEF TInv, IInv, TypeInv
<1>1. /\ errors \in Nat /\ pc'[w] = "idle" /\ task'[w] = NoTask
      /\ \A v \in Worker \ {w} : pc'[v] = pc[v] /\ task'[v] = task[v]
  BY DEF TypeOK
<1>2. Tasks' = Tasks \cup {t}
  BY WireAdd
<1>3. ASSUME NEW d \in Doc, InFlight(d) PROVE InFlight(d)'
  <2>1. CASE \E u \in Tasks : u.doc = d
    BY <1>2, <2>1 DEF InFlight
  <2>2. ASSUME NEW v \in Worker, Busy(v, d) PROVE InFlight(d)'
    <3>1. CASE v = w
      BY <1>2, <2>2, <3>1 DEF InFlight, Busy
    <3>2. CASE v # w
      BY <1>1, <2>2, <3>2 DEF InFlight, Busy
    <3> QED
      BY <3>1, <3>2
  <2> QED
    BY <1>3, <2>1, <2>2 DEF InFlight
<1> QED
  BY <1>1, <1>2, <1>3, AccountKept

(* A task that is received is in the hands of its worker. *)
LEMMA ReceiveAccount ==
    ASSUME TInv, NEW w \in Worker, NEW type, NEW entry, entry # "retry",
           Receive(w, type, entry), UNCHANGED <<rows, upload>>
    PROVE  Account'
<1> USE DEF TInv, IInv, TypeInv
<1>1. PICK t \in Tasks : wire' = BagRemove(wire, t) /\ task' = [task EXCEPT ![w] = t]
  BY DEF Receive, Tasks
<1>2. /\ UNCHANGED <<status, errors, cancelled>> /\ errors \in Nat
      /\ pc' = [pc EXCEPT ![w] = entry] /\ task[w] = NoTask
  BY DEF Receive, rows, env, TypeOK, TaskOK, BusyPC
<1>3. Tasks' = Tasks \ {t}
  BY <1>1, WireRemove DEF Custody
<1>4. /\ pc'[w] = entry /\ task'[w] = t /\ t # NoTask
      /\ \A v \in Worker \ {w} : pc'[v] = pc[v] /\ task'[v] = task[v]
  BY <1>1, <1>2 DEF TypeOK
<1>5. ASSUME NEW d \in Doc, InFlight(d) PROVE InFlight(d)'
  <2>1. ASSUME NEW u \in Tasks, u.doc = d PROVE InFlight(d)'
    BY <1>3, <1>4, <2>1 DEF InFlight, Busy
  <2>2. ASSUME NEW v \in Worker, Busy(v, d) PROVE InFlight(d)'
    BY <1>2, <1>4, <2>2 DEF InFlight, Busy
  <2> QED
    BY <1>5, <2>1, <2>2 DEF InFlight
<1>6. errors' <= 1 => task'[w].attempts <= errors'
  BY <1>2, <1>4 DEF Account, Counted
<1> QED
  BY <1>2, <1>3, <1>4, <1>5, <1>6, AccountKept

(* Within the one failure there is always an attempt left, and its publish     *)
(* does not fail.                                                              *)
LEMMA RetryAccount ==
    ASSUME NothingVanishes, TInv, NEW w \in Worker, retryTask(w), UNCHANGED <<rows, upload>>
    PROVE  Account'
<1> USE DEF TInv, IInv, TypeInv
<1> DEFINE t == NextAttempt(w)
<1>1. /\ pc[w] = "retry" /\ task[w] # NoTask /\ task[w] \in Task
      /\ pc' = [pc EXCEPT ![w] = "idle"] /\ task' = [task EXCEPT ![w] = NoTask]
      /\ UNCHANGED <<status, upload, cancelled>> /\ errors \in Nat
  BY DEF retryTask, PublishAgain, Release, rows, TypeOK, TaskOK, BusyPC
<1>2. t.doc = task[w].doc /\ t.attempts = task[w].attempts + 1 /\ task[w].attempts \in Nat
  BY <1>1 DEF NextAttempt, Task
<1>3. errors <= 1 => task[w].attempts < errors
  BY <1>1 DEF Account, Counted
<1>4. \/ t.attempts < MaxAttempts /\ wire' = BagAdd(wire, t) /\ UNCHANGED errors
      \/ CallError
      \/ t.attempts >= MaxAttempts /\ UNCHANGED errors
  <2>1. MaxAttempts \in Nat /\ t.attempts \in Nat
    BY <1>2
  <2> HIDE DEF t
  <2> QED
    BY <2>1 DEF retryTask, PublishAgain, t
<1> HIDE DEF t
<1>5. CASE wire' = BagAdd(wire, t) /\ UNCHANGED errors
  <2>1. errors' <= 1 => t.attempts <= errors'
    BY <1>1, <1>2, <1>3, <1>5
  <2>2. UNCHANGED <<upload, cancelled, errors>>
    BY <1>1, <1>5
  <2>3. \A d \in Doc : status[d] = "ready" => status'[d] = "ready"
    BY <1>1
  <2> QED
    BY <1>1, <1>2, <1>5, <2>1, <2>2, <2>3, PassAccount
<1>6. CASE CallError
  <2>1. ~(errors' <= 1)
    BY <1>2, <1>3, <1>6, Calls
  <2> QED
    BY <1>1, <2>1 DEF Account
<1>7. CASE t.attempts >= MaxAttempts /\ UNCHANGED errors
  <2>1. ~(errors' <= 1)
    BY <1>1, <1>2, <1>3, <1>7 DEF NothingVanishes
  <2> QED
    BY <1>1, <2>1 DEF Account
<1> QED
  BY <1>4, <1>5, <1>6, <1>7

(* No worker process ends; one that has never ended cannot start anew either. *)
LEMMA DisruptedAccount ==
    ASSUME NothingVanishes, TInv, NEW w \in Worker, UNCHANGED <<rows, upload>>,
           HealthServerFails(w) \/ Stop(w) \/ Restart(w)
    PROVE  Account'
<1>1. Restart(w)
  BY DEF HealthServerFails, Stop, NothingVanishes
<1>2. /\ pc' = [pc EXCEPT ![w] = "idle"]
      /\ UNCHANGED <<wire, task, upload, cancelled, errors, status>>
  BY <1>1 DEF Restart, Goto, env, rows
<1> QED
  BY <1>2, MoveAccount

--------------------------------------------------------------------------------
(* No call of a worker fails for another reason than a failure that is counted. *)
LEMMA ParserAccount ==
    ASSUME NothingVanishes, TInv, Next, ParserNext
    PROVE  Account'
<1> USE DEF TInv, IInv, TypeInv
<1>1. PICK w \in ParserWorker : ParserStep(w) \/ ParserDisrupted(w)
  BY DEF ParserNext
<1>2. /\ w \in Worker /\ UNCHANGED upload /\ errors \in Nat /\ w \notin cancelled
      /\ \A d \in Doc : status[d] = "ready" => status'[d] = "ready"
      /\ BusyPC(w) => task[w] # NoTask
  BY ReadyStays DEF ParserNext, Worker, TypeOK, TaskOK, Account
<1>3. CASE ReceiveParse(w)
  BY <1>2, <1>3, ReceiveAccount DEF ReceiveParse
<1>4. CASE StoreChunks(w)
  <2>1. PICK label \in {"enqueue", "retry"} : pc' = [pc EXCEPT ![w] = label] /\ UNCHANGED task
    BY <1>4 DEF StoreChunks, Goto
  <2>2. UNCHANGED <<wire, cancelled>> /\ task[w] # NoTask /\ pc[w] = "saveChunks"
    BY <1>2, <1>4 DEF StoreChunks, BusyPC
  <2>3. /\ errors' <= 1 => errors' \in {errors, errors + 1}
        /\ label = "retry" /\ errors' <= 1 => errors' = errors + 1
    <3>1. CASE UNCHANGED errors /\ pc' = [pc EXCEPT ![w] = "enqueue"]
      <4>1. label = "enqueue"
        BY <1>2, <2>1, <3>1 DEF TypeOK
      <4> QED
        BY <3>1, <4>1
    <3>2. CASE CallError
      BY <3>2, Calls
    <3> QED
      BY <1>2, <1>4, <3>1, <3>2 DEF StoreChunks, StoreOK, StoreError, Goto
  <2> QED
    BY <1>2, <2>1, <2>2, <2>3, MoveAccount
<1>5. CASE EnqueueAnalyze(w)
  <2> DEFINE t == NewTask("analyze", task[w].doc)
  <2>1. pc[w] = "enqueue" /\ task[w] # NoTask /\ UNCHANGED cancelled
    BY <1>2, <1>5 DEF EnqueueAnalyze, BusyPC
  <2>2. t.doc = task[w].doc /\ t.attempts = 0
    BY DEF NewTask
  <2>3. CASE EnqueueOK(w, t) /\ Release(w, "idle")
    <3>1. /\ wire' = BagAdd(wire, t) /\ UNCHANGED errors
          /\ pc' = [pc EXCEPT ![w] = "idle"] /\ task' = [task EXCEPT ![w] = NoTask]
      BY <2>3 DEF EnqueueOK, Release
    <3>2. errors' <= 1 => t.attempts <= errors'
      BY <1>2, <2>2, <3>1
    <3> HIDE DEF t
    <3> QED
      BY <1>2, <2>1, <2>2, <3>1, <3>2, PassAccount
  <2>4. ASSUME NEW label \in {"enqueue", "retry"}, CallError, UNCHANGED wire, Goto(w, label)
        PROVE  Account'
    <3>1. errors' <= 1 => errors' = errors + 1
      BY <2>4, Calls
    <3>2. pc' = [pc EXCEPT ![w] = label] /\ UNCHANGED <<wire, task, upload, cancelled>>
      BY <1>2, <2>1, <2>4 DEF Goto
    <3> QED
      BY <1>2, <2>1, <3>1, <3>2, MoveAccount
  <2> QED
    BY <1>2, <1>5, <2>3, <2>4 DEF EnqueueAnalyze, EnqueueAgain, EnqueueGivesUp
<1>6. CASE retryTask(w) /\ UNCHANGED rows
  BY <1>2, <1>6, RetryAccount
<1>7. CASE ParserDisrupted(w)
  BY <1>2, <1>7, DisruptedAccount DEF ParserDisrupted
<1> QED
  BY <1>1, <1>3, <1>4, <1>5, <1>6, <1>7 DEF ParserStep, handleParse

(* The analysis lets go of a document when it is ready, or when it has failed. *)
LEMMA AnalysisAccount ==
    ASSUME NothingVanishes, TInv, Next, AnalysisNext
    PROVE  Account'
<1> USE DEF TInv, IInv, TypeInv
<1>1. PICK w \in AnalysisWorker : AnalysisStep(w) \/ AnalysisDisrupted(w)
  BY DEF AnalysisNext
<1>2. /\ w \in Worker /\ UNCHANGED upload /\ errors \in Nat /\ w \notin cancelled
      /\ \A d \in Doc : status[d] = "ready" => status'[d] = "ready"
      /\ BusyPC(w) => task[w] # NoTask
  BY ReadyStays DEF AnalysisNext, Worker, TypeOK, TaskOK, Account
<1>3. CASE ReceiveAnalyze(w)
  BY <1>2, <1>3, ReceiveAccount DEF ReceiveAnalyze
<1>4. CASE handleAnalyze(w)
  <2>1. task[w] # NoTask /\ UNCHANGED <<wire, upload, cancelled>>
    BY <1>2, <1>4, HandlerStep
  <2>2. \/ CallError /\ Goto(w, "retry")
        \/ UNCHANGED errors /\ \E label \in AnalysisLabel : Goto(w, label)
        \/ pc[w] = "markReady" /\ StoreOK(w, UpdateDocumentStatus(task[w].doc, "ready"))
             /\ Release(w, "idle")
    BY <1>2, <1>4 DEF handleAnalyze, ListChunks, Summarize, StoreSummary, GetDocument, Compute,
      EmbedBatch, StoreEmbeddings, MarkReady, FailCall, StoreOK, StoreError, AnalysisLabel
  <2>3. CASE CallError /\ Goto(w, "retry")
    <3>1. errors' <= 1 => errors' = errors + 1
      BY <2>3, Calls
    <3>2. pc' = [pc EXCEPT ![w] = "retry"] /\ UNCHANGED <<wire, task, upload, cancelled>>
      BY <2>1, <2>3 DEF Goto
    <3> QED
      BY <1>2, <2>1, <3>1, <3>2, MoveAccount
  <2>4. ASSUME UNCHANGED errors, NEW label \in AnalysisLabel, Goto(w, label) PROVE Account'
    <3>1. pc' = [pc EXCEPT ![w] = label] /\ UNCHANGED <<wire, task, upload, cancelled>>
      BY <2>1, <2>4 DEF Goto
    <3>2. label # "retry"
      BY DEF AnalysisLabel
    <3> QED
      BY <1>2, <2>4, <3>1, <3>2, MoveAccount
  <2>5. CASE StoreOK(w, UpdateDocumentStatus(task[w].doc, "ready")) /\ Release(w, "idle")
    <3>1. /\ UNCHANGED errors /\ status' = [status EXCEPT ![task[w].doc] = "ready"]
          /\ pc' = [pc EXCEPT ![w] = "idle"] /\ task' = [task EXCEPT ![w] = NoTask]
      BY <2>5 DEF StoreOK, UpdateDocumentStatus, Release
    <3>2. /\ pc'[w] = "idle" /\ task'[w] = NoTask
          /\ \A v \in Worker \ {w} : pc'[v] = pc[v] /\ task'[v] = task[v]
          /\ Tasks' = Tasks
      BY <1>2, <2>1, <3>1 DEF TypeOK, Tasks
    <3>3. \A d \in Doc : d = task[w].doc => status'[d] = "ready"
      BY <3>1 DEF TypeOK
    <3>4. \A d \in Doc : InFlight(d) => InFlight(d)' \/ status'[d] = "ready"
      BY <3>2, <3>3 DEF InFlight, Busy
    <3> QED
      BY <1>2, <2>1, <3>1, <3>2, <3>4, AccountKept
  <2> QED
    BY <2>2, <2>3, <2>4, <2>5
<1>5. CASE retryTask(w) /\ UNCHANGED <<rows, listed>>
  BY <1>2, <1>5, RetryAccount
<1>6. CASE AnalysisDisrupted(w)
  BY <1>2, <1>6, DisruptedAccount DEF AnalysisDisrupted
<1> QED
  BY <1>1, <1>3, <1>4, <1>5, <1>6 DEF AnalysisStep

(* Every step keeps the account. *)
LEMMA AccountStep ==
    ASSUME NothingVanishes, TInv, [Next]_vars
    PROVE  Account'
<1>1. CASE UNCHANGED vars
  BY <1>1 DEF TInv, Account, Counted, Kept, InFlight, Tasks, Busy, vars, env, rows, queue
<1>2. ~NetworkNext
  BY DEF NetworkNext, Lose, NothingVanishes
<1> QED
  BY <1>1, <1>2, GatewayAccount, ParserAccount, AnalysisAccount DEF Next

(* If no process dies and no message vanishes, one failed call, whichever it is, *)
(* leaves every accepted document ready or in somebody's hands.                  *)
THEOREM SingleErrorToleratedHolds ==
    ASSUME NothingVanishes PROVE Spec => []SingleErrorTolerated
<1>1. Init => Account
  <2>1. Init => \A d \in Doc : upload[d] \notin Taken
    BY DEF Init, GatewayInit, Taken
  <2>2. Init => /\ Tasks = {} /\ errors = 0 /\ cancelled = {}
                /\ \A w \in Worker : task[w] = NoTask /\ pc[w] = "idle"
    <3>1. BagToSet(EmptyBag) = {}
      BY DEF EmptyBag, SetToBag, BagToSet
    <3> QED
      BY <3>1 DEF Init, EnvInit, QueueInit, Tasks
  <2> QED
    BY <2>1, <2>2 DEF Account, Counted, Kept
<1>2. IInv /\ Account /\ [Next]_vars => Account'
  BY AccountStep DEF TInv
<1>3. IInv /\ Account => SingleErrorTolerated
  BY DEF IInv, TypeInv, TypeOK, Account, Kept, Taken, SingleErrorTolerated
<1>4. Spec => []IInv
  BY InvariantHolds
<1> QED
  BY <1>1, <1>2, <1>3, <1>4, PTL DEF Spec
================================================================================
