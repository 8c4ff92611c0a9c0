---------------------------- MODULE IngestionProofs ----------------------------
(******************************************************************************)
(* The safety of Ingestion, for every set of documents and workers, every     *)
(* retry limit and every combination of disruptions: first that its state     *)
(* keeps its types, then that IInv is inductive.                              *)
(******************************************************************************)
EXTENDS IngestionInvariant, TLAPS

--------------------------------------------------------------------------------
(******************************************************************************)
(* Bags: what publishing and receiving one task does to the wire.             *)
(******************************************************************************)

(* Adding t to a bag adds t to its elements and one to the copies of t. *)
LEMMA BagAddFacts ==
    ASSUME NEW B, IsABag(B), NEW t
    PROVE  /\ IsABag(BagAdd(B, t))
           /\ BagToSet(BagAdd(B, t)) = BagToSet(B) \cup {t}
           /\ \A e \in BagToSet(B) \ {t} : BagAdd(B, t)[e] = B[e]
           /\ t \notin BagToSet(B) => BagAdd(B, t)[t] = 1
BY DEF IsABag, BagToSet, BagAdd

(* Removing an element of which there is one copy removes that element. *)
LEMMA BagRemoveFacts ==
    ASSUME NEW B, IsABag(B), NEW t \in BagToSet(B)
    PROVE  /\ IsABag(BagRemove(B, t))
           /\ BagToSet(BagRemove(B, t)) \subseteq BagToSet(B)
           /\ B[t] = 1 => BagToSet(BagRemove(B, t)) = BagToSet(B) \ {t}
           /\ \A e \in BagToSet(B) \ {t} : BagRemove(B, t)[e] = B[e]
BY DEF IsABag, BagToSet, BagRemove

(* A task that is published joins the tasks on the wire. *)
LEMMA WireAdd ==
    ASSUME TypeOK, NEW t, wire' = BagAdd(wire, t)
    PROVE  /\ IsABag(wire')
           /\ Tasks' = Tasks \cup {t}
           /\ OneCopy /\ t \notin Tasks => OneCopy'
BY BagAddFacts DEF TypeOK, Tasks, OneCopy

(* A task that is received or lost leaves the wire, if there was one copy. *)
LEMMA WireRemove ==
    ASSUME TypeOK, NEW t \in Tasks, wire' = BagRemove(wire, t)
    PROVE  /\ IsABag(wire')
           /\ Tasks' \subseteq Tasks
           /\ OneCopy => OneCopy' /\ Tasks' = Tasks \ {t}
BY BagRemoveFacts DEF TypeOK, Tasks, OneCopy

--------------------------------------------------------------------------------
(******************************************************************************)
(* Type correctness.                                                          *)
(******************************************************************************)
USE EnvironmentAssumption, BlankAssumption, AttemptsAssumption, NoTaskAssumption

(* The initial state is well typed. *)
LEMMA TypeInit == Init => TypeInv
<1>1. IsABag(EmptyBag) /\ BagToSet(EmptyBag) = {}
  BY DEF IsABag, EmptyBag, SetToBag, BagToSet
<1> QED
  BY <1>1 DEF Init, EnvInit, StoreInit, QueueInit, GatewayInit, AnalysisInit,
    TypeInv, TypeOK, TaskOK, BusyPC, DocumentStatus, NoSummary, Tasks, UploadState,
    Handling, Answered, ParserPC, AnalysisPC, Worker, Caller

(* The three outcomes of EnqueueWithRetry keep the wire and tries well typed. *)
LEMMA TypeEnqueue ==
    ASSUME TypeInv, NEW p \in Caller, NEW t \in Task, t.attempts < MaxAttempts,
           EnqueueOK(p, t) \/ EnqueueAgain(p) \/ EnqueueGivesUp(p)
    PROVE  /\ IsABag(wire') /\ Tasks' \subseteq Tasks \cup {t}
           /\ tries' \in [Caller -> 0 .. EnqueueAttempts - 1]
           /\ errors' \in 0 .. MaxErrors
<1>1. CASE EnqueueOK(p, t)
  <2>1. IsABag(wire') /\ Tasks' \subseteq Tasks \cup {t}
    BY <1>1, WireAdd DEF EnqueueOK, TypeInv
  <2> QED
    BY <1>1, <2>1 DEF EnqueueOK, TypeInv, TypeOK
<1>2. CASE EnqueueAgain(p)
  BY <1>2 DEF EnqueueAgain, CallError, TypeInv, TypeOK, Tasks
<1>3. CASE EnqueueGivesUp(p)
  BY <1>3 DEF EnqueueGivesUp, CallError, TypeInv, TypeOK, Tasks
<1> QED
  BY <1>1, <1>2, <1>3

(* A step of the gateway keeps the state well typed. *)
LEMMA TypeGateway == TypeInv /\ GatewayNext => TypeInv'
<1> SUFFICES ASSUME TypeInv, GatewayNext PROVE TypeInv'
  OBVIOUS
<1> USE DEF TypeInv, TypeOK, TaskOK, BusyPC, Tasks, UploadState, Handling, Answered,
      env, rows, queue, DocumentStatus, NoSummary
<1>1. ASSUME NEW d \in Doc, Validate(d) PROVE TypeInv'
  BY <1>1 DEF GatewayNext, Validate, Continue, Return, Caller
<1>2. ASSUME NEW d \in Doc, Create(d) PROVE TypeInv'
  BY <1>2 DEF GatewayNext, Create, StoreOK, StoreError, CreateDocument, CallError,
    Continue, Return, Caller
<1>3. ASSUME NEW d \in Doc, EnqueueParse(d) PROVE TypeInv'
  <2>1. NewTask("parse", d) \in Task /\ NewTask("parse", d).attempts < MaxAttempts
    BY DEF NewTask, Task, TaskType
  <2>2. /\ IsABag(wire') /\ BagToSet(wire') \subseteq BagToSet(wire) \cup {NewTask("parse", d)}
        /\ tries' \in [Caller -> 0 .. EnqueueAttempts - 1]
        /\ errors' \in 0 .. MaxErrors
    BY <1>3, <2>1, TypeEnqueue DEF EnqueueParse, Caller
  <2> QED
    BY <1>3, <2>1, <2>2 DEF GatewayNext, EnqueueParse, Continue, Caller
<1>4. ASSUME NEW d \in Doc, MarkFailed(d) PROVE TypeInv'
  BY <1>4 DEF GatewayNext, MarkFailed, StoreOK, StoreError, UpdateDocumentStatus, CallError,
    Continue, Caller
<1>5. ASSUME NEW d \in Doc, Respond(d) \/ RespondError(d) PROVE TypeInv'
  BY <1>5 DEF GatewayNext, Respond, RespondError, Return, Caller
<1>6. ASSUME NEW d \in Doc, ClientGone(d) PROVE TypeInv'
  BY <1>6 DEF GatewayNext, ClientGone, Cancel, Caller
<1>7. CASE GatewayCrash
  BY <1>7 DEF GatewayNext, GatewayCrash, Caller
<1> QED
  BY <1>1, <1>2, <1>3, <1>4, <1>5, <1>6, <1>7 DEF GatewayNext, uploadHandler

(* What a worker does with a task keeps it and the wire well typed. *)
LEMMA TypeReceive ==
    ASSUME TypeInv, NEW w \in Worker, NEW type, NEW entry, Receive(w, type, entry)
    PROVE  /\ IsABag(wire') /\ Tasks' \subseteq Tasks
           /\ task' \in [Worker -> Task \cup {NoTask}]
           /\ task'[w] # NoTask /\ task'[w].type = type /\ task'[w].attempts < MaxAttempts
<1>1. PICK t \in Tasks : t.type = type /\ wire' = BagRemove(wire, t) /\ task' = [task EXCEPT ![w] = t]
  BY DEF Receive, Tasks
<1>2. t \in Task /\ t # NoTask /\ t.attempts < MaxAttempts
  BY <1>1 DEF TypeInv, TypeOK, TaskOK
<1> QED
  BY <1>1, <1>2, WireRemove DEF TypeInv, TypeOK

(* A failed handler publishes a well typed task, or none. *)
LEMMA TypeRetry ==
    ASSUME TypeInv, NEW w \in Worker, retryTask(w)
    PROVE  /\ IsABag(wire') /\ Tasks' \subseteq Task
           /\ \A t \in Tasks' : t.attempts < MaxAttempts
           /\ errors' \in 0 .. MaxErrors
<1> DEFINE t == [task[w] EXCEPT !.attempts = @ + 1]
<1>1. task[w] \in Task
  BY DEF retryTask, PublishAgain, NextAttempt, TypeInv, TypeOK, TaskOK, BusyPC
<1>2. t \in Task /\ t.attempts = task[w].attempts + 1
  BY <1>1 DEF Task
<1>3. CASE t.attempts < MaxAttempts /\ wire' = BagAdd(wire, t) /\ UNCHANGED errors
  <2>1. IsABag(wire') /\ Tasks' = Tasks \cup {t}
    BY <1>3, WireAdd DEF TypeInv
  <2>2. Tasks \subseteq Task /\ \A u \in Tasks : u.attempts < MaxAttempts
    BY DEF TypeInv, TypeOK, TaskOK
  <2>3. errors' \in 0 .. MaxErrors
    BY <1>3 DEF TypeInv, TypeOK
  <2> HIDE DEF t
  <2> QED
    BY <1>2, <1>3, <2>1, <2>2, <2>3
<1>4. CASE UNCHANGED wire /\ (CallError \/ UNCHANGED errors)
  BY <1>4 DEF CallError, TypeInv, TypeOK, TaskOK, Tasks
<1> QED
  BY <1>3, <1>4 DEF retryTask, PublishAgain, NextAttempt

(* What happens to a worker process keeps the state well typed. *)
LEMMA TypeDisrupted ==
    ASSUME TypeInv, NEW w \in Worker, UNCHANGED <<rows, upload>>,
           listed' \in [AnalysisWorker -> Nat \cup {Part}],
           HealthServerFails(w) \/ Stop(w) \/ Restart(w)
    PROVE  TypeInv'
<1> USE DEF TypeInv, TypeOK, TaskOK, BusyPC, Tasks, queue, env, rows, ParserPC, AnalysisPC
<1>1. CASE HealthServerFails(w)
  BY <1>1 DEF HealthServerFails, Cancel, Caller
<1>2. CASE Stop(w)
  BY <1>2 DEF Stop, Release, Caller, Worker
<1>3. CASE Restart(w)
  BY <1>3 DEF Restart, Goto, Worker
<1> QED
  BY <1>1, <1>2, <1>3

(* A step of a parser keeps the state well typed. *)
LEMMA TypeParser == TypeInv /\ ParserNext => TypeInv'
<1> SUFFICES ASSUME TypeInv, NEW w \in ParserWorker, UNCHANGED <<upload, listed>>,
                    ParserStep(w) \/ ParserDisrupted(w)
             PROVE  TypeInv'
  BY DEF ParserNext
<1> w \in Worker /\ w \notin AnalysisWorker /\ w \in Caller
  BY DEF Worker, Caller
<1> USE DEF TypeInv, TypeOK, TaskOK, BusyPC, env, rows, ParserPC, AnalysisPC
<1>1. CASE ReceiveParse(w)
  <2>1. /\ IsABag(wire') /\ Tasks' \subseteq Tasks
        /\ task' \in [Worker -> Task \cup {NoTask}]
        /\ task'[w] # NoTask /\ task'[w].type = "parse" /\ task'[w].attempts < MaxAttempts
    BY <1>1, TypeReceive DEF ReceiveParse
  <2> QED
    BY <1>1, <2>1 DEF ReceiveParse, Receive
<1>2. CASE StoreChunks(w)
  <2>1. \E label \in {"enqueue", "retry"} : pc' = [pc EXCEPT ![w] = label] /\ task' = task
    BY <1>2 DEF StoreChunks, Goto
  <2>2. task[w].doc \in Doc
    BY <1>2 DEF StoreChunks, Task
  <2>3. errors' \in 0 .. MaxErrors /\ chunks' \in [Doc -> Nat]
    BY <1>2, <2>2 DEF StoreChunks, StoreOK, StoreError, SaveChunks, CallError
  <2>4. UNCHANGED <<status, summaries, embeddings, wire, tries, cancelled>>
    BY <1>2 DEF StoreChunks, StoreOK, StoreError, SaveChunks
  <2> QED
    BY <1>2, <2>1, <2>3, <2>4 DEF StoreChunks, Tasks
<1>3. CASE EnqueueAnalyze(w)
  <2> DEFINE t == NewTask("analyze", task[w].doc)
  <2>1. t \in Task /\ t.attempts < MaxAttempts
    BY <1>3 DEF EnqueueAnalyze, NewTask, Task, TaskType
  <2>2. /\ IsABag(wire') /\ Tasks' \subseteq Tasks \cup {t}
        /\ tries' \in [Caller -> 0 .. EnqueueAttempts - 1]
        /\ errors' \in 0 .. MaxErrors
    BY <1>3, <2>1, TypeEnqueue DEF EnqueueAnalyze
  <2>3. \/ pc' = [pc EXCEPT ![w] = "idle"] /\ task' = [task EXCEPT ![w] = NoTask]
        \/ \E label \in {"enqueue", "retry"} : pc' = [pc EXCEPT ![w] = label] /\ task' = task
    BY <1>3 DEF EnqueueAnalyze, Goto, Release
  <2>4. pc[w] = "enqueue" /\ UNCHANGED <<rows, cancelled>>
    BY <1>3 DEF EnqueueAnalyze
  <2>5. Tasks' \subseteq Task /\ \A u \in Tasks' : u.attempts < MaxAttempts
    BY <2>1, <2>2
  <2> HIDE DEF t
  <2>6. CASE pc' = [pc EXCEPT ![w] = "idle"] /\ task' = [task EXCEPT ![w] = NoTask]
    BY <2>2, <2>4, <2>5, <2>6
  <2>7. ASSUME NEW label \in {"enqueue", "retry"}, pc' = [pc EXCEPT ![w] = label], task' = task
        PROVE  TypeInv'
    BY <2>2, <2>4, <2>5, <2>7
  <2> QED
    BY <2>3, <2>6, <2>7
<1>4. CASE retryTask(w) /\ UNCHANGED rows
  <2>1. /\ IsABag(wire') /\ Tasks' \subseteq Task
        /\ \A t \in Tasks' : t.attempts < MaxAttempts
        /\ errors' \in 0 .. MaxErrors
    BY <1>4, TypeRetry
  <2> QED
    BY <1>4, <2>1 DEF retryTask, PublishAgain, NextAttempt, Release
<1>5. CASE ParserDisrupted(w)
  BY <1>5, TypeDisrupted DEF ParserDisrupted
<1> QED
  BY <1>1, <1>2, <1>3, <1>4, <1>5 DEF ParserStep, handleParse

(* A call made by an analysis handler changes rows, and moves its own worker *)
(* on, to retryTask, or out of the handler.                                  *)
HandlerMoves(w) ==
    \/ \E label \in AnalysisLabel \cup {"retry"} : pc' = [pc EXCEPT ![w] = label] /\ task' = task
    \/ pc' = [pc EXCEPT ![w] = "idle"] /\ task' = [task EXCEPT ![w] = NoTask]

RowsTyped ==
    /\ status' \in [Doc -> DocumentStatus]
    /\ chunks' \in [Doc -> Nat]
    /\ summaries' \in [Doc -> Nat \cup {NoSummary, Part}]
    /\ embeddings' \in [Doc -> Nat \cup {Part}]

(* Such a step keeps the worker's handler, and the state, well typed. *)
LEMMA TypeHandler ==
    ASSUME TypeInv, NEW w \in AnalysisWorker, BusyPC(w), HandlerMoves(w), RowsTyped,
           UNCHANGED <<wire, tries, cancelled, upload>>,
           errors' \in 0 .. MaxErrors, listed' \in [AnalysisWorker -> Nat \cup {Part}]
    PROVE  TypeInv'
<1> w \in Worker /\ w \notin ParserWorker
  BY DEF Worker
<1> USE DEF TypeInv, TypeOK, TaskOK, BusyPC, RowsTyped, Tasks
<1>1. CASE pc' = [pc EXCEPT ![w] = "idle"] /\ task' = [task EXCEPT ![w] = NoTask]
  BY <1>1 DEF AnalysisPC
<1>2. ASSUME NEW label \in AnalysisLabel \cup {"retry"},
             pc' = [pc EXCEPT ![w] = label], task' = task
      PROVE  TypeInv'
  <2>1. label \in AnalysisPC /\ label \notin {"idle", "down"}
    BY DEF AnalysisPC, AnalysisLabel
  <2> QED
    BY <1>2, <2>1
<1> QED
  BY <1>1, <1>2 DEF HandlerMoves

(* Every call of handleAnalyze is such a step. *)
LEMMA HandlerStep ==
    ASSUME TypeInv, NEW w \in AnalysisWorker, handleAnalyze(w)
    PROVE  /\ BusyPC(w) /\ HandlerMoves(w) /\ RowsTyped
           /\ UNCHANGED <<wire, tries, cancelled>>
           /\ errors' \in 0 .. MaxErrors /\ listed' \in [AnalysisWorker -> Nat \cup {Part}]
<1> w \in Worker
  BY DEF Worker
<1> task[w] # NoTask => task[w].doc \in Doc
  BY DEF TypeInv, TypeOK, Task
<1> USE DEF TypeInv, TypeOK, TaskOK, BusyPC, RowsTyped, rows, HandlerMoves, AnalysisLabel,
      StoreOK, StoreError, CallError, Goto, Release, FailCall, Forget
<1>1. CASE ListChunks(w)
  BY <1>1 DEF ListChunks, ChunkList
<1>2. CASE Summarize(w) \/ GetDocument(w)
  BY <1>2 DEF Summarize, GetDocument, Compute
<1>3. CASE StoreSummary(w)
  BY <1>3 DEF StoreSummary, SaveSummary
<1>4. CASE EmbedBatch(w)
  BY <1>4 DEF EmbedBatch
<1>5. CASE StoreEmbeddings(w)
  BY <1>5 DEF StoreEmbeddings, SaveEmbeddings, Joint, Part
<1>6. CASE MarkReady(w)
  BY <1>6 DEF MarkReady, UpdateDocumentStatus, DocumentStatus
<1> QED
  BY <1>1, <1>2, <1>3, <1>4, <1>5, <1>6 DEF handleAnalyze

(* A step of an analysis worker keeps the state well typed. *)
LEMMA TypeAnalysis == TypeInv /\ AnalysisNext => TypeInv'
<1> SUFFICES ASSUME TypeInv, NEW w \in AnalysisWorker, UNCHANGED upload,
                    AnalysisStep(w) \/ AnalysisDisrupted(w)
             PROVE  TypeInv'
  BY DEF AnalysisNext
<1> w \in Worker /\ w \notin ParserWorker
  BY DEF Worker
<1>1. CASE ReceiveAnalyze(w)
  <2>1. /\ IsABag(wire') /\ Tasks' \subseteq Tasks
        /\ task' \in [Worker -> Task \cup {NoTask}]
        /\ task'[w] # NoTask /\ task'[w].type = "analyze" /\ task'[w].attempts < MaxAttempts
    BY <1>1, TypeReceive DEF ReceiveAnalyze
  <2> QED
    BY <1>1, <2>1 DEF ReceiveAnalyze, Receive, TypeInv, TypeOK, TaskOK, BusyPC, env, rows,
      AnalysisPC, AnalysisLabel
<1>2. CASE handleAnalyze(w)
  BY <1>2, HandlerStep, TypeHandler
<1>3. CASE retryTask(w) /\ UNCHANGED <<rows, listed>>
  <2>1. /\ IsABag(wire') /\ Tasks' \subseteq Task
        /\ \A t \in Tasks' : t.attempts < MaxAttempts
        /\ errors' \in 0 .. MaxErrors
    BY <1>3, TypeRetry
  <2> QED
    BY <1>3, <2>1 DEF retryTask, PublishAgain, NextAttempt, Release, TypeInv, TypeOK, TaskOK, BusyPC, rows, AnalysisPC
<1>4. CASE AnalysisDisrupted(w)
  <2>1. listed' \in [AnalysisWorker -> Nat \cup {Part}]
    BY <1>4 DEF AnalysisDisrupted, Forget, TypeInv, TypeOK
  <2> QED
    BY <1>4, <2>1, TypeDisrupted DEF AnalysisDisrupted
<1> QED
  BY <1>1, <1>2, <1>3, <1>4 DEF AnalysisStep

(* So does a lost message, and every step of the specification. *)
LEMMA TypeNetwork == TypeInv /\ NetworkNext => TypeInv'
<1> SUFFICES ASSUME TypeInv, NEW t \in Tasks, Lose(t), UNCHANGED <<rows, upload, listed>>
             PROVE  TypeInv'
  BY DEF NetworkNext
<1>1. IsABag(wire') /\ Tasks' \subseteq Tasks
  BY WireRemove DEF Lose, TypeInv
<1> QED
  BY <1>1 DEF Lose, TypeInv, TypeOK, TaskOK, BusyPC, env, rows

(* Every step of the specification keeps the state well typed. *)
LEMMA TypeStep == TypeInv /\ [Next]_vars => TypeInv'
<1>1. TypeInv /\ UNCHANGED vars => TypeInv'
  BY DEF TypeInv, TypeOK, TaskOK, BusyPC, Tasks, vars, env, rows, queue
<1> QED
  BY <1>1, TypeGateway, TypeParser, TypeAnalysis, TypeNetwork DEF Next

(* The state variables keep their types, and a worker holds a task of its own *)
(* type, with attempts left, exactly while it is in a handler.                *)
THEOREM TypeCorrect == Spec => []TypeInv
  BY TypeInit, TypeStep, PTL DEF Spec

(* The invariant of the runs follows. *)
THEOREM TypeOKHolds == Spec => []TypeOK
<1>1. TypeInv => TypeOK
  BY DEF TypeInv
<1> QED
  BY <1>1, TypeCorrect, PTL

--------------------------------------------------------------------------------
(******************************************************************************)
(* Custody: the four ways in which a step changes where tasks are.            *)
(******************************************************************************)
Shrinks ==
    /\ Tasks' \subseteq Tasks
    /\ OneCopy'
    /\ \A w \in Worker : task'[w] \in {task[w], NoTask}

(* Tasks disappear, from the wire or from workers. *)
LEMMA CustodyShrinks ==
    ASSUME Custody, Shrinks
    PROVE  Custody'
BY DEF Custody, Shrinks, OneTask, OneWorker, WireOrWorker

(* A task of a document that nobody works on is published. *)
LEMMA CustodyPublishes ==
    ASSUME TypeInv, Custody, NEW t \in Task, ~InFlight(t.doc),
           Tasks' = Tasks \cup {t}, OneCopy', task' = task
    PROVE  Custody'
BY DEF Custody, OneTask, OneWorker, WireOrWorker, InFlight, Busy

(* A worker publishes a task of the document it works on, and is done. *)
LEMMA CustodyPasses ==
    ASSUME TypeInv, Custody, NEW w \in Worker, NEW t \in Task,
           task[w] # NoTask, t.doc = task[w].doc,
           Tasks' = Tasks \cup {t}, OneCopy', task' = [task EXCEPT ![w] = NoTask]
    PROVE  Custody'
BY DEF Custody, OneTask, OneWorker, WireOrWorker, TypeInv, TypeOK

(* A worker takes a task off the wire. *)
LEMMA CustodyReceives ==
    ASSUME TypeInv, Custody, NEW w \in Worker, NEW t \in Tasks, task[w] = NoTask,
           Tasks' = Tasks \ {t}, OneCopy', task' = [task EXCEPT ![w] = t]
    PROVE  Custody'
BY DEF Custody, OneTask, OneWorker, WireOrWorker, TypeInv, TypeOK

--------------------------------------------------------------------------------
(******************************************************************************)
(* A step about one document leaves every other one as it is.                 *)
(******************************************************************************)
SameRows(d) ==
    /\ upload'[d] = upload[d]
    /\ status'[d] = status[d]
    /\ chunks'[d] = chunks[d]
    /\ summaries'[d] = summaries[d]
    /\ embeddings'[d] = embeddings[d]

\* No task of d comes to a new place, and no worker that keeps one moves.
SameHolders(d) ==
    /\ \A t \in Tasks' : t.doc = d => t \in Tasks
    /\ \A w \in Worker : Busy(w, d)' => task'[w] = task[w] /\ pc'[w] = pc[w]
    /\ \A w \in AnalysisWorker : Busy(w, d)' => listed'[w] = listed[w]

(* What is true of a document stays true when its rows and holders do. *)
LEMMA Frame ==
    ASSUME NEW d \in Doc, DocOK(d), SameRows(d), SameHolders(d)
    PROVE  DocOK(d)'
<1> USE DEF DocOK, SameRows, SameHolders, Busy
<1>1. InFlight(d)' => InFlight(d)
  BY DEF InFlight
<1>2. UploadOK(d)'
  BY <1>1 DEF UploadOK, Untouched
<1>3. WireOK(d)'
  BY DEF WireOK, ParsePhase, AnalysisPhase
<1>4. ParserOK(d)'
  BY DEF ParserOK, ParsePhase, Worker
<1>5. AnalysisOK(d)'
  BY DEF AnalysisOK, AnalysisPhase, Summed, Indexed, ChunkList, Worker
<1>6. RowsOK(d)'
  BY DEF RowsOK, Summed, Indexed, ChunkList
<1> QED
  BY <1>2, <1>3, <1>4, <1>5, <1>6

(* A document nobody works on is fine as soon as its upload and rows are. *)
LEMMA Idle ==
    ASSUME NEW d \in Doc, ~InFlight(d)', UploadOK(d)', RowsOK(d)'
    PROVE  DocOK(d)'
BY DEF DocOK, WireOK, ParserOK, AnalysisOK, InFlight, Worker

(* How a request that published its task ends does not matter to the document. *)
LEMMA Answer ==
    ASSUME NEW d \in Doc, DocOK(d), SameHolders(d),
           upload[d] = "respond", upload'[d] \in {"accepted", "crashed"},
           UNCHANGED rows
    PROVE  DocOK(d)'
<1> USE DEF DocOK, SameHolders, Busy, Published, rows
<1>1. UploadOK(d)'
  BY DEF UploadOK
<1>2. WireOK(d)'
  BY DEF WireOK, ParsePhase, AnalysisPhase
<1>3. ParserOK(d)'
  BY DEF ParserOK, ParsePhase, Worker
<1>4. AnalysisOK(d)'
  BY DEF AnalysisOK, AnalysisPhase, Summed, Indexed, ChunkList, Worker
<1>5. RowsOK(d)'
  BY DEF RowsOK, Summed, Indexed, ChunkList
<1> QED
  BY <1>1, <1>2, <1>3, <1>4, <1>5

--------------------------------------------------------------------------------
(******************************************************************************)
(* The gateway.                                                               *)
(******************************************************************************)
(* The steps that touch neither the wire nor a worker. *)
LEMMA StepGatewayQuiet ==
    ASSUME IInv, NEW d \in Doc, UNCHANGED listed,
           \/ Validate(d) \/ Create(d) \/ MarkFailed(d)
           \/ Respond(d) \/ RespondError(d) \/ ClientGone(d)
    PROVE  Custody' /\ \A e \in Doc : DocOK(e)'
<1> USE DEF IInv, TypeInv, TypeOK
<1>1. UNCHANGED <<wire, pc, task, chunks, summaries, embeddings, listed>>
  BY DEF Validate, Create, MarkFailed, Respond, RespondError, ClientGone, StoreOK, StoreError,
    CreateDocument, UpdateDocumentStatus, queue, env, rows
<1>2. Custody'
  BY <1>1 DEF Custody, OneCopy, OneTask, OneWorker, WireOrWorker, Tasks
<1>3. \A e \in Doc : InFlight(e)' = InFlight(e) /\ SameHolders(e)
  BY <1>1 DEF InFlight, Tasks, Busy, SameHolders
<1>4. \A e \in Doc \ {d} : DocOK(e)'
  <2>1. \A e \in Doc \ {d} : SameRows(e)
    BY <1>1 DEF SameRows, Validate, Create, MarkFailed, Respond, RespondError, ClientGone,
      StoreOK, StoreError, CreateDocument, UpdateDocumentStatus, Continue, Return, rows
  <2> QED
    BY <1>3, <2>1, Frame
<1>5. DocOK(d)'
  <2>1. CASE ClientGone(d)
    BY <2>1, <1>1, <1>3, Frame DEF ClientGone, SameRows, rows
  <2>2. CASE Respond(d)
    BY <2>2, <1>3, Answer DEF Respond, Return
  <2>3. CASE Validate(d) \/ Create(d) \/ MarkFailed(d) \/ RespondError(d)
    <3>1. ~InFlight(d) /\ Untouched(d) /\ RowsOK(d)
      BY <2>3 DEF Validate, Create, MarkFailed, RespondError, DocOK, UploadOK, Published
    <3>2. ~InFlight(d)' /\ Untouched(d)'
      BY <3>1, <1>1, <1>3 DEF Untouched
    <3>3. status'[d] # "ready" /\ UploadOK(d)'
      <4> USE <3>2 DEF DocOK, UploadOK, Published, StoreOK, StoreError, rows, Continue, Return
      <4>1. CASE Validate(d)
        BY <4>1 DEF Validate
      <4>2. CASE Create(d)
        BY <4>2 DEF Create, CreateDocument
      <4>3. CASE MarkFailed(d)
        BY <4>3 DEF MarkFailed, UpdateDocumentStatus
      <4>4. CASE RespondError(d)
        <5>1. status[d] # "ready"
          BY <3>1 DEF RowsOK, Untouched, Summed, ChunkList, NoSummary, Part
        <5> QED
          BY <4>4, <5>1 DEF RespondError
      <4> QED
        BY <2>3, <4>1, <4>2, <4>3, <4>4
    <3>4. RowsOK(d)'
      BY <3>2, <3>3 DEF RowsOK, Untouched, Indexed, ChunkList
    <3> QED
      BY <3>2, <3>3, <3>4, Idle
  <2> QED
    BY <2>1, <2>2, <2>3
<1> QED
  BY <1>2, <1>4, <1>5

(* The gateway dies. *)
LEMMA StepGatewayCrash ==
    ASSUME IInv, UNCHANGED listed, GatewayCrash
    PROVE  Custody' /\ \A e \in Doc : DocOK(e)'
<1> USE DEF IInv, TypeInv, TypeOK
<1>1. UNCHANGED <<wire, pc, task, rows, listed>>
  BY DEF GatewayCrash
<1>2. Custody'
  BY <1>1 DEF Custody, OneCopy, OneTask, OneWorker, WireOrWorker, Tasks
<1>3. \A e \in Doc : InFlight(e)' = InFlight(e) /\ SameHolders(e)
  BY <1>1 DEF InFlight, Tasks, Busy, SameHolders
<1>4. ASSUME NEW e \in Doc PROVE DocOK(e)'
  <2>1. CASE upload[e] \notin Handling
    BY <2>1, <1>1, <1>3, Frame DEF GatewayCrash, SameRows, rows
  <2>2. CASE upload[e] = "respond"
    <3>1. upload'[e] = "crashed"
      BY <2>2 DEF GatewayCrash, Handling
    <3> QED
      BY <2>2, <3>1, <1>1, <1>3, Answer
  <2>3. CASE upload[e] \in Handling /\ upload[e] # "respond"
    <3>1. upload'[e] = "crashed"
      BY <2>3 DEF GatewayCrash
    <3>2. ~InFlight(e)' /\ RowsOK(e)'
      BY <2>3, <1>1, <1>3 DEF DocOK, UploadOK, Published, Handling, RowsOK, Summed, Indexed,
        ChunkList, rows
    <3>3. UploadOK(e)'
      BY <2>3, <3>1, <3>2, <1>1 DEF DocOK, UploadOK, Untouched, Published, Handling, rows
    <3> QED
      BY <3>2, <3>3, Idle
  <2> QED
    BY <2>1, <2>2, <2>3
<1> QED
  BY <1>2, <1>4

(* The parse task is published, tried again, or given up. *)
LEMMA StepEnqueueParse ==
    ASSUME IInv, NEW d \in Doc, UNCHANGED listed, EnqueueParse(d)
    PROVE  Custody' /\ \A e \in Doc : DocOK(e)'
<1> USE DEF IInv, TypeInv
<1> DEFINE t == NewTask("parse", d)
<1>1. UNCHANGED <<rows, pc, task, listed>> /\ upload[d] = "enqueue"
  BY DEF EnqueueParse
<1>2. ~InFlight(d) /\ Untouched(d) /\ RowsOK(d) /\ status[d] = "processing"
  BY <1>1 DEF DocOK, UploadOK, Published
<1>3. CASE EnqueueOK(d, t) /\ Continue(d, "respond")
  <2>1. t \in Task /\ t.doc = d /\ t.type = "parse" /\ t.attempts = 0
    BY DEF NewTask, Task, TaskType
  <2> HIDE DEF t
  <2>2. t \notin Tasks
    BY <1>2, <2>1 DEF InFlight
  <2>3. Tasks' = Tasks \cup {t} /\ OneCopy'
    BY <1>3, <2>2, WireAdd DEF EnqueueOK, Custody
  <2>4. Custody'
    BY <1>1, <1>2, <2>1, <2>3, CustodyPublishes
  <2>5. ASSUME NEW e \in Doc \ {d} PROVE DocOK(e)'
    <3>1. SameRows(e)
      BY <1>1, <1>3 DEF Continue, SameRows, rows, TypeOK
    <3>2. SameHolders(e)
      BY <1>1, <2>1, <2>3 DEF SameHolders, Busy
    <3> QED
      BY <3>1, <3>2, Frame
  <2>6. DocOK(d)'
    <3>1. upload'[d] = "respond"
      BY <1>3 DEF Continue, TypeOK
    <3>2. \A w \in Worker : ~Busy(w, d)'
      BY <1>1, <1>2 DEF InFlight, Busy
    <3>3. UploadOK(d)'
      BY <3>1, <1>1, <1>2 DEF UploadOK, Published, rows
    <3>4. WireOK(d)'
      BY <3>1, <1>1, <1>2, <2>1, <2>3 DEF WireOK, ParsePhase, Published, Untouched, InFlight, rows
    <3> QED
      BY <3>2, <3>3, <3>4, <1>1, <1>2 DEF DocOK, ParserOK, AnalysisOK, RowsOK, Summed, Indexed,
        ChunkList, rows, Worker
  <2> QED
    BY <2>4, <2>5, <2>6
<1>4. CASE UNCHANGED wire /\ \E step \in {"enqueue", "markFailed"} : Continue(d, step)
  <2>1. Custody'
    BY <1>1, <1>4 DEF Custody, OneCopy, OneTask, OneWorker, WireOrWorker, Tasks
  <2>2. \A e \in Doc : InFlight(e)' = InFlight(e) /\ SameHolders(e)
    BY <1>1, <1>4 DEF InFlight, Tasks, Busy, SameHolders
  <2>3. ASSUME NEW e \in Doc \ {d} PROVE DocOK(e)'
    <3>1. SameRows(e)
      BY <1>1, <1>4 DEF Continue, SameRows, rows, TypeOK
    <3> QED
      BY <2>2, <3>1, Frame
  <2>4. UploadOK(d)'
    BY <1>1, <1>2, <1>4, <2>2 DEF UploadOK, Continue, Published, Untouched, rows, TypeOK
  <2>5. RowsOK(d)'
    BY <1>1, <1>2 DEF RowsOK, Summed, Indexed, ChunkList, rows
  <2> QED
    BY <1>2, <2>1, <2>2, <2>3, <2>4, <2>5, Idle
<1> QED
  BY <1>3, <1>4 DEF EnqueueParse, EnqueueAgain, EnqueueGivesUp

--------------------------------------------------------------------------------
(******************************************************************************)
(* Workers: a worker in a handler acts on the document of its task alone.     *)
(******************************************************************************)
ActsOn(w, d) ==
    /\ task[w] # NoTask /\ task[w].doc = d
    /\ upload' = upload
    /\ \A e \in Doc \ {d} : SameRows(e)
    /\ \A v \in Worker \ {w} : task'[v] = task[v] /\ pc'[v] = pc[v]
    /\ \A v \in AnalysisWorker \ {w} : listed'[v] = listed[v]
    /\ task'[w] \in {task[w], NoTask}

(* Other documents are not touched; this one has no other task or worker. *)
LEMMA Others ==
    ASSUME IInv, NEW w \in Worker, NEW d \in Doc, ActsOn(w, d),
           \A t \in Tasks' : t \in Tasks \/ t.doc = d
    PROVE  \A e \in Doc \ {d} : DocOK(e)'
<1> SUFFICES ASSUME NEW e \in Doc \ {d} PROVE DocOK(e)'
  OBVIOUS
<1>1. SameRows(e) /\ DocOK(e)
  BY DEF ActsOn, IInv
<1>2. SameHolders(e)
  BY DEF ActsOn, SameHolders, Busy, Worker
<1> QED
  BY <1>1, <1>2, Frame

(* A worker acts on the document of the task it holds. *)
LEMMA Own ==
    ASSUME IInv, NEW w \in Worker, NEW d \in Doc, ActsOn(w, d)
    PROVE  /\ \A t \in Tasks : t.doc # d
           /\ \A v \in Worker : Busy(v, d)' => v = w /\ task'[w] = task[w]
           /\ DocOK(d)
BY DEF IInv, Custody, OneWorker, WireOrWorker, ActsOn, Busy

(* A call of a handler, or the end of one. *)
HandlerCall(w) ==
    /\ UNCHANGED wire
    /\ ActsOn(w, task[w].doc)

(* A call of a handler moves no task: custody stays where it was. *)
LEMMA CustodyHandler ==
    ASSUME IInv, NEW w \in Worker, HandlerCall(w)
    PROVE  Custody'
<1>1. Shrinks
  BY DEF HandlerCall, ActsOn, Shrinks, IInv, Custody, OneCopy, Tasks
<1> QED
  BY <1>1, CustodyShrinks DEF IInv

(* A handler that ends without publishing leaves its document to nobody. *)
LEMMA Leaves ==
    ASSUME IInv, NEW w \in Worker, HandlerCall(w), task'[w] = NoTask, UNCHANGED rows
    PROVE  Custody' /\ \A e \in Doc : DocOK(e)'
<1>1. PICK d \in Doc : d = task[w].doc
  BY DEF IInv, TypeInv, TypeOK, HandlerCall, ActsOn, Task
<1>2. Tasks' = Tasks
  BY DEF HandlerCall, Tasks
<1>3. \A e \in Doc \ {d} : DocOK(e)'
  BY <1>1, <1>2, Others DEF HandlerCall
<1>4. (\A t \in Tasks : t.doc # d) /\ (\A v \in Worker : ~Busy(v, d)') /\ DocOK(d)
  BY <1>1, Own DEF HandlerCall, Busy, TypeInv, TypeOK, IInv
<1>5. ~InFlight(d)'
  BY <1>2, <1>4 DEF InFlight
<1>6. UploadOK(d)' /\ RowsOK(d)'
  BY <1>1, <1>4, <1>5 DEF HandlerCall, ActsOn, DocOK, UploadOK, Untouched, RowsOK, Summed, Indexed,
    ChunkList, rows
<1>7. DocOK(d)'
  BY <1>1, <1>5, <1>6, Idle
<1> QED
  BY <1>3, <1>7, CustodyHandler

(* A worker stops, or something happens to an idle one. *)
LEMMA StepDisrupted ==
    ASSUME IInv, NEW w \in Worker, UNCHANGED <<rows, upload>>,
           HealthServerFails(w) \/ Stop(w) \/ Restart(w),
           \A v \in AnalysisWorker : listed'[v] = listed[v] \/ (v = w /\ Stop(w))
    PROVE  Custody' /\ \A e \in Doc : DocOK(e)'
<1> USE DEF IInv, TypeInv, TypeOK
<1>1. CASE task[w] # NoTask /\ Stop(w)
  <2>1. HandlerCall(w) /\ task'[w] = NoTask
    BY <1>1 DEF HandlerCall, ActsOn, Stop, Release, SameRows, rows
  <2> QED
    BY <2>1, Leaves
<1>2. CASE task[w] = NoTask \/ ~Stop(w)
  <2>1. UNCHANGED <<wire, task>>
    BY <1>2 DEF HealthServerFails, Stop, Restart, Release, Goto, queue
  <2>2. \A v \in Worker : task[v] # NoTask => pc'[v] = pc[v]
    BY <1>2 DEF HealthServerFails, Stop, Restart, Release, Goto, queue, TaskOK, BusyPC
  <2>3. Custody'
    BY <2>1 DEF Custody, OneCopy, OneTask, OneWorker, WireOrWorker, Tasks
  <2>4. ASSUME NEW e \in Doc PROVE DocOK(e)'
    <3>1. SameRows(e)
      BY DEF SameRows, rows
    <3>2. SameHolders(e)
      BY <1>2, <2>1, <2>2 DEF SameHolders, Busy, Tasks
    <3> QED
      BY <3>1, <3>2, Frame
  <2> QED
    BY <2>3, <2>4
<1> QED
  BY <1>1, <1>2

(* A message is lost. *)
LEMMA StepLose ==
    ASSUME IInv, NEW t \in Tasks, Lose(t), UNCHANGED <<rows, upload, listed>>
    PROVE  Custody' /\ \A e \in Doc : DocOK(e)'
<1>1. Tasks' \subseteq Tasks /\ OneCopy' /\ UNCHANGED <<pc, task>>
  BY WireRemove DEF IInv, TypeInv, Custody, Lose
<1>2. Custody'
  BY <1>1, CustodyShrinks DEF Shrinks, IInv
<1>3. ASSUME NEW e \in Doc PROVE DocOK(e)'
  <2>1. SameRows(e) /\ SameHolders(e)
    BY <1>1 DEF SameRows, SameHolders, Busy, rows
  <2> QED
    BY <2>1, Frame DEF IInv
<1> QED
  BY <1>2, <1>3

(* A worker takes a task off the wire: it is now the only one on its document. *)
LEMMA Received ==
    ASSUME IInv, NEW w \in Worker, NEW type, NEW entry, Receive(w, type, entry),
           UNCHANGED <<rows, upload, listed>>
    PROVE  /\ Custody'
           /\ \E d \in Doc :
                /\ \A e \in Doc \ {d} : DocOK(e)'
                /\ UploadOK(d)' /\ WireOK(d)' /\ RowsOK(d)'
                /\ WireOK(d)
                /\ \A v \in Worker : Busy(v, d)' => v = w
                /\ pc'[w] = entry
                /\ task'[w] \in Tasks /\ task'[w].doc = d /\ task'[w].type = type
<1> USE DEF IInv, TypeInv, TypeOK
<1>1. PICK t \in Tasks : t.type = type /\ wire' = BagRemove(wire, t) /\ task' = [task EXCEPT ![w] = t]
  BY DEF Receive, Tasks
<1>2. PICK d \in Doc : d = t.doc
  BY <1>1 DEF Task
<1>3. Tasks' = Tasks \ {t} /\ OneCopy'
  BY <1>1, WireRemove DEF Custody
<1>4. task[w] = NoTask /\ pc' = [pc EXCEPT ![w] = entry]
  BY DEF Receive, TaskOK, BusyPC
<1>5. Custody'
  BY <1>1, <1>3, <1>4, CustodyReceives
<1>6. ASSUME NEW e \in Doc \ {d} PROVE DocOK(e)'
  <2>1. SameRows(e) /\ SameHolders(e)
    BY <1>1, <1>2, <1>3, <1>4 DEF SameRows, SameHolders, Busy, rows
  <2> QED
    BY <2>1, Frame
<1>7. InFlight(d) /\ DocOK(d)
  BY <1>1, <1>2 DEF InFlight
<1>8. UploadOK(d)' /\ RowsOK(d)'
  BY <1>7 DEF DocOK, UploadOK, RowsOK, Summed, Indexed, ChunkList, rows
<1>9. (\A u \in Tasks' : u.doc # d) /\ (\A v \in Worker : Busy(v, d)' => v = w)
  BY <1>1, <1>2, <1>3 DEF Custody, OneTask, WireOrWorker, Busy
<1>10. task'[w] = t /\ pc'[w] = entry
  BY <1>1, <1>4
<1> QED
  BY <1>1, <1>2, <1>5, <1>6, <1>7, <1>8, <1>9, <1>10 DEF WireOK, DocOK

(* A worker publishes a task of its document and is done with it. *)
LEMMA Passed ==
    ASSUME IInv, NEW w \in Worker, NEW d \in Doc, task[w] # NoTask, task[w].doc = d,
           NEW t \in Task, t.doc = d, wire' = BagAdd(wire, t),
           Release(w, "idle"), UNCHANGED <<rows, upload, listed>>,
           t.type = "parse" => ParsePhase(d) /\ chunks[d] <= t.attempts,
           t.type = "analyze" => AnalysisPhase(d)
    PROVE  Custody' /\ \A e \in Doc : DocOK(e)'
<1> USE DEF IInv, TypeInv, TypeOK
<1>1. ActsOn(w, d) /\ task' = [task EXCEPT ![w] = NoTask] /\ task'[w] = NoTask
  BY DEF ActsOn, Release, SameRows, rows
<1>2. /\ \A u \in Tasks : u.doc # d
      /\ \A v \in Worker : ~Busy(v, d)'
      /\ DocOK(d)
  BY <1>1, Own DEF Busy
<1>3. Tasks' = Tasks \cup {t} /\ OneCopy'
  BY <1>2, WireAdd DEF Custody
<1>4. Custody'
  BY <1>1, <1>3, CustodyPasses
<1>5. \A e \in Doc \ {d} : DocOK(e)'
  BY <1>1, <1>3, Others
<1>6. upload[d] \in Published /\ status[d] # "failed"
  BY DEF ParsePhase, AnalysisPhase, Task, TaskType
<1>7. UploadOK(d)' /\ RowsOK(d)'
  BY <1>2, <1>6 DEF DocOK, UploadOK, Published, RowsOK, Summed, Indexed, ChunkList, rows
<1>8. WireOK(d)'
  BY <1>2, <1>3 DEF WireOK, ParsePhase, AnalysisPhase, rows
<1>9. DocOK(d)'
  BY <1>2, <1>7, <1>8 DEF DocOK, ParserOK, AnalysisOK, Worker
<1> QED
  BY <1>4, <1>5, <1>9

(* What a worker in a handler knows of its document. *)
LEMMA Knows ==
    ASSUME IInv, NEW w \in Worker, task[w] # NoTask
    PROVE  /\ task[w] \in Task
           /\ \E d \in Doc : task[w].doc = d /\ Busy(w, d) /\ DocOK(d)
           /\ w \in ParserWorker => task[w].type = "parse"
           /\ w \in AnalysisWorker => task[w].type = "analyze"
BY DEF IInv, TypeInv, TypeOK, TaskOK, Busy, Task

(* A failed handler publishes its task again, or drops it. *)
LEMMA StepRetry ==
    ASSUME IInv, NEW w \in Worker, retryTask(w), UNCHANGED <<rows, upload, listed>>
    PROVE  Custody' /\ \A e \in Doc : DocOK(e)'
<1>1. task[w] # NoTask
  BY DEF retryTask, PublishAgain, NextAttempt, IInv, TypeInv, TaskOK, BusyPC
<1>2. PICK d \in Doc : task[w].doc = d /\ Busy(w, d) /\ DocOK(d)
  BY <1>1, Knows
<1> DEFINE t == [task[w] EXCEPT !.attempts = @ + 1]
<1>3. t \in Task /\ t.doc = d /\ t.type = task[w].type /\ t.attempts = task[w].attempts + 1
  BY <1>1, <1>2, Knows DEF Task
<1>4. t.type = "parse" => ParsePhase(d) /\ chunks[d] <= t.attempts
  BY <1>1, <1>2, <1>3, Knows DEF DocOK, ParserOK, Worker
<1>5. t.type = "analyze" => AnalysisPhase(d)
  BY <1>1, <1>2, <1>3, Knows DEF DocOK, AnalysisOK, Worker
<1>6. CASE wire' = BagAdd(wire, t)
  <2> HIDE DEF t
  <2> QED
    BY <1>1, <1>2, <1>3, <1>4, <1>5, <1>6, Passed DEF retryTask, PublishAgain, NextAttempt
<1>7. CASE UNCHANGED wire
  <2>1. HandlerCall(w) /\ task'[w] = NoTask
    BY <1>1, <1>7 DEF HandlerCall, ActsOn, retryTask, PublishAgain, NextAttempt, Release, SameRows, rows, IInv, TypeInv, TypeOK
  <2> QED
    BY <2>1, Leaves
<1> QED
  BY <1>6, <1>7 DEF retryTask, PublishAgain, NextAttempt

--------------------------------------------------------------------------------
(******************************************************************************)
(* The parser.                                                                *)
(******************************************************************************)
(* A parser that takes a parse task keeps the invariant. *)
LEMMA StepReceiveParse ==
    ASSUME IInv, NEW w \in ParserWorker, ReceiveParse(w), UNCHANGED <<upload, listed>>
    PROVE  Custody' /\ \A e \in Doc : DocOK(e)'
<1>1. w \in Worker /\ w \notin AnalysisWorker
  BY DEF Worker
<1>2. Custody'
  BY <1>1, Received DEF ReceiveParse
<1>3. PICK d \in Doc :
        /\ \A e \in Doc \ {d} : DocOK(e)'
        /\ UploadOK(d)' /\ WireOK(d)' /\ RowsOK(d)'
        /\ WireOK(d)
        /\ \A v \in Worker : Busy(v, d)' => v = w
        /\ pc'[w] = "saveChunks"
        /\ task'[w] \in Tasks /\ task'[w].doc = d /\ task'[w].type = "parse"
  BY <1>1, Received DEF ReceiveParse
<1>4. ParsePhase(d) /\ chunks[d] <= task'[w].attempts
  BY <1>3 DEF WireOK
<1>5. task'[w].attempts \in Nat /\ chunks[d] \in Nat
  BY <1>3 DEF IInv, TypeInv, TypeOK, Task
<1>6. ParserOK(d)'
  BY <1>3, <1>4, <1>5 DEF ParserOK, ParsePhase, ReceiveParse, rows, Worker
<1>7. AnalysisOK(d)'
  BY <1>1, <1>3 DEF AnalysisOK, Worker
<1> QED
  BY <1>2, <1>3, <1>6, <1>7 DEF DocOK

(* A call of a parser's handler keeps the invariant if it does so for rows,   *)
(* upload and the parser itself.                                              *)
LEMMA ParserCall ==
    ASSUME IInv, NEW w \in ParserWorker, HandlerCall(w), task' = task,
           NEW d \in Doc, task[w].doc = d, RowsOK(d)',
           ParsePhase(d)',
           pc'[w] = "saveChunks" => chunks'[d] <= task[w].attempts,
           chunks'[d] <= task[w].attempts + 1
    PROVE  Custody' /\ \A e \in Doc : DocOK(e)'
<1>1. w \in Worker /\ w \notin AnalysisWorker
  BY DEF Worker
<1>2. ActsOn(w, d) /\ Tasks' = Tasks
  BY DEF HandlerCall, Tasks
<1>3. Custody' /\ \A e \in Doc \ {d} : DocOK(e)'
  BY <1>1, <1>2, Others, CustodyHandler
<1>4. (\A t \in Tasks : t.doc # d) /\ (\A v \in Worker : Busy(v, d)' => v = w)
  BY <1>1, <1>2, Own
<1>5. UploadOK(d)'
  BY DEF UploadOK, ParsePhase, Published
<1>6. WireOK(d)' /\ AnalysisOK(d)'
  BY <1>1, <1>2, <1>4 DEF WireOK, AnalysisOK, Worker
<1>7. ParserOK(d)'
  BY <1>4 DEF ParserOK, Worker
<1> QED
  BY <1>3, <1>5, <1>6, <1>7 DEF DocOK

(* The chunk rows stored so far never exceed the attempts made. *)
LEMMA StepStoreChunks ==
    ASSUME IInv, NEW w \in ParserWorker, StoreChunks(w), UNCHANGED <<upload, listed>>
    PROVE  Custody' /\ \A e \in Doc : DocOK(e)'
<1>1. w \in Worker /\ task[w] # NoTask
  BY DEF Worker, StoreChunks, IInv, TypeInv, TaskOK, BusyPC
<1>2. PICK d \in Doc : task[w].doc = d /\ Busy(w, d) /\ DocOK(d)
  BY <1>1, Knows
<1>3. \E label \in {"enqueue", "retry"} : pc' = [pc EXCEPT ![w] = label] /\ task' = task
  BY DEF StoreChunks, Goto
<1>4. /\ chunks' = chunks \/ chunks' = [chunks EXCEPT ![d] = @ + 1]
      /\ UNCHANGED <<status, summaries, embeddings, wire>>
  BY <1>2 DEF StoreChunks, StoreOK, StoreError, SaveChunks, rows
<1>5. HandlerCall(w)
  BY <1>1, <1>2, <1>3, <1>4 DEF HandlerCall, ActsOn, SameRows, IInv, TypeInv, TypeOK
<1>6. ParsePhase(d) /\ chunks[d] <= task[w].attempts
  BY <1>2 DEF DocOK, ParserOK, StoreChunks
<1>7. chunks[d] \in Nat /\ task[w].attempts \in Nat /\ task[w].attempts < MaxAttempts
  BY <1>1 DEF IInv, TypeInv, TypeOK, TaskOK, Task
<1>8. chunks'[d] <= task[w].attempts + 1
  BY <1>4, <1>6, <1>7 DEF IInv, TypeInv, TypeOK
<1>9. RowsOK(d)' /\ ParsePhase(d)'
  <2>1. chunks'[d] \in Nat /\ chunks'[d] <= MaxAttempts
    BY <1>4, <1>7, <1>8 DEF IInv, TypeInv, TypeOK
  <2>2. ParsePhase(d)'
    BY <1>4, <1>6 DEF ParsePhase
  <2> QED
    BY <2>1, <2>2 DEF RowsOK, ParsePhase, Indexed, ChunkList
<1>10. pc'[w] # "saveChunks"
  BY <1>1, <1>3 DEF IInv, TypeInv, TypeOK
<1> QED
  BY <1>2, <1>3, <1>5, <1>8, <1>9, <1>10, ParserCall

(* The analyze task takes the place of the parse task, or is given up. *)
LEMMA StepEnqueueAnalyze ==
    ASSUME IInv, NEW w \in ParserWorker, EnqueueAnalyze(w), UNCHANGED <<upload, listed>>
    PROVE  Custody' /\ \A e \in Doc : DocOK(e)'
<1>1. w \in Worker /\ task[w] # NoTask
  BY DEF Worker, EnqueueAnalyze, IInv, TypeInv, TaskOK, BusyPC
<1>2. PICK d \in Doc : task[w].doc = d /\ Busy(w, d) /\ DocOK(d)
  BY <1>1, Knows
<1>3. ParsePhase(d) /\ chunks[d] <= task[w].attempts + 1 /\ RowsOK(d) /\ UNCHANGED rows
  BY <1>2 DEF DocOK, ParserOK, EnqueueAnalyze
<1> DEFINE t == NewTask("analyze", d)
<1>4. CASE EnqueueOK(w, t) /\ Release(w, "idle")
  <2>1. t \in Task /\ t.doc = d /\ t.type = "analyze" /\ AnalysisPhase(d)
    BY <1>3 DEF NewTask, Task, TaskType, ParsePhase, AnalysisPhase
  <2> HIDE DEF t
  <2> QED
    BY <1>1, <1>2, <1>3, <1>4, <2>1, Passed DEF EnqueueOK
<1>5. CASE UNCHANGED wire /\ \E label \in {"enqueue", "retry"} : Goto(w, label)
  <2>1. HandlerCall(w) /\ task' = task /\ pc'[w] # "saveChunks"
    BY <1>1, <1>3, <1>5 DEF Goto, HandlerCall, ActsOn, SameRows, rows, IInv, TypeInv, TypeOK
  <2>2. RowsOK(d)' /\ ParsePhase(d)' /\ chunks'[d] <= task[w].attempts + 1
    BY <1>3 DEF RowsOK, ParsePhase, Summed, Indexed, ChunkList, rows
  <2> QED
    BY <1>2, <2>1, <2>2, ParserCall
<1> QED
  BY <1>2, <1>4, <1>5 DEF EnqueueAnalyze, EnqueueAgain, EnqueueGivesUp

(* A step of a parser keeps the invariant. *)
LEMMA StepParser == IInv /\ ParserNext => Custody' /\ \A e \in Doc : DocOK(e)'
<1> SUFFICES ASSUME IInv, NEW w \in ParserWorker, UNCHANGED <<upload, listed>>,
                    ParserStep(w) \/ ParserDisrupted(w)
             PROVE  Custody' /\ \A e \in Doc : DocOK(e)'
  BY DEF ParserNext
<1>1. CASE handleParse(w)
  BY <1>1, StepStoreChunks, StepEnqueueAnalyze DEF handleParse
<1>2. CASE ReceiveParse(w)
  BY <1>2, StepReceiveParse
<1>3. CASE retryTask(w) /\ UNCHANGED rows
  BY <1>3, StepRetry DEF Worker
<1>4. CASE ParserDisrupted(w)
  BY <1>4, StepDisrupted DEF ParserDisrupted, Worker
<1> QED
  BY <1>1, <1>2, <1>3, <1>4 DEF ParserStep

--------------------------------------------------------------------------------
(******************************************************************************)
(* The analysis.                                                              *)
(******************************************************************************)
(* An analysis worker that takes an analyze task keeps the invariant. *)
LEMMA StepReceiveAnalyze ==
    ASSUME IInv, NEW w \in AnalysisWorker, ReceiveAnalyze(w), UNCHANGED upload
    PROVE  Custody' /\ \A e \in Doc : DocOK(e)'
<1>1. w \in Worker /\ w \notin ParserWorker
  BY DEF Worker
<1>2. Custody'
  BY <1>1, Received DEF ReceiveAnalyze
<1>3. PICK d \in Doc :
        /\ \A e \in Doc \ {d} : DocOK(e)'
        /\ UploadOK(d)' /\ WireOK(d)' /\ RowsOK(d)'
        /\ WireOK(d)
        /\ \A v \in Worker : Busy(v, d)' => v = w
        /\ pc'[w] = "listChunks"
        /\ task'[w] \in Tasks /\ task'[w].doc = d /\ task'[w].type = "analyze"
  BY <1>1, Received DEF ReceiveAnalyze
<1>4. AnalysisPhase(d)
  BY <1>3 DEF WireOK
<1>5. AnalysisOK(d)'
  BY <1>3, <1>4 DEF AnalysisOK, AnalysisPhase, ReceiveAnalyze, rows, Worker
<1>6. ParserOK(d)'
  BY <1>1, <1>3 DEF ParserOK, Worker
<1> QED
  BY <1>2, <1>3, <1>5, <1>6 DEF DocOK

\* What AnalysisOK says of a worker's next step.
Holds(w, d) ==
    /\ pc[w] \in AnalysisLabel \ {"listChunks"} => listed[w] \in ChunkList(d)
    /\ pc[w] \in {"getDocument", "embedBatch", "saveEmbeddings", "markReady"} => Summed(d)
    /\ pc[w] = "markReady" => Indexed(d)

(* A call of an analysis handler keeps the invariant if it does so for rows,  *)
(* status and the worker itself.                                              *)
LEMMA AnalysisCall ==
    ASSUME IInv, NEW w \in AnalysisWorker, HandlerCall(w),
           NEW d \in Doc, task[w].doc = d, RowsOK(d)',
           status'[d] \in {"processing", "ready"},
           task'[w] # NoTask => Holds(w, d)'
    PROVE  Custody' /\ \A e \in Doc : DocOK(e)'
<1>1. w \in Worker /\ w \notin ParserWorker
  BY DEF Worker
<1>2. ActsOn(w, d) /\ Tasks' = Tasks
  BY DEF HandlerCall, Tasks
<1>3. Custody' /\ \A e \in Doc \ {d} : DocOK(e)'
  BY <1>1, <1>2, Others, CustodyHandler
<1>4. /\ \A t \in Tasks : t.doc # d
      /\ \A v \in Worker : Busy(v, d)' => v = w
      /\ DocOK(d)
  BY <1>1, <1>2, Own
<1>5. upload[d] \in Published
  BY <1>1, <1>2, <1>4 DEF ActsOn, DocOK, AnalysisOK, AnalysisPhase, Busy
<1>6. UploadOK(d)'
  BY <1>2, <1>5 DEF ActsOn, UploadOK, Published
<1>7. WireOK(d)' /\ ParserOK(d)'
  BY <1>1, <1>2, <1>4 DEF WireOK, ParserOK, Worker
<1>8. AnalysisOK(d)'
  BY <1>2, <1>4, <1>5 DEF AnalysisOK, AnalysisPhase, Holds, ActsOn, Busy, Worker
<1> QED
  BY <1>3, <1>6, <1>7, <1>8 DEF DocOK

(* What the calls of handleAnalyze have in common. *)
LEMMA CallEffect ==
    ASSUME IInv, NEW w \in AnalysisWorker, handleAnalyze(w), UNCHANGED upload,
           NEW d \in Doc, task[w].doc = d
    PROVE  /\ HandlerCall(w)
           /\ Holds(w, d) /\ RowsOK(d) /\ status[d] \in {"processing", "ready"}
           /\ UNCHANGED chunks
<1> USE DEF IInv, TypeInv, TypeOK
<1>1. w \in Worker /\ BusyPC(w) /\ HandlerMoves(w) /\ UNCHANGED wire
  BY HandlerStep DEF Worker
<1>2. task[w] # NoTask /\ Busy(w, d)
  BY <1>1 DEF TaskOK, Busy
<1>3. /\ \A e \in Doc \ {d} : SameRows(e)
      /\ UNCHANGED chunks
  BY DEF handleAnalyze, ListChunks, Summarize, StoreSummary, GetDocument, Compute, EmbedBatch,
    StoreEmbeddings, MarkReady, StoreOK, StoreError, FailCall, SaveSummary, SaveEmbeddings,
    UpdateDocumentStatus, SameRows, rows
<1>4. \A v \in AnalysisWorker \ {w} : listed'[v] = listed[v]
  BY DEF handleAnalyze, ListChunks, Summarize, StoreSummary, GetDocument, Compute, EmbedBatch,
    StoreEmbeddings, MarkReady, FailCall, Forget
<1>5. \A v \in Worker \ {w} : task'[v] = task[v] /\ pc'[v] = pc[v]
  BY <1>1 DEF HandlerMoves
<1>6. task'[w] \in {task[w], NoTask}
  BY <1>1 DEF HandlerMoves
<1>7. HandlerCall(w)
  BY <1>1, <1>2, <1>3, <1>4, <1>5, <1>6 DEF HandlerCall, ActsOn
<1> QED
  BY <1>2, <1>3, <1>7 DEF DocOK, AnalysisOK, AnalysisPhase, Holds

(* The vectors of a list, added to none or to those of another list, are      *)
(* again what a list may give.                                                *)
LEMMA JointFacts ==
    ASSUME TypeOK, NEW d \in Doc, NEW n \in ChunkList(d), Indexed(d) \/ embeddings[d] = 0
    PROVE  Joint(d, embeddings[d], n) \subseteq ChunkList(d)
<1>1. chunks[d] \in Nat /\ embeddings[d] \in {0, Part} \cup ChunkList(d)
  BY DEF TypeOK, Indexed
<1>2. CASE n = Part
  BY <1>1, <1>2 DEF Joint, ChunkList, Part
<1>3. CASE n # Part
  <2>1. n = chunks[d] /\ embeddings[d] \in {0, Part, n}
    BY <1>1, <1>3 DEF ChunkList, Indexed
  <2>2. Joint(d, embeddings[d], n) = {IF n > embeddings[d] THEN n ELSE embeddings[d]}
    BY <1>3 DEF Joint
  <2>3. embeddings[d] = Part => chunks[d] > 0
    BY <1>1, <2>1 DEF ChunkList, Indexed, Part
  <2> QED
    BY <1>1, <2>1, <2>2, <2>3 DEF ChunkList, Part
<1> QED
  BY <1>2, <1>3

(* Each call keeps the document's rows, and what its worker holds, in order.  *)
LEMMA StepHandleAnalyze ==
    ASSUME IInv, NEW w \in AnalysisWorker, handleAnalyze(w), UNCHANGED upload
    PROVE  Custody' /\ \A e \in Doc : DocOK(e)'
<1> USE DEF IInv, TypeInv, TypeOK, AnalysisLabel
<1>1. w \in Worker /\ BusyPC(w) /\ task[w] # NoTask
  BY HandlerStep DEF Worker, TaskOK
<1>2. PICK d \in Doc : task[w].doc = d
  BY <1>1, Knows
<1>3. /\ HandlerCall(w)
      /\ Holds(w, d) /\ RowsOK(d) /\ status[d] \in {"processing", "ready"}
      /\ chunks' = chunks
  BY <1>2, CallEffect
<1> SUFFICES RowsOK(d)' /\ status'[d] \in {"processing", "ready"} /\ (task'[w] # NoTask => Holds(w, d)')
  BY <1>2, <1>3, AnalysisCall
<1>4. chunks[d] \in Nat /\ ChunkList(d)' = ChunkList(d) /\ NoSummary \notin ChunkList(d)
  BY <1>3 DEF NoSummary, Part, ChunkList
<1> DEFINE Kept == RowsOK(d)' /\ status'[d] \in {"processing", "ready"}
<1>5. ASSUME UNCHANGED rows PROVE Kept /\ Summed(d)' = Summed(d) /\ Indexed(d)' = Indexed(d)
  BY <1>3, <1>4, <1>5 DEF RowsOK, Summed, Indexed, rows
<1>6. ASSUME listed[w] \in ChunkList(d), SaveSummary(d, listed[w]) PROVE Kept /\ Summed(d)'
  <2>1. summaries'[d] \in ChunkList(d)' /\ UNCHANGED <<status, chunks, embeddings>>
    BY <1>4, <1>6 DEF SaveSummary
  <2> QED
    BY <1>3, <1>4, <2>1 DEF RowsOK, Summed, Indexed
<1>7. ASSUME listed[w] \in ChunkList(d), Summed(d), SaveEmbeddings(d, listed[w])
      PROVE  Kept /\ Summed(d)' /\ Indexed(d)'
  <2>1. Joint(d, embeddings[d], listed[w]) \subseteq ChunkList(d)
    BY <1>3, <1>7, JointFacts DEF RowsOK
  <2>2. embeddings'[d] \in ChunkList(d)' /\ UNCHANGED <<status, chunks, summaries>>
    BY <1>4, <1>7, <2>1 DEF SaveEmbeddings
  <2> QED
    BY <1>3, <1>4, <1>7, <2>2 DEF RowsOK, Summed, Indexed
<1>8. ASSUME Summed(d), Indexed(d), UpdateDocumentStatus(d, "ready") PROVE Kept
  <2>1. status'[d] = "ready" /\ UNCHANGED <<chunks, summaries, embeddings>>
    BY <1>8 DEF UpdateDocumentStatus
  <2> QED
    BY <1>3, <1>4, <1>8, <2>1 DEF RowsOK, Summed, Indexed
<1>9. ASSUME NEW label, Goto(w, label) PROVE pc'[w] = label /\ task'[w] # NoTask
  BY <1>1, <1>9 DEF Goto
<1>10. ASSUME Goto(w, "retry") PROVE Holds(w, d)'
  BY <1>9, <1>10 DEF Holds
<1> USE DEF StoreOK, StoreError, FailCall
<1> HIDE DEF IInv, TypeInv, TypeOK, Kept
<1>11. CASE ListChunks(w)
  <2>1. UNCHANGED rows
    BY <1>11 DEF ListChunks
  <2>2. CASE /\ \E list \in ChunkList(d) : listed' = [listed EXCEPT ![w] = list]
             /\ Goto(w, "summarize")
    <3>1. listed'[w] \in ChunkList(d)'
      BY <1>4, <2>2 DEF IInv, TypeInv, TypeOK
    <3> QED
      BY <1>5, <1>9, <2>1, <2>2, <3>1 DEF Holds, Kept
  <2> QED
    BY <1>2, <1>5, <1>10, <1>11, <2>1, <2>2 DEF ListChunks, Kept
<1>12. CASE Summarize(w)
  BY <1>3, <1>4, <1>5, <1>9, <1>10, <1>12 DEF Summarize, Compute, Holds, Kept
<1>13. CASE StoreSummary(w)
  <2>1. listed[w] \in ChunkList(d)
    BY <1>3, <1>13 DEF StoreSummary, Holds
  <2> QED
    BY <1>2, <1>3, <1>4, <1>5, <1>6, <1>9, <1>10, <1>13, <2>1 DEF StoreSummary, Holds, Kept
<1>14. CASE GetDocument(w)
  <2>1. UNCHANGED rows /\ listed[w] \in ChunkList(d) /\ Summed(d)
    BY <1>3, <1>14 DEF GetDocument, Compute, Holds
  <2>2. CASE Goto(w, "embedBatch") /\ UNCHANGED listed
    BY <1>3, <1>4, <1>5, <1>9, <2>1, <2>2 DEF Holds, Kept
  <2> QED
    BY <1>5, <1>10, <1>14, <2>1, <2>2 DEF GetDocument, Compute, Kept
<1>15. CASE EmbedBatch(w)
  BY <1>3, <1>4, <1>5, <1>9, <1>10, <1>15 DEF EmbedBatch, Holds, Kept
<1>16. CASE StoreEmbeddings(w)
  <2>1. listed[w] \in ChunkList(d) /\ Summed(d)
    BY <1>3, <1>16 DEF StoreEmbeddings, Holds
  <2>2. listed[w] = 0 => Indexed(d)
    BY <1>3, <1>4, <2>1 DEF RowsOK, Indexed, ChunkList, Part
  <2> QED
    BY <1>2, <1>3, <1>4, <1>5, <1>7, <1>9, <1>10, <1>16, <2>1, <2>2 DEF StoreEmbeddings, Holds, Kept
<1>17. CASE MarkReady(w)
  <2>1. Summed(d) /\ Indexed(d)
    BY <1>3, <1>17 DEF MarkReady, Holds
  <2>2. Release(w, "idle") => task'[w] = NoTask
    BY <1>1 DEF Release, IInv, TypeInv, TypeOK
  <2> QED
    BY <1>2, <1>5, <1>8, <1>10, <1>17, <2>1, <2>2 DEF MarkReady, Kept
<1> QED
  BY <1>11, <1>12, <1>13, <1>14, <1>15, <1>16, <1>17 DEF handleAnalyze

(* A step of an analysis worker keeps the invariant. *)
LEMMA StepAnalysis == IInv /\ AnalysisNext => Custody' /\ \A e \in Doc : DocOK(e)'
<1> SUFFICES ASSUME IInv, NEW w \in AnalysisWorker, UNCHANGED upload,
                    AnalysisStep(w) \/ AnalysisDisrupted(w)
             PROVE  Custody' /\ \A e \in Doc : DocOK(e)'
  BY DEF AnalysisNext
<1>1. CASE handleAnalyze(w)
  BY <1>1, StepHandleAnalyze
<1>2. CASE ReceiveAnalyze(w)
  BY <1>2, StepReceiveAnalyze
<1>3. CASE retryTask(w) /\ UNCHANGED <<rows, listed>>
  BY <1>3, StepRetry DEF Worker
<1>4. CASE AnalysisDisrupted(w)
  <2>1. \A v \in AnalysisWorker : listed'[v] = listed[v] \/ (v = w /\ Stop(w))
    BY <1>4 DEF AnalysisDisrupted, Forget, IInv, TypeInv, TypeOK
  <2> QED
    BY <1>4, <2>1, StepDisrupted DEF AnalysisDisrupted, Worker
<1> QED
  BY <1>1, <1>2, <1>3, <1>4 DEF AnalysisStep

--------------------------------------------------------------------------------
(******************************************************************************)
(* The invariant, and what follows from it.                                   *)
(******************************************************************************)
(* The initial state satisfies the invariant: nothing is stored or sent. *)
LEMMA InitIInv == Init => IInv
<1> SUFFICES ASSUME Init PROVE IInv
  OBVIOUS
<1>1. TypeInv
  BY TypeInit
<1>2. Tasks = {} /\ \A w \in Worker : task[w] = NoTask
  BY DEF Init, QueueInit, Tasks, EmptyBag, SetToBag, BagToSet
<1>3. Custody
  BY <1>2 DEF Custody, OneCopy, OneTask, OneWorker, WireOrWorker
<1>4. ASSUME NEW d \in Doc PROVE DocOK(d)
  <2>1. upload[d] = "validate" /\ status[d] = "none" /\ Untouched(d) /\ ~InFlight(d)
    BY <1>2 DEF Init, StoreInit, GatewayInit, Untouched, InFlight, Busy
  <2>2. UploadOK(d) /\ RowsOK(d)
    BY <2>1 DEF UploadOK, RowsOK, Untouched, Indexed, ChunkList, Published
  <2> QED
    BY <1>2, <2>2 DEF DocOK, WireOK, ParserOK, AnalysisOK, Busy, Worker
<1> QED
  BY <1>1, <1>3, <1>4 DEF IInv

(* Every step of the specification keeps the invariant. *)
LEMMA StepIInv == IInv /\ [Next]_vars => IInv'
<1> SUFFICES ASSUME IInv, [Next]_vars PROVE Custody' /\ \A e \in Doc : DocOK(e)'
  BY TypeStep DEF IInv
<1>1. CASE GatewayNext
  BY <1>1, StepGatewayQuiet, StepGatewayCrash, StepEnqueueParse DEF GatewayNext, uploadHandler
<1>2. CASE ParserNext
  BY <1>2, StepParser
<1>3. CASE AnalysisNext
  BY <1>3, StepAnalysis
<1>4. CASE NetworkNext
  BY <1>4, StepLose DEF NetworkNext
<1>5. CASE UNCHANGED vars
  <2>1. Custody'
    BY <1>5 DEF IInv, Custody, OneCopy, OneTask, OneWorker, WireOrWorker, Tasks, vars, queue
  <2>2. ASSUME NEW e \in Doc PROVE DocOK(e)'
    <3>1. SameRows(e) /\ SameHolders(e)
      BY <1>5 DEF SameRows, SameHolders, Busy, Tasks, vars, queue, rows
    <3> QED
      BY <3>1, Frame DEF IInv
  <2> QED
    BY <2>1, <2>2
<1> QED
  BY <1>1, <1>2, <1>3, <1>4, <1>5 DEF Next

(* The inductive invariant holds in every reachable state. *)
THEOREM InvariantHolds == Spec => []IInv
  BY InitIInv, StepIInv, PTL DEF Spec
================================================================================
