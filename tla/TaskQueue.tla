------------------------------- MODULE TaskQueue -------------------------------
(******************************************************************************)
(* internal/queue over core NATS, as far as its users can tell: a bag of      *)
(* published tasks, each delivered at most once to one idle worker of its     *)
(* queue group, in any order; the retry loop around a handler that fails; the *)
(* bounded publish of EnqueueWithRetry.  A task that is in a worker's hands   *)
(* is nowhere else: NATS keeps no copy and nothing is acknowledged.           *)
(*                                                                            *)
(* A task's payload is the document it names.  Waiting for NotBefore and for  *)
(* a backoff delay is taking a step later.                                    *)
(******************************************************************************)
EXTENDS BagsExt, Bags, Environment

CONSTANTS
    MaxAttempts,      \* retryTask: 5 when the task does not say
    EnqueueAttempts,  \* EnqueueWithRetry: 3 at both call sites
    NoTask            \* a worker without a task

ASSUME AttemptsAssumption ==
    MaxAttempts \in Nat \ {0} /\ EnqueueAttempts \in Nat \ {0}

TaskType == {"parse", "analyze"}
Task == [type : TaskType, doc : Doc, attempts : Nat]
NewTask(type, d) == [type |-> type, doc |-> d, attempts |-> 0]

ASSUME NoTaskAssumption == NoTask \notin Task

VARIABLES
    wire,     \* the bag of tasks published and not yet in a worker's hands
    pc,       \* pc[w]: the next step of the code worker w runs
    task,     \* task[w]: the task worker w is handling
    tries     \* tries[p]: failed publishes of p's running EnqueueWithRetry

queue == <<wire, pc, task, tries>>

QueueInit ==
    /\ wire = EmptyBag
    /\ pc = [w \in Worker |-> "idle"]
    /\ task = [w \in Worker |-> NoTask]
    /\ tries = [p \in Caller |-> 0]

--------------------------------------------------------------------------------
(******************************************************************************)
(* EnqueueWithRetry.  The context is looked at only between two attempts; a   *)
(* failed publish delivers nothing.                                           *)
(******************************************************************************)
MayPublish(p) == tries[p] = 0 \/ p \notin cancelled

EnqueueOK(p, t) ==
    /\ MayPublish(p)
    /\ wire' = BagAdd(wire, t)
    /\ tries' = [tries EXCEPT ![p] = 0]
    /\ UNCHANGED errors

\* Variants: a count of attempts that is off by one, and none at all.
EnqueueOnceMore(p) ==
    MayPublish(p) /\ CallError /\ UNCHANGED wire
        /\ tries[p] + 1 <= EnqueueAttempts /\ tries' = [tries EXCEPT ![p] = @ + 1]
EnqueueForever(p) ==
    MayPublish(p) /\ CallError /\ UNCHANGED wire
        /\ tries' = [tries EXCEPT ![p] = (@ + 1) % EnqueueAttempts]

EnqueueAgain(p) ==
    /\ MayPublish(p)
    /\ tries[p] + 1 < EnqueueAttempts
    /\ CallError
    /\ tries' = [tries EXCEPT ![p] = @ + 1]
    /\ UNCHANGED wire

EnqueueGivesUp(p) ==
    /\ \/ MayPublish(p) /\ tries[p] + 1 = EnqueueAttempts /\ CallError
       \/ tries[p] > 0 /\ p \in cancelled /\ UNCHANGED errors
    /\ tries' = [tries EXCEPT ![p] = 0]
    /\ UNCHANGED wire

--------------------------------------------------------------------------------
(******************************************************************************)
(* Worker and handleMessage: a handler runs from Receive to Finish or to      *)
(* retryTask, and its worker takes nothing else meanwhile.                    *)
(******************************************************************************)
Goto(w, label) == pc' = [pc EXCEPT ![w] = label] /\ UNCHANGED task

Release(w, label) ==
    /\ pc' = [pc EXCEPT ![w] = label]
    /\ task' = [task EXCEPT ![w] = NoTask]

\* A variant: the message stays to be delivered again.
ReceiveKept(w, type, entry) ==
    /\ pc[w] = "idle"
    /\ \E t \in BagToSet(wire) : t.type = type /\ task' = [task EXCEPT ![w] = t]
    /\ pc' = [pc EXCEPT ![w] = entry]
    /\ UNCHANGED <<wire, tries, env>>

Receive(w, type, entry) ==
    /\ pc[w] = "idle"
    /\ \E t \in BagToSet(wire) :
        /\ t.type = type
        /\ wire' = BagRemove(wire, t)
        /\ task' = [task EXCEPT ![w] = t]
    /\ pc' = [pc EXCEPT ![w] = entry]
    /\ UNCHANGED <<tries, env>>

\* The handler returned an error: the task is published again, or dropped.
\* Enqueue does not look at the context.
PublishAgain(w, t, again) ==
    /\ pc[w] = "retry"
    /\ \/ again /\ wire' = BagAdd(wire, t) /\ UNCHANGED errors
       \/ again /\ CallError /\ UNCHANGED wire
       \/ ~again /\ UNCHANGED <<wire, errors>>
    /\ Release(w, "idle")
    /\ UNCHANGED <<tries, cancelled>>

NextAttempt(w) == [task[w] EXCEPT !.attempts = @ + 1]

\* Variants: the limit off by one, either way, and attempts that are not counted.
retryTaskOnceMore(w) ==
    PublishAgain(w, NextAttempt(w), NextAttempt(w).attempts <= MaxAttempts)
retryTaskOnceLess(w) ==
    PublishAgain(w, NextAttempt(w), NextAttempt(w).attempts + 1 < MaxAttempts)
retryTaskUncounted(w) == PublishAgain(w, task[w], task[w].attempts < MaxAttempts)

retryTask(w) == PublishAgain(w, NextAttempt(w), NextAttempt(w).attempts < MaxAttempts)

--------------------------------------------------------------------------------
(******************************************************************************)
(* What the deployment does to a worker and to a message.                     *)
(******************************************************************************)
\* The health server fails, which ends the process: errgroup cancels the
\* context of the queue worker while a handler may still run.
HealthServerFails(w) ==
    /\ "crash" \in Disruptions
    /\ pc[w] # "down"
    /\ Cancel(w)
    /\ UNCHANGED queue

\* The process ends with whatever its handler was doing: it crashes, or its
\* context was cancelled and main returns.
Stop(w) ==
    /\ pc[w] # "down"
    /\ "crash" \in Disruptions
    /\ Release(w, "down")
    /\ tries' = [tries EXCEPT ![w] = 0]
    /\ cancelled' = cancelled \ {w}
    /\ UNCHANGED <<wire, errors>>

Restart(w) == pc[w] = "down" /\ Goto(w, "idle") /\ UNCHANGED <<wire, tries, env>>

\* No subscriber is there, the connection drops, or the message was waiting in
\* the client of a worker that died.
Lose(t) ==
    /\ "loss" \in Disruptions
    /\ BagIn(t, wire)
    /\ wire' = BagRemove(wire, t)
    /\ UNCHANGED <<pc, task, tries, env>>

--------------------------------------------------------------------------------
Tasks == BagToSet(wire)
Busy(w, d) == task[w] # NoTask /\ task[w].doc = d

\* Some task of document d is on its way or in a worker's hands.
InFlight(d) == (\E t \in Tasks : t.doc = d) \/ (\E w \in Worker : Busy(w, d))
================================================================================
