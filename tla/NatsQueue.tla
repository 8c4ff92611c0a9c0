------------------------------- MODULE NatsQueue -------------------------------
(******************************************************************************)
(* internal/queue/nats.go and internal/retry as they run over core NATS.      *)
(* Every replica subscribes to its group, gets some of the group's messages   *)
(* into the memory of its client, and takes them from there one by one, in    *)
(* order: the callback sleeps until the task's NotBefore, runs the handler    *)
(* and publishes the task again if the handler fails.  TaskQueue is what the  *)
(* services see of this.                                                      *)
(*                                                                            *)
(* NotBefore is kept as the time left until then, which passes for all        *)
(* messages at once, wherever they are: wait.  A handler is one step to its   *)
(* end, and takes any time.                                                   *)
(******************************************************************************)
EXTENDS Sequences, SequencesExt, FiniteSets, Bags, Environment

CONSTANTS
    MaxAttempts,    \* retryTask: 5 when the task does not say
    NoMessage       \* a callback that is not running

MessageKind ==
    [type : {"parse", "analyze"}, doc : Doc, attempts : Nat, wait : Nat]

ASSUME QueueAssumption == MaxAttempts \in Nat \ {0} /\ NoMessage \notin MessageKind

VARIABLES
    published,    \* documents whose first task was published
    network,      \* messages on their way to a subscriber
    inbox,        \* inbox[w]: the messages in the memory of w's client
    hand,         \* hand[w]: the message whose callback runs in w
    mode,         \* mode[w]: "up", in a "handler", in "retry"Task, or "down"
    since,        \* since[d]: the time since a handler of d's task failed
    held          \* held[d]: how long d's task, though due, was kept from running
                  \* by the sleep of another

client == <<inbox, hand, mode>>
clock == <<since, held>>
vars == <<published, network, client, clock, env>>

Group(w) == IF w \in ParserWorker THEN "parse" ELSE "analyze"

\* In seconds: time.Second * (1 << attempts).
ExponentialBackoff(attempts) == 2 ^ attempts
LongestBackoff == ExponentialBackoff(MaxAttempts - 1)

Message(type, d) == [type |-> type, doc |-> d, attempts |-> 0, wait |-> 0]

Init ==
    /\ EnvInit
    /\ published = {}
    /\ network = {}
    /\ inbox = [w \in Worker |-> <<>>]
    /\ hand = [w \in Worker |-> NoMessage]
    /\ mode = [w \in Worker |-> "up"]
    /\ since = [d \in Doc |-> 0]
    /\ held = [d \in Doc |-> 0]

Sleeping(w) == mode[w] = "up" /\ hand[w] # NoMessage

--------------------------------------------------------------------------------
(******************************************************************************)
(* The network.                                                               *)
(******************************************************************************)
Publish(d) ==
    /\ d \notin published
    /\ published' = published \cup {d}
    /\ \E type \in {"parse", "analyze"} : network' = network \cup {Message(type, d)}
    /\ UNCHANGED <<client, clock, env>>

Subscribed(m) == {w \in Worker : Group(w) = m.type /\ mode[w] # "down"}

\* The server hands a message to one subscriber of the group, or to nobody.
Route(m) ==
    /\ network' = network \ {m}
    /\ IF Subscribed(m) = {}
         THEN UNCHANGED inbox
         ELSE \E w \in Subscribed(m) : inbox' = [inbox EXCEPT ![w] = Append(@, m)]
    /\ UNCHANGED <<published, hand, mode, clock, env>>

\* A connection drops with what was written to it.
Lose(m) ==
    /\ "loss" \in Disruptions
    /\ network' = network \ {m}
    /\ UNCHANGED <<published, client, clock, env>>

--------------------------------------------------------------------------------
(******************************************************************************)
(* The callback: handleMessage and retryTask.                                 *)
(******************************************************************************)
NextMessage(w) ==
    /\ mode[w] = "up" /\ hand[w] = NoMessage /\ inbox[w] # <<>>
    /\ hand' = [hand EXCEPT ![w] = Head(inbox[w])]
    /\ inbox' = [inbox EXCEPT ![w] = Tail(@)]
    /\ UNCHANGED <<published, network, mode, clock, env>>

\* The handler starts when the callback has slept.
Wake(w) ==
    /\ mode' = [mode EXCEPT ![w] = "handler"]
    /\ held' = [held EXCEPT ![hand[w].doc] = 0]
    /\ UNCHANGED <<published, network, inbox, hand, since, env>>

\* A variant: no sleep before the handler.
HandleAtOnce(w) == Sleeping(w) /\ Wake(w)

Handle(w) == Sleeping(w) /\ hand[w].wait = 0 /\ Wake(w)

Return(w) ==
    /\ mode' = [mode EXCEPT ![w] = "up"]
    /\ hand' = [hand EXCEPT ![w] = NoMessage]
    /\ UNCHANGED <<published, inbox, held, cancelled>>

Succeed(w) == mode[w] = "handler" /\ Return(w) /\ UNCHANGED <<network, since, errors>>

Fail(w) ==
    /\ mode[w] = "handler"
    /\ mode' = [mode EXCEPT ![w] = "retry"]
    /\ UNCHANGED <<published, network, inbox, hand, clock, env>>

Again(m) ==
    [m EXCEPT !.attempts = @ + 1, !.wait = ExponentialBackoff(m.attempts + 1)]

\* Variants: the handler run again on the spot, and a task kept beside its copy.
retryOnTheSpot(w) ==
    /\ mode[w] = "retry"
    /\ mode' = [mode EXCEPT ![w] = "handler"]
    /\ UNCHANGED <<published, network, inbox, hand, clock, env>>
retryTaskKept(w) ==
    /\ mode[w] = "retry"
    /\ network' = network \cup {Again(hand[w])}
    /\ mode' = [mode EXCEPT ![w] = "up"]
    /\ UNCHANGED <<published, inbox, hand, clock, env>>

retryTask(w) ==
    LET again == Again(hand[w])
    IN  /\ mode[w] = "retry"
        /\ \/ again.attempts < MaxAttempts
                /\ network' = network \cup {again} /\ UNCHANGED errors
           \/ again.attempts < MaxAttempts /\ CallError /\ UNCHANGED network
           \/ again.attempts >= MaxAttempts /\ UNCHANGED <<network, errors>>
        /\ since' = [since EXCEPT ![hand[w].doc] = 0]
        /\ Return(w)

--------------------------------------------------------------------------------
(******************************************************************************)
(* The process ends: the health server failed and the context is cancelled,   *)
(* main returns after Unsubscribe, or it crashes.  The messages in its        *)
(* client's memory are gone; Forget lets go of them one by one, before the    *)
(* replica starts anew.                                                       *)
(******************************************************************************)
Stop(w) ==
    /\ "crash" \in Disruptions
    /\ mode[w] # "down"
    /\ inbox' = [inbox EXCEPT ![w] = IF Sleeping(w) THEN <<hand[w]>> \o @ ELSE @]
    /\ hand' = [hand EXCEPT ![w] = NoMessage]
    /\ mode' = [mode EXCEPT ![w] = "down"]
    /\ UNCHANGED <<published, network, clock, env>>

Forget(w) ==
    /\ mode[w] = "down" /\ inbox[w] # <<>>
    /\ inbox' = [inbox EXCEPT ![w] = Tail(@)]
    /\ UNCHANGED <<published, network, hand, mode, clock, env>>

Restart(w) ==
    /\ mode[w] = "down" /\ inbox[w] = <<>>
    /\ mode' = [mode EXCEPT ![w] = "up"]
    /\ UNCHANGED <<published, network, inbox, hand, clock, env>>

--------------------------------------------------------------------------------
(******************************************************************************)
(* A second passes.  since and held are measurements and count no further     *)
(* than they are asked for: up to Horizon.                                    *)
(******************************************************************************)
Horizon == LongestBackoff + 1
More(n) == IF n < Horizon THEN n + 1 ELSE n

\* A variant: a delay that has passed goes on passing.
LessThanZero(m) == IF m = NoMessage THEN m ELSE [m EXCEPT !.wait = @ - 1]

Less(m) == IF m = NoMessage \/ m.wait = 0 THEN m ELSE [m EXCEPT !.wait = @ - 1]

\* A variant: the delay begins with the callback.
InMemoryUnmoved(messages) == messages

InMemory(messages) == [i \in DOMAIN messages |-> Less(messages[i])]

HeldUp(d) ==
    \E w \in Worker : Sleeping(w) /\ hand[w].wait > 0
        /\ \E m \in ToSet(inbox[w]) : m.doc = d /\ m.wait = 0

Tick ==
    /\ \/ \E m \in network : m.wait > 0
       \/ \E w \in Worker : Sleeping(w) /\ hand[w].wait > 0
       \/ \E w \in Worker : \E m \in ToSet(inbox[w]) : m.wait > 0
    /\ network' = {Less(m) : m \in network}
    /\ inbox' = [w \in Worker |-> InMemory(inbox[w])]
    /\ hand' = [w \in Worker |-> Less(hand[w])]
    /\ since' = [d \in Doc |-> More(since[d])]
    /\ held' = [d \in Doc |-> IF HeldUp(d) THEN More(held[d]) ELSE held[d]]
    /\ UNCHANGED <<published, mode, env>>

Step(w) ==
    \/ NextMessage(w) \/ Handle(w) \/ Succeed(w) \/ Fail(w) \/ retryTask(w) \/ Forget(w)

Next ==
    \/ \E d \in Doc : Publish(d)
    \/ \E m \in network : Route(m) \/ Lose(m)
    \/ \E w \in Worker : Step(w) \/ Stop(w) \/ Restart(w)
    \/ Tick

Spec == Init /\ [][Next]_vars

\* The server and the clients run on, handlers return, and time passes.
FairSpec ==
    /\ Spec
    /\ WF_vars(\E m \in network : Route(m))
    /\ \A w \in Worker : WF_vars(Step(w))
    /\ WF_vars(Tick)

--------------------------------------------------------------------------------
Messages ==
    network \cup (UNION {ToSet(inbox[w]) : w \in Worker})
            \cup ({hand[w] : w \in Worker} \ {NoMessage})

TypeOK ==
    /\ published \subseteq Doc
    /\ \A m \in Messages :
         /\ m.type \in {"parse", "analyze"} /\ m.doc \in published
         /\ m.attempts \in 0 .. MaxAttempts - 1
         /\ m.wait \in 0 .. IF m.attempts = 0 THEN 0 ELSE ExponentialBackoff(m.attempts)
    /\ \A w \in Worker :
         /\ mode[w] \in {"up", "handler", "retry", "down"}
         /\ mode[w] \in {"handler", "retry"} => hand[w] # NoMessage
         /\ mode[w] = "down" => hand[w] = NoMessage
         /\ \A m \in ToSet(inbox[w]) : m.type = Group(w)
    /\ since \in [Doc -> 0 .. Horizon] /\ held \in [Doc -> 0 .. Horizon]
    /\ errors \in 0 .. MaxErrors /\ cancelled = {}

(******************************************************************************)
(* A handler that failed is not run again before the backoff of its attempt   *)
(* has passed, whichever replica gets the task and whatever it did meanwhile. *)
(******************************************************************************)
BackoffKept ==
    \A w \in Worker :
        mode[w] = "handler" /\ hand[w].attempts > 0 =>
            since[hand[w].doc] >= ExponentialBackoff(hand[w].attempts)

(******************************************************************************)
(* The callback sleeps while other messages wait behind it.  That costs a     *)
(* task that is due the longest backoff at most, however many retried tasks   *)
(* are ahead of it: their delays pass at the same time, not one after the     *)
(* other, because NotBefore is a moment and travels with the task.            *)
(******************************************************************************)
HoldUpBounded == \A d \in Doc : held[d] <= LongestBackoff

(******************************************************************************)
(* A message that a client has taken gets its turn, unless its process ends:  *)
(* retried tasks cannot keep others from running.                             *)
(******************************************************************************)
Delivered(d, w) == \E m \in ToSet(inbox[w]) : m.doc = d
Running(d, w) == mode[w] = "handler" /\ hand[w].doc = d

DeliveredGetsItsTurn ==
    \A d \in Doc, w \in Worker : Delivered(d, w) ~> Running(d, w) \/ mode[w] = "down"

--------------------------------------------------------------------------------
(******************************************************************************)
(* What the services see: TaskQueue, whose wire is everything that is not in  *)
(* the hands of a handler, the message of a sleeping callback included.       *)
(******************************************************************************)
TaskOf(m) == [type |-> m.type, doc |-> m.doc, attempts |-> m.attempts]
InHand(w) == mode[w] \in {"handler", "retry"}
OnWire == {m \in Messages : ~\E w \in Worker : InHand(w) /\ hand[w] = m}

wire == SetToBag({TaskOf(m) : m \in OnWire})
pc == [w \in Worker |-> IF mode[w] = "up" THEN "idle" ELSE mode[w]]
task == [w \in Worker |-> IF InHand(w) THEN TaskOf(hand[w]) ELSE NoMessage]

Seen == INSTANCE TaskQueue WITH
    NoTask <- NoMessage, EnqueueAttempts <- 1, tries <- [p \in Caller |-> 0]

SeenPublish(d) ==
    \E type \in {"parse", "analyze"} :
        Seen!EnqueueOK(d, Seen!NewTask(type, d)) /\ UNCHANGED <<pc, task, cancelled>>

SeenReturn(w) ==
    /\ pc[w] = "handler"
    /\ Seen!Goto(w, "retry") \/ Seen!Release(w, "idle")
    /\ UNCHANGED <<wire, env>>

SeenNext ==
    \/ \E d \in Doc : SeenPublish(d)
    \/ \E w \in Worker :
         \/ Seen!Receive(w, Group(w), "handler") \/ SeenReturn(w) \/ Seen!retryTask(w)
         \/ Seen!Stop(w) \/ Seen!Restart(w)
    \/ \E t \in Seen!Tasks : Seen!Lose(t)

(******************************************************************************)
(* The queue over NATS implements TaskQueue: a task is in the hands of one    *)
(* handler or on the wire once, it is published again with the next attempt   *)
(* or not at all, and what dies in a client's memory is a message lost.       *)
(******************************************************************************)
ImplementsTaskQueue == Seen!QueueInit /\ [][SeenNext]_<<Seen!queue, env>>
================================================================================
