---------------------------- MODULE NatsQueueProofs ----------------------------
(******************************************************************************)
(* The queue over NATS, for any number of tasks and replicas, any retry limit *)
(* and any disruptions: backoffs are kept, a task that is due is held up for  *)
(* a bounded time, and the services see TaskQueue.  The invariant says that   *)
(* there is one message for each task at most, how much of its delay is left, *)
(* and how long it can still be held up by those in front of it.              *)
(******************************************************************************)
EXTENDS NatsQueue, FiniteSetTheorems, SequenceTheorems, TLAPS

USE EnvironmentAssumption, QueueAssumption

--------------------------------------------------------------------------------
(******************************************************************************)
(* Backoffs.                                                                  *)
(******************************************************************************)

(* A power of two is the number of subsets of a set, so it grows with it. *)
LEMMA PowersGrow ==
    ASSUME NEW m \in Nat, NEW n \in Nat, m <= n
    PROVE  2 ^ m \in Nat /\ 2 ^ n \in Nat /\ 2 ^ m <= 2 ^ n
<1>1. /\ IsFiniteSet(1 .. m) /\ Cardinality(1 .. m) = m
      /\ IsFiniteSet(1 .. n) /\ Cardinality(1 .. n) = n
  BY FS_Interval
<1>2. /\ IsFiniteSet(SUBSET (1 .. m)) /\ Cardinality(SUBSET (1 .. m)) = 2 ^ m
      /\ IsFiniteSet(SUBSET (1 .. n)) /\ Cardinality(SUBSET (1 .. n)) = 2 ^ n
  BY <1>1, FS_SUBSET
<1>3. SUBSET (1 .. m) \subseteq SUBSET (1 .. n)
  OBVIOUS
<1>4. Cardinality(SUBSET (1 .. m)) <= Cardinality(SUBSET (1 .. n))
  BY <1>2, <1>3, FS_Subset
<1> QED
  BY <1>2, <1>4, FS_CardinalityType

(* No backoff is longer than that of the last attempt. *)
LEMMA BackoffFacts ==
    /\ LongestBackoff \in Nat /\ Horizon = LongestBackoff + 1
    /\ \A n \in 0 .. MaxAttempts - 1 :
         ExponentialBackoff(n) \in Nat /\ ExponentialBackoff(n) <= LongestBackoff
BY PowersGrow DEF LongestBackoff, ExponentialBackoff, Horizon

--------------------------------------------------------------------------------
(******************************************************************************)
(* The invariant.                                                             *)
(******************************************************************************)
Kind == {"parse", "analyze"}
Item == [type : Kind, doc : Doc, attempts : 0 .. MaxAttempts - 1, wait : Nat]

In(w) == ToSet(inbox[w])

Typed ==
    /\ published \subseteq Doc
    /\ network \subseteq Item
    /\ inbox \in [Worker -> Seq(Item)]
    /\ hand \in [Worker -> Item \cup {NoMessage}]
    /\ mode \in [Worker -> {"up", "handler", "retry", "down"}]
    /\ since \in [Doc -> 0 .. Horizon] /\ held \in [Doc -> 0 .. LongestBackoff]
    /\ errors \in 0 .. MaxErrors /\ cancelled = {}

\* Every message is in the group it is for; a handler has one, whose time has
\* come, and whose task is no longer held up.
Placed ==
    \A w \in Worker :
        /\ \A m \in In(w) : m.type = Group(w)
        /\ hand[w] # NoMessage => hand[w].type = Group(w)
        /\ mode[w] \in {"handler", "retry"} =>
             hand[w] # NoMessage /\ hand[w].wait = 0 /\ held[hand[w].doc] = 0
        /\ mode[w] = "down" => hand[w] = NoMessage

\* What is left of a delay, with the time since the failure, makes the backoff.
Sound(m) ==
    /\ m.doc \in published
    /\ m.wait <= IF m.attempts = 0 THEN 0 ELSE ExponentialBackoff(m.attempts)
    /\ m.attempts > 0 => since[m.doc] + m.wait >= ExponentialBackoff(m.attempts)

AllSound == \A m \in Messages : Sound(m)

\* A document has one message at most.
Alone ==
    /\ \A m, n \in network : m.doc = n.doc => m = n
    /\ \A m \in network, w \in Worker : \A n \in In(w) : m.doc # n.doc
    /\ \A m \in network, w \in Worker : hand[w] # NoMessage => m.doc # hand[w].doc
    /\ \A w \in Worker : \A i, j \in 1 .. Len(inbox[w]) :
         inbox[w][i].doc = inbox[w][j].doc => i = j
    /\ \A v, w \in Worker : v # w => \A m \in In(v), n \in In(w) : m.doc # n.doc
    /\ \A v, w \in Worker : hand[w] # NoMessage => \A m \in In(v) : m.doc # hand[w].doc
    /\ \A v, w \in Worker :
         v # w /\ hand[v] # NoMessage /\ hand[w] # NoMessage => hand[v].doc # hand[w].doc

\* A task has not been held up before it reached its replica, and there can
\* still be so for no longer than those in front of it have to wait.
Queued(w) ==
    \A i \in 1 .. Len(inbox[w]) :
        LET d == inbox[w][i].doc
        IN  /\ \A j \in 1 .. i - 1 : held[d] + inbox[w][j].wait <= LongestBackoff
            /\ hand[w] # NoMessage => held[d] + hand[w].wait <= LongestBackoff

Waited ==
    /\ \A d \in Doc \ published : held[d] = 0
    /\ \A m \in network : held[m.doc] = 0
    /\ \A w \in Worker : Queued(w)

Inv == Typed /\ Placed /\ AllSound /\ Alone /\ Waited
--------------------------------------------------------------------------------
(******************************************************************************)
(* Sequences: what joins or leaves the memory of a client.                    *)
(******************************************************************************)

(* The set of a sequence's elements is that of its places. *)
LEMMA PlacesFacts ==
    ASSUME NEW S, NEW s \in Seq(S)
    PROVE  /\ Len(s) \in Nat /\ \A i \in 1 .. Len(s) : s[i] \in S /\ s[i] \in ToSet(s)
           /\ \A m \in ToSet(s) : m \in S /\ \E i \in 1 .. Len(s) : s[i] = m
           /\ s = <<>> <=> Len(s) = 0
BY LenProperties, EmptySeq DEF ToSet

(* A message that arrives is the last one. *)
LEMMA AppendFacts ==
    ASSUME NEW S, NEW s \in Seq(S), NEW m \in S
    PROVE  /\ Append(s, m) \in Seq(S) /\ Len(Append(s, m)) = Len(s) + 1
           /\ \A i \in 1 .. Len(s) : Append(s, m)[i] = s[i]
           /\ Append(s, m)[Len(s) + 1] = m
           /\ ToSet(Append(s, m)) = ToSet(s) \cup {m}
<1>1. /\ Append(s, m) \in Seq(S) /\ Len(Append(s, m)) = Len(s) + 1
      /\ \A i \in 1 .. Len(s) : Append(s, m)[i] = s[i]
      /\ Append(s, m)[Len(s) + 1] = m /\ Len(s) \in Nat
  BY AppendProperties, LenProperties
<1>2. /\ DOMAIN Append(s, m) = 1 .. Len(s) + 1
      /\ DOMAIN s = 1 .. Len(s)
  BY <1>1, LenProperties
<1> QED
  BY <1>1, <1>2 DEF ToSet

(* The first message leaves, and all others move up. *)
LEMMA TailFacts ==
    ASSUME NEW S, NEW s \in Seq(S), s # <<>>
    PROVE  /\ Head(s) \in S /\ Head(s) = s[1] /\ Len(s) \in Nat \ {0}
           /\ Tail(s) \in Seq(S) /\ Len(Tail(s)) = Len(s) - 1
           /\ \A i \in 1 .. Len(s) - 1 : Tail(s)[i] = s[i + 1]
           /\ ToSet(s) = {Head(s)} \cup ToSet(Tail(s))
<1>1. /\ Head(s) \in S /\ Head(s) = s[1] /\ Len(s) \in Nat \ {0}
      /\ Tail(s) \in Seq(S) /\ Len(Tail(s)) = Len(s) - 1
      /\ \A i \in 1 .. Len(s) - 1 : Tail(s)[i] = s[i + 1]
  BY HeadTailProperties, LenProperties, EmptySeq
<1>2. DOMAIN s = 1 .. Len(s) /\ DOMAIN Tail(s) = 1 .. Len(s) - 1
  BY <1>1, LenProperties
<1>3. ASSUME NEW i \in 1 .. Len(s), i # 1
      PROVE  i - 1 \in 1 .. Len(s) - 1 /\ s[i] = Tail(s)[i - 1]
  BY <1>1, <1>3
<1>4. ASSUME NEW i \in 1 .. Len(s) - 1
      PROVE  i + 1 \in 1 .. Len(s) /\ s[i + 1] = Tail(s)[i]
  BY <1>1, <1>4
<1>5. ToSet(s) \subseteq {Head(s)} \cup ToSet(Tail(s))
  <2> SUFFICES ASSUME NEW i \in 1 .. Len(s), s[i] # Head(s)
               PROVE  s[i] \in ToSet(Tail(s))
    BY <1>2 DEF ToSet
  <2> QED
    BY <1>1, <1>2, <1>3 DEF ToSet
<1>6. {Head(s)} \cup ToSet(Tail(s)) \subseteq ToSet(s)
  <2>1. Head(s) \in ToSet(s)
    BY <1>1, <1>2 DEF ToSet
  <2>2. ASSUME NEW i \in 1 .. Len(s) - 1 PROVE Tail(s)[i] \in ToSet(s)
    BY <1>2, <1>4 DEF ToSet
  <2> QED
    BY <1>2, <2>1, <2>2 DEF ToSet
<1> QED
  BY <1>1, <1>5, <1>6

(* A message that comes back to the front moves all others down. *)
LEMMA FrontFacts ==
    ASSUME NEW S, NEW s \in Seq(S), NEW m \in S
    PROVE  /\ <<m>> \o s \in Seq(S) /\ Len(<<m>> \o s) = Len(s) + 1
           /\ (<<m>> \o s)[1] = m
           /\ \A i \in 2 .. Len(s) + 1 : (<<m>> \o s)[i] = s[i - 1]
           /\ ToSet(<<m>> \o s) = ToSet(s) \cup {m}
<1>1. <<m>> \in Seq(S) /\ Len(<<m>>) = 1 /\ <<m>>[1] = m /\ Len(s) \in Nat
  BY LenProperties
<1>2. /\ <<m>> \o s \in Seq(S) /\ Len(<<m>> \o s) = Len(s) + 1
      /\ \A i \in 1 .. Len(s) + 1 :
           (<<m>> \o s)[i] = IF i <= 1 THEN <<m>>[i] ELSE s[i - 1]
  BY <1>1, ConcatProperties
<1>3. (<<m>> \o s)[1] = m /\ \A i \in 2 .. Len(s) + 1 : (<<m>> \o s)[i] = s[i - 1]
  BY <1>1, <1>2
<1>4. DOMAIN (<<m>> \o s) = 1 .. Len(s) + 1 /\ DOMAIN s = 1 .. Len(s)
  BY <1>2, LenProperties
<1>5. ASSUME NEW i \in 1 .. Len(s)
      PROVE  i + 1 \in 2 .. Len(s) + 1 /\ (<<m>> \o s)[i + 1] = s[i]
  BY <1>1, <1>3, <1>5
<1>6. ASSUME NEW i \in 1 .. Len(s) + 1, i # 1
      PROVE  i - 1 \in 1 .. Len(s) /\ (<<m>> \o s)[i] = s[i - 1]
  BY <1>1, <1>3, <1>6
<1>7. ToSet(<<m>> \o s) \subseteq ToSet(s) \cup {m}
  <2> SUFFICES ASSUME NEW i \in 1 .. Len(s) + 1, (<<m>> \o s)[i] # m
               PROVE  (<<m>> \o s)[i] \in ToSet(s)
    BY <1>4 DEF ToSet
  <2> QED
    BY <1>3, <1>4, <1>6 DEF ToSet
<1>8. ToSet(s) \cup {m} \subseteq ToSet(<<m>> \o s)
  <2>1. m \in ToSet(<<m>> \o s)
    BY <1>1, <1>3, <1>4 DEF ToSet
  <2>2. ASSUME NEW i \in 1 .. Len(s) PROVE s[i] \in ToSet(<<m>> \o s)
    <3>1. i + 1 \in 1 .. Len(s) + 1 /\ (<<m>> \o s)[i + 1] = s[i]
      BY <1>1, <1>5
    <3> QED
      BY <1>4, <3>1 DEF ToSet
  <2> QED
    BY <1>4, <2>1, <2>2 DEF ToSet
<1> QED
  BY <1>2, <1>3, <1>7, <1>8

--------------------------------------------------------------------------------
(******************************************************************************)
(* The invariant holds of an empty queue, and is kept by each action.         *)
(******************************************************************************)
LEMMA InitInv == Init => Inv
<1> SUFFICES ASSUME Init PROVE Inv
  OBVIOUS
<1>1. \A w \in Worker : inbox[w] = <<>> /\ hand[w] = NoMessage /\ mode[w] = "up" /\ In(w) = {}
  BY DEF Init, In, ToSet
<1>2. Typed
  BY BackoffFacts DEF Init, EnvInit, Typed
<1>3. Messages = {}
  BY <1>1 DEF Init, Messages, In
<1>4. Placed /\ AllSound
  BY <1>1, <1>3 DEF Placed, AllSound
<1>5. Alone /\ Waited
  BY <1>1 DEF Init, Alone, Waited, Queued
<1> QED
  BY <1>2, <1>4, <1>5 DEF Inv

(* A message is on its way, in the memory of a client, or in hand. *)
LEMMA WhereMessagesAre ==
    \A m : m \in Messages <=> \/ m \in network
                              \/ \E w \in Worker : m \in In(w)
                              \/ \E w \in Worker : m = hand[w] /\ m # NoMessage
<1>1. \A m : m \in UNION {ToSet(inbox[w]) : w \in Worker} <=> \E w \in Worker : m \in In(w)
  BY ZenonT(20) DEF In
<1>2. \A m : m \in {hand[w] : w \in Worker} <=> \E w \in Worker : m = hand[w]
  OBVIOUS
<1>3. \A m : m \in {NoMessage} <=> m = NoMessage
  OBVIOUS
<1> QED
  BY <1>1, <1>2, <1>3, Zenon DEF Messages

(* What the invariant says of each message, wherever it is. *)
LEMMA ItemFacts ==
    ASSUME Inv
    PROVE  /\ \A m \in Item : /\ m \in MessageKind /\ m # NoMessage /\ m.doc \in Doc
                              /\ m.attempts \in Nat /\ m.attempts < MaxAttempts /\ m.wait \in Nat
           /\ \A m \in Messages : m \in Item
           /\ \A m \in network : m \in Messages
           /\ \A w \in Worker : In(w) \subseteq Messages
           /\ \A w \in Worker : hand[w] # NoMessage => hand[w] \in Messages
           /\ \A w \in Worker : \A i \in 1 .. Len(inbox[w]) : inbox[w][i] \in In(w)
           /\ \A w \in Worker : \A m \in In(w) : \E i \in 1 .. Len(inbox[w]) : inbox[w][i] = m
           /\ \A w \in Worker : inbox[w] \in Seq(Item) /\ Len(inbox[w]) \in Nat
<1>1. \A m \in Item : /\ m \in MessageKind /\ m # NoMessage /\ m.doc \in Doc
                      /\ m.attempts \in Nat /\ m.attempts < MaxAttempts /\ m.wait \in Nat
  BY DEF Item, Kind, MessageKind
<1>2. \A w \in Worker : /\ inbox[w] \in Seq(Item)
                        /\ hand[w] \in Item \cup {NoMessage}
  BY DEF Inv, Typed
<1>3. \A w \in Worker :
        /\ Len(inbox[w]) \in Nat
        /\ \A i \in 1 .. Len(inbox[w]) : inbox[w][i] \in In(w)
        /\ \A m \in In(w) : m \in Item /\ \E i \in 1 .. Len(inbox[w]) : inbox[w][i] = m
  BY <1>2, PlacesFacts DEF In
<1>4. \A m \in Messages : m \in Item
  BY <1>2, <1>3, WhereMessagesAre DEF Inv, Typed
<1>5. /\ \A m \in network : m \in Messages
      /\ \A w \in Worker : In(w) \subseteq Messages
      /\ \A w \in Worker : hand[w] # NoMessage => hand[w] \in Messages
  BY WhereMessagesAre
<1> QED
  BY <1>1, <1>2, <1>3, <1>4, <1>5

(* Messages that only move, or disappear, stay as sound as they are. *)
LEMMA SoundKept ==
    ASSUME Inv, published \subseteq published',
           \A m \in Messages' : \/ m \in Messages /\ since'[m.doc] = since[m.doc]
                                \/ Sound(m)'
    PROVE  AllSound'
BY DEF Inv, AllSound, Sound

(* A task is published while there is no message of its document.             *)
LEMMA PublishInv == ASSUME Inv, NEW d \in Doc, Publish(d) PROVE Inv'
<1> PICK type \in Kind : network' = network \cup {Message(type, d)}
  BY DEF Publish, Kind
<1> DEFINE new == Message(type, d)
<1>1. /\ new \in Item /\ new.doc = d /\ new.attempts = 0 /\ new.wait = 0
      /\ d \notin published /\ published' = published \cup {d}
      /\ UNCHANGED <<inbox, hand, mode, since, held, errors, cancelled>>
  BY DEF Publish, Message, Item, Kind, client, clock, env
<1> HIDE DEF new
<1>2. \A w \in Worker : In(w)' = In(w)
  BY <1>1 DEF In
<1>3. network' = network \cup {new}
  BY DEF new
<1>4. Messages' = Messages \cup {new}
  BY <1>1, <1>3 DEF Messages
<1>5. Typed'
  BY <1>1, <1>3 DEF Inv, Typed
<1>6. Placed'
  BY <1>1, <1>2 DEF Inv, Placed
<1>7. AllSound'
  <2>1. Sound(new)'
    BY <1>1 DEF Sound
  <2> QED
    BY <1>1, <1>4, <2>1, SoundKept
<1>8. \A m \in Messages : m.doc # d
  BY <1>1 DEF Inv, AllSound, Sound
<1>9. Alone'
  BY <1>1, <1>2, <1>3, <1>8, ItemFacts DEF Inv, Alone
<1>10. Waited'
  BY <1>1, <1>2, <1>3 DEF Inv, Waited, Queued
<1> QED
  BY <1>5, <1>6, <1>7, <1>9, <1>10 DEF Inv

(* A message leaves the network for nowhere. *)
LEMMA LeaveInv ==
    ASSUME Inv, NEW m \in network, network' = network \ {m},
           UNCHANGED <<published, inbox, hand, mode, clock, env>>
    PROVE  Inv'
<1>1. \A w \in Worker : In(w)' = In(w)
  BY DEF In
<1>2. Messages' \subseteq Messages
  BY DEF Messages
<1>3. Typed' /\ Placed'
  BY <1>1 DEF Inv, Typed, Placed, clock, env
<1>4. AllSound'
  BY <1>2, SoundKept DEF clock
<1>5. Alone'
  BY <1>1 DEF Inv, Alone
<1>6. Waited'
  BY DEF Inv, Waited, Queued, clock
<1> QED
  BY <1>3, <1>4, <1>5, <1>6 DEF Inv

(* A message that arrives has all others of its replica before it.            *)
LEMMA RouteInv == ASSUME Inv, NEW m \in network, Route(m) PROVE Inv'
<1>1. CASE Subscribed(m) = {}
  BY <1>1, LeaveInv DEF Route
<1>2. CASE Subscribed(m) # {}
  <2> PICK w \in Subscribed(m) : inbox' = [inbox EXCEPT ![w] = Append(@, m)]
    BY <1>2 DEF Route
  <2>1. /\ w \in Worker /\ Group(w) = m.type /\ mode[w] # "down"
        /\ network' = network \ {m}
        /\ UNCHANGED <<published, hand, mode, since, held, errors, cancelled>>
    BY DEF Subscribed, Route, clock, env
  <2>2. m \in Item /\ m \in Messages /\ inbox[w] \in Seq(Item) /\ inbox \in [Worker -> Seq(Item)]
    BY <2>1, ItemFacts DEF Inv, Typed
  <2>3. /\ inbox'[w] = Append(inbox[w], m) /\ inbox'[w] \in Seq(Item)
        /\ Len(inbox'[w]) = Len(inbox[w]) + 1
        /\ \A i \in 1 .. Len(inbox[w]) : inbox'[w][i] = inbox[w][i]
        /\ inbox'[w][Len(inbox[w]) + 1] = m
        /\ In(w)' = In(w) \cup {m}
        /\ \A v \in Worker \ {w} : inbox'[v] = inbox[v] /\ In(v)' = In(v)
    BY <2>1, <2>2, AppendFacts DEF In
  <2>4. Messages' \subseteq Messages
    BY <2>1, <2>2, <2>3 DEF Messages, In
  <2>5. Typed'
    BY <2>1, <2>2, <2>3 DEF Inv, Typed
  <2>6. Placed'
    BY <2>1, <2>3 DEF Inv, Placed, Group
  <2>7. AllSound'
    BY <2>1, <2>4, SoundKept
  <2>8. Alone'
    <3>1. \A i, j \in 1 .. Len(inbox'[w]) : inbox'[w][i].doc = inbox'[w][j].doc => i = j
      BY <2>1, <2>3, ItemFacts DEF Inv, Alone
    <3> QED
      BY <2>1, <2>3, <3>1 DEF Inv, Alone
  <2>9. Waited'
    <3>1. Queued(w)'
      <4> SUFFICES ASSUME NEW i \in 1 .. Len(inbox'[w])
                   PROVE  /\ \A j \in 1 .. i - 1 :
                               held[inbox'[w][i].doc] + inbox'[w][j].wait <= LongestBackoff
                          /\ hand[w] # NoMessage =>
                               held[inbox'[w][i].doc] + hand[w].wait <= LongestBackoff
        BY <2>1 DEF Queued
      <4>1. CASE i \in 1 .. Len(inbox[w])
        BY <2>1, <2>3, <4>1, ItemFacts DEF Inv, Waited, Queued
      <4>2. CASE i = Len(inbox[w]) + 1
        <5>1. inbox'[w][i] = m /\ held[m.doc] = 0
          BY <2>3, <4>2 DEF Inv, Waited
        <5>2. \A n \in Messages : n.wait \in Nat /\ n.wait <= LongestBackoff
          BY ItemFacts, BackoffFacts DEF Inv, AllSound, Sound
        <5>3. \A j \in 1 .. i - 1 : inbox'[w][j] \in Messages
          BY <2>1, <2>3, <4>2, ItemFacts
        <5> QED
          BY <2>1, <5>1, <5>2, <5>3, ItemFacts
      <4> QED
        BY <2>1, <2>3, <4>1, <4>2, ItemFacts
    <3>2. \A v \in Worker \ {w} : Queued(v)'
      BY <2>1, <2>3 DEF Inv, Waited, Queued
    <3> QED
      BY <2>1, <3>1, <3>2 DEF Inv, Waited
  <2> QED
    BY <2>5, <2>6, <2>7, <2>8, <2>9 DEF Inv
<1> QED
  BY <1>1, <1>2

(* A connection that drops takes a message with it.                           *)
LEMMA LoseInv == ASSUME Inv, NEW m \in network, Lose(m) PROVE Inv'
BY LeaveInv DEF Lose, client

(* The first message leaves the memory of w's client: for its callback, or    *)
(* for nowhere.                                                               *)
LEMMA FirstInv ==
    ASSUME Inv, NEW w \in Worker, inbox[w] # <<>>, hand[w] = NoMessage,
           inbox' = [inbox EXCEPT ![w] = Tail(@)],
           \/ hand' = hand
           \/ mode[w] = "up" /\ hand' = [hand EXCEPT ![w] = Head(inbox[w])],
           UNCHANGED <<published, network, mode, clock, env>>
    PROVE  Inv'
<1> DEFINE m == Head(inbox[w])
<1>1. UNCHANGED <<published, network, mode, since, held, errors, cancelled>>
  BY DEF clock, env
<1>2. inbox[w] \in Seq(Item) /\ inbox \in [Worker -> Seq(Item)]
      /\ hand \in [Worker -> Item \cup {NoMessage}]
  BY DEF Inv, Typed
<1>3. /\ m \in Item /\ m = inbox[w][1] /\ Len(inbox[w]) \in Nat \ {0}
      /\ inbox'[w] \in Seq(Item) /\ Len(inbox'[w]) = Len(inbox[w]) - 1
      /\ \A i \in 1 .. Len(inbox[w]) - 1 : inbox'[w][i] = inbox[w][i + 1]
      /\ In(w) = {m} \cup In(w)'
      /\ \A v \in Worker \ {w} : inbox'[v] = inbox[v] /\ In(v)' = In(v)
  BY <1>2, TailFacts DEF In
<1>4. /\ m # NoMessage /\ m \in In(w) /\ m \in Messages
  BY <1>3, ItemFacts
<1> HIDE DEF m
<1>5. \A v \in Worker : \/ hand'[v] = hand[v]
                        \/ v = w /\ hand'[v] = m /\ mode[w] = "up"
  BY <1>2 DEF m
<1>6. \A n \in Messages' : n \in Messages
  <2>1. \A n \in Messages' : \/ n \in network
                             \/ \E v \in Worker : n \in In(v)'
                             \/ \E v \in Worker : n = hand'[v] /\ n # NoMessage
    BY <1>1 DEF Messages, In
  <2>2. \A v \in Worker : In(v)' \subseteq In(v)
    BY <1>3
  <2> QED
    BY <1>4, <1>5, <2>1, <2>2, ItemFacts
<1>7. Typed'
  <2>1. hand' \in [Worker -> Item \cup {NoMessage}]
    BY <1>2, <1>3 DEF m
  <2>2. inbox' \in [Worker -> Seq(Item)]
    BY <1>2, <1>3
  <2> QED
    BY <1>1, <2>1, <2>2, BackoffFacts DEF Inv, Typed
<1>8. Placed'
  BY <1>1, <1>3, <1>4, <1>5 DEF Inv, Placed
<1>9. AllSound'
  BY <1>1, <1>6, SoundKept
<1>10. Alone'
  <2>1. \A n \in In(w)' : n.doc # m.doc
    <3> SUFFICES ASSUME NEW n \in In(w)' PROVE n.doc # m.doc
      OBVIOUS
    <3> DEFINE s == inbox'[w]
    <3>0. s \in Seq(Item) /\ n \in ToSet(s)
      BY <1>3 DEF In
    <3> HIDE DEF s
    <3>01. \E i \in 1 .. Len(s) : s[i] = n
      BY <3>0, PlacesFacts
    <3>1. PICK i \in 1 .. Len(inbox'[w]) : inbox'[w][i] = n
      BY <3>01 DEF s
    <3>2. i + 1 \in 1 .. Len(inbox[w]) /\ 1 \in 1 .. Len(inbox[w]) /\ i + 1 # 1
          /\ n = inbox[w][i + 1]
      BY <1>3, <3>1
    <3> QED
      BY <1>3, <3>2 DEF Inv, Alone
  <2>2. \A i, j \in 1 .. Len(inbox'[w]) : inbox'[w][i].doc = inbox'[w][j].doc => i = j
    <3> SUFFICES ASSUME NEW i \in 1 .. Len(inbox'[w]), NEW j \in 1 .. Len(inbox'[w]),
                        inbox'[w][i].doc = inbox'[w][j].doc
                 PROVE  i = j
      OBVIOUS
    <3>1. /\ i + 1 \in 1 .. Len(inbox[w]) /\ j + 1 \in 1 .. Len(inbox[w])
          /\ inbox'[w][i] = inbox[w][i + 1] /\ inbox'[w][j] = inbox[w][j + 1]
      BY <1>3
    <3>2. i + 1 = j + 1
      BY <3>1 DEF Inv, Alone
    <3> QED
      BY <1>3, <3>2
  <2>3. \A v \in Worker : In(v)' \subseteq In(v)
    BY <1>3
  <2>4. \A n, k \in network' : n.doc = k.doc => n = k
    BY <1>1 DEF Inv, Alone
  <2>5. \A n \in network', v \in Worker : \A k \in In(v)' : n.doc # k.doc
    BY <1>1, <2>3 DEF Inv, Alone
  <2>6. \A n \in network', v \in Worker : hand'[v] # NoMessage => n.doc # hand'[v].doc
    BY <1>1, <1>4, <1>5 DEF Inv, Alone
  <2>7. \A v \in Worker : \A i, j \in 1 .. Len(inbox'[v]) :
          inbox'[v][i].doc = inbox'[v][j].doc => i = j
    <3> SUFFICES ASSUME NEW v \in Worker \ {w}
                 PROVE  \A i, j \in 1 .. Len(inbox'[v]) :
                          inbox'[v][i].doc = inbox'[v][j].doc => i = j
      BY <2>2
    <3>1. inbox'[v] = inbox[v]
      BY <1>3
    <3> QED
      BY <3>1 DEF Inv, Alone
  <2>8. \A u, v \in Worker : u # v => \A n \in In(u)', k \in In(v)' : n.doc # k.doc
    BY <2>3 DEF Inv, Alone
  <2>9. \A u, v \in Worker : hand'[v] # NoMessage => \A n \in In(u)' : n.doc # hand'[v].doc
    BY <1>4, <1>5, <2>1, <2>3 DEF Inv, Alone
  <2>10. \A u, v \in Worker :
           u # v /\ hand'[u] # NoMessage /\ hand'[v] # NoMessage => hand'[u].doc # hand'[v].doc
    BY <1>4, <1>5 DEF Inv, Alone
  <2> QED
    BY <2>4, <2>5, <2>6, <2>7, <2>8, <2>9, <2>10 DEF Alone, In
<1>11. Waited'
  <2>1. Queued(w)'
    <3> SUFFICES ASSUME NEW i \in 1 .. Len(inbox'[w])
                 PROVE  /\ \A j \in 1 .. i - 1 :
                             held[inbox'[w][i].doc] + inbox'[w][j].wait <= LongestBackoff
                        /\ hand'[w] # NoMessage =>
                             held[inbox'[w][i].doc] + hand'[w].wait <= LongestBackoff
      BY <1>1 DEF Queued
    <3>1. i + 1 \in 1 .. Len(inbox[w]) /\ inbox'[w][i] = inbox[w][i + 1]
      BY <1>3
    <3>2. \A j \in 1 .. i : held[inbox'[w][i].doc] + inbox[w][j].wait <= LongestBackoff
      BY <1>3, <3>1 DEF Inv, Waited, Queued
    <3>3. 1 \in 1 .. i
      BY <1>3
    <3>4. \A j \in 1 .. i - 1 : j + 1 \in 1 .. i /\ inbox'[w][j] = inbox[w][j + 1]
      BY <1>3
    <3> QED
      BY <1>3, <1>5, <3>2, <3>3, <3>4
  <2>2. \A v \in Worker \ {w} : Queued(v)'
    BY <1>1, <1>3, <1>5 DEF Inv, Waited, Queued
  <2> QED
    BY <1>1, <2>1, <2>2 DEF Inv, Waited
<1> QED
  BY <1>7, <1>8, <1>9, <1>10, <1>11 DEF Inv

(* The first message in memory is the next to be handled.                     *)
LEMMA NextMessageInv == ASSUME Inv, NEW w \in Worker, NextMessage(w) PROVE Inv'
BY FirstInv DEF NextMessage

(* A process that has ended has no callback left.                             *)
LEMMA ForgetInv == ASSUME Inv, NEW w \in Worker, Forget(w) PROVE Inv'
<1>1. hand[w] = NoMessage
  BY DEF Inv, Placed, Forget
<1> QED
  BY <1>1, FirstInv DEF Forget

(* A callback that has slept has nothing left to wait for.                    *)
LEMMA HandleInv == ASSUME Inv, NEW w \in Worker, Handle(w) PROVE Inv'
<1> DEFINE d == hand[w].doc
<1>1. /\ mode[w] = "up" /\ hand[w] # NoMessage /\ hand[w].wait = 0 /\ hand[w] \in Item
      /\ mode' = [mode EXCEPT ![w] = "handler"]
      /\ held' = [held EXCEPT ![d] = 0]
      /\ UNCHANGED <<published, network, inbox, hand, since, errors, cancelled>>
  BY DEF Inv, Typed, Handle, Wake, Sleeping, env
<1>2. d \in Doc /\ LongestBackoff \in Nat
  BY <1>1, ItemFacts, BackoffFacts
<1> HIDE DEF d
<1>3. \A e \in Doc : held[e] \in Nat /\ held'[e] \in Nat /\ held'[e] <= held[e]
                     /\ (held[e] = 0 => held'[e] = 0)
  BY <1>1, <1>2 DEF Inv, Typed
<1>4. \A v \in Worker : In(v)' = In(v)
  BY <1>1 DEF In
<1>5. Messages' = Messages
  BY <1>1 DEF Messages
<1>6. Typed'
  BY <1>1, <1>2 DEF Inv, Typed
<1>7. Placed'
  <2>1. held'[d] = 0
    BY <1>1, <1>2 DEF Inv, Typed
  <2>2. \A v \in Worker : hand[v] # NoMessage => hand[v].doc \in Doc
    BY ItemFacts
  <2> QED
    BY <1>1, <1>3, <1>4, <2>1, <2>2 DEF Inv, Typed, Placed, d
<1>8. AllSound'
  BY <1>1, <1>5, SoundKept
<1>9. Alone'
  BY <1>1, <1>4 DEF Inv, Alone
<1>10. Waited'
  <2>1. ASSUME NEW v \in Worker PROVE Queued(v)'
    <3>1. \A i \in 1 .. Len(inbox[v]) : inbox[v][i].doc \in Doc /\ inbox[v][i].wait \in Nat
      BY ItemFacts
    <3>2. hand[v] # NoMessage => hand[v].wait \in Nat
      BY ItemFacts
    <3>3. Queued(v)
      BY DEF Inv, Waited
    <3> SUFFICES ASSUME NEW i \in 1 .. Len(inbox[v])
                 PROVE  /\ \A j \in 1 .. i - 1 :
                             held'[inbox[v][i].doc] + inbox[v][j].wait <= LongestBackoff
                        /\ hand[v] # NoMessage =>
                             held'[inbox[v][i].doc] + hand[v].wait <= LongestBackoff
      BY <1>1 DEF Queued
    <3>4. \A j \in 1 .. i - 1 : j \in 1 .. Len(inbox[v])
      BY ItemFacts
    <3>5. \A j \in 1 .. i - 1 : inbox[v][j].wait \in Nat
      BY <3>1, <3>4
    <3>6. /\ \A j \in 1 .. i - 1 : held[inbox[v][i].doc] + inbox[v][j].wait <= LongestBackoff
          /\ hand[v] # NoMessage => held[inbox[v][i].doc] + hand[v].wait <= LongestBackoff
      BY <3>3 DEF Queued
    <3> DEFINE e == inbox[v][i].doc
    <3>7. held[e] \in Nat /\ held'[e] \in Nat /\ held'[e] <= held[e]
      BY <1>3, <3>1
    <3>8. ASSUME NEW j \in 1 .. i - 1 PROVE held'[e] + inbox[v][j].wait <= LongestBackoff
      BY <1>2, <3>5, <3>6, <3>7
    <3>9. ASSUME hand[v] # NoMessage PROVE held'[e] + hand[v].wait <= LongestBackoff
      BY <1>2, <3>2, <3>6, <3>7, <3>9
    <3> QED
      BY <3>8, <3>9
  <2>2. \A m \in network : m.doc \in Doc
    BY ItemFacts
  <2> QED
    BY <1>1, <1>3, <2>1, <2>2 DEF Inv, Waited
<1> QED
  BY <1>6, <1>7, <1>8, <1>9, <1>10 DEF Inv

(* A handler that failed still has its message.                               *)
LEMMA FailInv == ASSUME Inv, NEW w \in Worker, Fail(w) PROVE Inv'
<1>1. /\ mode[w] = "handler" /\ mode' = [mode EXCEPT ![w] = "retry"]
      /\ UNCHANGED <<published, network, inbox, hand, since, held, errors, cancelled>>
  BY DEF Fail, clock, env
<1>2. Messages' = Messages /\ \A v \in Worker : In(v)' = In(v)
  BY <1>1 DEF Messages, In
<1>3. Typed'
  BY <1>1 DEF Inv, Typed
<1>4. Placed'
  BY <1>1, <1>2 DEF Inv, Typed, Placed
<1>5. AllSound' /\ Alone' /\ Waited'
  BY <1>1, <1>2, SoundKept DEF Inv, Alone, Waited, Queued
<1> QED
  BY <1>3, <1>4, <1>5 DEF Inv

(* A replica starts anew with nothing.                                        *)
LEMMA RestartInv == ASSUME Inv, NEW w \in Worker, Restart(w) PROVE Inv'
<1>1. /\ mode[w] = "down" /\ mode' = [mode EXCEPT ![w] = "up"]
      /\ UNCHANGED <<published, network, inbox, hand, since, held, errors, cancelled>>
  BY DEF Restart, clock, env
<1>2. Messages' = Messages /\ \A v \in Worker : In(v)' = In(v)
  BY <1>1 DEF Messages, In
<1>3. Typed'
  BY <1>1 DEF Inv, Typed
<1>4. Placed'
  BY <1>1, <1>2 DEF Inv, Typed, Placed
<1>5. AllSound' /\ Alone' /\ Waited'
  BY <1>1, <1>2, SoundKept DEF Inv, Alone, Waited, Queued
<1> QED
  BY <1>3, <1>4, <1>5 DEF Inv
(* The next attempt of a task that may be tried once more is a message as all *)
(* others.                                                                    *)
LEMMA AgainFacts ==
    ASSUME NEW m \in Item, m.attempts + 1 < MaxAttempts
    PROVE  /\ Again(m) \in Item /\ Again(m).doc = m.doc /\ Again(m).type = m.type
           /\ Again(m).attempts = m.attempts + 1
           /\ Again(m).wait = ExponentialBackoff(m.attempts + 1)
<1>1. m.attempts \in Nat /\ m.attempts + 1 \in 0 .. MaxAttempts - 1
  BY DEF Item
<1>2. ExponentialBackoff(m.attempts + 1) \in Nat
  BY <1>1, BackoffFacts
<1> QED
  BY <1>1, <1>2 DEF Again, Item

(* A callback lets go of its message: nothing takes its place, or its next    *)
(* attempt does, which has the whole of its backoff before it.                *)
LEMMA ReturnInv ==
    ASSUME Inv, NEW w \in Worker, mode[w] \in {"handler", "retry"}, Return(w),
           errors' \in 0 .. MaxErrors,
           \/ network' = network /\ since' = since
           \/ since' = [since EXCEPT ![hand[w].doc] = 0]
                /\ \/ network' = network
                   \/ /\ hand[w].attempts + 1 < MaxAttempts
                      /\ network' = network \cup {Again(hand[w])}
    PROVE  Inv'
<1> DEFINE m == hand[w]
           d == m.doc
           new == network' \ network
<1>1. /\ mode' = [mode EXCEPT ![w] = "up"] /\ hand' = [hand EXCEPT ![w] = NoMessage]
      /\ UNCHANGED <<published, inbox, held, cancelled>>
  BY DEF Return
<1>2. /\ m # NoMessage /\ m \in Item /\ m \in Messages /\ d \in Doc /\ d \in published
      /\ held[d] = 0
  BY ItemFacts DEF Inv, Placed, AllSound, Sound
<1>3. \A n \in new : /\ n \in Item /\ n.doc = d /\ n.type = m.type
                     /\ n.attempts = m.attempts + 1 /\ n.attempts \in 1 .. MaxAttempts - 1
                     /\ n.wait = ExponentialBackoff(n.attempts)
                     /\ since' = [since EXCEPT ![d] = 0] /\ n = Again(m)
  <2> SUFFICES ASSUME NEW n \in new
               PROVE  /\ n \in Item /\ n.doc = d /\ n.type = m.type
                      /\ n.attempts = m.attempts + 1 /\ n.attempts \in 1 .. MaxAttempts - 1
                      /\ n.wait = ExponentialBackoff(n.attempts)
                      /\ since' = [since EXCEPT ![d] = 0] /\ n = Again(m)
    OBVIOUS
  <2>1. n = Again(m) /\ m.attempts + 1 < MaxAttempts /\ since' = [since EXCEPT ![d] = 0]
    OBVIOUS
  <2>2. m.attempts \in Nat
    BY <1>2, ItemFacts
  <2> QED
    BY <1>2, <2>1, <2>2, AgainFacts
<1>4. network' = network \cup new
  OBVIOUS
<1>5. since' = since \/ since' = [since EXCEPT ![d] = 0]
  OBVIOUS
<1> HIDE DEF m, d, new
<1>6. \A v \in Worker : /\ In(v)' = In(v)
                        /\ hand'[v] = IF v = w THEN NoMessage ELSE hand[v]
  BY <1>1 DEF In, Inv, Typed
<1>7. Typed'
  <2>1. since' \in [Doc -> 0 .. Horizon]
    BY <1>2, <1>5, BackoffFacts DEF Inv, Typed
  <2> QED
    BY <1>1, <1>3, <1>4, <2>1 DEF Inv, Typed
<1>8. Placed'
  BY <1>1, <1>6 DEF Inv, Typed, Placed
\* No message of this document is left, but for the next attempt.
<1>9. /\ \A n \in network : n.doc # d
      /\ \A v \in Worker : \A n \in In(v) : n.doc # d
      /\ \A v \in Worker : hand'[v] # NoMessage => hand'[v].doc # d
  BY <1>2, <1>6 DEF Inv, Alone, d, m
<1>10. \A n \in Messages' : (n \in Messages /\ n.doc # d) \/ n \in new
  <2>1. \A n \in Messages' : \/ n \in network'
                             \/ \E v \in Worker : n \in In(v)
                             \/ \E v \in Worker : n = hand'[v] /\ n # NoMessage
    BY <1>1 DEF Messages, In
  <2> QED
    BY <1>4, <1>6, <1>9, <2>1, ItemFacts
<1>11. AllSound'
  <2>1. ASSUME NEW n \in new PROVE Sound(n)'
    <3>1. since'[d] = 0 /\ ExponentialBackoff(n.attempts) \in Nat
      BY <1>2, <1>3, BackoffFacts DEF Inv, Typed
    <3> QED
      BY <1>1, <1>2, <1>3, <3>1 DEF Sound
  <2>2. ASSUME NEW n \in Messages, n.doc # d PROVE since'[n.doc] = since[n.doc]
    BY <1>5, <2>2, ItemFacts DEF Inv, Typed
  <2> QED
    BY <1>1, <1>10, <2>1, <2>2, SoundKept
<1>12. Alone'
  <2>1. \A n, k \in network' : n.doc = k.doc => n = k
    BY <1>3, <1>4, <1>9 DEF Inv, Alone
  <2>2. \A n \in network', v \in Worker : \A k \in In(v) : n.doc # k.doc
    BY <1>3, <1>4, <1>9 DEF Inv, Alone
  <2>3. \A n \in network', v \in Worker : hand'[v] # NoMessage => n.doc # hand'[v].doc
    BY <1>3, <1>4, <1>6, <1>9 DEF Inv, Alone
  <2> QED
    BY <1>1, <1>6, <2>1, <2>2, <2>3 DEF Inv, Alone
<1>13. Waited'
  BY <1>1, <1>2, <1>3, <1>4, <1>6 DEF Inv, Waited, Queued
<1> QED
  BY <1>7, <1>8, <1>11, <1>12, <1>13 DEF Inv

(* A handler that succeeded lets its message go.                              *)
LEMMA SucceedInv == ASSUME Inv, NEW w \in Worker, Succeed(w) PROVE Inv'
BY ReturnInv DEF Succeed, Inv, Typed

(* A handler that failed publishes its message again, or lets it go.          *)
LEMMA RetryInv == ASSUME Inv, NEW w \in Worker, retryTask(w) PROVE Inv'
<1>1. hand[w] \in Item /\ hand[w].attempts \in Nat
  BY ItemFacts DEF Inv, Placed, retryTask
<1>2. Again(hand[w]).attempts = hand[w].attempts + 1
  BY <1>1 DEF Again, Item
<1>3. errors' \in 0 .. MaxErrors
  BY DEF retryTask, CallError, Inv, Typed
<1> QED
  BY <1>1, <1>2, <1>3, ReturnInv DEF retryTask

(* The process ends: what its callback slept for is the first of its messages *)
(* again, and what its handler had is gone.                                   *)
LEMMA StopInv == ASSUME Inv, NEW w \in Worker, Stop(w) PROVE Inv'
<1> DEFINE m == hand[w]
<1>1. /\ mode[w] # "down" /\ mode' = [mode EXCEPT ![w] = "down"]
      /\ hand' = [hand EXCEPT ![w] = NoMessage]
      /\ UNCHANGED <<published, network, since, held, errors, cancelled>>
  BY DEF Stop, clock, env
<1>2. /\ inbox \in [Worker -> Seq(Item)] /\ inbox[w] \in Seq(Item)
      /\ hand \in [Worker -> Item \cup {NoMessage}] /\ Len(inbox[w]) \in Nat
  BY ItemFacts DEF Inv, Typed
<1>3. /\ \A v \in Worker : hand'[v] = IF v = w THEN NoMessage ELSE hand[v]
      /\ \A v \in Worker : mode'[v] = IF v = w THEN "down" ELSE mode[v]
  BY <1>1 DEF Inv, Typed
<1>4. CASE ~Sleeping(w)
  <2>1. inbox' = inbox /\ \A v \in Worker : In(v)' = In(v)
    BY <1>2, <1>4 DEF Stop, In
  <2>2. Messages' \subseteq Messages
    BY <1>1, <1>2, <2>1 DEF Messages
  <2>3. Typed'
    BY <1>1, <1>2, <2>1 DEF Inv, Typed
  <2>4. Placed'
    BY <1>1, <1>3, <2>1 DEF Inv, Placed
  <2>5. AllSound'
    BY <1>1, <2>2, SoundKept
  <2>6. Alone'
    BY <1>1, <1>3, <2>1 DEF Inv, Alone
  <2>7. Waited'
    BY <1>1, <1>3, <2>1 DEF Inv, Waited, Queued
  <2> QED
    BY <2>3, <2>4, <2>5, <2>6, <2>7 DEF Inv
<1>5. CASE Sleeping(w)
  <2>1. /\ m # NoMessage /\ m \in Item /\ m \in Messages
        /\ inbox' = [inbox EXCEPT ![w] = <<m>> \o @]
    BY <1>2, <1>5, ItemFacts DEF Sleeping, Stop
  <2>2. /\ inbox'[w] = <<m>> \o inbox[w]
        /\ \A v \in Worker \ {w} : inbox'[v] = inbox[v] /\ In(v)' = In(v)
    BY <1>2, <2>1 DEF In
  <2>3. /\ inbox'[w] \in Seq(Item) /\ Len(inbox'[w]) = Len(inbox[w]) + 1
        /\ inbox'[w][1] = m
        /\ \A i \in 2 .. Len(inbox[w]) + 1 : inbox'[w][i] = inbox[w][i - 1]
        /\ In(w)' = In(w) \cup {m}
    BY <1>2, <2>1, <2>2, FrontFacts DEF In
  <2> HIDE DEF m
  <2>4. \A n \in Messages' : n \in Messages
    <3>1. \A n \in Messages' : \/ n \in network
                               \/ \E v \in Worker : n \in In(v)'
                               \/ \E v \in Worker : n = hand'[v] /\ n # NoMessage
      BY <1>1 DEF Messages, In
    <3>2. \A v \in Worker : In(v)' \subseteq Messages
      BY <2>1, <2>2, <2>3, ItemFacts
    <3>3. \A v \in Worker : hand'[v] # NoMessage => hand'[v] \in Messages
      BY <1>3, ItemFacts
    <3> QED
      BY <1>1, <3>1, <3>2, <3>3, ItemFacts
  <2>5. Typed'
    BY <1>1, <1>2, <2>1, <2>2, <2>3 DEF Inv, Typed
  <2>6. Placed'
    <3>1. m.type = Group(w)
      BY <2>1 DEF Inv, Placed, m
    <3>2. \A v \in Worker : \A n \in In(v)' : n.type = Group(v)
      BY <2>2, <2>3, <3>1 DEF Inv, Placed
    <3>3. \A v \in Worker :
            /\ hand'[v] # NoMessage => hand'[v].type = Group(v)
            /\ mode'[v] \in {"handler", "retry"} =>
                 hand'[v] # NoMessage /\ hand'[v].wait = 0 /\ held[hand'[v].doc] = 0
            /\ mode'[v] = "down" => hand'[v] = NoMessage
      BY <1>3 DEF Inv, Placed
    <3> QED
      BY <1>1, <3>2, <3>3 DEF Placed, Group
  <2>7. AllSound'
    BY <1>1, <2>4, SoundKept
  <2>8. Alone'
    <3>1. \A v \in Worker : \A n \in In(v) : n.doc # m.doc
      BY <2>1 DEF Inv, Alone, m
    <3>2. \A n \in network : n.doc # m.doc
      BY <2>1 DEF Inv, Alone, m
    <3>3. \A v \in Worker \ {w} : hand[v] # NoMessage => hand[v].doc # m.doc
      BY <2>1 DEF Inv, Alone, m
    <3>4. \A i, j \in 1 .. Len(inbox'[w]) : inbox'[w][i].doc = inbox'[w][j].doc => i = j
      <4> SUFFICES ASSUME NEW i \in 1 .. Len(inbox'[w]), NEW j \in 1 .. Len(inbox'[w]),
                          inbox'[w][i].doc = inbox'[w][j].doc
                   PROVE  i = j
        OBVIOUS
      <4>1. \A k \in 1 .. Len(inbox'[w]) : k # 1 =>
              /\ k - 1 \in 1 .. Len(inbox[w]) /\ inbox'[w][k] = inbox[w][k - 1]
              /\ inbox'[w][k].doc # m.doc
        BY <1>2, <2>3, <3>1, ItemFacts
      <4>2. CASE i = 1 \/ j = 1
        BY <2>3, <4>1, <4>2
      <4>3. CASE i # 1 /\ j # 1
        <5>1. i - 1 = j - 1
          BY <4>1, <4>3 DEF Inv, Alone
        <5> QED
          BY <1>2, <2>3, <5>1
      <4> QED
        BY <4>2, <4>3
    <3>5. \A v \in Worker : \A i, j \in 1 .. Len(inbox'[v]) :
            inbox'[v][i].doc = inbox'[v][j].doc => i = j
      <4> SUFFICES ASSUME NEW v \in Worker \ {w}
                   PROVE  \A i, j \in 1 .. Len(inbox'[v]) :
                            inbox'[v][i].doc = inbox'[v][j].doc => i = j
        BY <3>4
      <4>1. inbox'[v] = inbox[v]
        BY <2>2
      <4> QED
        BY <4>1 DEF Inv, Alone
    <3>6. \A n, k \in network' : n.doc = k.doc => n = k
      BY <1>1 DEF Inv, Alone
    <3>7. \A n \in network', v \in Worker : \A k \in In(v)' : n.doc # k.doc
      BY <1>1, <2>2, <2>3, <3>2 DEF Inv, Alone
    <3>8. \A n \in network', v \in Worker : hand'[v] # NoMessage => n.doc # hand'[v].doc
      BY <1>1, <1>3 DEF Inv, Alone
    <3>9. \A u, v \in Worker : u # v => \A n \in In(u)', k \in In(v)' : n.doc # k.doc
      BY <2>2, <2>3, <3>1 DEF Inv, Alone
    <3>10. \A u, v \in Worker : hand'[v] # NoMessage => \A n \in In(u)' : n.doc # hand'[v].doc
      BY <1>3, <2>2, <2>3, <3>3 DEF Inv, Alone
    <3>11. \A u, v \in Worker :
             u # v /\ hand'[u] # NoMessage /\ hand'[v] # NoMessage => hand'[u].doc # hand'[v].doc
      BY <1>3 DEF Inv, Alone
    <3> QED
      BY <3>5, <3>6, <3>7, <3>8, <3>9, <3>10, <3>11 DEF Alone, In
  <2>9. Waited'
    <3>1. Queued(w)'
      <4> SUFFICES ASSUME NEW i \in 1 .. Len(inbox'[w]), NEW j \in 1 .. i - 1
                   PROVE  held[inbox'[w][i].doc] + inbox'[w][j].wait <= LongestBackoff
        BY <1>1, <1>3 DEF Queued
      <4>1. i - 1 \in 1 .. Len(inbox[w]) /\ inbox'[w][i] = inbox[w][i - 1]
        BY <1>2, <2>3
      <4>2. CASE j = 1
        BY <2>1, <2>3, <4>1, <4>2 DEF Inv, Waited, Queued, m
      <4>3. CASE j # 1
        <5>1. j - 1 \in 1 .. (i - 1) - 1 /\ inbox'[w][j] = inbox[w][j - 1]
          BY <1>2, <2>3, <4>1, <4>3
        <5> QED
          BY <4>1, <5>1 DEF Inv, Waited, Queued
      <4> QED
        BY <4>2, <4>3
    <3>2. \A v \in Worker \ {w} : Queued(v)'
      BY <1>1, <1>3, <2>2 DEF Inv, Waited, Queued
    <3> QED
      BY <1>1, <3>1, <3>2 DEF Inv, Waited
  <2> QED
    BY <2>5, <2>6, <2>7, <2>8, <2>9 DEF Inv
<1> QED
  BY <1>4, <1>5

(* A second takes one from each delay that is left, and changes nothing else. *)
LEMMA LessFacts ==
    /\ Less(NoMessage) = NoMessage
    /\ \A m \in Item : /\ Less(m) \in Item /\ Less(m) # NoMessage
                       /\ Less(m).doc = m.doc /\ Less(m).type = m.type
                       /\ Less(m).attempts = m.attempts
                       /\ m.wait = 0 => Less(m).wait = 0
                       /\ m.wait > 0 => Less(m).wait = m.wait - 1
<1>1. \A m \in Item : m # NoMessage
  BY DEF Item, Kind, MessageKind
<1> QED
  BY <1>1 DEF Less, Item

(* The messages in a client's memory, a second later. *)
LEMMA InMemoryFacts ==
    ASSUME NEW s \in Seq(Item)
    PROVE  /\ InMemory(s) \in Seq(Item) /\ Len(InMemory(s)) = Len(s) /\ Len(s) \in Nat
           /\ \A i \in 1 .. Len(s) : InMemory(s)[i] = Less(s[i]) /\ s[i] \in Item
           /\ \A n \in ToSet(InMemory(s)) : \E m \in ToSet(s) : n = Less(m)
           /\ \A m \in ToSet(s) : Less(m) \in ToSet(InMemory(s))
<1>1. Len(s) \in Nat /\ DOMAIN s = 1 .. Len(s) /\ \A i \in 1 .. Len(s) : s[i] \in Item
  BY LenProperties
<1>2. InMemory(s) = [i \in 1 .. Len(s) |-> Less(s[i])]
  BY <1>1 DEF InMemory
<1>3. \A i \in 1 .. Len(s) : Less(s[i]) \in Item
  BY <1>1, LessFacts
<1>4. InMemory(s) \in Seq(Item) /\ Len(InMemory(s)) = Len(s)
  BY <1>1, <1>2, <1>3
<1>5. ASSUME NEW n \in ToSet(InMemory(s)) PROVE \E m \in ToSet(s) : n = Less(m)
  <2>1. PICK i \in 1 .. Len(s) : n = Less(s[i])
    BY <1>1, <1>2 DEF ToSet
  <2>2. s[i] \in ToSet(s)
    BY <1>1 DEF ToSet
  <2> QED
    BY <2>1, <2>2
<1>6. ASSUME NEW m \in ToSet(s) PROVE Less(m) \in ToSet(InMemory(s))
  BY <1>1, <1>2 DEF ToSet
<1> QED
  BY <1>1, <1>2, <1>4, <1>5, <1>6

(* A task is held up by the message its own replica sleeps for, so no longer  *)
(* than that message has to wait.                                             *)
LEMMA HeldUpFacts ==
    ASSUME Inv, NEW d \in Doc, HeldUp(d)
    PROVE  /\ d \in published
           /\ \A m \in network : m.doc # d
           /\ \A w \in Worker : hand[w] # NoMessage => hand[w].doc # d
           /\ \A w \in Worker : \A i \in 1 .. Len(inbox[w]) :
                inbox[w][i].doc = d => hand[w] # NoMessage /\ hand[w].wait > 0
           /\ held[d] + 1 <= LongestBackoff
<1> PICK v \in Worker : /\ Sleeping(v) /\ hand[v].wait > 0
                        /\ \E m \in ToSet(inbox[v]) : m.doc = d /\ m.wait = 0
  BY DEF HeldUp
<1> PICK m \in In(v) : m.doc = d
  BY DEF In
<1>1. m \in Messages /\ hand[v] # NoMessage /\ hand[v].wait \in Nat
      /\ LongestBackoff \in Nat /\ held[d] \in Nat
  BY ItemFacts, BackoffFacts DEF Sleeping, Inv, Typed
<1>2. d \in published
  BY <1>1 DEF Inv, AllSound, Sound
<1>3. /\ \A n \in network : n.doc # d
      /\ \A w \in Worker : hand[w] # NoMessage => hand[w].doc # d
      /\ \A w \in Worker : w # v => \A n \in In(w) : n.doc # d
  BY DEF Inv, Alone
<1>4. \A w \in Worker : \A i \in 1 .. Len(inbox[w]) : inbox[w][i].doc = d => w = v
  BY <1>3, ItemFacts
<1>5. held[d] + hand[v].wait <= LongestBackoff
  <2> PICK i \in 1 .. Len(inbox[v]) : inbox[v][i] = m
    BY ItemFacts
  <2> QED
    BY <1>1 DEF Inv, Waited, Queued
<1> QED
  BY <1>1, <1>2, <1>3, <1>4, <1>5

(* A second takes as much from every delay as it adds to every measurement.   *)
LEMMA TickInv == ASSUME Inv, Tick PROVE Inv'
<1>1. /\ network' = {Less(m) : m \in network}
      /\ inbox' = [w \in Worker |-> InMemory(inbox[w])]
      /\ hand' = [w \in Worker |-> Less(hand[w])]
      /\ since' = [d \in Doc |-> More(since[d])]
      /\ held' = [d \in Doc |-> IF HeldUp(d) THEN More(held[d]) ELSE held[d]]
      /\ UNCHANGED <<published, mode, errors, cancelled>>
  BY DEF Tick, env
<1>2. /\ network \subseteq Item /\ hand \in [Worker -> Item \cup {NoMessage}]
      /\ \A w \in Worker : inbox[w] \in Seq(Item)
      /\ since \in [Doc -> 0 .. Horizon] /\ held \in [Doc -> 0 .. LongestBackoff]
      /\ LongestBackoff \in Nat /\ Horizon = LongestBackoff + 1
  BY BackoffFacts DEF Inv, Typed
<1>3. \A w \in Worker :
        /\ inbox'[w] = InMemory(inbox[w])
        /\ inbox'[w] \in Seq(Item) /\ Len(inbox'[w]) = Len(inbox[w]) /\ Len(inbox[w]) \in Nat
        /\ \A i \in 1 .. Len(inbox[w]) : inbox'[w][i] = Less(inbox[w][i])
        /\ \A i \in 1 .. Len(inbox[w]) : inbox[w][i] \in Item
        /\ \A n \in In(w)' : \E m \in In(w) : n = Less(m)
  BY <1>1, <1>2, InMemoryFacts DEF In
<1>4. \A w \in Worker :
        /\ hand'[w] = Less(hand[w])
        /\ hand[w] = NoMessage => hand'[w] = NoMessage
        /\ hand'[w] # NoMessage => hand[w] # NoMessage /\ hand[w] \in Item
        /\ hand'[w] \in Item \cup {NoMessage}
  BY <1>1, <1>2, LessFacts
<1>5. \A d \in Doc : /\ held[d] \in 0 .. LongestBackoff
                     /\ ~HeldUp(d) => held'[d] = held[d]
                     /\ HeldUp(d) => held'[d] = held[d] + 1 /\ held[d] + 1 <= LongestBackoff
  BY <1>1, <1>2, HeldUpFacts DEF More
<1>6. Typed'
  <2>1. since' \in [Doc -> 0 .. Horizon]
    BY <1>1, <1>2 DEF More
  <2>2. \A d \in Doc : held'[d] \in 0 .. LongestBackoff
    BY <1>2, <1>5
  <2>3. held' \in [Doc -> 0 .. LongestBackoff]
    BY <1>1, <2>2
  <2>4. network' \subseteq Item
    BY <1>1, <1>2, LessFacts
  <2>5. inbox' \in [Worker -> Seq(Item)] /\ hand' \in [Worker -> Item \cup {NoMessage}]
    BY <1>1, <1>3, <1>4
  <2> QED
    BY <1>1, <2>1, <2>3, <2>4, <2>5, BackoffFacts DEF Inv, Typed
<1>7. Placed'
  <2> SUFFICES ASSUME NEW w \in Worker
               PROVE  /\ \A n \in In(w)' : n.type = Group(w)
                      /\ hand'[w] # NoMessage => hand'[w].type = Group(w)
                      /\ mode[w] \in {"handler", "retry"} =>
                           hand'[w] # NoMessage /\ hand'[w].wait = 0 /\ held'[hand'[w].doc] = 0
                      /\ mode[w] = "down" => hand'[w] = NoMessage
    BY <1>1 DEF Placed, Group
  <2>1. \A n \in In(w)' : n.type = Group(w)
    BY <1>3, LessFacts, ItemFacts DEF Inv, Placed
  <2>2. hand'[w] # NoMessage => hand'[w].type = Group(w)
    BY <1>4, LessFacts DEF Inv, Placed
  <2>3. mode[w] = "down" => hand'[w] = NoMessage
    BY <1>4 DEF Inv, Placed
  <2>4. ASSUME mode[w] \in {"handler", "retry"}
        PROVE  hand'[w] # NoMessage /\ hand'[w].wait = 0 /\ held'[hand'[w].doc] = 0
    <3>1. hand[w] # NoMessage /\ hand[w].wait = 0 /\ held[hand[w].doc] = 0
      BY <2>4 DEF Inv, Placed
    <3>2. hand[w] \in Item /\ hand[w].doc \in Doc
      BY <3>1, ItemFacts
    <3>3. hand'[w] # NoMessage /\ hand'[w].wait = 0 /\ hand'[w].doc = hand[w].doc
      BY <1>4, <3>1, <3>2, LessFacts
    <3>4. ~HeldUp(hand[w].doc)
      BY <3>1, <3>2, HeldUpFacts
    <3> QED
      BY <1>5, <3>1, <3>2, <3>3, <3>4
  <2> QED
    BY <2>1, <2>2, <2>3, <2>4
<1>8. AllSound'
  <2> SUFFICES ASSUME NEW n \in Messages' PROVE Sound(n)'
    BY DEF AllSound
  <2>1. PICK m \in Messages : n = Less(m)
    <3>1. \/ n \in network'
          \/ \E w \in Worker : n \in In(w)'
          \/ \E w \in Worker : n = hand'[w] /\ n # NoMessage
      BY DEF Messages, In
    <3> QED
      BY <1>1, <1>3, <1>4, <3>1, ItemFacts
  <2>2. m \in Item /\ Sound(m)
    BY ItemFacts DEF Inv, AllSound
  <2>3. /\ n.doc = m.doc /\ n.attempts = m.attempts
        /\ m.wait \in Nat /\ m.attempts \in 0 .. MaxAttempts - 1 /\ m.doc \in Doc
        /\ m.wait = 0 => n.wait = 0
        /\ m.wait > 0 => n.wait = m.wait - 1
    BY <2>1, <2>2, LessFacts DEF Item
  <2> DEFINE b == ExponentialBackoff(m.attempts)
  <2>4. b \in Nat /\ b <= LongestBackoff
    BY <2>3, BackoffFacts
  <2>5. since[m.doc] \in 0 .. Horizon /\ since'[m.doc] = More(since[m.doc])
    BY <1>1, <1>2, <2>3
  <2>6. /\ m.doc \in published
        /\ m.wait <= IF m.attempts = 0 THEN 0 ELSE b
        /\ m.attempts > 0 => since[m.doc] + m.wait >= b
    BY <2>2 DEF Sound
  <2> HIDE DEF b
  <2>7. n.wait <= IF m.attempts = 0 THEN 0 ELSE b
    BY <2>3, <2>4, <2>6
  <2>8. m.attempts > 0 => since'[m.doc] + n.wait >= b
    BY <1>2, <2>3, <2>4, <2>5, <2>6 DEF More
  <2> QED
    BY <1>1, <2>3, <2>6, <2>7, <2>8 DEF Sound, b
<1>9. Alone'
  <2>1. \A n, k \in network' : n.doc = k.doc => n = k
    BY <1>1, <1>2, LessFacts DEF Inv, Alone
  <2>2. \A n \in network', w \in Worker : \A k \in In(w)' : n.doc # k.doc
    <3> SUFFICES ASSUME NEW a \in network, NEW w \in Worker, NEW k \in In(w)'
                 PROVE  Less(a).doc # k.doc
      BY <1>1
    <3> PICK b \in In(w) : k = Less(b)
      BY <1>3
    <3>1. a \in Item /\ b \in Item /\ a.doc # b.doc
      BY ItemFacts DEF Inv, Alone
    <3> QED
      BY <3>1, LessFacts
  <2>3. \A n \in network', w \in Worker : hand'[w] # NoMessage => n.doc # hand'[w].doc
    BY <1>1, <1>2, <1>4, LessFacts DEF Inv, Alone
  <2>4. \A w \in Worker : \A i, j \in 1 .. Len(inbox'[w]) :
          inbox'[w][i].doc = inbox'[w][j].doc => i = j
    BY <1>3, LessFacts DEF Inv, Alone
  <2>5. \A v, w \in Worker : v # w => \A n \in In(v)', k \in In(w)' : n.doc # k.doc
    <3> SUFFICES ASSUME NEW v \in Worker, NEW w \in Worker, v # w,
                        NEW n \in In(v)', NEW k \in In(w)'
                 PROVE  n.doc # k.doc
      OBVIOUS
    <3> PICK a \in In(v) : n = Less(a)
      BY <1>3
    <3> PICK b \in In(w) : k = Less(b)
      BY <1>3
    <3>1. a \in Item /\ b \in Item /\ a.doc # b.doc
      BY ItemFacts DEF Inv, Alone
    <3> QED
      BY <3>1, LessFacts
  <2>6. \A v, w \in Worker : hand'[w] # NoMessage => \A n \in In(v)' : n.doc # hand'[w].doc
    <3> SUFFICES ASSUME NEW v \in Worker, NEW w \in Worker, hand'[w] # NoMessage,
                        NEW n \in In(v)'
                 PROVE  n.doc # hand'[w].doc
      OBVIOUS
    <3> PICK a \in In(v) : n = Less(a)
      BY <1>3
    <3>1. a \in Item /\ hand[w] \in Item /\ hand[w] # NoMessage /\ a.doc # hand[w].doc
      BY <1>4, ItemFacts DEF Inv, Alone
    <3> QED
      BY <1>4, <3>1, LessFacts
  <2>7. \A v, w \in Worker :
          v # w /\ hand'[v] # NoMessage /\ hand'[w] # NoMessage => hand'[v].doc # hand'[w].doc
    BY <1>4, LessFacts DEF Inv, Alone
  <2> QED
    BY <2>1, <2>2, <2>3, <2>4, <2>5, <2>6, <2>7 DEF Alone, In
<1>10. Waited'
  <2>1. \A d \in Doc \ published : held'[d] = 0
    BY <1>5, HeldUpFacts DEF Inv, Waited
  <2>2. \A n \in network' : held'[n.doc] = 0
    <3> SUFFICES ASSUME NEW m \in network PROVE held'[Less(m).doc] = 0
      BY <1>1
    <3>2. Less(m).doc = m.doc
      BY <1>2, LessFacts
    <3>1. m.doc \in Doc /\ held[m.doc] = 0 /\ ~HeldUp(m.doc)
      BY HeldUpFacts, ItemFacts DEF Inv, Waited
    <3> QED
      BY <1>5, <3>1, <3>2
  <2>3. ASSUME NEW w \in Worker PROVE Queued(w)'
    <3> SUFFICES ASSUME NEW i \in 1 .. Len(inbox[w])
                 PROVE  /\ \A j \in 1 .. i - 1 :
                             held'[inbox'[w][i].doc] + inbox'[w][j].wait <= LongestBackoff
                        /\ hand'[w] # NoMessage =>
                             held'[inbox'[w][i].doc] + hand'[w].wait <= LongestBackoff
      BY <1>3 DEF Queued
    <3> DEFINE d == inbox[w][i].doc
    <3>1. inbox'[w][i].doc = d /\ d \in Doc /\ held[d] \in Nat
      BY <1>3, <1>5, LessFacts, ItemFacts
    <3>2. /\ \A j \in 1 .. i - 1 : held[d] + inbox[w][j].wait <= LongestBackoff
          /\ hand[w] # NoMessage => held[d] + hand[w].wait <= LongestBackoff
      BY DEF Inv, Waited, Queued
    <3>3. HeldUp(d) => hand[w] # NoMessage /\ hand[w].wait > 0
      BY <3>1, HeldUpFacts
    <3> HIDE DEF d
    <3>4. \/ held'[d] = held[d]
          \/ held'[d] = held[d] + 1 /\ hand[w] # NoMessage /\ hand[w].wait > 0
      BY <1>5, <3>1, <3>3
    <3>5. ASSUME NEW j \in 1 .. i - 1 PROVE held'[d] + inbox'[w][j].wait <= LongestBackoff
      <4>1. j \in 1 .. Len(inbox[w])
        BY <1>3
      <4>2. /\ inbox[w][j].wait \in Nat
            /\ inbox'[w][j].wait = IF inbox[w][j].wait = 0 THEN 0 ELSE inbox[w][j].wait - 1
        <5>1. inbox[w][j] \in Item /\ inbox'[w][j] = Less(inbox[w][j])
          BY <1>3, <4>1
        <5>2. inbox[w][j].wait \in Nat
          BY <5>1, ItemFacts
        <5> QED
          BY <5>1, <5>2, LessFacts
      <4>3. held[d] + inbox[w][j].wait <= LongestBackoff
        BY <3>2
      <4>4. held'[d] <= LongestBackoff
        BY <1>5, <3>1
      <4> QED
        BY <1>2, <3>1, <3>4, <4>2, <4>3, <4>4
    <3>6. ASSUME hand'[w] # NoMessage PROVE held'[d] + hand'[w].wait <= LongestBackoff
      <4>1. /\ hand[w] # NoMessage /\ hand[w].wait \in Nat
            /\ hand'[w].wait = IF hand[w].wait = 0 THEN 0 ELSE hand[w].wait - 1
        BY <1>4, <3>6, LessFacts, ItemFacts
      <4> QED
        BY <1>2, <3>1, <3>2, <3>4, <4>1
    <3> QED
      BY <3>1, <3>5, <3>6
  <2> QED
    BY <1>1, <2>1, <2>2, <2>3 DEF Waited
<1> QED
  BY <1>6, <1>7, <1>8, <1>9, <1>10 DEF Inv

--------------------------------------------------------------------------------
(******************************************************************************)
(* What the invariant gives.                                                  *)
(******************************************************************************)
LEMMA StutterInv == ASSUME Inv, UNCHANGED vars PROVE Inv'
<1>1. UNCHANGED <<published, network, inbox, hand, mode, since, held, errors, cancelled>>
  BY DEF vars, client, clock, env
<1>2. Messages' = Messages /\ \A w \in Worker : In(w)' = In(w)
  BY <1>1 DEF Messages, In
<1> QED
  BY <1>1, <1>2, SoundKept DEF Inv, Typed, Placed, Alone, Waited, Queued

(* Every step keeps the invariant.                                            *)
LEMMA StepInv == ASSUME Inv, [Next]_vars PROVE Inv'
<1>1. ASSUME NEW d \in Doc, Publish(d) PROVE Inv'
  BY <1>1, PublishInv
<1>2. ASSUME NEW m \in network, Route(m) \/ Lose(m) PROVE Inv'
  BY <1>2, RouteInv, LoseInv
<1>3. ASSUME NEW w \in Worker, Step(w) PROVE Inv'
  BY <1>3, NextMessageInv, HandleInv, SucceedInv, FailInv, RetryInv, ForgetInv DEF Step
<1>4. ASSUME NEW w \in Worker, Stop(w) \/ Restart(w) PROVE Inv'
  BY <1>4, StopInv, RestartInv
<1>5. CASE Tick
  BY <1>5, TickInv
<1>6. CASE UNCHANGED vars
  BY <1>6, StutterInv
<1> QED
  BY <1>1, <1>2, <1>3, <1>4, <1>5, <1>6 DEF Next

(* The queue is in no state but those the invariant describes. *)
THEOREM InvHolds == Spec => []Inv
<1>1. Init => Inv
  BY InitInv
<1>2. Inv /\ [Next]_vars => Inv'
  BY StepInv
<1> QED
  BY <1>1, <1>2, PTL DEF Spec

(* Every message names a task that was published, has attempts left and no    *)
(* more than its backoff to wait; replicas hold what their group is for.      *)
THEOREM TypeOKHolds == Spec => []TypeOK
<1>1. Inv => TypeOK
  <2> SUFFICES ASSUME Inv PROVE TypeOK
    OBVIOUS
  <2>1. \A m \in Messages :
          /\ m.type \in {"parse", "analyze"} /\ m.doc \in published
          /\ m.attempts \in 0 .. MaxAttempts - 1
          /\ m.wait \in 0 .. IF m.attempts = 0 THEN 0 ELSE ExponentialBackoff(m.attempts)
    <3> SUFFICES ASSUME NEW m \in Messages
                 PROVE  /\ m.type \in {"parse", "analyze"} /\ m.doc \in published
                        /\ m.attempts \in 0 .. MaxAttempts - 1
                        /\ m.wait \in 0 .. IF m.attempts = 0 THEN 0
                                           ELSE ExponentialBackoff(m.attempts)
      OBVIOUS
    <3>1. m \in Item /\ Sound(m)
      BY ItemFacts DEF Inv, AllSound
    <3>2. /\ m.type \in {"parse", "analyze"} /\ m.attempts \in 0 .. MaxAttempts - 1
          /\ m.wait \in Nat
      BY <3>1 DEF Item, Kind
    <3>3. ExponentialBackoff(m.attempts) \in Nat
      BY <3>2, BackoffFacts
    <3> QED
      BY <3>1, <3>2, <3>3 DEF Sound
  <2>2. \A w \in Worker :
          /\ mode[w] \in {"up", "handler", "retry", "down"}
          /\ mode[w] \in {"handler", "retry"} => hand[w] # NoMessage
          /\ mode[w] = "down" => hand[w] = NoMessage
          /\ \A m \in ToSet(inbox[w]) : m.type = Group(w)
    BY DEF Inv, Typed, Placed, In
  <2>3. held \in [Doc -> 0 .. Horizon]
    BY BackoffFacts DEF Inv, Typed
  <2> QED
    BY <2>1, <2>2, <2>3 DEF Inv, Typed, TypeOK
<1> QED
  BY <1>1, InvHolds, PTL

(* handleMessage runs no handler before the backoff of the attempt has passed *)
(* since the last one failed, however the task came to this replica.          *)
THEOREM BackoffKeptHolds == Spec => []BackoffKept
<1>1. Inv => BackoffKept
  <2> SUFFICES ASSUME Inv, NEW w \in Worker, mode[w] = "handler", hand[w].attempts > 0
               PROVE  since[hand[w].doc] >= ExponentialBackoff(hand[w].attempts)
    BY DEF BackoffKept
  <2>1. hand[w] \in Messages /\ hand[w].wait = 0
    BY ItemFacts DEF Inv, Placed
  <2>2. hand[w] \in Item /\ Sound(hand[w])
    BY <2>1, ItemFacts DEF Inv, AllSound
  <2>3. since[hand[w].doc] \in Nat
    BY <2>2, ItemFacts, BackoffFacts DEF Inv, Typed
  <2> QED
    BY <2>1, <2>2, <2>3 DEF Sound
<1> QED
  BY <1>1, InvHolds, PTL

(* A task that is due waits behind the sleeps of a callback for the longest   *)
(* backoff at most, for any number of tasks: what the sleeps cost does not    *)
(* add up.                                                                    *)
THEOREM HoldUpBoundedHolds == Spec => []HoldUpBounded
<1>1. Inv => HoldUpBounded
  BY BackoffFacts DEF Inv, Typed, HoldUpBounded
<1> QED
  BY <1>1, InvHolds, PTL

--------------------------------------------------------------------------------
(******************************************************************************)
(* The refinement.  The wire of TaskQueue is the set of messages that are on  *)
(* the network, in the memory of a client or with a callback that sleeps.     *)
(******************************************************************************)
OnTheWay(m) ==
    \/ m \in network
    \/ \E w \in Worker : m \in In(w)
    \/ \E w \in Worker : Sleeping(w) /\ m = hand[w]

(* A document's message is in one place. *)
LEMMA OneMessage == Inv => \A m, n \in Messages : m.doc = n.doc => m = n
<1> SUFFICES ASSUME Inv, NEW m \in Messages, NEW n \in Messages, m.doc = n.doc PROVE m = n
  OBVIOUS
<1>1. ASSUME NEW w \in Worker, m \in In(w), n \in In(w) PROVE m = n
  <2> PICK i \in 1 .. Len(inbox[w]) : inbox[w][i] = m
    BY <1>1, ItemFacts
  <2> PICK j \in 1 .. Len(inbox[w]) : inbox[w][j] = n
    BY <1>1, ItemFacts
  <2> QED
    BY DEF Inv, Alone
<1>2. /\ m \in network \/ (\E w \in Worker : m \in In(w)) \/ \E w \in Worker : m = hand[w] /\ m # NoMessage
      /\ n \in network \/ (\E w \in Worker : n \in In(w)) \/ \E w \in Worker : n = hand[w] /\ n # NoMessage
  BY WhereMessagesAre
<1>3. CASE m \in network
  BY <1>2, <1>3 DEF Inv, Alone
<1>4. ASSUME NEW w \in Worker, m \in In(w) PROVE m = n
  BY <1>1, <1>2, <1>4 DEF Inv, Alone
<1>5. ASSUME NEW w \in Worker, m = hand[w], m # NoMessage PROVE m = n
  BY <1>2, <1>5 DEF Inv, Alone
<1> QED
  BY <1>2, <1>3, <1>4, <1>5

WireIsTheWay == \A m : m \in OnWire <=> OnTheWay(m)

(* What is not with a handler is on the way to one. *)
LEMMA OnWireIs == Inv => WireIsTheWay
<1> SUFFICES ASSUME Inv, NEW m PROVE m \in OnWire <=> OnTheWay(m)
  BY DEF WireIsTheWay
<1>1. m \in OnWire <=> m \in Messages /\ ~\E w \in Worker : InHand(w) /\ hand[w] = m
  BY DEF OnWire
<1>2. ASSUME m \in OnWire PROVE OnTheWay(m)
  <2>1. \/ m \in network
        \/ \E w \in Worker : m \in In(w)
        \/ \E w \in Worker : m = hand[w] /\ m # NoMessage
    BY <1>1, <1>2, WhereMessagesAre
  <2>2. ASSUME NEW w \in Worker, m = hand[w], m # NoMessage PROVE Sleeping(w)
    BY <1>1, <1>2, <2>2 DEF Inv, Typed, Placed, InHand, Sleeping
  <2> QED
    BY <2>1, <2>2 DEF OnTheWay
<1>3. ASSUME OnTheWay(m) PROVE m \in OnWire
  <2>1. m \in Messages
    BY <1>3, ItemFacts DEF OnTheWay, Sleeping
  <2>2. ASSUME NEW w \in Worker, InHand(w), hand[w] = m PROVE FALSE
    <3>1. hand[w] # NoMessage /\ mode[w] # "up"
      BY <2>2 DEF Inv, Placed, InHand
    <3>2. CASE m \in network
      BY <2>2, <3>1, <3>2 DEF Inv, Alone
    <3>3. ASSUME NEW v \in Worker, m \in In(v) PROVE FALSE
      BY <2>2, <3>1, <3>3 DEF Inv, Alone
    <3>4. ASSUME NEW v \in Worker, Sleeping(v), m = hand[v] PROVE FALSE
      BY <2>2, <3>1, <3>4 DEF Inv, Alone, Sleeping
    <3> QED
      BY <1>3, <3>2, <3>3, <3>4 DEF OnTheWay
  <2> QED
    BY <1>1, <2>1, <2>2
<1> QED
  BY <1>2, <1>3

(* And so after each step.                                                    *)
LEMMA OnWireIsNext == Inv' => WireIsTheWay'
BY OnWireIs, PTL

(* As a bag, the wire holds each task once. *)
OnWireTasks == {TaskOf(m) : m \in OnWire}

(* A task put on a wire without it, and one taken from a wire.                *)
LEMMA BagFacts ==
    ASSUME NEW S, NEW t
    PROVE  /\ t \notin S => SetToBag(S \cup {t}) = Seen!BagAdd(SetToBag(S), t)
           /\ t \in S => SetToBag(S \ {t}) = Seen!BagRemove(SetToBag(S), t)
<1>1. SetToBag(S) = [e \in S |-> 1]
  BY DEF SetToBag
<1> QED
  BY <1>1 DEF SetToBag, Seen!BagAdd, Seen!BagRemove

(* The wire as a set, before and after a step.                                *)
LEMMA WireFacts ==
    ASSUME Inv, Inv'
    PROVE  /\ wire = SetToBag(OnWireTasks) /\ wire' = SetToBag(OnWireTasks')
           /\ Seen!Tasks = OnWireTasks
           /\ \A m : m \in OnWire <=> OnTheWay(m)
           /\ \A m : m \in OnWire' <=> OnTheWay(m)'
           /\ \A m \in OnWire : m \in Messages /\ m \in Item
           /\ \A m, n \in Messages : TaskOf(m) = TaskOf(n) => m = n
<1>1. wire = SetToBag(OnWireTasks) /\ wire' = SetToBag(OnWireTasks')
  BY DEF wire, OnWireTasks
<1>2. Seen!Tasks = OnWireTasks
  BY <1>1 DEF Seen!Tasks, Seen!BagToSet, SetToBag
<1>3. /\ \A m : m \in OnWire <=> OnTheWay(m)
      /\ \A m : m \in OnWire' <=> OnTheWay(m)'
  BY OnWireIs, OnWireIsNext DEF WireIsTheWay
<1>4. \A m \in OnWire : m \in Messages /\ m \in Item
  BY ItemFacts DEF OnWire
<1>5. \A m, n \in Messages : TaskOf(m) = TaskOf(n) => m = n
  BY OneMessage DEF TaskOf
<1> QED
  BY <1>1, <1>2, <1>3, <1>4, <1>5

(* Nothing is seen of a step that leaves each message on the wire, and each   *)
(* callback where it was.                                                     *)
SeenUnchanged == UNCHANGED <<Seen!queue, env>>

(* A message that leaves the wire for nowhere is lost, as core NATS may do.   *)
LEMMA SeenLost ==
    ASSUME Inv, Inv', "loss" \in Disruptions, NEW m \in OnWire,
           \A n : n \in OnWire' <=> n \in OnWire /\ n # m,
           UNCHANGED <<pc, task, env>>
    PROVE  \E t \in Seen!Tasks : Seen!Lose(t)
<1> DEFINE t == TaskOf(m)
<1>1. t \in OnWireTasks /\ t \in Seen!Tasks
  BY WireFacts DEF OnWireTasks
<1>2. OnWireTasks' = OnWireTasks \ {t}
  BY WireFacts DEF OnWireTasks
<1>3. wire' = Seen!BagRemove(wire, t)
  BY <1>1, <1>2, WireFacts, BagFacts
<1>4. Seen!BagIn(t, wire)
  BY <1>1 DEF Seen!BagIn, Seen!Tasks
<1> QED
  BY <1>1, <1>3, <1>4 DEF Seen!Lose, env, Seen!env

(* One worker's step changes what is seen of this worker. *)
LEMMA SeenOfOthers ==
    ASSUME Inv, NEW w \in Worker,
           \A v \in Worker \ {w} : hand'[v] = hand[v] /\ mode'[v] = mode[v]
    PROVE  pc' = [pc EXCEPT ![w] = pc'[w]] /\ task' = [task EXCEPT ![w] = task'[w]]
BY DEF pc, task, InHand

(* Where nothing gets on or off the wire, nothing is seen.                    *)
LEMMA SeenStutter ==
    ASSUME Inv, Inv', \A n : n \in OnWire' <=> n \in OnWire, UNCHANGED <<pc, task, env>>
    PROVE  SeenUnchanged
<1>1. OnWireTasks' = OnWireTasks
  BY DEF OnWireTasks
<1> QED
  BY <1>1, WireFacts DEF SeenUnchanged, Seen!queue

(* Publishing puts a task on the wire.                                        *)
LEMMA PublishSeen ==
    ASSUME Inv, Inv', NEW d \in Doc, Publish(d)
    PROVE  SeenPublish(d)
<1> PICK type \in Kind : network' = network \cup {Message(type, d)}
  BY DEF Publish, Kind
<1> DEFINE new == Message(type, d)
           t == Seen!NewTask(type, d)
<1>1. /\ new.doc = d /\ TaskOf(new) = t /\ t.doc = d
      /\ d \notin published
      /\ UNCHANGED <<inbox, hand, mode, errors, cancelled>>
  BY DEF Publish, Message, TaskOf, Seen!NewTask, client, clock, env
<1>2. network' = network \cup {new}
  OBVIOUS
<1> HIDE DEF new, t
<1>3. \A n : n \in OnWire' <=> n \in OnWire \/ n = new
  BY <1>1, <1>2, WireFacts DEF OnTheWay, Sleeping, In
<1>4. OnWireTasks' = OnWireTasks \cup {t}
  BY <1>1, <1>3 DEF OnWireTasks
<1>5. t \notin OnWireTasks
  <2>1. \A m \in OnWire : m.doc # d
    BY <1>1, WireFacts DEF Inv, AllSound, Sound
  <2> QED
    BY <1>1, <2>1 DEF OnWireTasks, TaskOf
<1>6. wire' = Seen!BagAdd(wire, t)
  BY <1>4, <1>5, WireFacts, BagFacts
<1>7. UNCHANGED <<pc, task>>
  BY <1>1 DEF pc, task, InHand
<1>8. Seen!EnqueueOK(d, t)
  <2>1. d \in Caller
    BY DEF Caller
  <2> QED
    BY <1>1, <1>6, <2>1 DEF Seen!EnqueueOK, Seen!MayPublish
<1> QED
  BY <1>1, <1>7, <1>8 DEF SeenPublish, Kind, t

(* A message on its way to a client stays on the wire.                        *)
LEMMA RouteSeen ==
    ASSUME Inv, Inv', "loss" \in Disruptions, NEW m \in network, Route(m)
    PROVE  SeenUnchanged \/ \E t \in Seen!Tasks : Seen!Lose(t)
<1>1. network' = network \ {m} /\ UNCHANGED <<hand, mode, env>> /\ UNCHANGED <<pc, task>>
  BY DEF Route, pc, task, InHand
<1>2. m \in OnWire
  BY WireFacts DEF OnTheWay
<1>3. CASE Subscribed(m) = {}
  <2>1. inbox' = inbox
    BY <1>3 DEF Route
  <2>2. \A v \in Worker : /\ m \notin In(v)
                          /\ hand[v] # NoMessage => m # hand[v]
    BY DEF Inv, Alone
  <2>3. \A n : n \in OnWire' <=> n \in OnWire /\ n # m
    BY <1>1, <2>1, <2>2, WireFacts DEF OnTheWay, Sleeping, In
  <2> QED
    BY <1>1, <1>2, <2>3, SeenLost
<1>4. CASE Subscribed(m) # {}
  <2> PICK w \in Subscribed(m) : inbox' = [inbox EXCEPT ![w] = Append(@, m)]
    BY <1>4 DEF Route
  <2>1. w \in Worker /\ inbox[w] \in Seq(Item) /\ m \in Item
    BY ItemFacts DEF Subscribed
  <2>2. /\ In(w)' = In(w) \cup {m}
        /\ \A v \in Worker \ {w} : In(v)' = In(v)
    BY <2>1, AppendFacts DEF In, Inv, Typed
  <2>3. \A n : n \in OnWire' <=> n \in OnWire
    <3>1. ASSUME NEW n PROVE OnTheWay(n)' => OnTheWay(n)
      BY <1>1, <2>1, <2>2 DEF OnTheWay, Sleeping
    <3>2. ASSUME NEW n PROVE OnTheWay(n) => OnTheWay(n)'
      BY <1>1, <2>1, <2>2 DEF OnTheWay, Sleeping
    <3> QED
      BY <3>1, <3>2, WireFacts
  <2> QED
    BY <1>1, <2>3, SeenStutter
<1> QED
  BY <1>3, <1>4

(* A message lost with its connection is a task lost.                         *)
LEMMA LoseSeen ==
    ASSUME Inv, Inv', NEW m \in network, Lose(m)
    PROVE  \E t \in Seen!Tasks : Seen!Lose(t)
<1>1. /\ "loss" \in Disruptions /\ network' = network \ {m}
      /\ UNCHANGED <<inbox, hand, mode, env>> /\ UNCHANGED <<pc, task>>
  BY DEF Lose, client, pc, task, InHand
<1>2. m \in OnWire
  BY WireFacts DEF OnTheWay
<1>3. \A v \in Worker : /\ m \notin In(v)
                        /\ hand[v] # NoMessage => m # hand[v]
  BY DEF Inv, Alone
<1>4. \A n : n \in OnWire' <=> n \in OnWire /\ n # m
  BY <1>1, <1>3, WireFacts DEF OnTheWay, Sleeping, In
<1> QED
  BY <1>1, <1>2, <1>4, SeenLost

(* The message of a callback that sleeps is on the wire.                      *)
LEMMA NextMessageSeen ==
    ASSUME Inv, Inv', NEW w \in Worker, NextMessage(w)
    PROVE  SeenUnchanged
<1> DEFINE m == Head(inbox[w])
<1>1. /\ mode[w] = "up" /\ hand[w] = NoMessage /\ inbox[w] # <<>> /\ inbox[w] \in Seq(Item)
      /\ inbox' = [inbox EXCEPT ![w] = Tail(@)]
      /\ hand' = [hand EXCEPT ![w] = m]
      /\ UNCHANGED <<network, mode, env>>
  BY ItemFacts DEF NextMessage
<1>2. m \in Item /\ m # NoMessage /\ In(w) = {m} \cup In(w)'
      /\ \A v \in Worker \ {w} : In(v)' = In(v)
  BY <1>1, TailFacts, ItemFacts DEF In, Inv, Typed
<1> HIDE DEF m
<1>3. \A v \in Worker : hand'[v] = IF v = w THEN m ELSE hand[v]
  BY <1>1 DEF Inv, Typed
<1>4. \A n : n \in OnWire' <=> n \in OnWire
  <2>1. ASSUME NEW n PROVE OnTheWay(n)' => OnTheWay(n)
    BY <1>1, <1>2, <1>3 DEF OnTheWay, Sleeping
  <2>2. ASSUME NEW n PROVE OnTheWay(n) => OnTheWay(n)'
    BY <1>1, <1>2, <1>3 DEF OnTheWay, Sleeping
  <2> QED
    BY <2>1, <2>2, WireFacts
<1>5. UNCHANGED <<pc, task>>
  <2>1. \A v \in Worker : InHand(v)' = InHand(v) /\ (InHand(v) => hand'[v] = hand[v])
    BY <1>1, <1>3 DEF InHand
  <2> QED
    BY <1>1, <2>1 DEF pc, task
<1> QED
  BY <1>1, <1>4, <1>5, SeenStutter

(* The worker receives a task when its handler starts.                        *)
LEMMA HandleSeen ==
    ASSUME Inv, Inv', NEW w \in Worker, Handle(w)
    PROVE  Seen!Receive(w, Group(w), "handler")
<1> DEFINE m == hand[w]
           t == TaskOf(m)
<1>1. /\ Sleeping(w) /\ mode[w] = "up" /\ m # NoMessage /\ m \in Item /\ m \in Messages
      /\ mode' = [mode EXCEPT ![w] = "handler"]
      /\ UNCHANGED <<network, inbox, hand, errors, cancelled>>
  BY ItemFacts DEF Handle, Wake, Sleeping, env
<1>2. \A v \in Worker : mode'[v] = IF v = w THEN "handler" ELSE mode[v]
  BY <1>1 DEF Inv, Typed
<1>3. m \in OnWire /\ t \in OnWireTasks /\ t.type = Group(w)
  BY <1>1, WireFacts DEF OnTheWay, OnWireTasks, TaskOf, Inv, Placed
<1>4. \A n : n \in OnWire' <=> n \in OnWire /\ n # m
  <2>1. m \notin network /\ \A v \in Worker : m \notin In(v)
    BY <1>1 DEF Inv, Alone
  <2>2. \A v \in Worker \ {w} : hand[v] # NoMessage => hand[v] # m
    BY <1>1 DEF Inv, Alone
  <2>3. ASSUME NEW n PROVE OnTheWay(n)' <=> OnTheWay(n) /\ n # m
    BY <1>1, <1>2, <2>1, <2>2 DEF OnTheWay, Sleeping, In
  <2> QED
    BY <2>3, WireFacts
<1>5. OnWireTasks' = OnWireTasks \ {t}
  BY <1>1, <1>4, WireFacts DEF OnWireTasks
<1>6. wire' = Seen!BagRemove(wire, t)
  BY <1>3, <1>5, WireFacts, BagFacts
<1>7. /\ pc[w] = "idle" /\ pc'[w] = "handler" /\ task'[w] = t
      /\ pc' = [pc EXCEPT ![w] = pc'[w]] /\ task' = [task EXCEPT ![w] = task'[w]]
  <2>1. pc[w] = "idle" /\ pc'[w] = "handler"
    BY <1>1, <1>2 DEF pc
  <2>2. task'[w] = TaskOf(hand'[w])
    BY <1>2 DEF task, InHand
  <2>3. task'[w] = t
    BY <1>1, <2>2
  <2> QED
    BY <1>1, <1>2, <2>1, <2>3, SeenOfOthers
<1>8. t \in Seen!BagToSet(wire)
  BY <1>3, WireFacts DEF Seen!Tasks
<1> HIDE DEF t
<1> QED
  BY <1>1, <1>3, <1>6, <1>7, <1>8 DEF Seen!Receive, Seen!env

(* A callback that lets go of its message does not touch the wire itself. *)
LEMMA ReturnSeen ==
    ASSUME Inv, Inv', NEW w \in Worker, InHand(w), Return(w)
    PROVE  /\ Seen!Release(w, "idle") /\ UNCHANGED cancelled
           /\ \A n : OnTheWay(n)' <=> n \in network' \/ (OnTheWay(n) /\ n \notin network)
           /\ \A n \in network : \A v \in Worker : /\ n \notin In(v)
                                                   /\ hand[v] # NoMessage => n # hand[v]
<1>1. /\ mode' = [mode EXCEPT ![w] = "up"] /\ hand' = [hand EXCEPT ![w] = NoMessage]
      /\ UNCHANGED <<inbox, cancelled>>
  BY DEF Return
<1>2. \A v \in Worker : /\ hand'[v] = IF v = w THEN NoMessage ELSE hand[v]
                        /\ mode'[v] = IF v = w THEN "up" ELSE mode[v]
                        /\ In(v)' = In(v)
  BY <1>1 DEF Inv, Typed, In
<1>3. Seen!Release(w, "idle")
  <2>1. pc'[w] = "idle" /\ task'[w] = NoMessage
    BY <1>2 DEF pc, task, InHand
  <2> QED
    BY <1>2, <2>1, SeenOfOthers DEF Seen!Release
<1>4. \A n \in network : \A v \in Worker : /\ n \notin In(v)
                                           /\ hand[v] # NoMessage => n # hand[v]
  BY DEF Inv, Alone
<1>5. ASSUME NEW v \in Worker PROVE Sleeping(v)' <=> Sleeping(v)
  BY <1>2 DEF Sleeping, InHand
<1>6. ASSUME NEW v \in Worker, Sleeping(v) PROVE hand'[v] = hand[v] /\ hand[v] # NoMessage
  BY <1>2, <1>6 DEF Sleeping, InHand
<1>7. ASSUME NEW n PROVE OnTheWay(n)' <=> n \in network' \/ (OnTheWay(n) /\ n \notin network)
  BY <1>2, <1>4, <1>5, <1>6 DEF OnTheWay
<1> QED
  BY <1>1, <1>3, <1>4, <1>7

(* A handler that returns no error is done with its task.                     *)
LEMMA SucceedSeen ==
    ASSUME Inv, Inv', NEW w \in Worker, Succeed(w)
    PROVE  SeenReturn(w)
<1>1. mode[w] = "handler" /\ InHand(w) /\ Return(w) /\ network' = network /\ UNCHANGED errors
  BY DEF Succeed, InHand
<1>2. \A n : n \in OnWire' <=> n \in OnWire
  BY <1>1, ReturnSeen, WireFacts DEF OnTheWay
<1>3. OnWireTasks' = OnWireTasks
  BY <1>2 DEF OnWireTasks
<1>4. pc[w] = "handler"
  BY <1>1 DEF pc
<1> QED
  BY <1>1, <1>3, <1>4, ReturnSeen, WireFacts DEF SeenReturn, env

(* A handler that returns an error goes on to retryTask.                      *)
LEMMA FailSeen ==
    ASSUME Inv, Inv', NEW w \in Worker, Fail(w)
    PROVE  SeenReturn(w)
<1>1. /\ mode[w] = "handler" /\ mode' = [mode EXCEPT ![w] = "retry"]
      /\ UNCHANGED <<network, inbox, hand, env>>
  BY DEF Fail
<1>2. \A v \in Worker : mode'[v] = IF v = w THEN "retry" ELSE mode[v]
  BY <1>1 DEF Inv, Typed
<1>3. \A n : OnTheWay(n)' <=> OnTheWay(n)
  BY <1>1, <1>2 DEF OnTheWay, Sleeping, In
<1>4. OnWireTasks' = OnWireTasks
  BY <1>3, WireFacts DEF OnWireTasks
<1>5. task' = task
  BY <1>1, <1>2 DEF task, InHand
<1>6. pc[w] = "handler" /\ pc' = [pc EXCEPT ![w] = "retry"]
  <2>1. pc[w] = "handler" /\ pc'[w] = "retry"
    BY <1>1, <1>2 DEF pc
  <2> QED
    BY <1>1, <1>2, <2>1, SeenOfOthers
<1> QED
  BY <1>1, <1>4, <1>5, <1>6, WireFacts DEF SeenReturn, Seen!Goto

(* retryTask publishes the next attempt, fails to, or drops the task.         *)
LEMMA RetrySeen ==
    ASSUME Inv, Inv', NEW w \in Worker, retryTask(w)
    PROVE  Seen!retryTask(w)
<1> DEFINE m == hand[w]
           t == TaskOf(Again(m))
<1>1. /\ mode[w] = "retry" /\ InHand(w) /\ Return(w)
      /\ m # NoMessage /\ m \in Item /\ m \in Messages /\ m.attempts \in Nat
  BY ItemFacts DEF retryTask, InHand, Inv, Placed
<1>2. /\ pc[w] = "retry" /\ task[w] = TaskOf(m)
      /\ Again(m).attempts = m.attempts + 1 /\ Again(m).doc = m.doc
      /\ t = Seen!NextAttempt(w) /\ t.attempts = m.attempts + 1
  <2>1. pc[w] = "retry" /\ task[w] = TaskOf(m)
    BY <1>1 DEF pc, task
  <2>2. /\ Again(m).attempts = m.attempts + 1 /\ Again(m).doc = m.doc
        /\ Again(m).type = m.type
    BY <1>1 DEF Again, Item
  <2> QED
    BY <2>1, <2>2 DEF TaskOf, Seen!NextAttempt
<1>3. \/ /\ t.attempts < MaxAttempts /\ network' = network \cup {Again(m)} /\ UNCHANGED errors
      \/ t.attempts < MaxAttempts /\ Seen!CallError /\ UNCHANGED network
      \/ ~(t.attempts < MaxAttempts) /\ UNCHANGED <<network, errors>>
  BY <1>1, <1>2 DEF retryTask, CallError, Seen!CallError
<1>4. \A n \in Messages : n.doc = m.doc => n = m
  BY <1>1, OneMessage
<1>5. ~OnTheWay(m)
  BY <1>1, WireFacts DEF OnWire
<1>6. \A n : OnTheWay(n) => n \in Messages
  BY WireFacts
<1> HIDE DEF m, t
<1>7. CASE /\ network' = network
           /\ \/ t.attempts < MaxAttempts /\ Seen!CallError
              \/ ~(t.attempts < MaxAttempts) /\ UNCHANGED errors
  <2>1. OnWireTasks' = OnWireTasks
    BY <1>1, <1>7, ReturnSeen, WireFacts DEF OnTheWay, OnWireTasks
  <2> QED
    BY <1>1, <1>2, <1>7, <2>1, ReturnSeen, WireFacts
    DEF Seen!retryTask, Seen!PublishAgain
<1>8. CASE t.attempts < MaxAttempts /\ network' = network \cup {Again(m)} /\ UNCHANGED errors
  <2>1. OnWireTasks' = OnWireTasks \cup {t}
    <3>1. \A n : n \in OnWire' <=> n \in OnWire \/ n = Again(m)
      BY <1>1, <1>8, ReturnSeen, WireFacts DEF OnTheWay
    <3> QED
      BY <3>1 DEF OnWireTasks, t
  <2>2. t \notin OnWireTasks
    <3>1. t.doc = m.doc
      BY <1>2 DEF t, TaskOf
    <3>2. \A n \in OnWire : n.doc # m.doc
      BY <1>4, <1>5, WireFacts
    <3> QED
      BY <3>1, <3>2 DEF OnWireTasks, TaskOf
  <2>3. wire' = Seen!BagAdd(wire, t)
    BY <2>1, <2>2, WireFacts, BagFacts
  <2> QED
    BY <1>1, <1>2, <1>8, <2>3, ReturnSeen DEF Seen!retryTask, Seen!PublishAgain
<1> QED
  BY <1>3, <1>7, <1>8

(* A task dies with its handler; what is in memory stays to be forgotten.     *)
LEMMA StopSeen ==
    ASSUME Inv, Inv', NEW w \in Worker, Stop(w)
    PROVE  Seen!Stop(w)
<1> DEFINE m == hand[w]
<1>1. /\ "crash" \in Disruptions
      /\ mode[w] # "down" /\ mode' = [mode EXCEPT ![w] = "down"]
      /\ inbox' = [inbox EXCEPT ![w] = IF Sleeping(w) THEN <<m>> \o @ ELSE @]
      /\ hand' = [hand EXCEPT ![w] = NoMessage]
      /\ UNCHANGED <<network, errors, cancelled>>
  BY DEF Stop, env
<1>2. \A v \in Worker : /\ hand'[v] = IF v = w THEN NoMessage ELSE hand[v]
                        /\ mode'[v] = IF v = w THEN "down" ELSE mode[v]
  BY <1>1 DEF Inv, Typed
<1>3. /\ \A v \in Worker \ {w} : In(v)' = In(v)
      /\ Sleeping(w) => In(w)' = In(w) \cup {m}
      /\ ~Sleeping(w) => In(w)' = In(w)
  <2>1. inbox[w] \in Seq(Item) /\ (Sleeping(w) => m \in Item)
    BY ItemFacts DEF Sleeping
  <2> QED
    BY <1>1, <2>1, FrontFacts DEF In, Inv, Typed
<1>4. \A v \in Worker : Sleeping(v)' <=> Sleeping(v) /\ v # w
  BY <1>2 DEF Sleeping
<1>5. \A n : OnTheWay(n)' <=> OnTheWay(n)
  <2>1. ASSUME NEW n PROVE OnTheWay(n)' => OnTheWay(n)
    BY <1>1, <1>2, <1>3, <1>4 DEF OnTheWay
  <2>2. ASSUME NEW n PROVE OnTheWay(n) => OnTheWay(n)'
    BY <1>1, <1>2, <1>3, <1>4 DEF OnTheWay
  <2> QED
    BY <2>1, <2>2
<1>6. OnWireTasks' = OnWireTasks
  BY <1>5, WireFacts DEF OnWireTasks
<1>7. /\ pc[w] # "down" /\ pc'[w] = "down" /\ task'[w] = NoMessage
  BY <1>1, <1>2 DEF pc, task, InHand
<1>8. pc' = [pc EXCEPT ![w] = "down"] /\ task' = [task EXCEPT ![w] = NoMessage]
  BY <1>2, <1>7, SeenOfOthers
<1>9. cancelled' = cancelled \ {w}
  BY <1>1 DEF Inv, Typed
<1>10. [p \in Caller |-> 0] = [[p \in Caller |-> 0] EXCEPT ![w] = 0]
  OBVIOUS
<1> QED
  BY <1>1, <1>6, <1>7, <1>8, <1>9, <1>10, WireFacts DEF Seen!Stop, Seen!Release

(* What a client forgets is lost.                                             *)
LEMMA ForgetSeen ==
    ASSUME Inv, Inv', "loss" \in Disruptions, NEW w \in Worker, Forget(w)
    PROVE  \E t \in Seen!Tasks : Seen!Lose(t)
<1> DEFINE m == Head(inbox[w])
<1>1. /\ inbox[w] # <<>> /\ inbox[w] \in Seq(Item)
      /\ inbox' = [inbox EXCEPT ![w] = Tail(@)]
      /\ UNCHANGED <<network, hand, mode, env>> /\ UNCHANGED <<pc, task>>
  BY ItemFacts DEF Forget, pc, task, InHand
<1>2. /\ m \in Item /\ m = inbox[w][1] /\ Len(inbox[w]) \in Nat \ {0}
      /\ In(w) = {m} \cup In(w)'
      /\ \A v \in Worker \ {w} : In(v)' = In(v)
      /\ inbox'[w] \in Seq(Item) /\ Len(inbox'[w]) = Len(inbox[w]) - 1
      /\ \A i \in 1 .. Len(inbox[w]) - 1 : inbox'[w][i] = inbox[w][i + 1]
  BY <1>1, TailFacts DEF In, Inv, Typed
<1>3. m \notin In(w)'
  <2> SUFFICES ASSUME m \in In(w)' PROVE FALSE
    OBVIOUS
  <2> DEFINE s == inbox'[w]
  <2>1. s \in Seq(Item) /\ m \in ToSet(s)
    BY <1>2 DEF In
  <2> HIDE DEF m, s
  <2>2. PICK i \in 1 .. Len(s) : s[i] = m
    BY <2>1, PlacesFacts
  <2>3. i + 1 \in 1 .. Len(inbox[w]) /\ 1 \in 1 .. Len(inbox[w]) /\ i + 1 # 1
        /\ inbox[w][i + 1] = inbox[w][1]
    BY <1>2, <2>2 DEF s
  <2> QED
    BY <2>3 DEF Inv, Alone
<1> HIDE DEF m
<1>4. m \in OnWire
  BY <1>2, WireFacts DEF OnTheWay
<1>5. /\ m \notin network
      /\ \A v \in Worker \ {w} : m \notin In(v)
      /\ \A v \in Worker : hand[v] # NoMessage => m # hand[v]
  BY <1>2 DEF Inv, Alone
<1>6. ASSUME NEW n PROVE OnTheWay(n)' <=> OnTheWay(n) /\ n # m
  BY <1>1, <1>2, <1>3, <1>5 DEF OnTheWay, Sleeping
<1> QED
  BY <1>1, <1>4, <1>6, WireFacts, SeenLost

(* A worker that starts anew is idle.                                         *)
LEMMA RestartSeen ==
    ASSUME Inv, Inv', NEW w \in Worker, Restart(w)
    PROVE  Seen!Restart(w)
<1>1. /\ mode[w] = "down" /\ mode' = [mode EXCEPT ![w] = "up"] /\ hand[w] = NoMessage
      /\ UNCHANGED <<network, inbox, hand, env>>
  BY DEF Restart, Inv, Placed
<1>2. \A v \in Worker : mode'[v] = IF v = w THEN "up" ELSE mode[v]
  BY <1>1 DEF Inv, Typed
<1>3. \A n : OnTheWay(n)' <=> OnTheWay(n)
  BY <1>1, <1>2 DEF OnTheWay, Sleeping, In
<1>4. OnWireTasks' = OnWireTasks
  BY <1>3, WireFacts DEF OnWireTasks
<1>5. task' = task
  BY <1>1, <1>2 DEF task, InHand
<1>6. pc[w] = "down" /\ pc' = [pc EXCEPT ![w] = "idle"]
  BY <1>1, <1>2 DEF pc
<1> QED
  BY <1>1, <1>4, <1>5, <1>6, WireFacts DEF Seen!Restart, Seen!Goto, env, Seen!env

(* Time is not seen.                                                          *)
LEMMA TickSeen == ASSUME Inv, Inv', Tick PROVE SeenUnchanged
<1>1. /\ network' = {Less(m) : m \in network}
      /\ \A w \in Worker : inbox'[w] = InMemory(inbox[w])
      /\ \A w \in Worker : hand'[w] = Less(hand[w])
      /\ UNCHANGED <<mode, env>>
  BY DEF Tick
<1>2. \A m \in Item : TaskOf(Less(m)) = TaskOf(m) /\ Less(m) # NoMessage
  BY LessFacts DEF TaskOf
<1>3. ASSUME NEW w \in Worker
      PROVE  /\ \A n \in In(w)' : \E m \in In(w) : n = Less(m)
             /\ \A m \in In(w) : Less(m) \in In(w)'
             /\ Sleeping(w)' <=> Sleeping(w)
             /\ InHand(w)' <=> InHand(w)
             /\ InHand(w) => hand[w] # NoMessage /\ hand[w] \in Item
             /\ Sleeping(w) => hand[w] \in Item
  <2>1. inbox[w] \in Seq(Item) /\ hand[w] \in Item \cup {NoMessage}
    BY DEF Inv, Typed
  <2>2. /\ \A n \in In(w)' : \E m \in In(w) : n = Less(m)
        /\ \A m \in In(w) : Less(m) \in In(w)'
    BY <1>1, <2>1, InMemoryFacts DEF In
  <2>3. hand'[w] = NoMessage <=> hand[w] = NoMessage
    BY <1>1, <1>2, <2>1, LessFacts
  <2> QED
    BY <1>1, <2>1, <2>2, <2>3 DEF Sleeping, InHand, Inv, Placed
<1>4. ASSUME NEW n, OnTheWay(n)' PROVE \E m \in OnWire : n = Less(m)
  BY <1>1, <1>3, <1>4, WireFacts DEF OnTheWay
<1>5. ASSUME NEW m \in OnWire PROVE OnTheWay(Less(m))'
  BY <1>1, <1>3, WireFacts DEF OnTheWay
<1>6. OnWireTasks' = OnWireTasks
  <2>1. \A n \in OnWire' : \E m \in OnWire : n = Less(m) /\ TaskOf(n) = TaskOf(m)
    BY <1>2, <1>4, WireFacts
  <2>2. \A m \in OnWire : Less(m) \in OnWire' /\ TaskOf(Less(m)) = TaskOf(m)
    BY <1>2, <1>5, WireFacts
  <2> QED
    BY <2>1, <2>2 DEF OnWireTasks
<1>7. UNCHANGED <<pc, task>>
  BY <1>1, <1>2, <1>3 DEF pc, task
<1> QED
  BY <1>1, <1>6, <1>7, WireFacts DEF SeenUnchanged, Seen!queue

(* At first the wire is empty and all workers are idle.                       *)
LEMMA InitSeen == ASSUME Init, Inv PROVE Seen!QueueInit
<1>1. \A w \in Worker : mode[w] = "up" /\ hand[w] = NoMessage /\ In(w) = {}
  BY DEF Init, In, ToSet
<1>2. \A m : m \notin OnWire
  BY <1>1, OnWireIs DEF Init, WireIsTheWay, OnTheWay, Sleeping
<1>3. wire = Seen!EmptyBag
  BY <1>2 DEF wire, SetToBag, Seen!EmptyBag, Seen!SetToBag
<1>4. pc = [w \in Worker |-> "idle"] /\ task = [w \in Worker |-> NoMessage]
  BY <1>1 DEF pc, task, InHand
<1> QED
  BY <1>3, <1>4 DEF Seen!QueueInit, Caller, Worker, Seen!Caller, Seen!Worker

(* Every step is one of TaskQueue, or is not seen.                            *)
LEMMA StepSeen ==
    ASSUME "loss" \in Disruptions, Inv, Inv', [Next]_vars
    PROVE  [SeenNext]_<<Seen!queue, env>>
<1> DEFINE Lost == \E t \in Seen!Tasks : Seen!Lose(t)
<1> SUFFICES SeenNext \/ SeenUnchanged
  BY DEF SeenUnchanged
<1>1. ASSUME NEW d \in Doc, Publish(d) PROVE SeenNext
  BY <1>1, PublishSeen DEF SeenNext
<1>2. ASSUME NEW m \in network, Route(m) \/ Lose(m) PROVE Lost \/ SeenUnchanged
  BY <1>2, RouteSeen, LoseSeen
<1>3. ASSUME NEW w \in Worker, NextMessage(w) \/ Forget(w) PROVE Lost \/ SeenUnchanged
  BY <1>3, NextMessageSeen, ForgetSeen
<1>4. ASSUME NEW w \in Worker, Handle(w) \/ Succeed(w) \/ Fail(w) \/ retryTask(w)
      PROVE  \/ Seen!Receive(w, Group(w), "handler") \/ SeenReturn(w) \/ Seen!retryTask(w)
  BY <1>4, HandleSeen, SucceedSeen, FailSeen, RetrySeen
<1>5. ASSUME NEW w \in Worker, Stop(w) \/ Restart(w)
      PROVE  Seen!Stop(w) \/ Seen!Restart(w)
  BY <1>5, StopSeen, RestartSeen
<1>6. CASE Tick
  BY <1>6, TickSeen
<1>7. CASE UNCHANGED vars
  <2>1. UNCHANGED <<network, inbox, hand, mode, env>>
    BY <1>7 DEF vars, client
  <2>2. UNCHANGED <<pc, task>> /\ Messages' = Messages
    BY <2>1 DEF pc, task, InHand, Messages
  <2>3. OnWire' = OnWire
    BY <2>1, <2>2 DEF OnWire, InHand
  <2> QED
    BY <2>1, <2>2, <2>3, SeenStutter
<1>8. Lost => SeenNext
  BY DEF SeenNext
<1> HIDE DEF Lost
<1> QED
  BY <1>1, <1>2, <1>3, <1>4, <1>5, <1>6, <1>7, <1>8 DEF Next, Step, SeenNext

(* The queue over NATS is a TaskQueue to those who use it, where messages may *)
(* be lost: nobody may be there to take one, whatever the connections do.     *)
THEOREM ImplementsTaskQueueHolds ==
    ASSUME "loss" \in Disruptions PROVE Spec => ImplementsTaskQueue
<1>1. Init => Inv /\ Seen!QueueInit
  BY InitInv, InitSeen
<1>2. Inv /\ Inv' /\ [Next]_vars => [SeenNext]_<<Seen!queue, env>>
  BY StepSeen
<1> QED
  BY <1>1, <1>2, InvHolds, PTL DEF Spec, ImplementsTaskQueue
================================================================================
