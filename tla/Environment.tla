------------------------------ MODULE Environment ------------------------------
(******************************************************************************)
(* What the four services of doc-agents share: who calls whom, the contexts   *)
(* (Go's context.Context) that a call runs under, and the failures a call may *)
(* meet.                                                                      *)
(*                                                                            *)
(* A caller is an upload request of the gateway, named by the document it     *)
(* creates, or one replica of a worker service.  A call made under a          *)
(* cancelled context is refused; any other call may fail: MaxErrors times in  *)
(* a behaviour, or any number of times when an outage is among the            *)
(* disruptions.  The variable errors counts them, up to MaxErrors.            *)
(******************************************************************************)
EXTENDS Naturals

CONSTANTS
    Doc,              \* documents, one per upload request
    ParserWorker,     \* replicas of cmd/parser
    AnalysisWorker,   \* replicas of cmd/analysis
    MaxErrors,        \* how many calls may fail, or are told apart in an outage
    Disruptions       \* what else may happen: a subset of DisruptionKinds

Worker == ParserWorker \cup AnalysisWorker
Caller == Doc \cup Worker

(******************************************************************************)
(* "crash"  a process dies, or is restarted, at any point of its code;        *)
(* "loss"   a published message reaches nobody (core NATS keeps no copy);     *)
(* "cancel" a context is cancelled while its handler still runs;              *)
(* "cut"    the connection breaks while the rows of an answer are read;       *)
(* "outage" calls fail as long as it lasts, which may be for ever.            *)
(******************************************************************************)
DisruptionKinds == {"crash", "loss", "cancel", "cut", "outage"}

ASSUME EnvironmentAssumption ==
    /\ ParserWorker \cap AnalysisWorker = {}
    /\ Doc \cap Worker = {}
    /\ MaxErrors \in Nat
    /\ Disruptions \subseteq DisruptionKinds

VARIABLES
    errors,       \* calls that have failed, up to MaxErrors
    cancelled     \* callers whose context is cancelled

env == <<errors, cancelled>>

EnvInit == errors = 0 /\ cancelled = {}

\* A call returns an error for a reason of its own: network, server, timeout.
CallError ==
    \/ errors < MaxErrors /\ errors' = errors + 1
    \/ errors = MaxErrors /\ "outage" \in Disruptions /\ UNCHANGED errors

\* The context of p's handler is cancelled while the handler runs.
Cancel(p) ==
    /\ "cancel" \in Disruptions
    /\ p \notin cancelled
    /\ cancelled' = cancelled \cup {p}
    /\ UNCHANGED errors
================================================================================
