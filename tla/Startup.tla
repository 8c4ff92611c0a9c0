-------------------------------- MODULE Startup --------------------------------
(******************************************************************************)
(* internal/app with NewPostgres: how the services start, all at the same     *)
(* time, on a database that may be empty.  Each of them tries to migrate it   *)
(* before it connects to anything else; an advisory lock of Postgres lets one *)
(* of them do it, and those that do not get the lock wait two seconds and go  *)
(* on.  A failure ends the process, except one of the cache.                  *)
(******************************************************************************)
EXTENDS Naturals, Sequences

CONSTANTS
    Gateway, Parser, Analysis, Query,    \* the replicas of each service
    Nobody,                              \* no session holds the lock
    Failing                              \* what may fail: a subset of FailureKinds

Service == Gateway \cup Parser \cup Analysis \cup Query

\* "session": the connection that holds the lock breaks between two statements,
\* and database/sql goes on with another one; "crash": a process dies.
FailureKinds == {"config", "database", "queue", "cache", "session", "crash"}

ASSUME StartupAssumption == Nobody \notin Service /\ Failing \subseteq FailureKinds

VARIABLES
    stage,      \* stage[s]: what the process of service s does next
    step,       \* step[s]: the next statement of migrate, or the next dependency
    lock,       \* the service whose session holds the advisory lock
    schema,     \* the statements of migrate that were executed
    skipped,    \* services that went on without migrating
    broken,     \* services that lost the session of the lock in their migration
    aborted     \* services whose migration ended while the schema was incomplete

vars == <<stage, step, lock, schema, skipped, broken, aborted>>

\* What a service connects to once it has its store.
BuildGateway == <<"queue">>
BuildParser == <<"queue">>
BuildAnalysis == <<"queue", "llm", "embedder">>
BuildQuery == <<"llm", "embedder", "cache">>

Needs(s) ==
    CASE s \in Gateway -> BuildGateway
      [] s \in Parser -> BuildParser
      [] s \in Analysis -> BuildAnalysis
      [] OTHER -> BuildQuery

\* The extension, four tables and the index.
Statements == 1 .. 6
Complete == schema = Statements

Migrating(s) == stage[s] \in {"execute", "unlock"}

Init ==
    /\ stage = [s \in Service |-> "configure"]
    /\ step = [s \in Service |-> 1]
    /\ lock = Nobody
    /\ schema = {}
    /\ skipped = {} /\ broken = {} /\ aborted = {}

--------------------------------------------------------------------------------
Enter(s, label) ==
    stage' = [stage EXCEPT ![s] = label] /\ step' = [step EXCEPT ![s] = 1]

\* The process ends, and its sessions with it; migrate is cut off or returns an
\* error, and its deferred unlock does no more than the end of the session.
End(s) ==
    /\ Enter(s, "ended")
    /\ lock' = IF lock = s THEN Nobody ELSE lock
    /\ aborted' = IF Migrating(s) /\ ~Complete THEN aborted \cup {s} ELSE aborted
    /\ UNCHANGED <<skipped, broken>>

\* config.Load takes what it finds; what is missing is noticed by its user.
Configure(s) ==
    /\ stage[s] = "configure"
    /\ \/ Enter(s, "lock") /\ UNCHANGED <<lock, aborted, skipped, broken>>
       \/ "config" \in Failing /\ End(s)
    /\ UNCHANGED schema

\* A variant: an answer that is not looked at.
TryLockUnasked(s) ==
    /\ stage[s] = "lock"
    /\ lock' = s
    /\ Enter(s, "execute")
    /\ UNCHANGED <<schema, skipped, broken, aborted>>

\* pg_try_advisory_lock answers at once.
TryLock(s) ==
    /\ stage[s] = "lock"
    /\ \/ lock = Nobody /\ lock' = s /\ Enter(s, "execute")
            /\ UNCHANGED <<skipped, broken, aborted>>
       \/ lock # Nobody /\ Enter(s, "wait") /\ skipped' = skipped \cup {s}
            /\ UNCHANGED <<lock, broken, aborted>>
       \/ "database" \in Failing /\ End(s)
    /\ UNCHANGED schema

Wait(s) ==
    /\ stage[s] = "wait"
    /\ Enter(s, "connect")
    /\ UNCHANGED <<lock, schema, skipped, broken, aborted>>

\* A variant: a loop that goes one too far.
NextStatementTooFar(s) ==
    IF step[s] \in Statements
      THEN step' = [step EXCEPT ![s] = @ + 1] /\ UNCHANGED stage
      ELSE Enter(s, "unlock")

NextStatement(s) ==
    IF step[s] + 1 \in Statements
      THEN step' = [step EXCEPT ![s] = @ + 1] /\ UNCHANGED stage
      ELSE Enter(s, "unlock")

\* A variant: an error that only ends the loop.
ExecuteToFirstError(s) ==
    /\ stage[s] = "execute"
    /\ \/ schema' = schema \cup {step[s]} /\ NextStatement(s)
       \/ "database" \in Failing /\ Enter(s, "unlock") /\ UNCHANGED schema
    /\ UNCHANGED <<lock, skipped, broken, aborted>>

\* Every statement commits by itself, and may be executed although it returns
\* an error.
Execute(s) ==
    /\ stage[s] = "execute"
    /\ \/ /\ schema' = schema \cup {step[s]} /\ NextStatement(s)
          /\ UNCHANGED <<lock, skipped, broken, aborted>>
       \/ "database" \in Failing /\ End(s) /\ schema' = schema \cup {step[s]}
       \/ "database" \in Failing /\ End(s) /\ UNCHANGED schema

\* A variant: the lock stays with the pooled connection.
UnlockNot(s) ==
    /\ stage[s] = "unlock"
    /\ Enter(s, "connect")
    /\ UNCHANGED <<lock, schema, skipped, broken, aborted>>

Unlock(s) ==
    /\ stage[s] = "unlock"
    /\ lock' = IF lock = s THEN Nobody ELSE lock
    /\ Enter(s, "connect")
    /\ UNCHANGED <<schema, skipped, broken, aborted>>

\* What the constructors fail for; those of OpenAI connect to nobody.
QueueError == "queue" \in Failing \/ "config" \in Failing
LLMError == "config" \in Failing
EmbedderError == "config" \in Failing
CacheError == "cache" \in Failing \/ "config" \in Failing

Fails(dependency) ==
    CASE dependency = "queue" -> QueueError
      [] dependency = "llm" -> LLMError
      [] dependency = "embedder" -> EmbedderError
      [] dependency = "cache" -> CacheError

GoOn(s) ==
    /\ IF step[s] = Len(Needs(s))
         THEN Enter(s, "serving")
         ELSE step' = [step EXCEPT ![s] = @ + 1] /\ UNCHANGED stage
    /\ UNCHANGED <<lock, skipped, broken, aborted>>

\* A variant: a cache that is waited for, which may be for ever.
ConnectPatiently(s) ==
    /\ stage[s] = "connect"
    /\ \/ GoOn(s) /\ (Needs(s)[step[s]] = "cache" => ~CacheError)
       \/ Fails(Needs(s)[step[s]]) /\ Needs(s)[step[s]] # "cache" /\ End(s)
    /\ UNCHANGED schema

\* Without a cache the service goes on with one that does nothing.
Connect(s) ==
    /\ stage[s] = "connect"
    /\ \/ GoOn(s)
       \/ Fails(Needs(s)[step[s]]) /\ Needs(s)[step[s]] # "cache" /\ End(s)
    /\ UNCHANGED schema

Start(s) ==
    Configure(s) \/ TryLock(s) \/ Wait(s) \/ Execute(s) \/ Unlock(s) \/ Connect(s)

--------------------------------------------------------------------------------
\* Postgres frees the lock of a session that has ended; migrate does not notice.
LoseSession(s) ==
    /\ "session" \in Failing
    /\ Migrating(s) /\ lock = s
    /\ lock' = Nobody /\ broken' = broken \cup {s}
    /\ UNCHANGED <<stage, step, schema, skipped, aborted>>

Crash(s) ==
    /\ "crash" \in Failing
    /\ stage[s] # "ended"
    /\ End(s)
    /\ UNCHANGED schema

\* docker-compose restarts nobody by itself; whoever does starts from nothing.
Restart(s) ==
    /\ stage[s] = "ended"
    /\ Enter(s, "configure")
    /\ skipped' = skipped \ {s} /\ broken' = broken \ {s}
    /\ UNCHANGED <<lock, schema, aborted>>

Next == \E s \in Service : Start(s) \/ LoseSession(s) \/ Crash(s) \/ Restart(s)

Spec == Init /\ [][Next]_vars

\* Statements and connection attempts return; two seconds pass.
FairSpec == Spec /\ \A s \in Service : WF_vars(Start(s))

--------------------------------------------------------------------------------
Stage ==
    {"configure", "lock", "wait", "execute", "unlock", "connect", "serving", "ended"}

TypeOK ==
    /\ stage \in [Service -> Stage]
    /\ step \in [Service -> Statements]
    /\ lock \in Service \cup {Nobody}
    /\ schema \subseteq Statements
    /\ skipped \subseteq Service /\ broken \subseteq Service /\ aborted \subseteq Service

(******************************************************************************)
(* Two services migrate at the same time only after one of them has lost the  *)
(* session that held the lock.  (migrate asks for it "to prevent concurrent   *)
(* migrations", but holds it in a connection of a pool.)                      *)
(******************************************************************************)
OneMigrates ==
    \A s, t \in Service :
        Migrating(s) /\ Migrating(t) /\ s # t => s \in broken \/ t \in broken

(******************************************************************************)
(* A service that did its migration, and then serves, has the whole schema;   *)
(* one that went on without it may miss a table, but only while somebody      *)
(* still migrates or after a migration has failed.                            *)
(******************************************************************************)
SchemaIsThere ==
    \A s \in Service : stage[s] \in {"connect", "serving"} /\ ~Complete =>
        s \in skipped /\ \E t \in Service : Migrating(t) \/ t \in aborted

(******************************************************************************)
(* Whoever gets the lock gives it back, so that a service that starts later   *)
(* can complete the schema.                                                   *)
(******************************************************************************)
LockIsReturned == \A s \in Service : lock = s ~> lock # s

(******************************************************************************)
(* Every start comes to an end, the query service's without Redis too.        *)
(******************************************************************************)
EveryStartEnds ==
    \A s \in Service : stage[s] = "configure" ~> stage[s] \in {"serving", "ended"}
================================================================================
