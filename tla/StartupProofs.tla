----------------------------- MODULE StartupProofs -----------------------------
(******************************************************************************)
(* However many services start together, and whatever fails: only one at a    *)
(* time migrates the database with the lock in its session, and who serves    *)
(* without having migrated can miss a table only while somebody migrates or   *)
(* after a migration has failed.  The invariant says who holds the lock, how  *)
(* far each migration is, and what excuses those that went on without one.    *)
(******************************************************************************)
EXTENDS Startup, TLAPS

USE StartupAssumption

LEMMA NeedsFacts ==
    \A s \in Service : Len(Needs(s)) \in 1 .. 3
BY DEF Needs, BuildGateway, BuildParser, BuildAnalysis, BuildQuery

HolderMigrates == \A s \in Service : lock = s => Migrating(s)
MigratingHolds == \A s \in Service : Migrating(s) => lock = s \/ s \in broken
OnWay == \A s \in Service : stage[s] = "connect" => step[s] \in 1 .. Len(Needs(s))
Executed ==
    \A s \in Service :
        /\ stage[s] = "execute" => 1 .. step[s] - 1 \subseteq schema
        /\ stage[s] = "unlock" => Complete
WaitedIsSkipped == \A s \in Service : stage[s] = "wait" => s \in skipped
Migrated ==
    \A s \in Service : stage[s] \in {"connect", "serving"} => s \in skipped \/ Complete
Excused ==
    \A s \in skipped : Complete \/ \E t \in Service : Migrating(t) \/ t \in aborted

Inv ==
    /\ TypeOK
    /\ HolderMigrates /\ MigratingHolds
    /\ OnWay /\ Executed
    /\ WaitedIsSkipped /\ Migrated /\ Excused

(* The invariant holds when nobody has started. *)
LEMMA InitInv == Init => Inv
BY DEF Init, Inv, TypeOK, Stage, Statements, HolderMigrates, MigratingHolds, OnWay,
       Executed, WaitedIsSkipped, Migrated, Excused, Migrating

(* A process that ends takes its lock along, and says so if it left the schema *)
(* incomplete; statements it executed stay.                                     *)
LEMMA EndInv ==
    ASSUME Inv, NEW s \in Service, End(s), schema \subseteq schema', schema' \subseteq Statements
    PROVE  Inv'
<1> USE DEF Inv
<1>1. TypeOK'
  BY DEF TypeOK, End, Enter, Stage, Statements
<1>2. /\ stage'[s] = "ended"
      /\ \A t \in Service \ {s} : stage'[t] = stage[t] /\ step'[t] = step[t]
      /\ ~Migrating(s)' /\ \A t \in Service \ {s} : Migrating(t)' <=> Migrating(t)
      /\ skipped' = skipped /\ broken' = broken
  BY DEF TypeOK, End, Enter, Migrating
<1>3. Complete => Complete'
  BY DEF Complete
<1>4. HolderMigrates' /\ MigratingHolds'
  BY <1>2 DEF HolderMigrates, MigratingHolds, End
<1>5. OnWay' /\ WaitedIsSkipped' /\ Migrated'
  BY <1>2, <1>3 DEF OnWay, WaitedIsSkipped, Migrated, Needs
<1>6. Executed'
  BY <1>2, <1>3 DEF Executed
<1>7. Excused'
  <2> SUFFICES ASSUME NEW u \in skipped, ~Complete'
               PROVE  \E t \in Service : Migrating(t)' \/ t \in aborted'
    BY <1>2 DEF Excused
  <2>1. PICK t \in Service : Migrating(t) \/ t \in aborted
    BY <1>3 DEF Excused
  <2>2. t \in aborted => t \in aborted'
    BY DEF End
  <2>3. Migrating(t) /\ t # s => Migrating(t)'
    BY <1>2
  <2>4. Migrating(t) /\ t = s => t \in aborted'
    BY <1>3 DEF End
  <2> QED
    BY <2>1, <2>2, <2>3, <2>4
<1> QED
  BY <1>1, <1>4, <1>5, <1>6, <1>7

(* Steps that only change the stage of their service, to one outside the       *)
(* migration and from one outside of it.                                        *)
LEMMA OutsideInv ==
    ASSUME Inv, NEW s \in Service, ~Migrating(s), ~Migrating(s)', TypeOK',
           \A t \in Service \ {s} : stage'[t] = stage[t] /\ step'[t] = step[t],
           UNCHANGED <<lock, schema, broken, aborted>>
    PROVE  HolderMigrates' /\ MigratingHolds' /\ Executed'
<1>1. \A t \in Service : Migrating(t)' <=> Migrating(t)
  BY DEF Migrating
<1>2. HolderMigrates' /\ MigratingHolds'
  BY <1>1 DEF Inv, HolderMigrates, MigratingHolds
<1>3. Executed'
  BY DEF Inv, Executed, Complete, Migrating
<1> QED
  BY <1>2, <1>3

LEMMA ConfigureInv ==
    ASSUME Inv, NEW s \in Service, Configure(s)
    PROVE  Inv'
<1>1. CASE End(s)
  BY <1>1, EndInv DEF Configure, Inv, TypeOK
<1>2. CASE Enter(s, "lock") /\ UNCHANGED <<lock, aborted, skipped, broken>>
  <2>1. TypeOK'
    BY <1>2 DEF Configure, Enter, Inv, TypeOK, Stage, Statements
  <2>2. /\ stage[s] = "configure" /\ stage'[s] = "lock"
        /\ \A t \in Service \ {s} : stage'[t] = stage[t] /\ step'[t] = step[t]
        /\ UNCHANGED <<lock, schema, skipped, broken, aborted>>
    BY <1>2 DEF Configure, Enter, Inv, TypeOK
  <2>3. HolderMigrates' /\ MigratingHolds' /\ Executed'
    BY <2>1, <2>2, OutsideInv DEF Migrating
  <2>4. OnWay' /\ WaitedIsSkipped' /\ Migrated' /\ Excused'
    BY <2>2 DEF Inv, OnWay, Needs, WaitedIsSkipped, Migrated, Excused, Complete, Migrating
  <2> QED
    BY <2>1, <2>3, <2>4 DEF Inv
<1> QED
  BY <1>1, <1>2 DEF Configure

(* The lock goes to one service; whoever is refused knows that its holder      *)
(* migrates.                                                                   *)
LEMMA TryLockInv ==
    ASSUME Inv, NEW s \in Service, TryLock(s)
    PROVE  Inv'
<1> USE DEF Inv
<1>1. CASE End(s)
  BY <1>1, EndInv DEF TryLock, TypeOK
<1>2. CASE lock = Nobody /\ lock' = s /\ Enter(s, "execute") /\ UNCHANGED <<skipped, broken, aborted>>
  <2>1. TypeOK'
    BY <1>2 DEF TryLock, Enter, TypeOK, Stage, Statements
  <2>2. /\ stage[s] = "lock" /\ stage'[s] = "execute" /\ step'[s] = 1
        /\ \A t \in Service \ {s} : stage'[t] = stage[t] /\ step'[t] = step[t]
        /\ UNCHANGED schema
    BY <1>2 DEF TryLock, Enter, TypeOK
  <2>3. HolderMigrates' /\ MigratingHolds'
    BY <1>2, <2>2 DEF HolderMigrates, MigratingHolds, Migrating
  <2>4. OnWay' /\ Executed' /\ WaitedIsSkipped' /\ Migrated'
    BY <1>2, <2>2 DEF OnWay, Needs, Executed, WaitedIsSkipped, Migrated, Complete
  <2>5. Excused'
    BY <1>2, <2>2 DEF Excused, Complete, Migrating
  <2> QED
    BY <2>1, <2>3, <2>4, <2>5
<1>3. CASE lock # Nobody /\ Enter(s, "wait") /\ skipped' = skipped \cup {s}
             /\ UNCHANGED <<lock, broken, aborted>>
  <2>1. TypeOK'
    BY <1>3 DEF TryLock, Enter, TypeOK, Stage, Statements
  <2>2. /\ stage[s] = "lock" /\ stage'[s] = "wait"
        /\ \A t \in Service \ {s} : stage'[t] = stage[t] /\ step'[t] = step[t]
        /\ UNCHANGED <<lock, schema, broken, aborted>>
    BY <1>3 DEF TryLock, Enter, TypeOK
  <2>3. HolderMigrates' /\ MigratingHolds' /\ Executed'
    BY <2>1, <2>2, OutsideInv DEF Migrating
  <2>4. OnWay' /\ WaitedIsSkipped' /\ Migrated'
    BY <1>3, <2>2 DEF OnWay, Needs, WaitedIsSkipped, Migrated, Complete
  <2>5. PICK t \in Service : lock = t /\ Migrating(t)
    BY <1>3 DEF TypeOK, HolderMigrates
  <2>6. Excused'
    BY <1>3, <2>2, <2>5 DEF Excused, Migrating
  <2> QED
    BY <2>1, <2>3, <2>4, <2>6
<1> QED
  BY <1>1, <1>2, <1>3 DEF TryLock

LEMMA WaitInv ==
    ASSUME Inv, NEW s \in Service, Wait(s)
    PROVE  Inv'
<1>1. TypeOK'
  BY DEF Wait, Enter, Inv, TypeOK, Stage, Statements
<1>2. /\ stage[s] = "wait" /\ stage'[s] = "connect" /\ step'[s] = 1
      /\ \A t \in Service \ {s} : stage'[t] = stage[t] /\ step'[t] = step[t]
      /\ UNCHANGED <<lock, schema, skipped, broken, aborted>>
  BY DEF Wait, Enter, Inv, TypeOK
<1>3. HolderMigrates' /\ MigratingHolds' /\ Executed'
  BY <1>1, <1>2, OutsideInv DEF Migrating
<1>4. OnWay'
  BY <1>2, NeedsFacts DEF Inv, OnWay, Needs
<1>5. WaitedIsSkipped' /\ Migrated' /\ Excused'
  BY <1>2 DEF Inv, WaitedIsSkipped, Migrated, Excused, Complete, Migrating
<1> QED
  BY <1>1, <1>3, <1>4, <1>5 DEF Inv

(* A statement is added to those before it; after the last the schema is       *)
(* complete.                                                                   *)
LEMMA ExecuteInv ==
    ASSUME Inv, NEW s \in Service, Execute(s)
    PROVE  Inv'
<1> USE DEF Inv
<1>1. /\ stage[s] = "execute" /\ step[s] \in 1 .. 6 /\ schema \subseteq 1 .. 6
      /\ schema' = schema \cup {step[s]} \/ schema' = schema
  BY DEF Execute, TypeOK, Statements
<1>2. CASE End(s)
  BY <1>1, <1>2, EndInv DEF Statements
<1>3. CASE /\ schema' = schema \cup {step[s]} /\ NextStatement(s)
           /\ UNCHANGED <<lock, skipped, broken, aborted>>
  <2>1. TypeOK'
    <3>1. CASE step[s] + 1 \in 1 .. 6
      BY <1>1, <1>3, <3>1 DEF NextStatement, TypeOK, Stage, Statements
    <3>2. CASE step[s] + 1 \notin 1 .. 6
      <4>1. Enter(s, "unlock")
        BY <1>3, <3>2 DEF NextStatement, Statements
      <4>2. stage' \in [Service -> Stage] /\ step' \in [Service -> Statements]
        BY <4>1 DEF Enter, TypeOK, Stage, Statements
      <4>3. schema' \subseteq Statements
        BY <1>1 DEF Statements
      <4> QED
        BY <1>3, <4>2, <4>3 DEF TypeOK
    <3> QED
      BY <3>1, <3>2
  <2>2. /\ stage'[s] \in {"execute", "unlock"}
        /\ stage'[s] = "execute" => step'[s] = step[s] + 1
        /\ stage'[s] = "unlock" => step[s] = 6
        /\ \A t \in Service \ {s} : stage'[t] = stage[t] /\ step'[t] = step[t]
    BY <1>1, <1>3 DEF NextStatement, Enter, TypeOK, Statements
  <2>3. \A t \in Service : Migrating(t)' <=> Migrating(t)
    BY <1>1, <2>2 DEF Migrating
  <2>4. HolderMigrates' /\ MigratingHolds'
    BY <1>3, <2>3 DEF HolderMigrates, MigratingHolds
  <2>5. Complete => Complete'
    BY <1>1, <1>3 DEF Complete, Statements
  <2>6. /\ stage'[s] = "execute" => 1 .. step'[s] - 1 \subseteq schema'
        /\ stage'[s] = "unlock" => Complete'
    <3>1. \A k \in 1 .. step[s] : k \in schema'
      <4>1. 1 .. step[s] - 1 \subseteq schema
        BY <1>1 DEF Executed
      <4> QED
        BY <1>1, <1>3, <4>1
    <3>2. stage'[s] = "execute" => 1 .. step'[s] - 1 \subseteq schema'
      BY <1>1, <2>2, <3>1
    <3>3. stage'[s] = "unlock" => Complete'
      BY <1>1, <1>3, <2>2, <3>1 DEF Complete, Statements
    <3> QED
      BY <3>2, <3>3
  <2>7. Executed'
    BY <1>3, <2>2, <2>5, <2>6 DEF Executed
  <2>8. OnWay' /\ WaitedIsSkipped' /\ Migrated'
    BY <1>3, <2>2, <2>5 DEF OnWay, Needs, WaitedIsSkipped, Migrated
  <2>9. Excused'
    BY <1>3, <2>3, <2>5 DEF Excused
  <2> QED
    BY <2>1, <2>4, <2>7, <2>8, <2>9
<1> QED
  BY <1>2, <1>3 DEF Execute

(* Who gives the lock back leaves a complete schema.                           *)
LEMMA UnlockInv ==
    ASSUME Inv, NEW s \in Service, Unlock(s)
    PROVE  Inv'
<1> USE DEF Inv
<1>1. TypeOK'
  BY DEF Unlock, Enter, TypeOK, Stage, Statements
<1>2. /\ stage[s] = "unlock" /\ stage'[s] = "connect" /\ step'[s] = 1
      /\ \A t \in Service \ {s} : stage'[t] = stage[t] /\ step'[t] = step[t]
      /\ UNCHANGED <<schema, skipped, broken, aborted>>
  BY DEF Unlock, Enter, TypeOK
<1>3. Complete /\ Complete'
  BY <1>2 DEF Executed, Complete
<1>4. HolderMigrates' /\ MigratingHolds'
  BY <1>2 DEF Unlock, HolderMigrates, MigratingHolds, Migrating
<1>5. OnWay'
  <2>1. 1 \in 1 .. Len(Needs(s))
    BY NeedsFacts
  <2> QED
    BY <1>2, <2>1 DEF OnWay, Needs
<1>6. Executed' /\ WaitedIsSkipped' /\ Migrated' /\ Excused'
  BY <1>2, <1>3 DEF Executed, WaitedIsSkipped, Migrated, Excused
<1> QED
  BY <1>1, <1>4, <1>5, <1>6

LEMMA ConnectInv ==
    ASSUME Inv, NEW s \in Service, Connect(s)
    PROVE  Inv'
<1> USE DEF Inv
<1>1. CASE End(s)
  BY <1>1, EndInv DEF Connect, TypeOK
<1>2. CASE GoOn(s)
  <2>1. step[s] \in 1 .. Len(Needs(s)) /\ Len(Needs(s)) \in 1 .. 3
    BY NeedsFacts DEF Connect, OnWay
  <2>2. /\ stage[s] = "connect" /\ stage'[s] \in {"connect", "serving"}
        /\ stage'[s] = "connect" => step'[s] \in 1 .. Len(Needs(s))
        /\ step'[s] \in 1 .. 6
        /\ \A t \in Service \ {s} : stage'[t] = stage[t] /\ step'[t] = step[t]
        /\ UNCHANGED <<lock, schema, skipped, broken, aborted>>
    <3> DEFINE n == Len(Needs(s))
    <3>1. step[s] \in 1 .. n /\ n \in 1 .. 3
      BY <2>1
    <3> HIDE DEF n
    <3>2. CASE step[s] = n
      BY <1>2, <3>1, <3>2 DEF Connect, GoOn, Enter, TypeOK, n
    <3>3. CASE step[s] # n
      <4>1. step[s] + 1 \in 1 .. n /\ step[s] + 1 \in 1 .. 6
        BY <3>1, <3>3
      <4> QED
        BY <1>2, <3>3, <4>1 DEF Connect, GoOn, TypeOK, n
    <3> QED
      BY <3>2, <3>3
  <2>3. TypeOK'
    BY <1>2, <2>2 DEF GoOn, Enter, TypeOK, Stage, Statements
  <2>4. HolderMigrates' /\ MigratingHolds' /\ Executed'
    BY <2>2, <2>3, OutsideInv DEF Migrating
  <2>5. OnWay'
    BY <2>2 DEF OnWay, Needs
  <2>6. WaitedIsSkipped' /\ Migrated' /\ Excused'
    BY <2>2 DEF WaitedIsSkipped, Migrated, Excused, Complete, Migrating
  <2> QED
    BY <2>3, <2>4, <2>5, <2>6
<1> QED
  BY <1>1, <1>2 DEF Connect

LEMMA LoseSessionInv ==
    ASSUME Inv, NEW s \in Service, LoseSession(s)
    PROVE  Inv'
BY DEF LoseSession, Inv, TypeOK, HolderMigrates, MigratingHolds, OnWay, Executed,
       WaitedIsSkipped, Migrated, Excused, Complete, Migrating, Needs

LEMMA CrashInv ==
    ASSUME Inv, NEW s \in Service, Crash(s)
    PROVE  Inv'
BY EndInv DEF Crash, Inv, TypeOK

LEMMA RestartInv ==
    ASSUME Inv, NEW s \in Service, Restart(s)
    PROVE  Inv'
<1>1. TypeOK'
  BY DEF Restart, Enter, Inv, TypeOK, Stage, Statements
<1>2. /\ stage[s] = "ended" /\ stage'[s] = "configure"
      /\ \A t \in Service \ {s} : stage'[t] = stage[t] /\ step'[t] = step[t]
      /\ UNCHANGED <<lock, schema, aborted>>
      /\ skipped' = skipped \ {s} /\ broken' = broken \ {s}
  BY DEF Restart, Enter, Inv, TypeOK
<1>3. \A t \in Service : Migrating(t)' <=> Migrating(t)
  BY <1>2 DEF Migrating
<1>4. HolderMigrates' /\ MigratingHolds'
  BY <1>2, <1>3 DEF Inv, HolderMigrates, MigratingHolds, Migrating
<1>5. OnWay' /\ Executed' /\ WaitedIsSkipped' /\ Migrated' /\ Excused'
  BY <1>2, <1>3 DEF Inv, OnWay, Needs, Executed, WaitedIsSkipped, Migrated, Excused, Complete
<1> QED
  BY <1>1, <1>4, <1>5 DEF Inv

(* Every step preserves the invariant. *)
LEMMA NextInv == Inv /\ [Next]_vars => Inv'
<1> SUFFICES ASSUME Inv, [Next]_vars PROVE Inv'
  OBVIOUS
<1>1. CASE UNCHANGED vars
  BY <1>1 DEF vars, Inv, TypeOK, HolderMigrates, MigratingHolds, OnWay, Executed,
              WaitedIsSkipped, Migrated, Excused, Complete, Migrating, Needs
<1>2. ASSUME NEW s \in Service, Start(s) \/ LoseSession(s) \/ Crash(s) \/ Restart(s)
      PROVE  Inv'
  BY <1>2, ConfigureInv, TryLockInv, WaitInv, ExecuteInv, UnlockInv, ConnectInv,
     LoseSessionInv, CrashInv, RestartInv DEF Start
<1> QED
  BY <1>1, <1>2 DEF Next

(* The invariant holds throughout.                                            *)
LEMMA InvHolds == Spec => []Inv
BY InitInv, NextInv, PTL DEF Spec

(* The services and the database keep their types, for any number of services. *)
THEOREM TypeOKHolds == Spec => []TypeOK
<1>1. Inv => TypeOK
  BY DEF Inv
<1> QED
  BY <1>1, InvHolds, PTL

(* Two services migrate at the same time only after one has lost its session:  *)
(* the lock of pg_try_advisory_lock keeps all others out.                       *)
THEOREM OneMigratesHolds == Spec => []OneMigrates
<1>1. Inv => OneMigrates
  BY DEF Inv, MigratingHolds, OneMigrates
<1> QED
  BY <1>1, InvHolds, PTL

(* Who migrated finds the whole schema; who went on without the lock may miss  *)
(* a table only while somebody migrates or after a migration has failed.        *)
THEOREM SchemaIsThereHolds == Spec => []SchemaIsThere
<1>1. Inv => SchemaIsThere
  BY DEF Inv, Migrated, Excused, SchemaIsThere
<1> QED
  BY <1>1, InvHolds, PTL
================================================================================
