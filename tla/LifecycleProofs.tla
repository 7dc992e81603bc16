-------------------------- MODULE LifecycleProofs --------------------------
(***************************************************************************)
(* LifecycleInv is inductive.  One lemma for each group of actions that    *)
(* touch the same state: the ends of a process, the opening of the store,  *)
(* the three steps of a migration, the handlers, and the stop.  What makes *)
(* MigratedOnce hold is TransactionSound: a transaction writes alone, its  *)
(* migration was not in effect when it began, and so is not in effect when *)
(* it commits.                                                             *)
(***************************************************************************)
EXTENDS Lifecycle, TLAPS

LEMMA LifecycleStart == LifecycleInit => LifecycleInv
BY LifecycleBounds
   DEF LifecycleInit, LifecycleInv, LifecycleTypeOK, MigratedOnce, MigratedInOrder, ServesMigrated,
       TransactionSound, LostOnlyByTimeout, HandlersSound, Phase, Migration, MigrationOrNone, Writing

\* Whatever ends a process leaves the database as it was committed.
LEMMA GoneKeeps ==
    ASSUME LifecycleInv, NEW p \in Process, Gone(p)
    PROVE  LifecycleInv'
<1> USE DEF LifecycleInv, LifecycleTypeOK, Gone, GoTo
<1>1. LifecycleTypeOK'
    BY LifecycleBounds DEF database, Phase, Migration, MigrationOrNone
<1>2. MigratedOnce' /\ MigratedInOrder'
    BY DEF MigratedOnce, MigratedInOrder, database
<1>3. ServesMigrated'
    BY DEF ServesMigrated, database
<1>4. TransactionSound'
    BY DEF TransactionSound, Writing, database
<1>5. LostOnlyByTimeout' /\ HandlersSound'
    BY DEF LostOnlyByTimeout, HandlersSound
<1> QED BY <1>1, <1>2, <1>3, <1>4, <1>5

LEMMA OpeningKeeps ==
    ASSUME LifecycleInv, NEW p \in Process, Start(p) \/ ReadApplied(p) \/ Migrated(p) \/ Record(p)
    PROVE  LifecycleInv'
<1> USE DEF LifecycleInv, LifecycleTypeOK, Start, ReadApplied, Migrated, Record, GoTo, opening,
            serving, database
<1>1. LifecycleTypeOK'
    <2>1. CASE Start(p)
        BY <2>1 DEF Phase, Migration, MigrationOrNone
    <2>2. CASE ReadApplied(p)
        <3>1. (1 .. version[p]) \ recorded \subseteq Migration
            BY LifecycleBounds DEF Migration, MigrationOrNone
        <3> QED BY <2>2, <3>1 DEF Phase
    <2>3. CASE Migrated(p)
        BY <2>3 DEF Phase
    <2>4. CASE Record(p)
        BY <2>4
    <2> QED BY <2>1, <2>2, <2>3, <2>4
<1>2. MigratedOnce' /\ MigratedInOrder'
    BY DEF MigratedOnce, MigratedInOrder
<1>3. ServesMigrated'
    BY DEF ServesMigrated, TransactionSound
<1>4. TransactionSound'
    BY DEF TransactionSound, Writing, Migration
<1>5. LostOnlyByTimeout' /\ HandlersSound'
    BY DEF LostOnlyByTimeout, HandlersSound
<1> QED BY <1>1, <1>2, <1>3, <1>4, <1>5

\* A transaction begins with the first migration that is missing, when nobody
\* else writes, or fails.
LEMMA ApplyKeeps ==
    ASSUME LifecycleInv, NEW p \in Process, Apply(p)
    PROVE  LifecycleInv'
<1>1. PICK m \in todo[p] :
          /\ \A n \in todo[p] : m <= n
          /\ \/ /\ m \notin schema
                /\ tx' = [tx EXCEPT ![p] = m]
                /\ UNCHANGED <<phase, version, todo, noted, database, signalled, serving, timedOut>>
             \/ m \in schema /\ Gone(p)
    BY DEF Apply
<1>2. CASE Gone(p)
    BY <1>2, GoneKeeps
<1>3. CASE ~Gone(p)
    <2>1. /\ m \notin schema
          /\ tx' = [tx EXCEPT ![p] = m]
          /\ UNCHANGED <<phase, version, todo, noted, schema, recorded, signalled, work, mails, timedOut>>
        BY <1>1, <1>3 DEF database, serving
    <2>2. m \in Migration /\ m # 0
        BY <1>1 DEF LifecycleInv, LifecycleTypeOK, Migration
    <2>3. phase[p] = "migrating" /\ \A q \in Process : ~Writing(q)
        BY DEF Apply
    <2>4. LifecycleTypeOK'
        BY <2>1, <2>2 DEF LifecycleInv, LifecycleTypeOK, Migration, MigrationOrNone
    <2>5. MigratedOnce' /\ MigratedInOrder' /\ ServesMigrated' /\ LostOnlyByTimeout' /\ HandlersSound'
        BY <2>1 DEF LifecycleInv, MigratedOnce, MigratedInOrder, ServesMigrated,
                    LostOnlyByTimeout, HandlersSound
    <2>6. \A q \in Process : tx'[q] = IF q = p THEN m ELSE 0
        BY <2>1, <2>3 DEF LifecycleInv, LifecycleTypeOK, Writing
    <2>7. TransactionSound'
        BY <1>1, <2>1, <2>2, <2>3, <2>6 DEF LifecycleInv, TransactionSound, Writing
    <2> QED BY <2>4, <2>5, <2>7 DEF LifecycleInv
<1> QED BY <1>2, <1>3

LEMMA CommitKeeps ==
    ASSUME LifecycleInv, NEW p \in Process, Commit(p)
    PROVE  LifecycleInv'
<1> USE DEF LifecycleInv, LifecycleTypeOK, Commit, serving
<1>1. LifecycleTypeOK'
    <2>1. tx[p] \in Migration
        BY LifecycleBounds DEF Migration, MigrationOrNone, Writing
    <2>2. schema' \subseteq Migration /\ recorded' \subseteq Migration
        BY <2>1
    <2>3. todo' \in [Process -> SUBSET Migration]
        OBVIOUS
    <2>4. tx' \in [Process -> MigrationOrNone] /\ noted' \in [Process -> BOOLEAN]
        BY LifecycleBounds DEF MigrationOrNone
    <2> QED BY <2>2, <2>3, <2>4
<1>2. MigratedOnce'
    BY DEF MigratedOnce
<1>3. MigratedInOrder'
    <2>1. \A n \in 1 .. tx[p] : n # tx[p] => n \in recorded
        BY DEF TransactionSound, Migration, MigrationOrNone, Writing
    <2> QED BY <2>1 DEF MigratedInOrder, Migration, MigrationOrNone, Writing
<1>4. ServesMigrated'
    BY DEF ServesMigrated
<1>5. TransactionSound'
    <2>1. \A q \in Process : tx'[q] = 0
        BY DEF TransactionSound, Writing
    <2>2. \A q \in Process : ~noted'[q]
        BY DEF TransactionSound, Writing
    <2>3. \A q \in Process : todo'[q] = IF q = p THEN todo[p] \ {tx[p]} ELSE todo[q]
        OBVIOUS
    <2> QED BY <2>1, <2>2, <2>3 DEF TransactionSound, Writing
<1>6. LostOnlyByTimeout' /\ HandlersSound'
    BY DEF LostOnlyByTimeout, HandlersSound
<1> QED BY <1>1, <1>2, <1>3, <1>4, <1>5, <1>6

LEMMA HandlerKeeps ==
    ASSUME LifecycleInv, NEW p \in Process,
           Signal(p) \/ Accept(p) \/ HandlerStores(p) \/ HandlerNotifies(p) \/ MailDone(p)
    PROVE  LifecycleInv'
<1> USE DEF LifecycleInv, LifecycleTypeOK, Signal, Accept, HandlerStores, HandlerNotifies, MailDone,
            StoreOpen, opening, serving, database
<1>1. LifecycleTypeOK'
    <2>1. CASE Signal(p)
        BY <2>1
    <2>2. CASE Accept(p) \/ HandlerStores(p)
        BY <2>2
    <2>3. CASE HandlerNotifies(p)
        <3>1. mails[p] + 1 \in 0 .. MaxMails
            BY <2>3, LifecycleBounds DEF HandlersSound
        <3> QED BY <2>3, <3>1
    <2>4. CASE MailDone(p)
        <3>1. mails[p] - 1 \in 0 .. MaxMails
            BY <2>4, LifecycleBounds
        <3> QED BY <2>4, <3>1
    <2> QED BY <2>1, <2>2, <2>3, <2>4
<1>2. MigratedOnce' /\ MigratedInOrder' /\ ServesMigrated'
    BY DEF MigratedOnce, MigratedInOrder, ServesMigrated
<1>3. TransactionSound'
    BY DEF TransactionSound, Writing
<1>4. LostOnlyByTimeout'
    BY LifecycleBounds DEF LostOnlyByTimeout
<1>5. HandlersSound'
    BY LifecycleBounds DEF HandlersSound
<1> QED BY <1>1, <1>2, <1>3, <1>4, <1>5

LEMMA StoppingKeeps ==
    ASSUME LifecycleInv, NEW p \in Process,
           \/ Listen(p) \/ BeginDrain(p) \/ Drained(p) \/ DrainTimeout(p)
           \/ Flushed(p) \/ FlushTimeout(p)
    PROVE  LifecycleInv'
<1> USE DEF LifecycleInv, LifecycleTypeOK, Listen, BeginDrain, Drained, DrainTimeout, Flushed,
            FlushTimeout, GoTo, opening, serving, database
<1>1. LifecycleTypeOK'
    BY DEF Phase
<1>2. MigratedOnce' /\ MigratedInOrder' /\ ServesMigrated'
    BY DEF MigratedOnce, MigratedInOrder, ServesMigrated
<1>3. TransactionSound'
    BY DEF TransactionSound, Writing
<1>4. LostOnlyByTimeout'
    <2>1. CASE Listen(p) \/ BeginDrain(p)
        BY <2>1 DEF LostOnlyByTimeout, HandlersSound
    <2>2. CASE Drained(p)
        BY <2>2 DEF LostOnlyByTimeout
    <2>3. CASE DrainTimeout(p)
        BY <2>3 DEF LostOnlyByTimeout
    <2>4. CASE Flushed(p)
        BY <2>4 DEF LostOnlyByTimeout
    <2>5. CASE FlushTimeout(p)
        BY <2>5 DEF LostOnlyByTimeout
    <2> QED BY <2>1, <2>2, <2>3, <2>4, <2>5
<1>5. HandlersSound'
    BY DEF HandlersSound
<1> QED BY <1>1, <1>2, <1>3, <1>4, <1>5

\* What happens elsewhere is nothing to the processes.
LEMMA LifecycleIdles ==
    ASSUME LifecycleInv, UNCHANGED <<phase, opening, database, signalled, serving, timedOut>>
    PROVE  LifecycleInv'
<1> USE DEF LifecycleInv, opening, serving, database
<1>1. LifecycleTypeOK'
    BY DEF LifecycleTypeOK
<1>2. MigratedOnce' /\ MigratedInOrder' /\ ServesMigrated' /\ TransactionSound'
    BY DEF MigratedOnce, MigratedInOrder, ServesMigrated, TransactionSound, Writing
<1>3. LostOnlyByTimeout' /\ HandlersSound'
    BY DEF LostOnlyByTimeout, HandlersSound
<1> QED BY <1>1, <1>2, <1>3

LEMMA LifecycleInductive == LifecycleInv /\ [LifecycleNext]_lifecycleVars => LifecycleInv'
<1> SUFFICES ASSUME LifecycleInv, [LifecycleNext]_lifecycleVars PROVE LifecycleInv'
    OBVIOUS
<1>1. CASE LifecycleNext
    <2>1. PICK p \in Process :
              \/ Start(p) \/ Run(p) \/ Signal(p)
              \/ Accept(p) \/ HandlerStores(p) \/ HandlerNotifies(p) \/ MailDone(p)
              \/ OpenFails(p) \/ Crash(p)
        BY <1>1 DEF LifecycleNext
    <2>2. CASE OpenFails(p) \/ Exit(p) \/ Crash(p)
        BY <2>2, GoneKeeps DEF OpenFails, Exit, Crash
    <2> QED BY <2>1, <2>2, OpeningKeeps, ApplyKeeps, CommitKeeps, HandlerKeeps, StoppingKeeps DEF Run
<1>2. CASE UNCHANGED lifecycleVars
    BY <1>2, LifecycleIdles DEF lifecycleVars
<1> QED BY <1>1, <1>2

\* In every state of every number of processes that are started, stopped and
\* crash on one database, the invariant holds.
THEOREM LifecycleInvariance == LifecycleSpec => []LifecycleInv
<1>1. LifecycleInv /\ [LifecycleNext]_lifecycleVars => LifecycleInv'
    BY LifecycleInductive
<1> QED BY <1>1, LifecycleStart, PTL DEF LifecycleSpec

\* A migration is recorded exactly when it is in effect (store.go 94-116).
THEOREM MigrationsSound == LifecycleSpec => [](MigratedOnce /\ MigratedInOrder /\ ServesMigrated)
<1>1. LifecycleInv => MigratedOnce /\ MigratedInOrder /\ ServesMigrated
    BY DEF LifecycleInv
<1> QED BY <1>1, LifecycleInvariance, PTL

\* Only a wait that was given up loses a mail or leaves a handler without its
\* store (main.go 47-83).
THEOREM StopSound == LifecycleSpec => []LostOnlyByTimeout
<1>1. LifecycleInv => LostOnlyByTimeout
    BY DEF LifecycleInv
<1> QED BY <1>1, LifecycleInvariance, PTL
=============================================================================
