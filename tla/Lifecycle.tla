----------------------------- MODULE Lifecycle -----------------------------
(***************************************************************************)
(* The life of a server process: cmd/freesupp/main.go, the opening of the  *)
(* store with its migrations (internal/store/store.go), and what a stop    *)
(* does to handlers and mails (mail/notifier.go).                          *)
(*                                                                         *)
(* Several processes may run on one database: a new one is started while   *)
(* the old one still drains, or two are started at once.  SQLite lets one  *)
(* of them write at a time; only the one that has the port serves.         *)
(*                                                                         *)
(* A migration is a number, in the order of their names; a binary knows    *)
(* those up to its version.  A handler stores a message and starts a mail; *)
(* what it stores is the subject of module Threads.  Time is not counted:  *)
(* a timer may go off at any moment of a wait, and goes off at last.       *)
(***************************************************************************)
EXTENDS Page

CONSTANTS
    Process,
    MaxMigration,  \* the newest migration of all
    MaxMails       \* bound on the mails of a process that are not sent yet

ASSUME LifecycleBounds == MaxMigration \in Nat /\ MaxMails \in Nat

VARIABLES
    phase,
    version,     \* the newest migration a process knows
    todo,        \* those it found missing, and has not applied
    tx,          \* the one in its transaction, or 0
    noted,       \* the transaction has also inserted its name
    schema,      \* migrations in effect, as committed
    recorded,    \* rows of schema_migrations, as committed
    signalled,   \* SIGTERM or an interrupt has come
    work,        \* what the handler of a process is doing
    mails,       \* mails of the notifier that are not sent yet
    timedOut     \* the waits that were given up

database == <<schema, recorded>>
opening == <<version, todo, tx, noted>>
serving == <<work, mails>>
lifecycleVars == <<phase, opening, database, signalled, serving, timedOut, mishaps>>

Migration == 1 .. MaxMigration
MigrationOrNone == 0 .. MaxMigration
Phase == {"off", "opening", "migrating", "ready", "serving", "draining", "flushing", "closed"}

LifecycleTypeOK ==
    /\ phase \in [Process -> Phase]
    /\ version \in [Process -> MigrationOrNone]
    /\ todo \in [Process -> SUBSET Migration]
    /\ tx \in [Process -> MigrationOrNone]
    /\ noted \in [Process -> BOOLEAN]
    /\ schema \subseteq Migration /\ recorded \subseteq Migration
    /\ signalled \in [Process -> BOOLEAN]
    /\ work \in [Process -> {"idle", "running", "stored"}]
    /\ mails \in [Process -> 0 .. MaxMails]
    /\ timedOut \in [Process -> SUBSET {"drain", "flush"}]

\* An empty database, and nothing that uses it.
LifecycleInit ==
    /\ phase = [p \in Process |-> "off"]
    /\ version = [p \in Process |-> 0]
    /\ todo = [p \in Process |-> {}]
    /\ tx = [p \in Process |-> 0] /\ noted = [p \in Process |-> FALSE]
    /\ schema = {} /\ recorded = {}
    /\ signalled = [p \in Process |-> FALSE]
    /\ work = [p \in Process |-> "idle"] /\ mails = [p \in Process |-> 0]
    /\ timedOut = [p \in Process |-> {}]

GoTo(p, next) == phase' = [phase EXCEPT ![p] = next]

\* The end of a process, by whatever way: nothing of it is left, and what is in
\* a transaction is rolled back.
Gone(p) ==
    /\ GoTo(p, "off")
    /\ version' = [version EXCEPT ![p] = 0]
    /\ todo' = [todo EXCEPT ![p] = {}]
    /\ tx' = [tx EXCEPT ![p] = 0] /\ noted' = [noted EXCEPT ![p] = FALSE]
    /\ signalled' = [signalled EXCEPT ![p] = FALSE]
    /\ work' = [work EXCEPT ![p] = "idle"] /\ mails' = [mails EXCEPT ![p] = 0]
    /\ timedOut' = [timedOut EXCEPT ![p] = {}]
    /\ UNCHANGED database

-----------------------------------------------------------------------------
(* Opening the store. *)

\* A binary of any version is started; signals are caught from here on.
Start(p) ==
    /\ phase[p] = "off"
    /\ \E v \in Migration : version' = [version EXCEPT ![p] = v]
    /\ GoTo(p, "opening")
    /\ UNCHANGED <<todo, tx, noted, database, signalled, serving, timedOut, mishaps>>

\* appliedMigrations, read once, outside the transactions that follow.
ReadApplied(p) ==
    /\ phase[p] = "opening"
    /\ todo' = [todo EXCEPT ![p] = (1 .. version[p]) \ recorded]
    /\ GoTo(p, "migrating")
    /\ UNCHANGED <<version, tx, noted, database, signalled, serving, timedOut, mishaps>>

Writing(p) == tx[p] # 0

\* The first write of a transaction waits for the other process's to end.  The
\* statements of a migration fail where it is in effect already, for another
\* process was faster: CREATE TABLE, and run returns the error.
Apply(p) ==
    /\ phase[p] = "migrating" /\ ~Writing(p)
    /\ \A q \in Process : ~Writing(q)
    /\ \E m \in todo[p] :
           /\ \A n \in todo[p] : m <= n
           /\ \/ /\ m \notin schema
                 /\ tx' = [tx EXCEPT ![p] = m]
                 /\ UNCHANGED <<phase, version, todo, noted, database, signalled, serving,
                                timedOut>>
              \/ m \in schema /\ Gone(p)
    /\ UNCHANGED mishaps

\* Faulty: the name is inserted after the transaction.
Record_Outside(p) ==
    /\ Writing(p) /\ ~noted[p]
    /\ noted' = [noted EXCEPT ![p] = TRUE]
    /\ schema' = schema \cup {tx[p]}
    /\ UNCHANGED <<phase, version, todo, tx, recorded, signalled, serving, timedOut, mishaps>>

Record(p) ==
    /\ Writing(p) /\ ~noted[p]
    /\ noted' = [noted EXCEPT ![p] = TRUE]
    /\ UNCHANGED <<phase, version, todo, tx, database, signalled, serving, timedOut, mishaps>>

Commit(p) ==
    /\ Writing(p) /\ noted[p]
    /\ schema' = schema \cup {tx[p]}
    /\ recorded' = recorded \cup {tx[p]}
    /\ todo' = [todo EXCEPT ![p] = @ \ {tx[p]}]
    /\ tx' = [tx EXCEPT ![p] = 0]
    /\ noted' = [noted EXCEPT ![p] = FALSE]
    /\ UNCHANGED <<phase, version, signalled, serving, timedOut, mishaps>>

Migrated(p) ==
    /\ phase[p] = "migrating" /\ ~Writing(p) /\ todo[p] = {}
    /\ GoTo(p, "ready")
    /\ UNCHANGED <<opening, database, signalled, serving, timedOut, mishaps>>

\* The store cannot be opened: the lock is not to be had, the disk is full.
OpenFails(p) ==
    /\ phase[p] \in {"opening", "migrating"}
    /\ Mishap
    /\ Gone(p)

-----------------------------------------------------------------------------
(* Serving. *)

Signal(p) ==
    /\ phase[p] # "off" /\ ~signalled[p]
    /\ signalled' = [signalled EXCEPT ![p] = TRUE]
    /\ UNCHANGED <<phase, opening, database, serving, timedOut, mishaps>>

\* ListenAndServe: who does not get the port stops, by the same way.
Listen(p) ==
    /\ phase[p] = "ready"
    /\ GoTo(p, IF \E q \in Process : phase[q] = "serving" THEN "flushing" ELSE "serving")
    /\ UNCHANGED <<opening, database, signalled, serving, timedOut, mishaps>>

Accept(p) ==
    /\ phase[p] = "serving" /\ work[p] = "idle" /\ mails[p] < MaxMails
    /\ work' = [work EXCEPT ![p] = "running"]
    /\ UNCHANGED <<phase, opening, database, signalled, mails, timedOut, mishaps>>

StoreOpen(p) == phase[p] # "closed"

\* A handler that meets a closed store answers with an error.
HandlerStores(p) ==
    /\ work[p] = "running"
    /\ work' = [work EXCEPT ![p] = IF StoreOpen(p) THEN "stored" ELSE "idle"]
    /\ UNCHANGED <<phase, opening, database, signalled, mails, timedOut, mishaps>>

\* operatorEmails and the notifier: whom to tell is in the store.
HandlerNotifies(p) ==
    /\ work[p] = "stored"
    /\ work' = [work EXCEPT ![p] = "idle"]
    /\ mails' = [mails EXCEPT ![p] = IF StoreOpen(p) THEN @ + 1 ELSE @]
    /\ UNCHANGED <<phase, opening, database, signalled, timedOut, mishaps>>

\* A mail is sent, or given up.
MailDone(p) ==
    /\ mails[p] > 0
    /\ mails' = [mails EXCEPT ![p] = @ - 1]
    /\ UNCHANGED <<phase, opening, database, signalled, work, timedOut, mishaps>>

-----------------------------------------------------------------------------
(* Stopping. *)

\* Shutdown: no new requests from now on.
BeginDrain(p) ==
    /\ phase[p] = "serving" /\ signalled[p]
    /\ GoTo(p, "draining")
    /\ UNCHANGED <<opening, database, signalled, serving, timedOut, mishaps>>

\* Faulty: the mails are waited for without the handlers.
Drained_AtOnce(p) ==
    /\ phase[p] = "draining"
    /\ GoTo(p, "flushing")
    /\ UNCHANGED <<opening, database, signalled, serving, timedOut, mishaps>>

Drained(p) ==
    /\ phase[p] = "draining" /\ work[p] = "idle"
    /\ GoTo(p, "flushing")
    /\ UNCHANGED <<opening, database, signalled, serving, timedOut, mishaps>>

\* Faulty: the handlers are waited for as long as it takes.
DrainTimeout_Never(p) == FALSE /\ UNCHANGED lifecycleVars

DrainTimeout(p) ==
    /\ phase[p] = "draining" /\ work[p] # "idle"
    /\ timedOut' = [timedOut EXCEPT ![p] = @ \cup {"drain"}]
    /\ GoTo(p, "flushing")
    /\ UNCHANGED <<opening, database, signalled, serving, mishaps>>

\* WaitTimeout, and the closing of the store.
Flushed(p) ==
    /\ phase[p] = "flushing" /\ mails[p] = 0
    /\ GoTo(p, "closed")
    /\ UNCHANGED <<opening, database, signalled, serving, timedOut, mishaps>>

FlushTimeout(p) ==
    /\ phase[p] = "flushing" /\ mails[p] > 0
    /\ timedOut' = [timedOut EXCEPT ![p] = @ \cup {"flush"}]
    /\ GoTo(p, "closed")
    /\ UNCHANGED <<opening, database, signalled, serving, mishaps>>

Exit(p) == phase[p] = "closed" /\ Gone(p) /\ UNCHANGED mishaps

Crash(p) == phase[p] # "off" /\ Mishap /\ Gone(p)

-----------------------------------------------------------------------------
Run(p) ==
    \/ ReadApplied(p) \/ Apply(p) \/ Record(p) \/ Commit(p) \/ Migrated(p) \/ Listen(p)
    \/ BeginDrain(p) \/ Drained(p) \/ DrainTimeout(p) \/ Flushed(p) \/ FlushTimeout(p) \/ Exit(p)

LifecycleNext ==
    \E p \in Process :
        \/ Start(p) \/ Run(p) \/ Signal(p)
        \/ Accept(p) \/ HandlerStores(p) \/ HandlerNotifies(p) \/ MailDone(p)
        \/ OpenFails(p) \/ Crash(p)

LifecycleSpec == LifecycleInit /\ mishaps = 0 /\ [][LifecycleNext]_lifecycleVars

\* A process goes on and its timers run out; nothing is assumed of handlers and
\* of the mail server.
LifecycleFairness == \A p \in Process : WF_lifecycleVars(Run(p))

-----------------------------------------------------------------------------
(* Properties. *)

\* A migration is recorded exactly when it is in effect, also after a crash at
\* any point and when two processes start at once: otherwise the next start
\* would fail on it, or leave it out.
MigratedOnce == schema = recorded

\* They are applied in the order of their names, also by an older binary on a
\* newer database.
MigratedInOrder == \A m \in recorded : \A n \in 1 .. m : n \in recorded

\* A process serves on a database that has all it knows.
ServesMigrated ==
    \A p \in Process :
        phase[p] \in {"ready", "serving", "draining", "flushing", "closed"}
            => 1 .. version[p] \subseteq recorded

\* One process writes at a time, in order, and nobody else applies what it does.
TransactionSound ==
    /\ \A p, q \in Process : Writing(p) /\ Writing(q) => p = q
    /\ \A p \in Process :
           /\ Writing(p) => /\ phase[p] = "migrating" /\ tx[p] \in todo[p] /\ tx[p] \notin schema
                            /\ \A n \in todo[p] : tx[p] <= n
           /\ noted[p] => Writing(p)
           /\ phase[p] # "migrating" => todo[p] = {}
           /\ phase[p] = "migrating" => (1 .. version[p]) \ todo[p] \subseteq recorded
           /\ todo[p] \subseteq 1 .. version[p]

\* A handler meets a closed store only when ten seconds were not enough for it,
\* and a mail is lost in a stop only when a wait was given up (main.go 52-56:
\* the wait for mails comes after the wait for the handlers that start them,
\* and before the store is closed).
LostOnlyByTimeout ==
    \A p \in Process :
        /\ phase[p] \in {"flushing", "closed"} /\ work[p] # "idle" => "drain" \in timedOut[p]
        /\ phase[p] = "closed" /\ mails[p] > 0 => timedOut[p] # {}

\* Handlers run on an open store and have room for their mail.
HandlersSound ==
    \A p \in Process :
        /\ phase[p] \in {"off", "opening", "migrating", "ready"} => work[p] = "idle" /\ mails[p] = 0
        /\ work[p] # "idle" => mails[p] < MaxMails

LifecycleInv ==
    /\ LifecycleTypeOK
    /\ MigratedOnce
    /\ MigratedInOrder
    /\ ServesMigrated
    /\ TransactionSound
    /\ LostOnlyByTimeout
    /\ HandlersSound

\* A process that is told to stop ends, however long its handlers and the mail
\* server take: the waits are bounded.
StopsAtLast ==
    LifecycleFairness => \A p \in Process : signalled[p] ~> phase[p] = "off"
=============================================================================
