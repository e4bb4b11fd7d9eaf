------------------------------- MODULE Migrate -------------------------------
(***************************************************************************)
(* Store.Migrate: numbered migrations under an advisory lock, run by the   *)
(* deploy (`finbox migrate`) and by every boot of a container, at the same *)
(* time and by releases that know a different number of them. Anything may *)
(* be killed and any statement may fail, also with its effect in place.    *)
(*                                                                         *)
(* Sources: internal/store/store.go, cmd/finbox/{migrate,serve}.go; the    *)
(* sessions and the transactions of PostgreSQL as they use them.           *)
(***************************************************************************)
EXTENDS Integers, Sequences

CONSTANTS
  Migrators,   \* the processes that call Migrate
  Serving,     \* those that go on to serve, and are restarted by docker
  Known,       \* Known[p]: how many migrations the binary of p embeds
  NoOne

ASSUME MigratorAssumption == Serving \subseteq Migrators /\ NoOne \notin Migrators
ASSUME KnownAssumption == Known \in [Migrators -> Nat]

VARIABLES
  schema,   \* the migrations in effect, in the order of their transactions
  rows,     \* schema_migrations
  holder,   \* whose session holds the advisory lock
  pc,       \* where each process is
  at,       \* at[p]: the migration that the loop of p has come to
  calm      \* from now on nothing is killed and no statement fails

vars == <<schema, rows, holder, pc, at, calm>>
database == <<schema, rows>>

Stages == {"off", "lock", "table", "check", "apply", "unlock", "abort", "up", "failed"}
Locked == {"table", "check", "apply", "unlock", "abort"}

Init ==
  /\ schema = << >> /\ rows = {}
  /\ holder = NoOne
  /\ pc = [p \in Migrators |-> "off"]
  /\ at = [p \in Migrators |-> 1]
  /\ calm = FALSE

Goto(p, stage) == pc' = [pc EXCEPT ![p] = stage]

-----------------------------------------------------------------------------
\* Mutant: a container that exits is not started again.
StartOnce(p) ==
  /\ \/ pc[p] = "off"
     \/ pc[p] \in {"failed", "up"} /\ p \notin Serving
  /\ Goto(p, "lock")
  /\ UNCHANGED <<database, holder, at, calm>>

\* A boot, a restart by docker, or a deploy, also one more: pool.Acquire.
Start(p) ==
  /\ \/ pc[p] \in {"off", "failed"}
     \/ pc[p] = "up" /\ p \notin Serving
  /\ Goto(p, "lock")
  /\ UNCHANGED <<database, holder, at, calm>>

\* Mutant: nobody waits for the lock.
LockAnyway(p) ==
  /\ pc[p] = "lock"
  /\ holder' = p
  /\ Goto(p, "table")
  /\ UNCHANGED <<database, at, calm>>

\* pg_advisory_lock waits for the session that holds it.
Lock(p) ==
  /\ pc[p] = "lock" /\ holder = NoOne
  /\ holder' = p
  /\ Goto(p, "table")
  /\ UNCHANGED <<database, at, calm>>

\* Mutant: the loop counts from zero.
CreateTableZero(p) ==
  /\ pc[p] = "table"
  /\ at' = [at EXCEPT ![p] = 0]
  /\ Goto(p, "check")
  /\ UNCHANGED <<database, holder, calm>>

\* create table if not exists schema_migrations; the names, sorted.
CreateTable(p) ==
  /\ pc[p] = "table"
  /\ at' = [at EXCEPT ![p] = 1]
  /\ Goto(p, "check")
  /\ UNCHANGED <<database, holder, calm>>

\* Mutant: a migration that is recorded ends the loop.
CheckStops(p) ==
  /\ pc[p] = "check"
  /\ Goto(p, IF at[p] > Known[p] \/ at[p] \in rows THEN "unlock" ELSE "apply")
  /\ UNCHANGED <<database, holder, at, calm>>

\* Has this migration been applied?
Check(p) ==
  /\ pc[p] = "check"
  /\ \/ at[p] > Known[p] /\ Goto(p, "unlock") /\ UNCHANGED at
     \/ at[p] \in 1..Known[p] \ rows /\ Goto(p, "apply") /\ UNCHANGED at
     \/ /\ at[p] \in 1..Known[p] \cap rows
        /\ at' = [at EXCEPT ![p] = @ + 1]
        /\ UNCHANGED pc
  /\ UNCHANGED <<database, holder, calm>>

InEffect == {schema[i] : i \in DOMAIN schema}

\* Mutant: the row is written by a statement of its own, before the SQL.
RecordFirst(p) ==
  /\ pc[p] = "apply"
  /\ rows' = rows \cup {at[p]}
  /\ IF at[p] \in rows /\ at[p] \notin InEffect
     THEN /\ schema' = Append(schema, at[p])
          /\ at' = [at EXCEPT ![p] = @ + 1]
          /\ Goto(p, "check")
     ELSE UNCHANGED <<schema, at, pc>>
  /\ UNCHANGED <<holder, calm>>

\* The SQL and its row in one transaction; create table and the primary key
\* fail when it is in effect already.
Apply(p) ==
  /\ pc[p] = "apply"
  /\ IF at[p] \in InEffect \cup rows
     THEN Goto(p, "abort") /\ UNCHANGED <<database, at>>
     ELSE /\ schema' = Append(schema, at[p])
          /\ rows' = rows \cup {at[p]}
          /\ at' = [at EXCEPT ![p] = @ + 1]
          /\ Goto(p, "check")
  /\ UNCHANGED <<holder, calm>>

\* The deferred unlock, and what the caller does with the result: serve goes
\* on, an error ends the process.
Unlock(p) ==
  /\ pc[p] \in {"unlock", "abort"}
  /\ holder' = NoOne
  /\ Goto(p, IF pc[p] = "unlock" THEN "up" ELSE "failed")
  /\ UNCHANGED <<database, at, calm>>

-----------------------------------------------------------------------------
\* A statement fails (the 30 s of cmdMigrate are over, the connection is
\* lost): the transaction, if any, is rolled back.
Fail(p) ==
  /\ ~calm /\ pc[p] \in {"lock", "table", "check", "apply"}
  /\ Goto(p, IF pc[p] = "lock" THEN "failed" ELSE "abort")
  /\ UNCHANGED <<database, holder, at, calm>>

\* The commit takes effect but its answer is lost.
CommitUnheard(p) ==
  /\ ~calm /\ pc[p] = "apply" /\ at[p] \notin InEffect \cup rows
  /\ schema' = Append(schema, at[p])
  /\ rows' = rows \cup {at[p]}
  /\ Goto(p, "abort")
  /\ UNCHANGED <<holder, at, calm>>

\* The unlock is best-effort: the lock is then left to the end of the session.
UnlockFails(p) ==
  /\ ~calm /\ pc[p] \in {"unlock", "abort"}
  /\ Goto(p, IF pc[p] = "unlock" THEN "up" ELSE "failed")
  /\ UNCHANGED <<database, holder, at, calm>>

Kill(p) ==
  /\ ~calm /\ pc[p] \notin {"off", "failed"}
  /\ Goto(p, "failed")
  /\ UNCHANGED <<database, holder, at, calm>>

\* PostgreSQL notices that a session which held the lock has ended; the
\* process may have been started again meanwhile.
SessionEnds(p) ==
  /\ holder = p /\ pc[p] \notin Locked
  /\ holder' = NoOne
  /\ UNCHANGED <<database, pc, at, calm>>

Calm == ~calm /\ calm' = TRUE /\ UNCHANGED <<database, holder, pc, at>>

-----------------------------------------------------------------------------
Step(p) ==
  Start(p) \/ Lock(p) \/ CreateTable(p) \/ Check(p) \/ Apply(p) \/ Unlock(p)

Trouble(p) == Fail(p) \/ CommitUnheard(p) \/ UnlockFails(p) \/ Kill(p)

Next == Calm \/ \E p \in Migrators : Step(p) \/ Trouble(p) \/ SessionEnds(p)

Spec == Init /\ [][Next]_vars

Running(p) == pc[p] \notin {"off", "failed", "up"}

\* Containers are started again, code runs on, PostgreSQL ends dead sessions
\* and serves those that wait for a lock in turn.
FairSpec ==
  /\ Spec
  /\ \A p \in Serving : WF_vars(Step(p)) /\ SF_vars(Lock(p))
  /\ \A p \in Migrators \ Serving : WF_vars(Running(p) /\ Step(p)) /\ SF_vars(Lock(p))
  /\ \A p \in Migrators : WF_vars(SessionEnds(p))

-----------------------------------------------------------------------------
(***************************************************************************)
(* Properties.                                                             *)
(***************************************************************************)

TypeOK ==
  /\ schema \in Seq(Nat \ {0}) /\ rows \in SUBSET (Nat \ {0})
  /\ holder \in Migrators \cup {NoOne}
  /\ pc \in [Migrators -> Stages] /\ at \in [Migrators -> Nat \ {0}]
  /\ calm \in BOOLEAN

\* Whatever is killed and however releases overlap, the database is one that
\* some release has built: its migrations are a prefix of the numbered files,
\* in order and each once, and schema_migrations says exactly that.
SchemaIsRecorded ==
  /\ \A i \in DOMAIN schema : schema[i] = i
  /\ rows = DOMAIN schema

\* What a migrator has read of schema_migrations still holds when it applies
\* the SQL, some statements later: none fails because of another.
NoneTripsOverAnother == \A p \in Migrators : pc[p] = "apply" => at[p] \notin InEffect

\* A container that serves has every migration of its own release under it.
ServesOnItsSchema == \A p \in Serving : pc[p] = "up" => 1..Known[p] \subseteq rows

\* When the trouble is over, every container comes up.
AllComeUp == \A p \in Serving : calm ~> pc[p] = "up"
=============================================================================
