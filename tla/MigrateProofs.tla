---------------------------- MODULE MigrateProofs ----------------------------
(***************************************************************************)
(* The safety properties of Migrate, for any number of processes and of    *)
(* migrations. The argument: what a process has learnt of                  *)
(* schema_migrations under the lock is about rows that nobody else adds    *)
(* to, so the first migration it has not seen is the next of the schema.   *)
(***************************************************************************)
EXTENDS Migrate, TLAPS

\* Whoever is past the lock holds it: its session has not ended.
LockIsHeld == \A p \in Migrators : pc[p] \in Locked => holder = p

\* The loop has seen every migration before the one it has come to.
Progress ==
  \A p \in Migrators :
    /\ pc[p] \in {"check", "apply"} => 1..at[p] - 1 \subseteq rows
    /\ pc[p] = "apply" => at[p] \in 1..Known[p] \ rows
    /\ pc[p] \in {"unlock", "up"} /\ (pc[p] = "up" => p \in Serving) => 1..Known[p] \subseteq rows

IInv == TypeOK /\ SchemaIsRecorded /\ LockIsHeld /\ Progress

\* The migrations in effect are the rows.
LEMMA EffectIsRows ==
  ASSUME SchemaIsRecorded PROVE InEffect = rows
BY DEF SchemaIsRecorded, InEffect

\* The two remaining invariants follow from the inductive one.
LEMMA Consequences ==
  ASSUME IInv PROVE NoneTripsOverAnother /\ ServesOnItsSchema
BY EffectIsRows, MigratorAssumption DEF IInv, Progress, NoneTripsOverAnother, ServesOnItsSchema

LEMMA InitInv == Init => IInv
<1> SUFFICES ASSUME Init PROVE IInv
  OBVIOUS
<1>1. schema = << >> /\ DOMAIN schema = {} /\ rows = {}
  BY DEF Init
<1>2. TypeOK
  <2>1. schema \in Seq(Nat \ {0})
    BY <1>1
  <2>2. pc \in [Migrators -> Stages] /\ at \in [Migrators -> Nat \ {0}]
    BY DEF Init, Stages
  <2>3. rows \in SUBSET (Nat \ {0}) /\ holder \in Migrators \cup {NoOne} /\ calm \in BOOLEAN
    BY <1>1 DEF Init
  <2> QED
    BY <2>1, <2>2, <2>3 DEF TypeOK
<1>3. SchemaIsRecorded
  BY <1>1 DEF SchemaIsRecorded
<1>4. LockIsHeld /\ Progress
  BY DEF Init, LockIsHeld, Progress, Locked
<1> QED
  BY <1>2, <1>3, <1>4 DEF IInv

\* A transaction that may be committed appends the next number.
LEMMA Appends ==
  ASSUME IInv, NEW p \in Migrators, pc[p] = "apply",
         schema' = Append(schema, at[p]), rows' = rows \cup {at[p]}
  PROVE  /\ schema' \in Seq(Nat \ {0}) /\ rows' \in SUBSET (Nat \ {0})
         /\ SchemaIsRecorded'
<1>1. rows = 1..Len(schema) /\ Len(schema) \in Nat
  BY DEF IInv, TypeOK, SchemaIsRecorded
<1>2. at[p] \in Nat \ {0} /\ at[p] \notin rows /\ 1..at[p] - 1 \subseteq rows
  BY KnownAssumption DEF IInv, TypeOK, Progress
<1>3. at[p] = Len(schema) + 1
  <2>1. at[p] > Len(schema)
    BY <1>1, <1>2
  <2>2. ~ at[p] > Len(schema) + 1
    <3>1. SUFFICES ASSUME at[p] > Len(schema) + 1 PROVE FALSE
      OBVIOUS
    <3>2. Len(schema) + 1 \in 1..at[p] - 1
      BY <1>1, <1>2, <3>1
    <3> QED
      BY <1>1, <1>2, <3>2
  <2> QED
    BY <1>1, <1>2, <2>1, <2>2
<1>4. /\ schema' \in Seq(Nat \ {0})
      /\ DOMAIN schema' = 1..Len(schema) + 1
      /\ \A i \in DOMAIN schema' : schema'[i] = IF i = Len(schema) + 1 THEN at[p] ELSE schema[i]
  BY <1>2 DEF IInv, TypeOK
<1>5. \A i \in DOMAIN schema : schema[i] = i
  BY DEF IInv, SchemaIsRecorded
<1> QED
  BY <1>1, <1>2, <1>3, <1>4, <1>5 DEF SchemaIsRecorded, IInv, TypeOK

\* A step that adds a row keeps what the others know: they hold no lock, and
\* what they know of rows is about rows that are there.
LEMMA RowAdded ==
  ASSUME IInv, NEW p \in Migrators, pc[p] = "apply", rows' = rows \cup {at[p]}
  PROVE  \A q \in Migrators \ {p} :
           /\ pc[q] \notin Locked
           /\ pc[q] \in {"check", "apply"} => 1..at[q] - 1 \subseteq rows'
           /\ pc[q] = "up" /\ q \in Serving => 1..Known[q] \subseteq rows'
BY DEF IInv, LockIsHeld, Progress, Locked

LEMMA NextInv == IInv /\ [Next]_vars => IInv'
<1> SUFFICES ASSUME IInv, [Next]_vars PROVE IInv'
  OBVIOUS
<1> USE DEF IInv
<1>1. ASSUME NEW p \in Migrators, Start(p) PROVE IInv'
  BY <1>1, MigratorAssumption DEF Start, Goto, TypeOK, SchemaIsRecorded, LockIsHeld, Progress, Stages, Locked, database
<1>2. ASSUME NEW p \in Migrators, Lock(p) PROVE IInv'
  BY <1>2, MigratorAssumption DEF Lock, Goto, TypeOK, SchemaIsRecorded, LockIsHeld, Progress, Stages, Locked, database
<1>3. ASSUME NEW p \in Migrators, CreateTable(p) PROVE IInv'
  BY <1>3 DEF CreateTable, Goto, TypeOK, SchemaIsRecorded, LockIsHeld, Progress, Stages, Locked, database
<1>4. ASSUME NEW p \in Migrators, Check(p) PROVE IInv'
  <2>1. TypeOK' /\ SchemaIsRecorded' /\ LockIsHeld'
    BY <1>4 DEF Check, Goto, TypeOK, SchemaIsRecorded, LockIsHeld, Stages, Locked, database
  <2>2. /\ at[p] \in Nat \ {0} /\ Known[p] \in Nat
        /\ 1..at[p] - 1 \subseteq rows /\ pc[p] = "check" /\ rows' = rows
        /\ pc' = [pc EXCEPT ![p] = pc'[p]] /\ at' = [at EXCEPT ![p] = at'[p]]
    BY <1>4, KnownAssumption DEF Check, Goto, TypeOK, Progress, database
  <2>3. /\ pc'[p] \in {"check", "apply"} => 1..at'[p] - 1 \subseteq rows
        /\ pc'[p] = "apply" => at'[p] \in 1..Known[p] \ rows
        /\ pc'[p] = "unlock" => 1..Known[p] \subseteq rows
        /\ pc'[p] # "up"
    <3>1. CASE at[p] > Known[p] /\ Goto(p, "unlock") /\ UNCHANGED at
      BY <3>1, <2>2 DEF Goto, TypeOK
    <3>2. CASE at[p] \in 1..Known[p] \ rows /\ Goto(p, "apply") /\ UNCHANGED at
      BY <3>2, <2>2 DEF Goto, TypeOK
    <3>3. CASE at[p] \in rows /\ at' = [at EXCEPT ![p] = @ + 1] /\ UNCHANGED pc
      BY <3>3, <2>2 DEF TypeOK
    <3> QED
      BY <1>4, <3>1, <3>2, <3>3 DEF Check
  <2> QED
    BY <2>1, <2>2, <2>3 DEF Progress, TypeOK
<1>5. ASSUME NEW p \in Migrators, Apply(p) PROVE IInv'
  <2>1. at[p] \notin InEffect \cup rows /\ pc[p] = "apply"
    BY <1>5, EffectIsRows DEF Apply, Progress
  <2>2. /\ schema' = Append(schema, at[p]) /\ rows' = rows \cup {at[p]}
        /\ at' = [at EXCEPT ![p] = @ + 1] /\ Goto(p, "check")
        /\ UNCHANGED <<holder, calm>>
    BY <1>5, <2>1 DEF Apply
  <2>3. TypeOK' /\ SchemaIsRecorded'
    BY <2>1, <2>2, Appends DEF TypeOK, Goto, Stages
  <2>4. LockIsHeld'
    BY <2>1, <2>2 DEF LockIsHeld, Goto, TypeOK, Locked
  <2>5. 1..at'[p] - 1 \subseteq rows' /\ pc'[p] = "check"
    BY <2>1, <2>2 DEF Progress, Goto, TypeOK
  <2>6. \A q \in Migrators \ {p} : pc'[q] = pc[q] /\ at'[q] = at[q]
    BY <2>2 DEF Goto, TypeOK
  <2>7. Progress'
    BY <2>1, <2>2, <2>5, <2>6, RowAdded DEF Progress, Locked
  <2> QED
    BY <2>3, <2>4, <2>7
<1>6. ASSUME NEW p \in Migrators, Unlock(p) PROVE IInv'
  BY <1>6, MigratorAssumption DEF Unlock, Goto, TypeOK, SchemaIsRecorded, LockIsHeld, Progress, Stages, Locked, database
<1>7. ASSUME NEW p \in Migrators, Fail(p) PROVE IInv'
  BY <1>7 DEF Fail, Goto, TypeOK, SchemaIsRecorded, LockIsHeld, Progress, Stages, Locked, database
<1>8. ASSUME NEW p \in Migrators, CommitUnheard(p) PROVE IInv'
  <2>1. /\ pc[p] = "apply" /\ schema' = Append(schema, at[p]) /\ rows' = rows \cup {at[p]}
        /\ Goto(p, "abort") /\ UNCHANGED <<holder, at, calm>>
    BY <1>8 DEF CommitUnheard
  <2>2. TypeOK' /\ SchemaIsRecorded'
    BY <2>1, Appends DEF TypeOK, Goto, Stages
  <2>3. LockIsHeld'
    BY <2>1 DEF LockIsHeld, Goto, TypeOK, Locked
  <2>4. \A q \in Migrators \ {p} : pc'[q] = pc[q] /\ at'[q] = at[q]
    BY <2>1 DEF Goto, TypeOK
  <2>5. pc'[p] = "abort"
    BY <2>1 DEF Goto, TypeOK
  <2>6. Progress'
    BY <2>1, <2>4, <2>5, RowAdded DEF Progress, Locked
  <2> QED
    BY <2>2, <2>3, <2>6
<1>9. ASSUME NEW p \in Migrators, UnlockFails(p) PROVE IInv'
  BY <1>9, MigratorAssumption DEF UnlockFails, Goto, TypeOK, SchemaIsRecorded, LockIsHeld, Progress, Stages, Locked, database
<1>10. ASSUME NEW p \in Migrators, Kill(p) PROVE IInv'
  BY <1>10 DEF Kill, Goto, TypeOK, SchemaIsRecorded, LockIsHeld, Progress, Stages, Locked, database
<1>11. ASSUME NEW p \in Migrators, SessionEnds(p) PROVE IInv'
  BY <1>11, MigratorAssumption DEF SessionEnds, TypeOK, SchemaIsRecorded, LockIsHeld, Progress, database
<1>12. CASE Calm
  BY <1>12 DEF Calm, TypeOK, SchemaIsRecorded, LockIsHeld, Progress, database
<1>13. CASE UNCHANGED vars
  BY <1>13 DEF vars, TypeOK, SchemaIsRecorded, LockIsHeld, Progress
<1> QED
  BY <1>1, <1>2, <1>3, <1>4, <1>5, <1>6, <1>7, <1>8, <1>9, <1>10, <1>11, <1>12, <1>13
  DEF Next, Step, Trouble

\* The inductive invariant: the variables have their types, the lock is held
\* by whoever works under it, and the loop of Migrate knows a prefix.
THEOREM Inductive == Spec => []IInv
<1>1. Init => IInv
  BY InitInv
<1>2. IInv /\ [Next]_vars => IInv'
  BY NextInv
<1> QED
  BY <1>1, <1>2, PTL DEF Spec

\* The variables have their types, whatever is killed and whatever fails.
THEOREM TypeTheorem == Spec => []TypeOK
<1>1. IInv => TypeOK
  BY DEF IInv
<1> QED
  BY <1>1, Inductive, PTL

\* store.go:53-81: whatever is killed, whichever statement fails and however
\* releases overlap, the schema is a prefix of the numbered files, in order
\* and each once, and schema_migrations says exactly that.
THEOREM SchemaTheorem == Spec => []SchemaIsRecorded
<1>1. IInv => SchemaIsRecorded
  BY DEF IInv
<1> QED
  BY <1>1, Inductive, PTL

\* store.go:40: the advisory lock keeps what was read of schema_migrations
\* true until the transaction that relies on it.
THEOREM NoTripTheorem == Spec => []NoneTripsOverAnother
<1>1. IInv => NoneTripsOverAnother
  BY Consequences
<1> QED
  BY <1>1, Inductive, PTL

\* serve.go:44: the bot is started only on a schema that has every migration
\* its release knows.
THEOREM ServesTheorem == Spec => []ServesOnItsSchema
<1>1. IInv => ServesOnItsSchema
  BY Consequences
<1> QED
  BY <1>1, Inductive, PTL
=============================================================================
