------------------------------ MODULE MCMigrate ------------------------------
(* The deploy and the container of one release, next to the container of the  *)
(* release before, which knows one migration less.                            *)
EXTENDS Migrate

CONSTANTS deploy, old, new

MCKnown == [p \in Migrators |-> IF p = old THEN 2 ELSE 3]
=============================================================================
