------------------------------ MODULE Startup ------------------------------
(* The background task that connects to Postgres, migrates it and hands the  *)
(* pool to the commands.  The window is open meanwhile: a command entered    *)
(* before the pool is managed is refused, one entered after it finds the     *)
(* database as far migrated as the migrations came.                          *)
EXTENDS Integers

CONSTANT Migrations     \* how many migrations are embedded

ASSUME MigrationsAssumption == Migrations \in Nat \ {0}

VARIABLES
    pool,       \* the Db handle in the application's state, on its way there
    schema      \* how many migrations the database has; survives a restart

startupVars == <<pool, schema>>

StartupInit == pool = "connecting" /\ schema \in 0..Migrations

Connect ==
    /\ pool = "connecting"
    /\ pool' = "migrating"
    /\ UNCHANGED schema

(* No configuration, or no connection in time: the task ends for good.       *)
Unreachable ==
    /\ pool = "connecting"
    /\ pool' = "offline"
    /\ UNCHANGED schema

(* Each migration is a transaction of its own.                               *)
Migrate ==
    /\ pool = "migrating"
    /\ schema < Migrations
    /\ schema' = schema + 1
    /\ UNCHANGED pool

(* The migrations have ended, and whether they all went through makes no     *)
(* difference: a failure is printed and the pool managed all the same.       *)
Manage ==
    /\ pool = "migrating"
    /\ pool' = "managed"
    /\ UNCHANGED schema

StartupStep == Connect \/ Unreachable \/ Migrate \/ Manage

Restart ==
    /\ pool' = "connecting"
    /\ UNCHANGED schema

(* A statement over a table of the n-th migration finds its table.           *)
HasTable(n) == schema >= n
=============================================================================
