-------------------------------- MODULE Migrate --------------------------------
(***************************************************************************)
(* The migration tool.  A script is run statement by statement "in a       *)
(* transaction", but MySQL commits every CREATE and DROP TABLE by itself;  *)
(* the version is recorded afterwards.  The tool may be stopped anywhere   *)
(* (also by its own 30 seconds), and several "up" may run at once.         *)
(***************************************************************************)
EXTENDS Integers, FiniteSets

CONSTANTS
    LastVersion,    \* migrations are 1..LastVersion
    TablesPer,      \* tables each of them creates, 1..TablesPer in the order of its script
    Migrators       \* processes that may run the tool

ASSUME MigrateAssumption == LastVersion \in Nat /\ TablesPer \in Nat \ {0}

Scripts == 1..LastVersion

VARIABLES
    schema,         \* tables there are, as <<version, table>>
    recorded,       \* schema_migrations
    tool,           \* tool[p]: [cmd, left, todo, done, redo]
    torn            \* history: versions whose rollback was begun and not recorded

migrateVars == <<schema, recorded, tool, torn>>

\* left: versions still to apply, the oldest first, or to roll back, the
\* newest first; done: statements of that one that were executed; redo: "up"
\* follows.
NoTool == [cmd |-> "none", left |-> {}, done |-> 0, redo |-> FALSE]

MigrateInit ==
    /\ schema = {}
    /\ recorded = {}
    /\ tool = [p \in Migrators |-> NoTool]
    /\ torn = {}

(***************************************************************************)
(* The command and the versions it works on, from the recorded ones.       *)
(***************************************************************************)
Newest(S, n) == {v \in S : Cardinality({u \in S : u > v}) < n}

upWork == [cmd |-> "up", left |-> Scripts \ recorded, done |-> 0, redo |-> FALSE]
downWork(n, redo) == [cmd |-> "down", left |-> Newest(recorded, n), done |-> 0, redo |-> redo]

\* Nobody starts a rollback, or anything beside a rollback, while the tool runs.
Alone(p) == \A q \in Migrators \ {p} : tool[q] = NoTool
run(p) ==
    /\ tool[p] = NoTool
    /\ \/ /\ \A q \in Migrators : tool[q].cmd # "down"
          /\ tool' = [tool EXCEPT ![p] = upWork]
       \/ Alone(p) /\ \E n \in Scripts : tool' = [tool EXCEPT ![p] = downWork(n, FALSE)]
       \/ Alone(p) /\ tool' = [tool EXCEPT ![p] = downWork(1, TRUE)]
    /\ UNCHANGED <<schema, recorded, torn>>

(***************************************************************************)
(* Scripts.                                                                *)
(***************************************************************************)
Busy(p, cmd) == tool[p].cmd = cmd /\ tool[p].left # {}
Script(p) ==
    CHOOSE v \in tool[p].left : \A u \in tool[p].left : IF tool[p].cmd = "up" THEN v <= u ELSE u <= v
Step(p) == tool' = [tool EXCEPT ![p].done = tool[p].done + 1]
\* The next version, or the end of the command; a redo then applies again.
NextScript(p) == tool' = [tool EXCEPT ![p].left = tool[p].left \ {Script(p)}, ![p].done = 0]
Fail(p) == tool' = [tool EXCEPT ![p] = NoTool]

\* CREATE TABLE without IF NOT EXISTS: a table that is there ends the run, and
\* so may one of an earlier version that is not, when it is referred to.
Complete(v) == \A i \in 1..TablesPer : <<v, i>> \in schema
SkipExisting(p) ==
    LET t == <<Script(p), tool[p].done + 1>> IN
    /\ Busy(p, "up") /\ tool[p].done < TablesPer
    /\ IF t \in schema /\ tool[p].done = 0 THEN NextScript(p) /\ UNCHANGED schema
       ELSE Step(p) /\ schema' = schema \cup {t}
    /\ UNCHANGED <<recorded, torn>>
execUp(p) ==
    LET t == <<Script(p), tool[p].done + 1>> IN
    /\ Busy(p, "up") /\ tool[p].done < TablesPer
    /\ \/ /\ t \in schema \/ \E v \in 1..(Script(p) - 1) : ~Complete(v)
          /\ Fail(p) /\ UNCHANGED schema
       \/ /\ t \notin schema
          /\ Step(p) /\ schema' = schema \cup {t}
    /\ UNCHANGED <<recorded, torn>>

\* INSERT of the version; a duplicate ends the run.
RecordBeforeScript(p) ==
    /\ Busy(p, "up")
    /\ recorded' = recorded \cup {Script(p)}
    /\ IF Script(p) \in recorded THEN Fail(p) ELSE NextScript(p)
    /\ UNCHANGED <<schema, torn>>
migrateUp(p) ==
    /\ Busy(p, "up") /\ tool[p].done = TablesPer
    /\ recorded' = recorded \cup {Script(p)}
    /\ IF Script(p) \in recorded THEN Fail(p) ELSE NextScript(p)
    /\ UNCHANGED <<schema, torn>>

\* DROP TABLE IF EXISTS, last table first; tables a later script has left
\* behind may refer to it, which ends the run.
execDown(p) ==
    LET v == Script(p)  t == <<v, TablesPer - tool[p].done>> IN
    /\ Busy(p, "down") /\ tool[p].done < TablesPer
    /\ \/ /\ \E u \in schema : u[1] > v
          /\ Fail(p) /\ UNCHANGED <<schema, torn>>
       \/ /\ Step(p)
          /\ schema' = schema \ {t}
          /\ torn' = torn \cup {v}
    /\ UNCHANGED recorded

migrateDown(p) ==
    LET v == Script(p) IN
    /\ Busy(p, "down") /\ tool[p].done = TablesPer
    /\ recorded' = recorded \ {v}
    /\ torn' = torn \ {v}
    /\ NextScript(p)
    /\ UNCHANGED schema

Finish(p) ==
    /\ tool[p].cmd # "none" /\ tool[p].left = {}
    /\ tool' = [tool EXCEPT ![p] = IF tool[p].redo THEN upWork ELSE NoTool]
    /\ UNCHANGED <<schema, recorded, torn>>

Stop(p) ==
    /\ tool[p] # NoTool
    /\ Fail(p)
    /\ UNCHANGED <<schema, recorded, torn>>

MigrateNext ==
    \E p \in Migrators : \/ run(p) \/ Finish(p) \/ Stop(p)
                         \/ execUp(p) \/ migrateUp(p)
                         \/ execDown(p) \/ migrateDown(p)

MigrateSpec == MigrateInit /\ [][MigrateNext]_migrateVars

(***************************************************************************)
(* Properties.                                                             *)
(***************************************************************************)
\* A recorded version is there as a whole, wherever runs were stopped and
\* however many "up" ran at once; only a rollback that was stopped leaves one
\* recorded in part (cmd/migrate/main.go:220-223), and nothing repairs it but
\* another rollback.
RecordedIsWhole ==
    \A v \in recorded : Complete(v) \/ v \in torn

\* The recorded versions are the first so many, also when a migration failed
\* for the tables an interrupted run of it had left behind.
RecordedInOrder == \A v \in recorded : \A u \in 1..(v - 1) : u \in recorded
=============================================================================
