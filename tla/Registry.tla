------------------------------ MODULE Registry ------------------------------
(***************************************************************************)
(* The angels table of pkg/registry/registry.go.  The database has one     *)
(* connection, so every SQL statement is one step; an operation of two     *)
(* statements is two.  Columns that no decision reads (type, timestamps,   *)
(* last_seen, the configuration) are left out.                             *)
(***************************************************************************)
EXTENDS Naturals

CONSTANTS Angel,    \* angel identifiers, the primary key
          NoPid     \* pid = 0: no process

\* The states of a row; ABSENT says that there is no row.
AngelState == {"CREATED", "TRAINING", "ACTIVE", "UNSTABLE", "CONTAINED", "TERMINATED"}
ABSENT == "ABSENT"

VARIABLES
  regState,     \* regState[a]: the state column, or ABSENT
  regPid,       \* regPid[a]: the pid column
  regCount      \* regCount[a]: the restart_count column

regVars == <<regState, regPid, regCount>>

RegInit == /\ regState = [a \in Angel |-> ABSENT]
           /\ regPid = [a \in Angel |-> NoPid]
           /\ regCount = [a \in Angel |-> 0]
-----------------------------------------------------------------------------
\* InsertAngel, whose error SpawnAngel drops (it fails on an existing row), and the
\* UpdateState(CREATED) that follows it: restart_count and pid of an existing
\* row survive.
UpsertCreated(a) ==
  /\ regState' = [regState EXCEPT ![a] = "CREATED"]
  /\ UNCHANGED <<regPid, regCount>>

\* UPDATE angels SET state = s WHERE id = a: there is no condition on the state it
\* overwrites, and without a row it does nothing and reports no error.
UpdateState(a, s) ==
  /\ regState' = [regState EXCEPT ![a] = IF @ = ABSENT THEN @ ELSE s]
  /\ UNCHANGED <<regPid, regCount>>

UpdatePID(a, p) ==
  /\ regPid' = [regPid EXCEPT ![a] = IF regState[a] = ABSENT THEN @ ELSE p]
  /\ UNCHANGED <<regState, regCount>>

\* MarkStale at boot: all rows but the TERMINATED ones, and their PIDs.
MarkStale ==
  LET stale == {a \in Angel : regState[a] \notin {ABSENT, "TERMINATED"}}
  IN  /\ regState' = [a \in Angel |-> IF a \in stale THEN "CREATED" ELSE regState[a]]
      /\ regPid' = [a \in Angel |-> IF a \in stale THEN NoPid ELSE regPid[a]]
      /\ UNCHANGED regCount

\* The UPDATE of IncrementRestarts; the SELECT that reads the count back is a
\* statement of its own (ReadCount in Supervisor).  Without a row the SELECT
\* fails (CountFails there).
IncrementRestarts(a) ==
  /\ regState[a] # ABSENT
  /\ regCount' = [regCount EXCEPT ![a] = @ + 1]
  /\ UNCHANGED <<regState, regPid>>
=============================================================================
