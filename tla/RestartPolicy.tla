--------------------------- MODULE RestartPolicy ---------------------------
(***************************************************************************)
(* What the supervision promises of one SpawnAngel, without rows, links,   *)
(* handlers and timers: a life that begins, in which one process runs at a *)
(* time, each of the next ones is started only after the last has exited   *)
(* and while the budget lasts, and that ends for good, with no process     *)
(* left behind.  Supervisor implements it (ImplementsPolicy); under        *)
(* crashes of labd Boot implements the weaker CrashSpec, where a life may  *)
(* end and leave its process.                                              *)
(***************************************************************************)
EXTENDS Naturals

CONSTANTS Life,         \* one per SpawnAngel
          MaxRestarts   \* Supervisor.MaxRestarts

VARIABLES phase,        \* phase[l]: "idle", "begun", "ended"
          runs,         \* runs[l]: processes started so far
          up            \* the lives whose last process has not exited

lifeVars == <<phase, runs, up>>

\* The first process of a life is started whatever the budget says.
Budget == IF MaxRestarts = 0 THEN 1 ELSE MaxRestarts

LifeInit == /\ phase = [l \in Life |-> "idle"]
            /\ runs = [l \in Life |-> 0]
            /\ up = {}

Begin(l) == /\ phase[l] = "idle"
            /\ phase' = [phase EXCEPT ![l] = "begun"]
            /\ UNCHANGED <<runs, up>>

Start(l) == /\ phase[l] = "begun" /\ l \notin up
            /\ runs[l] < Budget
            /\ runs' = [runs EXCEPT ![l] = @ + 1]
            /\ up' = up \cup {l}
            /\ UNCHANGED phase

Stop(l) == /\ l \in up
           /\ up' = up \ {l}
           /\ UNCHANGED <<phase, runs>>

End(l) == /\ phase[l] = "begun" /\ l \notin up
          /\ phase' = [phase EXCEPT ![l] = "ended"]
          /\ UNCHANGED <<runs, up>>

\* labd dies: the lives that had begun are over, whatever runs.
Abandon == /\ phase' = [l \in Life |-> IF phase[l] = "idle" THEN "idle" ELSE "ended"]
           /\ UNCHANGED <<runs, up>>

LifeNext == \E l \in Life : Begin(l) \/ Start(l) \/ Stop(l) \/ End(l)

LifeSpec == LifeInit /\ [][LifeNext]_lifeVars
CrashSpec == LifeInit /\ [][LifeNext \/ Abandon]_lifeVars
=============================================================================
