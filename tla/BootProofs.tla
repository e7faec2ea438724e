----------------------------- MODULE BootProofs -----------------------------
(***************************************************************************)
(* What SupervisorProofs and PolicyProofs show of one labd, for labds that *)
(* are killed and started again.  A step of Boot is a step of Supervisor,  *)
(* the loss of the memory, the UPDATE of MarkStale, or the refusal of an   *)
(* unknown angel.  The memory takes the runners with it and leaves         *)
(* processes, starts and counts: ProcessesFollowStarts and RestartsCounted *)
(* survive, where ProcessesFollowRunners does not.                         *)
(*                                                                         *)
(* The last part counts: restart_count is at least the number of restarts  *)
(* that were done or asked for, over all entries of the id and all labds.  *)
(***************************************************************************)
EXTENDS Boot, PolicyProofs, FiniteSetTheorems

\* What SpawnAngel is given is an entry.
LEMMA SpawnableEntry ==
  ASSUME NEW a, Spawnable(a) # {}
  PROVE  (CHOOSE e \in Spawnable(a) : TRUE) \in Entry
BY DEF Spawnable

\* The end of a labd, killed or not yet started again.
Forgotten == MemoryLost /\ lab' \in {"running", "stopped"}

\* A labd of one boot does what Supervisor does: a SIGKILL of the boot is the exit
\* of a process, a respawn is a SpawnAngel.
LEMMA BootCases ==
  ASSUME TypeOK, [BootNext]_allVars
  PROVE  [Next]_vars \/ Crash \/ LabStarts \/ BootMarkStale \/ \E p \in Proc : RegisterUnknown(p)
<1>1. CASE UNCHANGED allVars
  BY <1>1 DEF allVars
<1>2. CASE Supervision
  BY <1>2 DEF Supervision, Next
<1>3. CASE ListRecoverable \/ RecoveryFails \/ Serve \/ ReloadList
  BY <1>3 DEF ListRecoverable, RecoveryFails, Serve, ReloadList
<1>4. ASSUME NEW r \in todo, KillStale(r[1], r[2]) \/ KillFails(r[1], r[2]) PROVE [Next]_vars
  <2>1. CASE KillFails(r[1], r[2])
    BY <2>1 DEF KillFails
  <2>2. CASE KillStale(r[1], r[2]) /\ r[2] \in Proc /\ Alive(r[2])
    <3>1. proc' = [proc EXCEPT ![r[2]] = "exited"]
      BY <2>2 DEF KillStale, TypeOK
    <3>2. Exit(r[2])
      BY <2>2, <3>1 DEF KillStale, Exit, Alive, runnerVars
    <3> QED
      BY <2>2, <3>2 DEF Next, Process
  <2>3. CASE KillStale(r[1], r[2]) /\ ~(r[2] \in Proc /\ Alive(r[2]))
    <3>1. proc' = proc
      BY <2>3 DEF KillStale, TypeOK
    <3> QED
      BY <2>3, <3>1 DEF KillStale, vars, procVars
  <2> QED
    BY <1>4, <2>1, <2>2, <2>3
<1>5. CASE Respawn
  BY <1>5, SpawnableEntry DEF Respawn, Next
<1>6. ASSUME NEW c \in Client, PickId(c) \/ CreatePicked(c) PROVE [Next]_vars
  BY <1>6 DEF PickId, CreatePicked, Spawnable, Next
<1>7. ASSUME NEW a \in Angel, ReloadSpawn(a) PROVE Next
  BY <1>7, SpawnableEntry DEF ReloadSpawn, Next
<1> QED
  BY <1>1, <1>2, <1>3, <1>4, <1>5, <1>6, <1>7 DEF BootNext, BootStep

\* The same with stuttering, which is how the invariants meet it.
LEMMA BootSteps ==
  ASSUME TypeOK, [BootNext]_allVars
  PROVE  [Next]_vars \/ Forgotten \/ BootMarkStale \/ \E p \in Proc : RegisterUnknown(p)
BY BootCases DEF Crash, LabStarts, Forgotten

\* What the loss of the memory leaves of the runners.
LEMMA ForgottenRunners ==
  ASSUME TypeOK, Forgotten
  PROVE  /\ UNCHANGED <<starts, proc, regCount>>
         /\ \A e \in Entry : rpc'[e] = IF rpc[e] = "unused" THEN "unused" ELSE "done"
BY DEF Forgotten, MemoryLost, regVars, procVars

\* The other two steps of Boot's own are nothing to runners and processes.
LEMMA BootFrame ==
  ASSUME BootMarkStale \/ \E p \in Proc : RegisterUnknown(p)
  PROVE  UNCHANGED <<starts, rpc, proc, regCount>>
BY DEF BootMarkStale, MarkStale, RegisterUnknown, runnerVars, procVars, regVars
-----------------------------------------------------------------------------
\* The supervisor's variables keep their types over a crash and a boot.
LEMMA TypeOverBoots == ASSUME TypeOK, [BootNext]_allVars PROVE TypeOK'
<1> USE SupervisorAssumption
     DEF TypeOK, CTTypeOK, ConnState, AngelState, RunnerPC, HandlerPC,
         ctVars, regVars, tableVars, entryVars, runnerVars, procVars, handlerVars, watchVars, stopVars
<1>1. CASE [Next]_vars
  BY <1>1, TypeStep
<1>2. CASE Forgotten
  BY <1>2 DEF Forgotten, MemoryLost
<1>3. CASE BootMarkStale
  BY <1>3 DEF BootMarkStale, MarkStale
<1>4. ASSUME NEW p \in Proc, RegisterUnknown(p) PROVE TypeOK'
  BY <1>4 DEF RegisterUnknown, HandlerAt
<1> QED
  BY <1>1, <1>2, <1>3, <1>4, BootSteps

\* Boot's own variables.
BootOwn == /\ bpc \in {"list", "mark", "respawn", "up"}
           /\ todo \subseteq Angel \X (Proc \cup {NoPid})
           /\ turn \in Angel \cup {NoAngel} /\ failed \in BOOLEAN
           /\ old \subseteq Entry
           /\ crashes \in 0 .. MaxCrashes
           /\ missed \subseteq Proc
           /\ pick \in [Client -> Angel \cup {NoAngel}]
           /\ made \in [Client -> Entry \cup {NoEntry}]
           /\ reload \subseteq Angel

LEMMA OwnStep == ASSUME TypeOK, BootOwn, [BootNext]_allVars PROVE BootOwn'
<1> USE BootAssumption DEF BootOwn, bootVars, recoveryVars, labdVars, clientVars
<1>1. CASE UNCHANGED allVars \/ Supervision \/ BootMarkStale \/ Serve
  BY <1>1 DEF allVars, Supervision, BootMarkStale, Serve, BootAt
<1>2. CASE Crash
  <2>1. failed' \in BOOLEAN
    BY <1>2 DEF Crash, MemoryLost
  <2> QED
    BY <1>2, <2>1 DEF Crash, MemoryLost, Missed
<1>3. CASE LabStarts
  BY <1>3 DEF LabStarts, MemoryLost
<1>4. CASE ListRecoverable \/ RecoveryFails \/ Respawn
  <2>1. CASE ListRecoverable
    BY <2>1 DEF ListRecoverable, BootAt, TypeOK
  <2>2. CASE RecoveryFails
    <3>1. failed' \in BOOLEAN
      BY <2>2 DEF RecoveryFails
    <3> QED
      BY <2>2, <3>1 DEF RecoveryFails, BootAt
  <2>3. CASE Respawn
    BY <2>3 DEF Respawn, BootAt
  <2> QED
    BY <1>4, <2>1, <2>2, <2>3
<1>5. ASSUME NEW r \in todo, KillStale(r[1], r[2]) \/ KillFails(r[1], r[2]) PROVE BootOwn'
  <2>1. r[1] \in Angel
    OBVIOUS
  <2> QED
    BY <1>5, <2>1 DEF KillStale, KillFails, Round, BootAt
<1>6. ASSUME NEW c \in Client, PickId(c) PROVE BootOwn'
  BY <1>6 DEF PickId
<1>7. ASSUME NEW c \in Client, CreatePicked(c) PROVE BootOwn'
  BY <1>7 DEF CreatePicked, Spawnable
<1>8. ASSUME ReloadList \/ \E a \in Angel : ReloadSpawn(a) PROVE BootOwn'
  BY <1>8 DEF ReloadList, ReloadSpawn
<1>9. ASSUME NEW p \in Proc, RegisterUnknown(p) PROVE BootOwn'
  BY <1>9 DEF RegisterUnknown
<1> QED
  BY <1>1, <1>2, <1>3, <1>4, <1>5, <1>6, <1>7, <1>8, <1>9 DEF BootNext, BootStep

LEMMA BootTyped == BootTypeOK <=> TypeOK /\ BootOwn
BY DEF BootTypeOK, BootOwn

LEMMA BootInitTyped == BootInit => TypeOK /\ BootOwn
<1>1. Init => TypeOK
  BY SupervisorAssumption DEF Init, TypeOK, CTInit, RegInit, CTTypeOK, ConnState,
     AngelState, RunnerPC, HandlerPC
<1>2. BootInit => failed \in BOOLEAN
  BY DEF BootInit
<1> QED
  BY <1>1, <1>2, BootAssumption DEF BootInit, BootOwn

\* Type correctness over all labds: a boot is given rows, entries and PIDs, and
\* the clients' requests and the count of crashes stay in their ranges (Crash,
\* BootRecovery, generateID, Reload).
THEOREM BootTypeCorrect == BootSpec => []BootTypeOK
<1>1. TypeOK /\ BootOwn /\ [BootNext]_allVars => TypeOK' /\ BootOwn'
  BY TypeOverBoots, OwnStep
<1> QED
  BY <1>1, BootInitTyped, BootTyped, PTL DEF BootSpec
-----------------------------------------------------------------------------
\* The invariants of one labd that a crash leaves intact.
LivesInv == ProcessesFollowStarts /\ RestartsCounted

LEMMA ForgottenLives ==
  ASSUME TypeOK, LivesInv, Forgotten
  PROVE  LivesInv'
<1>1. /\ UNCHANGED <<starts, proc, regCount>>
      /\ \A e \in Entry : rpc'[e] = IF rpc[e] = "unused" THEN "unused" ELSE "done"
  BY ForgottenRunners
<1>2. ProcessesFollowStarts'
  BY <1>1 DEF LivesInv, ProcessesFollowStarts, Running, Unpublished
<1>3. RestartsCounted'
  BY <1>1 DEF LivesInv, RestartsCounted, Counted
<1> QED
  BY <1>2, <1>3 DEF LivesInv

LEMMA LivesStep ==
  ASSUME TypeOK, LivesInv, [BootNext]_allVars, "dberror" \notin Stimuli
  PROVE  LivesInv'
<1>1. CASE [Next]_vars
  BY <1>1, StartsStep, CountedStep DEF LivesInv
<1>2. CASE Forgotten
  BY <1>2, ForgottenLives
<1>3. CASE BootMarkStale \/ \E p \in Proc : RegisterUnknown(p)
  BY <1>3, BootFrame DEF LivesInv, ProcessesFollowStarts, RestartsCounted
<1> QED
  BY <1>1, <1>2, <1>3, BootSteps

LEMMA LivesInit == BootInit => LivesInv
BY InitStarts, SupervisorAssumption DEF BootInit, Init, RegInit, LivesInv, RestartsCounted, Counted

\* The budget of a row outlasts labd: no runner, of whichever labd, starts more
\* than MaxRestarts processes, and none gets a fresh budget from a crash or a boot
\* (IncrementRestarts, MarkStale, BootRecovery).
THEOREM BudgetOutlastsLab ==
  "dberror" \notin Stimuli => (BootSpec => []StartsWithinBudget)
<1> SUFFICES ASSUME "dberror" \notin Stimuli PROVE BootSpec => []StartsWithinBudget
  OBVIOUS
<1>1. BootInit => StartsWithinBudget
  <2> SUFFICES ASSUME BootInit, NEW e \in Entry PROVE starts[e] <= 1
    BY DEF StartsWithinBudget
  <2>1. starts[e] = 0
    BY DEF BootInit, Init
  <2> QED
    BY <2>1
<1>2. TypeOK /\ LivesInv /\ StartsWithinBudget /\ [BootNext]_allVars => StartsWithinBudget'
  <2> SUFFICES ASSUME TypeOK, LivesInv, StartsWithinBudget, [BootNext]_allVars
               PROVE  StartsWithinBudget'
    OBVIOUS
  <2>1. CASE [Next]_vars
    BY <2>1, BudgetStep DEF LivesInv
  <2>2. CASE UNCHANGED starts
    BY <2>2 DEF StartsWithinBudget
  <2> QED
    BY <2>1, <2>2, BootSteps, BootFrame, ForgottenRunners
<1>3. TypeOK /\ BootOwn /\ LivesInv /\ [BootNext]_allVars => TypeOK' /\ BootOwn' /\ LivesInv'
  BY TypeOverBoots, OwnStep, LivesStep
<1> QED
  BY <1>1, <1>2, <1>3, BootInitTyped, LivesInit, PTL DEF BootSpec

\* The end of a labd ends every life that has begun, and stops no process.
LEMMA ForgottenIsAbandon ==
  ASSUME TypeOK, Forgotten
  PROVE  Policy!Abandon
<1>1. /\ UNCHANGED <<starts, proc>>
      /\ \A e \in Entry : rpc'[e] = IF rpc[e] = "unused" THEN "unused" ELSE "done"
  BY ForgottenRunners
<1>2. LifePhase' = [e \in Entry |-> IF LifePhase[e] = "idle" THEN "idle" ELSE "ended"]
  BY <1>1 DEF LifePhase, PhaseAt
<1>3. LifeUp' = LifeUp
  BY <1>1 DEF LifeUp, Alive
<1> QED
  BY <1>1, <1>2, <1>3 DEF Policy!Abandon

\* Over any number of labds an entry lives the life of RestartPolicy, cut short by
\* nothing but the end of its labd: one process at a time, none that is started by
\* a runner of a dead labd, none beyond the budget (runAngel, BootRecovery).
THEOREM CrashPolicyImplemented ==
  "dberror" \notin Stimuli => (BootSpec => ImplementsCrashPolicy)
<1> SUFFICES ASSUME "dberror" \notin Stimuli PROVE BootSpec => ImplementsCrashPolicy
  OBVIOUS
<1>1. BootInit => Policy!LifeInit
  BY DEF BootInit, Init, Policy!LifeInit, LifePhase, PhaseAt, LifeUp, Alive, Proc
<1>2. TypeOK /\ LivesInv /\ [BootNext]_allVars
        => [Policy!LifeNext \/ Policy!Abandon]_<<LifePhase, starts, LifeUp>>
  <2> SUFFICES ASSUME TypeOK, LivesInv, [BootNext]_allVars
               PROVE  [Policy!LifeNext \/ Policy!Abandon]_<<LifePhase, starts, LifeUp>>
    OBVIOUS
  <2>1. CASE [Next]_vars
    BY <2>1, PolicyStep DEF LivesInv
  <2>2. CASE Forgotten
    BY <2>2, ForgottenIsAbandon
  <2>3. CASE BootMarkStale \/ \E p \in Proc : RegisterUnknown(p)
    BY <2>3, BootFrame, LifeFrame
  <2> QED
    BY <2>1, <2>2, <2>3, BootSteps
<1>3. TypeOK /\ BootOwn /\ LivesInv /\ [BootNext]_allVars => TypeOK' /\ BootOwn' /\ LivesInv'
  BY TypeOverBoots, OwnStep, LivesStep
<1> QED
  BY <1>1, <1>2, <1>3, BootInitTyped, LivesInit, PTL
  DEF BootSpec, ImplementsCrashPolicy, Policy!CrashSpec, Policy!lifeVars
-----------------------------------------------------------------------------
\* The restarts of an id, each named by the entry and by the number of the process
\* it leads to: those that were done, and those of the runners at one of some
\* places, whose next process is still to come.
Slots == Entry \X (2 .. MaxStarts + 1)

RestartsAt(a, places) ==
  {p \in Slots : /\ Id[p[1]] = a
                 /\ p[2] <= starts[p[1]] \/ (p[2] = starts[p[1]] + 1 /\ rpc[p[1]] \in places)}

Claimed(a) == RestartsAt(a, {"readCount", "backoff", "start"})
Granted(a) == RestartsAt(a, {"backoff", "start"})

\* The strengthening of RestartsAreShared: each restart of an id, done or asked
\* for, has its own increment in the row, and no runner has gone on that read a
\* count at the limit.
SharedInv ==
  \A a \in Angel : /\ Cardinality(Claimed(a)) <= regCount[a]
                   /\ MaxRestarts > 0 => Cardinality(Granted(a)) <= MaxRestarts - 1

\* With finitely many calls of SpawnAngel there are finitely many slots.
LEMMA SlotSubsets ==
  ASSUME IsFiniteSet(Entry)
  PROVE  \A S \in SUBSET Slots :
           /\ IsFiniteSet(S) /\ Cardinality(S) \in Nat
           /\ \A T \in SUBSET S : Cardinality(T) <= Cardinality(S) /\ Cardinality(T) \in Nat
<1>1. IsFiniteSet(2 .. MaxStarts + 1)
  BY FS_Interval, SupervisorAssumption
<1>2. IsFiniteSet(Slots)
  BY <1>1, FS_Product DEF Slots
<1>3. ASSUME NEW S \in SUBSET Slots
      PROVE  IsFiniteSet(S) /\ Cardinality(S) \in Nat
  BY <1>2, FS_Subset, FS_CardinalityType
<1>4. ASSUME NEW S \in SUBSET Slots, NEW T \in SUBSET S
      PROVE  Cardinality(T) <= Cardinality(S) /\ Cardinality(T) \in Nat
  BY <1>3, FS_Subset
<1> QED
  BY <1>3, <1>4

\* A step that asks for no restart, and grants none.
LEMMA SharedShrinks ==
  ASSUME TypeOK, TypeOK', SharedInv, IsFiniteSet(Entry),
         \A a \in Angel : /\ Claimed(a)' \subseteq Claimed(a) /\ Granted(a)' \subseteq Granted(a)
                          /\ regCount[a] <= regCount'[a]
  PROVE  SharedInv'
<1> SUFFICES ASSUME NEW a \in Angel
             PROVE  /\ Cardinality(Claimed(a)') <= regCount'[a]
                    /\ MaxRestarts > 0 => Cardinality(Granted(a)') <= MaxRestarts - 1
  BY DEF SharedInv
<1>1. PICK c, d : c = Claimed(a)' /\ d = Granted(a)'
  OBVIOUS
<1>2. /\ c \in SUBSET Claimed(a) /\ d \in SUBSET Granted(a)
      /\ Claimed(a) \in SUBSET Slots /\ Granted(a) \in SUBSET Slots
  BY <1>1 DEF Claimed, Granted, RestartsAt
<1>3. /\ Cardinality(c) <= Cardinality(Claimed(a)) /\ Cardinality(d) <= Cardinality(Granted(a))
      /\ Cardinality(c) \in Nat /\ Cardinality(d) \in Nat
      /\ Cardinality(Claimed(a)) \in Nat /\ Cardinality(Granted(a)) \in Nat
  BY <1>2, SlotSubsets
<1>4. regCount[a] \in Nat /\ regCount'[a] \in Nat /\ regCount[a] <= regCount'[a] /\ MaxRestarts \in Nat
  BY SupervisorAssumption DEF TypeOK
<1>5. /\ Cardinality(Claimed(a)) <= regCount[a]
      /\ MaxRestarts > 0 => Cardinality(Granted(a)) <= MaxRestarts - 1
  BY DEF SharedInv
<1> QED
  BY <1>1, <1>3, <1>4, <1>5

\* The steps of a runner move one restart on, or drop it.
LEMMA SharedMoves ==
  ASSUME TypeOK, ProcessesFollowStarts, NEW e \in Entry,
         PublishEntry(e) \/ StartProcess(e) \/ Restart(e) \/ Uncounted(e)
  PROVE  \A a \in Angel : /\ Claimed(a)' \subseteq Claimed(a) /\ Granted(a)' \subseteq Granted(a)
                          /\ regCount[a] <= regCount'[a]
<1> USE SupervisorAssumption DEF TypeOK
<1>1. regCount' = regCount
  BY DEF PublishEntry, StartProcess, Restart, Uncounted, regVars
<1>2. ASSUME NEW f \in Entry, NEW k \in 2 .. MaxStarts + 1,
             NEW places \in {{"readCount", "backoff", "start"}, {"backoff", "start"}},
             k <= starts'[f] \/ (k = starts'[f] + 1 /\ rpc'[f] \in places)
      PROVE  k <= starts[f] \/ (k = starts[f] + 1 /\ rpc[f] \in places)
  <2>1. CASE f # e
    BY <1>2, <2>1 DEF PublishEntry, StartProcess, Restart, Uncounted, RunnerAt
  <2>2. CASE f = e /\ PublishEntry(e)
    BY <1>2, <2>2 DEF PublishEntry, RunnerAt, ProcessesFollowStarts, Unpublished
  <2>3. CASE f = e /\ StartProcess(e)
    <3>1. /\ rpc[e] = "start" /\ rpc' = [rpc EXCEPT ![e] = "markTraining"]
          /\ starts' = [starts EXCEPT ![e] = @ + 1]
      BY <2>3 DEF StartProcess, RunnerAt
    <3>2. /\ rpc'[e] = "markTraining" /\ starts'[e] = starts[e] + 1
          /\ starts[e] \in Nat
      BY <3>1
    <3>3. "start" \in places /\ "markTraining" \notin places
      BY <1>2
    <3>4. k <= starts[e] + 1
      BY <1>2, <2>3, <3>2, <3>3
    <3>5. k <= starts[e] \/ k = starts[e] + 1
      BY <1>2, <3>2, <3>4
    <3> QED
      BY <2>3, <3>1, <3>3, <3>5
  <2>4. CASE f = e /\ Restart(e)
    BY <1>2, <2>4 DEF Restart, RunnerAt
  <2>5. CASE f = e /\ Uncounted(e)
    BY <1>2, <2>5 DEF Uncounted, RunnerAt, Counted
  <2> QED
    BY <2>1, <2>2, <2>3, <2>4, <2>5
<1>3. \A a \in Angel : regCount[a] \in Nat /\ regCount[a] <= regCount'[a]
  BY <1>1
<1> QED
  BY <1>2, <1>3 DEF Claimed, Granted, RestartsAt, Slots

\* A restart is asked for with an increment of its own.
LEMMA SharedCount ==
  ASSUME TypeOK, SharedInv, IsFiniteSet(Entry), NEW e \in Entry, CountRestart(e)
  PROVE  SharedInv'
<1> USE SupervisorAssumption DEF TypeOK
<1>1. /\ rpc[e] = "increment" /\ rpc' = [rpc EXCEPT ![e] = "readCount"]
      /\ regCount' = [regCount EXCEPT ![Id[e]] = @ + 1] /\ starts' = starts
  BY DEF CountRestart, IncrementRestarts, RunnerAt
<1> SUFFICES ASSUME NEW a \in Angel
             PROVE  /\ Cardinality(Claimed(a)') <= regCount'[a]
                    /\ MaxRestarts > 0 => Cardinality(Granted(a)') <= MaxRestarts - 1
  BY DEF SharedInv
<1>2. /\ Cardinality(Claimed(a)) <= regCount[a] /\ regCount[a] \in Nat
      /\ MaxRestarts > 0 => Cardinality(Granted(a)) <= MaxRestarts - 1
  BY DEF SharedInv
<1>3. Granted(a)' = Granted(a)
  <2>1. \A f \in Entry : rpc'[f] \in {"backoff", "start"} <=> rpc[f] \in {"backoff", "start"}
    BY <1>1
  <2> QED
    BY <1>1, <2>1 DEF Granted, RestartsAt, Slots
<1>4. \A f \in Entry \ {e} : rpc'[f] = rpc[f]
  BY <1>1
<1> DEFINE new == <<e, starts[e] + 1>>
<1>5. Claimed(a) \in SUBSET Slots /\ IsFiniteSet(Claimed(a)) /\ Cardinality(Claimed(a)) \in Nat
  <2>1. Claimed(a) \in SUBSET Slots
    BY DEF Claimed, RestartsAt
  <2> QED
    BY <2>1, SlotSubsets
<1>6. PICK c : c = Claimed(a)'
  OBVIOUS
<1>7. c \in SUBSET Slots
  BY <1>6 DEF Claimed, RestartsAt
<1>8. CASE a = Id[e]
  <2>1. c \subseteq Claimed(a) \cup {new}
    <3> SUFFICES ASSUME NEW p \in c PROVE p \in Claimed(a) \cup {new}
      OBVIOUS
    <3>1. PICK f \in Entry, k \in 2 .. MaxStarts + 1 : p = <<f, k>>
      BY <1>7 DEF Slots
    <3>2. CASE f = e
      BY <1>1, <1>6, <1>7, <3>1, <3>2 DEF Claimed, RestartsAt
    <3>3. CASE f # e
      BY <1>1, <1>4, <1>6, <1>7, <3>1, <3>3 DEF Claimed, RestartsAt
    <3> QED
      BY <3>2, <3>3
  <2>2. Cardinality(Claimed(a) \cup {new}) \in {Cardinality(Claimed(a)), Cardinality(Claimed(a)) + 1}
        /\ IsFiniteSet(Claimed(a) \cup {new})
    BY <1>5, FS_AddElement
  <2>3. Cardinality(c) <= Cardinality(Claimed(a) \cup {new}) /\ Cardinality(c) \in Nat
    BY <1>7, <2>1, <2>2, FS_Subset, SlotSubsets
  <2>4. regCount'[a] = regCount[a] + 1
    BY <1>1, <1>8
  <2> HIDE DEF new
  <2> QED
    BY <1>2, <1>3, <1>5, <1>6, <2>2, <2>3, <2>4
<1>9. CASE a # Id[e]
  <2>1. c = Claimed(a)
    <3>1. \A p \in Slots : Id[p[1]] = a => rpc'[p[1]] = rpc[p[1]]
      BY <1>4, <1>9 DEF Slots
    <3> QED
      BY <1>1, <1>6, <3>1 DEF Claimed, RestartsAt
  <2>2. regCount'[a] = regCount[a]
    BY <1>1, <1>9
  <2> QED
    BY <1>2, <1>3, <1>6, <2>1, <2>2
<1> QED
  BY <1>8, <1>9

\* It is granted while the count that the runner reads, its own increment and those
\* of the others among it, is below the limit.
LEMMA SharedRead ==
  ASSUME TypeOK, SharedInv, IsFiniteSet(Entry), NEW e \in Entry, ReadCount(e)
  PROVE  SharedInv'
<1> USE SupervisorAssumption DEF TypeOK
<1>1. /\ rpc[e] = "readCount" /\ rpc' = [rpc EXCEPT ![e] = AfterCount(regCount[Id[e]])]
      /\ UNCHANGED <<regCount, starts>>
  BY DEF ReadCount, RunnerAt, regVars
<1>2. /\ \A f \in Entry \ {e} : rpc'[f] = rpc[f]
      /\ rpc'[e] = IF regCount[Id[e]] >= MaxRestarts THEN "contain" ELSE "backoff"
  BY <1>1 DEF AfterCount
<1> SUFFICES ASSUME NEW a \in Angel
             PROVE  /\ Cardinality(Claimed(a)') <= regCount'[a]
                    /\ MaxRestarts > 0 => Cardinality(Granted(a)') <= MaxRestarts - 1
  BY DEF SharedInv
<1>3. PICK c, d : c = Claimed(a)' /\ d = Granted(a)'
  OBVIOUS
<1>4. \A f \in Entry : rpc'[f] \in {"readCount", "backoff", "start"}
                         => rpc[f] \in {"readCount", "backoff", "start"}
  BY <1>1, <1>2
<1>5. c \in SUBSET Claimed(a) /\ d \in SUBSET Claimed(a)
  BY <1>1, <1>3, <1>4 DEF Claimed, Granted, RestartsAt, Slots
<1>6. Claimed(a) \in SUBSET Slots /\ Granted(a) \in SUBSET Slots
  BY DEF Claimed, Granted, RestartsAt
<1>7. /\ Cardinality(Claimed(a)) \in Nat /\ Cardinality(c) \in Nat /\ Cardinality(d) \in Nat
      /\ Cardinality(c) <= Cardinality(Claimed(a)) /\ Cardinality(d) <= Cardinality(Claimed(a))
  BY <1>5, <1>6, SlotSubsets
<1>8. /\ Cardinality(Claimed(a)) <= regCount[a] /\ regCount[a] \in Nat /\ MaxRestarts \in Nat
      /\ MaxRestarts > 0 => Cardinality(Granted(a)) <= MaxRestarts - 1
  BY DEF SharedInv
<1>9. CASE a = Id[e] /\ regCount[a] < MaxRestarts
  BY <1>1, <1>3, <1>7, <1>8, <1>9
<1>10. CASE ~(a = Id[e] /\ regCount[a] < MaxRestarts)
  <2>1. \A f \in Entry : Id[f] = a /\ rpc'[f] \in {"backoff", "start"} => rpc[f] \in {"backoff", "start"}
    BY <1>2, <1>10
  <2>2. d \in SUBSET Granted(a)
    BY <1>1, <1>3, <2>1 DEF Granted, RestartsAt, Slots
  <2>3. Cardinality(d) <= Cardinality(Granted(a)) /\ Cardinality(Granted(a)) \in Nat
    BY <1>6, <2>2, SlotSubsets
  <2> QED
    BY <1>1, <1>3, <1>7, <1>8, <2>3
<1> QED
  BY <1>9, <1>10

LEMMA SharedStep ==
  ASSUME TypeOK, TypeOK', ProcessesFollowStarts, SharedInv, [BootNext]_allVars,
         IsFiniteSet(Entry), "dberror" \notin Stimuli
  PROVE  SharedInv'
<1>1. ASSUME UNCHANGED <<starts, regCount>>,
             \A e \in Entry : rpc'[e] \in {rpc[e], "done"}
      PROVE  SharedInv'
  <2>1. \A a \in Angel : /\ Claimed(a)' \subseteq Claimed(a) /\ Granted(a)' \subseteq Granted(a)
                         /\ regCount[a] <= regCount'[a]
    BY <1>1 DEF Claimed, Granted, RestartsAt, Slots, TypeOK
  <2> QED
    BY <2>1, SharedShrinks
<1>2. CASE Forgotten
  BY <1>1, <1>2, ForgottenRunners
<1>3. CASE BootMarkStale \/ \E p \in Proc : RegisterUnknown(p)
  BY <1>1, <1>3, BootFrame
<1>4. CASE [Next]_vars
  <2>1. CASE UNCHANGED <<starts, rpc, regCount>>
    BY <1>1, <2>1
  <2>2. ASSUME NEW e \in Entry, PublishEntry(e) \/ StartProcess(e) \/ Restart(e) \/ Uncounted(e)
        PROVE  SharedInv'
    BY <2>2, SharedMoves, SharedShrinks
  <2>3. ASSUME NEW e \in Entry, CountFails(e) PROVE FALSE
    BY <2>3 DEF CountFails
  <2> QED
    BY <1>4, <2>1, <2>2, <2>3, SharedCount, SharedRead, BudgetSteps
<1> QED
  BY <1>2, <1>3, <1>4, BootSteps

LEMMA SharedInit == BootInit => SharedInv
<1> SUFFICES ASSUME BootInit, NEW a \in Angel
             PROVE  /\ Cardinality(Claimed(a)) <= regCount[a]
                    /\ MaxRestarts > 0 => Cardinality(Granted(a)) <= MaxRestarts - 1
  BY DEF SharedInv
<1>1. /\ \A e \in Entry : starts[e] = 0 /\ rpc[e] = "unused"
      /\ regCount[a] = 0
  BY DEF BootInit, Init, RegInit
<1>2. Claimed(a) = {} /\ Granted(a) = {}
  BY <1>1 DEF Claimed, Granted, RestartsAt, Slots
<1> QED
  BY <1>1, <1>2, FS_EmptySet, SupervisorAssumption

\* A process is the first of its entry or one that a restart led to.
LEMMA SharedEnough ==
  ASSUME TypeOK, ProcessesFollowStarts, SharedInv, IsFiniteSet(Entry)
  PROVE  RestartsAreShared
<1> SUFFICES ASSUME MaxRestarts > 0, NEW a \in Angel
             PROVE  Cardinality({p \in Proc : Owner(p) = a /\ proc[p] # "unused"})
                      <= Cardinality({e \in Entry : Id[e] = a /\ starts[e] > 0}) + (MaxRestarts - 1)
  BY DEF RestartsAreShared
<1> DEFINE U == {p \in Proc : Owner(p) = a /\ proc[p] # "unused"}
           B == {e \in Entry : Id[e] = a /\ starts[e] > 0}
           F == {<<e, 1>> : e \in B}
           G == Granted(a)
<1>1. U \subseteq F \cup G
  <2> SUFFICES ASSUME NEW e \in Entry, NEW k \in 1 .. MaxStarts,
                      Id[e] = a, proc[<<e, k>>] # "unused", k # 1
               PROVE  <<e, k>> \in G
    <3>1. ASSUME NEW e \in Entry, NEW k \in 1 .. MaxStarts, Id[e] = a, proc[<<e, k>>] # "unused"
          PROVE  k <= starts[e]
      BY <3>1, SupervisorAssumption DEF ProcessesFollowStarts, TypeOK
    <3>2. ASSUME NEW e \in Entry, Id[e] = a, proc[<<e, 1>>] # "unused", 1 \in 1 .. MaxStarts
          PROVE  <<e, 1>> \in F
      BY <3>1, <3>2, SupervisorAssumption DEF TypeOK
    <3> HIDE DEF F, G
    <3> QED
      BY <3>2 DEF Proc, Owner
  <2>1. k <= starts[e] /\ k \in 2 .. MaxStarts + 1
    BY SupervisorAssumption DEF ProcessesFollowStarts, TypeOK
  <2> QED
    BY <2>1 DEF Granted, RestartsAt, Slots
<1>2. IsFiniteSet(B) /\ Cardinality(B) \in Nat
  BY FS_Subset, FS_CardinalityType
<1>3. IsFiniteSet(F) /\ Cardinality(F) <= Cardinality(B) /\ Cardinality(F) \in Nat
  <2> DEFINE first == [e \in B |-> <<e, 1>>]
  <2>1. first \in Surjection(B, F)
    BY DEF Surjection
  <2> HIDE DEF first, F, B
  <2> QED
    BY <1>2, <2>1, FS_Surjection, FS_CardinalityType
<1>4. IsFiniteSet(G) /\ Cardinality(G) \in Nat /\ Cardinality(G) <= MaxRestarts - 1
  <2>1. G \in SUBSET Slots
    BY DEF Granted, RestartsAt
  <2> QED
    BY <2>1, SlotSubsets DEF SharedInv
<1> HIDE DEF U, B, F, G
<1>5. /\ IsFiniteSet(F \cup G) /\ Cardinality(F \cup G) \in Nat
      /\ Cardinality(F \cup G) = Cardinality(F) + Cardinality(G) - Cardinality(F \cap G)
      /\ Cardinality(F \cap G) \in Nat
  <2>1. IsFiniteSet(F \cap G)
    BY <1>3, FS_Intersection
  <2> QED
    BY <1>3, <1>4, <2>1, FS_Union, FS_CardinalityType
<1>6. Cardinality(U) <= Cardinality(F \cup G) /\ Cardinality(U) \in Nat
  BY <1>1, <1>5, FS_Subset, FS_CardinalityType
<1>7. MaxRestarts \in Nat
  BY SupervisorAssumption
<1>8. Cardinality(U) <= Cardinality(B) + (MaxRestarts - 1)
  BY <1>2, <1>3, <1>4, <1>5, <1>6, <1>7
<1> QED
  BY <1>8 DEF U, B

\* The runners of an id restart it at most MaxRestarts - 1 times between them,
\* over all labds, however their UPDATEs and SELECTs interleave and wherever a
\* crash cuts one off (IncrementRestarts, runAngel).
THEOREM RestartsShared ==
  "dberror" \notin Stimuli /\ IsFiniteSet(Entry) => (BootSpec => []RestartsAreShared)
<1> SUFFICES ASSUME "dberror" \notin Stimuli, IsFiniteSet(Entry)
             PROVE  BootSpec => []RestartsAreShared
  OBVIOUS
<1>1. TypeOK /\ BootOwn /\ LivesInv /\ SharedInv /\ [BootNext]_allVars
        => TypeOK' /\ BootOwn' /\ LivesInv' /\ SharedInv'
  BY TypeOverBoots, OwnStep, LivesStep, SharedStep DEF LivesInv
<1>2. TypeOK /\ LivesInv /\ SharedInv => RestartsAreShared
  BY SharedEnough DEF LivesInv
<1> QED
  BY <1>1, <1>2, BootInitTyped, LivesInit, SharedInit, PTL DEF BootSpec
=============================================================================
