-------------------------- MODULE SupervisorProofs --------------------------
(***************************************************************************)
(* Theorems about Supervisor, for any number of angels and entries, any    *)
(* restart limit, any bound on starts and any set of stimuli, save where a *)
(* theorem names the condition it needs.                                   *)
(*                                                                         *)
(* An inductive invariant usually concerns few variables, and most actions *)
(* leave these alone.  So each is preceded by a lemma (RunnerSteps,        *)
(* BudgetSteps, ...) that sorts the actions of Next into those that matter *)
(* to it and a frame condition that all the others satisfy.                *)
(***************************************************************************)
EXTENDS Supervisor, TLAPS

\* The parts of a process name.
LEMMA OwnerType == \A p \in Proc : p[1] \in Entry /\ Owner(p) \in Angel
BY SupervisorAssumption DEF Proc, Owner

\* The values that stand for no connection and no PID name no process.
LEMMA NotAProcess == NoConn \notin Proc /\ NoPid \notin Proc
BY SupervisorAssumption DEF Proc

\* A transition of a tracker, allowed or refused, leaves a state of the tracker.
LEMMA TransitionType ==
  ASSUME ct \in [Entry -> ConnState], NEW e \in Entry \cup {NoEntry}, NEW c \in ConnState, Transition(e, c)
  PROVE  ct' \in [Entry -> ConnState] /\ UNCHANGED <<armed, expiry>>
<1>1. CASE e \in Entry
  BY <1>1 DEF Transition
<1>2. CASE e \notin Entry
  BY <1>2 DEF Transition
<1> QED
  BY <1>1, <1>2

\* A write of a state, done or failed, leaves states in the column and the other columns alone.
LEMMA StoreType ==
  ASSUME regState \in [Angel -> AngelState \cup {ABSENT}]
  PROVE  \A a \in Angel : \A s \in AngelState : StoreState(a, s) =>
           /\ regState' \in [Angel -> AngelState \cup {ABSENT}]
           /\ UNCHANGED <<regPid, regCount>>
<1>1. SUFFICES ASSUME NEW a \in Angel, NEW s \in AngelState, StoreState(a, s)
               PROVE  /\ regState' \in [Angel -> AngelState \cup {ABSENT}]
                      /\ UNCHANGED <<regPid, regCount>>
  OBVIOUS
<1>2. CASE UpdateState(a, s)
  BY <1>2 DEF UpdateState
<1>3. CASE WriteFails
  BY <1>3 DEF WriteFails, regVars
<1> QED
  BY <1>1, <1>2, <1>3 DEF StoreState

\* Every action keeps the types: TypeOK is inductive by itself.
LEMMA TypeStep == ASSUME TypeOK, [Next]_vars PROVE TypeOK'
<1> USE SupervisorAssumption
     DEF TypeOK, CTTypeOK, ConnState, AngelState, RunnerPC, HandlerPC, Proc, RunnerAt, HandlerAt,
         ctVars, regVars, tableVars, entryVars, runnerVars, procVars, handlerVars, watchVars, stopVars
<1>0. \A a \in Angel : \A s \in AngelState : StoreState(a, s) =>
        /\ regState' \in [Angel -> AngelState \cup {ABSENT}]
        /\ UNCHANGED <<regPid, regCount>>
  BY StoreType
<1>1. CASE UNCHANGED vars
  BY <1>1 DEF vars
<1>2. ASSUME NEW e \in Entry, SpawnAngel(e) PROVE TypeOK'
  BY <1>2 DEF SpawnAngel, UpsertCreated, WriteFails, Transition
<1>3. ASSUME NEW e \in Entry, PublishEntry(e) PROVE TypeOK'
  BY <1>3 DEF PublishEntry
<1>4. ASSUME NEW e \in Entry, StartProcess(e) PROVE TypeOK'
  BY <1>4 DEF StartProcess
<1>5. ASSUME NEW e \in Entry, StartFails(e) PROVE TypeOK'
  BY <1>5, <1>0 DEF StartFails
<1>6. ASSUME NEW e \in Entry, MarkTraining(e) PROVE TypeOK'
  <2>1. /\ regState' \in [Angel -> AngelState \cup {ABSENT}]
        /\ UNCHANGED <<regPid, regCount>>
    BY <1>6, <1>0 DEF MarkTraining, StoreState
  <2>2. unrecorded' \subseteq Proc \cup {NoPid}
    BY <1>6 DEF MarkTraining, Pid
  <2> QED
    BY <1>6, <2>1, <2>2 DEF MarkTraining
<1>7. ASSUME NEW e \in Entry, MarkPid(e) PROVE TypeOK'
  <2>0. Id[e] \in Angel /\ Pid(e) \in Proc \cup {NoPid}
    BY DEF Pid
  <2>1. /\ regPid' \in [Angel -> Proc \cup {NoPid}]
        /\ UNCHANGED <<regState, regCount>>
    <3>1. CASE UpdatePID(Id[e], Pid(e))
      BY <2>0, <3>1 DEF UpdatePID
    <3>2. CASE WriteFails
      BY <3>2 DEF WriteFails
    <3> QED
      BY <1>7, <3>1, <3>2 DEF MarkPid
  <2>2. unrecorded' \subseteq Proc \cup {NoPid}
    BY <1>7 DEF MarkPid, Pid
  <2> QED
    BY <1>7, <2>1, <2>2 DEF MarkPid
<1>8. ASSUME NEW e \in Entry, ProcessExits(e) PROVE TypeOK'
  BY <1>8 DEF ProcessExits
<1>9. ASSUME NEW e \in Entry, ApplyPolicy(e) PROVE TypeOK'
  BY <1>9 DEF ApplyPolicy
<1>10. ASSUME NEW e \in Entry, PauseOver(e) PROVE TypeOK'
  BY <1>10 DEF PauseOver
<1>11. ASSUME NEW e \in Entry, RunnerCancelled(e) PROVE TypeOK'
  BY <1>11, <1>0 DEF RunnerCancelled
<1>12. ASSUME NEW e \in Entry, CountRestart(e) PROVE TypeOK'
  BY <1>12 DEF CountRestart, IncrementRestarts
<1>13. ASSUME NEW e \in Entry, ReadCount(e) PROVE TypeOK'
  BY <1>13 DEF ReadCount, AfterCount
<1>14. ASSUME NEW e \in Entry, CountFails(e) PROVE TypeOK'
  BY <1>14 DEF CountFails, AfterCount
<1>15. ASSUME NEW e \in Entry, Contain(e) PROVE TypeOK'
  BY <1>15, <1>0 DEF Contain
<1>16. ASSUME NEW e \in Entry, Restart(e) PROVE TypeOK'
  BY <1>16 DEF Restart, ResetTracker
<1>17. ASSUME NEW e \in Entry, RecoveryTimerFires(e) PROVE TypeOK'
  BY <1>17 DEF RecoveryTimerFires, TimerFires
<1>18. ASSUME NEW e \in Entry, RecoveryTimerChecks(e) PROVE TypeOK'
  BY <1>18 DEF RecoveryTimerChecks, CheckWindow
<1>19. ASSUME NEW e \in Entry, KillUnresponsive(e) PROVE TypeOK'
  BY <1>19 DEF KillUnresponsive, WindowExpired, Signalled
<1>20. ASSUME NEW e \in Entry, HeartbeatAges(e) PROVE TypeOK'
  BY <1>20 DEF HeartbeatAges
<1>21. ASSUME NEW e \in Entry, FindStale(e) PROVE TypeOK'
  BY <1>21 DEF FindStale
<1>22. ASSUME NEW p \in Proc, Connect(p) PROVE TypeOK'
  BY <1>22 DEF Connect
<1>23. ASSUME NEW p \in Proc, SendHeartbeat(p) PROVE TypeOK'
  BY <1>23 DEF SendHeartbeat
<1>24. ASSUME NEW p \in Proc, Hang(p) PROVE TypeOK'
  BY <1>24 DEF Hang
<1>25. ASSUME NEW p \in Proc, Exit(p) PROVE TypeOK'
  BY <1>25 DEF Exit
<1>26. ASSUME NEW p \in Proc, BindConn(p) PROVE TypeOK'
  BY <1>26 DEF BindConn
<1>27. ASSUME NEW p \in Proc, MarkConnLost(p) PROVE TypeOK'
  BY <1>27, OwnerType DEF MarkConnLost
<1>28. ASSUME NEW p \in Proc, OpenWindow(p) PROVE TypeOK'
  BY <1>28, ZenonT(60) DEF OpenWindow, MarkLost
<1>29. ASSUME NEW p \in Proc, RegisterConn(p) PROVE TypeOK'
  BY <1>29, OwnerType DEF RegisterConn, MarkRecovered
<1>30. ASSUME NEW p \in Proc, PersistTraining(p) PROVE TypeOK'
  <2>1. /\ regState' \in [Angel -> AngelState \cup {ABSENT}]
        /\ UNCHANGED <<regPid, regCount>>
    BY <1>30, <1>0, OwnerType DEF PersistTraining
  <2>2. hpc' \in [Proc -> HandlerPC]
    BY <1>30 DEF PersistTraining, NextFrame
  <2>3. ct' \in [Entry -> ConnState] /\ UNCHANGED <<armed, expiry>>
    BY <1>30, TransitionType DEF PersistTraining
  <2> QED
    BY <1>30, <2>1, <2>2, <2>3 DEF PersistTraining
<1>31. ASSUME NEW p \in Proc, HandleHeartbeat(p) PROVE TypeOK'
  <2>1. current[Owner(p)] \in Entry \cup {NoEntry}
    BY OwnerType
  <2>2. unread' \in [Proc -> 0 .. MaxUnread]
    BY <1>31 DEF HandleHeartbeat
  <2>3. hpc' \in [Proc -> HandlerPC] /\ hentry' \in [Proc -> Entry \cup {NoEntry}]
    BY <1>31, <2>1 DEF HandleHeartbeat, NextFrame
  <2>4. state' \in [Entry -> AngelState] /\ lastHb' \in [Entry -> {"zero", "fresh", "stale"}]
    BY <1>31, <2>1 DEF HandleHeartbeat
  <2> QED
    BY <1>31, <2>2, <2>3, <2>4 DEF HandleHeartbeat
<1>32. ASSUME NEW p \in Proc, PersistActive(p) PROVE TypeOK'
  <2>1. /\ regState' \in [Angel -> AngelState \cup {ABSENT}]
        /\ UNCHANGED <<regPid, regCount>>
    BY <1>32, <1>0, OwnerType DEF PersistActive
  <2>2. hpc' \in [Proc -> HandlerPC]
    BY <1>32 DEF PersistActive, NextFrame
  <2>3. ct' \in [Entry -> ConnState] /\ UNCHANGED <<armed, expiry>>
    BY <1>32, TransitionType DEF PersistActive
  <2> QED
    BY <1>32, <2>1, <2>2, <2>3 DEF PersistActive
<1>33. CASE MarkUnstable
  BY <1>33 DEF MarkUnstable
<1>34. CASE PersistUnstable
  BY <1>34, <1>0 DEF PersistUnstable
<1>35. CASE Cancel
  BY <1>35 DEF Cancel
<1>36. CASE TerminateAll
  BY <1>36 DEF TerminateAll
<1>37. CASE LabExits
  BY <1>37 DEF LabExits
<1>38. ASSUME NEW a \in Angel, NEW caller \in {"cli", "sweep"}, TerminateAngel(a, caller)
      PROVE  TypeOK'
  BY <1>38 DEF TerminateAngel, Signalled
<1>39. ASSUME NEW a \in Angel, PersistTerminated(a) PROVE TypeOK'
  BY <1>39, <1>0 DEF PersistTerminated
<1> HIDE SupervisorAssumption
    DEF TypeOK, CTTypeOK, ConnState, AngelState, RunnerPC, HandlerPC, Proc, RunnerAt, HandlerAt,
        ctVars, regVars, tableVars, entryVars, runnerVars, procVars, handlerVars, watchVars, stopVars
<1>40. ASSUME NEW e \in Entry, Runner(e) PROVE TypeOK'
  BY <1>40, <1>3, <1>4, <1>6, <1>7, <1>8, <1>9, <1>10, <1>11, <1>12, <1>13, <1>14, <1>15, <1>16
     DEF Runner
<1>41. ASSUME NEW e \in Entry, Timer(e) PROVE TypeOK'
  BY <1>41, <1>17, <1>18, <1>19 DEF Timer
<1>42. ASSUME NEW p \in Proc, Process(p) PROVE TypeOK'
  BY <1>42, <1>22, <1>23, <1>24, <1>25 DEF Process
<1>43. ASSUME NEW p \in Proc, Handler(p) PROVE TypeOK'
  BY <1>43, <1>26, <1>27, <1>28, <1>29, <1>30, <1>31, <1>32 DEF Handler
<1>44. ASSUME Watcher PROVE TypeOK'
  BY <1>44, <1>21, <1>33, <1>34 DEF Watcher
<1> QED
  BY <1>1, <1>2, <1>5, <1>20, <1>35, <1>36, <1>37, <1>38, <1>39, <1>40, <1>41, <1>42,
     <1>43, <1>44 DEF Next

\* Type correctness: whatever the callers and the processes do, every field of
\* the table, the rows and the trackers holds a value of its type.
THEOREM TypeCorrect == Spec => []TypeOK
<1>1. Init => TypeOK
  BY SupervisorAssumption DEF Init, TypeOK, CTInit, RegInit, CTTypeOK, ConnState,
     AngelState, RunnerPC, HandlerPC
<1> QED
  BY <1>1, TypeStep, PTL DEF Spec

-----------------------------------------------------------------------------
\* The runner of an entry has a process; the entry is not in the table yet.
Running == {"markTraining", "markPid", "wait"}
Unpublished == {"unused", "publish"}

\* A step of runAngel that neither starts a process nor sees one exit.
RunnerMoves(e) ==
  \E from, to \in RunnerPC :
    /\ RunnerAt(e, from, to)
    /\ from # "done" /\ to # "unused" /\ (from = "unused" => to = "publish")
    /\ from \in Running <=> to \in Running
    /\ to \in Unpublished => from \in Unpublished
    /\ UNCHANGED <<starts, proc>>

\* Which steps touch the runners and the processes.
LEMMA RunnerSteps ==
  ASSUME TypeOK, [Next]_vars
  PROVE  \/ UNCHANGED <<starts, rpc, proc>>
         \/ \E e \in Entry : StartProcess(e) \/ ProcessExits(e) \/ RunnerMoves(e)
         \/ \E p \in Proc : Hang(p) \/ Exit(p)
<1> USE DEF runnerVars, procVars, RunnerPC, Running, Unpublished
<1>1. ASSUME NEW e \in Entry,
             \/ SpawnAngel(e) \/ PublishEntry(e) \/ StartFails(e) \/ MarkTraining(e) \/ MarkPid(e)
             \/ PauseOver(e) \/ CountRestart(e) \/ Contain(e) \/ Restart(e)
      PROVE  RunnerMoves(e)
  BY <1>1 DEF RunnerMoves, SpawnAngel, PublishEntry, StartFails, MarkTraining, MarkPid,
     PauseOver, CountRestart, Contain, Restart
<1>2. ASSUME NEW e \in Entry,
             ApplyPolicy(e) \/ RunnerCancelled(e) \/ ReadCount(e) \/ CountFails(e)
      PROVE  RunnerMoves(e)
  BY <1>2 DEF RunnerMoves, ApplyPolicy, RunnerCancelled, ReadCount, CountFails, AfterCount
<1>3. ASSUME NEW e \in Entry, Timer(e) \/ HeartbeatAges(e) PROVE UNCHANGED <<starts, rpc, proc>>
  BY <1>3 DEF Timer, RecoveryTimerFires, RecoveryTimerChecks, KillUnresponsive, HeartbeatAges
<1>4. ASSUME NEW p \in Proc, Connect(p) \/ SendHeartbeat(p) \/ Handler(p)
      PROVE  UNCHANGED <<starts, rpc, proc>>
  BY <1>4 DEF Connect, SendHeartbeat, Handler, RegisterConn, BindConn, PersistTraining,
     HandleHeartbeat, PersistActive, MarkConnLost, OpenWindow
<1>5. ASSUME Watcher PROVE UNCHANGED <<starts, rpc, proc>>
  BY <1>5 DEF Watcher, FindStale, MarkUnstable, PersistUnstable
<1>6. ASSUME NEW a \in Angel, PersistTerminated(a) \/ \E c \in {"cli", "sweep"} : TerminateAngel(a, c)
      PROVE  UNCHANGED <<starts, rpc, proc>>
  BY <1>6 DEF PersistTerminated, TerminateAngel
<1>7. ASSUME Cancel \/ TerminateAll \/ LabExits PROVE UNCHANGED <<starts, rpc, proc>>
  BY <1>7 DEF Cancel, TerminateAll, LabExits
<1>8. CASE UNCHANGED vars
  BY <1>8 DEF vars
<1> QED
  BY <1>1, <1>2, <1>3, <1>4, <1>5, <1>6, <1>7, <1>8 DEF Next, Runner, Process

\* The strengthening of LiveProcessHasRunner: an entry starts its processes in
\* order, and all but the newest have been waited for.
ProcessesFollowRunners ==
  \A e \in Entry :
    /\ rpc[e] \in Unpublished => starts[e] = 0
    /\ rpc[e] \in Running => starts[e] > 0
    /\ \A k \in 1 .. MaxStarts :
         /\ k > starts[e] => proc[<<e, k>>] = "unused"
         /\ (k < starts[e] \/ (k = starts[e] /\ rpc[e] \notin Running))
              => proc[<<e, k>>] = "exited"

\* A live process is the newest of its entry and its runner has it.
LEMMA LiveIsNewest ==
  ASSUME TypeOK, ProcessesFollowRunners, NEW e \in Entry, NEW k \in 1 .. MaxStarts,
         Alive(<<e, k>>)
  PROVE  k = starts[e] /\ rpc[e] \in Running
<1>1. starts[e] \in Nat /\ k \in Nat /\ k > 0
  BY SupervisorAssumption DEF TypeOK
<1>2. proc[<<e, k>>] \notin {"unused", "exited"}
  BY DEF Alive
<1> QED
  BY <1>1, <1>2 DEF ProcessesFollowRunners

\* ProcessesFollowRunners is inductive.
LEMMA FollowStep ==
  ASSUME TypeOK, ProcessesFollowRunners, [Next]_vars
  PROVE  ProcessesFollowRunners'
<1> USE SupervisorAssumption DEF ProcessesFollowRunners, TypeOK, Running, Unpublished, Proc
<1>1. CASE UNCHANGED <<starts, rpc, proc>>
  BY <1>1
<1>2. ASSUME NEW e \in Entry, StartProcess(e) PROVE ProcessesFollowRunners'
  <2>1. /\ rpc[e] = "start" /\ rpc' = [rpc EXCEPT ![e] = "markTraining"]
        /\ starts' = [starts EXCEPT ![e] = @ + 1]
        /\ proc' = [proc EXCEPT ![<<e, starts[e] + 1>>] = "up"]
    BY <1>2 DEF StartProcess, RunnerAt
  <2> QED
    BY <2>1, SMTT(40)
<1>3. ASSUME NEW e \in Entry, ProcessExits(e) PROVE ProcessesFollowRunners'
  <2>1. /\ rpc[e] = "wait" /\ rpc' = [rpc EXCEPT ![e] = "exited"]
        /\ UNCHANGED <<starts, proc>>
    BY <1>3 DEF ProcessExits, RunnerAt, procVars
  <2>2. proc[<<e, starts[e]>>] = "exited"
    BY <1>3, <2>1 DEF ProcessExits, Pid
  <2>3. ASSUME NEW f \in Entry, NEW k \in 1 .. MaxStarts,
               k < starts[f] \/ (k = starts[f] /\ rpc'[f] \notin Running)
        PROVE  proc[<<f, k>>] = "exited"
    <3>1. CASE f = e /\ k = starts[f]
      BY <2>2, <3>1
    <3>2. CASE ~(f = e /\ k = starts[f])
      BY <2>1, <2>3, <3>2
    <3> QED
      BY <3>1, <3>2
  <2> QED
    BY <2>1, <2>3
<1>4. ASSUME NEW e \in Entry, RunnerMoves(e) PROVE ProcessesFollowRunners'
  BY <1>4 DEF RunnerMoves, RunnerAt
<1>5. ASSUME NEW p \in Proc, Hang(p) \/ Exit(p) PROVE ProcessesFollowRunners'
  <2>1. PICK e \in Entry, k \in 1 .. MaxStarts : p = <<e, k>>
    BY DEF Proc
  <2>2. Alive(p) /\ UNCHANGED <<starts, rpc>> /\ \E v \in {"hung", "exited"} : proc' = [proc EXCEPT ![p] = v]
    BY <1>5 DEF Hang, Exit, Alive, runnerVars
  <2>3. k = starts[e] /\ rpc[e] \in Running
    BY <2>1, <2>2, LiveIsNewest
  <2>4. \A f \in Entry : \A m \in 1 .. MaxStarts : <<f, m>> # <<e, k>> => proc'[<<f, m>>] = proc[<<f, m>>]
    BY <2>1, <2>2
  <2> QED
    BY <2>2, <2>3, <2>4
<1> QED
  BY <1>1, <1>2, <1>3, <1>4, <1>5, RunnerSteps

\* No process at the start.
LEMMA InitFollows == Init => ProcessesFollowRunners
<1> SUFFICES ASSUME Init PROVE ProcessesFollowRunners
  OBVIOUS
<1>1. \A e \in Entry : starts[e] = 0 /\ rpc[e] = "unused"
  BY DEF Init
<1>2. ASSUME NEW e \in Entry, NEW k \in 1 .. MaxStarts
      PROVE  proc[<<e, k>>] = "unused" /\ k \in Nat /\ k > 0
  BY SupervisorAssumption DEF Init, Proc
<1>3. ASSUME NEW e \in Entry, NEW k \in 1 .. MaxStarts
      PROVE  ~(k < starts[e]) /\ k # starts[e]
  BY <1>1, <1>2
<1> QED
  BY <1>1, <1>2, <1>3 DEF ProcessesFollowRunners, Running, Unpublished

\* Every live process has a runner that will see its exit (runAngel), so an entry
\* never has two: for any number of entries under one id.
THEOREM Supervised == Spec => []LiveProcessHasRunner
<1>1. TypeOK /\ ProcessesFollowRunners => LiveProcessHasRunner
  <2> SUFFICES ASSUME TypeOK, ProcessesFollowRunners, NEW p \in Proc, Alive(p)
               PROVE  p = Pid(p[1]) /\ rpc[p[1]] \in Running
    BY DEF LiveProcessHasRunner, Running
  <2>1. PICK e \in Entry, k \in 1 .. MaxStarts : p = <<e, k>>
    BY DEF Proc
  <2>2. k = starts[e] /\ k # 0 /\ rpc[e] \in Running
    BY <2>1, LiveIsNewest, SupervisorAssumption
  <2> QED
    BY <2>1, <2>2 DEF Pid
<1> QED
  BY <1>1, InitFollows, FollowStep, TypeCorrect, PTL DEF Spec

-----------------------------------------------------------------------------
\* What remains of ProcessesFollowRunners when labd may die: a runner that is done
\* may have left its newest process behind.
ProcessesFollowStarts ==
  \A e \in Entry :
    /\ rpc[e] \in Unpublished => starts[e] = 0
    /\ rpc[e] \in Running => starts[e] > 0
    /\ \A k \in 1 .. MaxStarts :
         /\ k > starts[e] => proc[<<e, k>>] = "unused"
         /\ (k < starts[e] \/ (k = starts[e] /\ rpc[e] \notin Running \cup {"done"}))
              => proc[<<e, k>>] = "exited"

\* A live process is the newest of its entry, and its runner has it or is done.
LEMMA LiveIsNewestStart ==
  ASSUME TypeOK, ProcessesFollowStarts, NEW e \in Entry, NEW k \in 1 .. MaxStarts,
         Alive(<<e, k>>)
  PROVE  k = starts[e] /\ rpc[e] \in Running \cup {"done"}
<1>1. starts[e] \in Nat /\ k \in Nat /\ k > 0
  BY SupervisorAssumption DEF TypeOK
<1>2. proc[<<e, k>>] \notin {"unused", "exited"}
  BY DEF Alive
<1> QED
  BY <1>1, <1>2 DEF ProcessesFollowStarts

\* ProcessesFollowStarts is inductive too.
LEMMA StartsStep ==
  ASSUME TypeOK, ProcessesFollowStarts, [Next]_vars
  PROVE  ProcessesFollowStarts'
<1> USE SupervisorAssumption DEF ProcessesFollowStarts, TypeOK, Running, Unpublished, Proc
<1>1. CASE UNCHANGED <<starts, rpc, proc>>
  BY <1>1
<1>2. ASSUME NEW e \in Entry, StartProcess(e) PROVE ProcessesFollowStarts'
  <2>1. /\ rpc[e] = "start" /\ rpc' = [rpc EXCEPT ![e] = "markTraining"]
        /\ starts' = [starts EXCEPT ![e] = @ + 1]
        /\ proc' = [proc EXCEPT ![<<e, starts[e] + 1>>] = "up"]
    BY <1>2 DEF StartProcess, RunnerAt
  <2> QED
    BY <2>1, SMTT(40)
<1>3. ASSUME NEW e \in Entry, ProcessExits(e) PROVE ProcessesFollowStarts'
  <2>1. /\ rpc[e] = "wait" /\ rpc' = [rpc EXCEPT ![e] = "exited"]
        /\ UNCHANGED <<starts, proc>>
    BY <1>3 DEF ProcessExits, RunnerAt, procVars
  <2>2. proc[<<e, starts[e]>>] = "exited"
    BY <1>3, <2>1 DEF ProcessExits, Pid
  <2>3. ASSUME NEW f \in Entry, NEW k \in 1 .. MaxStarts,
               k < starts[f] \/ (k = starts[f] /\ rpc'[f] \notin Running \cup {"done"})
        PROVE  proc[<<f, k>>] = "exited"
    <3>1. CASE f = e /\ k = starts[f]
      BY <2>2, <3>1
    <3>2. CASE ~(f = e /\ k = starts[f])
      BY <2>1, <2>3, <3>2
    <3> QED
      BY <3>1, <3>2
  <2> QED
    BY <2>1, <2>3
<1>4. ASSUME NEW e \in Entry, RunnerMoves(e) PROVE ProcessesFollowStarts'
  BY <1>4 DEF RunnerMoves, RunnerAt
<1>5. ASSUME NEW p \in Proc, Hang(p) \/ Exit(p) PROVE ProcessesFollowStarts'
  <2>1. PICK e \in Entry, k \in 1 .. MaxStarts : p = <<e, k>>
    BY DEF Proc
  <2>2. Alive(p) /\ UNCHANGED <<starts, rpc>> /\ \E v \in {"hung", "exited"} : proc' = [proc EXCEPT ![p] = v]
    BY <1>5 DEF Hang, Exit, Alive, runnerVars
  <2>3. k = starts[e] /\ rpc[e] \in Running \cup {"done"}
    BY <2>1, <2>2, LiveIsNewestStart
  <2>4. \A f \in Entry : \A m \in 1 .. MaxStarts : <<f, m>> # <<e, k>> => proc'[<<f, m>>] = proc[<<f, m>>]
    BY <2>1, <2>2
  <2> QED
    BY <2>2, <2>3, <2>4
<1> QED
  BY <1>1, <1>2, <1>3, <1>4, <1>5, RunnerSteps

LEMMA InitStarts == Init => ProcessesFollowStarts
BY InitFollows DEF ProcessesFollowRunners, ProcessesFollowStarts

-----------------------------------------------------------------------------
\* Where the last start of a runner has been counted in the row.
Counted == {"readCount", "contain", "backoff", "start"}

\* A step of runAngel to a place where its last start need not be counted.
Uncounted(e) ==
  \E from \in RunnerPC, to \in RunnerPC \ Counted :
    RunnerAt(e, from, to) /\ UNCHANGED <<starts, regCount>>

\* Which steps touch the runners and the counts.
LEMMA BudgetSteps ==
  ASSUME TypeOK, [Next]_vars
  PROVE  \/ UNCHANGED <<starts, rpc, regCount>>
         \/ \E e \in Entry : \/ PublishEntry(e) \/ StartProcess(e) \/ CountRestart(e)
                             \/ ReadCount(e) \/ CountFails(e) \/ Restart(e) \/ Uncounted(e)
<1> USE DEF runnerVars, regVars, RunnerPC, Counted
<1>1. ASSUME NEW e \in Entry,
             SpawnAngel(e) \/ StartFails(e) \/ MarkTraining(e) \/ MarkPid(e) \/ ProcessExits(e)
      PROVE  Uncounted(e)
  BY <1>1 DEF Uncounted, SpawnAngel, UpsertCreated, StartFails, MarkTraining, MarkPid,
     ProcessExits, StoreState, UpdateState, WriteFails, UpdatePID
<1>2. ASSUME NEW e \in Entry,
             ApplyPolicy(e) \/ PauseOver(e) \/ RunnerCancelled(e) \/ Contain(e)
      PROVE  Uncounted(e)
  BY <1>2 DEF Uncounted, ApplyPolicy, PauseOver, RunnerCancelled, Contain, StoreState, UpdateState, WriteFails
<1>3. ASSUME NEW e \in Entry, Timer(e) \/ HeartbeatAges(e)
      PROVE  UNCHANGED <<starts, rpc, regCount>>
  BY <1>3 DEF Timer, RecoveryTimerFires, RecoveryTimerChecks, KillUnresponsive, HeartbeatAges
<1>4. ASSUME NEW p \in Proc, Process(p) \/ Handler(p)
      PROVE  UNCHANGED <<starts, rpc, regCount>>
  BY <1>4 DEF Process, Connect, SendHeartbeat, Hang, Exit, Handler, RegisterConn, BindConn,
     PersistTraining, HandleHeartbeat, PersistActive, MarkConnLost, OpenWindow, StoreState, UpdateState, WriteFails
<1>5. ASSUME Watcher PROVE UNCHANGED <<starts, rpc, regCount>>
  BY <1>5 DEF Watcher, FindStale, MarkUnstable, PersistUnstable, StoreState, UpdateState, WriteFails
<1>6. ASSUME NEW a \in Angel, PersistTerminated(a) \/ \E c \in {"cli", "sweep"} : TerminateAngel(a, c)
      PROVE  UNCHANGED <<starts, rpc, regCount>>
  BY <1>6 DEF PersistTerminated, TerminateAngel, StoreState, UpdateState, WriteFails
<1>7. ASSUME Cancel \/ TerminateAll \/ LabExits PROVE UNCHANGED <<starts, rpc, regCount>>
  BY <1>7 DEF Cancel, TerminateAll, LabExits
<1>8. CASE UNCHANGED vars
  BY <1>8 DEF vars
<1> QED
  BY <1>1, <1>2, <1>3, <1>4, <1>5, <1>6, <1>7, <1>8 DEF Next, Runner

\* The strengthening of StartsWithinBudget: the row counts all starts of a runner
\* but the one that is running, and a runner that goes on has budget left.  The
\* other runners of the id only raise the count.
RestartsCounted ==
  \A e \in Entry :
    /\ starts[e] <= regCount[Id[e]] + 1
    /\ rpc[e] \in Counted => starts[e] <= regCount[Id[e]]
    /\ rpc[e] = "backoff" => starts[e] < MaxRestarts
    /\ rpc[e] = "start" => starts[e] = 0 \/ starts[e] < MaxRestarts

\* RestartsCounted is inductive when no UPDATE of the count fails.
LEMMA CountedStep ==
  ASSUME TypeOK, ProcessesFollowStarts, RestartsCounted, [Next]_vars,
         "dberror" \notin Stimuli
  PROVE  RestartsCounted'
<1> USE SupervisorAssumption DEF RestartsCounted, TypeOK, Counted, RunnerAt
<1>1. CASE UNCHANGED <<starts, rpc, regCount>>
  BY <1>1
<1>2. ASSUME NEW e \in Entry, PublishEntry(e) PROVE RestartsCounted'
  BY <1>2 DEF PublishEntry, ProcessesFollowStarts, Unpublished, regVars
<1>3. ASSUME NEW e \in Entry, StartProcess(e) PROVE RestartsCounted'
  BY <1>3 DEF StartProcess, regVars
<1>4. ASSUME NEW e \in Entry, CountRestart(e) PROVE RestartsCounted'
  BY <1>4 DEF CountRestart, IncrementRestarts
<1>5. ASSUME NEW e \in Entry, ReadCount(e) PROVE RestartsCounted'
  BY <1>5 DEF ReadCount, AfterCount, regVars
<1>6. ASSUME NEW e \in Entry, CountFails(e) PROVE RestartsCounted'
  BY <1>6 DEF CountFails
<1>7. ASSUME NEW e \in Entry, Restart(e) PROVE RestartsCounted'
  BY <1>7 DEF Restart, regVars
<1>8. ASSUME NEW e \in Entry, Uncounted(e) PROVE RestartsCounted'
  BY <1>8 DEF Uncounted
<1> QED
  BY <1>1, <1>2, <1>3, <1>4, <1>5, <1>6, <1>7, <1>8, BudgetSteps

\* With it, a start stays within the budget.
LEMMA BudgetStep ==
  ASSUME TypeOK, RestartsCounted, StartsWithinBudget, [Next]_vars
  PROVE  StartsWithinBudget'
<1> USE SupervisorAssumption DEF StartsWithinBudget, TypeOK
<1>1. CASE UNCHANGED starts
  BY <1>1
<1>2. ASSUME NEW e \in Entry, StartProcess(e) PROVE StartsWithinBudget'
  BY <1>2 DEF StartProcess, RestartsCounted, RunnerAt
<1> QED
  BY <1>1, <1>2, RunnerSteps DEF ProcessExits, RunnerMoves, Hang, Exit, runnerVars

\* No runner starts more than max_restarts processes (runAngel), provided that the
\* database does not fail: with "dberror" the restarts of an angel have no bound.
THEOREM Budgeted == "dberror" \notin Stimuli => (Spec => []StartsWithinBudget)
<1> SUFFICES ASSUME "dberror" \notin Stimuli PROVE Spec => []StartsWithinBudget
  OBVIOUS
<1>1. Init => ProcessesFollowStarts /\ RestartsCounted /\ StartsWithinBudget
  BY InitStarts, SupervisorAssumption
  DEF Init, RegInit, RestartsCounted, StartsWithinBudget, Counted
<1>2. TypeOK /\ ProcessesFollowStarts /\ RestartsCounted /\ StartsWithinBudget /\ [Next]_vars
        => ProcessesFollowStarts' /\ RestartsCounted' /\ StartsWithinBudget'
  BY StartsStep, CountedStep, BudgetStep
<1> QED
  BY <1>1, <1>2, TypeCorrect, PTL DEF Spec

-----------------------------------------------------------------------------
\* Nobody spawns an id twice.  SpawnAngel does not look, so this is an assumption
\* on the callers; two clients that create angels at once break it.
OneEntryPerId == \A e, f \in Entry : Id[e] = Id[f] => e = f

\* The strengthening of LiveProcessIsRecorded: from UpdateState(TRAINING) to the
\* exit nobody shows the angel as one that has not been started, or is given up,
\* unless that statement failed.
RowNamesProcess ==
  \A e \in Entry : Pid(e) \notin unrecorded =>
    /\ rpc[e] = "wait" /\ regState[Id[e]] # ABSENT => regPid[Id[e]] = Pid(e)
    /\ rpc[e] \in {"markPid", "wait"} => regState[Id[e]] \notin {"CREATED", "CONTAINED"}

\* A step of runAngel to where no PID counts. It may write the state of its row.
RunnerElsewhere(e) ==
  /\ \E from \in RunnerPC, to \in RunnerPC \ {"markPid", "wait"} : RunnerAt(e, from, to)
  /\ \A f \in Entry \ {e} : starts'[f] = starts[f]
  /\ \A a \in Angel \ {Id[e]} : regState'[a] = regState[a]
  /\ UNCHANGED <<regPid, unrecorded>>

\* What the handlers, the watcher and the operators may do to a row: its state
\* becomes that of a started angel, if there is a row.
RowShown ==
  \A a \in Angel : \/ regState'[a] = regState[a]
                   \/ regState[a] # ABSENT /\ regState'[a] \notin {ABSENT, "CREATED", "CONTAINED"}

\* Which steps touch the runners and the rows.
LEMMA PidSteps ==
  ASSUME TypeOK, [Next]_vars
  PROVE  \/ UNCHANGED <<starts, rpc, regPid, unrecorded>> /\ RowShown
         \/ \E e \in Entry : MarkTraining(e) \/ MarkPid(e) \/ RunnerElsewhere(e)
<1> DEFINE Still == UNCHANGED <<starts, rpc, regPid, unrecorded>> /\ RowShown
<1> USE DEF runnerVars, procVars, regVars, TypeOK
<1>1. ASSUME NEW e \in Entry,
             SpawnAngel(e) \/ PublishEntry(e) \/ StartProcess(e) \/ StartFails(e)
             \/ ProcessExits(e) \/ ApplyPolicy(e)
      PROVE  RunnerElsewhere(e)
  BY <1>1 DEF RunnerElsewhere, SpawnAngel, UpsertCreated, PublishEntry, StartProcess, RunnerPC,
     StartFails, ProcessExits, ApplyPolicy, StoreState, UpdateState, WriteFails
<1>2. ASSUME NEW e \in Entry,
             PauseOver(e) \/ RunnerCancelled(e) \/ CountRestart(e) \/ ReadCount(e)
             \/ CountFails(e) \/ Contain(e) \/ Restart(e)
      PROVE  RunnerElsewhere(e)
  BY <1>2 DEF RunnerElsewhere, PauseOver, RunnerCancelled, CountRestart, IncrementRestarts, RunnerPC,
     ReadCount, CountFails, AfterCount, Contain, Restart, StoreState, UpdateState, WriteFails
<1>3. ASSUME NEW a \in Angel, NEW v \in {"TRAINING", "ACTIVE", "UNSTABLE", "TERMINATED"},
             StoreState(a, v)
      PROVE  RowShown /\ UNCHANGED regPid
  BY <1>3 DEF RowShown, StoreState, UpdateState, WriteFails, ABSENT
<1>4. ASSUME UNCHANGED regVars PROVE RowShown /\ UNCHANGED regPid
  BY <1>4 DEF RowShown
<1>5. ASSUME NEW e \in Entry, Timer(e) \/ HeartbeatAges(e) PROVE Still
  BY <1>4, <1>5 DEF Timer, RecoveryTimerFires, RecoveryTimerChecks, KillUnresponsive, HeartbeatAges
<1>6. ASSUME NEW p \in Proc, Process(p) PROVE Still
  BY <1>4, <1>6 DEF Process, Connect, SendHeartbeat, Hang, Exit
<1>7. ASSUME NEW p \in Proc, Handler(p) PROVE Still
  BY <1>3, <1>4, <1>7, OwnerType DEF Handler, RegisterConn, BindConn, PersistTraining,
     HandleHeartbeat, PersistActive, MarkConnLost, OpenWindow
<1>8. ASSUME Watcher PROVE Still
  BY <1>3, <1>4, <1>8, SupervisorAssumption DEF Watcher, FindStale, MarkUnstable, PersistUnstable
<1>9. ASSUME NEW a \in Angel, PersistTerminated(a) \/ \E c \in {"cli", "sweep"} : TerminateAngel(a, c)
      PROVE  Still
  BY <1>3, <1>4, <1>9 DEF PersistTerminated, TerminateAngel
<1>10. ASSUME Cancel \/ TerminateAll \/ LabExits PROVE Still
  BY <1>4, <1>10 DEF Cancel, TerminateAll, LabExits
<1>11. CASE UNCHANGED vars
  BY <1>4, <1>11 DEF vars
<1> QED
  BY <1>1, <1>2, <1>5, <1>6, <1>7, <1>8, <1>9, <1>10, <1>11 DEF Next, Runner

\* RowNamesProcess is inductive.
LEMMA RowStep ==
  ASSUME TypeOK, RowNamesProcess, OneEntryPerId, [Next]_vars
  PROVE  RowNamesProcess'
<1> USE SupervisorAssumption DEF RowNamesProcess, TypeOK, RunnerAt, Pid
<1>1. CASE UNCHANGED <<starts, rpc, regPid, unrecorded>> /\ RowShown
  BY <1>1 DEF RowShown
<1>2. ASSUME NEW e \in Entry, MarkPid(e) PROVE RowNamesProcess'
  <2>1. /\ rpc[e] = "markPid" /\ rpc' = [rpc EXCEPT ![e] = "wait"] /\ UNCHANGED <<starts, regState>>
        /\ unrecorded \subseteq unrecorded'
        /\ \A a \in Angel \ {Id[e]} : regPid'[a] = regPid[a]
        /\ \/ Pid(e) \in unrecorded' \/ regState[Id[e]] = ABSENT \/ regPid'[Id[e]] = Pid(e)
    BY <1>2 DEF MarkPid, UpdatePID, WriteFails, regVars, runnerVars
  <2> QED
    BY <2>1 DEF OneEntryPerId
<1>3. ASSUME NEW e \in Entry, MarkTraining(e) PROVE RowNamesProcess'
  <2>1. /\ rpc' = [rpc EXCEPT ![e] = "markPid"] /\ UNCHANGED <<starts, regPid>>
        /\ unrecorded \subseteq unrecorded'
        /\ \A a \in Angel \ {Id[e]} : regState'[a] = regState[a]
        /\ \/ Pid(e) \in unrecorded' \/ regState'[Id[e]] \in {ABSENT, "TRAINING"}
    BY <1>3 DEF MarkTraining, UpdateState, WriteFails, regVars
  <2>2. ASSUME NEW f \in Entry, f # e
        PROVE  rpc'[f] = rpc[f] /\ starts'[f] = starts[f] /\ regState'[Id[f]] = regState[Id[f]]
    BY <2>1, <2>2 DEF OneEntryPerId
  <2>3. rpc'[e] = "markPid" /\ starts'[e] = starts[e]
    BY <2>1
  <2> QED
    BY <2>1, <2>2, <2>3 DEF ABSENT
<1>4. ASSUME NEW e \in Entry, RunnerElsewhere(e) PROVE RowNamesProcess'
  BY <1>4 DEF RunnerElsewhere, OneEntryPerId
<1> QED
  BY <1>1, <1>2, <1>3, <1>4, PidSteps

\* The row of an id names its live process and shows it started, from UpdatePID
\* to the exit, whatever else of the writes fails: a boot after a crash of labd
\* finds it, unless one of the two statements that record it failed, and its
\* error was dropped (runAngel, UpdateState, UpdatePID).
THEOREM Recorded == OneEntryPerId => (Spec => []LiveProcessIsRecorded)
<1> SUFFICES ASSUME OneEntryPerId PROVE Spec => []LiveProcessIsRecorded
  OBVIOUS
<1>1. Init => RowNamesProcess
  BY DEF Init, RowNamesProcess
<1>2. TypeOK /\ RowNamesProcess /\ LiveProcessHasRunner => LiveProcessIsRecorded
  <2> SUFFICES ASSUME RowNamesProcess, LiveProcessHasRunner, LabUp, NEW p \in Proc, Alive(p),
                      rpc[p[1]] = "wait", p \notin unrecorded, regState[Owner(p)] # ABSENT
               PROVE  regPid[Owner(p)] = p /\ regState[Owner(p)] \notin {"CREATED", "CONTAINED"}
    BY DEF LiveProcessIsRecorded
  <2> QED
    BY OwnerType DEF LiveProcessHasRunner, RowNamesProcess, Owner
<1>3. TypeOK /\ RowNamesProcess /\ [Next]_vars => RowNamesProcess'
  BY RowStep
<1> QED
  BY <1>1, <1>2, <1>3, TypeCorrect, Supervised, PTL DEF Spec

-----------------------------------------------------------------------------
\* The handler of a connection is past RegisterConn's lookup.
Registered(p) == hpc[p] \notin {"none", "first"}
Served == {"persistTraining", "loop", "persistActive"}

\* The strengthening of ConnIsServed: the table, the handlers and the connections
\* relate entries to processes of the same id, and only published entries.
LinksAreKnown ==
  /\ \A a \in Angel : current[a] # NoEntry =>
       Id[current[a]] = a /\ rpc[current[a]] \notin Unpublished
  /\ \A p \in Proc : Registered(p) => /\ current[Owner(p)] # NoEntry
                                      /\ hentry[p] # NoEntry
  /\ \A p \in Proc : hentry[p] # NoEntry =>
       Id[hentry[p]] = Owner(p) /\ rpc[hentry[p]] \notin Unpublished
  /\ \A e \in Entry : \A p \in Proc : conn[e] = p =>
       Id[e] = Owner(p) /\ rpc[e] \notin Unpublished

\* A step that at most drops a connection.
RunnerKeepsLinks ==
  /\ UNCHANGED <<current, hpc, hentry>>
  /\ \A e \in Entry : rpc[e] \notin Unpublished => rpc'[e] \notin Unpublished
  /\ \A e \in Entry : conn'[e] \in {conn[e], NoConn}
  /\ Cancelled => Cancelled'

\* Which steps touch the table, the handlers and the connections.
LEMMA LinkSteps ==
  ASSUME TypeOK, [Next]_vars
  PROVE  \/ RunnerKeepsLinks
         \/ \E e \in Entry : PublishEntry(e)
         \/ \E p \in Proc : Connect(p) \/ Handler(p)
<1> USE DEF TypeOK, Unpublished, RunnerKeepsLinks, RunnerAt, Cancelled, tableVars, entryVars, runnerVars,
     handlerVars, stopVars
<1>1. ASSUME NEW e \in Entry,
             SpawnAngel(e) \/ StartProcess(e) \/ StartFails(e) \/ MarkTraining(e) \/ MarkPid(e)
             \/ ProcessExits(e) \/ ApplyPolicy(e)
      PROVE  RunnerKeepsLinks
  BY <1>1 DEF SpawnAngel, StartProcess, StartFails, MarkTraining, MarkPid, ProcessExits, ApplyPolicy
<1>2. ASSUME NEW e \in Entry,
             PauseOver(e) \/ RunnerCancelled(e) \/ CountRestart(e) \/ ReadCount(e)
             \/ CountFails(e) \/ Contain(e) \/ Restart(e)
      PROVE  RunnerKeepsLinks
  BY <1>2 DEF PauseOver, RunnerCancelled, CountRestart, ReadCount, CountFails, AfterCount,
     Contain, Restart
<1>3. ASSUME NEW e \in Entry, Timer(e) \/ HeartbeatAges(e) PROVE RunnerKeepsLinks
  BY <1>3 DEF Timer, RecoveryTimerFires, RecoveryTimerChecks, KillUnresponsive, HeartbeatAges
<1>4. ASSUME NEW p \in Proc, SendHeartbeat(p) \/ Hang(p) \/ Exit(p) PROVE RunnerKeepsLinks
  BY <1>4 DEF SendHeartbeat, Hang, Exit
<1>5. ASSUME Watcher PROVE RunnerKeepsLinks
  BY <1>5 DEF Watcher, FindStale, MarkUnstable, PersistUnstable
<1>6. ASSUME NEW a \in Angel, PersistTerminated(a) \/ \E c \in {"cli", "sweep"} : TerminateAngel(a, c)
      PROVE  RunnerKeepsLinks
  BY <1>6 DEF PersistTerminated, TerminateAngel
<1>7. ASSUME Cancel \/ TerminateAll \/ LabExits PROVE RunnerKeepsLinks
  BY <1>7 DEF Cancel, TerminateAll, LabExits
<1>8. CASE UNCHANGED vars
  BY <1>8 DEF vars
<1> QED
  BY <1>1, <1>2, <1>3, <1>4, <1>5, <1>6, <1>7, <1>8 DEF Next, Runner, Process

\* LinksAreKnown is inductive.
LEMMA LinkStep ==
  ASSUME TypeOK, LinksAreKnown, [Next]_vars
  PROVE  LinksAreKnown'
<1> USE SupervisorAssumption
    DEF LinksAreKnown, TypeOK, Registered, Unpublished, RunnerAt, HandlerAt, NextFrame,
        tableVars, entryVars, runnerVars, handlerVars
<1>1. CASE RunnerKeepsLinks
  BY <1>1, NotAProcess DEF RunnerKeepsLinks
<1>2. ASSUME NEW e \in Entry, PublishEntry(e) PROVE LinksAreKnown'
  BY <1>2, OwnerType DEF PublishEntry
<1>3. ASSUME NEW p \in Proc, Connect(p) PROVE LinksAreKnown'
  BY <1>3 DEF Connect
<1>4. ASSUME NEW p \in Proc, RegisterConn(p) PROVE LinksAreKnown'
  BY <1>4, OwnerType DEF RegisterConn
<1>5. ASSUME NEW p \in Proc, BindConn(p) PROVE LinksAreKnown'
  BY <1>5 DEF BindConn
<1>6. ASSUME NEW p \in Proc, PersistTraining(p) PROVE LinksAreKnown'
  BY <1>6 DEF PersistTraining
<1>7. ASSUME NEW p \in Proc, HandleHeartbeat(p) PROVE LinksAreKnown'
  BY <1>7, OwnerType DEF HandleHeartbeat
<1>8. ASSUME NEW p \in Proc, PersistActive(p) PROVE LinksAreKnown'
  BY <1>8 DEF PersistActive
<1>9. ASSUME NEW p \in Proc, MarkConnLost(p) PROVE LinksAreKnown'
  BY <1>9, OwnerType, NotAProcess DEF MarkConnLost
<1>10. ASSUME NEW p \in Proc, OpenWindow(p) PROVE LinksAreKnown'
  BY <1>10 DEF OpenWindow
<1> QED
  BY <1>1, <1>2, <1>3, <1>4, <1>5, <1>6, <1>7, <1>8, <1>9, <1>10, LinkSteps DEF Handler

\* With it, so is ConnIsServed.
LEMMA ServedStep ==
  ASSUME TypeOK, LinksAreKnown, ConnIsServed, [Next]_vars
  PROVE  ConnIsServed'
<1> SUFFICES ASSUME ~Cancelled', NEW e \in Entry, NEW q \in Proc,
                    current'[Id[e]] = e, conn'[e] = q
             PROVE  hpc'[q] \in Served
  BY DEF ConnIsServed, Served
<1> USE SupervisorAssumption DEF TypeOK, Served, RunnerAt, HandlerAt, tableVars, entryVars, stopVars,
        runnerVars, handlerVars
<1>1. CASE RunnerKeepsLinks
  BY <1>1, NotAProcess DEF RunnerKeepsLinks, ConnIsServed
<1>2. ASSUME NEW f \in Entry, PublishEntry(f) PROVE hpc'[q] \in Served
  BY <1>2 DEF PublishEntry, ConnIsServed, LinksAreKnown, Unpublished, Cancelled
<1>3. ASSUME NEW p \in Proc, BindConn(p) PROVE hpc'[q] \in Served
  BY <1>3 DEF BindConn, ConnIsServed, LinksAreKnown, Registered, Cancelled
<1>4. ASSUME NEW p \in Proc, MarkConnLost(p) PROVE hpc'[q] \in Served
  BY <1>4, OwnerType, NotAProcess DEF MarkConnLost, ConnIsServed, LinksAreKnown, Registered, Cancelled
<1>5. ASSUME NEW p \in Proc, Connect(p) \/ RegisterConn(p) \/ OpenWindow(p)
      PROVE  hpc'[q] \in Served
  BY <1>5 DEF Connect, RegisterConn, OpenWindow, ConnIsServed, Cancelled
<1>6. ASSUME NEW p \in Proc, PersistTraining(p) \/ HandleHeartbeat(p) \/ PersistActive(p)
      PROVE  hpc'[q] \in Served
  BY <1>6 DEF PersistTraining, HandleHeartbeat, PersistActive, ConnIsServed, Cancelled, NextFrame
<1> QED
  BY <1>1, <1>2, <1>3, <1>4, <1>5, <1>6, LinkSteps DEF Handler

\* No links at the start.
LEMMA InitKnown == Init => LinksAreKnown /\ ConnIsServed
<1> SUFFICES ASSUME Init PROVE LinksAreKnown /\ ConnIsServed
  OBVIOUS
<1>1. /\ \A a \in Angel : current[a] = NoEntry
      /\ \A e \in Entry : conn[e] = NoConn
      /\ \A p \in Proc : hpc[p] = "none" /\ hentry[p] = NoEntry
  BY DEF Init
<1> QED
  BY <1>1, NotAProcess DEF LinksAreKnown, ConnIsServed, Registered

\* TerminateAngel finds no closed connection in the table (RegisterConn,
\* MarkConnLost), for any number of entries under one id.
THEOREM ConnsServed == Spec => []ConnIsServed
BY InitKnown, LinkStep, ServedStep, TypeCorrect, PTL DEF Spec

-----------------------------------------------------------------------------
\* A connection belongs to a process that was started.
ConnsFollowStarts ==
  \A e \in Entry : \A k \in 1 .. MaxStarts : k > starts[e] => hpc[<<e, k>>] = "none"

\* ConnsFollowStarts is inductive.
LEMMA ConnStep ==
  ASSUME TypeOK, ProcessesFollowRunners, ConnsFollowStarts, [Next]_vars
  PROVE  ConnsFollowStarts'
<1>1. ASSUME NEW e \in Entry PROVE starts[e] \in Nat /\ starts'[e] \in Nat /\ starts[e] <= starts'[e]
  <2>1. starts[e] \in 0 .. MaxStarts /\ starts'[e] \in 0 .. MaxStarts
    BY TypeStep DEF TypeOK
  <2>2. starts'[e] = starts[e] \/ starts'[e] = starts[e] + 1
    <3>1. ASSUME NEW f \in Entry, StartProcess(f)
          PROVE  starts'[e] = starts[e] \/ starts'[e] = starts[e] + 1
      BY <3>1 DEF StartProcess, TypeOK
    <3>2. UNCHANGED starts \/ \E f \in Entry : StartProcess(f)
      BY RunnerSteps DEF ProcessExits, RunnerMoves, Hang, Exit, runnerVars
    <3> QED
      BY <3>1, <3>2
  <2> QED
    BY <2>1, <2>2, SupervisorAssumption
<1>2. ASSUME NEW p \in Proc, hpc'[p] # "none" PROVE hpc[p] # "none" \/ Connect(p)
  <2>1. CASE UNCHANGED hpc
    BY <1>2, <2>1
  <2>2. ASSUME NEW q \in Proc, Connect(q) PROVE hpc[p] # "none" \/ Connect(p)
    BY <1>2, <2>2 DEF TypeOK, Connect, HandlerAt
  <2>3. ASSUME NEW q \in Proc, Handler(q) PROVE hpc[p] # "none"
    <3>1. hpc[q] # "none" /\ \E to \in HandlerPC : hpc' = [hpc EXCEPT ![q] = to]
      BY <2>3 DEF Handler, RegisterConn, BindConn, PersistTraining, HandleHeartbeat, PersistActive,
         MarkConnLost, OpenWindow, HandlerAt, NextFrame, HandlerPC
    <3> QED
      BY <1>2, <3>1 DEF TypeOK
  <2> QED
    BY <2>1, <2>2, <2>3, LinkSteps DEF RunnerKeepsLinks, PublishEntry, handlerVars
<1>3. ASSUME NEW e \in Entry, NEW k \in 1 .. MaxStarts, k > starts[e] PROVE ~Connect(<<e, k>>)
  BY <1>3 DEF Connect, ProcessesFollowRunners
<1> SUFFICES ASSUME NEW e \in Entry, NEW k \in 1 .. MaxStarts, k > starts'[e]
             PROVE  hpc'[<<e, k>>] = "none"
  BY DEF ConnsFollowStarts
<1>4. k > starts[e] /\ <<e, k>> \in Proc
  BY <1>1, SupervisorAssumption DEF Proc
<1> QED
  BY <1>2, <1>3, <1>4 DEF ConnsFollowStarts

\* A handler works on the entry that started the process it serves.
HandlersAreOwned == \A p \in Proc : hentry[p] # NoEntry => hentry[p] = p[1]

\* With one entry per id, every lookup of an id gives that entry.
LEMMA OwnedByFirst ==
  ASSUME TypeOK, LinksAreKnown, OneEntryPerId
  PROVE  /\ HandlersAreOwned
         /\ \A a \in Angel : \A e \in Entry : current[a] # NoEntry /\ Id[e] = a => current[a] = e
BY OwnerType DEF TypeOK, LinksAreKnown, OneEntryPerId, HandlersAreOwned, Owner

\* The strengthening of LostLinkIsTimed: it holds from the REGISTER of a process
\* on, for the window may be open on account of its predecessor.
WindowIsTimed ==
  \A e \in Entry : \A p \in Proc :
    (p = Pid(e) /\ Alive(p) /\ Registered(p) /\ ct[e] = "RECOVERING")
      => armed[e] \/ expiry[e] # "none" \/ p \in signalled

\* A step that opens no window, ends none and shows no new process.
WindowsKept ==
  /\ UNCHANGED starts
  /\ \A p \in Proc : Alive(p)' => Alive(p)
  /\ \A p \in Proc : Registered(p)' => Registered(p)
  /\ \A e \in Entry : ct'[e] = "RECOVERING" =>
       ct[e] = "RECOVERING" /\ armed'[e] = armed[e] /\ expiry'[e] = expiry[e]
  /\ signalled \subseteq signalled'

\* Which steps touch the windows.
LEMMA WindowSteps ==
  ASSUME TypeOK, [Next]_vars
  PROVE  \/ WindowsKept
         \/ \E e \in Entry : StartProcess(e) \/ Timer(e)
         \/ \E p \in Proc : RegisterConn(p) \/ OpenWindow(p)
<1> USE DEF TypeOK, CTTypeOK, WindowsKept, Registered, Alive, RunnerAt, HandlerAt, ctVars, runnerVars,
     procVars, handlerVars
<1>1. ASSUME NEW e \in Entry,
             PublishEntry(e) \/ StartFails(e) \/ MarkTraining(e) \/ MarkPid(e)
             \/ ProcessExits(e) \/ ApplyPolicy(e)
      PROVE  WindowsKept
  BY <1>1 DEF PublishEntry, StartFails, MarkTraining, MarkPid, ProcessExits, ApplyPolicy
<1>2. ASSUME NEW e \in Entry,
             PauseOver(e) \/ RunnerCancelled(e) \/ CountRestart(e) \/ ReadCount(e)
             \/ CountFails(e) \/ Contain(e) \/ HeartbeatAges(e)
      PROVE  WindowsKept
  BY <1>2 DEF PauseOver, RunnerCancelled, CountRestart, ReadCount, CountFails, Contain, HeartbeatAges
<1>3. ASSUME NEW e \in Entry, SpawnAngel(e) \/ Restart(e) PROVE WindowsKept
  BY <1>3 DEF SpawnAngel, Transition, Restart, ResetTracker
<1>4. ASSUME NEW p \in Proc, Process(p) PROVE WindowsKept
  BY <1>4 DEF Process, Connect, SendHeartbeat, Hang, Exit
<1>5. ASSUME NEW p \in Proc,
             BindConn(p) \/ PersistTraining(p) \/ HandleHeartbeat(p) \/ PersistActive(p)
             \/ MarkConnLost(p)
      PROVE  WindowsKept
  BY <1>5 DEF BindConn, PersistTraining, HandleHeartbeat, PersistActive, MarkConnLost, Transition
<1>6. ASSUME Watcher PROVE WindowsKept
  BY <1>6 DEF Watcher, FindStale, MarkUnstable, PersistUnstable
<1>7. ASSUME NEW a \in Angel, PersistTerminated(a) \/ \E c \in {"cli", "sweep"} : TerminateAngel(a, c)
      PROVE  WindowsKept
  BY <1>7 DEF PersistTerminated, TerminateAngel, Signalled
<1>8. ASSUME Cancel \/ TerminateAll \/ LabExits PROVE WindowsKept
  BY <1>8 DEF Cancel, TerminateAll, LabExits
<1>9. CASE UNCHANGED vars
  BY <1>9 DEF vars
<1> QED
  BY <1>1, <1>2, <1>3, <1>4, <1>5, <1>6, <1>7, <1>8, <1>9 DEF Next, Runner, Handler

\* WindowIsTimed is inductive.
LEMMA WindowStep ==
  ASSUME TypeOK, ConnsFollowStarts, LinksAreKnown, OneEntryPerId, WindowIsTimed, [Next]_vars
  PROVE  WindowIsTimed'
<1> USE SupervisorAssumption
    DEF TypeOK, CTTypeOK, WindowIsTimed, Registered, Alive, Pid, RunnerAt, HandlerAt, ctVars, runnerVars,
        procVars, handlerVars
<1>1. CASE WindowsKept
  BY <1>1 DEF WindowsKept
<1>2. ASSUME NEW e \in Entry, StartProcess(e) PROVE WindowIsTimed'
  BY <1>2 DEF StartProcess, ConnsFollowStarts, Proc
<1>3. ASSUME NEW e \in Entry, RecoveryTimerFires(e) \/ RecoveryTimerChecks(e)
      PROVE  WindowIsTimed'
  BY <1>3, SMTT(40) DEF RecoveryTimerFires, TimerFires, RecoveryTimerChecks, CheckWindow
<1>4. ASSUME NEW e \in Entry, KillUnresponsive(e) PROVE WindowIsTimed'
  <2>1. /\ expiry' = [expiry EXCEPT ![e] = "none"] /\ signalled' = Signalled(e)
        /\ UNCHANGED <<ct, armed, starts, proc, hpc>>
    BY <1>4 DEF KillUnresponsive, WindowExpired
  <2>2. \A p \in Proc : p = Pid(e) /\ Alive(p) => p \in signalled'
    BY <2>1 DEF Signalled
  <2>3. signalled \subseteq signalled'
    BY <2>1 DEF Signalled
  <2> QED
    BY <2>1, <2>2, <2>3
<1>5. ASSUME NEW p \in Proc, RegisterConn(p) PROVE WindowIsTimed'
  <2>1. current[Owner(p)] = p[1] /\ p[1] \in Entry
    BY <1>5, OwnedByFirst, OwnerType DEF RegisterConn, Owner
  <2>2. /\ ct' = [ct EXCEPT ![p[1]] = "REGISTERED"] /\ armed' = [armed EXCEPT ![p[1]] = FALSE]
        /\ hpc' = [hpc EXCEPT ![p] = "bind"]
        /\ UNCHANGED <<expiry, starts, proc, signalled>>
    BY <1>5, <2>1 DEF RegisterConn, MarkRecovered
  <2>3. \A e \in Entry : p = Pid(e) => e = p[1]
    BY NotAProcess
  <2> QED
    BY <2>1, <2>2, <2>3
<1>6. ASSUME NEW p \in Proc, OpenWindow(p) PROVE WindowIsTimed'
  <2>1. /\ hpc[p] = "lost" /\ hpc' = [hpc EXCEPT ![p] = "done"]
        /\ UNCHANGED <<expiry, starts, proc, signalled>>
    BY <1>6 DEF OpenWindow, MarkLost
  <2>2. \A e \in Entry : ct'[e] = "RECOVERING" => armed'[e] \/ (ct[e] = "RECOVERING" /\ armed'[e] = armed[e])
    BY <1>6 DEF OpenWindow, MarkLost
  <2>3. \A q \in Proc : hpc'[q] \notin {"none", "first"} => hpc[q] \notin {"none", "first"}
    BY <2>1
  <2> QED
    BY <2>1, <2>2, <2>3
<1> QED
  BY <1>1, <1>2, <1>3, <1>4, <1>5, <1>6, WindowSteps DEF Timer

\* A live process whose link is lost is always about to be killed: no interleaving
\* of handlers, timer and restart loses the window (MarkLost).
THEOREM WindowsEnd == OneEntryPerId => (Spec => []LostLinkIsTimed)
<1> SUFFICES ASSUME OneEntryPerId PROVE Spec => []LostLinkIsTimed
  OBVIOUS
<1>1. Init => ConnsFollowStarts /\ LinksAreKnown /\ WindowIsTimed
  BY InitKnown, SupervisorAssumption DEF Init, CTInit, ConnsFollowStarts, WindowIsTimed, Proc
<1>2. WindowIsTimed => LostLinkIsTimed
  BY DEF WindowIsTimed, LostLinkIsTimed, Registered
<1> QED
  BY <1>1, <1>2, InitFollows, FollowStep, ConnStep, LinkStep, WindowStep, TypeCorrect, PTL DEF Spec

-----------------------------------------------------------------------------
\* Where a connection is served no more, or not yet.
Ended == {"none", "done"}

\* The strengthening of SignalHasCause, when the backoff outlasts what Lab still
\* does for the dead process: a timer that is pending is that of the newest
\* process and of its lost connection.
OldConnsClosed(e) ==
  /\ \A k \in 1 .. MaxStarts : k < starts[e] => hpc[<<e, k>>] \in Ended
  /\ rpc[e] = "start" => /\ \A k \in 1 .. MaxStarts : hpc[<<e, k>>] \in Ended
                         /\ ~armed[e] /\ expiry[e] = "none"
  /\ armed[e] \/ expiry[e] # "none" => starts[e] > 0 /\ hpc[<<e, starts[e]>>] = "done"

OldConnsAreClosed == \A e \in Entry : OldConnsClosed(e)

\* A step that leaves the connections and the timers alone.
Quiet == /\ UNCHANGED <<starts, hpc, armed, expiry>>
         /\ \A e \in Entry : rpc'[e] = "start" => rpc[e] = "start"

\* Which steps do not.
LEMMA QuietSteps ==
  ASSUME TypeOK, [Next]_vars
  PROVE  \/ Quiet
         \/ \E e \in Entry : PublishEntry(e) \/ StartProcess(e) \/ Restart(e) \/ Timer(e)
         \/ \E p \in Proc : Connect(p) \/ Handler(p)
<1> USE DEF TypeOK, Quiet, RunnerAt, ctVars, runnerVars, handlerVars
<1>1. ASSUME NEW e \in Entry,
             SpawnAngel(e) \/ StartFails(e) \/ MarkTraining(e) \/ MarkPid(e)
             \/ ProcessExits(e) \/ ApplyPolicy(e)
      PROVE  Quiet
  BY <1>1 DEF SpawnAngel, Transition, StartFails, MarkTraining, MarkPid, ProcessExits, ApplyPolicy
<1>2. ASSUME NEW e \in Entry,
             PauseOver(e) \/ RunnerCancelled(e) \/ CountRestart(e) \/ ReadCount(e)
             \/ CountFails(e) \/ Contain(e) \/ HeartbeatAges(e)
      PROVE  Quiet
  BY <1>2 DEF PauseOver, RunnerCancelled, CountRestart, ReadCount, CountFails, AfterCount, Contain,
     HeartbeatAges
<1>3. ASSUME NEW p \in Proc, SendHeartbeat(p) \/ Hang(p) \/ Exit(p) PROVE Quiet
  BY <1>3 DEF SendHeartbeat, Hang, Exit
<1>4. ASSUME Watcher PROVE Quiet
  BY <1>4 DEF Watcher, FindStale, MarkUnstable, PersistUnstable
<1>5. ASSUME NEW a \in Angel, PersistTerminated(a) \/ \E c \in {"cli", "sweep"} : TerminateAngel(a, c)
      PROVE  Quiet
  BY <1>5 DEF PersistTerminated, TerminateAngel
<1>6. ASSUME Cancel \/ TerminateAll \/ LabExits PROVE Quiet
  BY <1>6 DEF Cancel, TerminateAll, LabExits
<1>7. CASE UNCHANGED vars
  BY <1>7 DEF vars
<1> QED
  BY <1>1, <1>2, <1>3, <1>4, <1>5, <1>6, <1>7 DEF Next, Runner, Process

\* OldConnsAreClosed is inductive.
LEMMA CloseStep ==
  ASSUME TypeOK, ProcessesFollowRunners, ConnsFollowStarts, LinksAreKnown, OneEntryPerId,
         OldConnsAreClosed, "late" \notin Stimuli, [Next]_vars
  PROVE  OldConnsAreClosed'
<1>1. /\ starts \in [Entry -> 0 .. MaxStarts] /\ rpc \in [Entry -> RunnerPC]
      /\ hpc \in [Entry \X (1 .. MaxStarts) -> HandlerPC]
      /\ armed \in [Entry -> BOOLEAN] /\ expiry \in [Entry -> {"none", "fired", "expired"}]
  BY DEF TypeOK, CTTypeOK, Proc
<1> SUFFICES ASSUME NEW f \in Entry, OldConnsClosed(f) PROVE OldConnsClosed(f)'
  BY DEF OldConnsAreClosed
<1>2. CASE Quiet
  BY <1>2 DEF Quiet, OldConnsClosed
<1>3. ASSUME NEW e \in Entry, PublishEntry(e) PROVE OldConnsClosed(f)'
  <2>1. rpc[e] = "publish" /\ rpc' = [rpc EXCEPT ![e] = "start"] /\ UNCHANGED <<starts, hpc, armed, expiry>>
    BY <1>3 DEF PublishEntry, RunnerAt, ctVars, handlerVars
  <2>2. CASE f = e
    <3>1. starts[e] = 0
      BY <2>1 DEF ProcessesFollowRunners, Unpublished
    <3>2. \A k \in 1 .. MaxStarts : hpc[<<e, k>>] = "none"
      BY <3>1 DEF ConnsFollowStarts
    <3> QED
      BY <2>1, <2>2, <3>1, <3>2 DEF OldConnsClosed, Ended
  <2>3. CASE f # e
    BY <1>1, <2>1, <2>3 DEF OldConnsClosed
  <2> QED
    BY <2>2, <2>3
<1>4. ASSUME NEW e \in Entry, StartProcess(e) PROVE OldConnsClosed(f)'
  <2>1. /\ rpc[e] = "start" /\ rpc' = [rpc EXCEPT ![e] = "markTraining"]
        /\ starts' = [starts EXCEPT ![e] = @ + 1]
        /\ UNCHANGED <<hpc, armed, expiry>>
    BY <1>4 DEF StartProcess, RunnerAt, ctVars, handlerVars
  <2>2. CASE f = e
    BY <1>1, <2>1, <2>2 DEF OldConnsClosed
  <2>3. CASE f # e
    BY <1>1, <2>1, <2>3 DEF OldConnsClosed
  <2> QED
    BY <2>2, <2>3
<1>5. ASSUME NEW e \in Entry, Restart(e) PROVE OldConnsClosed(f)'
  <2>1. /\ rpc' = [rpc EXCEPT ![e] = "start"] /\ armed' = [armed EXCEPT ![e] = FALSE]
        /\ UNCHANGED <<starts, hpc, expiry>>
    BY <1>5 DEF Restart, RunnerAt, ResetTracker, handlerVars
  <2>2. expiry[e] = "none" /\ \A k \in 1 .. MaxStarts : hpc[<<e, k>>] \in Ended
    BY <1>5 DEF Restart, BackoffOutlasts, Proc, Ended
  <2>3. CASE f = e
    BY <1>1, <2>1, <2>2, <2>3 DEF OldConnsClosed
  <2>4. CASE f # e
    BY <1>1, <2>1, <2>4 DEF OldConnsClosed
  <2> QED
    BY <2>3, <2>4
<1>6. ASSUME NEW e \in Entry, Timer(e) PROVE OldConnsClosed(f)'
  <2>1. /\ UNCHANGED <<starts, rpc, hpc>>
        /\ \A g \in Entry : armed'[g] => armed[g]
        /\ \A g \in Entry : expiry'[g] # "none" => expiry[g] # "none" \/ armed[g]
    BY <1>1, <1>6 DEF Timer, RecoveryTimerFires, TimerFires, RecoveryTimerChecks, CheckWindow,
       KillUnresponsive, WindowExpired, runnerVars, handlerVars
  <2> QED
    BY <2>1 DEF OldConnsClosed
<1>7. ASSUME NEW p \in Proc, Connect(p) PROVE OldConnsClosed(f)'
  <2>1. PICK e \in Entry, k \in 1 .. MaxStarts : p = <<e, k>>
    BY DEF Proc
  <2>2. /\ proc[<<e, k>>] = "up" /\ hpc[<<e, k>>] = "none" /\ hpc' = [hpc EXCEPT ![<<e, k>>] = "first"]
        /\ UNCHANGED <<starts, rpc, armed, expiry>>
    BY <1>7, <2>1 DEF Connect, HandlerAt, ctVars, runnerVars
  <2>3. k = starts[e] /\ rpc[e] # "start"
    BY <2>2, LiveIsNewest DEF Alive, Running
  <2>4. CASE f = e
    BY <1>1, <2>2, <2>3, <2>4 DEF OldConnsClosed
  <2>5. CASE f # e
    BY <1>1, <2>2, <2>5 DEF OldConnsClosed
  <2> QED
    BY <2>4, <2>5
<1>8. ASSUME NEW p \in Proc, Handler(p) PROVE OldConnsClosed(f)'
  <2>1. PICK e \in Entry, k \in 1 .. MaxStarts : p = <<e, k>>
    BY DEF Proc
  <2>2. /\ hpc[p] \notin Ended
        /\ \E to \in HandlerPC : hpc' = [hpc EXCEPT ![p] = to]
        /\ UNCHANGED <<starts, rpc, expiry>>
    BY <1>8 DEF Handler, RegisterConn, BindConn, PersistTraining, HandleHeartbeat, PersistActive,
       MarkConnLost, OpenWindow, HandlerPC, NextFrame, Transition, MarkRecovered, MarkLost,
       HandlerAt, Ended, ctVars, runnerVars
  <2>3. OldConnsClosed(e) /\ hpc[<<e, k>>] \notin Ended
    BY <2>1, <2>2 DEF OldConnsAreClosed
  <2>4. k = starts[e] /\ starts[e] > 0 /\ rpc[e] # "start" /\ ~armed[e] /\ expiry[e] = "none"
    <3>1. starts[e] \in Nat /\ k \in Nat /\ k > 0
      BY <1>1, SupervisorAssumption
    <3>2. ~(k < starts[e]) /\ rpc[e] # "start"
      BY <2>3 DEF OldConnsClosed
    <3>3. ~(k > starts[e])
      BY <2>3 DEF ConnsFollowStarts, Ended
    <3>4. k = starts[e] /\ starts[e] > 0
      BY <3>1, <3>2, <3>3
    <3>5. hpc[<<e, starts[e]>>] # "done"
      BY <2>3, <3>4 DEF Ended
    <3>6. ~armed[e] /\ expiry[e] = "none"
      BY <2>3, <3>5 DEF OldConnsClosed
    <3> QED
      BY <3>2, <3>4, <3>6
  <2>5. \A g \in Entry : armed'[g] => armed[g] \/ (g = e /\ hpc'[p] = "done")
    <3>1. CASE OpenWindow(p)
      <4>1. hentry[p] = e
        BY <3>1, <2>1, OwnedByFirst
        DEF OpenWindow, HandlerAt, LinksAreKnown, Registered, HandlersAreOwned
      <4>2. hpc'[p] = "done"
        BY <3>1, <1>1, <2>1 DEF OpenWindow, HandlerAt
      <4> QED
        BY <3>1, <1>1, <4>1, <4>2 DEF OpenWindow, MarkLost
    <3>2. CASE ~OpenWindow(p)
      BY <1>1, <1>8, <3>2 DEF Handler, RegisterConn, BindConn, PersistTraining, HandleHeartbeat,
         PersistActive, MarkConnLost, Transition, MarkRecovered, ctVars
    <3> QED
      BY <3>1, <3>2
  <2>6. CASE f = e
    BY <1>1, <2>1, <2>2, <2>4, <2>5, <2>6 DEF OldConnsClosed
  <2>7. CASE f # e
    BY <1>1, <2>1, <2>2, <2>5, <2>7 DEF OldConnsClosed
  <2> QED
    BY <2>6, <2>7
<1> QED
  BY <1>2, <1>3, <1>4, <1>5, <1>6, <1>7, <1>8, QuietSteps

\* Which steps send SIGTERM.
LEMMA SignalSteps ==
  ASSUME [Next]_vars
  PROVE  \/ UNCHANGED signalled
         \/ \E e \in Entry : KillUnresponsive(e)
         \/ \E a \in Angel, c \in {"cli", "sweep"} : TerminateAngel(a, c)
<1> USE DEF procVars
<1>1. ASSUME NEW e \in Entry,
             SpawnAngel(e) \/ Runner(e) \/ StartFails(e) \/ CountFails(e) \/ HeartbeatAges(e)
      PROVE  UNCHANGED signalled
  BY <1>1 DEF SpawnAngel, Runner, PublishEntry, StartProcess, MarkTraining, MarkPid, ProcessExits,
     ApplyPolicy, PauseOver, RunnerCancelled, CountRestart, ReadCount, Contain, Restart, StartFails,
     CountFails, HeartbeatAges
<1>2. ASSUME NEW e \in Entry, RecoveryTimerFires(e) \/ RecoveryTimerChecks(e)
      PROVE  UNCHANGED signalled
  BY <1>2 DEF RecoveryTimerFires, RecoveryTimerChecks
<1>3. ASSUME NEW p \in Proc, Process(p) \/ Handler(p) PROVE UNCHANGED signalled
  BY <1>3 DEF Process, Connect, SendHeartbeat, Hang, Exit, Handler, RegisterConn, BindConn,
     PersistTraining, HandleHeartbeat, PersistActive, MarkConnLost, OpenWindow
<1>4. ASSUME Watcher PROVE UNCHANGED signalled
  BY <1>4 DEF Watcher, FindStale, MarkUnstable, PersistUnstable
<1>5. ASSUME Cancel \/ TerminateAll \/ LabExits \/ \E a \in Angel : PersistTerminated(a)
      PROVE  UNCHANGED signalled
  BY <1>5 DEF Cancel, TerminateAll, LabExits, PersistTerminated
<1>6. CASE UNCHANGED vars
  BY <1>6 DEF vars
<1> QED
  BY <1>1, <1>2, <1>3, <1>4, <1>5, <1>6 DEF Next, Timer

\* Each of them has a cause.
LEMMA CauseStep ==
  ASSUME TypeOK, LinksAreKnown, OldConnsAreClosed, [Next]_vars,
         NEW p \in Proc, p \in signalled' \ signalled
  PROVE  hpc[p] = "done" \/ term'[Owner(p)] # "none"
<1>1. ASSUME NEW e \in Entry, KillUnresponsive(e) PROVE hpc[p] = "done"
  BY <1>1, NotAProcess DEF KillUnresponsive, WindowExpired, Signalled, Pid, OldConnsAreClosed,
     OldConnsClosed
<1>2. ASSUME NEW a \in Angel, NEW c \in {"cli", "sweep"}, TerminateAngel(a, c)
      PROVE  term'[Owner(p)] # "none"
  <2>1. p = Pid(current[a])
    BY <1>2 DEF TerminateAngel, Signalled
  <2>2. p[1] = current[a]
    BY <2>1, NotAProcess DEF Pid
  <2>3. Owner(p) = a
    BY <1>2, <2>2 DEF TerminateAngel, LinksAreKnown, Owner
  <2> QED
    BY <1>2, <2>3 DEF TerminateAngel, TypeOK
<1> QED
  BY <1>1, <1>2, SignalSteps

\* SIGTERM is sent only for the process's own lost connection or on a terminate
\* command (MarkConnLost, TerminateAngel), provided that a restart never overtakes
\* the handler and the timer of the dead process: run VioSignal shows the other case.
THEOREM SignalsHaveCause ==
  (OneEntryPerId /\ "late" \notin Stimuli) => (Spec => SignalHasCause)
<1> SUFFICES ASSUME OneEntryPerId, "late" \notin Stimuli PROVE Spec => SignalHasCause
  OBVIOUS
<1>1. Init => ConnsFollowStarts /\ LinksAreKnown /\ OldConnsAreClosed
  BY InitKnown, SupervisorAssumption DEF Init, CTInit, ConnsFollowStarts, OldConnsAreClosed,
     OldConnsClosed, Ended, Proc
<1>2. TypeOK /\ ProcessesFollowRunners /\ ConnsFollowStarts /\ LinksAreKnown /\ OldConnsAreClosed
        /\ [Next]_vars
      => ConnsFollowStarts' /\ LinksAreKnown' /\ OldConnsAreClosed'
  BY ConnStep, LinkStep, CloseStep
<1>3. TypeOK /\ LinksAreKnown /\ OldConnsAreClosed /\ [Next]_vars
        => [\A p \in signalled' \ signalled : hpc[p] = "done" \/ term'[Owner(p)] # "none"]_vars
  <2> SUFFICES ASSUME TypeOK, LinksAreKnown, OldConnsAreClosed, [Next]_vars,
                      NEW p \in signalled' \ signalled
               PROVE  hpc[p] = "done" \/ term'[Owner(p)] # "none"
    OBVIOUS
  <2>1. p \in Proc
    BY TypeStep DEF TypeOK
  <2> QED
    BY <2>1, CauseStep
<1> QED
  BY <1>1, <1>2, <1>3, InitFollows, FollowStep, TypeCorrect, PTL DEF Spec, SignalHasCause
=============================================================================
