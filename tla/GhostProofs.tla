---------------------------- MODULE GhostProofs ----------------------------
(***************************************************************************)
(* Who runs under an id, over crashes and boots: one runner at a time, and *)
(* no process of an earlier labd but those that the boot could not know.   *)
(* Both hold for angels that boot and Reload spawn.  A client that creates *)
(* one may spawn a known id, and an operator's command that ends an angel  *)
(* writes a row that the boot does not look at.                            *)
(***************************************************************************)
EXTENDS BootProofs

\* Nobody but the boot and Reload spawns.
NoCreates == Events \cap {"create", "spawn"} = {}

\* An entry of this labd.
Fresh(e) == e \notin old /\ rpc[e] # "unused"

\* An id has one entry of this labd, which is in the table once it is published;
\* what the boot and Reload have still to spawn has none, and is listed once, the
\* id at its turn no more.
OneOfEach ==
  /\ \A e \in old : rpc[e] = "done"
  /\ \A e, f \in Entry : Fresh(e) /\ Fresh(f) /\ Id[e] = Id[f] => e = f
  /\ \A e \in Entry : Fresh(e) /\ rpc[e] # "publish" => current[Id[e]] = e
  /\ bpc \in {"list", "mark"} => \A e \in Entry : ~Fresh(e)
  /\ bpc # "up" => reload = {}
  /\ bpc # "respawn" => turn = NoAngel
  /\ \A e \in Entry : Id[e] \in reload => ~Fresh(e)
  /\ bpc \in {"mark", "respawn"} =>
       /\ \A r \in todo : \A e \in Entry : Id[e] = r[1] => ~Fresh(e)
       /\ \A r, s \in todo : r[1] = s[1] => r = s
       /\ \A r \in todo : r[1] # turn
       /\ \A e \in Entry : Id[e] = turn => ~Fresh(e)
  /\ \A c \in Client : pick[c] = NoAngel

\* A step of a runner whose entry is in the table.
Settled == RunnerPC \ Unpublished
RunnerStays(e) ==
  /\ \E from \in Settled \ {"done"}, to \in Settled : RunnerAt(e, from, to)
  /\ UNCHANGED current

\* What the goroutines of Supervisor do to the runners and the table.
LEMMA SupervisionSteps ==
  ASSUME TypeOK, NoCreates, Supervision
  PROVE  /\ UNCHANGED bootVars
         /\ \/ UNCHANGED <<rpc, current>>
            \/ \E e \in Entry : PublishEntry(e) \/ RunnerStays(e)
<1> USE DEF RunnerPC, Settled, Unpublished, RunnerStays, tableVars, runnerVars
<1>1. ASSUME NEW e \in Entry,
             \/ StartProcess(e) \/ StartFails(e) \/ MarkTraining(e) \/ MarkPid(e)
             \/ ProcessExits(e) \/ ApplyPolicy(e) \/ PauseOver(e)
      PROVE  RunnerStays(e)
  BY <1>1 DEF StartProcess, StartFails, MarkTraining, MarkPid, ProcessExits, ApplyPolicy, PauseOver
<1>2. ASSUME NEW e \in Entry,
             \/ RunnerCancelled(e) \/ CountRestart(e) \/ ReadCount(e) \/ CountFails(e)
             \/ Contain(e) \/ Restart(e)
      PROVE  RunnerStays(e)
  BY <1>2 DEF RunnerCancelled, CountRestart, ReadCount, CountFails, AfterCount, Contain, Restart
<1>3. ASSUME NEW e \in Entry, Timer(e) \/ HeartbeatAges(e) PROVE UNCHANGED <<rpc, current>>
  BY <1>3 DEF Timer, RecoveryTimerFires, RecoveryTimerChecks, KillUnresponsive, HeartbeatAges
<1>4. ASSUME NEW p \in Proc, Process(p) \/ Handler(p) PROVE UNCHANGED <<rpc, current>>
  BY <1>4 DEF Process, Connect, SendHeartbeat, Hang, Exit, Handler, RegisterConn, BindConn,
     PersistTraining, HandleHeartbeat, PersistActive, MarkConnLost, OpenWindow
<1>5. ASSUME Watcher PROVE UNCHANGED <<rpc, current>>
  BY <1>5 DEF Watcher, FindStale, MarkUnstable, PersistUnstable
<1>6. ASSUME NEW a \in Angel, PersistTerminated(a) \/ \E c \in {"cli", "sweep"} : TerminateAngel(a, c)
      PROVE  UNCHANGED <<rpc, current>>
  BY <1>6 DEF PersistTerminated, TerminateAngel
<1>7. ASSUME Cancel \/ TerminateAll \/ LabExits PROVE UNCHANGED <<rpc, current>>
  BY <1>7 DEF Cancel, TerminateAll, LabExits
<1>8. "spawn" \notin Events
  BY DEF NoCreates
<1> QED
  BY <1>1, <1>2, <1>3, <1>4, <1>5, <1>6, <1>7, <1>8 DEF Supervision, Runner

\* SpawnAngel of an id that has no entry in this labd.
LEMMA SpawnKeepsOne ==
  ASSUME TypeOK, BootOwn, OneOfEach, NEW e \in Entry, SpawnAngel(e), UNCHANGED <<old, bpc, pick>>,
         \A f \in Entry : Id[f] = Id[e] => ~Fresh(f),
         bpc \notin {"list", "mark"},
         Id[e] \notin reload', reload' \subseteq reload,
         todo' = todo, turn' = NoAngel, bpc = "respawn" => \A r \in todo : r[1] # Id[e]
  PROVE  OneOfEach'
<1>1. /\ rpc[e] = "unused" /\ rpc' = [rpc EXCEPT ![e] = "publish"]
      /\ current' = current
  BY DEF SpawnAngel, RunnerAt, tableVars
<1>2. \A f \in Entry : Fresh(f)' <=> Fresh(f) \/ f = e
  BY <1>1 DEF Fresh, TypeOK, OneOfEach
<1>3. \A f \in Entry : f # e => rpc'[f] = rpc[f]
  BY <1>1 DEF TypeOK
<1>4. rpc'[e] = "publish" /\ e \notin old
  BY <1>1 DEF TypeOK, OneOfEach
<1>5. \A f \in old : rpc'[f] = "done"
  BY <1>3, <1>4 DEF OneOfEach, BootOwn
<1>6. \A f \in Entry : Id[f] # turn'
  BY SupervisorAssumption, BootAssumption
<1>7. /\ old' = old /\ bpc' = bpc /\ pick' = pick
      /\ bpc = "respawn" =>
           \A r \in todo' : r[1] # turn' /\ \A f \in Entry : Id[f] = r[1] => ~Fresh(f)'
  <2>1. todo' = todo /\ turn' = NoAngel /\ \A r \in todo : r[1] \in Angel
    BY DEF BootOwn
  <2>2. bpc = "respawn" => \A r \in todo : r[1] # Id[e] /\ \A f \in Entry : Id[f] = r[1] => ~Fresh(f)
    BY DEF OneOfEach
  <2> QED
    BY <1>2, <2>1, <2>2, BootAssumption
<1> QED
  BY <1>1, <1>2, <1>3, <1>4, <1>5, <1>6, <1>7 DEF OneOfEach

LEMMA ForgottenKeepsOne ==
  ASSUME TypeOK, Crash \/ LabStarts
  PROVE  OneOfEach'
<1>1. /\ \A e \in Entry : rpc'[e] = IF rpc[e] = "unused" THEN "unused" ELSE "done"
      /\ old' = {e \in Entry : rpc[e] # "unused"}
      /\ bpc' = "list" /\ reload' = {} /\ todo' = {} /\ turn' = NoAngel
      /\ \A c \in Client : pick'[c] = NoAngel
  BY DEF Crash, LabStarts, MemoryLost
<1>2. \A e \in Entry : ~Fresh(e)'
  BY <1>1 DEF Fresh
<1> QED
  BY <1>1, <1>2 DEF OneOfEach

LEMMA OneStep ==
  ASSUME TypeOK, BootOwn, OneOfEach, NoCreates, [BootNext]_allVars
  PROVE  OneOfEach'
<1>1. CASE Crash \/ LabStarts
  BY <1>1, ForgottenKeepsOne
<1>2. CASE Supervision
  <2>1. UNCHANGED bootVars
    BY <1>2, SupervisionSteps
  <2>2. CASE UNCHANGED <<rpc, current>>
    BY <2>1, <2>2 DEF OneOfEach, Fresh, bootVars, clientVars, recoveryVars, labdVars
  <2>3. ASSUME NEW e \in Entry, PublishEntry(e) PROVE OneOfEach'
    <3>1. /\ rpc[e] = "publish" /\ rpc' = [rpc EXCEPT ![e] = "start"]
          /\ current' = [current EXCEPT ![Id[e]] = e]
      BY <2>3 DEF PublishEntry, RunnerAt
    <3>2. Id \in [Entry -> Angel]
      BY SupervisorAssumption
    <3>3. \A f \in Entry : Fresh(f)' <=> Fresh(f)
      BY <3>1, <2>1 DEF Fresh, TypeOK, bootVars, labdVars
    <3>4. Fresh(e)
      BY <3>1 DEF Fresh, OneOfEach
    <3>5. \A f \in old : rpc'[f] = "done"
      BY <3>1 DEF OneOfEach, BootOwn, TypeOK
    <3>6. \A f \in Entry : Fresh(f) /\ rpc'[f] # "publish" => current'[Id[f]] = f
      BY <3>1, <3>2, <3>4 DEF OneOfEach, TypeOK
    <3> QED
      BY <2>1, <3>3, <3>5, <3>6 DEF OneOfEach, bootVars, clientVars, recoveryVars, labdVars
  <2>4. ASSUME NEW e \in Entry, RunnerStays(e) PROVE OneOfEach'
    <3>1. PICK from \in Settled \ {"done"}, to \in Settled :
            rpc[e] = from /\ rpc' = [rpc EXCEPT ![e] = to] /\ current' = current
      BY <2>4 DEF RunnerStays, RunnerAt
    <3>2. \A f \in Entry : Fresh(f)' <=> Fresh(f)
      BY <3>1, <2>1 DEF Fresh, TypeOK, bootVars, labdVars, Settled, Unpublished
    <3>3. \A f \in old : rpc'[f] = "done"
      BY <3>1 DEF OneOfEach, BootOwn, TypeOK
    <3>4. \A f \in Entry : rpc'[f] # "publish" /\ Fresh(f) => rpc[f] # "publish"
      BY <3>1 DEF TypeOK, Settled, Unpublished
    <3> QED
      BY <2>1, <3>1, <3>2, <3>3, <3>4 DEF OneOfEach, bootVars, clientVars, recoveryVars, labdVars
  <2> QED
    BY <1>2, <2>2, <2>3, <2>4, SupervisionSteps
<1>3. CASE ListRecoverable
  BY <1>3, SupervisorAssumption, BootAssumption
  DEF ListRecoverable, BootAt, OneOfEach, Fresh, vars, runnerVars, tableVars, clientVars, recoveryVars, labdVars
<1>4. CASE BootMarkStale \/ RecoveryFails \/ Serve
  BY <1>4 DEF BootMarkStale, RecoveryFails, Serve, BootAt, OneOfEach, Fresh, vars, runnerVars, tableVars, clientVars, recoveryVars, labdVars
<1>5. ASSUME NEW r \in todo, KillStale(r[1], r[2]) \/ KillFails(r[1], r[2]) PROVE OneOfEach'
  <2>1. /\ bpc = "respawn" /\ bpc' = "respawn" /\ turn' = r[1] /\ todo' = todo \ {r}
        /\ UNCHANGED <<rpc, current, old, pick, reload>>
    BY <1>5 DEF KillStale, KillFails, Round, BootAt, BootOwn, vars, runnerVars, tableVars, labdVars,
                clientVars
  <2> QED
    BY <2>1 DEF OneOfEach, Fresh
<1>6. CASE Respawn
  <2> DEFINE e == CHOOSE f \in Spawnable(turn) : TRUE
  <2>1. e \in Entry /\ Id[e] = turn /\ SpawnAngel(e)
    BY <1>6 DEF Respawn, Spawnable
  <2>2. /\ bpc = "respawn" /\ bpc' = "respawn" /\ turn' = NoAngel
        /\ UNCHANGED <<todo, old, pick, reload>>
    BY <1>6 DEF Respawn, BootAt, labdVars, clientVars
  <2>3. reload = {} /\ (\A r \in todo : r[1] # turn) /\ \A f \in Entry : Id[f] = turn => ~Fresh(f)
    BY <2>2 DEF OneOfEach
  <2> HIDE DEF e
  <2> QED
    BY <2>1, <2>2, <2>3, SpawnKeepsOne
<1>7. CASE ReloadList
  <2>1. reload' \cap Table = {} /\ bpc = "up" /\ SpawnReturned
        /\ UNCHANGED <<rpc, current, bpc, todo, turn, old, pick>>
    BY <1>7 DEF ReloadList, Serving, vars, runnerVars, tableVars, clientVars, recoveryVars, labdVars
  <2>2. \A e \in Entry : Fresh(e) => Id[e] \in Table
    BY <2>1, SupervisorAssumption DEF Table, OneOfEach, SpawnReturned
  <2> QED
    BY <2>1, <2>2 DEF OneOfEach, Fresh
<1>8. ASSUME NEW a \in Angel, ReloadSpawn(a) PROVE OneOfEach'
  <2> DEFINE e == CHOOSE f \in Spawnable(a) : TRUE
  <2>1. e \in Entry /\ Id[e] = a /\ SpawnAngel(e)
    BY <1>8 DEF ReloadSpawn, Spawnable
  <2>2. /\ bpc = "up" /\ a \in reload /\ reload' = reload \ {a}
        /\ UNCHANGED <<old, pick, bpc, todo>> /\ turn' = NoAngel
    BY <1>8 DEF ReloadSpawn, Serving, OneOfEach, clientVars, recoveryVars, labdVars
  <2>3. \A f \in Entry : Id[f] = a => ~Fresh(f)
    BY <2>2 DEF OneOfEach
  <2> HIDE DEF e
  <2> QED
    BY <2>1, <2>2, <2>3, SpawnKeepsOne
<1>9. ASSUME NEW c \in Client, PickId(c) \/ CreatePicked(c) PROVE FALSE
  BY <1>9 DEF PickId, CreatePicked, OneOfEach, NoCreates
<1>10. ASSUME NEW p \in Proc, RegisterUnknown(p) PROVE OneOfEach'
  BY <1>10 DEF RegisterUnknown, OneOfEach, Fresh, runnerVars, tableVars, bootVars, clientVars, recoveryVars, labdVars
<1>11. CASE UNCHANGED allVars
  BY <1>11 DEF allVars, vars, OneOfEach, Fresh, runnerVars, tableVars, bootVars, clientVars, recoveryVars, labdVars
<1> QED
  BY <1>1, <1>2, <1>3, <1>4, <1>5, <1>6, <1>7, <1>8, <1>9, <1>10, <1>11 DEF BootNext, BootStep

LEMMA OneInit == BootInit => OneOfEach
BY DEF BootInit, Init, OneOfEach, Fresh

\* No id has two runners, whenever labd dies and its configuration is loaded again
\* (SpawnAngel, BootRecovery, Reload; docs/failure-semantics.md, guarantee 5).
THEOREM OneRunnerPerId == NoCreates => (BootSpec => []AtMostOneRunner)
<1> SUFFICES ASSUME NoCreates PROVE BootSpec => []AtMostOneRunner
  OBVIOUS
<1>1. OneOfEach => AtMostOneRunner
  BY DEF OneOfEach, AtMostOneRunner, Fresh
<1>2. TypeOK /\ BootOwn /\ OneOfEach /\ [BootNext]_allVars => TypeOK' /\ BootOwn' /\ OneOfEach'
  BY TypeOverBoots, OwnStep, OneStep
<1> QED
  BY <1>1, <1>2, BootInitTyped, OneInit, PTL DEF BootSpec
-----------------------------------------------------------------------------
\* Nobody ends an angel or labd in an orderly way.
NotStopped == Stimuli \cap {"terminate", "shutdown"} = {}

\* So no such command is under way, and a labd that is not there has a boot ahead.
Undisturbed ==
  /\ \A a \in Angel : term[a] = "none"
  /\ sweep = {}
  /\ lab \in {"running", "stopped"}
  /\ lab = "stopped" => bpc = "list"

\* A process that this labd has started has its runner.
LiveIsRun == \A p \in Proc : Alive(p) /\ p[1] \notin old => rpc[p[1]] \in Running

\* What the row of a running entry says, if there is one and it could be written.
Shown == Recoverable \cup {"UNSTABLE", ABSENT}

RowsServe ==
  \A e \in Entry : Fresh(e) /\ Pid(e) \notin unrecorded =>
    /\ rpc[e] \in {"markPid", "wait"} => regState[Id[e]] \in Shown
    /\ rpc[e] = "wait" /\ regState[Id[e]] # ABSENT => regPid[Id[e]] = Pid(e)

\* Where the boot finds a process of an earlier labd: in the rows, then in its list,
\* and then it is dead, if the boot did not fail.
GhostsAreListed ==
  \A p \in Proc : (Alive(p) /\ p[1] \in old /\ p \notin missed) =>
    /\ bpc = "list" => RowServes(p)
    /\ bpc \in {"mark", "respawn"} => <<Owner(p), p>> \in todo
    /\ bpc = "up" => failed

\* The rows change at most to UNSTABLE or to recoverable.
RowsGrow ==
  /\ UNCHANGED regPid
  /\ \A a \in Angel : \/ regState'[a] = regState[a]
                   \/ (regState[a] # ABSENT /\ regState'[a] \in Recoverable \cup {"UNSTABLE"})

\* Steps of the goroutines after which the rows still serve; none writes one before
\* labd serves.
RowsKept ==
  /\ UNCHANGED <<rpc, starts, unrecorded>>
  /\ RowsGrow
  /\ bpc # "up" => UNCHANGED regState

\* A step of a runner that concerns its own row, and after which the runner has no
\* process in its row.
RunnerWrites(e) ==
  /\ rpc[e] \notin Unpublished \cup {"done"}
  /\ \E to \in RunnerPC \ {"unused", "markPid", "wait"} : rpc' = [rpc EXCEPT ![e] = to]
  /\ \A f \in Entry : f # e => starts'[f] = starts[f]
  /\ \A a \in Angel : a # Id[e] => regState'[a] = regState[a] /\ regPid'[a] = regPid[a]
  /\ UNCHANGED unrecorded

\* Which steps of the goroutines touch the rows.
LEMMA RowSteps ==
  ASSUME TypeOK, NoCreates, Undisturbed, Supervision
  PROVE  RowsKept \/ \E e \in Entry : \/ PublishEntry(e) \/ MarkTraining(e) \/ MarkPid(e)
                                      \/ RunnerWrites(e)
<1> USE SupervisorAssumption
    DEF TypeOK, RunnerPC, Unpublished, RunnerWrites, RunnerAt, runnerVars, procVars, regVars, Recoverable
<1>1. ASSUME NEW e \in Entry,
             \/ StartProcess(e) \/ StartFails(e) \/ ProcessExits(e) \/ ApplyPolicy(e) \/ PauseOver(e)
      PROVE  RunnerWrites(e)
  BY <1>1 DEF StartProcess, StartFails, ProcessExits, ApplyPolicy, PauseOver, StoreState, UpdateState, WriteFails
<1>2. ASSUME NEW e \in Entry,
             \/ RunnerCancelled(e) \/ CountRestart(e) \/ ReadCount(e) \/ CountFails(e)
             \/ Contain(e) \/ Restart(e)
      PROVE  RunnerWrites(e)
  BY <1>2 DEF RunnerCancelled, CountRestart, ReadCount, CountFails, AfterCount, Contain, Restart,
     StoreState, UpdateState, WriteFails, IncrementRestarts
<1>3. ASSUME NEW a \in Angel, NEW v \in {"TRAINING", "ACTIVE", "UNSTABLE"}, StoreState(a, v)
      PROVE  RowsGrow
  BY <1>3 DEF RowsGrow, StoreState, UpdateState, WriteFails
<1>4. ASSUME UNCHANGED regVars PROVE RowsGrow /\ UNCHANGED regState
  BY <1>4 DEF RowsGrow
<1>5. ASSUME NEW e \in Entry, Timer(e) \/ HeartbeatAges(e) PROVE RowsKept
  BY <1>4, <1>5 DEF RowsKept, Timer, RecoveryTimerFires, RecoveryTimerChecks, KillUnresponsive, HeartbeatAges
<1>6. ASSUME NEW p \in Proc, Process(p) PROVE RowsKept
  BY <1>4, <1>6 DEF RowsKept, Process, Connect, SendHeartbeat, Hang, Exit
<1>7. ASSUME NEW p \in Proc, Serving, Handler(p) PROVE RowsKept
  BY <1>3, <1>4, <1>7, OwnerType DEF RowsKept, Serving, Handler, RegisterConn, BindConn, PersistTraining,
     HandleHeartbeat, PersistActive, MarkConnLost, OpenWindow
<1>8. ASSUME Serving, Watcher PROVE RowsKept
  BY <1>3, <1>4, <1>8 DEF RowsKept, Serving, Watcher, FindStale, MarkUnstable, PersistUnstable
<1>9. ASSUME NEW a \in Angel, PersistTerminated(a) \/ \E c \in {"cli", "sweep"} : TerminateAngel(a, c)
      PROVE  RowsKept
  BY <1>4, <1>9 DEF RowsKept, TerminateAngel, PersistTerminated, Undisturbed
<1>10. ASSUME Cancel \/ TerminateAll \/ LabExits PROVE RowsKept
  BY <1>4, <1>10 DEF RowsKept, Cancel, TerminateAll, LabExits
<1>11. "spawn" \notin Events
  BY DEF NoCreates
<1> QED
  BY <1>1, <1>2, <1>5, <1>6, <1>7, <1>8, <1>9, <1>10, <1>11 DEF Supervision, Runner

\* The rows of the other entries are not those of e.
LEMMA RowsApart ==
  ASSUME OneOfEach, NEW e \in Entry, NEW f \in Entry, Fresh(e), Fresh(f), e # f
  PROVE  Id[f] # Id[e]
BY DEF OneOfEach

LEMMA SupervisionRows ==
  ASSUME TypeOK, OneOfEach, NoCreates, Undisturbed, RowsServe, Supervision
  PROVE  RowsServe'
<1>1. old' = old
  BY DEF Supervision, bootVars, labdVars
<1>2. CASE RowsKept
  BY <1>1, <1>2, SupervisorAssumption DEF RowsKept, RowsGrow, RowsServe, Shown, Fresh, Pid
<1>3. ASSUME NEW e \in Entry, PublishEntry(e) PROVE RowsServe'
  BY <1>1, <1>3 DEF PublishEntry, RunnerAt, regVars, procVars, RowsServe, Fresh, Pid, TypeOK
<1>4. ASSUME NEW e \in Entry, MarkTraining(e) PROVE RowsServe'
  <2>1. /\ rpc[e] = "markTraining" /\ rpc' = [rpc EXCEPT ![e] = "markPid"]
        /\ UNCHANGED <<starts, regPid>> /\ unrecorded \subseteq unrecorded'
        /\ \A a \in Angel : a # Id[e] => regState'[a] = regState[a]
        /\ Pid(e) \in unrecorded' \/ regState'[Id[e]] \in {ABSENT, "TRAINING"}
    BY <1>4, SupervisorAssumption DEF MarkTraining, RunnerAt, UpdateState, WriteFails, regVars, TypeOK
  <2>2. Fresh(e)
    BY <2>1 DEF Fresh, OneOfEach
  <2> SUFFICES ASSUME NEW f \in Entry, Fresh(f)', Pid(f)' \notin unrecorded'
               PROVE  /\ rpc'[f] \in {"markPid", "wait"} => regState'[Id[f]] \in Shown
                      /\ rpc'[f] = "wait" /\ regState'[Id[f]] # ABSENT => regPid'[Id[f]] = Pid(f)'
    BY DEF RowsServe, Shown
  <2>3. CASE f = e
    BY <2>1, <2>3, SupervisorAssumption DEF TypeOK, Recoverable, Shown, Pid
  <2>4. CASE f # e
    <3>1. Fresh(f) /\ rpc'[f] = rpc[f]
      BY <1>1, <2>1, <2>4 DEF Fresh, TypeOK
    <3>2. Id[f] # Id[e]
      BY <2>2, <2>4, <3>1, RowsApart
    <3> QED
      BY <2>1, <3>1, <3>2, SupervisorAssumption DEF RowsServe, TypeOK, Pid
  <2> QED
    BY <2>3, <2>4
<1>5. ASSUME NEW e \in Entry, MarkPid(e) PROVE RowsServe'
  <2>1. /\ rpc[e] = "markPid" /\ rpc' = [rpc EXCEPT ![e] = "wait"]
        /\ UNCHANGED <<starts, regState>> /\ unrecorded \subseteq unrecorded'
        /\ \A a \in Angel : a # Id[e] => regPid'[a] = regPid[a]
        /\ Pid(e) \in unrecorded' \/ regState[Id[e]] = ABSENT \/ regPid'[Id[e]] = Pid(e)
    BY <1>5, SupervisorAssumption DEF MarkPid, RunnerAt, UpdatePID, WriteFails, regVars, TypeOK
  <2>2. Fresh(e)
    BY <2>1 DEF Fresh, OneOfEach
  <2> SUFFICES ASSUME NEW f \in Entry, Fresh(f)', Pid(f)' \notin unrecorded'
               PROVE  /\ rpc'[f] \in {"markPid", "wait"} => regState'[Id[f]] \in Shown
                      /\ rpc'[f] = "wait" /\ regState'[Id[f]] # ABSENT => regPid'[Id[f]] = Pid(f)'
    BY DEF RowsServe, Shown
  <2>3. CASE f = e
    BY <2>1, <2>2, <2>3, SupervisorAssumption DEF TypeOK, RowsServe, Pid
  <2>4. CASE f # e
    <3>1. Fresh(f) /\ rpc'[f] = rpc[f]
      BY <1>1, <2>1, <2>4 DEF Fresh, TypeOK
    <3>2. Id[f] # Id[e]
      BY <2>2, <2>4, <3>1, RowsApart
    <3> QED
      BY <2>1, <3>1, <3>2, SupervisorAssumption DEF RowsServe, TypeOK, Pid
  <2> QED
    BY <2>3, <2>4
<1>6. ASSUME NEW e \in Entry, RunnerWrites(e) PROVE RowsServe'
  <2>1. Fresh(e)
    BY <1>6 DEF RunnerWrites, Fresh, OneOfEach, Unpublished
  <2> SUFFICES ASSUME NEW f \in Entry, Fresh(f)', Pid(f)' \notin unrecorded'
               PROVE  /\ rpc'[f] \in {"markPid", "wait"} => regState'[Id[f]] \in Shown
                      /\ rpc'[f] = "wait" /\ regState'[Id[f]] # ABSENT => regPid'[Id[f]] = Pid(f)'
    BY DEF RowsServe, Shown
  <2>2. CASE f = e
    BY <1>6, <2>2 DEF RunnerWrites, TypeOK
  <2>3. CASE f # e
    <3>1. Fresh(f) /\ rpc'[f] = rpc[f]
      BY <1>1, <1>6, <2>3 DEF RunnerWrites, Fresh, TypeOK
    <3>2. Id[f] # Id[e]
      BY <2>1, <2>3, <3>1, RowsApart
    <3> QED
      BY <1>6, <2>3, <3>1, <3>2, SupervisorAssumption DEF RunnerWrites, RowsServe, Pid
  <2> QED
    BY <2>2, <2>3
<1> QED
  BY <1>2, <1>3, <1>4, <1>5, <1>6, RowSteps
-----------------------------------------------------------------------------
\* SpawnAngel writes the row of an id that has no other entry.
LEMMA SpawnRows ==
  ASSUME TypeOK, OneOfEach, OneOfEach', RowsServe, NEW e \in Entry, SpawnAngel(e), UNCHANGED old
  PROVE  RowsServe'
<1>1. /\ rpc[e] = "unused" /\ rpc' = [rpc EXCEPT ![e] = "publish"]
      /\ \A a \in Angel : a # Id[e] => regState'[a] = regState[a]
      /\ UNCHANGED <<starts, regPid, unrecorded>>
  BY SupervisorAssumption DEF SpawnAngel, RunnerAt, UpsertCreated, WriteFails, regVars, procVars, TypeOK
<1>2. Fresh(e)' /\ rpc'[e] = "publish"
  BY <1>1 DEF Fresh, TypeOK, OneOfEach
<1> SUFFICES ASSUME NEW f \in Entry, Fresh(f)', f # e, Pid(f)' \notin unrecorded'
             PROVE  /\ rpc'[f] \in {"markPid", "wait"} => regState'[Id[f]] \in Shown
                    /\ rpc'[f] = "wait" /\ regState'[Id[f]] # ABSENT => regPid'[Id[f]] = Pid(f)'
  BY <1>2 DEF RowsServe
<1>3. Id[f] # Id[e]
  BY <1>2 DEF OneOfEach
<1>4. Fresh(f) /\ rpc'[f] = rpc[f]
  BY <1>1 DEF Fresh, TypeOK
<1> QED
  BY <1>1, <1>3, <1>4, SupervisorAssumption DEF RowsServe, TypeOK, Pid

LEMMA RowsStep ==
  ASSUME TypeOK, OneOfEach, OneOfEach', NoCreates, Undisturbed, RowsServe, [BootNext]_allVars
  PROVE  RowsServe'
<1> USE DEF Fresh, Pid, regVars, runnerVars, procVars, bootVars, clientVars, recoveryVars, labdVars
<1>1. CASE Crash \/ LabStarts
  <2>1. \A e \in Entry : ~Fresh(e)'
    BY <1>1 DEF Crash, LabStarts, MemoryLost
  <2> QED
    BY <2>1 DEF RowsServe
<1>2. CASE Supervision
  BY <1>2, SupervisionRows
<1>3. CASE ListRecoverable \/ RecoveryFails \/ Serve \/ ReloadList
  BY <1>3 DEF ListRecoverable, RecoveryFails, Serve, ReloadList, RowsServe, vars
<1>4. CASE BootMarkStale
  BY <1>4 DEF BootMarkStale, BootAt, OneOfEach, RowsServe
<1>5. ASSUME NEW r \in todo, KillStale(r[1], r[2]) \/ KillFails(r[1], r[2]) PROVE RowsServe'
  BY <1>5 DEF KillStale, KillFails, RowsServe, vars
<1>6. CASE Respawn
  BY <1>6, SpawnableEntry, SpawnRows DEF Respawn
<1>7. ASSUME NEW a \in Angel, ReloadSpawn(a) PROVE RowsServe'
  BY <1>7, SpawnableEntry, SpawnRows DEF ReloadSpawn
<1>8. ASSUME NEW c \in Client, PickId(c) \/ CreatePicked(c) PROVE FALSE
  BY <1>8 DEF PickId, CreatePicked, OneOfEach, NoCreates
<1>9. ASSUME NEW p \in Proc, RegisterUnknown(p) PROVE RowsServe'
  BY <1>9 DEF RegisterUnknown, RowsServe
<1>10. CASE UNCHANGED allVars
  BY <1>10 DEF allVars, vars, RowsServe
<1> QED
  BY <1>1, <1>2, <1>3, <1>4, <1>5, <1>6, <1>7, <1>8, <1>9, <1>10 DEF BootNext, BootStep
-----------------------------------------------------------------------------
LEMMA UndisturbedStep ==
  ASSUME TypeOK, OneOfEach, NoCreates, NotStopped, Undisturbed, [BootNext]_allVars
  PROVE  Undisturbed'
<1> USE DEF Undisturbed, stopVars
<1>1. CASE Crash \/ LabStarts
  BY <1>1 DEF Crash, LabStarts, MemoryLost
<1>2. CASE Supervision
  <2>1. UNCHANGED bpc
    BY <1>2 DEF Supervision, bootVars
  <2>2. ASSUME NEW a \in Angel, \/ PersistTerminated(a)
                                \/ \E c \in {"cli", "sweep"} : TerminateAngel(a, c)
        PROVE  FALSE
    BY <2>2 DEF PersistTerminated, TerminateAngel, NotStopped
  <2>3. ASSUME Cancel \/ TerminateAll \/ LabExits PROVE FALSE
    BY <2>3 DEF Cancel, TerminateAll, LabExits, NotStopped
  <2>4. ASSUME NEW e \in Entry,
               Runner(e) \/ StartFails(e) \/ Timer(e) \/ HeartbeatAges(e)
        PROVE  UNCHANGED stopVars
    <3>1. CASE Timer(e) \/ HeartbeatAges(e)
      BY <3>1 DEF Timer, RecoveryTimerFires, RecoveryTimerChecks, KillUnresponsive, HeartbeatAges
    <3>2. CASE Runner(e)
      BY <3>2 DEF Runner, PublishEntry, StartProcess, MarkTraining, MarkPid, ProcessExits,
         ApplyPolicy, PauseOver, RunnerCancelled, CountRestart, ReadCount, CountFails, Contain, Restart
    <3>3. CASE StartFails(e)
      BY <3>3 DEF StartFails
    <3> QED
      BY <2>4, <3>1, <3>2, <3>3
  <2>5. ASSUME NEW p \in Proc, Process(p) \/ Handler(p) PROVE UNCHANGED stopVars
    BY <2>5 DEF Process, Connect, SendHeartbeat, Hang, Exit, Handler, RegisterConn, BindConn,
       PersistTraining, HandleHeartbeat, PersistActive, MarkConnLost, OpenWindow
  <2>6. ASSUME Watcher PROVE UNCHANGED stopVars
    BY <2>6 DEF Watcher, FindStale, MarkUnstable, PersistUnstable
  <2>7. UNCHANGED stopVars
    BY <1>2, <2>2, <2>3, <2>4, <2>5, <2>6 DEF Supervision, NoCreates
  <2> QED
    BY <2>1, <2>7
<1>3. CASE ListRecoverable \/ RecoveryFails \/ Serve \/ BootMarkStale
  BY <1>3 DEF ListRecoverable, RecoveryFails, Serve, BootMarkStale, BootAt, LabUp, vars
<1>4. ASSUME Respawn \/ \E r \in todo : KillStale(r[1], r[2]) \/ KillFails(r[1], r[2])
      PROVE  Undisturbed'
  BY <1>4 DEF KillStale, KillFails, Round, Respawn, BootAt, LabUp, SpawnAngel, vars
<1>5. CASE ReloadList
  BY <1>5 DEF ReloadList, vars
<1>6. ASSUME NEW a \in Angel, ReloadSpawn(a) PROVE Undisturbed'
  BY <1>6 DEF ReloadSpawn, SpawnAngel
<1>7. ASSUME NEW c \in Client, PickId(c) \/ CreatePicked(c) PROVE FALSE
  BY <1>7 DEF PickId, CreatePicked, OneOfEach, NoCreates
<1>8. ASSUME NEW p \in Proc, RegisterUnknown(p) PROVE Undisturbed'
  BY <1>8 DEF RegisterUnknown, bootVars
<1>9. CASE UNCHANGED allVars
  BY <1>9 DEF allVars, vars, bootVars
<1> QED
  BY <1>1, <1>2, <1>3, <1>4, <1>5, <1>6, <1>7, <1>8, <1>9 DEF BootNext, BootStep

\* Only a crash or a start of labd makes entries old, and missed processes stay
\* missed.
LEMMA OldKept ==
  ASSUME TypeOK, [BootNext]_allVars, ~(Crash \/ LabStarts)
  PROVE  /\ old' = old /\ missed \subseteq missed'
         /\ [Next]_vars \/ UNCHANGED <<starts, rpc, proc>>
<1> DEFINE Kept == old' = old /\ missed \subseteq missed'
<1> USE DEF recoveryVars, labdVars, clientVars, bootVars
<1>1. Kept
  <2>1. CASE UNCHANGED allVars \/ Supervision
    BY <2>1 DEF allVars, Supervision
  <2>2. CASE ListRecoverable \/ BootMarkStale \/ RecoveryFails \/ Respawn \/ Serve \/ ReloadList
    BY <2>2 DEF ListRecoverable, BootMarkStale, RecoveryFails, Respawn, Serve, ReloadList
  <2>3. ASSUME NEW r \in todo, KillStale(r[1], r[2]) \/ KillFails(r[1], r[2]) PROVE Kept
    BY <2>3 DEF KillStale, KillFails
  <2>4. ASSUME NEW c \in Client, PickId(c) \/ CreatePicked(c) PROVE Kept
    BY <2>4 DEF PickId, CreatePicked
  <2>5. ASSUME NEW a \in Angel, ReloadSpawn(a) PROVE Kept
    BY <2>5 DEF ReloadSpawn
  <2>6. ASSUME NEW p \in Proc, RegisterUnknown(p) PROVE Kept
    BY <2>6 DEF RegisterUnknown
  <2> QED
    BY <2>1, <2>2, <2>3, <2>4, <2>5, <2>6 DEF BootNext, BootStep
<1>2. \/ [Next]_vars \/ Crash \/ LabStarts \/ BootMarkStale
      \/ \E p \in Proc : RegisterUnknown(p)
  BY BootCases
<1> QED
  BY <1>1, <1>2, BootFrame

\* A step of the goroutines starts processes of runners that are not done only.
LEMMA NoRevival ==
  ASSUME TypeOK, ProcessesFollowStarts, [Next]_vars, NEW p \in Proc, Alive(p)'
  PROVE  \/ Alive(p) /\ (rpc[p[1]] \in Running => rpc'[p[1]] \in Running)
         \/ rpc[p[1]] = "start" /\ rpc'[p[1]] \in Running
<1>1. PICK e \in Entry, k \in 1 .. MaxStarts : p = <<e, k>>
  BY DEF Proc
<1> USE DEF TypeOK
<1>2. CASE UNCHANGED <<starts, rpc, proc>>
  BY <1>2 DEF Alive
<1>3. ASSUME NEW f \in Entry, StartProcess(f)
      PROVE  \/ Alive(p) /\ (rpc[e] \in Running => rpc'[e] \in Running)
             \/ rpc[e] = "start" /\ rpc'[e] \in Running
  <2>1. /\ rpc[f] = "start" /\ rpc' = [rpc EXCEPT ![f] = "markTraining"]
        /\ proc' = [proc EXCEPT ![<<f, starts[f] + 1>>] = "up"]
    BY <1>3 DEF StartProcess, RunnerAt
  <2>2. CASE f = e
    BY <2>1, <2>2 DEF Running
  <2>3. CASE f # e
    BY <1>1, <2>1, <2>3 DEF Alive
  <2> QED
    BY <2>2, <2>3
<1>4. ASSUME NEW f \in Entry, ProcessExits(f) PROVE Alive(p) /\ rpc'[e] = rpc[e]
  <2>1. /\ rpc[f] = "wait" /\ rpc' = [rpc EXCEPT ![f] = "exited"] /\ UNCHANGED <<starts, proc>>
        /\ proc[Pid(f)] = "exited"
    BY <1>4 DEF ProcessExits, RunnerAt, procVars
  <2>2. Alive(<<e, k>>)
    BY <1>1, <2>1 DEF Alive
  <2>3. k = starts[e] /\ k # 0
    BY <2>2, LiveIsNewestStart, SupervisorAssumption
  <2>4. f # e
    BY <2>1, <2>2, <2>3 DEF Alive, Pid
  <2> QED
    BY <1>1, <2>1, <2>2, <2>4
<1>5. ASSUME NEW f \in Entry, RunnerMoves(f)
      PROVE  Alive(p) /\ (rpc[e] \in Running => rpc'[e] \in Running)
  BY <1>5 DEF RunnerMoves, RunnerAt, Alive
<1>6. ASSUME NEW q \in Proc, Hang(q) \/ Exit(q) PROVE Alive(p) /\ rpc'[e] = rpc[e]
  BY <1>6 DEF Hang, Exit, Alive, runnerVars
<1> QED
  BY <1>1, <1>2, <1>3, <1>4, <1>5, <1>6, RunnerSteps

LEMMA LiveStep ==
  ASSUME TypeOK, ProcessesFollowStarts, LiveIsRun, [BootNext]_allVars
  PROVE  LiveIsRun'
<1> SUFFICES ASSUME NEW p \in Proc, Alive(p)', p[1] \notin old' PROVE rpc'[p[1]] \in Running
  BY DEF LiveIsRun
<1>1. CASE Crash \/ LabStarts
  <2>1. p[1] \in Entry /\ rpc[p[1]] = "unused" /\ Alive(p)
    BY <1>1, OwnerType DEF Crash, LabStarts, MemoryLost, Alive, procVars
  <2>2. PICK k \in 1 .. MaxStarts : p = <<p[1], k>>
    BY DEF Proc
  <2> QED
    BY <2>1, <2>2, LiveIsNewestStart DEF Running
<1>2. CASE UNCHANGED <<starts, rpc, proc>> /\ old' = old
  BY <1>2 DEF LiveIsRun, Alive
<1>3. CASE [Next]_vars /\ old' = old
  BY <1>3, NoRevival DEF LiveIsRun
<1> QED
  BY <1>1, <1>2, <1>3, OldKept
-----------------------------------------------------------------------------
\* A live process that a crash does not miss is the one its row names, and the
\* boot will list it.
LEMMA CrashListed ==
  ASSUME TypeOK, BootOwn, OneOfEach, ProcessesFollowStarts, LiveIsRun, RowsServe, Crash,
         NEW p \in Proc, Alive(p), p \notin missed'
  PROVE  RowServes(p)
<1>1. PICK e \in Entry, k \in 1 .. MaxStarts : p = <<e, k>>
  BY DEF Proc
<1>2. missed' = missed \cup Missed
  BY DEF Crash
<1> SUFFICES ASSUME ~RowServes(p) PROVE FALSE
  OBVIOUS
<1>3. /\ e \notin old /\ rpc[e] \notin {"markTraining", "markPid"} /\ p \notin unrecorded
      /\ regState[Id[e]] \notin {ABSENT, "UNSTABLE"}
  BY <1>1, <1>2 DEF Missed, Owner
<1>4. rpc[e] = "wait" /\ Fresh(e)
  BY <1>1, <1>3 DEF LiveIsRun, Running, Fresh
<1>5. Pid(e) = p
  BY <1>1, LiveIsNewestStart, SupervisorAssumption DEF Pid
<1> QED
  BY <1>1, <1>3, <1>4, <1>5 DEF RowsServe, RowServes, Shown, Owner

\* While the boot reads the rows, or wipes them, no goroutine writes them.
LEMMA RowsStill ==
  ASSUME TypeOK, OneOfEach, NoCreates, Undisturbed, Supervision, bpc = "list"
  PROVE  UNCHANGED <<regPid, regState>>
<1>1. \A e \in Entry : rpc[e] \in {"unused", "done"}
  BY DEF OneOfEach, Fresh
<1>2. RowsKept
  BY <1>1, RowSteps DEF PublishEntry, MarkTraining, MarkPid, RunnerWrites, RunnerAt, Unpublished
<1> QED
  BY <1>2 DEF RowsKept, RowsGrow

\* An old process does not come to life.
LEMMA OldStayDead ==
  ASSUME TypeOK, OneOfEach, ProcessesFollowStarts, [BootNext]_allVars, ~(Crash \/ LabStarts),
         NEW p \in Proc, Alive(p)', p[1] \in old
  PROVE  Alive(p)
<1>1. CASE UNCHANGED <<starts, rpc, proc>>
  BY <1>1 DEF Alive
<1>2. CASE [Next]_vars
  BY <1>2, NoRevival DEF OneOfEach
<1> QED
  BY <1>1, <1>2, OldKept

LEMMA GhostStep ==
  ASSUME TypeOK, BootOwn, OneOfEach, NoCreates, Undisturbed, ProcessesFollowStarts, LiveIsRun,
         RowsServe, GhostsAreListed, [BootNext]_allVars
  PROVE  GhostsAreListed'
<1> SUFFICES ASSUME NEW p \in Proc, Alive(p)', p[1] \in old', p \notin missed'
             PROVE  /\ bpc' = "list" => RowServes(p)'
                    /\ bpc' \in {"mark", "respawn"} => <<Owner(p), p>> \in todo'
                    /\ bpc' = "up" => failed'
  BY DEF GhostsAreListed, Owner
<1>0. UNCHANGED <<regPid, regState>> => (RowServes(p)' <=> RowServes(p))
  BY DEF RowServes, Owner
<1>1. CASE Crash
  <2>1. Alive(p) /\ bpc' = "list" /\ UNCHANGED <<regPid, regState>>
    BY <1>1 DEF Crash, MemoryLost, Alive, procVars, regVars
  <2> QED
    BY <1>0, <1>1, <2>1, CrashListed
<1>2. CASE LabStarts
  <2>1. /\ Alive(p) /\ p \notin missed /\ lab = "stopped" /\ bpc' = "list"
        /\ UNCHANGED <<regPid, regState>>
        /\ p[1] \in Entry /\ rpc[p[1]] # "unused"
    BY <1>2 DEF LabStarts, MemoryLost, Alive, procVars, regVars
  <2>2. bpc = "list" /\ p[1] \in old
    BY <2>1 DEF Undisturbed, OneOfEach, Fresh
  <2> QED
    BY <1>0, <2>1, <2>2 DEF GhostsAreListed
<1>3. CASE ~(Crash \/ LabStarts)
  <2>1. p[1] \in old /\ p \notin missed /\ Alive(p)
    BY <1>3, OldKept, OldStayDead
  <2>2. /\ bpc = "list" => RowServes(p)
        /\ bpc \in {"mark", "respawn"} => <<Owner(p), p>> \in todo
        /\ bpc = "up" => failed
    BY <2>1 DEF GhostsAreListed
  <2>3. CASE Supervision
    BY <1>0, <2>2, <2>3, RowsStill DEF Supervision, bootVars, recoveryVars
  <2>4. CASE ListRecoverable
    <3>1. /\ bpc = "list" /\ bpc' = "mark"
          /\ todo' = {<<a, regPid[a]>> : a \in {b \in Angel : regState[b] \in Recoverable}}
      BY <2>4 DEF ListRecoverable, BootAt
    <3> QED
      BY <2>2, <3>1, OwnerType DEF RowServes
  <2>5. CASE BootMarkStale
    BY <2>2, <2>5 DEF BootMarkStale, BootAt, recoveryVars
  <2>6. ASSUME NEW r \in todo, KillStale(r[1], r[2]) \/ KillFails(r[1], r[2])
        PROVE  bpc' = "respawn" /\ <<Owner(p), p>> \in todo'
    <3>1. bpc = "respawn" /\ bpc' = "respawn" /\ todo' = todo \ {<<r[1], r[2]>>}
      BY <2>6 DEF KillStale, KillFails, Round, BootAt
    <3>2. p # r[2]
      BY <2>1, <2>6 DEF KillStale, KillFails, Alive
    <3> QED
      BY <2>2, <3>1, <3>2
  <2>7. CASE Respawn
    BY <2>2, <2>7 DEF Respawn, BootAt
  <2>8. CASE RecoveryFails
    BY <2>8 DEF RecoveryFails, BootAt
  <2>9. ASSUME Serve PROVE FALSE
    BY <2>2, <2>9 DEF Serve, BootAt
  <2>10. CASE UNCHANGED <<bpc, failed>> /\ bpc = "up"
    BY <2>2, <2>10
  <2>11. CASE UNCHANGED allVars
    BY <1>0, <2>2, <2>11 DEF allVars, bootVars, recoveryVars, vars, regVars
  <2> QED
    BY <1>3, <2>3, <2>4, <2>5, <2>6, <2>7, <2>8, <2>9, <2>10, <2>11
    DEF BootNext, BootStep, PickId, CreatePicked, ReloadList, ReloadSpawn, RegisterUnknown, Serving,
        recoveryVars, bootVars
<1> QED
  BY <1>1, <1>2, <1>3

\* All that a boot leads to.
GhostInv ==
  /\ TypeOK /\ BootOwn /\ OneOfEach /\ Undisturbed
  /\ ProcessesFollowStarts /\ LiveIsRun /\ RowsServe /\ GhostsAreListed

LEMMA FollowOverBoots ==
  ASSUME TypeOK, ProcessesFollowStarts, [BootNext]_allVars
  PROVE  ProcessesFollowStarts'
<1>1. CASE [Next]_vars
  BY <1>1, StartsStep
<1>2. CASE Forgotten
  BY <1>2, ForgottenRunners DEF ProcessesFollowStarts, Running, Unpublished
<1>3. CASE BootMarkStale \/ \E p \in Proc : RegisterUnknown(p)
  BY <1>3, BootFrame DEF ProcessesFollowStarts
<1> QED
  BY <1>1, <1>2, <1>3, BootSteps

LEMMA GhostInit == BootInit => GhostInv
<1> SUFFICES ASSUME BootInit PROVE GhostInv
  OBVIOUS
<1>1. /\ \A p \in Proc : proc[p] = "unused"
      /\ \A e \in Entry : rpc[e] = "unused"
      /\ \A a \in Angel : term[a] = "none"
      /\ sweep = {} /\ lab = "running"
  BY DEF BootInit, Init
<1> QED
  BY <1>1, BootInitTyped, OneInit, InitStarts
  DEF BootInit, GhostInv, Undisturbed, LiveIsRun, RowsServe, GhostsAreListed, Fresh, Alive

\* A labd that serves after a boot without an error shares the host with no process
\* of an earlier one, but those that no row named or showed running when their labd
\* died, those of a boot that was itself killed, and those it failed to kill
\* (BootRecovery, MarkStale, runAngel).
THEOREM BootFindsTheRest ==
  NoCreates /\ NotStopped => (BootSpec => []GhostsAreMissed)
<1> SUFFICES ASSUME NoCreates, NotStopped PROVE BootSpec => []GhostsAreMissed
  OBVIOUS
<1>1. GhostInv => GhostsAreMissed
  BY DEF GhostInv, GhostsAreListed, GhostsAreMissed, Serving
<1>2. GhostInv /\ [BootNext]_allVars => GhostInv'
  BY TypeOverBoots, OwnStep, OneStep, UndisturbedStep, FollowOverBoots, LiveStep, RowsStep,
     GhostStep DEF GhostInv
<1> QED
  BY <1>1, <1>2, GhostInit, PTL DEF BootSpec
=============================================================================
