----------------------------- MODULE Supervisor -----------------------------
(***************************************************************************)
(* The supervision of angel processes by the Lab daemon: the process table *)
(* and the per-angel goroutines of internal/lab/supervisor.go, the angel   *)
(* connections of internal/lab/server.go (handleAngelConn), the shutdown   *)
(* of internal/lab/daemon.go (Run), with the link trackers of ConnTracker  *)
(* and the rows of Registry.                                               *)
(*                                                                         *)
(* The actors are goroutines: a runner per AngelEntry (runAngel), a        *)
(* handler per angel connection, the heartbeat watcher, the goroutine of a *)
(* recovery timer, the client handlers that call SpawnAngel and            *)
(* TerminateAngel, and the daemon.  A step is one section under one lock,  *)
(* or one SQL statement; sections that touch disjoint variables and whose  *)
(* order nobody can observe are one step.                                  *)
(*                                                                         *)
(* There is no clock.  A timer may fire and a deadline may pass whenever   *)
(* it is pending: the handler of a connection can be late by any time,     *)
(* since it writes its events to the one database connection first.        *)
(***************************************************************************)
EXTENDS ConnTracker, Registry, FiniteSets

CONSTANTS
  Id,           \* Id[e]: the angel identifier that the e-th SpawnAngel is given
  MaxRestarts,  \* Supervisor.MaxRestarts of the configuration
  MaxStarts,    \* bound: starts of one entry's runner that the model follows
  MaxUnread,    \* bound: unread heartbeats in the socket buffer of a connection
  NoEntry, NoConn,
  Stimuli       \* what happens to the system in this instance, see Stimulus

\* connect: processes get as far as dialing Lab; without it they exit before.
\* hang: a process stops running without exiting.  slow: a heartbeat of a
\* running process comes after the read deadline or the heartbeat timeout.
\* late: a restart may overtake what Lab still does for the dead process.
\* startfail: cmd.Start() fails.  terminate: operators call angel.terminate.
\* shutdown: the daemon is stopped.  dberror: any statement may fail (the disk is
\* full, the file is locked).
Stimulus == {"connect", "hang", "slow", "late", "terminate", "shutdown",
              "startfail", "dberror"}

ASSUME SupervisorAssumption ==
  /\ Id \in [Entry -> Angel]
  /\ MaxRestarts \in Nat
  /\ MaxStarts \in Nat
  /\ MaxUnread \in Nat
  /\ Stimuli \subseteq Stimulus
  /\ NoEntry \notin Entry
  /\ NoPid \notin Entry \X (1 .. MaxStarts)
  /\ NoConn \notin Entry \X (1 .. MaxStarts)

\* The k-th process an entry's runner starts.  It dials once, so it is also the
\* name of its connection.
Proc == Entry \X (1 .. MaxStarts)
Owner(p) == Id[p[1]]

RunnerPC == {"unused", "publish", "start", "markTraining", "markPid", "wait",
             "exited", "pause", "increment", "readCount", "contain", "backoff",
             "done"}
HandlerPC == {"none", "first", "bind", "persistTraining", "loop",
              "persistActive", "lost", "done"}

VARIABLES
  current,      \* Supervisor.angels: the entry of an id, or NoEntry
  state,        \* AngelEntry.State
  conn,         \* AngelEntry.conn
  lastHb,       \* AngelEntry.LastHeartbeat: "zero", "fresh", "stale"
  restarts,     \* AngelEntry.RestartCount
  starts,       \* how many processes the runner has started; the last is the PID
  rpc,          \* where the runner of an entry is
  proc,         \* the OS process: "unused", "up", "hung", "exited"
  signalled,    \* the processes that were sent SIGTERM while alive
  unrecorded,   \* the processes whose state TRAINING or PID could not be written
  unread,       \* heartbeats in the socket buffer of a connection
  hpc,          \* where the handler of a connection is
  hentry,       \* the entry that handler looked up last
  wpc, wentry,  \* the watcher: "idle", "mark", "persist", and the entry
  term,         \* TerminateAngel on an id: "none", "cli", "sweep" (signal sent)
  sweep,        \* ids TerminateAll has still to terminate
  lab           \* "running", "cancelled", "sweeping", "stopped"

tableVars   == <<current>>
entryVars   == <<state, conn, lastHb, restarts>>
runnerVars  == <<starts, rpc>>
procVars    == <<proc, signalled, unrecorded>>
handlerVars == <<unread, hpc, hentry>>
watchVars   == <<wpc, wentry>>
stopVars    == <<term, sweep, lab>>

vars == <<ctVars, regVars, tableVars, entryVars, runnerVars, procVars,
          handlerVars, watchVars, stopVars>>

TypeOK ==
  /\ CTTypeOK
  /\ regState \in [Angel -> AngelState \cup {ABSENT}]
  /\ regPid \in [Angel -> Proc \cup {NoPid}]
  /\ regCount \in [Angel -> Nat]
  /\ current \in [Angel -> Entry \cup {NoEntry}]
  /\ state \in [Entry -> AngelState]
  /\ conn \in [Entry -> Proc \cup {NoConn}]
  /\ lastHb \in [Entry -> {"zero", "fresh", "stale"}]
  /\ restarts \in [Entry -> Nat]
  /\ starts \in [Entry -> 0 .. MaxStarts]
  /\ rpc \in [Entry -> RunnerPC]
  /\ proc \in [Proc -> {"unused", "up", "hung", "exited"}]
  /\ signalled \subseteq Proc
  /\ unrecorded \subseteq Proc \cup {NoPid}
  /\ unread \in [Proc -> 0 .. MaxUnread]
  /\ hpc \in [Proc -> HandlerPC]
  /\ hentry \in [Proc -> Entry \cup {NoEntry}]
  /\ wpc \in {"idle", "mark", "persist"}
  /\ wentry \in Entry \cup {NoEntry}
  /\ wpc # "idle" => wentry \in Entry
  /\ term \in [Angel -> {"none", "cli", "sweep"}]
  /\ sweep \subseteq Angel
  /\ lab \in {"running", "cancelled", "sweeping", "stopped"}

Init ==
  /\ CTInit /\ RegInit
  /\ current = [a \in Angel |-> NoEntry]
  /\ state = [e \in Entry |-> "CREATED"]
  /\ conn = [e \in Entry |-> NoConn]
  /\ lastHb = [e \in Entry |-> "zero"]
  /\ restarts = [e \in Entry |-> 0]
  /\ starts = [e \in Entry |-> 0]
  /\ rpc = [e \in Entry |-> "unused"]
  /\ proc = [p \in Proc |-> "unused"]
  /\ signalled = {} /\ unrecorded = {}
  /\ unread = [p \in Proc |-> 0]
  /\ hpc = [p \in Proc |-> "none"]
  /\ hentry = [p \in Proc |-> NoEntry]
  /\ wpc = "idle" /\ wentry = NoEntry
  /\ term = [a \in Angel |-> "none"]
  /\ sweep = {}
  /\ lab = "running"
-----------------------------------------------------------------------------
LabUp == lab # "stopped"            \* labd runs
Cancelled == lab # "running"        \* ctx.Done() is closed

Pid(e) == IF starts[e] = 0 THEN NoPid ELSE <<e, starts[e]>>
Alive(p) == proc[p] \in {"up", "hung"}

\* verifyAngelPID and syscall.Kill(SIGTERM) on the entry's PID.  A PID is not
\* given to another process here, so the check fails exactly on a dead one.
Signalled(e) == signalled \cup {p \in Proc : p = Pid(e) /\ Alive(p)}

RunnerAt(e, from, to) ==
  /\ LabUp
  /\ rpc[e] = from
  /\ rpc' = [rpc EXCEPT ![e] = to]

HandlerAt(p, from, to) ==
  /\ LabUp
  /\ hpc[p] = from
  /\ hpc' = [hpc EXCEPT ![p] = to]

\* The handler's loop looks at ctx.Done() before each Recv.
NextFrame == IF Cancelled THEN "done" ELSE "loop"

\* A statement fails and the row stays as it is.
WriteFails == "dberror" \in Stimuli /\ UNCHANGED regVars

\* A call of UpdateState: every caller drops its error.
StoreState(a, s) == UpdateState(a, s) \/ WriteFails
-----------------------------------------------------------------------------
(* SpawnAngel: row, entry, table, goroutine.  No step looks whether the id   *)
(* is in the table already.                                                  *)

SpawnAngel(e) ==
  /\ RunnerAt(e, "unused", "publish")
  /\ UpsertCreated(Id[e]) \/ WriteFails
  /\ Transition(e, "CONNECTING")
  /\ UNCHANGED <<tableVars, entryVars, starts, procVars, handlerVars, watchVars, stopVars>>

\* The write lock of the table waits for the watcher's read lock.
PublishEntry(e) ==
  /\ wpc = "idle"
  /\ RunnerAt(e, "publish", "start")
  /\ current' = [current EXCEPT ![Id[e]] = e]
  /\ UNCHANGED <<ctVars, regVars, entryVars, starts, procVars, handlerVars, watchVars, stopVars>>
-----------------------------------------------------------------------------
(* runAngel.                                                                 *)

StartProcess(e) ==
  /\ starts[e] < MaxStarts
  /\ RunnerAt(e, "start", "markTraining")
  /\ starts' = [starts EXCEPT ![e] = @ + 1]
  /\ proc' = [proc EXCEPT ![<<e, starts[e] + 1>>] = "up"]
  /\ UNCHANGED <<ctVars, regVars, tableVars, entryVars, signalled, unrecorded, handlerVars, watchVars, stopVars>>

\* cmd.Start() fails: the runner gives up, whatever the restart policy says.
StartFails(e) ==
  /\ "startfail" \in Stimuli
  /\ RunnerAt(e, "start", "done")
  /\ StoreState(Id[e], "UNSTABLE")
  /\ UNCHANGED <<ctVars, tableVars, entryVars, starts, procVars, handlerVars, watchVars, stopVars>>

MarkTraining(e) ==
  /\ RunnerAt(e, "markTraining", "markPid")
  /\ \/ UpdateState(Id[e], "TRAINING") /\ UNCHANGED unrecorded
     \/ WriteFails /\ unrecorded' = unrecorded \cup {Pid(e)}
  /\ UNCHANGED <<ctVars, tableVars, entryVars, starts, proc, signalled, handlerVars, watchVars, stopVars>>

\* Never writes the PID of the new process.
MarkPidSkipped(e) ==
  /\ RunnerAt(e, "markPid", "wait")
  /\ UNCHANGED <<ctVars, regVars, tableVars, entryVars, starts, procVars, handlerVars, watchVars, stopVars>>

MarkPid(e) ==
  /\ RunnerAt(e, "markPid", "wait")
  /\ \/ UpdatePID(Id[e], Pid(e)) /\ UNCHANGED unrecorded
     \/ WriteFails /\ unrecorded' = unrecorded \cup {Pid(e)}
  /\ UNCHANGED <<ctVars, tableVars, entryVars, starts, proc, signalled, handlerVars, watchVars, stopVars>>

\* Also returns when the IPC link breaks, the process alive or not.
ProcessExitsOnDisconnect(e) ==
  /\ RunnerAt(e, "wait", "exited")
  /\ \/ proc[Pid(e)] = "exited"
     \/ hpc[Pid(e)] = "done"
  /\ state' = [state EXCEPT ![e] = "UNSTABLE"]
  /\ conn' = [conn EXCEPT ![e] = NoConn]
  /\ UNCHANGED <<ctVars, regVars, tableVars, lastHb, restarts, starts, procVars, handlerVars, watchVars, stopVars>>

\* cmd.Wait() returns; the row is not told that the angel is UNSTABLE.
ProcessExits(e) ==
  /\ RunnerAt(e, "wait", "exited")
  /\ proc[Pid(e)] = "exited"
  /\ state' = [state EXCEPT ![e] = "UNSTABLE"]
  /\ conn' = [conn EXCEPT ![e] = NoConn]
  /\ UNCHANGED <<ctVars, regVars, tableVars, lastHb, restarts, starts, procVars, handlerVars, watchVars, stopVars>>

\* In a recovery window the runner pauses for 500 ms first.
ApplyPolicy(e) ==
  /\ RunnerAt(e, "exited", IF ct[e] = "RECOVERING" THEN "pause" ELSE "increment")
  /\ UNCHANGED <<ctVars, regVars, tableVars, entryVars, starts, procVars, handlerVars, watchVars, stopVars>>

\* Waits for the recovery window to end.
PauseOverAfterWindow(e) ==
  /\ ct[e] # "RECOVERING"
  /\ RunnerAt(e, "pause", "increment")
  /\ UNCHANGED <<ctVars, regVars, tableVars, entryVars, starts, procVars, handlerVars, watchVars, stopVars>>

PauseOver(e) ==
  /\ RunnerAt(e, "pause", "increment")
  /\ UNCHANGED <<ctVars, regVars, tableVars, entryVars, starts, procVars, handlerVars, watchVars, stopVars>>

\* ctx.Done() in the pause or in the backoff.
RunnerCancelled(e) ==
  /\ Cancelled
  /\ \E from \in {"pause", "backoff"} : RunnerAt(e, from, "done")
  /\ StoreState(Id[e], "TERMINATED")
  /\ UNCHANGED <<ctVars, tableVars, entryVars, starts, procVars, handlerVars, watchVars, stopVars>>

CountRestart(e) ==
  /\ RunnerAt(e, "increment", "readCount")
  /\ IncrementRestarts(Id[e])
  /\ UNCHANGED <<ctVars, tableVars, entryVars, starts, procVars, handlerVars, watchVars, stopVars>>

\* Lets one restart too many through.
AfterCountOffByOne(count) == IF count > MaxRestarts THEN "contain" ELSE "backoff"

AfterCount(count) == IF count >= MaxRestarts THEN "contain" ELSE "backoff"

\* Counts the restarts of this entry alone.
ReadCountOwn(e) ==
  /\ RunnerAt(e, "readCount", AfterCount(starts[e]))
  /\ restarts' = [restarts EXCEPT ![e] = starts[e]]
  /\ UNCHANGED <<ctVars, regVars, tableVars, state, conn, lastHb, starts, procVars, handlerVars, watchVars, stopVars>>

ReadCount(e) ==
  /\ RunnerAt(e, "readCount", AfterCount(regCount[Id[e]]))
  /\ restarts' = [restarts EXCEPT ![e] = regCount[Id[e]]]
  /\ UNCHANGED <<ctVars, regVars, tableVars, state, conn, lastHb, starts, procVars, handlerVars, watchVars, stopVars>>

\* The UPDATE or the SELECT fails, or there is no row: IncrementRestarts returns 0
\* and the error is dropped.
CountFails(e) ==
  /\ "dberror" \in Stimuli
  /\ \E from \in {"increment", "readCount"} : RunnerAt(e, from, AfterCount(0))
  /\ restarts' = [restarts EXCEPT ![e] = 0]
  /\ UNCHANGED <<ctVars, regVars, tableVars, state, conn, lastHb, starts, procVars, handlerVars, watchVars, stopVars>>

Contain(e) ==
  /\ RunnerAt(e, "contain", "done")
  /\ StoreState(Id[e], "CONTAINED")
  /\ UNCHANGED <<ctVars, tableVars, entryVars, starts, procVars, handlerVars, watchVars, stopVars>>

\* The backoff, 5 s, has outlasted what Lab still did for the dead process: the
\* handler of its connection and the goroutine of its recovery timer.
BackoffOutlasts(e) ==
  /\ expiry[e] = "none"
  /\ \A p \in Proc : p[1] = e => hpc[p] \in {"none", "done"}

\* Restarts with the link state and the timer of the dead process.
RestartKeepsTracker(e) ==
  /\ "late" \in Stimuli \/ BackoffOutlasts(e)
  /\ RunnerAt(e, "backoff", "start")
  /\ conn' = [conn EXCEPT ![e] = NoConn]
  /\ lastHb' = [lastHb EXCEPT ![e] = "zero"]
  /\ UNCHANGED <<ctVars, regVars, tableVars, state, restarts, starts, procVars, handlerVars, watchVars, stopVars>>

\* The backoff is over: entry_resetConn, and the loop starts again.
Restart(e) ==
  /\ "late" \in Stimuli \/ BackoffOutlasts(e)
  /\ RunnerAt(e, "backoff", "start")
  /\ conn' = [conn EXCEPT ![e] = NoConn]
  /\ lastHb' = [lastHb EXCEPT ![e] = "zero"]
  /\ ResetTracker(e)
  /\ UNCHANGED <<regVars, tableVars, state, restarts, starts, procVars, handlerVars, watchVars, stopVars>>
-----------------------------------------------------------------------------
(* The angel processes: cmd/angel, which dials, registers and sends a        *)
(* heartbeat at once and then one per interval, and never reads.             *)

\* Dial, HELLO and REGISTER: the first frame waits in the socket.
Connect(p) ==
  /\ "connect" \in Stimuli
  /\ proc[p] = "up"
  /\ HandlerAt(p, "none", "first")
  /\ UNCHANGED <<ctVars, regVars, tableVars, entryVars, runnerVars, procVars, unread, hentry, watchVars, stopVars>>

SendHeartbeat(p) ==
  /\ LabUp
  /\ proc[p] = "up" /\ hpc[p] \notin {"none", "done"}
  /\ unread[p] < MaxUnread
  /\ unread' = [unread EXCEPT ![p] = @ + 1]
  /\ UNCHANGED <<ctVars, regVars, tableVars, entryVars, runnerVars, procVars, hpc, hentry, watchVars, stopVars>>

Hang(p) ==
  /\ "hang" \in Stimuli
  /\ proc[p] = "up"
  /\ proc' = [proc EXCEPT ![p] = "hung"]
  /\ UNCHANGED <<ctVars, regVars, tableVars, entryVars, runnerVars, signalled, unrecorded, handlerVars, watchVars, stopVars>>

Exit(p) ==
  /\ Alive(p)
  /\ proc' = [proc EXCEPT ![p] = "exited"]
  /\ UNCHANGED <<ctVars, regVars, tableVars, entryVars, runnerVars, signalled, unrecorded, handlerVars, watchVars, stopVars>>

\* A process may crash at any time.  It must exit once SIGTERM is sent, for
\* which no angel installs a handler, or when it runs and its heartbeats fail.
MustExit(p) ==
  \/ p \in signalled
  \/ proc[p] = "up" /\ (hpc[p] = "done" \/ ~LabUp)
-----------------------------------------------------------------------------
(* handleAngelConn: RegisterConn, HandleHeartbeat, MarkConnLost.  Frames that *)
(* a process sent before it exited are read after it.                        *)

\* RegisterConn looks the entry up and marks the tracker recovered ...
RegisterConn(p) ==
  LET e == current[Owner(p)]
  IN  /\ e # NoEntry
      /\ HandlerAt(p, "first", "bind")
      /\ hentry' = [hentry EXCEPT ![p] = e]
      /\ MarkRecovered(e)
      /\ UNCHANGED <<regVars, tableVars, entryVars, runnerVars, procVars, unread, watchVars, stopVars>>

\* ... binds the connection to the entry ...
BindConn(p) ==
  /\ HandlerAt(p, "bind", "persistTraining")
  /\ conn' = [conn EXCEPT ![hentry[p]] = p]
  /\ state' = [state EXCEPT ![hentry[p]] = "TRAINING"]
  /\ UNCHANGED <<ctVars, regVars, tableVars, lastHb, restarts, runnerVars, procVars, unread, hentry, watchVars, stopVars>>

\* ... and writes the row.
PersistTraining(p) ==
  /\ HandlerAt(p, "persistTraining", NextFrame)
  /\ Transition(hentry[p], "REGISTERED")
  /\ StoreState(Owner(p), "TRAINING")
  /\ UNCHANGED <<tableVars, entryVars, runnerVars, procVars, unread, hentry, watchVars, stopVars>>

\* A heartbeat makes the entry ACTIVE from any state; only the first one after
\* TRAINING is written to the row.
HandleHeartbeat(p) ==
  LET e == current[Owner(p)]
  IN  /\ unread[p] > 0
      /\ HandlerAt(p, "loop", IF state[e] = "TRAINING" THEN "persistActive" ELSE NextFrame)
      /\ unread' = [unread EXCEPT ![p] = @ - 1]
      /\ hentry' = [hentry EXCEPT ![p] = e]
      /\ state' = [state EXCEPT ![e] = "ACTIVE"]
      /\ lastHb' = [lastHb EXCEPT ![e] = "fresh"]
      /\ UNCHANGED <<ctVars, regVars, tableVars, conn, restarts, runnerVars, procVars, watchVars, stopVars>>

PersistActive(p) ==
  /\ HandlerAt(p, "persistActive", NextFrame)
  /\ Transition(hentry[p], "ACTIVE")
  /\ StoreState(Owner(p), "ACTIVE")
  /\ UNCHANGED <<tableVars, entryVars, runnerVars, procVars, unread, hentry, watchVars, stopVars>>

\* Recv fails on an empty socket: end of file, or 10 s of silence.
RecvFails(p) ==
  /\ unread[p] = 0
  /\ proc[p] # "up" \/ "slow" \in Stimuli

\* Leaves the closed connection in the entry.
MarkConnLostKeepsConn(p) ==
  LET e == current[Owner(p)]
  IN  /\ RecvFails(p)
      /\ HandlerAt(p, "loop", "lost")
      /\ hentry' = [hentry EXCEPT ![p] = e]
      /\ UNCHANGED <<ctVars, regVars, tableVars, entryVars, runnerVars, procVars, unread, watchVars, stopVars>>

\* MarkConnLost drops whatever connection the entry has ...
MarkConnLost(p) ==
  LET e == current[Owner(p)]
  IN  /\ RecvFails(p)
      /\ HandlerAt(p, "loop", "lost")
      /\ hentry' = [hentry EXCEPT ![p] = e]
      /\ conn' = [conn EXCEPT ![e] = NoConn]
      /\ UNCHANGED <<ctVars, regVars, tableVars, state, lastHb, restarts, runnerVars, procVars, unread, watchVars, stopVars>>

\* The handler returns without a recovery window.
OpenWindowSkipped(p) ==
  /\ HandlerAt(p, "lost", "done")
  /\ UNCHANGED <<ctVars, regVars, tableVars, entryVars, runnerVars, procVars, unread, hentry, watchVars, stopVars>>

\* ... and opens the entry's recovery window; the handler closes the connection.
OpenWindow(p) ==
  /\ HandlerAt(p, "lost", "done")
  /\ MarkLost(hentry[p])
  /\ UNCHANGED <<regVars, tableVars, entryVars, runnerVars, procVars, unread, hentry, watchVars, stopVars>>
-----------------------------------------------------------------------------
(* The recovery timer.                                                       *)

RecoveryTimerFires(e) ==
  /\ LabUp
  /\ TimerFires(e)
  /\ UNCHANGED <<regVars, tableVars, entryVars, runnerVars, procVars, handlerVars, watchVars, stopVars>>

RecoveryTimerChecks(e) ==
  /\ LabUp
  /\ CheckWindow(e)
  /\ UNCHANGED <<regVars, tableVars, entryVars, runnerVars, procVars, handlerVars, watchVars, stopVars>>

\* onExpired signals the process the entry has now.
KillUnresponsive(e) ==
  /\ LabUp
  /\ WindowExpired(e)
  /\ signalled' = Signalled(e)
  /\ UNCHANGED <<regVars, tableVars, entryVars, runnerVars, proc, unrecorded, handlerVars, watchVars, stopVars>>
-----------------------------------------------------------------------------
(* checkHeartbeats, under the read lock of the table from the first entry to *)
(* the last.  The entry's lock is dropped between the look and the mark.     *)

\* More than HeartbeatTimeout passes without a heartbeat.
HeartbeatAges(e) ==
  /\ LabUp
  /\ lastHb[e] = "fresh"
  /\ "slow" \in Stimuli \/ \A p \in Proc : p = Pid(e) => proc[p] # "up"
  /\ lastHb' = [lastHb EXCEPT ![e] = "stale"]
  /\ UNCHANGED <<ctVars, regVars, tableVars, state, conn, restarts, runnerVars, procVars, handlerVars, watchVars, stopVars>>

\* The watcher skips what it saw fresh, and what it saw stale but not ACTIVE.  A
\* cancellation ends it between two looks at the table, not within one.
FindStale(e) ==
  /\ LabUp
  /\ wpc = "idle" /\ current[Id[e]] = e
  /\ state[e] = "ACTIVE" /\ lastHb[e] = "stale"
  /\ wpc' = "mark" /\ wentry' = e
  /\ UNCHANGED <<ctVars, regVars, tableVars, entryVars, runnerVars, procVars, handlerVars, stopVars>>

\* Logs the missed heartbeat and changes nothing.
MarkUnstableSkipped ==
  /\ LabUp
  /\ wpc = "mark" /\ wpc' = "persist"
  /\ UNCHANGED <<ctVars, regVars, tableVars, entryVars, runnerVars, procVars, handlerVars, wentry, stopVars>>

\* Takes the label from the other state machine: AngelState is a string type.
MarkUnstableMislabelled ==
  /\ LabUp
  /\ wpc = "mark" /\ wpc' = "persist"
  /\ state' = [state EXCEPT ![wentry] = "LOST"]
  /\ UNCHANGED <<ctVars, regVars, tableVars, conn, lastHb, restarts, runnerVars, procVars, handlerVars, wentry, stopVars>>

MarkUnstable ==
  /\ LabUp
  /\ wpc = "mark" /\ wpc' = "persist"
  /\ state' = [state EXCEPT ![wentry] = "UNSTABLE"]
  /\ UNCHANGED <<ctVars, regVars, tableVars, conn, lastHb, restarts, runnerVars, procVars, handlerVars, wentry, stopVars>>

PersistUnstable ==
  /\ LabUp
  /\ wpc = "persist" /\ wpc' = "idle"
  /\ StoreState(Id[wentry], "UNSTABLE")
  /\ UNCHANGED <<ctVars, tableVars, entryVars, runnerVars, procVars, handlerVars, wentry, stopVars>>
-----------------------------------------------------------------------------
(* TerminateAngel, called by a client or by TerminateAll.  The terminate     *)
(* frame it sends first is never read by an angel.                           *)

TerminateAngel(a, caller) ==
  /\ LabUp
  /\ term[a] = "none" /\ current[a] # NoEntry
  /\ \/ caller = "cli" /\ ~Cancelled /\ "terminate" \in Stimuli
     \/ caller = "sweep" /\ a \in sweep
  /\ signalled' = Signalled(current[a])
  /\ term' = [term EXCEPT ![a] = caller]
  /\ UNCHANGED <<ctVars, regVars, tableVars, entryVars, runnerVars, proc, unrecorded, handlerVars, watchVars, sweep, lab>>

PersistTerminated(a) ==
  /\ LabUp
  /\ term[a] # "none"
  /\ StoreState(a, "TERMINATED")
  /\ term' = [term EXCEPT ![a] = "none"]
  /\ sweep' = IF term[a] = "sweep" THEN sweep \ {a} ELSE sweep
  /\ UNCHANGED <<ctVars, tableVars, entryVars, runnerVars, procVars, handlerVars, watchVars, lab>>

\* SIGTERM to labd closes ctx.Done().
Cancel ==
  /\ "shutdown" \in Stimuli
  /\ lab = "running" /\ lab' = "cancelled"
  /\ UNCHANGED <<ctVars, regVars, tableVars, entryVars, runnerVars, procVars, handlerVars, watchVars, term, sweep>>

\* TerminateAll collects the ids ...
TerminateAll ==
  /\ lab = "cancelled" /\ lab' = "sweeping"
  /\ sweep' = {a \in Angel : /\ current[a] # NoEntry
                             /\ state[current[a]] \notin {"TERMINATED", "CONTAINED"}}
  /\ UNCHANGED <<ctVars, regVars, tableVars, entryVars, runnerVars, procVars, handlerVars, watchVars, term>>

\* Waits for the processes of all angels to exit.
LabExitsAfterAngels ==
  /\ lab = "sweeping" /\ sweep = {}
  /\ \A p \in Proc : ~Alive(p)
  /\ lab' = "stopped"
  /\ UNCHANGED <<ctVars, regVars, tableVars, entryVars, runnerVars, procVars, handlerVars, watchVars, term, sweep>>

\* ... and labd exits once each is terminated, without waiting for a process.
LabExits ==
  /\ lab = "sweeping" /\ sweep = {}
  /\ lab' = "stopped"
  /\ UNCHANGED <<ctVars, regVars, tableVars, entryVars, runnerVars, procVars, handlerVars, watchVars, term, sweep>>
-----------------------------------------------------------------------------
Runner(e) ==
  \/ PublishEntry(e) \/ StartProcess(e) \/ MarkTraining(e) \/ MarkPid(e)
  \/ ProcessExits(e) \/ ApplyPolicy(e) \/ PauseOver(e) \/ RunnerCancelled(e)
  \/ CountRestart(e) \/ ReadCount(e) \/ CountFails(e) \/ Contain(e) \/ Restart(e)

Timer(e) == RecoveryTimerFires(e) \/ RecoveryTimerChecks(e) \/ KillUnresponsive(e)

Handler(p) ==
  \/ RegisterConn(p) \/ BindConn(p) \/ PersistTraining(p) \/ HandleHeartbeat(p)
  \/ PersistActive(p) \/ MarkConnLost(p) \/ OpenWindow(p)

Watcher == \/ \E e \in Entry : FindStale(e)
           \/ MarkUnstable \/ PersistUnstable

Process(p) == Connect(p) \/ SendHeartbeat(p) \/ Hang(p) \/ Exit(p)

Next ==
  \/ \E e \in Entry : SpawnAngel(e) \/ Runner(e) \/ StartFails(e) \/ Timer(e) \/ HeartbeatAges(e)
  \/ \E p \in Proc : Process(p) \/ Handler(p)
  \/ Watcher
  \/ \E a \in Angel : \/ \E caller \in {"cli", "sweep"} : TerminateAngel(a, caller)
                      \/ PersistTerminated(a)
  \/ Cancel \/ TerminateAll \/ LabExits

Spec == Init /\ [][Next]_vars

\* What the scheduler and the timers of the code owe: every goroutine that can
\* run does, a pending timer fires, a deadline on an empty socket passes, time
\* ages a heartbeat, and a process that must exit exits.  Clients, crashes,
\* hangs and the frames of a process are under no obligation.
Fairness ==
  /\ \A e \in Entry : /\ WF_vars(Runner(e)) /\ WF_vars(HeartbeatAges(e))
                      /\ WF_vars(RecoveryTimerFires(e)) /\ WF_vars(RecoveryTimerChecks(e))
                      /\ WF_vars(KillUnresponsive(e))
  /\ \A p \in Proc : WF_vars(Handler(p)) /\ WF_vars(MustExit(p) /\ Exit(p))
  /\ WF_vars(Watcher)
  /\ \A a \in Angel : WF_vars(TerminateAngel(a, "sweep")) /\ WF_vars(PersistTerminated(a))
  /\ WF_vars(TerminateAll) /\ WF_vars(LabExits)

FairSpec == Spec /\ Fairness
-----------------------------------------------------------------------------
\* No process of a running Lab is without a supervisor: the runner of its entry
\* has just started it or waits for it, so its exit is seen and answered
\* (runAngel).  With it goes that an entry never has two live processes.
LiveProcessHasRunner ==
  LabUp => \A p \in Proc :
             Alive(p) => /\ p = Pid(p[1])
                         /\ rpc[p[1]] \in {"markTraining", "markPid", "wait"}

\* A runner never starts more than MaxRestarts processes (one, if that is 0),
\* however often an operator creates the id again, and although the count is
\* kept in the row and shared with other runners (runAngel, IncrementRestarts).
StartsWithinBudget == \A e \in Entry : starts[e] <= MaxRestarts \/ starts[e] <= 1

\* The runners of an id share its restarts: together they restart it at most
\* MaxRestarts - 1 times, one process per SpawnAngel apart (IncrementRestarts
\* and its SELECT interleave with those of the other runners).
RestartsAreShared ==
  MaxRestarts > 0 => \A a \in Angel :
    Cardinality({p \in Proc : Owner(p) = a /\ proc[p] # "unused"})
      <= Cardinality({e \in Entry : Id[e] = a /\ starts[e] > 0}) + (MaxRestarts - 1)

\* The row of an id, if it could be inserted, names its live process and shows it
\* started, whatever the handlers of it and of its predecessors, the watcher and
\* the operators write to it, or fail to write: false only from the start to
\* UpdatePID, and for a process of which one of these two statements failed, for
\* nobody writes them again (runAngel, for BootRecovery).
LiveProcessIsRecorded ==
  LabUp => \A p \in Proc :
    (Alive(p) /\ rpc[p[1]] = "wait" /\ p \notin unrecorded /\ regState[Owner(p)] # ABSENT)
      => regPid[Owner(p)] = p /\ regState[Owner(p)] \notin {"CREATED", "CONTAINED"}

\* The connection in the entry of an id is one whose handler still reads it:
\* TerminateAngel never sends on a connection that is closed, although anybody
\* who reports a loss clears the field (RegisterConn, MarkConnLost).
ConnIsServed ==
  ~Cancelled => \A e \in Entry : \A p \in Proc :
    (current[Id[e]] = e /\ conn[e] = p)
      => hpc[p] \in {"persistTraining", "loop", "persistActive"}

\* An angel whose link is lost and whose process lives has its end on the way: a
\* timer pending, its goroutine running, or SIGTERM sent (MarkLost).
LostLinkIsTimed ==
  LabUp => \A e \in Entry : \A p \in Proc :
    (p = Pid(e) /\ Alive(p) /\ hpc[p] = "done" /\ ct[e] = "RECOVERING")
      => armed[e] \/ expiry[e] # "none" \/ p \in signalled

\* Lab sends SIGTERM to a process only after it lost that process's own
\* connection, or on a terminate command (MarkConnLost, TerminateAngel).
SignalHasCause ==
  [][\A p \in signalled' \ signalled : hpc[p] = "done" \/ term'[Owner(p)] # "none"]_vars

\* A registered angel that stops sending is gone in the end: its link times
\* out, the window expires, and the process is killed.
RegisteredHangIsKilled ==
  \A p \in Proc : (proc[p] = "hung" /\ hpc[p] # "none" /\ LabUp) ~> (proc[p] = "exited" \/ ~LabUp)

\* The exit of a process is answered: the angel is started again, or its runner
\* has given it up.
ExitIsAnswered ==
  \A e \in Entry : (rpc[e] = "exited") ~> (rpc[e] = "done" \/ rpc[e] = "wait" \/ ~LabUp)

\* An angel that nobody runs is not shown ACTIVE for good, although heartbeats
\* of the dead process may still be read (HandleHeartbeat, checkHeartbeats).
DeadAngelLeavesActive ==
  \A e \in Entry : (rpc[e] = "done" /\ state[e] = "ACTIVE")
                     ~> (state[e] # "ACTIVE" \/ Cancelled)

\* Shutdown comes to its end.
ShutdownCompletes == Cancelled ~> lab = "stopped"
-----------------------------------------------------------------------------
(* The refinement: a life per entry, which the runner begins and ends.       *)

PhaseAt(r) == IF r = "unused" THEN "idle" ELSE IF r = "done" THEN "ended" ELSE "begun"

LifePhase == [e \in Entry |-> PhaseAt(rpc[e])]

LifeUp == {e \in Entry : \E p \in Proc : p[1] = e /\ Alive(p)}

Policy == INSTANCE RestartPolicy
            WITH Life <- Entry, phase <- LifePhase, runs <- starts, up <- LifeUp

\* Every behaviour of the supervisor, seen from its processes, is one of the
\* restart policy: no second process of an entry, none after the end, none
\* beyond the budget, and no end that leaves one (runAngel, IncrementRestarts).
ImplementsPolicy == Policy!LifeSpec
-----------------------------------------------------------------------------
\* docs/failure-semantics.md, guarantee 5: one restart goroutine per angel.
AtMostOneRunner ==
  \A e, f \in Entry :
    (e # f /\ Id[e] = Id[f]) => \/ rpc[e] \in {"unused", "publish", "done"}
                                \/ rpc[f] \in {"unused", "publish", "done"}
=============================================================================
