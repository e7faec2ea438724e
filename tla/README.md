# AngelLab: a verification of its daemon and its angels

AngelLab runs small monitoring processes, the *angels*, under a daemon, *labd*.
labd starts each angel, hears its heartbeats over a Unix socket, notices when it
dies, hangs or falls silent, restarts it within a budget, and keeps what it knows
in an SQLite table so that the next labd can clean up. The angels watch files,
memory, processes and connections, and report events that labd passes on to the
clients that follow. This directory holds TLA+ models of labd and of the angels,
the TLC runs that check them, and machine-checked proofs. Every definition is
translated from the Go source; `PROJECT.json` ("map") names the lines each one
stands for; paths below are relative to `src/`.

## 1. Inventory

| component | state | operations | what makes it correct |
|---|---|---|---|
| Supervisor (`internal/lab/supervisor.go`) | table id → entry; per entry State, PID, conn, LastHeartbeat, RestartCount | SpawnAngel, runAngel, RegisterConn, HandleHeartbeat, MarkConnLost, checkHeartbeats, TerminateAngel, TerminateAll, BootRecovery | every live process has a supervisor; restarts are bounded; silent processes are killed, and only those; a new labd finds what the old one left |
| Connection tracker (`internal/lab/connection.go`) | link state, recovery timer | Transition, MarkLost, MarkRecovered, timer function | a lost link ends in a reconnect or a kill |
| Registry (`pkg/registry`) | SQLite: angels, events | Insert, UpdateState, UpdatePID, IncrementRestarts, ListRecoverable, MarkStale, InsertEvent | the row names the live process and its state |
| Socket server, angel connections (`internal/lab/server.go`) | one goroutine per connection | handleAngelConn, handleEvent | frames are handled in order; each loss is reported once |
| Socket server, client commands (same file) | none | angel.create, angel.terminate, event stream | no id has two runners but by its creator's choice; a stream ends with its client |
| Event broadcaster (`internal/lab/broadcaster.go`) | subscribers' channels | Subscribe, Publish, cancel | no send on a closed channel; a slow reader harms itself only |
| Daemon (`internal/lab/daemon.go`, `cmd/labd`) | context, listener | Run: boot, goroutines, shutdown | the shutdown ends |
| Reload on SIGHUP (`internal/lab/reload.go`) | configuration | Reload | one runner per angel |
| IPC transport and handshake (`pkg/ipc`) | sockets, deadlines | Dial, HELLO, Send, Recv | a silent peer is found, a punctual one is kept |
| Guardian angel (`internal/angels/guardian`) | snapshots, watches | snapshot, restore, re-watch, refresh | a changed file is restored, a path stays watched |
| Inotify watcher (`pkg/linux/inotify.go`) | watches, bounded event channel | AddWatch, read loop | no event is lost unnoticed |
| Memory angel (`internal/angels/memory`) | windows of samples, cooldowns | poll, rules, OOM counter | a critical process is heard of, once per cooldown |
| Process angel (`internal/angels/process`) | last snapshot, baseline of executables | scan, diff, score | new programs are reported, once |
| Sentinel angel (`internal/angels/sentinel`) | baseline, phase, dedup map, rate window | poll, training, save and load, score | no alert is lost or repeated within its TTL; what was learned is kept |
| Angel binary (`cmd/angel`) | none | the dispatch | - |
| lab client and terminal interface (`cmd/lab`) | ring of events | lab events, lab tui; other commands are one request each | what is shown is in order and complete |
| proc readers, log rotation, metrics exporter, lab doctor | none, a file, counters, none | parsing, rotation, printing | no part in any decision |

**How they interact.** `SpawnAngel` writes the row, builds an entry, publishes it in
the table and starts the entry's *runner* (`runAngel`), a goroutine that starts
the process, waits for its exit and applies the restart policy. The process dials
the socket; the server gives the connection a *handler*, which calls RegisterConn,
HandleHeartbeat and MarkConnLost **by the angel's id**, so it finds whatever entry
the table holds at that moment. MarkConnLost opens a recovery window: a timer
whose goroutine later looks whether the link is still down and kills the entry's
process of *that* moment. The *watcher* marks entries with an old heartbeat
UNSTABLE; clients create and terminate angels; the daemon cancels the context and
terminates all. All of them write the same rows, with no condition on the
state they overwrite, and drop the errors: a statement that fails is never
repeated. The next labd reads the rows, wipes them, and then, one row at a time,
kills the PID it read and spawns again, whatever became of the kill; when it cannot
read or wipe them it serves at once. An event goes from the handler of its
angel through the table of events and the broadcaster's channels to the handler of
each following client, and over its socket to the screen.

**What is hard.** Five kinds of goroutines per angel share an entry under
short critical sections and a row under none; frames outlive the process that
sent them; a fired timer cannot be stopped; a restart gives the entry a new
process while the goroutines of the old one still run; a crash of labd leaves
processes and rows in any of these states. Streams pass three bounded buffers, any
of which may be full or abandoned. The angels compare two looks at a world that
moves in between, with reads that fail and alerts that get lost. `PROJECT.json`
lists each place ("hazards") with the properties that watch it.

## 2. The modules

| module | what it is |
|---|---|
| `ConnTracker` | the link state machine and its timer; state and actions only |
| `Registry` | the columns state, pid, restart_count of the angels table and the statements that write them |
| `Supervisor` | extends both; the goroutines, the processes and the sockets |
| `Boot` | extends Supervisor: crashes of labd, BootRecovery, generateID, Reload |
| `RestartPolicy` | abstract: what one SpawnAngel promises. `Supervisor` implements its `LifeSpec`, `Boot` its `CrashSpec` |
| `EventStream` | event handlers, broadcaster, stream handlers, sockets, clients |
| `Guardian` | the Guardian, the inotify watcher, and a file system others change |
| `AngelShell` | the frame of the other three angels: start, link to Lab, exit |
| `Memory`, `ProcessAngel`, `Sentinel` | one angel each, on AngelShell |
| `AngelMain` | extends the three: the dispatch of the binary, its fairness, the liveness of all three |
| `MCSupervisor`, `MCBoot`, `MCStream`, `MCAngels` | values of constants for TLC |
| `SupervisorProofs`, `PolicyProofs`, `BootProofs`, `GhostProofs`, `StreamProofs`, `GuardianProofs`, `AngelProofs`, `ProcessProofs` | theorems and proofs |

### 2.1 Supervisor, ConnTracker, Registry

**Actors and granularity.** A step is one critical section under one lock, or
one SQL statement (the database has one connection). Sections that touch disjoint
variables in an order nobody can observe are joined, e.g. the writes of State and
of LastHeartbeat in HandleHeartbeat with the UPDATE of last_seen, which no
decision reads. The program counter of a runner is `rpc`, that of a handler
`hpc`, with the entry it looked up in `hentry`; the watcher has `wpc`/`wentry`;
a TerminateAngel that has signalled and not yet written its row is `term`.

**Processes and connections.** The k-th process of an entry is `<<e, k>>`; it dials
once, so it names its connection as well. `unread` counts the heartbeats in the
socket: they are read after the process has died. A process may be `up`, `hung`
(runs no more, does not exit) or `exited`. An angel never reads, so the
terminate frame of TerminateAngel has no effect. PIDs are not reused.

| code | actions |
|---|---|
| SpawnAngel | `SpawnAngel`, `PublishEntry` |
| runAngel, startProcess | `StartProcess`, `StartFails`, `MarkTraining`, `MarkPid`, `ProcessExits`, `ApplyPolicy`, `PauseOver`, `RunnerCancelled`, `CountRestart`, `ReadCount`, `CountFails`, `Contain`, `Restart` |
| handleAngelConn + RegisterConn | `RegisterConn`, `BindConn`, `PersistTraining` |
| handleAngelConn + HandleHeartbeat | `HandleHeartbeat`, `PersistActive` |
| handleAngelConn + MarkConnLost | `MarkConnLost`, `OpenWindow` |
| the timer of MarkLost | `RecoveryTimerFires`, `RecoveryTimerChecks`, `KillUnresponsive` |
| checkHeartbeats | `FindStale`, `MarkUnstable`, `PersistUnstable`; time is `HeartbeatAges` |
| TerminateAngel, TerminateAll, Daemon.Run | `TerminateAngel`, `PersistTerminated`, `Cancel`, `TerminateAll`, `LabExits` |
| the angel process | `Connect`, `SendHeartbeat`, `Hang`, `Exit` |

The branches "unknown angel" of the handlers' look-ups are absent here: a process is
started after its entry was published and entries are never removed (`Boot` has
them: a process of the last labd is unknown to this one).
TerminateAngel and the end of the window read the PID, verify it and kill in one
step: the PID changes only after the old process is dead and reaped, so a kill of
a PID read earlier finds no process, as if it had come before the start of the
next one.

**Time** is left out: a pending timer may fire at any moment. What the environment
may do in an instance is the constant `Stimuli`; each stimulus that is not in the
set is an assumption of that run or theorem:

| stimulus | meaning |
|---|---|
| connect | processes get as far as dialing (otherwise they only exit) |
| hang | a process stops running without exiting |
| slow | a read deadline or the heartbeat timeout passes on a process that runs |
| late | a restart comes before Lab is done with the old process's connection and timer. Without it the backoff (5 s) outlasts the handler (which has an end of file to read) and the goroutine of a fired timer (which takes one mutex): true unless the machine or the database is stuck for seconds |
| startfail | cmd.Start fails |
| dberror | any SQL statement may fail, each time it is run: the row stays as it is (`WriteFails`) and the caller goes on; a failed IncrementRestarts returns 0 (`CountFails`), and a boot of which one fails returns (`RecoveryFails`) |
| terminate, shutdown | operators |

### 2.2 Boot

Every labd has `AngelEntry` objects of its own: those of an earlier labd are in
`old`, and their runners are gone. `Crash` (labd is killed) may come between any two
steps; it drops the table, the handlers, the timers and the client's requests, and
keeps processes and rows. `LabStarts` is systemd's restart, also after a shutdown that
ended. The boot is `ListRecoverable`, `BootMarkStale`, then a round per angel, and then
`Serve`: no connection is accepted before. A round is `KillStale` (the look at /proc and
the SIGKILL) or `KillFails` (the file cannot be read, or the signal is refused: the code
warns), and in each case `Respawn`; `turn` is the angel between the two. `RecoveryFails`
is the early return of BootRecovery when one of its two statements fails: Daemon.Run
logs it and serves, and `failed` says so. `missed` is a history variable: the live
processes to which no row led when a labd died, and those that a kill spared.
`RegisterUnknown` is the frame of a process whose id the table does not
hold; it is refused and the connection closed. `PickId` and `CreatePicked` are
generateID and the SpawnAngel after it; `ReloadList` and `ReloadSpawn` are Reload.
`Events` selects what happens in an instance, like `Stimuli`.

### 2.3 RestartPolicy

A life is begun once, runs one process at a time, starts each of the following ones
only after the last has exited and while the budget lasts, and ends for good.
The refinement mapping reads the phase from `rpc`, `runs` from `starts` and `up` from
the process table. Boot's `CrashSpec` adds `Abandon`: a life may end and leave its
process behind, which is what a crash does.

### 2.4 EventStream

An angel's handler inserts the event, takes the broadcaster's read lock
(`PublishStart`), offers it to one subscriber after the other (`PublishTo`, a
non-blocking send) and unlocks. A stream handler goes through HELLO, request,
acknowledgement, Subscribe, the loop of take and Send, `Unsubscribe` (under the write
lock), `CloseChan` and the close of the connection. A Send fails when the peer has closed, and
may fail when the socket is full (its deadline); a Recv fails at the end of the
stream and may fail when the socket is empty (its deadline of 10 s). The
terminal interface pushes each event to the front of its ring and dials again
when its stream ends; `lab events` ends with its stream. Clients may stop reading
or be killed at any step.

### 2.5 Guardian

The file system has names (`fs`), inodes with contents (`data`), open descriptors
(`fds`) and names outside the directory (`moved`). Foreign operations: open for
writing with truncation, write, close, rename over a path, delete, move away,
create. A watch is on an inode and disappears with it; a directory watch reports
names. The read loop turns the kernel's events into notices in a channel of
`QueueSize`, and drops the ones that do not fit. The Guardian takes snapshots and then
watches, both file by file; each notice is one `Handle...` action up to the
comparison, and `Restore` (temporary file, rename) and `Rewatch` are steps of their
own, because others act in between. `Faults` lets a restore fail. The hourly refresh hashes
each file and takes a new snapshot of it later.

### 2.6 The angels that poll

Each is one goroutine: `AngelShell` has its start (dial, REGISTER, first heartbeat),
the link to Lab (`up`; `hiccup`: Lab is slow and the next send fails, and of a heartbeat any
number of the attempts that follow at once; `down`), the heartbeat with its attempts, and
the exit. Time is counted in polls.

- `Memory`: a poll resolves the PIDs, reads sizes (a read may fail for any
  of them), keeps a window per PID, applies the rules absolute, growth and rate in
  the code's order, and the cooldown; sizes are unsigned numbers of `WordSize`. The OOM
  counter of the cgroup is read in the same poll and may be unreadable. `silent`, `since` and
  `gap` are history: the polls for which a critical process has not been heard of, and the
  polls between two alerts.
- `ProcessAngel`: the host forks, execs, exits and reuses PIDs between scans; a scan
  diffs two snapshots by PID and may miss a process; a scan is one step, though the code reads
  the PIDs one after the other and of each its status before its exe: an image that a read
  mixes of two execs, or of two users of a PID, is not modelled; what is new while it trains goes to
  the baseline, what is new later is scored. History: which process was
  alerted on how often, and which scans missed it.
- `Sentinel`: polls through `ConnCache`, the deduplicator (TTL, halved at its
  maximal size), the rate window, the baseline's training, save (temporary file and rename: done or
  not) and load by the next process, up to `MaxLives`. A load fails on a file that is bad, and may
  fail on one that is good (`blind`, history: this process had such a failure); both mean training. A poll that panics (the nil
  scorer of the training phase) ends the process.

### 2.7 Bounds

`MaxRestarts`, `MaxDedup`, the windows, thresholds and buffer sizes are parameters of the
program, set small so that their limits are met; the code runs through the same
branches at 5 restarts, 128 events or 10,000 keys. The others bound the instance:
`MaxStarts` (processes per entry), `MaxUnread` (heartbeats in a socket: what the handler
does with one does not depend on how many follow), `MaxCrashes`, `MaxEvents`,
`MaxDials`, `MaxOps` and `MaxRefresh` (foreign operations, refreshes), `MaxHiccups`,
`MaxKills`, `MaxBirths`, `MaxMisses`, `MaxLives`.

## 3. The runs

Deadlock is not checked: each system may stop, when every angel is contained or stopped
and labd has exited, when all events were sent, or when the angel has exited.

| run | instance | what it shows |
|---|---|---|
| `SupSafety` | 1 entry, 2 starts; connect hang terminate startfail dberror | `TypeOK`; a live process has its runner (`LiveProcessHasRunner`); from UpdatePID to the exit the row names the live process and shows it started, unless one of the two statements that record it failed (`LiveProcessIsRecorded`); the bound connection is being read (`ConnIsServed`); a lost link has a timer, its goroutine or a signal (`LostLinkIsTimed`); a signal has a cause (`SignalHasCause`) |
| `SupBudget` | 2 entries of one id, MaxRestarts 2, 3 starts allowed, 2 crashes, 2 clients that create; startfail | `StartsWithinBudget`: no runner exceeds the budget; `RestartsAreShared`: all runners of an id, over all boots, share it; `ImplementsCrashPolicy` |
| `SupLive` | fair; 1 entry, 2 starts; connect hang shutdown | `ImplementsPolicy`; a registered angel that hangs is killed (`RegisteredHangIsKilled`), an exit is answered (`ExitIsAnswered`), a dead angel does not stay ACTIVE (`DeadAngelLeavesActive`), the shutdown ends (`ShutdownCompletes`) |
| `Boot` | 1 angel, 2 entries, 1 start each, 2 crashes at any step, kills that fail, Reload of a configuration with that angel; connect slow | `BootTypeOK`; the processes a labd does not find are those no row led to, those of an interrupted boot and those a kill spared, and no others (`GhostsAreMissed`); one runner per id (`AtMostOneRunner`) |
| `BootErrors` | fair; the same with 3 entries, and dberror for connect and slow | `GhostsAreMissed` when any statement may fail, of the labd that died or of the boots after it; what was TRAINING or ACTIVE runs again, unless a boot returns an error, or labd dies while the row is CREATED, between MarkStale and MarkTraining (`RecoverableIsRespawned`) |
| `Stream` | fair; 2 angels, 3 events, 1 terminal interface with 2 connections, every buffer of size 1, ring of 2 | `StreamTypeOK`; `NoSendOnClosed`; what a client shows or has on its way is in order (`NewestFirst`); what was accepted for it is not lost nor overtaken (`AcceptedIsShown`); a handler of an angel is never held up by clients (`PublishersProceed`); the next event unsubscribes a dead client (`NextEventUnsubscribes`) |
| `Guardian` | fair; 2 files, one watched by its path too, 4 inodes, 3 contents, 3 foreign operations, 1 refresh, queue of 3, failing restores | `GuardianTypeOK`; when nothing is pending, what differs from its snapshot was changed while no watch saw it or failed to be restored (`QuietIsClean`); a deviation with its event in the queue is restored (`NoticedIsRestored`) |
| `Angels` | fair; 2 PIDs of 4 sizes, windows of 2, cooldown 3; 2 PIDs with 3 images and 2 births; 2 remotes, TTLs of 1, 2 keys, 2 lives, 3 baseline files, reads of them that fail; 1 missed scan, 1 hiccup | Memory: `CriticalIsHeard`, `AlertsAreSpaced`, `KillsAreToldOnce`. Process: `OneAlertPerProcess`, `ExitsAreReal`, `WhitelistedExeIsQuiet`, `SuspectIsTold`. Sentinel: `StayingIsSeen`, `AnomaliesAreSpaced`, `SavedIsKept`. All: `AngelsTypeOK`, `DeadLabEndsAngel` |

TLC takes between 10 seconds and 3 minutes for each, with two workers. `SupSafety` has 2.9 million
distinct states, and "slow" (a frame that misses Recv's deadline though its angel lives) would
treble them: it is in `Boot`, where live processes lose their links, and the theorems of section 4 cover
all stimuli together. A failing database is in `SupSafety` for the statements of runner,
handlers and operators, and in `BootErrors` for those of the boot and for what a next boot finds.

**Why these bounds.** With MaxRestarts = 2 an angel is started twice and contained:
the second process meets every leftover of the first. In `SupBudget` MaxStarts
is above MaxRestarts: the code's budget stops the starts, not the bound. In `Boot` two
crashes are needed for a boot that is cut short, and two entries for what its
successor spawns; in `BootErrors` three, for an angel that the first labd lost and two boots
look for. In `Stream` the second connection meets the leftovers of the first.
In `Guardian` three operations suffice to swap an inode under an
open descriptor and write to it. In `Angels` the cooldown is longer than the
window, so that an alert, a gap and a refilled window fit into it.

Each property has a mutant: an operator named after what it does wrong
(`RestartKeepsTracker`, `PublishToBlocking`, `HandleSelfRewatches`, ...), which TLC
shows to break it.

Where the code does not do what its documents or comments say, a run shows the
shortest behaviour (expected violation):

| run | the claim | the behaviour |
|---|---|---|
| `VioSignal` | supervisor.go:410, kill the process that lost its link | the expired window's goroutine kills the successor |
| `VioGhosts` | architecture.md:201, no ghost processes of a previous run | labd dies between cmd.Start and UpdatePID |
| `VioIdle` | ipc-protocol.md:42, client.go:127, a stream has no deadline | Recv sets one of 10 s |
| `VioTraining` | baseline.go:8, the training learns the remote addresses | the first one that is not loopback panics (nil scorer) |

**Further divergences** that the models contain and no run is spent on
(documents under `docs/` unless another path is given):

- *Runners.* One restart goroutine per angel (failure-semantics.md:228): `angel.create` with a known
  id gives it a second one, and so do two creates that draw the same id from generateID at once.
  generateID looks at the table only, not at the rows. IncrementRestarts
  (registry.go:212) is not atomic: two runners may read the same count. If it
  fails, the count is 0 and restarts are unbounded. A failed start ends the
  supervision and leaves the state ACTIVE if a late heartbeat set it
  (failure-semantics.md:32). A late REGISTER frame of the dead process sets a CONTAINED row to
  TRAINING (README.md:545). The entry and its row may differ (supervisor.go:41).
  The backoff does not double (architecture.md:205), and restart_count is never
  reset, so that the restarts counted are not consecutive ones.
- *Hangs and ends.* A process that hangs before REGISTER is never found
  (failure-semantics.md:209). A process started while TerminateAll runs survives the
  shutdown (operations.md:35).
- *Boot.* architecture.md:194 respawns all that is not TERMINATED: only ACTIVE and
  TRAINING rows are; :199 sends SIGTERM: it is SIGKILL. A crash between MarkStale and
  the respawns loses those angels for good (operations.md:413).
  A failed list or MarkStale, and a failed kill, leave the ghosts of
  architecture.md:201 too.
- *Reload.* `Daemon.configPath` is set nowhere, so Reload loads the default
  configuration and spawns nothing, and static angels are not spawned at all
  (README.md:483, reload.go:9). The log level change is not implemented.
- *Streams.* A closed client is unsubscribed at the next event only
  (architecture.md:261); the channel holds 128 events, not 32 (:263). Angels never
  read from the socket (ipc-protocol.md:214).
- *Guardian.* A failed restore of a deleted path returns before the watch is added
  again (guardian.go:213; angels.md:63). The refresh hashes and takes its snapshot in two looks, and
  a change in between becomes the snapshot (guardian.go:364). The restore's own events
  may answer each other.
- *Process.* What runs before the angel does not enter the baseline (angels.md:252),
  and the baseline is not saved (architecture.md:366).
- *Memory, Sentinel.* The growth is a difference of unsigned sizes (memory.go:226): a process
  that shrinks raises growth_crit (memory.go:424, "shrinking or flat — fine"). One cooldown per PID, whatever the alert's kind; the Sentinel's
  alerts are WARN whatever their score (sentinel.go:285), its heartbeat has one attempt
  and not two (failure-semantics.md:24), its dedup TTL is 5 minutes. Two attempts in a row filter
  no hiccup that outlasts them (memory.go:320): a Lab that is slow for two write deadlines ends the
  angel. A Sentinel that cannot read its baseline once trains again and saves over it.

**Fairness**, module by module. None is assumed of clients, operators, crashes,
hangs, connects, foreign processes, and the angels' heartbeats towards labd.

- `Supervisor`: weak fairness for each goroutine of Lab: runners, handlers, watcher, timer
  goroutines, TerminateAngel under way, the shutdown. All only wait on
  short mutexes or on the database, whose connection is passed on in turn. Pending
  timers fire, a heartbeat ages, a deadline on an empty socket passes. A process that
  was sent SIGTERM exits (no angel installs a handler, and the default action needs no
  cooperation of a hung process), and a running process whose connection is closed
  exits (its heartbeats fail).
- `Boot`: the runners, the steps of the boot, and systemd, whose unit has
  Restart=on-failure.
- `EventStream`: labd as a whole; with bounded events and dials that is enough.
- `Guardian`: its one goroutine.
- `AngelMain`: the startup, the scan, the training timer, the Sentinel's loop; **strong**
  fairness of the heartbeats, because Go's select picks at random among the
  channels that are ready: the poll ticker cannot starve the heartbeat ticker.

## 4. What is proved

For every value of the constants that the modules' assumptions allow
(`SupervisorAssumption`, `StreamAssumption`, `MemAssumption`, ...: types, and the null
values outside their sets; at least one inode per path (`GuardianAssumption`), finitely
many remotes and a deduplicator with room for two (`SentAssumption`; the code's is
100,000), and saved baselines that are baselines (`MainAssumption`)):

| theorem | property | what it says |
|---|---|---|
| `TypeCorrect` (`SupervisorProofs`) | `TypeOK` | Every variable keeps its type, for every set of entries, ids and bounds. |
| `Supervised` (`SupervisorProofs`) | `LiveProcessHasRunner` | While Lab runs, a live process is the newest of its entry and its runner is about to wait or waits for it. |
| `Budgeted` (`SupervisorProofs`) | `StartsWithinBudget` | If IncrementRestarts never fails, no runner starts more than MaxRestarts processes (one, if that is 0), whatever shares its row. |
| `Recorded` (`SupervisorProofs`) | `LiveProcessIsRecorded` | If no id is spawned twice, then from UpdatePID to the exit the row names the live process and shows it started, unless one of the two statements that record it failed; whatever other statement fails, and whatever handlers, watcher and operators write. |
| `ConnsServed` (`SupervisorProofs`) | `ConnIsServed` | The connection of an entry in the table is one whose handler is still reading, with any number of entries per id and every stimulus. |
| `WindowsEnd` (`SupervisorProofs`) | `LostLinkIsTimed` | If no id is spawned twice, a lost link of a live process always has a timer, its goroutine, or a signal on the way. |
| `SignalsHaveCause` (`SupervisorProofs`) | `SignalHasCause` | If no id is spawned twice and restarts do not overtake the end of the old connection, a process is signalled only for its own lost connection or by a command. |
| `PolicyImplemented` (`PolicyProofs`) | `ImplementsPolicy` | If IncrementRestarts never fails, Supervisor implements RestartPolicy: every step of any number of entries, ids and goroutines is a step of one life or a stutter. |
| `BootTypeCorrect` (`BootProofs`) | `BootTypeOK` | Over any number of crashes and boots the state stays in its types: table, rows, processes, what the boot has to do, the clients' requests. |
| `BudgetOutlastsLab` (`BootProofs`) | `StartsWithinBudget` | If IncrementRestarts never fails, no crash, boot, reload or client gives a runner more than MaxRestarts processes: the budget is in the row and no boot resets it. |
| `CrashPolicyImplemented` (`BootProofs`) | `ImplementsCrashPolicy` | Under the same assumption Boot implements RestartPolicy with Abandon: over any number of labds, each entry lives one life, cut short by nothing but the end of its labd. |
| `OneRunnerPerId` (`GhostProofs`) | `AtMostOneRunner` | If no client creates angels, no id ever has two runners of one labd, wherever labd is killed, booted and told to reload; with clients, two creates may meet in the window between the check and the insertion. |
| `BootFindsTheRest` (`GhostProofs`) | `GhostsAreMissed` | If no client creates and no operator terminates, every process of an earlier labd that still runs when a labd serves after a boot without an error is one the rows did not lead to (started and not recorded, or its write failed, or without a row, or UNSTABLE), one left by a boot that was killed, or one it failed to kill; any statement may fail, and any number of labds may die or fail to list in between. |
| `RestartsShared` (`BootProofs`) | `RestartsAreShared` | If IncrementRestarts never fails, the runners of an id restart it at most MaxRestarts - 1 times between them, over any number of labds and of entries of the id, however their UPDATEs and SELECTs interleave. |
| `GuardianTypeCorrect` (`GuardianProofs`) | `GuardianTypeOK` | For any number of files, inodes and foreign operations: paths, inodes, watches, snapshots and the watcher's channel stay in their types, and the channel within its size. |
| `QuietMeansClean` (`GuardianProofs`) | `QuietIsClean` | When no event is left, a known file that differs from its snapshot was changed where the Guardian had no watch or no room for the event, or its restore failed. |
| `StreamTypeCorrect` (`StreamProofs`) | `StreamTypeOK` | Handshakes, frames, buffers and lists stay in their types and within their sizes, for any number of angels, clients and dials. |
| `ShownInOrder` (`StreamProofs`) | `NewestFirst` | For all buffer sizes and any number of connections, the list of the interface is newest first for each angel, over hangs, drops and new dials. |
| `AcceptedReachesScreen` (`StreamProofs`) | `AcceptedIsShown` | What a subscriber's channel has accepted goes to the screen in that order, and nothing of it is lost while the stream lasts but what a full list drops at its end. |
| `NeverSendsOnClosed` (`StreamProofs`) | `NoSendOnClosed` | For any number of angels and clients and all buffer sizes, no Publish ever has a closed channel before it. |
| `CriticalHeard` (`AngelProofs`) | `CriticalIsHeard` | For every window, cooldown and set of processes, and for any number of failed sends: a critical process is unheard for at most one cooldown, and one more per failed send. |
| `AlertsSpaced` (`AngelProofs`) | `AlertsAreSpaced` | The alerts of a process that stays watched are a cooldown apart, whatever polls cannot read it. |
| `KillsToldOnce` (`AngelProofs`) | `KillsAreToldOnce` | Each OOM kill is reported once, whatever reads of the counter fail in between. |
| `BaselineIsKept` (`AngelProofs`) | `SavedIsKept` | A baseline that was saved is replaced by nobody but a process whose own read of it failed: not by a restart, a kill while saving, or the training timer of a process that loaded it. |
| `AnomaliesSpaced` (`AngelProofs`) | `AnomaliesAreSpaced` | For every table size and ttl, a remote is reported again only after the ttl or after its entry was dropped. |
| `StayingSeen` (`AngelProofs`) | `StayingIsSeen` | For every set of remotes and every cache and table size, a connection that has stayed for longer than the cache lives has been looked at: the deduplicator knows it at the end of each poll, whatever reads failed; one that the table dropped counts as newly come. |
| `AngelsTypeCorrect` (`ProcessProofs`) | `AngelsTypeOK` | The three angels stay in their types: windows, cooldowns, tables and counters within their limits, the deduplicator below its own, and a process that runs has a parent that runs. |
| `AlertsAreBounded` (`ProcessProofs`) | `OneAlertPerProcess` | For every host: one alert per process, and one more for each scan that missed it. |
| `NoFalseExits` (`ProcessProofs`) | `ExitsAreReal` | For every host, an exit is reported of a running process only by a scan that missed it. |
| `WhitelistSilences` (`ProcessProofs`) | `WhitelistedExeIsQuiet` | For every whitelist without the name of the unreadable exe, a whitelisted exe is never alerted on, whatever else is held against it. |

The hypotheses are needed; `Recorded`, `BootFindsTheRest` and the type theorems have none on the
database, and hold with any statement failing. With "dberror" the budgets fail in a few steps;
`VioSignal` is the counterexample without "not late"; with two entries of an id the
handlers act on the entry that the table holds; and a whitelist that names what an
unreadable exe is read as silences nothing. `RestartsShared` counts entries, hence needs
finitely many of them: a run of labd has as many as calls of SpawnAngel.

The argument is the same for each: a frame lemma says what the few actions
that matter do to the variables of the property and that all others leave them
alone; an inductive invariant is preserved by those few; the property follows.

Of the supervisor:

- `ProcessesFollowRunners`: only the newest process of an entry can be alive,
  and only while its runner is between the start and the exit. The property by
  itself does not say that a runner about to start has no live process.
- `RestartsCounted`: the row counts all starts of a runner but the one that is
  running, and a runner in its backoff or about to start has budget left. The other
  runners of the id only raise the count.
- `RowNamesProcess`: while the runner waits, the row has the PID of its process, and from
  MarkTraining on it shows it as started, if there is a row and the process is not `unrecorded`.
  `PidSteps` says that all others (handlers of it and of its predecessors, watcher,
  operators) write states in which it still shows, or fail to write.
- `LinksAreKnown`: the table, the entry a handler has looked up and the connection
  of an entry relate entries to processes of the same id, and published entries
  only. It holds also where a handler acts on an entry that replaced its own.
- `WindowIsTimed`, with `HandlersAreOwned` (a handler works on the entry that
  started its process): a tracker in RECOVERING, from the REGISTER of the entry's live
  process on, has a timer, its goroutine, or a signal sent. From REGISTER on, and
  not from the start: before it, the window may be that of the predecessor.
- `OldConnsAreClosed`: the handlers of an entry's earlier processes have returned, a
  runner about to start has no timer and no timer goroutine, and a pending timer is
  that of the newest process, whose connection is lost. It is this that "late" breaks.

`PolicyImplemented` is the refinement: the initial states map to initial states, and
from `ProcessesFollowStarts` and `RestartsCounted` each step of a runner maps to the step of its life, or a
stutter, and every other step to a stutter.

Of the boot, over any number of labds:

- `ProcessesFollowStarts` is `ProcessesFollowRunners` without its claim about runners
  that are done: a crash makes every runner done and leaves its process alive. What is left, only
  the newest process of an entry lives and none before the first start, is enough
  for `BudgetOutlastsLab` and `CrashPolicyImplemented`, in which a crash is the `Abandon` of every
  life that has begun.
- `OneOfEach`: an id has one entry of this labd, which is in the table from its
  publication on; the boot's list has one pair per id and none that is already respawned, and
  neither has the angel whose round is between the kill and the respawn.
- `RowsServe`: the row of an entry of this labd whose process is being recorded or waited
  for is recoverable, UNSTABLE or absent, and names the process from `wait` on, unless it is
  `unrecorded`.
- `GhostsAreListed`: where a boot finds a process of an earlier labd that was not
  missed: in a row that ListRecoverable reads, then (MarkStale has made every row CREATED) in the
  list, and when labd serves it is dead, or the boot returned an error; such a process
  is found by the next boot, or counts as missed when this labd dies. `RowsServe` is what makes the first of these true
  at the moment of a crash.
- `SharedInv`: each restart of an id that was done, or asked for by a runner that has not
  got there yet, has an increment of its own in the row; and those whose count was read
  and let through are at most MaxRestarts - 1. The runner that reads the count it has just raised
  finds at least the number of all restarts claimed before, its own included, so
  it goes on only if these are below the limit. A crash drops runners between the
  two statements: the count stays, and one restart less is done. The property by
  itself speaks of processes that exist, and says nothing of those to come.

Two hypotheses are needed for `OneOfEach` and `GhostsAreListed`. `NoCreates` (no client
creates): SpawnAngel checks the table and inserts later, so two creates of an id give it two entries, and a create
of an id that a ghost holds overwrites the row that names it. `NotStopped` (no
terminate, no shutdown): the row of an angel under termination is not one that the boot
lists, and a labd killed between that write and the exit of the process leaves it behind.

Of the event stream:

- `LockInv`: a channel is closed only when it is out of the table, and what a Publish
  still has before it is in the table, because it holds the read lock.
- `LabInv` and `ShakeInv` say what each end of a connection may find in the socket at
  each step of the handshake: before the request is acknowledged labd has sent no event, and after
  it nothing else. Without this an acknowledgement could be taken for an event, and the types
  of the list would not hold.
- `OrderInv`: the list, the client's channel, the socket, the handler's hand and
  labd's channel, put end to end, are in the order of publication for each angel, also where
  the list holds events of an older connection: a new one is subscribed later than
  anything the old one was given.
- `Flows`: while a stream lasts, each step leaves this pipeline as it is, adds one event
  at its end, or drops the oldest of a full list. `AcceptedReachesScreen` is this, step by step.

Of the Guardian: `CleanInv`. A known file that differs from its snapshot is in the
restore under way, or has a *good* notice in the channel (one that the Guardian will not pass
over), or is counted as lost: changed where no event was, or not restored. A notice
may go bad, when the file it asks to look at is gone; then what removed the file has put
a notice of its own behind it, or the watch was lost before, and the file is blind.
`QuietIsClean` alone is not inductive: it says nothing while events are left. The types need an
injective choice of inodes, which a file system makes.

Of the angels:

- `HeardInv`: a critical process has been silent no longer than the sends that
  failed allow, and the part of the cooldown that has passed. Each failed send may start a
  cooldown for nothing, which is why the property counts them.
- `SpacedInv`: the cooldown of a PID is not older than its last alert; a poll that could
  not read it drops the window and keeps the cooldown.
- `KillsInv`, `LinkInv`: told kills are those counted; the link's state bounds the hiccups.
- `SavedInv`: who trains, or has still to save, found no baseline when it started, or could not
  read it.
- `QuietInv`: what the deduplicator calls new has been quiet for its TTL or was dropped.
- `StayInv`: whom the cache does not name has stayed no longer than the cache is old, and
  whom the running poll has dealt with is in the table at an age that its prune keeps. A connection that
  the table's limit drops counts as newly come.
- `MemInv`, `SentInv`, `HostInv`: the ranges of windows, clocks, tables and of the host.
  Among them: the deduplicator is below its limit when a poll starts on the next connection, and each
  connection of a poll enters the rate window once.
- `ProcInv`, with its part `Account`: each alert of a process after the first is paid
  for by a scan that missed it, and who is in the last snapshot has one alert less to
  come. The property by itself is not inductive: it does not say who may still be told.

Only model-checked: liveness (fairness and ENABLED are out of the prover's reach), which
is every property of a passing run that no theorem above states; the boot's invariants with
clients that create and operators that stop; and everything the expected violations show.
Every invariant of a passing run is a theorem, under the hypotheses named.

## 5. What is not modelled, and what is left

- *proc readers, log rotation, metrics, lab doctor, drawing and one-request commands of
  lab*: no state that the system decides on.
- *Reuse of PIDs by the kernel* (verifyAngelPID accepts any command line that has
  "angel" in it): in the supervisor's modules PIDs are unique, so a stale PID is always one of
  a dead process. In `ProcessAngel` PIDs are reused.
- *Framing, Ping, socket activation*: one call each and no state between calls. A
  handler has HELLO and requests in `EventStream`, and starts at REGISTER in `Supervisor`.
- *RemoveWatch, WatchTree, Close* of the inotify watcher: the Guardian does not call them
  while it runs. The storms of `IN_ATTRIB` and of a restore's temporary files are left
  out: no branch takes them.
- *Torn scans* of the process angel: a snapshot is one step (2.6).
- *The clock*: the 10 s deadline of Recv against the 10 s heartbeat is the stimulus "slow",
  a nondeterministic choice; a model of links with a clock would tell how often it bites.

Left, in the order of use: `OneRunnerPerId` and `BootFindsTheRest` with clients that name
distinct ids; `RestartsShared` with a bound that counts the failures of IncrementRestarts; an abstract
specification of the event stream; links with a clock.
