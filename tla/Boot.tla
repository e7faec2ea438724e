-------------------------------- MODULE Boot --------------------------------
(***************************************************************************)
(* Crashes and restarts of the Lab daemon, over Supervisor: labd dies at   *)
(* any step and loses its memory; processes and rows survive.  The next    *)
(* labd runs BootRecovery (internal/lab/supervisor.go) one statement, one  *)
(* signal at a time before it serves connections, and may be killed in the *)
(* middle of it.  Two more callers of SpawnAngel that look at the table    *)
(* first and spawn later are here too: angel.create without an id          *)
(* (generateID) and Reload (internal/lab/reload.go).                       *)
(*                                                                         *)
(* Every labd has AngelEntry objects of its own: those of an earlier one   *)
(* are in "old" and their runners are gone.                                *)
(***************************************************************************)
EXTENDS Supervisor

CONSTANTS
  Client,       \* the connections that send angel.create without an id
  Static,       \* the angels with an id in the configuration that Reload loads.
                \* It loads Daemon.configPath, which nothing sets: {} in labd as
                \* it is, and whatever the file says once the path is stored
  MaxCrashes,   \* bound: crashes of labd
  Events,       \* what happens in this instance, see Event
  NoAngel

\* crash: labd is killed.  create: clients create angels without an id.
\* spawn: clients create angels under an id they choose.  reload: SIGHUP.
\* killfail: the boot cannot read what a process is, or may not signal it.
Event == {"crash", "create", "spawn", "reload", "killfail"}

ASSUME BootAssumption ==
  /\ Angel \subseteq Nat          \* A-01, A-02, ... by their numbers
  /\ Static \subseteq Angel
  /\ MaxCrashes \in Nat
  /\ NoAngel \notin Angel
  /\ Events \subseteq Event

VARIABLES
  bpc,          \* labd: "list", "mark", "respawn" (BootRecovery), "up" (serves)
  todo,         \* recoverable rows whose round is to come: <<id, recorded PID>>
  turn,         \* the id whose round is at SpawnAngel, or NoAngel
  failed,       \* BootRecovery of this labd has returned an error
  old,          \* the entries of earlier labds
  crashes,
  missed,       \* processes that no boot can kill, or that one failed to kill
  pick,         \* generateID's choice for a client, or NoAngel
  made,         \* the entry of a client's last SpawnAngel, or NoEntry
  reload        \* ids that Reload found missing and has still to spawn

recoveryVars == <<todo, turn, failed>>
labdVars == <<old, crashes, missed>>
clientVars == <<pick, made>>
bootVars == <<bpc, recoveryVars, labdVars, clientVars, reload>>
allVars == <<vars, bootVars>>

BootTypeOK ==
  /\ TypeOK
  /\ bpc \in {"list", "mark", "respawn", "up"}
  /\ todo \subseteq Angel \X (Proc \cup {NoPid})
  /\ turn \in Angel \cup {NoAngel}
  /\ failed \in BOOLEAN
  /\ old \subseteq Entry
  /\ crashes \in 0 .. MaxCrashes
  /\ missed \subseteq Proc
  /\ pick \in [Client -> Angel \cup {NoAngel}]
  /\ made \in [Client -> Entry \cup {NoEntry}]
  /\ reload \subseteq Angel

BootInit ==
  /\ Init
  /\ bpc = "up"
  /\ todo = {} /\ turn = NoAngel /\ failed = FALSE
  /\ old = {} /\ crashes = 0 /\ missed = {}
  /\ pick = [c \in Client |-> NoAngel]
  /\ made = [c \in Client |-> NoEntry]
  /\ reload = {}
-----------------------------------------------------------------------------
(* The end of a labd and the start of the next.                              *)

Recoverable == {"ACTIVE", "TRAINING"}

\* The row of a process is one that the boot looks for, and names it.
RowServes(p) == regPid[Owner(p)] = p /\ regState[Owner(p)] \in Recoverable

\* The live processes that no row will lead the next boot to: between cmd.Start and
\* UpdatePID, or with one of these statements failed, or without a row; of a row
\* that the watcher made UNSTABLE; and those of an earlier labd that a boot did not
\* get to and whose row it has wiped.
Missed == {p \in Proc : /\ Alive(p) /\ ~RowServes(p)
                        /\ \/ rpc[p[1]] \in {"markTraining", "markPid"}
                           \/ p \in unrecorded
                           \/ regState[Owner(p)] \in {ABSENT, "UNSTABLE"}
                           \/ p[1] \in old}

\* The memory of labd is gone, and with it the goroutines; the sockets of its
\* connections are closed.
MemoryLost ==
  /\ current' = [a \in Angel |-> NoEntry]
  /\ rpc' = [e \in Entry |-> IF rpc[e] = "unused" THEN "unused" ELSE "done"]
  /\ hpc' = [p \in Proc |-> IF hpc[p] = "none" THEN "none" ELSE "done"]
  /\ ct' = [e \in Entry |-> "DISCONNECTED"]
  /\ armed' = [e \in Entry |-> FALSE]
  /\ expiry' = [e \in Entry |-> "none"]
  /\ state' = [e \in Entry |-> "CREATED"]
  /\ conn' = [e \in Entry |-> NoConn]
  /\ lastHb' = [e \in Entry |-> "zero"]
  /\ restarts' = [e \in Entry |-> 0]
  /\ unread' = [p \in Proc |-> 0]
  /\ hentry' = [p \in Proc |-> NoEntry]
  /\ wpc' = "idle" /\ wentry' = NoEntry
  /\ term' = [a \in Angel |-> "none"]
  /\ sweep' = {} /\ reload' = {}
  /\ todo' = {} /\ turn' = NoAngel /\ failed' = FALSE
  /\ pick' = [c \in Client |-> NoAngel]
  /\ made' = [c \in Client |-> NoEntry]
  /\ old' = {e \in Entry : rpc[e] # "unused"}
  /\ bpc' = "list"
  /\ UNCHANGED <<regVars, starts, procVars>>

\* labd dies at any step.
Crash ==
  /\ "crash" \in Events
  /\ LabUp /\ crashes < MaxCrashes
  /\ crashes' = crashes + 1
  /\ lab' = "stopped"
  /\ missed' = missed \cup Missed
  /\ MemoryLost

\* NewDaemon, after a crash or an exit: one that has not dialed yet will dial the
\* new labd.
LabStarts ==
  /\ lab = "stopped" /\ lab' = "running"
  /\ MemoryLost
  /\ UNCHANGED <<crashes, missed>>
-----------------------------------------------------------------------------
(* BootRecovery.                                                             *)

BootAt(from, to) ==
  /\ LabUp
  /\ bpc = from /\ bpc' = to

\* Looks for the recoverable rows after MarkStale has taken their state.
ListRecoverableAfterMark ==
  /\ BootAt("list", "mark")
  /\ todo' = {}
  /\ UNCHANGED <<vars, turn, failed, labdVars, clientVars, reload>>

\* The SELECT of ListRecoverableAngels.
ListRecoverable ==
  /\ BootAt("list", "mark")
  /\ todo' = {<<a, regPid[a]>> : a \in {b \in Angel : regState[b] \in Recoverable}}
  /\ UNCHANGED <<vars, turn, failed, labdVars, clientVars, reload>>

\* MarkStale: one UPDATE of all rows that are not TERMINATED.
BootMarkStale ==
  /\ BootAt("mark", "respawn")
  /\ MarkStale
  /\ UNCHANGED <<ctVars, tableVars, entryVars, runnerVars, procVars, handlerVars, watchVars,
                 stopVars, recoveryVars, labdVars, clientVars, reload>>

\* One of the two statements fails: BootRecovery returns the error, Run logs it and
\* serves.
RecoveryFails ==
  /\ "dberror" \in Stimuli
  /\ \E from \in {"list", "mark"} : BootAt(from, "up")
  /\ todo' = {} /\ failed' = TRUE
  /\ UNCHANGED <<vars, turn, labdVars, clientVars, reload>>

\* SpawnAngel has published the entry before its caller goes on.
SpawnReturned == \A e \in Entry : rpc[e] # "publish"

Spawnable(a) == {e \in Entry : Id[e] = a /\ rpc[e] = "unused"}

\* The next round of the loop.
Round(a, pid) ==
  /\ BootAt("respawn", "respawn") /\ SpawnReturned
  /\ turn = NoAngel /\ turn' = a
  /\ <<a, pid>> \in todo /\ todo' = todo \ {<<a, pid>>}

\* Respawns the angel next to its old process.
KillStaleSkipped(a, pid) ==
  /\ Round(a, pid)
  /\ UNCHANGED <<vars, failed, labdVars, clientVars, reload>>

\* It sends SIGKILL to the recorded process, if that lives ...
KillStale(a, pid) ==
  /\ Round(a, pid)
  /\ proc' = [p \in Proc |-> IF p = pid /\ Alive(p) THEN "exited" ELSE proc[p]]
  /\ UNCHANGED <<ctVars, regVars, tableVars, entryVars, runnerVars, signalled, unrecorded,
                 handlerVars, watchVars, stopVars, failed, labdVars, clientVars, reload>>

\* ... or takes it for gone, since its cmdline cannot be read, or may not signal it:
\* a debug message or a warning ...
KillFails(a, pid) ==
  /\ "killfail" \in Events
  /\ Round(a, pid)
  /\ pid \in Proc /\ Alive(pid)
  /\ missed' = missed \cup {pid}
  /\ UNCHANGED <<vars, failed, old, crashes, clientVars, reload>>

\* ... and in each case the round goes on to SpawnAngel.
Respawn ==
  /\ BootAt("respawn", "respawn") /\ SpawnReturned
  /\ turn # NoAngel /\ turn' = NoAngel
  /\ Spawnable(turn) # {}
  /\ SpawnAngel(CHOOSE e \in Spawnable(turn) : TRUE)
  /\ UNCHANGED <<todo, failed, labdVars, clientVars, reload>>

\* The socket server and the watcher start after BootRecovery.
Serve ==
  /\ BootAt("respawn", "up") /\ SpawnReturned
  /\ todo = {} /\ turn = NoAngel
  /\ UNCHANGED <<vars, recoveryVars, labdVars, clientVars, reload>>
-----------------------------------------------------------------------------
(* Spawns at run time.                                                       *)

Serving == LabUp /\ bpc = "up"

\* RegisterConn of an id that this labd does not have: the connection is closed.
RegisterUnknown(p) ==
  /\ Serving
  /\ current[Owner(p)] = NoEntry
  /\ HandlerAt(p, "first", "done")
  /\ UNCHANGED <<ctVars, regVars, tableVars, entryVars, runnerVars, procVars, unread, hentry,
                 watchVars, stopVars, bootVars>>

Table == {a \in Angel : current[a] # NoEntry}

\* generateID counts up from len(angels)+1 to an id the table does not have.
\* The bound: the last number of Angel is not passed.
PickId(c) ==
  /\ "create" \in Events
  /\ Serving /\ ~Cancelled
  /\ pick[c] = NoAngel /\ (made[c] # NoEntry => rpc[made[c]] # "publish")
  /\ \E a \in Angel \ Table :
       /\ a > Cardinality(Table)
       /\ \A b \in Angel \ Table : b > Cardinality(Table) => a <= b
       /\ pick' = [pick EXCEPT ![c] = a]
  /\ UNCHANGED <<vars, bpc, recoveryVars, labdVars, made, reload>>

\* The rest of cliAngelCreate.
CreatePicked(c) ==
  /\ Serving /\ pick[c] # NoAngel
  /\ \E e \in Spawnable(pick[c]) :
       /\ e = CHOOSE f \in Spawnable(pick[c]) : TRUE
       /\ SpawnAngel(e)
       /\ made' = [made EXCEPT ![c] = e]
  /\ pick' = [pick EXCEPT ![c] = NoAngel]
  /\ UNCHANGED <<bpc, recoveryVars, labdVars, reload>>

\* Reload takes every angel of the configuration for a new one.
ReloadListAll ==
  /\ "reload" \in Events
  /\ Serving /\ ~Cancelled /\ reload = {} /\ SpawnReturned
  /\ reload' = Static
  /\ UNCHANGED <<vars, bpc, recoveryVars, labdVars, clientVars>>

\* Reload compares the configuration with the table once ...
ReloadList ==
  /\ "reload" \in Events
  /\ Serving /\ ~Cancelled /\ reload = {} /\ SpawnReturned
  /\ reload' = Static \ Table
  /\ UNCHANGED <<vars, bpc, recoveryVars, labdVars, clientVars>>

\* ... and spawns what was missing.
ReloadSpawn(a) ==
  /\ Serving /\ a \in reload /\ Spawnable(a) # {} /\ SpawnReturned
  /\ SpawnAngel(CHOOSE e \in Spawnable(a) : TRUE)
  /\ reload' = reload \ {a}
  /\ UNCHANGED <<bpc, recoveryVars, labdVars, clientVars>>
-----------------------------------------------------------------------------
\* The goroutines of Supervisor: runners and processes run during the boot,
\* handlers, watcher and commands after it.
Supervision ==
  /\ \/ \E e \in Entry : Runner(e) \/ StartFails(e) \/ Timer(e) \/ HeartbeatAges(e)
     \/ \E p \in Proc : Process(p) \/ (Serving /\ Handler(p))
     \/ Serving /\ "spawn" \in Events /\ \E e \in Entry : SpawnAngel(e)
     \/ Serving /\ Watcher
     \/ Serving /\ \E a \in Angel : \/ \E caller \in {"cli", "sweep"} : TerminateAngel(a, caller)
                                    \/ PersistTerminated(a)
     \/ Cancel \/ (Serving /\ TerminateAll) \/ LabExits
  /\ UNCHANGED bootVars

BootStep == \/ ListRecoverable \/ BootMarkStale \/ RecoveryFails \/ Respawn \/ Serve
            \/ \E r \in todo : KillStale(r[1], r[2]) \/ KillFails(r[1], r[2])

BootNext ==
  \/ Supervision
  \/ Crash \/ LabStarts \/ BootStep
  \/ \E p \in Proc : RegisterUnknown(p)
  \/ \E c \in Client : PickId(c) \/ CreatePicked(c)
  \/ ReloadList \/ \E a \in Angel : ReloadSpawn(a)

BootSpec == BootInit /\ [][BootNext]_allVars

\* The fairness of Supervisor's goroutines, of the boot, and systemd, which
\* starts labd again when it has failed (Restart=on-failure).
BootFairness ==
  /\ \A e \in Entry : WF_allVars(Runner(e) /\ UNCHANGED bootVars)
  /\ WF_allVars(LabStarts) /\ WF_allVars(BootStep)

FairBootSpec == BootSpec /\ BootFairness
-----------------------------------------------------------------------------
\* When a labd serves after a boot without an error, the processes left of earlier
\* labds are those that no row named or showed running when their labd died, those
\* that another boot was cut short before, and those it could not kill; all others
\* have been found by their rows and killed, also when labds died, or failed to list
\* or to mark their rows, in between (BootRecovery, MarkStale, runAngel).
GhostsAreMissed ==
  (Serving /\ ~failed) => \A p \in Proc : (Alive(p) /\ p[1] \in old) => p \in missed

\* An angel that was TRAINING or ACTIVE when labd failed is run again, by the next
\* labd or by one after it, unless a boot returns an error, or its labd dies between
\* MarkStale and the angel's own MarkTraining, whose row is then CREATED: nobody
\* respawns it (ListRecoverableAngels, MarkStale).
RecoverableIsRespawned ==
  \A a \in Angel :
    (lab = "stopped" /\ regState[a] \in Recoverable)
      ~> \/ current[a] # NoEntry
         \/ Serving /\ failed
         \/ lab = "stopped" /\ regState[a] = "CREATED"

\* With crashes of labd at any step an entry still has one process at a time and
\* keeps its budget, and no runner is left that could start another after its
\* labd is gone (SpawnAngel, runAngel, BootRecovery).
ImplementsCrashPolicy == Policy!CrashSpec
-----------------------------------------------------------------------------
\* docs/architecture.md:201: after the boot recovery no process of a previous
\* Lab run remains.
NoGhosts == Serving => \A p \in Proc : p[1] \in old => ~Alive(p)
=============================================================================
