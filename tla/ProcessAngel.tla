---------------------------- MODULE ProcessAngel ----------------------------
(***************************************************************************)
(* The process angel (internal/angels/process/process.go). It diffs        *)
(* snapshots of /proc: what is new while it trains goes into the baseline, *)
(* what is new afterwards is scored against it, what is gone is reported   *)
(* if the baseline knows it. Snapshots are keyed by pid, so an exec or a   *)
(* pid that is used again between two scans is not new.                    *)
(***************************************************************************)
EXTENDS AngelShell, Integers, FiniteSets

CONSTANTS
  ProcPid,         \* the pids of the host; 1 is init and not among them
  Image,           \* what a process can run: [exe, comm, suid]
  NoExe,           \* the exe of an image whose link cannot be read
  NoImage,         \* a pid that is not in use
  SuspiciousExes,  \* the exes under cfg.SuspiciousExeDirs
  WhitelistExes,   \* cfg.WhitelistExes
  WhitelistComms,  \* the comms that are entries of cfg.WhitelistComms
  PrefixedComms,   \* the comms an entry of it is a proper prefix of
  AlertOnExit,
  MaxBirths,       \* bound: processes the host starts
  MaxMisses        \* bound: scans that fail or skip a process

ASSUME ProcAssumption ==
  /\ ProcPid \subseteq Nat \ {0, 1} /\ NoImage \notin Image /\ AlertOnExit \in BOOLEAN
  /\ MaxBirths \in Nat /\ MaxMisses \in Nat

VARIABLES
  host,        \* per pid: the image that runs, its parent, and its history:
               \* alerts and exit reports raised, scans that missed it
  births, misses,
  prev,        \* per pid: the image in the last snapshot
  knownExes, knownComms, knownPpids,   \* the baseline
  training,    \* the phase; the baseline is frozen when it ends
  timer        \* the one-shot baseline timer

procVars == <<host, births, misses, prev, knownExes, knownComms, knownPpids,
              training, timer>>

Unused == [image |-> NoImage, ppid |-> 1, atStart |-> FALSE, fresh |-> FALSE,
           told |-> 0, left |-> 0, missed |-> 0]
Running == {p \in ProcPid : host[p].image # NoImage}
Nothing == [p \in ProcPid |-> NoImage]

ProcTypeOK ==
  /\ ShellTypeOK
  /\ \A p \in ProcPid :
       /\ host[p].image \in Image \cup {NoImage} /\ prev[p] \in Image \cup {NoImage}
       /\ host[p].ppid \in Running \cup {1}
       /\ host[p].told \in 0..MaxMisses + 1 /\ host[p].left \in 0..MaxMisses + 1
  /\ births \in 0..MaxBirths /\ misses \in 0..MaxMisses
  /\ knownPpids \subseteq ProcPid
  /\ training = (timer = "armed") /\ timer \in {"armed", "fired"}

SeededComms == knownExes = {} /\ knownComms = WhitelistComms   \* a mutant

Seeded == knownExes = WhitelistExes /\ knownComms = WhitelistComms

ProcInit ==
  /\ host = [p \in ProcPid |-> Unused]
  /\ births = 0 /\ misses = 0
  /\ prev = Nothing
  /\ Seeded /\ knownPpids = {}
  /\ training = TRUE /\ timer = "armed"

-----------------------------------------------------------------------------
(* The host. *)

angelVars == <<prev, knownExes, knownComms, knownPpids, training, timer>>

Born(image, ppid, pid) ==
  [Unused EXCEPT !.image = image, !.ppid = ppid, !.atStart = life = "starting",
                 !.fresh = prev[pid] = NoImage /\ timer = "fired"]

Fork(p, parent, image) ==
  /\ p \notin Running /\ parent \in Running \cup {1} /\ births < MaxBirths
  /\ births' = births + 1
  /\ host' = [host EXCEPT ![p] = Born(image, parent, p)]
  /\ UNCHANGED <<misses, angelVars, shellVars>>

\* The process goes on under its pid with another image.
Exec(p, image) ==
  /\ p \in Running /\ image # host[p].image /\ births < MaxBirths
  /\ births' = births + 1
  /\ host' = [host EXCEPT ![p].image = image, ![p].told = 0,
                ![p].fresh = prev[p] = NoImage /\ timer = "fired"]
  /\ UNCHANGED <<misses, angelVars, shellVars>>

\* Its children go to init.
Exit(p) ==
  /\ p \in Running
  /\ host' = [q \in ProcPid |-> IF q = p THEN Unused
                ELSE IF host[q].ppid = p THEN [host[q] EXCEPT !.ppid = 1] ELSE host[q]]
  /\ UNCHANGED <<births, misses, angelVars, shellVars>>

-----------------------------------------------------------------------------
(* Scoring. *)

\* scoreProcess: the rules add up; a whitelisted exe or comm takes ten off.
ProcScore(image, ppid) ==
  Points(image.exe \in SuspiciousExes, 5)
  + Points(image.exe = NoExe, 3)
  + Points(image.exe # NoExe /\ image.exe \notin knownExes, 3)
  + Points(image.comm \notin knownComms, 2)
  + Points(ppid > 1 /\ ppid \notin knownPpids, 2)
  + Points(image.suid, 2)
  - Points(image.exe \in WhitelistExes \/ image.comm \in WhitelistComms \cup PrefixedComms, 10)

Level(score) == IF score >= 6 THEN "critical" ELSE IF score >= 3 THEN "warn" ELSE "ok"

\* handleExit: a process that the baseline knows by its exe or its comm.
Known(image) == image.exe \in knownExes \/ image.comm \in knownComms

-----------------------------------------------------------------------------
(* The angel. *)

\* snapshot: the processes that could be read. A failed ReadDir reads none.
\* One step stands for the reads of status, exe and cmdline, pid after pid: a
\* process that forks, execs or exits in the midst of a scan counts as doing
\* so before it or after it, and no image mixes two programs.
Snapshot(read) == [p \in ProcPid |-> IF p \in read THEN host[p].image ELSE NoImage]

NewIn(curr) == {p \in ProcPid : curr[p] # NoImage /\ prev[p] = NoImage}

\* A mutant: the test for being alive is the wrong way round.
GoneFromInverted(curr) == {p \in ProcPid : prev[p] # NoImage /\ curr[p] # NoImage}

GoneFrom(curr) == {p \in ProcPid : prev[p] # NoImage /\ curr[p] = NoImage}

\* A mutant: the active phase returns before the snapshot is kept.
PrevAfterTraining(curr) == IF training THEN curr ELSE prev

PrevAfter(curr) == curr

Missed(read) ==
  /\ misses' = IF read = Running THEN misses ELSE misses + 1
  /\ misses' <= MaxMisses

\* run: whitelist entries seed the baseline (ProcInit), and a first snapshot
\* keeps what already runs from being new.
ProcStarts ==
  /\ Started
  /\ \E read \in SUBSET Running :
       /\ Missed(read)
       /\ prev' = Snapshot(read)
       /\ host' = [p \in ProcPid |-> IF p \in Running \ read
                     THEN [host[p] EXCEPT !.missed = @ + 1] ELSE host[p]]
  /\ UNCHANGED <<births, knownExes, knownComms, knownPpids, training, timer>>

ProcStartupFails == StartupFails /\ UNCHANGED procVars

\* poll: handleNew for what is new, then handleExit for what is gone.
ScanWith(read) ==
  LET curr == Snapshot(read)
      new == NewIn(curr)
      alerts == IF training THEN {}
                ELSE {p \in new : Level(ProcScore(curr[p], host[p].ppid)) # "ok"}
      exits == IF training \/ ~AlertOnExit THEN {}
               ELSE {p \in GoneFrom(curr) : Known(prev[p])}
  IN  /\ prev' = PrevAfter(curr)
      /\ IF training
         THEN /\ knownExes' = knownExes \cup ({curr[p].exe : p \in new} \ {NoExe})
              /\ knownComms' = knownComms \cup {curr[p].comm : p \in new}
              /\ knownPpids' = knownPpids \cup new
         ELSE UNCHANGED <<knownExes, knownComms, knownPpids>>
      /\ host' = [p \in ProcPid |-> IF p \notin Running THEN Unused ELSE
           [host[p] EXCEPT !.told = @ + Points(p \in alerts, 1),
                           !.left = @ + Points(p \in exits /\ host[p].image = prev[p], 1),
                           !.missed = @ + Points(p \notin read, 1)]]
      /\ Emit({<<p, "new">> : p \in alerts} \cup {<<p, "exit">> : p \in exits})

Scan ==
  /\ life = "running"
  /\ \E read \in SUBSET Running : Missed(read) /\ ScanWith(read)
  /\ UNCHANGED <<life, births, training, timer>>

FinaliseForgetsPhase == UNCHANGED training   \* a mutant

Finalise == training' = FALSE

BaselineTimerFires ==
  /\ life = "running" /\ timer = "armed"
  /\ timer' = "fired"
  /\ Finalise
  /\ Emit({"baseline complete"})
  /\ UNCHANGED <<life, host, births, misses, prev, knownExes, knownComms, knownPpids>>

\* Two attempts, as in the memory angel.
ProcHeartbeat == Heartbeat(2) /\ UNCHANGED procVars

HostStep ==
  \E p \in ProcPid : \/ \E q \in ProcPid \cup {1}, i \in Image : Fork(p, q, i)
                     \/ \E i \in Image : Exec(p, i)
                     \/ Exit(p)

ProcNext ==
  ProcStarts \/ ProcStartupFails \/ Scan \/ BaselineTimerFires \/ ProcHeartbeat \/ HostStep
-----------------------------------------------------------------------------
(* Properties. *)

\* A process is alerted on once, and one that was there when the angel
\* started never, but for scans that missed it: each miss can cost one more
\* report, because what a scan skips is new to the next one (process.go poll).
OneAlertPerProcess ==
  \A p \in Running : host[p].told <= host[p].missed + Points(~host[p].atStart, 1)

\* A process that runs is reported as exited only by a scan that missed it.
ExitsAreReal == \A p \in Running : host[p].left <= host[p].missed

\* An exe of the whitelist is never alerted on, even in a suspicious
\* directory, setuid and with an unknown parent: the ten points suffice only
\* because run has put it in the baseline (process.go:452).
WhitelistedExeIsQuiet ==
  \A p \in Running : host[p].image.exe \in WhitelistExes => host[p].told = 0

\* Once the baseline timer has fired, a process with a suspicious exe that
\* starts on a pid the last scan did not see, and goes on running, is told.
SuspectIsTold ==
  \A p \in ProcPid, i \in {j \in Image : /\ j.exe \in SuspiciousExes \ WhitelistExes
                                        /\ j.comm \notin WhitelistComms \cup PrefixedComms} :
    host[p].image = i /\ host[p].fresh /\ life = "running"
      ~> host[p].told > 0 \/ host[p].image # i \/ life # "running"
=============================================================================
