----------------------------- MODULE AngelMain -----------------------------
(***************************************************************************)
(* The angel binary (cmd/angel/main.go) for the angels that poll: its      *)
(* first argument decides which of them the process is. Each behaviour is  *)
(* the process of one kind, with Lab at the other end of its connection;   *)
(* the variables of the other kinds keep their initial values.             *)
(***************************************************************************)
EXTENDS Memory, ProcessAngel, Sentinel

CONSTANTS
  SavedBaselines   \* what the sentinel's baseline file may be at the start

ASSUME MainAssumption == SavedBaselines \subseteq Baselines \cup Unloadable

VARIABLE kind      \* os.Args[1]

kindVars == <<memVars, procVars, sentVars, kind>>
mainVars == <<kindVars, shellVars>>

\* main: the dispatch.
MainInit ==
  /\ kind \in {"memory", "process", "sentinel"}
  /\ ShellInit /\ MemInit /\ ProcInit
  /\ IF kind = "sentinel" THEN SentInit(SavedBaselines) ELSE SentInit({Absent})

RunMemory == kind = "memory" /\ MemNext /\ UNCHANGED <<procVars, sentVars, kind>>
RunProcess == kind = "process" /\ ProcNext /\ UNCHANGED <<memVars, sentVars, kind>>
RunSentinel == kind = "sentinel" /\ SentNext /\ UNCHANGED <<memVars, procVars, kind>>
LabEnd == (SendWillFail \/ LabGoes) /\ UNCHANGED kindVars

MainNext == RunMemory \/ RunProcess \/ RunSentinel \/ LabEnd

\* A ticker whose channel is ready is served: select chooses at random among
\* ready channels, so none is passed over for ever. The host and Lab owe
\* nothing. A poll of the sentinel is a loop that runs to its end.
Heartbeats ==
  /\ \/ kind = "memory" /\ MemHeartbeat
     \/ kind = "process" /\ ProcHeartbeat
     \/ kind = "sentinel" /\ SentHeartbeat
  /\ UNCHANGED kindVars

SentLoop ==
  /\ kind = "sentinel"
  /\ SaveBaseline \/ PollEnds \/ \E r \in Remote : PassOver(r) \/ Consider(r)
  /\ UNCHANGED <<memVars, procVars, kind>>

Startup ==
  /\ life = "starting"
  /\ \/ kind = "memory" /\ (MemStarts \/ MemStartupFails) /\ UNCHANGED <<procVars, sentVars>>
     \/ kind = "process" /\ (ProcStarts \/ ProcStartupFails) /\ UNCHANGED <<memVars, sentVars>>
     \/ kind = "sentinel" /\ (SentStarts \/ SentStartupFails) /\ UNCHANGED <<memVars, procVars>>
  /\ UNCHANGED kind

MainFairness ==
  /\ WF_mainVars(Startup) /\ SF_mainVars(Heartbeats) /\ WF_mainVars(SentLoop)
  /\ WF_mainVars(kind = "process" /\ Scan /\ UNCHANGED <<memVars, sentVars, kind>>)
  /\ WF_mainVars(kind = "process" /\ BaselineTimerFires /\ UNCHANGED <<memVars, sentVars, kind>>)

MainSpec == MainInit /\ [][MainNext]_mainVars /\ MainFairness
-----------------------------------------------------------------------------
AngelsTypeOK == MemTypeOK /\ ProcTypeOK /\ SentTypeOK

\* Lab that is gone is noticed: the angel does not go on without it, it
\* exits ("No silent disconnection", docs/failure-semantics.md:220).
DeadLabEndsAngel == link = "down" /\ life \in {"starting", "running"} ~> life \notin {"starting", "running"}
=============================================================================
