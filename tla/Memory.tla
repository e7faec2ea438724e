------------------------------- MODULE Memory -------------------------------
(***************************************************************************)
(* The memory angel (internal/angels/memory/memory.go). A poll resolves    *)
(* the pids to watch, reads the resident size of each, keeps a window of   *)
(* samples per pid and judges it by absolute, growth and rate thresholds.  *)
(* An alert silences its pid for a cooldown. Time is counted in polls.     *)
(***************************************************************************)
EXTENDS AngelShell, Integers, Sequences, SequencesExt

CONSTANTS
  Pid,          \* the pids that can be watched
  SelfPid,      \* the angel's own pid
  StaticPids,   \* cfg.PIDs
  NamedPids,    \* the pids cfg.ProcessNames can match
  Rss,          \* the sizes (in KB) a process can have
  WordSize,     \* sizes are unsigned: differences are taken modulo this
  WindowSize, AbsWarn, AbsCrit, GrowthWarnPct, GrowthCritPct,
  RateWarn, RateCrit,   \* growth over one full window, in KB
  AlertCooldown,        \* in polls
  MaxKills              \* bound: OOM kills in the cgroup

ASSUME MemAssumption ==
  /\ Pid \subseteq Nat \ {0}
  /\ SelfPid \in Pid /\ StaticPids \subseteq Pid /\ NamedPids \subseteq Pid
  /\ WordSize \in Nat \ {0} /\ Rss \subseteq 0..(WordSize - 1)
  /\ WindowSize \in Nat /\ WindowSize >= 2
  /\ AlertCooldown \in Nat \ {0} /\ MaxKills \in Nat

VARIABLES
  window,       \* the samples of each pid, oldest first; empty: no window
  alerted,      \* polls since the last alert; above the cooldown: none
  kills,        \* the cgroup's oom_kill counter
  lastOOMKills, \* its value at the last successful read
  oomTold,      \* kills that Lab has been told of (history)
  silent,       \* polls a critical pid has gone unheard (history)
  since,        \* polls since the last alert of a pid watched ever since (history)
  gap           \* polls between the last two such alerts (history)

memVars == <<window, alerted, kills, lastOOMKills, oomTold, silent, since, gap>>

NoAlert == AlertCooldown + 2
NotRead == -1
Cgroup == 0   \* stands where an event names a pid
SilentMax == AlertCooldown + MaxHiccups * (AlertCooldown + 1)

MemTypeOK ==
  /\ ShellTypeOK
  /\ \A p \in Pid : /\ Len(window[p]) <= WindowSize
                    /\ \A i \in DOMAIN window[p] : window[p][i] \in Rss
  /\ alerted \in [Pid -> 0..NoAlert]
  /\ kills \in 0..MaxKills /\ lastOOMKills \in 0..kills
  /\ oomTold \in 0..kills
  /\ silent \in [Pid -> 0..SilentMax + 1]
  /\ since \in [Pid -> 0..AlertCooldown] /\ gap \in [Pid -> 1..AlertCooldown]

MemInit ==
  /\ window = [p \in Pid |-> <<>>]
  /\ alerted = [p \in Pid |-> NoAlert]
  /\ kills \in 0..MaxKills /\ lastOOMKills = 0 /\ oomTold = 0
  /\ silent = [p \in Pid |-> 0]
  /\ since = [p \in Pid |-> AlertCooldown] /\ gap = since

-----------------------------------------------------------------------------
(* The window. *)

AddSampleUnbounded(w, rss) == Append(w, rss)   \* a mutant: nothing evicted

AddSample(w, rss) ==
  IF Len(w) < WindowSize THEN Append(w, rss) ELSE Append(Tail(w), rss)

Full(w) == Len(w) = WindowSize

\* growthPct: the difference of two unsigned sizes, so a size that shrank
\* wraps round to a huge growth. Compared here without the division.
Grew(w, pct) ==
  /\ Head(w) # 0
  /\ 100 * ((Last(w) - Head(w)) % WordSize) >= pct * Head(w)

GrewAtAll(w) == Head(w) # 0 /\ Last(w) # Head(w)

\* growthRateKBps does look at the sign.
GrewFast(w, rate) == Last(w) > Head(w) /\ Last(w) - Head(w) >= rate

\* checkThresholds: the rules one sample sets off, outside a cooldown. The
\* absolute rules and the growth warning return; the critical growth goes on
\* to the rate rules.
RateRules(w) ==
  IF GrewFast(w, RateCrit) THEN {"rate_crit"}
  ELSE IF GrewFast(w, RateWarn) THEN {"rate_warn"} ELSE {}

Rules(w) ==
  IF Last(w) >= AbsCrit THEN {"abs_crit"}
  ELSE IF Last(w) >= AbsWarn THEN {"abs_warn"}
  ELSE IF ~Full(w) \/ ~GrewAtAll(w) THEN {}
  ELSE IF Grew(w, GrowthCritPct) THEN {"growth_crit"} \cup RateRules(w)
  ELSE IF Grew(w, GrowthWarnPct) THEN {"growth_warn"}
  ELSE RateRules(w)

-----------------------------------------------------------------------------
(* One poll. *)

\* resolvePIDs: the configured pids and those whose name matches now, or the
\* angel itself when there are none.
ResolvePIDs(named) ==
  LET found == StaticPids \cup named
  IN  IF found = {} THEN {SelfPid} ELSE found

\* The pids that may be silent: time.Since(last) < AlertCooldown, where the
\* poll that falls on the cooldown itself may be a little early.
Quiet(p, early) ==
  \/ alerted[p] + 1 < AlertCooldown
  \/ alerted[p] + 1 = AlertCooldown /\ p \in early

Aged(p) == IF alerted[p] >= AlertCooldown THEN NoAlert ELSE alerted[p] + 1

\* A mutant: the entry is stamped at every check, not at every alert.
AlertedAfterStamping(pids, alerting) ==
  [p \in Pid |->
     IF p \in alerting \/ (p \in pids /\ alerted[p] < AlertCooldown) THEN 0
     ELSE IF p \notin pids /\ window[p] # <<>> THEN NoAlert ELSE Aged(p)]

\* A mutant: the cooldown is deleted wherever the window is.
AlertedAfterDeleting(pids, alerting) ==
  [p \in Pid |-> IF p \in alerting THEN 0
                 ELSE IF window'[p] = <<>> THEN NoAlert ELSE Aged(p)]

\* The cooldown entries after a poll: an alert starts one, whether or not it
\* was sent; pruning a window deletes one; a failed read leaves it.
AlertedAfter(pids, alerting) ==
  [p \in Pid |->
     IF p \in alerting THEN 0
     ELSE IF p \notin pids /\ window[p] # <<>> THEN NoAlert
     ELSE Aged(p)]

\* The windows after a poll: a pid that could not be read, or is no longer a
\* target, loses its window.
WindowsAfter(pids, rss) ==
  [p \in Pid |-> IF p \in pids /\ rss[p] # NotRead
                 THEN AddSample(window[p], rss[p]) ELSE <<>>]

\* One poll more since the last alert (history).
Older(n) == IF n < AlertCooldown THEN n + 1 ELSE n

\* checkCgroup: the kills since the last successful read, and the new mark.
MarkForgotten(read) == IF read THEN kills ELSE 0   \* a mutant: zero on error

Mark(read) == IF read THEN kills ELSE lastOOMKills

\* The rules each pid sets off, given the windows after the reads.
Fired(W, early) ==
  [p \in Pid |-> IF W[p] = <<>> \/ Quiet(p, early) THEN {} ELSE Rules(W[p])]

\* The alert about kills that the last read did not count.
OomEvents(cgroup) == IF Mark(cgroup) > lastOOMKills THEN {<<Cgroup, "oom">>} ELSE {}

\* The reads, the judgement of each window, and the cgroup at the end.
PollWith(pids, rss, cgroup, early) ==
  LET W == WindowsAfter(pids, rss)
      fired == Fired(W, early)
      oom == OomEvents(cgroup)
      alerting == {p \in Pid : fired[p] # {}}
      events == UNION {{<<p, r>> : r \in fired[p]} : p \in Pid} \cup oom
  IN /\ window' = W
     /\ alerted' = AlertedAfter(pids, alerting)
     /\ lastOOMKills' = Mark(cgroup)
     /\ Emit(events)
     /\ \E lost \in Lost(events) :
          /\ oomTold' = IF oom \subseteq lost THEN oomTold
                        ELSE oomTold + Mark(cgroup) - lastOOMKills
          /\ silent' = [p \in Pid |->
               IF /\ W[p] # <<>> /\ Last(W[p]) >= AbsCrit /\ link # "down"
                  /\ \A r \in fired[p] : <<p, r>> \in lost
               THEN IF silent[p] > SilentMax THEN silent[p] ELSE silent[p] + 1
               ELSE 0]
     /\ since' = [p \in Pid |-> IF p \notin pids THEN AlertCooldown
                                ELSE IF p \in alerting THEN 0 ELSE Older(since[p])]
     /\ gap' = [p \in Pid |-> IF p \in alerting THEN Older(since[p]) ELSE gap[p]]

Poll ==
  /\ life = "running"
  /\ \E named \in SUBSET NamedPids, cgroup \in BOOLEAN,
        early \in SUBSET {p \in Pid : alerted[p] + 1 = AlertCooldown} :
     \E rss \in [ResolvePIDs(named) -> Rss \cup {NotRead}] :
        /\ SelfPid \in ResolvePIDs(named) => rss[SelfPid] # NotRead
        /\ PollWith(ResolvePIDs(named), rss, cgroup, early)
  /\ UNCHANGED <<life, kills>>

OomKill ==
  /\ kills < MaxKills /\ kills' = kills + 1
  /\ UNCHANGED <<window, alerted, lastOOMKills, oomTold, silent, since, gap, shellVars>>

MemStarts == Started /\ UNCHANGED memVars

MemStartupFails == StartupFails /\ UNCHANGED memVars

\* The heartbeat is tried twice.
MemHeartbeat == Heartbeat(2) /\ UNCHANGED memVars

MemNext == MemStarts \/ MemStartupFails \/ Poll \/ MemHeartbeat \/ OomKill
-----------------------------------------------------------------------------
(* Properties. *)

\* A process read at or above the critical size is heard of: no more polls
\* pass in silence than one cooldown, and one more cooldown for each alert
\* that a failed send lost, because the alert is stamped before it is sent
\* and not repeated (memory.go checkThresholds, emitEvent).
CriticalIsHeard == \A p \in Pid : silent[p] <= SilentMax

\* While a pid stays watched its alerts are a cooldown apart: a poll that
\* cannot read it drops its window but not its cooldown (memory.go poll).
AlertsAreSpaced == \A p \in Pid : gap[p] >= AlertCooldown

\* Each OOM kill is told once, across polls that could not read the counter:
\* with a connection that never failed, Lab knows of exactly the kills the
\* angel has read (memory.go checkCgroup).
KillsAreToldOnce ==
  /\ oomTold <= lastOOMKills
  /\ hiccups = 0 /\ link = "up" => oomTold = lastOOMKills
=============================================================================
