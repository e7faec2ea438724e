----------------------------- MODULE AngelProofs -----------------------------
(***************************************************************************)
(* What the memory and the sentinel angel keep to, for every host, every   *)
(* limit and every failure: alerts come no closer than the cooldown and no *)
(* critical process stays unheard for longer, OOM kills are told once, an  *)
(* anomaly is not repeated, a saved baseline is not trained over, and a    *)
(* connection that stays is scored before many polls have passed.  The     *)
(* types of the memory and of the sentinel angel are here as well, for the *)
(* theorem on those of all three in ProcessProofs.                         *)
(***************************************************************************)
EXTENDS AngelMain, FiniteSetTheorems, TLAPS

\* A connection that has not had a hiccup is not in one.
LinkInv == hiccups \in Nat /\ (link = "hiccup" => hiccups > 0)

\* In a memory or process angel a link that is good now has been good before.
LinkKept == (hiccups' = 0 /\ link' = "up") => (hiccups = 0 /\ link = "up")

LEMMA EmitLink ==
  ASSUME LinkInv, NEW events, Emit(events)
  PROVE  LinkInv' /\ LinkKept
  BY DEF LinkInv, LinkKept, Emit

LEMMA HeartbeatLink ==
  ASSUME LinkInv, NEW tries, Heartbeat(tries)
  PROVE  LinkInv' /\ LinkKept
  BY DEF LinkInv, LinkKept, Heartbeat

LEMMA StillLink ==
  ASSUME LinkInv, UNCHANGED <<link, hiccups>>
  PROVE  LinkInv' /\ LinkKept
  BY DEF LinkInv, LinkKept

LEMMA MemLink ==
  ASSUME LinkInv, MemNext
  PROVE  LinkInv' /\ LinkKept
<1>1. CASE MemStarts \/ MemStartupFails \/ OomKill
  BY <1>1, StillLink DEF MemStarts, MemStartupFails, OomKill, Started, StartupFails, shellVars
<1>2. CASE Poll
  <2>1. PICK pids, rss, cgroup, early : PollWith(pids, rss, cgroup, early)
    BY <1>2 DEF Poll
  <2>2. \E events : Emit(events)
    BY <2>1 DEF PollWith
  <2> QED
    BY <2>2, EmitLink
<1>3. CASE MemHeartbeat
  BY <1>3, HeartbeatLink DEF MemHeartbeat
<1> QED
  BY <1>1, <1>2, <1>3 DEF MemNext

LEMMA ProcLink ==
  ASSUME LinkInv, ProcNext
  PROVE  LinkInv' /\ LinkKept
<1>1. CASE ProcStarts \/ ProcStartupFails \/ HostStep
  BY <1>1, StillLink DEF ProcStarts, ProcStartupFails, HostStep, Fork, Exec, Exit,
                         Started, StartupFails, shellVars
<1>2. CASE Scan
  <2>1. PICK read : ScanWith(read)
    BY <1>2 DEF Scan
  <2>2. \E events : Emit(events)
    BY <2>1 DEF ScanWith
  <2> QED
    BY <2>2, EmitLink
<1>3. CASE BaselineTimerFires
  BY <1>3, EmitLink DEF BaselineTimerFires
<1>4. CASE ProcHeartbeat
  BY <1>4, HeartbeatLink DEF ProcHeartbeat
<1> QED
  BY <1>1, <1>2, <1>3, <1>4, SMTT(40) DEF ProcNext

\* The next process of a sentinel has a new connection.
LEMMA SentLink ==
  ASSUME LinkInv, SentNext
  PROVE  LinkInv'
<1>1. CASE SentStarts \/ SentStartupFails \/ SentKilled \/ SentTimerFires \/ SaveBaseline
           \/ PollBegins \/ PollEnds \/ \E r \in Remote : PassOver(r)
  BY <1>1, StillLink DEF SentStarts, SentStartupFails, SentKilled, SentTimerFires, SaveBaseline,
                         PollBegins, PollEnds, PassOver, Started, StartupFails, shellVars
<1>2. CASE SentRestarts
  BY <1>2 DEF SentRestarts, LinkInv
<1>3. CASE SentHeartbeat
  BY <1>3, HeartbeatLink DEF SentHeartbeat
<1>4. CASE \E r \in Remote : Consider(r)
  <2>1. \/ UNCHANGED <<link, hiccups>>
        \/ \E events : Emit(events)
    BY <1>4 DEF Consider
  <2> QED
    BY <2>1, StillLink, EmitLink
<1> QED
  BY <1>1, <1>2, <1>3, <1>4 DEF SentNext

LEMMA LinkStep ==
  ASSUME LinkInv, [MainNext]_mainVars
  PROVE  LinkInv' /\ (kind # "sentinel" => LinkKept)
<1>1. CASE LabEnd
  BY <1>1 DEF LabEnd, SendWillFail, LabGoes, LinkInv, LinkKept
<1>2. CASE UNCHANGED mainVars
  BY <1>2, StillLink DEF mainVars, shellVars
<1> QED
  BY <1>1, <1>2, MemLink, ProcLink, SentLink DEF MainNext, RunMemory, RunProcess, RunSentinel
-----------------------------------------------------------------------------
(* The memory angel.                                                         *)

\* Lab knows of the kills that the angel has read, if no send has failed.
KillsInv ==
  /\ LinkInv
  /\ kills \in Nat /\ lastOOMKills \in Nat /\ oomTold \in Nat
  /\ oomTold <= lastOOMKills /\ lastOOMKills <= kills
  /\ (hiccups = 0 /\ link = "up") \/ kind # "memory" => oomTold = lastOOMKills

LEMMA KillsInit == MainInit => KillsInv
  BY MemAssumption, ShellAssumption DEF MainInit, ShellInit, MemInit, KillsInv, LinkInv

\* A poll counts up to what it read, and with a good link Lab is told.
LEMMA PollKills ==
  ASSUME KillsInv, Poll
  PROVE  /\ UNCHANGED kills
         /\ lastOOMKills' \in {kills, lastOOMKills}
         /\ oomTold' \in {oomTold, oomTold + lastOOMKills' - lastOOMKills}
         /\ link = "up" => oomTold' = oomTold + lastOOMKills' - lastOOMKills
<1>1. PICK pids, rss, cgroup, early : PollWith(pids, rss, cgroup, early)
  BY DEF Poll
<1>2. PICK events : \E lost \in Lost(events) :
         oomTold' = IF OomEvents(cgroup) \subseteq lost THEN oomTold
                    ELSE oomTold + Mark(cgroup) - lastOOMKills
  BY <1>1 DEF PollWith
<1>3. PICK lost \in Lost(events) :
         oomTold' = IF OomEvents(cgroup) \subseteq lost THEN oomTold
                    ELSE oomTold + Mark(cgroup) - lastOOMKills
  BY <1>2
<1>4. lastOOMKills' = Mark(cgroup) /\ Mark(cgroup) \in {kills, lastOOMKills}
  BY <1>1 DEF PollWith, Mark
<1>5. ASSUME link = "up" PROVE oomTold' = oomTold + lastOOMKills' - lastOOMKills
  <2>1. lost = {}
    BY <1>3, <1>5 DEF Lost
  <2>2. CASE Mark(cgroup) > lastOOMKills
    <3>1. ~(OomEvents(cgroup) \subseteq lost)
      BY <2>1, <2>2 DEF OomEvents
    <3> QED
      BY <3>1, <1>3, <1>4
  <2>3. CASE ~(Mark(cgroup) > lastOOMKills)
    <3>1. OomEvents(cgroup) \subseteq lost /\ Mark(cgroup) = lastOOMKills
      BY <2>3, <1>4 DEF OomEvents, KillsInv
    <3> QED
      BY <3>1, <1>3, <1>4 DEF KillsInv
  <2> QED
    BY <2>2, <2>3
<1> QED
  BY <1>3, <1>4, <1>5 DEF Poll

LEMMA KillsStep == KillsInv /\ [MainNext]_mainVars => KillsInv'
<1> SUFFICES ASSUME KillsInv, [MainNext]_mainVars PROVE KillsInv'
  OBVIOUS
<1>1. LinkInv' /\ (kind # "sentinel" => LinkKept)
  BY LinkStep DEF KillsInv
<1>2. UNCHANGED kind
  BY DEF MainNext, RunMemory, RunProcess, RunSentinel, LabEnd, kindVars, mainVars
<1>3. CASE UNCHANGED <<kills, lastOOMKills, oomTold>>
  BY <1>1, <1>2, <1>3 DEF KillsInv, LinkKept
<1>4. CASE kind = "memory" /\ Poll
  BY <1>1, <1>2, <1>4, PollKills DEF KillsInv, LinkKept
<1>5. CASE kind = "memory" /\ OomKill
  BY <1>1, <1>2, <1>5 DEF OomKill, KillsInv, LinkKept
<1>6. CASE RunMemory
  BY <1>3, <1>4, <1>5, <1>6 DEF RunMemory, MemNext, MemStarts, MemStartupFails, MemHeartbeat,
                                memVars
<1> QED
  BY <1>3, <1>6 DEF MainNext, RunProcess, RunSentinel, LabEnd, kindVars, mainVars, memVars

\* Each OOM kill is told once, whatever reads fail in between (checkCgroup).
THEOREM KillsToldOnce == MainSpec => []KillsAreToldOnce
<1>1. KillsInv => KillsAreToldOnce
  BY DEF KillsInv, KillsAreToldOnce
<1> QED
  BY <1>1, KillsInit, KillsStep, PTL DEF MainSpec
-----------------------------------------------------------------------------
\* As long as a pid is watched, its cooldown is not older than its last alert.
SpacedInv ==
  /\ alerted \in [Pid -> 0 .. NoAlert]
  /\ since \in [Pid -> 0 .. AlertCooldown]
  /\ gap \in [Pid -> Nat]
  /\ \A p \in Pid :
       /\ gap[p] >= AlertCooldown
       /\ since[p] >= alerted[p] \/ since[p] = AlertCooldown

LEMMA SpacedInit == MainInit => SpacedInv
  BY MemAssumption DEF MainInit, MemInit, SpacedInv, NoAlert

\* What a poll does to the cooldown of one pid (checkThresholds, poll).
LEMMA PollCooldown ==
  ASSUME SpacedInv, NEW p \in Pid, Poll
  PROVE  \/ /\ alerted[p] + 1 >= AlertCooldown
            /\ alerted'[p] = 0 /\ gap'[p] = Older(since[p])
            /\ since'[p] \in {0, AlertCooldown}
         \/ /\ alerted'[p] \in {NoAlert, Aged(p)} /\ gap'[p] = gap[p]
            /\ since'[p] = AlertCooldown
         \/ /\ alerted'[p] = Aged(p) /\ gap'[p] = gap[p]
            /\ since'[p] = Older(since[p])
<1>1. PICK pids, rss, cgroup, early : PollWith(pids, rss, cgroup, early)
  BY DEF Poll
<1> DEFINE fired == Fired(WindowsAfter(pids, rss), early)
           alerting == {q \in Pid : fired[q] # {}}
<1>2. /\ alerted'[p] = IF p \in alerting THEN 0
                       ELSE IF p \notin pids /\ window[p] # <<>> THEN NoAlert ELSE Aged(p)
      /\ since'[p] = IF p \notin pids THEN AlertCooldown
                     ELSE IF p \in alerting THEN 0 ELSE Older(since[p])
      /\ gap'[p] = IF p \in alerting THEN Older(since[p]) ELSE gap[p]
  BY <1>1 DEF PollWith, AlertedAfter
<1>3. ASSUME p \in alerting PROVE alerted[p] + 1 >= AlertCooldown
  <2>1. ~Quiet(p, early)
    BY <1>3 DEF Fired
  <2> QED
    BY <2>1, MemAssumption DEF Quiet, SpacedInv, NoAlert
<1> QED
  BY <1>2, <1>3

LEMMA SpacedPoll ==
  ASSUME SpacedInv, Poll
  PROVE  SpacedInv'
<1>1. /\ DOMAIN alerted' = Pid /\ DOMAIN since' = Pid /\ DOMAIN gap' = Pid
      /\ alerted' = [p \in Pid |-> alerted'[p]]
      /\ since' = [p \in Pid |-> since'[p]]
      /\ gap' = [p \in Pid |-> gap'[p]]
  <2>1. PICK pids, rss, cgroup, early : PollWith(pids, rss, cgroup, early)
    BY DEF Poll
  <2> QED
    BY <2>1 DEF PollWith, AlertedAfter
<1>2. ASSUME NEW p \in Pid
      PROVE  /\ alerted'[p] \in 0 .. NoAlert
             /\ since'[p] \in 0 .. AlertCooldown
             /\ gap'[p] \in Nat
             /\ gap'[p] >= AlertCooldown
             /\ since'[p] >= alerted'[p] \/ since'[p] = AlertCooldown
  <2>1. /\ alerted[p] \in 0 .. AlertCooldown + 2 /\ since[p] \in 0 .. AlertCooldown
        /\ gap[p] \in Nat /\ gap[p] >= AlertCooldown
        /\ since[p] >= alerted[p] \/ since[p] = AlertCooldown
    BY DEF SpacedInv, NoAlert
  <2>2. AlertCooldown \in Nat \ {0}
    BY MemAssumption
  <2> QED
    BY <2>1, <2>2, PollCooldown DEF Older, Aged, NoAlert
<1> QED
  BY <1>1, <1>2 DEF SpacedInv

LEMMA SpacedStep == SpacedInv /\ [MainNext]_mainVars => SpacedInv'
<1> SUFFICES ASSUME SpacedInv, [MainNext]_mainVars PROVE SpacedInv'
  OBVIOUS
<1>1. CASE UNCHANGED <<alerted, since, gap>>
  BY <1>1 DEF SpacedInv
<1>2. CASE RunMemory
  BY <1>1, <1>2, SpacedPoll DEF RunMemory, MemNext, MemStarts, MemStartupFails, MemHeartbeat,
                                OomKill, memVars
<1> QED
  BY <1>1, <1>2 DEF MainNext, RunProcess, RunSentinel, LabEnd, kindVars, mainVars, memVars

\* The alerts of a process that stays watched are a cooldown apart, whatever polls
\* cannot read it (checkThresholds, poll).
THEOREM AlertsSpaced == MainSpec => []AlertsAreSpaced
<1>1. SpacedInv => AlertsAreSpaced
  BY DEF SpacedInv, AlertsAreSpaced
<1> QED
  BY <1>1, SpacedInit, SpacedStep, PTL DEF MainSpec
-----------------------------------------------------------------------------
\* A critical process goes unheard for as long as its cooldown runs, and for a
\* cooldown more for each hiccup that has failed a send.
Failed == IF link = "hiccup" THEN hiccups - 1 ELSE hiccups
Allowance(n) == n * (AlertCooldown + 1)
Cooling(p) == IF alerted[p] <= AlertCooldown THEN alerted[p] ELSE 0

HeardInv ==
  /\ hiccups \in 0 .. MaxHiccups /\ link \in {"up", "hiccup", "down"}
  /\ link = "hiccup" => hiccups > 0
  /\ alerted \in [Pid -> 0 .. NoAlert]
  /\ silent \in [Pid -> Nat]
  /\ \A p \in Pid : silent[p] <= Allowance(Failed) + Cooling(p)

LEMMA AllowanceGrows ==
  /\ \A n \in Nat : Allowance(n) \in Nat /\ Allowance(n + 1) = Allowance(n) + AlertCooldown + 1
  /\ \A m, n \in Nat : m <= n => Allowance(m) <= Allowance(n)
<1>1. AlertCooldown \in Nat
  BY MemAssumption
<1>2. ASSUME NEW n \in Nat
      PROVE  Allowance(n) \in Nat /\ Allowance(n + 1) = Allowance(n) + AlertCooldown + 1
  BY <1>1 DEF Allowance
<1>3. ASSUME NEW m \in Nat, NEW n \in Nat, m <= n
      PROVE  Allowance(m) <= Allowance(n)
  BY <1>1, <1>3 DEF Allowance
<1> QED
  BY <1>2, <1>3

LEMMA HeardInit == MainInit => HeardInv
<1> SUFFICES ASSUME MainInit PROVE HeardInv
  OBVIOUS
<1>1. /\ link = "up" /\ hiccups = 0
      /\ alerted = [p \in Pid |-> NoAlert] /\ silent = [p \in Pid |-> 0]
  BY DEF MainInit, ShellInit, MemInit
<1>2. Failed = 0 /\ 0 \in 0 .. MaxHiccups /\ NoAlert \in 0 .. NoAlert /\ NoAlert > AlertCooldown
  BY <1>1, ShellAssumption, MemAssumption DEF Failed, NoAlert
<1> QED
  BY <1>1, <1>2, AllowanceGrows DEF HeardInv, Cooling

\* A hiccup that meets no event of this process only lets the allowance grow.
LEMMA HeardElsewhere ==
  ASSUME HeardInv, UNCHANGED <<alerted, silent>>, hiccups' \in 0 .. MaxHiccups,
         link' \in {"up", "hiccup", "down"}, link' = "hiccup" => hiccups' > 0, Failed <= Failed'
  PROVE  HeardInv'
<1>1. Failed \in Nat /\ Failed' \in Nat
  <2>1. /\ hiccups \in Nat /\ hiccups' \in Nat
        /\ link = "hiccup" => hiccups > 0
    BY ShellAssumption DEF HeardInv
  <2>2. Failed \in Nat
    BY <2>1 DEF Failed
  <2>3. CASE link' = "hiccup"
    <3>1. hiccups' > 0
      BY <2>3
    <3>2. Failed' = hiccups' - 1
      BY <2>3 DEF Failed
    <3>3. \A n \in Nat : n > 0 => n - 1 \in Nat
      BY ONLY TRUE
    <3>4. hiccups' - 1 \in Nat
      BY <2>1, <3>1, <3>3, Zenon
    <3> QED
      BY <2>2, <3>2, <3>4
  <2>4. CASE link' # "hiccup"
    BY <2>1, <2>2, <2>4 DEF Failed
  <2> QED
    BY <2>3, <2>4
<1>2. Allowance(Failed) <= Allowance(Failed)' /\ Allowance(Failed) \in Nat /\ Allowance(Failed)' \in Nat
  BY <1>1, AllowanceGrows, MemAssumption DEF Allowance
<1>3. ASSUME NEW p \in Pid
      PROVE  silent'[p] <= Allowance(Failed)' + Cooling(p)'
  <2>1. Cooling(p) \in Nat /\ Cooling(p)' = Cooling(p) /\ silent[p] \in Nat
    BY MemAssumption DEF HeardInv, Cooling, NoAlert
  <2>2. silent[p] <= Allowance(Failed) + Cooling(p)
    BY DEF HeardInv
  <2> QED
    BY <1>2, <2>1, <2>2
<1> QED
  BY <1>3 DEF HeardInv

LEMMA HeardPoll ==
  ASSUME HeardInv, Poll
  PROVE  HeardInv'
<1>1. PICK pids, rss, cgroup, early : PollWith(pids, rss, cgroup, early)
  BY DEF Poll
<1> DEFINE W == WindowsAfter(pids, rss)
           fired == Fired(W, early)
           oom == OomEvents(cgroup)
           events == UNION {{<<p, r>> : r \in fired[p]} : p \in Pid} \cup oom
           alerting == {p \in Pid : fired[p] # {}}
<1>2. PICK lost \in Lost(events) :
        silent' = [p \in Pid |->
             IF /\ W[p] # <<>> /\ Last(W[p]) >= AbsCrit /\ link # "down"
                /\ \A r \in fired[p] : <<p, r>> \in lost
             THEN IF silent[p] > SilentMax THEN silent[p] ELSE silent[p] + 1
             ELSE 0]
  BY <1>1 DEF PollWith
<1>3. /\ alerted' = AlertedAfter(pids, alerting)
      /\ Emit(events)
  BY <1>1 DEF PollWith
<1>4. /\ hiccups' = hiccups /\ Failed \in Nat /\ Failed' \in Nat
      /\ Failed' = IF link = "hiccup" /\ events # {} THEN Failed + 1 ELSE Failed
      /\ link' = "hiccup" => hiccups' > 0
      /\ link' \in {"up", "hiccup", "down"}
  BY <1>3 DEF Emit, Failed, HeardInv
<1>5. /\ Allowance(Failed) \in Nat /\ Allowance(Failed)' \in Nat
      /\ Allowance(Failed)' = IF link = "hiccup" /\ events # {}
                              THEN Allowance(Failed) + AlertCooldown + 1 ELSE Allowance(Failed)
  BY <1>4, AllowanceGrows DEF Allowance
<1>6. ASSUME NEW p \in Pid
      PROVE  /\ alerted'[p] \in 0 .. NoAlert /\ silent'[p] \in Nat
             /\ silent'[p] <= Allowance(Failed)' + Cooling(p)'
  <2>1. /\ alerted[p] \in 0 .. NoAlert /\ silent[p] \in Nat
        /\ silent[p] <= Allowance(Failed) + Cooling(p)
        /\ AlertCooldown \in Nat \ {0} /\ NoAlert = AlertCooldown + 2
    BY MemAssumption DEF HeardInv, NoAlert
  <2>2. alerted'[p] = IF p \in alerting THEN 0
                      ELSE IF p \notin pids /\ window[p] # <<>> THEN NoAlert ELSE Aged(p)
    BY <1>3 DEF AlertedAfter
  <2>3. alerted'[p] \in 0 .. NoAlert
    BY <2>1, <2>2 DEF Aged
  <2>4. Cooling(p) \in 0 .. AlertCooldown /\ Cooling(p)' \in 0 .. AlertCooldown
    BY <2>1, <2>3 DEF Cooling
  <2>5. CASE silent'[p] = 0
    BY <1>5, <2>3, <2>4, <2>5
  <2>6. CASE silent'[p] # 0
    <3>1. /\ W[p] # <<>> /\ Last(W[p]) >= AbsCrit /\ link # "down"
          /\ \A r \in fired[p] : <<p, r>> \in lost
          /\ silent'[p] \in {silent[p], silent[p] + 1}
      BY <1>2, <2>6
    <3>2. p \in pids
      BY <3>1 DEF WindowsAfter
    <3>3. CASE Quiet(p, early)
      <4>1. p \notin alerting /\ alerted[p] < AlertCooldown
        BY <2>1, <3>3 DEF Fired, Quiet
      <4> HIDE DEF alerting, events
      <4>2. alerted'[p] = alerted[p] + 1
        BY <2>1, <2>2, <3>2, <4>1 DEF Aged
      <4>3. Cooling(p) = alerted[p] /\ Cooling(p)' = alerted[p] + 1
        BY <2>1, <4>1, <4>2 DEF Cooling
      <4>4. Allowance(Failed) <= Allowance(Failed)'
        BY <1>5, <2>1
      <4> QED
        BY <1>5, <2>1, <2>3, <3>1, <4>3, <4>4, SMTT(40)
    <3>4. CASE ~Quiet(p, early)
      <4>1. fired[p] = Rules(W[p])
        BY <3>1, <3>4 DEF Fired
      <4>2. Rules(W[p]) # {}
        BY <3>1 DEF Rules
      <4>3. PICK r \in fired[p] : <<p, r>> \in lost /\ <<p, r>> \in events
        <5>1. PICK r \in fired[p] : TRUE
          BY <4>1, <4>2
        <5>2. <<p, r>> \in {<<p, q>> : q \in fired[p]}
          BY Zenon
        <5>3. <<p, r>> \in events
          BY <5>2, Zenon
        <5> QED
          BY <3>1, <5>1, <5>3, Zenon
      <4> HIDE DEF events
      <4>4. link = "hiccup" /\ events # {}
        BY <3>1, <4>3 DEF Lost, HeardInv
      <4>5. Allowance(Failed)' = Allowance(Failed) + AlertCooldown + 1 /\ Allowance(Failed) \in Nat
        BY <1>5, <4>4
      <4>6. silent'[p] \in Nat /\ silent'[p] <= silent[p] + 1
        BY <2>1, <3>1
      <4>7. silent'[p] <= Allowance(Failed)' + Cooling(p)'
        BY <2>1, <2>4, <4>5, <4>6
      <4> QED
        BY <2>3, <4>6, <4>7
    <3> QED
      BY <3>3, <3>4
  <2> QED
    BY <2>5, <2>6
<1>7. alerted' \in [Pid -> 0 .. NoAlert] /\ silent' \in [Pid -> Nat]
  <2>1. /\ alerted' = [p \in Pid |-> alerted'[p]]
        /\ silent' = [p \in Pid |-> silent'[p]]
    BY <1>2, <1>3 DEF AlertedAfter
  <2> QED
    BY <1>6, <2>1
<1> HIDE DEF events
<1> QED
  BY <1>4, <1>6, <1>7 DEF HeardInv
LEMMA HeardStep == HeardInv /\ [MainNext]_mainVars => HeardInv'
<1> SUFFICES ASSUME HeardInv, [MainNext]_mainVars PROVE HeardInv'
  OBVIOUS
<1>0. hiccups \in Nat /\ hiccups \in 0 .. MaxHiccups /\ (link = "hiccup" => hiccups > 0)
  BY ShellAssumption DEF HeardInv
<1>1. ASSUME UNCHANGED <<alerted, silent, link, hiccups>>
      PROVE  HeardInv'
  BY <1>1 DEF HeardInv, Cooling, Failed, Allowance
<1>2. ASSUME UNCHANGED <<alerted, silent, hiccups>>, link' \in {"up", "down"}
      PROVE  HeardInv'
  <2>1. Failed <= Failed'
    BY <1>0, <1>2 DEF Failed
  <2> QED
    BY <1>0, <1>2, <2>1, HeardElsewhere
<1>3. CASE LabEnd
  <2>1. CASE SendWillFail
    <3>1. /\ hiccups' \in 0 .. MaxHiccups /\ link' = "hiccup" /\ hiccups' > 0
          /\ Failed = hiccups /\ Failed' = hiccups
      BY <1>0, <2>1, ShellAssumption DEF SendWillFail, Failed
    <3> QED
      BY <1>0, <1>3, <3>1, HeardElsewhere DEF LabEnd, kindVars, memVars
  <2>2. CASE LabGoes
    BY <1>2, <1>3, <2>2 DEF LabEnd, LabGoes, kindVars, memVars
  <2> QED
    BY <1>3, <2>1, <2>2 DEF LabEnd
<1>4. CASE RunMemory /\ Poll
  BY <1>4, HeardPoll
<1>5. ASSUME UNCHANGED <<alerted, silent>>,
             \/ UNCHANGED <<link, hiccups>>
             \/ link' \in {link, "up"} /\ UNCHANGED hiccups
      PROVE  HeardInv'
  BY <1>1, <1>2, <1>5
<1>6. CASE RunMemory /\ ~Poll
  BY <1>5, <1>6, SMTT(40) DEF RunMemory, MemNext, MemStarts, MemStartupFails, MemHeartbeat, OomKill,
                    Started, StartupFails, Heartbeat, memVars, shellVars
<1>7. CASE RunProcess
  BY <1>5, <1>7 DEF RunProcess, ProcNext, ProcStarts, Started, ProcStartupFails, StartupFails,
                    Scan, ScanWith, Emit, BaselineTimerFires, ProcHeartbeat, Heartbeat, HostStep,
                    Fork, Exec, Exit, memVars, shellVars
<1>8. CASE RunSentinel
  BY <1>5, <1>8 DEF RunSentinel, SentNext, SentStarts, Started, SentStartupFails, StartupFails,
                    SentRestarts, SentKilled, SentHeartbeat, Heartbeat, SentTimerFires,
                    SaveBaseline, PollBegins, PollEnds, PassOver, Consider, Emit, memVars, shellVars
<1>9. CASE UNCHANGED mainVars
  BY <1>1, <1>9 DEF mainVars, kindVars, memVars, shellVars
<1> QED
  BY <1>3, <1>4, <1>6, <1>7, <1>8, <1>9 DEF MainNext

\* No critical process is unheard for longer than a cooldown, and one more for
\* each send that fails (checkThresholds, emitEvent).
THEOREM CriticalHeard == MainSpec => []CriticalIsHeard
<1>1. HeardInv => CriticalIsHeard
  <2> SUFFICES ASSUME HeardInv, NEW p \in Pid PROVE silent[p] <= SilentMax
    BY DEF CriticalIsHeard
  <2>1. Failed \in Nat /\ MaxHiccups \in Nat /\ Failed <= MaxHiccups
    BY ShellAssumption DEF HeardInv, Failed
  <2>2. /\ Allowance(Failed) \in Nat /\ Allowance(MaxHiccups) \in Nat
        /\ Allowance(Failed) <= Allowance(MaxHiccups)
    BY <2>1, AllowanceGrows
  <2>3. Cooling(p) \in Nat /\ Cooling(p) <= AlertCooldown /\ silent[p] \in Nat
    BY MemAssumption DEF HeardInv, Cooling, NoAlert
  <2>4. silent[p] <= Allowance(Failed) + Cooling(p)
    BY DEF HeardInv
  <2>5. SilentMax = AlertCooldown + Allowance(MaxHiccups)
    BY DEF SilentMax, Allowance
  <2> QED
    BY <2>2, <2>3, <2>4, <2>5, MemAssumption
<1> QED
  BY <1>1, HeardInit, HeardStep, PTL DEF MainSpec
-----------------------------------------------------------------------------
(* The sentinel.                                                             *)

\* Who trains, or has still to save, has found no baseline, or could not read it.
SavedInv ==
  /\ blind \in BOOLEAN
  /\ saving => phase = "ACTIVE" /\ (file \in Unloadable \/ blind)
  /\ (kind = "sentinel" /\ life = "running" /\ phase = "TRAINING")
       => file \in Unloadable \/ blind

LEMMA SavedInit == MainInit => SavedInv
  BY DEF MainInit, ShellInit, SentInit, Fresh, SavedInv

LEMMA SavedStep ==
  ASSUME SavedInv, [MainNext]_mainVars
  PROVE  SavedInv' /\ (file \notin Unloadable /\ file' # file => blind)
<1>0. UNCHANGED kind
  BY DEF MainNext, RunMemory, RunProcess, RunSentinel, LabEnd, kindVars, mainVars
<1>1. CASE kind # "sentinel" /\ UNCHANGED sentVars
  BY <1>0, <1>1 DEF SavedInv, sentVars, modelVars, histVars
<1>2. ASSUME UNCHANGED <<phase, file, saving, blind>>, life' \in {life, "exited", "panicked"}
      PROVE  SavedInv' /\ UNCHANGED file
  BY <1>0, <1>2 DEF SavedInv
<1>3. CASE LabEnd \/ UNCHANGED mainVars
  BY <1>2, <1>3 DEF LabEnd, SendWillFail, LabGoes, kindVars, mainVars, sentVars, modelVars, histVars,
                     shellVars
<1>4. CASE kind = "sentinel" /\ SentNext
  <2>1. CASE SentStarts
    BY <1>0, <1>4, <2>1 DEF SentStarts, Started, LoadBaseline, SavedInv
  <2>2. CASE SentStartupFails \/ SentKilled \/ SentHeartbeat
    BY <1>2, <2>2 DEF SentStartupFails, SentKilled, SentHeartbeat, StartupFails, Heartbeat, sentVars,
                      modelVars, histVars
  <2>3. CASE SentRestarts
    BY <1>0, <2>3 DEF SentRestarts, SavedInv
  <2>4. CASE SentTimerFires
    BY <1>0, <1>4, <2>4 DEF SentTimerFires, SavedInv, shellVars, histVars
  <2>5. CASE SaveBaseline
    <3>1. /\ file \in Unloadable \/ blind
          /\ phase = "ACTIVE" /\ saving' = FALSE /\ UNCHANGED <<phase, life, blind>>
      BY <2>5 DEF SaveBaseline, SavedInv, shellVars, histVars
    <3> QED
      BY <1>0, <3>1 DEF SavedInv
  <2>6. CASE PollBegins \/ PollEnds \/ \E r \in Remote : PassOver(r)
    BY <1>2, <2>6 DEF PollBegins, PollEnds, PassOver, modelVars, shellVars, histVars
  <2>7. CASE \E r \in Remote : Consider(r)
    <3>1. UNCHANGED <<phase, file, saving, blind>> /\ life' \in {life, "panicked"}
      BY <2>7 DEF Consider, modelVars
    <3> QED
      BY <3>1, <1>2
  <2> QED
    BY <1>4, <2>1, <2>2, <2>3, <2>4, <2>5, <2>6, <2>7 DEF SentNext
<1> QED
  BY <1>1, <1>3, <1>4 DEF MainNext, RunMemory, RunProcess, RunSentinel

\* A baseline that was saved stays, through restarts, kills and the timers of
\* the processes that loaded it: only who could not read it saves over it
\* (loadBaseline, finaliseBaseline, saveBaseline).
THEOREM BaselineIsKept == MainSpec => SavedIsKept
<1>1. SavedInv /\ [MainNext]_mainVars => [file \notin Unloadable /\ file' # file => blind]_file
  BY SavedStep
<1>2. SavedInv /\ [MainNext]_mainVars => SavedInv'
  BY SavedStep
<1> QED
  BY <1>1, <1>2, SavedInit, PTL DEF MainSpec, SavedIsKept

\* What the deduplicator calls new has been quiet for its ttl.
QuietInv ==
  /\ seen \in [Remote -> 0 .. NotSeen]
  /\ quiet \in [Remote -> 0 .. Expired]
  /\ \A r \in Remote : IF seen[r] >= Expired THEN quiet[r] = Expired ELSE quiet[r] >= seen[r]

LEMMA QuietInit == MainInit => QuietInv
  BY SentAssumption DEF MainInit, SentInit, Fresh, NeverQuiet, QuietInv, Expired, NotSeen

\* A remote that is recorded is young; of the others the table keeps the age
\* or nothing.
LEMMA RecordedAges ==
  ASSUME NEW t \in [Remote -> 0 .. NotSeen], NEW r \in Remote, NEW s \in Recorded(t, r)
  PROVE  /\ s \in [Remote -> 0 .. NotSeen]
         /\ s[r] \in {0, NotSeen}
         /\ \A x \in Remote \ {r} : s[x] \in {t[x], NotSeen}
<1>0. 0 \in 0 .. NotSeen /\ NotSeen \in 0 .. NotSeen
  BY SentAssumption DEF NotSeen
<1>1. /\ MarkSeen(t, r) \in [Remote -> 0 .. NotSeen]
      /\ MarkSeen(t, r)[r] = 0
      /\ \A x \in Remote \ {r} : MarkSeen(t, r)[x] = t[x]
  BY <1>0 DEF MarkSeen
<1>2. ASSUME NEW u \in [Remote -> 0 .. NotSeen], NEW v \in Halved(u)
      PROVE  v \in [Remote -> 0 .. NotSeen] /\ \A x \in Remote : v[x] \in {u[x], NotSeen}
  BY <1>0 DEF Halved
<1>3. ASSUME NEW u \in [Remote -> 0 .. NotSeen]
      PROVE  /\ Pruned(u) \in [Remote -> 0 .. NotSeen]
             /\ \A x \in Remote : Pruned(u)[x] \in {u[x], NotSeen}
  BY <1>0 DEF Pruned
<1>4. CASE t[r] # NotSeen
  BY <1>1, <1>4 DEF Recorded
<1>5. CASE t[r] = NotSeen
  <2> DEFINE m == MarkSeen(t, r)
  <2>1. s \in Halved(m) \/ s \in Halved(Pruned(m))
    BY <1>5 DEF Recorded
  <2>2. m \in [Remote -> 0 .. NotSeen] /\ Pruned(m) \in [Remote -> 0 .. NotSeen]
    BY <1>1, <1>3
  <2>3. s \in [Remote -> 0 .. NotSeen] /\ \A x \in Remote : s[x] \in {m[x], Pruned(m)[x], NotSeen}
    BY <1>2, <2>1, <2>2
  <2>4. \A x \in Remote : s[x] \in {m[x], NotSeen}
    BY <1>1, <1>3, <2>3
  <2> QED
    BY <1>1, <2>3, <2>4
<1> QED
  BY <1>4, <1>5

Spaced == \A r \in Remote : quiet'[r] = 0 /\ quiet[r] # 0 => quiet[r] = Expired

LEMMA QuietConsider ==
  ASSUME QuietInv, NEW r \in Remote, Consider(r)
  PROVE  QuietInv' /\ Spaced
<1> DEFINE rated == IF r.ip \notin Loopback THEN AddToRate(rate) ELSE rate
           told == phase = "ACTIVE" /\ ConnScore(r, Cardinality(batch'), Burst(rated)) >= 3
<1>1. PICK s \in Recorded(seen, r) :
        /\ seen' = s
        /\ quiet' = [x \in Remote |-> IF x \in Dropped(s) \/ (x = r /\ s[r] = NotSeen)
                       THEN Expired ELSE IF x = r /\ told THEN 0 ELSE quiet[x]]
  BY Zenon DEF Consider
<1> HIDE DEF told
<1>2. seen[r] >= Expired
  BY DEF Consider, IsNew
<1>3. /\ s \in [Remote -> 0 .. NotSeen] /\ s[r] \in {0, NotSeen}
      /\ \A x \in Remote \ {r} : s[x] \in {seen[x], NotSeen}
  BY RecordedAges DEF QuietInv
<1>4. /\ DedupTTL \in Nat /\ Expired = DedupTTL + 1 /\ NotSeen = DedupTTL + 2
      /\ Expired \in 0 .. Expired /\ 0 \in 0 .. Expired
  BY SentAssumption DEF Expired, NotSeen
<1>5. quiet' \in [Remote -> 0 .. Expired]
  BY <1>1, <1>4 DEF QuietInv
<1>6. ASSUME NEW x \in Remote
      PROVE  IF s[x] >= Expired THEN quiet'[x] = Expired ELSE quiet'[x] >= s[x]
  <2>1. /\ seen[x] \in 0 .. NotSeen /\ quiet[x] \in 0 .. Expired
        /\ IF seen[x] >= Expired THEN quiet[x] = Expired ELSE quiet[x] >= seen[x]
    BY DEF QuietInv
  <2>2. x \in Dropped(s) <=> s[x] = NotSeen /\ seen[x] # NotSeen /\ seen[x] # Expired
    BY DEF Dropped
  <2>3. quiet'[x] = IF x \in Dropped(s) \/ (x = r /\ s[r] = NotSeen) THEN Expired
                    ELSE IF x = r /\ told THEN 0 ELSE quiet[x]
    BY <1>1
  <2> QED
    BY <1>3, <1>4, <2>1, <2>2, <2>3
<1>7. Spaced
  <2>1. quiet[r] = Expired /\ Expired # 0
    BY <1>2, <1>4 DEF QuietInv
  <2> QED
    BY <1>1, <2>1 DEF Spaced
<1> QED
  BY <1>1, <1>3, <1>5, <1>6, <1>7 DEF QuietInv

LEMMA QuietPoll ==
  ASSUME QuietInv, PollBegins
  PROVE  QuietInv' /\ Spaced
<1>1. /\ seen' = [r \in Remote |-> IF seen[r] < Expired THEN seen[r] + 1 ELSE seen[r]]
      /\ quiet' = [r \in Remote |-> IF quiet[r] < Expired THEN quiet[r] + 1 ELSE quiet[r]]
  BY DEF PollBegins
<1> QED
  BY <1>1, SentAssumption DEF QuietInv, Spaced, Expired, NotSeen

LEMMA QuietStep ==
  ASSUME QuietInv, [MainNext]_mainVars
  PROVE  QuietInv' /\ Spaced
<1>1. CASE UNCHANGED <<seen, quiet>>
  BY <1>1 DEF QuietInv, Spaced
<1>2. CASE SentRestarts
  BY <1>2, SentAssumption DEF SentRestarts, QuietInv, Spaced, NeverQuiet, Expired, NotSeen
<1>3. CASE SentNext
  BY <1>1, <1>2, <1>3, QuietPoll, QuietConsider
     DEF SentNext, SentStarts, SentStartupFails, SentKilled, SentHeartbeat, SentTimerFires,
         SaveBaseline, PassOver, PollEnds, pollVars, histVars, sentVars
<1> QED
  BY <1>1, <1>3 DEF MainNext, RunMemory, RunProcess, RunSentinel, LabEnd, sentVars, pollVars, histVars,
                    kindVars, mainVars

\* One process reports a remote again only when the deduplicator's ttl has
\* passed or its size limit has dropped the remote (IsNew, pruneHalf).
THEOREM AnomaliesSpaced == MainSpec => AnomaliesAreSpaced
<1>1. QuietInv /\ [MainNext]_mainVars => QuietInv' /\ [Spaced]_quiet
  BY QuietStep
<1> QED
  BY <1>1, QuietInit, PTL DEF MainSpec, AnomaliesAreSpaced, Spaced
-----------------------------------------------------------------------------
\* Whom the cache does not name has not stayed longer than the cache is old, and
\* whom the running poll has already looked at, or passed over, is in the table
\* with an age that prune does not drop.
StayInv ==
  /\ cache \in [conns : SUBSET Remote, age : Nat]
  /\ seen \in [Remote -> 0 .. NotSeen] /\ staying \in [Remote -> Nat]
  /\ ~polling => todo = {}
  /\ cache.age <= CacheTTL => \A r \in Remote \ cache.conns : staying[r] <= cache.age
  /\ \A r \in Remote : staying[r] > CacheTTL =>
       IF polling THEN r \in todo \/ seen[r] \notin {NotSeen, Expired} ELSE seen[r] # NotSeen

LEMMA StayFresh == Fresh => StayInv
  BY SentAssumption DEF Fresh, Stale, StayInv, NotSeen

LEMMA StayInit == MainInit => StayInv
  BY StayFresh DEF MainInit, SentInit

\* A poll adds to the stay of what is established, and its list has whoever the
\* cache may have missed (ConnCache.Get).
LEMMA StayPoll ==
  ASSUME StayInv, PollBegins
  PROVE  StayInv'
<1>1. PICK now \in SUBSET Remote, fails \in BOOLEAN :
        /\ fails => ~CacheCounts
        /\ cache' = IF ~CacheCounts /\ ~fails THEN [conns |-> now, age |-> 0] ELSE CacheOlder(cache)
        /\ todo' = IF fails THEN {} ELSE IF CacheCounts THEN cache.conns ELSE now
        /\ polling' = ~fails
        /\ staying' = [r \in Remote |-> IF r \notin now THEN 0
             ELSE IF fails \/ staying[r] > CacheTTL THEN staying[r] ELSE staying[r] + 1]
  BY DEF PollBegins
<1>2. /\ seen' = [r \in Remote |-> IF seen[r] < Expired THEN seen[r] + 1 ELSE seen[r]]
      /\ ~polling
  BY DEF PollBegins
<1>3. /\ CacheTTL \in Nat /\ DedupTTL \in Nat /\ cache.age \in Nat
      /\ Expired = DedupTTL + 1 /\ NotSeen = DedupTTL + 2
  BY SentAssumption DEF StayInv, Expired, NotSeen
<1>4. staying' \in [Remote -> Nat] /\ seen' \in [Remote -> 0 .. NotSeen]
  BY <1>1, <1>2, <1>3 DEF StayInv
<1>5. /\ cache' \in [conns : SUBSET Remote, age : Nat]
      /\ \/ cache'.age = 0 /\ cache'.conns = now
         \/ cache'.age = CacheTTL + 1
         \/ cache'.age = cache.age + 1 /\ cache'.conns = cache.conns
  <2>1. cache \in [conns : SUBSET Remote, age : Nat]
    BY DEF StayInv
  <2>2. cache' \in {[conns |-> now, age |-> 0], [conns |-> {}, age |-> CacheTTL + 1],
                    [cache EXCEPT !.age = @ + 1]}
    BY <1>1 DEF CacheOlder, Stale
  <2>3. CASE cache' = [cache EXCEPT !.age = @ + 1]
    BY <1>3, <2>1, <2>3
  <2>4. CASE cache' # [cache EXCEPT !.age = @ + 1]
    BY <1>3, <2>2, <2>4
  <2> QED
    BY <2>3, <2>4
<1>6. ASSUME cache'.age <= CacheTTL, NEW r \in Remote, r \notin cache'.conns
      PROVE  staying'[r] <= cache'.age
  <2>1. staying'[r] \in {0, staying[r], staying[r] + 1} /\ (r \notin now => staying'[r] = 0)
        /\ staying[r] \in Nat
    BY <1>1 DEF StayInv
  <2> QED
    BY <1>3, <1>5, <1>6, <2>1 DEF StayInv
<1>7. ASSUME NEW r \in Remote, staying'[r] > CacheTTL
      PROVE  IF polling' THEN r \in todo' ELSE seen'[r] # NotSeen
  <2>1. r \in now /\ staying[r] \in Nat /\ seen[r] \in 0 .. NotSeen
    BY <1>1, <1>3, <1>7 DEF StayInv
  <2>2. CASE fails
    <3>1. staying[r] > CacheTTL /\ ~polling'
      BY <1>1, <1>7, <2>1, <2>2
    <3>2. seen[r] # NotSeen
      BY <1>2, <3>1 DEF StayInv
    <3> QED
      BY <1>2, <1>3, <2>1, <3>1, <3>2
  <2>3. CASE ~fails /\ CacheCounts
    <3>1. staying[r] + 1 > CacheTTL \/ staying[r] > CacheTTL
      BY <1>1, <1>3, <1>7, <2>1, <2>3
    <3>2. r \in cache.conns
      BY <1>3, <2>1, <2>3, <3>1 DEF CacheCounts, StayInv
    <3> QED
      BY <1>1, <2>3, <3>2
  <2>4. CASE ~fails /\ ~CacheCounts
    BY <1>1, <2>1, <2>4
  <2> QED
    BY <2>2, <2>3, <2>4
<1> QED
  BY <1>1, <1>4, <1>5, <1>6, <1>7 DEF StayInv

\* What is recorded is young; what the table loses counts as new again.
LEMMA StayConsider ==
  ASSUME StayInv, NEW r \in Remote, Consider(r)
  PROVE  StayInv'
<1>1. PICK s \in Recorded(seen, r) :
        /\ seen' = s
        /\ staying' = [x \in Remote |-> IF x \in Dropped(s) \/ (x = r /\ s[r] = NotSeen)
                                        THEN 0 ELSE staying[x]]
  BY Zenon DEF Consider
<1>2. r \in todo /\ todo' = todo \ {r} /\ polling /\ UNCHANGED <<cache, polling>>
  BY DEF Consider, StayInv
<1>3. /\ s \in [Remote -> 0 .. NotSeen] /\ s[r] \in {0, NotSeen}
      /\ \A x \in Remote \ {r} : s[x] \in {seen[x], NotSeen}
  BY RecordedAges DEF StayInv
<1>4. staying' \in [Remote -> Nat] /\ \A x \in Remote : staying'[x] <= staying[x]
  BY <1>1 DEF StayInv
<1>5. CacheTTL \in Nat /\ DedupTTL \in Nat /\ Expired = DedupTTL + 1 /\ NotSeen = DedupTTL + 2
  BY SentAssumption DEF Expired, NotSeen
<1>6. ASSUME NEW x \in Remote, staying'[x] > CacheTTL
      PROVE  x \in todo' \/ s[x] \notin {NotSeen, Expired}
  <2>1. staying[x] > CacheTTL /\ x \notin Dropped(s) /\ ~(x = r /\ s[r] = NotSeen)
    BY <1>1, <1>5, <1>6 DEF StayInv
  <2>2. CASE x = r
    BY <1>3, <1>5, <2>1, <2>2
  <2>3. CASE x # r /\ x \notin todo
    <3>1. seen[x] \notin {NotSeen, Expired}
      BY <1>2, <2>1, <2>3 DEF StayInv
    <3>2. s[x] # NotSeen
      BY <2>1, <3>1 DEF Dropped
    <3> QED
      BY <1>3, <2>3, <3>1, <3>2
  <2> QED
    BY <1>2, <2>2, <2>3
<1>7. \A x \in Remote \ cache.conns : cache.age <= CacheTTL => staying'[x] <= cache.age
  BY <1>4 DEF StayInv
<1> QED
  BY <1>1, <1>2, <1>3, <1>4, <1>6, <1>7 DEF StayInv

LEMMA StayStep == StayInv /\ [MainNext]_mainVars => StayInv'
<1> SUFFICES ASSUME StayInv, [MainNext]_mainVars PROVE StayInv'
  OBVIOUS
<1>1. CASE UNCHANGED <<cache, seen, todo, polling, staying>>
  BY <1>1 DEF StayInv
<1>2. CASE SentRestarts
  BY <1>2, SentAssumption DEF SentRestarts, Stale, StayInv, NotSeen
<1>3. ASSUME NEW r \in Remote, PassOver(r)
      PROVE  StayInv'
  <2>1. /\ r \in todo /\ seen[r] < Expired /\ seen[r] \in 0 .. NotSeen /\ todo' = todo \ {r}
        /\ UNCHANGED <<cache, seen, polling, staying>>
    BY <1>3, SentAssumption DEF PassOver, IsNew, StayInv, Expired, NotSeen, histVars
  <2>2. seen[r] \notin {NotSeen, Expired}
    BY <2>1, SentAssumption DEF Expired, NotSeen
  <2> QED
    BY <2>1, <2>2 DEF StayInv
<1>4. CASE PollEnds
  <2>1. polling /\ todo = {} /\ ~polling' /\ UNCHANGED <<cache, seen, todo, staying>>
    BY <1>4 DEF PollEnds, histVars
  <2> QED
    BY <2>1 DEF StayInv
<1>5. CASE SentNext
  BY <1>1, <1>2, <1>3, <1>4, <1>5, StayPoll, StayConsider
     DEF SentNext, SentStarts, SentStartupFails, SentKilled, SentHeartbeat, SentTimerFires,
         SaveBaseline, pollVars, histVars, sentVars
<1> QED
  BY <1>1, <1>5 DEF MainNext, RunMemory, RunProcess, RunSentinel, LabEnd, sentVars, pollVars, histVars,
                    kindVars, mainVars

\* A connection that outlives the cache does not escape the sentinel, whatever
\* reads fail, whatever the table drops and whenever it ends and comes back
\* (ConnCache.Get, IsNew, prune, pruneHalf).
THEOREM StayingSeen == MainSpec => []StayingIsSeen
<1>1. StayInv => StayingIsSeen
  BY DEF StayInv, StayingIsSeen
<1> QED
  BY <1>1, StayInit, StayStep, PTL DEF MainSpec
-----------------------------------------------------------------------------
(* What the variables range over.                                            *)

LEMMA ShellInitType == MainInit => ShellTypeOK
  BY ShellAssumption DEF MainInit, ShellInit, ShellTypeOK

LEMMA ShellStep == ShellTypeOK /\ [MainNext]_mainVars => ShellTypeOK'
<1> SUFFICES ASSUME ShellTypeOK, [MainNext]_mainVars PROVE ShellTypeOK'
  OBVIOUS
<1>1. ASSUME life' \in {life, "starting", "running", "exited", "panicked"}, link' \in {link, "up"},
             UNCHANGED hiccups
      PROVE  ShellTypeOK'
  BY <1>1 DEF ShellTypeOK
<1>2. CASE LabEnd
  BY <1>2, ShellAssumption DEF LabEnd, SendWillFail, LabGoes, ShellTypeOK
<1>3. CASE RunMemory
  <2>1. CASE Poll
    <3>1. PICK pids, rss, cgroup, early : PollWith(pids, rss, cgroup, early)
      BY <2>1 DEF Poll
    <3>2. \E events : Emit(events)
      BY <3>1 DEF PollWith
    <3> QED
      BY <1>1, <2>1, <3>2 DEF Emit, Poll
  <2>2. CASE MemStarts \/ MemStartupFails \/ MemHeartbeat \/ OomKill
    BY <1>1, <2>2, SMTT(40) DEF MemStarts, Started, MemStartupFails, StartupFails, MemHeartbeat, Heartbeat,
                      OomKill, shellVars
  <2> QED
    BY <1>3, <2>1, <2>2 DEF RunMemory, MemNext
<1>4. CASE RunProcess
  BY <1>1, <1>4 DEF RunProcess, ProcNext, ProcStarts, Started, ProcStartupFails, StartupFails,
                    Scan, ScanWith, Emit, BaselineTimerFires, ProcHeartbeat, Heartbeat, HostStep,
                    Fork, Exec, Exit, shellVars
<1>5. CASE RunSentinel
  BY <1>1, <1>5 DEF RunSentinel, SentNext, SentStarts, Started, SentStartupFails, StartupFails,
                    SentRestarts, SentKilled, SentHeartbeat, Heartbeat, SentTimerFires,
                    SaveBaseline, PollBegins, PollEnds, PassOver, Consider, Emit, shellVars
<1>6. CASE UNCHANGED mainVars
  BY <1>1, <1>6 DEF mainVars, shellVars
<1> QED
  BY <1>2, <1>3, <1>4, <1>5, <1>6 DEF MainNext
-----------------------------------------------------------------------------
(* The memory angel's windows and clocks.                                    *)

MemInv ==
  /\ kills <= MaxKills
  /\ window \in [Pid -> Seq(Rss)]
  /\ \A p \in Pid : Len(window[p]) <= WindowSize
  /\ silent \in [Pid -> 0 .. SilentMax + 1]
  /\ gap \in [Pid -> 1 .. AlertCooldown]

LEMMA SilentMaxNat == SilentMax \in Nat
<1>1. MaxHiccups \in Nat /\ AlertCooldown + 1 \in Nat /\ AlertCooldown \in Nat
  BY MemAssumption, ShellAssumption
<1>2. MaxHiccups * (AlertCooldown + 1) \in Nat
  BY <1>1
<1> QED
  BY <1>1, <1>2 DEF SilentMax

LEMMA MemInvInit == MainInit => MemInv
<1> SUFFICES ASSUME MainInit PROVE MemInv
  OBVIOUS
<1>1. /\ window = [p \in Pid |-> <<>>] /\ kills \in 0 .. MaxKills /\ silent = [p \in Pid |-> 0]
      /\ gap = [p \in Pid |-> AlertCooldown]
  BY DEF MainInit, MemInit
<1>2. <<>> \in Seq(Rss) /\ Len(<<>>) = 0
  OBVIOUS
<1> QED
  BY <1>1, <1>2, MemAssumption, SilentMaxNat DEF MemInv

LEMMA AddSampleType ==
  ASSUME NEW w \in Seq(Rss), Len(w) <= WindowSize, NEW x \in Rss
  PROVE  AddSample(w, x) \in Seq(Rss) /\ Len(AddSample(w, x)) <= WindowSize
<1>1. WindowSize \in Nat /\ WindowSize >= 2 /\ Len(w) \in Nat
  BY MemAssumption
<1>2. CASE Len(w) < WindowSize
  BY <1>1, <1>2 DEF AddSample
<1>3. CASE Len(w) = WindowSize
  <2>1. w # <<>>
    BY <1>1, <1>3
  <2>2. Tail(w) \in Seq(Rss) /\ Len(Tail(w)) = Len(w) - 1
    BY <2>1
  <2>3. Append(Tail(w), x) \in Seq(Rss) /\ Len(Append(Tail(w), x)) = Len(Tail(w)) + 1
    BY <2>2
  <2> QED
    BY <1>1, <1>3, <2>2, <2>3 DEF AddSample
<1> QED
  BY <1>1, <1>2, <1>3

LEMMA MemInvPoll ==
  ASSUME MemInv, SpacedInv, Poll
  PROVE  MemInv'
<1>0. PICK named, cgroup, early :
         \E rss \in [ResolvePIDs(named) -> Rss \cup {NotRead}] :
            PollWith(ResolvePIDs(named), rss, cgroup, early)
  BY DEF Poll
<1>1. PICK rss \in [ResolvePIDs(named) -> Rss \cup {NotRead}] :
         PollWith(ResolvePIDs(named), rss, cgroup, early)
  BY <1>0
<1> DEFINE pids == ResolvePIDs(named)
           W == WindowsAfter(pids, rss)
           fired == Fired(W, early)
           alerting == {p \in Pid : fired[p] # {}}
<1>2. ASSUME NEW p \in Pid
      PROVE  W[p] \in Seq(Rss) /\ Len(W[p]) <= WindowSize
  <2>1. window[p] \in Seq(Rss) /\ Len(window[p]) <= WindowSize
    BY DEF MemInv
  <2>2. <<>> \in Seq(Rss) /\ Len(<<>>) = 0 /\ WindowSize \in Nat
    BY MemAssumption
  <2>3. W[p] = IF p \in pids /\ rss[p] # NotRead THEN AddSample(window[p], rss[p]) ELSE <<>>
    BY DEF WindowsAfter
  <2>4. p \in pids /\ rss[p] # NotRead => rss[p] \in Rss
    OBVIOUS
  <2> HIDE DEF W, pids
  <2> QED
    BY <2>1, <2>2, <2>3, <2>4, AddSampleType
<1>3. window' = W /\ DOMAIN W = Pid /\ W = [p \in Pid |-> W[p]]
  BY <1>1 DEF PollWith, WindowsAfter
<1>4. window' \in [Pid -> Seq(Rss)] /\ \A p \in Pid : Len(window'[p]) <= WindowSize
  <2> HIDE DEF W
  <2> QED
    BY <1>2, <1>3
<1>5. PICK unheard :
        silent' = [p \in Pid |-> IF p \in unheard
                     THEN IF silent[p] > SilentMax THEN silent[p] ELSE silent[p] + 1 ELSE 0]
  <2>1. PICK lost \in Lost(UNION {{<<p, r>> : r \in fired[p]} : p \in Pid} \cup OomEvents(cgroup)) :
          silent' = [p \in Pid |->
               IF /\ W[p] # <<>> /\ Last(W[p]) >= AbsCrit /\ link # "down"
                  /\ \A r \in fired[p] : <<p, r>> \in lost
               THEN IF silent[p] > SilentMax THEN silent[p] ELSE silent[p] + 1
               ELSE 0]
    BY <1>1 DEF PollWith
  <2> DEFINE U == {p \in Pid : /\ W[p] # <<>> /\ Last(W[p]) >= AbsCrit /\ link # "down"
                               /\ \A r \in fired[p] : <<p, r>> \in lost}
  <2>2. silent' = [p \in Pid |-> IF p \in U
                     THEN IF silent[p] > SilentMax THEN silent[p] ELSE silent[p] + 1 ELSE 0]
    BY <2>1, Zenon
  <2> QED
    BY <2>2
<1>6. silent' \in [Pid -> 0 .. SilentMax + 1]
  BY <1>5, SilentMaxNat DEF MemInv
<1>7. gap' = [p \in Pid |-> IF p \in alerting THEN Older(since[p]) ELSE gap[p]]
  BY <1>1 DEF PollWith
<1>8. gap' \in [Pid -> 1 .. AlertCooldown]
  <2> HIDE DEF alerting
  <2> QED
    BY <1>7, MemAssumption, SMTT(40) DEF MemInv, SpacedInv, Older
<1> QED
  BY <1>4, <1>6, <1>8 DEF MemInv, Poll

LEMMA MemInvStep == MemInv /\ KillsInv /\ SpacedInv /\ [MainNext]_mainVars => MemInv'
<1> SUFFICES ASSUME MemInv, KillsInv, SpacedInv, [MainNext]_mainVars PROVE MemInv'
  OBVIOUS
<1>1. CASE UNCHANGED <<window, silent, gap>> /\ (UNCHANGED kills \/ OomKill)
  BY <1>1, MemAssumption DEF MemInv, OomKill, KillsInv
<1>2. CASE RunMemory
  BY <1>1, <1>2, MemInvPoll DEF RunMemory, MemNext, MemStarts, MemStartupFails, MemHeartbeat,
                                OomKill, memVars
<1> QED
  BY <1>1, <1>2 DEF MainNext, RunProcess, RunSentinel, LabEnd, kindVars, mainVars, memVars

LEMMA MemTypes == MainSpec => []MemTypeOK
<1>1. ShellTypeOK /\ MemInv /\ KillsInv /\ SpacedInv => MemTypeOK
  <2> SUFFICES ASSUME ShellTypeOK, MemInv, KillsInv, SpacedInv PROVE MemTypeOK
    OBVIOUS
  <2>1. ASSUME NEW p \in Pid
        PROVE  Len(window[p]) <= WindowSize /\ \A i \in DOMAIN window[p] : window[p][i] \in Rss
    BY DEF MemInv
  <2>2. kills \in 0 .. MaxKills /\ lastOOMKills \in 0 .. kills /\ oomTold \in 0 .. kills
    BY MemAssumption DEF KillsInv, MemInv
  <2> QED
    BY <2>1, <2>2 DEF MemTypeOK, MemInv, SpacedInv
<1> QED
  BY <1>1, ShellInitType, ShellStep, MemInvInit, MemInvStep, KillsInit, KillsStep, SpacedInit,
     SpacedStep, PTL DEF MainSpec
-----------------------------------------------------------------------------
(* The sentinel's tables.                                                    *)

\* A poll takes each connection once, from its list to its batch, and rates no
\* more of them than the batch holds; the deduplicator stays below its limit.
SentInv ==
  /\ phase \in {"TRAINING", "ACTIVE"} /\ baseline \in Baselines
  /\ file \in Baselines \cup Unloadable /\ tmr \in BOOLEAN /\ lives \in 1 .. MaxLives
  /\ cache \in [conns : SUBSET Remote, age : 0 .. CacheTTL + 1]
  /\ seen \in [Remote -> 0 .. NotSeen] /\ Cardinality(Entries(seen)) < MaxDedup
  /\ rate \in [1 .. RateWindow -> 0 .. Cardinality(Remote)]
  /\ todo \subseteq Remote /\ batch \subseteq Remote /\ todo \cap batch = {}
  /\ IF polling THEN rate[1] <= Cardinality(batch) ELSE todo = {} /\ batch = {}
  /\ staying \in [Remote -> 0 .. CacheTTL + 2]

NeverSeen == [r \in Remote |-> NotSeen]

LEMMA RemoteSubsets ==
  /\ Cardinality(Remote) \in Nat
  /\ \A S \in SUBSET Remote :
       IsFiniteSet(S) /\ Cardinality(S) \in Nat /\ Cardinality(S) <= Cardinality(Remote)
<1>1. IsFiniteSet(Remote)
  BY SentAssumption
<1> QED
  BY <1>1, FS_CardinalityType, FS_Subset

LEMMA EmptyBaseline == Empty \in Baselines
<1>1. 0 \in 0 .. Cardinality(Remote)
  BY RemoteSubsets
<1> QED
  BY <1>1 DEF Empty, Baselines

\* The memory of a new process.
LEMMA FreshTypes ==
  /\ NeverSeen \in [Remote -> 0 .. NotSeen] /\ Cardinality(Entries(NeverSeen)) < MaxDedup
  /\ NoRate \in [1 .. RateWindow -> 0 .. Cardinality(Remote)]
  /\ Stale \in [conns : SUBSET Remote, age : 0 .. CacheTTL + 1]
  /\ [r \in Remote |-> 0] \in [Remote -> 0 .. CacheTTL + 2]
  /\ Empty \in Baselines
<1>1. Entries(NeverSeen) = {} /\ NeverSeen \in [Remote -> 0 .. NotSeen]
  BY SentAssumption DEF Entries, NotSeen, NeverSeen
<1>2. Cardinality(Entries(NeverSeen)) < MaxDedup
  BY <1>1, FS_EmptySet, SentAssumption
<1>3. NoRate \in [1 .. RateWindow -> 0 .. Cardinality(Remote)]
  BY RemoteSubsets DEF NoRate
<1>4. Stale \in [conns : SUBSET Remote, age : 0 .. CacheTTL + 1]
  BY SentAssumption DEF Stale
<1>5. [r \in Remote |-> 0] \in [Remote -> 0 .. CacheTTL + 2]
  BY SentAssumption
<1> QED
  BY <1>1, <1>2, <1>3, <1>4, <1>5, EmptyBaseline

LEMMA SentInvInit == MainInit => SentInv
<1> SUFFICES ASSUME MainInit PROVE SentInv
  OBVIOUS
<1>1. Fresh /\ lives = 1 /\ file \in SavedBaselines \cup {Absent}
  BY DEF MainInit, SentInit
<1>2. file \in Baselines \cup Unloadable /\ lives \in 1 .. MaxLives
  BY <1>1, MainAssumption, SentAssumption DEF Unloadable
<1>3. seen = NeverSeen
  BY <1>1 DEF Fresh, NeverSeen
<1> QED
  BY <1>1, <1>2, <1>3, FreshTypes DEF Fresh, SentInv

\* pruneHalf leaves the table below its limit.
LEMMA HalvedSmall ==
  ASSUME NEW u \in [Remote -> 0 .. NotSeen], Cardinality(Entries(u)) <= MaxDedup, NEW v \in Halved(u)
  PROVE  Cardinality(Entries(v)) < MaxDedup
<1>1. MaxDedup \in Nat /\ MaxDedup >= 2
  BY SentAssumption
<1>2. Cardinality(Entries(u)) \in Nat
  BY RemoteSubsets DEF Entries
<1>3. CASE Cardinality(Entries(u)) < MaxDedup
  BY <1>3 DEF Halved
<1>4. CASE ~(Cardinality(Entries(u)) < MaxDedup)
  <2>1. PICK keep \in SUBSET Entries(u) :
          /\ Cardinality(keep) = Cardinality(Entries(u)) - Cardinality(Entries(u)) \div 2
          /\ v = [r \in Remote |-> IF r \in keep THEN u[r] ELSE NotSeen]
    BY <1>4 DEF Halved
  <2>2. Entries(v) = keep
    BY <2>1 DEF Entries
  <2>3. Cardinality(Entries(u)) = MaxDedup
    BY <1>1, <1>2, <1>4
  <2>4. MaxDedup - MaxDedup \div 2 < MaxDedup
    BY <1>1
  <2> QED
    BY <2>1, <2>2, <2>3, <2>4
<1> QED
  BY <1>3, <1>4

LEMMA RecordedSmall ==
  ASSUME NEW t \in [Remote -> 0 .. NotSeen], Cardinality(Entries(t)) < MaxDedup, NEW r \in Remote,
         NEW s \in Recorded(t, r)
  PROVE  Cardinality(Entries(s)) < MaxDedup
<1> DEFINE m == MarkSeen(t, r)
<1>0. NotSeen \in Nat /\ NotSeen # 0 /\ MaxDedup \in Nat
  BY SentAssumption DEF NotSeen
<1>1. m \in [Remote -> 0 .. NotSeen] /\ Entries(m) = Entries(t) \cup {r}
  BY <1>0 DEF MarkSeen, Entries
<1>2. CASE t[r] # NotSeen
  <2>1. s = m /\ Entries(m) = Entries(t)
    BY <1>1, <1>2 DEF Recorded, Entries
  <2> QED
    BY <2>1
<1>3. CASE t[r] = NotSeen
  <2>1. s \in Halved(m) \/ s \in Halved(Pruned(m))
    BY <1>3 DEF Recorded
  <2>2. Pruned(m) \in [Remote -> 0 .. NotSeen] /\ Entries(Pruned(m)) \subseteq Entries(m)
    BY <1>0, <1>1 DEF Pruned, Entries
  <2>3. IsFiniteSet(Entries(t)) /\ Cardinality(Entries(t)) \in Nat
    BY RemoteSubsets DEF Entries
  <2>4. IsFiniteSet(Entries(m)) /\ Cardinality(Entries(m)) \in Nat
    BY RemoteSubsets DEF Entries
  <2>5. Cardinality(Entries(m)) <= MaxDedup
    <3>1. Cardinality(Entries(t) \cup {r}) \in {Cardinality(Entries(t)), Cardinality(Entries(t)) + 1}
      BY <2>3, FS_AddElement
    <3> HIDE DEF m
    <3> QED
      BY <1>0, <1>1, <2>3, <3>1
  <2>6. Cardinality(Entries(Pruned(m))) \in Nat
    BY RemoteSubsets DEF Entries
  <2>7. Cardinality(Entries(Pruned(m))) <= Cardinality(Entries(m))
    BY <2>2, <2>4, FS_Subset
  <2>8. Cardinality(Entries(Pruned(m))) <= MaxDedup
    BY <1>0, <2>4, <2>5, <2>6, <2>7
  <2> HIDE DEF m
  <2> QED
    BY <1>1, <2>1, <2>2, <2>5, <2>8, HalvedSmall
<1> QED
  BY <1>2, <1>3

LEMMA ConsiderSentInv ==
  ASSUME SentInv, NEW r \in Remote, Consider(r)
  PROVE  SentInv'
<1>1. PICK s \in Recorded(seen, r) :
        /\ seen' = s
        /\ staying' = [x \in Remote |-> IF x \in Dropped(s) \/ (x = r /\ s[r] = NotSeen)
                                        THEN 0 ELSE staying[x]]
        /\ rate' \in {rate, AddToRate(rate)}
  BY DEF Consider
<1>2. /\ r \in todo /\ todo' = todo \ {r} /\ batch' = batch \cup {r}
      /\ UNCHANGED <<phase, baseline, file, tmr, cache, polling, lives>>
  BY DEF Consider, modelVars
<1>3. seen' \in [Remote -> 0 .. NotSeen] /\ Cardinality(Entries(seen')) < MaxDedup
  BY <1>1, RecordedAges, RecordedSmall DEF SentInv
<1>4. staying' \in [Remote -> 0 .. CacheTTL + 2]
  BY <1>1, SentAssumption DEF SentInv
<1>5. /\ polling /\ rate[1] <= Cardinality(batch) /\ r \notin batch
      /\ batch' \in SUBSET Remote /\ batch \in SUBSET Remote
      /\ rate \in [1 .. RateWindow -> 0 .. Cardinality(Remote)]
      /\ todo' \subseteq Remote /\ todo' \cap batch' = {}
  BY <1>2 DEF SentInv
<1>6. /\ Cardinality(batch') = Cardinality(batch) + 1 /\ Cardinality(batch) \in Nat
      /\ Cardinality(batch') <= Cardinality(Remote) /\ Cardinality(Remote) \in Nat
  <2>1. IsFiniteSet(batch) /\ Cardinality(batch) \in Nat
    BY <1>5, RemoteSubsets
  <2>2. Cardinality(batch') = Cardinality(batch) + 1
    BY <1>2, <1>5, <2>1, FS_AddElement
  <2> QED
    BY <1>5, <2>1, <2>2, RemoteSubsets
<1>7. rate' \in [1 .. RateWindow -> 0 .. Cardinality(Remote)] /\ rate'[1] <= Cardinality(batch')
  <2>1. 1 \in 1 .. RateWindow
    BY SentAssumption
  <2>2. rate[1] + 1 \in 0 .. Cardinality(Remote)
    BY <1>5, <1>6, <2>1
  <2>3. CASE rate' = rate
    BY <1>5, <1>6, <2>1, <2>3
  <2>4. CASE rate' = AddToRate(rate)
    BY <1>5, <1>6, <2>1, <2>2, <2>4 DEF AddToRate
  <2> QED
    BY <1>1, <2>3, <2>4
<1> QED
  BY <1>2, <1>3, <1>4, <1>5, <1>7 DEF SentInv

\* The rate tracker drops its oldest poll and begins a new one.
LEMMA RateShifts ==
  ASSUME NEW q \in [1 .. RateWindow -> 0 .. Cardinality(Remote)]
  PROVE  LET s == <<0>> \o Front(q)
         IN  s \in [1 .. RateWindow -> 0 .. Cardinality(Remote)] /\ s[1] = 0
<1> DEFINE C == 0 .. Cardinality(Remote)
           s == <<0>> \o Front(q)
<1>1. RateWindow \in Nat /\ RateWindow >= 1 /\ 0 \in C
  BY SentAssumption, RemoteSubsets
<1>0. q \in [1 .. RateWindow -> C]
  OBVIOUS
<1> HIDE DEF C
<1>2. q \in Seq(C) /\ Len(q) = RateWindow
  BY <1>0, <1>1
<1>3. Front(q) \in Seq(C) /\ Len(Front(q)) = RateWindow - 1
  BY <1>1, <1>2 DEF Front
<1>4. <<0>> \in Seq(C) /\ Len(<<0>>) = 1 /\ <<0>>[1] = 0
  BY <1>1
<1>5. s \in Seq(C) /\ Len(s) = RateWindow /\ s[1] = 0
  <2> DEFINE f == Front(q)
  <2>1. f \in Seq(C) /\ Len(f) = RateWindow - 1
    BY <1>3
  <2> HIDE DEF f
  <2>2. <<0>> \o f \in Seq(C) /\ Len(<<0>> \o f) = 1 + Len(f) /\ (<<0>> \o f)[1] = 0
    BY <1>4, <2>1
  <2> QED
    BY <1>1, <2>1, <2>2 DEF f
<1> HIDE DEF s
<1>6. s \in [1 .. RateWindow -> C]
  BY <1>5
<1> QED
  BY <1>5, <1>6 DEF C, s

LEMMA PollSentInv ==
  ASSUME SentInv, PollBegins
  PROVE  SentInv'
<1>1. PICK now \in SUBSET Remote, fails \in BOOLEAN :
        /\ cache' = IF ~CacheCounts /\ ~fails THEN [conns |-> now, age |-> 0] ELSE CacheOlder(cache)
        /\ todo' = IF fails THEN {} ELSE IF CacheCounts THEN cache.conns ELSE now
        /\ polling' = ~fails
        /\ staying' = [r \in Remote |-> IF r \notin now THEN 0
             ELSE IF fails \/ staying[r] > CacheTTL THEN staying[r] ELSE staying[r] + 1]
  BY DEF PollBegins
<1>2. /\ seen' = [r \in Remote |-> IF seen[r] < Expired THEN seen[r] + 1 ELSE seen[r]]
      /\ rate' = <<0>> \o Front(rate)
      /\ ~polling /\ UNCHANGED <<phase, baseline, file, tmr, batch, lives>>
  BY DEF PollBegins, modelVars
<1>3. batch = {} /\ batch' = {} /\ cache \in [conns : SUBSET Remote, age : 0 .. CacheTTL + 1]
  BY <1>2 DEF SentInv
<1>4. todo' \subseteq Remote /\ (~polling' => todo' = {})
  BY <1>1, <1>3
<1>5. cache' \in [conns : SUBSET Remote, age : 0 .. CacheTTL + 1]
  <2>1. CacheTTL \in Nat /\ cache.age \in 0 .. CacheTTL + 1
    BY <1>3, SentAssumption
  <2>2. cache' \in {[conns |-> now, age |-> 0], Stale} \/
          (cache' = [cache EXCEPT !.age = @ + 1] /\ cache.age + 1 < CacheTTL)
    BY <1>1, <2>1 DEF CacheOlder
  <2>3. CASE cache' \in {[conns |-> now, age |-> 0], Stale}
    BY <2>1, <2>3 DEF Stale
  <2>4. CASE cache' = [cache EXCEPT !.age = @ + 1] /\ cache.age + 1 < CacheTTL
    BY <1>3, <2>1, <2>4
  <2> QED
    BY <2>2, <2>3, <2>4
<1>6. seen' \in [Remote -> 0 .. NotSeen] /\ Entries(seen') = Entries(seen)
  BY <1>2, SentAssumption, SMTT(40) DEF SentInv, Entries, NotSeen, Expired
<1>7. staying' \in [Remote -> 0 .. CacheTTL + 2]
  BY <1>1, SentAssumption DEF SentInv
<1>8. rate' \in [1 .. RateWindow -> 0 .. Cardinality(Remote)] /\ rate'[1] = 0
  BY <1>2, RateShifts DEF SentInv
<1>9. rate'[1] <= Cardinality(batch')
  BY <1>3, <1>8, FS_EmptySet
<1> QED
  BY <1>2, <1>3, <1>4, <1>5, <1>6, <1>7, <1>8, <1>9 DEF SentInv

LEMMA PollEndsSentInv ==
  ASSUME SentInv, PollEnds
  PROVE  SentInv'
<1>1. baseline' \in Baselines
  <2>1. CASE phase # "TRAINING"
    BY <2>1 DEF PollEnds, SentInv
  <2>2. CASE phase = "TRAINING"
    <3> DEFINE ips == baseline.ips \cup {r.ip : r \in batch}
               ports == baseline.ports \cup {r.port : r \in batch}
               most == IF Cardinality(batch) > baseline.maxConcurrent
                       THEN Cardinality(batch) ELSE baseline.maxConcurrent
    <3>1. baseline' = [ips |-> ips, ports |-> ports, maxConcurrent |-> most]
      BY <2>2 DEF PollEnds
    <3>2. /\ baseline \in Baselines /\ batch \in SUBSET Remote
          /\ baseline.ips \subseteq {r.ip : r \in Remote}
          /\ baseline.ports \subseteq {r.port : r \in Remote}
          /\ baseline.maxConcurrent \in 0 .. Cardinality(Remote)
      BY DEF SentInv, Baselines
    <3>3. ips \subseteq {r.ip : r \in Remote} /\ ports \subseteq {r.port : r \in Remote}
      BY <3>2
    <3>4. most \in 0 .. Cardinality(Remote)
      BY <3>2, RemoteSubsets
    <3> HIDE DEF ips, ports, most
    <3> QED
      BY <3>1, <3>3, <3>4 DEF Baselines
  <2> QED
    BY <2>1, <2>2
<1> QED
  BY <1>1 DEF SentInv, PollEnds, histVars

LEMMA SentInvStep == SentInv /\ [MainNext]_mainVars => SentInv'
<1> SUFFICES ASSUME SentInv, [MainNext]_mainVars PROVE SentInv'
  OBVIOUS
<1>1. CASE UNCHANGED sentVars
  BY <1>1 DEF sentVars, modelVars, pollVars, histVars, SentInv
<1>2. CASE SentStarts
  BY <1>2 DEF SentStarts, LoadBaseline, pollVars, SentInv
<1>3. CASE SentRestarts
  <2>1. /\ phase' = "TRAINING" /\ baseline' = Empty /\ tmr' = TRUE /\ file' = file
        /\ cache' = Stale /\ seen' = NeverSeen /\ rate' = NoRate
        /\ todo' = {} /\ polling' = FALSE /\ batch' = {}
        /\ staying' = [r \in Remote |-> 0] /\ lives' = lives + 1 /\ lives < MaxLives
    BY <1>3 DEF SentRestarts, NeverSeen
  <2>2. lives' \in 1 .. MaxLives
    BY <2>1, SentAssumption DEF SentInv
  <2> QED
    BY <2>1, <2>2, FreshTypes DEF SentInv
<1>4. CASE SentTimerFires \/ SaveBaseline
  <2>1. /\ phase' \in {phase, "ACTIVE"} /\ tmr' \in BOOLEAN /\ file' \in {file, baseline}
        /\ UNCHANGED <<baseline, cache, seen, rate, todo, polling, batch, lives, staying>>
    BY <1>4 DEF SentTimerFires, SaveBaseline, pollVars, histVars, SentInv
  <2> QED
    BY <2>1 DEF SentInv
<1>5. ASSUME NEW r \in Remote, PassOver(r)
      PROVE  SentInv'
  <2>1. r \in todo /\ todo' = todo \ {r}
        /\ UNCHANGED <<modelVars, cache, seen, rate, polling, batch, lives, staying>>
    BY <1>5 DEF PassOver, histVars
  <2> QED
    BY <2>1 DEF SentInv, modelVars
<1>6. CASE SentNext
  BY <1>1, <1>2, <1>3, <1>4, <1>5, <1>6, PollSentInv, PollEndsSentInv, ConsiderSentInv
     DEF SentNext, SentStartupFails, SentKilled, SentHeartbeat
<1> QED
  BY <1>1, <1>6 DEF MainNext, RunMemory, RunProcess, RunSentinel, LabEnd, kindVars, mainVars

LEMMA SentTypes == MainSpec => []SentTypeOK
<1>1. ShellTypeOK /\ SentInv /\ SavedInv /\ QuietInv => SentTypeOK
  BY DEF SentTypeOK, SentInv, SavedInv, QuietInv, Entries
<1>2. SavedInv /\ [MainNext]_mainVars => SavedInv'
  BY SavedStep
<1>3. QuietInv /\ [MainNext]_mainVars => QuietInv'
  BY QuietStep
<1> QED
  BY <1>1, <1>2, <1>3, ShellInitType, ShellStep, SentInvInit, SentInvStep, SavedInit, QuietInit,
     PTL DEF MainSpec
=============================================================================
