--------------------------- MODULE ProcessProofs ---------------------------
(***************************************************************************)
(* What the process angel reports, for every host and every whitelist: the *)
(* number of alerts and exit reports about a process is bounded by the     *)
(* scans that missed it, and a whitelisted exe is never alerted on.  With  *)
(* the types of the host, those of all three angels are complete.          *)
(***************************************************************************)
EXTENDS AngelProofs

Images == Image \cup {NoImage}
Entry == [image : Images, ppid : Nat, atStart : BOOLEAN, fresh : BOOLEAN,
          told : Nat, left : Nat, missed : Nat]

\* What the reports about one process can add up to, given whether the last
\* snapshot holds its pid. While the angel runs, a pid that the snapshot does
\* not hold may still cost an alert.
Account(h, inLast) ==
  /\ h.left <= h.missed
  /\ h.told <= h.missed + Points(~h.atStart, 1)
  /\ life = "starting" => h.told = 0
  /\ life = "running" => h.told + Points(~inLast, 1) <= h.missed + Points(~h.atStart, 1)
  /\ NoExe \notin WhitelistExes /\ h.image.exe \in WhitelistExes => h.told = 0

InLast(p) == prev[p] # NoImage

ProcInv ==
  /\ host \in [ProcPid -> Entry]
  /\ WhitelistExes \subseteq knownExes
  /\ kind # "process" => Running = {}
  /\ \A p \in Running : Account(host[p], InLast(p))

LEMMA PointsNat == \A holds, n \in Nat : Points(holds, n) \in {0, n}
  BY DEF Points
-----------------------------------------------------------------------------
(* How a record of the host changes, field by field.                         *)

LEMMA UnusedEntry == Unused \in Entry
  BY DEF Unused, Entry, Images

LEMMA BornEntry ==
  ASSUME NEW image \in Image, NEW ppid \in Nat, NEW pid
  PROVE  LET b == Born(image, ppid, pid)
         IN  /\ b \in Entry /\ b.image = image /\ b.ppid = ppid
             /\ b.told = 0 /\ b.left = 0 /\ b.missed = 0
             /\ b.atStart = (life = "starting")
<1>1. /\ (life = "starting") \in BOOLEAN
      /\ (prev[pid] = NoImage /\ timer = "fired") \in BOOLEAN
      /\ image \in Images
  BY DEF Images
<1> QED
  BY <1>1, UnusedEntry, Zenon DEF Born, Unused, Entry

\* What a scan adds up. (Type and fields apart: a lemma that yields new entries
\* and facts about them would feed on itself.)
Counted(h, t, l, m) == [h EXCEPT !.told = @ + t, !.left = @ + l, !.missed = @ + m]

LEMMA CountedEntry == \A h \in Entry, t, l, m \in Nat : Counted(h, t, l, m) \in Entry
<1> TAKE h \in Entry, t, l, m \in Nat
<1>1. h.told + t \in Nat /\ h.left + l \in Nat /\ h.missed + m \in Nat
  BY DEF Entry
<1> QED
  BY <1>1, Zenon DEF Entry, Counted

LEMMA CountedFields ==
  \A h \in Entry, t, l, m \in Nat :
    /\ Counted(h, t, l, m).image = h.image /\ Counted(h, t, l, m).ppid = h.ppid
    /\ Counted(h, t, l, m).atStart = h.atStart
    /\ Counted(h, t, l, m).told = h.told + t
    /\ Counted(h, t, l, m).left = h.left + l
    /\ Counted(h, t, l, m).missed = h.missed + m
<1> TAKE h \in Entry, t, l, m \in Nat
<1> QED
  BY Zenon DEF Entry, Counted

Skipped(h) == [h EXCEPT !.missed = @ + 1]

LEMMA SkippedEntry == \A h \in Entry : Skipped(h) \in Entry
<1> TAKE h \in Entry
<1>1. h.missed + 1 \in Nat
  BY DEF Entry
<1> QED
  BY <1>1, Zenon DEF Entry, Skipped

LEMMA SkippedFields ==
  \A h \in Entry :
    /\ Skipped(h).image = h.image /\ Skipped(h).ppid = h.ppid
    /\ Skipped(h).atStart = h.atStart
    /\ Skipped(h).told = h.told /\ Skipped(h).left = h.left
    /\ Skipped(h).missed = h.missed + 1
  BY Zenon DEF Entry, Skipped

Orphan(h) == [h EXCEPT !.ppid = 1]

LEMMA OrphanEntry == \A h \in Entry : Orphan(h) \in Entry
<1> TAKE h \in Entry
<1>1. 1 \in Nat
  OBVIOUS
<1> QED
  BY <1>1, Zenon DEF Entry, Orphan

LEMMA OrphanFields ==
  \A h \in Entry :
    /\ Orphan(h).image = h.image /\ Orphan(h).ppid = 1 /\ Orphan(h).atStart = h.atStart
    /\ Orphan(h).told = h.told /\ Orphan(h).left = h.left /\ Orphan(h).missed = h.missed
  BY Zenon DEF Entry, Orphan

Execed(h, p, i, f) == [h EXCEPT ![p].image = i, ![p].told = 0, ![p].fresh = f]

LEMMA ExecedEntry ==
  ASSUME NEW h \in [ProcPid -> Entry], NEW p \in ProcPid, NEW i \in Image, NEW f \in BOOLEAN
  PROVE  Execed(h, p, i, f) \in [ProcPid -> Entry]
<1>1. 0 \in Nat /\ i \in Images
  BY DEF Images
<1> QED
  BY <1>1, ZenonT(60) DEF Entry, Execed

LEMMA ExecedFields ==
  ASSUME NEW h \in [ProcPid -> Entry], NEW p \in ProcPid, NEW i \in Image, NEW f \in BOOLEAN
  PROVE  LET g == Execed(h, p, i, f)
         IN  /\ g[p].image = i /\ g[p].ppid = h[p].ppid /\ g[p].atStart = h[p].atStart
             /\ g[p].told = 0 /\ g[p].left = h[p].left /\ g[p].missed = h[p].missed
             /\ \A q \in ProcPid \ {p} : g[q] = h[q]
<1> DEFINE g == Execed(h, p, i, f)
<1>1. \A q \in ProcPid \ {p} : g[q] = h[q]
  BY Zenon DEF Entry, Execed
<1>2. /\ g[p].image = i /\ g[p].ppid = h[p].ppid /\ g[p].atStart = h[p].atStart
      /\ g[p].told = 0 /\ g[p].left = h[p].left /\ g[p].missed = h[p].missed
  BY Zenon DEF Entry, Execed
<1> QED
  BY <1>1, <1>2
-----------------------------------------------------------------------------
LEMMA ProcInvInit == MainInit => ProcInv
<1> SUFFICES ASSUME MainInit PROVE ProcInv
  OBVIOUS
<1>1. host = [p \in ProcPid |-> Unused] /\ knownExes = WhitelistExes
  BY DEF MainInit, ProcInit, Seeded
<1>2. Unused.image = NoImage
  BY DEF Unused
<1> QED
  BY <1>1, <1>2, UnusedEntry DEF ProcInv, Running

\* A whitelisted exe: even with every other rule against it the score is 1.
LEMMA WhitelistedScore ==
  ASSUME NoExe \notin WhitelistExes, WhitelistExes \subseteq knownExes,
         NEW image, image.exe \in WhitelistExes, NEW ppid
  PROVE  Level(ProcScore(image, ppid)) = "ok"
<1> DEFINE s == Points(image.exe \in SuspiciousExes, 5)
           c == Points(image.comm \notin knownComms, 2)
           q == Points(ppid > 1 /\ ppid \notin knownPpids, 2)
           u == Points(image.suid, 2)
<1>1. s \in {0, 5} /\ c \in {0, 2} /\ q \in {0, 2} /\ u \in {0, 2}
  BY DEF Points
<1>2. /\ Points(image.exe = NoExe, 3) = 0
      /\ Points(image.exe # NoExe /\ image.exe \notin knownExes, 3) = 0
      /\ Points(image.exe \in WhitelistExes \/ image.comm \in WhitelistComms \cup PrefixedComms, 10)
           = 10
  BY DEF Points
<1>3. ProcScore(image, ppid) = s + 0 + 0 + c + q + u - 10
  BY <1>2 DEF ProcScore
<1> HIDE DEF s, c, q, u
<1> QED
  BY <1>1, <1>3 DEF Level

\* A scan that misses a process pays for the alert that the next may repeat.
LEMMA ScanAccount ==
  ASSUME ProcInv, life = "running", UNCHANGED life,
         NEW read \in SUBSET Running, ScanWith(read)
  PROVE  /\ host' \in [ProcPid -> Entry]
         /\ \A p \in Running' : Account(host[p], InLast(p))'
<1> DEFINE curr == Snapshot(read)
           new == NewIn(curr)
           alerts == IF training THEN {}
                     ELSE {p \in new : Level(ProcScore(curr[p], host[p].ppid)) # "ok"}
           exits == IF training \/ ~AlertOnExit THEN {}
                    ELSE {p \in GoneFrom(curr) : Known(prev[p])}
           told(p) == Points(p \in alerts, 1)
           left(p) == Points(p \in exits /\ host[p].image = prev[p], 1)
           missed(p) == Points(p \notin read, 1)
           counted(p) == Counted(host[p], told(p), left(p), missed(p))
<1>1. /\ prev' = curr
      /\ host' = [p \in ProcPid |-> IF p \notin Running THEN Unused ELSE counted(p)]
  BY DEF ScanWith, PrevAfter, Counted
<1>2. ASSUME NEW p \in ProcPid
      PROVE  told(p) \in {0, 1} /\ left(p) \in {0, 1} /\ missed(p) \in {0, 1}
  BY DEF Points
<1>3. ASSUME NEW p \in Running
      PROVE  /\ counted(p) \in Entry
             /\ counted(p).image = host[p].image /\ counted(p).atStart = host[p].atStart
             /\ counted(p).told = host[p].told + told(p)
             /\ counted(p).left = host[p].left + left(p)
             /\ counted(p).missed = host[p].missed + missed(p)
  <2>1. p \in ProcPid /\ host[p] \in Entry
    BY DEF Running, ProcInv
  <2>2. told(p) \in Nat /\ left(p) \in Nat /\ missed(p) \in Nat
    BY <1>2, <2>1
  <2> HIDE DEF told, left, missed
  <2>3. counted(p) \in Entry
    BY <2>1, <2>2, CountedEntry
  <2> QED
    BY <2>1, <2>2, <2>3, CountedFields
<1>4. ASSUME NEW p \in Running
      PROVE  /\ missed(p) = 0 => curr[p] # NoImage /\ left(p) = 0
             /\ missed(p) = 1 => curr[p] = NoImage /\ told(p) = 0
             /\ told(p) = 1 => prev[p] = NoImage
             /\ NoExe \notin WhitelistExes /\ host[p].image.exe \in WhitelistExes => told(p) = 0
  <2>1. p \in ProcPid /\ host[p].image # NoImage
    BY DEF Running
  <2>2. /\ p \in read => curr[p] = host[p].image
        /\ p \notin read => curr[p] = NoImage
    BY <2>1 DEF Snapshot
  <2>3. /\ p \in alerts => curr[p] # NoImage /\ prev[p] = NoImage
        /\ p \in exits => curr[p] = NoImage
    BY <2>1 DEF NewIn, GoneFrom
  <2>4. ASSUME NoExe \notin WhitelistExes, host[p].image.exe \in WhitelistExes, p \in alerts
        PROVE  FALSE
    BY <2>2, <2>3, <2>4, WhitelistedScore DEF ProcInv
  <2> HIDE DEF curr, alerts, exits
  <2> QED
    BY <2>1, <2>2, <2>3, <2>4 DEF Points
<1> HIDE DEF curr, told, left, missed, counted
<1>5. host' \in [ProcPid -> Entry]
  BY <1>1, <1>3, UnusedEntry
<1>6. ASSUME NEW p \in Running'
      PROVE  p \in Running /\ host'[p] = counted(p)
  <2>1. p \in ProcPid /\ host'[p].image # NoImage /\ Unused.image = NoImage
    BY DEF Running, Unused
  <2> QED
    BY <1>1, <2>1
<1>7. ASSUME NEW p \in Running'
      PROVE  Account(host[p], InLast(p))'
  <2> DEFINE h == host[p]
  <2>1. p \in Running /\ p \in ProcPid
    BY <1>6 DEF Running
  <2>2. Account(h, InLast(p)) /\ h \in Entry
    BY <2>1 DEF ProcInv
  <2>3. h.told \in Nat /\ h.left \in Nat /\ h.missed \in Nat /\ Points(~h.atStart, 1) \in {0, 1}
    BY <2>2 DEF Entry, Points
  <2>4. /\ told(p) \in {0, 1} /\ left(p) \in {0, 1} /\ missed(p) \in {0, 1}
        /\ missed(p) = 0 => curr[p] # NoImage /\ left(p) = 0
        /\ missed(p) = 1 => curr[p] = NoImage /\ told(p) = 0
        /\ told(p) = 1 => prev[p] = NoImage
        /\ NoExe \notin WhitelistExes /\ h.image.exe \in WhitelistExes => told(p) = 0
    BY <1>2, <1>4, <2>1
  <2>5. /\ host'[p].image = h.image /\ host'[p].atStart = h.atStart
        /\ host'[p].told = h.told + told(p) /\ host'[p].left = h.left + left(p)
        /\ host'[p].missed = h.missed + missed(p) /\ prev'[p] = curr[p]
    BY <1>1, <1>3, <1>6, <2>1
  <2>6. h.left + left(p) <= h.missed + missed(p)
    BY <2>2, <2>3, <2>4 DEF Account
  <2>7. h.told + told(p) + Points(curr[p] = NoImage, 1)
          <= h.missed + missed(p) + Points(~h.atStart, 1)
    BY <2>2, <2>3, <2>4 DEF Account, Points, InLast
  <2>8. h.told + told(p) <= h.missed + missed(p) + Points(~h.atStart, 1)
    BY <2>3, <2>4, <2>7 DEF Points
  <2>9. NoExe \notin WhitelistExes /\ h.image.exe \in WhitelistExes => h.told + told(p) = 0
    BY <2>2, <2>3, <2>4 DEF Account
  <2> HIDE DEF h
  <2>10. life' = "running" /\ (~InLast(p)') = (curr[p] = NoImage)
    BY <2>5 DEF InLast
  <2> QED
    BY <2>5, <2>6, <2>7, <2>8, <2>9, <2>10 DEF Account
<1> QED
  BY <1>5, <1>7

\* The first snapshot: what it misses will be new to the first scan.
LEMMA StartsAccount ==
  ASSUME ProcInv, life = "starting", life' = "running", NEW read \in SUBSET Running,
         prev' = Snapshot(read),
         host' = [p \in ProcPid |-> IF p \in Running \ read THEN Skipped(host[p]) ELSE host[p]]
  PROVE  /\ host' \in [ProcPid -> Entry]
         /\ \A p \in Running' : Account(host[p], InLast(p))'
<1>1. host' \in [ProcPid -> Entry]
  BY SkippedEntry DEF ProcInv, Running
<1>2. ASSUME NEW p \in Running'
      PROVE  p \in Running
  BY <1>2, SkippedFields DEF ProcInv, Running
<1>3. ASSUME NEW p \in Running'
      PROVE  Account(host[p], InLast(p))'
  <2> DEFINE h == host[p]
  <2>1. p \in Running /\ p \in ProcPid /\ h.image # NoImage
    BY <1>2 DEF Running
  <2>2. Account(h, InLast(p)) /\ h \in Entry
    BY <2>1 DEF ProcInv
  <2>3. h.told = 0 /\ h.left \in Nat /\ h.missed \in Nat /\ Points(~h.atStart, 1) \in {0, 1}
    BY <2>2 DEF Entry, Points, Account
  <2>4. CASE p \in read
    <3>1. host'[p] = h /\ prev'[p] # NoImage
      BY <2>1, <2>4 DEF Snapshot
    <3>2. InLast(p)'
      BY <3>1 DEF InLast
    <3> HIDE DEF h
    <3> QED
      BY <2>2, <2>3, <3>1, <3>2 DEF Account, Points
  <2>5. CASE p \notin read
    <3>1. host'[p] = Skipped(h)
      BY <2>1, <2>5
    <3>2. /\ host'[p].image = h.image /\ host'[p].atStart = h.atStart /\ host'[p].told = h.told
          /\ host'[p].left = h.left /\ host'[p].missed = h.missed + 1
      BY <2>2, <3>1, SkippedFields
    <3>3. Points(~(InLast(p)'), 1) \in {0, 1}
      BY DEF Points
    <3> HIDE DEF h
    <3> QED
      BY <2>2, <2>3, <3>2, <3>3 DEF Account
  <2> QED
    BY <2>4, <2>5
<1> QED
  BY <1>1, <1>3

\* The host: a new process and a new image start with a clean account.
LEMMA HostAccount ==
  ASSUME ProcInv, HostStep
  PROVE  /\ host' \in [ProcPid -> Entry]
         /\ \A p \in Running' : Account(host[p], InLast(p))'
<1>0. PICK x \in ProcPid : \/ \E q \in ProcPid \cup {1}, i \in Image : Fork(x, q, i)
                           \/ \E i \in Image : Exec(x, i)
                           \/ Exit(x)
  BY SMTT(40) DEF HostStep
<1>1. UNCHANGED <<prev, life>>
  BY <1>0 DEF Fork, Exec, Exit, angelVars, shellVars
<1>2. ASSUME NEW p \in ProcPid, host'[p] = host[p], p \in Running'
      PROVE  Account(host[p], InLast(p))'
  BY <1>1, <1>2 DEF ProcInv, Running, Account, InLast
<1>3. ASSUME NEW q \in ProcPid \cup {1}, NEW i \in Image, Fork(x, q, i)
      PROVE  /\ host' \in [ProcPid -> Entry]
             /\ \A p \in Running' : Account(host[p], InLast(p))'
  <2> DEFINE b == Born(i, q, x)
  <2>1. host' = [host EXCEPT ![x] = b] /\ q \in Nat
    BY <1>3, ProcAssumption DEF Fork
  <2>2. /\ b \in Entry /\ b.told = 0 /\ b.left = 0 /\ b.missed = 0
        /\ b.atStart = (life = "starting")
    BY <2>1, BornEntry
  <2> HIDE DEF b
  <2>3. host' \in [ProcPid -> Entry] /\ host'[x] = b /\ \A p \in ProcPid \ {x} : host'[p] = host[p]
    BY <2>1, <2>2 DEF ProcInv
  <2>4. Account(host[x], InLast(x))'
    <3>1. Points(~(InLast(x)'), 1) \in {0, 1}
      BY DEF Points
    <3>2. life = "running" => Points(~b.atStart, 1) = 1
      BY <2>2 DEF Points
    <3>3. Points(~b.atStart, 1) \in {0, 1}
      BY DEF Points
    <3> QED
      BY <1>1, <2>2, <2>3, <3>1, <3>2, <3>3 DEF Account
  <2> QED
    BY <1>2, <2>3, <2>4 DEF Running
<1>4. ASSUME NEW i \in Image, Exec(x, i)
      PROVE  /\ host' \in [ProcPid -> Entry]
             /\ \A p \in Running' : Account(host[p], InLast(p))'
  <2> DEFINE f == prev[x] = NoImage /\ timer = "fired"
             h == host[x]
  <2>1. host' = Execed(host, x, i, f) /\ x \in Running
    BY <1>4 DEF Exec, Execed
  <2>2. f \in BOOLEAN /\ host \in [ProcPid -> Entry]
    BY DEF ProcInv
  <2> HIDE DEF f
  <2>3. /\ host' \in [ProcPid -> Entry] /\ \A p \in ProcPid \ {x} : host'[p] = host[p]
        /\ host'[x].image = i /\ host'[x].atStart = h.atStart
        /\ host'[x].told = 0 /\ host'[x].left = h.left /\ host'[x].missed = h.missed
    BY <2>1, <2>2, ExecedEntry, ExecedFields
  <2>4. Account(host[x], InLast(x))'
    <3>1. Account(h, InLast(x)) /\ h \in Entry
      BY <2>1, <2>2 DEF ProcInv
    <3>2. h.told \in Nat /\ h.missed \in Nat /\ Points(~h.atStart, 1) \in {0, 1}
      BY <3>1 DEF Entry, Points
    <3>3. Points(~InLast(x), 1) \in {0, 1} /\ (InLast(x)' = InLast(x))
      BY <1>1 DEF Points, InLast
    <3> HIDE DEF h
    <3> QED
      BY <1>1, <2>3, <3>1, <3>2, <3>3 DEF Account
  <2> QED
    BY <1>2, <2>3, <2>4 DEF Running
<1>5. ASSUME Exit(x)
      PROVE  /\ host' \in [ProcPid -> Entry]
             /\ \A p \in Running' : Account(host[p], InLast(p))'
  <2>1. host' = [q \in ProcPid |-> IF q = x THEN Unused
                   ELSE IF host[q].ppid = x THEN Orphan(host[q]) ELSE host[q]]
    BY <1>5 DEF Exit, Orphan
  <2>2. host' \in [ProcPid -> Entry]
    BY <2>1, UnusedEntry, OrphanEntry DEF ProcInv
  <2>3. ASSUME NEW p \in Running'
        PROVE  Account(host[p], InLast(p))'
    <3>1. p \in ProcPid /\ p # x /\ host'[p].image # NoImage
      BY <2>1 DEF Running, Unused
    <3>2. host[p] \in Entry
      BY <3>1 DEF ProcInv
    <3>3. /\ host'[p].image = host[p].image /\ host'[p].atStart = host[p].atStart
          /\ host'[p].told = host[p].told /\ host'[p].left = host[p].left
          /\ host'[p].missed = host[p].missed
      BY <2>1, <3>1, <3>2, OrphanFields
    <3>4. Account(host[p], InLast(p))
      BY <3>1, <3>3 DEF ProcInv, Running
    <3> QED
      BY <1>1, <3>3, <3>4 DEF Account, InLast
  <2> QED
    BY <2>2, <2>3
<1> QED
  BY <1>0, <1>3, <1>4, <1>5

\* The angel's connection and its heartbeats.
LEMMA ShellAccount ==
  ASSUME ProcInv, UNCHANGED <<host, prev>>, life' = life \/ life' \notin {"starting", "running"}
  PROVE  /\ host' \in [ProcPid -> Entry]
         /\ \A p \in Running' : Account(host[p], InLast(p))'
<1>1. ASSUME NEW p \in Running'
      PROVE  Account(host[p], InLast(p)) /\ UNCHANGED InLast(p)
  BY <1>1 DEF ProcInv, Running, InLast
<1> QED
  BY <1>1 DEF ProcInv, Account

LEMMA ProcNextAccount ==
  ASSUME ProcInv, ProcNext
  PROVE  /\ host' \in [ProcPid -> Entry]
         /\ \A p \in Running' : Account(host[p], InLast(p))'
<1>1. CASE ProcStarts
  <2>1. PICK read \in SUBSET Running :
          /\ prev' = Snapshot(read)
          /\ host' = [p \in ProcPid |-> IF p \in Running \ read THEN Skipped(host[p]) ELSE host[p]]
    BY <1>1 DEF ProcStarts, Skipped
  <2> QED
    BY <1>1, <2>1, StartsAccount DEF ProcStarts, Started
<1>2. CASE ProcStartupFails \/ ProcHeartbeat \/ BaselineTimerFires
  BY <1>2, ShellAccount DEF ProcStartupFails, StartupFails, ProcHeartbeat, Heartbeat,
                            BaselineTimerFires, procVars
<1>3. CASE Scan
  BY <1>3, ScanAccount DEF Scan
<1>4. CASE HostStep
  BY <1>4, HostAccount
<1> QED
  BY <1>1, <1>2, <1>3, <1>4 DEF ProcNext

LEMMA ProcInvStep == ProcInv /\ [MainNext]_mainVars => ProcInv'
<1> SUFFICES ASSUME ProcInv, [MainNext]_mainVars PROVE ProcInv'
  OBVIOUS
<1>1. CASE RunProcess
  <2>1. kind = "process" /\ ProcNext /\ UNCHANGED kind
    BY <1>1, SMTT(40) DEF RunProcess
  <2>2. knownExes \subseteq knownExes'
    BY <2>1 DEF ProcNext, ProcStarts, ProcStartupFails, Scan, ScanWith, BaselineTimerFires,
                ProcHeartbeat, HostStep, Fork, Exec, Exit, procVars, angelVars
  <2> QED
    BY <2>1, <2>2, ProcNextAccount DEF ProcInv
<1>2. CASE kind # "process" /\ UNCHANGED <<procVars, kind>>
  BY <1>2 DEF ProcInv, Running, procVars
<1>3. CASE UNCHANGED <<procVars, kind, life>>
  BY <1>3, ShellAccount DEF ProcInv, Running, procVars
<1> QED
  BY <1>1, <1>2, <1>3 DEF MainNext, RunMemory, RunSentinel, LabEnd, SendWillFail, LabGoes,
                          kindVars, mainVars, shellVars

LEMMA ProcInvAlways == MainSpec => []ProcInv
  BY ProcInvInit, ProcInvStep, PTL DEF MainSpec
-----------------------------------------------------------------------------
\* A process is alerted on once, plus once for each scan that missed it, and one
\* that was there when the angel started only for such misses (poll, handleNew).
THEOREM AlertsAreBounded == MainSpec => []OneAlertPerProcess
<1>1. ProcInv => OneAlertPerProcess
  BY DEF ProcInv, Account, OneAlertPerProcess
<1> QED
  BY <1>1, ProcInvAlways, PTL

\* An exit is reported of a process that runs only by a scan that missed it
\* (poll, handleExit).
THEOREM NoFalseExits == MainSpec => []ExitsAreReal
<1>1. ProcInv => ExitsAreReal
  BY DEF ProcInv, Account, ExitsAreReal
<1> QED
  BY <1>1, ProcInvAlways, PTL

\* Whatever else is held against it, a process with a whitelisted exe is never
\* alerted on, unless the whitelist holds the name that stands for an exe that
\* cannot be read (run, scoreProcess).
THEOREM WhitelistSilences ==
  ASSUME NoExe \notin WhitelistExes
  PROVE  MainSpec => []WhitelistedExeIsQuiet
<1>1. ProcInv => WhitelistedExeIsQuiet
  BY DEF ProcInv, Account, WhitelistedExeIsQuiet
<1> QED
  BY <1>1, ProcInvAlways, PTL
-----------------------------------------------------------------------------
(* What the variables range over.                                            *)

\* A pid that is not in use has no history; a process that is has a parent that
\* runs, and has been missed by no more scans than have missed something.
Lives(p) ==
  IF p \in Running THEN host[p].ppid \in Running \cup {1} /\ host[p].missed <= misses
  ELSE host[p] = Unused

HostInv ==
  /\ prev \in [ProcPid -> Images]
  /\ births \in 0 .. MaxBirths /\ misses \in 0 .. MaxMisses
  /\ knownPpids \subseteq ProcPid
  /\ training = (timer = "armed") /\ timer \in {"armed", "fired"}
  /\ \A p \in ProcPid : Lives(p)

LEMMA HostInvInit == MainInit => HostInv
<1> SUFFICES ASSUME MainInit PROVE HostInv
  OBVIOUS
<1>1. /\ host = [p \in ProcPid |-> Unused] /\ births = 0 /\ misses = 0
      /\ prev = [p \in ProcPid |-> NoImage] /\ knownPpids = {} /\ training = TRUE /\ timer = "armed"
  BY DEF MainInit, ProcInit, Nothing
<1>2. Running = {}
  BY <1>1 DEF Running, Unused
<1>3. \A p \in ProcPid : Lives(p)
  BY <1>1, <1>2 DEF Lives
<1>4. prev \in [ProcPid -> Images]
  BY <1>1 DEF Images
<1>5. births \in 0 .. MaxBirths /\ misses \in 0 .. MaxMisses
  BY <1>1, ProcAssumption
<1> QED
  BY <1>1, <1>3, <1>4, <1>5 DEF HostInv

\* Reports and scans change nothing but the history of who runs.
LEMMA SameRunning ==
  ASSUME ProcInv, HostInv,
         \A p \in ProcPid : IF p \in Running
                            THEN host'[p].image = host[p].image /\ host'[p].ppid = host[p].ppid
                            ELSE host'[p] = Unused
  PROVE  /\ Running' = Running
         /\ \A p \in Running : host'[p].ppid \in Running' \cup {1}
<1>1. Unused.image = NoImage
  BY DEF Unused
<1>2. Running' = Running
  BY <1>1 DEF Running
<1> QED
  BY <1>2 DEF HostInv, Lives, Running

LEMMA SnapshotType ==
  ASSUME ProcInv, NEW read
  PROVE  Snapshot(read) \in [ProcPid -> Images]
<1>1. ASSUME NEW p \in ProcPid
      PROVE  host[p].image \in Images /\ NoImage \in Images
  <2>1. host[p] \in Entry
    BY DEF ProcInv
  <2> QED
    BY <2>1 DEF Entry, Images
<1> QED
  BY <1>1 DEF Snapshot

\* What a scan or the first snapshot misses is counted.
LEMMA MissedCounts ==
  ASSUME ProcInv, HostInv, NEW read \in SUBSET Running, Missed(read)
  PROVE  /\ misses' \in 0 .. MaxMisses /\ misses <= misses'
         /\ \A p \in Running : host[p].missed + Points(p \notin read, 1) <= misses'
<1>1. misses \in Nat /\ misses' \in {misses, misses + 1} /\ misses' <= MaxMisses /\ MaxMisses \in Nat
  BY ProcAssumption DEF Missed, HostInv
<1>2. ASSUME NEW p \in Running
      PROVE  host[p].missed + Points(p \notin read, 1) <= misses'
  <2>1. p \in ProcPid /\ host[p] \in Entry /\ Lives(p)
    BY DEF Running, ProcInv, HostInv
  <2>2. host[p].missed \in Nat /\ host[p].missed <= misses
    BY <2>1 DEF Entry, Lives
  <2>3. CASE p \in read
    BY <1>1, <2>2, <2>3 DEF Points
  <2>4. CASE p \notin read
    <3>1. misses' = misses + 1
      BY <2>4 DEF Missed
    <3> QED
      BY <1>1, <2>2, <2>4, <3>1 DEF Points
  <2> QED
    BY <2>3, <2>4
<1> QED
  BY <1>1, <1>2

LEMMA StartsHost ==
  ASSUME ProcInv, HostInv, ProcStarts
  PROVE  HostInv'
<1>1. PICK read \in SUBSET Running :
        /\ Missed(read)
        /\ prev' = Snapshot(read)
        /\ host' = [p \in ProcPid |-> IF p \in Running \ read THEN Skipped(host[p]) ELSE host[p]]
  BY DEF ProcStarts, Skipped
<1>2. UNCHANGED <<births, knownPpids, training, timer>>
  BY DEF ProcStarts
<1>3. ASSUME NEW p \in ProcPid
      PROVE  IF p \in Running
             THEN /\ host'[p].image = host[p].image /\ host'[p].ppid = host[p].ppid
                  /\ host'[p].missed = host[p].missed + Points(p \notin read, 1)
             ELSE host'[p] = Unused
  <2>1. host[p] \in Entry /\ Lives(p)
    BY DEF ProcInv, HostInv
  <2>2. host[p].missed + 0 = host[p].missed
    BY <2>1 DEF Entry
  <2> QED
    BY <1>1, <2>1, <2>2, SkippedFields DEF Lives, Points
<1>4. /\ Running' = Running
      /\ \A p \in Running : host'[p].ppid \in Running' \cup {1}
  BY <1>3, SameRunning
<1>5. ASSUME NEW p \in ProcPid
      PROVE  Lives(p)'
  <2>1. p \in Running => host'[p].missed <= misses'
    BY <1>1, <1>3, MissedCounts
  <2> QED
    BY <1>3, <1>4, <2>1 DEF Lives
<1>6. prev' \in [ProcPid -> Images] /\ misses' \in 0 .. MaxMisses
  BY <1>1, SnapshotType, MissedCounts
<1> QED
  BY <1>2, <1>5, <1>6 DEF HostInv

LEMMA ScanHost ==
  ASSUME ProcInv, HostInv, Scan
  PROVE  HostInv'
<1>1. PICK read \in SUBSET Running : Missed(read) /\ ScanWith(read)
  BY DEF Scan
<1> DEFINE curr == Snapshot(read)
           new == NewIn(curr)
           alerts == IF training THEN {}
                     ELSE {p \in new : Level(ProcScore(curr[p], host[p].ppid)) # "ok"}
           exits == IF training \/ ~AlertOnExit THEN {}
                    ELSE {p \in GoneFrom(curr) : Known(prev[p])}
           told(p) == Points(p \in alerts, 1)
           left(p) == Points(p \in exits /\ host[p].image = prev[p], 1)
           missed(p) == Points(p \notin read, 1)
<1>2. /\ prev' = curr
      /\ host' = [p \in ProcPid |-> IF p \notin Running THEN Unused
                                    ELSE Counted(host[p], told(p), left(p), missed(p))]
      /\ knownPpids' \in {knownPpids, knownPpids \cup new}
  BY <1>1 DEF ScanWith, PrevAfter, Counted
<1>3. UNCHANGED <<births, training, timer>> /\ new \subseteq ProcPid
  BY DEF Scan, NewIn
<1>4. ASSUME NEW p \in ProcPid
      PROVE  told(p) \in Nat /\ left(p) \in Nat /\ missed(p) \in Nat
  BY DEF Points
<1> HIDE DEF told, left, new, curr
<1>5. ASSUME NEW p \in ProcPid
      PROVE  IF p \in Running
             THEN /\ host'[p].image = host[p].image /\ host'[p].ppid = host[p].ppid
                  /\ host'[p].missed = host[p].missed + Points(p \notin read, 1)
             ELSE host'[p] = Unused
  <2>1. host[p] \in Entry /\ told(p) \in Nat /\ left(p) \in Nat /\ missed(p) \in Nat
    BY <1>4 DEF ProcInv
  <2> HIDE DEF missed
  <2>2. p \in Running => host'[p] = Counted(host[p], told(p), left(p), missed(p))
    BY <1>2
  <2>3. p \in Running => /\ host'[p].image = host[p].image /\ host'[p].ppid = host[p].ppid
                         /\ host'[p].missed = host[p].missed + missed(p)
    BY <2>1, <2>2, CountedFields
  <2> QED
    BY <1>2, <2>3 DEF missed
<1>6. /\ Running' = Running
      /\ \A p \in Running : host'[p].ppid \in Running' \cup {1}
  BY <1>5, SameRunning
<1>7. ASSUME NEW p \in ProcPid
      PROVE  Lives(p)'
  <2>1. p \in Running => host'[p].missed <= misses'
    BY <1>1, <1>5, MissedCounts
  <2> QED
    BY <1>5, <1>6, <2>1 DEF Lives
<1>8. prev' \in [ProcPid -> Images] /\ misses' \in 0 .. MaxMisses
  BY <1>1, <1>2, SnapshotType, MissedCounts DEF curr
<1> QED
  BY <1>2, <1>3, <1>7, <1>8 DEF HostInv

\* A process starts under a parent that runs; one that exits leaves its children
\* to init.
LEMMA HostStepHost ==
  ASSUME ProcInv, HostInv, HostStep
  PROVE  HostInv'
<1>0. PICK x \in ProcPid : \/ \E q \in ProcPid \cup {1}, i \in Image : Fork(x, q, i)
                           \/ \E i \in Image : Exec(x, i)
                           \/ Exit(x)
  BY DEF HostStep
<1>1. UNCHANGED <<prev, misses, knownPpids, training, timer>> /\ births' \in 0 .. MaxBirths
  <2>1. /\ UNCHANGED <<prev, misses, knownPpids, training, timer>>
        /\ births' = births \/ (births' = births + 1 /\ births < MaxBirths)
    <3>1. ASSUME NEW q \in ProcPid \cup {1}, NEW i \in Image, Fork(x, q, i)
          PROVE  /\ UNCHANGED <<prev, misses, knownPpids, training, timer>>
                 /\ births' = births \/ (births' = births + 1 /\ births < MaxBirths)
      BY <3>1 DEF Fork, angelVars
    <3>2. CASE \E i \in Image : Exec(x, i)
      BY <3>2 DEF Exec, angelVars
    <3>3. CASE Exit(x)
      BY <3>3 DEF Exit, angelVars
    <3> QED
      BY <1>0, <3>1, <3>2, <3>3
  <2>2. births \in 0 .. MaxBirths /\ MaxBirths \in Nat
    BY ProcAssumption DEF HostInv
  <2> QED
    BY <2>1, <2>2
<1>2. Unused.image = NoImage /\ NoImage \notin Image /\ misses \in Nat /\ host \in [ProcPid -> Entry]
  BY ProcAssumption DEF Unused, HostInv, ProcInv
<1>3. ASSUME NEW q \in ProcPid \cup {1}, NEW i \in Image, Fork(x, q, i), NEW p \in ProcPid
      PROVE  Lives(p)'
  <2> DEFINE b == Born(i, q, x)
  <2>1. host' = [host EXCEPT ![x] = b] /\ q \in Nat /\ q \in Running \cup {1}
    BY <1>3, ProcAssumption DEF Fork
  <2>2. b \in Entry /\ b.image = i /\ b.ppid = q /\ b.missed = 0
    BY <2>1, BornEntry
  <2> HIDE DEF b
  <2>3. host'[x] = b /\ \A y \in ProcPid \ {x} : host'[y] = host[y]
    BY <1>2, <2>1
  <2>4. Running' = Running \cup {x}
    BY <1>2, <2>2, <2>3 DEF Running
  <2>5. CASE p = x
    BY <1>1, <1>2, <2>1, <2>2, <2>3, <2>4, <2>5 DEF Lives
  <2>6. CASE p # x
    BY <1>1, <2>3, <2>4, <2>6 DEF Lives, HostInv
  <2> QED
    BY <2>5, <2>6
<1>4. ASSUME NEW i \in Image, Exec(x, i), NEW p \in ProcPid
      PROVE  Lives(p)'
  <2> DEFINE f == prev[x] = NoImage /\ timer = "fired"
             h == host[x]
  <2>1. host' = Execed(host, x, i, f) /\ x \in Running
    BY <1>4 DEF Exec, Execed
  <2>2. f \in BOOLEAN
    OBVIOUS
  <2> HIDE DEF f
  <2>3. /\ \A y \in ProcPid \ {x} : host'[y] = host[y]
        /\ host'[x].image = i /\ host'[x].ppid = h.ppid /\ host'[x].missed = h.missed
    BY <1>2, <2>1, <2>2, ExecedFields
  <2>4. Running' = Running
    BY <1>2, <2>1, <2>3 DEF Running
  <2>5. Lives(p)
    BY DEF HostInv
  <2>6. CASE p = x
    BY <1>1, <2>1, <2>3, <2>4, <2>5, <2>6 DEF Lives
  <2>7. CASE p # x
    BY <1>1, <2>3, <2>4, <2>5, <2>7 DEF Lives
  <2> QED
    BY <2>6, <2>7
<1>5. ASSUME Exit(x), NEW p \in ProcPid
      PROVE  Lives(p)'
  <2>1. host' = [q \in ProcPid |-> IF q = x THEN Unused
                   ELSE IF host[q].ppid = x THEN Orphan(host[q]) ELSE host[q]]
    BY <1>5 DEF Exit, Orphan
  <2>2. \A y \in ProcPid \ {x} : /\ host'[y].image = host[y].image /\ host'[y].missed = host[y].missed
                                 /\ host'[y].ppid = IF host[y].ppid = x THEN 1 ELSE host[y].ppid
    BY <1>2, <2>1, OrphanFields
  <2>3. Running' = Running \ {x}
    BY <1>2, <2>1, <2>2 DEF Running
  <2>4. Lives(p)
    BY DEF HostInv
  <2>5. CASE p = x
    BY <2>1, <2>3, <2>5 DEF Lives
  <2>6. CASE p \in Running \ {x}
    BY <1>1, <2>2, <2>3, <2>4, <2>6 DEF Lives
  <2>7. CASE p \notin Running /\ p # x
    <3>1. host[p] = Unused /\ Unused.ppid = 1 /\ x \in ProcPid /\ x # 1
      BY <2>4, <2>7, ProcAssumption DEF Lives, Unused
    <3>2. host'[p] = Unused
      BY <2>1, <2>7, <3>1
    <3> QED
      BY <2>3, <2>7, <3>2 DEF Lives
  <2> QED
    BY <2>5, <2>6, <2>7
<1>6. \A p \in ProcPid : Lives(p)'
  BY <1>0, <1>3, <1>4, <1>5
<1> QED
  BY <1>1, <1>6 DEF HostInv

LEMMA HostInvStep == HostInv /\ ProcInv /\ [MainNext]_mainVars => HostInv'
<1> SUFFICES ASSUME HostInv, ProcInv, [MainNext]_mainVars PROVE HostInv'
  OBVIOUS
<1>1. CASE UNCHANGED procVars
  BY <1>1 DEF HostInv, Lives, Running, procVars
<1>2. CASE BaselineTimerFires
  BY <1>2 DEF BaselineTimerFires, Finalise, HostInv, Lives, Running
<1>3. CASE RunProcess
  BY <1>1, <1>2, <1>3, StartsHost, ScanHost, HostStepHost
     DEF RunProcess, ProcNext, ProcStartupFails, ProcHeartbeat
<1> QED
  BY <1>1, <1>3 DEF MainNext, RunMemory, RunSentinel, LabEnd, kindVars, mainVars

LEMMA ProcTypes == MainSpec => []ProcTypeOK
<1>1. ShellTypeOK /\ ProcInv /\ HostInv => ProcTypeOK
  <2> SUFFICES ASSUME ShellTypeOK, ProcInv, HostInv PROVE ProcTypeOK
    OBVIOUS
  <2>1. ASSUME NEW p \in ProcPid
        PROVE  /\ host[p].image \in Images /\ prev[p] \in Images
               /\ host[p].ppid \in Running \cup {1}
               /\ host[p].told \in 0 .. MaxMisses + 1 /\ host[p].left \in 0 .. MaxMisses + 1
    <3>1. host[p] \in Entry /\ Lives(p) /\ misses \in 0 .. MaxMisses /\ MaxMisses \in Nat
      BY ProcAssumption DEF ProcInv, HostInv
    <3>2. /\ host[p].image \in Images /\ host[p].told \in Nat /\ host[p].left \in Nat
          /\ host[p].missed \in Nat
      BY <3>1 DEF Entry
    <3>3. CASE p \in Running
      <4>1. /\ host[p].left <= host[p].missed
            /\ host[p].told <= host[p].missed + Points(~host[p].atStart, 1)
        BY <3>3 DEF ProcInv, Account
      <4>2. host[p].missed <= misses /\ host[p].ppid \in Running \cup {1}
        BY <3>1, <3>3 DEF Lives
      <4>3. Points(~host[p].atStart, 1) \in {0, 1}
        BY DEF Points
      <4> QED
        BY <3>1, <3>2, <4>1, <4>2, <4>3 DEF HostInv
    <3>4. CASE p \notin Running
      <4>1. host[p].told = 0 /\ host[p].left = 0 /\ host[p].ppid = 1
        BY <3>1, <3>4 DEF Lives, Unused
      <4> QED
        BY <3>1, <3>2, <4>1 DEF HostInv
    <3> QED
      BY <3>3, <3>4
  <2> QED
    BY <2>1 DEF ProcTypeOK, HostInv, Images
<1> QED
  BY <1>1, ShellInitType, ShellStep, ProcInvInit, ProcInvStep, HostInvInit, HostInvStep, PTL
     DEF MainSpec

\* Every variable of the three angels keeps to its range; among them the memory
\* angel's windows, the deduplicator's limit and the ranges of every count
\* (AddSample, pruneHalf, poll).
THEOREM AngelsTypeCorrect == MainSpec => []AngelsTypeOK
<1>1. MemTypeOK /\ ProcTypeOK /\ SentTypeOK => AngelsTypeOK
  BY DEF AngelsTypeOK
<1> QED
  BY <1>1, MemTypes, ProcTypes, SentTypes, PTL
=============================================================================
