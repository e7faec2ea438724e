------------------------------ MODULE Sentinel ------------------------------
(***************************************************************************)
(* The sentinel angel (internal/angels/sentinel). It polls the established *)
(* TCP connections through a cache, passes those that the deduplicator has *)
(* not seen lately to the scorer, and in its training phase to a baseline, *)
(* which is saved when the training ends and loaded by the next process.   *)
(* Time is counted in polls; an age above its limit means expired.         *)
(***************************************************************************)
EXTENDS AngelShell, Integers, Sequences, FiniteSets, SequencesExt

CONSTANTS
  Remote,          \* remote ends: [ip, port]
  Loopback, Private,        \* ips that are loopback, and in private ranges
  HighPorts, VeryHighPorts, \* ports above 49152, and above 60000
  Absent, Unreadable, OtherVersion,   \* files that loadBaseline loads nothing from
  CacheTTL,        \* polls for which ConnCache answers from memory
  DedupTTL,        \* polls for which a remote is not new again
  MaxDedup,        \* maxDedupSize
  RateWindow,      \* polls the rate tracker looks back
  BurstThreshold,
  MaxLives         \* bound: processes of this angel

ASSUME SentAssumption ==
  /\ IsFiniteSet(Remote) /\ CacheTTL \in Nat /\ DedupTTL \in Nat \ {0}
  /\ MaxDedup \in Nat \ {0, 1} /\ RateWindow \in Nat \ {0}
  /\ BurstThreshold \in Nat /\ MaxLives \in Nat \ {0}

VARIABLES
  phase,       \* "TRAINING" or "ACTIVE"
  baseline,    \* [ips, ports, maxConcurrent]
  file,        \* the baseline file: a baseline, or an unloadable one
  saving,      \* finaliseBaseline has frozen and not yet saved
  tmr,         \* the baseline timer is armed
  cache,       \* [conns, age]; age CacheTTL + 1: nothing that counts
  seen,        \* per remote: polls since it was last new, or NotSeen
  rate,        \* new remotes in each of the last polls, newest first
  todo,        \* connections the running poll has still to look at
  polling,     \* poll is in its loop
  batch,       \* what is new in this poll: count, and the training batch
  lives,       \* processes so far
  blind,       \* this process could not read a baseline that was there (history)
  staying,     \* polls in a row that found it established (history)
  quiet        \* polls since its last anomaly in this process (history)

modelVars == <<phase, baseline, file, saving, tmr>>
pollVars == <<cache, seen, rate, todo, polling, batch>>
histVars == <<blind, staying, quiet>>
sentVars == <<modelVars, pollVars, lives, histVars>>

NotSeen == DedupTTL + 2
Expired == DedupTTL + 1
Unloadable == {Absent, Unreadable, OtherVersion}
Empty == [ips |-> {}, ports |-> {}, maxConcurrent |-> 0]
Stale == [conns |-> {}, age |-> CacheTTL + 1]
NoRate == [i \in 1..RateWindow |-> 0]
NeverQuiet == [r \in Remote |-> Expired]

Baselines == [ips : SUBSET {r.ip : r \in Remote}, ports : SUBSET {r.port : r \in Remote},
              maxConcurrent : 0..Cardinality(Remote)]

SentTypeOK ==
  /\ ShellTypeOK
  /\ phase \in {"TRAINING", "ACTIVE"} /\ baseline \in Baselines
  /\ file \in Baselines \cup Unloadable
  /\ saving => phase = "ACTIVE"
  /\ tmr \in BOOLEAN /\ lives \in 1..MaxLives
  /\ cache.conns \subseteq Remote /\ cache.age \in 0..CacheTTL + 1
  /\ seen \in [Remote -> 0..NotSeen]
  /\ Cardinality({r \in Remote : seen[r] # NotSeen}) < MaxDedup
  /\ rate \in [1..RateWindow -> 0..Cardinality(Remote)]
  /\ todo \subseteq Remote /\ batch \subseteq Remote
  /\ ~polling => todo = {}
  /\ blind \in BOOLEAN
  /\ staying \in [Remote -> 0..CacheTTL + 2] /\ quiet \in [Remote -> 0..Expired]

\* The memory of a new process.
Fresh ==
  /\ phase = "TRAINING" /\ baseline = Empty /\ saving = FALSE /\ tmr = TRUE
  /\ cache = Stale /\ seen = [r \in Remote |-> NotSeen] /\ rate = NoRate
  /\ todo = {} /\ polling = FALSE /\ batch = {}
  /\ blind = FALSE /\ staying = [r \in Remote |-> 0] /\ quiet = NeverQuiet

SentInit(Files) == Fresh /\ lives = 1 /\ file \in Files

-----------------------------------------------------------------------------
(* The deduplicator. *)

\* An expired entry is refreshed, and then counts as new.
IsNew(s, r) == s[r] >= Expired

\* A mutant: the entry is not refreshed when it has expired.
MarkSeenOnce(s, r) == [s EXCEPT ![r] = IF @ = NotSeen THEN 0 ELSE @]

MarkSeen(s, r) == [s EXCEPT ![r] = 0]

\* prune, which some unseen remotes set off (every 500 calls and a quarter of
\* the ttl), drops what has expired.
Pruned(s) == [r \in Remote |-> IF s[r] = Expired THEN NotSeen ELSE s[r]]

\* pruneHalf at the size limit: the newer half stays; equal times in any order.
Entries(s) == {r \in Remote : s[r] # NotSeen}

Halved(s) ==
  IF Cardinality(Entries(s)) < MaxDedup THEN {s}
  ELSE {[r \in Remote |-> IF r \in keep THEN s[r] ELSE NotSeen] :
          keep \in {K \in SUBSET Entries(s) :
                      /\ Cardinality(K) = Cardinality(Entries(s))
                                          - Cardinality(Entries(s)) \div 2
                      /\ \A k \in K, d \in Entries(s) \ K : s[k] <= s[d]}}

\* The tables IsNew can leave behind for a remote that is new.
Recorded(s, r) ==
  IF s[r] # NotSeen THEN {MarkSeen(s, r)}
  ELSE UNION {Halved(t) : t \in {MarkSeen(s, r), Pruned(MarkSeen(s, r))}}

-----------------------------------------------------------------------------
(* The scorer. *)

\* Scorer.Score of a new remote, as one of n new ones in this poll and the last of
\* burst new ones in the rate window. Loopback is never scored further.
ConnScore(r, n, burst) ==
  IF r.ip \in Loopback THEN -5 ELSE
    Points(r.ip \notin baseline.ips, 3)
    + Points(r.port \notin baseline.ports, 2)
    + Points(r.port \in HighPorts, 1) + Points(r.port \in VeryHighPorts, 1)
    + Points(burst > BurstThreshold, 4)
    + Points(baseline.maxConcurrent > 0 /\ n > 2 * baseline.maxConcurrent, 3)
    - Points(r.ip \in Private, 1)

\* RateTracker.Add, one more in the newest poll; and the sum over the window.
AddToRate(q) == [q EXCEPT ![1] = @ + 1]
Burst(q) == FoldFunction(+, 0, q)

-----------------------------------------------------------------------------
(* The life of a process. *)

\* A mutant: the baseline is loaded but training goes on.
LoadOnly ==
  /\ baseline' = IF file \in Unloadable THEN Empty ELSE file
  /\ UNCHANGED <<phase, blind>>

\* loadBaseline: a file that is missing, cannot be parsed or has another
\* version means training, and so does a read that fails, of any file; a
\* good one that is read ends it.
LoadBaseline ==
  \/ file \notin Unloadable /\ baseline' = file /\ phase' = "ACTIVE" /\ UNCHANGED blind
  \/ UNCHANGED <<baseline, phase>> /\ blind' = (file \notin Unloadable)

SentStarts ==
  /\ Started /\ LoadBaseline
  /\ UNCHANGED <<file, saving, tmr, pollVars, lives, staying, quiet>>

SentStartupFails == StartupFails /\ UNCHANGED sentVars

\* Lab starts the next process, which connects anew.
SentRestarts ==
  /\ life \in {"exited", "panicked"} /\ lives < MaxLives
  /\ life' = "starting" /\ link' = "up" /\ lives' = lives + 1
  /\ phase' = "TRAINING" /\ baseline' = Empty /\ saving' = FALSE /\ tmr' = TRUE
  /\ cache' = Stale /\ seen' = [r \in Remote |-> NotSeen] /\ rate' = NoRate
  /\ todo' = {} /\ polling' = FALSE /\ batch' = {}
  /\ blind' = FALSE /\ staying' = [r \in Remote |-> 0] /\ quiet' = NeverQuiet
  /\ UNCHANGED <<hiccups, file>>

\* A signal, at any point.
SentKilled ==
  /\ life = "running" /\ lives < MaxLives
  /\ life' = "exited"
  /\ UNCHANGED <<link, hiccups, sentVars>>

\* One attempt only.
SentHeartbeat == ~polling /\ ~saving /\ Heartbeat(1) /\ UNCHANGED sentVars

\* The timer starts finaliseBaseline, unless a loaded baseline ended training.
SentTimerFires ==
  /\ life = "running" /\ tmr /\ ~polling /\ ~saving
  /\ tmr' = FALSE
  /\ IF phase = "TRAINING" THEN phase' = "ACTIVE" /\ saving' = TRUE
     ELSE UNCHANGED <<phase, saving>>
  /\ UNCHANGED <<baseline, file, pollVars, lives, histVars, shellVars>>

\* saveBaseline writes a temporary file and renames it: all or, when a step
\* fails and its error is dropped, nothing.
SaveBaseline ==
  /\ life = "running" /\ saving
  /\ saving' = FALSE
  /\ file' = baseline \/ file' = file
  /\ UNCHANGED <<phase, baseline, tmr, pollVars, lives, histVars, shellVars>>

-----------------------------------------------------------------------------
(* One poll, a connection at a time. *)

CacheCounts == cache.age + 1 <= CacheTTL

CacheTouched(c) == c   \* a mutant: an answer from memory makes it young again

\* The cache after a poll it answered, or could have: what no longer counts
\* is forgotten.
CacheOlder(c) == IF c.age + 1 >= CacheTTL THEN Stale ELSE [c EXCEPT !.age = @ + 1]

\* Everything is one poll older; a read that fails ends the poll.
PollBegins ==
  /\ life = "running" /\ ~polling /\ ~saving
  /\ \E now \in SUBSET Remote, fails \in BOOLEAN :
       LET reads == ~CacheCounts /\ ~fails
           conns == IF CacheCounts THEN cache.conns ELSE now
       IN /\ fails => ~CacheCounts
          /\ cache' = IF reads THEN [conns |-> now, age |-> 0]
                      ELSE CacheOlder(cache)
          /\ todo' = IF fails THEN {} ELSE conns
          /\ polling' = ~fails
          /\ staying' = [r \in Remote |-> IF r \notin now THEN 0
               ELSE IF fails \/ staying[r] > CacheTTL THEN staying[r] ELSE staying[r] + 1]
  /\ seen' = [r \in Remote |-> IF seen[r] < Expired THEN seen[r] + 1 ELSE seen[r]]
  /\ quiet' = [r \in Remote |-> IF quiet[r] < Expired THEN quiet[r] + 1 ELSE quiet[r]]
  /\ rate' = <<0>> \o Front(rate)
  /\ UNCHANGED <<modelVars, batch, lives, blind, shellVars>>

\* A connection the deduplicator has seen within its ttl is passed over.
PassOver(r) ==
  /\ life = "running" /\ r \in todo /\ ~IsNew(seen, r)
  /\ todo' = todo \ {r}
  /\ UNCHANGED <<modelVars, cache, seen, rate, polling, batch, lives, histVars, shellVars>>

\* What the size limit dropped may be reported again at once (history).
Dropped(s) == {r \in Remote : s[r] = NotSeen /\ seen[r] # NotSeen /\ seen[r] # Expired}

\* The scorer exists in the active phase only: in training the call on the
\* nil scorer returns for a loopback remote and panics for any other.
Consider(r) ==
  /\ life = "running" /\ r \in todo /\ IsNew(seen, r)
  /\ todo' = todo \ {r}
  /\ batch' = batch \cup {r}
  /\ \E s \in Recorded(seen, r) :
       LET scored == r.ip \notin Loopback
           rate1 == IF scored THEN AddToRate(rate) ELSE rate
           anomaly == phase = "ACTIVE" /\ ConnScore(r, Cardinality(batch'), Burst(rate1)) >= 3
       IN /\ seen' = s
          /\ staying' = [x \in Remote |-> IF x \in Dropped(s) \/ (x = r /\ s[r] = NotSeen)
                                          THEN 0 ELSE staying[x]]
          /\ quiet' = [x \in Remote |-> IF x \in Dropped(s) \/ (x = r /\ s[r] = NotSeen)
                       THEN Expired ELSE IF x = r /\ anomaly THEN 0 ELSE quiet[x]]
          /\ IF phase = "TRAINING" /\ scored
             THEN life' = "panicked" /\ UNCHANGED <<rate, link, hiccups>>
             ELSE /\ rate' = rate1
                  /\ Emit(IF anomaly THEN {r} ELSE {})
                  /\ UNCHANGED life
  /\ UNCHANGED <<modelVars, cache, polling, lives, blind>>

\* Baseline.Observe takes the batch; its size is the concurrency it learns.
PollEnds ==
  /\ life = "running" /\ polling /\ todo = {}
  /\ polling' = FALSE /\ batch' = {}
  /\ IF phase = "TRAINING"
     THEN baseline' = [ips |-> baseline.ips \cup {r.ip : r \in batch},
                       ports |-> baseline.ports \cup {r.port : r \in batch},
                       maxConcurrent |-> IF Cardinality(batch) > baseline.maxConcurrent
                                         THEN Cardinality(batch) ELSE baseline.maxConcurrent]
     ELSE UNCHANGED baseline
  /\ UNCHANGED <<phase, file, saving, tmr, cache, seen, rate, todo, lives, histVars,
                 shellVars>>

SentNext ==
  \/ SentStarts \/ SentStartupFails \/ SentRestarts \/ SentKilled
  \/ SentHeartbeat \/ SentTimerFires \/ SaveBaseline
  \/ PollBegins \/ PollEnds \/ \E r \in Remote : PassOver(r) \/ Consider(r)
-----------------------------------------------------------------------------
(* Properties. *)

\* One process reports a remote again only after the deduplicator's ttl,
\* unless the size limit dropped its entry (dedup.go IsNew, pruneHalf).
AnomaliesAreSpaced ==
  [][\A r \in Remote : quiet'[r] = 0 /\ quiet[r] # 0 => quiet[r] = Expired]_quiet

\* A connection that stays is looked at: one that as many polls as the cache
\* lives, and one more, found established is known to the deduplicator when
\* the poll ends (sentinel.go ConnCache.Get, poll).
StayingIsSeen ==
  life = "running" /\ ~polling =>
    \A r \in Remote : staying[r] > CacheTTL => seen[r] # NotSeen

\* A saved baseline is there for every later process: neither a restart, nor
\* a kill while saving, nor the baseline timer of a process that loaded it
\* takes its place. Only a process whose own read of it failed trains anew,
\* and saves what it learnt over it (persist.go:106, sentinel.go:151).
SavedIsKept == [][file \notin Unloadable /\ file' # file => blind]_file

\* Training ends in a baseline, not in a panic: it learns the "Set of remote
\* IPs seen in outbound ESTABLISHED connections" (baseline.go:8).
TrainingSurvives == life # "panicked"
=============================================================================
