--------------------------- MODULE GuardianProofs ---------------------------
(***************************************************************************)
(* What the Guardian answers for when it has no event left, for any number *)
(* of files, inodes and foreign operations and every size of the watcher's *)
(* channel.                                                                *)
(*                                                                         *)
(* The argument follows an event.  A change of a watched file is in the    *)
(* channel or was seen by nobody; a notice in the channel is still good    *)
(* when the Guardian gets to it, whatever happened to the file since,      *)
(* because what happened since has a notice of its own; and the answer to  *)
(* a good notice is a restore, or a new snapshot of what is there.         *)
(***************************************************************************)
EXTENDS Guardian, SequenceTheorems, TLAPS

\* A notice of f that the Guardian will not pass over: the events of a deletion
\* and a move always make it restore f, the others make it look at a file there is.
Undone == {"delete", "deleteSelf", "moveSelf"}
Good(n, f) == n[2] = f /\ (n[1] \in Undone \/ Exists(f))

\* The Guardian still has to deal with f.
Pending(f) ==
  \/ gpc = "restore" /\ current[2] = f
  \/ \E n \in 1 .. Len(queue) : Good(queue[n], f)

\* A known file that differs from its snapshot is pending, or lost to the Guardian.
CleanInv ==
  /\ gpc \in {"restore", "rewatch", "retake"} => current \in Notice
  /\ gpc = "restore" => Known(current[2])
  /\ \A f \in File : (Known(f) /\ View(f) # snap[f]) => f \in blind \cup failed \/ Pending(f)

GuardInv == GuardianTypeOK /\ CleanInv
-----------------------------------------------------------------------------
(* The watcher's channel.                                                    *)

\* parseEvents puts a prefix of the notices into the channel, as far as it goes.
LEMMA PostedPrefix ==
  ASSUME queue \in Seq(Notice), Len(queue) <= QueueSize, NEW notices \in Seq(Notice)
  PROVE  /\ Posted(notices) \in Seq(Notice)
         /\ Len(Posted(notices)) <= Room /\ Len(Posted(notices)) <= Len(notices)
         /\ \A n \in 1 .. Len(Posted(notices)) : Posted(notices)[n] = notices[n]
<1>1. QueueSize \in Nat /\ Room \in Nat /\ Len(notices) \in Nat
  BY GuardianAssumption DEF Room
<1>2. CASE Len(notices) <= Room
  BY <1>1, <1>2 DEF Posted
<1>3. CASE ~(Len(notices) <= Room)
  BY <1>1, <1>3 DEF Posted
<1> QED
  BY <1>2, <1>3

\* Post keeps the channel within its size, the notices in it where they are, and
\* appends what Posted says.
LEMMA PostKeeps ==
  ASSUME queue \in Seq(Notice), Len(queue) <= QueueSize, NEW notices \in Seq(Notice),
         Post(notices)
  PROVE  /\ queue' \in Seq(Notice) /\ Len(queue') <= QueueSize
         /\ \A n \in 1 .. Len(queue) : n \in 1 .. Len(queue') /\ queue'[n] = queue[n]
         /\ \A n \in 1 .. Len(Posted(notices)) :
              \E m \in 1 .. Len(queue') : queue'[m] = notices[n]
<1>1. /\ Posted(notices) \in Seq(Notice)
      /\ Len(Posted(notices)) <= Room
      /\ \A n \in 1 .. Len(Posted(notices)) : Posted(notices)[n] = notices[n]
  BY PostedPrefix
<1>2. queue' = queue \o Posted(notices)
  BY DEF Post
<1>3. QueueSize \in Nat
  BY GuardianAssumption
<1>4. /\ queue' \in Seq(Notice) /\ Len(queue') = Len(queue) + Len(Posted(notices))
      /\ \A n \in 1 .. Len(queue) : queue'[n] = queue[n]
      /\ \A n \in 1 .. Len(Posted(notices)) : queue'[Len(queue) + n] = Posted(notices)[n]
  BY <1>1, <1>2
<1>5. Len(queue') <= QueueSize
  BY <1>1, <1>3, <1>4 DEF Room
<1>6. ASSUME NEW n \in 1 .. Len(Posted(notices))
      PROVE  \E m \in 1 .. Len(queue') : queue'[m] = notices[n]
  <2>1. Len(queue) + n \in 1 .. Len(queue')
    BY <1>1, <1>4
  <2> QED
    BY <2>1, <1>1, <1>4
<1> QED
  BY <1>1, <1>4, <1>5, <1>6

\* The events of an inode are notices.
LEMMA SelfTyped ==
  ASSUME GuardianTypeOK, NEW i \in Inode, NEW kind \in Kind
  PROVE  SelfNotice(i, kind) \in Seq(Notice)
<1>1. CASE watches[i] = NoPath
  BY <1>1 DEF SelfNotice
<1>2. CASE watches[i] # NoPath
  <2>1. <<kind, watches[i]>> \in Notice
    BY <1>2 DEF GuardianTypeOK, Notice
  <2> QED
    BY <2>1, <1>2 DEF SelfNotice
<1> QED
  BY <1>1, <1>2

LEMMA DirTyped ==
  ASSUME NEW f \in File, NEW kind \in Kind
  PROVE  DirNotice(f, kind) \in Seq(Notice)
<1>1. <<kind, f>> \in Notice
  BY DEF Notice
<1> QED
  BY <1>1 DEF DirNotice

LEMMA LostTyped ==
  ASSUME GuardianTypeOK, NEW i \in Inode \cup {NoInode}
  PROVE  LostNotice(i) \in Seq(Notice)
BY SelfTyped DEF LostNotice, Gone, Kind

\* The kinds of the notices.
LEMMA SelfKinds ==
  ASSUME NEW i, NEW kind, NEW n \in 1 .. Len(SelfNotice(i, kind))
  PROVE  SelfNotice(i, kind)[n][1] = kind
BY DEF SelfNotice

LEMMA DirKinds ==
  ASSUME NEW f, NEW kind, NEW n \in 1 .. Len(DirNotice(f, kind))
  PROVE  DirNotice(f, kind)[n][1] = kind
BY DEF DirNotice

LEMMA LostKinds ==
  ASSUME NEW i, NEW n \in 1 .. Len(LostNotice(i))
  PROVE  LostNotice(i)[n][1] = "deleteSelf"
BY SelfKinds DEF LostNotice
-----------------------------------------------------------------------------
(* The file system.                                                          *)

\* A new inode has no name yet: nothing is seen to change but the path it is given.
LEMMA NewFileViews ==
  ASSUME GuardianTypeOK, NEW f \in File, NEW c \in Content, NewFile(f, c)
  PROVE  /\ fs' \in [File -> Inode \cup {NoInode}] /\ data' \in [Inode -> Content]
         /\ fs'[f] \in Inode /\ View(f)' = c
         /\ \A g \in File \ {f} : View(g)' = View(g)
<1>1. PICK i \in Free : fs' = [fs EXCEPT ![f] = i] /\ data' = [data EXCEPT ![i] = c]
  BY DEF NewFile
<1>2. i \in Inode /\ i # NoInode /\ \A g \in File : fs[g] # i
  BY <1>1, GuardianAssumption DEF Free, Named
<1>3. View(f)' = c
  BY <1>1, <1>2 DEF GuardianTypeOK, View, Exists
<1>4. ASSUME NEW g \in File \ {f} PROVE View(g)' = View(g)
  BY <1>1, <1>2, <1>4 DEF GuardianTypeOK, View, Exists
<1> QED
  BY <1>1, <1>2, <1>3, <1>4 DEF GuardianTypeOK

\* A path that loses its inode loses its content from sight.
LEMMA NameLost ==
  ASSUME GuardianTypeOK, NEW f \in File, Exists(f), fs' = [fs EXCEPT ![f] = NoInode],
         UNCHANGED data
  PROVE  /\ fs' \in [File -> Inode \cup {NoInode}]
         /\ ~Exists(f)' /\ \A g \in File \ {f} : View(g)' = View(g) /\ Exists(g)' = Exists(g)
BY DEF GuardianTypeOK, View, Exists

\* What there is to see of a path is there.
LEMMA SeenExists ==
  ASSUME GuardianTypeOK, NEW f \in File
  PROVE  Exists(f) <=> View(f) # NoSnap
BY GuardianAssumption DEF GuardianTypeOK, View, Exists

LEMMA WatchesTyped ==
  ASSUME GuardianTypeOK, NEW i, NEW f \in File
  PROVE  /\ WithoutWatch(i) \in [Inode -> File \cup {NoPath}]
         /\ AddWatch(f) => watches' \in [Inode -> File \cup {NoPath}]
BY DEF GuardianTypeOK, WithoutWatch, AddWatch, Exists

LEMMA UnseenTyped ==
  ASSUME GuardianTypeOK, NEW notices, Unseen(notices)
  PROVE  blind' \subseteq File
BY DEF GuardianTypeOK, Unseen

LEMMA SnapTyped ==
  ASSUME GuardianTypeOK, NEW f \in File, TakeSnapshot(f)
  PROVE  snap' \in [File -> Content \cup {NoSnap}] /\ blind' \subseteq File
BY DEF GuardianTypeOK, TakeSnapshot, View, Exists
-----------------------------------------------------------------------------
(* The types.                                                                *)

\* The variables whose types any foreign step may disturb.
ForeignTypes ==
  /\ fs \in [File -> Inode \cup {NoInode}] /\ data \in [Inode -> Content]
  /\ fds \subseteq Inode /\ moved \subseteq Inode
  /\ watches \in [Inode -> File \cup {NoPath}]
  /\ queue \in Seq(Notice) /\ Len(queue) <= QueueSize
  /\ blind \subseteq File /\ ops \in 0 .. MaxOps

LEMMA ForeignTyped ==
  ASSUME GuardianTypeOK, ForeignTypes', UNCHANGED <<guardVars, dirWatch, failed, refreshes>>
  PROVE  GuardianTypeOK'
BY DEF GuardianTypeOK, ForeignTypes, guardVars

\* What Other leaves of the types.
LEMMA OtherTyped ==
  ASSUME GuardianTypeOK, NEW op, Other(op)
  PROVE  ops' \in 0 .. MaxOps /\ UNCHANGED <<guardVars, dirWatch, failed, refreshes>>
BY GuardianAssumption DEF GuardianTypeOK, Other

\* Posting typed notices keeps the channel typed.
LEMMA ForeignQueue ==
  ASSUME GuardianTypeOK, NEW notices \in Seq(Notice), Post(notices)
  PROVE  queue' \in Seq(Notice) /\ Len(queue') <= QueueSize
BY PostKeeps DEF GuardianTypeOK
-----------------------------------------------------------------------------
(* Other processes.                                                          *)

\* A foreign step keeps every file that differs from its snapshot pending or blind,
\* when its notices say Undone or the files it changes are there after it.
LEMMA ForeignClean ==
  ASSUME GuardInv, GuardianTypeOK', NEW notices \in Seq(Notice), Post(notices),
         UNCHANGED <<gpc, current, snap, failed>>, blind \subseteq blind',
         \A f \in File : View(f)' # View(f) =>
            f \in blind' \/ \E n \in 1 .. Len(Posted(notices)) : notices[n][2] = f,
         \/ \A n \in 1 .. Len(notices) : notices[n][1] \in Undone
         \/ \A f \in File : View(f)' # View(f) => Exists(f)'
  PROVE  CleanInv'
<1>1. /\ \A n \in 1 .. Len(queue) : n \in 1 .. Len(queue') /\ queue'[n] = queue[n]
      /\ \A n \in 1 .. Len(Posted(notices)) : \E m \in 1 .. Len(queue') : queue'[m] = notices[n]
      /\ Len(Posted(notices)) <= Len(notices) /\ Len(Posted(notices)) \in Nat
      /\ Len(notices) \in Nat
  BY PostKeeps, PostedPrefix DEF GuardInv, GuardianTypeOK
<1>2. ASSUME NEW f \in File, Known(f), View(f)' # snap[f], f \notin blind' \cup failed
      PROVE  Pending(f)'
  <2>1. CASE View(f)' # View(f)
    <3>1. PICK n \in 1 .. Len(Posted(notices)) : notices[n][2] = f
      BY <1>2, <2>1
    <3>2. PICK m \in 1 .. Len(queue') : queue'[m] = notices[n]
      BY <1>1
    <3>3. n \in 1 .. Len(notices)
      BY <1>1
    <3>4. queue'[m][1] \in Undone \/ Exists(f)'
      BY <2>1, <3>2, <3>3
    <3> QED
      BY <3>1, <3>2, <3>4 DEF Pending, Good
  <2>2. CASE View(f)' = View(f)
    <3>1. Pending(f)
      BY <1>2, <2>2 DEF GuardInv, CleanInv
    <3>2. Exists(f)' <=> Exists(f)
      BY <2>2, SeenExists, GuardianAssumption DEF GuardInv, GuardianTypeOK, View, Exists
    <3>3. CASE \E n \in 1 .. Len(queue) : Good(queue[n], f)
      BY <1>1, <3>2, <3>3 DEF Pending, Good
    <3> QED
      BY <3>1, <3>3 DEF Pending
  <2> QED
    BY <2>1, <2>2
<1> QED
  BY <1>2 DEF GuardInv, CleanInv, Known

\* What Unseen says is what ForeignClean asks for.
LEMMA UnseenBlind ==
  ASSUME NEW notices, Unseen(notices)
  PROVE  /\ blind \subseteq blind'
         /\ \A f \in File : View(f)' # View(f) =>
              f \in blind' \/ \E n \in 1 .. Len(Posted(notices)) : notices[n][2] = f
BY DEF Unseen

LEMMA OpenStep ==
  ASSUME GuardInv, NEW f \in File, Open(f)
  PROVE  GuardInv'
<1>1. GuardianTypeOK'
  BY OtherTyped, ForeignTyped DEF Open, Exists, GuardInv, GuardianTypeOK, ForeignTypes
<1>2. UNCHANGED <<fs, data, gpc, current, snap, queue, blind, failed>>
  BY DEF Open, Other, guardVars
<1>3. CleanInv'
  BY <1>2 DEF GuardInv, CleanInv, Pending, Good, Known, View, Exists
<1> QED
  BY <1>1, <1>3 DEF GuardInv

LEMMA WriteStep ==
  ASSUME GuardInv, NEW i \in Inode, NEW c \in Content, Write(i, c)
  PROVE  GuardInv'
<1> DEFINE name == {f \in File : fs[f] = i}
           notices == SelfNotice(i, "modify")
                        \o (IF name = {} THEN <<>>
                            ELSE DirNotice(CHOOSE f \in name : TRUE, "modify"))
<1>1. GuardianTypeOK /\ "modify" \in Kind
  BY DEF GuardInv, Kind
<1>2. notices \in Seq(Notice)
  <2>1. SelfNotice(i, "modify") \in Seq(Notice)
    BY <1>1, SelfTyped
  <2>2. CASE name = {}
    BY <2>1, <2>2
  <2>3. CASE name # {}
    <3>1. (CHOOSE f \in name : TRUE) \in File
      BY <2>3
    <3>2. DirNotice(CHOOSE f \in name : TRUE, "modify") \in Seq(Notice)
      BY <3>1, <1>1, DirTyped
    <3> QED
      BY <2>1, <3>2, <2>3
  <2> QED
    BY <2>2, <2>3
<1>3. /\ Post(notices) /\ Unseen(notices) /\ Other("open")
      /\ data' = [data EXCEPT ![i] = c] /\ UNCHANGED <<fs, fds, moved, watches>>
  BY DEF Write
<1> HIDE DEF notices
<1>4. GuardianTypeOK'
  <2>1. data' \in [Inode -> Content]
    BY <1>1, <1>3 DEF GuardianTypeOK
  <2>2. queue' \in Seq(Notice) /\ Len(queue') <= QueueSize /\ blind' \subseteq File
    BY <1>1, <1>2, <1>3, ForeignQueue, UnseenTyped
  <2>3. ForeignTypes'
    BY <1>1, <1>3, <2>1, <2>2, OtherTyped DEF GuardianTypeOK, ForeignTypes
  <2> QED
    BY <1>1, <1>3, <2>3, OtherTyped, ForeignTyped
<1>5. \A f \in File : View(f)' # View(f) => Exists(f)'
  BY <1>3 DEF View, Exists
<1>6. UNCHANGED <<gpc, current, snap, failed>>
  BY <1>3 DEF Other, guardVars
<1>7. CleanInv'
  BY <1>2, <1>3, <1>4, <1>5, <1>6, UnseenBlind, ForeignClean
<1> QED
  BY <1>4, <1>7 DEF GuardInv

LEMMA CloseStep ==
  ASSUME GuardInv, NEW i \in Inode, Close(i)
  PROVE  GuardInv'
<1> DEFINE lost == i \notin Named \cup moved
           notices == SelfNotice(i, "modify")
                        \o IF lost THEN SelfNotice(i, "deleteSelf") ELSE <<>>
<1>1. GuardianTypeOK /\ {"modify", "deleteSelf"} \subseteq Kind
  BY DEF GuardInv, Kind
<1>2. notices \in Seq(Notice)
  <2>1. \A k \in {"modify", "deleteSelf"} : SelfNotice(i, k) \in Seq(Notice)
    BY <1>1, SelfTyped
  <2> QED
    BY <2>1
<1>3. /\ Post(notices) /\ fds' = fds \ {i}
      /\ watches' = IF lost THEN [watches EXCEPT ![i] = NoPath] ELSE watches
      /\ UNCHANGED <<fs, data, moved, dirWatch, gpc, todo, current, snap, blind, failed, ops, refreshes>>
  BY DEF Close, guardVars
<1> HIDE DEF notices, lost
<1>4. GuardianTypeOK'
  <2>1. queue' \in Seq(Notice) /\ Len(queue') <= QueueSize
    BY <1>1, <1>2, <1>3, ForeignQueue
  <2>2. watches' \in [Inode -> File \cup {NoPath}]
    BY <1>1, <1>3 DEF GuardianTypeOK
  <2> QED
    BY <1>1, <1>3, <2>1, <2>2 DEF GuardianTypeOK
<1>5. \A f \in File : View(f)' = View(f)
  BY <1>3 DEF View, Exists
<1>6. CleanInv'
  BY <1>2, <1>3, <1>4, <1>5, ForeignClean
<1> QED
  BY <1>4, <1>6 DEF GuardInv

LEMMA ReplaceStep ==
  ASSUME GuardInv, NEW f \in File, NEW c \in Content, Replace(f, c)
  PROVE  GuardInv'
<1> DEFINE notices == LostNotice(fs[f])
<1>1. GuardianTypeOK /\ "create" \in Kind /\ fs[f] \in Inode \cup {NoInode}
  BY DEF GuardInv, Kind, GuardianTypeOK
<1>2. notices \in Seq(Notice)
  BY <1>1, LostTyped
<1>3. /\ Post(notices) /\ Unseen(notices) /\ Other("replace") /\ NewFile(f, c)
      /\ watches' = WithoutWatch(fs[f]) /\ UNCHANGED <<fds, moved>>
  BY DEF Replace
<1> HIDE DEF notices
<1>4. /\ fs' \in [File -> Inode \cup {NoInode}] /\ data' \in [Inode -> Content]
      /\ fs'[f] \in Inode /\ \A g \in File \ {f} : View(g)' = View(g)
  BY <1>1, <1>3, NewFileViews
<1>5. GuardianTypeOK'
  <2>1. queue' \in Seq(Notice) /\ Len(queue') <= QueueSize /\ blind' \subseteq File
    BY <1>1, <1>2, <1>3, ForeignQueue, UnseenTyped
  <2>2. watches' \in [Inode -> File \cup {NoPath}]
    BY <1>1, <1>3, WatchesTyped
  <2>3. ForeignTypes'
    BY <1>1, <1>3, <1>4, <2>1, <2>2, OtherTyped DEF GuardianTypeOK, ForeignTypes
  <2> QED
    BY <1>1, <1>3, <2>3, OtherTyped, ForeignTyped
<1>6. \A g \in File : View(g)' # View(g) => Exists(g)'
  BY <1>4, GuardianAssumption DEF Exists
<1>7. UNCHANGED <<gpc, current, snap, failed>>
  BY <1>3 DEF Other, guardVars
<1>8. CleanInv'
  BY <1>2, <1>3, <1>5, <1>6, <1>7, UnseenBlind, ForeignClean
<1> QED
  BY <1>5, <1>8 DEF GuardInv

LEMMA CreateStep ==
  ASSUME GuardInv, NEW f \in File, Create(f)
  PROVE  GuardInv'
<1> DEFINE notices == DirNotice(f, "create")
<1>1. GuardianTypeOK /\ "create" \in Kind /\ Empty \in Content
  BY GuardianAssumption DEF GuardInv, Kind
<1>2. notices \in Seq(Notice)
  BY <1>1, DirTyped
<1>3. /\ Post(notices) /\ Unseen(notices) /\ Other("create") /\ NewFile(f, Empty)
      /\ fds' = fds \cup {fs'[f]} /\ UNCHANGED <<watches, moved>>
  BY DEF Create
<1> HIDE DEF notices
<1>4. /\ fs' \in [File -> Inode \cup {NoInode}] /\ data' \in [Inode -> Content]
      /\ fs'[f] \in Inode /\ \A g \in File \ {f} : View(g)' = View(g)
  BY <1>1, <1>3, NewFileViews
<1>5. GuardianTypeOK'
  <2>1. queue' \in Seq(Notice) /\ Len(queue') <= QueueSize /\ blind' \subseteq File
    BY <1>1, <1>2, <1>3, ForeignQueue, UnseenTyped
  <2>2. ForeignTypes'
    BY <1>1, <1>3, <1>4, <2>1, OtherTyped DEF GuardianTypeOK, ForeignTypes
  <2> QED
    BY <1>1, <1>3, <2>2, OtherTyped, ForeignTyped
<1>6. \A g \in File : View(g)' # View(g) => Exists(g)'
  BY <1>4, GuardianAssumption DEF Exists
<1>7. UNCHANGED <<gpc, current, snap, failed>>
  BY <1>3 DEF Other, guardVars
<1>8. CleanInv'
  BY <1>2, <1>3, <1>5, <1>6, <1>7, UnseenBlind, ForeignClean
<1> QED
  BY <1>5, <1>8 DEF GuardInv

LEMMA DeleteStep ==
  ASSUME GuardInv, NEW f \in File, Delete(f)
  PROVE  GuardInv'
<1> DEFINE notices == DirNotice(f, "delete") \o LostNotice(fs[f])
<1>1. GuardianTypeOK /\ "delete" \in Kind /\ fs[f] \in Inode \cup {NoInode}
  BY DEF GuardInv, Kind, GuardianTypeOK
<1>2. /\ DirNotice(f, "delete") \in Seq(Notice) /\ LostNotice(fs[f]) \in Seq(Notice)
      /\ notices \in Seq(Notice)
  BY <1>1, DirTyped, LostTyped
<1>3. \A n \in 1 .. Len(notices) : notices[n][1] \in Undone
  <2> SUFFICES ASSUME NEW n \in 1 .. Len(notices) PROVE notices[n][1] \in Undone
    OBVIOUS
  <2>1. notices[n] = IF n <= Len(DirNotice(f, "delete")) THEN DirNotice(f, "delete")[n]
                     ELSE LostNotice(fs[f])[n - Len(DirNotice(f, "delete"))]
    BY <1>2
  <2>2. CASE n <= Len(DirNotice(f, "delete"))
    <3>1. n \in 1 .. Len(DirNotice(f, "delete"))
      BY <1>2, <2>2
    <3> QED
      BY <2>1, <2>2, <3>1, DirKinds DEF Undone
  <2>3. CASE ~(n <= Len(DirNotice(f, "delete")))
    <3>1. n - Len(DirNotice(f, "delete")) \in 1 .. Len(LostNotice(fs[f]))
      BY <1>2, <2>3
    <3> QED
      BY <2>1, <2>3, <3>1, LostKinds DEF Undone
  <2> QED
    BY <2>2, <2>3
<1>4. /\ Post(notices) /\ Unseen(notices) /\ Other("delete")
      /\ Exists(f) /\ fs' = [fs EXCEPT ![f] = NoInode]
      /\ watches' = WithoutWatch(fs[f]) /\ UNCHANGED <<data, fds, moved>>
  BY DEF Delete
<1> HIDE DEF notices
<1>5. GuardianTypeOK'
  <2>1. queue' \in Seq(Notice) /\ Len(queue') <= QueueSize /\ blind' \subseteq File
    BY <1>1, <1>2, <1>4, ForeignQueue, UnseenTyped
  <2>2. watches' \in [Inode -> File \cup {NoPath}] /\ fs' \in [File -> Inode \cup {NoInode}]
    BY <1>1, <1>4, WatchesTyped, NameLost
  <2>3. ForeignTypes'
    BY <1>1, <1>4, <2>1, <2>2, OtherTyped DEF GuardianTypeOK, ForeignTypes
  <2> QED
    BY <1>1, <1>4, <2>3, OtherTyped, ForeignTyped
<1>6. UNCHANGED <<gpc, current, snap, failed>>
  BY <1>4 DEF Other, guardVars
<1>7. CleanInv'
  BY <1>2, <1>3, <1>4, <1>5, <1>6, UnseenBlind, ForeignClean
<1> QED
  BY <1>5, <1>7 DEF GuardInv

LEMMA MoveStep ==
  ASSUME GuardInv, NEW f \in File, Move(f)
  PROVE  GuardInv'
<1> DEFINE notices == SelfNotice(fs[f], "moveSelf")
<1>1. GuardianTypeOK /\ "moveSelf" \in Kind
  BY DEF GuardInv, Kind
<1>2. Exists(f) /\ fs[f] \in Inode
  BY <1>1 DEF Move, Exists, GuardianTypeOK
<1>3. notices \in Seq(Notice)
  BY <1>1, <1>2, SelfTyped
<1>4. \A n \in 1 .. Len(notices) : notices[n][1] \in Undone
  BY SelfKinds DEF Undone
<1>5. /\ Post(notices) /\ Unseen(notices) /\ Other("move")
      /\ fs' = [fs EXCEPT ![f] = NoInode] /\ moved' = moved \cup {fs[f]}
      /\ UNCHANGED <<data, fds, watches>>
  BY DEF Move
<1> HIDE DEF notices
<1>6. GuardianTypeOK'
  <2>1. queue' \in Seq(Notice) /\ Len(queue') <= QueueSize /\ blind' \subseteq File
    BY <1>1, <1>3, <1>5, ForeignQueue, UnseenTyped
  <2>2. fs' \in [File -> Inode \cup {NoInode}]
    BY <1>1, <1>2, <1>5, NameLost
  <2>3. ForeignTypes'
    BY <1>1, <1>2, <1>5, <2>1, <2>2, OtherTyped DEF GuardianTypeOK, ForeignTypes
  <2> QED
    BY <1>1, <1>5, <2>3, OtherTyped, ForeignTyped
<1>7. UNCHANGED <<gpc, current, snap, failed>>
  BY <1>5 DEF Other, guardVars
<1>8. CleanInv'
  BY <1>3, <1>4, <1>5, <1>6, <1>7, UnseenBlind, ForeignClean
<1> QED
  BY <1>6, <1>8 DEF GuardInv

LEMMA DeleteMovedStep ==
  ASSUME GuardInv, NEW i \in Inode, DeleteMoved(i)
  PROVE  GuardInv'
<1> DEFINE notices == SelfNotice(i, "deleteSelf")
<1>1. GuardianTypeOK /\ "deleteSelf" \in Kind
  BY DEF GuardInv, Kind
<1>2. notices \in Seq(Notice)
  BY <1>1, SelfTyped
<1>3. /\ Post(notices) /\ Other("move") /\ moved' = moved \ {i}
      /\ watches' = [watches EXCEPT ![i] = NoPath] /\ UNCHANGED <<fs, data, fds, blind>>
  BY DEF DeleteMoved
<1> HIDE DEF notices
<1>4. GuardianTypeOK'
  <2>1. queue' \in Seq(Notice) /\ Len(queue') <= QueueSize
    BY <1>1, <1>2, <1>3, ForeignQueue
  <2>2. watches' \in [Inode -> File \cup {NoPath}]
    BY <1>1, <1>3 DEF GuardianTypeOK
  <2>3. ForeignTypes'
    BY <1>1, <1>3, <2>1, <2>2, OtherTyped DEF GuardianTypeOK, ForeignTypes
  <2> QED
    BY <1>1, <1>3, <2>3, OtherTyped, ForeignTyped
<1>5. \A f \in File : View(f)' = View(f)
  BY <1>3 DEF View, Exists
<1>6. UNCHANGED <<gpc, current, snap, failed>>
  BY <1>3 DEF Other, guardVars
<1>7. CleanInv'
  BY <1>2, <1>3, <1>4, <1>5, <1>6, ForeignClean
<1> QED
  BY <1>4, <1>7 DEF GuardInv
-----------------------------------------------------------------------------
(* The Guardian.                                                             *)

\* handleFSEvent takes one event; the others stay good.
LEMMA Handled ==
  ASSUME GuardInv, NEW f \in File, NEW kind \in Kind,
         NEW to \in {"restore", "rewatch", "idle"}, Handle(kind, f, to)
  PROVE  /\ UNCHANGED <<fsVars, dirWatch, todo, failed, ops, refreshes>>
         /\ \A g \in File : View(g)' = View(g)
         /\ queue' \in Seq(Notice) /\ Len(queue') <= QueueSize
         /\ current' = <<kind, f>> /\ current' \in Notice /\ gpc' = to /\ gpc = "idle"
         /\ \A g \in File : Pending(g) => Pending(g)' \/ (g = f /\ (kind \in Undone \/ Exists(f)))
<1>1. /\ gpc = "idle" /\ gpc' = to /\ queue # <<>> /\ Head(queue) = <<kind, f>>
      /\ queue' = Tail(queue) /\ current' = <<kind, f>>
      /\ UNCHANGED <<fsVars, dirWatch, todo, failed, ops, refreshes>>
  BY DEF Handle
<1>2. queue \in Seq(Notice) /\ Len(queue) <= QueueSize /\ QueueSize \in Nat
  BY GuardianAssumption DEF GuardInv, GuardianTypeOK
<1>3. /\ queue' \in Seq(Notice) /\ Len(queue') = Len(queue) - 1
      /\ Len(queue') <= QueueSize
  BY <1>1, <1>2
<1>4. \A n \in 1 .. Len(queue) : n = 1 \/ (n - 1 \in 1 .. Len(queue') /\ queue'[n - 1] = queue[n])
  BY <1>1, <1>2
<1>5. queue[1] = <<kind, f>>
  BY <1>1, <1>2
<1>6. \A g \in File : View(g)' = View(g) /\ Exists(g)' = Exists(g)
  BY <1>1 DEF fsVars, View, Exists
<1>7. ASSUME NEW g \in File, Pending(g)
      PROVE  Pending(g)' \/ (g = f /\ (kind \in Undone \/ Exists(f)))
  <2>1. PICK n \in 1 .. Len(queue) : Good(queue[n], g)
    BY <1>1, <1>7 DEF Pending
  <2>2. CASE n = 1
    BY <1>5, <2>1, <2>2 DEF Good
  <2>3. CASE n # 1
    <3>1. n - 1 \in 1 .. Len(queue') /\ queue'[n - 1] = queue[n]
      BY <1>4, <2>3
    <3> QED
      BY <3>1, <2>1, <1>6 DEF Pending, Good
  <2> QED
    BY <2>2, <2>3
<1>8. current' \in Notice
  BY <1>1 DEF Notice
<1> QED
  BY <1>1, <1>2, <1>3, <1>6, <1>7, <1>8

LEMMA HandleSelfStep ==
  ASSUME GuardInv, NEW f \in File, HandleSelf(f)
  PROVE  GuardInv'
<1>1. PICK kind \in {"deleteSelf", "moveSelf"} :
        Handle(kind, f, IF Known(f) THEN "restore" ELSE "rewatch") /\ UNCHANGED <<watches, snap, blind>>
  BY DEF HandleSelf
<1>2. kind \in Kind
  BY DEF Kind
<1>3. (IF Known(f) THEN "restore" ELSE "rewatch") \in {"restore", "rewatch", "idle"}
  OBVIOUS
<1>4. GuardianTypeOK'
  BY <1>1, <1>2, <1>3, Handled DEF GuardInv, GuardianTypeOK, fsVars
<1>5. CleanInv'
  BY <1>1, <1>2, <1>3, Handled DEF GuardInv, CleanInv, Known, Pending
<1> QED
  BY <1>4, <1>5 DEF GuardInv

LEMMA HandleDeleteStep ==
  ASSUME GuardInv, NEW f \in File, HandleDelete(f)
  PROVE  GuardInv'
<1>1. Handle("delete", f, IF Known(f) THEN "restore" ELSE "idle") /\ UNCHANGED <<watches, snap, blind>>
  BY DEF HandleDelete
<1>2. "delete" \in Kind
  BY DEF Kind
<1>3. (IF Known(f) THEN "restore" ELSE "idle") \in {"restore", "rewatch", "idle"}
  OBVIOUS
<1>4. GuardianTypeOK'
  BY <1>1, <1>2, <1>3, Handled DEF GuardInv, GuardianTypeOK, fsVars
<1>5. CleanInv'
  BY <1>1, <1>2, <1>3, Handled DEF GuardInv, CleanInv, Known, Pending
<1> QED
  BY <1>4, <1>5 DEF GuardInv

\* A new snapshot of f is as f is; the others keep theirs.
LEMMA Snapped ==
  ASSUME GuardianTypeOK, NEW f \in File, TakeSnapshot(f)
  PROVE  /\ Exists(f) => snap'[f] = View(f)
         /\ ~Exists(f) => UNCHANGED <<snap, blind>>
         /\ \A g \in File \ {f} : snap'[g] = snap[g] /\ (g \in blind => g \in blind')
BY DEF GuardianTypeOK, TakeSnapshot

LEMMA HandleCreateStep ==
  ASSUME GuardInv, NEW f \in File, HandleCreate(f)
  PROVE  GuardInv'
<1>1. /\ Handle("create", f, IF Exists(f) THEN "rewatch" ELSE "idle")
      /\ TakeSnapshot(f) /\ UNCHANGED watches
  BY DEF HandleCreate
<1>2. "create" \in Kind /\ "create" \notin Undone /\ GuardianTypeOK
  BY DEF Kind, Undone, GuardInv
<1>3. (IF Exists(f) THEN "rewatch" ELSE "idle") \in {"restore", "rewatch", "idle"}
  OBVIOUS
<1>4. GuardianTypeOK'
  BY <1>1, <1>2, <1>3, Handled, SnapTyped DEF GuardianTypeOK, fsVars
<1>5. CleanInv'
  BY <1>1, <1>2, <1>3, Handled, Snapped DEF GuardInv, CleanInv, Known
<1> QED
  BY <1>4, <1>5 DEF GuardInv

LEMMA HandleModifyStep ==
  ASSUME GuardInv, NEW f \in File, HandleModify(f)
  PROVE  GuardInv'
<1> DEFINE to == IF Known(f) /\ Exists(f) /\ View(f) # snap[f] THEN "restore" ELSE "idle"
<1>1. /\ Handle("modify", f, to) /\ UNCHANGED watches
      /\ IF Known(f) THEN UNCHANGED <<snap, blind>> ELSE TakeSnapshot(f)
  BY DEF HandleModify
<1>2. "modify" \in Kind /\ "modify" \notin Undone /\ GuardianTypeOK
  BY DEF Kind, Undone, GuardInv
<1>3. to \in {"restore", "rewatch", "idle"}
  OBVIOUS
<1>4. to = "restore" <=> Known(f) /\ Exists(f) /\ View(f) # snap[f]
  OBVIOUS
<1> HIDE DEF to
<1>5. GuardianTypeOK'
  BY <1>1, <1>2, <1>3, Handled, SnapTyped DEF GuardianTypeOK, fsVars
<1>6. CASE Known(f)
  <2>1. CleanInv'
    BY <1>1, <1>2, <1>3, <1>4, <1>6, Handled DEF GuardInv, CleanInv, Known, Pending
  <2> QED
    BY <1>5, <2>1 DEF GuardInv
<1>7. CASE ~Known(f)
  <2>1. CleanInv'
    BY <1>1, <1>2, <1>3, <1>4, <1>7, Handled, Snapped DEF GuardInv, CleanInv, Known
  <2> QED
    BY <1>5, <2>1 DEF GuardInv
<1> QED
  BY <1>6, <1>7

LEMMA RestoreStep ==
  ASSUME GuardInv, Restore
  PROVE  GuardInv'
<1>1. GuardianTypeOK /\ CleanInv /\ gpc = "restore"
  BY DEF GuardInv, Restore
<1> PICK f \in File : f = current[2]
  BY <1>1 DEF CleanInv, Notice
<1> DEFINE notices == LostNotice(fs[f])
<1>2. current \in Notice /\ snap[f] \in Content /\ fs[f] \in Inode \cup {NoInode}
  BY <1>1 DEF CleanInv, Known, GuardianTypeOK
<1>3. /\ NewFile(f, snap[f]) /\ Post(notices) /\ watches' = WithoutWatch(fs[f])
      /\ blind' = blind \ {f} /\ failed' = failed \ {f}
      /\ gpc' \in {"idle", "rewatch"}
      /\ UNCHANGED <<fds, moved, dirWatch, todo, current, snap, ops, refreshes>>
  BY DEF Restore
<1>4. notices \in Seq(Notice)
  BY <1>1, <1>2, LostTyped
<1> HIDE DEF notices
<1>5. /\ fs' \in [File -> Inode \cup {NoInode}] /\ data' \in [Inode -> Content]
      /\ View(f)' = snap[f] /\ \A g \in File \ {f} : View(g)' = View(g)
  BY <1>1, <1>2, <1>3, NewFileViews
<1>6. GuardianTypeOK'
  <2>1. queue' \in Seq(Notice) /\ Len(queue') <= QueueSize
    BY <1>1, <1>3, <1>4, ForeignQueue
  <2>2. watches' \in [Inode -> File \cup {NoPath}]
    BY <1>1, <1>2, <1>3, WatchesTyped
  <2> QED
    BY <1>1, <1>3, <1>5, <2>1, <2>2 DEF GuardianTypeOK
<1>7. ASSUME NEW g \in File, Known(g), View(g)' # snap[g], g \notin blind' \cup failed'
      PROVE  Pending(g)'
  <2>1. g # f
    BY <1>5, <1>7
  <2>2. View(g)' = View(g) /\ Pending(g)
    BY <1>1, <1>3, <1>5, <1>7, <2>1 DEF CleanInv
  <2>3. PICK n \in 1 .. Len(queue) : Good(queue[n], g)
    BY <2>1, <2>2 DEF Pending
  <2>4. n \in 1 .. Len(queue') /\ queue'[n] = queue[n]
    BY <1>1, <1>3, <1>4, PostKeeps DEF GuardianTypeOK
  <2>5. Exists(g) => Exists(g)'
    BY <1>1, <1>6, <2>2, SeenExists, GuardianAssumption DEF View, Exists, GuardianTypeOK
  <2> QED
    BY <2>3, <2>4, <2>5 DEF Pending, Good
<1>8. CleanInv'
  BY <1>2, <1>3, <1>7 DEF CleanInv, Known
<1> QED
  BY <1>6, <1>8 DEF GuardInv

\* The remaining steps leave files and events alone.
LEMMA QuietSteps ==
  ASSUME GuardInv, UNCHANGED <<fsVars, queue, ops>>, GuardianTypeOK',
         gpc # "restore", gpc' # "restore", failed' = failed,
         gpc' \in {"rewatch", "retake"} => current' \in Notice,
         \/ UNCHANGED <<snap, blind>>
         \/ \E f \in File : TakeSnapshot(f)
  PROVE  GuardInv'
<1>1. GuardianTypeOK /\ CleanInv
  BY DEF GuardInv
<1>2. \A f \in File : View(f)' = View(f) /\ Exists(f)' = Exists(f) /\ (Pending(f) => Pending(f)')
  BY DEF fsVars, View, Exists, Pending, Good
<1>3. CASE UNCHANGED <<snap, blind>>
  <2>1. CleanInv'
    BY <1>1, <1>2, <1>3 DEF CleanInv, Known
  <2> QED
    BY <2>1 DEF GuardInv
<1>4. ASSUME NEW f \in File, TakeSnapshot(f)
      PROVE  GuardInv'
  <2>1. CleanInv'
    BY <1>1, <1>2, <1>4, Snapped DEF CleanInv, Known
  <2> QED
    BY <2>1 DEF GuardInv
<1> QED
  BY <1>3, <1>4

LEMMA RestoreFailsStep ==
  ASSUME GuardInv, RestoreFails
  PROVE  GuardInv'
<1>1. /\ gpc' = "idle" /\ failed' = failed \cup {current[2]} /\ gpc = "restore"
      /\ UNCHANGED <<fsVars, watchVars, todo, current, snap, blind, ops, refreshes>>
  BY DEF RestoreFails
<1>2. current \in Notice /\ GuardianTypeOK /\ CleanInv
  BY <1>1 DEF GuardInv, CleanInv
<1>3. current[2] \in File
  BY <1>2 DEF Notice
<1>4. GuardianTypeOK'
  BY <1>1, <1>2, <1>3 DEF GuardianTypeOK, fsVars, watchVars
<1>5. CleanInv'
  BY <1>1, <1>2 DEF CleanInv, fsVars, watchVars, Known, View, Exists, Pending, Good
<1> QED
  BY <1>4, <1>5 DEF GuardInv

LEMMA StartupSteps ==
  ASSUME GuardInv,
         StartWatching \/ StartLoop \/ \E f \in File : FirstSnapshot(f) \/ FirstWatch(f)
  PROVE  GuardInv'
<1>1. GuardianTypeOK /\ WatchDir \in BOOLEAN /\ Paths \subseteq File
  BY GuardianAssumption DEF GuardInv
<1>2. CASE StartWatching
  <2>1. GuardianTypeOK'
    BY <1>1, <1>2 DEF StartWatching, GuardianTypeOK, fsVars
  <2> QED
    BY <1>2, <2>1, QuietSteps DEF StartWatching
<1>3. CASE StartLoop
  <2>1. GuardianTypeOK'
    BY <1>1, <1>3 DEF StartLoop, GuardianTypeOK, fsVars, watchVars
  <2> QED
    BY <1>3, <2>1, QuietSteps DEF StartLoop, watchVars
<1>4. ASSUME NEW f \in File, FirstSnapshot(f)
      PROVE  GuardInv'
  <2>1. GuardianTypeOK'
    BY <1>1, <1>4, SnapTyped DEF FirstSnapshot, GuardianTypeOK, fsVars, watchVars
  <2> QED
    BY <1>4, <2>1, QuietSteps DEF FirstSnapshot, watchVars
<1>5. ASSUME NEW f \in File, FirstWatch(f)
      PROVE  GuardInv'
  <2>1. GuardianTypeOK'
    BY <1>1, <1>5, WatchesTyped DEF FirstWatch, GuardianTypeOK, fsVars
  <2> QED
    BY <1>5, <2>1, QuietSteps DEF FirstWatch
<1> QED
  BY <1>2, <1>3, <1>4, <1>5

LEMMA LoopSteps ==
  ASSUME GuardInv,
         Rewatch \/ RefreshStart \/ Retake \/ RefreshEnd \/ \E f \in File : RefreshHash(f)
  PROVE  GuardInv'
<1>1. GuardianTypeOK /\ MaxRefresh \in Nat
  BY GuardianAssumption DEF GuardInv
<1>2. gpc \in {"rewatch", "retake"} => current \in Notice /\ current[2] \in File
  BY DEF GuardInv, CleanInv, Notice
<1>3. CASE Rewatch
  <2>1. GuardianTypeOK'
    BY <1>1, <1>2, <1>3, WatchesTyped DEF Rewatch, GuardianTypeOK, fsVars
  <2> QED
    BY <1>3, <2>1, QuietSteps DEF Rewatch
<1>4. CASE RefreshStart
  <2>1. GuardianTypeOK'
    BY <1>1, <1>4 DEF RefreshStart, GuardianTypeOK, fsVars, watchVars
  <2> QED
    BY <1>4, <2>1, QuietSteps DEF RefreshStart, watchVars
<1>5. CASE Retake
  <2>1. GuardianTypeOK'
    BY <1>1, <1>2, <1>5, SnapTyped DEF Retake, GuardianTypeOK, fsVars, watchVars
  <2> QED
    BY <1>2, <1>5, <2>1, QuietSteps DEF Retake, watchVars
<1>6. CASE RefreshEnd
  <2>1. GuardianTypeOK'
    BY <1>1, <1>6 DEF RefreshEnd, GuardianTypeOK, fsVars, watchVars
  <2> QED
    BY <1>6, <2>1, QuietSteps DEF RefreshEnd, watchVars
<1>7. ASSUME NEW f \in File, RefreshHash(f)
      PROVE  GuardInv'
  <2>1. <<"modify", f>> \in Notice
    BY DEF Notice, Kind
  <2>2. GuardianTypeOK'
    BY <1>1, <1>7, <2>1 DEF RefreshHash, GuardianTypeOK, fsVars, watchVars
  <2>3. gpc' \in {"retake", "refresh"} /\ gpc = "refresh"
    BY <1>7 DEF RefreshHash
  <2> QED
    BY <1>7, <2>1, <2>2, <2>3, QuietSteps DEF RefreshHash, watchVars
<1> QED
  BY <1>3, <1>4, <1>5, <1>6, <1>7

LEMMA GuardInit == Init => GuardInv
<1> SUFFICES ASSUME Init PROVE GuardInv
  OBVIOUS
<1>1. FirstInode \in [File -> Inode]
  BY GuardianAssumption DEF FirstInode
<1>2. GuardianTypeOK
  <2>1. PICK present \in SUBSET File, c \in Content \ {Empty} :
          /\ fs = [f \in File |-> IF f \in present THEN FirstInode[f] ELSE NoInode]
          /\ data = [i \in Inode |-> c]
    BY DEF Init
  <2>2. fs \in [File -> Inode \cup {NoInode}] /\ data \in [Inode -> Content]
    BY <1>1, <2>1
  <2>3. queue \in Seq(Notice) /\ Len(queue) <= QueueSize
    BY GuardianAssumption DEF Init
  <2>4. 0 \in 0 .. MaxOps /\ 0 \in 0 .. MaxRefresh
    BY GuardianAssumption
  <2> QED
    BY <2>2, <2>3, <2>4, GuardianAssumption DEF Init, GuardianTypeOK
<1>3. CleanInv
  BY DEF Init, CleanInv, Known
<1> QED
  BY <1>2, <1>3 DEF GuardInv

LEMMA GuardStep == GuardInv /\ [Next]_vars => GuardInv'
<1> SUFFICES ASSUME GuardInv, [Next]_vars PROVE GuardInv'
  OBVIOUS
<1>1. CASE Others
  BY <1>1, OpenStep, DeleteStep, MoveStep, CreateStep, ReplaceStep, CloseStep, DeleteMovedStep,
     WriteStep DEF Others
<1>2. CASE Guard
  BY <1>2, StartupSteps, LoopSteps, HandleSelfStep, HandleDeleteStep, HandleCreateStep,
     HandleModifyStep, RestoreStep, RestoreFailsStep DEF Guard
<1>3. CASE UNCHANGED vars
  BY <1>3 DEF vars, fsVars, watchVars, guardVars, GuardInv, GuardianTypeOK, CleanInv, Pending,
              Good, Known, View, Exists
<1> QED
  BY <1>1, <1>2, <1>3 DEF Next

\* Files, inodes, watches, the channel of the watcher and the snapshots keep their
\* types, and the channel its size (readLoop, handleFSEvent).
THEOREM GuardianTypeCorrect == Spec => []GuardianTypeOK
<1>1. GuardInv => GuardianTypeOK
  BY DEF GuardInv
<1> QED
  BY <1>1, GuardInit, GuardStep, PTL DEF Spec

\* A Guardian that has no event left has every file of its snapshots as it was, but
\* those of which no event told it and those it could not restore (handleFSEvent).
THEOREM QuietMeansClean == Spec => []QuietIsClean
<1>1. GuardInv => QuietIsClean
  <2> SUFFICES ASSUME GuardInv, gpc = "idle", queue = <<>>, NEW f \in File,
                      Known(f), View(f) # snap[f], f \notin blind \cup failed
               PROVE  FALSE
    BY DEF QuietIsClean
  <2>1. Pending(f)
    BY DEF GuardInv, CleanInv
  <2> QED
    BY <2>1 DEF Pending
<1> QED
  BY <1>1, GuardInit, GuardStep, PTL DEF Spec
=============================================================================
