------------------------------ MODULE Guardian ------------------------------
(***************************************************************************)
(* The Guardian angel (internal/angels/guardian/guardian.go) on the        *)
(* inotify watcher (pkg/linux/inotify.go) and the file system: it takes a  *)
(* snapshot of every watched path, then watches, and answers each event by *)
(* comparing the path with its snapshot and writing the snapshot back.     *)
(*                                                                         *)
(* A watch is on an inode, a snapshot belongs to a path, and a restore is  *)
(* a rename that gives the path another inode.  Other processes open,      *)
(* write, replace, move, delete and create files between any two steps of  *)
(* the Guardian.  Temporary files of a restore and events that no branch   *)
(* of handleFSEvent takes (IN_ATTRIB, IN_MOVED_TO) are left out.           *)
(***************************************************************************)
EXTENDS Naturals, Sequences, FiniteSets

CONSTANTS
  File,       \* paths of files, all in one directory
  Paths,      \* Config.Paths: the files watched by their path
  WatchDir,   \* Config.Paths names the directory too
  Inode,      \* bound: inodes at a time
  Content,    \* contents of a file
  Empty,      \* the content of a file just created
  Ops,        \* what other processes do in this instance
  MaxOps,     \* bound: how often
  MaxRefresh, \* bound: ticks of the snapshot timer
  QueueSize,  \* events the watcher's channel holds (512)
  Faults,     \* a restore may fail
  NoInode, NoPath, NoSnap

ASSUME GuardianAssumption ==
  /\ Paths \subseteq File /\ WatchDir \in BOOLEAN /\ Faults \in BOOLEAN
  /\ Empty \in Content /\ NoSnap \notin Content
  /\ NoInode \notin Inode /\ NoPath \notin File
  /\ \E inode \in [File -> Inode] : \A f, g \in File : inode[f] = inode[g] => f = g
  /\ Ops \subseteq {"open", "replace", "delete", "move", "create"}
  /\ MaxOps \in Nat /\ MaxRefresh \in Nat /\ QueueSize \in Nat \ {0}

Kind == {"modify", "create", "delete", "deleteSelf", "moveSelf"}
Notice == Kind \X File

VARIABLES
  fs,         \* path -> its inode
  data,       \* inode -> content
  fds,        \* inodes that others have open for writing
  moved,      \* inodes that have been moved out of File and still exist
  watches,    \* inode -> the path Watcher.watches has for its watch
  dirWatch,   \* the directory is watched
  queue,      \* Watcher.Events
  gpc,        \* the Guardian: "snap", "watch", "idle", "restore", "rewatch",
              \* "refresh", "retake"
  todo,       \* paths still to do in "snap", "watch" and "refresh"
  current,    \* the event handleFSEvent is at, or the path of refreshSnapshots
  snap,       \* Guardian.snapshots
  blind,      \* paths that changed and no event says so, since the last restore
  failed,     \* paths whose last restore failed
  ops, refreshes

fsVars == <<fs, data, fds, moved>>
watchVars == <<watches, dirWatch, queue>>
guardVars == <<gpc, todo, current, snap>>
vars == <<fsVars, watchVars, guardVars, blind, failed, ops, refreshes>>

GuardianTypeOK ==
  /\ fs \in [File -> Inode \cup {NoInode}]
  /\ data \in [Inode -> Content]
  /\ fds \subseteq Inode /\ moved \subseteq Inode
  /\ watches \in [Inode -> File \cup {NoPath}] /\ dirWatch \in BOOLEAN
  /\ queue \in Seq(Notice) /\ Len(queue) <= QueueSize
  /\ gpc \in {"snap", "watch", "idle", "restore", "rewatch", "refresh", "retake"}
  /\ todo \subseteq File
  /\ current \in Notice \cup {<<>>}
  /\ snap \in [File -> Content \cup {NoSnap}]
  /\ blind \subseteq File /\ failed \subseteq File
  /\ ops \in 0 .. MaxOps /\ refreshes \in 0 .. MaxRefresh

Exists(f) == fs[f] # NoInode
View(f) == IF Exists(f) THEN data[fs[f]] ELSE NoSnap
Known(f) == snap[f] # NoSnap

\* Every file of Paths exists when the Guardian starts; the others need not.
FirstInode == CHOOSE inode \in [File -> Inode] :
                \A f, g \in File : inode[f] = inode[g] => f = g

Init ==
  /\ \E present \in SUBSET File, c \in Content \ {Empty} :
       /\ Paths \subseteq present
       /\ fs = [f \in File |-> IF f \in present THEN FirstInode[f] ELSE NoInode]
       /\ data = [i \in Inode |-> c]
  /\ fds = {} /\ moved = {}
  /\ watches = [i \in Inode |-> NoPath] /\ dirWatch = FALSE /\ queue = <<>>
  /\ gpc = "snap" /\ todo = Paths /\ current = <<>>
  /\ snap = [f \in File |-> NoSnap]
  /\ blind = {} /\ failed = {} /\ ops = 0 /\ refreshes = 0
-----------------------------------------------------------------------------
(* The kernel and the watcher's readLoop.                                    *)

Named == {fs[f] : f \in File}
Free == Inode \ (Named \cup fds \cup moved)

\* f becomes the name of a new inode.
NewFile(f, c) ==
  /\ Free # {}
  /\ LET i == CHOOSE j \in Free : TRUE
     IN  fs' = [fs EXCEPT ![f] = i] /\ data' = [data EXCEPT ![i] = c]

\* parseEvents: each event in its turn goes into the channel, or is dropped when
\* the channel is full.
Room == QueueSize - Len(queue)

\* No event is ever dropped.
PostedAll(notices) == notices

Posted(notices) == IF Len(notices) <= Room THEN notices ELSE SubSeq(notices, 1, Room)
Post(notices) == queue' = queue \o Posted(notices)

\* A change of f that no posted event names is not seen.
Unseen(notices) ==
  blind' = blind \cup
    {f \in File : View(f)' # View(f)
                    /\ \A n \in 1 .. Len(Posted(notices)) : notices[n][2] # f}

\* The events of an inode: under the path of its own watch, and under its name.
SelfNotice(i, kind) == IF watches[i] = NoPath THEN <<>> ELSE <<<<kind, watches[i]>>>>
DirNotice(f, kind) == IF dirWatch THEN <<<<kind, f>>>> ELSE <<>>

\* i loses its name.  Unless it is open it is destroyed, and its watch with it.
Gone(i) == i # NoInode /\ i \notin fds
LostNotice(i) == IF Gone(i) THEN SelfNotice(i, "deleteSelf") ELSE <<>>
WithoutWatch(i) == IF Gone(i) THEN [watches EXCEPT ![i] = NoPath] ELSE watches
-----------------------------------------------------------------------------
(* Other processes.                                                          *)

Other(op) ==
  /\ op \in Ops /\ ops < MaxOps /\ ops' = ops + 1
  /\ UNCHANGED <<guardVars, dirWatch, failed, refreshes>>

Open(f) ==
  /\ Other("open")
  /\ Exists(f) /\ fds' = fds \cup {fs[f]}
  /\ UNCHANGED <<fs, data, moved, watches, queue, blind>>

Write(i, c) ==
  /\ Other("open")
  /\ i \in fds /\ data' = [data EXCEPT ![i] = c] /\ data[i] # c
  /\ LET name == {f \in File : fs[f] = i}
         notices == SelfNotice(i, "modify")
                      \o (IF name = {} THEN <<>>
                          ELSE DirNotice(CHOOSE f \in name : TRUE, "modify"))
     IN  Post(notices) /\ UNCHANGED fs /\ Unseen(notices)
  /\ UNCHANGED <<fds, moved, watches>>

\* IN_CLOSE_WRITE; the last close of a file without a name destroys it.
Close(i) ==
  /\ i \in fds /\ fds' = fds \ {i}
  /\ LET lost == i \notin Named \cup moved
     IN  /\ Post(SelfNotice(i, "modify")
                   \o IF lost THEN SelfNotice(i, "deleteSelf") ELSE <<>>)
         /\ watches' = IF lost THEN [watches EXCEPT ![i] = NoPath] ELSE watches
  /\ UNCHANGED <<fs, data, moved, dirWatch, guardVars, blind, failed, ops, refreshes>>

\* A new file is renamed over f.
Replace(f, c) ==
  /\ Other("replace")
  /\ NewFile(f, c)
  /\ Post(LostNotice(fs[f])) /\ Unseen(LostNotice(fs[f]))
  /\ watches' = WithoutWatch(fs[f])
  /\ UNCHANGED <<fds, moved>>

Delete(f) ==
  /\ Other("delete")
  /\ Exists(f) /\ fs' = [fs EXCEPT ![f] = NoInode]
  /\ LET notices == DirNotice(f, "delete") \o LostNotice(fs[f])
     IN  Post(notices) /\ UNCHANGED data /\ Unseen(notices)
  /\ watches' = WithoutWatch(fs[f])
  /\ UNCHANGED <<fds, moved>>

\* The watch goes with the inode and keeps the path.
Move(f) ==
  /\ Other("move")
  /\ Exists(f) /\ fs' = [fs EXCEPT ![f] = NoInode]
  /\ moved' = moved \cup {fs[f]}
  /\ Post(SelfNotice(fs[f], "moveSelf")) /\ UNCHANGED data
  /\ Unseen(SelfNotice(fs[f], "moveSelf"))
  /\ UNCHANGED <<fds, watches>>

DeleteMoved(i) ==
  /\ Other("move")
  /\ i \in moved \ fds /\ moved' = moved \ {i}
  /\ Post(SelfNotice(i, "deleteSelf"))
  /\ watches' = [watches EXCEPT ![i] = NoPath]
  /\ UNCHANGED <<fs, data, fds, blind>>

\* A file is created empty, its creator keeps it open.
Create(f) ==
  /\ Other("create")
  /\ ~Exists(f)
  /\ NewFile(f, Empty) /\ fds' = fds \cup {fs'[f]}
  /\ Post(DirNotice(f, "create")) /\ Unseen(DirNotice(f, "create"))
  /\ UNCHANGED <<moved, watches>>

Others ==
  \/ \E f \in File : \/ Open(f) \/ Delete(f) \/ Move(f) \/ Create(f)
                     \/ \E c \in Content \ {Empty} : Replace(f, c)
  \/ \E i \in Inode : Close(i) \/ DeleteMoved(i) \/ \E c \in Content : Write(i, c)
-----------------------------------------------------------------------------
(* The Guardian.                                                             *)

\* takeSnapshot; it fails for a path that does not exist.
TakeSnapshot(f) ==
  IF Exists(f) THEN snap' = [snap EXCEPT ![f] = View(f)] /\ blind' = blind \ {f}
               ELSE UNCHANGED <<snap, blind>>

\* AddWatch; it fails for a path that does not exist.
AddWatch(f) == watches' = IF Exists(f) THEN [watches EXCEPT ![fs[f]] = f] ELSE watches

\* run: all snapshots ...
FirstSnapshot(f) ==
  /\ gpc = "snap" /\ f \in todo
  /\ TakeSnapshot(f)
  /\ todo' = todo \ {f}
  /\ UNCHANGED <<fsVars, watchVars, gpc, current, failed, ops, refreshes>>

\* ... then all watches.
StartWatching ==
  /\ gpc = "snap" /\ todo = {}
  /\ gpc' = "watch" /\ todo' = Paths
  /\ dirWatch' = WatchDir
  /\ UNCHANGED <<fsVars, watches, queue, current, snap, blind, failed, ops, refreshes>>

FirstWatch(f) ==
  /\ gpc = "watch" /\ f \in todo
  /\ AddWatch(f)
  /\ todo' = todo \ {f}
  /\ UNCHANGED <<fsVars, dirWatch, queue, gpc, current, snap, blind, failed, ops, refreshes>>

StartLoop ==
  /\ gpc = "watch" /\ todo = {}
  /\ gpc' = "idle"
  /\ UNCHANGED <<fsVars, watchVars, todo, current, snap, blind, failed, ops, refreshes>>

\* handleFSEvent gets the next event and decides.
Handle(kind, f, to) ==
  /\ gpc = "idle" /\ queue # <<>> /\ Head(queue) = <<kind, f>>
  /\ queue' = Tail(queue)
  /\ current' = <<kind, f>>
  /\ gpc' = to
  /\ UNCHANGED <<fsVars, dirWatch, todo, failed, ops, refreshes>>

\* Adds the watch and forgets the restore.
HandleSelfRewatches(f) ==
  \E kind \in {"deleteSelf", "moveSelf"} :
    Handle(kind, f, "rewatch") /\ UNCHANGED <<watches, snap, blind>>

\* IN_DELETE_SELF, IN_MOVE_SELF
HandleSelf(f) ==
  \E kind \in {"deleteSelf", "moveSelf"} :
    Handle(kind, f, IF Known(f) THEN "restore" ELSE "rewatch")
      /\ UNCHANGED <<watches, snap, blind>>

\* IN_DELETE
HandleDelete(f) ==
  /\ Handle("delete", f, IF Known(f) THEN "restore" ELSE "idle")
  /\ UNCHANGED <<watches, snap, blind>>

\* IN_CREATE
HandleCreate(f) ==
  /\ Handle("create", f, IF Exists(f) THEN "rewatch" ELSE "idle")
  /\ TakeSnapshot(f)
  /\ UNCHANGED watches

\* Compares with the snapshot, and restores only what is unknown.
HandleModifySwapped(f) ==
  /\ Handle("modify", f, IF Known(f) /\ Exists(f) /\ View(f) = snap[f] THEN "restore" ELSE "idle")
  /\ IF Known(f) THEN UNCHANGED <<snap, blind>> ELSE TakeSnapshot(f)
  /\ UNCHANGED watches

\* IN_MODIFY, IN_CLOSE_WRITE
HandleModify(f) ==
  /\ Handle("modify", f, IF Known(f) /\ Exists(f) /\ View(f) # snap[f] THEN "restore" ELSE "idle")
  /\ IF Known(f) THEN UNCHANGED <<snap, blind>> ELSE TakeSnapshot(f)
  /\ UNCHANGED watches

\* restoreFromSnapshot: the rename gives the path a new inode.
Restore ==
  /\ gpc = "restore"
  /\ LET f == current[2]
     IN  /\ NewFile(f, snap[f])
         /\ Post(LostNotice(fs[f]))
         /\ watches' = WithoutWatch(fs[f])
         /\ blind' = blind \ {f} /\ failed' = failed \ {f}
  /\ gpc' = IF current[1] = "modify" THEN "idle" ELSE "rewatch"
  /\ UNCHANGED <<fds, moved, dirWatch, todo, current, snap, ops, refreshes>>

\* No restore: handleFSEvent returns, also without a new watch.
RestoreFails ==
  /\ Faults /\ gpc = "restore"
  /\ gpc' = "idle"
  /\ failed' = failed \cup {current[2]}
  /\ UNCHANGED <<fsVars, watchVars, todo, current, snap, blind, ops, refreshes>>

Rewatch ==
  /\ gpc = "rewatch"
  /\ gpc' = "idle"
  /\ AddWatch(current[2])
  /\ UNCHANGED <<fsVars, dirWatch, queue, todo, current, snap, blind, failed, ops, refreshes>>

\* refreshSnapshots
RefreshStart ==
  /\ gpc = "idle" /\ refreshes < MaxRefresh
  /\ refreshes' = refreshes + 1
  /\ gpc' = "refresh" /\ todo' = {f \in File : Known(f)}
  /\ UNCHANGED <<fsVars, watchVars, current, snap, blind, failed, ops>>

\* The file is hashed ...
RefreshHash(f) ==
  /\ gpc = "refresh" /\ f \in todo
  /\ todo' = todo \ {f}
  /\ gpc' = IF View(f) = snap[f] THEN "retake" ELSE "refresh"
  /\ current' = <<"modify", f>>
  /\ UNCHANGED <<fsVars, watchVars, snap, blind, failed, ops, refreshes>>

\* ... and if it is unchanged, read again.
Retake ==
  /\ gpc = "retake"
  /\ TakeSnapshot(current[2])
  /\ gpc' = "refresh"
  /\ UNCHANGED <<fsVars, watchVars, todo, current, failed, ops, refreshes>>

RefreshEnd ==
  /\ gpc = "refresh" /\ todo = {}
  /\ gpc' = "idle"
  /\ UNCHANGED <<fsVars, watchVars, todo, current, snap, blind, failed, ops, refreshes>>

Guard ==
  \/ \E f \in File : \/ FirstSnapshot(f) \/ FirstWatch(f)
                     \/ HandleSelf(f) \/ HandleDelete(f) \/ HandleCreate(f) \/ HandleModify(f)
                     \/ RefreshHash(f)
  \/ StartWatching \/ StartLoop \/ Restore \/ RestoreFails \/ Rewatch
  \/ RefreshStart \/ Retake \/ RefreshEnd

Next == Others \/ Guard

Spec == Init /\ [][Next]_vars

\* The Guardian's only loop runs; nothing is assumed of the others.
FairSpec == Spec /\ WF_vars(Guard)
-----------------------------------------------------------------------------
\* When the Guardian has no event left, a file it has a snapshot of is as the
\* snapshot says, unless it changed without an event that reached the channel or
\* its last restore failed (handleFSEvent).
QuietIsClean ==
  (gpc = "idle" /\ queue = <<>>) =>
     \A f \in File : Known(f) => View(f) = snap[f] \/ f \in blind \cup failed

Noticed(f, kinds) == \E n \in 1 .. Len(queue) : queue[n][2] = f /\ queue[n][1] \in kinds

\* A deletion or a move that inotify has reported is undone, or the restore has
\* failed (handleFSEvent, IN_DELETE_SELF and IN_MOVE_SELF).
NoticedIsRestored ==
  \A f \in File :
    (Known(f) /\ Noticed(f, {"deleteSelf", "moveSelf"}))
      ~> (View(f) = snap[f] \/ f \in failed)
=============================================================================
