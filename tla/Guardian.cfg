SPECIFICATION FairSpec
CONSTANTS
  File = {f1, f2}
  Paths = {f1}
  WatchDir = TRUE
  Inode = {i1, i2, i3, i4}
  Content = {empty, good, bad}
  Empty = empty
  Ops = {"open", "replace", "delete", "move", "create"}
  MaxOps = 3
  MaxRefresh = 1
  QueueSize = 3
  Faults = TRUE
  NoInode = NoInode
  NoPath = NoPath
  NoSnap = NoSnap
INVARIANTS GuardianTypeOK QuietIsClean
PROPERTIES NoticedIsRestored
CHECK_DEADLOCK FALSE
