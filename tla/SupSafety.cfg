\* One angel that may crash, hang and be terminated, over a database of which any
\* statement may fail; its restart waits for what Lab still does for the dead process.
CONSTANTS
  Entry = {e1}
  Angel = {a1}
  Id <- MCId
  MaxRestarts = 2
  MaxStarts = 2
  MaxUnread = 1
  NoEntry = NoEntry
  NoConn = NoConn
  NoPid = NoPid
  Stimuli = {"connect", "hang", "terminate", "startfail", "dberror"}
SPECIFICATION Spec
INVARIANTS
  TypeOK
  LiveProcessHasRunner
  LiveProcessIsRecorded
  ConnIsServed
  LostLinkIsTimed
PROPERTIES
  SignalHasCause
CHECK_DEADLOCK FALSE
