\* Liveness: one angel that may crash, hang and lose its link, and the shutdown.
CONSTANTS
  Entry = {e1}
  Angel = {a1}
  Id <- MCId
  MaxRestarts = 2
  MaxStarts = 2
  MaxUnread = 1
  NoEntry = NoEntry
  NoConn = NoConn
  NoPid = NoPid
  Stimuli = {"connect", "hang", "shutdown"}
SPECIFICATION FairSpec
PROPERTIES
  ImplementsPolicy
  RegisteredHangIsKilled
  ExitIsAnswered
  DeadAngelLeavesActive
  ShutdownCompletes
CHECK_DEADLOCK FALSE
