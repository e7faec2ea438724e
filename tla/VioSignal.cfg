\* A late timer goroutine of the dead process reads the PID of its successor.
CONSTANTS
  Entry = {e1}
  Angel = {a1}
  Id <- MCId
  MaxRestarts = 2
  MaxStarts = 2
  MaxUnread = 1
  NoEntry = NoEntry
  NoConn = NoConn
  NoPid = NoPid
  Stimuli = {"connect", "late"}
SPECIFICATION Spec
PROPERTIES
  SignalHasCause
CHECK_DEADLOCK FALSE
