SPECIFICATION BootSpec
CONSTANTS
  Angel = {1}
  Entry <- MCEntryPair
  Id <- MCId
  NoPid = NoPid
  NoEntry = NoEntry
  NoConn = NoConn
  NoAngel = NoAngel
  MaxRestarts = 2
  MaxStarts = 3
  MaxUnread = 0
  MaxCrashes = 2
  Stimuli = {"startfail"}
  Client = {c1, c2}
  Static = {}
  Events = {"crash", "spawn", "create"}
INVARIANTS StartsWithinBudget RestartsAreShared
PROPERTIES ImplementsCrashPolicy
CHECK_DEADLOCK FALSE
