SPECIFICATION BootSpec
CONSTANTS
  Angel = {1}
  Entry <- MCEntryPair
  Id <- MCId
  NoPid = NoPid
  NoEntry = NoEntry
  NoConn = NoConn
  NoAngel = NoAngel
  MaxRestarts = 2
  MaxStarts = 1
  MaxUnread = 1
  MaxCrashes = 1
  Stimuli = {"connect"}
  Client = {c1}
  Static = {}
  Events = {"crash", "create"}
INVARIANTS NoGhosts
CHECK_DEADLOCK FALSE
