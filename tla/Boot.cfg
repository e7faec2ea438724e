SPECIFICATION BootSpec
CONSTANTS
  Angel = {1}
  Entry <- MCEntryPair
  Id <- MCId
  NoPid = NoPid
  NoEntry = NoEntry
  NoConn = NoConn
  NoAngel = NoAngel
  MaxRestarts = 2
  MaxStarts = 1
  MaxUnread = 1
  MaxCrashes = 2
  Stimuli = {"connect", "slow"}
  Client = {}
  Static = {1}
  Events = {"crash", "reload", "killfail"}
INVARIANTS BootTypeOK GhostsAreMissed AtMostOneRunner
CHECK_DEADLOCK FALSE
