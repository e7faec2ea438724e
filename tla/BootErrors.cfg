SPECIFICATION FairBootSpec
CONSTANTS
  Angel = {1}
  Entry <- MCEntryTriple
  Id <- MCId
  NoPid = NoPid
  NoEntry = NoEntry
  NoConn = NoConn
  NoAngel = NoAngel
  MaxRestarts = 2
  MaxStarts = 1
  MaxUnread = 1
  MaxCrashes = 2
  Stimuli = {"dberror"}
  Client = {}
  Static = {1}
  Events = {"crash", "reload", "killfail"}
INVARIANTS GhostsAreMissed
PROPERTIES RecoverableIsRespawned
CHECK_DEADLOCK FALSE
