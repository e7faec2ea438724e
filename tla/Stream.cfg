SPECIFICATION FairSpec
CONSTANTS
  Angel = {a1, a2}
  Client = {c1}
  Tui = {c1}
  Alien = {}
  MaxEvents <- MCMaxEvents
  MaxDials = 2
  BufSize = 1
  SockBuf = 1
  ClientBuf = 1
  RingSize = 2
INVARIANTS StreamTypeOK NoSendOnClosed NewestFirst
PROPERTIES AcceptedIsShown PublishersProceed NextEventUnsubscribes
CHECK_DEADLOCK FALSE
