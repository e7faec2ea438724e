SPECIFICATION FairSpec
CONSTANTS
  Angel = {a1}
  Client = {c1}
  Tui = {c1}
  Alien = {}
  MaxEvents <- MCMaxEvents
  MaxDials = 1
  BufSize = 1
  SockBuf = 1
  ClientBuf = 1
  RingSize = 2
PROPERTY NoStreamDeadline
CHECK_DEADLOCK FALSE
