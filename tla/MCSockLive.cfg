SPECIFICATION FairSpec
CONSTANTS
  a = a
  b = b
  c = c
  Procs = {a, b}
  NSOCK = 2
  NPORT = 3
  SBUFFSIZE = 1
  Messages <- OneChar
  RecvSizes <- FullSize
  MaxSid = 3
PROPERTIES
    BlockedCallsReturn
CHECK_DEADLOCK FALSE
