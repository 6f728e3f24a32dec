SPECIFICATION Spec
CONSTANTS
  a = a
  b = b
  c = c
  Procs = {a, b, c}
  NSOCK = 2
  NPORT = 3
  SBUFFSIZE = 1
  Messages <- OneChar
  RecvSizes <- FullSize
  MaxSid = 2
SYMMETRY Symmetry
VIEW NoRet
PROPERTY
  SendBlocksWhileUnread
CHECK_DEADLOCK FALSE
