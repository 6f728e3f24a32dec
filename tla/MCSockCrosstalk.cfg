SPECIFICATION Spec
CONSTANTS
  a = a
  b = b
  c = c
  Procs = {a, b, c}
  NSOCK = 3
  NPORT = 3
  SBUFFSIZE = 1
  Messages <- OneChar
  RecvSizes <- FullSize
  MaxSid = 4
SYMMETRY Symmetry
VIEW NoRet
INVARIANT
  SendReachesPeer
CHECK_DEADLOCK FALSE
