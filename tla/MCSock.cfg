SPECIFICATION Spec
CONSTANTS
  a = a
  b = b
  c = c
  Procs = {a, b, c}
  NSOCK = 2
  NPORT = 3
  SBUFFSIZE = 1
  Messages <- OneChar
  RecvSizes <- FullSize
  MaxSid = 5
SYMMETRY Symmetry
VIEW NoRet
INVARIANTS
    TableConsistent
    LocalStaysOwned
    SleepersAreWoken
PROPERTIES
    LimitReported
CHECK_DEADLOCK FALSE
