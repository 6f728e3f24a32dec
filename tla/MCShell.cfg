SPECIFICATION Spec
CONSTANTS
    Lines <- MCLines
    MAXARGS = 3
    NPROC = 6
    NOFILE = 5
INVARIANTS
    ParserMeetsGrammar
    Wired
    ForegroundDone
PROPERTIES
    Prompts
CHECK_DEADLOCK FALSE
