SPECIFICATION Spec
CONSTANTS
    zero = zero  x = x
    MAX_PSYC_PAGES = 2
    MAX_TOTAL_PAGES = 4
    UINT = 16
    InitPages = 2
    CodePages = {0, 1}
    Contents = {zero, x}
    Zero = zero
    Calls = {"shrink"}
PROPERTY Transparent
CHECK_DEADLOCK FALSE
