SPECIFICATION Spec
CONSTANTS
    zero = zero  x = x
    MAX_PSYC_PAGES = 4
    MAX_TOTAL_PAGES = 5
    UINT = 16
    InitPages = 1
    CodePages = {0}
    Contents = {zero, x}
    Zero = zero
    Calls = {"shrinkResident", "execResident"}
INVARIANTS
    PagerConsistent
PROPERTIES
    Transparent
    FifoOrder
CHECK_DEADLOCK FALSE
