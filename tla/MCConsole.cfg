SPECIFICATION Spec
CONSTANTS
    p1 = p1  p2 = p2
    Readers = {p1, p2}
    INPUT_BUF = 3
    UINT = 6
    COLS = 2
    ROWS = 3
    SerialChars <- LettersAndControls
    Keys <- ControlKeys
    ReadSizes = {2}
    Outputs <- OneLetter
    Listing <- OneRow
    Start = 5
    MaxInput = 5
SYMMETRY ReaderSymmetry
INVARIANTS NoStall EditedLineShown NoStuckModifier
PROPERTIES Implements
CHECK_DEADLOCK FALSE
