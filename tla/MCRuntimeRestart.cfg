CONSTANTS
    calc = calc
    conv = conv
    Callers = {calc, conv}
    Kind <- MCKind
    MaxFaults = 1
    Keys = {"0", "d", ".", "-", "*", "(", ")", "%"}
    maximumOperandDigits = 2
    HistoryLimit = 1
    MaxLength = 4
    MaxOpened = 3
    MaxEvaluated = 1
    MaxTasks = 2
    MaxEvaluations = 2
    MaxUndo = 1
    Units <- MCUnits
    Category <- MCCategory
    Results = {"r", "s"}
SPECIFICATION DeskSpec
PROPERTIES
    HandshakeNotKilled
CHECK_DEADLOCK FALSE
