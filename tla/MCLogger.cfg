SPECIFICATION LogSpec
CONSTANTS
    LogCallers = {a, b}
    LogQue = 2
    LogWord = 8
    MaxLog = 3
PROPERTY CloseReturns
CHECK_DEADLOCK FALSE
