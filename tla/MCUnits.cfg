SPECIFICATION Spec
CONSTANTS
    XLEN = 4  BPW = 4  BYTE = 2  DBYTES = 8  NREGS = 32
    Operands = {0, 1, 5, 7, 8, 15}  Operands3 = {7, 8, 15}
    Memories <- Patterns
INVARIANTS DecodeCorrect AluCorrect LanesCorrect MulCorrect Mul3Correct DivCorrect RemainderBelowDivisor DivOnTime
