CONSTANTS
    CR = CR
    LF = LF
    Others = {x}
    MaxRead = 2
    MaxBuf = 9
SPECIFICATION Spec
INVARIANTS TypeOK ScanIsExact
