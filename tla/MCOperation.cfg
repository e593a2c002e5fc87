SPECIFICATION Spec
CONSTANTS
    Futures = {f1, f2}
    Lens = {0, 2}
    RxCap = 2
    TxCap = 1
    MaxBytes = 3
    None = None
INVARIANTS TypeOK BufferExclusive BytesInOrder ReportIsTrue
CHECK_DEADLOCK FALSE
SYMMETRY Symmetry
