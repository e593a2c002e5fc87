SPECIFICATION FairSpec
CONSTANTS
    Readers = {r1}
    Writers = {w1}
    MaxQueue = 1
INVARIANTS TypeOK InterfaceDrained
PROPERTIES WrittenIsSent OpsReturn DataArrives TasksEnd EndIsTold
CHECK_DEADLOCK FALSE
