SPECIFICATION Spec
CONSTANTS
    RxCap = 1
    TxCap = 1
    None = None
    MaxSockets = 2
    MaxIds = 2
    Srcs = {p1}
    TcpAddrs = {}
    UdpAddrs = {d1}
    BadAddrs = {}
    Ops = {o1, o2}
    Segs = {}
    Faults = {"cancel"}
PROPERTIES DataOfItsStream
CHECK_DEADLOCK FALSE
