SPECIFICATION Spec
CONSTANTS
    RxCap = 1
    TxCap = 1
    None = None
    MaxSockets = 1
    MaxIds = 1
    Srcs = {p1}
    TcpAddrs = {a1}
    UdpAddrs = {}
    BadAddrs = {}
    Ops = {o1, o2}
    Segs = {"SYN", "ACK"}
    Faults = {"concurrent"}
INVARIANTS LostOnlyIfGone
CHECK_DEADLOCK FALSE
