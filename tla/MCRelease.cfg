SPECIFICATION FairSpec
CONSTANTS
    RxCap = 1
    TxCap = 1
    None = None
    MaxSockets = 2
    MaxIds = 3
    Srcs = {p1}
    TcpAddrs = {a1}
    UdpAddrs = {d1}
    BadAddrs = {}
    Ops = {o1}
    Segs = {"SYN", "ACK", "FIN", "RST"}
    Faults = {}
INVARIANTS NoOrphan
PROPERTIES DroppedIsReleased
CHECK_DEADLOCK FALSE
