SPECIFICATION PeerFairSpec
CONSTANTS
    RxCap = 1
    TxCap = 1
    None = None
    MaxSockets = 1
    MaxIds = 1
    Srcs = {p1}
    TcpAddrs = {a1}
    UdpAddrs = {}
    BadAddrs = {}
    Ops = {}
    Segs = {"SYN", "ACK", "FIN"}
    Faults = {}
PROPERTIES ConnectionIsAnnounced
CHECK_DEADLOCK FALSE
