SPECIFICATION FairSpec
CONSTANTS
    RxCap = 1
    TxCap = 1
    None = None
    MaxSockets = 2
    MaxIds = 2
    Srcs = {p1}
    TcpAddrs = {a1}
    UdpAddrs = {d1}
    BadAddrs = {}
    Ops = {o1, o2}
    Segs = {"SYN", "ACK", "DATA", "FIN"}
    Faults = {}
INVARIANTS LostOnlyIfGone NoOrphan NoPanic
PROPERTIES DataReachesReader OpServed LastingIsAnnounced
CHECK_DEADLOCK FALSE
