SPECIFICATION Spec
CONSTANTS
    RxCap = 1
    TxCap = 1
    None = None
    MaxSockets = 1
    MaxIds = 2
    Srcs = {p1}
    TcpAddrs = {a1, b1}
    UdpAddrs = {d1, b1}
    BadAddrs = {b1}
    Ops = {o1, o2}
    Segs = {"SYN", "ACK", "DATA", "FIN", "RST"}
    Faults = {"cancel", "concurrent", "generator", "stack", "acceptor"}
INVARIANTS TypeOK HandleTable OneHolder ParkedBlocked OwnersUnique
CHECK_DEADLOCK FALSE
SYMMETRY Symmetry
