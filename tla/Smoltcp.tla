------------------------------- MODULE Smoltcp -------------------------------
(***************************************************************************)
(* The part of the smoltcp 0.11 sockets that src/tcp_stack/mod.rs relies   *)
(* on: the TCP and UDP socket state that its queries read, what close,     *)
(* listen, send_slice and recv_slice do, and what Interface::poll does to  *)
(* a socket.  smoltcp is not part of the repository; this module is the    *)
(* contract that the stack is verified against.                            *)
(*                                                                         *)
(* A socket is a record.  Buffers are abstracted to how full they are,     *)
(* sequence numbers to the segment kinds that the TCP states distinguish.  *)
(* A socket keeps one waker per direction (rw, tw); a waker is the event   *)
(* its closure sends.  Registering a waker drops the one that was there;   *)
(* waking takes it out of the socket.                                      *)
(***************************************************************************)
EXTENDS Naturals, Sequences

CONSTANTS RxCap,      \* capacity of a receive buffer, in abstract units
          TxCap,      \* capacity of a transmit buffer
          None        \* no address, no peer, no operation

ASSUME CapAssumption == RxCap \in Nat \ {0} /\ TxCap \in Nat \ {0}

TcpStates == {"Closed", "Listen", "SynReceived", "Established", "FinWait1",
              "FinWait2", "CloseWait", "Closing", "LastAck", "TimeWait"}

\* The segments of a peer, by what they do to a connection.
Segments == {"SYN", "ACK", "DATA", "FIN", "RST"}

NoWaker == [type |-> "none", kind |-> "none", h |-> 0, id |-> 0, op |-> None]

\* An empty slot of the SocketSet.
NoSocket == [kind |-> "none", id |-> 0, ep |-> None, st |-> "Closed",
             peer |-> None, rx |-> 0, tx |-> 0, rw |-> NoWaker, tw |-> NoWaker]

\* TcpSocket after listen(dst), UdpSocket after bind(dst).
TcpListener(id, dst) == [NoSocket EXCEPT !.kind = "tcp", !.id = id,
                                         !.ep = dst, !.st = "Listen"]
UdpBound(id, dst) == [NoSocket EXCEPT !.kind = "udp", !.id = id, !.ep = dst]

-----------------------------------------------------------------------------
(* Queries *)

MaySend(s) == s.st \in {"Established", "CloseWait"}
CanSend(s) == MaySend(s) /\ s.tx < TxCap
MayRecv(s) == s.st \in {"Established", "FinWait1", "FinWait2"} \/ s.rx > 0
IsActive(s) == s.st \notin {"Closed", "TimeWait", "Listen"}

\* Does the socket take a segment of connection c (a pair: peer, endpoint)?
Accepts(s, c, seg) ==
    /\ s.kind = "tcp"
    /\ \/ s.st = "Listen" /\ seg = "SYN" /\ s.ep = c[2]
       \/ s.st \notin {"Closed", "Listen"} /\ s.peer = c

-----------------------------------------------------------------------------
(* State changes.  Every change of the TCP state wakes both directions. *)

SetState(s, st) == [s EXCEPT !.st = st, !.rw = NoWaker, !.tw = NoWaker]

\* tcp::Socket::close
TcpClose(s) ==
    CASE s.st = "Listen"                           -> SetState(s, "Closed")
      [] s.st \in {"SynReceived", "Established"}   -> SetState(s, "FinWait1")
      [] s.st = "CloseWait"                        -> SetState(s, "LastAck")
      [] OTHER                                     -> s

\* The TCP state after a segment that the socket accepts.  An ACK counts for
\* the FIN once the transmit buffer is empty.
SegState(s, seg) ==
    CASE seg = "SYN" /\ s.st = "Listen"                  -> "SynReceived"
      [] seg \in {"ACK", "DATA"} /\ s.st = "SynReceived" -> "Established"
      [] seg = "FIN" /\ s.st \in {"SynReceived", "Established"} -> "CloseWait"
      [] seg = "FIN" /\ s.st = "FinWait1"                -> "Closing"
      [] seg = "FIN" /\ s.st = "FinWait2"                -> "TimeWait"
      [] seg = "ACK" /\ s.st = "FinWait1" /\ s.tx = 0    -> "FinWait2"
      [] seg = "ACK" /\ s.st = "Closing" /\ s.tx = 0     -> "TimeWait"
      [] seg = "ACK" /\ s.st = "LastAck" /\ s.tx = 0     -> "Closed"
      [] seg = "RST" /\ s.st = "SynReceived"             -> "Listen"
      [] seg = "RST" /\ s.st # "SynReceived"             -> "Closed"
      [] OTHER                                           -> s.st

SegPeer(s, c, st) ==
    CASE st # s.st /\ st = "SynReceived"           -> c
      [] st # s.st /\ st \in {"Listen", "Closed"} -> None
      [] OTHER                                    -> s.peer

SegRx(s, seg, st) ==
    IF /\ seg = "DATA"
       /\ st \in {"Established", "FinWait1", "FinWait2"}
       /\ s.rx < RxCap
    THEN s.rx + 1 ELSE s.rx

\* tcp::Socket::process: data wakes the reader, an acknowledgement of data
\* the writer, a new state both.
Process(s, c, seg) ==
    LET st == SegState(s, seg)
        rx == SegRx(s, seg, st)
        tx == IF seg = "ACK" THEN 0 ELSE s.tx
    IN  [s EXCEPT !.st = st, !.peer = SegPeer(s, c, st), !.rx = rx, !.tx = tx,
                  !.rw = IF st # s.st \/ rx # s.rx THEN NoWaker ELSE @,
                  !.tw = IF st # s.st \/ tx # s.tx THEN NoWaker ELSE @]

\* The TIME-WAIT timer runs out: tcp::Socket::reset.
Expire(s) == [SetState(s, "Closed") EXCEPT !.ep = None, !.peer = None,
                                           !.rx = 0, !.tx = 0]

\* udp::Socket::process; a datagram that does not fit is dropped.
Datagram(s) ==
    IF s.rx < RxCap THEN [s EXCEPT !.rx = @ + 1, !.rw = NoWaker] ELSE s

\* udp::Socket::dispatch; the device always takes the packets.
Transmit(s) == [s EXCEPT !.tx = 0, !.tw = NoWaker]

\* udp::Socket::close
UdpClose(s) == [s EXCEPT !.ep = None, !.rx = 0, !.tx = 0,
                         !.rw = NoWaker, !.tw = NoWaker]

-----------------------------------------------------------------------------
(* SocketSet::add takes the first empty slot, so handles are reused. *)

IsFirst(h, S) == h \in S /\ \A k \in S : h <= k
=============================================================================
