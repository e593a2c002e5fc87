------------------------------ MODULE TcpStack -------------------------------
(***************************************************************************)
(* TcpStack of src/tcp_stack/mod.rs with everything that talks to it: the  *)
(* TcpStream and UdpSocket futures and the acceptors of tcp.rs and udp.rs, *)
(* the event channel, the driver that calls drive_once, and the peers.     *)
(*                                                                         *)
(* drive_once runs on one thread; the model splits it at its loops.  Drive *)
(* parses the packet, adds a socket and polls; Egress is the end of the    *)
(* poll; then one action per event of the batch: first, in order, the      *)
(* Ready, Shutdown and Close events, while Read and Write (Recv and Send)  *)
(* are put aside, then the tcp_events put aside, then the udp_events.      *)
(* Meanwhile users push events, cancel futures and drop streams.           *)
(*                                                                         *)
(* Every socket has an identity (id), a history value: the code only knows *)
(* the handle h, which SocketSet hands out again after a removal.          *)
(***************************************************************************)
EXTENDS Smoltcp, FiniteSets

CONSTANTS MaxSockets,  \* bound: slots of the SocketSet
          MaxIds,      \* bound: sockets ever created
          Srcs,        \* peer endpoints
          TcpAddrs,    \* endpoints that SYNs are sent to
          UdpAddrs,    \* endpoints that datagrams are sent to
          BadAddrs,    \* those with port 0, which listen and bind refuse
          Ops,         \* identities of read, write, ... futures
          Segs,        \* the segments that the peers send
          Faults       \* what may go wrong, see below

\* "cancel": a user drops a pending future; "concurrent": a user starts a
\* second operation in a direction of a stream; "generator", "stack",
\* "acceptor": the EventGenerator, the TcpStack, an acceptor is dropped.
FaultKinds == {"cancel", "concurrent", "generator", "stack", "acceptor"}

ASSUME BoundAssumption == MaxSockets \in Nat /\ MaxIds \in Nat
ASSUME NoneAssumption ==
    None \notin (Ops \cup TcpAddrs \cup UdpAddrs \cup (Srcs \X TcpAddrs))
ASSUME InputAssumption == Segs \subseteq Segments /\ Faults \subseteq FaultKinds

VARIABLES
    sockets,               \* socket_set: handle -> socket or NoSocket
    socket_handles,        \* set of <<kind, handle>> (TypedSocketHandle)
    accepted_udp_sockets,  \* set of endpoints
    next_id,               \* identity of the next socket
    queue,                 \* operation_event channel and batches in transit
    batch,                 \* events of this drive_once not looked at yet
    tcp_events,            \* its Read and Write events put aside
    udp_events,            \* its Recv and Send events put aside
    phase,                 \* where drive_once is
    accepted,              \* kind -> TcpInfo / UdpInfo sent to the acceptor
    streams,               \* the TcpStream and UdpSocket values alive
    ops,                   \* the futures of read, write, shutdown, recv, send
    stack,                 \* the TcpStack itself
    generator,             \* is the EventGenerator alive?
    acceptors              \* the acceptors alive

sockVars == <<sockets, socket_handles, accepted_udp_sockets, next_id>>
driveVars == <<batch, tcp_events, udp_events, phase>>
userVars == <<accepted, streams>>
lifeVars == <<stack, generator, acceptors>>
vars == <<sockVars, queue, driveVars, userVars, ops, lifeVars>>

Handles == 0..(MaxSockets - 1)
Ids == 0..MaxIds
Conns == Srcs \X TcpAddrs

\* Read, Write, Recv, Send and Shutdown carry a result sender; the waker of a
\* shutdown sends the result itself.
OpTypes == {"Read", "Write", "Recv", "Send", "Shutdown"}
EventTypes == OpTypes \cup {"Ready", "Close"}
Kinds == {"tcp", "udp"}

Event(type, i, op) ==
    [type |-> type, kind |-> i.kind, h |-> i.h, id |-> i.id, op |-> op]

Infos == [kind : Kinds, h : Handles, id : Ids]
Events == [type : EventTypes, kind : Kinds, h : Handles, id : Ids,
           op : Ops \cup {None}]
Wakers == {NoWaker} \cup
          [type : EventTypes \cup {"ShutdownDone"}, kind : Kinds, h : Handles,
           id : Ids, op : Ops \cup {None}]

\* "ok": data moved; "eof": Ok(0); "err": an error result; "lost": the result
\* sender was dropped, which the future reports as BrokenPipe.
OpStates == {"unused", "pending", "cancelled", "ok", "eof", "err", "lost"}
Futures == [type : OpTypes \cup {"none"}, id : Ids, st : OpStates]

Sockets ==
    [kind : Kinds \cup {"none"}, id : Ids,
     ep : TcpAddrs \cup UdpAddrs \cup {None}, st : TcpStates,
     peer : Conns \cup {None}, rx : 0..RxCap, tx : 0..TxCap,
     rw : Wakers, tw : Wakers]

TypeOK ==
    /\ sockets \in [Handles -> Sockets]
    /\ socket_handles \in SUBSET (Kinds \X Handles)
    /\ accepted_udp_sockets \in SUBSET UdpAddrs
    /\ next_id \in 1..(MaxIds + 1)
    /\ queue \in Seq(Events)
    /\ batch \in Seq(Events)
    /\ tcp_events \in Seq(Events)
    /\ udp_events \in Seq(Events)
    /\ phase \in {"idle", "egress", "dispatch", "tcp", "udp"}
    /\ accepted \in [Kinds -> Seq(Infos)]
    /\ streams \in SUBSET Infos
    /\ ops \in [Ops -> Futures]
    /\ stack \in {"up", "dropped", "panicked"}
    /\ generator \in BOOLEAN
    /\ acceptors \in SUBSET Kinds

Init ==
    /\ sockets = [h \in Handles |-> NoSocket]
    /\ socket_handles = {}
    /\ accepted_udp_sockets = {}
    /\ next_id = 1
    /\ queue = <<>>
    /\ batch = <<>>
    /\ tcp_events = <<>>
    /\ udp_events = <<>>
    /\ phase = "idle"
    /\ accepted = [k \in Kinds |-> <<>>]
    /\ streams = {}
    /\ ops = [o \in Ops |-> [type |-> "none", id |-> 0, st |-> "unused"]]
    /\ stack = "up"
    /\ generator = TRUE
    /\ acceptors = Kinds

-----------------------------------------------------------------------------
(* Result senders and wakers *)

\* The futures O get result r; one that was cancelled no longer listens.
Settle(f, O, r) ==
    [o \in Ops |-> IF o \in O /\ f[o].st = "pending"
                   THEN [f[o] EXCEPT !.st = r] ELSE f[o]]

OpsOf(q) == {q[i].op : i \in DOMAIN q}

\* The wakers of socket s that were woken in the step to t.
WokenRw(s, t) == IF t.rw = NoWaker THEN s.rw ELSE NoWaker
WokenTw(s, t) == IF t.tw = NoWaker THEN s.tw ELSE NoWaker

\* A bug: the closure runs again when its waker is dropped.
SendTwice(w) ==
    IF generator /\ w.type \in EventTypes THEN <<w, w>> ELSE <<>>

\* The closure of a woken waker sends its event ...
WakeSend(w) ==
    IF generator /\ w.type \in EventTypes THEN <<w>> ELSE <<>>
Sends(s, t) == WakeSend(WokenRw(s, t)) \o WakeSend(WokenTw(s, t))

\* ... or a result: Ok for a shutdown, an error if the event cannot be sent.
Results(f, s, t) ==
    LET woken == {WokenRw(s, t), WokenTw(s, t)}
        done == {w.op : w \in {v \in woken : v.type = "ShutdownDone"}}
        failed == {w.op : w \in {v \in woken : v.type \in OpTypes}}
    IN  Settle(Settle(f, done, "ok"), IF generator THEN {} ELSE failed, "err")

\* A waker that is overwritten or freed with its socket drops its closure.
Dropped(f, w) == Settle(f, {w.op}, "lost")

-----------------------------------------------------------------------------
(* drive_once: the packet and the poll *)

NextPhase(b, te, ue) ==
    IF b # <<>> THEN "dispatch"
    ELSE IF te # <<>> THEN "tcp"
    ELSE IF ue # <<>> THEN "udp"
    ELSE "idle"

UdpToSend(ss) == {h \in Handles : ss[h].kind = "udp" /\ ss[h].tx > 0}

\* The driver hands over the first n queued events: the next batch that
\* generate collected, none if n = 0.
Begin(n, ss, sent) ==
    /\ stack = "up"
    /\ phase = "idle"
    /\ batch' = SubSeq(queue, 1, n)
    /\ queue' = SubSeq(queue, n + 1, Len(queue)) \o sent
    /\ phase' = IF UdpToSend(ss) # {} THEN "egress"
                ELSE NextPhase(SubSeq(queue, 1, n), <<>>, <<>>)
    /\ sockets' = ss
    /\ UNCHANGED <<tcp_events, udp_events, userVars, lifeVars>>

Batches == 0..Len(queue)
FreeHandles == {h \in Handles : sockets[h].kind = "none"}
Takers(ss, c, seg) == {h \in Handles : Accepts(ss[h], c, seg)}

\* A bug: both wakers announce the connection.
ReadyOnBoth(s, e) == [s EXCEPT !.rw = e, !.tw = e]

\* A bug: nothing announces the connection.
NeverReady(s, e) == s

\* init_tcp: the send waker announces the connection.
ReadyOnSend(s, e) == [s EXCEPT !.tw = e]

\* A SYN: init_tcp adds a listening socket whatever sockets there are, then
\* the poll gives the SYN to the first socket that takes it.
DriveSyn(c, n) ==
    /\ "SYN" \in Segs
    /\ c[2] \notin BadAddrs
    /\ next_id <= MaxIds
    /\ \E h, k \in Handles :
        LET new == [kind |-> "tcp", h |-> h, id |-> next_id]
            added == [sockets EXCEPT ![h] =
                        ReadyOnSend(TcpListener(next_id, c[2]),
                                    Event("Ready", new, None))]
            polled == Process(added[k], c, "SYN")
        IN  /\ IsFirst(h, FreeHandles)
            /\ IsFirst(k, Takers(added, c, "SYN"))
            /\ socket_handles' = socket_handles \cup {<<"tcp", h>>}
            /\ next_id' = next_id + 1
            /\ ops' = Results(ops, added[k], polled)
            /\ Begin(n, [added EXCEPT ![k] = polled], Sends(added[k], polled))
    /\ UNCHANGED accepted_udp_sockets

\* Any other segment; without a socket for it smoltcp answers with a RST.
DriveSegment(c, seg, n) ==
    /\ seg \in Segs \ {"SYN"}
    /\ \E k \in Handles :
        LET polled == Process(sockets[k], c, seg)
        IN  /\ IsFirst(k, Takers(sockets, c, seg))
            /\ ops' = Results(ops, sockets[k], polled)
            /\ Begin(n, [sockets EXCEPT ![k] = polled],
                     Sends(sockets[k], polled))
    /\ UNCHANGED <<socket_handles, accepted_udp_sockets, next_id>>

\* A datagram for an endpoint that has its socket.
DriveDatagram(d, n) ==
    /\ d \in accepted_udp_sockets
    /\ \E k \in Handles :
        /\ sockets[k].kind = "udp" /\ sockets[k].ep = d
        /\ ops' = Results(ops, sockets[k], Datagram(sockets[k]))
        /\ Begin(n, [sockets EXCEPT ![k] = Datagram(@)],
                 Sends(sockets[k], Datagram(sockets[k])))
    /\ UNCHANGED <<socket_handles, accepted_udp_sockets, next_id>>

\* A datagram for a new endpoint: try_init_udp adds and announces a socket,
\* which then receives it.
DriveNewUdp(d, n) ==
    /\ d \notin accepted_udp_sockets \cup BadAddrs
    /\ generator
    /\ next_id <= MaxIds
    /\ \E h \in Handles :
        LET new == [kind |-> "udp", h |-> h, id |-> next_id]
        IN  /\ IsFirst(h, FreeHandles)
            /\ socket_handles' = socket_handles \cup {<<"udp", h>>}
            /\ Begin(n, [sockets EXCEPT ![h] =
                            Datagram(UdpBound(next_id, d))],
                     <<Event("Ready", new, None)>>)
    /\ accepted_udp_sockets' = accepted_udp_sockets \cup {d}
    /\ next_id' = next_id + 1
    /\ UNCHANGED ops

\* No packet, or one that parse_packet and the sockets ignore.
DriveOnly(n) ==
    /\ n > 0 \/ UdpToSend(sockets) # {}
    /\ Begin(n, sockets, <<>>)
    /\ UNCHANGED <<socket_handles, accepted_udp_sockets, next_id, ops>>

\* The poll finds that a TIME-WAIT timer has run out.
DriveExpire(k, n) ==
    /\ sockets[k].kind = "tcp"
    /\ sockets[k].st = "TimeWait"
    /\ ops' = Results(ops, sockets[k], Expire(sockets[k]))
    /\ Begin(n, [sockets EXCEPT ![k] = Expire(@)],
             Sends(sockets[k], Expire(sockets[k])))
    /\ UNCHANGED <<socket_handles, accepted_udp_sockets, next_id>>

\* drive_once returns an error before the poll and drops the events it was
\* given.
Fail(n) ==
    /\ stack = "up"
    /\ phase = "idle"
    /\ queue' = SubSeq(queue, n + 1, Len(queue))
    /\ ops' = Settle(ops, OpsOf(SubSeq(queue, 1, n)), "lost")
    /\ UNCHANGED <<driveVars, userVars, lifeVars>>

\* listen and bind refuse port 0.
DriveRefused(d, n) ==
    /\ d \in BadAddrs
    /\ d \in UdpAddrs \/ (d \in TcpAddrs /\ "SYN" \in Segs)
    /\ Fail(n)
    /\ UNCHANGED sockVars

\* The Ready event of a new UDP socket cannot be sent: the socket stays.
DriveUnannounced(d, n) ==
    /\ d \notin accepted_udp_sockets \cup BadAddrs
    /\ ~generator
    /\ next_id <= MaxIds
    /\ \E h \in Handles :
        /\ IsFirst(h, FreeHandles)
        /\ sockets' = [sockets EXCEPT ![h] = UdpBound(next_id, d)]
        /\ socket_handles' = socket_handles \cup {<<"udp", h>>}
    /\ accepted_udp_sockets' = accepted_udp_sockets \cup {d}
    /\ next_id' = next_id + 1
    /\ Fail(n)

Drive ==
    \E n \in Batches :
        \/ \E c \in Conns : DriveSyn(c, n)
        \/ \E c \in Conns, seg \in Segments : DriveSegment(c, seg, n)
        \/ \E d \in UdpAddrs : DriveDatagram(d, n)
        \/ \E d \in UdpAddrs : DriveNewUdp(d, n)
        \/ DriveOnly(n)
        \/ \E k \in Handles : DriveExpire(k, n)
        \/ \E d \in TcpAddrs \cup UdpAddrs : DriveRefused(d, n)
        \/ \E d \in UdpAddrs : DriveUnannounced(d, n)

\* The poll sends what the UDP sockets hold, socket after socket.
Egress(h) ==
    /\ phase = "egress"
    /\ IsFirst(h, UdpToSend(sockets))
    /\ sockets' = [sockets EXCEPT ![h] = Transmit(@)]
    /\ queue' = queue \o Sends(sockets[h], Transmit(sockets[h]))
    /\ ops' = Results(ops, sockets[h], Transmit(sockets[h]))
    /\ phase' = IF UdpToSend(sockets') # {} THEN "egress"
                ELSE NextPhase(batch, <<>>, <<>>)
    /\ UNCHANGED <<socket_handles, accepted_udp_sockets, next_id, batch,
                   tcp_events, udp_events, userVars, lifeVars>>

-----------------------------------------------------------------------------
(* drive_once: the events of the batch, in order *)

Registered(e) == <<e.kind, e.h>> \in socket_handles

\* The next event of the batch is e; it leaves Read and Write, Recv and Send
\* aside in te and ue.
Dispatch(e, te, ue) ==
    /\ phase = "dispatch"
    /\ e = Head(batch)
    /\ batch' = Tail(batch)
    /\ tcp_events' = te
    /\ udp_events' = ue
    /\ phase' = NextPhase(Tail(batch), te, ue)
    /\ UNCHANGED <<streams, lifeVars>>

Handle(e) == Dispatch(e, tcp_events, udp_events)

\* What follows when a socket goes from s to t: the wakers that are woken send,
\* and waker lost is overwritten or freed.
Wakes(s, t, lost) ==
    /\ queue' = queue \o Sends(s, t)
    /\ ops' = Dropped(Results(ops, s, t), lost)

Defer(e) ==
    /\ e.type \in {"Read", "Write", "Recv", "Send"}
    /\ IF e.type \in {"Read", "Write"}
       THEN Dispatch(e, Append(tcp_events, e), udp_events)
       ELSE Dispatch(e, tcp_events, Append(udp_events, e))
    /\ UNCHANGED <<sockVars, queue, accepted, ops>>

\* handle_ready_wake_event on a TCP socket that may not receive yet.
ReadyNotYet(e) ==
    /\ e.type = "Ready" /\ e.kind = "tcp"
    /\ sockets[e.h].kind = "tcp"
    /\ ~MayRecv(sockets[e.h])
    /\ Handle(e)
    /\ sockets' = [sockets EXCEPT ![e.h].rw = e]
    /\ ops' = Dropped(ops, sockets[e.h].rw)
    /\ UNCHANGED <<socket_handles, accepted_udp_sockets, next_id, queue, accepted>>

\* The socket is announced to its acceptor; nobody cares if that is gone.
HasEndpoints(e) ==
    /\ sockets[e.h].kind = e.kind
    /\ IF e.kind = "tcp" THEN sockets[e.h].peer # None
                         ELSE sockets[e.h].ep # None

Announce(e) ==
    /\ e.type = "Ready"
    /\ e.kind = "tcp" => MayRecv(sockets[e.h])
    /\ HasEndpoints(e)
    /\ Handle(e)
    /\ accepted' = IF e.kind \in acceptors
                   THEN [accepted EXCEPT ![e.kind] =
                            Append(@, [kind |-> e.kind, h |-> e.h, id |-> e.id])]
                   ELSE accepted
    /\ UNCHANGED <<sockVars, queue, ops>>

HeldOps == {sockets[h].rw.op : h \in Handles}
             \cup {sockets[h].tw.op : h \in Handles}
             \cup OpsOf(batch) \cup OpsOf(tcp_events) \cup OpsOf(udp_events)

\* The stack is freed with its sockets, their wakers and what drive_once holds.
Free(how) ==
    /\ stack' = how
    /\ sockets' = [h \in Handles |-> NoSocket]
    /\ socket_handles' = {}
    /\ accepted_udp_sockets' = {}
    /\ batch' = <<>>
    /\ tcp_events' = <<>>
    /\ udp_events' = <<>>
    /\ phase' = "idle"
    /\ ops' = Settle(ops, HeldOps, "lost")
    /\ UNCHANGED <<next_id, queue, userVars, generator, acceptors>>

\* The socket is gone, or has no endpoint to announce: drive_once panics.
ReadyPanic(e) ==
    /\ phase = "dispatch"
    /\ e = Head(batch)
    /\ e.type = "Ready"
    /\ (e.kind = "tcp" /\ sockets[e.h].kind = "tcp") => MayRecv(sockets[e.h])
    /\ ~HasEndpoints(e)
    /\ Free("panicked")

\* handle_shutdown_event registers a send waker, dropping the one there, and
\* closes; close() wakes it if it changes the state.
HandleShutdown(e) ==
    LET s == [sockets[e.h] EXCEPT !.tw = [e EXCEPT !.type = "ShutdownDone"]]
    IN  /\ e.type = "Shutdown"
        /\ Handle(e)
        /\ IF Registered(e)
           THEN /\ sockets' = [sockets EXCEPT ![e.h] = TcpClose(s)]
                /\ Wakes(s, TcpClose(s), sockets[e.h].tw)
           ELSE /\ ops' = Settle(ops, {e.op}, "err")
                /\ UNCHANGED <<sockets, queue>>
        /\ UNCHANGED <<socket_handles, accepted_udp_sockets, next_id, accepted>>

\* A bug: remove_udp_socket leaves the endpoint in accepted_udp_sockets.
EndpointKept(e) == {}

\* The endpoint that remove_udp_socket takes out of accepted_udp_sockets.
EndpointOf(e) == IF e.kind = "udp" THEN {sockets[e.h].ep} ELSE {}

\* remove_tcp_socket and remove_udp_socket; s is the socket after close().
Remove(e, s) ==
    /\ sockets' = [sockets EXCEPT ![e.h] = NoSocket]
    /\ socket_handles' = socket_handles \ {<<e.kind, e.h>>}
    /\ accepted_udp_sockets' = accepted_udp_sockets \ EndpointOf(e)
    /\ queue' = queue \o Sends(sockets[e.h], s)
    /\ ops' = Dropped(Dropped(Results(ops, sockets[e.h], s), s.rw), s.tw)

\* A bug: a connection that still is active is forgotten.
ForgetActive(e, s) ==
    /\ sockets' = [sockets EXCEPT ![e.h] = s]
    /\ Wakes(sockets[e.h], s, NoWaker)
    /\ UNCHANGED <<socket_handles, accepted_udp_sockets>>

\* A connection still active after close() is closed again when its receive
\* waker is woken.
AwaitInactive(e, s) ==
    /\ sockets' = [sockets EXCEPT ![e.h] = [s EXCEPT !.rw = e]]
    /\ Wakes(sockets[e.h], s, s.rw)
    /\ UNCHANGED <<socket_handles, accepted_udp_sockets>>

\* handle_close_event
HandleClose(e) ==
    LET s == IF e.kind = "tcp" THEN TcpClose(sockets[e.h])
                               ELSE UdpClose(sockets[e.h])
    IN  /\ e.type = "Close"
        /\ Handle(e)
        /\ CASE ~Registered(e)                   ->
                    UNCHANGED <<sockets, socket_handles, accepted_udp_sockets,
                                queue, ops>>
             [] Registered(e) /\ IsActive(s)    -> AwaitInactive(e, s)
             [] Registered(e) /\ ~IsActive(s)   -> Remove(e, s)
        /\ UNCHANGED <<next_id, accepted>>

HandleEvent(e) ==
    \/ Defer(e)
    \/ ReadyNotYet(e)
    \/ Announce(e)
    \/ ReadyPanic(e)
    \/ HandleShutdown(e)
    \/ HandleClose(e)

-----------------------------------------------------------------------------
(* drive_once: the operations put aside *)

\* handle_tcp_wake_events and handle_udp_wake_events take the next event.
TcpEvent(e) ==
    /\ phase = "tcp"
    /\ e = Head(tcp_events)
    /\ tcp_events' = Tail(tcp_events)
    /\ phase' = NextPhase(<<>>, Tail(tcp_events), udp_events)
    /\ UNCHANGED <<socket_handles, accepted_udp_sockets, next_id, queue, batch,
                   udp_events, userVars, lifeVars>>

UdpEvent(e) ==
    /\ phase = "udp"
    /\ e = Head(udp_events)
    /\ udp_events' = Tail(udp_events)
    /\ phase' = NextPhase(<<>>, <<>>, Tail(udp_events))
    /\ UNCHANGED <<socket_handles, accepted_udp_sockets, next_id, queue, batch,
                   tcp_events, userVars, lifeVars>>

Answer(e, r) ==
    /\ ops' = Settle(ops, {e.op}, r)
    /\ UNCHANGED sockets

\* The operation moves data: the socket's buffers are now rx and tx.
Move(e, rx, tx, r) ==
    /\ sockets' = [sockets EXCEPT ![e.h].rx = rx, ![e.h].tx = tx]
    /\ ops' = Settle(ops, {e.op}, r)

\* A bug: the operation returns without a waker, which drops its result sender.
NoWakerForRecv(e) == ops' = Dropped(ops, e) /\ UNCHANGED sockets

\* A bug: the operation waits for the wrong direction.
ParkRecvOnSend(e) ==
    /\ sockets' = [sockets EXCEPT ![e.h].tw = e]
    /\ ops' = Dropped(ops, sockets[e.h].tw)

\* The operation waits: its event becomes the waker of its direction.
ParkRecv(e) ==
    /\ sockets' = [sockets EXCEPT ![e.h].rw = e]
    /\ ops' = Dropped(ops, sockets[e.h].rw)

ParkSend(e) ==
    /\ sockets' = [sockets EXCEPT ![e.h].tw = e]
    /\ ops' = Dropped(ops, sockets[e.h].tw)

\* The socket of the operation has been removed.
NotFound(e) ==
    /\ TcpEvent(e) \/ UdpEvent(e)
    /\ ~Registered(e)
    /\ Answer(e, "err")

\* A bug: the end of the stream is not looked at.
NeverAtEnd(s) == FALSE

\* Nothing is left to read, and nothing can come.
AtEnd(s) == s.rx = 0 /\ ~MayRecv(s)

HandleRead(e) ==
    LET s == sockets[e.h]
    IN  /\ e.type = "Read"
        /\ TcpEvent(e)
        /\ Registered(e)
        /\ \/ AtEnd(s) /\ Answer(e, "eof")
           \/ s.rx = 0 /\ ~AtEnd(s) /\ ParkRecv(e)
           \/ \E left \in 0..(s.rx - 1) : Move(e, left, s.tx, "ok")

HandleWrite(e) ==
    LET s == sockets[e.h]
    IN  /\ e.type = "Write"
        /\ TcpEvent(e)
        /\ Registered(e)
        /\ \/ ~CanSend(s) /\ ~MaySend(s) /\ Answer(e, "err")
           \/ ~CanSend(s) /\ MaySend(s) /\ ParkSend(e)
           \/ CanSend(s) /\ \E tx \in (s.tx + 1)..TxCap : Move(e, s.rx, tx, "ok")

\* A datagram too long for the buffer is taken and reported as an error.
HandleRecv(e) ==
    LET s == sockets[e.h]
    IN  /\ e.type = "Recv"
        /\ UdpEvent(e)
        /\ Registered(e)
        /\ \/ s.rx = 0 /\ ParkRecv(e)
           \/ s.rx > 0 /\ \E r \in {"ok", "err"} : Move(e, s.rx - 1, s.tx, r)

\* A bug: can_send is not asked.
AlwaysRoom(s) == TRUE

\* udp::Socket::can_send
HasRoom(s) == s.tx < TxCap

\* smoltcp refuses a datagram that can never fit, or that has no destination.
HandleSend(e) ==
    LET s == sockets[e.h]
    IN  /\ e.type = "Send"
        /\ UdpEvent(e)
        /\ Registered(e)
        /\ \/ ~HasRoom(s) /\ ParkSend(e)
           \/ HasRoom(s) /\ Move(e, s.rx, s.tx + 1, "ok")
           \/ HasRoom(s) /\ Answer(e, "err")

HandleOp(e) ==
    \/ NotFound(e)
    \/ HandleRead(e)
    \/ HandleWrite(e)
    \/ HandleRecv(e)
    \/ HandleSend(e)

\* drive_once goes on.
Step ==
    \/ \E h \in Handles : Egress(h)
    \/ phase = "dispatch" /\ HandleEvent(Head(batch))
    \/ phase = "tcp" /\ HandleOp(Head(tcp_events))
    \/ phase = "udp" /\ HandleOp(Head(udp_events))

-----------------------------------------------------------------------------
(* The users of the stack *)

Direction(type) == IF type \in {"Read", "Recv"} THEN "in" ELSE "out"

TypesOf(kind) == IF kind = "tcp" THEN {"Read", "Write", "Shutdown"}
                                 ELSE {"Recv", "Send"}

Pending(i) == {o \in Ops : ops[o].st = "pending" /\ ops[o].id = i.id}

\* TcpAcceptor::poll_next, UdpAcceptor::poll_next
Accept(k) ==
    /\ k \in acceptors
    /\ accepted[k] # <<>>
    /\ streams' = streams \cup {Head(accepted[k])}
    /\ accepted' = [accepted EXCEPT ![k] = Tail(@)]
    /\ UNCHANGED <<sockVars, queue, driveVars, ops, lifeVars>>

\* read, write, shutdown, recv, send up to their await: the event is sent, or
\* the call fails because the generator is gone.
Issue(o, i, type) ==
    /\ ops[o].st = "unused"
    /\ i \in streams
    /\ type \in TypesOf(i.kind)
    /\ \/ "concurrent" \in Faults
       \/ \A p \in Pending(i) : Direction(ops[p].type) # Direction(type)
    /\ ops' = [ops EXCEPT ![o] = [type |-> type, id |-> i.id,
                   st |-> IF generator THEN "pending" ELSE "err"]]
    /\ queue' = IF generator THEN Append(queue, Event(type, i, o)) ELSE queue
    /\ UNCHANGED <<sockVars, driveVars, userVars, lifeVars>>

\* The future is dropped; its event stays where it is.
Cancel(o) ==
    /\ "cancel" \in Faults
    /\ ops[o].st = "pending"
    /\ ops' = [ops EXCEPT ![o].st = "cancelled"]
    /\ UNCHANGED <<sockVars, queue, driveVars, userVars, lifeVars>>

\* A bug: both halves of a stream that was split send its Close event.
DropBothHalves(i) ==
    /\ i \in streams
    /\ Pending(i) = {}
    /\ streams' = streams \ {i}
    /\ queue' = queue \o <<Event("Close", i, None), Event("Close", i, None)>>
    /\ UNCHANGED <<sockVars, driveVars, accepted, ops, lifeVars>>

\* Drop for TcpStream and UdpSocket; a pending future borrows the stream.
DropStream(i) ==
    /\ i \in streams
    /\ Pending(i) = {}
    /\ streams' = streams \ {i}
    /\ queue' = IF generator THEN Append(queue, Event("Close", i, None)) ELSE queue
    /\ UNCHANGED <<sockVars, driveVars, accepted, ops, lifeVars>>

DropAcceptor(k) ==
    /\ "acceptor" \in Faults
    /\ k \in acceptors
    /\ acceptors' = acceptors \ {k}
    /\ accepted' = [accepted EXCEPT ![k] = <<>>]
    /\ UNCHANGED <<sockVars, queue, driveVars, streams, ops, stack, generator>>

\* The generator goes with what is in the channel; the first n events are
\* in batches that it returned before.
DropGenerator(n) ==
    /\ "generator" \in Faults
    /\ generator
    /\ generator' = FALSE
    /\ queue' = SubSeq(queue, 1, n)
    /\ ops' = Settle(ops, OpsOf(SubSeq(queue, n + 1, Len(queue))), "lost")
    /\ UNCHANGED <<sockVars, driveVars, userVars, stack, acceptors>>

DropStack ==
    /\ "stack" \in Faults
    /\ stack = "up"
    /\ phase = "idle"
    /\ Free("dropped")

\* What was sent to a stack that is gone is dropped by whoever holds it.
Discard ==
    /\ stack # "up"
    /\ queue # <<>>
    /\ queue' = <<>>
    /\ ops' = Settle(ops, OpsOf(queue), "lost")
    /\ UNCHANGED <<sockVars, driveVars, userVars, lifeVars>>

User ==
    \/ \E k \in Kinds : Accept(k)
    \/ \E o \in Ops, i \in streams, type \in OpTypes : Issue(o, i, type)
    \/ \E o \in Ops : Cancel(o)
    \/ \E i \in streams : DropStream(i)

Drops ==
    \/ \E k \in Kinds : DropAcceptor(k)
    \/ \E n \in Batches : DropGenerator(n)
    \/ DropStack
    \/ Discard

Next == Drive \/ Step \/ User \/ Drops

Spec == Init /\ [][Next]_vars

\* The driver is woken by every batch of events and hands it to drive_once,
\* which runs to its end (examples/echo.rs, drive_task and events_task).  When
\* the driver has ended, nothing makes anybody drop a batch that it was to get:
\* see Runtime.
DriveEvents == DriveOnly(Len(queue))

Fairness == WF_vars(DriveEvents) /\ WF_vars(Step)

FairSpec == Spec /\ Fairness

\* Besides, a peer goes on with its connection, it acknowledges what it gets
\* and finishes; and the driver sleeps no longer than the delay that drive_once
\* returns, so that TIME-WAIT ends.
PeerGoesOn(c) ==
    \E seg \in {"ACK", "FIN"} : \E n \in Batches : DriveSegment(c, seg, n)
TimeWaitEnds == \E k \in Handles : \E n \in Batches : DriveExpire(k, n)

PeersGoOn == (\A c \in Conns : WF_vars(PeerGoesOn(c))) /\ WF_vars(TimeWaitEnds)

PeerFairSpec == FairSpec /\ PeersGoOn

-----------------------------------------------------------------------------
(* Properties: the tables of the stack *)

Occupied == {h \in Handles : sockets[h].kind # "none"}

\* socket_handles and accepted_udp_sockets, which are kept by hand next to the
\* SocketSet, describe it exactly: a handle is known under the kind of the
\* socket in its slot, and an endpoint is known exactly when one UDP socket is
\* bound to it.  get_mut and remove panic otherwise.
HandleTable ==
    /\ socket_handles = {<<sockets[h].kind, h>> : h \in Occupied}
    /\ accepted_udp_sockets =
          {sockets[h].ep : h \in {k \in Handles : sockets[k].kind = "udp"}}
    /\ \A h, k \in Handles :
          (sockets[h].kind = "udp" /\ sockets[k].kind = "udp"
             /\ sockets[h].ep = sockets[k].ep) => h = k

-----------------------------------------------------------------------------
(* Properties: who answers an operation *)

\* The events on their way through the channel and drive_once.
Flow == queue \o batch \o tcp_events \o udp_events

Holders(o) ==
    Cardinality({i \in DOMAIN Flow : Flow[i].op = o})
      + Cardinality({h \in Handles : sockets[h].rw.op = o})
      + Cardinality({h \in Handles : sockets[h].tw.op = o})

\* A pending future has exactly one result sender, in the channel, in
\* drive_once or in a waker: it cannot be answered twice, nor wait for a
\* sender that nobody holds.  A future that has its answer has no sender left.
OneHolder ==
    \A o \in Ops :
        CASE ops[o].st = "pending"   -> Holders(o) = 1
          [] ops[o].st = "cancelled" -> Holders(o) <= 1
          [] OTHER                   -> Holders(o) = 0

\* The waker rw or tw of a socket waits for something that has not happened
\* yet, so that no operation sleeps on a socket that could serve it: a read
\* waits for data that may come, a write for room, a shutdown for the end of
\* the connection, a close for a connection that still is active.
Blocked(s) ==
    /\ s.rw.type = "Read"  => s.rx = 0 /\ MayRecv(s)
    /\ s.rw.type = "Recv"  => s.rx = 0
    /\ s.rw.type = "Ready" => ~MayRecv(s)
    /\ s.rw.type = "Close" => s.st \in {"FinWait1", "FinWait2", "Closing", "LastAck"}
    /\ s.tw.type \in {"Write", "Send"} => s.tx = TxCap
    /\ s.tw.type = "Write" => MaySend(s)
    /\ s.tw.type = "Ready" => s.st = "Listen"
    /\ s.tw.type = "ShutdownDone" =>
          s.st \in {"Closed", "FinWait1", "FinWait2", "Closing", "LastAck", "TimeWait"}

ParkedBlocked == \A h \in Handles : Blocked(sockets[h])

\* A future reports BrokenPipe ("TcpStack or EventGenerator may be dropped")
\* only when one of them is gone.
LostOnlyIfGone ==
    (\E o \in Ops : ops[o].st = "lost") => (stack # "up" \/ ~generator)

-----------------------------------------------------------------------------
(* Properties: who owns a socket *)

\* The events, announcements and streams that own a socket: they are what will
\* lead to its Close.
OwnerTypes == {"Ready", "Close"}
InFlow(i) == Cardinality({k \in DOMAIN Flow : Flow[k].type \in OwnerTypes /\ Flow[k].id = i})
InWakers(i) ==
    Cardinality({h \in Handles : sockets[h].rw.type \in OwnerTypes /\ sockets[h].rw.id = i})
      + Cardinality({h \in Handles : sockets[h].tw.type \in OwnerTypes /\ sockets[h].tw.id = i})
InAccepted(i) ==
    Cardinality({n \in DOMAIN accepted["tcp"] : accepted["tcp"][n].id = i})
      + Cardinality({n \in DOMAIN accepted["udp"] : accepted["udp"][n].id = i})
InStreams(i) == Cardinality({x \in streams : x.id = i})
Owners(i) == InFlow(i) + InWakers(i) + InAccepted(i) + InStreams(i)

\* Is handle h of kind k still the socket i?
Names(x) == sockets[x.h].id = x.id /\ sockets[x.h].kind = x.kind

\* No socket is ever announced, accepted or closed twice, and an owner's handle
\* still is the socket it was made for: handle_ready_wake_event, which does not
\* look at socket_handles, and handle_close_event never act on a socket that
\* took over the slot.
OwnersUnique ==
    /\ \A i \in 1..MaxIds : Owners(i) <= 1
    /\ stack = "up" =>
        /\ \A k \in DOMAIN Flow : Flow[k].type \in OwnerTypes => Names(Flow[k])
        /\ \A k \in Kinds : \A n \in DOMAIN accepted[k] : Names(accepted[k][n])
        /\ \A x \in streams : Names(x)

\* Every socket of the stack has an owner: its announcement is under way or
\* waits in a waker, or somebody holds its stream, or its Close is under way or
\* waits in a waker.  A socket without one can never be removed.  This does not
\* say that a waker is ever woken: that of a listener whose SYN went to another
\* socket is not, nor that of a connection that was finished too early
\* (ConnectionIsAnnounced).
NoOrphan == \A h \in Occupied : Owners(sockets[h].id) = 1

\* The operation that drive_once looks at.
Current == Head(IF phase = "tcp" THEN tcp_events ELSE udp_events)

\* Does this step take data out of the receive buffer of h?
Takes(h) == phase \in {"tcp", "udp"} /\ sockets'[h].rx < sockets[h].rx

\* read and recv return data of the stream they were called on: a handle that
\* SocketSet gave to a new connection leads no old operation to its data.
DataOfItsStream ==
    [][\A h \in Handles : Takes(h) => Current.id = sockets[h].id]_vars

\* Data that drive_once takes out of a receive buffer goes to a future that
\* still waits for it, on the stream it was sent to: nothing is taken for an
\* operation that has its answer.
DataReachesReader ==
    [][\A h \in Handles :
          Takes(h) => /\ Current.id = sockets[h].id
                      /\ ops[Current.op].st = "pending"]_vars

\* drive_once does not panic: a connection that is announced has its endpoints.
NoPanic == stack # "panicked"

-----------------------------------------------------------------------------
(* Properties: progress *)

SocketOf(o) == {h \in Handles : sockets[h].id = ops[o].id}

\* The socket of operation o could serve it.
Servable(o) ==
    \E h \in SocketOf(o) :
        LET s == sockets[h]
        IN  CASE ops[o].type = "Read"  -> s.rx > 0 \/ ~MayRecv(s)
              [] ops[o].type = "Recv"  -> s.rx > 0
              [] ops[o].type = "Write" -> CanSend(s) \/ ~MaySend(s)
              [] ops[o].type = "Send"  -> s.tx < TxCap
              [] OTHER                 -> FALSE

\* An operation whose socket has data, room or its end for it returns: between
\* poll, wakers, channel and drive_once no wakeup is lost.
OpServed ==
    \A o \in Ops :
        (ops[o].st = "pending" /\ Servable(o)) ~> (ops[o].st # "pending" \/ stack # "up")

Closing(i) ==
    \/ \E k \in DOMAIN Flow : Flow[k].type = "Close" /\ Flow[k].id = i
    \/ \E h \in Handles : sockets[h].rw.type = "Close" /\ sockets[h].rw.id = i

\* A socket in a slot before that of i has the connection of i too, since
\* init_tcp adds a listener for a repeated SYN as well.  It is asked first, and
\* takes the segments of the peer.
Shadowed(i) ==
    \E h, k \in Handles :
        /\ sockets[h].id = i /\ sockets[h].peer # None
        /\ k < h /\ sockets[k].peer = sockets[h].peer

Released(i) == \A h \in Handles : sockets[h].id # i

\* The socket of a stream that is dropped leaves the stack, through however
\* many Close events that takes, if its peer goes on and reaches it: while
\* another socket has its connection, its Close waits for segments that go to
\* that one.
DroppedIsReleased ==
    PeersGoOn =>
        \A i \in 1..MaxIds :
            []<>~Shadowed(i) => (Closing(i) ~> (stack # "up" \/ Released(i)))

Announced(i) == InAccepted(i) + InStreams(i) > 0

\* In slot h, socket i is bound to its endpoint or connected.
Lasts(h, i) ==
    /\ sockets[h].id = i
    /\ sockets[h].kind = "udp" \/ sockets[h].st = "Established"

\* A UDP socket, or a connection that stays established, is announced to the
\* acceptor, however late drive_once gets to its Ready event.
LastingIsAnnounced ==
    \A h \in Handles : \A i \in 1..MaxIds :
        Lasts(h, i) ~> (stack # "up" \/ ~Lasts(h, i) \/ Announced(i))

\* A connection that is established is announced to the acceptor even if its
\* peer is done before drive_once gets to the Ready event, as a TcpListener
\* does, unless its stream is closed already.
ConnectionIsAnnounced ==
    \A h \in Handles : \A i \in 1..MaxIds :
        (sockets[h].id = i /\ sockets[h].st = "Established")
            ~> (stack # "up" \/ sockets[h].id # i \/ Announced(i) \/ Closing(i))

\* shutdown returns.
ShutdownReturns ==
    \A o \in Ops :
        (ops[o].st = "pending" /\ ops[o].type = "Shutdown") ~> (ops[o].st # "pending")

=============================================================================
