---------------------------- MODULE TcpStackProof ----------------------------
(***************************************************************************)
(* Three safety properties of TcpStack, for any number of sockets,         *)
(* operations, peers and endpoints and any of the faults: every variable   *)
(* keeps its type, the tables next to the SocketSet describe it, and no    *)
(* operation sleeps on a socket that could serve it.                       *)
(***************************************************************************)
EXTENDS TcpStack, SequenceTheorems, TLAPS

-----------------------------------------------------------------------------
(* Types of the smoltcp operators *)

LEMMA EventIsWaker == Events \subseteq Wakers
BY DEF Events, Wakers

LEMMA NoSocketType == NoWaker \in Wakers /\ NoSocket \in Sockets
<1>1. NoWaker \in Wakers
  BY DEF Wakers
<1>2. 0 \in Ids /\ 0 \in 0..RxCap /\ 0 \in 0..TxCap
  BY BoundAssumption, CapAssumption DEF Ids
<1> QED
  BY <1>1, <1>2 DEF NoSocket, Sockets, TcpStates

LEMMA NewSocketType ==
    ASSUME NEW id \in Ids, NEW d \in TcpAddrs \cup UdpAddrs, NEW w \in Wakers
    PROVE  /\ ReadyOnSend(TcpListener(id, d), w) \in Sockets
           /\ UdpBound(id, d) \in Sockets
BY NoSocketType DEF ReadyOnSend, TcpListener, UdpBound, Sockets, Kinds, TcpStates

LEMMA SetStateType ==
    ASSUME NEW s \in Sockets, NEW st \in TcpStates
    PROVE  SetState(s, st) \in Sockets
BY NoSocketType DEF SetState, Sockets

LEMMA TcpCloseType == ASSUME NEW s \in Sockets PROVE TcpClose(s) \in Sockets
BY SetStateType DEF TcpClose, TcpStates

LEMMA EmptyBuffers == 0 \in 0..RxCap /\ 0 \in 0..TxCap
BY CapAssumption

LEMMA UdpCloseType == ASSUME NEW s \in Sockets PROVE UdpClose(s) \in Sockets
BY NoSocketType, EmptyBuffers DEF UdpClose, Sockets

LEMMA ExpireType == ASSUME NEW s \in Sockets PROVE Expire(s) \in Sockets
<1>1. SetState(s, "Closed") \in Sockets
  BY SetStateType DEF TcpStates
<1> QED
  BY <1>1, EmptyBuffers DEF Expire, Sockets

LEMMA DatagramType == ASSUME NEW s \in Sockets PROVE Datagram(s) \in Sockets
<1>1. s.rx < RxCap => s.rx + 1 \in 0..RxCap
  BY CapAssumption DEF Sockets
<1> QED
  BY <1>1, NoSocketType DEF Datagram, Sockets

LEMMA TransmitType == ASSUME NEW s \in Sockets PROVE Transmit(s) \in Sockets
BY NoSocketType, EmptyBuffers DEF Transmit, Sockets

LEMMA ProcessType ==
    ASSUME NEW s \in Sockets, NEW c \in Conns, NEW seg
    PROVE  Process(s, c, seg) \in Sockets
<1>1. SegState(s, seg) \in TcpStates
  BY DEF SegState, TcpStates, Sockets
<1>2. SegPeer(s, c, SegState(s, seg)) \in Conns \cup {None}
  BY DEF SegPeer, Sockets
<1>3. SegRx(s, seg, SegState(s, seg)) \in 0..RxCap
  BY CapAssumption DEF SegRx, Sockets
<1>4. (IF seg = "ACK" THEN 0 ELSE s.tx) \in 0..TxCap
  BY CapAssumption DEF Sockets
<1> QED
  BY <1>1, <1>2, <1>3, <1>4, NoSocketType DEF Process, Sockets

-----------------------------------------------------------------------------
(* Types of events, wakers and results *)

LEMMA SendsType ==
    ASSUME NEW s \in Sockets, NEW t \in Sockets
    PROVE  Sends(s, t) \in Seq(Events)
<1>1. ASSUME NEW w \in Wakers PROVE WakeSend(w) \in Seq(Events)
  <2>1. w.type \in EventTypes => w \in Events
    BY DEF Wakers, NoWaker, Events, EventTypes, OpTypes
  <2> QED
    BY <2>1 DEF WakeSend
<1>2. WokenRw(s, t) \in Wakers /\ WokenTw(s, t) \in Wakers
  BY NoSocketType DEF WokenRw, WokenTw, Sockets
<1>3. WakeSend(WokenRw(s, t)) \in Seq(Events) /\ WakeSend(WokenTw(s, t)) \in Seq(Events)
  BY <1>1, <1>2
<1> QED
  BY <1>3, ConcatProperties DEF Sends

LEMMA SettleType ==
    ASSUME NEW f \in [Ops -> Futures], NEW O, NEW r \in OpStates
    PROVE  Settle(f, O, r) \in [Ops -> Futures]
<1>1. ASSUME NEW o \in Ops PROVE [f[o] EXCEPT !.st = r] \in Futures
  BY DEF Futures
<1> QED
  BY <1>1 DEF Settle

LEMMA ResultsType ==
    ASSUME NEW f \in [Ops -> Futures], NEW s, NEW t
    PROVE  Results(f, s, t) \in [Ops -> Futures]
<1>1. "ok" \in OpStates /\ "err" \in OpStates
  BY DEF OpStates
<1> QED
  BY <1>1, SettleType DEF Results

LEMMA DroppedType ==
    ASSUME NEW f \in [Ops -> Futures], NEW w
    PROVE  Dropped(f, w) \in [Ops -> Futures]
<1>1. "lost" \in OpStates
  BY DEF OpStates
<1> QED
  BY <1>1, SettleType DEF Dropped

LEMMA SplitType ==
    ASSUME NEW q \in Seq(Events), NEW n \in 0..Len(q)
    PROVE  SubSeq(q, 1, n) \in Seq(Events) /\ SubSeq(q, n + 1, Len(q)) \in Seq(Events)
<1>1. \A i \in 1..Len(q) : q[i] \in Events
  OBVIOUS
<1>2. \A i \in 1..n : q[i] \in Events
  BY <1>1
<1>3. \A i \in (n + 1)..Len(q) : q[i] \in Events
  BY <1>1
<1> QED
  BY <1>2, <1>3, SubSeqProperties

-----------------------------------------------------------------------------
(* The inductive type invariant *)

SocketTypes == sockets \in [Handles -> Sockets]

TableTypes ==
    /\ socket_handles \in SUBSET (Kinds \X Handles)
    /\ accepted_udp_sockets \in SUBSET UdpAddrs
    /\ next_id \in 1..(MaxIds + 1)

FlowTypes ==
    /\ queue \in Seq(Events)
    /\ batch \in Seq(Events)
    /\ tcp_events \in Seq(Events)
    /\ udp_events \in Seq(Events)
    /\ phase \in {"idle", "egress", "dispatch", "tcp", "udp"}

UserTypes == accepted \in [Kinds -> Seq(Infos)] /\ streams \in SUBSET Infos

OpTypesOK == ops \in [Ops -> Futures]

LifeTypes ==
    /\ stack \in {"up", "dropped", "panicked"}
    /\ generator \in BOOLEAN
    /\ acceptors \in SUBSET Kinds

\* drive_once is in a loop only while it has an event to look at.
PhaseOK ==
    /\ phase = "dispatch" => batch # <<>>
    /\ phase = "tcp" => tcp_events # <<>>
    /\ phase = "udp" => udp_events # <<>>

Typed ==
    /\ SocketTypes /\ TableTypes /\ FlowTypes
    /\ UserTypes /\ OpTypesOK /\ LifeTypes
    /\ PhaseOK

LEMMA TypedTypeOK == Typed => TypeOK
BY DEF Typed, TypeOK, SocketTypes, TableTypes, FlowTypes, UserTypes, OpTypesOK,
       LifeTypes

LEMMA NextPhaseOK ==
    ASSUME NEW b, NEW te, NEW ue
    PROVE  /\ NextPhase(b, te, ue) \in {"idle", "dispatch", "tcp", "udp"}
           /\ NextPhase(b, te, ue) = "dispatch" => b # <<>>
           /\ NextPhase(b, te, ue) = "tcp" => te # <<>>
           /\ NextPhase(b, te, ue) = "udp" => ue # <<>>
BY DEF NextPhase

LEMMA InitTyped == Init => Typed
<1> SUFFICES ASSUME Init PROVE Typed
  OBVIOUS
<1>1. SocketTypes
  BY NoSocketType DEF Init, SocketTypes
<1>2. TableTypes
  BY BoundAssumption DEF Init, TableTypes
<1>3. FlowTypes /\ UserTypes /\ LifeTypes
  BY DEF Init, FlowTypes, UserTypes, LifeTypes
<1>4. OpTypesOK
  BY BoundAssumption DEF Init, OpTypesOK, Futures, OpStates, Ids
<1>5. PhaseOK
  BY DEF Init, PhaseOK
<1> QED
  BY <1>1, <1>2, <1>3, <1>4, <1>5 DEF Typed

LEMMA BeginTyped ==
    ASSUME Typed, NEW n \in Batches, NEW ss \in [Handles -> Sockets],
           NEW sent \in Seq(Events), Begin(n, ss, sent)
    PROVE  SocketTypes' /\ FlowTypes' /\ UserTypes' /\ LifeTypes' /\ PhaseOK'
<1>1. FlowTypes /\ UserTypes /\ LifeTypes
  BY DEF Typed
<1>2. SubSeq(queue, 1, n) \in Seq(Events) /\ SubSeq(queue, n + 1, Len(queue)) \in Seq(Events)
  BY <1>1, SplitType DEF FlowTypes, Batches
<1>3. queue' \in Seq(Events)
  BY <1>2, ConcatProperties DEF Begin
<1>4. /\ phase' \in {"idle", "egress", "dispatch", "tcp", "udp"}
      /\ phase' = "dispatch" => SubSeq(queue, 1, n) # <<>>
      /\ phase' # "tcp" /\ phase' # "udp"
  BY NextPhaseOK DEF Begin
<1>5. FlowTypes' /\ PhaseOK'
  BY <1>1, <1>2, <1>3, <1>4 DEF Begin, FlowTypes, PhaseOK
<1>6. SocketTypes'
  BY DEF Begin, SocketTypes
<1>7. UserTypes' /\ LifeTypes'
  BY <1>1 DEF Begin, UserTypes, LifeTypes, userVars, lifeVars
<1> QED
  BY <1>5, <1>6, <1>7

LEMMA FailTyped ==
    ASSUME Typed, NEW n \in Batches, Fail(n)
    PROVE  FlowTypes' /\ UserTypes' /\ LifeTypes' /\ OpTypesOK' /\ PhaseOK'
<1>1. FlowTypes /\ UserTypes /\ LifeTypes /\ OpTypesOK /\ PhaseOK
  BY DEF Typed
<1>2. queue' \in Seq(Events)
  BY <1>1, SplitType DEF FlowTypes, Batches, Fail
<1>3. OpTypesOK'
  BY <1>1, SettleType DEF Fail, OpTypesOK, OpStates
<1> QED
  BY <1>1, <1>2, <1>3 DEF Fail, FlowTypes, UserTypes, LifeTypes, PhaseOK,
                          driveVars, userVars, lifeVars

\* What a step of the poll does to one socket.
LEMMA PolledTyped ==
    ASSUME Typed, NEW n \in Batches, NEW ss \in [Handles -> Sockets],
           NEW k \in Handles, NEW t \in Sockets,
           Begin(n, [ss EXCEPT ![k] = t], Sends(ss[k], t)),
           ops' = Results(ops, ss[k], t), TableTypes'
    PROVE  Typed'
<1>1. ss[k] \in Sockets /\ [ss EXCEPT ![k] = t] \in [Handles -> Sockets]
  OBVIOUS
<1>2. Sends(ss[k], t) \in Seq(Events)
  BY <1>1, SendsType
<1>3. SocketTypes' /\ FlowTypes' /\ UserTypes' /\ LifeTypes' /\ PhaseOK'
  BY <1>1, <1>2, BeginTyped
<1>4. OpTypesOK'
  BY ResultsType DEF Typed, OpTypesOK
<1> QED
  BY <1>3, <1>4 DEF Typed

LEMMA ReadyType ==
    ASSUME NEW h \in Handles, NEW kind \in Kinds, NEW id \in Ids
    PROVE  Event("Ready", [kind |-> kind, h |-> h, id |-> id], None) \in Events
BY DEF Event, Events, EventTypes

LEMMA NewId ==
    ASSUME TableTypes, next_id <= MaxIds
    PROVE  next_id \in Ids /\ next_id + 1 \in 1..(MaxIds + 1)
BY BoundAssumption DEF TableTypes, Ids

LEMMA DriveSynTyped ==
    ASSUME Typed, NEW c \in Conns, NEW n \in Batches, DriveSyn(c, n)
    PROVE  Typed'
<1>1. SocketTypes /\ TableTypes /\ next_id \in Ids
  BY NewId DEF Typed, DriveSyn
<1>2. PICK h \in Handles, k \in Handles :
        LET new == [kind |-> "tcp", h |-> h, id |-> next_id]
            added == [sockets EXCEPT ![h] =
                        ReadyOnSend(TcpListener(next_id, c[2]),
                                    Event("Ready", new, None))]
            polled == Process(added[k], c, "SYN")
        IN  /\ IsFirst(h, FreeHandles)
            /\ IsFirst(k, Takers(added, c, "SYN"))
            /\ socket_handles' = socket_handles \cup {<<"tcp", h>>}
            /\ next_id' = next_id + 1
            /\ ops' = Results(ops, added[k], polled)
            /\ Begin(n, [added EXCEPT ![k] = polled], Sends(added[k], polled))
  BY DEF DriveSyn
<1> DEFINE new == [kind |-> "tcp", h |-> h, id |-> next_id]
           l == ReadyOnSend(TcpListener(next_id, c[2]), Event("Ready", new, None))
           added == [sockets EXCEPT ![h] = l]
           polled == Process(added[k], c, "SYN")
<1>3. l \in Sockets
  <2>1. Event("Ready", new, None) \in Wakers
    BY <1>1, ReadyType, EventIsWaker DEF Kinds
  <2>2. c[2] \in TcpAddrs
    BY DEF Conns
  <2> QED
    BY <1>1, <2>1, <2>2, NewSocketType
<1>4. added \in [Handles -> Sockets]
  BY <1>1, <1>3 DEF SocketTypes
<1>5. added[k] \in Sockets
  BY <1>4
<1>6. polled \in Sockets
  BY <1>5, ProcessType
<1>7. TableTypes'
  <2>1. <<"tcp", h>> \in Kinds \X Handles
    BY DEF Kinds
  <2>2. next_id' \in 1..(MaxIds + 1)
    BY <1>1, <1>2, NewId DEF DriveSyn
  <2> QED
    BY <1>1, <1>2, <2>1, <2>2 DEF TableTypes, DriveSyn
<1> HIDE DEF l, added, polled
<1>8. ops' = Results(ops, added[k], polled)
      /\ Begin(n, [added EXCEPT ![k] = polled], Sends(added[k], polled))
  BY <1>2 DEF l, added, polled
<1> QED
  BY <1>4, <1>6, <1>7, <1>8, PolledTyped

LEMMA SamePolledTyped ==
    ASSUME Typed, NEW n \in Batches, NEW k \in Handles, NEW t \in Sockets,
           Begin(n, [sockets EXCEPT ![k] = t], Sends(sockets[k], t)),
           ops' = Results(ops, sockets[k], t),
           UNCHANGED <<socket_handles, accepted_udp_sockets, next_id>>
    PROVE  Typed'
<1>1. sockets \in [Handles -> Sockets] /\ TableTypes'
  BY DEF Typed, SocketTypes, TableTypes
<1> QED
  BY <1>1, PolledTyped

LEMMA DriveTyped == ASSUME Typed, Drive PROVE Typed'
<1>0. SocketTypes /\ TableTypes /\ OpTypesOK
  BY DEF Typed
<1>1. PICK n \in Batches :
        \/ \E c \in Conns : DriveSyn(c, n)
        \/ \E c \in Conns, seg \in Segments : DriveSegment(c, seg, n)
        \/ \E d \in UdpAddrs : DriveDatagram(d, n)
        \/ \E d \in UdpAddrs : DriveNewUdp(d, n)
        \/ DriveOnly(n)
        \/ \E k \in Handles : DriveExpire(k, n)
        \/ \E d \in TcpAddrs \cup UdpAddrs : DriveRefused(d, n)
        \/ \E d \in UdpAddrs : DriveUnannounced(d, n)
  BY DEF Drive
<1>2. ASSUME NEW c \in Conns, DriveSyn(c, n) PROVE Typed'
  BY <1>2, DriveSynTyped
<1>3. ASSUME NEW c \in Conns, NEW seg, DriveSegment(c, seg, n) PROVE Typed'
  <2>1. PICK k \in Handles :
          /\ ops' = Results(ops, sockets[k], Process(sockets[k], c, seg))
          /\ Begin(n, [sockets EXCEPT ![k] = Process(sockets[k], c, seg)],
                   Sends(sockets[k], Process(sockets[k], c, seg)))
    BY <1>3 DEF DriveSegment
  <2>2. Process(sockets[k], c, seg) \in Sockets
    BY <1>0, ProcessType DEF SocketTypes
  <2> QED
    BY <1>3, <2>1, <2>2, SamePolledTyped DEF DriveSegment
<1>4. ASSUME NEW d \in UdpAddrs, DriveDatagram(d, n) PROVE Typed'
  <2>1. PICK k \in Handles :
          /\ ops' = Results(ops, sockets[k], Datagram(sockets[k]))
          /\ Begin(n, [sockets EXCEPT ![k] = Datagram(sockets[k])],
                   Sends(sockets[k], Datagram(sockets[k])))
    BY <1>4 DEF DriveDatagram
  <2>2. Datagram(sockets[k]) \in Sockets
    BY <1>0, DatagramType DEF SocketTypes
  <2> QED
    BY <1>4, <2>1, <2>2, SamePolledTyped DEF DriveDatagram
<1>5. ASSUME NEW d \in UdpAddrs, DriveNewUdp(d, n) PROVE Typed'
  <2>1. PICK h \in Handles :
          /\ socket_handles' = socket_handles \cup {<<"udp", h>>}
          /\ Begin(n, [sockets EXCEPT ![h] = Datagram(UdpBound(next_id, d))],
                   <<Event("Ready", [kind |-> "udp", h |-> h, id |-> next_id], None)>>)
    BY <1>5 DEF DriveNewUdp
  <2>2. next_id \in Ids /\ next_id + 1 \in 1..(MaxIds + 1)
    BY <1>0, <1>5, NewId DEF DriveNewUdp
  <2>3. UdpBound(next_id, d) \in Sockets
    BY <2>2, NewSocketType, NoSocketType
  <2>4. [sockets EXCEPT ![h] = Datagram(UdpBound(next_id, d))] \in [Handles -> Sockets]
    BY <1>0, <2>3, DatagramType DEF SocketTypes
  <2>5. <<Event("Ready", [kind |-> "udp", h |-> h, id |-> next_id], None)>> \in Seq(Events)
    BY <2>2, ReadyType DEF Kinds
  <2>6. SocketTypes' /\ FlowTypes' /\ UserTypes' /\ LifeTypes' /\ PhaseOK'
    BY <2>1, <2>4, <2>5, BeginTyped
  <2>7. TableTypes'
    BY <1>0, <1>5, <2>1, <2>2 DEF DriveNewUdp, TableTypes, Kinds
  <2>8. OpTypesOK'
    BY <1>0, <1>5 DEF DriveNewUdp, OpTypesOK
  <2> QED
    BY <2>6, <2>7, <2>8 DEF Typed
<1>6. ASSUME DriveOnly(n) PROVE Typed'
  <2>1. SocketTypes' /\ FlowTypes' /\ UserTypes' /\ LifeTypes' /\ PhaseOK'
    <3>1. <<>> \in Seq(Events) /\ sockets \in [Handles -> Sockets]
      BY <1>0 DEF SocketTypes
    <3> QED
      BY <1>6, <3>1, BeginTyped DEF DriveOnly
  <2> QED
    BY <1>0, <1>6, <2>1 DEF DriveOnly, TableTypes, OpTypesOK, Typed
<1>7. ASSUME NEW k \in Handles, DriveExpire(k, n) PROVE Typed'
  <2>1. Expire(sockets[k]) \in Sockets
    BY <1>0, ExpireType DEF SocketTypes
  <2> QED
    BY <1>7, <2>1, SamePolledTyped DEF DriveExpire
<1>8. ASSUME NEW d, DriveRefused(d, n) PROVE Typed'
  <2>1. FlowTypes' /\ UserTypes' /\ LifeTypes' /\ OpTypesOK' /\ PhaseOK'
    BY <1>8, FailTyped DEF DriveRefused
  <2> QED
    BY <1>0, <1>8, <2>1
    DEF DriveRefused, SocketTypes, TableTypes, sockVars, Typed
<1>9. ASSUME NEW d \in UdpAddrs, DriveUnannounced(d, n) PROVE Typed'
  <2>1. FlowTypes' /\ UserTypes' /\ LifeTypes' /\ OpTypesOK' /\ PhaseOK'
    BY <1>9, FailTyped DEF DriveUnannounced
  <2>2. PICK h \in Handles :
          /\ sockets' = [sockets EXCEPT ![h] = UdpBound(next_id, d)]
          /\ socket_handles' = socket_handles \cup {<<"udp", h>>}
    BY <1>9 DEF DriveUnannounced
  <2>3. next_id \in Ids /\ next_id + 1 \in 1..(MaxIds + 1)
    BY <1>0, <1>9, NewId DEF DriveUnannounced
  <2>4. UdpBound(next_id, d) \in Sockets
    BY <2>3, NewSocketType, NoSocketType
  <2>5. SocketTypes'
    BY <1>0, <2>2, <2>4 DEF SocketTypes
  <2>6. TableTypes'
    BY <1>0, <1>9, <2>2, <2>3 DEF DriveUnannounced, TableTypes, Kinds
  <2> QED
    BY <2>1, <2>5, <2>6 DEF Typed
<1> QED
  BY <1>1, <1>2, <1>3, <1>4, <1>5, <1>6, <1>7, <1>8, <1>9

LEMMA EgressTyped == ASSUME Typed, NEW h \in Handles, Egress(h) PROVE Typed'
<1>1. Transmit(sockets[h]) \in Sockets /\ sockets[h] \in Sockets
  BY TransmitType DEF Typed, SocketTypes
<1>2. queue' \in Seq(Events)
  BY <1>1, SendsType, ConcatProperties DEF Egress, Typed, FlowTypes
<1>3. /\ phase' \in {"idle", "egress", "dispatch", "tcp", "udp"}
      /\ phase' = "dispatch" => batch # <<>>
      /\ phase' # "tcp" /\ phase' # "udp"
  BY NextPhaseOK DEF Egress
<1>4. FlowTypes' /\ PhaseOK'
  BY <1>2, <1>3 DEF Egress, Typed, FlowTypes, PhaseOK
<1>5. SocketTypes'
  BY <1>1 DEF Egress, Typed, SocketTypes
<1>6. OpTypesOK'
  BY ResultsType DEF Egress, Typed, OpTypesOK
<1>7. TableTypes' /\ UserTypes' /\ LifeTypes'
  BY DEF Egress, Typed, TableTypes, UserTypes, LifeTypes, userVars, lifeVars
<1> QED
  BY <1>4, <1>5, <1>6, <1>7 DEF Typed

\* The next event of the batch has the type of an event and leaves the batch.
LEMMA DispatchTyped ==
    ASSUME Typed, NEW e, NEW te \in Seq(Events), NEW ue \in Seq(Events),
           Dispatch(e, te, ue), queue' \in Seq(Events)
    PROVE  e \in Events /\ FlowTypes' /\ LifeTypes' /\ streams' \in SUBSET Infos /\ PhaseOK'
<1>1. batch \in Seq(Events) /\ batch # <<>>
  BY DEF Dispatch, Typed, FlowTypes, PhaseOK
<1>2. Head(batch) \in Events /\ Tail(batch) \in Seq(Events)
  BY <1>1
<1>3. /\ phase' \in {"idle", "dispatch", "tcp", "udp"}
      /\ phase' = "dispatch" => Tail(batch) # <<>>
      /\ phase' = "tcp" => te # <<>>
      /\ phase' = "udp" => ue # <<>>
  BY NextPhaseOK DEF Dispatch
<1>4. FlowTypes' /\ PhaseOK'
  BY <1>2, <1>3 DEF Dispatch, FlowTypes, PhaseOK
<1> QED
  BY <1>2, <1>4 DEF Dispatch, Typed, LifeTypes, UserTypes, lifeVars

LEMMA HeadOfBatch ==
    ASSUME Typed, phase = "dispatch"
    PROVE  Head(batch) \in Events
BY DEF Typed, FlowTypes, PhaseOK

LEMMA HandleTyped ==
    ASSUME Typed, NEW e, Handle(e), queue' \in Seq(Events)
    PROVE  e \in Events /\ FlowTypes' /\ LifeTypes' /\ streams' \in SUBSET Infos /\ PhaseOK'
BY DispatchTyped DEF Handle, Typed, FlowTypes

LEMMA FreeTyped == ASSUME Typed, NEW how \in {"dropped", "panicked"}, Free(how) PROVE Typed'
<1>1. SocketTypes'
  BY NoSocketType DEF Free, SocketTypes
<1>2. OpTypesOK'
  BY SettleType DEF Free, Typed, OpTypesOK, OpStates
<1>3. TableTypes'
  BY DEF Free, Typed, TableTypes
<1>4. FlowTypes' /\ PhaseOK'
  BY DEF Free, Typed, FlowTypes, PhaseOK
<1>5. UserTypes' /\ LifeTypes'
  BY DEF Free, Typed, UserTypes, LifeTypes, userVars
<1> QED
  BY <1>1, <1>2, <1>3, <1>4, <1>5 DEF Typed

LEMMA HandleEventTyped ==
    ASSUME Typed, phase = "dispatch", NEW e \in Events, HandleEvent(e)
    PROVE  Typed'
<1>0. /\ e.h \in Handles /\ e \in Wakers /\ sockets[e.h] \in Sockets
      /\ sockets \in [Handles -> Sockets] /\ ops \in [Ops -> Futures]
      /\ queue \in Seq(Events) /\ e.kind \in Kinds /\ e.id \in Ids
  BY EventIsWaker DEF Typed, SocketTypes, FlowTypes, OpTypesOK, Events
<1>1. ASSUME Defer(e) PROVE Typed'
  <2>1. /\ tcp_events \in Seq(Events) /\ udp_events \in Seq(Events)
        /\ Append(tcp_events, e) \in Seq(Events)
        /\ Append(udp_events, e) \in Seq(Events)
    BY DEF Typed, FlowTypes
  <2>2. queue' \in Seq(Events)
    BY <1>0, <1>1 DEF Defer
  <2>3. FlowTypes' /\ LifeTypes' /\ streams' \in SUBSET Infos /\ PhaseOK'
    BY <1>1, <2>1, <2>2, DispatchTyped DEF Defer
  <2> QED
    BY <1>1, <2>3 DEF Defer, Typed, SocketTypes, TableTypes, UserTypes, OpTypesOK, sockVars
<1>2. ASSUME ReadyNotYet(e) PROVE Typed'
  <2>1. queue' \in Seq(Events)
    BY <1>0, <1>2 DEF ReadyNotYet
  <2>2. FlowTypes' /\ LifeTypes' /\ streams' \in SUBSET Infos /\ PhaseOK'
    BY <1>2, <2>1, HandleTyped DEF ReadyNotYet
  <2>3. [sockets[e.h] EXCEPT !.rw = e] \in Sockets
    BY <1>0 DEF Sockets
  <2>4. SocketTypes'
    BY <1>0, <1>2, <2>3 DEF ReadyNotYet, SocketTypes
  <2>5. OpTypesOK'
    BY <1>0, <1>2, DroppedType DEF ReadyNotYet, OpTypesOK
  <2> QED
    BY <1>2, <2>2, <2>4, <2>5 DEF ReadyNotYet, Typed, TableTypes, UserTypes
<1>3. ASSUME Announce(e) PROVE Typed'
  <2>1. queue' \in Seq(Events)
    BY <1>0, <1>3 DEF Announce
  <2>2. FlowTypes' /\ LifeTypes' /\ streams' \in SUBSET Infos /\ PhaseOK'
    BY <1>3, <2>1, HandleTyped DEF Announce
  <2>3. [kind |-> e.kind, h |-> e.h, id |-> e.id] \in Infos
    BY <1>0 DEF Infos
  <2>4. accepted' \in [Kinds -> Seq(Infos)]
    <3>1. accepted \in [Kinds -> Seq(Infos)] /\ accepted[e.kind] \in Seq(Infos)
      BY <1>0 DEF Typed, UserTypes
    <3>2. Append(accepted[e.kind], [kind |-> e.kind, h |-> e.h, id |-> e.id]) \in Seq(Infos)
      BY <2>3, <3>1
    <3> QED
      BY <1>3, <3>1, <3>2 DEF Announce
  <2> QED
    BY <1>3, <2>2, <2>4 DEF Announce, Typed, SocketTypes, TableTypes, UserTypes, OpTypesOK, sockVars
<1>4. ASSUME ReadyPanic(e) PROVE Typed'
  BY <1>4, FreeTyped DEF ReadyPanic
<1>5. ASSUME HandleShutdown(e) PROVE Typed'
  <2> DEFINE w == [e EXCEPT !.type = "ShutdownDone"]
             x == [sockets[e.h] EXCEPT !.tw = w]
  <2>1. w \in Wakers
    BY DEF Events, Wakers
  <2>2. x \in Sockets
    BY <1>0, <2>1 DEF Sockets
  <2>3. TcpClose(x) \in Sockets /\ Sends(x, TcpClose(x)) \in Seq(Events)
    BY <2>2, TcpCloseType, SendsType
  <2> HIDE DEF x, w
  <2>4. \/ /\ sockets' = [sockets EXCEPT ![e.h] = TcpClose(x)]
           /\ Wakes(x, TcpClose(x), sockets[e.h].tw)
        \/ ops' = Settle(ops, {e.op}, "err") /\ UNCHANGED <<sockets, queue>>
    BY <1>5 DEF HandleShutdown, x, w
  <2>5. queue' \in Seq(Events)
    <3>1. queue \o Sends(x, TcpClose(x)) \in Seq(Events)
      BY <1>0, <2>3, ConcatProperties
    <3>2. queue' = queue \o Sends(x, TcpClose(x)) \/ queue' = queue
      BY <2>4 DEF Wakes
    <3> QED
      BY <1>0, <3>1, <3>2
  <2>6. FlowTypes' /\ LifeTypes' /\ streams' \in SUBSET Infos /\ PhaseOK'
    BY <1>5, <2>5, HandleTyped DEF HandleShutdown
  <2>7. SocketTypes'
    <3>1. [sockets EXCEPT ![e.h] = TcpClose(x)] \in [Handles -> Sockets]
      BY <1>0, <2>3
    <3> QED
      BY <1>0, <2>4, <3>1 DEF SocketTypes
  <2>8. OpTypesOK'
    <3>1. Settle(ops, {e.op}, "err") \in [Ops -> Futures]
      BY <1>0, SettleType DEF OpStates
    <3>2. Results(ops, x, TcpClose(x)) \in [Ops -> Futures]
      BY <1>0, ResultsType
    <3>3. Dropped(Results(ops, x, TcpClose(x)), sockets[e.h].tw) \in [Ops -> Futures]
      BY <3>2, DroppedType
    <3> QED
      BY <2>4, <3>1, <3>3 DEF Wakes, OpTypesOK
  <2> QED
    BY <1>5, <2>6, <2>7, <2>8 DEF HandleShutdown, Typed, TableTypes, UserTypes
<1>6. ASSUME HandleClose(e) PROVE Typed'
  <2> DEFINE x == IF e.kind = "tcp" THEN TcpClose(sockets[e.h]) ELSE UdpClose(sockets[e.h])
  <2>1. x \in Sockets
    BY <1>0, TcpCloseType, UdpCloseType
  <2>2. Sends(sockets[e.h], x) \in Seq(Events)
    BY <1>0, <2>1, SendsType
  <2> HIDE DEF x
  <2>3. \/ UNCHANGED <<sockets, socket_handles, accepted_udp_sockets, queue, ops>>
        \/ AwaitInactive(e, x)
        \/ Remove(e, x)
    BY <1>6 DEF HandleClose, x
  <2>4. queue' \in Seq(Events)
    <3>1. queue \o Sends(sockets[e.h], x) \in Seq(Events)
      BY <1>0, <2>2, ConcatProperties
    <3>2. queue' = queue \o Sends(sockets[e.h], x) \/ queue' = queue
      BY <2>3 DEF AwaitInactive, Remove, Wakes
    <3> QED
      BY <1>0, <3>1, <3>2
  <2>5. FlowTypes' /\ LifeTypes' /\ streams' \in SUBSET Infos /\ PhaseOK'
    BY <1>6, <2>4, HandleTyped DEF HandleClose
  <2>6. [x EXCEPT !.rw = e] \in Sockets
    BY <1>0, <2>1 DEF Sockets
  <2>7. SocketTypes'
    <3>1. /\ [sockets EXCEPT ![e.h] = [x EXCEPT !.rw = e]] \in [Handles -> Sockets]
          /\ [sockets EXCEPT ![e.h] = NoSocket] \in [Handles -> Sockets]
      BY <1>0, <2>6, NoSocketType
    <3> QED
      BY <1>0, <2>3, <3>1 DEF AwaitInactive, Remove, SocketTypes
  <2>8. OpTypesOK'
    <3> DEFINE f == Results(ops, sockets[e.h], x)
    <3>1. f \in [Ops -> Futures]
      BY <1>0, ResultsType
    <3>2. Dropped(f, x.rw) \in [Ops -> Futures]
      BY <3>1, DroppedType
    <3>3. Dropped(Dropped(f, x.rw), x.tw) \in [Ops -> Futures]
      BY <3>2, DroppedType
    <3> QED
      BY <1>0, <2>3, <3>2, <3>3 DEF AwaitInactive, Remove, Wakes, OpTypesOK
  <2>9. TableTypes'
    BY <1>6, <2>3 DEF HandleClose, AwaitInactive, Remove, Typed, TableTypes
  <2> QED
    BY <1>6, <2>5, <2>7, <2>8, <2>9 DEF HandleClose, Typed, UserTypes
<1> QED
  BY <1>1, <1>2, <1>3, <1>4, <1>5, <1>6 DEF HandleEvent

\* The next operation put aside has the type of an event.
LEMMA OpEventTyped ==
    ASSUME Typed, NEW e, TcpEvent(e) \/ UdpEvent(e)
    PROVE  /\ e \in Events
           /\ TableTypes' /\ FlowTypes' /\ UserTypes' /\ LifeTypes' /\ PhaseOK'
<1>1. CASE TcpEvent(e)
  <2>1. tcp_events \in Seq(Events) /\ tcp_events # <<>>
    BY <1>1 DEF TcpEvent, Typed, FlowTypes, PhaseOK
  <2>2. Head(tcp_events) \in Events /\ Tail(tcp_events) \in Seq(Events)
    BY <2>1
  <2>3. /\ phase' \in {"idle", "dispatch", "tcp", "udp"} /\ phase' # "dispatch"
        /\ phase' = "tcp" => Tail(tcp_events) # <<>>
        /\ phase' = "udp" => udp_events # <<>>
    BY <1>1, NextPhaseOK DEF TcpEvent
  <2>4. FlowTypes' /\ PhaseOK'
    BY <1>1, <2>2, <2>3 DEF TcpEvent, Typed, FlowTypes, PhaseOK
  <2> QED
    BY <1>1, <2>2, <2>4 DEF TcpEvent, Typed, TableTypes, UserTypes, LifeTypes, userVars, lifeVars
<1>2. CASE UdpEvent(e)
  <2>1. udp_events \in Seq(Events) /\ udp_events # <<>>
    BY <1>2 DEF UdpEvent, Typed, FlowTypes, PhaseOK
  <2>2. Head(udp_events) \in Events /\ Tail(udp_events) \in Seq(Events)
    BY <2>1
  <2>3. /\ phase' \in {"idle", "dispatch", "tcp", "udp"}
        /\ phase' # "dispatch" /\ phase' # "tcp"
        /\ phase' = "udp" => Tail(udp_events) # <<>>
    BY <1>2, NextPhaseOK DEF UdpEvent
  <2>4. FlowTypes' /\ PhaseOK'
    BY <1>2, <2>2, <2>3 DEF UdpEvent, Typed, FlowTypes, PhaseOK
  <2> QED
    BY <1>2, <2>2, <2>4 DEF UdpEvent, Typed, TableTypes, UserTypes, LifeTypes, userVars, lifeVars
<1> QED
  BY <1>1, <1>2

\* The ways in which an operation ends or waits.
LEMMA OpOutcomeTyped ==
    ASSUME SocketTypes, OpTypesOK, NEW e \in Events
    PROVE  /\ \A r \in OpStates : Answer(e, r) => SocketTypes' /\ OpTypesOK'
           /\ \A rx \in 0..RxCap, tx \in 0..TxCap, r \in OpStates :
                  Move(e, rx, tx, r) => SocketTypes' /\ OpTypesOK'
           /\ ParkRecv(e) \/ ParkSend(e) => SocketTypes' /\ OpTypesOK'
<1>0. /\ e.h \in Handles /\ e \in Wakers /\ sockets[e.h] \in Sockets
      /\ sockets \in [Handles -> Sockets] /\ ops \in [Ops -> Futures]
  BY EventIsWaker DEF SocketTypes, OpTypesOK, Events
<1>1. ASSUME NEW r \in OpStates, Answer(e, r) PROVE SocketTypes' /\ OpTypesOK'
  BY <1>0, <1>1, SettleType DEF Answer, SocketTypes, OpTypesOK
<1>2. ASSUME NEW rx \in 0..RxCap, NEW tx \in 0..TxCap, NEW r \in OpStates, Move(e, rx, tx, r)
      PROVE  SocketTypes' /\ OpTypesOK'
  <2>1. [sockets[e.h] EXCEPT !.rx = rx] \in Sockets
    BY <1>0 DEF Sockets
  <2>2. [[sockets[e.h] EXCEPT !.rx = rx] EXCEPT !.tx = tx] \in Sockets
    BY <2>1 DEF Sockets
  <2>3. sockets' = [sockets EXCEPT ![e.h] = [[sockets[e.h] EXCEPT !.rx = rx] EXCEPT !.tx = tx]]
    BY <1>0, <1>2 DEF Move
  <2> QED
    BY <1>0, <1>2, <2>2, <2>3, SettleType DEF Move, SocketTypes, OpTypesOK
<1>3. ASSUME ParkRecv(e) PROVE SocketTypes' /\ OpTypesOK'
  <2>1. [sockets[e.h] EXCEPT !.rw = e] \in Sockets
    BY <1>0 DEF Sockets
  <2> QED
    BY <1>0, <1>3, <2>1, DroppedType DEF ParkRecv, SocketTypes, OpTypesOK
<1>4. ASSUME ParkSend(e) PROVE SocketTypes' /\ OpTypesOK'
  <2>1. [sockets[e.h] EXCEPT !.tw = e] \in Sockets
    BY <1>0 DEF Sockets
  <2> QED
    BY <1>0, <1>4, <2>1, DroppedType DEF ParkSend, SocketTypes, OpTypesOK
<1> QED
  BY <1>1, <1>2, <1>3, <1>4

LEMMA HandleOpTyped == ASSUME Typed, NEW e, HandleOp(e) PROVE Typed'
<1>1. TcpEvent(e) \/ UdpEvent(e)
  BY DEF HandleOp, NotFound, HandleRead, HandleWrite, HandleRecv, HandleSend
<1>2. /\ e \in Events
      /\ TableTypes' /\ FlowTypes' /\ UserTypes' /\ LifeTypes' /\ PhaseOK'
  BY <1>1, OpEventTyped
<1>3. SocketTypes /\ OpTypesOK /\ sockets[e.h] \in Sockets
  BY <1>2 DEF Typed, SocketTypes, Events
<1>4. /\ sockets[e.h].rx \in 0..RxCap /\ sockets[e.h].tx \in 0..TxCap
      /\ RxCap \in Nat /\ TxCap \in Nat
  BY <1>3, CapAssumption DEF Sockets
<1>5. "ok" \in OpStates /\ "err" \in OpStates /\ "eof" \in OpStates
  BY DEF OpStates
<1>6. ASSUME NotFound(e) PROVE SocketTypes' /\ OpTypesOK'
  BY <1>2, <1>3, <1>5, <1>6, OpOutcomeTyped DEF NotFound
<1>7. ASSUME HandleRead(e) PROVE SocketTypes' /\ OpTypesOK'
  <2>1. ASSUME NEW left \in 0..(sockets[e.h].rx - 1) PROVE left \in 0..RxCap
    BY <1>4
  <2>2. \/ Answer(e, "eof") \/ ParkRecv(e)
        \/ \E left \in 0..(sockets[e.h].rx - 1) : Move(e, left, sockets[e.h].tx, "ok")
    BY <1>7 DEF HandleRead
  <2> QED
    BY <1>2, <1>3, <1>4, <1>5, <2>1, <2>2, OpOutcomeTyped
<1>8. ASSUME HandleWrite(e) PROVE SocketTypes' /\ OpTypesOK'
  <2>1. ASSUME NEW tx \in (sockets[e.h].tx + 1)..TxCap PROVE tx \in 0..TxCap
    BY <1>4
  <2>2. \/ Answer(e, "err") \/ ParkSend(e)
        \/ \E tx \in (sockets[e.h].tx + 1)..TxCap : Move(e, sockets[e.h].rx, tx, "ok")
    BY <1>8 DEF HandleWrite
  <2> QED
    BY <1>2, <1>3, <1>4, <1>5, <2>1, <2>2, OpOutcomeTyped
<1>9. ASSUME HandleRecv(e) PROVE SocketTypes' /\ OpTypesOK'
  <2>1. sockets[e.h].rx > 0 => sockets[e.h].rx - 1 \in 0..RxCap
    BY <1>4
  <2>2. \/ ParkRecv(e)
        \/ /\ sockets[e.h].rx > 0
           /\ \E r \in {"ok", "err"} : Move(e, sockets[e.h].rx - 1, sockets[e.h].tx, r)
    BY <1>9 DEF HandleRecv
  <2> QED
    BY <1>2, <1>3, <1>4, <1>5, <2>1, <2>2, OpOutcomeTyped
<1>10. ASSUME HandleSend(e) PROVE SocketTypes' /\ OpTypesOK'
  <2>1. sockets[e.h].tx < TxCap => sockets[e.h].tx + 1 \in 0..TxCap
    BY <1>4
  <2>2. \/ ParkSend(e) \/ Answer(e, "err")
        \/ /\ sockets[e.h].tx < TxCap
           /\ Move(e, sockets[e.h].rx, sockets[e.h].tx + 1, "ok")
    BY <1>10 DEF HandleSend, HasRoom
  <2> QED
    BY <1>2, <1>3, <1>4, <1>5, <2>1, <2>2, OpOutcomeTyped
<1> QED
  BY <1>2, <1>6, <1>7, <1>8, <1>9, <1>10 DEF HandleOp, Typed

LEMMA StepTyped == ASSUME Typed, Step PROVE Typed'
BY EgressTyped, HeadOfBatch, HandleEventTyped, HandleOpTyped DEF Step

LEMMA UserTyped == ASSUME Typed, User PROVE Typed'
<1>0. /\ queue \in Seq(Events) /\ ops \in [Ops -> Futures]
      /\ accepted \in [Kinds -> Seq(Infos)] /\ streams \in SUBSET Infos
  BY DEF Typed, FlowTypes, OpTypesOK, UserTypes
<1>1. ASSUME NEW k \in Kinds, Accept(k) PROVE Typed'
  <2>1. accepted[k] \in Seq(Infos) /\ accepted[k] # <<>>
    BY <1>0, <1>1 DEF Accept
  <2>2. Head(accepted[k]) \in Infos /\ Tail(accepted[k]) \in Seq(Infos)
    BY <2>1
  <2>3. UserTypes'
    BY <1>0, <1>1, <2>2 DEF Accept, UserTypes
  <2> QED
    BY <1>1, <2>3 DEF Accept, Typed, SocketTypes, TableTypes, FlowTypes, OpTypesOK,
                      LifeTypes, PhaseOK, sockVars, driveVars, lifeVars
<1>2. ASSUME NEW o \in Ops, NEW i \in streams, NEW type \in OpTypes, Issue(o, i, type)
      PROVE  Typed'
  <2>1. i \in Infos
    BY <1>0
  <2>2. Event(type, i, o) \in Events
    BY <2>1 DEF Event, Events, Infos, EventTypes
  <2>3. queue' \in Seq(Events)
    BY <1>0, <1>2, <2>2 DEF Issue
  <2>4. [type |-> type, id |-> i.id, st |-> IF generator THEN "pending" ELSE "err"]
            \in Futures
    BY <2>1 DEF Infos, Futures, OpStates
  <2>5. OpTypesOK'
    BY <1>0, <1>2, <2>4 DEF Issue, OpTypesOK
  <2> QED
    BY <1>2, <2>3, <2>5 DEF Issue, Typed, SocketTypes, TableTypes, FlowTypes, UserTypes,
                      LifeTypes, PhaseOK, sockVars, driveVars, userVars, lifeVars
<1>3. ASSUME NEW o \in Ops, Cancel(o) PROVE Typed'
  <2>1. [ops[o] EXCEPT !.st = "cancelled"] \in Futures
    BY <1>0 DEF Futures, OpStates
  <2>2. OpTypesOK'
    BY <1>0, <1>3, <2>1 DEF Cancel, OpTypesOK
  <2> QED
    BY <1>3, <2>2 DEF Cancel, Typed, SocketTypes, TableTypes, FlowTypes, UserTypes,
                      LifeTypes, PhaseOK, sockVars, driveVars, userVars, lifeVars
<1>4. ASSUME NEW i \in streams, DropStream(i) PROVE Typed'
  <2>1. Event("Close", i, None) \in Events
    BY <1>0 DEF Event, Events, Infos, EventTypes
  <2>2. queue' \in Seq(Events)
    BY <1>0, <1>4, <2>1 DEF DropStream
  <2>3. UserTypes'
    BY <1>0, <1>4 DEF DropStream, UserTypes
  <2> QED
    BY <1>4, <2>2, <2>3 DEF DropStream, Typed, SocketTypes, TableTypes, FlowTypes, OpTypesOK,
                      LifeTypes, PhaseOK, sockVars, driveVars, lifeVars
<1> QED
  BY <1>1, <1>2, <1>3, <1>4 DEF User

LEMMA DropsTyped == ASSUME Typed, Drops PROVE Typed'
<1>0. /\ queue \in Seq(Events) /\ ops \in [Ops -> Futures]
      /\ accepted \in [Kinds -> Seq(Infos)] /\ acceptors \in SUBSET Kinds
  BY DEF Typed, FlowTypes, OpTypesOK, UserTypes, LifeTypes
<1>1. ASSUME NEW k \in Kinds, DropAcceptor(k) PROVE Typed'
  <2>1. accepted' \in [Kinds -> Seq(Infos)]
    <3>1. <<>> \in Seq(Infos)
      OBVIOUS
    <3> QED
      BY <1>0, <1>1, <3>1 DEF DropAcceptor
  <2> QED
    BY <1>1, <2>1 DEF DropAcceptor, Typed, SocketTypes, TableTypes, FlowTypes, UserTypes,
                      OpTypesOK, LifeTypes, PhaseOK, sockVars, driveVars
<1>2. ASSUME NEW n \in Batches, DropGenerator(n) PROVE Typed'
  <2>1. queue' \in Seq(Events)
    BY <1>0, <1>2, SplitType DEF DropGenerator, Batches
  <2>2. OpTypesOK'
    BY <1>0, <1>2, SettleType DEF DropGenerator, OpTypesOK, OpStates
  <2> QED
    BY <1>2, <2>1, <2>2 DEF DropGenerator, Typed, SocketTypes, TableTypes, FlowTypes,
                      UserTypes, LifeTypes, PhaseOK, sockVars, driveVars, userVars
<1>3. ASSUME DropStack PROVE Typed'
  BY <1>3, FreeTyped DEF DropStack
<1>4. ASSUME Discard PROVE Typed'
  <2>1. OpTypesOK'
    BY <1>0, <1>4, SettleType DEF Discard, OpTypesOK, OpStates
  <2> QED
    BY <1>4, <2>1 DEF Discard, Typed, SocketTypes, TableTypes, FlowTypes, UserTypes,
                      LifeTypes, PhaseOK, sockVars, driveVars, userVars, lifeVars
<1> QED
  BY <1>1, <1>2, <1>3, <1>4 DEF Drops

LEMMA NextTyped == Typed /\ [Next]_vars => Typed'
<1>1. ASSUME Typed, Next PROVE Typed'
  BY <1>1, DriveTyped, StepTyped, UserTyped, DropsTyped DEF Next
<1>2. ASSUME Typed, UNCHANGED vars PROVE Typed'
  BY <1>2 DEF vars, sockVars, driveVars, userVars, lifeVars, Typed, SocketTypes, TableTypes,
              FlowTypes, UserTypes, OpTypesOK, LifeTypes, PhaseOK
<1> QED
  BY <1>1, <1>2

\* Every variable of TcpStack keeps its type, whatever the users, the peers and
\* the driver do.
THEOREM TypeCorrect == Spec => []TypeOK
<1>1. Init => Typed
  BY InitTyped
<1>2. Typed /\ [Next]_vars => Typed'
  BY NextTyped
<1>3. Typed => TypeOK
  BY TypedTypeOK
<1> QED
  BY <1>1, <1>2, <1>3, PTL DEF Spec

-----------------------------------------------------------------------------
(* The tables, as a predicate of the sockets and of what is recorded *)

\* A handle is recorded with the kind of its socket, and the UDP sockets are
\* bound to the recorded endpoints, each to one of its own.  A UDP socket has no
\* TCP state, so that handle_close_event removes it at once.
Describe(ss, hs, us) ==
    /\ \A k \in Kinds, h \in Handles : <<k, h>> \in hs <=> ss[h].kind = k
    /\ \A h \in Handles : ss[h].kind = "udp" => ss[h].ep \in us /\ ss[h].st = "Closed"
    /\ \A d \in us : \E h \in Handles : ss[h].kind = "udp" /\ ss[h].ep = d
    /\ \A h, k \in Handles :
          (ss[h].kind = "udp" /\ ss[k].kind = "udp" /\ ss[h].ep = ss[k].ep) => h = k

Tables == Describe(sockets, socket_handles, accepted_udp_sockets)

\* A step of a socket that the tables do not see.
Same(s, t) == t.kind = s.kind /\ (s.kind = "udp" => t.ep = s.ep /\ t.st = s.st)

LEMMA SameDescribed ==
    ASSUME NEW ss \in [Handles -> Sockets], NEW hs, NEW us, Describe(ss, hs, us),
           NEW h \in Handles, NEW t, Same(ss[h], t)
    PROVE  Describe([ss EXCEPT ![h] = t], hs, us)
<1> DEFINE tt == [ss EXCEPT ![h] = t]
<1>1. \A k \in Handles : /\ tt[k].kind = ss[k].kind
                         /\ ss[k].kind = "udp" => tt[k].ep = ss[k].ep /\ tt[k].st = ss[k].st
  BY DEF Same
<1> HIDE DEF tt
<1>2. \A d \in us : \E k \in Handles : tt[k].kind = "udp" /\ tt[k].ep = d
  BY <1>1 DEF Describe
<1>3. Describe(tt, hs, us)
  BY <1>1, <1>2 DEF Describe
<1> QED
  BY <1>3 DEF tt

LEMMA AddedDescribed ==
    ASSUME NEW ss \in [Handles -> Sockets], NEW hs, NEW us, Describe(ss, hs, us),
           NEW h \in Handles, ss[h].kind = "none", NEW t
    PROVE  /\ t.kind = "tcp" => Describe([ss EXCEPT ![h] = t], hs \cup {<<"tcp", h>>}, us)
           /\ \A d : (t.kind = "udp" /\ t.ep = d /\ t.st = "Closed" /\ d \notin us)
                  => Describe([ss EXCEPT ![h] = t], hs \cup {<<"udp", h>>}, us \cup {d})
<1> DEFINE tt == [ss EXCEPT ![h] = t]
<1>1. tt[h] = t /\ \A k \in Handles \ {h} : tt[k] = ss[k]
  OBVIOUS
<1> HIDE DEF tt
<1>2. ASSUME t.kind = "tcp" PROVE Describe(tt, hs \cup {<<"tcp", h>>}, us)
  <2>1. \A k \in Kinds, x \in Handles : <<k, x>> \in hs \cup {<<"tcp", h>>} <=> tt[x].kind = k
    BY <1>1, <1>2 DEF Describe, Kinds
  <2>2. \A d \in us : \E k \in Handles : tt[k].kind = "udp" /\ tt[k].ep = d
    BY <1>1 DEF Describe
  <2> QED
    BY <1>1, <1>2, <2>1, <2>2 DEF Describe
<1>3. ASSUME NEW d, t.kind = "udp", t.ep = d, t.st = "Closed", d \notin us
      PROVE  Describe(tt, hs \cup {<<"udp", h>>}, us \cup {d})
  <2>1. \A k \in Kinds, x \in Handles : <<k, x>> \in hs \cup {<<"udp", h>>} <=> tt[x].kind = k
    BY <1>1, <1>3 DEF Describe, Kinds
  <2>2. \A b \in us : \E k \in Handles : tt[k].kind = "udp" /\ tt[k].ep = b
    BY <1>1 DEF Describe
  <2>3. \E k \in Handles : tt[k].kind = "udp" /\ tt[k].ep = d
    BY <1>1, <1>3
  <2> QED
    BY <1>1, <1>3, <2>1, <2>2, <2>3 DEF Describe
<1> QED
  BY <1>2, <1>3 DEF tt

LEMMA RemovedDescribed ==
    ASSUME NEW ss \in [Handles -> Sockets], NEW hs, NEW us, Describe(ss, hs, us),
           NEW h \in Handles, NEW kind \in Kinds, <<kind, h>> \in hs
    PROVE  Describe([ss EXCEPT ![h] = NoSocket], hs \ {<<kind, h>>},
                    us \ (IF kind = "udp" THEN {ss[h].ep} ELSE {}))
<1> DEFINE tt == [ss EXCEPT ![h] = NoSocket]
           gone == IF kind = "udp" THEN {ss[h].ep} ELSE {}
<1>1. tt[h].kind = "none" /\ \A k \in Handles \ {h} : tt[k] = ss[k]
  BY DEF NoSocket
<1>2. ss[h].kind = kind
  BY DEF Describe
<1>3. \A b : b \in gone <=> kind = "udp" /\ b = ss[h].ep
  OBVIOUS
<1> HIDE DEF tt, gone
<1>4. \A k \in Kinds, x \in Handles : <<k, x>> \in hs \ {<<kind, h>>} <=> tt[x].kind = k
  BY <1>1, <1>2 DEF Describe, Kinds
<1>5. \A b \in us \ gone : \E k \in Handles : tt[k].kind = "udp" /\ tt[k].ep = b
  <2> TAKE b \in us \ gone
  <2>1. PICK k \in Handles : ss[k].kind = "udp" /\ ss[k].ep = b
    BY DEF Describe
  <2>2. k # h
    BY <1>2, <1>3, <2>1
  <2> QED
    BY <1>1, <2>1, <2>2
<1>6. \A k \in Handles : tt[k].kind = "udp" => tt[k].ep \in us \ gone /\ tt[k].st = "Closed"
  <2> TAKE k \in Handles
  <2> SUFFICES ASSUME tt[k].kind = "udp" PROVE tt[k].ep \in us \ gone /\ tt[k].st = "Closed"
    OBVIOUS
  <2>1. k # h /\ tt[k] = ss[k]
    BY <1>1
  <2>2. ss[k].ep \in us /\ ss[k].st = "Closed"
    BY <2>1 DEF Describe
  <2>3. kind = "udp" => ss[k].ep # ss[h].ep
    BY <1>2, <2>1 DEF Describe
  <2> QED
    BY <1>3, <2>1, <2>2, <2>3
<1>7. \A x, k \in Handles :
        (tt[x].kind = "udp" /\ tt[k].kind = "udp" /\ tt[x].ep = tt[k].ep) => x = k
  BY <1>1 DEF Describe
<1>8. Describe(tt, hs \ {<<kind, h>>}, us \ gone)
  BY <1>4, <1>5, <1>6, <1>7 DEF Describe
<1> QED
  BY <1>8 DEF tt, gone

LEMMA TablesHandleTable == Typed /\ Tables => HandleTable
<1> SUFFICES ASSUME Typed, Tables PROVE HandleTable
  OBVIOUS
<1>0. /\ socket_handles \in SUBSET (Kinds \X Handles)
      /\ \A h \in Handles : sockets[h].kind \in Kinds \cup {"none"}
  BY DEF Typed, TableTypes, SocketTypes, Sockets
<1>1. socket_handles = {<<sockets[h].kind, h>> : h \in Occupied}
  <2>1. ASSUME NEW p \in socket_handles
        PROVE  \E h \in Occupied : p = <<sockets[h].kind, h>>
    <3>1. p = <<p[1], p[2]>> /\ p[1] \in Kinds /\ p[2] \in Handles
      BY <1>0
    <3>2. sockets[p[2]].kind = p[1]
      BY <3>1 DEF Tables, Describe
    <3>3. p[2] \in Occupied
      BY <3>1, <3>2 DEF Occupied, Kinds
    <3> QED
      BY <3>1, <3>2, <3>3
  <2>2. ASSUME NEW h \in Occupied PROVE <<sockets[h].kind, h>> \in socket_handles
    BY <1>0 DEF Occupied, Tables, Describe
  <2> QED
    BY <2>1, <2>2
<1>2. accepted_udp_sockets =
          {sockets[h].ep : h \in {k \in Handles : sockets[k].kind = "udp"}}
  BY DEF Tables, Describe
<1> QED
  BY <1>1, <1>2 DEF HandleTable, Tables, Describe

-----------------------------------------------------------------------------
(* What the steps of a socket keep *)

LEMMA SocketSteps ==
    ASSUME NEW s \in Sockets, NEW c \in Conns, NEW seg
    PROVE  /\ s.kind = "tcp" => Same(s, Process(s, c, seg)) /\ Same(s, Expire(s))
           /\ Same(s, Datagram(s)) /\ Same(s, Transmit(s))
           /\ (s.kind = "udp" => s.st = "Closed") => Same(s, TcpClose(s))
<1>1. s.kind = "tcp" => Same(s, Process(s, c, seg)) /\ Same(s, Expire(s))
  BY DEF Process, Expire, SetState, Same, Sockets
<1>2. Same(s, Datagram(s)) /\ Same(s, Transmit(s))
  BY DEF Datagram, Transmit, Same, Sockets
<1>3. (s.kind = "udp" => s.st = "Closed") => Same(s, TcpClose(s))
  BY DEF TcpClose, SetState, Same, Sockets
<1> QED
  BY <1>1, <1>2, <1>3

\* What poll and close() do to a socket wakes whatever is served by it.
LEMMA BlockedSteps ==
    ASSUME NEW s \in Sockets, Blocked(s), NEW c, NEW seg
    PROVE  /\ Blocked(Process(s, c, seg)) /\ Blocked(Expire(s))
           /\ Blocked(Datagram(s)) /\ Blocked(Transmit(s))
           /\ Blocked(TcpClose(s)) /\ Blocked(UdpClose(s))
<1>0. s.rx \in Nat /\ s.tx \in 0..TxCap /\ s.st \in TcpStates /\ RxCap \in Nat /\ TxCap \in Nat \ {0}
  BY CapAssumption DEF Sockets
<1>1. Blocked(Expire(s)) /\ Blocked(UdpClose(s))
  BY DEF Expire, SetState, UdpClose, Blocked, NoWaker, Sockets
<1>2. Blocked(Datagram(s)) /\ Blocked(Transmit(s))
  <2>1. Blocked(Datagram(s))
    BY <1>0 DEF Datagram, Blocked, NoWaker, Sockets, MayRecv, MaySend
  <2>2. Blocked(Transmit(s))
    BY <1>0 DEF Transmit, Blocked, NoWaker, Sockets, MayRecv, MaySend
  <2> QED
    BY <2>1, <2>2
<1>3. Blocked(TcpClose(s))
  <2>1. \A st : Blocked(SetState(s, st))
    BY DEF SetState, Blocked, NoWaker, Sockets
  <2> QED
    BY <2>1 DEF TcpClose
<1>4. Blocked(Process(s, c, seg))
  <2> DEFINE st == SegState(s, seg)
             rx == SegRx(s, seg, st)
             tx == IF seg = "ACK" THEN 0 ELSE s.tx
             t == Process(s, c, seg)
  <2>1. /\ t.st = st /\ t.rx = rx /\ t.tx = tx
        /\ t.rw = IF st # s.st \/ rx # s.rx THEN NoWaker ELSE s.rw
        /\ t.tw = IF st # s.st \/ tx # s.tx THEN NoWaker ELSE s.tw
    BY DEF Process, Sockets
  <2> HIDE DEF st, rx, tx, t
  <2>2. t.rw = NoWaker \/ (t.rw = s.rw /\ t.st = s.st /\ t.rx = s.rx)
    BY <2>1
  <2>3. t.tw = NoWaker \/ (t.tw = s.tw /\ t.st = s.st /\ t.tx = s.tx)
    BY <2>1
  <2>4. Blocked(t)
    BY <2>2, <2>3 DEF Blocked, NoWaker, MayRecv, MaySend
  <2> QED
    BY <2>4 DEF t
<1> QED
  BY <1>1, <1>2, <1>3, <1>4

-----------------------------------------------------------------------------
(* The inductive invariant *)

Safe == Tables /\ ParkedBlocked

LEMMA InitSafe == Init => Safe
<1> SUFFICES ASSUME Init PROVE Safe
  OBVIOUS
<1>1. \A h \in Handles : sockets[h] = NoSocket
  BY DEF Init
<1>2. Tables
  BY <1>1 DEF Init, Tables, Describe, NoSocket, Kinds
<1>3. ParkedBlocked
  BY <1>1 DEF ParkedBlocked, Blocked, NoSocket, NoWaker
<1> QED
  BY <1>2, <1>3 DEF Safe

LEMMA SameSafe ==
    ASSUME Safe, UNCHANGED <<sockets, socket_handles, accepted_udp_sockets>>
    PROVE  Safe'
BY DEF Safe, Tables, ParkedBlocked

\* A step of one socket that the tables do not see.
LEMMA OneSocketSafe ==
    ASSUME Typed, Safe, NEW h \in Handles, NEW t, Same(sockets[h], t), Blocked(t),
           sockets' = [sockets EXCEPT ![h] = t],
           UNCHANGED <<socket_handles, accepted_udp_sockets>>
    PROVE  Safe'
<1>0. sockets \in [Handles -> Sockets]
  BY DEF Typed, SocketTypes
<1>1. Tables'
  BY <1>0, SameDescribed DEF Safe, Tables
<1>2. ParkedBlocked'
  BY <1>0 DEF Safe, ParkedBlocked
<1> QED
  BY <1>1, <1>2 DEF Safe

\* A new socket in an empty slot.
LEMMA NewSocketSafe ==
    ASSUME Typed, Safe, NEW h \in FreeHandles, NEW t, Blocked(t),
           sockets' = [sockets EXCEPT ![h] = t],
           \/ /\ t.kind = "tcp"
              /\ socket_handles' = socket_handles \cup {<<"tcp", h>>}
              /\ UNCHANGED accepted_udp_sockets
           \/ /\ t.kind = "udp" /\ t.ep \notin accepted_udp_sockets /\ t.st = "Closed"
              /\ socket_handles' = socket_handles \cup {<<"udp", h>>}
              /\ accepted_udp_sockets' = accepted_udp_sockets \cup {t.ep}
    PROVE  Safe'
<1>0. sockets \in [Handles -> Sockets] /\ h \in Handles /\ sockets[h].kind = "none"
  BY DEF Typed, SocketTypes, FreeHandles
<1>1. Tables'
  <2>1. Describe(sockets, socket_handles, accepted_udp_sockets)
    BY DEF Safe, Tables
  <2>2. /\ t.kind = "tcp"
            => Describe(sockets', socket_handles \cup {<<"tcp", h>>}, accepted_udp_sockets)
        /\ (t.kind = "udp" /\ t.st = "Closed" /\ t.ep \notin accepted_udp_sockets)
            => Describe(sockets', socket_handles \cup {<<"udp", h>>},
                        accepted_udp_sockets \cup {t.ep})
    BY <1>0, <2>1, AddedDescribed
  <2> QED
    BY <2>2 DEF Tables
<1>2. ParkedBlocked'
  BY <1>0 DEF Safe, ParkedBlocked
<1> QED
  BY <1>1, <1>2 DEF Safe

\* The stack is freed: nothing is left in the SocketSet or in the tables.
LEMMA FreeSafe == ASSUME NEW how, Free(how) PROVE Safe'
<1>1. \A h \in Handles : sockets'[h] = NoSocket
  BY DEF Free
<1>2. Tables'
  BY <1>1 DEF Free, Tables, Describe, NoSocket, Kinds
<1>3. ParkedBlocked'
  BY <1>1 DEF ParkedBlocked, Blocked, NoSocket, NoWaker
<1> QED
  BY <1>2, <1>3 DEF Safe

LEMMA DriveSynSafe ==
    ASSUME Typed, Safe, NEW c \in Conns, NEW n \in Batches, DriveSyn(c, n)
    PROVE  Safe'
<1>1. sockets \in [Handles -> Sockets] /\ next_id \in Ids
  BY NewId DEF Typed, SocketTypes, DriveSyn
<1>2. PICK h \in Handles, k \in Handles :
        LET new == [kind |-> "tcp", h |-> h, id |-> next_id]
            added == [sockets EXCEPT ![h] =
                        ReadyOnSend(TcpListener(next_id, c[2]),
                                    Event("Ready", new, None))]
            polled == Process(added[k], c, "SYN")
        IN  /\ h \in FreeHandles
            /\ Accepts(added[k], c, "SYN")
            /\ socket_handles' = socket_handles \cup {<<"tcp", h>>}
            /\ sockets' = [added EXCEPT ![k] = polled]
  BY DEF DriveSyn, Begin, IsFirst, Takers
<1> DEFINE e == Event("Ready", [kind |-> "tcp", h |-> h, id |-> next_id], None)
           l == ReadyOnSend(TcpListener(next_id, c[2]), e)
           added == [sockets EXCEPT ![h] = l]
           polled == Process(added[k], c, "SYN")
<1>3. l \in Sockets
  <2>1. e \in Wakers
    BY <1>1, ReadyType, EventIsWaker DEF Kinds
  <2>2. c[2] \in TcpAddrs
    BY DEF Conns
  <2> QED
    BY <1>1, <2>1, <2>2, NewSocketType
<1>4. added \in [Handles -> Sockets]
  BY <1>1, <1>3
<1>5. l.kind = "tcp" /\ Blocked(l)
  BY DEF ReadyOnSend, TcpListener, NoSocket, NoWaker, Event, Blocked
<1> HIDE DEF l
<1>6. Describe(added, socket_handles', accepted_udp_sockets)
  <2>1. h \in Handles /\ sockets[h].kind = "none"
    BY <1>2 DEF FreeHandles
  <2>2. Describe(sockets, socket_handles, accepted_udp_sockets)
    BY DEF Safe, Tables
  <2> QED
    BY <1>1, <1>2, <1>5, <2>1, <2>2, AddedDescribed
<1>7. \A x \in Handles : Blocked(added[x])
  BY <1>1, <1>5 DEF Safe, ParkedBlocked
<1> HIDE DEF added
<1>8. added[k].kind = "tcp" /\ sockets' = [added EXCEPT ![k] = polled]
  BY <1>2 DEF Accepts, added, l
<1>9. Same(added[k], polled) /\ Blocked(polled)
  BY <1>4, <1>7, <1>8, SocketSteps, BlockedSteps
<1> HIDE DEF polled
<1>10. Tables'
  BY <1>4, <1>6, <1>8, <1>9, SameDescribed DEF Tables, DriveSyn
<1>11. ParkedBlocked'
  BY <1>4, <1>7, <1>8, <1>9 DEF ParkedBlocked
<1> QED
  BY <1>10, <1>11 DEF Safe

LEMMA DriveSafe == ASSUME Typed, Safe, Drive PROVE Safe'
<1>0. sockets \in [Handles -> Sockets] /\ \A h \in Handles : Blocked(sockets[h])
  BY DEF Typed, SocketTypes, Safe, ParkedBlocked
<1>1. PICK n \in Batches :
        \/ \E c \in Conns : DriveSyn(c, n)
        \/ \E c \in Conns, seg \in Segments : DriveSegment(c, seg, n)
        \/ \E d \in UdpAddrs : DriveDatagram(d, n)
        \/ \E d \in UdpAddrs : DriveNewUdp(d, n)
        \/ DriveOnly(n)
        \/ \E k \in Handles : DriveExpire(k, n)
        \/ \E d \in TcpAddrs \cup UdpAddrs : DriveRefused(d, n)
        \/ \E d \in UdpAddrs : DriveUnannounced(d, n)
  BY DEF Drive
<1>2. ASSUME NEW c \in Conns, DriveSyn(c, n) PROVE Safe'
  BY <1>2, DriveSynSafe
<1>3. ASSUME NEW c \in Conns, NEW seg, DriveSegment(c, seg, n) PROVE Safe'
  <2>1. PICK k \in Handles :
          /\ sockets[k].kind = "tcp"
          /\ sockets' = [sockets EXCEPT ![k] = Process(sockets[k], c, seg)]
    BY <1>3 DEF DriveSegment, Begin, IsFirst, Takers, Accepts
  <2>2. Same(sockets[k], Process(sockets[k], c, seg)) /\ Blocked(Process(sockets[k], c, seg))
    BY <1>0, <2>1, SocketSteps, BlockedSteps
  <2> QED
    BY <1>3, <2>1, <2>2, OneSocketSafe DEF DriveSegment
<1>4. ASSUME NEW d \in UdpAddrs, DriveDatagram(d, n) PROVE Safe'
  <2>1. PICK k \in Handles : sockets' = [sockets EXCEPT ![k] = Datagram(sockets[k])]
    BY <1>4 DEF DriveDatagram, Begin
  <2>2. Same(sockets[k], Datagram(sockets[k])) /\ Blocked(Datagram(sockets[k]))
    <3>1. sockets[k] \in Sockets /\ Blocked(sockets[k])
      BY <1>0
    <3>2. Same(sockets[k], Datagram(sockets[k]))
      BY <3>1 DEF Datagram, Same, Sockets
    <3> QED
      BY <3>1, <3>2, BlockedSteps
  <2> QED
    BY <1>4, <2>1, <2>2, OneSocketSafe DEF DriveDatagram
<1>5. ASSUME NEW d \in UdpAddrs, DriveNewUdp(d, n) PROVE Safe'
  <2> DEFINE t == Datagram(UdpBound(next_id, d))
  <2>1. PICK h \in FreeHandles :
          /\ socket_handles' = socket_handles \cup {<<"udp", h>>}
          /\ sockets' = [sockets EXCEPT ![h] = t]
    BY <1>5 DEF DriveNewUdp, Begin, IsFirst
  <2>2. t.kind = "udp" /\ t.ep = d /\ t.st = "Closed" /\ Blocked(t)
    BY CapAssumption DEF Datagram, UdpBound, NoSocket, NoWaker, Blocked
  <2> HIDE DEF t
  <2> QED
    BY <1>5, <2>1, <2>2, NewSocketSafe DEF DriveNewUdp
<1>6. ASSUME DriveOnly(n) PROVE Safe'
  BY <1>6, SameSafe DEF DriveOnly, Begin
<1>7. ASSUME NEW k \in Handles, DriveExpire(k, n) PROVE Safe'
  <2>1. sockets' = [sockets EXCEPT ![k] = Expire(sockets[k])] /\ sockets[k].kind = "tcp"
    BY <1>7 DEF DriveExpire, Begin
  <2>2. Same(sockets[k], Expire(sockets[k])) /\ Blocked(Expire(sockets[k]))
    <3>1. sockets[k] \in Sockets /\ Blocked(sockets[k])
      BY <1>0
    <3>2. Same(sockets[k], Expire(sockets[k]))
      BY <2>1, <3>1 DEF Expire, SetState, Same, Sockets
    <3> QED
      BY <3>1, <3>2, BlockedSteps
  <2> QED
    BY <1>7, <2>1, <2>2, OneSocketSafe DEF DriveExpire
<1>8. ASSUME NEW d, DriveRefused(d, n) PROVE Safe'
  BY <1>8, SameSafe DEF DriveRefused, sockVars
<1>9. ASSUME NEW d \in UdpAddrs, DriveUnannounced(d, n) PROVE Safe'
  <2> DEFINE t == UdpBound(next_id, d)
  <2>1. PICK h \in FreeHandles :
          /\ socket_handles' = socket_handles \cup {<<"udp", h>>}
          /\ sockets' = [sockets EXCEPT ![h] = t]
    BY <1>9 DEF DriveUnannounced, IsFirst
  <2>2. t.kind = "udp" /\ t.ep = d /\ t.st = "Closed" /\ Blocked(t)
    BY DEF UdpBound, NoSocket, NoWaker, Blocked
  <2> HIDE DEF t
  <2> QED
    BY <1>9, <2>1, <2>2, NewSocketSafe DEF DriveUnannounced
<1> QED
  BY <1>1, <1>2, <1>3, <1>4, <1>5, <1>6, <1>7, <1>8, <1>9

-----------------------------------------------------------------------------
(* The events of the batch *)

LEMMA HandleEventSafe ==
    ASSUME Typed, Safe, NEW e \in Events, HandleEvent(e)
    PROVE  Safe'
<1>0. /\ e.h \in Handles /\ e.kind \in Kinds /\ sockets \in [Handles -> Sockets]
      /\ sockets[e.h] \in Sockets /\ Blocked(sockets[e.h])
      /\ Describe(sockets, socket_handles, accepted_udp_sockets)
  BY DEF Typed, SocketTypes, Events, Safe, Tables, ParkedBlocked
<1>1. ASSUME Defer(e) PROVE Safe'
  BY <1>1, SameSafe DEF Defer, sockVars
<1>2. ASSUME ReadyNotYet(e) PROVE Safe'
  <2> DEFINE t == [sockets[e.h] EXCEPT !.rw = e]
  <2>1. Same(sockets[e.h], t)
    BY <1>0 DEF Same, Sockets
  <2>2. Blocked(t)
    BY <1>0, <1>2 DEF ReadyNotYet, Blocked, MayRecv, MaySend, Sockets
  <2>3. sockets' = [sockets EXCEPT ![e.h] = t]
    BY <1>2 DEF ReadyNotYet
  <2> HIDE DEF t
  <2> QED
    BY <1>0, <1>2, <2>1, <2>2, <2>3, OneSocketSafe DEF ReadyNotYet
<1>3. ASSUME Announce(e) PROVE Safe'
  BY <1>3, SameSafe DEF Announce, sockVars
<1>4. ASSUME ReadyPanic(e) PROVE Safe'
  BY <1>4, FreeSafe DEF ReadyPanic
<1>5. ASSUME HandleShutdown(e) PROVE Safe'
  <2> DEFINE s == sockets[e.h]
             w == [e EXCEPT !.type = "ShutdownDone"]
             x == [s EXCEPT !.tw = w]
  <2>1. w.type = "ShutdownDone" /\ w \in Wakers
    BY DEF Events, Wakers
  <2>2. /\ x \in Sockets /\ x.tw.type = "ShutdownDone" /\ x.rw = s.rw /\ x.st = s.st
        /\ x.rx = s.rx /\ x.kind = s.kind /\ x.ep = s.ep
    BY <1>0, <2>1 DEF Sockets
  <2>3. s.kind = "udp" => s.st = "Closed"
    BY <1>0 DEF Describe
  <2> HIDE DEF w, x
  <2>4. Same(s, TcpClose(x))
    <3>1. Same(x, TcpClose(x))
      BY <2>2, <2>3 DEF TcpClose, SetState, Same, Sockets
    <3> QED
      BY <2>2, <3>1 DEF Same
  <2>5. Blocked(TcpClose(x))
    <3>1. \A st : Blocked(SetState(x, st))
      BY <2>2 DEF SetState, Blocked, NoWaker, Sockets
    <3>2. s.st \notin {"Listen", "SynReceived", "Established", "CloseWait"} => Blocked(x)
      BY <1>0, <2>2 DEF Blocked, MayRecv, MaySend, Sockets, TcpStates
    <3> QED
      BY <2>2, <3>1, <3>2 DEF TcpClose
  <2>6. CASE Registered(e)
    <3>1. sockets' = [sockets EXCEPT ![e.h] = TcpClose(x)]
      BY <1>5, <2>6 DEF HandleShutdown, x, w
    <3> QED
      BY <1>0, <1>5, <2>4, <2>5, <3>1, OneSocketSafe DEF HandleShutdown
  <2>7. CASE ~Registered(e)
    BY <1>5, <2>7, SameSafe DEF HandleShutdown
  <2> QED
    BY <2>6, <2>7
<1>6. ASSUME HandleClose(e) PROVE Safe'
  <2> DEFINE s == sockets[e.h]
             x == IF e.kind = "tcp" THEN TcpClose(s) ELSE UdpClose(s)
  <2>1. CASE ~Registered(e)
    BY <1>6, <2>1, SameSafe DEF HandleClose
  <2>2. CASE Registered(e) /\ IsActive(x)
    <3>1. s.kind = e.kind
      BY <1>0, <2>2 DEF Registered, Describe
    <3>2. s.kind = "udp" => s.st = "Closed"
      BY <1>0 DEF Describe
    <3>3. e.kind = "tcp" /\ x = TcpClose(s)
      BY <1>0, <2>2, <3>1, <3>2 DEF UdpClose, IsActive, Kinds, Sockets
    <3>4. /\ x \in Sockets /\ Blocked(x) /\ Same(s, x)
          /\ x.st \in {"FinWait1", "FinWait2", "Closing", "LastAck"}
      <4>1. x \in Sockets /\ Blocked(x)
        BY <1>0, <3>3, TcpCloseType, BlockedSteps
      <4>2. Same(s, x)
        BY <1>0, <3>2, <3>3 DEF TcpClose, SetState, Same, Sockets
      <4>3. x.st \in {"FinWait1", "FinWait2", "Closing", "LastAck"}
        BY <1>0, <2>2, <3>3 DEF TcpClose, SetState, IsActive, Sockets, TcpStates
      <4> QED
        BY <4>1, <4>2, <4>3
    <3>5. e.type = "Close" /\ AwaitInactive(e, x)
      BY <1>6, <2>2 DEF HandleClose
    <3> HIDE DEF x
    <3>6. Same(s, [x EXCEPT !.rw = e])
      BY <3>4 DEF Same, Sockets
    <3>7. Blocked([x EXCEPT !.rw = e])
      BY <3>4, <3>5 DEF Blocked, MayRecv, MaySend, Sockets
    <3> QED
      BY <1>0, <3>5, <3>6, <3>7, OneSocketSafe DEF AwaitInactive
  <2>3. CASE Registered(e) /\ ~IsActive(x)
    <3>1. Remove(e, x)
      BY <1>6, <2>3 DEF HandleClose
    <3>2. Tables'
      BY <1>0, <2>3, <3>1, RemovedDescribed DEF Remove, Tables, EndpointOf, Registered
    <3>3. ParkedBlocked'
      <4>1. Blocked(NoSocket)
        BY DEF Blocked, NoSocket, NoWaker
      <4> QED
        BY <1>0, <3>1, <4>1 DEF Remove, Safe, ParkedBlocked
    <3> QED
      BY <3>2, <3>3 DEF Safe
  <2> QED
    BY <2>1, <2>2, <2>3
<1> QED
  BY <1>1, <1>2, <1>3, <1>4, <1>5, <1>6 DEF HandleEvent

-----------------------------------------------------------------------------
(* The operations put aside *)

\* Moving data needs data or room, which nobody waits for.
LEMMA MoveSafe ==
    ASSUME Typed, Safe, NEW e \in Events, NEW rx \in Nat, NEW tx \in Nat, NEW r,
           Move(e, rx, tx, r),
           UNCHANGED <<socket_handles, accepted_udp_sockets>>,
           \/ rx < sockets[e.h].rx /\ tx = sockets[e.h].tx
           \/ rx = sockets[e.h].rx /\ sockets[e.h].tx < TxCap
    PROVE  Safe'
<1> DEFINE s == sockets[e.h]
           t == [[s EXCEPT !.rx = rx] EXCEPT !.tx = tx]
<1>0. /\ e.h \in Handles /\ s \in Sockets /\ Blocked(s)
      /\ s.rx \in Nat /\ s.tx \in Nat /\ TxCap \in Nat
  BY CapAssumption DEF Typed, SocketTypes, Events, Safe, ParkedBlocked, Sockets
<1>1. sockets' = [sockets EXCEPT ![e.h] = t]
  BY DEF Typed, SocketTypes, Move
<1>2. /\ t.kind = s.kind /\ t.ep = s.ep /\ t.st = s.st /\ t.rx = rx /\ t.tx = tx
      /\ t.rw = s.rw /\ t.tw = s.tw
  BY <1>0 DEF Sockets
<1> HIDE DEF t
<1>3. Same(s, t)
  BY <1>2 DEF Same
<1>4. Blocked(t)
  <2>1. CASE rx < s.rx /\ tx = s.tx
    BY <1>0, <1>2, <2>1 DEF Blocked, MayRecv, MaySend
  <2>2. CASE rx = s.rx /\ s.tx < TxCap
    BY <1>0, <1>2, <2>2 DEF Blocked, MayRecv, MaySend
  <2> QED
    BY <2>1, <2>2
<1> QED
  BY <1>0, <1>1, <1>3, <1>4, OneSocketSafe

LEMMA ParkRecvSafe ==
    ASSUME Typed, Safe, NEW e \in Events, ParkRecv(e), sockets[e.h].rx = 0,
           e.type = "Recv" \/ (e.type = "Read" /\ MayRecv(sockets[e.h])),
           UNCHANGED <<socket_handles, accepted_udp_sockets>>
    PROVE  Safe'
<1> DEFINE s == sockets[e.h]
           t == [s EXCEPT !.rw = e]
<1>0. e.h \in Handles /\ s \in Sockets /\ Blocked(s)
  BY DEF Typed, SocketTypes, Events, Safe, ParkedBlocked
<1>1. sockets' = [sockets EXCEPT ![e.h] = t]
  BY DEF ParkRecv
<1>2. Same(s, t) /\ Blocked(t)
  BY <1>0 DEF Same, Blocked, MayRecv, MaySend, Sockets
<1> HIDE DEF t
<1> QED
  BY <1>0, <1>1, <1>2, OneSocketSafe

LEMMA ParkSendSafe ==
    ASSUME Typed, Safe, NEW e \in Events, ParkSend(e), sockets[e.h].tx = TxCap,
           e.type = "Send" \/ (e.type = "Write" /\ MaySend(sockets[e.h])),
           UNCHANGED <<socket_handles, accepted_udp_sockets>>
    PROVE  Safe'
<1> DEFINE s == sockets[e.h]
           t == [s EXCEPT !.tw = e]
<1>0. e.h \in Handles /\ s \in Sockets /\ Blocked(s)
  BY DEF Typed, SocketTypes, Events, Safe, ParkedBlocked
<1>1. sockets' = [sockets EXCEPT ![e.h] = t]
  BY DEF ParkSend
<1>2. Same(s, t) /\ Blocked(t)
  BY <1>0 DEF Same, Blocked, MayRecv, MaySend, Sockets
<1> HIDE DEF t
<1> QED
  BY <1>0, <1>1, <1>2, OneSocketSafe

LEMMA HandleOpSafe == ASSUME Typed, Safe, NEW e, HandleOp(e) PROVE Safe'
<1>1. TcpEvent(e) \/ UdpEvent(e)
  BY DEF HandleOp, NotFound, HandleRead, HandleWrite, HandleRecv, HandleSend
<1>2. e \in Events /\ UNCHANGED <<socket_handles, accepted_udp_sockets>>
  BY <1>1, OpEventTyped DEF TcpEvent, UdpEvent
<1> DEFINE s == sockets[e.h]
<1>3. /\ s.rx \in Nat /\ s.tx \in 0..TxCap /\ TxCap \in Nat
  BY <1>2, CapAssumption DEF Typed, SocketTypes, Events, Sockets
<1>4. ASSUME NEW r, Answer(e, r) PROVE Safe'
  BY <1>2, <1>4, SameSafe DEF Answer
<1>5. ASSUME HandleRead(e) PROVE Safe'
  <2>1. \/ Answer(e, "eof")
        \/ s.rx = 0 /\ ~AtEnd(s) /\ ParkRecv(e)
        \/ \E left \in 0..(s.rx - 1) : Move(e, left, s.tx, "ok")
    BY <1>5 DEF HandleRead
  <2>2. CASE s.rx = 0 /\ ~AtEnd(s) /\ ParkRecv(e)
    BY <1>2, <1>5, <2>2, ParkRecvSafe DEF HandleRead, AtEnd
  <2>3. ASSUME NEW left \in 0..(s.rx - 1), Move(e, left, s.tx, "ok") PROVE Safe'
    <3>1. left \in Nat /\ left < s.rx /\ s.tx \in Nat
      BY <1>3
    <3> QED
      BY <1>2, <2>3, <3>1, MoveSafe
  <2> QED
    BY <1>4, <2>1, <2>2, <2>3
<1>6. ASSUME HandleWrite(e) PROVE Safe'
  <2>1. \/ Answer(e, "err")
        \/ ~CanSend(s) /\ MaySend(s) /\ ParkSend(e)
        \/ CanSend(s) /\ \E tx \in (s.tx + 1)..TxCap : Move(e, s.rx, tx, "ok")
    BY <1>6 DEF HandleWrite
  <2>2. CASE ~CanSend(s) /\ MaySend(s) /\ ParkSend(e)
    <3>1. s.tx = TxCap
      BY <1>3, <2>2 DEF CanSend
    <3> QED
      BY <1>2, <1>6, <2>2, <3>1, ParkSendSafe DEF HandleWrite
  <2>3. ASSUME CanSend(s), NEW tx \in (s.tx + 1)..TxCap, Move(e, s.rx, tx, "ok") PROVE Safe'
    <3>1. tx \in Nat /\ s.tx < TxCap
      BY <1>3, <2>3 DEF CanSend
    <3> QED
      BY <1>2, <1>3, <2>3, <3>1, MoveSafe
  <2> QED
    BY <1>4, <2>1, <2>2, <2>3
<1>7. ASSUME HandleRecv(e) PROVE Safe'
  <2>1. \/ s.rx = 0 /\ ParkRecv(e)
        \/ s.rx > 0 /\ \E r \in {"ok", "err"} : Move(e, s.rx - 1, s.tx, r)
    BY <1>7 DEF HandleRecv
  <2>2. CASE s.rx = 0 /\ ParkRecv(e)
    BY <1>2, <1>7, <2>2, ParkRecvSafe DEF HandleRecv
  <2>3. ASSUME s.rx > 0, NEW r, Move(e, s.rx - 1, s.tx, r) PROVE Safe'
    <3>1. s.rx - 1 \in Nat /\ s.rx - 1 < s.rx /\ s.tx \in Nat
      BY <1>3, <2>3
    <3> QED
      BY <1>2, <2>3, <3>1, MoveSafe
  <2> QED
    BY <2>1, <2>2, <2>3
<1>8. ASSUME HandleSend(e) PROVE Safe'
  <2>1. \/ ~HasRoom(s) /\ ParkSend(e)
        \/ HasRoom(s) /\ Move(e, s.rx, s.tx + 1, "ok")
        \/ Answer(e, "err")
    BY <1>8 DEF HandleSend
  <2>2. CASE ~HasRoom(s) /\ ParkSend(e)
    <3>1. s.tx = TxCap
      BY <1>3, <2>2 DEF HasRoom
    <3> QED
      BY <1>2, <1>8, <2>2, <3>1, ParkSendSafe DEF HandleSend
  <2>3. CASE HasRoom(s) /\ Move(e, s.rx, s.tx + 1, "ok")
    <3>1. s.tx + 1 \in Nat /\ s.tx < TxCap
      BY <1>3, <2>3 DEF HasRoom
    <3> QED
      BY <1>2, <1>3, <2>3, <3>1, MoveSafe
  <2> QED
    BY <1>4, <2>1, <2>2, <2>3
<1> QED
  BY <1>4, <1>5, <1>6, <1>7, <1>8 DEF HandleOp, NotFound

-----------------------------------------------------------------------------
(* The theorems *)

LEMMA NextSafe == Typed /\ Safe /\ [Next]_vars => Safe'
<1> SUFFICES ASSUME Typed, Safe, [Next]_vars PROVE Safe'
  OBVIOUS
<1>1. CASE Drive
  BY <1>1, DriveSafe
<1>2. ASSUME NEW h \in Handles, Egress(h) PROVE Safe'
  <2>1. sockets[h] \in Sockets /\ Blocked(sockets[h])
    BY DEF Typed, SocketTypes, Safe, ParkedBlocked
  <2>2. Same(sockets[h], Transmit(sockets[h])) /\ Blocked(Transmit(sockets[h]))
    <3>1. Same(sockets[h], Transmit(sockets[h]))
      BY <2>1 DEF Transmit, Same, Sockets
    <3> QED
      BY <2>1, <3>1, BlockedSteps
  <2> QED
    BY <1>2, <2>2, OneSocketSafe DEF Egress
<1>3. CASE Step
  BY <1>2, <1>3, HeadOfBatch, HandleEventSafe, HandleOpSafe DEF Step
<1>4. CASE User
  <2>1. UNCHANGED sockVars
    BY <1>4 DEF User, Accept, Issue, Cancel, DropStream
  <2> QED
    BY <2>1, SameSafe DEF sockVars
<1>5. CASE Drops
  <2>1. UNCHANGED sockVars \/ Free("dropped")
    BY <1>5 DEF Drops, DropAcceptor, DropGenerator, DropStack, Discard
  <2> QED
    BY <2>1, SameSafe, FreeSafe DEF sockVars
<1>6. CASE UNCHANGED vars
  BY <1>6, SameSafe DEF vars, sockVars
<1> QED
  BY <1>1, <1>3, <1>4, <1>5, <1>6 DEF Next

\* socket_handles and accepted_udp_sockets always describe the SocketSet.
THEOREM TablesCorrect == Spec => []HandleTable
<1>1. Init => Typed /\ Safe
  BY InitTyped, InitSafe
<1>2. Typed /\ Safe /\ [Next]_vars => Typed' /\ Safe'
  BY NextTyped, NextSafe
<1>3. Typed /\ Safe => HandleTable
  BY TablesHandleTable DEF Safe
<1> QED
  BY <1>1, <1>2, <1>3, PTL DEF Spec

\* No operation, announcement or close ever waits on a waker for something that
\* its socket has already.
THEOREM NobodySleepsServed == Spec => []ParkedBlocked
<1>1. Init => Typed /\ Safe
  BY InitTyped, InitSafe
<1>2. Typed /\ Safe /\ [Next]_vars => Typed' /\ Safe'
  BY NextTyped, NextSafe
<1>3. Typed /\ Safe => ParkedBlocked
  BY DEF Safe
<1> QED
  BY <1>1, <1>2, <1>3, PTL DEF Spec
=============================================================================
