----------------------------- MODULE TcpStackUse -----------------------------
(***************************************************************************)
(* What TcpStack promises to a careful user, for any number of sockets,    *)
(* operations, peers and endpoints: properties that hold where some of the *)
(* faults are excluded, each with the hypotheses that it needs.            *)
(***************************************************************************)
EXTENDS TcpStackOwnership

-----------------------------------------------------------------------------
(* Where nobody cancels: the operations of an event or waker *)

\* The operation that an event or waker is part of.
Part(w) == IF w.type = "ShutdownDone" THEN "Shutdown" ELSE w.type

\* An event or waker that answers an operation is of that operation, and its
\* stream is alive.
Manned(w) ==
    /\ Info(w) \in streams
    /\ ops[w.op].id = w.id /\ ops[w.op].type = Part(w)

AllManned == \A w \in Tokens : w.op \in Ops /\ Held({w}) # 0 => Manned(w)

NoneCancelled == \A o \in Ops : ops[o].st # "cancelled"

\* A stack that is gone does nothing.
Idle == stack # "up" => phase = "idle"

LEMMA HeldPart ==
    ASSUME Typed, NEW S, NEW w \in S, Held(S) = 0
    PROVE  Held({w}) = 0
BY HeldZero

\* An operation of which something is held is pending.
LEMMA HeldPending ==
    ASSUME Typed, Accounted, NoneCancelled, NEW w \in Tokens, w.op \in Ops, Held({w}) # 0
    PROVE  ops[w.op].st = "pending"
<1>1. w \in OpTokens(w.op)
  BY DEF OpTokens
<1>2. Held(OpTokens(w.op)) # 0
  BY <1>1, HeldPart
<1> QED
  BY <1>2 DEF Accounted, Fit, NoneCancelled

\* drive_once starts in a stack that is up and idle, and leaves the users alone.
LEMMA DriveFrame ==
    ASSUME Drive
    PROVE  stack = "up" /\ phase = "idle" /\ UNCHANGED <<userVars, lifeVars>>
<1> DEFINE Goal == stack = "up" /\ phase = "idle" /\ UNCHANGED <<userVars, lifeVars>>
<1>1. ASSUME NEW n, NEW ss, NEW sent, Begin(n, ss, sent) PROVE Goal
  BY <1>1 DEF Begin
<1>2. ASSUME NEW n, Fail(n) PROVE Goal
  BY <1>2 DEF Fail
<1> HIDE DEF Goal
<1>3. ASSUME NEW c, NEW n, DriveSyn(c, n) PROVE Goal
  BY <1>1, <1>3 DEF DriveSyn
<1>4. ASSUME NEW c, NEW seg, NEW n, DriveSegment(c, seg, n) PROVE Goal
  BY <1>1, <1>4 DEF DriveSegment
<1>5. ASSUME NEW d, NEW n, DriveDatagram(d, n) PROVE Goal
  BY <1>1, <1>5 DEF DriveDatagram
<1>6. ASSUME NEW d, NEW n, DriveNewUdp(d, n) PROVE Goal
  BY <1>1, <1>6 DEF DriveNewUdp
<1>7. ASSUME NEW k, NEW n, DriveExpire(k, n) PROVE Goal
  BY <1>1, <1>7 DEF DriveExpire
<1>8. ASSUME NEW d, NEW n, DriveRefused(d, n) \/ DriveUnannounced(d, n) PROVE Goal
  BY <1>2, <1>8 DEF DriveRefused, DriveUnannounced
<1>9. ASSUME NEW n, DriveOnly(n) PROVE Goal
  BY <1>1, <1>9 DEF DriveOnly
<1>10. Goal
  BY <1>3, <1>4, <1>5, <1>6, <1>7, <1>8, <1>9 DEF Drive
<1> QED
  BY <1>10 DEF Goal

LEMMA StreamsStay ==
    ASSUME [Next]_vars
    PROVE  streams \subseteq streams' \/ \E i \in streams : DropStream(i)
<1>1. CASE Drive
  BY <1>1, DriveFrame DEF userVars
<1>2. CASE Step
  <2>1. ASSUME NEW e, HandleEvent(e) PROVE streams' = streams
    BY <2>1 DEF HandleEvent, Defer, ReadyNotYet, Announce, ReadyPanic, HandleShutdown, HandleClose,
                Handle, Dispatch, Free, userVars
  <2>2. ASSUME NEW e, HandleOp(e) PROVE streams' = streams
    BY <2>2 DEF HandleOp, NotFound, HandleRead, HandleWrite, HandleRecv, HandleSend, TcpEvent,
                UdpEvent, userVars
  <2> QED
    BY <1>2, <2>1, <2>2 DEF Step, Egress, userVars
<1>3. CASE User
  BY <1>3 DEF User, Accept, Issue, Cancel, userVars
<1>4. CASE Drops
  BY <1>4 DEF Drops, DropAcceptor, DropGenerator, DropStack, Discard, Free, userVars
<1>5. CASE UNCHANGED vars
  BY <1>5 DEF vars, userVars
<1> QED
  BY <1>1, <1>2, <1>3, <1>4, <1>5 DEF Next

\* A stream is not dropped while one of its operations is under way.
LEMMA StillManned ==
    ASSUME Typed, Accounted, NoneCancelled, AllManned, [Next]_vars,
           NEW w \in Tokens, w.op \in Ops, Held({w}) # 0
    PROVE  Info(w) \in streams'
<1>1. Manned(w) /\ ops[w.op].st = "pending"
  BY HeldPending DEF AllManned
<1>2. ASSUME NEW i \in streams, DropStream(i), Info(w) = i PROVE FALSE
  <2>1. i.id = w.id
    BY <1>2 DEF Info
  <2>2. w.op \in Pending(i)
    BY <1>1, <2>1 DEF Pending, Manned
  <2> QED
    BY <1>2, <2>2 DEF DropStream
<1> QED
  BY <1>1, <1>2, StreamsStay DEF Manned, DropStream

LEMMA MannedStep ==
    ASSUME Typed, FlowTypes', Accounted, NoneCancelled, AllManned, [Next]_vars,
           NEW gone \in Seq(Wakers), NEW e, NEW w, Ledger(gone, e, w),
           \A o \in Ops : ops[o].st # "unused" =>
                             ops'[o].id = ops[o].id /\ ops'[o].type = ops[o].type,
           w \in Tokens /\ w.op \in Ops => Manned(w)'
    PROVE  AllManned'
<1> SUFFICES ASSUME NEW x \in Tokens, x.op \in Ops, Held({x})' # 0 PROVE Manned(x)'
  BY DEF AllManned
<1>1. CASE x = w
  BY <1>1
<1>2. CASE Held({x}) # 0
  <2>1. Manned(x) /\ ops[x.op].st = "pending" /\ Info(x) \in streams'
    BY <1>2, HeldPending, StillManned DEF AllManned
  <2> QED
    BY <2>1 DEF Manned, Info
<1> QED
  BY <1>1, <1>2, HeldToken

LEMMA FlowsManned ==
    ASSUME Typed, FlowTypes', Accounted, NoneCancelled, AllManned, [Next]_vars, Flows
    PROVE  AllManned' /\ NoneCancelled'
<1>1. ASSUME NEW gone, NEW e, NEW w, Spends(gone, e, w),
             w \in Tokens /\ w.op \in Ops => Manned(w)'
      PROVE  AllManned' /\ NoneCancelled'
  <2>1. /\ gone \in Seq(Wakers) /\ Ledger(gone, e, w)
        /\ \A o \in Ops : /\ ops'[o].id = ops[o].id /\ ops'[o].type = ops[o].type
                          /\ ops'[o].st \in Final \/ ops'[o].st = ops[o].st
    BY <1>1 DEF Spends, SettledBy
  <2>2. AllManned'
    BY <1>1, <2>1, MannedStep
  <2>3. NoneCancelled'
    BY <2>1 DEF NoneCancelled, Final
  <2> QED
    BY <2>2, <2>3
<1>2. NoWaker \notin Tokens
  BY DEF Tokens
<1>3. CASE Loses
  BY <1>1, <1>2, <1>3 DEF Loses
<1>4. ASSUME NEW e \in Events, Uses(e) PROVE AllManned' /\ NoneCancelled'
  BY <1>1, <1>2, <1>4 DEF Uses
<1>5. ASSUME NEW e \in Events, e.type = "Shutdown", Turns(e, DoneOf(e))
      PROVE  AllManned' /\ NoneCancelled'
  <2>1. PICK gone : Spends(gone, e, DoneOf(e))
    BY <1>5 DEF Turns
  <2>2. e \in Tokens /\ {e} \in SUBSET Tokens
    BY EventIsToken
  <2>3. Held({e}) # 0
    <3>1. /\ Held({e})' + One(e, {e}) <= Held({e}) + One(DoneOf(e), {e})
          /\ Held({e})' \in Nat /\ Held({e}) \in Nat
      BY <2>1, <2>2, HeldGrows DEF Spends
    <3>2. One(e, {e}) = 1 /\ One(DoneOf(e), {e}) = 0
      BY <1>5, DoneType DEF One
    <3> QED
      BY <3>1, <3>2
  <2>4. ASSUME DoneOf(e).op \in Ops PROVE Manned(DoneOf(e))'
    <3>1. e.op \in Ops /\ DoneOf(e).op = e.op /\ DoneOf(e).id = e.id /\ Info(DoneOf(e)) = Info(e)
      BY <2>4 DEF DoneOf, Info, Events
    <3>2. Manned(e) /\ Info(e) \in streams'
      BY <2>2, <2>3, <3>1, StillManned DEF AllManned
    <3>3. ops'[e.op].id = ops[e.op].id /\ ops'[e.op].type = ops[e.op].type
      BY <2>1, <3>1 DEF Spends, SettledBy
    <3>4. Part(DoneOf(e)) = "Shutdown" /\ Part(e) = "Shutdown"
      BY <1>5, DoneType DEF Part
    <3> QED
      BY <3>1, <3>2, <3>3, <3>4 DEF Manned
  <2> QED
    BY <1>1, <2>1, <2>4
<1>6. ASSUME NEW w \in Events, w.op = None, Turns(NoWaker, w) PROVE AllManned' /\ NoneCancelled'
  BY <1>1, <1>6, NoneAssumption DEF Turns
<1> QED
  BY <1>3, <1>4, <1>5, <1>6 DEF Flows

LEMMA IssueManned ==
    ASSUME Typed, FlowTypes', Accounted, NoneCancelled, AllManned, [Next]_vars,
           NEW o \in Ops, NEW i \in streams, NEW type \in OpTypes, Issue(o, i, type)
    PROVE  AllManned' /\ NoneCancelled'
<1> DEFINE w == Event(type, i, o)
<1>1. /\ ops[o].st = "unused" /\ streams' = streams
      /\ ops'[o].id = i.id /\ ops'[o].type = type /\ ops'[o].st \in {"pending", "err"}
      /\ \A p \in Ops : p # o => ops'[p] = ops[p]
  BY DEF Issue, Typed, OpTypesOK, userVars
<1>2. NoneCancelled'
  BY <1>1 DEF NoneCancelled
<1>3. \A p \in Ops : ops[p].st # "unused" =>
                        ops'[p].id = ops[p].id /\ ops'[p].type = ops[p].type
  BY <1>1
<1>4. Manned(w)'
  <2>1. w.op = o /\ w.id = i.id /\ w.type = type /\ Part(w) = type
    BY DEF Event, Part, OpTypes
  <2>2. i \in Infos
    BY DEF Typed, UserTypes
  <2>3. Info(w) = i
    BY <2>2 DEF Info, Infos, Event
  <2> HIDE DEF w
  <2> QED
    BY <1>1, <2>1, <2>3 DEF Manned
<1>5. NoWaker \notin Tokens /\ <<>> \in Seq(Wakers)
  BY DEF Tokens
<1>6. Ledger(<<>>, NoWaker, w) \/ Ledger(<<>>, NoWaker, NoWaker)
  BY IssueLedger
<1> HIDE DEF w
<1>7. AllManned'
  BY <1>3, <1>4, <1>5, <1>6, MannedStep
<1> QED
  BY <1>2, <1>7

LEMMA FreeManned ==
    ASSUME Typed, FlowTypes', Accounted, NoneCancelled, AllManned, [Next]_vars, NEW how, Free(how)
    PROVE  AllManned' /\ NoneCancelled'
<1>1. \A o \in Ops : /\ ops'[o].id = ops[o].id /\ ops'[o].type = ops[o].type
                     /\ ops'[o].st = "lost" \/ ops'[o].st = ops[o].st
  BY DEF Free, Settle, Typed, OpTypesOK, Futures
<1>2. ASSUME NEW x \in Tokens, Held({x})' # 0 PROVE Held({x}) # 0
  <2>1. {x} \in SUBSET Tokens
    OBVIOUS
  <2>2. Held({x})' = Count(queue, {x})
    BY <2>1, FreeHeld
  <2>3. /\ Held({x}) = Count(queue, {x}) + Aside({x}) + Parked(sockets, {x})
        /\ Count(queue, {x}) \in Nat /\ Aside({x}) \in Nat /\ Parked(sockets, {x}) \in Nat
    BY HeldType DEF Held
  <2> QED
    BY <1>2, <2>2, <2>3
<1>3. ASSUME NEW x \in Tokens, x.op \in Ops, Held({x})' # 0 PROVE Manned(x)'
  <2>1. Manned(x) /\ Info(x) \in streams'
    BY <1>2, <1>3, StillManned DEF AllManned
  <2> QED
    BY <1>1, <1>3, <2>1 DEF Manned, Info
<1> QED
  BY <1>1, <1>3 DEF AllManned, NoneCancelled

LEMMA NextManned ==
    ASSUME "cancel" \notin Faults, Typed, Typed', Tidy, AllShaped, Accounted, NoneCancelled,
           AllManned, [Next]_vars
    PROVE  AllManned' /\ NoneCancelled'
<1>1. FlowTypes' /\ \A o \in Ops : ~Cancel(o)
  BY DEF Typed, Cancel
<1> QED
  BY <1>1, NextFlows, FlowsManned, IssueManned, FreeManned DEF Frees

LEMMA InitManned == ASSUME Init PROVE AllManned /\ NoneCancelled /\ Idle
<1>1. ASSUME NEW w \in Tokens, w.op \in Ops PROVE Held({w}) = 0
  <2>1. Typed
    BY InitTyped
  <2>2. \A h \in Handles : sockets[h].rw \notin {w} /\ sockets[h].tw \notin {w}
    BY DEF Init, NoSocket, Tokens
  <2> QED
    BY <2>1, <2>2, HeldZero DEF Init
<1>2. NoneCancelled /\ Idle
  BY DEF Init, NoneCancelled, Idle
<1> QED
  BY <1>1, <1>2 DEF AllManned

LEMMA NextIdle == ASSUME Idle, [Next]_vars PROVE Idle'
<1>1. CASE Drive
  BY <1>1, DriveFrame DEF Idle, lifeVars
<1>2. CASE Step
  <2>1. ASSUME NEW e, HandleEvent(e) PROVE stack' = stack \/ phase' = "idle"
    BY <2>1 DEF HandleEvent, Defer, ReadyNotYet, Announce, ReadyPanic, HandleShutdown, HandleClose,
                Handle, Dispatch, Free, lifeVars
  <2>2. ASSUME NEW e, HandleOp(e) PROVE stack' = stack
    BY <2>2 DEF HandleOp, NotFound, HandleRead, HandleWrite, HandleRecv, HandleSend, TcpEvent,
                UdpEvent, lifeVars
  <2>3. stack' = stack \/ phase' = "idle"
    BY <1>2, <2>1, <2>2 DEF Step, Egress, lifeVars
  <2>4. phase # "idle"
    BY <1>2 DEF Step, Egress
  <2> QED
    BY <2>3, <2>4 DEF Idle
<1>3. CASE User
  BY <1>3 DEF Idle, User, Accept, Issue, Cancel, DropStream, driveVars, lifeVars
<1>4. CASE Drops
  BY <1>4 DEF Idle, Drops, DropAcceptor, DropGenerator, DropStack, Discard, Free, driveVars, lifeVars
<1>5. CASE UNCHANGED vars
  BY <1>5 DEF Idle, vars, driveVars, lifeVars
<1> QED
  BY <1>1, <1>2, <1>3, <1>4, <1>5 DEF Next

\* The operation at hand is held, and is an event of an operation if it moves
\* data.
LEMMA CurrentHeld ==
    ASSUME Typed, NEW e, TcpEvent(e) \/ UdpEvent(e)
    PROVE  e \in Tokens /\ Held({e}) # 0 /\ e = Current /\ phase \in {"tcp", "udp"}
<1>1. CASE TcpEvent(e)
  <2>1. phase = "tcp" /\ e = Head(tcp_events) /\ tcp_events # <<>> /\ tcp_events \in Seq(Events)
    BY <1>1 DEF TcpEvent, Typed, PhaseOK, FlowTypes
  <2>2. 1 \in DOMAIN tcp_events /\ e = tcp_events[1] /\ e \in Events
    BY <2>1
  <2> QED
    BY <2>1, <2>2, HeldZero, EventIsToken DEF Current
<1>2. CASE UdpEvent(e)
  <2>1. phase = "udp" /\ e = Head(udp_events) /\ udp_events # <<>> /\ udp_events \in Seq(Events)
    BY <1>2 DEF UdpEvent, Typed, PhaseOK, FlowTypes
  <2>2. 1 \in DOMAIN udp_events /\ e = udp_events[1] /\ e \in Events
    BY <2>1
  <2> QED
    BY <2>1, <2>2, HeldZero, EventIsToken DEF Current
<1> QED
  BY <1>1, <1>2

LEMMA HeldShaped ==
    ASSUME Typed, AllShaped, NEW w \in Tokens, Held({w}) # 0
    PROVE  Shaped(w)
BY HeldPart DEF AllShaped, Odd

\* Only a read or recv takes data, and from the socket at its handle.
LEMMA TakesOp ==
    ASSUME Typed, [Next]_vars, NEW h \in Handles, Takes(h)
    PROVE  /\ TcpEvent(Current) \/ UdpEvent(Current)
           /\ Current.type \in OpTypes /\ Current.h = h
<1>1. phase \in {"tcp", "udp"} /\ sockets'[h].rx < sockets[h].rx /\ sockets[h].rx \in Nat
  BY DEF Takes, Typed, SocketTypes, Sockets
<1>2. sockets' # sockets
  BY <1>1
<1>3. ~Drive
  BY <1>1, DriveFrame
<1>4. ~User /\ ~Drops /\ ~UNCHANGED vars
  BY <1>1, <1>2 DEF User, Accept, Issue, Cancel, DropStream, Drops, DropAcceptor, DropGenerator,
                    DropStack, Discard, vars, sockVars
<1>5. PICK e : HandleOp(e)
  BY <1>1, <1>3, <1>4 DEF Next, Step, Egress
<1>6. e \in Events /\ (TcpEvent(e) \/ UdpEvent(e)) /\ Outcome(e)
  BY <1>5, HandleOpOutcome
<1>7. e = Current
  BY <1>6, CurrentHeld
<1>8. e.type \in OpTypes
  BY <1>2, <1>5 DEF HandleOp, NotFound, Answer, HandleRead, HandleWrite, HandleRecv, HandleSend, OpTypes
<1>9. e.h = h
  <2> SUFFICES ASSUME e.h # h PROVE sockets'[h].rx = sockets[h].rx
    BY <1>1
  <2> QED
    BY <1>6 DEF Outcome, Answer, Move, ParkRecv, ParkSend, Typed, SocketTypes
<1> QED
  BY <1>6, <1>7, <1>8, <1>9

\* The inductive invariant where nobody cancels.
ReaderInv == /\ "cancel" \notin Faults
             /\ AnswerInv /\ OwnershipInv
             /\ AllManned /\ NoneCancelled /\ Idle

LEMMA NextReader == ReaderInv /\ [Next]_vars => ReaderInv'
<1> SUFFICES ASSUME ReaderInv, [Next]_vars PROVE ReaderInv'
  OBVIOUS
<1>1. AnswerInv' /\ OwnershipInv'
  BY NextTyped, NextSafe, NextTidy, NextShaped, NextAccounted, NextOwner
     DEF ReaderInv, AnswerInv, OwnershipInv
<1>2. Typed'
  BY <1>1 DEF AnswerInv
<1> QED
  BY <1>1, <1>2, NextManned, NextIdle DEF ReaderInv, AnswerInv

LEMMA ReaderStep ==
    ASSUME ReaderInv, [Next]_vars, NEW h \in Handles, Takes(h)
    PROVE  Current.id = sockets[h].id /\ ops[Current.op].st = "pending"
<1> DEFINE e == Current
<1>1. Typed /\ AllShaped /\ Accounted /\ OwnerInv
  BY DEF ReaderInv, AnswerInv, OwnershipInv
<1>2. /\ TcpEvent(e) \/ UdpEvent(e)
      /\ e.type \in OpTypes /\ e.h = h
  BY <1>1, TakesOp
<1> HIDE DEF e
<1>3. e \in Tokens /\ Held({e}) # 0 /\ phase \in {"tcp", "udp"}
  BY <1>1, <1>2, CurrentHeld
<1>4. e.op \in Ops
  <2>1. e.op # None
    BY <1>1, <1>2, <1>3, HeldShaped DEF Shaped
  <2> QED
    BY <1>3, <2>1 DEF Tokens, Wakers
<1>5. ops[e.op].st = "pending" /\ Info(e) \in streams
  BY <1>1, <1>3, <1>4, HeldPending DEF ReaderInv, AllManned, Manned
<1>6. Names(Info(e))
  BY <1>1, <1>3, <1>5 DEF ReaderInv, Idle, OwnerInv, Named, NamedInfos
<1> QED
  BY <1>2, <1>5, <1>6 DEF Names, Info, e

\* If no future is cancelled, data that is taken out of a receive buffer goes to
\* a future that waits for it, on the stream it was sent to: a stream is not
\* dropped, and its handle not given away, while one of its operations is in
\* the channel, in drive_once or in a waker.
THEOREM ReaderSafety == "cancel" \notin Faults => (Spec => DataReachesReader)
<1>1. "cancel" \notin Faults /\ Init => ReaderInv
  BY InitTyped, InitSafe, InitTidy, InitShaped, InitAccounted, InitOwner, InitManned
     DEF ReaderInv, AnswerInv, OwnershipInv
<1>2. ReaderInv /\ [Next]_vars =>
        [\A h \in Handles :
            Takes(h) => /\ Current.id = sockets[h].id
                        /\ ops[Current.op].st = "pending"]_vars
  BY ReaderStep
<1> QED
  BY <1>1, <1>2, NextReader, PTL DEF Spec, DataReachesReader

-----------------------------------------------------------------------------
(* Where nobody runs two operations of a direction at once either: what is lost *)

\* The pending operations of a stream are of different directions.
Apart ==
    \A o, p \in Ops :
        (ops[o].st = "pending" /\ ops[p].st = "pending" /\ ops[o].id = ops[p].id /\ o # p)
            => Direction(ops[o].type) # Direction(ops[p].type)

LEMMA ApartStays ==
    ASSUME Apart, \A o \in Ops : ops'[o].st = "pending" => /\ ops[o].st = "pending"
                                                           /\ ops'[o].id = ops[o].id
                                                           /\ ops'[o].type = ops[o].type
    PROVE  Apart'
BY DEF Apart

LEMMA NextApart ==
    ASSUME "concurrent" \notin Faults, Typed, Tidy, AllShaped, Apart, [Next]_vars
    PROVE  Apart'
<1>1. ASSUME NEW gone, NEW e, NEW w, Spends(gone, e, w) PROVE Apart'
  <2>1. \A o \in Ops : ops'[o].st = "pending" => /\ ops[o].st = "pending"
                                                 /\ ops'[o].id = ops[o].id
                                                 /\ ops'[o].type = ops[o].type
    BY <1>1 DEF Spends, SettledBy, Final
  <2> QED
    BY <2>1, ApartStays
<1>2. CASE Flows
  BY <1>1, <1>2 DEF Flows, Loses, Uses, Turns
<1>3. ASSUME NEW how, Free(how) PROVE Apart'
  <2>1. \A o \in Ops : ops'[o].st = "pending" => ops'[o] = ops[o]
    BY <1>3 DEF Free, Settle, Typed, OpTypesOK, Futures
  <2> QED
    BY <2>1, ApartStays
<1>4. ASSUME NEW o \in Ops, NEW i \in streams, NEW type \in OpTypes, Issue(o, i, type)
      PROVE  Apart'
  <2>1. /\ ops'[o].id = i.id /\ ops'[o].type = type
        /\ \A p \in Ops : p # o => ops'[p] = ops[p]
    BY <1>4 DEF Issue, Typed, OpTypesOK
  <2>2. ASSUME NEW p \in Ops, p # o, ops[p].st = "pending", ops[p].id = i.id
        PROVE  Direction(ops[p].type) # Direction(type)
    BY <1>4, <2>2 DEF Issue, Pending
  <2> QED
    BY <2>1, <2>2 DEF Apart
<1>5. ASSUME NEW o \in Ops, Cancel(o) PROVE Apart'
  <2>1. \A p \in Ops : ops'[p].st = "pending" => ops'[p] = ops[p]
    BY <1>5 DEF Cancel, Typed, OpTypesOK, Futures
  <2> QED
    BY <2>1, ApartStays
<1> QED
  BY <1>2, <1>3, <1>4, <1>5, NextFlows DEF Frees

\* A waker of a pending operation names the socket in whose slot it waits.
LEMMA WakerNames ==
    ASSUME ReaderInv, stack = "up", NEW h \in Handles, NEW w \in {sockets[h].rw, sockets[h].tw},
           w.op \in Ops
    PROVE  /\ w \in Tokens /\ Held({w}) # 0 /\ Manned(w)
           /\ w.id = sockets[h].id /\ w.h = h
<1>1. Typed /\ Tidy /\ OwnerInv
  BY DEF ReaderInv, AnswerInv, OwnershipInv
<1>2. w \in Wakers /\ w # NoWaker
  BY <1>1, NoneAssumption DEF Typed, SocketTypes, Sockets, NoWaker
<1>3. w \in Tokens /\ Held({w}) # 0
  BY <1>1, <1>2, HeldZero DEF Tokens
<1>4. Manned(w)
  BY <1>3 DEF ReaderInv, AllManned
<1>5. w.h = h
  BY <1>1, <1>2 DEF Tidy, TidySlots, TidySlot
<1>6. Names(Info(w))
  BY <1>1, <1>4 DEF OwnerInv, Named, NamedInfos, Manned
<1> QED
  BY <1>3, <1>4, <1>5, <1>6 DEF Names, Info

\* An event that owns its socket overwrites no waker of an operation: the stream
\* of the operation would be a second owner.
LEMMA OwnerAlone ==
    ASSUME ReaderInv, stack = "up", NEW e \in Events, Held({e}) # 0, e.type \in OwnerTypes,
           NEW w \in {sockets[e.h].rw, sockets[e.h].tw}
    PROVE  w.op \notin Ops
<1> SUFFICES ASSUME w.op \in Ops PROVE FALSE
  OBVIOUS
<1>1. Typed /\ OwnerInv /\ e \in Tokens /\ e.h \in Handles /\ e.id \in Ids
  BY EventIsToken DEF ReaderInv, OwnershipInv, Events
<1>2. Manned(w) /\ w.id = sockets[e.h].id
  BY <1>1, WakerNames
<1>3. Names(e)
  BY <1>1 DEF OwnerInv, Named, NamedTokens
<1> DEFINE i == e.id
<1>4. w.id = i
  BY <1>2, <1>3 DEF Names
<1>5. Held(OwnerTokens(i)) # 0 /\ Held(OwnerTokens(i)) \in Nat
  <2>1. e \in OwnerTokens(i)
    BY <1>1 DEF OwnerTokens
  <2> QED
    BY <1>1, <2>1, HeldPart, HeldType
<1>6. Cardinality(streams \cap InfosOf(i)) # 0
  <2>1. Info(w) \in streams \cap InfosOf(i)
    BY <1>1, <1>2, <1>4 DEF Manned, InfosOf, Info, Typed, UserTypes
  <2>2. IsFiniteSet(streams \cap InfosOf(i))
    <3>1. streams \cap InfosOf(i) \in SUBSET streams /\ IsFiniteSet(streams)
      BY <1>1 DEF OwnerInv
    <3> QED
      BY <3>1, FS_Subset, Zenon
  <2> QED
    BY <2>1, <2>2, FS_EmptySet
<1>7. /\ Out(i) = Count(accepted["tcp"], InfosOf(i)) + Count(accepted["udp"], InfosOf(i))
                    + Cardinality(streams \cap InfosOf(i))
      /\ Count(accepted["tcp"], InfosOf(i)) \in Nat /\ Count(accepted["udp"], InfosOf(i)) \in Nat
      /\ Cardinality(streams \cap InfosOf(i)) \in Nat
  BY <1>1, OutType DEF OwnerInv, Out
<1>8. Held(OwnerTokens(i)) + Out(i) <= 1
  BY <1>1 DEF OwnerInv, OneOwner, Own
<1> HIDE DEF i
<1> QED
  BY <1>5, <1>6, <1>7, <1>8

\* An operation overwrites no waker of another in its direction.
LEMMA OpAlone ==
    ASSUME ReaderInv, Apart, stack = "up", NEW e \in Events, TakesOut(e), e.type \in OpTypes,
           NEW w \in {sockets[e.h].rw, sockets[e.h].tw}, Direction(Part(w)) = Direction(e.type)
    PROVE  w.op \notin Ops
<1> SUFFICES ASSUME w.op \in Ops PROVE FALSE
  OBVIOUS
<1>1. Typed /\ OwnerInv /\ Accounted /\ AllShaped /\ e \in Tokens /\ e.h \in Handles
  BY EventIsToken DEF ReaderInv, OwnershipInv, AnswerInv, Events
<1>2. w \in Tokens /\ Held({w}) # 0 /\ Manned(w) /\ w.id = sockets[e.h].id
  BY <1>1, WakerNames
<1>3. ASSUME NEW S \in SUBSET Tokens, e \in S
      PROVE  /\ Aside(S) # 0 /\ Held(S) # 0
             /\ Held(S) = Count(queue, S) + Aside(S) + Parked(sockets, S)
             /\ Count(queue, S) \in Nat /\ Aside(S) \in Nat /\ Parked(sockets, S) \in Nat
  <2>1. Aside(S)' + One(e, S) = Aside(S) /\ Aside(S)' \in Nat /\ One(e, S) = 1
    BY <1>3 DEF TakesOut, One
  <2>2. /\ Held(S) = Count(queue, S) + Aside(S) + Parked(sockets, S)
        /\ Count(queue, S) \in Nat /\ Aside(S) \in Nat /\ Parked(sockets, S) \in Nat
    BY <1>1, HeldType DEF Held
  <2> QED
    BY <2>1, <2>2
<1>4. Held({e}) # 0
  BY <1>1, <1>3
<1>5. e.op \in Ops
  BY <1>1, <1>4, HeldShaped DEF Shaped, Events
<1>6. Manned(e) /\ ops[e.op].st = "pending" /\ ops[w.op].st = "pending"
  BY <1>1, <1>2, <1>4, <1>5, HeldPending DEF ReaderInv, AllManned
<1>7. e.id = sockets[e.h].id
  BY <1>1, <1>6 DEF OwnerInv, Named, NamedInfos, Manned, Names, Info
<1>8. Part(e) = e.type
  BY DEF Part, OpTypes
<1>9. w.op = e.op
  BY <1>2, <1>5, <1>6, <1>7, <1>8 DEF Apart, Manned
<1> DEFINE S == OpTokens(e.op)
<1>10. e \in S /\ w \in S /\ S \in SUBSET Tokens
  BY <1>1, <1>2, <1>9 DEF OpTokens
<1>11. Held(S) = 1
  BY <1>5, <1>6 DEF ReaderInv, AnswerInv, Accounted, Fit
<1>12. Parked(sockets, S) # 0
  BY <1>1, <1>10, ParkedType
<1>13. /\ Aside(S) # 0 /\ Held(S) = Count(queue, S) + Aside(S) + Parked(sockets, S)
       /\ Count(queue, S) \in Nat /\ Aside(S) \in Nat /\ Parked(sockets, S) \in Nat
  BY <1>3, <1>10
<1> HIDE DEF S
<1> QED
  BY <1>11, <1>12, <1>13

\* From f to g no result sender is dropped.
Quiet(f, g) == \A o \in Ops : g[o].st = "lost" => f[o].st = "lost"

LEMMA QuietSettle ==
    ASSUME NEW f \in [Ops -> Futures], NEW O, NEW r \in {"ok", "eof", "err"}
    PROVE  Quiet(f, Settle(f, O, r)) /\ Settle(f, O, r) \in [Ops -> Futures]
<1>1. Quiet(f, Settle(f, O, r))
  BY DEF Quiet, Settle, Futures
<1> QED
  BY <1>1, SettleType DEF OpStates

\* A waker that is woken answers its operation, or sends it again.
LEMMA QuietResults ==
    ASSUME NEW f \in [Ops -> Futures], NEW s, NEW t
    PROVE  Quiet(f, Results(f, s, t)) /\ Results(f, s, t) \in [Ops -> Futures]
<1>1. PICK done, late : Results(f, s, t) = Settle(Settle(f, done, "ok"), late, "err")
  BY DEF Results
<1>2. Quiet(f, Settle(f, done, "ok")) /\ Settle(f, done, "ok") \in [Ops -> Futures]
  BY QuietSettle
<1>3. /\ Quiet(Settle(f, done, "ok"), Results(f, s, t))
      /\ Results(f, s, t) \in [Ops -> Futures]
  BY <1>1, <1>2, QuietSettle
<1> QED
  BY <1>2, <1>3 DEF Quiet

LEMMA QuietDropped ==
    ASSUME NEW f \in [Ops -> Futures], NEW w, w.op \notin Ops
    PROVE  Dropped(f, w) = f
BY DEF Dropped, Settle

\* No packet is refused: none is sent to port 0.
NoRefusal == BadAddrs \cap (TcpAddrs \cup UdpAddrs) = {}

LEMMA DriveQuiet ==
    ASSUME NoRefusal, Typed, generator, Drive
    PROVE  Quiet(ops, ops')
<1>1. ops \in [Ops -> Futures]
  BY DEF Typed, OpTypesOK
<1>2. ASSUME NEW s, NEW t, ops' = Results(ops, s, t) PROVE Quiet(ops, ops')
  BY <1>1, <1>2, QuietResults
<1>3. ASSUME UNCHANGED ops PROVE Quiet(ops, ops')
  BY <1>3 DEF Quiet
<1>4. ASSUME NEW c, NEW n, DriveSyn(c, n) PROVE Quiet(ops, ops')
  BY <1>2, <1>4 DEF DriveSyn
<1>5. ASSUME NEW c, NEW seg, NEW n, DriveSegment(c, seg, n) PROVE Quiet(ops, ops')
  BY <1>2, <1>5 DEF DriveSegment
<1>6. ASSUME NEW d, NEW n, DriveDatagram(d, n) PROVE Quiet(ops, ops')
  BY <1>2, <1>6 DEF DriveDatagram
<1>7. ASSUME NEW d, NEW n, DriveNewUdp(d, n) \/ DriveOnly(n) PROVE Quiet(ops, ops')
  BY <1>3, <1>7 DEF DriveNewUdp, DriveOnly
<1>8. ASSUME NEW k, NEW n, DriveExpire(k, n) PROVE Quiet(ops, ops')
  BY <1>2, <1>8 DEF DriveExpire
<1>9. ASSUME NEW d \in TcpAddrs \cup UdpAddrs, NEW n, DriveRefused(d, n) PROVE FALSE
  BY <1>9 DEF DriveRefused, NoRefusal
<1>10. ASSUME NEW d, NEW n, DriveUnannounced(d, n) PROVE FALSE
  BY <1>10 DEF DriveUnannounced
<1> QED
  BY <1>4, <1>5, <1>6, <1>7, <1>8, <1>9, <1>10 DEF Drive

LEMMA HandleEventQuiet ==
    ASSUME ReaderInv, Apart, stack = "up", stack' = "up", phase = "dispatch",
           HandleEvent(Head(batch))
    PROVE  Quiet(ops, ops')
<1> DEFINE e == Head(batch)
           old == sockets[e.h]
<1>1. /\ Typed /\ AllShaped /\ ops \in [Ops -> Futures]
      /\ e \in Events /\ Held({e}) # 0 /\ e.h \in Handles /\ Shaped(e)
  <2>1. Typed /\ AllShaped /\ ops \in [Ops -> Futures]
    BY DEF ReaderInv, AnswerInv, Typed, OpTypesOK
  <2> QED
    BY <2>1, HeadOfBatch, HeadHeld, ShapedBatch DEF Events
<1>2. HandleEvent(e)
  OBVIOUS
<1> HIDE DEF e
<1>3. CASE Defer(e) \/ Announce(e)
  BY <1>3 DEF Defer, Announce, Quiet
<1>4. CASE ReadyNotYet(e)
  <2>1. old.rw.op \notin Ops
    BY <1>1, <1>4, OwnerAlone DEF ReadyNotYet, OwnerTypes
  <2> QED
    BY <1>1, <1>4, <2>1, QuietDropped DEF ReadyNotYet, Quiet
<1>5. CASE ReadyPanic(e)
  BY <1>5 DEF ReadyPanic, Free
<1>6. CASE HandleShutdown(e)
  <2> DEFINE s == [old EXCEPT !.tw = DoneOf(e)]
  <2>1. CASE Registered(e)
    <3>1. ops' = Dropped(Results(ops, s, TcpClose(s)), old.tw)
      BY <1>6, <2>1 DEF HandleShutdown, Wakes, DoneOf
    <3>2. old.tw.op \notin Ops
      <4> SUFFICES ASSUME old.tw.op \in Ops PROVE FALSE
        OBVIOUS
      <4>1. TakesOut(e) /\ e.type = "Shutdown"
        BY <1>1, <1>6, HandleTakes DEF HandleShutdown
      <4>2. Direction(Part(old.tw)) = "out" /\ Direction(e.type) = "out"
        <5>1. Shaped(old.tw) /\ old.tw # NoWaker
          BY <1>1, ShapedSocket, NoneAssumption DEF NoWaker
        <5>2. old.tw.type \in {"Write", "Send", "ShutdownDone"}
          BY <1>1, <5>1, NoneAssumption
             DEF ReaderInv, AnswerInv, Tidy, TidySlots, TidySlot, SendTypes, Shaped, OpTypes
        <5> QED
          BY <4>1, <5>2 DEF Part, Direction
      <4> QED
        BY <1>1, <4>1, <4>2, OpAlone DEF OpTypes
    <3>3. Quiet(ops, Results(ops, s, TcpClose(s))) /\ Results(ops, s, TcpClose(s)) \in [Ops -> Futures]
      BY <1>1, QuietResults
    <3> QED
      BY <3>1, <3>2, <3>3, QuietDropped
  <2>2. CASE ~Registered(e)
    BY <1>1, <1>6, <2>2, QuietSettle DEF HandleShutdown
  <2> QED
    BY <2>1, <2>2
<1>7. CASE HandleClose(e)
  <2> DEFINE s == ClosedBy(e)
  <2>1. /\ OnlyWakes(old, s) /\ e.type \in OwnerTypes
        /\ \/ UNCHANGED ops \/ AwaitInactive(e, s) \/ Remove(e, s)
    BY <1>1, <1>7, ClosedByType DEF HandleClose, ClosedBy, OwnerTypes
  <2> HIDE DEF s
  <2>2. s.rw.op \notin Ops /\ s.tw.op \notin Ops
    <3>1. old.rw.op \notin Ops /\ old.tw.op \notin Ops /\ NoWaker.op \notin Ops
      BY <1>1, <2>1, OwnerAlone, NoneAssumption DEF NoWaker
    <3> QED
      BY <2>1, <3>1 DEF OnlyWakes
  <2> DEFINE f == Results(ops, old, s)
  <2>3. Quiet(ops, f) /\ f \in [Ops -> Futures]
    BY <1>1, QuietResults
  <2>4. ops' \in {ops, Dropped(f, s.rw), Dropped(Dropped(f, s.rw), s.tw)}
    BY <2>1 DEF AwaitInactive, Remove, Wakes
  <2> HIDE DEF f
  <2>5. ops' \in {ops, f}
    BY <2>2, <2>3, <2>4, QuietDropped
  <2> QED
    BY <2>3, <2>5 DEF Quiet
<1> QED
  BY <1>2, <1>3, <1>4, <1>5, <1>6, <1>7 DEF HandleEvent

LEMMA HandleOpQuiet ==
    ASSUME ReaderInv, Apart, stack = "up", NEW e, HandleOp(e)
    PROVE  Quiet(ops, ops')
<1>1. Typed /\ AllShaped /\ Tidy /\ ops \in [Ops -> Futures]
  BY DEF ReaderInv, AnswerInv, Typed, OpTypesOK
<1>2. /\ e \in Events /\ Outcome(e) /\ TakesOut(e) /\ e.h \in Handles
  BY <1>1, HandleOpOutcome, OpTakes DEF Events
<1>3. ASSUME NEW r \in {"ok", "eof", "err"}, ops' = Settle(ops, {e.op}, r) PROVE Quiet(ops, ops')
  BY <1>1, <1>3, QuietSettle
<1>4. ASSUME NEW w \in {sockets[e.h].rw, sockets[e.h].tw}, w.op \in Ops
      PROVE  Shaped(w) /\ w # NoWaker /\ w.op # None
  BY <1>1, <1>2, <1>4, ShapedSocket, NoneAssumption DEF NoWaker
<1>5. ASSUME e.type \in {"Read", "Recv"}, ParkRecv(e) PROVE Quiet(ops, ops')
  <2>1. sockets[e.h].rw.op \notin Ops
    <3> SUFFICES ASSUME sockets[e.h].rw.op \in Ops PROVE FALSE
      OBVIOUS
    <3>1. sockets[e.h].rw.type \in {"Read", "Recv"}
      BY <1>1, <1>2, <1>4 DEF Tidy, TidySlots, TidySlot, RecvTypes, Shaped, OpTypes
    <3>2. Direction(Part(sockets[e.h].rw)) = Direction(e.type) /\ e.type \in OpTypes
      BY <1>5, <3>1 DEF Part, Direction, OpTypes
    <3> QED
      BY <1>2, <3>2, OpAlone
  <2> QED
    BY <1>1, <1>5, <2>1, QuietDropped DEF ParkRecv, Quiet
<1>6. ASSUME e.type \in {"Write", "Send"}, ParkSend(e) PROVE Quiet(ops, ops')
  <2>1. sockets[e.h].tw.op \notin Ops
    <3> SUFFICES ASSUME sockets[e.h].tw.op \in Ops PROVE FALSE
      OBVIOUS
    <3>1. sockets[e.h].tw.type \in {"Write", "Send", "ShutdownDone"}
      BY <1>1, <1>2, <1>4 DEF Tidy, TidySlots, TidySlot, SendTypes, Shaped, OpTypes
    <3>2. Direction(Part(sockets[e.h].tw)) = Direction(e.type) /\ e.type \in OpTypes
      BY <1>6, <3>1 DEF Part, Direction, OpTypes
    <3> QED
      BY <1>2, <3>2, OpAlone
  <2> QED
    BY <1>1, <1>6, <2>1, QuietDropped DEF ParkSend, Quiet
<1> QED
  BY <1>2, <1>3, <1>5, <1>6 DEF Outcome, Answer, Move

\* What is gone stays gone.
LEMMA GoneStays ==
    ASSUME [Next]_vars
    PROVE  (stack # "up" => stack' # "up") /\ (~generator => ~generator')
<1>1. CASE Drive
  BY <1>1, DriveFrame DEF lifeVars
<1>2. CASE Step
  <2>1. ASSUME NEW e, HandleEvent(e)
        PROVE  (stack' = stack \/ stack' = "panicked") /\ generator' = generator
    BY <2>1 DEF HandleEvent, Defer, ReadyNotYet, Announce, ReadyPanic, HandleShutdown, HandleClose,
                Handle, Dispatch, Free, lifeVars
  <2>2. ASSUME NEW e, HandleOp(e) PROVE UNCHANGED lifeVars
    BY <2>2 DEF HandleOp, NotFound, HandleRead, HandleWrite, HandleRecv, HandleSend, TcpEvent,
                UdpEvent
  <2> QED
    BY <1>2, <2>1, <2>2 DEF Step, Egress, lifeVars
<1>3. CASE User
  BY <1>3 DEF User, Accept, Issue, Cancel, DropStream, lifeVars
<1>4. CASE Drops
  BY <1>4 DEF Drops, DropAcceptor, DropGenerator, DropStack, Discard, Free, lifeVars
<1>5. CASE UNCHANGED vars
  BY <1>5 DEF vars, lifeVars
<1> QED
  BY <1>1, <1>2, <1>3, <1>4, <1>5 DEF Next

LEMMA NextQuiet ==
    ASSUME NoRefusal, ReaderInv, Apart, [Next]_vars, stack' = "up", generator'
    PROVE  Quiet(ops, ops')
<1>1. stack = "up" /\ generator
  BY GoneStays
<1>2. Typed /\ ops \in [Ops -> Futures]
  BY DEF ReaderInv, AnswerInv, Typed, OpTypesOK
<1>3. CASE Drive
  BY <1>1, <1>2, <1>3, DriveQuiet
<1>4. CASE Step
  <2>1. ASSUME NEW h \in Handles, Egress(h) PROVE Quiet(ops, ops')
    BY <1>2, <2>1, QuietResults DEF Egress
  <2> QED
    BY <1>1, <1>4, <2>1, HandleEventQuiet, HandleOpQuiet DEF Step
<1>5. CASE User
  <2>1. ASSUME NEW o \in Ops, NEW i, NEW type, Issue(o, i, type) PROVE Quiet(ops, ops')
    BY <1>2, <2>1 DEF Issue, Quiet
  <2>2. ASSUME NEW o \in Ops, Cancel(o) PROVE FALSE
    BY <2>2 DEF Cancel, ReaderInv
  <2>3. ASSUME NEW i, Accept(i) \/ DropStream(i) PROVE Quiet(ops, ops')
    BY <2>3 DEF Accept, DropStream, Quiet
  <2> QED
    BY <1>5, <2>1, <2>2, <2>3 DEF User
<1>6. CASE Drops
  <2>1. \E k \in Kinds : DropAcceptor(k)
    BY <1>1, <1>6 DEF Drops, DropGenerator, DropStack, Free, Discard
  <2> QED
    BY <2>1 DEF DropAcceptor, Quiet
<1>7. CASE UNCHANGED vars
  BY <1>7 DEF vars, Quiet
<1> QED
  BY <1>3, <1>4, <1>5, <1>6, <1>7 DEF Next

\* The inductive invariant where nobody cancels or runs two operations of a
\* direction at once, and no packet is refused.
LossInv == /\ "concurrent" \notin Faults /\ NoRefusal
           /\ ReaderInv /\ Apart /\ LostOnlyIfGone

LEMMA NextLoss == LossInv /\ [Next]_vars => LossInv'
<1> SUFFICES ASSUME LossInv, [Next]_vars PROVE LossInv'
  OBVIOUS
<1>1. ReaderInv'
  BY NextReader DEF LossInv
<1>2. Apart'
  BY NextApart DEF LossInv, ReaderInv, AnswerInv
<1>3. LostOnlyIfGone'
  <2>1. CASE stack' # "up" \/ ~generator'
    BY <2>1 DEF LostOnlyIfGone
  <2>2. CASE stack' = "up" /\ generator'
    BY <2>2, NextQuiet, GoneStays DEF LossInv, LostOnlyIfGone, Quiet
  <2> QED
    BY <2>1, <2>2
<1> QED
  BY <1>1, <1>2, <1>3 DEF LossInv, NoRefusal

\* A user who cancels nothing and has one operation per direction under way never
\* sees BrokenPipe from a stack that is alive: no waker of a pending operation is
\* overwritten, neither by another operation, nor by the Ready or Close of the
\* socket, and none is freed with its socket.
THEOREM LossSafety ==
    "cancel" \notin Faults /\ "concurrent" \notin Faults /\ NoRefusal
        => (Spec => []LostOnlyIfGone)
<1>1. "cancel" \notin Faults /\ "concurrent" \notin Faults /\ NoRefusal /\ Init => LossInv
  <2> SUFFICES ASSUME "cancel" \notin Faults, "concurrent" \notin Faults, NoRefusal, Init
               PROVE  LossInv
    OBVIOUS
  <2>1. ReaderInv
    BY InitTyped, InitSafe, InitTidy, InitShaped, InitAccounted, InitOwner, InitManned
       DEF ReaderInv, AnswerInv, OwnershipInv
  <2>2. Apart /\ LostOnlyIfGone
    BY DEF Init, Apart, LostOnlyIfGone
  <2> QED
    BY <2>1, <2>2 DEF LossInv
<1>2. LossInv => LostOnlyIfGone
  BY DEF LossInv
<1> QED
  BY <1>1, <1>2, NextLoss, PTL DEF Spec

-----------------------------------------------------------------------------
(* Where the generator and the acceptors live and nobody cancels: every socket *)
(* has an owner                                                                *)

Has(q, S) == \E k \in DOMAIN q : q[k] \in S
AtHas(s, S) == s.rw \in S \/ s.tw \in S

\* The owners of socket i that are not among the events put aside, where no
\* owner ever is, if the sockets are ss.
OutHas(i) == (\E k \in Kinds : Has(accepted[k], InfosOf(i))) \/ (\E x \in streams : x.id = i)
OwnedIn(ss, i) ==
    \/ Has(queue, OwnerTokens(i)) \/ Has(batch, OwnerTokens(i))
    \/ \E h \in Handles : AtHas(ss[h], OwnerTokens(i))
    \/ OutHas(i)

Owned(i) == OwnedIn(sockets, i)

LEMMA HasCount ==
    ASSUME NEW T, NEW q \in Seq(T), NEW S
    PROVE  Has(q, S) <=> Count(q, S) # 0
BY CountZero DEF Has

LEMMA HasConcat ==
    ASSUME NEW T, NEW q \in Seq(T), NEW r \in Seq(T), NEW S
    PROVE  Has(q \o r, S) <=> Has(q, S) \/ Has(r, S)
<1>1. Count(q \o r, S) = Count(q, S) + Count(r, S) /\ Count(q, S) \in Nat /\ Count(r, S) \in Nat
  BY CountConcat, CountType
<1>2. q \o r \in Seq(T)
  OBVIOUS
<1>3. /\ Has(q, S) <=> Count(q, S) # 0
      /\ Has(r, S) <=> Count(r, S) # 0
      /\ Has(q \o r, S) <=> Count(q \o r, S) # 0
  BY <1>2, HasCount, Zenon
<1> QED
  BY <1>1, <1>3

LEMMA HasAppend ==
    ASSUME NEW T, NEW q \in Seq(T), NEW x \in T, NEW S
    PROVE  Has(Append(q, x), S) <=> Has(q, S) \/ x \in S
<1>1. /\ Count(Append(q, x), S) = Count(q, S) + One(x, S)
      /\ Count(q, S) \in Nat /\ One(x, S) \in Nat
  BY CountAppend, CountType, OneType
<1>2. Append(q, x) \in Seq(T) /\ (One(x, S) # 0 <=> x \in S)
  BY DEF One
<1>3. /\ Has(q, S) <=> Count(q, S) # 0
      /\ Has(Append(q, x), S) <=> Count(Append(q, x), S) # 0
  BY <1>2, HasCount, Zenon
<1> QED
  BY <1>1, <1>2, <1>3

LEMMA HasHead ==
    ASSUME NEW T, NEW q \in Seq(T), q # <<>>, NEW S, Has(q, S)
    PROVE  Head(q) \in S \/ Has(Tail(q), S)
<1>1. /\ Count(q, S) = One(Head(q), S) + Count(Tail(q), S) /\ Tail(q) \in Seq(T)
  BY CountHead
<1>2. Count(q, S) # 0 /\ (One(Head(q), S) # 0 <=> Head(q) \in S)
  BY HasCount DEF One
<1>3. Head(q) \in S \/ Count(Tail(q), S) # 0
  BY <1>1, <1>2, CountType, OneType
<1> QED
  BY <1>1, <1>3, HasCount

LEMMA HasSplit ==
    ASSUME NEW T, NEW q \in Seq(T), NEW n \in 0..Len(q), NEW S, Has(q, S)
    PROVE  Has(SubSeq(q, 1, n), S) \/ Has(SubSeq(q, n + 1, Len(q)), S)
<1>1. /\ Count(q, S) = Count(SubSeq(q, 1, n), S) + Count(SubSeq(q, n + 1, Len(q)), S)
      /\ SubSeq(q, 1, n) \in Seq(T) /\ SubSeq(q, n + 1, Len(q)) \in Seq(T)
  BY CountSplit, SubSeqProperties
<1>2. Count(q, S) # 0
  BY HasCount
<1>3. Count(SubSeq(q, 1, n), S) # 0 \/ Count(SubSeq(q, n + 1, Len(q)), S) # 0
  BY <1>1, <1>2
<1> QED
  BY <1>1, <1>3, HasCount

LEMMA HasOne == ASSUME NEW x, NEW S PROVE Has(<<x>>, S) <=> x \in S
BY DEF Has

LEMMA HasNone == ASSUME NEW S PROVE ~Has(<<>>, S)
BY DEF Has

\* drive_once takes the first events of the channel; nothing is lost of them.
LEMMA BeginHas ==
    ASSUME Typed, Tidy, NEW n \in Batches, NEW ss, NEW sent \in Seq(Events), Begin(n, ss, sent),
           NEW S, Has(queue, S) \/ Has(batch, S) \/ Has(sent, S)
    PROVE  Has(queue', S) \/ Has(batch', S)
<1>1. batch = <<>> /\ queue \in Seq(Events) /\ n \in 0..Len(queue)
  BY DEF Begin, Tidy, Phases, Typed, FlowTypes, Batches
<1>2. SubSeq(queue, n + 1, Len(queue)) \in Seq(Events)
  BY <1>1, SubSeqProperties
<1>3. batch' = SubSeq(queue, 1, n) /\ queue' = SubSeq(queue, n + 1, Len(queue)) \o sent
  BY DEF Begin
<1>0. Has(SubSeq(queue, n + 1, Len(queue)), S) \/ Has(sent, S)
        => Has(SubSeq(queue, n + 1, Len(queue)) \o sent, S)
  BY <1>2, HasConcat, Zenon
<1>4. CASE Has(queue, S)
  <2>1. Has(SubSeq(queue, 1, n), S) \/ Has(SubSeq(queue, n + 1, Len(queue)), S)
    BY <1>1, <1>4, HasSplit, Zenon
  <2> QED
    BY <1>0, <1>3, <2>1
<1>5. CASE Has(sent, S)
  BY <1>0, <1>3, <1>5
<1> QED
  BY <1>1, <1>4, <1>5, HasNone

\* An owner among the wakers of a socket stays, or its event is sent.
LEMMA WakeHas ==
    ASSUME generator, NEW s \in Sockets, NEW t \in Sockets, OnlyWakes(s, t), NEW i,
           AtHas(s, OwnerTokens(i))
    PROVE  AtHas(t, OwnerTokens(i)) \/ Has(Sends(s, t), OwnerTokens(i))
<1> DEFINE S == OwnerTokens(i)
<1>1. ASSUME NEW w \in S PROVE WakeSend(w) = <<w>> /\ w # NoWaker
  BY DEF WakeSend, OwnerTokens, OwnerTypes, EventTypes, Tokens
<1>2. WakeSend(WokenRw(s, t)) \in Seq(Events) /\ WakeSend(WokenTw(s, t)) \in Seq(Events)
  <2>1. ASSUME NEW w \in Wakers PROVE WakeSend(w) \in Seq(Events)
    <3>1. w.type \in EventTypes => w \in Events
      BY DEF Wakers, NoWaker, Events, EventTypes, OpTypes
    <3> QED
      BY <3>1 DEF WakeSend
  <2>2. WokenRw(s, t) \in Wakers /\ WokenTw(s, t) \in Wakers
    BY NoSocketType DEF WokenRw, WokenTw, Sockets
  <2> QED
    BY <2>1, <2>2
<1>3. Has(Sends(s, t), S) <=> Has(WakeSend(WokenRw(s, t)), S) \/ Has(WakeSend(WokenTw(s, t)), S)
  BY <1>2, HasConcat DEF Sends
<1>4. ASSUME s.rw \in S, t.rw \notin S PROVE Has(WakeSend(WokenRw(s, t)), S)
  <2>1. WokenRw(s, t) = s.rw
    BY <1>4 DEF OnlyWakes, WokenRw
  <2> QED
    BY <1>1, <1>4, <2>1, HasOne
<1>5. ASSUME s.tw \in S, t.tw \notin S PROVE Has(WakeSend(WokenTw(s, t)), S)
  <2>1. WokenTw(s, t) = s.tw
    BY <1>5 DEF OnlyWakes, WokenTw
  <2> QED
    BY <1>1, <1>5, <2>1, HasOne
<1> QED
  BY <1>3, <1>4, <1>5 DEF AtHas

\* The poll wakes the socket in slot k.
LEMMA PollsOwned ==
    ASSUME Typed, Tidy, generator, NEW n \in Batches, NEW ss \in [Handles -> Sockets],
           NEW k \in Handles, NEW t \in Sockets, OnlyWakes(ss[k], t),
           Begin(n, [ss EXCEPT ![k] = t], Sends(ss[k], t)), NEW i, OwnedIn(ss, i)
    PROVE  Owned(i)'
<1> DEFINE S == OwnerTokens(i)
<1>1. ss[k] \in Sockets /\ Sends(ss[k], t) \in Seq(Events)
  BY SendsType
<1>2. /\ sockets'[k] = t /\ \A h \in Handles : h # k => sockets'[h] = ss[h]
      /\ UNCHANGED <<accepted, streams>>
  BY DEF Begin, userVars
<1>3. ASSUME Has(queue, S) \/ Has(batch, S) \/ Has(Sends(ss[k], t), S)
      PROVE  Has(queue', S) \/ Has(batch', S)
  BY <1>1, <1>3, BeginHas
<1>4. ASSUME NEW h \in Handles, AtHas(ss[h], S)
      PROVE  AtHas(sockets'[h], S) \/ Has(Sends(ss[k], t), S)
  <2>1. CASE h = k
    BY <1>1, <1>2, <1>4, <2>1, WakeHas
  <2>2. CASE h # k
    BY <1>2, <1>4, <2>2
  <2> QED
    BY <2>1, <2>2
<1>5. OutHas(i)' <=> OutHas(i)
  BY <1>2 DEF OutHas
<1> HIDE DEF S
<1>6. \/ Has(queue', S) \/ Has(batch', S)
      \/ \E h \in Handles : AtHas(sockets'[h], S)
      \/ OutHas(i)'
  BY <1>3, <1>4, <1>5 DEF OwnedIn, S
<1> QED
  BY <1>6 DEF Owned, OwnedIn, S

\* A socket is put into a free slot: nobody was there.
LEMMA AddedOwned ==
    ASSUME Tidy, NEW h \in Handles, h \in FreeHandles, NEW ss, Beside(sockets, ss, h),
           NEW i, Owned(i)
    PROVE  OwnedIn(ss, i)
<1>1. ~AtHas(sockets[h], OwnerTokens(i))
  BY DEF FreeHandles, Tidy, TidySlots, TidySlot, AtHas, OwnerTokens, Tokens
<1> QED
  BY <1>1 DEF Owned, OwnedIn, Beside

\* What drive_once does with its packet leaves every socket its owner, and gives
\* a new one its Ready event.
Cares == \A i \in Ids : Owned(i) \/ (i = next_id /\ next_id' # next_id) => Owned(i)'

LEMMA ReadyOwns ==
    ASSUME NEW h \in Handles, NEW kind \in Kinds, next_id \in Ids
    PROVE  Ready(h, kind) \in OwnerTokens(next_id) /\ Ready(h, kind) \in Events
<1>1. Ready(h, kind) \in Events /\ Ready(h, kind).type = "Ready" /\ Ready(h, kind).id = next_id
  BY ReadyType DEF Ready, Event
<1> QED
  BY <1>1, EventIsToken DEF OwnerTokens, OwnerTypes

LEMMA DriveSynOwned ==
    ASSUME Typed, Tidy, generator, NEW c \in Conns, NEW n \in Batches, DriveSyn(c, n)
    PROVE  Cares
<1>1. sockets \in [Handles -> Sockets] /\ next_id \in Ids
  BY NewId DEF Typed, SocketTypes, DriveSyn
<1>2. PICK h \in Handles, k \in Handles :
        LET new == [kind |-> "tcp", h |-> h, id |-> next_id]
            added == [sockets EXCEPT ![h] =
                        ReadyOnSend(TcpListener(next_id, c[2]),
                                    Event("Ready", new, None))]
            polled == Process(added[k], c, "SYN")
        IN  /\ h \in FreeHandles
            /\ Begin(n, [added EXCEPT ![k] = polled], Sends(added[k], polled))
  BY DEF DriveSyn, IsFirst
<1> DEFINE e == Ready(h, "tcp")
           l == ReadyOnSend(TcpListener(next_id, c[2]), e)
           added == [sockets EXCEPT ![h] = l]
           polled == Process(added[k], c, "SYN")
<1>3. e \in OwnerTokens(next_id) /\ e \in Wakers
  BY <1>1, ReadyOwns, EventIsWaker DEF Kinds
<1>4. l \in Sockets /\ l.tw = e
  <2>1. c[2] \in TcpAddrs
    BY DEF Conns
  <2>2. l \in Sockets
    BY <1>1, <1>3, <2>1, NewSocketType
  <2> QED
    BY <2>2 DEF ReadyOnSend, TcpListener, NoSocket
<1>5. Begin(n, [added EXCEPT ![k] = polled], Sends(added[k], polled))
  BY <1>2 DEF Ready
<1> HIDE DEF e, l
<1>6. added \in [Handles -> Sockets] /\ added[h] = l /\ Beside(sockets, added, h)
  BY <1>1, <1>4 DEF Beside
<1> HIDE DEF added
<1>7. polled \in Sockets /\ OnlyWakes(added[k], polled)
  BY <1>6, ProcessType, WakeSteps
<1> HIDE DEF polled
<1>8. ASSUME NEW i, OwnedIn(added, i) PROVE Owned(i)'
  BY <1>5, <1>6, <1>7, <1>8, PollsOwned
<1>9. OwnedIn(added, next_id)
  BY <1>3, <1>4, <1>6 DEF OwnedIn, AtHas
<1>10. h \in FreeHandles
  BY <1>2
<1>11. ASSUME NEW i \in Ids, Owned(i) \/ i = next_id PROVE OwnedIn(added, i)
  BY <1>6, <1>9, <1>10, <1>11, AddedOwned
<1> QED
  BY <1>8, <1>11 DEF Cares

LEMMA DriveNewUdpOwned ==
    ASSUME Typed, Tidy, generator, NEW d \in UdpAddrs, NEW n \in Batches, DriveNewUdp(d, n)
    PROVE  Cares
<1>1. sockets \in [Handles -> Sockets] /\ next_id \in Ids
  BY NewId DEF Typed, SocketTypes, DriveNewUdp
<1> DEFINE t == Datagram(UdpBound(next_id, d))
<1>2. PICK h \in Handles :
        /\ h \in FreeHandles
        /\ Begin(n, [sockets EXCEPT ![h] = t], <<Ready(h, "udp")>>)
  BY DEF DriveNewUdp, IsFirst, Ready
<1> DEFINE e == Ready(h, "udp")
<1>3. e \in OwnerTokens(next_id) /\ <<e>> \in Seq(Events)
  BY <1>1, ReadyOwns DEF Kinds
<1> HIDE DEF t, e
<1>4. Beside(sockets, sockets', h) /\ UNCHANGED <<accepted, streams>>
  BY <1>1, <1>2 DEF Begin, Beside, userVars
<1>5. ASSUME NEW S, Has(queue, S) \/ Has(batch, S) \/ e \in S PROVE Has(queue', S) \/ Has(batch', S)
  BY <1>2, <1>3, <1>5, HasOne, BeginHas DEF e
<1>6. ASSUME NEW i, i = next_id PROVE Owned(i)'
  BY <1>3, <1>5, <1>6 DEF Owned, OwnedIn
<1>7. ASSUME NEW i \in Ids, Owned(i) PROVE Owned(i)'
  <2>1. OwnedIn(sockets', i)
    BY <1>2, <1>4, <1>7, AddedOwned
  <2>2. OutHas(i)' <=> OutHas(i)
    BY <1>4 DEF OutHas
  <2> QED
    BY <1>5, <2>1, <2>2 DEF Owned, OwnedIn
<1> QED
  BY <1>6, <1>7 DEF Cares

LEMMA DriveOwned ==
    ASSUME Typed, Tidy, generator, NoRefusal, Drive
    PROVE  Cares
<1>1. PICK n \in Batches :
        \/ \E c \in Conns : DriveSyn(c, n)
        \/ \E c \in Conns, seg \in Segments : DriveSegment(c, seg, n)
        \/ \E d \in UdpAddrs : DriveDatagram(d, n)
        \/ \E d \in UdpAddrs : DriveNewUdp(d, n)
        \/ DriveOnly(n)
        \/ \E k \in Handles : DriveExpire(k, n)
        \/ \E d \in TcpAddrs \cup UdpAddrs : DriveRefused(d, n)
        \/ \E d \in UdpAddrs : DriveUnannounced(d, n)
  BY DEF Drive
<1>2. sockets \in [Handles -> Sockets]
  BY DEF Typed, SocketTypes
<1>3. ASSUME NEW k \in Handles, NEW t \in Sockets, OnlyWakes(sockets[k], t), UNCHANGED next_id,
             Begin(n, [sockets EXCEPT ![k] = t], Sends(sockets[k], t))
      PROVE  Cares
  BY <1>2, <1>3, PollsOwned DEF Cares, Owned
<1>4. ASSUME NEW c \in Conns, NEW seg, DriveSegment(c, seg, n) PROVE Cares
  <2>1. PICK k \in Handles :
          LET t == Process(sockets[k], c, seg)
          IN  Begin(n, [sockets EXCEPT ![k] = t], Sends(sockets[k], t))
    BY <1>4 DEF DriveSegment
  <2>2. Process(sockets[k], c, seg) \in Sockets /\ OnlyWakes(sockets[k], Process(sockets[k], c, seg))
    BY <1>2, ProcessType, WakeSteps
  <2>3. UNCHANGED next_id
    BY <1>4 DEF DriveSegment
  <2> QED
    BY <1>3, <2>1, <2>2, <2>3
<1>5. ASSUME NEW d, DriveDatagram(d, n) PROVE Cares
  <2>1. PICK k \in Handles :
          LET t == Datagram(sockets[k])
          IN  Begin(n, [sockets EXCEPT ![k] = t], Sends(sockets[k], t))
    BY <1>5 DEF DriveDatagram
  <2>2. Datagram(sockets[k]) \in Sockets /\ OnlyWakes(sockets[k], Datagram(sockets[k]))
    BY <1>2, DatagramType, WakeSteps
  <2>3. UNCHANGED next_id
    BY <1>5 DEF DriveDatagram
  <2> QED
    BY <1>3, <2>1, <2>2, <2>3
<1>6. ASSUME NEW k \in Handles, DriveExpire(k, n) PROVE Cares
  <2>1. /\ Begin(n, [sockets EXCEPT ![k] = Expire(sockets[k])], Sends(sockets[k], Expire(sockets[k])))
        /\ UNCHANGED next_id
    BY <1>6 DEF DriveExpire
  <2>2. Expire(sockets[k]) \in Sockets /\ OnlyWakes(sockets[k], Expire(sockets[k]))
    BY <1>2, ExpireType, WakeSteps
  <2> QED
    BY <1>3, <2>1, <2>2
<1>7. ASSUME DriveOnly(n) PROVE Cares
  <2>1. Begin(n, sockets, <<>>) /\ sockets' = sockets /\ UNCHANGED <<next_id, accepted, streams>>
    BY <1>7 DEF DriveOnly, Begin, userVars
  <2>2. ASSUME NEW S, Has(queue, S) \/ Has(batch, S) PROVE Has(queue', S) \/ Has(batch', S)
    <3>1. <<>> \in Seq(Events)
      OBVIOUS
    <3> QED
      BY <2>1, <2>2, <3>1, BeginHas
  <2> QED
    BY <2>1, <2>2 DEF Cares, Owned, OwnedIn, OutHas
<1>8. ASSUME NEW d \in TcpAddrs \cup UdpAddrs, DriveRefused(d, n) PROVE FALSE
  BY <1>8 DEF DriveRefused, NoRefusal
<1>9. ASSUME NEW d, DriveUnannounced(d, n) PROVE FALSE
  BY <1>9 DEF DriveUnannounced
<1> QED
  BY <1>1, <1>4, <1>5, <1>6, <1>7, <1>8, <1>9, DriveSynOwned, DriveNewUdpOwned

\* A step that puts t into slot h and sends events: what an owner needs.
LEMMA SlotOwned ==
    ASSUME Typed, NEW h \in Handles, NEW t, NEW sent \in Seq(Events), NEW i, Owned(i),
           Update(h, t, sent), UNCHANGED <<accepted, streams>>,
           Has(batch, OwnerTokens(i)) =>
               Has(batch', OwnerTokens(i)) \/ AtHas(t, OwnerTokens(i)) \/ OutHas(i),
           AtHas(sockets[h], OwnerTokens(i)) =>
               AtHas(t, OwnerTokens(i)) \/ Has(sent, OwnerTokens(i)) \/ OutHas(i)
    PROVE  Owned(i)'
<1> DEFINE S == OwnerTokens(i)
<1>1. queue \in Seq(Events) /\ queue' = queue \o sent
  BY DEF Typed, FlowTypes, Update
<1>2. sockets'[h] = t /\ \A k \in Handles : k # h => sockets'[k] = sockets[k]
  BY DEF Typed, SocketTypes, Update
<1>3. Has(queue, S) \/ Has(sent, S) => Has(queue', S)
  BY <1>1, HasConcat
<1>4. OutHas(i)' <=> OutHas(i)
  BY DEF OutHas
<1>5. AtHas(t, S) => \E k \in Handles : AtHas(sockets'[k], S)
  BY <1>2
<1>6. ASSUME NEW k \in Handles, AtHas(sockets[k], S)
      PROVE  (\E j \in Handles : AtHas(sockets'[j], S)) \/ Has(sent, S) \/ OutHas(i)
  <2>1. CASE k = h
    BY <1>5, <1>6, <2>1
  <2>2. CASE k # h
    BY <1>2, <1>6, <2>2
  <2> QED
    BY <2>1, <2>2
<1>7. \/ Has(queue', S) \/ Has(batch', S)
      \/ \E k \in Handles : AtHas(sockets'[k], S)
      \/ OutHas(i)
  BY <1>3, <1>5, <1>6 DEF Owned, OwnedIn
<1> QED
  BY <1>4, <1>7 DEF Owned, OwnedIn

\* The owners among the wakers of a slot own the socket in it.
LEMMA SlotOwner ==
    ASSUME ReaderInv, stack = "up", NEW h \in Handles, NEW i, AtHas(sockets[h], OwnerTokens(i))
    PROVE  i = sockets[h].id
<1>1. PICK w \in {sockets[h].rw, sockets[h].tw} : w \in OwnerTokens(i)
  BY DEF AtHas
<1>2. w \in Tokens /\ w.type \in OwnerTypes /\ w.id = i
  BY <1>1 DEF OwnerTokens
<1>3. Typed /\ Tidy /\ OwnerInv
  BY DEF ReaderInv, AnswerInv, OwnershipInv
<1>4. Held({w}) # 0
  BY <1>1, <1>3, HeldZero
<1>5. Names(w)
  BY <1>2, <1>3, <1>4 DEF OwnerInv, Named, NamedTokens
<1>6. w.h = h
  BY <1>1, <1>2, <1>3 DEF Tidy, TidySlots, TidySlot, Tokens
<1> QED
  BY <1>2, <1>5, <1>6 DEF Names

\* The socket of an operation under way is owned by its stream.
LEMMA OpOwned ==
    ASSUME ReaderInv, stack = "up", NEW e \in Events, Held({e}) # 0, e.op \in Ops
    PROVE  OutHas(sockets[e.h].id) /\ sockets[e.h].id = e.id
<1>1. OwnerInv /\ e \in Tokens
  BY EventIsToken DEF ReaderInv, OwnershipInv
<1>2. Info(e) \in streams
  BY <1>1 DEF ReaderInv, AllManned, Manned
<1>3. Names(Info(e))
  BY <1>1, <1>2 DEF OwnerInv, Named, NamedInfos
<1>4. Info(e).id = e.id /\ sockets[e.h].id = e.id
  BY <1>3 DEF Names, Info
<1> QED
  BY <1>2, <1>4 DEF OutHas

\* Every owner stays.
Owning == \A i \in Ids : Owned(i) => Owned(i)'

LEMMA EgressOwned ==
    ASSUME ReaderInv, generator, NEW h \in Handles, Egress(h)
    PROVE  Owning
<1> DEFINE s == sockets[h]
           t == Transmit(s)
<1>1. Typed /\ s \in Sockets /\ t \in Sockets /\ OnlyWakes(s, t) /\ Sends(s, t) \in Seq(Events)
  <2>1. Typed /\ s \in Sockets
    BY DEF ReaderInv, AnswerInv, Typed, SocketTypes
  <2> QED
    BY <2>1, TransmitType, WakeSteps, SendsType
<1>2. Update(h, t, Sends(s, t)) /\ UNCHANGED <<batch, accepted, streams>>
  BY DEF Egress, Update, userVars
<1> HIDE DEF t
<1>3. ASSUME NEW i, AtHas(s, OwnerTokens(i))
      PROVE  AtHas(t, OwnerTokens(i)) \/ Has(Sends(s, t), OwnerTokens(i))
  BY <1>1, <1>3, WakeHas
<1>4. ASSUME NEW i \in Ids, Owned(i) PROVE Owned(i)'
  BY <1>1, <1>2, <1>3, <1>4, SlotOwned
<1> QED
  BY <1>4 DEF Owning

LEMMA HandleOpOwned ==
    ASSUME ReaderInv, stack = "up", NEW e, HandleOp(e)
    PROVE  Owning
<1>1. Typed /\ AllShaped /\ <<>> \in Seq(Events) /\ sockets \in [Handles -> Sockets]
  BY DEF ReaderInv, AnswerInv, Typed, SocketTypes
<1>2. e \in Events /\ Outcome(e) /\ e.h \in Handles /\ (TcpEvent(e) \/ UdpEvent(e))
  BY <1>1, HandleOpOutcome DEF Events
<1>3. UNCHANGED <<batch, queue, accepted, streams>>
  BY <1>2 DEF TcpEvent, UdpEvent, userVars
<1> DEFINE s == sockets[e.h]
<1>4. ASSUME NEW t, Update(e.h, t, <<>>),
             \A i : AtHas(s, OwnerTokens(i)) => AtHas(t, OwnerTokens(i)) \/ OutHas(i)
      PROVE  Owning
  <2>1. ASSUME NEW i \in Ids, Owned(i) PROVE Owned(i)'
    BY <1>1, <1>2, <1>3, <1>4, <2>1, SlotOwned
  <2> QED
    BY <2>1 DEF Owning
<1>5. ASSUME UNCHANGED sockets PROVE Owning
  <2>1. Update(e.h, s, <<>>)
    BY <1>1, <1>2, <1>3, <1>5, StillUpdate
  <2> QED
    BY <1>4, <2>1
<1>6. ASSUME NEW t, sockets' = [sockets EXCEPT ![e.h] = t],
             \A i : AtHas(s, OwnerTokens(i)) => AtHas(t, OwnerTokens(i)) \/ OutHas(i)
      PROVE  Owning
  BY <1>1, <1>3, <1>4, <1>6, QueueStays
<1>7. ASSUME NEW rx, NEW tx, NEW r, Move(e, rx, tx, r) PROVE Owning
  <2> DEFINE t == [s EXCEPT !.rx = rx, !.tx = tx]
  <2>1. sockets' = [sockets EXCEPT ![e.h] = t]
    BY <1>7 DEF Move
  <2>2. t.rw = s.rw /\ t.tw = s.tw
    BY <1>1, <1>2 DEF Sockets
  <2> QED
    BY <1>6, <2>1, <2>2 DEF AtHas
<1>8. ASSUME e.type \in OpTypes, NEW t, sockets' = [sockets EXCEPT ![e.h] = t] PROVE Owning
  <2>1. Held({e}) # 0 /\ e \in Tokens
    BY <1>1, <1>2, CurrentHeld
  <2>2. e.op \in Ops
    BY <1>1, <1>2, <1>8, <2>1, HeldShaped DEF Shaped, Events
  <2>3. \A i : AtHas(s, OwnerTokens(i)) => OutHas(i)
    BY <1>2, <2>1, <2>2, OpOwned, SlotOwner
  <2> QED
    BY <1>6, <1>8, <2>3
<1>9. ASSUME e.type \in OpTypes, ParkRecv(e) \/ ParkSend(e) PROVE Owning
  BY <1>8, <1>9 DEF ParkRecv, ParkSend
<1> QED
  BY <1>2, <1>5, <1>7, <1>9 DEF Outcome, Answer, OpTypes

\* The event at the head of the batch is taken out.
LEMMA HandleHas ==
    ASSUME Typed, NEW e, Handle(e), NEW S, Has(batch, S)
    PROVE  e \in S \/ Has(batch', S)
<1>1. batch \in Seq(Events) /\ batch # <<>> /\ e = Head(batch) /\ batch' = Tail(batch)
  BY DEF Typed, PhaseOK, FlowTypes, Handle, Dispatch
<1> QED
  BY <1>1, HasHead

\* An event of an operation owns nothing.
LEMMA NoOwner ==
    ASSUME NEW e, e.type \in OpTypes, NEW i
    PROVE  e \notin OwnerTokens(i)
BY DEF OpTypes, OwnerTokens, OwnerTypes

LEMMA DeferOwned ==
    ASSUME ReaderInv, phase = "dispatch", NEW e \in Events, Defer(e)
    PROVE  Owning
<1>1. Typed /\ e.h \in Handles /\ e.type \in OpTypes
  BY DEF ReaderInv, AnswerInv, Events, Defer, OpTypes
<1>2. /\ batch \in Seq(Events) /\ batch # <<>> /\ e = Head(batch) /\ batch' = Tail(batch)
      /\ UNCHANGED <<sockets, queue, accepted, streams>>
  BY <1>1 DEF Typed, PhaseOK, FlowTypes, Defer, Dispatch, sockVars
<1>3. Update(e.h, sockets[e.h], <<>>) /\ <<>> \in Seq(Events)
  BY <1>1, <1>2, StillUpdate
<1>4. ASSUME NEW i \in Ids, Owned(i) PROVE Owned(i)'
  <2>1. Has(batch, OwnerTokens(i)) => Has(batch', OwnerTokens(i))
    BY <1>1, <1>2, HasHead, NoOwner
  <2> QED
    BY <1>1, <1>2, <1>3, <1>4, <2>1, SlotOwned
<1> QED
  BY <1>4 DEF Owning

\* A Ready or Close event that becomes the waker of its slot takes the place of
\* any other owner there.
LEMMA OwnerParked ==
    ASSUME ReaderInv, stack = "up", phase = "dispatch", NEW e \in Events, e = Head(batch),
           Handle(e), e.type \in OwnerTypes, NEW t, t.rw = e, NEW sent \in Seq(Events),
           Update(e.h, t, sent), UNCHANGED accepted
    PROVE  Owning
<1>1. Typed /\ OwnerInv /\ e.h \in Handles /\ e \in Tokens /\ UNCHANGED streams
  BY EventIsToken DEF ReaderInv, OwnershipInv, Events, Handle, Dispatch
<1>2. sockets[e.h].id = e.id
  BY <1>1, HeadNamed DEF Names
<1>3. AtHas(t, OwnerTokens(e.id))
  BY <1>1 DEF AtHas, OwnerTokens
<1>4. ASSUME NEW i \in Ids, Owned(i) PROVE Owned(i)'
  <2>1. e \in OwnerTokens(i) => AtHas(t, OwnerTokens(i))
    BY DEF AtHas
  <2>2. Has(batch, OwnerTokens(i)) => Has(batch', OwnerTokens(i)) \/ AtHas(t, OwnerTokens(i))
    BY <1>1, <2>1, HandleHas
  <2>3. AtHas(sockets[e.h], OwnerTokens(i)) => AtHas(t, OwnerTokens(i))
    BY <1>1, <1>2, <1>3, SlotOwner
  <2> QED
    BY <1>1, <1>4, <2>2, <2>3, SlotOwned
<1> QED
  BY <1>4 DEF Owning

LEMMA ReadyNotYetOwned ==
    ASSUME ReaderInv, stack = "up", phase = "dispatch", NEW e \in Events, e = Head(batch),
           ReadyNotYet(e)
    PROVE  Owning
<1> DEFINE t == [sockets[e.h] EXCEPT !.rw = e]
<1>1. Typed /\ sockets[e.h] \in Sockets /\ <<>> \in Seq(Events)
  BY DEF ReaderInv, AnswerInv, Typed, SocketTypes, Events
<1>2. /\ Handle(e) /\ e.type \in OwnerTypes /\ UNCHANGED <<queue, accepted>>
      /\ sockets' = [sockets EXCEPT ![e.h] = t]
  BY DEF ReadyNotYet, OwnerTypes
<1>3. t.rw = e
  BY <1>1 DEF Sockets
<1> HIDE DEF t
<1>4. Update(e.h, t, <<>>)
  BY <1>1, <1>2, QueueStays
<1> QED
  BY <1>1, <1>2, <1>3, <1>4, OwnerParked

LEMMA AnnounceOwned ==
    ASSUME ReaderInv, acceptors = Kinds, phase = "dispatch", NEW e \in Events, Announce(e)
    PROVE  Owning
<1>1. Typed /\ e.kind \in Kinds /\ Info(e) \in Infos /\ accepted \in [Kinds -> Seq(Infos)]
  BY InfoOf DEF ReaderInv, AnswerInv, Typed, UserTypes
<1>2. /\ Handle(e) /\ UNCHANGED <<sockets, queue, streams>>
      /\ accepted' = [accepted EXCEPT ![e.kind] = Append(accepted[e.kind], Info(e))]
  BY <1>1 DEF Announce, Handle, Dispatch, sockVars, Info
<1>3. ASSUME NEW i, e \in OwnerTokens(i) \/ OutHas(i) PROVE OutHas(i)'
  <2>1. ASSUME NEW S, Info(e) \in S PROVE Has(accepted'[e.kind], S)
    BY <1>1, <1>2, <2>1, HasAppend
  <2>2. ASSUME NEW S, NEW k \in Kinds, Has(accepted[k], S) PROVE Has(accepted'[k], S)
    <3>1. CASE k = e.kind
      BY <1>1, <1>2, <2>2, <3>1, HasAppend
    <3>2. CASE k # e.kind
      BY <1>1, <1>2, <2>2, <3>2
    <3> QED
      BY <3>1, <3>2
  <2>3. CASE e \in OwnerTokens(i)
    BY <1>1, <2>1, <2>3, InfoOf DEF OutHas, OwnerTokens
  <2>4. CASE OutHas(i)
    BY <1>2, <2>2, <2>4 DEF OutHas
  <2> QED
    BY <1>3, <2>3, <2>4
<1>4. ASSUME NEW i \in Ids, Owned(i) PROVE Owned(i)'
  <2>1. Has(batch, OwnerTokens(i)) => e \in OwnerTokens(i) \/ Has(batch', OwnerTokens(i))
    BY <1>1, <1>2, HandleHas
  <2> QED
    BY <1>2, <1>3, <1>4, <2>1 DEF Owned, OwnedIn
<1> QED
  BY <1>4 DEF Owning

LEMMA HandleShutdownOwned ==
    ASSUME ReaderInv, generator, stack = "up", phase = "dispatch", NEW e \in Events,
           e = Head(batch), HandleShutdown(e)
    PROVE  Owning
<1>1. /\ Typed /\ AllShaped /\ e.h \in Handles /\ e \in Tokens /\ e.type \in OpTypes
      /\ sockets[e.h] \in Sockets /\ Handle(e) /\ UNCHANGED <<accepted, streams>>
  BY EventIsToken DEF ReaderInv, AnswerInv, Typed, SocketTypes, Events, HandleShutdown, OpTypes,
                      Handle, Dispatch
<1>2. Held({e}) # 0
  BY <1>1, HeadHeld
<1>3. e.op \in Ops
  BY <1>1, <1>2, HeldShaped DEF Shaped, Events
<1>4. \A i : AtHas(sockets[e.h], OwnerTokens(i)) => OutHas(i)
  BY <1>1, <1>2, <1>3, OpOwned, SlotOwner
<1>5. ASSUME NEW t, NEW sent \in Seq(Events), Update(e.h, t, sent) PROVE Owning
  <2>1. ASSUME NEW i \in Ids, Owned(i) PROVE Owned(i)'
    <3>1. Has(batch, OwnerTokens(i)) => Has(batch', OwnerTokens(i))
      BY <1>1, HandleHas, NoOwner
    <3> QED
      BY <1>1, <1>4, <1>5, <2>1, <3>1, SlotOwned
  <2> QED
    BY <2>1 DEF Owning
<1>6. CASE Registered(e)
  <2> DEFINE s == [sockets[e.h] EXCEPT !.tw = DoneOf(e)]
             t == TcpClose(s)
  <2>1. Update(e.h, t, Sends(s, t))
    BY <1>6 DEF HandleShutdown, Wakes, Update, DoneOf
  <2>2. s \in Sockets /\ t \in Sockets
    <3>1. s \in Sockets
      BY <1>1, DoneType DEF Sockets
    <3> QED
      BY <3>1, TcpCloseType
  <2> HIDE DEF s, t
  <2> QED
    BY <1>5, <2>1, <2>2, SendsType
<1>7. CASE ~Registered(e)
  <2>1. UNCHANGED <<sockets, queue>>
    BY <1>7 DEF HandleShutdown
  <2> QED
    BY <1>1, <1>5, <2>1, StillUpdate
<1> QED
  BY <1>6, <1>7

\* Every owner of a socket other than i stays.
OthersOwned(j) == \A i \in Ids : i # j /\ Owned(i) => Owned(i)'

\* A Close event finds its socket, and waits in its slot or removes it.
LEMMA HandleCloseOwned ==
    ASSUME ReaderInv, stack = "up", phase = "dispatch", NEW e \in Events, e = Head(batch),
           HandleClose(e)
    PROVE  \/ Owning /\ Kept
           \/ /\ OthersOwned(e.id) /\ Cleared(e.h)
              /\ e.h \in Occupied /\ sockets[e.h].id = e.id
<1> DEFINE s == ClosedBy(e)
<1>1. /\ Typed /\ AllShaped /\ Safe /\ OwnerInv /\ e.h \in Handles /\ e.type \in OwnerTypes
      /\ e.kind \in Kinds /\ Handle(e) /\ UNCHANGED <<accepted, streams>>
  BY DEF ReaderInv, OwnershipInv, Events, HandleClose, OwnerTypes, Handle, Dispatch
<1>2. Names(e)
  BY <1>1, HeadNamed
<1>3. sockets[e.h].kind = e.kind /\ sockets[e.h].id = e.id /\ e.h \in Occupied
  BY <1>1, <1>2 DEF Names, Occupied, Kinds
<1>4. Registered(e)
  BY <1>1, <1>3 DEF Safe, Tables, Describe, Registered
<1>5. /\ sockets[e.h] \in Sockets /\ s \in Sockets /\ OnlyWakes(sockets[e.h], s)
      /\ Sends(sockets[e.h], s) \in Seq(Events)
  BY <1>1, ClosedByType, SendsType
<1>6. AwaitInactive(e, s) \/ Remove(e, s)
  BY <1>4 DEF HandleClose, ClosedBy
<1> HIDE DEF s
<1>7. CASE AwaitInactive(e, s)
  <2> DEFINE t == [s EXCEPT !.rw = e]
  <2>1. Update(e.h, t, Sends(sockets[e.h], s)) /\ t.rw = e
    BY <1>5, <1>7 DEF AwaitInactive, Wakes, Update, Sockets
  <2>2. t.id = sockets[e.h].id /\ t.kind = sockets[e.h].kind
    BY <1>5 DEF OnlyWakes, Sockets
  <2> HIDE DEF t
  <2>3. Owning
    BY <1>1, <1>5, <2>1, OwnerParked
  <2>4. Kept
    BY <1>1, <2>1, <2>2, SlotKept
  <2> QED
    BY <2>3, <2>4
<1>8. CASE Remove(e, s)
  <2>1. Update(e.h, NoSocket, Sends(sockets[e.h], s))
    BY <1>8 DEF Remove, Update
  <2>2. Cleared(e.h)
    BY <1>1, <2>1 DEF Cleared, Update, Typed, SocketTypes
  <2>3. ASSUME NEW i \in Ids, i # e.id, Owned(i) PROVE Owned(i)'
    <3>1. Has(batch, OwnerTokens(i)) => Has(batch', OwnerTokens(i))
      BY <1>1, <2>3, HandleHas DEF OwnerTokens
    <3>2. ~AtHas(sockets[e.h], OwnerTokens(i))
      BY <1>1, <1>3, <2>3, SlotOwner
    <3> QED
      BY <1>1, <1>5, <2>1, <2>3, <3>1, <3>2, SlotOwned
  <2> QED
    BY <1>3, <2>2, <2>3 DEF OthersOwned
<1> QED
  BY <1>6, <1>7, <1>8

-----------------------------------------------------------------------------
(* Every socket has an owner: the inductive invariant *)

\* The sockets of the stack are owned, and have identities of their own, none of
\* which is to be given yet.
Anchored ==
    /\ \A h \in Occupied : Owned(sockets[h].id) /\ sockets[h].id < next_id
    /\ \A h, k \in Occupied : sockets[h].id = sockets[k].id => h = k

LEMMA SocketId ==
    ASSUME Typed, NEW h \in Handles
    PROVE  sockets[h].id \in Ids
BY DEF Typed, SocketTypes, Sockets

LEMMA KeptAnchored ==
    ASSUME Typed, Anchored, Kept, Owning, UNCHANGED next_id
    PROVE  Anchored'
<1>1. Occupied' = Occupied /\ \A h \in Handles : sockets'[h].id = sockets[h].id
  BY DEF Kept, Occupied
<1>2. ASSUME NEW h \in Occupied, NEW i, i = sockets[h].id PROVE Owned(i)'
  <2>1. i \in Ids /\ Owned(i)
    BY <1>2, SocketId DEF Anchored, Occupied
  <2> QED
    BY <2>1 DEF Owning
<1>3. ASSUME NEW h \in Occupied' PROVE Owned(sockets[h].id)' /\ sockets'[h].id < next_id'
  <2>1. h \in Occupied /\ sockets'[h].id = sockets[h].id /\ sockets[h].id < next_id
    BY <1>1, <1>3 DEF Anchored, Occupied
  <2>2. Owned(sockets[h].id)'
    BY <1>2, <2>1
  <2> QED
    BY <2>1, <2>2
<1>4. \A h, k \in Occupied' : sockets'[h].id = sockets'[k].id => h = k
  BY <1>1 DEF Anchored, Occupied
<1> QED
  BY <1>3, <1>4 DEF Anchored

LEMMA ClearedAnchored ==
    ASSUME Typed, Anchored, NEW h \in Occupied, Cleared(h), OthersOwned(sockets[h].id),
           UNCHANGED next_id
    PROVE  Anchored'
<1>1. ASSUME NEW k \in Occupied'
      PROVE  k \in Occupied /\ k # h /\ sockets'[k].id = sockets[k].id
  BY <1>1 DEF Cleared, Occupied, NoSocket
<1>2. ASSUME NEW k \in Occupied' PROVE Owned(sockets[k].id)' /\ sockets'[k].id < next_id'
  <2>1. /\ k \in Occupied /\ k # h /\ sockets'[k].id = sockets[k].id
        /\ sockets[k].id < next_id /\ sockets[k].id # sockets[h].id
        /\ Owned(sockets[k].id) /\ k \in Handles
    BY <1>1, <1>2 DEF Anchored, Occupied
  <2>2. ASSUME NEW i, i = sockets[k].id PROVE Owned(i)'
    BY <2>1, <2>2, SocketId DEF OthersOwned
  <2> QED
    BY <2>1, <2>2
<1>3. \A j, k \in Occupied' : sockets'[j].id = sockets'[k].id => j = k
  BY <1>1 DEF Anchored
<1> QED
  BY <1>2, <1>3 DEF Anchored

LEMMA GivenAnchored ==
    ASSUME Typed, Anchored, Cares, NEW h \in Handles, NEW kind \in Kinds, Given(h, kind),
           next_id <= MaxIds, next_id' = next_id + 1
    PROVE  Anchored'
<1>1. next_id \in Nat /\ next_id \in Ids /\ next_id' # next_id
  BY NewId DEF Typed, TableTypes
<1>2. ASSUME NEW k \in Occupied', k # h
      PROVE  k \in Occupied /\ sockets'[k].id = sockets[k].id /\ k \in Handles
  BY <1>2 DEF Given, Occupied
<1>3. sockets'[h].id = next_id
  BY DEF Given
<1>4. ASSUME NEW k \in Occupied' PROVE Owned(sockets[k].id)' /\ sockets'[k].id < next_id'
  <2>1. CASE k = h
    <3>1. ASSUME NEW i, i = next_id PROVE Owned(i)'
      BY <1>1, <3>1 DEF Cares
    <3> QED
      BY <1>1, <1>3, <2>1, <3>1
  <2>2. CASE k # h
    <3>1. /\ sockets'[k].id = sockets[k].id /\ k \in Handles
          /\ sockets[k].id \in Ids /\ sockets[k].id < next_id /\ Owned(sockets[k].id)
      BY <1>2, <1>4, <2>2, SocketId DEF Anchored
    <3>2. ASSUME NEW i, i = sockets[k].id PROVE Owned(i)'
      BY <3>1, <3>2 DEF Cares
    <3>3. sockets[k].id < next_id'
      BY <1>1, <3>1 DEF Ids
    <3> QED
      BY <3>1, <3>2, <3>3
  <2> QED
    BY <2>1, <2>2
<1>5. ASSUME NEW k \in Occupied', k # h PROVE sockets'[k].id # sockets'[h].id
  <2>1. sockets[k].id < next_id /\ sockets[k].id \in Ids
    BY <1>2, <1>5, SocketId DEF Anchored
  <2> QED
    BY <1>1, <1>2, <1>3, <1>5, <2>1 DEF Ids
<1>6. \A j, k \in Occupied' : sockets'[j].id = sockets'[k].id => j = k
  BY <1>2, <1>5 DEF Anchored
<1> QED
  BY <1>4, <1>6 DEF Anchored

LEMMA EmptyAnchored == ASSUME Occupied' = {} PROVE Anchored'
BY DEF Anchored

LEMMA FreeEmpty == ASSUME NEW how, Free(how) PROVE Occupied' = {}
BY DEF Free, Occupied, NoSocket

\* The inductive invariant where the generator and the acceptors live too, and no
\* packet is refused.
OrphanInv == /\ "generator" \notin Faults /\ "acceptor" \notin Faults /\ NoRefusal
             /\ ReaderInv /\ generator /\ acceptors = Kinds
             /\ Anchored
             /\ stack # "up" => Occupied = {}

LEMMA HandleEventAnchored ==
    ASSUME OrphanInv, phase = "dispatch", HandleEvent(Head(batch))
    PROVE  /\ UNCHANGED <<generator, acceptors>>
           /\ Anchored' /\ (stack' # "up" => Occupied' = {})
<1> DEFINE e == Head(batch)
           Goal == /\ UNCHANGED <<generator, acceptors>>
                   /\ Anchored' /\ (stack' # "up" => Occupied' = {})
<1>1. Typed /\ AllShaped /\ ReaderInv /\ e \in Events /\ Shaped(e) /\ stack = "up"
  <2>1. Typed /\ AllShaped /\ ReaderInv /\ stack = "up"
    BY DEF OrphanInv, ReaderInv, AnswerInv, Idle
  <2> QED
    BY <2>1, HeadOfBatch, ShapedBatch
<1>2. HandleEvent(e) /\ e = Head(batch)
  OBVIOUS
<1> HIDE DEF e
<1>3. ASSUME Owning, Kept, UNCHANGED <<lifeVars, next_id>> PROVE Goal
  BY <1>1, <1>3, KeptAnchored DEF OrphanInv, lifeVars
<1> SUFFICES Goal
  OBVIOUS
<1> HIDE DEF Goal
<1>4. CASE Defer(e)
  <2>1. UNCHANGED <<lifeVars, next_id>>
    BY <1>4 DEF Defer, Dispatch, sockVars
  <2> QED
    BY <1>1, <1>3, <1>4, <2>1, DeferOwned, DeferSpends
<1>5. CASE ReadyNotYet(e)
  <2>1. UNCHANGED <<lifeVars, next_id>>
    BY <1>5 DEF ReadyNotYet, Handle, Dispatch
  <2> QED
    BY <1>1, <1>2, <1>3, <1>5, <2>1, ReadyNotYetOwned, ReadyNotYetSpends
<1>6. CASE Announce(e)
  <2>1. UNCHANGED <<lifeVars, next_id>>
    BY <1>6 DEF Announce, Handle, Dispatch, sockVars
  <2> QED
    BY <1>1, <1>3, <1>6, <2>1, AnnounceOwned, AnnounceSpends DEF OrphanInv
<1>7. CASE ReadyPanic(e)
  <2>1. Free("panicked") /\ UNCHANGED <<generator, acceptors>>
    BY <1>7 DEF ReadyPanic, Free
  <2> QED
    BY <2>1, FreeEmpty, EmptyAnchored DEF Goal
<1>8. CASE HandleShutdown(e)
  <2>1. UNCHANGED <<lifeVars, next_id>>
    BY <1>8 DEF HandleShutdown, Handle, Dispatch
  <2> QED
    BY <1>1, <1>2, <1>3, <1>8, <2>1, HandleShutdownOwned, HandleShutdownSpends DEF OrphanInv
<1>9. CASE HandleClose(e)
  <2>1. UNCHANGED <<lifeVars, next_id>>
    BY <1>9 DEF HandleClose, Handle, Dispatch
  <2>2. CASE OthersOwned(e.id) /\ Cleared(e.h) /\ e.h \in Occupied /\ sockets[e.h].id = e.id
    BY <1>1, <2>1, <2>2, ClearedAnchored DEF OrphanInv, Goal, lifeVars
  <2> QED
    BY <1>1, <1>2, <1>3, <1>9, <2>1, <2>2, HandleCloseOwned
<1> QED
  BY <1>2, <1>4, <1>5, <1>6, <1>7, <1>8, <1>9 DEF HandleEvent

\* A user who accepts, sends an event or drops a stream leaves every socket its
\* owner: a stream that goes sends its Close.
LEMMA UserOwned ==
    ASSUME OrphanInv, User
    PROVE  Owning /\ UNCHANGED <<sockVars, lifeVars>>
<1>1. /\ Typed /\ generator /\ queue \in Seq(Events) /\ accepted \in [Kinds -> Seq(Infos)]
      /\ streams \in SUBSET Infos
  BY DEF OrphanInv, ReaderInv, AnswerInv, Typed, FlowTypes, UserTypes
<1>2. ASSUME NEW k \in Kinds, Accept(k) PROVE Owning
  <2>1. /\ UNCHANGED <<sockets, queue, batch>>
        /\ accepted[k] # <<>> /\ streams' = streams \cup {Head(accepted[k])}
        /\ accepted' = [accepted EXCEPT ![k] = Tail(accepted[k])]
    BY <1>2 DEF Accept, sockVars, driveVars
  <2>2. accepted[k] \in Seq(Infos)
    BY <1>1
  <2>3. ASSUME NEW i, NEW j \in Kinds, Has(accepted[j], InfosOf(i))
        PROVE  Has(accepted'[j], InfosOf(i)) \/ \E x \in streams' : x.id = i
    <3>1. CASE j = k
      <4>1. Head(accepted[k]) \in InfosOf(i) \/ Has(Tail(accepted[k]), InfosOf(i))
        BY <2>1, <2>2, <2>3, <3>1, HasHead
      <4> QED
        BY <1>1, <2>1, <3>1, <4>1 DEF InfosOf
    <3>2. CASE j # k
      BY <1>1, <2>1, <2>3, <3>2
    <3> QED
      BY <3>1, <3>2
  <2>4. ASSUME NEW i, OutHas(i) PROVE OutHas(i)'
    BY <2>1, <2>3, <2>4 DEF OutHas
  <2> QED
    BY <2>1, <2>4 DEF Owning, Owned, OwnedIn
<1>3. ASSUME NEW w \in Events, queue' = Append(queue, w), NEW S, Has(queue, S) \/ w \in S
      PROVE  Has(queue', S)
  BY <1>1, <1>3, HasAppend
<1>4. ASSUME NEW o \in Ops, NEW i \in streams, NEW type \in OpTypes, Issue(o, i, type) PROVE Owning
  <2>1. Event(type, i, o) \in Events
    BY <1>1, <1>4 DEF Infos, Event, Events, EventTypes
  <2>2. queue' = Append(queue, Event(type, i, o)) /\ UNCHANGED <<sockets, batch, accepted, streams>>
    BY <1>1, <1>4 DEF Issue, sockVars, driveVars, userVars
  <2>3. \A S : Has(queue, S) => Has(queue', S)
    BY <1>3, <2>1, <2>2
  <2> QED
    BY <2>2, <2>3 DEF Owning, Owned, OwnedIn, OutHas
<1>5. ASSUME NEW o \in Ops, Cancel(o) PROVE FALSE
  BY <1>5 DEF Cancel, OrphanInv, ReaderInv
<1>6. ASSUME NEW i \in streams, DropStream(i) PROVE Owning
  <2> DEFINE w == Event("Close", i, None)
  <2>1. w \in Events /\ i \in Infos
    BY <1>1, CloseType
  <2>2. w \in OwnerTokens(i.id)
    BY <2>1, EventIsToken DEF OwnerTokens, OwnerTypes, Event
  <2>3. /\ queue' = Append(queue, w) /\ UNCHANGED <<sockets, batch, accepted>>
        /\ streams' = streams \ {i}
    BY <1>1, <1>6 DEF DropStream, sockVars, driveVars
  <2> HIDE DEF w
  <2>4. \A S : Has(queue, S) \/ w \in S => Has(queue', S)
    BY <1>3, <2>1, <2>3
  <2>5. ASSUME NEW j, OutHas(j) PROVE OutHas(j)' \/ Has(queue', OwnerTokens(j))
    <3>1. CASE j = i.id
      BY <2>2, <2>4, <3>1
    <3>2. CASE j # i.id
      BY <2>3, <2>5, <3>2 DEF OutHas
    <3> QED
      BY <3>1, <3>2
  <2> QED
    BY <2>3, <2>4, <2>5 DEF Owning, Owned, OwnedIn
<1>7. Owning
  BY <1>2, <1>4, <1>5, <1>6 DEF User
<1> QED
  BY <1>7 DEF User, Accept, Issue, Cancel, DropStream

LEMMA NextOrphan == OrphanInv /\ [Next]_vars => OrphanInv'
<1> SUFFICES ASSUME OrphanInv, [Next]_vars PROVE OrphanInv'
  OBVIOUS
<1>1. ReaderInv /\ ReaderInv' /\ Typed /\ Tidy /\ AllShaped /\ generator /\ NoRefusal /\ Idle
  BY NextReader DEF OrphanInv, ReaderInv, AnswerInv
<1> DEFINE Goal == /\ UNCHANGED <<generator, acceptors>>
                   /\ Anchored' /\ (stack' # "up" => Occupied' = {})
<1> SUFFICES Goal
  BY <1>1 DEF OrphanInv, NoRefusal
<1>2. ASSUME Owning, Kept, UNCHANGED <<lifeVars, next_id>> PROVE Goal
  <2>1. Occupied' = Occupied
    BY <1>2 DEF Kept, Occupied
  <2> QED
    BY <1>1, <1>2, <2>1, KeptAnchored DEF OrphanInv, lifeVars
<1>3. ASSUME NEW how, Free(how) PROVE Goal
  BY <1>3, FreeEmpty, EmptyAnchored DEF Free
<1>4. CASE Drive
  <2>1. UNCHANGED lifeVars /\ stack = "up" /\ Cares
    BY <1>1, <1>4, DriveFrame, DriveOwned
  <2>2. CASE Kept /\ UNCHANGED next_id
    <3>1. Owning
      BY <2>1, <2>2 DEF Cares, Owning
    <3> QED
      BY <1>2, <2>1, <2>2, <3>1
  <2>3. ASSUME next_id <= MaxIds, next_id' = next_id + 1, NEW h \in Handles, NEW kind \in Kinds,
               Given(h, kind)
        PROVE  Anchored'
    BY <1>1, <2>1, <2>3, GivenAnchored DEF OrphanInv
  <2> QED
    BY <1>1, <1>4, <2>1, <2>2, <2>3, DriveSpends DEF lifeVars
<1> HIDE DEF Goal
<1>5. CASE Step
  <2>1. ASSUME NEW h \in Handles, Egress(h) PROVE Goal
    <3>1. UNCHANGED <<lifeVars, next_id>>
      BY <2>1 DEF Egress
    <3> QED
      BY <1>1, <1>2, <2>1, <3>1, EgressOwned, EgressSpends
  <2>2. ASSUME NEW e, HandleOp(e) PROVE Goal
    <3>1. UNCHANGED <<lifeVars, next_id>> /\ phase # "idle"
      BY <1>1, <2>2, HandleOpOutcome DEF TcpEvent, UdpEvent
    <3> QED
      BY <1>1, <1>2, <2>2, <3>1, HandleOpOwned, HandleOpSpends DEF Idle
  <2> QED
    BY <1>5, <2>1, <2>2, HandleEventAnchored DEF Step, Goal
<1>6. CASE User
  <2>1. Owning /\ UNCHANGED <<sockVars, lifeVars>>
    BY <1>6, UserOwned
  <2> QED
    BY <1>2, <2>1 DEF Kept, sockVars
<1>7. CASE Drops
  <2>1. ASSUME NEW k, DropAcceptor(k) \/ DropGenerator(k) PROVE FALSE
    BY <2>1 DEF DropAcceptor, DropGenerator, OrphanInv
  <2>2. ASSUME Discard PROVE Goal
    <3>1. Occupied' = {} /\ UNCHANGED lifeVars
      BY <2>2 DEF Discard, sockVars, Occupied, OrphanInv
    <3> QED
      BY <3>1, EmptyAnchored DEF Goal, lifeVars
  <2> QED
    BY <1>3, <1>7, <2>1, <2>2 DEF Drops, DropStack
<1>8. CASE UNCHANGED vars
  <2>1. UNCHANGED <<sockets, next_id, queue, batch, accepted, streams, lifeVars>>
    BY <1>8 DEF vars, sockVars, driveVars, userVars
  <2>2. Owning /\ Kept
    BY <2>1 DEF Owning, Owned, OwnedIn, OutHas, Kept
  <2> QED
    BY <1>2, <2>1, <2>2
<1> QED
  BY <1>4, <1>5, <1>6, <1>7, <1>8 DEF Next

\* What owns a socket is counted.
LEMMA OwnedCounted ==
    ASSUME Typed, OwnerInv, NEW i \in Ids, Owned(i)
    PROVE  Owners(i) = 1
<1>1. IsFiniteSet(streams) /\ Own(i) <= 1
  BY DEF OwnerInv, OneOwner
<1>2. Owners(i) = Own(i) /\ Own(i) \in Nat /\ Held(OwnerTokens(i)) \in Nat /\ Out(i) \in Nat
  BY <1>1, OwnersHeld, OutType
<1>3. CASE OutHas(i)
  <2>1. Out(i) # 0
    BY <1>1, <1>3, NobodyOut DEF OutHas, Has, InfosOf
  <2> QED
    BY <1>1, <1>2, <2>1 DEF Own
<1>4. CASE ~OutHas(i)
  <2>1. Held(OwnerTokens(i)) # 0
    BY <1>4, HeldZero DEF Owned, OwnedIn, Has, AtHas
  <2> QED
    BY <1>1, <1>2, <2>1 DEF Own
<1> QED
  BY <1>3, <1>4

\* While the generator and the acceptors live, nobody cancels and no packet is
\* refused, every socket of the stack has exactly one owner: its Ready or Close
\* event in the channel, in drive_once or in a waker, its announcement or its
\* stream.  No event of an owner is overwritten by another waker, a connection
\* that awaits its end keeps its Close event, and a socket without an owner,
\* which nothing would ever remove, does not exist.
THEOREM OrphanSafety ==
    ("cancel" \notin Faults /\ "generator" \notin Faults /\ "acceptor" \notin Faults /\ NoRefusal)
        => (Spec => []NoOrphan)
<1> DEFINE Careful == /\ "cancel" \notin Faults /\ "generator" \notin Faults
                      /\ "acceptor" \notin Faults /\ NoRefusal
<1>1. Careful /\ Init => OrphanInv
  <2> SUFFICES ASSUME Careful, Init PROVE OrphanInv
    OBVIOUS
  <2>1. ReaderInv
    BY InitTyped, InitSafe, InitTidy, InitShaped, InitAccounted, InitOwner, InitManned
       DEF ReaderInv, AnswerInv, OwnershipInv
  <2>2. Occupied = {} /\ generator /\ acceptors = Kinds
    BY DEF Init, Occupied, NoSocket
  <2> QED
    BY <2>1, <2>2 DEF OrphanInv, Anchored
<1>2. OrphanInv => NoOrphan
  <2> SUFFICES ASSUME OrphanInv, NEW h \in Occupied PROVE Owners(sockets[h].id) = 1
    BY DEF NoOrphan
  <2>1. Typed /\ OwnerInv /\ h \in Handles
    BY DEF OrphanInv, ReaderInv, OwnershipInv, Occupied
  <2>2. sockets[h].id \in Ids /\ Owned(sockets[h].id)
    BY <2>1, SocketId DEF OrphanInv, Anchored
  <2> QED
    BY <2>1, <2>2, OwnedCounted
<1> QED
  BY <1>1, <1>2, NextOrphan, PTL DEF Spec

-----------------------------------------------------------------------------
(* Where nobody cancels and no peer resets: drive_once does not panic *)

\* A socket that is not announced yet has not been closed.  It has its peer once
\* it has heard of one, and before that no data.
Fresh(s) ==
    s.kind = "tcp" =>
        /\ s.st \in {"Listen", "SynReceived", "Established", "CloseWait"}
        /\ s.st = "Listen" => s.rx = 0
        /\ s.st # "Listen" => s.peer # None

ReadyFresh ==
    \A w \in Tokens : w.type = "Ready" /\ Held({w}) # 0 => Fresh(sockets[w.h])

\* Every socket that is fresh stays so.
FreshKept == \A h \in Handles : Fresh(sockets[h]) => Fresh(sockets'[h])

LEMMA ProcessFresh ==
    ASSUME NEW s \in Sockets, NEW c \in Conns, NEW seg, seg # "RST", Accepts(s, c, seg), Fresh(s)
    PROVE  Fresh(Process(s, c, seg))
<1> DEFINE t == Process(s, c, seg)
           st == SegState(s, seg)
<1>1. t.st = st /\ t.peer = SegPeer(s, c, st) /\ t.kind = s.kind
  BY DEF Process, Sockets
<1>2. c # None
  BY NoneAssumption DEF Conns
<1>3. s.kind = "tcp" /\ s.st \in {"Listen", "SynReceived", "Established", "CloseWait"}
  BY DEF Accepts, Fresh
<1>4. CASE s.st = "Listen"
  <2>1. seg = "SYN"
    BY <1>4 DEF Accepts
  <2>2. st = "SynReceived"
    BY <1>4, <2>1 DEF SegState
  <2>3. t.peer = c
    BY <1>1, <1>4, <2>2 DEF SegPeer
  <2> QED
    BY <1>1, <1>2, <2>2, <2>3 DEF Fresh
<1>5. CASE s.st # "Listen"
  <2>1. st \in {"SynReceived", "Established", "CloseWait"} /\ (st = "SynReceived" => st = s.st)
    BY <1>3, <1>5 DEF SegState
  <2>2. t.peer = s.peer
    BY <1>1, <2>1 DEF SegPeer
  <2> QED
    BY <1>1, <1>3, <1>5, <2>1, <2>2 DEF Fresh
<1> QED
  BY <1>4, <1>5

LEMMA DriveSynFresh ==
    ASSUME Typed, NEW c \in Conns, NEW n \in Batches, DriveSyn(c, n)
    PROVE  FreshKept
<1>1. sockets \in [Handles -> Sockets] /\ next_id \in Ids
  BY NewId DEF Typed, SocketTypes, DriveSyn
<1>2. PICK h \in Handles, k \in Handles :
        LET new == [kind |-> "tcp", h |-> h, id |-> next_id]
            added == [sockets EXCEPT ![h] =
                        ReadyOnSend(TcpListener(next_id, c[2]),
                                    Event("Ready", new, None))]
            polled == Process(added[k], c, "SYN")
        IN  /\ k \in Takers(added, c, "SYN")
            /\ sockets' = [added EXCEPT ![k] = polled]
  BY DEF DriveSyn, IsFirst, Begin
<1> DEFINE e == Ready(h, "tcp")
           l == ReadyOnSend(TcpListener(next_id, c[2]), e)
           added == [sockets EXCEPT ![h] = l]
           polled == Process(added[k], c, "SYN")
<1>3. l \in Sockets /\ Fresh(l)
  <2>1. c[2] \in TcpAddrs
    BY DEF Conns
  <2>2. e \in Wakers
    BY <1>1, ReadyOwns, EventIsWaker DEF Kinds
  <2>3. l \in Sockets
    BY <1>1, <2>1, <2>2, NewSocketType
  <2> QED
    BY <2>3 DEF ReadyOnSend, TcpListener, NoSocket, Fresh
<1>4. k \in Takers(added, c, "SYN") /\ sockets' = [added EXCEPT ![k] = polled]
  BY <1>2 DEF Ready
<1> HIDE DEF l
<1>5. added \in [Handles -> Sockets] /\ \A j \in Handles : Fresh(sockets[j]) => Fresh(added[j])
  BY <1>1, <1>3
<1> HIDE DEF added
<1>6. Accepts(added[k], c, "SYN")
  BY <1>4 DEF Takers
<1>7. Fresh(added[k]) => Fresh(polled)
  BY <1>5, <1>6, ProcessFresh
<1> QED
  BY <1>4, <1>5, <1>7 DEF FreshKept

LEMMA DriveFresh ==
    ASSUME "RST" \notin Segs, Typed, Safe, Drive
    PROVE  FreshKept
<1>1. PICK n \in Batches :
        \/ \E c \in Conns : DriveSyn(c, n)
        \/ \E c \in Conns, seg \in Segments : DriveSegment(c, seg, n)
        \/ \E d \in UdpAddrs : DriveDatagram(d, n)
        \/ \E d \in UdpAddrs : DriveNewUdp(d, n)
        \/ DriveOnly(n)
        \/ \E k \in Handles : DriveExpire(k, n)
        \/ \E d \in TcpAddrs \cup UdpAddrs : DriveRefused(d, n)
        \/ \E d \in UdpAddrs : DriveUnannounced(d, n)
  BY DEF Drive
<1>2. sockets \in [Handles -> Sockets]
  BY DEF Typed, SocketTypes
<1>3. ASSUME NEW k \in Handles, NEW t, sockets' = [sockets EXCEPT ![k] = t],
             Fresh(sockets[k]) => Fresh(t)
      PROVE  FreshKept
  BY <1>2, <1>3 DEF FreshKept
<1>4. ASSUME NEW c \in Conns, NEW seg, DriveSegment(c, seg, n) PROVE FreshKept
  <2>1. PICK k \in Handles : /\ k \in Takers(sockets, c, seg)
                             /\ sockets' = [sockets EXCEPT ![k] = Process(sockets[k], c, seg)]
    BY <1>4 DEF DriveSegment, IsFirst, Begin
  <2>2. Accepts(sockets[k], c, seg) /\ seg # "RST"
    BY <1>4, <2>1 DEF Takers, DriveSegment
  <2>3. Fresh(sockets[k]) => Fresh(Process(sockets[k], c, seg))
    BY <1>2, <2>2, ProcessFresh
  <2> QED
    BY <1>3, <2>1, <2>3
<1>5. ASSUME NEW d, DriveDatagram(d, n) PROVE FreshKept
  <2>1. PICK k \in Handles : /\ sockets[k].kind = "udp"
                             /\ sockets' = [sockets EXCEPT ![k] = Datagram(sockets[k])]
    BY <1>5 DEF DriveDatagram, Begin
  <2>2. Datagram(sockets[k]).kind = "udp"
    BY <1>2, <2>1, WakeSteps DEF OnlyWakes
  <2> QED
    BY <1>3, <2>1, <2>2 DEF Fresh
<1>6. ASSUME NEW d \in UdpAddrs, DriveNewUdp(d, n) \/ DriveUnannounced(d, n) PROVE FreshKept
  <2>1. PICK k \in Handles, t \in {UdpBound(next_id, d), Datagram(UdpBound(next_id, d))} :
          sockets' = [sockets EXCEPT ![k] = t]
    BY <1>6 DEF DriveNewUdp, DriveUnannounced, Begin
  <2>2. t.kind = "udp"
    BY DEF UdpBound, NoSocket, Datagram
  <2> QED
    BY <1>3, <2>1, <2>2 DEF Fresh
<1>7. ASSUME NEW k \in Handles, DriveExpire(k, n) PROVE FreshKept
  <2>1. ~Fresh(sockets[k]) /\ sockets' = [sockets EXCEPT ![k] = Expire(sockets[k])]
    BY <1>7 DEF DriveExpire, Begin, Fresh
  <2> QED
    BY <1>3, <2>1
<1>8. ASSUME NEW d, DriveOnly(n) \/ DriveRefused(d, n) PROVE FreshKept
  BY <1>8 DEF DriveOnly, DriveRefused, Begin, sockVars, FreshKept
<1> QED
  BY <1>1, <1>4, <1>5, <1>6, <1>7, <1>8, DriveSynFresh

\* A step that makes no Ready event and changes no socket that is not announced.
LEMMA FreshStep ==
    ASSUME Typed, FlowTypes', ReadyFresh, NEW gone \in Seq(Wakers), NEW e, NEW w,
           Ledger(gone, e, w), w.type = "Ready" => Fresh(sockets'[w.h]),
           \A x \in Tokens : (x.type = "Ready" /\ Held({x}) # 0) =>
                                (Fresh(sockets[x.h]) => Fresh(sockets'[x.h]))
    PROVE  ReadyFresh'
<1> SUFFICES ASSUME NEW x \in Tokens, x.type = "Ready", Held({x})' # 0 PROVE Fresh(sockets'[x.h])
  BY DEF ReadyFresh
<1>1. Held({x}) # 0 \/ x = w
  BY HeldToken
<1> QED
  BY <1>1 DEF ReadyFresh

\* A socket of which an operation is under way is announced already.
LEMMA OpNotReady ==
    ASSUME ReaderInv, stack = "up", NEW e \in Events, Held({e}) # 0, e.op \in Ops,
           NEW x \in Tokens, x.type = "Ready", Held({x}) # 0
    PROVE  x.h # e.h
<1> SUFFICES ASSUME x.h = e.h PROVE FALSE
  OBVIOUS
<1>1. Typed /\ OwnerInv /\ IsFiniteSet(streams) /\ x.id \in Ids
  BY DEF ReaderInv, OwnershipInv, OwnerInv, Tokens, Wakers, NoWaker
<1>2. x \in OwnerTokens(x.id)
  BY DEF OwnerTokens, OwnerTypes
<1>3. sockets[x.h].id = x.id
  BY <1>1 DEF OwnerInv, Named, NamedTokens, Names, OwnerTypes
<1>4. OutHas(x.id)
  BY <1>3, OpOwned
<1>5. Held(OwnerTokens(x.id)) # 0 /\ Out(x.id) # 0
  BY <1>1, <1>2, <1>4, HeldPart, NobodyOut DEF OutHas, Has, InfosOf
<1>6. Held(OwnerTokens(x.id)) \in Nat /\ Out(x.id) \in Nat
  BY <1>1, OutType
<1>7. Held(OwnerTokens(x.id)) + Out(x.id) <= 1
  BY <1>1 DEF OwnerInv, OneOwner, Own
<1> QED
  BY <1>5, <1>6, <1>7

\* The owner that drive_once looks at is the only one of its socket.
LEMMA SoleOwner ==
    ASSUME Typed, OwnerInv, phase = "dispatch", NEW e, e = Head(batch), e.type \in OwnerTypes,
           NEW x \in Tokens, x.type \in OwnerTypes, x.id = e.id, Held({x}) # 0
    PROVE  x = e
<1> SUFFICES ASSUME x # e PROVE FALSE
  OBVIOUS
<1> DEFINE S == OwnerTokens(e.id)
<1>1. batch \in Seq(Events) /\ batch # <<>> /\ e \in Events /\ e \in Tokens
  BY HeadOfBatch, EventIsToken DEF Typed, PhaseOK, FlowTypes
<1>2. e \in S /\ x \in S /\ e.id \in Ids /\ IsFiniteSet(streams)
  BY <1>1 DEF OwnerTokens, Events, OwnerInv
<1>3. Held(S) <= 1
  <2>1. Own(e.id) <= 1
    BY <1>2 DEF OwnerInv, OneOwner
  <2>2. Held(S) \in Nat /\ Out(e.id) \in Nat
    BY <1>2, OutType
  <2> QED
    BY <2>1, <2>2 DEF Own
<1>4. /\ Held(S) = Count(queue, S) + (Count(batch, S) + Count(tcp_events, S) + Count(udp_events, S))
                     + Parked(sockets, S)
      /\ Count(queue, S) \in Nat /\ Count(batch, S) \in Nat /\ Count(tcp_events, S) \in Nat
      /\ Count(udp_events, S) \in Nat /\ Parked(sockets, S) \in Nat
  BY HeldType DEF Held, Aside
<1>5. Count(batch, S) = 1 + Count(Tail(batch), S) /\ Count(Tail(batch), S) \in Nat
  <2>1. Count(batch, S) = One(e, S) + Count(Tail(batch), S) /\ Tail(batch) \in Seq(Events)
    BY <1>1, CountHead
  <2>2. One(e, S) = 1
    BY <1>2 DEF One
  <2> QED
    BY <2>1, <2>2, CountType
<1> HIDE DEF S
<1>6. /\ Count(queue, S) = 0 /\ Count(Tail(batch), S) = 0 /\ Count(tcp_events, S) = 0
      /\ Count(udp_events, S) = 0 /\ Parked(sockets, S) = 0
  BY <1>3, <1>4, <1>5
<1>7. /\ \A i \in DOMAIN queue : queue[i] # x
      /\ \A i \in DOMAIN tcp_events : tcp_events[i] # x
      /\ \A i \in DOMAIN udp_events : udp_events[i] # x
      /\ \A h \in Handles : sockets[h].rw # x /\ sockets[h].tw # x
  BY <1>2, <1>6, CountZero, ParkedType DEF Typed, FlowTypes
<1>8. \A i \in DOMAIN batch : batch[i] # x
  <2>1. ~Has(Tail(batch), {x})
    <3>1. Tail(batch) \in Seq(Events)
      BY <1>1
    <3>2. ~Has(Tail(batch), S)
      BY <1>6, <3>1, HasCount
    <3> QED
      BY <1>2, <3>2 DEF Has
  <2>2. ~Has(batch, {x})
    BY <1>1, <2>1, HasHead
  <2> QED
    BY <2>2 DEF Has
<1> QED
  BY <1>7, <1>8, HeldZero

\* Only the handlers change sockets after the poll, and none that is not
\* announced, but for the waker of its Ready event.
LEMMA HandleEventFresh ==
    ASSUME ReaderInv, ReadyFresh, stack = "up", phase = "dispatch", HandleEvent(Head(batch)),
           FlowTypes'
    PROVE  stack' # "up" \/ ReadyFresh'
<1> DEFINE e == Head(batch)
<1>1. /\ Typed /\ AllShaped /\ OwnerInv /\ e \in Events /\ e \in Tokens /\ Shaped(e)
      /\ Held({e}) # 0 /\ e.h \in Handles /\ sockets \in [Handles -> Sockets]
  <2>1. Typed /\ AllShaped /\ OwnerInv /\ sockets \in [Handles -> Sockets]
    BY DEF ReaderInv, OwnershipInv, Typed, SocketTypes
  <2> QED
    BY <2>1, HeadOfBatch, HeadHeld, ShapedBatch DEF Events
<1>2. HandleEvent(e) /\ e = Head(batch)
  OBVIOUS
<1> HIDE DEF e
<1>3. ASSUME Loses \/ Uses(e) \/ Turns(e, DoneOf(e)),
             \A x \in Tokens : (x.type = "Ready" /\ Held({x}) # 0) =>
                                (Fresh(sockets[x.h]) => Fresh(sockets'[x.h]))
      PROVE  ReadyFresh'
  <2>1. NoWaker.type # "Ready" /\ DoneOf(e).type # "Ready"
    BY <1>1, DoneType DEF NoWaker
  <2>2. ASSUME NEW gone, NEW f, NEW w, w.type # "Ready", Spends(gone, f, w) PROVE ReadyFresh'
    BY <1>1, <1>3, <2>2, FreshStep DEF Spends
  <2> QED
    BY <1>3, <2>1, <2>2 DEF Loses, Uses, Turns
<1>4. CASE Defer(e)
  <2>1. UNCHANGED sockets
    BY <1>4 DEF Defer, sockVars
  <2> QED
    BY <1>1, <1>3, <1>4, <2>1, DeferSpends
<1>5. CASE ReadyNotYet(e)
  <2>1. sockets' = [sockets EXCEPT ![e.h] = [sockets[e.h] EXCEPT !.rw = e]]
    BY <1>5 DEF ReadyNotYet
  <2>2. \A h \in Handles : Fresh(sockets[h]) => Fresh(sockets'[h])
    BY <1>1, <2>1 DEF Fresh, Sockets
  <2> QED
    BY <1>1, <1>3, <1>5, <2>2, ReadyNotYetSpends, TokenHandle
<1>6. CASE Announce(e)
  <2>1. UNCHANGED sockets
    BY <1>6 DEF Announce, sockVars
  <2> QED
    BY <1>1, <1>3, <1>6, <2>1, AnnounceSpends
<1>7. CASE ReadyPanic(e)
  BY <1>7 DEF ReadyPanic, Free
<1>8. CASE HandleShutdown(e)
  <2>1. e.op \in Ops /\ e.type = "Shutdown"
    BY <1>1, <1>8 DEF HandleShutdown, Shaped, OpTypes, Events
  <2>2. \A h \in Handles : h # e.h => sockets'[h] = sockets[h]
    BY <1>1, <1>8 DEF HandleShutdown
  <2>3. \A x \in Tokens : (x.type = "Ready" /\ Held({x}) # 0) => x.h # e.h
    BY <1>1, <2>1, OpNotReady
  <2> QED
    BY <1>1, <1>3, <1>8, <2>2, <2>3, HandleShutdownSpends, TokenHandle
<1>9. CASE HandleClose(e)
  <2>1. e.type = "Close" /\ e.type \in OwnerTypes
    BY <1>9 DEF HandleClose, OwnerTypes
  <2>2. \A h \in Handles : h # e.h => sockets'[h] = sockets[h]
    BY <1>1, <1>9 DEF HandleClose, AwaitInactive, Remove
  <2>3. ASSUME NEW x \in Tokens, x.type = "Ready", Held({x}) # 0 PROVE x.h # e.h
    <3>1. Names(x) /\ Names(e)
      BY <1>1, <2>1, <2>3 DEF OwnerInv, Named, NamedTokens, OwnerTypes
    <3>2. x.h = e.h => x.id = e.id
      BY <3>1 DEF Names
    <3>3. x.id # e.id
      BY <1>1, <1>2, <2>1, <2>3, SoleOwner DEF OwnerTypes
    <3> QED
      BY <3>2, <3>3
  <2>4. Loses \/ Uses(e)
    BY <1>1, <1>9, HandleCloseSpends
  <2> QED
    BY <1>3, <2>2, <2>3, <2>4, TokenHandle
<1> QED
  BY <1>2, <1>4, <1>5, <1>6, <1>7, <1>8, <1>9 DEF HandleEvent

LEMMA HandleOpFresh ==
    ASSUME ReaderInv, ReadyFresh, stack = "up", NEW e, HandleOp(e), FlowTypes'
    PROVE  ReadyFresh'
<1>1. Typed /\ AllShaped /\ sockets \in [Handles -> Sockets]
  BY DEF ReaderInv, AnswerInv, Typed, SocketTypes
<1>2. e \in Events /\ Outcome(e) /\ e.h \in Handles /\ (TcpEvent(e) \/ UdpEvent(e))
  BY <1>1, HandleOpOutcome DEF Events
<1>3. Held({e}) # 0 /\ e \in Tokens
  BY <1>1, <1>2, CurrentHeld
<1>4. UNCHANGED sockets \/ e.type \in OpTypes
  BY DEF HandleOp, NotFound, Answer, HandleRead, HandleWrite, HandleRecv, HandleSend, OpTypes
<1>5. \A h \in Handles : h # e.h => sockets'[h] = sockets[h]
  BY <1>1, <1>2 DEF Outcome, Answer, Move, ParkRecv, ParkSend
<1>6. ASSUME NEW x \in Tokens, x.type = "Ready", Held({x}) # 0 PROVE sockets'[x.h] = sockets[x.h]
  <2>1. CASE UNCHANGED sockets
    BY <2>1
  <2>2. CASE e.type \in OpTypes
    <3>1. e.op \in Ops
      BY <1>1, <1>2, <1>3, <2>2, HeldShaped DEF Shaped, Events
    <3>2. x.h # e.h
      BY <1>2, <1>3, <1>6, <3>1, OpNotReady
    <3> QED
      BY <1>5, <3>2, TokenHandle
  <2> QED
    BY <1>4, <2>1, <2>2
<1>7. PICK gone \in Seq(Wakers) : Ledger(gone, NoWaker, NoWaker)
  BY <1>1, HandleOpSpends DEF Loses, Spends
<1>8. NoWaker.type # "Ready"
  BY DEF NoWaker
<1> QED
  BY <1>1, <1>6, <1>7, <1>8, FreshStep

\* A Ready event finds its socket and the socket its endpoints.
LEMMA ReadyFinds ==
    ASSUME ReaderInv, ReadyFresh, stack = "up", phase = "dispatch"
    PROVE  ~ReadyPanic(Head(batch))
<1> DEFINE e == Head(batch)
           s == sockets[e.h]
<1> SUFFICES ASSUME ReadyPanic(e) PROVE FALSE
  OBVIOUS
<1>1. Typed /\ Safe /\ OwnerInv /\ e \in Events /\ e \in Tokens /\ Held({e}) # 0
  <2>1. Typed /\ Safe /\ OwnerInv
    BY DEF ReaderInv, OwnershipInv
  <2> QED
    BY <2>1, HeadOfBatch, HeadHeld
<1>2. e.type = "Ready" /\ e.h \in Handles /\ e.kind \in Kinds
  BY <1>1 DEF ReadyPanic, Events
<1>3. s.kind = e.kind
  BY <1>1, <1>2, HeadNamed DEF OwnerTypes, Names
<1>4. Fresh(s)
  BY <1>1, <1>2 DEF ReadyFresh
<1>5. ~HasEndpoints(e) /\ (e.kind = "tcp" => MayRecv(s))
  BY <1>3 DEF ReadyPanic
<1>6. CASE e.kind = "tcp"
  <2>1. s.peer = None /\ MayRecv(s)
    BY <1>3, <1>5, <1>6 DEF HasEndpoints
  <2>2. s.st = "Listen" /\ s.rx = 0
    BY <1>3, <1>4, <1>6, <2>1 DEF Fresh
  <2> QED
    BY <2>1, <2>2 DEF MayRecv
<1>7. CASE e.kind = "udp"
  <2>1. s.ep = None /\ s.kind = "udp"
    BY <1>3, <1>5, <1>7 DEF HasEndpoints
  <2>2. s.ep \in UdpAddrs
    BY <1>1, <1>2, <2>1 DEF Safe, Tables, Describe, Typed, TableTypes
  <2> QED
    BY <2>1, <2>2, NoneAssumption
<1> QED
  BY <1>2, <1>6, <1>7 DEF Kinds

\* The inductive invariant where nobody cancels and no peer resets.
PanicInv == /\ "RST" \notin Segs
            /\ ReaderInv /\ NoPanic
            /\ stack = "up" => ReadyFresh

LEMMA NextPanic == PanicInv /\ [Next]_vars => PanicInv'
<1> SUFFICES ASSUME PanicInv, [Next]_vars PROVE PanicInv'
  OBVIOUS
<1>1. ReaderInv /\ ReaderInv' /\ Typed /\ Safe /\ Tidy /\ AllShaped /\ Idle /\ FlowTypes'
  BY NextReader DEF PanicInv, ReaderInv, AnswerInv, Typed
<1> DEFINE Goal == stack' # "panicked" /\ (stack' = "up" => ReadyFresh')
<1> SUFFICES Goal
  BY <1>1 DEF PanicInv, NoPanic
<1>2. ASSUME stack = "up", UNCHANGED stack, FreshKept, NEW gone \in Seq(Wakers), NEW w,
             Ledger(gone, NoWaker, w), w.type = "Ready" => Fresh(sockets'[w.h])
      PROVE  Goal
  BY <1>1, <1>2, FreshStep, TokenHandle DEF PanicInv, FreshKept, NoPanic
<1>3. ASSUME UNCHANGED stack, stack # "up" PROVE Goal
  BY <1>3 DEF PanicInv, NoPanic
<1>4. NoWaker.type # "Ready"
  BY DEF NoWaker
<1>5. ASSUME UNCHANGED <<stack, sockets>>, NEW gone \in Seq(Wakers), NEW w,
             Ledger(gone, NoWaker, w), w.type # "Ready"
      PROVE  Goal
  <2>1. FreshKept
    BY <1>5 DEF FreshKept
  <2> QED
    BY <1>2, <1>3, <1>5, <2>1
<1>6. CASE Drive
  <2>1. stack = "up" /\ UNCHANGED stack /\ FreshKept
    BY <1>1, <1>6, DriveFrame, DriveFresh DEF PanicInv, lifeVars
  <2>2. CASE Loses
    BY <1>2, <1>4, <2>1, <2>2 DEF Loses, Spends
  <2>3. ASSUME NEW h \in Handles, NEW kind \in Kinds, Given(h, kind), Turns(NoWaker, Ready(h, kind))
        PROVE  Goal
    <3>1. Fresh(sockets[h])
      BY <2>3 DEF Given, FreeHandles, Fresh
    <3>2. Ready(h, kind).h = h
      BY DEF Ready, Event
    <3> QED
      BY <1>2, <2>1, <2>3, <3>1, <3>2 DEF Turns, Spends, FreshKept
  <2> QED
    BY <1>1, <1>6, <2>2, <2>3, DriveSpends
<1>7. CASE Step
  <2>1. stack = "up"
    BY <1>1, <1>7 DEF Step, Egress, Idle
  <2>2. ASSUME NEW h \in Handles, Egress(h) PROVE Goal
    <3>1. UNCHANGED stack /\ Loses /\ Kept /\ sockets[h].kind = "udp"
          /\ \A k \in Handles : k # h => sockets'[k] = sockets[k]
      BY <1>1, <2>2, EgressSpends DEF Egress, lifeVars, IsFirst, UdpToSend, Typed, SocketTypes
    <3>2. FreshKept
      BY <2>2, <3>1 DEF FreshKept, Kept, Fresh
    <3> QED
      BY <1>2, <1>4, <2>1, <3>1, <3>2 DEF Loses, Spends
  <2>3. ASSUME NEW e, HandleOp(e) PROVE Goal
    <3>1. UNCHANGED stack
      BY <1>1, <2>3, HandleOpOutcome DEF TcpEvent, UdpEvent, lifeVars
    <3> QED
      BY <1>1, <2>1, <2>3, <3>1, HandleOpFresh DEF PanicInv
  <2>4. ASSUME phase = "dispatch", HandleEvent(Head(batch)) PROVE Goal
    <3>1. ReadyFresh /\ ~ReadyPanic(Head(batch))
      BY <1>1, <2>1, <2>4, ReadyFinds DEF PanicInv
    <3>2. UNCHANGED stack
      BY <2>4, <3>1 DEF HandleEvent, Defer, ReadyNotYet, Announce, HandleShutdown, HandleClose,
                        Handle, Dispatch, lifeVars
    <3> QED
      BY <1>1, <2>1, <2>4, <3>1, <3>2, HandleEventFresh
  <2> QED
    BY <1>7, <2>2, <2>3, <2>4 DEF Step
<1>8. CASE User
  <2>1. UNCHANGED <<stack, sockets>>
    BY <1>8 DEF User, Accept, Issue, Cancel, DropStream, sockVars, lifeVars
  <2>2. ASSUME NEW k, Accept(k) PROVE Goal
    BY <1>1, <1>4, <1>5, <2>1, <2>2, AcceptSpends DEF Loses, Spends
  <2>3. ASSUME NEW o \in Ops, NEW i \in streams, NEW type \in OpTypes, Issue(o, i, type) PROVE Goal
    <3>1. Event(type, i, o).type # "Ready" /\ <<>> \in Seq(Wakers)
      BY DEF Event, OpTypes
    <3> QED
      BY <1>1, <1>4, <1>5, <2>1, <2>3, <3>1, IssueLedger
  <2>4. ASSUME NEW o \in Ops, Cancel(o) PROVE FALSE
    BY <1>1, <2>4 DEF Cancel, ReaderInv
  <2>5. ASSUME NEW i \in streams, DropStream(i) PROVE Goal
    <3>1. Event("Close", i, None).type # "Ready"
      BY DEF Event
    <3> QED
      BY <1>1, <1>4, <1>5, <2>1, <2>5, <3>1, DropStreamSpends DEF Loses, Turns, Spends
  <2> QED
    BY <1>8, <2>2, <2>3, <2>4, <2>5 DEF User
<1>9. CASE Drops
  <2>1. ASSUME DropStack \/ Discard PROVE Goal
    BY <1>3, <2>1 DEF DropStack, Free, Discard, lifeVars
  <2>2. ASSUME NEW k, DropAcceptor(k) PROVE Goal
    <3>1. UNCHANGED <<stack, sockets>>
      BY <2>2 DEF DropAcceptor, sockVars
    <3> QED
      BY <1>1, <1>4, <1>5, <2>2, <3>1, AcceptSpends DEF Loses, Spends
  <2>3. ASSUME NEW n \in Batches, DropGenerator(n) PROVE Goal
    <3>1. UNCHANGED <<stack, sockets>>
      BY <2>3 DEF DropGenerator, sockVars
    <3> QED
      BY <1>1, <1>4, <1>5, <2>3, <3>1, DropGeneratorSpends DEF Loses, Spends
  <2> QED
    BY <1>9, <2>1, <2>2, <2>3 DEF Drops
<1>10. CASE UNCHANGED vars
  <2>1. UNCHANGED <<stack, sockets, queue, batch, tcp_events, udp_events>>
    BY <1>10 DEF vars, sockVars, driveVars, lifeVars
  <2>2. Ledger(<<>>, NoWaker, NoWaker) /\ <<>> \in Seq(Wakers)
    BY <1>1, <2>1, StillSpends
  <2> QED
    BY <1>4, <1>5, <2>1, <2>2
<1> QED
  BY <1>6, <1>7, <1>8, <1>9, <1>10 DEF Next

\* drive_once does not panic if nobody cancels and no connection is reset: the
\* socket of a Ready event is still there, however late the event is handled, and
\* as nobody but its owner closes it, it has data or is established only with a
\* peer to announce.  (With a reset it panics: run early_reset.)
THEOREM PanicSafety ==
    "cancel" \notin Faults /\ "RST" \notin Segs => (Spec => []NoPanic)
<1>1. "cancel" \notin Faults /\ "RST" \notin Segs /\ Init => PanicInv
  <2> SUFFICES ASSUME "cancel" \notin Faults, "RST" \notin Segs, Init PROVE PanicInv
    OBVIOUS
  <2>1. ReaderInv /\ NoPanic
    BY InitTyped, InitSafe, InitTidy, InitShaped, InitAccounted, InitOwner, InitManned
       DEF ReaderInv, AnswerInv, OwnershipInv, NoPanic, Init
  <2>2. \A h \in Handles : Fresh(sockets[h])
    BY DEF Init, NoSocket, Fresh
  <2>3. ReadyFresh
    BY <2>2, TokenHandle DEF ReadyFresh
  <2> QED
    BY <2>1, <2>3 DEF PanicInv
<1>2. PanicInv => NoPanic
  BY DEF PanicInv
<1> QED
  BY <1>1, <1>2, NextPanic, PTL DEF Spec
=============================================================================
