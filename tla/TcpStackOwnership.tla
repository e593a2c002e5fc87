------------------------- MODULE TcpStackOwnership ---------------------------
(***************************************************************************)
(* Who answers an operation and who owns a socket of TcpStack, for any     *)
(* number of sockets, operations, peers and endpoints and any of the       *)
(* faults: the result sender of an operation and the ownership of a socket *)
(* move through the channel, drive_once, the wakers, the acceptors and the *)
(* streams, and are never copied.                                          *)
(***************************************************************************)
EXTENDS TcpStackLedger

-----------------------------------------------------------------------------
(* What every step does with events and wakers *)

\* Something is lost; or an event that answers nobody is used up; or a Shutdown
\* event becomes a waker; or an event is made that owns a socket.
Flows ==
    \/ Loses
    \/ \E e \in Events : e.op = None /\ Uses(e)
    \/ \E e \in Events : e.type = "Shutdown" /\ Shaped(e) /\ Turns(e, DoneOf(e))
    \/ \E w \in Events : w.type \in OwnerTypes /\ w.op = None /\ Turns(NoWaker, w)

Frees == Free("dropped") \/ Free("panicked")

LEMMA OwnerAnswersNobody ==
    ASSUME NEW e \in Events, Shaped(e), e.type \in OwnerTypes
    PROVE  e.op = None
BY DEF Shaped, OwnerTypes, OpTypes

LEMMA HandleEventFlows ==
    ASSUME Typed, AllShaped, phase = "dispatch", HandleEvent(Head(batch))
    PROVE  Flows \/ Frees
<1> DEFINE e == Head(batch)
<1>1. e \in Events /\ Shaped(e)
  BY HeadOfBatch, ShapedBatch
<1>2. HandleEvent(e)
  OBVIOUS
<1> HIDE DEF e
<1>3. ASSUME e.type \in OwnerTypes PROVE e.op = None
  BY <1>1, <1>3, OwnerAnswersNobody
<1>4. CASE Defer(e)
  BY <1>1, <1>4, DeferSpends DEF Flows
<1>5. CASE ReadyNotYet(e)
  BY <1>1, <1>5, ReadyNotYetSpends DEF Flows
<1>6. CASE Announce(e)
  <2>1. Uses(e) /\ e.op = None
    BY <1>1, <1>3, <1>6, AnnounceSpends DEF Announce, OwnerTypes
  <2> QED
    BY <1>1, <2>1 DEF Flows
<1>7. CASE ReadyPanic(e)
  BY <1>7 DEF ReadyPanic, Frees
<1>8. CASE HandleShutdown(e)
  <2>1. (Loses \/ Turns(e, DoneOf(e))) /\ e.type = "Shutdown"
    BY <1>1, <1>8, HandleShutdownSpends DEF HandleShutdown
  <2> QED
    BY <1>1, <2>1 DEF Flows
<1>9. CASE HandleClose(e)
  <2>1. (Loses \/ Uses(e)) /\ e.op = None
    BY <1>1, <1>3, <1>9, HandleCloseSpends DEF HandleClose, OwnerTypes
  <2> QED
    BY <1>1, <2>1 DEF Flows
<1> QED
  BY <1>2, <1>4, <1>5, <1>6, <1>7, <1>8, <1>9 DEF HandleEvent

LEMMA NextFlows ==
    ASSUME Typed, Tidy, AllShaped, [Next]_vars
    PROVE  \/ Flows \/ Frees
           \/ \E o \in Ops, i \in streams, type \in OpTypes : Issue(o, i, type)
           \/ \E o \in Ops : Cancel(o)
<1>1. CASE Drive
  <2>1. Loses \/ \E h \in Handles, kind \in Kinds : next_id <= MaxIds /\ Turns(NoWaker, Ready(h, kind))
    BY <1>1, DriveSpends
  <2>2. ASSUME NEW h \in Handles, NEW kind \in Kinds, next_id <= MaxIds
        PROVE  Ready(h, kind) \in Events /\ Ready(h, kind).op = None
               /\ Ready(h, kind).type \in OwnerTypes
    BY <2>2, NewId, ReadyType DEF Typed, Ready, Event, OwnerTypes
  <2> QED
    BY <2>1, <2>2 DEF Flows
<1>2. CASE Step
  BY <1>2, EgressSpends, HandleEventFlows, HandleOpSpends DEF Step, Flows
<1>3. CASE User
  <2>1. ASSUME NEW i \in streams, DropStream(i) PROVE Flows
    <3>1. i \in Infos /\ Event("Close", i, None).type \in OwnerTypes
      BY DEF Typed, UserTypes, Event, OwnerTypes
    <3> QED
      BY <2>1, <3>1, CloseType, DropStreamSpends DEF Flows
  <2> QED
    BY <1>3, <2>1, AcceptSpends DEF User, Flows
<1>4. CASE Drops
  BY <1>4, AcceptSpends, DropGeneratorSpends, DiscardSpends DEF Drops, DropStack, Flows, Frees
<1>5. CASE UNCHANGED vars
  <2>1. UNCHANGED <<sockets, queue, batch, tcp_events, udp_events, ops>>
    BY <1>5 DEF vars, sockVars, driveVars
  <2> QED
    BY <2>1, StillSpends, NobodySettled DEF Spends, Loses, Flows
<1> QED
  BY <1>1, <1>2, <1>3, <1>4, <1>5 DEF Next

LEMMA InitShaped == ASSUME Init PROVE AllShaped
<1>1. Typed
  BY InitTyped
<1>2. \A h \in Handles : sockets[h].rw \notin Odd /\ sockets[h].tw \notin Odd
  BY DEF Init, NoSocket, Odd, Tokens
<1> QED
  BY <1>1, <1>2, HeldZero DEF Init, AllShaped

LEMMA ShapedStep ==
    ASSUME Typed, Typed', AllShaped, NEW gone \in Seq(Wakers), NEW e, NEW w, Ledger(gone, e, w),
           w = NoWaker \/ Shaped(w)
    PROVE  AllShaped'
<1>1. Odd \in SUBSET Tokens
  BY DEF Odd
<1>2. Held(Odd)' + Count(gone, Odd) + One(e, Odd) = Held(Odd) + One(w, Odd)
  BY <1>1 DEF Ledger
<1>3. One(w, Odd) = 0 /\ Held(Odd) = 0
  BY NoWakerOutside, <1>1 DEF AllShaped, One, Odd
<1>4. Count(gone, Odd) \in Nat /\ One(e, Odd) \in Nat /\ Held(Odd)' \in Nat
  BY CountType, OneType, HeldAfter DEF Typed
<1>5. Held(Odd)' = 0
  BY <1>2, <1>3, <1>4
<1> QED
  BY <1>5 DEF AllShaped

LEMMA NextShaped ==
    ASSUME Typed, Typed', Tidy, AllShaped, [Next]_vars
    PROVE  AllShaped'
<1>1. ASSUME NEW w, w = NoWaker \/ Shaped(w), NEW e, Turns(e, w) PROVE AllShaped'
  BY <1>1, ShapedStep DEF Turns, Spends
<1>2. CASE Flows
  <2>1. ASSUME Loses PROVE AllShaped'
    BY <1>1, <2>1 DEF Loses, Turns
  <2>2. ASSUME NEW e, Uses(e) PROVE AllShaped'
    BY <1>1, <2>2 DEF Uses, Turns
  <2>3. ASSUME NEW e \in Events, e.type = "Shutdown", Shaped(e), Turns(e, DoneOf(e)) PROVE AllShaped'
    BY <1>1, <2>3, DoneShaped
  <2>4. ASSUME NEW w \in Events, w.type \in OwnerTypes, w.op = None, Turns(NoWaker, w)
        PROVE  AllShaped'
    BY <1>1, <2>4 DEF Shaped, OwnerTypes, OpTypes
  <2> QED
    BY <1>2, <2>1, <2>2, <2>3, <2>4 DEF Flows
<1>3. CASE Frees
  <2>1. Odd \in SUBSET Tokens
    BY DEF Odd
  <2>2. Held(Odd)' = Count(queue, Odd)
    BY <1>3, <2>1, FreeHeld DEF Frees
  <2>3. Held(Odd) = 0 /\ Count(queue, Odd) \in Nat /\ Aside(Odd) \in Nat /\ Parked(sockets, Odd) \in Nat
    BY HeldType DEF AllShaped
  <2>4. Held(Odd) = Count(queue, Odd) + Aside(Odd) + Parked(sockets, Odd)
    BY DEF Held
  <2>5. Held(Odd)' = 0
    BY <2>2, <2>3, <2>4
  <2> QED
    BY <2>5 DEF AllShaped
<1>4. ASSUME NEW o \in Ops, NEW i \in streams, NEW type \in OpTypes, Issue(o, i, type)
      PROVE  AllShaped'
  <2>1. Shaped(Event(type, i, o))
    BY NoneAssumption DEF Shaped, Event
  <2>2. <<>> \in Seq(Wakers)
    OBVIOUS
  <2>3. Ledger(<<>>, NoWaker, Event(type, i, o)) \/ Ledger(<<>>, NoWaker, NoWaker)
    BY <1>4, IssueLedger
  <2> QED
    BY <2>1, <2>2, <2>3, ShapedStep
<1>5. ASSUME NEW o, Cancel(o) PROVE AllShaped'
  <2>1. <<>> \in Seq(Wakers)
    OBVIOUS
  <2> QED
    BY <1>5, <2>1, CancelLedger, ShapedStep
<1> QED
  BY <1>2, <1>3, <1>4, <1>5, NextFlows

-----------------------------------------------------------------------------
(* Who answers an operation *)

\* The events and wakers with the result sender of operation o.
OpTokens(o) == {w \in Tokens : w.op = o}

Fit(st, n) ==
    /\ st = "pending" => n = 1
    /\ st = "cancelled" => n <= 1
    /\ st \notin {"pending", "cancelled"} => n = 0

Accounted == \A o \in Ops : Fit(ops[o].st, Held(OpTokens(o)))

LEMMA OpTokensOf ==
    ASSUME NEW o \in Ops
    PROVE  /\ OpTokens(o) \in SUBSET Tokens
           /\ \A w \in Wakers : w \in OpTokens(o) <=> w.op = o
BY NoneAssumption DEF OpTokens, Tokens, NoWaker

\* An operation is among those that are lost if its result sender is.
LEMMA LostCounted ==
    ASSUME NEW o \in Ops, NEW gone \in Seq(Wakers)
    PROVE  /\ Count(gone, OpTokens(o)) \in Nat
           /\ o \in OpsOf(gone) <=> Count(gone, OpTokens(o)) # 0
<1>1. Count(gone, OpTokens(o)) \in Nat
  BY CountType
<1>2. Count(gone, OpTokens(o)) = 0 <=> \A i \in DOMAIN gone : gone[i] \notin OpTokens(o)
  BY CountZero
<1>3. \A i \in DOMAIN gone : gone[i] \in OpTokens(o) <=> gone[i].op = o
  BY OpTokensOf
<1> QED
  BY <1>1, <1>2, <1>3 DEF OpsOf

\* A step that moves or loses result senders, but makes none.
LEMMA SpendsAccounted ==
    ASSUME Typed, FlowTypes', Accounted, NEW gone, NEW e, NEW w, Spends(gone, e, w),
           \A o \in Ops : One(e, OpTokens(o)) = One(w, OpTokens(o))
    PROVE  Accounted'
<1> SUFFICES ASSUME NEW o \in Ops PROVE Fit(ops'[o].st, Held(OpTokens(o))')
  BY DEF Accounted
<1> DEFINE S == OpTokens(o)
<1>1. gone \in Seq(Wakers) /\ SettledBy(ops, ops', OpsOf(gone))
  BY DEF Spends
<1>2. Held(S)' + Count(gone, S) + One(e, S) = Held(S) + One(w, S) /\ One(e, S) = One(w, S)
  BY OpTokensOf DEF Spends, Ledger
<1>3. Count(gone, S) \in Nat /\ (o \in OpsOf(gone) <=> Count(gone, S) # 0)
  BY <1>1, LostCounted
<1>4. Held(S)' \in Nat /\ Held(S) \in Nat /\ One(w, S) \in Nat
  BY HeldAfter, HeldType, OneType
<1>5. IF ops[o].st = "pending" /\ o \in OpsOf(gone) THEN ops'[o].st \in Final
                                                   ELSE ops'[o].st = ops[o].st
  BY <1>1 DEF SettledBy
<1>6. Fit(ops[o].st, Held(S))
  BY DEF Accounted
<1> HIDE DEF S
<1>7. Held(S)' + Count(gone, S) = Held(S)
  BY <1>2, <1>3, <1>4
<1>8. Fit(ops'[o].st, Held(S)')
  <2>1. CASE ops[o].st = "pending" /\ o \in OpsOf(gone)
    <3>1. Held(S) = 1 /\ Held(S)' = 0
      BY <1>3, <1>4, <1>6, <1>7, <2>1 DEF Fit
    <3>2. ops'[o].st \notin {"pending", "cancelled"}
      BY <1>5, <2>1 DEF Final
    <3> QED
      BY <3>1, <3>2 DEF Fit
  <2>2. CASE ops[o].st = "pending" /\ o \notin OpsOf(gone)
    <3>1. Held(S)' = Held(S)
      BY <1>3, <1>4, <1>7, <2>2
    <3> QED
      BY <1>5, <1>6, <2>2, <3>1
  <2>3. CASE ops[o].st # "pending"
    <3>1. Held(S)' <= Held(S)
      BY <1>3, <1>4, <1>7
    <3>2. ops'[o].st = ops[o].st
      BY <1>5, <2>3
    <3> QED
      BY <1>4, <1>6, <2>3, <3>1, <3>2 DEF Fit
  <2> QED
    BY <2>1, <2>2, <2>3
<1> QED
  BY <1>8 DEF S

LEMMA FlowsAccounted ==
    ASSUME Typed, FlowTypes', Accounted, Flows
    PROVE  Accounted'
<1>1. ASSUME NEW o \in Ops PROVE One(NoWaker, OpTokens(o)) = 0
  BY OpTokensOf, NoWakerOutside
<1>2. ASSUME NEW o \in Ops, NEW e \in Events, e.op = None PROVE One(e, OpTokens(o)) = 0
  BY <1>2, NoneAssumption DEF One, OpTokens
<1>3. ASSUME NEW o \in Ops, NEW e \in Events PROVE One(e, OpTokens(o)) = One(DoneOf(e), OpTokens(o))
  <2>1. e \in Wakers /\ DoneOf(e) \in Wakers /\ DoneOf(e).op = e.op
    BY EventIsWaker, DoneType
  <2> QED
    BY <2>1, OpTokensOf DEF One
<1>4. CASE Loses
  BY <1>4, SpendsAccounted DEF Loses
<1>5. ASSUME NEW e \in Events, e.op = None, Uses(e) PROVE Accounted'
  <2>1. \A o \in Ops : One(e, OpTokens(o)) = One(NoWaker, OpTokens(o))
    BY <1>1, <1>2, <1>5
  <2> QED
    BY <1>5, <2>1, SpendsAccounted DEF Uses
<1>6. ASSUME NEW e \in Events, Turns(e, DoneOf(e)) PROVE Accounted'
  <2>1. \A o \in Ops : One(e, OpTokens(o)) = One(DoneOf(e), OpTokens(o))
    BY <1>3
  <2> QED
    BY <1>6, <2>1, SpendsAccounted DEF Turns
<1>7. ASSUME NEW w \in Events, w.op = None, Turns(NoWaker, w) PROVE Accounted'
  <2>1. \A o \in Ops : One(NoWaker, OpTokens(o)) = One(w, OpTokens(o))
    BY <1>1, <1>2, <1>7
  <2> QED
    BY <1>7, <2>1, SpendsAccounted DEF Turns
<1> QED
  BY <1>4, <1>5, <1>6, <1>7 DEF Flows

LEMMA IssueAccounted ==
    ASSUME Typed, FlowTypes', Accounted, NEW o \in Ops, NEW i \in streams, NEW type \in OpTypes,
           Issue(o, i, type)
    PROVE  Accounted'
<1> SUFFICES ASSUME NEW p \in Ops PROVE Fit(ops'[p].st, Held(OpTokens(p))')
  BY DEF Accounted
<1> DEFINE S == OpTokens(p)
           w == Event(type, i, o)
<1>1. w \in Events /\ w.op = o
  BY IssueLedger DEF Event
<1>2. One(w, S) = (IF p = o THEN 1 ELSE 0) /\ One(NoWaker, S) = 0 /\ S \in SUBSET Tokens
  BY <1>1, EventIsWaker, OpTokensOf, NoWakerOutside DEF One
<1>3. IF generator THEN Ledger(<<>>, NoWaker, w) ELSE Ledger(<<>>, NoWaker, NoWaker)
  BY IssueLedger
<1>4. Count(<<>>, S) = 0 /\ Held(S)' \in Nat /\ Held(S) \in Nat
  BY CountEmpty, HeldAfter, HeldType
<1> HIDE DEF S, w
<1>5. Held(S)' = Held(S) + (IF generator /\ p = o THEN 1 ELSE 0)
  <2>1. CASE generator
    <3>1. Held(S)' + Count(<<>>, S) + One(NoWaker, S) = Held(S) + One(w, S)
      BY <1>2, <1>3, <2>1 DEF Ledger
    <3> QED
      BY <1>2, <1>4, <2>1, <3>1
  <2>2. CASE ~generator
    <3>1. Held(S)' + Count(<<>>, S) + One(NoWaker, S) = Held(S) + One(NoWaker, S)
      BY <1>2, <1>3, <2>2 DEF Ledger
    <3> QED
      BY <1>2, <1>4, <2>2, <3>1
  <2> QED
    BY <2>1, <2>2
<1>6. Fit(ops[p].st, Held(S))
  BY DEF Accounted, S
<1>7. /\ ops[o].st = "unused"
      /\ p # o => ops'[p] = ops[p]
      /\ p = o => ops'[p].st = IF generator THEN "pending" ELSE "err"
  BY DEF Issue, Typed, OpTypesOK
<1>8. Fit(ops'[p].st, Held(S)')
  <2>1. CASE p # o
    BY <1>4, <1>5, <1>6, <1>7, <2>1
  <2>2. CASE p = o
    <3>1. Held(S) = 0
      BY <1>6, <1>7, <2>2 DEF Fit
    <3> QED
      BY <1>5, <1>7, <2>2, <3>1 DEF Fit
  <2> QED
    BY <2>1, <2>2
<1> QED
  BY <1>8 DEF S

LEMMA CancelAccounted ==
    ASSUME Typed, FlowTypes', Accounted, NEW o \in Ops, Cancel(o)
    PROVE  Accounted'
<1> SUFFICES ASSUME NEW p \in Ops PROVE Fit(ops'[p].st, Held(OpTokens(p))')
  BY DEF Accounted
<1> DEFINE S == OpTokens(p)
<1>1. Held(S)' + Count(<<>>, S) + One(NoWaker, S) = Held(S) + One(NoWaker, S)
  BY CancelLedger, OpTokensOf DEF Ledger
<1>2. Count(<<>>, S) = 0 /\ One(NoWaker, S) = 0 /\ Held(S)' \in Nat /\ Held(S) \in Nat
  BY CountEmpty, HeldAfter, HeldType, NoWakerOutside, OpTokensOf
<1>3. Fit(ops[p].st, Held(S))
  BY DEF Accounted
<1> HIDE DEF S
<1>4. Held(S)' = Held(S)
  BY <1>1, <1>2
<1>5. ops[o].st = "pending" /\ (p # o => ops'[p] = ops[p]) /\ (p = o => ops'[p].st = "cancelled")
  BY DEF Cancel, Typed, OpTypesOK, Futures
<1>6. Fit(ops'[p].st, Held(S)')
  BY <1>2, <1>3, <1>4, <1>5 DEF Fit
<1> QED
  BY <1>6 DEF S

LEMMA FreeAccounted ==
    ASSUME Typed, FlowTypes', Accounted, NEW how, Free(how)
    PROVE  Accounted'
<1> SUFFICES ASSUME NEW o \in Ops PROVE Fit(ops'[o].st, Held(OpTokens(o))')
  BY DEF Accounted
<1> DEFINE S == OpTokens(o)
<1>1. Held(S)' = Count(queue, S)
  BY OpTokensOf, FreeHeld
<1>2. /\ Held(S) = Count(queue, S) + Aside(S) + Parked(sockets, S)
      /\ Count(queue, S) \in Nat /\ Aside(S) \in Nat /\ Parked(sockets, S) \in Nat
  BY HeldType DEF Held
<1>3. o \in HeldOps <=> Aside(S) + Parked(sockets, S) # 0
  <2>1. /\ batch \in Seq(Wakers) /\ tcp_events \in Seq(Wakers) /\ udp_events \in Seq(Wakers)
    BY EventIsWaker DEF Typed, FlowTypes
  <2>2. /\ o \in OpsOf(batch) <=> Count(batch, S) # 0
        /\ o \in OpsOf(tcp_events) <=> Count(tcp_events, S) # 0
        /\ o \in OpsOf(udp_events) <=> Count(udp_events, S) # 0
    BY <2>1, LostCounted
  <2>3. Parked(sockets, S) = 0 <=> \A h \in Handles : sockets[h].rw \notin S /\ sockets[h].tw \notin S
    BY ParkedType
  <2>4. \A h \in Handles : /\ sockets[h].rw \in S <=> sockets[h].rw.op = o
                           /\ sockets[h].tw \in S <=> sockets[h].tw.op = o
    BY OpTokensOf DEF Typed, SocketTypes, Sockets
  <2>5. /\ Count(batch, S) \in Nat /\ Count(tcp_events, S) \in Nat /\ Count(udp_events, S) \in Nat
    BY HeldType
  <2> HIDE DEF S
  <2>6. Aside(S) + Parked(sockets, S) # 0 <=>
          \/ Count(batch, S) # 0 \/ Count(tcp_events, S) # 0 \/ Count(udp_events, S) # 0
          \/ Parked(sockets, S) # 0
    BY <1>2, <2>5 DEF Aside
  <2>7. o \in HeldOps <=> \/ \E h \in Handles : sockets[h].rw.op = o \/ sockets[h].tw.op = o
                          \/ o \in OpsOf(batch) \/ o \in OpsOf(tcp_events) \/ o \in OpsOf(udp_events)
    BY DEF HeldOps
  <2> QED
    BY <2>2, <2>3, <2>4, <2>6, <2>7
<1>4. Fit(ops[o].st, Held(S))
  BY DEF Accounted
<1>5. IF o \in HeldOps /\ ops[o].st = "pending" THEN ops'[o].st = "lost" ELSE ops'[o] = ops[o]
  BY DEF Free, Settle, Typed, OpTypesOK, Futures
<1> HIDE DEF S
<1>6. Fit(ops'[o].st, Held(S)')
  <2>1. CASE o \in HeldOps /\ ops[o].st = "pending"
    <3>1. Held(S) = 1 /\ Aside(S) + Parked(sockets, S) # 0
      BY <1>3, <1>4, <2>1 DEF Fit
    <3>2. Count(queue, S) = 0
      BY <1>2, <3>1
    <3> QED
      BY <1>1, <1>5, <2>1, <3>2 DEF Fit
  <2>2. CASE o \notin HeldOps
    <3>1. Held(S)' = Held(S)
      BY <1>1, <1>2, <1>3, <2>2
    <3> QED
      BY <1>4, <1>5, <2>2, <3>1
  <2>3. CASE ops[o].st # "pending"
    <3>1. Held(S)' <= Held(S) /\ Held(S)' \in Nat /\ Held(S) \in Nat
      BY <1>1, <1>2
    <3> QED
      BY <1>4, <1>5, <2>3, <3>1 DEF Fit
  <2> QED
    BY <2>1, <2>2, <2>3
<1> QED
  BY <1>6 DEF S

LEMMA InitAccounted == ASSUME Init PROVE Accounted
<1> SUFFICES ASSUME NEW o \in Ops PROVE Fit(ops[o].st, Held(OpTokens(o)))
  BY DEF Accounted
<1>1. Typed
  BY InitTyped
<1>2. \A h \in Handles : sockets[h].rw \notin OpTokens(o) /\ sockets[h].tw \notin OpTokens(o)
  BY DEF Init, NoSocket, OpTokens, Tokens
<1>3. Held(OpTokens(o)) = 0
  BY <1>1, <1>2, HeldZero DEF Init
<1>4. ops[o].st = "unused"
  BY DEF Init
<1> QED
  BY <1>3, <1>4 DEF Fit

LEMMA NextAccounted ==
    ASSUME Typed, Typed', Tidy, AllShaped, Accounted, [Next]_vars
    PROVE  Accounted'
<1>1. FlowTypes'
  BY DEF Typed
<1> QED
  BY <1>1, NextFlows, FlowsAccounted, IssueAccounted, CancelAccounted, FreeAccounted DEF Frees

\* The events on their way are counted one place after the other.
LEMMA FlowCount ==
    ASSUME Typed, NEW S
    PROVE  /\ Flow \in Seq(Events)
           /\ Count(Flow, S) = Count(queue, S) + Aside(S)
<1>1. /\ queue \in Seq(Events) /\ batch \in Seq(Events)
      /\ tcp_events \in Seq(Events) /\ udp_events \in Seq(Events)
  BY DEF Typed, FlowTypes
<1> DEFINE p == queue \o batch
           q == p \o tcp_events
<1>2. p \in Seq(Events) /\ Count(p, S) = Count(queue, S) + Count(batch, S)
  BY <1>1, CountConcat
<1> HIDE DEF p
<1>3. q \in Seq(Events) /\ Count(q, S) = Count(p, S) + Count(tcp_events, S)
  BY <1>1, <1>2, CountConcat
<1> HIDE DEF q
<1>4. q \o udp_events \in Seq(Events)
      /\ Count(q \o udp_events, S) = Count(q, S) + Count(udp_events, S)
  BY <1>1, <1>3, CountConcat
<1>5. Flow = q \o udp_events
  BY DEF Flow, p, q
<1>6. /\ Count(queue, S) \in Nat /\ Count(batch, S) \in Nat
      /\ Count(tcp_events, S) \in Nat /\ Count(udp_events, S) \in Nat
  BY HeldType
<1> HIDE DEF Flow
<1>7. Count(Flow, S) = Count(queue, S) + (Count(batch, S) + Count(tcp_events, S) + Count(udp_events, S))
  BY <1>2, <1>3, <1>4, <1>5, <1>6
<1> QED
  BY <1>4, <1>5, <1>7 DEF Aside

LEMMA HoldersHeld ==
    ASSUME Typed, NEW o \in Ops
    PROVE  Holders(o) = Held(OpTokens(o))
<1> DEFINE S == OpTokens(o)
<1>1. Flow \in Seq(Events) /\ Count(Flow, S) = Count(queue, S) + Aside(S)
  BY FlowCount
<1>2. {i \in DOMAIN Flow : Flow[i].op = o} = {i \in DOMAIN Flow : Flow[i] \in S}
  <2>1. \A i \in DOMAIN Flow : Flow[i] \in Wakers
    BY <1>1, EventIsWaker
  <2> QED
    BY <2>1, OpTokensOf
<1>3. /\ {h \in Handles : sockets[h].rw.op = o} = {h \in DOMAIN Rws(sockets) : Rws(sockets)[h] \in S}
      /\ {h \in Handles : sockets[h].tw.op = o} = {h \in DOMAIN Tws(sockets) : Tws(sockets)[h] \in S}
  <2>1. \A h \in Handles : sockets[h].rw \in Wakers /\ sockets[h].tw \in Wakers
    BY DEF Typed, SocketTypes, Sockets
  <2>2. \A h \in Handles : /\ sockets[h].rw \in S <=> sockets[h].rw.op = o
                           /\ sockets[h].tw \in S <=> sockets[h].tw.op = o
    BY <2>1, OpTokensOf
  <2> HIDE DEF S
  <2> QED
    BY <2>2 DEF Rws, Tws
<1> HIDE DEF S
<1>4. Holders(o) = Count(Flow, S) + Count(Rws(sockets), S) + Count(Tws(sockets), S)
  BY <1>2, <1>3 DEF Holders, Count
<1>5. /\ Count(queue, S) \in Nat /\ Aside(S) \in Nat
      /\ Count(Rws(sockets), S) \in Nat /\ Count(Tws(sockets), S) \in Nat
  BY HeldType, CountSlotsZero DEF Rws, Tws
<1>6. Held(S) = Count(queue, S) + Aside(S) + (Count(Rws(sockets), S) + Count(Tws(sockets), S))
  BY DEF Held, Parked
<1>7. Holders(o) = Held(S)
  BY <1>1, <1>4, <1>5, <1>6
<1> QED
  BY <1>7 DEF S

LEMMA AccountedHolders == ASSUME Typed, Accounted PROVE OneHolder
<1> SUFFICES ASSUME NEW o \in Ops
             PROVE  CASE ops[o].st = "pending"   -> Holders(o) = 1
                      [] ops[o].st = "cancelled" -> Holders(o) <= 1
                      [] OTHER                   -> Holders(o) = 0
  BY DEF OneHolder
<1>1. Fit(ops[o].st, Holders(o))
  BY HoldersHeld DEF Accounted
<1> QED
  BY <1>1 DEF Fit

\* The inductive invariant.
AnswerInv == Typed /\ Safe /\ Tidy /\ AllShaped /\ Accounted

\* A pending operation has exactly one result sender, wherever the channel,
\* drive_once and the wakers have carried it, and an operation that has its
\* answer has none: no future is answered twice or waits for nobody.
THEOREM HolderSafety == Spec => []OneHolder
<1>1. Init => AnswerInv
  BY InitTyped, InitSafe, InitTidy, InitShaped, InitAccounted DEF AnswerInv
<1>2. AnswerInv /\ [Next]_vars => AnswerInv'
  BY NextTyped, NextSafe, NextTidy, NextShaped, NextAccounted DEF AnswerInv
<1>3. AnswerInv => OneHolder
  BY AccountedHolders DEF AnswerInv
<1> QED
  BY <1>1, <1>2, <1>3, PTL DEF Spec

-----------------------------------------------------------------------------
(* Who owns a socket *)

OwnerTokens(i) == {w \in Tokens : w.type \in OwnerTypes /\ w.id = i}
InfosOf(i) == {x \in Infos : x.id = i}

\* The owners of socket i with the users, and all of them.
Out(i) ==
    Count(accepted["tcp"], InfosOf(i)) + Count(accepted["udp"], InfosOf(i))
      + Cardinality(streams \cap InfosOf(i))
Own(i) == Held(OwnerTokens(i)) + Out(i)

\* A socket has one owner at most, and only if it has existed.
OneOwner == \A i \in Ids : Own(i) <= 1 /\ (i >= next_id => Own(i) = 0)

\* The owners name their socket.
NamedTokens == \A w \in Tokens : w.type \in OwnerTypes /\ Held({w}) # 0 => Names(w)
NamedInfos ==
    /\ \A k \in Kinds : \A n \in DOMAIN accepted[k] : Names(accepted[k][n])
    /\ \A x \in streams : Names(x)

Named == stack = "up" => NamedTokens /\ NamedInfos

OwnerInv == IsFiniteSet(streams) /\ OneOwner /\ Named

LEMMA OwnerTokensOf == ASSUME NEW i PROVE OwnerTokens(i) \in SUBSET Tokens
BY DEF OwnerTokens

LEMMA StreamsOf ==
    ASSUME IsFiniteSet(streams), NEW i
    PROVE  IsFiniteSet(streams \cap InfosOf(i)) /\ Cardinality(streams \cap InfosOf(i)) \in Nat
<1>1. streams \cap InfosOf(i) \in SUBSET streams
  OBVIOUS
<1>2. IsFiniteSet(streams \cap InfosOf(i))
  BY <1>1, FS_Subset, Zenon
<1> QED
  BY <1>2, FS_CardinalityType

LEMMA OutType ==
    ASSUME Typed, IsFiniteSet(streams), NEW i
    PROVE  /\ Out(i) \in Nat /\ Own(i) \in Nat /\ Held(OwnerTokens(i)) \in Nat
           /\ Count(accepted["tcp"], InfosOf(i)) \in Nat
           /\ Count(accepted["udp"], InfosOf(i)) \in Nat
           /\ Cardinality(streams \cap InfosOf(i)) \in Nat
<1>1. accepted["tcp"] \in Seq(Infos) /\ accepted["udp"] \in Seq(Infos)
  BY DEF Typed, UserTypes, Kinds
<1>2. Count(accepted["tcp"], InfosOf(i)) \in Nat /\ Count(accepted["udp"], InfosOf(i)) \in Nat
  BY <1>1, CountType
<1>3. Cardinality(streams \cap InfosOf(i)) \in Nat
  BY StreamsOf
<1>4. Held(OwnerTokens(i)) \in Nat
  BY HeldType
<1> QED
  BY <1>2, <1>3, <1>4 DEF Out, Own

\* What is held after a step was held before it, or is new.
LEMMA HeldGrows ==
    ASSUME Typed, FlowTypes', NEW gone \in Seq(Wakers), NEW e, NEW w, Ledger(gone, e, w),
           NEW S \in SUBSET Tokens
    PROVE  /\ Held(S)' + One(e, S) <= Held(S) + One(w, S)
           /\ Held(S)' \in Nat /\ Held(S) \in Nat /\ One(e, S) \in Nat /\ One(w, S) \in Nat
<1>1. Held(S)' + Count(gone, S) + One(e, S) = Held(S) + One(w, S)
  BY DEF Ledger
<1>2. /\ Held(S)' \in Nat /\ Held(S) \in Nat /\ Count(gone, S) \in Nat
      /\ One(e, S) \in Nat /\ One(w, S) \in Nat
  BY HeldAfter, HeldType, CountType, OneType
<1> QED
  BY <1>1, <1>2

\* Where no event or waker of a set is, none of its elements is.
LEMMA CountPart ==
    ASSUME NEW T, NEW q \in Seq(T), NEW S, NEW w \in S, Count(q, S) = 0
    PROVE  Count(q, {w}) = 0
<1>1. \A i \in DOMAIN q : q[i] \notin {w}
  BY CountZero
<1> QED
  BY <1>1, CountZero

LEMMA HeldPartAfter ==
    ASSUME FlowTypes', NEW S, NEW w \in S, Held(S)' = 0
    PROVE  Held({w})' = 0
<1>1. /\ queue' \in Seq(Events) /\ batch' \in Seq(Events)
      /\ tcp_events' \in Seq(Events) /\ udp_events' \in Seq(Events)
  BY DEF FlowTypes
<1>2. /\ Count(queue', S) \in Nat /\ Count(batch', S) \in Nat
      /\ Count(tcp_events', S) \in Nat /\ Count(udp_events', S) \in Nat
      /\ Parked(sockets', S) \in Nat
  BY <1>1, CountType, ParkedType
<1>3. /\ Count(queue', S) = 0 /\ Count(batch', S) = 0 /\ Count(tcp_events', S) = 0
      /\ Count(udp_events', S) = 0 /\ Parked(sockets', S) = 0
  BY <1>2 DEF Held, Aside
<1>4. /\ Count(queue', {w}) = 0 /\ Count(batch', {w}) = 0 /\ Count(tcp_events', {w}) = 0
      /\ Count(udp_events', {w}) = 0
  BY <1>1, <1>3, CountPart
<1>5. Parked(sockets', {w}) = 0
  <2>1. \A h \in Handles : sockets'[h].rw \notin {w} /\ sockets'[h].tw \notin {w}
    BY <1>3, ParkedType
  <2> QED
    BY <2>1, ParkedType
<1> QED
  BY <1>4, <1>5 DEF Held, Aside

LEMMA NamesKept ==
    ASSUME Kept, NEW x, x.h \in Handles
    PROVE  Names(x)' <=> Names(x)
BY DEF Kept, Names

LEMMA TokenHandle == ASSUME NEW w \in Tokens PROVE w.h \in Handles /\ w.kind \in Kinds
BY DEF Tokens, Wakers, NoWaker

\* An owner that is held after a step was held before it, or is w.
LEMMA HeldToken ==
    ASSUME Typed, FlowTypes', NEW gone \in Seq(Wakers), NEW e, NEW w, Ledger(gone, e, w),
           NEW x \in Tokens, Held({x})' # 0
    PROVE  Held({x}) # 0 \/ x = w
<1>1. {x} \in SUBSET Tokens
  OBVIOUS
<1>2. /\ Held({x})' + One(e, {x}) <= Held({x}) + One(w, {x})
      /\ Held({x})' \in Nat /\ Held({x}) \in Nat /\ One(e, {x}) \in Nat /\ One(w, {x}) \in Nat
  BY <1>1, HeldGrows
<1>3. Held({x}) # 0 \/ One(w, {x}) # 0
  BY <1>2
<1> QED
  BY <1>3 DEF One

LEMMA KeptNamed ==
    ASSUME Typed, FlowTypes', Kept, NamedTokens, NEW gone \in Seq(Wakers), NEW e, NEW w,
           Ledger(gone, e, w), w \in Tokens /\ w.type \in OwnerTypes => Names(w)
    PROVE  NamedTokens'
<1> SUFFICES ASSUME NEW x \in Tokens, x.type \in OwnerTypes, Held({x})' # 0 PROVE Names(x)'
  BY DEF NamedTokens
<1>1. Held({x}) # 0 \/ x = w
  BY HeldToken
<1>2. Names(x)
  BY <1>1 DEF NamedTokens
<1> QED
  BY <1>2, NamesKept, TokenHandle

LEMMA InfoFields ==
    ASSUME Typed
    PROVE  /\ \A k \in Kinds : \A n \in DOMAIN accepted[k] :
                  /\ accepted[k][n] \in Infos /\ accepted[k][n].h \in Handles
                  /\ accepted[k][n].kind \in Kinds
           /\ \A x \in streams : x \in Infos /\ x.h \in Handles /\ x.kind \in Kinds
<1>1. \A x \in Infos : x.h \in Handles /\ x.kind \in Kinds
  BY DEF Infos
<1>2. ASSUME NEW k \in Kinds, NEW n \in DOMAIN accepted[k] PROVE accepted[k][n] \in Infos
  <2>1. accepted[k] \in Seq(Infos)
    BY DEF Typed, UserTypes
  <2> QED
    BY <2>1
<1>3. \A x \in streams : x \in Infos
  BY DEF Typed, UserTypes
<1> QED
  BY <1>1, <1>2, <1>3

LEMMA InfosNamed ==
    ASSUME Typed, Kept, NamedInfos, UNCHANGED <<accepted, streams>>
    PROVE  NamedInfos'
BY InfoFields, NamesKept DEF NamedInfos

\* If no socket gets an owner that it did not have, each has one at most.
LEMMA FewerOwners ==
    ASSUME OneOwner, UNCHANGED next_id,
           \A i \in Ids : Own(i)' <= Own(i) /\ Own(i)' \in Nat /\ Own(i) \in Nat
    PROVE  OneOwner'
BY DEF OneOwner

\* The owners with the users stay, and what is made owns nothing.
LEMMA PlainOneOwner ==
    ASSUME Typed, FlowTypes', IsFiniteSet(streams), OneOwner,
           UNCHANGED <<next_id, accepted, streams>>,
           NEW gone \in Seq(Wakers), NEW e, NEW w, Ledger(gone, e, w), w.type \notin OwnerTypes
    PROVE  OneOwner'
<1>1. ASSUME NEW i \in Ids PROVE Own(i)' <= Own(i) /\ Own(i)' \in Nat /\ Own(i) \in Nat
  <2>1. OwnerTokens(i) \in SUBSET Tokens /\ One(w, OwnerTokens(i)) = 0
    BY DEF OwnerTokens, One
  <2>2. /\ Held(OwnerTokens(i))' + One(e, OwnerTokens(i)) <= Held(OwnerTokens(i)) + One(w, OwnerTokens(i))
        /\ Held(OwnerTokens(i))' \in Nat /\ Held(OwnerTokens(i)) \in Nat
        /\ One(e, OwnerTokens(i)) \in Nat
    BY <2>1, HeldGrows
  <2>3. Out(i)' = Out(i) /\ Out(i) \in Nat
    BY OutType DEF Out
  <2> QED
    BY <2>1, <2>2, <2>3 DEF Own
<1> QED
  BY <1>1, FewerOwners

LEMMA PlainOwner ==
    ASSUME Typed, FlowTypes', OwnerInv, UNCHANGED <<next_id, accepted, streams, stack>>, Kept,
           NEW gone \in Seq(Wakers), NEW e, NEW w, Ledger(gone, e, w), w.type \notin OwnerTypes
    PROVE  OwnerInv'
<1>1. IsFiniteSet(streams)' /\ OneOwner'
  BY PlainOneOwner DEF OwnerInv
<1>2. Named'
  BY KeptNamed, InfosNamed DEF OwnerInv, Named
<1> QED
  BY <1>1, <1>2 DEF OwnerInv

\* A socket is added, with an event that owns it or without.
LEMMA BornOwner ==
    ASSUME Typed, FlowTypes', OwnerInv, UNCHANGED <<accepted, streams, stack>>,
           next_id <= MaxIds, next_id' = next_id + 1, NEW h \in Handles, NEW kind \in Kinds,
           Given(h, kind), NEW gone \in Seq(Wakers), NEW w, w \in {NoWaker, Ready(h, kind)},
           Ledger(gone, NoWaker, w)
    PROVE  OwnerInv'
<1>0. next_id \in Nat
  BY BoundAssumption DEF Typed, TableTypes
<1>1. IsFiniteSet(streams)'
  BY DEF OwnerInv
<1>2. NoWaker.type \notin OwnerTypes /\ Ready(h, kind).id = next_id
      /\ Ready(h, kind).h = h /\ Ready(h, kind).kind = kind
  BY DEF NoWaker, OwnerTypes, Ready, Event
<1>3. ASSUME NEW i \in Ids
      PROVE  /\ Own(i)' <= Own(i) + 1 /\ Own(i)' \in Nat /\ Own(i) \in Nat
             /\ i # next_id => Own(i)' <= Own(i)
  <2>1. OwnerTokens(i) \in SUBSET Tokens /\ One(w, OwnerTokens(i)) \in {0, 1}
    BY OneType, OwnerTokensOf
  <2>2. i # next_id => One(w, OwnerTokens(i)) = 0
    BY <1>2 DEF OwnerTokens, One
  <2>3. /\ Held(OwnerTokens(i))' + One(NoWaker, OwnerTokens(i))
             <= Held(OwnerTokens(i)) + One(w, OwnerTokens(i))
        /\ Held(OwnerTokens(i))' \in Nat /\ Held(OwnerTokens(i)) \in Nat
        /\ One(NoWaker, OwnerTokens(i)) \in Nat
    BY <2>1, HeldGrows
  <2>4. Out(i)' = Out(i) /\ Out(i) \in Nat
    BY OutType DEF Out, OwnerInv
  <2> QED
    BY <2>1, <2>2, <2>3, <2>4 DEF Own
<1>4. OneOwner'
  <2> SUFFICES ASSUME NEW i \in Ids PROVE Own(i)' <= 1 /\ (i >= next_id' => Own(i)' = 0)
    BY DEF OneOwner
  <2>1. Own(i) <= 1 /\ (i >= next_id => Own(i) = 0) /\ i \in Int
    BY DEF OwnerInv, OneOwner, Ids
  <2> QED
    BY <1>0, <1>3, <2>1
<1>5. ASSUME NEW x, x.h \in Handles, x.kind \in Kinds, Names(x) PROVE Names(x)'
  <2>1. sockets[h].kind \notin Kinds
    BY DEF Given, FreeHandles, Kinds
  <2>2. x.h # h
    BY <1>5, <2>1 DEF Names
  <2> QED
    BY <1>5, <2>2 DEF Names, Given
<1>6. ASSUME NamedTokens PROVE NamedTokens'
  <2> SUFFICES ASSUME NEW x \in Tokens, x.type \in OwnerTypes, Held({x})' # 0 PROVE Names(x)'
    BY DEF NamedTokens
  <2>1. Held({x}) # 0 \/ x = w
    BY HeldToken
  <2>2. CASE Held({x}) # 0
    BY <1>5, <1>6, <2>2, TokenHandle DEF NamedTokens
  <2>3. CASE x = w
    <3>1. x = Ready(h, kind)
      BY <1>2, <2>3
    <3> QED
      BY <1>2, <3>1 DEF Names, Given
  <2> QED
    BY <2>1, <2>2, <2>3
<1>7. ASSUME NamedInfos PROVE NamedInfos'
  BY <1>5, <1>7, InfoFields DEF NamedInfos
<1>8. Named'
  BY <1>6, <1>7 DEF OwnerInv, Named
<1> QED
  BY <1>1, <1>4, <1>8 DEF OwnerInv

LEMMA OutAfter ==
    ASSUME UserTypes', IsFiniteSet(streams'), NEW i
    PROVE  /\ Out(i)' \in Nat
           /\ Count(accepted'["tcp"], InfosOf(i)) \in Nat
           /\ Count(accepted'["udp"], InfosOf(i)) \in Nat
           /\ Cardinality(streams' \cap InfosOf(i)) \in Nat
<1>1. accepted'["tcp"] \in Seq(Infos) /\ accepted'["udp"] \in Seq(Infos)
  BY DEF UserTypes, Kinds
<1>2. Count(accepted'["tcp"], InfosOf(i)) \in Nat /\ Count(accepted'["udp"], InfosOf(i)) \in Nat
  BY <1>1, CountType
<1>3. streams' \cap InfosOf(i) \in SUBSET streams'
  OBVIOUS
<1>4. IsFiniteSet(streams' \cap InfosOf(i))
  BY <1>3, FS_Subset, Zenon
<1>5. Cardinality(streams' \cap InfosOf(i)) \in Nat
  BY <1>4, FS_CardinalityType
<1> QED
  BY <1>2, <1>5 DEF Out

\* Between the stack and the users no socket gets a second owner: who takes
\* event e, which is used up, or gives event w.
Passes(e, w) ==
    \A i \in Ids : Out(i)' + One(w, OwnerTokens(i)) <= Out(i) + One(e, OwnerTokens(i))

LEMMA PassedOneOwner ==
    ASSUME Typed, Typed', IsFiniteSet(streams), IsFiniteSet(streams'), OneOwner, UNCHANGED next_id,
           NEW gone \in Seq(Wakers), NEW e, NEW w, Ledger(gone, e, w), Passes(e, w)
    PROVE  OneOwner'
<1>1. ASSUME NEW i \in Ids PROVE Own(i)' <= Own(i) /\ Own(i)' \in Nat /\ Own(i) \in Nat
  <2>1. OwnerTokens(i) \in SUBSET Tokens /\ FlowTypes' /\ UserTypes'
    BY OwnerTokensOf DEF Typed
  <2>2. /\ Held(OwnerTokens(i))' + One(e, OwnerTokens(i)) <= Held(OwnerTokens(i)) + One(w, OwnerTokens(i))
        /\ Held(OwnerTokens(i))' \in Nat /\ Held(OwnerTokens(i)) \in Nat
        /\ One(e, OwnerTokens(i)) \in Nat /\ One(w, OwnerTokens(i)) \in Nat
    BY <2>1, HeldGrows
  <2>3. Out(i) \in Nat /\ Out(i)' \in Nat
    BY <2>1, OutType, OutAfter
  <2>4. Out(i)' + One(w, OwnerTokens(i)) <= Out(i) + One(e, OwnerTokens(i))
    BY DEF Passes
  <2> QED
    BY <2>2, <2>3, <2>4 DEF Own
<1> QED
  BY <1>1, FewerOwners

LEMMA NothingPasses ==
    ASSUME NEW i
    PROVE  One(NoWaker, OwnerTokens(i)) = 0
BY OwnerTokensOf, NoWakerOutside

\* The event at hand is held.
LEMMA HeadHeld ==
    ASSUME Typed, phase = "dispatch"
    PROVE  Held({Head(batch)}) # 0 /\ Head(batch) \in Tokens
<1>1. batch \in Seq(Events) /\ batch # <<>>
  BY DEF Typed, FlowTypes, PhaseOK
<1>2. 1 \in DOMAIN batch /\ Head(batch) = batch[1] /\ batch[1] \in Events
  BY <1>1
<1>3. batch[1] \in {Head(batch)}
  BY <1>2
<1>4. Held({Head(batch)}) # 0
  BY <1>2, <1>3, HeldZero
<1> QED
  BY <1>2, <1>4, EventIsToken

LEMMA HeadNamed ==
    ASSUME Typed, OwnerInv, stack = "up", phase = "dispatch", Head(batch).type \in OwnerTypes
    PROVE  Names(Head(batch))
BY HeadHeld DEF OwnerInv, Named, NamedTokens

\* An announcement takes the ownership over from its Ready event.
Info(e) == [kind |-> e.kind, h |-> e.h, id |-> e.id]

LEMMA InfoOf ==
    ASSUME NEW e \in Events
    PROVE  /\ Info(e) \in Infos /\ e.kind \in Kinds
           /\ \A i : Info(e) \in InfosOf(i) <=> e.id = i
           /\ Names(e) => Names(Info(e))
<1>1. Info(e) \in Infos /\ Info(e).id = e.id /\ e.kind \in Kinds
  BY DEF Events, Infos, Info
<1>2. Names(e) => Names(Info(e))
  BY DEF Names, Info
<1> QED
  BY <1>1, <1>2 DEF InfosOf

LEMMA AnnouncedOut ==
    ASSUME Typed, IsFiniteSet(streams), NEW e \in Events, e.type \in OwnerTypes, UNCHANGED streams,
           accepted' = [accepted EXCEPT ![e.kind] = Append(@, Info(e))], NEW i
    PROVE  Out(i)' = Out(i) + One(e, OwnerTokens(i))
<1> DEFINE S == InfosOf(i)
<1>1. /\ accepted \in [Kinds -> Seq(Infos)] /\ e.kind \in Kinds /\ Info(e) \in Infos
      /\ accepted[e.kind] \in Seq(Infos)
  BY InfoOf DEF Typed, UserTypes
<1>2. Count(accepted'[e.kind], S) = Count(accepted[e.kind], S) + One(Info(e), S)
  <2>1. accepted'[e.kind] = Append(accepted[e.kind], Info(e))
    BY <1>1
  <2> QED
    BY <1>1, <2>1, CountAppend
<1>3. One(Info(e), S) = One(e, OwnerTokens(i))
  <2>1. e \in OwnerTokens(i) <=> e.id = i
    BY EventIsToken DEF OwnerTokens
  <2> QED
    BY <2>1, InfoOf DEF One
<1>4. /\ Count(accepted["tcp"], S) \in Nat /\ Count(accepted["udp"], S) \in Nat
      /\ Cardinality(streams \cap S) \in Nat /\ One(Info(e), S) \in Nat
  BY OutType, OneType
<1>5. Out(i)' = Count(accepted'["tcp"], S) + Count(accepted'["udp"], S) + Cardinality(streams \cap S)
  BY DEF Out
<1>6. \A k \in Kinds : k # e.kind => accepted'[k] = accepted[k]
  BY <1>1
<1> HIDE DEF S
<1>7. CASE e.kind = "tcp"
  <2>1. accepted'["udp"] = accepted["udp"]
    BY <1>6, <1>7 DEF Kinds
  <2> QED
    BY <1>2, <1>3, <1>4, <1>5, <1>7, <2>1 DEF Out, S
<1>8. CASE e.kind = "udp"
  <2>1. accepted'["tcp"] = accepted["tcp"]
    BY <1>6, <1>8 DEF Kinds
  <2> QED
    BY <1>2, <1>3, <1>4, <1>5, <1>8, <2>1 DEF Out, S
<1> QED
  BY <1>1, <1>7, <1>8 DEF Kinds

LEMMA AnnounceOwner ==
    ASSUME Typed, Typed', OwnerInv, phase = "dispatch", NEW e, e = Head(batch), e \in Events,
           Announce(e)
    PROVE  OwnerInv'
<1>1. /\ UNCHANGED <<next_id, streams, stack>> /\ e.type \in OwnerTypes
      /\ \/ accepted' = accepted
         \/ accepted' = [accepted EXCEPT ![e.kind] = Append(@, Info(e))]
  BY DEF Announce, Handle, Dispatch, lifeVars, sockVars, OwnerTypes, Info
<1>2. PICK gone \in Seq(Wakers) : Ledger(gone, e, NoWaker)
  BY AnnounceSpends DEF Uses, Spends
<1>3. Kept /\ FlowTypes' /\ NoWaker.type \notin OwnerTypes
  BY AnnounceSpends DEF Typed, NoWaker, OwnerTypes
<1>4. CASE accepted' = accepted
  BY <1>1, <1>2, <1>3, <1>4, PlainOwner
<1>5. CASE accepted' = [accepted EXCEPT ![e.kind] = Append(@, Info(e))]
  <2>1. Passes(e, NoWaker)
    <3> SUFFICES ASSUME NEW i \in Ids
                 PROVE  Out(i)' + One(NoWaker, OwnerTokens(i)) <= Out(i) + One(e, OwnerTokens(i))
      BY DEF Passes
    <3>1. Out(i)' = Out(i) + One(e, OwnerTokens(i))
      BY <1>1, <1>5, AnnouncedOut DEF OwnerInv
    <3>2. Out(i) \in Nat /\ One(e, OwnerTokens(i)) \in Nat /\ One(NoWaker, OwnerTokens(i)) = 0
      BY OutType, OneType, NothingPasses DEF OwnerInv
    <3> QED
      BY <3>1, <3>2
  <2>2. IsFiniteSet(streams') /\ OneOwner'
    BY <1>1, <1>2, <2>1, PassedOneOwner DEF OwnerInv
  <2>3. Named'
    <3> SUFFICES ASSUME stack = "up" PROVE NamedTokens' /\ NamedInfos'
      BY <1>1 DEF Named
    <3>1. NamedTokens /\ NamedInfos /\ Names(e)
      BY <1>1, HeadNamed DEF OwnerInv, Named
    <3>2. NamedTokens'
      BY <1>2, <1>3, <3>1, KeptNamed
    <3>3. ASSUME NEW k \in Kinds, NEW n \in DOMAIN accepted'[k] PROVE Names(accepted[k][n])'
      <4>1. accepted[k] \in Seq(Infos) /\ accepted \in [Kinds -> Seq(Infos)] /\ e.kind \in Kinds
            /\ Info(e) \in Infos
        BY InfoOf DEF Typed, UserTypes
      <4>2. accepted'[k][n] = Info(e) \/ (n \in DOMAIN accepted[k] /\ accepted'[k][n] = accepted[k][n])
        <5>1. CASE k = e.kind
          BY <1>5, <3>3, <4>1, <5>1
        <5>2. CASE k # e.kind
          BY <1>5, <3>3, <4>1, <5>2
        <5> QED
          BY <5>1, <5>2
      <4>3. accepted'[k][n].h \in Handles /\ Names(accepted'[k][n])
        BY <3>1, <4>1, <4>2, InfoOf, InfoFields DEF NamedInfos, Infos
      <4> QED
        BY <1>3, <4>3 DEF Kept, Names
    <3>4. \A x \in streams' : Names(x)'
      BY <1>1, <1>3, <3>1, InfoFields, NamesKept DEF NamedInfos
    <3> QED
      BY <3>2, <3>3, <3>4 DEF NamedInfos
  <2> QED
    BY <2>2, <2>3 DEF OwnerInv
<1> QED
  BY <1>1, <1>4, <1>5

\* A socket without an owner outside has none among the users.
LEMMA NobodyOut ==
    ASSUME Typed, IsFiniteSet(streams), NEW i, Out(i) = 0
    PROVE  /\ \A k \in Kinds : \A n \in DOMAIN accepted[k] : accepted[k][n].id # i
           /\ \A x \in streams : x.id # i
<1> DEFINE S == InfosOf(i)
<1>1. /\ Count(accepted["tcp"], S) \in Nat /\ Count(accepted["udp"], S) \in Nat
      /\ Cardinality(streams \cap S) \in Nat
  BY OutType
<1>2. Count(accepted["tcp"], S) = 0 /\ Count(accepted["udp"], S) = 0 /\ Cardinality(streams \cap S) = 0
  <2>1. Count(accepted["tcp"], S) + Count(accepted["udp"], S) + Cardinality(streams \cap S) = 0
    BY DEF Out
  <2> HIDE DEF S
  <2> QED
    BY <1>1, <2>1
<1>3. ASSUME NEW k \in Kinds, NEW n \in DOMAIN accepted[k] PROVE accepted[k][n].id # i
  <2>1. accepted[k] \in Seq(Infos) /\ accepted[k][n] \in Infos
    BY InfoFields DEF Typed, UserTypes
  <2>2. Count(accepted[k], S) = 0
    BY <1>2 DEF Kinds
  <2>3. accepted[k][n] \notin S
    BY <2>1, <2>2, CountZero
  <2> QED
    BY <2>1, <2>3 DEF InfosOf
<1>4. ASSUME NEW x \in streams PROVE x.id # i
  <2>1. IsFiniteSet(streams \cap S)
    BY StreamsOf
  <2>2. streams \cap S = {}
    BY <1>2, <2>1, FS_EmptySet
  <2> QED
    BY <2>2, InfoFields DEF InfosOf
<1> QED
  BY <1>3, <1>4

\* The socket goes with the last of its owners, the Close event at hand.
LEMMA ClearedOwner ==
    ASSUME Typed, Typed', OwnerInv, phase = "dispatch", NEW e, e = Head(batch), e \in Events,
           e.type \in OwnerTypes, Uses(e), Cleared(e.h),
           UNCHANGED <<next_id, accepted, streams, stack>>
    PROVE  OwnerInv'
<1> DEFINE T == OwnerTokens(e.id)
<1>1. PICK gone \in Seq(Wakers) : Ledger(gone, e, NoWaker)
  BY DEF Uses, Spends
<1>2. FlowTypes' /\ NoWaker.type \notin OwnerTypes /\ IsFiniteSet(streams) /\ OneOwner
  BY DEF Typed, NoWaker, OwnerTypes, OwnerInv
<1>3. IsFiniteSet(streams') /\ OneOwner'
  BY <1>1, <1>2, PlainOneOwner
<1>4. Held(T)' = 0 /\ Out(e.id) = 0
  <2>1. T \in SUBSET Tokens /\ One(NoWaker, T) = 0
    BY OwnerTokensOf, NothingPasses
  <2>2. e.id \in Ids /\ One(e, T) = 1
    BY EventIsToken DEF OwnerTokens, One, Events
  <2>3. Own(e.id) <= 1 /\ Own(e.id) = Held(T) + Out(e.id) /\ Out(e.id) \in Nat
    BY <1>2, <2>2, OutType DEF OneOwner, Own
  <2> HIDE DEF T
  <2>4. /\ Held(T)' + One(e, T) <= Held(T) + One(NoWaker, T)
        /\ Held(T)' \in Nat /\ Held(T) \in Nat
    BY <1>1, <1>2, <2>1, HeldGrows
  <2> QED
    BY <2>1, <2>2, <2>3, <2>4
<1>5. ASSUME stack = "up" PROVE NamedTokens' /\ NamedInfos'
  <2>1. NamedTokens /\ NamedInfos /\ Names(e)
    BY <1>5, HeadNamed DEF OwnerInv, Named
  <2>2. ASSUME NEW x, x.h \in Handles, Names(x), x.id # e.id PROVE Names(x)'
    <3>1. x.h # e.h
      BY <2>1, <2>2 DEF Names
    <3> QED
      BY <2>2, <3>1 DEF Names, Cleared
  <2>3. ASSUME NEW x \in Tokens, x.type \in OwnerTypes, Held({x})' # 0 PROVE Names(x)'
    <3>1. Held({x}) # 0
      BY <1>1, <1>2, <2>3, HeldToken DEF Tokens
    <3>2. x \notin T
      BY <1>2, <1>4, <2>3, HeldPartAfter
    <3>3. x.id # e.id
      BY <2>3, <3>2 DEF OwnerTokens
    <3> QED
      BY <2>1, <2>2, <2>3, <3>1, <3>3, TokenHandle DEF NamedTokens
  <2>4. ASSUME NEW k \in Kinds, NEW n \in DOMAIN accepted[k] PROVE Names(accepted[k][n])'
    <3> DEFINE x == accepted[k][n]
    <3>1. x.h \in Handles /\ Names(x) /\ x.id # e.id
      BY <1>2, <1>4, <2>1, InfoFields, NobodyOut DEF NamedInfos
    <3>2. x' = x
      OBVIOUS
    <3> QED
      BY <2>2, <3>1, <3>2
  <2>5. ASSUME NEW x \in streams PROVE Names(x)'
    BY <1>2, <1>4, <2>1, <2>2, InfoFields, NobodyOut DEF NamedInfos
  <2> QED
    BY <2>3, <2>4, <2>5 DEF NamedTokens, NamedInfos
<1>6. Named'
  BY <1>5 DEF Named
<1> QED
  BY <1>3, <1>6 DEF OwnerInv

\* Only the announcements of kind k and the streams change.
LEMMA OutChange ==
    ASSUME Typed, UserTypes', IsFiniteSet(streams), IsFiniteSet(streams'), NEW k \in Kinds,
           \A j \in Kinds \ {k} : accepted'[j] = accepted[j], NEW i, NEW d \in Nat,
           Count(accepted'[k], InfosOf(i)) + Cardinality(streams' \cap InfosOf(i)) + d
             <= Count(accepted[k], InfosOf(i)) + Cardinality(streams \cap InfosOf(i))
    PROVE  Out(i)' + d <= Out(i)
<1> DEFINE S == InfosOf(i)
<1>1. /\ Count(accepted["tcp"], S) \in Nat /\ Count(accepted["udp"], S) \in Nat
      /\ Cardinality(streams \cap S) \in Nat
      /\ Count(accepted'["tcp"], S) \in Nat /\ Count(accepted'["udp"], S) \in Nat
      /\ Cardinality(streams' \cap S) \in Nat
  BY OutType, OutAfter
<1>2. /\ Out(i) = Count(accepted["tcp"], S) + Count(accepted["udp"], S) + Cardinality(streams \cap S)
      /\ Out(i)' = Count(accepted'["tcp"], S) + Count(accepted'["udp"], S) + Cardinality(streams' \cap S)
  BY DEF Out
<1>3. Count(accepted'[k], S) + Cardinality(streams' \cap S) + d
        <= Count(accepted[k], S) + Cardinality(streams \cap S)
  OBVIOUS
<1> HIDE DEF S
<1>4. CASE k = "tcp"
  <2>1. accepted'["udp"] = accepted["udp"]
    BY <1>4 DEF Kinds
  <2> QED
    BY <1>1, <1>2, <1>3, <1>4, <2>1
<1>5. CASE k = "udp"
  <2>1. accepted'["tcp"] = accepted["tcp"]
    BY <1>5 DEF Kinds
  <2> QED
    BY <1>1, <1>2, <1>3, <1>5, <2>1
<1> QED
  BY <1>4, <1>5 DEF Kinds

LEMMA AcceptOwner ==
    ASSUME Typed, Typed', OwnerInv, NEW k \in Kinds, Accept(k)
    PROVE  OwnerInv'
<1> DEFINE q == accepted[k]
           x == Head(accepted[k])
<1>1. /\ q \in Seq(Infos) /\ q # <<>> /\ accepted'[k] = Tail(q)
      /\ \A j \in Kinds \ {k} : accepted'[j] = accepted[j]
      /\ streams' = streams \cup {x} /\ UNCHANGED <<next_id, stack>>
  BY DEF Accept, Typed, UserTypes, sockVars, lifeVars
<1>2. IsFiniteSet(streams) /\ OneOwner /\ UserTypes' /\ FlowTypes'
  BY DEF OwnerInv, Typed
<1>3. IsFiniteSet(streams')
  BY <1>1, <1>2, FS_AddElement
<1>4. PICK gone \in Seq(Wakers) : Ledger(gone, NoWaker, NoWaker)
  BY AcceptSpends DEF Loses, Spends
<1>5. Kept /\ NoWaker.type \notin OwnerTypes
  BY AcceptSpends DEF NoWaker, OwnerTypes
<1>6. ASSUME NEW i \in Ids PROVE Out(i)' <= Out(i) /\ Out(i)' \in Nat /\ Out(i) \in Nat
  <2> DEFINE S == InfosOf(i)
  <2>1. Count(q, S) = One(x, S) + Count(Tail(q), S)
    BY <1>1, CountHead
  <2>2. IsFiniteSet(streams \cap S) /\ Cardinality(streams \cap S) \in Nat
    BY <1>2, StreamsOf
  <2>3. Cardinality(streams' \cap S) <= Cardinality(streams \cap S) + One(x, S)
    <3>1. CASE x \in S
      <4>1. streams' \cap S = (streams \cap S) \cup {x}
        BY <1>1, <3>1
      <4>2. Cardinality((streams \cap S) \cup {x})
              = IF x \in streams \cap S THEN Cardinality(streams \cap S) ELSE Cardinality(streams \cap S) + 1
        BY <2>2, FS_AddElement
      <4>3. Cardinality(streams' \cap S) = Cardinality((streams \cap S) \cup {x}) /\ One(x, S) = 1
        BY <3>1, <4>1 DEF One
      <4> QED
        BY <2>2, <4>2, <4>3
    <3>2. CASE x \notin S
      <4>1. streams' \cap S = streams \cap S
        BY <1>1, <3>2
      <4>2. Cardinality(streams' \cap S) = Cardinality(streams \cap S) /\ One(x, S) = 0
        BY <3>2, <4>1 DEF One
      <4> QED
        BY <2>2, <4>2
    <3> QED
      BY <3>1, <3>2
  <2>4. /\ Count(Tail(q), S) \in Nat /\ One(x, S) \in Nat /\ Cardinality(streams' \cap S) \in Nat
        /\ Out(i) \in Nat /\ Out(i)' \in Nat
    <3>1. Tail(q) \in Seq(Infos)
      BY <1>1
    <3> QED
      BY <1>2, <1>3, <3>1, CountType, OneType, OutAfter, OutType
  <2>5. Count(accepted'[k], S) + Cardinality(streams' \cap S) + 0
          <= Count(accepted[k], S) + Cardinality(streams \cap S)
    <3> HIDE DEF S
    <3> QED
      BY <1>1, <2>1, <2>2, <2>3, <2>4
  <2>6. Out(i)' + 0 <= Out(i)
    BY <1>1, <1>2, <1>3, <2>5, OutChange
  <2> QED
    BY <2>4, <2>6
<1>7. Passes(NoWaker, NoWaker)
  BY <1>6, NothingPasses DEF Passes
<1>8. OneOwner'
  BY <1>1, <1>2, <1>3, <1>4, <1>7, PassedOneOwner
<1>9. ASSUME stack = "up" PROVE NamedTokens' /\ NamedInfos'
  <2>1. NamedTokens /\ NamedInfos
    BY <1>9 DEF OwnerInv, Named
  <2>2. NamedTokens'
    BY <1>2, <1>4, <1>5, <2>1, KeptNamed
  <2>3. x = q[1] /\ 1 \in DOMAIN q /\ (\A n \in DOMAIN Tail(q) : n + 1 \in DOMAIN q /\ Tail(q)[n] = q[n + 1])
    BY <1>1
  <2>4. ASSUME NEW y \in streams' PROVE Names(y)'
    BY <1>1, <1>5, <2>1, <2>3, <2>4, InfoFields, NamesKept DEF NamedInfos
  <2>5. ASSUME NEW j \in Kinds, NEW n \in DOMAIN accepted'[j] PROVE Names(accepted[j][n])'
    <3>1. PICK m \in DOMAIN accepted[j] : accepted'[j][n] = accepted[j][m]
      <4>1. CASE j = k
        BY <1>1, <2>3, <2>5, <4>1
      <4>2. CASE j # k
        BY <1>1, <2>5, <4>2
      <4> QED
        BY <4>1, <4>2
    <3>2. accepted'[j][n].h \in Handles /\ Names(accepted'[j][n])
      BY <2>1, <3>1, InfoFields DEF NamedInfos
    <3> QED
      BY <1>5, <3>2 DEF Kept, Names
  <2> QED
    BY <2>2, <2>4, <2>5 DEF NamedInfos
<1>10. Named'
  BY <1>1, <1>9 DEF Named
<1> QED
  BY <1>3, <1>8, <1>10 DEF OwnerInv

LEMMA DropAcceptorOwner ==
    ASSUME Typed, Typed', OwnerInv, NEW k \in Kinds, DropAcceptor(k)
    PROVE  OwnerInv'
<1>1. /\ accepted'[k] = <<>> /\ accepted[k] \in Seq(Infos)
      /\ \A j \in Kinds \ {k} : accepted'[j] = accepted[j]
      /\ UNCHANGED <<next_id, streams, stack>>
  BY DEF DropAcceptor, Typed, UserTypes, sockVars
<1>2. IsFiniteSet(streams) /\ OneOwner /\ UserTypes' /\ FlowTypes' /\ IsFiniteSet(streams')
  BY <1>1 DEF OwnerInv, Typed
<1>3. PICK gone \in Seq(Wakers) : Ledger(gone, NoWaker, NoWaker)
  BY AcceptSpends DEF Loses, Spends
<1>4. Kept /\ NoWaker.type \notin OwnerTypes
  BY AcceptSpends DEF NoWaker, OwnerTypes
<1>5. ASSUME NEW i \in Ids PROVE Out(i)' <= Out(i) /\ Out(i)' \in Nat /\ Out(i) \in Nat
  <2>1. Count(accepted'[k], InfosOf(i)) = 0
    BY <1>1, CountEmpty
  <2>2. Count(accepted[k], InfosOf(i)) \in Nat /\ Cardinality(streams \cap InfosOf(i)) \in Nat
    BY <1>1, <1>2, CountType, StreamsOf
  <2>3. Cardinality(streams' \cap InfosOf(i)) = Cardinality(streams \cap InfosOf(i))
    BY <1>1
  <2>4. Count(accepted'[k], InfosOf(i)) + Cardinality(streams' \cap InfosOf(i)) + 0
          <= Count(accepted[k], InfosOf(i)) + Cardinality(streams \cap InfosOf(i))
    BY <2>1, <2>2, <2>3
  <2>5. Out(i)' + 0 <= Out(i)
    BY <1>1, <1>2, <2>4, OutChange
  <2>6. Out(i)' \in Nat /\ Out(i) \in Nat
    BY <1>2, OutAfter, OutType
  <2> QED
    BY <2>5, <2>6
<1>6. Passes(NoWaker, NoWaker)
  BY <1>5, NothingPasses DEF Passes
<1>7. OneOwner'
  BY <1>1, <1>2, <1>3, <1>6, PassedOneOwner
<1>8. ASSUME stack = "up" PROVE NamedTokens' /\ NamedInfos'
  <2>1. NamedTokens /\ NamedInfos
    BY <1>8 DEF OwnerInv, Named
  <2>2. NamedTokens'
    BY <1>2, <1>3, <1>4, <2>1, KeptNamed
  <2>3. ASSUME NEW j \in Kinds, NEW n \in DOMAIN accepted'[j] PROVE Names(accepted[j][n])'
    <3>1. accepted'[j] = accepted[j]
      BY <1>1, <2>3
    <3>2. accepted'[j][n].h \in Handles /\ Names(accepted'[j][n])
      BY <2>1, <2>3, <3>1, InfoFields DEF NamedInfos
    <3> QED
      BY <1>4, <3>2 DEF Kept, Names
  <2>4. \A x \in streams' : Names(x)'
    BY <1>1, <1>4, <2>1, InfoFields, NamesKept DEF NamedInfos
  <2> QED
    BY <2>2, <2>3, <2>4 DEF NamedInfos
<1>9. Named'
  BY <1>1, <1>8 DEF Named
<1> QED
  BY <1>2, <1>7, <1>9 DEF OwnerInv

\* The Close event takes the ownership over from its stream.
LEMMA DropStreamOwner ==
    ASSUME Typed, Typed', OwnerInv, NEW i \in streams, DropStream(i)
    PROVE  OwnerInv'
<1> DEFINE c == Event("Close", i, None)
<1>1. streams' = streams \ {i} /\ UNCHANGED <<next_id, stack, accepted>>
  BY DEF DropStream, sockVars, lifeVars
<1>2. /\ IsFiniteSet(streams) /\ OneOwner /\ UserTypes' /\ FlowTypes' /\ i \in Infos
      /\ c \in Events /\ c \in Tokens /\ c.id = i.id /\ c.h = i.h /\ c.kind = i.kind
      /\ c.type \in OwnerTypes /\ NoWaker.type \notin OwnerTypes
  BY InfoFields, CloseType, EventIsToken DEF OwnerInv, Typed, Event, OwnerTypes, NoWaker
<1>3. IsFiniteSet(streams')
  BY <1>1, <1>2, FS_RemoveElement
<1>4. PICK gone \in Seq(Wakers), w \in {NoWaker, c} : Ledger(gone, NoWaker, w)
  BY DropStreamSpends DEF Loses, Turns, Spends
<1>5. Kept
  BY DropStreamSpends
<1>6. ASSUME NEW j \in Ids PROVE Out(j)' + One(w, OwnerTokens(j)) <= Out(j)
  <2> DEFINE S == InfosOf(j)
  <2>1. One(w, OwnerTokens(j)) <= One(i, S) /\ One(w, OwnerTokens(j)) \in Nat
    BY <1>2, NothingPasses, OneType DEF One, OwnerTokens, InfosOf
  <2>2. IsFiniteSet(streams \cap S) /\ Cardinality(streams \cap S) \in Nat
    BY <1>2, StreamsOf
  <2>3. Cardinality(streams' \cap S) + One(i, S) = Cardinality(streams \cap S)
    <3>1. CASE i \in S
      <4>1. streams' \cap S = (streams \cap S) \ {i}
        BY <1>1
      <4>2. Cardinality((streams \cap S) \ {i}) = Cardinality(streams \cap S) - 1
        BY <2>2, <3>1, FS_RemoveElement
      <4>3. Cardinality(streams' \cap S) = Cardinality((streams \cap S) \ {i}) /\ One(i, S) = 1
        BY <3>1, <4>1 DEF One
      <4> QED
        BY <2>2, <4>2, <4>3
    <3>2. CASE i \notin S
      <4>1. streams' \cap S = streams \cap S
        BY <1>1, <3>2
      <4>2. Cardinality(streams' \cap S) = Cardinality(streams \cap S) /\ One(i, S) = 0
        BY <3>2, <4>1 DEF One
      <4> QED
        BY <2>2, <4>2
    <3> QED
      BY <3>1, <3>2
  <2>4. Cardinality(streams' \cap S) \in Nat /\ One(i, S) \in Nat /\ Count(accepted["tcp"], S) \in Nat
        /\ Count(accepted'["tcp"], S) = Count(accepted["tcp"], S)
    BY <1>1, <1>2, <1>3, OneType, OutAfter, OutType
  <2>5. Count(accepted'["tcp"], S) + Cardinality(streams' \cap S) + One(w, OwnerTokens(j))
          <= Count(accepted["tcp"], S) + Cardinality(streams \cap S)
    BY <2>1, <2>2, <2>3, <2>4
  <2>6. "tcp" \in Kinds /\ \A k \in Kinds \ {"tcp"} : accepted'[k] = accepted[k]
    BY <1>1 DEF Kinds
  <2> QED
    BY <1>2, <1>3, <2>1, <2>5, <2>6, OutChange
<1>7. Passes(NoWaker, w)
  <2>1. \A j \in Ids : One(NoWaker, OwnerTokens(j)) = 0 /\ Out(j) \in Nat
    BY <1>2, NothingPasses, OutType
  <2> QED
    BY <1>6, <2>1 DEF Passes
<1>8. OneOwner'
  BY <1>1, <1>2, <1>3, <1>4, <1>7, PassedOneOwner
<1>9. ASSUME stack = "up" PROVE NamedTokens' /\ NamedInfos'
  <2>1. NamedTokens /\ NamedInfos
    BY <1>9 DEF OwnerInv, Named
  <2>2. w \in Tokens /\ w.type \in OwnerTypes => Names(w)
    BY <1>2, <2>1 DEF NamedInfos, Names
  <2>3. NamedTokens'
    BY <1>2, <1>4, <1>5, <2>1, <2>2, KeptNamed
  <2>4. ASSUME NEW k \in Kinds, NEW n \in DOMAIN accepted'[k] PROVE Names(accepted[k][n])'
    <3>1. accepted'[k][n].h \in Handles /\ Names(accepted'[k][n])
      BY <1>1, <2>1, <2>4, InfoFields DEF NamedInfos
    <3> QED
      BY <1>5, <3>1 DEF Kept, Names
  <2>5. \A x \in streams' : Names(x)'
    BY <1>1, <1>5, <2>1, InfoFields, NamesKept DEF NamedInfos
  <2> QED
    BY <2>3, <2>4, <2>5 DEF NamedInfos
<1>10. Named'
  BY <1>1, <1>9 DEF Named
<1> QED
  BY <1>3, <1>8, <1>10 DEF OwnerInv

LEMMA FreeOwner ==
    ASSUME Typed, OwnerInv, NEW how \in {"dropped", "panicked"}, Free(how)
    PROVE  OwnerInv'
<1>1. UNCHANGED <<next_id, accepted, streams>> /\ stack' = how
  BY DEF Free, userVars
<1>2. ASSUME NEW i \in Ids PROVE Own(i)' <= Own(i) /\ Own(i)' \in Nat /\ Own(i) \in Nat
  <2> DEFINE S == OwnerTokens(i)
  <2>1. Held(S)' = Count(queue, S)
    BY OwnerTokensOf, FreeHeld
  <2>2. /\ Held(S) = Count(queue, S) + Aside(S) + Parked(sockets, S)
        /\ Count(queue, S) \in Nat /\ Aside(S) \in Nat /\ Parked(sockets, S) \in Nat
    BY HeldType DEF Held
  <2>3. Out(i)' = Out(i) /\ Out(i) \in Nat
    BY <1>1, OutType DEF Out, OwnerInv
  <2>4. Own(i) = Held(S) + Out(i) /\ Own(i)' = Held(S)' + Out(i)'
    BY DEF Own
  <2> HIDE DEF S
  <2> QED
    BY <2>1, <2>2, <2>3, <2>4
<1>3. OneOwner'
  BY <1>1, <1>2, FewerOwners DEF OwnerInv
<1> QED
  BY <1>1, <1>3 DEF OwnerInv, Named

LEMMA InitOwner == ASSUME Init PROVE OwnerInv
<1>1. Typed
  BY InitTyped
<1>2. IsFiniteSet(streams) /\ Cardinality({}) = 0
  BY FS_EmptySet DEF Init
<1>3. ASSUME NEW S \in SUBSET Tokens PROVE Held(S) = 0
  <2>1. \A h \in Handles : sockets[h].rw \notin S /\ sockets[h].tw \notin S
    BY DEF Init, NoSocket, Tokens
  <2> QED
    BY <1>1, <2>1, HeldZero DEF Init
<1>4. ASSUME NEW i \in Ids PROVE Own(i) = 0
  <2>1. accepted["tcp"] = <<>> /\ accepted["udp"] = <<>> /\ streams = {}
    BY DEF Init, Kinds
  <2>2. streams \cap InfosOf(i) = {}
    BY <2>1
  <2>3. Count(accepted["tcp"], InfosOf(i)) = 0 /\ Count(accepted["udp"], InfosOf(i)) = 0
    BY <2>1, CountEmpty
  <2>4. Out(i) = 0
    BY <1>2, <2>2, <2>3 DEF Out
  <2> QED
    BY <1>3, <2>4, OwnerTokensOf DEF Own
<1>5. NamedTokens
  BY <1>3 DEF NamedTokens
<1>6. NamedInfos
  BY DEF NamedInfos, Init
<1> QED
  BY <1>2, <1>4, <1>5, <1>6 DEF OwnerInv, OneOwner, Named

LEMMA LosesOwner ==
    ASSUME Typed, Typed', OwnerInv, Loses, Kept, UNCHANGED <<next_id, accepted, streams, stack>>
    PROVE  OwnerInv'
<1>1. PICK gone \in Seq(Wakers) : Ledger(gone, NoWaker, NoWaker)
  BY DEF Loses, Spends
<1>2. FlowTypes' /\ NoWaker.type \notin OwnerTypes
  BY DEF Typed, NoWaker, OwnerTypes
<1> QED
  BY <1>1, <1>2, PlainOwner

LEMMA HandleEventOwner ==
    ASSUME Typed, Typed', AllShaped, OwnerInv, phase = "dispatch", NEW e, e = Head(batch),
           HandleEvent(e)
    PROVE  OwnerInv'
<1>1. e \in Events /\ Shaped(e)
  BY HeadOfBatch, ShapedBatch
<1>2. FlowTypes' /\ NoWaker.type \notin OwnerTypes
  BY DEF Typed, NoWaker, OwnerTypes
<1>3. CASE Defer(e)
  <2>1. UNCHANGED <<next_id, accepted, streams, stack>>
    BY <1>3 DEF Defer, Dispatch, sockVars, lifeVars
  <2> QED
    BY <1>1, <1>3, <2>1, DeferSpends, LosesOwner
<1>4. CASE ReadyNotYet(e)
  <2>1. UNCHANGED <<next_id, accepted, streams, stack>>
    BY <1>4 DEF ReadyNotYet, Handle, Dispatch, lifeVars
  <2> QED
    BY <1>1, <1>4, <2>1, ReadyNotYetSpends, LosesOwner
<1>5. CASE Announce(e)
  BY <1>1, <1>5, AnnounceOwner
<1>6. CASE ReadyPanic(e)
  BY <1>6, FreeOwner DEF ReadyPanic
<1>7. CASE HandleShutdown(e)
  <2>1. UNCHANGED <<next_id, accepted, streams, stack>>
    BY <1>7 DEF HandleShutdown, Handle, Dispatch, lifeVars
  <2>2. Kept /\ (Loses \/ Turns(e, DoneOf(e))) /\ DoneOf(e).type \notin OwnerTypes
    BY <1>1, <1>7, HandleShutdownSpends, DoneType DEF OwnerTypes
  <2>3. CASE Turns(e, DoneOf(e))
    <3>1. PICK gone \in Seq(Wakers) : Ledger(gone, e, DoneOf(e))
      BY <2>3 DEF Turns, Spends
    <3> QED
      BY <1>2, <2>1, <2>2, <3>1, PlainOwner
  <2> QED
    BY <2>1, <2>2, <2>3, LosesOwner
<1>8. CASE HandleClose(e)
  <2>1. UNCHANGED <<next_id, accepted, streams, stack>> /\ e.type \in OwnerTypes
    BY <1>8 DEF HandleClose, Handle, Dispatch, lifeVars, OwnerTypes
  <2>2. (Loses /\ Kept) \/ (Uses(e) /\ Kept) \/ (Uses(e) /\ Cleared(e.h))
    BY <1>1, <1>8, HandleCloseSpends
  <2>3. CASE Uses(e) /\ Kept
    <3>1. PICK gone \in Seq(Wakers) : Ledger(gone, e, NoWaker)
      BY <2>3 DEF Uses, Spends
    <3> QED
      BY <1>2, <2>1, <2>3, <3>1, PlainOwner
  <2>4. CASE Uses(e) /\ Cleared(e.h)
    BY <1>1, <2>1, <2>4, ClearedOwner
  <2> QED
    BY <2>1, <2>2, <2>3, <2>4, LosesOwner
<1> QED
  BY <1>3, <1>4, <1>5, <1>6, <1>7, <1>8 DEF HandleEvent

LEMMA DriveOwner ==
    ASSUME Typed, Typed', Tidy, AllShaped, OwnerInv, Drive
    PROVE  OwnerInv'
<1>1. UNCHANGED <<accepted, streams, stack>> /\ FlowTypes'
  BY DriveSpends DEF Typed
<1>2. CASE Loses /\ Kept /\ UNCHANGED next_id
  BY <1>1, <1>2, LosesOwner
<1>3. ASSUME next_id <= MaxIds, next_id' = next_id + 1, NEW h \in Handles, NEW kind \in Kinds,
             Given(h, kind), Loses \/ Turns(NoWaker, Ready(h, kind))
      PROVE  OwnerInv'
  <2>1. PICK gone \in Seq(Wakers), w \in {NoWaker, Ready(h, kind)} : Ledger(gone, NoWaker, w)
    BY <1>3 DEF Loses, Turns, Spends
  <2> QED
    BY <1>1, <1>3, <2>1, BornOwner
<1> QED
  BY <1>2, <1>3, DriveSpends

LEMMA IssueOwner ==
    ASSUME Typed, Typed', OwnerInv, NEW o \in Ops, NEW i \in streams, NEW type \in OpTypes,
           Issue(o, i, type)
    PROVE  OwnerInv'
<1>1. UNCHANGED <<next_id, accepted, streams, stack>> /\ FlowTypes'
  BY DEF Issue, Typed, sockVars, userVars, lifeVars
<1>2. /\ Event(type, i, o).type \notin OwnerTypes /\ NoWaker.type \notin OwnerTypes
      /\ <<>> \in Seq(Wakers)
  BY DEF Event, OpTypes, OwnerTypes, NoWaker
<1>3. Kept /\ (Ledger(<<>>, NoWaker, Event(type, i, o)) \/ Ledger(<<>>, NoWaker, NoWaker))
  BY IssueLedger
<1> QED
  BY <1>1, <1>2, <1>3, PlainOwner

LEMMA NextOwner ==
    ASSUME Typed, Typed', Tidy, AllShaped, OwnerInv, [Next]_vars
    PROVE  OwnerInv'
<1>1. CASE Drive
  BY <1>1, DriveOwner
<1>2. CASE Step
  <2>1. ASSUME NEW h \in Handles, Egress(h) PROVE OwnerInv'
    <3>1. UNCHANGED <<next_id, accepted, streams, stack>>
      BY <2>1 DEF Egress, userVars, lifeVars
    <3> QED
      BY <2>1, <3>1, EgressSpends, LosesOwner
  <2>2. ASSUME NEW e, HandleOp(e) PROVE OwnerInv'
    <3>1. TcpEvent(e) \/ UdpEvent(e)
      BY <2>2, HandleOpOutcome
    <3>2. UNCHANGED <<next_id, accepted, streams, stack>>
      BY <3>1 DEF TcpEvent, UdpEvent, userVars, lifeVars
    <3> QED
      BY <2>2, <3>2, HandleOpSpends, LosesOwner
  <2> QED
    BY <1>2, <2>1, <2>2, HandleEventOwner DEF Step
<1>3. CASE User
  <2>1. ASSUME NEW o \in Ops, Cancel(o) PROVE OwnerInv'
    <3>1. UNCHANGED <<next_id, accepted, streams, stack>> /\ FlowTypes' /\ <<>> \in Seq(Wakers)
          /\ NoWaker.type \notin OwnerTypes
      BY <2>1 DEF Cancel, Typed, sockVars, userVars, lifeVars, NoWaker, OwnerTypes
    <3> QED
      BY <2>1, <3>1, CancelLedger, PlainOwner
  <2> QED
    BY <1>3, <2>1, AcceptOwner, IssueOwner, DropStreamOwner DEF User
<1>4. CASE Drops
  <2>1. ASSUME NEW n \in Batches, DropGenerator(n) PROVE OwnerInv'
    <3>1. UNCHANGED <<next_id, accepted, streams, stack>>
      BY <2>1 DEF DropGenerator, sockVars, userVars
    <3> QED
      BY <2>1, <3>1, DropGeneratorSpends, LosesOwner
  <2>2. ASSUME Discard PROVE OwnerInv'
    <3>1. UNCHANGED <<next_id, accepted, streams, stack>>
      BY <2>2 DEF Discard, sockVars, userVars, lifeVars
    <3> QED
      BY <2>2, <3>1, DiscardSpends, LosesOwner
  <2> QED
    BY <1>4, <2>1, <2>2, DropAcceptorOwner, FreeOwner DEF Drops, DropStack
<1>5. CASE UNCHANGED vars
  <2>1. UNCHANGED <<sockets, queue, batch, tcp_events, udp_events>>
        /\ UNCHANGED <<next_id, accepted, streams, stack>> /\ FlowTypes' /\ <<>> \in Seq(Wakers)
        /\ NoWaker.type \notin OwnerTypes
    BY <1>5 DEF vars, sockVars, driveVars, userVars, lifeVars, Typed, NoWaker, OwnerTypes
  <2> QED
    BY <2>1, StillSpends, PlainOwner
<1> QED
  BY <1>1, <1>2, <1>3, <1>4, <1>5 DEF Next

LEMMA OwnerTokenIs ==
    ASSUME NEW w \in Wakers, NEW i
    PROVE  w \in OwnerTokens(i) <=> w.type \in OwnerTypes /\ w.id = i
BY DEF OwnerTokens, Tokens, NoWaker, OwnerTypes

LEMMA OwnersHeld ==
    ASSUME Typed, IsFiniteSet(streams), NEW i
    PROVE  Owners(i) = Own(i)
<1> DEFINE S == OwnerTokens(i)
           I == InfosOf(i)
<1>1. Flow \in Seq(Events) /\ Count(Flow, S) = Count(queue, S) + Aside(S)
  BY FlowCount
<1>2. {k \in DOMAIN Flow : Flow[k].type \in OwnerTypes /\ Flow[k].id = i} = {k \in DOMAIN Flow : Flow[k] \in S}
  <2>1. \A k \in DOMAIN Flow : Flow[k] \in Wakers
    BY <1>1, EventIsWaker
  <2> QED
    BY <2>1, OwnerTokenIs
<1>3. /\ {h \in Handles : sockets[h].rw.type \in OwnerTypes /\ sockets[h].rw.id = i}
           = {h \in DOMAIN Rws(sockets) : Rws(sockets)[h] \in S}
      /\ {h \in Handles : sockets[h].tw.type \in OwnerTypes /\ sockets[h].tw.id = i}
           = {h \in DOMAIN Tws(sockets) : Tws(sockets)[h] \in S}
  <2>1. \A h \in Handles : sockets[h].rw \in Wakers /\ sockets[h].tw \in Wakers
    BY DEF Typed, SocketTypes, Sockets
  <2>2. \A h \in Handles :
          /\ sockets[h].rw \in S <=> sockets[h].rw.type \in OwnerTypes /\ sockets[h].rw.id = i
          /\ sockets[h].tw \in S <=> sockets[h].tw.type \in OwnerTypes /\ sockets[h].tw.id = i
    BY <2>1, OwnerTokenIs
  <2> HIDE DEF S
  <2> QED
    BY <2>2 DEF Rws, Tws
<1>4. /\ {n \in DOMAIN accepted["tcp"] : accepted["tcp"][n].id = i}
           = {n \in DOMAIN accepted["tcp"] : accepted["tcp"][n] \in I}
      /\ {n \in DOMAIN accepted["udp"] : accepted["udp"][n].id = i}
           = {n \in DOMAIN accepted["udp"] : accepted["udp"][n] \in I}
      /\ {x \in streams : x.id = i} = streams \cap I
  BY InfoFields DEF InfosOf, Kinds
<1> HIDE DEF S, I
<1>5. /\ InFlow(i) = Count(Flow, S)
      /\ InWakers(i) = Count(Rws(sockets), S) + Count(Tws(sockets), S)
  BY <1>2, <1>3 DEF InFlow, InWakers, Count
<1>6. /\ InAccepted(i) = Count(accepted["tcp"], I) + Count(accepted["udp"], I)
      /\ InStreams(i) = Cardinality(streams \cap I)
  BY <1>4 DEF InAccepted, InStreams, Count
<1>7. /\ Count(queue, S) \in Nat /\ Aside(S) \in Nat
      /\ Count(Rws(sockets), S) \in Nat /\ Count(Tws(sockets), S) \in Nat
  BY HeldType, CountSlotsZero DEF Rws, Tws
<1>8. /\ Count(accepted["tcp"], I) \in Nat /\ Count(accepted["udp"], I) \in Nat
      /\ Cardinality(streams \cap I) \in Nat
  BY OutType DEF I
<1>9. Own(i) = Count(queue, S) + Aside(S) + (Count(Rws(sockets), S) + Count(Tws(sockets), S))
                + (Count(accepted["tcp"], I) + Count(accepted["udp"], I) + Cardinality(streams \cap I))
  BY DEF Own, Held, Parked, Out, S, I
<1>10. Owners(i) = Count(Flow, S) + (Count(Rws(sockets), S) + Count(Tws(sockets), S))
                 + (Count(accepted["tcp"], I) + Count(accepted["udp"], I)) + Cardinality(streams \cap I)
  BY <1>5, <1>6 DEF Owners
<1> QED
  BY <1>1, <1>7, <1>8, <1>9, <1>10

LEMMA FlowHeld ==
    ASSUME Typed, NEW k \in DOMAIN Flow
    PROVE  Flow[k] \in Tokens /\ Held({Flow[k]}) # 0
<1> DEFINE S == {Flow[k]}
<1>1. Flow \in Seq(Events) /\ Count(Flow, S) = Count(queue, S) + Aside(S)
  BY FlowCount
<1>2. Count(Flow, S) # 0 /\ Flow[k] \in Tokens
  BY <1>1, CountZero, EventIsToken
<1>3. Count(queue, S) \in Nat /\ Aside(S) \in Nat /\ Parked(sockets, S) \in Nat
      /\ Held(S) = Count(queue, S) + Aside(S) + Parked(sockets, S)
  BY HeldType DEF Held
<1> HIDE DEF S
<1>4. Held(S) # 0
  BY <1>1, <1>2, <1>3
<1> QED
  BY <1>2, <1>4 DEF S

LEMMA OwnedUnique == ASSUME Typed, OwnerInv PROVE OwnersUnique
<1>1. ASSUME NEW i \in 1..MaxIds PROVE Owners(i) <= 1
  <2>1. i \in Ids /\ Owners(i) = Own(i)
    BY BoundAssumption, OwnersHeld DEF Ids, OwnerInv
  <2> QED
    BY <2>1 DEF OwnerInv, OneOwner
<1>2. ASSUME stack = "up", NEW k \in DOMAIN Flow, Flow[k].type \in OwnerTypes PROVE Names(Flow[k])
  BY <1>2, FlowHeld DEF OwnerInv, Named, NamedTokens
<1> QED
  BY <1>1, <1>2 DEF OwnersUnique, OwnerInv, Named, NamedInfos

\* The inductive invariant.
OwnershipInv == Typed /\ Safe /\ Tidy /\ AllShaped /\ OwnerInv

\* No socket is announced, accepted or closed twice, and whatever owns a socket
\* names the one it was made for: a handle that SocketSet gives to a new socket
\* leads no Ready or Close event, announcement or stream to it.
THEOREM OwnerSafety == Spec => []OwnersUnique
<1>1. Init => OwnershipInv
  BY InitTyped, InitSafe, InitTidy, InitShaped, InitOwner DEF OwnershipInv
<1>2. OwnershipInv /\ [Next]_vars => OwnershipInv'
  BY NextTyped, NextSafe, NextTidy, NextShaped, NextOwner DEF OwnershipInv
<1>3. OwnershipInv => OwnersUnique
  BY OwnedUnique DEF OwnershipInv
<1> QED
  BY <1>1, <1>2, <1>3, PTL DEF Spec
=============================================================================
