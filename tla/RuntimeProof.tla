---------------------------- MODULE RuntimeProof -----------------------------
(***************************************************************************)
(* The tasks of Runtime keep their types and leave no packet inside the    *)
(* stack, for any number of readers, writers and packets.                  *)
(***************************************************************************)
EXTENDS Runtime, FiniteSetTheorems, SequenceTheorems, TLAPS

\* The variables that the tasks share, and those of the driver.
PipeTypes ==
    /\ packets \in Seq(PacketsIn) /\ outs \in Seq(PacketsOut)
    /\ channel \in Seq(Users) /\ held \in Seq(Users)
    /\ batches \in Seq(Seq(Users))

SockTypes ==
    /\ pending \subseteq Users /\ parked \subseteq Readers
    /\ data \subseteq Readers /\ unsent \subseteq Writers

DriveTypes ==
    /\ rxQueue \in Seq(PacketsIn) /\ txQueue \in Seq(PacketsOut) /\ given \in Seq(Users)
    /\ pc \in {"select", "poll", "handle", "forward", "ended"}
    /\ sleep \in {"none", "now", "later"}

Typed ==
    /\ tasks \subseteq {"read", "write", "events", "drive"}
    /\ PipeTypes /\ SockTypes /\ DriveTypes

LEMMA TypedTypeOK == Typed => TypeOK
BY DEF Typed, TypeOK, PipeTypes, SockTypes, DriveTypes

\* drive_once has received what it was given when it looks at the events, and
\* the driver has taken what was sent when it selects again.
Drained ==
    /\ pc # "poll" => rxQueue = <<>>
    /\ pc \in {"select", "ended"} => txQueue = <<>>

-----------------------------------------------------------------------------
(* Sequences *)

LEMMA ReceivedType ==
    ASSUME NEW bs \in Seq(Seq(Users))
    PROVE  Received(bs) \in Seq(Users)
<1>1. CASE bs = <<>>
  BY <1>1 DEF Received
<1>2. CASE bs # <<>>
  BY <1>2 DEF Received
<1> QED
  BY <1>1, <1>2

LEMMA TryRecvType ==
    ASSUME NEW T, NEW q \in Seq(T)
    PROVE  TryRecv(q) \in Seq(T) /\ (q # <<>> => <<Head(q)>> \in Seq(T))
BY DEF TryRecv

LEMMA RestType ==
    ASSUME NEW T, NEW q \in Seq(T), NEW n \in Nat
    PROVE  SubSeq(q, n + 1, Len(q)) \in Seq(T)
BY SubSeqProperties

\* The sequence of at most one woken reader.
LEMMA WokenType ==
    ASSUME NEW p, NEW S \in SUBSET {p}
    PROVE  SetToSeq(S) \in Seq(S)
<1>1. PICK n \in {0, 1} : Cardinality(S) = n /\ (n = 1 => S = {p})
  <2>1. CASE S = {}
    <3>1. Cardinality(S) = 0
      BY <2>1, FS_EmptySet
    <3> QED
      BY <3>1
  <2>2. CASE S = {p}
    <3>1. Cardinality(S) = 1
      BY <2>2, FS_Singleton
    <3> QED
      BY <2>2, <3>1
  <2> QED
    BY <2>1, <2>2
<1>2. \E f \in [1..n -> S] : IsInjective(f)
  <2>1. CASE n = 0
    <3>1. [i \in 1..n |-> p] \in [1..n -> S] /\ IsInjective([i \in 1..n |-> p])
      BY <2>1 DEF IsInjective
    <3> QED
      BY <3>1
  <2>2. CASE n = 1
    <3>1. [i \in 1..n |-> p] \in [1..n -> S] /\ IsInjective([i \in 1..n |-> p])
      BY <1>1, <2>2 DEF IsInjective
    <3> QED
      BY <3>1
  <2> QED
    BY <1>1, <2>1, <2>2
<1>3. SetToSeq(S) \in [1..n -> S]
  BY <1>1, <1>2, Zenon DEF SetToSeq
<1> QED
  BY <1>1, <1>3

-----------------------------------------------------------------------------
(* The driver *)

LEMMA EndDriveTyped ==
    ASSUME Typed, NEW bs \in Seq(Seq(Users)), EndDrive(bs)
    PROVE  Typed' /\ Drained'
<1>1. batches' \in Seq(Seq(Users))
  BY RestType DEF Typed, PipeTypes, EndDrive
<1> QED
  BY <1>1 DEF Typed, PipeTypes, SockTypes, DriveTypes, EndDrive, Drained

LEMMA BeginTyped ==
    ASSUME Typed, Drained, pc = "select", NEW ps \in Seq(PacketsIn), NEW bs \in Seq(Seq(Users)),
           Begin(ps, bs)
    PROVE  Typed' /\ Drained'
<1>1. CASE ps = <<"refused">>
  BY <1>1, EndDriveTyped DEF Begin
<1>2. CASE ps # <<"refused">>
  <2>1. /\ rxQueue' = rxQueue \o ps /\ given' = Received(bs) /\ pc' = "poll"
        /\ packets' = SubSeq(packets, Len(ps) + 1, Len(packets))
        /\ batches' = SubSeq(batches, Len(bs) + 1, Len(batches))
        /\ UNCHANGED <<tasks, outs, channel, held, pending, sockVars, txQueue, sleep>>
    BY <1>2 DEF Begin
  <2>2. packets' \in Seq(PacketsIn) /\ batches' \in Seq(Seq(Users))
    <3>1. Len(ps) \in Nat /\ Len(bs) \in Nat
      OBVIOUS
    <3>2. packets \in Seq(PacketsIn) /\ batches \in Seq(Seq(Users))
      BY DEF Typed, PipeTypes
    <3> QED
      BY <2>1, <3>1, <3>2, RestType
  <2>3. given' \in Seq(Users) /\ rxQueue' \in Seq(PacketsIn)
    BY <2>1, ReceivedType DEF Typed, DriveTypes
  <2> QED
    BY <2>1, <2>2, <2>3 DEF Typed, PipeTypes, SockTypes, DriveTypes, Drained, sockVars
<1> QED
  BY <1>1, <1>2

LEMMA SelectTyped ==
    ASSUME Typed, Drained, Select \/ Timeout \/ SelectFails
    PROVE  Typed' /\ Drained'
<1>1. packets \in Seq(PacketsIn) /\ batches \in Seq(Seq(Users))
  BY DEF Typed, PipeTypes
<1>2. /\ TryRecv(packets) \in Seq(PacketsIn)
      /\ packets # <<>> => <<Head(packets)>> \in Seq(PacketsIn)
  BY <1>1, TryRecvType
<1>3. /\ TryRecv(batches) \in Seq(Seq(Users))
      /\ batches # <<>> => <<Head(batches)>> \in Seq(Seq(Users))
  BY <1>1, TryRecvType, Zenon
<1>4. <<>> \in Seq(PacketsIn) /\ <<>> \in Seq(Seq(Users))
  OBVIOUS
<1> QED
  BY <1>2, <1>3, <1>4, BeginTyped, EndDriveTyped DEF Select, Timeout, SelectFails

LEMMA IngressTyped == ASSUME Typed, Drained, Ingress PROVE Typed' /\ Drained'
<1> DEFINE p == Head(rxQueue)
           woken == DataOf(p) \cap parked
<1>1. /\ rxQueue' = Tail(rxQueue) /\ rxQueue # <<>> /\ pc = "poll"
      /\ txQueue' = IF p = "segment" THEN Append(txQueue, "reply") ELSE txQueue
      /\ data' = data \cup DataOf(p) /\ parked' = parked \ woken
      /\ channel' = channel \o SetToSeq(woken)
      /\ UNCHANGED <<tasks, packets, outs, batches, held, pending, unsent, pc, given, sleep>>
  BY DEF Ingress
<1>2. woken \in SUBSET {p} /\ woken \in SUBSET Users /\ DataOf(p) \subseteq Readers
  BY DEF DataOf, Users
<1> HIDE DEF woken
<1>3. SetToSeq(woken) \in Seq(Users)
  <2>1. SetToSeq(woken) \in Seq(woken)
    BY <1>2, WokenType
  <2> QED
    BY <1>2, <2>1
<1>4. channel' \in Seq(Users)
  BY <1>1, <1>3 DEF Typed, PipeTypes
<1>5. rxQueue' \in Seq(PacketsIn) /\ txQueue' \in Seq(PacketsOut)
  BY <1>1 DEF Typed, DriveTypes, PacketsOut
<1> QED
  BY <1>1, <1>2, <1>4, <1>5 DEF Typed, PipeTypes, SockTypes, DriveTypes, Drained

LEMMA DriveOnceTyped == ASSUME Typed, Drained, DriveOnce PROVE Typed' /\ Drained'
<1>1. ASSUME NEW w \in Writers, Egress(w) PROVE Typed' /\ Drained'
  <2>1. txQueue' \in Seq(PacketsOut)
    BY <1>1 DEF Egress, Typed, DriveTypes, PacketsOut
  <2> QED
    BY <1>1, <2>1 DEF Egress, Typed, PipeTypes, SockTypes, DriveTypes, Drained, pipeVars
<1>2. ASSUME PollDone PROVE Typed' /\ Drained'
  BY <1>2 DEF PollDone, Typed, PipeTypes, SockTypes, DriveTypes, Drained, pipeVars, sockVars
<1>3. ASSUME Handle PROVE Typed' /\ Drained'
  <2>1. given' \in Seq(Users)
    BY <1>3 DEF Handle, Typed, DriveTypes
  <2>2. SockTypes'
    BY <1>3 DEF Handle, Typed, SockTypes
  <2> QED
    BY <1>3, <2>1, <2>2 DEF Handle, Typed, PipeTypes, DriveTypes, Drained, pipeVars
<1>4. ASSUME NEW d \in {"none", "now", "later"}, EndOnce(d) PROVE Typed' /\ Drained'
  BY <1>4 DEF EndOnce, Typed, PipeTypes, SockTypes, DriveTypes, Drained, pipeVars, sockVars
<1> QED
  BY <1>1, <1>2, <1>3, <1>4, IngressTyped DEF DriveOnce

LEMMA ForwardTyped == ASSUME Typed, Drained, Forward PROVE Typed' /\ Drained'
<1>1. CASE txQueue # <<>> /\ "write" \notin tasks
  <2>1. <<>> \in Seq(Seq(Users))
    OBVIOUS
  <2> QED
    BY <1>1, <2>1, EndDriveTyped DEF Forward
<1>2. CASE ~(txQueue # <<>> /\ "write" \notin tasks)
  <2>1. /\ outs' = outs \o txQueue /\ txQueue' = <<>> /\ pc' = "select" /\ pc = "forward"
        /\ UNCHANGED <<tasks, packets, batches, channel, held, pending, sockVars, rxQueue, given, sleep>>
    BY <1>2 DEF Forward
  <2>2. outs' \in Seq(PacketsOut)
    BY <2>1 DEF Typed, PipeTypes, DriveTypes
  <2> QED
    BY <2>1, <2>2 DEF Typed, PipeTypes, SockTypes, DriveTypes, Drained, sockVars
<1> QED
  BY <1>1, <1>2

-----------------------------------------------------------------------------
(* The other tasks *)

LEMMA PipesTyped ==
    ASSUME Typed, Drained,
           \/ \E u \in Users : Issue(u)
           \/ \E p \in PacketsIn : ReadTun(p)
           \/ ReadFails \/ WriteTun \/ WriteFails
    PROVE  Typed' /\ Drained'
<1>1. ASSUME NEW u \in Users, Issue(u) PROVE Typed' /\ Drained'
  <2>1. channel' \in Seq(Users)
    BY <1>1 DEF Issue, Typed, PipeTypes
  <2> QED
    BY <1>1, <2>1 DEF Issue, Typed, PipeTypes, SockTypes, DriveTypes, Drained, sockVars, driveVars
<1>2. ASSUME NEW p \in PacketsIn, ReadTun(p) PROVE Typed' /\ Drained'
  <2>1. packets' \in Seq(PacketsIn)
    <3>1. packets' = packets \/ packets' = Append(packets, p)
      BY <1>2 DEF ReadTun
    <3>2. packets \in Seq(PacketsIn)
      BY DEF Typed, PipeTypes
    <3>3. Append(packets, p) \in Seq(PacketsIn)
      BY <3>2
    <3> QED
      BY <3>1, <3>2, <3>3
  <2>2. tasks' \subseteq tasks
    BY <1>2 DEF ReadTun
  <2> QED
    BY <1>2, <2>1, <2>2 DEF ReadTun, Typed, PipeTypes, SockTypes, DriveTypes, Drained, sockVars, driveVars
<1>3. ASSUME ReadFails PROVE Typed' /\ Drained'
  BY <1>3 DEF ReadFails, Typed, PipeTypes, SockTypes, DriveTypes, Drained, pipeVars, sockVars, driveVars
<1>4. ASSUME WriteTun \/ WriteFails PROVE Typed' /\ Drained'
  <2>1. outs' \in Seq(PacketsOut) /\ tasks' \subseteq tasks
    <3>1. /\ outs' = outs \/ outs' = <<>> \/ (outs # <<>> /\ outs' = Tail(outs))
          /\ tasks' \subseteq tasks
      BY <1>4 DEF WriteTun, WriteFails
    <3>2. outs \in Seq(PacketsOut)
      BY DEF Typed, PipeTypes
    <3>3. outs # <<>> => Tail(outs) \in Seq(PacketsOut)
      BY <3>2
    <3>4. <<>> \in Seq(PacketsOut)
      OBVIOUS
    <3> QED
      BY <3>1, <3>2, <3>3, <3>4
  <2> QED
    BY <1>4, <2>1 DEF WriteTun, WriteFails, Typed, PipeTypes, SockTypes, DriveTypes, Drained,
                      sockVars, driveVars
<1> QED
  BY <1>1, <1>2, <1>3, <1>4

LEMMA EventsTyped == ASSUME Typed, Drained, EventsTask PROVE Typed' /\ Drained'
<1>1. CASE Generate
  BY <1>1 DEF Generate, Typed, PipeTypes, SockTypes, DriveTypes, Drained, sockVars, driveVars
<1>2. CASE SendBatch
  <2>1. /\ batches' \in Seq(Seq(Users)) /\ held' \in Seq(Users) /\ channel' \in Seq(Users)
        /\ tasks' \subseteq tasks /\ pending' \subseteq pending
    <3>1. /\ batches' = Append(batches, held) \/ batches' = <<>>
          /\ held' = <<>> /\ (channel' = channel \/ channel' = <<>>)
          /\ tasks' \subseteq tasks /\ pending' \subseteq pending
      BY <1>2 DEF SendBatch, EndEvents
    <3>2. Append(batches, held) \in Seq(Seq(Users)) /\ <<>> \in Seq(Seq(Users)) /\ <<>> \in Seq(Users)
      BY DEF Typed, PipeTypes
    <3> QED
      BY <3>1, <3>2 DEF Typed, PipeTypes
  <2> QED
    BY <1>2, <2>1 DEF SendBatch, Typed, PipeTypes, SockTypes, DriveTypes, Drained, sockVars, driveVars
<1> QED
  BY <1>1, <1>2 DEF EventsTask

LEMMA InitTyped == Init => Typed /\ Drained
BY DEF Init, Typed, PipeTypes, SockTypes, DriveTypes, Drained

LEMMA NextTyped == Typed /\ Drained /\ [Next]_vars => Typed' /\ Drained'
<1>1. ASSUME Typed, Drained, UNCHANGED vars PROVE Typed' /\ Drained'
  BY <1>1 DEF vars, Typed, PipeTypes, SockTypes, DriveTypes, Drained, pipeVars, sockVars, driveVars
<1> QED
  BY <1>1, PipesTyped, EventsTyped, SelectTyped, DriveOnceTyped, ForwardTyped DEF Next, DriveTask

\* The variables of the tasks keep their types: the channels carry packets and
\* batches only, data only ever is data for a reader, and nothing is written but
\* what sockets sent and answered.
THEOREM RuntimeTypes == Spec => []TypeOK
<1>1. Typed /\ Drained => TypeOK
  BY TypedTypeOK
<1> QED
  BY <1>1, InitTyped, NextTyped, PTL DEF Spec

\* No packet waits inside the stack while the driver sleeps: drive_once receives
\* what it pushed, and the driver takes all that was sent, whichever way the loop
\* went.
THEOREM DrainedSafety == Spec => []InterfaceDrained
<1>1. Typed /\ Drained => InterfaceDrained
  BY DEF Drained, InterfaceDrained
<1> QED
  BY <1>1, InitTyped, NextTyped, PTL DEF Spec
=============================================================================
