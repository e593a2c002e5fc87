--------------------------- MODULE TcpStackLedger ----------------------------
(***************************************************************************)
(* A ledger of the events and wakers of TcpStack, for any number of        *)
(* sockets, operations, peers and endpoints and any of the faults: what    *)
(* every step takes out of the channel, of drive_once and of the sockets,  *)
(* and what it puts there.                                                 *)
(***************************************************************************)
EXTENDS TcpStackProof, FiniteSetTheorems

-----------------------------------------------------------------------------
(* Counting *)

One(x, S) == IF x \in S THEN 1 ELSE 0

\* How many entries of a sequence or of a function on Handles are in S.
Count(f, S) == Cardinality({i \in DOMAIN f : f[i] \in S})

LEMMA OneType == ASSUME NEW x, NEW S PROVE One(x, S) \in {0, 1} /\ One(x, S) \in Nat
BY DEF One

LEMMA FiniteEntries ==
    ASSUME NEW T, NEW q \in Seq(T), NEW S
    PROVE  IsFiniteSet({i \in DOMAIN q : q[i] \in S})
<1>1. Len(q) \in Int /\ 1 \in Int /\ DOMAIN q = 1..Len(q)
  OBVIOUS
<1>2. IsFiniteSet(1..Len(q))
  BY <1>1, FS_Interval, Zenon
<1>3. {i \in DOMAIN q : q[i] \in S} \in SUBSET (1..Len(q))
  BY <1>1
<1> QED
  BY <1>2, <1>3, FS_Subset, Zenon

LEMMA CountType == ASSUME NEW T, NEW q \in Seq(T), NEW S PROVE Count(q, S) \in Nat
BY FiniteEntries, FS_CardinalityType, Zenon DEF Count

LEMMA CountEmpty == ASSUME NEW S PROVE Count(<<>>, S) = 0
<1>1. {i \in DOMAIN <<>> : <<>>[i] \in S} = {}
  OBVIOUS
<1> QED
  BY <1>1, FS_EmptySet DEF Count

LEMMA CountOne == ASSUME NEW x, NEW S PROVE Count(<<x>>, S) = One(x, S)
<1>1. ASSUME x \in S PROVE {i \in DOMAIN <<x>> : <<x>>[i] \in S} = {1}
  BY <1>1
<1>2. ASSUME x \notin S PROVE {i \in DOMAIN <<x>> : <<x>>[i] \in S} = {}
  BY <1>2
<1>3. Cardinality({1}) = 1 /\ Cardinality({}) = 0
  BY FS_Singleton, FS_EmptySet
<1>4. CASE x \in S
  BY <1>1, <1>3, <1>4 DEF Count, One
<1>5. CASE x \notin S
  BY <1>2, <1>3, <1>5 DEF Count, One
<1> QED
  BY <1>4, <1>5

LEMMA CountConcat ==
    ASSUME NEW T, NEW q \in Seq(T), NEW r \in Seq(T), NEW S
    PROVE  Count(q \o r, S) = Count(q, S) + Count(r, S)
<1> DEFINE n == Len(q)
           A == {i \in DOMAIN q : q[i] \in S}
           B == {i \in DOMAIN r : r[i] \in S}
           C == {i \in DOMAIN (q \o r) : (q \o r)[i] \in S}
           D == {i \in (n + 1)..(n + Len(r)) : r[i - n] \in S}
<1>1. IsFiniteSet(A) /\ IsFiniteSet(B)
  BY FiniteEntries
<1>2. ExistsBijection(B, D)
  <2> DEFINE f == [i \in B |-> i + n]
  <2>1. n \in Nat /\ Len(r) \in Nat /\ B \subseteq 1..Len(r)
    OBVIOUS
  <2>2. \A i \in B : i \in Int /\ i + n \in D
    <3> SUFFICES ASSUME NEW i \in B PROVE i \in Int /\ i + n \in D
      OBVIOUS
    <3>1. i \in 1..Len(r) /\ r[i] \in S
      BY <2>1
    <3>2. i + n \in (n + 1)..(n + Len(r)) /\ (i + n) - n = i
      BY <2>1, <3>1
    <3> QED
      BY <3>1, <3>2
  <2>3. \A i, j \in B : i + n = j + n => i = j
    BY <2>1, <2>2
  <2>4. \A d \in D : d - n \in B /\ (d - n) + n = d
    <3> SUFFICES ASSUME NEW d \in D PROVE d - n \in B /\ (d - n) + n = d
      OBVIOUS
    <3>1. d \in (n + 1)..(n + Len(r)) /\ r[d - n] \in S
      OBVIOUS
    <3>2. d - n \in 1..Len(r) /\ (d - n) + n = d
      BY <2>1, <3>1
    <3>3. DOMAIN r = 1..Len(r)
      OBVIOUS
    <3> QED
      BY <3>1, <3>2, <3>3
  <2> HIDE DEF B, D, n
  <2>5. f \in [B -> D]
    BY <2>2
  <2>6. \A i, j \in B : f[i] = f[j] => i = j
    BY <2>3
  <2>7. \A d \in D : \E i \in B : f[i] = d
    <3> TAKE d \in D
    <3>1. f[d - n] = d
      BY <2>4
    <3> QED
      BY <2>4, <3>1
  <2> HIDE DEF f
  <2>8. f \in Bijection(B, D)
    <3>1. f \in Injection(B, D)
      BY <2>5, <2>6 DEF Injection, IsInjective
    <3>2. f \in Surjection(B, D)
      BY <2>5, <2>7, Zenon DEF Surjection
    <3> QED
      BY <3>1, <3>2, Zenon DEF Bijection
  <2> QED
    BY <2>8 DEF ExistsBijection
<1>3. IsFiniteSet(D) /\ Cardinality(D) = Cardinality(B)
  BY <1>1, <1>2, FS_Bijection, Zenon
<1>4. C = A \cup D /\ A \cap D = {}
  <2>1. /\ n \in Nat /\ Len(r) \in Nat /\ DOMAIN q = 1..n
        /\ DOMAIN (q \o r) = 1..(n + Len(r))
        /\ \A i \in 1..n : (q \o r)[i] = q[i]
        /\ \A i \in (n + 1)..(n + Len(r)) : (q \o r)[i] = r[i - n]
    BY ConcatProperties
  <2>2. \A i : i \in 1..(n + Len(r)) <=> i \in 1..n \/ i \in (n + 1)..(n + Len(r))
    BY <2>1
  <2>3. \A i : ~(i \in 1..n /\ i \in (n + 1)..(n + Len(r)))
    BY <2>1
  <2> QED
    BY <2>1, <2>2, <2>3
<1> HIDE DEF A, B, C, D
<1>5. Cardinality(A \cup D) = Cardinality(A) + Cardinality(D) - Cardinality(A \cap D)
  BY <1>1, <1>3, FS_Union, Zenon
<1>6. /\ Cardinality(A) \in Nat /\ Cardinality(D) \in Nat
      /\ Cardinality({}) = 0
  BY <1>1, <1>3, FS_CardinalityType, FS_EmptySet
<1>7. Cardinality(C) = Cardinality(A \cup D) /\ Cardinality(A \cap D) = 0
  BY <1>4, <1>6, Zenon
<1>8. Cardinality(C) = Cardinality(A) + Cardinality(B)
  BY <1>3, <1>5, <1>6, <1>7
<1> QED
  BY <1>8 DEF Count, A, B, C

LEMMA CountAppend ==
    ASSUME NEW T, NEW q \in Seq(T), NEW x \in T, NEW S
    PROVE  Count(Append(q, x), S) = Count(q, S) + One(x, S)
<1>1. <<x>> \in Seq(T) /\ Append(q, x) = q \o <<x>>
  OBVIOUS
<1>2. Count(q \o <<x>>, S) = Count(q, S) + Count(<<x>>, S)
  BY <1>1, CountConcat, Zenon
<1>3. Count(<<x>>, S) = One(x, S)
  BY CountOne, Zenon
<1> QED
  BY <1>1, <1>2, <1>3, Zenon

LEMMA CountHead ==
    ASSUME NEW T, NEW q \in Seq(T), q # <<>>, NEW S
    PROVE  Count(q, S) = One(Head(q), S) + Count(Tail(q), S)
<1>1. <<Head(q)>> \in Seq(T) /\ Tail(q) \in Seq(T) /\ q = <<Head(q)>> \o Tail(q)
  OBVIOUS
<1>2. Count(<<Head(q)>> \o Tail(q), S) = Count(<<Head(q)>>, S) + Count(Tail(q), S)
  BY <1>1, CountConcat, Zenon
<1>3. Count(<<Head(q)>>, S) = One(Head(q), S)
  BY CountOne, Zenon
<1> QED
  BY <1>1, <1>2, <1>3, Zenon

LEMMA CountSplit ==
    ASSUME NEW T, NEW q \in Seq(T), NEW n \in 0..Len(q), NEW S
    PROVE  Count(q, S) = Count(SubSeq(q, 1, n), S) + Count(SubSeq(q, n + 1, Len(q)), S)
<1>1. /\ SubSeq(q, 1, n) \in Seq(T) /\ SubSeq(q, n + 1, Len(q)) \in Seq(T)
      /\ q = SubSeq(q, 1, n) \o SubSeq(q, n + 1, Len(q))
  <2>1. SubSeq(q, 1, n) \in Seq(T) /\ SubSeq(q, n + 1, Len(q)) \in Seq(T)
    BY SubSeqProperties
  <2>2. SubSeq(q, 1, n) \o SubSeq(q, n + 1, Len(q)) = SubSeq(q, 1, Len(q))
    <3>1. /\ 1 \in 1..(Len(q) + 1) /\ n \in (1 - 1)..Len(q) /\ Len(q) \in n..Len(q)
      OBVIOUS
    <3> QED
      BY <3>1, ConcatAdjacentSubSeq, Zenon
  <2>3. SubSeq(q, 1, Len(q)) = q
    BY SubSeqFull
  <2> QED
    BY <2>1, <2>2, <2>3
<1>2. Count(SubSeq(q, 1, n) \o SubSeq(q, n + 1, Len(q)), S)
        = Count(SubSeq(q, 1, n), S) + Count(SubSeq(q, n + 1, Len(q)), S)
  BY <1>1, CountConcat
<1> QED
  BY <1>1, <1>2

LEMMA CountZero ==
    ASSUME NEW T, NEW q \in Seq(T), NEW S
    PROVE  Count(q, S) = 0 <=> \A i \in DOMAIN q : q[i] \notin S
<1>1. IsFiniteSet({i \in DOMAIN q : q[i] \in S})
  BY FiniteEntries
<1>2. Cardinality({i \in DOMAIN q : q[i] \in S}) = 0 <=> {i \in DOMAIN q : q[i] \in S} = {}
  BY <1>1, FS_EmptySet
<1> QED
  BY <1>2 DEF Count

LEMMA FiniteSlots ==
    ASSUME NEW f, DOMAIN f = Handles, NEW S
    PROVE  IsFiniteSet({h \in DOMAIN f : f[h] \in S})
<1>1. IsFiniteSet(Handles)
  <2>1. 0 \in Int /\ MaxSockets - 1 \in Int
    BY BoundAssumption
  <2> QED
    BY <2>1, FS_Interval, Zenon DEF Handles
<1>2. {h \in DOMAIN f : f[h] \in S} \in SUBSET Handles
  OBVIOUS
<1> QED
  BY <1>1, <1>2, FS_Subset, Zenon

\* What an update of one slot does to a count.
LEMMA CountSlot ==
    ASSUME NEW f, DOMAIN f = Handles, NEW g, DOMAIN g = Handles, NEW h \in Handles,
           \A k \in Handles : k # h => g[k] = f[k], NEW S
    PROVE  Count(g, S) + One(f[h], S) = Count(f, S) + One(g[h], S)
<1> DEFINE A == {k \in Handles : k # h /\ f[k] \in S}
           F == {k \in DOMAIN f : f[k] \in S}
           G == {k \in DOMAIN g : g[k] \in S}
<1>2. IsFiniteSet(F) /\ IsFiniteSet(G)
  BY FiniteSlots
<1>3. A \in SUBSET F /\ h \notin A
  OBVIOUS
<1>4. IsFiniteSet(A)
  BY <1>2, <1>3, FS_Subset, Zenon
<1>5. IsFiniteSet(A \cup {h}) /\ Cardinality(A \cup {h}) = Cardinality(A) + 1
  BY <1>3, <1>4, FS_AddElement
<1>6. (f[h] \in S => F = A \cup {h}) /\ (f[h] \notin S => F = A)
  OBVIOUS
<1>7. (g[h] \in S => G = A \cup {h}) /\ (g[h] \notin S => G = A)
  OBVIOUS
<1>8. Cardinality(A) \in Nat
  BY <1>4, FS_CardinalityType
<1> HIDE DEF A, F, G
<1>9. Cardinality(F) = Cardinality(A) + One(f[h], S)
  <2>1. CASE f[h] \in S
    BY <1>5, <1>6, <2>1 DEF One
  <2>2. CASE f[h] \notin S
    BY <1>6, <1>8, <2>2 DEF One
  <2> QED
    BY <2>1, <2>2
<1>10. Cardinality(G) = Cardinality(A) + One(g[h], S)
  <2>1. CASE g[h] \in S
    BY <1>5, <1>7, <2>1 DEF One
  <2>2. CASE g[h] \notin S
    BY <1>7, <1>8, <2>2 DEF One
  <2> QED
    BY <2>1, <2>2
<1>11. Count(f, S) = Cardinality(F) /\ Count(g, S) = Cardinality(G)
  BY DEF Count, F, G
<1>12. One(g[h], S) \in Nat /\ One(f[h], S) \in Nat
  BY OneType
<1> QED
  BY <1>8, <1>9, <1>10, <1>11, <1>12

LEMMA CountSlotsZero ==
    ASSUME NEW f, DOMAIN f = Handles, NEW S
    PROVE  /\ Count(f, S) \in Nat
           /\ Count(f, S) = 0 <=> \A h \in Handles : f[h] \notin S
<1>1. IsFiniteSet({h \in DOMAIN f : f[h] \in S})
  BY FiniteSlots
<1>2. /\ Cardinality({h \in DOMAIN f : f[h] \in S}) = 0 <=> {h \in DOMAIN f : f[h] \in S} = {}
      /\ Cardinality({h \in DOMAIN f : f[h] \in S}) \in Nat
  BY <1>1, FS_EmptySet, FS_CardinalityType
<1> QED
  BY <1>2 DEF Count

-----------------------------------------------------------------------------
(* What a socket holds *)

\* Everything that can be sent or woken.
Tokens == Wakers \ {NoWaker}

LEMMA EventIsToken == Events \subseteq Tokens
BY DEF Events, Tokens, Wakers, NoWaker, EventTypes, OpTypes

Rws(ss) == [h \in Handles |-> ss[h].rw]
Tws(ss) == [h \in Handles |-> ss[h].tw]

AtSlot(s, S) == One(s.rw, S) + One(s.tw, S)
Parked(ss, S) == Count(Rws(ss), S) + Count(Tws(ss), S)

LEMMA ParkedType ==
    ASSUME NEW ss, NEW S
    PROVE  /\ Parked(ss, S) \in Nat
           /\ Parked(ss, S) = 0 <=> \A h \in Handles : ss[h].rw \notin S /\ ss[h].tw \notin S
<1>1. /\ DOMAIN Rws(ss) = Handles /\ DOMAIN Tws(ss) = Handles
      /\ \A h \in Handles : Rws(ss)[h] = ss[h].rw /\ Tws(ss)[h] = ss[h].tw
  BY DEF Rws, Tws
<1>2. /\ Count(Rws(ss), S) \in Nat /\ Count(Tws(ss), S) \in Nat
      /\ Count(Rws(ss), S) = 0 <=> \A h \in Handles : Rws(ss)[h] \notin S
      /\ Count(Tws(ss), S) = 0 <=> \A h \in Handles : Tws(ss)[h] \notin S
  BY <1>1, CountSlotsZero, Zenon
<1> QED
  BY <1>1, <1>2 DEF Parked

LEMMA AtSlotType == ASSUME NEW s, NEW S PROVE AtSlot(s, S) \in Nat
BY OneType DEF AtSlot

\* A step of one slot.
LEMMA ParkedSlot ==
    ASSUME NEW ss, NEW tt, NEW h \in Handles,
           \A k \in Handles : k # h => tt[k] = ss[k], NEW S
    PROVE  Parked(tt, S) + AtSlot(ss[h], S) = Parked(ss, S) + AtSlot(tt[h], S)
<1>2. DOMAIN Rws(ss) = Handles /\ DOMAIN Tws(ss) = Handles
  BY DEF Rws, Tws
<1>3. /\ DOMAIN Rws(tt) = Handles /\ DOMAIN Tws(tt) = Handles
      /\ \A k \in Handles : k # h => Rws(tt)[k] = Rws(ss)[k] /\ Tws(tt)[k] = Tws(ss)[k]
  BY DEF Rws, Tws
<1>4. /\ Rws(ss)[h] = ss[h].rw /\ Tws(ss)[h] = ss[h].tw
      /\ Rws(tt)[h] = tt[h].rw /\ Tws(tt)[h] = tt[h].tw
  BY DEF Rws, Tws
<1>5. /\ Count(Rws(tt), S) + One(ss[h].rw, S) = Count(Rws(ss), S) + One(tt[h].rw, S)
      /\ Count(Tws(tt), S) + One(ss[h].tw, S) = Count(Tws(ss), S) + One(tt[h].tw, S)
  <2>1. Count(Rws(tt), S) + One(Rws(ss)[h], S) = Count(Rws(ss), S) + One(Rws(tt)[h], S)
    BY <1>2, <1>3, CountSlot
  <2>2. Count(Tws(tt), S) + One(Tws(ss)[h], S) = Count(Tws(ss), S) + One(Tws(tt)[h], S)
    BY <1>2, <1>3, CountSlot
  <2> QED
    BY <1>4, <2>1, <2>2
<1>6. /\ Count(Rws(tt), S) \in Nat /\ Count(Rws(ss), S) \in Nat
      /\ Count(Tws(tt), S) \in Nat /\ Count(Tws(ss), S) \in Nat
  BY CountSlotsZero DEF Rws, Tws
<1>7. /\ One(ss[h].rw, S) \in Nat /\ One(ss[h].tw, S) \in Nat
      /\ One(tt[h].rw, S) \in Nat /\ One(tt[h].tw, S) \in Nat
  BY OneType
<1> QED
  BY <1>5, <1>6, <1>7 DEF Parked, AtSlot

-----------------------------------------------------------------------------
(* Where drive_once keeps events, and what an empty slot holds *)

\* In phase p, what drive_once is done with, or has not got to yet, is empty.
Phases(p, b, te, ue) ==
    /\ p \in {"idle", "tcp", "udp"} => b = <<>>
    /\ p \in {"idle", "egress", "udp"} => te = <<>>
    /\ p \in {"idle", "egress"} => ue = <<>>

\* An empty slot holds no wakers; a waker is in the slot that it names, and in
\* its direction.
RecvTypes == {"Read", "Recv", "Ready", "Close"}
SendTypes == {"Write", "Send", "Ready", "ShutdownDone"}

TidySlot(s, h) ==
    /\ s.kind = "none" => s.rw = NoWaker /\ s.tw = NoWaker
    /\ s.rw # NoWaker => s.rw.h = h /\ s.rw.type \in RecvTypes
    /\ s.tw # NoWaker => s.tw.h = h /\ s.tw.type \in SendTypes

TidySlots(ss) == \A h \in Handles : TidySlot(ss[h], h)

Tidy == Phases(phase, batch, tcp_events, udp_events) /\ TidySlots(sockets)

LEMMA NextPhaseTidy ==
    ASSUME NEW b, NEW te, NEW ue
    PROVE  Phases(NextPhase(b, te, ue), b, te, ue)
BY DEF NextPhase, Phases

\* Poll and close() only wake: a waker stays or is taken out.
OnlyWakes(s, t) ==
    /\ t.kind = s.kind /\ t.id = s.id
    /\ t.rw \in {s.rw, NoWaker}
    /\ t.tw \in {s.tw, NoWaker}

LEMMA WakeSteps ==
    ASSUME NEW s \in Sockets, NEW c, NEW seg
    PROVE  /\ OnlyWakes(s, Process(s, c, seg)) /\ OnlyWakes(s, Expire(s))
           /\ OnlyWakes(s, Datagram(s)) /\ OnlyWakes(s, Transmit(s))
           /\ OnlyWakes(s, TcpClose(s)) /\ OnlyWakes(s, UdpClose(s))
<1>1. OnlyWakes(s, Process(s, c, seg)) /\ OnlyWakes(s, Expire(s))
  BY DEF OnlyWakes, Process, Expire, SetState, Sockets
<1>2. OnlyWakes(s, Datagram(s)) /\ OnlyWakes(s, Transmit(s))
  BY DEF OnlyWakes, Datagram, Transmit, Sockets
<1>3. OnlyWakes(s, TcpClose(s)) /\ OnlyWakes(s, UdpClose(s))
  BY DEF OnlyWakes, TcpClose, UdpClose, SetState, Sockets
<1> QED
  BY <1>1, <1>2, <1>3

LEMMA SlotTidy ==
    ASSUME NEW ss \in [Handles -> Sockets], TidySlots(ss), NEW h \in Handles, NEW t, TidySlot(t, h)
    PROVE  TidySlots([ss EXCEPT ![h] = t])
BY DEF TidySlots

LEMMA WokenTidy ==
    ASSUME NEW ss \in [Handles -> Sockets], TidySlots(ss), NEW h \in Handles, NEW t,
           OnlyWakes(ss[h], t)
    PROVE  TidySlots([ss EXCEPT ![h] = t])
<1>1. TidySlot(t, h)
  BY DEF TidySlots, TidySlot, OnlyWakes
<1> QED
  BY <1>1, SlotTidy

LEMMA BeginTidy ==
    ASSUME Tidy, NEW n, NEW ss, NEW sent, Begin(n, ss, sent), TidySlots(ss)
    PROVE  Tidy'
<1>1. tcp_events = <<>> /\ udp_events = <<>>
  BY DEF Begin, Tidy, Phases
<1>2. Phases(NextPhase(SubSeq(queue, 1, n), <<>>, <<>>), SubSeq(queue, 1, n), <<>>, <<>>)
  BY NextPhaseTidy
<1>3. Phases("egress", SubSeq(queue, 1, n), <<>>, <<>>)
  BY DEF Phases
<1> QED
  BY <1>1, <1>2, <1>3 DEF Begin, Tidy

LEMMA DriveTidy == ASSUME Typed, Tidy, Drive PROVE Tidy'
<1>0. sockets \in [Handles -> Sockets] /\ TidySlots(sockets)
  BY DEF Typed, SocketTypes, Tidy
<1>1. PICK n \in Batches :
        \/ \E c \in Conns : DriveSyn(c, n)
        \/ \E c \in Conns, seg \in Segments : DriveSegment(c, seg, n)
        \/ \E d \in UdpAddrs : DriveDatagram(d, n)
        \/ \E d \in UdpAddrs : DriveNewUdp(d, n)
        \/ DriveOnly(n)
        \/ \E k \in Handles : DriveExpire(k, n)
        \/ \E d \in TcpAddrs \cup UdpAddrs : DriveRefused(d, n)
        \/ \E d \in UdpAddrs : DriveUnannounced(d, n)
  BY DEF Drive
<1>2. ASSUME NEW c \in Conns, DriveSyn(c, n) PROVE Tidy'
  <2>1. PICK h \in Handles, k \in Handles :
          LET new == [kind |-> "tcp", h |-> h, id |-> next_id]
              added == [sockets EXCEPT ![h] =
                          ReadyOnSend(TcpListener(next_id, c[2]),
                                      Event("Ready", new, None))]
              polled == Process(added[k], c, "SYN")
          IN  Begin(n, [added EXCEPT ![k] = polled], Sends(added[k], polled))
    BY <1>2 DEF DriveSyn
  <2> DEFINE e == Event("Ready", [kind |-> "tcp", h |-> h, id |-> next_id], None)
             l == ReadyOnSend(TcpListener(next_id, c[2]), e)
             added == [sockets EXCEPT ![h] = l]
             polled == Process(added[k], c, "SYN")
  <2>2. l \in Sockets
    <3>1. next_id \in Ids
      BY <1>2, NewId DEF Typed, DriveSyn
    <3>2. e \in Wakers
      BY <3>1, ReadyType, EventIsWaker DEF Kinds
    <3>3. c[2] \in TcpAddrs
      BY DEF Conns
    <3> QED
      BY <3>1, <3>2, <3>3, NewSocketType
  <2>3. TidySlot(l, h)
    BY DEF TidySlot, SendTypes, Event, ReadyOnSend, TcpListener, NoSocket
  <2> HIDE DEF l
  <2>4. added \in [Handles -> Sockets] /\ TidySlots(added)
    BY <1>0, <2>2, <2>3, SlotTidy
  <2> HIDE DEF added
  <2>5. OnlyWakes(added[k], polled)
    BY <2>4, WakeSteps
  <2> HIDE DEF polled
  <2>6. TidySlots([added EXCEPT ![k] = polled])
    BY <2>4, <2>5, WokenTidy
  <2>7. Begin(n, [added EXCEPT ![k] = polled], Sends(added[k], polled))
    BY <2>1 DEF added, polled, l
  <2> QED
    BY <2>6, <2>7, BeginTidy
<1>3. ASSUME NEW k \in Handles, NEW t, NEW sent, OnlyWakes(sockets[k], t),
             Begin(n, [sockets EXCEPT ![k] = t], sent)
      PROVE  Tidy'
  BY <1>0, <1>3, WokenTidy, BeginTidy
<1>4. ASSUME NEW c \in Conns, NEW seg, DriveSegment(c, seg, n) PROVE Tidy'
  <2>1. PICK k \in Handles :
          Begin(n, [sockets EXCEPT ![k] = Process(sockets[k], c, seg)],
                Sends(sockets[k], Process(sockets[k], c, seg)))
    BY <1>4 DEF DriveSegment
  <2>2. OnlyWakes(sockets[k], Process(sockets[k], c, seg))
    BY <1>0, WakeSteps
  <2> QED
    BY <1>3, <2>1, <2>2
<1>5. ASSUME NEW d \in UdpAddrs, DriveDatagram(d, n) PROVE Tidy'
  <2>1. PICK k \in Handles :
          Begin(n, [sockets EXCEPT ![k] = Datagram(sockets[k])],
                Sends(sockets[k], Datagram(sockets[k])))
    BY <1>5 DEF DriveDatagram
  <2>2. OnlyWakes(sockets[k], Datagram(sockets[k]))
    BY <1>0, WakeSteps
  <2> QED
    BY <1>3, <2>1, <2>2
<1>6. ASSUME NEW d, DriveNewUdp(d, n) PROVE Tidy'
  <2> DEFINE t == Datagram(UdpBound(next_id, d))
  <2>1. PICK h \in Handles :
          Begin(n, [sockets EXCEPT ![h] = t],
                <<Event("Ready", [kind |-> "udp", h |-> h, id |-> next_id], None)>>)
    BY <1>6 DEF DriveNewUdp
  <2>2. TidySlot(t, h)
    BY DEF TidySlot, Datagram, UdpBound, NoSocket
  <2> HIDE DEF t
  <2>3. TidySlots([sockets EXCEPT ![h] = t])
    BY <1>0, <2>2, SlotTidy
  <2> QED
    BY <2>1, <2>3, BeginTidy
<1>7. ASSUME DriveOnly(n) PROVE Tidy'
  BY <1>0, <1>7, BeginTidy DEF DriveOnly
<1>8. ASSUME NEW k \in Handles, DriveExpire(k, n) PROVE Tidy'
  <2>1. OnlyWakes(sockets[k], Expire(sockets[k]))
    BY <1>0, WakeSteps
  <2> QED
    BY <1>3, <1>8, <2>1 DEF DriveExpire
<1>9. ASSUME NEW d, DriveRefused(d, n) PROVE Tidy'
  BY <1>9 DEF DriveRefused, Fail, sockVars, driveVars, Tidy
<1>10. ASSUME NEW d, DriveUnannounced(d, n) PROVE Tidy'
  <2> DEFINE t == UdpBound(next_id, d)
  <2>1. PICK h \in Handles : sockets' = [sockets EXCEPT ![h] = t]
    BY <1>10 DEF DriveUnannounced
  <2>2. TidySlot(t, h)
    BY DEF TidySlot, UdpBound, NoSocket
  <2> HIDE DEF t
  <2>3. TidySlots(sockets')
    BY <1>0, <2>1, <2>2, SlotTidy
  <2> QED
    BY <1>10, <2>3 DEF DriveUnannounced, Fail, driveVars, Tidy
<1> QED
  BY <1>1, <1>2, <1>4, <1>5, <1>6, <1>7, <1>8, <1>9, <1>10

LEMMA DispatchTidy ==
    ASSUME NEW e, NEW te, NEW ue, Dispatch(e, te, ue)
    PROVE  Phases(phase, batch, tcp_events, udp_events)'
BY NextPhaseTidy DEF Dispatch

LEMMA FreeTidy == ASSUME NEW how, Free(how) PROVE Tidy'
<1>1. Phases(phase', batch', tcp_events', udp_events')
  BY DEF Free, Phases
<1>2. TidySlots(sockets')
  BY DEF Free, TidySlots, TidySlot, NoSocket
<1> QED
  BY <1>1, <1>2 DEF Tidy

LEMMA RegisteredKind ==
    ASSUME Safe, NEW e \in Events, Registered(e)
    PROVE  sockets[e.h].kind = e.kind /\ e.kind \in Kinds /\ sockets[e.h].kind # "none"
BY DEF Safe, Tables, Describe, Registered, Events, Kinds

LEMMA HandleEventTidy ==
    ASSUME Typed, Safe, Tidy, NEW e \in Events, HandleEvent(e)
    PROVE  Tidy'
<1>0. /\ sockets \in [Handles -> Sockets] /\ TidySlots(sockets)
      /\ e.h \in Handles /\ sockets[e.h] \in Sockets
  BY DEF Typed, SocketTypes, Tidy, Events
<1>1. ASSUME Defer(e) PROVE Tidy'
  BY <1>1, DispatchTidy DEF Defer, Tidy, sockVars
<1>2. ASSUME ReadyNotYet(e) PROVE Tidy'
  <2>1. sockets' = [sockets EXCEPT ![e.h] = [sockets[e.h] EXCEPT !.rw = e]]
    BY <1>2 DEF ReadyNotYet
  <2>2. TidySlot([sockets[e.h] EXCEPT !.rw = e], e.h)
    BY <1>0, <1>2 DEF ReadyNotYet, Sockets, TidySlots, TidySlot, RecvTypes
  <2>3. TidySlots(sockets')
    BY <1>0, <2>1, <2>2, SlotTidy
  <2> QED
    BY <1>2, <2>3, DispatchTidy DEF ReadyNotYet, Handle, Tidy
<1>3. ASSUME Announce(e) PROVE Tidy'
  BY <1>3, DispatchTidy DEF Announce, Handle, Tidy, sockVars
<1>4. ASSUME ReadyPanic(e) PROVE Tidy'
  BY <1>4, FreeTidy DEF ReadyPanic
<1>5. ASSUME HandleShutdown(e) PROVE Tidy'
  <2> DEFINE s == [sockets[e.h] EXCEPT !.tw = [e EXCEPT !.type = "ShutdownDone"]]
  <2>1. Registered(e) => TidySlot(s, e.h)
    <3>1. [e EXCEPT !.type = "ShutdownDone"].type = "ShutdownDone"
          /\ [e EXCEPT !.type = "ShutdownDone"].h = e.h
      BY DEF Events
    <3> QED
      BY <1>0, <3>1, RegisteredKind DEF Sockets, TidySlots, TidySlot, SendTypes
  <2>2. s \in Sockets
    <3>1. [e EXCEPT !.type = "ShutdownDone"] \in Wakers
      BY DEF Events, Wakers
    <3> QED
      BY <1>0, <3>1 DEF Sockets
  <2> HIDE DEF s
  <2>3. OnlyWakes(s, TcpClose(s))
    BY <2>2, WakeSteps
  <2>4. CASE Registered(e)
    <3>1. sockets' = [sockets EXCEPT ![e.h] = TcpClose(s)]
      BY <1>5, <2>4 DEF HandleShutdown, s
    <3>2. TidySlot(TcpClose(s), e.h)
      BY <2>1, <2>3, <2>4 DEF TidySlot, OnlyWakes
    <3>3. TidySlots(sockets')
      BY <1>0, <3>1, <3>2, SlotTidy
    <3> QED
      BY <1>5, <3>3, DispatchTidy DEF HandleShutdown, Handle, Tidy
  <2>5. CASE ~Registered(e)
    BY <1>0, <1>5, <2>5, DispatchTidy DEF HandleShutdown, Handle, Tidy
  <2> QED
    BY <2>4, <2>5
<1>6. ASSUME HandleClose(e) PROVE Tidy'
  <2> DEFINE s == sockets[e.h]
             x == IF e.kind = "tcp" THEN TcpClose(s) ELSE UdpClose(s)
  <2>1. OnlyWakes(s, x) /\ x \in Sockets
    BY <1>0, WakeSteps, TcpCloseType, UdpCloseType
  <2> HIDE DEF x
  <2>2. \/ UNCHANGED <<sockets, socket_handles, accepted_udp_sockets, queue, ops>>
        \/ Registered(e) /\ AwaitInactive(e, x)
        \/ Remove(e, x)
    BY <1>6 DEF HandleClose, x
  <2>3. TidySlots(sockets')
    <3>1. CASE Registered(e) /\ AwaitInactive(e, x)
      <4>1. TidySlot([x EXCEPT !.rw = e], e.h)
        <5>1. s.kind # "none" /\ TidySlot(s, e.h) /\ e.type = "Close"
          BY <1>0, <1>6, <3>1, RegisteredKind DEF TidySlots, HandleClose
        <5> QED
          BY <2>1, <5>1 DEF Sockets, OnlyWakes, TidySlot, RecvTypes
      <4> QED
        BY <1>0, <3>1, <4>1, SlotTidy DEF AwaitInactive
    <3>2. CASE Remove(e, x)
      <4>1. TidySlot(NoSocket, e.h)
        BY DEF NoSocket, TidySlot
      <4> QED
        BY <1>0, <3>2, <4>1, SlotTidy DEF Remove
    <3> QED
      BY <1>0, <2>2, <3>1, <3>2
  <2> QED
    BY <1>6, <2>3, DispatchTidy DEF HandleClose, Handle, Tidy
<1> QED
  BY <1>1, <1>2, <1>3, <1>4, <1>5, <1>6 DEF HandleEvent

\* The ways in which an operation of phase "tcp" or "udp" ends or waits: r is
\* the result that it gets, or it is parked in one direction.
Outcome(e) ==
    \/ \E r \in {"ok", "eof", "err"} : Answer(e, r)
    \/ \E rx, tx \in Nat, r \in {"ok", "eof", "err"} : Move(e, rx, tx, r)
    \/ Registered(e) /\ e.type \in {"Read", "Recv"} /\ ParkRecv(e)
    \/ Registered(e) /\ e.type \in {"Write", "Send"} /\ ParkSend(e)

LEMMA HandleOpOutcome ==
    ASSUME Typed, NEW e, HandleOp(e)
    PROVE  e \in Events /\ (TcpEvent(e) \/ UdpEvent(e)) /\ Outcome(e)
<1>1. TcpEvent(e) \/ UdpEvent(e)
  BY DEF HandleOp, NotFound, HandleRead, HandleWrite, HandleRecv, HandleSend
<1>2. e \in Events
  BY <1>1, OpEventTyped
<1> DEFINE s == sockets[e.h]
<1>3. s.rx \in Nat /\ s.tx \in Nat /\ TxCap \in Nat
  BY <1>2, CapAssumption DEF Typed, SocketTypes, Events, Sockets
<1>4. ASSUME HandleRead(e) PROVE Outcome(e)
  <2>1. \A left \in 0..(s.rx - 1) : left \in Nat
    BY <1>3
  <2> QED
    BY <1>3, <1>4, <2>1 DEF HandleRead, Outcome
<1>5. ASSUME HandleWrite(e) PROVE Outcome(e)
  <2>1. \A tx \in (s.tx + 1)..TxCap : tx \in Nat
    BY <1>3
  <2> QED
    BY <1>3, <1>5, <2>1 DEF HandleWrite, Outcome
<1>6. ASSUME HandleRecv(e) PROVE Outcome(e)
  <2>1. s.rx > 0 => s.rx - 1 \in Nat
    BY <1>3
  <2> QED
    BY <1>3, <1>6, <2>1 DEF HandleRecv, Outcome
<1>7. ASSUME HandleSend(e) PROVE Outcome(e)
  <2>1. s.tx + 1 \in Nat
    BY <1>3
  <2> QED
    BY <1>3, <1>7, <2>1 DEF HandleSend, Outcome
<1>8. ASSUME NotFound(e) PROVE Outcome(e)
  BY <1>8 DEF NotFound, Outcome
<1> QED
  BY <1>1, <1>2, <1>4, <1>5, <1>6, <1>7, <1>8 DEF HandleOp

LEMMA HandleOpTidy == ASSUME Typed, Safe, Tidy, NEW e, HandleOp(e) PROVE Tidy'
<1>1. e \in Events /\ (TcpEvent(e) \/ UdpEvent(e)) /\ Outcome(e)
  BY HandleOpOutcome
<1>2. Phases(phase', batch', tcp_events', udp_events')
  <2>1. CASE TcpEvent(e)
    <3>1. batch = <<>>
      BY <2>1 DEF TcpEvent, Tidy, Phases
    <3>2. Phases(phase', <<>>, tcp_events', udp_events)
      BY <2>1, NextPhaseTidy DEF TcpEvent
    <3> QED
      BY <2>1, <3>1, <3>2 DEF TcpEvent
  <2>2. CASE UdpEvent(e)
    <3>1. batch = <<>> /\ tcp_events = <<>>
      BY <2>2 DEF UdpEvent, Tidy, Phases
    <3>2. Phases(phase', <<>>, <<>>, udp_events')
      BY <2>2, NextPhaseTidy DEF UdpEvent
    <3> QED
      BY <2>2, <3>1, <3>2 DEF UdpEvent
  <2> QED
    BY <1>1, <2>1, <2>2
<1>3. /\ sockets \in [Handles -> Sockets] /\ TidySlots(sockets)
      /\ e.h \in Handles /\ sockets[e.h] \in Sockets
  BY <1>1 DEF Typed, SocketTypes, Tidy, Events
<1>4. TidySlots(sockets')
  <2>1. ASSUME NEW r, Answer(e, r) PROVE TidySlots(sockets')
    BY <1>3, <2>1 DEF Answer
  <2>2. ASSUME NEW rx, NEW tx, NEW r, Move(e, rx, tx, r) PROVE TidySlots(sockets')
    <3> DEFINE t == [[sockets[e.h] EXCEPT !.rx = rx] EXCEPT !.tx = tx]
    <3>1. sockets' = [sockets EXCEPT ![e.h] = t]
      BY <1>3, <2>2 DEF Move
    <3>2. t.kind = sockets[e.h].kind /\ t.rw = sockets[e.h].rw /\ t.tw = sockets[e.h].tw
      BY <1>3 DEF Sockets
    <3> HIDE DEF t
    <3>3. TidySlot(t, e.h)
      BY <1>3, <3>2 DEF TidySlots, TidySlot
    <3> QED
      BY <1>3, <3>1, <3>3, SlotTidy
  <2>3. ASSUME Registered(e), e.type \in {"Read", "Recv"}, ParkRecv(e) PROVE TidySlots(sockets')
    <3>1. TidySlot([sockets[e.h] EXCEPT !.rw = e], e.h)
      BY <1>1, <1>3, <2>3, RegisteredKind DEF Sockets, TidySlots, TidySlot, RecvTypes
    <3>2. sockets' = [sockets EXCEPT ![e.h] = [sockets[e.h] EXCEPT !.rw = e]]
      BY <2>3 DEF ParkRecv
    <3> QED
      BY <1>3, <3>1, <3>2, SlotTidy
  <2>4. ASSUME Registered(e), e.type \in {"Write", "Send"}, ParkSend(e) PROVE TidySlots(sockets')
    <3>1. TidySlot([sockets[e.h] EXCEPT !.tw = e], e.h)
      BY <1>1, <1>3, <2>4, RegisteredKind DEF Sockets, TidySlots, TidySlot, SendTypes
    <3>2. sockets' = [sockets EXCEPT ![e.h] = [sockets[e.h] EXCEPT !.tw = e]]
      BY <2>4 DEF ParkSend
    <3> QED
      BY <1>3, <3>1, <3>2, SlotTidy
  <2> QED
    BY <1>1, <2>1, <2>2, <2>3, <2>4 DEF Outcome
<1> QED
  BY <1>2, <1>4 DEF Tidy

LEMMA InitTidy == Init => Tidy
<1> SUFFICES ASSUME Init PROVE Tidy
  OBVIOUS
<1>1. Phases(phase, batch, tcp_events, udp_events)
  BY DEF Init, Phases
<1>2. TidySlots(sockets)
  BY DEF Init, TidySlots, TidySlot, NoSocket
<1> QED
  BY <1>1, <1>2 DEF Tidy

LEMMA NextTidy == Typed /\ Safe /\ Tidy /\ [Next]_vars => Tidy'
<1> SUFFICES ASSUME Typed, Safe, Tidy, [Next]_vars PROVE Tidy'
  OBVIOUS
<1>1. CASE Drive
  BY <1>1, DriveTidy
<1>2. ASSUME NEW h \in Handles, Egress(h) PROVE Tidy'
  <2>1. sockets \in [Handles -> Sockets] /\ TidySlots(sockets)
    BY DEF Typed, SocketTypes, Tidy
  <2>2. OnlyWakes(sockets[h], Transmit(sockets[h]))
    BY <2>1, WakeSteps
  <2>3. TidySlots(sockets')
    BY <1>2, <2>1, <2>2, WokenTidy DEF Egress
  <2>4. tcp_events = <<>> /\ udp_events = <<>>
    BY <1>2 DEF Egress, Tidy, Phases
  <2>5. Phases("egress", batch, <<>>, <<>>)
    BY DEF Phases
  <2>6. Phases(phase', batch, <<>>, <<>>)
    BY <1>2, <2>5, NextPhaseTidy DEF Egress
  <2> QED
    BY <1>2, <2>3, <2>4, <2>6 DEF Egress, Tidy
<1>3. CASE Step
  BY <1>2, <1>3, HeadOfBatch, HandleEventTidy, HandleOpTidy DEF Step
<1>4. CASE User
  <2>1. UNCHANGED sockVars /\ UNCHANGED driveVars
    BY <1>4 DEF User, Accept, Issue, Cancel, DropStream
  <2> QED
    BY <2>1 DEF sockVars, driveVars, Tidy
<1>5. CASE Drops
  <2>1. (UNCHANGED sockVars /\ UNCHANGED driveVars) \/ Free("dropped")
    BY <1>5 DEF Drops, DropAcceptor, DropGenerator, DropStack, Discard
  <2> QED
    BY <2>1, FreeTidy DEF sockVars, driveVars, Tidy
<1>6. CASE UNCHANGED vars
  BY <1>6 DEF vars, sockVars, driveVars, Tidy
<1> QED
  BY <1>1, <1>3, <1>4, <1>5, <1>6 DEF Next

-----------------------------------------------------------------------------
(* The ledger *)

\* How many events and wakers of the set S drive_once holds, and all together.
Aside(S) == Count(batch, S) + Count(tcp_events, S) + Count(udp_events, S)
Held(S) == Count(queue, S) + Aside(S) + Parked(sockets, S)

\* A step loses the entries of gone; besides, it takes event e away and makes
\* event w (NoWaker: nothing).
Ledger(gone, e, w) ==
    \A S \in SUBSET Tokens : Held(S)' + Count(gone, S) + One(e, S) = Held(S) + One(w, S)

LEMMA HeldType ==
    ASSUME Typed, NEW S
    PROVE  /\ Held(S) \in Nat
           /\ Count(queue, S) \in Nat /\ Count(batch, S) \in Nat
           /\ Count(tcp_events, S) \in Nat /\ Count(udp_events, S) \in Nat
           /\ Aside(S) \in Nat /\ Parked(sockets, S) \in Nat
<1>1. /\ Count(queue, S) \in Nat /\ Count(batch, S) \in Nat
      /\ Count(tcp_events, S) \in Nat /\ Count(udp_events, S) \in Nat
  BY CountType DEF Typed, FlowTypes
<1>2. Parked(sockets, S) \in Nat
  BY ParkedType
<1> QED
  BY <1>1, <1>2 DEF Held, Aside

LEMMA HeldAfter == ASSUME FlowTypes', NEW S PROVE Held(S)' \in Nat
<1>1. /\ Count(queue', S) \in Nat /\ Count(batch', S) \in Nat
      /\ Count(tcp_events', S) \in Nat /\ Count(udp_events', S) \in Nat
      /\ Parked(sockets', S) \in Nat
  BY CountType, ParkedType DEF FlowTypes
<1> QED
  BY <1>1 DEF Held, Aside

\* The closure of w is lost: the waker is woken and sends no event.
Silenced(w) == IF generator /\ w.type \in EventTypes THEN <<>> ELSE <<w>>
Silent(s, t) == Silenced(WokenRw(s, t)) \o Silenced(WokenTw(s, t))

LEMMA NoWakerOutside == ASSUME NEW S \in SUBSET Tokens PROVE One(NoWaker, S) = 0
BY DEF One, Tokens

\* What is woken is sent or lost.
LEMMA WakeLedger ==
    ASSUME NEW s \in Sockets, NEW t \in Sockets, OnlyWakes(s, t), NEW S \in SUBSET Tokens
    PROVE  /\ Silent(s, t) \in Seq(Wakers) /\ Sends(s, t) \in Seq(Wakers)
           /\ Count(Silent(s, t), S) \in Nat /\ Count(Sends(s, t), S) \in Nat
           /\ Count(Sends(s, t), S) + Count(Silent(s, t), S) + AtSlot(t, S) = AtSlot(s, S)
<1>1. ASSUME NEW w \in Wakers
      PROVE  /\ WakeSend(w) \in Seq(Wakers) /\ Silenced(w) \in Seq(Wakers)
             /\ Count(WakeSend(w), S) + Count(Silenced(w), S) = One(w, S)
  <2>1. WakeSend(w) \in Seq(Wakers) /\ Silenced(w) \in Seq(Wakers)
    BY DEF WakeSend, Silenced
  <2>2. Count(<<>>, S) = 0 /\ Count(<<w>>, S) = One(w, S) /\ One(w, S) \in Nat
    BY CountEmpty, CountOne, OneType
  <2>3. \/ WakeSend(w) = <<w>> /\ Silenced(w) = <<>>
        \/ WakeSend(w) = <<>> /\ Silenced(w) = <<w>>
    BY DEF WakeSend, Silenced
  <2>4. CASE WakeSend(w) = <<w>> /\ Silenced(w) = <<>>
    BY <2>1, <2>2, <2>4
  <2>5. CASE WakeSend(w) = <<>> /\ Silenced(w) = <<w>>
    BY <2>1, <2>2, <2>5
  <2> QED
    BY <2>3, <2>4, <2>5
<1> DEFINE v == WokenRw(s, t)
           w == WokenTw(s, t)
<1>2. v \in Wakers /\ w \in Wakers
  BY NoSocketType DEF WokenRw, WokenTw, Sockets
<1>3. /\ One(v, S) + One(t.rw, S) = One(s.rw, S)
      /\ One(w, S) + One(t.tw, S) = One(s.tw, S)
  <2>1. One(NoWaker, S) = 0
    BY NoWakerOutside
  <2>2. (v = s.rw /\ t.rw = NoWaker) \/ (v = NoWaker /\ t.rw = s.rw)
    BY DEF WokenRw, OnlyWakes
  <2>3. (w = s.tw /\ t.tw = NoWaker) \/ (w = NoWaker /\ t.tw = s.tw)
    BY DEF WokenTw, OnlyWakes
  <2>4. One(s.rw, S) \in Nat /\ One(s.tw, S) \in Nat
    BY OneType
  <2> QED
    BY <2>1, <2>2, <2>3, <2>4
<1> HIDE DEF v, w
<1>4. /\ WakeSend(v) \in Seq(Wakers) /\ Silenced(v) \in Seq(Wakers)
      /\ WakeSend(w) \in Seq(Wakers) /\ Silenced(w) \in Seq(Wakers)
      /\ Count(WakeSend(v), S) + Count(Silenced(v), S) = One(v, S)
      /\ Count(WakeSend(w), S) + Count(Silenced(w), S) = One(w, S)
  BY <1>1, <1>2
<1>5. /\ Sends(s, t) = WakeSend(v) \o WakeSend(w)
      /\ Silent(s, t) = Silenced(v) \o Silenced(w)
  BY DEF Sends, Silent, v, w
<1>6. Sends(s, t) \in Seq(Wakers) /\ Silent(s, t) \in Seq(Wakers)
  BY <1>4, <1>5, ConcatProperties
<1>7. /\ Count(Sends(s, t), S) = Count(WakeSend(v), S) + Count(WakeSend(w), S)
      /\ Count(Silent(s, t), S) = Count(Silenced(v), S) + Count(Silenced(w), S)
  BY <1>4, <1>5, CountConcat
<1>8. /\ Count(WakeSend(v), S) \in Nat /\ Count(Silenced(v), S) \in Nat
      /\ Count(WakeSend(w), S) \in Nat /\ Count(Silenced(w), S) \in Nat
      /\ Count(Silent(s, t), S) \in Nat /\ Count(Sends(s, t), S) \in Nat
  BY <1>4, <1>6, CountType
<1>9. /\ One(v, S) \in Nat /\ One(w, S) \in Nat /\ One(s.rw, S) \in Nat
      /\ One(s.tw, S) \in Nat /\ One(t.rw, S) \in Nat /\ One(t.tw, S) \in Nat
  BY OneType
<1>10. AtSlot(s, S) = One(s.rw, S) + One(s.tw, S) /\ AtSlot(t, S) = One(t.rw, S) + One(t.tw, S)
  BY DEF AtSlot
<1>11. Count(Sends(s, t), S) + Count(Silent(s, t), S) + AtSlot(t, S) = AtSlot(s, S)
  <2>1. /\ Count(WakeSend(v), S) + Count(Silenced(v), S) + One(t.rw, S) = One(s.rw, S)
        /\ Count(WakeSend(w), S) + Count(Silenced(w), S) + One(t.tw, S) = One(s.tw, S)
    BY <1>3, <1>4
  <2> QED
    BY <1>7, <1>8, <1>9, <1>10, <2>1
<1> QED
  BY <1>6, <1>8, <1>11

\* The driver hands over events, and the poll starts with sockets ss.
LEMMA BeginLedger ==
    ASSUME Typed, Tidy, NEW n \in Batches, NEW ss \in [Handles -> Sockets],
           NEW sent \in Seq(Events), Begin(n, ss, sent), NEW S
    PROVE  Held(S)' + Parked(sockets, S) = Held(S) + Parked(ss, S) + Count(sent, S)
<1> DEFINE p == SubSeq(queue, 1, n)
           q == SubSeq(queue, n + 1, Len(queue))
<1>1. queue \in Seq(Events) /\ n \in 0..Len(queue)
  BY DEF Typed, FlowTypes, Batches
<1>2. p \in Seq(Events) /\ q \in Seq(Events)
  BY <1>1, SplitType
<1>3. Count(queue, S) = Count(p, S) + Count(q, S)
  BY <1>1, CountSplit
<1> HIDE DEF p, q
<1>4. Count(q \o sent, S) = Count(q, S) + Count(sent, S)
  BY <1>2, CountConcat
<1>5. batch = <<>> /\ tcp_events = <<>> /\ udp_events = <<>>
  BY DEF Begin, Tidy, Phases
<1>6. /\ queue' = q \o sent /\ batch' = p /\ tcp_events' = <<>> /\ udp_events' = <<>>
      /\ sockets' = ss
  BY <1>5 DEF Begin, p, q
<1>7. Count(<<>>, S) = 0
  BY CountEmpty
<1>8. /\ Count(p, S) \in Nat /\ Count(q, S) \in Nat /\ Count(sent, S) \in Nat
      /\ Parked(sockets, S) \in Nat /\ Parked(ss, S) \in Nat
  BY <1>2, CountType, ParkedType
<1>9. Held(S) = Count(p, S) + Count(q, S) + Parked(sockets, S)
  BY <1>3, <1>5, <1>7, <1>8 DEF Held, Aside
<1>10. Held(S)' = Count(q, S) + Count(sent, S) + Count(p, S) + Parked(ss, S)
  BY <1>4, <1>6, <1>7, <1>8 DEF Held, Aside
<1> QED
  BY <1>8, <1>9, <1>10

\* The poll wakes what one socket holds.
LEMMA PolledLedger ==
    ASSUME Typed, Tidy, NEW n \in Batches, NEW ss \in [Handles -> Sockets],
           NEW k \in Handles, NEW t \in Sockets, OnlyWakes(ss[k], t),
           Begin(n, [ss EXCEPT ![k] = t], Sends(ss[k], t)), NEW S \in SUBSET Tokens
    PROVE  /\ Count(Silent(ss[k], t), S) \in Nat
           /\ Held(S)' + Count(Silent(ss[k], t), S) + Parked(sockets, S)
                = Held(S) + Parked(ss, S)
<1> DEFINE tt == [ss EXCEPT ![k] = t]
           s == ss[k]
<1>1. s \in Sockets /\ tt \in [Handles -> Sockets]
  OBVIOUS
<1>2. Sends(s, t) \in Seq(Events)
  BY <1>1, SendsType
<1>3. Parked(tt, S) + AtSlot(s, S) = Parked(ss, S) + AtSlot(t, S)
  <2>1. tt[k] = t /\ \A h \in Handles : h # k => tt[h] = ss[h]
    OBVIOUS
  <2> HIDE DEF tt
  <2> QED
    BY <2>1, ParkedSlot
<1>4. Begin(n, tt, Sends(s, t)) /\ OnlyWakes(s, t)
  OBVIOUS
<1> HIDE DEF tt, s
<1>5. /\ Count(Silent(s, t), S) \in Nat /\ Count(Sends(s, t), S) \in Nat
      /\ Count(Sends(s, t), S) + Count(Silent(s, t), S) + AtSlot(t, S) = AtSlot(s, S)
  BY <1>1, <1>4, WakeLedger
<1>6. Held(S)' + Parked(sockets, S) = Held(S) + Parked(tt, S) + Count(Sends(s, t), S)
  BY <1>1, <1>2, <1>4, BeginLedger
<1>7. /\ Held(S) \in Nat /\ Parked(sockets, S) \in Nat /\ Parked(tt, S) \in Nat
      /\ Parked(ss, S) \in Nat /\ AtSlot(s, S) \in Nat /\ AtSlot(t, S) \in Nat
  BY HeldType, ParkedType, AtSlotType
<1>8. Held(S)' \in Nat
  <2>1. SocketTypes' /\ FlowTypes'
    BY <1>1, <1>2, <1>4, BeginTyped
  <2> QED
    BY <2>1, HeldAfter
<1>9. Held(S)' + Count(Silent(s, t), S) + Parked(sockets, S) = Held(S) + Parked(ss, S)
  BY <1>3, <1>5, <1>6, <1>7, <1>8
<1> QED
  BY <1>5, <1>9 DEF s

\* The next event of the batch is taken.
LEMMA HandleAside ==
    ASSUME Typed, NEW e, Handle(e), NEW S
    PROVE  Aside(S)' + One(e, S) = Aside(S) /\ Aside(S)' \in Nat /\ One(e, S) \in Nat
<1>1. batch \in Seq(Events) /\ batch # <<>>
  BY DEF Handle, Dispatch, Typed, FlowTypes, PhaseOK
<1>2. Count(batch, S) = One(Head(batch), S) + Count(Tail(batch), S)
  BY <1>1, CountHead
<1>3. Tail(batch) \in Seq(Events)
  BY <1>1
<1>4. Count(Tail(batch), S) \in Nat /\ One(e, S) \in Nat
  BY <1>3, CountType, OneType
<1>5. Count(tcp_events, S) \in Nat /\ Count(udp_events, S) \in Nat
  BY HeldType
<1>6. /\ e = Head(batch) /\ batch' = Tail(batch)
      /\ tcp_events' = tcp_events /\ udp_events' = udp_events
  BY DEF Handle, Dispatch
<1> QED
  BY <1>2, <1>4, <1>5, <1>6 DEF Aside

LEMMA DeferAside ==
    ASSUME Typed, NEW e, Defer(e), NEW S
    PROVE  Aside(S)' = Aside(S)
<1>1. batch \in Seq(Events) /\ batch # <<>>
  BY DEF Defer, Dispatch, Typed, FlowTypes, PhaseOK
<1>2. Count(batch, S) = One(Head(batch), S) + Count(Tail(batch), S)
  BY <1>1, CountHead
<1>3. Head(batch) \in Events /\ Tail(batch) \in Seq(Events)
  BY <1>1
<1>4. e = Head(batch) /\ batch' = Tail(batch)
  BY DEF Defer, Dispatch
<1>5. /\ Count(Append(tcp_events, e), S) = Count(tcp_events, S) + One(e, S)
      /\ Count(Append(udp_events, e), S) = Count(udp_events, S) + One(e, S)
  BY <1>3, <1>4, CountAppend DEF Typed, FlowTypes
<1>6. /\ Count(Tail(batch), S) \in Nat /\ One(e, S) \in Nat
      /\ Count(tcp_events, S) \in Nat /\ Count(udp_events, S) \in Nat
  BY <1>3, CountType, OneType, HeldType
<1>7. \/ tcp_events' = Append(tcp_events, e) /\ udp_events' = udp_events
      \/ tcp_events' = tcp_events /\ udp_events' = Append(udp_events, e)
  BY DEF Defer, Dispatch
<1>8. CASE tcp_events' = Append(tcp_events, e) /\ udp_events' = udp_events
  BY <1>2, <1>4, <1>5, <1>6, <1>8 DEF Aside
<1>9. CASE tcp_events' = tcp_events /\ udp_events' = Append(udp_events, e)
  BY <1>2, <1>4, <1>5, <1>6, <1>9 DEF Aside
<1> QED
  BY <1>7, <1>8, <1>9

LEMMA OpAside ==
    ASSUME Typed, NEW e, TcpEvent(e) \/ UdpEvent(e), NEW S
    PROVE  Aside(S)' + One(e, S) = Aside(S) /\ Aside(S)' \in Nat /\ One(e, S) \in Nat
<1>0. /\ Count(batch, S) \in Nat /\ Count(tcp_events, S) \in Nat /\ Count(udp_events, S) \in Nat
      /\ One(e, S) \in Nat
  BY HeldType, OneType
<1>1. CASE TcpEvent(e)
  <2>1. tcp_events \in Seq(Events) /\ tcp_events # <<>>
    BY <1>1 DEF TcpEvent, Typed, FlowTypes, PhaseOK
  <2>2. Count(tcp_events, S) = One(Head(tcp_events), S) + Count(Tail(tcp_events), S)
    BY <2>1, CountHead
  <2>3. Tail(tcp_events) \in Seq(Events)
    BY <2>1
  <2>4. Count(Tail(tcp_events), S) \in Nat
    BY <2>3, CountType
  <2>5. /\ e = Head(tcp_events) /\ tcp_events' = Tail(tcp_events)
        /\ batch' = batch /\ udp_events' = udp_events
    BY <1>1 DEF TcpEvent
  <2> QED
    BY <1>0, <2>2, <2>4, <2>5 DEF Aside
<1>2. CASE UdpEvent(e)
  <2>1. udp_events \in Seq(Events) /\ udp_events # <<>>
    BY <1>2 DEF UdpEvent, Typed, FlowTypes, PhaseOK
  <2>2. Count(udp_events, S) = One(Head(udp_events), S) + Count(Tail(udp_events), S)
    BY <2>1, CountHead
  <2>3. Tail(udp_events) \in Seq(Events)
    BY <2>1
  <2>4. Count(Tail(udp_events), S) \in Nat
    BY <2>3, CountType
  <2>5. /\ e = Head(udp_events) /\ udp_events' = Tail(udp_events)
        /\ batch' = batch /\ tcp_events' = tcp_events
    BY <1>2 DEF UdpEvent
  <2> QED
    BY <1>0, <2>2, <2>4, <2>5 DEF Aside
<1> QED
  BY <1>1, <1>2

LEMMA ParkedUpdate ==
    ASSUME Typed, NEW h \in Handles, NEW t, sockets' = [sockets EXCEPT ![h] = t], NEW S
    PROVE  Parked(sockets', S) + AtSlot(sockets[h], S) = Parked(sockets, S) + AtSlot(t, S)
<1>1. sockets'[h] = t /\ \A k \in Handles : k # h => sockets'[k] = sockets[k]
  BY DEF Typed, SocketTypes
<1>2. ASSUME NEW ss, ss[h] = t, \A k \in Handles : k # h => ss[k] = sockets[k]
      PROVE  Parked(ss, S) + AtSlot(sockets[h], S) = Parked(sockets, S) + AtSlot(t, S)
  <2>1. Parked(ss, S) + AtSlot(sockets[h], S) = Parked(sockets, S) + AtSlot(ss[h], S)
    BY <1>2, ParkedSlot
  <2> QED
    BY <1>2, <2>1
<1> QED
  BY <1>1, <1>2, Zenon

\* The events sent are sent.
LEMMA SentCount ==
    ASSUME Typed, NEW sent \in Seq(Events), queue' = queue \o sent, NEW S
    PROVE  /\ Count(queue', S) = Count(queue, S) + Count(sent, S)
           /\ Count(queue, S) \in Nat /\ Count(sent, S) \in Nat
<1>1. queue \in Seq(Events)
  BY DEF Typed, FlowTypes
<1> QED
  BY <1>1, CountConcat, CountType

\* A slot that held a now holds b, sent events are sent, and one event may be taken.
LEMMA Balance ==
    ASSUME Typed, NEW a \in Nat, NEW b \in Nat, NEW sent \in Nat, NEW taken \in Nat, NEW S,
           Parked(sockets', S) + a = Parked(sockets, S) + b,
           Count(queue', S) = Count(queue, S) + sent,
           Aside(S)' + taken = Aside(S), Aside(S)' \in Nat
    PROVE  Held(S)' + taken + a = Held(S) + b + sent /\ Held(S)' \in Nat
<1>1. /\ Count(queue, S) \in Nat /\ Aside(S) \in Nat /\ Parked(sockets, S) \in Nat
      /\ Parked(sockets', S) \in Nat
  BY HeldType, ParkedType
<1>2. /\ Held(S) = Count(queue, S) + Aside(S) + Parked(sockets, S)
      /\ Held(S)' = Count(queue', S) + Aside(S)' + Parked(sockets', S)
  BY DEF Held
<1> QED
  BY <1>1, <1>2

\* Slot h goes to t, and the events sent are sent.
Update(h, t, sent) == sockets' = [sockets EXCEPT ![h] = t] /\ queue' = queue \o sent

LEMMA SlotLedger ==
    ASSUME Typed, NEW h \in Handles, NEW t, NEW sent \in Seq(Events), Update(h, t, sent),
           NEW e, NEW S,
           Aside(S)' + One(e, S) = Aside(S), Aside(S)' \in Nat
    PROVE  /\ Held(S)' + One(e, S) + AtSlot(sockets[h], S)
                = Held(S) + AtSlot(t, S) + Count(sent, S)
           /\ Held(S)' \in Nat
<1>1. Parked(sockets', S) + AtSlot(sockets[h], S) = Parked(sockets, S) + AtSlot(t, S)
  BY ParkedUpdate DEF Update
<1>2. Count(queue', S) = Count(queue, S) + Count(sent, S) /\ Count(sent, S) \in Nat
  BY SentCount DEF Update
<1>3. AtSlot(sockets[h], S) \in Nat /\ AtSlot(t, S) \in Nat /\ One(e, S) \in Nat
  BY AtSlotType, OneType
<1> QED
  BY <1>1, <1>2, <1>3, Balance

\* The sockets stay as they are.
LEMMA QuietLedger ==
    ASSUME Typed, UNCHANGED sockets, NEW sent \in Seq(Events), queue' = queue \o sent, NEW e,
           NEW S, Aside(S)' + One(e, S) = Aside(S), Aside(S)' \in Nat
    PROVE  Held(S)' + One(e, S) = Held(S) + Count(sent, S) /\ Held(S)' \in Nat
<1>1. Parked(sockets', S) + 0 = Parked(sockets, S) + 0 /\ 0 \in Nat
  OBVIOUS
<1>2. Count(queue', S) = Count(queue, S) + Count(sent, S) /\ Count(sent, S) \in Nat
  BY SentCount
<1>3. One(e, S) \in Nat /\ Held(S) \in Nat
  BY OneType, HeldType
<1>4. Held(S)' + One(e, S) + 0 = Held(S) + 0 + Count(sent, S) /\ Held(S)' \in Nat
  BY <1>1, <1>2, <1>3, Balance
<1> QED
  BY <1>2, <1>3, <1>4

\* Events leave the channel, and nothing else changes.
LEMMA QueueLedger ==
    ASSUME Typed, UNCHANGED <<batch, tcp_events, udp_events>>,
           NEW S, Parked(sockets', S) = Parked(sockets, S), NEW gone \in Nat,
           Count(queue', S) \in Nat, Count(queue', S) + gone = Count(queue, S)
    PROVE  Held(S)' + gone = Held(S)
<1>1. Aside(S)' = Aside(S) /\ Aside(S) \in Nat /\ Parked(sockets, S) \in Nat
  BY HeldType DEF Aside
<1>2. /\ Held(S) = Count(queue, S) + Aside(S) + Parked(sockets, S)
      /\ Held(S)' = Count(queue', S) + Aside(S)' + Parked(sockets', S)
  BY DEF Held
<1> QED
  BY <1>1, <1>2

-----------------------------------------------------------------------------
(* What a step answers *)

Final == {"ok", "eof", "err", "lost"}

\* Of the futures that are pending in f, those of O have their answer in g.
SettledBy(f, g, O) ==
    \A o \in Ops :
        /\ g[o].id = f[o].id /\ g[o].type = f[o].type
        /\ IF f[o].st = "pending" /\ o \in O THEN g[o].st \in Final
                                            ELSE g[o].st = f[o].st

LEMMA SettleBy ==
    ASSUME NEW f \in [Ops -> Futures], NEW O, NEW r \in Final
    PROVE  SettledBy(f, Settle(f, O, r), O)
BY DEF SettledBy, Settle, Futures

LEMMA SettledNone == ASSUME NEW f PROVE SettledBy(f, f, {})
BY DEF SettledBy

LEMMA SettledThen ==
    ASSUME NEW f, NEW g, NEW k, NEW O, NEW P, SettledBy(f, g, O), SettledBy(g, k, P)
    PROVE  SettledBy(f, k, O \cup P)
BY DEF SettledBy, Final

LEMMA SettledSame ==
    ASSUME NEW f, NEW g, NEW O, NEW P, SettledBy(f, g, O), \A o \in Ops : o \in O <=> o \in P
    PROVE  SettledBy(f, g, P)
BY DEF SettledBy

LEMMA OpsOfConcat ==
    ASSUME NEW T, NEW p \in Seq(T), NEW q \in Seq(T)
    PROVE  OpsOf(p \o q) = OpsOf(p) \cup OpsOf(q)
<1>1. /\ p \o q \in Seq(T) /\ Len(p \o q) = Len(p) + Len(q)
      /\ \A i \in 1..Len(p) : (p \o q)[i] = p[i]
      /\ \A i \in (Len(p) + 1)..(Len(p) + Len(q)) : (p \o q)[i] = q[i - Len(p)]
  BY ConcatProperties
<1>2. /\ DOMAIN p = 1..Len(p) /\ DOMAIN q = 1..Len(q)
      /\ DOMAIN (p \o q) = 1..(Len(p) + Len(q)) /\ Len(p) \in Nat /\ Len(q) \in Nat
  BY <1>1
<1>3. ASSUME NEW i \in DOMAIN (p \o q)
      PROVE  (p \o q)[i].op \in OpsOf(p) \cup OpsOf(q)
  <2>1. CASE i \in 1..Len(p)
    BY <1>1, <1>2, <2>1 DEF OpsOf
  <2>2. CASE i \in (Len(p) + 1)..(Len(p) + Len(q))
    <3>1. i - Len(p) \in 1..Len(q)
      BY <1>2, <2>2
    <3> QED
      BY <1>1, <1>2, <2>2, <3>1 DEF OpsOf
  <2> QED
    BY <1>2, <1>3, <2>1, <2>2
<1>4. ASSUME NEW i \in DOMAIN p PROVE p[i].op \in OpsOf(p \o q)
  <2>1. i \in 1..(Len(p) + Len(q))
    BY <1>2
  <2> QED
    BY <1>1, <1>2, <2>1 DEF OpsOf
<1>5. ASSUME NEW i \in DOMAIN q PROVE q[i].op \in OpsOf(p \o q)
  <2>1. /\ i + Len(p) \in 1..(Len(p) + Len(q)) /\ (i + Len(p)) - Len(p) = i
        /\ i + Len(p) \in (Len(p) + 1)..(Len(p) + Len(q))
    BY <1>2
  <2> QED
    BY <1>1, <1>2, <2>1 DEF OpsOf
<1>6. \A x : x \in OpsOf(p \o q) => x \in OpsOf(p) \cup OpsOf(q)
  BY <1>3 DEF OpsOf
<1>7. \A x : x \in OpsOf(p) \cup OpsOf(q) => x \in OpsOf(p \o q)
  <2>1. \A x : x \in OpsOf(p) => \E i \in DOMAIN p : x = p[i].op
    BY DEF OpsOf
  <2>2. \A x : x \in OpsOf(q) => \E i \in DOMAIN q : x = q[i].op
    BY DEF OpsOf
  <2> QED
    BY <1>4, <1>5, <2>1, <2>2
<1> QED
  BY <1>6, <1>7

LEMMA OpsOfOne == ASSUME NEW x PROVE OpsOf(<<x>>) = {x.op} /\ OpsOf(<<>>) = {}
BY DEF OpsOf

LEMMA SettledConcat ==
    ASSUME NEW f, NEW g, NEW k, NEW p \in Seq(Wakers), NEW q \in Seq(Wakers),
           SettledBy(f, g, OpsOf(p)), SettledBy(g, k, OpsOf(q))
    PROVE  SettledBy(f, k, OpsOf(p \o q)) /\ SettledBy(f, k, OpsOf(q \o p))
<1>1. OpsOf(p \o q) = OpsOf(p) \cup OpsOf(q) /\ OpsOf(q \o p) = OpsOf(q) \cup OpsOf(p)
  BY OpsOfConcat
<1>2. SettledBy(f, k, OpsOf(p) \cup OpsOf(q))
  BY SettledThen
<1> QED
  BY <1>1, <1>2, SettledSame

\* The events of operations and the wakers of shutdowns, and no others, answer an
\* operation.
Shaped(w) == w.op # None <=> w.type \in OpTypes \cup {"ShutdownDone"}

\* Waking answers exactly the operations whose closures are lost by it.
LEMMA ResultsBy ==
    ASSUME NEW f \in [Ops -> Futures], NEW s \in Sockets, NEW t \in Sockets,
           Shaped(s.rw), Shaped(s.tw)
    PROVE  SettledBy(f, Results(f, s, t), OpsOf(Silent(s, t)))
<1> DEFINE v == WokenRw(s, t)
           w == WokenTw(s, t)
           done == {x.op : x \in {y \in {v, w} : y.type = "ShutdownDone"}}
           failed == {x.op : x \in {y \in {v, w} : y.type \in OpTypes}}
           late == IF generator THEN {} ELSE failed
<1>1. Results(f, s, t) = Settle(Settle(f, done, "ok"), late, "err")
  BY DEF Results
<1>2. v \in Wakers /\ w \in Wakers /\ Shaped(v) /\ Shaped(w)
  BY NoSocketType DEF WokenRw, WokenTw, Sockets, Shaped, NoWaker, OpTypes
<1>3. \A o \in Ops :
        /\ o \in done <=> \E x \in {v, w} : x.op = o /\ x.type = "ShutdownDone"
        /\ o \in late <=> ~generator /\ \E x \in {v, w} : x.op = o /\ x.type \in OpTypes
  OBVIOUS
<1> HIDE DEF done, late
<1>4. SettledBy(f, Results(f, s, t), done \cup late)
  <2>1. "ok" \in Final /\ "err" \in Final /\ "ok" \in OpStates
    BY DEF Final, OpStates
  <2>2. Settle(f, done, "ok") \in [Ops -> Futures] /\ SettledBy(f, Settle(f, done, "ok"), done)
    BY <2>1, SettleType, SettleBy
  <2>3. SettledBy(Settle(f, done, "ok"), Settle(Settle(f, done, "ok"), late, "err"), late)
    BY <2>1, <2>2, SettleBy
  <2> QED
    BY <1>1, <2>2, <2>3, SettledThen
<1>5. OpsOf(Silent(s, t)) = OpsOf(Silenced(v)) \cup OpsOf(Silenced(w))
  <2>1. Silenced(v) \in Seq(Wakers) /\ Silenced(w) \in Seq(Wakers)
    BY <1>2 DEF Silenced
  <2> QED
    BY <2>1, OpsOfConcat DEF Silent
<1>6. ASSUME NEW x \in Wakers, NEW o \in Ops
      PROVE  o \in OpsOf(Silenced(x)) <=> x.op = o /\ ~(generator /\ x.type \in EventTypes)
  BY OpsOfOne DEF Silenced
<1>7. None \notin Ops
  BY NoneAssumption
<1>8. ASSUME NEW x \in Wakers, NEW o \in Ops, Shaped(x)
      PROVE  o \in OpsOf(Silenced(x)) <=>
                x.op = o /\ (x.type = "ShutdownDone" \/ (~generator /\ x.type \in OpTypes))
  BY <1>6, <1>7, <1>8 DEF Shaped, EventTypes, OpTypes
<1> HIDE DEF v, w
<1>9. \A o \in Ops : o \in done \cup late <=> o \in OpsOf(Silent(s, t))
  BY <1>2, <1>3, <1>5, <1>8
<1> QED
  BY <1>4, <1>9, SettledSame

LEMMA DroppedBy ==
    ASSUME NEW f \in [Ops -> Futures], NEW w
    PROVE  SettledBy(f, Dropped(f, w), OpsOf(<<w>>))
BY SettleBy, OpsOfOne DEF Dropped, Final

-----------------------------------------------------------------------------
(* The ledger of every step *)

\* A step as in Ledger, which answers exactly the operations that it loses.
Spends(gone, e, w) ==
    /\ gone \in Seq(Wakers)
    /\ Ledger(gone, e, w)
    /\ SettledBy(ops, ops', OpsOf(gone))

\* Nothing new; nothing new, and e is used up; e becomes w.
Loses == \E gone : Spends(gone, NoWaker, NoWaker)
Uses(e) == \E gone : Spends(gone, e, NoWaker)
Turns(e, w) == \E gone : Spends(gone, e, w)

LEMMA HeldZero ==
    ASSUME Typed, NEW S
    PROVE  Held(S) = 0 <=> /\ \A i \in DOMAIN queue : queue[i] \notin S
                           /\ \A i \in DOMAIN batch : batch[i] \notin S
                           /\ \A i \in DOMAIN tcp_events : tcp_events[i] \notin S
                           /\ \A i \in DOMAIN udp_events : udp_events[i] \notin S
                           /\ \A h \in Handles : sockets[h].rw \notin S /\ sockets[h].tw \notin S
<1>1. /\ Count(queue, S) \in Nat /\ Count(batch, S) \in Nat
      /\ Count(tcp_events, S) \in Nat /\ Count(udp_events, S) \in Nat
      /\ Parked(sockets, S) \in Nat
  BY HeldType
<1>2. Held(S) = 0 <=> /\ Count(queue, S) = 0 /\ Count(batch, S) = 0
                      /\ Count(tcp_events, S) = 0 /\ Count(udp_events, S) = 0
                      /\ Parked(sockets, S) = 0
  BY <1>1 DEF Held, Aside
<1>3. /\ Count(queue, S) = 0 <=> \A i \in DOMAIN queue : queue[i] \notin S
      /\ Count(batch, S) = 0 <=> \A i \in DOMAIN batch : batch[i] \notin S
      /\ Count(tcp_events, S) = 0 <=> \A i \in DOMAIN tcp_events : tcp_events[i] \notin S
      /\ Count(udp_events, S) = 0 <=> \A i \in DOMAIN udp_events : udp_events[i] \notin S
  BY CountZero DEF Typed, FlowTypes
<1>4. Parked(sockets, S) = 0 <=> \A h \in Handles : sockets[h].rw \notin S /\ sockets[h].tw \notin S
  BY ParkedType
<1> QED
  BY <1>2, <1>3, <1>4

\* Every event and waker is shaped.
Odd == {w \in Tokens : ~Shaped(w)}
AllShaped == Held(Odd) = 0

LEMMA ShapedSocket ==
    ASSUME Typed, AllShaped, NEW h \in Handles
    PROVE  Shaped(sockets[h].rw) /\ Shaped(sockets[h].tw)
<1>1. sockets[h].rw \notin Odd /\ sockets[h].tw \notin Odd
  BY HeldZero DEF AllShaped
<1>2. sockets[h].rw \in Wakers /\ sockets[h].tw \in Wakers
  BY DEF Typed, SocketTypes, Sockets
<1>3. Shaped(NoWaker)
  BY DEF Shaped, NoWaker, OpTypes
<1> QED
  BY <1>1, <1>2, <1>3 DEF Odd, Tokens

LEMMA ShapedBatch ==
    ASSUME Typed, AllShaped, phase = "dispatch"
    PROVE  Shaped(Head(batch))
<1>1. batch \in Seq(Events) /\ batch # <<>>
  BY DEF Typed, FlowTypes, PhaseOK
<1>2. 1 \in DOMAIN batch /\ Head(batch) = batch[1] /\ batch[1] \in Events
  BY <1>1
<1>3. batch[1] \notin Odd
  BY <1>2, HeldZero DEF AllShaped
<1> QED
  BY <1>2, <1>3, EventIsToken DEF Odd

\* The poll gives a segment, a datagram or a timeout to the socket in slot k.
Polls(n, ss, k, t) ==
    /\ Begin(n, [ss EXCEPT ![k] = t], Sends(ss[k], t))
    /\ ops' = Results(ops, ss[k], t)

LEMMA PollsSpends ==
    ASSUME Typed, Tidy, NEW n \in Batches, NEW ss \in [Handles -> Sockets], NEW w,
           NEW k \in Handles, NEW t \in Sockets, OnlyWakes(ss[k], t), Polls(n, ss, k, t),
           Shaped(ss[k].rw), Shaped(ss[k].tw),
           \A S \in SUBSET Tokens : Parked(ss, S) = Parked(sockets, S) + One(w, S)
    PROVE  Turns(NoWaker, w)
<1> DEFINE gone == Silent(ss[k], t)
<1>0. ss[k] \in Sockets
  OBVIOUS
<1>1. gone \in Seq(Wakers)
  <2>1. {} \in SUBSET Tokens
    OBVIOUS
  <2> QED
    BY <1>0, <2>1, WakeLedger
<1>2. SettledBy(ops, ops', OpsOf(gone))
  <2>1. ops \in [Ops -> Futures]
    BY DEF Typed, OpTypesOK
  <2> QED
    BY <1>0, <2>1, ResultsBy DEF Polls
<1> HIDE DEF gone
<1>3. ASSUME NEW S \in SUBSET Tokens
      PROVE  Held(S)' + Count(gone, S) + One(NoWaker, S) = Held(S) + One(w, S)
  <2>1. Count(gone, S) \in Nat
        /\ Held(S)' + Count(gone, S) + Parked(sockets, S) = Held(S) + Parked(ss, S)
    BY PolledLedger DEF Polls, gone
  <2>2. Parked(ss, S) = Parked(sockets, S) + One(w, S) /\ One(NoWaker, S) = 0
    BY NoWakerOutside
  <2>3. Held(S) \in Nat /\ Parked(sockets, S) \in Nat /\ One(w, S) \in Nat
    BY HeldType, OneType
  <2>4. Held(S)' \in Nat
    <3>1. Sends(ss[k], t) \in Seq(Events) /\ [ss EXCEPT ![k] = t] \in [Handles -> Sockets]
      BY <1>0, SendsType
    <3>2. FlowTypes'
      BY <3>1, BeginTyped DEF Polls
    <3> QED
      BY <3>2, HeldAfter
  <2>5. Held(S)' + Count(gone, S) + Parked(sockets, S) = Held(S) + (Parked(sockets, S) + One(w, S))
    BY <2>1, <2>2
  <2> QED
    BY <2>1, <2>2, <2>3, <2>4, <2>5
<1>4. Spends(gone, NoWaker, w)
  BY <1>1, <1>2, <1>3 DEF Spends, Ledger
<1> QED
  BY <1>4 DEF Turns

LEMMA SamePollsSpends ==
    ASSUME Typed, Tidy, AllShaped, NEW n \in Batches, NEW k \in Handles, NEW t \in Sockets,
           OnlyWakes(sockets[k], t), Polls(n, sockets, k, t)
    PROVE  Loses
<1>1. sockets \in [Handles -> Sockets] /\ Shaped(sockets[k].rw) /\ Shaped(sockets[k].tw)
  BY ShapedSocket DEF Typed, SocketTypes
<1>2. ASSUME NEW S \in SUBSET Tokens
      PROVE  Parked(sockets, S) = Parked(sockets, S) + One(NoWaker, S)
  BY HeldType, NoWakerOutside
<1>3. Turns(NoWaker, NoWaker)
  BY <1>1, <1>2, PollsSpends
<1> QED
  BY <1>3 DEF Turns, Loses

\* Slot h, which was free, has the new socket; the others are what they were.
Given(h, kind) ==
    /\ h \in FreeHandles
    /\ sockets'[h].id = next_id /\ sockets'[h].kind = kind
    /\ \A k \in Handles \ {h} : sockets'[k].id = sockets[k].id /\ sockets'[k].kind = sockets[k].kind

Ready(h, kind) == Event("Ready", [kind |-> kind, h |-> h, id |-> next_id], None)

\* A socket is put into a slot that holds nothing; the others stay.
Beside(ss, tt, h) == \A k \in Handles : k # h => tt[k] = ss[k]

LEMMA ParkedInto ==
    ASSUME NEW ss, NEW tt, NEW h \in Handles, Beside(ss, tt, h), NEW S, AtSlot(ss[h], S) = 0
    PROVE  Parked(tt, S) = Parked(ss, S) + AtSlot(tt[h], S)
<1>1. Parked(tt, S) + AtSlot(ss[h], S) = Parked(ss, S) + AtSlot(tt[h], S)
  BY ParkedSlot DEF Beside
<1> QED
  BY <1>1, ParkedType

LEMMA ParkedFresh ==
    ASSUME NEW h \in Handles, h \in FreeHandles, Tidy, NEW tt, Beside(sockets, tt, h),
           NEW S \in SUBSET Tokens
    PROVE  Parked(tt, S) = Parked(sockets, S) + AtSlot(tt[h], S)
<1>1. sockets[h].rw = NoWaker /\ sockets[h].tw = NoWaker
  BY DEF FreeHandles, Tidy, TidySlots, TidySlot
<1>2. AtSlot(sockets[h], S) = 0
  BY <1>1, NoWakerOutside DEF AtSlot
<1> QED
  BY <1>2, ParkedInto

LEMMA DriveSynSpends ==
    ASSUME Typed, Tidy, AllShaped, NEW c \in Conns, NEW n \in Batches, DriveSyn(c, n)
    PROVE  \E h \in Handles : Given(h, "tcp") /\ Turns(NoWaker, Ready(h, "tcp"))
<1>1. sockets \in [Handles -> Sockets] /\ next_id \in Ids
  BY NewId DEF Typed, SocketTypes, DriveSyn
<1>2. PICK h \in Handles, k \in Handles :
        LET new == [kind |-> "tcp", h |-> h, id |-> next_id]
            added == [sockets EXCEPT ![h] =
                        ReadyOnSend(TcpListener(next_id, c[2]),
                                    Event("Ready", new, None))]
            polled == Process(added[k], c, "SYN")
        IN  /\ h \in FreeHandles
            /\ ops' = Results(ops, added[k], polled)
            /\ Begin(n, [added EXCEPT ![k] = polled], Sends(added[k], polled))
  BY DEF DriveSyn, IsFirst
<1> DEFINE e == Ready(h, "tcp")
           l == ReadyOnSend(TcpListener(next_id, c[2]), e)
           added == [sockets EXCEPT ![h] = l]
           polled == Process(added[k], c, "SYN")
<1>3. e \in Wakers /\ e.op = None /\ e.type = "Ready"
  BY <1>1, ReadyType, EventIsWaker DEF Kinds, Ready, Event
<1>4. l \in Sockets
  <2>1. c[2] \in TcpAddrs
    BY DEF Conns
  <2> QED
    BY <1>1, <1>3, <2>1, NewSocketType
<1>5. l.kind = "tcp" /\ l.id = next_id /\ l.rw = NoWaker /\ l.tw = e
  BY DEF ReadyOnSend, TcpListener, NoSocket
<1>6. Begin(n, [added EXCEPT ![k] = polled], Sends(added[k], polled))
      /\ ops' = Results(ops, added[k], polled)
  BY <1>2 DEF Ready
<1> HIDE DEF e, l
<1>7. added \in [Handles -> Sockets] /\ added[h] = l /\ \A x \in Handles : x # h => added[x] = sockets[x]
  BY <1>1, <1>4
<1> HIDE DEF added
<1>8. polled \in Sockets /\ OnlyWakes(added[k], polled)
  BY <1>7, ProcessType, WakeSteps
<1> HIDE DEF polled
<1>9. Shaped(added[k].rw) /\ Shaped(added[k].tw)
  <2>1. Shaped(e) /\ Shaped(NoWaker)
    BY <1>3 DEF Shaped, NoWaker, OpTypes
  <2>2. k # h => Shaped(sockets[k].rw) /\ Shaped(sockets[k].tw)
    BY ShapedSocket
  <2> QED
    BY <1>5, <1>7, <2>1, <2>2
<1>10. ASSUME NEW S \in SUBSET Tokens PROVE Parked(added, S) = Parked(sockets, S) + One(e, S)
  <2>0. Beside(sockets, added, h)
    BY <1>7 DEF Beside
  <2>1. Parked(added, S) = Parked(sockets, S) + AtSlot(added[h], S)
    BY <1>2, <2>0, ParkedFresh
  <2>2. One(NoWaker, S) = 0 /\ One(e, S) \in Nat
    BY NoWakerOutside, OneType
  <2>3. AtSlot(added[h], S) = One(e, S)
    BY <1>5, <1>7, <2>2 DEF AtSlot
  <2> QED
    BY <2>1, <2>3
<1>11. Turns(NoWaker, e)
  <2>1. Polls(n, added, k, polled)
    BY <1>6 DEF Polls
  <2> QED
    BY <1>7, <1>8, <1>9, <1>10, <2>1, PollsSpends
<1>12. Given(h, "tcp")
  <2>1. sockets' = [added EXCEPT ![k] = polled]
    BY <1>6 DEF Begin
  <2>2. \A x \in Handles : sockets'[x].id = added[x].id /\ sockets'[x].kind = added[x].kind
    BY <1>7, <1>8, <2>1 DEF OnlyWakes
  <2> QED
    BY <1>2, <1>5, <1>7, <2>2 DEF Given
<1> QED
  BY <1>11, <1>12 DEF e

LEMMA DriveNewUdpSpends ==
    ASSUME Typed, Tidy, NEW d \in UdpAddrs, NEW n \in Batches, DriveNewUdp(d, n)
    PROVE  \E h \in Handles : Given(h, "udp") /\ Turns(NoWaker, Ready(h, "udp"))
<1>1. sockets \in [Handles -> Sockets] /\ next_id \in Ids
  BY NewId DEF Typed, SocketTypes, DriveNewUdp
<1> DEFINE t == Datagram(UdpBound(next_id, d))
<1>2. PICK h \in Handles :
        /\ h \in FreeHandles
        /\ Begin(n, [sockets EXCEPT ![h] = t],
                 <<Event("Ready", [kind |-> "udp", h |-> h, id |-> next_id], None)>>)
  BY DEF DriveNewUdp, IsFirst
<1> DEFINE e == Ready(h, "udp")
           tt == [sockets EXCEPT ![h] = t]
<1>3. e \in Events /\ e \in Wakers
  BY <1>1, ReadyType, EventIsWaker DEF Kinds, Ready
<1>4. t \in Sockets
  BY <1>1, NewSocketType, DatagramType, NoSocketType
<1>5. t.kind = "udp" /\ t.id = next_id /\ t.rw = NoWaker /\ t.tw = NoWaker
  BY CapAssumption DEF Datagram, UdpBound, NoSocket
<1>6. Begin(n, tt, <<e>>)
  BY <1>2 DEF Ready
<1> HIDE DEF t, e
<1>7. tt \in [Handles -> Sockets] /\ tt[h] = t /\ \A x \in Handles : x # h => tt[x] = sockets[x]
  BY <1>1, <1>4
<1> HIDE DEF tt
<1>8. ASSUME NEW S \in SUBSET Tokens
      PROVE  Held(S)' + Count(<<>>, S) + One(NoWaker, S) = Held(S) + One(e, S)
  <2>1. <<e>> \in Seq(Events)
    BY <1>3
  <2>2. Held(S)' + Parked(sockets, S) = Held(S) + Parked(tt, S) + Count(<<e>>, S)
    BY <1>6, <1>7, <2>1, BeginLedger
  <2>3. Parked(tt, S) = Parked(sockets, S)
    <3>0. Beside(sockets, tt, h)
      BY <1>7 DEF Beside
    <3>1. Parked(tt, S) = Parked(sockets, S) + AtSlot(tt[h], S)
      BY <1>2, <3>0, ParkedFresh
    <3>2. AtSlot(tt[h], S) = 0
      BY <1>5, <1>7, NoWakerOutside DEF AtSlot
    <3> QED
      BY <3>1, <3>2, ParkedType
  <2>4. /\ Count(<<e>>, S) = One(e, S) /\ Count(<<>>, S) = 0 /\ One(NoWaker, S) = 0
        /\ One(e, S) \in Nat
    BY CountOne, CountEmpty, NoWakerOutside, OneType
  <2>5. Held(S) \in Nat /\ Parked(sockets, S) \in Nat
    BY HeldType
  <2>6. Held(S)' \in Nat
    <3>1. FlowTypes'
      BY <1>6, <1>7, <2>1, BeginTyped
    <3> QED
      BY <3>1, HeldAfter
  <2>7. Held(S)' + Parked(sockets, S) = Held(S) + Parked(sockets, S) + One(e, S)
    BY <2>2, <2>3, <2>4
  <2> QED
    BY <2>4, <2>5, <2>6, <2>7
<1>9. SettledBy(ops, ops', OpsOf(<<>>))
  BY SettledNone, OpsOfOne DEF DriveNewUdp
<1>10. Turns(NoWaker, e)
  <2>1. <<>> \in Seq(Wakers)
    OBVIOUS
  <2>2. Spends(<<>>, NoWaker, e)
    BY <1>8, <1>9, <2>1 DEF Spends, Ledger
  <2> QED
    BY <2>2 DEF Turns
<1>11. Given(h, "udp")
  <2>1. sockets' = tt
    BY <1>6 DEF Begin
  <2> QED
    BY <1>2, <1>5, <1>7, <2>1 DEF Given
<1> QED
  BY <1>10, <1>11 DEF e

-----------------------------------------------------------------------------
(* Steps that change one slot, or only the channel *)

\* drive_once takes event e out of what it holds (NoWaker: nothing).
TakesOut(e) == \A S \in SUBSET Tokens : Aside(S)' + One(e, S) = Aside(S) /\ Aside(S)' \in Nat

\* What slot s held and event e, which is taken out, and the new event w: they
\* are in slot t, in the channel, lost or f, which is used up.
Kirchhoff(s, t, sent, gone, e, f, w) ==
    \A S \in SUBSET Tokens :
        AtSlot(t, S) + Count(sent, S) + Count(gone, S) + One(f, S)
          = AtSlot(s, S) + One(e, S) + One(w, S)

LEMMA NetHeld ==
    ASSUME NEW S, NEW e, NEW f, NEW w, NEW gone, NEW s, Held(S) \in Nat, Held(S)' \in Nat,
           AtSlot(s, S) \in Nat, Count(gone, S) \in Nat,
           One(e, S) \in Nat, One(f, S) \in Nat, One(w, S) \in Nat,
           Held(S)' + One(e, S) + AtSlot(s, S) + (Count(gone, S) + One(f, S))
             = Held(S) + (AtSlot(s, S) + One(e, S) + One(w, S))
    PROVE  Held(S)' + Count(gone, S) + One(f, S) = Held(S) + One(w, S)
OBVIOUS

LEMMA SlotSpends ==
    ASSUME Typed, NEW h \in Handles, NEW t, NEW sent \in Seq(Events), Update(h, t, sent),
           NEW gone \in Seq(Wakers), NEW e, NEW f, NEW w, TakesOut(e),
           Kirchhoff(sockets[h], t, sent, gone, e, f, w), SettledBy(ops, ops', OpsOf(gone))
    PROVE  Spends(gone, f, w)
<1>1. ASSUME NEW S \in SUBSET Tokens
      PROVE  Held(S)' + Count(gone, S) + One(f, S) = Held(S) + One(w, S)
  <2>1. Aside(S)' + One(e, S) = Aside(S) /\ Aside(S)' \in Nat
    BY DEF TakesOut
  <2>2. /\ Held(S)' + One(e, S) + AtSlot(sockets[h], S)
             = Held(S) + AtSlot(t, S) + Count(sent, S)
        /\ Held(S)' \in Nat
    BY <2>1, SlotLedger
  <2>3. AtSlot(t, S) + Count(sent, S) + Count(gone, S) + One(f, S)
          = AtSlot(sockets[h], S) + One(e, S) + One(w, S)
    BY DEF Kirchhoff
  <2>4. /\ Held(S) \in Nat /\ AtSlot(sockets[h], S) \in Nat /\ AtSlot(t, S) \in Nat
        /\ Count(sent, S) \in Nat /\ Count(gone, S) \in Nat
        /\ One(e, S) \in Nat /\ One(f, S) \in Nat /\ One(w, S) \in Nat
    BY HeldType, AtSlotType, CountType, OneType
  <2>5. Held(S)' + One(e, S) + AtSlot(sockets[h], S) + (Count(gone, S) + One(f, S))
          = Held(S) + (AtSlot(t, S) + Count(sent, S) + Count(gone, S) + One(f, S))
    BY <2>2, <2>4
  <2>6. Held(S)' + One(e, S) + AtSlot(sockets[h], S) + (Count(gone, S) + One(f, S))
          = Held(S) + (AtSlot(sockets[h], S) + One(e, S) + One(w, S))
    BY <2>3, <2>5
  <2> QED
    BY <2>2, <2>4, <2>6, NetHeld
<1> QED
  BY <1>1 DEF Spends, Ledger

LEMMA TakesNothing ==
    ASSUME Typed, UNCHANGED <<batch, tcp_events, udp_events>>
    PROVE  TakesOut(NoWaker)
<1>1. ASSUME NEW S \in SUBSET Tokens
      PROVE  Aside(S)' + One(NoWaker, S) = Aside(S) /\ Aside(S)' \in Nat
  <2>1. Aside(S)' = Aside(S)
    BY DEF Aside
  <2> QED
    BY <2>1, HeldType, NoWakerOutside
<1> QED
  BY <1>1 DEF TakesOut

LEMMA HandleTakes == ASSUME Typed, NEW e, Handle(e) PROVE TakesOut(e)
BY HandleAside DEF TakesOut

LEMMA OpTakes == ASSUME Typed, NEW e, TcpEvent(e) \/ UdpEvent(e) PROVE TakesOut(e)
BY OpAside DEF TakesOut

LEMMA DeferTakes == ASSUME Typed, NEW e, Defer(e) PROVE TakesOut(NoWaker)
<1>1. ASSUME NEW S \in SUBSET Tokens
      PROVE  Aside(S)' + One(NoWaker, S) = Aside(S) /\ Aside(S)' \in Nat
  BY DeferAside, HeldType, NoWakerOutside
<1> QED
  BY <1>1 DEF TakesOut

\* Nothing changes in the sockets and in the channel.
LEMMA StillUpdate ==
    ASSUME Typed, UNCHANGED <<sockets, queue>>, NEW h \in Handles
    PROVE  Update(h, sockets[h], <<>>) /\ <<>> \in Seq(Events)
<1>1. sockets \in [Handles -> Sockets] /\ queue \in Seq(Events)
  BY DEF Typed, SocketTypes, FlowTypes
<1>2. [sockets EXCEPT ![h] = sockets[h]] = sockets /\ queue \o <<>> = queue
  BY <1>1
<1> QED
  BY <1>2 DEF Update

\* Only the channel changes: it loses the events of gone and gets w.
LEMMA QueueSpends ==
    ASSUME Typed, UNCHANGED <<batch, tcp_events, udp_events>>, queue' \in Seq(Events),
           NEW gone \in Seq(Wakers), NEW w,
           \A S \in SUBSET Tokens : Parked(sockets', S) = Parked(sockets, S),
           \A S \in SUBSET Tokens : Count(queue', S) + Count(gone, S) = Count(queue, S) + One(w, S)
    PROVE  Ledger(gone, NoWaker, w)
<1>1. ASSUME NEW S \in SUBSET Tokens
      PROVE  Held(S)' + Count(gone, S) + One(NoWaker, S) = Held(S) + One(w, S)
  <2>1. Aside(S)' = Aside(S) /\ Aside(S) \in Nat
    BY HeldType DEF Aside
  <2>2. /\ Parked(sockets', S) = Parked(sockets, S) /\ Parked(sockets, S) \in Nat
        /\ Count(queue', S) + Count(gone, S) = Count(queue, S) + One(w, S)
    BY HeldType
  <2>3. /\ Count(queue', S) \in Nat /\ Count(gone, S) \in Nat /\ Count(queue, S) \in Nat
        /\ One(w, S) \in Nat /\ One(NoWaker, S) = 0
    BY CountType, OneType, HeldType, NoWakerOutside
  <2>4. /\ Held(S) = Count(queue, S) + Aside(S) + Parked(sockets, S)
        /\ Held(S)' = Count(queue', S) + Aside(S)' + Parked(sockets', S)
    BY DEF Held
  <2>5. Held(S)' + Count(gone, S)
          = (Count(queue', S) + Count(gone, S)) + Aside(S) + Parked(sockets, S)
    BY <2>1, <2>2, <2>3, <2>4
  <2>6. Held(S)' \in Nat
    BY <2>1, <2>2, <2>3, <2>4
  <2>7. Held(S)' + Count(gone, S) = (Count(queue, S) + One(w, S)) + Aside(S) + Parked(sockets, S)
    BY <2>2, <2>5
  <2>8. Held(S)' + Count(gone, S) = Held(S) + One(w, S)
    BY <2>1, <2>2, <2>3, <2>4, <2>7
  <2> QED
    BY <2>3, <2>6, <2>8
<1> QED
  BY <1>1 DEF Ledger

-----------------------------------------------------------------------------
(* The ledger of every action: drive_once *)

\* Every slot has the socket that it had.
Kept ==
    \A h \in Handles : sockets'[h].id = sockets[h].id /\ sockets'[h].kind = sockets[h].kind

LEMMA SlotKept ==
    ASSUME Typed, NEW h \in Handles, NEW t, NEW sent, Update(h, t, sent),
           t.id = sockets[h].id, t.kind = sockets[h].kind
    PROVE  Kept
<1>1. sockets'[h] = t /\ \A k \in Handles : k # h => sockets'[k] = sockets[k]
  BY DEF Typed, SocketTypes, Update
<1> QED
  BY <1>1 DEF Kept

\* A socket wakes: what it held is in the slot, sent or lost.
LEMMA WakeBalance ==
    ASSUME NEW s \in Sockets, NEW t \in Sockets, OnlyWakes(s, t)
    PROVE  /\ Silent(s, t) \in Seq(Wakers) /\ Sends(s, t) \in Seq(Events)
           /\ Kirchhoff(s, t, Sends(s, t), Silent(s, t), NoWaker, NoWaker, NoWaker)
<1>1. Silent(s, t) \in Seq(Wakers)
  <2>1. {} \in SUBSET Tokens
    OBVIOUS
  <2> QED
    BY <2>1, WakeLedger
<1>2. ASSUME NEW S \in SUBSET Tokens
      PROVE  AtSlot(t, S) + Count(Sends(s, t), S) + Count(Silent(s, t), S) + One(NoWaker, S)
               = AtSlot(s, S) + One(NoWaker, S) + One(NoWaker, S)
  <2>1. /\ Count(Silent(s, t), S) \in Nat /\ Count(Sends(s, t), S) \in Nat
        /\ Count(Sends(s, t), S) + Count(Silent(s, t), S) + AtSlot(t, S) = AtSlot(s, S)
    BY WakeLedger
  <2>2. One(NoWaker, S) = 0 /\ AtSlot(t, S) \in Nat /\ AtSlot(s, S) \in Nat
    BY NoWakerOutside, AtSlotType
  <2> QED
    BY <2>1, <2>2
<1> QED
  BY <1>1, <1>2, SendsType DEF Kirchhoff

LEMMA EgressSpends ==
    ASSUME Typed, AllShaped, NEW h \in Handles, Egress(h)
    PROVE  Loses /\ Kept
<1> DEFINE s == sockets[h]
           t == Transmit(s)
<1>1. s \in Sockets /\ t \in Sockets /\ OnlyWakes(s, t)
  BY TransmitType, WakeSteps DEF Typed, SocketTypes
<1>2. Update(h, t, Sends(s, t)) /\ ops' = Results(ops, s, t)
  BY DEF Egress, Update
<1>3. Shaped(s.rw) /\ Shaped(s.tw) /\ ops \in [Ops -> Futures]
  BY ShapedSocket DEF Typed, OpTypesOK
<1>4. TakesOut(NoWaker)
  BY TakesNothing DEF Egress
<1> HIDE DEF t
<1>5. SettledBy(ops, ops', OpsOf(Silent(s, t)))
  BY <1>1, <1>2, <1>3, ResultsBy
<1>6. Spends(Silent(s, t), NoWaker, NoWaker)
  BY <1>1, <1>2, <1>4, <1>5, WakeBalance, SlotSpends
<1>7. Kept
  BY <1>1, <1>2, SlotKept DEF OnlyWakes
<1> QED
  BY <1>6, <1>7 DEF Loses

\* The event that is taken out is lost, and the sockets keep their wakers.
LEMMA LoseEvent ==
    ASSUME Typed, NEW e \in Events, TakesOut(e), NEW t, Update(e.h, t, <<>>),
           t.id = sockets[e.h].id, t.kind = sockets[e.h].kind,
           t.rw = sockets[e.h].rw, t.tw = sockets[e.h].tw, SettledBy(ops, ops', {e.op})
    PROVE  Loses /\ Kept
<1>1. e.h \in Handles /\ <<e>> \in Seq(Wakers) /\ <<>> \in Seq(Events)
  BY EventIsWaker DEF Events
<1>2. ASSUME NEW S \in SUBSET Tokens
      PROVE  AtSlot(t, S) + Count(<<>>, S) + Count(<<e>>, S) + One(NoWaker, S)
               = AtSlot(sockets[e.h], S) + One(e, S) + One(NoWaker, S)
  <2>1. AtSlot(t, S) = AtSlot(sockets[e.h], S) /\ AtSlot(t, S) \in Nat
    BY AtSlotType DEF AtSlot
  <2>2. Count(<<>>, S) = 0 /\ Count(<<e>>, S) = One(e, S) /\ One(NoWaker, S) = 0 /\ One(e, S) \in Nat
    BY CountEmpty, CountOne, NoWakerOutside, OneType
  <2> QED
    BY <2>1, <2>2
<1>3. Kirchhoff(sockets[e.h], t, <<>>, <<e>>, e, NoWaker, NoWaker)
  BY <1>2 DEF Kirchhoff
<1>4. SettledBy(ops, ops', OpsOf(<<e>>))
  BY OpsOfOne
<1>5. Spends(<<e>>, NoWaker, NoWaker)
  BY <1>1, <1>3, <1>4, SlotSpends
<1>6. Kept
  BY <1>1, SlotKept
<1> QED
  BY <1>5, <1>6 DEF Loses

\* The event that is taken out becomes a waker of its socket and overwrites v.
LEMMA ParkEvent ==
    ASSUME Typed, NEW e \in Events, TakesOut(e), NEW t, Update(e.h, t, <<>>), NEW v \in Wakers,
           t.id = sockets[e.h].id, t.kind = sockets[e.h].kind,
           \/ v = sockets[e.h].rw /\ t.rw = e /\ t.tw = sockets[e.h].tw
           \/ v = sockets[e.h].tw /\ t.tw = e /\ t.rw = sockets[e.h].rw,
           ops' = Dropped(ops, v)
    PROVE  Loses /\ Kept
<1>1. e.h \in Handles /\ <<v>> \in Seq(Wakers) /\ <<>> \in Seq(Events) /\ ops \in [Ops -> Futures]
  BY DEF Events, Typed, OpTypesOK
<1>2. ASSUME NEW S \in SUBSET Tokens
      PROVE  AtSlot(t, S) + Count(<<>>, S) + Count(<<v>>, S) + One(NoWaker, S)
               = AtSlot(sockets[e.h], S) + One(e, S) + One(NoWaker, S)
  <2>1. Count(<<>>, S) = 0 /\ Count(<<v>>, S) = One(v, S) /\ One(NoWaker, S) = 0 /\ One(e, S) \in Nat
    BY CountEmpty, CountOne, NoWakerOutside, OneType
  <2>2. /\ One(sockets[e.h].rw, S) \in Nat /\ One(sockets[e.h].tw, S) \in Nat
    BY OneType
  <2>3. CASE v = sockets[e.h].rw /\ t.rw = e /\ t.tw = sockets[e.h].tw
    BY <2>1, <2>2, <2>3 DEF AtSlot
  <2>4. CASE v = sockets[e.h].tw /\ t.tw = e /\ t.rw = sockets[e.h].rw
    BY <2>1, <2>2, <2>4 DEF AtSlot
  <2> QED
    BY <2>3, <2>4
<1>3. Kirchhoff(sockets[e.h], t, <<>>, <<v>>, e, NoWaker, NoWaker)
  BY <1>2 DEF Kirchhoff
<1>4. SettledBy(ops, ops', OpsOf(<<v>>))
  BY <1>1, DroppedBy
<1>5. Spends(<<v>>, NoWaker, NoWaker)
  BY <1>1, <1>3, <1>4, SlotSpends
<1>6. Kept
  BY <1>1, SlotKept
<1> QED
  BY <1>5, <1>6 DEF Loses

LEMMA QueueStays ==
    ASSUME Typed, UNCHANGED queue, NEW h, NEW t, sockets' = [sockets EXCEPT ![h] = t]
    PROVE  Update(h, t, <<>>)
<1>1. queue \in Seq(Events)
  BY DEF Typed, FlowTypes
<1>2. queue \o <<>> = queue
  BY <1>1
<1> QED
  BY <1>2 DEF Update

LEMMA HandleOpSpends == ASSUME Typed, NEW e, HandleOp(e) PROVE Loses /\ Kept
<1>1. e \in Events /\ (TcpEvent(e) \/ UdpEvent(e)) /\ Outcome(e)
  BY HandleOpOutcome
<1>2. TakesOut(e) /\ UNCHANGED queue
  BY <1>1, OpTakes DEF TcpEvent, UdpEvent
<1>3. /\ e.h \in Handles /\ sockets[e.h] \in Sockets /\ sockets \in [Handles -> Sockets]
      /\ ops \in [Ops -> Futures]
  BY <1>1 DEF Typed, SocketTypes, OpTypesOK, Events
<1>4. \A r \in {"ok", "eof", "err"} : SettledBy(ops, Settle(ops, {e.op}, r), {e.op})
  BY <1>3, SettleBy DEF Final
<1>5. ASSUME NEW r \in {"ok", "eof", "err"}, Answer(e, r) PROVE Loses /\ Kept
  <2>1. Update(e.h, sockets[e.h], <<>>)
    BY <1>2, <1>3, <1>5, StillUpdate DEF Answer
  <2>2. SettledBy(ops, ops', {e.op})
    BY <1>4, <1>5 DEF Answer
  <2> QED
    BY <1>1, <1>2, <2>1, <2>2, LoseEvent
<1>6. ASSUME NEW rx, NEW tx, NEW r \in {"ok", "eof", "err"}, Move(e, rx, tx, r) PROVE Loses /\ Kept
  <2> DEFINE t == [[sockets[e.h] EXCEPT !.rx = rx] EXCEPT !.tx = tx]
  <2>1. sockets' = [sockets EXCEPT ![e.h] = t]
    BY <1>3, <1>6 DEF Move
  <2>2. /\ t.kind = sockets[e.h].kind /\ t.id = sockets[e.h].id
        /\ t.rw = sockets[e.h].rw /\ t.tw = sockets[e.h].tw
    BY <1>3 DEF Sockets
  <2> HIDE DEF t
  <2>3. SettledBy(ops, ops', {e.op})
    BY <1>4, <1>6 DEF Move
  <2>4. Update(e.h, t, <<>>)
    BY <1>2, <2>1, QueueStays
  <2> QED
    BY <1>1, <1>2, <2>2, <2>3, <2>4, LoseEvent
<1>7. ASSUME ParkRecv(e) PROVE Loses /\ Kept
  <2> DEFINE t == [sockets[e.h] EXCEPT !.rw = e]
  <2>1. sockets' = [sockets EXCEPT ![e.h] = t] /\ ops' = Dropped(ops, sockets[e.h].rw)
    BY <1>3, <1>7 DEF ParkRecv
  <2>2. /\ t.kind = sockets[e.h].kind /\ t.id = sockets[e.h].id
        /\ t.rw = e /\ t.tw = sockets[e.h].tw /\ sockets[e.h].rw \in Wakers
    BY <1>3 DEF Sockets
  <2> HIDE DEF t
  <2>3. Update(e.h, t, <<>>)
    BY <1>2, <2>1, QueueStays
  <2> QED
    BY <1>1, <1>2, <2>1, <2>2, <2>3, ParkEvent
<1>8. ASSUME ParkSend(e) PROVE Loses /\ Kept
  <2> DEFINE t == [sockets[e.h] EXCEPT !.tw = e]
  <2>1. sockets' = [sockets EXCEPT ![e.h] = t] /\ ops' = Dropped(ops, sockets[e.h].tw)
    BY <1>3, <1>8 DEF ParkSend
  <2>2. /\ t.kind = sockets[e.h].kind /\ t.id = sockets[e.h].id
        /\ t.tw = e /\ t.rw = sockets[e.h].rw /\ sockets[e.h].tw \in Wakers
    BY <1>3 DEF Sockets
  <2> HIDE DEF t
  <2>3. Update(e.h, t, <<>>)
    BY <1>2, <2>1, QueueStays
  <2> QED
    BY <1>1, <1>2, <2>1, <2>2, <2>3, ParkEvent
<1> QED
  BY <1>1, <1>5, <1>6, <1>7, <1>8 DEF Outcome

LEMMA NobodySettled ==
    ASSUME UNCHANGED ops
    PROVE  SettledBy(ops, ops', OpsOf(<<>>)) /\ <<>> \in Seq(Wakers)
<1>1. <<>> \in Seq(Wakers)
  OBVIOUS
<1>2. SettledBy(ops, ops', OpsOf(<<>>))
  BY DEF SettledBy, OpsOf
<1> QED
  BY <1>1, <1>2

LEMMA DeferSpends ==
    ASSUME Typed, NEW e \in Events, Defer(e)
    PROVE  Loses /\ Kept
<1>1. e.h \in Handles /\ TakesOut(NoWaker) /\ UNCHANGED <<sockets, queue, ops>>
  BY DeferTakes DEF Events, Defer, sockVars
<1>2. /\ Update(e.h, sockets[e.h], <<>>) /\ <<>> \in Seq(Events) /\ <<>> \in Seq(Wakers)
      /\ SettledBy(ops, ops', OpsOf(<<>>))
  BY <1>1, StillUpdate, NobodySettled
<1>3. ASSUME NEW S \in SUBSET Tokens
      PROVE  AtSlot(sockets[e.h], S) + Count(<<>>, S) + Count(<<>>, S) + One(NoWaker, S)
               = AtSlot(sockets[e.h], S) + One(NoWaker, S) + One(NoWaker, S)
  BY CountEmpty, NoWakerOutside, AtSlotType
<1>4. Kirchhoff(sockets[e.h], sockets[e.h], <<>>, <<>>, NoWaker, NoWaker, NoWaker)
  BY <1>3 DEF Kirchhoff
<1>5. Spends(<<>>, NoWaker, NoWaker)
  BY <1>1, <1>2, <1>4, SlotSpends
<1>6. Kept
  BY <1>1, <1>2, SlotKept
<1> QED
  BY <1>5, <1>6 DEF Loses

LEMMA ReadyNotYetSpends ==
    ASSUME Typed, NEW e \in Events, ReadyNotYet(e)
    PROVE  Loses /\ Kept
<1> DEFINE t == [sockets[e.h] EXCEPT !.rw = e]
<1>1. sockets[e.h] \in Sockets
  BY DEF Typed, SocketTypes, Events
<1>2. /\ sockets' = [sockets EXCEPT ![e.h] = t] /\ ops' = Dropped(ops, sockets[e.h].rw)
      /\ UNCHANGED queue /\ TakesOut(e)
  BY HandleTakes DEF ReadyNotYet
<1>3. /\ t.kind = sockets[e.h].kind /\ t.id = sockets[e.h].id
      /\ t.rw = e /\ t.tw = sockets[e.h].tw /\ sockets[e.h].rw \in Wakers
  BY <1>1 DEF Sockets
<1> HIDE DEF t
<1>4. Update(e.h, t, <<>>)
  BY <1>2, QueueStays
<1> QED
  BY <1>2, <1>3, <1>4, ParkEvent

\* The event that is taken out is used up: nothing else changes.
LEMMA UseEvent ==
    ASSUME Typed, NEW e \in Events, TakesOut(e), UNCHANGED <<sockets, queue, ops>>
    PROVE  Uses(e) /\ Kept
<1>1. e.h \in Handles
  BY DEF Events
<1>2. /\ Update(e.h, sockets[e.h], <<>>) /\ <<>> \in Seq(Events) /\ <<>> \in Seq(Wakers)
      /\ SettledBy(ops, ops', OpsOf(<<>>))
  BY <1>1, StillUpdate, NobodySettled
<1>3. ASSUME NEW S \in SUBSET Tokens
      PROVE  AtSlot(sockets[e.h], S) + Count(<<>>, S) + Count(<<>>, S) + One(e, S)
               = AtSlot(sockets[e.h], S) + One(e, S) + One(NoWaker, S)
  <2>1. Count(<<>>, S) = 0 /\ One(NoWaker, S) = 0 /\ AtSlot(sockets[e.h], S) \in Nat
        /\ One(e, S) \in Nat
    BY CountEmpty, NoWakerOutside, AtSlotType, OneType
  <2> QED
    BY <2>1
<1>4. Kirchhoff(sockets[e.h], sockets[e.h], <<>>, <<>>, e, e, NoWaker)
  BY <1>3 DEF Kirchhoff
<1>5. Spends(<<>>, e, NoWaker)
  BY <1>1, <1>2, <1>4, SlotSpends
<1>6. Kept
  BY <1>1, <1>2, SlotKept
<1> QED
  BY <1>5, <1>6 DEF Uses

LEMMA AnnounceSpends ==
    ASSUME Typed, NEW e \in Events, Announce(e)
    PROVE  Uses(e) /\ Kept
<1>1. TakesOut(e) /\ UNCHANGED <<sockets, queue, ops>>
  BY HandleTakes DEF Announce, sockVars
<1> QED
  BY <1>1, UseEvent

\* The waker that handle_shutdown_event makes of event e.
DoneOf(e) == [e EXCEPT !.type = "ShutdownDone"]

LEMMA DoneType ==
    ASSUME NEW e \in Events
    PROVE  /\ DoneOf(e) \in Wakers
           /\ DoneOf(e).op = e.op /\ DoneOf(e).type = "ShutdownDone"
BY DEF DoneOf, Events, Wakers

LEMMA DoneShaped ==
    ASSUME NEW e \in Events, Shaped(e), e.type = "Shutdown"
    PROVE  Shaped(DoneOf(e))
BY DoneType DEF Shaped, OpTypes

LEMMA HandleShutdownSpends ==
    ASSUME Typed, AllShaped, NEW e \in Events, Shaped(e), HandleShutdown(e)
    PROVE  (Loses \/ Turns(e, DoneOf(e))) /\ Kept
<1> DEFINE old == sockets[e.h]
           s == [old EXCEPT !.tw = DoneOf(e)]
           t == TcpClose(s)
<1>0. /\ old \in Sockets /\ e.h \in Handles /\ ops \in [Ops -> Futures] /\ TakesOut(e)
      /\ e.type = "Shutdown"
  BY HandleTakes DEF Typed, SocketTypes, OpTypesOK, Events, HandleShutdown
<1>1. CASE ~Registered(e)
  <2>1. UNCHANGED <<sockets, queue>> /\ ops' = Settle(ops, {e.op}, "err")
    BY <1>1 DEF HandleShutdown
  <2>2. Update(e.h, sockets[e.h], <<>>)
    BY <1>0, <2>1, StillUpdate
  <2>3. SettledBy(ops, ops', {e.op})
    BY <1>0, <2>1, SettleBy DEF Final
  <2> QED
    BY <1>0, <2>2, <2>3, LoseEvent
<1>2. CASE Registered(e)
  <2>1. /\ sockets' = [sockets EXCEPT ![e.h] = t] /\ queue' = queue \o Sends(s, t)
        /\ ops' = Dropped(Results(ops, s, t), old.tw)
    BY <1>2 DEF HandleShutdown, Wakes, DoneOf
  <2>2. Update(e.h, t, Sends(s, t))
    BY <2>1 DEF Update
  <2>3. s \in Sockets /\ s.rw = old.rw /\ s.tw = DoneOf(e) /\ s.id = old.id /\ s.kind = old.kind
    BY <1>0, DoneType DEF Sockets
  <2> HIDE DEF s
  <2>4. t \in Sockets /\ OnlyWakes(s, t) /\ old.tw \in Wakers
    BY <1>0, <2>3, TcpCloseType, WakeSteps DEF Sockets
  <2> HIDE DEF t
  <2> DEFINE woken == Silent(s, t)
             gone == <<old.tw>> \o woken
  <2>5. /\ woken \in Seq(Wakers) /\ Sends(s, t) \in Seq(Events)
        /\ Kirchhoff(s, t, Sends(s, t), woken, NoWaker, NoWaker, NoWaker)
    BY <2>3, <2>4, WakeBalance
  <2>6. SettledBy(ops, Results(ops, s, t), OpsOf(woken))
    BY <1>0, <2>3, <2>4, DoneShaped, ShapedSocket, ResultsBy
  <2> HIDE DEF woken
  <2>7. <<old.tw>> \in Seq(Wakers) /\ gone \in Seq(Wakers)
    BY <2>4, <2>5
  <2>8. SettledBy(ops, ops', OpsOf(gone))
    <3>1. Results(ops, s, t) \in [Ops -> Futures]
      BY <1>0, ResultsType
    <3>2. SettledBy(Results(ops, s, t), ops', OpsOf(<<old.tw>>))
      BY <2>1, <3>1, DroppedBy
    <3> QED
      BY <2>5, <2>6, <2>7, <3>2, SettledConcat, Zenon
  <2>9. ASSUME NEW S \in SUBSET Tokens
        PROVE  AtSlot(t, S) + Count(Sends(s, t), S) + Count(gone, S) + One(e, S)
                 = AtSlot(old, S) + One(e, S) + One(DoneOf(e), S)
    <3>1. AtSlot(t, S) + Count(Sends(s, t), S) + Count(woken, S) + One(NoWaker, S)
            = AtSlot(s, S) + One(NoWaker, S) + One(NoWaker, S)
      BY <2>5 DEF Kirchhoff
    <3>2. Count(gone, S) = One(old.tw, S) + Count(woken, S)
      <4>1. Count(gone, S) = Count(<<old.tw>>, S) + Count(woken, S)
        BY <2>5, <2>7, CountConcat, Zenon
      <4>2. Count(<<old.tw>>, S) = One(old.tw, S)
        BY CountOne, Zenon
      <4> QED
        BY <4>1, <4>2, Zenon
    <3>3. /\ AtSlot(s, S) = One(old.rw, S) + One(DoneOf(e), S)
          /\ AtSlot(old, S) = One(old.rw, S) + One(old.tw, S)
      BY <2>3 DEF AtSlot
    <3>4. /\ AtSlot(t, S) \in Nat /\ Count(Sends(s, t), S) \in Nat /\ Count(woken, S) \in Nat
          /\ One(NoWaker, S) = 0 /\ One(old.rw, S) \in Nat /\ One(old.tw, S) \in Nat
          /\ One(DoneOf(e), S) \in Nat /\ One(e, S) \in Nat
      BY <2>5, AtSlotType, CountType, NoWakerOutside, OneType
    <3> HIDE DEF old, gone
    <3>5. AtSlot(t, S) + Count(Sends(s, t), S) + Count(woken, S) = One(old.rw, S) + One(DoneOf(e), S)
      BY <3>1, <3>3, <3>4
    <3> QED
      BY <3>2, <3>3, <3>4, <3>5
  <2>10. Kirchhoff(sockets[e.h], t, Sends(s, t), gone, e, e, DoneOf(e))
    BY <2>9 DEF Kirchhoff
  <2> HIDE DEF gone
  <2>11. Spends(gone, e, DoneOf(e))
    BY <1>0, <2>2, <2>5, <2>7, <2>8, <2>10, SlotSpends
  <2>12. Kept
    BY <1>0, <2>2, <2>3, <2>4, SlotKept DEF OnlyWakes
  <2> QED
    BY <2>11, <2>12 DEF Turns
<1> QED
  BY <1>1, <1>2

\* Slot h is emptied; the others have the socket that they had.
Cleared(h) ==
    /\ sockets'[h] = NoSocket
    /\ \A k \in Handles \ {h} : sockets'[k].id = sockets[k].id /\ sockets'[k].kind = sockets[k].kind

\* The socket of a Close event after close().
ClosedBy(e) == IF e.kind = "tcp" THEN TcpClose(sockets[e.h]) ELSE UdpClose(sockets[e.h])

LEMMA ClosedByType ==
    ASSUME Typed, AllShaped, NEW e \in Events
    PROVE  /\ sockets[e.h] \in Sockets /\ ClosedBy(e) \in Sockets /\ e.h \in Handles
           /\ OnlyWakes(sockets[e.h], ClosedBy(e))
           /\ Silent(sockets[e.h], ClosedBy(e)) \in Seq(Wakers)
           /\ SettledBy(ops, Results(ops, sockets[e.h], ClosedBy(e)),
                        OpsOf(Silent(sockets[e.h], ClosedBy(e))))
           /\ Results(ops, sockets[e.h], ClosedBy(e)) \in [Ops -> Futures]
<1>1. e.h \in Handles /\ sockets[e.h] \in Sockets /\ ops \in [Ops -> Futures]
  BY DEF Typed, SocketTypes, OpTypesOK, Events
<1>2. ClosedBy(e) \in Sockets /\ OnlyWakes(sockets[e.h], ClosedBy(e))
  BY <1>1, TcpCloseType, UdpCloseType, WakeSteps DEF ClosedBy
<1>3. Silent(sockets[e.h], ClosedBy(e)) \in Seq(Wakers)
  BY <1>1, <1>2, WakeBalance
<1>4. Results(ops, sockets[e.h], ClosedBy(e)) \in [Ops -> Futures]
  BY <1>1, ResultsType
<1>5. Shaped(sockets[e.h].rw) /\ Shaped(sockets[e.h].tw)
  BY <1>1, ShapedSocket
<1> QED
  BY <1>1, <1>2, <1>3, <1>4, <1>5, ResultsBy

LEMMA AwaitInactiveSpends ==
    ASSUME Typed, AllShaped, NEW e \in Events, TakesOut(e), AwaitInactive(e, ClosedBy(e))
    PROVE  Loses /\ Kept
<1> DEFINE old == sockets[e.h]
           s == ClosedBy(e)
           t == [s EXCEPT !.rw = e]
           woken == Silent(old, s)
           gone == woken \o <<s.rw>>
<1>1. /\ old \in Sockets /\ s \in Sockets /\ e.h \in Handles /\ OnlyWakes(old, s)
      /\ woken \in Seq(Wakers)
      /\ SettledBy(ops, Results(ops, old, s), OpsOf(woken))
      /\ Results(ops, old, s) \in [Ops -> Futures]
  BY ClosedByType
<1>2. /\ Update(e.h, t, Sends(old, s))
      /\ ops' = Dropped(Results(ops, old, s), s.rw)
  BY DEF AwaitInactive, Wakes, Update
<1> HIDE DEF s, old
<1>3. t.rw = e /\ t.tw = s.tw /\ t.id = s.id /\ t.kind = s.kind /\ s.rw \in Wakers
  BY <1>1 DEF Sockets
<1>4. Sends(old, s) \in Seq(Events)
      /\ Kirchhoff(old, s, Sends(old, s), woken, NoWaker, NoWaker, NoWaker)
  BY <1>1, WakeBalance
<1> HIDE DEF t, woken
<1>5. <<s.rw>> \in Seq(Wakers) /\ gone \in Seq(Wakers)
  BY <1>1, <1>3
<1>6. SettledBy(ops, ops', OpsOf(gone))
  <2>1. SettledBy(Results(ops, old, s), ops', OpsOf(<<s.rw>>))
    BY <1>1, <1>2, DroppedBy
  <2> QED
    BY <1>1, <1>5, <2>1, SettledConcat, Zenon
<1>7. ASSUME NEW S \in SUBSET Tokens
      PROVE  AtSlot(t, S) + Count(Sends(old, s), S) + Count(gone, S) + One(NoWaker, S)
               = AtSlot(old, S) + One(e, S) + One(NoWaker, S)
  <2>1. AtSlot(s, S) + Count(Sends(old, s), S) + Count(woken, S) + One(NoWaker, S)
          = AtSlot(old, S) + One(NoWaker, S) + One(NoWaker, S)
    BY <1>4 DEF Kirchhoff
  <2>2. Count(gone, S) = Count(woken, S) + One(s.rw, S)
    <3>1. Count(gone, S) = Count(woken, S) + Count(<<s.rw>>, S)
      BY <1>1, <1>5, CountConcat, Zenon
    <3>2. Count(<<s.rw>>, S) = One(s.rw, S)
      BY CountOne, Zenon
    <3> QED
      BY <3>1, <3>2, Zenon
  <2>3. /\ AtSlot(s, S) = One(s.rw, S) + One(s.tw, S)
        /\ AtSlot(t, S) = One(e, S) + One(s.tw, S)
    BY <1>3 DEF AtSlot
  <2>4. /\ AtSlot(old, S) \in Nat /\ Count(Sends(old, s), S) \in Nat /\ Count(woken, S) \in Nat
        /\ One(NoWaker, S) = 0 /\ One(s.rw, S) \in Nat /\ One(s.tw, S) \in Nat /\ One(e, S) \in Nat
    BY <1>1, <1>4, AtSlotType, CountType, NoWakerOutside, OneType
  <2> HIDE DEF gone
  <2>5. One(s.rw, S) + One(s.tw, S) + Count(Sends(old, s), S) + Count(woken, S) = AtSlot(old, S)
    BY <2>1, <2>3, <2>4
  <2> QED
    BY <2>2, <2>3, <2>4, <2>5
<1>8. Kirchhoff(sockets[e.h], t, Sends(old, s), gone, e, NoWaker, NoWaker)
  BY <1>7 DEF Kirchhoff, old
<1> HIDE DEF gone
<1>9. Spends(gone, NoWaker, NoWaker)
  BY <1>1, <1>2, <1>4, <1>5, <1>6, <1>8, SlotSpends
<1>10. Kept
  BY <1>1, <1>2, <1>3, SlotKept DEF OnlyWakes, old
<1> QED
  BY <1>9, <1>10 DEF Loses

LEMMA RemoveSpends ==
    ASSUME Typed, AllShaped, NEW e \in Events, TakesOut(e), Remove(e, ClosedBy(e))
    PROVE  Uses(e) /\ Cleared(e.h)
<1> DEFINE old == sockets[e.h]
           s == ClosedBy(e)
           woken == Silent(old, s)
           gone == (woken \o <<s.rw>>) \o <<s.tw>>
<1>1. /\ old \in Sockets /\ s \in Sockets /\ e.h \in Handles /\ OnlyWakes(old, s)
      /\ woken \in Seq(Wakers)
      /\ SettledBy(ops, Results(ops, old, s), OpsOf(woken))
      /\ Results(ops, old, s) \in [Ops -> Futures]
  BY ClosedByType
<1>2. /\ Update(e.h, NoSocket, Sends(old, s))
      /\ ops' = Dropped(Dropped(Results(ops, old, s), s.rw), s.tw)
  BY DEF Remove, Update
<1> HIDE DEF s, old
<1>3. s.rw \in Wakers /\ s.tw \in Wakers
  BY <1>1 DEF Sockets
<1>4. Sends(old, s) \in Seq(Events)
      /\ Kirchhoff(old, s, Sends(old, s), woken, NoWaker, NoWaker, NoWaker)
  BY <1>1, WakeBalance
<1> HIDE DEF woken
<1>5. <<s.rw>> \in Seq(Wakers) /\ <<s.tw>> \in Seq(Wakers) /\ woken \o <<s.rw>> \in Seq(Wakers)
  BY <1>1, <1>3
<1>6. gone \in Seq(Wakers)
  BY <1>5
<1>7. SettledBy(ops, ops', OpsOf(gone))
  <2> DEFINE f == Results(ops, old, s)
             g == Dropped(f, s.rw)
  <2>1. SettledBy(f, g, OpsOf(<<s.rw>>)) /\ g \in [Ops -> Futures]
    BY <1>1, DroppedBy, DroppedType
  <2>2. SettledBy(g, ops', OpsOf(<<s.tw>>))
    BY <1>2, <2>1, DroppedBy
  <2>3. SettledBy(ops, f, OpsOf(woken))
    BY <1>1
  <2> HIDE DEF f, g
  <2>4. SettledBy(ops, g, OpsOf(woken \o <<s.rw>>))
    BY <1>1, <1>5, <2>1, <2>3, SettledConcat, Zenon
  <2> QED
    BY <1>5, <2>2, <2>4, SettledConcat, Zenon
<1>8. ASSUME NEW S \in SUBSET Tokens
      PROVE  AtSlot(NoSocket, S) + Count(Sends(old, s), S) + Count(gone, S) + One(e, S)
               = AtSlot(old, S) + One(e, S) + One(NoWaker, S)
  <2>1. AtSlot(s, S) + Count(Sends(old, s), S) + Count(woken, S) + One(NoWaker, S)
          = AtSlot(old, S) + One(NoWaker, S) + One(NoWaker, S)
    BY <1>4 DEF Kirchhoff
  <2>2. Count(gone, S) = Count(woken, S) + One(s.rw, S) + One(s.tw, S)
    <3>1. Count(gone, S) = Count(woken \o <<s.rw>>, S) + Count(<<s.tw>>, S)
      BY <1>5, CountConcat, Zenon
    <3>2. Count(woken \o <<s.rw>>, S) = Count(woken, S) + Count(<<s.rw>>, S)
      BY <1>1, <1>5, CountConcat, Zenon
    <3>3. Count(<<s.rw>>, S) = One(s.rw, S) /\ Count(<<s.tw>>, S) = One(s.tw, S)
      BY CountOne, Zenon
    <3> QED
      BY <3>1, <3>2, <3>3, Zenon
  <2>3. AtSlot(s, S) = One(s.rw, S) + One(s.tw, S) /\ AtSlot(NoSocket, S) = 0
    <3>1. One(NoSocket.rw, S) = 0 /\ One(NoSocket.tw, S) = 0
      BY NoWakerOutside DEF NoSocket
    <3> QED
      BY <3>1 DEF AtSlot
  <2>4. /\ AtSlot(old, S) \in Nat /\ Count(Sends(old, s), S) \in Nat /\ Count(woken, S) \in Nat
        /\ One(NoWaker, S) = 0 /\ One(s.rw, S) \in Nat /\ One(s.tw, S) \in Nat /\ One(e, S) \in Nat
    BY <1>1, <1>4, AtSlotType, CountType, NoWakerOutside, OneType
  <2> HIDE DEF gone
  <2>5. One(s.rw, S) + One(s.tw, S) + Count(Sends(old, s), S) + Count(woken, S) = AtSlot(old, S)
    BY <2>1, <2>3, <2>4
  <2> QED
    BY <2>2, <2>3, <2>4, <2>5
<1>9. Kirchhoff(sockets[e.h], NoSocket, Sends(old, s), gone, e, e, NoWaker)
  BY <1>8 DEF Kirchhoff, old
<1> HIDE DEF gone
<1>10. Spends(gone, e, NoWaker)
  BY <1>1, <1>2, <1>4, <1>6, <1>7, <1>9, SlotSpends
<1>11. Cleared(e.h)
  BY <1>1, <1>2 DEF Cleared, Update, Typed, SocketTypes
<1> QED
  BY <1>10, <1>11 DEF Uses

LEMMA HandleCloseSpends ==
    ASSUME Typed, AllShaped, NEW e \in Events, HandleClose(e)
    PROVE  \/ Loses /\ Kept
           \/ Uses(e) /\ ~Registered(e) /\ Kept
           \/ Uses(e) /\ Registered(e) /\ Cleared(e.h)
<1>1. TakesOut(e)
  BY HandleTakes DEF HandleClose
<1>2. \/ ~Registered(e) /\ UNCHANGED <<sockets, queue, ops>>
      \/ AwaitInactive(e, ClosedBy(e))
      \/ Registered(e) /\ Remove(e, ClosedBy(e))
  BY DEF HandleClose, ClosedBy
<1> QED
  BY <1>1, <1>2, UseEvent, AwaitInactiveSpends, RemoveSpends

\* The driver's events are dropped with the error.
LEMMA FailSpends ==
    ASSUME Typed, NEW n \in Batches, Fail(n),
           \A S \in SUBSET Tokens : Parked(sockets', S) = Parked(sockets, S)
    PROVE  Loses
<1> DEFINE gone == SubSeq(queue, 1, n)
<1>1. queue \in Seq(Events) /\ n \in 0..Len(queue) /\ ops \in [Ops -> Futures]
  BY DEF Typed, FlowTypes, OpTypesOK, Batches
<1>2. gone \in Seq(Events) /\ SubSeq(queue, n + 1, Len(queue)) \in Seq(Events)
  BY <1>1, SplitType
<1>3. gone \in Seq(Wakers)
  BY <1>2, EventIsWaker
<1>4. /\ queue' = SubSeq(queue, n + 1, Len(queue)) /\ ops' = Settle(ops, OpsOf(gone), "lost")
      /\ UNCHANGED <<batch, tcp_events, udp_events>>
  BY DEF Fail, driveVars
<1>5. SettledBy(ops, ops', OpsOf(gone))
  BY <1>1, <1>4, SettleBy DEF Final
<1>6. ASSUME NEW S \in SUBSET Tokens
      PROVE  Count(queue', S) + Count(gone, S) = Count(queue, S) + One(NoWaker, S)
  <2>1. Count(queue, S) = Count(gone, S) + Count(SubSeq(queue, n + 1, Len(queue)), S)
    BY <1>1, CountSplit
  <2>2. Count(gone, S) \in Nat /\ Count(SubSeq(queue, n + 1, Len(queue)), S) \in Nat
    BY <1>2, CountType
  <2>3. One(NoWaker, S) = 0
    BY NoWakerOutside
  <2> QED
    BY <1>4, <2>1, <2>2, <2>3
<1> HIDE DEF gone
<1>7. Ledger(gone, NoWaker, NoWaker)
  BY <1>2, <1>3, <1>4, <1>6, QueueSpends
<1> QED
  BY <1>3, <1>5, <1>7 DEF Spends, Loses

LEMMA DriveOnlySpends ==
    ASSUME Typed, Tidy, NEW n \in Batches, DriveOnly(n)
    PROVE  Loses /\ Kept
<1>1. sockets \in [Handles -> Sockets] /\ <<>> \in Seq(Events) /\ Begin(n, sockets, <<>>)
  BY DEF Typed, SocketTypes, DriveOnly
<1>2. ASSUME NEW S \in SUBSET Tokens
      PROVE  Held(S)' + Count(<<>>, S) + One(NoWaker, S) = Held(S) + One(NoWaker, S)
  <2>1. Held(S)' + Parked(sockets, S) = Held(S) + Parked(sockets, S) + Count(<<>>, S)
    BY <1>1, BeginLedger
  <2>2. Count(<<>>, S) = 0 /\ One(NoWaker, S) = 0 /\ Parked(sockets, S) \in Nat /\ Held(S) \in Nat
    BY CountEmpty, NoWakerOutside, HeldType
  <2>3. Held(S)' \in Nat
    <3>1. FlowTypes'
      BY <1>1, BeginTyped
    <3> QED
      BY <3>1, HeldAfter
  <2> QED
    BY <2>1, <2>2, <2>3
<1>3. SettledBy(ops, ops', OpsOf(<<>>)) /\ <<>> \in Seq(Wakers)
  BY NobodySettled DEF DriveOnly
<1>4. Spends(<<>>, NoWaker, NoWaker)
  BY <1>2, <1>3 DEF Spends, Ledger
<1>5. Kept
  BY <1>1 DEF Kept, Begin
<1> QED
  BY <1>4, <1>5 DEF Loses

LEMMA PollsKept ==
    ASSUME Typed, NEW n, NEW k \in Handles, NEW t, OnlyWakes(sockets[k], t), Polls(n, sockets, k, t)
    PROVE  Kept
BY DEF Typed, SocketTypes, OnlyWakes, Polls, Begin, Kept

LEMMA DriveUnannouncedSpends ==
    ASSUME Typed, Tidy, NEW d \in UdpAddrs, NEW n \in Batches, DriveUnannounced(d, n)
    PROVE  \E h \in Handles : Given(h, "udp") /\ Loses
<1>1. PICK h \in Handles : h \in FreeHandles /\ sockets' = [sockets EXCEPT ![h] = UdpBound(next_id, d)]
  BY DEF DriveUnannounced, IsFirst
<1> DEFINE t == UdpBound(next_id, d)
<1>2. t.kind = "udp" /\ t.id = next_id /\ t.rw = NoWaker /\ t.tw = NoWaker
  BY DEF UdpBound, NoSocket
<1>3. sockets'[h] = t /\ \A k \in Handles : k # h => sockets'[k] = sockets[k]
  BY <1>1 DEF Typed, SocketTypes
<1> HIDE DEF t
<1>4. ASSUME NEW S \in SUBSET Tokens PROVE Parked(sockets', S) = Parked(sockets, S)
  <2>1. ASSUME NEW tt, Beside(sockets, tt, h), tt[h] = t PROVE Parked(tt, S) = Parked(sockets, S)
    <3>1. Parked(tt, S) = Parked(sockets, S) + AtSlot(tt[h], S)
      BY <1>1, <2>1, ParkedFresh
    <3>2. AtSlot(tt[h], S) = 0
      BY <1>2, <2>1, NoWakerOutside DEF AtSlot
    <3> QED
      BY <3>1, <3>2, ParkedType
  <2>2. Beside(sockets, sockets', h)
    BY <1>3 DEF Beside
  <2> QED
    BY <1>3, <2>1, <2>2, Zenon
<1>5. Loses
  BY <1>4, FailSpends DEF DriveUnannounced
<1>6. Given(h, "udp")
  BY <1>1, <1>2, <1>3 DEF Given
<1> QED
  BY <1>5, <1>6

LEMMA DriveSpends ==
    ASSUME Typed, Tidy, AllShaped, Drive
    PROVE  /\ UNCHANGED <<accepted, streams, stack>>
           /\ \/ Loses /\ Kept /\ UNCHANGED next_id
              \/ /\ next_id <= MaxIds /\ next_id' = next_id + 1
                 /\ \E h \in Handles, kind \in Kinds :
                        Given(h, kind) /\ (Loses \/ Turns(NoWaker, Ready(h, kind)))
<1>1. PICK n \in Batches :
        \/ \E c \in Conns : DriveSyn(c, n)
        \/ \E c \in Conns, seg \in Segments : DriveSegment(c, seg, n)
        \/ \E d \in UdpAddrs : DriveDatagram(d, n)
        \/ \E d \in UdpAddrs : DriveNewUdp(d, n)
        \/ DriveOnly(n)
        \/ \E k \in Handles : DriveExpire(k, n)
        \/ \E d \in TcpAddrs \cup UdpAddrs : DriveRefused(d, n)
        \/ \E d \in UdpAddrs : DriveUnannounced(d, n)
  BY DEF Drive
<1> DEFINE Goal == Loses /\ Kept /\ UNCHANGED <<next_id, accepted, streams, stack>>
<1>2. sockets \in [Handles -> Sockets]
  BY DEF Typed, SocketTypes
<1>3. ASSUME NEW k \in Handles, NEW t \in Sockets, OnlyWakes(sockets[k], t), Polls(n, sockets, k, t)
      PROVE  Loses /\ Kept /\ UNCHANGED <<accepted, streams, stack>>
  <2>1. UNCHANGED <<accepted, streams, stack>>
    BY <1>3 DEF Polls, Begin, userVars, lifeVars
  <2> QED
    BY <1>3, <2>1, SamePollsSpends, PollsKept
<1>4. ASSUME NEW c \in Conns, NEW seg, DriveSegment(c, seg, n) PROVE Goal
  <2>1. PICK k \in Handles : Polls(n, sockets, k, Process(sockets[k], c, seg))
    BY <1>4 DEF DriveSegment, Polls
  <2>2. Process(sockets[k], c, seg) \in Sockets /\ OnlyWakes(sockets[k], Process(sockets[k], c, seg))
    BY <1>2, ProcessType, WakeSteps
  <2>3. UNCHANGED next_id
    BY <1>4 DEF DriveSegment
  <2> QED
    BY <1>3, <2>1, <2>2, <2>3
<1>5. ASSUME NEW d, DriveDatagram(d, n) PROVE Goal
  <2>1. PICK k \in Handles : Polls(n, sockets, k, Datagram(sockets[k]))
    BY <1>5 DEF DriveDatagram, Polls
  <2>2. Datagram(sockets[k]) \in Sockets /\ OnlyWakes(sockets[k], Datagram(sockets[k]))
    BY <1>2, DatagramType, WakeSteps
  <2>3. UNCHANGED next_id
    BY <1>5 DEF DriveDatagram
  <2> QED
    BY <1>3, <2>1, <2>2, <2>3
<1>6. ASSUME NEW k \in Handles, DriveExpire(k, n) PROVE Goal
  <2>1. Polls(n, sockets, k, Expire(sockets[k])) /\ UNCHANGED next_id
    BY <1>6 DEF DriveExpire, Polls
  <2>2. Expire(sockets[k]) \in Sockets /\ OnlyWakes(sockets[k], Expire(sockets[k]))
    BY <1>2, ExpireType, WakeSteps
  <2> QED
    BY <1>3, <2>1, <2>2
<1>7. ASSUME DriveOnly(n) PROVE Goal
  <2>1. UNCHANGED <<next_id, accepted, streams, stack>>
    BY <1>7 DEF DriveOnly, Begin, userVars, lifeVars
  <2> QED
    BY <1>7, <2>1, DriveOnlySpends
<1>8. ASSUME NEW d, DriveRefused(d, n) PROVE Goal
  <2>1. Fail(n) /\ UNCHANGED sockets /\ UNCHANGED <<next_id, accepted, streams, stack>>
    BY <1>8 DEF DriveRefused, Fail, sockVars, userVars, lifeVars
  <2>2. Kept
    BY <2>1 DEF Kept
  <2>3. \A S \in SUBSET Tokens : Parked(sockets', S) = Parked(sockets, S)
    BY <2>1
  <2> QED
    BY <2>1, <2>2, <2>3, FailSpends
<1>9. ASSUME NEW c \in Conns, DriveSyn(c, n)
      PROVE  /\ next_id <= MaxIds /\ next_id' = next_id + 1 /\ UNCHANGED <<accepted, streams, stack>>
             /\ \E h \in Handles : Given(h, "tcp") /\ Turns(NoWaker, Ready(h, "tcp"))
  <2>1. next_id <= MaxIds /\ next_id' = next_id + 1 /\ UNCHANGED <<accepted, streams, stack>>
    BY <1>9 DEF DriveSyn, Begin, userVars, lifeVars
  <2> QED
    BY <1>9, <2>1, DriveSynSpends
<1>10. ASSUME NEW d \in UdpAddrs, DriveNewUdp(d, n)
       PROVE  /\ next_id <= MaxIds /\ next_id' = next_id + 1 /\ UNCHANGED <<accepted, streams, stack>>
              /\ \E h \in Handles : Given(h, "udp") /\ Turns(NoWaker, Ready(h, "udp"))
  <2>1. next_id <= MaxIds /\ next_id' = next_id + 1 /\ UNCHANGED <<accepted, streams, stack>>
    BY <1>10 DEF DriveNewUdp, Begin, userVars, lifeVars
  <2> QED
    BY <1>10, <2>1, DriveNewUdpSpends
<1>11. ASSUME NEW d \in UdpAddrs, DriveUnannounced(d, n)
       PROVE  /\ next_id <= MaxIds /\ next_id' = next_id + 1 /\ UNCHANGED <<accepted, streams, stack>>
              /\ \E h \in Handles : Given(h, "udp") /\ Loses
  <2>1. next_id <= MaxIds /\ next_id' = next_id + 1 /\ UNCHANGED <<accepted, streams, stack>>
    BY <1>11 DEF DriveUnannounced, Fail, userVars, lifeVars
  <2> QED
    BY <1>11, <2>1, DriveUnannouncedSpends
<1>12. "tcp" \in Kinds /\ "udp" \in Kinds
  BY DEF Kinds
<1> HIDE DEF Goal
<1>13. Goal \/ (/\ next_id <= MaxIds /\ next_id' = next_id + 1 /\ UNCHANGED <<accepted, streams, stack>>
                /\ \E h \in Handles, kind \in Kinds :
                        Given(h, kind) /\ (Loses \/ Turns(NoWaker, Ready(h, kind))))
  BY <1>1, <1>4, <1>5, <1>6, <1>7, <1>8, <1>9, <1>10, <1>11, <1>12
<1> QED
  BY <1>13 DEF Goal

-----------------------------------------------------------------------------
(* The ledger of every action: the users, and what is dropped *)

\* Nothing of the stack changes.
LEMMA StillSpends ==
    ASSUME Typed, UNCHANGED <<sockets, queue, batch, tcp_events, udp_events>>
    PROVE  Ledger(<<>>, NoWaker, NoWaker) /\ Kept
<1>1. queue' \in Seq(Events) /\ <<>> \in Seq(Wakers)
  BY DEF Typed, FlowTypes
<1>2. ASSUME NEW S \in SUBSET Tokens
      PROVE  Count(queue', S) + Count(<<>>, S) = Count(queue, S) + One(NoWaker, S)
  BY CountEmpty, NoWakerOutside, HeldType
<1>3. \A S \in SUBSET Tokens : Parked(sockets', S) = Parked(sockets, S)
  OBVIOUS
<1>4. Ledger(<<>>, NoWaker, NoWaker)
  BY <1>1, <1>2, <1>3, QueueSpends
<1> QED
  BY <1>4 DEF Kept

\* A user sends event w.
LEMMA SendSpends ==
    ASSUME Typed, UNCHANGED <<sockets, batch, tcp_events, udp_events>>, NEW w \in Events,
           queue' = Append(queue, w)
    PROVE  Ledger(<<>>, NoWaker, w) /\ Kept
<1>1. queue \in Seq(Events) /\ queue' \in Seq(Events) /\ <<>> \in Seq(Wakers)
  BY DEF Typed, FlowTypes
<1>2. ASSUME NEW S \in SUBSET Tokens
      PROVE  Count(queue', S) + Count(<<>>, S) = Count(queue, S) + One(w, S)
  <2>1. Count(Append(queue, w), S) = Count(queue, S) + One(w, S)
    BY <1>1, CountAppend
  <2>2. Count(<<>>, S) = 0 /\ Count(queue, S) \in Nat /\ One(w, S) \in Nat
    BY CountEmpty, HeldType, OneType
  <2> QED
    BY <2>1, <2>2
<1>3. \A S \in SUBSET Tokens : Parked(sockets', S) = Parked(sockets, S)
  OBVIOUS
<1>4. Ledger(<<>>, NoWaker, w)
  BY <1>1, <1>2, <1>3, QueueSpends
<1> QED
  BY <1>4 DEF Kept

LEMMA AcceptSpends ==
    ASSUME Typed, NEW k, Accept(k) \/ DropAcceptor(k)
    PROVE  Loses /\ Kept
<1>1. UNCHANGED <<sockets, queue, batch, tcp_events, udp_events, ops>>
  BY DEF Accept, DropAcceptor, sockVars, driveVars
<1> QED
  BY <1>1, StillSpends, NobodySettled DEF Spends, Loses

LEMMA CloseType ==
    ASSUME NEW i \in Infos
    PROVE  Event("Close", i, None) \in Events /\ Event("Close", i, None).op = None
BY DEF Infos, Event, Events, EventTypes

LEMMA DropStreamSpends ==
    ASSUME Typed, NEW i \in streams, DropStream(i)
    PROVE  Kept /\ (Loses \/ Turns(NoWaker, Event("Close", i, None)))
<1>1. /\ UNCHANGED <<sockets, batch, tcp_events, udp_events, ops>>
      /\ queue' = queue \/ queue' = Append(queue, Event("Close", i, None))
  BY DEF DropStream, sockVars, driveVars
<1>2. i \in Infos
  BY DEF Typed, UserTypes
<1>3. CASE queue' = queue
  BY <1>1, <1>3, StillSpends, NobodySettled DEF Spends, Loses
<1>4. CASE queue' = Append(queue, Event("Close", i, None))
  <2>1. Ledger(<<>>, NoWaker, Event("Close", i, None)) /\ Kept
    BY <1>1, <1>2, <1>4, CloseType, SendSpends
  <2> QED
    BY <1>1, <2>1, NobodySettled DEF Spends, Turns
<1> QED
  BY <1>1, <1>3, <1>4

LEMMA DropGeneratorSpends ==
    ASSUME Typed, NEW n \in Batches, DropGenerator(n)
    PROVE  Loses /\ Kept
<1> DEFINE gone == SubSeq(queue, n + 1, Len(queue))
<1>1. queue \in Seq(Events) /\ n \in 0..Len(queue) /\ ops \in [Ops -> Futures]
  BY DEF Typed, FlowTypes, OpTypesOK, Batches
<1>2. gone \in Seq(Events) /\ SubSeq(queue, 1, n) \in Seq(Events)
  BY <1>1, SplitType
<1>3. gone \in Seq(Wakers)
  BY <1>2, EventIsWaker
<1>4. /\ queue' = SubSeq(queue, 1, n) /\ ops' = Settle(ops, OpsOf(gone), "lost")
      /\ UNCHANGED <<sockets, batch, tcp_events, udp_events>>
  BY DEF DropGenerator, sockVars, driveVars
<1>5. SettledBy(ops, ops', OpsOf(gone))
  BY <1>1, <1>4, SettleBy DEF Final
<1>6. ASSUME NEW S \in SUBSET Tokens
      PROVE  Count(queue', S) + Count(gone, S) = Count(queue, S) + One(NoWaker, S)
  <2>1. Count(queue, S) = Count(SubSeq(queue, 1, n), S) + Count(gone, S)
    BY <1>1, CountSplit
  <2>2. Count(gone, S) \in Nat /\ Count(SubSeq(queue, 1, n), S) \in Nat
    BY <1>2, CountType
  <2>3. One(NoWaker, S) = 0
    BY NoWakerOutside
  <2> QED
    BY <1>4, <2>1, <2>2, <2>3
<1> HIDE DEF gone
<1>7. \A S \in SUBSET Tokens : Parked(sockets', S) = Parked(sockets, S)
  BY <1>4
<1>8. Ledger(gone, NoWaker, NoWaker)
  BY <1>2, <1>3, <1>4, <1>6, <1>7, QueueSpends
<1>9. Kept
  BY <1>4 DEF Kept
<1> QED
  BY <1>3, <1>5, <1>8, <1>9 DEF Spends, Loses

LEMMA DiscardSpends == ASSUME Typed, Discard PROVE Loses /\ Kept
<1>1. queue \in Seq(Events) /\ ops \in [Ops -> Futures] /\ <<>> \in Seq(Events)
  BY DEF Typed, FlowTypes, OpTypesOK
<1>2. queue \in Seq(Wakers)
  BY <1>1, EventIsWaker
<1>3. /\ queue' = <<>> /\ ops' = Settle(ops, OpsOf(queue), "lost")
      /\ UNCHANGED <<sockets, batch, tcp_events, udp_events>>
  BY DEF Discard, sockVars, driveVars
<1>4. SettledBy(ops, ops', OpsOf(queue))
  BY <1>1, <1>3, SettleBy DEF Final
<1>5. ASSUME NEW S \in SUBSET Tokens
      PROVE  Count(queue', S) + Count(queue, S) = Count(queue, S) + One(NoWaker, S)
  <2>1. Count(<<>>, S) = 0 /\ Count(queue, S) \in Nat /\ One(NoWaker, S) = 0
    BY CountEmpty, HeldType, NoWakerOutside
  <2> QED
    BY <1>3, <2>1
<1>6. \A S \in SUBSET Tokens : Parked(sockets', S) = Parked(sockets, S)
  BY <1>3
<1>7. Ledger(queue, NoWaker, NoWaker)
  BY <1>1, <1>2, <1>3, <1>5, <1>6, QueueSpends
<1>8. Kept
  BY <1>3 DEF Kept
<1> QED
  BY <1>2, <1>4, <1>7, <1>8 DEF Spends, Loses

LEMMA IssueLedger ==
    ASSUME Typed, NEW o \in Ops, NEW i \in streams, NEW type \in OpTypes, Issue(o, i, type)
    PROVE  /\ Kept
           /\ IF generator THEN Ledger(<<>>, NoWaker, Event(type, i, o))
                           ELSE Ledger(<<>>, NoWaker, NoWaker)
           /\ Event(type, i, o) \in Events
<1>1. /\ UNCHANGED <<sockets, batch, tcp_events, udp_events>>
      /\ queue' = IF generator THEN Append(queue, Event(type, i, o)) ELSE queue
  BY DEF Issue, sockVars, driveVars
<1>2. Event(type, i, o) \in Events
  <2>1. i \in Infos
    BY DEF Typed, UserTypes
  <2> QED
    BY <2>1 DEF Infos, Event, Events, EventTypes
<1> QED
  BY <1>1, <1>2, StillSpends, SendSpends

LEMMA CancelLedger ==
    ASSUME Typed, NEW o, Cancel(o)
    PROVE  Ledger(<<>>, NoWaker, NoWaker) /\ Kept
<1>1. UNCHANGED <<sockets, queue, batch, tcp_events, udp_events>>
  BY DEF Cancel, sockVars, driveVars
<1> QED
  BY <1>1, StillSpends

\* What is left when the stack is freed is in the channel.
LEMMA FreeHeld ==
    ASSUME Typed, NEW how, Free(how), NEW S \in SUBSET Tokens
    PROVE  Held(S)' = Count(queue, S)
<1>1. /\ queue' = queue /\ batch' = <<>> /\ tcp_events' = <<>> /\ udp_events' = <<>>
      /\ \A h \in Handles : sockets'[h].rw = NoWaker /\ sockets'[h].tw = NoWaker
  BY DEF Free, NoSocket
<1>2. NoWaker \notin S
  BY DEF Tokens
<1>3. Parked(sockets', S) = 0
  <2>1. \A h \in Handles : sockets'[h].rw \notin S /\ sockets'[h].tw \notin S
    BY <1>1, <1>2
  <2> QED
    BY <2>1, ParkedType
<1>4. Count(<<>>, S) = 0 /\ Count(queue, S) \in Nat
  BY CountEmpty, HeldType
<1> QED
  BY <1>1, <1>3, <1>4 DEF Held, Aside

=============================================================================
