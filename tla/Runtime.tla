------------------------------- MODULE Runtime -------------------------------
(***************************************************************************)
(* The four tasks that run a stack, run_stack of examples/echo.rs: a tun   *)
(* reader, a tun writer, the event generator's loop and the driver, tied   *)
(* together by three flume channels, with drive_once of                    *)
(* src/tcp_stack/mod.rs and the packet queues of src/virtual_interface.rs  *)
(* inside the driver.  A task that ends drops its ends of the channels,    *)
(* and the others learn of it in their own time.                           *)
(*                                                                         *)
(* The sockets are reduced to what the tasks depend on: which reader has   *)
(* data, which writer has bytes that were not sent yet, and who is parked  *)
(* in a waker; TcpStack has the rest.                                      *)
(***************************************************************************)
EXTENDS Naturals, Sequences, SequencesExt

CONSTANTS Readers, Writers,   \* the users, each with a socket of its own
          MaxQueue            \* bound: packets on their way in, and those on their
                              \* way out with which users and peers still go on

VARIABLES tasks,      \* the tasks that run: "read", "write", "events", "drive"
          packets,    \* read_packet channel
          outs,       \* write_packet channel
          batches,    \* events channel
          channel,    \* the NotifyChannel behind the generator
          held,       \* the batch that events_task is about to send
          pending,    \* the users whose operation has not returned
          parked,     \* the readers whose event is in a waker
          data,       \* the readers whose socket has data
          unsent,     \* the writers whose socket has bytes to send
          rxQueue,    \* VirtualInterface::rx_queue
          txQueue,    \* VirtualInterface::tx_queue
          pc,         \* where the driver is in its loop
          given,      \* the events that drive_once was given
          sleep       \* what it returned last: none, now or later

pipeVars  == <<packets, outs, batches, channel, held>>
sockVars  == <<parked, data, unsent>>
driveVars == <<rxQueue, txQueue, pc, given, sleep>>
vars == <<tasks, pipeVars, pending, sockVars, driveVars>>

Users == Readers \cup Writers

\* What the peers send: data for a reader, a segment that is answered at once,
\* and one that makes drive_once fail (a port that it cannot listen on).
PacketsIn == Readers \cup {"segment", "refused"}
PacketsOut == Writers \cup {"reply"}

TypeOK ==
    /\ tasks \subseteq {"read", "write", "events", "drive"}
    /\ packets \in Seq(PacketsIn) /\ rxQueue \in Seq(PacketsIn)
    /\ outs \in Seq(PacketsOut) /\ txQueue \in Seq(PacketsOut)
    /\ channel \in Seq(Users) /\ held \in Seq(Users) /\ given \in Seq(Users)
    /\ batches \in Seq(Seq(Users))
    /\ pending \subseteq Users /\ parked \subseteq Readers
    /\ data \subseteq Readers /\ unsent \subseteq Writers
    /\ pc \in {"select", "poll", "handle", "forward", "ended"}
    /\ sleep \in {"none", "now", "later"}

Init ==
    /\ tasks = {"read", "write", "events", "drive"}
    /\ packets = <<>> /\ outs = <<>> /\ batches = <<>>
    /\ channel = <<>> /\ held = <<>>
    /\ pending = {} /\ parked = {} /\ data = {} /\ unsent = {}
    /\ rxQueue = <<>> /\ txQueue = <<>>
    /\ pc = "select" /\ given = <<>> /\ sleep = "none"

-----------------------------------------------------------------------------
(* Users *)

\* An operation sends its event; without a generator it fails at once.
Issue(u) ==
    /\ u \notin pending
    /\ "events" \in tasks
    /\ Len(outs) < MaxQueue
    /\ pending' = pending \cup {u}
    /\ channel' = Append(channel, u)
    /\ UNCHANGED <<tasks, packets, outs, batches, held, sockVars, driveVars>>

-----------------------------------------------------------------------------
(* read_task and write_task *)

ReadTun(p) ==
    /\ "read" \in tasks
    /\ Len(packets) < MaxQueue /\ Len(outs) < MaxQueue
    /\ IF "drive" \in tasks
       THEN packets' = Append(packets, p) /\ UNCHANGED tasks
       ELSE tasks' = tasks \ {"read"} /\ UNCHANGED packets
    /\ UNCHANGED <<outs, batches, channel, held, pending, sockVars, driveVars>>

\* The tun is closed or fails.
ReadFails ==
    /\ "read" \in tasks
    /\ tasks' = tasks \ {"read"}
    /\ UNCHANGED <<pipeVars, pending, sockVars, driveVars>>

\* It writes what is left before it ends because the driver has.
WriteTun ==
    /\ "write" \in tasks
    /\ \/ /\ outs # <<>>
          /\ outs' = Tail(outs)
          /\ UNCHANGED tasks
       \/ /\ outs = <<>> /\ "drive" \notin tasks
          /\ tasks' = tasks \ {"write"}
          /\ UNCHANGED outs
    /\ UNCHANGED <<packets, batches, channel, held, pending, sockVars, driveVars>>

WriteFails ==
    /\ "write" \in tasks
    /\ tasks' = tasks \ {"write"}
    /\ outs' = <<>>
    /\ UNCHANGED <<packets, batches, channel, held, pending, sockVars, driveVars>>

-----------------------------------------------------------------------------
(* events_task *)

Generate ==
    /\ "events" \in tasks
    /\ held = <<>> /\ channel # <<>>
    /\ held' = channel
    /\ channel' = <<>>
    /\ UNCHANGED <<tasks, packets, outs, batches, pending, sockVars, driveVars>>

\* A bug: the generator outlives the task.
EndKeepsGenerator ==
    /\ tasks' = tasks \ {"events"}
    /\ pending' = pending \ (ToSet(held) \cup ToSet(FlattenSeq(batches)))
    /\ held' = <<>> /\ batches' = <<>>
    /\ UNCHANGED channel

\* The task drops its batch, the generator with all that is queued, and the last
\* end of the events channel with the batches that nobody received.
EndEvents ==
    /\ tasks' = tasks \ {"events"}
    /\ pending' = pending \ (ToSet(held) \cup ToSet(channel) \cup ToSet(FlattenSeq(batches)))
    /\ held' = <<>> /\ channel' = <<>> /\ batches' = <<>>

\* events_tx.send fails once the driver is gone.
SendBatch ==
    /\ "events" \in tasks
    /\ held # <<>>
    /\ IF "drive" \in tasks
       THEN /\ batches' = Append(batches, held)
            /\ held' = <<>>
            /\ UNCHANGED <<tasks, channel, pending>>
       ELSE EndEvents
    /\ UNCHANGED <<packets, outs, sockVars, driveVars>>

-----------------------------------------------------------------------------
(* drive_task *)

\* The events of the batch that was received, none if there was none.
Received(bs) == IF bs = <<>> THEN <<>> ELSE Head(bs)

\* The task ends: the stack is dropped with the closures of its wakers, and so
\* are the events bs that drive_once was given.  Those in the channel stay
\* there, because events_task has the other end.
EndDrive(bs) ==
    /\ tasks' = tasks \ {"drive"}
    /\ pc' = "ended"
    /\ pending' = pending \ (parked \cup ToSet(Received(bs)))
    /\ parked' = {}
    /\ packets' = <<>> /\ rxQueue' = <<>> /\ txQueue' = <<>> /\ given' = <<>>
    /\ batches' = SubSeq(batches, Len(bs) + 1, Len(batches))
    /\ UNCHANGED <<outs, channel, held, data, unsent, sleep>>

\* drive_once is given a packet or none and events or none; when init_tcp or
\* try_init_udp fails, the error ends the task.
Begin(ps, bs) ==
    IF ps = <<"refused">>
    THEN EndDrive(bs)
    ELSE /\ rxQueue' = rxQueue \o ps
         /\ given' = Received(bs)
         /\ pc' = "poll"
         /\ packets' = SubSeq(packets, Len(ps) + 1, Len(packets))
         /\ batches' = SubSeq(batches, Len(bs) + 1, Len(batches))
         /\ UNCHANGED <<tasks, outs, channel, held, pending, sockVars, txQueue, sleep>>

\* try_recv on a channel.
TryRecv(q) == IF q = <<>> THEN <<>> ELSE <<Head(q)>>

\* A bug: the other channel is not looked at.
SelectOne ==
    /\ pc = "select"
    /\ \/ packets # <<>> /\ Begin(<<Head(packets)>>, <<>>)
       \/ batches # <<>> /\ Begin(<<>>, <<Head(batches)>>)

\* The selector takes a message from one channel, whichever it likes, and
\* try_recv one from the other.
Select ==
    /\ pc = "select"
    /\ \/ packets # <<>> /\ Begin(<<Head(packets)>>, TryRecv(batches))
       \/ batches # <<>> /\ Begin(TryRecv(packets), <<Head(batches)>>)

\* Nothing came in time.
Timeout ==
    /\ pc = "select"
    /\ packets = <<>> /\ batches = <<>>
    /\ sleep # "none"
    /\ Begin(<<>>, <<>>)

\* A bug: the end of the packets is taken for a timeout.
SelectGoesOn ==
    /\ pc = "select"
    /\ packets = <<>> /\ "read" \notin tasks
    /\ Begin(<<>>, <<>>)

\* The packets are used up and their sender is gone.  That of the events is
\* not: events_task ends after the driver.
SelectFails ==
    /\ pc = "select"
    /\ packets = <<>> /\ "read" \notin tasks
    /\ EndDrive(<<>>)

-----------------------------------------------------------------------------
(* drive_once *)

\* The reader that a packet has data for.
DataOf(p) == {p} \cap Readers

\* Interface::poll: a packet is received, and may be answered at once.  New
\* data wakes a reader, whose closure sends its event.
Ingress ==
    /\ pc = "poll"
    /\ rxQueue # <<>>
    /\ LET p == Head(rxQueue)
           woken == DataOf(p) \cap parked
       IN  /\ rxQueue' = Tail(rxQueue)
           /\ txQueue' = IF p = "segment" THEN Append(txQueue, "reply") ELSE txQueue
           /\ data' = data \cup DataOf(p)
           /\ parked' = parked \ woken
           /\ channel' = channel \o SetToSeq(woken)
    /\ UNCHANGED <<tasks, packets, outs, batches, held, pending, unsent, pc, given, sleep>>

\* A bug: the interface has one queue for both directions.
EgressToReceive(w) ==
    /\ pc = "poll"
    /\ rxQueue = <<>>
    /\ w \in unsent
    /\ unsent' = unsent \ {w}
    /\ rxQueue' = Append(rxQueue, w)
    /\ UNCHANGED <<tasks, pipeVars, pending, parked, data, txQueue, pc, given, sleep>>

\* Interface::poll: a socket transmits.
Egress(w) ==
    /\ pc = "poll"
    /\ rxQueue = <<>>
    /\ w \in unsent
    /\ unsent' = unsent \ {w}
    /\ txQueue' = Append(txQueue, w)
    /\ UNCHANGED <<tasks, pipeVars, pending, parked, data, rxQueue, pc, given, sleep>>

PollDone ==
    /\ pc = "poll"
    /\ rxQueue = <<>> /\ unsent = {}
    /\ pc' = "handle"
    /\ UNCHANGED <<tasks, pipeVars, pending, sockVars, rxQueue, txQueue, given, sleep>>

\* A write puts its bytes into the socket, a read takes what is there or parks.
Handle ==
    /\ pc = "handle"
    /\ given # <<>>
    /\ LET u == Head(given)
       IN  /\ unsent' = unsent \cup ({u} \cap Writers)
           /\ IF u \in Readers \ data
              THEN parked' = parked \cup {u} /\ UNCHANGED <<pending, data>>
              ELSE pending' = pending \ {u} /\ data' = data \ {u} /\ UNCHANGED parked
    /\ given' = Tail(given)
    /\ UNCHANGED <<tasks, pipeVars, rxQueue, txQueue, pc, sleep>>

\* A bug: the delay does not know of the bytes that the events left.
DelayLate(d) == d # "now"

\* Interface::poll_delay: at once when a socket has something to send; a timer
\* of TCP or none otherwise.
PollDelay(d) == (d = "now") <=> (unsent # {})

EndOnce(d) ==
    /\ pc = "handle"
    /\ given = <<>>
    /\ PollDelay(d)
    /\ sleep' = d
    /\ pc' = "forward"
    /\ UNCHANGED <<tasks, pipeVars, pending, sockVars, rxQueue, txQueue, given>>

\* A bug: one packet is taken per drive_once.
ForwardOne ==
    /\ pc = "forward"
    /\ "write" \in tasks
    /\ outs' = outs \o TryRecv(txQueue)
    /\ txQueue' = IF txQueue = <<>> THEN <<>> ELSE Tail(txQueue)
    /\ pc' = "select"
    /\ UNCHANGED <<tasks, packets, batches, channel, held, pending, sockVars,
                   rxQueue, given, sleep>>

\* pop_all_send_packets and the loop over what it drains; without a writer the
\* first send ends the task.
Forward ==
    /\ pc = "forward"
    /\ IF txQueue # <<>> /\ "write" \notin tasks
       THEN EndDrive(<<>>)
       ELSE /\ outs' = outs \o txQueue
            /\ txQueue' = <<>>
            /\ pc' = "select"
            /\ UNCHANGED <<tasks, packets, batches, channel, held, pending, sockVars,
                           rxQueue, given, sleep>>

-----------------------------------------------------------------------------
DriveOnce ==
    \/ Ingress
    \/ \E w \in Writers : Egress(w)
    \/ PollDone
    \/ Handle
    \/ \E d \in {"none", "now", "later"} : EndOnce(d)

DriveTask == Select \/ Timeout \/ SelectFails \/ DriveOnce \/ Forward

EventsTask == Generate \/ SendBatch

Next ==
    \/ \E u \in Users : Issue(u)
    \/ \E p \in PacketsIn : ReadTun(p)
    \/ ReadFails
    \/ WriteTun
    \/ WriteFails
    \/ EventsTask
    \/ DriveTask

Spec == Init /\ [][Next]_vars

\* The executor runs every task that can run, and a sleep ends.  The selector
\* starts with a channel at random, so that the end of the packets is noticed
\* even when batches never stop; nothing else relies on that.  Nobody has to
\* send packets or issue operations.
FairSpec ==
    /\ Spec
    /\ WF_vars(WriteTun)
    /\ WF_vars(EventsTask)
    /\ WF_vars(DriveTask)
    /\ SF_vars(SelectFails)

-----------------------------------------------------------------------------
(* Properties *)

Driven == "drive" \in tasks

\* No packet waits inside the stack while the driver sleeps: the poll received
\* what was pushed, and the driver took all that was sent.
InterfaceDrained == pc = "select" => rxQueue = <<>> /\ txQueue = <<>>

\* Bytes that an event left in a socket are sent although the poll of that
\* drive_once came before the event: poll_delay, asked after the events, does
\* not let the driver sleep on them.
WrittenIsSent == \A w \in Writers : w \in unsent ~> (w \notin unsent \/ ~Driven)

\* Packets that never stop do not starve the operations: a write, or a read
\* whose data is there, returns.
OpsReturn ==
    \A u \in Users :
        (u \in pending /\ u \in Writers \cup data) ~> (u \notin pending \/ ~Driven)

\* Nor do operations that never stop starve the packets.
DataArrives ==
    \A r \in Readers : r \in ToSet(packets) ~> (r \in data \/ ~Driven)

\* The end of the tun reader ends the driver, and the end of the driver, for
\* whatever reason, the writer once the last packets are written.
TasksEnd ==
    (\E t \in {"read", "drive"} : t \notin tasks) ~> (tasks \cap {"drive", "write"} = {})

InPipe(u) == u \in ToSet(FlattenSeq(batches))

\* After the driver's end every operation is told, those parked in wakers, those
\* behind the generator, and those in the batches that nobody will receive, as
\* soon as one event more passes events_task.
EndIsTold ==
    \A u \in Users :
        (~Driven /\ u \in pending /\ ~InPipe(u)) ~> (pending = {})
=============================================================================
