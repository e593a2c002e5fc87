---------------------------- MODULE NotifyChannel ----------------------------
(***************************************************************************)
(* The channel of src/notify_channel.rs that carries every OperationEvent: *)
(* a crossbeam queue paired with an event-listener Event.  Many senders    *)
(* (streams, acceptors, wakers, the stack itself) run concurrently with    *)
(* one receiver, the EventGenerator of src/tcp_stack/event.rs.             *)
(*                                                                         *)
(* NotifySender::send is two steps, the push and the notification.  A      *)
(* notification wakes a registered listener and is lost when there is      *)
(* none, which is why NotifyReceiver::wait looks at the queue again after  *)
(* it has registered.  Every step below is one atomic access to the shared *)
(* queue or to the Event.                                                  *)
(***************************************************************************)
EXTENDS Naturals, Sequences

CONSTANTS Senders,    \* the clones of NotifySender
          MaxSends    \* bound: messages per sender

ASSUME MaxSendsAssumption == MaxSends \in Nat

VARIABLES queue,      \* the crossbeam channel
          live,       \* the senders not dropped yet
          sent,       \* messages each sender has pushed
          spc,        \* where each sender is in send
          rpc,        \* where the receiver is in generate
          listener,   \* the receiver's entry in the Event's listener list
          items,      \* the vector collect_nonblock is filling
          out         \* every message generate has returned, in order

vars == <<queue, live, sent, spc, rpc, listener, items, out>>

Messages == Senders \X (1..MaxSends)

ReceiverSteps == {"idle", "check", "listen", "recheck", "await", "collect",
                  "failed", "dropped"}

TypeOK ==
    /\ queue \in Seq(Messages)
    /\ live \in SUBSET Senders
    /\ sent \in [Senders -> 0..MaxSends]
    /\ spc \in [Senders -> {"idle", "pushed"}]
    /\ rpc \in ReceiverSteps
    /\ listener \in {"none", "waiting", "notified"}
    /\ items \in Seq(Messages)
    /\ out \in Seq(Messages)

Init ==
    /\ queue = <<>>
    /\ live = Senders
    /\ sent = [s \in Senders |-> 0]
    /\ spc = [s \in Senders |-> "idle"]
    /\ rpc = "idle"
    /\ listener = "none"
    /\ items = <<>>
    /\ out = <<>>

-----------------------------------------------------------------------------
(* NotifySender *)

\* send: self.sender.send(v)?  It fails, and notifies nobody, once the
\* receiver is gone.
Push(s) ==
    /\ s \in live
    /\ spc[s] = "idle"
    /\ rpc # "dropped"
    /\ sent[s] < MaxSends
    /\ sent' = [sent EXCEPT ![s] = @ + 1]
    /\ queue' = Append(queue, <<s, sent[s] + 1>>)
    /\ spc' = [spc EXCEPT ![s] = "pushed"]
    /\ UNCHANGED <<live, rpc, listener, items, out>>

\* A bug: send pushes without a notification.
SendQuietly(s) ==
    /\ spc[s] = "pushed"
    /\ spc' = [spc EXCEPT ![s] = "idle"]
    /\ UNCHANGED <<queue, live, sent, rpc, listener, items, out>>

\* send: self.event.notify(1).  With nobody listening the notification is
\* lost.
Notify(s) ==
    /\ spc[s] = "pushed"
    /\ spc' = [spc EXCEPT ![s] = "idle"]
    /\ listener' = IF listener = "waiting" THEN "notified" ELSE listener
    /\ UNCHANGED <<queue, live, sent, rpc, items, out>>

\* A sender is dropped between two sends.  Nothing is notified.
DropSender(s) ==
    /\ s \in live
    /\ spc[s] = "idle"
    /\ live' = live \ {s}
    /\ UNCHANGED <<queue, sent, spc, rpc, listener, items, out>>

-----------------------------------------------------------------------------
(* NotifyReceiver::wait, called by EventGenerator::generate *)

Generate ==
    /\ rpc = "idle"
    /\ rpc' = "check"
    /\ UNCHANGED <<queue, live, sent, spc, listener, items, out>>

\* The first is_empty() of the loop.
Check ==
    /\ rpc = "check"
    /\ rpc' = IF queue # <<>> THEN "collect" ELSE "listen"
    /\ UNCHANGED <<queue, live, sent, spc, listener, items, out>>

\* listener!(self.event => listener) enters the listener list.
Listen ==
    /\ rpc = "listen"
    /\ rpc' = "recheck"
    /\ listener' = "waiting"
    /\ UNCHANGED <<queue, live, sent, spc, items, out>>

\* A bug: the queue is not looked at again after the registration.
SleepAtOnce ==
    /\ rpc = "recheck"
    /\ rpc' = "await"
    /\ UNCHANGED <<queue, live, sent, spc, listener, items, out>>

\* The second is_empty(); returning drops the listener.
Recheck ==
    /\ rpc = "recheck"
    /\ IF queue # <<>>
       THEN rpc' = "collect" /\ listener' = "none"
       ELSE rpc' = "await" /\ UNCHANGED listener
    /\ UNCHANGED <<queue, live, sent, spc, items, out>>

\* listener.await resolves once notified; the loop starts again.
Wake ==
    /\ rpc = "await"
    /\ listener = "notified"
    /\ rpc' = "check"
    /\ listener' = "none"
    /\ UNCHANGED <<queue, live, sent, spc, items, out>>

\* The caller drops the future of generate at its only suspension point.
Cancel ==
    /\ rpc = "await"
    /\ rpc' = "idle"
    /\ listener' = "none"
    /\ UNCHANGED <<queue, live, sent, spc, items, out>>

-----------------------------------------------------------------------------
(* NotifyReceiver::collect_nonblock *)

\* A bug: the vector is filled from its front.
TryRecvReversed ==
    /\ rpc = "collect"
    /\ queue # <<>>
    /\ items' = <<Head(queue)>> \o items
    /\ queue' = Tail(queue)
    /\ UNCHANGED <<live, sent, spc, rpc, listener, out>>

\* try_recv returns a message: it is pushed on items and the loop goes on.
TryRecv ==
    /\ rpc = "collect"
    /\ queue # <<>>
    /\ items' = Append(items, Head(queue))
    /\ queue' = Tail(queue)
    /\ UNCHANGED <<live, sent, spc, rpc, listener, out>>

\* try_recv returns Empty: the vector is what generate returns.
Return ==
    /\ rpc = "collect"
    /\ queue = <<>>
    /\ live # {}
    /\ out' = out \o items
    /\ items' = <<>>
    /\ rpc' = "idle"
    /\ UNCHANGED <<queue, live, sent, spc, listener>>

\* try_recv returns Disconnected: the error drops the messages collected.
Disconnected ==
    /\ rpc = "collect"
    /\ queue = <<>>
    /\ live = {}
    /\ items' = <<>>
    /\ rpc' = "failed"
    /\ UNCHANGED <<queue, live, sent, spc, listener, out>>

\* The EventGenerator is dropped between two calls of generate; crossbeam
\* discards what is queued.
DropReceiver ==
    /\ rpc \in {"idle", "failed"}
    /\ rpc' = "dropped"
    /\ queue' = <<>>
    /\ UNCHANGED <<live, sent, spc, listener, items, out>>

-----------------------------------------------------------------------------
SenderStep(s) == Push(s) \/ Notify(s) \/ DropSender(s)

Receive == Generate \/ Check \/ Listen \/ Recheck \/ Wake \/ TryRecv
             \/ Return \/ Disconnected

Next ==
    \/ \E s \in Senders : SenderStep(s)
    \/ Receive
    \/ Cancel
    \/ DropReceiver

\* A started send runs to its end, and the events task calls generate in a
\* loop (examples/echo.rs, events_task).  Nothing makes anybody send, cancel
\* or drop.
Fairness ==
    /\ \A s \in Senders : WF_vars(Notify(s))
    /\ WF_vars(Receive)

Spec == Init /\ [][Next]_vars

FairSpec == Spec /\ Fairness

-----------------------------------------------------------------------------
(* Properties *)

\* No wakeup is lost: when the receiver sleeps un-notified although messages
\* are queued, the sender of one of them has not yet run event.notify(1) and
\* will wake it.  Dropping the second is_empty() of wait, or notifying before
\* the push, breaks this.
NoLostWakeup ==
    (rpc = "await" /\ listener = "waiting" /\ queue # <<>>)
        => \E s \in Senders : spc[s] = "pushed"

\* What generate returned, what collect_nonblock holds and what is queued.
Log == out \o items \o queue

\* While a sender and the generator live, Log is exactly what was pushed:
\* every message of every sender is in it, and each sender's messages appear
\* once and in the order of its sends.  Nothing is lost, duplicated or
\* reordered by collect_nonblock racing the senders, nor by a generate that
\* is cancelled while it waits.
ExactlyOnceInOrder ==
    (live # {} /\ rpc # "dropped") =>
        /\ \A s \in Senders : \A k \in 1..sent[s] :
              \E i \in DOMAIN Log : Log[i] = <<s, k>>
        /\ \A i, j \in DOMAIN Log :
              (i < j /\ Log[i][1] = Log[j][1]) => Log[i][2] < Log[j][2]

-----------------------------------------------------------------------------
(* The abstract channel *)

ReceiverState == IF rpc \in {"failed", "dropped"} THEN rpc ELSE "open"

Queue == INSTANCE EventQueue
            WITH pending <- items \o queue, delivered <- out,
                 state <- ReceiverState

\* The channel with its queue, Event and listener behaves as one atomic queue:
\* every interleaving of send, wait and collect_nonblock looks like sends and
\* deliveries of all that was sent, none of them empty, and what is sent is
\* delivered.
ImplementsQueue == Queue!FairSpec
=============================================================================
