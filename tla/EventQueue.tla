----------------------------- MODULE EventQueue ------------------------------
(***************************************************************************)
(* What src/notify_channel.rs and src/tcp_stack/event.rs promise to the    *)
(* rest of the crate: an unbounded queue that many senders append to, and  *)
(* a generate that returns everything queued, in order and never an empty  *)
(* batch.  There are no locks, listeners or wakeups here; NotifyChannel is *)
(* shown to implement this.                                                *)
(***************************************************************************)
EXTENDS Naturals, Sequences

CONSTANTS Senders, MaxSends

VARIABLES pending,    \* sent and not delivered
          delivered,  \* the batches that generate returned, put together
          live,       \* the senders not dropped
          sent,       \* how many messages each has sent
          state       \* of the receiver

vars == <<pending, delivered, live, sent, state>>

Init ==
    /\ pending = <<>>
    /\ delivered = <<>>
    /\ live = Senders
    /\ sent = [s \in Senders |-> 0]
    /\ state = "open"

\* NotifySender::send
Send(s) ==
    /\ s \in live
    /\ state # "dropped"
    /\ sent[s] < MaxSends
    /\ sent' = [sent EXCEPT ![s] = @ + 1]
    /\ pending' = Append(pending, <<s, sent[s] + 1>>)
    /\ UNCHANGED <<delivered, live, state>>

Leave(s) ==
    /\ s \in live
    /\ live' = live \ {s}
    /\ UNCHANGED <<pending, delivered, sent, state>>

\* generate returns a batch: all there is, and not nothing.
Deliver ==
    /\ state = "open"
    /\ pending # <<>>
    /\ delivered' = delivered \o pending
    /\ pending' = <<>>
    /\ UNCHANGED <<live, sent, state>>

\* generate returns the error that no sender is left; it loses the last batch.
Fail ==
    /\ state = "open"
    /\ live = {}
    /\ pending # <<>>
    /\ pending' = <<>>
    /\ state' = "failed"
    /\ UNCHANGED <<delivered, live, sent>>

\* The EventGenerator is dropped.
Close ==
    /\ state # "dropped"
    /\ pending' = <<>>
    /\ state' = "dropped"
    /\ UNCHANGED <<delivered, live, sent>>

Next ==
    \/ \E s \in Senders : Send(s) \/ Leave(s)
    \/ Deliver
    \/ Fail
    \/ Close

Spec == Init /\ [][Next]_vars

\* What is sent is delivered, as long as somebody calls generate.
FairSpec == Spec /\ WF_vars(Deliver \/ Fail)
=============================================================================
