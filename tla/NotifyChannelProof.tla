-------------------------- MODULE NotifyChannelProof -------------------------
(***************************************************************************)
(* The channel of src/notify_channel.rs for any number of senders and      *)
(* messages: no lost wakeup, nothing lost, duplicated or reordered.        *)
(***************************************************************************)
EXTENDS NotifyChannel, SequenceTheorems, TLAPS

-----------------------------------------------------------------------------
(* Sequences *)

\* Moving the head of the last part to the end of the middle part leaves the
\* concatenation of three sequences as it is (collect_nonblock, try_recv).
LEMMA MoveHead ==
    ASSUME NEW a \in Seq(Messages), NEW b \in Seq(Messages),
           NEW q \in Seq(Messages), q # <<>>
    PROVE  a \o Append(b, Head(q)) \o Tail(q) = a \o b \o q
<1>1. Append(b, Head(q)) \in Seq(Messages) /\ Tail(q) \in Seq(Messages) /\ Head(q) \in Messages
  OBVIOUS
<1>2. Append(b, Head(q)) = b \o <<Head(q)>>
  BY <1>1, AppendIsConcat
<1>3. <<Head(q)>> \o Tail(q) = q
  BY <1>1, HeadTailProperties
<1>4. a \o (b \o <<Head(q)>>) = (a \o b) \o <<Head(q)>>
  BY <1>1, ConcatAssociative
<1>5. ((a \o b) \o <<Head(q)>>) \o Tail(q) = (a \o b) \o (<<Head(q)>> \o Tail(q))
  BY <1>1, ConcatAssociative, ConcatProperties
<1> QED
  BY <1>2, <1>3, <1>4, <1>5

-----------------------------------------------------------------------------
(* Type correctness *)

LEMMA InitTypeOK == Init => TypeOK
BY MaxSendsAssumption DEF Init, TypeOK, ReceiverSteps

LEMMA NextTypeOK == TypeOK /\ [Next]_vars => TypeOK'
<1> SUFFICES ASSUME TypeOK, [Next]_vars PROVE TypeOK'
  OBVIOUS
<1> USE MaxSendsAssumption
<1>1. ASSUME NEW s \in Senders, Push(s) PROVE TypeOK'
  <2>1. <<s, sent[s] + 1>> \in Messages
    BY <1>1 DEF Push, TypeOK, Messages
  <2>2. queue' \in Seq(Messages)
    BY <1>1, <2>1 DEF Push, TypeOK
  <2> QED
    BY <1>1, <2>2 DEF Push, TypeOK
<1>2. ASSUME NEW s \in Senders, Notify(s) PROVE TypeOK'
  BY <1>2 DEF Notify, TypeOK
<1>3. ASSUME NEW s \in Senders, DropSender(s) PROVE TypeOK'
  BY <1>3 DEF DropSender, TypeOK
<1>4. ASSUME Generate \/ Check \/ Listen \/ Recheck \/ Wake \/ Cancel PROVE TypeOK'
  <2>1. rpc' \in ReceiverSteps
    BY <1>4 DEF Generate, Check, Listen, Recheck, Wake, Cancel, ReceiverSteps
  <2>2. listener' \in {"none", "waiting", "notified"}
    BY <1>4 DEF Generate, Check, Listen, Recheck, Wake, Cancel, TypeOK
  <2>3. UNCHANGED <<queue, live, sent, spc, items, out>>
    BY <1>4 DEF Generate, Check, Listen, Recheck, Wake, Cancel
  <2> QED
    BY <2>1, <2>2, <2>3 DEF TypeOK
<1>5. ASSUME TryRecv PROVE TypeOK'
  <2>1. Head(queue) \in Messages /\ Tail(queue) \in Seq(Messages)
    BY <1>5 DEF TryRecv, TypeOK
  <2>2. items' \in Seq(Messages)
    BY <1>5, <2>1 DEF TryRecv, TypeOK
  <2> QED
    BY <1>5, <2>1, <2>2 DEF TryRecv, TypeOK
<1>6. ASSUME Return PROVE TypeOK'
  BY <1>6 DEF Return, TypeOK, ReceiverSteps
<1>7. ASSUME Disconnected PROVE TypeOK'
  BY <1>7 DEF Disconnected, TypeOK, ReceiverSteps
<1>8. ASSUME DropReceiver PROVE TypeOK'
  BY <1>8 DEF DropReceiver, TypeOK, ReceiverSteps
<1>9. CASE UNCHANGED vars
  BY <1>9 DEF vars, TypeOK
<1> QED
  BY <1>1, <1>2, <1>3, <1>4, <1>5, <1>6, <1>7, <1>8, <1>9
  DEF Next, SenderStep, Receive

\* The channel keeps its types, whatever the senders and the receiver do.
THEOREM TypeCorrect == Spec => []TypeOK
<1> QED
  BY InitTypeOK, NextTypeOK, PTL DEF Spec

-----------------------------------------------------------------------------
(* No lost wakeup *)

LEMMA NextNoLostWakeup ==
    TypeOK /\ NoLostWakeup /\ [Next]_vars => NoLostWakeup'
<1> SUFFICES ASSUME TypeOK, NoLostWakeup, [Next]_vars PROVE NoLostWakeup'
  OBVIOUS
<1>1. ASSUME NEW s \in Senders, Push(s) PROVE NoLostWakeup'
  BY <1>1 DEF Push, NoLostWakeup, TypeOK
<1>2. ASSUME NEW s \in Senders, Notify(s) PROVE NoLostWakeup'
  BY <1>2 DEF Notify, NoLostWakeup, TypeOK
<1>3. ASSUME NEW s \in Senders, DropSender(s) PROVE NoLostWakeup'
  BY <1>3 DEF DropSender, NoLostWakeup
<1>4. ASSUME Receive \/ Cancel \/ DropReceiver PROVE NoLostWakeup'
  BY <1>4 DEF Receive, Generate, Check, Listen, Recheck, Wake, TryRecv, Return,
              Disconnected, Cancel, DropReceiver, NoLostWakeup
<1>5. CASE UNCHANGED vars
  BY <1>5 DEF vars, NoLostWakeup
<1> QED
  BY <1>1, <1>2, <1>3, <1>4, <1>5 DEF Next, SenderStep

\* The receiver never sleeps on a queue that nobody will notify it of: the
\* second is_empty() of wait closes the window between the first one and the
\* registration of the listener, for any number of senders.
THEOREM WakeupSafety == Spec => []NoLostWakeup
<1>1. Init => NoLostWakeup
  BY DEF Init, NoLostWakeup
<1> QED
  BY <1>1, InitTypeOK, NextTypeOK, NextNoLostWakeup, PTL DEF Spec

-----------------------------------------------------------------------------
(* Nothing is lost, duplicated or reordered *)

Connected == live # {} /\ rpc # "dropped"

\* The log holds only messages that were sent.
LogIsSent == \A i \in DOMAIN Log : Log[i][2] <= sent[Log[i][1]]

\* Every message that was sent is in the log.
SentIsLogged ==
    \A s \in Senders : \A k \in 1..sent[s] : \E i \in DOMAIN Log : Log[i] = <<s, k>>

\* The messages of a sender are in the log in the order of its sends.
LogInOrder ==
    \A i, j \in DOMAIN Log :
        (i < j /\ Log[i][1] = Log[j][1]) => Log[i][2] < Log[j][2]

\* The inductive strengthening of ExactlyOnceInOrder.
LogInv == Connected => LogIsSent /\ SentIsLogged /\ LogInOrder

LEMMA LogType == TypeOK => Log \in Seq(Messages)
BY ConcatProperties DEF TypeOK, Log

\* Every step but Push leaves the log alone while the channel is connected.
LEMMA LogUnchanged ==
    ASSUME TypeOK, [Next]_vars, Connected'
    PROVE  \/ Connected /\ Log' = Log /\ sent' = sent
           \/ Connected /\ \E s \in Senders : Push(s)
<1>1. ASSUME NEW s \in Senders, Notify(s) PROVE Connected /\ Log' = Log /\ sent' = sent
  BY <1>1 DEF Notify, Log, Connected
<1>2. ASSUME NEW s \in Senders, DropSender(s) PROVE Connected /\ Log' = Log /\ sent' = sent
  BY <1>2 DEF DropSender, Log, Connected
<1>3. ASSUME Generate \/ Check \/ Listen \/ Recheck \/ Wake \/ Cancel
      PROVE  Connected /\ Log' = Log /\ sent' = sent
  BY <1>3 DEF Generate, Check, Listen, Recheck, Wake, Cancel, Log, Connected
<1>4. ASSUME TryRecv PROVE Connected /\ Log' = Log /\ sent' = sent
  <2>0. /\ out \in Seq(Messages) /\ items \in Seq(Messages)
        /\ queue \in Seq(Messages) /\ queue # <<>>
    BY <1>4 DEF TryRecv, TypeOK
  <2>1. out \o Append(items, Head(queue)) \o Tail(queue) = out \o items \o queue
    BY <2>0, MoveHead
  <2> QED
    BY <1>4, <2>1 DEF TryRecv, Log, Connected
<1>5. ASSUME Return PROVE Connected /\ Log' = Log /\ sent' = sent
  <2>1. out \o items \in Seq(Messages)
    BY ConcatProperties DEF TypeOK
  <2>2. (out \o items) \o <<>> = out \o items
    BY <2>1, ConcatEmptySeq
  <2> QED
    BY <1>5, <2>2 DEF Return, Log, Connected
<1>6. ASSUME Disconnected \/ DropReceiver PROVE FALSE
  BY <1>6 DEF Disconnected, DropReceiver, Connected
<1>7. ASSUME NEW s \in Senders, Push(s) PROVE Connected
  BY <1>7 DEF Push, Connected
<1>8. CASE UNCHANGED vars
  BY <1>8 DEF vars, Log, Connected
<1> QED
  BY <1>1, <1>2, <1>3, <1>4, <1>5, <1>6, <1>7, <1>8
  DEF Next, SenderStep, Receive

LEMMA PushLog ==
    ASSUME TypeOK, NEW s \in Senders, Push(s)
    PROVE  Log' = Append(Log, <<s, sent[s] + 1>>)
<1> DEFINE m == <<s, sent[s] + 1>>
<1>1. m \in Messages
  BY MaxSendsAssumption DEF Push, TypeOK, Messages
<1>2. out \o items \in Seq(Messages) /\ queue \in Seq(Messages) /\ <<m>> \in Seq(Messages)
  BY <1>1, ConcatProperties DEF TypeOK
<1>3. Append(queue, m) = queue \o <<m>>
  BY <1>1, <1>2, AppendIsConcat
<1>4. (out \o items) \o (queue \o <<m>>) = ((out \o items) \o queue) \o <<m>>
  BY <1>2, ConcatAssociative
<1>5. Append(Log, m) = Log \o <<m>>
  BY <1>1, LogType, AppendIsConcat
<1> QED
  BY <1>3, <1>4, <1>5 DEF Push, Log

LEMMA PushLogInv ==
    ASSUME TypeOK, NEW s \in Senders, Push(s), LogIsSent, SentIsLogged, LogInOrder
    PROVE  LogIsSent' /\ SentIsLogged' /\ LogInOrder'
<1> DEFINE m == <<s, sent[s] + 1>>
           n == Len(Log) + 1
<1>1. Log \in Seq(Messages)
  BY LogType
<1>2. /\ DOMAIN Log = 1..Len(Log) /\ Len(Log) \in Nat
      /\ \A i \in DOMAIN Log : Log[i] \in Messages
  BY <1>1
<1>3. /\ DOMAIN Log' = 1..n
      /\ Log'[n] = m
      /\ \A i \in DOMAIN Log : Log'[i] = Log[i]
  BY <1>1, <1>2, PushLog
<1>4. /\ sent'[s] = sent[s] + 1
      /\ \A t \in Senders : t # s => sent'[t] = sent[t]
      /\ \A t \in Senders : sent[t] \in Nat
  BY MaxSendsAssumption DEF Push, TypeOK
<1>5. \A i \in DOMAIN Log : Log[i][1] \in Senders /\ Log[i][2] \in Nat
  BY <1>2, MaxSendsAssumption DEF Messages
<1>6. m[1] = s /\ m[2] = sent[s] + 1
  OBVIOUS
<1>7. \A i \in DOMAIN Log' : i \in DOMAIN Log \/ i = n
  BY <1>2, <1>3
<1>8. LogIsSent'
  <2>1. ASSUME NEW i \in DOMAIN Log PROVE Log'[i][2] <= sent'[Log'[i][1]]
    BY <2>1, <1>3, <1>4, <1>5 DEF LogIsSent
  <2>2. Log'[n][2] <= sent'[Log'[n][1]]
    BY <1>3, <1>4, <1>6
  <2> QED
    BY <2>1, <2>2, <1>7 DEF LogIsSent
<1>9. SentIsLogged'
  <2> SUFFICES ASSUME NEW t \in Senders, NEW k \in 1..sent'[t]
               PROVE  \E i \in DOMAIN Log' : Log'[i] = <<t, k>>
    BY DEF SentIsLogged
  <2>1. CASE t = s /\ k = sent[s] + 1
    BY <2>1, <1>2, <1>3
  <2>2. CASE ~(t = s /\ k = sent[s] + 1)
    <3>1. k \in 1..sent[t]
      BY <2>2, <1>4
    <3>2. PICK i \in DOMAIN Log : Log[i] = <<t, k>>
      BY <3>1 DEF SentIsLogged
    <3> QED
      BY <3>2, <1>2, <1>3
  <2> QED
    BY <2>1, <2>2
<1>10. LogInOrder'
  <2> SUFFICES ASSUME NEW i \in DOMAIN Log', NEW j \in DOMAIN Log',
                      i < j, Log'[i][1] = Log'[j][1]
               PROVE  Log'[i][2] < Log'[j][2]
    BY DEF LogInOrder
  <2>1. i \in DOMAIN Log
    BY <1>2, <1>3
  <2>2. CASE j \in DOMAIN Log
    BY <2>1, <2>2, <1>3 DEF LogInOrder
  <2>3. CASE j = n
    BY <2>1, <2>3, <1>3, <1>4, <1>5, <1>6 DEF LogIsSent
  <2> QED
    BY <2>2, <2>3, <1>7
<1> QED
  BY <1>8, <1>9, <1>10

LEMMA NextLogInv == TypeOK /\ LogInv /\ [Next]_vars => LogInv'
<1> SUFFICES ASSUME TypeOK, LogInv, [Next]_vars, Connected'
             PROVE  LogIsSent' /\ SentIsLogged' /\ LogInOrder'
  BY DEF LogInv
<1>1. CASE Connected /\ Log' = Log /\ sent' = sent
  BY <1>1 DEF LogInv, LogIsSent, SentIsLogged, LogInOrder
<1>2. CASE Connected /\ \E s \in Senders : Push(s)
  BY <1>2, PushLogInv DEF LogInv
<1> QED
  BY <1>1, <1>2, LogUnchanged

\* Whatever the interleaving of senders, generate and cancellations, what
\* generate has returned, holds and will return is what was sent: every
\* message once, and in the order of its sender.
THEOREM ChannelSafety == Spec => []ExactlyOnceInOrder
<1>1. Init => LogInv
  <2> SUFFICES ASSUME Init PROVE LogInv
    OBVIOUS
  <2>1. Log = <<>>
    BY DEF Init, Log
  <2> QED
    BY <2>1 DEF Init, LogInv, LogIsSent, SentIsLogged, LogInOrder
<1>2. LogInv => ExactlyOnceInOrder
  BY DEF LogInv, Connected, SentIsLogged, LogInOrder, ExactlyOnceInOrder
<1> QED
  BY <1>1, <1>2, InitTypeOK, NextTypeOK, NextLogInv, PTL DEF Spec

-----------------------------------------------------------------------------
(* The abstract channel *)

\* collect_nonblock holds messages only while it runs, and runs only when
\* there is one to return.
Collecting ==
    /\ rpc # "collect" => items = <<>>
    /\ rpc = "collect" => items \o queue # <<>>

LEMMA Concat ==
    ASSUME NEW a \in Seq(Messages), NEW b \in Seq(Messages), NEW e \in Messages
    PROVE  /\ a \o Append(b, e) = Append(a \o b, e)
           /\ Append(a \o b, e) # <<>>
           /\ <<>> \o b = b /\ a \o <<>> = a
<1>1. <<e>> \in Seq(Messages) /\ a \o b \in Seq(Messages)
  BY ConcatProperties
<1>2. Append(b, e) = b \o <<e>> /\ Append(a \o b, e) = (a \o b) \o <<e>>
  BY <1>1, AppendIsConcat
<1>3. a \o (b \o <<e>>) = (a \o b) \o <<e>>
  BY <1>1, ConcatAssociative
<1>4. Append(a \o b, e) # <<>>
  BY <1>1, AppendProperties
<1>5. <<>> \o b = b /\ a \o <<>> = a
  BY ConcatEmptySeq
<1> QED
  BY <1>2, <1>3, <1>4, <1>5

\* The same step as MoveHead, for the two sequences of the abstract queue.
LEMMA MoveHeadPending ==
    ASSUME TypeOK, TryRecv
    PROVE  items' \o queue' = items \o queue
<1>1. queue \in Seq(Messages) /\ queue # <<>> /\ items \in Seq(Messages)
  BY DEF TypeOK, TryRecv
<1>2. Head(queue) \in Messages /\ Tail(queue) \in Seq(Messages)
  BY <1>1
<1>3. Append(items, Head(queue)) = items \o <<Head(queue)>>
  BY <1>1, <1>2, AppendIsConcat
<1>4. <<Head(queue)>> \o Tail(queue) = queue
  BY <1>1, HeadTailProperties
<1>5. <<Head(queue)>> \in Seq(Messages)
  BY <1>2
<1>6. (items \o <<Head(queue)>>) \o Tail(queue) = items \o (<<Head(queue)>> \o Tail(queue))
  BY <1>1, <1>2, <1>5, ConcatAssociative
<1> QED
  BY <1>3, <1>4, <1>6 DEF TryRecv

LEMMA PushPending ==
    ASSUME TypeOK, NEW s \in Senders, Push(s)
    PROVE  /\ items' \o queue' = Append(items \o queue, <<s, sent[s] + 1>>)
           /\ items' \o queue' # <<>>
<1> DEFINE m == <<s, sent[s] + 1>>
<1>1. m \in Messages
  BY MaxSendsAssumption DEF Push, TypeOK, Messages
<1>2. items \in Seq(Messages) /\ queue \in Seq(Messages)
  BY DEF TypeOK
<1>3. items \o Append(queue, m) = Append(items \o queue, m) /\ Append(items \o queue, m) # <<>>
  BY <1>1, <1>2, Concat
<1> QED
  BY <1>3 DEF Push

LEMMA NextCollecting == TypeOK /\ Collecting /\ [Next]_vars => Collecting'
<1> SUFFICES ASSUME TypeOK, Collecting, [Next]_vars PROVE Collecting'
  OBVIOUS
<1>1. ASSUME NEW s \in Senders, Push(s) PROVE Collecting'
  <2>1. items' = items /\ rpc' = rpc
    BY <1>1 DEF Push
  <2> QED
    BY <1>1, <2>1, PushPending DEF Collecting
<1>2. ASSUME NEW s \in Senders, Notify(s) \/ DropSender(s) PROVE Collecting'
  BY <1>2 DEF Notify, DropSender, Collecting
<1>3. ASSUME Check \/ Recheck PROVE Collecting'
  <2>1. queue' = queue /\ items' = <<>> /\ (rpc' = "collect" => queue # <<>>)
    BY <1>3 DEF Check, Recheck, Collecting
  <2>2. <<>> \o queue = queue
    BY ConcatEmptySeq DEF TypeOK
  <2> QED
    BY <2>1, <2>2 DEF Collecting
<1>4. ASSUME TryRecv PROVE Collecting'
  <2>1. rpc = "collect" /\ rpc' = "collect"
    BY <1>4 DEF TryRecv
  <2> QED
    BY <1>4, <2>1, MoveHeadPending DEF Collecting
<1>5. ASSUME Generate \/ Listen \/ Wake \/ Cancel \/ Return \/ Disconnected \/ DropReceiver
      PROVE  Collecting'
  BY <1>5 DEF Generate, Listen, Wake, Cancel, Return, Disconnected, DropReceiver, Collecting
<1>6. CASE UNCHANGED vars
  BY <1>6 DEF vars, Collecting
<1> QED
  BY <1>1, <1>2, <1>3, <1>4, <1>5, <1>6 DEF Next, SenderStep, Receive

LEMMA QueueStep == TypeOK /\ Collecting /\ [Next]_vars => [Queue!Next]_Queue!vars
<1> SUFFICES ASSUME TypeOK, Collecting, [Next]_vars PROVE [Queue!Next]_Queue!vars
  OBVIOUS
<1>1. ASSUME NEW s \in Senders, Push(s) PROVE Queue!Send(s)
  <2>1. items' \o queue' = Append(items \o queue, <<s, sent[s] + 1>>)
    BY <1>1, PushPending
  <2> QED
    BY <1>1, <2>1 DEF Push, Queue!Send, ReceiverState
<1>2. ASSUME NEW s \in Senders, Notify(s) PROVE UNCHANGED Queue!vars
  BY <1>2 DEF Notify, Queue!vars, ReceiverState
<1>3. ASSUME NEW s \in Senders, DropSender(s) PROVE Queue!Leave(s)
  BY <1>3 DEF DropSender, Queue!Leave, ReceiverState
<1>4. ASSUME Generate \/ Check \/ Listen \/ Recheck \/ Wake \/ Cancel
      PROVE  UNCHANGED Queue!vars
  BY <1>4 DEF Generate, Check, Listen, Recheck, Wake, Cancel, Queue!vars, ReceiverState
<1>5. ASSUME TryRecv PROVE UNCHANGED Queue!vars
  <2>1. items' \o queue' = items \o queue
    BY <1>5, MoveHeadPending
  <2> QED
    BY <1>5, <2>1 DEF TryRecv, Queue!vars, ReceiverState
<1>6. items \o <<>> = items /\ <<>> \o <<>> = <<>>
  BY ConcatEmptySeq DEF TypeOK
<1>7. ASSUME Return PROVE Queue!Deliver
  <2>1. items \o queue = items /\ items # <<>>
    BY <1>6, <1>7 DEF Return, Collecting
  <2>2. items' \o queue' = <<>>
    BY <1>6, <1>7 DEF Return
  <2> QED
    BY <1>7, <2>1, <2>2 DEF Return, Queue!Deliver, ReceiverState
<1>8. ASSUME Disconnected PROVE Queue!Fail
  <2>1. items \o queue # <<>>
    BY <1>8 DEF Disconnected, Collecting
  <2>2. items' \o queue' = <<>>
    BY <1>6, <1>8 DEF Disconnected
  <2> QED
    BY <1>8, <2>1, <2>2 DEF Disconnected, Queue!Fail, ReceiverState
<1>9. ASSUME DropReceiver PROVE Queue!Close
  <2>1. items' \o queue' = <<>>
    BY <1>6, <1>9 DEF DropReceiver, Collecting
  <2> QED
    BY <1>9, <2>1 DEF DropReceiver, Queue!Close, ReceiverState
<1>10. CASE UNCHANGED vars
  BY <1>10 DEF vars, Queue!vars, ReceiverState
<1> QED
  BY <1>1, <1>2, <1>3, <1>4, <1>5, <1>7, <1>8, <1>9, <1>10
  DEF Next, SenderStep, Receive, Queue!Next

\* The safety part of ImplementsQueue, for any number of senders and messages:
\* every interleaving of send, wait and collect_nonblock is a behaviour of one
\* atomic queue whose deliveries take all there is and are never empty.
THEOREM QueueRefinement == Spec => Queue!Spec
<1>1. Init => Collecting
  BY DEF Init, Collecting
<1>2. Init => Queue!Init
  <2>1. <<>> \o <<>> = <<>>
    BY ConcatEmptySeq
  <2> QED
    BY <2>1 DEF Init, Queue!Init, ReceiverState
<1> QED
  BY <1>1, <1>2, InitTypeOK, NextTypeOK, NextCollecting, QueueStep, PTL
  DEF Spec, Queue!Spec
=============================================================================
