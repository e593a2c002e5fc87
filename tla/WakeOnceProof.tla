---------------------------- MODULE WakeOnceProof ----------------------------
(***************************************************************************)
(* wake_once_fn for any number of wakers, handles and senders: the closure *)
(* of a waker is moved out or destroyed once, and the wakers use the       *)
(* channel of src/notify_channel.rs as its other senders do.               *)
(***************************************************************************)
EXTENDS WakeOnce, TLAPS

Runs(w, h) == handle[w][h] \in {"took", "pushed", "sent"}

\* One thread runs the closure; who drops the last handle is alone.
OneRunner(w) ==
    /\ \A h, g \in Handles : Runs(w, h) /\ Runs(w, g) => h = g
    /\ \A h, g \in Handles :
          handle[w][h] = "last" /\ g # h => handle[w][g] \in {"none", "gone"}

\* The flag, the handles and the events sent tell the same story.
FlagInv(w) ==
    /\ ~used[w] => /\ \A h \in Handles : handle[w][h] \in {"none", "held", "last", "gone"}
                   /\ sent[w] = 0
    /\ \A h \in Handles : handle[w][h] = "took" => sent[w] = 0
    /\ sent[w] <= 1

\* Where the closure is: in the Arc, in the hands of a thread, or nowhere.
ClosureInv(w) ==
    /\ moved[w] = IF used[w] \/ Released(w) THEN 1 ELSE 0
    /\ w \in live <=> (\E h \in Handles : Runs(w, h)) \/ (~used[w] /\ ~Released(w))

WakeInv ==
    /\ WakeTypeOK
    /\ sent \in [Senders -> Nat]
    /\ \A w \in Wakers : OneRunner(w) /\ FlagInv(w) /\ ClosureInv(w)

-----------------------------------------------------------------------------
(* The wakers are senders of the channel *)

LEMMA WakerStepIsChannelStep ==
    ASSUME NEW w \in Wakers, WakerStep(w)
    PROVE  [Next]_vars
<1>1. w \in Senders
  BY WakersAssumption
<1>2. UNCHANGED vars \/ Push(w) \/ Notify(w) \/ DropSender(w)
  BY DEF WakerStep, Run, Clone, Take, RunPush, RunNotify, RunReturn, Release, Destroy
<1> QED
  BY <1>1, <1>2 DEF Next, SenderStep

LEMMA ChannelStep == [WakeNext]_allVars => [Next]_vars
<1> SUFFICES ASSUME [WakeNext]_allVars PROVE [Next]_vars
  OBVIOUS
<1>1. ASSUME NEW w \in Wakers, WakerStep(w) PROVE [Next]_vars
  BY <1>1, WakerStepIsChannelStep
<1>2. ASSUME NEW s \in Senders \ Wakers, SenderStep(s) PROVE [Next]_vars
  BY <1>2 DEF Next
<1>3. ASSUME Receive \/ Cancel \/ DropReceiver PROVE [Next]_vars
  BY <1>3 DEF Next
<1>4. CASE UNCHANGED allVars
  BY <1>4 DEF allVars
<1> QED
  BY <1>1, <1>2, <1>3, <1>4 DEF WakeNext

\* A closure that sends from inside wake, on whichever thread, is a sender like
\* any other: the channel under the wakers is the channel, so that what is
\* proved of it (WakeupSafety, ChannelSafety, QueueRefinement) holds with them.
THEOREM WakersUseChannel == WakeSpec => Spec
<1>1. WakeInit => Init
  BY DEF WakeInit
<1> QED
  BY <1>1, ChannelStep, PTL DEF WakeSpec, Spec

-----------------------------------------------------------------------------
(* The closure is moved out or destroyed once *)

One(w) == OneRunner(w) /\ FlagInv(w) /\ ClosureInv(w)

\* A step that does not touch waker w leaves what is known of it.
LEMMA Frame ==
    ASSUME NEW w \in Wakers, One(w),
           used'[w] = used[w], handle'[w] = handle[w], moved'[w] = moved[w],
           sent'[w] = sent[w], (w \in live') <=> (w \in live)
    PROVE  One(w)'
BY DEF One, OneRunner, FlagInv, ClosureInv, Runs, Released

\* What a step that moves handle h of waker w from one step to another does.
LEMMA GotoHandle ==
    ASSUME NEW w \in Wakers, NEW h \in Handles, NEW step \in HandleSteps,
           WakeTypeOK, Goto(w, h, step)
    PROVE  /\ handle' \in [Wakers -> [Handles -> HandleSteps]]
           /\ handle'[w][h] = step
           /\ \A g \in Handles : g # h => handle'[w][g] = handle[w][g]
           /\ \A v \in Wakers : v # w => handle'[v] = handle[v]
BY DEF WakeTypeOK, Goto

\* While a handle counts, nobody runs AtomicOption::drop.
LEMMA NoLast ==
    ASSUME WakeInv, NEW w \in Wakers, NEW h \in Handles, Counted(w, h)
    PROVE  \A g \in Handles : handle[w][g] # "last"
BY DEF WakeInv, OneRunner, Counted

LEMMA CloneInv ==
    ASSUME WakeInv, NEW w \in Wakers, NEW h \in Handles, NEW g \in Handles, Clone(w, h, g)
    PROVE  WakeInv'
<1>1. /\ handle' \in [Wakers -> [Handles -> HandleSteps]]
      /\ handle'[w][g] = "held"
      /\ \A f \in Handles : f # g => handle'[w][f] = handle[w][f]
      /\ \A v \in Wakers : v # w => handle'[v] = handle[v]
  BY GotoHandle DEF Clone, WakeInv, HandleSteps
<1>2. UNCHANGED <<live, sent, used, moved>>
  BY DEF Clone, vars
<1>3. One(w)'
  <2>1. /\ handle[w][h] = "held" /\ handle'[w][h] = "held" /\ handle[w][g] = "none"
        /\ \A f \in Handles : handle[w][f] # "last"
    BY <1>1, NoLast DEF Clone, Counted
  <2>2. \A f \in Handles : Runs(w, f)' <=> Runs(w, f)
    BY <1>1, <2>1 DEF Runs
  <2>3. OneRunner(w)'
    BY <1>1, <2>1, <2>2 DEF WakeInv, OneRunner
  <2>4. FlagInv(w)'
    BY <1>1, <1>2 DEF WakeInv, FlagInv
  <2>5. ~Released(w) /\ ~Released(w)'
    BY <2>1 DEF Released
  <2>6. ClosureInv(w)'
    BY <1>2, <2>2, <2>5 DEF WakeInv, ClosureInv
  <2> QED
    BY <2>3, <2>4, <2>6 DEF One
<1>4. ASSUME NEW v \in Wakers, v # w PROVE One(v)'
  BY <1>1, <1>2, <1>4, Frame DEF WakeInv, One
<1> QED
  BY <1>1, <1>2, <1>3, <1>4 DEF WakeInv, WakeTypeOK, One

LEMMA TakeInv ==
    ASSUME WakeInv, NEW w \in Wakers, NEW h \in Handles, Take(w, h)
    PROVE  WakeInv'
<1>1. /\ handle' \in [Wakers -> [Handles -> HandleSteps]]
      /\ handle'[w][h] = IF used[w] THEN "done" ELSE "took"
      /\ \A g \in Handles : g # h => handle'[w][g] = handle[w][g]
      /\ \A v \in Wakers : v # w => handle'[v] = handle[v]
  BY GotoHandle DEF Take, WakeInv, HandleSteps
<1>2. /\ used' \in [Wakers -> BOOLEAN] /\ used'[w]
      /\ moved' \in [Wakers -> Nat]
      /\ moved'[w] = IF used[w] THEN moved[w] ELSE moved[w] + 1
      /\ \A v \in Wakers : v # w => used'[v] = used[v] /\ moved'[v] = moved[v]
      /\ UNCHANGED <<live, sent>>
  BY DEF Take, vars, WakeInv, WakeTypeOK
<1>3. ~Released(w) /\ handle[w][h] = "held"
  BY DEF Take, Released
<1>4. One(w)'
  <2>1. OneRunner(w)'
    <3>1. \A g \in Handles : handle'[w][g] # "last"
      BY <1>1, <1>3, NoLast DEF Counted
    <3>2. CASE used[w]
      BY <1>1, <3>1, <3>2 DEF WakeInv, OneRunner, Runs
    <3>3. CASE ~used[w]
      <4>1. \A g \in Handles : g # h => ~Runs(w, g)'
        BY <1>1, <3>3 DEF WakeInv, FlagInv, Runs
      <4> QED
        BY <3>1, <4>1 DEF OneRunner
    <3> QED
      BY <3>2, <3>3
  <2>2. FlagInv(w)'
    BY <1>1, <1>2, <1>3 DEF WakeInv, FlagInv
  <2>3. moved'[w] = 1
    BY <1>2, <1>3 DEF WakeInv, ClosureInv, WakeTypeOK
  <2>4. w \in live' <=> \E g \in Handles : Runs(w, g)'
    BY <1>1, <1>2, <1>3 DEF WakeInv, ClosureInv, FlagInv, Runs
  <2> QED
    BY <1>2, <2>1, <2>2, <2>3, <2>4 DEF One, ClosureInv
<1>5. ASSUME NEW v \in Wakers, v # w PROVE One(v)'
  BY <1>1, <1>2, <1>5, Frame DEF WakeInv, One
<1> QED
  BY <1>1, <1>2, <1>4, <1>5 DEF WakeInv, WakeTypeOK, One

LEMMA RunPushInv ==
    ASSUME WakeInv, NEW w \in Wakers, NEW h \in Handles, RunPush(w, h)
    PROVE  WakeInv'
<1>1. /\ handle' \in [Wakers -> [Handles -> HandleSteps]]
      /\ handle'[w][h] = "pushed"
      /\ \A g \in Handles : g # h => handle'[w][g] = handle[w][g]
      /\ \A v \in Wakers : v # w => handle'[v] = handle[v]
  BY GotoHandle DEF RunPush, WakeInv, HandleSteps
<1>2. /\ UNCHANGED <<used, moved, live>>
      /\ sent' \in [Senders -> Nat] /\ sent'[w] = sent[w] + 1
      /\ \A v \in Wakers : v # w => sent'[v] = sent[v]
  BY WakersAssumption DEF RunPush, Push, WakeInv
<1>3. sent[w] = 0 /\ handle[w][h] = "took" /\ used[w]
  BY DEF RunPush, WakeInv, FlagInv
<1>4. One(w)'
  <2>1. OneRunner(w)'
    BY <1>1, <1>3 DEF WakeInv, OneRunner, Runs
  <2>2. \A g \in Handles : g # h => handle[w][g] # "took"
    BY <1>3 DEF WakeInv, OneRunner, Runs
  <2>3. FlagInv(w)'
    BY <1>1, <1>2, <1>3, <2>2 DEF FlagInv
  <2>4. ClosureInv(w)'
    BY <1>1, <1>2, <1>3 DEF WakeInv, ClosureInv, Runs
  <2> QED
    BY <2>1, <2>3, <2>4 DEF One
<1>5. ASSUME NEW v \in Wakers, v # w PROVE One(v)'
  BY <1>1, <1>2, <1>5, Frame DEF WakeInv, One
<1> QED
  BY <1>1, <1>2, <1>4, <1>5 DEF WakeInv, WakeTypeOK, One

LEMMA RunNotifyInv ==
    ASSUME WakeInv, NEW w \in Wakers, NEW h \in Handles, RunNotify(w, h)
    PROVE  WakeInv'
<1>1. /\ handle' \in [Wakers -> [Handles -> HandleSteps]]
      /\ handle'[w][h] = "sent"
      /\ \A g \in Handles : g # h => handle'[w][g] = handle[w][g]
      /\ \A v \in Wakers : v # w => handle'[v] = handle[v]
  BY GotoHandle DEF RunNotify, WakeInv, HandleSteps
<1>2. UNCHANGED <<used, moved, live, sent>> /\ handle[w][h] = "pushed"
  BY DEF RunNotify, Notify
<1>3. One(w)'
  BY <1>1, <1>2 DEF WakeInv, OneRunner, FlagInv, ClosureInv, One, Runs, Released
<1>4. ASSUME NEW v \in Wakers, v # w PROVE One(v)'
  BY <1>1, <1>2, <1>4, Frame DEF WakeInv, One
<1> QED
  BY <1>1, <1>2, <1>3, <1>4 DEF WakeInv, WakeTypeOK, One

LEMMA RunReturnInv ==
    ASSUME WakeInv, NEW w \in Wakers, NEW h \in Handles, RunReturn(w, h)
    PROVE  WakeInv'
<1>1. /\ handle' \in [Wakers -> [Handles -> HandleSteps]]
      /\ handle'[w][h] = "done"
      /\ \A g \in Handles : g # h => handle'[w][g] = handle[w][g]
      /\ \A v \in Wakers : v # w => handle'[v] = handle[v]
  BY GotoHandle DEF RunReturn, WakeInv, HandleSteps
<1>2. UNCHANGED <<used, moved, sent>> /\ live' = live \ {w} /\ Runs(w, h)
  BY DEF RunReturn, DropSender, Runs
<1>3. used[w]
  BY <1>2 DEF WakeInv, FlagInv, Runs
<1>4. One(w)'
  <2>1. FlagInv(w)'
    BY <1>1, <1>2, <1>3 DEF WakeInv, FlagInv
  <2>2. \A g \in Handles : ~Runs(w, g)'
    BY <1>1, <1>2 DEF WakeInv, OneRunner, Runs
  <2>4. \A g \in Handles : handle[w][g] # "last"
    BY <1>2, NoLast DEF Counted, Runs
  <2>5. OneRunner(w)'
    BY <1>1, <2>2, <2>4 DEF OneRunner
  <2>3. ClosureInv(w)'
    BY <1>2, <1>3, <2>2 DEF WakeInv, ClosureInv
  <2> QED
    BY <2>1, <2>3, <2>5 DEF One
<1>5. ASSUME NEW v \in Wakers, v # w PROVE One(v)'
  BY <1>1, <1>2, <1>5, Frame DEF WakeInv, One
<1> QED
  BY <1>1, <1>2, <1>4, <1>5 DEF WakeInv, WakeTypeOK, One

LEMMA ReleaseInv ==
    ASSUME WakeInv, NEW w \in Wakers, NEW h \in Handles, Release(w, h)
    PROVE  WakeInv'
<1> DEFINE shared == \E g \in Handles \ {h} : Counted(w, g)
<1>1. /\ handle' \in [Wakers -> [Handles -> HandleSteps]]
      /\ handle'[w][h] = IF shared THEN "gone" ELSE "last"
      /\ \A g \in Handles : g # h => handle'[w][g] = handle[w][g]
      /\ \A v \in Wakers : v # w => handle'[v] = handle[v]
  BY GotoHandle DEF Release, WakeInv, HandleSteps
<1>2. UNCHANGED <<used, moved, live, sent>> /\ handle[w][h] \in {"held", "done"}
  BY DEF Release, vars
<1>3. ~Released(w) /\ ~Released(w)'
  BY <1>1, <1>2 DEF Released, Counted
<1>4. One(w)'
  <2>1. ~shared => \A g \in Handles : g # h => handle[w][g] \in {"none", "gone"}
    BY <1>2 DEF Counted, WakeInv, OneRunner
  <2>2. OneRunner(w)'
    BY <1>1, <1>2, <2>1 DEF WakeInv, OneRunner, Runs
  <2>3. FlagInv(w)'
    BY <1>1, <1>2 DEF WakeInv, FlagInv
  <2>4. ClosureInv(w)'
    BY <1>1, <1>2, <1>3 DEF WakeInv, ClosureInv, Runs
  <2> QED
    BY <2>2, <2>3, <2>4 DEF One
<1>5. ASSUME NEW v \in Wakers, v # w PROVE One(v)'
  BY <1>1, <1>2, <1>5, Frame DEF WakeInv, One
<1> QED
  BY <1>1, <1>2, <1>4, <1>5 DEF WakeInv, WakeTypeOK, One

LEMMA DestroyInv ==
    ASSUME WakeInv, NEW w \in Wakers, NEW h \in Handles, Destroy(w, h)
    PROVE  WakeInv'
<1>1. /\ handle' \in [Wakers -> [Handles -> HandleSteps]]
      /\ handle'[w][h] = "gone"
      /\ \A g \in Handles : g # h => handle'[w][g] = handle[w][g]
      /\ \A v \in Wakers : v # w => handle'[v] = handle[v]
  BY GotoHandle DEF Destroy, WakeInv, HandleSteps
<1>2. /\ UNCHANGED <<used, sent>>
      /\ live' = IF used[w] THEN live ELSE live \ {w}
      /\ moved' \in [Wakers -> Nat]
      /\ moved'[w] = IF used[w] THEN moved[w] ELSE moved[w] + 1
      /\ \A v \in Wakers : v # w => moved'[v] = moved[v]
      /\ handle[w][h] = "last"
  BY DEF Destroy, DropSender, vars, WakeInv, WakeTypeOK
<1>3. \A g \in Handles : g # h => handle[w][g] \in {"none", "gone"}
  BY <1>2 DEF WakeInv, OneRunner
<1>4. Released(w)' /\ ~Released(w)
  BY <1>1, <1>2, <1>3 DEF Released
<1>5. One(w)'
  <2>1. OneRunner(w)' /\ FlagInv(w)'
    BY <1>1, <1>2, <1>3 DEF WakeInv, OneRunner, FlagInv, Runs
  <2>2. /\ \A g \in Handles : ~Runs(w, g)
        /\ \A g \in Handles : ~Runs(w, g)'
    BY <1>1, <1>2, <1>3 DEF Runs
  <2>3. moved'[w] = 1 /\ w \notin live'
    BY <1>2, <1>4, <2>2 DEF WakeInv, ClosureInv, WakeTypeOK
  <2> QED
    BY <1>4, <2>1, <2>2, <2>3 DEF One, ClosureInv
<1>6. ASSUME NEW v \in Wakers, v # w PROVE One(v)'
  BY <1>1, <1>2, <1>6, Frame DEF WakeInv, One
<1> QED
  BY <1>1, <1>2, <1>5, <1>6 DEF WakeInv, WakeTypeOK, One

\* The steps of the other senders and of the receiver.
LEMMA OthersInv ==
    ASSUME WakeInv, UNCHANGED wakeVars,
           (\E s \in Senders \ Wakers : SenderStep(s)) \/ Receive \/ Cancel \/ DropReceiver
    PROVE  WakeInv'
<1>1. /\ sent' \in [Senders -> Nat]
      /\ \A w \in Wakers : sent'[w] = sent[w] /\ ((w \in live') <=> (w \in live))
  <2>1. ASSUME NEW s \in Senders \ Wakers, SenderStep(s)
        PROVE  /\ sent' \in [Senders -> Nat]
               /\ \A w \in Wakers : sent'[w] = sent[w] /\ ((w \in live') <=> (w \in live))
    BY <2>1, WakersAssumption DEF SenderStep, Push, Notify, DropSender, WakeInv
  <2>2. ASSUME Receive \/ Cancel \/ DropReceiver PROVE UNCHANGED <<sent, live>>
    BY <2>2 DEF Receive, Generate, Check, Listen, Recheck, Wake, TryRecv, Return,
                Disconnected, Cancel, DropReceiver
  <2> QED
    BY <2>1, <2>2 DEF WakeInv
<1>2. \A w \in Wakers : One(w)'
  BY <1>1, Frame DEF WakeInv, One, wakeVars
<1> QED
  BY <1>1, <1>2 DEF WakeInv, WakeTypeOK, One, wakeVars

LEMMA NextWakeInv == WakeInv /\ [WakeNext]_allVars => WakeInv'
<1> SUFFICES ASSUME WakeInv, [WakeNext]_allVars PROVE WakeInv'
  OBVIOUS
<1>1. ASSUME NEW w \in Wakers, WakerStep(w) PROVE WakeInv'
  BY <1>1, CloneInv, TakeInv, RunPushInv, RunNotifyInv, RunReturnInv, ReleaseInv, DestroyInv
  DEF WakerStep, Run
<1>2. CASE UNCHANGED allVars
  BY <1>2 DEF allVars, vars, WakeInv, WakeTypeOK, OneRunner, FlagInv, ClosureInv, Runs, Released
<1> QED
  BY <1>1, <1>2, OthersInv DEF WakeNext

\* AtomicOption::take and AtomicOption::drop between them move the closure out
\* or destroy it exactly once, however many handles race: it is not run twice,
\* not destroyed after it ran, and not leaked.
THEOREM ClosureSafety == WakeSpec => []ClosureOnce
<1>1. WakeInit => WakeInv
  <2> SUFFICES ASSUME WakeInit PROVE WakeInv
    OBVIOUS
  <2>1. PICK f \in [Wakers -> Handles] :
           handle = [w \in Wakers |-> [h \in Handles |->
                                         IF h = f[w] THEN "held" ELSE "none"]]
    BY DEF WakeInit
  <2>2. WakeTypeOK /\ sent \in [Senders -> Nat]
    BY <2>1 DEF WakeInit, Init, WakeTypeOK, HandleSteps
  <2>3. ASSUME NEW w \in Wakers PROVE OneRunner(w) /\ FlagInv(w) /\ ClosureInv(w)
    <3>1. /\ f[w] \in Handles /\ handle[w][f[w]] = "held"
          /\ \A h \in Handles : handle[w][h] \in {"held", "none"}
      BY <2>1
    <3>2. ~used[w] /\ sent[w] = 0 /\ moved[w] = 0 /\ w \in live
      BY WakersAssumption DEF WakeInit, Init
    <3> QED
      BY <3>1, <3>2 DEF OneRunner, FlagInv, ClosureInv, Runs, Released
  <2> QED
    BY <2>2, <2>3 DEF WakeInv
<1>2. WakeInv => ClosureOnce
  <2> SUFFICES ASSUME WakeInv, NEW w \in Wakers
               PROVE  /\ moved[w] <= 1 /\ sent[w] <= 1
                      /\ Released(w) => moved[w] = 1 /\ w \notin live
    BY DEF ClosureOnce
  <2>1. Released(w) => \A h \in Handles : ~Runs(w, h)
    BY DEF Released, Runs
  <2> QED
    BY <2>1 DEF WakeInv, FlagInv, ClosureInv
<1> QED
  BY <1>1, <1>2, NextWakeInv, PTL DEF WakeSpec
=============================================================================
