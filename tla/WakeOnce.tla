------------------------------- MODULE WakeOnce ------------------------------
(***************************************************************************)
(* wake_once_fn of src/wake_fn.rs, composed with the channel its closures  *)
(* send to.  A waker is an Arc around a closure that owns a NotifySender   *)
(* and an event.  Its handles are cloned, woken and dropped on any thread; *)
(* AtomicOption::take lets one of them run the closure, and the drop of    *)
(* the last handle destroys a closure that nobody took.                    *)
(***************************************************************************)
EXTENDS NotifyChannel

CONSTANTS Wakers,    \* the senders that a waker's closure owns
          Handles    \* the handles that a waker may have

ASSUME WakersAssumption == Wakers \subseteq Senders

VARIABLES used,      \* AtomicOption::used
          handle,    \* what each handle of each waker is doing
          moved      \* how often the closure was moved out or destroyed

wakeVars == <<used, handle, moved>>

allVars == <<vars, used, handle, moved>>

\* "took" to "sent": the thread runs the closure; "done": wake is about to
\* drop its handle; "last": the count is 0, AtomicOption::drop is to run.
HandleSteps == {"none", "held", "took", "pushed", "sent", "done", "last", "gone"}

WakeTypeOK ==
    /\ used \in [Wakers -> BOOLEAN]
    /\ handle \in [Wakers -> [Handles -> HandleSteps]]
    /\ moved \in [Wakers -> Nat]

\* One handle of each waker exists, the one that wake_once_fn returned.
WakeInit ==
    /\ Init
    /\ used = [w \in Wakers |-> FALSE]
    /\ \E f \in [Wakers -> Handles] :
          handle = [w \in Wakers |-> [h \in Handles |->
                                        IF h = f[w] THEN "held" ELSE "none"]]
    /\ moved = [w \in Wakers |-> 0]

Goto(w, h, step) == handle' = [handle EXCEPT ![w][h] = step]

Counted(w, h) == handle[w][h] \notin {"none", "last", "gone"}

-----------------------------------------------------------------------------
\* WakerRegistration::register clones the waker it is given.
Clone(w, h, g) ==
    /\ handle[w][h] = "held"
    /\ handle[w][g] = "none"
    /\ Goto(w, g, "held")
    /\ UNCHANGED <<vars, used, moved>>

\* WakeOnceFn::wake: the compare_exchange of AtomicOption::take.
Take(w, h) ==
    /\ handle[w][h] = "held"
    /\ used' = [used EXCEPT ![w] = TRUE]
    /\ moved' = [moved EXCEPT ![w] = IF used[w] THEN @ ELSE @ + 1]
    /\ Goto(w, h, IF used[w] THEN "done" ELSE "took")
    /\ UNCHANGED vars

\* f() sends the event.
RunPush(w, h) ==
    /\ handle[w][h] = "took"
    /\ Push(w)
    /\ Goto(w, h, "pushed")
    /\ UNCHANGED <<used, moved>>

RunNotify(w, h) ==
    /\ handle[w][h] = "pushed"
    /\ Notify(w)
    /\ Goto(w, h, "sent")
    /\ UNCHANGED <<used, moved>>

\* f() returns, also when send found the receiver gone; the closure is
\* consumed and its sender dropped.
RunReturn(w, h) ==
    /\ \/ handle[w][h] = "sent"
       \/ handle[w][h] = "took" /\ rpc = "dropped"
    /\ DropSender(w)
    /\ Goto(w, h, "done")
    /\ UNCHANGED <<used, moved>>

\* A handle is dropped, by its owner or at the end of wake.
Release(w, h) ==
    /\ handle[w][h] \in {"held", "done"}
    /\ Goto(w, h, IF \E g \in Handles \ {h} : Counted(w, g) THEN "gone" ELSE "last")
    /\ UNCHANGED <<vars, used, moved>>

\* A bug: the closure is destroyed although it was moved out.
DestroyAlways(w, h) ==
    /\ handle[w][h] = "last"
    /\ moved' = [moved EXCEPT ![w] = @ + 1]
    /\ IF w \in live THEN DropSender(w) ELSE UNCHANGED vars
    /\ Goto(w, h, "gone")
    /\ UNCHANGED used

\* AtomicOption::drop.
Destroy(w, h) ==
    /\ handle[w][h] = "last"
    /\ IF used[w]
       THEN UNCHANGED <<vars, moved>>
       ELSE DropSender(w) /\ moved' = [moved EXCEPT ![w] = @ + 1]
    /\ Goto(w, h, "gone")
    /\ UNCHANGED used

-----------------------------------------------------------------------------
Run(w, h) == RunPush(w, h) \/ RunNotify(w, h) \/ RunReturn(w, h)

WakerStep(w) ==
    \/ \E h, g \in Handles : Clone(w, h, g)
    \/ \E h \in Handles : Take(w, h) \/ Run(w, h) \/ Release(w, h) \/ Destroy(w, h)

WakeNext ==
    \/ \E w \in Wakers : WakerStep(w)
    \/ /\ \/ \E s \in Senders \ Wakers : SenderStep(s)
          \/ Receive
          \/ Cancel
          \/ DropReceiver
       /\ UNCHANGED wakeVars

WakeSpec == WakeInit /\ [][WakeNext]_allVars

\* A started wake runs to its end; the channel's fairness is the receiver's
\* and, for the ordinary senders, that a started send ends.
WakeFairSpec ==
    /\ WakeSpec
    /\ Fairness
    /\ \A w \in Wakers, h \in Handles : WF_allVars(Run(w, h))

-----------------------------------------------------------------------------
(* Properties *)

Released(w) == \A h \in Handles : handle[w][h] \in {"none", "gone"}

\* Whichever threads wake and drop the handles of a waker, its closure is
\* moved out or destroyed once: it sends its event at most once, is never
\* destroyed after it ran, and is not leaked, with the result sender that a
\* future waits for, when the last handle is gone.
ClosureOnce ==
    \A w \in Wakers :
        /\ moved[w] <= 1
        /\ sent[w] <= 1
        /\ Released(w) => moved[w] = 1 /\ w \notin live
=============================================================================
