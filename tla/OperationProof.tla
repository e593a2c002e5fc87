--------------------------- MODULE OperationProof ----------------------------
(***************************************************************************)
(* The buffers of any number of operations, of any length, on sockets of   *)
(* any capacity: a future that is answered owns its buffer alone, the      *)
(* bytes are where they belong, and the future is told the truth of them.  *)
(***************************************************************************)
EXTENDS Operation, FiniteSetTheorems, SequenceTheorems, TLAPS

Whole == {"buffer", "result_tx"}

EventTypes ==
    /\ st \in [Futures -> FutureStates]
    /\ at \in [Futures -> Places]
    /\ owns \in [Futures -> SUBSET Whole]
    /\ DOMAIN reply = Futures /\ reply = [f \in Futures |-> reply[f]]

\* An event is whole until it is let go, and loses its buffer first: while the
\* buffer is there, so is the sender that keeps the future waiting.
EventInv(f) ==
    /\ at[f] = "none" <=> owns[f] = {}
    /\ at[f] \in {"queue", "waker"} => owns[f] = Whole
    /\ "result_tx" \notin owns[f] => owns[f] = {}

\* A future that does not wait has no event, and neither has one whose result
\* channel holds an answer.
FutureInv(f) ==
    /\ st[f] # "panicked"
    /\ st[f] \in Returned \cup {"call", "none"} => owns[f] = {}
    /\ reply[f] # None => owns[f] = {}

\* The wakers own events, each its own.
WakerInv ==
    /\ rw # None => rw \in Futures /\ at[rw] = "waker"
    /\ sw # None => sw \in Futures /\ at[sw] = "waker"
    /\ rw # None => rw # sw

BufferInv ==
    /\ EventTypes
    /\ WakerInv
    /\ \A f \in Futures : EventInv(f) /\ FutureInv(f)

-----------------------------------------------------------------------------
(* Steps of a future *)

LEMMA CallInv ==
    ASSUME BufferInv, NEW f \in Futures, NEW kind, NEW len, Call(f, kind, len)
    PROVE  BufferInv'
<1>1. /\ st' \in [Futures -> FutureStates]
      /\ st'[f] \in {"ok", "call"} /\ st[f] = "none"
      /\ \A g \in Futures : g # f => st'[g] = st[g]
      /\ UNCHANGED <<reply, at, owns, rw, sw>>
  BY DEF Call, BufferInv, EventTypes, FutureStates, Returned, eventVars, sockVars
<1>2. \A g \in Futures : FutureInv(g)'
  BY <1>1 DEF BufferInv, FutureInv, Returned
<1> QED
  BY <1>1, <1>2 DEF BufferInv, EventTypes, EventInv, WakerInv

LEMMA SendInv ==
    ASSUME BufferInv, NEW f \in Futures, Send(f)
    PROVE  BufferInv'
<1>1. /\ reply'[f] = None
      /\ \A g \in Futures : g # f => reply'[g] = reply[g]
      /\ DOMAIN reply' = Futures /\ reply' = [g \in Futures |-> reply'[g]]
      /\ st[f] = "call" /\ UNCHANGED <<rw, sw>>
  BY DEF Send, BufferInv, EventTypes, sockVars
<1>2. owns[f] = {} /\ at[f] = "none"
  BY <1>1 DEF BufferInv, FutureInv, EventInv
<1>3. f # rw /\ f # sw
  BY <1>2, NoneAssumption DEF BufferInv, WakerInv
<1>4. CASE channel
  <2>1. /\ st' = [st EXCEPT ![f] = "wait"]
        /\ at' = [at EXCEPT ![f] = "queue"]
        /\ owns' = [owns EXCEPT ![f] = Whole]
    BY <1>4 DEF Send, Whole
  <2>2. EventTypes'
    BY <1>1, <2>1 DEF BufferInv, EventTypes, FutureStates, Places
  <2>3. \A g \in Futures : EventInv(g)' /\ FutureInv(g)'
    BY <1>1, <2>1 DEF BufferInv, EventTypes, EventInv, FutureInv, Returned, Whole
  <2>4. WakerInv'
    BY <1>1, <1>3, <2>1 DEF BufferInv, EventTypes, WakerInv
  <2> QED
    BY <2>2, <2>3, <2>4 DEF BufferInv
<1>5. CASE ~channel
  <2>1. st' = [st EXCEPT ![f] = "error"] /\ UNCHANGED <<at, owns>>
    BY <1>5 DEF Send
  <2>2. \A g \in Futures : FutureInv(g)'
    BY <1>1, <1>2, <2>1 DEF BufferInv, EventTypes, FutureInv, Returned
  <2> QED
    BY <1>1, <2>1, <2>2 DEF BufferInv, EventTypes, EventInv, WakerInv, FutureStates, Returned
<1> QED
  BY <1>4, <1>5

LEMMA ReceiveInv ==
    ASSUME BufferInv, NEW f \in Futures, Receive(f)
    PROVE  BufferInv'
<1>1. owns[f] = {}
  BY DEF Receive, BufferInv, EventInv, FutureInv
<1>2. PICK step \in Returned \cup {"call"} : st' = [st EXCEPT ![f] = step]
  BY <1>1 DEF Receive, Cast, After, Returned
<1>3. UNCHANGED <<reply, at, owns, rw, sw>>
  BY DEF Receive, eventVars, sockVars
<1>4. st' \in [Futures -> FutureStates] /\ \A g \in Futures : FutureInv(g)'
  BY <1>1, <1>2, <1>3 DEF BufferInv, EventTypes, FutureInv, FutureStates, Returned
<1> QED
  BY <1>3, <1>4 DEF BufferInv, EventTypes, EventInv, WakerInv

LEMMA CancelInv ==
    ASSUME BufferInv, NEW f \in Futures, Cancel(f)
    PROVE  BufferInv'
<1>1. st' = [st EXCEPT ![f] = "cancelled"] /\ UNCHANGED <<reply, at, owns, rw, sw>>
  BY DEF Cancel, eventVars, sockVars
<1>2. st' \in [Futures -> FutureStates] /\ \A g \in Futures : FutureInv(g)'
  BY <1>1 DEF BufferInv, EventTypes, FutureInv, FutureStates, Returned
<1> QED
  BY <1>1, <1>2 DEF BufferInv, EventTypes, EventInv, WakerInv

-----------------------------------------------------------------------------
(* Steps that let go of an event *)

LEMMA DropBufferInv ==
    ASSUME BufferInv, NEW f \in Futures, DropBuffer(f)
    PROVE  BufferInv'
<1>1. /\ owns' = [owns EXCEPT ![f] = @ \ {"buffer"}]
      /\ at[f] \in Leaving /\ "buffer" \in owns[f]
      /\ UNCHANGED <<st, reply, at, rw, sw>>
  BY DEF DropBuffer, userVars, sockVars
<1>2. owns[f] = Whole /\ owns'[f] = {"result_tx"}
  BY <1>1 DEF BufferInv, EventTypes, EventInv, Whole
<1>3. owns' \in [Futures -> SUBSET Whole]
  BY <1>1 DEF BufferInv, EventTypes, Whole
<1>4. \A g \in Futures : EventInv(g)' /\ FutureInv(g)'
  <2>1. ASSUME NEW g \in Futures, g # f PROVE EventInv(g)' /\ FutureInv(g)'
    BY <1>1, <2>1 DEF BufferInv, EventTypes, EventInv, FutureInv
  <2>2. EventInv(f)' /\ FutureInv(f)'
    BY <1>1, <1>2 DEF BufferInv, EventInv, FutureInv, Leaving, Whole
  <2> QED
    BY <2>1, <2>2
<1> QED
  BY <1>1, <1>3, <1>4 DEF BufferInv, EventTypes, WakerInv

LEMMA LetGoInv ==
    ASSUME BufferInv, NEW f \in Futures, LetGo(f)
    PROVE  BufferInv'
<1>1. /\ owns' = [owns EXCEPT ![f] = {}]
      /\ at' = [at EXCEPT ![f] = "none"]
      /\ at[f] \in Leaving /\ owns[f] = {"result_tx"}
      /\ DOMAIN reply' = Futures /\ reply' = [g \in Futures |-> reply'[g]]
      /\ \A g \in Futures : g # f => reply'[g] = reply[g]
      /\ UNCHANGED <<st, rw, sw>>
  BY DEF LetGo, userVars, sockVars, BufferInv, EventTypes
<1>2. EventTypes'
  BY <1>1 DEF BufferInv, EventTypes, Places
<1>3. WakerInv'
  BY <1>1 DEF BufferInv, EventTypes, WakerInv, Leaving
<1>4. \A g \in Futures : EventInv(g)' /\ FutureInv(g)'
  BY <1>1 DEF BufferInv, EventTypes, EventInv, FutureInv
<1> QED
  BY <1>2, <1>3, <1>4 DEF BufferInv

-----------------------------------------------------------------------------
(* Steps that move events *)

Moved ==
    \A f \in Futures :
        at'[f] = at[f] \/ (at[f] \in {"queue", "waker"} /\ at'[f] # "none")

\* Events that are moved, whole, to another place stay whole.
LEMMA MoveInv ==
    ASSUME BufferInv, UNCHANGED <<st, reply, owns>>,
           at' \in [Futures -> Places], Moved, WakerInv'
    PROVE  BufferInv'
<1>1. ASSUME NEW f \in Futures PROVE EventInv(f)' /\ FutureInv(f)'
  BY DEF BufferInv, EventInv, FutureInv, Whole, Moved
<1> QED
  BY <1>1 DEF BufferInv, EventTypes

LEMMA AnswerInv ==
    ASSUME BufferInv, NEW f \in Futures, NEW a, at[f] = "queue", Answer(f, a),
           UNCHANGED <<st, reply, owns, rw, sw>>
    PROVE  BufferInv'
<1>1. at' \in [Futures -> Places] /\ at'[f] = "answer" /\ \A g \in Futures : g # f => at'[g] = at[g]
  BY DEF Answer, BufferInv, EventTypes, Places
<1>2. WakerInv'
  BY <1>1 DEF BufferInv, WakerInv
<1>3. Moved
  BY <1>1 DEF Moved
<1> QED
  BY <1>1, <1>2, <1>3, MoveInv

LEMMA ParkInv ==
    ASSUME BufferInv, NEW f \in Futures, NEW old, at[f] = "queue", Park(f, old),
           UNCHANGED <<st, reply, owns>>,
           \/ old = rw /\ rw' = f /\ sw' = sw
           \/ old = sw /\ sw' = f /\ rw' = rw
    PROVE  BufferInv'
<1>1. /\ at' \in [Futures -> Places]
      /\ at'[f] = "waker"
      /\ \A g \in Futures : g # f /\ g = old => at'[g] = "drop"
      /\ \A g \in Futures : g # f /\ g # old => at'[g] = at[g]
  BY DEF Park, BufferInv, EventTypes, Places
<1>2. rw # f /\ sw # f
  BY NoneAssumption DEF BufferInv, WakerInv
<1>3. \A g \in Futures : g = old => at[g] = "waker"
  BY NoneAssumption DEF BufferInv, WakerInv
<1>4. WakerInv'
  BY <1>1, <1>2 DEF BufferInv, WakerInv
<1>5. Moved
  BY <1>1, <1>3 DEF Moved
<1> QED
  BY <1>1, <1>4, <1>5, MoveInv

LEMMA HandleReadInv ==
    ASSUME BufferInv, NEW f \in Futures, HandleRead(f)
    PROVE  BufferInv'
<1>1. at[f] = "queue" /\ UNCHANGED <<st, reply, owns, sw>>
  BY DEF HandleRead, Handling, userVars
<1>2. \/ (\E a : Answer(f, a)) /\ UNCHANGED rw
      \/ Park(f, rw) /\ rw' = f
  BY DEF HandleRead
<1> QED
  BY <1>1, <1>2, AnswerInv, ParkInv

LEMMA HandleWriteInv ==
    ASSUME BufferInv, NEW f \in Futures, HandleWrite(f)
    PROVE  BufferInv'
<1>1. at[f] = "queue" /\ UNCHANGED <<st, reply, owns, rw>>
  BY DEF HandleWrite, Handling, userVars
<1>2. \/ (\E a : Answer(f, a)) /\ UNCHANGED sw
      \/ Park(f, sw) /\ sw' = f
  BY DEF HandleWrite
<1> QED
  BY <1>1, <1>2, AnswerInv, ParkInv

Taken(ws) ==
    /\ \A f \in ws : f = rw \/ f = sw
    /\ rw' = IF rw \in ws THEN None ELSE rw
    /\ sw' = IF sw \in ws THEN None ELSE sw

\* The wakers in ws are taken out of the socket, and their events go elsewhere.
LEMMA TakeWakers ==
    ASSUME BufferInv, NEW ws, NEW place \in {"queue", "answer", "drop"}, Sent(ws, place),
           UNCHANGED <<st, reply, owns>>,
           Taken(ws)
    PROVE  BufferInv'
<1>1. /\ at' \in [Futures -> Places]
      /\ \A f \in Futures : at'[f] = IF f \in ws THEN place ELSE at[f]
  BY DEF Sent, BufferInv, EventTypes, Places
<1>2. \A f \in Futures : f \in ws => at[f] = "waker"
  BY NoneAssumption DEF BufferInv, WakerInv, Taken
<1>3. WakerInv'
  BY <1>1 DEF BufferInv, WakerInv, Taken
<1>4. Moved
  BY <1>1, <1>2 DEF Moved
<1> QED
  BY <1>1, <1>3, <1>4, MoveInv

LEMMA LoseInv ==
    ASSUME BufferInv, NEW fs \in SUBSET Futures, NEW place \in {"drop", "lost"}, Lose(fs, place)
    PROVE  BufferInv'
<1>1. /\ at' \in [Futures -> Places]
      /\ \A f \in Futures : at'[f] = IF f \in fs THEN place ELSE at[f]
      /\ \A f \in fs : at[f] = "queue"
      /\ UNCHANGED <<st, reply, owns, rw, sw>>
  BY DEF Lose, Sent, BufferInv, EventTypes, Places, userVars, sockVars
<1>2. WakerInv'
  BY <1>1 DEF BufferInv, WakerInv
<1>3. Moved
  BY <1>1 DEF Moved
<1> QED
  BY <1>1, <1>2, <1>3, MoveInv

LEMMA WorldInv ==
    ASSUME BufferInv, World
    PROVE  BufferInv'
<1>1. ASSUME NEW ws, Woken(ws), UNCHANGED <<st, reply, owns>>,
             Taken(ws)
      PROVE  BufferInv'
  <2>1. Sent(ws, IF channel THEN "queue" ELSE "answer")
    BY <1>1 DEF Woken
  <2>2. (IF channel THEN "queue" ELSE "answer") \in {"queue", "answer", "drop"}
    OBVIOUS
  <2> QED
    BY <1>1, <2>1, <2>2, TakeWakers
<1>2. CASE Arrive
  <2>1. Woken({rw}) /\ rw' = None /\ UNCHANGED <<st, reply, owns, sw>>
    BY <1>2 DEF Arrive, userVars
  <2>2. Taken({rw})
    BY <2>1 DEF BufferInv, WakerInv, Taken
  <2> QED
    BY <1>1, <2>1, <2>2
<1>3. CASE Ack
  <2>1. Woken({sw}) /\ sw' = None /\ UNCHANGED <<st, reply, owns, rw>>
    BY <1>3 DEF Ack, userVars
  <2>2. Taken({sw})
    BY <2>1 DEF BufferInv, WakerInv, Taken
  <2> QED
    BY <1>1, <2>1, <2>2
<1>4. ASSUME NEW ds, CloseDirections(ds) PROVE BufferInv'
  <2>1. Woken({rw, sw}) /\ rw' = None /\ sw' = None /\ UNCHANGED <<st, reply, owns>>
    BY <1>4 DEF CloseDirections, userVars
  <2>2. Taken({rw, sw})
    BY <2>1 DEF Taken
  <2> QED
    BY <1>1, <2>1, <2>2
<1>5. CASE RemoveSocket \/ DropStack
  <2>1. Sent({rw, sw}, "drop") /\ rw' = None /\ sw' = None /\ UNCHANGED <<st, reply, owns>>
    BY <1>5 DEF RemoveSocket, DropStack, DropWakers, userVars
  <2>2. Taken({rw, sw})
    BY <2>1 DEF Taken
  <2> QED
    BY <2>1, <2>2, TakeWakers
<1>6. CASE DropGenerator
  BY <1>6 DEF DropGenerator, userVars, eventVars, sockVars, BufferInv, EventTypes, EventInv,
              FutureInv, WakerInv
<1> QED
  BY <1>2, <1>3, <1>4, <1>5, <1>6, LoseInv DEF World

LEMMA InitBufferInv == Init => BufferInv
BY DEF Init, BufferInv, EventTypes, EventInv, FutureInv, WakerInv, FutureStates, Places, Whole

LEMMA NextBufferInv == BufferInv /\ [Next]_vars => BufferInv'
<1> SUFFICES ASSUME BufferInv, [Next]_vars PROVE BufferInv'
  OBVIOUS
<1>1. ASSUME NEW f \in Futures, User(f) PROVE BufferInv'
  BY <1>1, CallInv, SendInv, ReceiveInv, CancelInv DEF User
<1>2. ASSUME NEW f \in Futures, Handler(f) PROVE BufferInv'
  BY <1>2, HandleReadInv, HandleWriteInv, DropBufferInv, LetGoInv DEF Handler
<1>3. CASE UNCHANGED vars
  BY <1>3 DEF vars, userVars, eventVars, sockVars, BufferInv, EventTypes, EventInv,
              FutureInv, WakerInv
<1> QED
  BY <1>1, <1>2, <1>3, WorldInv DEF Next

\* Because drop(buffer) comes before result_tx.send, and buffer before result_tx
\* in OperationEvent, no cast of a returned buffer finds a second reference and
\* no handler reaches a buffer that its user has back: for any number of
\* futures and every way an event can end.
THEOREM BufferSafety == Spec => []BufferExclusive
<1>1. BufferInv => BufferExclusive
  BY DEF BufferInv, FutureInv, BufferExclusive
<1> QED
  BY <1>1, InitBufferInv, NextBufferInv, PTL DEF Spec

-----------------------------------------------------------------------------
(* The bytes *)

\* The bytes that a handler has moved for f and that f does not know of yet.
Unreported(f) ==
    IF at[f] = "answer" THEN ans[f].n
    ELSE IF st[f] \in {"wait", "cancelled"} /\ reply[f] # None THEN reply[f].n
    ELSE 0

\* The bytes that handlers have moved for f.
Done(f) == moved[f] + Unreported(f)

\* An error comes with no bytes.
Honest == {a \in Answers : ~a.ok => a.n = 0}

CallOK(f) ==
    /\ call[f].kind \in Reads \cup Writes /\ call[f].len \in Nat
    /\ moved[f] \in Nat
    /\ Done(f) <= call[f].len
    /\ st[f] = "none" => call[f].kind = "read" /\ Done(f) = 0
    /\ ans[f] \in Honest /\ reply[f] \in Honest \cup {None}

CallTypes ==
    /\ call = [f \in Futures |-> call[f]]
    /\ moved = [f \in Futures |-> moved[f]]
    /\ ans = [f \in Futures |-> ans[f]]
    /\ \A f \in Futures : CallOK(f)

\* The front of a read buffer is full, and the rest of it is empty.
ReadOK(f) ==
    /\ buf[f] \in [1..call[f].len -> 0..taken]
    /\ \A i \in 1..call[f].len :
          buf[f][i] # 0 <=> call[f].kind \in Reads /\ i <= Done(f)
    /\ \A i, j \in 1..Done(f) :
          i < j /\ call[f].kind \in Reads => buf[f][i] < buf[f][j]

Upto(f, k) == {j \in Written(f) : j <= k}

WriteOK(f) ==
    /\ Cardinality(Written(f)) = IF call[f].kind \in Writes THEN Done(f) ELSE 0
    /\ \A k \in Written(f) : wire[k][2] = Cardinality(Upto(f, k))

Holds(f, p) == \E i \in 1..call[f].len : buf[f][i] = p

\* Each byte that left the receive buffer is in one buffer.
Spread ==
    \A p \in 1..taken :
        /\ \E f \in Futures : Holds(f, p)
        /\ \A f, g \in Futures : Holds(f, p) /\ Holds(g, p) => f = g

SocketTypes ==
    /\ rx \in 0..RxCap /\ tx \in 0..TxCap
    /\ taken \in Nat /\ taken + rx <= MaxBytes
    /\ wire \in Seq(Futures \X Nat)
    /\ conn \subseteq {"recv", "send", "socket"}

BytesInv ==
    /\ SocketTypes
    /\ CallTypes
    /\ buf = [f \in Futures |-> buf[f]]
    /\ \A f \in Futures : ReadOK(f) /\ WriteOK(f)
    /\ Spread

\* The stream has ended, and its last byte was taken.
Ended == "recv" \notin conn /\ rx = 0

\* The end of the stream is all that makes a loop fall short.
EndOK(f, a) ==
    (a \in Answers /\ a.ok /\ a.n = 0 /\ call[f].kind \in Loops) =>
        call[f].kind = "read_exact" /\ Ended

ReportOK(f) ==
    /\ st[f] = "none" => reply[f] = None
    /\ at[f] = "answer" => EndOK(f, ans[f])
    /\ EndOK(f, reply[f])
    /\ st[f] = "short" => call[f].kind = "read_exact" /\ Ended
    /\ (call[f].kind \in Loops /\ st[f] \in {"call", "wait", "cancelled"}) =>
          moved[f] < call[f].len
    /\ (call[f].kind \in Loops /\ st[f] = "ok") => moved[f] = call[f].len

ReportInv == \A f \in Futures : ReportOK(f)

-----------------------------------------------------------------------------
(* Steps that move no bytes *)

\* While an event is somewhere, its future waits or is gone, and unanswered.
LEMMA Waiting ==
    ASSUME BufferInv, NEW f \in Futures
    PROVE  /\ at[f] # "none" => reply[f] = None /\ st[f] \in {"wait", "cancelled"}
           /\ reply[f] # None => at[f] = "none"
           /\ st[f] \in Returned \cup {"call", "none"} => at[f] = "none"
BY DEF BufferInv, EventTypes, EventInv, FutureInv, FutureStates, Returned

\* Nothing is unreported before a handler answers.
LEMMA Unanswered ==
    ASSUME BufferInv, NEW f \in Futures,
           at[f] \notin {"none", "answer"} \/ st[f] \in Returned \cup {"call", "none"}
    PROVE  Unreported(f) = 0
BY Waiting DEF Unreported, Returned

LEMMA DoneType ==
    ASSUME CallTypes, NEW f \in Futures
    PROVE  Unreported(f) \in Nat /\ Done(f) \in Nat
BY DEF CallTypes, CallOK, Honest, Answers, Unreported, Done

SameBytes ==
    /\ UNCHANGED <<call, buf, wire, taken>>
    /\ \A f \in Futures : Done(f)' = Done(f)

LEMMA SameBytesInv ==
    ASSUME BytesInv, SocketTypes', CallTypes', SameBytes
    PROVE  BytesInv'
<1>1. ASSUME NEW f \in Futures PROVE ReadOK(f)'
  BY DEF BytesInv, ReadOK, SameBytes
<1>2. ASSUME NEW f \in Futures PROVE WriteOK(f)'
  <2>1. Written(f)' = Written(f) /\ \A k : Upto(f, k)' = Upto(f, k)
    BY DEF Written, Upto, SameBytes
  <2> QED
    BY <2>1 DEF BytesInv, WriteOK, SameBytes
<1>3. Spread'
  BY DEF BytesInv, Spread, Holds, SameBytes
<1> QED
  BY <1>1, <1>2, <1>3 DEF BytesInv, SameBytes

\* A step that tells no future of bytes and answers at most with an error.
Tacit ==
    /\ UNCHANGED <<call, moved>>
    /\ ans' = [f \in Futures |-> ans'[f]]
    /\ \A f \in Futures :
          /\ st[f] = "none" <=> st'[f] = "none"
          /\ ans'[f] \in Honest
          /\ reply'[f] \in Honest \cup {None}
          /\ Unreported(f)' = Unreported(f)

LEMMA TacitInv ==
    ASSUME BytesInv, Tacit, SocketTypes', UNCHANGED <<buf, wire, taken>>
    PROVE  BytesInv'
<1>1. \A f \in Futures : Done(f)' = Done(f)
  BY DEF Tacit, Done
<1>2. CallTypes'
  BY <1>1 DEF BytesInv, CallTypes, CallOK, Tacit
<1> QED
  BY <1>1, <1>2, SameBytesInv DEF SameBytes, Tacit

LEMMA SendBytes ==
    ASSUME BufferInv, BytesInv, NEW f \in Futures, Send(f)
    PROVE  BytesInv'
<1>1. /\ st[f] = "call"
      /\ reply'[f] = None /\ st'[f] \in {"wait", "error"} /\ at'[f] \in {"none", "queue"}
      /\ \A g \in Futures : g # f => reply'[g] = reply[g] /\ st'[g] = st[g] /\ at'[g] = at[g]
      /\ UNCHANGED <<call, moved, ans, buf, wire, taken, rx, tx, conn>>
  BY Waiting DEF Send, BufferInv, EventTypes, sockVars, Returned
<1>2. \A g \in Futures : Unreported(g)' = Unreported(g)
  <2>1. Unreported(f) = 0
    BY <1>1, Unanswered
  <2>2. Unreported(f)' = 0
    BY <1>1 DEF Unreported
  <2>3. \A g \in Futures : g # f => Unreported(g)' = Unreported(g)
    BY <1>1 DEF Unreported
  <2> QED
    BY <2>1, <2>2, <2>3
<1>3. Tacit
  <2>1. \A g \in Futures : st[g] = "none" <=> st'[g] = "none"
    BY <1>1
  <2>2. \A g \in Futures : ans'[g] \in Honest /\ reply'[g] \in Honest \cup {None}
    BY <1>1 DEF BytesInv, CallTypes, CallOK
  <2>3. ans' = [g \in Futures |-> ans'[g]]
    BY <1>1 DEF BytesInv, CallTypes
  <2> QED
    BY <1>1, <1>2, <2>1, <2>2, <2>3 DEF Tacit
<1>4. SocketTypes'
  BY <1>1 DEF BytesInv, SocketTypes
<1> QED
  BY <1>1, <1>3, <1>4, TacitInv

LEMMA ReceiveBytes ==
    ASSUME BufferInv, BytesInv, NEW f \in Futures, Receive(f)
    PROVE  BytesInv'
<1>1. owns[f] = {} /\ at[f] = "none" /\ st[f] = "wait"
  BY DEF Receive, BufferInv, EventInv, FutureInv
<1>2. PICK step \in Returned \cup {"call"} : st' = [st EXCEPT ![f] = step]
  BY <1>1 DEF Receive, Cast, After, Returned
<1>3. UNCHANGED <<reply, at, ans, call, buf, wire, taken, rx, tx, conn>>
  BY DEF Receive, eventVars, sockVars
<1>4. st'[f] = step /\ \A g \in Futures : g # f => st'[g] = st[g]
  BY <1>2 DEF BufferInv, EventTypes
<1>5. /\ moved' = [g \in Futures |-> moved'[g]]
      /\ moved'[f] = moved[f] + Unreported(f)
      /\ \A g \in Futures : g # f => moved'[g] = moved[g]
  <2>1. CASE /\ reply[f] # None /\ reply[f].ok
             /\ moved' = [moved EXCEPT ![f] = @ + reply[f].n]
    <3>1. Unreported(f) = reply[f].n
      BY <1>1, <2>1 DEF Unreported
    <3> QED
      BY <2>1, <3>1 DEF BytesInv, CallTypes
  <2>2. CASE (reply[f] = None \/ ~reply[f].ok) /\ UNCHANGED moved
    <3>1. Unreported(f) = 0
      BY <1>1, <2>2 DEF Unreported, BytesInv, CallTypes, CallOK, Honest
    <3>2. moved[f] \in Nat
      BY DEF BytesInv, CallTypes, CallOK
    <3> QED
      BY <2>2, <3>1, <3>2 DEF BytesInv, CallTypes
  <2> QED
    BY <2>1, <2>2 DEF Receive
<1>6. Unreported(f)' = 0
  BY <1>1, <1>3, <1>4 DEF Unreported, Returned
<1>7. \A g \in Futures : g # f => Unreported(g)' = Unreported(g)
  BY <1>3, <1>4 DEF Unreported
<1>8. Unreported(f) \in Nat /\ moved[f] \in Nat
  BY DoneType DEF BytesInv, CallTypes, CallOK
<1>9. \A g \in Futures : Done(g)' = Done(g)
  BY <1>5, <1>6, <1>7, <1>8 DEF Done
<1>10. CallTypes'
  BY <1>3, <1>4, <1>5, <1>8, <1>9 DEF BytesInv, CallTypes, CallOK, Returned
<1>11. SocketTypes'
  BY <1>3 DEF BytesInv, SocketTypes
<1> QED
  BY <1>3, <1>9, <1>10, <1>11, SameBytesInv DEF SameBytes

LEMMA CancelBytes ==
    ASSUME BufferInv, BytesInv, NEW f \in Futures, Cancel(f)
    PROVE  BytesInv'
<1>1. /\ st[f] = "wait" /\ st'[f] = "cancelled"
      /\ \A g \in Futures : g # f => st'[g] = st[g]
      /\ UNCHANGED <<at, reply, call, moved, ans, buf, wire, taken, rx, tx, conn>>
  BY DEF Cancel, BufferInv, EventTypes, sockVars, eventVars
<1>2. Tacit
  BY <1>1 DEF Tacit, Unreported, BytesInv, CallTypes, CallOK
<1> QED
  BY <1>1, <1>2, TacitInv DEF BytesInv, SocketTypes

LEMMA DropBufferBytes ==
    ASSUME BytesInv, NEW f \in Futures, DropBuffer(f)
    PROVE  BytesInv'
<1>1. UNCHANGED <<st, at, reply, call, moved, ans, buf, wire, taken, rx, tx, conn>>
  BY DEF DropBuffer, userVars, sockVars
<1>2. Tacit
  BY <1>1 DEF Tacit, Unreported, BytesInv, CallTypes, CallOK
<1> QED
  BY <1>1, <1>2, TacitInv DEF BytesInv, SocketTypes

LEMMA LetGoBytes ==
    ASSUME BufferInv, BytesInv, NEW f \in Futures, LetGo(f)
    PROVE  BytesInv'
<1>1. /\ at[f] \in Leaving /\ at'[f] = "none"
      /\ reply'[f] = IF at[f] = "answer" THEN ans[f] ELSE reply[f]
      /\ \A g \in Futures : g # f => reply'[g] = reply[g] /\ at'[g] = at[g]
      /\ UNCHANGED <<st, call, moved, ans, buf, wire, taken, rx, tx, conn>>
  BY DEF LetGo, BufferInv, EventTypes, userVars, sockVars
<1>2. st[f] \in {"wait", "cancelled"} /\ reply[f] = None
  BY <1>1, Waiting DEF Leaving
<1>3. ans[f] \in Honest /\ ans[f] # None
  BY NoneAssumption DEF BytesInv, CallTypes, CallOK, Honest
<1>4. Unreported(f)' = Unreported(f)
  BY <1>1, <1>2, <1>3 DEF Unreported
<1>5. \A g \in Futures : g # f => Unreported(g)' = Unreported(g)
  BY <1>1 DEF Unreported
<1>6. Tacit
  BY <1>1, <1>3, <1>4, <1>5 DEF Tacit, BytesInv, CallTypes, CallOK
<1> QED
  BY <1>1, <1>6, TacitInv DEF BytesInv, SocketTypes

\* An event stays where it is or, still whole, goes elsewhere, unanswered or
\* with no bytes.
IdleMove(f) ==
    \/ at'[f] = at[f] /\ ans'[f] = ans[f]
    \/ /\ at[f] \in {"queue", "waker"} /\ at'[f] # "none"
       /\ \/ at'[f] # "answer" /\ ans'[f] = ans[f]
          \/ ans'[f] \in Honest /\ ans'[f].n = 0

LEMMA MoveBytes ==
    ASSUME BufferInv, BytesInv, UNCHANGED <<st, call, moved, reply, buf, wire, taken>>,
           SocketTypes', ans' = [f \in Futures |-> ans'[f]],
           \A f \in Futures : IdleMove(f)
    PROVE  BytesInv'
<1>1. ASSUME NEW f \in Futures PROVE Unreported(f)' = Unreported(f)
  <2>1. CASE at'[f] = at[f] /\ ans'[f] = ans[f]
    BY <2>1 DEF Unreported
  <2>2. CASE /\ at[f] \in {"queue", "waker"} /\ at'[f] # "none"
             /\ at'[f] # "answer" \/ ans'[f].n = 0
    <3>1. Unreported(f) = 0 /\ reply[f] = None
      BY <2>2, Unanswered, Waiting
    <3> QED
      BY <2>2, <3>1 DEF Unreported
  <2> QED
    BY <2>1, <2>2 DEF IdleMove
<1>2. \A f \in Futures : ans'[f] \in Honest
  BY DEF IdleMove, BytesInv, CallTypes, CallOK
<1>3. Tacit
  BY <1>1, <1>2 DEF Tacit, BytesInv, CallTypes, CallOK
<1> QED
  BY <1>3, TacitInv

LEMMA WorldBytes ==
    ASSUME BufferInv, BytesInv, World
    PROVE  BytesInv'
<1>1. ans = [f \in Futures |-> ans[f]] /\ \A f \in Futures : ans[f] \in Honest
  BY DEF BytesInv, CallTypes, CallOK
<1>2. ASSUME NEW ws \in SUBSET {rw, sw}, Woken(ws), SocketTypes',
             UNCHANGED <<st, call, moved, reply, buf, wire, taken>>
      PROVE  BytesInv'
  <2>1. Err \in Honest /\ Err.n = 0
    BY DEF Honest, Answers, Err
  <2>2. /\ ans' = [f \in Futures |-> ans'[f]]
        /\ \A f \in Futures :
              IF f \in ws THEN ans'[f] = Err /\ at'[f] \in {"queue", "answer"}
                          ELSE ans'[f] = ans[f] /\ at'[f] = at[f]
    BY <1>2 DEF Woken, Sent
  <2>3. \A f \in Futures : f \in ws => at[f] = "waker"
    BY <1>2, NoneAssumption DEF BufferInv, WakerInv
  <2>4. \A f \in Futures : IdleMove(f)
    BY <1>2, <2>1, <2>2, <2>3 DEF IdleMove
  <2> QED
    BY <1>2, <2>1, <2>2, <2>3, <2>4, MoveBytes
<1>3. CASE Arrive
  <2>1. SocketTypes'
    BY <1>3, CapsAssumption DEF Arrive, BytesInv, SocketTypes
  <2> QED
    BY <1>2, <1>3, <2>1 DEF Arrive, userVars
<1>4. CASE Ack
  <2>1. SocketTypes'
    BY <1>4, CapsAssumption DEF Ack, BytesInv, SocketTypes
  <2> QED
    BY <1>2, <1>4, <2>1 DEF Ack, userVars
<1>5. ASSUME NEW ds, CloseDirections(ds) PROVE BytesInv'
  <2>1. SocketTypes'
    BY <1>5 DEF CloseDirections, BytesInv, SocketTypes
  <2> QED
    BY <1>2, <1>5, <2>1 DEF CloseDirections, userVars
<1>6. CASE RemoveSocket \/ DropStack
  <2>1. /\ Sent({rw, sw}, "drop")
        /\ conn' \subseteq conn
        /\ UNCHANGED <<st, call, moved, reply, ans, buf, wire, taken, rx, tx>>
    BY <1>6 DEF RemoveSocket, DropStack, DropWakers, userVars
  <2>2. \A f \in Futures :
           IF f \in {rw, sw} THEN at'[f] = "drop" ELSE at'[f] = at[f]
    BY <2>1 DEF Sent
  <2>3. \A f \in Futures : f \in {rw, sw} => at[f] = "waker"
    BY NoneAssumption DEF BufferInv, WakerInv
  <2>4. SocketTypes'
    BY <2>1 DEF BytesInv, SocketTypes
  <2>5. ans' = [f \in Futures |-> ans'[f]] /\ \A f \in Futures : ans'[f] = ans[f]
    BY <1>1, <2>1
  <2>6. \A f \in Futures : IdleMove(f)
    BY <2>1, <2>2, <2>3, <2>4, <2>5 DEF IdleMove
  <2> QED
    BY <2>1, <2>2, <2>3, <2>4, <2>5, <2>6, MoveBytes
<1>7. CASE DropGenerator
  <2>1. UNCHANGED <<st, at, call, moved, reply, ans, buf, wire, taken, rx, tx, conn>>
    BY <1>7 DEF DropGenerator, userVars, eventVars, sockVars
  <2>2. SocketTypes'
    BY <2>1 DEF BytesInv, SocketTypes
  <2>3. \A f \in Futures : IdleMove(f)
    BY <1>1, <2>1, <2>2 DEF IdleMove
  <2> QED
    BY <1>1, <2>1, <2>2, <2>3, MoveBytes
<1>8. ASSUME NEW fs \in SUBSET Futures, NEW place \in {"drop", "lost"}, Lose(fs, place)
      PROVE  BytesInv'
  <2>1. /\ \A f \in Futures : at'[f] = IF f \in fs THEN place ELSE at[f]
        /\ \A f \in fs : at[f] = "queue"
        /\ UNCHANGED <<st, call, moved, reply, ans, buf, wire, taken, rx, tx, conn>>
    BY <1>8 DEF Lose, Sent, userVars, sockVars
  <2>2. SocketTypes'
    BY <2>1 DEF BytesInv, SocketTypes
  <2>3. ans' = [f \in Futures |-> ans'[f]] /\ \A f \in Futures : ans'[f] = ans[f]
    BY <1>1, <2>1
  <2>4. \A f \in Futures : IdleMove(f)
    BY <2>1, <2>2, <2>3 DEF IdleMove
  <2> QED
    BY <2>1, <2>2, <2>3, <2>4, MoveBytes
<1> QED
  BY <1>3, <1>4, <1>5, <1>6, <1>7, <1>8 DEF World

\* A handler that moves nothing: it parks the event, or answers with no bytes.
LEMMA IdleHandlerBytes ==
    ASSUME BufferInv, BytesInv, NEW f \in Futures, at[f] = "queue",
           UNCHANGED <<userVars, reply, buf, wire, taken, rx, tx, conn>>,
           \/ Answer(f, Err)
           \/ Answer(f, Ok(0))
           \/ Park(f, rw)
           \/ Park(f, sw)
    PROVE  BytesInv'
<1>1. UNCHANGED <<st, call, moved>>
  BY DEF userVars
<1>2. SocketTypes'
  BY DEF BytesInv, SocketTypes
<1>3. ans = [g \in Futures |-> ans[g]]
  BY DEF BytesInv, CallTypes
<1>4. ASSUME NEW a \in {Err, Ok(0)}, Answer(f, a) PROVE BytesInv'
  <2>1. a \in Honest /\ a.n = 0
    <3>1. Err \in Honest /\ Err.n = 0
      BY DEF Honest, Answers, Err
    <3>2. Ok(0) \in Honest /\ Ok(0).n = 0
      BY DEF Honest, Answers, Ok
    <3> QED
      BY <1>4, <3>1, <3>2
  <2>2. /\ ans' = [g \in Futures |-> ans'[g]]
        /\ at'[f] = "answer" /\ ans'[f] = a
        /\ \A g \in Futures : g # f => at'[g] = at[g] /\ ans'[g] = ans[g]
    BY <1>3, <1>4 DEF Answer, BufferInv, EventTypes
  <2>3. \A g \in Futures : IdleMove(g)
    BY <1>1, <1>2, <2>1, <2>2 DEF IdleMove
  <2> QED
    BY <1>1, <1>2, <2>1, <2>2, <2>3, MoveBytes
<1>5. ASSUME NEW old \in {rw, sw}, Park(f, old) PROVE BytesInv'
  <2>1. /\ at'[f] = "waker" /\ UNCHANGED ans
        /\ \A g \in Futures : g # f => at'[g] = IF g = old THEN "drop" ELSE at[g]
    BY <1>5 DEF Park
  <2>2. \A g \in Futures : g = old => at[g] = "waker"
    BY NoneAssumption DEF BufferInv, WakerInv
  <2>3. ans' = [g \in Futures |-> ans'[g]] /\ \A g \in Futures : ans'[g] = ans[g]
    BY <1>3, <2>1
  <2>4. \A g \in Futures : IdleMove(g)
    BY <1>1, <1>2, <2>1, <2>2, <2>3 DEF IdleMove
  <2> QED
    BY <1>1, <1>2, <2>1, <2>2, <2>3, <2>4, MoveBytes
<1> QED
  BY <1>4, <1>5

-----------------------------------------------------------------------------
(* Steps that move bytes *)

\* A new call starts with an empty buffer and nothing on the wire.
LEMMA CallBytes ==
    ASSUME BufferInv, BytesInv, NEW f \in Futures,
           NEW kind \in Reads \cup Writes, NEW len \in Lens, Call(f, kind, len)
    PROVE  BytesInv'
<1>1. /\ st[f] = "none" /\ st'[f] \in {"ok", "call"}
      /\ call' = [g \in Futures |-> call'[g]]
      /\ buf' = [g \in Futures |-> buf'[g]]
      /\ call'[f].kind = kind /\ call'[f].len = len /\ buf'[f] = [i \in 1..len |-> 0]
      /\ \A g \in Futures : g # f => st'[g] = st[g] /\ call'[g] = call[g] /\ buf'[g] = buf[g]
      /\ UNCHANGED <<at, reply, moved, ans, wire, taken, rx, tx, conn>>
  BY DEF Call, BufferInv, EventTypes, BytesInv, CallTypes, eventVars, sockVars
<1>2. at[f] = "none" /\ Done(f) = 0 /\ moved[f] = 0 /\ call[f].kind = "read"
  BY <1>1, Waiting, DoneType DEF Returned, BytesInv, CallTypes, CallOK, Done
<1>3. Unreported(f)' = 0
  BY <1>1, <1>2 DEF Unreported
<1>4. Done(f)' = 0 /\ \A g \in Futures : g # f => Done(g)' = Done(g)
  BY <1>1, <1>2, <1>3 DEF Done, Unreported
<1>5. len \in Nat
  BY LensAssumption
<1>6. CallTypes'
  <2>1. CallOK(f)'
    BY <1>1, <1>2, <1>4, <1>5 DEF BytesInv, CallTypes, CallOK
  <2>2. ASSUME NEW g \in Futures, g # f PROVE CallOK(g)'
    BY <1>1, <1>4, <2>2 DEF BytesInv, CallTypes, CallOK
  <2> QED
    BY <1>1, <2>1, <2>2 DEF BytesInv, CallTypes
<1>7. SocketTypes'
  BY <1>1 DEF BytesInv, SocketTypes
<1>8. \A g \in Futures : ReadOK(g)'
  <2>1. ReadOK(f)'
    BY <1>1, <1>4, <1>5 DEF ReadOK, BytesInv, SocketTypes
  <2>2. ASSUME NEW g \in Futures, g # f PROVE ReadOK(g)'
    BY <1>1, <1>4, <2>2 DEF ReadOK, BytesInv
  <2> QED
    BY <2>1, <2>2
<1>9. \A g \in Futures : WriteOK(g)'
  <2>0. \A g \in Futures : Written(g)' = Written(g) /\ \A k : Upto(g, k)' = Upto(g, k)
    BY <1>1 DEF Written, Upto
  <2>1. WriteOK(f)'
    BY <1>1, <1>2, <1>4, <2>0 DEF WriteOK, BytesInv, Reads, Writes
  <2>2. ASSUME NEW g \in Futures, g # f PROVE WriteOK(g)'
    BY <1>1, <1>4, <2>0, <2>2 DEF WriteOK, BytesInv
  <2> QED
    BY <2>1, <2>2
<1>10. Spread'
  <2>1. \A p \in 1..taken : ~Holds(f, p) /\ ~Holds(f, p)'
    BY <1>1, <1>2, <1>5 DEF Holds, BytesInv, ReadOK, CallTypes, CallOK, SocketTypes
  <2>2. \A g \in Futures : g # f => \A p : Holds(g, p)' <=> Holds(g, p)
    BY <1>1 DEF Holds
  <2> QED
    BY <1>1, <2>1, <2>2 DEF BytesInv, Spread
<1> QED
  BY <1>1, <1>6, <1>7, <1>8, <1>9, <1>10 DEF BytesInv

\* A handler answers f with n bytes: they are done, and unreported.
LEMMA AnswerCount ==
    ASSUME BufferInv, BytesInv, NEW f \in Futures, at[f] = "queue",
           NEW n \in Nat, n <= Rest(f), Answer(f, Ok(n)), UNCHANGED <<userVars, reply>>
    PROVE  /\ CallTypes'
           /\ Done(f) = moved[f] /\ Done(f)' = moved[f] + n
           /\ \A g \in Futures : g # f => Done(g)' = Done(g)
<1>1. UNCHANGED <<st, call, moved>>
  BY DEF userVars
<1>2. /\ at'[f] = "answer" /\ ans'[f] = Ok(n) /\ ans' = [g \in Futures |-> ans'[g]]
      /\ \A g \in Futures : g # f => at'[g] = at[g] /\ ans'[g] = ans[g]
  BY DEF Answer, BufferInv, EventTypes, BytesInv, CallTypes
<1>3. Ok(n) \in Honest /\ Ok(n).n = n
  BY DEF Honest, Answers, Ok
<1>4. Unreported(f) = 0 /\ Unreported(f)' = n
  BY <1>2, <1>3, Unanswered DEF Unreported
<1>5. moved[f] \in Nat
  BY DEF BytesInv, CallTypes, CallOK
<1>6. Done(f) = moved[f] /\ Done(f)' = moved[f] + n
  BY <1>1, <1>4, <1>5 DEF Done
<1>7. ASSUME NEW g \in Futures, g # f PROVE Done(g)' = Done(g)
  BY <1>1, <1>2, <1>7 DEF Done, Unreported
<1>8. CallOK(f)'
  <2>1. st[f] # "none"
    BY Waiting
  <2> QED
    BY <1>1, <1>2, <1>3, <1>5, <1>6, <2>1 DEF CallOK, BytesInv, CallTypes, Rest
<1>9. ASSUME NEW g \in Futures, g # f PROVE CallOK(g)'
  BY <1>1, <1>2, <1>7, <1>9 DEF CallOK, BytesInv, CallTypes
<1> QED
  BY <1>1, <1>2, <1>6, <1>7, <1>8, <1>9 DEF BytesInv, CallTypes

\* The next n bytes of the stream go to the front of what is empty.
LEMMA FillBytes ==
    ASSUME BufferInv, BytesInv, NEW f \in Futures, at[f] = "queue",
           call[f].kind \in Reads, NEW n \in Nat, n <= rx, n <= Rest(f),
           Fill(f, n), Answer(f, Ok(n)), rx' = rx - n, taken' = taken + n,
           UNCHANGED <<userVars, reply, wire, tx, conn>>
    PROVE  BytesInv'
<1>1. UNCHANGED <<st, call, moved>>
  BY DEF userVars
<1>2. /\ CallTypes'
      /\ Done(f) = moved[f] /\ Done(f)' = moved[f] + n
      /\ \A g \in Futures : g # f => Done(g)' = Done(g)
  BY AnswerCount
<1>3. SocketTypes'
  BY CapsAssumption DEF BytesInv, SocketTypes
<1>4. /\ moved[f] \in Nat /\ call[f].len \in Nat /\ taken \in Nat
      /\ moved[f] + n <= call[f].len
  BY DEF BytesInv, CallTypes, CallOK, SocketTypes, Rest
<1>5. DOMAIN buf[f] = 1..call[f].len
  BY DEF BytesInv, ReadOK
<1>6. /\ buf' = [g \in Futures |-> buf'[g]]
      /\ \A g \in Futures : g # f => buf'[g] = buf[g]
      /\ buf'[f] = [i \in 1..call[f].len |-> IF i \in moved[f] + 1 .. moved[f] + n
                                             THEN taken + (i - moved[f])
                                             ELSE buf[f][i]]
  BY <1>5 DEF Fill, BytesInv
<1>7. /\ \A i \in 1..call[f].len : buf[f][i] \in 0..taken
      /\ \A i \in 1..call[f].len : buf[f][i] # 0 <=> i <= moved[f]
      /\ \A i, j \in 1..moved[f] : i < j => buf[f][i] < buf[f][j]
  BY <1>2 DEF BytesInv, ReadOK
<1>8. ReadOK(f)'
  <2>1. buf'[f] \in [1..call[f].len -> 0..(taken + n)]
    BY <1>4, <1>6, <1>7
  <2>2. \A i \in 1..call[f].len : buf'[f][i] # 0 <=> i <= moved[f] + n
    BY <1>4, <1>6, <1>7
  <2>3. \A i, j \in 1..(moved[f] + n) : i < j => buf'[f][i] < buf'[f][j]
    BY <1>4, <1>6, <1>7
  <2> QED
    BY <1>1, <1>2, <2>1, <2>2, <2>3 DEF ReadOK
<1>9. ASSUME NEW g \in Futures, g # f PROVE ReadOK(g)'
  <2>1. buf'[g] = buf[g] /\ Done(g)' = Done(g) /\ call' = call
    BY <1>1, <1>2, <1>6, <1>9
  <2>2. 0..taken \subseteq 0..(taken + n)
    BY <1>4
  <2> QED
    BY <2>1, <2>2 DEF ReadOK, BytesInv
<1>10. ASSUME NEW g \in Futures PROVE WriteOK(g)'
  <2>1. Written(g)' = Written(g) /\ \A k : Upto(g, k)' = Upto(g, k)
    BY DEF Written, Upto
  <2>2. call'[g].kind \in Writes => Done(g)' = Done(g)
    BY <1>1, <1>2 DEF Reads, Writes
  <2> QED
    BY <1>1, <2>1, <2>2 DEF WriteOK, BytesInv
<1>11. Spread'
  <2>1. ASSUME NEW g \in Futures, g # f, NEW p PROVE Holds(g, p)' <=> Holds(g, p)
    BY <1>1, <1>6, <2>1 DEF Holds
  <2>2. ASSUME NEW p \in 1..taken PROVE Holds(f, p)' <=> Holds(f, p)
    BY <1>1, <1>4, <1>6, <1>7 DEF Holds
  <2>3. ASSUME NEW p \in taken + 1 .. taken + n PROVE Holds(f, p)'
    <3>1. buf'[f][moved[f] + (p - taken)] = p /\ moved[f] + (p - taken) \in 1..call[f].len
      BY <1>4, <1>6
    <3> QED
      BY <1>1, <3>1 DEF Holds
  <2>4. ASSUME NEW p \in taken + 1 .. taken + n, NEW g \in Futures PROVE ~Holds(g, p)
    <3>1. \A i \in 1..call[g].len : buf[g][i] \in 0..taken
      BY DEF BytesInv, ReadOK
    <3> QED
      BY <1>4, <3>1 DEF Holds
  <2>5. ASSUME NEW p \in 1..(taken + n)
        PROVE  /\ \E g \in Futures : Holds(g, p)'
               /\ \A g, h \in Futures : Holds(g, p)' /\ Holds(h, p)' => g = h
    <3>1. CASE p \in 1..taken
      BY <2>1, <2>2, <3>1 DEF BytesInv, Spread
    <3>2. CASE p \in taken + 1 .. taken + n
      BY <2>1, <2>3, <2>4, <3>2
    <3> QED
      BY <1>4, <3>1, <3>2
  <2> QED
    BY <2>5 DEF Spread
<1> QED
  BY <1>2, <1>3, <1>6, <1>8, <1>9, <1>10, <1>11 DEF BytesInv

LEMMA HandleReadBytes ==
    ASSUME BufferInv, BytesInv, NEW f \in Futures, HandleRead(f)
    PROVE  BytesInv'
<1>1. /\ at[f] = "queue" /\ call[f].kind \in Reads
      /\ UNCHANGED <<userVars, reply, tx, wire, conn>>
  BY DEF HandleRead, Handling
<1>2. CASE /\ Answer(f, Err) \/ Answer(f, Ok(0)) \/ Park(f, rw)
           /\ UNCHANGED <<buf, rx, taken>>
  BY <1>1, <1>2, IdleHandlerBytes
<1>3. CASE /\ Fill(f, MinOf(rx, Rest(f))) /\ Answer(f, Ok(MinOf(rx, Rest(f))))
           /\ rx' = rx - MinOf(rx, Rest(f)) /\ taken' = taken + MinOf(rx, Rest(f))
  <2>1. rx \in Nat /\ Rest(f) \in Nat
    <3>1. Unreported(f) = 0
      BY <1>1, Unanswered
    <3> QED
      BY <3>1 DEF BytesInv, SocketTypes, CallTypes, CallOK, Done, Rest
  <2>2. /\ MinOf(rx, Rest(f)) \in Nat
        /\ MinOf(rx, Rest(f)) <= rx /\ MinOf(rx, Rest(f)) <= Rest(f)
    BY <2>1 DEF MinOf
  <2> QED
    BY <1>1, <1>3, <2>2, FillBytes
<1> QED
  BY <1>2, <1>3 DEF HandleRead

LEMMA IntervalSize ==
    ASSUME NEW a \in Nat, NEW n \in Nat
    PROVE  /\ IsFiniteSet(1..n)
           /\ IsFiniteSet(a + 1 .. a + n) /\ Cardinality(a + 1 .. a + n) = n
<1>1. 1 \in Int /\ n \in Int /\ a + 1 \in Int /\ a + n \in Int
  OBVIOUS
<1>2. IsFiniteSet(1..n)
  BY <1>1, FS_Interval, Zenon
<1>3. /\ IsFiniteSet(a + 1 .. a + n)
      /\ Cardinality(a + 1 .. a + n) = IF a + 1 > a + n THEN 0 ELSE (a + n) - (a + 1) + 1
  BY <1>1, FS_Interval, Zenon
<1> QED
  BY <1>2, <1>3

\* n bytes of f are appended to the wire.
LEMMA WireBytes ==
    ASSUME BufferInv, BytesInv, NEW f \in Futures, at[f] = "queue",
           call[f].kind \in Writes, NEW n \in Nat, n <= TxCap - tx, n <= Rest(f),
           wire' = wire \o [i \in 1..n |-> <<f, moved[f] + i>>],
           Answer(f, Ok(n)), tx' = tx + n,
           UNCHANGED <<userVars, reply, buf, rx, taken, conn>>
    PROVE  BytesInv'
<1> DEFINE new == [i \in 1..n |-> <<f, moved[f] + i>>]
           L == Len(wire)
<1>1. UNCHANGED <<st, call, moved, buf, taken, rx, conn>>
  BY DEF userVars
<1>2. /\ CallTypes'
      /\ Done(f) = moved[f] /\ Done(f)' = moved[f] + n
      /\ \A g \in Futures : g # f => Done(g)' = Done(g)
  BY AnswerCount
<1>3. moved[f] \in Nat
  BY DEF BytesInv, CallTypes, CallOK
<1>4. wire \in Seq(Futures \X Nat) /\ L \in Nat /\ DOMAIN wire = 1..L
  BY DEF BytesInv, SocketTypes
<1>5. new \in Seq(Futures \X Nat) /\ Len(new) = n
  BY <1>3
<1>6. /\ wire' \in Seq(Futures \X Nat) /\ DOMAIN wire' = 1..(L + n)
      /\ \A k \in 1..L : wire'[k] = wire[k]
      /\ \A i \in 1..n : wire'[L + i][1] = f /\ wire'[L + i][2] = moved[f] + i
  <2>1. /\ wire' \in Seq(Futures \X Nat) /\ Len(wire') = L + n
        /\ \A k \in 1..(L + n) : wire'[k] = IF k <= L THEN wire[k] ELSE new[k - L]
    BY <1>4, <1>5, ConcatProperties
  <2>2. ASSUME NEW i \in 1..n PROVE wire'[L + i] = <<f, moved[f] + i>>
    <3>1. L + i \in 1..(L + n) /\ ~(L + i <= L) /\ (L + i) - L = i
      BY <1>4
    <3> QED
      BY <2>1, <3>1
  <2>3. \A i \in 1..n : wire'[L + i][1] = f /\ wire'[L + i][2] = moved[f] + i
    BY <2>2
  <2>4. \A k \in 1..L : wire'[k] = wire[k]
    BY <1>4, <2>1
  <2> QED
    BY <2>1, <2>3, <2>4
<1> HIDE DEF new, L
<1>7. SocketTypes'
  BY <1>6, CapsAssumption DEF BytesInv, SocketTypes
<1>8. \A g \in Futures : ReadOK(g)'
  <2>1. ASSUME NEW g \in Futures PROVE call'[g] = call[g] /\ (call[g].kind \in Reads => Done(g)' = Done(g))
    BY <1>1, <1>2 DEF Reads, Writes
  <2> QED
    BY <2>1 DEF ReadOK, BytesInv
<1>9. Spread'
  <2>1. \A g \in Futures, p \in 1..taken : Holds(g, p)' <=> Holds(g, p)
    BY <1>1 DEF Holds
  <2> QED
    BY <1>1, <2>1 DEF Spread, BytesInv
<1>10. ASSUME NEW g \in Futures, g # f PROVE WriteOK(g)'
  <2>1. Written(g)' = Written(g)
    <3>1. \A i \in 1..n : wire'[L + i][1] # g
      BY <1>6, <1>10
    <3>2. \A k \in 1..(L + n) : k \in 1..L \/ \E i \in 1..n : k = L + i
      <4>1. ASSUME NEW k \in 1..(L + n), k \notin 1..L PROVE k - L \in 1..n /\ k = L + (k - L)
        BY <1>4, <4>1
      <4> QED
        BY <4>1
    <3>3. 1..L \subseteq 1..(L + n)
      BY <1>4
    <3>4. Written(g)' = {k \in 1..(L + n) : wire'[k][1] = g}
      BY <1>6 DEF Written
    <3>5. Written(g) = {k \in 1..L : wire[k][1] = g}
      BY <1>4 DEF Written
    <3>6. ASSUME NEW k PROVE k \in Written(g)' <=> k \in Written(g)
      BY <1>6, <3>1, <3>2, <3>3, <3>4, <3>5
    <3> QED
      BY <3>6
  <2>2. \A k : Upto(g, k)' = Upto(g, k)
    BY <2>1 DEF Upto
  <2>3. \A k \in Written(g) : wire'[k] = wire[k]
    BY <1>4, <1>6 DEF Written
  <2>4. WriteOK(g) /\ call'[g] = call[g] /\ Done(g)' = Done(g)
    BY <1>1, <1>2, <1>10 DEF BytesInv
  <2> QED
    BY <2>1, <2>2, <2>3, <2>4 DEF WriteOK
<1>11. WriteOK(f)'
  <2>1. /\ Written(f) \subseteq 1..L /\ IsFiniteSet(Written(f))
        /\ Cardinality(Written(f)) = moved[f]
    <3>1. Written(f) \subseteq 1..L
      BY <1>4 DEF Written
    <3>2. IsFiniteSet(1..L)
      BY <1>4, IntervalSize
    <3>3. Cardinality(Written(f)) = moved[f]
      BY <1>2 DEF BytesInv, WriteOK
    <3> QED
      BY <3>1, <3>2, <3>3, FS_Subset
  <2>2. ASSUME NEW i \in 0..n
        PROVE  Cardinality(Written(f) \cup (L + 1 .. L + i)) = moved[f] + i
    <3>1. IsFiniteSet(L + 1 .. L + i) /\ Cardinality(L + 1 .. L + i) = i
      <4>1. L \in Nat /\ i \in Nat
        BY <1>4
      <4> HIDE DEF L
      <4> QED
        BY <4>1, IntervalSize, Zenon
    <3>2. Written(f) \cap (L + 1 .. L + i) = {}
      BY <1>4, <2>1
    <3>3. Cardinality(Written(f) \cup (L + 1 .. L + i))
             = Cardinality(Written(f)) + Cardinality(L + 1 .. L + i)
               - Cardinality(Written(f) \cap (L + 1 .. L + i))
      BY <2>1, <3>1, FS_Union, Zenon
    <3>4. Cardinality(Written(f) \cap (L + 1 .. L + i)) = 0
      BY <3>2, FS_EmptySet
    <3> QED
      BY <1>3, <2>1, <3>1, <3>3, <3>4
  <2>3. Written(f)' = Written(f) \cup (L + 1 .. L + n)
    <3>1. ASSUME NEW k \in 1..(L + n), k \notin 1..L
          PROVE  k - L \in 1..n /\ wire'[k][1] = f /\ k \in L + 1 .. L + n
      BY <1>4, <1>6, <3>1
    <3>2. L + 1 .. L + n \subseteq 1..(L + n) /\ 1..L \subseteq 1..(L + n)
      BY <1>4
    <3>3. (L + 1 .. L + n) \cap 1..L = {}
      BY <1>4
    <3>4. Written(f)' = {k \in 1..(L + n) : wire'[k][1] = f}
      BY <1>6 DEF Written
    <3>5. \A k : k \in Written(f) <=> k \in 1..L /\ wire[k][1] = f
      BY <1>4 DEF Written
    <3>6. ASSUME NEW k PROVE k \in Written(f)' <=> k \in Written(f) \cup (L + 1 .. L + n)
      <4>1. CASE k \in 1..L
        BY <1>6, <3>2, <3>3, <3>4, <3>5, <4>1
      <4>2. CASE k \in 1..(L + n) /\ k \notin 1..L
        BY <3>1, <3>4, <4>2
      <4>3. CASE k \notin 1..(L + n)
        BY <3>2, <3>4, <3>5, <4>3
      <4> QED
        BY <4>1, <4>2, <4>3
    <3> QED
      BY <3>6
  <2>4. ASSUME NEW k \in Written(f) PROVE (wire[k][2] = Cardinality(Upto(f, k)))'
    <3>1. k \in 1..L
      BY <2>1
    <3>2. Upto(f, k)' = Upto(f, k)
      BY <1>4, <2>3, <3>1 DEF Upto
    <3>3. wire'[k][2] = Cardinality(Upto(f, k))
      BY <1>6, <3>1 DEF BytesInv, WriteOK
    <3> QED
      BY <3>2, <3>3
  <2>5. ASSUME NEW k \in L + 1 .. L + n PROVE (wire[k][2] = Cardinality(Upto(f, k)))'
    <3>1. k - L \in 1..n /\ k - L \in 0..n /\ k = L + (k - L)
      BY <1>4
    <3>2. Upto(f, k)' = Written(f) \cup (L + 1 .. L + (k - L))
      BY <1>4, <2>1, <2>3, <3>1 DEF Upto
    <3>3. wire'[k][2] = moved[f] + (k - L)
      BY <1>6, <3>1
    <3> QED
      BY <2>2, <3>1, <3>2, <3>3
  <2>6. Cardinality(Written(f)') = Done(f)'
    BY <1>2, <2>2, <2>3
  <2> QED
    BY <1>1, <2>3, <2>4, <2>5, <2>6 DEF WriteOK
<1> QED
  BY <1>2, <1>7, <1>8, <1>9, <1>10, <1>11 DEF BytesInv

LEMMA HandleWriteBytes ==
    ASSUME BufferInv, BytesInv, NEW f \in Futures, HandleWrite(f)
    PROVE  BytesInv'
<1>1. /\ at[f] = "queue" /\ call[f].kind \in Writes
      /\ UNCHANGED <<userVars, buf, reply, rx, taken, conn>>
  BY DEF HandleWrite, Handling
<1>2. CASE (Answer(f, Err) \/ Park(f, sw)) /\ UNCHANGED <<tx, wire>>
  BY <1>1, <1>2, IdleHandlerBytes
<1>3. CASE /\ wire' = wire \o [i \in 1..MinOf(TxCap - tx, Rest(f)) |-> <<f, moved[f] + i>>]
           /\ Answer(f, Ok(MinOf(TxCap - tx, Rest(f))))
           /\ tx' = tx + MinOf(TxCap - tx, Rest(f))
  <2>1. TxCap - tx \in Nat /\ Rest(f) \in Nat
    <3>1. Unreported(f) = 0
      BY <1>1, Unanswered
    <3> QED
      BY <3>1, CapsAssumption DEF BytesInv, SocketTypes, CallTypes, CallOK, Done, Rest
  <2>2. /\ MinOf(TxCap - tx, Rest(f)) \in Nat
        /\ MinOf(TxCap - tx, Rest(f)) <= TxCap - tx
        /\ MinOf(TxCap - tx, Rest(f)) <= Rest(f)
    BY <2>1 DEF MinOf
  <2> QED
    BY <1>1, <1>3, <2>2, WireBytes
<1> QED
  BY <1>2, <1>3 DEF HandleWrite

LEMMA NextBytesInv == BufferInv /\ BytesInv /\ [Next]_vars => BytesInv'
<1> SUFFICES ASSUME BufferInv, BytesInv, [Next]_vars PROVE BytesInv'
  OBVIOUS
<1>1. ASSUME NEW f \in Futures, User(f) PROVE BytesInv'
  BY <1>1, CallBytes, SendBytes, ReceiveBytes, CancelBytes DEF User
<1>2. ASSUME NEW f \in Futures, Handler(f) PROVE BytesInv'
  BY <1>2, HandleReadBytes, HandleWriteBytes, DropBufferBytes, LetGoBytes DEF Handler
<1>3. CASE UNCHANGED vars
  <2>1. UNCHANGED <<st, at, call, moved, reply, ans, buf, wire, taken, rx, tx, conn>>
    BY <1>3 DEF vars, userVars, eventVars, sockVars
  <2>2. Tacit
    BY <2>1 DEF Tacit, Unreported, BytesInv, CallTypes, CallOK
  <2> QED
    BY <2>1, <2>2, TacitInv DEF BytesInv, SocketTypes
<1> QED
  BY <1>1, <1>2, <1>3, WorldBytes DEF Next

LEMMA InitBytesInv == Init => BytesInv
<1> SUFFICES ASSUME Init PROVE BytesInv
  OBVIOUS
<1>1. SocketTypes
  BY CapsAssumption DEF Init, SocketTypes
<1>2. \A f \in Futures : Done(f) = 0
  BY DEF Init, Done, Unreported
<1>3. Err \in Honest
  BY DEF Honest, Answers, Err
<1>4. CallTypes
  BY <1>2, <1>3 DEF Init, CallTypes, CallOK, Reads
<1>5. ASSUME NEW f \in Futures PROVE ReadOK(f)
  BY <1>2 DEF Init, ReadOK
<1>6. ASSUME NEW f \in Futures PROVE WriteOK(f)
  <2>1. Written(f) = {}
    BY DEF Init, Written
  <2> QED
    BY <1>2, <2>1, FS_EmptySet DEF WriteOK
<1>7. Spread
  BY DEF Init, Spread
<1> QED
  BY <1>1, <1>4, <1>5, <1>6, <1>7 DEF BytesInv, Init

LEMMA BytesAlways == Spec => [](BufferInv /\ BytesInv)
BY InitBufferInv, InitBytesInv, NextBufferInv, NextBytesInv, PTL DEF Spec

\* No call is told of more bytes than its buffer has, no buffer grows or shrinks,
\* and the buffers of the socket stay within what they hold.
THEOREM OperationTypes == Spec => []TypeOK
<1>1. BufferInv /\ BytesInv => TypeOK
  <2> SUFFICES ASSUME BufferInv, BytesInv PROVE TypeOK
    OBVIOUS
  <2>1. taken \in 0..MaxBytes
    BY CapsAssumption DEF BytesInv, SocketTypes
  <2>2. ASSUME NEW f \in Futures
        PROVE  /\ call[f].kind \in Reads \cup Writes
               /\ moved[f] \in 0..call[f].len
               /\ buf[f] \in [1..call[f].len -> 0..MaxBytes]
    <3>1. moved[f] \in 0..call[f].len /\ call[f].kind \in Reads \cup Writes
      BY DoneType DEF BytesInv, CallTypes, CallOK, Done
    <3>2. 0..taken \subseteq 0..MaxBytes
      BY <2>1, CapsAssumption
    <3> QED
      BY <3>1, <3>2 DEF BytesInv, ReadOK
  <2> QED
    BY <2>2 DEF BufferInv, EventTypes, WakerInv, BytesInv, SocketTypes, TypeOK, Whole
<1> QED
  BY <1>1, BytesAlways, PTL

\* The bytes arrive where they belong, for any number of calls on a stream, of
\* any sizes: handlers fill a buffer from its front, one after the other, and a
\* call is told of its bytes before it lends its buffer again.
THEOREM BytesSafety == Spec => []BytesInOrder
<1>1. BytesInv => BytesInOrder
  <2> SUFFICES ASSUME BytesInv PROVE BytesInOrder
    OBVIOUS
  <2>1. ASSUME NEW f \in Futures PROVE DOMAIN buf[f] = 1..call[f].len
    BY DEF BytesInv, ReadOK
  <2>2. ASSUME NEW p \in 1..taken
        PROVE  Cardinality({f \in Futures : \E i \in DOMAIN buf[f] : buf[f][i] = p}) = 1
    <3>1. PICK f \in Futures : Holds(f, p)
      BY DEF BytesInv, Spread
    <3>2. \A g \in Futures : Holds(g, p) <=> g = f
      BY <3>1 DEF BytesInv, Spread
    <3>3. \A g \in Futures : (\E i \in DOMAIN buf[g] : buf[g][i] = p) <=> g = f
      BY <2>1, <3>2 DEF Holds
    <3>4. {g \in Futures : \E i \in DOMAIN buf[g] : buf[g][i] = p} = {f}
      BY <3>3
    <3> QED
      BY <3>4, FS_Singleton
  <2>3. ASSUME NEW f \in Futures, NEW i \in DOMAIN buf[f], NEW j \in DOMAIN buf[f],
               i < j, buf[f][j] # 0
        PROVE  buf[f][i] # 0 /\ buf[f][i] < buf[f][j]
    <3>1. call[f].len \in Nat /\ Done(f) \in Nat
      BY DoneType DEF BytesInv, CallTypes, CallOK
    <3>2. call[f].kind \in Reads /\ j \in 1..Done(f) /\ i \in 1..Done(f)
      BY <2>1, <2>3, <3>1 DEF BytesInv, ReadOK
    <3> QED
      BY <2>1, <2>3, <3>1, <3>2 DEF BytesInv, ReadOK
  <2>4. ASSUME NEW f \in Futures, NEW k \in Written(f)
        PROVE  wire[k][2] = Cardinality({j \in Written(f) : j <= k})
    BY DEF BytesInv, WriteOK, Upto
  <2> QED
    BY <2>2, <2>3, <2>4 DEF BytesInOrder
<1> QED
  BY <1>1, BytesAlways, PTL

-----------------------------------------------------------------------------
(* The reports *)

\* An ended stream stays so.
LEMMA EndedForGood ==
    ASSUME BytesInv, [Next]_vars, Ended
    PROVE  Ended'
<1>1. ASSUME NEW f \in Futures, User(f) \/ DropBuffer(f) \/ LetGo(f) PROVE UNCHANGED <<rx, conn>>
  BY <1>1 DEF User, Call, Send, Receive, Cancel, DropBuffer, LetGo, sockVars
<1>2. ASSUME NEW f \in Futures, HandleRead(f) PROVE UNCHANGED <<rx, conn>>
  BY <1>2 DEF HandleRead, Ended
<1>3. ASSUME NEW f \in Futures, HandleWrite(f) PROVE UNCHANGED <<rx, conn>>
  BY <1>3 DEF HandleWrite
<1>4. ASSUME World PROVE rx' = rx /\ conn' \subseteq conn
  BY <1>4 DEF World, Arrive, Ack, CloseDirections, RemoveSocket, DropStack, DropWakers,
              DropGenerator, Lose, sockVars, Ended
<1>5. CASE UNCHANGED vars
  BY <1>5 DEF vars, sockVars, Ended
<1> QED
  BY <1>1, <1>2, <1>3, <1>4, <1>5 DEF Next, Handler, Ended

\* What a step leaves alone of a future.
Untouched(f) ==
    /\ st'[f] = st[f] /\ reply'[f] = reply[f]
    /\ call'[f] = call[f] /\ moved'[f] = moved[f]

LEMMA UntouchedReport ==
    ASSUME ReportInv, Ended => Ended', NEW f \in Futures, Untouched(f),
           at'[f] = "answer" => (at[f] = "answer" /\ ans'[f] = ans[f]) \/ EndOK(f, ans[f])'
    PROVE  ReportOK(f)'
BY DEF ReportInv, ReportOK, EndOK, Untouched

LEMMA UserReport ==
    ASSUME BufferInv, BytesInv, ReportInv, Ended => Ended', NEW f \in Futures, User(f)
    PROVE  ReportInv'
<1>1. UNCHANGED ans
  BY DEF User, Call, Send, Receive, Cancel, eventVars
<1>2. ASSUME NEW g \in Futures, g # f PROVE Untouched(g) /\ at'[g] = at[g]
  BY <1>2 DEF User, Call, Send, Receive, Cancel, eventVars, Untouched, BufferInv, EventTypes,
              BytesInv, CallTypes
<1>3. \A g \in Futures : g # f => ReportOK(g)'
  BY <1>1, <1>2, UntouchedReport
<1>4. ReportOK(f) /\ CallOK(f) /\ Unreported(f) \in Nat
  BY DoneType DEF ReportInv, BytesInv, CallTypes
<1>5. CASE \E kind \in Reads \cup Writes, len \in Lens : Call(f, kind, len)
  <2>1. PICK kind \in Reads \cup Writes, len \in Lens : Call(f, kind, len)
    BY <1>5
  <2>2. /\ st[f] = "none" /\ st'[f] = IF kind \in Loops /\ len = 0 THEN "ok" ELSE "call"
        /\ call'[f].kind = kind /\ call'[f].len = len
        /\ UNCHANGED <<moved, reply, at>>
    BY <2>1 DEF Call, BufferInv, EventTypes, BytesInv, CallTypes, eventVars
  <2>3. moved[f] = 0 /\ at[f] = "none" /\ reply[f] = None /\ len \in Nat
    BY <1>4, <2>2, Waiting, LensAssumption DEF CallOK, Done, ReportOK, Returned
  <2>4. ReportOK(f)'
    BY <2>2, <2>3, NoneAssumption DEF ReportOK, EndOK
  <2> QED
    BY <1>3, <2>4 DEF ReportInv
<1>6. CASE Send(f)
  <2>1. /\ st[f] = "call" /\ reply'[f] = None /\ st'[f] \in {"wait", "error"}
        /\ at'[f] # "answer" /\ UNCHANGED <<call, moved>>
    BY <1>6, Waiting DEF Send, BufferInv, EventTypes, Returned
  <2>2. ReportOK(f)'
    BY <1>4, <2>1, NoneAssumption DEF ReportOK, EndOK
  <2> QED
    BY <1>3, <2>2 DEF ReportInv
<1>7. CASE Receive(f)
  <2>1. owns[f] = {} /\ at[f] = "none" /\ st[f] = "wait"
    BY <1>7 DEF Receive, BufferInv, EventInv, FutureInv
  <2>2. UNCHANGED <<reply, at, call>>
    BY <1>7 DEF Receive, eventVars
  <2>3. CASE /\ reply[f] # None /\ reply[f].ok
             /\ st' = [st EXCEPT ![f] = Cast(f, After(f, reply[f].n))]
             /\ moved' = [moved EXCEPT ![f] = @ + reply[f].n]
    <3>1. reply[f] \in Answers /\ reply[f].n \in Nat /\ Unreported(f) = reply[f].n
      BY <1>4, <2>1, <2>3 DEF CallOK, Honest, Answers, Unreported
    <3>2. st'[f] = After(f, reply[f].n) /\ moved'[f] = moved[f] + reply[f].n
      BY <2>1, <2>3 DEF Cast, BufferInv, EventTypes, BytesInv, CallTypes
    <3>3. moved[f] \in Nat /\ call[f].len \in Nat /\ moved[f] + reply[f].n <= call[f].len
      BY <1>4, <3>1 DEF CallOK, Done
    <3>4. ASSUME call[f].kind \notin Loops PROVE ReportOK(f)'
      BY <1>4, <2>1, <2>2, <3>2, <3>4 DEF After, ReportOK, EndOK
    <3>5. ASSUME call[f].kind \in Loops, reply[f].n = 0 PROVE ReportOK(f)'
      <4>1. st'[f] = "short"
        BY <3>2, <3>5 DEF After
      <4>2. call[f].kind = "read_exact" /\ Ended
        BY <1>4, <2>3, <3>1, <3>5 DEF ReportOK, EndOK
      <4> QED
        BY <1>4, <2>1, <2>2, <4>1, <4>2 DEF ReportOK, EndOK
    <3>6. ASSUME call[f].kind \in Loops, reply[f].n # 0 PROVE ReportOK(f)'
      <4>1. st'[f] = IF moved'[f] < call[f].len THEN "call" ELSE "ok"
        BY <3>2, <3>6 DEF After
      <4> QED
        BY <1>4, <2>1, <2>2, <3>1, <3>2, <3>3, <3>6, <4>1 DEF ReportOK, EndOK
    <3> QED
      BY <1>3, <3>4, <3>5, <3>6 DEF ReportInv
  <2>4. CASE st' = [st EXCEPT ![f] = Cast(f, "error")] /\ UNCHANGED moved
    <3>1. st'[f] = "error"
      BY <2>1, <2>4 DEF Cast, BufferInv, EventTypes
    <3>2. ReportOK(f)'
      BY <1>4, <2>1, <2>2, <2>4, <3>1 DEF ReportOK, EndOK
    <3> QED
      BY <1>3, <3>2 DEF ReportInv
  <2> QED
    BY <1>7, <2>3, <2>4 DEF Receive
<1>8. CASE Cancel(f)
  <2>1. /\ st[f] = "wait" /\ st'[f] = "cancelled"
        /\ UNCHANGED <<call, moved, reply, at>>
    BY <1>8 DEF Cancel, BufferInv, EventTypes, eventVars
  <2>2. ReportOK(f)'
    BY <1>1, <1>4, <2>1 DEF ReportOK, EndOK
  <2> QED
    BY <1>3, <2>2 DEF ReportInv
<1> QED
  BY <1>5, <1>6, <1>7, <1>8 DEF User

\* A handler takes Ok(0) only for the end of the stream: a loop has room left.
LEMMA HandlerReport ==
    ASSUME BufferInv, BytesInv, ReportInv, Ended => Ended', NEW f \in Futures, Handler(f)
    PROVE  ReportInv'
<1>1. CASE DropBuffer(f)
  <2>1. UNCHANGED <<st, at, reply, call, moved, ans>>
    BY <1>1 DEF DropBuffer, userVars
  <2> QED
    BY <2>1, UntouchedReport DEF Untouched, ReportInv
<1>2. CASE LetGo(f)
  <2>1. /\ at'[f] = "none"
        /\ reply'[f] = IF at[f] = "answer" THEN ans[f] ELSE reply[f]
        /\ \A g \in Futures : g # f => reply'[g] = reply[g] /\ at'[g] = at[g]
        /\ UNCHANGED <<st, call, moved, ans>>
    BY <1>2 DEF LetGo, BufferInv, EventTypes, userVars
  <2>2. at[f] # "none"
    BY <1>2 DEF LetGo, Leaving
  <2>3. st[f] # "none"
    BY <2>2, Waiting
  <2>4. ReportOK(f)'
    BY <2>1, <2>3 DEF ReportInv, ReportOK, EndOK
  <2>5. \A g \in Futures : g # f => ReportOK(g)'
    BY <2>1, UntouchedReport DEF Untouched
  <2> QED
    BY <2>4, <2>5 DEF ReportInv
<1>3. CASE HandleRead(f) \/ HandleWrite(f)
  <2>1. at[f] = "queue" /\ UNCHANGED <<st, call, moved, reply>>
    BY <1>3 DEF HandleRead, HandleWrite, Handling, userVars
  <2>2. st[f] \in {"wait", "cancelled"} /\ Unreported(f) = 0
    BY <2>1, Waiting, Unanswered
  <2>3. /\ rx \in Nat /\ TxCap - tx \in Nat /\ Rest(f) \in Nat
        /\ call[f].kind \in Loops => Rest(f) > 0
    <3>1. rx \in Nat /\ TxCap - tx \in Nat
      BY CapsAssumption DEF BytesInv, SocketTypes
    <3>2. /\ moved[f] \in Nat /\ call[f].len \in Nat
          /\ moved[f] <= call[f].len
      BY <2>2 DEF BytesInv, CallTypes, CallOK, Done
    <3>3. call[f].kind \in Loops => moved[f] < call[f].len
      BY <2>2 DEF ReportInv, ReportOK
    <3> QED
      BY <3>1, <3>2, <3>3 DEF Rest
  <2>4. Err.ok = FALSE /\ \A n : Ok(n).n = n
    BY DEF Err, Ok
  <2>5. ASSUME NEW a, Answer(f, a), EndOK(f, a) PROVE ReportInv'
    <3>1. /\ at'[f] = "answer" /\ ans'[f] = a
          /\ \A g \in Futures : g # f => at'[g] = at[g] /\ ans'[g] = ans[g]
      BY <2>5 DEF Answer, BufferInv, EventTypes, BytesInv, CallTypes
    <3>2. EndOK(f, ans[f])'
      BY <2>1, <2>5, <3>1 DEF EndOK
    <3> QED
      BY <2>1, <3>1, <3>2, UntouchedReport DEF Untouched, ReportInv
  <2>6. ASSUME NEW old, Park(f, old) PROVE ReportInv'
    <3>1. UNCHANGED ans /\ \A g \in Futures : at'[g] \in {"waker", "drop"} \/ at'[g] = at[g]
      BY <2>6 DEF Park
    <3> QED
      BY <2>1, <3>1, UntouchedReport DEF Untouched, ReportInv
  <2>7. CASE Answer(f, Err)
    BY <2>4, <2>5, <2>7 DEF EndOK
  <2>8. CASE Answer(f, Ok(0)) /\ HandleRead(f) /\ rx = 0 /\ "recv" \notin conn
    <3>1. call[f].kind \in Reads
      BY <2>8 DEF HandleRead, Handling
    <3>2. EndOK(f, Ok(0))
      BY <2>8, <3>1 DEF EndOK, Ended, Reads, Loops
    <3> QED
      BY <2>5, <2>8, <3>2
  <2>9. CASE Answer(f, Ok(MinOf(rx, Rest(f)))) /\ rx > 0
    <3>1. call[f].kind \in Loops => MinOf(rx, Rest(f)) # 0
      BY <2>3, <2>9 DEF MinOf
    <3>2. EndOK(f, Ok(MinOf(rx, Rest(f))))
      BY <2>4, <3>1 DEF EndOK
    <3> QED
      BY <2>5, <2>9, <3>2
  <2>10. CASE Answer(f, Ok(MinOf(TxCap - tx, Rest(f)))) /\ tx < TxCap
    <3>1. call[f].kind \in Loops => MinOf(TxCap - tx, Rest(f)) # 0
      BY <2>3, <2>10, CapsAssumption DEF MinOf, BytesInv, SocketTypes
    <3>2. EndOK(f, Ok(MinOf(TxCap - tx, Rest(f))))
      BY <2>4, <3>1 DEF EndOK
    <3> QED
      BY <2>5, <2>10, <3>2
  <2> QED
    BY <1>3, <2>6, <2>7, <2>8, <2>9, <2>10 DEF HandleRead, HandleWrite
<1> QED
  BY <1>1, <1>2, <1>3 DEF Handler

LEMMA WorldReport ==
    ASSUME BufferInv, BytesInv, ReportInv, Ended => Ended', World
    PROVE  ReportInv'
<1>1. UNCHANGED <<st, call, moved, reply>>
  BY DEF World, Arrive, Ack, CloseDirections, RemoveSocket, DropStack, DropWakers,
         DropGenerator, Lose, userVars
<1>2. ASSUME NEW f \in Futures
      PROVE  at'[f] = "answer" => (at[f] = "answer" /\ ans'[f] = ans[f]) \/ ans'[f] = Err
  <2>1. ASSUME NEW ws, Woken(ws)
        PROVE  at'[f] = "answer" => (at[f] = "answer" /\ ans'[f] = ans[f]) \/ ans'[f] = Err
    BY <2>1 DEF Woken, Sent
  <2>2. ASSUME NEW fs, NEW place \in {"drop", "lost"}, Sent(fs, place), UNCHANGED ans
        PROVE  at'[f] = "answer" => (at[f] = "answer" /\ ans'[f] = ans[f]) \/ ans'[f] = Err
    BY <2>2 DEF Sent
  <2>3. \/ \E ws : Woken(ws)
        \/ (\E fs, place : place \in {"drop", "lost"} /\ Sent(fs, place)) /\ UNCHANGED ans
        \/ UNCHANGED <<at, ans>>
    BY DEF World, Arrive, Ack, CloseDirections, RemoveSocket, DropStack, DropWakers,
           DropGenerator, Lose, eventVars
  <2> QED
    BY <2>1, <2>2, <2>3
<1>3. Err.ok = FALSE
  BY DEF Err
<1>4. ASSUME NEW f \in Futures PROVE ReportOK(f)'
  <2>1. ans'[f] = Err => EndOK(f, ans[f])'
    BY <1>3 DEF EndOK
  <2> QED
    BY <1>1, <1>2, <2>1, UntouchedReport DEF Untouched
<1> QED
  BY <1>4 DEF ReportInv

LEMMA NextReportInv == BufferInv /\ BytesInv /\ ReportInv /\ [Next]_vars => ReportInv'
<1> SUFFICES ASSUME BufferInv, BytesInv, ReportInv, [Next]_vars PROVE ReportInv'
  OBVIOUS
<1>1. Ended => Ended'
  BY EndedForGood
<1>2. CASE UNCHANGED vars
  <2>1. UNCHANGED <<st, at, call, moved, reply, ans>>
    BY <1>2 DEF vars, userVars, eventVars
  <2> QED
    BY <1>1, <2>1, UntouchedReport DEF Untouched, ReportInv
<1> QED
  BY <1>1, <1>2, UserReport, HandlerReport, WorldReport DEF Next

\* What read, write, read_exact and write_all return is what happened to their
\* bytes, for any number of calls and any sizes, zero included.
THEOREM ReportSafety == Spec => []ReportIsTrue
<1>1. Init => ReportInv
  BY NoneAssumption DEF Init, ReportInv, ReportOK, EndOK
<1>2. BufferInv /\ BytesInv /\ ReportInv => ReportIsTrue
  <2> SUFFICES ASSUME BufferInv, BytesInv, ReportInv,
                      NEW f \in Futures, st[f] \in Returned
               PROVE  /\ Cardinality(IF call[f].kind \in Reads THEN Filled(f) ELSE Written(f)) = moved[f]
                      /\ (st[f] = "ok" /\ call[f].kind \in Loops) => moved[f] = call[f].len
                      /\ st[f] = "short" => /\ call[f].kind = "read_exact"
                                            /\ "recv" \notin conn /\ rx = 0
    BY DEF ReportIsTrue
  <2>1. Unreported(f) = 0
    BY Unanswered
  <2>2. moved[f] \in Nat /\ call[f].len \in Nat /\ Done(f) = moved[f] /\ moved[f] <= call[f].len
    BY <2>1 DEF BytesInv, CallTypes, CallOK, Done
  <2>3. CASE call[f].kind \in Reads
    <3>1. Filled(f) = 1..moved[f]
      <4>1. DOMAIN buf[f] = 1..call[f].len
        BY DEF BytesInv, ReadOK
      <4>2. \A i \in 1..call[f].len : buf[f][i] # 0 <=> i <= moved[f]
        BY <2>2, <2>3 DEF BytesInv, ReadOK
      <4> QED
        BY <2>2, <4>1, <4>2 DEF Filled
    <3>2. Cardinality(0 + 1 .. 0 + moved[f]) = moved[f]
      BY <2>2, IntervalSize
    <3>3. 0 + 1 .. 0 + moved[f] = 1..moved[f]
      BY <2>2
    <3> QED
      BY <2>3, <3>1, <3>2, <3>3 DEF ReportInv, ReportOK, Ended
  <2>4. CASE call[f].kind \notin Reads
    <3>1. call[f].kind \in Writes
      BY <2>4 DEF BytesInv, CallTypes, CallOK
    <3>2. Cardinality(Written(f)) = moved[f]
      BY <2>2, <3>1 DEF BytesInv, WriteOK
    <3> QED
      BY <2>4, <3>2 DEF ReportInv, ReportOK, Ended
  <2> QED
    BY <2>3, <2>4
<1> QED
  BY <1>1, <1>2, BytesAlways, NextReportInv, PTL DEF Spec
=============================================================================
