------------------------------ MODULE Operation ------------------------------
(***************************************************************************)
(* The operations of one TcpStream and the buffers they lend to the stack: *)
(* read, write, read_exact and write_all of src/tcp_stack/tcp.rs, the      *)
(* SharedBuf of src/shared_buf.rs, the casts at the end of                 *)
(* src/tcp_stack/mod.rs, and what handle_tcp_wake_event does to an event,  *)
(* at the grain of single drops and sends.  A buffer is behind an Arc with *)
(* two references, one with the future and one in the OperationEvent, next *)
(* to the sender of the result.  The future runs on a thread of its own:   *)
(* it may act between any two steps of the handler, and expects to be the  *)
(* only owner once it is answered.                                         *)
(*                                                                         *)
(* That every wakeup happens is TcpStack's subject.  Here an event moves   *)
(* between the channel, the handler and a waker, and may be lost on the    *)
(* way.                                                                    *)
(***************************************************************************)
EXTENDS Naturals, Sequences, FiniteSets

CONSTANTS Futures,     \* the calls that users make
          Lens,        \* the sizes of their buffers
          RxCap,       \* what the receive buffer of the socket holds
          TxCap,       \* what its transmit buffer holds
          MaxBytes,    \* bound: the bytes that the peer sends
          None

ASSUME LensAssumption == Lens \subseteq Nat
ASSUME CapsAssumption == RxCap \in Nat /\ TxCap \in Nat /\ MaxBytes \in Nat

VARIABLES st, call,    \* the futures: where they are, and what was called
          moved,       \* read or written so far: what the caller knows of
          buf,         \* the buffer: the stream position of each byte, or 0
          reply,       \* what the result channel holds
          at,          \* where the event of the future is
          owns,        \* what is left of it: the buffer's Arc and result_tx
          ans,         \* what the handler is about to answer
          rw, sw,      \* whose event the socket's wakers own
          rx, tx,      \* bytes in the receive and in the transmit buffer
          taken,       \* bytes that handlers took out of the receive buffer
          wire,        \* the bytes that handlers put into the transmit buffer
          conn,        \* the directions still open, and the socket itself
          stack,       \* the TcpStack is not dropped
          channel      \* the EventGenerator is not dropped

userVars  == <<st, call, moved>>
eventVars == <<at, owns, ans>>
sockVars  == <<rw, sw, rx, tx, taken, wire, conn>>
lifeVars  == <<stack, channel>>
vars == <<userVars, buf, reply, eventVars, sockVars, lifeVars>>

Reads  == {"read", "read_exact"}
Writes == {"write", "write_all"}
Loops  == {"read_exact", "write_all"}

\* "short": the errors UnexpectedEof and WriteZero.
Returned == {"ok", "short", "error"}

\* "call": about to send its event; "wait": at recv_async; "panicked": the
\* expect of a cast.
FutureStates == {"none", "call", "wait", "cancelled", "panicked"} \cup Returned

\* "answer" and "drop": in the hands of the driver's thread; "lost": dropped on
\* another one.
Places == {"none", "queue", "waker", "answer", "drop", "lost"}

\* Ok(n), or the error of a handler.
Answers == [ok : BOOLEAN, n : Nat]
Ok(n) == [ok |-> TRUE, n |-> n]
Err   == [ok |-> FALSE, n |-> 0]

ASSUME NoneAssumption == None \notin Futures \cup Answers

TypeOK ==
    /\ st \in [Futures -> FutureStates]
    /\ at \in [Futures -> Places]
    /\ owns \in [Futures -> SUBSET {"buffer", "result_tx"}]
    /\ \A f \in Futures :
          /\ call[f].kind \in Reads \cup Writes
          /\ moved[f] \in 0..call[f].len
          /\ buf[f] \in [1..call[f].len -> 0..MaxBytes]
    /\ rw \in Futures \cup {None} /\ sw \in Futures \cup {None}
    /\ rx \in 0..RxCap /\ tx \in 0..TxCap
    /\ conn \subseteq {"recv", "send", "socket"}

Init ==
    /\ st = [f \in Futures |-> "none"]
    /\ call = [f \in Futures |-> [kind |-> "read", len |-> 0]]
    /\ moved = [f \in Futures |-> 0]
    /\ buf = [f \in Futures |-> <<>>]
    /\ reply = [f \in Futures |-> None]
    /\ at = [f \in Futures |-> "none"]
    /\ owns = [f \in Futures |-> {}]
    /\ ans = [f \in Futures |-> Err]
    /\ rw = None /\ sw = None
    /\ rx = 0 /\ tx = 0
    /\ taken = 0 /\ wire = <<>>
    /\ conn = {"recv", "send", "socket"}
    /\ stack = TRUE /\ channel = TRUE

-----------------------------------------------------------------------------
(* The future *)

\* read_exact and write_all return at once when there is nothing to do.
Call(f, kind, len) ==
    /\ st[f] = "none"
    /\ "socket" \in conn
    /\ st' = [st EXCEPT ![f] = IF kind \in Loops /\ len = 0 THEN "ok" ELSE "call"]
    /\ call' = [call EXCEPT ![f] = [kind |-> kind, len |-> len]]
    /\ buf' = [buf EXCEPT ![f] = [i \in 1..len |-> 0]]
    /\ UNCHANGED <<moved, reply, eventVars, sockVars, lifeVars>>

\* The event takes a clone of the Arc and the result sender to the channel;
\* without a generator it comes back, and one reference is dropped before the
\* cast.
Send(f) ==
    /\ st[f] = "call"
    /\ reply' = [reply EXCEPT ![f] = None]
    /\ IF channel
       THEN /\ st' = [st EXCEPT ![f] = "wait"]
            /\ at' = [at EXCEPT ![f] = "queue"]
            /\ owns' = [owns EXCEPT ![f] = {"buffer", "result_tx"}]
       ELSE /\ st' = [st EXCEPT ![f] = "error"]
            /\ UNCHANGED <<at, owns>>
    /\ UNCHANGED <<call, moved, buf, ans, sockVars, lifeVars>>

\* cast_dyn_io_buf(_mut): Arc::into_inner is None unless the future's reference
\* is the only one.
Cast(f, step) == IF "buffer" \in owns[f] THEN "panicked" ELSE step

\* A bug: the loops take Ok(0) for success.
AfterZero(f, n) ==
    IF call[f].kind \in Loops /\ n > 0 /\ moved[f] + n < call[f].len THEN "call" ELSE "ok"

\* What the caller does with Ok(n): the loops go on until the buffer is done,
\* and take Ok(0) for the end.
After(f, n) ==
    IF call[f].kind \notin Loops THEN "ok"
    ELSE IF n = 0 THEN "short"
    ELSE IF moved[f] + n < call[f].len THEN "call"
    ELSE "ok"

\* recv_async returns: the answer, or that the sender is gone.
Receive(f) ==
    /\ st[f] = "wait"
    /\ \/ /\ reply[f] # None /\ reply[f].ok
          /\ st' = [st EXCEPT ![f] = Cast(f, After(f, reply[f].n))]
          /\ moved' = [moved EXCEPT ![f] = @ + reply[f].n]
       \/ /\ IF reply[f] = None THEN "result_tx" \notin owns[f] ELSE ~reply[f].ok
          /\ st' = [st EXCEPT ![f] = Cast(f, "error")]
          /\ UNCHANGED moved
    /\ UNCHANGED <<call, buf, reply, eventVars, sockVars, lifeVars>>

\* The future is dropped at its await, with its reference to the buffer.
Cancel(f) ==
    /\ st[f] = "wait"
    /\ st' = [st EXCEPT ![f] = "cancelled"]
    /\ UNCHANGED <<call, moved, buf, reply, eventVars, sockVars, lifeVars>>

-----------------------------------------------------------------------------
(* Letting go of an event *)

Leaving == {"answer", "drop", "lost"}

\* drop(buffer), or the first field of an event that is dropped.
DropBuffer(f) ==
    /\ at[f] \in Leaving
    /\ "buffer" \in owns[f]
    /\ owns' = [owns EXCEPT ![f] = @ \ {"buffer"}]
    /\ UNCHANGED <<userVars, buf, reply, at, ans, sockVars, lifeVars>>

\* A bug: the answer is sent before the drop of the buffer.
LetGoAtOnce(f) ==
    /\ at[f] \in Leaving
    /\ "result_tx" \in owns[f]
    /\ owns' = [owns EXCEPT ![f] = @ \ {"result_tx"}]
    /\ reply' = [reply EXCEPT ![f] = IF at[f] = "answer" THEN ans[f] ELSE @]
    /\ UNCHANGED <<userVars, buf, at, ans, sockVars, lifeVars>>

\* result_tx.send(..), or result_tx, the last field, is dropped.
LetGo(f) ==
    /\ at[f] \in Leaving
    /\ owns[f] = {"result_tx"}
    /\ owns' = [owns EXCEPT ![f] = {}]
    /\ at' = [at EXCEPT ![f] = "none"]
    /\ reply' = [reply EXCEPT ![f] = IF at[f] = "answer" THEN ans[f] ELSE @]
    /\ UNCHANGED <<userVars, buf, ans, sockVars, lifeVars>>

\* The driver's thread is in the middle of an answer or a drop.
Busy == \E f \in Futures : at[f] \in {"answer", "drop"}

Sent(fs, place) == at' = [f \in Futures |-> IF f \in fs THEN place ELSE at[f]]

\* A set of queued events is dropped: with the generator, by a drive_once that
\* fails or panics, or in the pipe behind a driver that has ended.
Lose(fs, place) ==
    /\ place = "drop" => ~Busy
    /\ fs # {}
    /\ \A f \in fs : at[f] = "queue"
    /\ Sent(fs, place)
    /\ UNCHANGED <<userVars, buf, reply, owns, ans, sockVars, lifeVars>>

-----------------------------------------------------------------------------
(* handle_tcp_wake_event *)

Handling(f, kinds) ==
    /\ stack /\ ~Busy
    /\ at[f] = "queue"
    /\ call[f].kind \in kinds

Answer(f, a) ==
    /\ at' = [at EXCEPT ![f] = "answer"]
    /\ ans' = [ans EXCEPT ![f] = a]

\* register_recv_waker and register_send_waker drop the closure they replace.
Park(f, old) ==
    /\ at' = [g \in Futures |->
                IF g = f THEN "waker" ELSE IF g = old THEN "drop" ELSE at[g]]
    /\ UNCHANGED ans

MinOf(a, b) == IF a < b THEN a ELSE b

\* A bug: every round may move a whole buffer.
RestWhole(f) == call[f].len

Rest(f) == call[f].len - moved[f]

\* A bug: every round of read_exact starts at the front of the buffer.
FillFront(f, n) ==
    buf' = [buf EXCEPT ![f] =
              [i \in DOMAIN @ |-> IF i \in 1..n THEN taken + i ELSE @[i]]]

\* as_slice_mut on the slice behind what was read: n bytes of the stream.
Fill(f, n) ==
    buf' = [buf EXCEPT ![f] =
              [i \in DOMAIN @ |-> IF i \in moved[f] + 1 .. moved[f] + n
                                  THEN taken + (i - moved[f])
                                  ELSE @[i]]]

HandleRead(f) ==
    /\ Handling(f, Reads)
    /\ \/ /\ "socket" \notin conn
          /\ Answer(f, Err)
          /\ UNCHANGED <<buf, rw, rx, taken>>
       \/ /\ "socket" \in conn /\ rx = 0 /\ "recv" \notin conn
          /\ Answer(f, Ok(0))
          /\ UNCHANGED <<buf, rw, rx, taken>>
       \/ /\ "socket" \in conn /\ rx = 0 /\ "recv" \in conn
          /\ Park(f, rw)
          /\ rw' = f
          /\ UNCHANGED <<buf, rx, taken>>
       \/ /\ "socket" \in conn /\ rx > 0
          /\ LET n == MinOf(rx, Rest(f))
             IN  /\ Fill(f, n)
                 /\ Answer(f, Ok(n))
                 /\ rx' = rx - n
                 /\ taken' = taken + n
          /\ UNCHANGED rw
    /\ UNCHANGED <<userVars, reply, owns, sw, tx, wire, conn, lifeVars>>

HandleWrite(f) ==
    /\ Handling(f, Writes)
    /\ \/ /\ "socket" \notin conn \/ "send" \notin conn
          /\ Answer(f, Err)
          /\ UNCHANGED <<sw, tx, wire>>
       \/ /\ {"socket", "send"} \subseteq conn /\ tx = TxCap
          /\ Park(f, sw)
          /\ sw' = f
          /\ UNCHANGED <<tx, wire>>
       \/ /\ {"socket", "send"} \subseteq conn /\ tx < TxCap
          /\ LET n == MinOf(TxCap - tx, Rest(f))
             IN  /\ wire' = wire \o [i \in 1..n |-> <<f, moved[f] + i>>]
                 /\ Answer(f, Ok(n))
                 /\ tx' = tx + n
          /\ UNCHANGED sw
    /\ UNCHANGED <<userVars, buf, reply, owns, rw, rx, taken, conn, lifeVars>>

-----------------------------------------------------------------------------
(* The socket and the rest of the stack *)

\* The closures of the wakers in ws run: each sends its event again or, without
\* a generator, answers it with an error.
Woken(ws) ==
    /\ Sent(ws, IF channel THEN "queue" ELSE "answer")
    /\ ans' = [f \in Futures |-> IF f \in ws THEN Err ELSE ans[f]]

\* A byte of the peer arrives; the receive waker is woken.
Arrive ==
    /\ stack /\ ~Busy
    /\ "recv" \in conn
    /\ rx < RxCap
    /\ taken + rx < MaxBytes
    /\ rx' = rx + 1
    /\ Woken({rw}) /\ rw' = None
    /\ UNCHANGED <<userVars, buf, reply, owns, sw, tx, taken, wire, conn, lifeVars>>

\* The peer acknowledges a byte; the send waker is woken.
Ack ==
    /\ stack /\ ~Busy
    /\ "send" \in conn
    /\ tx > 0
    /\ tx' = tx - 1
    /\ Woken({sw}) /\ sw' = None
    /\ UNCHANGED <<userVars, buf, reply, owns, rw, rx, taken, wire, conn, lifeVars>>

\* The peer finishes or resets, or shutdown closes the sending direction.  A
\* change of the TCP state wakes both wakers.
CloseDirections(ds) ==
    /\ stack /\ ~Busy
    /\ ds # {} /\ ds \subseteq conn
    /\ conn' = conn \ ds
    /\ Woken({rw, sw}) /\ rw' = None /\ sw' = None
    /\ UNCHANGED <<userVars, buf, reply, owns, rx, tx, taken, wire, lifeVars>>

DropWakers ==
    /\ Sent({rw, sw}, "drop")
    /\ rw' = None /\ sw' = None
    /\ UNCHANGED <<userVars, buf, reply, owns, ans, rx, tx, taken, wire>>

\* The socket is removed after its stream, which every future borrows, is
\* dropped; events of cancelled futures may be left.
RemoveSocket ==
    /\ stack /\ ~Busy
    /\ conn = {"socket"}
    /\ \A f \in Futures : st[f] \notin {"call", "wait"}
    /\ conn' = {}
    /\ DropWakers
    /\ UNCHANGED lifeVars

DropStack ==
    /\ stack /\ ~Busy
    /\ stack' = FALSE
    /\ DropWakers
    /\ UNCHANGED <<conn, channel>>

\* Sends fail from now on; Lose drops what is in the channel.
DropGenerator ==
    /\ channel
    /\ channel' = FALSE
    /\ UNCHANGED <<userVars, buf, reply, eventVars, sockVars, stack>>

-----------------------------------------------------------------------------
User(f) ==
    \/ \E kind \in Reads \cup Writes, len \in Lens : Call(f, kind, len)
    \/ Send(f)
    \/ Receive(f)
    \/ Cancel(f)

Handler(f) == HandleRead(f) \/ HandleWrite(f) \/ DropBuffer(f) \/ LetGo(f)

World ==
    \/ Arrive
    \/ Ack
    \/ \E ds \in SUBSET {"recv", "send"} : CloseDirections(ds)
    \/ RemoveSocket
    \/ DropStack
    \/ DropGenerator
    \/ \E fs \in SUBSET Futures, place \in {"drop", "lost"} : Lose(fs, place)

Next == (\E f \in Futures : User(f) \/ Handler(f)) \/ World

Spec == Init /\ [][Next]_vars

-----------------------------------------------------------------------------
(* Properties *)

\* A future that goes on or returns owns its buffer alone: no cast fails on the
\* reference count, and no handler can write into a buffer that the user has
\* back or that belongs to the next round of a loop.
BufferExclusive ==
    \A f \in Futures :
        /\ st[f] # "panicked"
        /\ st[f] \in Returned \cup {"call"} => "buffer" \notin owns[f]

Filled(f) == {i \in DOMAIN buf[f] : buf[f][i] # 0}
Written(f) == {k \in DOMAIN wire : wire[k][1] = f}

\* Every byte that left the receive buffer is in one buffer; the bytes of a
\* buffer are in the order of the stream and from its start on; the bytes of a
\* write are on the wire once and in order.  That holds across the rounds of
\* read_exact and write_all, with other futures on the same stream, and with
\* futures that are cancelled while a handler has their buffer.
BytesInOrder ==
    /\ \A p \in 1..taken :
          Cardinality({f \in Futures : \E i \in DOMAIN buf[f] : buf[f][i] = p}) = 1
    /\ \A f \in Futures :
          /\ \A i, j \in DOMAIN buf[f] :
                (i < j /\ buf[f][j] # 0) => buf[f][i] # 0 /\ buf[f][i] < buf[f][j]
          /\ \A k \in Written(f) :
                wire[k][2] = Cardinality({j \in Written(f) : j <= k})

\* What a call reports is what happened to its bytes: the count is that of the
\* bytes moved, read_exact and write_all succeed with the whole buffer done, and
\* only read_exact falls short, of a stream that has ended.
ReportIsTrue ==
    \A f \in Futures :
        st[f] \in Returned =>
            /\ Cardinality(IF call[f].kind \in Reads THEN Filled(f) ELSE Written(f)) = moved[f]
            /\ (st[f] = "ok" /\ call[f].kind \in Loops) => moved[f] = call[f].len
            /\ st[f] = "short" => /\ call[f].kind = "read_exact"
                                  /\ "recv" \notin conn /\ rx = 0
=============================================================================
