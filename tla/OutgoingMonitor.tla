--------------------------- MODULE OutgoingMonitor ---------------------------
(***************************************************************************)
(* The timer of outgoing transfers (src/internal/etp/session.go): senders  *)
(* that are about to wait lower outgoingNext to their own deadline and     *)
(* wake the monitor, which arms its timer, scans all transfers when it     *)
(* fires, sends what has expired again and schedules itself.  outgoingNext *)
(* is an atomic that both sides change without a lock.                     *)
(*                                                                         *)
(* It also follows the chunk buffers, which sender, monitor and ack        *)
(* handler pass between them and a pool, and the references that keep a    *)
(* transfer's record from being recycled.                                  *)
(*                                                                         *)
(* A transfer has a window of one chunk.  TransferEnd, whose deadline and  *)
(* retries are kept like a chunk's, is left to Transfer.  Times are        *)
(* relative to the present: 0 is now, and a tick takes one from all.       *)
(***************************************************************************)
EXTENDS Integers, Sequences, FiniteSets

CONSTANTS
    Transfers,
    chunkCount,     \* [transfer -> how many chunks it has]
    Buffers,        \* the buffers of the pool
    AckTimeout,     \* in ticks
    RetryLimit

NoBuffer == "none"
NoTime == AckTimeout + 1    \* the zero time of the code: later than any deadline

VARIABLES
    pc,             \* where the sender of each transfer is
    chunk,          \* the chunk it is at
    buffer,         \* the buffer it holds
    content,        \* content[b]: the chunk that buffer b was last filled with
    pool,           \* the free buffers
    pending,        \* ot.pending: chunks reserved and not acked
    failed,         \* ot.failed
    monitorRefs,    \* ot.monitorRefs
    outgoingNext,   \* NoTime, or the deadline the monitor is asked to keep
    outgoingWake,   \* the wake-up channel holds its token
    sched,          \* where each sender is in scheduleOutgoingMonitor
    mon,            \* the monitor's locals
    tasks,          \* what its scan decided to send again
    net,            \* frames on their way: chunk and the bytes they carry
    written         \* written[x]: the bytes the receiver has written, in order

bufVars == <<buffer, content, pool>>
otVars == <<pending, failed>>
vars == <<pc, chunk, bufVars, otVars, monitorRefs, outgoingNext, outgoingWake,
          sched, mon, tasks, net, written>>

Init ==
    /\ pc = [x \in Transfers |-> "fill"] /\ chunk = [x \in Transfers |-> 1]
    /\ buffer = [x \in Transfers |-> NoBuffer]
    /\ content = [b \in Buffers |-> <<>>] /\ pool = Buffers
    /\ pending = [x \in Transfers |-> {}] /\ failed = [x \in Transfers |-> FALSE]
    /\ monitorRefs = [x \in Transfers |-> 0]
    /\ outgoingNext = NoTime /\ outgoingWake = FALSE
    /\ sched = [x \in Transfers |-> "none"]
    /\ mon = [at |-> "select", armed |-> NoTime, next |-> NoTime]
    /\ tasks = {} /\ net = {}
    /\ written = [x \in Transfers |-> <<>>]

-----------------------------------------------------------------------------
(* scheduleOutgoingMonitor.  Its loop around a compare-and-swap takes effect  *)
(* where it reads a deadline that is early enough, or where the swap succeeds;*)
(* the wake-up is sent afterwards.                                            *)

MinOf(S) == CHOOSE n \in S : \A m \in S : n <= m

Deadline(item) == item.sentAt + AckTimeout

nextOutgoingDeadlineLocked(x) ==
    MinOf({Deadline(i) : i \in pending[x]} \cup {NoTime})

\* Faulty: a deadline that is asked for already is never lowered.
MustLowerUnset(deadline) == deadline # NoTime /\ outgoingNext = NoTime

MustLower(deadline) == deadline < outgoingNext

\* The sender, which holds ot.mu, asks for its first deadline.
CompareAndSwap(x) ==
    LET deadline == nextOutgoingDeadlineLocked(x) IN
    /\ sched[x] = "swap"
    /\ \/ MustLower(deadline) /\ outgoingNext' = deadline /\ sched' = [sched EXCEPT ![x] = "wake"]
       \/ ~MustLower(deadline) /\ sched' = [sched EXCEPT ![x] = "none"] /\ UNCHANGED outgoingNext
    /\ UNCHANGED <<pc, chunk, bufVars, otVars, monitorRefs, outgoingWake, mon,
                   tasks, net, written>>

\* The wake-up is not sent when one is already waiting.
Wake(x) ==
    /\ sched[x] = "wake"
    /\ outgoingWake' = TRUE /\ sched' = [sched EXCEPT ![x] = "none"]
    /\ UNCHANGED <<pc, chunk, bufVars, otVars, monitorRefs, outgoingNext, mon,
                   tasks, net, written>>

-----------------------------------------------------------------------------
(* The sender: sendTransferBody, sendReliableChunk, waitOutgoingAcked and    *)
(* unregisterOutgoing.  It holds ot.mu while it schedules.                   *)

Locked(x) == sched[x] # "none"

Item(c, b) == [chunk |-> c, sentAt |-> 0, retries |-> 0, buffer |-> b]

\* Broadcast: a sender in cond.Wait will look again.
Woken(x) == IF pc[x] = "window" THEN "reserve" ELSE IF pc[x] = "answer" THEN "drain" ELSE pc[x]

\* sendTransferBody takes a buffer and fills it with the next chunk.
Fill(x) ==
    /\ pc[x] = "fill"
    /\ \E b \in pool :
          /\ pool' = pool \ {b} /\ buffer' = [buffer EXCEPT ![x] = b]
          /\ content' = [content EXCEPT ![b] = <<x, chunk[x]>>]
    /\ pc' = [pc EXCEPT ![x] = "reserve"]
    /\ UNCHANGED <<chunk, otVars, monitorRefs, outgoingNext, outgoingWake, sched,
                   mon, tasks, net, written>>

\* sendReliableChunk up to its Unlock: wait for the window, give up, or reserve.
Reserve(x) ==
    /\ pc[x] = "reserve" /\ ~Locked(x)
    /\ \/ /\ pending[x] # {} /\ ~failed[x]
          /\ sched' = [sched EXCEPT ![x] = "swap"]
          /\ pc' = [pc EXCEPT ![x] = "window"]
          /\ UNCHANGED <<pending, pool, buffer>>
       \/ /\ failed[x]
          /\ pool' = pool \cup {buffer[x]} /\ buffer' = [buffer EXCEPT ![x] = NoBuffer]
          /\ pc' = [pc EXCEPT ![x] = "unregister"]
          /\ UNCHANGED <<pending, sched>>
       \/ /\ pending[x] = {} /\ ~failed[x]
          /\ pending' = [pending EXCEPT ![x] = {Item(chunk[x], buffer[x])}]
          /\ pc' = [pc EXCEPT ![x] = "transmit"]
          /\ UNCHANGED <<sched, pool, buffer>>
    /\ UNCHANGED <<chunk, content, failed, monitorRefs, outgoingNext, outgoingWake,
                   mon, tasks, net, written>>

\* Faulty: the loop of sendTransferBody gives the buffer back itself.
TransmitAndPut(x) ==
    /\ pc[x] = "transmit"
    /\ net' = net \cup {[transfer |-> x, chunk |-> chunk[x], bytes |-> content[buffer[x]]]}
    /\ chunk' = [chunk EXCEPT ![x] = @ + 1]
    /\ buffer' = [buffer EXCEPT ![x] = NoBuffer] /\ pool' = pool \cup {buffer[x]}
    /\ pc' = [pc EXCEPT ![x] = IF chunk[x] = chunkCount[x] THEN "drain" ELSE "fill"]
    /\ UNCHANGED <<content, otVars, monitorRefs, outgoingNext, outgoingWake, sched,
                   mon, tasks, written>>

\* The rest of sendReliableChunk: the frame is encoded from whatever the buffer
\* holds by now; the buffer belongs to the pending chunk since Reserve.
Transmit(x) ==
    /\ pc[x] = "transmit"
    /\ net' = net \cup {[transfer |-> x, chunk |-> chunk[x], bytes |-> content[buffer[x]]]}
    /\ chunk' = [chunk EXCEPT ![x] = @ + 1]
    /\ buffer' = [buffer EXCEPT ![x] = NoBuffer]
    /\ pc' = [pc EXCEPT ![x] = IF chunk[x] = chunkCount[x] THEN "drain" ELSE "fill"]
    /\ UNCHANGED <<content, pool, otVars, monitorRefs, outgoingNext, outgoingWake,
                   sched, mon, tasks, written>>

\* All chunks are sent; doneSending is set, and what is pending is waited for.
waitOutgoingAcked(x) ==
    /\ pc[x] = "drain" /\ ~Locked(x)
    /\ \/ /\ pending[x] # {} /\ ~failed[x]
          /\ sched' = [sched EXCEPT ![x] = "swap"]
          /\ pc' = [pc EXCEPT ![x] = "answer"]
       \/ /\ pending[x] = {} \/ failed[x]
          /\ pc' = [pc EXCEPT ![x] = "unregister"]
          /\ UNCHANGED sched
    /\ UNCHANGED <<chunk, bufVars, otVars, monitorRefs, outgoingNext, outgoingWake,
                   mon, tasks, net, written>>

BuffersOf(items) == {i.buffer : i \in items}

\* The transfer leaves s.outgoing; its record is put back once the monitor has no
\* task left for it.  From "leaving" on the monitor does not find it.
\* What the peer does with its last frames is of no interest any more.
unregisterOutgoing(x) ==
    /\ \/ /\ pc[x] = "unregister"
          /\ pc' = [pc EXCEPT ![x] = "leaving"]
          /\ UNCHANGED <<pool, pending, net>>
       \/ /\ pc[x] = "leaving" /\ monitorRefs[x] = 0
          /\ pool' = pool \cup BuffersOf(pending[x])
          /\ pending' = [pending EXCEPT ![x] = {}]
          /\ pc' = [pc EXCEPT ![x] = "returned"]
          /\ net' = {f \in net : f.transfer # x}
    /\ UNCHANGED <<chunk, buffer, content, failed, monitorRefs, outgoingNext,
                   outgoingWake, sched, mon, tasks, written>>

-----------------------------------------------------------------------------
(* The monitor: runOutgoingMonitor and processOutgoingTimeouts. *)

Registered == {x \in Transfers : pc[x] \notin {"leaving", "returned"}}

\* A wake-up: the timer is set to the deadline asked for.
Arm ==
    /\ mon.at = "select" /\ outgoingWake
    /\ outgoingWake' = FALSE
    /\ mon' = [mon EXCEPT !.armed = IF outgoingNext = NoTime THEN @ ELSE outgoingNext]
    /\ UNCHANGED <<pc, chunk, bufVars, otVars, monitorRefs, outgoingNext, sched,
                   tasks, net, written>>

\* The timer fires: the deadline asked for is cleared, unless it has been lowered
\* meanwhile, and then the transfers are scanned.
Fire ==
    /\ mon.at = "select" /\ mon.armed <= 0
    /\ outgoingNext' = IF outgoingNext = mon.armed THEN NoTime ELSE outgoingNext
    /\ mon' = [at |-> "scan", armed |-> NoTime, next |-> NoTime]
    /\ UNCHANGED <<pc, chunk, bufVars, otVars, monitorRefs, outgoingWake, sched,
                   tasks, net, written>>

Due(x) == {i \in pending[x] : Deadline(i) <= 0}
Spent(x) == {i \in Due(x) : i.retries >= RetryLimit}

Again(item) == [item EXCEPT !.sentAt = 0, !.retries = @ + 1]

\* Faulty: the monitor's tasks hold no reference to their transfer.
ReferencedNot(x, items) == monitorRefs[x]

\* Every task holds a reference, which keeps the transfer's record from reuse.
Referenced(x, items) == monitorRefs[x] + Cardinality(items)

\* The scan of the registered transfers, which holds s.mu and each ot.mu in turn:
\* what is due is marked as sent again, or fails its transfer when no retry is left;
\* the next deadline is found.
Scan ==
    LET fails == {x \in Registered : ~failed[x] /\ Spent(x) # {}}
        active == {x \in Registered : ~failed[x]} \ fails
        again == [x \in Transfers |-> IF x \in active THEN Due(x) ELSE {}]
        left == [x \in Transfers |-> (pending[x] \ again[x]) \cup {Again(i) : i \in again[x]}]
    IN
    /\ mon.at = "scan" /\ \A x \in Registered : ~Locked(x)
    /\ pending' = left
    /\ failed' = [x \in Transfers |-> failed[x] \/ x \in fails]
    /\ pc' = [x \in Transfers |-> IF x \in fails THEN Woken(x) ELSE pc[x]]
    /\ tasks' = UNION {{[transfer |-> x, chunk |-> i.chunk, bytes |-> content[i.buffer]] :
                         i \in again[x]} : x \in Transfers}
    /\ monitorRefs' = [x \in Transfers |-> Referenced(x, again[x])]
    /\ mon' = [mon EXCEPT !.at = "send",
                          !.next = MinOf({Deadline(i) : i \in UNION {left[x] : x \in active}}
                                         \cup {NoTime})]
    /\ UNCHANGED <<chunk, bufVars, outgoingNext, outgoingWake, sched, net, written>>

\* What is no longer pending is not sent; the reference is released either way.
SendTask(task) ==
    LET x == task.transfer IN
    /\ mon.at = "send" /\ task \in tasks /\ ~Locked(x)
    /\ tasks' = tasks \ {task}
    /\ net' = IF ~failed[x] /\ \E i \in pending[x] : i.chunk = task.chunk
              THEN net \cup {task} ELSE net
    /\ monitorRefs' = [monitorRefs EXCEPT ![x] = @ - 1]
    /\ pc' = [pc EXCEPT ![x] = Woken(x)]
    /\ UNCHANGED <<chunk, bufVars, otVars, outgoingNext, outgoingWake, sched, mon,
                   written>>

\* Back to the select, by way of scheduleOutgoingMonitor.
Reschedule ==
    /\ mon.at = "send" /\ tasks = {}
    /\ outgoingNext' = IF MustLower(mon.next) THEN mon.next ELSE outgoingNext
    /\ outgoingWake' = (outgoingWake \/ MustLower(mon.next))
    /\ mon' = [mon EXCEPT !.at = "select", !.next = NoTime]
    /\ UNCHANGED <<pc, chunk, bufVars, otVars, monitorRefs, sched, tasks, net,
                   written>>

-----------------------------------------------------------------------------
(* The peer and the clock. *)

\* The peer takes a frame, writes a chunk that it has not got yet and answers;
\* applyAck frees the buffer.
Answer(f) ==
    LET x == f.transfer
        answered == IF x \in Registered THEN {i \in pending[x] : i.chunk = f.chunk} ELSE {}
    IN
    /\ f \in net /\ ~Locked(x)
    /\ net' = net \ {f}
    /\ written' = IF f.chunk = Len(written[x]) + 1
                  THEN [written EXCEPT ![x] = Append(@, f.bytes)] ELSE written
    /\ pending' = [pending EXCEPT ![x] = @ \ answered]
    /\ pool' = pool \cup BuffersOf(answered)
    /\ pc' = [pc EXCEPT ![x] = Woken(x)]
    /\ UNCHANGED <<chunk, buffer, content, failed, monitorRefs, outgoingNext,
                   outgoingWake, sched, mon, tasks>>

Later(time) == IF time = NoTime THEN NoTime ELSE time - 1

\* Time passes while there is a deadline ahead; when all are past, more of it
\* changes nothing.
Tick ==
    /\ \E x \in Transfers : \E i \in pending[x] : Deadline(i) > 0
    /\ pending' = [x \in Transfers |-> {[i EXCEPT !.sentAt = @ - 1] : i \in pending[x]}]
    /\ outgoingNext' = Later(outgoingNext)
    /\ mon' = [mon EXCEPT !.armed = Later(@), !.next = Later(@)]
    /\ UNCHANGED <<pc, chunk, bufVars, failed, monitorRefs, outgoingWake, sched, tasks,
                   net, written>>

Sending(x) ==
    \/ Fill(x) \/ Reserve(x) \/ Transmit(x) \/ waitOutgoingAcked(x)
    \/ unregisterOutgoing(x) \/ CompareAndSwap(x) \/ Wake(x)

Monitoring ==
    \/ Arm \/ Fire \/ Scan \/ Reschedule
    \/ \E task \in tasks : SendTask(task)

Next ==
    \/ \E x \in Transfers : Sending(x)
    \/ Monitoring
    \/ \E f \in net : Answer(f)
    \/ Tick

Spec == Init /\ [][Next]_vars

-----------------------------------------------------------------------------
\* The types of the state
TypeOK ==
    /\ pool \subseteq Buffers /\ outgoingNext <= NoTime /\ outgoingWake \in BOOLEAN
    /\ \A x \in Transfers :
          /\ monitorRefs[x] \in Nat /\ Len(written[x]) <= chunkCount[x]
          /\ Cardinality(pending[x]) <= 1 /\ buffer[x] \in Buffers \cup {NoBuffer}

\* No deadline is lost between senders and monitor: while a sender waits for the
\* peer, its first deadline, or an earlier one, is armed, or asked for with a wake-up
\* coming, or the monitor's scan has still to come to the transfer, or has seen it
\* and has the deadline in hand.
DeadlineKept ==
    \A x \in Transfers :
        LET d == nextOutgoingDeadlineLocked(x) IN
        pc[x] \in {"window", "answer"} /\ ~Locked(x) /\ ~failed[x] =>
            \/ mon.armed <= d \/ mon.next <= d \/ mon.at = "scan"
            \/ outgoingNext <= d /\ (outgoingWake \/ \E y \in Transfers : sched[y] = "wake")

\* What the receiver writes is what the sender read: a buffer may be filled again
\* while the frame of an acked chunk is still to be encoded from it
\* (sendReliableChunk sends after Unlock), but such a frame is a duplicate.
WrittenIntact ==
    \A x \in Transfers : \A n \in 1 .. Len(written[x]) : written[x][n] = <<x, n>>

=============================================================================
