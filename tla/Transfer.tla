------------------------------ MODULE Transfer ------------------------------
(***************************************************************************)
(* One chunked transfer between two established sessions, from             *)
(* TransferBegin to the receiver's commit (src/internal/etp/session.go and *)
(* incoming.go).  Seven threads of control meet here: on the sending side  *)
(* the transfer goroutine (sendTransfer), the read loop (HandleAck,        *)
(* HandleNack, HandleWindow, handleIncomingTransferState), the retry       *)
(* monitor and the caller of TransferHandle.Cancel; on the receiving side  *)
(* the read loop, the goroutine that opens the writer and the transfer's   *)
(* worker (runIncomingTransfer).                                           *)
(*                                                                         *)
(* Data is abstracted to what the control depends on: every chunk is one   *)
(* byte long, so that byte counters and chunk counters coincide; payloads  *)
(* are their chunk numbers.  Flow control, acks and commit are negotiated. *)
(* The frames of the bulk channel stay in order, and so do those of the    *)
(* control channel; a Cancel is critical and may overtake everything.      *)
(***************************************************************************)
EXTENDS Integers, Sequences, FiniteSets, FiniteSetsExt

CONSTANTS
    MaxChunks,      \* a transfer has at most this many chunks
    LocalInFlight,  \* the sender's FlowControl.MaxInFlightChunks
    QueueCap,       \* the receiver's FlowControl.MaxInFlightChunks
    RetryLimit,     \* FlowControl.RetryLimit
    ReceiveLimit,   \* FlowControl.MaxReceiveBufferBytes, in chunks
    MaxOthers,      \* most of it that other transfers ever hold
    Faults          \* what the environment may do, a subset of FaultKinds

FaultKinds == {"reader", "cancel", "context", "open", "write", "checksum",
               "commit", "evict", "disconnect"}

ASSUME BoundAssumption ==
    /\ MaxChunks \in Nat /\ RetryLimit \in Nat /\ MaxOthers \in Nat
    /\ {LocalInFlight, QueueCap, ReceiveLimit} \subseteq Nat \ {0}
    /\ MaxOthers <= ReceiveLimit

ASSUME FaultAssumption == Faults \subseteq FaultKinds

VARIABLES
    chunkCount,     \* chunkCountFor(TotalSize, ChunkSize), fixed at the start
    up,             \* up.tx, up.rx: the two sessions are established
    ot,             \* the sender's outgoingTransfer
    spc,            \* where the transfer goroutine is
    next,           \* chunkID of sendTransferBody
    ctxDone,        \* the transfer's context is cancelled
    result,         \* what the transfer reported on Done
    bulk,           \* frames on their way on the bulk channel
    cancels,        \* a Cancel frame is on its way
    ctl,            \* frames on their way back on the control channel
    rx,             \* where the receiver keeps the transfer
    tr,             \* its incomingTransfer
    wpc,            \* where the worker is
    rpc,            \* where the receiver's read loop is
    opc,            \* where the goroutine opening the writer is
    loaded,         \* windows computed and not yet sent, by thread
    dup,            \* receivedBytes that a duplicate's ack was built from
    writer,         \* the application's writer
    mem,            \* what s.completed remembers of the transfer
    others          \* receive buffer held by other transfers

txVars == <<chunkCount, ot, spc, next, ctxDone, result>>
trVars == <<rx, tr, wpc, opc, loaded, writer, mem, others>>
rxVars == <<trVars, rpc, dup>>
vars == <<txVars, up, bulk, cancels, ctl, rxVars>>

Chunks == 0 .. MaxChunks - 1

Begin == [type |-> "begin"]
Data(c) == [type |-> "data", chunk |-> c]
End == [type |-> "end"]
Ack(n) == [type |-> "ack", received |-> n]
Nack(r) == [type |-> "nack", reason |-> r]
Missing(a, b) == [type |-> "nack", reason |-> "missing", from |-> a, to |-> b]
Window(n) == [type |-> "window", chunks |-> n]
State(f) == [type |-> "state", flag |-> f]

Init ==
    /\ chunkCount \in 0 .. MaxChunks
    /\ up = [tx |-> TRUE, rx |-> TRUE]
    /\ ot = [pending |-> {}, retries |-> [c \in Chunks |-> 0], acked |-> 0,
             window |-> 0, doneSending |-> FALSE, completed |-> FALSE,
             failed |-> FALSE, commitRetries |-> 0]
    /\ spc = "begin" /\ next = 0 /\ ctxDone = FALSE /\ result = "none"
    /\ bulk = <<>> /\ cancels = FALSE /\ ctl = <<>>
    /\ rx = "none" /\ wpc = "off" /\ rpc = "read" /\ opc = "off"
    /\ tr = [accepted |-> 0, written |-> 0, queued |-> 0, accepting |-> TRUE,
             failed |-> FALSE, ending |-> FALSE, flowBlocked |-> FALSE]
    /\ loaded = [worker |-> 0, opener |-> 0] /\ dup = 0
    /\ writer = "none" /\ mem = "none"
    /\ others \in 0 .. MaxOthers

-----------------------------------------------------------------------------
(* The sender's transfer goroutine: sendTransfer and what it calls. *)

\* Faulty: the receiver's limit, announced in its Hello, is not applied.
MaxInFlightUnclamped == LocalInFlight

\* registerOutgoing: how many chunks may be unacknowledged.
MaxInFlight == Min({LocalInFlight, QueueCap})

\* What a Broadcast on ot.cond does to the transfer goroutine.
Woken == IF spc = "wait" THEN "woken"
         ELSE IF spc = "awaitWait" THEN "awaitWoken"
         ELSE spc

\* The transfer goroutine returns, unregistering the transfer.
Return(r) ==
    /\ spc' = "returned"
    /\ result' = r
    /\ ot' = [ot EXCEPT !.pending = {}]

SendBegin ==
    /\ spc = "begin"
    /\ \/ /\ up.tx /\ ~ot.failed
          /\ bulk' = Append(bulk, Begin)
          /\ spc' = "chunk"
          /\ UNCHANGED <<ot, result>>
       \/ /\ ~up.tx \/ ot.failed
          /\ Return("error")
          /\ UNCHANGED bulk
    /\ UNCHANGED <<chunkCount, next, ctxDone, up, cancels, ctl, rxVars>>

\* The head of the loop of sendTransferBody: the context, the size, the read.
NextChunk ==
    /\ spc = "chunk"
    /\ \/ ctxDone /\ Return("error")
       \/ /\ ~ctxDone
          /\ spc' = IF next = chunkCount THEN "end" ELSE "reserve"
          /\ UNCHANGED <<ot, result>>
       \/ /\ ~ctxDone /\ next < chunkCount /\ "reader" \in Faults
          /\ Return("error")
    /\ UNCHANGED <<chunkCount, next, ctxDone, up, bulk, cancels, ctl, rxVars>>

\* Faulty: only the sender's own limit is looked at.
MustWaitLocalOnly ==
    /\ Cardinality(ot.pending) >= LocalInFlight
    /\ ~ot.failed

MustWait ==
    /\ Cardinality(ot.pending) >= MaxInFlight \/ ot.window = 0
    /\ ~ot.failed

\* sendReliableChunk up to the unlock.  The context is looked at only after a
\* wait, so a Cancel that comes before the first wait is not seen by it.
ReserveChunk ==
    /\ spc \in {"reserve", "woken"}
    /\ \/ spc = "woken" /\ ctxDone /\ Return("error")
       \/ /\ ~(spc = "woken" /\ ctxDone)
          /\ \/ MustWait /\ spc' = "wait" /\ UNCHANGED <<ot, result>>
             \/ ot.failed /\ Return("error")
             \/ /\ ~MustWait /\ ~ot.failed
                /\ ot' = [ot EXCEPT !.pending = @ \cup {next},
                                    !.window = @ - 1]
                /\ spc' = "transmit"
                /\ UNCHANGED result
    /\ UNCHANGED <<chunkCount, next, ctxDone, up, bulk, cancels, ctl, rxVars>>

\* sendReliableChunk after the unlock: the frame is handed to the writer.
TransmitChunk ==
    /\ spc = "transmit"
    /\ \/ /\ up.tx
          /\ bulk' = Append(bulk, Data(next))
          /\ next' = next + 1
          /\ spc' = "chunk"
          /\ UNCHANGED <<ot, result>>
       \/ ~up.tx /\ Return("error") /\ UNCHANGED <<bulk, next>>
    /\ UNCHANGED <<chunkCount, ctxDone, up, cancels, ctl, rxVars>>

\* The end of sendTransferBody: the commit timer starts before End is sent.
FinishSending ==
    /\ spc = "end"
    /\ ot' = [ot EXCEPT !.doneSending = TRUE]
    /\ spc' = "sendEnd"
    /\ UNCHANGED <<chunkCount, next, ctxDone, result, up, bulk, cancels, ctl,
                   rxVars>>

SendEnd ==
    /\ spc = "sendEnd"
    /\ \/ up.tx /\ bulk' = Append(bulk, End) /\ spc' = "await"
          /\ UNCHANGED <<ot, result>>
       \/ ~up.tx /\ Return("error") /\ UNCHANGED bulk
    /\ UNCHANGED <<chunkCount, next, ctxDone, up, cancels, ctl, rxVars>>

waitOutgoingAcked ==
    /\ spc \in {"await", "awaitWoken"}
    /\ LET unfinished == ot.pending # {} \/ ~ot.completed IN
       \/ spc = "awaitWoken" /\ ctxDone /\ Return("error")
       \/ /\ ~(spc = "awaitWoken" /\ ctxDone)
          /\ \/ unfinished /\ ~ot.failed /\ spc' = "awaitWait"
                /\ UNCHANGED <<ot, result>>
             \/ ~unfinished /\ ~ot.failed /\ Return("ok")
             \/ ot.failed /\ Return("error")
    /\ UNCHANGED <<chunkCount, next, ctxDone, up, bulk, cancels, ctl, rxVars>>

-----------------------------------------------------------------------------
(* The other threads of the sender. *)

\* Whether the transfer is still registered.
Registered == spc # "returned"

\* The read loop fails the session: Run closes it and failOutgoing.
SenderDown ==
    /\ up' = [up EXCEPT !.tx = FALSE]
    /\ ot' = IF Registered THEN [ot EXCEPT !.failed = TRUE] ELSE ot
    /\ spc' = Woken

\* Faulty: the counter of the frame is taken, even from a stale ack.
applyAckAnyOrder(received) ==
    /\ ot' = [ot EXCEPT !.pending = {c \in @ : c >= received},
                        !.acked = received]
    /\ spc' = Woken
    /\ UNCHANGED up

\* applyAck, for an ack of the chunks below received.
applyAck(received) ==
    LET matched == {c \in ot.pending : c < received}
        acked == ot.acked + Cardinality(matched)
    IN  IF \/ received < ot.acked
           \/ matched # {} /\ received # acked
           \/ matched = {} /\ received > ot.acked
        THEN SenderDown
        ELSE /\ ot' = [ot EXCEPT !.pending = @ \ matched, !.acked = acked]
             /\ spc' = Woken
             /\ UNCHANGED up

\* The chunks of S in the order in which they stand in ot.pending.
InSendOrder(S) ==
    {r \in [1 .. Cardinality(S) -> S] :
        \A i, j \in DOMAIN r : i < j => r[i] < r[j]}

\* applyNack: a missing range is sent again, a flow-control refusal closes
\* the window and leaves the chunk to its ack timeout, anything else fails
\* the transfer.
applyNack(m) ==
    IF m.reason = "missing"
    THEN LET again == {c \in ot.pending : m.from <= c /\ c <= m.to} IN
         IF \E c \in again : ot.retries[c] >= RetryLimit
         THEN SenderDown /\ UNCHANGED bulk
         ELSE /\ ot' = [ot EXCEPT !.retries =
                    [c \in Chunks |-> @[c] + IF c \in again THEN 1 ELSE 0]]
              /\ \E r \in InSendOrder(again) :
                    bulk' = bulk \o [i \in DOMAIN r |-> Data(r[i])]
              /\ UNCHANGED <<spc, up>>
    ELSE IF m.reason = "flow"
    THEN ot' = [ot EXCEPT !.window = 0] /\ UNCHANGED <<spc, up, bulk>>
    ELSE /\ ot' = [ot EXCEPT !.failed = TRUE]
         /\ spc' = Woken
         /\ UNCHANGED <<up, bulk>>

\* handleIncomingTransferState for a Completed or Failed state.
applyState(flag) ==
    /\ ot' = IF flag = "completed" THEN [ot EXCEPT !.completed = TRUE]
                                   ELSE [ot EXCEPT !.failed = TRUE]
    /\ spc' = Woken

HandleWindow(chunks) ==
    /\ ot' = [ot EXCEPT !.window = chunks]
    /\ spc' = Woken

\* One frame of the control channel; one for an unknown transfer is ignored.
HandleControl ==
    /\ up.tx /\ ctl # <<>>
    /\ ctl' = Tail(ctl)
    /\ LET m == Head(ctl) IN
       \/ ~Registered /\ UNCHANGED <<ot, spc, up, bulk>>
       \/ Registered /\ m.type = "ack" /\ applyAck(m.received) /\ UNCHANGED bulk
       \/ Registered /\ m.type = "nack" /\ applyNack(m)
       \/ Registered /\ m.type = "state" /\ applyState(m.flag)
          /\ UNCHANGED <<up, bulk>>
       \/ Registered /\ m.type = "window" /\ HandleWindow(m.chunks)
          /\ UNCHANGED <<up, bulk>>
    /\ UNCHANGED <<chunkCount, next, ctxDone, result, cancels, rxVars>>

\* processOutgoingTimeouts, for a chunk whose ack is overdue.  The monitor
\* broadcasts when it is done with a retry (releaseOutgoingMonitorRef).
AckTimeout(c) ==
    /\ Registered /\ ~ot.failed /\ c \in ot.pending
    /\ IF ot.retries[c] < RetryLimit /\ up.tx
       THEN /\ ot' = [ot EXCEPT !.retries[c] = @ + 1]
            /\ bulk' = Append(bulk, Data(c))
       ELSE ot' = [ot EXCEPT !.failed = TRUE] /\ UNCHANGED bulk
    /\ spc' = Woken
    /\ UNCHANGED <<chunkCount, next, ctxDone, result, up, cancels, ctl, rxVars>>

\* processOutgoingTimeouts, for a commit that is overdue.
CommitTimeout ==
    /\ Registered /\ ~ot.failed /\ ot.doneSending /\ ~ot.completed
    /\ IF ot.commitRetries < RetryLimit /\ up.tx
       THEN /\ ot' = [ot EXCEPT !.commitRetries = @ + 1]
            /\ bulk' = Append(bulk, End)
       ELSE ot' = [ot EXCEPT !.failed = TRUE] /\ UNCHANGED bulk
    /\ spc' = Woken
    /\ UNCHANGED <<chunkCount, next, ctxDone, result, up, cancels, ctl, rxVars>>

\* TransferHandle.Cancel: the context, the broadcast, the Cancel frame.
Cancel ==
    /\ "cancel" \in Faults /\ ~ctxDone /\ Registered
    /\ ctxDone' = TRUE
    /\ spc' = Woken
    /\ cancels' = up.tx
    /\ UNCHANGED <<chunkCount, ot, next, result, up, bulk, ctl, rxVars>>

\* The caller's own context ends (the AfterFunc of launchTransfer).
ContextEnds ==
    /\ "context" \in Faults /\ ~ctxDone /\ Registered
    /\ ctxDone' = TRUE
    /\ ot' = [ot EXCEPT !.failed = TRUE]
    /\ spc' = Woken
    /\ UNCHANGED <<chunkCount, next, result, up, bulk, cancels, ctl, rxVars>>

\* The sender's Run finds the connection closed by the receiver, or lost.
SenderDisconnected ==
    /\ up.tx
    /\ ~up.rx \/ "disconnect" \in Faults
    /\ SenderDown
    /\ UNCHANGED <<chunkCount, next, ctxDone, result, bulk, cancels, ctl,
                   rxVars>>

-----------------------------------------------------------------------------
(* The receiver: opening the writer, and the window. *)

Buffered == tr.queued + (IF wpc = "write" THEN 1 ELSE 0) + others

\* Run's failing paths close the writer before they store the state.
WriterClosed == rpc \in {"closed", "stopped"}

\* Frames are written only while the writer is open.
Send(frames) == ctl' = IF WriterClosed THEN ctl ELSE ctl \o frames

\* incomingTransfer.stop
stopped == [tr EXCEPT !.failed = TRUE, !.accepting = FALSE]

HandleBegin ==
    /\ up.rx /\ rpc = "read" /\ bulk # <<>> /\ Head(bulk) = Begin
    /\ bulk' = Tail(bulk)
    /\ rx' = "opening"
    /\ UNCHANGED <<txVars, up, cancels, ctl, tr, wpc, rpc, opc, loaded, dup,
                   writer, mem, others>>

\* openIncomingTransfer, when the application's handler answers.
OpenReturns ==
    /\ rx = "opening"
    /\ \/ /\ up.rx
          /\ rx' = "open" /\ wpc' = "idle" /\ opc' = "window" /\ writer' = "open"
          /\ UNCHANGED ctl
       \/ /\ ~up.rx
          /\ rx' = "gone" /\ writer' = "aborted"
          /\ UNCHANGED <<wpc, opc, ctl>>
       \/ /\ "open" \in Faults
          /\ rx' = "gone"
          /\ Send(<<Nack("write")>>)
          /\ UNCHANGED <<wpc, opc, writer>>
    /\ UNCHANGED <<txVars, up, bulk, cancels, tr, rpc, loaded, dup, mem, others>>

\* TransferOpenTimeout: the id stays in s.opening until the handler returns.
OpenTimesOut ==
    /\ rx = "opening" /\ "open" \in Faults
    /\ rx' = "late"
    /\ Send(<<Nack("write")>>)
    /\ UNCHANGED <<txVars, up, bulk, cancels, tr, wpc, rpc, opc, loaded, dup,
                   writer, mem, others>>

OpenReturnsLate ==
    /\ rx = "late"
    /\ rx' = "gone" /\ writer' = "aborted"
    /\ UNCHANGED <<txVars, up, bulk, cancels, ctl, tr, wpc, rpc, opc, loaded,
                   dup, mem, others>>

\* sendIncomingWindow reads the session's receive buffer without a lock ...
WindowOf(buffered) == IF buffered < ReceiveLimit THEN ReceiveLimit - buffered ELSE 0

\* ... and then marks the transfer and sends what it computed.
MarkedBy(window) ==
    IF rx = "open"
    THEN [tr EXCEPT !.flowBlocked = window = 0 \/ tr.queued = QueueCap]
    ELSE tr

WindowFrame(window) ==
    Window(Min({window, IF rx = "open" THEN QueueCap - tr.queued ELSE QueueCap}))

OpenerWindow ==
    \/ /\ opc = "window"
       /\ loaded' = [loaded EXCEPT !.opener = WindowOf(Buffered)]
       /\ opc' = "send"
       /\ UNCHANGED <<txVars, up, bulk, cancels, ctl, rx, tr, wpc, rpc, dup,
                      writer, mem, others>>
    \/ /\ opc = "send"
       /\ tr' = IF WriterClosed THEN stopped ELSE MarkedBy(loaded.opener)
       /\ rx' = IF WriterClosed THEN "gone" ELSE rx
       /\ Send(<<WindowFrame(loaded.opener)>>)
       /\ opc' = "off"
       /\ loaded' = [loaded EXCEPT !.opener = 0]
       /\ UNCHANGED <<txVars, up, bulk, cancels, wpc, rpc, dup, writer, mem,
                      others>>

-----------------------------------------------------------------------------
(* The receiver's read loop. *)

\* Faulty: the incoming transfers are forgotten without being stopped.
ReceiverDownLeaves ==
    /\ rpc' = "cleaned"
    /\ rx' = IF rx = "open" THEN "gone" ELSE rx
    /\ UNCHANGED <<up, tr>>

\* A failed read or a handler's error makes Run end the session, in three
\* steps: cleanupIncoming takes the transfers out of s.incoming and stops them,
ReceiverDown ==
    /\ rpc' = "cleaned"
    /\ rx' = IF rx = "open" THEN "gone" ELSE rx
    /\ tr' = IF rx = "open" THEN stopped ELSE tr
    /\ UNCHANGED up

\* closeWriter ends the writing of frames,
CloseWriter ==
    /\ rpc = "cleaned"
    /\ rpc' = "closed"
    /\ UNCHANGED <<txVars, up, bulk, cancels, ctl, trVars, dup>>

\* and setState(SessionFailed) makes openIncomingTransfer turn writers away; the
\* transport is closed.
SetFailed ==
    /\ rpc = "closed"
    /\ rpc' = "stopped"
    /\ up' = [up EXCEPT !.rx = FALSE]
    /\ UNCHANGED <<txVars, bulk, cancels, ctl, trVars, dup>>

\* Faulty: a chunk is acknowledged when it is queued, not when it is written.
AcceptAndAck ==
    /\ tr' = [tr EXCEPT !.queued = @ + 1, !.accepted = @ + 1]
    /\ Send(<<Ack(tr.accepted + 1)>>)

AcceptChunk ==
    /\ tr' = [tr EXCEPT !.queued = @ + 1, !.accepted = @ + 1]
    /\ UNCHANGED ctl

\* handleIncomingTransferData, for a transfer that takes chunks.
ReceiveChunk(c) ==
    \/ /\ c < tr.written
       /\ dup' = tr.written
       /\ rpc' = "dupAck"
       /\ UNCHANGED <<ctl, tr>>
    \/ /\ tr.written <= c /\ c < tr.accepted
       /\ UNCHANGED <<ctl, tr, rpc, dup>>
    \/ /\ c > tr.accepted
       /\ Send(<<Missing(tr.accepted, c - 1)>>)
       /\ UNCHANGED <<tr, rpc, dup>>
    \/ /\ c = tr.accepted
       /\ IF Buffered >= ReceiveLimit \/ tr.queued = QueueCap
          THEN /\ tr' = [tr EXCEPT !.flowBlocked = TRUE]
               /\ Send(<<Nack("flow")>>)
          ELSE AcceptChunk
       /\ UNCHANGED <<rpc, dup>>

HandleData ==
    /\ up.rx /\ rpc = "read" /\ bulk # <<>> /\ Head(bulk).type = "data"
    /\ bulk' = Tail(bulk)
    /\ \/ /\ rx # "open"
          /\ Send(<<Nack("unknown")>>)
          /\ UNCHANGED <<up, rx, tr, rpc, dup>>
       \/ /\ rx = "open" /\ tr.failed
          /\ ReceiverDown
          /\ UNCHANGED <<ctl, dup>>
       \/ /\ rx = "open" /\ ~tr.failed /\ ~tr.accepting
          /\ Send(<<Nack("canceled")>>)
          /\ UNCHANGED <<up, rx, tr, rpc, dup>>
       \/ /\ rx = "open" /\ ~tr.failed /\ tr.accepting
          /\ ReceiveChunk(Head(bulk).chunk)
          /\ UNCHANGED <<up, rx>>
    /\ UNCHANGED <<txVars, cancels, wpc, opc, loaded, writer, mem, others>>

\* The ack of a duplicate, built from counters read before the unlock.
AckDuplicate ==
    /\ rpc = "dupAck"
    /\ Send(<<Ack(dup)>>)
    /\ rpc' = "read" /\ dup' = 0
    /\ UNCHANGED <<txVars, up, bulk, cancels, trVars>>

\* handleIncomingTransferEnd up to the wait for the worker.
HandleEnd ==
    /\ up.rx /\ rpc = "read" /\ bulk # <<>> /\ Head(bulk) = End
    /\ bulk' = Tail(bulk)
    /\ \/ /\ \/ rx # "open"
             \/ rx = "open" /\ tr.accepted = chunkCount /\ tr.ending
          /\ Send(<<IF mem = "none" THEN Nack("unknown") ELSE State(mem)>>)
          /\ UNCHANGED <<tr, rpc>>
       \/ /\ rx = "open" /\ tr.accepted < chunkCount
          /\ Send(<<Missing(tr.accepted, chunkCount - 1)>>)
          /\ UNCHANGED <<tr, rpc>>
       \/ /\ rx = "open" /\ tr.accepted = chunkCount /\ ~tr.ending
          /\ tr' = [tr EXCEPT !.ending = TRUE, !.accepting = FALSE]
          /\ rpc' = "drain"
          /\ UNCHANGED ctl
    /\ UNCHANGED <<txVars, up, cancels, rx, wpc, opc, loaded, dup, writer, mem,
                   others>>

\* A transfer that ends badly: forgotten, remembered as failed, reported.
EndFails(reason) ==
    /\ rx' = "gone" /\ mem' = "failed" /\ rpc' = "read"
    /\ Send(<<State("failed"), Nack(reason)>>)

\* Faulty: the worker's last writes are not waited for.
EndWithoutDrain ==
    /\ rpc = "drain"
    /\ rpc' = "commit"
    /\ UNCHANGED <<txVars, up, bulk, cancels, ctl, trVars, dup>>

\* handleIncomingTransferEnd, once the worker is done; or when it sees the
\* transfer's context cancelled by a failed write before the worker is done.
EndDrained ==
    /\ rpc = "drain"
    /\ \/ wpc = "done" /\ tr.failed /\ EndFails("write")
          /\ UNCHANGED <<up, tr, writer>>
       \/ /\ wpc = "done" /\ ~tr.failed /\ rpc' = "commit"
          /\ UNCHANGED <<up, ctl, rx, tr, mem, writer>>
       \/ /\ wpc = "done" /\ ~tr.failed /\ "checksum" \in Faults
          /\ EndFails("invalid") /\ writer' = "aborted"
          /\ UNCHANGED <<up, tr>>
       \/ /\ wpc # "done" /\ tr.failed
          /\ mem' = "failed"
          /\ ReceiverDown
          /\ UNCHANGED <<ctl, writer>>
    /\ UNCHANGED <<txVars, bulk, cancels, wpc, opc, loaded, dup, others>>

\* Faulty: the outcome of Close is not looked at.
CommitUnchecked ==
    /\ rpc = "commit"
    /\ writer' \in {"committed", "closeFailed"}
    /\ rx' = "gone" /\ mem' = "completed" /\ rpc' = "read"
    /\ Send(<<State("completed")>>)
    /\ UNCHANGED <<txVars, up, bulk, cancels, tr, wpc, opc, loaded, dup, others>>

\* handleIncomingTransferEnd, closing the writer: it commits, it fails, or
\* it does not answer within TransferCommitTimeout.
Commit ==
    /\ rpc = "commit"
    /\ \/ /\ writer' = "committed"
          /\ rx' = "gone" /\ mem' = "completed" /\ rpc' = "read"
          /\ Send(<<State("completed")>>)
          /\ UNCHANGED tr
       \/ /\ "commit" \in Faults /\ writer' = "closeFailed"
          /\ EndFails("write")
          /\ UNCHANGED tr
       \/ /\ "commit" \in Faults /\ writer' = "closing"
          /\ tr' = [tr EXCEPT !.failed = TRUE]
          /\ mem' = "failed" /\ rpc' = "read"
          /\ Send(<<State("failed"), Nack("write")>>)
          /\ UNCHANGED rx
    /\ UNCHANGED <<txVars, up, bulk, cancels, wpc, opc, loaded, dup, others>>

\* The Close that timed out returns, whatever it did, and Abort follows.
CloseReturnsLate ==
    /\ writer = "closing"
    /\ writer' = "aborted" /\ rx' = "gone"
    /\ UNCHANGED <<txVars, up, bulk, cancels, ctl, tr, wpc, rpc, opc, loaded,
                   dup, mem, others>>

\* handleIncomingCancel
HandleCancel ==
    /\ up.rx /\ rpc = "read" /\ cancels
    /\ cancels' = FALSE
    /\ \/ rx = "open" /\ rx' = "gone" /\ tr' = stopped
       \/ rx # "open" /\ UNCHANGED <<rx, tr>>
    /\ UNCHANGED <<txVars, up, bulk, ctl, wpc, rpc, opc, loaded, dup, writer,
                   mem, others>>

\* The receiver's Run finds the connection closed by the sender, or lost.
ReceiverDisconnected ==
    /\ up.rx /\ rpc = "read"
    /\ ~up.tx \/ "disconnect" \in Faults
    /\ ReceiverDown
    /\ UNCHANGED <<txVars, bulk, cancels, ctl, wpc, opc, loaded, dup, writer,
                   mem, others>>

-----------------------------------------------------------------------------
(* The receiver's worker, and the other transfers of its session. *)

\* runIncomingTransfer takes a chunk; one of a failed transfer is dropped.
WorkerTakes ==
    /\ wpc = "idle" /\ tr.queued > 0
    /\ tr' = [tr EXCEPT !.queued = @ - 1]
    /\ wpc' = IF tr.failed THEN "idle" ELSE "write"
    /\ UNCHANGED <<txVars, up, bulk, cancels, ctl, rx, rpc, opc, loaded, dup,
                   writer, mem, others>>

\* writeIncomingChunk up to the unlock; a transfer that failed during the
\* write does not count the chunk.
WorkerWrites ==
    /\ wpc = "write"
    /\ \/ ~tr.failed /\ tr' = [tr EXCEPT !.written = @ + 1] /\ wpc' = "ack"
          /\ UNCHANGED ctl
       \/ tr.failed /\ wpc' = "idle" /\ UNCHANGED <<tr, ctl>>
       \/ /\ "write" \in Faults
          /\ tr' = stopped
          /\ Send(<<Nack("write")>>)
          /\ wpc' = "idle"
    /\ UNCHANGED <<txVars, up, bulk, cancels, rx, rpc, opc, loaded, dup, writer,
                   mem, others>>

WorkerAcks ==
    /\ wpc = "ack"
    /\ Send(<<Ack(tr.written)>>)
    /\ wpc' = "window"
    /\ UNCHANGED <<txVars, up, bulk, cancels, rx, tr, rpc, opc, loaded, dup,
                   writer, mem, others>>

\* Faulty: no window follows an ack.
WorkerWindowNever ==
    /\ wpc = "window"
    /\ wpc' = "idle"
    /\ UNCHANGED <<txVars, up, bulk, cancels, ctl, rx, tr, rpc, opc, loaded, dup,
                   writer, mem, others>>

WorkerWindow ==
    \/ /\ wpc = "window"
       /\ loaded' = [loaded EXCEPT !.worker = WindowOf(Buffered)]
       /\ wpc' = "send"
       /\ UNCHANGED <<txVars, up, bulk, cancels, ctl, rx, tr, rpc, opc, dup,
                      writer, mem, others>>
    \/ /\ wpc = "send"
       /\ tr' = MarkedBy(loaded.worker)
       /\ Send(<<WindowFrame(loaded.worker)>>)
       /\ wpc' = "idle"
       /\ loaded' = [loaded EXCEPT !.worker = 0]
       /\ UNCHANGED <<txVars, up, bulk, cancels, rx, rpc, opc, dup, writer, mem,
                      others>>

\* runIncomingTransfer after its loop: a failed transfer's writer is aborted
\* (or suspended, which is the same to this module).
WorkerFinishes ==
    /\ wpc = "idle" /\ tr.queued = 0 /\ ~tr.accepting
    /\ wpc' = "done"
    /\ writer' = IF tr.failed THEN "aborted" ELSE writer
    /\ UNCHANGED <<txVars, up, bulk, cancels, ctl, rx, tr, rpc, opc, loaded, dup,
                   mem, others>>

\* Another transfer of the receiver's session buffers a chunk.
OthersBuffer ==
    /\ others < MaxOthers /\ Buffered < ReceiveLimit
    /\ others' = others + 1
    /\ UNCHANGED <<txVars, up, bulk, cancels, ctl, rx, tr, wpc, rpc, opc, loaded,
                   dup, writer, mem>>

\* It writes one, and notifyBlockedWindows reopens this transfer's window.
OthersWrite ==
    /\ others > 0
    /\ others' = others - 1
    /\ IF rx = "open" /\ tr.flowBlocked
       THEN LET w == WindowOf(Buffered - 1) IN
            tr' = MarkedBy(w) /\ Send(<<WindowFrame(w)>>)
       ELSE UNCHANGED <<tr, ctl>>
    /\ UNCHANGED <<txVars, up, bulk, cancels, rx, wpc, rpc, opc, loaded, dup,
                   writer, mem>>

\* It fails, and its worker drops a queued chunk: nothing is notified.
OthersDrop ==
    /\ others > 0
    /\ others' = others - 1
    /\ UNCHANGED <<txVars, up, bulk, cancels, ctl, rx, tr, wpc, rpc, opc, loaded,
                   dup, writer, mem>>

\* CompletedTransferTTL ends, or newer transfers push this one out of memory.
Evict ==
    /\ "evict" \in Faults /\ mem # "none"
    /\ mem' = "none"
    /\ UNCHANGED <<txVars, up, bulk, cancels, ctl, rx, tr, wpc, rpc, opc, loaded,
                   dup, writer, others>>

-----------------------------------------------------------------------------
Sender ==
    \/ SendBegin \/ NextChunk \/ ReserveChunk \/ TransmitChunk \/ FinishSending
    \/ SendEnd \/ waitOutgoingAcked

Monitor == CommitTimeout \/ \E c \in Chunks : AckTimeout(c)

Opener == OpenReturns \/ OpenTimesOut \/ OpenReturnsLate \/ OpenerWindow

ReadLoop ==
    \/ HandleBegin \/ HandleData \/ AckDuplicate \/ HandleEnd \/ EndDrained
    \/ Commit \/ HandleCancel \/ CloseWriter \/ SetFailed

Worker ==
    \/ WorkerTakes \/ WorkerWrites \/ WorkerAcks \/ WorkerWindow \/ WorkerFinishes

Others == OthersBuffer \/ OthersWrite \/ OthersDrop

Next ==
    \/ Sender \/ Monitor \/ HandleControl \/ SenderDisconnected
    \/ ReceiverDisconnected \/ Cancel \/ ContextEnds
    \/ Opener \/ ReadLoop \/ Worker \/ CloseReturnsLate \/ Others \/ Evict

Spec == Init /\ [][Next]_vars

\* Every thread that can move does: the runtime schedules goroutines, timers
\* fire, and a handler's open and close are bounded by their timeouts.  That the
\* application's Write returns is an assumption: writeIncomingChunk gives it no
\* deadline.  The other transfers of the receiver write what they buffer, or
\* drop it; nothing is assumed of cancellations and of faults.
Fairness ==
    /\ WF_vars(Sender) /\ WF_vars(Monitor) /\ WF_vars(HandleControl)
    /\ WF_vars(~up.rx /\ SenderDisconnected)
    /\ WF_vars(~up.tx /\ ReceiverDisconnected)
    /\ WF_vars(Opener) /\ WF_vars(ReadLoop) /\ WF_vars(Worker)
    /\ WF_vars(OthersWrite \/ OthersDrop)

FairSpec == Spec /\ Fairness

-----------------------------------------------------------------------------
Frames == {Begin, End} \cup {Data(c) : c \in Chunks}

Replies ==
    {Ack(n) : n \in 0 .. MaxChunks}
    \cup {Window(n) : n \in 0 .. QueueCap}
    \cup {State(f) : f \in {"completed", "failed"}}
    \cup {Nack(r) : r \in {"unknown", "canceled", "invalid", "write", "flow"}}
    \cup {Missing(a, b) : a \in Chunks, b \in Chunks}

\* The types of the state: in particular the window never goes below zero
\* (the unsigned counters of outgoingTransfer would wrap), the receiver's
\* counters stay within the transfer and its queue within its capacity.
TypeOK ==
    /\ chunkCount \in 0 .. MaxChunks
    /\ up \in [tx : BOOLEAN, rx : BOOLEAN]
    /\ ot \in [pending : SUBSET Chunks, retries : [Chunks -> 0 .. RetryLimit],
               acked : 0 .. MaxChunks, window : 0 .. QueueCap,
               doneSending : BOOLEAN, completed : BOOLEAN, failed : BOOLEAN,
               commitRetries : 0 .. RetryLimit]
    /\ spc \in {"begin", "chunk", "reserve", "wait", "woken", "transmit", "end",
                "sendEnd", "await", "awaitWait", "awaitWoken", "returned"}
    /\ next \in 0 .. MaxChunks
    /\ ctxDone \in BOOLEAN /\ cancels \in BOOLEAN
    /\ result \in {"none", "ok", "error"}
    /\ bulk \in Seq(Frames) /\ ctl \in Seq(Replies)
    /\ rx \in {"none", "opening", "late", "open", "gone"}
    /\ tr \in [accepted : 0 .. MaxChunks, written : 0 .. MaxChunks,
               queued : 0 .. QueueCap, accepting : BOOLEAN, failed : BOOLEAN,
               ending : BOOLEAN, flowBlocked : BOOLEAN]
    /\ wpc \in {"off", "idle", "write", "ack", "window", "send", "done"}
    /\ rpc \in {"read", "dupAck", "drain", "commit", "cleaned", "closed", "stopped"}
    /\ opc \in {"off", "window", "send"}
    /\ loaded \in [{"worker", "opener"} -> 0 .. ReceiveLimit]
    /\ dup \in 0 .. MaxChunks
    /\ writer \in {"none", "open", "committed", "closeFailed", "closing",
                   "aborted"}
    /\ mem \in {"none", "completed", "failed"}
    /\ others \in 0 .. MaxOthers

\* A transfer that reports success was committed by the receiver's writer with
\* every chunk written, whatever was lost, retried or duplicated on the way
\* (waitOutgoingAcked, handleIncomingTransferEnd).
SuccessMeansCommitted ==
    result = "ok" => writer = "committed" /\ tr.written = chunkCount

\* An acknowledgement, on its way or applied, is only ever for chunks that the
\* writer has taken (writeIncomingChunk acks after the write, applyAck).
AckMeansWritten ==
    /\ ot.acked <= tr.written
    /\ \A i \in 1 .. Len(ctl) : ctl[i].type = "ack" => ctl[i].received <= tr.written

\* While the transfer runs, what the sender still waits for is exactly what it
\* has sent above what was acknowledged: no chunk is dropped from pending
\* unacknowledged and none is acknowledged out of order (applyAck).
PendingIsSentUnacked ==
    Registered => ot.pending = ot.acked .. next - (IF spc = "transmit" THEN 0 ELSE 1)

\* The receiver's queue never turns a chunk away: every queued chunk is one the
\* sender still holds as pending, and registerOutgoing bounds those by the
\* queue's capacity, however stale the windows the sender works from.
QueueNeverFull ==
    /\ rpc = "read" /\ bulk # <<>> /\ Head(bulk).type = "data"
    /\ rx = "open" /\ tr.accepting /\ Head(bulk).chunk = tr.accepted
    => tr.queued < QueueCap

\* A transfer that is stopped and whose worker has yet to end, which aborts the
\* writer (runIncomingTransfer).
Ending == tr.failed /\ wpc # "done"

\* What cleanupIncoming, openIncomingTransfer and runIncomingTransfer do together
\* when a session goes down: a writer that is still open belongs to a transfer that
\* is ending, so that no body is left half written.  The exception is a transfer
\* that an opener put into s.incoming after cleanupIncoming and before the state was
\* stored, and that never gets a chunk.
WriterFinalised ==
    ~up.rx /\ writer = "open" => Ending \/ (rx = "open" /\ tr.accepted = 0)

\* Losing the connection leaves no writer open without an owner that will abort or
\* suspend it (Run, cleanupIncoming, openIncomingTransfer).
DisconnectEndsWriter == ~up.rx /\ opc = "off" /\ writer = "open" => Ending

\* What the receiver's writer has come to, for the abstract specification.
BodyOf ==
    IF writer = "committed" THEN "committed"
    ELSE IF writer \in {"closeFailed", "closing", "aborted"} THEN "dropped"
    ELSE "open"

Promise == INSTANCE Delivery WITH
    size <- chunkCount, given <- tr.written, body <- BodyOf, report <- result

\* The seven threads, with their retries, duplicates and failures, implement
\* Delivery: the writer takes each chunk once and in order, its fate is decided
\* once, and the sender's one report of success follows the commit
\* (sendTransfer, writeIncomingChunk, handleIncomingTransferEnd).
ImplementsDelivery == Promise!Spec

\* SendTransfer returns, whatever fails or is cancelled (sendReliableChunk and
\* waitOutgoingAcked are woken), if the other transfers cannot fill the receive
\* buffer on their own, MaxOthers < ReceiveLimit, and the application's Write
\* returns.  Where they can fill it, BlockedWindowReopens fails and this with it.
TransferReturns == <>(spc = "returned")

\* A sender that waits for the window of a transfer blocked by others is woken
\* once those release the receive buffer (notifyBlockedWindows).
BlockedWindowReopens == spc = "wait" ~> spc # "wait"

\* When nothing but a write fails, the session that receives the transfer goes
\* on: the failed write fails only the transfer (handleIncomingTransferData).
WriterFailureKeepsSession == up.rx

\* When nothing fails and chunks are merely sent again after an ack timeout, the
\* sender's session goes on: what the receiver answers to a duplicate never
\* fails more than the transfer (applyAck, applyNack).
RetryKeepsSession == up.tx

=============================================================================
