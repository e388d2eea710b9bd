------------------------------- MODULE Resume -------------------------------
(***************************************************************************)
(* One transfer over successive sessions (src/internal/etp/session.go and  *)
(* incoming.go): a connection is lost, the receiver's session suspends the *)
(* writer, and ResumeTransfer goes on with it in a session of a new        *)
(* connection, from the chunk that the receiver's resume store names.  A   *)
(* session of the receiver may outlive its connection, so that its worker  *)
(* still has the writer when the next one asks for it; a store may answer  *)
(* after its timeout, and an answer may find a later call of               *)
(* ResumeTransfer.                                                         *)
(*                                                                         *)
(* Within a connection frames arrive, chunks in order and the rest in any: *)
(* windows, retries and write errors are in Transfer.                      *)
(***************************************************************************)
EXTENDS Integers, Sequences

CONSTANTS
    ChunkCount,     \* chunks of the body
    MaxSessions,    \* bound: connections
    MaxResumes      \* bound: calls of ResumeTransfer

VARIABLES
    cur,        \* the connection the sender uses, the latest
    spc,        \* the sender's call: "wait" for the decision, "send", "commit",
                \* or "idle" when it has returned
    nextChunk,  \* the next chunk the sender reads
    ot,         \* the outgoing transfer: failed, completed, and the decision
    resumes,    \* calls of ResumeTransfer
    report,     \* what the sender's application ends with
    link,       \* per connection: is it there
    txUp,       \* does the sender's session on the latest connection run
    high,       \* per connection: how many Resume and Cancel frames are on their way
    low,        \* per connection: Data and End frames on their way
    back,       \* per connection: answers on their way
    rl,         \* per receiving session: its read loop
    store,      \* per receiving session: the call of the resume store
    tr,         \* per receiving session: the incoming transfer
    wpc,        \* per receiving session: the transfer's worker
    body,       \* the application's writer
    written     \* the chunks the writer has taken

txVars == <<cur, spc, nextChunk, ot, resumes, report, txUp>>
rxVars == <<rl, store, tr, wpc, body, written>>
vars == <<cur, spc, nextChunk, ot, resumes, report, link, txUp, high, low, back,
          rl, store, tr, wpc, body, written>>

Sessions == 1..MaxSessions
Chunks == 0..ChunkCount - 1
End == ChunkCount           \* TransferEnd, behind the last chunk
Undecided == -1

Accepted(n) == [flag |-> "accepted", next |-> n]
Answer(flag) == [flag |-> flag, next |-> 0]

\* registerOutgoing
freshOutgoing == [failed |-> FALSE, completed |-> FALSE, resume |-> Undecided]

\* newIncomingTransfer, the counters set to the chunk n
incomingAt(n) ==
    [live |-> TRUE, accepted |-> n, queue |-> <<>>, closed |-> FALSE,
     failed |-> FALSE, suspend |-> FALSE]

noTransfer == [incomingAt(0) EXCEPT !.live = FALSE]

\* The first session has begun the transfer: the receiver's writer is open.
Init ==
    /\ cur = 1 /\ spc = "send" /\ nextChunk = 0 /\ ot = freshOutgoing
    /\ resumes = 0 /\ report = "none" /\ txUp = TRUE
    /\ link = [k \in Sessions |-> k = 1]
    /\ high = [k \in Sessions |-> [resume |-> 0, cancel |-> 0]]
    /\ low = [k \in Sessions |-> <<>>]
    /\ back = [k \in Sessions |-> <<>>]
    /\ rl = [k \in Sessions |-> IF k = 1 THEN "read" ELSE "none"]
    /\ store = [k \in Sessions |-> "none"]
    /\ tr = [k \in Sessions |-> IF k = 1 THEN incomingAt(0) ELSE noTransfer]
    /\ wpc = [k \in Sessions |-> IF k = 1 THEN "idle" ELSE "none"]
    /\ body = "open" /\ written = <<>>

\* A frame sent into a connection that is gone is lost.
Put(queue, k, frame) ==
    queue' = IF link[k] THEN [queue EXCEPT ![k] = Append(@, frame)] ELSE queue

PutHigh(k, frame) ==
    high' = IF link[k] THEN [high EXCEPT ![k][frame] = @ + 1] ELSE high

-----------------------------------------------------------------------------
(* The sender. *)

\* sendTransferBody
SendChunk ==
    /\ spc = "send" /\ ~ot.failed /\ txUp
    /\ Put(low, cur, nextChunk)
    /\ IF nextChunk = End
       THEN spc' = "commit" /\ UNCHANGED nextChunk
       ELSE nextChunk' = nextChunk + 1 /\ UNCHANGED spc
    /\ UNCHANGED <<cur, ot, resumes, report, txUp, link, high, back, rxVars>>

\* handleIncomingTransferState; without an outgoing transfer of that id the answer
\* goes nowhere.
HandleState ==
    /\ txUp /\ back[cur] # <<>>
    /\ back' = [back EXCEPT ![cur] = Tail(@)]
    /\ LET state == Head(back[cur]) IN
       ot' = IF spc = "idle" THEN ot
             ELSE IF state.flag = "completed" THEN [ot EXCEPT !.completed = TRUE]
             ELSE IF state.flag = "accepted" THEN [ot EXCEPT !.resume = state.next]
             ELSE [ot EXCEPT !.failed = TRUE]
    /\ UNCHANGED <<cur, spc, nextChunk, resumes, report, txUp, link, high, low, rxVars>>

\* The call returns an error; unregisterOutgoing follows.
CallFails ==
    /\ spc # "idle" /\ ot.failed
    /\ spc' = "idle"
    /\ UNCHANGED <<cur, nextChunk, ot, resumes, report, txUp, link, high, low, back, rxVars>>

\* waitOutgoingAcked
CallSucceeds ==
    /\ spc = "commit" /\ ~ot.failed /\ ot.completed
    /\ spc' = "idle" /\ report' = "ok"
    /\ UNCHANGED <<cur, nextChunk, ot, resumes, txUp, link, high, low, back, rxVars>>

\* The caller's context ends; no frame says so.
ContextEnds ==
    /\ spc # "idle" /\ ~ot.failed
    /\ ot' = [ot EXCEPT !.failed = TRUE]
    /\ UNCHANGED <<cur, spc, nextChunk, resumes, report, txUp, link, high, low, back, rxVars>>

GiveUp ==
    /\ spc = "idle" /\ report = "none"
    /\ report' = "error"
    /\ UNCHANGED <<cur, spc, nextChunk, ot, resumes, txUp, link, high, low, back, rxVars>>

\* ResumeTransfer and sendResumedTransfer up to the wait for the decision
ResumeTransfer ==
    /\ spc = "idle" /\ report = "none" /\ txUp /\ resumes < MaxResumes
    /\ resumes' = resumes + 1
    /\ ot' = freshOutgoing
    /\ spc' = "wait"
    /\ PutHigh(cur, "resume")
    /\ UNCHANGED <<cur, nextChunk, report, txUp, link, low, back, rxVars>>

\* waitResumeDecision returns; the application opens its reader at the offset,
\* or cannot, and the partial data is to be deleted.
OpenReader ==
    /\ spc = "wait" /\ ~ot.failed /\ ot.resume # Undecided
    /\ \/ /\ spc' = "send" /\ nextChunk' = ot.resume
          /\ UNCHANGED high
       \/ /\ spc' = "idle" /\ PutHigh(cur, "cancel")
          /\ UNCHANGED nextChunk
    /\ UNCHANGED <<cur, ot, resumes, report, txUp, link, low, back, rxVars>>

\* The sender's Run finds the connection lost: failOutgoing.
SenderDown ==
    /\ txUp /\ ~link[cur] /\ back[cur] = <<>>
    /\ txUp' = FALSE
    /\ ot' = [ot EXCEPT !.failed = TRUE]
    /\ UNCHANGED <<cur, spc, nextChunk, resumes, report, link, high, low, back, rxVars>>

\* The connection is lost, with any number of the last frames on their way.
LinkLost ==
    /\ link[cur]
    /\ link' = [link EXCEPT ![cur] = FALSE]
    /\ \E r \in 0..high[cur].resume, c \in 0..high[cur].cancel,
          l \in 0..Len(low[cur]), b \in 0..Len(back[cur]) :
        /\ high' = [high EXCEPT ![cur] = [resume |-> r, cancel |-> c]]
        /\ low' = [low EXCEPT ![cur] = SubSeq(@, 1, l)]
        /\ back' = [back EXCEPT ![cur] = SubSeq(@, 1, b)]
    /\ UNCHANGED <<txVars, rxVars>>

\* The sender's application connects again; both ends start a session.
Reconnect ==
    /\ ~txUp /\ spc = "idle" /\ report = "none" /\ cur < MaxSessions
    /\ cur' = cur + 1 /\ txUp' = TRUE
    /\ link' = [link EXCEPT ![cur + 1] = TRUE]
    /\ rl' = [rl EXCEPT ![cur + 1] = "read"]
    /\ UNCHANGED <<spc, nextChunk, ot, resumes, report, high, low, back, store, tr,
                   wpc, body, written>>

-----------------------------------------------------------------------------
(* The read loop of the receiver's session k. *)

ReadsLow(k, frame) ==
    /\ rl[k] = "read" /\ low[k] # <<>> /\ Head(low[k]) = frame
    /\ low' = [low EXCEPT ![k] = Tail(@)]

ReadsHigh(k, frame) ==
    /\ rl[k] = "read" /\ high[k][frame] > 0
    /\ high' = [high EXCEPT ![k][frame] = @ - 1]

\* handleIncomingTransferData, the chunk in order: it is put into the queue
queued(t, c) == [t EXCEPT !.accepted = c + 1, !.queue = Append(@, c)]

\* handleIncomingTransferData.  Frames are neither lost nor repeated within a
\* connection, so that only the next chunk comes; what any other is answered with
\* is in Transfer.
HandleData(k) ==
    /\ \E c \in Chunks :
        /\ ReadsLow(k, c)
        /\ tr' = IF tr[k].live /\ c = tr[k].accepted
                 THEN [tr EXCEPT ![k] = queued(@, c)]
                 ELSE tr
    /\ UNCHANGED <<txVars, link, high, back, rl, store, wpc, body, written>>

\* handleIncomingTransferEnd up to the wait for the worker
HandleEnd(k) ==
    /\ ReadsLow(k, End)
    /\ LET complete == tr[k].live /\ tr[k].accepted = ChunkCount
       IN  /\ tr' = IF complete THEN [tr EXCEPT ![k].closed = TRUE] ELSE tr
           /\ rl' = IF complete THEN [rl EXCEPT ![k] = "drain"] ELSE rl
    /\ UNCHANGED <<txVars, link, high, back, store, wpc, body, written>>

\* handleIncomingTransferEnd, when the worker is done: the writer is closed, or
\* cannot be, or does not answer within TransferCommitTimeout.
Commit(k) ==
    /\ rl[k] = "drain" /\ wpc[k] = "done"
    /\ rl' = [rl EXCEPT ![k] = "read"]
    /\ \/ /\ body' = "committed" /\ Put(back, k, Answer("completed"))
          /\ tr' = [tr EXCEPT ![k].live = FALSE]
          /\ UNCHANGED wpc
       \/ /\ body' = "dropped" /\ Put(back, k, Answer("failed"))
          /\ tr' = [tr EXCEPT ![k].live = FALSE]
          /\ UNCHANGED wpc
       \/ /\ wpc' = [wpc EXCEPT ![k] = "closing"] /\ Put(back, k, Answer("failed"))
          /\ tr' = [tr EXCEPT ![k].failed = TRUE]
          /\ UNCHANGED body
    /\ UNCHANGED <<txVars, link, high, low, store, written>>

\* The Close that timed out returns, whatever it did, and Abort follows.
CloseReturnsLate(k) ==
    /\ wpc[k] = "closing"
    /\ wpc' = [wpc EXCEPT ![k] = "done"]
    /\ tr' = [tr EXCEPT ![k].live = FALSE]
    /\ body' = "dropped"
    /\ UNCHANGED <<txVars, link, high, low, back, rl, store, written>>

\* tr.stop and tr.suspend
stopped(t) == [t EXCEPT !.failed = TRUE, !.closed = TRUE]
suspended(t) == [stopped(t) EXCEPT !.suspend = TRUE]

\* handleIncomingCancel
HandleCancel(k) ==
    /\ ReadsHigh(k, "cancel")
    /\ tr' = IF tr[k].live THEN [tr EXCEPT ![k] = [stopped(@) EXCEPT !.live = FALSE]]
             ELSE tr
    /\ UNCHANGED <<txVars, link, low, back, rl, store, wpc, body, written>>

\* handleIncomingTransferResume up to the call of the store: while this session
\* has the transfer, or a store call that never returned, the answer is no.
HandleResume(k) ==
    /\ ReadsHigh(k, "resume")
    /\ IF tr[k].live \/ store[k] # "none"
       THEN Put(back, k, Answer("rejected")) /\ UNCHANGED <<rl, store>>
       ELSE /\ rl' = [rl EXCEPT ![k] = "load"]
            /\ store' = [store EXCEPT ![k] = "call"]
            /\ UNCHANGED back
    /\ UNCHANGED <<txVars, link, low, tr, wpc, body, written>>

\* handleIncomingTransferResume, the decision accepted: the transfer goes on with
\* the store's writer, unless the answer meets a connection found lost.
AcceptResume(k) ==
    \/ /\ tr' = [tr EXCEPT ![k] = incomingAt(Len(written))]
       /\ rl' = [rl EXCEPT ![k] = "read"]
       /\ Put(back, k, Accepted(Len(written)))
    \/ /\ ~link[k]
       /\ tr' = [tr EXCEPT ![k] = [stopped(incomingAt(Len(written))) EXCEPT !.live = FALSE]]
       /\ rl' = [rl EXCEPT ![k] = "ended"]
       /\ UNCHANGED back

\* ResumeIncoming of the application's store: it hands out a writer that was
\* suspended and that nobody has been given since, with the chunks it has.
StoreHasWriter == body = "suspended"

\* loadResumeDecision and what follows: the store accepts; it hands out a writer
\* with a decision that is turned down; it hands out nothing.
StoreAnswers(k) ==
    /\ rl[k] = "load"
    /\ store' = [store EXCEPT ![k] = "none"]
    /\ \/ /\ StoreHasWriter /\ body' = "open"
          /\ wpc' = [wpc EXCEPT ![k] = "idle"]
          /\ AcceptResume(k)
       \/ /\ StoreHasWriter /\ body' = "dropped"
          /\ rl' = [rl EXCEPT ![k] = "read"]
          /\ Put(back, k, Answer("rejected"))
          /\ UNCHANGED <<tr, wpc>>
       \/ /\ rl' = [rl EXCEPT ![k] = "read"]
          /\ Put(back, k, Answer("rejected"))
          /\ UNCHANGED <<tr, wpc, body>>
    /\ UNCHANGED <<txVars, link, high, low, written>>

\* TransferOpenTimeout; the opening stays reserved.
StoreTimesOut(k) ==
    /\ rl[k] = "load"
    /\ store' = [store EXCEPT ![k] = "late"]
    /\ rl' = [rl EXCEPT ![k] = "read"]
    /\ Put(back, k, Answer("rejected"))
    /\ UNCHANGED <<txVars, link, high, low, tr, wpc, body, written>>

\* The store returns to nobody: a writer it hands out is aborted.
StoreAnswersLate(k) ==
    /\ store[k] = "late"
    /\ store' = [store EXCEPT ![k] = "none"]
    /\ \/ StoreHasWriter /\ body' = "dropped"
       \/ UNCHANGED body
    /\ UNCHANGED <<txVars, link, high, low, back, rl, tr, wpc, written>>

\* Run finds the connection lost: cleanupIncoming, preserving for resume.
ReceiverDown(k) ==
    /\ rl[k] = "read" /\ ~link[k] /\ high[k] = [resume |-> 0, cancel |-> 0] /\ low[k] = <<>>
    /\ rl' = [rl EXCEPT ![k] = "ended"]
    /\ tr' = IF tr[k].live THEN [tr EXCEPT ![k] = [suspended(@) EXCEPT !.live = FALSE]]
             ELSE tr
    /\ UNCHANGED <<txVars, link, high, low, back, store, wpc, body, written>>

-----------------------------------------------------------------------------
(* The worker of the receiver's session k. *)

\* runIncomingTransfer takes a chunk; one of a failed transfer is dropped.
WorkerTakes(k) ==
    /\ wpc[k] = "idle" /\ tr[k].queue # <<>>
    /\ IF tr[k].failed
       THEN /\ tr' = [tr EXCEPT ![k].queue = Tail(@)]
            /\ UNCHANGED wpc
       ELSE wpc' = [wpc EXCEPT ![k] = "write"] /\ UNCHANGED tr
    /\ UNCHANGED <<txVars, link, high, low, back, rl, store, body, written>>

\* writeIncomingChunk: the writer takes the chunk, also one whose transfer has
\* ended in the meantime, unless it heeds the context that ended with it.
WorkerWrites(k) ==
    /\ wpc[k] = "write"
    /\ wpc' = [wpc EXCEPT ![k] = "idle"]
    /\ tr' = [tr EXCEPT ![k].queue = Tail(@)]
    /\ \/ written' = Append(written, Head(tr[k].queue))
       \/ tr[k].failed /\ UNCHANGED written
    /\ UNCHANGED <<txVars, link, high, low, back, rl, store, body>>

\* Faulty: the writer is suspended while the last write is still in progress.
WorkerFinishesEarly(k) ==
    /\ wpc[k] \in {"idle", "write"} /\ tr[k].closed /\ body = "open"
    /\ body' = IF ~tr[k].failed THEN body
               ELSE IF tr[k].suspend THEN "suspended" ELSE "dropped"
    /\ wpc' = IF wpc[k] = "idle" /\ tr[k].queue = <<>>
              THEN [wpc EXCEPT ![k] = "done"] ELSE wpc
    /\ UNCHANGED <<txVars, link, high, low, back, rl, store, tr, written>>

\* runIncomingTransfer, the queue closed and empty
WorkerFinishes(k) ==
    /\ wpc[k] = "idle" /\ tr[k].closed /\ tr[k].queue = <<>>
    /\ wpc' = [wpc EXCEPT ![k] = "done"]
    /\ body' = IF ~tr[k].failed THEN body
               ELSE IF tr[k].suspend THEN "suspended" ELSE "dropped"
    /\ UNCHANGED <<txVars, link, high, low, back, rl, store, tr, written>>

-----------------------------------------------------------------------------
Sender ==
    \/ SendChunk \/ HandleState \/ CallFails \/ CallSucceeds \/ ContextEnds
    \/ GiveUp \/ ResumeTransfer \/ OpenReader \/ SenderDown \/ Reconnect

Receiver(k) ==
    \/ HandleData(k) \/ HandleEnd(k) \/ Commit(k) \/ CloseReturnsLate(k)
    \/ HandleCancel(k)
    \/ HandleResume(k) \/ StoreAnswers(k) \/ StoreTimesOut(k)
    \/ StoreAnswersLate(k) \/ ReceiverDown(k)
    \/ WorkerTakes(k) \/ WorkerWrites(k) \/ WorkerFinishes(k)

Next == Sender \/ LinkLost \/ \E k \in Sessions : Receiver(k)

Spec == Init /\ [][Next]_vars

-----------------------------------------------------------------------------
\* The types of the state
TypeOK ==
    /\ cur \in Sessions
    /\ spc \in {"wait", "send", "commit", "idle"}
    /\ nextChunk \in 0..ChunkCount
    /\ ot \in [failed : BOOLEAN, completed : BOOLEAN, resume : -1..ChunkCount]
    /\ resumes \in 0..MaxResumes
    /\ report \in {"none", "ok", "error"}
    /\ txUp \in BOOLEAN
    /\ \A k \in Sessions :
        /\ link[k] \in BOOLEAN
        /\ rl[k] \in {"none", "read", "load", "drain", "ended"}
        /\ store[k] \in {"none", "call", "late"}
        /\ wpc[k] \in {"none", "idle", "write", "done", "closing"}
        /\ tr[k].accepted \in 0..ChunkCount
    /\ body \in {"open", "suspended", "committed", "dropped"}
    /\ Len(written) <= ChunkCount

\* Who may still write to the writer or close it
Holders == {k \in Sessions : wpc[k] \in {"idle", "write", "closing"} \/ rl[k] = "drain"}

\* The writer has been given the body's chunks in order.
InOrder == \A i \in 1..Len(written) : written[i] = i - 1

\* What Delivery promises, of the body over all its sessions: chunks out of order
\* are more than it has, and an open writer that two sessions hold, or none, is no
\* state of a body.
Given == IF InOrder THEN Len(written) ELSE ChunkCount + 1

BodyOf ==
    IF body = "suspended" THEN "open"
    ELSE IF body = "open" /\ ~\E k \in Sessions : Holders = {k} THEN "astray"
    ELSE body

Promise == INSTANCE Delivery WITH size <- ChunkCount, given <- Given, body <- BodyOf

\* A transfer that ResumeTransfer carries on over later connections implements
\* Delivery: runIncomingTransfer suspends a writer only when it is through with it,
\* loadResumeDecision's timeout leaves it with one session or with none, and
\* success is reported of a committed body
ResumeDelivers == Promise!Spec

=============================================================================
