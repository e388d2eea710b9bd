---------------------------- MODULE SessionWriter ----------------------------
(***************************************************************************)
(* The goroutines around the send queue (writer.go): the writer's own      *)
(* goroutine run, the callers of enqueue (one per item: each frame is      *)
(* enqueued once), the callers of flush, and the session, which closes the *)
(* writer.  They share one mutex and one condition variable; a step is a   *)
(* critical section, from Lock or a return from Wait to Unlock or the next *)
(* Wait.                                                                   *)
(*                                                                         *)
(* waiters is the wait list of the sync.Cond, which Signal serves in       *)
(* arrival order.  A goroutine whose pc is "wait" and that has left the    *)
(* list has been woken and will take the mutex again.                      *)
(***************************************************************************)
EXTENDS SendQueue, FiniteSets

CONSTANTS Flushers,    \* the callers of Session.Flush
          Cancellable  \* the callers whose context is not context.Background

VARIABLES waiters,
          pc,
          writing,       \* the item run holds outside the mutex
          inFlight,
          queueWaiters,
          flushWaiters,
          loaded,        \* what a returning flush has read of flushWaiters
          ctxDone,       \* callers whose context has ended
          expired,       \* items whose EnqueueTimeout has passed
          armed,         \* callers whose AfterFunc has neither run nor been stopped
          released       \* history: how often an item's buffer was given back

goVars == <<waiters, pc, writing, inFlight, queueWaiters, flushWaiters, loaded,
            ctxDone, expired, armed, released>>

vars == <<queueVars, goVars>>

Run == "run"

NoItem == "none"

Threads == {Run} \cup Items \cup Flushers

ASSUME ThreadAssumption == /\ Items \cap Flushers = {}
                           /\ Run \notin Items \cup Flushers
                           /\ NoItem \notin Items
                           /\ Cancellable \subseteq Items \cup Flushers

Parked(t) == \E n \in 1 .. Len(waiters) : waiters[n] = t

Init == /\ QueueInit
        /\ waiters = <<>>
        /\ pc = [t \in Threads |-> IF t = Run THEN "lock" ELSE "start"]
        /\ writing = NoItem
        /\ inFlight = FALSE
        /\ queueWaiters = 0
        /\ flushWaiters = 0
        /\ loaded = [f \in Flushers |-> 0]
        /\ ctxDone = {}
        /\ expired = {}
        /\ armed = {}
        /\ released = [i \in Items |-> 0]

-----------------------------------------------------------------------------
Goto(t, l) == pc' = [pc EXCEPT ![t] = l]

Wait(t) == waiters' = Append(waiters, t)

Signal == waiters' = IF waiters = <<>> THEN <<>> ELSE Tail(waiters)

Broadcast == waiters' = <<>>

(* A function that enqueue gave to time.AfterFunc, or flush to              *)
(* context.AfterFunc, is ready to run.                                      *)
Due(t) == t \in armed /\ t \in expired \cup (Flushers \cap ctxDone)

(* timer.Stop, and the stop function of context.AfterFunc: too late if the  *)
(* function has already been started.                                       *)
StopAfterFunc(t) == armed' = armed \ {t} \/ (Due(t) /\ UNCHANGED armed)

(* releaseItem for every queued item. *)
ReleaseAllQueued ==
  released' = [i \in Items |-> IF Queued(i) THEN released[i] + 1 ELSE released[i]]

(* Faulty variant: controlOnly is looked at only before the wait. *)
EnqueueAcceptUnchecked(i, q) ==
  /\ canEnqueue(size[i]) /\ ~closed
  /\ push(i)
  /\ Signal
  /\ Goto(i, "accepted")
  /\ queueWaiters' = q
  /\ StopAfterFunc(i)
  /\ UNCHANGED released

(* The rest of enqueue from the head of its loop on; q is the number of     *)
(* enqueue calls that wait besides this one.                                *)
EnqueueAccept(i, q) ==
  /\ canEnqueue(size[i]) /\ ~closed /\ Admissible(i)
  /\ push(i)
  /\ Signal
  /\ Goto(i, "accepted")
  /\ queueWaiters' = q
  /\ StopAfterFunc(i)
  /\ UNCHANGED released

EnqueueRefuse(i, q) ==
  /\ \/ closed
     \/ canEnqueue(size[i]) /\ ~Admissible(i)
     \/ ~canEnqueue(size[i]) /\ i \in ctxDone \cup expired
  /\ released' = [released EXCEPT ![i] = @ + 1]
  /\ Goto(i, "refused")
  /\ queueWaiters' = q
  /\ StopAfterFunc(i)
  /\ UNCHANGED <<queueVars, waiters>>

EnqueueWait(i, q) ==
  /\ ~canEnqueue(size[i]) /\ ~closed /\ i \notin ctxDone \cup expired
  /\ Wait(i)
  /\ Goto(i, "wait")
  /\ queueWaiters' = q + 1
  /\ armed' = armed \cup {i}
  /\ UNCHANGED <<queueVars, released>>

EnqueueLoop(i, q) ==
  /\ EnqueueAccept(i, q) \/ EnqueueRefuse(i, q) \/ EnqueueWait(i, q)
  /\ UNCHANGED <<writing, inFlight, flushWaiters, loaded, ctxDone, expired>>

EnqueueStart(i) == /\ pc[i] = "start"
                   /\ Admissible(i)
                   /\ EnqueueLoop(i, queueWaiters)

(* The deadline, which is set before the mutex is taken, has passed by then. *)
EnqueueLate(i) ==
  /\ pc[i] = "start"
  /\ Admissible(i) /\ ~canEnqueue(size[i]) /\ ~closed
  /\ expired' = expired \cup {i}
  /\ released' = [released EXCEPT ![i] = @ + 1]
  /\ Goto(i, "refused")
  /\ UNCHANGED <<queueVars, waiters, writing, inFlight, queueWaiters, flushWaiters,
                 loaded, ctxDone, armed>>

EnqueueTurnedAway(i) ==
  /\ pc[i] = "start"
  /\ ~Admissible(i)
  /\ released' = [released EXCEPT ![i] = @ + 1]
  /\ Goto(i, "refused")
  /\ UNCHANGED <<queueVars, waiters, writing, inFlight, queueWaiters, flushWaiters,
                 loaded, ctxDone, expired, armed>>

EnqueueWoken(i) == /\ pc[i] = "wait" /\ ~Parked(i)
                   /\ EnqueueLoop(i, queueWaiters - 1)

(* The deadline of a waiting call passes. *)
DeadlinePasses(i) ==
  /\ pc[i] = "wait" /\ i \notin expired
  /\ expired' = expired \cup {i}
  /\ UNCHANGED <<queueVars, waiters, pc, writing, inFlight, queueWaiters, flushWaiters,
                 loaded, ctxDone, armed, released>>

(* Faulty variant: the function wakes nobody. *)
AfterFuncSilent(t) ==
  /\ Due(t)
  /\ armed' = armed \ {t}
  /\ UNCHANGED <<queueVars, waiters, pc, writing, inFlight, queueWaiters, flushWaiters,
                 loaded, ctxDone, expired, released>>

(* The function of a deadline or of a context, which wakes everyone. *)
AfterFunc(t) ==
  /\ Due(t)
  /\ armed' = armed \ {t}
  /\ Broadcast
  /\ UNCHANGED <<queueVars, pc, writing, inFlight, queueWaiters, flushWaiters, loaded,
                 ctxDone, expired, released>>

-----------------------------------------------------------------------------
(* flush, up to its return or its next Wait.  The deferred functions run in *)
(* reverse order, so the mutex is given back before flushWaiters is         *)
(* decremented: a load and a store that any critical section may separate.  *)
FlushLoop(f) ==
  /\ IF (queuedItems > 0 \/ inFlight) /\ ~closed /\ f \notin ctxDone
     THEN Wait(f) /\ Goto(f, "wait")
     ELSE UNCHANGED waiters /\ Goto(f, "return")
  /\ UNCHANGED <<queueVars, writing, inFlight, queueWaiters, loaded, ctxDone, expired, released>>

FlushStart(f) == /\ pc[f] = "start"
                 /\ armed' = armed \cup {f}
                 /\ flushWaiters' = flushWaiters + 1
                 /\ FlushLoop(f)

FlushWoken(f) == /\ pc[f] = "wait" /\ ~Parked(f)
                 /\ UNCHANGED <<flushWaiters, armed>>
                 /\ FlushLoop(f)

FlushLoad(f) ==
  /\ pc[f] = "return"
  /\ loaded' = [loaded EXCEPT ![f] = flushWaiters]
  /\ Goto(f, "store")
  /\ UNCHANGED <<queueVars, waiters, writing, inFlight, queueWaiters, flushWaiters,
                 ctxDone, expired, armed, released>>

FlushStore(f) ==
  /\ pc[f] = "store"
  /\ flushWaiters' = loaded[f] - 1
  /\ StopAfterFunc(f)
  /\ Goto(f, "done")
  /\ UNCHANGED <<queueVars, waiters, writing, inFlight, queueWaiters, loaded,
                 ctxDone, expired, released>>

(* A context ends.  flush has an AfterFunc on its own; enqueue looks at its *)
(* own only when something else wakes it.                                   *)
ContextDone(t) ==
  /\ pc[t] \notin {"accepted", "refused", "done"} /\ t \notin ctxDone
  /\ ctxDone' = ctxDone \cup {t}
  /\ UNCHANGED <<queueVars, waiters, pc, writing, inFlight, queueWaiters, flushWaiters,
                 loaded, expired, armed, released>>

-----------------------------------------------------------------------------
RunAwake == pc[Run] = "lock" \/ (pc[Run] = "wait" /\ ~Parked(Run))

RunWait == /\ RunAwake
           /\ queuedItems = 0 /\ ~closed
           /\ Wait(Run)
           /\ Goto(Run, "wait")
           /\ UNCHANGED <<queueVars, writing, inFlight, queueWaiters, flushWaiters,
                          loaded, ctxDone, expired, armed, released>>

RunExit == /\ RunAwake
           /\ queuedItems = 0 /\ closed
           /\ Goto(Run, "exited")
           /\ UNCHANGED <<queueVars, waiters, writing, inFlight, queueWaiters, flushWaiters,
                          loaded, ctxDone, expired, armed, released>>

RunPop == /\ RunAwake
          /\ queuedItems > 0
          /\ \E i \in Items : popLocked(i) /\ writing' = i
          /\ inFlight' = TRUE
          /\ IF queueWaiters > 0 THEN Broadcast ELSE UNCHANGED waiters
          /\ Goto(Run, "write")
          /\ UNCHANGED <<queueWaiters, flushWaiters, loaded, ctxDone, expired, armed, released>>

(* Faulty variant: the item is given back only after a successful write. *)
RunWriteKeepsFailed(ok) ==
  /\ pc[Run] = "write"
  /\ released' = IF ok THEN [released EXCEPT ![writing] = @ + 1] ELSE released
  /\ writing' = NoItem
  /\ Goto(Run, IF ok THEN "written" ELSE "failed")
  /\ UNCHANGED <<queueVars, waiters, inFlight, queueWaiters, flushWaiters, loaded,
                 ctxDone, expired, armed>>

(* write and releaseItem, outside the mutex; the transport takes the frame *)
(* or fails.                                                                *)
RunWrite(ok) ==
  /\ pc[Run] = "write"
  /\ released' = [released EXCEPT ![writing] = @ + 1]
  /\ writing' = NoItem
  /\ Goto(Run, IF ok THEN "written" ELSE "failed")
  /\ UNCHANGED <<queueVars, waiters, inFlight, queueWaiters, flushWaiters, loaded,
                 ctxDone, expired, armed>>

(* Faulty variant: the wrong counter decides about the wake-up. *)
RunWrittenWrongCount ==
  /\ pc[Run] = "written"
  /\ inFlight' = FALSE
  /\ IF queueWaiters > 0 THEN Broadcast ELSE UNCHANGED waiters
  /\ Goto(Run, "lock")
  /\ UNCHANGED <<queueVars, writing, queueWaiters, flushWaiters, loaded, ctxDone, expired, armed, released>>

RunWritten ==
  /\ pc[Run] = "written"
  /\ inFlight' = FALSE
  /\ IF flushWaiters > 0 THEN Broadcast ELSE UNCHANGED waiters
  /\ Goto(Run, "lock")
  /\ UNCHANGED <<queueVars, writing, queueWaiters, flushWaiters, loaded, ctxDone, expired, armed, released>>

(* Faulty variant: what is still queued after a failed write stays there. *)
RunFailedKeepsQueue ==
  /\ pc[Run] = "failed"
  /\ inFlight' = FALSE
  /\ closed' = TRUE
  /\ Broadcast
  /\ Goto(Run, "exited")
  /\ UNCHANGED <<queue, queuedItems, queuedBytes, controlOnly, scheduleAt, writing,
                 queueWaiters, flushWaiters, loaded, ctxDone, expired, armed,
                 released>>

RunFailed ==
  /\ pc[Run] = "failed"
  /\ inFlight' = FALSE
  /\ closeQueue
  /\ ReleaseAllQueued
  /\ Broadcast
  /\ Goto(Run, "exited")
  /\ UNCHANGED <<writing, queueWaiters, flushWaiters, loaded, ctxDone, expired, armed>>

-----------------------------------------------------------------------------
(* Faulty variant: beginClosing empties the queue without a Broadcast. *)
BeginClosingSilent ==
  /\ ~controlOnly
  /\ beginClosing
  /\ ReleaseAllQueued
  /\ UNCHANGED <<waiters, pc, writing, inFlight, queueWaiters, flushWaiters, loaded,
                 ctxDone, expired, armed>>

(* The session's calls.  A second close only wakes the waiters. *)
BeginClosing ==
  /\ ~controlOnly
  /\ beginClosing
  /\ ReleaseAllQueued
  /\ Broadcast
  /\ UNCHANGED <<pc, writing, inFlight, queueWaiters, flushWaiters, loaded, ctxDone,
                 expired, armed>>

Close ==
  /\ IF closed THEN UNCHANGED <<queueVars, released>> ELSE closeQueue /\ ReleaseAllQueued
  /\ Broadcast
  /\ UNCHANGED <<pc, writing, inFlight, queueWaiters, flushWaiters, loaded, ctxDone,
                 expired, armed>>

RunStep == RunWait \/ RunExit \/ RunPop \/ (\E ok \in BOOLEAN : RunWrite(ok))
           \/ RunWritten \/ RunFailed

EnqueueStep(i) == \/ EnqueueStart(i) \/ EnqueueLate(i) \/ EnqueueTurnedAway(i)
                  \/ EnqueueWoken(i)

FlushStep(f) == FlushStart(f) \/ FlushWoken(f) \/ FlushLoad(f) \/ FlushStore(f)

Next == \/ RunStep
        \/ \E i \in Items : EnqueueStep(i) \/ DeadlinePasses(i)
        \/ \E f \in Flushers : FlushStep(f)
        \/ \E t \in Cancellable : ContextDone(t)
        \/ \E t \in Items \cup Flushers : AfterFunc(t)
        \/ BeginClosing
        \/ Close

Spec == Init /\ [][Next]_vars

(* Goroutines that can run do run, those of the AfterFuncs included; a      *)
(* write ends, since WriteTimeout bounds it; the deadline of a waiting      *)
(* enqueue passes.  Nobody has to close the writer, end a context or call   *)
(* enqueue or flush.                                                        *)
Fairness == /\ WF_vars(RunStep)
            /\ \A i \in Items : /\ WF_vars(EnqueueWoken(i))
                                /\ WF_vars(DeadlinePasses(i))
            /\ \A f \in Flushers : WF_vars(FlushWoken(f) \/ FlushLoad(f) \/ FlushStore(f))
            /\ \A t \in Items \cup Flushers : WF_vars(AfterFunc(t))

FairSpec == Spec /\ Fairness

-----------------------------------------------------------------------------
TypeOK == /\ QueueTypeOK
          /\ waiters \in Seq(Threads)
          /\ pc[Run] \in {"lock", "wait", "write", "written", "failed", "exited"}
          /\ \A i \in Items : pc[i] \in {"start", "wait", "accepted", "refused"}
          /\ \A f \in Flushers : pc[f] \in {"start", "wait", "return", "store", "done"}
          /\ writing \in Items \cup {NoItem}
          /\ inFlight \in BOOLEAN
          /\ queueWaiters \in Nat
          /\ ctxDone \subseteq Cancellable
          /\ expired \subseteq Items
          /\ armed \subseteq Items \cup Flushers
          /\ released \in [Items -> Nat]

(* The buffer of a frame goes back to its pool, and its done channel is     *)
(* answered, exactly once: not before the frame has left the writer, and    *)
(* not twice when a failed write, a close and a refusal meet.               *)
ReleasedOnce ==
  \A i \in Items :
    released[i] = IF \/ pc[i] = "refused"
                     \/ pc[i] = "accepted" /\ ~Queued(i) /\ writing # i
                  THEN 1 ELSE 0

(* A frame that no queue has room for. *)
Oversize(i) == MaxBytes > 0 /\ size[i] > MaxBytes

(* run sleeps although something is queued. *)
Stranded == queuedItems > 0 /\ Parked(Run)

(* The call has returned because its deadline passed or its context ended. *)
GivenUp(i) == pc[i] = "refused" /\ i \in expired \cup ctxDone

(* Queued work does not wait for a writer that sleeps: enqueue's single     *)
(* Signal reaches run although enqueue and flush wait on the same condition *)
(* variable.  The one exception is an enqueue of a frame larger than        *)
(* MaxBytes, which waits although the queue is empty and can take the       *)
(* Signal.  As long as it waits, its timer will wake run; but if it has     *)
(* returned at its deadline or for its context, which stops the timer and   *)
(* wakes nobody, run sleeps until another call happens to wake it.          *)
WriterAwake ==
  Stranded => \E i \in Items :
                Oversize(i) /\ ((pc[i] = "wait" /\ i \in armed) \/ GivenUp(i))

(* What an oversize call that gave up can leave behind for good: a writer   *)
(* that sleeps over queued work.                                            *)
LeftStranded == Stranded /\ \E i \in Items : Oversize(i) /\ GivenUp(i)

(* flushWaiters, which run reads to decide whether to wake flush, counts    *)
(* the flush calls that are between their increment and their decrement.    *)
FlushCountExact ==
  flushWaiters = Cardinality({f \in Flushers : pc[f] \in {"wait", "return", "store"}})

(* A frame enqueue has accepted is eventually written or given back, unless *)
(* the writer is left asleep for good by an oversize call that gave up.     *)
AcceptedResolved ==
  \A i \in Items : pc[i] = "accepted" ~> (released[i] = 1 \/ []LeftStranded)

(* enqueue returns, with room, with an error or at its deadline. *)
EnqueueReturns == \A i \in Items : pc[i] = "wait" ~> pc[i] \in {"accepted", "refused"}

(* flush returns once the writer has drained, with no help from its         *)
(* context, unless the writer is left asleep for good by an oversize call   *)
(* that gave up.                                                            *)
FlushReturns == \A f \in Flushers : pc[f] = "wait" ~> (pc[f] = "done" \/ []LeftStranded)
=============================================================================
