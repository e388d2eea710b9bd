--------------------------- MODULE SendQueueBypass ---------------------------
(***************************************************************************)
(* The send queue under any sequence of its operations, with a history     *)
(* variable that counts how often the frame at the head of a queue has     *)
(* been overtaken by frames of other priorities.                           *)
(***************************************************************************)
EXTENDS SendQueue, FiniteSets

VARIABLE skipped  \* skipped[p]: frames sent since queue[p] last moved or was empty

bypassVars == <<queueVars, skipped>>

BypassInit == QueueInit /\ skipped = [p \in Priorities |-> 0]

Enqueue(i) == /\ ~closed
              /\ Admissible(i)
              /\ canEnqueue(size[i])
              /\ push(i)
              /\ UNCHANGED skipped

Pop(i) == /\ popLocked(i)
          /\ skipped' = [p \in Priorities |->
                           IF p = Rank(i) \/ queue[p] = <<>> THEN 0 ELSE skipped[p] + 1]

BypassBeginClosing == beginClosing /\ skipped' = [p \in Priorities |-> 0]

BypassClose == ~closed /\ closeQueue /\ skipped' = [p \in Priorities |-> 0]

BypassNext ==
    \/ \E i \in Items : Enqueue(i) \/ Pop(i)
    \/ BypassBeginClosing \/ BypassClose

BypassSpec == BypassInit /\ [][BypassNext]_bypassVars

-----------------------------------------------------------------------------
SlotsOf(p) == {s \in Slots : writerPrioritySchedule[s] = p}

(* No priority starves and the weights of writerPrioritySchedule are        *)
(* honoured: the frame at the head of a queue is overtaken at most once for *)
(* every slot of the schedule that belongs to another priority, however     *)
(* the other queues are refilled.                                           *)
BoundedBypass ==
  \A p \in Priorities : skipped[p] <= ScheduleLen - Cardinality(SlotsOf(p))

QueuedTotal == Len(queue[0]) + Len(queue[1]) + Len(queue[2]) + Len(queue[3]) + Len(queue[4])

(* queuedItems, on which run sleeps and canEnqueue admits, is the number of *)
(* frames in the five queues, and SendQueueConfig bounds frames and bytes.  *)
FramesAccounted == /\ queuedItems = QueuedTotal
                   /\ MaxFrames > 0 => queuedItems <= MaxFrames
                   /\ MaxBytes > 0 => queuedBytes <= MaxBytes

(* The bytes of the frames in s, each with the place of its frame. *)
FrameOctets(n, i) == {<<n, b>> : b \in 1 .. size[i]}

OctetsOf(s) == UNION {FrameOctets(n, s[n]) : n \in 1 .. Len(s)}

Bytes(s) == Cardinality(OctetsOf(s))

(* queuedBytes is exactly the length of the queued frames, so the branch    *)
(* of popLocked that clamps it at zero is never needed.                     *)
BytesAccounted ==
  queuedBytes = Bytes(queue[0]) + Bytes(queue[1]) + Bytes(queue[2]) + Bytes(queue[3]) + Bytes(queue[4])
=============================================================================
