------------------------------ MODULE SendQueue ------------------------------
(***************************************************************************)
(* The bounded priority queue of a session's writer (sessionWriter in      *)
(* writer.go): five FIFO queues, one per priority, served in the order of  *)
(* a fixed weighted schedule.  Every operator below is the body of a       *)
(* critical section of sessionWriter.mu, so each one is a single step.     *)
(* The goroutines that run these sections are in SessionWriter.            *)
(*                                                                         *)
(* An item stands for a sendItem: priority, whether its channel is         *)
(* ChannelControl, and the length of its encoded frame.                    *)
(***************************************************************************)
EXTENDS Naturals, Sequences

CONSTANTS Items, priority, control, size,
          MaxFrames,  \* SendQueueConfig.MaxFrames, 0 for no limit
          MaxBytes    \* SendQueueConfig.MaxBytes, 0 for no limit

ASSUME ItemAssumption == /\ priority \in [Items -> Nat]
                         /\ control \in [Items -> BOOLEAN]
                         /\ size \in [Items -> Nat]

ASSUME LimitAssumption == MaxFrames \in Nat /\ MaxBytes \in Nat

VARIABLES queue,        \* queue[p]: the waiting items of priority p
          queuedItems,
          queuedBytes,
          controlOnly,  \* set by beginClosing
          closed,       \* the writer is closed or a write has failed
          scheduleAt    \* the next slot of the schedule

queueVars == <<queue, queuedItems, queuedBytes, controlOnly, closed, scheduleAt>>

PriorityCritical == 0

PriorityIdle == 4

Priorities == PriorityCritical .. PriorityIdle

ScheduleLen == 16

Slots == 0 .. ScheduleLen - 1

writerPrioritySchedule ==
  [s \in Slots |-> IF s < 8 THEN 0 ELSE IF s < 12 THEN 1 ELSE IF s < 14 THEN 2
                  ELSE IF s = 14 THEN 3 ELSE 4]

(* enqueue files an item of an unknown priority under PriorityIdle. *)
Rank(i) == IF priority[i] > PriorityIdle THEN PriorityIdle ELSE priority[i]

(* Once beginClosing has run, only critical control frames are let in. *)
Admissible(i) == controlOnly => Rank(i) = PriorityCritical /\ control[i]

(* Faulty variant: one frame more than the limit is let in. *)
canEnqueueOneMore(n) == /\ MaxFrames > 0 => queuedItems <= MaxFrames
                        /\ MaxBytes > 0 => queuedBytes + n <= MaxBytes

canEnqueue(n) == /\ MaxFrames > 0 => queuedItems < MaxFrames
                 /\ MaxBytes > 0 => queuedBytes + n <= MaxBytes

QueueInit == /\ queue = [p \in Priorities |-> <<>>]
             /\ queuedItems = 0
             /\ queuedBytes = 0
             /\ controlOnly = FALSE
             /\ closed = FALSE
             /\ scheduleAt = 0

(* The end of enqueue, once the item has been let in. *)
push(i) == /\ queue' = [queue EXCEPT ![Rank(i)] = Append(@, i)]
           /\ queuedItems' = queuedItems + 1
           /\ queuedBytes' = queuedBytes + size[i]
           /\ UNCHANGED <<controlOnly, closed, scheduleAt>>

SlotAfter(k) == (scheduleAt + k) % ScheduleLen

QueueAfter(k) == queue[writerPrioritySchedule[SlotAfter(k)]]

(* Faulty variant: the schedule is not advanced, every pop starts at its    *)
(* first slot.                                                              *)
popWithoutAdvance(i) ==
  \E k \in Slots :
    /\ QueueAfter(k) # <<>>
    /\ \A j \in 0 .. k - 1 : QueueAfter(j) = <<>>
    /\ i = Head(QueueAfter(k))
    /\ queue' = [queue EXCEPT ![writerPrioritySchedule[SlotAfter(k)]] = Tail(@)]
    /\ queuedItems' = queuedItems - 1
    /\ queuedBytes' = IF queuedBytes >= size[i] THEN queuedBytes - size[i] ELSE 0
    /\ UNCHANGED <<controlOnly, closed, scheduleAt>>

(* Faulty variant: the schedule runs past its end. *)
popWithoutWrap(i) ==
  \E k \in Slots :
    /\ QueueAfter(k) # <<>>
    /\ \A j \in 0 .. k - 1 : QueueAfter(j) = <<>>
    /\ i = Head(QueueAfter(k))
    /\ queue' = [queue EXCEPT ![writerPrioritySchedule[SlotAfter(k)]] = Tail(@)]
    /\ scheduleAt' = scheduleAt + k + 1
    /\ queuedItems' = queuedItems - 1
    /\ queuedBytes' = IF queuedBytes >= size[i] THEN queuedBytes - size[i] ELSE 0
    /\ UNCHANGED <<controlOnly, closed>>

(* The item popLocked returns is the head of the queue of the first slot,   *)
(* from scheduleAt on, whose queue is not empty; the schedule then stands   *)
(* behind that slot.                                                        *)
popLocked(i) ==
  \E k \in Slots :
    /\ QueueAfter(k) # <<>>
    /\ \A j \in 0 .. k - 1 : QueueAfter(j) = <<>>
    /\ i = Head(QueueAfter(k))
    /\ queue' = [queue EXCEPT ![writerPrioritySchedule[SlotAfter(k)]] = Tail(@)]
    /\ scheduleAt' = SlotAfter(k + 1)
    /\ queuedItems' = queuedItems - 1
    /\ queuedBytes' = IF queuedBytes >= size[i] THEN queuedBytes - size[i] ELSE 0
    /\ UNCHANGED <<controlOnly, closed>>

(* Faulty variant: the byte count survives the frames. *)
releaseQueuedKeepsBytes == /\ queue' = [p \in Priorities |-> <<>>]
                           /\ queuedItems' = 0
                           /\ UNCHANGED <<queuedBytes, scheduleAt>>

releaseQueuedLocked == /\ queue' = [p \in Priorities |-> <<>>]
                       /\ queuedItems' = 0
                       /\ queuedBytes' = 0
                       /\ UNCHANGED scheduleAt

beginClosing == /\ controlOnly' = TRUE
                /\ releaseQueuedLocked
                /\ UNCHANGED closed

(* close, and the end of run after a failed write. *)
closeQueue == /\ closed' = TRUE
              /\ releaseQueuedLocked
              /\ UNCHANGED controlOnly

Queued(i) == \E p \in Priorities : \E n \in 1 .. Len(queue[p]) : queue[p][n] = i

QueueTypeOK == /\ queue \in [Priorities -> Seq(Items)]
               /\ queuedItems \in Nat
               /\ queuedBytes \in Nat
               /\ controlOnly \in BOOLEAN
               /\ closed \in BOOLEAN
               /\ scheduleAt \in Slots

(* After beginClosing (CloseWith on the immediate path) the queue never     *)
(* again holds anything but critical frames of the control channel.         *)
OnlyControlWhileClosing ==
  /\ controlOnly => \A i \in Items : Queued(i) => Rank(i) = PriorityCritical /\ control[i]
  /\ closed => queuedItems = 0
=============================================================================
