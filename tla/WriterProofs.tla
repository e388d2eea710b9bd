----------------------------- MODULE WriterProofs -----------------------------
(***************************************************************************)
(* Proofs about the send queue (its counters and limits, the bound on      *)
(* overtaking and what may be queued while the session closes) and about   *)
(* the goroutines around it, for any frames, any limits and any callers.   *)
(***************************************************************************)
EXTENDS SessionWriter, SendQueueBypass, Integers, FiniteSetTheorems, TLAPS

(* How many slots of other priorities the schedule has passed since it last *)
(* stood on a slot of priority p.                                           *)
FirstSlot == [p \in Priorities |-> IF p = 0 THEN 0 ELSE IF p = 1 THEN 8 ELSE IF p = 2 THEN 12
                              ELSE IF p = 3 THEN 14 ELSE 15]

LastSlot == [p \in Priorities |-> IF p = 0 THEN 7 ELSE IF p = 1 THEN 11 ELSE IF p = 2 THEN 13
                             ELSE IF p = 3 THEN 14 ELSE 15]

Gap(p, s) == IF s > LastSlot[p] THEN s - LastSlot[p] - 1
             ELSE IF s > FirstSlot[p] THEN 0
             ELSE s + 15 - LastSlot[p]

(* The inductive strengthening of the invariants below. *)
FiledByRank == \A p \in Priorities : \A n \in 1 .. Len(queue[p]) : Rank(queue[p][n]) = p

(* The inductive invariant of the queue: what the runs check, and that *)
(* every frame is filed under its own priority.                        *)
FiledInv == /\ QueueTypeOK
            /\ FramesAccounted
            /\ OnlyControlWhileClosing
            /\ FiledByRank

(* The inductive invariant of the schedule. *)
BypassInv == /\ skipped \in [Priorities -> Nat]
             /\ \A p \in Priorities : skipped[p] <= Gap(p, scheduleAt)

-----------------------------------------------------------------------------
(* The schedule is read modulo its length. *)
LEMMA SlotStep ==
  ASSUME NEW s \in Slots, NEW k \in 0 .. ScheduleLen
  PROVE  (s + k) % ScheduleLen = IF s + k < ScheduleLen THEN s + k ELSE s + k - ScheduleLen
  BY DEF Slots, ScheduleLen

(* The schedule has a priority in every slot. *)
LEMMA ScheduleType == writerPrioritySchedule \in [Slots -> Priorities]
  BY DEF writerPrioritySchedule, Slots, ScheduleLen, Priorities, PriorityCritical, PriorityIdle

(* The slots of a priority are one block of the schedule. *)
LEMMA Blocks ==
  ASSUME NEW p \in Priorities, NEW s \in Slots
  PROVE  writerPrioritySchedule[s] = p <=> s \in FirstSlot[p] .. LastSlot[p]
  BY DEF writerPrioritySchedule, Slots, ScheduleLen, Priorities, PriorityCritical,
         PriorityIdle, FirstSlot, LastSlot

(* A frame of any priority is filed under one of the five. *)
LEMMA RankType == \A i \in Items : Rank(i) \in Priorities
  BY ItemAssumption DEF Rank, Priorities, PriorityCritical, PriorityIdle

(* One queue growing or shrinking changes the total by as much. *)
LEMMA FiveSum ==
  ASSUME NEW f \in [0 .. 4 -> Nat], NEW g \in [0 .. 4 -> Nat], NEW r \in 0 .. 4, NEW d \in Int,
         \A p \in 0 .. 4 : p # r => g[p] = f[p],
         g[r] = f[r] + d
  PROVE  g[0] + g[1] + g[2] + g[3] + g[4] = f[0] + f[1] + f[2] + f[3] + f[4] + d
  OBVIOUS

(* A step that touches one queue changes the total by what it changes there.*)
LEMMA TotalChange ==
  ASSUME queue \in [Priorities -> Seq(Items)], (queue \in [Priorities -> Seq(Items)])',
         NEW r \in Priorities, NEW d \in Int,
         \A p \in Priorities \ {r} : queue'[p] = queue[p],
         Len(queue'[r]) = Len(queue[r]) + d
  PROVE  QueuedTotal' = QueuedTotal + d
  <1> DEFINE f == [p \in 0 .. 4 |-> Len(queue[p])]
             g == [p \in 0 .. 4 |-> Len(queue'[p])]
  <1>1. Priorities = 0 .. 4
    BY DEF Priorities, PriorityCritical, PriorityIdle
  <1>2. f \in [0 .. 4 -> Nat] /\ g \in [0 .. 4 -> Nat]
    BY <1>1, SMTT(30)
  <1>3. QueuedTotal = f[0] + f[1] + f[2] + f[3] + f[4]
    BY DEF QueuedTotal
  <1>4. QueuedTotal' = g[0] + g[1] + g[2] + g[3] + g[4]
    BY DEF QueuedTotal
  <1>5. (\A p \in 0 .. 4 : p # r => g[p] = f[p]) /\ g[r] = f[r] + d
    BY <1>1, Zenon
  <1> HIDE DEF f, g
  <1> QED
    BY <1>1, <1>2, <1>3, <1>4, <1>5, FiveSum, Zenon

(* No queue is longer than the total. *)
LEMMA TotalBound ==
  ASSUME queue \in [Priorities -> Seq(Items)]
  PROVE  QueuedTotal \in Nat /\ \A p \in Priorities : Len(queue[p]) <= QueuedTotal
  <1> DEFINE f == [p \in 0 .. 4 |-> Len(queue[p])]
  <1>1. Priorities = 0 .. 4
    BY DEF Priorities, PriorityCritical, PriorityIdle
  <1>2. f \in [0 .. 4 -> Nat]
    BY <1>1
  <1>3. QueuedTotal = f[0] + f[1] + f[2] + f[3] + f[4]
    BY DEF QueuedTotal
  <1>4. \A p \in 0 .. 4 : f[p] <= f[0] + f[1] + f[2] + f[3] + f[4]
    <2> HIDE DEF f
    <2>1. f[0] \in Nat /\ f[1] \in Nat /\ f[2] \in Nat /\ f[3] \in Nat /\ f[4] \in Nat
      BY <1>2, SMT
    <2>2. \A a, b, c, d, e \in Nat :
            /\ a <= a + b + c + d + e /\ b <= a + b + c + d + e
            /\ c <= a + b + c + d + e /\ d <= a + b + c + d + e
            /\ e <= a + b + c + d + e
      BY SMT
    <2>3. \A p \in 0 .. 4 : p = 0 \/ p = 1 \/ p = 2 \/ p = 3 \/ p = 4
      BY SMT
    <2> QED
      BY <2>1, <2>2, <2>3, Zenon
  <1> QED
    BY <1>1, <1>2, <1>3, <1>4

-----------------------------------------------------------------------------
(* newSessionWriter establishes the invariant. *)
LEMMA BypassInitInv == BypassInit => FiledInv /\ BypassInv
  <1> SUFFICES ASSUME BypassInit PROVE FiledInv /\ BypassInv
    OBVIOUS
  <1> USE DEF BypassInit, QueueInit
  <1>1. QueueTypeOK
    <2>1. queue \in [Priorities -> Seq(Items)] /\ scheduleAt \in Slots
      BY DEF Slots, ScheduleLen
    <2>2. controlOnly \in BOOLEAN /\ closed \in BOOLEAN
      BY Zenon
    <2> QED
      BY <2>1, <2>2 DEF QueueTypeOK
  <1>2. FramesAccounted
    BY LimitAssumption
    DEF FramesAccounted, QueuedTotal, Priorities, PriorityCritical, PriorityIdle
  <1>3. OnlyControlWhileClosing /\ FiledByRank
    BY DEF OnlyControlWhileClosing, FiledByRank
  <1>4. BypassInv
    BY DEF BypassInv, Gap, FirstSlot, LastSlot, Priorities, PriorityCritical, PriorityIdle
  <1> QED
    BY <1>1, <1>2, <1>3, <1>4 DEF FiledInv

(* The queues after a frame has been appended to one of them. *)
LEMMA EnqueueKeeps ==
  ASSUME FiledInv, NEW i \in Items, Enqueue(i)
  PROVE  FiledInv'
  <1> DEFINE r == Rank(i)
  <1>1. r \in Priorities
    BY RankType
  <1>2. queue \in [Priorities -> Seq(Items)] /\ queuedItems \in Nat /\ queuedBytes \in Nat
    BY DEF FiledInv, QueueTypeOK
  <1>3. queue' = [queue EXCEPT ![r] = Append(@, i)]
    BY DEF Enqueue, push
  <1>4. /\ queue' \in [Priorities -> Seq(Items)]
        /\ Len(queue'[r]) = Len(queue[r]) + 1
        /\ \A p \in Priorities \ {r} : queue'[p] = queue[p]
        /\ \A n \in 1 .. Len(queue[r]) : queue'[r][n] = queue[r][n]
        /\ queue'[r][Len(queue[r]) + 1] = i
    BY <1>1, <1>2, <1>3
  <1>5. QueueTypeOK'
    BY <1>2, <1>4, ItemAssumption DEF Enqueue, push, FiledInv, QueueTypeOK
  <1>6. FramesAccounted'
    <2>1. QueuedTotal' = QueuedTotal + 1
      BY <1>1, <1>2, <1>4, TotalChange
    <2>2. queuedItems' = queuedItems + 1 /\ queuedBytes' = queuedBytes + size[i]
      BY DEF Enqueue, push
    <2>3. (MaxFrames > 0 => queuedItems < MaxFrames)
          /\ (MaxBytes > 0 => queuedBytes + size[i] <= MaxBytes)
      BY SMTT(30) DEF Enqueue, canEnqueue
    <2> QED
      BY <1>2, <2>1, <2>2, <2>3, LimitAssumption DEF FiledInv, FramesAccounted
  <1>7. OnlyControlWhileClosing'
    <2>1. /\ controlOnly' = controlOnly /\ ~closed'
          /\ controlOnly => Rank(i) = PriorityCritical /\ control[i]
      BY Zenon DEF Enqueue, push, Admissible
    <2>2. controlOnly =>
              \A j \in Items : Queued(j) => Rank(j) = PriorityCritical /\ control[j]
      BY Zenon DEF FiledInv, OnlyControlWhileClosing
    <2>3. Len(queue[r]) \in Nat
      BY <1>1, <1>2, SMT
    <2>4. \A n \in 1 .. Len(queue[r]) + 1 : n \in 1 .. Len(queue[r]) \/ n = Len(queue[r]) + 1
      BY <2>3, SMT
    <2>5. ASSUME NEW j \in Items, NEW p \in Priorities, NEW n \in 1 .. Len(queue'[p]),
                 queue'[p][n] = j
          PROVE  Queued(j) \/ j = i
      <3>1. CASE p = r
        <4>1. n \in 1 .. Len(queue[r]) \/ n = Len(queue[r]) + 1
          BY <1>4, <2>4, <3>1, Zenon
        <4> QED
          BY <1>1, <1>4, <2>5, <3>1, <4>1, Zenon DEF Queued
      <3>2. CASE p # r
        BY <1>4, <2>5, <3>2, Zenon DEF Queued
      <3> QED
        BY <3>1, <3>2, Zenon
    <2>6. \A j \in Items : Queued(j)' => Queued(j) \/ j = i
      BY <2>5, Zenon DEF Queued
    <2> QED
      BY <2>1, <2>2, <2>6, Zenon DEF OnlyControlWhileClosing, Rank
  <1>8. FiledByRank'
    <2> SUFFICES ASSUME NEW p \in Priorities, NEW n \in 1 .. Len(queue'[p])
                 PROVE  Rank(queue'[p][n]) = p
      BY DEF FiledByRank, Rank
    <2>1. CASE p = r /\ n = Len(queue[r]) + 1
      BY <2>1, <1>4
    <2>2. CASE n \in 1 .. Len(queue[p])
      <3>1. queue'[p][n] = queue[p][n]
        BY <2>2, <1>4, Zenon
      <3> QED
        BY <2>2, <3>1, Zenon DEF FiledInv, FiledByRank
    <2> QED
      BY <2>1, <2>2, <1>1, <1>2, <1>4
  <1> QED
    BY <1>5, <1>6, <1>7, <1>8 DEF FiledInv

(* What popLocked does to the queue it takes the frame from. *)
LEMMA PoppedFrame ==
  ASSUME QueueTypeOK, NEW i, popLocked(i)
  PROVE  \E k \in Slots, p \in Priorities :
           /\ p = writerPrioritySchedule[SlotAfter(k)]
           /\ \A j \in 0 .. k - 1 : QueueAfter(j) = <<>>
           /\ queue[p] # <<>>
           /\ i = queue[p][1]
           /\ queue' \in [Priorities -> Seq(Items)]
           /\ Len(queue'[p]) = Len(queue[p]) - 1
           /\ \A n \in 1 .. Len(queue'[p]) : queue'[p][n] = queue[p][n + 1]
           /\ \A q \in Priorities \ {p} : queue'[q] = queue[q]
           /\ scheduleAt' = SlotAfter(k + 1)
  <1>1. PICK k \in Slots :
          /\ QueueAfter(k) # <<>>
          /\ \A j \in 0 .. k - 1 : QueueAfter(j) = <<>>
          /\ i = Head(QueueAfter(k))
          /\ queue' = [queue EXCEPT ![writerPrioritySchedule[SlotAfter(k)]] = Tail(@)]
          /\ scheduleAt' = SlotAfter(k + 1)
    BY Zenon DEF popLocked
  <1> DEFINE p == writerPrioritySchedule[SlotAfter(k)]
  <1>2. SlotAfter(k) \in Slots
    BY SlotStep DEF QueueTypeOK, SlotAfter, Slots, ScheduleLen
  <1>3. p \in Priorities
    BY <1>2, ScheduleType
  <1>4. queue[p] # <<>> /\ i = Head(queue[p]) /\ queue' = [queue EXCEPT ![p] = Tail(@)]
    BY <1>1 DEF QueueAfter
  <1>5. queue \in [Priorities -> Seq(Items)]
    BY DEF QueueTypeOK
  <1> HIDE DEF p
  <1>6. /\ i = queue[p][1]
        /\ queue' \in [Priorities -> Seq(Items)]
        /\ Len(queue'[p]) = Len(queue[p]) - 1
        /\ \A n \in 1 .. Len(queue'[p]) : queue'[p][n] = queue[p][n + 1]
        /\ \A q \in Priorities \ {p} : queue'[q] = queue[q]
    BY <1>3, <1>4, <1>5
  <1> QED
    BY <1>1, <1>3, <1>4, <1>6 DEF p

(* popLocked takes out what it takes from the counters. *)
LEMMA PopInv ==
  ASSUME FiledInv, NEW i \in Items, Pop(i)
  PROVE  FiledInv'
  <1>1. QueueTypeOK /\ popLocked(i)
    BY DEF FiledInv, Pop
  <1>2. PICK k \in Slots, p \in Priorities :
           /\ queue[p] # <<>>
           /\ queue' \in [Priorities -> Seq(Items)]
           /\ Len(queue'[p]) = Len(queue[p]) - 1
           /\ \A n \in 1 .. Len(queue'[p]) : queue'[p][n] = queue[p][n + 1]
           /\ \A q \in Priorities \ {p} : queue'[q] = queue[q]
           /\ scheduleAt' = SlotAfter(k + 1)
    BY <1>1, PoppedFrame
  <1>3. /\ queue \in [Priorities -> Seq(Items)] /\ scheduleAt \in Slots
        /\ queuedItems \in Nat /\ queuedBytes \in Nat
    BY <1>1 DEF QueueTypeOK
  <1>4. /\ queuedItems' = queuedItems - 1
        /\ queuedBytes' = IF queuedBytes >= size[i] THEN queuedBytes - size[i] ELSE 0
        /\ controlOnly' = controlOnly /\ closed' = closed
    BY <1>1 DEF popLocked
  <1>5. QueuedTotal' = QueuedTotal - 1
    <2>1. Len(queue'[p]) = Len(queue[p]) + (-1) /\ -1 \in Int
      BY <1>2, <1>3, SMT
    <2>2. QueuedTotal' = QueuedTotal + (-1)
      BY <1>2, <1>3, <2>1, TotalChange, Zenon
    <2> QED
      BY <2>2, <1>3, TotalBound
  <1>6. queuedItems > 0
    <2>1. Len(queue[p]) > 0 /\ Len(queue[p]) \in Nat
      BY <1>2, <1>3
    <2>2. QueuedTotal > 0
      BY <2>1, <1>3, TotalBound
    <2> QED
      BY <2>2 DEF FiledInv, FramesAccounted
  <1>7. QueueTypeOK'
    <2>1. scheduleAt' \in Slots
      BY <1>2, <1>3, SlotStep DEF SlotAfter, Slots, ScheduleLen
    <2>2. queuedItems' \in Nat /\ queuedBytes' \in Nat
      BY <1>3, <1>4, <1>6, ItemAssumption
    <2> QED
      BY <1>1, <1>2, <1>4, <2>1, <2>2 DEF QueueTypeOK
  <1>8. FramesAccounted'
    <2>1. queuedBytes' <= queuedBytes
      BY <1>3, <1>4, ItemAssumption
    <2>2. queuedBytes' \in Nat
      BY <1>7 DEF QueueTypeOK
    <2> QED
      BY <1>3, <1>4, <1>5, <2>1, <2>2, LimitAssumption DEF FiledInv, FramesAccounted
  <1>9. \A q \in Priorities : \A n \in 1 .. Len(queue'[q]) :
          \E m \in 1 .. Len(queue[q]) : queue'[q][n] = queue[q][m]
    <2>1. Len(queue[p]) \in Nat /\ Len(queue'[p]) = Len(queue[p]) - 1
      BY <1>2, <1>3, SMT
    <2>2. \A n \in 1 .. Len(queue'[p]) : n + 1 \in 1 .. Len(queue[p])
      BY <2>1, SMT
    <2> QED
      BY <1>2, <2>2, Zenon
  <1>10. OnlyControlWhileClosing'
    <2>1. \A j \in Items : Queued(j)' => Queued(j)
      <3> SUFFICES ASSUME NEW j \in Items, NEW q \in Priorities,
                          NEW n \in 1 .. Len(queue'[q]), queue'[q][n] = j
                   PROVE  Queued(j)
        BY Zenon DEF Queued
      <3>1. PICK m \in 1 .. Len(queue[q]) : queue[q][m] = j
        BY <1>9, Zenon
      <3> QED
        BY <3>1, Zenon DEF Queued
    <2>2. ~closed
      BY <1>6 DEF FiledInv, OnlyControlWhileClosing
    <2> QED
      BY <2>1, <2>2, <1>4 DEF FiledInv, OnlyControlWhileClosing, Rank
  <1>11. FiledByRank'
    <2> SUFFICES ASSUME NEW q \in Priorities, NEW n \in 1 .. Len(queue'[q])
                 PROVE  Rank(queue'[q][n]) = q
      BY Zenon DEF FiledByRank, Rank
    <2>1. PICK m \in 1 .. Len(queue[q]) : queue'[q][n] = queue[q][m]
      BY <1>9, Zenon
    <2>2. Rank(queue[q][m]) = q
      BY Zenon DEF FiledInv, FiledByRank
    <2> QED
      BY <2>1, <2>2, Zenon
  <1> QED
    BY <1>7, <1>8, <1>10, <1>11 DEF FiledInv

(* beginClosing and close leave the queues empty. *)
LEMMA ReleaseKeeps ==
  ASSUME FiledInv, BypassBeginClosing \/ BypassClose
  PROVE  FiledInv'
  <1>1. /\ queue' = [p \in Priorities |-> <<>>]
        /\ queuedItems' = 0 /\ queuedBytes' = 0 /\ scheduleAt' = scheduleAt
    BY DEF BypassBeginClosing, BypassClose, beginClosing, closeQueue, releaseQueuedLocked
  <1>2. controlOnly' \in BOOLEAN /\ closed' \in BOOLEAN
    BY Zenon DEF BypassBeginClosing, BypassClose, beginClosing, closeQueue, FiledInv, QueueTypeOK
  <1>3. QueueTypeOK'
    <2>1. queue' \in [Priorities -> Seq(Items)] /\ scheduleAt' \in Slots
      BY <1>1 DEF FiledInv, QueueTypeOK
    <2> QED
      BY <1>1, <1>2, <2>1 DEF QueueTypeOK
  <1>4. FramesAccounted'
    BY <1>1, LimitAssumption
    DEF FramesAccounted, QueuedTotal, Priorities, PriorityCritical, PriorityIdle
  <1>5. OnlyControlWhileClosing' /\ FiledByRank'
    BY <1>1 DEF OnlyControlWhileClosing, FiledByRank, Queued
  <1> QED
    BY <1>3, <1>4, <1>5 DEF FiledInv

(* Every operation of the writer keeps the queue's invariant. *)
LEMMA QueueStep == FiledInv /\ [BypassNext]_bypassVars => FiledInv'
  <1> SUFFICES ASSUME FiledInv, [BypassNext]_bypassVars PROVE FiledInv'
    OBVIOUS
  <1>1. ASSUME NEW i \in Items, Enqueue(i) PROVE FiledInv'
    BY <1>1, EnqueueKeeps
  <1>2. ASSUME NEW i \in Items, Pop(i) PROVE FiledInv'
    BY <1>2, PopInv
  <1>3. CASE BypassBeginClosing \/ BypassClose
    BY <1>3, ReleaseKeeps
  <1>4. CASE UNCHANGED bypassVars
    <2>1. UNCHANGED queueVars
      BY <1>4 DEF bypassVars
    <2>2. QueueTypeOK' /\ FramesAccounted'
      BY <2>1, Zenon DEF queueVars, FiledInv, QueueTypeOK, FramesAccounted, QueuedTotal
    <2>3. OnlyControlWhileClosing'
      BY <2>1 DEF queueVars, FiledInv, OnlyControlWhileClosing, Queued, Rank
    <2>4. FiledByRank'
      BY <2>1 DEF queueVars, FiledInv, FiledByRank, Rank
    <2> QED
      BY <2>2, <2>3, <2>4 DEF FiledInv
  <1> QED
    BY <1>1, <1>2, <1>3, <1>4 DEF BypassNext

-----------------------------------------------------------------------------
(* Bytes. *)

(* A byte is a place in the sequence and a place in the frame there. *)
LEMMA OctetIs ==
  ASSUME NEW s, NEW x
  PROVE  x \in OctetsOf(s) <=> \E n \in 1 .. Len(s) : \E b \in 1 .. size[s[n]] : x = <<n, b>>
  <1>1. x \in OctetsOf(s) <=> \E n \in 1 .. Len(s) : x \in FrameOctets(n, s[n])
    BY Zenon DEF OctetsOf
  <1>2. \A n : x \in FrameOctets(n, s[n]) <=> \E b \in 1 .. size[s[n]] : x = <<n, b>>
    BY Zenon DEF FrameOctets
  <1> QED
    BY <1>1, <1>2, Zenon

(* The first component of a pair. *)
LEMMA First ==
  ASSUME NEW n, NEW b
  PROVE  <<n, b>>[1] = n
  OBVIOUS

(* The bytes of one frame are as many as its size says. *)
LEMMA FrameBytes ==
  ASSUME NEW k, NEW i \in Items
  PROVE  IsFiniteSet(FrameOctets(k, i)) /\ Cardinality(FrameOctets(k, i)) = size[i]
  <1>1. size[i] \in Nat
    BY ItemAssumption
  <1>2. IsFiniteSet({k}) /\ Cardinality({k}) = 1
    BY FS_Singleton, Zenon
  <1>3. IsFiniteSet(1 .. size[i]) /\ Cardinality(1 .. size[i]) = size[i]
    <2>1. 1 \in Int /\ size[i] \in Int
      BY <1>1
    <2>2. /\ IsFiniteSet(1 .. size[i])
          /\ Cardinality(1 .. size[i]) = IF 1 > size[i] THEN 0 ELSE size[i] - 1 + 1
      BY <2>1, FS_Interval, Zenon
    <2> QED
      BY <1>1, <2>2
  <1>4. FrameOctets(k, i) = {k} \X (1 .. size[i])
    BY SMT DEF FrameOctets
  <1>5. /\ IsFiniteSet(FrameOctets(k, i))
        /\ Cardinality(FrameOctets(k, i)) = Cardinality({k}) * Cardinality(1 .. size[i])
    BY <1>2, <1>3, <1>4, FS_Product, Zenon
  <1>6. Cardinality(FrameOctets(k, i)) = 1 * size[i]
    BY <1>2, <1>3, <1>5, Zenon
  <1>7. 1 * size[i] = size[i]
    BY <1>1
  <1> QED
    BY <1>5, <1>6, <1>7, Zenon

(* A queue has finitely many bytes. *)
LEMMA BytesFinite ==
  ASSUME NEW s \in Seq(Items)
  PROVE  IsFiniteSet(OctetsOf(s)) /\ Bytes(s) \in Nat
  <1> DEFINE D == 1 .. Len(s)
             F == [n \in D |-> FrameOctets(n, s[n])]
             S == {FrameOctets(n, s[n]) : n \in D}
  <1>1. IsFiniteSet(D)
    <2>1. 1 \in Int /\ Len(s) \in Int
      OBVIOUS
    <2> QED
      BY <2>1, FS_Interval
  <1>2. F \in Surjection(D, S)
    <2>1. F \in [D -> S]
      BY Zenon
    <2>2. \A t \in S : \E n \in D : F[n] = t
      BY Zenon
    <2> HIDE DEF F, S, D
    <2> QED
      BY <2>1, <2>2, Zenon DEF Surjection
  <1>3. IsFiniteSet(S)
    <2> HIDE DEF F, S, D
    <2> QED
      BY <1>1, <1>2, FS_Surjection, Zenon
  <1>4. \A t \in S : IsFiniteSet(t)
    <2> SUFFICES ASSUME NEW n \in D PROVE IsFiniteSet(FrameOctets(n, s[n]))
      BY Zenon
    <2>1. s[n] \in Items
      OBVIOUS
    <2> QED
      BY <2>1, FrameBytes, Zenon
  <1>5. IsFiniteSet(UNION S)
    <2> HIDE DEF S
    <2> QED
      BY <1>3, <1>4, FS_UNION, Zenon
  <1>6. IsFiniteSet(OctetsOf(s))
    BY <1>5, Zenon DEF OctetsOf
  <1> QED
    BY <1>6, FS_CardinalityType, Zenon DEF Bytes

(* Two sets of bytes without a common one. *)
LEMMA DisjointCount ==
  ASSUME NEW S, NEW T, IsFiniteSet(S), IsFiniteSet(T), S \cap T = {}
  PROVE  Cardinality(S \cup T) = Cardinality(S) + Cardinality(T)
  <1>1. Cardinality(S \cup T) = Cardinality(S) + Cardinality(T) - Cardinality(S \cap T)
    BY FS_Union, Zenon
  <1>2. Cardinality(S \cap T) = 0
    BY FS_EmptySet, Zenon
  <1>3. Cardinality(S) \in Nat /\ Cardinality(T) \in Nat
    BY FS_CardinalityType, Zenon
  <1> QED
    BY <1>1, <1>2, <1>3

(* A frame that is queued adds its size. *)
LEMMA BytesAppend ==
  ASSUME NEW s \in Seq(Items), NEW i \in Items
  PROVE  Bytes(Append(s, i)) = Bytes(s) + size[i]
  <1> DEFINE k == Len(s) + 1
             t == Append(s, i)
             new == FrameOctets(k, i)
  <1>1. /\ Len(t) = k /\ t[k] = i /\ (\A n \in 1 .. Len(s) : t[n] = s[n])
        /\ k \notin 1 .. Len(s) /\ (\A n : n \in 1 .. k <=> n \in 1 .. Len(s) \/ n = k)
    OBVIOUS
  <1> HIDE DEF k, t
  <1>2. \A x : x \in new <=> \E b \in 1 .. size[i] : x = <<k, b>>
    BY Zenon DEF FrameOctets
  <1>8. \A x : x \in OctetsOf(s) <=> \E n \in 1 .. Len(s) : \E b \in 1 .. size[s[n]] : x = <<n, b>>
    BY OctetIs, Zenon
  <1>9. \A x : x \in OctetsOf(t) <=> \E n \in 1 .. Len(t) : \E b \in 1 .. size[t[n]] : x = <<n, b>>
    BY OctetIs, Zenon
  <1>3. ASSUME NEW x PROVE x \in OctetsOf(t) <=> x \in OctetsOf(s) \/ x \in new
    <2>1. ASSUME x \in OctetsOf(t) PROVE x \in OctetsOf(s) \/ x \in new
      <3>1. PICK n \in 1 .. Len(t) : \E b \in 1 .. size[t[n]] : x = <<n, b>>
        BY <1>9, <2>1, Zenon
      <3>2. CASE n = k
        BY <1>1, <1>2, <3>1, <3>2, Zenon
      <3>3. CASE n \in 1 .. Len(s)
        BY <1>1, <1>8, <3>1, <3>3, Zenon
      <3> QED
        BY <1>1, <3>2, <3>3, Zenon
    <2>2. ASSUME x \in OctetsOf(s) PROVE x \in OctetsOf(t)
      <3>1. PICK n \in 1 .. Len(s) : \E b \in 1 .. size[s[n]] : x = <<n, b>>
        BY <1>8, <2>2, Zenon
      <3>2. n \in 1 .. Len(t) /\ t[n] = s[n]
        BY <1>1, Zenon
      <3> QED
        BY <1>9, <3>1, <3>2, Zenon
    <2>3. ASSUME x \in new PROVE x \in OctetsOf(t)
      <3>1. k \in 1 .. Len(t) /\ t[k] = i
        BY <1>1, Zenon
      <3> QED
        BY <1>2, <1>9, <2>3, <3>1, Zenon
    <2> QED
      BY <2>1, <2>2, <2>3, Zenon
  <1>4. OctetsOf(t) = OctetsOf(s) \cup new
    BY <1>3, Zenon
  <1>5. OctetsOf(s) \cap new = {}
    <2> SUFFICES ASSUME NEW x \in OctetsOf(s), x \in new PROVE FALSE
      BY Zenon
    <2>1. PICK n \in 1 .. Len(s) : \E b \in 1 .. size[s[n]] : x = <<n, b>>
      BY <1>8, Zenon
    <2>2. x[1] = n /\ x[1] = k
      BY <1>2, <2>1, First, Zenon
    <2> QED
      BY <1>1, <2>2, Zenon
  <1>6. IsFiniteSet(OctetsOf(s)) /\ IsFiniteSet(new) /\ Cardinality(new) = size[i]
    BY BytesFinite, FrameBytes, Zenon
  <1> HIDE DEF new
  <1>7. Cardinality(OctetsOf(t)) = Cardinality(OctetsOf(s)) + size[i]
    BY <1>4, <1>5, <1>6, DisjointCount, Zenon
  <1> QED
    BY <1>7, Zenon DEF Bytes, t

(* A frame that leaves takes its size with it, and all the others move up. *)
LEMMA BytesTail ==
  ASSUME NEW s \in Seq(Items), s # <<>>
  PROVE  Bytes(s) = Bytes(Tail(s)) + size[Head(s)]
  <1> DEFINE t == Tail(s)
             i == Head(s)
             old == FrameOctets(1, i)
             rest == {x \in OctetsOf(s) : x[1] # 1}
             f == [x \in OctetsOf(t) |-> <<x[1] + 1, x[2]>>]
  <1>1. /\ t \in Seq(Items) /\ i \in Items /\ Len(s) \in Nat /\ Len(t) = Len(s) - 1 /\ s[1] = i
        /\ 1 \in 1 .. Len(s) /\ \A n \in 1 .. Len(t) : t[n] = s[n + 1]
    OBVIOUS
  <1>2. /\ \A n \in 1 .. Len(t) : n + 1 \in 1 .. Len(s) /\ n + 1 # 1
        /\ \A n \in 1 .. Len(s) : n # 1 => \E m \in 1 .. Len(t) : n = m + 1
        /\ \A m, n \in 1 .. Len(t) : m + 1 = n + 1 => m = n
    <2>1. \A n \in 1 .. Len(s) : n # 1 => n - 1 \in 1 .. Len(t) /\ n = (n - 1) + 1
      BY <1>1
    <2> QED
      BY <1>1, <2>1
  <1> HIDE DEF t, i
  <1>3. \A x : x \in old <=> \E b \in 1 .. size[i] : x = <<1, b>>
    BY Zenon DEF FrameOctets
  <1>4. \A x : x \in OctetsOf(s) <=> \E n \in 1 .. Len(s) : \E b \in 1 .. size[s[n]] : x = <<n, b>>
    BY OctetIs, Zenon
  <1>5. \A x : x \in OctetsOf(t) <=> \E n \in 1 .. Len(t) : \E b \in 1 .. size[t[n]] : x = <<n, b>>
    BY OctetIs, Zenon
  <1>6. OctetsOf(s) = rest \cup old /\ rest \cap old = {}
    <2>1. ASSUME NEW x PROVE x \in old <=> x \in OctetsOf(s) /\ x[1] = 1
      <3>1. ASSUME x \in old PROVE x \in OctetsOf(s) /\ x[1] = 1
        <4>1. PICK b \in 1 .. size[i] : x = <<1, b>>
          BY <1>3, <3>1, Zenon
        <4>2. x[1] = 1
          BY <4>1, First, Zenon
        <4>3. b \in 1 .. size[s[1]]
          BY <1>1, Zenon
        <4> QED
          BY <1>1, <1>4, <4>1, <4>2, <4>3, Zenon
      <3>2. ASSUME x \in OctetsOf(s), x[1] = 1 PROVE x \in old
        <4>1. PICK n \in 1 .. Len(s) : \E b \in 1 .. size[s[n]] : x = <<n, b>>
          BY <1>4, <3>2, Zenon
        <4>2. n = 1
          BY <3>2, <4>1, First, Zenon
        <4> QED
          BY <1>1, <1>3, <4>1, <4>2, Zenon
      <3> QED
        BY <3>1, <3>2, Zenon
    <2> QED
      BY <2>1, Zenon
  <1>7. f \in Bijection(OctetsOf(t), rest)
    <2>1. ASSUME NEW x \in OctetsOf(t) PROVE f[x] \in rest
      <3>1. PICK n \in 1 .. Len(t) : \E b \in 1 .. size[t[n]] : x = <<n, b>>
        BY <1>5, Zenon
      <3>2. PICK b \in 1 .. size[t[n]] : x = <<n, b>>
        BY <3>1, Zenon
      <3>3. f[x] = <<n + 1, b>> /\ b \in 1 .. size[s[n + 1]]
        BY <1>1, <3>2, Zenon
      <3>4. f[x] \in OctetsOf(s) /\ f[x][1] = n + 1
        BY <1>2, <1>4, <3>3, Zenon
      <3> QED
        BY <1>2, <3>4, Zenon
    <2>2. ASSUME NEW x \in OctetsOf(t), NEW y \in OctetsOf(t), f[x] = f[y] PROVE x = y
      <3>1. PICK m \in 1 .. Len(t) : \E a \in 1 .. size[t[m]] : x = <<m, a>>
        BY <1>5, Zenon
      <3>2. PICK n \in 1 .. Len(t) : \E b \in 1 .. size[t[n]] : y = <<n, b>>
        BY <1>5, Zenon
      <3>5. PICK a, b : x = <<m, a>> /\ y = <<n, b>>
        BY <3>1, <3>2, Zenon
      <3>3. <<m + 1, a>> = <<n + 1, b>>
        BY <2>2, <3>5, Zenon
      <3>4. m + 1 = n + 1 /\ a = b
        BY <3>3, Zenon
      <3> QED
        BY <1>2, <3>4, <3>5, Zenon
    <2>3. ASSUME NEW y \in rest PROVE \E x \in OctetsOf(t) : f[x] = y
      <3>1. PICK n \in 1 .. Len(s) : \E b \in 1 .. size[s[n]] : y = <<n, b>>
        BY <1>4, Zenon
      <3>2. PICK b \in 1 .. size[s[n]] : y = <<n, b>>
        BY <3>1, Zenon
      <3>3. n # 1
        BY <3>2, Zenon
      <3>4. PICK m \in 1 .. Len(t) : n = m + 1
        BY <1>2, <3>3, Zenon
      <3>5. <<m, b>> \in OctetsOf(t)
        BY <1>1, <1>5, <3>2, <3>4, Zenon
      <3>6. f[<<m, b>>] = y
        BY <3>2, <3>4, <3>5, Zenon
      <3> QED
        BY <3>5, <3>6, Zenon
    <2>4. f = [x \in OctetsOf(t) |-> f[x]]
      BY Zenon
    <2> HIDE DEF f, rest
    <2>5. f \in [OctetsOf(t) -> rest]
      BY <2>1, <2>4, Zenon
    <2> QED
      BY <2>2, <2>3, <2>5, Zenon DEF Bijection, Injection, Surjection, IsInjective
  <1> HIDE DEF f, rest
  <1>8. IsFiniteSet(OctetsOf(t))
    BY <1>1, BytesFinite, Zenon
  <1>9. IsFiniteSet(rest) /\ Cardinality(rest) = Cardinality(OctetsOf(t))
    BY <1>7, <1>8, FS_Bijection, Zenon DEF ExistsBijection
  <1>10. IsFiniteSet(old) /\ Cardinality(old) = size[i]
    BY <1>1, FrameBytes, Zenon
  <1> HIDE DEF old
  <1>11. Cardinality(OctetsOf(s)) = Cardinality(rest) + Cardinality(old)
    BY <1>6, <1>9, <1>10, DisjointCount, Zenon
  <1> QED
    BY <1>9, <1>10, <1>11, Zenon DEF Bytes, t, i

(* A step that touches one queue changes the bytes by what it changes there.*)
LEMMA BytesChange ==
  ASSUME queue \in [Priorities -> Seq(Items)], (queue \in [Priorities -> Seq(Items)])',
         NEW r \in Priorities, NEW d \in Int,
         \A p \in Priorities \ {r} : queue'[p] = queue[p],
         Bytes(queue'[r]) = Bytes(queue[r]) + d,
         BytesAccounted, queuedBytes' = queuedBytes + d
  PROVE  BytesAccounted'
  <1> DEFINE f == [p \in 0 .. 4 |-> Bytes(queue[p])]
             g == [p \in 0 .. 4 |-> Bytes(queue'[p])]
  <1>1. Priorities = 0 .. 4
    BY DEF Priorities, PriorityCritical, PriorityIdle
  <1>2. f \in [0 .. 4 -> Nat] /\ g \in [0 .. 4 -> Nat]
    BY <1>1, BytesFinite
  <1>3. queuedBytes = f[0] + f[1] + f[2] + f[3] + f[4]
    BY DEF BytesAccounted
  <1>4. BytesAccounted' <=> queuedBytes' = g[0] + g[1] + g[2] + g[3] + g[4]
    BY DEF BytesAccounted
  <1>5. (\A p \in 0 .. 4 : p # r => g[p] = f[p]) /\ g[r] = f[r] + d
    BY <1>1, SMTT(30)
  <1>6. r \in 0 .. 4
    BY <1>1
  <1> HIDE DEF f, g
  <1>7. g[0] + g[1] + g[2] + g[3] + g[4] = f[0] + f[1] + f[2] + f[3] + f[4] + d
    BY <1>2, <1>5, <1>6, FiveSum, Zenon
  <1> QED
    BY <1>3, <1>4, <1>7

(* No queue has more bytes than queuedBytes. *)
LEMMA BytesBound ==
  ASSUME queue \in [Priorities -> Seq(Items)], BytesAccounted
  PROVE  \A p \in Priorities : Bytes(queue[p]) <= queuedBytes
  <1> DEFINE f == [p \in 0 .. 4 |-> Bytes(queue[p])]
  <1>1. Priorities = 0 .. 4
    BY DEF Priorities, PriorityCritical, PriorityIdle
  <1>2. f \in [0 .. 4 -> Nat]
    BY <1>1, BytesFinite
  <1>3. queuedBytes = f[0] + f[1] + f[2] + f[3] + f[4]
    BY DEF BytesAccounted
  <1>4. \A p \in 0 .. 4 : f[p] <= f[0] + f[1] + f[2] + f[3] + f[4]
    <2> HIDE DEF f
    <2>1. f[0] \in Nat /\ f[1] \in Nat /\ f[2] \in Nat /\ f[3] \in Nat /\ f[4] \in Nat
      BY <1>2
    <2>2. ASSUME NEW a \in Nat, NEW b \in Nat, NEW c \in Nat, NEW d \in Nat, NEW e \in Nat
          PROVE  /\ a <= a + b + c + d + e /\ b <= a + b + c + d + e
                 /\ c <= a + b + c + d + e /\ d <= a + b + c + d + e
                 /\ e <= a + b + c + d + e
      BY SMT
    <2>3. \A p \in 0 .. 4 : p \in {0, 1, 2, 3, 4}
      BY SMT
    <2> QED
      BY <2>1, <2>2, <2>3, Zenon
  <1> QED
    BY <1>1, <1>3, <1>4

(* Empty queues hold no bytes. *)
LEMMA NoBytes ==
  ASSUME NEW q, q = [p \in Priorities |-> <<>>]
  PROVE  Bytes(q[0]) + Bytes(q[1]) + Bytes(q[2]) + Bytes(q[3]) + Bytes(q[4]) = 0
  <1>1. Bytes(<<>>) = 0
    <2>1. 1 .. Len(<<>>) = {}
      OBVIOUS
    <2>2. OctetsOf(<<>>) = {}
      BY <2>1, Zenon DEF OctetsOf
    <2> QED
      BY <2>2, FS_EmptySet, Zenon DEF Bytes
  <1>2. \A p \in 0 .. 4 : q[p] = <<>>
    BY DEF Priorities, PriorityCritical, PriorityIdle
  <1> QED
    BY <1>1, <1>2

(* The operations of the writer keep the count of bytes. *)
LEMMA BytesStep ==
  ASSUME FiledInv, FiledInv', BytesAccounted, [BypassNext]_bypassVars
  PROVE  BytesAccounted'
  <1>1. /\ queue \in [Priorities -> Seq(Items)] /\ (queue \in [Priorities -> Seq(Items)])'
        /\ queuedBytes \in Nat
    BY DEF FiledInv, QueueTypeOK
  <1>2. ASSUME NEW i \in Items, Enqueue(i) PROVE BytesAccounted'
    <2> DEFINE r == Rank(i)
    <2>1. r \in Priorities /\ size[i] \in Int
      BY RankType, ItemAssumption
    <2>2. queue' = [queue EXCEPT ![r] = Append(@, i)] /\ queuedBytes' = queuedBytes + size[i]
      BY <1>2 DEF Enqueue, push
    <2>3. queue'[r] = Append(queue[r], i) /\ \A p \in Priorities \ {r} : queue'[p] = queue[p]
      BY <1>1, <2>1, <2>2
    <2>4. Bytes(queue'[r]) = Bytes(queue[r]) + size[i]
      BY <1>1, <2>1, <2>3, BytesAppend
    <2> QED
      BY <1>1, <2>1, <2>2, <2>3, <2>4, BytesChange
  <1>3. ASSUME NEW i \in Items, Pop(i) PROVE BytesAccounted'
    <2>1. PICK k \in Slots :
            /\ QueueAfter(k) # <<>> /\ i = Head(QueueAfter(k))
            /\ queue' = [queue EXCEPT ![writerPrioritySchedule[SlotAfter(k)]] = Tail(@)]
            /\ queuedBytes' = IF queuedBytes >= size[i] THEN queuedBytes - size[i] ELSE 0
      BY <1>3, Zenon DEF Pop, popLocked
    <2> DEFINE r == writerPrioritySchedule[SlotAfter(k)]
    <2>2. r \in Priorities
      <3>1. SlotAfter(k) \in Slots
        BY SlotStep DEF FiledInv, QueueTypeOK, SlotAfter, Slots, ScheduleLen
      <3> QED
        BY <3>1, ScheduleType
    <2>3. queue[r] # <<>> /\ i = Head(queue[r]) /\ queue' = [queue EXCEPT ![r] = Tail(@)]
      BY <2>1 DEF QueueAfter
    <2> HIDE DEF r
    <2>4. queue'[r] = Tail(queue[r]) /\ \A p \in Priorities \ {r} : queue'[p] = queue[p]
      BY <1>1, <2>2, <2>3
    <2>5. /\ Bytes(queue[r]) = Bytes(queue'[r]) + size[i]
          /\ Bytes(queue[r]) \in Nat /\ Bytes(queue'[r]) \in Nat
      <3>1. queue[r] \in Seq(Items) /\ queue'[r] \in Seq(Items)
        BY <1>1, <2>2
      <3> QED
        BY <3>1, <2>3, <2>4, BytesTail, BytesFinite, Zenon
    <2>6. Bytes(queue[r]) <= queuedBytes
      BY <1>1, <2>2, BytesBound
    <2>7. /\ size[i] \in Nat /\ -size[i] \in Int /\ queuedBytes' = queuedBytes + (-size[i])
          /\ Bytes(queue'[r]) = Bytes(queue[r]) + (-size[i])
      <3>1. size[i] \in Nat
        BY ItemAssumption
      <3>2. queuedBytes >= size[i]
        BY <1>1, <2>5, <2>6, <3>1
      <3>3. queuedBytes' = queuedBytes - size[i]
        BY <2>1, <3>2
      <3>4. queuedBytes' = queuedBytes + (-size[i]) /\ -size[i] \in Int
        BY <1>1, <3>1, <3>3
      <3>5. Bytes(queue'[r]) = Bytes(queue[r]) + (-size[i])
        BY <2>5, <3>1
      <3> QED
        BY <3>1, <3>4, <3>5
    <2> QED
      BY <1>1, <2>2, <2>4, <2>7, BytesChange, Zenon
  <1>4. CASE BypassBeginClosing \/ BypassClose
    <2>1. queue' = [p \in Priorities |-> <<>>] /\ queuedBytes' = 0
      BY <1>4 DEF BypassBeginClosing, BypassClose, beginClosing, closeQueue, releaseQueuedLocked
    <2> QED
      BY <2>1, NoBytes DEF BytesAccounted
  <1>5. CASE UNCHANGED bypassVars
    BY <1>5 DEF bypassVars, queueVars, BytesAccounted
  <1> QED
    BY <1>2, <1>3, <1>4, <1>5 DEF BypassNext

-----------------------------------------------------------------------------
(* Overtaking. *)

(* A schedule that moves k + 1 slots on, none of them a slot of p, has      *)
(* passed at least one more slot since p's last turn.                       *)
LEMMA GapGrows ==
  ASSUME NEW p \in Priorities, NEW s \in Slots, NEW k \in Slots,
         \A j \in 0 .. k : writerPrioritySchedule[(s + j) % ScheduleLen] # p
  PROVE  Gap(p, (s + k + 1) % ScheduleLen) >= Gap(p, s) + 1
  <1> DEFINE f == FirstSlot[p]
             l == LastSlot[p]
  <1>1. f \in Nat /\ l \in Nat /\ f <= l /\ l < ScheduleLen
    BY DEF FirstSlot, LastSlot, ScheduleLen, Priorities, PriorityCritical, PriorityIdle
  <1>2. s \in Nat /\ k \in Nat /\ s < ScheduleLen /\ k < ScheduleLen
    BY DEF Slots, ScheduleLen
  <1>3. \A j \in 0 .. k : (s + j) % ScheduleLen \notin f .. l
    <2> SUFFICES ASSUME NEW j \in 0 .. k PROVE (s + j) % ScheduleLen \notin f .. l
      OBVIOUS
    <2>1. (s + j) % ScheduleLen \in Slots
      BY <1>2 DEF Slots, ScheduleLen
    <2> QED
      BY <2>1, Blocks
  <1>4. \A j \in 0 .. k + 1 :
          (s + j) % ScheduleLen = IF s + j < ScheduleLen THEN s + j ELSE s + j - ScheduleLen
    BY <1>2, SlotStep DEF ScheduleLen
  <1> DEFINE t == (s + k + 1) % ScheduleLen
  <1>5. t = (IF s + k + 1 < ScheduleLen THEN s + k + 1 ELSE s + k + 1 - ScheduleLen)
    BY <1>2 DEF ScheduleLen
  <1> HIDE DEF f, l, t
  <1>6. CASE s > l
    <2>1. CASE s + k + 1 < ScheduleLen
      BY <1>1, <1>2, <1>5, <1>6, <2>1 DEF Gap, f, l, t
    <2>2. CASE s + k + 1 >= ScheduleLen
      <3>1. s + k - ScheduleLen < f
        <4>1. SUFFICES ASSUME s + k - ScheduleLen >= f PROVE FALSE
          BY <1>1, <1>2 DEF ScheduleLen
        <4>2. f + ScheduleLen - s \in 0 .. k
          BY <4>1, <1>1, <1>2 DEF ScheduleLen
        <4>3. (s + (f + ScheduleLen - s)) % ScheduleLen = f
          BY <4>2, <1>1, <1>2, <1>4 DEF ScheduleLen
        <4> QED
          BY <4>2, <4>3, <1>1, <1>3
      <3>2. t = s + k + 1 - ScheduleLen /\ t <= f /\ t <= l
        BY <3>1, <2>2, <1>1, <1>2, <1>5 DEF ScheduleLen
      <3> QED
        BY <3>2, <1>1, <1>2, <1>6 DEF Gap, f, l, t, ScheduleLen
    <2> QED
      BY <2>1, <2>2, <1>2 DEF ScheduleLen
  <1>7. CASE s <= l
    <2>1. s < f
      BY <1>1, <1>2, <1>3, <1>4, <1>7 DEF ScheduleLen
    <2>2. s + k < f
      <3>1. SUFFICES ASSUME s + k >= f PROVE FALSE
        BY <1>1, <1>2
      <3>2. f - s \in 0 .. k /\ s + (f - s) = f /\ f < ScheduleLen
        BY <3>1, <2>1, <1>1, <1>2 DEF ScheduleLen
      <3>3. (s + (f - s)) % ScheduleLen = f
        BY <3>2, <1>1, <1>2, <1>4 DEF ScheduleLen
      <3> QED
        BY <3>2, <3>3, <1>1, <1>3
    <2>3. t = s + k + 1 /\ t <= f /\ t <= l
      BY <2>2, <1>1, <1>2, <1>5 DEF ScheduleLen
    <2> QED
      BY <2>1, <2>3, <1>1, <1>2, <1>7 DEF Gap, f, l, t
  <1> QED
    BY <1>1, <1>2, <1>6, <1>7

(* Every operation of the writer keeps the schedule's invariant. *)
LEMMA BypassStep ==
  ASSUME FiledInv, BypassInv, [BypassNext]_bypassVars
  PROVE  BypassInv'
  <1>1. scheduleAt \in Slots /\ skipped \in [Priorities -> Nat]
    BY DEF FiledInv, QueueTypeOK, BypassInv
  <1>2. \A p \in Priorities : \A s \in Slots : Gap(p, s) \in Nat
    BY DEF Gap, FirstSlot, LastSlot, Slots, ScheduleLen, Priorities, PriorityCritical, PriorityIdle
  <1>3. ASSUME NEW i \in Items, Pop(i) PROVE BypassInv'
    <2>1. QueueTypeOK /\ FiledByRank /\ popLocked(i)
      BY <1>3 DEF Pop, FiledInv
    <2>2. PICK k \in Slots, q \in Priorities :
            /\ q = writerPrioritySchedule[SlotAfter(k)]
            /\ \A j \in 0 .. k - 1 : QueueAfter(j) = <<>>
            /\ queue[q] # <<>>
            /\ i = queue[q][1]
            /\ scheduleAt' = SlotAfter(k + 1)
      BY <2>1, PoppedFrame
    <2>3. Rank(i) = q
      <3>1. queue[q] \in Seq(Items)
        BY <2>1 DEF QueueTypeOK
      <3>2. 1 \in 1 .. Len(queue[q])
        BY <3>1, <2>2
      <3> QED
        BY <3>2, <2>1, <2>2 DEF FiledByRank
    <2>4. skipped' = [p \in Priorities |->
                        IF p = q \/ queue[p] = <<>> THEN 0 ELSE skipped[p] + 1]
      BY <1>3, <2>3 DEF Pop
    <2>5. scheduleAt' \in Slots /\ scheduleAt' = (scheduleAt + k + 1) % ScheduleLen
      BY <2>2, <1>1, SlotStep DEF SlotAfter, Slots, ScheduleLen
    <2>6. ASSUME NEW p \in Priorities, p # q, queue[p] # <<>>
          PROVE  Gap(p, scheduleAt') >= Gap(p, scheduleAt) + 1
      <3>1. \A j \in 0 .. k : writerPrioritySchedule[(scheduleAt + j) % ScheduleLen] # p
        <4> SUFFICES ASSUME NEW j \in 0 .. k
                     PROVE  writerPrioritySchedule[(scheduleAt + j) % ScheduleLen] # p
          OBVIOUS
        <4>1. CASE j = k
          BY <4>1, <2>2, <2>6 DEF SlotAfter
        <4>2. CASE j \in 0 .. k - 1
          BY <4>2, <2>2, <2>6 DEF QueueAfter, SlotAfter
        <4> QED
          BY <4>1, <4>2 DEF Slots, ScheduleLen
      <3> QED
        BY <3>1, <2>5, <1>1, GapGrows, Zenon
    <2>7. ASSUME NEW p \in Priorities
          PROVE  skipped'[p] \in Nat /\ skipped'[p] <= Gap(p, scheduleAt')
      <3>1. skipped[p] \in Nat /\ skipped[p] <= Gap(p, scheduleAt)
        BY DEF BypassInv
      <3>2. Gap(p, scheduleAt') \in Nat /\ Gap(p, scheduleAt) \in Nat
        BY <1>1, <1>2, <2>5
      <3>3. CASE p = q \/ queue[p] = <<>>
        BY <3>2, <3>3, <2>4
      <3>4. CASE p # q /\ queue[p] # <<>>
        <4>1. skipped'[p] = skipped[p] + 1
          BY <3>4, <2>4
        <4>2. Gap(p, scheduleAt') >= Gap(p, scheduleAt) + 1
          BY <3>4, <2>6
        <4> HIDE DEF Gap
        <4> QED
          BY <3>1, <3>2, <4>1, <4>2
      <3> QED
        BY <3>3, <3>4
    <2> QED
      BY <2>4, <2>7 DEF BypassInv, Gap
  <1>4. CASE BypassBeginClosing \/ BypassClose
    <2>1. scheduleAt' = scheduleAt /\ skipped' = [p \in Priorities |-> 0]
      BY <1>4 DEF BypassBeginClosing, BypassClose, beginClosing, closeQueue, releaseQueuedLocked
    <2> QED
      BY <1>1, <1>2, <2>1 DEF BypassInv, Gap
  <1>5. ASSUME NEW i \in Items, Enqueue(i) PROVE BypassInv'
    <2>1. scheduleAt' = scheduleAt /\ skipped' = skipped
      BY <1>5 DEF Enqueue, push
    <2> QED
      BY <2>1 DEF BypassInv, Gap
  <1>6. CASE UNCHANGED bypassVars
    BY <1>6 DEF bypassVars, queueVars, BypassInv, Gap
  <1> QED
    BY <1>3, <1>4, <1>5, <1>6 DEF BypassNext

-----------------------------------------------------------------------------
(* Both invariants hold in every reachable state. *)
LEMMA InvHolds == BypassSpec => [](FiledInv /\ BypassInv)
  <1>1. BypassInit => FiledInv /\ BypassInv
    BY BypassInitInv
  <1>2. FiledInv /\ BypassInv /\ [BypassNext]_bypassVars => (FiledInv /\ BypassInv)'
    BY QueueStep, BypassStep
  <1> QED
    BY <1>1, <1>2, PTL DEF BypassSpec

(* sessionWriter's fields keep their types; in particular the counters of   *)
(* enqueue and popLocked never go below zero.                               *)
THEOREM QueueTypes == BypassSpec => []QueueTypeOK
  <1>1. FiledInv /\ BypassInv => QueueTypeOK
    BY DEF FiledInv
  <1> QED
    BY <1>1, InvHolds, PTL

(* Whatever the limits of SendQueueConfig are, the queue obeys them and its *)
(* frame counter is exact.                                                  *)
THEOREM LimitsHold == BypassSpec => []FramesAccounted
  <1>1. FiledInv /\ BypassInv => FramesAccounted
    BY DEF FiledInv
  <1> QED
    BY <1>1, InvHolds, PTL

(* queuedBytes, which canEnqueue holds against MaxBytes, is the length of   *)
(* the queued frames: the branch of popLocked that clamps it is dead code.  *)
THEOREM BytesExact == BypassSpec => []BytesAccounted
  <1>1. BypassInit => BytesAccounted
    BY NoBytes DEF BypassInit, QueueInit, BytesAccounted
  <1>2. FiledInv /\ FiledInv' /\ BytesAccounted /\ [BypassNext]_bypassVars => BytesAccounted'
    BY BytesStep
  <1>3. FiledInv /\ BypassInv => FiledInv
    OBVIOUS
  <1> QED
    BY <1>1, <1>2, <1>3, InvHolds, PTL DEF BypassSpec

(* After beginClosing only critical control frames are queued, after close  *)
(* none.                                                                    *)
THEOREM ClosingAdmitsControlOnly == BypassSpec => []OnlyControlWhileClosing
  <1>1. FiledInv /\ BypassInv => OnlyControlWhileClosing
    BY DEF FiledInv
  <1> QED
    BY <1>1, InvHolds, PTL

(* A block of the schedule has as many slots as its ends say. *)
LEMMA SizeOfBlock ==
  ASSUME NEW f \in 0 .. 15, NEW l \in 0 .. 15, f <= l
  PROVE  Cardinality(f .. l) = l - f + 1
  <1>1. f \in Int /\ l \in Int /\ ~(f > l)
    OBVIOUS
  <1> QED
    BY <1>1, FS_Interval

(* The largest gap is the number of slots outside the block. *)
LEMMA GapBound ==
  ASSUME NEW f \in 0 .. 15, NEW l \in 0 .. 15, f <= l, NEW s \in 0 .. 15
  PROVE  LET g == IF s > l THEN s - l - 1 ELSE IF s > f THEN 0 ELSE s + 15 - l
         IN  g \in Int /\ g <= 15 - l + f
  OBVIOUS

(* popLocked starves no priority: the bound on overtaking holds for any     *)
(* frames and any limits.                                                   *)
THEOREM NoStarvation == BypassSpec => []BoundedBypass
  <1>1. FiledInv /\ BypassInv => BoundedBypass
    <2> SUFFICES ASSUME FiledInv, BypassInv, NEW p \in Priorities
                 PROVE  skipped[p] <= ScheduleLen - Cardinality(SlotsOf(p))
      BY DEF BoundedBypass
    <2>1. skipped[p] \in Nat /\ skipped[p] <= Gap(p, scheduleAt) /\ scheduleAt \in Slots
      BY DEF FiledInv, QueueTypeOK, BypassInv
    <2>2. FirstSlot[p] \in 0 .. 15 /\ LastSlot[p] \in 0 .. 15 /\ FirstSlot[p] <= LastSlot[p]
      BY DEF FirstSlot, LastSlot, Priorities, PriorityCritical, PriorityIdle
    <2>3. SlotsOf(p) = FirstSlot[p] .. LastSlot[p]
      BY <2>2, Blocks DEF SlotsOf, Slots, ScheduleLen
    <2>4. Cardinality(SlotsOf(p)) = LastSlot[p] - FirstSlot[p] + 1
      BY <2>2, <2>3, SizeOfBlock, Zenon
    <2>5. /\ Gap(p, scheduleAt) \in Int
          /\ Gap(p, scheduleAt) <= 15 - LastSlot[p] + FirstSlot[p]
      <3>1. scheduleAt \in 0 .. 15
        BY <2>1 DEF Slots, ScheduleLen
      <3> QED
        BY <2>2, <3>1, GapBound, Zenon DEF Gap
    <2> HIDE DEF Gap
    <2> QED
      BY <2>1, <2>2, <2>4, <2>5 DEF ScheduleLen
  <1> QED
    BY <1>1, InvHolds, PTL

-----------------------------------------------------------------------------
(* The goroutines: what follows is about Spec of SessionWriter. *)

(* Zenon finds most leaves faster; the others cite SMT. *)
USE Zenon

(* A frame is in the queue of its priority and nowhere twice. *)
QueueInv ==
    /\ QueueTypeOK
    /\ \A p \in Priorities : \A n \in 1 .. Len(queue[p]) : Rank(queue[p][n]) = p
    /\ \A p \in Priorities : \A m, n \in 1 .. Len(queue[p]) : queue[p][m] = queue[p][n] => m = n

(* Where the goroutines may be. *)
PcTypes ==
    /\ pc \in [Threads -> {"lock", "start", "wait", "write", "written", "failed", "exited",
                           "accepted", "refused", "return", "store", "done"}]
    /\ pc[Run] \in {"lock", "wait", "write", "written", "failed", "exited"}
    /\ \A i \in Items : pc[i] \in {"start", "wait", "accepted", "refused"}
    /\ \A f \in Flushers : pc[f] \in {"start", "wait", "return", "store", "done"}

(* The types of what the goroutines share. *)
GoTypes ==
    /\ waiters \in Seq(Threads)
    /\ writing \in Items \cup {NoItem}
    /\ inFlight \in BOOLEAN
    /\ ctxDone \subseteq Cancellable
    /\ expired \subseteq Items
    /\ armed \subseteq Items \cup Flushers

(* Who holds a frame: its caller, the queue, run, or nobody any more. *)
HoldInv ==
    /\ \A i \in Items : Queued(i) => pc[i] = "accepted"
    /\ pc[Run] = "write" <=> writing # NoItem
    /\ writing # NoItem => pc[writing] = "accepted" /\ ~Queued(writing)
    /\ released \in [Items -> Nat]
    /\ ReleasedOnce

(* The callers of enqueue in cond.Wait. *)
Waiting == {i \in Items : pc[i] = "wait"}

(* queueWaiters, which run reads to decide whether to wake enqueue, counts *)
(* the enqueue calls that wait.                                            *)
WaitInv == IsFiniteSet(Waiting) /\ queueWaiters = Cardinality(Waiting)

(* The inductive invariant of the writer, but for what concerns wake-ups. *)
IInv == QueueInv /\ PcTypes /\ GoTypes /\ HoldInv /\ WaitInv /\ OnlyControlWhileClosing

-----------------------------------------------------------------------------
(* A frame that is not queued is added behind its queue. *)
LEMMA PushFacts ==
  ASSUME QueueInv, NEW i \in Items, ~Queued(i), push(i)
  PROVE  /\ QueueInv'
         /\ \A j \in Items : Queued(j)' <=> Queued(j) \/ j = i
  <1> DEFINE r == Rank(i)
  <1>1. r \in Priorities
    BY RankType
  <1>2. queue \in [Priorities -> Seq(Items)]
    BY DEF QueueInv, QueueTypeOK
  <1>3. queue' = [queue EXCEPT ![r] = Append(queue[r], i)]
    BY DEF push
  <1> HIDE DEF r
  <1>4. /\ queue' \in [Priorities -> Seq(Items)]
        /\ \A p \in Priorities : p # r => queue'[p] = queue[p]
        /\ queue'[r] = Append(queue[r], i) /\ Len(queue'[r]) = Len(queue[r]) + 1
        /\ queue'[r][Len(queue[r]) + 1] = i
        /\ \A n \in 1 .. Len(queue[r]) : queue'[r][n] = queue[r][n]
    BY <1>1, <1>2, <1>3, SMT
  <1>5. QueueTypeOK'
    <2>1. controlOnly' \in BOOLEAN /\ closed' \in BOOLEAN
      BY Zenon DEF push, QueueInv, QueueTypeOK
    <2>2. queuedItems' \in Nat /\ queuedBytes' \in Nat /\ scheduleAt' \in Slots
      BY ItemAssumption, SMT DEF push, QueueInv, QueueTypeOK
    <2> QED
      BY <1>4, <2>1, <2>2, Zenon DEF QueueTypeOK
  <1>6. \A p \in Priorities : Len(queue[p]) \in Nat
    BY <1>2, SMT
  <1>7. \A n \in 1 .. Len(queue[r]) + 1 : n \in 1 .. Len(queue[r]) \/ n = Len(queue[r]) + 1
    BY <1>1, <1>6, SMT
  <1>8. \A n \in 1 .. Len(queue[r]) : queue[r][n] # i
    BY <1>1 DEF Queued
  <1>9. \A p \in Priorities : \A n \in 1 .. Len(queue'[p]) : Rank(queue'[p][n]) = p
    <2> SUFFICES ASSUME NEW p \in Priorities, NEW n \in 1 .. Len(queue'[p])
                 PROVE  Rank(queue'[p][n]) = p
      BY Zenon
    <2>1. CASE p # r
      BY <2>1, <1>4, Zenon DEF QueueInv
    <2>2. CASE p = r
      <3>1. n \in 1 .. Len(queue[r]) \/ n = Len(queue[r]) + 1
        BY <2>2, <1>4, <1>7, Zenon
      <3>2. \A m \in 1 .. Len(queue[r]) : Rank(queue[r][m]) = r
        BY <1>1, Zenon DEF QueueInv
      <3>3. Rank(i) = r
        BY Zenon DEF r
      <3> QED
        BY <1>4, <2>2, <3>1, <3>2, <3>3, Zenon
    <2> QED
      BY <2>1, <2>2, Zenon
  <1>10. \A p \in Priorities : \A m, n \in 1 .. Len(queue'[p]) : queue'[p][m] = queue'[p][n] => m = n
    <2> SUFFICES ASSUME NEW p \in Priorities, NEW m \in 1 .. Len(queue'[p]),
                        NEW n \in 1 .. Len(queue'[p]), queue'[p][m] = queue'[p][n]
                 PROVE  m = n
      OBVIOUS
    <2>1. \A x, y \in 1 .. Len(queue[p]) : queue[p][x] = queue[p][y] => x = y
      BY DEF QueueInv
    <2>2. CASE p # r
      BY <2>1, <2>2, <1>4
    <2>3. CASE p = r
      <3>1. /\ m \in 1 .. Len(queue[r]) \/ m = Len(queue[r]) + 1
            /\ n \in 1 .. Len(queue[r]) \/ n = Len(queue[r]) + 1
        BY <2>3, <1>4, <1>7
      <3> QED
        BY <2>1, <2>3, <3>1, <1>4, <1>8
    <2> QED
      BY <2>2, <2>3
  <1>11. \A j \in Items : Queued(j)' <=> Queued(j) \/ j = i
    <2> SUFFICES ASSUME NEW j \in Items PROVE Queued(j)' <=> Queued(j) \/ j = i
      OBVIOUS
    <2>1. Queued(j)' => Queued(j) \/ j = i
      <3> SUFFICES ASSUME NEW p \in Priorities, NEW n \in 1 .. Len(queue'[p]), queue'[p][n] = j
                   PROVE  Queued(j) \/ j = i
        BY DEF Queued
      <3>1. CASE p = r
        BY <3>1, <1>4, <1>7 DEF Queued
      <3>2. CASE p # r
        BY <3>2, <1>4 DEF Queued
      <3> QED
        BY <3>1, <3>2
    <2>2. Queued(j) => Queued(j)'
      <3> SUFFICES ASSUME NEW p \in Priorities, NEW n \in 1 .. Len(queue[p]), queue[p][n] = j
                   PROVE  Queued(j)'
        BY DEF Queued
      <3>1. n \in 1 .. Len(queue'[p]) /\ queue'[p][n] = j
        <4>1. \A m \in 1 .. Len(queue[r]) : m \in 1 .. Len(queue[r]) + 1
          BY <1>1, <1>6, SMT
        <4> QED
          BY <1>4, <4>1, Zenon
      <3> QED
        BY <3>1 DEF Queued
    <2>3. Queued(i)'
      <3>1. Len(queue[r]) + 1 \in 1 .. Len(queue[r]) + 1
        BY <1>1, <1>6, SMT
      <3> QED
        BY <1>1, <1>4, <3>1, Zenon DEF Queued
    <2> QED
      BY <2>1, <2>2, <2>3
  <1> QED
    BY <1>5, <1>9, <1>10, <1>11 DEF QueueInv

(* popLocked removes the frame it returns. *)
LEMMA PopFacts ==
  ASSUME QueueInv, NEW i \in Items, popLocked(i), queuedItems > 0
  PROVE  /\ QueueInv' /\ Queued(i) /\ ~Queued(i)'
         /\ \A j \in Items : Queued(j)' <=> Queued(j) /\ j # i
         /\ queuedItems' = queuedItems - 1
         /\ queuedBytes' = IF queuedBytes >= size[i] THEN queuedBytes - size[i] ELSE 0
         /\ UNCHANGED <<controlOnly, closed>>
  <1>1. PICK k \in Slots :
           /\ QueueAfter(k) # <<>> /\ i = Head(QueueAfter(k))
           /\ queue' = [queue EXCEPT ![writerPrioritySchedule[SlotAfter(k)]] = Tail(@)]
           /\ scheduleAt' = SlotAfter(k + 1)
           /\ queuedItems' = queuedItems - 1
           /\ queuedBytes' = IF queuedBytes >= size[i] THEN queuedBytes - size[i] ELSE 0
           /\ UNCHANGED <<controlOnly, closed>>
    BY DEF popLocked
  <1> DEFINE r == writerPrioritySchedule[SlotAfter(k)]
  <1>2. SlotAfter(k) \in Slots /\ SlotAfter(k + 1) \in Slots
    BY SMT DEF SlotAfter, Slots, ScheduleLen, QueueInv, QueueTypeOK
  <1>3. r \in Priorities
    BY <1>2, SMT DEF writerPrioritySchedule, Slots, ScheduleLen, Priorities, PriorityCritical, PriorityIdle
  <1>4. queue \in [Priorities -> Seq(Items)] /\ queue[r] # <<>> /\ i = Head(queue[r])
    BY <1>1 DEF QueueInv, QueueTypeOK, QueueAfter
  <1>5. queue' = [queue EXCEPT ![r] = Tail(queue[r])]
    BY <1>1
  <1> HIDE DEF r
  <1>6. /\ queue' \in [Priorities -> Seq(Items)]
        /\ \A p \in Priorities : p # r => queue'[p] = queue[p]
        /\ Len(queue[r]) \in Nat /\ Len(queue[r]) > 0 /\ i = queue[r][1]
        /\ Len(queue'[r]) = Len(queue[r]) - 1
        /\ \A n \in 1 .. Len(queue[r]) - 1 : queue'[r][n] = queue[r][n + 1]
    BY <1>3, <1>4, <1>5, SMT
  <1>7. QueueTypeOK'
    <2>1. controlOnly' \in BOOLEAN /\ closed' \in BOOLEAN
      BY <1>1, Zenon DEF QueueInv, QueueTypeOK
    <2>2. queuedItems' \in Nat /\ queuedBytes' \in Nat /\ scheduleAt' \in Slots
      BY <1>1, <1>2, ItemAssumption, SMT DEF QueueInv, QueueTypeOK
    <2> QED
      BY <1>6, <2>1, <2>2, Zenon DEF QueueTypeOK
  <1>8. \A n \in 1 .. Len(queue[r]) - 1 : n + 1 \in 1 .. Len(queue[r]) /\ n + 1 # 1
    BY <1>6, SMT
  <1>9. \A n \in 1 .. Len(queue[r]) : n # 1 => n - 1 \in 1 .. Len(queue[r]) - 1 /\ (n - 1) + 1 = n
    BY <1>6, SMT
  <1>10. 1 \in 1 .. Len(queue[r])
    BY <1>6, SMT
  <1>11. \A p \in Priorities : \A n \in 1 .. Len(queue'[p]) : Rank(queue'[p][n]) = p
    <2> SUFFICES ASSUME NEW p \in Priorities, NEW n \in 1 .. Len(queue'[p])
                 PROVE  Rank(queue'[p][n]) = p
      BY Zenon
    <2>0. \A m \in 1 .. Len(queue[p]) : Rank(queue[p][m]) = p
      BY Zenon DEF QueueInv
    <2>1. CASE p = r
      <3>1. n \in 1 .. Len(queue[r]) - 1
        BY <1>6, <2>1, Zenon
      <3>2. n + 1 \in 1 .. Len(queue[r]) /\ queue'[r][n] = queue[r][n + 1]
        BY <1>6, <1>8, <3>1, Zenon
      <3> QED
        BY <2>0, <2>1, <3>2, Zenon
    <2>2. CASE p # r
      BY <1>6, <2>0, <2>2, Zenon
    <2> QED
      BY <2>1, <2>2, Zenon
  <1>12. \A p \in Priorities : \A m, n \in 1 .. Len(queue'[p]) : queue'[p][m] = queue'[p][n] => m = n
    <2> SUFFICES ASSUME NEW p \in Priorities, NEW m \in 1 .. Len(queue'[p]),
                        NEW n \in 1 .. Len(queue'[p]), queue'[p][m] = queue'[p][n]
                 PROVE  m = n
      OBVIOUS
    <2>1. \A x, y \in 1 .. Len(queue[p]) : queue[p][x] = queue[p][y] => x = y
      BY DEF QueueInv
    <2>2. CASE p # r
      BY <2>1, <2>2, <1>6
    <2>3. CASE p = r
      <3>1. 1 .. Len(queue'[r]) = 1 .. Len(queue[r]) - 1
        BY <1>6
      <3>2. /\ queue'[r][m] = queue[r][m + 1] /\ queue'[r][n] = queue[r][n + 1]
            /\ m + 1 \in 1 .. Len(queue[r]) /\ n + 1 \in 1 .. Len(queue[r])
        BY <2>3, <3>1, <1>6, <1>8
      <3>3. m + 1 = n + 1
        BY <2>1, <2>3, <3>2
      <3> QED
        BY <3>3, SMT
    <2> QED
      BY <2>2, <2>3
  <1>13. Queued(i) /\ Rank(i) = r
    BY <1>3, <1>6, <1>10 DEF Queued, QueueInv
  <1>14. ASSUME NEW j \in Items, Queued(j)' PROVE Queued(j) /\ j # i
    <2>0. PICK p \in Priorities : \E n \in 1 .. Len(queue'[p]) : queue'[p][n] = j
      BY <1>14 DEF Queued
    <2>1. PICK n \in 1 .. Len(queue'[p]) : queue'[p][n] = j
      BY <2>0
    <2>2. CASE p = r
      <3>1. n + 1 \in 1 .. Len(queue[r]) /\ n + 1 # 1 /\ queue[r][n + 1] = j
        BY <2>1, <2>2, <1>6, <1>8
      <3>2. queue[r][n + 1] # queue[r][1]
        BY <3>1, <1>3, <1>10 DEF QueueInv
      <3> QED
        BY <3>1, <3>2, <1>3, <1>6 DEF Queued
    <2>3. CASE p # r
      <3>1. n \in 1 .. Len(queue[p]) /\ queue[p][n] = j
        BY <1>6, <2>1, <2>3, Zenon
      <3>2. Rank(j) = p
        BY <3>1, Zenon DEF QueueInv
      <3> QED
        BY <2>3, <1>13, <3>1, <3>2, Zenon DEF Queued
    <2> QED
      BY <2>2, <2>3
  <1>15. ASSUME NEW j \in Items, Queued(j), j # i PROVE Queued(j)'
    <2>0. PICK p \in Priorities : \E n \in 1 .. Len(queue[p]) : queue[p][n] = j
      BY <1>15 DEF Queued
    <2>1. PICK n \in 1 .. Len(queue[p]) : queue[p][n] = j
      BY <2>0
    <2>2. CASE p = r
      <3>1. n # 1
        BY <2>1, <2>2, <1>6, <1>15
      <3>2. n - 1 \in 1 .. Len(queue'[r]) /\ queue'[r][n - 1] = j
        BY <2>1, <2>2, <3>1, <1>6, <1>9
      <3> QED
        BY <3>2, <1>3 DEF Queued
    <2>3. CASE p # r
      BY <2>1, <2>3, <1>6 DEF Queued
    <2> QED
      BY <2>2, <2>3
  <1>16. ~Queued(i)'
    BY <1>14
  <1> QED
    BY <1>1, <1>7, <1>11, <1>12, <1>13, <1>14, <1>15, <1>16 DEF QueueInv

(* releaseQueuedLocked leaves nothing. *)
LEMMA ReleaseFacts ==
  ASSUME QueueInv, releaseQueuedLocked, controlOnly' \in BOOLEAN, closed' \in BOOLEAN
  PROVE  QueueInv' /\ (\A j \in Items : ~Queued(j)') /\ queuedItems' = 0 /\ queuedBytes' = 0
  <1>1. \A p \in Priorities : queue'[p] = <<>> /\ Len(queue'[p]) = 0
    BY DEF releaseQueuedLocked
  <1>2. /\ queue' \in [Priorities -> Seq(Items)] /\ scheduleAt' \in Slots
        /\ queuedItems' = 0 /\ queuedBytes' = 0
    BY SMT DEF releaseQueuedLocked, QueueInv, QueueTypeOK
  <1>3. QueueTypeOK'
    BY <1>2 DEF QueueTypeOK
  <1>4. \A p \in Priorities : 1 .. Len(queue'[p]) = {}
    BY <1>1, SMT
  <1> QED
    BY <1>2, <1>3, <1>4 DEF QueueInv, Queued

-----------------------------------------------------------------------------
(* A new writer satisfies the invariant. *)
LEMMA InitInv == Init => IInv
  <1> SUFFICES ASSUME Init PROVE IInv
    OBVIOUS
  <1> USE DEF Init, QueueInit
  <1>1. QueueInv
    <2>1. queue \in [Priorities -> Seq(Items)] /\ scheduleAt \in Slots
      BY SMT DEF Slots, ScheduleLen
    <2>2. controlOnly \in BOOLEAN /\ closed \in BOOLEAN
      BY Zenon
    <2>3. \A p \in Priorities : 1 .. Len(queue[p]) = {}
      BY SMT
    <2> QED
      BY <2>1, <2>2, <2>3 DEF QueueInv, QueueTypeOK
  <1>2. \A i \in Items : ~Queued(i)
    <2>1. \A p \in Priorities : 1 .. Len(queue[p]) = {}
      BY SMT
    <2> QED
      BY <2>1 DEF Queued
  <1>3. /\ PcTypes /\ pc[Run] = "lock"
        /\ \A i \in Items : pc[i] = "start"
    BY ThreadAssumption DEF PcTypes, Threads
  <1>4. GoTypes
    <2>1. /\ waiters \in Seq(Threads) /\ ctxDone \subseteq Cancellable /\ expired \subseteq Items
          /\ armed \subseteq Items \cup Flushers
      BY SMT
    <2>2. inFlight \in BOOLEAN /\ writing \in Items \cup {NoItem}
      BY Zenon
    <2> QED
      BY <2>1, <2>2, Zenon DEF GoTypes
  <1>5. HoldInv
    BY <1>2, <1>3 DEF HoldInv, ReleasedOnce
  <1>6. WaitInv
    <2>1. Waiting = {}
      BY <1>3 DEF Waiting
    <2> QED
      BY <2>1, FS_EmptySet DEF WaitInv
  <1>7. OnlyControlWhileClosing
    BY <1>2 DEF OnlyControlWhileClosing
  <1> QED
    BY <1>1, <1>3, <1>4, <1>5, <1>6, <1>7 DEF IInv

(* A goroutine moves on. *)
LEMMA GotoFacts ==
  ASSUME IInv, NEW t \in Threads, NEW l, Goto(t, l)
  PROVE  pc'[t] = l /\ \A u \in Threads : u # t => pc'[u] = pc[u]
  BY DEF IInv, PcTypes, Goto

(* run, the callers of enqueue and those of flush are different goroutines. *)
LEMMA ThreadKinds ==
  /\ Run \in Threads /\ Items \subseteq Threads /\ Flushers \subseteq Threads
  /\ \A i \in Items : i # Run /\ i # NoItem /\ i \notin Flushers
  /\ \A f \in Flushers : f # Run /\ f \notin Items
  BY ThreadAssumption DEF Threads

(* A step of run moves no other goroutine. *)
LEMMA RunMoves ==
  ASSUME IInv, NEW l \in {"lock", "wait", "write", "written", "failed", "exited"}, Goto(Run, l)
  PROVE  /\ PcTypes' /\ pc'[Run] = l
         /\ (\A i \in Items : pc'[i] = pc[i]) /\ (\A f \in Flushers : pc'[f] = pc[f])
         /\ Waiting' = Waiting
  BY GotoFacts, ThreadKinds, ZenonT(30) DEF IInv, PcTypes, Goto, Waiting

(* A step of a flush call moves no other goroutine. *)
LEMMA FlushMoves ==
  ASSUME IInv, NEW f \in Flushers, NEW l \in {"start", "wait", "return", "store", "done"}, Goto(f, l)
  PROVE  /\ PcTypes' /\ pc'[f] = l /\ pc'[Run] = pc[Run]
         /\ (\A i \in Items : pc'[i] = pc[i])
         /\ (\A g \in Flushers : g # f => pc'[g] = pc[g])
         /\ Waiting' = Waiting
  BY GotoFacts, ThreadKinds, ZenonT(30) DEF IInv, PcTypes, Goto, Waiting

(* A step of an enqueue call moves no other goroutine. *)
LEMMA EnqueueMoves ==
  ASSUME IInv, NEW i \in Items, NEW l \in {"start", "wait", "accepted", "refused"}, Goto(i, l)
  PROVE  /\ PcTypes' /\ pc'[i] = l /\ pc'[Run] = pc[Run]
         /\ (\A j \in Items : j # i => pc'[j] = pc[j])
         /\ (\A f \in Flushers : pc'[f] = pc[f])
         /\ Waiting' = IF l = "wait" THEN (Waiting \ {i}) \cup {i} ELSE Waiting \ {i}
  BY GotoFacts, ThreadKinds, SMT DEF IInv, PcTypes, Goto, Waiting

(* The wait list. *)
LEMMA SignalTypes ==
  ASSUME waiters \in Seq(Threads), Signal \/ Broadcast
  PROVE  waiters' \in Seq(Threads)
  <1>1. CASE waiters = <<>> \/ Broadcast
    <2>1. waiters' = <<>>
      BY <1>1 DEF Signal, Broadcast
    <2> HIDE DEF Threads
    <2> QED
      BY <2>1, SMT
  <1>2. CASE waiters # <<>> /\ Signal
    <2>1. waiters' = Tail(waiters)
      BY <1>2 DEF Signal
    <2> HIDE DEF Threads
    <2> QED
      BY <1>2, <2>1, SMT
  <1> QED
    BY <1>1, <1>2

(* Wait keeps the notify list a list of goroutines. *)
LEMMA WaitTypes ==
  ASSUME waiters \in Seq(Threads), NEW t \in Threads, Wait(t)
  PROVE  waiters' \in Seq(Threads)
  BY SMT DEF Wait

(* The queue is not touched. *)
LEMMA SameQueue ==
  ASSUME UNCHANGED queueVars, QueueInv, OnlyControlWhileClosing
  PROVE  QueueInv' /\ (\A j \in Items : Queued(j)' <=> Queued(j)) /\ OnlyControlWhileClosing'
  BY Zenon DEF queueVars, QueueInv, QueueTypeOK, Queued, OnlyControlWhileClosing

(* No frame changes hands. *)
LEMMA HoldKept ==
  ASSUME IInv, \A j \in Items : Queued(j)' <=> Queued(j), \A i \in Items : pc'[i] = pc[i],
         pc'[Run] = "write" <=> pc[Run] = "write", writing' = writing, released' = released
  PROVE  HoldInv'
  <1>1. /\ \A i \in Items : Queued(i)' => pc'[i] = "accepted"
        /\ pc'[Run] = "write" <=> writing' # NoItem
        /\ released' \in [Items -> Nat]
    BY DEF IInv, HoldInv
  <1>2. writing # NoItem => writing \in Items /\ pc[writing] = "accepted" /\ ~Queued(writing)
    BY DEF IInv, HoldInv, GoTypes
  <1>3. writing # NoItem => pc'[writing] = "accepted" /\ ~Queued(writing)'
    BY <1>2
  <1>4. ReleasedOnce'
    BY DEF IInv, HoldInv, ReleasedOnce
  <1> QED
    BY <1>1, <1>3, <1>4 DEF HoldInv

(* A step that leaves the queue, the frames and the callers alone. *)
LEMMA SameState ==
  ASSUME IInv, GoTypes', UNCHANGED <<queueVars, pc, writing, queueWaiters, released>>
  PROVE  IInv'
  <1>1. QueueInv' /\ (\A j \in Items : Queued(j)' <=> Queued(j)) /\ OnlyControlWhileClosing'
    BY SameQueue DEF IInv
  <1>2. PcTypes' /\ WaitInv'
    BY Zenon DEF IInv, PcTypes, WaitInv, Waiting
  <1>3. HoldInv'
    BY <1>1, HoldKept
  <1> QED
    BY <1>1, <1>2, <1>3 DEF IInv

-----------------------------------------------------------------------------
(* The steps of enqueue. *)

(* How many calls wait besides that of i. *)
LEMMA OtherWaiters ==
  ASSUME IInv, NEW i \in Items
  PROVE  /\ IsFiniteSet(Waiting \ {i}) /\ Cardinality(Waiting \ {i}) \in Nat
         /\ pc[i] = "start" => Cardinality(Waiting \ {i}) = queueWaiters
         /\ pc[i] = "wait" => Cardinality(Waiting \ {i}) = queueWaiters - 1
  <1>1. IsFiniteSet(Waiting) /\ queueWaiters = Cardinality(Waiting)
    BY DEF IInv, WaitInv
  <1>2. /\ IsFiniteSet(Waiting \ {i})
        /\ Cardinality(Waiting \ {i}) = IF i \in Waiting THEN Cardinality(Waiting) - 1
                                         ELSE Cardinality(Waiting)
    BY <1>1, FS_RemoveElement, Zenon
  <1>3. Cardinality(Waiting \ {i}) \in Nat
    BY <1>2, FS_CardinalityType, Zenon
  <1>4. (pc[i] = "start" => i \notin Waiting) /\ (pc[i] = "wait" => i \in Waiting)
    BY DEF Waiting
  <1> QED
    BY <1>1, <1>2, <1>3, <1>4

(* enqueue files the frame. *)
LEMMA EnqueueAcceptInv ==
  ASSUME IInv, NEW i \in Items, NEW q, pc[i] \in {"start", "wait"}, q = Cardinality(Waiting \ {i}),
         EnqueueAccept(i, q), UNCHANGED <<writing, inFlight, ctxDone, expired>>
  PROVE  IInv'
  <1>1. /\ push(i) /\ Goto(i, "accepted") /\ queueWaiters' = q /\ UNCHANGED released /\ Signal
        /\ armed' \subseteq armed
    BY DEF EnqueueAccept, StopAfterFunc
  <1>2. ~Queued(i) /\ writing # i
    BY ThreadKinds DEF IInv, HoldInv
  <1>3. QueueInv' /\ \A j \in Items : Queued(j)' <=> Queued(j) \/ j = i
    BY <1>1, <1>2, PushFacts DEF IInv
  <1>4. /\ PcTypes' /\ pc'[i] = "accepted" /\ pc'[Run] = pc[Run]
        /\ \A j \in Items : j # i => pc'[j] = pc[j]
        /\ Waiting' = Waiting \ {i}
    BY <1>1, EnqueueMoves
  <1>5. GoTypes'
    BY <1>1, SignalTypes DEF IInv, GoTypes
  <1>6. HoldInv'
    BY <1>1, <1>2, <1>3, <1>4, ThreadKinds DEF IInv, HoldInv, ReleasedOnce, GoTypes
  <1>7. WaitInv'
    BY <1>1, <1>4, OtherWaiters DEF WaitInv
  <1>8. OnlyControlWhileClosing'
    <2>1. /\ controlOnly' = controlOnly /\ ~closed'
          /\ controlOnly => Rank(i) = PriorityCritical /\ control[i]
      BY Zenon DEF EnqueueAccept, push, Admissible
    <2>2. controlOnly =>
              \A j \in Items : Queued(j) => Rank(j) = PriorityCritical /\ control[j]
      BY Zenon DEF IInv, OnlyControlWhileClosing
    <2> QED
      BY <1>3, <2>1, <2>2, Zenon DEF OnlyControlWhileClosing
  <1> QED
    BY <1>3, <1>4, <1>5, <1>6, <1>7, <1>8 DEF IInv

(* releaseItem, for one frame. *)
GivesBack(i) == released' = [released EXCEPT ![i] = @ + 1]

(* enqueue turns the frame away and releases it. *)
LEMMA EnqueueRefuseInv ==
  ASSUME IInv, NEW i \in Items, NEW q, pc[i] \in {"start", "wait"}, q = Cardinality(Waiting \ {i}),
         GivesBack(i), Goto(i, "refused"), queueWaiters' = q,
         UNCHANGED <<queueVars, waiters, writing, inFlight, ctxDone>>,
         expired' \subseteq Items, armed' \subseteq armed
  PROVE  IInv'
  <1>2. ~Queued(i) /\ writing # i
    BY ThreadKinds DEF IInv, HoldInv
  <1>3. QueueInv' /\ (\A j \in Items : Queued(j)' <=> Queued(j)) /\ OnlyControlWhileClosing'
    BY SameQueue DEF IInv
  <1>4. /\ PcTypes' /\ pc'[i] = "refused" /\ pc'[Run] = pc[Run]
        /\ \A j \in Items : j # i => pc'[j] = pc[j]
        /\ Waiting' = Waiting \ {i}
    BY EnqueueMoves
  <1>5. GoTypes'
    BY Zenon DEF IInv, GoTypes
  <1>6. /\ released' \in [Items -> Nat] /\ released'[i] = released[i] + 1
        /\ \A j \in Items : j # i => released'[j] = released[j]
    BY SMTT(30) DEF GivesBack, IInv, HoldInv
  <1>7. HoldInv'
    <2>1. released[i] = 0
      BY <1>2, Zenon DEF IInv, HoldInv, ReleasedOnce
    <2>2. released'[i] = 1
      BY <1>6, <2>1, SMT
    <2>3. ReleasedOnce'
      <3> SUFFICES ASSUME NEW j \in Items
                   PROVE  released'[j] = IF \/ pc'[j] = "refused"
                                            \/ pc'[j] = "accepted" /\ ~Queued(j)' /\ writing' # j
                                         THEN 1 ELSE 0
        BY Zenon DEF ReleasedOnce
      <3>1. CASE j = i
        BY <3>1, <2>2, <1>4, Zenon
      <3>2. CASE j # i
        BY <3>2, <1>3, <1>4, <1>6, Zenon DEF IInv, HoldInv, ReleasedOnce
      <3> QED
        BY <3>1, <3>2, Zenon
    <2>4. \A j \in Items : Queued(j)' => pc'[j] = "accepted"
      BY <1>2, <1>3, <1>4, Zenon DEF IInv, HoldInv
    <2>5. pc'[Run] = "write" <=> writing' # NoItem
      BY <1>4, Zenon DEF IInv, HoldInv
    <2>6. writing' # NoItem => pc'[writing'] = "accepted" /\ ~Queued(writing)'
      BY <1>2, <1>3, <1>4, Zenon DEF IInv, HoldInv, GoTypes
    <2> QED
      BY <1>6, <2>3, <2>4, <2>5, <2>6, Zenon DEF HoldInv
  <1>8. WaitInv'
    BY <1>4, OtherWaiters DEF WaitInv
  <1> QED
    BY <1>3, <1>4, <1>5, <1>7, <1>8 DEF IInv

(* enqueue goes to cond.Wait on a full queue. *)
LEMMA EnqueueWaitInv ==
  ASSUME IInv, NEW i \in Items, NEW q, pc[i] \in {"start", "wait"}, q = Cardinality(Waiting \ {i}),
         EnqueueWait(i, q), UNCHANGED <<writing, inFlight, ctxDone, expired>>
  PROVE  IInv'
  <1>1. /\ Wait(i) /\ Goto(i, "wait") /\ queueWaiters' = q + 1 /\ UNCHANGED <<queueVars, released>>
        /\ armed' = armed \cup {i}
    BY DEF EnqueueWait
  <1>2. ~Queued(i) /\ writing # i
    BY ThreadKinds DEF IInv, HoldInv
  <1>3. QueueInv' /\ (\A j \in Items : Queued(j)' <=> Queued(j)) /\ OnlyControlWhileClosing'
    BY <1>1, SameQueue DEF IInv
  <1>4. /\ PcTypes' /\ pc'[i] = "wait" /\ pc'[Run] = pc[Run]
        /\ \A j \in Items : j # i => pc'[j] = pc[j]
        /\ Waiting' = (Waiting \ {i}) \cup {i}
    BY <1>1, EnqueueMoves
  <1>5. GoTypes'
    BY <1>1, WaitTypes, ThreadKinds DEF IInv, GoTypes
  <1>6. HoldInv'
    BY <1>1, <1>2, <1>3, <1>4, ThreadKinds DEF IInv, HoldInv, ReleasedOnce, GoTypes
  <1>7. WaitInv'
    <2>1. IsFiniteSet(Waiting \ {i}) /\ i \notin Waiting \ {i}
      BY OtherWaiters
    <2>2. /\ IsFiniteSet((Waiting \ {i}) \cup {i})
          /\ Cardinality((Waiting \ {i}) \cup {i}) = Cardinality(Waiting \ {i}) + 1
      BY <2>1, FS_AddElement, Zenon
    <2> QED
      BY <1>1, <1>4, <2>2 DEF WaitInv
  <1> QED
    BY <1>3, <1>4, <1>5, <1>6, <1>7 DEF IInv

(* One pass through the loop of enqueue, first or after a wake-up. *)
LEMMA EnqueueLoopInv ==
  ASSUME IInv, NEW i \in Items, NEW q, pc[i] \in {"start", "wait"}, q = Cardinality(Waiting \ {i}),
         EnqueueLoop(i, q)
  PROVE  IInv'
  <1>1. UNCHANGED <<writing, inFlight, ctxDone, expired>>
    BY DEF EnqueueLoop
  <1>2. CASE EnqueueAccept(i, q)
    BY <1>1, <1>2, EnqueueAcceptInv, SMT
  <1>3. CASE EnqueueRefuse(i, q)
    <2>1. /\ GivesBack(i) /\ Goto(i, "refused")
          /\ queueWaiters' = q /\ armed' \subseteq armed /\ expired' \subseteq Items
          /\ UNCHANGED <<queueVars, waiters, writing, inFlight, ctxDone>>
      BY <1>1, <1>3 DEF EnqueueRefuse, GivesBack, StopAfterFunc, IInv, GoTypes
    <2> QED
      BY <2>1, EnqueueRefuseInv, SMT
  <1>4. CASE EnqueueWait(i, q)
    BY <1>1, <1>4, EnqueueWaitInv, SMT
  <1> QED
    BY <1>2, <1>3, <1>4 DEF EnqueueLoop

(* The steps of the callers of enqueue. *)
LEMMA EnqueueInv ==
  ASSUME IInv, NEW i \in Items, EnqueueStep(i) \/ DeadlinePasses(i)
  PROVE  IInv'
  <1> DEFINE q == Cardinality(Waiting \ {i})
  <1>1. CASE EnqueueStart(i)
    <2>1. pc[i] = "start" /\ EnqueueLoop(i, queueWaiters)
      BY <1>1 DEF EnqueueStart
    <2>2. queueWaiters = q
      BY <2>1, OtherWaiters
    <2>3. EnqueueLoop(i, q)
      BY <2>1, <2>2
    <2> QED
      BY <2>1, <2>3, EnqueueLoopInv, SMT
  <1>2. CASE EnqueueWoken(i)
    <2>1. pc[i] = "wait" /\ EnqueueLoop(i, queueWaiters - 1)
      BY <1>2 DEF EnqueueWoken
    <2>2. queueWaiters - 1 = q
      BY <2>1, OtherWaiters
    <2>3. EnqueueLoop(i, q)
      BY <2>1, <2>2
    <2> QED
      BY <2>1, <2>3, EnqueueLoopInv, SMT
  <1>3. CASE EnqueueTurnedAway(i) \/ EnqueueLate(i)
    <2>1. /\ GivesBack(i) /\ Goto(i, "refused")
          /\ UNCHANGED <<queueVars, waiters, writing, inFlight, ctxDone>>
          /\ pc[i] = "start" /\ queueWaiters' = queueWaiters
          /\ expired' \subseteq Items /\ armed' \subseteq armed
      BY <1>3 DEF EnqueueTurnedAway, EnqueueLate, GivesBack, IInv, GoTypes
    <2>2. queueWaiters' = q
      BY <2>1, OtherWaiters
    <2> QED
      BY <2>1, <2>2, EnqueueRefuseInv, SMT
  <1>4. CASE DeadlinePasses(i)
    <2>1. /\ expired' = expired \cup {i}
          /\ UNCHANGED <<queueVars, waiters, pc, writing, inFlight, queueWaiters, ctxDone, armed, released>>
      BY <1>4 DEF DeadlinePasses
    <2>2. GoTypes'
      BY <2>1, Zenon DEF IInv, GoTypes
    <2>3. UNCHANGED <<queueVars, pc, writing, queueWaiters, released>>
      BY <2>1
    <2> QED
      BY <2>2, <2>3, SameState
  <1> QED
    BY <1>1, <1>2, <1>3, <1>4 DEF EnqueueStep

-----------------------------------------------------------------------------
(* The steps of flush and of the contexts. *)
LEMMA FlushInv ==
  ASSUME IInv, NEW f \in Flushers, FlushStep(f)
  PROVE  IInv'
  <1>1. /\ UNCHANGED <<queueVars, writing, inFlight, queueWaiters, ctxDone, expired, released>>
        /\ Wait(f) \/ UNCHANGED waiters
        /\ armed' \subseteq armed \cup {f}
        /\ \E l \in {"wait", "return", "store", "done"} : Goto(f, l)
    BY DEF FlushStep, FlushStart, FlushWoken, FlushLoop, FlushLoad, FlushStore, StopAfterFunc
  <1>2. PICK l \in {"wait", "return", "store", "done"} : Goto(f, l)
    BY <1>1
  <1>3. PcTypes' /\ pc'[Run] = pc[Run] /\ (\A i \in Items : pc'[i] = pc[i]) /\ Waiting' = Waiting
    BY <1>2, FlushMoves
  <1>4. GoTypes'
    BY <1>1, WaitTypes, ThreadKinds DEF IInv, GoTypes
  <1>5. QueueInv' /\ (\A j \in Items : Queued(j)' <=> Queued(j)) /\ OnlyControlWhileClosing'
    BY <1>1, SameQueue DEF IInv
  <1>6. HoldInv'
    BY <1>1, <1>3, <1>5, HoldKept
  <1>7. WaitInv'
    BY <1>1, <1>3 DEF IInv, WaitInv
  <1> QED
    BY <1>3, <1>4, <1>5, <1>6, <1>7 DEF IInv

(* A context ends, and what runs after a context or a deadline wakes. *)
LEMMA ContextInv ==
  ASSUME IInv, \/ \E t \in Cancellable : ContextDone(t)
               \/ \E t \in Items \cup Flushers : AfterFunc(t)
  PROVE  IInv'
  <1>1. /\ UNCHANGED <<queueVars, pc, writing, inFlight, queueWaiters, expired, released>>
        /\ ctxDone' = ctxDone \/ \E t \in Cancellable : ctxDone' = ctxDone \cup {t}
        /\ armed' \subseteq armed
        /\ Broadcast \/ UNCHANGED waiters
    BY DEF ContextDone, AfterFunc
  <1>2. GoTypes'
    BY <1>1, SignalTypes DEF IInv, GoTypes
  <1>3. UNCHANGED <<queueVars, pc, writing, queueWaiters, released>>
    BY <1>1
  <1> QED
    BY <1>2, <1>3, SameState

-----------------------------------------------------------------------------
(* The steps of run. *)
LEMMA RunQuietInv ==
  ASSUME IInv, RunWait \/ RunExit \/ RunWritten
  PROVE  IInv'
  <1>1. /\ UNCHANGED <<queueVars, writing, queueWaiters, ctxDone, expired, armed, released>>
        /\ Wait(Run) \/ UNCHANGED waiters \/ Broadcast
        /\ inFlight' = inFlight \/ inFlight' = FALSE
        /\ \E l \in {"lock", "wait", "exited"} : Goto(Run, l)
        /\ pc[Run] # "write"
    BY DEF RunWait, RunExit, RunWritten, RunAwake
  <1>2. PICK l \in {"lock", "wait", "exited"} : Goto(Run, l)
    BY <1>1
  <1>3. /\ PcTypes' /\ pc'[Run] = l /\ pc'[Run] # "write"
        /\ (\A i \in Items : pc'[i] = pc[i]) /\ Waiting' = Waiting
    BY <1>2, RunMoves
  <1>4. GoTypes'
    <2>1. waiters' \in Seq(Threads)
      BY <1>1, WaitTypes, SignalTypes, ThreadKinds DEF IInv, GoTypes
    <2> QED
      BY <1>1, <2>1, Zenon DEF IInv, GoTypes
  <1>5. QueueInv' /\ (\A j \in Items : Queued(j)' <=> Queued(j)) /\ OnlyControlWhileClosing'
    BY <1>1, SameQueue DEF IInv
  <1>6. HoldInv'
    BY <1>1, <1>3, <1>5, HoldKept
  <1>7. WaitInv'
    BY <1>1, <1>3 DEF IInv, WaitInv
  <1> QED
    BY <1>3, <1>4, <1>5, <1>6, <1>7 DEF IInv

(* run takes a frame from the queue. *)
LEMMA RunPopInv ==
  ASSUME IInv, RunPop
  PROVE  IInv'
  <1>1. PICK i \in Items : popLocked(i) /\ writing' = i
    BY DEF RunPop
  <1>2. /\ RunAwake /\ queuedItems > 0 /\ inFlight' = TRUE /\ Goto(Run, "write")
        /\ Broadcast \/ UNCHANGED waiters
        /\ UNCHANGED <<queueWaiters, ctxDone, expired, armed, released>>
    BY DEF RunPop
  <1>3. /\ QueueInv' /\ Queued(i) /\ ~Queued(i)'
        /\ \A j \in Items : Queued(j)' <=> Queued(j) /\ j # i
        /\ queuedItems' = queuedItems - 1 /\ UNCHANGED <<controlOnly, closed>>
    BY <1>1, <1>2, PopFacts DEF IInv
  <1>4. PcTypes' /\ pc'[Run] = "write" /\ (\A j \in Items : pc'[j] = pc[j]) /\ Waiting' = Waiting
    BY <1>2, RunMoves
  <1>5. GoTypes'
    <2>1. waiters' \in Seq(Threads)
      BY <1>2, SignalTypes DEF IInv, GoTypes
    <2> QED
      BY <1>1, <1>2, <2>1, Zenon DEF IInv, GoTypes
  <1>6. writing = NoItem
    BY <1>2 DEF RunAwake, IInv, HoldInv
  <1>7. HoldInv'
    <2>1. /\ \A j \in Items : Queued(j)' => pc'[j] = "accepted"
          /\ writing' # NoItem /\ pc'[writing'] = "accepted" /\ ~Queued(writing)'
          /\ released' \in [Items -> Nat]
      BY <1>1, <1>2, <1>3, <1>4, ThreadKinds DEF IInv, HoldInv
    <2>2. ReleasedOnce'
      BY <1>1, <1>2, <1>3, <1>4, <1>6, ThreadKinds DEF IInv, HoldInv, ReleasedOnce
    <2> QED
      BY <1>4, <2>1, <2>2 DEF HoldInv
  <1>8. WaitInv'
    BY <1>2, <1>4 DEF IInv, WaitInv
  <1>9. OnlyControlWhileClosing'
    BY <1>2, <1>3, SMT DEF IInv, OnlyControlWhileClosing
  <1> QED
    BY <1>3, <1>4, <1>5, <1>7, <1>8, <1>9 DEF IInv

(* run writes the frame and releases it. *)
LEMMA RunWriteInv ==
  ASSUME IInv, NEW ok \in BOOLEAN, RunWrite(ok)
  PROVE  IInv'
  <1> DEFINE i == writing
  <1>1. /\ pc[Run] = "write" /\ GivesBack(i) /\ writing' = NoItem
        /\ UNCHANGED <<queueVars, waiters, inFlight, queueWaiters, ctxDone, expired, armed>>
        /\ \E l \in {"written", "failed"} : Goto(Run, l)
    BY DEF RunWrite, GivesBack
  <1>2. i \in Items /\ pc[i] = "accepted" /\ ~Queued(i)
    BY <1>1 DEF IInv, HoldInv, GoTypes
  <1>3. PICK l \in {"written", "failed"} : Goto(Run, l)
    BY <1>1
  <1>4. PcTypes' /\ pc'[Run] = l /\ (\A j \in Items : pc'[j] = pc[j]) /\ Waiting' = Waiting
    BY <1>3, RunMoves
  <1>5. QueueInv' /\ (\A j \in Items : Queued(j)' <=> Queued(j)) /\ OnlyControlWhileClosing'
    BY <1>1, SameQueue DEF IInv
  <1>6. GoTypes'
    BY <1>1, Zenon DEF IInv, GoTypes
  <1>7. /\ released' \in [Items -> Nat] /\ released'[i] = released[i] + 1
        /\ \A j \in Items : j # i => released'[j] = released[j]
    BY <1>1, <1>2, SMT DEF GivesBack, IInv, HoldInv
  <1>8. HoldInv'
    <2>1. ReleasedOnce'
      BY <1>1, <1>2, <1>4, <1>5, <1>7, ThreadKinds, SMT DEF IInv, HoldInv, ReleasedOnce
    <2> QED
      BY <1>1, <1>4, <1>5, <1>7, <2>1 DEF IInv, HoldInv
  <1>9. WaitInv'
    BY <1>1, <1>4 DEF IInv, WaitInv
  <1> QED
    BY <1>4, <1>5, <1>6, <1>8, <1>9 DEF IInv

-----------------------------------------------------------------------------
(* The steps that empty the queue. *)

(* Every frame that was queued is given back. *)
LEMMA ReleaseInv ==
  ASSUME IInv, releaseQueuedLocked, ReleaseAllQueued, PcTypes', GoTypes', WaitInv',
         controlOnly' \in BOOLEAN, closed' \in BOOLEAN, writing' = writing,
         \A i \in Items : pc'[i] = pc[i],
         pc'[Run] = "write" <=> pc[Run] = "write"
  PROVE  IInv'
  <1>1. QueueInv' /\ (\A j \in Items : ~Queued(j)') /\ queuedItems' = 0
    BY ReleaseFacts DEF IInv
  <1>2. \A i \in Items : released'[i] = IF Queued(i) THEN released[i] + 1 ELSE released[i]
    BY DEF ReleaseAllQueued
  <1>3. released' \in [Items -> Nat]
    BY SMT DEF ReleaseAllQueued, IInv, HoldInv
  <1>4. ReleasedOnce'
    <2> SUFFICES ASSUME NEW i \in Items
                 PROVE  released'[i] = IF \/ pc'[i] = "refused"
                                          \/ pc'[i] = "accepted" /\ ~Queued(i)' /\ writing' # i
                                       THEN 1 ELSE 0
      BY DEF ReleasedOnce
    <2>1. released[i] = IF \/ pc[i] = "refused"
                           \/ pc[i] = "accepted" /\ ~Queued(i) /\ writing # i
                        THEN 1 ELSE 0
      BY DEF IInv, HoldInv, ReleasedOnce
    <2>2. Queued(i) => pc[i] = "accepted" /\ writing # i
      BY ThreadKinds DEF IInv, HoldInv
    <2> QED
      BY <1>1, <1>2, <2>1, <2>2, SMT
  <1>5. HoldInv'
    <2>1. writing # NoItem => writing \in Items /\ pc[writing] = "accepted"
      BY DEF IInv, HoldInv, GoTypes
    <2>2. writing' # NoItem => pc'[writing'] = "accepted" /\ ~Queued(writing)'
      BY <1>1, <2>1
    <2>3. pc'[Run] = "write" <=> writing' # NoItem
      BY DEF IInv, HoldInv
    <2> QED
      BY <1>1, <1>3, <1>4, <2>2, <2>3, Zenon DEF HoldInv
  <1>6. OnlyControlWhileClosing'
    BY <1>1 DEF OnlyControlWhileClosing
  <1> QED
    BY <1>1, <1>5, <1>6 DEF IInv

(* run meets a failed write and gives back all that is queued. *)
LEMMA RunFailedInv ==
  ASSUME IInv, RunFailed
  PROVE  IInv'
  <1>1. /\ pc[Run] = "failed" /\ inFlight' = FALSE /\ closed' = TRUE /\ controlOnly' = controlOnly
        /\ releaseQueuedLocked /\ ReleaseAllQueued /\ Broadcast /\ Goto(Run, "exited")
        /\ UNCHANGED <<writing, queueWaiters, ctxDone, expired, armed>>
    BY DEF RunFailed, closeQueue
  <1>2. PcTypes' /\ pc'[Run] = "exited" /\ (\A j \in Items : pc'[j] = pc[j]) /\ Waiting' = Waiting
    BY <1>1, RunMoves
  <1>3. GoTypes'
    BY <1>1, SignalTypes, Zenon DEF IInv, GoTypes
  <1>4. WaitInv'
    BY <1>1, <1>2 DEF IInv, WaitInv
  <1>5. controlOnly' \in BOOLEAN /\ closed' \in BOOLEAN
    BY <1>1, Zenon DEF IInv, QueueInv, QueueTypeOK
  <1>6. pc'[Run] = "write" <=> pc[Run] = "write"
    BY <1>1, <1>2
  <1> QED
    BY <1>1, <1>2, <1>3, <1>4, <1>5, <1>6, ReleaseInv

(* beginClosing and close. *)
LEMMA ClosingInv ==
  ASSUME IInv, BeginClosing \/ Close
  PROVE  IInv'
  <1>1. Broadcast /\ UNCHANGED <<pc, writing, inFlight, queueWaiters, ctxDone, expired, armed>>
    BY DEF BeginClosing, Close
  <1>2. GoTypes'
    BY <1>1, SignalTypes, Zenon DEF IInv, GoTypes
  <1>3. PcTypes' /\ WaitInv'
    BY <1>1, Zenon DEF IInv, PcTypes, WaitInv, Waiting
  <1>4. CASE UNCHANGED <<queueVars, released>>
    BY <1>1, <1>2, <1>4, SameState
  <1>5. CASE ~UNCHANGED <<queueVars, released>>
    <2>1. /\ releaseQueuedLocked /\ ReleaseAllQueued
          /\ controlOnly' = controlOnly \/ controlOnly' = TRUE
          /\ closed' = closed \/ closed' = TRUE
      BY <1>5 DEF BeginClosing, Close, beginClosing, closeQueue
    <2>2. controlOnly' \in BOOLEAN /\ closed' \in BOOLEAN
      BY <2>1, Zenon DEF IInv, QueueInv, QueueTypeOK
    <2> QED
      BY <1>1, <1>2, <1>3, <2>1, <2>2, ReleaseInv
  <1> QED
    BY <1>4, <1>5

-----------------------------------------------------------------------------
(* No step of the writer leaves the invariant. *)
LEMMA NextInv == IInv /\ [Next]_vars => IInv'
  <1> SUFFICES ASSUME IInv, [Next]_vars PROVE IInv'
    OBVIOUS
  <1>1. CASE RunStep
    BY <1>1, RunQuietInv, RunPopInv, RunWriteInv, RunFailedInv DEF RunStep
  <1>2. CASE \E i \in Items : EnqueueStep(i) \/ DeadlinePasses(i)
    BY <1>2, EnqueueInv
  <1>3. CASE \E f \in Flushers : FlushStep(f)
    BY <1>3, FlushInv
  <1>4. CASE \/ \E t \in Cancellable : ContextDone(t)
             \/ \E t \in Items \cup Flushers : AfterFunc(t)
    BY <1>4, ContextInv
  <1>5. CASE BeginClosing \/ Close
    BY <1>5, ClosingInv
  <1>6. CASE UNCHANGED vars
    <2>1. UNCHANGED <<queueVars, goVars>>
      BY <1>6 DEF vars
    <2>2. GoTypes'
      BY <2>1, Zenon DEF goVars, IInv, GoTypes
    <2>3. UNCHANGED <<queueVars, pc, writing, queueWaiters, released>>
      BY <2>1 DEF goVars
    <2> QED
      BY <2>2, <2>3, SameState
  <1> QED
    BY <1>1, <1>2, <1>3, <1>4, <1>5, <1>6 DEF Next

(* The inductive invariant holds in every reachable state. *)
THEOREM Invariance == Spec => []IInv
  BY InitInv, NextInv, PTL DEF Spec

(* The state of the writer and of its callers is always well formed; in     *)
(* particular queueWaiters never goes below zero.                           *)
THEOREM WriterTypes == Spec => []TypeOK
  <1>1. IInv => TypeOK
    <2> SUFFICES ASSUME IInv PROVE TypeOK
      OBVIOUS
    <2>1. queueWaiters \in Nat
      BY FS_CardinalityType DEF IInv, WaitInv
    <2> QED
      BY <2>1, Zenon DEF TypeOK, IInv, QueueInv, PcTypes, GoTypes, HoldInv
  <1> QED
    BY <1>1, Invariance, PTL

(* Every frame's buffer is given back exactly once, whichever of run, a     *)
(* failed write, close, beginClosing and enqueue's refusal gets to it.      *)
THEOREM BuffersReleasedOnce == Spec => []ReleasedOnce
  <1>1. IInv => ReleasedOnce
    BY DEF IInv, HoldInv
  <1> QED
    BY <1>1, Invariance, PTL

(* Whatever enqueue calls were waiting when beginClosing emptied the queue, *)
(* none of them puts in anything but a critical control frame afterwards,   *)
(* and a closed writer's queue stays empty.                                 *)
THEOREM ClosingKeepsDataOut == Spec => []OnlyControlWhileClosing
  <1>1. IInv => OnlyControlWhileClosing
    BY DEF IInv
  <1> QED
    BY <1>1, Invariance, PTL

-----------------------------------------------------------------------------
(* The wake-ups: enqueue, flush and run wait on one condition variable, and *)
(* a frame is announced by one Signal.                                      *)

(* Two flush calls can leave flushWaiters too small, so that run sleeps    *)
(* over queued work.  The wake-up theorems are about writers with one.     *)
OneFlusher == \A f, g \in Flushers : f = g

(* The frames in the queues, as a set. *)
QueuedFrames == {i \in Items : Queued(i)}

(* Their bytes, as a set. *)
QueuedOctets == {x \in Items \X Nat : Queued(x[1]) /\ x[2] \in 1 .. size[x[1]]}

(* queuedItems and queuedBytes count the queued frames and their bytes. *)
CountInv == /\ IsFiniteSet(QueuedFrames) /\ queuedItems = Cardinality(QueuedFrames)
            /\ IsFiniteSet(QueuedOctets) /\ queuedBytes = Cardinality(QueuedOctets)

(* The flush call has raised flushWaiters and has yet to lower it. *)
Flushing(f) == pc[f] \in {"wait", "return", "store"}

(* Nobody is in the notify list twice. *)
NoDuplicates == \A m, n \in 1 .. Len(waiters) : waiters[m] = waiters[n] => m = n

(* run has a frame in its hands. *)
RunBusy == pc[Run] \in {"write", "written", "failed"}

(* Who sleeps: nobody twice, and nobody without a reason. *)
ParkInv ==
    /\ NoDuplicates
    /\ \A t \in Threads : Parked(t) => pc[t] = "wait"
    /\ inFlight <=> RunBusy
    /\ \A f \in Flushers : Parked(f) => queuedItems > 0 \/ inFlight
    /\ \A i \in Items : Parked(i) => i \in armed
    /\ \A i \in Items : Parked(i) /\ queuedItems = 0 => Oversize(i)

(* What the one caller of flush has done to flushWaiters. *)
FlushState ==
    /\ loaded \in [Flushers -> Nat]
    /\ Flushers = {} => flushWaiters = 0
    /\ \A f \in Flushers : /\ Flushing(f) => flushWaiters = 1
                           /\ ~Flushing(f) => flushWaiters = 0
                           /\ pc[f] = "store" => loaded[f] = 1

(* The invariant of the wake-ups. *)
WakeInv == ParkInv /\ FlushState /\ WriterAwake

-----------------------------------------------------------------------------
(* Counting. *)

(* The bytes of one frame. *)
Octets(i) == {i} \X (1 .. size[i])

(* A frame has as many bytes as its size says. *)
LEMMA OctetCount ==
  ASSUME NEW i \in Items
  PROVE  IsFiniteSet(Octets(i)) /\ Cardinality(Octets(i)) = size[i]
  <1>1. size[i] \in Nat
    BY ItemAssumption
  <1>2. IsFiniteSet({i}) /\ Cardinality({i}) = 1
    BY FS_Singleton
  <1>3. IsFiniteSet(1 .. size[i]) /\ Cardinality(1 .. size[i]) = IF 1 > size[i] THEN 0 ELSE size[i] - 1 + 1
    <2>1. 1 \in Int /\ size[i] \in Int
      BY <1>1, SMT
    <2> QED
      BY <2>1, FS_Interval
  <1>4. /\ IsFiniteSet({i} \X (1 .. size[i]))
        /\ Cardinality({i} \X (1 .. size[i])) = Cardinality({i}) * Cardinality(1 .. size[i])
    BY <1>2, <1>3, FS_Product, Zenon
  <1>5. Cardinality({i} \X (1 .. size[i])) = 1 * Cardinality(1 .. size[i])
    BY <1>2, <1>4
  <1>6. Cardinality(1 .. size[i]) = size[i]
    BY <1>1, <1>3, SMT
  <1> QED
    BY <1>1, <1>4, <1>5, <1>6, SMT DEF Octets

(* push adds one frame and its bytes. *)
LEMMA PushCount ==
  ASSUME CountInv, NEW i \in Items, ~Queued(i),
         \A j \in Items : Queued(j)' <=> Queued(j) \/ j = i,
         queuedItems' = queuedItems + 1, queuedBytes' = queuedBytes + size[i]
  PROVE  CountInv'
  <1>1. QueuedFrames' = QueuedFrames \cup {i} /\ i \notin QueuedFrames
    BY DEF QueuedFrames
  <1>2. IsFiniteSet(QueuedFrames') /\ Cardinality(QueuedFrames') = Cardinality(QueuedFrames) + 1
    BY <1>1, FS_AddElement, Zenon DEF CountInv
  <1>3. QueuedOctets' = QueuedOctets \cup Octets(i) /\ QueuedOctets \cap Octets(i) = {}
    BY ItemAssumption, SMT DEF QueuedOctets, Octets
  <1>4. /\ IsFiniteSet(QueuedOctets')
        /\ Cardinality(QueuedOctets') = Cardinality(QueuedOctets) + Cardinality(Octets(i)) - Cardinality({})
    <2>1. IsFiniteSet(QueuedOctets) /\ IsFiniteSet(Octets(i))
      BY OctetCount DEF CountInv
    <2>2. /\ IsFiniteSet(QueuedOctets \cup Octets(i))
          /\ Cardinality(QueuedOctets \cup Octets(i))
               = Cardinality(QueuedOctets) + Cardinality(Octets(i)) - Cardinality(QueuedOctets \cap Octets(i))
      BY <2>1, FS_Union, Zenon
    <2> QED
      BY <1>3, <2>2
  <1>5. Cardinality({}) = 0 /\ Cardinality(Octets(i)) = size[i] /\ size[i] \in Nat
    BY OctetCount, FS_EmptySet, ItemAssumption
  <1>6. Cardinality(QueuedOctets) \in Nat
    BY FS_CardinalityType DEF CountInv
  <1>7. Cardinality(QueuedOctets') = queuedBytes'
    BY <1>4, <1>5, <1>6, SMT DEF CountInv
  <1> QED
    BY <1>2, <1>4, <1>7 DEF CountInv

(* popLocked takes one frame and its bytes out. *)
LEMMA PopCount ==
  ASSUME CountInv, NEW i \in Items, Queued(i),
         \A j \in Items : Queued(j)' <=> Queued(j) /\ j # i,
         queuedItems' = queuedItems - 1,
         queuedBytes' = IF queuedBytes >= size[i] THEN queuedBytes - size[i] ELSE 0
  PROVE  CountInv'
  <1>1. QueuedFrames' = QueuedFrames \ {i} /\ i \in QueuedFrames
    BY DEF QueuedFrames
  <1>2. IsFiniteSet(QueuedFrames') /\ Cardinality(QueuedFrames') = Cardinality(QueuedFrames) - 1
    BY <1>1, FS_RemoveElement, Zenon DEF CountInv
  <1>3. QueuedOctets' = QueuedOctets \ Octets(i) /\ QueuedOctets \cap Octets(i) = Octets(i)
    BY ItemAssumption, SMT DEF QueuedOctets, Octets
  <1>4. /\ IsFiniteSet(QueuedOctets')
        /\ Cardinality(QueuedOctets') = Cardinality(QueuedOctets) - Cardinality(Octets(i))
    BY <1>3, FS_Difference, Zenon DEF CountInv
  <1>5. Cardinality(Octets(i)) = size[i] /\ size[i] \in Nat
    BY OctetCount, ItemAssumption
  <1>6. Cardinality(QueuedOctets) \in Nat /\ Cardinality(QueuedOctets') \in Nat
    BY <1>4, FS_CardinalityType, Zenon DEF CountInv
  <1>7. Cardinality(QueuedOctets') = queuedBytes'
    BY <1>4, <1>5, <1>6, SMT DEF CountInv
  <1> QED
    BY <1>2, <1>4, <1>7 DEF CountInv

(* releaseQueuedLocked leaves no frame. *)
LEMMA NothingQueued ==
  ASSUME \A j \in Items : ~Queued(j)
  PROVE  /\ IsFiniteSet(QueuedFrames) /\ Cardinality(QueuedFrames) = 0
         /\ IsFiniteSet(QueuedOctets) /\ Cardinality(QueuedOctets) = 0
  <1>1. QueuedFrames = {} /\ QueuedOctets = {}
    BY DEF QueuedFrames, QueuedOctets
  <1> QED
    BY <1>1, FS_EmptySet

(* Where no frame is queued, no byte is. *)
LEMMA EmptyHasNoBytes ==
  ASSUME CountInv, queuedItems = 0
  PROVE  queuedBytes = 0
  <1>1. QueuedFrames = {}
    BY FS_EmptySet DEF CountInv
  <1>2. \A j \in Items : ~Queued(j)
    BY <1>1 DEF QueuedFrames
  <1> QED
    BY <1>2, NothingQueued DEF CountInv

(* A step that leaves the queue alone leaves the counts alone. *)
LEMMA SameCount ==
  ASSUME CountInv, UNCHANGED queueVars
  PROVE  CountInv'
  BY Zenon DEF CountInv, QueuedFrames, QueuedOctets, Queued, queueVars

(* Every step keeps the counts exact. *)
LEMMA CountNext ==
  ASSUME IInv, CountInv, [Next]_vars
  PROVE  CountInv'
  <1>1. ASSUME NEW i \in Items, EnqueueStep(i), ~UNCHANGED queueVars
        PROVE  CountInv'
    <2>1. push(i) /\ pc[i] \in {"start", "wait"}
      BY <1>1 DEF EnqueueStep, EnqueueStart, EnqueueWoken, EnqueueTurnedAway, EnqueueLate,
                  EnqueueLoop, EnqueueAccept, EnqueueRefuse, EnqueueWait, queueVars
    <2>2. ~Queued(i)
      BY <2>1 DEF IInv, HoldInv
    <2>3. \A j \in Items : Queued(j)' <=> Queued(j) \/ j = i
      BY <2>1, <2>2, PushFacts DEF IInv
    <2>4. queuedItems' = queuedItems + 1 /\ queuedBytes' = queuedBytes + size[i]
      BY <2>1 DEF push
    <2> QED
      BY <2>2, <2>3, <2>4, PushCount
  <1>2. CASE RunPop
    <2>1. PICK i \in Items : popLocked(i) /\ queuedItems > 0
      BY <1>2 DEF RunPop
    <2> QED
      BY <2>1, PopFacts, PopCount DEF IInv
  <1>3. ASSUME releaseQueuedLocked, controlOnly' \in BOOLEAN, closed' \in BOOLEAN
        PROVE  CountInv'
    <2>1. (\A j \in Items : ~Queued(j)') /\ queuedItems' = 0 /\ queuedBytes' = 0
      BY <1>3, ReleaseFacts DEF IInv
    <2>2. QueuedFrames' = {} /\ QueuedOctets' = {}
      BY <2>1 DEF QueuedFrames, QueuedOctets
    <2> QED
      BY <2>1, <2>2, FS_EmptySet DEF CountInv
  <1>4. CASE RunFailed \/ BeginClosing \/ Close
    <2>1. IInv'
      BY NextInv
    <2>2. controlOnly' \in BOOLEAN /\ closed' \in BOOLEAN
      BY <2>1, Zenon DEF IInv, QueueInv, QueueTypeOK
    <2>3. releaseQueuedLocked \/ UNCHANGED queueVars
      BY <1>4 DEF RunFailed, BeginClosing, Close, beginClosing, closeQueue
    <2> QED
      BY <1>3, <2>2, <2>3, SameCount
  <1>5. CASE UNCHANGED queueVars
    BY <1>5, SameCount
  <1> QED
    <2>1. CASE RunStep
      BY <1>2, <1>4, <1>5, <2>1 DEF RunStep, RunWait, RunExit, RunWrite, RunWritten
    <2>2. CASE \E i \in Items : EnqueueStep(i) \/ DeadlinePasses(i)
      BY <1>1, <1>5, <2>2 DEF DeadlinePasses
    <2>3. CASE \E f \in Flushers : FlushStep(f)
      BY <1>5, <2>3 DEF FlushStep, FlushStart, FlushWoken, FlushLoop, FlushLoad, FlushStore
    <2>4. CASE \/ \E t \in Cancellable : ContextDone(t)
               \/ \E t \in Items \cup Flushers : AfterFunc(t)
      BY <1>5, <2>4 DEF ContextDone, AfterFunc
    <2>5. CASE UNCHANGED vars
      BY <1>5, <2>5 DEF vars
    <2> QED
      BY <1>4, <2>1, <2>2, <2>3, <2>4, <2>5 DEF Next

-----------------------------------------------------------------------------
(* The wait list. *)
LEMMA WaitFacts ==
  ASSUME waiters \in Seq(Threads), NoDuplicates, NEW t \in Threads, ~Parked(t), Wait(t)
  PROVE  NoDuplicates' /\ \A u \in Threads : Parked(u)' <=> Parked(u) \/ u = t
  <1>1. waiters' = Append(waiters, t)
    BY DEF Wait
  <1> HIDE DEF Threads
  <1>2. /\ Len(waiters) \in Nat /\ Len(waiters') = Len(waiters) + 1
        /\ waiters'[Len(waiters) + 1] = t
        /\ \A n \in 1 .. Len(waiters) : waiters'[n] = waiters[n]
    BY <1>1, SMT
  <1>3. \A n \in 1 .. Len(waiters) + 1 : n \in 1 .. Len(waiters) \/ n = Len(waiters) + 1
    BY <1>2, SMT
  <1>4. \A n \in 1 .. Len(waiters) : waiters[n] # t /\ n \in 1 .. Len(waiters')
    BY <1>2, SMT DEF Parked
  <1>5. Len(waiters) + 1 \in 1 .. Len(waiters')
    BY <1>2, SMT
  <1>6. NoDuplicates'
    BY <1>2, <1>3, <1>4 DEF NoDuplicates
  <1> QED
    BY <1>2, <1>3, <1>4, <1>5, <1>6 DEF Parked

(* Signal takes the head of the notify list, and nobody else. *)
LEMMA SignalFacts ==
  ASSUME waiters \in Seq(Threads), NoDuplicates, Signal
  PROVE  /\ NoDuplicates'
         /\ \A u \in Threads : Parked(u)' => Parked(u)
         /\ waiters # <<>> => \E u \in Threads : Parked(u) /\ ~Parked(u)'
  <1>1. CASE waiters = <<>>
    BY <1>1, SMT DEF Signal, NoDuplicates, Parked
  <1>2. CASE waiters # <<>>
    <2>1. waiters' = Tail(waiters)
      BY <1>2 DEF Signal
    <2> HIDE DEF Threads
    <2>2. /\ Len(waiters) \in Nat /\ Len(waiters) > 0 /\ Len(waiters') = Len(waiters) - 1
          /\ Head(waiters) = waiters[1] /\ Head(waiters) \in Threads
          /\ \A n \in 1 .. Len(waiters) - 1 : waiters'[n] = waiters[n + 1]
      BY <1>2, <2>1, SMT
    <2>3. /\ 1 \in 1 .. Len(waiters)
          /\ \A n \in 1 .. Len(waiters') : n + 1 \in 1 .. Len(waiters) /\ n + 1 # 1
      BY <2>2, SMT
    <2>4. \A m, n \in 1 .. Len(waiters') : m + 1 = n + 1 => m = n
      BY SMT
    <2>5. NoDuplicates'
      BY <2>2, <2>3, <2>4 DEF NoDuplicates
    <2>6. \A n \in 1 .. Len(waiters') : waiters'[n] # waiters[1]
      BY <2>2, <2>3 DEF NoDuplicates
    <2>7. \A u \in Threads : Parked(u)' => Parked(u)
      BY <2>2, <2>3 DEF Parked
    <2>8. \E u \in Threads : Parked(u) /\ ~Parked(u)'
      <3>1. PICK u \in Threads : u = waiters[1]
        BY <2>2
      <3> QED
        BY <2>3, <2>6, <3>1 DEF Parked
    <2> QED
      BY <2>2, <2>5, <2>7, <2>8
  <1> QED
    BY <1>1, <1>2

(* Broadcast empties the notify list. *)
LEMMA BroadcastFacts ==
  ASSUME Broadcast
  PROVE  NoDuplicates' /\ \A u \in Threads : ~Parked(u)'
  <1>1. 1 .. Len(waiters') = {}
    BY SMT DEF Broadcast
  <1> QED
    BY <1>1 DEF NoDuplicates, Parked

(* After a Broadcast nobody sleeps. *)
LEMMA AllAwake ==
  ASSUME Broadcast, inFlight' <=> RunBusy'
  PROVE  ParkInv' /\ WriterAwake'
  BY BroadcastFacts, ThreadKinds DEF ParkInv, WriterAwake, Stranded

(* An oversize call that will wake run at its deadline, or has given up. *)
Excuse(i) == Oversize(i) /\ ((pc[i] = "wait" /\ i \in armed) \/ GivenUp(i))

(* A goroutine t that is awake moves on, or goes to sleep for a reason. *)
LEMMA OneMoves ==
  ASSUME IInv, ParkInv, WriterAwake, NEW t \in Threads, ~Parked(t),
         \A u \in Threads : u # t => pc'[u] = pc[u] /\ (u \in armed => u \in armed'),
         queuedItems' = queuedItems, expired \subseteq expired', ctxDone' = ctxDone,
         inFlight' <=> RunBusy', inFlight' = inFlight,
         \/ waiters' = waiters
         \/ /\ Wait(t) /\ pc'[t] = "wait"
            /\ t = Run => queuedItems = 0
            /\ t \in Flushers => queuedItems > 0 \/ inFlight
            /\ t \in Items => t \in armed' /\ (queuedItems = 0 => Oversize(t)),
         t \in Items /\ queuedItems > 0 /\ Excuse(t) => Excuse(t)'
  PROVE  ParkInv' /\ WriterAwake'
  <1>1. /\ NoDuplicates'
        /\ \A u \in Threads : Parked(u)' => Parked(u) \/ (u = t /\ Wait(t) /\ waiters' # waiters)
    <2>1. CASE waiters' = waiters
      BY <2>1 DEF ParkInv, NoDuplicates, Parked
    <2>2. CASE waiters' # waiters
      BY <2>2, WaitFacts DEF ParkInv, IInv, GoTypes
    <2> QED
      BY <2>1, <2>2
  <1>2. \A u \in Threads : Parked(u)' => pc'[u] = "wait"
    BY <1>1 DEF ParkInv
  <1>3. \A f \in Flushers : Parked(f)' => queuedItems' > 0 \/ inFlight'
    BY <1>1, ThreadKinds, SMT DEF ParkInv
  <1>4. \A i \in Items : Parked(i)' => i \in armed' /\ (queuedItems' = 0 => Oversize(i))
    BY <1>1, ThreadKinds DEF ParkInv
  <1>5. ParkInv'
    BY <1>1, <1>2, <1>3, <1>4 DEF ParkInv, Oversize
  <1>6. WriterAwake'
    <2> SUFFICES ASSUME queuedItems' > 0, Parked(Run)'
                 PROVE  \E i \in Items : Excuse(i)'
      BY DEF WriterAwake, Stranded, Excuse
    <2>1. Parked(Run) /\ queuedItems > 0
      BY <1>1, ThreadKinds, SMT
    <2>2. PICK i \in Items : Excuse(i)
      BY <2>1 DEF WriterAwake, Stranded, Excuse
    <2>3. CASE i # t
      BY <2>2, <2>3, ThreadKinds DEF Excuse, GivenUp, Oversize
    <2>4. CASE i = t
      BY <2>1, <2>2, <2>4
    <2> QED
      BY <2>3, <2>4
  <1> QED
    BY <1>5, <1>6

(* A step that neither moves nor wakes anyone. *)
LEMMA NobodyMoves ==
  ASSUME IInv, ParkInv, WriterAwake, UNCHANGED <<waiters, pc, queuedItems, inFlight, armed>>,
         expired \subseteq expired', ctxDone \subseteq ctxDone'
  PROVE  ParkInv' /\ WriterAwake'
  <1>1. ParkInv'
    BY Zenon DEF ParkInv, NoDuplicates, Parked, RunBusy, Oversize
  <1>2. \A i \in Items : Excuse(i) => Excuse(i)'
    BY DEF Excuse, GivenUp, Oversize
  <1>3. Stranded' => Stranded
    BY DEF Stranded, Parked
  <1> QED
    BY <1>1, <1>2, <1>3 DEF WriterAwake, Excuse

-----------------------------------------------------------------------------
(* The steps of enqueue. *)

(* The Signal of an accepted frame reaches run, or an oversize enqueue     *)
(* whose timer is armed.                                                   *)
LEMMA AcceptWake ==
  ASSUME IInv, CountInv, WakeInv, NEW i \in Items, NEW q, EnqueueAccept(i, q),
         pc[i] \in {"start", "wait"}, ~Parked(i), UNCHANGED <<inFlight, expired, ctxDone>>
  PROVE  ParkInv' /\ WriterAwake'
  <1>1. /\ canEnqueue(size[i]) /\ Signal /\ Goto(i, "accepted")
        /\ queuedItems' = queuedItems + 1 /\ inFlight' = inFlight
        /\ \A u \in Threads : u # i /\ u \in armed => u \in armed'
    BY DEF EnqueueAccept, push, StopAfterFunc
  <1>2. /\ queuedItems \in Nat /\ queuedBytes \in Nat /\ waiters \in Seq(Threads)
        /\ size[i] \in Nat
    BY ItemAssumption DEF IInv, QueueInv, QueueTypeOK, GoTypes
  <1>3. queuedItems' > 0
    BY <1>1, <1>2, SMT
  <1>4. pc'[Run] = pc[Run] /\ \A u \in Threads : u # i => pc'[u] = pc[u]
    BY <1>1, GotoFacts, ThreadKinds
  <1>5. ~Oversize(i)
    BY <1>1, <1>2, LimitAssumption, SMT DEF canEnqueue, Oversize
  <1>6. /\ NoDuplicates'
        /\ \A u \in Threads : Parked(u)' => Parked(u)
        /\ waiters # <<>> => \E u \in Threads : Parked(u) /\ ~Parked(u)'
    BY <1>1, <1>2, SignalFacts DEF WakeInv, ParkInv
  <1>7. ParkInv'
    <2>1. \A u \in Threads : Parked(u)' => pc'[u] = "wait"
      BY <1>4, <1>6, ThreadKinds DEF WakeInv, ParkInv
    <2>2. inFlight' <=> RunBusy'
      <3>1. inFlight <=> RunBusy
        BY DEF WakeInv, ParkInv
      <3>2. RunBusy' <=> RunBusy
        BY <1>4 DEF RunBusy
      <3> QED
        BY <1>1, <3>1, <3>2, SMT
    <2>3. \A j \in Items : Parked(j)' => j \in armed'
      BY <1>1, <1>6, ThreadKinds DEF WakeInv, ParkInv
    <2>4. queuedItems' # 0
      BY <1>3, SMTT(30)
    <2> QED
      BY <1>3, <1>6, <2>1, <2>2, <2>3, <2>4, Zenon DEF ParkInv
  <1>8. WriterAwake'
    <2> SUFFICES ASSUME Parked(Run)'
                 PROVE  \E j \in Items : Excuse(j)'
      BY DEF WriterAwake, Stranded, Excuse
    <2>1. Parked(Run) /\ pc[Run] = "wait"
      BY <1>6, ThreadKinds DEF WakeInv, ParkInv
    <2>2. CASE queuedItems > 0
      <3>1. PICK j \in Items : Excuse(j)
        BY <2>1, <2>2 DEF WakeInv, WriterAwake, Stranded, Excuse
      <3>2. j # i /\ j \in Threads
        BY <1>5, <3>1, ThreadKinds DEF Excuse
      <3> QED
        BY <1>1, <1>4, <3>1, <3>2 DEF Excuse, GivenUp, Oversize
    <2>3. CASE queuedItems = 0
      <3>1. waiters # <<>>
        BY <2>1, SMT DEF Parked
      <3>2. PICK u \in Threads : Parked(u) /\ ~Parked(u)'
        BY <1>6, <3>1
      <3>3. u # Run /\ u # i
        BY <3>2
      <3>4. ~inFlight
        BY <2>1 DEF WakeInv, ParkInv, RunBusy
      <3>5. u \notin Flushers
        BY <2>3, <3>2, <3>4, SMTT(30) DEF WakeInv, ParkInv
      <3>6. u \in Items
        BY <3>3, <3>5 DEF Threads
      <3>7. Oversize(u) /\ pc[u] = "wait" /\ u \in armed
        BY <2>3, <3>2, <3>6 DEF WakeInv, ParkInv
      <3> QED
        BY <1>1, <1>4, <3>3, <3>6, <3>7 DEF Excuse, Oversize
    <2> QED
      BY <1>2, <2>2, <2>3, SMT
  <1> QED
    BY <1>7, <1>8

(* An enqueue that sleeps on an empty queue holds a frame it has no room for. *)
LEMMA EmptyRefusesOversize ==
  ASSUME IInv, CountInv, NEW i \in Items, ~canEnqueue(size[i]), queuedItems = 0
  PROVE  Oversize(i)
  <1>1. queuedBytes = 0
    BY EmptyHasNoBytes
  <1>2. size[i] \in Nat
    BY ItemAssumption
  <1> QED
    BY <1>1, <1>2, LimitAssumption, SMT DEF canEnqueue, Oversize

(* A full queue does not take an oversize frame. *)
LEMMA OversizeNeverFits ==
  ASSUME IInv, NEW i \in Items, Oversize(i)
  PROVE  ~canEnqueue(size[i])
  BY ItemAssumption, LimitAssumption, SMT DEF canEnqueue, Oversize, IInv, QueueInv, QueueTypeOK

(* An enqueue that gives up leaves itself as the excuse; the others lose no *)
(* wake-up.                                                                 *)
LEMMA EnqueueWake ==
  ASSUME IInv, CountInv, WakeInv, NEW i \in Items, EnqueueStep(i)
  PROVE  ParkInv' /\ WriterAwake'
  <1>1. pc[i] \in {"start", "wait"} /\ ~Parked(i)
    BY ThreadKinds DEF EnqueueStep, EnqueueStart, EnqueueLate, EnqueueTurnedAway, EnqueueWoken,
                       WakeInv, ParkInv
  <1>2. inFlight' = inFlight /\ ctxDone' = ctxDone /\ expired \subseteq expired'
    BY DEF EnqueueStep, EnqueueStart, EnqueueLate, EnqueueTurnedAway, EnqueueWoken, EnqueueLoop
  <1>3. CASE \E q : EnqueueAccept(i, q) /\ expired' = expired
    <2>1. PICK q : EnqueueAccept(i, q) /\ expired' = expired
      BY <1>3
    <2> QED
      BY <1>1, <1>2, <2>1, AcceptWake
  <1>4. CASE \/ \E q : (EnqueueRefuse(i, q) \/ EnqueueWait(i, q)) /\ expired' = expired
             \/ EnqueueTurnedAway(i) \/ EnqueueLate(i)
    <2>1. queuedItems' = queuedItems /\ \E l \in {"wait", "refused"} : Goto(i, l)
      BY <1>4 DEF EnqueueRefuse, EnqueueWait, EnqueueTurnedAway, EnqueueLate, queueVars
    <2>2. \A u \in Threads : u # i => pc'[u] = pc[u] /\ (u \in armed => u \in armed')
      <3>1. \A u \in Threads : u # i /\ u \in armed => u \in armed'
        BY <1>4 DEF EnqueueRefuse, EnqueueWait, EnqueueTurnedAway, EnqueueLate, StopAfterFunc
      <3> QED
        BY <2>1, <3>1, GotoFacts, ThreadKinds
    <2>3. inFlight' <=> RunBusy'
      BY <1>2, <2>2, ThreadKinds DEF WakeInv, ParkInv, RunBusy
    <2>4. \/ waiters' = waiters
          \/ /\ Wait(i) /\ pc'[i] = "wait"
             /\ i \in armed' /\ (queuedItems = 0 => Oversize(i))
      <3>1. CASE \E q : EnqueueWait(i, q)
        BY <3>1, EmptyRefusesOversize, GotoFacts, ThreadKinds DEF EnqueueWait
      <3> QED
        BY <1>4, <3>1 DEF EnqueueRefuse, EnqueueTurnedAway, EnqueueLate
    <2>5. queuedItems > 0 /\ Excuse(i) => Excuse(i)'
      <3> SUFFICES ASSUME queuedItems > 0, Excuse(i)
                   PROVE  Excuse(i)'
        OBVIOUS
      <3>1. pc[i] = "wait" /\ Oversize(i)
        BY <1>1 DEF Excuse, GivenUp
      <3>2. ~canEnqueue(size[i])
        BY <3>1, OversizeNeverFits
      <3>3. ~closed
        BY SMT DEF IInv, OnlyControlWhileClosing
      <3>4. CASE \E q : EnqueueWait(i, q)
        BY <3>1, <3>4, GotoFacts, ThreadKinds DEF EnqueueWait, Excuse, Oversize
      <3>5. CASE \E q : EnqueueRefuse(i, q)
        <4>1. i \in ctxDone \cup expired /\ Goto(i, "refused")
          BY <3>2, <3>3, <3>5 DEF EnqueueRefuse
        <4>2. pc'[i] = "refused" /\ i \in expired' \cup ctxDone'
          BY <1>2, <4>1, GotoFacts, ThreadKinds
        <4> QED
          BY <3>1, <4>2 DEF Excuse, GivenUp, Oversize
      <3> QED
        BY <1>4, <3>1, <3>4, <3>5 DEF EnqueueTurnedAway, EnqueueLate
    <2>6. i \in Threads /\ i # Run /\ i \notin Flushers
      BY ThreadKinds
    <2> QED
      BY <1>1, <1>2, <2>1, <2>2, <2>3, <2>4, <2>5, <2>6, OneMoves DEF WakeInv
  <1> QED
    BY <1>3, <1>4 DEF EnqueueStep, EnqueueStart, EnqueueWoken, EnqueueLoop

-----------------------------------------------------------------------------
(* The steps of flush. *)
LEMMA FlushFacts ==
  ASSUME WakeInv, NEW f \in Flushers
  PROVE  /\ loaded \in [Flushers -> Nat]
         /\ Flushing(f) => flushWaiters = 1
         /\ ~Flushing(f) => flushWaiters = 0
         /\ pc[f] = "store" => loaded[f] = 1
  BY Zenon DEF WakeInv, FlushState

(* The steps of flush lose no wake-up. *)
LEMMA FlushWake ==
  ASSUME IInv, WakeInv, OneFlusher, NEW f \in Flushers, FlushStep(f)
  PROVE  WakeInv'
  <1>1. f \in Threads /\ f # Run /\ f \notin Items
    BY ThreadKinds
  <1>2. ~Parked(f)
    BY <1>1 DEF FlushStep, FlushStart, FlushWoken, FlushLoad, FlushStore, WakeInv, ParkInv
  <1>3. /\ queuedItems' = queuedItems /\ inFlight' = inFlight /\ expired' = expired /\ ctxDone' = ctxDone
        /\ \E l \in {"wait", "return", "store", "done"} : Goto(f, l)
        /\ \A u \in Threads : u # f /\ u \in armed => u \in armed'
    BY DEF FlushStep, FlushStart, FlushWoken, FlushLoop, FlushLoad, FlushStore, StopAfterFunc, queueVars
  <1>4. /\ pc'[Run] = pc[Run]
        /\ \A u \in Threads : u # f => pc'[u] = pc[u] /\ (u \in armed => u \in armed')
    BY <1>1, <1>3, GotoFacts, ThreadKinds
  <1>5. inFlight' <=> RunBusy'
    BY <1>3, <1>4, Zenon DEF WakeInv, ParkInv, RunBusy
  <1>6. \/ waiters' = waiters
        \/ Wait(f) /\ pc'[f] = "wait" /\ (queuedItems > 0 \/ inFlight)
    BY <1>1, GotoFacts DEF FlushStep, FlushStart, FlushWoken, FlushLoop, FlushLoad, FlushStore
  <1>7. ParkInv' /\ WriterAwake'
    BY <1>1, <1>2, <1>3, <1>4, <1>5, <1>6, OneMoves DEF WakeInv
  <1>8. FlushState'
    <2>1. /\ loaded \in [Flushers -> Nat]
          /\ pc[f] \in {"wait", "return", "store"} => flushWaiters = 1
          /\ pc[f] \notin {"wait", "return", "store"} => flushWaiters = 0
          /\ pc[f] = "store" => loaded[f] = 1
      BY FlushFacts, Zenon DEF Flushing
    <2>2. \A g \in Flushers : g = f
      BY DEF OneFlusher
    <2> SUFFICES /\ loaded' \in [Flushers -> Nat]
                 /\ pc'[f] \in {"wait", "return", "store"} => flushWaiters' = 1
                 /\ pc'[f] \notin {"wait", "return", "store"} => flushWaiters' = 0
                 /\ pc'[f] = "store" => loaded'[f] = 1
      BY <2>2 DEF FlushState, Flushing
    <2>3. CASE FlushStart(f)
      <3>1. flushWaiters' = 1 /\ loaded' = loaded
        BY <2>1, <2>3, SMT DEF FlushStart, FlushLoop
      <3>2. pc'[f] \in {"wait", "return"}
        BY <1>1, <2>3, GotoFacts DEF FlushStart, FlushLoop
      <3> QED
        BY <2>1, <3>1, <3>2
    <2>4. CASE FlushWoken(f)
      <3>1. flushWaiters' = 1 /\ loaded' = loaded
        BY <2>1, <2>4 DEF FlushWoken, FlushLoop
      <3>2. pc'[f] \in {"wait", "return"}
        BY <1>1, <2>4, GotoFacts DEF FlushWoken, FlushLoop
      <3> QED
        BY <2>1, <3>1, <3>2
    <2>5. CASE FlushLoad(f)
      <3>1. flushWaiters = 1 /\ flushWaiters' = 1 /\ loaded' = [loaded EXCEPT ![f] = flushWaiters]
        BY <2>1, <2>5 DEF FlushLoad
      <3>2. pc'[f] = "store"
        BY <1>1, <2>5, GotoFacts DEF FlushLoad
      <3> QED
        BY <2>1, <3>1, <3>2
    <2>6. CASE FlushStore(f)
      <3>1. loaded[f] = 1 /\ flushWaiters' = loaded[f] - 1 /\ loaded' = loaded
        BY <2>1, <2>6 DEF FlushStore
      <3>2. pc'[f] = "done"
        BY <1>1, <2>6, GotoFacts DEF FlushStore
      <3> QED
        BY <2>1, <3>1, <3>2, SMTT(30)
    <2> QED
      BY <2>3, <2>4, <2>5, <2>6 DEF FlushStep
  <1> QED
    BY <1>7, <1>8 DEF WakeInv

(* Only flush changes what it has done to flushWaiters. *)
LEMMA FlushKept ==
  ASSUME WakeInv, UNCHANGED <<flushWaiters, loaded>>, \A f \in Flushers : pc'[f] = pc[f]
  PROVE  FlushState'
  BY DEF WakeInv, FlushState, Flushing

-----------------------------------------------------------------------------
(* The steps of run. *)
LEMMA RunAsleep ==
  ASSUME IInv, WakeInv, RunStep
  PROVE  ~Parked(Run)
  BY ThreadKinds DEF RunStep, RunWait, RunExit, RunPop, RunWrite, RunWritten, RunFailed, RunAwake,
                     WakeInv, ParkInv

(* run goes to sleep, ends, or writes its frame: no wake-up is lost. *)
LEMMA RunMovesWake ==
  ASSUME IInv, WakeInv, RunWait \/ RunExit \/ \E ok \in BOOLEAN : RunWrite(ok)
  PROVE  ParkInv' /\ WriterAwake'
  <1>1. Run \in Threads /\ Run \notin Items /\ Run \notin Flushers
    BY ThreadKinds
  <1>2. ~Parked(Run)
    BY RunAsleep DEF RunStep
  <1>3. UNCHANGED <<queuedItems, inFlight, expired, ctxDone, armed>>
    BY DEF RunWait, RunExit, RunWrite, queueVars
  <1>4. \/ pc[Run] \in {"lock", "wait"} /\ (Goto(Run, "wait") \/ Goto(Run, "exited"))
        \/ pc[Run] = "write" /\ (Goto(Run, "written") \/ Goto(Run, "failed"))
    BY DEF RunWait, RunExit, RunWrite, RunAwake
  <1>5. RunBusy' <=> RunBusy
    BY <1>1, <1>4, GotoFacts, SMT DEF RunBusy
  <1>6. \A u \in Threads : u # Run => pc'[u] = pc[u] /\ (u \in armed => u \in armed')
    BY <1>1, <1>3, <1>4, GotoFacts
  <1>7. \/ waiters' = waiters
        \/ Wait(Run) /\ pc'[Run] = "wait" /\ queuedItems = 0
    BY <1>1, GotoFacts DEF RunWait, RunExit, RunWrite
  <1>8. inFlight' <=> RunBusy'
    BY <1>3, <1>5, Zenon DEF WakeInv, ParkInv
  <1> QED
    BY <1>1, <1>2, <1>3, <1>6, <1>7, <1>8, OneMoves DEF WakeInv

(* popLocked may empty the queue: enqueue is woken if any call of it waits. *)
LEMMA RunPopWake ==
  ASSUME IInv, WakeInv, RunPop
  PROVE  ParkInv' /\ WriterAwake'
  <1>1. inFlight' = TRUE /\ Goto(Run, "write")
    BY DEF RunPop
  <1>2. pc'[Run] = "write" /\ \A u \in Threads : u # Run => pc'[u] = pc[u]
    BY <1>1, GotoFacts, ThreadKinds
  <1>3. inFlight' <=> RunBusy'
    BY <1>1, <1>2 DEF RunBusy
  <1>4. CASE queueWaiters > 0
    BY <1>3, <1>4, AllAwake DEF RunPop
  <1>5. CASE ~(queueWaiters > 0)
    <2>1. waiters' = waiters /\ \A u \in Threads : Parked(u)' <=> Parked(u)
      BY <1>5 DEF RunPop, Parked
    <2>2. Waiting = {}
      BY <1>5, FS_EmptySet, FS_CardinalityType, SMTT(30) DEF IInv, WaitInv
    <2>3. \A i \in Items : ~Parked(i)
      BY <2>2, ThreadKinds DEF Waiting, WakeInv, ParkInv
    <2>4. ~Parked(Run)
      BY RunAsleep DEF RunStep
    <2>5. NoDuplicates'
      BY <2>1 DEF NoDuplicates, WakeInv, ParkInv
    <2>6. \A u \in Threads : Parked(u)' => pc'[u] = "wait"
      BY <1>2, <2>1, <2>4 DEF WakeInv, ParkInv
    <2>7. (\A i \in Items : ~Parked(i)') /\ ~Parked(Run)'
      BY <2>1, <2>3, <2>4, ThreadKinds
    <2> QED
      BY <1>1, <1>3, <2>5, <2>6, <2>7, Zenon DEF ParkInv, WriterAwake, Stranded
  <1> QED
    BY <1>4, <1>5

(* The write is over: flush is woken if flushWaiters says that one waits. *)
LEMMA RunWrittenWake ==
  ASSUME IInv, WakeInv, RunWritten
  PROVE  ParkInv' /\ WriterAwake'
  <1>1. inFlight' = FALSE /\ Goto(Run, "lock") /\ queuedItems' = queuedItems /\ armed' = armed
    BY DEF RunWritten, queueVars
  <1>2. pc'[Run] = "lock" /\ \A u \in Threads : u # Run => pc'[u] = pc[u]
    BY <1>1, GotoFacts, ThreadKinds
  <1>3. inFlight' <=> RunBusy'
    BY <1>1, <1>2 DEF RunBusy
  <1>4. CASE flushWaiters > 0
    BY <1>3, <1>4, AllAwake DEF RunWritten
  <1>5. CASE ~(flushWaiters > 0)
    <2>1. waiters' = waiters /\ \A u \in Threads : Parked(u)' <=> Parked(u)
      BY <1>5 DEF RunWritten, Parked
    <2>2. \A f \in Flushers : ~Parked(f)
      <3> SUFFICES ASSUME NEW f \in Flushers, Parked(f) PROVE FALSE
        OBVIOUS
      <3>1. pc[f] = "wait"
        BY ThreadKinds DEF WakeInv, ParkInv
      <3>2. flushWaiters = 1
        BY <3>1, FlushFacts DEF Flushing
      <3> QED
        BY <1>5, <3>2, SMT
    <2>4. ~Parked(Run)
      BY RunAsleep DEF RunStep
    <2>5. NoDuplicates'
      BY <2>1 DEF NoDuplicates, WakeInv, ParkInv
    <2>6. \A u \in Threads : Parked(u)' => pc'[u] = "wait"
      BY <1>2, <2>1, <2>4 DEF WakeInv, ParkInv
    <2>7. (\A f \in Flushers : ~Parked(f)') /\ ~Parked(Run)'
      BY <2>1, <2>2, <2>4, ThreadKinds
    <2>8. \A i \in Items : Parked(i)' => i \in armed' /\ (queuedItems' = 0 => Oversize(i))
      BY <1>1, <2>1, ThreadKinds DEF WakeInv, ParkInv
    <2>9. ParkInv'
      BY <1>3, <2>5, <2>6, <2>7, <2>8 DEF ParkInv, Oversize
    <2> QED
      BY <2>7, <2>9 DEF WriterAwake, Stranded
  <1> QED
    BY <1>4, <1>5

(* The steps of run lose no wake-up. *)
LEMMA RunWake ==
  ASSUME IInv, WakeInv, RunStep
  PROVE  WakeInv'
  <1>1. ParkInv' /\ WriterAwake'
    <2>1. CASE RunFailed
      <3>1. inFlight' = FALSE /\ pc'[Run] = "exited" /\ Broadcast
        BY <2>1, GotoFacts, ThreadKinds DEF RunFailed
      <3>2. inFlight' <=> RunBusy'
        BY <3>1 DEF RunBusy
      <3> QED
        BY <3>1, <3>2, AllAwake
    <2> QED
      BY <2>1, RunMovesWake, RunPopWake, RunWrittenWake DEF RunStep
  <1>2. FlushState'
    <2>1. UNCHANGED <<flushWaiters, loaded>>
      BY DEF RunStep, RunWait, RunExit, RunPop, RunWrite, RunWritten, RunFailed
    <2>2. \A f \in Flushers : pc'[f] = pc[f]
      <3>1. \E l : Goto(Run, l)
        BY DEF RunStep, RunWait, RunExit, RunPop, RunWrite, RunWritten, RunFailed
      <3> QED
        BY <3>1, GotoFacts, ThreadKinds
    <2> QED
      BY <2>1, <2>2, FlushKept
  <1> QED
    BY <1>1, <1>2 DEF WakeInv

-----------------------------------------------------------------------------
(* Nothing is queued and nobody sleeps at first. *)
LEMMA WakeInit == Init => CountInv /\ WakeInv
  <1> SUFFICES ASSUME Init PROVE CountInv /\ WakeInv
    OBVIOUS
  <1>1. /\ \A i \in Items : ~Queued(i)
        /\ queuedItems = 0 /\ queuedBytes = 0
    <2>1. \A p \in Priorities : 1 .. Len(queue[p]) = {}
      BY SMT DEF Init, QueueInit
    <2> QED
      BY <2>1 DEF Init, QueueInit, Queued
  <1>2. CountInv
    BY <1>1, NothingQueued DEF CountInv
  <1>3. \A t \in Threads : ~Parked(t)
    BY SMT DEF Init, Parked
  <1>4. ParkInv
    BY <1>3, ThreadKinds, SMT DEF Init, ParkInv, NoDuplicates, RunBusy
  <1>5. FlushState
    BY ThreadKinds DEF Init, FlushState, Flushing
  <1>6. WriterAwake
    BY <1>1, SMT DEF WriterAwake, Stranded
  <1> QED
    BY <1>2, <1>4, <1>5, <1>6 DEF WakeInv

(* Every step keeps the invariant of the wake-ups. *)
LEMMA WakeNext ==
  ASSUME OneFlusher, IInv, CountInv, WakeInv, [Next]_vars
  PROVE  CountInv' /\ WakeInv'
  <1>1. CountInv'
    BY CountNext
  <1>2. CASE RunStep
    BY <1>1, <1>2, RunWake
  <1>3. CASE \E f \in Flushers : FlushStep(f)
    BY <1>1, <1>3, FlushWake
  <1>4. ASSUME NEW i \in Items, EnqueueStep(i)
        PROVE  WakeInv'
    <2>1. ParkInv' /\ WriterAwake'
      BY <1>4, EnqueueWake
    <2>2. UNCHANGED <<flushWaiters, loaded>> /\ \E l : Goto(i, l)
      BY <1>4 DEF EnqueueStep, EnqueueStart, EnqueueLate, EnqueueTurnedAway, EnqueueWoken,
                  EnqueueLoop, EnqueueAccept, EnqueueRefuse, EnqueueWait
    <2>3. \A f \in Flushers : pc'[f] = pc[f]
      BY <2>2, GotoFacts, ThreadKinds
    <2> QED
      BY <2>1, <2>2, <2>3, FlushKept DEF WakeInv
  <1>5. ASSUME UNCHANGED <<pc, inFlight, flushWaiters, loaded>>, Broadcast
        PROVE  WakeInv'
    <2>1. inFlight' <=> RunBusy'
      BY <1>5, Zenon DEF WakeInv, ParkInv, RunBusy
    <2> QED
      BY <1>5, <2>1, AllAwake, FlushKept DEF WakeInv
  <1>6. ASSUME NEW t \in Items \cup Flushers, AfterFunc(t)
        PROVE  WakeInv'
    BY <1>5, <1>6 DEF AfterFunc
  <1>7. CASE BeginClosing \/ Close
    BY <1>1, <1>5, <1>7 DEF BeginClosing, Close
  <1>8. ASSUME UNCHANGED <<waiters, pc, queuedItems, inFlight, armed, flushWaiters, loaded>>,
               expired \subseteq expired', ctxDone \subseteq ctxDone'
        PROVE  WakeInv'
    BY <1>8, NobodyMoves, FlushKept DEF WakeInv
  <1>9. ASSUME \/ \E t \in Cancellable : ContextDone(t)
               \/ \E i \in Items : DeadlinePasses(i)
        PROVE  WakeInv'
    <2>1. /\ UNCHANGED <<waiters, pc, queuedItems, inFlight, armed, flushWaiters, loaded>>
          /\ expired \subseteq expired' /\ ctxDone \subseteq ctxDone'
      BY <1>9 DEF ContextDone, DeadlinePasses, queueVars
    <2> QED
      BY <1>8, <2>1
  <1>10. CASE UNCHANGED vars
    BY <1>1, <1>8, <1>10 DEF vars, goVars, queueVars
  <1> QED
    BY <1>1, <1>2, <1>3, <1>4, <1>6, <1>7, <1>9, <1>10 DEF Next

(* Who sleeps, and how many flush calls run counts, in every reachable      *)
(* state.                                                                   *)
LEMMA WakeInvariance == ASSUME OneFlusher PROVE Spec => [](IInv /\ CountInv /\ WakeInv)
  <1>1. Init => IInv /\ CountInv /\ WakeInv
    BY InitInv, WakeInit
  <1>2. IInv /\ CountInv /\ WakeInv /\ [Next]_vars => (IInv /\ CountInv /\ WakeInv)'
    BY NextInv, WakeNext
  <1> QED
    BY <1>1, <1>2, PTL DEF Spec

(* run does not sleep over queued work: the one Signal of enqueue, which    *)
(* serves the oldest waiter whether it is run, enqueue or flush, reaches    *)
(* run, or an enqueue of an oversize frame, whose timer wakes run unless    *)
(* the call has given up at its deadline or for its context.  This holds    *)
(* for any number of enqueue calls and one call of flush.                   *)
THEOREM SignalReachesRun == ASSUME OneFlusher PROVE Spec => []WriterAwake
  <1>1. IInv /\ CountInv /\ WakeInv => WriterAwake
    BY DEF WakeInv
  <1> QED
    BY <1>1, WakeInvariance, PTL

(* Where every frame fits into an empty queue, run never sleeps over queued *)
(* work, whatever deadlines pass and contexts end.                          *)
THEOREM FittingFramesAreSent ==
  ASSUME OneFlusher, \A i \in Items : ~Oversize(i)
  PROVE  Spec => []~Stranded
  <1>1. WriterAwake => ~Stranded
    BY DEF WriterAwake
  <1> QED
    BY <1>1, SignalReachesRun, PTL

(* The unlocked decrement of flushWaiters loses no count as long as one     *)
(* caller flushes.                                                          *)
THEOREM OneFlushCounted == ASSUME OneFlusher PROVE Spec => []FlushCountExact
  <1>1. IInv /\ CountInv /\ WakeInv => FlushCountExact
    <2> SUFFICES ASSUME WakeInv PROVE FlushCountExact
      OBVIOUS
    <2> DEFINE S == {f \in Flushers : pc[f] \in {"wait", "return", "store"}}
    <2>1. CASE \E f \in Flushers : Flushing(f)
      <3>1. PICK f \in Flushers : Flushing(f)
        BY <2>1
      <3>2. S = {f}
        BY <3>1 DEF OneFlusher, Flushing
      <3>3. flushWaiters = 1
        BY <3>1, FlushFacts
      <3> QED
        BY <3>2, <3>3, FS_Singleton DEF FlushCountExact
    <2>2. CASE ~\E f \in Flushers : Flushing(f)
      <3>1. S = {}
        BY <2>2 DEF Flushing
      <3>2. flushWaiters = 0
        BY <2>2, FlushFacts DEF WakeInv, FlushState
      <3> QED
        BY <3>1, <3>2, FS_EmptySet DEF FlushCountExact
    <2> QED
      BY <2>1, <2>2
  <1> QED
    BY <1>1, WakeInvariance, PTL

(* queuedItems and queuedBytes are exact under every interleaving of the    *)
(* goroutines, so popLocked never needs its clamp at zero and canEnqueue    *)
(* decides on the real length of the queue.                                 *)
THEOREM CountsExact == Spec => []CountInv
  <1>1. Init => IInv /\ CountInv
    BY InitInv, WakeInit
  <1>2. IInv /\ CountInv /\ [Next]_vars => (IInv /\ CountInv)'
    BY NextInv, CountNext
  <1> QED
    BY <1>1, <1>2, PTL DEF Spec
=============================================================================
