------------------------ MODULE OutgoingMonitorProofs ------------------------
(***************************************************************************)
(* Proofs about OutgoingMonitor: no deadline is lost between senders and   *)
(* monitor, what the receiver writes is what the sender read although      *)
(* buffers are reused, and a record is not recycled while the monitor has  *)
(* a task for it, for any number of transfers, chunks, buffers and retries *)
(* and any timeout.                                                        *)
(***************************************************************************)
EXTENDS OutgoingMonitor, FiniteSetTheorems, WellFoundedInduction, TLAPS

\* What an instance has: finitely many transfers, of at least a chunk each, and a
\* timeout.
Sizes ==
    /\ IsFiniteSet(Transfers)
    /\ chunkCount \in [Transfers -> Nat \ {0}]
    /\ AckTimeout \in Nat /\ RetryLimit \in Nat

\* What a buffer may hold.
Contents == {<<>>} \cup (Transfers \X Nat)

\* A deadline, or none.
Times == {n \in Int : n <= NoTime}

\* Where a sender may be.
Places == {"fill", "reserve", "window", "transmit", "drain", "answer", "unregister",
           "leaving", "returned"}

\* What may be pending.
Items == [chunk : Nat, sentAt : {n \in Int : n <= 0}, retries : Nat, buffer : Buffers]

\* Where senders are, what they hold and what is pending: a window of one chunk.
SenderTypes ==
    /\ pc \in [Transfers -> Places] /\ chunk \in [Transfers -> Nat]
    /\ buffer \in [Transfers -> Buffers \cup {NoBuffer}]
    /\ content \in [Buffers -> Contents] /\ pool \subseteq Buffers
    /\ pending \in [Transfers -> SUBSET Items] /\ failed \in [Transfers -> BOOLEAN]
    /\ \A x \in Transfers : \A i, j \in pending[x] : i = j

\* The deadline asked for, the wake-up, and the monitor.
TimerTypes ==
    /\ outgoingNext \in Times /\ outgoingWake \in BOOLEAN
    /\ sched \in [Transfers -> {"none", "swap", "wake"}]
    /\ mon \in [at : {"select", "scan", "send"}, armed : Times, next : Times]

\* Every transfer has a count of references.
RefTypes == DOMAIN monitorRefs = Transfers

\* A frame on its way, or a task that may become one.
Frame(f) == f.transfer \in Transfers /\ f.chunk \in Nat /\ f.bytes \in Contents

\* The frames, and what the receiver wrote.
FrameTypes ==
    /\ \A f \in tasks \cup net : Frame(f)
    /\ written \in [Transfers -> Seq(Contents)]

-----------------------------------------------------------------------------
\* A buffer is the sender's until it is reserved and the pending chunk's then; its
\* content tells whose it is.
Buffered(x) ==
    /\ pc[x] \in {"reserve", "window"} =>
          buffer[x] \in Buffers /\ buffer[x] \notin pool /\ content[buffer[x]] = <<x, chunk[x]>>
    /\ pc[x] = "transmit" => buffer[x] \in Buffers
    /\ \A i \in pending[x] : i.buffer \notin pool /\ content[i.buffer] = <<x, i.chunk>>

\* How far a transfer is: what was sent before the pending chunk is written, and the
\* chunk that is about to be sent is pending or, sent by the monitor, written.
Advanced(x) ==
    /\ Len(written[x]) <= chunkCount[x]
    /\ pc[x] \in {"fill", "reserve", "window", "transmit"} => chunk[x] \in 1..chunkCount[x]
    /\ \A i \in pending[x] : i.chunk \in 1..chunkCount[x] /\ i.chunk <= Len(written[x]) + 1
    /\ pc[x] \in {"fill", "reserve", "window"} =>
          /\ \A i \in pending[x] : i.chunk = chunk[x] - 1
          /\ pending[x] = {} => chunk[x] - 1 <= Len(written[x])
    /\ pc[x] = "transmit" =>
          /\ \A i \in pending[x] : i.chunk = chunk[x] /\ i.buffer = buffer[x]
          /\ pending[x] = {} => chunk[x] <= Len(written[x])

\* A frame carries its chunk, or is a duplicate of one that is written.
Sound(f) ==
    /\ f.chunk \in 1..chunkCount[f.transfer]
    /\ f.chunk <= Len(written[f.transfer]) + 1
    /\ f.bytes = <<f.transfer, f.chunk>> \/ f.chunk <= Len(written[f.transfer])

\* The body written so far is that of the sender.
Intact(x) == \A n \in 1..Len(written[x]) : written[x][n] = <<x, n>>

\* A transfer has a reference for the task that the monitor has for it, and none
\* without one; it is not returned before.
Counted ==
    /\ mon.at # "send" => tasks = {}
    /\ \A s, t \in tasks : s.transfer = t.transfer => s = t
    /\ \A x \in Transfers :
          monitorRefs[x] = IF \E t \in tasks : t.transfer = x THEN 1 ELSE 0

\* A transfer that the monitor has a task for is not put back.
Referred == \A t \in tasks : pc[t.transfer] # "returned"

-----------------------------------------------------------------------------
\* A wake-up has been sent or will be.
WakeComing == outgoingWake \/ \E y \in Transfers : sched[y] = "wake"

\* What is asked for is armed, or a wake-up is coming; nothing is armed that is
\* later than what is asked for.
Noted ==
    /\ outgoingNext <= mon.armed
    /\ outgoingNext # NoTime => outgoingNext = mon.armed \/ WakeComing

\* The transfer has asked the monitor.
Asked(x) == pc[x] \in {"window", "answer"} /\ sched[x] # "swap" /\ ~failed[x]

\* Somebody has the deadline d in hand.
Kept(d) ==
    \/ mon.armed <= d \/ mon.next <= d \/ mon.at = "scan"
    \/ outgoingNext <= d /\ WakeComing

\* Whoever has asked has its first deadline in hand.
Heeded == \A x \in Transfers : Asked(x) => Kept(nextOutgoingDeadlineLocked(x))

\* The types of the state.
Types == SenderTypes /\ TimerTypes /\ FrameTypes /\ RefTypes

\* What frames carry, chunk by chunk.
Carried ==
    /\ \A x \in Transfers : Buffered(x) /\ Advanced(x) /\ Intact(x)
    /\ \A f \in tasks \cup net : Sound(f)

\* The inductive invariant: frames, references and deadlines.
IInv == Types /\ Carried /\ Counted /\ Referred /\ Noted /\ Heeded

-----------------------------------------------------------------------------
\* The numbers of S up to n.
UpTo(S, n) == {m \in S : m <= n}

\* A finite set of numbers has a least, which MinOf chooses.
LEMMA MinOfLeast ==
    ASSUME NEW S \in SUBSET Int, IsFiniteSet(S), S # {}
    PROVE  MinOf(S) \in S /\ \A m \in S : MinOf(S) <= m
<1> DEFINE T == {UpTo(S, n) : n \in S}
<1>1. IsWellFoundedOn(StrictSubsetOrdering(S), FiniteSubsetsOf(S))
  BY FS_StrictSubsetOrderingWellFounded, Zenon
<1>2. T \subseteq FiniteSubsetsOf(S)
  <2>1. ASSUME NEW n \in S PROVE UpTo(S, n) \in FiniteSubsetsOf(S)
    <3>1. UpTo(S, n) \in SUBSET S
      BY Zenon DEF UpTo
    <3>2. IsFiniteSet(UpTo(S, n))
      BY <3>1, FS_Subset, Zenon
    <3> QED
      BY <3>1, <3>2, Zenon DEF FiniteSubsetsOf
  <2> QED
    BY <2>1, Zenon
<1>3. T # {}
  BY Zenon
<1>4. PICK U \in T : \A V \in T : ~(<<V, U>> \in StrictSubsetOrdering(S))
  <2> HIDE DEF T
  <2> QED
    BY <1>1, <1>2, <1>3, WFMin, Zenon
<1>5. PICK n \in S : U = UpTo(S, n)
  BY <1>4, Zenon
<1>6. ASSUME NEW m \in S PROVE n <= m
  <2>1. SUFFICES ASSUME ~(n <= m) PROVE FALSE
    BY Zenon
  <2>2. UpTo(S, m) \subseteq UpTo(S, n) /\ UpTo(S, m) # UpTo(S, n)
    <3>1. m < n /\ n \in Int /\ m \in Int
      BY <2>1
    <3>2. ASSUME NEW k \in UpTo(S, m) PROVE k \in UpTo(S, n)
      BY <3>1, <3>2, SMT DEF UpTo
    <3>3. n \in UpTo(S, n) /\ n \notin UpTo(S, m)
      BY <3>1, SMT DEF UpTo
    <3> QED
      BY <3>2, <3>3, Zenon
  <2>3. UpTo(S, m) \in SUBSET S /\ UpTo(S, n) \in SUBSET S
    BY Zenon DEF UpTo
  <2>4. <<UpTo(S, m), UpTo(S, n)>> \in StrictSubsetOrdering(S)
    BY <2>2, <2>3, Zenon DEF StrictSubsetOrdering
  <2>5. UpTo(S, m) \in T
    BY Zenon
  <2> QED
    BY <1>4, <1>5, <2>4, <2>5, Zenon
<1> HIDE DEF T
<1>7. \E k \in S : \A m \in S : k <= m
  BY <1>6, Zenon
<1> QED
  BY <1>7, Zenon DEF MinOf

\* The first deadline of a set of chunks.
FirstOf(P) == MinOf({Deadline(i) : i \in P} \cup {NoTime})

\* The deadline of a chunk is a time that comes.
LEMMA DeadlineType ==
    ASSUME Sizes, NEW i \in Items
    PROVE  Deadline(i) \in Int /\ Deadline(i) = i.sentAt + AckTimeout /\ Deadline(i) < NoTime
<1>1. i.sentAt \in Int /\ i.sentAt <= 0
  BY Zenon DEF Items
<1> QED
  BY <1>1, SMT DEF Sizes, Deadline, NoTime

\* The first deadline of a window of one chunk is that of the chunk.
LEMMA FirstDeadline ==
    ASSUME Sizes, NEW P \in SUBSET Items, \A i, j \in P : i = j
    PROVE  /\ P = {} => FirstOf(P) = NoTime
           /\ \A i \in P : FirstOf(P) = Deadline(i)
           /\ FirstOf(P) \in Times
<1>1. NoTime \in Int
  BY SMT DEF Sizes, NoTime
<1>2. ASSUME P = {} PROVE FirstOf(P) = NoTime
  <2>1. {Deadline(i) : i \in P} \cup {NoTime} = {NoTime}
    BY <1>2, Zenon
  <2>2. IsFiniteSet({NoTime}) /\ {NoTime} # {} /\ {NoTime} \in SUBSET Int
    BY <1>1, FS_Singleton, Zenon
  <2>3. MinOf({NoTime}) \in {NoTime}
    BY <2>2, MinOfLeast, Zenon
  <2> QED
    BY <2>1, <2>3, Zenon DEF FirstOf
<1>3. ASSUME NEW i \in P PROVE FirstOf(P) = Deadline(i)
  <2>1. Deadline(i) \in Int /\ Deadline(i) < NoTime
    BY DeadlineType, Zenon
  <2> DEFINE d == Deadline(i)
  <2>2. {Deadline(j) : j \in P} \cup {NoTime} = {d} \cup {NoTime}
    BY Zenon
  <2> HIDE DEF d
  <2>3. IsFiniteSet({d} \cup {NoTime})
    BY FS_Singleton, FS_Union, Zenon
  <2>4. d \in Int /\ d < NoTime
    BY <2>1, Zenon DEF d
  <2>5. {d} \cup {NoTime} \in SUBSET Int /\ {d} \cup {NoTime} # {}
    BY <1>1, <2>4, Zenon
  <2>6. MinOf({d} \cup {NoTime}) \in {d} \cup {NoTime} /\ MinOf({d} \cup {NoTime}) <= d
    BY <2>3, <2>5, MinOfLeast, Zenon
  <2>7. MinOf({d} \cup {NoTime}) = d
    BY <1>1, <2>4, <2>6
  <2> QED
    BY <2>2, <2>7, Zenon DEF FirstOf, d
<1>4. FirstOf(P) \in Times
  <2>1. CASE P = {}
    BY <1>1, <1>2, <2>1 DEF Times
  <2>2. ASSUME NEW i \in P PROVE FirstOf(P) \in Times
    <3>1. FirstOf(P) = Deadline(i) /\ Deadline(i) \in Int /\ Deadline(i) < NoTime
      BY <1>3, DeadlineType, Zenon
    <3> QED
      BY <1>1, <3>1 DEF Times
  <2> QED
    BY <2>1, <2>2, Zenon
<1> QED
  BY <1>2, <1>3, <1>4, Zenon

-----------------------------------------------------------------------------
\* The buffer was last filled with a chunk of y.
Belongs(b, y) == \E c \in Nat : content[b] = <<y, c>>

\* A step of another transfer or of the monitor leaves y and its buffers alone.
Leaves(y) ==
    /\ pc'[y] = pc[y] /\ chunk'[y] = chunk[y] /\ buffer'[y] = buffer[y]
    /\ pending'[y] = pending[y] /\ written'[y] = written[y]
    /\ \A b \in Buffers :
          Belongs(b, y) /\ b \notin pool => content'[b] = content[b] /\ b \notin pool'

\* What a step leaves alone stays as the invariant wants it.
LEMMA LeavesStep ==
    ASSUME SenderTypes, NEW y \in Transfers, Buffered(y), Advanced(y), Intact(y), Leaves(y)
    PROVE  Buffered(y)' /\ Advanced(y)' /\ Intact(y)'
<1>1. /\ \A i \in pending[y] : i.buffer \in Buffers /\ i.chunk \in Nat
      /\ chunk[y] \in Nat
  BY DEF SenderTypes, Items
<1>2. Buffered(y)'
  <2>1. \A i \in pending[y] : Belongs(i.buffer, y)
    BY <1>1, Zenon DEF Buffered, Belongs
  <2>2. pc[y] \in {"reserve", "window"} => Belongs(buffer[y], y)
    BY <1>1, Zenon DEF Buffered, Belongs
  <2> QED
    BY <1>1, <2>1, <2>2, Zenon DEF Buffered, Leaves
<1>3. Advanced(y)'
  BY Zenon DEF Advanced, Leaves
<1>4. Intact(y)'
  BY Zenon DEF Intact, Leaves
<1> QED
  BY <1>2, <1>3, <1>4, Zenon

\* Frames stay sound while what is written only grows.
LEMMA SoundStep ==
    ASSUME FrameTypes, NEW f, Frame(f), Sound(f), written' \in [Transfers -> Seq(Contents)],
           Len(written[f.transfer]) <= Len(written'[f.transfer])
    PROVE  Sound(f)'
<1>1. /\ f.chunk \in Nat /\ Len(written[f.transfer]) \in Nat /\ Len(written'[f.transfer]) \in Nat
  BY DEF FrameTypes, Frame
<1> DEFINE a == Len(written[f.transfer])
           b == Len(written'[f.transfer])
<1>2. f.chunk <= a + 1 => f.chunk <= b + 1
  BY <1>1
<1>3. f.chunk <= a => f.chunk <= b
  BY <1>1
<1> QED
  BY <1>2, <1>3, Zenon DEF Sound

\* The part of the invariant that is about deadlines, when a step of x lets it not
\* have asked and changes nothing else of it.
LEMMA HeededStep ==
    ASSUME Heeded, NEW x \in Transfers, ~Asked(x)',
           \A y \in Transfers \ {x} :
               /\ pc'[y] = pc[y] /\ sched'[y] = sched[y] /\ failed'[y] = failed[y]
               /\ pending'[y] = pending[y],
           UNCHANGED <<mon, outgoingNext>>, WakeComing => WakeComing'
    PROVE  Heeded'
<1> SUFFICES ASSUME NEW y \in Transfers, Asked(y)'
             PROVE  Kept(nextOutgoingDeadlineLocked(y))'
  BY Zenon DEF Heeded
<1>1. y \in Transfers \ {x} /\ Asked(y)
  BY Zenon DEF Asked
<1>2. nextOutgoingDeadlineLocked(y)' = nextOutgoingDeadlineLocked(y)
  BY <1>1, Zenon DEF nextOutgoingDeadlineLocked
<1>3. Kept(nextOutgoingDeadlineLocked(y))
  BY <1>1, Zenon DEF Heeded
<1> QED
  BY <1>2, <1>3, Zenon DEF Kept

\* A step that takes no wake-up away.
LEMMA NotedStep ==
    ASSUME Noted, NEW x \in Transfers, sched[x] = "wake" => sched'[x] = "wake",
           \A y \in Transfers \ {x} : sched'[y] = sched[y],
           UNCHANGED <<mon, outgoingNext, outgoingWake>>
    PROVE  Noted' /\ (WakeComing => WakeComing')
  BY Zenon DEF Noted, WakeComing

-----------------------------------------------------------------------------
\* Steps that only schedule leave buffers, frames and references alone.
LEMMA SchedulingStep ==
    ASSUME Types, Carried, Counted, Referred, TimerTypes',
           UNCHANGED <<pc, chunk, bufVars, otVars, monitorRefs, tasks, net, written>>,
           mon'.at = "send" \/ tasks = {}
    PROVE  Types' /\ Carried' /\ Counted' /\ Referred'
<1>1. SenderTypes' /\ FrameTypes' /\ RefTypes'
  BY Zenon DEF Types, SenderTypes, FrameTypes, RefTypes, bufVars, otVars
<1>2. Carried'
  <2>1. ASSUME NEW x \in Transfers PROVE Buffered(x)' /\ Advanced(x)' /\ Intact(x)'
    <3>1. Leaves(x)
      BY Zenon DEF Leaves, bufVars, otVars
    <3> QED
      BY <3>1, LeavesStep, Zenon DEF Types, Carried
  <2>2. ASSUME NEW f \in (tasks \cup net)' PROVE Sound(f)'
    BY Zenon DEF Carried, Sound
  <2> QED
    BY <2>1, <2>2, Zenon DEF Carried
<1>3. Counted' /\ Referred'
  BY Zenon DEF Counted, Referred
<1> QED
  BY <1>1, <1>2, <1>3, Zenon DEF Types

\* The times of the timer are numbers.
LEMMA Numbers ==
    ASSUME Sizes, TimerTypes
    PROVE  /\ NoTime \in Int /\ outgoingNext \in Int /\ mon.armed \in Int /\ mon.next \in Int
           /\ outgoingNext <= NoTime /\ mon.armed <= NoTime /\ mon.next <= NoTime
<1>1. NoTime \in Int
  BY SMT DEF Sizes, NoTime
<1>2. mon.armed \in Times /\ mon.next \in Times
  BY Zenon DEF TimerTypes
<1> QED
  BY <1>1, <1>2, Zenon DEF TimerTypes, Times

\* The first deadline of a transfer is a time.
LEMMA FirstType ==
    ASSUME Sizes, SenderTypes, NEW x \in Transfers
    PROVE  /\ nextOutgoingDeadlineLocked(x) = FirstOf(pending[x])
           /\ nextOutgoingDeadlineLocked(x) \in Times
           /\ pending[x] \in SUBSET Items /\ \A i, j \in pending[x] : i = j
<1>1. pending[x] \in SUBSET Items /\ \A i, j \in pending[x] : i = j
  BY Zenon DEF SenderTypes
<1>2. nextOutgoingDeadlineLocked(x) = FirstOf(pending[x])
  BY Zenon DEF nextOutgoingDeadlineLocked, FirstOf
<1> QED
  BY <1>1, <1>2, FirstDeadline, Zenon

\* What is asked for is in hand: it is armed, or will be.
LEMMA NextKept ==
    ASSUME Sizes, TimerTypes, Noted, NEW d \in Times, outgoingNext <= d
    PROVE  Kept(d)
<1>1. /\ NoTime \in Int /\ outgoingNext \in Int /\ mon.armed \in Int
      /\ outgoingNext <= NoTime /\ mon.armed <= NoTime
  BY Numbers, Zenon
<1>2. d \in Int /\ d <= NoTime
  BY Zenon DEF Times
<1>3. CASE outgoingNext = NoTime
  BY <1>1, <1>2, <1>3, SMT DEF Kept
<1>4. CASE outgoingNext = mon.armed
  BY <1>4, Zenon DEF Kept
<1>5. CASE WakeComing
  BY <1>5, Zenon DEF Kept
<1> QED
  BY <1>3, <1>4, <1>5, Zenon DEF Noted

\* A sender asks for its deadline, unless an earlier one is asked for.
LEMMA CompareAndSwapStep ==
    ASSUME Sizes, IInv, NEW x \in Transfers, CompareAndSwap(x)
    PROVE  IInv'
<1> DEFINE d == nextOutgoingDeadlineLocked(x)
<1>0. Types /\ SenderTypes /\ TimerTypes /\ Noted /\ Heeded
  BY Zenon DEF IInv, Types
<1>1. d \in Times
  BY <1>0, FirstType, Zenon
<1>2. /\ NoTime \in Int /\ outgoingNext \in Int /\ mon.armed \in Int
  BY <1>0, Numbers, Zenon
<1>3. d \in Int
  BY <1>1, Zenon DEF Times
<1>4. /\ UNCHANGED <<pc, chunk, bufVars, otVars, monitorRefs, outgoingWake, mon, tasks, net,
                     written>>
      /\ sched[x] = "swap"
      /\ \/ d < outgoingNext /\ outgoingNext' = d /\ sched' = [sched EXCEPT ![x] = "wake"]
         \/ /\ ~(d < outgoingNext)
            /\ sched' = [sched EXCEPT ![x] = "none"] /\ outgoingNext' = outgoingNext
  BY Zenon DEF CompareAndSwap, MustLower
<1>5. TimerTypes'
  BY <1>0, <1>1, <1>4, Zenon DEF TimerTypes
<1>6. Types' /\ Carried' /\ Counted' /\ Referred'
  BY <1>4, <1>5, SchedulingStep, Zenon DEF IInv, Counted
<1>7. \A y \in Transfers \ {x} : sched'[y] = sched[y]
  BY <1>0, <1>4, Zenon DEF TimerTypes
<1>8. \A y \in Transfers : nextOutgoingDeadlineLocked(y)' = nextOutgoingDeadlineLocked(y)
  BY <1>4, Zenon DEF nextOutgoingDeadlineLocked, otVars
<1>9. \A y \in Transfers \ {x} : Asked(y)' => Asked(y)
  BY <1>4, <1>7, Zenon DEF Asked, otVars
<1> HIDE DEF d
<1>10. CASE d < outgoingNext /\ outgoingNext' = d /\ sched' = [sched EXCEPT ![x] = "wake"]
  <2>1. WakeComing' /\ outgoingNext' <= mon.armed /\ outgoingNext' <= d
    <3>1. sched'[x] = "wake"
      BY <1>0, <1>10, Zenon DEF TimerTypes
    <3>2. d <= mon.armed /\ d <= d
      BY <1>0, <1>2, <1>3, <1>10, SMT DEF Noted
    <3> QED
      BY <1>10, <3>1, <3>2, Zenon DEF WakeComing
  <2>2. Noted'
    BY <1>4, <2>1, Zenon DEF Noted
  <2>3. ASSUME NEW e \in Times, Kept(e) PROVE Kept(e)'
    <3>1. outgoingNext <= e => outgoingNext' <= e
      BY <1>2, <1>3, <1>10, SMT DEF Times
    <3> QED
      BY <1>4, <2>1, <2>3, <3>1, Zenon DEF Kept
  <2>4. ASSUME NEW y \in Transfers, Asked(y)' PROVE Kept(nextOutgoingDeadlineLocked(y))'
    <3>1. CASE y = x
      BY <1>8, <2>1, <3>1, Zenon DEF Kept, d
    <3>2. CASE y # x
      <4>1. nextOutgoingDeadlineLocked(y) \in Times /\ Kept(nextOutgoingDeadlineLocked(y))
        BY <1>0, <1>9, <2>4, <3>2, FirstType, Zenon DEF Heeded
      <4>2. PICK e \in Times : e = nextOutgoingDeadlineLocked(y)
        BY <4>1, Zenon
      <4>3. Kept(e)'
        BY <2>3, <4>1, <4>2, Zenon
      <4> QED
        BY <1>8, <4>2, <4>3, Zenon DEF Kept
    <3> QED
      BY <3>1, <3>2, Zenon
  <2>5. Heeded'
    BY <2>4, Zenon DEF Heeded
  <2> QED
    BY <1>6, <2>2, <2>5, Zenon DEF IInv
<1>11. CASE /\ ~(d < outgoingNext)
            /\ sched' = [sched EXCEPT ![x] = "none"] /\ outgoingNext' = outgoingNext
  <2>1. Noted' /\ (WakeComing => WakeComing')
    BY <1>0, <1>4, <1>7, <1>11, NotedStep, Zenon
  <2>2. outgoingNext <= d
    BY <1>2, <1>3, <1>11
  <2>3. Kept(d)
    BY <1>0, <1>1, <2>2, NextKept, Zenon DEF d
  <2>4. ASSUME NEW y \in Transfers, Asked(y)' PROVE Kept(nextOutgoingDeadlineLocked(y))
    <3>1. CASE y = x
      BY <2>3, <3>1, Zenon DEF d
    <3>2. CASE y # x
      BY <1>0, <1>9, <2>4, <3>2, Zenon DEF Heeded
    <3> QED
      BY <3>1, <3>2, Zenon
  <2>5. ASSUME NEW y \in Transfers, Asked(y)' PROVE Kept(nextOutgoingDeadlineLocked(y))'
    BY <1>4, <1>8, <1>11, <2>1, <2>4, <2>5, Zenon DEF Kept
  <2>6. Heeded'
    BY <2>5, Zenon DEF Heeded
  <2> QED
    BY <1>6, <2>1, <2>6, Zenon DEF IInv
<1> QED
  BY <1>4, <1>10, <1>11, Zenon DEF d

\* The wake-up that was coming is sent.
LEMMA WakeStep ==
    ASSUME Sizes, IInv, NEW x \in Transfers, Wake(x)
    PROVE  IInv'
<1>0. Types /\ SenderTypes /\ TimerTypes /\ Noted /\ Heeded
  BY Zenon DEF IInv, Types
<1>1. /\ sched[x] = "wake" /\ outgoingWake' = TRUE /\ sched' = [sched EXCEPT ![x] = "none"]
      /\ UNCHANGED <<pc, chunk, bufVars, otVars, monitorRefs, outgoingNext, mon, tasks, net,
                     written>>
  BY Zenon DEF Wake
<1>2. TimerTypes' /\ WakeComing'
  BY <1>0, <1>1, Zenon DEF TimerTypes, WakeComing
<1>3. Types' /\ Carried' /\ Counted' /\ Referred'
  BY <1>1, <1>2, SchedulingStep, Zenon DEF IInv, Counted
<1>4. Noted'
  BY <1>0, <1>1, <1>2, Zenon DEF Noted
<1>5. Heeded'
  <2> SUFFICES ASSUME NEW y \in Transfers, Asked(y)'
               PROVE  Kept(nextOutgoingDeadlineLocked(y))'
    BY Zenon DEF Heeded
  <2>1. Asked(y)
    BY <1>0, <1>1, Zenon DEF Asked, TimerTypes, otVars
  <2>2. nextOutgoingDeadlineLocked(y)' = nextOutgoingDeadlineLocked(y)
    BY <1>1, Zenon DEF nextOutgoingDeadlineLocked, otVars
  <2> QED
    BY <1>0, <1>1, <1>2, <2>1, <2>2, Zenon DEF Heeded, Kept
<1> QED
  BY <1>3, <1>4, <1>5, Zenon DEF IInv

\* A step of the timer: senders, frames and references stay; what was in hand is.
LEMMA TimerStep ==
    ASSUME Sizes, IInv, TimerTypes', Noted', mon'.at = "send" \/ tasks = {},
           UNCHANGED <<pc, chunk, bufVars, otVars, monitorRefs, sched, tasks, net, written>>,
           \A d \in Times : Kept(d) => Kept(d)'
    PROVE  IInv'
<1>1. Types' /\ Carried' /\ Counted' /\ Referred'
  BY SchedulingStep, Zenon DEF IInv
<1>2. Heeded'
  <2> SUFFICES ASSUME NEW y \in Transfers, Asked(y)'
               PROVE  Kept(nextOutgoingDeadlineLocked(y))'
    BY Zenon DEF Heeded
  <2>1. Asked(y)
    BY Zenon DEF Asked, otVars
  <2>2. nextOutgoingDeadlineLocked(y)' = nextOutgoingDeadlineLocked(y)
    BY Zenon DEF nextOutgoingDeadlineLocked, otVars
  <2>3. nextOutgoingDeadlineLocked(y) \in Times
    BY FirstType, Zenon DEF IInv, Types
  <2>4. PICK d \in Times : d = nextOutgoingDeadlineLocked(y)
    BY <2>3, Zenon
  <2>5. Kept(d)'
    BY <2>1, <2>4, Zenon DEF IInv, Heeded
  <2> QED
    BY <2>2, <2>4, <2>5, Zenon DEF Kept
<1> QED
  BY <1>1, <1>2, Zenon DEF IInv

\* A wake-up makes the monitor arm what is asked for.
LEMMA ArmStep == ASSUME Sizes, IInv, Arm PROVE IInv'
<1>0. TimerTypes /\ Noted
  BY Zenon DEF IInv, Types
<1>1. /\ NoTime \in Int /\ outgoingNext \in Int /\ mon.armed \in Int /\ mon.next \in Int
      /\ outgoingNext <= NoTime /\ mon.armed <= NoTime
  BY <1>0, Numbers, Zenon
<1>2. /\ mon.at = "select" /\ outgoingWake' = FALSE /\ outgoingNext' = outgoingNext
      /\ mon'.at = "select" /\ mon'.next = mon.next
      /\ mon'.armed = IF outgoingNext = NoTime THEN mon.armed ELSE outgoingNext
      /\ mon' \in [at : {"select", "scan", "send"}, armed : Times, next : Times]
  BY <1>0, Zenon DEF Arm, TimerTypes
<1>3. mon'.armed = outgoingNext
  BY <1>0, <1>1, <1>2, SMT DEF Noted
<1>4. TimerTypes'
  BY <1>0, <1>2, Zenon DEF TimerTypes, Arm
<1>5. Noted'
  BY <1>1, <1>2, <1>3, SMT DEF Noted
<1>6. tasks = {}
  BY <1>2, Zenon DEF IInv, Counted
<1>7. ASSUME NEW d \in Times, Kept(d) PROVE Kept(d)'
  <2>1. mon.armed <= d => outgoingNext <= d
    BY <1>0, <1>1, SMT DEF Noted, Times
  <2> QED
    BY <1>2, <1>3, <1>7, <2>1, Zenon DEF Kept
<1> QED
  BY <1>4, <1>5, <1>6, <1>7, TimerStep, Zenon DEF Arm

\* The timer fires: the scan has still to come to every transfer.
LEMMA FireStep == ASSUME Sizes, IInv, Fire PROVE IInv'
<1>0. TimerTypes /\ Noted
  BY Zenon DEF IInv, Types
<1>1. /\ NoTime \in Int /\ outgoingNext \in Int /\ outgoingNext <= NoTime
  BY <1>0, Numbers, Zenon
<1>2. /\ mon.at = "select" /\ mon' = [at |-> "scan", armed |-> NoTime, next |-> NoTime]
      /\ outgoingNext' = IF outgoingNext = mon.armed THEN NoTime ELSE outgoingNext
      /\ UNCHANGED <<outgoingWake, sched>>
  BY Zenon DEF Fire
<1>3. NoTime \in Times
  BY <1>1 DEF Times
<1>4. TimerTypes'
  BY <1>0, <1>2, <1>3, Zenon DEF TimerTypes
<1>5. Noted'
  BY <1>0, <1>1, <1>2 DEF Noted, WakeComing
<1>6. tasks = {}
  BY <1>2, Zenon DEF IInv, Counted
<1>7. ASSUME NEW d \in Times PROVE Kept(d)'
  BY <1>2, Zenon DEF Kept
<1> QED
  BY <1>4, <1>5, <1>6, <1>7, TimerStep, Zenon DEF Fire

\* The monitor asks for the next deadline that its scan found.
LEMMA RescheduleStep == ASSUME Sizes, IInv, Reschedule PROVE IInv'
<1>0. TimerTypes /\ Noted
  BY Zenon DEF IInv, Types
<1>1. /\ NoTime \in Int /\ outgoingNext \in Int /\ mon.armed \in Int /\ mon.next \in Int
      /\ outgoingNext <= NoTime /\ mon.armed <= NoTime /\ mon.next <= NoTime
  BY <1>0, Numbers, Zenon
<1>2. /\ tasks = {} /\ sched' = sched
      /\ outgoingNext' = IF mon.next < outgoingNext THEN mon.next ELSE outgoingNext
      /\ outgoingWake' = (outgoingWake \/ mon.next < outgoingNext)
      /\ mon'.at = "select" /\ mon'.next = NoTime /\ mon'.armed = mon.armed
  BY <1>0, Zenon DEF Reschedule, MustLower, TimerTypes
<1>3. mon' \in [at : {"select", "scan", "send"}, armed : Times, next : Times]
  <2>1. NoTime \in Times
    BY <1>1 DEF Times
  <2> QED
    BY <1>0, <2>1, Zenon DEF Reschedule, TimerTypes
<1>4. TimerTypes'
  <2>1. outgoingNext' \in Times
    BY <1>0, <1>1, <1>2, Zenon DEF TimerTypes, Times
  <2>2. outgoingWake' \in BOOLEAN
    BY <1>0, <1>2, Zenon DEF TimerTypes
  <2> QED
    BY <1>0, <1>2, <1>3, <2>1, <2>2, Zenon DEF TimerTypes
<1>5. CASE mon.next < outgoingNext
  <2>1. WakeComing' /\ outgoingNext' = mon.next /\ outgoingNext' <= mon'.armed
    <3>1. outgoingWake' = TRUE
      BY <1>2, <1>5, Zenon
    <3>2. outgoingNext' = mon.next /\ outgoingNext' <= mon'.armed
      BY <1>0, <1>1, <1>2, <1>5, SMT DEF Noted
    <3> QED
      BY <3>1, <3>2, Zenon DEF WakeComing
  <2>2. Noted'
    BY <2>1, Zenon DEF Noted
  <2>3. ASSUME NEW d \in Times, Kept(d) PROVE Kept(d)'
    <3>1. mon.at # "scan"
      BY Zenon DEF Reschedule
    <3>2. outgoingNext <= d => mon.next <= d
      BY <1>1, <1>5, SMT DEF Times
    <3> QED
      BY <1>2, <2>1, <2>3, <3>1, <3>2, Zenon DEF Kept
  <2> QED
    BY <1>2, <1>4, <2>2, <2>3, TimerStep, Zenon DEF Reschedule
<1>6. CASE ~(mon.next < outgoingNext)
  <2>1. /\ outgoingNext' = outgoingNext /\ outgoingWake' = outgoingWake
    BY <1>0, <1>2, <1>6, Zenon DEF TimerTypes
  <2>2. WakeComing' <=> WakeComing
    BY <1>2, <2>1 DEF WakeComing
  <2>3. Noted'
    BY <1>0, <1>2, <2>1, <2>2, Zenon DEF Noted
  <2>4. ASSUME NEW d \in Times, Kept(d) PROVE Kept(d)'
    <3>1. CASE mon.armed <= d
      BY <1>2, <3>1, Zenon DEF Kept
    <3>2. CASE outgoingNext <= d
      <4>1. outgoingNext' <= d
        BY <2>1, <3>2, Zenon
      <4>2. CASE outgoingNext = NoTime
        <5>1. mon.armed <= d
          BY <1>1, <3>2, <4>2, SMT DEF Times
        <5> QED
          BY <3>1, <5>1, Zenon
      <4>3. CASE outgoingNext = mon.armed
        BY <3>1, <3>2, <4>3, Zenon
      <4>4. CASE WakeComing
        BY <2>2, <4>1, <4>4, Zenon DEF Kept
      <4> QED
        BY <1>0, <4>2, <4>3, <4>4, Zenon DEF Noted
    <3>3. CASE mon.next <= d
      <4>1. outgoingNext <= d
        BY <1>1, <1>6, <3>3, SMT DEF Times
      <4> QED
        BY <3>2, <4>1, Zenon
    <3>4. mon.at # "scan"
      BY Zenon DEF Reschedule
    <3> QED
      BY <2>4, <3>1, <3>2, <3>3, <3>4, Zenon DEF Kept
  <2> QED
    BY <1>2, <1>4, <2>3, <2>4, TimerStep, Zenon DEF Reschedule
<1> QED
  BY <1>5, <1>6, Zenon

-----------------------------------------------------------------------------
\* The invariant is kept by a step of the sender x that leaves the other transfers
\* and the monitor alone, and whose own part is as it should be.
LEMMA SenderStep ==
    ASSUME Sizes, IInv, NEW x \in Transfers, SenderTypes', Buffered(x)', Advanced(x)',
           \A y \in Transfers \ {x} : Leaves(y) /\ sched'[y] = sched[y],
           failed' = failed, sched' \in [Transfers -> {"none", "swap", "wake"}],
           sched[x] = "wake" => sched'[x] = "wake",
           monitorRefs' = monitorRefs, outgoingNext' = outgoingNext,
           outgoingWake' = outgoingWake, mon' = mon, tasks' = tasks, written' = written,
           ~Asked(x)', pc'[x] = "returned" => \A t \in tasks : t.transfer # x,
           \A f \in net' : f \in net \/ (Frame(f) /\ Sound(f))
    PROVE  IInv'
<1>0. SenderTypes /\ TimerTypes /\ FrameTypes /\ Carried /\ Noted /\ Heeded
  BY Zenon DEF IInv, Types
<1>1. Types'
  <2>1. TimerTypes'
    BY <1>0, Zenon DEF TimerTypes
  <2>2. FrameTypes'
    BY <1>0, Zenon DEF FrameTypes
  <2>3. RefTypes'
    BY Zenon DEF IInv, Types, RefTypes
  <2> QED
    BY <2>1, <2>2, <2>3, Zenon DEF Types
<1>2. Carried'
  <2>1. ASSUME NEW y \in Transfers PROVE Buffered(y)' /\ Advanced(y)' /\ Intact(y)'
    <3>1. CASE y = x
      BY <1>0, <3>1, Zenon DEF Carried, Intact
    <3>2. CASE y # x
      BY <1>0, <3>2, LeavesStep, Zenon DEF Carried
    <3> QED
      BY <3>1, <3>2, Zenon
  <2>2. ASSUME NEW f \in (tasks \cup net)' PROVE Sound(f)'
    <3>1. Sound(f)
      BY <1>0, Zenon DEF Carried
    <3> QED
      BY <3>1, Zenon DEF Sound
  <2> QED
    BY <2>1, <2>2, Zenon DEF Carried
<1>3. Counted'
  BY Zenon DEF IInv, Counted
<1>4. Referred'
  <2>1. ASSUME NEW t \in tasks PROVE pc'[t.transfer] # "returned"
    <3>1. t.transfer \in Transfers /\ pc[t.transfer] # "returned"
      BY <1>0, Zenon DEF FrameTypes, Frame, IInv, Referred
    <3> QED
      BY <3>1, Zenon DEF Leaves
  <2> QED
    BY <2>1, Zenon DEF Referred
<1>5. Noted' /\ (WakeComing => WakeComing')
  BY <1>0, NotedStep, Zenon
<1>6. Heeded'
  BY <1>0, <1>5, HeededStep, Zenon DEF Leaves
<1> QED
  BY <1>1, <1>2, <1>3, <1>4, <1>5, <1>6, Zenon DEF IInv

\* A step that leaves pool and content alone leaves those that it does not change.
LEMMA LeavesBuffers ==
    ASSUME NEW y \in Transfers, UNCHANGED <<content, pool>>, pc'[y] = pc[y],
           chunk'[y] = chunk[y], buffer'[y] = buffer[y], pending'[y] = pending[y],
           written'[y] = written[y]
    PROVE  Leaves(y)
  BY Zenon DEF Leaves

\* A step that puts buffers of x back leaves the others theirs.
LEMMA LeavesReturned ==
    ASSUME NEW x \in Transfers, NEW y \in Transfers \ {x}, NEW B,
           \A b \in B : Belongs(b, x), pool' = pool \cup B, content' = content,
           pc'[y] = pc[y], chunk'[y] = chunk[y], buffer'[y] = buffer[y],
           pending'[y] = pending[y], written'[y] = written[y]
    PROVE  Leaves(y)
<1>1. ASSUME NEW b \in Buffers, Belongs(b, y) PROVE b \notin B
  BY <1>1 DEF Belongs
<1> QED
  BY <1>1, Zenon DEF Leaves

\* A buffer of the pool is filled with the next chunk.
LEMMA FillStep == ASSUME Sizes, IInv, NEW x \in Transfers, Fill(x) PROVE IInv'
<1>0. SenderTypes /\ TimerTypes /\ Carried
  BY Zenon DEF IInv, Types
<1>1. PICK b \in pool :
        /\ pool' = pool \ {b} /\ buffer' = [buffer EXCEPT ![x] = b]
        /\ content' = [content EXCEPT ![b] = <<x, chunk[x]>>]
  BY Zenon DEF Fill
<1>2. /\ pc[x] = "fill" /\ pc' = [pc EXCEPT ![x] = "reserve"]
      /\ UNCHANGED <<chunk, pending, failed, monitorRefs, outgoingNext, outgoingWake, sched,
                     mon, tasks, net, written>>
  BY Zenon DEF Fill, otVars
<1>3. b \in Buffers /\ chunk[x] \in Nat
  BY <1>0, Zenon DEF SenderTypes
<1>4. SenderTypes'
  <2>1. <<x, chunk[x]>> \in Contents
    BY <1>3, Zenon DEF Contents
  <2> QED
    BY <1>0, <1>1, <1>2, <1>3, <2>1, Zenon DEF SenderTypes, Places
<1>5. /\ pc'[x] = "reserve" /\ buffer'[x] = b /\ content'[b] = <<x, chunk[x]>> /\ b \notin pool'
      /\ \A a \in Buffers \ {b} : content'[a] = content[a]
  BY <1>0, <1>1, <1>2, <1>3, Zenon DEF SenderTypes
<1>6. Buffered(x)'
  <2>1. \A i \in pending[x] : i.buffer \in Buffers \ {b}
    BY <1>0 DEF SenderTypes, Items, Carried, Buffered
  <2> QED
    BY <1>0, <1>1, <1>2, <1>3, <1>5, <2>1, Zenon DEF Carried, Buffered
<1>7. Advanced(x)'
  BY <1>0, <1>2, <1>5, Zenon DEF Carried, Advanced
<1>8. \A y \in Transfers \ {x} : Leaves(y)
  BY <1>0, <1>1, <1>2, <1>5, Zenon DEF SenderTypes, Leaves
<1>9. ~Asked(x)' /\ pc'[x] # "returned"
  BY <1>5, Zenon DEF Asked
<1>10. /\ failed' = failed /\ sched' = sched /\ tasks' = tasks /\ written' = written
       /\ monitorRefs' = monitorRefs /\ outgoingNext' = outgoingNext
       /\ outgoingWake' = outgoingWake /\ mon' = mon /\ net' = net
       /\ sched \in [Transfers -> {"none", "swap", "wake"}]
  BY <1>0, <1>2, Zenon DEF TimerTypes
<1> QED
  BY <1>4, <1>6, <1>7, <1>8, <1>9, <1>10, SenderStep, Zenon

\* sendReliableChunk before it unlocks.
LEMMA ReserveStep == ASSUME Sizes, IInv, NEW x \in Transfers, Reserve(x) PROVE IInv'
<1>0. SenderTypes /\ TimerTypes /\ Buffered(x) /\ Advanced(x)
  BY Zenon DEF IInv, Types, Carried
<1>1. /\ pc[x] = "reserve" /\ sched[x] = "none"
      /\ chunk' = chunk /\ content' = content /\ failed' = failed /\ tasks' = tasks
      /\ written' = written /\ monitorRefs' = monitorRefs /\ outgoingNext' = outgoingNext
      /\ outgoingWake' = outgoingWake /\ mon' = mon /\ net' = net
  BY Zenon DEF Reserve, Locked
<1>2. /\ chunk[x] \in Nat /\ buffer[x] \in Buffers /\ buffer[x] \notin pool
      /\ content[buffer[x]] = <<x, chunk[x]>> /\ chunk[x] \in 1..chunkCount[x]
  BY <1>0, <1>1, Zenon DEF SenderTypes, Buffered, Advanced
<1>3. CASE /\ sched' = [sched EXCEPT ![x] = "swap"] /\ pc' = [pc EXCEPT ![x] = "window"]
           /\ UNCHANGED <<pending, pool, buffer>>
  <2>1. pc'[x] = "window" /\ sched'[x] = "swap" /\ ~Asked(x)'
    BY <1>0, <1>3, Zenon DEF SenderTypes, TimerTypes, Asked
  <2>2. SenderTypes'
    BY <1>0, <1>1, <1>3, Zenon DEF SenderTypes, Places
  <2>3. Buffered(x)'
    BY <1>0, <1>1, <1>3, <2>1, Zenon DEF Buffered
  <2>4. Advanced(x)'
    BY <1>0, <1>1, <1>3, <2>1, Zenon DEF Advanced
  <2>5. \A y \in Transfers \ {x} : Leaves(y) /\ sched'[y] = sched[y]
    BY <1>0, <1>1, <1>3, LeavesBuffers, Zenon DEF SenderTypes, TimerTypes
  <2>6. sched' \in [Transfers -> {"none", "swap", "wake"}]
    BY <1>0, <1>3, Zenon DEF TimerTypes
  <2> QED
    BY <1>1, <2>1, <2>2, <2>3, <2>4, <2>5, <2>6, SenderStep, Zenon
<1>4. CASE /\ pool' = pool \cup {buffer[x]} /\ buffer' = [buffer EXCEPT ![x] = NoBuffer]
           /\ pc' = [pc EXCEPT ![x] = "unregister"] /\ UNCHANGED <<pending, sched>>
  <2>1. pc'[x] = "unregister" /\ ~Asked(x)'
    BY <1>0, <1>4, Zenon DEF SenderTypes, Asked
  <2>2. SenderTypes'
    BY <1>0, <1>1, <1>2, <1>4, Zenon DEF SenderTypes, Places
  <2>3. Buffered(x)'
    <3>1. ASSUME NEW i \in pending[x] PROVE i.buffer # buffer[x]
      <4>1. content[i.buffer] = <<x, i.chunk>> /\ i.chunk = chunk[x] - 1
        BY <1>0, <1>1, Zenon DEF Buffered, Advanced
      <4>2. i.chunk # chunk[x]
        BY <1>2, <4>1
      <4> QED
        BY <1>2, <4>1, <4>2
    <3> QED
      BY <1>0, <1>1, <1>4, <2>1, <3>1, Zenon DEF Buffered
  <2>4. Advanced(x)'
    BY <1>0, <1>1, <1>4, <2>1, Zenon DEF Advanced
  <2>5. ASSUME NEW y \in Transfers \ {x} PROVE Leaves(y) /\ sched'[y] = sched[y]
    <3>1. PICK B : B = {buffer[x]}
      BY Zenon
    <3>2. \A b \in B : Belongs(b, x)
      BY <1>2, <3>1, Zenon DEF Belongs
    <3>3. /\ pc'[y] = pc[y] /\ chunk'[y] = chunk[y] /\ buffer'[y] = buffer[y]
          /\ pending'[y] = pending[y] /\ written'[y] = written[y] /\ sched'[y] = sched[y]
      BY <1>0, <1>1, <1>4, Zenon DEF SenderTypes
    <3> QED
      BY <1>1, <1>4, <3>1, <3>2, <3>3, LeavesReturned, Zenon
  <2>6. sched' = sched /\ sched \in [Transfers -> {"none", "swap", "wake"}]
    BY <1>0, <1>4, Zenon DEF TimerTypes
  <2> QED
    BY <1>1, <2>1, <2>2, <2>3, <2>4, <2>5, <2>6, SenderStep, Zenon
<1>5. CASE /\ pending[x] = {}
           /\ pending' = [pending EXCEPT ![x] = {Item(chunk[x], buffer[x])}]
           /\ pc' = [pc EXCEPT ![x] = "transmit"] /\ UNCHANGED <<sched, pool, buffer>>
  <2>1. /\ pc'[x] = "transmit" /\ ~Asked(x)'
        /\ pending'[x] = {Item(chunk[x], buffer[x])}
    BY <1>0, <1>5, Zenon DEF SenderTypes, Asked
  <2>2. /\ Item(chunk[x], buffer[x]) \in Items
        /\ Item(chunk[x], buffer[x]).chunk = chunk[x]
        /\ Item(chunk[x], buffer[x]).buffer = buffer[x]
    BY <1>2 DEF Item, Items
  <2>3. SenderTypes'
    <3>1. pending' \in [Transfers -> SUBSET Items]
      BY <1>0, <1>5, <2>2 DEF SenderTypes
    <3>2. \A y \in Transfers : \A i, j \in pending'[y] : i = j
      BY <1>0, <1>5 DEF SenderTypes
    <3> QED
      BY <1>0, <1>1, <1>5, <3>1, <3>2, Zenon DEF SenderTypes, Places
  <2>4. Buffered(x)'
    BY <1>1, <1>2, <1>5, <2>1, <2>2, Zenon DEF Buffered
  <2>5. Advanced(x)'
    <3>1. chunk[x] <= Len(written[x]) + 1 /\ Len(written[x]) <= chunkCount[x]
      <4>1. chunk[x] - 1 <= Len(written[x]) /\ Len(written[x]) <= chunkCount[x]
        BY <1>0, <1>1, <1>5, Zenon DEF Advanced
      <4>2. Len(written[x]) \in Nat
        BY DEF IInv, Types, FrameTypes
      <4> QED
        BY <1>2, <4>1, <4>2
    <3> QED
      BY <1>1, <1>2, <1>5, <2>1, <2>2, <3>1, Zenon DEF Advanced
  <2>6. \A y \in Transfers \ {x} : Leaves(y) /\ sched'[y] = sched[y]
    BY <1>0, <1>1, <1>5, LeavesBuffers, Zenon DEF SenderTypes
  <2>7. sched' = sched /\ sched \in [Transfers -> {"none", "swap", "wake"}]
    BY <1>0, <1>5, Zenon DEF TimerTypes
  <2> QED
    BY <1>1, <2>1, <2>3, <2>4, <2>5, <2>6, <2>7, SenderStep, Zenon
<1> QED
  BY <1>3, <1>4, <1>5, Zenon DEF Reserve

\* The frame carries the chunk, or, when the chunk is not pending any more, it is a
\* duplicate: the monitor had sent it, and the peer has it.
LEMMA TransmitStep == ASSUME Sizes, IInv, NEW x \in Transfers, Transmit(x) PROVE IInv'
<1>0. SenderTypes /\ TimerTypes /\ FrameTypes /\ Buffered(x) /\ Advanced(x)
  BY Zenon DEF IInv, Types, Carried
<1> DEFINE f == [transfer |-> x, chunk |-> chunk[x], bytes |-> content[buffer[x]]]
<1>1. /\ pc[x] = "transmit" /\ net' = net \cup {f}
      /\ chunk' = [chunk EXCEPT ![x] = chunk[x] + 1]
      /\ buffer' = [buffer EXCEPT ![x] = NoBuffer]
      /\ pc' = [pc EXCEPT ![x] = IF chunk[x] = chunkCount[x] THEN "drain" ELSE "fill"]
      /\ content' = content /\ pool' = pool /\ pending' = pending /\ failed' = failed
      /\ tasks' = tasks /\ written' = written /\ monitorRefs' = monitorRefs /\ mon' = mon
      /\ outgoingNext' = outgoingNext /\ outgoingWake' = outgoingWake /\ sched' = sched
  BY Zenon DEF Transmit, otVars
<1>2. /\ chunk[x] \in Nat /\ buffer[x] \in Buffers /\ chunk[x] \in 1..chunkCount[x]
      /\ Len(written[x]) \in Nat /\ chunkCount[x] \in Nat
      /\ content[buffer[x]] \in Contents
  BY <1>0, <1>1 DEF SenderTypes, FrameTypes, Buffered, Advanced, Sizes
<1>3. /\ chunk'[x] = chunk[x] + 1 /\ buffer'[x] = NoBuffer
      /\ pc'[x] = IF chunk[x] = chunkCount[x] THEN "drain" ELSE "fill"
  BY <1>0, <1>1, Zenon DEF SenderTypes
<1>4. Frame(f) /\ Sound(f)
  <2>1. f.transfer = x /\ f.chunk = chunk[x] /\ f.bytes = content[buffer[x]]
    BY Zenon
  <2>2. \/ chunk[x] <= Len(written[x])
        \/ chunk[x] <= Len(written[x]) + 1 /\ content[buffer[x]] = <<x, chunk[x]>>
    <3>1. CASE pending[x] = {}
      BY <1>0, <1>1, <3>1, Zenon DEF Advanced
    <3>2. ASSUME NEW i \in pending[x]
          PROVE  chunk[x] <= Len(written[x]) + 1 /\ content[buffer[x]] = <<x, chunk[x]>>
      BY <1>0, <1>1, <3>2, Zenon DEF Advanced, Buffered
    <3> QED
      BY <3>1, <3>2, Zenon
  <2>3. chunk[x] <= Len(written[x]) + 1
    BY <1>2, <2>2
  <2> HIDE DEF f
  <2> QED
    BY <1>2, <2>1, <2>2, <2>3, Zenon DEF Frame, Sound
<1> HIDE DEF f
<1>5. SenderTypes'
  <2>1. chunk' \in [Transfers -> Nat]
    BY <1>0, <1>1, <1>2 DEF SenderTypes
  <2> QED
    BY <1>0, <1>1, <2>1, Zenon DEF SenderTypes, Places
<1>6. Buffered(x)'
  BY <1>0, <1>1, <1>3 DEF Buffered
<1>7. Advanced(x)'
  <2>1. pc'[x] = "fill" => chunk'[x] \in 1..chunkCount[x]
    BY <1>2, <1>3, SMT
  <2>2. chunk'[x] - 1 = chunk[x]
    BY <1>2, <1>3, SMT
  <2>3. pc'[x] \in {"drain", "fill"}
    BY <1>3, Zenon
  <2> QED
    BY <1>0, <1>1, <2>1, <2>2, <2>3, Zenon DEF Advanced
<1>8. \A y \in Transfers \ {x} : Leaves(y) /\ sched'[y] = sched[y]
  BY <1>0, <1>1, LeavesBuffers, Zenon DEF SenderTypes
<1>9. ~Asked(x)' /\ pc'[x] # "returned"
  BY <1>3, Zenon DEF Asked
<1>10. /\ \A g \in net' : g \in net \/ (Frame(g) /\ Sound(g))
       /\ sched \in [Transfers -> {"none", "swap", "wake"}]
  BY <1>0, <1>1, <1>4, Zenon DEF TimerTypes
<1> QED
  BY <1>1, <1>5, <1>6, <1>7, <1>8, <1>9, <1>10, SenderStep, Zenon

\* The sender waits for what is pending, or is done.
LEMMA WaitStep == ASSUME Sizes, IInv, NEW x \in Transfers, waitOutgoingAcked(x) PROVE IInv'
<1>0. SenderTypes /\ TimerTypes /\ Buffered(x) /\ Advanced(x)
  BY Zenon DEF IInv, Types, Carried
<1>1. /\ pc[x] = "drain" /\ sched[x] = "none" /\ chunk' = chunk /\ content' = content
      /\ pool' = pool /\ buffer' = buffer /\ pending' = pending /\ failed' = failed
      /\ tasks' = tasks /\ written' = written /\ monitorRefs' = monitorRefs /\ mon' = mon
      /\ outgoingNext' = outgoingNext /\ outgoingWake' = outgoingWake /\ net' = net
      /\ \/ sched' = [sched EXCEPT ![x] = "swap"] /\ pc' = [pc EXCEPT ![x] = "answer"]
         \/ sched' = sched /\ pc' = [pc EXCEPT ![x] = "unregister"]
  BY Zenon DEF waitOutgoingAcked, Locked, bufVars, otVars
<1>2. /\ pc'[x] \in {"answer", "unregister"} /\ ~Asked(x)'
      /\ \A y \in Transfers \ {x} : pc'[y] = pc[y] /\ sched'[y] = sched[y]
      /\ sched' \in [Transfers -> {"none", "swap", "wake"}]
      /\ pc' \in [Transfers -> Places]
  BY <1>0, <1>1 DEF SenderTypes, TimerTypes, Asked, Places
<1>3. SenderTypes'
  BY <1>0, <1>1, <1>2, Zenon DEF SenderTypes
<1>4. Buffered(x)'
  BY <1>0, <1>1, <1>2, Zenon DEF Buffered
<1>5. Advanced(x)'
  BY <1>0, <1>1, <1>2, Zenon DEF Advanced
<1>6. \A y \in Transfers \ {x} : Leaves(y) /\ sched'[y] = sched[y]
  BY <1>1, <1>2, LeavesBuffers, Zenon
<1> QED
  BY <1>1, <1>2, <1>3, <1>4, <1>5, <1>6, SenderStep, Zenon

\* The transfer leaves, and returns once the monitor has no task for it; its buffers
\* go back to the pool.
LEMMA UnregisterStep ==
    ASSUME Sizes, IInv, NEW x \in Transfers, unregisterOutgoing(x)
    PROVE  IInv'
<1>0. SenderTypes /\ TimerTypes /\ Buffered(x) /\ Advanced(x)
  BY Zenon DEF IInv, Types, Carried
<1>1. /\ chunk' = chunk /\ content' = content /\ buffer' = buffer /\ failed' = failed
      /\ tasks' = tasks /\ written' = written /\ monitorRefs' = monitorRefs /\ mon' = mon
      /\ outgoingNext' = outgoingNext /\ outgoingWake' = outgoingWake /\ sched' = sched
      /\ sched \in [Transfers -> {"none", "swap", "wake"}]
  BY <1>0, Zenon DEF unregisterOutgoing, TimerTypes
<1>2. CASE /\ pc[x] = "unregister" /\ pc' = [pc EXCEPT ![x] = "leaving"]
           /\ pool' = pool /\ pending' = pending /\ net' = net
  <2>1. pc'[x] = "leaving" /\ ~Asked(x)'
    BY <1>0, <1>2, Zenon DEF SenderTypes, Asked
  <2>2. SenderTypes'
    BY <1>0, <1>1, <1>2, Zenon DEF SenderTypes, Places
  <2>3. Buffered(x)'
    BY <1>0, <1>1, <1>2, <2>1, Zenon DEF Buffered
  <2>4. Advanced(x)'
    BY <1>0, <1>1, <1>2, <2>1, Zenon DEF Advanced
  <2>5. \A y \in Transfers \ {x} : Leaves(y) /\ sched'[y] = sched[y]
    BY <1>0, <1>1, <1>2, LeavesBuffers, Zenon DEF SenderTypes
  <2> QED
    BY <1>1, <1>2, <2>1, <2>2, <2>3, <2>4, <2>5, SenderStep, Zenon
<1>3. CASE /\ pc[x] = "leaving" /\ monitorRefs[x] = 0
           /\ pool' = pool \cup BuffersOf(pending[x])
           /\ pending' = [pending EXCEPT ![x] = {}]
           /\ pc' = [pc EXCEPT ![x] = "returned"]
           /\ net' = {f \in net : f.transfer # x}
  <2>1. pc'[x] = "returned" /\ ~Asked(x)' /\ pending'[x] = {}
    BY <1>0, <1>3, Zenon DEF SenderTypes, Asked
  <2>2. PICK B : B = BuffersOf(pending[x])
    BY Zenon
  <2>3. B \subseteq Buffers /\ \A b \in B : Belongs(b, x)
    BY <1>0, <2>2 DEF SenderTypes, Items, Buffered, BuffersOf, Belongs
  <2>4. SenderTypes'
    <3>1. pending' \in [Transfers -> SUBSET Items]
      BY <1>0, <1>3, Zenon DEF SenderTypes
    <3>2. \A y \in Transfers : \A i, j \in pending'[y] : i = j
      BY <1>0, <1>3, Zenon DEF SenderTypes
    <3>3. pool' \subseteq Buffers
      BY <1>0, <1>3, <2>2, <2>3, Zenon DEF SenderTypes
    <3> QED
      BY <1>0, <1>1, <1>3, <3>1, <3>2, <3>3, Zenon DEF SenderTypes, Places
  <2>5. Buffered(x)'
    BY <2>1, Zenon DEF Buffered
  <2>6. Advanced(x)'
    BY <1>0, <1>1, <2>1, Zenon DEF Advanced
  <2>7. ASSUME NEW y \in Transfers \ {x} PROVE Leaves(y) /\ sched'[y] = sched[y]
    <3>1. /\ pc'[y] = pc[y] /\ chunk'[y] = chunk[y] /\ buffer'[y] = buffer[y]
          /\ pending'[y] = pending[y] /\ written'[y] = written[y] /\ sched'[y] = sched[y]
      BY <1>0, <1>1, <1>3, Zenon DEF SenderTypes
    <3> QED
      BY <1>1, <1>3, <2>2, <2>3, <3>1, LeavesReturned, Zenon
  <2>8. \A t \in tasks : t.transfer # x
    BY <1>3, SMT DEF IInv, Counted
  <2>9. \A f \in net' : f \in net
    BY <1>3, Zenon
  <2> QED
    BY <1>1, <2>1, <2>4, <2>5, <2>6, <2>7, <2>8, <2>9, SenderStep, Zenon
<1> QED
  BY <1>2, <1>3, Zenon DEF unregisterOutgoing

-----------------------------------------------------------------------------
\* A sender that is woken has not asked; it is as far as before.
LEMMA WokenFacts ==
    ASSUME NEW x \in Transfers
    PROVE  /\ Woken(x) \notin {"window", "answer"}
           /\ Woken(x) = "returned" => pc[x] = "returned"
           /\ Woken(x) \in {"reserve", "window"} => pc[x] \in {"reserve", "window"}
           /\ Woken(x) \in {"fill", "reserve", "window"} => pc[x] \in {"fill", "reserve", "window"}
           /\ Woken(x) = "transmit" => pc[x] = "transmit"
           /\ pc[x] \in Places => Woken(x) \in Places
  BY Zenon DEF Woken, Places

\* The monitor sends a task again, or drops it, and releases its reference.
LEMMA SendTaskStep == ASSUME Sizes, IInv, NEW task \in tasks, SendTask(task) PROVE IInv'
<1>0. /\ SenderTypes /\ TimerTypes /\ FrameTypes /\ Carried /\ Counted /\ Referred
      /\ Noted /\ Heeded
  BY Zenon DEF IInv, Types
<1>1. PICK x \in Transfers : x = task.transfer
  BY <1>0, Zenon DEF FrameTypes, Frame
<1>2. /\ mon.at = "send" /\ tasks' = tasks \ {task}
      /\ \A f \in net' : f \in net \cup {task}
      /\ monitorRefs' = [monitorRefs EXCEPT ![x] = monitorRefs[x] - 1]
      /\ pc' = [pc EXCEPT ![x] = Woken(x)]
      /\ chunk' = chunk /\ buffer' = buffer /\ content' = content /\ pool' = pool
      /\ pending' = pending /\ failed' = failed /\ outgoingNext' = outgoingNext
      /\ outgoingWake' = outgoingWake /\ sched' = sched /\ mon' = mon /\ written' = written
  BY <1>1, Zenon DEF SendTask, bufVars, otVars
<1>3. pc'[x] = Woken(x) /\ \A y \in Transfers \ {x} : pc'[y] = pc[y]
  BY <1>0, <1>2, Zenon DEF SenderTypes
<1>4. SenderTypes'
  <2>1. pc[x] \in Places
    BY <1>0, Zenon DEF SenderTypes
  <2>2. pc' \in [Transfers -> Places]
    BY <1>0, <1>2, <2>1, WokenFacts, Zenon DEF SenderTypes
  <2> QED
    BY <1>0, <1>2, <2>2, Zenon DEF SenderTypes
<1>5. Types'
  BY <1>0, <1>2, <1>4, Zenon DEF IInv, Types, TimerTypes, FrameTypes, RefTypes
<1>6. Carried'
  <2>1. Buffered(x)' /\ Advanced(x)' /\ Intact(x)'
    <3>1. Buffered(x) /\ Advanced(x) /\ Intact(x)
      BY <1>0, Zenon DEF Carried
    <3>2. Buffered(x)'
      BY <1>2, <1>3, <3>1, WokenFacts, Zenon DEF Buffered
    <3>3. Advanced(x)'
      <4>1. pc'[x] \in {"fill", "reserve", "window", "transmit"} =>
              pc[x] \in {"fill", "reserve", "window", "transmit"}
        BY <1>3, WokenFacts, Zenon
      <4> QED
        BY <1>2, <1>3, <3>1, <4>1, WokenFacts, Zenon DEF Advanced
    <3>4. Intact(x)'
      BY <1>2, <3>1, Zenon DEF Intact
    <3> QED
      BY <3>2, <3>3, <3>4, Zenon
  <2>2. ASSUME NEW y \in Transfers \ {x} PROVE Buffered(y)' /\ Advanced(y)' /\ Intact(y)'
    <3>1. Leaves(y)
      BY <1>2, <1>3, LeavesBuffers, Zenon
    <3> QED
      BY <1>0, <3>1, LeavesStep, Zenon DEF Carried
  <2>3. ASSUME NEW f \in (tasks \cup net)' PROVE Sound(f)'
    <3>1. Sound(f)
      BY <1>0, <1>2, Zenon DEF Carried
    <3> QED
      BY <1>2, <3>1, Zenon DEF Sound
  <2> QED
    BY <2>1, <2>2, <2>3, Zenon DEF Carried
<1>7. Counted'
  <2>1. ASSUME NEW y \in Transfers
        PROVE  monitorRefs'[y] = IF \E t \in tasks' : t.transfer = y THEN 1 ELSE 0
    <3>1. monitorRefs[y] = IF \E t \in tasks : t.transfer = y THEN 1 ELSE 0
      BY <1>0, Zenon DEF Counted
    <3>2. CASE y = x
      <4>1. ~\E t \in tasks' : t.transfer = x
        BY <1>0, <1>1, <1>2, Zenon DEF Counted
      <4>2. monitorRefs[x] = 1
        BY <1>1, <3>1, <3>2, Zenon
      <4>3. monitorRefs'[x] = 0
        BY <1>2, <4>2 DEF IInv, Types, RefTypes
      <4> QED
        BY <3>2, <4>1, <4>3, Zenon
    <3>3. CASE y # x
      <4>1. (\E t \in tasks' : t.transfer = y) <=> (\E t \in tasks : t.transfer = y)
        BY <1>1, <1>2, <3>3, Zenon
      <4>2. monitorRefs'[y] = monitorRefs[y]
        BY <1>2, <3>3, Zenon DEF IInv, Types, RefTypes
      <4> QED
        BY <3>1, <4>1, <4>2, Zenon
    <3> QED
      BY <3>2, <3>3, Zenon
  <2> QED
    BY <1>0, <1>2, <2>1, Zenon DEF Counted
<1>8. Referred'
  <2>1. ASSUME NEW t \in tasks' PROVE pc'[t.transfer] # "returned"
    <3>1. t.transfer \in Transfers /\ pc[t.transfer] # "returned"
      BY <1>0, <1>2, Zenon DEF FrameTypes, Frame, Referred
    <3> QED
      BY <1>3, <3>1, WokenFacts, Zenon
  <2> QED
    BY <2>1, Zenon DEF Referred
<1>9. Noted' /\ (WakeComing => WakeComing')
  BY <1>0, <1>2, Zenon DEF Noted, WakeComing
<1>10. Heeded'
  <2>1. ~Asked(x)'
    BY <1>3, WokenFacts, Zenon DEF Asked
  <2> QED
    BY <1>0, <1>2, <1>3, <1>9, <2>1, HeededStep, Zenon
<1> QED
  BY <1>5, <1>6, <1>7, <1>8, <1>9, <1>10, Zenon DEF IInv

\* The peer writes the chunk of a frame if it is the next, and its answer frees the
\* buffer of the chunk, which is written by then.
LEMMA AnswerStep == ASSUME Sizes, IInv, NEW f \in net, Answer(f) PROVE IInv'
<1>0. /\ SenderTypes /\ TimerTypes /\ FrameTypes /\ Carried /\ Counted /\ Referred
      /\ Noted /\ Heeded
  BY Zenon DEF IInv, Types
<1>1. PICK x \in Transfers : x = f.transfer
  BY <1>0, Zenon DEF FrameTypes, Frame
<1>2. PICK answered : answered = IF x \in Registered THEN {i \in pending[x] : i.chunk = f.chunk}
                                                     ELSE {}
  BY Zenon
<1>3. /\ net' = net \ {f}
      /\ written' = IF f.chunk = Len(written[x]) + 1
                    THEN [written EXCEPT ![x] = Append(written[x], f.bytes)] ELSE written
      /\ pending' = [pending EXCEPT ![x] = pending[x] \ answered]
      /\ pool' = pool \cup BuffersOf(answered)
      /\ pc' = [pc EXCEPT ![x] = Woken(x)]
      /\ chunk' = chunk /\ buffer' = buffer /\ content' = content /\ failed' = failed
      /\ monitorRefs' = monitorRefs /\ outgoingNext' = outgoingNext /\ tasks' = tasks
      /\ outgoingWake' = outgoingWake /\ sched' = sched /\ mon' = mon
  BY <1>1, <1>2, Zenon DEF Answer
<1>4. /\ f.chunk \in Nat /\ f.bytes \in Contents /\ f.chunk \in 1..chunkCount[x]
      /\ f.chunk <= Len(written[x]) + 1
      /\ f.bytes = <<x, f.chunk>> \/ f.chunk <= Len(written[x])
  BY <1>0, <1>1, Zenon DEF FrameTypes, Frame, Carried, Sound
<1>5. /\ written[x] \in Seq(Contents) /\ Len(written[x]) \in Nat /\ chunkCount[x] \in Nat
      /\ Buffered(x) /\ Advanced(x) /\ Intact(x)
  BY <1>0 DEF FrameTypes, Carried, Sizes
<1>6. /\ pc'[x] = Woken(x) /\ pending'[x] = pending[x] \ answered
      /\ \A y \in Transfers \ {x} :
            pc'[y] = pc[y] /\ pending'[y] = pending[y] /\ written'[y] = written[y]
  BY <1>0, <1>3, Zenon DEF SenderTypes, FrameTypes
<1>7. /\ written' \in [Transfers -> Seq(Contents)]
      /\ Len(written'[x]) = IF f.chunk = Len(written[x]) + 1 THEN Len(written[x]) + 1
                                                             ELSE Len(written[x])
  <2>1. CASE f.chunk = Len(written[x]) + 1
    <3>1. /\ Append(written[x], f.bytes) \in Seq(Contents)
          /\ Len(Append(written[x], f.bytes)) = Len(written[x]) + 1
      BY <1>4, <1>5
    <3>2. written' = [written EXCEPT ![x] = Append(written[x], f.bytes)]
      BY <1>3, <2>1, Zenon
    <3> QED
      BY <1>0, <2>1, <3>1, <3>2, Zenon DEF FrameTypes
  <2>2. CASE f.chunk # Len(written[x]) + 1
    BY <1>0, <1>3, <2>2, Zenon DEF FrameTypes
  <2> QED
    BY <2>1, <2>2, Zenon
<1>8. /\ Len(written'[x]) \in Nat /\ Len(written[x]) <= Len(written'[x])
      /\ f.chunk <= Len(written'[x]) /\ Len(written'[x]) <= chunkCount[x]
  <2>1. Len(written[x]) <= chunkCount[x]
    BY <1>5, Zenon DEF Advanced
  <2>2. \A l, c, m \in Nat : \A k :
           k = (IF c = l + 1 THEN l + 1 ELSE l) /\ c <= l + 1 /\ c \in 1..m /\ l <= m
           => k \in Nat /\ l <= k /\ c <= k /\ k <= m
    BY SMT
  <2> QED
    BY <1>4, <1>5, <1>7, <2>1, <2>2, Zenon
<1>9. /\ answered \subseteq pending[x] /\ \A i \in answered : i.chunk = f.chunk
      /\ \A i \in pending[x] : i \in Items
      /\ \A i \in pending[x] : i.buffer \in Buffers /\ i.chunk \in Nat
      /\ \A i, j \in pending[x] : i = j
  BY <1>0, <1>2 DEF SenderTypes, Items
<1>10. SenderTypes'
  <2>1. pc' \in [Transfers -> Places]
    <3>1. pc[x] \in Places
      BY <1>0, Zenon DEF SenderTypes
    <3> QED
      BY <1>0, <1>3, <3>1, WokenFacts, Zenon DEF SenderTypes
  <2>2. pending' \in [Transfers -> SUBSET Items]
    BY <1>0, <1>3, <1>9, Zenon DEF SenderTypes
  <2>3. \A y \in Transfers : \A i, j \in pending'[y] : i = j
    BY <1>0, <1>6, Zenon DEF SenderTypes
  <2>4. pool' \subseteq Buffers
    BY <1>0, <1>3, <1>9 DEF SenderTypes, BuffersOf
  <2> QED
    BY <1>0, <1>3, <2>1, <2>2, <2>3, <2>4, Zenon DEF SenderTypes
<1>11. Types'
  <2>1. FrameTypes'
    BY <1>0, <1>3, <1>7, Zenon DEF FrameTypes
  <2> QED
    BY <1>0, <1>3, <1>10, <2>1, Zenon DEF IInv, Types, TimerTypes, RefTypes
<1>12. Buffered(x)'
  <2>1. ASSUME pc[x] \in {"reserve", "window"}
        PROVE  buffer[x] \notin BuffersOf(answered)
    <3>1. ASSUME NEW i \in answered PROVE i.buffer # buffer[x]
      <4>1. content[i.buffer] = <<x, i.chunk>> /\ i.chunk = chunk[x] - 1
        BY <1>5, <1>9, <2>1, Zenon DEF Buffered, Advanced
      <4>2. chunk[x] \in Nat /\ content[buffer[x]] = <<x, chunk[x]>>
        BY <1>0, <1>5, <2>1, Zenon DEF SenderTypes, Buffered
      <4>3. i.chunk # chunk[x]
        BY <4>1, <4>2
      <4> QED
        BY <4>1, <4>2, <4>3
    <3> QED
      BY <3>1, Zenon DEF BuffersOf
  <2>2. ASSUME NEW j \in pending'[x] PROVE j \in pending[x] /\ answered = {}
    BY <1>6, <1>9, <2>2, Zenon
  <2>3. answered = {} => BuffersOf(answered) = {}
    BY Zenon DEF BuffersOf
  <2>4. \A j \in pending'[x] : j.buffer \notin pool' /\ content'[j.buffer] = <<x, j.chunk>>
    BY <1>3, <1>5, <2>2, <2>3, Zenon DEF Buffered
  <2>5. pc'[x] \in {"reserve", "window"} =>
          /\ buffer'[x] \in Buffers /\ buffer'[x] \notin pool'
          /\ content'[buffer'[x]] = <<x, chunk'[x]>>
    BY <1>3, <1>5, <1>6, <2>1, WokenFacts, Zenon DEF Buffered
  <2>6. pc'[x] = "transmit" => buffer'[x] \in Buffers
    BY <1>3, <1>5, <1>6, WokenFacts, Zenon DEF Buffered
  <2> QED
    BY <2>4, <2>5, <2>6, Zenon DEF Buffered
<1>13. Advanced(x)'
  <2>1. \A i \in pending'[x] : i \in pending[x]
    BY <1>6, Zenon
  <2>2. \A i \in pending'[x] : i.chunk \in 1..chunkCount[x] /\ i.chunk <= Len(written'[x]) + 1
    <3>1. ASSUME NEW i \in pending[x]
          PROVE  i.chunk \in 1..chunkCount[x] /\ i.chunk <= Len(written[x]) + 1 /\ i.chunk \in Nat
      BY <1>5, <1>9, Zenon DEF Advanced
    <3>2. ASSUME NEW i \in pending[x] PROVE i.chunk <= Len(written'[x]) + 1
      BY <1>5, <1>8, <3>1
    <3> QED
      BY <2>1, <3>1, <3>2, Zenon
  <2>3. ASSUME pending'[x] = {}, pending[x] # {}
        PROVE  \E i \in pending[x] : i.chunk <= Len(written'[x])
    BY <1>6, <1>8, <1>9, <2>3, Zenon
  <2>4. chunk[x] \in Nat
    BY <1>0, Zenon DEF SenderTypes
  <2>5. ASSUME pc[x] \in {"fill", "reserve", "window"}, pending'[x] = {}
        PROVE  chunk[x] - 1 <= Len(written'[x])
    <3>1. CASE pending[x] = {}
      <4>1. chunk[x] - 1 <= Len(written[x])
        BY <1>5, <2>5, <3>1, Zenon DEF Advanced
      <4> QED
        BY <1>5, <1>8, <2>4, <4>1
    <3>2. CASE pending[x] # {}
      BY <1>5, <2>3, <2>5, <3>2, Zenon DEF Advanced
    <3> QED
      BY <3>1, <3>2, Zenon
  <2>6. ASSUME pc[x] = "transmit", pending'[x] = {}
        PROVE  chunk[x] <= Len(written'[x])
    <3>1. CASE pending[x] = {}
      <4>1. chunk[x] <= Len(written[x])
        BY <1>5, <2>6, <3>1, Zenon DEF Advanced
      <4> QED
        BY <1>5, <1>8, <2>4, <4>1
    <3>2. CASE pending[x] # {}
      BY <1>5, <2>3, <2>6, <3>2, Zenon DEF Advanced
    <3> QED
      BY <3>1, <3>2, Zenon
  <2>7. pc'[x] \in {"fill", "reserve", "window"} => pc[x] \in {"fill", "reserve", "window"}
    BY <1>6, WokenFacts, Zenon
  <2>8. pc'[x] = "transmit" => pc[x] = "transmit"
    BY <1>6, WokenFacts, Zenon
  <2>9. pc'[x] \in {"fill", "reserve", "window", "transmit"} => chunk'[x] \in 1..chunkCount[x]
    BY <1>3, <1>5, <2>7, <2>8, Zenon DEF Advanced
  <2>10. pc'[x] \in {"fill", "reserve", "window"} =>
           /\ \A i \in pending'[x] : i.chunk = chunk'[x] - 1
           /\ pending'[x] = {} => chunk'[x] - 1 <= Len(written'[x])
    BY <1>3, <1>5, <2>1, <2>5, <2>7, Zenon DEF Advanced
  <2>11. pc'[x] = "transmit" =>
           /\ \A i \in pending'[x] : i.chunk = chunk'[x] /\ i.buffer = buffer'[x]
           /\ pending'[x] = {} => chunk'[x] <= Len(written'[x])
    BY <1>3, <1>5, <2>1, <2>6, <2>8, Zenon DEF Advanced
  <2> QED
    BY <1>8, <2>2, <2>9, <2>10, <2>11, Zenon DEF Advanced
<1>14. Intact(x)'
  <2>1. CASE f.chunk = Len(written[x]) + 1
    <3>1. f.bytes = <<x, Len(written[x]) + 1>>
      BY <1>4, <1>5, <2>1
    <3>2. written'[x] = Append(written[x], f.bytes)
      BY <1>0, <1>3, <2>1, Zenon DEF FrameTypes
    <3>3. ASSUME NEW n \in 1..Len(written[x]) + 1
          PROVE  Append(written[x], f.bytes)[n] = <<x, n>>
      <4>1. CASE n \in 1..Len(written[x])
        BY <1>4, <1>5, <4>1 DEF Intact
      <4>2. CASE n = Len(written[x]) + 1
        BY <1>4, <1>5, <3>1, <4>2
      <4>3. n \in 1..Len(written[x]) \/ n = Len(written[x]) + 1
        BY <1>5, SMT
      <4> QED
        BY <4>1, <4>2, <4>3, Zenon
    <3>4. Len(written'[x]) = Len(written[x]) + 1
      BY <1>7, <2>1, Zenon
    <3> QED
      BY <3>2, <3>3, <3>4, Zenon DEF Intact
  <2>2. CASE f.chunk # Len(written[x]) + 1
    BY <1>3, <1>5, <2>2, Zenon DEF Intact
  <2> QED
    BY <2>1, <2>2, Zenon
<1>15. ASSUME NEW y \in Transfers \ {x} PROVE Leaves(y)
  <2>1. PICK B : B = BuffersOf(answered)
    BY Zenon
  <2>2. \A b \in B : Belongs(b, x)
    BY <1>5, <1>9, <2>1, Zenon DEF Buffered, BuffersOf, Belongs
  <2> QED
    BY <1>3, <1>6, <2>1, <2>2, LeavesReturned, Zenon
<1>16. Carried'
  <2>1. ASSUME NEW y \in Transfers PROVE Buffered(y)' /\ Advanced(y)' /\ Intact(y)'
    <3>1. CASE y = x
      BY <1>12, <1>13, <1>14, <3>1, Zenon
    <3>2. CASE y # x
      BY <1>0, <1>15, <3>2, LeavesStep, Zenon DEF Carried
    <3> QED
      BY <3>1, <3>2, Zenon
  <2>2. ASSUME NEW g \in (tasks \cup net)' PROVE Sound(g)'
    <3>1. g \in tasks \cup net
      BY <1>3, Zenon
    <3>2. Frame(g) /\ Sound(g)
      BY <1>0, <3>1, Zenon DEF FrameTypes, Carried
    <3>3. Len(written[g.transfer]) <= Len(written'[g.transfer])
      <4>1. g.transfer \in Transfers /\ Len(written[g.transfer]) \in Nat
        BY <1>0, <3>2 DEF Frame, FrameTypes
      <4>2. CASE g.transfer = x
        BY <1>8, <4>2, Zenon
      <4>3. CASE g.transfer # x
        BY <1>6, <4>1, <4>3
      <4> QED
        BY <4>2, <4>3, Zenon
    <3> QED
      BY <1>0, <1>7, <3>2, <3>3, SoundStep, Zenon
  <2> QED
    BY <2>1, <2>2, Zenon DEF Carried
<1>17. Counted' /\ Referred'
  <2>1. ASSUME NEW t \in tasks PROVE pc'[t.transfer] # "returned"
    <3>1. t.transfer \in Transfers /\ pc[t.transfer] # "returned"
      BY <1>0, Zenon DEF FrameTypes, Frame, Referred
    <3> QED
      BY <1>6, <3>1, WokenFacts, Zenon
  <2> QED
    BY <1>0, <1>3, <2>1, Zenon DEF Counted, Referred
<1>18. Noted' /\ (WakeComing => WakeComing')
  BY <1>0, <1>3, Zenon DEF Noted, WakeComing
<1>19. Heeded'
  <2>1. ~Asked(x)'
    BY <1>6, WokenFacts, Zenon DEF Asked
  <2> QED
    BY <1>0, <1>3, <1>6, <1>18, <2>1, HeededStep, Zenon
<1> QED
  BY <1>11, <1>16, <1>17, <1>18, <1>19, Zenon DEF IInv

-----------------------------------------------------------------------------
\* The next deadline of the scan is a time no later than that of any transfer scanned.
LEMMA ScannedFirst ==
    ASSUME Sizes, NEW A \in SUBSET Transfers, NEW left \in [Transfers -> SUBSET Items],
           \A x \in Transfers : \A i, j \in left[x] : i = j
    PROVE  LET D == {Deadline(i) : i \in UNION {left[x] : x \in A}} \cup {NoTime}
           IN  MinOf(D) \in Times /\ \A y \in A : MinOf(D) <= FirstOf(left[y])
<1> DEFINE D == {Deadline(i) : i \in UNION {left[x] : x \in A}} \cup {NoTime}
           g == [x \in A |-> FirstOf(left[x])]
           R == {g[x] : x \in A}
<1>0. NoTime \in Int /\ NoTime \in Times
  BY DEF Sizes, NoTime, Times
<1>1. ASSUME NEW x \in A
      PROVE  /\ left[x] = {} => FirstOf(left[x]) = NoTime
             /\ \A i \in left[x] : FirstOf(left[x]) = Deadline(i)
             /\ FirstOf(left[x]) \in Times
  <2>1. left[x] \in SUBSET Items /\ \A i, j \in left[x] : i = j
    BY Zenon
  <2> QED
    BY <2>1, FirstDeadline, Zenon
<1>2. IsFiniteSet(R \cup {NoTime})
  <2>1. g \in Surjection(A, R)
    BY Zenon DEF Surjection
  <2>2. IsFiniteSet(A)
    BY FS_Subset, Zenon DEF Sizes
  <2>3. IsFiniteSet(R)
    BY <2>1, <2>2, FS_Surjection, Zenon
  <2> QED
    BY <2>3, FS_AddElement, Zenon
<1>3. D \in SUBSET (R \cup {NoTime})
  <2> SUFFICES ASSUME NEW x \in A, NEW i \in left[x] PROVE Deadline(i) \in R
    OBVIOUS
  <2>1. Deadline(i) = g[x]
    BY <1>1, Zenon
  <2> QED
    BY <2>1, Zenon
<1>4. D \in SUBSET Times /\ D \in SUBSET Int
  <2>1. R \in SUBSET Times
    BY <1>1, Zenon
  <2> QED
    BY <1>0, <1>3, <2>1, Zenon DEF Times
<1>5. IsFiniteSet(D)
  BY <1>2, <1>3, FS_Subset, Zenon
<1>6. MinOf(D) \in D /\ \A m \in D : MinOf(D) <= m
  <2> HIDE DEF D
  <2>1. NoTime \in D
    BY Zenon DEF D
  <2> QED
    BY <1>4, <1>5, <2>1, MinOfLeast, Zenon
<1>7. ASSUME NEW y \in A PROVE FirstOf(left[y]) \in D
  <2>1. CASE left[y] = {}
    BY <1>1, <2>1, Zenon
  <2>2. ASSUME NEW i \in left[y] PROVE FirstOf(left[y]) \in D
    <3>1. FirstOf(left[y]) = Deadline(i)
      BY <1>1, <2>2, Zenon
    <3>2. i \in UNION {left[x] : x \in A}
      BY <2>2
    <3> QED
      BY <3>1, <3>2, Zenon
  <2> QED
    BY <2>1, <2>2, Zenon
<1> HIDE DEF D
<1>8. MinOf(D) \in Times /\ \A y \in A : MinOf(D) <= FirstOf(left[y])
  BY <1>4, <1>6, <1>7, Zenon
<1> QED
  BY <1>8, Zenon DEF D

\* A step that only marks what is pending, with the same chunk in the same buffer.
Marks(y) ==
    /\ pending'[y] = {} <=> pending[y] = {}
    /\ \A j \in pending'[y] :
          \E i \in pending[y] : j.chunk = i.chunk /\ j.buffer = i.buffer
    /\ pc'[y] = pc[y] \/ pc'[y] = Woken(y)

\* Such a step keeps buffers and progress of the transfer as the invariant wants them.
LEMMA MarksStep ==
    ASSUME NEW y \in Transfers, Buffered(y), Advanced(y), Intact(y), Marks(y),
           chunk' = chunk, buffer' = buffer, content' = content, pool' = pool,
           written' = written
    PROVE  Buffered(y)' /\ Advanced(y)' /\ Intact(y)'
<1>1. /\ pc'[y] \in {"reserve", "window"} => pc[y] \in {"reserve", "window"}
      /\ pc'[y] \in {"fill", "reserve", "window"} => pc[y] \in {"fill", "reserve", "window"}
      /\ pc'[y] = "transmit" => pc[y] = "transmit"
  BY WokenFacts, Zenon DEF Marks
<1>2. Buffered(y)'
  <2>1. \A j \in pending'[y] : j.buffer \notin pool' /\ content'[j.buffer] = <<y, j.chunk>>
    BY Zenon DEF Marks, Buffered
  <2> QED
    BY <1>1, <2>1, Zenon DEF Buffered
<1>3. Advanced(y)'
  <2>1. \A j \in pending'[y] : j.chunk \in 1..chunkCount[y] /\ j.chunk <= Len(written'[y]) + 1
    BY Zenon DEF Marks, Advanced
  <2>2. pc'[y] \in {"fill", "reserve", "window", "transmit"} => chunk'[y] \in 1..chunkCount[y]
    BY <1>1, Zenon DEF Advanced
  <2>3. pc'[y] \in {"fill", "reserve", "window"} =>
          /\ \A j \in pending'[y] : j.chunk = chunk'[y] - 1
          /\ pending'[y] = {} => chunk'[y] - 1 <= Len(written'[y])
    BY <1>1, Zenon DEF Marks, Advanced
  <2>4. pc'[y] = "transmit" =>
          /\ \A j \in pending'[y] : j.chunk = chunk'[y] /\ j.buffer = buffer'[y]
          /\ pending'[y] = {} => chunk'[y] <= Len(written'[y])
    BY <1>1, Zenon DEF Marks, Advanced
  <2> QED
    BY <2>1, <2>2, <2>3, <2>4, Zenon DEF Advanced
<1>4. Intact(y)'
  BY Zenon DEF Intact
<1> QED
  BY <1>2, <1>3, <1>4, Zenon

\* The scan marks what is due, takes a reference for every task, and has the first
\* deadline of the transfers it scanned in hand.
LEMMA ScanStep == ASSUME Sizes, IInv, Scan PROVE IInv'
<1>0. /\ SenderTypes /\ TimerTypes /\ FrameTypes /\ Carried /\ Counted /\ Referred
      /\ Noted /\ Heeded
  BY Zenon DEF IInv, Types
<1>1. PICK fails : fails = {x \in Registered : ~failed[x] /\ Spent(x) # {}}
  BY Zenon
<1>2. PICK active : active = {x \in Registered : ~failed[x]} \ fails
  BY Zenon
<1>3. PICK again : again = [x \in Transfers |-> IF x \in active THEN Due(x) ELSE {}]
  BY Zenon
<1>4. PICK left : left = [x \in Transfers |->
                            (pending[x] \ again[x]) \cup {Again(i) : i \in again[x]}]
  BY Zenon
<1>5. /\ mon.at = "scan" /\ pending' = left
      /\ failed' = [x \in Transfers |-> failed[x] \/ x \in fails]
      /\ pc' = [x \in Transfers |-> IF x \in fails THEN Woken(x) ELSE pc[x]]
      /\ tasks' = UNION {{[transfer |-> x, chunk |-> i.chunk, bytes |-> content[i.buffer]] :
                            i \in again[x]} : x \in Transfers}
      /\ monitorRefs' = [x \in Transfers |-> monitorRefs[x] + Cardinality(again[x])]
      /\ mon' = [mon EXCEPT !.at = "send",
                            !.next = MinOf({Deadline(i) : i \in UNION {left[x] : x \in active}}
                                           \cup {NoTime})]
      /\ chunk' = chunk /\ buffer' = buffer /\ content' = content /\ pool' = pool
      /\ outgoingNext' = outgoingNext /\ outgoingWake' = outgoingWake /\ sched' = sched
      /\ net' = net /\ written' = written
  BY <1>1, <1>2, <1>3, <1>4 DEF Scan, Referenced, bufVars
<1>6. /\ fails \in SUBSET Transfers /\ active \in SUBSET Transfers
      /\ \A x \in active : pc[x] \notin {"leaving", "returned"} /\ x \notin fails
  BY <1>1, <1>2, Zenon DEF Registered
<1>7. ASSUME NEW x \in Transfers
      PROVE  /\ again[x] \subseteq pending[x]
             /\ again[x] # {} => x \in active
             /\ left[x] = (pending[x] \ again[x]) \cup {Again(i) : i \in again[x]}
  BY <1>3, <1>4, Zenon DEF Due
<1>8. ASSUME NEW x \in Transfers, NEW i \in pending[x]
      PROVE  /\ Again(i) \in Items /\ Again(i).chunk = i.chunk /\ Again(i).buffer = i.buffer
             /\ i \in Items /\ pending[x] = {i}
  <2>1. i \in Items /\ \A j \in pending[x] : i = j
    BY <1>0, Zenon DEF SenderTypes
  <2>a. i.retries + 1 \in Nat /\ 0 \in {n \in Int : n <= 0}
    BY <2>1 DEF Items
  <2>b. Again(i) = [i EXCEPT !.sentAt = 0, !.retries = i.retries + 1]
    BY Zenon DEF Again
  <2>c. Again(i).chunk = i.chunk /\ Again(i).buffer = i.buffer
    BY <2>1, <2>b, Zenon DEF Items
  <2>d. Again(i) \in Items
    BY <2>1, <2>a, <2>b, Zenon DEF Items
  <2>2. /\ Again(i) \in Items /\ Again(i).chunk = i.chunk /\ Again(i).buffer = i.buffer
    BY <2>c, <2>d, Zenon
  <2> QED
    BY <2>1, <2>2, Zenon
<1>9. ASSUME NEW x \in Transfers
      PROVE  \/ again[x] = {} /\ left[x] = pending[x]
             \/ \E i \in pending[x] : again[x] = {i} /\ left[x] = {Again(i)}
  <2>1. CASE again[x] = {}
    BY <1>7, <2>1, Zenon
  <2>2. ASSUME NEW i \in again[x] PROVE again[x] = {i} /\ left[x] = {Again(i)} /\ i \in pending[x]
    <3>1. i \in pending[x] /\ again[x] \subseteq pending[x]
      BY <1>7, <2>2, Zenon
    <3>2. pending[x] = {i}
      BY <1>8, <3>1, Zenon
    <3>3. again[x] = {i}
      BY <2>2, <3>1, <3>2, Zenon
    <3>4. {Again(j) : j \in again[x]} = {Again(i)}
      BY <3>3, Zenon
    <3>5. pending[x] \ again[x] = {}
      BY <3>2, <3>3, Zenon
    <3> QED
      BY <1>7, <3>1, <3>3, <3>4, <3>5, Zenon
  <2> QED
    BY <2>1, <2>2, Zenon
<1>10. /\ left \in [Transfers -> SUBSET Items]
       /\ \A x \in Transfers : \A i, j \in left[x] : i = j
  <2>1. ASSUME NEW x \in Transfers
        PROVE  left[x] \in SUBSET Items /\ \A i, j \in left[x] : i = j
    <3>1. CASE left[x] = pending[x]
      BY <1>0, <3>1, Zenon DEF SenderTypes
    <3>2. ASSUME NEW i \in pending[x], left[x] = {Again(i)}
          PROVE  left[x] \in SUBSET Items /\ \A k, j \in left[x] : k = j
      BY <1>8, <3>2
    <3> QED
      BY <1>9, <3>1, <3>2, Zenon
  <2> QED
    BY <1>4, <2>1, Zenon
<1>11. PICK next : next = MinOf({Deadline(i) : i \in UNION {left[x] : x \in active}}
                                \cup {NoTime})
  BY Zenon
<1>12. next \in Times /\ \A y \in active : next <= FirstOf(left[y])
  BY <1>6, <1>10, <1>11, ScannedFirst, Zenon
<1>13. /\ mon' = [mon EXCEPT !.at = "send", !.next = next]
       /\ mon'.at = "send" /\ mon'.next = next /\ mon'.armed = mon.armed
  BY <1>0, <1>5, <1>11, Zenon DEF TimerTypes
<1>14. SenderTypes'
  <2>1. pc' \in [Transfers -> Places]
    <3>1. \A x \in Transfers : pc[x] \in Places /\ Woken(x) \in Places
      BY <1>0, WokenFacts, Zenon DEF SenderTypes
    <3> QED
      BY <1>5, <3>1, Zenon
  <2>2. failed' \in [Transfers -> BOOLEAN]
    BY <1>5, Zenon
  <2> QED
    BY <1>0, <1>5, <1>10, <2>1, <2>2, Zenon DEF SenderTypes
<1>15. TimerTypes'
  <2>1. mon' \in [at : {"select", "scan", "send"}, armed : Times, next : Times]
    BY <1>0, <1>12, <1>13, Zenon DEF TimerTypes
  <2> QED
    BY <1>0, <1>5, <2>1, Zenon DEF TimerTypes
<1>16. ASSUME NEW t \in tasks'
       PROVE  \E x \in Transfers : \E i \in again[x] :
                 t = [transfer |-> x, chunk |-> i.chunk, bytes |-> content[i.buffer]]
  BY <1>5, Zenon
<1>17. ASSUME NEW t \in tasks'
       PROVE  /\ Frame(t) /\ Sound(t)' /\ pc'[t.transfer] # "returned"
              /\ again[t.transfer] # {} /\ t.transfer \in Transfers
              /\ \A i \in again[t.transfer] : t.chunk = i.chunk /\ t.bytes = content[i.buffer]
  <2>0. PICK x \in Transfers : \E i \in again[x] :
           t = [transfer |-> x, chunk |-> i.chunk, bytes |-> content[i.buffer]]
    BY <1>16, Zenon
  <2>1. PICK i \in again[x] :
           t = [transfer |-> x, chunk |-> i.chunk, bytes |-> content[i.buffer]]
    BY <2>0, Zenon
  <2>2. t.transfer = x /\ t.chunk = i.chunk /\ t.bytes = content[i.buffer]
    BY <2>1, Zenon
  <2>3. i \in pending[x] /\ x \in active
    BY <1>7, <2>1, Zenon
  <2>4. i.chunk \in Nat /\ i.buffer \in Buffers
    BY <1>8, <2>3, Zenon DEF Items
  <2>5. content[i.buffer] = <<x, i.chunk>> /\ content[i.buffer] \in Contents
    BY <1>0, <2>3, <2>4, Zenon DEF Carried, Buffered, SenderTypes
  <2>6. i.chunk \in 1..chunkCount[x] /\ i.chunk <= Len(written[x]) + 1
    BY <1>0, <2>3, Zenon DEF Carried, Advanced
  <2>7. Frame(t)
    BY <2>2, <2>4, <2>5, Zenon DEF Frame
  <2>8. Sound(t)'
    BY <1>5, <2>2, <2>5, <2>6, Zenon DEF Sound
  <2>9. pc'[t.transfer] # "returned"
    BY <1>5, <1>6, <2>2, <2>3, Zenon
  <2>10. \A j \in again[x] : j = i
    BY <1>7, <1>8, <2>3, Zenon
  <2> QED
    BY <2>2, <2>7, <2>8, <2>9, <2>10, Zenon
<1>18. Types'
  <2>1. FrameTypes'
    BY <1>0, <1>5, <1>17, Zenon DEF FrameTypes
  <2>2. RefTypes'
    BY <1>5, Zenon DEF RefTypes
  <2> QED
    BY <1>14, <1>15, <2>1, <2>2, Zenon DEF Types
<1>19. Carried'
  <2>1. ASSUME NEW y \in Transfers PROVE Marks(y)
    <3>1. pc'[y] = pc[y] \/ pc'[y] = Woken(y)
      BY <1>5, Zenon
    <3>2. CASE pending'[y] = pending[y]
      BY <3>1, <3>2, Zenon DEF Marks
    <3>3. ASSUME NEW i \in pending[y], pending'[y] = {Again(i)} PROVE Marks(y)
      BY <1>8, <3>1, <3>3 DEF Marks
    <3> QED
      BY <1>5, <1>9, <3>2, <3>3, Zenon
  <2>2. ASSUME NEW y \in Transfers PROVE Buffered(y)' /\ Advanced(y)' /\ Intact(y)'
    BY <1>0, <1>5, <2>1, MarksStep, Zenon DEF Carried
  <2>3. ASSUME NEW f \in net PROVE Sound(f)'
    BY <1>0, <1>5, Zenon DEF Carried, Sound
  <2> QED
    BY <1>5, <1>17, <2>2, <2>3, Zenon DEF Carried
<1>20. Counted'
  <2>1. ASSUME NEW s \in tasks', NEW t \in tasks', s.transfer = t.transfer PROVE s = t
    <3>0. PICK x \in Transfers : \E i \in again[x] :
             s = [transfer |-> x, chunk |-> i.chunk, bytes |-> content[i.buffer]]
      BY <1>16, Zenon
    <3>1. PICK i \in again[x] :
             s = [transfer |-> x, chunk |-> i.chunk, bytes |-> content[i.buffer]]
      BY <3>0, Zenon
    <3>a. PICK y \in Transfers : \E j \in again[y] :
             t = [transfer |-> y, chunk |-> j.chunk, bytes |-> content[j.buffer]]
      BY <1>16, Zenon
    <3>2. PICK j \in again[y] :
             t = [transfer |-> y, chunk |-> j.chunk, bytes |-> content[j.buffer]]
      BY <3>a, Zenon
    <3>3. x = y
      BY <2>1, <3>1, <3>2, Zenon
    <3>4. i = j
      BY <1>9, <3>3
    <3> QED
      BY <3>1, <3>2, <3>3, <3>4, Zenon
  <2>2. ASSUME NEW x \in Transfers
        PROVE  monitorRefs'[x] = IF \E t \in tasks' : t.transfer = x THEN 1 ELSE 0
    <3>1. monitorRefs[x] = 0 /\ monitorRefs'[x] = monitorRefs[x] + Cardinality(again[x])
      BY <1>0, <1>5, Zenon DEF Counted
    <3>2. CASE again[x] = {}
      <4>1. Cardinality(again[x]) = 0
        BY <3>2, FS_EmptySet, Zenon
      <4>2. ~\E t \in tasks' : t.transfer = x
        BY <1>17, <3>2, Zenon
      <4> QED
        BY <3>1, <4>1, <4>2
    <3>3. ASSUME NEW i \in pending[x], again[x] = {i}
          PROVE  monitorRefs'[x] = IF \E t \in tasks' : t.transfer = x THEN 1 ELSE 0
      <4>1. Cardinality(again[x]) = 1
        BY <3>3, FS_Singleton, Zenon
      <4>2. PICK t : t = [transfer |-> x, chunk |-> i.chunk, bytes |-> content[i.buffer]]
        BY Zenon
      <4>a. t \in {[transfer |-> x, chunk |-> k.chunk, bytes |-> content[k.buffer]] :
                     k \in again[x]}
        BY <3>3, <4>2, Zenon
      <4>3. t \in tasks' /\ t.transfer = x
        BY <1>5, <4>2, <4>a, Zenon
      <4> QED
        BY <3>1, <4>1, <4>3
    <3> QED
      BY <1>9, <3>2, <3>3, Zenon
  <2> QED
    BY <1>13, <2>1, <2>2, Zenon DEF Counted
<1>21. Referred'
  BY <1>17, Zenon DEF Referred
<1>22. Noted'
  BY <1>0, <1>5, <1>13, Zenon DEF Noted, WakeComing
<1>23. Heeded'
  <2> SUFFICES ASSUME NEW y \in Transfers, Asked(y)'
               PROVE  Kept(nextOutgoingDeadlineLocked(y))'
    BY Zenon DEF Heeded
  <2>1. y \notin fails /\ pc[y] \in {"window", "answer"} /\ ~failed[y]
    BY <1>5, WokenFacts, Zenon DEF Asked
  <2>2. y \in active
    BY <1>2, <2>1, Zenon DEF Registered
  <2>3. nextOutgoingDeadlineLocked(y)' = FirstOf(left[y])
    BY <1>5, Zenon DEF nextOutgoingDeadlineLocked, FirstOf
  <2> QED
    BY <1>12, <1>13, <2>2, <2>3, Zenon DEF Kept
<1> QED
  BY <1>18, <1>19, <1>20, <1>21, <1>22, <1>23, Zenon DEF IInv

-----------------------------------------------------------------------------
\* A time moves down by one with the clock and stays a time; the order of two is kept.
LEMMA LaterFacts ==
    ASSUME Sizes, NEW s \in Times, NEW t \in Times
    PROVE  /\ Later(s) \in Times
           /\ s <= t => Later(s) <= Later(t)
           /\ Later(s) # NoTime => s # NoTime
           /\ t # NoTime => Later(t) = t - 1
<1>1. NoTime \in Int /\ s \in Int /\ t \in Int /\ s <= NoTime /\ t <= NoTime
  BY DEF Sizes, NoTime, Times
<1>2. Later(s) \in Int /\ Later(s) <= NoTime
  BY <1>1, SMT DEF Later
<1>3. s <= t => Later(s) <= Later(t)
  BY <1>1, SMT DEF Later
<1>4. /\ Later(s) # NoTime => s # NoTime
      /\ t # NoTime => Later(t) = t - 1
  BY Zenon DEF Later
<1> QED
  BY <1>2, <1>3, <1>4, Zenon DEF Times

\* The clock moves every deadline and every timer by one, so who had a deadline in hand
\* still has it.
LEMMA TickStep == ASSUME Sizes, IInv, Tick PROVE IInv'
<1>0. /\ SenderTypes /\ TimerTypes /\ FrameTypes /\ Carried /\ Counted /\ Referred
      /\ Noted /\ Heeded
  BY Zenon DEF IInv, Types
<1>1. PICK next : next = [x \in Transfers |->
                            {[i EXCEPT !.sentAt = i.sentAt - 1] : i \in pending[x]}]
  BY Zenon
<1>2. /\ pending' = next
      /\ outgoingNext' = Later(outgoingNext)
      /\ mon' = [mon EXCEPT !.armed = Later(mon.armed), !.next = Later(mon.next)]
      /\ pc' = pc /\ chunk' = chunk /\ buffer' = buffer /\ content' = content /\ pool' = pool
      /\ failed' = failed /\ monitorRefs' = monitorRefs /\ outgoingWake' = outgoingWake
      /\ sched' = sched /\ tasks' = tasks /\ net' = net /\ written' = written
  BY <1>1, Zenon DEF Tick, bufVars
<1>3. ASSUME NEW i \in Items
      PROVE  LET j == [i EXCEPT !.sentAt = i.sentAt - 1]
             IN  /\ j \in Items /\ j.chunk = i.chunk /\ j.buffer = i.buffer
                 /\ Deadline(j) = Deadline(i) - 1
  <2> DEFINE j == [i EXCEPT !.sentAt = i.sentAt - 1]
  <2>1. i.sentAt \in Int /\ i.sentAt <= 0 /\ AckTimeout \in Int
    BY DEF Items, Sizes
  <2>2. i.sentAt - 1 \in {n \in Int : n <= 0}
    BY <2>1
  <2>3. j \in Items
    BY <2>2, Zenon DEF Items
  <2>4. j.chunk = i.chunk /\ j.buffer = i.buffer /\ j.sentAt = i.sentAt - 1
    BY Zenon DEF Items
  <2>5. Deadline(j) = Deadline(i) - 1
    BY <2>1, <2>4 DEF Deadline
  <2> QED
    BY <2>3, <2>4, <2>5, Zenon
<1>4. ASSUME NEW x \in Transfers
      PROVE  /\ \A i \in pending[x] : i \in Items
             /\ \A i, j \in pending[x] : i = j
             /\ next[x] = {[i EXCEPT !.sentAt = i.sentAt - 1] : i \in pending[x]}
  BY <1>0, <1>1, Zenon DEF SenderTypes
<1>5. /\ next \in [Transfers -> SUBSET Items]
      /\ \A x \in Transfers : \A i, j \in next[x] : i = j
  <2>1. ASSUME NEW x \in Transfers
        PROVE  next[x] \in SUBSET Items /\ \A i, j \in next[x] : i = j
    BY <1>3, <1>4
  <2> QED
    BY <1>1, <2>1, Zenon
<1>6. SenderTypes'
  BY <1>0, <1>2, <1>5, Zenon DEF SenderTypes
<1>7. mon.armed \in Times /\ mon.next \in Times /\ outgoingNext \in Times
  BY <1>0, Zenon DEF TimerTypes
<1>8. /\ Later(mon.armed) \in Times /\ Later(mon.next) \in Times /\ Later(outgoingNext) \in Times
  BY <1>7, LaterFacts, Zenon
<1>9. /\ mon'.at = mon.at /\ mon'.armed = Later(mon.armed) /\ mon'.next = Later(mon.next)
      /\ mon' \in [at : {"select", "scan", "send"}, armed : Times, next : Times]
  <2>1. mon' \in [at : {"select", "scan", "send"}, armed : Times, next : Times]
    BY <1>0, <1>2, <1>8, Zenon DEF TimerTypes
  <2>2. mon'.at = mon.at /\ mon'.armed = Later(mon.armed) /\ mon'.next = Later(mon.next)
    BY <1>0, <1>2, Zenon DEF TimerTypes
  <2> QED
    BY <2>1, <2>2, Zenon
<1>10. TimerTypes'
  BY <1>0, <1>2, <1>8, <1>9, Zenon DEF TimerTypes
<1>11. Types'
  <2>1. FrameTypes' /\ RefTypes'
    BY <1>0, <1>2, Zenon DEF IInv, Types, FrameTypes, RefTypes
  <2> QED
    BY <1>6, <1>10, <2>1, Zenon DEF Types
<1>12. Carried'
  <2>1. ASSUME NEW y \in Transfers PROVE Marks(y)
    <3>0. pending'[y] = {[i EXCEPT !.sentAt = i.sentAt - 1] : i \in pending[y]}
      BY <1>2, <1>4, Zenon
    <3>1. pending'[y] = {} <=> pending[y] = {}
      BY <3>0, Zenon
    <3>2. ASSUME NEW j \in pending'[y]
          PROVE  \E i \in pending[y] : j.chunk = i.chunk /\ j.buffer = i.buffer
      <4>1. PICK i \in pending[y] : j = [i EXCEPT !.sentAt = i.sentAt - 1]
        BY <1>2, <1>4
      <4>2. i \in Items
        BY <1>4, Zenon
      <4>3. j.chunk = i.chunk /\ j.buffer = i.buffer
        BY <1>3, <4>1, <4>2, Zenon
      <4> QED
        BY <4>3, Zenon
    <3>3. pc'[y] = pc[y]
      BY <1>2, Zenon
    <3> QED
      BY <3>1, <3>2, <3>3, Zenon DEF Marks
  <2>2. ASSUME NEW y \in Transfers PROVE Buffered(y)' /\ Advanced(y)' /\ Intact(y)'
    BY <1>0, <1>2, <2>1, MarksStep, Zenon DEF Carried
  <2>3. ASSUME NEW f \in tasks \cup net PROVE Sound(f)'
    BY <1>0, <1>2, Zenon DEF Carried, Sound
  <2> QED
    BY <1>2, <2>2, <2>3, Zenon DEF Carried
<1>13. Counted' /\ Referred'
  BY <1>0, <1>2, <1>9, Zenon DEF Counted, Referred
<1>14. WakeComing' = WakeComing
  BY <1>2, Zenon DEF WakeComing
<1>15. Noted'
  <2>1. outgoingNext <= mon.armed /\ (outgoingNext # NoTime => outgoingNext = mon.armed \/ WakeComing)
    BY <1>0, Zenon DEF Noted
  <2>2. outgoingNext' <= mon'.armed
    BY <1>2, <1>7, <1>9, <2>1, LaterFacts, Zenon
  <2>3. outgoingNext' # NoTime => outgoingNext # NoTime
    BY <1>2, <1>7, LaterFacts, Zenon
  <2>4. outgoingNext = mon.armed => outgoingNext' = mon'.armed
    BY <1>2, <1>9, Zenon
  <2>5. NoTime' = NoTime
    BY Zenon DEF NoTime
  <2> QED
    BY <1>14, <2>1, <2>2, <2>3, <2>4, <2>5, Zenon DEF Noted
<1>16. Heeded'
  <2> SUFFICES ASSUME NEW y \in Transfers, Asked(y)'
               PROVE  Kept(nextOutgoingDeadlineLocked(y))'
    BY Zenon DEF Heeded
  <2>1. Kept(nextOutgoingDeadlineLocked(y))
    BY <1>0, <1>2, Zenon DEF Heeded, Asked
  <2>2. PICK d : d = nextOutgoingDeadlineLocked(y)
    BY Zenon
  <2>3. PICK e : e = nextOutgoingDeadlineLocked(y)'
    BY Zenon
  <2>4. d = FirstOf(pending[y]) /\ d \in Times
    BY <1>0, <2>2, FirstType, Zenon
  <2>5. e = FirstOf(next[y])
    BY <1>2, <2>3, Zenon DEF nextOutgoingDeadlineLocked, FirstOf
  <2>6. e = Later(d)
    <3>1. /\ pending[y] \in SUBSET Items /\ next[y] \in SUBSET Items
          /\ \A i, j \in pending[y] : i = j
          /\ \A i, j \in next[y] : i = j
      BY <1>4, <1>5, Zenon
    <3>2. CASE pending[y] = {}
      <4>1. next[y] = {}
        BY <1>4, <3>2
      <4>2. d = NoTime /\ e = NoTime
        BY <2>4, <2>5, <3>1, <3>2, <4>1, FirstDeadline, Zenon
      <4> QED
        BY <4>2, Zenon DEF Later
    <3>3. ASSUME NEW i \in pending[y] PROVE e = Later(d)
      <4>1. PICK j : j = [i EXCEPT !.sentAt = i.sentAt - 1]
        BY Zenon
      <4>2. j \in next[y] /\ Deadline(j) = Deadline(i) - 1
        BY <1>3, <1>4, <4>1
      <4>3. d = Deadline(i) /\ e = Deadline(j)
        BY <2>4, <2>5, <3>1, <4>2, FirstDeadline, Zenon
      <4>4. Deadline(i) \in Int /\ Deadline(i) < NoTime
        BY <1>4, DeadlineType, Zenon
      <4>5. NoTime \in Int
        BY DEF Sizes, NoTime
      <4>6. Deadline(i) # NoTime
        BY <4>4, <4>5
      <4> QED
        BY <4>2, <4>3, <4>6, Zenon DEF Later
    <3> QED
      BY <3>2, <3>3, Zenon
  <2>7. /\ mon.armed <= d => mon'.armed <= e
        /\ mon.next <= d => mon'.next <= e
        /\ outgoingNext <= d => outgoingNext' <= e
    BY <1>2, <1>7, <1>9, <2>4, <2>6, LaterFacts, Zenon
  <2>8. \/ mon.armed <= d \/ mon.next <= d \/ mon.at = "scan"
        \/ outgoingNext <= d /\ WakeComing
    BY <2>1, <2>2, Zenon DEF Kept
  <2> QED
    BY <1>9, <1>14, <2>3, <2>7, <2>8, Zenon DEF Kept
<1> QED
  BY <1>11, <1>12, <1>13, <1>15, <1>16, Zenon DEF IInv

-----------------------------------------------------------------------------
\* The invariant holds before anything is sent.
LEMMA InitIInv == ASSUME Sizes, Init PROVE IInv
<1>1. NoTime \in Int /\ NoTime \in Times
  BY DEF Sizes, NoTime, Times
<1>2. \A x \in Transfers : chunkCount[x] \in Nat /\ 1 \in 1..chunkCount[x]
  BY DEF Sizes
<1>3. /\ mon.at = "select" /\ mon.armed = NoTime /\ mon.next = NoTime /\ outgoingNext = NoTime
      /\ tasks = {} /\ net = {}
  BY Zenon DEF Init
<1>4. SenderTypes
  BY Zenon DEF Init, SenderTypes, Places, Contents
<1>5. TimerTypes
  BY <1>1, Zenon DEF Init, TimerTypes
<1>6. FrameTypes /\ RefTypes
  BY DEF Init, FrameTypes, RefTypes
<1>7. ASSUME NEW x \in Transfers PROVE Buffered(x) /\ Advanced(x) /\ Intact(x)
  <2>1. pc[x] = "fill" /\ chunk[x] = 1 /\ pending[x] = {} /\ written[x] = <<>>
    BY Zenon DEF Init
  <2>2. Len(written[x]) = 0
    BY <2>1
  <2> QED
    BY <1>2, <2>1, <2>2 DEF Buffered, Advanced, Intact
<1>8. Carried
  BY <1>3, <1>7, Zenon DEF Carried
<1>9. Counted /\ Referred
  BY <1>3, Zenon DEF Init, Counted, Referred
<1>10. Noted
  BY <1>1, <1>3 DEF Noted
<1>11. Heeded
  BY Zenon DEF Init, Heeded, Asked
<1> QED
  BY <1>4, <1>5, <1>6, <1>8, <1>9, <1>10, <1>11, Zenon DEF IInv, Types

\* A step that changes nothing keeps the invariant.
LEMMA StutterStep == ASSUME IInv, UNCHANGED vars PROVE IInv'
<1>1. /\ pc' = pc /\ chunk' = chunk /\ buffer' = buffer /\ content' = content /\ pool' = pool
      /\ pending' = pending /\ failed' = failed /\ monitorRefs' = monitorRefs
      /\ outgoingNext' = outgoingNext /\ outgoingWake' = outgoingWake /\ sched' = sched
      /\ mon' = mon /\ tasks' = tasks /\ net' = net /\ written' = written
  BY Zenon DEF vars, bufVars, otVars
<1>2. Types'
  BY <1>1, Zenon DEF IInv, Types, SenderTypes, TimerTypes, FrameTypes, RefTypes
<1>3. Carried'
  <2>1. ASSUME NEW x \in Transfers PROVE Buffered(x)' /\ Advanced(x)' /\ Intact(x)'
    <3>1. Buffered(x) /\ Advanced(x) /\ Intact(x)
      BY Zenon DEF IInv, Carried
    <3> QED
      BY <1>1, <3>1, Zenon DEF Buffered, Advanced, Intact
  <2>2. ASSUME NEW f \in tasks \cup net PROVE Sound(f)'
    BY <1>1, Zenon DEF IInv, Carried, Sound
  <2> QED
    BY <1>1, <2>1, <2>2, Zenon DEF Carried
<1>4. Counted' /\ Referred'
  BY <1>1, Zenon DEF IInv, Counted, Referred
<1>5. Noted'
  BY <1>1, Zenon DEF IInv, Noted, WakeComing
<1>6. Heeded'
  BY <1>1, Zenon DEF IInv, Heeded, Asked, Kept, WakeComing, nextOutgoingDeadlineLocked
<1> QED
  BY <1>2, <1>3, <1>4, <1>5, <1>6, Zenon DEF IInv

\* Every step of senders, monitor, peer and clock keeps the invariant.
LEMMA NextIInv == ASSUME Sizes, IInv, [Next]_vars PROVE IInv'
<1>1. ASSUME NEW x \in Transfers, Sending(x) PROVE IInv'
  <2>1. CASE Fill(x)
    BY <2>1, FillStep, Zenon
  <2>2. CASE Reserve(x)
    BY <2>2, ReserveStep, Zenon
  <2>3. CASE Transmit(x)
    BY <2>3, TransmitStep, Zenon
  <2>4. CASE waitOutgoingAcked(x)
    BY <2>4, WaitStep, Zenon
  <2>5. CASE unregisterOutgoing(x)
    BY <2>5, UnregisterStep, Zenon
  <2>6. CASE CompareAndSwap(x)
    BY <2>6, CompareAndSwapStep, Zenon
  <2>7. CASE Wake(x)
    BY <2>7, WakeStep, Zenon
  <2> QED
    BY <1>1, <2>1, <2>2, <2>3, <2>4, <2>5, <2>6, <2>7, Zenon DEF Sending
<1>2. CASE Monitoring
  <2>1. CASE Arm
    BY <2>1, ArmStep, Zenon
  <2>2. CASE Fire
    BY <2>2, FireStep, Zenon
  <2>3. CASE Scan
    BY <2>3, ScanStep, Zenon
  <2>4. CASE Reschedule
    BY <2>4, RescheduleStep, Zenon
  <2>5. ASSUME NEW task \in tasks, SendTask(task) PROVE IInv'
    BY <2>5, SendTaskStep, Zenon
  <2> QED
    BY <1>2, <2>1, <2>2, <2>3, <2>4, <2>5, Zenon DEF Monitoring
<1>3. ASSUME NEW f \in net, Answer(f) PROVE IInv'
  BY <1>3, AnswerStep, Zenon
<1>4. CASE Tick
  BY <1>4, TickStep, Zenon
<1>5. CASE UNCHANGED vars
  BY <1>5, StutterStep, Zenon
<1> QED
  BY <1>1, <1>2, <1>3, <1>4, <1>5, Zenon DEF Next

\* The invariant that senders, monitor and peer keep together (sendReliableChunk,
\* scheduleOutgoingMonitor, processOutgoingTimeouts, applyAck).
THEOREM Invariance == Sizes /\ Spec => []IInv
<1>1. Sizes /\ Init => IInv
  BY InitIInv, Zenon
<1>2. Sizes /\ IInv /\ [Next]_vars => IInv'
  BY NextIInv, Zenon
<1>3. Sizes => Sizes'
  BY Zenon DEF Sizes
<1> QED
  BY <1>1, <1>2, <1>3, PTL DEF Spec

\* The state stays within its types: at most one chunk is pending in the window of one,
\* and the receiver never writes more chunks than the body has.
THEOREM MonitorTypes == Sizes /\ Spec => []TypeOK
<1>1. IInv => TypeOK
  <2> SUFFICES ASSUME IInv PROVE TypeOK
    BY Zenon
  <2>1. /\ SenderTypes /\ TimerTypes /\ Carried /\ Counted
    BY Zenon DEF IInv, Types
  <2>2. ASSUME NEW x \in Transfers
        PROVE  /\ monitorRefs[x] \in Nat /\ Len(written[x]) <= chunkCount[x]
               /\ Cardinality(pending[x]) <= 1 /\ buffer[x] \in Buffers \cup {NoBuffer}
    <3>2. ASSUME NEW i \in pending[x] PROVE Cardinality(pending[x]) = 1
      <4>1. pending[x] = {i}
        BY <2>1 DEF SenderTypes
      <4> QED
        BY <4>1, FS_Singleton, Zenon
    <3>3. Cardinality(pending[x]) <= 1
      <4>1. CASE pending[x] = {}
        BY <4>1, FS_EmptySet
      <4> QED
        BY <3>2, <4>1
    <3>4. monitorRefs[x] \in Nat
      BY <2>1 DEF Counted
    <3> QED
      BY <2>1, <3>3, <3>4, Zenon DEF SenderTypes, Carried, Advanced
  <2> QED
    BY <2>1, <2>2, Zenon DEF TypeOK, SenderTypes, TimerTypes, Times
<1> QED
  BY <1>1, Invariance, PTL

\* No deadline is lost: while a sender waits for the peer, its first deadline or an
\* earlier one is armed, asked for with a wake-up coming, or in the monitor's hands
\* (scheduleOutgoingMonitor against runOutgoingMonitor).
THEOREM DeadlinesAreKept == Sizes /\ Spec => []DeadlineKept
<1>1. IInv => DeadlineKept
  BY Zenon DEF IInv, Heeded, Asked, Kept, WakeComing, DeadlineKept, Locked
<1> QED
  BY <1>1, Invariance, PTL

\* What the receiver writes is what the sender read, although a buffer goes back to the
\* pool, and is filled again, while a frame is still to be encoded from it
\* (sendReliableChunk, applyAck).
THEOREM BodiesAreIntact == Sizes /\ Spec => []WrittenIntact
<1>1. IInv => WrittenIntact
  BY Zenon DEF IInv, Carried, Intact, WrittenIntact
<1> QED
  BY <1>1, Invariance, PTL

\* A record is not put back for reuse while the monitor still has a task for it
\* (monitorRefs in processOutgoingTimeouts and unregisterOutgoing).
THEOREM TasksHoldRecords == Sizes /\ Spec => []Referred
<1>1. IInv => Referred
  BY Zenon DEF IInv
<1> QED
  BY <1>1, Invariance, PTL
=============================================================================
