--------------------------- MODULE TransferProofs ---------------------------
(***************************************************************************)
(* The inductive invariant of one transfer, for any number of chunks, any  *)
(* limits and any set of faults; the proofs that the receiver and then the *)
(* sender preserve it, what follows from it, and that a transfer           *)
(* implements Delivery.                                                    *)
(***************************************************************************)
EXTENDS Transfer, FiniteSetTheorems, TLAPS

(* Zenon finds most leaves faster; the others cite SMT. *)
USE Zenon

(* The first chunk that the sender has not reserved. *)
Sent == next + IF spc = "transmit" THEN 1 ELSE 0

(* The sender: the chunks it waits for are the run from the first          *)
(* unacknowledged one to the first it has not reserved, at most            *)
(* MaxInFlight of them, and it reports only when it returns.               *)
SenderInv ==
    /\ next <= chunkCount
    /\ spc \in {"reserve", "wait", "woken", "transmit"} => next < chunkCount
    /\ result = "none" <=> Registered
    /\ Registered => /\ ot.acked <= Sent
                     /\ Sent <= ot.acked + MaxInFlight
                     /\ ot.pending = ot.acked .. Sent - 1

(* The frames that may be on the bulk channel: a data frame is for a chunk *)
(* of the transfer that the receiver's queue has room for once everything  *)
(* before it is taken.                                                     *)
SoundFrames ==
    {Begin, End} \cup {Data(c) : c \in {d \in Chunks : /\ d < chunkCount
                                                       /\ d < tr.written + QueueCap}}

(* The frames that may be on the control channel: an ack is for chunks     *)
(* that are written, and Completed is said of a committed writer only.     *)
SoundReplies ==
    {m \in Replies : /\ m.type = "ack" => m.received <= tr.written
                     /\ m = State("completed") => writer = "committed"}

(* Every frame under way is sound. A channel may be of any length. *)
ChannelInv == bulk \in Seq(SoundFrames) /\ ctl \in Seq(SoundReplies)

(* TransferBegin is sent once, and until it is taken the receiver knows    *)
(* nothing of the transfer.                                                *)
BeginInv ==
    /\ \A i \in 1 .. Len(bulk) : bulk[i] = Begin =>
          /\ spc # "begin" /\ rx = "none"
          /\ \A j \in 1 .. Len(bulk) : bulk[j] = Begin => i = j
    /\ spc = "begin" => rx = "none"

(* What either side remembers or was told is true of the writer. *)
ReportInv ==
    /\ ot.acked <= tr.written /\ dup <= tr.written
    /\ mem = "completed" => writer = "committed"
    /\ ot.completed => writer = "committed"
    /\ result = "ok" => writer = "committed"

(* The chunk that the worker has taken from the queue and not yet counted. *)
InHand == IF wpc = "write" THEN 1 ELSE 0

(* The receiver's counters: an accepted chunk is written, queued or in the *)
(* worker's hand, and of a failed transfer some are dropped.               *)
CountInv ==
    /\ tr.written <= tr.accepted /\ tr.accepted <= chunkCount
    /\ tr.queued + InHand <= tr.accepted - tr.written
    /\ ~tr.failed => tr.queued + InHand = tr.accepted - tr.written

(* The receiver's threads: which of them owns the writer, and how the      *)
(* flags of incomingTransfer follow from where they are.                   *)
ReceiverInv ==
    /\ ~up.rx <=> rpc = "stopped"
    /\ wpc = "off" => writer \in {"none", "aborted"}
    /\ wpc = "off" => tr.accepting /\ opc = "off"
    /\ rx \in {"none", "opening", "late"} => wpc = "off" /\ writer = "none"
    /\ rx = "open" => wpc # "off"
    /\ wpc \notin {"off", "done"} => writer = "open"
    /\ wpc = "done" => tr.queued = 0 /\ ~tr.accepting
    /\ writer \in {"open", "closing"} => wpc # "off"
    /\ writer = "closing" => tr.failed /\ tr.ending /\ rpc # "drain"
    /\ tr.failed => ~tr.accepting
    /\ tr.ending => ~tr.accepting /\ tr.accepted = chunkCount
    /\ ~tr.accepting /\ ~tr.failed => tr.ending
    /\ ~tr.accepting /\ ~tr.failed /\ writer = "open" => rpc \in {"drain", "commit"}
    /\ rpc = "drain" => rx = "open" /\ tr.ending /\ (~tr.failed => writer = "open")
    /\ rpc = "commit" => /\ rx = "open" /\ tr.ending /\ ~tr.failed
                         /\ wpc = "done" /\ writer = "open"
    /\ rx = "gone" /\ writer = "open" => tr.failed
    /\ tr.failed /\ wpc = "done" => writer # "open"
    /\ writer = "committed" => wpc = "done" /\ tr.written = chunkCount

(* TypeOK in parts that the provers take one at a time. *)
SenderTypes ==
    /\ chunkCount \in 0 .. MaxChunks
    /\ ot \in [pending : SUBSET Chunks, retries : [Chunks -> 0 .. RetryLimit],
               acked : 0 .. MaxChunks, window : 0 .. QueueCap,
               doneSending : BOOLEAN, completed : BOOLEAN, failed : BOOLEAN,
               commitRetries : 0 .. RetryLimit]
    /\ spc \in {"begin", "chunk", "reserve", "wait", "woken", "transmit", "end",
                "sendEnd", "await", "awaitWait", "awaitWoken", "returned"}
    /\ next \in 0 .. MaxChunks
    /\ result \in {"none", "ok", "error"}

(* The fields of incomingTransfer. *)
TrType ==
    tr \in [accepted : 0 .. MaxChunks, written : 0 .. MaxChunks,
               queued : 0 .. QueueCap, accepting : BOOLEAN, failed : BOOLEAN,
               ending : BOOLEAN, flowBlocked : BOOLEAN]

(* The types of the receiver's variables. *)
ReceiverTypes ==
    /\ rx \in {"none", "opening", "late", "open", "gone"}
    /\ TrType
    /\ wpc \in {"off", "idle", "write", "ack", "window", "send", "done"}
    /\ rpc \in {"read", "dupAck", "drain", "commit", "cleaned", "closed", "stopped"}
    /\ opc \in {"off", "window", "send"}
    /\ loaded \in [{"worker", "opener"} -> 0 .. ReceiveLimit]
    /\ dup \in 0 .. MaxChunks
    /\ writer \in {"none", "open", "committed", "closeFailed", "closing",
                   "aborted"}
    /\ mem \in {"none", "completed", "failed"}
    /\ others \in 0 .. MaxOthers

(* The types of what both sides share. *)
UpType == up \in [tx : BOOLEAN, rx : BOOLEAN]

(* The types of the flags. *)
FlagTypes == ctxDone \in BOOLEAN /\ cancels \in BOOLEAN

(* All types. *)
Types == SenderTypes /\ ReceiverTypes /\ UpType /\ FlagTypes

(* The inductive invariant. *)
IInv == /\ Types /\ SenderInv /\ ChannelInv /\ BeginInv /\ ReportInv
        /\ CountInv /\ ReceiverInv

-----------------------------------------------------------------------------
(* Sequences over a larger set. *)
LEMMA SeqGrows ==
  ASSUME NEW S, NEW T, S \subseteq T, NEW q \in Seq(S)
  PROVE  q \in Seq(T)
  BY SMT

(* The first element of a sequence and the rest of it. *)
LEMMA HeadTail ==
  ASSUME NEW S, NEW q \in Seq(S), q # <<>>
  PROVE  Head(q) \in S /\ Tail(q) \in Seq(S)
  BY SMT

(* Two sequences joined. *)
LEMMA Joined ==
  ASSUME NEW S, NEW q \in Seq(S), NEW r \in Seq(S)
  PROVE  /\ q \o r \in Seq(S) /\ Len(q \o r) = Len(q) + Len(r)
         /\ \A i \in 1 .. Len(q) + Len(r) :
               (q \o r)[i] = IF i <= Len(q) THEN q[i] ELSE r[i - Len(q)]
  BY SMT

(* registerOutgoing never allows more chunks in flight than the receiver   *)
(* queues.                                                                 *)
LEMMA MaxInFlightType == MaxInFlight \in 1 .. QueueCap
  BY BoundAssumption, SMT DEF MaxInFlight, Min

(* A transfer that has not begun satisfies the invariant. *)
LEMMA InitInv == Init => IInv
  <1> SUFFICES ASSUME Init PROVE IInv
    OBVIOUS
  <1>1. SenderTypes /\ ReceiverTypes
    BY BoundAssumption, SMT DEF Init, SenderTypes, ReceiverTypes, TrType
  <1>2. UpType /\ FlagTypes
    BY Zenon DEF Init, UpType, FlagTypes
  <1>3. SenderInv
    BY BoundAssumption, MaxInFlightType, SMT DEF Init, SenderInv, Sent, Registered
  <1>4. ChannelInv /\ BeginInv /\ ReportInv
    BY SMT DEF Init, ChannelInv, BeginInv, ReportInv
  <1>5. CountInv /\ ReceiverInv
    BY SMT DEF Init, CountInv, ReceiverInv, InHand
  <1> QED
    BY <1>1, <1>2, <1>3, <1>4, <1>5 DEF IInv, Types

(* A frame that is sound stays sound: the receiver's counter of written    *)
(* chunks never goes back and a committed writer stays committed.          *)
LEMMA SoundGrows ==
  ASSUME IInv, ReceiverTypes', chunkCount' = chunkCount, tr'.written >= tr.written,
         writer = "committed" => writer' = "committed"
  PROVE  SoundFrames \subseteq SoundFrames' /\ SoundReplies \subseteq SoundReplies'
  <1>1. tr.written \in Nat /\ tr'.written \in Nat /\ QueueCap \in Nat
    BY BoundAssumption, SMT DEF IInv, Types, ReceiverTypes, TrType
  <1>2. SoundFrames \subseteq SoundFrames'
    <2>1. \A d \in Chunks : d < tr.written + QueueCap => d < tr'.written + QueueCap
      BY <1>1, SMT DEF Chunks
    <2> QED
      BY <2>1 DEF SoundFrames
  <1>3. SoundReplies \subseteq SoundReplies'
    <2> SUFFICES ASSUME NEW m \in SoundReplies PROVE m \in SoundReplies'
      OBVIOUS
    <2>1. m \in Replies /\ (m = State("completed") => writer' = "committed")
      BY DEF SoundReplies
    <2>2. m.type = "ack" => m.received <= tr'.written
      <3> SUFFICES ASSUME m.type = "ack" PROVE m.received <= tr'.written
        OBVIOUS
      <3>1. m.received \in Nat
        BY <2>1, SMT DEF Replies, Ack, Window, State, Nack, Missing
      <3> QED
        BY <3>1, <1>1, SMT DEF SoundReplies
    <2> QED
      BY <2>1, <2>2 DEF SoundReplies, State
  <1> QED
    BY <1>2, <1>3

(* What a step of the sender's side must establish: the receiver's part of *)
(* the invariant follows.                                                  *)
LEMMA SenderStep ==
  ASSUME IInv, UNCHANGED <<rxVars, chunkCount>>, UpType', up'.rx = up.rx,
         SenderTypes', FlagTypes', SenderInv', BeginInv',
         bulk' \in Seq(SoundFrames), ctl' \in Seq(SoundReplies),
         ot'.acked <= tr.written,
         ot'.completed => writer = "committed",
         result' = "ok" => writer = "committed"
  PROVE  IInv'
  <1> USE DEF rxVars, trVars
  <1>1. ReceiverTypes' /\ CountInv' /\ ReceiverInv'
    BY SMT DEF IInv, Types, ReceiverTypes, TrType, CountInv, ReceiverInv, InHand
  <1>2. ChannelInv'
    BY DEF ChannelInv, SoundFrames, SoundReplies
  <1>3. ReportInv'
    BY DEF IInv, ReportInv
  <1> QED
    BY <1>1, <1>2, <1>3, Zenon DEF IInv, Types

(* What a step of the receiver's side must establish: the sender's part of *)
(* the invariant follows.                                                  *)
LEMMA ReceiverStep ==
  ASSUME IInv, UNCHANGED txVars, UpType', ReceiverTypes', cancels' \in BOOLEAN,
         bulk' = bulk \/ (bulk # <<>> /\ bulk' = Tail(bulk)),
         BeginInv',
         ctl' \in Seq(SoundReplies'),
         tr'.written >= tr.written,
         writer = "committed" => writer' = "committed",
         dup' <= tr'.written, mem' = "completed" => writer' = "committed",
         CountInv', ReceiverInv'
  PROVE  IInv'
  <1> USE DEF txVars
  <1>1. SenderTypes' /\ SenderInv'
    BY DEF IInv, Types, SenderTypes, SenderInv, Sent, Registered
  <1>2. FlagTypes'
    BY Zenon DEF IInv, Types, FlagTypes
  <1>3. ChannelInv'
    <2>1. SoundFrames \subseteq SoundFrames'
      BY SoundGrows
    <2>2. bulk' \in Seq(SoundFrames)
      <3>1. bulk \in Seq(SoundFrames)
        BY DEF IInv, ChannelInv
      <3> QED
        BY <3>1, HeadTail
    <2>3. bulk' \in Seq(SoundFrames')
      BY <2>1, <2>2, SeqGrows
    <2> QED
      BY <2>3 DEF ChannelInv
  <1>4. ReportInv'
    <2>1. tr.written \in Int /\ tr'.written \in Int /\ ot.acked \in Int
      BY SMT DEF IInv, Types, SenderTypes, ReceiverTypes, TrType
    <2> QED
      BY <2>1, SMT DEF IInv, ReportInv
  <1> QED
    BY <1>1, <1>2, <1>3, <1>4 DEF IInv, Types

-----------------------------------------------------------------------------
(* Facts about the receiver's state. *)
LEMMA ReceiverFacts ==
  ASSUME IInv
  PROVE  /\ chunkCount \in Nat /\ chunkCount <= MaxChunks /\ MaxChunks \in Nat
         /\ tr.written \in Nat /\ tr.accepted \in Nat /\ tr.queued \in Nat
         /\ tr.accepted <= MaxChunks /\ tr.written <= MaxChunks /\ tr.queued <= QueueCap
         /\ QueueCap \in Nat /\ QueueCap > 0 /\ ReceiveLimit \in Nat /\ InHand \in 0 .. 1
         /\ dup \in Nat /\ dup <= tr.written
         /\ Buffered \in Nat /\ Buffered >= others /\ others \in Nat
  BY BoundAssumption, SMT
     DEF IInv, Types, SenderTypes, ReceiverTypes, TrType, ReportInv, InHand, Buffered

(* What the receiver may send. *)
LEMMA SoundToSend ==
  /\ \A r \in {"unknown", "canceled", "invalid", "write", "flow"} : Nack(r) \in SoundReplies'
  /\ \A n \in 0 .. QueueCap : Window(n) \in SoundReplies'
  /\ State("failed") \in SoundReplies'
  /\ \A a, b \in Chunks : Missing(a, b) \in SoundReplies'
  /\ \A n \in 0 .. MaxChunks : n <= tr'.written => Ack(n) \in SoundReplies'
  /\ writer' = "committed" => State("completed") \in SoundReplies'
  <1>1. /\ \A r \in {"unknown", "canceled", "invalid", "write", "flow"} : Nack(r) \in Replies
        /\ \A n \in 0 .. QueueCap : Window(n) \in Replies
        /\ \A f \in {"completed", "failed"} : State(f) \in Replies
        /\ \A a, b \in Chunks : Missing(a, b) \in Replies
        /\ \A n \in 0 .. MaxChunks : Ack(n) \in Replies
    BY SMT DEF Replies
  <1>2. /\ \A r : Nack(r).type = "nack" /\ Nack(r) # State("completed")
        /\ \A n : Window(n).type = "window" /\ Window(n) # State("completed")
        /\ \A f : State(f).type = "state"
        /\ State("failed") # State("completed")
        /\ \A a, b : Missing(a, b).type = "nack" /\ Missing(a, b) # State("completed")
        /\ \A n : Ack(n).type = "ack" /\ Ack(n).received = n /\ Ack(n) # State("completed")
    BY DEF Ack, Window, State, Nack, Missing
  <1>3. SoundReplies' = {m \in Replies : /\ m.type = "ack" => m.received <= tr'.written
                                         /\ m = State("completed") => writer' = "committed"}
    BY DEF SoundReplies, State
  <1> QED
    BY <1>1, <1>2, <1>3

(* A step that sends one or two sound frames, or none. *)
LEMMA SendSound ==
  ASSUME IInv, ReceiverTypes', chunkCount' = chunkCount, tr'.written >= tr.written,
         writer = "committed" => writer' = "committed",
         \/ ctl' = ctl
         \/ \E m \in SoundReplies' : Send(<<m>>)
         \/ \E m, n \in SoundReplies' : Send(<<m, n>>)
  PROVE  ctl' \in Seq(SoundReplies')
  <1>1. ctl \in Seq(SoundReplies')
    <2>1. SoundReplies \subseteq SoundReplies' /\ ctl \in Seq(SoundReplies)
      BY SoundGrows DEF IInv, ChannelInv
    <2> QED
      BY <2>1, SeqGrows
  <1>2. \A m, n \in SoundReplies' : <<m>> \in Seq(SoundReplies') /\ <<m, n>> \in Seq(SoundReplies')
    BY SMT
  <1>3. \A frames \in Seq(SoundReplies') : ctl \o frames \in Seq(SoundReplies')
    BY <1>1, Joined
  <1>4. CASE \E m \in SoundReplies' : Send(<<m>>)
    BY <1>1, <1>2, <1>3, <1>4, Zenon DEF Send
  <1>5. CASE \E m, n \in SoundReplies' : Send(<<m, n>>)
    BY <1>1, <1>2, <1>3, <1>5, Zenon DEF Send
  <1> QED
    BY <1>1, <1>4, <1>5, Zenon

(* A step that takes a frame other than TransferBegin, or none. *)
LEMMA BulkTaken ==
  ASSUME IInv, bulk' = bulk \/ (bulk # <<>> /\ bulk' = Tail(bulk)), UNCHANGED spc,
         rx' = rx \/ (rx # "none" /\ rx' # "none")
  PROVE  BeginInv'
  <1>1. CASE bulk' = bulk
    BY <1>1 DEF IInv, BeginInv
  <1>2. CASE bulk # <<>> /\ bulk' = Tail(bulk)
    <2>1. bulk \in Seq(SoundFrames)
      BY DEF IInv, ChannelInv
    <2>2. Len(bulk) \in Nat /\ Len(bulk') = Len(bulk) - 1 /\ \A i \in 1 .. Len(bulk') : bulk'[i] = bulk[i + 1]
      BY <1>2, <2>1, SMT
    <2>3. \A i \in 1 .. Len(bulk') : i + 1 \in 1 .. Len(bulk)
      BY <2>2, SMT
    <2>4. \A i \in 1 .. Len(bulk') : bulk'[i] = Begin => spc # "begin" /\ rx = "none"
      BY <2>2, <2>3 DEF IInv, BeginInv
    <2>5. \A i, j \in 1 .. Len(bulk') : bulk'[i] = Begin /\ bulk'[j] = Begin => i = j
      <3> SUFFICES ASSUME NEW i \in 1 .. Len(bulk'), NEW j \in 1 .. Len(bulk'),
                          bulk'[i] = Begin, bulk'[j] = Begin
                   PROVE  i = j
        OBVIOUS
      <3>1. i + 1 = j + 1
        BY <2>2, <2>3 DEF IInv, BeginInv
      <3> QED
        BY <3>1, <2>2, SMT
    <2> QED
      BY <2>4, <2>5 DEF IInv, BeginInv, Begin
  <1> QED
    BY <1>1, <1>2

(* handleIncomingTransferBegin starts to open the writer. *)
LEMMA HandleBeginInv == ASSUME IInv, HandleBegin PROVE IInv'
  <1> USE DEF HandleBegin
  <1>1. bulk \in Seq(SoundFrames) /\ Len(bulk) > 0 /\ bulk[1] = Begin
    BY SMT DEF IInv, ChannelInv
  <1>2. spc # "begin" /\ rx = "none" /\ \A j \in 1 .. Len(bulk) : bulk[j] = Begin => 1 = j
    BY <1>1, SMT DEF IInv, BeginInv
  <1>3. BeginInv'
    <2>1. Len(bulk) \in Nat /\ Len(bulk') = Len(bulk) - 1 /\ \A i \in 1 .. Len(bulk') : bulk'[i] = bulk[i + 1]
      BY <1>1, SMT
    <2>2. \A i \in 1 .. Len(bulk') : i + 1 \in 1 .. Len(bulk) /\ i + 1 # 1
      BY <2>1, SMT
    <2>3. \A i \in 1 .. Len(bulk') : bulk'[i] # Begin
      BY <1>2, <2>1, <2>2
    <2> QED
      BY <1>2, <2>3 DEF BeginInv, txVars, Begin
  <1>4. ReceiverTypes' /\ UpType' /\ cancels' \in BOOLEAN
    BY SMT DEF IInv, Types, ReceiverTypes, TrType, UpType, FlagTypes
  <1>5. CountInv' /\ ReceiverInv'
    BY <1>2 DEF IInv, CountInv, ReceiverInv, InHand, txVars
  <1>6. ctl' \in Seq(SoundReplies')
    BY <1>4, ReceiverFacts, SendSound, SMT DEF txVars
  <1> QED
    BY <1>3, <1>4, <1>5, <1>6, ReceiverFacts, ReceiverStep, SMT DEF IInv, ReportInv

(* What a receiver's action leaves alone, takes or only lets grow. *)
ReceiverKeeps ==
    /\ UNCHANGED txVars
    /\ bulk' = bulk \/ (bulk # <<>> /\ bulk' = Tail(bulk))
    /\ rx' = rx \/ (rx # "none" /\ rx' # "none")
    /\ tr'.written >= tr.written
    /\ writer = "committed" => writer' = "committed"
    /\ dup' <= tr'.written
    /\ mem' = "completed" => writer' = "committed"

(* It sends nothing, or one or two sound replies. *)
SoundSend ==
    \/ ctl' = ctl
    \/ \E m \in SoundReplies' : Send(<<m>>)
    \/ \E m, n \in SoundReplies' : Send(<<m, n>>)

(* What is left to show of a receiver's action: types, counters, threads,  *)
(* and that what it sends is sound.                                        *)
LEMMA ReceiverAction ==
  ASSUME IInv, UpType', ReceiverTypes', cancels' \in BOOLEAN,
         ReceiverKeeps, SoundSend, CountInv', ReceiverInv'
  PROVE  IInv'
  <1> USE DEF ReceiverKeeps, SoundSend
  <1>1. chunkCount' = chunkCount /\ UNCHANGED spc
    BY DEF txVars
  <1>2. BeginInv'
    BY <1>1, BulkTaken
  <1>3. ctl' \in Seq(SoundReplies')
    BY <1>1, SendSound, Zenon
  <1> QED
    BY <1>2, <1>3, ReceiverStep

(* openIncomingTransfer has a writer, or is refused one. *)
LEMMA OpenReturnsInv == ASSUME IInv, OpenReturns PROVE IInv'
  <1> USE DEF OpenReturns
  <1>1. ReceiverTypes' /\ UpType' /\ cancels' \in BOOLEAN
    BY SMT DEF IInv, Types, ReceiverTypes, TrType, UpType, FlagTypes
  <1>2. wpc = "off" /\ writer = "none"
    BY DEF IInv, ReceiverInv
  <1>3. CountInv' /\ ReceiverInv'
    BY <1>2 DEF IInv, CountInv, ReceiverInv, InHand, txVars
  <1>4. Nack("write") \in SoundReplies'
    BY SoundToSend
  <1> QED
    <2>1. ReceiverKeeps
      BY <1>1, <1>2, <1>3, <1>4, ReceiverFacts, SMT DEF ReceiverKeeps, IInv, ReportInv
    <2>2. SoundSend
      BY <1>1, <1>2, <1>3, <1>4 DEF SoundSend
    <2> QED
      BY <1>1, <1>2, <1>3, <1>4, <2>1, <2>2, ReceiverAction, Zenon

(* The open timeout expires. *)
LEMMA OpenTimesOutInv == ASSUME IInv, OpenTimesOut PROVE IInv'
  <1> USE DEF OpenTimesOut
  <1>1. ReceiverTypes' /\ UpType' /\ cancels' \in BOOLEAN
    BY SMT DEF IInv, Types, ReceiverTypes, TrType, UpType, FlagTypes
  <1>2. CountInv' /\ ReceiverInv'
    BY DEF IInv, CountInv, ReceiverInv, InHand, txVars
  <1>3. Nack("write") \in SoundReplies'
    BY SoundToSend
  <1> QED
    <2>1. ReceiverKeeps
      BY <1>1, <1>2, <1>3, ReceiverFacts, SMT DEF ReceiverKeeps, IInv, ReportInv
    <2>2. SoundSend
      BY <1>1, <1>2, <1>3 DEF SoundSend
    <2> QED
      BY <1>1, <1>2, <1>3, <2>1, <2>2, ReceiverAction, Zenon

(* The handler answers after the open timeout: the writer is aborted. *)
LEMMA OpenReturnsLateInv == ASSUME IInv, OpenReturnsLate PROVE IInv'
  <1> USE DEF OpenReturnsLate
  <1>1. ReceiverTypes' /\ UpType' /\ cancels' \in BOOLEAN
    BY SMT DEF IInv, Types, ReceiverTypes, TrType, UpType, FlagTypes
  <1>2. writer = "none" /\ wpc = "off"
    BY DEF IInv, ReceiverInv
  <1>3. CountInv' /\ ReceiverInv'
    BY <1>2 DEF IInv, CountInv, ReceiverInv, InHand, txVars
  <1> QED
    <2>1. ReceiverKeeps
      BY <1>1, <1>2, <1>3, ReceiverFacts, SMT DEF ReceiverKeeps, IInv, ReportInv
    <2>2. SoundSend
      BY <1>1, <1>2, <1>3 DEF SoundSend
    <2> QED
      BY <1>1, <1>2, <1>3, <2>1, <2>2, ReceiverAction

(* Only flowBlocked may have changed. *)
SameTransfer ==
    UNCHANGED <<tr.accepted, tr.written, tr.queued, tr.accepting, tr.failed, tr.ending>>

(* The window a thread computes, and the frame and mark it makes of it. *)
LEMMA WindowType == ASSUME NEW b \in Nat PROVE WindowOf(b) \in 0 .. ReceiveLimit
  BY BoundAssumption, SMT DEF WindowOf

(* The window sent is never larger than the queue. *)
LEMMA WindowSound ==
  ASSUME IInv, NEW w \in 0 .. ReceiveLimit
  PROVE  WindowFrame(w) \in SoundReplies'
  <1> DEFINE room == IF rx = "open" THEN QueueCap - tr.queued ELSE QueueCap
  <1>1. room \in 0 .. QueueCap
    BY ReceiverFacts, SMT
  <1>2. Min({w, room}) \in 0 .. QueueCap
    <2> HIDE DEF room
    <2> QED
      BY <1>1, BoundAssumption, SMT DEF Min
  <1>3. Window(Min({w, room})) \in SoundReplies'
    <2> HIDE DEF room
    <2> QED
      BY <1>2, SoundToSend
  <1> QED
    BY <1>3 DEF WindowFrame

(* sendIncomingWindow marks the transfer as blocked, or not. *)
LEMMA MarkedFacts ==
  ASSUME IInv, NEW w, tr' = MarkedBy(w)
  PROVE  TrType' /\ SameTransfer
  <1>1. CASE rx = "open"
    <2> DEFINE b == w = 0 \/ tr.queued = QueueCap
    <2>1. b \in BOOLEAN /\ tr' = [tr EXCEPT !.flowBlocked = b]
      BY <1>1 DEF MarkedBy
    <2> HIDE DEF b
    <2> QED
      BY <2>1 DEF SameTransfer, TrType, IInv, Types, ReceiverTypes
  <1>2. CASE rx # "open"
    BY <1>2 DEF MarkedBy, SameTransfer, TrType, IInv, Types, ReceiverTypes
  <1> QED
    BY <1>1, <1>2

(* incomingTransfer.stop *)
LEMMA StoppedFacts ==
  ASSUME IInv, tr' = stopped
  PROVE  /\ TrType'
         /\ tr'.accepted = tr.accepted /\ tr'.written = tr.written
         /\ tr'.queued = tr.queued /\ tr'.ending = tr.ending
         /\ tr'.failed /\ ~tr'.accepting
  BY Zenon DEF stopped, TrType, IInv, Types, ReceiverTypes

(* The goroutine that opened the writer sends the first window. *)
LEMMA OpenerWindowInv == ASSUME IInv, OpenerWindow PROVE IInv'
  <1>1. loaded.opener \in 0 .. ReceiveLimit /\ WindowOf(Buffered) \in 0 .. ReceiveLimit /\ 0 \in 0 .. ReceiveLimit
    BY ReceiverFacts, WindowType, SMT DEF IInv, Types, ReceiverTypes
  <1>2. CASE opc = "window"
    <2> USE <1>2 DEF OpenerWindow
    <2>1. ReceiverTypes' /\ UpType' /\ cancels' \in BOOLEAN
      BY <1>1, SMT DEF IInv, Types, ReceiverTypes, TrType, UpType, FlagTypes
    <2>2. CountInv' /\ ReceiverInv'
      BY Zenon DEF IInv, CountInv, ReceiverInv, InHand, txVars
    <2> QED
      <3>1. ReceiverKeeps
        BY <2>1, <2>2, ReceiverFacts, SMT DEF ReceiverKeeps, IInv, ReportInv
      <3>2. SoundSend
        BY <2>1, <2>2 DEF SoundSend
      <3> QED
        BY <2>1, <2>2, <3>1, <3>2, ReceiverAction
  <1>3. CASE opc = "send" /\ ~WriterClosed
    <2> USE <1>3 DEF OpenerWindow
    <2>1. /\ tr' = MarkedBy(loaded.opener) /\ rx' = rx
      OBVIOUS
    <2>2. TrType' /\ SameTransfer
      BY <2>1, MarkedFacts
    <2>3. ReceiverTypes' /\ UpType' /\ cancels' \in BOOLEAN
      BY <1>1, <2>1, <2>2, SMT DEF IInv, Types, ReceiverTypes, UpType, FlagTypes
    <2>4. CountInv' /\ ReceiverInv'
      BY <2>1, <2>2, ZenonT(30) DEF SameTransfer, IInv, CountInv, ReceiverInv, InHand, txVars
    <2>5. WindowFrame(loaded.opener) \in SoundReplies'
      BY <1>1, WindowSound
    <2> QED
      <3>1. ReceiverKeeps
        BY <2>1, <2>2, <2>3, <2>4, <2>5, ReceiverFacts, SMTT(30)
           DEF ReceiverKeeps, SameTransfer, IInv, ReportInv
      <3>2. SoundSend
        BY <2>1, <2>2, <2>3, <2>4, <2>5 DEF SoundSend
      <3> QED
        BY <2>1, <2>2, <2>3, <2>4, <2>5, <3>1, <3>2, ReceiverAction
  <1>4. CASE opc = "send" /\ WriterClosed
    <2> USE <1>4 DEF OpenerWindow
    <2>1. tr' = stopped /\ rx' = "gone" /\ ctl' = ctl
      BY DEF Send
    <2>2. ReceiverTypes' /\ UpType' /\ cancels' \in BOOLEAN
      BY <1>1, <2>1, StoppedFacts, SMT DEF IInv, Types, ReceiverTypes, UpType, FlagTypes
    <2>3. wpc # "off" /\ rx # "none" /\ rpc \notin {"drain", "commit"}
      BY DEF IInv, ReceiverInv, WriterClosed
    <2>4. CountInv' /\ ReceiverInv'
      BY <2>1, <2>3, ReceiverFacts, StoppedFacts DEF IInv, CountInv, ReceiverInv, InHand, txVars
    <2> QED
      <3>1. ReceiverKeeps
        BY <2>1, <2>2, <2>3, <2>4, StoppedFacts, ReceiverFacts, SMT
           DEF ReceiverKeeps, IInv, ReportInv
      <3>2. SoundSend
        BY <2>1, <2>2, <2>3, <2>4, StoppedFacts DEF SoundSend
      <3> QED
        BY <2>1, <2>2, <2>3, <2>4, StoppedFacts, <3>1, <3>2, ReceiverAction
  <1> QED
    BY <1>2, <1>3, <1>4 DEF OpenerWindow

-----------------------------------------------------------------------------
(* The receiver's read loop. *)

(* cleanupIncoming stops the transfer, if the session still has it. *)
LEMMA DownFacts ==
  ASSUME IInv, ReceiverDown
  PROVE  /\ UpType' /\ TrType'
         /\ rx' = rx \/ (rx # "none" /\ rx' # "none")
         /\ rx' \in {"none", "opening", "late", "open", "gone"}
         /\ UNCHANGED <<tr.accepted, tr.written, tr.queued, tr.ending>>
  <1>1. UpType'
    BY DEF ReceiverDown, IInv, Types, UpType
  <1>2. CASE rx = "open"
    BY <1>1, <1>2, StoppedFacts DEF ReceiverDown
  <1>3. CASE rx # "open"
    BY <1>1, <1>3 DEF ReceiverDown, IInv, Types, ReceiverTypes, TrType
  <1> QED
    BY <1>2, <1>3

(* A session that goes down leaves the transfer's worker to end it. *)
LEMMA DownInv ==
  ASSUME IInv, ReceiverDown, wpc' = wpc, opc' = opc, writer' = writer, chunkCount' = chunkCount,
         rpc = "drain" /\ wpc = "done" => tr.failed, rpc \notin {"commit", "stopped"}
  PROVE  CountInv' /\ ReceiverInv'
  <1>1. CASE rx = "open"
    <2>1. tr' = stopped /\ rx' = "gone" /\ rpc' = "cleaned" /\ up' = up
      BY <1>1 DEF ReceiverDown
    <2> QED
      BY <1>1, <2>1, StoppedFacts, ReceiverFacts DEF IInv, CountInv, ReceiverInv, InHand
  <1>2. CASE rx # "open"
    <2>1. tr' = tr /\ rx' = rx /\ rpc' = "cleaned" /\ up' = up
      BY <1>2 DEF ReceiverDown
    <2> QED
      BY <1>2, <2>1 DEF IInv, CountInv, ReceiverInv, InHand
  <1> QED
    BY <1>1, <1>2

(* Run closes the writer and stores the state after cleanupIncoming: the   *)
(* transfers are left as they are.                                         *)
LEMMA DownEndsInv == ASSUME IInv, CloseWriter \/ SetFailed PROVE IInv'
  <1>1. /\ rpc' \in {"closed", "stopped"}
        /\ UNCHANGED <<txVars, bulk, cancels, ctl, rx, tr, wpc, opc, loaded, writer, mem, others, dup>>
    BY DEF CloseWriter, SetFailed, trVars
  <1>2. UpType' /\ (~up'.rx <=> rpc' = "stopped")
    <2>1. CASE CloseWriter
      BY <2>1 DEF CloseWriter, IInv, Types, UpType, ReceiverInv
    <2>2. CASE SetFailed
      BY <2>2 DEF SetFailed, IInv, Types, UpType
    <2> QED
      BY <2>1, <2>2
  <1>3. ReceiverTypes' /\ cancels' \in BOOLEAN
    <2>1. rpc' \in {"read", "dupAck", "drain", "commit", "cleaned", "closed", "stopped"}
      BY <1>1
    <2>2. TrType' /\ cancels' \in BOOLEAN
      BY <1>1 DEF IInv, Types, ReceiverTypes, TrType, FlagTypes
    <2>3. ReceiverTypes
      BY DEF IInv, Types
    <2> QED
      BY <1>1, <2>1, <2>2, <2>3, SMT DEF ReceiverTypes
  <1>4. rpc \notin {"drain", "commit"}
    BY DEF CloseWriter, SetFailed
  <1>5. CountInv' /\ ReceiverInv'
    BY <1>1, <1>2, <1>4 DEF IInv, CountInv, ReceiverInv, InHand, txVars
  <1> QED
    <2>1. ReceiverKeeps
      BY <1>1, <1>2, <1>3, <1>5, ReceiverFacts, SMT DEF ReceiverKeeps, IInv, ReportInv
    <2>2. SoundSend
      BY <1>1 DEF SoundSend
    <2> QED
      BY <1>1, <1>2, <1>3, <1>5, <2>1, <2>2, ReceiverAction, Zenon

(* The receiver's session finds the connection closed. *)
LEMMA ReceiverDisconnectedInv == ASSUME IInv, ReceiverDisconnected PROVE IInv'
  <1> USE DEF ReceiverDisconnected
  <1>1. ReceiverTypes' /\ UpType' /\ cancels' \in BOOLEAN
    BY DownFacts, SMT DEF ReceiverDown, IInv, Types, ReceiverTypes, FlagTypes
  <1>2. CountInv' /\ ReceiverInv'
    BY DownInv DEF txVars
  <1> QED
    <2>1. ReceiverKeeps
      BY <1>1, <1>2, DownFacts, ReceiverFacts, SMT DEF ReceiverKeeps, IInv, ReportInv
    <2>2. SoundSend
      BY <1>1, <1>2, DownFacts DEF SoundSend
    <2> QED
      BY <1>1, <1>2, DownFacts, <2>1, <2>2, ReceiverAction, Zenon

(* The chunk of a data frame that arrives. *)
LEMMA HeadSound ==
  ASSUME IInv, bulk # <<>>, Head(bulk).type = "data"
  PROVE  /\ Head(bulk).chunk \in Chunks
         /\ Head(bulk).chunk < chunkCount
         /\ Head(bulk).chunk < tr.written + QueueCap
  <1>1. Head(bulk) \in SoundFrames
    BY HeadTail DEF IInv, ChannelInv
  <1> QED
    BY <1>1, SMT DEF SoundFrames, Begin, End, Data

(* A chunk is refused for lack of buffer. *)
LEMMA BlockedFacts ==
  ASSUME IInv, tr' = [tr EXCEPT !.flowBlocked = TRUE]
  PROVE  TrType' /\ SameTransfer
  <1>1. TrType
    BY DEF IInv, Types, ReceiverTypes
  <1>2. TrType'
    BY <1>1, Zenon DEF TrType
  <1>3. SameTransfer
    BY <1>1 DEF TrType, SameTransfer
  <1> QED
    BY <1>2, <1>3

(* A chunk is queued. *)
LEMMA AcceptFacts ==
  ASSUME IInv, AcceptChunk,
         tr.queued + 1 \in 0 .. QueueCap, tr.accepted + 1 \in 0 .. MaxChunks
  PROVE  /\ TrType' /\ tr'.accepted = tr.accepted + 1 /\ tr'.queued = tr.queued + 1
         /\ UNCHANGED <<tr.written, tr.accepting, tr.failed, tr.ending>>
  <1>1. TrType
    BY DEF IInv, Types, ReceiverTypes
  <1>2. TrType'
    BY <1>1, Zenon DEF AcceptChunk, TrType
  <1>3. /\ tr'.accepted = tr.accepted + 1 /\ tr'.queued = tr.queued + 1
        /\ UNCHANGED <<tr.written, tr.accepting, tr.failed, tr.ending>>
    BY <1>1 DEF AcceptChunk, TrType
  <1> QED
    BY <1>2, <1>3

(* handleIncomingTransferData, for a transfer that takes chunks: a         *)
(* duplicate, one that is queued, a gap, a refusal, or the next chunk.     *)
LEMMA ReceiveChunkInv ==
  ASSUME IInv, HandleData, rx = "open", ~tr.failed, tr.accepting,
         NEW c \in Chunks, c < chunkCount, ReceiveChunk(c), UNCHANGED <<up, rx>>
  PROVE  IInv'
  <1> USE DEF HandleData
  <1>0. UpType' /\ cancels' \in BOOLEAN
    BY DEF IInv, Types, UpType, FlagTypes
  <1>1. CASE c < tr.written /\ dup' = tr.written /\ rpc' = "dupAck" /\ UNCHANGED <<ctl, tr>>
    <2>1. ReceiverTypes'
      BY <1>1, ZenonT(30) DEF IInv, Types, ReceiverTypes, TrType
    <2>2. CountInv' /\ ReceiverInv'
      BY <1>1 DEF IInv, CountInv, ReceiverInv, InHand, txVars
    <2> QED
      <3>1. ReceiverKeeps
        BY <1>0, <1>1, <2>1, <2>2, ReceiverFacts, SMT DEF ReceiverKeeps, IInv, ReportInv
      <3>2. SoundSend
        BY <1>0, <1>1, <2>1, <2>2 DEF SoundSend
      <3> QED
        BY <1>0, <1>1, <2>1, <2>2, <3>1, <3>2, ReceiverAction, ZenonT(30)
  <1>2. CASE UNCHANGED <<ctl, tr, rpc, dup>>
    <2>1. ReceiverTypes'
      BY <1>2, ZenonT(30) DEF IInv, Types, ReceiverTypes, TrType
    <2>2. CountInv' /\ ReceiverInv'
      BY <1>2 DEF IInv, CountInv, ReceiverInv, InHand, txVars
    <2> QED
      <3>1. ReceiverKeeps
        BY <1>0, <1>2, <2>1, <2>2, ReceiverFacts, SMT DEF ReceiverKeeps, IInv, ReportInv
      <3>2. SoundSend
        BY <1>0, <1>2, <2>1, <2>2 DEF SoundSend
      <3> QED
        BY <1>0, <1>2, <2>1, <2>2, <3>1, <3>2, ReceiverAction
  <1>3. CASE c > tr.accepted /\ Send(<<Missing(tr.accepted, c - 1)>>) /\ UNCHANGED <<tr, rpc, dup>>
    <2>1. ReceiverTypes'
      BY <1>3, ZenonT(30) DEF IInv, Types, ReceiverTypes, TrType
    <2>2. CountInv' /\ ReceiverInv'
      BY <1>3 DEF IInv, CountInv, ReceiverInv, InHand, txVars
    <2>3. Missing(tr.accepted, c - 1) \in SoundReplies'
      <3>1. tr.accepted \in Chunks /\ c - 1 \in Chunks
        BY <1>3, ReceiverFacts, SMTT(30) DEF Chunks
      <3> QED
        BY <3>1, SoundToSend
    <2> QED
      <3>1. ReceiverKeeps
        BY <1>0, <1>3, <2>1, <2>2, <2>3, ReceiverFacts, SMT DEF ReceiverKeeps, IInv, ReportInv
      <3>2. SoundSend
        BY <1>0, <1>3, <2>1, <2>2, <2>3 DEF SoundSend
      <3> QED
        BY <1>0, <1>3, <2>1, <2>2, <2>3, <3>1, <3>2, ReceiverAction
  <1>4. CASE tr' = [tr EXCEPT !.flowBlocked = TRUE] /\ Send(<<Nack("flow")>>) /\ UNCHANGED <<rpc, dup>>
    <2>0. TrType' /\ SameTransfer
      BY <1>4, BlockedFacts
    <2>1. ReceiverTypes'
      BY <1>4, <2>0 DEF IInv, Types, ReceiverTypes
    <2>2. CountInv' /\ ReceiverInv'
      BY <1>4, <2>0 DEF SameTransfer, IInv, CountInv, ReceiverInv, InHand, txVars
    <2>3. Nack("flow") \in SoundReplies'
      BY SoundToSend
    <2> QED
      <3>1. ReceiverKeeps
        BY <1>0, <1>4, <2>0, <2>1, <2>2, <2>3, ReceiverFacts, SMTT(30)
           DEF ReceiverKeeps, SameTransfer, IInv, ReportInv
      <3>2. SoundSend
        BY <1>0, <1>4, <2>0, <2>1, <2>2, <2>3 DEF SoundSend
      <3> QED
        BY <1>0, <1>4, <2>0, <2>1, <2>2, <2>3, <3>1, <3>2, ReceiverAction, ZenonT(30)
  <1>5. CASE c = tr.accepted /\ tr.queued # QueueCap /\ AcceptChunk /\ UNCHANGED <<rpc, dup>>
    <2>1. tr.queued + 1 \in 0 .. QueueCap /\ tr.accepted + 1 \in 0 .. MaxChunks
      <3> HIDE DEF HandleData
      <3> QED
        BY <1>5, ReceiverFacts, SMT
    <2>2. /\ TrType' /\ tr'.accepted = tr.accepted + 1 /\ tr'.queued = tr.queued + 1
          /\ UNCHANGED <<tr.written, tr.accepting, tr.failed, tr.ending>>
      BY <1>5, <2>1, AcceptFacts, Zenon
    <2>3. ReceiverTypes'
      BY <1>5, <2>2 DEF IInv, Types, ReceiverTypes
    <2>4. CountInv'
      <3>1. CountInv /\ UNCHANGED <<chunkCount, InHand>>
        BY DEF IInv, InHand, txVars
      <3> HIDE DEF HandleData
      <3>2. InHand \in 0 .. 1 /\ tr.accepted + 1 <= chunkCount
        BY <1>5, ReceiverFacts, SMT
      <3> QED
        BY <2>2, <3>1, <3>2, ReceiverFacts, SMT DEF CountInv
    <2>5. wpc # "off" /\ wpc # "done" /\ writer = "open" /\ ~tr.ending
      BY DEF IInv, ReceiverInv
    <2>6. ReceiverInv'
      BY <1>5, <2>2, <2>5 DEF IInv, ReceiverInv, txVars
    <2> QED
      <3>1. ReceiverKeeps
        BY <1>0, <1>5, <2>2, <2>3, <2>4, <2>6, ReceiverFacts, SMTT(30)
           DEF ReceiverKeeps, AcceptChunk, IInv, ReportInv
      <3>2. SoundSend
        BY <1>0, <1>5 DEF SoundSend, AcceptChunk
      <3> QED
        BY <1>0, <1>5, <2>2, <2>3, <2>4, <2>6, <3>1, <3>2, ReceiverAction, ZenonT(30)
  <1> QED
    BY <1>1, <1>2, <1>3, <1>4, <1>5 DEF ReceiveChunk

(* handleIncomingTransferData *)
LEMMA HandleDataInv == ASSUME IInv, HandleData PROVE IInv'
  <1> USE DEF HandleData
  <1>1. CASE /\ UNCHANGED <<up, rx, tr, rpc, dup>>
             /\ \E r \in {"unknown", "canceled"} : Send(<<Nack(r)>>)
    <2>1. ReceiverTypes' /\ UpType' /\ cancels' \in BOOLEAN
      BY <1>1, SMT DEF IInv, Types, ReceiverTypes, TrType, UpType, FlagTypes
    <2>2. CountInv' /\ ReceiverInv'
      BY <1>1 DEF IInv, CountInv, ReceiverInv, InHand, txVars
    <2>3. \E m \in SoundReplies' : Send(<<m>>)
      BY <1>1, SoundToSend
    <2> QED
      <3>1. ReceiverKeeps
        BY <1>1, <2>1, <2>2, <2>3, ReceiverFacts, SMT DEF ReceiverKeeps, IInv, ReportInv
      <3>2. SoundSend
        BY <1>1, <2>1, <2>2, <2>3 DEF SoundSend
      <3> QED
        BY <1>1, <2>1, <2>2, <2>3, <3>1, <3>2, ReceiverAction, ZenonT(30)
  <1>2. CASE rx = "open" /\ tr.failed /\ ReceiverDown /\ UNCHANGED <<ctl, dup>>
    <2>1. ReceiverTypes' /\ UpType' /\ cancels' \in BOOLEAN
      BY <1>2, DownFacts, SMT DEF ReceiverDown, IInv, Types, ReceiverTypes, FlagTypes
    <2>2. CountInv' /\ ReceiverInv'
      BY <1>2, DownInv DEF txVars
    <2> QED
      <3>1. ReceiverKeeps
        BY <1>2, <2>1, <2>2, DownFacts, ReceiverFacts, SMT DEF ReceiverKeeps, IInv, ReportInv
      <3>2. SoundSend
        BY <1>2, <2>1, <2>2, DownFacts DEF SoundSend
      <3> QED
        BY <1>2, <2>1, <2>2, DownFacts, <3>1, <3>2, ReceiverAction, ZenonT(30)
  <1>3. CASE /\ rx = "open" /\ ~tr.failed /\ tr.accepting
             /\ ReceiveChunk(Head(bulk).chunk) /\ UNCHANGED <<up, rx>>
    BY <1>3, HeadSound, ReceiveChunkInv
  <1> QED
    BY <1>1, <1>2, <1>3

(* The ack of a duplicate carries a counter that was read earlier and may  *)
(* only have grown since.                                                  *)
LEMMA AckDuplicateInv == ASSUME IInv, AckDuplicate PROVE IInv'
  <1> USE DEF AckDuplicate, trVars
  <1>1. ReceiverTypes' /\ UpType' /\ cancels' \in BOOLEAN
    BY ReceiverFacts, SMT DEF IInv, Types, ReceiverTypes, TrType, UpType, FlagTypes
  <1>2. CountInv' /\ ReceiverInv'
    BY DEF IInv, CountInv, ReceiverInv, InHand, txVars
  <1>3. Ack(dup) \in SoundReplies'
    <2>1. dup \in 0 .. MaxChunks /\ dup <= tr'.written
      BY ReceiverFacts, SMT
    <2> QED
      BY <2>1, SoundToSend
  <1> QED
    <2>1. ReceiverKeeps
      BY <1>1, <1>2, <1>3, ReceiverFacts, SMT DEF ReceiverKeeps, IInv, ReportInv
    <2>2. SoundSend
      BY <1>1, <1>2, <1>3 DEF SoundSend
    <2> QED
      BY <1>1, <1>2, <1>3, <2>1, <2>2, ReceiverAction, Zenon

-----------------------------------------------------------------------------
(* The receiver ends, commits or cancels the transfer; its worker writes.  *)

(* The transfer takes no more chunks. *)
LEMMA EndingFacts ==
  ASSUME IInv, tr' = [tr EXCEPT !.ending = TRUE, !.accepting = FALSE]
  PROVE  /\ TrType' /\ tr'.ending /\ ~tr'.accepting
         /\ UNCHANGED <<tr.accepted, tr.written, tr.queued, tr.failed>>
  <1>1. TrType
    BY DEF IInv, Types, ReceiverTypes
  <1>2. TrType'
    BY <1>1, Zenon DEF TrType
  <1>3. /\ tr'.ending = TRUE /\ tr'.accepting = FALSE
        /\ UNCHANGED <<tr.accepted, tr.written, tr.queued, tr.failed>>
    BY <1>1 DEF TrType
  <1> QED
    BY <1>2, <1>3

(* handleIncomingTransferEnd, up to the wait for the worker: what is       *)
(* remembered of an ended transfer is repeated.                            *)
LEMMA HandleEndInv == ASSUME IInv, HandleEnd PROVE IInv'
  <1> USE DEF HandleEnd
  <1>1. UpType' /\ cancels' \in BOOLEAN
    BY DEF IInv, Types, UpType, FlagTypes
  <1>2. CASE /\ UNCHANGED <<tr, rpc>>
             /\ \/ Send(<<IF mem = "none" THEN Nack("unknown") ELSE State(mem)>>)
                \/ tr.accepted < chunkCount /\ Send(<<Missing(tr.accepted, chunkCount - 1)>>)
    <2>1. ReceiverTypes'
      BY <1>2, SMT DEF IInv, Types, ReceiverTypes, TrType
    <2>2. CountInv' /\ ReceiverInv'
      BY <1>2 DEF IInv, CountInv, ReceiverInv, InHand, txVars
    <2>3. (IF mem = "none" THEN Nack("unknown") ELSE State(mem)) \in SoundReplies'
      <3>1. mem \in {"none", "completed", "failed"} /\ (mem = "completed" => writer' = "committed")
        BY DEF IInv, Types, ReceiverTypes, ReportInv
      <3> QED
        BY <3>1, SoundToSend
    <2>4. tr.accepted < chunkCount => Missing(tr.accepted, chunkCount - 1) \in SoundReplies'
      <3>1. tr.accepted < chunkCount => tr.accepted \in Chunks /\ chunkCount - 1 \in Chunks
        BY ReceiverFacts, SMTT(30) DEF Chunks
      <3> QED
        BY <3>1, SoundToSend
    <2>5. \E m \in SoundReplies' : Send(<<m>>)
      BY <1>2, <2>3, <2>4
    <2> QED
      <3>1. ReceiverKeeps
        BY <1>1, <1>2, <2>1, <2>2, <2>5, ReceiverFacts, SMT DEF ReceiverKeeps, IInv, ReportInv
      <3>2. SoundSend
        BY <1>1, <1>2, <2>1, <2>2, <2>5 DEF SoundSend
      <3> QED
        BY <1>1, <1>2, <2>1, <2>2, <2>5, <3>1, <3>2, ReceiverAction, ZenonT(30)
  <1>3. CASE /\ rx = "open" /\ tr.accepted = chunkCount /\ ~tr.ending
             /\ tr' = [tr EXCEPT !.ending = TRUE, !.accepting = FALSE]
             /\ rpc' = "drain" /\ UNCHANGED ctl
    <2>1. ReceiverTypes'
      BY <1>3, EndingFacts, ZenonT(30) DEF IInv, Types, ReceiverTypes
    <2>2. CountInv'
      BY <1>3, EndingFacts DEF IInv, CountInv, InHand, txVars
    <2>3. ReceiverInv'
      BY <1>3, EndingFacts DEF IInv, ReceiverInv, txVars
    <2> QED
      <3>1. ReceiverKeeps
        BY <1>1, <1>3, <2>1, <2>2, <2>3, EndingFacts, ReceiverFacts, SMTT(30)
           DEF ReceiverKeeps, IInv, ReportInv
      <3>2. SoundSend
        BY <1>1, <1>3, <2>1, <2>2, <2>3, EndingFacts DEF SoundSend
      <3> QED
        BY <1>1, <1>3, <2>1, <2>2, <2>3, EndingFacts, <3>1, <3>2, ReceiverAction
  <1> QED
    BY <1>2, <1>3

(* The two frames that report a failed end are sound. *)
LEMMA EndSends ==
  ASSUME NEW reason \in {"write", "invalid"}, EndFails(reason)
  PROVE  \E m, n \in SoundReplies' : Send(<<m, n>>)
  <1>1. State("failed") \in SoundReplies' /\ Nack(reason) \in SoundReplies'
    BY SoundToSend
  <1> QED
    BY <1>1 DEF EndFails

(* handleIncomingTransferEnd, after the wait for the worker. *)
LEMMA EndDrainedInv == ASSUME IInv, EndDrained PROVE IInv'
  <1> USE DEF EndDrained
  <1>0. cancels' \in BOOLEAN /\ rx = "open" /\ rpc = "drain"
    BY DEF IInv, Types, FlagTypes, ReceiverInv
  <1>1. CASE wpc = "done" /\ tr.failed /\ EndFails("write") /\ UNCHANGED <<up, tr, writer>>
    <2>1. ReceiverTypes' /\ UpType'
      BY <1>1, ZenonT(30) DEF EndFails, IInv, Types, ReceiverTypes, TrType, UpType
    <2>2. CountInv' /\ ReceiverInv'
      BY <1>0, <1>1 DEF EndFails, IInv, CountInv, ReceiverInv, InHand, txVars
    <2>3. \E m, n \in SoundReplies' : Send(<<m, n>>)
      BY <1>1, EndSends
    <2> QED
      <3>1. ReceiverKeeps
        BY <1>0, <1>1, <2>1, <2>2, <2>3, ReceiverFacts, SMTT(30)
           DEF ReceiverKeeps, EndFails, IInv, ReportInv
      <3>2. SoundSend
        BY <1>0, <1>1, <2>1, <2>2, <2>3 DEF SoundSend, EndFails
      <3> QED
        BY <1>0, <1>1, <2>1, <2>2, <2>3, <3>1, <3>2, ReceiverAction, ZenonT(30)
  <1>2. CASE /\ wpc = "done" /\ ~tr.failed /\ rpc' = "commit"
             /\ UNCHANGED <<up, ctl, rx, tr, mem, writer>>
    <2>1. ReceiverTypes' /\ UpType'
      BY <1>2, SMT DEF IInv, Types, ReceiverTypes, TrType, UpType
    <2>2. CountInv' /\ ReceiverInv'
      BY <1>0, <1>2 DEF IInv, CountInv, ReceiverInv, InHand, txVars
    <2> QED
      <3>1. ReceiverKeeps
        BY <1>0, <1>2, <2>1, <2>2, ReceiverFacts, SMT DEF ReceiverKeeps, IInv, ReportInv
      <3>2. SoundSend
        BY <1>0, <1>2, <2>1, <2>2 DEF SoundSend
      <3> QED
        BY <1>0, <1>2, <2>1, <2>2, <3>1, <3>2, ReceiverAction
  <1>3. CASE /\ wpc = "done" /\ ~tr.failed /\ EndFails("invalid") /\ writer' = "aborted"
             /\ UNCHANGED <<up, tr>>
    <2>1. ReceiverTypes' /\ UpType'
      BY <1>3 DEF EndFails, IInv, Types, ReceiverTypes, TrType, UpType
    <2>2. writer = "open"
      BY <1>0, <1>3 DEF IInv, ReceiverInv
    <2>3. CountInv' /\ ReceiverInv'
      BY <1>0, <1>3, <2>2 DEF EndFails, IInv, CountInv, ReceiverInv, InHand, txVars
    <2>4. \E m, n \in SoundReplies' : Send(<<m, n>>)
      BY <1>3, EndSends, Zenon
    <2> QED
      <3>1. ReceiverKeeps
        BY <1>0, <1>3, <2>1, <2>2, <2>3, <2>4, ReceiverFacts, SMTT(30)
           DEF ReceiverKeeps, EndFails, IInv, ReportInv
      <3>2. SoundSend
        BY <1>0, <1>3, <2>1, <2>2, <2>3, <2>4 DEF SoundSend, EndFails
      <3> QED
        BY <1>0, <1>3, <2>1, <2>2, <2>3, <2>4, <3>1, <3>2, ReceiverAction, ZenonT(30)
  <1>4. CASE wpc # "done" /\ tr.failed /\ mem' = "failed" /\ ReceiverDown /\ UNCHANGED <<ctl, writer>>
    <2>1. ReceiverTypes' /\ UpType'
      BY <1>4, DownFacts, ZenonT(30) DEF ReceiverDown, IInv, Types, ReceiverTypes
    <2>2. CountInv' /\ ReceiverInv'
      BY <1>0, <1>4, DownInv DEF txVars
    <2> QED
      <3>1. ReceiverKeeps
        BY <1>0, <1>4, <2>1, <2>2, DownFacts, ReceiverFacts, SMTT(30)
           DEF ReceiverKeeps, IInv, ReportInv
      <3>2. SoundSend
        BY <1>0, <1>4, <2>1, <2>2, DownFacts DEF SoundSend
      <3> QED
        BY <1>0, <1>4, <2>1, <2>2, DownFacts, <3>1, <3>2, ReceiverAction, ZenonT(30)
  <1> QED
    BY <1>1, <1>2, <1>3, <1>4

(* handleIncomingTransferEnd closes the writer: every chunk is written,    *)
(* since the worker is done and the transfer has not failed.               *)
LEMMA CommitInv == ASSUME IInv, Commit PROVE IInv'
  <1> USE DEF Commit
  <1>0. /\ cancels' \in BOOLEAN /\ UpType' /\ rx = "open" /\ tr.ending /\ ~tr.failed
        /\ wpc = "done" /\ writer = "open" /\ ~tr.accepting /\ tr.written = chunkCount
    <2>1. /\ rx = "open" /\ tr.ending /\ ~tr.failed /\ wpc = "done" /\ writer = "open"
          /\ ~tr.accepting /\ tr.queued = 0 /\ tr.accepted = chunkCount
      BY DEF IInv, ReceiverInv
    <2>2. tr.written = chunkCount
      BY <2>1, ReceiverFacts, SMT DEF IInv, CountInv, InHand
    <2>3. cancels' \in BOOLEAN /\ UpType'
      BY DEF IInv, Types, FlagTypes, UpType
    <2> QED
      BY <2>1, <2>2, <2>3
  <1>1. CASE /\ writer' = "committed" /\ rx' = "gone" /\ mem' = "completed" /\ rpc' = "read"
             /\ Send(<<State("completed")>>) /\ UNCHANGED tr
    <2>1. ReceiverTypes'
      BY <1>1, ZenonT(30) DEF IInv, Types, ReceiverTypes, TrType
    <2>2. CountInv' /\ ReceiverInv'
      BY <1>0, <1>1 DEF IInv, CountInv, ReceiverInv, InHand, txVars
    <2>3. State("completed") \in SoundReplies'
      BY <1>1, SoundToSend
    <2> QED
      <3>1. ReceiverKeeps
        BY <1>0, <1>1, <2>1, <2>2, <2>3, ReceiverFacts, SMTT(30)
           DEF ReceiverKeeps, IInv, ReportInv
      <3>2. SoundSend
        BY <1>0, <1>1, <2>1, <2>2, <2>3 DEF SoundSend
      <3> QED
        BY <1>0, <1>1, <2>1, <2>2, <2>3, <3>1, <3>2, ReceiverAction, ZenonT(30)
  <1>2. CASE writer' = "closeFailed" /\ EndFails("write") /\ UNCHANGED tr
    <2>1. ReceiverTypes'
      BY <1>2, ZenonT(30) DEF EndFails, IInv, Types, ReceiverTypes, TrType
    <2>2. CountInv' /\ ReceiverInv'
      BY <1>0, <1>2 DEF EndFails, IInv, CountInv, ReceiverInv, InHand, txVars
    <2>3. \E m, n \in SoundReplies' : Send(<<m, n>>)
      BY <1>2, EndSends
    <2> QED
      <3>1. ReceiverKeeps
        BY <1>0, <1>2, <2>1, <2>2, <2>3, ReceiverFacts, SMTT(30)
           DEF ReceiverKeeps, EndFails, IInv, ReportInv
      <3>2. SoundSend
        BY <1>0, <1>2, <2>1, <2>2, <2>3 DEF SoundSend, EndFails
      <3> QED
        BY <1>0, <1>2, <2>1, <2>2, <2>3, <3>1, <3>2, ReceiverAction, Zenon
  <1>3. CASE /\ writer' = "closing" /\ tr' = [tr EXCEPT !.failed = TRUE]
             /\ mem' = "failed" /\ rpc' = "read"
             /\ Send(<<State("failed"), Nack("write")>>) /\ UNCHANGED rx
    <2>1. /\ TrType' /\ tr'.failed
          /\ UNCHANGED <<tr.accepted, tr.written, tr.queued, tr.accepting, tr.ending>>
      <3>1. TrType /\ tr' = [tr EXCEPT !.failed = TRUE]
        BY <1>3 DEF IInv, Types, ReceiverTypes
      <3> QED
        BY <3>1, Zenon DEF TrType
    <2>2. ReceiverTypes'
      BY <1>3, <2>1 DEF IInv, Types, ReceiverTypes
    <2>3. CountInv' /\ ReceiverInv'
      BY <1>0, <1>3, <2>1 DEF IInv, CountInv, ReceiverInv, InHand, txVars
    <2>4. \E m, n \in SoundReplies' : Send(<<m, n>>)
      BY <1>3, SoundToSend
    <2> QED
      <3>1. ReceiverKeeps
        BY <1>0, <1>3, <2>1, <2>2, <2>3, <2>4, ReceiverFacts, SMTT(30)
           DEF ReceiverKeeps, IInv, ReportInv
      <3>2. SoundSend
        BY <1>0, <1>3, <2>1, <2>2, <2>3, <2>4, Zenon DEF SoundSend
      <3> QED
        BY <1>0, <1>3, <2>1, <2>2, <2>3, <2>4, <3>1, <3>2, ReceiverAction
  <1> QED
    BY <1>1, <1>2, <1>3

(* A Close that timed out returns. *)
LEMMA CloseReturnsLateInv == ASSUME IInv, CloseReturnsLate PROVE IInv'
  <1> USE DEF CloseReturnsLate
  <1>1. ReceiverTypes' /\ UpType' /\ cancels' \in BOOLEAN
    BY SMT DEF IInv, Types, ReceiverTypes, TrType, UpType, FlagTypes
  <1>2. rx # "none" /\ wpc = "done" /\ rpc # "commit"
    BY DEF IInv, Types, ReceiverTypes, ReceiverInv
  <1>3. CountInv' /\ ReceiverInv'
    BY <1>2 DEF IInv, CountInv, ReceiverInv, InHand, txVars
  <1> QED
    <2>1. ReceiverKeeps
      BY <1>1, <1>2, <1>3, ReceiverFacts, SMT DEF ReceiverKeeps, IInv, ReportInv
    <2>2. SoundSend
      BY <1>1, <1>2, <1>3 DEF SoundSend
    <2> QED
      BY <1>1, <1>2, <1>3, <2>1, <2>2, ReceiverAction, Zenon

(* handleIncomingCancel *)
LEMMA HandleCancelInv == ASSUME IInv, HandleCancel PROVE IInv'
  <1> USE DEF HandleCancel
  <1>1. UpType' /\ cancels' \in BOOLEAN
    BY Zenon DEF IInv, Types, UpType
  <1>2. CASE rx = "open" /\ rx' = "gone" /\ tr' = stopped
    <2>1. ReceiverTypes'
      BY <1>2, StoppedFacts, ZenonT(30) DEF IInv, Types, ReceiverTypes
    <2>2. CountInv' /\ ReceiverInv'
      BY <1>2, StoppedFacts DEF IInv, CountInv, ReceiverInv, InHand, txVars
    <2> QED
      <3>1. ReceiverKeeps
        BY <1>1, <1>2, <2>1, <2>2, StoppedFacts, ReceiverFacts, SMTT(30)
           DEF ReceiverKeeps, IInv, ReportInv
      <3>2. SoundSend
        BY <1>1, <1>2, <2>1, <2>2, StoppedFacts DEF SoundSend
      <3> QED
        BY <1>1, <1>2, <2>1, <2>2, StoppedFacts, <3>1, <3>2, ReceiverAction, ZenonT(30)
  <1>3. CASE UNCHANGED <<rx, tr>>
    <2>1. ReceiverTypes'
      BY <1>3, SMT DEF IInv, Types, ReceiverTypes, TrType
    <2>2. CountInv' /\ ReceiverInv'
      BY <1>3 DEF IInv, CountInv, ReceiverInv, InHand, txVars
    <2> QED
      <3>1. ReceiverKeeps
        BY <1>1, <1>3, <2>1, <2>2, ReceiverFacts, SMTT(30) DEF ReceiverKeeps, IInv, ReportInv
      <3>2. SoundSend
        BY <1>1, <1>3, <2>1, <2>2, Zenon DEF SoundSend
      <3> QED
        BY <1>1, <1>3, <2>1, <2>2, <3>1, <3>2, ReceiverAction
  <1> QED
    BY <1>2, <1>3

-----------------------------------------------------------------------------
(* The receiver's worker and the other transfers. *)

(* runIncomingTransfer takes a chunk from the queue. *)
LEMMA WorkerTakesInv == ASSUME IInv, WorkerTakes PROVE IInv'
  <1> USE DEF WorkerTakes
  <1>0. UpType' /\ cancels' \in BOOLEAN
    BY DEF IInv, Types, UpType, FlagTypes
  <1>1. tr.queued - 1 \in 0 .. QueueCap
    BY ReceiverFacts, SMT
  <1>2. /\ TrType' /\ tr'.queued = tr.queued - 1
        /\ UNCHANGED <<tr.accepted, tr.written, tr.accepting, tr.failed, tr.ending>>
    <2>1. TrType /\ tr' = [tr EXCEPT !.queued = tr.queued - 1]
      BY DEF IInv, Types, ReceiverTypes
    <2> QED
      BY <1>1, <2>1 DEF TrType
  <1>3. ReceiverTypes'
    BY <1>2, ZenonT(30) DEF IInv, Types, ReceiverTypes
  <1>4. CountInv' /\ ReceiverInv'
    BY <1>2, ReceiverFacts, SMT DEF IInv, CountInv, ReceiverInv, InHand, txVars
  <1> QED
    <2>1. ReceiverKeeps
      BY <1>0, <1>2, <1>3, <1>4, ReceiverFacts, SMTT(30) DEF ReceiverKeeps, IInv, ReportInv
    <2>2. SoundSend
      BY <1>0, <1>2, <1>3, <1>4 DEF SoundSend
    <2> QED
      BY <1>0, <1>2, <1>3, <1>4, <2>1, <2>2, ReceiverAction, Zenon

(* writeIncomingChunk counts the chunk, drops it, or fails. *)
LEMMA WorkerWritesInv == ASSUME IInv, WorkerWrites PROVE IInv'
  <1> USE DEF WorkerWrites
  <1>0. UpType' /\ cancels' \in BOOLEAN /\ writer = "open" /\ rx # "none"
    BY DEF IInv, Types, UpType, FlagTypes, ReceiverInv
  <1>1. CASE ~tr.failed /\ tr' = [tr EXCEPT !.written = @ + 1] /\ wpc' = "ack" /\ UNCHANGED ctl
    <2>1. tr.written + 1 \in 0 .. MaxChunks /\ tr.written + 1 <= tr.accepted
      BY <1>1, ReceiverFacts, SMT DEF IInv, CountInv, InHand
    <2>2. /\ TrType' /\ tr'.written = tr.written + 1
          /\ UNCHANGED <<tr.accepted, tr.queued, tr.accepting, tr.failed, tr.ending>>
      <3>1. TrType /\ tr' = [tr EXCEPT !.written = tr.written + 1]
        BY <1>1 DEF IInv, Types, ReceiverTypes
      <3> QED
        BY <2>1, <3>1 DEF TrType
    <2>3. ReceiverTypes'
      BY <1>1, <2>2, ZenonT(30) DEF IInv, Types, ReceiverTypes
    <2>4. CountInv'
      BY <1>1, <2>1, <2>2, ReceiverFacts, SMT DEF IInv, CountInv, InHand, txVars
    <2>5. ReceiverInv'
      BY <1>0, <1>1, <2>2 DEF IInv, ReceiverInv, txVars
    <2> QED
      <3>1. ReceiverKeeps
        BY <1>0, <1>1, <2>2, <2>3, <2>4, <2>5, ReceiverFacts, SMTT(30)
           DEF ReceiverKeeps, IInv, ReportInv
      <3>2. SoundSend
        BY <1>0, <1>1, <2>2, <2>3, <2>4, <2>5, Zenon DEF SoundSend
      <3> QED
        BY <1>0, <1>1, <2>2, <2>3, <2>4, <2>5, <3>1, <3>2, ReceiverAction, ZenonT(30)
  <1>2. CASE tr.failed /\ wpc' = "idle" /\ UNCHANGED <<tr, ctl>>
    <2>1. ReceiverTypes'
      BY <1>2, SMTT(30) DEF IInv, Types, ReceiverTypes, TrType
    <2>2. CountInv' /\ ReceiverInv'
      BY <1>0, <1>2, ReceiverFacts, SMTT(30) DEF IInv, CountInv, ReceiverInv, InHand, txVars
    <2> QED
      <3>1. ReceiverKeeps
        BY <1>0, <1>2, <2>1, <2>2, ReceiverFacts, SMTT(30) DEF ReceiverKeeps, IInv, ReportInv
      <3>2. SoundSend
        BY <1>0, <1>2, <2>1, <2>2 DEF SoundSend
      <3> QED
        BY <1>0, <1>2, <2>1, <2>2, <3>1, <3>2, ReceiverAction
  <1>3. CASE tr' = stopped /\ Send(<<Nack("write")>>) /\ wpc' = "idle"
    <2>1. ReceiverTypes'
      <3>1. TrType' /\ wpc' = "idle"
        BY <1>3, StoppedFacts
      <3> QED
        BY <3>1, SMTT(30) DEF IInv, Types, ReceiverTypes
    <2>2. CountInv' /\ ReceiverInv'
      BY <1>0, <1>3, StoppedFacts, ReceiverFacts, SMTT(30)
         DEF IInv, CountInv, ReceiverInv, InHand, txVars
    <2>3. Nack("write") \in SoundReplies'
      BY SoundToSend
    <2> QED
      <3>1. ReceiverKeeps
        BY <1>0, <1>3, <2>1, <2>2, <2>3, StoppedFacts, ReceiverFacts, SMTT(30)
           DEF ReceiverKeeps, IInv, ReportInv
      <3>2. SoundSend
        BY <1>0, <1>3, <2>1, <2>2, <2>3, StoppedFacts, Zenon DEF SoundSend
      <3> QED
        BY <1>0, <1>3, <2>1, <2>2, <2>3, StoppedFacts, <3>1, <3>2, ReceiverAction, ZenonT(30)
  <1> QED
    BY <1>1, <1>2, <1>3

(* writeIncomingChunk acknowledges what is written. *)
LEMMA WorkerAcksInv == ASSUME IInv, WorkerAcks PROVE IInv'
  <1> USE DEF WorkerAcks
  <1>1. ReceiverTypes' /\ UpType' /\ cancels' \in BOOLEAN
    BY SMT DEF IInv, Types, ReceiverTypes, TrType, UpType, FlagTypes
  <1>2. CountInv' /\ ReceiverInv'
    BY DEF IInv, CountInv, ReceiverInv, InHand, txVars
  <1>3. Ack(tr.written) \in SoundReplies'
    <2>1. tr.written \in 0 .. MaxChunks /\ tr.written <= tr'.written
      BY ReceiverFacts, SMT
    <2> QED
      BY <2>1, SoundToSend
  <1> QED
    <2>1. ReceiverKeeps
      BY <1>1, <1>2, <1>3, ReceiverFacts, SMT DEF ReceiverKeeps, IInv, ReportInv
    <2>2. SoundSend
      BY <1>1, <1>2, <1>3 DEF SoundSend
    <2> QED
      BY <1>1, <1>2, <1>3, <2>1, <2>2, ReceiverAction, Zenon

(* sendIncomingWindow, called by the worker. *)
LEMMA WorkerWindowInv == ASSUME IInv, WorkerWindow PROVE IInv'
  <1> USE DEF WorkerWindow
  <1>0. UpType' /\ cancels' \in BOOLEAN
    BY DEF IInv, Types, UpType, FlagTypes
  <1>1. loaded.worker \in 0 .. ReceiveLimit /\ WindowOf(Buffered) \in 0 .. ReceiveLimit /\ 0 \in 0 .. ReceiveLimit
    BY ReceiverFacts, WindowType, SMT DEF IInv, Types, ReceiverTypes
  <1>2. CASE wpc = "window"
    <2>1. ReceiverTypes'
      BY <1>1, <1>2, ZenonT(30) DEF IInv, Types, ReceiverTypes, TrType
    <2>2. CountInv' /\ ReceiverInv'
      BY <1>2 DEF IInv, CountInv, ReceiverInv, InHand, txVars
    <2> QED
      <3>1. ReceiverKeeps
        BY <1>0, <1>2, <2>1, <2>2, ReceiverFacts, SMTT(30) DEF ReceiverKeeps, IInv, ReportInv
      <3>2. SoundSend
        BY <1>0, <1>2, <2>1, <2>2 DEF SoundSend
      <3> QED
        BY <1>0, <1>2, <2>1, <2>2, <3>1, <3>2, ReceiverAction, Zenon
  <1>3. CASE wpc = "send"
    <2>1. TrType' /\ SameTransfer
      BY <1>3, MarkedFacts
    <2>2. ReceiverTypes'
      BY <1>1, <1>3, <2>1 DEF IInv, Types, ReceiverTypes
    <2>3. CountInv' /\ ReceiverInv'
      BY <1>3, <2>1 DEF SameTransfer, IInv, CountInv, ReceiverInv, InHand, txVars
    <2>4. WindowFrame(loaded.worker) \in SoundReplies'
      BY <1>1, WindowSound
    <2> QED
      <3>1. ReceiverKeeps
        BY <1>0, <1>3, <2>1, <2>2, <2>3, <2>4, ReceiverFacts, SMTT(30)
           DEF ReceiverKeeps, SameTransfer, IInv, ReportInv
      <3>2. SoundSend
        BY <1>0, <1>3, <2>1, <2>2, <2>3, <2>4, Zenon DEF SoundSend
      <3> QED
        BY <1>0, <1>3, <2>1, <2>2, <2>3, <2>4, <3>1, <3>2, ReceiverAction, ZenonT(30)
  <1> QED
    BY <1>2, <1>3

(* runIncomingTransfer returns, and aborts the writer of a failed          *)
(* transfer.                                                               *)
LEMMA WorkerFinishesInv == ASSUME IInv, WorkerFinishes PROVE IInv'
  <1> USE DEF WorkerFinishes
  <1>1. ReceiverTypes' /\ UpType' /\ cancels' \in BOOLEAN
    BY SMT DEF IInv, Types, ReceiverTypes, TrType, UpType, FlagTypes
  <1>2. writer = "open" /\ rx # "none"
    BY DEF IInv, ReceiverInv
  <1>3. CountInv' /\ ReceiverInv'
    BY <1>2 DEF IInv, CountInv, ReceiverInv, InHand, txVars
  <1> QED
    <2>1. ReceiverKeeps
      BY <1>1, <1>2, <1>3, ReceiverFacts, SMT DEF ReceiverKeeps, IInv, ReportInv
    <2>2. SoundSend
      BY <1>1, <1>2, <1>3 DEF SoundSend
    <2> QED
      BY <1>1, <1>2, <1>3, <2>1, <2>2, ReceiverAction, Zenon

(* Other transfers buffer or drop a chunk; the memory of a completed       *)
(* transfer is evicted.                                                    *)
LEMMA OthersInv == ASSUME IInv, OthersBuffer \/ OthersDrop \/ Evict PROVE IInv'
  <1> USE DEF OthersBuffer, OthersDrop, Evict
  <1>1. ReceiverTypes' /\ UpType' /\ cancels' \in BOOLEAN
    BY BoundAssumption, SMT DEF IInv, Types, ReceiverTypes, TrType, UpType, FlagTypes
  <1>2. CountInv' /\ ReceiverInv'
    BY ZenonT(30) DEF IInv, CountInv, ReceiverInv, InHand, txVars
  <1> QED
    <2>1. ReceiverKeeps
      BY <1>1, <1>2, ReceiverFacts, SMT DEF ReceiverKeeps, IInv, ReportInv
    <2>2. SoundSend
      BY <1>1, <1>2, Zenon DEF SoundSend
    <2> QED
      BY <1>1, <1>2, <2>1, <2>2, ReceiverAction, Zenon

(* Another transfer writes a chunk and reopens the window of this one. *)
LEMMA OthersWriteInv == ASSUME IInv, OthersWrite PROVE IInv'
  <1> DEFINE w == WindowOf(Buffered - 1)
  <1>1. w \in 0 .. ReceiveLimit
    <2>1. Buffered - 1 \in Nat
      BY ReceiverFacts, SMT DEF OthersWrite
    <2> QED
      BY <2>1, WindowType
  <1>2. \/ tr' = MarkedBy(w) /\ Send(<<WindowFrame(w)>>)
        \/ UNCHANGED <<tr, ctl>>
    BY DEF OthersWrite
  <1> HIDE DEF w
  <1>3. TrType' /\ SameTransfer
    <2>1. CASE UNCHANGED tr
      BY <2>1 DEF SameTransfer, TrType, IInv, Types, ReceiverTypes
    <2> QED
      BY <1>2, <2>1, MarkedFacts
  <1>4. others' \in 0 .. MaxOthers /\ UNCHANGED <<txVars, up, bulk, cancels, rx, wpc, rpc, opc, loaded, dup, writer, mem>>
    BY BoundAssumption, SMT DEF OthersWrite, IInv, Types, ReceiverTypes
  <1>5. ReceiverTypes' /\ UpType' /\ cancels' \in BOOLEAN
    BY <1>3, <1>4, SMT DEF IInv, Types, ReceiverTypes, UpType, FlagTypes
  <1>6. CountInv' /\ ReceiverInv'
    BY <1>3, <1>4 DEF SameTransfer, IInv, CountInv, ReceiverInv, InHand, txVars
  <1>7. ctl' = ctl \/ \E m \in SoundReplies' : Send(<<m>>)
    BY <1>1, <1>2, WindowSound, Zenon
  <1> QED
    <2>1. ReceiverKeeps
      BY <1>3, <1>4, <1>5, <1>6, <1>7, ReceiverFacts, SMTT(30)
         DEF ReceiverKeeps, SameTransfer, IInv, ReportInv
    <2>2. SoundSend
      BY <1>3, <1>4, <1>5, <1>6, <1>7 DEF SoundSend
    <2> QED
      BY <1>3, <1>4, <1>5, <1>6, <1>7, <2>1, <2>2, ReceiverAction

-----------------------------------------------------------------------------
(* The sender. *)


(* Facts about the sender's state. *)
LEMMA SenderFacts ==
  ASSUME IInv
  PROVE  /\ next \in Nat /\ chunkCount \in Nat /\ chunkCount <= MaxChunks
         /\ ot.acked \in Nat /\ tr.written \in Nat /\ Sent \in Nat
         /\ MaxInFlight \in Nat /\ MaxInFlight <= QueueCap /\ QueueCap \in Nat
         /\ MaxChunks \in Nat /\ MaxChunks \in Int
         /\ Sent <= chunkCount
  BY BoundAssumption, MaxInFlightType, SMT
  DEF IInv, Types, SenderTypes, ReceiverTypes, TrType, SenderInv, Sent

(* Every chunk the sender may put on the wire is within what the receiver's *)
(* queue can take.                                                          *)
LEMMA SentSound ==
  ASSUME IInv, Registered, NEW c \in 0 .. Sent - 1
  PROVE  Data(c) \in SoundFrames
  <1>1. c \in Chunks /\ c < chunkCount
    BY SenderFacts, SMT DEF Chunks
  <1>2. c < tr.written + QueueCap
    BY SenderFacts, SMTT(30) DEF IInv, SenderInv, ReportInv
  <1> QED
    BY <1>1, <1>2 DEF SoundFrames

(* How many chunks a run of consecutive ones has. *)
LEMMA SizeOfRun ==
  ASSUME NEW a \in Nat, NEW b \in Nat, a <= b
  PROVE  IsFiniteSet(a .. b - 1) /\ Cardinality(a .. b - 1) = b - a
  <1> DEFINE c == b - 1
  <1>1. a \in Int /\ c \in Int
    BY SMT
  <1> HIDE DEF c
  <1>2. IsFiniteSet(a .. c) /\ Cardinality(a .. c) = IF a > c THEN 0 ELSE c - a + 1
    BY <1>1, FS_Interval, Zenon
  <1> QED
    BY <1>2, SMT DEF c

(* The three kinds of bulk frames differ. *)
LEMMA BeginNotData == \A c : Data(c) # Begin /\ End # Begin
  BY DEF Data, Begin, End

(* A step that leaves the bulk channel alone. *)
LEMMA BulkSame ==
  ASSUME IInv, UNCHANGED <<bulk, rx>>, spc' = "begin" => spc = "begin"
  PROVE  bulk' \in Seq(SoundFrames) /\ BeginInv'
  BY DEF IInv, ChannelInv, BeginInv

(* A step that sends a data frame or the end of the transfer. *)
LEMMA BulkAppend ==
  ASSUME IInv, NEW f \in SoundFrames, f # Begin, bulk' = Append(bulk, f), rx' = rx,
         spc' = "begin" => spc = "begin"
  PROVE  bulk' \in Seq(SoundFrames) /\ BeginInv'
  <1>1. bulk \in Seq(SoundFrames)
    BY DEF IInv, ChannelInv
  <1>2. /\ bulk' \in Seq(SoundFrames) /\ Len(bulk') = Len(bulk) + 1 /\ Len(bulk) \in Nat
        /\ \A i \in 1 .. Len(bulk) : bulk'[i] = bulk[i]
        /\ bulk'[Len(bulk) + 1] = f
    BY <1>1, SMT
  <1>3. \A i \in 1 .. Len(bulk') : bulk'[i] = Begin => i \in 1 .. Len(bulk) /\ bulk[i] = Begin
    BY <1>2, SMT
  <1> QED
    BY <1>2, <1>3 DEF IInv, BeginInv, Begin

(* The transfer goroutine unregisters the transfer and reports. *)
LEMMA ReturnInv ==
  ASSUME IInv, Registered, NEW r \in {"ok", "error"}, Return(r), UNCHANGED <<next, chunkCount>>
  PROVE  SenderTypes' /\ SenderInv' /\ UNCHANGED <<ot.acked, ot.completed>>
  <1>1. SenderTypes' /\ UNCHANGED <<ot.acked, ot.completed>>
    BY DEF IInv, Types, SenderTypes, Return
  <1>2. SenderInv'
    BY DEF IInv, SenderInv, Return, Registered
  <1> QED
    BY <1>1, <1>2

(* A broadcast on ot.cond moves the transfer goroutine within its loop. *)
LEMMA WokenInv ==
  ASSUME IInv, spc' = Woken, UNCHANGED <<next, chunkCount, result, ot.acked, ot.pending>>
  PROVE  SenderInv' /\ (spc' = "begin" => spc = "begin")
  BY DEF IInv, SenderInv, Woken, Registered, Sent

-----------------------------------------------------------------------------
(* The transfer goroutine. *)
LEMMA ReturnStep ==
  ASSUME IInv, Registered, NEW r \in {"ok", "error"}, Return(r),
         r = "ok" => writer = "committed",
         UNCHANGED <<chunkCount, next, ctxDone, up, bulk, cancels, ctl, rxVars>>
  PROVE  IInv'
  <1>1. SenderTypes' /\ SenderInv' /\ UNCHANGED <<ot.acked, ot.completed>>
    BY ReturnInv
  <1>2. bulk' \in Seq(SoundFrames) /\ BeginInv'
    BY BulkSame DEF rxVars, trVars, Return
  <1> QED
    BY <1>1, <1>2, SenderStep DEF Return, IInv, Types, UpType, FlagTypes, ReportInv, ChannelInv

(* sendTransfer sends TransferBegin. *)
LEMMA SendBeginInv == ASSUME IInv, SendBegin PROVE IInv'
  <1> USE DEF SendBegin
  <1>1. CASE Return("error") /\ UNCHANGED bulk
    BY <1>1, ReturnStep DEF Registered
  <1>2. CASE bulk' = Append(bulk, Begin) /\ spc' = "chunk" /\ UNCHANGED <<ot, result>>
    <2>1. SenderTypes' /\ SenderInv'
      BY <1>2 DEF IInv, Types, SenderTypes, SenderInv, Sent, Registered
    <2>2. rx = "none" /\ \A n \in 1 .. Len(bulk) : bulk[n] # Begin
      BY DEF IInv, BeginInv
    <2>3. /\ bulk' \in Seq(SoundFrames) /\ Len(bulk') = Len(bulk) + 1 /\ Len(bulk) \in Nat
          /\ \A n \in 1 .. Len(bulk) : bulk'[n] = bulk[n]
      <3>1. bulk \in Seq(SoundFrames) /\ Begin \in SoundFrames
        BY DEF IInv, ChannelInv, SoundFrames
      <3> QED
        BY <1>2, <3>1, SMT
    <2>4. BeginInv'
      <3>1. \A n \in 1 .. Len(bulk') : bulk'[n] = Begin => n = Len(bulk')
        BY <2>2, <2>3, SMT
      <3> QED
        BY <3>1, <2>2, <1>2 DEF BeginInv, rxVars, trVars, Begin
    <2> QED
      BY <1>2, <2>1, <2>3, <2>4, SenderStep, Zenon
         DEF IInv, Types, UpType, FlagTypes, ReportInv, ChannelInv
  <1> QED
    BY <1>1, <1>2

(* A step that moves the transfer goroutine and touches nothing else. *)
LEMMA MoveStep ==
  ASSUME IInv, SenderTypes', SenderInv', spc' # "begin",
         UNCHANGED <<ot.acked, ot.completed, result>>,
         UNCHANGED <<chunkCount, ctxDone, up, bulk, cancels, ctl, rxVars>>
  PROVE  IInv'
  <1>1. bulk' \in Seq(SoundFrames) /\ BeginInv'
    BY BulkSame DEF rxVars, trVars
  <1> QED
    BY <1>1, SenderStep DEF IInv, Types, UpType, FlagTypes, ReportInv, ChannelInv

(* sendTransferBody reads a chunk, or comes to the end of the body. *)
LEMMA NextChunkInv == ASSUME IInv, NextChunk PROVE IInv'
  <1> USE DEF NextChunk
  <1>1. CASE Return("error")
    BY <1>1, ReturnStep DEF Registered
  <1>2. CASE spc' = (IF next = chunkCount THEN "end" ELSE "reserve") /\ UNCHANGED <<ot, result>>
    <2>1. SenderTypes' /\ SenderInv'
      BY <1>2, SenderFacts, SMT DEF IInv, Types, SenderTypes, SenderInv, Sent, Registered
    <2> QED
      BY <1>2, <2>1, MoveStep, ZenonT(30)
  <1> QED
    BY <1>1, <1>2

(* sendReliableChunk reserves the chunk when the window and the chunks in  *)
(* flight allow it: the bound on the chunks in flight is kept here.        *)
LEMMA ReserveChunkInv == ASSUME IInv, ReserveChunk PROVE IInv'
  <1> USE DEF ReserveChunk
  <1>1. CASE Return("error")
    BY <1>1, ReturnStep DEF Registered
  <1>2. CASE spc' = "wait" /\ UNCHANGED <<ot, result>>
    <2>1. SenderTypes' /\ SenderInv'
      BY <1>2, SenderFacts DEF IInv, Types, SenderTypes, SenderInv, Sent, Registered
    <2> QED
      BY <1>2, <2>1, MoveStep
  <1>3. CASE /\ ~MustWait /\ ~ot.failed
             /\ ot' = [ot EXCEPT !.pending = @ \cup {next}, !.window = @ - 1]
             /\ spc' = "transmit" /\ UNCHANGED result
    <2>1. ot.pending = ot.acked .. next - 1 /\ ot.acked <= next /\ next < chunkCount
      BY SenderFacts, SMT DEF IInv, SenderInv, Sent, Registered
    <2>2. Cardinality(ot.pending) = next - ot.acked
      BY <2>1, SenderFacts, SizeOfRun
    <2>3. next - ot.acked < MaxInFlight /\ ot.window # 0
      BY <1>3, <2>1, <2>2, SenderFacts, SMTT(30) DEF MustWait
    <2>4. ot'.pending = ot.acked .. next /\ ot'.acked = ot.acked /\ ot'.completed = ot.completed
      BY <1>3, <2>1, SenderFacts, SMT DEF IInv, Types, SenderTypes
    <2>5. SenderTypes'
      <3>1. ot'.pending \subseteq Chunks
        BY <2>1, <2>4, SenderFacts, SMTT(30) DEF Chunks
      <3>2. ot.window - 1 \in 0 .. QueueCap
        <4>1. ot.window \in 0 .. QueueCap
          BY DEF IInv, Types, SenderTypes
        <4> QED
          BY <2>3, <4>1, SenderFacts, SMTT(30)
      <3> QED
        BY <1>3, <3>1, <3>2 DEF IInv, Types, SenderTypes
    <2>6. SenderInv'
      BY <1>3, <2>1, <2>3, <2>4, SenderFacts, SMTT(30)
         DEF IInv, SenderInv, Sent, Registered, MaxInFlight
    <2> QED
      BY <1>3, <2>4, <2>5, <2>6, MoveStep, Zenon
  <1> QED
    BY <1>1, <1>2, <1>3

(* sendReliableChunk sends the chunk it has reserved. *)
LEMMA TransmitChunkInv == ASSUME IInv, TransmitChunk PROVE IInv'
  <1> USE DEF TransmitChunk
  <1>1. CASE Return("error") /\ UNCHANGED <<bulk, next>>
    BY <1>1, ReturnStep DEF Registered
  <1>2. CASE /\ bulk' = Append(bulk, Data(next)) /\ next' = next + 1
             /\ spc' = "chunk" /\ UNCHANGED <<ot, result>>
    <2>1. SenderTypes' /\ SenderInv'
      BY <1>2, SenderFacts, SMTT(30) DEF IInv, Types, SenderTypes, SenderInv, Sent, Registered
    <2>2. Data(next) \in SoundFrames
      BY SenderFacts, SentSound, SMT DEF Sent, Registered
    <2>3. bulk' \in Seq(SoundFrames) /\ BeginInv'
      BY <1>2, <2>2, BeginNotData, BulkAppend DEF rxVars, trVars
    <2> QED
      BY <1>2, <2>1, <2>3, SenderStep, ZenonT(30)
         DEF IInv, Types, UpType, FlagTypes, ReportInv, ChannelInv
  <1> QED
    BY <1>1, <1>2

(* sendTransfer marks the body as sent. *)
LEMMA FinishSendingInv == ASSUME IInv, FinishSending PROVE IInv'
  <1>1. SenderTypes' /\ SenderInv' /\ UNCHANGED <<ot.acked, ot.completed>>
    BY DEF FinishSending, IInv, Types, SenderTypes, SenderInv, Sent, Registered
  <1> QED
    BY <1>1, MoveStep DEF FinishSending

(* sendTransfer sends TransferEnd. *)
LEMMA SendEndInv == ASSUME IInv, SendEnd PROVE IInv'
  <1> USE DEF SendEnd
  <1>1. CASE Return("error") /\ UNCHANGED bulk
    BY <1>1, ReturnStep DEF Registered
  <1>2. CASE bulk' = Append(bulk, End) /\ spc' = "await" /\ UNCHANGED <<ot, result>>
    <2>1. SenderTypes' /\ SenderInv'
      BY <1>2, SenderFacts DEF IInv, Types, SenderTypes, SenderInv, Sent, Registered
    <2>2. End \in SoundFrames
      BY DEF SoundFrames
    <2>3. bulk' \in Seq(SoundFrames) /\ BeginInv'
      BY <1>2, <2>2, BeginNotData, BulkAppend DEF rxVars, trVars
    <2> QED
      BY <1>2, <2>1, <2>3, SenderStep, Zenon
         DEF IInv, Types, UpType, FlagTypes, ReportInv, ChannelInv
  <1> QED
    BY <1>1, <1>2

(* waitOutgoingAcked returns success only once Completed was received. *)
LEMMA waitOutgoingAckedInv == ASSUME IInv, waitOutgoingAcked PROVE IInv'
  <1> USE DEF waitOutgoingAcked
  <1>1. CASE Return("error")
    BY <1>1, ReturnStep DEF Registered
  <1>2. CASE spc' = "awaitWait" /\ UNCHANGED <<ot, result>>
    <2>1. SenderTypes' /\ SenderInv'
      BY <1>2, SenderFacts DEF IInv, Types, SenderTypes, SenderInv, Sent, Registered
    <2> QED
      BY <1>2, <2>1, MoveStep
  <1>3. CASE ~(ot.pending # {} \/ ~ot.completed) /\ Return("ok")
    <2>1. writer = "committed"
      BY <1>3 DEF IInv, ReportInv
    <2> QED
      BY <1>3, <2>1, ReturnStep DEF Registered
  <1> QED
    BY <1>1, <1>2, <1>3

-----------------------------------------------------------------------------
(* The other threads of the sender. *)
LEMMA SenderDownFacts ==
  ASSUME IInv, SenderDown, UNCHANGED <<chunkCount, next, result>>
  PROVE  /\ SenderTypes' /\ SenderInv' /\ UpType' /\ up'.rx = up.rx
         /\ UNCHANGED <<ot.acked, ot.completed>>
         /\ spc' = "begin" => spc = "begin"
  <1>1. SenderTypes' /\ UNCHANGED <<ot.acked, ot.completed, ot.pending>>
    BY DEF SenderDown, Woken, IInv, Types, SenderTypes
  <1>2. UpType' /\ up'.rx = up.rx
    BY DEF SenderDown, IInv, Types, UpType
  <1> QED
    BY <1>1, <1>2, WokenInv DEF SenderDown

(* The sender's session goes down. *)
LEMMA SenderDisconnectedInv == ASSUME IInv, SenderDisconnected PROVE IInv'
  <1> USE DEF SenderDisconnected
  <1>1. /\ SenderTypes' /\ SenderInv' /\ UpType' /\ up'.rx = up.rx
        /\ UNCHANGED <<ot.acked, ot.completed>>
        /\ spc' = "begin" => spc = "begin"
    BY SenderDownFacts
  <1>2. bulk' \in Seq(SoundFrames) /\ BeginInv'
    BY <1>1, BulkSame DEF rxVars, trVars
  <1> QED
    BY <1>1, <1>2, SenderStep DEF IInv, Types, FlagTypes, ReportInv, ChannelInv

(* An acknowledgement that applyAck accepts removes the chunks below its    *)
(* counter, which becomes the sender's own.                                 *)
LEMMA applyAckFacts ==
  ASSUME IInv, Registered, NEW n \in Nat, n <= tr.written, applyAck(n),
         UNCHANGED <<chunkCount, next, result>>
  PROVE  /\ SenderTypes' /\ SenderInv' /\ UpType' /\ up'.rx = up.rx
         /\ ot'.acked <= tr.written /\ ot'.completed = ot.completed
         /\ spc' = "begin" => spc = "begin"
  <1> DEFINE matched == {c \in ot.pending : c < n}
             acked == ot.acked + Cardinality(matched)
  <1>1. CASE SenderDown
    BY <1>1, SenderDownFacts DEF IInv, ReportInv
  <1>2. CASE /\ ~(n < ot.acked)
             /\ ~(matched # {} /\ n # acked)
             /\ ot' = [ot EXCEPT !.pending = @ \ matched, !.acked = acked]
             /\ spc' = Woken /\ UNCHANGED up
    <2>1. ot.pending = ot.acked .. Sent - 1 /\ ot.acked <= Sent /\ Sent <= ot.acked + MaxInFlight
      BY DEF IInv, SenderInv
    <2>2. Cardinality(matched) \in Nat /\ acked <= Sent /\ (matched = {} => acked = ot.acked)
      <3>1. IsFiniteSet(ot.pending) /\ Cardinality(ot.pending) = Sent - ot.acked
        BY <2>1, SenderFacts, SizeOfRun, Zenon
      <3>2. matched \in SUBSET ot.pending
        OBVIOUS
      <3> HIDE DEF matched
      <3>3. IsFiniteSet(matched) /\ Cardinality(matched) <= Cardinality(ot.pending)
        BY <3>1, <3>2, FS_Subset, Zenon
      <3>4. Cardinality(matched) \in Nat
        BY <3>3, FS_CardinalityType, Zenon
      <3> QED
        <4>1. matched = {} => Cardinality(matched) = 0
          BY FS_EmptySet, Zenon
        <4>2. \A a, s, k \in Nat : k <= s - a => a + k <= s
          BY SMT
        <4>3. Cardinality(matched) <= Sent - ot.acked /\ ot.acked + 0 = ot.acked
          BY <3>1, <3>3, SenderFacts, SMT
        <4> QED
          BY <3>4, <4>1, <4>2, <4>3, SenderFacts, Zenon
    <2>3. ot'.pending = ot.pending \ matched /\ ot'.acked = acked /\ ot'.completed = ot.completed
      BY <1>2 DEF IInv, Types, SenderTypes
    <2>4. acked \in Nat /\ acked <= tr.written /\ ot.acked <= acked
      <3> HIDE DEF matched
      <3> QED
        BY <1>2, <2>2, SenderFacts, SMT DEF IInv, ReportInv
    <2>5. ot'.pending = acked .. Sent - 1
      <3>1. CASE matched = {}
        BY <3>1, <2>1, <2>2, <2>3, Zenon
      <3>2. CASE matched # {}
        <4>1. n = acked
          BY <3>2, <1>2
        <4>2. ot.pending \ matched = {c \in ot.acked .. Sent - 1 : ~(c < acked)}
          BY <4>1, <2>1
        <4> HIDE DEF acked, matched
        <4> QED
          BY <4>2, <2>3, <2>4, SenderFacts, SMTT(30)
      <3> QED
        BY <3>1, <3>2
    <2> HIDE DEF acked
    <2>6. SenderTypes'
      <3>1. ot'.pending \subseteq Chunks
        BY <2>3 DEF IInv, Types, SenderTypes
      <3>2. acked \in 0 .. MaxChunks
        BY <2>2, <2>4, SenderFacts, SMT
      <3> QED
        BY <1>2, <3>1, <3>2 DEF Woken, IInv, Types, SenderTypes
    <2>7. SenderInv'
      <3>1. Sent' = Sent /\ Registered'
        BY <1>2 DEF Woken, Sent, Registered
      <3>2. Sent <= acked + MaxInFlight
        BY <2>1, <2>4, SenderFacts, SMTT(30)
      <3> QED
        BY <1>2, <2>2, <2>3, <2>5, <3>1, <3>2, ZenonT(30)
           DEF Woken, IInv, SenderInv, Registered, MaxInFlight
    <2> QED
      BY <1>2, <2>3, <2>4, <2>6, <2>7, Zenon DEF Woken, IInv, Types, UpType
  <1> QED
    BY <1>1, <1>2 DEF applyAck

(* Chunks that are sent again follow what is already on its way. *)
LEMMA ResendFacts ==
  ASSUME IInv, Registered, NEW again \in SUBSET ot.pending, NEW r \in InSendOrder(again),
         bulk' = bulk \o [i \in DOMAIN r |-> Data(r[i])], UNCHANGED <<rx, spc>>
  PROVE  bulk' \in Seq(SoundFrames) /\ BeginInv'
  <1> DEFINE frames == [i \in DOMAIN r |-> Data(r[i])]
             n == Cardinality(again)
  <1>1. n \in Nat
    <2>1. IsFiniteSet(ot.pending)
      BY SenderFacts, SizeOfRun DEF IInv, SenderInv
    <2>2. IsFiniteSet(again)
      BY <2>1, FS_Subset, Zenon
    <2> QED
      BY <2>2, FS_CardinalityType, Zenon
  <1>2. r \in [1 .. n -> again]
    BY DEF InSendOrder
  <1>3. \A c \in again : Data(c) \in SoundFrames
    <2>1. \A c \in again : c \in 0 .. Sent - 1
      <3>1. \A c \in again : c \in ot.acked .. Sent - 1
        BY Zenon DEF IInv, SenderInv
      <3>2. \A a, s \in Nat : \A c \in a .. s - 1 : c \in 0 .. s - 1
        BY SMT
      <3> QED
        BY <3>1, <3>2, SenderFacts, Zenon
    <2> QED
      BY <2>1, SentSound, Zenon
  <1>4. frames \in Seq(SoundFrames) /\ Len(frames) = n
    <2>1. frames \in [1 .. n -> SoundFrames]
      BY <1>2, <1>3, Zenon
    <2> HIDE DEF frames, n
    <2> QED
      BY <1>1, <2>1, SMT
  <1>5. \A i \in 1 .. n : frames[i] # Begin
    BY <1>2, BeginNotData
  <1>6. bulk \in Seq(SoundFrames)
    BY DEF IInv, ChannelInv
  <1> HIDE DEF frames, n
  <1>7. bulk' = bulk \o frames
    BY DEF frames
  <1>8. /\ bulk' \in Seq(SoundFrames) /\ Len(bulk') = Len(bulk) + n
        /\ \A i \in 1 .. Len(bulk) + n :
              bulk'[i] = IF i <= Len(bulk) THEN bulk[i] ELSE frames[i - Len(bulk)]
    <2>1. /\ bulk \o frames \in Seq(SoundFrames)
          /\ Len(bulk \o frames) = Len(bulk) + Len(frames)
          /\ \A i \in 1 .. Len(bulk) + Len(frames) :
                (bulk \o frames)[i] = IF i <= Len(bulk) THEN bulk[i] ELSE frames[i - Len(bulk)]
      BY <1>4, <1>6, Joined, Zenon
    <2> QED
      BY <1>4, <1>7, <2>1, Zenon
  <1>9. \A i \in 1 .. Len(bulk') : bulk'[i] = Begin => i \in 1 .. Len(bulk) /\ bulk[i] = Begin
    <2> SUFFICES ASSUME NEW i \in 1 .. Len(bulk'), bulk'[i] = Begin
                 PROVE  i \in 1 .. Len(bulk) /\ bulk[i] = Begin
      BY Zenon
    <2>1. Len(bulk) \in Nat /\ i \in 1 .. Len(bulk) + n
      <3>1. Len(bulk) \in Nat
        BY <1>6, SMT
      <3> QED
        BY <1>8, <3>1, Zenon
    <2>2. CASE i <= Len(bulk)
      <3>1. i \in 1 .. Len(bulk)
        BY <1>1, <2>1, <2>2, SMT
      <3> QED
        BY <1>8, <2>1, <2>2, <3>1, Zenon
    <2>3. CASE ~(i <= Len(bulk))
      <3>1. i - Len(bulk) \in 1 .. n
        BY <1>1, <2>1, <2>3, SMT
      <3>2. bulk'[i] = frames[i - Len(bulk)]
        BY <1>8, <2>1, <2>3, Zenon
      <3> QED
        BY <1>5, <3>1, <3>2, Zenon
    <2> QED
      BY <2>2, <2>3, Zenon
  <1> QED
    BY <1>8, <1>9 DEF IInv, BeginInv, Begin

(* applyNack sends again a part of what is pending, or fails. *)
LEMMA applyNackFacts ==
  ASSUME IInv, Registered, NEW m \in Replies, m.type = "nack", applyNack(m),
         UNCHANGED <<chunkCount, next, result, rx>>
  PROVE  /\ SenderTypes' /\ SenderInv' /\ UpType' /\ up'.rx = up.rx
         /\ bulk' \in Seq(SoundFrames) /\ BeginInv'
         /\ UNCHANGED <<ot.acked, ot.completed>>
  <1> DEFINE again == {c \in ot.pending : m.from <= c /\ c <= m.to}
  <1>1. CASE SenderDown /\ UNCHANGED bulk
    BY <1>1, SenderDownFacts, BulkSame
  <1>2. CASE /\ ~ \E c \in again : ot.retries[c] >= RetryLimit
             /\ ot' = [ot EXCEPT !.retries =
                          [c \in Chunks |-> @[c] + IF c \in again THEN 1 ELSE 0]]
             /\ \E r \in InSendOrder(again) : bulk' = bulk \o [i \in DOMAIN r |-> Data(r[i])]
             /\ UNCHANGED <<spc, up>>
    <2>1. again \in SUBSET ot.pending
      OBVIOUS
    <2> HIDE DEF again
    <2>2. bulk' \in Seq(SoundFrames) /\ BeginInv'
      BY <1>2, <2>1, ResendFacts
    <2>3. ot.retries \in [Chunks -> 0 .. RetryLimit] /\ RetryLimit \in Nat
      BY BoundAssumption DEF IInv, Types, SenderTypes
    <2>4. \A c \in Chunks : ot.retries[c] + (IF c \in again THEN 1 ELSE 0) \in 0 .. RetryLimit
      BY <1>2, <2>3, SMT
    <2>5. SenderTypes' /\ UNCHANGED <<ot.acked, ot.completed, ot.pending>>
      BY <1>2, <2>4 DEF IInv, Types, SenderTypes
    <2>6. SenderInv' /\ UpType' /\ up'.rx = up.rx
      BY <1>2, <2>5 DEF IInv, Types, UpType, SenderInv, Sent, Registered
    <2> QED
      BY <2>2, <2>5, <2>6
  <1>3. CASE ot' = [ot EXCEPT !.window = 0] /\ UNCHANGED <<spc, up, bulk>>
    <2>1. SenderTypes' /\ UNCHANGED <<ot.acked, ot.completed, ot.pending>>
      BY <1>3, BoundAssumption, SMT DEF IInv, Types, SenderTypes
    <2>2. SenderInv' /\ UpType' /\ up'.rx = up.rx
      BY <1>3, <2>1 DEF IInv, Types, UpType, SenderInv, Sent, Registered
    <2> QED
      BY <1>3, <2>1, <2>2, BulkSame, Zenon
  <1>4. CASE ot' = [ot EXCEPT !.failed = TRUE] /\ spc' = Woken /\ UNCHANGED <<up, bulk>>
    <2>1. SenderTypes' /\ UNCHANGED <<ot.acked, ot.completed, ot.pending>>
      BY <1>4 DEF Woken, IInv, Types, SenderTypes
    <2>2. UpType' /\ up'.rx = up.rx
      BY <1>4 DEF IInv, Types, UpType
    <2> QED
      BY <1>4, <2>1, <2>2, WokenInv, BulkSame, Zenon
  <1> QED
    BY <1>1, <1>2, <1>3, <1>4 DEF applyNack

(* The sender's read loop takes one frame of the control channel. *)
LEMMA HandleControlInv == ASSUME IInv, HandleControl PROVE IInv'
  <1> DEFINE m == Head(ctl)
  <1>1. m \in SoundReplies /\ ctl' \in Seq(SoundReplies)
    BY SMT DEF HandleControl, IInv, ChannelInv
  <1>2. m \in Replies /\ UNCHANGED <<chunkCount, next, result, rx>>
    BY <1>1 DEF SoundReplies, HandleControl, rxVars, trVars
  <1>3. /\ SenderTypes' /\ SenderInv' /\ UpType' /\ up'.rx = up.rx
        /\ bulk' \in Seq(SoundFrames) /\ BeginInv'
        /\ ot'.acked <= tr.written /\ (ot'.completed => writer = "committed")
    <2>1. CASE ~Registered /\ UNCHANGED <<ot, spc, up, bulk>>
      BY <1>2, <2>1, BulkSame, ZenonT(30)
         DEF IInv, Types, SenderTypes, UpType, SenderInv, Sent, Registered, ReportInv
    <2>2. CASE Registered /\ m.type = "ack" /\ applyAck(m.received) /\ UNCHANGED bulk
      <3>1. m.received \in Nat /\ m.received <= tr.written
        BY <1>1, <2>2, SMT DEF SoundReplies, Replies, Ack, Window, State, Nack, Missing
      <3> HIDE DEF m
      <3> QED
        BY <1>2, <2>2, <3>1, applyAckFacts, BulkSame, ZenonT(30) DEF IInv, ReportInv
    <2>3. CASE Registered /\ m.type = "nack" /\ applyNack(m)
      BY <1>2, <2>3, applyNackFacts DEF IInv, ReportInv
    <2>4. CASE Registered /\ m.type = "state" /\ applyState(m.flag) /\ UNCHANGED <<up, bulk>>
      <3>1. m.flag = "completed" => writer = "committed"
        BY <1>1, <2>4, SMT DEF SoundReplies, Replies, Ack, Window, State, Nack, Missing
      <3> HIDE DEF m
      <3>2. SenderTypes' /\ UNCHANGED <<ot.acked, ot.pending>>
        BY <1>2, <2>4 DEF applyState, Woken, IInv, Types, SenderTypes
      <3>3. ot'.completed => writer = "committed"
        BY <2>4, <3>1 DEF applyState, IInv, Types, SenderTypes, ReportInv
      <3>4. SenderInv' /\ (spc' = "begin" => spc = "begin")
        BY <1>2, <2>4, <3>2, WokenInv DEF applyState
      <3> QED
        BY <1>2, <2>4, <3>2, <3>3, <3>4, BulkSame, ZenonT(30)
           DEF IInv, Types, UpType, ReportInv
    <2>5. CASE Registered /\ m.type = "window" /\ HandleWindow(m.chunks) /\ UNCHANGED <<up, bulk>>
      <3>1. m.chunks \in 0 .. QueueCap
        BY <1>1, <2>5, SMT DEF SoundReplies, Replies, Ack, Window, State, Nack, Missing
      <3> HIDE DEF m
      <3>2. SenderTypes' /\ UNCHANGED <<ot.acked, ot.completed, ot.pending>>
        BY <1>2, <2>5, <3>1 DEF HandleWindow, Woken, IInv, Types, SenderTypes
      <3>3. SenderInv' /\ (spc' = "begin" => spc = "begin")
        BY <1>2, <2>5, <3>2, WokenInv DEF HandleWindow
      <3> QED
        BY <1>2, <2>5, <3>2, <3>3, BulkSame, ZenonT(30) DEF IInv, Types, UpType, ReportInv
    <2> QED
      BY <2>1, <2>2, <2>3, <2>4, <2>5, ZenonT(30) DEF HandleControl
  <1> QED
    BY <1>1, <1>3, SenderStep DEF HandleControl, IInv, Types, FlagTypes, ReportInv

(* The monitor sends an overdue chunk again, or gives up. *)
LEMMA AckTimeoutInv == ASSUME IInv, NEW c \in Chunks, AckTimeout(c) PROVE IInv'
  <1> USE DEF AckTimeout
  <1>1. SenderTypes' /\ UNCHANGED <<ot.acked, ot.completed, ot.pending>>
    <2>1. CASE ot' = [ot EXCEPT !.failed = TRUE]
      BY <2>1 DEF Woken, IInv, Types, SenderTypes
    <2>2. CASE ot.retries[c] < RetryLimit /\ ot' = [ot EXCEPT !.retries[c] = @ + 1]
      <3>1. ot.retries \in [Chunks -> 0 .. RetryLimit] /\ ot.retries[c] + 1 \in 0 .. RetryLimit
        <4>1. ot.retries \in [Chunks -> 0 .. RetryLimit]
          BY DEF IInv, Types, SenderTypes
        <4>2. ot.retries[c] \in 0 .. RetryLimit
          BY <4>1, Zenon
        <4> QED
          BY <2>2, <4>1, <4>2, BoundAssumption, SMTT(30)
      <3> QED
        BY <2>2, <3>1 DEF Woken, IInv, Types, SenderTypes
    <2> QED
      BY <2>1, <2>2
  <1>2. SenderInv' /\ (spc' = "begin" => spc = "begin")
    BY <1>1, WokenInv
  <1>3. bulk' \in Seq(SoundFrames) /\ BeginInv'
    <2>1. c \in 0 .. Sent - 1
      <3>1. c \in ot.acked .. Sent - 1
        BY Zenon DEF IInv, SenderInv
      <3>2. \A a, s \in Nat : \A k \in a .. s - 1 : k \in 0 .. s - 1
        BY SMT
      <3> QED
        BY <3>1, <3>2, SenderFacts, Zenon
    <2>2. Data(c) \in SoundFrames
      BY <2>1, SentSound
    <2> QED
      BY <1>2, <2>2, BeginNotData, BulkAppend, BulkSame DEF rxVars, trVars
  <1> QED
    BY <1>1, <1>2, <1>3, SenderStep, Zenon
       DEF IInv, Types, UpType, FlagTypes, ReportInv, ChannelInv

(* The monitor sends TransferEnd again, or gives up. *)
LEMMA CommitTimeoutInv == ASSUME IInv, CommitTimeout PROVE IInv'
  <1> USE DEF CommitTimeout
  <1>1. SenderTypes' /\ UNCHANGED <<ot.acked, ot.completed, ot.pending>>
    <2>1. CASE ot' = [ot EXCEPT !.failed = TRUE]
      BY <2>1 DEF Woken, IInv, Types, SenderTypes
    <2>2. CASE ot.commitRetries < RetryLimit /\ ot' = [ot EXCEPT !.commitRetries = @ + 1]
      <3>1. ot.commitRetries + 1 \in 0 .. RetryLimit
        BY <2>2, BoundAssumption, SMTT(30) DEF IInv, Types, SenderTypes
      <3> QED
        BY <2>2, <3>1 DEF Woken, IInv, Types, SenderTypes
    <2> QED
      BY <2>1, <2>2
  <1>2. SenderInv' /\ (spc' = "begin" => spc = "begin")
    BY <1>1, WokenInv
  <1>3. bulk' \in Seq(SoundFrames) /\ BeginInv'
    <2>1. End \in SoundFrames
      BY DEF SoundFrames
    <2> QED
      BY <1>2, <2>1, BeginNotData, BulkAppend, BulkSame DEF rxVars, trVars
  <1> QED
    BY <1>1, <1>2, <1>3, SenderStep DEF IInv, Types, UpType, FlagTypes, ReportInv, ChannelInv

(* Cancel, and the end of the caller's context. *)
LEMMA CancelInv == ASSUME IInv, Cancel \/ ContextEnds PROVE IInv'
  <1> USE DEF Cancel, ContextEnds
  <1>1. SenderTypes' /\ UNCHANGED <<ot.acked, ot.completed, ot.pending>>
    BY DEF Woken, IInv, Types, SenderTypes
  <1>2. SenderInv' /\ (spc' = "begin" => spc = "begin")
    BY <1>1, WokenInv
  <1>3. bulk' \in Seq(SoundFrames) /\ BeginInv'
    BY <1>2, BulkSame DEF rxVars, trVars
  <1>4. FlagTypes'
    <2>1. up.tx \in BOOLEAN
      BY DEF IInv, Types, UpType
    <2> QED
      BY <2>1, Zenon DEF IInv, Types, FlagTypes
  <1> QED
    BY <1>1, <1>2, <1>3, <1>4, SenderStep, ZenonT(30) DEF IInv, Types, UpType, ReportInv, ChannelInv

-----------------------------------------------------------------------------
(* Every step preserves the invariant. *)
LEMMA NextInv == IInv /\ [Next]_vars => IInv'
  <1> SUFFICES ASSUME IInv, [Next]_vars PROVE IInv'
    OBVIOUS
  <1>1. CASE Sender
    BY <1>1, SendBeginInv, NextChunkInv, ReserveChunkInv, TransmitChunkInv, FinishSendingInv,
       SendEndInv, waitOutgoingAckedInv, ZenonT(30) DEF Sender
  <1>2. CASE Monitor
    BY <1>2, CommitTimeoutInv, AckTimeoutInv DEF Monitor
  <1>3. CASE HandleControl
    BY <1>3, HandleControlInv
  <1>4. CASE SenderDisconnected \/ ReceiverDisconnected
    BY <1>4, SenderDisconnectedInv, ReceiverDisconnectedInv
  <1>5. CASE Cancel \/ ContextEnds
    BY <1>5, CancelInv
  <1>6. CASE Opener
    BY <1>6, OpenReturnsInv, OpenTimesOutInv, OpenReturnsLateInv, OpenerWindowInv, ZenonT(30)
       DEF Opener
  <1>7. CASE ReadLoop
    BY <1>7, HandleBeginInv, HandleDataInv, AckDuplicateInv, HandleEndInv, EndDrainedInv, CommitInv,
       HandleCancelInv, DownEndsInv DEF ReadLoop
  <1>8. CASE Worker
    BY <1>8, WorkerTakesInv, WorkerWritesInv, WorkerAcksInv, WorkerWindowInv, WorkerFinishesInv, ZenonT(30)
       DEF Worker
  <1>9. CASE CloseReturnsLate
    BY <1>9, CloseReturnsLateInv
  <1>10. CASE Others \/ Evict
    BY <1>10, OthersInv, OthersWriteInv DEF Others
  <1>11. CASE UNCHANGED vars
    <2> USE <1>11 DEF vars, txVars, rxVars, trVars
    <2>1. SenderTypes' /\ ReceiverTypes'
      BY SMT DEF IInv, Types, SenderTypes, ReceiverTypes, TrType
    <2>2. UpType' /\ FlagTypes'
      BY Zenon DEF IInv, Types, UpType, FlagTypes
    <2>3. SenderInv' /\ BeginInv' /\ ReportInv'
      BY DEF IInv, SenderInv, Sent, Registered, BeginInv, ReportInv
    <2>4. ChannelInv'
      BY DEF IInv, ChannelInv, SoundFrames, SoundReplies
    <2>5. CountInv' /\ ReceiverInv'
      BY DEF IInv, CountInv, InHand, ReceiverInv
    <2> QED
      BY <2>1, <2>2, <2>3, <2>4, <2>5, ZenonT(30) DEF IInv, Types
  <1> QED
    BY <1>1, <1>2, <1>3, <1>4, <1>5, <1>6, <1>7, <1>8, <1>9, <1>10, <1>11, ZenonT(30) DEF Next

(* The invariant holds throughout, for any number of chunks, any limits,   *)
(* any set of faults and channels of any length.                           *)
THEOREM Invariance == Spec => []IInv
  BY InitInv, NextInv, PTL DEF Spec

(* The invariant implies each of the properties. *)
LEMMA TypesImplied == IInv => TypeOK
  <1> SUFFICES ASSUME IInv PROVE TypeOK
    OBVIOUS
  <1>1. bulk \in Seq(Frames) /\ ctl \in Seq(Replies)
    <2>1. SoundFrames \subseteq Frames /\ SoundReplies \subseteq Replies
      BY DEF SoundFrames, SoundReplies, Frames
    <2> QED
      BY <2>1, SeqGrows DEF IInv, ChannelInv
  <1> QED
    BY <1>1, Zenon
       DEF IInv, Types, SenderTypes, ReceiverTypes, TrType, UpType, FlagTypes, TypeOK

(* Every counter of outgoingTransfer and incomingTransfer stays within its *)
(* range: the window never wraps below zero, no more chunks are accepted   *)
(* than the transfer has and the queue stays within its capacity.          *)
THEOREM TransferTypes == Spec => []TypeOK
  BY Invariance, TypesImplied, PTL

(* ReportInv and ChannelInv bound every acknowledgement by what is written. *)
LEMMA AckImplied == IInv => AckMeansWritten
  <1> SUFFICES ASSUME IInv PROVE AckMeansWritten
    OBVIOUS
  <1>1. ctl \in Seq(SoundReplies)
    BY DEF IInv, ChannelInv
  <1>2. \A i \in 1 .. Len(ctl) : ctl[i] \in SoundReplies
    BY <1>1, SMTT(30)
  <1> QED
    BY <1>2 DEF AckMeansWritten, SoundReplies, IInv, ReportInv

(* No ack, under way or applied, is for a chunk that writeIncomingChunk    *)
(* has not given to the writer.                                            *)
THEOREM AcksAreHonest == Spec => []AckMeansWritten
  BY Invariance, AckImplied, PTL

(* SenderInv names the pending chunks. *)
LEMMA PendingImplied == IInv => PendingIsSentUnacked
  BY SenderFacts, SMTT(30) DEF PendingIsSentUnacked, IInv, SenderInv, Sent

(* While the transfer runs, ot.pending is exactly what was reserved and    *)
(* not acknowledged: applyAck and the resends of applyNack and the monitor *)
(* lose no chunk.                                                          *)
THEOREM PendingExact == Spec => []PendingIsSentUnacked
  BY Invariance, PendingImplied, PTL

(* SoundFrames keeps every chunk in transit within QueueCap of what is      *)
(* written, CountInv the queue within what is accepted.                     *)
LEMMA RoomImplied == IInv => QueueNeverFull
  <1> SUFFICES ASSUME IInv, bulk # <<>>, Head(bulk).type = "data", tr.accepting,
                      Head(bulk).chunk = tr.accepted
               PROVE  tr.queued < QueueCap
    BY DEF QueueNeverFull
  <1>1. tr.accepted < tr.written + QueueCap
    BY HeadSound
  <1>2. tr.queued + InHand <= tr.accepted - tr.written
    BY DEF IInv, CountInv
  <1>3. \A a, w, q, m \in Nat : \A h \in 0 .. 1 : a < w + m /\ q + h <= a - w => q < m
    BY SMT
  <1> QED
    BY <1>1, <1>2, <1>3, ReceiverFacts, Zenon

(* The receiver's queue has room for the next chunk whenever it arrives:   *)
(* MaxInFlight bounds what is sent above what is written, and windows,     *)
(* however stale, only restrict it further.                                *)
THEOREM QueueHasRoom == Spec => []QueueNeverFull
  BY Invariance, RoomImplied, PTL

(* Run has cleaned up s.incoming, or is past that. *)
CleanedUp == rpc \in {"cleaned", "closed", "stopped"}

(* A transfer accepts nothing before its writer is open, and one that is   *)
(* opened after the cleanup nothing at all: the read loop has ended.       *)
LateInv == /\ wpc = "off" => tr.accepted = 0
           /\ CleanedUp /\ rx = "open" => tr.accepted = 0

(* A step that accepts no chunk, and cleans up only by forgetting the      *)
(* transfer that is open.                                                  *)
LEMMA LateKept ==
  ASSUME LateInv, tr'.accepted = tr.accepted, wpc' = "off" => wpc = "off",
         CleanedUp' /\ rx' = "open" => wpc = "off" \/ (CleanedUp /\ rx = "open")
  PROVE  LateInv'
  BY DEF LateInv

(* No step puts an accepted chunk into a transfer opened after the cleanup. *)
LEMMA NextLate ==
  ASSUME IInv, LateInv, [Next]_vars
  PROVE  LateInv'
  <1>1. CASE Sender \/ Monitor \/ HandleControl \/ SenderDisconnected \/ Cancel \/ ContextEnds
    <2>1. UNCHANGED rxVars
      BY <1>1 DEF Sender, SendBegin, NextChunk, ReserveChunk, TransmitChunk, FinishSending, SendEnd,
                  waitOutgoingAcked, Monitor, AckTimeout, CommitTimeout, HandleControl,
                  SenderDisconnected, Cancel, ContextEnds
    <2> QED
      BY <2>1, LateKept DEF rxVars, trVars, CleanedUp
  <1>2. CASE \/ HandleBegin \/ AckDuplicate \/ CloseWriter \/ SetFailed \/ OpenTimesOut
             \/ WorkerAcks \/ OthersBuffer \/ OthersDrop \/ Evict
    BY <1>2, LateKept
    DEF HandleBegin, AckDuplicate, CloseWriter, SetFailed, OpenTimesOut, WorkerAcks, OthersBuffer,
        OthersDrop, Evict, trVars, CleanedUp
  <1>3. CASE OpenReturns \/ OpenReturnsLate
    <2>1. wpc = "off"
      BY <1>3 DEF OpenReturns, OpenReturnsLate, IInv, ReceiverInv
    <2> QED
      BY <1>3, <2>1, LateKept DEF OpenReturns, OpenReturnsLate
  <1>4. CASE OpenerWindow
    <2>1. tr'.accepted = tr.accepted
      BY <1>4, MarkedFacts, StoppedFacts DEF OpenerWindow, SameTransfer
    <2> QED
      BY <1>4, <2>1, LateKept DEF OpenerWindow, CleanedUp
  <1>5. CASE ReceiverDisconnected \/ EndDrained \/ HandleCancel
    <2>1. tr'.accepted = tr.accepted
      BY <1>5, DownFacts, StoppedFacts DEF ReceiverDisconnected, EndDrained, HandleCancel
    <2>2. CleanedUp' /\ rx' = "open" => CleanedUp /\ rx = "open"
      BY <1>5 DEF ReceiverDisconnected, EndDrained, EndFails, HandleCancel, ReceiverDown, CleanedUp
    <2> QED
      BY <1>5, <2>1, <2>2, LateKept DEF ReceiverDisconnected, EndDrained, HandleCancel
  <1>6. CASE HandleData
    <2>1. wpc' = wpc
      BY <1>6 DEF HandleData
    <2>2. CASE UNCHANGED <<tr, rx>> /\ ~CleanedUp'
      BY <2>1, <2>2, LateKept
    <2>3. CASE ReceiverDown
      <3>1. tr'.accepted = tr.accepted /\ rx' # "open"
        BY <2>3, DownFacts DEF ReceiverDown
      <3> QED
        BY <2>1, <3>1, LateKept
    <2>4. CASE rx = "open" /\ ~CleanedUp'
      <3>1. wpc # "off"
        BY <2>4 DEF IInv, ReceiverInv
      <3> QED
        BY <2>1, <2>4, <3>1 DEF LateInv
    <2> QED
      BY <1>6, <2>2, <2>3, <2>4 DEF HandleData, ReceiveChunk, CleanedUp
  <1>7. CASE HandleEnd
    <2>1. tr'.accepted = tr.accepted
      BY <1>7, EndingFacts DEF HandleEnd
    <2> QED
      BY <1>7, <2>1, LateKept DEF HandleEnd, CleanedUp
  <1>8. CASE Commit
    <2>1. tr'.accepted = tr.accepted
      BY <1>8 DEF Commit, IInv, Types, ReceiverTypes, TrType
    <2> QED
      BY <1>8, <2>1, LateKept DEF Commit, EndFails, CleanedUp
  <1>9. CASE CloseReturnsLate \/ WorkerFinishes
    BY <1>9, LateKept DEF CloseReturnsLate, WorkerFinishes, CleanedUp
  <1>10. CASE WorkerTakes \/ WorkerWrites
    <2>1. tr'.accepted = tr.accepted
      BY <1>10, StoppedFacts DEF WorkerTakes, WorkerWrites, IInv, Types, ReceiverTypes, TrType
    <2> QED
      BY <1>10, <2>1, LateKept DEF WorkerTakes, WorkerWrites, CleanedUp
  <1>11. CASE WorkerWindow \/ OthersWrite
    <2>1. tr'.accepted = tr.accepted
      BY <1>11, MarkedFacts DEF WorkerWindow, OthersWrite, SameTransfer
    <2> QED
      BY <1>11, <2>1, LateKept DEF WorkerWindow, OthersWrite, CleanedUp
  <1>12. CASE UNCHANGED vars
    BY <1>12, LateKept DEF vars, rxVars, trVars, CleanedUp
  <1> QED
    BY <1>1, <1>2, <1>3, <1>4, <1>5, <1>6, <1>7, <1>8, <1>9, <1>10, <1>11, <1>12, ZenonT(30)
       DEF Next, Opener, ReadLoop, Worker, Others

(* ReceiverInv follows the writer through the receiver's threads. *)
LEMMA FinalisedImplied == IInv /\ LateInv => WriterFinalised
  BY DEF WriterFinalised, Ending, IInv, Types, ReceiverTypes, ReceiverInv, LateInv, CleanedUp

(* A session that has gone down has no writer open, except that of a       *)
(* stopped transfer whose worker has yet to abort it, and that of a        *)
(* transfer that an opener put into s.incoming between cleanupIncoming and *)
(* setState and that has taken no chunk (Run, cleanupIncoming,             *)
(* openIncomingTransfer, runIncomingTransfer).                             *)
THEOREM WriterIsFinalised == Spec => []WriterFinalised
  <1>1. Init => LateInv
    BY SMT DEF Init, LateInv, CleanedUp
  <1>2. IInv /\ LateInv /\ [Next]_vars => LateInv'
    BY NextLate
  <1> QED
    BY <1>1, <1>2, Invariance, FinalisedImplied, PTL DEF Spec

(* ReportInv says what a success rests on. *)
LEMMA SuccessImplied == IInv => SuccessMeansCommitted
  BY DEF SuccessMeansCommitted, IInv, ReportInv, ReceiverInv

(* A transfer that reports success was committed with all its chunks       *)
(* written (waitOutgoingAcked, handleIncomingTransferEnd).                 *)
THEOREM SuccessIsCommitted == Spec => []SuccessMeansCommitted
  BY Invariance, SuccessImplied, PTL

-----------------------------------------------------------------------------
(* The refinement. *)

(* A step of the sender is a report, or nothing to the two applications. *)
LEMMA SenderRefines ==
  ASSUME IInv, IInv', UNCHANGED <<rxVars, chunkCount>>, result' = result \/ Registered
  PROVE  [Promise!Next]_(Promise!vars)
  <1>1. chunkCount' = chunkCount /\ tr'.written = tr.written /\ BodyOf' = BodyOf
    BY DEF rxVars, trVars, BodyOf
  <1>2. CASE result' = result
    BY <1>1, <1>2 DEF Promise!vars
  <1>3. CASE result = "none" /\ result' = "ok"
    <2>1. BodyOf = "committed"
      BY <1>1, <1>3 DEF IInv, ReportInv, BodyOf, rxVars, trVars
    <2> QED
      BY <1>1, <1>3, <2>1 DEF Promise!Next, Promise!ReportSuccess
  <1>4. CASE result = "none" /\ result' = "error"
    BY <1>1, <1>4 DEF Promise!Next, Promise!ReportFailure
  <1>5. (result' = result \/ result = "none") /\ result' \in {"none", "ok", "error"}
    BY DEF IInv, SenderInv, Types, SenderTypes
  <1> QED
    BY <1>2, <1>3, <1>4, <1>5

(* A step of the receiver gives one chunk, commits the body, drops it, or  *)
(* is nothing to the two applications.                                     *)
LEMMA ReceiverRefines ==
  ASSUME IInv, IInv', UNCHANGED txVars,
         \/ /\ tr'.written = tr.written
            /\ \/ writer' = writer
               \/ writer \in {"none", "open"}
               \/ writer = "closing" /\ writer' = "aborted"
         \/ tr'.written = tr.written + 1 /\ writer = "open" /\ writer' = writer
  PROVE  [Promise!Next]_(Promise!vars)
  <1>1. chunkCount' = chunkCount /\ result' = result
    BY DEF txVars
  <1>2. CASE tr'.written = tr.written + 1 /\ writer = "open" /\ writer' = writer
    <2>1. tr.written < chunkCount
      BY <1>1, <1>2, ReceiverFacts, SMTT(30) DEF IInv, CountInv, Types, ReceiverTypes, TrType
    <2> QED
      BY <1>1, <1>2, <2>1, ZenonT(30) DEF BodyOf, Promise!Next, Promise!GiveChunk
  <1>3. CASE tr'.written = tr.written /\ BodyOf' = BodyOf
    BY <1>1, <1>3 DEF Promise!vars
  <1>4. CASE tr'.written = tr.written /\ writer \in {"none", "open"} /\ writer' = "committed"
    <2>1. tr.written = chunkCount
      BY <1>1, <1>4 DEF IInv, ReceiverInv
    <2> QED
      BY <1>1, <1>4, <2>1, Zenon DEF BodyOf, Promise!Next, Promise!CommitBody
  <1>5. CASE /\ tr'.written = tr.written /\ writer \in {"none", "open"}
             /\ writer' \in {"closeFailed", "closing", "aborted"}
    BY <1>1, <1>5 DEF BodyOf, Promise!Next, Promise!DropBody
  <1>6. writer' \in {"none", "open", "committed", "closeFailed", "closing", "aborted"}
    BY DEF IInv, Types, ReceiverTypes
  <1>7. CASE tr'.written = tr.written /\ writer \in {"none", "open"} /\ writer' \in {"none", "open"}
    BY <1>3, <1>7 DEF BodyOf
  <1>8. CASE tr'.written = tr.written /\ writer = "closing" /\ writer' = "aborted"
    BY <1>3, <1>8 DEF BodyOf
  <1>9. CASE tr'.written = tr.written /\ writer' = writer
    BY <1>3, <1>9 DEF BodyOf
  <1> QED
    BY <1>2, <1>4, <1>5, <1>6, <1>7, <1>8, <1>9, ZenonT(30)

(* Every step of the seven threads is a step of Delivery, or none. *)
LEMMA StepRefines ==
  ASSUME IInv, IInv', [Next]_vars
  PROVE  [Promise!Next]_(Promise!vars)
  <1>1. CASE Sender \/ Monitor \/ HandleControl \/ SenderDisconnected \/ Cancel \/ ContextEnds
    <2>1. UNCHANGED <<rxVars, chunkCount>>
      BY <1>1 DEF Sender, SendBegin, NextChunk, ReserveChunk, TransmitChunk, FinishSending, SendEnd,
                  waitOutgoingAcked, Monitor, AckTimeout, CommitTimeout, HandleControl,
                  SenderDisconnected, Cancel, ContextEnds
    <2>2. result' = result \/ Registered
      BY <1>1 DEF Sender, SendBegin, NextChunk, ReserveChunk, TransmitChunk, FinishSending, SendEnd,
                  waitOutgoingAcked, Monitor, AckTimeout, CommitTimeout, HandleControl,
                  SenderDisconnected, Cancel, ContextEnds, Registered
    <2> QED
      BY <2>1, <2>2, SenderRefines
  <1>2. CASE \/ HandleBegin \/ AckDuplicate \/ CloseWriter \/ SetFailed \/ OpenTimesOut
             \/ WorkerAcks \/ OthersBuffer \/ OthersDrop \/ Evict
    BY <1>2, ReceiverRefines
    DEF HandleBegin, AckDuplicate, CloseWriter, SetFailed, OpenTimesOut, WorkerAcks, OthersBuffer,
        OthersDrop, Evict, trVars
  <1>3. CASE OpenReturns \/ OpenReturnsLate
    <2>1. writer = "none"
      BY <1>3 DEF OpenReturns, OpenReturnsLate, IInv, ReceiverInv
    <2> QED
      BY <1>3, <2>1, ReceiverRefines, Zenon DEF OpenReturns, OpenReturnsLate
  <1>4. CASE OpenerWindow
    <2>1. tr'.written = tr.written
      BY <1>4, MarkedFacts, StoppedFacts DEF OpenerWindow, SameTransfer
    <2> QED
      BY <1>4, <2>1, ReceiverRefines DEF OpenerWindow
  <1>5. CASE HandleData \/ ReceiverDisconnected
    <2>1. tr'.written = tr.written
      BY <1>5, DownFacts, ZenonT(30)
         DEF HandleData, ReceiveChunk, AcceptChunk, ReceiverDisconnected, IInv, Types, ReceiverTypes, TrType
    <2> QED
      BY <1>5, <2>1, ReceiverRefines, Zenon DEF HandleData, ReceiverDisconnected
  <1>6. CASE HandleEnd
    <2>1. tr'.written = tr.written
      BY <1>6, EndingFacts DEF HandleEnd
    <2> QED
      BY <1>6, <2>1, ReceiverRefines DEF HandleEnd
  <1>7. CASE EndDrained
    <2>1. tr'.written = tr.written
      BY <1>7, DownFacts, Zenon DEF EndDrained
    <2>2. writer' = writer \/ writer = "open"
      BY <1>7 DEF EndDrained, IInv, ReceiverInv
    <2> QED
      BY <1>7, <2>1, <2>2, ReceiverRefines DEF EndDrained
  <1>8. CASE Commit
    <2>1. tr'.written = tr.written /\ writer = "open"
      BY <1>8 DEF Commit, IInv, ReceiverInv, Types, ReceiverTypes, TrType
    <2> QED
      BY <1>8, <2>1, ReceiverRefines, ZenonT(30) DEF Commit
  <1>9. CASE CloseReturnsLate
    BY <1>9, ReceiverRefines DEF CloseReturnsLate
  <1>10. CASE HandleCancel
    <2>1. tr'.written = tr.written
      BY <1>10, StoppedFacts DEF HandleCancel
    <2> QED
      BY <1>10, <2>1, ReceiverRefines DEF HandleCancel
  <1>11. CASE WorkerTakes
    <2>1. tr'.written = tr.written
      BY <1>11 DEF WorkerTakes, IInv, Types, ReceiverTypes, TrType
    <2> QED
      BY <1>11, <2>1, ReceiverRefines DEF WorkerTakes
  <1>12. CASE WorkerWrites
    <2>1. writer = "open"
      BY <1>12 DEF WorkerWrites, IInv, ReceiverInv
    <2>2. tr'.written = tr.written \/ tr'.written = tr.written + 1
      BY <1>12, StoppedFacts DEF WorkerWrites, IInv, Types, ReceiverTypes, TrType
    <2> QED
      BY <1>12, <2>1, <2>2, ReceiverRefines, ZenonT(30) DEF WorkerWrites
  <1>13. CASE WorkerWindow
    <2>1. tr'.written = tr.written
      BY <1>13, MarkedFacts DEF WorkerWindow, SameTransfer
    <2> QED
      BY <1>13, <2>1, ReceiverRefines DEF WorkerWindow
  <1>14. CASE WorkerFinishes
    <2>1. writer = "open"
      BY <1>14 DEF WorkerFinishes, IInv, ReceiverInv
    <2> QED
      BY <1>14, <2>1, ReceiverRefines DEF WorkerFinishes
  <1>15. CASE OthersWrite
    <2>1. tr'.written = tr.written
      BY <1>15, MarkedFacts DEF OthersWrite, SameTransfer
    <2> QED
      BY <1>15, <2>1, ReceiverRefines DEF OthersWrite
  <1>16. CASE UNCHANGED vars
    BY <1>16, ReceiverRefines DEF vars, rxVars, trVars
  <1> QED
    BY <1>1, <1>2, <1>3, <1>4, <1>5, <1>6, <1>7, <1>8, <1>9, <1>10, <1>11, <1>12, <1>13, <1>14,
       <1>15, <1>16, ZenonT(30) DEF Next, Opener, ReadLoop, Worker, Others

(* The seven threads implement Delivery: the writer takes every chunk once *)
(* and in order, its fate is decided once, and success is reported once    *)
(* and after the commit (sendTransfer, writeIncomingChunk,                 *)
(* handleIncomingTransferEnd).                                             *)
THEOREM TransferImplementsDelivery == Spec => ImplementsDelivery
  <1>1. Init => Promise!Init
    <2> SUFFICES ASSUME Init PROVE Promise!Init
      OBVIOUS
    <2>1. chunkCount \in Nat
      BY BoundAssumption, SMT DEF Init
    <2>2. tr.written = 0 /\ BodyOf = "open" /\ result = "none"
      BY DEF Init, BodyOf
    <2> QED
      BY <2>1, <2>2, ZenonT(30) DEF Promise!Init
  <1>2. IInv /\ IInv' /\ [Next]_vars => [Promise!Next]_(Promise!vars)
    BY StepRefines
  <1> QED
    BY <1>1, <1>2, Invariance, PTL DEF Spec, ImplementsDelivery, Promise!Spec
=============================================================================
