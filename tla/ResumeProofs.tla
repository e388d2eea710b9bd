---------------------------- MODULE ResumeProofs ----------------------------
(***************************************************************************)
(* Proofs about a transfer that is carried on over several sessions, for   *)
(* any number of chunks, sessions and calls of ResumeTransfer.             *)
(***************************************************************************)
EXTENDS Resume, TLAPS

(* Zenon finds most leaves faster; the others cite SMT. *)
USE Zenon

(* What the bounds of the model are assumed to be. *)
Bounds == ChunkCount \in Nat /\ MaxSessions \in Nat \ {0} /\ MaxResumes \in Nat

(* What an incomingTransfer may be. *)
Transfers == [live : BOOLEAN, accepted : 0 .. ChunkCount, queue : Seq(Chunks), closed : BOOLEAN,
              failed : BOOLEAN, suspend : BOOLEAN]

(* What a TransferState may say. *)
States == [flag : {"accepted", "completed", "failed", "rejected"}, next : 0 .. ChunkCount]

(* The types of the sender's state. *)
SenderTypes ==
    /\ cur \in Sessions
    /\ spc \in {"wait", "send", "commit", "idle"}
    /\ nextChunk \in 0 .. ChunkCount
    /\ ot \in [failed : BOOLEAN, completed : BOOLEAN, resume : -1 .. ChunkCount]
    /\ resumes \in 0 .. MaxResumes
    /\ report \in {"none", "ok", "error"}
    /\ txUp \in BOOLEAN

(* The types of the connections and of what is under way on them. *)
LinkTypes ==
    /\ link \in [Sessions -> BOOLEAN]
    /\ high \in [Sessions -> [resume : Nat, cancel : Nat]]
    /\ low \in [Sessions -> Seq(0 .. ChunkCount)]
    /\ back \in [Sessions -> Seq(States)]

(* The types of the receiver's sessions. *)
ReceiverTypes ==
    /\ rl \in [Sessions -> {"none", "read", "load", "drain", "ended"}]
    /\ store \in [Sessions -> {"none", "call", "late"}]
    /\ tr \in [Sessions -> Transfers]
    /\ wpc \in [Sessions -> {"none", "idle", "write", "done", "closing"}]
    /\ body \in {"open", "suspended", "committed", "dropped"}
    /\ written \in Seq(Chunks)

(* Session k may still write to the writer or close it. *)
Holds(k) == wpc[k] \in {"idle", "write", "closing"} \/ rl[k] = "drain"

(* An open writer is in the hands of one session, any other of none. *)
HoldInv ==
    /\ body = "open" => \E k \in Sessions : Holds(k)
    /\ body # "open" => \A k \in Sessions : ~Holds(k)
    /\ \A j, k \in Sessions : Holds(j) /\ Holds(k) => j = k

(* The chunks of a queue follow each other up to chunk c. *)
UpTo(q, c) == \A i \in 1 .. Len(q) : q[i] = c - Len(q) + i - 1

(* A read loop at r, a worker at p and the transfer t of one receiving      *)
(* session, when the writer has n chunks.                                   *)
Fits(r, p, t, n) ==
    /\ r = "drain" => /\ t.live /\ t.closed /\ t.accepted = ChunkCount
                      /\ p \in {"idle", "write", "done"}
                      /\ p = "done" => n = ChunkCount
    /\ t.live => \/ p \in {"idle", "write"}
                 \/ p = "done" /\ r = "drain"
                 \/ p = "closing" /\ t.accepted = ChunkCount
    /\ t.live /\ t.failed => p = "closing"
    /\ t.closed /\ ~t.failed /\ p \in {"idle", "write"} => r = "drain"
    /\ t.suspend => r = "ended"
    /\ p = "write" => t.queue # <<>>
    /\ UpTo(t.queue, t.accepted)
    /\ p = "write" \/ (p = "idle" /\ ~t.failed) => t.accepted = n + Len(t.queue)

(* A session's thread, worker and transfer agree with each other. *)
Local(k) == Fits(rl[k], wpc[k], tr[k], Len(written))

(* The permission to send the body into session k passes from an accepted  *)
(* Resume to the sender, from there with TransferEnd to the receiver.      *)
Offered(k) == \E n \in 1 .. Len(back[k]) : back[k][n].flag = "accepted"

(* The sender may put chunks on connection k. *)
Sending(k) == k = cur /\ (spc = "send" \/ (spc = "wait" /\ ot.resume # Undecided))

(* A TransferEnd is under way. *)
Ending(k) == \E n \in 1 .. Len(low[k]) : low[k][n] = End

(* The receiver has taken the TransferEnd and not finished. *)
Committing(k) == rl[k] = "drain" \/ wpc[k] = "closing"

(* At most one acceptance is on its way back. *)
OneOffer(k) == \A m, n \in 1 .. Len(back[k]) :
                 back[k][m].flag = "accepted" /\ back[k][n].flag = "accepted" => m = n

(* Nothing follows a TransferEnd. *)
EndLast(k) == \A n \in 1 .. Len(low[k]) : low[k][n] = End => n = Len(low[k])

(* It is in one place. *)
Token(k) ==
    /\ Offered(k) => ~Sending(k) /\ ~Ending(k) /\ ~Committing(k)
    /\ Sending(k) => ~Ending(k) /\ ~Committing(k)
    /\ Ending(k) => ~Committing(k)
    /\ OneOffer(k) /\ EndLast(k)

(* A session accepts one Resume at most: after that it has the writer, or  *)
(* its connection is lost, or the body is settled.                         *)
Used(k) ==
    Offered(k) \/ Sending(k) \/ Ending(k) \/ Committing(k) =>
      Holds(k) \/ rl[k] = "ended" \/ body \in {"committed", "dropped"}

(* A session that does not exist yet. *)
Unborn(k) == k > cur => rl[k] = "none" /\ wpc[k] = "none" /\ low[k] = <<>> /\ back[k] = <<>>

(* What holds of every session of the receiver. *)
SessionInv == \A k \in Sessions : Local(k) /\ Token(k) /\ Used(k) /\ Unborn(k)

(* What the sender is told. *)
HonestBack(k) ==
    \A n \in 1 .. Len(back[k]) : back[k][n].flag = "completed" => body = "committed"

(* What the sender has reported rests on a body that was committed. *)
ReportInv ==
    /\ \A k \in Sessions : HonestBack(k)
    /\ ot.completed => body = "committed"
    /\ spc # "idle" => report = "none"

(* The inductive invariant. *)
IInv == SenderTypes /\ LinkTypes /\ ReceiverTypes /\ HoldInv /\ SessionInv /\ ReportInv
        /\ InOrder /\ Len(written) <= ChunkCount

-----------------------------------------------------------------------------
(* Queues of frames. *)

(* An answer is sent, or lost with the connection. *)
LEMMA BackSent ==
  ASSUME LinkTypes, NEW k \in Sessions, NEW f \in States, Put(back, k, f)
  PROVE  /\ back' \in [Sessions -> Seq(States)]
         /\ \A j \in Sessions : j # k => back'[j] = back[j]
         /\ Offered(k)' => Offered(k) \/ f.flag = "accepted"
         /\ OneOffer(k) /\ (Offered(k) => f.flag # "accepted") => OneOffer(k)'
         /\ HonestBack(k) /\ (f.flag = "completed" => body' = "committed")
             /\ (body = "committed" => body' = "committed") => HonestBack(k)'
  <1>1. back \in [Sessions -> Seq(States)]
    BY DEF LinkTypes
  <1>2. CASE ~link[k]
    <2>1. back' = back
      BY <1>2 DEF Put
    <2> QED
      BY <1>1, <2>1 DEF Offered, OneOffer, HonestBack
  <1>3. CASE link[k]
    <2>1. back' = [back EXCEPT ![k] = Append(back[k], f)]
      BY <1>3 DEF Put
    <2> HIDE DEF States
    <2>2. back[k] \in Seq(States) /\ Append(back[k], f) \in Seq(States)
      BY <1>1, SMT
    <2>3. /\ Len(back[k]) \in Nat /\ Len(Append(back[k], f)) = Len(back[k]) + 1
          /\ Append(back[k], f)[Len(back[k]) + 1] = f
          /\ \A n \in 1 .. Len(back[k]) : Append(back[k], f)[n] = back[k][n]
      BY <2>2, SMT
    <2>4. back' \in [Sessions -> Seq(States)] /\ back'[k] = Append(back[k], f)
          /\ \A j \in Sessions : j # k => back'[j] = back[j]
      BY <1>1, <2>1, <2>2, SMT
    <2>5. \A n \in 1 .. Len(back'[k]) : \/ n \in 1 .. Len(back[k]) /\ back'[k][n] = back[k][n]
                                        \/ n = Len(back[k]) + 1 /\ back'[k][n] = f
      BY <2>3, <2>4, SMT
    <2>6. Offered(k)' => Offered(k) \/ f.flag = "accepted"
      BY <2>5 DEF Offered
    <2>7. OneOffer(k) /\ (Offered(k) => f.flag # "accepted") => OneOffer(k)'
      BY <2>5 DEF Offered, OneOffer
    <2>8. HonestBack(k) /\ (f.flag = "completed" => body' = "committed")
             /\ (body = "committed" => body' = "committed") => HonestBack(k)'
      BY <2>5 DEF HonestBack
    <2> QED
      BY <2>4, <2>6, <2>7, <2>8
  <1> QED
    BY <1>2, <1>3

(* The read loop takes a Data or an End frame. *)
LEMMA LowRead ==
  ASSUME LinkTypes, NEW k \in Sessions, NEW f, ReadsLow(k, f), EndLast(k)
  PROVE  /\ low' \in [Sessions -> Seq(0 .. ChunkCount)]
         /\ \A j \in Sessions : j # k => low'[j] = low[j]
         /\ Ending(k)' => Ending(k) /\ f # End
         /\ EndLast(k)'
         /\ f = End => Ending(k)
         /\ rl[k] = "read"
  <1> DEFINE S == 0 .. ChunkCount
             q == low[k]
  <1>1. low \in [Sessions -> Seq(S)] /\ q \in Seq(S)
    BY DEF LinkTypes
  <1>2. low' = [low EXCEPT ![k] = Tail(q)] /\ q # <<>> /\ Head(q) = f /\ rl[k] = "read"
    BY DEF ReadsLow
  <1> HIDE DEF S
  <1>3. /\ Tail(q) \in Seq(S) /\ Len(q) \in Nat /\ Len(q) > 0 /\ Head(q) = q[1]
        /\ Len(Tail(q)) = Len(q) - 1 /\ \A n \in 1 .. Len(q) - 1 : Tail(q)[n] = q[n + 1]
    BY <1>1, <1>2, SMT
  <1>4. /\ low' \in [Sessions -> Seq(S)] /\ low'[k] = Tail(q)
        /\ \A j \in Sessions : j # k => low'[j] = low[j]
    BY <1>1, <1>2, <1>3, SMT
  <1>5. 1 \in 1 .. Len(q) /\ \A n \in 1 .. Len(Tail(q)) : /\ n + 1 \in 1 .. Len(q)
                                                         /\ Tail(q)[n] = q[n + 1]
                                                         /\ n + 1 = Len(q) => n = Len(Tail(q))
    BY <1>3, SMT
  <1>6. \A n \in 1 .. Len(Tail(q)) : Len(q) # 1
    BY <1>3, SMT
  <1>7. Ending(k)' => Ending(k) /\ f # End
    <2>1. SUFFICES ASSUME NEW n \in 1 .. Len(Tail(q)), Tail(q)[n] = End
                   PROVE  Ending(k) /\ f # End
      BY <1>4 DEF Ending, End
    <2>2. Ending(k)
      BY <1>5, <2>1, SMT DEF Ending
    <2>3. f = End => 1 = Len(q)
      BY <1>2, <1>3, <1>5 DEF EndLast
    <2> QED
      BY <1>6, <2>1, <2>2, <2>3
  <1>8. EndLast(k)'
    <2>1. SUFFICES ASSUME NEW n \in 1 .. Len(Tail(q)), Tail(q)[n] = End
                   PROVE  n = Len(Tail(q))
      BY <1>4 DEF EndLast, End
    <2> QED
      BY <1>5, <2>1, SMT DEF EndLast
  <1>9. f = End => Ending(k)
    BY <1>2, <1>3, <1>5 DEF Ending
  <1> QED
    BY <1>2, <1>4, <1>7, <1>8, <1>9 DEF S

(* A Resume or Cancel frame is taken. *)
LEMMA HighRead ==
  ASSUME LinkTypes, NEW k \in Sessions, NEW f \in {"resume", "cancel"}, ReadsHigh(k, f)
  PROVE  high' \in [Sessions -> [resume : Nat, cancel : Nat]] /\ rl[k] = "read"
  <1>1. high \in [Sessions -> [resume : Nat, cancel : Nat]] /\ high[k][f] > 0 /\ rl[k] = "read"
        /\ high' = [high EXCEPT ![k] = [high[k] EXCEPT ![f] = high[k][f] - 1]]
    BY SMT DEF LinkTypes, ReadsHigh
  <1>2. [high[k] EXCEPT ![f] = high[k][f] - 1] \in [resume : Nat, cancel : Nat]
    BY <1>1, SMT
  <1> QED
    BY <1>1, <1>2, SMT

(* A Resume or Cancel frame is sent. *)
LEMMA HighSent ==
  ASSUME LinkTypes, NEW k \in Sessions, NEW f \in {"resume", "cancel"}, PutHigh(k, f)
  PROVE  high' \in [Sessions -> [resume : Nat, cancel : Nat]]
  <1>1. high \in [Sessions -> [resume : Nat, cancel : Nat]]
    BY DEF LinkTypes
  <1>2. [high[k] EXCEPT ![f] = high[k][f] + 1] \in [resume : Nat, cancel : Nat]
    BY <1>1, SMT
  <1>3. high' = high \/ high' = [high EXCEPT ![k] = [high[k] EXCEPT ![f] = high[k][f] + 1]]
    BY SMT DEF PutHigh
  <1> QED
    BY <1>1, <1>2, <1>3, SMT

-----------------------------------------------------------------------------
(* Steps of the receiver's session k. *)

(* What the step leaves alone in the other sessions. *)
AtOthers(k) ==
    \A j \in Sessions : j # k => /\ rl'[j] = rl[j] /\ wpc'[j] = wpc[j] /\ tr'[j] = tr[j]
                                /\ low'[j] = low[j] /\ back'[j] = back[j]

(* Who holds the writer, and the writer's state: nothing changes, session *)
(* k gives up a writer that is not used from now on, or it gets one that   *)
(* was suspended.                                                          *)
HandsOver(k) ==
    \/ body' = body /\ (Holds(k)' <=> Holds(k))
    \/ body' # "open" /\ ~Holds(k)' /\ (Holds(k) \/ body # "open")
    \/ body # "open" /\ body' = "open" /\ Holds(k)'

(* A body that was committed or dropped stays so. *)
Settles == body \in {"committed", "dropped"} => body' = body

(* A step that leaves every session's hold on the writer alone keeps *)
(* HoldInv.                                                          *)
LEMMA HoldsKept ==
  ASSUME HoldInv, NEW k \in Sessions, AtOthers(k), HandsOver(k)
  PROVE  HoldInv'
  <1>1. \A j \in Sessions : j # k => (Holds(j)' <=> Holds(j))
    BY DEF AtOthers, Holds
  <1>2. CASE body' = body /\ (Holds(k)' <=> Holds(k))
    <2>1. \A j \in Sessions : Holds(j)' <=> Holds(j)
      BY <1>1, <1>2
    <2> HIDE DEF Holds
    <2> QED
      BY <1>2, <2>1 DEF HoldInv
  <1>3. CASE body' # "open" /\ ~Holds(k)' /\ (Holds(k) \/ body # "open")
    <2>1. \A j \in Sessions : ~Holds(j)'
      BY <1>1, <1>3 DEF HoldInv
    <2> QED
      BY <1>3, <2>1 DEF HoldInv
  <1>4. CASE body # "open" /\ body' = "open" /\ Holds(k)'
    <2>1. \A j \in Sessions : j # k => ~Holds(j)'
      BY <1>1, <1>4 DEF HoldInv
    <2> QED
      BY <1>4, <2>1 DEF HoldInv
  <1> QED
    BY <1>2, <1>3, <1>4 DEF HandsOver

(* The others' invariants need nothing from the step but that it writes only *)
(* with the writer in its hands and takes no settled writer up again.        *)
LEMMA ReceiverStep ==
  ASSUME IInv, NEW k \in Sessions, UNCHANGED txVars, AtOthers(k), HandsOver(k), Settles,
         LinkTypes', ReceiverTypes',
         written' = written \/ Holds(k),
         Local(k)', Token(k)', Used(k)', Unborn(k)', HonestBack(k)',
         InOrder', (Len(written) <= ChunkCount)'
  PROVE  IInv'
  <1>1. SenderTypes'
    BY DEF IInv, SenderTypes, txVars
  <1>2. HoldInv'
    BY HoldsKept DEF IInv
  <1>3. ASSUME NEW j \in Sessions, j # k PROVE Local(j)' /\ Token(j)' /\ Used(j)' /\ Unborn(j)'
    <2>1. rl'[j] = rl[j] /\ wpc'[j] = wpc[j] /\ tr'[j] = tr[j] /\ low'[j] = low[j]
          /\ back'[j] = back[j]
      BY <1>3 DEF AtOthers
    <2>2. cur' = cur /\ spc' = spc /\ ot' = ot
      BY DEF txVars
    <2>3. Local(j) /\ Token(j) /\ Used(j) /\ Unborn(j)
      BY DEF IInv, SessionInv
    <2>4. Local(j)'
      <3>1. written' = written \/ ~Holds(j)
        BY <1>3 DEF IInv, HoldInv
      <3>2. CASE written' = written
        BY <2>1, <2>3, <3>2 DEF Local
      <3>3. CASE ~Holds(j)
        <4>1. rl[j] # "drain" /\ wpc[j] # "write" /\ wpc[j] # "idle"
          BY <3>3 DEF Holds
        <4> QED
          BY <2>1, <2>3, <4>1 DEF Local, Fits
      <3> QED
        BY <3>1, <3>2, <3>3
    <2>5. /\ Offered(j)' <=> Offered(j)
          /\ Sending(j)' <=> Sending(j)
          /\ Ending(j)' <=> Ending(j)
          /\ Committing(j)' <=> Committing(j)
      BY <2>1, <2>2 DEF Offered, Sending, Ending, Committing
    <2>6. OneOffer(j)' /\ EndLast(j)'
      BY <2>1, <2>3 DEF Token, OneOffer, EndLast
    <2>7. Token(j)'
      BY <2>3, <2>5, <2>6 DEF Token
    <2>8. Used(j)'
      BY <2>1, <2>3, <2>5 DEF Used, Holds, Settles
    <2>9. Unborn(j)'
      BY <2>1, <2>2, <2>3 DEF Unborn
    <2> QED
      BY <2>4, <2>7, <2>8, <2>9
  <1>4. SessionInv'
    BY <1>3 DEF SessionInv
  <1>5. ReportInv'
    <2>1. \A j \in Sessions : HonestBack(j)'
      BY DEF IInv, ReportInv, HonestBack, AtOthers, Settles
    <2> QED
      BY <2>1 DEF IInv, ReportInv, txVars, Settles
  <1> QED
    BY <1>1, <1>2, <1>4, <1>5 DEF IInv

(* The invariant at session k. *)
LEMMA Here ==
  ASSUME IInv, NEW k \in Sessions
  PROVE  /\ Local(k) /\ Token(k) /\ Used(k) /\ Unborn(k) /\ HonestBack(k)
         /\ OneOffer(k) /\ EndLast(k)
         /\ Holds(k) => body = "open"
         /\ LinkTypes /\ ReceiverTypes
         /\ tr[k] \in Transfers
         /\ Len(written) \in Nat /\ Len(written) <= ChunkCount
  <1>1. written \in Seq(Chunks)
    BY DEF IInv, ReceiverTypes
  <1>2. Len(written) \in Nat
    BY <1>1, SMT
  <1> QED
    BY <1>2 DEF IInv, SessionInv, ReportInv, HoldInv, ReceiverTypes, Token

(* The step does not send or take a body frame. *)
LEMMA SameLow ==
  ASSUME NEW k \in Sessions, low' = low, EndLast(k)
  PROVE  (Ending(k)' => Ending(k)) /\ EndLast(k)'
  BY DEF Ending, EndLast

(* The step does not answer. *)
LEMMA SameBack ==
  ASSUME NEW k \in Sessions, back' = back, OneOffer(k), HonestBack(k),
         body = "committed" => body' = "committed"
  PROVE  (Offered(k)' => Offered(k)) /\ OneOffer(k)' /\ HonestBack(k)'
  BY DEF Offered, OneOffer, HonestBack

(* The permission to send stays where it is, or is spent. *)
LEMMA TokenKept ==
  ASSUME NEW k \in Sessions, Token(k), Used(k), UNCHANGED txVars, Settles,
         Offered(k)' => Offered(k), OneOffer(k)',
         Ending(k)' => Ending(k), EndLast(k)', Committing(k)' => Committing(k),
         Holds(k) => Holds(k)' \/ rl'[k] = "ended" \/ body' \in {"committed", "dropped"},
         rl[k] = "ended" => rl'[k] = "ended"
  PROVE  Token(k)' /\ Used(k)'
  <1>1. Sending(k)' <=> Sending(k)
    BY DEF Sending, txVars
  <1>2. Token(k)'
    BY <1>1 DEF Token
  <1>3. Used(k)'
    BY <1>1 DEF Used, Settles
  <1> QED
    BY <1>2, <1>3

(* A session whose read loop runs exists. *)
LEMMA Born ==
  ASSUME NEW k \in Sessions, Unborn(k), cur' = cur, rl[k] # "none" \/ wpc[k] # "none"
  PROVE  Unborn(k)'
  BY DEF Unborn

(* Storing a transfer changes one session's. *)
LEMMA TransferSet ==
  ASSUME ReceiverTypes, NEW k \in Sessions, NEW r \in Transfers, tr' = [tr EXCEPT ![k] = r]
  PROVE  /\ tr' \in [Sessions -> Transfers] /\ tr'[k] = r
         /\ \A j \in Sessions : j # k => tr'[j] = tr[j]
  BY SMT DEF ReceiverTypes

(* Storing where a read loop is changes one session's. *)
LEMMA LoopSet ==
  ASSUME ReceiverTypes, NEW k \in Sessions, NEW p \in {"none", "read", "load", "drain", "ended"},
         rl' = [rl EXCEPT ![k] = p]
  PROVE  /\ rl' \in [Sessions -> {"none", "read", "load", "drain", "ended"}] /\ rl'[k] = p
         /\ \A j \in Sessions : j # k => rl'[j] = rl[j]
  BY SMT DEF ReceiverTypes

(* Storing where a worker is changes one session's. *)
LEMMA WorkerSet ==
  ASSUME ReceiverTypes, NEW k \in Sessions, NEW p \in {"none", "idle", "write", "done", "closing"},
         wpc' = [wpc EXCEPT ![k] = p]
  PROVE  /\ wpc' \in [Sessions -> {"none", "idle", "write", "done", "closing"}] /\ wpc'[k] = p
         /\ \A j \in Sessions : j # k => wpc'[j] = wpc[j]
  BY SMT DEF ReceiverTypes

(* Updates of a transfer. *)
LEMMA QueueSet ==
  ASSUME NEW t \in Transfers, NEW c, c + 1 \in 0 .. ChunkCount, Append(t.queue, c) \in Seq(Chunks)
  PROVE  /\ queued(t, c) \in Transfers
         /\ queued(t, c).live = t.live /\ queued(t, c).accepted = c + 1
         /\ queued(t, c).queue = Append(t.queue, c) /\ queued(t, c).closed = t.closed
         /\ queued(t, c).failed = t.failed /\ queued(t, c).suspend = t.suspend
  BY DEF queued, Transfers

(* handleIncomingTransferData puts a chunk behind those in the queue. *)
LEMMA FitsTaken ==
  ASSUME Bounds, NEW p, NEW t \in Transfers, NEW n \in Nat, Fits("read", p, t, n),
         t.live, t.accepted \in Chunks
  PROVE  queued(t, t.accepted) \in Transfers /\ Fits("read", p, queued(t, t.accepted), n)
  <1> DEFINE q == t.queue
             c == t.accepted
             a == Append(q, c)
             s == queued(t, c)
  <1>1. c \in Nat /\ c + 1 \in 0 .. ChunkCount /\ c # ChunkCount
    BY SMT DEF Chunks, Bounds
  <1>2. q \in Seq(Chunks)
    BY DEF Transfers
  <1>3. a \in Seq(Chunks) /\ Len(q) \in Nat /\ Len(a) = Len(q) + 1 /\ a[Len(q) + 1] = c
        /\ a # <<>> /\ \A i \in 1 .. Len(q) : a[i] = q[i]
    BY <1>2, SMT
  <1>4. /\ s \in Transfers /\ s.live = t.live /\ s.accepted = c + 1 /\ s.queue = a
        /\ s.closed = t.closed /\ s.failed = t.failed /\ s.suspend = t.suspend
    BY <1>1, <1>3, QueueSet
  <1> HIDE DEF a, s
  <1>5. p \in {"idle", "write"} /\ ~t.failed /\ ~t.closed /\ ~t.suspend /\ c = n + Len(q)
    BY <1>1 DEF Fits
  <1>6. \A i \in 1 .. Len(q) : q[i] = c - Len(q) + i - 1
    BY DEF Fits, UpTo
  <1> HIDE DEF c, q
  <1>7. ASSUME NEW i \in 1 .. Len(a) PROVE a[i] = (c + 1) - Len(a) + i - 1
    <2>1. CASE i = Len(q) + 1
      BY <1>1, <1>3, <2>1, SMT
    <2>2. CASE i # Len(q) + 1
      <3>1. i \in 1 .. Len(q)
        BY <1>3, <2>2, SMT
      <3>2. a[i] = c - Len(q) + i - 1
        BY <1>3, <1>6, <3>1
      <3> QED
        BY <1>1, <1>3, <3>1, <3>2, SMT
    <2> QED
      BY <2>1, <2>2
  <1>8. UpTo(s.queue, s.accepted)
    <2>1. UpTo(a, c + 1)
      BY <1>7 DEF UpTo
    <2> QED
      BY <1>4, <2>1
  <1>9. s.accepted = n + Len(s.queue)
    <2>1. s.accepted = (n + Len(q)) + 1 /\ Len(s.queue) = Len(q) + 1 /\ Len(q) \in Nat
      BY <1>3, <1>4, <1>5, Zenon
    <2> QED
      BY <2>1, SMT
  <1>10. Fits("read", p, s, n)
    BY <1>3, <1>4, <1>5, <1>8, <1>9 DEF Fits
  <1> QED
    BY <1>4, <1>10 DEF s, a, c, q

(* handleIncomingTransferData *)
LEMMA DataStep ==
  ASSUME Bounds, IInv, NEW k \in Sessions, HandleData(k)
  PROVE  IInv'
  <1>1. PICK c \in Chunks :
          /\ ReadsLow(k, c)
          /\ tr' = IF tr[k].live /\ c = tr[k].accepted
                   THEN [tr EXCEPT ![k] = queued(@, c)]
                   ELSE tr
    BY DEF HandleData
  <1>2. UNCHANGED <<txVars, link, high, back, rl, store, wpc, body, written>>
    BY DEF HandleData
  <1>3. /\ Local(k) /\ Token(k) /\ Used(k) /\ Unborn(k) /\ HonestBack(k)
        /\ OneOffer(k) /\ EndLast(k) /\ LinkTypes /\ ReceiverTypes
        /\ tr[k] \in Transfers /\ Len(written) \in Nat
    BY Here
  <1>4. /\ low' \in [Sessions -> Seq(0 .. ChunkCount)]
        /\ \A j \in Sessions : j # k => low'[j] = low[j]
        /\ Ending(k)' => Ending(k)
        /\ EndLast(k)'
        /\ rl[k] = "read"
    BY <1>1, <1>3, LowRead
  <1>5. (Offered(k)' => Offered(k)) /\ OneOffer(k)' /\ HonestBack(k)'
    BY <1>2, <1>3, SameBack
  <1>6. (Holds(k)' <=> Holds(k)) /\ (Committing(k)' <=> Committing(k)) /\ Settles /\ HandsOver(k)
    BY <1>2 DEF Holds, Committing, Settles, HandsOver
  <1>7. Token(k)' /\ Used(k)' /\ Unborn(k)'
    BY <1>2, <1>3, <1>4, <1>5, <1>6, TokenKept, Born DEF txVars
  <1>8. LinkTypes'
    BY <1>2, <1>3, <1>4 DEF LinkTypes
  <1>9. /\ tr' \in [Sessions -> Transfers]
        /\ \A j \in Sessions : j # k => tr'[j] = tr[j]
        /\ Local(k)'
    <2>1. CASE tr' = tr
      BY <1>2, <1>3, <2>1 DEF Local, ReceiverTypes
    <2>2. CASE tr' # tr
      <3> DEFINE r == queued(tr[k], tr[k].accepted)
      <3>1. tr[k].live /\ tr[k].accepted \in Chunks /\ tr' = [tr EXCEPT ![k] = r]
        BY <1>1, <2>2
      <3>2. Fits("read", wpc[k], tr[k], Len(written))
        BY <1>3, <1>4 DEF Local
      <3>3. r \in Transfers /\ Fits("read", wpc[k], r, Len(written))
        BY <1>3, <3>1, <3>2, FitsTaken
      <3> HIDE DEF r
      <3>4. /\ tr' \in [Sessions -> Transfers] /\ tr'[k] = r
            /\ \A j \in Sessions : j # k => tr'[j] = tr[j]
        BY <1>3, <3>1, <3>3, TransferSet
      <3> QED
        BY <1>2, <1>4, <3>3, <3>4 DEF Local
    <2> QED
      BY <2>1, <2>2
  <1>10. ReceiverTypes'
    BY <1>2, <1>3, <1>9 DEF ReceiverTypes
  <1>11. AtOthers(k)
    BY <1>2, <1>4, <1>9 DEF AtOthers
  <1>12. InOrder' /\ (Len(written) <= ChunkCount)'
    BY <1>2 DEF IInv, InOrder
  <1> QED
    BY <1>2, <1>5, <1>6, <1>7, <1>8, <1>9, <1>10, <1>11, <1>12, ReceiverStep DEF txVars

(* What most steps of session k have in common: they take no body frame, and *)
(* if they answer, it is not that a Resume is accepted.                      *)
Answers(k, f) == Put(back, k, f) /\ f \in States /\ f.flag # "accepted"
                 /\ (f.flag = "completed" => body' = "committed")

(* The step touches no session of the receiver but k. *)
OnlyAt(k) ==
    /\ \A j \in Sessions : j # k => rl'[j] = rl[j] /\ wpc'[j] = wpc[j] /\ tr'[j] = tr[j]
    /\ rl[k] # "none" \/ wpc[k] # "none" \/ UNCHANGED <<rl, wpc, back>>

(* Such a step keeps the invariant. *)
LEMMA UsualStep ==
  ASSUME IInv, NEW k \in Sessions, UNCHANGED <<txVars, link, low>>,
         back' = back \/ \E f \in States : Answers(k, f),
         high' \in [Sessions -> [resume : Nat, cancel : Nat]],
         ReceiverTypes', OnlyAt(k), HandsOver(k), Settles, Local(k)',
         Committing(k)' => Committing(k),
         Holds(k) => Holds(k)' \/ rl'[k] = "ended" \/ body' \in {"committed", "dropped"},
         rl[k] = "ended" => rl'[k] = "ended",
         \/ written' = written
         \/ Holds(k) /\ InOrder' /\ (Len(written) <= ChunkCount)'
  PROVE  IInv'
  <1>1. /\ Local(k) /\ Token(k) /\ Used(k) /\ Unborn(k) /\ HonestBack(k)
        /\ OneOffer(k) /\ EndLast(k) /\ LinkTypes
    BY Here
  <1>2. (Ending(k)' => Ending(k)) /\ EndLast(k)'
    BY <1>1, SameLow
  <1>3. /\ back' \in [Sessions -> Seq(States)]
        /\ \A j \in Sessions : j # k => back'[j] = back[j]
        /\ (Offered(k)' => Offered(k)) /\ OneOffer(k)' /\ HonestBack(k)'
    <2>1. body = "committed" => body' = "committed"
      BY DEF Settles
    <2>2. CASE back' = back
      BY <1>1, <2>1, <2>2, SameBack DEF LinkTypes
    <2>3. CASE \E f \in States : Answers(k, f)
      <3>1. PICK f \in States : Answers(k, f)
        BY <2>3
      <3>2. Put(back, k, f) /\ f.flag # "accepted" /\ (f.flag = "completed" => body' = "committed")
        BY <3>1 DEF Answers
      <3> QED
        BY <1>1, <2>1, <3>2, BackSent
    <2> QED
      BY <2>2, <2>3
  <1>4. Token(k)' /\ Used(k)'
    BY <1>1, <1>2, <1>3, TokenKept
  <1>5. Unborn(k)'
    <2>1. CASE rl[k] # "none" \/ wpc[k] # "none"
      BY <1>1, <2>1, Born DEF txVars
    <2>2. CASE UNCHANGED <<rl, wpc, back>>
      BY <1>1, <2>2 DEF Unborn, txVars
    <2> QED
      BY <2>1, <2>2 DEF OnlyAt
  <1>6. LinkTypes'
    BY <1>1, <1>3 DEF LinkTypes
  <1>7. AtOthers(k)
    BY <1>3 DEF AtOthers, OnlyAt
  <1>8. InOrder' /\ (Len(written) <= ChunkCount)'
    BY DEF IInv, InOrder
  <1> QED
    BY <1>3, <1>4, <1>5, <1>6, <1>7, <1>8, ReceiverStep DEF txVars

(* tr[k] alone is replaced. *)
LEMMA Replaced ==
  ASSUME IInv, NEW k \in Sessions, NEW r \in Transfers, tr' = [tr EXCEPT ![k] = r]
  PROVE  /\ tr' \in [Sessions -> Transfers] /\ tr'[k] = r
         /\ \A j \in Sessions : j # k => tr'[j] = tr[j]
  BY TransferSet DEF IInv

(* Marks of a transfer. *)
LEMMA Marks ==
  ASSUME NEW t \in Transfers
  PROVE  /\ [t EXCEPT !.live = FALSE] \in Transfers
         /\ [t EXCEPT !.failed = TRUE] \in Transfers
         /\ [t EXCEPT !.closed = TRUE] \in Transfers
         /\ stopped(t) \in Transfers /\ suspended(t) \in Transfers
  BY DEF stopped, suspended, Transfers

(* A transfer taken off the session's map when its worker is done. *)
LEMMA FitsLeft ==
  ASSUME NEW r \in {"read", "ended"}, NEW t \in Transfers,
         NEW q, NEW p, NEW n, Fits(q, p, t, n), q = "ended" => r = "ended"
  PROVE  Fits(r, "done", [t EXCEPT !.live = FALSE], n)
  <1> DEFINE s == [t EXCEPT !.live = FALSE]
  <1>1. s.live = FALSE /\ s.accepted = t.accepted /\ s.queue = t.queue /\ s.suspend = t.suspend
    BY DEF Transfers
  <1> HIDE DEF s
  <1>2. Fits(r, "done", s, n)
    BY <1>1 DEF Fits
  <1> QED
    BY <1>2 DEF s

(* The Close of the writer takes too long. *)
LEMMA FitsClosing ==
  ASSUME NEW t \in Transfers, NEW n, Fits("drain", "done", t, n)
  PROVE  Fits("read", "closing", [t EXCEPT !.failed = TRUE], n)
  <1> DEFINE s == [t EXCEPT !.failed = TRUE]
  <1>1. s.failed /\ s.live = t.live /\ s.accepted = t.accepted /\ s.queue = t.queue
        /\ s.suspend = t.suspend
    BY DEF Transfers
  <1> HIDE DEF s
  <1>2. Fits("read", "closing", s, n)
    BY <1>1 DEF Fits
  <1> QED
    BY <1>2 DEF s

(* handleIncomingCancel *)
LEMMA FitsCanceled ==
  ASSUME NEW t \in Transfers, NEW p, NEW n, Fits("read", p, t, n)
  PROVE  /\ [stopped(t) EXCEPT !.live = FALSE] \in Transfers
         /\ Fits("read", p, [stopped(t) EXCEPT !.live = FALSE], n)
  <1> DEFINE s == [stopped(t) EXCEPT !.live = FALSE]
  <1>1. s.live = FALSE /\ s.failed /\ s.closed /\ s.accepted = t.accepted /\ s.queue = t.queue
        /\ s.suspend = t.suspend /\ s \in Transfers
    BY DEF Transfers, stopped
  <1> HIDE DEF s
  <1>2. Fits("read", p, s, n)
    BY <1>1 DEF Fits
  <1> QED
    BY <1>1, <1>2 DEF s

(* cleanupIncoming *)
LEMMA FitsSuspended ==
  ASSUME NEW t \in Transfers, NEW p, NEW n, Fits("read", p, t, n)
  PROVE  /\ [suspended(t) EXCEPT !.live = FALSE] \in Transfers
         /\ Fits("ended", p, [suspended(t) EXCEPT !.live = FALSE], n)
         /\ ~t.live => Fits("ended", p, t, n)
  <1> DEFINE s == [suspended(t) EXCEPT !.live = FALSE]
  <1>1. s.live = FALSE /\ s.failed /\ s.closed /\ s.accepted = t.accepted /\ s.queue = t.queue
        /\ s \in Transfers
    BY DEF Transfers, suspended, stopped
  <1> HIDE DEF s
  <1>2. Fits("ended", p, s, n)
    BY <1>1 DEF Fits
  <1>3. ~t.live => Fits("ended", p, t, n)
    BY DEF Fits
  <1> QED
    BY <1>1, <1>2, <1>3 DEF s

(* The resume store is called, and has returned. *)
LEMMA FitsLoads ==
  ASSUME NEW t, NEW p, NEW n
  PROVE  /\ Fits("read", p, t, n) /\ ~t.live => Fits("load", p, t, n)
         /\ Fits("load", p, t, n) => Fits("read", p, t, n)
  BY DEF Fits

(* A Resume is accepted. *)
LEMMA FitsResumed ==
  ASSUME NEW n \in Nat, n <= ChunkCount
  PROVE  LET s == incomingAt(n)
             e == [stopped(incomingAt(n)) EXCEPT !.live = FALSE]
         IN  /\ s \in Transfers /\ Fits("read", "idle", s, n)
             /\ e \in Transfers /\ Fits("ended", "idle", e, n)
  <1> DEFINE s == incomingAt(n)
             e == [stopped(incomingAt(n)) EXCEPT !.live = FALSE]
  <1>1. n \in 0 .. ChunkCount /\ n = n + 0
    BY SMT
  <1>2. <<>> \in Seq(Chunks) /\ Len(<<>>) = 0 /\ UpTo(<<>>, n)
    BY SMT DEF UpTo
  <1>3. s \in Transfers /\ s.live /\ s.accepted = n /\ s.queue = <<>> /\ ~s.closed /\ ~s.failed
        /\ ~s.suspend
    BY <1>1, <1>2 DEF incomingAt, Transfers
  <1>4. e \in Transfers /\ ~e.live /\ e.accepted = n /\ e.queue = <<>> /\ e.failed /\ ~e.suspend
    BY <1>3 DEF stopped, Transfers
  <1> HIDE DEF s, e
  <1>5. Fits("read", "idle", s, n)
    BY <1>1, <1>2, <1>3 DEF Fits
  <1>6. Fits("ended", "idle", e, n)
    BY <1>2, <1>4 DEF Fits
  <1> QED
    BY <1>3, <1>4, <1>5, <1>6 DEF s, e

(* handleIncomingTransferEnd, all chunks accepted *)
LEMMA FitsEnded ==
  ASSUME NEW t \in Transfers, NEW p, NEW n, Fits("read", p, t, n), t.live,
         t.accepted = ChunkCount, p # "closing"
  PROVE  Fits("drain", p, [t EXCEPT !.closed = TRUE], n) /\ p \in {"idle", "write"}
  <1> DEFINE s == [t EXCEPT !.closed = TRUE]
  <1>1. s.closed /\ s.live = t.live /\ s.accepted = t.accepted /\ s.queue = t.queue
        /\ s.suspend = t.suspend /\ s.failed = t.failed
    BY DEF Transfers
  <1>2. p \in {"idle", "write"}
    BY DEF Fits
  <1> HIDE DEF s
  <1>3. Fits("drain", p, s, n)
    BY <1>1, <1>2 DEF Fits
  <1> QED
    BY <1>2, <1>3 DEF s

(* runIncomingTransfer takes a chunk off the queue. *)
popped(t) == [t EXCEPT !.queue = Tail(t.queue)]

(* A worker that takes the first queued chunk leaves the rest in order. *)
LEMMA QueueRest ==
  ASSUME NEW t \in Transfers, t.queue # <<>>, UpTo(t.queue, t.accepted)
  PROVE  /\ popped(t) \in Transfers
         /\ popped(t).live = t.live /\ popped(t).accepted = t.accepted
         /\ popped(t).closed = t.closed /\ popped(t).failed = t.failed
         /\ popped(t).suspend = t.suspend
         /\ Len(t.queue) \in Nat /\ Len(popped(t).queue) = Len(t.queue) - 1
         /\ UpTo(popped(t).queue, popped(t).accepted)
         /\ Head(t.queue) = t.accepted - Len(t.queue)
         /\ Len(t.queue) > 0 /\ t.accepted \in Int
  <1> DEFINE q == t.queue
             r == Tail(q)
             c == t.accepted
  <1>1. q \in Seq(Chunks) /\ q # <<>> /\ c \in 0 .. ChunkCount
    BY DEF Transfers
  <1>2. /\ r \in Seq(Chunks) /\ Len(q) \in Nat /\ Len(q) > 0 /\ Len(r) = Len(q) - 1
        /\ Head(q) = q[1] /\ \A i \in 1 .. Len(r) : r[i] = q[i + 1]
    BY <1>1, SMT
  <1>3. popped(t) \in Transfers /\ popped(t).live = t.live /\ popped(t).accepted = t.accepted
        /\ popped(t).closed = t.closed /\ popped(t).failed = t.failed
        /\ popped(t).suspend = t.suspend /\ popped(t).queue = r
    BY <1>2 DEF Transfers, popped
  <1>4. UpTo(q, c)
    OBVIOUS
  <1> HIDE DEF q, r, c
  <1>5. c \in Int
    BY <1>1, SMT
  <1>6. ASSUME NEW i \in 1 .. Len(r) PROVE r[i] = c - Len(r) + i - 1
    <2>1. i + 1 \in 1 .. Len(q) /\ r[i] = q[i + 1] /\ i \in Int
      BY <1>2, SMT
    <2>2. q[i + 1] = c - Len(q) + (i + 1) - 1
      BY <1>4, <2>1 DEF UpTo
    <2> QED
      BY <1>2, <1>5, <2>1, <2>2, SMT
  <1>7. UpTo(r, c)
    BY <1>6 DEF UpTo
  <1>8. Head(q) = c - Len(q)
    <2>1. 1 \in 1 .. Len(q)
      BY <1>2, SMT
    <2>2. q[1] = c - Len(q) + 1 - 1
      BY <1>4, <2>1 DEF UpTo
    <2> QED
      BY <1>2, <1>5, <2>2, SMT
  <1> QED
    BY <1>2, <1>3, <1>5, <1>7, <1>8 DEF q, r, c

(* The worker drops a chunk of a failed transfer. *)
LEMMA FitsDropped ==
  ASSUME NEW t \in Transfers, NEW r, NEW p \in {"idle", "write"}, NEW n \in Nat, Fits(r, p, t, n),
         t.failed, t.queue # <<>>
  PROVE  popped(t) \in Transfers /\ Fits(r, "idle", popped(t), n)
  <1>1. UpTo(t.queue, t.accepted)
    BY DEF Fits
  <1>2. /\ popped(t) \in Transfers
        /\ popped(t).live = t.live /\ popped(t).accepted = t.accepted
        /\ popped(t).closed = t.closed /\ popped(t).failed = t.failed
        /\ popped(t).suspend = t.suspend /\ UpTo(popped(t).queue, popped(t).accepted)
    BY <1>1, QueueRest
  <1>3. Fits(r, "idle", popped(t), n)
    BY <1>2 DEF Fits
  <1> QED
    BY <1>2, <1>3

(* The worker has written the next chunk. *)
LEMMA FitsWritten ==
  ASSUME Bounds, NEW t \in Transfers, NEW r, NEW n \in Nat, Fits(r, "write", t, n)
  PROVE  /\ popped(t) \in Transfers /\ Fits(r, "idle", popped(t), n + 1)
         /\ Head(t.queue) = n /\ n \in Chunks /\ t.queue # <<>>
  <1>1. t.queue # <<>> /\ UpTo(t.queue, t.accepted) /\ t.accepted = n + Len(t.queue)
    BY DEF Fits
  <1>2. /\ popped(t) \in Transfers
        /\ popped(t).live = t.live /\ popped(t).accepted = t.accepted
        /\ popped(t).closed = t.closed /\ popped(t).failed = t.failed
        /\ popped(t).suspend = t.suspend /\ UpTo(popped(t).queue, popped(t).accepted)
        /\ Len(t.queue) \in Nat /\ Len(popped(t).queue) = Len(t.queue) - 1
        /\ Head(t.queue) = t.accepted - Len(t.queue) /\ Len(t.queue) > 0
    BY <1>1, QueueRest
  <1>3. t.accepted \in 0 .. ChunkCount
    BY DEF Transfers
  <1>4. /\ popped(t).accepted = (n + 1) + Len(popped(t).queue)
        /\ Head(t.queue) = n /\ n \in Chunks
    <2> DEFINE a == t.accepted
               l == Len(t.queue)
               b == popped(t).accepted
               m == Len(popped(t).queue)
               h == Head(t.queue)
    <2>1. a \in 0 .. ChunkCount /\ a = n + l /\ b = a /\ l \in Nat /\ m = l - 1 /\ h = a - l /\ l > 0
      BY <1>1, <1>2, <1>3
    <2> HIDE DEF a, l, b, m, h
    <2>2. b = (n + 1) + m /\ h = n /\ n \in 0 .. ChunkCount - 1
      BY <2>1, SMT DEF Bounds
    <2> QED
      BY <2>2 DEF b, m, h, Chunks
  <1>5. Fits(r, "idle", popped(t), n + 1)
    BY <1>2, <1>4 DEF Fits
  <1> QED
    BY <1>1, <1>2, <1>4, <1>5

(* The worker starts a write. *)
LEMMA FitsWrites ==
  ASSUME NEW t \in Transfers, NEW r, NEW n, Fits(r, "idle", t, n), ~t.failed, t.queue # <<>>
  PROVE  Fits(r, "write", t, n)
  BY DEF Fits

(* runIncomingTransfer ends. *)
LEMMA FitsDone ==
  ASSUME NEW t \in Transfers, NEW r, NEW n \in Nat, Fits(r, "idle", t, n), t.closed, t.queue = <<>>
  PROVE  /\ Fits(r, "done", t, n)
         /\ ~t.failed => r = "drain"
         /\ t.failed => r # "drain"
         /\ t.suspend => r = "ended"
  <1>1. ~t.failed => r = "drain"
    BY DEF Fits
  <1>2. t.failed => r # "drain" /\ ~t.live
    BY DEF Fits
  <1>3. r = "drain" => n = ChunkCount
    <2>1. Len(<<>>) = 0
      BY SMT
    <2>2. r = "drain" => ChunkCount = n + Len(<<>>)
      BY <1>2 DEF Fits
    <2> QED
      BY <2>1, <2>2, SMT
  <1> QED
    BY <1>1, <1>2, <1>3 DEF Fits

-----------------------------------------------------------------------------
(* The actions of the receiver. *)

(* handleIncomingTransferEnd up to the wait *)
LEMMA EndStep ==
  ASSUME IInv, NEW k \in Sessions, HandleEnd(k)
  PROVE  IInv'
  <1>1. ReadsLow(k, End) /\ UNCHANGED <<txVars, link, high, back, store, wpc, body, written>>
    BY DEF HandleEnd
  <1>2. /\ Local(k) /\ Token(k) /\ Used(k) /\ Unborn(k) /\ HonestBack(k)
        /\ OneOffer(k) /\ EndLast(k) /\ LinkTypes /\ ReceiverTypes /\ tr[k] \in Transfers
    BY Here
  <1>3. /\ low' \in [Sessions -> Seq(0 .. ChunkCount)]
        /\ \A j \in Sessions : j # k => low'[j] = low[j]
        /\ ~Ending(k)' /\ Ending(k) /\ EndLast(k)' /\ rl[k] = "read"
    BY <1>1, <1>2, LowRead
  <1>4. (Offered(k)' => Offered(k)) /\ OneOffer(k)' /\ HonestBack(k)'
    BY <1>1, <1>2, SameBack
  <1>5. LinkTypes'
    BY <1>1, <1>2, <1>3 DEF LinkTypes
  <1>6. Settles /\ Unborn(k)'
    BY <1>1, <1>2, <1>3, Born DEF Settles, txVars
  <1>7. InOrder' /\ (Len(written) <= ChunkCount)'
    BY <1>1 DEF IInv, InOrder
  <1>8. CASE tr' = tr /\ rl' = rl
    <2>1. (Holds(k)' <=> Holds(k)) /\ (Committing(k)' <=> Committing(k)) /\ HandsOver(k)
      BY <1>1, <1>8 DEF Holds, Committing, HandsOver
    <2>2. Token(k)' /\ Used(k)'
      BY <1>1, <1>2, <1>3, <1>4, <1>6, <1>8, <2>1, TokenKept
    <2>3. ReceiverTypes' /\ Local(k)' /\ AtOthers(k)
      BY <1>1, <1>2, <1>3, <1>8 DEF ReceiverTypes, Local, AtOthers
    <2> QED
      BY <1>1, <1>4, <1>5, <1>6, <1>7, <2>1, <2>2, <2>3, ReceiverStep
  <1>9. CASE /\ tr[k].live /\ tr[k].accepted = ChunkCount
             /\ tr' = [tr EXCEPT ![k].closed = TRUE] /\ rl' = [rl EXCEPT ![k] = "drain"]
    <2> DEFINE r == [tr[k] EXCEPT !.closed = TRUE]
    <2>1. tr' = [tr EXCEPT ![k] = r] /\ r \in Transfers
      BY <1>2, <1>9, Marks
    <2>2. wpc[k] # "closing"
      BY <1>2, <1>3 DEF Token, Committing
    <2>3. Fits("drain", wpc[k], r, Len(written)) /\ wpc[k] \in {"idle", "write"}
      BY <1>2, <1>3, <1>9, <2>2, FitsEnded DEF Local
    <2> HIDE DEF r
    <2>4. /\ tr' \in [Sessions -> Transfers] /\ tr'[k] = r
          /\ \A j \in Sessions : j # k => tr'[j] = tr[j]
      BY <2>1, Replaced
    <2>5. /\ rl' \in [Sessions -> {"none", "read", "load", "drain", "ended"}] /\ rl'[k] = "drain"
          /\ \A j \in Sessions : j # k => rl'[j] = rl[j]
      BY <1>2, <1>9, LoopSet
    <2>6. ReceiverTypes' /\ Local(k)' /\ AtOthers(k)
      BY <1>1, <1>2, <1>3, <2>3, <2>4, <2>5 DEF ReceiverTypes, Local, AtOthers
    <2>7. Holds(k)' /\ Holds(k) /\ HandsOver(k)
      BY <1>1, <2>3, <2>5 DEF Holds, HandsOver
    <2>8. Sending(k)' <=> Sending(k)
      BY <1>1 DEF Sending, txVars
    <2>9. Token(k)' /\ Used(k)'
      BY <1>2, <1>3, <1>4, <2>7, <2>8 DEF Token, Used
    <2> QED
      BY <1>1, <1>4, <1>5, <1>6, <1>7, <2>6, <2>7, <2>9, ReceiverStep
  <1> QED
    BY <1>8, <1>9 DEF HandleEnd

(* An answer that is not an acceptance. *)
LEMMA PlainAnswer ==
  ASSUME NEW flag \in {"completed", "failed", "rejected"}, NEW k, Put(back, k, Answer(flag)), Bounds,
         flag = "completed" => body' = "committed"
  PROVE  \E f \in States : Answers(k, f)
  <1>1. 0 \in 0 .. ChunkCount
    BY SMT DEF Bounds
  <1>2. Answer(flag) \in States /\ Answer(flag).flag = flag
    BY <1>1 DEF Answer, States
  <1> QED
    BY <1>2 DEF Answers

(* handleIncomingTransferEnd after the wait *)
LEMMA CommitStep ==
  ASSUME Bounds, IInv, NEW k \in Sessions, Commit(k)
  PROVE  IInv'
  <1>1. /\ rl[k] = "drain" /\ wpc[k] = "done" /\ rl' = [rl EXCEPT ![k] = "read"]
        /\ UNCHANGED <<txVars, link, high, low, store, written>>
    BY DEF Commit
  <1>2. Local(k) /\ (Holds(k) => body = "open") /\ LinkTypes /\ ReceiverTypes /\ tr[k] \in Transfers
    BY Here
  <1>3. Holds(k) /\ Committing(k) /\ body = "open"
    BY <1>1, <1>2 DEF Holds, Committing
  <1>4. /\ rl' \in [Sessions -> {"none", "read", "load", "drain", "ended"}] /\ rl'[k] = "read"
        /\ \A j \in Sessions : j # k => rl'[j] = rl[j]
    BY <1>1, <1>2, LoopSet
  <1>5. Fits("drain", "done", tr[k], Len(written))
    BY <1>1, <1>2 DEF Local
  <1>6. high' \in [Sessions -> [resume : Nat, cancel : Nat]] /\ Settles
    BY <1>1, <1>2, <1>3 DEF LinkTypes, Settles
  <1>7. CASE /\ body' \in {"committed", "dropped"} /\ tr' = [tr EXCEPT ![k].live = FALSE] /\ wpc' = wpc
             /\ \E f \in States : Answers(k, f)
    <2> DEFINE r == [tr[k] EXCEPT !.live = FALSE]
    <2>1. tr' = [tr EXCEPT ![k] = r] /\ r \in Transfers
      BY <1>2, <1>7, Marks
    <2>2. Fits("read", "done", r, Len(written))
      BY <1>2, <1>5, FitsLeft
    <2> HIDE DEF r
    <2>3. /\ tr' \in [Sessions -> Transfers] /\ tr'[k] = r
          /\ \A j \in Sessions : j # k => tr'[j] = tr[j]
      BY <2>1, Replaced
    <2>4. ReceiverTypes'
      BY <1>1, <1>2, <1>4, <1>7, <2>3 DEF ReceiverTypes
    <2>5. Local(k)' /\ OnlyAt(k)
      BY <1>1, <1>4, <1>7, <2>2, <2>3 DEF Local, OnlyAt
    <2>6. ~Holds(k)' /\ ~Committing(k)' /\ HandsOver(k)
      BY <1>1, <1>3, <1>4, <1>7 DEF Holds, Committing, HandsOver
    <2> QED
      BY <1>1, <1>3, <1>6, <1>7, <2>4, <2>5, <2>6, UsualStep
  <1>8. CASE /\ body' = body /\ tr' = [tr EXCEPT ![k].failed = TRUE]
             /\ wpc' = [wpc EXCEPT ![k] = "closing"] /\ \E f \in States : Answers(k, f)
    <2> DEFINE r == [tr[k] EXCEPT !.failed = TRUE]
    <2>1. tr' = [tr EXCEPT ![k] = r] /\ r \in Transfers
      BY <1>2, <1>8, Marks
    <2>2. Fits("read", "closing", r, Len(written))
      BY <1>2, <1>5, FitsClosing
    <2> HIDE DEF r
    <2>3. /\ tr' \in [Sessions -> Transfers] /\ tr'[k] = r
          /\ \A j \in Sessions : j # k => tr'[j] = tr[j]
      BY <2>1, Replaced
    <2>4. /\ wpc' \in [Sessions -> {"none", "idle", "write", "done", "closing"}]
          /\ wpc'[k] = "closing" /\ \A j \in Sessions : j # k => wpc'[j] = wpc[j]
      BY <1>2, <1>8, WorkerSet
    <2>5. ReceiverTypes'
      BY <1>1, <1>2, <1>4, <1>8, <2>3, <2>4 DEF ReceiverTypes
    <2>6. Local(k)' /\ OnlyAt(k)
      BY <1>1, <1>4, <1>8, <2>2, <2>3, <2>4 DEF Local, OnlyAt
    <2>7. Holds(k)' /\ HandsOver(k)
      BY <1>3, <1>8, <2>4 DEF Holds, HandsOver
    <2> QED
      BY <1>1, <1>3, <1>6, <1>8, <2>5, <2>6, <2>7, UsualStep
  <1> QED
    BY <1>7, <1>8, PlainAnswer DEF Commit

(* The Close that took too long returns. *)
LEMMA CloseLateStep ==
  ASSUME IInv, NEW k \in Sessions, CloseReturnsLate(k)
  PROVE  IInv'
  <1>1. /\ wpc[k] = "closing" /\ wpc' = [wpc EXCEPT ![k] = "done"] /\ body' = "dropped"
        /\ tr' = [tr EXCEPT ![k].live = FALSE]
        /\ UNCHANGED <<txVars, link, high, low, back, rl, store, written>>
    BY DEF CloseReturnsLate
  <1>2. Local(k) /\ (Holds(k) => body = "open") /\ LinkTypes /\ ReceiverTypes /\ tr[k] \in Transfers
    BY Here
  <1>3. Holds(k) /\ body = "open"
    BY <1>1, <1>2 DEF Holds
  <1>4. Fits(rl[k], "closing", tr[k], Len(written)) /\ rl[k] # "drain"
    BY <1>1, <1>2 DEF Local, Fits
  <1> DEFINE r == [tr[k] EXCEPT !.live = FALSE]
  <1>5. tr' = [tr EXCEPT ![k] = r] /\ r \in Transfers
    BY <1>1, <1>2, Marks
  <1>6. Fits(rl[k], "done", r, Len(written))
    <2>1. CASE rl[k] \in {"read", "ended"}
      BY <1>2, <1>4, <2>1, FitsLeft
    <2>2. CASE rl[k] \in {"none", "load"}
      <3>1. Fits("read", "done", r, Len(written))
        BY <1>2, <1>4, <2>2, FitsLeft
      <3>2. ~r.live
        BY <1>2 DEF Transfers
      <3> HIDE DEF r
      <3> QED
        BY <2>2, <3>1, <3>2 DEF Fits
    <2> QED
      BY <1>2, <1>4, <2>1, <2>2 DEF ReceiverTypes
  <1> HIDE DEF r
  <1>7. /\ tr' \in [Sessions -> Transfers] /\ tr'[k] = r
        /\ \A j \in Sessions : j # k => tr'[j] = tr[j]
    BY <1>5, Replaced
  <1>8. /\ wpc' \in [Sessions -> {"none", "idle", "write", "done", "closing"}]
        /\ wpc'[k] = "done" /\ \A j \in Sessions : j # k => wpc'[j] = wpc[j]
    BY <1>1, <1>2, WorkerSet
  <1>9. ReceiverTypes'
    BY <1>1, <1>2, <1>7, <1>8 DEF ReceiverTypes
  <1>10. Local(k)' /\ OnlyAt(k)
    BY <1>1, <1>6, <1>7, <1>8 DEF Local, OnlyAt
  <1>11. ~Holds(k)' /\ ~Committing(k)' /\ HandsOver(k) /\ Settles
    BY <1>1, <1>3, <1>4, <1>8 DEF Holds, Committing, HandsOver, Settles
  <1>12. high' \in [Sessions -> [resume : Nat, cancel : Nat]]
    BY <1>1, <1>2 DEF LinkTypes
  <1> QED
    BY <1>1, <1>9, <1>10, <1>11, <1>12, UsualStep

(* handleIncomingCancel *)
LEMMA CancelStep ==
  ASSUME IInv, NEW k \in Sessions, HandleCancel(k)
  PROVE  IInv'
  <1>1. /\ ReadsHigh(k, "cancel")
        /\ tr' = tr \/ tr' = [tr EXCEPT ![k] = [stopped(tr[k]) EXCEPT !.live = FALSE]]
        /\ UNCHANGED <<txVars, link, low, back, rl, store, wpc, body, written>>
    BY DEF HandleCancel
  <1>2. Local(k) /\ LinkTypes /\ ReceiverTypes /\ tr[k] \in Transfers
    BY Here
  <1>3. high' \in [Sessions -> [resume : Nat, cancel : Nat]] /\ rl[k] = "read"
    BY <1>1, <1>2, HighRead
  <1>4. /\ tr' \in [Sessions -> Transfers] /\ Local(k)'
        /\ \A j \in Sessions : j # k => tr'[j] = tr[j]
    <2>1. CASE tr' = tr
      BY <1>1, <1>2, <2>1 DEF Local, ReceiverTypes
    <2>2. CASE tr' = [tr EXCEPT ![k] = [stopped(tr[k]) EXCEPT !.live = FALSE]]
      <3> DEFINE r == [stopped(tr[k]) EXCEPT !.live = FALSE]
      <3>1. Fits("read", wpc[k], tr[k], Len(written))
        BY <1>2, <1>3 DEF Local
      <3>2. r \in Transfers /\ Fits("read", wpc[k], r, Len(written)) /\ tr' = [tr EXCEPT ![k] = r]
        BY <1>2, <2>2, <3>1, FitsCanceled
      <3> HIDE DEF r
      <3>3. /\ tr' \in [Sessions -> Transfers] /\ tr'[k] = r
            /\ \A j \in Sessions : j # k => tr'[j] = tr[j]
        BY <3>2, Replaced
      <3> QED
        BY <1>1, <1>3, <3>2, <3>3 DEF Local
    <2> QED
      BY <1>1, <2>1, <2>2
  <1>5. ReceiverTypes' /\ OnlyAt(k)
    BY <1>1, <1>2, <1>3, <1>4 DEF ReceiverTypes, OnlyAt
  <1>6. (Holds(k)' <=> Holds(k)) /\ (Committing(k)' <=> Committing(k)) /\ HandsOver(k) /\ Settles
    BY <1>1 DEF Holds, Committing, HandsOver, Settles
  <1> QED
    BY <1>1, <1>3, <1>4, <1>5, <1>6, UsualStep

(* handleIncomingTransferResume up to the call of the store *)
LEMMA ResumeStep ==
  ASSUME Bounds, IInv, NEW k \in Sessions, HandleResume(k)
  PROVE  IInv'
  <1>1. ReadsHigh(k, "resume") /\ UNCHANGED <<txVars, link, low, tr, wpc, body, written>>
    BY DEF HandleResume
  <1>2. Local(k) /\ LinkTypes /\ ReceiverTypes
    BY Here
  <1>3. high' \in [Sessions -> [resume : Nat, cancel : Nat]] /\ rl[k] = "read"
    BY <1>1, <1>2, HighRead
  <1>4. Settles
    BY <1>1 DEF Settles
  <1>5. CASE Put(back, k, Answer("rejected")) /\ UNCHANGED <<rl, store>>
    <2>1. \E f \in States : Answers(k, f)
      BY <1>5, PlainAnswer
    <2>2. ReceiverTypes' /\ OnlyAt(k) /\ Local(k)'
      BY <1>1, <1>2, <1>3, <1>5 DEF ReceiverTypes, OnlyAt, Local
    <2>3. (Holds(k)' <=> Holds(k)) /\ (Committing(k)' <=> Committing(k)) /\ HandsOver(k)
      BY <1>1, <1>5 DEF Holds, Committing, HandsOver
    <2> QED
      BY <1>1, <1>3, <1>4, <1>5, <2>1, <2>2, <2>3, UsualStep
  <1>6. CASE /\ ~tr[k].live /\ rl' = [rl EXCEPT ![k] = "load"]
             /\ store' = [store EXCEPT ![k] = "call"] /\ UNCHANGED back
    <2>1. /\ rl' \in [Sessions -> {"none", "read", "load", "drain", "ended"}] /\ rl'[k] = "load"
          /\ \A j \in Sessions : j # k => rl'[j] = rl[j]
      BY <1>2, <1>6, LoopSet
    <2>2. store' \in [Sessions -> {"none", "call", "late"}]
      BY <1>2, <1>6, SMT DEF ReceiverTypes
    <2>3. ReceiverTypes' /\ OnlyAt(k)
      BY <1>1, <1>2, <1>3, <2>1, <2>2 DEF ReceiverTypes, OnlyAt
    <2>4. Local(k)'
      BY <1>1, <1>2, <1>3, <1>6, <2>1, FitsLoads DEF Local
    <2>5. (Holds(k)' <=> Holds(k)) /\ (Committing(k)' <=> Committing(k)) /\ HandsOver(k)
      BY <1>1, <1>3, <2>1 DEF Holds, Committing, HandsOver
    <2> QED
      BY <1>1, <1>3, <1>4, <1>6, <2>3, <2>4, <2>5, UsualStep
  <1> QED
    BY <1>5, <1>6 DEF HandleResume

(* The store is back from its call, or the session no longer waits for it: *)
(* no transfer begins.                                                     *)
LEMMA RefusedStep ==
  ASSUME Bounds, IInv, NEW k \in Sessions, rl[k] = "load", rl' = [rl EXCEPT ![k] = "read"],
         NEW s \in {"none", "late"}, store' = [store EXCEPT ![k] = s],
         Put(back, k, Answer("rejected")),
         body' = body \/ (body = "suspended" /\ body' = "dropped"),
         UNCHANGED <<txVars, link, high, low, tr, wpc, written>>
  PROVE  IInv'
  <1>1. Local(k) /\ (Holds(k) => body = "open") /\ LinkTypes /\ ReceiverTypes
    BY Here
  <1>2. \E f \in States : Answers(k, f)
    BY PlainAnswer
  <1>3. /\ rl' \in [Sessions -> {"none", "read", "load", "drain", "ended"}] /\ rl'[k] = "read"
        /\ \A j \in Sessions : j # k => rl'[j] = rl[j]
    BY <1>1, LoopSet
  <1>4. store' \in [Sessions -> {"none", "call", "late"}]
    BY <1>1, SMT DEF ReceiverTypes
  <1>5. body' \in {"open", "suspended", "committed", "dropped"} /\ Settles
    BY <1>1 DEF ReceiverTypes, Settles
  <1>6. ReceiverTypes' /\ OnlyAt(k)
    BY <1>1, <1>3, <1>4, <1>5 DEF ReceiverTypes, OnlyAt
  <1>7. Local(k)'
    BY <1>1, <1>3, FitsLoads DEF Local
  <1>8. (Holds(k)' <=> Holds(k)) /\ (Committing(k)' <=> Committing(k))
    BY <1>3 DEF Holds, Committing
  <1>9. HandsOver(k)
    BY <1>1, <1>8 DEF HandsOver
  <1>10. high' \in [Sessions -> [resume : Nat, cancel : Nat]]
    BY <1>1 DEF LinkTypes
  <1> QED
    BY <1>2, <1>5, <1>6, <1>7, <1>8, <1>9, <1>10, UsualStep

(* The store answers a handler that has given up. *)
LEMMA StoreLateStep ==
  ASSUME IInv, NEW k \in Sessions, StoreAnswersLate(k)
  PROVE  IInv'
  <1>1. /\ store' = [store EXCEPT ![k] = "none"]
        /\ body' = body \/ (body = "suspended" /\ body' = "dropped")
        /\ UNCHANGED <<txVars, link, high, low, back, rl, tr, wpc, written>>
    BY DEF StoreAnswersLate, StoreHasWriter
  <1>2. Local(k) /\ (Holds(k) => body = "open") /\ LinkTypes /\ ReceiverTypes
    BY Here
  <1>3. store' \in [Sessions -> {"none", "call", "late"}]
    BY <1>1, <1>2, SMT DEF ReceiverTypes
  <1>4. body' \in {"open", "suspended", "committed", "dropped"} /\ Settles
    BY <1>1, <1>2 DEF ReceiverTypes, Settles
  <1>5. ReceiverTypes' /\ OnlyAt(k) /\ Local(k)'
    BY <1>1, <1>2, <1>3, <1>4 DEF ReceiverTypes, OnlyAt, Local
  <1>6. (Holds(k)' <=> Holds(k)) /\ (Committing(k)' <=> Committing(k))
    BY <1>1 DEF Holds, Committing
  <1>7. HandsOver(k) /\ high' \in [Sessions -> [resume : Nat, cancel : Nat]]
    BY <1>1, <1>2, <1>6 DEF HandsOver, LinkTypes
  <1> QED
    BY <1>1, <1>4, <1>5, <1>6, <1>7, UsualStep

(* The store hands out the suspended writer: session k has not had it before, *)
(* since nobody may send into it.                                             *)
LEMMA AcceptStep ==
  ASSUME Bounds, IInv, NEW k \in Sessions, rl[k] = "load", store' = [store EXCEPT ![k] = "none"],
         body = "suspended", body' = "open", wpc' = [wpc EXCEPT ![k] = "idle"], AcceptResume(k),
         UNCHANGED <<txVars, link, high, low, written>>
  PROVE  IInv'
  <1>1. /\ Local(k) /\ Token(k) /\ Used(k) /\ Unborn(k) /\ HonestBack(k) /\ OneOffer(k) /\ EndLast(k)
        /\ (Holds(k) => body = "open") /\ LinkTypes /\ ReceiverTypes
        /\ Len(written) \in Nat /\ Len(written) <= ChunkCount
    BY Here
  <1>2. ~Offered(k) /\ ~Sending(k) /\ ~Ending(k) /\ ~Committing(k)
    BY <1>1 DEF Used
  <1>3. /\ wpc' \in [Sessions -> {"none", "idle", "write", "done", "closing"}]
        /\ wpc'[k] = "idle" /\ \A j \in Sessions : j # k => wpc'[j] = wpc[j]
    BY <1>1, WorkerSet
  <1>4. store' \in [Sessions -> {"none", "call", "late"}]
    BY <1>1, SMT DEF ReceiverTypes
  <1>5. Holds(k)' /\ HandsOver(k) /\ Settles
    BY <1>3 DEF Holds, HandsOver, Settles
  <1>6. ~Sending(k)' /\ ~Ending(k)' /\ EndLast(k)' /\ Unborn(k)'
    BY <1>1, <1>2, SameLow, Born DEF Sending, txVars
  <1>7. InOrder' /\ (Len(written) <= ChunkCount)'
    BY DEF IInv, InOrder
  <1> DEFINE n == Len(written)
             s == incomingAt(n)
             e == [stopped(incomingAt(n)) EXCEPT !.live = FALSE]
  <1>8. s \in Transfers /\ Fits("read", "idle", s, n) /\ e \in Transfers /\ Fits("ended", "idle", e, n)
    BY <1>1, FitsResumed
  <1>9. ASSUME NEW r \in Transfers, NEW p \in {"read", "ended"}, tr' = [tr EXCEPT ![k] = r],
               rl' = [rl EXCEPT ![k] = p], Fits(p, "idle", r, n),
               back' \in [Sessions -> Seq(States)], \A j \in Sessions : j # k => back'[j] = back[j],
               OneOffer(k)', HonestBack(k)'
        PROVE  IInv'
    <2>1. /\ tr' \in [Sessions -> Transfers] /\ tr'[k] = r
          /\ \A j \in Sessions : j # k => tr'[j] = tr[j]
      BY <1>9, Replaced
    <2>2. /\ rl' \in [Sessions -> {"none", "read", "load", "drain", "ended"}] /\ rl'[k] = p
          /\ \A j \in Sessions : j # k => rl'[j] = rl[j]
      BY <1>1, <1>9, LoopSet
    <2>3. ReceiverTypes'
      BY <1>1, <1>3, <1>4, <2>1, <2>2 DEF ReceiverTypes
    <2>4. LinkTypes' /\ AtOthers(k)
      BY <1>1, <1>3, <1>9, <2>1, <2>2 DEF LinkTypes, AtOthers
    <2>5. Local(k)'
      BY <1>3, <1>9, <2>1, <2>2 DEF Local
    <2>6. ~Committing(k)'
      BY <1>3, <2>2 DEF Committing
    <2>7. Token(k)' /\ Used(k)'
      BY <1>5, <1>6, <1>9, <2>6 DEF Token, Used
    <2> QED
      BY <1>5, <1>6, <1>7, <1>9, <2>3, <2>4, <2>5, <2>7, ReceiverStep
  <1>10. CASE /\ tr' = [tr EXCEPT ![k] = s] /\ rl' = [rl EXCEPT ![k] = "read"]
              /\ Put(back, k, Accepted(n))
    <2>1. n \in 0 .. ChunkCount
      BY <1>1, SMT DEF Bounds
    <2>2. Accepted(n) \in States /\ Accepted(n).flag = "accepted"
      BY <2>1 DEF Accepted, States
    <2>3. /\ back' \in [Sessions -> Seq(States)] /\ \A j \in Sessions : j # k => back'[j] = back[j]
          /\ OneOffer(k)' /\ HonestBack(k)'
      BY <1>1, <1>2, <1>10, <2>2, BackSent
    <2> QED
      BY <1>8, <1>9, <1>10, <2>3
  <1>11. CASE /\ tr' = [tr EXCEPT ![k] = e] /\ rl' = [rl EXCEPT ![k] = "ended"] /\ UNCHANGED back
    <2>1. /\ back' \in [Sessions -> Seq(States)] /\ \A j \in Sessions : j # k => back'[j] = back[j]
          /\ OneOffer(k)' /\ HonestBack(k)'
      BY <1>1, <1>11, SameBack DEF LinkTypes
    <2> QED
      BY <1>8, <1>9, <1>11, <2>1
  <1> QED
    BY <1>10, <1>11 DEF AcceptResume

(* handleIncomingTransferResume after the call of the store *)
LEMMA StoreStep ==
  ASSUME Bounds, IInv, NEW k \in Sessions, StoreAnswers(k) \/ StoreTimesOut(k)
  PROVE  IInv'
  <1>1. CASE StoreTimesOut(k)
    BY <1>1, RefusedStep DEF StoreTimesOut
  <1>2. CASE StoreAnswers(k)
    <2>1. CASE StoreHasWriter /\ body' = "open" /\ wpc' = [wpc EXCEPT ![k] = "idle"] /\ AcceptResume(k)
      BY <1>2, <2>1, AcceptStep DEF StoreAnswers, StoreHasWriter
    <2>2. CASE /\ body' = body \/ (StoreHasWriter /\ body' = "dropped")
               /\ rl' = [rl EXCEPT ![k] = "read"] /\ Put(back, k, Answer("rejected"))
               /\ UNCHANGED <<tr, wpc>>
      BY <1>2, <2>2, RefusedStep DEF StoreAnswers, StoreHasWriter
    <2> QED
      BY <1>2, <2>1, <2>2 DEF StoreAnswers
  <1> QED
    BY <1>1, <1>2

(* cleanupIncoming *)
LEMMA DownStep ==
  ASSUME IInv, NEW k \in Sessions, ReceiverDown(k)
  PROVE  IInv'
  <1>1. /\ rl[k] = "read" /\ rl' = [rl EXCEPT ![k] = "ended"]
        /\ \/ ~tr[k].live /\ tr' = tr
           \/ tr' = [tr EXCEPT ![k] = [suspended(tr[k]) EXCEPT !.live = FALSE]]
        /\ UNCHANGED <<txVars, link, high, low, back, store, wpc, body, written>>
    BY DEF ReceiverDown
  <1>2. Local(k) /\ LinkTypes /\ ReceiverTypes /\ tr[k] \in Transfers
    BY Here
  <1>3. /\ rl' \in [Sessions -> {"none", "read", "load", "drain", "ended"}] /\ rl'[k] = "ended"
        /\ \A j \in Sessions : j # k => rl'[j] = rl[j]
    BY <1>1, <1>2, LoopSet
  <1>4. Fits("read", wpc[k], tr[k], Len(written))
    BY <1>1, <1>2 DEF Local
  <1>5. /\ tr' \in [Sessions -> Transfers] /\ Local(k)'
        /\ \A j \in Sessions : j # k => tr'[j] = tr[j]
    <2>1. CASE ~tr[k].live /\ tr' = tr
      BY <1>1, <1>2, <1>3, <1>4, <2>1, FitsSuspended DEF Local, ReceiverTypes
    <2>2. CASE tr' = [tr EXCEPT ![k] = [suspended(tr[k]) EXCEPT !.live = FALSE]]
      <3> DEFINE r == [suspended(tr[k]) EXCEPT !.live = FALSE]
      <3>1. r \in Transfers /\ Fits("ended", wpc[k], r, Len(written)) /\ tr' = [tr EXCEPT ![k] = r]
        BY <1>2, <1>4, <2>2, FitsSuspended
      <3> HIDE DEF r
      <3>2. /\ tr' \in [Sessions -> Transfers] /\ tr'[k] = r
            /\ \A j \in Sessions : j # k => tr'[j] = tr[j]
        BY <3>1, Replaced
      <3> QED
        BY <1>1, <1>3, <3>1, <3>2 DEF Local
    <2> QED
      BY <1>1, <2>1, <2>2
  <1>6. ReceiverTypes' /\ OnlyAt(k)
    BY <1>1, <1>2, <1>3, <1>5 DEF ReceiverTypes, OnlyAt
  <1>7. (Holds(k)' <=> Holds(k)) /\ (Committing(k)' <=> Committing(k)) /\ HandsOver(k) /\ Settles
    BY <1>1, <1>3 DEF Holds, Committing, HandsOver, Settles
  <1>8. high' \in [Sessions -> [resume : Nat, cancel : Nat]]
    BY <1>1, <1>2 DEF LinkTypes
  <1> QED
    BY <1>1, <1>3, <1>5, <1>6, <1>7, <1>8, UsualStep

(* runIncomingTransfer takes a chunk. *)
LEMMA TakesStep ==
  ASSUME IInv, NEW k \in Sessions, WorkerTakes(k)
  PROVE  IInv'
  <1>1. /\ wpc[k] = "idle" /\ tr[k].queue # <<>>
        /\ \/ tr[k].failed /\ tr' = [tr EXCEPT ![k] = popped(tr[k])] /\ UNCHANGED wpc
           \/ ~tr[k].failed /\ wpc' = [wpc EXCEPT ![k] = "write"] /\ UNCHANGED tr
        /\ UNCHANGED <<txVars, link, high, low, back, rl, store, body, written>>
    BY DEF WorkerTakes, popped
  <1>2. /\ Local(k) /\ LinkTypes /\ ReceiverTypes /\ tr[k] \in Transfers
        /\ Len(written) \in Nat
    BY Here
  <1>3. Fits(rl[k], "idle", tr[k], Len(written))
    BY <1>1, <1>2 DEF Local
  <1>4. high' \in [Sessions -> [resume : Nat, cancel : Nat]] /\ Settles /\ Holds(k)
    BY <1>1, <1>2 DEF LinkTypes, Settles, Holds
  <1>5. CASE tr[k].failed /\ tr' = [tr EXCEPT ![k] = popped(tr[k])] /\ UNCHANGED wpc
    <2>1. popped(tr[k]) \in Transfers /\ Fits(rl[k], "idle", popped(tr[k]), Len(written))
      BY <1>1, <1>2, <1>3, <1>5, FitsDropped
    <2>2. /\ tr' \in [Sessions -> Transfers] /\ tr'[k] = popped(tr[k])
          /\ \A j \in Sessions : j # k => tr'[j] = tr[j]
      BY <1>5, <2>1, Replaced
    <2>3. ReceiverTypes' /\ OnlyAt(k) /\ Local(k)'
      BY <1>1, <1>2, <1>5, <2>1, <2>2 DEF ReceiverTypes, OnlyAt, Local
    <2>4. (Holds(k)' <=> Holds(k)) /\ (Committing(k)' <=> Committing(k)) /\ HandsOver(k)
      BY <1>1, <1>5 DEF Holds, Committing, HandsOver
    <2> QED
      BY <1>1, <1>4, <2>3, <2>4, UsualStep
  <1>6. CASE ~tr[k].failed /\ wpc' = [wpc EXCEPT ![k] = "write"] /\ UNCHANGED tr
    <2>1. Fits(rl[k], "write", tr[k], Len(written))
      BY <1>1, <1>2, <1>3, <1>6, FitsWrites
    <2>2. /\ wpc' \in [Sessions -> {"none", "idle", "write", "done", "closing"}]
          /\ wpc'[k] = "write" /\ \A j \in Sessions : j # k => wpc'[j] = wpc[j]
      BY <1>2, <1>6, WorkerSet
    <2>3. ReceiverTypes' /\ OnlyAt(k) /\ Local(k)'
      BY <1>1, <1>2, <1>6, <2>1, <2>2 DEF ReceiverTypes, OnlyAt, Local
    <2>4. Holds(k)' /\ (Committing(k)' => Committing(k)) /\ HandsOver(k)
      BY <1>1, <1>4, <2>2 DEF Holds, Committing, HandsOver
    <2> QED
      BY <1>1, <1>4, <2>3, <2>4, UsualStep
  <1> QED
    BY <1>1, <1>5, <1>6

(* The writer has got the next chunk. *)
LEMMA InOrderNext ==
  ASSUME written \in Seq(Chunks), InOrder, Len(written) \in Chunks,
         written' = Append(written, Len(written)), Bounds
  PROVE  written' \in Seq(Chunks) /\ InOrder' /\ Len(written') = Len(written) + 1
         /\ (Len(written) <= ChunkCount)'
  <1> DEFINE n == Len(written)
             w == Append(written, n)
  <1>1. w \in Seq(Chunks) /\ n \in Nat /\ Len(w) = n + 1 /\ w[n + 1] = n
        /\ \A i \in 1 .. n : w[i] = written[i]
    BY SMT
  <1>2. \A i \in 1 .. n : written[i] = i - 1
    BY DEF InOrder
  <1>3. n + 1 <= ChunkCount
    BY <1>1, SMT DEF Chunks, Bounds
  <1>4. written' = w
    OBVIOUS
  <1> HIDE DEF n, w
  <1>5. ASSUME NEW i \in 1 .. Len(w) PROVE w[i] = i - 1
    <2>1. CASE i = n + 1
      BY <1>1, <2>1, SMT
    <2>2. CASE i # n + 1
      <3>1. i \in 1 .. n
        BY <1>1, <2>2, SMT
      <3> QED
        BY <1>1, <1>2, <3>1
    <2> QED
      BY <2>1, <2>2
  <1>6. InOrder'
    BY <1>4, <1>5 DEF InOrder
  <1> QED
    BY <1>1, <1>3, <1>4, <1>6 DEF n

(* writeIncomingChunk *)
LEMMA WritesStep ==
  ASSUME Bounds, IInv, NEW k \in Sessions, WorkerWrites(k)
  PROVE  IInv'
  <1>1. /\ wpc[k] = "write" /\ wpc' = [wpc EXCEPT ![k] = "idle"] /\ tr' = [tr EXCEPT ![k] = popped(tr[k])]
        /\ \/ written' = Append(written, Head(tr[k].queue))
           \/ tr[k].failed /\ UNCHANGED written
        /\ UNCHANGED <<txVars, link, high, low, back, rl, store, body>>
    BY DEF WorkerWrites, popped
  <1>2. /\ Local(k) /\ LinkTypes /\ ReceiverTypes /\ tr[k] \in Transfers
        /\ Len(written) \in Nat
    BY Here
  <1>3. Fits(rl[k], "write", tr[k], Len(written))
    BY <1>1, <1>2 DEF Local
  <1>4. /\ popped(tr[k]) \in Transfers /\ Fits(rl[k], "idle", popped(tr[k]), Len(written) + 1)
        /\ Head(tr[k].queue) = Len(written) /\ Len(written) \in Chunks /\ tr[k].queue # <<>>
    BY <1>2, <1>3, FitsWritten
  <1>5. high' \in [Sessions -> [resume : Nat, cancel : Nat]] /\ Settles /\ Holds(k)
    BY <1>1, <1>2 DEF LinkTypes, Settles, Holds
  <1>6. /\ tr' \in [Sessions -> Transfers] /\ tr'[k] = popped(tr[k])
        /\ \A j \in Sessions : j # k => tr'[j] = tr[j]
    BY <1>1, <1>4, Replaced
  <1>7. /\ wpc' \in [Sessions -> {"none", "idle", "write", "done", "closing"}]
        /\ wpc'[k] = "idle" /\ \A j \in Sessions : j # k => wpc'[j] = wpc[j]
    BY <1>1, <1>2, WorkerSet
  <1>8. Holds(k)' /\ (Committing(k)' => Committing(k)) /\ HandsOver(k)
    BY <1>1, <1>5, <1>7 DEF Holds, Committing, HandsOver
  <1>9. written' \in Seq(Chunks) /\ InOrder' /\ (Len(written) <= ChunkCount)' /\ Local(k)'
    <2>1. CASE written' = Append(written, Head(tr[k].queue))
      <3>1. written \in Seq(Chunks) /\ InOrder
        BY <1>2 DEF IInv, ReceiverTypes
      <3>2. written' = Append(written, Len(written))
        BY <1>4, <2>1
      <3>3. written' \in Seq(Chunks) /\ InOrder' /\ Len(written') = Len(written) + 1
            /\ (Len(written) <= ChunkCount)'
        BY <1>4, <3>1, <3>2, InOrderNext
      <3> QED
        BY <1>1, <1>4, <1>6, <1>7, <3>3 DEF Local
    <2>2. CASE tr[k].failed /\ UNCHANGED written
      <3>1. Fits(rl[k], "idle", popped(tr[k]), Len(written))
        BY <1>2, <1>3, <1>4, <2>2, FitsDropped
      <3>2. Local(k)'
        BY <1>1, <1>6, <1>7, <2>2, <3>1 DEF Local
      <3> QED
        BY <1>2, <2>2, <3>2 DEF IInv, ReceiverTypes, InOrder
    <2> QED
      BY <1>1, <2>1, <2>2
  <1>10. ReceiverTypes' /\ OnlyAt(k)
    BY <1>1, <1>2, <1>6, <1>7, <1>9 DEF ReceiverTypes, OnlyAt
  <1> QED
    BY <1>1, <1>5, <1>8, <1>9, <1>10, UsualStep

(* runIncomingTransfer ends: the writer is suspended or aborted if the transfer *)
(* has failed, and left to handleIncomingTransferEnd if not.                    *)
LEMMA FinishesStep ==
  ASSUME IInv, NEW k \in Sessions, WorkerFinishes(k)
  PROVE  IInv'
  <1>1. /\ wpc[k] = "idle" /\ tr[k].closed /\ tr[k].queue = <<>>
        /\ wpc' = [wpc EXCEPT ![k] = "done"]
        /\ ~tr[k].failed => body' = body
        /\ tr[k].failed => body' = IF tr[k].suspend THEN "suspended" ELSE "dropped"
        /\ UNCHANGED <<txVars, link, high, low, back, rl, store, tr, written>>
    BY DEF WorkerFinishes
  <1>2. /\ Local(k) /\ LinkTypes /\ ReceiverTypes /\ tr[k] \in Transfers
        /\ Len(written) \in Nat /\ (Holds(k) => body = "open")
    BY Here
  <1>3. Fits(rl[k], "idle", tr[k], Len(written))
    BY <1>1, <1>2 DEF Local
  <1>4. /\ Fits(rl[k], "done", tr[k], Len(written))
        /\ ~tr[k].failed => rl[k] = "drain"
        /\ tr[k].failed => rl[k] # "drain"
        /\ tr[k].suspend => rl[k] = "ended"
    BY <1>1, <1>2, <1>3, FitsDone
  <1>5. /\ wpc' \in [Sessions -> {"none", "idle", "write", "done", "closing"}]
        /\ wpc'[k] = "done" /\ \A j \in Sessions : j # k => wpc'[j] = wpc[j]
    BY <1>1, <1>2, WorkerSet
  <1>6. body = "open" /\ Holds(k)
    BY <1>1, <1>2 DEF Holds
  <1>7. body' \in {"open", "suspended", "committed", "dropped"} /\ Settles
    BY <1>1, <1>6 DEF Settles
  <1>8. ReceiverTypes' /\ OnlyAt(k) /\ Local(k)'
    BY <1>1, <1>2, <1>4, <1>5, <1>7 DEF ReceiverTypes, OnlyAt, Local
  <1>9. (Committing(k)' => Committing(k)) /\ HandsOver(k)
    BY <1>1, <1>4, <1>5, <1>6 DEF Holds, Committing, HandsOver
  <1>10. Holds(k)' \/ rl'[k] = "ended" \/ body' \in {"committed", "dropped"}
    BY <1>1, <1>4 DEF Holds
  <1>11. high' \in [Sessions -> [resume : Nat, cancel : Nat]]
    BY <1>1, <1>2 DEF LinkTypes
  <1> QED
    BY <1>1, <1>7, <1>8, <1>9, <1>10, <1>11, UsualStep

-----------------------------------------------------------------------------
(* The actions of the sender. *)

LEMMA SenderStep ==
  ASSUME IInv, NEW k \in Sessions, k = cur, UNCHANGED <<cur, rxVars>>, SenderTypes', LinkTypes',
         \A j \in Sessions : j # k => low'[j] = low[j] /\ back'[j] = back[j],
         Token(k)', HonestBack(k)',
         Offered(k)' \/ Sending(k)' \/ Ending(k)' => Offered(k) \/ Sending(k) \/ Ending(k),
         ot.completed' => body = "committed",
         spc' # "idle" => report' = "none"
  PROVE  IInv'
  <1>1. rl' = rl /\ store' = store /\ tr' = tr /\ wpc' = wpc /\ body' = body /\ written' = written
    BY DEF rxVars
  <1>2. ~(k > k)
    BY SMT DEF Sessions
  <1>3. ReceiverTypes' /\ HoldInv' /\ InOrder' /\ (Len(written) <= ChunkCount)'
    <2>1. ReceiverTypes'
      BY <1>1 DEF IInv, ReceiverTypes
    <2>2. HoldInv'
      <3>1. \A j \in Sessions : Holds(j)' <=> Holds(j)
        BY <1>1 DEF Holds
      <3> QED
        BY <1>1, <3>1 DEF IInv, HoldInv
    <2> QED
      BY <1>1, <2>1, <2>2 DEF IInv, InOrder
  <1>4. ASSUME NEW j \in Sessions PROVE Local(j)' /\ Token(j)' /\ Used(j)' /\ Unborn(j)'
    <2>1. Local(j) /\ Token(j) /\ Used(j) /\ Unborn(j)
      BY DEF IInv, SessionInv
    <2>2. Local(j)'
      BY <1>1, <2>1 DEF Local
    <2>3. CASE j # k
      <3>1. low'[j] = low[j] /\ back'[j] = back[j]
        BY <2>3
      <3>2. ~Sending(j)'
        BY <2>3 DEF Sending
      <3>3. (Offered(j)' <=> Offered(j)) /\ (Ending(j)' <=> Ending(j))
            /\ (Committing(j)' <=> Committing(j)) /\ (Holds(j)' <=> Holds(j))
        BY <1>1, <3>1 DEF Offered, Ending, Committing, Holds
      <3>4. OneOffer(j)' /\ EndLast(j)'
        BY <2>1, <3>1 DEF Token, OneOffer, EndLast
      <3>5. Token(j)' /\ Used(j)'
        BY <1>1, <2>1, <3>2, <3>3, <3>4 DEF Token, Used
      <3>6. Unborn(j)'
        BY <1>1, <2>1, <3>1 DEF Unborn
      <3> QED
        BY <2>2, <3>5, <3>6
    <2>4. CASE j = k
      <3>1. Token(j)'
        BY <2>4
      <3>2. (Committing(j)' <=> Committing(j)) /\ (Holds(j)' <=> Holds(j))
        BY <1>1 DEF Committing, Holds
      <3>3. Offered(j)' \/ Sending(j)' \/ Ending(j)' => Offered(j) \/ Sending(j) \/ Ending(j)
        BY <2>4
      <3>4. Used(j)'
        BY <1>1, <2>1, <3>2, <3>3 DEF Used
      <3>5. Unborn(j)'
        <4>1. ~(j > cur)
          BY <1>2, <2>4
        <4> QED
          BY <4>1 DEF Unborn
      <3> QED
        BY <2>2, <3>1, <3>4, <3>5
    <2> QED
      BY <2>3, <2>4
  <1>5. SessionInv'
    BY <1>4 DEF SessionInv
  <1>6. ReportInv'
    <2>1. ASSUME NEW j \in Sessions PROVE HonestBack(j)'
      <3>1. CASE j = k
        BY <3>1
      <3>2. CASE j # k
        <4>1. back'[j] = back[j] /\ HonestBack(j)
          BY <3>2 DEF IInv, ReportInv
        <4> QED
          BY <1>1, <4>1 DEF HonestBack
      <3> QED
        BY <3>1, <3>2
    <2> QED
      BY <1>1, <2>1 DEF ReportInv
  <1> QED
    BY <1>3, <1>5, <1>6 DEF IInv

(* A body frame is sent. *)
LEMMA LowSent ==
  ASSUME LinkTypes, NEW k \in Sessions, NEW f \in 0 .. ChunkCount, Put(low, k, f), ~Ending(k)
  PROVE  /\ low' \in [Sessions -> Seq(0 .. ChunkCount)]
         /\ \A j \in Sessions : j # k => low'[j] = low[j]
         /\ Ending(k)' => f = End
         /\ EndLast(k)'
  <1> DEFINE S == 0 .. ChunkCount
  <1>1. low \in [Sessions -> Seq(S)] /\ f \in S
    BY DEF LinkTypes
  <1> HIDE DEF S
  <1>2. CASE ~link[k]
    <2>1. low' = low
      BY <1>2 DEF Put
    <2> QED
      BY <1>1, <2>1 DEF Ending, EndLast, S
  <1>3. CASE link[k]
    <2>1. low' = [low EXCEPT ![k] = Append(low[k], f)]
      BY <1>3 DEF Put
    <2>2. low[k] \in Seq(S) /\ Append(low[k], f) \in Seq(S)
      BY <1>1, SMT
    <2>3. /\ Len(low[k]) \in Nat /\ Len(Append(low[k], f)) = Len(low[k]) + 1
          /\ Append(low[k], f)[Len(low[k]) + 1] = f
          /\ \A n \in 1 .. Len(low[k]) : Append(low[k], f)[n] = low[k][n]
      BY <2>2, SMT
    <2>4. low' \in [Sessions -> Seq(S)] /\ low'[k] = Append(low[k], f)
          /\ \A j \in Sessions : j # k => low'[j] = low[j]
      BY <1>1, <2>1, <2>2, SMT
    <2>5. \A n \in 1 .. Len(low'[k]) : \/ n \in 1 .. Len(low[k]) /\ low'[k][n] = low[k][n]
                                       \/ n = Len(low'[k]) /\ low'[k][n] = f
      BY <2>3, <2>4, SMT
    <2>6. Ending(k)' => f = End
      BY <2>5 DEF Ending
    <2>7. EndLast(k)'
      BY <2>5 DEF Ending, EndLast
    <2> QED
      BY <2>4, <2>6, <2>7 DEF S
  <1> QED
    BY <1>2, <1>3

(* The sender's read loop takes an answer. *)
LEMMA BackRead ==
  ASSUME LinkTypes, NEW k \in Sessions, back[k] # <<>>, back' = [back EXCEPT ![k] = Tail(@)],
         OneOffer(k), HonestBack(k), body' = body
  PROVE  /\ back' \in [Sessions -> Seq(States)]
         /\ \A j \in Sessions : j # k => back'[j] = back[j]
         /\ Head(back[k]) \in States
         /\ Offered(k)' => Offered(k)
         /\ Head(back[k]).flag = "accepted" => Offered(k) /\ ~Offered(k)'
         /\ Head(back[k]).flag = "completed" => body = "committed"
         /\ OneOffer(k)' /\ HonestBack(k)'
  <1> DEFINE q == back[k]
  <1>1. back \in [Sessions -> Seq(States)] /\ q \in Seq(States)
    BY DEF LinkTypes
  <1> HIDE DEF States
  <1>2. /\ Tail(q) \in Seq(States) /\ Len(q) \in Nat /\ Len(q) > 0 /\ Head(q) = q[1]
        /\ Len(Tail(q)) = Len(q) - 1 /\ \A n \in 1 .. Len(q) - 1 : Tail(q)[n] = q[n + 1]
    BY <1>1, SMT
  <1>3. /\ back' \in [Sessions -> Seq(States)] /\ back'[k] = Tail(q)
        /\ \A j \in Sessions : j # k => back'[j] = back[j]
    BY <1>1, <1>2, SMT
  <1>4. 1 \in 1 .. Len(q) /\ \A n \in 1 .. Len(Tail(q)) : /\ n + 1 \in 1 .. Len(q) /\ n + 1 # 1
                                                         /\ Tail(q)[n] = q[n + 1]
    BY <1>2, SMT
  <1>5. \A n \in 1 .. Len(back'[k]) : /\ n + 1 \in 1 .. Len(back[k]) /\ n + 1 # 1
                                      /\ back'[k][n] = back[k][n + 1]
    BY <1>3, <1>4
  <1>6. Head(q) \in States
    BY <1>1, <1>2, SMT
  <1>7. Offered(k)' => Offered(k)
    BY <1>5 DEF Offered
  <1>8. Head(q).flag = "accepted" => Offered(k) /\ ~Offered(k)'
    BY <1>2, <1>4, <1>5 DEF Offered, OneOffer
  <1>9. Head(q).flag = "completed" => body = "committed"
    BY <1>2, <1>4 DEF HonestBack
  <1>10. OneOffer(k)'
    <2>1. SUFFICES ASSUME NEW m \in 1 .. Len(back'[k]), NEW n \in 1 .. Len(back'[k]),
                          back'[k][m].flag = "accepted", back'[k][n].flag = "accepted"
                   PROVE  m = n
      BY DEF OneOffer
    <2>2. m + 1 = n + 1
      BY <1>5, <2>1 DEF OneOffer
    <2> QED
      BY <2>2, SMT
  <1>11. HonestBack(k)'
    BY <1>5 DEF HonestBack
  <1> QED
    BY <1>3, <1>6, <1>7, <1>8, <1>9, <1>10, <1>11

(* A step of the sender that neither sends the body nor takes an answer. *)
LEMMA CallStep ==
  ASSUME IInv, UNCHANGED <<cur, link, low, back, rxVars>>, SenderTypes',
         high' \in [Sessions -> [resume : Nat, cancel : Nat]],
         Sending(cur)' => Sending(cur), ot.completed' => ot.completed,
         spc' # "idle" => report' = "none"
  PROVE  IInv'
  <1>1. PICK k \in Sessions : k = cur
    BY DEF IInv, SenderTypes
  <1>2. /\ Local(k) /\ Token(k) /\ HonestBack(k) /\ OneOffer(k) /\ EndLast(k) /\ LinkTypes
    BY Here
  <1>3. (Ending(k)' => Ending(k)) /\ EndLast(k)'
    BY <1>2, SameLow
  <1>4. (Offered(k)' => Offered(k)) /\ OneOffer(k)' /\ HonestBack(k)'
    BY <1>2, SameBack DEF rxVars
  <1>5. (Sending(k)' => Sending(k)) /\ (Committing(k)' => Committing(k))
    BY <1>1 DEF Committing, rxVars
  <1>6. Token(k)'
    BY <1>2, <1>3, <1>4, <1>5 DEF Token
  <1>7. LinkTypes' /\ \A j \in Sessions : j # k => low'[j] = low[j] /\ back'[j] = back[j]
    BY <1>2 DEF LinkTypes
  <1>8. ot.completed' => body = "committed"
    BY DEF IInv, ReportInv
  <1> QED
    BY <1>1, <1>3, <1>4, <1>5, <1>6, <1>7, <1>8, SenderStep

(* Marks of the outgoing transfer. *)
LEMMA Outgoing ==
  ASSUME Bounds, ot \in [failed : BOOLEAN, completed : BOOLEAN, resume : -1 .. ChunkCount]
  PROVE  LET O == [failed : BOOLEAN, completed : BOOLEAN, resume : -1 .. ChunkCount]
         IN  /\ [ot EXCEPT !.failed = TRUE] \in O
             /\ [ot EXCEPT !.completed = TRUE] \in O
             /\ freshOutgoing \in O
             /\ \A n \in 0 .. ChunkCount : [ot EXCEPT !.resume = n] \in O
             /\ [ot EXCEPT !.failed = TRUE].completed = ot.completed
             /\ [ot EXCEPT !.failed = TRUE].resume = ot.resume
             /\ [ot EXCEPT !.completed = TRUE].resume = ot.resume
             /\ \A n \in 0 .. ChunkCount : [ot EXCEPT !.resume = n].completed = ot.completed
             /\ ~freshOutgoing.completed /\ freshOutgoing.resume = Undecided
  <1>1. -1 \in -1 .. ChunkCount /\ \A n \in 0 .. ChunkCount : n \in -1 .. ChunkCount
    BY SMT DEF Bounds
  <1> QED
    BY <1>1 DEF freshOutgoing, Undecided

(* The steps of SendTransfer and ResumeTransfer that send no chunk. *)
LEMMA CallSteps ==
  ASSUME Bounds, IInv,
         CallFails \/ CallSucceeds \/ ContextEnds \/ GiveUp \/ ResumeTransfer \/ OpenReader \/ SenderDown
  PROVE  IInv'
  <1>1. LinkTypes /\ SenderTypes /\ high \in [Sessions -> [resume : Nat, cancel : Nat]] /\ cur \in Sessions
    BY DEF IInv, LinkTypes, SenderTypes
  <1>2. spc # "idle" => report = "none"
    BY DEF IInv, ReportInv
  <1>3. ot \in [failed : BOOLEAN, completed : BOOLEAN, resume : -1 .. ChunkCount]
    BY <1>1 DEF SenderTypes
  <1>4. CASE CallFails
    <2>1. /\ spc' = "idle"
          /\ UNCHANGED <<cur, nextChunk, ot, resumes, report, txUp, link, high, low, back, rxVars>>
      BY <1>4 DEF CallFails
    <2>2. SenderTypes' /\ ~Sending(cur)'
      BY <1>1, <2>1 DEF SenderTypes, Sending
    <2> QED
      BY <1>1, <2>1, <2>2, CallStep
  <1>5. CASE CallSucceeds
    <2>1. /\ spc' = "idle" /\ report' = "ok"
          /\ UNCHANGED <<cur, nextChunk, ot, resumes, txUp, link, high, low, back, rxVars>>
      BY <1>5 DEF CallSucceeds
    <2>2. SenderTypes' /\ ~Sending(cur)'
      BY <1>1, <2>1 DEF SenderTypes, Sending
    <2> QED
      BY <1>1, <2>1, <2>2, CallStep
  <1>6. CASE ContextEnds
    <2>1. /\ ot' = [ot EXCEPT !.failed = TRUE]
          /\ UNCHANGED <<cur, spc, nextChunk, resumes, report, txUp, link, high, low, back, rxVars>>
      BY <1>6 DEF ContextEnds
    <2>2. /\ ot' \in [failed : BOOLEAN, completed : BOOLEAN, resume : -1 .. ChunkCount]
          /\ ot'.completed = ot.completed /\ ot'.resume = ot.resume
      BY <1>3, <2>1, Outgoing
    <2>3. SenderTypes' /\ (Sending(cur)' => Sending(cur))
      BY <1>1, <2>1, <2>2 DEF SenderTypes, Sending
    <2> QED
      BY <1>1, <1>2, <2>1, <2>2, <2>3, CallStep
  <1>7. CASE GiveUp
    <2>1. /\ spc = "idle" /\ report' = "error"
          /\ UNCHANGED <<cur, spc, nextChunk, ot, resumes, txUp, link, high, low, back, rxVars>>
      BY <1>7 DEF GiveUp
    <2>2. SenderTypes' /\ ~Sending(cur)'
      BY <1>1, <2>1 DEF SenderTypes, Sending
    <2> QED
      BY <1>1, <2>1, <2>2, CallStep
  <1>8. CASE ResumeTransfer
    <2>1. /\ report = "none" /\ resumes < MaxResumes /\ resumes' = resumes + 1 /\ ot' = freshOutgoing
          /\ spc' = "wait" /\ PutHigh(cur, "resume")
          /\ UNCHANGED <<cur, nextChunk, report, txUp, link, low, back, rxVars>>
      BY <1>8 DEF ResumeTransfer
    <2>2. /\ ot' \in [failed : BOOLEAN, completed : BOOLEAN, resume : -1 .. ChunkCount]
          /\ ~ot'.completed /\ ot'.resume = Undecided
      BY <1>3, <2>1, Outgoing
    <2>3. resumes' \in 0 .. MaxResumes
      BY <1>1, <2>1, SMT DEF SenderTypes, Bounds
    <2>4. SenderTypes' /\ ~Sending(cur)'
      BY <1>1, <2>1, <2>2, <2>3 DEF SenderTypes, Sending
    <2>5. high' \in [Sessions -> [resume : Nat, cancel : Nat]]
      BY <1>1, <2>1, HighSent
    <2> QED
      BY <2>1, <2>2, <2>4, <2>5, CallStep
  <1>9. CASE OpenReader
    <2>1. /\ spc = "wait" /\ ot.resume # Undecided
          /\ UNCHANGED <<cur, ot, resumes, report, txUp, link, low, back, rxVars>>
      BY <1>9 DEF OpenReader
    <2>2. CASE spc' = "send" /\ nextChunk' = ot.resume /\ UNCHANGED high
      <3>1. ot.resume \in -1 .. ChunkCount
        BY <1>3
      <3>2. nextChunk' \in 0 .. ChunkCount
        BY <2>1, <2>2, <3>1, SMT DEF Undecided, Bounds
      <3>3. SenderTypes' /\ Sending(cur)
        BY <1>1, <2>1, <2>2, <3>2 DEF SenderTypes, Sending
      <3> QED
        BY <1>1, <1>2, <2>1, <2>2, <3>3, CallStep
    <2>3. CASE spc' = "idle" /\ PutHigh(cur, "cancel") /\ UNCHANGED nextChunk
      <3>1. SenderTypes' /\ Sending(cur)
        BY <1>1, <2>1, <2>3 DEF SenderTypes, Sending
      <3>2. high' \in [Sessions -> [resume : Nat, cancel : Nat]]
        BY <1>1, <2>3, HighSent
      <3> QED
        BY <2>1, <2>3, <3>1, <3>2, CallStep
    <2> QED
      BY <1>9, <2>2, <2>3 DEF OpenReader
  <1>10. CASE SenderDown
    <2>1. /\ ot' = [ot EXCEPT !.failed = TRUE] /\ txUp' = FALSE
          /\ UNCHANGED <<cur, spc, nextChunk, resumes, report, link, high, low, back, rxVars>>
      BY <1>10 DEF SenderDown
    <2>2. /\ ot' \in [failed : BOOLEAN, completed : BOOLEAN, resume : -1 .. ChunkCount]
          /\ ot'.completed = ot.completed /\ ot'.resume = ot.resume
      BY <1>3, <2>1, Outgoing
    <2>3. SenderTypes' /\ (Sending(cur)' => Sending(cur))
      BY <1>1, <2>1, <2>2 DEF SenderTypes, Sending
    <2> QED
      BY <1>1, <1>2, <2>1, <2>2, <2>3, CallStep
  <1> QED
    BY <1>4, <1>5, <1>6, <1>7, <1>8, <1>9, <1>10

(* sendTransferBody *)
LEMMA SendStep ==
  ASSUME Bounds, IInv, SendChunk
  PROVE  IInv'
  <1>1. /\ spc = "send" /\ Put(low, cur, nextChunk)
        /\ IF nextChunk = End
           THEN spc' = "commit" /\ UNCHANGED nextChunk
           ELSE nextChunk' = nextChunk + 1 /\ UNCHANGED spc
        /\ UNCHANGED <<cur, ot, resumes, report, txUp, link, high, back, rxVars>>
    BY DEF SendChunk
  <1>2. PICK k \in Sessions : k = cur
    BY DEF IInv, SenderTypes
  <1>3. Token(k) /\ HonestBack(k) /\ OneOffer(k) /\ LinkTypes
    BY Here
  <1>4. SenderTypes /\ (spc # "idle" => report = "none") /\ (ot.completed => body = "committed")
    BY DEF IInv, ReportInv
  <1>5. Sending(k) /\ ~Ending(k) /\ ~Offered(k) /\ ~Committing(k)
    BY <1>1, <1>2, <1>3 DEF Sending, Token
  <1>6. nextChunk \in 0 .. ChunkCount
    BY <1>4 DEF SenderTypes
  <1>7. /\ low' \in [Sessions -> Seq(0 .. ChunkCount)]
        /\ \A j \in Sessions : j # k => low'[j] = low[j]
        /\ Ending(k)' => nextChunk = End
        /\ EndLast(k)'
    BY <1>1, <1>2, <1>3, <1>5, <1>6, LowSent
  <1>8. (Offered(k)' => Offered(k)) /\ OneOffer(k)' /\ HonestBack(k)'
    BY <1>1, <1>3, SameBack DEF rxVars
  <1>9. ~Committing(k)'
    BY <1>1, <1>5 DEF Committing, rxVars
  <1>10. nextChunk = End => ~Sending(k)'
    BY <1>1 DEF Sending
  <1>11. Token(k)'
    BY <1>5, <1>7, <1>8, <1>9, <1>10 DEF Token
  <1>12. SenderTypes'
    <2>1. nextChunk' \in 0 .. ChunkCount
      BY <1>1, <1>6, SMT DEF End, Bounds
    <2>2. spc' \in {"wait", "send", "commit", "idle"}
      BY <1>1, <1>4 DEF SenderTypes
    <2> QED
      BY <1>1, <1>4, <2>1, <2>2 DEF SenderTypes
  <1>13. LinkTypes' /\ \A j \in Sessions : j # k => back'[j] = back[j]
    BY <1>1, <1>3, <1>7 DEF LinkTypes
  <1> QED
    BY <1>1, <1>2, <1>4, <1>5, <1>7, <1>8, <1>11, <1>12, <1>13, SenderStep

(* handleIncomingTransferState *)
LEMMA StateStep ==
  ASSUME Bounds, IInv, HandleState
  PROVE  IInv'
  <1> DEFINE state == Head(back[cur])
  <1>1. /\ back[cur] # <<>> /\ back' = [back EXCEPT ![cur] = Tail(@)]
        /\ UNCHANGED <<cur, spc, nextChunk, resumes, report, txUp, link, high, low, rxVars>>
    BY DEF HandleState
  <1>2. \/ ot' = ot
        \/ state.flag = "completed" /\ ot' = [ot EXCEPT !.completed = TRUE]
        \/ state.flag = "accepted" /\ ot' = [ot EXCEPT !.resume = state.next]
        \/ ot' = [ot EXCEPT !.failed = TRUE]
    BY DEF HandleState
  <1>3. PICK k \in Sessions : k = cur
    BY DEF IInv, SenderTypes
  <1>4. Token(k) /\ HonestBack(k) /\ OneOffer(k) /\ EndLast(k) /\ LinkTypes
    BY Here
  <1>5. SenderTypes /\ (spc # "idle" => report = "none") /\ (ot.completed => body = "committed")
    BY DEF IInv, ReportInv
  <1>6. body' = body
    BY <1>1 DEF rxVars
  <1>7. /\ back' \in [Sessions -> Seq(States)]
        /\ \A j \in Sessions : j # k => back'[j] = back[j]
        /\ state \in States
        /\ Offered(k)' => Offered(k)
        /\ state.flag = "accepted" => Offered(k) /\ ~Offered(k)'
        /\ state.flag = "completed" => body = "committed"
        /\ OneOffer(k)' /\ HonestBack(k)'
    <2>1. back[k] # <<>> /\ back' = [back EXCEPT ![k] = Tail(@)] /\ state = Head(back[k])
      BY <1>1, <1>3
    <2> HIDE DEF state
    <2> QED
      BY <1>4, <1>6, <2>1, BackRead
  <1> HIDE DEF state
  <1>8. ot \in [failed : BOOLEAN, completed : BOOLEAN, resume : -1 .. ChunkCount]
    BY <1>5 DEF SenderTypes
  <1>9. state.next \in 0 .. ChunkCount
    BY <1>7 DEF States
  <1>10. /\ ot' \in [failed : BOOLEAN, completed : BOOLEAN, resume : -1 .. ChunkCount]
         /\ ot'.completed => body = "committed"
         /\ ot'.resume = ot.resume \/ state.flag = "accepted"
    <2>1. CASE ot' = ot
      BY <1>5, <1>8, <2>1
    <2>2. CASE state.flag = "completed" /\ ot' = [ot EXCEPT !.completed = TRUE]
      BY <1>7, <1>8, <2>2, Outgoing
    <2>3. CASE state.flag = "accepted" /\ ot' = [ot EXCEPT !.resume = state.next]
      BY <1>5, <1>8, <1>9, <2>3, Outgoing
    <2>4. CASE ot' = [ot EXCEPT !.failed = TRUE]
      BY <1>5, <1>8, <2>4, Outgoing
    <2> QED
      BY <1>2, <2>1, <2>2, <2>3, <2>4
  <1>11. Sending(k)' => Sending(k) \/ state.flag = "accepted"
    BY <1>1, <1>10 DEF Sending
  <1>12. (Ending(k)' => Ending(k)) /\ EndLast(k)'
    BY <1>1, <1>4, SameLow
  <1>13. Committing(k)' => Committing(k)
    BY <1>1 DEF Committing, rxVars
  <1>14. Token(k)'
    BY <1>4, <1>7, <1>11, <1>12, <1>13 DEF Token
  <1>15. SenderTypes' /\ LinkTypes' /\ \A j \in Sessions : j # k => low'[j] = low[j]
    BY <1>1, <1>4, <1>5, <1>7, <1>10 DEF SenderTypes, LinkTypes
  <1> QED
    BY <1>1, <1>3, <1>5, <1>7, <1>10, <1>11, <1>12, <1>14, <1>15, SenderStep

(* Some of the last frames of a connection are lost with it. *)
LEMMA Prefix ==
  ASSUME NEW S, NEW q \in Seq(S), NEW l \in 0 .. Len(q)
  PROVE  /\ SubSeq(q, 1, l) \in Seq(S) /\ Len(SubSeq(q, 1, l)) = l /\ l <= Len(q)
         /\ \A n \in 1 .. Len(SubSeq(q, 1, l)) : n \in 1 .. Len(q) /\ SubSeq(q, 1, l)[n] = q[n]
  BY SMT

(* A connection breaks. *)
LEMMA LostStep ==
  ASSUME IInv, LinkLost
  PROVE  IInv'
  <1>1. link' = [link EXCEPT ![cur] = FALSE] /\ UNCHANGED <<txVars, rxVars>>
    BY DEF LinkLost
  <1>2. PICK r \in 0 .. high[cur].resume, c \in 0 .. high[cur].cancel,
             l \in 0 .. Len(low[cur]), b \in 0 .. Len(back[cur]) :
        /\ high' = [high EXCEPT ![cur] = [resume |-> r, cancel |-> c]]
        /\ low' = [low EXCEPT ![cur] = SubSeq(low[cur], 1, l)]
        /\ back' = [back EXCEPT ![cur] = SubSeq(back[cur], 1, b)]
    BY DEF LinkLost
  <1>3. PICK k \in Sessions : k = cur
    BY DEF IInv, SenderTypes
  <1>4. Token(k) /\ HonestBack(k) /\ OneOffer(k) /\ EndLast(k) /\ LinkTypes
    BY Here
  <1>5. /\ low \in [Sessions -> Seq(0 .. ChunkCount)] /\ back \in [Sessions -> Seq(States)]
        /\ link \in [Sessions -> BOOLEAN] /\ high \in [Sessions -> [resume : Nat, cancel : Nat]]
    BY <1>4 DEF LinkTypes
  <1> HIDE DEF States
  <1> DEFINE p == SubSeq(low[k], 1, l)
             q == SubSeq(back[k], 1, b)
  <1>6. /\ p \in Seq(0 .. ChunkCount) /\ Len(p) <= Len(low[k])
        /\ \A n \in 1 .. Len(p) : n \in 1 .. Len(low[k]) /\ p[n] = low[k][n]
    <2> DEFINE S == 0 .. ChunkCount
    <2>1. low[k] \in Seq(S) /\ l \in 0 .. Len(low[k])
      BY <1>2, <1>3, <1>5
    <2> HIDE DEF S
    <2>2. p \in Seq(S) /\ Len(p) = l /\ l <= Len(low[k])
          /\ \A n \in 1 .. Len(p) : n \in 1 .. Len(low[k]) /\ p[n] = low[k][n]
      BY <2>1, Prefix
    <2> QED
      BY <2>2 DEF S
  <1>7. /\ q \in Seq(States)
        /\ \A n \in 1 .. Len(q) : n \in 1 .. Len(back[k]) /\ q[n] = back[k][n]
    <2>1. back[k] \in Seq(States) /\ b \in 0 .. Len(back[k])
      BY <1>2, <1>3, <1>5
    <2> QED
      BY <2>1, Prefix
  <1>8. low' = [low EXCEPT ![k] = p] /\ back' = [back EXCEPT ![k] = q]
    BY <1>2, <1>3
  <1> HIDE DEF p, q
  <1>9. /\ low' \in [Sessions -> Seq(0 .. ChunkCount)] /\ back' \in [Sessions -> Seq(States)]
        /\ low'[k] = p /\ back'[k] = q
        /\ \A j \in Sessions : j # k => low'[j] = low[j] /\ back'[j] = back[j]
    BY <1>5, <1>6, <1>7, <1>8
  <1>10. LinkTypes'
    <2>1. r \in Nat /\ c \in Nat
      BY <1>2, SMT
    <2>2. link' \in [Sessions -> BOOLEAN]
      BY <1>1, <1>5
    <2>3. high' \in [Sessions -> [resume : Nat, cancel : Nat]]
      BY <1>2, <1>5, <2>1
    <2> QED
      BY <1>9, <2>2, <2>3 DEF LinkTypes
  <1>11. (Offered(k)' => Offered(k)) /\ OneOffer(k)' /\ HonestBack(k)'
    <2>1. body' = body
      BY <1>1 DEF rxVars
    <2>2. \A n \in 1 .. Len(back'[k]) : n \in 1 .. Len(back[k]) /\ back'[k][n] = back[k][n]
      BY <1>7, <1>9
    <2> QED
      BY <1>4, <2>1, <2>2 DEF Offered, OneOffer, HonestBack
  <1>12. (Ending(k)' => Ending(k)) /\ EndLast(k)'
    <2>1. \A n \in 1 .. Len(low'[k]) : n \in 1 .. Len(low[k]) /\ low'[k][n] = low[k][n]
      BY <1>6, <1>9
    <2>2. \A n \in 1 .. Len(low'[k]) : n = Len(low[k]) => n = Len(low'[k])
      <3>1. Len(p) \in Nat /\ Len(low[k]) \in Nat
        BY <1>5, <1>6, SMT
      <3>2. \A n \in 1 .. Len(p) : n = Len(low[k]) => n = Len(p)
        BY <1>6, <3>1, SMT
      <3> QED
        BY <1>9, <3>2
    <2>3. Ending(k)' => Ending(k)
      BY <2>1 DEF Ending
    <2>4. EndLast(k)'
      BY <1>4, <2>1, <2>2 DEF EndLast
    <2> QED
      BY <2>3, <2>4
  <1>13. (Sending(k)' <=> Sending(k)) /\ (Committing(k)' <=> Committing(k))
    BY <1>1 DEF Sending, Committing, txVars, rxVars
  <1>14. Token(k)'
    BY <1>4, <1>11, <1>12, <1>13 DEF Token
  <1>15. SenderTypes' /\ (ot.completed' => body = "committed") /\ (spc' # "idle" => report' = "none")
    BY <1>1 DEF IInv, SenderTypes, ReportInv, txVars
  <1> QED
    BY <1>1, <1>3, <1>9, <1>10, <1>11, <1>12, <1>13, <1>14, <1>15, SenderStep DEF txVars

(* The next session starts with nothing. *)
LEMMA ReconnectStep ==
  ASSUME Bounds, IInv, Reconnect
  PROVE  IInv'
  <1>1. /\ spc = "idle" /\ cur < MaxSessions /\ cur' = cur + 1 /\ txUp' = TRUE
        /\ link' = [link EXCEPT ![cur + 1] = TRUE] /\ rl' = [rl EXCEPT ![cur + 1] = "read"]
        /\ UNCHANGED <<spc, nextChunk, ot, resumes, report, high, low, back, store, tr,
                       wpc, body, written>>
    BY DEF Reconnect
  <1>2. PICK k \in Sessions : k = cur + 1 /\ k > cur
    <2>1. cur \in Sessions
      BY DEF IInv, SenderTypes
    <2> QED
      BY <1>1, <2>1, SMT DEF Sessions, Bounds
  <1>3. /\ Local(k) /\ Token(k) /\ Used(k) /\ Unborn(k) /\ LinkTypes /\ ReceiverTypes
    BY Here
  <1>4. rl[k] = "none" /\ wpc[k] = "none" /\ low[k] = <<>> /\ back[k] = <<>>
    BY <1>2, <1>3 DEF Unborn
  <1>5. /\ rl' \in [Sessions -> {"none", "read", "load", "drain", "ended"}] /\ rl'[k] = "read"
        /\ \A j \in Sessions : j # k => rl'[j] = rl[j]
    BY <1>1, <1>2, <1>3, LoopSet
  <1>6. SenderTypes' /\ LinkTypes' /\ ReceiverTypes'
    <2>1. cur' \in Sessions
      BY <1>1, <1>2
    <2>2. SenderTypes'
      BY <1>1, <2>1 DEF IInv, SenderTypes
    <2>3. link' \in [Sessions -> BOOLEAN]
      BY <1>1, <1>3 DEF LinkTypes
    <2> QED
      BY <1>1, <1>3, <1>5, <2>2, <2>3 DEF LinkTypes, ReceiverTypes
  <1>7. \A j \in Sessions : /\ Holds(j)' <=> Holds(j)
                            /\ Committing(j)' <=> Committing(j)
                            /\ Offered(j)' <=> Offered(j)
                            /\ Ending(j)' <=> Ending(j)
                            /\ ~Sending(j)'
                            /\ OneOffer(j)' <=> OneOffer(j)
                            /\ EndLast(j)' <=> EndLast(j)
                            /\ rl[j] = "ended" => rl'[j] = "ended"
    BY <1>1, <1>4, <1>5 DEF Holds, Committing, Offered, Ending, Sending, OneOffer, EndLast
  <1>8. HoldInv'
    BY <1>1, <1>7 DEF IInv, HoldInv
  <1>9. ASSUME NEW j \in Sessions PROVE Local(j)' /\ Token(j)' /\ Used(j)' /\ Unborn(j)'
    <2>1. Local(j) /\ Token(j) /\ Used(j) /\ Unborn(j)
      BY DEF IInv, SessionInv
    <2>2. Local(j)'
      <3>1. CASE j = k
        BY <1>1, <1>4, <1>5, <2>1, <3>1 DEF Local, Fits
      <3>2. CASE j # k
        BY <1>1, <1>5, <2>1, <3>2 DEF Local
      <3> QED
        BY <3>1, <3>2
    <2>3. Token(j)' /\ Used(j)'
      BY <1>1, <1>7, <2>1 DEF Token, Used
    <2>4. Unborn(j)'
      <3>1. ASSUME j > cur + 1 PROVE j > cur /\ j # k
        <4>1. cur \in Sessions
          BY DEF IInv, SenderTypes
        <4> QED
          BY <1>2, <3>1, <4>1, SMT DEF Sessions
      <3> QED
        BY <1>1, <1>5, <2>1, <3>1 DEF Unborn
    <2> QED
      BY <2>2, <2>3, <2>4
  <1>10. SessionInv'
    BY <1>9 DEF SessionInv
  <1>11. ReportInv' /\ InOrder' /\ (Len(written) <= ChunkCount)'
    BY <1>1 DEF IInv, ReportInv, HonestBack, InOrder
  <1> QED
    BY <1>6, <1>8, <1>10, <1>11 DEF IInv

-----------------------------------------------------------------------------
(* The invariant holds at first. *)
LEMMA InitInv ==
  ASSUME Bounds, Init
  PROVE  IInv
  <1>1. 1 \in Sessions /\ 0 \in 0 .. ChunkCount /\ 0 \in 0 .. MaxResumes /\ -1 \in -1 .. ChunkCount
        /\ 0 \in Nat /\ 0 <= ChunkCount
    BY SMT DEF Bounds, Sessions
  <1>2. <<>> \in Seq(Chunks) /\ <<>> \in Seq(0 .. ChunkCount) /\ <<>> \in Seq(States)
        /\ Len(<<>>) = 0 /\ (\A n \in 1 .. Len(<<>>) : FALSE)
    <2> HIDE DEF States
    <2> QED
      BY SMT
  <1>3. SenderTypes
    <2>1. freshOutgoing \in [failed : BOOLEAN, completed : BOOLEAN, resume : -1 .. ChunkCount]
      BY <1>1 DEF freshOutgoing, Undecided
    <2> QED
      BY <1>1, <2>1 DEF Init, SenderTypes
  <1>4. LinkTypes
    <2>1. [resume |-> 0, cancel |-> 0] \in [resume : Nat, cancel : Nat]
      BY <1>1
    <2>2. link \in [Sessions -> BOOLEAN]
      BY DEF Init
    <2> QED
      BY <1>2, <2>1, <2>2 DEF Init, LinkTypes
  <1>5. incomingAt(0) \in Transfers /\ noTransfer \in Transfers
        /\ ~noTransfer.live /\ incomingAt(0).queue = <<>> /\ noTransfer.queue = <<>>
        /\ incomingAt(0).accepted = 0 /\ ~noTransfer.suspend
    BY <1>1, <1>2 DEF incomingAt, noTransfer, Transfers
  <1>6. ReceiverTypes
    BY <1>2, <1>5 DEF Init, ReceiverTypes
  <1>7. \A k \in Sessions : /\ rl[k] = IF k = 1 THEN "read" ELSE "none"
                            /\ wpc[k] = IF k = 1 THEN "idle" ELSE "none"
                            /\ tr[k] = IF k = 1 THEN incomingAt(0) ELSE noTransfer
                            /\ low[k] = <<>> /\ back[k] = <<>>
    BY DEF Init
  <1>8. HoldInv
    BY <1>1, <1>7 DEF Init, HoldInv, Holds
  <1>9. ASSUME NEW k \in Sessions PROVE Local(k) /\ Token(k) /\ Used(k) /\ Unborn(k)
    <2>1. Local(k)
      <3>1. CASE k = 1
        <4>1. Fits("read", "idle", incomingAt(0), 0)
          BY <1>1, FitsResumed
        <4> QED
          BY <1>2, <1>7, <3>1, <4>1 DEF Local, Init
      <3>2. CASE k # 1
        <4>1. UpTo(<<>>, noTransfer.accepted)
          BY <1>2 DEF UpTo
        <4>2. Fits("none", "none", noTransfer, Len(written))
          BY <1>5, <4>1 DEF Fits
        <4> QED
          BY <1>7, <3>2, <4>2 DEF Local
      <3> QED
        BY <3>1, <3>2
    <2>2. ~Offered(k) /\ ~Ending(k) /\ OneOffer(k) /\ EndLast(k)
      BY <1>2, <1>7 DEF Offered, Ending, OneOffer, EndLast
    <2>3. ~Committing(k) /\ (Sending(k) => k = 1) /\ (k = 1 => Holds(k))
      BY <1>7 DEF Committing, Sending, Holds, Init
    <2>4. Token(k) /\ Used(k)
      BY <2>2, <2>3 DEF Token, Used
    <2>5. Unborn(k)
      <3>1. k > 1 => k # 1
        BY SMT DEF Sessions
      <3> QED
        BY <1>7, <3>1 DEF Unborn, Init
    <2> QED
      BY <2>1, <2>4, <2>5
  <1>10. ReportInv
    BY <1>2, <1>7 DEF Init, ReportInv, HonestBack, freshOutgoing
  <1>11. InOrder /\ Len(written) <= ChunkCount
    BY <1>1, <1>2 DEF Init, InOrder
  <1> QED
    BY <1>3, <1>4, <1>6, <1>8, <1>9, <1>10, <1>11 DEF IInv, SessionInv

(* Every step of a session of the receiver keeps the invariant. *)
LEMMA ReceiverInv ==
  ASSUME Bounds, IInv, NEW k \in Sessions, Receiver(k)
  PROVE  IInv'
  BY DataStep, EndStep, CommitStep, CloseLateStep, CancelStep, ResumeStep, StoreStep, StoreLateStep,
     DownStep, TakesStep, WritesStep, FinishesStep DEF Receiver

(* Every step keeps the invariant. *)
LEMMA NextInv ==
  ASSUME Bounds, IInv, [Next]_vars
  PROVE  IInv'
  <1>1. CASE Sender
    BY <1>1, SendStep, StateStep, CallSteps, ReconnectStep DEF Sender
  <1>2. CASE LinkLost
    BY <1>2, LostStep
  <1>3. CASE \E k \in Sessions : Receiver(k)
    BY <1>3, ReceiverInv
  <1>4. CASE UNCHANGED vars
    <2>1. PICK k \in Sessions : k = cur
      BY DEF IInv, SenderTypes
    <2>2. UNCHANGED <<cur, link, low, back, rxVars>> /\ SenderTypes'
          /\ high' \in [Sessions -> [resume : Nat, cancel : Nat]]
          /\ (spc' # "idle" => report' = "none") /\ ot' = ot /\ spc' = spc
      BY <1>4 DEF vars, rxVars, IInv, SenderTypes, LinkTypes, ReportInv
    <2>3. Sending(cur)' => Sending(cur)
      BY <2>2 DEF Sending
    <2> QED
      BY <2>2, <2>3, CallStep
  <1> QED
    BY <1>1, <1>2, <1>3, <1>4 DEF Next

(* The transfer's sessions keep the invariant: the writer is held by one of *)
(* them or by none, the chunks a session has queued follow those that are   *)
(* written, and a session takes up one Resume at most.                      *)
THEOREM Invariance == ASSUME Bounds PROVE Spec => []IInv
  <1>1. Init => IInv
    BY InitInv
  <1>2. IInv /\ [Next]_vars => IInv'
    BY NextInv
  <1> QED
    BY <1>1, <1>2, PTL DEF Spec

(* The state of handleIncomingTransferResume, of runIncomingTransfer and of *)
(* ResumeTransfer keeps its types.                                          *)
THEOREM ResumeTypes == ASSUME Bounds PROVE Spec => []TypeOK
  <1>1. IInv => TypeOK
    <2> SUFFICES ASSUME IInv PROVE TypeOK
      OBVIOUS
    <2>1. SenderTypes /\ body \in {"open", "suspended", "committed", "dropped"} /\ Len(written) <= ChunkCount
      BY DEF IInv, ReceiverTypes
    <2>2. ASSUME NEW k \in Sessions
          PROVE  /\ link[k] \in BOOLEAN
                 /\ rl[k] \in {"none", "read", "load", "drain", "ended"}
                 /\ store[k] \in {"none", "call", "late"}
                 /\ wpc[k] \in {"none", "idle", "write", "done", "closing"}
                 /\ tr[k].accepted \in 0 .. ChunkCount
      BY DEF IInv, LinkTypes, ReceiverTypes, Transfers
    <2> QED
      BY <2>1, <2>2 DEF TypeOK, SenderTypes
  <1> QED
    BY <1>1, Invariance, PTL

-----------------------------------------------------------------------------
(* The refinement of Delivery. *)

(* What Delivery sees of a state. *)
Visible == IF body = "suspended" THEN "open" ELSE body

(* What Delivery sees of the receiver is the writer's own state. *)
LEMMA Shown ==
  ASSUME IInv
  PROVE  Given = Len(written) /\ BodyOf = Visible
  <1>1. Given = Len(written)
    BY DEF IInv, Given
  <1>2. body = "open" => \E k \in Sessions : Holders = {k}
    <2>1. SUFFICES ASSUME body = "open" PROVE \E k \in Sessions : Holders = {k}
      OBVIOUS
    <2>2. PICK k \in Sessions : Holds(k)
      BY <2>1 DEF IInv, HoldInv
    <2>3. \A j \in Sessions : Holds(j) => j = k
      BY <2>2 DEF IInv, HoldInv
    <2>4. Holders = {k}
      BY <2>2, <2>3 DEF Holders, Holds
    <2> QED
      BY <2>4
  <1>3. BodyOf = Visible
    BY <1>2 DEF BodyOf, Visible
  <1> QED
    BY <1>1, <1>3

(* The same, after a step. *)
LEMMA ShownNext == IInv' => (Given = Len(written))' /\ (BodyOf = Visible)'
  BY Shown, PTL

(* The receiver's steps, as Delivery sees them. *)
LEMMA BodyRefines ==
  ASSUME IInv, IInv', report' = report,
         \/ written' = written /\ Visible' = Visible
         \/ written' = written /\ body = "open" /\ body' = "committed" /\ Len(written) = ChunkCount
         \/ written' = written /\ body \in {"open", "suspended"} /\ body' = "dropped"
         \/ /\ Len(written') = Len(written) + 1 /\ Len(written) < ChunkCount
            /\ body = "open" /\ body' = body
  PROVE  [Promise!Next]_(Promise!vars)
  <1>1. Given = Len(written) /\ BodyOf = Visible /\ Given' = Len(written') /\ BodyOf' = Visible'
    BY Shown, ShownNext
  <1> HIDE DEF Given, BodyOf
  <1>2. CASE written' = written /\ Visible' = Visible
    BY <1>1, <1>2 DEF Promise!vars
  <1>3. CASE written' = written /\ body = "open" /\ body' = "committed" /\ Len(written) = ChunkCount
    BY <1>1, <1>3 DEF Visible, Promise!Next, Promise!CommitBody
  <1>4. CASE written' = written /\ body \in {"open", "suspended"} /\ body' = "dropped"
    BY <1>1, <1>4 DEF Visible, Promise!Next, Promise!DropBody
  <1>5. CASE /\ Len(written') = Len(written) + 1 /\ Len(written) < ChunkCount
             /\ body = "open" /\ body' = body
    BY <1>1, <1>5 DEF Visible, Promise!Next, Promise!GiveChunk
  <1> QED
    BY <1>2, <1>3, <1>4, <1>5

(* A step of the receiver is a step of Delivery. *)
LEMMA ReceiverRefines ==
  ASSUME Bounds, IInv, IInv', NEW k \in Sessions, Receiver(k)
  PROVE  [Promise!Next]_(Promise!vars)
  <1>1. report' = report
    BY DEF Receiver, HandleData, HandleEnd, Commit, CloseReturnsLate, HandleCancel, HandleResume,
           StoreAnswers, StoreTimesOut, StoreAnswersLate, ReceiverDown, WorkerTakes, WorkerWrites,
           WorkerFinishes, txVars
  <1>2. Local(k) /\ (Holds(k) => body = "open") /\ tr[k] \in Transfers /\ Len(written) \in Nat
        /\ ReceiverTypes
    BY Here
  <1>3. CASE \/ HandleData(k) \/ HandleEnd(k) \/ HandleCancel(k) \/ HandleResume(k) \/ StoreTimesOut(k)
             \/ ReceiverDown(k) \/ WorkerTakes(k)
    <2>1. written' = written /\ body' = body
      BY <1>3 DEF HandleData, HandleEnd, HandleCancel, HandleResume, StoreTimesOut, ReceiverDown,
                  WorkerTakes
    <2> QED
      BY <1>1, <2>1, BodyRefines DEF Visible
  <1>4. CASE Commit(k)
    <2>1. rl[k] = "drain" /\ wpc[k] = "done" /\ written' = written
          /\ body' \in {"committed", "dropped", body}
      BY <1>4 DEF Commit
    <2>2. Len(written) = ChunkCount /\ body = "open"
      BY <1>2, <2>1 DEF Local, Fits, Holds
    <2> QED
      BY <1>1, <2>1, <2>2, BodyRefines DEF Visible
  <1>5. CASE CloseReturnsLate(k)
    <2>1. wpc[k] = "closing" /\ written' = written /\ body' = "dropped"
      BY <1>5 DEF CloseReturnsLate
    <2>2. body = "open"
      BY <1>2, <2>1 DEF Holds
    <2> QED
      BY <1>1, <2>1, <2>2, BodyRefines
  <1>6. CASE StoreAnswers(k) \/ StoreAnswersLate(k)
    <2>1. written' = written
          /\ (body' = body \/ (body = "suspended" /\ body' \in {"open", "dropped"}))
      BY <1>6 DEF StoreAnswers, StoreAnswersLate, StoreHasWriter
    <2> QED
      BY <1>1, <2>1, BodyRefines DEF Visible
  <1>7. CASE WorkerWrites(k)
    <2>1. /\ wpc[k] = "write" /\ body' = body
          /\ written' = written \/ written' = Append(written, Head(tr[k].queue))
      BY <1>7 DEF WorkerWrites
    <2>2. body = "open"
      BY <1>2, <2>1 DEF Holds
    <2>3. CASE written' = written
      BY <1>1, <2>1, <2>3, BodyRefines DEF Visible
    <2>4. CASE written' = Append(written, Head(tr[k].queue))
      <3>1. Fits(rl[k], "write", tr[k], Len(written))
        BY <1>2, <2>1 DEF Local
      <3>2. Len(written) \in Chunks
        BY <1>2, <3>1, FitsWritten
      <3>3. Len(written) < ChunkCount
        BY <3>2, SMT DEF Chunks, Bounds
      <3>4. Len(written') = Len(written) + 1
        BY <1>2, <2>4, SMT DEF ReceiverTypes
      <3> QED
        BY <1>1, <2>1, <2>2, <3>3, <3>4, BodyRefines
    <2> QED
      BY <2>1, <2>3, <2>4
  <1>8. CASE WorkerFinishes(k)
    <2>1. /\ wpc[k] = "idle" /\ written' = written
          /\ body' \in {body, "suspended", "dropped"}
      BY <1>8 DEF WorkerFinishes
    <2>2. body = "open"
      BY <1>2, <2>1 DEF Holds
    <2> QED
      BY <1>1, <2>1, <2>2, BodyRefines DEF Visible
  <1> QED
    BY <1>3, <1>4, <1>5, <1>6, <1>7, <1>8 DEF Receiver

(* Every step is a step of Delivery. *)
LEMMA StepRefines ==
  ASSUME Bounds, IInv, IInv', [Next]_vars
  PROVE  [Promise!Next]_(Promise!vars)
  <1>1. CASE CallSucceeds
    <2>1. /\ spc = "commit" /\ ot.completed /\ report' = "ok" /\ body' = body /\ written' = written
      BY <1>1 DEF CallSucceeds, rxVars
    <2>2. report = "none" /\ body = "committed"
      BY <2>1 DEF IInv, ReportInv
    <2>3. BodyOf = Visible /\ BodyOf' = Visible' /\ Given' = Given
      BY <2>1, Shown, ShownNext
    <2>4. BodyOf = "committed" /\ BodyOf' = BodyOf
      BY <2>1, <2>2, <2>3 DEF Visible
    <2> QED
      BY <2>1, <2>2, <2>3, <2>4 DEF Promise!Next, Promise!ReportSuccess
  <1>2. CASE GiveUp
    <2>1. report = "none" /\ report' = "error" /\ body' = body /\ written' = written
      BY <1>2 DEF GiveUp, rxVars
    <2>2. /\ BodyOf = Visible /\ BodyOf' = Visible'
          /\ Given = Len(written) /\ Given' = Len(written')
      BY Shown, ShownNext
    <2>3. BodyOf' = BodyOf /\ Given' = Given
      BY <2>1, <2>2 DEF Visible
    <2> QED
      BY <2>1, <2>3 DEF Promise!Next, Promise!ReportFailure
  <1>3. CASE \/ SendChunk \/ HandleState \/ CallFails \/ ContextEnds \/ ResumeTransfer \/ OpenReader
             \/ SenderDown \/ Reconnect \/ LinkLost \/ UNCHANGED vars
    <2>1. report' = report /\ body' = body /\ written' = written
      BY <1>3 DEF SendChunk, HandleState, CallFails, ContextEnds, ResumeTransfer, OpenReader,
                  SenderDown, Reconnect, LinkLost, vars, rxVars, txVars
    <2> QED
      BY <2>1, BodyRefines DEF Visible
  <1>4. CASE \E k \in Sessions : Receiver(k)
    BY <1>4, ReceiverRefines
  <1> QED
    BY <1>1, <1>2, <1>3, <1>4 DEF Next, Sender

(* Over all its sessions a transfer gives the writer each chunk once and in  *)
(* order, commits it at most once and only when it is complete, and reports  *)
(* success only then: ResumeTransfer and handleIncomingTransferResume, with  *)
(* lost connections, late answers of the store and sessions that outlive     *)
(* their connections, implement Delivery.                                    *)
THEOREM ResumeImplementsDelivery == ASSUME Bounds PROVE Spec => ResumeDelivers
  <1>1. Init => Promise!Init
    <2> SUFFICES ASSUME Init PROVE Promise!Init
      OBVIOUS
    <2>1. Given = Len(written) /\ BodyOf = Visible
      BY InitInv, Shown
    <2>2. Len(<<>>) = 0
      BY SMT
    <2>3. Given = 0 /\ BodyOf = "open" /\ report = "none" /\ ChunkCount \in Nat
      BY <2>1, <2>2 DEF Init, Visible, Bounds
    <2> QED
      BY <2>3 DEF Promise!Init
  <1>2. IInv /\ IInv' /\ [Next]_vars => [Promise!Next]_(Promise!vars)
    BY StepRefines
  <1> QED
    BY <1>1, <1>2, Invariance, PTL DEF Spec, ResumeDelivers, Promise!Spec

=============================================================================
