---------------------------- MODULE CloseProofs -----------------------------
(***************************************************************************)
(* Proofs about two sessions that close, for any calls, any timeouts and   *)
(* any transfers: the inductive invariant, the steps that preserve it, and *)
(* what follows from it.                                                   *)
(***************************************************************************)
EXTENDS CloseHandshake, TLAPS

(* Zenon finds most leaves faster; the others cite SMT. *)
USE Zenon

(* The CloseAck of s was given to the transport. *)
Acked(s) == sent[s]["peer"] = "ok"

(* A critical frame and the caller that waits for it: only the answer to    *)
(* the peer's Close is a CloseAck.                                          *)
Items ==
    {m \in [frame : Frames, by : Callers \cup {"none"}] : m.frame = "closeAck" => m.by = "peer"}

(* The CloseAck of s waits for the writer. *)
AckQueued(s) == \E i \in 1 .. Len(queued[s]) : queued[s][i].by = "peer"

(* The critical queue of s: a closed writer keeps nothing, at most one      *)
(* CloseAck waits and only between handing it over and its outcome, and an  *)
(* outcome is there only once the answer has been queued.                   *)
QueueOK(s) ==
    /\ writer[s] = "closed" => queued[s] = <<>>
    /\ \A i, j \in 1 .. Len(queued[s]) :
          queued[s][i].by = "peer" /\ queued[s][j].by = "peer" => i = j
    /\ AckQueued(s) => sent[s]["peer"] = "none" /\ ppc[s] \notin {"idle", "drain", "send"}
    /\ ppc[s] \in {"idle", "drain", "send"} => sent[s]["peer"] = "none"
    /\ ppc[s] = "idle" <=> ~seen[s]

(* What s may have in transit: a CloseAck only once it was written. *)
SoundFrames(s) == IF Acked(s) THEN Frames ELSE Frames \ {"closeAck"}

(* Every trace of a CloseAck goes back to one that was written: in transit, *)
(* in the peer's hands, in the closeAck channel, in peerCloseDone, and in   *)
(* the nil that CloseWith returns.                                          *)
AckOK(s) ==
    /\ wire[s] \in Seq(SoundFrames(s))
    /\ peerDone[s] = "ok" => Acked(s)
    /\ rpc[s] = "closeAck" \/ closeAck[s] \/ cpc[s] \in {"peer", "wait", "finish"}
          => Acked(Other(s))
    /\ result[s] = "ok" => Acked(s) \/ Acked(Other(s))

(* CloseWith has begun to close s and has not returned. *)
Active(s) == cpc[s] \notin {"idle", "done"}

(* The Close of s was written and CloseWith waits, or is about to wait, for *)
(* the CloseAck.                                                            *)
Delivered(s) == cpc[s] = "ack" \/ (cpc[s] = "sending" /\ sent[s]["closer"] = "ok")

(* No answer to the peer's Close can still store Closed: it is a collision, *)
(* which leaves that to CloseWith, or it has ended, or it is bound to fail. *)
Quiet(s) ==
    \/ collision[s]
    \/ ppc[s] \in {"idle", "fail", "done"}
    \/ ppc[s] \in {"drain", "send"} /\ writer[s] = "closed"
    \/ ppc[s] = "sending" /\ sent[s]["peer"] = "failed"

(* The state word and the goroutines that change it: a CloseWith that waits *)
(* for the CloseAck finds the session not yet closed.                       *)
CloseOK(s) ==
    /\ state[s] = "established" => ~seen[s]
    /\ state[s] = "failed" /\ Idle(s) => writer[s] = "closed" \/ ppc[s] = "done"
    /\ rpc[s] = "mark" => writer[s] = "closed"
    /\ ppc[s] = "finish" => ~collision[s]
    /\ Active(s) => gpc[s] = "idle"
    /\ Active(s) /\ writer[s] # "closed" =>
          state[s] \in {"closing", "draining"} \/ (state[s] = "failed" /\ ppc[s] = "done")
    /\ Active(s) /\ (writer[s] # "closed" \/ Delivered(s)) => Quiet(s)
    /\ Delivered(s) => state[s] # "closed"

(* The types of the variables, in groups. *)
StateTypes ==
    /\ state \in [Peers -> {"established", "draining", "closing"} \cup Terminal]
    /\ busy \in [Peers -> BOOLEAN]

(* The types of the writers, and of what their callers were told. *)
LinkTypes ==
    /\ writer \in [Peers -> {"open", "control", "closed"}]
    /\ queued \in [Peers -> Seq(Items)]
    /\ sent \in [Peers -> [Callers -> {"none", "ok", "failed"}]]

(* The types of what is under way. *)
WireTypes ==
    /\ wire \in [Peers -> Seq(Frames)]
    /\ carrier \in [Peers -> BOOLEAN]

(* The types of CloseWith and SendGoAway. *)
CloseTypes ==
    /\ cpc \in [Peers -> {"idle", "begin", "send", "sending", "unsent", "ack", "peer",
                          "wait", "finish", "done"}]
    /\ kind \in [Peers -> {"none", "immediate", "drain"}]
    /\ result \in [Peers -> {"none", "noop", "ok", "error"}]
    /\ gpc \in [Peers -> {"idle", "goaway", "goawayDrain", "sending", "done"}]

(* The types of Run. *)
RunTypes ==
    rpc \in [Peers -> {"read", "closing", "draining", "failing", "cleanup", "mark"}
                      \cup Frames \cup Ended]

(* The types of the answer to the peer's Close. *)
PeerTypes ==
    /\ ppc \in [Peers -> {"idle", "drain", "send", "sending", "fail", "finish", "done"}]
    /\ collision \in [Peers -> BOOLEAN]
    /\ seen \in [Peers -> BOOLEAN]
    /\ closeAck \in [Peers -> BOOLEAN]
    /\ peerDone \in [Peers -> {"none", "ok", "failed"}]

(* All types. *)
Types == /\ StateTypes /\ LinkTypes /\ WireTypes
         /\ CloseTypes /\ RunTypes /\ PeerTypes

(* The inductive invariant. *)
IInv == Types /\ \A s \in Peers : QueueOK(s) /\ AckOK(s) /\ CloseOK(s)

-----------------------------------------------------------------------------
(* There are two sessions, each the peer of the other. *)
LEMMA OtherFacts ==
  ASSUME NEW s \in Peers
  PROVE  /\ Other(s) \in Peers /\ Other(s) # s /\ Other(Other(s)) = s
         /\ \A t \in Peers : t # s => t = Other(s)
  BY PeerAssumption, SMT DEF Other

(* Sequences over a larger set. *)
LEMMA SeqGrows ==
  ASSUME NEW S, NEW T, S \subseteq T, NEW q \in Seq(S)
  PROVE  q \in Seq(T)
  BY SMT

(* What is left of a sequence, and what is added to it. *)
LEMMA HeadTail ==
  ASSUME NEW S, NEW q \in Seq(S), q # <<>>
  PROVE  Head(q) \in S /\ Tail(q) \in Seq(S)
  BY SMT

(* An element added to a sequence. *)
LEMMA Appended ==
  ASSUME NEW S, NEW q \in Seq(S), NEW e \in S
  PROVE  Append(q, e) \in Seq(S)
  BY SMT

(* Two established sessions satisfy the invariant. *)
LEMMA InitInv == Init => IInv
  <1> SUFFICES ASSUME Init PROVE IInv
    OBVIOUS
  <1> USE DEF Init
  <1>1. Types
    BY SMT DEF Types, StateTypes, LinkTypes, WireTypes, CloseTypes, RunTypes, PeerTypes, Frames, Ended, Terminal
  <1>2. ASSUME NEW s \in Peers PROVE QueueOK(s) /\ AckOK(s) /\ CloseOK(s)
    BY <1>2, SMT DEF QueueOK, AckQueued, AckOK, CloseOK, Active, Delivered, Callers
  <1> QED
    BY <1>1, <1>2 DEF IInv

(* What the invariant reads of one session, by who changes it. *)
AtLink(s) == <<writer[s], queued[s], sent[s]>>

(* What the calls of the application have as their own. *)
AtClose(s) == <<cpc[s], result[s], gpc[s]>>

(* What the answer to the peer's Close has as its own. *)
AtPeer(s) == <<ppc[s], collision[s], seen[s], closeAck[s], peerDone[s]>>

(* Nothing of the other session changes, except that its frames are read or *)
(* lost.                                                                    *)
OnlyAt(s) ==
    \A t \in Peers : t # s =>
        /\ UNCHANGED <<state[t], rpc[t], AtLink(t), AtClose(t), AtPeer(t)>>
        /\ wire'[t] = wire[t] \/ wire'[t] = <<>> \/ (wire[t] # <<>> /\ wire'[t] = Tail(wire[t]))

(* What a step of s must establish for s: the invariant of the other        *)
(* session follows.                                                         *)
LEMMA LocalStep ==
  ASSUME IInv, NEW s \in Peers, Types', OnlyAt(s),
         Acked(s) => Acked(s)',
         QueueOK(s)', AckOK(s)', CloseOK(s)'
  PROVE  IInv'
  <1>1. ASSUME NEW t \in Peers, t # s PROVE QueueOK(t)' /\ CloseOK(t)'
    BY <1>1, SMT DEF IInv, OnlyAt, AtLink, AtClose, AtPeer, QueueOK, AckQueued, CloseOK, Active, Delivered,
                Quiet, Idle
  <1>2. \A t \in Peers : Acked(t) => Acked(t)'
    BY DEF OnlyAt, AtLink, Acked
  <1>3. ASSUME NEW t \in Peers, t # s PROVE AckOK(t)'
    <2>1. Other(t) \in Peers
      BY OtherFacts
    <2>2. Acked(t)' = Acked(t) /\ (Acked(Other(t)) => Acked(Other(t))')
      BY <1>2, <1>3, <2>1, OtherFacts DEF OnlyAt, AtLink, Acked
    <2>3. wire'[t] \in Seq(SoundFrames(t)')
      <3>1. SoundFrames(t)' = SoundFrames(t) /\ wire[t] \in Seq(SoundFrames(t))
        BY <2>2 DEF SoundFrames, IInv, AckOK, Frames
      <3>2. CASE wire'[t] = wire[t]
        BY <3>1, <3>2
      <3>3. CASE wire'[t] = <<>>
        BY <3>3, SMT
      <3>4. CASE wire[t] # <<>> /\ wire'[t] = Tail(wire[t])
        BY <3>1, <3>4, HeadTail
      <3> QED
        BY <1>3, <3>2, <3>3, <3>4 DEF OnlyAt
    <2> QED
      BY <1>3, <2>1, <2>2, <2>3 DEF IInv, OnlyAt, AtClose, AtPeer, AckOK
  <1> QED
    BY <1>1, <1>3 DEF IInv

(* The types, each by its name. *)
LEMMA TypeFacts ==
  ASSUME IInv
  PROVE  /\ StateTypes /\ LinkTypes /\ WireTypes
         /\ CloseTypes /\ RunTypes /\ PeerTypes
  BY DEF IInv, Types

-----------------------------------------------------------------------------
(* The writer. *)

(* releaseQueuedLocked: nothing stays queued, and who waited learns of a    *)
(* failure.                                                                 *)
LEMMA ReleaseFacts ==
  ASSUME IInv, NEW s \in Peers, NEW w \in {"open", "control", "closed"},
         writer' = Set(writer, s, w), releaseQueuedLocked(s)
  PROVE  /\ LinkTypes' /\ writer'[s] = w /\ queued'[s] = <<>>
         /\ \A t \in Peers : t # s => UNCHANGED <<writer[t], queued[t], sent[t]>>
         /\ \A c \in Callers : sent'[s][c] \in {sent[s][c], "failed"}
         /\ sent'[s]["peer"] = IF AckQueued(s) THEN "failed" ELSE sent[s]["peer"]
         /\ Acked(s) => Acked(s)'
  <1> USE DEF Set
  <1>1. writer' \in [Peers -> {"open", "control", "closed"}] /\ writer'[s] = w
    BY DEF IInv, Types, StateTypes, LinkTypes, WireTypes
  <1>2. queued' \in [Peers -> Seq(Items)] /\ queued'[s] = <<>>
    BY SMT DEF releaseQueuedLocked, IInv, Types, LinkTypes
  <1>3. /\ sent' \in [Peers -> [Callers -> {"none", "ok", "failed"}]]
        /\ \A c \in Callers : sent'[s][c] = IF \E n \in DOMAIN queued[s] : queued[s][n].by = c
                                            THEN "failed" ELSE sent[s][c]
    BY DEF releaseQueuedLocked, Refused, IInv, Types, LinkTypes
  <1>4. \A t \in Peers : t # s => UNCHANGED <<writer[t], queued[t], sent[t]>>
    BY DEF releaseQueuedLocked, Refused, IInv, Types, LinkTypes
  <1>5. sent'[s]["peer"] = IF AckQueued(s) THEN "failed" ELSE sent[s]["peer"]
    <2>1. DOMAIN queued[s] = 1 .. Len(queued[s])
      BY SMT DEF IInv, Types, StateTypes, LinkTypes, WireTypes
    <2> QED
      BY <1>3, <2>1 DEF AckQueued, Callers
  <1>6. Acked(s) => Acked(s)'
    BY <1>5 DEF Acked, IInv, QueueOK
  <1> QED
    BY <1>1, <1>2, <1>3, <1>4, <1>5, <1>6 DEF LinkTypes

(* sendAndWait: the frame is queued, or refused by a closed writer. *)
LEMMA SendFacts ==
  ASSUME IInv, NEW s \in Peers, NEW f \in Frames, NEW c \in Callers \cup {"none"},
         f = "closeAck" => c = "peer", sendAndWait(s, f, c)
  PROVE  /\ LinkTypes' /\ UNCHANGED writer
         /\ \A t \in Peers : t # s => UNCHANGED <<queued[t], sent[t]>>
         /\ writer[s] = "closed" => /\ UNCHANGED queued
                                    /\ \A d \in Callers : sent'[s][d] = IF d = c THEN "failed" ELSE sent[s][d]
         /\ writer[s] # "closed" => /\ UNCHANGED sent
                                    /\ queued'[s] = Append(queued[s], [frame |-> f, by |-> c])
  <1> USE DEF Set
  <1> DEFINE item == [frame |-> f, by |-> c]
  <1>1. item \in Items
    BY DEF Items
  <1>2. CASE writer[s] = "closed"
    <2>1. UNCHANGED <<writer, queued>> /\ sent' = Refused(s, <<item>>)
      BY <1>2 DEF sendAndWait
    <2>2. /\ sent' \in [Peers -> [Callers -> {"none", "ok", "failed"}]]
          /\ \A d \in Callers : sent'[s][d] = IF d = c THEN "failed" ELSE sent[s][d]
          /\ \A t \in Peers : t # s => UNCHANGED sent[t]
      <3>1. \A d \in Callers : (\E n \in DOMAIN <<item>> : <<item>>[n].by = d) <=> d = c
        BY SMT
      <3> QED
        BY <2>1, <3>1 DEF Refused, IInv, Types, LinkTypes
    <2> QED
      BY <1>2, <2>1, <2>2 DEF LinkTypes, IInv, Types
  <1>3. CASE writer[s] # "closed"
    <2>1. UNCHANGED <<writer, sent>> /\ queued' = [queued EXCEPT ![s] = Append(queued[s], item)]
      BY <1>3 DEF sendAndWait
    <2>2. Append(queued[s], item) \in Seq(Items)
      BY <1>1, Appended DEF IInv, Types, StateTypes, LinkTypes, WireTypes
    <2> HIDE DEF item
    <2>3. /\ queued' \in [Peers -> Seq(Items)]
          /\ queued'[s] = Append(queued[s], item)
          /\ \A t \in Peers : t # s => UNCHANGED queued[t]
      BY <2>1, <2>2 DEF IInv, Types, StateTypes, LinkTypes, WireTypes
    <2> QED
      BY <1>3, <2>1, <2>3 DEF LinkTypes, IInv, Types, item
  <1> QED
    BY <1>2, <1>3

(* The writer: the first frame leaves the queue, who waits for it learns of *)
(* it, and it is in transit if the transports are open.                     *)
LEMMA WriterSendsFacts ==
  ASSUME IInv, NEW s \in Peers, WriterSends(s)
  PROVE  /\ LinkTypes' /\ UNCHANGED writer /\ writer[s] # "closed"
         /\ \A t \in Peers : t # s => UNCHANGED <<queued[t], sent[t], wire[t]>>
         /\ queued[s] # <<>> /\ queued'[s] = Tail(queued[s]) /\ Head(queued[s]) \in Items
         /\ \A d \in Callers : sent'[s][d] = IF d = Head(queued[s]).by THEN "ok" ELSE sent[s][d]
         /\ wire' \in [Peers -> Seq(Frames)]
         /\ wire'[s] = wire[s] \/ wire'[s] = Append(wire[s], Head(queued[s]).frame)
  <1> USE DEF Set
  <1> DEFINE item == Head(queued[s])
  <1>1. queued[s] # <<>> /\ queued[s] \in Seq(Items) /\ writer[s] # "closed" /\ UNCHANGED writer
    BY DEF WriterSends, IInv, Types, LinkTypes, QueueOK
  <1>2. item \in Items /\ Tail(queued[s]) \in Seq(Items)
    BY <1>1, HeadTail
  <1>3. item.by \in Callers \cup {"none"} /\ item.frame \in Frames /\ "none" \notin Callers
    BY <1>2 DEF Items, Callers
  <1>4. /\ queued' = [queued EXCEPT ![s] = Tail(queued[s])]
        /\ sent' = IF item.by = "none" THEN sent ELSE [sent EXCEPT ![s][item.by] = "ok"]
        /\ wire' = wire \/ wire' = [wire EXCEPT ![s] = Append(wire[s], item.frame)]
    BY DEF WriterSends
  <1> HIDE DEF item
  <1>5. /\ queued' \in [Peers -> Seq(Items)] /\ queued'[s] = Tail(queued[s])
        /\ \A t \in Peers : t # s => UNCHANGED queued[t]
    BY <1>2, <1>4 DEF IInv, Types, StateTypes, LinkTypes, WireTypes
  <1>6. /\ sent' \in [Peers -> [Callers -> {"none", "ok", "failed"}]]
        /\ \A d \in Callers : sent'[s][d] = IF d = item.by THEN "ok" ELSE sent[s][d]
        /\ \A t \in Peers : t # s => UNCHANGED sent[t]
    <2>1. sent \in [Peers -> [Callers -> {"none", "ok", "failed"}]]
      BY DEF IInv, Types, StateTypes, LinkTypes, WireTypes
    <2>2. CASE item.by = "none"
      BY <1>3, <1>4, <2>1, <2>2
    <2>3. CASE item.by \in Callers
      <3>1. sent' = [sent EXCEPT ![s] = [sent[s] EXCEPT ![item.by] = "ok"]]
        BY <1>3, <1>4, <2>3
      <3>2. [sent[s] EXCEPT ![item.by] = "ok"] \in [Callers -> {"none", "ok", "failed"}]
        BY <2>1, <2>3
      <3> QED
        BY <2>1, <2>3, <3>1, <3>2
    <2> QED
      BY <1>3, <2>2, <2>3
  <1>7. /\ wire' \in [Peers -> Seq(Frames)]
        /\ wire'[s] = wire[s] \/ wire'[s] = Append(wire[s], item.frame)
        /\ \A t \in Peers : t # s => UNCHANGED wire[t]
    <2>1. wire \in [Peers -> Seq(Frames)]
      BY DEF IInv, Types, StateTypes, LinkTypes, WireTypes
    <2>2. Append(wire[s], item.frame) \in Seq(Frames)
      BY <1>3, <2>1, Appended
    <2> QED
      BY <1>4, <2>1, <2>2
  <1> QED
    BY <1>1, <1>2, <1>5, <1>6, <1>7 DEF LinkTypes, IInv, Types, item

(* Where the answer to the peer's Close has not been queued. *)
Early == {"idle", "drain", "send"}

(* The queue is not touched. *)
LEMMA QueueSame ==
  ASSUME IInv, NEW s \in Peers, UNCHANGED <<writer[s], queued[s], sent[s]>>,
         ppc[s] \in Early <=> ppc'[s] \in Early, ppc'[s] = "idle" <=> ~seen'[s]
  PROVE  QueueOK(s)'
  BY DEF IInv, QueueOK, AckQueued, Early

(* The queue is given back. *)
LEMMA QueueEmptied ==
  ASSUME IInv, NEW s \in Peers, NEW w \in {"open", "control", "closed"},
         writer' = Set(writer, s, w), releaseQueuedLocked(s),
         ppc'[s] \in Early => ppc[s] \in Early, ppc'[s] = "idle" <=> ~seen'[s]
  PROVE  QueueOK(s)'
  <1>1. /\ queued'[s] = <<>> /\ Len(queued'[s]) = 0
        /\ sent'[s]["peer"] = IF AckQueued(s) THEN "failed" ELSE sent[s]["peer"]
    BY ReleaseFacts, SMT
  <1>2. ~AckQueued(s)'
    BY <1>1, SMT DEF AckQueued
  <1> QED
    BY <1>1, <1>2, SMT DEF IInv, QueueOK, Early

(* A frame is queued or refused. *)
LEMMA QueueSent ==
  ASSUME IInv, NEW s \in Peers, NEW f \in Frames, NEW c \in Callers \cup {"none"},
         f = "closeAck" => c = "peer", sendAndWait(s, f, c),
         ppc'[s] = "idle" <=> ~seen'[s],
         IF c = "peer" THEN ppc[s] \in Early /\ ppc'[s] \notin Early ELSE ppc'[s] = ppc[s]
  PROVE  QueueOK(s)' /\ (Acked(s) => Acked(s)')
  <1>1. "peer" \in Callers /\ "none" \notin Callers /\ queued[s] \in Seq(Items)
    BY DEF Callers, IInv, Types, LinkTypes
  <1>2. CASE writer[s] = "closed"
    <2>0. queued' = queued /\ writer' = writer /\ queued[s] = <<>>
      BY <1>2, SendFacts DEF IInv, QueueOK
    <2>1. /\ writer'[s] = "closed" /\ queued'[s] = <<>>
          /\ sent'[s]["peer"] = IF "peer" = c THEN "failed" ELSE sent[s]["peer"]
      <3>1. \A d \in Callers : sent'[s][d] = IF d = c THEN "failed" ELSE sent[s][d]
        BY <1>2, SendFacts, Zenon
      <3> QED
        BY <1>1, <1>2, <2>0, <3>1
    <2>2. ~AckQueued(s)' /\ Len(queued'[s]) = 0
      BY <2>1, SMT DEF AckQueued
    <2> QED
      BY <1>2, <2>1, <2>2, SMT DEF IInv, QueueOK, Early, Acked
  <1>3. CASE writer[s] # "closed"
    <2>1. writer'[s] # "closed" /\ sent' = sent /\ queued'[s] = Append(queued[s], [frame |-> f, by |-> c])
      BY <1>3, SendFacts
    <2>2. /\ Len(queued[s]) \in Nat /\ Len(queued'[s]) = Len(queued[s]) + 1
          /\ \A i \in 1 .. Len(queued[s]) : queued'[s][i] = queued[s][i]
          /\ queued'[s][Len(queued[s]) + 1].by = c
      BY <1>1, <2>1, SMT
    <2>3. c # "peer" => \A i \in 1 .. Len(queued'[s]) : queued'[s][i].by = "peer" =>
                            i \in 1 .. Len(queued[s]) /\ queued[s][i].by = "peer"
      BY <2>2, SMT
    <2>4. c = "peer" => ~AckQueued(s)
      BY DEF IInv, QueueOK, Early
    <2>5. c = "peer" => \A i \in 1 .. Len(queued'[s]) : queued'[s][i].by = "peer" =>
                            i = Len(queued[s]) + 1
      <3>1. \A i \in 1 .. Len(queued[s]) + 1 : i \in 1 .. Len(queued[s]) \/ i = Len(queued[s]) + 1
        BY <2>2, SMT
      <3> QED
        BY <2>2, <2>4, <3>1, Zenon DEF AckQueued
    <2>6. CASE c = "peer"
      BY <2>1, <2>5, <2>6 DEF IInv, QueueOK, AckQueued, Early, Acked
    <2>7. CASE c # "peer"
      BY <2>1, <2>3, <2>7 DEF IInv, QueueOK, AckQueued, Early, Acked
    <2> QED
      BY <2>6, <2>7
  <1> QED
    BY <1>2, <1>3

(* What is left of the writer of s once its queue is released. *)
LinkReleased(s, w) ==
    /\ LinkTypes' /\ writer'[s] = w
    /\ \A t \in Peers : t # s => UNCHANGED AtLink(t)
    /\ sent'[s]["closer"] \in {sent[s]["closer"], "failed"}
    /\ sent'[s]["peer"] \in {sent[s]["peer"], "failed"}
    /\ Acked(s) => Acked(s)'
    /\ (ppc'[s] \in Early => ppc[s] \in Early) /\ (ppc'[s] = "idle" <=> ~seen'[s]) => QueueOK(s)'

(* What an action has to know of releaseQueuedLocked. *)
LEMMA ReleasedFacts ==
  ASSUME IInv, NEW s \in Peers, NEW w \in {"open", "control", "closed"},
         writer' = Set(writer, s, w), releaseQueuedLocked(s)
  PROVE  LinkReleased(s, w)
  <1>1. /\ LinkTypes' /\ writer'[s] = w /\ (Acked(s) => Acked(s)')
        /\ \A t \in Peers : t # s => UNCHANGED AtLink(t)
        /\ \A c \in Callers : sent'[s][c] \in {sent[s][c], "failed"}
    BY ReleaseFacts DEF AtLink
  <1>2. sent'[s]["closer"] \in {sent[s]["closer"], "failed"} /\ sent'[s]["peer"] \in {sent[s]["peer"], "failed"}
    BY <1>1 DEF Callers
  <1>3. (ppc'[s] \in Early => ppc[s] \in Early) /\ (ppc'[s] = "idle" <=> ~seen'[s]) => QueueOK(s)'
    BY QueueEmptied
  <1> QED
    BY <1>1, <1>2, <1>3 DEF LinkReleased

(* closeWriter *)
LEMMA CloseWriterFacts ==
  ASSUME IInv, NEW s \in Peers, closeWriter(s)
  PROVE  LinkReleased(s, "closed")
  BY ReleasedFacts DEF closeWriter

(* beginClosing *)
LEMMA BeginClosingFacts ==
  ASSUME IInv, NEW s \in Peers, beginClosing(s)
  PROVE  LinkReleased(s, IF writer[s] = "closed" THEN "closed" ELSE "control")
  <1> DEFINE w == IF writer[s] = "closed" THEN "closed" ELSE "control"
  <1>1. w \in {"open", "control", "closed"} /\ writer' = Set(writer, s, w) /\ releaseQueuedLocked(s)
    BY DEF beginClosing
  <1> HIDE DEF w
  <1>2. LinkReleased(s, w)
    BY <1>1, ReleasedFacts
  <1> QED
    BY <1>2 DEF w

(* What sendAndWait of c's frame leaves of the writer of s. *)
LinkSent(s, c) ==
    /\ LinkTypes' /\ UNCHANGED writer[s]
    /\ \A t \in Peers : t # s => UNCHANGED AtLink(t)
    /\ sent'[s]["closer"] = IF "closer" = c /\ writer[s] = "closed" THEN "failed" ELSE sent[s]["closer"]
    /\ sent'[s]["peer"] = IF "peer" = c /\ writer[s] = "closed" THEN "failed" ELSE sent[s]["peer"]
    /\ Acked(s) => Acked(s)'
    /\ QueueOK(s)'

(* What an action has to know of sendAndWait. *)
LEMMA SentFacts ==
  ASSUME IInv, NEW s \in Peers, NEW f \in Frames, NEW c \in Callers \cup {"none"},
         f = "closeAck" => c = "peer", sendAndWait(s, f, c),
         ppc'[s] = "idle" <=> ~seen'[s],
         IF c = "peer" THEN ppc[s] \in Early /\ ppc'[s] \notin Early ELSE ppc'[s] = ppc[s]
  PROVE  LinkSent(s, c)
  <1>1. QueueOK(s)' /\ (Acked(s) => Acked(s)')
    BY QueueSent
  <1>2. /\ LinkTypes' /\ UNCHANGED writer
        /\ \A t \in Peers : t # s => UNCHANGED <<queued[t], sent[t]>>
    BY SendFacts
  <1>3. \A d \in Callers : sent'[s][d] = IF d = c /\ writer[s] = "closed" THEN "failed" ELSE sent[s][d]
    <2>1. CASE writer[s] = "closed"
      <3>1. \A d \in Callers : sent'[s][d] = IF d = c THEN "failed" ELSE sent[s][d]
        BY <2>1, SendFacts, Zenon
      <3> QED
        BY <2>1, <3>1
    <2>2. CASE writer[s] # "closed"
      <3>1. sent' = sent
        BY <2>2, SendFacts, Zenon
      <3> QED
        BY <2>2, <3>1
    <2> QED
      BY <2>1, <2>2
  <1>4. /\ sent'[s]["closer"] = IF "closer" = c /\ writer[s] = "closed" THEN "failed" ELSE sent[s]["closer"]
        /\ sent'[s]["peer"] = IF "peer" = c /\ writer[s] = "closed" THEN "failed" ELSE sent[s]["peer"]
    BY <1>3 DEF Callers
  <1> QED
    BY <1>1, <1>2, <1>4 DEF LinkSent, AtLink

(* Closing the transport of s loses what its peer sent and s has not read. *)
CarrierClosed(s) ==
    /\ WireTypes' /\ wire'[s] = wire[s]
    /\ \A t \in Peers : t # s => wire'[t] = <<>>

(* Closing the transport. *)
LEMMA CarrierFacts ==
  ASSUME IInv, NEW s \in Peers, t_Close(s)
  PROVE  CarrierClosed(s)
  <1>1. Other(s) \in Peers /\ Other(s) # s /\ \A t \in Peers : t # s => t = Other(s)
    BY OtherFacts
  <1>2. wire \in [Peers -> Seq(Frames)] /\ carrier \in [Peers -> BOOLEAN] /\ <<>> \in Seq(Frames)
    BY TypeFacts, SMT DEF WireTypes
  <1>3. wire' = [wire EXCEPT ![Other(s)] = <<>>] /\ carrier' = [carrier EXCEPT ![s] = FALSE]
    BY DEF t_Close, Set
  <1>4. carrier' \in [Peers -> BOOLEAN]
    BY <1>2, <1>3
  <1>5. wire' \in [Peers -> Seq(Frames)] /\ wire'[s] = wire[s] /\ wire'[Other(s)] = <<>>
    BY <1>1, <1>2, <1>3
  <1> QED
    BY <1>1, <1>4, <1>5 DEF CarrierClosed, WireTypes

(* No acknowledgement is made up by a step of s that sends nothing. *)
AckKept(s) ==
    /\ Acked(s) => Acked(s)'
    /\ wire'[s] = wire[s]
    /\ peerDone'[s] = "ok" => peerDone[s] = "ok" \/ Acked(s)
    /\ rpc'[s] = "closeAck" => rpc[s] = "closeAck" \/ Acked(Other(s))
    /\ closeAck'[s] => closeAck[s] \/ Acked(Other(s))
    /\ cpc'[s] \in {"peer", "wait", "finish"} =>
          cpc[s] \in {"peer", "wait", "finish"} \/ Acked(Other(s))
    /\ result'[s] = "ok" => result[s] = "ok" \/ Acked(s) \/ Acked(Other(s))

(* An action of s preserves the invariant when it keeps the types, the      *)
(* other session, and the three parts for s.                                *)
LEMMA LocalAction ==
  ASSUME IInv, NEW s \in Peers, Types', OnlyAt(s), AckKept(s), QueueOK(s)', CloseOK(s)'
  PROVE  IInv'
  <1> USE DEF AckKept
  <1>1. Other(s) \in Peers /\ Other(s) # s
    BY OtherFacts
  <1>2. Acked(Other(s)) => Acked(Other(s))'
    BY <1>1 DEF OnlyAt, AtLink, Acked
  <1>3. wire'[s] \in Seq(SoundFrames(s)')
    <2>1. SoundFrames(s) \subseteq SoundFrames(s)' /\ wire[s] \in Seq(SoundFrames(s))
      BY DEF SoundFrames, Frames, IInv, AckOK
    <2> QED
      BY <2>1, SeqGrows
  <1>4. AckOK(s)'
    BY <1>2, <1>3 DEF IInv, AckOK
  <1> QED
    BY <1>4, LocalStep

-----------------------------------------------------------------------------
(* The writer. *)

(* A frame that s sends is sound once the writer has counted it. *)
LEMMA WireGrows ==
  ASSUME IInv, NEW s \in Peers, NEW f \in Frames, Acked(s) => Acked(s)',
         f = "closeAck" => Acked(s)', wire'[s] = wire[s] \/ wire'[s] = Append(wire[s], f)
  PROVE  wire'[s] \in Seq(SoundFrames(s)')
  <1>1. SoundFrames(s) \subseteq SoundFrames(s)' /\ wire[s] \in Seq(SoundFrames(s)) /\ f \in SoundFrames(s)'
    BY DEF SoundFrames, Frames, IInv, AckOK
  <1>2. wire[s] \in Seq(SoundFrames(s)')
    BY <1>1, SeqGrows
  <1>3. Append(wire[s], f) \in Seq(SoundFrames(s)')
    BY <1>1, <1>2, Appended
  <1> QED
    BY <1>2, <1>3

(* The writer gives a frame to the transport. *)
LEMMA WriterSendsInv ==
  ASSUME IInv, NEW s \in Peers, WriterSends(s)
  PROVE  IInv'
  <1> DEFINE b == Head(queued[s]).by
             f == Head(queued[s]).frame
  <1>1. /\ LinkTypes' /\ UNCHANGED writer /\ writer[s] # "closed"
        /\ \A t \in Peers : t # s => UNCHANGED <<queued[t], sent[t], wire[t]>>
        /\ queued[s] # <<>> /\ queued'[s] = Tail(queued[s]) /\ Head(queued[s]) \in Items
        /\ wire' \in [Peers -> Seq(Frames)]
        /\ wire'[s] = wire[s] \/ wire'[s] = Append(wire[s], f)
    BY WriterSendsFacts, Zenon
  <1>2. \A d \in Callers : sent'[s][d] = IF d = b THEN "ok" ELSE sent[s][d]
    BY WriterSendsFacts, Zenon
  <1>3. UNCHANGED <<state, busy, carrier, closeVars, rpc, peerVars>>
    BY DEF WriterSends
  <1>4. f \in Frames /\ (f = "closeAck" => b = "peer")
    BY <1>1 DEF Items
  <1>5. queued[s] \in Seq(Items)
    BY TypeFacts DEF LinkTypes
  <1>6. /\ Len(queued[s]) \in Nat /\ Len(queued[s]) > 0 /\ Len(queued'[s]) = Len(queued[s]) - 1
        /\ \A i \in 1 .. Len(queued'[s]) : queued'[s][i] = queued[s][i + 1]
        /\ Head(queued[s]) = queued[s][1]
    BY <1>1, <1>5, SMT
  <1>7. /\ sent'[s]["closer"] = IF "closer" = b THEN "ok" ELSE sent[s]["closer"]
        /\ sent'[s]["peer"] = IF "peer" = b THEN "ok" ELSE sent[s]["peer"]
    BY <1>2 DEF Callers
  <1>8. b = "peer" => AckQueued(s)
    BY <1>6, SMT DEF AckQueued
  <1>9. AckQueued(s)' => AckQueued(s) /\ b # "peer"
    <2> SUFFICES ASSUME NEW i \in 1 .. Len(queued'[s]), queued'[s][i].by = "peer"
                 PROVE  AckQueued(s) /\ b # "peer"
      BY DEF AckQueued
    <2>1. i + 1 \in 1 .. Len(queued[s]) /\ queued[s][i + 1].by = "peer" /\ 1 \in 1 .. Len(queued[s]) /\ i + 1 # 1
      BY <1>6, SMT
    <2> QED
      BY <1>6, <2>1, SMT DEF AckQueued, IInv, QueueOK
  <1> HIDE DEF b, f
  <1>10. Types'
    <2>1. WireTypes'
      BY <1>1, <1>3, TypeFacts DEF WireTypes
    <2>2. StateTypes' /\ CloseTypes' /\ RunTypes' /\ PeerTypes'
      BY <1>3, TypeFacts DEF StateTypes, CloseTypes, RunTypes, PeerTypes, closeVars, peerVars
    <2> QED
      BY <1>1, <2>1, <2>2 DEF Types
  <1>11. OnlyAt(s)
    BY <1>1, <1>3 DEF OnlyAt, AtLink, AtClose, AtPeer, closeVars, peerVars
  <1>12. UNCHANGED <<state[s], rpc[s], writer[s], AtClose(s), AtPeer(s)>>
    BY <1>1, <1>3 DEF AtClose, AtPeer, closeVars, peerVars
  <1>13. QueueOK(s)'
    <2>1. writer'[s] # "closed"
      BY <1>1
    <2>2. \A i, j \in 1 .. Len(queued'[s]) : queued'[s][i].by = "peer" /\ queued'[s][j].by = "peer" => i = j
      <3> SUFFICES ASSUME NEW i \in 1 .. Len(queued'[s]), NEW j \in 1 .. Len(queued'[s]),
                          queued'[s][i].by = "peer", queued'[s][j].by = "peer"
                   PROVE  i = j
        OBVIOUS
      <3>1. /\ i + 1 \in 1 .. Len(queued[s]) /\ queued[s][i + 1].by = "peer"
            /\ j + 1 \in 1 .. Len(queued[s]) /\ queued[s][j + 1].by = "peer"
        BY <1>6, SMT
      <3>2. i + 1 = j + 1
        BY <3>1 DEF IInv, QueueOK
      <3> QED
        BY <3>2, SMT
    <2>3. AckQueued(s)' => sent'[s]["peer"] = "none" /\ ppc'[s] \notin {"idle", "drain", "send"}
      BY <1>7, <1>9, <1>12 DEF IInv, QueueOK, AtPeer
    <2>4. ppc'[s] \in {"idle", "drain", "send"} => sent'[s]["peer"] = "none"
      BY <1>7, <1>8, <1>12 DEF IInv, QueueOK, AtPeer
    <2>5. ppc'[s] = "idle" <=> ~seen'[s]
      BY <1>12 DEF IInv, QueueOK, AtPeer
    <2> QED
      BY <2>1, <2>2, <2>3, <2>4, <2>5 DEF QueueOK
  <1>14. CloseOK(s)'
    <2>1. b = "peer" => sent[s]["peer"] = "none"
      BY <1>8 DEF IInv, QueueOK
    <2> QED
      BY <1>1, <1>7, <1>12, <2>1, SMT
         DEF IInv, CloseOK, Active, Delivered, Quiet, Idle, AtClose, AtPeer
  <1>15. Acked(s) => Acked(s)'
    BY <1>7 DEF Acked
  <1>16. AckOK(s)'
    <2>1. wire'[s] \in Seq(SoundFrames(s)')
      BY <1>1, <1>4, <1>7, <1>15, WireGrows DEF Acked
    <2>2. Other(s) \in Peers /\ Other(s) # s
      BY OtherFacts
    <2>3. Acked(Other(s))' = Acked(Other(s))
      BY <1>1, <2>2 DEF Acked
    <2> QED
      BY <1>12, <1>15, <2>1, <2>3 DEF IInv, AckOK, AtClose, AtPeer
  <1> QED
    BY <1>10, <1>11, <1>13, <1>14, <1>15, <1>16, LocalStep

(* A write fails on a session that is closing. *)
LEMMA ClosingWriterInv ==
  ASSUME IInv, NEW s \in Peers, closeWriter(s),
         UNCHANGED <<state, wire, carrier, busy, closeVars, rpc, peerVars>>
  PROVE  IInv'
  <1> USE DEF Set, Goto, setState, closeVars, peerVars, linkVars
  <1>1. LinkReleased(s, "closed")
    BY CloseWriterFacts
  <1>2. /\ UNCHANGED <<state[s], rpc[s], AtClose(s), AtPeer(s), wire[s]>>
    BY <1>1, TypeFacts DEF AtClose, AtPeer, LinkReleased
  <1>3. Types'
    <2>1. StateTypes' /\ WireTypes' /\ CloseTypes' /\ RunTypes' /\ PeerTypes'
      BY TypeFacts DEF StateTypes, WireTypes, CloseTypes, RunTypes, PeerTypes
    <2> QED
      BY <1>1, <2>1 DEF LinkReleased, Types
  <1>4. OnlyAt(s)
    BY <1>1, TypeFacts DEF OnlyAt, AtLink, AtClose, AtPeer, LinkTypes, LinkReleased
  <1> HIDE DEF Set, Goto, setState, closeVars, peerVars, linkVars
  <1>5. QueueOK(s)'
    BY <1>1, <1>2 DEF LinkReleased, AtPeer, IInv, QueueOK, Early
  <1>6. CloseOK(s)'
    BY <1>1, <1>2
       DEF IInv, CloseOK, Active, Delivered, Quiet, Idle, AtClose, AtPeer, LinkReleased
  <1>7. AckKept(s)
    BY <1>1, <1>2 DEF AckKept, Acked, IInv, AckOK, AtClose, AtPeer, LinkReleased
  <1> QED
    BY <1>3, <1>4, <1>5, <1>6, <1>7, LocalAction

(* A write fails on any other session. *)
LEMMA BrokenWriterInv ==
  ASSUME IInv, NEW s \in Peers, closeWriter(s), t_Close(s), setState(s, "failed"),
         UNCHANGED <<busy, closeVars, rpc, peerVars>>
  PROVE  IInv'
  <1> USE DEF Set, Goto, setState, closeVars, peerVars, linkVars
  <1>1. LinkReleased(s, "closed")
    BY CloseWriterFacts
  <1>2. CarrierClosed(s)
    BY CarrierFacts
  <1>3. /\ state'[s] = "failed"
        /\ UNCHANGED <<rpc[s], AtClose(s), AtPeer(s)>>
    BY <1>1, <1>2, TypeFacts DEF StateTypes, AtClose, AtPeer, LinkReleased, CarrierClosed
  <1>4. Types'
    <2>1. StateTypes'
      BY TypeFacts DEF StateTypes, Terminal
    <2>2. CloseTypes' /\ RunTypes' /\ PeerTypes'
      BY TypeFacts DEF CloseTypes, RunTypes, PeerTypes
    <2> QED
      BY <1>1, <1>2, <2>1, <2>2 DEF LinkReleased, CarrierClosed, Types
  <1>5. OnlyAt(s)
    BY <1>1, <1>2, TypeFacts
       DEF OnlyAt, AtLink, AtClose, AtPeer, StateTypes, LinkTypes, WireTypes, LinkReleased,
           CarrierClosed
  <1> HIDE DEF Set, Goto, setState, closeVars, peerVars, linkVars
  <1>6. QueueOK(s)'
    BY <1>1, <1>3 DEF LinkReleased, AtPeer, IInv, QueueOK, Early
  <1>7. CloseOK(s)'
    BY <1>1, <1>2, <1>3
       DEF IInv, CloseOK, Active, Delivered, Quiet, Idle, AtClose, AtPeer, LinkReleased,
           CarrierClosed
  <1>8. AckKept(s)
    BY <1>1, <1>2, <1>3
       DEF AckKept, Acked, IInv, AckOK, AtClose, AtPeer, LinkReleased, CarrierClosed
  <1> QED
    BY <1>4, <1>5, <1>6, <1>7, <1>8, LocalAction

(* handleWriterFailure *)
LEMMA WriterFailsInv ==
  ASSUME IInv, NEW s \in Peers, WriterFails(s)
  PROVE  IInv'
  <1>1. CASE state[s] \in {"closing", "closed"}
    BY <1>1, ClosingWriterInv DEF WriterFails
  <1>2. CASE state[s] \notin {"closing", "closed"}
    BY <1>2, BrokenWriterInv DEF WriterFails
  <1> QED
    BY <1>1, <1>2

-----------------------------------------------------------------------------
(* CloseWith. *)

(* beginLocalClose succeeds, or another close is under way. *)
LEMMA CloseWithInv ==
  ASSUME IInv, NEW s \in Peers, NEW k \in {"immediate", "drain"}, CloseWith(s, k)
  PROVE  IInv'
  <1> USE DEF CloseWith, beginLocalClose, closeReturns, Target, Set, Goto, setState,
              closeVars, peerVars, linkVars
  <1>1. /\ Idle(s) /\ UNCHANGED <<gpc[s], rpc[s], AtLink(s), AtPeer(s), wire[s]>>
        /\ \/ /\ state[s] \in {"established", "failed"} /\ state'[s] \in {"closing", "draining"}
              /\ cpc'[s] \in {"begin", "send"} /\ UNCHANGED result[s]
           \/ cpc'[s] = "done" /\ result'[s] = "noop" /\ UNCHANGED state[s]
    <2>1. Idle(s) /\ UNCHANGED <<gpc[s], rpc[s], AtLink(s), AtPeer(s), wire[s]>>
      BY TypeFacts DEF StateTypes, CloseTypes, AtLink, AtPeer
    <2>2. CASE /\ beginLocalClose(s, Target(k)) /\ UNCHANGED result
               /\ Goto(cpc, s, IF k = "immediate" THEN "begin" ELSE "send")
      <3>1. /\ state[s] \in {"established", "failed"}
            /\ state' = [state EXCEPT ![s] = Target(k)] /\ Target(k) \in {"closing", "draining"}
        BY <2>2, TypeFacts DEF StateTypes, Terminal
      <3>2. state'[s] \in {"closing", "draining"}
        BY <3>1, TypeFacts DEF StateTypes
      <3>3. cpc'[s] \in {"begin", "send"}
        BY <2>2, TypeFacts DEF CloseTypes
      <3> QED
        BY <2>1, <2>2, <3>1, <3>2, <3>3
    <2>3. CASE closeReturns(s, "noop") /\ UNCHANGED state
      BY <2>1, <2>3, TypeFacts DEF CloseTypes
    <2> QED
      BY <2>1, <2>2, <2>3
  <1>2. Types'
    <2>1. StateTypes'
      BY TypeFacts DEF StateTypes, Terminal
    <2>2. CloseTypes'
      BY TypeFacts DEF CloseTypes
    <2>3. LinkTypes' /\ WireTypes' /\ RunTypes' /\ PeerTypes'
      BY TypeFacts DEF LinkTypes, WireTypes, RunTypes, PeerTypes
    <2> QED
      BY <2>1, <2>2, <2>3 DEF Types
  <1>3. OnlyAt(s)
    BY TypeFacts DEF OnlyAt, AtLink, AtClose, AtPeer, StateTypes, CloseTypes
  <1> HIDE DEF CloseWith, beginLocalClose, closeReturns, Target, Set, Goto, setState,
              closeVars, peerVars, linkVars
  <1>4. QueueOK(s)'
    BY <1>1, QueueSame DEF Early, IInv, QueueOK, AtLink, AtPeer
  <1>5. CloseOK(s)'
    BY <1>1, SMT DEF IInv, CloseOK, Active, Delivered, Quiet, Idle, AtLink, AtPeer, QueueOK
  <1>6. AckKept(s)
    BY <1>1 DEF AckKept, Acked, IInv, AckOK, AtLink, AtPeer
  <1> QED
    BY <1>2, <1>3, <1>4, <1>5, <1>6, LocalAction

(* An immediate close ends the transfers and keeps control frames only. *)
LEMMA CloseBeginsInv ==
  ASSUME IInv, NEW s \in Peers, CloseBegins(s)
  PROVE  IInv'
  <1> USE DEF CloseBegins, Set, Goto, setState, closeVars, peerVars, linkVars
  <1>1. LinkReleased(s, IF writer[s] = "closed" THEN "closed" ELSE "control")
    BY BeginClosingFacts
  <1>2. /\ cpc[s] = "begin" /\ cpc'[s] = "send"
        /\ UNCHANGED <<state[s], result[s], gpc[s], rpc[s], AtPeer(s), wire[s]>>
    BY <1>1, TypeFacts DEF StateTypes, CloseTypes, AtPeer, LinkReleased
  <1>3. Types'
    <2>1. StateTypes'
      BY TypeFacts DEF StateTypes, Terminal
    <2>2. CloseTypes'
      BY TypeFacts DEF CloseTypes
    <2>3. WireTypes' /\ RunTypes' /\ PeerTypes'
      BY TypeFacts DEF WireTypes, RunTypes, PeerTypes
    <2> QED
      BY <1>1, <2>1, <2>2, <2>3 DEF LinkReleased, Types
  <1>4. OnlyAt(s)
    BY <1>1, TypeFacts
       DEF OnlyAt, AtLink, AtClose, AtPeer, StateTypes, LinkTypes, CloseTypes, LinkReleased
  <1> HIDE DEF CloseBegins, Set, Goto, setState, closeVars, peerVars, linkVars
  <1>5. QueueOK(s)'
    BY <1>1, <1>2 DEF LinkReleased, AtPeer, IInv, QueueOK, Early
  <1>6. CloseOK(s)'
    BY <1>1, <1>2 DEF IInv, CloseOK, Active, Delivered, Quiet, Idle, AtPeer, LinkReleased
  <1>7. AckKept(s)
    BY <1>1, <1>2 DEF AckKept, Acked, IInv, AckOK, AtPeer, LinkReleased
  <1> QED
    BY <1>3, <1>4, <1>5, <1>6, <1>7, LocalAction

(* CloseWith sends its Close. *)
LEMMA CloseSendsInv ==
  ASSUME IInv, NEW s \in Peers, CloseSends(s)
  PROVE  IInv'
  <1> USE DEF CloseSends, Set, Goto, setState, closeVars, peerVars, linkVars
  <1> DEFINE f == IF kind[s] = "drain" THEN "closeDrain" ELSE "close"
  <1>1. /\ sendAndWait(s, f, "closer") /\ f \in Frames /\ "closer" \in Callers \cup {"none"}
        /\ f = "closeAck" => "closer" = "peer"
    BY TypeFacts DEF Frames, Callers
  <1>2. LinkSent(s, "closer")
    BY <1>1, SentFacts, TypeFacts DEF IInv, QueueOK
  <1>3. /\ cpc[s] = "send" /\ cpc'[s] = "sending"
        /\ UNCHANGED <<state[s], result[s], gpc[s], rpc[s], AtPeer(s), wire[s]>>
    BY <1>2, TypeFacts DEF CloseTypes, AtPeer, LinkSent
  <1>4. Types'
    <2>1. CloseTypes'
      BY TypeFacts DEF CloseTypes
    <2>2. StateTypes' /\ WireTypes' /\ RunTypes' /\ PeerTypes'
      BY TypeFacts DEF StateTypes, WireTypes, RunTypes, PeerTypes
    <2> QED
      BY <1>2, <2>1, <2>2 DEF LinkSent, Types
  <1>5. OnlyAt(s)
    BY <1>2, TypeFacts DEF OnlyAt, AtLink, AtClose, AtPeer, LinkTypes, CloseTypes, LinkSent
  <1> HIDE DEF CloseSends, Set, Goto, setState, closeVars, peerVars, linkVars
  <1>6. QueueOK(s)'
    BY <1>2, <1>3 DEF LinkSent, AtPeer
  <1>7. CloseOK(s)'
    BY <1>2, <1>3 DEF IInv, CloseOK, Active, Delivered, Quiet, Idle, AtPeer, LinkSent
  <1>8. AckKept(s)
    BY <1>2, <1>3 DEF AckKept, Acked, IInv, AckOK, AtPeer, LinkSent
  <1> QED
    BY <1>4, <1>5, <1>6, <1>7, <1>8, LocalAction

(* The Close is sent, or given up. *)
LEMMA CloseSentInv ==
  ASSUME IInv, NEW s \in Peers, CloseSent(s)
  PROVE  IInv'
  <1> USE DEF CloseSent, Waited, Set, Goto, setState, closeVars, peerVars, linkVars
  <1>1. /\ cpc[s] = "sending" /\ UNCHANGED <<state[s], gpc[s], result[s], rpc[s], AtLink(s), AtPeer(s), wire[s]>>
        /\ (sent[s]["closer"] = "ok" /\ cpc'[s] = "ack") \/ cpc'[s] = "unsent"
    BY TypeFacts DEF CloseTypes, AtLink, AtPeer
  <1>2. Types'
    <2>1. CloseTypes'
      BY TypeFacts DEF CloseTypes
    <2>2. StateTypes' /\ LinkTypes' /\ WireTypes' /\ RunTypes' /\ PeerTypes'
      BY TypeFacts DEF StateTypes, LinkTypes, WireTypes, RunTypes, PeerTypes
    <2> QED
      BY <2>1, <2>2 DEF Types
  <1>3. OnlyAt(s)
    BY TypeFacts DEF OnlyAt, AtLink, AtClose, AtPeer, CloseTypes
  <1> HIDE DEF CloseSent, Waited, Set, Goto, setState, closeVars, peerVars, linkVars
  <1>4. QueueOK(s)'
    BY <1>1, QueueSame DEF Early, IInv, QueueOK, AtLink, AtPeer
  <1>5. CloseOK(s)'
    BY <1>1 DEF IInv, CloseOK, Active, Delivered, Quiet, Idle, AtLink, AtPeer
  <1>6. AckKept(s)
    BY <1>1 DEF AckKept, Acked, IInv, AckOK, AtLink, AtPeer
  <1> QED
    BY <1>2, <1>3, <1>4, <1>5, <1>6, LocalAction

(* CloseWith closes the writer and the transport and returns. *)
LEMMA ClosedInv ==
  ASSUME IInv, NEW s \in Peers, NEW v \in {"closed", "failed"}, NEW r \in {"ok", "error"},
         r = "ok" => Acked(s) \/ Acked(Other(s)),
         closeWriter(s), t_Close(s), setState(s, v), closeReturns(s, r),
         UNCHANGED <<busy, kind, gpc, rpc, peerVars>>
  PROVE  IInv'
  <1> USE DEF closeReturns, Set, Goto, setState, closeVars, peerVars, linkVars
  <1>1. LinkReleased(s, "closed")
    BY CloseWriterFacts
  <1>2. CarrierClosed(s)
    BY CarrierFacts
  <1>3. /\ state'[s] = v /\ cpc'[s] = "done" /\ result'[s] = r
        /\ UNCHANGED <<gpc[s], rpc[s], AtPeer(s)>>
    BY <1>1, <1>2, TypeFacts DEF StateTypes, CloseTypes, AtPeer, LinkReleased, CarrierClosed
  <1>4. Types'
    <2>1. StateTypes'
      BY TypeFacts DEF StateTypes, Terminal
    <2>2. CloseTypes'
      BY TypeFacts DEF CloseTypes
    <2>3. RunTypes' /\ PeerTypes'
      BY TypeFacts DEF RunTypes, PeerTypes
    <2> QED
      BY <1>1, <1>2, <2>1, <2>2, <2>3 DEF LinkReleased, CarrierClosed, Types
  <1>5. OnlyAt(s)
    BY <1>1, <1>2, TypeFacts, SMT
       DEF OnlyAt, AtLink, AtClose, AtPeer, StateTypes, LinkTypes, WireTypes, CloseTypes,
           LinkReleased, CarrierClosed
  <1> HIDE DEF closeReturns, Set, Goto, setState, closeVars, peerVars, linkVars
  <1>6. QueueOK(s)'
    BY <1>1, <1>3 DEF LinkReleased, AtPeer, IInv, QueueOK, Early
  <1>7. CloseOK(s)'
    BY <1>1, <1>2, <1>3
       DEF IInv, CloseOK, Active, Delivered, Quiet, Idle, AtPeer, LinkReleased, CarrierClosed
  <1>8. AckKept(s)
    BY <1>1, <1>2, <1>3 DEF AckKept, Acked, IInv, AckOK, AtPeer, LinkReleased, CarrierClosed
  <1> QED
    BY <1>4, <1>5, <1>6, <1>7, <1>8, LocalAction

(* CloseWith gives up and closes the transport only. *)
LEMMA FailedInv ==
  ASSUME IInv, NEW s \in Peers, closeFails(s), UNCHANGED <<busy, kind, gpc, rpc, peerVars>>
  PROVE  IInv'
  <1> USE DEF closeFails, closeReturns, Set, Goto, setState, closeVars, peerVars, linkVars
  <1>1. CarrierClosed(s)
    BY CarrierFacts
  <1>2. /\ state'[s] = "failed" /\ cpc'[s] = "done" /\ result'[s] = "error"
        /\ UNCHANGED <<gpc[s], rpc[s], AtLink(s), AtPeer(s)>>
    BY <1>1, TypeFacts DEF StateTypes, CloseTypes, AtLink, AtPeer, CarrierClosed
  <1>3. Types'
    <2>1. StateTypes'
      BY TypeFacts DEF StateTypes, Terminal
    <2>2. CloseTypes'
      BY TypeFacts DEF CloseTypes
    <2>3. LinkTypes' /\ RunTypes' /\ PeerTypes'
      BY TypeFacts DEF LinkTypes, RunTypes, PeerTypes
    <2> QED
      BY <1>1, <2>1, <2>2, <2>3 DEF CarrierClosed, Types
  <1>4. OnlyAt(s)
    BY <1>1, TypeFacts
       DEF OnlyAt, AtLink, AtClose, AtPeer, StateTypes, WireTypes, CloseTypes, CarrierClosed
  <1> HIDE DEF closeFails, closeReturns, Set, Goto, setState, closeVars, peerVars, linkVars
  <1>5. QueueOK(s)'
    BY <1>2, QueueSame DEF Early, IInv, QueueOK, AtLink, AtPeer
  <1>6. CloseOK(s)'
    BY <1>1, <1>2
       DEF IInv, CloseOK, Active, Delivered, Quiet, Idle, AtLink, AtPeer, CarrierClosed
  <1>7. AckKept(s)
    BY <1>1, <1>2 DEF AckKept, Acked, IInv, AckOK, AtLink, AtPeer, CarrierClosed
  <1> QED
    BY <1>3, <1>4, <1>5, <1>6, <1>7, LocalAction

(* CloseWith gives up and closes nothing. *)
LEMMA UnsentInv ==
  ASSUME IInv, NEW s \in Peers, setState(s, "failed"), closeReturns(s, "error"),
         UNCHANGED linkVars, UNCHANGED <<busy, kind, gpc, rpc, peerVars>>
  PROVE  IInv'
  <1> USE DEF closeReturns, Set, Goto, setState, closeVars, peerVars, linkVars
  <1>1. /\ state'[s] = "failed" /\ cpc'[s] = "done" /\ result'[s] = "error"
        /\ UNCHANGED <<gpc[s], rpc[s], AtLink(s), AtPeer(s), wire[s]>>
    BY TypeFacts DEF StateTypes, CloseTypes, AtLink, AtPeer
  <1>2. Types'
    <2>1. StateTypes'
      BY TypeFacts DEF StateTypes, Terminal
    <2>2. CloseTypes'
      BY TypeFacts DEF CloseTypes
    <2>3. LinkTypes' /\ WireTypes' /\ RunTypes' /\ PeerTypes'
      BY TypeFacts DEF LinkTypes, WireTypes, RunTypes, PeerTypes
    <2> QED
      BY <2>1, <2>2, <2>3 DEF Types
  <1>3. OnlyAt(s)
    BY TypeFacts DEF OnlyAt, AtLink, AtClose, AtPeer, StateTypes, CloseTypes
  <1> HIDE DEF closeReturns, Set, Goto, setState, closeVars, peerVars, linkVars
  <1>4. QueueOK(s)'
    BY <1>1, QueueSame DEF Early, IInv, QueueOK, AtLink, AtPeer
  <1>5. CloseOK(s)'
    BY <1>1 DEF IInv, CloseOK, Active, Delivered, Quiet, Idle, AtLink, AtPeer
  <1>6. AckKept(s)
    BY <1>1 DEF AckKept, Acked, IInv, AckOK, AtLink, AtPeer
  <1> QED
    BY <1>2, <1>3, <1>4, <1>5, <1>6, LocalAction

(* The Close could not be sent; the peer's own Close may be the reason. *)
LEMMA CloseUnsentInv ==
  ASSUME IInv, NEW s \in Peers, CloseUnsent(s)
  PROVE  IInv'
  <1>1. CASE seen[s] /\ peerDone[s] = "ok" /\ closeSucceeds(s)
    BY <1>1, ClosedInv DEF CloseUnsent, closeSucceeds, IInv, AckOK
  <1>2. CASE setState(s, "failed") /\ closeReturns(s, "error") /\ UNCHANGED linkVars
    BY <1>2, UnsentInv DEF CloseUnsent
  <1> QED
    BY <1>1, <1>2 DEF CloseUnsent

(* The CloseAck of the peer has arrived. *)
LEMMA CloseAckedInv ==
  ASSUME IInv, NEW s \in Peers, CloseAcked(s)
  PROVE  IInv'
  <1> USE DEF CloseAcked, Set, Goto, setState, closeVars, peerVars, linkVars
  <1>1. /\ cpc[s] = "ack" /\ closeAck[s] /\ cpc'[s] = "peer" /\ ~closeAck'[s]
        /\ state'[s] \in {state[s], "closing"}
        /\ UNCHANGED <<gpc[s], result[s], rpc[s], AtLink(s), wire[s]>>
        /\ UNCHANGED <<ppc[s], collision[s], seen[s], peerDone[s]>>
    BY TypeFacts DEF StateTypes, CloseTypes, PeerTypes, AtLink
  <1>2. Types'
    <2>1. StateTypes'
      BY TypeFacts DEF StateTypes, Terminal
    <2>2. CloseTypes'
      BY TypeFacts DEF CloseTypes
    <2>3. PeerTypes'
      BY TypeFacts DEF PeerTypes
    <2>4. LinkTypes' /\ WireTypes' /\ RunTypes'
      BY TypeFacts DEF LinkTypes, WireTypes, RunTypes
    <2> QED
      BY <2>1, <2>2, <2>3, <2>4 DEF Types
  <1>3. OnlyAt(s)
    BY TypeFacts DEF OnlyAt, AtLink, AtClose, AtPeer, StateTypes, CloseTypes, PeerTypes
  <1> HIDE DEF CloseAcked, Set, Goto, setState, closeVars, peerVars, linkVars
  <1>4. QueueOK(s)'
    BY <1>1, QueueSame DEF Early, IInv, QueueOK, AtLink
  <1>5. CloseOK(s)'
    BY <1>1 DEF IInv, CloseOK, Active, Delivered, Quiet, Idle, AtLink
  <1>6. AckKept(s)
    BY <1>1 DEF AckKept, Acked, IInv, AckOK, AtLink
  <1> QED
    BY <1>2, <1>3, <1>4, <1>5, <1>6, LocalAction

(* The CloseAck does not arrive in time. *)
LEMMA CloseAckTimeoutInv ==
  ASSUME IInv, NEW s \in Peers, CloseAckTimeout(s)
  PROVE  IInv'
  <1>1. CASE kind[s] = "drain"
    BY <1>1, FailedInv DEF CloseAckTimeout
  <1>2. CASE kind[s] # "drain"
    BY <1>2, ClosedInv DEF CloseAckTimeout
  <1> QED
    BY <1>1, <1>2

(* waitPeerCloseDone, on entry *)
LEMMA ClosePeerInv ==
  ASSUME IInv, NEW s \in Peers, ClosePeer(s)
  PROVE  IInv'
  <1> USE DEF ClosePeer, Set, Goto, setState, closeVars, peerVars, linkVars
  <1>1. /\ cpc[s] = "peer" /\ cpc'[s] \in {"wait", "finish"}
        /\ UNCHANGED <<state[s], gpc[s], result[s], rpc[s], AtLink(s), AtPeer(s), wire[s]>>
    BY TypeFacts DEF CloseTypes, AtLink, AtPeer
  <1>2. Types'
    <2>1. CloseTypes'
      BY TypeFacts DEF CloseTypes
    <2>2. StateTypes' /\ LinkTypes' /\ WireTypes' /\ RunTypes' /\ PeerTypes'
      BY TypeFacts DEF StateTypes, LinkTypes, WireTypes, RunTypes, PeerTypes
    <2> QED
      BY <2>1, <2>2 DEF Types
  <1>3. OnlyAt(s)
    BY TypeFacts DEF OnlyAt, AtLink, AtClose, AtPeer, CloseTypes
  <1> HIDE DEF ClosePeer, Set, Goto, setState, closeVars, peerVars, linkVars
  <1>4. QueueOK(s)'
    BY <1>1, QueueSame DEF Early, IInv, QueueOK, AtLink, AtPeer
  <1>5. CloseOK(s)'
    BY <1>1 DEF IInv, CloseOK, Active, Delivered, Quiet, Idle, AtLink, AtPeer
  <1>6. AckKept(s)
    BY <1>1 DEF AckKept, Acked, IInv, AckOK, AtLink, AtPeer
  <1> QED
    BY <1>2, <1>3, <1>4, <1>5, <1>6, LocalAction

(* The answer to the peer has been sent. *)
LEMMA WaitsInv ==
  ASSUME IInv, NEW s \in Peers, cpc[s] = "wait", Goto(cpc, s, "finish"),
         UNCHANGED <<state, linkVars, result>>, UNCHANGED <<busy, kind, gpc, rpc, peerVars>>
  PROVE  IInv'
  <1> USE DEF Set, Goto, setState, closeVars, peerVars, linkVars
  <1>1. /\ cpc[s] = "wait" /\ cpc'[s] = "finish"
        /\ UNCHANGED <<state[s], result[s], gpc[s], rpc[s], AtLink(s), AtPeer(s), wire[s]>>
    BY TypeFacts DEF CloseTypes, AtLink, AtPeer
  <1>2. Types'
    <2>1. CloseTypes'
      BY TypeFacts DEF CloseTypes
    <2>2. StateTypes' /\ LinkTypes' /\ WireTypes' /\ RunTypes' /\ PeerTypes'
      BY TypeFacts DEF StateTypes, LinkTypes, WireTypes, RunTypes, PeerTypes
    <2> QED
      BY <2>1, <2>2 DEF Types
  <1>3. OnlyAt(s)
    BY TypeFacts DEF OnlyAt, AtLink, AtClose, AtPeer, CloseTypes
  <1> HIDE DEF Set, Goto, setState, closeVars, peerVars, linkVars
  <1>4. QueueOK(s)'
    BY <1>1, QueueSame DEF Early, IInv, QueueOK, AtLink, AtPeer
  <1>5. CloseOK(s)'
    BY <1>1 DEF IInv, CloseOK, Active, Delivered, Quiet, Idle, AtLink, AtPeer
  <1>6. AckKept(s)
    BY <1>1 DEF AckKept, Acked, IInv, AckOK, AtLink, AtPeer
  <1> QED
    BY <1>2, <1>3, <1>4, <1>5, <1>6, LocalAction

(* waitPeerCloseDone, while it waits *)
LEMMA ClosePeerDoneInv ==
  ASSUME IInv, NEW s \in Peers, ClosePeerDone(s)
  PROVE  IInv'
  <1>1. CASE Goto(cpc, s, "finish") /\ UNCHANGED <<state, linkVars, result>>
    BY <1>1, WaitsInv DEF ClosePeerDone
  <1>2. CASE closeFails(s)
    BY <1>2, FailedInv DEF ClosePeerDone
  <1> QED
    BY <1>1, <1>2 DEF ClosePeerDone

(* CloseWith returns. *)
LEMMA CloseFinishesInv ==
  ASSUME IInv, NEW s \in Peers, CloseFinishes(s)
  PROVE  IInv'
  <1>1. Acked(Other(s))
    BY DEF CloseFinishes, IInv, AckOK
  <1>2. CASE closeSucceeds(s)
    BY <1>1, <1>2, ClosedInv DEF CloseFinishes, closeSucceeds
  <1>3. CASE closeWriter(s) /\ t_Close(s) /\ setState(s, "failed") /\ closeReturns(s, "error")
    BY <1>3, ClosedInv DEF CloseFinishes
  <1> QED
    BY <1>2, <1>3 DEF CloseFinishes

-----------------------------------------------------------------------------
(* SendGoAway. *)

(* SendGoAway stores its state whatever it was. *)
LEMMA SendGoAwayInv ==
  ASSUME IInv, NEW s \in Peers, NEW k \in {"goaway", "goawayDrain"}, SendGoAway(s, k)
  PROVE  IInv'
  <1> USE DEF SendGoAway, Target, Set, Goto, setState, closeVars, peerVars, linkVars
  <1>1. /\ Idle(s) /\ state'[s] \in {"closing", "draining"} /\ gpc'[s] # "idle"
        /\ UNCHANGED <<cpc[s], result[s], rpc[s], AtLink(s), AtPeer(s), wire[s]>>
    BY TypeFacts DEF StateTypes, CloseTypes, AtLink, AtPeer
  <1>2. Types'
    <2>1. StateTypes'
      BY TypeFacts DEF StateTypes, Terminal
    <2>2. CloseTypes'
      BY TypeFacts DEF CloseTypes
    <2>3. LinkTypes' /\ WireTypes' /\ RunTypes' /\ PeerTypes'
      BY TypeFacts DEF LinkTypes, WireTypes, RunTypes, PeerTypes
    <2> QED
      BY <2>1, <2>2, <2>3 DEF Types
  <1>3. OnlyAt(s)
    BY TypeFacts DEF OnlyAt, AtLink, AtClose, AtPeer, StateTypes, CloseTypes
  <1> HIDE DEF SendGoAway, Target, Set, Goto, setState, closeVars, peerVars, linkVars
  <1>4. QueueOK(s)'
    BY <1>1, QueueSame DEF Early, IInv, QueueOK, AtLink, AtPeer
  <1>5. CloseOK(s)'
    BY <1>1 DEF IInv, CloseOK, Active, Delivered, Quiet, Idle, AtLink, AtPeer
  <1>6. AckKept(s)
    BY <1>1 DEF AckKept, Acked, IInv, AckOK, AtLink, AtPeer
  <1> QED
    BY <1>2, <1>3, <1>4, <1>5, <1>6, LocalAction

(* It sends its frame. *)
LEMMA GoAwaySendsInv ==
  ASSUME IInv, NEW s \in Peers, GoAwaySends(s)
  PROVE  IInv'
  <1> USE DEF GoAwaySends, Set, Goto, setState, closeVars, peerVars, linkVars
  <1>1. /\ sendAndWait(s, gpc[s], "goaway") /\ gpc[s] \in Frames /\ "goaway" \in Callers \cup {"none"}
        /\ gpc[s] = "closeAck" => "goaway" = "peer"
    BY TypeFacts DEF Frames, Callers
  <1>2. LinkSent(s, "goaway")
    BY <1>1, SentFacts, TypeFacts DEF IInv, QueueOK
  <1>3. /\ gpc[s] # "idle" /\ gpc'[s] = "sending"
        /\ UNCHANGED <<state[s], cpc[s], result[s], rpc[s], AtPeer(s), wire[s]>>
    BY <1>2, TypeFacts DEF CloseTypes, AtPeer, LinkSent
  <1>4. Types'
    <2>1. CloseTypes'
      BY TypeFacts DEF CloseTypes
    <2>2. StateTypes' /\ WireTypes' /\ RunTypes' /\ PeerTypes'
      BY TypeFacts DEF StateTypes, WireTypes, RunTypes, PeerTypes
    <2> QED
      BY <1>2, <2>1, <2>2 DEF LinkSent, Types
  <1>5. OnlyAt(s)
    BY <1>2, TypeFacts DEF OnlyAt, AtLink, AtClose, AtPeer, LinkTypes, CloseTypes, LinkSent
  <1> HIDE DEF GoAwaySends, Set, Goto, setState, closeVars, peerVars, linkVars
  <1>6. QueueOK(s)'
    BY <1>2, <1>3 DEF LinkSent, AtPeer
  <1>7. CloseOK(s)'
    BY <1>2, <1>3 DEF IInv, CloseOK, Active, Delivered, Quiet, Idle, AtPeer, LinkSent
  <1>8. AckKept(s)
    BY <1>2, <1>3 DEF AckKept, Acked, IInv, AckOK, AtPeer, LinkSent
  <1> QED
    BY <1>4, <1>5, <1>6, <1>7, <1>8, LocalAction

(* The frame is sent, or given up. *)
LEMMA GoAwaySentInv ==
  ASSUME IInv, NEW s \in Peers, GoAwaySent(s)
  PROVE  IInv'
  <1> USE DEF GoAwaySent, Set, Goto, setState, closeVars, peerVars, linkVars
  <1>1. /\ gpc[s] = "sending" /\ gpc'[s] = "done" /\ state'[s] \in {state[s], "failed"}
        /\ UNCHANGED <<cpc[s], result[s], rpc[s], AtLink(s), AtPeer(s), wire[s]>>
    BY TypeFacts DEF StateTypes, CloseTypes, AtLink, AtPeer
  <1>2. Types'
    <2>1. StateTypes'
      BY TypeFacts DEF StateTypes, Terminal
    <2>2. CloseTypes'
      BY TypeFacts DEF CloseTypes
    <2>3. LinkTypes' /\ WireTypes' /\ RunTypes' /\ PeerTypes'
      BY TypeFacts DEF LinkTypes, WireTypes, RunTypes, PeerTypes
    <2> QED
      BY <2>1, <2>2, <2>3 DEF Types
  <1>3. OnlyAt(s)
    BY TypeFacts DEF OnlyAt, AtLink, AtClose, AtPeer, StateTypes, CloseTypes
  <1> HIDE DEF GoAwaySent, Set, Goto, setState, closeVars, peerVars, linkVars
  <1>4. QueueOK(s)'
    BY <1>1, QueueSame DEF Early, IInv, QueueOK, AtLink, AtPeer
  <1>5. CloseOK(s)'
    BY <1>1 DEF IInv, CloseOK, Active, Delivered, Quiet, Idle, AtLink, AtPeer
  <1>6. AckKept(s)
    BY <1>1 DEF AckKept, Acked, IInv, AckOK, AtLink, AtPeer
  <1> QED
    BY <1>2, <1>3, <1>4, <1>5, <1>6, LocalAction

-----------------------------------------------------------------------------
(* Run. *)

(* Run reads a frame, which is sound for the peer that sent it. *)
LEMMA ReadFrameInv ==
  ASSUME IInv, NEW s \in Peers, ReadFrame(s)
  PROVE  IInv'
  <1> DEFINE t == Other(s)
  <1>1. t \in Peers /\ t # s
    BY OtherFacts
  <1>2. /\ wire[t] # <<>> /\ wire[t] \in Seq(SoundFrames(t)) /\ wire[t] \in Seq(Frames)
        /\ wire \in [Peers -> Seq(Frames)]
    BY <1>1, TypeFacts DEF ReadFrame, IInv, AckOK, WireTypes
  <1>3. Head(wire[t]) \in SoundFrames(t) /\ Head(wire[t]) \in Frames /\ Tail(wire[t]) \in Seq(Frames)
    BY <1>2, HeadTail
  <1>4. /\ wire' = [wire EXCEPT ![t] = Tail(wire[t])] /\ UNCHANGED carrier
        /\ rpc' = [rpc EXCEPT ![s] = IF state[s] = "closed" THEN "clean" ELSE Head(wire[t])]
        /\ UNCHANGED <<state, busy, writer, queued, sent, closeVars, peerVars>>
    BY DEF ReadFrame, Goto, Set
  <1> HIDE DEF t
  <1>5. /\ wire' \in [Peers -> Seq(Frames)] /\ wire'[s] = wire[s] /\ wire'[t] = Tail(wire[t])
        /\ \A u \in Peers : u # t => wire'[u] = wire[u]
    BY <1>1, <1>2, <1>3, <1>4
  <1>6. /\ rpc'[s] = "clean" \/ rpc'[s] = Head(wire[t])
        /\ \A u \in Peers : u # s => rpc'[u] = rpc[u]
    BY <1>4, TypeFacts DEF RunTypes
  <1>7. Types'
    <2>1. RunTypes'
      BY <1>3, <1>4, TypeFacts DEF RunTypes, Ended
    <2>2. WireTypes'
      BY <1>4, <1>5, TypeFacts DEF WireTypes
    <2>3. StateTypes' /\ LinkTypes' /\ CloseTypes' /\ PeerTypes'
      BY <1>4, TypeFacts DEF StateTypes, LinkTypes, CloseTypes, PeerTypes, closeVars, peerVars
    <2> QED
      BY <2>1, <2>2, <2>3 DEF Types
  <1>8. OnlyAt(s)
    BY <1>1, <1>2, <1>4, <1>5, <1>6 DEF OnlyAt, AtLink, AtClose, AtPeer, closeVars, peerVars
  <1>9. UNCHANGED <<state[s], AtLink(s), AtClose(s), AtPeer(s), wire[s]>>
    BY <1>4, <1>5 DEF AtLink, AtClose, AtPeer, closeVars, peerVars
  <1>10. QueueOK(s)'
    BY <1>9, QueueSame DEF IInv, QueueOK, Early, AtLink, AtPeer
  <1>11. rpc'[s] # "mark" /\ (rpc'[s] = "closeAck" => Acked(t))
    BY <1>3, <1>6 DEF Frames, SoundFrames
  <1>12. CloseOK(s)'
    BY <1>9, <1>11 DEF IInv, CloseOK, Active, Delivered, Quiet, Idle, AtLink, AtClose, AtPeer
  <1>13. AckKept(s)
    BY <1>9, <1>11 DEF AckKept, Acked, AtLink, AtClose, AtPeer, t
  <1> QED
    BY <1>7, <1>8, <1>10, <1>12, <1>13, LocalAction

(* A frame that ensureIncomingState does not allow is answered with an error. *)
LEMMA RefusesInv ==
  ASSUME IInv, NEW s \in Peers, sendAndWait(s, "error", "none"), Goto(rpc, s, "failing"),
         UNCHANGED <<state, busy, peerVars>>, UNCHANGED <<wire, carrier, closeVars>>
  PROVE  IInv'
  <1> USE DEF Set, Goto, setState, closeVars, peerVars, linkVars
  <1>1. /\ sendAndWait(s, "error", "none") /\ "error" \in Frames /\ "none" \in Callers \cup {"none"}
        /\ "error" = "closeAck" => "none" = "peer"
    BY TypeFacts DEF Frames, Callers
  <1>2. LinkSent(s, "none")
    BY <1>1, SentFacts, TypeFacts DEF IInv, QueueOK
  <1>3. /\ rpc'[s] = "failing"
        /\ UNCHANGED <<state[s], AtClose(s), AtPeer(s), wire[s]>>
    BY <1>2, TypeFacts DEF RunTypes, AtClose, AtPeer, LinkSent
  <1>4. Types'
    <2>1. RunTypes'
      BY TypeFacts DEF RunTypes, Frames, Ended
    <2>2. StateTypes' /\ WireTypes' /\ CloseTypes' /\ PeerTypes'
      BY TypeFacts DEF StateTypes, WireTypes, CloseTypes, PeerTypes
    <2> QED
      BY <1>2, <2>1, <2>2 DEF LinkSent, Types
  <1>5. OnlyAt(s)
    BY <1>2, TypeFacts DEF OnlyAt, AtLink, AtClose, AtPeer, LinkTypes, RunTypes, LinkSent
  <1> HIDE DEF Set, Goto, setState, closeVars, peerVars, linkVars
  <1>6. QueueOK(s)'
    BY <1>2, <1>3 DEF LinkSent, AtPeer
  <1>7. CloseOK(s)'
    BY <1>2, <1>3 DEF IInv, CloseOK, Active, Delivered, Quiet, Idle, AtClose, AtPeer, LinkSent
  <1>8. AckKept(s)
    BY <1>2, <1>3 DEF AckKept, Acked, IInv, AckOK, AtClose, AtPeer, LinkSent
  <1> QED
    BY <1>4, <1>5, <1>6, <1>7, <1>8, LocalAction

(* A frame that changes nothing but where Run is. *)
LEMMA HandledInv ==
  ASSUME IInv, NEW s \in Peers, NEW l \in {"closing", "draining", "clean", "read"}, Goto(rpc, s, l),
         UNCHANGED <<state, busy, peerVars, writer, queued, sent>>, UNCHANGED <<wire, carrier, closeVars>>
  PROVE  IInv'
  <1> USE DEF Set, Goto, setState, closeVars, peerVars, linkVars
  <1>1. /\ rpc'[s] \in {"closing", "draining", "clean", "read"}
        /\ UNCHANGED <<state[s], AtClose(s), AtLink(s), AtPeer(s), wire[s]>>
    BY TypeFacts DEF RunTypes, AtLink, AtClose, AtPeer
  <1>2. Types'
    <2>1. RunTypes'
      BY TypeFacts DEF RunTypes, Frames, Ended
    <2>2. StateTypes' /\ LinkTypes' /\ WireTypes' /\ CloseTypes' /\ PeerTypes'
      BY TypeFacts DEF StateTypes, LinkTypes, WireTypes, CloseTypes, PeerTypes
    <2> QED
      BY <2>1, <2>2 DEF Types
  <1>3. OnlyAt(s)
    BY TypeFacts DEF OnlyAt, AtLink, AtClose, AtPeer, RunTypes
  <1> HIDE DEF Set, Goto, setState, closeVars, peerVars, linkVars
  <1>4. QueueOK(s)'
    BY <1>1, QueueSame DEF Early, IInv, QueueOK, AtLink, AtClose, AtPeer
  <1>5. CloseOK(s)'
    BY <1>1 DEF IInv, CloseOK, Active, Delivered, Quiet, Idle, AtLink, AtClose, AtPeer
  <1>6. AckKept(s)
    BY <1>1 DEF AckKept, Acked, IInv, AckOK, AtLink, AtClose, AtPeer
  <1> QED
    BY <1>2, <1>3, <1>4, <1>5, <1>6, LocalAction

(* A CloseAck is noted. *)
LEMMA HandleCloseAckInv ==
  ASSUME IInv, NEW s \in Peers, rpc[s] = "closeAck", HandleCloseAck(s),
         NEW l \in {"closing", "draining", "clean", "read"}, Goto(rpc, s, l),
         UNCHANGED <<writer, queued, sent>>, UNCHANGED <<wire, carrier, closeVars>>
  PROVE  IInv'
  <1> USE DEF HandleCloseAck, Set, Goto, setState, closeVars, peerVars, linkVars
  <1>1. /\ rpc[s] = "closeAck" /\ rpc'[s] \in {"closing", "draining", "clean", "read"}
        /\ UNCHANGED <<ppc[s], collision[s], seen[s], peerDone[s]>>
        /\ UNCHANGED <<state[s], AtClose(s), AtLink(s), wire[s]>>
    BY TypeFacts DEF RunTypes, PeerTypes, AtLink, AtClose
  <1>2. Types'
    <2>1. RunTypes'
      BY TypeFacts DEF RunTypes, Frames, Ended
    <2>2. PeerTypes'
      BY TypeFacts DEF PeerTypes
    <2>3. StateTypes' /\ LinkTypes' /\ WireTypes' /\ CloseTypes'
      BY TypeFacts DEF StateTypes, LinkTypes, WireTypes, CloseTypes
    <2> QED
      BY <2>1, <2>2, <2>3 DEF Types
  <1>3. OnlyAt(s)
    BY TypeFacts DEF OnlyAt, AtLink, AtClose, AtPeer, RunTypes, PeerTypes
  <1> HIDE DEF HandleCloseAck, Set, Goto, setState, closeVars, peerVars, linkVars
  <1>4. QueueOK(s)'
    BY <1>1, QueueSame DEF Early, IInv, QueueOK, AtLink, AtClose
  <1>5. CloseOK(s)'
    BY <1>1 DEF IInv, CloseOK, Active, Delivered, Quiet, Idle, AtLink, AtClose
  <1>6. AckKept(s)
    BY <1>1 DEF AckKept, Acked, IInv, AckOK, AtLink, AtClose
  <1> QED
    BY <1>2, <1>3, <1>4, <1>5, <1>6, LocalAction

(* The peer's first Close: beginPeerClose, and a goroutine to answer it. *)
LEMMA PeerClosesInv ==
  ASSUME IInv, NEW s \in Peers, NEW v \in {"closing", "draining"}, NEW p \in {"drain", "send"},
         ~seen[s], seen' = Set(seen, s, TRUE), beginPeerClose(s, v), Goto(ppc, s, p),
         busy' = busy \/ busy' = Set(busy, s, FALSE), UNCHANGED <<closeAck, peerDone>>,
         NEW l \in {"closing", "draining", "clean", "read"}, Goto(rpc, s, l),
         UNCHANGED <<writer, queued, sent>>, UNCHANGED <<wire, carrier, closeVars>>
  PROVE  IInv'
  <1> USE DEF beginPeerClose, Set, Goto, setState, closeVars, peerVars, linkVars
  <1>1. /\ rpc'[s] \in {"closing", "draining", "clean", "read"} /\ ~seen[s] /\ seen'[s]
        /\ ppc[s] = "idle" /\ ppc'[s] \in {"drain", "send"}
        /\ collision'[s] <=> state[s] \in {"closing", "draining"}
        /\ state'[s] = IF state[s] \in {"closing", "closed"} THEN state[s] ELSE v
        /\ UNCHANGED <<closeAck[s], peerDone[s], AtClose(s), AtLink(s), wire[s]>>
    <2>1. rpc'[s] \in {"closing", "draining", "clean", "read"} /\ ~seen[s] /\ seen'[s]
      BY TypeFacts DEF StateTypes, RunTypes, PeerTypes, AtLink, AtClose
    <2>2. ppc[s] = "idle" /\ ppc'[s] \in {"drain", "send"}
      BY TypeFacts DEF IInv, QueueOK, PeerTypes
    <2>3. collision'[s] <=> state[s] \in {"closing", "draining"}
      BY TypeFacts DEF StateTypes, RunTypes, PeerTypes, AtLink, AtClose
    <2>4. state'[s] = IF state[s] \in {"closing", "closed"} THEN state[s] ELSE v
      BY TypeFacts DEF StateTypes, RunTypes, PeerTypes, AtLink, AtClose
    <2>5. UNCHANGED <<closeAck[s], peerDone[s], AtClose(s), AtLink(s), wire[s]>>
      BY TypeFacts DEF StateTypes, RunTypes, PeerTypes, AtLink, AtClose
    <2> QED
      BY <2>1, <2>2, <2>3, <2>4, <2>5
  <1>2. Types'
    <2>1. StateTypes'
      BY TypeFacts DEF StateTypes, Terminal
    <2>2. RunTypes'
      BY TypeFacts DEF RunTypes, Frames, Ended
    <2>3. PeerTypes'
      BY TypeFacts, SMT DEF PeerTypes
    <2>4. LinkTypes' /\ WireTypes' /\ CloseTypes'
      BY TypeFacts DEF LinkTypes, WireTypes, CloseTypes
    <2> QED
      BY <2>1, <2>2, <2>3, <2>4 DEF Types
  <1>3. OnlyAt(s)
    BY TypeFacts DEF OnlyAt, AtLink, AtClose, AtPeer, StateTypes, RunTypes, PeerTypes
  <1> HIDE DEF beginPeerClose, Set, Goto, setState, closeVars, peerVars, linkVars
  <1>4. QueueOK(s)'
    BY <1>1, QueueSame DEF Early, IInv, QueueOK, AtLink, AtClose
  <1>5. CloseOK(s)'
    BY <1>1 DEF IInv, CloseOK, Active, Delivered, Quiet, Idle, AtLink, AtClose
  <1>6. AckKept(s)
    BY <1>1 DEF AckKept, Acked, IInv, AckOK, AtLink, AtClose
  <1> QED
    BY <1>2, <1>3, <1>4, <1>5, <1>6, LocalAction

(* A Close of the peer. *)
LEMMA HandleCloseInv ==
  ASSUME IInv, NEW s \in Peers, NEW f \in {"close", "closeDrain"}, HandleClose(s, f),
         NEW l \in {"closing", "draining", "clean", "read"}, Goto(rpc, s, l),
         UNCHANGED <<writer, queued, sent>>, UNCHANGED <<wire, carrier, closeVars>>
  PROVE  IInv'
  <1>1. CASE UNCHANGED <<state, busy, peerVars>>
    BY <1>1, HandledInv
  <1>2. CASE /\ ~seen[s] /\ seen' = Set(seen, s, TRUE)
             /\ beginPeerClose(s, "draining") /\ Goto(ppc, s, "drain") /\ UNCHANGED busy
             /\ UNCHANGED <<closeAck, peerDone>>
    BY <1>2, PeerClosesInv
  <1>3. CASE /\ ~seen[s] /\ seen' = Set(seen, s, TRUE)
             /\ beginPeerClose(s, "closing") /\ Goto(ppc, s, "send") /\ busy' = Set(busy, s, FALSE)
             /\ UNCHANGED <<closeAck, peerDone>>
    BY <1>3, PeerClosesInv
  <1> QED
    BY <1>1, <1>2, <1>3 DEF HandleClose

(* HandleFrame *)
LEMMA HandleFrameInv ==
  ASSUME IInv, NEW s \in Peers, HandleFrame(s)
  PROVE  IInv'
  <1> DEFINE f == rpc[s]
             l == IF f = "goaway" THEN "closing"
                  ELSE IF f = "goawayDrain" THEN "draining"
                  ELSE IF state'[s] = "closed" THEN "clean" ELSE "read"
             rest == Goto(rpc, s, l) /\ UNCHANGED <<writer, queued, sent>>
  <1>1. UNCHANGED <<wire, carrier, closeVars>> /\ l \in {"closing", "draining", "clean", "read"}
    BY DEF HandleFrame
  <1>2. \/ /\ sendAndWait(s, "error", "none") /\ Goto(rpc, s, "failing")
           /\ UNCHANGED <<state, busy, peerVars>>
        \/ f \in {"close", "closeDrain"} /\ HandleClose(s, f) /\ rest
        \/ f = "closeAck" /\ HandleCloseAck(s) /\ rest
        \/ UNCHANGED <<state, busy, peerVars>> /\ rest
    BY DEF HandleFrame
  <1> HIDE DEF l
  <1>3. CASE /\ sendAndWait(s, "error", "none") /\ Goto(rpc, s, "failing")
             /\ UNCHANGED <<state, busy, peerVars>>
    BY <1>1, <1>3, RefusesInv
  <1>4. CASE f \in {"close", "closeDrain"} /\ HandleClose(s, f) /\ rest
    BY <1>1, <1>4, HandleCloseInv
  <1>5. CASE f = "closeAck" /\ HandleCloseAck(s) /\ rest
    BY <1>1, <1>5, HandleCloseAckInv
  <1>6. CASE UNCHANGED <<state, busy, peerVars>> /\ rest
    BY <1>1, <1>6, HandledInv
  <1> QED
    BY <1>2, <1>3, <1>4, <1>5, <1>6

(* handleIncomingGoAway *)
LEMMA HandleGoAwayInv ==
  ASSUME IInv, NEW s \in Peers, HandleGoAway(s)
  PROVE  IInv'
  <1> USE DEF HandleGoAway, Set, Goto, setState, closeVars, peerVars, linkVars
  <1>1. /\ state'[s] \in {"closing", "draining"} /\ rpc'[s] = "read"
        /\ UNCHANGED <<AtClose(s), AtLink(s), AtPeer(s), wire[s]>>
    BY TypeFacts DEF StateTypes, RunTypes, AtLink, AtClose, AtPeer
  <1>2. Types'
    <2>1. StateTypes'
      BY TypeFacts DEF StateTypes, Terminal
    <2>2. RunTypes'
      BY TypeFacts DEF RunTypes, Frames, Ended
    <2>3. LinkTypes' /\ WireTypes' /\ CloseTypes' /\ PeerTypes'
      BY TypeFacts DEF LinkTypes, WireTypes, CloseTypes, PeerTypes
    <2> QED
      BY <2>1, <2>2, <2>3 DEF Types
  <1>3. OnlyAt(s)
    BY TypeFacts DEF OnlyAt, AtLink, AtClose, AtPeer, StateTypes, RunTypes
  <1> HIDE DEF HandleGoAway, Set, Goto, setState, closeVars, peerVars, linkVars
  <1>4. QueueOK(s)'
    BY <1>1, QueueSame DEF Early, IInv, QueueOK, AtLink, AtClose, AtPeer
  <1>5. CloseOK(s)'
    BY <1>1 DEF IInv, CloseOK, Active, Delivered, Quiet, Idle, AtLink, AtClose, AtPeer
  <1>6. AckKept(s)
    BY <1>1 DEF AckKept, Acked, IInv, AckOK, AtLink, AtClose, AtPeer
  <1> QED
    BY <1>2, <1>3, <1>4, <1>5, <1>6, LocalAction

(* A frame that could not be handled ends the session. *)
LEMMA HandleFailsInv ==
  ASSUME IInv, NEW s \in Peers, HandleFails(s)
  PROVE  IInv'
  <1> USE DEF HandleFails, Set, Goto, setState, closeVars, peerVars, linkVars
  <1>1. LinkReleased(s, "closed")
    BY CloseWriterFacts
  <1>2. CarrierClosed(s)
    BY CarrierFacts
  <1>3. /\ state'[s] = "failed" /\ rpc'[s] = "broken"
        /\ UNCHANGED <<AtClose(s), AtPeer(s)>>
    BY <1>1, <1>2, TypeFacts
       DEF StateTypes, RunTypes, AtClose, AtPeer, LinkReleased, CarrierClosed
  <1>4. Types'
    <2>1. StateTypes'
      BY TypeFacts DEF StateTypes, Terminal
    <2>2. RunTypes'
      BY TypeFacts DEF RunTypes, Frames, Ended
    <2>3. CloseTypes' /\ PeerTypes'
      BY TypeFacts DEF CloseTypes, PeerTypes
    <2> QED
      BY <1>1, <1>2, <2>1, <2>2, <2>3 DEF LinkReleased, CarrierClosed, Types
  <1>5. OnlyAt(s)
    BY <1>1, <1>2, TypeFacts
       DEF OnlyAt, AtLink, AtClose, AtPeer, StateTypes, LinkTypes, WireTypes, RunTypes,
           LinkReleased, CarrierClosed
  <1> HIDE DEF HandleFails, Set, Goto, setState, closeVars, peerVars, linkVars
  <1>6. QueueOK(s)'
    BY <1>1, <1>3 DEF LinkReleased, AtPeer, IInv, QueueOK, Early
  <1>7. CloseOK(s)'
    BY <1>1, <1>2, <1>3
       DEF IInv, CloseOK, Active, Delivered, Quiet, Idle, AtClose, AtPeer, LinkReleased,
           CarrierClosed
  <1>8. AckKept(s)
    BY <1>1, <1>2, <1>3
       DEF AckKept, Acked, IInv, AckOK, AtClose, AtPeer, LinkReleased, CarrierClosed
  <1> QED
    BY <1>4, <1>5, <1>6, <1>7, <1>8, LocalAction

(* Read fails. *)
LEMMA ReadFailsInv ==
  ASSUME IInv, NEW s \in Peers, ReadFails(s)
  PROVE  IInv'
  <1> USE DEF ReadFails, Set, Goto, setState, closeVars, peerVars, linkVars
  <1>1. /\ rpc[s] = "read" /\ rpc'[s] \in {"clean", "cleanup"}
        /\ UNCHANGED <<state[s], AtClose(s), AtLink(s), AtPeer(s), wire[s]>>
    BY TypeFacts DEF RunTypes, AtLink, AtClose, AtPeer
  <1>2. Types'
    <2>1. RunTypes'
      BY TypeFacts DEF RunTypes, Frames, Ended
    <2>2. StateTypes' /\ LinkTypes' /\ WireTypes' /\ CloseTypes' /\ PeerTypes'
      BY TypeFacts DEF StateTypes, LinkTypes, WireTypes, CloseTypes, PeerTypes
    <2> QED
      BY <2>1, <2>2 DEF Types
  <1>3. OnlyAt(s)
    BY TypeFacts DEF OnlyAt, AtLink, AtClose, AtPeer, RunTypes
  <1> HIDE DEF ReadFails, Set, Goto, setState, closeVars, peerVars, linkVars
  <1>4. QueueOK(s)'
    BY <1>1, QueueSame DEF Early, IInv, QueueOK, AtLink, AtClose, AtPeer
  <1>5. CloseOK(s)'
    BY <1>1 DEF IInv, CloseOK, Active, Delivered, Quiet, Idle, AtLink, AtClose, AtPeer
  <1>6. AckKept(s)
    BY <1>1 DEF AckKept, Acked, IInv, AckOK, AtLink, AtClose, AtPeer
  <1> QED
    BY <1>2, <1>3, <1>4, <1>5, <1>6, LocalAction

(* The cleanup after a failed read. *)
LEMMA ReadCleanupInv ==
  ASSUME IInv, NEW s \in Peers, ReadCleanup(s)
  PROVE  IInv'
  <1> USE DEF ReadCleanup, Set, Goto, setState, closeVars, peerVars, linkVars
  <1>1. LinkReleased(s, "closed")
    BY CloseWriterFacts
  <1>2. /\ rpc'[s] \in {"broken", "mark"} /\ UNCHANGED state[s]
        /\ UNCHANGED <<AtClose(s), AtPeer(s), wire[s]>>
    BY <1>1, TypeFacts DEF StateTypes, RunTypes, AtClose, AtPeer, LinkReleased
  <1>3. Types'
    <2>1. StateTypes'
      BY TypeFacts DEF StateTypes, Terminal
    <2>2. RunTypes'
      BY TypeFacts DEF RunTypes, Frames, Ended
    <2>3. WireTypes' /\ CloseTypes' /\ PeerTypes'
      BY TypeFacts DEF WireTypes, CloseTypes, PeerTypes
    <2> QED
      BY <1>1, <2>1, <2>2, <2>3 DEF LinkReleased, Types
  <1>4. OnlyAt(s)
    BY <1>1, TypeFacts
       DEF OnlyAt, AtLink, AtClose, AtPeer, StateTypes, LinkTypes, RunTypes, LinkReleased
  <1> HIDE DEF ReadCleanup, Set, Goto, setState, closeVars, peerVars, linkVars
  <1>5. QueueOK(s)'
    BY <1>1, <1>2 DEF LinkReleased, AtPeer, IInv, QueueOK, Early
  <1>6. CloseOK(s)'
    BY <1>1, <1>2
       DEF IInv, CloseOK, Active, Delivered, Quiet, Idle, AtClose, AtPeer, LinkReleased
  <1>7. AckKept(s)
    BY <1>1, <1>2 DEF AckKept, Acked, IInv, AckOK, AtClose, AtPeer, LinkReleased
  <1> QED
    BY <1>3, <1>4, <1>5, <1>6, <1>7, LocalAction

(* The session is marked as failed. *)
LEMMA ReadMarksFailedInv ==
  ASSUME IInv, NEW s \in Peers, ReadMarksFailed(s)
  PROVE  IInv'
  <1> USE DEF ReadMarksFailed, Set, Goto, setState, closeVars, peerVars, linkVars
  <1>1. /\ rpc[s] = "mark" /\ rpc'[s] = "broken" /\ state'[s] = "failed"
        /\ UNCHANGED <<AtClose(s), AtLink(s), AtPeer(s), wire[s]>>
    BY TypeFacts DEF StateTypes, RunTypes, AtLink, AtClose, AtPeer
  <1>2. Types'
    <2>1. StateTypes'
      BY TypeFacts DEF StateTypes, Terminal
    <2>2. RunTypes'
      BY TypeFacts DEF RunTypes, Frames, Ended
    <2>3. LinkTypes' /\ WireTypes' /\ CloseTypes' /\ PeerTypes'
      BY TypeFacts DEF LinkTypes, WireTypes, CloseTypes, PeerTypes
    <2> QED
      BY <2>1, <2>2, <2>3 DEF Types
  <1>3. OnlyAt(s)
    BY TypeFacts DEF OnlyAt, AtLink, AtClose, AtPeer, StateTypes, RunTypes
  <1> HIDE DEF ReadMarksFailed, Set, Goto, setState, closeVars, peerVars, linkVars
  <1>4. QueueOK(s)'
    BY <1>1, QueueSame DEF Early, IInv, QueueOK, AtLink, AtClose, AtPeer
  <1>5. CloseOK(s)'
    BY <1>1 DEF IInv, CloseOK, Active, Delivered, Quiet, Idle, AtLink, AtClose, AtPeer
  <1>6. AckKept(s)
    BY <1>1 DEF AckKept, Acked, IInv, AckOK, AtLink, AtClose, AtPeer
  <1> QED
    BY <1>2, <1>3, <1>4, <1>5, <1>6, LocalAction

-----------------------------------------------------------------------------
(* The answer to the peer's Close. *)

(* The peer's Close is answered. *)
LEMMA PeerSendsAckInv ==
  ASSUME IInv, NEW s \in Peers, PeerSendsAck(s)
  PROVE  IInv'
  <1> USE DEF PeerSendsAck, Set, Goto, setState, closeVars, peerVars, linkVars
  <1>1. /\ sendAndWait(s, "closeAck", "peer") /\ "closeAck" \in Frames /\ "peer" \in Callers \cup {"none"}
        /\ "closeAck" = "closeAck" => "peer" = "peer"
    BY TypeFacts DEF Frames, Callers
  <1>2. LinkSent(s, "peer")
    BY <1>1, SentFacts, TypeFacts DEF IInv, QueueOK, PeerTypes, Early
  <1>3. /\ ppc[s] \in {"send", "drain"} /\ ppc'[s] = "sending"
        /\ UNCHANGED <<collision[s], seen[s], closeAck[s], peerDone[s]>>
        /\ UNCHANGED <<state[s], rpc[s], AtClose(s), wire[s]>>
    BY <1>2, TypeFacts DEF PeerTypes, AtClose, LinkSent
  <1>4. Types'
    <2>1. PeerTypes'
      BY TypeFacts DEF PeerTypes
    <2>2. StateTypes' /\ WireTypes' /\ CloseTypes' /\ RunTypes'
      BY TypeFacts DEF StateTypes, WireTypes, CloseTypes, RunTypes
    <2> QED
      BY <1>2, <2>1, <2>2 DEF LinkSent, Types
  <1>5. OnlyAt(s)
    BY <1>2, TypeFacts DEF OnlyAt, AtLink, AtClose, AtPeer, LinkTypes, PeerTypes, LinkSent
  <1> HIDE DEF PeerSendsAck, Set, Goto, setState, closeVars, peerVars, linkVars
  <1>6. QueueOK(s)'
    BY <1>2, <1>3 DEF LinkSent
  <1>7. CloseOK(s)'
    BY <1>2, <1>3 DEF IInv, CloseOK, Active, Delivered, Quiet, Idle, AtClose, LinkSent
  <1>8. AckKept(s)
    BY <1>2, <1>3 DEF AckKept, Acked, IInv, AckOK, AtClose, LinkSent
  <1> QED
    BY <1>4, <1>5, <1>6, <1>7, <1>8, LocalAction

(* The answer is sent, or given up. *)
LEMMA PeerAckSentInv ==
  ASSUME IInv, NEW s \in Peers, PeerAckSent(s)
  PROVE  IInv'
  <1> USE DEF PeerAckSent, Waited, Set, Goto, setState, closeVars, peerVars, linkVars
  <1>1. /\ ppc[s] = "sending" /\ UNCHANGED <<collision[s], seen[s], closeAck[s]>>
        /\ \/ /\ sent[s]["peer"] = "ok" /\ peerDone'[s] = "ok"
              /\ ppc'[s] = IF collision[s] THEN "done" ELSE "finish"
           \/ peerDone'[s] = "failed" /\ ppc'[s] = "fail"
        /\ UNCHANGED <<state[s], rpc[s], AtClose(s), AtLink(s), wire[s]>>
    BY TypeFacts DEF PeerTypes, AtLink, AtClose
  <1>2. Types'
    <2>1. PeerTypes'
      BY TypeFacts DEF PeerTypes
    <2>2. StateTypes' /\ LinkTypes' /\ WireTypes' /\ CloseTypes' /\ RunTypes'
      BY TypeFacts DEF StateTypes, LinkTypes, WireTypes, CloseTypes, RunTypes
    <2> QED
      BY <2>1, <2>2 DEF Types
  <1>3. OnlyAt(s)
    BY TypeFacts DEF OnlyAt, AtLink, AtClose, AtPeer, PeerTypes
  <1> HIDE DEF PeerAckSent, Waited, Set, Goto, setState, closeVars, peerVars, linkVars
  <1>4. QueueOK(s)'
    BY <1>1, QueueSame DEF Early, IInv, QueueOK, AtLink, AtClose
  <1>5. CloseOK(s)'
    BY <1>1 DEF IInv, CloseOK, Active, Delivered, Quiet, Idle, AtLink, AtClose
  <1>6. AckKept(s)
    BY <1>1 DEF AckKept, Acked, IInv, AckOK, AtLink, AtClose
  <1> QED
    BY <1>2, <1>3, <1>4, <1>5, <1>6, LocalAction

(* The answer could not be sent. *)
LEMMA PeerCloseFailsInv ==
  ASSUME IInv, NEW s \in Peers, PeerCloseFails(s)
  PROVE  IInv'
  <1> USE DEF PeerCloseFails, Set, Goto, setState, closeVars, peerVars, linkVars
  <1>1. CarrierClosed(s)
    BY CarrierFacts
  <1>2. /\ ppc[s] = "fail" /\ ppc'[s] = "done" /\ state'[s] = "failed"
        /\ UNCHANGED <<collision[s], seen[s], closeAck[s], peerDone[s]>>
        /\ UNCHANGED <<rpc[s], AtClose(s), AtLink(s)>>
    BY <1>1, TypeFacts DEF StateTypes, PeerTypes, AtLink, AtClose, CarrierClosed
  <1>3. Types'
    <2>1. StateTypes'
      BY TypeFacts DEF StateTypes, Terminal
    <2>2. PeerTypes'
      BY TypeFacts DEF PeerTypes
    <2>3. LinkTypes' /\ CloseTypes' /\ RunTypes'
      BY TypeFacts DEF LinkTypes, CloseTypes, RunTypes
    <2> QED
      BY <1>1, <2>1, <2>2, <2>3 DEF CarrierClosed, Types
  <1>4. OnlyAt(s)
    BY <1>1, TypeFacts
       DEF OnlyAt, AtLink, AtClose, AtPeer, StateTypes, WireTypes, PeerTypes, CarrierClosed
  <1> HIDE DEF PeerCloseFails, Set, Goto, setState, closeVars, peerVars, linkVars
  <1>5. QueueOK(s)'
    BY <1>2, QueueSame DEF Early, IInv, QueueOK, AtLink, AtClose
  <1>6. CloseOK(s)'
    BY <1>1, <1>2
       DEF IInv, CloseOK, Active, Delivered, Quiet, Idle, AtLink, AtClose, CarrierClosed
  <1>7. AckKept(s)
    BY <1>1, <1>2 DEF AckKept, Acked, IInv, AckOK, AtLink, AtClose, CarrierClosed
  <1> QED
    BY <1>3, <1>4, <1>5, <1>6, <1>7, LocalAction

(* The side that did not start the close ends it. *)
LEMMA PeerCloseFinishesInv ==
  ASSUME IInv, NEW s \in Peers, PeerCloseFinishes(s)
  PROVE  IInv'
  <1> USE DEF PeerCloseFinishes, Set, Goto, setState, closeVars, peerVars, linkVars
  <1>1. LinkReleased(s, "closed")
    BY CloseWriterFacts
  <1>2. CarrierClosed(s)
    BY CarrierFacts
  <1>3. /\ ppc[s] = "finish" /\ ppc'[s] = "done" /\ state'[s] = "closed"
        /\ UNCHANGED <<collision[s], seen[s], closeAck[s], peerDone[s]>>
        /\ UNCHANGED <<rpc[s], AtClose(s)>>
    BY <1>1, <1>2, TypeFacts DEF StateTypes, PeerTypes, AtClose, LinkReleased, CarrierClosed
  <1>4. Types'
    <2>1. StateTypes'
      BY TypeFacts DEF StateTypes, Terminal
    <2>2. PeerTypes'
      BY TypeFacts DEF PeerTypes
    <2>3. CloseTypes' /\ RunTypes'
      BY TypeFacts DEF CloseTypes, RunTypes
    <2> QED
      BY <1>1, <1>2, <2>1, <2>2, <2>3 DEF LinkReleased, CarrierClosed, Types
  <1>5. OnlyAt(s)
    BY <1>1, <1>2, TypeFacts
       DEF OnlyAt, AtLink, AtClose, AtPeer, StateTypes, LinkTypes, WireTypes, PeerTypes,
           LinkReleased, CarrierClosed
  <1> HIDE DEF PeerCloseFinishes, Set, Goto, setState, closeVars, peerVars, linkVars
  <1>6. QueueOK(s)'
    BY <1>1, <1>3 DEF LinkReleased, IInv, QueueOK, Early
  <1>7. CloseOK(s)'
    BY <1>1, <1>2, <1>3
       DEF IInv, CloseOK, Active, Delivered, Quiet, Idle, AtClose, LinkReleased, CarrierClosed
  <1>8. AckKept(s)
    BY <1>1, <1>2, <1>3 DEF AckKept, Acked, IInv, AckOK, AtClose, LinkReleased, CarrierClosed
  <1> QED
    BY <1>4, <1>5, <1>6, <1>7, <1>8, LocalAction

-----------------------------------------------------------------------------
(* Transfers. *)

(* A transfer sends a frame. *)
LEMMA TransferFrameInv ==
  ASSUME IInv, NEW s \in Peers, TransferFrame(s)
  PROVE  IInv'
  <1>1. /\ wire' = [wire EXCEPT ![s] = Append(wire[s], "transfer")]
        /\ UNCHANGED <<state, busy, writer, queued, sent, carrier, closeVars, rpc, peerVars>>
    BY DEF TransferFrame, Set
  <1>2. wire \in [Peers -> Seq(Frames)] /\ "transfer" \in Frames
    BY TypeFacts DEF WireTypes, Frames
  <1>3. Append(wire[s], "transfer") \in Seq(Frames)
    BY <1>2, Appended
  <1>4. /\ wire' \in [Peers -> Seq(Frames)] /\ wire'[s] = Append(wire[s], "transfer")
        /\ \A t \in Peers : t # s => wire'[t] = wire[t]
    BY <1>1, <1>2, <1>3
  <1>5. Types'
    BY <1>1, <1>4, TypeFacts
       DEF Types, StateTypes, LinkTypes, WireTypes, CloseTypes, RunTypes, PeerTypes, closeVars,
           peerVars
  <1>6. OnlyAt(s)
    BY <1>1, <1>4 DEF OnlyAt, AtLink, AtClose, AtPeer, closeVars, peerVars
  <1>7. UNCHANGED <<state[s], rpc[s], AtLink(s), AtClose(s), AtPeer(s)>> /\ (Acked(s) => Acked(s)')
    BY <1>1 DEF AtLink, AtClose, AtPeer, closeVars, peerVars, Acked
  <1>8. QueueOK(s)'
    BY <1>7, QueueSame DEF IInv, QueueOK, Early, AtLink, AtPeer
  <1>9. CloseOK(s)'
    BY <1>7 DEF IInv, CloseOK, Active, Delivered, Quiet, Idle, AtLink, AtClose, AtPeer
  <1>10. AckOK(s)'
    <2>1. wire'[s] \in Seq(SoundFrames(s)')
      BY <1>2, <1>4, <1>7, WireGrows
    <2>2. Acked(s)' = Acked(s) /\ Acked(Other(s))' = Acked(Other(s))
      BY <1>1 DEF Acked
    <2> QED
      BY <1>7, <2>1, <2>2 DEF IInv, AckOK, AtClose, AtPeer
  <1> QED
    BY <1>5, <1>6, <1>7, <1>8, <1>9, <1>10, LocalStep

(* A transfer ends. *)
LEMMA TransferEndsInv ==
  ASSUME IInv, NEW s \in Peers, TransferEnds(s)
  PROVE  IInv'
  <1> USE DEF TransferEnds, Set, Goto, setState, closeVars, peerVars, linkVars
  <1>1. /\ UNCHANGED <<state[s], rpc[s], AtClose(s), AtLink(s), AtPeer(s), wire[s]>>
    BY TypeFacts DEF StateTypes, AtLink, AtClose, AtPeer
  <1>2. Types'
    <2>1. StateTypes'
      BY TypeFacts DEF StateTypes, Terminal
    <2>2. LinkTypes' /\ WireTypes' /\ CloseTypes' /\ RunTypes' /\ PeerTypes'
      BY TypeFacts DEF LinkTypes, WireTypes, CloseTypes, RunTypes, PeerTypes
    <2> QED
      BY <2>1, <2>2 DEF Types
  <1>3. OnlyAt(s)
    BY TypeFacts DEF OnlyAt, AtLink, AtClose, AtPeer, StateTypes
  <1> HIDE DEF TransferEnds, Set, Goto, setState, closeVars, peerVars, linkVars
  <1>4. QueueOK(s)'
    BY <1>1, QueueSame DEF Early, IInv, QueueOK, AtLink, AtClose, AtPeer
  <1>5. CloseOK(s)'
    BY <1>1 DEF IInv, CloseOK, Active, Delivered, Quiet, Idle, AtLink, AtClose, AtPeer
  <1>6. AckKept(s)
    BY <1>1 DEF AckKept, Acked, IInv, AckOK, AtLink, AtClose, AtPeer
  <1> QED
    BY <1>2, <1>3, <1>4, <1>5, <1>6, LocalAction

-----------------------------------------------------------------------------
(* Every step preserves the invariant. *)
LEMMA NextInv == IInv /\ [Next]_vars => IInv'
  <1> SUFFICES ASSUME IInv, [Next]_vars PROVE IInv'
    OBVIOUS
  <1>1. CASE UNCHANGED vars
    <2> USE <1>1 DEF vars, linkVars, closeVars, peerVars
    <2>1. Types'
      BY TypeFacts DEF Types, StateTypes, LinkTypes, WireTypes, CloseTypes, RunTypes, PeerTypes
    <2>2. ASSUME NEW s \in Peers PROVE QueueOK(s)' /\ AckOK(s)' /\ CloseOK(s)'
      <3>1. QueueOK(s)'
        BY DEF IInv, QueueOK, AckQueued
      <3>2. AckOK(s)'
        BY DEF IInv, AckOK, SoundFrames, Acked
      <3>3. CloseOK(s)'
        BY DEF IInv, CloseOK, Active, Delivered, Quiet, Idle
      <3> QED
        BY <3>1, <3>2, <3>3
    <2> QED
      BY <2>1, <2>2 DEF IInv
  <1>2. ASSUME NEW s \in Peers, NEW k \in Calls[s] \cap {"immediate", "drain"}, CloseWith(s, k)
        PROVE  IInv'
    BY <1>2, CloseWithInv
  <1>3. ASSUME NEW s \in Peers, NEW k \in Calls[s] \cap {"goaway", "goawayDrain"}, SendGoAway(s, k)
        PROVE  IInv'
    BY <1>3, SendGoAwayInv
  <1>4. ASSUME NEW s \in Peers, Writer(s) PROVE IInv'
    BY <1>4, WriterSendsInv, WriterFailsInv DEF Writer
  <1>5. ASSUME NEW s \in Peers, Closer(s) PROVE IInv'
    BY <1>5, CloseBeginsInv, CloseSendsInv, CloseSentInv, CloseUnsentInv, CloseAckedInv,
       CloseAckTimeoutInv, ClosePeerInv, ClosePeerDoneInv, CloseFinishesInv DEF Closer
  <1>6. ASSUME NEW s \in Peers, GoAway(s) PROVE IInv'
    BY <1>6, GoAwaySendsInv, GoAwaySentInv DEF GoAway
  <1>7. ASSUME NEW s \in Peers, Run(s) PROVE IInv'
    BY <1>7, ReadFrameInv, HandleFrameInv, HandleGoAwayInv, HandleFailsInv, ReadFailsInv,
       ReadCleanupInv, ReadMarksFailedInv DEF Run
  <1>8. ASSUME NEW s \in Peers, Answer(s) PROVE IInv'
    BY <1>8, PeerSendsAckInv, PeerAckSentInv, PeerCloseFailsInv, PeerCloseFinishesInv DEF Answer
  <1>9. ASSUME NEW s \in Peers, TransferFrame(s) \/ TransferEnds(s) PROVE IInv'
    BY <1>9, TransferFrameInv, TransferEndsInv
  <1> QED
    BY <1>1, <1>2, <1>3, <1>4, <1>5, <1>6, <1>7, <1>8, <1>9 DEF Next

(* The invariant holds in every state two closing sessions reach. *)
THEOREM Invariance == Spec => []IInv
  BY InitInv, NextInv, PTL DEF Spec

(* The invariant contains the type invariant. *)
LEMMA TypesImplied == IInv => TypeOK
  <1> SUFFICES ASSUME IInv PROVE TypeOK
    OBVIOUS
  <1>1. ASSUME NEW s \in Peers, NEW n \in DOMAIN queued[s]
        PROVE  queued[s][n].frame \in Frames /\ queued[s][n].by \in Callers \cup {"none"}
    <2>1. queued[s] \in Seq(Items)
      BY TypeFacts DEF LinkTypes
    <2>2. queued[s][n] \in Items
      BY <1>1, <2>1, SMT
    <2> QED
      BY <2>2 DEF Items
  <1>2. \A s \in Peers : writer[s] = "closed" => queued[s] = <<>>
    BY DEF IInv, QueueOK
  <1>3. StateTypes /\ LinkTypes /\ WireTypes /\ CloseTypes /\ RunTypes /\ PeerTypes
    BY TypeFacts
  <1> QED
    BY <1>1, <1>2, <1>3
       DEF TypeOK, StateTypes, LinkTypes, WireTypes, CloseTypes, RunTypes, PeerTypes

(* In AckOK, a nil returned by CloseWith names the CloseAck it rests on. *)
LEMMA AckImplied == IInv => OkMeansAcked
  <1> SUFFICES ASSUME IInv, NEW s \in Peers, result[s] = "ok"
               PROVE  \E t \in Peers : sent[t]["peer"] = "ok"
    BY DEF OkMeansAcked
  <1>1. Other(s) \in Peers
    BY OtherFacts
  <1> QED
    BY <1>1 DEF IInv, AckOK, Acked

(* A session is stored as Closed for good, but for a failure or a GoAway. *)
ClosedKept(s) ==
    state[s] = "closed" /\ state'[s] # "closed" =>
        \/ state'[s] = "failed"
        \/ gpc[s] # gpc'[s]
        \/ rpc[s] \in {"closing", "draining"}

(* Action by action: the only Closed that is replaced by something other    *)
(* than Failed is replaced by a GoAway that is sent or received. CloseAcked *)
(* of a drain stores Closing whatever it finds, and CloseOK says it does    *)
(* not find Closed.                                                         *)
LEMMA StepKeepsClosed ==
  ASSUME IInv, NEW s \in Peers, Next, state[s] = "closed"
  PROVE  ClosedKept(s)
  <1> USE DEF ClosedKept
  <1>1. state \in [Peers -> {"established", "draining", "closing"} \cup Terminal]
    BY TypeFacts DEF StateTypes
  <1>2. PICK t \in Peers :
          \/ \E k \in Calls[t] \cap {"immediate", "drain"} : CloseWith(t, k)
          \/ \E k \in Calls[t] \cap {"goaway", "goawayDrain"} : SendGoAway(t, k)
          \/ Writer(t) \/ Closer(t) \/ GoAway(t) \/ Run(t) \/ Answer(t)
          \/ TransferFrame(t) \/ TransferEnds(t)
    BY DEF Next
  <1> USE DEF Set, Goto, setState
  <1>3. CASE \E k \in Calls[t] \cap {"immediate", "drain"} : CloseWith(t, k)
    BY <1>1, <1>3 DEF CloseWith, beginLocalClose
  <1>4. CASE \E k \in Calls[t] \cap {"goaway", "goawayDrain"} : SendGoAway(t, k)
    BY <1>1, <1>4, TypeFacts DEF SendGoAway, Idle, CloseTypes
  <1>5. CASE Writer(t)
    BY <1>1, <1>5 DEF Writer, WriterSends, WriterFails
  <1>6. CASE Closer(t)
    <2>1. CASE CloseBegins(t) \/ CloseSends(t) \/ CloseSent(t) \/ ClosePeer(t)
      BY <1>1, <2>1 DEF CloseBegins, CloseSends, CloseSent, ClosePeer
    <2>2. CASE CloseUnsent(t) \/ CloseAckTimeout(t) \/ ClosePeerDone(t) \/ CloseFinishes(t)
      BY <1>1, <2>2 DEF CloseUnsent, CloseAckTimeout, ClosePeerDone, CloseFinishes, closeSucceeds, closeFails
    <2>3. CASE CloseAcked(t)
      <3>1. state[t] # "closed"
        BY <2>3 DEF CloseAcked, IInv, CloseOK, Delivered
      <3> QED
        BY <1>1, <2>3, <3>1 DEF CloseAcked
    <2> QED
      BY <1>6, <2>1, <2>2, <2>3 DEF Closer
  <1>7. CASE GoAway(t)
    BY <1>1, <1>7 DEF GoAway, GoAwaySends, GoAwaySent
  <1>8. CASE Run(t)
    <2>1. CASE ReadFrame(t) \/ ReadFails(t) \/ ReadCleanup(t)
      BY <1>1, <2>1 DEF ReadFrame, ReadFails, ReadCleanup
    <2>2. CASE HandleFrame(t)
      BY <1>1, <2>2 DEF HandleFrame, HandleClose, HandleCloseAck, beginPeerClose
    <2>3. CASE HandleGoAway(t)
      BY <1>1, <2>3 DEF HandleGoAway
    <2>4. CASE HandleFails(t) \/ ReadMarksFailed(t)
      BY <1>1, <2>4 DEF HandleFails, ReadMarksFailed
    <2> QED
      BY <1>8, <2>1, <2>2, <2>3, <2>4 DEF Run
  <1>9. CASE Answer(t)
    BY <1>1, <1>9 DEF Answer, PeerSendsAck, PeerAckSent, PeerCloseFails, PeerCloseFinishes
  <1>10. CASE TransferFrame(t) \/ TransferEnds(t)
    BY <1>10 DEF TransferFrame, TransferEnds
  <1> QED
    BY <1>2, <1>3, <1>4, <1>5, <1>6, <1>7, <1>8, <1>9, <1>10

(* Whatever the calls, the timeouts and the transfers, the state word, the  *)
(* queues, the channels and the frames in transit keep their types, and a   *)
(* closed writer keeps no frame (closeWriter, releaseQueuedLocked).         *)
THEOREM CloseTypesHold == Spec => []TypeOK
  BY Invariance, TypesImplied, PTL

(* CloseWith returns nil after a close only when a CloseAck was written by  *)
(* one of the two sessions: a nil is never the outcome of a timeout, a lost *)
(* Close or a collision that nobody answered.                               *)
THEOREM OkIsAcked == Spec => []OkMeansAcked
  BY Invariance, AckImplied, PTL

(* beginLocalClose, beginPeerClose, CloseWith and the answer to a Close     *)
(* never bring a closed session back: only a failure or a GoAway replaces   *)
(* Closed in the state word.                                                *)
THEOREM ClosedIsFinal == Spec => ClosedStaysClosed
  <1>1. IInv /\ [Next]_vars => [\A s \in Peers : ClosedKept(s)]_vars
    BY StepKeepsClosed DEF ClosedKept
  <1> QED
    BY <1>1, Invariance, PTL DEF Spec, ClosedStaysClosed, ClosedKept
=============================================================================
