--------------------------- MODULE CloseHandshake ---------------------------
(***************************************************************************)
(* Two established sessions that stop: CloseWith and SendGoAway called by  *)
(* the application, the read loop of Run, the goroutine that answers the   *)
(* peer's Close (finishPeerClose, finishPeerDrain) and the writer, all on  *)
(* one state word per session.  The application makes one call per         *)
(* session.                                                                *)
(***************************************************************************)
EXTENDS Naturals, Sequences

CONSTANTS Peers,      \* the two sessions
          Calls,      \* Calls[s]: the calls the application makes on s
          Timers,     \* the timeouts that may expire
          Transfers   \* the sessions with active transfers

CallKinds == {"immediate", "drain", "goaway", "goawayDrain"}

TimerKinds == {"send", "drain", "ack", "peer"}

ASSUME PeerAssumption == \E s, t \in Peers : s # t /\ Peers = {s, t}

ASSUME CallAssumption == /\ Calls \in [Peers -> SUBSET CallKinds]
                         /\ Timers \subseteq TimerKinds
                         /\ Transfers \subseteq Peers

VARIABLES state,      \* state[s]: Session.state
          busy,       \* busy[s]: a transfer is registered
          writer,     \* writer[s]: "open", "control" (controlOnly) or "closed"
          queued,     \* queued[s]: critical frames waiting for the writer
          sent,       \* sent[s][c]: what the done channel of c's frame says
          wire,       \* wire[s]: frames from s that the peer has not read
          carrier,    \* carrier[s]: s has not closed its transport
          cpc,        \* cpc[s]: where CloseWith is
          kind,       \* kind[s]: the flag CloseWith was called with
          result,     \* result[s]: what CloseWith returned
          gpc,        \* gpc[s]: where SendGoAway is
          rpc,        \* rpc[s]: where Run is
          ppc,        \* ppc[s]: where the answer to the peer's Close is
          collision,  \* collision[s]: closeCollision of that answer
          seen,       \* seen[s]: peerCloseSeen
          closeAck,   \* closeAck[s]: the channel holds the peer's CloseAck
          peerDone    \* peerDone[s]: the value in peerCloseDone

closeVars == <<cpc, kind, result, gpc>>

peerVars == <<ppc, collision, seen, closeAck, peerDone>>

linkVars == <<writer, queued, sent, wire, carrier>>

vars == <<state, busy, linkVars, closeVars, rpc, peerVars>>

Other(s) == CHOOSE t \in Peers : t # s

Callers == {"closer", "peer", "goaway"}

Frames == {"close", "closeDrain", "closeAck", "goaway", "goawayDrain", "transfer", "error"}

Target(k) == IF k \in {"drain", "goawayDrain"} THEN "draining" ELSE "closing"

Init ==
    /\ state = [s \in Peers |-> "established"]
    /\ busy = [s \in Peers |-> s \in Transfers]
    /\ writer = [s \in Peers |-> "open"]
    /\ queued = [s \in Peers |-> <<>>]
    /\ sent = [s \in Peers |-> [c \in Callers |-> "none"]]
    /\ wire = [s \in Peers |-> <<>>]
    /\ carrier = [s \in Peers |-> TRUE]
    /\ cpc = [s \in Peers |-> "idle"]
    /\ kind = [s \in Peers |-> "none"]
    /\ result = [s \in Peers |-> "none"]
    /\ gpc = [s \in Peers |-> "idle"]
    /\ rpc = [s \in Peers |-> "read"]
    /\ ppc = [s \in Peers |-> "idle"]
    /\ collision = [s \in Peers |-> FALSE]
    /\ seen = [s \in Peers |-> FALSE]
    /\ closeAck = [s \in Peers |-> FALSE]
    /\ peerDone = [s \in Peers |-> "none"]

-----------------------------------------------------------------------------
(* The writer: critical control frames in order, each with the caller that  *)
(* waits for it.                                                            *)
Set(f, s, v) == [f EXCEPT ![s] = v]

Goto(pc, s, l) == pc' = Set(pc, s, l)

setState(s, v) == state' = Set(state, s, v)

\* Closing the transport loses what has not been read from it.
t_Close(s) == carrier' = Set(carrier, s, FALSE) /\ wire' = Set(wire, Other(s), <<>>)

\* The frames in q are given back with an error.
Refused(s, q) == [sent EXCEPT ![s] = [c \in Callers |->
                     IF \E n \in DOMAIN q : q[n].by = c THEN "failed" ELSE @[c]]]

releaseQueuedLocked(s) ==
    /\ sent' = Refused(s, queued[s])
    /\ queued' = Set(queued, s, <<>>)

\* A faulty variant: frames stay queued behind a closed writer.
closeWriterKeepsQueue(s) ==
    /\ writer' = Set(writer, s, "closed")
    /\ UNCHANGED <<sent, queued>>

closeWriter(s) ==
    /\ writer' = Set(writer, s, "closed")
    /\ releaseQueuedLocked(s)

beginClosing(s) ==
    /\ writer' = Set(writer, s, IF writer[s] = "closed" THEN "closed" ELSE "control")
    /\ releaseQueuedLocked(s)

\* sendAndWait, up to the wait.
sendAndWait(s, f, c) ==
    LET item == [frame |-> f, by |-> c]
    IN  /\ sent' = IF writer[s] = "closed" THEN Refused(s, <<item>>) ELSE sent
        /\ queued' = IF writer[s] = "closed" THEN queued
                     ELSE Set(queued, s, Append(queued[s], item))
        /\ UNCHANGED writer

\* The wait of sendAndWait ends, with ok or not; the frame may be sent later.
Waited(s, c, ok) == IF ok THEN sent[s][c] = "ok" ELSE sent[s][c] = "failed" \/ "send" \in Timers

WriterSends(s) ==
    /\ queued[s] # <<>> /\ carrier[s]
    /\ LET item == Head(queued[s])
       IN  /\ wire' = IF carrier[Other(s)] THEN Set(wire, s, Append(wire[s], item.frame)) ELSE wire
           /\ sent' = IF item.by = "none" THEN sent ELSE [sent EXCEPT ![s][item.by] = "ok"]
    /\ queued' = Set(queued, s, Tail(queued[s]))
    /\ UNCHANGED <<state, busy, writer, carrier, closeVars, rpc, peerVars>>

\* A write fails once either end is closed; handleWriterFailure.
WriterFails(s) ==
    /\ queued[s] # <<>> /\ \E t \in Peers : ~carrier[t]
    /\ closeWriter(s)
    /\ IF state[s] \in {"closing", "closed"}
       THEN UNCHANGED <<state, wire, carrier>>
       ELSE setState(s, "failed") /\ t_Close(s)
    /\ UNCHANGED <<busy, closeVars, rpc, peerVars>>

-----------------------------------------------------------------------------
(* CloseWith. *)
closeReturns(s, r) == Goto(cpc, s, "done") /\ result' = Set(result, s, r)

\* beginLocalClose stores its target, or finds a close under way.
beginLocalClose(s, target) == state[s] \notin {"closed", "closing", "draining"} /\ setState(s, target)

\* What waitTransfersDrained waits for.
Drained(s) == ~busy[s]

Idle(s) == cpc[s] = "idle" /\ gpc[s] = "idle"

CloseWith(s, k) ==
    /\ Idle(s)
    /\ kind' = Set(kind, s, k)
    /\ \/ /\ beginLocalClose(s, Target(k))
          /\ Goto(cpc, s, IF k = "immediate" THEN "begin" ELSE "send")
          /\ UNCHANGED result
       \/ /\ state[s] \in {"closed", "closing", "draining"}
          /\ closeReturns(s, "noop")
          /\ UNCHANGED state
    /\ UNCHANGED <<busy, linkVars, gpc, rpc, peerVars>>

CloseBegins(s) ==
    /\ cpc[s] = "begin"
    /\ busy' = Set(busy, s, FALSE)
    /\ beginClosing(s)
    /\ Goto(cpc, s, "send")
    /\ UNCHANGED <<state, wire, carrier, kind, result, gpc, rpc, peerVars>>

CloseSends(s) ==
    /\ cpc[s] = "send"
    /\ sendAndWait(s, IF kind[s] = "drain" THEN "closeDrain" ELSE "close", "closer")
    /\ Goto(cpc, s, "sending")
    /\ UNCHANGED <<state, busy, wire, carrier, kind, result, gpc, rpc, peerVars>>

CloseSent(s) ==
    /\ cpc[s] = "sending"
    /\ \/ Waited(s, "closer", TRUE) /\ Goto(cpc, s, "ack")
       \/ Waited(s, "closer", FALSE) /\ Goto(cpc, s, "unsent")
    /\ UNCHANGED <<state, busy, linkVars, kind, result, gpc, rpc, peerVars>>

closeSucceeds(s) ==
    /\ closeWriter(s) /\ t_Close(s)
    /\ setState(s, "closed") /\ closeReturns(s, "ok")

\* A faulty variant: the peer's Close is taken for its answer.
CloseUnsentUnanswered(s) ==
    /\ cpc[s] = "unsent"
    /\ IF seen[s] THEN closeSucceeds(s)
       ELSE setState(s, "failed") /\ closeReturns(s, "error") /\ UNCHANGED linkVars
    /\ UNCHANGED <<busy, kind, gpc, rpc, peerVars>>

\* The Close frame could not be sent; the peer's own Close may be the reason.
CloseUnsent(s) ==
    /\ cpc[s] = "unsent"
    /\ \/ /\ seen[s] /\ peerDone[s] = "ok"
          /\ closeSucceeds(s)
       \/ /\ ~seen[s] \/ peerDone[s] = "failed" \/ "peer" \in Timers
          /\ setState(s, "failed") /\ closeReturns(s, "error")
          /\ UNCHANGED linkVars
    /\ UNCHANGED <<busy, kind, gpc, rpc, peerVars>>

closeFails(s) ==
    /\ setState(s, "failed") /\ t_Close(s) /\ closeReturns(s, "error")
    /\ UNCHANGED <<writer, queued, sent>>

\* waitTransfersDrained, then the CloseAck; one timer bounds both waits.
CloseAcked(s) ==
    /\ cpc[s] = "ack" /\ closeAck[s]
    /\ kind[s] = "drain" => Drained(s)
    /\ closeAck' = Set(closeAck, s, FALSE)
    /\ state' = IF kind[s] = "drain" THEN Set(state, s, "closing") ELSE state
    /\ Goto(cpc, s, "peer")
    /\ UNCHANGED <<busy, linkVars, kind, result, gpc, rpc, ppc, collision, seen, peerDone>>

\* A faulty variant: an immediate close waits for its CloseAck without a timer.
CloseAckTimeoutDrainOnly(s) ==
    /\ cpc[s] = "ack" /\ kind[s] = "drain" /\ "drain" \in Timers
    /\ closeFails(s)
    /\ UNCHANGED <<busy, kind, gpc, rpc, peerVars>>

CloseAckTimeout(s) ==
    /\ cpc[s] = "ack" /\ (IF kind[s] = "drain" THEN "drain" ELSE "ack") \in Timers
    /\ IF kind[s] = "drain"
       THEN closeFails(s)
       ELSE closeWriter(s) /\ t_Close(s) /\ setState(s, "closed") /\ closeReturns(s, "error")
    /\ UNCHANGED <<busy, kind, gpc, rpc, peerVars>>

\* waitPeerCloseDone, on entry and while it waits.
ClosePeer(s) ==
    /\ cpc[s] = "peer"
    /\ Goto(cpc, s, IF seen[s] THEN "wait" ELSE "finish")
    /\ UNCHANGED <<state, busy, linkVars, kind, result, gpc, rpc, peerVars>>

ClosePeerDone(s) ==
    /\ cpc[s] = "wait"
    /\ \/ /\ peerDone[s] = "ok"
          /\ Goto(cpc, s, "finish")
          /\ UNCHANGED <<state, linkVars, result>>
       \/ /\ peerDone[s] = "failed" \/ "peer" \in Timers
          /\ closeFails(s)
    /\ UNCHANGED <<busy, kind, gpc, rpc, peerVars>>

\* A faulty variant: the transport is left to the peer.
CloseFinishesKeepsCarrier(s) ==
    /\ cpc[s] = "finish"
    /\ closeWriter(s) /\ setState(s, "closed") /\ closeReturns(s, "ok")
    /\ UNCHANGED <<busy, wire, carrier, kind, gpc, rpc, peerVars>>

\* Closing a transport a second time may be an error.
CloseFinishes(s) ==
    /\ cpc[s] = "finish"
    /\ \/ closeSucceeds(s)
       \/ /\ ~carrier[s]
          /\ closeWriter(s) /\ t_Close(s)
          /\ setState(s, "failed") /\ closeReturns(s, "error")
    /\ UNCHANGED <<busy, kind, gpc, rpc, peerVars>>

-----------------------------------------------------------------------------
(* SendGoAway. *)
SendGoAway(s, k) ==
    /\ Idle(s)
    /\ setState(s, Target(k))
    /\ Goto(gpc, s, k)
    /\ UNCHANGED <<busy, linkVars, cpc, kind, result, rpc, peerVars>>

GoAwaySends(s) ==
    /\ gpc[s] \in {"goaway", "goawayDrain"}
    /\ sendAndWait(s, gpc[s], "goaway")
    /\ Goto(gpc, s, "sending")
    /\ UNCHANGED <<state, busy, wire, carrier, cpc, kind, result, rpc, peerVars>>

GoAwaySent(s) ==
    /\ gpc[s] = "sending"
    /\ \/ Waited(s, "goaway", TRUE) /\ UNCHANGED state
       \/ Waited(s, "goaway", FALSE) /\ setState(s, "failed")
    /\ Goto(gpc, s, "done")
    /\ UNCHANGED <<busy, linkVars, cpc, kind, result, rpc, peerVars>>

-----------------------------------------------------------------------------
(* Run: one frame at a time, until a frame or the transport fails. *)

\* ensureIncomingState
Allowed(s, f) ==
    \/ f \in {"close", "closeDrain"}
    \/ f = "closeAck" /\ state[s] \in {"closing", "draining", "closed"}
    \/ state[s] = "established"
    \/ f \in {"transfer", "error"} /\ state[s] = "draining"

\* A faulty variant: a closed session takes part in the peer's close again.
beginPeerCloseAlways(s, target) ==
    /\ collision' = Set(collision, s, state[s] \in {"closing", "draining"})
    /\ state' = IF state[s] = "closing" THEN state ELSE Set(state, s, target)

beginPeerClose(s, target) ==
    /\ collision' = Set(collision, s, state[s] \in {"closing", "draining"})
    /\ state' = IF state[s] \in {"closing", "closed"} THEN state ELSE Set(state, s, target)

HandleClose(s, f) ==
    \/ seen[s] /\ UNCHANGED <<state, busy, peerVars>>
    \/ /\ ~seen[s]
       /\ seen' = Set(seen, s, TRUE)
       /\ IF f = "closeDrain"
          THEN beginPeerClose(s, "draining") /\ Goto(ppc, s, "drain") /\ UNCHANGED busy
          ELSE /\ beginPeerClose(s, "closing") /\ Goto(ppc, s, "send")
               /\ busy' = Set(busy, s, FALSE)
       /\ UNCHANGED <<closeAck, peerDone>>

HandleCloseAck(s) ==
    /\ closeAck' = Set(closeAck, s, TRUE)
    /\ UNCHANGED <<state, busy, ppc, collision, seen, peerDone>>

\* Read, and the check for a session closed meanwhile.
ReadFrame(s) ==
    LET t == Other(s)
    IN  /\ rpc[s] = "read" /\ carrier[s] /\ wire[t] # <<>>
        /\ wire' = Set(wire, t, Tail(wire[t]))
        /\ Goto(rpc, s, IF state[s] = "closed" THEN "clean" ELSE Head(wire[t]))
        /\ UNCHANGED <<state, busy, writer, queued, sent, carrier, closeVars, peerVars>>

\* HandleFrame; GoAway stores its state in a step of its own.
HandleFrame(s) ==
    /\ rpc[s] \in Frames
    /\ LET f == rpc[s]
       IN  \/ /\ ~Allowed(s, f)
              /\ sendAndWait(s, "error", "none")
              /\ Goto(rpc, s, "failing")
              /\ UNCHANGED <<state, busy, peerVars>>
           \/ /\ Allowed(s, f)
              /\ \/ f \in {"close", "closeDrain"} /\ HandleClose(s, f)
                 \/ f = "closeAck" /\ HandleCloseAck(s)
                 \/ f \notin {"close", "closeDrain", "closeAck"} /\ UNCHANGED <<state, busy, peerVars>>
              /\ Goto(rpc, s, IF f = "goaway" THEN "closing"
                              ELSE IF f = "goawayDrain" THEN "draining"
                              ELSE IF state'[s] = "closed" THEN "clean" ELSE "read")
              /\ UNCHANGED <<writer, queued, sent>>
    /\ UNCHANGED <<wire, carrier, closeVars>>

\* handleIncomingGoAway; without drain it ends the incoming transfers only.
HandleGoAway(s) ==
    /\ rpc[s] \in {"closing", "draining"}
    /\ setState(s, rpc[s])
    /\ \E b \in IF rpc[s] = "closing" THEN {FALSE, busy[s]} ELSE {busy[s]} : busy' = Set(busy, s, b)
    /\ Goto(rpc, s, "read")
    /\ UNCHANGED <<linkVars, closeVars, peerVars>>

HandleFails(s) ==
    /\ rpc[s] = "failing"
    /\ busy' = Set(busy, s, FALSE)
    /\ closeWriter(s) /\ setState(s, "failed") /\ t_Close(s)
    /\ Goto(rpc, s, "broken")
    /\ UNCHANGED <<closeVars, peerVars>>

\* The transport is closed here, or by the peer and all it sent is read.
ReadFails(s) ==
    /\ rpc[s] = "read"
    /\ ~carrier[s] \/ (~carrier[Other(s)] /\ wire[Other(s)] = <<>>)
    /\ Goto(rpc, s, IF state[s] \in {"closed", "closing"} THEN "clean" ELSE "cleanup")
    /\ UNCHANGED <<state, busy, linkVars, closeVars, peerVars>>

ReadCleanup(s) ==
    /\ rpc[s] = "cleanup"
    /\ busy' = Set(busy, s, FALSE)
    /\ closeWriter(s)
    /\ Goto(rpc, s, IF state[s] = "closed" THEN "broken" ELSE "mark")
    /\ UNCHANGED <<state, wire, carrier, closeVars, peerVars>>

ReadMarksFailed(s) ==
    /\ rpc[s] = "mark"
    /\ setState(s, "failed")
    /\ Goto(rpc, s, "broken")
    /\ UNCHANGED <<busy, linkVars, closeVars, peerVars>>

-----------------------------------------------------------------------------
(* finishPeerClose, and finishPeerDrain, which first waits for transfers. *)
PeerSendsAck(s) ==
    /\ ppc[s] = "send" \/ (ppc[s] = "drain" /\ (Drained(s) \/ "drain" \in Timers))
    /\ sendAndWait(s, "closeAck", "peer")
    /\ Goto(ppc, s, "sending")
    /\ UNCHANGED <<state, busy, wire, carrier, closeVars, rpc, collision, seen, closeAck, peerDone>>

\* A faulty variant: a session that answered is left to its own CloseWith.
PeerAckSentAlwaysDone(s) ==
    /\ ppc[s] = "sending"
    /\ \/ Waited(s, "peer", TRUE) /\ peerDone' = Set(peerDone, s, "ok")
       \/ Waited(s, "peer", FALSE) /\ peerDone' = Set(peerDone, s, "failed")
    /\ Goto(ppc, s, "done")
    /\ UNCHANGED <<state, busy, linkVars, closeVars, rpc, collision, seen, closeAck>>

PeerAckSent(s) ==
    /\ ppc[s] = "sending"
    /\ \/ /\ Waited(s, "peer", TRUE)
          /\ peerDone' = Set(peerDone, s, "ok")
          /\ Goto(ppc, s, IF collision[s] THEN "done" ELSE "finish")
       \/ /\ Waited(s, "peer", FALSE)
          /\ peerDone' = Set(peerDone, s, "failed")
          /\ Goto(ppc, s, "fail")
    /\ UNCHANGED <<state, busy, linkVars, closeVars, rpc, collision, seen, closeAck>>

PeerCloseFails(s) ==
    /\ ppc[s] = "fail"
    /\ setState(s, "failed") /\ t_Close(s)
    /\ Goto(ppc, s, "done")
    /\ UNCHANGED <<busy, writer, queued, sent, closeVars, rpc, collision, seen, closeAck, peerDone>>

PeerCloseFinishes(s) ==
    /\ ppc[s] = "finish"
    /\ closeWriter(s) /\ t_Close(s) /\ setState(s, "closed")
    /\ busy' = Set(busy, s, FALSE)
    /\ Goto(ppc, s, "done")
    /\ UNCHANGED <<closeVars, rpc, collision, seen, closeAck, peerDone>>

-----------------------------------------------------------------------------
(* Transfers, reduced to being active and having a data or control frame    *)
(* under way.  cleanupIncoming and failOutgoing together end them; those    *)
(* that failOutgoing alone fails end in steps of their own.                 *)
TransferFrame(s) ==
    /\ busy[s] /\ writer[s] = "open" /\ carrier[s] /\ carrier[Other(s)]
    /\ \A n \in DOMAIN wire[s] : wire[s][n] # "transfer"
    /\ wire' = Set(wire, s, Append(wire[s], "transfer"))
    /\ UNCHANGED <<state, busy, writer, queued, sent, carrier, closeVars, rpc, peerVars>>

TransferEnds(s) ==
    /\ busy[s]
    /\ busy' = Set(busy, s, FALSE)
    /\ UNCHANGED <<state, linkVars, closeVars, rpc, peerVars>>

-----------------------------------------------------------------------------
Writer(s) == WriterSends(s) \/ WriterFails(s)

Closer(s) ==
    \/ CloseBegins(s) \/ CloseSends(s) \/ CloseSent(s) \/ CloseUnsent(s)
    \/ CloseAcked(s) \/ CloseAckTimeout(s) \/ ClosePeer(s) \/ ClosePeerDone(s) \/ CloseFinishes(s)

GoAway(s) == GoAwaySends(s) \/ GoAwaySent(s)

Run(s) ==
    \/ ReadFrame(s) \/ HandleFrame(s) \/ HandleGoAway(s) \/ HandleFails(s)
    \/ ReadFails(s) \/ ReadCleanup(s) \/ ReadMarksFailed(s)

Answer(s) ==
    \/ PeerSendsAck(s) \/ PeerAckSent(s)
    \/ PeerCloseFails(s) \/ PeerCloseFinishes(s)

Next ==
    \E s \in Peers :
        \/ \E k \in Calls[s] \cap {"immediate", "drain"} : CloseWith(s, k)
        \/ \E k \in Calls[s] \cap {"goaway", "goawayDrain"} : SendGoAway(s, k)
        \/ Writer(s) \/ Closer(s) \/ GoAway(s) \/ Run(s) \/ Answer(s)
        \/ TransferFrame(s) \/ TransferEnds(s)

Spec == Init /\ [][Next]_vars

(* Goroutines that can run do, and so do timers; nothing is said about the  *)
(* calls of the application, nor about a transfer ever ending.              *)
Fairness ==
    \A s \in Peers : /\ WF_vars(Writer(s)) /\ WF_vars(Closer(s) \/ GoAway(s))
                     /\ WF_vars(Run(s)) /\ WF_vars(Answer(s))

FairSpec == Spec /\ Fairness

-----------------------------------------------------------------------------
Terminal == {"closed", "failed"}

Ended == {"clean", "broken"}

TypeOK ==
    /\ state \in [Peers -> {"established", "draining", "closing"} \cup Terminal]
    /\ busy \in [Peers -> BOOLEAN]
    /\ writer \in [Peers -> {"open", "control", "closed"}]
    /\ \A s \in Peers : /\ \A n \in DOMAIN queued[s] : /\ queued[s][n].frame \in Frames
                                                       /\ queued[s][n].by \in Callers \cup {"none"}
                        /\ writer[s] = "closed" => queued[s] = <<>>
    /\ sent \in [Peers -> [Callers -> {"none", "ok", "failed"}]]
    /\ wire \in [Peers -> Seq(Frames)]
    /\ carrier \in [Peers -> BOOLEAN]
    /\ cpc \in [Peers -> {"idle", "begin", "send", "sending", "unsent", "ack", "peer",
                          "wait", "finish", "done"}]
    /\ kind \in [Peers -> {"none", "immediate", "drain"}]
    /\ result \in [Peers -> {"none", "noop", "ok", "error"}]
    /\ gpc \in [Peers -> {"idle", "goaway", "goawayDrain", "sending", "done"}]
    /\ rpc \in [Peers -> {"read", "closing", "draining", "failing", "cleanup", "mark"}
                          \cup Frames \cup Ended]
    /\ ppc \in [Peers -> {"idle", "drain", "send", "sending", "fail", "finish", "done"}]
    /\ collision \in [Peers -> BOOLEAN]
    /\ seen \in [Peers -> BOOLEAN]
    /\ closeAck \in [Peers -> BOOLEAN]
    /\ peerDone \in [Peers -> {"none", "ok", "failed"}]

(* A CloseWith that carried out a close and returned nil closed nothing     *)
(* behind the peer's back: a CloseAck was written by one side or the other. *)
OkMeansAcked ==
    \A s \in Peers : result[s] = "ok" => \E t \in Peers : sent[t]["peer"] = "ok"

(* beginLocalClose and beginPeerClose never bring a closed session back:    *)
(* only a failure, or a GoAway that is sent or received, replaces Closed.   *)
ClosedStaysClosed ==
    [][\A s \in Peers :
          state[s] = "closed" /\ state'[s] # "closed" =>
              \/ state'[s] = "failed"
              \/ gpc[s] # gpc'[s]
              \/ rpc[s] \in {"closing", "draining"}]_vars

(* CloseWith never hangs, whatever the peer does, fails to do or does at    *)
(* the same time.                                                           *)
CloseReturns == \A s \in Peers : cpc[s] # "idle" ~> cpc[s] = "done"

(* A session whose CloseWith was called comes to rest as Closed or Failed,  *)
(* unless the peer sends a GoAway.                                          *)
CloseSettles ==
    \A s \in Peers : <>[](cpc[s] = "idle" \/ state[s] \in Terminal \/ gpc[Other(s)] # "idle")

(* A session that is Closed stops the Run loops of both sides, whichever of *)
(* CloseWith and the answer to the peer's Close was left to end it.         *)
RunsEnd == (\E s \in Peers : state[s] = "closed") ~> (\A s \in Peers : rpc[s] \in Ended)

(* RFC section 25: simultaneous close is valid, and both endpoints converge *)
(* on Closed.  A session whose CloseWith, Run and answer to the peer's      *)
(* Close are over is Closed, no timeout having expired.                     *)
CloseConverges ==
    \A s \in Peers : cpc[s] = "done" /\ rpc[s] \in Ended /\ ppc[s] \in {"idle", "done"}
                        => state[s] = "closed"

(* RFC section 25: close completes once CloseAck was exchanged.  A session  *)
(* whose CloseWith returned nil is Closed, or failed, in the end.           *)
NilMeansClosing ==
    \A s \in Peers : result[s] \in {"ok", "noop"} ~> state[s] \in Terminal
=============================================================================
