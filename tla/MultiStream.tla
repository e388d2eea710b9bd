----------------------------- MODULE MultiStream -----------------------------
(***************************************************************************)
(* The two ends of a multistream transport and one channel between them    *)
(* (src/internal/etp/multistream_transport.go).  Either end may open a     *)
(* stream for the channel: senders look the channel up, open a stream when *)
(* there is none and install it; the accept loop reads the preface of a    *)
(* stream that the peer opened and installs that; a read loop per stream   *)
(* takes frames to the queue that the session reads; Close ends them all.  *)
(*                                                                         *)
(* The streams are external and behave as those of QUIC and WebTransport:  *)
(* reliable and ordered each, not ordered among each other; Close ends the *)
(* sending direction only and interrupts no read.  The adapter closes the  *)
(* connection once Close has returned; an idle one ends by itself.         *)
(***************************************************************************)
EXTENDS Integers, Sequences, FiniteSets

CONSTANTS
    Senders,        \* the goroutines that may send, [end -> set of goroutines]
    Teams,          \* those that do, in one run: a set of sets of goroutines
    MaxStreams,     \* how many streams the connection ever has
    MaxFrames,      \* how many frames an end has sent when it starts no more
    ReadQueue,      \* capacity of the queue of leases
    PrefaceLimit    \* streams whose preface may be awaited

Ends == DOMAIN Senders
Peer(e) == CHOOSE p \in Ends : p # e
Threads == UNION {Senders[e] : e \in Ends}
Owner(t) == CHOOSE e \in Ends : t \in Senders[e]
Streams == 1 .. MaxStreams
None == 0

VARIABLES
    opener,     \* who opened each stream; None when it does not exist yet
    flow,       \* flow[e][i]: frames e has written to stream i, unread
    fin,        \* fin[e]: the streams whose sending direction e has closed
    incoming,   \* t.incoming[channel] of each end
    outgoing,   \* t.outgoing[channel] of each end
    openMu,     \* the sender holding t.openMu[channel] of each end
    up,         \* the connection is alive
    arrived,    \* streams opened by the peer, not accepted yet
    pending,    \* pending[e][i]: where acceptStream is with stream i
    reader,     \* reader[e][i]: where the read loop of stream i is
    lease,      \* lease[e][i]: the frame that it holds
    reads,      \* t.reads
    errs,       \* t.errs holds an error
    phase,      \* "open", "closing" while Close waits, "closed"
    spc,        \* where each sender is
    on,         \* the stream it opened or was given
    sent        \* how many frames each end has written

connection == <<opener, flow, fin, up, arrived>>
vars == <<connection, incoming, outgoing, openMu, pending, reader, lease, reads,
          errs, phase, spc, on, sent>>

Init ==
    /\ opener = [i \in Streams |-> None]
    /\ flow = [e \in Ends |-> [i \in Streams |-> <<>>]]
    /\ fin = [e \in Ends |-> {}]
    /\ incoming = [e \in Ends |-> None] /\ outgoing = [e \in Ends |-> None]
    /\ openMu = [e \in Ends |-> None]
    /\ up = TRUE /\ arrived = [e \in Ends |-> <<>>]
    /\ pending = [e \in Ends |-> [i \in Streams |-> "none"]]
    /\ reader = [e \in Ends |-> [i \in Streams |-> "none"]]
    /\ lease = [e \in Ends |-> [i \in Streams |-> 0]]
    /\ reads = [e \in Ends |-> <<>>] /\ errs = [e \in Ends |-> FALSE]
    /\ phase = [e \in Ends |-> "open"]
    /\ \E team \in Teams :
          spc = [t \in Threads |-> IF t \in team THEN "idle" ELSE "absent"]
    /\ on = [t \in Threads |-> None]
    /\ sent = [e \in Ends |-> 0]

-----------------------------------------------------------------------------
(* Sending: SendFrameOnChannel and streamForChannel. *)

\* The stream that a sender of e is given, if there is one.
Existing(e) == IF incoming[e] # None THEN incoming[e] ELSE outgoing[e]

Go(t, pc, i) == spc' = [spc EXCEPT ![t] = pc] /\ on' = [on EXCEPT ![t] = i]

\* Faulty: a sender that finds no stream opens one without taking t.openMu.
LookUnlocked(t) ==
    LET e == Owner(t) IN
    /\ spc[t] = "idle" /\ sent[e] < MaxFrames
    /\ \/ phase[e] # "open" /\ Go(t, "failed", None)
       \/ phase[e] = "open" /\ Existing(e) # None /\ Go(t, "write", Existing(e))
       \/ phase[e] = "open" /\ Existing(e) = None /\ Go(t, "open", None)
    /\ UNCHANGED <<connection, incoming, outgoing, openMu, pending, reader, lease,
                   reads, errs, phase, sent>>

\* The looks under t.mu before and after t.openMu is taken: a sender that finds no
\* stream the first time goes on only when it finds none the second time.
Look(t) ==
    LET e == Owner(t) IN
    /\ spc[t] = "idle" /\ sent[e] < MaxFrames
    /\ \/ phase[e] # "open" /\ Go(t, "failed", None) /\ UNCHANGED openMu
       \/ /\ phase[e] = "open" /\ Existing(e) # None
          /\ Go(t, "write", Existing(e)) /\ UNCHANGED openMu
       \/ /\ phase[e] = "open" /\ Existing(e) = None /\ openMu[e] = None
          /\ Go(t, "open", None) /\ openMu' = [openMu EXCEPT ![e] = t]
    /\ UNCHANGED <<connection, incoming, outgoing, pending, reader, lease, reads,
                   errs, phase, sent>>

\* t.open and writeStreamPreface; t.open fails once the context is cancelled
\* or the connection has ended.  Streams are numbered as they are opened.
Open(t) ==
    LET e == Owner(t) IN
    /\ spc[t] = "open"
    /\ \/ /\ up
          /\ \E i \in Streams :
                /\ opener[i] = None /\ \A k \in 1 .. i - 1 : opener[k] # None
                /\ opener' = [opener EXCEPT ![i] = e]
                /\ arrived' = [arrived EXCEPT ![Peer(e)] = Append(@, i)]
                /\ Go(t, "install", i)
          /\ UNCHANGED <<flow, fin, up, openMu>>
       \/ /\ phase[e] # "open" \/ ~up
          /\ Go(t, "failed", None) /\ openMu' = [openMu EXCEPT ![e] = None]
          /\ UNCHANGED connection
    /\ UNCHANGED <<incoming, outgoing, pending, reader, lease, reads, errs, phase,
                   sent>>

CloseStream(e, i) == fin' = [fin EXCEPT ![e] = @ \cup {i}]

\* The third look: the stream is installed, or closed in favour of another.
Install(t) ==
    LET e == Owner(t) IN
    /\ spc[t] = "install"
    /\ \/ /\ phase[e] # "open"
          /\ CloseStream(e, on[t]) /\ Go(t, "failed", None)
          /\ openMu' = [openMu EXCEPT ![e] = None]
          /\ UNCHANGED outgoing
       \/ /\ phase[e] = "open" /\ Existing(e) # None
          /\ CloseStream(e, on[t]) /\ Go(t, "write", Existing(e))
          /\ openMu' = [openMu EXCEPT ![e] = None]
          /\ UNCHANGED outgoing
       \/ /\ phase[e] = "open" /\ Existing(e) = None
          /\ outgoing' = [outgoing EXCEPT ![e] = on[t]]
          /\ Go(t, "start", on[t])
          /\ UNCHANGED <<fin, openMu>>
    /\ UNCHANGED <<opener, flow, up, arrived, incoming, pending, reader, lease, reads,
                   errs, phase, sent>>

\* startReadLoop, for the stream that a sender installed.
StartSenders(t) ==
    LET e == Owner(t) IN
    /\ spc[t] = "start"
    /\ openMu' = [openMu EXCEPT ![e] = None]
    /\ Go(t, "write", on[t])
    /\ \/ phase[e] # "open" /\ CloseStream(e, on[t]) /\ UNCHANGED reader
       \/ /\ phase[e] = "open" /\ reader' = [reader EXCEPT ![e][on[t]] = "read"]
          /\ UNCHANGED fin
    /\ UNCHANGED <<opener, flow, up, arrived, incoming, outgoing, pending, lease, reads,
                   errs, phase, sent>>

\* StreamTransport.SendFrame: it fails on a stream that this end has closed; the
\* frames of an end are numbered in the order in which they are written.
Write(t) ==
    LET e == Owner(t) IN
    /\ spc[t] = "write"
    /\ \/ /\ up /\ on[t] \notin fin[e]
          /\ flow' = [flow EXCEPT ![e][on[t]] = Append(@, sent[e] + 1)]
          /\ sent' = [sent EXCEPT ![e] = @ + 1]
          /\ Go(t, "idle", None)
       \/ /\ on[t] \in fin[e] \/ ~up
          /\ Go(t, "failed", None)
          /\ UNCHANGED <<flow, sent>>
    /\ UNCHANGED <<opener, fin, up, arrived, incoming, outgoing, openMu, pending, reader,
                   lease, reads, errs, phase>>

-----------------------------------------------------------------------------
(* Accepting: acceptLoop and acceptStream. *)

Awaited(e) == {i \in Streams : pending[e][i] \in {"preface", "start"}}

\* acceptLoop takes a stream.  Once the transport is closed it closes the stream
\* that it had taken by then and returns: the others are never accepted.
Accept(e) ==
    /\ arrived[e] # <<>> /\ Cardinality(Awaited(e)) < PrefaceLimit
    /\ \/ /\ phase[e] = "open" /\ up
          /\ pending' = [pending EXCEPT ![e][Head(arrived[e])] = "preface"]
          /\ arrived' = [arrived EXCEPT ![e] = Tail(@)]
          /\ UNCHANGED <<fin, errs>>
       \/ /\ phase[e] # "open"
          /\ CloseStream(e, Head(arrived[e]))
          /\ arrived' = [arrived EXCEPT ![e] = <<>>]
          /\ UNCHANGED <<pending, errs>>
       \/ /\ phase[e] = "open" /\ ~up
          /\ errs' = [errs EXCEPT ![e] = TRUE]
          /\ arrived' = [arrived EXCEPT ![e] = <<>>]
          /\ UNCHANGED <<fin, pending>>
    /\ UNCHANGED <<opener, flow, up, incoming, outgoing, openMu, reader, lease, reads,
                   phase, spc, on, sent>>

\* acceptStream: the preface, which the opener has written, is lost with the
\* connection; a second incoming stream of the channel is an error.
AcceptStream(e, i) ==
    /\ pending[e][i] = "preface"
    /\ \/ /\ ~up
          /\ CloseStream(e, i) /\ pending' = [pending EXCEPT ![e][i] = "done"]
          /\ errs' = [errs EXCEPT ![e] = TRUE] /\ UNCHANGED incoming
       \/ /\ phase[e] # "open"
          /\ CloseStream(e, i) /\ pending' = [pending EXCEPT ![e][i] = "done"]
          /\ UNCHANGED <<incoming, errs>>
       \/ /\ phase[e] = "open" /\ incoming[e] # None
          /\ CloseStream(e, i) /\ pending' = [pending EXCEPT ![e][i] = "done"]
          /\ errs' = [errs EXCEPT ![e] = TRUE] /\ UNCHANGED incoming
       \/ /\ phase[e] = "open" /\ incoming[e] = None
          /\ incoming' = [incoming EXCEPT ![e] = i]
          /\ pending' = [pending EXCEPT ![e][i] = "start"]
          /\ UNCHANGED <<fin, errs>>
    /\ UNCHANGED <<opener, flow, up, arrived, outgoing, openMu, reader, lease, reads,
                   phase, spc, on, sent>>

\* startReadLoop, for the stream that acceptStream installed.
StartAccepted(e, i) ==
    /\ pending[e][i] = "start"
    /\ pending' = [pending EXCEPT ![e][i] = "done"]
    /\ \/ phase[e] # "open" /\ CloseStream(e, i) /\ UNCHANGED reader
       \/ /\ phase[e] = "open" /\ reader' = [reader EXCEPT ![e][i] = "read"]
          /\ UNCHANGED fin
    /\ UNCHANGED <<opener, flow, up, arrived, incoming, outgoing, openMu, lease, reads,
                   errs, phase, spc, on, sent>>

-----------------------------------------------------------------------------
(* Reading: readLoop and ReadFrameLease. *)

Forget(map, e, i) == IF map[e] = i THEN [map EXCEPT ![e] = None] ELSE map

\* The read loop returns and removes its stream.
removeStream(e, i) ==
    /\ incoming' = Forget(incoming, e, i) /\ outgoing' = Forget(outgoing, e, i)
    /\ CloseStream(e, i)
    /\ reader' = [reader EXCEPT ![e][i] = "done"]

\* The read loop takes a frame, or meets the end of the stream or an error.
ReadStream(e, i) ==
    LET from == flow[Peer(e)][i] IN
    /\ reader[e][i] = "read"
    /\ \/ /\ from # <<>>
          /\ flow' = [flow EXCEPT ![Peer(e)][i] = Tail(@)]
          /\ lease' = [lease EXCEPT ![e][i] = Head(from)]
          /\ reader' = [reader EXCEPT ![e][i] = "hold"]
          /\ UNCHANGED <<fin, incoming, outgoing, errs>>
       \/ /\ from = <<>> /\ i \in fin[Peer(e)]
          /\ removeStream(e, i)
          /\ UNCHANGED <<flow, lease, errs>>
       \/ /\ ~up
          /\ removeStream(e, i) /\ errs' = [errs EXCEPT ![e] = TRUE]
          /\ UNCHANGED <<flow, lease>>
    /\ UNCHANGED <<opener, up, arrived, openMu, pending, reads, phase, spc, on, sent>>

\* Faulty: the read loop waits for room in the queue only.
QueueOnly(e, i) ==
    /\ reader[e][i] = "hold" /\ Len(reads[e]) < ReadQueue
    /\ reads' = [reads EXCEPT ![e] = Append(@, lease[e][i])]
    /\ reader' = [reader EXCEPT ![e][i] = "read"]
    /\ lease' = [lease EXCEPT ![e][i] = 0]
    /\ UNCHANGED <<connection, incoming, outgoing, openMu, pending, errs, phase, spc,
                   on, sent>>

\* It queues the lease, or releases it once the transport is closed.
QueueLease(e, i) ==
    /\ reader[e][i] = "hold"
    /\ lease' = [lease EXCEPT ![e][i] = 0]
    /\ \/ /\ Len(reads[e]) < ReadQueue
          /\ reads' = [reads EXCEPT ![e] = Append(@, lease[e][i])]
          /\ reader' = [reader EXCEPT ![e][i] = "read"]
          /\ UNCHANGED <<fin, incoming, outgoing>>
       \/ /\ phase[e] # "open"
          /\ removeStream(e, i)
          /\ UNCHANGED reads
    /\ UNCHANGED <<opener, flow, up, arrived, openMu, pending, errs, phase, spc, on,
                   sent>>

\* The session takes a frame from the queue.
ReadFrameLease(e) ==
    /\ reads[e] # <<>> /\ phase[e] # "closed"
    /\ reads' = [reads EXCEPT ![e] = Tail(@)]
    /\ UNCHANGED <<connection, incoming, outgoing, openMu, pending, reader, lease,
                   errs, phase, spc, on, sent>>

-----------------------------------------------------------------------------
(* Closing. *)

\* Close cancels the context and closes the streams it finds in the tables.  The
\* application may call it at any time; a session that meets an error does.
Close(e) ==
    /\ phase[e] = "open"
    /\ phase' = [phase EXCEPT ![e] = "closing"]
    /\ fin' = [fin EXCEPT ![e] = @ \cup Awaited(e)
                                   \cup ({incoming[e], outgoing[e]} \ {None})]
    /\ UNCHANGED <<opener, flow, up, arrived, incoming, outgoing, openMu, pending, reader,
                   lease, reads, errs, spc, on, sent>>

Reading(e) == {i \in Streams : reader[e][i] \in {"read", "hold"}}

\* Faulty: it does not wait for the read loops.
CloseEarly(e) ==
    /\ phase[e] = "closing" /\ Awaited(e) = {}
    /\ phase' = [phase EXCEPT ![e] = "closed"]
    /\ reads' = [reads EXCEPT ![e] = <<>>]
    /\ UNCHANGED <<connection, incoming, outgoing, openMu, pending, reader, lease,
                   errs, spc, on, sent>>

\* It waits for acceptStream and the read loops, then releases what is queued.
CloseReturns(e) ==
    /\ phase[e] = "closing" /\ Awaited(e) = {} /\ Reading(e) = {}
    /\ phase' = [phase EXCEPT ![e] = "closed"]
    /\ reads' = [reads EXCEPT ![e] = <<>>]
    /\ UNCHANGED <<connection, incoming, outgoing, openMu, pending, reader, lease,
                   errs, spc, on, sent>>

\* The adapter closes the connection after Close; it may also just end.
ConnectionEnds ==
    /\ up /\ up' = FALSE
    /\ UNCHANGED <<opener, flow, fin, arrived, incoming, outgoing, openMu, pending,
                   reader, lease, reads, errs, phase, spc, on, sent>>

-----------------------------------------------------------------------------
Sending(t) ==
    \/ Look(t) \/ Open(t) \/ Install(t) \/ StartSenders(t) \/ Write(t)

\* acceptStream and then the read loop of one stream.
Serving(e, i) ==
    AcceptStream(e, i) \/ StartAccepted(e, i) \/ ReadStream(e, i) \/ QueueLease(e, i)

Next ==
    \/ \E t \in Threads : Sending(t)
    \/ \E e \in Ends, i \in Streams : Serving(e, i)
    \/ \E e \in Ends :
          Accept(e) \/ ReadFrameLease(e) \/ Close(e) \/ CloseReturns(e)
    \/ ConnectionEnds

Spec == Init /\ [][Next]_vars

\* The goroutines that Close waits for run, and so does Close; nobody has to send
\* or to read the queue.  In the executions that liveness is about both ends call
\* Close at some time, and the connection ends at last: the peer's adapter closes
\* it, or its idle timeout does.  The steps are bounded in number, so that one
\* fairness condition does for all.
Progress ==
    \/ ConnectionEnds /\ \E e \in Ends : phase[e] # "open"
    \/ \E e \in Ends :
          Close(e) \/ CloseReturns(e) \/ \E i \in Streams : Serving(e, i)

FairSpec == Spec /\ WF_vars(Progress)

-----------------------------------------------------------------------------
\* The types of the state
TypeOK ==
    /\ opener \in [Streams -> Ends \cup {None}]
    /\ \A e \in Ends :
          /\ fin[e] \subseteq Streams /\ {incoming[e], outgoing[e]} \subseteq Streams \cup {None}
          /\ pending[e] \in [Streams -> {"none", "preface", "start", "done"}]
          /\ reader[e] \in [Streams -> {"none", "read", "hold", "done"}]
          /\ Len(reads[e]) <= ReadQueue /\ phase[e] \in {"open", "closing", "closed"}
          /\ openMu[e] \in Senders[e] \cup {None}
    /\ \A t \in Threads :
          spc[t] \in {"absent", "idle", "open", "install", "start", "write", "failed"}

\* After Close nothing of the transport is left: no lease in the queue or in the
\* hands of a read loop (leases go back to their pool), no goroutine of acceptStream
\* or readLoop, and no stream that it opened or accepted with its sending direction
\* still open, but the one a sender is just about to close.
CloseLeavesNothing ==
    \A e \in Ends : phase[e] = "closed" =>
        /\ reads[e] = <<>> /\ Reading(e) = {} /\ Awaited(e) = {}
        /\ \A i \in Streams :
              opener[i] = e \/ pending[e][i] = "done" =>
                  \/ i \in fin[e]
                  \/ \E t \in Senders[e] : spc[t] \in {"install", "start"} /\ on[t] = i

\* End e gave the stream that it had opened up for its peer's: the third look of
\* streamForChannel closed it, and no read loop of e ever ran on it.
Yielded(e) ==
    \E i \in Streams : opener[i] = e /\ i \in fin[e] /\ reader[e][i] = "none"

\* While both ends are open and the connection lives, a write fails only when one end
\* gave its stream up for the peer's: the peer may have been about to write to the
\* one given up.  A session is told of an error, a duplicate that acceptStream meets,
\* only when each end gave its stream up for the other's: either then opens another
\* one, maybe before the peer has read the end of the first.
ErrorsOnlyAfterYield ==
    up /\ (\A e \in Ends : phase[e] = "open") =>
        /\ (\E e \in Ends : errs[e]) => \A e \in Ends : Yielded(e)
        /\ (\E t \in Threads : spc[t] = "failed") => \E e \in Ends : Yielded(e)

AllClosed == \A e \in Ends : phase[e] = "closed"

\* Close, once called, returns: no read loop is left waiting for room in a queue
\* that nobody reads, and no preface is awaited for ever.
CloseFinishes == <>AllClosed

=============================================================================
