-------------------------- MODULE MultiStreamProofs --------------------------
(***************************************************************************)
(* Proofs about MultiStream: that a transport that has been closed leaves  *)
(* nothing behind, and that two open sessions on a live connection meet an *)
(* error only after the ends have yielded streams to each other.           *)
(*                                                                         *)
(* An action is a step of one end.  What has to hold of an end is stated   *)
(* for that end alone (SoundAt, OrderlyAt), and per sender and per stream  *)
(* within it; StepKeeps turns what a step shows for its own end into the   *)
(* invariant.  Hardly a leaf needs arithmetic, so most name Zenon.         *)
(***************************************************************************)
EXTENDS MultiStream, TLAPS

\* What the theorems assume of the constants: a session has two ends, each with
\* senders of its own, and None is neither an end nor a sender.
Setting ==
    /\ \E a, b \in Ends : a # b /\ Ends = {a, b}
    /\ \A e, f \in Ends : e # f => Senders[e] \cap Senders[f] = {}
    /\ None \notin Ends /\ None \notin Threads
    /\ MaxStreams \in Nat /\ ReadQueue \in Nat

\* Frames, in the order in which they are read.
Frames == Seq(Nat)

\* Streams, in the order of their arrival.
Arrivals == Seq(Streams)

\* The types of the variables, with the bound of the read queue and with openMu held
\* by a sender of its own end only.
Types ==
    /\ opener \in [Streams -> Ends \cup {None}]
    /\ flow \in [Ends -> [Streams -> Frames]]
    /\ fin \in [Ends -> SUBSET Streams]
    /\ incoming \in [Ends -> Streams \cup {None}]
    /\ outgoing \in [Ends -> Streams \cup {None}]
    /\ openMu \in [Ends -> Threads \cup {None}]
    /\ \A e \in Ends : openMu[e] \in Senders[e] \cup {None}
    /\ up \in BOOLEAN
    /\ arrived \in [Ends -> Arrivals]
    /\ pending \in [Ends -> [Streams -> {"none", "preface", "start", "done"}]]
    /\ reader \in [Ends -> [Streams -> {"none", "read", "hold", "done"}]]
    /\ lease \in [Ends -> [Streams -> Nat]]
    /\ reads \in [Ends -> Frames]
    /\ \A e \in Ends : Len(reads[e]) <= ReadQueue
    /\ errs \in [Ends -> BOOLEAN]
    /\ phase \in [Ends -> {"open", "closing", "closed"}]
    /\ spc \in [Threads -> {"absent", "idle", "open", "install", "start", "write",
                            "failed"}]
    /\ on \in [Threads -> Streams \cup {None}]
    /\ sent \in [Ends -> Nat]

\* What holds of a sender t of e: it is opening exactly when it holds openMu, it
\* writes to a stream, and the stream it is installing is its own, has no reader yet,
\* is open as long as the session is, and is in the outgoing slot once installed.
Held(e, t) ==
    /\ spc[t] \in {"open", "install", "start"} <=> openMu[e] = t
    /\ spc[t] = "write" => on[t] \in Streams
    /\ spc[t] \in {"install", "start"} =>
          /\ on[t] \in Streams /\ opener[on[t]] = e
          /\ reader[e][on[t]] = "none"
          /\ phase[e] = "open" => on[t] \notin fin[e]
    /\ spc[t] = "install" => outgoing[e] # on[t]
    /\ spc[t] = "start" => outgoing[e] = on[t]

\* What holds of a stream i at e: only streams of the peer await a preface, the slots
\* hold streams of the right origin, a stream is read only once it was opened here or
\* accepted, and the end of a stream can only be written once there is a stream.
Installed(e, i) ==
    /\ pending[e][i] # "none" => opener[i] = Peer(e)
    /\ pending[e][i] = "start" => incoming[e] = i /\ reader[e][i] = "none"
    /\ incoming[e] = i => pending[e][i] \in {"start", "done"}
    /\ outgoing[e] = i => opener[i] = e
    /\ reader[e][i] # "none" => opener[i] = e \/ pending[e][i] = "done"
    /\ i \in fin[e] => opener[i] # None

\* A sender of e has stream i in its hands, between openStream and the start of its
\* reader.
WithSender(e, i) == \E t \in Senders[e] : spc[t] \in {"install", "start"} /\ on[t] = i

\* No stream is lost to Close: one that e opened or accepted is closed on this side,
\* or in the hands of a sender that will meet the closed session, or in a slot that
\* Close visits.
Listed(e, i) ==
    opener[i] = e \/ pending[e][i] = "done" =>
        \/ i \in fin[e] \/ WithSender(e, i)
        \/ phase[e] = "open" /\ (incoming[e] = i \/ outgoing[e] = i)

\* Once Close has returned, nothing is queued, read or awaited.
EndedAt(e) ==
    phase[e] = "closed" =>
        /\ reads[e] = <<>>
        /\ \A i \in Streams : /\ reader[e][i] \in {"none", "done"}
                              /\ pending[e][i] \in {"none", "done"}

\* What holds of the transport at e at any time.
SoundAt(e) ==
    /\ \A t \in Senders[e] : Held(e, t)
    /\ \A i \in Streams : Installed(e, i) /\ Listed(e, i)
    /\ EndedAt(e)

\* The streams that wait in the connection's accept queue of e are distinct, of the
\* peer, and not yet taken up.
ArrivingAt(e) ==
    \A k \in 1 .. Len(arrived[e]) :
        /\ opener[arrived[e][k]] = Peer(e)
        /\ pending[e][arrived[e][k]] = "none"
        /\ \A l \in 1 .. Len(arrived[e]) : arrived[e][k] = arrived[e][l] => k = l

\* The connection is up and neither end has begun to close.
Calm == up /\ \A e \in Ends : phase[e] = "open"

\* Each end has given a stream it opened up in favour of the peer's.
BothYielded == \A e \in Ends : Yielded(e)

\* e has opened at most one stream, and a sender that is about to open is the first
\* to.
OpensOnce(e) ==
    /\ \A i, j \in Streams : opener[i] = e /\ opener[j] = e => i = j
    /\ \A t \in Senders[e] : spc[t] = "open" => \A i \in Streams : opener[i] # e

\* As long as not both ends have yielded, e closes a stream only when it yields it,
\* unread and with the peer's stream in use, or after the peer has closed it.
Given(e, i) ==
    i \in fin[e] =>
        /\ opener[i] = e => reader[e][i] = "none" /\ incoming[e] # None
        /\ opener[i] # e => i \in fin[Peer(e)]

\* What holds at e as long as nothing has ended and not both ends have yielded.
OrderlyAt(e) == ~errs[e] /\ OpensOnce(e) /\ \A i \in Streams : Given(e, i)

\* A sender fails on a quiet session only after an end has yielded.
Failing == Calm /\ (\E t \in Threads : spc[t] = "failed") => \E e \in Ends : Yielded(e)

\* Unless both ends have yielded, a quiet session is orderly at both ends.
Orderly == Calm /\ ~BothYielded => \A e \in Ends : OrderlyAt(e)

\* The inductive invariant.
IInv ==
    /\ Types
    /\ \A e \in Ends : SoundAt(e) /\ ArrivingAt(e)
    /\ Failing /\ Orderly

-----------------------------------------------------------------------------
\* The peer of an end is the other end.
LEMMA PeerFacts ==
    ASSUME Setting, NEW e \in Ends
    PROVE  /\ Peer(e) \in Ends /\ Peer(e) # e /\ Peer(Peer(e)) = e
           /\ \A f \in Ends : f = e \/ f = Peer(e)
<1>1. PICK a \in Ends, b \in Ends : a # b /\ Ends = {a, b}
  BY Zenon DEF Setting
<1>2. \A f \in Ends : Peer(f) \in Ends /\ Peer(f) # f
  BY <1>1, Zenon DEF Peer
<1> QED
  BY <1>1, <1>2, Zenon

\* A sender belongs to the one end it is a sender of.
LEMMA OwnerFacts ==
    ASSUME Setting, NEW e \in Ends, NEW t \in Senders[e]
    PROVE  Owner(t) = e /\ t \in Threads /\ t # None
<1>1. \A f \in Ends : t \in Senders[f] => f = e
  BY Zenon DEF Setting
<1>2. Owner(t) = e
  BY <1>1, Zenon DEF Owner
<1>3. t \in Threads
  BY Zenon DEF Threads
<1> QED
  BY <1>2, <1>3, Zenon DEF Setting

\* A step of the other end leaves the transport at f alone.
Untouched(f) ==
    /\ fin'[f] = fin[f] /\ incoming'[f] = incoming[f] /\ outgoing'[f] = outgoing[f]
    /\ openMu'[f] = openMu[f] /\ pending'[f] = pending[f] /\ reader'[f] = reader[f]
    /\ reads'[f] = reads[f] /\ errs'[f] = errs[f] /\ phase'[f] = phase[f]
    /\ \A t \in Senders[f] : spc'[t] = spc[t] /\ on'[t] = on[t]

\* The only streams a step of e opens are its own.
OpensOnly(e) ==
    \A i \in Streams : opener'[i] = opener[i] \/ (opener[i] = None /\ opener'[i] = e)

\* A step of e keeps the other end sound: nothing of that end changes, and no stream
\* changes its opener once it has one.
LEMMA UntouchedSound ==
    ASSUME Setting, Types, NEW e \in Ends, NEW f \in Ends, e # f, Untouched(f),
           OpensOnly(e), SoundAt(f)
    PROVE  SoundAt(f)'
<1>p. Peer(f) = e
  BY PeerFacts, Zenon
<1>n. e # None /\ f # None
  BY Zenon DEF Setting
<1>1. ASSUME NEW t \in Senders[f] PROVE Held(f, t)'
  <2>1. Held(f, t)
    BY Zenon DEF SoundAt
  <2> QED
    BY <1>n, <2>1, Zenon DEF Untouched, OpensOnly, Held
<1>2. ASSUME NEW i \in Streams PROVE Installed(f, i)' /\ Listed(f, i)'
  <2>1. Installed(f, i) /\ Listed(f, i)
    BY Zenon DEF SoundAt
  <2>2. opener'[i] = opener[i] \/ (opener[i] = None /\ opener'[i] = e)
    BY Zenon DEF OpensOnly
  <2>3. WithSender(f, i) => WithSender(f, i)'
    BY Zenon DEF WithSender, Untouched
  <2>4. Installed(f, i)'
    BY <1>p, <1>n, <2>1, <2>2, Zenon DEF Untouched, Installed
  <2>5. Listed(f, i)'
    BY <1>n, <2>1, <2>2, <2>3, Zenon DEF Untouched, Listed
  <2> QED
    BY <2>4, <2>5, Zenon
<1>3. EndedAt(f)'
  BY Zenon DEF Untouched, SoundAt, EndedAt
<1> QED
  BY <1>1, <1>2, <1>3, Zenon DEF SoundAt

\* A step of e keeps the other end orderly: e may open a stream and close streams,
\* neither of which undoes what f has opened or closed.
LEMMA UntouchedOrderly ==
    ASSUME Setting, Types, NEW e \in Ends, NEW f \in Ends, e # f, Untouched(f),
           OpensOnly(e), SoundAt(f), OrderlyAt(f), fin[e] \subseteq fin'[e]
    PROVE  OrderlyAt(f)'
<1>p. Peer(f) = e
  BY PeerFacts, Zenon
<1>n. e # None /\ f # None
  BY Zenon DEF Setting
<1>1. \A i \in Streams : opener'[i] = f <=> opener[i] = f
  BY <1>n, Zenon DEF OpensOnly
<1>2. OpensOnce(f)'
  BY <1>1, Zenon DEF Untouched, OrderlyAt, OpensOnce
<1>3. \A i \in Streams : Given(f, i)'
  BY <1>p, <1>1, Zenon DEF Untouched, OrderlyAt, Given
<1> QED
  BY <1>2, <1>3, Zenon DEF Untouched, OrderlyAt

\* An end that has yielded has yielded for good.
LEMMA YieldedStays ==
    ASSUME Setting, Types, NEW e \in Ends, OpensOnly(e), NEW f \in Ends,
           fin[f] \subseteq fin'[f],
           \A i \in Streams : opener[i] = f /\ i \in fin[f] /\ reader[f][i] = "none" =>
               reader'[f][i] = "none",
           Yielded(f)
    PROVE  Yielded(f)'
<1>1. f # None
  BY Zenon DEF Setting
<1> QED
  BY <1>1, Zenon DEF Yielded, OpensOnly

\* What a step of one end has to show: that it keeps that end sound and the accept
\* queues in order, undoes no yield, lets no sender fail without one, and keeps that
\* end orderly. The other end follows.
LEMMA StepKeeps ==
    ASSUME Setting, IInv, Types', NEW e \in Ends, OpensOnly(e),
           Untouched(Peer(e)), ArrivingAt(Peer(e))',
           SoundAt(e)', ArrivingAt(e)', Calm' => Calm,
           fin[e] \subseteq fin'[e],
           \A i \in Streams : opener[i] = e /\ i \in fin[e] /\ reader[e][i] = "none" =>
               reader'[e][i] = "none",
           Calm' => \A t \in Senders[e] :
              spc'[t] = "failed" => spc[t] = "failed" \/ \E f \in Ends : Yielded(f),
           Calm' /\ ~BothYielded /\ (\A f \in Ends : OrderlyAt(f)) => OrderlyAt(e)'
    PROVE  IInv'
<1> DEFINE p == Peer(e)
<1>p. p \in Ends /\ p # e /\ \A f \in Ends : f = e \/ f = p
  BY PeerFacts, Zenon
<1> HIDE DEF p
<1>u. Untouched(p)
  BY Zenon DEF p
<1>1. SoundAt(p)'
  BY <1>p, <1>u, UntouchedSound, Zenon DEF IInv
<1>2. fin[p] \subseteq fin'[p] /\ reader'[p] = reader[p]
  BY <1>u, Zenon DEF Untouched
<1>3. \A f \in Ends : Yielded(f) => Yielded(f)'
  <2>1. Yielded(e) => Yielded(e)'
    BY YieldedStays, Zenon DEF IInv
  <2>2. Yielded(p) => Yielded(p)'
    BY <1>p, <1>2, YieldedStays, Zenon DEF IInv
  <2> QED
    BY <1>p, <2>1, <2>2, Zenon
<1>4. Failing'
  <2>1. SUFFICES ASSUME Calm', NEW t \in Threads, spc'[t] = "failed"
                 PROVE  \E f \in Ends : Yielded(f)'
    BY Zenon DEF Failing
  <2>2. spc[t] = "failed" \/ \E f \in Ends : Yielded(f)
    <3>1. t \in Senders[e] \/ t \in Senders[p]
      BY <1>p, Zenon DEF Threads
    <3> QED
      BY <1>u, <2>1, <3>1, Zenon DEF Untouched
  <2>3. \E f \in Ends : Yielded(f)
    BY <2>1, <2>2, Zenon DEF IInv, Failing
  <2> QED
    BY <1>3, <2>3, Zenon
<1>5. Orderly'
  <2>1. SUFFICES ASSUME Calm', ~BothYielded' PROVE \A f \in Ends : OrderlyAt(f)'
    BY Zenon DEF Orderly
  <2>2. ~BothYielded
    BY <1>3, <2>1, Zenon DEF BothYielded
  <2>3. \A f \in Ends : OrderlyAt(f)
    BY <2>1, <2>2, Zenon DEF IInv, Orderly
  <2>4. OrderlyAt(p)'
    BY <1>p, <1>u, <2>3, UntouchedOrderly, Zenon DEF IInv
  <2> QED
    BY <1>p, <2>1, <2>2, <2>3, <2>4, Zenon
<1>6. \A f \in Ends : SoundAt(f)' /\ ArrivingAt(f)'
  BY <1>p, <1>1, Zenon DEF p
<1> QED
  BY <1>4, <1>5, <1>6, Zenon DEF IInv

\* An accept queue that a step leaves alone stays in order, unless the step takes up
\* a stream.
LEMMA ArrivingStays ==
    ASSUME Setting, Types, NEW e \in Ends, NEW f \in Ends, OpensOnly(e), ArrivingAt(f),
           arrived'[f] = arrived[f],
           \A i \in Streams : pending[f][i] = "none" => pending'[f][i] = "none"
    PROVE  ArrivingAt(f)'
<1>1. Peer(f) # None
  BY PeerFacts, Zenon DEF Setting
<1>2. \A k \in 1 .. Len(arrived[f]) : arrived[f][k] \in Streams
  BY DEF Types, Arrivals
<1> QED
  BY <1>1, <1>2 DEF ArrivingAt, OpensOnly

\* The types are kept when a sender looks for a stream under openMu.
LEMMA LookTypes ==
    ASSUME Setting, IInv, NEW e \in Ends, NEW t \in Senders[e], Look(t)
    PROVE  Types'
<1>1. Owner(t) = e /\ t \in Threads
  BY OwnerFacts, Zenon
<1>2. spc' \in [Threads -> {"absent", "idle", "open", "install", "start", "write",
                         "failed"}]
  <2>1. \E pc \in {"failed", "write", "open"} : spc' = [spc EXCEPT ![t] = pc]
    BY <1>1, Zenon DEF Look, Go, Existing
  <2>2. spc \in [Threads -> {"absent", "idle", "open", "install", "start", "write",
                        "failed"}]
    BY Zenon DEF IInv, Types
  <2> QED
    BY <2>1, <2>2, <1>1, Zenon
<1>3. on' \in [Threads -> Streams \cup {None}]
  <2>1. \E j \in Streams \cup {None} : on' = [on EXCEPT ![t] = j]
    BY <1>1, Zenon DEF Look, Go, Existing, IInv, Types, None
  <2>2. on \in [Threads -> Streams \cup {None}]
    BY Zenon DEF IInv, Types
  <2> QED
    BY <2>1, <2>2, <1>1, Zenon
<1>4. /\ openMu' \in [Ends -> Threads \cup {None}]
      /\ \A f \in Ends : openMu'[f] \in Senders[f] \cup {None}
  <2>1. openMu' = openMu \/ openMu' = [openMu EXCEPT ![e] = t]
    BY <1>1, Zenon DEF Look, Go, Existing
  <2>2. /\ openMu \in [Ends -> Threads \cup {None}]
         /\ \A f \in Ends : openMu[f] \in Senders[f] \cup {None}
    BY Zenon DEF IInv, Types
  <2> QED
    BY <2>1, <2>2, <1>1, Zenon
<1>5. UNCHANGED <<opener, flow, fin, incoming, outgoing, up, arrived, pending, reader,
                  lease, reads, errs, phase, sent>>
  BY Zenon DEF Look, connection
<1> QED
  BY <1>2, <1>3, <1>4, <1>5, Zenon DEF IInv, Types

\* The types are kept when a sender opens a stream while it holds openMu.
LEMMA OpenTypes ==
    ASSUME Setting, IInv, NEW e \in Ends, NEW t \in Senders[e], Open(t)
    PROVE  Types'
<1>1. Owner(t) = e /\ t \in Threads
  BY OwnerFacts, Zenon
<1>2. Peer(e) \in Ends
  BY PeerFacts, Zenon
<1>3. spc' \in [Threads -> {"absent", "idle", "open", "install", "start", "write",
                         "failed"}]
  <2>1. \E pc \in {"install", "failed"} : spc' = [spc EXCEPT ![t] = pc]
    BY <1>1, Zenon DEF Open, Go
  <2>2. spc \in [Threads -> {"absent", "idle", "open", "install", "start", "write",
                        "failed"}]
    BY Zenon DEF IInv, Types
  <2> QED
    BY <2>1, <2>2, <1>1, <1>2, Zenon
<1>4. on' \in [Threads -> Streams \cup {None}]
  <2>1. \E j \in Streams \cup {None} : on' = [on EXCEPT ![t] = j]
    BY <1>1, Zenon DEF Open, Go, IInv, Types, None
  <2>2. on \in [Threads -> Streams \cup {None}]
    BY Zenon DEF IInv, Types
  <2> QED
    BY <2>1, <2>2, <1>1, <1>2, Zenon
<1>5. /\ openMu' \in [Ends -> Threads \cup {None}]
      /\ \A f \in Ends : openMu'[f] \in Senders[f] \cup {None}
  <2>1. openMu' = openMu \/ openMu' = [openMu EXCEPT ![e] = None]
    BY <1>1, Zenon DEF Open, Go
  <2>2. /\ openMu \in [Ends -> Threads \cup {None}]
         /\ \A f \in Ends : openMu[f] \in Senders[f] \cup {None}
    BY Zenon DEF IInv, Types
  <2> QED
    BY <2>1, <2>2, <1>1, <1>2, Zenon
<1>6. opener' \in [Streams -> Ends \cup {None}]
  <2>1. opener' = opener \/ (\E j \in Streams : opener' = [opener EXCEPT ![j] = e])
    BY <1>1, Zenon DEF Open, Go, connection
  <2>2. opener \in [Streams -> Ends \cup {None}]
    BY Zenon DEF IInv, Types
  <2> QED
    BY <2>1, <2>2, <1>1, <1>2, Zenon
<1>7. arrived' \in [Ends -> Arrivals]
  <2>1. \/ arrived' = arrived
        \/ \E j \in Streams : arrived' = [arrived EXCEPT ![Peer(e)] = Append(@, j)]
    BY <1>1, Zenon DEF Open, Go, connection
  <2>2. arrived \in [Ends -> Arrivals]
    BY Zenon DEF IInv, Types
  <2>3. \A j \in Streams : Append(arrived[Peer(e)], j) \in Arrivals
    BY <2>2, <1>2 DEF Arrivals
  <2>4. \/ arrived' = arrived
        \/ \E x \in Arrivals : arrived' = [arrived EXCEPT ![Peer(e)] = x]
    BY <2>1, <2>3, Zenon
  <2> QED
    BY <2>4, <2>2, <1>1, <1>2, Zenon
<1>8. UNCHANGED <<flow, fin, incoming, outgoing, up, pending, reader, lease, reads,
                  errs, phase, sent>>
  BY Zenon DEF Open, connection
<1> QED
  BY <1>3, <1>4, <1>5, <1>6, <1>7, <1>8, Zenon DEF IInv, Types

\* The types are kept when a sender installs the stream it opened, or gives it up for
\* one accepted meanwhile.
LEMMA InstallTypes ==
    ASSUME Setting, IInv, NEW e \in Ends, NEW t \in Senders[e], Install(t)
    PROVE  Types'
<1>1. Owner(t) = e /\ t \in Threads
  BY OwnerFacts, Zenon
<1>2. on[t] \in Streams
  BY <1>1, Zenon DEF IInv, SoundAt, Held, Install
<1>3. spc' \in [Threads -> {"absent", "idle", "open", "install", "start", "write",
                         "failed"}]
  <2>1. \E pc \in {"failed", "write", "start"} : spc' = [spc EXCEPT ![t] = pc]
    BY <1>1, Zenon DEF Install, Go, Existing, CloseStream
  <2>2. spc \in [Threads -> {"absent", "idle", "open", "install", "start", "write",
                        "failed"}]
    BY Zenon DEF IInv, Types
  <2> QED
    BY <2>1, <2>2, <1>1, <1>2, Zenon
<1>4. on' \in [Threads -> Streams \cup {None}]
  <2>1. \E j \in Streams \cup {None} : on' = [on EXCEPT ![t] = j]
    BY <1>1, <1>2, Zenon DEF Install, Go, Existing, CloseStream, IInv, Types, None
  <2>2. on \in [Threads -> Streams \cup {None}]
    BY Zenon DEF IInv, Types
  <2> QED
    BY <2>1, <2>2, <1>1, <1>2, Zenon
<1>5. /\ openMu' \in [Ends -> Threads \cup {None}]
      /\ \A f \in Ends : openMu'[f] \in Senders[f] \cup {None}
  <2>1. openMu' = openMu \/ openMu' = [openMu EXCEPT ![e] = None]
    BY <1>1, Zenon DEF Install, Go, Existing, CloseStream
  <2>2. /\ openMu \in [Ends -> Threads \cup {None}]
         /\ \A f \in Ends : openMu[f] \in Senders[f] \cup {None}
    BY Zenon DEF IInv, Types
  <2> QED
    BY <2>1, <2>2, <1>1, <1>2, Zenon
<1>6. fin' \in [Ends -> SUBSET Streams]
  <2>1. fin' = fin \/ fin' = [fin EXCEPT ![e] = @ \cup {on[t]}]
    BY <1>1, Zenon DEF Install, Go, Existing, CloseStream, connection
  <2>2. fin \in [Ends -> SUBSET Streams]
    BY Zenon DEF IInv, Types
  <2> QED
    BY <2>1, <2>2, <1>1, <1>2
<1>7. outgoing' \in [Ends -> Streams \cup {None}]
  <2>1. outgoing' = outgoing \/ outgoing' = [outgoing EXCEPT ![e] = on[t]]
    BY <1>1, Zenon DEF Install, Go, Existing, CloseStream
  <2>2. outgoing \in [Ends -> Streams \cup {None}]
    BY Zenon DEF IInv, Types
  <2> QED
    BY <2>1, <2>2, <1>1, <1>2, Zenon
<1>8. UNCHANGED <<opener, flow, incoming, up, arrived, pending, reader, lease, reads,
                  errs, phase, sent>>
  BY Zenon DEF Install, connection
<1> QED
  BY <1>3, <1>4, <1>5, <1>6, <1>7, <1>8, Zenon DEF IInv, Types

\* The types are kept when a sender starts the reader of the stream it installed.
LEMMA StartSendersTypes ==
    ASSUME Setting, IInv, NEW e \in Ends, NEW t \in Senders[e], StartSenders(t)
    PROVE  Types'
<1>1. Owner(t) = e /\ t \in Threads
  BY OwnerFacts, Zenon
<1>2. on[t] \in Streams
  BY <1>1, Zenon DEF IInv, SoundAt, Held, StartSenders
<1>3. spc' \in [Threads -> {"absent", "idle", "open", "install", "start", "write",
                         "failed"}]
  <2>1. spc' = [spc EXCEPT ![t] = "write"]
    BY <1>1, Zenon DEF StartSenders, Go, CloseStream
  <2>2. spc \in [Threads -> {"absent", "idle", "open", "install", "start", "write",
                        "failed"}]
    BY Zenon DEF IInv, Types
  <2> QED
    BY <2>1, <2>2, <1>1, <1>2, Zenon
<1>4. on' \in [Threads -> Streams \cup {None}]
  <2>1. on' = [on EXCEPT ![t] = on[t]]
    BY <1>1, <1>2, Zenon DEF StartSenders, Go, CloseStream
  <2>2. on \in [Threads -> Streams \cup {None}]
    BY Zenon DEF IInv, Types
  <2> QED
    BY <2>1, <2>2, <1>1, <1>2, Zenon
<1>5. /\ openMu' \in [Ends -> Threads \cup {None}]
      /\ \A f \in Ends : openMu'[f] \in Senders[f] \cup {None}
  <2>1. openMu' = [openMu EXCEPT ![e] = None]
    BY <1>1, Zenon DEF StartSenders, Go, CloseStream
  <2>2. /\ openMu \in [Ends -> Threads \cup {None}]
         /\ \A f \in Ends : openMu[f] \in Senders[f] \cup {None}
    BY Zenon DEF IInv, Types
  <2> QED
    BY <2>1, <2>2, <1>1, <1>2, Zenon
<1>6. fin' \in [Ends -> SUBSET Streams]
  <2>1. fin' = fin \/ fin' = [fin EXCEPT ![e] = @ \cup {on[t]}]
    BY <1>1, Zenon DEF StartSenders, Go, CloseStream, connection
  <2>2. fin \in [Ends -> SUBSET Streams]
    BY Zenon DEF IInv, Types
  <2> QED
    BY <2>1, <2>2, <1>1, <1>2
<1>7. reader' \in [Ends -> [Streams -> {"none", "read", "hold", "done"}]]
  <2>1. reader' = reader \/ reader' = [reader EXCEPT ![e][on[t]] = "read"]
    BY <1>1, Zenon DEF StartSenders, Go, CloseStream
  <2>2. reader \in [Ends -> [Streams -> {"none", "read", "hold", "done"}]]
    BY Zenon DEF IInv, Types
  <2> QED
    BY <2>1, <2>2, <1>1, <1>2
<1>8. UNCHANGED <<opener, flow, incoming, outgoing, up, arrived, pending, lease, reads,
                  errs, phase, sent>>
  BY Zenon DEF StartSenders, connection
<1> QED
  BY <1>3, <1>4, <1>5, <1>6, <1>7, <1>8, Zenon DEF IInv, Types

\* The types are kept when a sender writes a frame to its stream.
LEMMA WriteTypes ==
    ASSUME Setting, IInv, NEW e \in Ends, NEW t \in Senders[e], Write(t)
    PROVE  Types'
<1>1. Owner(t) = e /\ t \in Threads
  BY OwnerFacts, Zenon
<1>2. on[t] \in Streams
  BY <1>1, Zenon DEF IInv, SoundAt, Held, Write
<1>3. spc' \in [Threads -> {"absent", "idle", "open", "install", "start", "write",
                         "failed"}]
  <2>1. \E pc \in {"idle", "failed"} : spc' = [spc EXCEPT ![t] = pc]
    BY <1>1, Zenon DEF Write, Go
  <2>2. spc \in [Threads -> {"absent", "idle", "open", "install", "start", "write",
                        "failed"}]
    BY Zenon DEF IInv, Types
  <2> QED
    BY <2>1, <2>2, <1>1, <1>2, Zenon
<1>4. on' \in [Threads -> Streams \cup {None}]
  <2>1. on' = [on EXCEPT ![t] = None]
    BY <1>1, <1>2, Zenon DEF Write, Go
  <2>2. on \in [Threads -> Streams \cup {None}]
    BY Zenon DEF IInv, Types
  <2> QED
    BY <2>1, <2>2, <1>1, <1>2, Zenon
<1>5. flow' \in [Ends -> [Streams -> Frames]]
  <2>1. flow' = flow \/ flow' = [flow EXCEPT ![e][on[t]] = Append(@, sent[e] + 1)]
    BY <1>1, Zenon DEF Write, Go, connection
  <2>2. /\ flow \in [Ends -> [Streams -> Frames]]
         /\ sent \in [Ends -> Nat]
    BY Zenon DEF IInv, Types
  <2>3. Append(flow[e][on[t]], sent[e] + 1) \in Frames
    BY <2>2, <1>2 DEF Frames
  <2>4. flow' = flow \/ \E x \in Frames : flow' = [flow EXCEPT ![e][on[t]] = x]
    BY <2>1, <2>3, Zenon
  <2>5. ASSUME NEW x \in Frames, flow' = [flow EXCEPT ![e][on[t]] = x]
        PROVE  flow' \in [Ends -> [Streams -> Frames]]
    <3>1. [flow[e] EXCEPT ![on[t]] = x] \in [Streams -> Frames]
      BY <2>2, <1>1, <1>2, Zenon
    <3>2. flow' = [flow EXCEPT ![e] = [flow[e] EXCEPT ![on[t]] = x]]
      BY <2>5, Zenon
    <3> QED
      BY <3>1, <3>2, <2>2, Zenon
  <2> QED
    BY <2>4, <2>2, <2>5, Zenon
<1>6. sent' \in [Ends -> Nat]
  <2>1. sent' = sent \/ sent' = [sent EXCEPT ![e] = @ + 1]
    BY <1>1, Zenon DEF Write, Go
  <2>2. sent \in [Ends -> Nat]
    BY Zenon DEF IInv, Types
  <2> QED
    BY <2>1, <2>2, <1>1, <1>2
<1>7. UNCHANGED <<opener, fin, incoming, outgoing, openMu, up, arrived, pending,
                  reader, lease, reads, errs, phase>>
  BY Zenon DEF Write, connection
<1> QED
  BY <1>3, <1>4, <1>5, <1>6, <1>7, Zenon DEF IInv, Types

\* The types are kept when the accept loop takes the next stream of the connection.
LEMMA AcceptTypes ==
    ASSUME Setting, IInv, NEW e \in Ends, Accept(e)
    PROVE  Types'
<1>1. Head(arrived[e]) \in Streams
  BY DEF IInv, Types, Accept, Arrivals
<1>2. pending' \in [Ends -> [Streams -> {"none", "preface", "start", "done"}]]
  <2>1. \/ pending' = pending
        \/ pending' = [pending EXCEPT ![e][Head(arrived[e])] = "preface"]
    BY Zenon DEF Accept, CloseStream
  <2>2. pending \in [Ends -> [Streams -> {"none", "preface", "start", "done"}]]
    BY Zenon DEF IInv, Types
  <2> QED
    BY <2>1, <2>2, <1>1, SMTT(30)
<1>3. arrived' \in [Ends -> Arrivals]
  <2>1. \/ arrived' = [arrived EXCEPT ![e] = Tail(@)]
        \/ arrived' = [arrived EXCEPT ![e] = <<>>]
    BY Zenon DEF Accept, CloseStream, connection
  <2>2. arrived \in [Ends -> Arrivals]
    BY Zenon DEF IInv, Types
  <2>3. Tail(arrived[e]) \in Arrivals /\ <<>> \in Arrivals
    BY <2>2 DEF Accept, Arrivals
  <2>4. \E x \in Arrivals : arrived' = [arrived EXCEPT ![e] = x]
    BY <2>1, <2>3, Zenon
  <2> QED
    BY <2>4, <2>2, <1>1, Zenon
<1>4. fin' \in [Ends -> SUBSET Streams]
  <2>1. fin' = fin \/ fin' = [fin EXCEPT ![e] = @ \cup {Head(arrived[e])}]
    BY Zenon DEF Accept, CloseStream, connection
  <2>2. fin \in [Ends -> SUBSET Streams]
    BY Zenon DEF IInv, Types
  <2> QED
    BY <2>1, <2>2, <1>1, Zenon
<1>5. errs' \in [Ends -> BOOLEAN]
  <2>1. errs' = errs \/ errs' = [errs EXCEPT ![e] = TRUE]
    BY Zenon DEF Accept, CloseStream
  <2>2. errs \in [Ends -> BOOLEAN]
    BY Zenon DEF IInv, Types
  <2> QED
    BY <2>1, <2>2, <1>1, Zenon
<1>6. UNCHANGED <<opener, flow, incoming, outgoing, openMu, up, reader, lease, reads,
                  phase, spc, on, sent>>
  BY Zenon DEF Accept, connection
<1> QED
  BY <1>2, <1>3, <1>4, <1>5, <1>6, Zenon DEF IInv, Types

\* The types are kept when an accepted stream has sent its preface, or has not in
\* time.
LEMMA AcceptStreamTypes ==
    ASSUME Setting, IInv, NEW e \in Ends, NEW i \in Streams, AcceptStream(e, i)
    PROVE  Types'
<1>1. pending' \in [Ends -> [Streams -> {"none", "preface", "start", "done"}]]
  <2>1. \E x \in {"start", "done"} : pending' = [pending EXCEPT ![e][i] = x]
    BY Zenon DEF AcceptStream, CloseStream
  <2>2. pending \in [Ends -> [Streams -> {"none", "preface", "start", "done"}]]
    BY Zenon DEF IInv, Types
  <2> QED
    BY <2>1, <2>2
<1>2. incoming' \in [Ends -> Streams \cup {None}]
  <2>1. incoming' = incoming \/ incoming' = [incoming EXCEPT ![e] = i]
    BY Zenon DEF AcceptStream, CloseStream
  <2>2. incoming \in [Ends -> Streams \cup {None}]
    BY Zenon DEF IInv, Types
  <2> QED
    BY <2>1, <2>2, Zenon
<1>3. fin' \in [Ends -> SUBSET Streams]
  <2>1. fin' = fin \/ fin' = [fin EXCEPT ![e] = @ \cup {i}]
    BY Zenon DEF AcceptStream, CloseStream, connection
  <2>2. fin \in [Ends -> SUBSET Streams]
    BY Zenon DEF IInv, Types
  <2> QED
    BY <2>1, <2>2, Zenon
<1>4. errs' \in [Ends -> BOOLEAN]
  <2>1. errs' = errs \/ errs' = [errs EXCEPT ![e] = TRUE]
    BY Zenon DEF AcceptStream, CloseStream
  <2>2. errs \in [Ends -> BOOLEAN]
    BY Zenon DEF IInv, Types
  <2> QED
    BY <2>1, <2>2, Zenon
<1>5. UNCHANGED <<opener, flow, outgoing, openMu, up, arrived, reader, lease, reads,
                  phase, spc, on, sent>>
  BY Zenon DEF AcceptStream, connection
<1> QED
  BY <1>1, <1>2, <1>3, <1>4, <1>5, Zenon DEF IInv, Types

\* The types are kept when the reader of an accepted stream is started.
LEMMA StartAcceptedTypes ==
    ASSUME Setting, IInv, NEW e \in Ends, NEW i \in Streams, StartAccepted(e, i)
    PROVE  Types'
<1>1. pending' \in [Ends -> [Streams -> {"none", "preface", "start", "done"}]]
  <2>1. pending' = [pending EXCEPT ![e][i] = "done"]
    BY Zenon DEF StartAccepted, CloseStream
  <2>2. pending \in [Ends -> [Streams -> {"none", "preface", "start", "done"}]]
    BY Zenon DEF IInv, Types
  <2> QED
    BY <2>1, <2>2, Zenon
<1>2. reader' \in [Ends -> [Streams -> {"none", "read", "hold", "done"}]]
  <2>1. reader' = reader \/ reader' = [reader EXCEPT ![e][i] = "read"]
    BY Zenon DEF StartAccepted, CloseStream
  <2>2. reader \in [Ends -> [Streams -> {"none", "read", "hold", "done"}]]
    BY Zenon DEF IInv, Types
  <2> QED
    BY <2>1, <2>2
<1>3. fin' \in [Ends -> SUBSET Streams]
  <2>1. fin' = fin \/ fin' = [fin EXCEPT ![e] = @ \cup {i}]
    BY Zenon DEF StartAccepted, CloseStream, connection
  <2>2. fin \in [Ends -> SUBSET Streams]
    BY Zenon DEF IInv, Types
  <2> QED
    BY <2>1, <2>2, Zenon
<1>4. UNCHANGED <<opener, flow, incoming, outgoing, openMu, up, arrived, lease, reads,
                  errs, phase, spc, on, sent>>
  BY Zenon DEF StartAccepted, connection
<1> QED
  BY <1>1, <1>2, <1>3, <1>4, Zenon DEF IInv, Types

\* The types are kept when a reader reads a frame, or the end of its stream.
LEMMA ReadStreamTypes ==
    ASSUME Setting, IInv, NEW e \in Ends, NEW i \in Streams, ReadStream(e, i)
    PROVE  Types'
<1>1. Peer(e) \in Ends
  BY PeerFacts, Zenon
<1>2. flow' \in [Ends -> [Streams -> Frames]]
  <2>1. \/ flow' = flow
        \/ /\ flow[Peer(e)][i] # <<>>
           /\ flow' = [flow EXCEPT ![Peer(e)][i] = Tail(@)]
    BY Zenon DEF ReadStream, removeStream, Forget, CloseStream, connection
  <2>2. flow \in [Ends -> [Streams -> Frames]]
    BY Zenon DEF IInv, Types
  <2>3. flow[Peer(e)][i] # <<>> => Tail(flow[Peer(e)][i]) \in Frames
    BY <2>2, <1>1 DEF Frames
  <2>4. flow' = flow \/ \E x \in Frames : flow' = [flow EXCEPT ![Peer(e)][i] = x]
    BY <2>1, <2>3, Zenon
  <2>5. ASSUME NEW x \in Frames, flow' = [flow EXCEPT ![Peer(e)][i] = x]
        PROVE  flow' \in [Ends -> [Streams -> Frames]]
    <3>1. [flow[Peer(e)] EXCEPT ![i] = x] \in [Streams -> Frames]
      BY <2>2, <1>1, Zenon
    <3>2. flow' = [flow EXCEPT ![Peer(e)] = [flow[Peer(e)] EXCEPT ![i] = x]]
      BY <2>5, Zenon
    <3> QED
      BY <3>1, <3>2, <2>2, Zenon
  <2> QED
    BY <2>4, <2>2, <2>5, Zenon
<1>3. lease' \in [Ends -> [Streams -> Nat]]
  <2>1. \/ lease' = lease
        \/ /\ flow[Peer(e)][i] # <<>>
           /\ lease' = [lease EXCEPT ![e][i] = Head(flow[Peer(e)][i])]
    BY Zenon DEF ReadStream, removeStream, Forget, CloseStream
  <2>2. /\ lease \in [Ends -> [Streams -> Nat]]
         /\ flow \in [Ends -> [Streams -> Frames]]
    BY Zenon DEF IInv, Types
  <2>3. flow[Peer(e)][i] # <<>> => Head(flow[Peer(e)][i]) \in Nat
    BY <2>2, <1>1 DEF Frames
  <2>4. lease' = lease \/ \E x \in Nat : lease' = [lease EXCEPT ![e][i] = x]
    BY <2>1, <2>3, Zenon
  <2>5. lease \in [Ends -> [Streams -> Nat]]
    BY <2>2, Zenon
  <2> QED
    BY <2>4, <2>5
<1>4. reader' \in [Ends -> [Streams -> {"none", "read", "hold", "done"}]]
  <2>1. \E x \in {"hold", "done"} : reader' = [reader EXCEPT ![e][i] = x]
    BY Zenon DEF ReadStream, removeStream, Forget, CloseStream
  <2>2. reader \in [Ends -> [Streams -> {"none", "read", "hold", "done"}]]
    BY Zenon DEF IInv, Types
  <2> QED
    BY <2>1, <2>2, <1>1
<1>5. fin' \in [Ends -> SUBSET Streams]
  <2>1. fin' = fin \/ fin' = [fin EXCEPT ![e] = @ \cup {i}]
    BY Zenon DEF ReadStream, removeStream, Forget, CloseStream, connection
  <2>2. fin \in [Ends -> SUBSET Streams]
    BY Zenon DEF IInv, Types
  <2> QED
    BY <2>1, <2>2, <1>1, Zenon
<1>6. incoming' \in [Ends -> Streams \cup {None}]
  <2>1. incoming' = incoming \/ incoming' = [incoming EXCEPT ![e] = None]
    BY Zenon DEF ReadStream, removeStream, Forget, CloseStream
  <2>2. incoming \in [Ends -> Streams \cup {None}]
    BY Zenon DEF IInv, Types
  <2> QED
    BY <2>1, <2>2, <1>1, Zenon
<1>7. outgoing' \in [Ends -> Streams \cup {None}]
  <2>1. outgoing' = outgoing \/ outgoing' = [outgoing EXCEPT ![e] = None]
    BY Zenon DEF ReadStream, removeStream, Forget, CloseStream
  <2>2. outgoing \in [Ends -> Streams \cup {None}]
    BY Zenon DEF IInv, Types
  <2> QED
    BY <2>1, <2>2, <1>1, Zenon
<1>8. errs' \in [Ends -> BOOLEAN]
  <2>1. errs' = errs \/ errs' = [errs EXCEPT ![e] = TRUE]
    BY Zenon DEF ReadStream, removeStream, Forget, CloseStream
  <2>2. errs \in [Ends -> BOOLEAN]
    BY Zenon DEF IInv, Types
  <2> QED
    BY <2>1, <2>2, <1>1, Zenon
<1>9. UNCHANGED <<opener, openMu, up, arrived, pending, reads, phase, spc, on, sent>>
  BY Zenon DEF ReadStream, connection
<1> QED
  BY <1>2, <1>3, <1>4, <1>5, <1>6, <1>7, <1>8, <1>9, Zenon DEF IInv, Types

\* The types are kept when a reader queues the frame it holds, or gives it back.
LEMMA QueueLeaseTypes ==
    ASSUME Setting, IInv, NEW e \in Ends, NEW i \in Streams, QueueLease(e, i)
    PROVE  Types'
<1>1. lease' \in [Ends -> [Streams -> Nat]]
  <2>1. lease' = [lease EXCEPT ![e][i] = 0]
    BY Zenon DEF QueueLease, removeStream, Forget, CloseStream
  <2>2. lease \in [Ends -> [Streams -> Nat]]
    BY Zenon DEF IInv, Types
  <2> QED
    BY <2>1, <2>2, Zenon
<1>2. /\ reads' \in [Ends -> Frames]
      /\ \A f \in Ends : Len(reads'[f]) <= ReadQueue
  <2>1. \/ reads' = reads
        \/ /\ Len(reads[e]) < ReadQueue
           /\ reads' = [reads EXCEPT ![e] = Append(@, lease[e][i])]
    BY Zenon DEF QueueLease, removeStream, Forget, CloseStream
  <2>2. /\ reads \in [Ends -> Frames]
         /\ \A f \in Ends : Len(reads[f]) <= ReadQueue
         /\ lease \in [Ends -> [Streams -> Nat]]
    BY Zenon DEF IInv, Types
  <2>3. /\ Append(reads[e], lease[e][i]) \in Frames
         /\ Len(Append(reads[e], lease[e][i])) = Len(reads[e]) + 1 /\ Len(reads[e]) \in Nat
    BY <2>2 DEF Frames
  <2>4. \/ reads' = reads
        \/ \E x \in Frames : Len(x) <= ReadQueue /\ reads' = [reads EXCEPT ![e] = x]
    <3>1. Len(reads[e]) < ReadQueue => Len(Append(reads[e], lease[e][i])) <= ReadQueue
      BY <2>3 DEF Setting
    <3> QED
      BY <2>1, <2>3, <3>1, Zenon
  <2>5. reads \in [Ends -> Frames] /\ \A f \in Ends : Len(reads[f]) <= ReadQueue
    BY <2>2, Zenon
  <2> QED
    BY <2>4, <2>5, Zenon
<1>3. reader' \in [Ends -> [Streams -> {"none", "read", "hold", "done"}]]
  <2>1. \E x \in {"read", "done"} : reader' = [reader EXCEPT ![e][i] = x]
    BY Zenon DEF QueueLease, removeStream, Forget, CloseStream
  <2>2. reader \in [Ends -> [Streams -> {"none", "read", "hold", "done"}]]
    BY Zenon DEF IInv, Types
  <2> QED
    BY <2>1, <2>2
<1>4. fin' \in [Ends -> SUBSET Streams]
  <2>1. fin' = fin \/ fin' = [fin EXCEPT ![e] = @ \cup {i}]
    BY Zenon DEF QueueLease, removeStream, Forget, CloseStream, connection
  <2>2. fin \in [Ends -> SUBSET Streams]
    BY Zenon DEF IInv, Types
  <2> QED
    BY <2>1, <2>2, Zenon
<1>5. incoming' \in [Ends -> Streams \cup {None}]
  <2>1. incoming' = incoming \/ incoming' = [incoming EXCEPT ![e] = None]
    BY Zenon DEF QueueLease, removeStream, Forget, CloseStream
  <2>2. incoming \in [Ends -> Streams \cup {None}]
    BY Zenon DEF IInv, Types
  <2> QED
    BY <2>1, <2>2, Zenon
<1>6. outgoing' \in [Ends -> Streams \cup {None}]
  <2>1. outgoing' = outgoing \/ outgoing' = [outgoing EXCEPT ![e] = None]
    BY Zenon DEF QueueLease, removeStream, Forget, CloseStream
  <2>2. outgoing \in [Ends -> Streams \cup {None}]
    BY Zenon DEF IInv, Types
  <2> QED
    BY <2>1, <2>2, Zenon
<1>7. UNCHANGED <<opener, flow, openMu, up, arrived, pending, errs, phase, spc, on, sent>>
  BY Zenon DEF QueueLease, connection
<1> QED
  BY <1>1, <1>2, <1>3, <1>4, <1>5, <1>6, <1>7, Zenon DEF IInv, Types

\* The types are kept when ReadFrameLease takes a frame off the queue.
LEMMA ReadFrameLeaseTypes ==
    ASSUME Setting, IInv, NEW e \in Ends, ReadFrameLease(e)
    PROVE  Types'
<1>1. /\ reads' \in [Ends -> Frames]
      /\ \A f \in Ends : Len(reads'[f]) <= ReadQueue
  <2>1. reads[e] # <<>> /\ reads' = [reads EXCEPT ![e] = Tail(@)]
    BY Zenon DEF ReadFrameLease
  <2>2. /\ reads \in [Ends -> Frames]
         /\ \A f \in Ends : Len(reads[f]) <= ReadQueue
    BY Zenon DEF IInv, Types
  <2> QED
    BY <2>1, <2>2 DEF Setting, Frames
<1>2. UNCHANGED <<opener, flow, fin, incoming, outgoing, openMu, up, arrived, pending,
                  reader, lease, errs, phase, spc, on, sent>>
  BY Zenon DEF ReadFrameLease, connection
<1> QED
  BY <1>1, <1>2, Zenon DEF IInv, Types

\* The types are kept when Close closes every stream that is listed.
LEMMA CloseTypes ==
    ASSUME Setting, IInv, NEW e \in Ends, Close(e)
    PROVE  Types'
<1>1. phase' \in [Ends -> {"open", "closing", "closed"}]
  <2>1. phase' = [phase EXCEPT ![e] = "closing"]
    BY Zenon DEF Close
  <2>2. phase \in [Ends -> {"open", "closing", "closed"}]
    BY Zenon DEF IInv, Types
  <2> QED
    BY <2>1, <2>2, Zenon
<1>2. fin' \in [Ends -> SUBSET Streams]
  <2>1. fin' = [fin EXCEPT ![e] = @ \cup Awaited(e)
                                   \cup ({incoming[e], outgoing[e]} \ {None})]
    BY Zenon DEF Close, connection
  <2>2. fin \in [Ends -> SUBSET Streams]
    BY Zenon DEF IInv, Types
  <2>3. Awaited(e) \cup ({incoming[e], outgoing[e]} \ {None}) \subseteq Streams
    BY DEF IInv, Types, Awaited
  <2> QED
    BY <2>1, <2>2, <2>3, Zenon
<1>3. UNCHANGED <<opener, flow, incoming, outgoing, openMu, up, arrived, pending,
                  reader, lease, reads, errs, spc, on, sent>>
  BY Zenon DEF Close, connection
<1> QED
  BY <1>1, <1>2, <1>3, Zenon DEF IInv, Types

\* The types are kept when Close has waited for the goroutines and empties the queue.
LEMMA CloseReturnsTypes ==
    ASSUME Setting, IInv, NEW e \in Ends, CloseReturns(e)
    PROVE  Types'
<1>1. phase' \in [Ends -> {"open", "closing", "closed"}]
  <2>1. phase' = [phase EXCEPT ![e] = "closed"]
    BY Zenon DEF CloseReturns
  <2>2. phase \in [Ends -> {"open", "closing", "closed"}]
    BY Zenon DEF IInv, Types
  <2> QED
    BY <2>1, <2>2, Zenon
<1>2. /\ reads' \in [Ends -> Frames]
      /\ \A f \in Ends : Len(reads'[f]) <= ReadQueue
  <2>1. reads' = [reads EXCEPT ![e] = <<>>]
    BY Zenon DEF CloseReturns
  <2>2. /\ reads \in [Ends -> Frames]
         /\ \A f \in Ends : Len(reads[f]) <= ReadQueue
    BY Zenon DEF IInv, Types
  <2> QED
    BY <2>1, <2>2 DEF Setting, Frames
<1>3. UNCHANGED <<opener, flow, fin, incoming, outgoing, openMu, up, arrived, pending,
                  reader, lease, errs, spc, on, sent>>
  BY Zenon DEF CloseReturns, connection
<1> QED
  BY <1>1, <1>2, <1>3, Zenon DEF IInv, Types

-----------------------------------------------------------------------------
\* Sender t of e is at pc with stream j after the step, and the others have not
\* moved.
Moved(e, t, pc, j) ==
    /\ spc'[t] = pc /\ on'[t] = j
    /\ \A s \in Senders[e] \ {t} : spc'[s] = spc[s] /\ on'[s] = on[s]

\* Two functions on streams agree but for i, where the new one has x.
Placed(new, old, i, x) == new[i] = x /\ \A j \in Streams \ {i} : new[j] = old[j]

\* What removeStream does to the state of e.
Removed(e, i) ==
    /\ fin'[e] = fin[e] \cup {i} /\ Placed(reader'[e], reader[e], i, "done")
    /\ incoming'[e] = IF incoming[e] = i THEN None ELSE incoming[e]
    /\ outgoing'[e] = IF outgoing[e] = i THEN None ELSE outgoing[e]

\* The invariant is kept when a sender looks for a stream under openMu.
LEMMA LookKeeps ==
    ASSUME Setting, IInv, NEW e \in Ends, NEW t \in Senders[e], Look(t)
    PROVE  IInv'
<1>1. /\ Owner(t) = e /\ t \in Threads /\ t # None
      /\ \A f \in Ends : \A s \in Senders[f] : s \in Threads /\ (f # e => s # t)
  BY OwnerFacts, Zenon
<1>2. /\ Peer(e) \in Ends /\ Peer(e) # e /\ Peer(Peer(e)) = e
      /\ e # None /\ Peer(e) # None /\ \A j \in Streams : j # None
  BY PeerFacts DEF Setting, Streams, None
<1>3. Types'
  BY LookTypes, Zenon
<1>4. Untouched(Peer(e))
  BY <1>1, <1>2 DEF Untouched, IInv, Types, Look, Go, Existing, connection
<1>5. /\ fin'[e] = fin[e] /\ incoming'[e] = incoming[e] /\ outgoing'[e] = outgoing[e]
      /\ pending'[e] = pending[e] /\ reader'[e] = reader[e] /\ reads'[e] = reads[e]
      /\ errs'[e] = errs[e] /\ phase'[e] = phase[e]
      /\ opener' = opener
      /\ up' = up
      /\ arrived' = arrived
  BY <1>1, Zenon DEF Look, Go, Existing, connection
<1>6. /\ spc[t] = "idle"
      /\ \/ /\ phase[e] # "open" /\ Moved(e, t, "failed", None)
            /\ openMu'[e] = openMu[e]
         \/ /\ \E j \in Streams : Moved(e, t, "write", j)
            /\ openMu'[e] = openMu[e]
         \/ /\ phase[e] = "open" /\ incoming[e] = None /\ outgoing[e] = None
            /\ openMu[e] = None /\ openMu'[e] = t /\ Moved(e, t, "open", None)
  BY <1>1, <1>2 DEF IInv, Types, Look, Go, Existing, connection, Moved
<1>7. OpensOnly(e)
  BY <1>5, Zenon DEF OpensOnly
<1>8. \A s \in Senders[e] : Held(e, s)'
  <2>1. Held(e, t)
    BY Zenon DEF IInv, SoundAt
  <2>2. Held(e, t)'
    BY <1>1, <1>2, <1>5, <1>6, <2>1, Zenon DEF Held, Moved
  <2>3. ASSUME NEW s \in Senders[e], s # t PROVE Held(e, s)'
    <3>1. Held(e, s) /\ s # None
      BY OwnerFacts, Zenon DEF IInv, SoundAt
    <3>2. spc'[s] = spc[s] /\ on'[s] = on[s]
      BY <1>6, <2>3, Zenon DEF Moved
    <3> QED
      BY <1>2, <1>5, <1>6, <2>1, <2>3, <3>1, <3>2, Zenon DEF Held
  <2> QED
    BY <2>2, <2>3, Zenon
<1>9. ASSUME NEW j \in Streams PROVE Installed(e, j)' /\ Listed(e, j)'
  <2>1. Installed(e, j) /\ Listed(e, j) /\ Held(e, t)
    BY Zenon DEF IInv, SoundAt
  <2>2. WithSender(e, j) =>
           WithSender(e, j)' \/ (spc[t] \in {"install", "start"} /\ j = on[t])
    BY <1>6, Zenon DEF WithSender, Moved
  <2>3. Installed(e, j)'
    BY <1>2, <1>5, <1>6, <2>1, Zenon DEF Installed, Held
  <2>4. Listed(e, j)'
    BY <1>2, <1>5, <1>6, <2>1, <2>2, Zenon DEF Installed, Listed, Held
  <2> QED
    BY <2>3, <2>4, Zenon
<1>10. EndedAt(e)'
  BY <1>5, <1>6, Zenon DEF IInv, SoundAt, EndedAt
<1>11. SoundAt(e)'
  BY <1>8, <1>9, <1>10, Zenon DEF SoundAt
<1>12. /\ fin[e] \subseteq fin'[e]
      /\ \A j \in Streams : opener[j] = e /\ j \in fin[e] /\ reader[e][j] = "none" =>
            reader'[e][j] = "none"
  BY <1>2, <1>5, <1>6, Zenon DEF IInv, SoundAt, Held, Installed
<1>13. ArrivingAt(e)' /\ ArrivingAt(Peer(e))'
  <2>1. \A j \in Streams : pending[e][j] = "none" => pending'[e][j] = "none"
    BY <1>5, Zenon
  <2>2. pending'[Peer(e)] = pending[Peer(e)]
    BY <1>4, Zenon DEF Untouched
  <2>3. arrived' = arrived /\ ArrivingAt(e) /\ ArrivingAt(Peer(e)) /\ Types
    BY <1>2, <1>5, Zenon DEF IInv
  <2> QED
    BY <1>2, <1>7, <2>1, <2>2, <2>3, ArrivingStays, Zenon
<1>14. Calm' => Calm
  BY <1>2, <1>5, <1>6, <1>4, PeerFacts DEF Calm, Untouched
<1>15. Calm' => \A s \in Senders[e] :
        spc'[s] = "failed" => spc[s] = "failed" \/ \E f \in Ends : Yielded(f)
  BY <1>1, <1>2, <1>5, <1>6, Zenon DEF Calm, Moved
<1>16. Calm' /\ ~BothYielded /\ (\A f \in Ends : OrderlyAt(f)) => OrderlyAt(e)'
  <2>1. SUFFICES ASSUME Calm', ~BothYielded, \A f \in Ends : OrderlyAt(f)
                 PROVE  OrderlyAt(e)'
    BY Zenon
  <2>2. up /\ phase[e] = "open" /\ phase'[e] = "open"
    BY <1>14, <2>1, Zenon DEF Calm
  <2>3. ~errs[e] /\ OpensOnce(e)
    BY <2>1, Zenon DEF OrderlyAt
  <2>4. ~errs'[e]
    BY <1>5, <1>6, <2>2, <2>3, Zenon
  <2>5. ASSUME incoming[e] = None, outgoing[e] = None, openMu[e] = None,
               NEW j \in Streams
        PROVE  opener[j] # e
    <3>1. Listed(e, j) /\ Given(e, j) /\ \A s \in Senders[e] : Held(e, s) /\ s # None
      BY <2>1, OwnerFacts, Zenon DEF IInv, SoundAt, OrderlyAt
    <3>2. ~WithSender(e, j)
      BY <2>5, <3>1, Zenon DEF WithSender, Held
    <3> QED
      BY <1>2, <2>5, <3>1, <3>2, Zenon DEF Listed, Given
  <2>6. OpensOnce(e)'
    BY <1>5, <1>6, <2>3, <2>5, Zenon DEF OpensOnce, Moved
  <2>7. ASSUME NEW j \in Streams PROVE Given(e, j)'
    <3>1. Given(e, j) /\ Installed(e, j) /\ Given(Peer(e), j)
      BY <1>2, <2>1, Zenon DEF OrderlyAt, IInv, SoundAt
    <3> QED
      BY <1>1, <1>2, <1>5, <1>6, <1>4, <2>2, <3>1 DEF Given, Installed, Untouched
  <2> QED
    BY <2>4, <2>6, <2>7, Zenon DEF OrderlyAt
<1> QED
  BY <1>3, <1>7, <1>4, <1>11, <1>13, <1>14, <1>12, <1>15, <1>16, StepKeeps, Zenon

\* The invariant is kept when a sender opens a stream while it holds openMu.
LEMMA OpenKeeps ==
    ASSUME Setting, IInv, NEW e \in Ends, NEW t \in Senders[e], Open(t)
    PROVE  IInv'
<1>1. /\ Owner(t) = e /\ t \in Threads /\ t # None
      /\ \A f \in Ends : \A s \in Senders[f] : s \in Threads /\ (f # e => s # t)
  BY OwnerFacts, Zenon
<1>2. /\ Peer(e) \in Ends /\ Peer(e) # e /\ Peer(Peer(e)) = e
      /\ e # None /\ Peer(e) # None /\ \A j \in Streams : j # None
  BY PeerFacts DEF Setting, Streams, None
<1>3. Types'
  BY OpenTypes, Zenon
<1>4. Untouched(Peer(e))
  BY <1>1, <1>2, SMTT(30) DEF Untouched, IInv, Types, Open, Go, connection
<1>5. /\ fin'[e] = fin[e] /\ incoming'[e] = incoming[e] /\ outgoing'[e] = outgoing[e]
      /\ pending'[e] = pending[e] /\ reader'[e] = reader[e] /\ reads'[e] = reads[e]
      /\ errs'[e] = errs[e] /\ phase'[e] = phase[e]
      /\ up' = up
  BY <1>1, Zenon DEF Open, Go, connection
<1>6. /\ spc[t] = "open"
      /\ \/ /\ \E j \in Streams :
                  /\ opener[j] = None /\ Placed(opener', opener, j, e)
                  /\ Moved(e, t, "install", j)
            /\ openMu'[e] = openMu[e]
         \/ /\ phase[e] # "open" \/ ~up
            /\ opener' = opener /\ openMu'[e] = None /\ Moved(e, t, "failed", None)
  BY <1>1, <1>2, ZenonT(30) DEF IInv, Types, Open, Go, connection, Placed, Moved
<1>7. OpensOnly(e)
  BY <1>6, Zenon DEF OpensOnly, Placed
<1>8. \A s \in Senders[e] : Held(e, s)'
  <2>1. Held(e, t)
    BY Zenon DEF IInv, SoundAt
  <2>2. Held(e, t)'
    <3>1. ASSUME NEW j \in Streams, opener[j] = None
          PROVE  reader[e][j] = "none" /\ j \notin fin[e] /\ outgoing[e] # j
      <4>1. Installed(e, j)
        BY Zenon DEF IInv, SoundAt
      <4> QED
        BY <1>2, <3>1, <4>1, Zenon DEF Installed
    <3> QED
      BY <1>1, <1>2, <1>5, <1>6, <2>1, <3>1 DEF Held, Moved, Placed
  <2>3. ASSUME NEW s \in Senders[e], s # t PROVE Held(e, s)'
    <3>1. Held(e, s) /\ s # None
      BY OwnerFacts, Zenon DEF IInv, SoundAt
    <3>2. spc'[s] = spc[s] /\ on'[s] = on[s]
      BY <1>6, <2>3, Zenon DEF Moved
    <3> QED
      BY <1>2, <1>5, <1>6, <2>1, <2>3, <3>1, <3>2, Zenon DEF Held, Placed
  <2> QED
    BY <2>2, <2>3, Zenon
<1>9. ASSUME NEW j \in Streams PROVE Installed(e, j)' /\ Listed(e, j)'
  <2>1. Installed(e, j) /\ Listed(e, j) /\ Held(e, t)
    BY Zenon DEF IInv, SoundAt
  <2>2. WithSender(e, j) =>
           WithSender(e, j)' \/ (spc[t] \in {"install", "start"} /\ j = on[t])
    BY <1>6, Zenon DEF WithSender, Moved
  <2>3. Installed(e, j)'
    BY <1>2, <1>5, <1>6, <2>1, Zenon DEF Installed, Held, Placed
  <2>4. Listed(e, j)'
    <3>1. opener'[j] = opener[j] \/ WithSender(e, j)'
      BY <1>6, Zenon DEF WithSender, Placed, Moved
    <3> QED
      BY <1>5, <1>6, <2>1, <2>2, <3>1, Zenon DEF Listed
  <2> QED
    BY <2>3, <2>4, Zenon
<1>10. EndedAt(e)'
  BY <1>5, <1>6, Zenon DEF IInv, SoundAt, EndedAt, Placed
<1>11. SoundAt(e)'
  BY <1>8, <1>9, <1>10, Zenon DEF SoundAt
<1>12. /\ fin[e] \subseteq fin'[e]
      /\ \A j \in Streams : opener[j] = e /\ j \in fin[e] /\ reader[e][j] = "none" =>
            reader'[e][j] = "none"
  BY <1>2, <1>5, <1>6, Zenon DEF IInv, SoundAt, Held, Installed, Placed
<1>13. ArrivingAt(e)' /\ ArrivingAt(Peer(e))'
  <2> DEFINE p == Peer(e)
  <2>1. /\ Types /\ arrived[p] \in Arrivals /\ ArrivingAt(e) /\ ArrivingAt(p)
        /\ pending'[p] = pending[p]
    BY <1>2, <1>4, Zenon DEF IInv, Types, Untouched
  <2>2. /\ arrived'[e] = arrived[e]
        /\ \/ arrived'[p] = arrived[p]
           \/ \E j \in Streams : /\ opener[j] = None /\ opener'[j] = e
                                /\ arrived'[p] = Append(arrived[p], j)
    BY <1>1, <1>2 DEF IInv, Types, Open, connection
  <2>3. ArrivingAt(e)'
    BY <1>5, <1>7, <2>1, <2>2, ArrivingStays, Zenon
  <2>4. CASE arrived'[p] = arrived[p]
    BY <1>2, <1>7, <2>1, <2>3, <2>4, ArrivingStays, Zenon
  <2>5. ASSUME NEW j \in Streams, opener[j] = None, opener'[j] = e,
               arrived'[p] = Append(arrived[p], j)
        PROVE  ArrivingAt(p)'
    <3>1. pending[p][j] = "none"
      <4>1. Installed(p, j)
        BY <1>2, Zenon DEF IInv, SoundAt
      <4> QED
        BY <1>2, <2>5, <4>1, Zenon DEF Installed
    <3>2. \A k \in 1 .. Len(arrived[p]) :
            /\ arrived[p][k] \in Streams /\ opener[arrived[p][k]] = e
            /\ opener'[arrived[p][k]] = e /\ arrived[p][k] # j
      BY <1>2, <1>7, <2>1, <2>5 DEF ArrivingAt, Arrivals, OpensOnly
    <3>3. /\ Len(arrived'[p]) = Len(arrived[p]) + 1 /\ Len(arrived[p]) \in Nat
          /\ arrived'[p][Len(arrived[p]) + 1] = j
          /\ \A k \in 1 .. Len(arrived[p]) : arrived'[p][k] = arrived[p][k]
      BY <2>1, <2>5 DEF Arrivals
    <3> HIDE DEF p
    <3>4. Peer(p) = e
      BY <1>2, Zenon DEF p
    <3> QED
      BY <2>1, <2>5, <3>1, <3>2, <3>3, <3>4 DEF ArrivingAt
  <2> QED
    BY <2>2, <2>3, <2>4, <2>5, Zenon
<1>14. Calm' => Calm
  BY <1>2, <1>5, <1>6, <1>4, PeerFacts, Zenon DEF Calm, Untouched
<1>15. Calm' => \A s \in Senders[e] :
        spc'[s] = "failed" => spc[s] = "failed" \/ \E f \in Ends : Yielded(f)
  BY <1>1, <1>2, <1>5, <1>6, Zenon DEF Calm, Placed, Moved
<1>16. Calm' /\ ~BothYielded /\ (\A f \in Ends : OrderlyAt(f)) => OrderlyAt(e)'
  <2>1. SUFFICES ASSUME Calm', ~BothYielded, \A f \in Ends : OrderlyAt(f)
                 PROVE  OrderlyAt(e)'
    BY Zenon
  <2>2. up /\ phase[e] = "open" /\ phase'[e] = "open"
    BY <1>14, <2>1, Zenon DEF Calm
  <2>3. ~errs[e] /\ OpensOnce(e)
    BY <2>1, Zenon DEF OrderlyAt
  <2>4. ~errs'[e]
    BY <1>5, <1>6, <2>2, <2>3, Zenon
  <2>5. OpensOnce(e)'
    <3>1. \A s \in Senders[e] : Held(e, s)'
      BY <1>8, Zenon
    <3>2. \A j \in Streams : opener[j] # e
      BY <1>6, <2>3, Zenon DEF OpensOnce
    <3>3. \A j, k \in Streams : opener'[j] = e /\ opener'[k] = e => j = k
      BY <1>6, <3>2, Zenon DEF Placed
    <3>4. \A s \in Senders[e] : spc'[s] # "open"
      <4>1. Held(e, t)
        BY Zenon DEF IInv, SoundAt
      <4>2. openMu'[e] = t
        BY <1>6, <2>2, <4>1, Zenon DEF Held
      <4> QED
        BY <1>6, <3>1, <4>2, Zenon DEF Held, Moved
    <3> QED
      BY <3>3, <3>4, Zenon DEF OpensOnce
  <2>6. ASSUME NEW j \in Streams PROVE Given(e, j)'
    <3>1. Given(e, j) /\ Installed(e, j) /\ Given(Peer(e), j)
      BY <1>2, <2>1, Zenon DEF OrderlyAt, IInv, SoundAt
    <3> QED
      BY <1>1, <1>2, <1>5, <1>6, <1>4, <2>2, <3>1, ZenonT(30)
         DEF Given, Installed, Untouched, Placed
  <2> QED
    BY <2>4, <2>5, <2>6, Zenon DEF OrderlyAt
<1> QED
  BY <1>3, <1>7, <1>4, <1>11, <1>13, <1>14, <1>12, <1>15, <1>16, StepKeeps, Zenon

\* The invariant is kept when a sender installs the stream it opened, or gives it up
\* for one accepted meanwhile.
LEMMA InstallKeeps ==
    ASSUME Setting, IInv, NEW e \in Ends, NEW t \in Senders[e], Install(t)
    PROVE  IInv'
<1>1. /\ Owner(t) = e /\ t \in Threads /\ t # None
      /\ \A f \in Ends : \A s \in Senders[f] : s \in Threads /\ (f # e => s # t)
  BY OwnerFacts, Zenon
<1>2. /\ Peer(e) \in Ends /\ Peer(e) # e /\ Peer(Peer(e)) = e
      /\ e # None /\ Peer(e) # None /\ \A j \in Streams : j # None
  BY PeerFacts DEF Setting, Streams, None
<1>3. Types'
  BY InstallTypes, Zenon
<1>4. on[t] \in Streams
  BY <1>1, Zenon DEF IInv, SoundAt, Held, Install
<1>5. Untouched(Peer(e))
  BY <1>1, <1>2, ZenonT(30) DEF Untouched, IInv, Types, Install, Go, Existing, CloseStream, connection
<1>6. /\ incoming'[e] = incoming[e] /\ pending'[e] = pending[e]
      /\ reader'[e] = reader[e] /\ reads'[e] = reads[e] /\ errs'[e] = errs[e]
      /\ phase'[e] = phase[e]
      /\ opener' = opener
      /\ up' = up
      /\ arrived' = arrived
  BY <1>1, Zenon DEF Install, Go, Existing, CloseStream, connection
<1>7. /\ spc[t] = "install"
      /\ \/ /\ phase[e] # "open" /\ Moved(e, t, "failed", None) /\ openMu'[e] = None
            /\ fin'[e] = fin[e] \cup {on[t]} /\ outgoing'[e] = outgoing[e]
         \/ /\ phase[e] = "open" /\ (incoming[e] # None \/ outgoing[e] # None)
            /\ \E j \in Streams : Moved(e, t, "write", j)
            /\ openMu'[e] = None
            /\ fin'[e] = fin[e] \cup {on[t]} /\ outgoing'[e] = outgoing[e]
         \/ /\ phase[e] = "open" /\ incoming[e] = None /\ outgoing[e] = None
            /\ Moved(e, t, "start", on[t]) /\ openMu'[e] = openMu[e]
            /\ fin'[e] = fin[e] /\ outgoing'[e] = on[t]
  BY <1>1, <1>2, <1>4 DEF IInv, Types, Install, Go, Existing, CloseStream, connection,
     Moved
<1>8. OpensOnly(e)
  BY <1>6, Zenon DEF OpensOnly
<1>9. \A s \in Senders[e] : Held(e, s)'
  <2>1. Held(e, t)
    BY Zenon DEF IInv, SoundAt
  <2>2. Held(e, t)'
    BY <1>1, <1>2, <1>4, <1>6, <1>7, <2>1, Zenon DEF Held, Moved
  <2>3. ASSUME NEW s \in Senders[e], s # t PROVE Held(e, s)'
    <3>1. Held(e, s) /\ s # None
      BY OwnerFacts, Zenon DEF IInv, SoundAt
    <3>2. spc'[s] = spc[s] /\ on'[s] = on[s]
      BY <1>7, <2>3, Zenon DEF Moved
    <3> QED
      BY <1>2, <1>4, <1>6, <1>7, <2>1, <2>3, <3>1, <3>2, Zenon DEF Held
  <2> QED
    BY <2>2, <2>3, Zenon
<1>10. ASSUME NEW j \in Streams PROVE Installed(e, j)' /\ Listed(e, j)'
  <2>1. Installed(e, j) /\ Listed(e, j) /\ Held(e, t)
    BY Zenon DEF IInv, SoundAt
  <2>2. WithSender(e, j) =>
           WithSender(e, j)' \/ (spc[t] \in {"install", "start"} /\ j = on[t])
    BY <1>7, ZenonT(30) DEF WithSender, Moved
  <2>3. Installed(e, j)'
    BY <1>2, <1>4, <1>6, <1>7, <2>1, Zenon, ZenonT(30) DEF Installed, Held
  <2>4. Listed(e, j)'
    BY <1>2, <1>4, <1>6, <1>7, <2>1, <2>2, Zenon DEF Installed, Listed, Held
  <2> QED
    BY <2>3, <2>4, Zenon
<1>11. EndedAt(e)'
  BY <1>6, <1>7, Zenon DEF IInv, SoundAt, EndedAt
<1>12. SoundAt(e)'
  BY <1>9, <1>10, <1>11, Zenon DEF SoundAt
<1>13. /\ fin[e] \subseteq fin'[e]
      /\ \A j \in Streams : opener[j] = e /\ j \in fin[e] /\ reader[e][j] = "none" =>
            reader'[e][j] = "none"
  BY <1>2, <1>4, <1>6, <1>7, Zenon DEF IInv, SoundAt, Held, Installed
<1>14. ArrivingAt(e)' /\ ArrivingAt(Peer(e))'
  <2>1. \A j \in Streams : pending[e][j] = "none" => pending'[e][j] = "none"
    BY <1>6, Zenon
  <2>2. pending'[Peer(e)] = pending[Peer(e)]
    BY <1>5, Zenon DEF Untouched
  <2>3. arrived' = arrived /\ ArrivingAt(e) /\ ArrivingAt(Peer(e)) /\ Types
    BY <1>2, <1>6, Zenon DEF IInv
  <2> QED
    BY <1>2, <1>8, <2>1, <2>2, <2>3, ArrivingStays, Zenon
<1>15. Calm' => Calm
  BY <1>2, <1>6, <1>7, <1>5, PeerFacts, ZenonT(30) DEF Calm, Untouched
<1>16. Calm' => \A s \in Senders[e] :
        spc'[s] = "failed" => spc[s] = "failed" \/ \E f \in Ends : Yielded(f)
  BY <1>1, <1>2, <1>4, <1>6, <1>7, Zenon DEF Calm, Moved
<1>17. Calm' /\ ~BothYielded /\ (\A f \in Ends : OrderlyAt(f)) => OrderlyAt(e)'
  <2>1. SUFFICES ASSUME Calm', ~BothYielded, \A f \in Ends : OrderlyAt(f)
                 PROVE  OrderlyAt(e)'
    BY Zenon
  <2>2. up /\ phase[e] = "open" /\ phase'[e] = "open"
    BY <1>15, <2>1, Zenon DEF Calm
  <2>3. ~errs[e] /\ OpensOnce(e)
    BY <2>1, Zenon DEF OrderlyAt
  <2>4. ~errs'[e]
    BY <1>6, <1>7, <2>2, <2>3, Zenon
  <2>5. OpensOnce(e)'
    BY <1>6, <1>7, <2>2, <2>3, Zenon DEF OpensOnce, Moved
  <2>6. ASSUME NEW j \in Streams PROVE Given(e, j)'
    <3>1. Given(e, j) /\ Installed(e, j) /\ Given(Peer(e), j)
      BY <1>2, <2>1, Zenon DEF OrderlyAt, IInv, SoundAt
    <3>2. Held(e, t) /\ \A k \in Streams : Installed(e, k)
      BY ZenonT(30) DEF IInv, SoundAt
    <3>3. outgoing[e] = None
      <4>1. outgoing[e] \in Streams \cup {None}
        BY Zenon DEF IInv, Types
      <4> QED
        BY <1>4, <1>7, <2>3, <3>2, <4>1 DEF Held, Installed, OpensOnce
    <3>4. fin'[Peer(e)] = fin[Peer(e)]
      BY <1>5, Zenon DEF Untouched
    <3> QED
      BY <1>2, <1>4, <1>6, <1>7, <2>2, <3>1, <3>2, <3>3, <3>4, SMTT(30) DEF Given, Held
  <2> QED
    BY <2>4, <2>5, <2>6, Zenon DEF OrderlyAt
<1> QED
  BY <1>3, <1>8, <1>5, <1>12, <1>14, <1>15, <1>13, <1>16, <1>17, StepKeeps, Zenon

\* The invariant is kept when a sender starts the reader of the stream it installed.
LEMMA StartSendersKeeps ==
    ASSUME Setting, IInv, NEW e \in Ends, NEW t \in Senders[e], StartSenders(t)
    PROVE  IInv'
<1>1. /\ Owner(t) = e /\ t \in Threads /\ t # None
      /\ \A f \in Ends : \A s \in Senders[f] : s \in Threads /\ (f # e => s # t)
  BY OwnerFacts, Zenon
<1>2. /\ Peer(e) \in Ends /\ Peer(e) # e /\ Peer(Peer(e)) = e
      /\ e # None /\ Peer(e) # None /\ \A j \in Streams : j # None
  BY PeerFacts DEF Setting, Streams, None
<1>3. Types'
  BY StartSendersTypes, Zenon
<1>4. on[t] \in Streams
  BY <1>1, Zenon DEF IInv, SoundAt, Held, StartSenders
<1>5. Untouched(Peer(e))
  BY <1>1, <1>2 DEF Untouched, IInv, Types, StartSenders, Go, CloseStream, connection
<1>6. /\ incoming'[e] = incoming[e] /\ outgoing'[e] = outgoing[e]
      /\ pending'[e] = pending[e] /\ reads'[e] = reads[e] /\ errs'[e] = errs[e]
      /\ phase'[e] = phase[e]
      /\ opener' = opener
      /\ up' = up
      /\ arrived' = arrived
  BY <1>1, Zenon DEF StartSenders, Go, CloseStream, connection
<1>7. /\ spc[t] = "start" /\ Moved(e, t, "write", on[t]) /\ openMu'[e] = None
      /\ \/ /\ phase[e] # "open" /\ fin'[e] = fin[e] \cup {on[t]}
            /\ reader'[e] = reader[e]
         \/ /\ phase[e] = "open" /\ Placed(reader'[e], reader[e], on[t], "read")
            /\ fin'[e] = fin[e]
  BY <1>1, <1>2, <1>4 DEF IInv, Types, StartSenders, Go, CloseStream, connection,
     Placed, Moved
<1>8. OpensOnly(e)
  BY <1>6, Zenon DEF OpensOnly
<1>9. \A s \in Senders[e] : Held(e, s)'
  <2>1. Held(e, t)
    BY Zenon DEF IInv, SoundAt
  <2>2. Held(e, t)'
    BY <1>1, <1>2, <1>4, <1>6, <1>7, <2>1, Zenon DEF Held, Moved, Placed
  <2>3. ASSUME NEW s \in Senders[e], s # t PROVE Held(e, s)'
    <3>1. Held(e, s) /\ s # None
      BY OwnerFacts, Zenon DEF IInv, SoundAt
    <3>2. spc'[s] = spc[s] /\ on'[s] = on[s]
      BY <1>7, <2>3, Zenon DEF Moved
    <3> QED
      BY <1>2, <1>4, <1>6, <1>7, <2>1, <2>3, <3>1, <3>2, Zenon DEF Held, Placed
  <2> QED
    BY <2>2, <2>3, Zenon
<1>10. ASSUME NEW j \in Streams PROVE Installed(e, j)' /\ Listed(e, j)'
  <2>1. Installed(e, j) /\ Listed(e, j) /\ Held(e, t)
    BY Zenon DEF IInv, SoundAt
  <2>2. WithSender(e, j) =>
           WithSender(e, j)' \/ (spc[t] \in {"install", "start"} /\ j = on[t])
    BY <1>7, Zenon DEF WithSender, Moved
  <2>3. Installed(e, j)'
    BY <1>2, <1>4, <1>6, <1>7, <2>1, Zenon DEF Installed, Held, Placed
  <2>4. Listed(e, j)'
    BY <1>2, <1>4, <1>6, <1>7, <2>1, <2>2, Zenon DEF Installed, Listed, Held, Placed
  <2> QED
    BY <2>3, <2>4, Zenon
<1>11. EndedAt(e)'
  BY <1>6, <1>7, Zenon DEF IInv, SoundAt, EndedAt, Placed
<1>12. SoundAt(e)'
  BY <1>9, <1>10, <1>11, Zenon DEF SoundAt
<1>13. /\ fin[e] \subseteq fin'[e]
      /\ \A j \in Streams : opener[j] = e /\ j \in fin[e] /\ reader[e][j] = "none" =>
            reader'[e][j] = "none"
  <2>1. Held(e, t)
    BY Zenon DEF IInv, SoundAt
  <2> QED
    BY <1>4, <1>6, <1>7, <2>1, Zenon DEF Held, Placed
<1>14. ArrivingAt(e)' /\ ArrivingAt(Peer(e))'
  <2>1. \A j \in Streams : pending[e][j] = "none" => pending'[e][j] = "none"
    BY <1>6, Zenon
  <2>2. pending'[Peer(e)] = pending[Peer(e)]
    BY <1>5, Zenon DEF Untouched
  <2>3. arrived' = arrived /\ ArrivingAt(e) /\ ArrivingAt(Peer(e)) /\ Types
    BY <1>2, <1>6, Zenon DEF IInv
  <2> QED
    BY <1>2, <1>8, <2>1, <2>2, <2>3, ArrivingStays, Zenon
<1>15. Calm' => Calm
  BY <1>2, <1>6, <1>7, <1>5, PeerFacts, ZenonT(30) DEF Calm, Untouched
<1>16. Calm' => \A s \in Senders[e] :
        spc'[s] = "failed" => spc[s] = "failed" \/ \E f \in Ends : Yielded(f)
  BY <1>1, <1>2, <1>4, <1>6, <1>7 DEF Calm, Placed, Moved
<1>17. Calm' /\ ~BothYielded /\ (\A f \in Ends : OrderlyAt(f)) => OrderlyAt(e)'
  <2>1. SUFFICES ASSUME Calm', ~BothYielded, \A f \in Ends : OrderlyAt(f)
                 PROVE  OrderlyAt(e)'
    BY Zenon
  <2>2. up /\ phase[e] = "open" /\ phase'[e] = "open"
    BY <1>15, <2>1, Zenon DEF Calm
  <2>3. ~errs[e] /\ OpensOnce(e)
    BY <2>1, Zenon DEF OrderlyAt
  <2>4. ~errs'[e]
    BY <1>6, <1>7, <2>2, <2>3, Zenon
  <2>5. OpensOnce(e)'
    BY <1>6, <1>7, <2>2, <2>3, Zenon DEF OpensOnce, Moved
  <2>6. ASSUME NEW j \in Streams PROVE Given(e, j)'
    <3>1. Given(e, j) /\ Installed(e, j) /\ Given(Peer(e), j)
      BY <1>2, <2>1, Zenon DEF OrderlyAt, IInv, SoundAt
    <3>2. Held(e, t)
      BY Zenon DEF IInv, SoundAt
    <3>3. fin'[Peer(e)] = fin[Peer(e)]
      BY <1>5, Zenon DEF Untouched
    <3> QED
      BY <1>4, <1>6, <1>7, <2>2, <3>1, <3>2, <3>3, Zenon DEF Given, Held, Placed
  <2> QED
    BY <2>4, <2>5, <2>6, Zenon DEF OrderlyAt
<1> QED
  BY <1>3, <1>8, <1>5, <1>12, <1>14, <1>15, <1>13, <1>16, <1>17, StepKeeps, Zenon

\* The invariant is kept when a sender writes a frame to its stream.
LEMMA WriteKeeps ==
    ASSUME Setting, IInv, NEW e \in Ends, NEW t \in Senders[e], Write(t)
    PROVE  IInv'
<1>1. /\ Owner(t) = e /\ t \in Threads /\ t # None
      /\ \A f \in Ends : \A s \in Senders[f] : s \in Threads /\ (f # e => s # t)
  BY OwnerFacts, Zenon
<1>2. /\ Peer(e) \in Ends /\ Peer(e) # e /\ Peer(Peer(e)) = e
      /\ e # None /\ Peer(e) # None /\ \A j \in Streams : j # None
  BY PeerFacts DEF Setting, Streams, None
<1>3. Types'
  BY WriteTypes, Zenon
<1>4. on[t] \in Streams
  BY <1>1, Zenon DEF IInv, SoundAt, Held, Write
<1>5. Untouched(Peer(e))
  BY <1>1, <1>2 DEF Untouched, IInv, Types, Write, Go, connection
<1>6. /\ fin'[e] = fin[e] /\ incoming'[e] = incoming[e] /\ outgoing'[e] = outgoing[e]
      /\ openMu'[e] = openMu[e] /\ pending'[e] = pending[e] /\ reader'[e] = reader[e]
      /\ reads'[e] = reads[e] /\ errs'[e] = errs[e] /\ phase'[e] = phase[e]
      /\ opener' = opener
      /\ up' = up
      /\ arrived' = arrived
  BY <1>1, Zenon DEF Write, Go, connection
<1>7. /\ spc[t] = "write"
      /\ \/ Moved(e, t, "idle", None)
         \/ (on[t] \in fin[e] \/ ~up) /\ Moved(e, t, "failed", None)
  BY <1>1, <1>2, <1>4 DEF IInv, Types, Write, Go, connection, Moved
<1>8. OpensOnly(e)
  BY <1>6, Zenon DEF OpensOnly
<1>9. \A s \in Senders[e] : Held(e, s)'
  <2>1. Held(e, t)
    BY Zenon DEF IInv, SoundAt
  <2>2. Held(e, t)'
    BY <1>1, <1>2, <1>4, <1>6, <1>7, <2>1, Zenon DEF Held, Moved
  <2>3. ASSUME NEW s \in Senders[e], s # t PROVE Held(e, s)'
    <3>1. Held(e, s) /\ s # None
      BY OwnerFacts, Zenon DEF IInv, SoundAt
    <3>2. spc'[s] = spc[s] /\ on'[s] = on[s]
      BY <1>7, <2>3, Zenon DEF Moved
    <3> QED
      BY <1>2, <1>4, <1>6, <1>7, <2>1, <2>3, <3>1, <3>2, Zenon DEF Held
  <2> QED
    BY <2>2, <2>3, Zenon
<1>10. ASSUME NEW j \in Streams PROVE Installed(e, j)' /\ Listed(e, j)'
  <2>1. Installed(e, j) /\ Listed(e, j) /\ Held(e, t)
    BY Zenon DEF IInv, SoundAt
  <2>2. WithSender(e, j) =>
           WithSender(e, j)' \/ (spc[t] \in {"install", "start"} /\ j = on[t])
    BY <1>7, Zenon DEF WithSender, Moved
  <2>3. Installed(e, j)'
    BY <1>2, <1>4, <1>6, <1>7, <2>1, Zenon DEF Installed, Held
  <2>4. Listed(e, j)'
    BY <1>2, <1>4, <1>6, <1>7, <2>1, <2>2, Zenon DEF Installed, Listed, Held
  <2> QED
    BY <2>3, <2>4, Zenon
<1>11. EndedAt(e)'
  BY <1>6, <1>7, Zenon DEF IInv, SoundAt, EndedAt
<1>12. SoundAt(e)'
  BY <1>9, <1>10, <1>11, Zenon DEF SoundAt
<1>13. /\ fin[e] \subseteq fin'[e]
      /\ \A j \in Streams : opener[j] = e /\ j \in fin[e] /\ reader[e][j] = "none" =>
            reader'[e][j] = "none"
  BY <1>2, <1>4, <1>6, <1>7, Zenon DEF IInv, SoundAt, Held, Installed
<1>14. ArrivingAt(e)' /\ ArrivingAt(Peer(e))'
  <2>1. \A j \in Streams : pending[e][j] = "none" => pending'[e][j] = "none"
    BY <1>6, Zenon
  <2>2. pending'[Peer(e)] = pending[Peer(e)]
    BY <1>5, Zenon DEF Untouched
  <2>3. arrived' = arrived /\ ArrivingAt(e) /\ ArrivingAt(Peer(e)) /\ Types
    BY <1>2, <1>6, Zenon DEF IInv
  <2> QED
    BY <1>2, <1>8, <2>1, <2>2, <2>3, ArrivingStays, Zenon
<1>15. Calm' => Calm
  BY <1>2, <1>6, <1>7, <1>5, PeerFacts, Zenon DEF Calm, Untouched
<1>16. Calm' => \A s \in Senders[e] :
        spc'[s] = "failed" => spc[s] = "failed" \/ \E f \in Ends : Yielded(f)
  <2>1. SUFFICES ASSUME Calm, on[t] \in fin[e] PROVE \E f \in Ends : Yielded(f)
    BY <1>6, <1>7, <1>15, Zenon DEF Calm, Moved
  <2>2. CASE BothYielded
    BY <2>2, Zenon DEF BothYielded
  <2>3. CASE ~BothYielded
    <3>1. OrderlyAt(e) /\ OrderlyAt(Peer(e))
      BY <1>2, <2>1, <2>3, Zenon DEF IInv, Orderly
    <3>2. Given(e, on[t]) /\ Given(Peer(e), on[t]) /\ Installed(e, on[t])
      BY <1>4, <3>1, Zenon DEF OrderlyAt, IInv, SoundAt
    <3>3. opener[on[t]] = e \/ opener[on[t]] = Peer(e)
      BY <1>4, <2>1, <3>2, PeerFacts DEF Installed, IInv, Types
    <3> QED
      BY <1>2, <1>4, <2>1, <3>2, <3>3, Zenon DEF Given, Yielded
  <2> QED
    BY <2>2, <2>3, Zenon
<1>17. Calm' /\ ~BothYielded /\ (\A f \in Ends : OrderlyAt(f)) => OrderlyAt(e)'
  <2>1. SUFFICES ASSUME Calm', ~BothYielded, \A f \in Ends : OrderlyAt(f)
                 PROVE  OrderlyAt(e)'
    BY Zenon
  <2>2. up /\ phase[e] = "open" /\ phase'[e] = "open"
    BY <1>15, <2>1, Zenon DEF Calm
  <2>3. ~errs[e] /\ OpensOnce(e)
    BY <2>1, Zenon DEF OrderlyAt
  <2>4. ~errs'[e]
    BY <1>6, <1>7, <2>2, <2>3, Zenon
  <2>5. OpensOnce(e)'
    BY <1>6, <1>7, <2>2, <2>3, Zenon DEF OpensOnce, Moved
  <2>6. ASSUME NEW j \in Streams PROVE Given(e, j)'
    <3>1. Given(e, j) /\ Installed(e, j) /\ Given(Peer(e), j)
      BY <1>2, <2>1, Zenon DEF OrderlyAt, IInv, SoundAt
    <3> QED
      BY <1>1, <1>2, <1>4, <1>6, <1>7, <1>5, <2>2, <3>1, Zenon
         DEF Given, Installed, Untouched
  <2> QED
    BY <2>4, <2>5, <2>6, Zenon DEF OrderlyAt
<1> QED
  BY <1>3, <1>8, <1>5, <1>12, <1>14, <1>15, <1>13, <1>16, <1>17, StepKeeps, Zenon

\* The invariant is kept when the accept loop takes the next stream of the
\* connection.
LEMMA AcceptKeeps ==
    ASSUME Setting, IInv, NEW e \in Ends, Accept(e)
    PROVE  IInv'
<1>1. /\ Peer(e) \in Ends /\ Peer(e) # e /\ Peer(Peer(e)) = e
      /\ e # None /\ Peer(e) # None /\ \A j \in Streams : j # None
  BY PeerFacts DEF Setting, Streams, None
<1>2. Types'
  BY AcceptTypes, Zenon
<1>3. Head(arrived[e]) \in Streams
  BY DEF IInv, Types, Accept, Arrivals
<1>4. Untouched(Peer(e))
  BY <1>1 DEF Untouched, IInv, Types, Accept, CloseStream, connection
<1>5. /\ incoming'[e] = incoming[e] /\ outgoing'[e] = outgoing[e]
      /\ openMu'[e] = openMu[e] /\ reader'[e] = reader[e] /\ reads'[e] = reads[e]
      /\ phase'[e] = phase[e]
      /\ spc' = spc /\ on' = on
      /\ opener' = opener
      /\ up' = up
  BY Zenon DEF Accept, CloseStream, connection
<1>6. \/ /\ phase[e] = "open"
         /\ Placed(pending'[e], pending[e], Head(arrived[e]), "preface")
         /\ fin'[e] = fin[e] /\ errs'[e] = errs[e]
      \/ /\ phase[e] # "open" /\ fin'[e] = fin[e] \cup {Head(arrived[e])}
         /\ pending'[e] = pending[e] /\ errs'[e] = errs[e]
      \/ ~up /\ fin'[e] = fin[e] /\ pending'[e] = pending[e]
  BY <1>1, <1>3 DEF IInv, Types, Accept, CloseStream, connection, Placed
<1>7. OpensOnly(e)
  BY <1>5, Zenon DEF OpensOnly
<1>8. ASSUME NEW s \in Senders[e] PROVE Held(e, s)'
  <2>1. Held(e, s)
    BY Zenon DEF IInv, SoundAt
  <2>2. \A j \in Streams : Installed(e, j)
    BY Zenon DEF IInv, SoundAt
  <2> QED
    BY <1>1, <1>3, <1>5, <1>6, <2>1, <2>2, Zenon DEF Held, Installed, Placed
<1>9. ASSUME NEW j \in Streams PROVE Installed(e, j)' /\ Listed(e, j)'
  <2>1. Installed(e, j) /\ Listed(e, j)
    BY Zenon DEF IInv, SoundAt
  <2>2. WithSender(e, j) => WithSender(e, j)'
    BY <1>5, ZenonT(30) DEF WithSender
  <2>3. Installed(e, j)'
    <3>1. opener[Head(arrived[e])] = Peer(e) /\ pending[e][Head(arrived[e])] = "none"
      BY <1>3 DEF IInv, Types, Accept, ArrivingAt, Arrivals
    <3> QED
      BY <1>1, <1>5, <1>6, <2>1, <3>1, ZenonT(30) DEF Installed, Placed
  <2>4. Listed(e, j)'
    BY <1>1, <1>3, <1>5, <1>6, <2>1, <2>2, Zenon DEF Installed, Listed, Placed
  <2> QED
    BY <2>3, <2>4, Zenon
<1>10. EndedAt(e)'
  BY <1>5, <1>6, Zenon DEF IInv, SoundAt, EndedAt, Placed
<1>11. SoundAt(e)'
  BY <1>8, <1>9, <1>10, Zenon DEF SoundAt
<1>12. /\ fin[e] \subseteq fin'[e]
      /\ \A j \in Streams : opener[j] = e /\ j \in fin[e] /\ reader[e][j] = "none" =>
            reader'[e][j] = "none"
  BY <1>1, <1>3, <1>5, <1>6, Zenon DEF IInv, SoundAt, Held, Installed, Placed
<1>13. ArrivingAt(e)' /\ ArrivingAt(Peer(e))'
  <2>1. /\ Types /\ arrived[e] \in Arrivals /\ arrived[e] # <<>>
        /\ ArrivingAt(e) /\ ArrivingAt(Peer(e))
    BY <1>1, Zenon DEF IInv, Types, Accept
  <2>2. /\ arrived'[Peer(e)] = arrived[Peer(e)]
        /\ \/ /\ arrived'[e] = Tail(arrived[e])
              /\ \A j \in Streams \ {Head(arrived[e])} : pending'[e][j] = pending[e][j]
           \/ arrived'[e] = <<>>
    BY <1>1, <1>3 DEF IInv, Types, Accept
  <2>3. ArrivingAt(Peer(e))'
    <3>1. pending'[Peer(e)] = pending[Peer(e)]
      BY <1>4, Zenon DEF Untouched
    <3> QED
      BY <1>1, <1>7, <2>1, <2>2, <3>1, ArrivingStays, Zenon
  <2>4. CASE arrived'[e] = <<>>
    BY <2>3, <2>4, SMTT(30) DEF ArrivingAt
  <2>5. CASE /\ arrived'[e] = Tail(arrived[e])
             /\ \A j \in Streams \ {Head(arrived[e])} : pending'[e][j] = pending[e][j]
    <3>1. /\ Len(arrived'[e]) = Len(arrived[e]) - 1 /\ Len(arrived[e]) \in Nat
          /\ \A k \in 1 .. Len(arrived[e]) - 1 : arrived'[e][k] = arrived[e][k + 1]
          /\ \A k \in 1 .. Len(arrived[e]) : arrived[e][k] \in Streams
          /\ Head(arrived[e]) = arrived[e][1]
      BY <2>1, <2>5 DEF Arrivals
    <3>2. \A k \in 1 .. Len(arrived[e]) - 1 : arrived[e][k + 1] # arrived[e][1]
      BY <2>1, <3>1 DEF ArrivingAt
    <3> QED
      BY <1>5, <2>1, <2>3, <2>5, <3>1, <3>2 DEF ArrivingAt
  <2> QED
    BY <2>2, <2>4, <2>5, Zenon
<1>14. Calm' => Calm
  BY <1>1, <1>5, <1>6, <1>4, PeerFacts, Zenon DEF Calm, Untouched
<1>15. \A s \in Senders[e] : spc'[s] = spc[s]
  BY <1>5, Zenon
<1>16. Calm' /\ ~BothYielded /\ (\A f \in Ends : OrderlyAt(f)) => OrderlyAt(e)'
  <2>1. SUFFICES ASSUME Calm', ~BothYielded, \A f \in Ends : OrderlyAt(f)
                 PROVE  OrderlyAt(e)'
    BY Zenon
  <2>2. up /\ phase[e] = "open" /\ phase'[e] = "open"
    BY <1>14, <2>1, Zenon DEF Calm
  <2>3. ~errs[e] /\ OpensOnce(e)
    BY <2>1, Zenon DEF OrderlyAt
  <2>4. ~errs'[e]
    BY <1>5, <1>6, <2>2, <2>3, Zenon
  <2>5. OpensOnce(e)'
    BY <1>5, <1>6, <2>2, <2>3, Zenon DEF OpensOnce
  <2>6. ASSUME NEW j \in Streams PROVE Given(e, j)'
    <3>1. Given(e, j) /\ Installed(e, j) /\ Given(Peer(e), j)
      BY <1>1, <2>1, Zenon DEF OrderlyAt, IInv, SoundAt
    <3> QED
      BY <1>1, <1>3, <1>5, <1>6, <1>4, <2>2, <3>1, Zenon
         DEF Given, Installed, Untouched, Placed
  <2> QED
    BY <2>4, <2>5, <2>6, Zenon DEF OrderlyAt
<1> QED
  BY <1>2, <1>7, <1>4, <1>11, <1>13, <1>14, <1>12, <1>15, <1>16, StepKeeps, Zenon

\* The invariant is kept when an accepted stream has sent its preface, or has not in
\* time.
LEMMA AcceptStreamKeeps ==
    ASSUME Setting, IInv, NEW e \in Ends, NEW i \in Streams, AcceptStream(e, i)
    PROVE  IInv'
<1>1. /\ Peer(e) \in Ends /\ Peer(e) # e /\ Peer(Peer(e)) = e
      /\ e # None /\ Peer(e) # None /\ \A j \in Streams : j # None
  BY PeerFacts DEF Setting, Streams, None
<1>2. Types'
  BY AcceptStreamTypes, Zenon
<1>3. Untouched(Peer(e))
  BY <1>1, ZenonT(30) DEF Untouched, IInv, Types, AcceptStream, CloseStream, connection
<1>4. /\ outgoing'[e] = outgoing[e] /\ openMu'[e] = openMu[e]
      /\ reader'[e] = reader[e] /\ reads'[e] = reads[e] /\ phase'[e] = phase[e]
      /\ spc' = spc /\ on' = on
      /\ opener' = opener
      /\ up' = up
      /\ arrived' = arrived
  BY Zenon DEF AcceptStream, CloseStream, connection
<1>5. /\ pending[e][i] = "preface"
      /\ \/ /\ Placed(pending'[e], pending[e], i, "done")
            /\ fin'[e] = fin[e] \cup {i} /\ incoming'[e] = incoming[e]
            /\ ~up \/ phase[e] # "open" \/ incoming[e] # None
         \/ /\ phase[e] = "open" /\ incoming[e] = None /\ incoming'[e] = i
            /\ Placed(pending'[e], pending[e], i, "start")
            /\ fin'[e] = fin[e] /\ errs'[e] = errs[e]
  BY <1>1 DEF IInv, Types, AcceptStream, CloseStream, connection, Placed
<1>6. OpensOnly(e)
  BY <1>4, Zenon DEF OpensOnly
<1>7. ASSUME NEW s \in Senders[e] PROVE Held(e, s)'
  <2>1. Held(e, s)
    BY Zenon DEF IInv, SoundAt
  <2>2. \A j \in Streams : Installed(e, j)
    BY Zenon DEF IInv, SoundAt
  <2> QED
    BY <1>1, <1>4, <1>5, <2>1, <2>2, Zenon DEF Held, Installed, Placed
<1>8. ASSUME NEW j \in Streams PROVE Installed(e, j)' /\ Listed(e, j)'
  <2>1. Installed(e, j) /\ Listed(e, j)
    BY Zenon DEF IInv, SoundAt
  <2>2. WithSender(e, j) => WithSender(e, j)'
    BY <1>4, Zenon DEF WithSender
  <2>3. Installed(e, j)'
    <3>1. Installed(e, i)
      BY Zenon DEF IInv, SoundAt
    <3> QED
      BY <1>1, <1>4, <1>5, <2>1, <3>1, Zenon DEF Installed, Placed
  <2>4. Listed(e, j)'
    <3>1. CASE j = i
      BY <1>1, <1>4, <1>5, <2>1, <3>1, Zenon DEF Installed, Listed, Placed
    <3>2. CASE j # i
      BY <1>1, <1>4, <1>5, <2>1, <2>2, <3>2, Zenon DEF Listed, Placed
    <3> QED
      BY <3>1, <3>2, Zenon
  <2> QED
    BY <2>3, <2>4, Zenon
<1>9. EndedAt(e)'
  BY <1>4, <1>5, Zenon DEF IInv, SoundAt, EndedAt, Placed
<1>10. SoundAt(e)'
  BY <1>7, <1>8, <1>9, Zenon DEF SoundAt
<1>11. /\ fin[e] \subseteq fin'[e]
       /\ \A j \in Streams : opener[j] = e /\ j \in fin[e] /\ reader[e][j] = "none" =>
            reader'[e][j] = "none"
  BY <1>1, <1>4, <1>5, Zenon DEF IInv, SoundAt, Held, Installed, Placed
<1>12. ArrivingAt(e)' /\ ArrivingAt(Peer(e))'
  <2>1. \A j \in Streams : pending[e][j] = "none" => pending'[e][j] = "none"
    BY <1>4, <1>5, Zenon DEF Placed
  <2>2. pending'[Peer(e)] = pending[Peer(e)]
    BY <1>3, Zenon DEF Untouched
  <2>3. arrived' = arrived /\ ArrivingAt(e) /\ ArrivingAt(Peer(e)) /\ Types
    BY <1>1, <1>4, Zenon DEF IInv
  <2> QED
    BY <1>1, <1>6, <2>1, <2>2, <2>3, ArrivingStays, Zenon
<1>13. Calm' => Calm
  BY <1>1, <1>4, <1>5, <1>3, PeerFacts, Zenon DEF Calm, Untouched
<1>14. \A s \in Senders[e] : spc'[s] = spc[s]
  BY <1>4, Zenon
<1>15. Calm' /\ ~BothYielded /\ (\A f \in Ends : OrderlyAt(f)) => OrderlyAt(e)'
  <2>1. SUFFICES ASSUME Calm', ~BothYielded, \A f \in Ends : OrderlyAt(f)
                 PROVE  OrderlyAt(e)'
    BY Zenon
  <2>2. up /\ phase[e] = "open" /\ phase'[e] = "open"
    BY <1>13, <2>1, Zenon DEF Calm
  <2>3. ~errs[e] /\ OpensOnce(e)
    BY <2>1, Zenon DEF OrderlyAt
  <2>4. incoming[e] = None
    <3>1. incoming[e] \in Streams \cup {None} /\ \A k \in Streams : Installed(e, k)
      BY Zenon DEF IInv, Types, SoundAt
    <3>2. OpensOnce(Peer(e))
      BY <1>1, <2>1, Zenon DEF OrderlyAt
    <3> QED
      BY <1>5, <3>1, <3>2, Zenon DEF Installed, OpensOnce
  <2>5. ~errs'[e]
    BY <1>5, <2>2, <2>3, <2>4, Zenon
  <2>6. OpensOnce(e)'
    BY <1>4, <1>5, <2>2, <2>3, Zenon DEF OpensOnce
  <2>7. ASSUME NEW j \in Streams PROVE Given(e, j)'
    <3>1. Given(e, j) /\ Installed(e, j) /\ Given(Peer(e), j)
      BY <1>1, <2>1, Zenon DEF OrderlyAt, IInv, SoundAt
    <3>2. fin'[Peer(e)] = fin[Peer(e)]
      BY <1>3, Zenon DEF Untouched
    <3> QED
      BY <1>1, <1>4, <1>5, <2>2, <2>4, <3>1, <3>2, Zenon DEF Given
  <2> QED
    BY <2>5, <2>6, <2>7, Zenon DEF OrderlyAt
<1> QED
  BY <1>2, <1>6, <1>3, <1>10, <1>12, <1>13, <1>11, <1>14, <1>15, StepKeeps, Zenon

\* The invariant is kept when the reader of an accepted stream is started.
LEMMA StartAcceptedKeeps ==
    ASSUME Setting, IInv, NEW e \in Ends, NEW i \in Streams, StartAccepted(e, i)
    PROVE  IInv'
<1>1. /\ Peer(e) \in Ends /\ Peer(e) # e /\ Peer(Peer(e)) = e
      /\ e # None /\ Peer(e) # None /\ \A j \in Streams : j # None
  BY PeerFacts DEF Setting, Streams, None
<1>2. Types'
  BY StartAcceptedTypes, Zenon
<1>3. Untouched(Peer(e))
  BY <1>1, Zenon DEF Untouched, IInv, Types, StartAccepted, CloseStream, connection
<1>4. /\ incoming'[e] = incoming[e] /\ outgoing'[e] = outgoing[e]
      /\ openMu'[e] = openMu[e] /\ reads'[e] = reads[e] /\ errs'[e] = errs[e]
      /\ phase'[e] = phase[e]
      /\ spc' = spc /\ on' = on
      /\ opener' = opener
      /\ up' = up
      /\ arrived' = arrived
  BY Zenon DEF StartAccepted, CloseStream, connection
<1>5. /\ pending[e][i] = "start" /\ Placed(pending'[e], pending[e], i, "done")
      /\ \/ /\ phase[e] # "open" /\ fin'[e] = fin[e] \cup {i} /\ reader'[e] = reader[e]
         \/ /\ phase[e] = "open" /\ Placed(reader'[e], reader[e], i, "read")
            /\ fin'[e] = fin[e]
  BY <1>1 DEF IInv, Types, StartAccepted, CloseStream, connection, Placed
<1>6. OpensOnly(e)
  BY <1>4, Zenon DEF OpensOnly
<1>7. ASSUME NEW s \in Senders[e] PROVE Held(e, s)'
  <2>1. Held(e, s)
    BY Zenon DEF IInv, SoundAt
  <2>2. \A j \in Streams : Installed(e, j)
    BY Zenon DEF IInv, SoundAt
  <2> QED
    BY <1>1, <1>4, <1>5, <2>1, <2>2, Zenon DEF Held, Installed, Placed
<1>8. ASSUME NEW j \in Streams PROVE Installed(e, j)' /\ Listed(e, j)'
  <2>1. Installed(e, j) /\ Listed(e, j)
    BY Zenon DEF IInv, SoundAt
  <2>2. WithSender(e, j) => WithSender(e, j)'
    BY <1>4, Zenon DEF WithSender
  <2>3. Installed(e, j)'
    BY <1>1, <1>4, <1>5, <2>1, Zenon DEF Installed, Placed
  <2>4. Listed(e, j)'
    BY <1>1, <1>4, <1>5, <2>1, <2>2, Zenon DEF Installed, Listed, Placed
  <2> QED
    BY <2>3, <2>4, Zenon
<1>9. EndedAt(e)'
  BY <1>4, <1>5, ZenonT(30) DEF IInv, SoundAt, EndedAt, Placed
<1>10. SoundAt(e)'
  BY <1>7, <1>8, <1>9, Zenon DEF SoundAt
<1>11. /\ fin[e] \subseteq fin'[e]
       /\ \A j \in Streams : opener[j] = e /\ j \in fin[e] /\ reader[e][j] = "none" =>
            reader'[e][j] = "none"
  <2>1. Installed(e, i)
    BY Zenon DEF IInv, SoundAt
  <2>2. opener[i] # e
    BY <1>1, <1>4, <1>5, <2>1 DEF Installed
  <2> QED
    BY <1>4, <1>5, <2>2, Zenon DEF Placed
<1>12. ArrivingAt(e)' /\ ArrivingAt(Peer(e))'
  <2>1. \A j \in Streams : pending[e][j] = "none" => pending'[e][j] = "none"
    BY <1>4, <1>5, Zenon DEF Placed
  <2>2. pending'[Peer(e)] = pending[Peer(e)]
    BY <1>3, Zenon DEF Untouched
  <2>3. arrived' = arrived /\ ArrivingAt(e) /\ ArrivingAt(Peer(e)) /\ Types
    BY <1>1, <1>4, Zenon DEF IInv
  <2> QED
    BY <1>1, <1>6, <2>1, <2>2, <2>3, ArrivingStays, Zenon
<1>13. Calm' => Calm
  BY <1>1, <1>4, <1>5, <1>3, PeerFacts, Zenon DEF Calm, Untouched
<1>14. \A s \in Senders[e] : spc'[s] = spc[s]
  BY <1>4, Zenon
<1>15. Calm' /\ ~BothYielded /\ (\A f \in Ends : OrderlyAt(f)) => OrderlyAt(e)'
  <2>1. SUFFICES ASSUME Calm', ~BothYielded, \A f \in Ends : OrderlyAt(f)
                 PROVE  OrderlyAt(e)'
    BY Zenon
  <2>2. up /\ phase[e] = "open" /\ phase'[e] = "open"
    BY <1>13, <2>1, Zenon DEF Calm
  <2>3. ~errs[e] /\ OpensOnce(e)
    BY <2>1, Zenon DEF OrderlyAt
  <2>4. ~errs'[e]
    BY <1>4, <1>5, <2>2, <2>3, Zenon
  <2>5. OpensOnce(e)'
    BY <1>4, <1>5, <2>2, <2>3, Zenon DEF OpensOnce
  <2>6. ASSUME NEW j \in Streams PROVE Given(e, j)'
    <3>1. Given(e, j) /\ Installed(e, j) /\ Given(Peer(e), j)
      BY <1>1, <2>1, Zenon DEF OrderlyAt, IInv, SoundAt
    <3> QED
      BY <1>1, <1>4, <1>5, <1>3, <2>2, <3>1, Zenon DEF Given, Installed, Untouched, Placed
  <2> QED
    BY <2>4, <2>5, <2>6, Zenon DEF OrderlyAt
<1> QED
  BY <1>2, <1>6, <1>3, <1>10, <1>12, <1>13, <1>11, <1>14, <1>15, StepKeeps, Zenon

\* The invariant is kept when a reader reads a frame, or the end of its stream.
LEMMA ReadStreamKeeps ==
    ASSUME Setting, IInv, NEW e \in Ends, NEW i \in Streams, ReadStream(e, i)
    PROVE  IInv'
<1>1. /\ Peer(e) \in Ends /\ Peer(e) # e /\ Peer(Peer(e)) = e
      /\ e # None /\ Peer(e) # None /\ \A j \in Streams : j # None
  BY PeerFacts DEF Setting, Streams, None
<1>2. Types'
  BY ReadStreamTypes, Zenon
<1>3. Untouched(Peer(e))
  BY <1>1 DEF Untouched, IInv, Types, ReadStream, removeStream, Forget, CloseStream,
     connection
<1>4. /\ openMu'[e] = openMu[e] /\ pending'[e] = pending[e] /\ reads'[e] = reads[e]
      /\ phase'[e] = phase[e]
      /\ spc' = spc /\ on' = on
      /\ opener' = opener
      /\ up' = up
      /\ arrived' = arrived
  BY Zenon DEF ReadStream, removeStream, Forget, CloseStream, connection
<1>5. /\ reader[e][i] = "read"
      /\ \/ /\ Placed(reader'[e], reader[e], i, "hold") /\ fin'[e] = fin[e]
            /\ incoming'[e] = incoming[e] /\ outgoing'[e] = outgoing[e]
            /\ errs'[e] = errs[e]
         \/ Removed(e, i) /\ i \in fin[Peer(e)] /\ errs'[e] = errs[e]
         \/ Removed(e, i) /\ ~up
  <2>1. /\ reader[e] \in [Streams -> {"none", "read", "hold", "done"}]
        /\ e \in DOMAIN reader /\ e \in DOMAIN fin /\ e \in DOMAIN incoming
        /\ e \in DOMAIN outgoing
    BY Zenon DEF IInv, Types
  <2>2. removeStream(e, i) => Removed(e, i)
    BY <2>1, Zenon DEF removeStream, Removed, Forget, CloseStream, Placed
  <2>3. reader' = [reader EXCEPT ![e][i] = "hold"] =>
          Placed(reader'[e], reader[e], i, "hold")
    BY <2>1, Zenon DEF Placed
  <2> QED
    BY <2>2, <2>3, Zenon DEF ReadStream
<1>6. OpensOnly(e)
  BY <1>4, Zenon DEF OpensOnly
<1>7. ASSUME NEW s \in Senders[e] PROVE Held(e, s)'
  <2>1. Held(e, s)
    BY Zenon DEF IInv, SoundAt
  <2>3. on[s] \in Streams /\ reader[e][on[s]] = "none" => reader'[e][on[s]] = "none"
    BY <1>5, Zenon DEF Placed, Removed
  <2>4. spc[s] \in {"install", "start"} =>
          on[s] # i /\ on[s] # None /\ (on[s] \in fin'[e] => on[s] \in fin[e])
    BY <1>1, <1>5, <2>1, Zenon DEF Held, Placed, Removed
  <2>5. outgoing'[e] = outgoing[e] \/ (outgoing[e] = i /\ outgoing'[e] = None)
    BY <1>5, Zenon DEF Removed
  <2> QED
    BY <1>4, <2>1, <2>3, <2>4, <2>5, Zenon DEF Held
<1>8. ASSUME NEW j \in Streams PROVE Installed(e, j)' /\ Listed(e, j)'
  <2>1. Installed(e, j) /\ Listed(e, j)
    BY Zenon DEF IInv, SoundAt
  <2>2. WithSender(e, j) => WithSender(e, j)'
    BY <1>4, Zenon DEF WithSender
  <2>3. Installed(e, j)'
    <3>1. Installed(e, i)
      BY Zenon DEF IInv, SoundAt
    <3>2. reader'[e][j] # "none" <=> reader[e][j] # "none"
      BY <1>5, Zenon DEF Placed, Removed
    <3>3. /\ incoming'[e] = incoming[e] \/ (incoming[e] = i /\ incoming'[e] = None)
          /\ outgoing'[e] = outgoing[e] \/ (outgoing[e] = i /\ outgoing'[e] = None)
          /\ j \in fin'[e] => j \in fin[e] \/ j = i
      BY <1>5, Zenon DEF Removed
    <3> QED
      BY <1>1, <1>4, <1>5, <2>1, <3>1, <3>2, <3>3, Zenon DEF Installed
  <2>4. Listed(e, j)'
    BY <1>1, <1>4, <1>5, <2>1, <2>2, Zenon DEF Installed, Listed, Placed, Removed
  <2> QED
    BY <2>3, <2>4, Zenon
<1>9. EndedAt(e)'
  BY <1>4, <1>5, Zenon DEF IInv, SoundAt, EndedAt, Placed, Removed
<1>10. SoundAt(e)'
  BY <1>7, <1>8, <1>9, Zenon DEF SoundAt
<1>11. /\ fin[e] \subseteq fin'[e]
       /\ \A j \in Streams : opener[j] = e /\ j \in fin[e] /\ reader[e][j] = "none" =>
            reader'[e][j] = "none"
  BY <1>1, <1>4, <1>5, Zenon DEF IInv, SoundAt, Held, Installed, Placed, Removed
<1>12. ArrivingAt(e)' /\ ArrivingAt(Peer(e))'
  <2>1. \A j \in Streams : pending[e][j] = "none" => pending'[e][j] = "none"
    BY <1>4, Zenon
  <2>2. pending'[Peer(e)] = pending[Peer(e)]
    BY <1>3, Zenon DEF Untouched
  <2>3. arrived' = arrived /\ ArrivingAt(e) /\ ArrivingAt(Peer(e)) /\ Types
    BY <1>1, <1>4, Zenon DEF IInv
  <2> QED
    BY <1>1, <1>6, <2>1, <2>2, <2>3, ArrivingStays, Zenon
<1>13. Calm' => Calm
  BY <1>1, <1>4, <1>5, <1>3, PeerFacts, Zenon DEF Calm, Untouched
<1>14. \A s \in Senders[e] : spc'[s] = spc[s]
  BY <1>4, Zenon
<1>15. Calm' /\ ~BothYielded /\ (\A f \in Ends : OrderlyAt(f)) => OrderlyAt(e)'
  <2>1. SUFFICES ASSUME Calm', ~BothYielded, \A f \in Ends : OrderlyAt(f)
                 PROVE  OrderlyAt(e)'
    BY Zenon
  <2>2. up /\ phase[e] = "open" /\ phase'[e] = "open"
    BY <1>13, <2>1, Zenon DEF Calm
  <2>3. ~errs[e] /\ OpensOnce(e)
    BY <2>1, Zenon DEF OrderlyAt
  <2>4. ~errs'[e]
    BY <1>4, <1>5, <2>2, <2>3, Zenon
  <2>5. OpensOnce(e)'
    BY <1>4, <1>5, <2>2, <2>3, Zenon DEF OpensOnce
  <2>6. ASSUME NEW j \in Streams PROVE Given(e, j)'
    <3>1. Given(e, j) /\ Installed(e, j) /\ Given(Peer(e), j)
      BY <1>1, <2>1, Zenon DEF OrderlyAt, IInv, SoundAt
    <3>2. fin'[Peer(e)] = fin[Peer(e)]
      BY <1>3, Zenon DEF Untouched
    <3>3. CASE /\ Placed(reader'[e], reader[e], i, "hold") /\ fin'[e] = fin[e]
               /\ incoming'[e] = incoming[e]
      BY <1>4, <1>5, <3>1, <3>2, <3>3, Zenon DEF Given, Placed
    <3>4. CASE Removed(e, i) /\ i \in fin[Peer(e)]
      <4>1. Given(e, i) /\ Given(Peer(e), i) /\ Installed(e, i)
        BY <1>1, <2>1, Zenon DEF OrderlyAt, IInv, SoundAt
      <4>2. opener[i] # e
        BY <1>1, <1>5, <3>4, <4>1, Zenon DEF Given
      <4>3. opener[i] = Peer(e) /\ Yielded(Peer(e))
        BY <1>1, <1>5, <3>4, <4>1, <4>2, Zenon DEF Installed, Given, Yielded
      <4>4. ~Yielded(e)
        BY <2>1, <4>3, PeerFacts, Zenon DEF BothYielded
      <4>5. ~(opener[j] = e /\ j \in fin[e])
        BY <3>1, <4>4, ZenonT(30) DEF Yielded, Given
      <4> QED
        BY <1>4, <3>1, <3>2, <3>4, <4>2, <4>5, Zenon DEF Given, Removed
    <3> QED
      BY <1>5, <2>2, <3>3, <3>4, Zenon
  <2> QED
    BY <2>4, <2>5, <2>6, Zenon DEF OrderlyAt
<1> QED
  BY <1>2, <1>6, <1>3, <1>10, <1>12, <1>13, <1>11, <1>14, <1>15, StepKeeps, Zenon

\* The invariant is kept when a reader queues the frame it holds, or gives it back.
LEMMA QueueLeaseKeeps ==
    ASSUME Setting, IInv, NEW e \in Ends, NEW i \in Streams, QueueLease(e, i)
    PROVE  IInv'
<1>1. /\ Peer(e) \in Ends /\ Peer(e) # e /\ Peer(Peer(e)) = e
      /\ e # None /\ Peer(e) # None /\ \A j \in Streams : j # None
  BY PeerFacts DEF Setting, Streams, None
<1>2. Types'
  BY QueueLeaseTypes, Zenon
<1>3. Untouched(Peer(e))
  BY <1>1 DEF Untouched, IInv, Types, QueueLease, removeStream, Forget, CloseStream,
     connection
<1>4. /\ openMu'[e] = openMu[e] /\ pending'[e] = pending[e] /\ errs'[e] = errs[e]
      /\ phase'[e] = phase[e]
      /\ spc' = spc /\ on' = on
      /\ opener' = opener
      /\ up' = up
      /\ arrived' = arrived
  BY Zenon DEF QueueLease, removeStream, Forget, CloseStream, connection
<1>5. /\ reader[e][i] = "hold"
      /\ \/ /\ Placed(reader'[e], reader[e], i, "read") /\ fin'[e] = fin[e]
            /\ incoming'[e] = incoming[e] /\ outgoing'[e] = outgoing[e]
         \/ Removed(e, i) /\ phase[e] # "open" /\ reads'[e] = reads[e]
  BY <1>1 DEF IInv, Types, QueueLease, removeStream, Forget, CloseStream, connection,
     Removed, Placed
<1>6. OpensOnly(e)
  BY <1>4, Zenon DEF OpensOnly
<1>7. ASSUME NEW s \in Senders[e] PROVE Held(e, s)'
  <2>1. Held(e, s)
    BY Zenon DEF IInv, SoundAt
  <2>3. on[s] \in Streams /\ reader[e][on[s]] = "none" => reader'[e][on[s]] = "none"
    BY <1>5, Zenon DEF Placed, Removed
  <2>4. spc[s] \in {"install", "start"} =>
          on[s] # i /\ on[s] # None /\ (on[s] \in fin'[e] => on[s] \in fin[e])
    BY <1>1, <1>5, <2>1, Zenon DEF Held, Placed, Removed
  <2>5. outgoing'[e] = outgoing[e] \/ (outgoing[e] = i /\ outgoing'[e] = None)
    BY <1>5, Zenon DEF Removed
  <2> QED
    BY <1>4, <2>1, <2>3, <2>4, <2>5, Zenon DEF Held
<1>8. ASSUME NEW j \in Streams PROVE Installed(e, j)' /\ Listed(e, j)'
  <2>1. Installed(e, j) /\ Listed(e, j)
    BY Zenon DEF IInv, SoundAt
  <2>2. WithSender(e, j) => WithSender(e, j)'
    BY <1>4, Zenon DEF WithSender
  <2>3. Installed(e, j)'
    <3>1. Installed(e, i)
      BY Zenon DEF IInv, SoundAt
    <3>2. reader'[e][j] # "none" <=> reader[e][j] # "none"
      BY <1>5, Zenon DEF Placed, Removed
    <3>3. /\ incoming'[e] = incoming[e] \/ (incoming[e] = i /\ incoming'[e] = None)
          /\ outgoing'[e] = outgoing[e] \/ (outgoing[e] = i /\ outgoing'[e] = None)
          /\ j \in fin'[e] => j \in fin[e] \/ j = i
      BY <1>5, Zenon DEF Removed
    <3> QED
      BY <1>1, <1>4, <1>5, <2>1, <3>1, <3>2, <3>3, Zenon DEF Installed
  <2>4. Listed(e, j)'
    BY <1>1, <1>4, <1>5, <2>1, <2>2, Zenon DEF Installed, Listed, Placed, Removed
  <2> QED
    BY <2>3, <2>4, Zenon
<1>9. EndedAt(e)'
  BY <1>4, <1>5, Zenon DEF IInv, SoundAt, EndedAt, Placed, Removed
<1>10. SoundAt(e)'
  BY <1>7, <1>8, <1>9, Zenon DEF SoundAt
<1>11. /\ fin[e] \subseteq fin'[e]
       /\ \A j \in Streams : opener[j] = e /\ j \in fin[e] /\ reader[e][j] = "none" =>
            reader'[e][j] = "none"
  BY <1>1, <1>4, <1>5, Zenon DEF IInv, SoundAt, Held, Installed, Placed, Removed
<1>12. ArrivingAt(e)' /\ ArrivingAt(Peer(e))'
  <2>1. \A j \in Streams : pending[e][j] = "none" => pending'[e][j] = "none"
    BY <1>4, Zenon
  <2>2. pending'[Peer(e)] = pending[Peer(e)]
    BY <1>3, Zenon DEF Untouched
  <2>3. arrived' = arrived /\ ArrivingAt(e) /\ ArrivingAt(Peer(e)) /\ Types
    BY <1>1, <1>4, Zenon DEF IInv
  <2> QED
    BY <1>1, <1>6, <2>1, <2>2, <2>3, ArrivingStays, Zenon
<1>13. Calm' => Calm
  BY <1>1, <1>4, <1>5, <1>3, PeerFacts, Zenon DEF Calm, Untouched
<1>14. \A s \in Senders[e] : spc'[s] = spc[s]
  BY <1>4, Zenon
<1>15. Calm' /\ ~BothYielded /\ (\A f \in Ends : OrderlyAt(f)) => OrderlyAt(e)'
  <2>1. SUFFICES ASSUME Calm', ~BothYielded, \A f \in Ends : OrderlyAt(f)
                 PROVE  OrderlyAt(e)'
    BY Zenon
  <2>2. up /\ phase[e] = "open" /\ phase'[e] = "open"
    BY <1>13, <2>1, Zenon DEF Calm
  <2>3. ~errs[e] /\ OpensOnce(e)
    BY <2>1, Zenon DEF OrderlyAt
  <2>4. ~errs'[e]
    BY <1>4, <1>5, <2>2, <2>3, Zenon
  <2>5. OpensOnce(e)'
    BY <1>4, <1>5, <2>2, <2>3, Zenon DEF OpensOnce
  <2>6. ASSUME NEW j \in Streams PROVE Given(e, j)'
    <3>1. Given(e, j) /\ Installed(e, j) /\ Given(Peer(e), j)
      BY <1>1, <2>1, Zenon DEF OrderlyAt, IInv, SoundAt
    <3> QED
      BY <1>1, <1>4, <1>5, <1>3, <2>2, <3>1, Zenon
         DEF Given, Installed, Untouched, Placed,
         Removed
  <2> QED
    BY <2>4, <2>5, <2>6, Zenon DEF OrderlyAt
<1> QED
  BY <1>2, <1>6, <1>3, <1>10, <1>12, <1>13, <1>11, <1>14, <1>15, StepKeeps, Zenon

\* The invariant is kept when ReadFrameLease takes a frame off the queue.
LEMMA ReadFrameLeaseKeeps ==
    ASSUME Setting, IInv, NEW e \in Ends, ReadFrameLease(e)
    PROVE  IInv'
<1>1. /\ Peer(e) \in Ends /\ Peer(e) # e /\ Peer(Peer(e)) = e
      /\ e # None /\ Peer(e) # None /\ \A j \in Streams : j # None
  BY PeerFacts DEF Setting, Streams, None
<1>2. Types'
  BY ReadFrameLeaseTypes, Zenon
<1>3. Untouched(Peer(e))
  BY <1>1, Zenon DEF Untouched, IInv, Types, ReadFrameLease, connection
<1>4. /\ fin'[e] = fin[e] /\ incoming'[e] = incoming[e] /\ outgoing'[e] = outgoing[e]
      /\ openMu'[e] = openMu[e] /\ pending'[e] = pending[e] /\ reader'[e] = reader[e]
      /\ errs'[e] = errs[e] /\ phase'[e] = phase[e]
      /\ spc' = spc /\ on' = on
      /\ opener' = opener
      /\ up' = up
      /\ arrived' = arrived
  BY Zenon DEF ReadFrameLease, connection
<1>5. phase[e] # "closed"
  BY <1>1, Zenon DEF IInv, Types, ReadFrameLease, connection
<1>6. OpensOnly(e)
  BY <1>4, Zenon DEF OpensOnly
<1>7. ASSUME NEW s \in Senders[e] PROVE Held(e, s)'
  <2>1. Held(e, s)
    BY Zenon DEF IInv, SoundAt
  <2>2. \A j \in Streams : Installed(e, j)
    BY Zenon DEF IInv, SoundAt
  <2> QED
    BY <1>1, <1>4, <1>5, <2>1, <2>2, Zenon DEF Held, Installed
<1>8. ASSUME NEW j \in Streams PROVE Installed(e, j)' /\ Listed(e, j)'
  <2>1. Installed(e, j) /\ Listed(e, j)
    BY Zenon DEF IInv, SoundAt
  <2>2. WithSender(e, j) => WithSender(e, j)'
    BY <1>4, Zenon DEF WithSender
  <2>3. Installed(e, j)'
    BY <1>1, <1>4, <1>5, <2>1, Zenon DEF Installed
  <2>4. Listed(e, j)'
    BY <1>1, <1>4, <1>5, <2>1, <2>2, Zenon DEF Installed, Listed
  <2> QED
    BY <2>3, <2>4, Zenon
<1>9. EndedAt(e)'
  BY <1>4, <1>5, Zenon DEF IInv, SoundAt, EndedAt
<1>10. SoundAt(e)'
  BY <1>7, <1>8, <1>9, Zenon DEF SoundAt
<1>11. /\ fin[e] \subseteq fin'[e]
       /\ \A j \in Streams : opener[j] = e /\ j \in fin[e] /\ reader[e][j] = "none" =>
            reader'[e][j] = "none"
  BY <1>1, <1>4, <1>5, Zenon DEF IInv, SoundAt, Held, Installed
<1>12. ArrivingAt(e)' /\ ArrivingAt(Peer(e))'
  <2>1. \A j \in Streams : pending[e][j] = "none" => pending'[e][j] = "none"
    BY <1>4, Zenon
  <2>2. pending'[Peer(e)] = pending[Peer(e)]
    BY <1>3, Zenon DEF Untouched
  <2>3. arrived' = arrived /\ ArrivingAt(e) /\ ArrivingAt(Peer(e)) /\ Types
    BY <1>1, <1>4, Zenon DEF IInv
  <2> QED
    BY <1>1, <1>6, <2>1, <2>2, <2>3, ArrivingStays, Zenon
<1>13. Calm' => Calm
  BY <1>1, <1>4, <1>5, <1>3, PeerFacts, Zenon DEF Calm, Untouched
<1>14. \A s \in Senders[e] : spc'[s] = spc[s]
  BY <1>4, Zenon
<1>15. Calm' /\ ~BothYielded /\ (\A f \in Ends : OrderlyAt(f)) => OrderlyAt(e)'
  <2>1. SUFFICES ASSUME Calm', ~BothYielded, \A f \in Ends : OrderlyAt(f)
                 PROVE  OrderlyAt(e)'
    BY Zenon
  <2>2. up /\ phase[e] = "open" /\ phase'[e] = "open"
    BY <1>13, <2>1, Zenon DEF Calm
  <2>3. ~errs[e] /\ OpensOnce(e)
    BY <2>1, Zenon DEF OrderlyAt
  <2>4. ~errs'[e]
    BY <1>4, <1>5, <2>2, <2>3, Zenon
  <2>5. OpensOnce(e)'
    BY <1>4, <1>5, <2>2, <2>3, Zenon DEF OpensOnce
  <2>6. ASSUME NEW j \in Streams PROVE Given(e, j)'
    <3>1. Given(e, j) /\ Installed(e, j) /\ Given(Peer(e), j)
      BY <1>1, <2>1, Zenon DEF OrderlyAt, IInv, SoundAt
    <3> QED
      BY <1>1, <1>4, <1>5, <1>3, <2>2, <3>1, Zenon DEF Given, Installed, Untouched
  <2> QED
    BY <2>4, <2>5, <2>6, Zenon DEF OrderlyAt
<1> QED
  BY <1>2, <1>6, <1>3, <1>10, <1>12, <1>13, <1>11, <1>14, <1>15, StepKeeps, Zenon

\* The invariant is kept when Close closes every stream that is listed.
LEMMA CloseKeeps ==
    ASSUME Setting, IInv, NEW e \in Ends, Close(e)
    PROVE  IInv'
<1>1. /\ Peer(e) \in Ends /\ Peer(e) # e /\ Peer(Peer(e)) = e
      /\ e # None /\ Peer(e) # None /\ \A j \in Streams : j # None
  BY PeerFacts DEF Setting, Streams, None
<1>2. Types'
  BY CloseTypes, Zenon
<1>3. Untouched(Peer(e))
  BY <1>1, Zenon DEF Untouched, IInv, Types, Close, connection
<1>4. /\ incoming'[e] = incoming[e] /\ outgoing'[e] = outgoing[e]
      /\ openMu'[e] = openMu[e] /\ pending'[e] = pending[e] /\ reader'[e] = reader[e]
      /\ reads'[e] = reads[e] /\ errs'[e] = errs[e]
      /\ spc' = spc /\ on' = on
      /\ opener' = opener
      /\ up' = up
      /\ arrived' = arrived
  BY Zenon DEF Close, connection
<1>5. /\ phase[e] = "open" /\ phase'[e] = "closing"
      /\ fin[e] \subseteq fin'[e]
      /\ fin'[e] \subseteq fin[e] \cup Awaited(e) \cup {incoming[e], outgoing[e]}
      /\ incoming[e] # None => incoming[e] \in fin'[e]
      /\ outgoing[e] # None => outgoing[e] \in fin'[e]
  BY <1>1, Zenon DEF IInv, Types, Close, connection, Awaited
<1>6. OpensOnly(e)
  BY <1>4, Zenon DEF OpensOnly
<1>7. ASSUME NEW s \in Senders[e] PROVE Held(e, s)'
  <2>1. Held(e, s)
    BY Zenon DEF IInv, SoundAt
  <2>2. \A j \in Streams : Installed(e, j)
    BY Zenon DEF IInv, SoundAt
  <2> QED
    BY <1>1, <1>4, <1>5, <2>1, <2>2, Zenon DEF Held, Installed
<1>8. ASSUME NEW j \in Streams PROVE Installed(e, j)' /\ Listed(e, j)'
  <2>1. Installed(e, j) /\ Listed(e, j)
    BY Zenon DEF IInv, SoundAt
  <2>2. WithSender(e, j) => WithSender(e, j)'
    BY <1>4, Zenon DEF WithSender
  <2>3. Installed(e, j)'
    BY <1>1, <1>4, <1>5, <2>1, Zenon DEF Installed, Awaited
  <2>4. Listed(e, j)'
    BY <1>1, <1>4, <1>5, <2>1, <2>2, Zenon DEF Listed
  <2> QED
    BY <2>3, <2>4, Zenon
<1>9. EndedAt(e)'
  BY <1>4, <1>5, Zenon DEF IInv, SoundAt, EndedAt
<1>10. SoundAt(e)'
  BY <1>7, <1>8, <1>9, Zenon DEF SoundAt
<1>11. /\ fin[e] \subseteq fin'[e]
       /\ \A j \in Streams : opener[j] = e /\ j \in fin[e] /\ reader[e][j] = "none" =>
            reader'[e][j] = "none"
  BY <1>1, <1>4, <1>5, Zenon DEF IInv, SoundAt, Held, Installed
<1>12. ArrivingAt(e)' /\ ArrivingAt(Peer(e))'
  <2>1. \A j \in Streams : pending[e][j] = "none" => pending'[e][j] = "none"
    BY <1>4, Zenon
  <2>2. pending'[Peer(e)] = pending[Peer(e)]
    BY <1>3, Zenon DEF Untouched
  <2>3. arrived' = arrived /\ ArrivingAt(e) /\ ArrivingAt(Peer(e)) /\ Types
    BY <1>1, <1>4, Zenon DEF IInv
  <2> QED
    BY <1>1, <1>6, <2>1, <2>2, <2>3, ArrivingStays, Zenon
<1>13. Calm' => Calm
  BY <1>1, <1>4, <1>5, <1>3, PeerFacts, Zenon DEF Calm, Untouched
<1>14. \A s \in Senders[e] : spc'[s] = spc[s]
  BY <1>4, Zenon
<1>15. Calm' /\ ~BothYielded /\ (\A f \in Ends : OrderlyAt(f)) => OrderlyAt(e)'
  <2>1. SUFFICES ASSUME Calm', ~BothYielded, \A f \in Ends : OrderlyAt(f)
                 PROVE  OrderlyAt(e)'
    BY Zenon
  <2>2. up /\ phase[e] = "open" /\ phase'[e] = "open"
    BY <1>13, <2>1, Zenon DEF Calm
  <2>3. ~errs[e] /\ OpensOnce(e)
    BY <2>1, Zenon DEF OrderlyAt
  <2>4. ~errs'[e]
    BY <1>4, <1>5, <2>2, <2>3, Zenon
  <2>5. OpensOnce(e)'
    BY <1>4, <1>5, <2>2, <2>3, Zenon DEF OpensOnce
  <2>6. ASSUME NEW j \in Streams PROVE Given(e, j)'
    <3>1. Given(e, j) /\ Installed(e, j) /\ Given(Peer(e), j)
      BY <1>1, <2>1, Zenon DEF OrderlyAt, IInv, SoundAt
    <3> QED
      BY <1>1, <1>4, <1>5, <1>3, <2>2, <3>1, Zenon DEF Given, Installed, Untouched
  <2> QED
    BY <2>4, <2>5, <2>6, Zenon DEF OrderlyAt
<1> QED
  BY <1>2, <1>6, <1>3, <1>10, <1>12, <1>13, <1>11, <1>14, <1>15, StepKeeps, Zenon

\* The invariant is kept when Close has waited for the goroutines and empties the
\* queue.
LEMMA CloseReturnsKeeps ==
    ASSUME Setting, IInv, NEW e \in Ends, CloseReturns(e)
    PROVE  IInv'
<1>1. /\ Peer(e) \in Ends /\ Peer(e) # e /\ Peer(Peer(e)) = e
      /\ e # None /\ Peer(e) # None /\ \A j \in Streams : j # None
  BY PeerFacts DEF Setting, Streams, None
<1>2. Types'
  BY CloseReturnsTypes, Zenon
<1>3. Untouched(Peer(e))
  BY <1>1, Zenon DEF Untouched, IInv, Types, CloseReturns, connection
<1>4. /\ fin'[e] = fin[e] /\ incoming'[e] = incoming[e] /\ outgoing'[e] = outgoing[e]
      /\ openMu'[e] = openMu[e] /\ pending'[e] = pending[e] /\ reader'[e] = reader[e]
      /\ errs'[e] = errs[e]
      /\ spc' = spc /\ on' = on
      /\ opener' = opener
      /\ up' = up
      /\ arrived' = arrived
  BY Zenon DEF CloseReturns, connection
<1>5. /\ phase[e] = "closing" /\ phase'[e] = "closed" /\ reads'[e] = <<>>
      /\ \A j \in Streams : /\ reader[e][j] \in {"none", "done"}
                            /\ pending[e][j] \in {"none", "done"}
  <2>1. /\ reader[e] \in [Streams -> {"none", "read", "hold", "done"}]
        /\ pending[e] \in [Streams -> {"none", "preface", "start", "done"}]
        /\ e \in DOMAIN phase /\ e \in DOMAIN reads
    BY Zenon DEF IInv, Types
  <2> QED
    BY <2>1, Zenon DEF CloseReturns, Awaited, Reading
<1>6. OpensOnly(e)
  BY <1>4, Zenon DEF OpensOnly
<1>7. ASSUME NEW s \in Senders[e] PROVE Held(e, s)'
  <2>1. Held(e, s)
    BY Zenon DEF IInv, SoundAt
  <2>2. \A j \in Streams : Installed(e, j)
    BY Zenon DEF IInv, SoundAt
  <2> QED
    BY <1>1, <1>4, <1>5, <2>1, <2>2, Zenon DEF Held, Installed
<1>8. ASSUME NEW j \in Streams PROVE Installed(e, j)' /\ Listed(e, j)'
  <2>1. Installed(e, j) /\ Listed(e, j)
    BY Zenon DEF IInv, SoundAt
  <2>2. WithSender(e, j) => WithSender(e, j)'
    BY <1>4, Zenon DEF WithSender
  <2>3. Installed(e, j)'
    BY <1>1, <1>4, <1>5, <2>1, Zenon DEF Installed
  <2>4. Listed(e, j)'
    BY <1>1, <1>4, <1>5, <2>1, <2>2, Zenon DEF Installed, Listed
  <2> QED
    BY <2>3, <2>4, Zenon
<1>9. EndedAt(e)'
  BY <1>4, <1>5, Zenon DEF IInv, SoundAt, EndedAt
<1>10. SoundAt(e)'
  BY <1>7, <1>8, <1>9, Zenon DEF SoundAt
<1>11. /\ fin[e] \subseteq fin'[e]
       /\ \A j \in Streams : opener[j] = e /\ j \in fin[e] /\ reader[e][j] = "none" =>
            reader'[e][j] = "none"
  BY <1>1, <1>4, <1>5, Zenon DEF IInv, SoundAt, Held, Installed
<1>12. ArrivingAt(e)' /\ ArrivingAt(Peer(e))'
  <2>1. \A j \in Streams : pending[e][j] = "none" => pending'[e][j] = "none"
    BY <1>4, Zenon
  <2>2. pending'[Peer(e)] = pending[Peer(e)]
    BY <1>3, Zenon DEF Untouched
  <2>3. arrived' = arrived /\ ArrivingAt(e) /\ ArrivingAt(Peer(e)) /\ Types
    BY <1>1, <1>4, Zenon DEF IInv
  <2> QED
    BY <1>1, <1>6, <2>1, <2>2, <2>3, ArrivingStays, Zenon
<1>13. Calm' => Calm
  BY <1>1, <1>4, <1>5, <1>3, PeerFacts, Zenon DEF Calm, Untouched
<1>14. \A s \in Senders[e] : spc'[s] = spc[s]
  BY <1>4, Zenon
<1>15. Calm' /\ ~BothYielded /\ (\A f \in Ends : OrderlyAt(f)) => OrderlyAt(e)'
  <2>1. SUFFICES ASSUME Calm', ~BothYielded, \A f \in Ends : OrderlyAt(f)
                 PROVE  OrderlyAt(e)'
    BY Zenon
  <2>2. up /\ phase[e] = "open" /\ phase'[e] = "open"
    BY <1>13, <2>1, Zenon DEF Calm
  <2>3. ~errs[e] /\ OpensOnce(e)
    BY <2>1, Zenon DEF OrderlyAt
  <2>4. ~errs'[e]
    BY <1>4, <1>5, <2>2, <2>3, Zenon
  <2>5. OpensOnce(e)'
    BY <1>4, <1>5, <2>2, <2>3, Zenon DEF OpensOnce
  <2>6. ASSUME NEW j \in Streams PROVE Given(e, j)'
    <3>1. Given(e, j) /\ Installed(e, j) /\ Given(Peer(e), j)
      BY <1>1, <2>1, Zenon DEF OrderlyAt, IInv, SoundAt
    <3> QED
      BY <1>1, <1>4, <1>5, <1>3, <2>2, <3>1, Zenon DEF Given, Installed, Untouched
  <2> QED
    BY <2>4, <2>5, <2>6, Zenon DEF OrderlyAt
<1> QED
  BY <1>2, <1>6, <1>3, <1>10, <1>12, <1>13, <1>11, <1>14, <1>15, StepKeeps, Zenon

\* What SoundAt and ArrivingAt speak of determines them.
LEMMA SameSound ==
    ASSUME IInv, UNCHANGED <<opener, fin, arrived, incoming, outgoing, openMu, pending>>,
           UNCHANGED <<reader, reads, phase, spc, on>>, NEW e \in Ends
    PROVE  SoundAt(e)' /\ ArrivingAt(e)'
<1>1. \A t \in Senders[e] : Held(e, t)' <=> Held(e, t)
  BY Zenon DEF Held
<1>2. \A i \in Streams : Installed(e, i)' <=> Installed(e, i)
  BY Zenon DEF Installed
<1>3. \A i \in Streams : Listed(e, i)' <=> Listed(e, i)
  BY Zenon DEF Listed, WithSender
<1>4. (EndedAt(e)' <=> EndedAt(e)) /\ (ArrivingAt(e)' <=> ArrivingAt(e))
  BY Zenon DEF EndedAt, ArrivingAt
<1> QED
  BY <1>1, <1>2, <1>3, <1>4, Zenon DEF IInv, SoundAt

\* The invariant survives the end of the connection, which leaves a session that is
\* not calm.
LEMMA ConnectionEndsKeeps ==
    ASSUME Setting, IInv, ConnectionEnds
    PROVE  IInv'
<1>1. /\ UNCHANGED <<opener, flow, fin, arrived, incoming, outgoing, openMu, pending>>
      /\ UNCHANGED <<reader, lease, reads, errs, phase, spc, on, sent>>
      /\ up' = FALSE
  BY Zenon DEF ConnectionEnds
<1>2. Types'
  BY <1>1, Zenon DEF IInv, Types
<1>3. \A e \in Ends : SoundAt(e)' /\ ArrivingAt(e)'
  BY <1>1, SameSound, Zenon
<1>4. ~Calm'
  BY <1>1, Zenon DEF Calm
<1> QED
  BY <1>2, <1>3, <1>4, Zenon DEF IInv, Failing, Orderly

\* A step that changes nothing keeps the invariant.
LEMMA StutterKeeps ==
    ASSUME IInv, UNCHANGED vars
    PROVE  IInv'
<1>1. /\ UNCHANGED <<opener, flow, fin, up, arrived, incoming, outgoing, openMu, pending>>
      /\ UNCHANGED <<reader, lease, reads, errs, phase, spc, on, sent>>
  BY Zenon DEF vars, connection
<1>2. Types'
  BY <1>1, Zenon DEF IInv, Types
<1>3. \A e \in Ends : SoundAt(e)' /\ ArrivingAt(e)'
  BY <1>1, SameSound, Zenon
<1>4. /\ Calm' <=> Calm
      /\ \A e \in Ends : (Yielded(e)' <=> Yielded(e)) /\ (OrderlyAt(e)' <=> OrderlyAt(e))
  BY <1>1, Zenon DEF Calm, Yielded, OrderlyAt, OpensOnce, Given
<1>5. Failing'
  BY <1>1, <1>4, Zenon DEF IInv, Failing
<1>6. Orderly'
  BY <1>4, Zenon DEF IInv, Orderly, BothYielded
<1> QED
  BY <1>2, <1>3, <1>5, <1>6, Zenon DEF IInv

\* The invariant holds of a new session.
LEMMA InitIInv ==
    ASSUME Setting, Init
    PROVE  IInv
<1>1. Types
  <2>1. <<>> \in Frames /\ <<>> \in Arrivals /\ Len(<<>>) = 0
    BY DEF Frames, Arrivals
  <2>2. /\ opener \in [Streams -> Ends \cup {None}]
        /\ fin \in [Ends -> SUBSET Streams] /\ up \in BOOLEAN
        /\ incoming \in [Ends -> Streams \cup {None}]
        /\ outgoing \in [Ends -> Streams \cup {None}]
        /\ openMu \in [Ends -> Threads \cup {None}]
        /\ \A e \in Ends : openMu[e] \in Senders[e] \cup {None}
    BY Zenon DEF Init
  <2>3. /\ pending \in [Ends -> [Streams -> {"none", "preface", "start", "done"}]]
        /\ reader \in [Ends -> [Streams -> {"none", "read", "hold", "done"}]]
        /\ phase \in [Ends -> {"open", "closing", "closed"}]
        /\ errs \in [Ends -> BOOLEAN]
    BY Zenon DEF Init
  <2>4. /\ spc \in [Threads -> {"absent", "idle", "open", "install", "start", "write",
                               "failed"}]
        /\ on \in [Threads -> Streams \cup {None}]
    BY Zenon DEF Init
  <2>5. /\ flow \in [Ends -> [Streams -> Frames]] /\ arrived \in [Ends -> Arrivals]
        /\ reads \in [Ends -> Frames] /\ \A e \in Ends : Len(reads[e]) <= ReadQueue
        /\ lease \in [Ends -> [Streams -> Nat]] /\ sent \in [Ends -> Nat]
    BY <2>1 DEF Init, Setting
  <2> QED
    BY <2>2, <2>3, <2>4, <2>5, Zenon DEF Types
<1>2. ASSUME NEW e \in Ends PROVE SoundAt(e) /\ ArrivingAt(e)
  <2>1. e # None /\ \A i \in Streams : i # None
    BY DEF Setting, Streams, None
  <2>2. \A t \in Senders[e] : t # None /\ spc[t] \in {"idle", "absent"}
    BY OwnerFacts, Zenon DEF Init
  <2>3. \A t \in Senders[e] : Held(e, t)
    BY <2>2, Zenon DEF Init, Held
  <2>4. \A i \in Streams : Installed(e, i) /\ Listed(e, i)
    BY <2>1, Zenon DEF Init, Installed, Listed
  <2>5. EndedAt(e)
    BY Zenon DEF Init, EndedAt
  <2>6. ArrivingAt(e)
    <3>1. Len(arrived[e]) = 0
      BY Zenon DEF Init
    <3> QED
      BY <3>1 DEF ArrivingAt
  <2> QED
    BY <2>3, <2>4, <2>5, <2>6, Zenon DEF SoundAt
<1>3. Failing
  BY Zenon DEF Failing, Init
<1>4. Orderly
  BY Zenon DEF Orderly, OrderlyAt, OpensOnce, Given, Init, Setting
<1> QED
  BY <1>1, <1>2, <1>3, <1>4, Zenon DEF IInv

\* Every step keeps the invariant.
LEMMA NextKeeps ==
    ASSUME Setting, IInv, [Next]_vars
    PROVE  IInv'
<1>1. ASSUME NEW t \in Threads, Sending(t) PROVE IInv'
  <2>1. PICK e \in Ends : t \in Senders[e]
    BY Zenon DEF Threads
  <2> QED
    BY <1>1, <2>1, LookKeeps, OpenKeeps, InstallKeeps, StartSendersKeeps, WriteKeeps, Zenon
       DEF Sending
<1>2. ASSUME NEW e \in Ends, NEW i \in Streams, Serving(e, i) PROVE IInv'
  BY <1>2, AcceptStreamKeeps, StartAcceptedKeeps, ReadStreamKeeps, QueueLeaseKeeps, Zenon
     DEF Serving
<1>3. ASSUME NEW e \in Ends,
             Accept(e) \/ ReadFrameLease(e) \/ Close(e) \/ CloseReturns(e)
      PROVE  IInv'
  BY <1>3, AcceptKeeps, ReadFrameLeaseKeeps, CloseKeeps, CloseReturnsKeeps, Zenon
<1> QED
  BY <1>1, <1>2, <1>3, ConnectionEndsKeeps, StutterKeeps, Zenon DEF Next

\* The inductive invariant holds throughout, for any number of senders and streams
\* and any capacity of the read queue (multistream_transport.go).
THEOREM Invariance ==
    ASSUME Setting PROVE Spec => []IInv
<1>1. Init => IInv
  BY InitIInv, Zenon
<1>2. IInv /\ [Next]_vars => IInv'
  BY NextKeeps, Zenon
<1> QED
  BY <1>1, <1>2, PTL DEF Spec

\* The variables keep their types: in particular the queue of read frames never
\* exceeds its capacity, and openMu is never held by a sender of the other end.
THEOREM StreamTypes ==
    ASSUME Setting PROVE Spec => []TypeOK
<1>1. IInv => TypeOK
  BY DEF IInv, Types, TypeOK
<1> QED
  BY <1>1, Invariance, PTL

\* When Close returns, no frame lease is left in the queue, no goroutine of the
\* transport reads or awaits a preface, and every stream the end opened or accepted
\* is closed or in the hands of a sender that will close it (Close, readLoop,
\* acceptStream, streamForChannel).
THEOREM ClosedIsEmpty ==
    ASSUME Setting PROVE Spec => []CloseLeavesNothing
<1>1. ASSUME IInv, NEW e \in Ends, phase[e] = "closed"
      PROVE  /\ reads[e] = <<>> /\ Reading(e) = {} /\ Awaited(e) = {}
             /\ \A i \in Streams :
                   opener[i] = e \/ pending[e][i] = "done" =>
                       \/ i \in fin[e]
                       \/ \E t \in Senders[e] :
                             spc[t] \in {"install", "start"} /\ on[t] = i
  <2>1. SoundAt(e)
    BY <1>1, Zenon DEF IInv
  <2>2. reads[e] = <<>> /\ Reading(e) = {} /\ Awaited(e) = {}
    BY <1>1, <2>1, Zenon DEF SoundAt, EndedAt, Reading, Awaited
  <2> QED
    BY <1>1, <2>1, <2>2, Zenon DEF SoundAt, Listed, WithSender
<1>2. IInv => CloseLeavesNothing
  BY <1>1, Zenon DEF CloseLeavesNothing
<1> QED
  BY <1>2, Invariance, PTL

\* On a connection that is up between two sessions that are open, acceptStream
\* reports a session error only if both ends have given a stream up for the other's,
\* and a sender fails only if one of them has (streamForChannel, acceptStream).
THEOREM YieldBeforeErrors ==
    ASSUME Setting PROVE Spec => []ErrorsOnlyAfterYield
<1>1. ASSUME IInv, Calm PROVE (\E e \in Ends : errs[e]) => \A e \in Ends : Yielded(e)
  BY <1>1, Zenon DEF IInv, Orderly, OrderlyAt, BothYielded
<1>2. ASSUME IInv, Calm
      PROVE  (\E t \in Threads : spc[t] = "failed") => \E e \in Ends : Yielded(e)
  BY <1>2, Zenon DEF IInv, Failing
<1>3. IInv => ErrorsOnlyAfterYield
  BY <1>1, <1>2, Zenon DEF ErrorsOnlyAfterYield, Calm
<1> QED
  BY <1>3, Invariance, PTL
=============================================================================
