------------------------------- MODULE MCParts -------------------------------
(***************************************************************************)
(* The parts of the system that do not interact with each other, for TLC   *)
(* in one run: a behaviour is one of Handshake, MultiStream,               *)
(* OutgoingMonitor, Bodies, Resume, Router or the send queue, as part      *)
(* says.  The parts take turns with the variables v1 to v17; a part with   *)
(* fewer leaves the rest at 0.                                             *)
(* Codec has no state and no steps: what it says of all messages is an     *)
(* invariant of the one state in which part is "wire".                     *)
(***************************************************************************)
EXTENDS Integers, Sequences, TLC

CONSTANTS
    Capabilities, MaxAuth, MaxRequests, MaxFaults,
    A, B, a1, a2, b1, MaxStreams, MaxFrames, ReadQueue, PrefaceLimit,
    a, b, OutTransfers, Buffers, AckTimeout, RetryLimit,
    InTransfers, Writers, ChunkCount, MaxMemory, MaxFileFaults,
    ResumeChunks, MaxSessions, MaxResumes,
    MaxGroups, MaxUses, MaxRoutes,
    QueueFrames, QueueBytes

\* Two goroutines send at one end, or one at each, or all three
MCSenders == (A :> {a1, a2}) @@ (B :> {b1})
MCTeams == {{a1, b1}, {a1, a2}, {a1, a2, b1}}
MCChunkCount == (a :> 2) @@ (b :> 1)
MCGroupPrefixes == {<<>>, <<"a">>}
MCNames == {<<>>, <<"b">>}
MCPatterns == {<<"*">>, <<"b">>, <<"a", "*">>}

\* One frame per priority, a critical frame of a channel other than the control
\* channel, and a frame whose priority byte is out of range
MCpriority == [crit |-> 0, data |-> 0, high |-> 1, norm |-> 2, low |-> 3, odd |-> 7]
MCItems == DOMAIN MCpriority
MCcontrol == [i \in MCItems |-> i = "crit"]
MCsize == [crit |-> 1, data |-> 5, high |-> 1, norm |-> 1, low |-> 2, odd |-> 1]

VARIABLES part, v1, v2, v3, v4, v5, v6, v7, v8, v9, v10, v11, v12, v13, v14, v15, v16, v17

vars == <<part, v1, v2, v3, v4, v5, v6, v7, v8, v9, v10, v11, v12, v13, v14, v15, v16, v17>>

Hello == INSTANCE Handshake WITH
    required <- v1, caps <- v2, state <- v3, remoteCaps <- v4, out <- v5,
    open <- v6, writes <- v7, rl <- v8, tm <- v9, hb <- v10, app <- v11,
    auths <- v12, requests <- v13, connect <- v14, disconnects <- v15,
    faults <- v16, seen <- v17

Streams == INSTANCE MultiStream WITH
    Senders <- MCSenders, Teams <- MCTeams,
    opener <- v1, flow <- v2, fin <- v3, incoming <- v4, outgoing <- v5,
    openMu <- v6, up <- v7, arrived <- v8, pending <- v9, reader <- v10,
    lease <- v11, reads <- v12, errs <- v13, phase <- v14, spc <- v15, on <- v16,
    sent <- v17

Monitor == INSTANCE OutgoingMonitor WITH
    Transfers <- OutTransfers, chunkCount <- MCChunkCount,
    pc <- v1, chunk <- v2, buffer <- v3, content <- v4, pool <- v5, pending <- v6,
    failed <- v7, monitorRefs <- v8, outgoingNext <- v9, outgoingWake <- v10,
    sched <- v11, mon <- v12, tasks <- v13, net <- v14, written <- v15

Body == INSTANCE Bodies WITH
    Transfers <- InTransfers, MaxFaults <- MaxFileFaults,
    pool <- v1, released <- v2, context <- v3, memory <- v4, file <- v5,
    path <- v6, disk <- v7, pc <- v8, writer <- v9, next <- v10, result <- v11,
    seen <- v12, timedOut <- v13, faults <- v14

Routes == INSTANCE Router WITH
    Names <- MCNames, Patterns <- MCPatterns, GroupPrefixes <- MCGroupPrefixes,
    parent <- v1, prefix <- v2, middlewares <- v3, endpoints <- v4,
    registered <- v5, compiled <- v6, isCompiled <- v7, uses <- v8

Resumed == INSTANCE Resume WITH
    ChunkCount <- ResumeChunks,
    cur <- v1, spc <- v2, nextChunk <- v3, ot <- v4, resumes <- v5, report <- v6,
    link <- v7, txUp <- v8, high <- v9, low <- v10, back <- v11, rl <- v12,
    store <- v13, tr <- v14, wpc <- v15, body <- v16, written <- v17

Queue == INSTANCE SendQueueBypass WITH
    Items <- MCItems, priority <- MCpriority, control <- MCcontrol, size <- MCsize,
    MaxFrames <- QueueFrames, MaxBytes <- QueueBytes,
    queue <- v1, queuedItems <- v2, queuedBytes <- v3, controlOnly <- v4,
    closed <- v5, scheduleAt <- v6, skipped <- v7

Wire == INSTANCE Codec

\* What is negotiated does not depend on how the client was authenticated
FeaturesVaryWithoutAuth == v1 => \A e \in Hello!Ends : v2[e] = Capabilities

Init ==
    \/ part = "handshake" /\ Hello!Init /\ FeaturesVaryWithoutAuth
    \/ part = "streams" /\ Streams!Init
    \/ part = "monitor" /\ Monitor!Init
       /\ v16 = 0 /\ v17 = 0
    \/ part = "bodies" /\ Body!Init
       /\ v15 = 0 /\ v16 = 0 /\ v17 = 0
    \/ part = "resume" /\ Resumed!Init
    \/ part = "router" /\ Routes!Init
       /\ v9 = 0 /\ v10 = 0 /\ v11 = 0 /\ v12 = 0 /\ v13 = 0
       /\ v14 = 0 /\ v15 = 0 /\ v16 = 0 /\ v17 = 0
    \/ part = "queue" /\ Queue!BypassInit
       /\ v8 = 0 /\ v9 = 0 /\ v10 = 0 /\ v11 = 0 /\ v12 = 0 /\ v13 = 0
       /\ v14 = 0 /\ v15 = 0 /\ v16 = 0 /\ v17 = 0
    \/ part = "wire"
       /\ v1 = 0 /\ v2 = 0 /\ v3 = 0 /\ v4 = 0 /\ v5 = 0 /\ v6 = 0 /\ v7 = 0 /\ v8 = 0
       /\ v9 = 0 /\ v10 = 0 /\ v11 = 0 /\ v12 = 0 /\ v13 = 0
       /\ v14 = 0 /\ v15 = 0 /\ v16 = 0 /\ v17 = 0

Next ==
    \/ /\ part = "handshake" /\ Hello!Next
       /\ UNCHANGED <<part>>
    \/ /\ part = "streams" /\ Streams!Next
       /\ UNCHANGED <<part>>
    \/ /\ part = "monitor" /\ Monitor!Next
       /\ UNCHANGED <<part, v16, v17>>
    \/ /\ part = "bodies" /\ Body!Next
       /\ UNCHANGED <<part, v15, v16, v17>>
    \/ /\ part = "resume" /\ Resumed!Next
       /\ UNCHANGED <<part>>
    \/ /\ part = "router" /\ Routes!Next
       /\ UNCHANGED <<part, v9, v10, v11, v12, v13, v14, v15, v16, v17>>
    \/ /\ part = "queue" /\ Queue!BypassNext
       /\ UNCHANGED <<part, v8, v9, v10, v11, v12, v13, v14, v15, v16, v17>>

Spec == Init /\ [][Next]_vars

-----------------------------------------------------------------------------
\* The types of each part's state; among them, that monitorRefs, which a scan of
\* processOutgoingTimeouts adds to and releaseOutgoingMonitorRef takes from, never
\* falls below zero
TypeOK ==
    /\ part = "handshake" => Hello!TypeOK
    /\ part = "streams" => Streams!TypeOK
    /\ part = "monitor" => Monitor!TypeOK
    /\ part = "bodies" => Body!TypeOK
    /\ part = "resume" => Resumed!TypeOK
    /\ part = "router" => Routes!TypeOK
    /\ part = "queue" => Queue!QueueTypeOK

-----------------------------------------------------------------------------
\* A server that requires authentication runs its connect handler, and serves a
\* request, only after its auth handler accepted the client, however the auth
\* timer, the heartbeat and the read loop overwrite the session's state
OnlyAuthenticatedServed == part = "handshake" => Hello!OnlyAuthenticatedServed

\* ServeTransportWithRemote runs the disconnect handler once for a connect handler
\* that succeeded, when Run is over, and for no other
DisconnectMatchesConnect == part = "handshake" => Hello!DisconnectMatchesConnect

\* Undisturbed by timeouts, refusals and misuse, a handshake fails only when the
\* client's read loop overtakes the store with which Authenticate or SendHello ends
FailsOnlyWhenOvertaken == part = "handshake" => Hello!FailsOnlyWhenOvertaken

\* Close of the multistream transport leaves no lease, no goroutine of acceptStream
\* or readLoop, and no stream whose sending direction is open, whatever senders and
\* the accept loop were doing when it was called
CloseLeavesNothing == part = "streams" => Streams!CloseLeavesNothing

\* Ends that open streams for one channel at the same time get no error while both
\* are open, unless streamForChannel gave a stream up at each of them, and a write
\* fails only after it gave one up at one
ErrorsOnlyAfterYield == part = "streams" => Streams!ErrorsOnlyAfterYield

\* While a sender waits for acks, its first deadline is never forgotten between
\* scheduleOutgoingMonitor, runOutgoingMonitor and processOutgoingTimeouts
DeadlineKept == part = "monitor" => Monitor!DeadlineKept

\* What the receiver writes is what the sender read, although sendReliableChunk
\* encodes a frame from a buffer that applyAck may have given back to the pool
WrittenIntact == part = "monitor" => Monitor!WrittenIntact

\* A handler is run on all of its own transfer's body and on nothing else, as long
\* as no commit was given up, although spooledBodyWriters are pooled by the App
BodiesSeparate == part = "bodies" => Body!BodiesSeparate

\* No temporary file of a spooledBodyWriter outlives its body, also when writing,
\* spilling or closing fails, as long as no commit was given up
NoFileLeft == part = "bodies" => Body!NoFileLeft

\* A transfer that ResumeTransfer carries on over later connections implements
\* Delivery: runIncomingTransfer suspends a writer only when it is through with it,
\* so that the session that handleIncomingTransferResume gives it to next goes on
\* with the chunk the writer lacks; an open writer is in the hands of one session,
\* also when loadResumeDecision times out; success is reported of a committed body
ResumeDelivers ==
    /\ part = "resume" => Resumed!Promise!Init
    /\ [][part = "resume" => [Resumed!Promise!Next]_(Resumed!Promise!vars)]_vars

\* compileInto wraps each handler in exactly the middleware registered for it
\* before Compile, in order, however On, Use and Group were mixed; the "*" of a
\* group misses the route that bears the group's own name
ChainsComplete == part = "router" => Routes!ChainsComplete

\* Decoders give back what encoders wrote into used buffers, and take no payload or
\* stream that was cut or lengthened for another message, except a payload cut
\* exactly before its optional fields, which decodes as the one without them
WireSound == part = "wire" => Wire!WireSound

\* The weights of writerPrioritySchedule are honoured: popLocked lets the frame at
\* the head of a queue be overtaken at most once per slot of another priority
BoundedBypass == part = "queue" => Queue!BoundedBypass

\* queuedItems, on which run sleeps and canEnqueue admits, counts the frames of the
\* five queues under any sequence of push, popLocked and releaseQueuedLocked, and
\* neither limit of SendQueueConfig is exceeded
FramesAccounted == part = "queue" => Queue!FramesAccounted

\* queuedBytes is exactly the length of the queued frames, so that popLocked never
\* has to clamp it
BytesAccounted == part = "queue" => Queue!BytesAccounted

\* Bounds the states of MultiStream with all three senders, which are there for what
\* an open session does: neither end closes, and the connection lives.
ThreeStayOpen ==
    part = "streams" /\ (\A t \in {a1, a2, b1} : v15[t] # "absent") =>
        v7 /\ \A e \in {A, B} : v14[e] = "open"

\* With one sender at each end the two ends of MultiStream are alike: what happens
\* when B is the first to close is the mirror image of what happens when A is.
CloseFirstAtA ==
    part = "streams" /\ v15[a2] = "absent" /\ v14[A] = "open" => v14[B] = "open"

-----------------------------------------------------------------------------
\* The fairness of Handshake and of MultiStream, in the behaviours that are theirs
HelloFairness ==
    LET vs == Hello!vars IN WF_vs(part = "handshake" /\ Hello!Progress)

StreamsFairness ==
    LET vs == Streams!vars IN WF_vs(part = "streams" /\ Streams!Progress)

\* A server that requires authentication and does not get it ends the session, even
\* if rejectAuthAndClose cannot write: what StartAuthTimeout leaves open,
\* StartHeartbeat closes
UnauthenticatedEnds ==
    HelloFairness => <>(part = "handshake" => Hello!AuthSettled)

\* Where both ends call Close of the multistream transport, both calls return: no
\* read loop waits for ever for room in the queue of leases that nobody reads
CloseFinishes == StreamsFairness => <>(part = "streams" => Streams!AllClosed)

=============================================================================
