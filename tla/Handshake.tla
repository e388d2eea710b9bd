------------------------------ MODULE Handshake ------------------------------
(***************************************************************************)
(* The life of the two sessions of a connection up to and around the       *)
(* handshake (src/internal/etp/session.go, incoming.go, src/app.go):       *)
(* authentication, Hello and HelloAck, the auth timer, the heartbeat, Run  *)
(* and the application's connect and disconnect handlers.  On each end the *)
(* read loop, the auth timer and the heartbeat store the session's state   *)
(* without a common lock, and on the client so does the application's own  *)
(* goroutine, which stores it after the frame that announces it was sent.  *)
(*                                                                         *)
(* A payload is what the control depends on: the capabilities of a Hello.  *)
(* Timeouts may pass at any moment; a connection loses nothing until one   *)
(* of its ends is closed, which may lose what was not flushed.             *)
(***************************************************************************)
EXTENDS Integers, Sequences, FiniteSets

CONSTANTS
    Capabilities,   \* the features a session may support
    MaxAuth,        \* how often the client's application authenticates
    MaxRequests,    \* how many requests it sends once established
    MaxFaults       \* how often a writer fails, a context ends or a rate limit
                    \* is exceeded

Ends == {"client", "server"}
Peer(e) == IF e = "client" THEN "server" ELSE "client"

VARIABLES
    required,   \* Auth.Required of the server's configuration
    caps,       \* Capabilities of each end's configuration
    state,      \* Session.state
    remoteCaps, \* Session.remoteCaps
    out,        \* frames each end has sent and its peer has not read
    open,       \* the end has not closed its transport
    writes,     \* the end's writer takes frames
    rl,         \* where Run is
    tm,         \* where the server's goroutine of StartAuthTimeout is
    hb,         \* where the goroutine of StartHeartbeat is
    app,        \* where the client's application is
    auths,      \* how often it has called Authenticate
    requests,   \* how many requests it has sent
    connect,    \* the server's connect handler: not called, done, failed
    disconnects,\* calls of its disconnect handler
    faults,     \* how many faults there were
    seen        \* history: what has happened

config == <<required, caps>>
client == <<app, auths, requests>>
timers == <<tm, hb>>
vars == <<config, state, remoteCaps, out, open, writes, rl, timers, client, connect,
          disconnects, faults, seen>>

\* "authenticated": the server's auth handler accepted; "served": a request
\* reached the server's application; "early": the client's read loop met an
\* answer before its application stored the state that expects it;
\* "disturbed": a timeout, a refusal or a misuse.
Happenings == {"authenticated", "served", "early", "disturbed"}

Frame(t) == [type |-> t]
HelloFrame(t, c) == [type |-> t, caps |-> c]

Init ==
    /\ required \in BOOLEAN
    /\ caps \in [Ends -> SUBSET Capabilities]
    /\ state = [e \in Ends |-> "New"]
    /\ remoteCaps = [e \in Ends |-> {}]
    /\ out = [e \in Ends |-> <<>>]
    /\ open = [e \in Ends |-> TRUE] /\ writes = [e \in Ends |-> TRUE]
    /\ rl = [e \in Ends |-> "read"]
    /\ tm = IF required THEN "armed" ELSE "off"
    /\ hb = [e \in Ends |-> "on"]
    /\ app = "idle" /\ auths = 0 /\ requests = 0
    /\ connect = "none" /\ disconnects = 0 /\ faults = 0 /\ seen = {}

-----------------------------------------------------------------------------
(* What the threads share. *)

SetState(e, s) == state' = [state EXCEPT ![e] = s]

\* What may be left of what e has sent when its writer and its transport are
\* closed without a flush.
Written(frames) == {SubSeq(frames, 1, n) : n \in 0 .. Len(frames)}

\* The writer and the transport are closed.
CloseEnd(e) ==
    /\ open' = [open EXCEPT ![e] = FALSE]
    /\ writes' = [writes EXCEPT ![e] = FALSE]

\* The context of Run is cancelled when it returns: a goroutine that still waits
\* for its timer ends, one that has been woken goes on.
TimersStop(e) ==
    /\ tm' = IF e = "server" /\ tm = "armed" THEN "off" ELSE tm
    /\ hb' = [hb EXCEPT ![e] = IF @ = "on" THEN "off" ELSE @]

\* Faulty: the disconnect handler runs although the connect handler failed.
RunReturnsAlways(e, connected) ==
    /\ rl' = [rl EXCEPT ![e] = "ended"]
    /\ TimersStop(e)
    /\ disconnects' = disconnects + (IF e = "server" /\ connected # "none" THEN 1 ELSE 0)

\* Run returns, and ServeTransportWithRemote tells the application.
RunReturns(e, connected) ==
    /\ rl' = [rl EXCEPT ![e] = "ended"]
    /\ TimersStop(e)
    /\ disconnects' = disconnects + (IF e = "server" /\ connected = "done" THEN 1 ELSE 0)

\* Run, when HandleFrame returns an error.
HandlingFailed(e) ==
    /\ SetState(e, IF state[e] = "AuthRejected" THEN "AuthRejected" ELSE "Failed")
    /\ CloseEnd(e)
    /\ RunReturns(e, connect)

-----------------------------------------------------------------------------
(* The client's application. *)

\* Authenticate: the frame is sent, and then the state is stored.
Authenticate ==
    /\ app = "idle" /\ auths < MaxAuth /\ writes["client"]
    /\ out' = [out EXCEPT !["client"] = Append(@, Frame("auth"))]
    /\ app' = "auth" /\ auths' = auths + 1
    /\ seen' = IF state["client"] = "New" /\ auths = 0 THEN seen
               ELSE seen \cup {"disturbed"}
    /\ UNCHANGED <<config, state, remoteCaps, open, writes, rl, timers,
                   requests, connect, disconnects, faults>>

\* Faulty: a session that asks for authentication does not insist on it.
EnsureAuthenticatedForNone(e) == TRUE

EnsureAuthenticatedFor(e) ==
    \/ ~(required /\ e = "server")
    \/ state[e] \in {"AuthAccepted", "HelloSent", "Established"}

\* SendHello, which may be called without authenticating first.
SendHello ==
    /\ app = "idle" /\ state["client"] \in {"New", "AuthAccepted"}
    /\ EnsureAuthenticatedFor("client") /\ writes["client"]
    /\ out' = [out EXCEPT !["client"] = Append(@, HelloFrame("hello", caps["client"]))]
    /\ app' = "hello"
    /\ seen' = IF required /\ auths = 0 THEN seen \cup {"disturbed"}
               ELSE seen
    /\ UNCHANGED <<config, state, remoteCaps, open, writes, rl, timers, auths,
                   requests, connect, disconnects, faults>>

\* The store with which Authenticate and SendHello end.
StoreState ==
    /\ app \in {"auth", "hello"}
    /\ SetState("client", IF app = "auth" THEN "AuthPending" ELSE "HelloSent")
    /\ app' = "idle"
    /\ UNCHANGED <<config, remoteCaps, out, open, writes, rl, timers, auths,
                   requests, connect, disconnects, faults, seen>>

\* Faulty: the sender looks at its own features only.
requireCapabilityLocal(e, c) == c \in caps[e]

requireCapability(e, c) == c \in caps[e] /\ c \in remoteCaps[e]

\* A request, or any other frame that needs a feature.
SendRequest ==
    /\ app = "idle" /\ requests < MaxRequests
    /\ state["client"] = "Established" /\ writes["client"]
    /\ \E c \in Capabilities :
          /\ requireCapability("client", c)
          /\ out' = [out EXCEPT !["client"] =
                        Append(@, [type |-> "request", needs |-> c])]
    /\ requests' = requests + 1
    /\ UNCHANGED <<config, state, remoteCaps, open, writes, rl, timers, app,
                   auths, connect, disconnects, faults, seen>>

-----------------------------------------------------------------------------
(* The read loop: Run and HandleFrame. *)

Incoming(e) == Head(out[Peer(e)])

Readable(e) == rl[e] = "read" /\ open[e] /\ out[Peer(e)] # <<>>

AuthTypes == {"auth", "accept", "reject"}

ensureIncomingState(e, type) ==
    \/ type = "hello" /\ e = "server" /\ state[e] \in {"New", "AuthAccepted"}
    \/ type = "helloAck" /\ e = "client" /\ state[e] = "HelloSent"
    \/ type \in {"request", "error"} /\ state[e] = "Established"

\* HandleFrame goes on to the frame's handler.
Admitted(e, f) ==
    \/ f.type = "auth" /\ e = "server" /\ state[e] \in {"New", "AuthPending"}
    \/ f.type \in {"accept", "reject"} /\ e = "client" /\ state[e] = "AuthPending"
    \/ /\ f.type \notin AuthTypes
       /\ EnsureAuthenticatedFor(e)
       /\ ensureIncomingState(e, f.type)
       /\ f.type = "request" => requireCapability(e, f.needs)

\* The frame is taken from the peer, and the answers are sent.
Take(e, answers) ==
    out' = [out EXCEPT ![Peer(e)] = Tail(@), ![e] = @ \o answers]

\* The client's read loop has overtaken the goroutine of its application.
Overtaken(e, f) ==
    /\ e = "client"
    /\ \/ app = "auth" /\ f.type \in {"accept", "reject"}
       \/ app = "hello" /\ f.type = "helloAck"

\* The frame is refused, with an answer that need not be written any more:
\* Run closes the session.  Any frame may exceed the rate limit.
RefuseFrame(e) ==
    /\ Readable(e)
    /\ faults' = faults + (IF Admitted(e, Incoming(e)) THEN 1 ELSE 0)
    /\ faults' <= MaxFaults
    /\ LET f == Incoming(e)
           unauthenticated == f.type \notin AuthTypes /\ ~EnsureAuthenticatedFor(e)
           answer == IF unauthenticated THEN "reject" ELSE "error"
           rejects == ~Admitted(e, f) /\ unauthenticated /\ writes[e]
       IN  /\ \E kept \in Written(IF writes[e] THEN Append(out[e], Frame(answer))
                                  ELSE out[e]) :
                 out' = [out EXCEPT ![Peer(e)] = Tail(@), ![e] = kept]
           /\ CloseEnd(e) /\ RunReturns(e, connect)
           /\ SetState(e, IF rejects \/ state[e] = "AuthRejected" THEN "AuthRejected"
                          ELSE "Failed")
           /\ seen' = seen \cup
                  (IF Admitted(e, f) THEN {"disturbed"}
                   ELSE IF Overtaken(e, f) THEN {"early"} ELSE {})
    /\ UNCHANGED <<config, remoteCaps, client, connect>>

\* HandleAuth up to its wait for the auth handler.
HandleAuth ==
    LET e == "server" IN
    /\ Readable(e) /\ Admitted(e, Incoming(e)) /\ Incoming(e).type = "auth"
    /\ Take(e, <<>>)
    /\ SetState(e, "AuthPending")
    /\ rl' = [rl EXCEPT ![e] = "auth"]
    /\ UNCHANGED <<config, remoteCaps, open, writes, timers, client, connect,
                   disconnects, faults, seen>>

\* The auth handler accepts; it refuses, fails or does not answer within
\* Auth.Timeout; or AcceptAuth cannot send its frame any more.
AuthHandlerReturns ==
    LET e == "server" IN
    /\ rl[e] = "auth"
    /\ \/ /\ writes[e]
          /\ out' = [out EXCEPT ![e] = Append(@, Frame("accept"))]
          /\ rl' = [rl EXCEPT ![e] = "accepted"]
          /\ seen' = seen \cup {"authenticated"}
          /\ UNCHANGED <<state, open, writes, timers, disconnects>>
       \/ /\ ~writes[e]
          /\ HandlingFailed(e)
          /\ UNCHANGED <<out, seen>>
       \/ /\ rl' = [rl EXCEPT ![e] = "send"]
          /\ seen' = seen \cup {"disturbed"}
          /\ UNCHANGED <<state, out, open, writes, timers, disconnects>>
    /\ UNCHANGED <<config, remoteCaps, client, connect, faults>>

\* The store with which AcceptAuth ends.
AcceptAuth ==
    /\ rl["server"] = "accepted"
    /\ SetState("server", "AuthAccepted")
    /\ rl' = [rl EXCEPT !["server"] = "read"]
    /\ UNCHANGED <<config, remoteCaps, out, open, writes, timers, client,
                   connect, disconnects, faults, seen>>

\* rejectAuthAndClose in the read loop: the frame, the store, and the flush that
\* must succeed for the session to be closed here; if not, or if the handler
\* failed, Run closes it.
LoopRejects ==
    LET e == "server" IN
    /\ \/ /\ rl[e] = "send" /\ writes[e]
          /\ out' = [out EXCEPT ![e] = Append(@, Frame("reject"))]
          /\ rl' = [rl EXCEPT ![e] = "restore"]
          /\ UNCHANGED <<state, open, writes, timers, disconnects>>
       \/ /\ rl[e] = "restore"
          /\ SetState(e, "AuthRejected")
          /\ rl' = [rl EXCEPT ![e] = "close"]
          /\ UNCHANGED <<out, open, writes, timers, disconnects>>
       \/ /\ rl[e] = "close" /\ writes[e]
          /\ CloseEnd(e)
          /\ rl' = [rl EXCEPT ![e] = "read"]
          /\ UNCHANGED <<state, out, timers, disconnects>>
       \/ /\ \/ rl[e] = "send" /\ ~writes[e]
             \/ rl[e] = "close"
          /\ HandlingFailed(e)
          /\ UNCHANGED out
    /\ UNCHANGED <<config, remoteCaps, client, connect, faults, seen>>

\* HandleAuthAccept
HandleAuthAccept ==
    LET e == "client" IN
    /\ Readable(e) /\ Admitted(e, Incoming(e)) /\ Incoming(e).type = "accept"
    /\ Take(e, <<>>)
    /\ SetState(e, "AuthAccepted")
    /\ UNCHANGED <<config, remoteCaps, open, writes, rl, timers, client,
                   connect, disconnects, faults, seen>>

\* HandleAuthReject, which fails the session.
HandleAuthReject ==
    LET e == "client" IN
    /\ Readable(e) /\ Admitted(e, Incoming(e)) /\ Incoming(e).type = "reject"
    /\ Take(e, <<>>)
    /\ SetState(e, "AuthRejected")
    /\ CloseEnd(e) /\ RunReturns(e, connect)
    /\ UNCHANGED <<config, remoteCaps, client, connect, faults, seen>>

acceptRemoteHello(e, advertised) ==
    remoteCaps' = [remoteCaps EXCEPT ![e] = advertised \cap caps[e]]

\* HandleHello up to the HelloAck; established() follows.
HandleHello ==
    LET e == "server" IN
    /\ Readable(e) /\ Admitted(e, Incoming(e)) /\ Incoming(e).type = "hello"
    /\ acceptRemoteHello(e, Incoming(e).caps)
    /\ \/ /\ writes[e]
          /\ Take(e, <<HelloFrame("helloAck", caps[e])>>)
          /\ rl' = [rl EXCEPT ![e] = "establish"]
          /\ UNCHANGED <<state, open, writes, timers, disconnects>>
       \/ ~writes[e] /\ Take(e, <<>>) /\ HandlingFailed(e)
    /\ UNCHANGED <<config, client, connect, faults, seen>>

HandleHelloAck ==
    LET e == "client" IN
    /\ Readable(e) /\ Admitted(e, Incoming(e)) /\ Incoming(e).type = "helloAck"
    /\ acceptRemoteHello(e, Incoming(e).caps)
    /\ Take(e, <<>>)
    /\ rl' = [rl EXCEPT ![e] = "establish"]
    /\ UNCHANGED <<config, state, open, writes, timers, client, connect,
                   disconnects, faults, seen>>

\* established(): the state, and the application's connect handler, an error of
\* which fails the session.
Established(e) ==
    /\ rl[e] = "establish"
    /\ \/ /\ SetState(e, "Established")
          /\ rl' = [rl EXCEPT ![e] = "read"]
          /\ connect' = IF e = "server" THEN "done" ELSE connect
          /\ UNCHANGED <<out, open, writes, timers, disconnects, seen>>
       \/ /\ e = "server"
          /\ connect' = "failed"
          /\ SetState(e, "Failed") /\ CloseEnd(e)
          /\ RunReturns(e, "failed")
          /\ \E kept \in Written(out[e]) : out' = [out EXCEPT ![e] = kept]
          /\ seen' = seen \cup {"disturbed"}
    /\ UNCHANGED <<config, remoteCaps, client, faults>>

\* handleIncomingRequest, and handleIncomingError for what does not fail.
HandleMessage(e) ==
    /\ Readable(e) /\ Admitted(e, Incoming(e))
    /\ Incoming(e).type \in {"request", "error"}
    /\ Take(e, <<>>)
    /\ seen' = IF Incoming(e).type = "request" THEN seen \cup {"served"} ELSE seen
    /\ UNCHANGED <<config, state, remoteCaps, open, writes, rl, timers, client,
                   connect, disconnects, faults>>

\* Run, when Read fails: the end was closed, or its peer's was.
ReadFails(e) ==
    /\ rl[e] = "read"
    /\ ~open[e] \/ (~open[Peer(e)] /\ out[Peer(e)] = <<>>)
    /\ writes' = [writes EXCEPT ![e] = FALSE]
    /\ SetState(e, IF state[e] = "AuthRejected" THEN "AuthRejected" ELSE "Failed")
    /\ RunReturns(e, connect)
    /\ UNCHANGED <<config, remoteCaps, out, open, client, connect,
                   faults, seen>>

-----------------------------------------------------------------------------
(* The timers, and what the environment does. *)

\* StartAuthTimeout: the timer fires, and the state is looked at ...
AuthTimerFires ==
    /\ tm = "armed"
    /\ tm' = IF state["server"] \in {"New", "AuthPending", "Failed"} THEN "store"
             ELSE "off"
    /\ seen' = IF tm' = "store" THEN seen \cup {"disturbed"} ELSE seen
    /\ UNCHANGED <<config, state, remoteCaps, out, open, writes, rl, hb, client,
                   connect, disconnects, faults>>

\* ... and the session is rejected whatever has happened to it since, and closed
\* if the rejection can be flushed.
AuthTimerRejects ==
    LET e == "server" IN
    /\ \/ /\ tm \in {"store", "restore"}
          /\ SetState(e, "AuthRejected")
          /\ tm' = IF tm = "store" THEN "send" ELSE "close"
          /\ UNCHANGED <<out, open, writes>>
       \/ /\ tm = "send" /\ writes[e]
          /\ out' = [out EXCEPT ![e] = Append(@, Frame("reject"))]
          /\ tm' = "restore"
          /\ UNCHANGED <<state, open, writes>>
       \/ /\ tm = "close" /\ writes[e]
          /\ CloseEnd(e)
          /\ tm' = "off"
          /\ UNCHANGED <<state, out>>
       \/ /\ tm \in {"send", "close"} /\ ~writes[e]
          /\ tm' = "off"
          /\ UNCHANGED <<state, out, open, writes>>
    /\ UNCHANGED <<config, remoteCaps, rl, hb, client, connect, disconnects, faults,
                   seen>>

\* Nothing has been there to read, or the auth handler takes long.
Quiet(e) == out[Peer(e)] = <<>> \/ rl[e] = "auth"

\* Faulty: the heartbeat gives up on a session that was rejected.
HeartbeatTicksUntilRejected(e) ==
    /\ hb[e] = "on" /\ Quiet(e)
    /\ hb' = [hb EXCEPT ![e] = IF state[e] \in {"Failed", "AuthRejected"} THEN "off"
                               ELSE "fail"]
    /\ seen' = seen \cup {"disturbed"}
    /\ UNCHANGED <<config, state, remoteCaps, out, open, writes, rl, tm,
                   client, connect, disconnects, faults>>

\* A tick of StartHeartbeat that finds nothing read within Heartbeat.Timeout.
HeartbeatTicks(e) ==
    /\ hb[e] = "on" /\ Quiet(e)
    /\ hb' = [hb EXCEPT ![e] = IF state[e] = "Failed" THEN "off" ELSE "fail"]
    /\ seen' = seen \cup {"disturbed"}
    /\ UNCHANGED <<config, state, remoteCaps, out, open, writes, rl, tm,
                   client, connect, disconnects, faults>>

HeartbeatFails(e) ==
    /\ hb[e] = "fail"
    /\ hb' = [hb EXCEPT ![e] = "off"]
    /\ SetState(e, "Failed")
    /\ CloseEnd(e)
    /\ \E kept \in Written(out[e]) : out' = [out EXCEPT ![e] = kept]
    /\ UNCHANGED <<config, remoteCaps, rl, tm, client, connect, disconnects,
                   faults, seen>>

\* handleWriterFailure: a session that was rejected is left alone.
WriterFails(e) ==
    /\ writes[e]
    /\ faults < MaxFaults /\ faults' = faults + 1
    /\ writes' = [writes EXCEPT ![e] = FALSE]
    /\ \E kept \in Written(out[e]) : out' = [out EXCEPT ![e] = kept]
    /\ IF state[e] = "AuthRejected" THEN UNCHANGED <<state, open>>
       ELSE SetState(e, "Failed") /\ open' = [open EXCEPT ![e] = FALSE]
    /\ seen' = seen \cup {"disturbed"}
    /\ UNCHANGED <<config, remoteCaps, rl, timers, client, connect, disconnects>>

\* The context given to Run ends, and its watcher closes the transport.
ContextEnds(e) ==
    /\ rl[e] # "ended" /\ open[e]
    /\ faults < MaxFaults /\ faults' = faults + 1
    /\ open' = [open EXCEPT ![e] = FALSE]
    /\ \E kept \in Written(out[e]) : out' = [out EXCEPT ![e] = kept]
    /\ seen' = seen \cup {"disturbed"}
    /\ UNCHANGED <<config, state, remoteCaps, writes, rl, timers, client, connect,
                   disconnects>>

-----------------------------------------------------------------------------
ReadLoop(e) ==
    \/ RefuseFrame(e) \/ Established(e) \/ HandleMessage(e) \/ ReadFails(e)
    \/ e = "server" /\ (HandleAuth \/ AuthHandlerReturns \/ AcceptAuth
                        \/ LoopRejects \/ HandleHello)
    \/ e = "client" /\ (HandleAuthAccept \/ HandleAuthReject \/ HandleHelloAck)

AuthTimer == AuthTimerFires \/ AuthTimerRejects

Heartbeat(e) == HeartbeatTicks(e) \/ HeartbeatFails(e)

Next ==
    \/ Authenticate \/ SendHello \/ StoreState \/ SendRequest
    \/ AuthTimer
    \/ \E e \in Ends : \/ ReadLoop(e) \/ Heartbeat(e)
                       \/ WriterFails(e) \/ ContextEnds(e)

Spec == Init /\ [][Next]_vars

\* Nothing arrives any more, and no ping keeps the connection alive.
Silent(e) ==
    /\ rl[e] = "read" /\ out[Peer(e)] = <<>>
    /\ ~\A p \in Ends : open[p] /\ state[p] = "Established"

\* The server's goroutines are scheduled and its timers fire, whatever the client
\* does; the auth handler is bounded by Auth.Timeout; the heartbeat fails a session
\* only when it stays silent.  The steps are bounded in number, so that one
\* fairness condition does for all.
Progress ==
    LET e == "server" IN
    \/ AuthTimer \/ ReadLoop(e)
    \/ (Silent(e) /\ HeartbeatTicks(e)) \/ HeartbeatFails(e)

FairSpec == Spec /\ WF_vars(Progress)

-----------------------------------------------------------------------------
States == {"New", "AuthPending", "AuthAccepted", "AuthRejected", "HelloSent",
           "Established", "Failed"}

\* The types of the state.
TypeOK ==
    /\ required \in BOOLEAN /\ caps \in [Ends -> SUBSET Capabilities]
    /\ state \in [Ends -> States] /\ remoteCaps \in [Ends -> SUBSET Capabilities]
    /\ out \in [Ends -> Seq([type : {"auth", "accept", "reject", "error"}]
                            \cup [type : {"hello", "helloAck"}, caps : SUBSET Capabilities]
                            \cup [type : {"request"}, needs : Capabilities])]
    /\ open \in [Ends -> BOOLEAN] /\ writes \in [Ends -> BOOLEAN]
    /\ rl \in [Ends -> {"read", "auth", "accepted", "send", "restore", "close",
                        "establish", "ended"}]
    /\ tm \in {"armed", "store", "send", "restore", "close", "off"}
    /\ hb \in [Ends -> {"on", "fail", "off"}]
    /\ app \in {"idle", "auth", "hello"}
    /\ auths \in 0 .. MaxAuth /\ requests \in 0 .. MaxRequests
    /\ connect \in {"none", "done", "failed"} /\ disconnects \in Nat
    /\ faults \in 0 .. MaxFaults
    /\ seen \subseteq Happenings

\* A server that requires authentication runs its connect handler, and lets a
\* request through to its application, only for a client that its auth handler
\* accepted, however the auth timer, the heartbeat and the read loop overwrite
\* each other's states (EnsureAuthenticatedFor, ensureIncomingState).
OnlyAuthenticatedServed ==
    required /\ (connect # "none" \/ "served" \in seen)
        => "authenticated" \in seen

\* The disconnect handler runs once for every connect handler that succeeded
\* and for no other, and not before the session's Run is over
\* (ServeTransportWithRemote, established).
DisconnectMatchesConnect ==
    disconnects = IF connect = "done" /\ rl["server"] = "ended" THEN 1 ELSE 0

\* When no timeout passes, nothing is refused and the application makes no
\* misuse of the client, the handshake fails in one way only: the client's read
\* loop meets the answer to Authenticate or SendHello before those have stored
\* the state in which HandleFrame takes it.
FailsOnlyWhenOvertaken ==
    seen \cap {"disturbed", "early"} = {} =>
        \A e \in Ends : state[e] \notin {"AuthRejected", "Failed"} /\ rl[e] # "ended"

AuthSettled == required => "authenticated" \in seen \/ rl["server"] = "ended"

\* A server that requires authentication and does not get it ends the session,
\* without any help of the client and even if the rejection cannot be written:
\* what the auth timer leaves open, the server's heartbeat closes
\* (StartAuthTimeout, rejectAuthAndClose, StartHeartbeat).
UnauthenticatedEnds == <>AuthSettled
=============================================================================
