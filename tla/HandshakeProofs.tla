--------------------------- MODULE HandshakeProofs --------------------------
(***************************************************************************)
(* Proofs about authentication and the handshake, for any capabilities and *)
(* any number of calls, requests and faults.                               *)
(***************************************************************************)
EXTENDS Handshake, TLAPS

(* What the bounds of the model are assumed to be. *)
Bounds == MaxAuth \in Nat /\ MaxRequests \in Nat /\ MaxFaults \in Nat

(* What the client sends. *)
FromClient ==
    [type : {"auth", "error"}] \cup [type : {"hello"}, caps : SUBSET Capabilities]
    \cup [type : {"request"}, needs : Capabilities]

(* What the server sends: never a request. *)
FromServer ==
    [type : {"accept", "reject", "error"}] \cup [type : {"helloAck"}, caps : SUBSET Capabilities]

(* What each end sends. *)
From(e) == IF e = "client" THEN FromClient ELSE FromServer

(* The types of the channels, with the frames told apart by who sends them. *)
LinkTypes ==
    /\ out \in [Ends -> Seq(FromClient \cup FromServer)]
    /\ \A e \in Ends : out[e] \in Seq(From(e))

(* The types of the configuration and of what was negotiated. *)
ConfigTypes ==
    /\ required \in BOOLEAN /\ caps \in [Ends -> SUBSET Capabilities]
    /\ remoteCaps \in [Ends -> SUBSET Capabilities]

(* The types of the sessions' states and of the goroutines. *)
SessionTypes ==
    /\ state \in [Ends -> States]
    /\ open \in [Ends -> BOOLEAN] /\ writes \in [Ends -> BOOLEAN]
    /\ rl \in [Ends -> {"read", "auth", "accepted", "send", "restore", "close",
                        "establish", "ended"}]
    /\ tm \in {"armed", "store", "send", "restore", "close", "off"}
    /\ hb \in [Ends -> {"on", "fail", "off"}]
    /\ app \in {"idle", "auth", "hello"}

(* The types of the counters and of the history. *)
CountTypes ==
    /\ auths \in 0 .. MaxAuth /\ requests \in 0 .. MaxRequests
    /\ connect \in {"none", "done", "failed"} /\ disconnects \in Nat
    /\ faults \in 0 .. MaxFaults
    /\ seen \subseteq Happenings

(* The types of the whole state. *)
Types == LinkTypes /\ ConfigTypes /\ SessionTypes /\ CountTypes

(* Before its auth handler accepts, a server that requires authentication is *)
(* in no state, and its read loop in no place, from which a client is served. *)
AuthInv ==
    required /\ "authenticated" \notin seen =>
        /\ state["server"] \notin {"AuthAccepted", "HelloSent", "Established"}
        /\ rl["server"] \notin {"accepted", "establish"}
        /\ connect = "none" /\ "served" \notin seen

(* The connect handler is called once: afterwards the session's state is one *)
(* in which HandleFrame takes neither an Auth nor a Hello.                   *)
ConnectInv ==
    /\ connect # "none" => /\ rl["server"] \in {"read", "ended"}
                           /\ state["server"] \in {"Established", "AuthRejected", "Failed"}
    /\ connect = "failed" => rl["server"] = "ended"
    /\ DisconnectMatchesConnect

(* Nothing has disturbed the handshake, and the read loop has not overtaken  *)
(* the application.                                                          *)
Calm == "disturbed" \notin seen /\ "early" \notin seen

(* The client has sent its Auth and has no answer. *)
Asking == \/ app = "auth" /\ state["client"] = "New"
          \/ app = "idle" /\ state["client"] = "AuthPending"

(* The client has sent its Hello and has no answer. *)
Greeting ==
    \/ app = "hello" /\ state["client"] \in {"New", "AuthAccepted"}
    \/ app = "idle" /\ state["client"] = "HelloSent"

(* The frames of each end that are under way. *)
Under(fromClient, fromServer) == out["client"] = fromClient /\ out["server"] = fromServer

(* Where the server's read loop is, and its session's state. *)
Server(r, s) == rl["server"] = r /\ state["server"] = s

(* The server has accepted the client and has yet to store it, or has. *)
Accepting == Server("accepted", "AuthPending") \/ Server("read", "AuthAccepted")

(* The server may be told Hello. *)
Awaiting == Server("read", "AuthAccepted") \/ (~required /\ Server("read", "New"))

(* The server has answered the Hello. *)
Agreed ==
    /\ remoteCaps["server"] = caps["client"] \cap caps["server"]
    /\ \/ rl["server"] = "establish" /\ state["server"] \in {"New", "AuthAccepted"}
       \/ Server("read", "Established")

(* The requests that both ends take to be negotiated. *)
Negotiated == [type : {"request"}, needs : caps["client"] \cap caps["server"]]

(* What the sender of a handshake frame has sent and its peer has not read: an Auth, ... *)
ToAuth == <<Frame("auth")>>

(* ... an AuthAccept, ... *)
ToAccept == <<Frame("accept")>>

(* ... a Hello, ... *)
ToHello == <<HelloFrame("hello", caps["client"])>>

(* ... or a HelloAck. *)
ToAck == <<HelloFrame("helloAck", caps["server"])>>

(* The stages of a calm handshake: nothing has happened; ... *)
Fresh ==
    /\ app = "idle" /\ auths = 0 /\ state["client"] = "New" /\ rl["client"] = "read"
    /\ Server("read", "New") /\ Under(<<>>, <<>>)

(* ... the client has asked to be authenticated; ... *)
Authenticating ==
    /\ Asking /\ rl["client"] = "read"
    /\ \/ Server("read", "New") /\ Under(ToAuth, <<>>)
       \/ Server("auth", "AuthPending") /\ Under(<<>>, <<>>)
       \/ Accepting /\ Under(<<>>, ToAccept)

(* ... it knows that it is; ... *)
Authenticated ==
    /\ app = "idle" /\ state["client"] = "AuthAccepted" /\ rl["client"] = "read"
    /\ Accepting /\ Under(<<>>, <<>>)

(* ... it has sent its Hello; ... *)
Helloing ==
    /\ Greeting /\ rl["client"] = "read"
    /\ \/ (Accepting \/ Awaiting) /\ Under(ToHello, <<>>)
       \/ Agreed /\ Under(<<>>, ToAck)

(* ... it has the answer; ... *)
Establishing ==
    /\ app = "idle" /\ state["client"] = "HelloSent" /\ rl["client"] = "establish"
    /\ remoteCaps["client"] = caps["client"] \cap caps["server"]
    /\ Agreed /\ Under(<<>>, <<>>)

(* ... it is established and sends what was negotiated. *)
Running ==
    /\ app = "idle" /\ state["client"] = "Established" /\ rl["client"] = "read"
    /\ remoteCaps["client"] = caps["client"] \cap caps["server"]
    /\ Agreed /\ out["client"] \in Seq(Negotiated) /\ out["server"] = <<>>

(* A calm handshake is at one of them. *)
Stage == Fresh \/ Authenticating \/ Authenticated \/ Helloing \/ Establishing \/ Running

(* No timer has fired, and nothing is closed. *)
InOrder == /\ tm \in {"armed", "off"}
           /\ \A e \in Ends : open[e] /\ writes[e] /\ hb[e] # "fail"

(* A calm handshake is at one of its stages, with everything in order. *)
CalmInv ==
    Calm => Stage /\ InOrder

(* The inductive invariant. *)
IInv == Types /\ AuthInv /\ ConnectInv /\ CalmInv

-----------------------------------------------------------------------------
(* Channels. *)

(* The two ends are each other's peer. *)
LEMMA Peers ==
  ASSUME NEW e \in Ends
  PROVE  /\ Peer(e) \in Ends /\ Peer(e) # e /\ Peer(Peer(e)) = e
         /\ Peer("client") = "server" /\ Peer("server") = "client"
  BY Zenon DEF Ends, Peer

(* What sending, reading and losing do to a channel. *)
LEMMA Channel ==
  ASSUME NEW S, NEW s \in Seq(S), NEW x \in S
  PROVE  /\ Append(s, x) \in Seq(S)
         /\ s # <<>> => Head(s) \in S /\ Tail(s) \in Seq(S)
         /\ \A t \in Written(s) : t \in Seq(S)
  <1>1. ASSUME NEW n \in 0 .. Len(s) PROVE SubSeq(s, 1, n) \in Seq(S)
    OBVIOUS
  <1>2. \A t \in Written(s) : t \in Seq(S)
    BY <1>1, Zenon DEF Written
  <1> QED
    BY <1>2

(* Channels of one frame. *)
LEMMA OneFrame ==
  ASSUME NEW x
  PROVE  /\ Append(<<>>, x) = <<x>> /\ <<x>> # <<>> /\ Head(<<x>>) = x /\ Tail(<<x>>) = <<>>
         /\ <<>> \o <<x>> = <<x>> /\ <<>> \o <<>> = <<>> /\ <<x>> \o <<>> = <<x>>
  OBVIOUS

(* One channel changes. *)
LEMMA LinkSet ==
  ASSUME LinkTypes, NEW e \in Ends, NEW s \in Seq(From(e)), out' = [out EXCEPT ![e] = s]
  PROVE  LinkTypes'
  <1>1. s \in Seq(FromClient \cup FromServer)
    BY DEF From
  <1> QED
    BY <1>1, Zenon DEF LinkTypes

(* A frame is taken, and the reader's own channel changes. *)
LEMMA LinkTake ==
  ASSUME LinkTypes, NEW e \in Ends, out[Peer(e)] # <<>>, NEW s \in Seq(From(e)),
         out' = [out EXCEPT ![Peer(e)] = Tail(@), ![e] = s]
  PROVE  LinkTypes'
  <1>1. s \in Seq(FromClient \cup FromServer)
    BY DEF From
  <1>2. Tail(out[Peer(e)]) \in Seq(From(Peer(e)))
    BY Peers DEF LinkTypes
  <1>3. Tail(out[Peer(e)]) \in Seq(FromClient \cup FromServer)
    BY Peers DEF LinkTypes
  <1> QED
    BY <1>1, <1>2, <1>3, Peers, Zenon DEF LinkTypes

(* The frame that is read. *)
LEMMA Read ==
  ASSUME LinkTypes, NEW e \in Ends, Readable(e)
  PROVE  /\ Incoming(e) \in From(Peer(e)) /\ out[Peer(e)] # <<>> /\ rl[e] = "read" /\ open[e]
         /\ Incoming(e) = Head(out[Peer(e)])
  BY Peers DEF LinkTypes, Readable, Incoming

(* The frames each end reads. *)
LEMMA FrameTypes ==
  /\ \A f \in From("client") : /\ f.type \in {"auth", "error", "hello", "request"}
                               /\ f.type = "hello" => f.caps \subseteq Capabilities
                               /\ f.type = "request" => f.needs \in Capabilities
  /\ \A f \in From("server") : /\ f.type \in {"accept", "reject", "error", "helloAck"}
                               /\ f.type = "helloAck" => f.caps \subseteq Capabilities
  BY Zenon DEF From, FromClient, FromServer

(* The frames each end writes. *)
LEMMA FrameIs ==
  /\ Frame("auth") \in From("client") /\ Frame("error") \in From("client")
  /\ \A c \in SUBSET Capabilities : HelloFrame("hello", c) \in From("client")
  /\ \A c \in Capabilities : [type |-> "request", needs |-> c] \in From("client")
  /\ \A t \in {"accept", "reject", "error"} : Frame(t) \in From("server")
  /\ \A c \in SUBSET Capabilities : HelloFrame("helloAck", c) \in From("server")
  BY Zenon DEF From, FromClient, FromServer, Frame, HelloFrame
-----------------------------------------------------------------------------
(* Types. *)

(* The first state. *)
LEMMA InitInv == ASSUME Bounds PROVE Init => IInv
  <1> SUFFICES ASSUME Init PROVE IInv
    BY Zenon
  <1>1. LinkTypes
    BY DEF Init, LinkTypes, From
  <1>2. ConfigTypes /\ SessionTypes /\ CountTypes
    BY DEF Init, ConfigTypes, SessionTypes, CountTypes, Bounds, States
  <1>3. AuthInv /\ ConnectInv /\ CalmInv
    BY Zenon
       DEF Init, AuthInv, ConnectInv, DisconnectMatchesConnect, CalmInv, Stage, Fresh, InOrder, Server, Under, Ends
  <1> QED
    BY <1>1, <1>2, <1>3, Zenon DEF IInv, Types

(* Run's return keeps the types. *)
LEMMA ReturnTypes ==
  ASSUME Types, NEW e \in Ends, NEW c, RunReturns(e, c)
  PROVE  /\ rl' \in [Ends -> {"read", "auth", "accepted", "send", "restore", "close",
                              "establish", "ended"}]
         /\ tm' \in {"armed", "store", "send", "restore", "close", "off"}
         /\ hb' \in [Ends -> {"on", "fail", "off"}]
         /\ disconnects' \in Nat
  BY DEF RunReturns, TimersStop, Types, SessionTypes, CountTypes

(* Every step keeps the types of the channels. *)
LEMMA LinkStep == ASSUME Bounds, Types, Next PROVE LinkTypes'
  <1> USE DEF Types
  <1>1. CASE out' = out
    BY <1>1, Zenon DEF LinkTypes
  <1>2. ASSUME NEW e \in Ends, NEW f \in From(e), out' = [out EXCEPT ![e] = Append(@, f)]
        PROVE  LinkTypes'
    <2>1. Append(out[e], f) \in Seq(From(e))
      BY Channel, Zenon DEF LinkTypes
    <2> QED
      BY <1>2, <2>1, LinkSet, Zenon DEF LinkTypes
  <1>3. ASSUME NEW e \in Ends, NEW kept \in Written(out[e]), out' = [out EXCEPT ![e] = kept]
        PROVE  LinkTypes'
    <2>1. From(e) # {}
      BY FrameIs, Zenon DEF Ends
    <2>2. PICK f \in From(e) : TRUE
      BY <2>1, Zenon
    <2>3. kept \in Seq(From(e))
      BY <2>2, Channel, Zenon DEF LinkTypes
    <2> QED
      BY <1>3, <2>3, LinkSet, Zenon
  <1>4. ASSUME NEW e \in Ends, Readable(e), NEW s \in Seq(From(e)), Take(e, s)
        PROVE  LinkTypes'
    <2>1. out[e] \o s \in Seq(From(e))
      BY DEF LinkTypes
    <2>2. out' = [out EXCEPT ![Peer(e)] = Tail(@), ![e] = out[e] \o s]
      BY <1>4, Peers, Zenon DEF Take, LinkTypes
    <2> QED
      BY <1>4, <2>1, <2>2, LinkTake, Read, Zenon
  <1>5. ASSUME NEW e \in Ends, Readable(e), Take(e, <<>>) PROVE LinkTypes'
    <2>1. <<>> \in Seq(From(e))
      OBVIOUS
    <2> QED
      BY <1>4, <1>5, <2>1, Zenon
  <1>6. CASE Authenticate \/ SendHello \/ StoreState \/ SendRequest
    BY <1>1, <1>2, <1>6, FrameIs, Zenon
       DEF Authenticate, SendHello, StoreState, SendRequest, Ends, ConfigTypes
  <1>7. CASE AuthTimer
    BY <1>1, <1>2, <1>7, FrameIs, Zenon DEF AuthTimer, AuthTimerFires, AuthTimerRejects, Ends
  <1>8. ASSUME NEW e \in Ends, RefuseFrame(e) PROVE LinkTypes'
    <2> DEFINE a == Frame(IF Incoming(e).type \notin AuthTypes /\ ~EnsureAuthenticatedFor(e)
                          THEN "reject" ELSE "error")
    <2>1. a \in From(e)
      BY FrameIs, Zenon DEF Ends, EnsureAuthenticatedFor
    <2>2. PICK kept \in Written(IF writes[e] THEN Append(out[e], a) ELSE out[e]) :
              out' = [out EXCEPT ![Peer(e)] = Tail(@), ![e] = kept]
      BY <1>8, Zenon DEF RefuseFrame
    <2> HIDE DEF a
    <2>3. Append(out[e], a) \in Seq(From(e)) /\ out[e] \in Seq(From(e))
      BY <2>1, Channel, Zenon DEF LinkTypes
    <2>4. kept \in Seq(From(e))
      BY <2>1, <2>3, Channel, Zenon
    <2>5. Readable(e)
      BY <1>8, Zenon DEF RefuseFrame
    <2> QED
      BY <2>2, <2>4, <2>5, LinkTake, Read, Zenon
  <1>9. ASSUME NEW e \in Ends, Established(e) \/ HandleMessage(e) \/ ReadFails(e) PROVE LinkTypes'
    BY <1>1, <1>3, <1>5, <1>9, Zenon DEF Established, HandleMessage, ReadFails
  <1>10. CASE HandleAuth \/ AuthHandlerReturns \/ AcceptAuth \/ LoopRejects
    BY <1>1, <1>2, <1>5, <1>10, FrameIs, Zenon
       DEF HandleAuth, AuthHandlerReturns, AcceptAuth, LoopRejects, Ends
  <1>11. CASE HandleHello
    <2>1. <<HelloFrame("helloAck", caps["server"])>> \in Seq(From("server"))
      BY FrameIs DEF ConfigTypes, Ends
    <2> QED
      BY <1>4, <1>5, <1>11, <2>1, Zenon DEF HandleHello, Ends
  <1>12. CASE HandleAuthAccept \/ HandleAuthReject \/ HandleHelloAck
    BY <1>5, <1>12, Zenon DEF HandleAuthAccept, HandleAuthReject, HandleHelloAck, Ends
  <1>13. ASSUME NEW e \in Ends, Heartbeat(e) \/ WriterFails(e) \/ ContextEnds(e) PROVE LinkTypes'
    BY <1>1, <1>3, <1>13, Zenon
       DEF Heartbeat, HeartbeatTicks, HeartbeatFails, WriterFails, ContextEnds
  <1> QED
    BY <1>6, <1>7, <1>8, <1>9, <1>10, <1>11, <1>12, <1>13, Zenon DEF Next, ReadLoop

(* Every step keeps what is negotiated within the capabilities there are. *)
LEMMA ConfigStep == ASSUME Bounds, Types, Next PROVE ConfigTypes'
  <1> USE DEF Types
  <1>1. CASE UNCHANGED <<required, caps, remoteCaps>>
    BY <1>1, Zenon DEF ConfigTypes
  <1>2. ASSUME NEW e \in Ends, NEW c, acceptRemoteHello(e, c), UNCHANGED config PROVE ConfigTypes'
    BY <1>2, Zenon DEF acceptRemoteHello, ConfigTypes, config
  <1>3. CASE HandleHello
    BY <1>2, <1>3, Zenon DEF HandleHello, Ends
  <1>4. CASE HandleHelloAck
    BY <1>2, <1>4, Zenon DEF HandleHelloAck, Ends
  <1>5. CASE Authenticate \/ SendHello \/ StoreState \/ SendRequest \/ AuthTimer
    BY <1>1, <1>5, Zenon
       DEF Authenticate, SendHello, StoreState, SendRequest, AuthTimer, AuthTimerFires,
       AuthTimerRejects, config
  <1>6. CASE HandleAuth \/ AuthHandlerReturns \/ AcceptAuth \/ LoopRejects \/ HandleAuthAccept
             \/ HandleAuthReject
    BY <1>1, <1>6, Zenon
       DEF HandleAuth, AuthHandlerReturns, AcceptAuth, LoopRejects, HandleAuthAccept,
       HandleAuthReject, config
  <1>7. ASSUME NEW e \in Ends, RefuseFrame(e) \/ Established(e) \/ HandleMessage(e) \/ ReadFails(e)
        PROVE  ConfigTypes'
    BY <1>1, <1>7, Zenon DEF RefuseFrame, Established, HandleMessage, ReadFails, config
  <1>8. ASSUME NEW e \in Ends, Heartbeat(e) \/ WriterFails(e) \/ ContextEnds(e) PROVE ConfigTypes'
    BY <1>1, <1>8, Zenon
       DEF Heartbeat, HeartbeatTicks, HeartbeatFails, WriterFails, ContextEnds, config
  <1> QED
    BY <1>3, <1>4, <1>5, <1>6, <1>7, <1>8, Zenon DEF Next, ReadLoop
(* A step that ends a session keeps the types. *)
LEMMA EndTypes ==
  ASSUME Types, NEW e \in Ends
  PROVE  /\ \A s \in States : SetState(e, s) => state' \in [Ends -> States]
         /\ CloseEnd(e) => open' \in [Ends -> BOOLEAN] /\ writes' \in [Ends -> BOOLEAN]
         /\ HandlingFailed(e) => /\ state' \in [Ends -> States]
                                 /\ open' \in [Ends -> BOOLEAN] /\ writes' \in [Ends -> BOOLEAN]
  BY Zenon DEF SetState, CloseEnd, HandlingFailed, Types, SessionTypes, States

(* Every step keeps the types of the sessions and their goroutines. *)
LEMMA SessionStep == ASSUME Bounds, Types, Next PROVE SessionTypes'
  <1> USE DEF Types, SessionTypes
  <1>1. CASE Authenticate \/ SendHello \/ StoreState \/ SendRequest
    BY <1>1, Zenon
       DEF Authenticate, SendHello, StoreState, SendRequest, timers, client, SetState, States
  <1>2. CASE AuthTimer
    BY <1>2, Zenon
       DEF AuthTimer, AuthTimerFires, AuthTimerRejects, timers, client, SetState, States, CloseEnd
  <1>3. ASSUME NEW e \in Ends, RefuseFrame(e) PROVE SessionTypes'
    <2>1. RunReturns(e, connect) /\ CloseEnd(e) /\ \E s \in States : SetState(e, s)
      BY <1>3, Zenon DEF RefuseFrame, States
    <2>2. UNCHANGED app
      BY <1>3, Zenon DEF RefuseFrame, client
    <2> QED
      BY <2>1, <2>2, ReturnTypes, EndTypes, Zenon
  <1>4. ASSUME NEW e \in Ends, Established(e) PROVE SessionTypes'
    <2>1. UNCHANGED app
      BY <1>4, Zenon DEF Established, client
    <2>2. CASE UNCHANGED <<open, writes, timers>>
      BY <1>4, <2>1, <2>2, Zenon
         DEF Established, SetState, States, timers, CloseEnd, RunReturns
    <2>3. CASE RunReturns(e, "failed") /\ SetState(e, "Failed") /\ CloseEnd(e)
      BY <2>1, <2>3, ReturnTypes, EndTypes, Zenon DEF States
    <2> QED
      BY <1>4, <2>2, <2>3, Zenon DEF Established
  <1>5. ASSUME NEW e \in Ends, HandleMessage(e) PROVE SessionTypes'
    BY <1>5, Zenon DEF HandleMessage, client, timers
  <1>6. ASSUME NEW e \in Ends, ReadFails(e) PROVE SessionTypes'
    <2>1. RunReturns(e, connect) /\ UNCHANGED <<open, app>> /\ writes' = [writes EXCEPT ![e] = FALSE]
          /\ \E s \in States : SetState(e, s)
      BY <1>6, Zenon DEF ReadFails, States, client
    <2> QED
      BY <2>1, ReturnTypes, EndTypes, Zenon
  <1>7. CASE HandleAuth \/ AcceptAuth
    BY <1>7, Zenon DEF HandleAuth, AcceptAuth, SetState, States, timers, client
  <1>8. CASE AuthHandlerReturns
    <2>1. UNCHANGED app
      BY <1>8, Zenon DEF AuthHandlerReturns, client
    <2>2. CASE HandlingFailed("server")
      BY <2>1, <2>2, ReturnTypes, EndTypes, Zenon DEF HandlingFailed, Ends
    <2>3. CASE ~HandlingFailed("server")
      BY <1>8, <2>1, <2>3, Zenon DEF AuthHandlerReturns, timers
    <2> QED
      BY <2>2, <2>3, Zenon
  <1>9. CASE LoopRejects
    <2>1. UNCHANGED app
      BY <1>9, Zenon DEF LoopRejects, client
    <2>2. CASE HandlingFailed("server")
      BY <2>1, <2>2, ReturnTypes, EndTypes, Zenon DEF HandlingFailed, Ends
    <2>3. CASE ~HandlingFailed("server")
      BY <1>9, <2>1, <2>3, Zenon DEF LoopRejects, timers, SetState, States, CloseEnd
    <2> QED
      BY <2>2, <2>3, Zenon
  <1>10. CASE HandleHello
    <2>1. UNCHANGED app
      BY <1>10, Zenon DEF HandleHello, client
    <2>2. CASE HandlingFailed("server")
      BY <2>1, <2>2, ReturnTypes, EndTypes, Zenon DEF HandlingFailed, Ends
    <2>3. CASE ~HandlingFailed("server")
      BY <1>10, <2>1, <2>3, Zenon DEF HandleHello, timers
    <2> QED
      BY <2>2, <2>3, Zenon
  <1>11. CASE HandleAuthAccept \/ HandleHelloAck
    BY <1>11, Zenon DEF HandleAuthAccept, HandleHelloAck, SetState, States, timers, client
  <1>12. CASE HandleAuthReject
    BY <1>12, ReturnTypes, EndTypes, Zenon DEF HandleAuthReject, Ends, States, client
  <1>13. ASSUME NEW e \in Ends, Heartbeat(e) PROVE SessionTypes'
    BY <1>13, Zenon
       DEF Heartbeat, HeartbeatTicks, HeartbeatFails, SetState, CloseEnd, States, client
  <1>14. ASSUME NEW e \in Ends, WriterFails(e) \/ ContextEnds(e) PROVE SessionTypes'
    BY <1>14, Zenon DEF WriterFails, ContextEnds, SetState, States, client, timers
  <1> QED
    BY <1>1, <1>2, <1>3, <1>4, <1>5, <1>6, <1>7, <1>8, <1>9, <1>10, <1>11, <1>12, <1>13,
       <1>14, Zenon
       DEF Next, ReadLoop

(* Every step keeps the types of the counters and of the history. *)
LEMMA CountStep == ASSUME Bounds, Types, Next PROVE CountTypes'
  <1> USE DEF Types, CountTypes, Bounds
  <1>1. CASE Authenticate \/ SendHello \/ StoreState \/ SendRequest
    <2>1. seen' \subseteq Happenings /\ UNCHANGED <<connect, disconnects, faults>>
      BY <1>1, Zenon DEF Authenticate, SendHello, StoreState, SendRequest, Happenings
    <2>2. auths' \in 0 .. MaxAuth /\ requests' \in 0 .. MaxRequests
      BY <1>1, SMT DEF Authenticate, SendHello, StoreState, SendRequest
    <2> QED
      BY <2>1, <2>2, Zenon
  <1>2. CASE AuthTimer
    BY <1>2, Zenon DEF AuthTimer, AuthTimerFires, AuthTimerRejects, client, Happenings
  <1>3. ASSUME NEW e \in Ends, RefuseFrame(e) PROVE CountTypes'
    <2>1. UNCHANGED <<client, connect>> /\ RunReturns(e, connect)
      BY <1>3, Zenon DEF RefuseFrame
    <2>2. seen' \subseteq Happenings
      BY <1>3, Zenon DEF RefuseFrame, Happenings
    <2>3. faults' \in 0 .. MaxFaults
      BY <1>3 DEF RefuseFrame
    <2> QED
      BY <2>1, <2>2, <2>3, ReturnTypes, Zenon DEF client
  <1>4. ASSUME NEW e \in Ends, Established(e) PROVE CountTypes'
    <2>1. UNCHANGED <<client, faults>> /\ seen' \subseteq Happenings
          /\ connect' \in {"none", "done", "failed"}
      BY <1>4, Zenon DEF Established, Happenings
    <2>2. disconnects' \in Nat
      BY <1>4, ReturnTypes, Zenon DEF Established
    <2> QED
      BY <2>1, <2>2, Zenon DEF client
  <1>5. ASSUME NEW e \in Ends, HandleMessage(e) PROVE CountTypes'
    BY <1>5, Zenon DEF HandleMessage, client, Happenings
  <1>6. ASSUME NEW e \in Ends, ReadFails(e) PROVE CountTypes'
    BY <1>6, ReturnTypes, Zenon DEF ReadFails, client
  <1>7. CASE HandleAuth \/ AcceptAuth \/ HandleAuthAccept \/ HandleHelloAck
    BY <1>7, Zenon DEF HandleAuth, AcceptAuth, HandleAuthAccept, HandleHelloAck, client
  <1>8. CASE AuthHandlerReturns
    BY <1>8, ReturnTypes, Zenon
       DEF AuthHandlerReturns, client, HandlingFailed, Ends, Happenings
  <1>9. CASE LoopRejects
    BY <1>9, ReturnTypes, Zenon DEF LoopRejects, client, HandlingFailed, Ends
  <1>10. CASE HandleHello \/ HandleAuthReject
    BY <1>10, ReturnTypes, Zenon
       DEF HandleHello, HandleAuthReject, client, HandlingFailed, Ends
  <1>11. ASSUME NEW e \in Ends, Heartbeat(e) PROVE CountTypes'
    BY <1>11, Zenon DEF Heartbeat, HeartbeatTicks, HeartbeatFails, client, Happenings
  <1>12. ASSUME NEW e \in Ends, WriterFails(e) \/ ContextEnds(e) PROVE CountTypes'
    <2>1. seen' \subseteq Happenings /\ UNCHANGED <<client, connect, disconnects>>
      BY <1>12, Zenon DEF WriterFails, ContextEnds, Happenings
    <2>2. faults' \in 0 .. MaxFaults
      BY <1>12, SMT DEF WriterFails, ContextEnds
    <2> QED
      BY <2>1, <2>2, Zenon DEF client
  <1> QED
    BY <1>1, <1>2, <1>3, <1>4, <1>5, <1>6, <1>7, <1>8, <1>9, <1>10, <1>11, <1>12, Zenon
       DEF Next, ReadLoop
-----------------------------------------------------------------------------
(* Who is served. *)

(* What of the server's session the invariants about it read. *)
AtServer == <<state["server"], rl["server"], connect>>

(* Steps that leave the server's session and the history of it alone. *)
LEMMA SameServer ==
  ASSUME AuthInv, ConnectInv, UNCHANGED <<AtServer, required, disconnects>>,
         "authenticated" \in seen => "authenticated" \in seen',
         "served" \in seen' => "served" \in seen
  PROVE  AuthInv' /\ ConnectInv'
  BY Zenon DEF AuthInv, ConnectInv, DisconnectMatchesConnect, AtServer

(* The server's session fails or is rejected, and its Run may go on. *)
LEMMA ServerStopped ==
  ASSUME AuthInv, ConnectInv, state'["server"] \in {"AuthRejected", "Failed"},
         UNCHANGED <<rl["server"], connect, required, disconnects>>,
         "authenticated" \in seen => "authenticated" \in seen',
         "served" \in seen' => "served" \in seen
  PROVE  AuthInv' /\ ConnectInv'
  BY Zenon DEF AuthInv, ConnectInv, DisconnectMatchesConnect

(* The server's Run returns after its session failed or was rejected. *)
LEMMA ServerEnds ==
  ASSUME Types, AuthInv, ConnectInv, state'["server"] \in {"AuthRejected", "Failed"},
         RunReturns("server", connect), rl["server"] # "ended",
         UNCHANGED <<connect, required>>,
         "authenticated" \in seen => "authenticated" \in seen',
         "served" \in seen' => "served" \in seen
  PROVE  AuthInv' /\ ConnectInv'
  BY DEF AuthInv, ConnectInv, DisconnectMatchesConnect, RunReturns, Types, SessionTypes, CountTypes, Ends

(* The client's Run returns. *)
LEMMA ClientEnds ==
  ASSUME Types, NEW c, RunReturns("client", c)
  PROVE  rl'["server"] = rl["server"] /\ disconnects' = disconnects
  BY DEF RunReturns, Types, SessionTypes, CountTypes, Ends

(* A session's store. *)
LEMMA Stored ==
  ASSUME Types, NEW e \in Ends, NEW s, SetState(e, s)
  PROVE  state'[e] = s /\ \A d \in Ends : d # e => state'[d] = state[d]
  BY Zenon DEF SetState, Types, SessionTypes

(* Every step keeps the invariants about who is served and about the connect *)
(* and disconnect handlers.                                                  *)
LEMMA ServedStep == ASSUME Bounds, Types, AuthInv, ConnectInv, Next PROVE AuthInv' /\ ConnectInv'
  <1>1. CASE Authenticate \/ SendHello \/ StoreState \/ SendRequest
    <2>1. UNCHANGED <<AtServer, required, disconnects>>
      BY <1>1, Stored, Zenon
         DEF Authenticate, SendHello, StoreState, SendRequest, config, AtServer, Ends
    <2>2. seen \subseteq seen' /\ ("served" \in seen' => "served" \in seen)
      BY <1>1, Zenon DEF Authenticate, SendHello, StoreState, SendRequest
    <2> QED
      BY <2>1, <2>2, SameServer, Zenon
  <1>2. CASE AuthTimerFires
    <2>1. UNCHANGED <<AtServer, required, disconnects>>
      BY <1>2, Zenon DEF AuthTimerFires, config, AtServer
    <2>2. seen \subseteq seen' /\ ("served" \in seen' => "served" \in seen)
      BY <1>2, Zenon DEF AuthTimerFires
    <2> QED
      BY <2>1, <2>2, SameServer, Zenon
  <1>3. CASE AuthTimerRejects
    <2>1. UNCHANGED <<rl, connect, required, disconnects, seen>>
      BY <1>3, Zenon DEF AuthTimerRejects, config
    <2>2. state' = state \/ SetState("server", "AuthRejected")
      BY <1>3, Zenon DEF AuthTimerRejects
    <2> QED
      BY <2>1, <2>2, Stored, SameServer, ServerStopped, Zenon DEF AtServer, Ends
  <1>4. ASSUME NEW e \in Ends, RefuseFrame(e) PROVE AuthInv' /\ ConnectInv'
    <2>1. RunReturns(e, connect) /\ UNCHANGED <<connect, required>> /\ rl[e] = "read"
      BY <1>4, Zenon DEF RefuseFrame, config, Readable
    <2>2. SetState(e, "AuthRejected") \/ SetState(e, "Failed")
      BY <1>4, Zenon DEF RefuseFrame
    <2>3. seen \subseteq seen' /\ ("served" \in seen' => "served" \in seen)
      BY <1>4, Zenon DEF RefuseFrame
    <2>4. CASE e = "server"
      BY <2>1, <2>2, <2>3, <2>4, Stored, ServerEnds, Zenon DEF Ends
    <2>5. CASE e = "client"
      BY <2>1, <2>2, <2>3, <2>5, Stored, ClientEnds, SameServer, Zenon DEF AtServer, Ends
    <2> QED
      BY <2>4, <2>5, Zenon DEF Ends
  <1>5. ASSUME NEW e \in Ends, Established(e) PROVE AuthInv' /\ ConnectInv'
    <2>1. required' = required /\ rl[e] = "establish"
      BY <1>5, Zenon DEF Established, config
    <2>2. CASE e = "client"
      <3>1. UNCHANGED <<AtServer, disconnects, seen>>
        BY <1>5, <2>2, Stored, Zenon DEF Established, AtServer, Ends, Types, SessionTypes
      <3> QED
        BY <2>1, <3>1, SameServer, Zenon
    <2>3. CASE e = "server" /\ SetState(e, "Established")
      <3>1. connect = "none" /\ disconnects = 0
        BY <2>1, <2>3, Zenon DEF ConnectInv, DisconnectMatchesConnect
      <3>2. state'["server"] = "Established"
        BY <2>3, Stored, Zenon
      <3>3. state'["server"] # "Failed"
        BY <3>2, Zenon
      <3>4. ~SetState(e, "Failed")
        BY <2>3, <3>3, Stored, Zenon
      <3>5. /\ rl'["server"] = "read" /\ connect' = "done" /\ UNCHANGED <<disconnects, seen>>
        BY <1>5, <2>3, <3>4, Zenon DEF Established, Types, SessionTypes, Ends
      <3> QED
        BY <2>1, <2>3, <3>1, <3>2, <3>5, Zenon
           DEF AuthInv, ConnectInv, DisconnectMatchesConnect
    <2>4. CASE e = "server" /\ RunReturns(e, "failed") /\ SetState(e, "Failed") /\ connect' = "failed"
      <3>1. connect = "none" /\ disconnects = 0
        BY <2>1, <2>4, Zenon DEF ConnectInv, DisconnectMatchesConnect
      <3>2. state'["server"] = "Failed"
        BY <2>4, Stored, Zenon
      <3>3. rl'["server"] = "ended" /\ disconnects' = 0
        BY <2>4, <3>1 DEF RunReturns, Types, SessionTypes, Ends
      <3>4. required /\ "authenticated" \notin seen => FALSE
        BY <2>1, <2>4, Zenon DEF AuthInv
      <3>5. seen \subseteq seen'
        BY <1>5, Zenon DEF Established
      <3> QED
        BY <2>1, <2>4, <3>2, <3>3, <3>4, <3>5, Zenon
           DEF AuthInv, ConnectInv, DisconnectMatchesConnect
    <2> QED
      BY <1>5, <2>2, <2>3, <2>4, Zenon DEF Established, Ends
  <1>6. ASSUME NEW e \in Ends, HandleMessage(e) PROVE AuthInv' /\ ConnectInv'
    <2>1. UNCHANGED <<AtServer, required, disconnects>> /\ seen \subseteq seen'
      BY <1>6, Zenon DEF HandleMessage, AtServer, config
    <2>2. CASE seen' = seen
      BY <2>1, <2>2, SameServer, Zenon
    <2>3. CASE Incoming(e).type = "request"
      <3>1. e = "server"
        <4>1. Incoming(e) \in From(Peer(e))
          BY <1>6, Read, Zenon DEF HandleMessage, Types
        <4> QED
          BY <2>3, <4>1, FrameTypes, Peers, Zenon DEF Ends
      <3>2. state["server"] = "Established"
        BY <1>6, <2>3, <3>1, Zenon DEF HandleMessage, Admitted, ensureIncomingState, AuthTypes
      <3>3. ConnectInv'
        BY <2>1, Zenon DEF ConnectInv, DisconnectMatchesConnect, AtServer
      <3> QED
        BY <2>1, <3>2, <3>3, Zenon DEF AuthInv, AtServer
    <2> QED
      BY <1>6, <2>2, <2>3, Zenon DEF HandleMessage
  <1>7. ASSUME NEW e \in Ends, ReadFails(e) PROVE AuthInv' /\ ConnectInv'
    <2>1. RunReturns(e, connect) /\ UNCHANGED <<connect, required, seen>> /\ rl[e] = "read"
      BY <1>7, Zenon DEF ReadFails, config
    <2>2. SetState(e, "AuthRejected") \/ SetState(e, "Failed")
      BY <1>7, Zenon DEF ReadFails
    <2>3. CASE e = "server"
      BY <2>1, <2>2, <2>3, Stored, ServerEnds, Zenon DEF Ends
    <2>4. CASE e = "client"
      BY <2>1, <2>2, <2>4, Stored, ClientEnds, SameServer, Zenon DEF AtServer, Ends
    <2> QED
      BY <2>3, <2>4, Zenon DEF Ends
  <1>8. ASSUME HandlingFailed("server"), UNCHANGED <<connect, required, seen>>, rl["server"] # "ended"
        PROVE  AuthInv' /\ ConnectInv'
    <2>1. SetState("server", "AuthRejected") \/ SetState("server", "Failed")
      BY <1>8, Zenon DEF HandlingFailed
    <2> QED
      BY <1>8, <2>1, Stored, ServerEnds, Zenon DEF HandlingFailed, Ends
  <1>9. CASE HandleAuth
    <2>1. state["server"] \in {"New", "AuthPending"} /\ rl["server"] = "read"
      BY <1>9, Zenon DEF HandleAuth, Admitted, AuthTypes, ensureIncomingState, Readable
    <2>2. connect = "none"
      BY <2>1, Zenon DEF ConnectInv
    <2>3. state'["server"] = "AuthPending" /\ rl'["server"] = "auth"
          /\ UNCHANGED <<required, connect, disconnects, seen>>
      BY <1>9, Stored, Zenon DEF HandleAuth, config, Types, SessionTypes, Ends
    <2> QED
      BY <2>1, <2>2, <2>3, Zenon DEF AuthInv, ConnectInv, DisconnectMatchesConnect
  <1>10. CASE AuthHandlerReturns
    <2>1. rl["server"] = "auth" /\ UNCHANGED <<connect, required>>
      BY <1>10, Zenon DEF AuthHandlerReturns, config
    <2>2. connect = "none"
      BY <2>1, Zenon DEF ConnectInv
    <2>3. CASE HandlingFailed("server") /\ UNCHANGED seen
      BY <1>8, <2>1, <2>3, Zenon
    <2>4. CASE /\ rl' = [rl EXCEPT !["server"] = "accepted"] /\ seen' = seen \cup {"authenticated"}
               /\ UNCHANGED <<state, disconnects>>
      <3>1. rl'["server"] = "accepted"
        BY <2>4, Zenon DEF Types, SessionTypes, Ends
      <3> QED
        BY <2>1, <2>2, <2>4, <3>1, Zenon DEF AuthInv, ConnectInv, DisconnectMatchesConnect
    <2>5. CASE /\ rl' = [rl EXCEPT !["server"] = "send"] /\ seen' = seen \cup {"disturbed"}
               /\ UNCHANGED <<state, disconnects>>
      <3>1. rl'["server"] = "send"
        BY <2>5, Zenon DEF Types, SessionTypes, Ends
      <3> QED
        BY <2>1, <2>2, <2>5, <3>1, Zenon DEF AuthInv, ConnectInv, DisconnectMatchesConnect
    <2> QED
      BY <1>10, <2>3, <2>4, <2>5, Zenon DEF AuthHandlerReturns
  <1>11. CASE AcceptAuth
    <2>1. rl["server"] = "accepted" /\ UNCHANGED <<connect, required, disconnects, seen>>
      BY <1>11, Zenon DEF AcceptAuth, config
    <2>2. state'["server"] = "AuthAccepted" /\ rl'["server"] = "read"
      BY <1>11, Stored, Zenon DEF AcceptAuth, Types, SessionTypes, Ends
    <2>3. connect = "none"
      BY <2>1, Zenon DEF ConnectInv
    <2> QED
      BY <2>1, <2>2, <2>3, Zenon DEF AuthInv, ConnectInv, DisconnectMatchesConnect
  <1>12. CASE LoopRejects
    <2>1. rl["server"] \in {"send", "restore", "close"} /\ UNCHANGED <<connect, required, seen>>
      BY <1>12, Zenon DEF LoopRejects, config
    <2>2. connect = "none"
      BY <2>1, Zenon DEF ConnectInv
    <2>3. CASE HandlingFailed("server")
      BY <1>8, <2>1, <2>3, Zenon
    <2>4. CASE /\ disconnects' = disconnects
               /\ UNCHANGED state \/ SetState("server", "AuthRejected")
               /\ \E r \in {"restore", "close", "read"} : rl' = [rl EXCEPT !["server"] = r]
      <3>1. rl'["server"] \in {"restore", "close", "read"}
        BY <2>4, Zenon DEF Types, SessionTypes, Ends
      <3>2. state'["server"] \in {state["server"], "AuthRejected"}
        BY <2>4, Stored, Zenon DEF Ends
      <3> QED
        BY <2>1, <2>2, <2>4, <3>1, <3>2, Zenon
           DEF AuthInv, ConnectInv, DisconnectMatchesConnect
    <2> QED
      BY <1>12, <2>3, <2>4, Zenon DEF LoopRejects
  <1>13. CASE HandleHello
    <2>1. rl["server"] = "read" /\ UNCHANGED <<connect, required, seen>>
          /\ state["server"] \in {"New", "AuthAccepted"} /\ EnsureAuthenticatedFor("server")
      BY <1>13, Zenon
         DEF HandleHello, config, Readable, Admitted, AuthTypes, ensureIncomingState
    <2>2. CASE HandlingFailed("server")
      BY <1>8, <2>1, <2>2, Zenon
    <2>3. CASE rl' = [rl EXCEPT !["server"] = "establish"] /\ UNCHANGED <<state, disconnects>>
      <3>1. rl'["server"] = "establish"
        BY <2>3, Zenon DEF Types, SessionTypes, Ends
      <3>2. connect = "none"
        BY <2>1, Zenon DEF ConnectInv
      <3>3. required => state["server"] = "AuthAccepted"
        BY <2>1, Zenon DEF EnsureAuthenticatedFor
      <3> QED
        BY <2>1, <2>3, <3>1, <3>2, <3>3, Zenon
           DEF AuthInv, ConnectInv, DisconnectMatchesConnect
    <2> QED
      BY <1>13, <2>2, <2>3, Zenon DEF HandleHello
  <1>14. CASE HandleAuthAccept \/ HandleHelloAck
    <2>1. UNCHANGED <<AtServer, required, disconnects, seen>>
      BY <1>14, Stored, Zenon
         DEF HandleAuthAccept, HandleHelloAck, config, AtServer, Types, SessionTypes, Ends
    <2> QED
      BY <2>1, SameServer, Zenon
  <1>15. CASE HandleAuthReject
    <2>1. UNCHANGED <<AtServer, required, disconnects, seen>>
      BY <1>15, Stored, ClientEnds, Zenon DEF HandleAuthReject, config, AtServer, Ends
    <2> QED
      BY <2>1, SameServer, Zenon
  <1>16. ASSUME NEW e \in Ends, Heartbeat(e) \/ WriterFails(e) \/ ContextEnds(e)
         PROVE  AuthInv' /\ ConnectInv'
    <2>1. UNCHANGED <<rl, connect, required, disconnects>>
      BY <1>16, Zenon
         DEF Heartbeat, HeartbeatTicks, HeartbeatFails, WriterFails, ContextEnds, config
    <2>2. UNCHANGED state \/ SetState(e, "Failed")
      BY <1>16, Zenon DEF Heartbeat, HeartbeatTicks, HeartbeatFails, WriterFails, ContextEnds
    <2>3. seen \subseteq seen' /\ ("served" \in seen' => "served" \in seen)
      BY <1>16, Zenon DEF Heartbeat, HeartbeatTicks, HeartbeatFails, WriterFails, ContextEnds
    <2>4. state'["server"] = state["server"] \/ state'["server"] = "Failed"
      BY <2>2, Stored, Zenon DEF Ends
    <2> QED
      BY <2>1, <2>3, <2>4, SameServer, ServerStopped, Zenon DEF AtServer
  <1> QED
    BY <1>1, <1>2, <1>3, <1>4, <1>5, <1>6, <1>7, <1>9, <1>10, <1>11, <1>12, <1>13, <1>14,
       <1>15, <1>16, Zenon
       DEF Next, ReadLoop, AuthTimer
-----------------------------------------------------------------------------
(* A calm handshake. *)

(* What reading and sending do to the channels. *)
LEMMA Taken ==
  ASSUME Types, NEW e \in Ends, NEW s, Take(e, s)
  PROVE  out'[e] = out[e] \o s /\ out'[Peer(e)] = Tail(out[Peer(e)])
  BY Peers, Zenon DEF Take, Types, LinkTypes

(* Sending a frame appends it to the own channel alone. *)
LEMMA Sends ==
  ASSUME Types, NEW e \in Ends, NEW f, out' = [out EXCEPT ![e] = Append(@, f)]
  PROVE  out'[e] = Append(out[e], f) /\ out'[Peer(e)] = out[Peer(e)]
  BY Peers, Zenon DEF Types, LinkTypes

(* The types of the frames of a handshake. *)
LEMMA HandshakeFrames ==
  /\ Head(ToAuth).type = "auth" /\ Head(ToAccept).type = "accept"
  /\ Head(ToHello).type = "hello" /\ Head(ToAck).type = "helloAck"
  /\ Head(ToHello).caps = caps["client"] /\ Head(ToAck).caps = caps["server"]
  BY DEF ToAuth, ToAccept, ToHello, ToAck, Frame, HelloFrame

(* Each of those channels holds one frame. *)
LEMMA HandshakeChannels ==
  /\ ToAuth # <<>> /\ ToAccept # <<>> /\ ToHello # <<>> /\ ToAck # <<>>
  /\ Tail(ToAuth) = <<>> /\ Tail(ToAccept) = <<>> /\ Tail(ToHello) = <<>> /\ Tail(ToAck) = <<>>
  BY DEF ToAuth, ToAccept, ToHello, ToAck

(* Which stage the client is at follows from what it reads. *)
LEMMA ClientReads ==
  ASSUME Stage, Readable("client")
  PROVE  \/ Authenticating /\ Accepting /\ Under(<<>>, ToAccept)
         \/ Helloing /\ Agreed /\ Under(<<>>, ToAck)
  <1>1. out["server"] # <<>>
    BY Zenon DEF Readable, Peer
  <1> QED
    BY <1>1, Zenon
       DEF Stage, Fresh, Authenticating, Authenticated, Helloing, Establishing, Running, Under

(* Which stage the server is at follows from what it reads. *)
LEMMA ServerReads ==
  ASSUME Stage, Readable("server")
  PROVE  \/ Authenticating /\ Server("read", "New") /\ Under(ToAuth, <<>>)
         \/ Helloing /\ Awaiting /\ Under(ToHello, <<>>)
         \/ Running /\ Server("read", "Established")
  <1>1. out["client"] # <<>> /\ rl["server"] = "read"
    BY Zenon DEF Readable, Peer
  <1>2. Accepting => Awaiting
    BY <1>1, Zenon DEF Accepting, Awaiting, Server
  <1>3. Agreed => Server("read", "Established")
    BY <1>1, Zenon DEF Agreed, Server
  <1> QED
    BY <1>1, <1>2, <1>3, Zenon
       DEF Stage, Fresh, Authenticating, Authenticated, Helloing, Establishing, Running, Under

(* Whatever is read is what the session waits for, or the read loop has      *)
(* overtaken the application.                                                *)
LEMMA Expected ==
  ASSUME Types, Stage, NEW e \in Ends, Readable(e)
  PROVE  Admitted(e, Incoming(e)) \/ Overtaken(e, Incoming(e))
  <1>1. CASE e = "client"
    <2>1. CASE Authenticating /\ Accepting /\ Under(<<>>, ToAccept)
      <3>1. Incoming(e).type = "accept"
        BY <1>1, <2>1, HandshakeFrames, Zenon DEF Incoming, Under, Peer
      <3> QED
        BY <1>1, <2>1, <3>1, Zenon DEF Authenticating, Asking, Admitted, Overtaken
    <2>2. CASE Helloing /\ Agreed /\ Under(<<>>, ToAck)
      <3>1. Incoming(e).type = "helloAck"
        BY <1>1, <2>2, HandshakeFrames, Zenon DEF Incoming, Under, Peer
      <3>2. EnsureAuthenticatedFor(e)
        BY <1>1, Zenon DEF EnsureAuthenticatedFor
      <3>3. app = "hello" \/ ensureIncomingState(e, Incoming(e).type)
        BY <1>1, <2>2, <3>1, Zenon DEF Helloing, Greeting, ensureIncomingState
      <3>4. Incoming(e).type \notin AuthTypes /\ Incoming(e).type # "request"
        BY <3>1, Zenon DEF AuthTypes
      <3> QED
        BY <1>1, <3>1, <3>2, <3>3, <3>4, Zenon DEF Admitted, Overtaken
    <2> QED
      BY <1>1, <2>1, <2>2, ClientReads, Zenon
  <1>2. CASE e = "server"
    <2>1. CASE Authenticating /\ Server("read", "New") /\ Under(ToAuth, <<>>)
      <3>1. Incoming(e).type = "auth"
        BY <1>2, <2>1, HandshakeFrames, Zenon DEF Incoming, Under, Peer
      <3> QED
        BY <1>2, <2>1, <3>1, Zenon DEF Server, Admitted
    <2>2. CASE Helloing /\ Awaiting /\ Under(ToHello, <<>>)
      <3>1. Incoming(e).type = "hello"
        BY <1>2, <2>2, HandshakeFrames, Zenon DEF Incoming, Under, Peer
      <3>2. EnsureAuthenticatedFor(e) /\ ensureIncomingState(e, Incoming(e).type)
        BY <1>2, <2>2, <3>1, Zenon
           DEF Awaiting, Server, EnsureAuthenticatedFor, ensureIncomingState
      <3>3. Incoming(e).type \notin AuthTypes /\ Incoming(e).type # "request"
        BY <3>1, Zenon DEF AuthTypes
      <3> QED
        BY <3>2, <3>3, Zenon DEF Admitted
    <2>3. CASE Running /\ Server("read", "Established")
      <3>1. Incoming(e) \in Negotiated
        BY <1>2, <2>3 DEF Running, Incoming, Peer, Readable
      <3>2. Incoming(e).type = "request" /\ Incoming(e).needs \in caps["client"] \cap caps["server"]
        BY <3>1, Zenon DEF Negotiated
      <3>3. EnsureAuthenticatedFor(e) /\ ensureIncomingState(e, Incoming(e).type)
        BY <1>2, <2>3, <3>2, Zenon DEF Server, EnsureAuthenticatedFor, ensureIncomingState
      <3>4. requireCapability(e, Incoming(e).needs)
        BY <1>2, <2>3, <3>2, Zenon DEF Running, Agreed, requireCapability
      <3>5. Incoming(e).type \notin AuthTypes
        BY <3>2, Zenon DEF AuthTypes
      <3> QED
        BY <3>3, <3>4, <3>5, Zenon DEF Admitted
    <2> QED
      BY <1>2, <2>1, <2>2, <2>3, ServerReads, Zenon
  <1> QED
    BY <1>1, <1>2, Zenon DEF Ends
(* What the stages read of the client, of the server and of what both agreed. *)
AtClient == <<app, auths, state["client"], rl["client"]>>

(* What both ends have agreed on. *)
Settled == <<required, caps, remoteCaps>>

(* A step of one end that keeps its stage. *)
LEMMA SameStage ==
  ASSUME Stage, UNCHANGED <<AtClient, state["server"], rl["server"], Settled, out>>
  PROVE  Stage'
  <1>1. UNCHANGED <<ToAuth, ToAccept, ToHello, ToAck, Negotiated>>
    BY Zenon DEF Settled, ToAuth, ToAccept, ToHello, ToAck, Negotiated
  <1>2. UNCHANGED <<Asking, Greeting, Accepting, Awaiting, Agreed>>
    BY Zenon DEF AtClient, Settled, Asking, Greeting, Accepting, Awaiting, Agreed, Server
  <1>3. UNCHANGED <<Fresh, Authenticating>>
    BY <1>1, <1>2, Zenon DEF AtClient, Fresh, Authenticating, Server, Under
  <1>4. UNCHANGED <<Authenticated, Helloing>>
    BY <1>1, <1>2, Zenon DEF AtClient, Authenticated, Helloing, Under
  <1>5. UNCHANGED <<Establishing, Running>>
    BY <1>1, <1>2, Zenon DEF AtClient, Settled, Establishing, Running, Under
  <1> QED
    BY <1>3, <1>4, <1>5, Zenon DEF Stage

(* A client that is established sends nothing but requests. *)
LEMMA RunningSends ==
  ASSUME Running, Readable("server")
  PROVE  Incoming("server").type = "request"
  <1>1. Incoming("server") \in Negotiated
    BY DEF Running, Incoming, Peer, Readable
  <1> QED
    BY <1>1, Zenon DEF Negotiated

(* The client's application: the step is calm only in order. *)
LEMMA ApplicationCalm ==
  ASSUME Types, Stage, InOrder, Calm',
         Authenticate \/ SendHello \/ StoreState \/ SendRequest
  PROVE  Stage'
  <1> USE DEF Types
  <1>1. UNCHANGED <<Settled, rl, state["server"]>>
    BY Stored, Zenon
       DEF Authenticate, SendHello, StoreState, SendRequest, Settled, config, Ends
  <1>2. UNCHANGED <<ToAuth, ToAccept, ToHello, ToAck, Negotiated, Agreed, Accepting, Awaiting>>
    BY <1>1, Zenon
       DEF ToAuth, ToAccept, ToHello, ToAck, Negotiated, Agreed, Accepting, Awaiting, Settled, Server
  <1>3. CASE Authenticate
    <2>1. app = "idle" /\ app' = "auth" /\ state["client"] = "New" /\ auths = 0 /\ state' = state
      BY <1>3, Zenon DEF Authenticate, Calm
    <2>2. Fresh
      BY <2>1, Zenon
         DEF Stage, Authenticating, Asking, Authenticated, Helloing, Greeting, Establishing, Running
    <2>3. out'["client"] = ToAuth /\ out'["server"] = <<>>
      <3>1. out'["client"] = Append(out["client"], Frame("auth")) /\ out'["server"] = out["server"]
        BY <1>3, Sends, Peers, Zenon DEF Authenticate, Ends
      <3> QED
        BY <2>2, <3>1, OneFrame, Zenon DEF Fresh, Under, ToAuth
    <2>4. Authenticating'
      BY <1>1, <1>2, <2>1, <2>2, <2>3, Zenon DEF Authenticating, Asking, Fresh, Under, Server
    <2> QED
      BY <2>4, Zenon DEF Stage
  <1>4. CASE SendHello
    <2>1. app = "idle" /\ app' = "hello" /\ state["client"] \in {"New", "AuthAccepted"} /\ state' = state
          /\ (required => auths # 0)
      BY <1>4, Zenon DEF SendHello, Calm
    <2>2. Fresh \/ Authenticated
      BY <2>1, Zenon
         DEF Stage, Authenticating, Asking, Helloing, Greeting, Establishing, Running
    <2>3. out'["client"] = ToHello /\ out'["server"] = <<>>
      <3>1. /\ out'["client"] = Append(out["client"], HelloFrame("hello", caps["client"]))
            /\ out'["server"] = out["server"]
        BY <1>4, Sends, Peers, Zenon DEF SendHello, Ends
      <3> QED
        BY <2>2, <3>1, OneFrame, Zenon DEF Fresh, Authenticated, Under, ToHello
    <2>4. Accepting \/ Awaiting
      BY <2>1, <2>2, Zenon DEF Fresh, Authenticated, Awaiting
    <2>5. rl["client"] = "read"
      BY <2>2, Zenon DEF Fresh, Authenticated
    <2>6. Helloing'
      BY <1>1, <1>2, <2>1, <2>3, <2>4, <2>5, Zenon DEF Helloing, Greeting, Under
    <2> QED
      BY <2>6, Zenon DEF Stage
  <1>5. CASE StoreState /\ app = "auth"
    <2>1. app' = "idle" /\ state'["client"] = "AuthPending" /\ out' = out
      BY <1>5, Stored, Zenon DEF StoreState, Ends
    <2>2. Authenticating
      BY <1>5, Zenon DEF Stage, Fresh, Authenticated, Helloing, Greeting, Establishing, Running
    <2>3. Authenticating'
      BY <1>1, <1>2, <2>1, <2>2, Zenon DEF Authenticating, Asking, Under, Server
    <2> QED
      BY <2>3, Zenon DEF Stage
  <1>6. CASE StoreState /\ app = "hello"
    <2>1. app' = "idle" /\ state'["client"] = "HelloSent" /\ out' = out
      BY <1>6, Stored, Zenon DEF StoreState, Ends
    <2>2. Helloing
      BY <1>6, Zenon
         DEF Stage, Fresh, Authenticated, Authenticating, Asking, Establishing, Running
    <2>3. Helloing'
      BY <1>1, <1>2, <2>1, <2>2, Zenon DEF Helloing, Greeting, Under
    <2> QED
      BY <2>3, Zenon DEF Stage
  <1>7. CASE SendRequest
    <2>1. app = "idle" /\ app' = app /\ state["client"] = "Established" /\ state' = state
      BY <1>7, Zenon DEF SendRequest
    <2>2. Running
      BY <2>1, Zenon
         DEF Stage, Fresh, Authenticating, Asking, Authenticated, Helloing, Greeting, Establishing
    <2>3. PICK c \in Capabilities : /\ requireCapability("client", c)
                                    /\ out' = [out EXCEPT !["client"] =
                                                  Append(@, [type |-> "request", needs |-> c])]
      BY <1>7, Zenon DEF SendRequest
    <2>4. [type |-> "request", needs |-> c] \in Negotiated
      BY <2>2, <2>3, Zenon DEF requireCapability, Running, Negotiated
    <2>5. out'["client"] = Append(out["client"], [type |-> "request", needs |-> c])
          /\ out'["server"] = out["server"]
      BY <2>3, Sends, Peers, Zenon DEF Ends
    <2>6. out'["client"] \in Seq(Negotiated)
      BY <2>2, <2>4, <2>5, Channel, Zenon DEF Running
    <2>7. Running'
      BY <1>1, <1>2, <2>1, <2>2, <2>5, <2>6, Zenon DEF Running, Settled
    <2> QED
      BY <2>7, Zenon DEF Stage
  <1> QED
    BY <1>3, <1>4, <1>5, <1>6, <1>7, Zenon DEF StoreState

(* The client's read loop. *)
LEMMA ClientCalm ==
  ASSUME Types, Stage, InOrder, HandleAuthAccept \/ HandleAuthReject \/ HandleHelloAck
  PROVE  Stage'
  <1> USE DEF Types
  <1>1. Readable("client") /\ Admitted("client", Incoming("client")) /\ Take("client", <<>>)
    BY Zenon DEF HandleAuthAccept, HandleAuthReject, HandleHelloAck
  <1>2. out'["client"] = out["client"] /\ out'["server"] = Tail(out["server"])
    <2>1. out'["client"] = out["client"] \o <<>> /\ out'["server"] = Tail(out["server"])
      BY <1>1, Taken, Peers, Zenon DEF Ends
    <2> QED
      BY <2>1 DEF LinkTypes, Ends
  <1>3. CASE Authenticating /\ Accepting /\ Under(<<>>, ToAccept)
    <2>1. Incoming("client").type = "accept"
      BY <1>3, HandshakeFrames, Zenon DEF Incoming, Under, Peer
    <2>2. HandleAuthAccept
      BY <2>1, Zenon DEF HandleAuthReject, HandleHelloAck
    <2>3. state["client"] = "AuthPending"
      BY <1>1, <2>1, Zenon DEF Admitted, AuthTypes
    <2>4. app = "idle"
      BY <1>3, <2>3, Zenon DEF Authenticating, Asking
    <2>5. state'["client"] = "AuthAccepted" /\ UNCHANGED <<state["server"], rl, app, Settled>>
      BY <2>2, Stored, Zenon DEF HandleAuthAccept, client, config, Settled, Ends
    <2>6. Under(<<>>, <<>>)'
      BY <1>2, <1>3, HandshakeChannels, Zenon DEF Under
    <2>7. Authenticated'
      BY <1>3, <2>4, <2>5, <2>6, Zenon DEF Authenticated, Authenticating, Accepting, Server
    <2> QED
      BY <2>7, Zenon DEF Stage
  <1>4. CASE Helloing /\ Agreed /\ Under(<<>>, ToAck)
    <2>1. Incoming("client").type = "helloAck" /\ Incoming("client").caps = caps["server"]
      BY <1>4, HandshakeFrames, Zenon DEF Incoming, Under, Peer
    <2>2. HandleHelloAck
      BY <2>1, Zenon DEF HandleAuthReject, HandleAuthAccept
    <2>3. state["client"] = "HelloSent"
      BY <1>1, <2>1, Zenon DEF Admitted, AuthTypes, ensureIncomingState
    <2>4. app = "idle"
      BY <1>4, <2>3, Zenon DEF Helloing, Greeting
    <2>5. rl'["client"] = "establish" /\ UNCHANGED <<state, rl["server"], app, caps>>
      BY <2>2, Zenon DEF HandleHelloAck, client, config, Ends, SessionTypes
    <2>6. remoteCaps'["client"] = caps["client"] \cap caps["server"]
          /\ remoteCaps'["server"] = remoteCaps["server"]
      BY <2>1, <2>2, Zenon DEF HandleHelloAck, acceptRemoteHello, ConfigTypes, Ends
    <2>7. Under(<<>>, <<>>)'
      BY <1>2, <1>4, HandshakeChannels, Zenon DEF Under
    <2>8. Agreed'
      BY <1>4, <2>5, <2>6, Zenon DEF Agreed, Server
    <2>9. Establishing'
      BY <2>3, <2>4, <2>5, <2>6, <2>7, <2>8, Zenon DEF Establishing
    <2> QED
      BY <2>9, Zenon DEF Stage
  <1> QED
    BY <1>1, <1>3, <1>4, ClientReads, Zenon

(* The server's read loop, up to the Hello. *)
LEMMA ServerCalm ==
  ASSUME Types, Stage, InOrder, Calm',
         HandleAuth \/ AuthHandlerReturns \/ AcceptAuth \/ LoopRejects \/ HandleHello
  PROVE  Stage'
  <1> USE DEF Types
  <1>1. UNCHANGED <<app, caps, required, state["client"], rl["client"], remoteCaps["client"]>>
    BY Stored, Zenon
       DEF HandleAuth, AuthHandlerReturns, AcceptAuth, LoopRejects, HandleHello, HandlingFailed,
       RunReturns, acceptRemoteHello, client, config, Ends, SessionTypes, ConfigTypes
  <1>2. UNCHANGED <<ToAuth, ToAccept, ToHello, ToAck, Asking, Greeting>>
    BY <1>1, Zenon DEF ToAuth, ToAccept, ToHello, ToAck, Asking, Greeting
  <1>3. writes["server"]
    BY Zenon DEF InOrder, Ends
  <1>4. CASE HandleAuth
    <2>1. Readable("server") /\ Incoming("server").type = "auth"
      BY <1>4, Zenon DEF HandleAuth
    <2>2. Authenticating /\ Under(ToAuth, <<>>)
      <3>1. Under(ToHello, <<>>) => Incoming("server").type = "hello"
        BY HandshakeFrames, Zenon DEF Incoming, Under, Peer
      <3>2. Running => Incoming("server").type = "request"
        BY <2>1, RunningSends, Zenon
      <3> QED
        BY <2>1, <3>1, <3>2, ServerReads, Zenon
    <2>3. out'["client"] = <<>> /\ out'["server"] = <<>>
      <3>1. out'["server"] = out["server"] \o <<>> /\ out'["client"] = Tail(out["client"])
        BY <1>4, Taken, Peers, Zenon DEF HandleAuth, Ends
      <3> QED
        BY <2>2, <3>1, HandshakeChannels DEF Under
    <2>4. Server("auth", "AuthPending")'
      BY <1>4, Stored, Zenon DEF HandleAuth, Server, Ends, SessionTypes
    <2>5. Authenticating'
      BY <1>1, <1>2, <2>2, <2>3, <2>4, Zenon DEF Authenticating, Under
    <2> QED
      BY <2>5, Zenon DEF Stage
  <1>5. CASE AuthHandlerReturns
    <2>1. rl["server"] = "auth"
      BY <1>5, Zenon DEF AuthHandlerReturns
    <2>2. Authenticating /\ Server("auth", "AuthPending") /\ Under(<<>>, <<>>)
      BY <2>1, Zenon
         DEF Stage, Fresh, Authenticating, Authenticated, Helloing, Establishing, Running,
         Server, Accepting, Awaiting, Agreed
    <2>3. /\ out' = [out EXCEPT !["server"] = Append(@, Frame("accept"))]
          /\ rl' = [rl EXCEPT !["server"] = "accepted"] /\ state' = state
      BY <1>3, <1>5, Zenon DEF AuthHandlerReturns, Calm
    <2>4. out'["server"] = ToAccept /\ out'["client"] = <<>>
      <3>1. out'["server"] = Append(out["server"], Frame("accept")) /\ out'["client"] = out["client"]
        BY <2>3, Sends, Peers, Zenon DEF Ends
      <3> QED
        BY <2>2, <3>1, OneFrame, Zenon DEF Under, ToAccept
    <2>5. Accepting'
      BY <2>2, <2>3, Zenon DEF Accepting, Server, Ends, SessionTypes
    <2>6. Authenticating'
      BY <1>1, <1>2, <2>2, <2>4, <2>5, Zenon DEF Authenticating, Under
    <2> QED
      BY <2>6, Zenon DEF Stage
  <1>6. CASE AcceptAuth
    <2>1. rl["server"] = "accepted" /\ out' = out
      BY <1>6, Zenon DEF AcceptAuth
    <2>2. \/ Authenticating /\ Under(<<>>, ToAccept)
          \/ Authenticated
          \/ Helloing /\ Under(ToHello, <<>>)
      BY <2>1, Zenon
         DEF Stage, Fresh, Authenticating, Authenticated, Helloing, Establishing, Running,
         Server, Accepting, Awaiting, Agreed
    <2>3. Accepting'
      BY <1>6, Stored, Zenon DEF AcceptAuth, Accepting, Server, Ends, SessionTypes
    <2>4. Authenticating' \/ Authenticated' \/ Helloing'
      BY <1>1, <1>2, <2>1, <2>2, <2>3, Zenon DEF Authenticating, Authenticated, Helloing, Under
    <2> QED
      BY <2>4, Zenon DEF Stage
  <1>7. CASE LoopRejects
    <2>1. rl["server"] \in {"send", "restore", "close"}
      BY <1>7, Zenon DEF LoopRejects
    <2> QED
      BY <2>1, Zenon
         DEF Stage, Fresh, Authenticating, Authenticated, Helloing, Establishing, Running,
         Server, Accepting, Awaiting, Agreed
  <1>8. CASE HandleHello
    <2>1. Readable("server") /\ Incoming("server").type = "hello"
      BY <1>8, Zenon DEF HandleHello
    <2>2. Helloing /\ Awaiting /\ Under(ToHello, <<>>)
      <3>1. Under(ToAuth, <<>>) => Incoming("server").type = "auth"
        BY HandshakeFrames, Zenon DEF Incoming, Under, Peer
      <3>2. Running => Incoming("server").type = "request"
        BY <2>1, RunningSends, Zenon
      <3> QED
        BY <2>1, <3>1, <3>2, ServerReads, Zenon
    <2>3. Incoming("server").caps = caps["client"]
      BY <2>2, HandshakeFrames, Zenon DEF Incoming, Under, Peer
    <2>4. /\ Take("server", ToAck) /\ rl' = [rl EXCEPT !["server"] = "establish"] /\ state' = state
          /\ acceptRemoteHello("server", caps["client"])
      BY <1>3, <1>8, <2>3, Zenon DEF HandleHello, ToAck
    <2>5. out'["server"] = ToAck /\ out'["client"] = <<>>
      <3>1. out'["server"] = out["server"] \o ToAck /\ out'["client"] = Tail(out["client"])
        BY <2>4, Taken, Peers, Zenon DEF Ends
      <3> QED
        BY <2>2, <3>1, HandshakeChannels, OneFrame, Zenon DEF Under, ToAck
    <2>6. remoteCaps'["server"] = caps["client"] \cap caps["server"]
      BY <2>4, Zenon DEF acceptRemoteHello, ConfigTypes, Ends
    <2>7. Agreed'
      BY <1>1, <2>2, <2>4, <2>6, Zenon DEF Agreed, Awaiting, Server, Ends, SessionTypes
    <2>8. Helloing'
      BY <1>1, <1>2, <2>2, <2>5, <2>7, Zenon DEF Helloing, Under
    <2> QED
      BY <2>8, Zenon DEF Stage
  <1> QED
    BY <1>4, <1>5, <1>6, <1>7, <1>8, Zenon
(* established(), on either end. *)
LEMMA EstablishedCalm ==
  ASSUME Types, Stage, Calm', NEW e \in Ends, Established(e)
  PROVE  Stage'
  <1> USE DEF Types
  <1>1. /\ rl[e] = "establish" /\ SetState(e, "Established") /\ rl' = [rl EXCEPT ![e] = "read"]
        /\ UNCHANGED <<out, app, Settled>>
    BY Zenon DEF Established, Calm, client, config, Settled
  <1>2. UNCHANGED <<ToAuth, ToAccept, ToHello, ToAck, Negotiated>>
    BY <1>1, Zenon DEF Settled, ToAuth, ToAccept, ToHello, ToAck, Negotiated
  <1>3. CASE e = "client"
    <2>1. Establishing
      BY <1>1, <1>3, Zenon DEF Stage, Fresh, Authenticating, Authenticated, Helloing, Running
    <2>2. rl'["client"] = "read" /\ state'["client"] = "Established"
          /\ UNCHANGED <<rl["server"], state["server"]>>
      BY <1>1, <1>3, Stored, Zenon DEF Ends, SessionTypes
    <2>3. Agreed'
      BY <1>1, <2>1, <2>2, Zenon DEF Establishing, Agreed, Server, Settled
    <2>4. out["client"] \in Seq(Negotiated)
      BY <2>1 DEF Establishing, Under
    <2>5. Running'
      BY <1>1, <1>2, <2>1, <2>2, <2>3, <2>4, Zenon DEF Establishing, Running, Under, Settled
    <2> QED
      BY <2>5, Zenon DEF Stage
  <1>4. CASE e = "server"
    <2>1. (Helloing /\ Agreed /\ Under(<<>>, ToAck)) \/ Establishing \/ Running
      BY <1>1, <1>4, Zenon
         DEF Stage, Fresh, Authenticating, Authenticated, Helloing, Server, Accepting, Awaiting
    <2>2. rl'["server"] = "read" /\ state'["server"] = "Established"
          /\ UNCHANGED <<rl["client"], state["client"]>>
      BY <1>1, <1>4, Stored, Zenon DEF Ends, SessionTypes
    <2>3. Agreed'
      BY <1>1, <2>1, <2>2, Zenon DEF Establishing, Running, Agreed, Server, Settled
    <2>4. Helloing' \/ Establishing' \/ Running'
      BY <1>1, <1>2, <2>1, <2>2, <2>3, Zenon
         DEF Helloing, Greeting, Establishing, Running, Under, Settled
    <2> QED
      BY <2>4, Zenon DEF Stage
  <1> QED
    BY <1>3, <1>4, Zenon DEF Ends

(* A request that is served. *)
LEMMA MessageCalm ==
  ASSUME Types, Stage, NEW e \in Ends, HandleMessage(e)
  PROVE  Stage'
  <1> USE DEF Types
  <1>1. /\ Readable(e) /\ Take(e, <<>>) /\ Incoming(e).type \in {"request", "error"}
        /\ UNCHANGED <<AtClient, state["server"], rl["server"], Settled>>
    BY Zenon DEF HandleMessage, client, config, Settled, AtClient
  <1>2. e = "server" /\ Running
    <2>1. CASE e = "client"
      <3>1. Under(<<>>, ToAccept) => Incoming(e).type = "accept"
        BY <2>1, HandshakeFrames, Zenon DEF Incoming, Under, Peer
      <3>2. Under(<<>>, ToAck) => Incoming(e).type = "helloAck"
        BY <2>1, HandshakeFrames, Zenon DEF Incoming, Under, Peer
      <3> QED
        BY <1>1, <2>1, <3>1, <3>2, ClientReads, Zenon
    <2>2. CASE e = "server"
      <3>1. Under(ToAuth, <<>>) => Incoming(e).type = "auth"
        BY <2>2, HandshakeFrames, Zenon DEF Incoming, Under, Peer
      <3>2. Under(ToHello, <<>>) => Incoming(e).type = "hello"
        BY <2>2, HandshakeFrames, Zenon DEF Incoming, Under, Peer
      <3> QED
        BY <1>1, <2>2, <3>1, <3>2, ServerReads, Zenon
    <2> QED
      BY <2>1, <2>2, Zenon DEF Ends
  <1>3. out'["client"] = Tail(out["client"]) /\ out'["server"] = <<>>
    <2>1. out'["server"] = out["server"] \o <<>> /\ out'["client"] = Tail(out["client"])
      BY <1>1, <1>2, Taken, Peers, Zenon DEF Ends
    <2> QED
      BY <1>2, <2>1, OneFrame, Zenon DEF Running
  <1>4. out'["client"] \in Seq(Negotiated)
    BY <1>1, <1>2, <1>3 DEF Running, Readable, Peer
  <1>5. UNCHANGED <<Negotiated, Agreed>>
    BY <1>1, Zenon DEF Settled, Negotiated, Agreed, Server
  <1>6. Running'
    BY <1>1, <1>2, <1>3, <1>4, <1>5, Zenon DEF Running, AtClient, Settled
  <1> QED
    BY <1>6, Zenon DEF Stage

(* A calm step keeps a calm handshake in order. *)
LEMMA CalmStep == ASSUME Types, CalmInv, Next PROVE CalmInv'
  <1> SUFFICES ASSUME Calm' PROVE Stage' /\ InOrder'
    BY ZenonT(30) DEF CalmInv
  <1>1. seen \subseteq seen'
    BY Zenon DEF Next, ReadLoop, AuthTimer, Heartbeat, Authenticate, SendHello, StoreState, SendRequest,
       AuthTimerFires, AuthTimerRejects, RefuseFrame, Established, HandleMessage, ReadFails, HandleAuth,
       AuthHandlerReturns, AcceptAuth, LoopRejects, HandleHello, HandleAuthAccept, HandleAuthReject,
       HandleHelloAck, HeartbeatTicks, HeartbeatFails, WriterFails, ContextEnds
  <1>2. Calm
    BY <1>1, Zenon DEF Calm
  <1>3. Stage /\ InOrder
    BY <1>2, Zenon DEF CalmInv
  <1>4. \A e \in Ends : open[e] /\ writes[e] /\ hb[e] # "fail"
    BY <1>3, Zenon DEF InOrder
  <1>5. ASSUME UNCHANGED <<open, writes, timers>> PROVE InOrder'
    BY <1>3, <1>5, Zenon DEF InOrder, timers
  <1>6. CASE Authenticate \/ SendHello \/ StoreState \/ SendRequest
    <2>1. UNCHANGED <<open, writes, timers>>
      BY <1>6, Zenon DEF Authenticate, SendHello, StoreState, SendRequest
    <2> QED
      BY <1>3, <1>5, <1>6, <2>1, ApplicationCalm, Zenon
  <1>7. CASE AuthTimer
    <2>1. AuthTimerFires
      BY <1>3, <1>7, Zenon DEF AuthTimer, AuthTimerRejects, InOrder
    <2>2. tm' = "off"
      BY <2>1, Zenon DEF AuthTimerFires, Calm
    <2>3. UNCHANGED <<AtClient, state["server"], rl["server"], Settled, out, open, writes, hb>>
      BY <2>1, Zenon DEF AuthTimerFires, client, config, Settled, AtClient
    <2>4. Stage'
      BY <1>3, <2>3, SameStage, Zenon
    <2> QED
      BY <1>3, <2>2, <2>3, <2>4, Zenon DEF InOrder
  <1>8. ASSUME NEW e \in Ends, RefuseFrame(e) PROVE FALSE
    <2>1. Readable(e)
      BY <1>8, Zenon DEF RefuseFrame
    <2>2. Admitted(e, Incoming(e)) \/ Overtaken(e, Incoming(e))
      BY <1>3, <2>1, Expected, Zenon
    <2>3. seen' = seen \cup (IF Admitted(e, Incoming(e)) THEN {"disturbed"}
                             ELSE IF Overtaken(e, Incoming(e)) THEN {"early"} ELSE {})
      BY <1>8, Zenon DEF RefuseFrame
    <2> QED
      BY <2>2, <2>3, Zenon DEF Calm
  <1>9. ASSUME NEW e \in Ends, Established(e) PROVE Stage' /\ InOrder'
    <2>1. UNCHANGED <<open, writes, timers>>
      BY <1>9, Zenon DEF Established, Calm
    <2> QED
      BY <1>3, <1>5, <1>9, <2>1, EstablishedCalm, Zenon
  <1>10. ASSUME NEW e \in Ends, HandleMessage(e) PROVE Stage' /\ InOrder'
    <2>1. UNCHANGED <<open, writes, timers>>
      BY <1>10, Zenon DEF HandleMessage
    <2> QED
      BY <1>3, <1>5, <1>10, <2>1, MessageCalm, Zenon
  <1>11. ASSUME NEW e \in Ends, ReadFails(e) PROVE FALSE
    BY <1>4, <1>11, Peers, Zenon DEF ReadFails
  <1>12. CASE HandleAuth \/ AuthHandlerReturns \/ AcceptAuth \/ LoopRejects \/ HandleHello
    <2>1. Stage'
      BY <1>3, <1>12, ServerCalm, Zenon
    <2>2. rl["server"] \notin {"send", "restore", "close"}
      BY <1>3, Zenon
         DEF Stage, Fresh, Authenticating, Authenticated, Helloing, Establishing, Running,
         Server, Accepting, Awaiting, Agreed
    <2>3. writes["server"]
      BY <1>4, Zenon DEF Ends
    <2>4. UNCHANGED <<open, writes, timers>>
      BY <1>12, <2>2, <2>3, Zenon
         DEF HandleAuth, AuthHandlerReturns, AcceptAuth, LoopRejects, HandleHello
    <2> QED
      BY <1>5, <2>1, <2>4, Zenon
  <1>13. CASE HandleAuthAccept \/ HandleHelloAck
    <2>1. UNCHANGED <<open, writes, timers>>
      BY <1>13, Zenon DEF HandleAuthAccept, HandleHelloAck
    <2> QED
      BY <1>3, <1>5, <1>13, <2>1, ClientCalm, Zenon
  <1>14. CASE HandleAuthReject
    <2>1. Readable("client") /\ Incoming("client").type = "reject"
      BY <1>14, Zenon DEF HandleAuthReject
    <2>2. Under(<<>>, ToAccept) => Incoming("client").type = "accept"
      BY HandshakeFrames, Zenon DEF Incoming, Under, Peer
    <2>3. Under(<<>>, ToAck) => Incoming("client").type = "helloAck"
      BY HandshakeFrames, Zenon DEF Incoming, Under, Peer
    <2> QED
      BY <1>3, <2>1, <2>2, <2>3, ClientReads, Zenon
  <1>15. ASSUME NEW e \in Ends, Heartbeat(e) \/ WriterFails(e) \/ ContextEnds(e) PROVE FALSE
    BY <1>4, <1>15, Zenon
       DEF Heartbeat, HeartbeatTicks, HeartbeatFails, WriterFails, ContextEnds, Calm
  <1> QED
    BY <1>6, <1>7, <1>8, <1>9, <1>10, <1>11, <1>12, <1>13, <1>14, <1>15, Zenon
       DEF Next, ReadLoop

-----------------------------------------------------------------------------
(* The theorems. *)

(* Every step keeps the invariant. *)
LEMMA NextInv == ASSUME Bounds PROVE IInv /\ [Next]_vars => IInv'
  <1> SUFFICES ASSUME IInv, [Next]_vars PROVE IInv'
    BY Zenon
  <1>1. CASE Next
    BY <1>1, LinkStep, ConfigStep, SessionStep, CountStep, ServedStep, CalmStep, Zenon
       DEF IInv, Types
  <1>2. CASE UNCHANGED vars
    <2>1. UNCHANGED <<required, caps, state, remoteCaps, out, open, writes, rl, tm, hb, app, auths, requests,
                      connect, disconnects, faults, seen>>
      BY <1>2, Zenon DEF vars, config, client, timers
    <2>2. Types'
      BY <2>1, Zenon DEF IInv, Types, LinkTypes, ConfigTypes, SessionTypes, CountTypes
    <2>3. AuthInv' /\ ConnectInv'
      BY <2>1, SameServer, Zenon DEF IInv, AtServer
    <2>4. CalmInv'
      BY <2>1, SameStage, Zenon DEF IInv, CalmInv, Calm, InOrder, AtClient, Settled
    <2> QED
      BY <2>2, <2>3, <2>4, Zenon DEF IInv
  <1> QED
    BY <1>1, <1>2, Zenon

(* The invariant holds throughout, for any capabilities and any number of    *)
(* calls, requests and faults.                                               *)
THEOREM Invariance == ASSUME Bounds PROVE Spec => []IInv
  <1>1. Init => IInv
    BY InitInv, Zenon
  <1>2. IInv /\ [Next]_vars => IInv'
    BY NextInv, Zenon
  <1> QED
    BY <1>1, <1>2, PTL DEF Spec

(* Both sessions, their goroutines and the frames between them keep their    *)
(* types.                                                                    *)
THEOREM HandshakeTypes == ASSUME Bounds PROVE Spec => []TypeOK
  <1>1. IInv => TypeOK
    <2> SUFFICES ASSUME IInv PROVE TypeOK
      BY Zenon
    <2> DEFINE All == [type : {"auth", "accept", "reject", "error"}]
                      \cup [type : {"hello", "helloAck"}, caps : SUBSET Capabilities]
                      \cup [type : {"request"}, needs : Capabilities]
    <2>1. FromClient \cup FromServer \subseteq All
      BY Zenon DEF FromClient, FromServer
    <2> HIDE DEF All
    <2>2. out \in [Ends -> Seq(All)]
      BY <2>1 DEF IInv, Types, LinkTypes
    <2> QED
      BY <2>2, Zenon DEF All, TypeOK, IInv, Types, ConfigTypes, SessionTypes, CountTypes
  <1> QED
    BY <1>1, Invariance, PTL

(* A server that requires authentication serves nobody, and tells its        *)
(* application of nobody, before its auth handler has accepted the client,   *)
(* however the auth timer, the heartbeat, a failing writer and the read loop *)
(* overwrite each other's states (HandleFrame, EnsureAuthenticatedFor).      *)
THEOREM ServedAreAuthenticated == ASSUME Bounds PROVE Spec => []OnlyAuthenticatedServed
  <1>1. IInv => OnlyAuthenticatedServed
    BY Zenon DEF IInv, AuthInv, OnlyAuthenticatedServed
  <1> QED
    BY <1>1, Invariance, PTL

(* For every session whose connect handler succeeded the disconnect handler  *)
(* runs once, when Run has returned, and for no other                        *)
(* (ServeTransportWithRemote, established).                                  *)
THEOREM HandlersArePaired == ASSUME Bounds PROVE Spec => []DisconnectMatchesConnect
  <1>1. IInv => DisconnectMatchesConnect
    BY Zenon DEF IInv, ConnectInv
  <1> QED
    BY <1>1, Invariance, PTL

(* An undisturbed handshake fails only when the client's read loop overtakes *)
(* the store of Authenticate or SendHello: whatever features the two ends    *)
(* support, each refuses nothing that the other takes to be negotiated.      *)
THEOREM OnlyOvertakingFails == ASSUME Bounds PROVE Spec => []FailsOnlyWhenOvertaken
  <1>1. IInv => FailsOnlyWhenOvertaken
    <2> SUFFICES ASSUME IInv, seen \cap {"disturbed", "early"} = {}, NEW e \in Ends
                 PROVE  state[e] \notin {"AuthRejected", "Failed"} /\ rl[e] # "ended"
      BY Zenon DEF FailsOnlyWhenOvertaken
    <2>1. Stage
      BY Zenon DEF IInv, CalmInv, Calm
    <2>2. CASE e = "client"
      BY <2>1, <2>2, Zenon
         DEF Stage, Fresh, Authenticating, Asking, Authenticated, Helloing, Greeting,
         Establishing, Running
    <2>3. CASE e = "server"
      BY <2>1, <2>3, Zenon
         DEF Stage, Fresh, Authenticating, Authenticated, Helloing, Establishing, Running,
         Server, Accepting, Awaiting, Agreed
    <2> QED
      BY <2>2, <2>3, Zenon DEF Ends
  <1> QED
    BY <1>1, Invariance, PTL
=============================================================================
