------------------------------ MODULE MCClose ------------------------------
(* The calls that the runs of CloseHandshake explore. *)
EXTENDS CloseHandshake, TLC

CONSTANTS a, b

MCPeers == {a, b}

MixedCalls == (a :> {"immediate"}) @@ (b :> {"drain", "goaway"})

AllTimers == TimerKinds

WaitTimers == {"drain", "ack", "peer"}

NoTimers == {}

OneBusy == {b}

NoneBusy == {}

BothClose == [s \in MCPeers |-> {"immediate"}]

GoAwayThenClose == [s \in MCPeers |-> {"immediate", "goawayDrain"}]
=============================================================================
