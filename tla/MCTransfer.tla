----------------------------- MODULE MCTransfer -----------------------------
(***************************************************************************)
(* Instances of Transfer for TLC: which faults the environment may produce *)
(* in each.                                                                *)
(***************************************************************************)
EXTENDS Transfer

SafetyFaults == {"write", "disconnect"}
LivenessFaults == {"reader", "cancel", "context", "open", "checksum", "commit",
                   "evict"}
WriteFaults == {"write"}
DisconnectFault == {"disconnect"}
NoFaults == {}

\* Bounds the exploration: a transfer of three chunks has at most one sent a second
\* time, or its commit; in one of four chunks nothing is.
LongOnesRetriedLess ==
    chunkCount > 2 =>
        Cardinality({c \in Chunks : ot.retries[c] > 0}) + ot.commitRetries <= 4 - chunkCount
=============================================================================
