------------------------------ MODULE Delivery ------------------------------
(***************************************************************************)
(* What a chunked transfer promises to the two applications, without       *)
(* frames, retries or threads: the receiving application's writer is given *)
(* the body's chunks once each and in order, is committed at most once and *)
(* only when it has them all, and the sender is told of success only after *)
(* that.  Transfer implements this specification.                          *)
(***************************************************************************)
EXTENDS Naturals

VARIABLES
    size,       \* how many chunks the body has
    given,      \* how many of them the writer has taken
    body,       \* what became of the body at the receiver
    report      \* what the sender was told

vars == <<size, given, body, report>>

Init ==
    /\ size \in Nat
    /\ given = 0 /\ body = "open" /\ report = "none"

GiveChunk ==
    /\ body = "open" /\ given < size
    /\ given' = given + 1
    /\ UNCHANGED <<size, body, report>>

CommitBody ==
    /\ body = "open" /\ given = size
    /\ body' = "committed"
    /\ UNCHANGED <<size, given, report>>

DropBody ==
    /\ body = "open"
    /\ body' = "dropped"
    /\ UNCHANGED <<size, given, report>>

ReportSuccess ==
    /\ report = "none" /\ body = "committed"
    /\ report' = "ok"
    /\ UNCHANGED <<size, given, body>>

\* A failure may be reported of a body that was, or will be, committed: the
\* sender cannot tell whether the answer or the commit was lost.
ReportFailure ==
    /\ report = "none"
    /\ report' = "error"
    /\ UNCHANGED <<size, given, body>>

Next == GiveChunk \/ CommitBody \/ DropBody \/ ReportSuccess \/ ReportFailure

Spec == Init /\ [][Next]_vars
=============================================================================
