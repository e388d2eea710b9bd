------------------------------- MODULE Bodies --------------------------------
(***************************************************************************)
(* The body of an incoming transfer on its way to the application          *)
(* (src/body.go, and the end of handleIncomingTransferEnd in               *)
(* src/internal/etp/incoming.go).  The App keeps one pool of               *)
(* spooledBodyWriters for all its peers.  A transfer takes one, writes its *)
(* chunks to it, which move to a temporary file once they are too many,    *)
(* and closes it, which runs the application's handler on the body and     *)
(* then gives the writer back.  A transfer that fails aborts its writer;   *)
(* so does one whose commit timed out or whose session was cancelled, as   *)
(* soon as the handler returns.                                            *)
(*                                                                         *)
(* A body is the sequence of its chunks, <<t, i>> being chunk i of t.  The *)
(* calls of one writer are single steps, except Close, during which the    *)
(* handler runs.                                                           *)
(***************************************************************************)
EXTENDS Integers, Sequences, FiniteSets, Functions

CONSTANTS
    Transfers,
    Writers,        \* the writers that exist; an unused one is as a new one
    ChunkCount,     \* chunks in each body
    MaxMemory,      \* config.MaxMemoryBody, in chunks
    MaxFaults       \* file operations that fail

None == "none"
NoFile == 0
Files == 1..Cardinality(Transfers)

VARIABLES
    pool,           \* App.bodyWriters
    released,       \* the fields of each writer
    context,        \* ctx: the transfer it was acquired for
    memory,
    file,           \* the open file, if any
    path,
    disk,           \* disk[f]: what the temporary file f holds; its domain, those there are
    pc,             \* where each transfer is
    writer,         \* tr.writer
    next,           \* tr.nextChunk
    result,         \* the terminal state sent to the peer
    seen,           \* the contexts and bodies its Close gave to a handler
    timedOut,       \* transfers whose commit was given up while Close ran
    faults

wvars == <<released, context, memory, file, path, disk>>
vars == <<pool, wvars, pc, writer, next, result, seen, timedOut, faults>>

Init ==
    /\ pool = Writers
    /\ released = [w \in Writers |-> FALSE] /\ context = [w \in Writers |-> None]
    /\ memory = [w \in Writers |-> <<>>]
    /\ file = [w \in Writers |-> NoFile] /\ path = [w \in Writers |-> NoFile]
    /\ disk = <<>>
    /\ pc = [t \in Transfers |-> "new"] /\ writer = [t \in Transfers |-> None]
    /\ next = [t \in Transfers |-> 1] /\ result = [t \in Transfers |-> None]
    /\ seen = [t \in Transfers |-> {}]
    /\ timedOut = {} /\ faults = 0

Whole(t) == [i \in 1..ChunkCount |-> <<t, i>>]

acquireBodyWriter(t) ==
    \E w \in pool :
        /\ pc[t] = "new"
        /\ pool' = pool \ {w}
        /\ released' = [released EXCEPT ![w] = FALSE]
        /\ context' = [context EXCEPT ![w] = t]
        /\ writer' = [writer EXCEPT ![t] = w] /\ pc' = [pc EXCEPT ![t] = "open"]
        /\ UNCHANGED <<memory, file, path, disk, next, result, seen, timedOut, faults>>

\* A failed write stops the transfer, whose worker then aborts the writer
Stopped(t) ==
    /\ pc' = [pc EXCEPT ![t] = "failed"]
    /\ result' = [result EXCEPT ![t] = "failed"]
    /\ UNCHANGED next

Accepted(t) ==
    /\ next' = [next EXCEPT ![t] = @ + 1]
    /\ UNCHANGED <<pc, result>>

InMemory(w) == file[w] = NoFile /\ Len(memory[w]) + 1 <= MaxMemory

\* os.CreateTemp: a new file, with a name that none has, and what is written to it
FreeName == CHOOSE f \in Files : f \notin DOMAIN disk

CreateTemp(w, body) ==
    /\ file' = [file EXCEPT ![w] = FreeName] /\ path' = [path EXCEPT ![w] = FreeName]
    /\ disk' = [f \in DOMAIN disk \cup {FreeName} |-> IF f = FreeName THEN body ELSE disk[f]]

Write(t) ==
    LET w == writer[t]
        chunk == <<t, next[t]>>
    IN  /\ pc[t] = "open" /\ next[t] <= ChunkCount
        /\ \/ /\ released[w]
              /\ Stopped(t) /\ UNCHANGED <<memory, file, path, disk>>
           \/ /\ ~released[w] /\ InMemory(w)
              /\ memory' = [memory EXCEPT ![w] = Append(@, chunk)]
              /\ Accepted(t) /\ UNCHANGED <<file, path, disk>>
           \/ /\ ~released[w] /\ ~InMemory(w) /\ file[w] = NoFile
              /\ CreateTemp(w, Append(memory[w], chunk))
              /\ memory' = [memory EXCEPT ![w] = <<>>]
              /\ Accepted(t)
           \/ /\ ~released[w] /\ file[w] # NoFile
              /\ disk' = [disk EXCEPT ![file[w]] = Append(@, chunk)]
              /\ Accepted(t) /\ UNCHANGED <<memory, file, path>>
        /\ UNCHANGED <<pool, released, context, writer, seen, timedOut, faults>>

\* CreateTemp fails, or the first write to the new file does (the writer then has
\* the file and what was buffered), or a later write to it
WriteFails(t) ==
    LET w == writer[t]
    IN  /\ faults < MaxFaults /\ faults' = faults + 1
        /\ pc[t] = "open" /\ next[t] <= ChunkCount
        /\ ~released[w] /\ ~InMemory(w)
        /\ \/ UNCHANGED <<file, path, disk>>
           \/ file[w] = NoFile /\ CreateTemp(w, <<>>)
        /\ Stopped(t)
        /\ UNCHANGED <<pool, released, context, memory, writer, seen, timedOut>>

\* The transfer fails for a reason of its own: a cancel, a bad checksum
TransferFails(t) ==
    /\ pc[t] = "open" /\ Stopped(t)
    /\ UNCHANGED <<pool, wvars, writer, seen, timedOut, faults>>

\* Faulty: the temporary file is left behind
releaseKeepingFile(w) ==
    /\ released' = [released EXCEPT ![w] = TRUE]
    /\ file' = [file EXCEPT ![w] = NoFile] /\ path' = [path EXCEPT ![w] = NoFile]
    /\ memory' = [memory EXCEPT ![w] = <<>>] /\ context' = [context EXCEPT ![w] = None]
    /\ pool' = pool \cup {w}
    /\ UNCHANGED disk

\* Faulty: the buffer is not reset
releaseKeepingMemory(w) ==
    /\ released' = [released EXCEPT ![w] = TRUE]
    /\ disk' = Restrict(disk, DOMAIN disk \ {path[w]})
    /\ file' = [file EXCEPT ![w] = NoFile] /\ path' = [path EXCEPT ![w] = NoFile]
    /\ context' = [context EXCEPT ![w] = None]
    /\ pool' = pool \cup {w}
    /\ UNCHANGED memory

release(w) ==
    /\ released' = [released EXCEPT ![w] = TRUE]
    /\ disk' = Restrict(disk, DOMAIN disk \ {path[w]})
    /\ file' = [file EXCEPT ![w] = NoFile] /\ path' = [path EXCEPT ![w] = NoFile]
    /\ memory' = [memory EXCEPT ![w] = <<>>] /\ context' = [context EXCEPT ![w] = None]
    /\ pool' = pool \cup {w}

Finish(t, outcome) ==
    /\ pc' = [pc EXCEPT ![t] = "done"]
    /\ result' = [result EXCEPT ![t] = outcome]

Abort(t) ==
    LET w == writer[t]
    IN  /\ pc[t] \in {"failed", "abort"} /\ pc' = [pc EXCEPT ![t] = "done"]
        /\ \/ released[w] /\ UNCHANGED <<pool, wvars>>
           \/ ~released[w] /\ release(w)
        /\ UNCHANGED <<writer, next, result, seen, timedOut, faults>>

\* What the handler reads: the file by its path, or the writer's own memory
BodyOf(w) ==
    IF path[w] = NoFile THEN memory[w] ELSE disk[path[w]]

\* All chunks are written: Close, up to the call of the handler
Close(t) ==
    LET w == writer[t]
    IN  /\ pc[t] = "open" /\ next[t] > ChunkCount
        /\ \/ /\ released[w]
              /\ Finish(t, "failed") /\ UNCHANGED <<file, seen>>
           \/ /\ ~released[w]
              /\ file' = [file EXCEPT ![w] = NoFile]
              /\ seen' = [seen EXCEPT ![t] = {[transfer |-> context[w], body |-> BodyOf(w)]}]
              /\ pc' = [pc EXCEPT ![t] = "handler"] /\ UNCHANGED result
        /\ UNCHANGED <<pool, released, context, memory, path, disk, writer, next,
                       timedOut, faults>>

\* The file does not close: the handler is not called
CloseFails(t) ==
    LET w == writer[t]
    IN  /\ faults < MaxFaults /\ faults' = faults + 1
        /\ pc[t] = "open" /\ next[t] > ChunkCount /\ ~released[w] /\ file[w] # NoFile
        /\ release(w) /\ Finish(t, "failed")
        /\ UNCHANGED <<writer, next, seen, timedOut>>

\* The handler returns, with an error or without, and Close releases the writer.
\* Should somebody have released it meanwhile, that fails on the cleared w.app, and
\* callSafely makes an error of it
HandlerReturns(t) ==
    LET w == writer[t]
    IN  /\ \/ /\ pc[t] = "handler"
              /\ \E outcome \in {"completed", "failed"} :
                    (released[w] => outcome = "failed") /\ Finish(t, outcome)
           \/ /\ pc[t] = "late"
              /\ pc' = [pc EXCEPT ![t] = "abort"] /\ UNCHANGED result
        /\ \/ released[w] /\ UNCHANGED <<pool, wvars>>
           \/ ~released[w] /\ release(w)
        /\ UNCHANGED <<writer, next, seen, timedOut, faults>>

\* TransferCommitTimeout expires, or the session is cancelled
CommitTimesOut(t) ==
    /\ pc[t] = "handler" /\ pc' = [pc EXCEPT ![t] = "late"]
    /\ result' = [result EXCEPT ![t] = "failed"] /\ timedOut' = timedOut \cup {t}
    /\ UNCHANGED <<pool, wvars, writer, next, seen, faults>>

Finished == (\A t \in Transfers : pc[t] = "done") /\ UNCHANGED vars

Next ==
    \/ \E t \in Transfers :
        \/ acquireBodyWriter(t) \/ Write(t) \/ WriteFails(t) \/ TransferFails(t)
        \/ Abort(t) \/ Close(t) \/ CloseFails(t) \/ HandlerReturns(t) \/ CommitTimesOut(t)
    \/ Finished

Spec == Init /\ [][Next]_vars

-----------------------------------------------------------------------------
\* What the fields of a writer and the record of a transfer may hold
TypeOK ==
    /\ pool \subseteq Writers /\ timedOut \subseteq Transfers /\ faults \in 0..MaxFaults
    /\ released \in [Writers -> BOOLEAN]
    /\ context \in [Writers -> Transfers \cup {None}]
    /\ file \in [Writers -> Files \cup {NoFile}] /\ path \in [Writers -> Files \cup {NoFile}]
    /\ writer \in [Transfers -> Writers \cup {None}]
    /\ next \in [Transfers -> 1..ChunkCount + 1]
    /\ result \in [Transfers -> {None, "completed", "failed"}]

(***************************************************************************)
(* BodiesSeparate: as long as no commit has been given up, a handler is    *)
(* run with the transfer that closed the writer and with all of its body   *)
(* and nothing else, and what it reads does not change until it returns,   *)
(* whatever happened to the writer before it came back to the pool         *)
(* (acquireBodyWriter, release).                                           *)
(***************************************************************************)
BodiesSeparate ==
    timedOut = {} =>
        \A t \in Transfers :
            /\ seen[t] \subseteq {[transfer |-> t, body |-> Whole(t)]}
            /\ pc[t] = "handler" => BodyOf(writer[t]) = Whole(t)

(***************************************************************************)
(* NoFileLeft: as long as no commit has been given up, a temporary file is *)
(* on disk only while a transfer or a handler still uses the writer that   *)
(* made it; none outlives its body, also when a write, the spilling of     *)
(* what was buffered or a close fails (Abort, release).                    *)
(***************************************************************************)
NoFileLeft ==
    timedOut = {} => \A f \in DOMAIN disk :
        \E t \in Transfers : /\ pc[t] \in {"open", "failed", "handler", "late"}
                             /\ path[writer[t]] = f

(***************************************************************************)
(* CompletedMeansDelivered: a transfer reported Completed had its own body *)
(* handed to the application.  It need not hold once a commit was given    *)
(* up: the late Abort may release a writer that another transfer has taken *)
(* from the pool since.                                                    *)
(***************************************************************************)
CompletedMeansDelivered ==
    \A t \in Transfers :
        result[t] = "completed" => seen[t] = {[transfer |-> t, body |-> Whole(t)]}

=============================================================================
