---------------------------- MODULE BodiesProofs -----------------------------
(***************************************************************************)
(* Proofs about Bodies: while no commit has been given up, a handler gets  *)
(* the whole body of its own transfer, a transfer reported Completed was   *)
(* delivered, and no temporary file outlives its body, for any number of   *)
(* transfers, writers and chunks, any memory limit and any failures of the *)
(* file system.                                                            *)
(***************************************************************************)
EXTENDS Bodies, FiniteSetTheorems, TLAPS

\* What an instance has: finitely many transfers, and bodies of some length.
Sizes == IsFiniteSet(Transfers) /\ ChunkCount \in Nat

\* The first n chunks of a body.
Prefix(t, n) == [i \in 1..n |-> <<t, i>>]

\* A transfer that has a writer.
Using(t) == pc[t] \in {"open", "failed", "handler"}

\* Types of the state; the two last places are those of a commit given up.
Types ==
    /\ pool \subseteq Writers
    /\ released \in [Writers -> BOOLEAN] /\ DOMAIN context = Writers
    /\ DOMAIN memory = Writers
    /\ file \in [Writers -> Files \cup {NoFile}] /\ path \in [Writers -> Files \cup {NoFile}]
    /\ DOMAIN disk \subseteq Files
    /\ pc \in [Transfers -> {"new", "open", "failed", "handler", "done"}]
    /\ DOMAIN writer = Transfers
    /\ next \in [Transfers -> 1..ChunkCount + 1]
    /\ DOMAIN result = Transfers /\ DOMAIN seen = Transfers

\* The writer of a transfer is out of the pool and has that transfer as its
\* context: no two transfers have the same writer.
Owns(t) ==
    Using(t) =>
        /\ writer[t] \in Writers /\ writer[t] \notin pool
        /\ ~released[writer[t]] /\ context[writer[t]] = t

\* The file of a writer in use is on disk, and open until the handler is called.
Spooled(t) ==
    Using(t) =>
        /\ path[writer[t]] # NoFile => path[writer[t]] \in DOMAIN disk
        /\ pc[t] # "handler" => file[writer[t]] = path[writer[t]]

\* What a handler is to be given.
Given(t) == {[transfer |-> t, body |-> Whole(t)]}

\* A body holds the chunks written so far, in order; the handler's is the whole,
\* and so is what it was given.
Held(t) ==
    /\ pc[t] = "new" => next[t] = 1
    /\ pc[t] = "open" => BodyOf(writer[t]) = Prefix(t, next[t] - 1)
    /\ pc[t] = "handler" => BodyOf(writer[t]) = Whole(t) /\ seen[t] = Given(t)
    /\ seen[t] \subseteq Given(t)
    /\ pc[t] # "done" => result[t] # "completed"
    /\ result[t] = "completed" => seen[t] = Given(t)

\* A writer in the pool holds nothing.
PoolClean == \A w \in pool : memory[w] = <<>> /\ file[w] = NoFile /\ path[w] = NoFile

\* No two writers in use have the same file.
Distinct ==
    \A t, u \in Transfers :
        /\ Using(t) /\ Using(u)
        /\ path[writer[t]] = path[writer[u]] /\ path[writer[t]] # NoFile
        => t = u

\* The files on disk are those of the writers in use.
OnDisk == \A f \in DOMAIN disk : \E t \in Transfers : Using(t) /\ path[writer[t]] = f

\* The inductive invariant.
Sound ==
    /\ Types /\ PoolClean /\ Distinct /\ OnDisk
    /\ \A t \in Transfers : Owns(t) /\ Spooled(t) /\ Held(t)

\* It holds as long as no commit was given up.
IInv == timedOut = {} => Sound

-----------------------------------------------------------------------------
\* A chunk appended to the chunks before it.
LEMMA PrefixAppend ==
    ASSUME NEW t, NEW n \in Nat
    PROVE  Append(Prefix(t, n), <<t, n + 1>>) = Prefix(t, n + 1)
  BY SMT DEF Prefix

\* The chunks before the first are none.
LEMMA PrefixEmpty == ASSUME NEW t PROVE Prefix(t, 0) = <<>>
  BY SMT DEF Prefix

\* A writer that starts a file finds a name that no file has: each file on disk is
\* another transfer's.
LEMMA FreeFile ==
    ASSUME Sizes, Distinct, OnDisk, NEW t \in Transfers, Using(t),
           path[writer[t]] = NoFile
    PROVE  \E f \in Files : f \notin DOMAIN disk
<1> SUFFICES ASSUME Files \subseteq DOMAIN disk PROVE FALSE
  BY Zenon
<1> DEFINE Of(f) == CHOOSE u \in Transfers : Using(u) /\ path[writer[u]] = f
           g == [f \in Files |-> Of(f)]
<1>1. ASSUME NEW f \in Files
      PROVE  Of(f) \in Transfers /\ Using(Of(f)) /\ path[writer[Of(f)]] = f
  <2>1. \E u \in Transfers : Using(u) /\ path[writer[u]] = f
    BY Zenon DEF OnDisk
  <2> QED BY <2>1
<1>2. ASSUME NEW f \in Files PROVE f # NoFile
  BY SMT DEF Files, NoFile
<1>3. ASSUME NEW f \in Files PROVE Of(f) \in Transfers \ {t}
  BY <1>1, <1>2, Zenon
<1> HIDE DEF Of
<1>4. g \in [Files -> Transfers \ {t}]
  BY <1>3, Zenon
<1>5. ASSUME NEW a \in Files, NEW b \in Files, g[a] = g[b] PROVE a = b
  BY <1>1, <1>5, Zenon
<1>6. g \in Injection(Files, Transfers \ {t})
  BY <1>4, <1>5, Zenon DEF Injection, IsInjective
<1> HIDE DEF g
<1>7. /\ IsFiniteSet(Transfers \ {t})
      /\ Cardinality(Transfers \ {t}) = Cardinality(Transfers) - 1
      /\ Cardinality(Transfers) \in Nat
  BY FS_RemoveElement, FS_CardinalityType, Zenon DEF Sizes
<1>8. Cardinality(Files) <= Cardinality(Transfers \ {t})
  BY <1>6, <1>7, FS_Injection, Zenon
<1>9. Cardinality(Files) = Cardinality(Transfers)
  <2>1. 1 \in Int /\ Cardinality(Transfers) \in Int
    BY <1>7
  <2>2. Cardinality(Files) =
          IF 1 > Cardinality(Transfers) THEN 0 ELSE Cardinality(Transfers) - 1 + 1
    BY <2>1, FS_Interval, Zenon DEF Files
  <2> QED BY <1>7, <2>2, SMT
<1> QED
  BY <1>7, <1>8, <1>9, SMT

-----------------------------------------------------------------------------
\* A step of t leaves the record, the writer and the file of u as they are.
Leaves(u) ==
    /\ pc'[u] = pc[u] /\ writer'[u] = writer[u] /\ next'[u] = next[u]
    /\ result'[u] = result[u] /\ seen'[u] = seen[u]
    /\ Using(u) =>
          /\ writer[u] \notin pool'
          /\ released'[writer[u]] = released[writer[u]]
          /\ context'[writer[u]] = context[writer[u]]
          /\ memory'[writer[u]] = memory[writer[u]]
          /\ file'[writer[u]] = file[writer[u]]
          /\ path'[writer[u]] = path[writer[u]]
          /\ path[writer[u]] # NoFile =>
                /\ path[writer[u]] \in DOMAIN disk'
                /\ disk'[path[writer[u]]] = disk[path[writer[u]]]

\* What the step may do to the files: t has none, the one it had, or a new one, and
\* what is on disk is the file of t or one that was there and was not t's.
OwnFile(t) ==
    /\ Using(t)' =>
          \/ path'[writer'[t]] = NoFile
          \/ Using(t) /\ path'[writer'[t]] = path[writer[t]]
          \/ path'[writer'[t]] \notin DOMAIN disk
    /\ \A f \in DOMAIN disk' :
          \/ Using(t)' /\ path'[writer'[t]] = f
          \/ f \in DOMAIN disk /\ ~(Using(t) /\ path[writer[t]] = f)

\* No two transfers that have a writer have the same.
LEMMA OwnWriter ==
    ASSUME NEW t \in Transfers, NEW u \in Transfers, Owns(t), Owns(u),
           Using(t), Using(u), t # u
    PROVE  writer[t] # writer[u]
  BY Zenon DEF Owns

\* What a step of t leaves alone stays as the invariant wants it.
LEMMA LeavesStep ==
    ASSUME NEW u \in Transfers, Owns(u), Spooled(u), Held(u), Leaves(u)
    PROVE  Owns(u)' /\ Spooled(u)' /\ Held(u)'
<1>1. Using(u)' <=> Using(u)
  BY Zenon DEF Leaves, Using
<1>2. Owns(u)'
  BY <1>1, Zenon DEF Owns, Leaves
<1>3. Spooled(u)'
  BY <1>1, Zenon DEF Spooled, Leaves
<1>4. ASSUME Using(u) PROVE BodyOf(writer[u])' = BodyOf(writer[u])
  BY <1>4, Zenon DEF BodyOf, Leaves
<1>5. Held(u)'
  BY <1>4, Zenon DEF Held, Leaves, Using, Given, Whole
<1> QED
  BY <1>2, <1>3, <1>5, Zenon

\* The invariant is kept by a step of t that leaves the others alone, and whose own
\* part is as it should be.
LEMMA LocalStep ==
    ASSUME Sound, NEW t \in Transfers, \A u \in Transfers \ {t} : Leaves(u),
           OwnFile(t), Types', PoolClean', Owns(t)', Spooled(t)', Held(t)'
    PROVE  Sound'
<1>1. ASSUME NEW u \in Transfers PROVE Owns(u)' /\ Spooled(u)' /\ Held(u)'
  BY LeavesStep, Zenon DEF Sound
<1>2. ASSUME NEW u \in Transfers \ {t}
      PROVE  /\ Using(u)' <=> Using(u)
             /\ Using(u) => path'[writer'[u]] = path[writer[u]]
  BY DEF Leaves, Using
<1>3. ASSUME NEW u \in Transfers \ {t}, Using(t)', Using(u)',
             path'[writer'[t]] = path'[writer'[u]], path'[writer'[t]] # NoFile
      PROVE  FALSE
  <2>1. Using(u) /\ path[writer[u]] = path'[writer'[t]] /\ path[writer[u]] \in DOMAIN disk
    BY <1>2, <1>3, Zenon DEF Sound, Spooled
  <2>2. Using(t) /\ path'[writer'[t]] = path[writer[t]]
    BY <1>3, <2>1, Zenon DEF OwnFile
  <2> QED
    BY <1>3, <2>1, <2>2, Zenon DEF Sound, Distinct
<1>4. Distinct'
  <2> SUFFICES ASSUME NEW a \in Transfers, NEW b \in Transfers, Using(a)', Using(b)',
                      path'[writer'[a]] = path'[writer'[b]], path'[writer'[a]] # NoFile
               PROVE  a = b
    BY Zenon DEF Distinct
  <2>1. CASE a # t /\ b # t
    BY <2>1, <1>2, Zenon DEF Sound, Distinct
  <2>2. CASE a = t \/ b = t
    BY <2>2, <1>3, Zenon
  <2> QED
    BY <2>1, <2>2, Zenon
<1>5. OnDisk'
  <2> SUFFICES ASSUME NEW f \in DOMAIN disk'
               PROVE  \E u \in Transfers : Using(u)' /\ path'[writer'[u]] = f
    BY Zenon DEF OnDisk
  <2>1. CASE Using(t)' /\ path'[writer'[t]] = f
    BY <2>1, Zenon
  <2>2. CASE f \in DOMAIN disk /\ ~(Using(t) /\ path[writer[t]] = f)
    <3>1. PICK u \in Transfers : Using(u) /\ path[writer[u]] = f
      BY <2>2, Zenon DEF Sound, OnDisk
    <3> QED
      BY <2>2, <3>1, <1>2, Zenon
  <2> QED
    BY <2>1, <2>2, Zenon DEF OwnFile
<1> QED
  BY <1>1, <1>4, <1>5, Zenon DEF Sound

-----------------------------------------------------------------------------
\* acquireBodyWriter gives t a writer that holds nothing and is nobody else's.
LEMMA AcquireStep ==
    ASSUME Sizes, Sound, NEW t \in Transfers, acquireBodyWriter(t)
    PROVE  Sound'
<1>1. PICK w \in pool :
        /\ pc[t] = "new"
        /\ pool' = pool \ {w}
        /\ released' = [released EXCEPT ![w] = FALSE]
        /\ context' = [context EXCEPT ![w] = t]
        /\ writer' = [writer EXCEPT ![t] = w] /\ pc' = [pc EXCEPT ![t] = "open"]
        /\ UNCHANGED <<memory, file, path, disk, next, result, seen, timedOut, faults>>
  BY Zenon DEF acquireBodyWriter
<1>2. /\ w \in Writers /\ memory[w] = <<>> /\ file[w] = NoFile /\ path[w] = NoFile
      /\ ~Using(t) /\ next[t] = 1
  BY <1>1, Zenon DEF Sound, Types, PoolClean, Using, Held
<1>3. /\ pc'[t] = "open" /\ writer'[t] = w /\ released'[w] = FALSE /\ context'[w] = t
      /\ Using(t)'
  BY <1>1, <1>2, Zenon DEF Sound, Types, Using
<1>4. ASSUME NEW u \in Transfers \ {t} PROVE Leaves(u)
  <2>1. Using(u) => writer[u] \in Writers /\ writer[u] # w /\ writer[u] \notin pool
    BY Zenon DEF Sound, Owns
  <2> QED
    BY <1>1, <2>1, Zenon DEF Sound, Types, Leaves, Spooled
<1>5. Types'
  BY <1>1, <1>2, Zenon DEF Sound, Types
<1>6. PoolClean'
  BY <1>1, Zenon DEF Sound, PoolClean
<1>7. Owns(t)' /\ Spooled(t)'
  BY <1>1, <1>2, <1>3 DEF Owns, Spooled
<1>8. OwnFile(t)
  BY <1>1, <1>2, <1>3, Zenon DEF OwnFile
<1>9. Held(t)'
  <2>1. BodyOf(writer[t])' = <<>>
    BY <1>1, <1>2, <1>3, Zenon DEF BodyOf
  <2>2. Prefix(t, next[t] - 1)' = <<>>
    BY <1>1, <1>2, PrefixEmpty DEF Prefix
  <2>3. result[t] # "completed" /\ seen[t] \subseteq Given(t)
    BY <1>1, Zenon DEF Sound, Held
  <2> QED
    BY <1>1, <1>3, <2>1, <2>2, <2>3, Zenon DEF Held, Given, Whole
<1> QED
  BY <1>4, <1>5, <1>6, <1>7, <1>8, <1>9, LocalStep, Zenon

\* A transfer that fails keeps its writer as it is.
LEMMA StoppedStep ==
    ASSUME Sound, NEW t \in Transfers, pc[t] = "open", Stopped(t),
           UNCHANGED <<pool, wvars, writer, seen>>
    PROVE  Sound'
<1>1. pc'[t] = "failed" /\ result'[t] = "failed" /\ Using(t) /\ Using(t)'
  BY Zenon DEF Sound, Types, Using, Stopped
<1>2. ASSUME NEW u \in Transfers \ {t} PROVE Leaves(u)
  BY Zenon DEF Sound, Types, Leaves, Stopped, Owns, Spooled, wvars
<1>3. Types' /\ PoolClean'
  BY Zenon DEF Sound, Types, PoolClean, Stopped, wvars
<1>4. Owns(t)' /\ Spooled(t)'
  BY <1>1, Zenon DEF Sound, Owns, Spooled, wvars
<1>5. OwnFile(t)
  BY <1>1, Zenon DEF OwnFile, wvars
<1>6. Held(t)'
  BY <1>1, Zenon DEF Sound, Held, Given, Whole
<1> QED
  BY <1>2, <1>3, <1>4, <1>5, <1>6, LocalStep, Zenon

\* A transfer that ends gives back its writer, empty, and takes the file from the
\* disk.
LEMMA ReleaseStep ==
    ASSUME Sound, NEW t \in Transfers, Using(t), release(writer[t]),
           pc' = [pc EXCEPT ![t] = "done"], UNCHANGED <<writer, next, seen>>,
           DOMAIN result' = Transfers,
           \A u \in Transfers \ {t} : result'[u] = result[u],
           result'[t] = "completed" => seen[t] = Given(t)
    PROVE  Sound'
<1> DEFINE w == writer[t]
<1>1. w \in Writers /\ w \notin pool /\ pc'[t] = "done" /\ ~Using(t)'
  BY Zenon DEF Sound, Owns, Types, Using
<1>2. DOMAIN disk' = DOMAIN disk \ {path[w]}
  BY Zenon DEF release, Restrict
<1>3. ASSUME NEW f \in DOMAIN disk' PROVE disk'[f] = disk[f]
  BY <1>3, Zenon DEF release, Restrict
<1>4. ASSUME NEW u \in Transfers \ {t} PROVE Leaves(u)
  <2>1. ASSUME Using(u)
        PROVE  /\ writer[u] \in Writers /\ writer[u] # w /\ writer[u] \notin pool
               /\ path[writer[u]] # NoFile =>
                     /\ path[writer[u]] \in DOMAIN disk
                     /\ path[writer[u]] # path[w]
    BY <2>1, OwnWriter, Zenon DEF Sound, Owns, Spooled, Distinct
  <2>2. Using(u) => /\ writer[u] \notin pool'
                    /\ released'[writer[u]] = released[writer[u]]
                    /\ context'[writer[u]] = context[writer[u]]
                    /\ memory'[writer[u]] = memory[writer[u]]
                    /\ file'[writer[u]] = file[writer[u]]
                    /\ path'[writer[u]] = path[writer[u]]
    BY <2>1, Zenon DEF Sound, Types, release
  <2>3. Using(u) /\ path[writer[u]] # NoFile =>
          /\ path[writer[u]] \in DOMAIN disk'
          /\ disk'[path[writer[u]]] = disk[path[writer[u]]]
    BY <2>1, <1>2, <1>3, Zenon
  <2>4. /\ pc'[u] = pc[u] /\ writer'[u] = writer[u] /\ next'[u] = next[u]
        /\ result'[u] = result[u] /\ seen'[u] = seen[u]
    BY Zenon DEF Sound, Types
  <2> QED
    BY <2>2, <2>3, <2>4, Zenon DEF Leaves
<1>5. Types'
  BY <1>1, <1>2, Zenon DEF Sound, Types, release, NoFile
<1>6. PoolClean'
  BY <1>1, Zenon DEF Sound, Types, PoolClean, release
<1>7. Owns(t)' /\ Spooled(t)'
  BY <1>1, Zenon DEF Owns, Spooled
<1>8. OwnFile(t)
  BY <1>1, <1>2, Zenon DEF OwnFile
<1>9. Held(t)'
  BY <1>1, Zenon DEF Sound, Types, Held, Given, Whole
<1> QED
  BY <1>4, <1>5, <1>6, <1>7, <1>8, <1>9, LocalStep, Zenon

-----------------------------------------------------------------------------
\* What a transfer that is writing has: its writer, with the file open if it has
\* one, and the chunks before the next.
LEMMA Writing ==
    ASSUME Sound, NEW t \in Transfers, pc[t] = "open"
    PROVE  /\ Using(t) /\ writer[t] \in Writers /\ writer[t] \notin pool
           /\ ~released[writer[t]] /\ context[writer[t]] = t
           /\ file[writer[t]] = path[writer[t]]
           /\ path[writer[t]] # NoFile => path[writer[t]] \in DOMAIN disk
           /\ BodyOf(writer[t]) = Prefix(t, next[t] - 1)
           /\ next[t] \in 1..ChunkCount + 1
  BY Zenon DEF Sound, Types, Owns, Spooled, Held, Using

\* The body after the next chunk.
LEMMA NextChunk ==
    ASSUME Sizes, NEW t \in Transfers, NEW n \in 1..ChunkCount + 1
    PROVE  Append(Prefix(t, n - 1), <<t, n>>) = Prefix(t, (n + 1) - 1)
<1>1. n - 1 \in Nat /\ (n - 1) + 1 = n /\ (n + 1) - 1 = n
  BY SMT DEF Sizes
<1> QED
  BY <1>1, PrefixAppend, Zenon

\* The own part of a transfer whose chunk was accepted.
LEMMA AcceptedStep ==
    ASSUME Sizes, Sound, NEW t \in Transfers, pc[t] = "open", next[t] <= ChunkCount,
           Accepted(t), UNCHANGED <<seen, writer>>,
           BodyOf(writer[t])' = Append(BodyOf(writer[t]), <<t, next[t]>>)
    PROVE  Held(t)' /\ next' \in [Transfers -> 1..ChunkCount + 1]
<1>1. next[t] \in 1..ChunkCount + 1 /\ next'[t] = next[t] + 1
  BY Writing, Zenon DEF Accepted, Sound, Types
<1>2. next' \in [Transfers -> 1..ChunkCount + 1]
  <2>1. next[t] + 1 \in 1..ChunkCount + 1
    BY <1>1, SMT DEF Sizes
  <2> QED
    BY <2>1, Zenon DEF Accepted, Sound, Types
<1>3. BodyOf(writer[t])' = Prefix(t, next[t] - 1)'
  <2>1. BodyOf(writer[t])' = Prefix(t, (next[t] + 1) - 1)
    <3>1. BodyOf(writer[t]) = Prefix(t, next[t] - 1)
      BY Writing, Zenon
    <3>2. Append(Prefix(t, next[t] - 1), <<t, next[t]>>) = Prefix(t, (next[t] + 1) - 1)
      BY <1>1, NextChunk, Zenon
    <3> QED
      BY <3>1, <3>2, Zenon
  <2> QED
    BY <1>1, <2>1, Zenon DEF Prefix
<1>4. pc' = pc /\ result' = result
  BY Zenon DEF Accepted
<1>5. Held(t)'
  BY <1>3, <1>4, Zenon DEF Sound, Held, Given, Whole
<1> QED
  BY <1>2, <1>5, Zenon

\* A chunk appended to the memory of the writer.
LEMMA WriteMemory ==
    ASSUME Sizes, Sound, NEW t \in Transfers, pc[t] = "open", next[t] <= ChunkCount,
           InMemory(writer[t]),
           memory' = [memory EXCEPT ![writer[t]] = Append(@, <<t, next[t]>>)],
           Accepted(t), UNCHANGED <<pool, released, context, file, path, disk, writer, seen>>
    PROVE  Sound'
<1> DEFINE w == writer[t]
<1>1. Using(t) /\ Using(t)' /\ path[w] = NoFile /\ w \in Writers /\ w \notin pool
  BY Writing, Zenon DEF InMemory, Using, Accepted
<1>2. memory'[w] = Append(memory[w], <<t, next[t]>>)
  BY <1>1, Zenon DEF Sound, Types
<1>3. BodyOf(writer[t])' = Append(BodyOf(writer[t]), <<t, next[t]>>)
  BY <1>1, <1>2, Zenon DEF BodyOf
<1>4. Held(t)' /\ next' \in [Transfers -> 1..ChunkCount + 1]
  BY <1>3, AcceptedStep, Zenon
<1>5. ASSUME NEW u \in Transfers \ {t} PROVE Leaves(u)
  <2>1. Using(u) => writer[u] \in Writers /\ writer[u] # w
    BY <1>1, OwnWriter, Zenon DEF Sound, Owns
  <2> QED
    BY <2>1, Zenon DEF Sound, Types, Owns, Spooled, Leaves, Accepted
<1>6. Types'
  BY <1>4, Zenon DEF Sound, Types, Accepted
<1>7. PoolClean'
  BY <1>1, Zenon DEF Sound, Types, PoolClean
<1>8. Owns(t)' /\ Spooled(t)'
  BY Zenon DEF Sound, Owns, Spooled, Accepted, Using
<1>9. OwnFile(t)
  BY <1>1, Zenon DEF OwnFile
<1> QED
  BY <1>4, <1>5, <1>6, <1>7, <1>8, <1>9, LocalStep, Zenon

\* A chunk appended to the file of the writer.
LEMMA WriteFile ==
    ASSUME Sizes, Sound, NEW t \in Transfers, pc[t] = "open", next[t] <= ChunkCount,
           file[writer[t]] # NoFile,
           disk' = [disk EXCEPT ![file[writer[t]]] = Append(@, <<t, next[t]>>)],
           Accepted(t),
           UNCHANGED <<pool, released, context, memory, file, path, writer, seen>>
    PROVE  Sound'
<1> DEFINE w == writer[t]
           f == file[writer[t]]
<1>1. Using(t) /\ Using(t)' /\ path[w] = f /\ f # NoFile /\ f \in DOMAIN disk
  BY Writing, Zenon DEF Using, Accepted
<1>2. DOMAIN disk' = DOMAIN disk /\ disk'[f] = Append(disk[f], <<t, next[t]>>)
  BY <1>1, Zenon
<1>3. BodyOf(writer[t])' = Append(BodyOf(writer[t]), <<t, next[t]>>)
  BY <1>1, <1>2, Zenon DEF BodyOf
<1>4. Held(t)' /\ next' \in [Transfers -> 1..ChunkCount + 1]
  BY <1>3, AcceptedStep, Zenon
<1>5. ASSUME NEW u \in Transfers \ {t} PROVE Leaves(u)
  <2>1. Using(u) /\ path[writer[u]] # NoFile =>
          /\ path[writer[u]] \in DOMAIN disk' /\ path[writer[u]] # f
          /\ disk'[path[writer[u]]] = disk[path[writer[u]]]
    BY <1>1, <1>2, Zenon DEF Sound, Distinct, Spooled
  <2> QED
    BY <2>1, Zenon DEF Sound, Types, Owns, Leaves, Accepted
<1>6. Types' /\ PoolClean'
  BY <1>2, <1>4, Zenon DEF Sound, Types, PoolClean, Accepted
<1>7. Owns(t)' /\ Spooled(t)'
  BY <1>2, Zenon DEF Sound, Owns, Spooled, Accepted, Using
<1>8. OwnFile(t)
  BY <1>1, <1>2, Zenon DEF OwnFile
<1> QED
  BY <1>4, <1>5, <1>6, <1>7, <1>8, LocalStep, Zenon

\* The new file holds the body and belongs to t; the other files stay.
LEMMA CreateTempStep ==
    ASSUME Sizes, Sound, NEW t \in Transfers, pc[t] = "open",
           file[writer[t]] = NoFile, NEW body, CreateTemp(writer[t], body)
    PROVE  \E f :
           /\ f \in Files /\ f \notin DOMAIN disk /\ f # NoFile
           /\ DOMAIN disk' = DOMAIN disk \cup {f} /\ disk'[f] = body
           /\ \A g \in DOMAIN disk : disk'[g] = disk[g]
           /\ file'[writer[t]] = f /\ path'[writer[t]] = f
           /\ \A w \in Writers \ {writer[t]} : file'[w] = file[w] /\ path'[w] = path[w]
           /\ file' \in [Writers -> Files \cup {NoFile}]
           /\ path' \in [Writers -> Files \cup {NoFile}]
<1> DEFINE f == FreeName
<1>1. \E g \in Files : g \notin DOMAIN disk
  <2>1. Using(t) /\ path[writer[t]] = NoFile
    BY Writing, Zenon
  <2> QED
    BY <2>1, FreeFile, Zenon DEF Sound
<1>2. f \in Files /\ f \notin DOMAIN disk
  BY <1>1, Zenon DEF FreeName
<1>3. f # NoFile
  BY <1>2, SMT DEF Files, NoFile
<1>4. /\ file' = [file EXCEPT ![writer[t]] = f] /\ path' = [path EXCEPT ![writer[t]] = f]
      /\ disk' = [g \in DOMAIN disk \cup {f} |-> IF g = f THEN body ELSE disk[g]]
  BY Zenon DEF CreateTemp
<1>5. /\ DOMAIN disk' = DOMAIN disk \cup {f} /\ disk'[f] = body
      /\ \A g \in DOMAIN disk : disk'[g] = disk[g]
  BY <1>2, <1>4, Zenon
<1>6. writer[t] \in Writers
  BY Writing, Zenon
<1>7. /\ file'[writer[t]] = f /\ path'[writer[t]] = f
      /\ \A w \in Writers \ {writer[t]} : file'[w] = file[w] /\ path'[w] = path[w]
      /\ file' \in [Writers -> Files \cup {NoFile}]
      /\ path' \in [Writers -> Files \cup {NoFile}]
  BY <1>2, <1>4, <1>6, Zenon DEF Sound, Types
<1> HIDE DEF f
<1> QED
  BY <1>2, <1>3, <1>5, <1>7, Zenon

\* A step that starts the file of t and leaves the records of the others alone.
LEMMA CreateTempLocal ==
    ASSUME Sizes, Sound, NEW t \in Transfers, pc[t] = "open",
           file[writer[t]] = NoFile, NEW body, CreateTemp(writer[t], body),
           pc' \in [Transfers -> {"new", "open", "failed", "handler", "done"}],
           next' \in [Transfers -> 1..ChunkCount + 1], DOMAIN result' = Transfers,
           pc'[t] \in {"open", "failed"}, Held(t)',
           \A u \in Transfers \ {t} :
               pc'[u] = pc[u] /\ next'[u] = next[u] /\ result'[u] = result[u],
           DOMAIN memory' = Writers,
           \A v \in Writers \ {writer[t]} : memory'[v] = memory[v],
           UNCHANGED <<pool, released, context, writer, seen>>
    PROVE  Sound'
<1> DEFINE w == writer[t]
<1>1. PICK f :
      /\ f \in Files /\ f \notin DOMAIN disk /\ f # NoFile
      /\ DOMAIN disk' = DOMAIN disk \cup {f}
      /\ \A g \in DOMAIN disk : disk'[g] = disk[g]
      /\ file'[w] = f /\ path'[w] = f
      /\ \A v \in Writers \ {w} : file'[v] = file[v] /\ path'[v] = path[v]
      /\ file' \in [Writers -> Files \cup {NoFile}]
      /\ path' \in [Writers -> Files \cup {NoFile}]
  BY CreateTempStep, Zenon
<1>2. Using(t) /\ Using(t)' /\ w \in Writers /\ w \notin pool /\ path[w] = NoFile
  BY Writing, Zenon DEF Using
<1>3. ASSUME NEW u \in Transfers \ {t} PROVE Leaves(u)
  <2>1. Using(u) => /\ writer[u] \in Writers /\ writer[u] # w /\ writer[u] \notin pool
                    /\ path[writer[u]] # NoFile => path[writer[u]] \in DOMAIN disk
    BY <1>2, OwnWriter, Zenon DEF Sound, Owns, Spooled
  <2> QED
    BY <1>1, <2>1, Zenon DEF Leaves
<1>4. Types'
  BY <1>1, Zenon DEF Sound, Types
<1>5. PoolClean'
  <2>1. ASSUME NEW v \in pool PROVE v \in Writers \ {w}
    BY <1>2, Zenon DEF Sound, Types
  <2> QED
    BY <1>1, <2>1 DEF Sound, PoolClean
<1>6. Owns(t)' /\ Spooled(t)'
  BY <1>1, <1>2, Zenon DEF Sound, Owns, Spooled
<1>7. OwnFile(t)
  <2>1. writer'[t] = w
    BY Zenon
  <2>2. ASSUME NEW g \in DOMAIN disk
        PROVE  ~(Using(t) /\ path[writer[t]] = g)
    BY <1>2, SMT DEF Sound, Types, Files, NoFile
  <2> QED
    BY <1>1, <1>2, <2>1, <2>2, Zenon DEF OwnFile
<1> QED
  BY <1>3, <1>4, <1>5, <1>6, <1>7, LocalStep, Zenon

\* Write, whichever way it goes.
LEMMA WriteStep ==
    ASSUME Sizes, Sound, NEW t \in Transfers, Write(t)
    PROVE  Sound'
<1> DEFINE w == writer[t]
           chunk == <<t, next[t]>>
<1>1. /\ pc[t] = "open" /\ next[t] <= ChunkCount /\ ~released[w]
      /\ UNCHANGED <<pool, released, context, writer, seen>>
  BY Writing, Zenon DEF Write
<1>2. CASE /\ InMemory(w)
           /\ memory' = [memory EXCEPT ![w] = Append(@, chunk)]
           /\ Accepted(t) /\ UNCHANGED <<file, path, disk>>
  BY <1>1, <1>2, WriteMemory, Zenon
<1>3. CASE /\ file[w] = NoFile /\ CreateTemp(w, Append(memory[w], chunk))
           /\ memory' = [memory EXCEPT ![w] = <<>>] /\ Accepted(t)
  <2>1. PICK body : body = Append(memory[w], chunk)
    BY Zenon
  <2>2. PICK f : path'[writer[t]] = f /\ f # NoFile /\ disk'[f] = body
    <3>1. CreateTemp(writer[t], body)
      BY <1>3, <2>1, Zenon
    <3>2. file[writer[t]] = NoFile
      BY <1>3, Zenon
    <3>3. pc[t] = "open"
      BY <1>1, Zenon
    <3>4. \E f :
           /\ f \in Files /\ f \notin DOMAIN disk /\ f # NoFile
           /\ DOMAIN disk' = DOMAIN disk \cup {f} /\ disk'[f] = body
           /\ \A g \in DOMAIN disk : disk'[g] = disk[g]
           /\ file'[writer[t]] = f /\ path'[writer[t]] = f
           /\ \A v \in Writers \ {writer[t]} : file'[v] = file[v] /\ path'[v] = path[v]
           /\ file' \in [Writers -> Files \cup {NoFile}]
           /\ path' \in [Writers -> Files \cup {NoFile}]
      BY <3>1, <3>2, <3>3, CreateTempStep, Zenon
    <3> QED
      BY <3>4, Zenon
  <2>3. path[w] = NoFile
    BY <1>1, <1>3, Writing, Zenon
  <2>4. BodyOf(writer[t])' = Append(BodyOf(writer[t]), <<t, next[t]>>)
    BY <1>1, <2>1, <2>2, <2>3, Zenon DEF BodyOf
  <2>5. Held(t)' /\ next' \in [Transfers -> 1..ChunkCount + 1]
    BY <1>1, <1>3, <2>4, AcceptedStep, Zenon
  <2>6. /\ pc' = pc /\ result' = result
        /\ \A u \in Transfers \ {t} : next'[u] = next[u]
        /\ DOMAIN memory' = Writers
        /\ \A v \in Writers \ {w} : memory'[v] = memory[v]
        /\ pc \in [Transfers -> {"new", "open", "failed", "handler", "done"}]
        /\ DOMAIN result = Transfers
    BY <1>3, Zenon DEF Accepted, Sound, Types
  <2> QED
    BY <1>1, <1>3, <2>5, <2>6, CreateTempLocal, Zenon
<1>4. CASE /\ file[w] # NoFile
           /\ disk' = [disk EXCEPT ![file[w]] = Append(@, chunk)]
           /\ Accepted(t) /\ UNCHANGED <<memory, file, path>>
  BY <1>1, <1>4, WriteFile, Zenon
<1> QED
  BY <1>1, <1>2, <1>3, <1>4, Zenon DEF Write

\* A write that fails leaves the file that it may have made with the writer.
LEMMA WriteFailsStep ==
    ASSUME Sizes, Sound, NEW t \in Transfers, WriteFails(t)
    PROVE  Sound'
<1> DEFINE w == writer[t]
<1>1. /\ pc[t] = "open" /\ Stopped(t)
      /\ UNCHANGED <<pool, released, context, memory, writer, seen>>
  BY Zenon DEF WriteFails
<1>2. CASE UNCHANGED <<file, path, disk>>
  BY <1>1, <1>2, StoppedStep, Zenon DEF wvars
<1>3. CASE file[w] = NoFile /\ CreateTemp(w, <<>>)
  <2>1. /\ pc' \in [Transfers -> {"new", "open", "failed", "handler", "done"}]
        /\ next' \in [Transfers -> 1..ChunkCount + 1] /\ DOMAIN result' = Transfers
        /\ pc'[t] = "failed" /\ result'[t] = "failed"
        /\ \A u \in Transfers \ {t} :
              pc'[u] = pc[u] /\ next'[u] = next[u] /\ result'[u] = result[u]
        /\ DOMAIN memory' = Writers
        /\ \A v \in Writers \ {w} : memory'[v] = memory[v]
    BY <1>1, Zenon DEF Stopped, Sound, Types
  <2>2. Held(t)'
    BY <1>1, <2>1, Zenon DEF Sound, Held, Given, Whole
  <2> QED
    BY <1>1, <1>3, <2>1, <2>2, CreateTempLocal, Zenon
<1> QED
  BY <1>1, <1>2, <1>3, Zenon DEF WriteFails

\* Close hands the whole body to the handler of the transfer.
LEMMA CloseStep ==
    ASSUME Sizes, Sound, NEW t \in Transfers, Close(t)
    PROVE  Sound'
<1> DEFINE w == writer[t]
<1>1. /\ pc[t] = "open" /\ next[t] > ChunkCount
      /\ file' = [file EXCEPT ![w] = NoFile]
      /\ seen' = [seen EXCEPT ![t] = {[transfer |-> context[w], body |-> BodyOf(w)]}]
      /\ pc' = [pc EXCEPT ![t] = "handler"]
      /\ UNCHANGED <<pool, released, context, memory, path, disk, writer, next, result>>
  BY Writing, Zenon DEF Close
<1>2. /\ Using(t) /\ w \in Writers /\ w \notin pool /\ context[w] = t
      /\ BodyOf(w) = Prefix(t, next[t] - 1) /\ next[t] \in 1..ChunkCount + 1
  BY <1>1, Writing, Zenon
<1>3. BodyOf(w) = Whole(t)
  <2>1. next[t] - 1 = ChunkCount
    BY <1>1, <1>2, SMT DEF Sizes
  <2> QED
    BY <1>2, <2>1, Zenon DEF Prefix, Whole
<1>4. /\ pc'[t] = "handler" /\ Using(t)' /\ seen'[t] = Given(t)
      /\ result[t] # "completed"
  BY <1>1, <1>2, <1>3, Zenon DEF Sound, Types, Using, Given, Held
<1>5. Held(t)'
  BY <1>1, <1>3, <1>4, Zenon DEF Held, BodyOf, Given, Whole
<1>6. ASSUME NEW u \in Transfers \ {t} PROVE Leaves(u)
  <2>1. Using(u) => writer[u] \in Writers /\ writer[u] # w
    BY <1>2, OwnWriter, Zenon DEF Sound, Owns
  <2> QED
    BY <1>1, <2>1, Zenon DEF Sound, Types, Owns, Spooled, Leaves
<1>7. Types'
  BY <1>1, <1>2, Zenon DEF Sound, Types
<1>8. PoolClean'
  BY <1>1, <1>2, Zenon DEF Sound, Types, PoolClean
<1>9. Owns(t)' /\ Spooled(t)'
  BY <1>1, <1>2, <1>4, Zenon DEF Sound, Owns, Spooled
<1>10. OwnFile(t)
  BY <1>1, <1>2, <1>4, Zenon DEF OwnFile
<1> QED
  BY <1>5, <1>6, <1>7, <1>8, <1>9, <1>10, LocalStep, Zenon

-----------------------------------------------------------------------------
\* Before a commit is given up every step keeps the invariant: one step per action.
LEMMA SoundStep ==
    ASSUME Sizes, Sound, timedOut' = {}, [Next]_vars
    PROVE  Sound'
<1>1. CASE UNCHANGED vars
  <2> USE <1>1 DEF vars, wvars
  <2>1. Types' /\ PoolClean'
    BY Zenon DEF Sound, Types, PoolClean
  <2>2. Distinct' /\ OnDisk'
    BY Zenon DEF Sound, Distinct, OnDisk, Using
  <2>3. ASSUME NEW t \in Transfers PROVE Owns(t)' /\ Spooled(t)' /\ Held(t)'
    BY Zenon DEF Sound, Owns, Spooled, Held, Using, BodyOf, Given, Whole, Prefix
  <2> QED
    BY <2>1, <2>2, <2>3, Zenon DEF Sound
<1>2. ASSUME NEW t \in Transfers, acquireBodyWriter(t) PROVE Sound'
  BY <1>2, AcquireStep, Zenon
<1>3. ASSUME NEW t \in Transfers, Write(t) PROVE Sound'
  BY <1>3, WriteStep, Zenon
<1>4. ASSUME NEW t \in Transfers, WriteFails(t) PROVE Sound'
  BY <1>4, WriteFailsStep, Zenon
<1>5. ASSUME NEW t \in Transfers, TransferFails(t) PROVE Sound'
  BY <1>5, StoppedStep, Zenon DEF TransferFails
<1>6. ASSUME NEW t \in Transfers, Abort(t) PROVE Sound'
  <2>1. pc[t] = "failed" /\ Using(t) /\ ~released[writer[t]]
    BY <1>6, Zenon DEF Abort, Sound, Types, Owns, Using
  <2>2. result' = result /\ DOMAIN result = Transfers /\ result[t] # "completed"
    BY <1>6, <2>1, Zenon DEF Abort, Sound, Types, Held
  <2> QED
    BY <1>6, <2>1, <2>2, ReleaseStep, Zenon DEF Abort
<1>7. ASSUME NEW t \in Transfers, Close(t) PROVE Sound'
  BY <1>7, CloseStep, Zenon
<1>8. ASSUME NEW t \in Transfers, CloseFails(t) PROVE Sound'
  <2>1. Using(t)
    BY <1>8, Zenon DEF CloseFails, Using
  <2>2. /\ DOMAIN result' = Transfers /\ result'[t] = "failed"
        /\ \A u \in Transfers \ {t} : result'[u] = result[u]
    BY <1>8, Zenon DEF CloseFails, Finish, Sound, Types
  <2> QED
    BY <1>8, <2>1, <2>2, ReleaseStep, Zenon DEF CloseFails, Finish
<1>9. ASSUME NEW t \in Transfers, HandlerReturns(t) PROVE Sound'
  <2>1. /\ pc[t] = "handler" /\ Using(t) /\ ~released[writer[t]]
        /\ seen[t] = Given(t)
    BY <1>9, Zenon DEF HandlerReturns, Sound, Types, Owns, Held, Using
  <2>2. PICK outcome \in {"completed", "failed"} : Finish(t, outcome)
    BY <1>9, <2>1, Zenon DEF HandlerReturns
  <2>3. release(writer[t]) /\ UNCHANGED <<writer, next, seen>>
    BY <1>9, <2>1, Zenon DEF HandlerReturns
  <2>4. /\ pc' = [pc EXCEPT ![t] = "done"] /\ DOMAIN result' = Transfers
        /\ \A u \in Transfers \ {t} : result'[u] = result[u]
    BY <2>2, Zenon DEF Finish, Sound, Types
  <2> QED
    BY <2>1, <2>3, <2>4, ReleaseStep, Zenon
<1>10. ASSUME NEW t \in Transfers, CommitTimesOut(t) PROVE Sound'
  BY <1>10, Zenon DEF CommitTimesOut
<1>11. CASE Finished
  BY <1>1, <1>11, Zenon DEF Finished
<1> QED
  BY <1>1, <1>2, <1>3, <1>4, <1>5, <1>6, <1>7, <1>8, <1>9, <1>10, <1>11, Zenon DEF Next

\* At the start all writers are in the pool and there is no file.
LEMMA SoundInit ==
    ASSUME Sizes, Init
    PROVE  Sound
<1>1. DOMAIN disk = {}
  BY SMT DEF Init
<1>2. ASSUME NEW t \in Transfers PROVE pc[t] = "new" /\ ~Using(t)
  BY Zenon DEF Init, Using
<1>3. Types
  BY <1>1, SMT DEF Init, Types, Sizes, NoFile
<1>4. PoolClean /\ Distinct /\ OnDisk
  BY <1>1, <1>2, Zenon DEF Init, PoolClean, Distinct, OnDisk
<1>5. ASSUME NEW t \in Transfers PROVE Owns(t) /\ Spooled(t) /\ Held(t)
  BY <1>2, Zenon DEF Init, Owns, Spooled, Held, None
<1> QED
  BY <1>3, <1>4, <1>5, Zenon DEF Sound

\* The timed out transfers only become more.
LEMMA TimedOutGrows == ASSUME [Next]_vars, timedOut' = {} PROVE timedOut = {}
<1>1. ASSUME NEW t \in Transfers, CommitTimesOut(t) PROVE FALSE
  BY <1>1, Zenon DEF CommitTimesOut
<1> QED
  BY <1>1, Zenon
     DEF Next, vars, acquireBodyWriter, Write, WriteFails, TransferFails, Abort, Close,
              CloseFails, HandlerReturns, Finished

\* The invariant of the writers and the transfers holds in every behaviour.
THEOREM Invariance == ASSUME Sizes PROVE Spec => []IInv
<1>1. Init => IInv
  BY SoundInit, Zenon DEF IInv
<1>2. IInv /\ [Next]_vars => IInv'
  BY SoundStep, TimedOutGrows, Zenon DEF IInv
<1> QED
  BY <1>1, <1>2, PTL DEF Spec

\* A handler is run with its own transfer and the whole of its body, which does not
\* change until it returns, as long as no commit was given up (acquireBodyWriter,
\* Write, Close, release): whichever writers are shared, in whatever order, and
\* whichever file operations fail.
THEOREM BodiesAreSeparate == ASSUME Sizes PROVE Spec => []BodiesSeparate
<1>1. IInv => BodiesSeparate
  BY Zenon DEF IInv, Sound, Held, Given, BodiesSeparate
<1> QED
  BY <1>1, Invariance, PTL

\* A temporary file is on disk only while a transfer uses the writer that made it,
\* as long as no commit was given up (Abort, Close, release).
THEOREM FilesAreRemoved == ASSUME Sizes PROVE Spec => []NoFileLeft
<1>1. IInv => NoFileLeft
  BY Zenon DEF IInv, Sound, OnDisk, Using, NoFileLeft
<1> QED
  BY <1>1, Invariance, PTL

\* A transfer reported Completed had its whole body handed to the application, as
\* long as no commit was given up (handleIncomingTransferEnd): it takes a timeout or
\* a cancelled session to break CompletedMeansDelivered.
THEOREM CompletedIsDelivered ==
    ASSUME Sizes
    PROVE  Spec => [](timedOut = {} => CompletedMeansDelivered)
<1>1. IInv => (timedOut = {} => CompletedMeansDelivered)
  BY Zenon DEF IInv, Sound, Held, Given, CompletedMeansDelivered
<1> QED
  BY <1>1, Invariance, PTL
=============================================================================
