---------------------------- MODULE SplitExecutor ----------------------------
(***************************************************************************)
(* prover_v2/src/executor.rs: one call of Executor::split on a prover.     *)
(*                                                                         *)
(* A generator thread executes the program and sends a checkpoint for each *)
(* shard over a bounded channel.  Workers trace the checkpoints in         *)
(* parallel, then take turns, in the order of the execution, to number the *)
(* segments and to collect the events that are deferred to records of      *)
(* their own, and write the segment files.  The guards of state, deferred  *)
(* and segment_index are taken in that order by the worker whose turn it   *)
(* is and live to the end of the loop's body, so they are one lock here.   *)
(*                                                                         *)
(* A segment is the checkpoint it stems from, its shard number and the     *)
(* deferred events (named by their checkpoint) it commits to.              *)
(***************************************************************************)
EXTENDS Naturals, Sequences, FiniteSets

CONSTANTS
    Workers,            \* trace_gen_workers
    NoWorker,           \* nobody holds the lock
    Checkpoints,        \* number of shards the program executes in
    ChannelCapacity,    \* checkpoints_channel_capacity
    MaxRecords,         \* bound: records split off at a checkpoint, at least the last one's
    DeferredProofs,     \* number of deferred_inputs of the request
    ExecutionErrors,    \* may the program or the disk fail the generator?
    Panics              \* may a worker panic?

ASSUME ExecutorAssumption ==
    /\ Workers # {} /\ NoWorker \notin Workers
    /\ Checkpoints \in Nat \ {0} /\ ChannelCapacity \in Nat \ {0}
    /\ MaxRecords \in Nat \ {0} /\ DeferredProofs \in Nat
    /\ ExecutionErrors \in BOOLEAN /\ Panics \in BOOLEAN

VARIABLES
    main,           \* Executor::split: where it is
    generator,      \* the checkpoint generator: [at, index]
    channel,        \* checkpoints_rx: indices of checkpoints
    at,             \* where each worker is
    index,          \* the checkpoint each worker is at
    todo,           \* segments a worker still has to write: number -> segment
    turn,           \* TurnBasedSync
    lock,           \* who holds the guards of state, deferred and segment_index
    poisoned,       \* did somebody panic with the guards?
    shard,          \* state.shard
    deferred,       \* checkpoints whose deferred events wait for a record
    segment_index,
    published,      \* the number in segments.txt, 0 without the file
    files,          \* segment files: number -> segment
    proofs,         \* deferred_proof files
    answer          \* what split_elf answers

counters == <<shard, deferred, segment_index>>
disk == <<published, files, proofs>>
vars == <<main, generator, channel, at, index, todo, turn, lock, poisoned, counters, disk, answer>>

NoFiles == [i \in {} |-> <<>>]
Last(k) == k = Checkpoints - 1

Init ==
    /\ main = "load"
    /\ generator = [at |-> "none", index |-> 0]
    /\ channel = <<>>
    /\ at = [w \in Workers |-> "none"]
    /\ index = [w \in Workers |-> 0]
    /\ todo = [w \in Workers |-> NoFiles]
    /\ turn = 0
    /\ lock = NoWorker
    /\ poisoned = FALSE
    /\ shard = 0 /\ deferred = <<>> /\ segment_index = 0
    /\ published = 0 /\ files = NoFiles /\ proofs = {}
    /\ answer = "none"

----------------------------------------------------------------------------
(* split and the end of split_with_context.                                *)

\* Inputs, program, keys and vk.bin; any of them may fail.
LoadFails ==
    /\ main = "load" /\ ExecutionErrors
    /\ main' = "end" /\ answer' = "InternalError"
    /\ UNCHANGED <<generator, channel, at, index, todo, turn, lock, poisoned, counters, disk>>

StartThreads ==
    /\ main = "load"
    /\ main' = "join"
    /\ generator' = [generator EXCEPT !.at = "execute"]
    /\ at' = [w \in Workers |-> "recv"]
    /\ UNCHANGED <<channel, index, todo, turn, lock, poisoned, counters, disk, answer>>

JoinsGeneratorOnly == generator.at \in {"done", "failed"}

AllEnded ==
    /\ generator.at \in {"done", "failed"}
    /\ \A w \in Workers : at[w] \in {"done", "panicked"}

\* The scope ends when every thread has; a panic or an error of one of them
\* becomes a panic of split, which run_back_task turns into an InternalError.
JoinFails ==
    /\ main = "join" /\ AllEnded
    /\ generator.at = "failed" \/ \E w \in Workers : at[w] = "panicked"
    /\ main' = "end" /\ answer' = "InternalError"
    /\ UNCHANGED <<generator, channel, at, index, todo, turn, lock, poisoned, counters, disk>>

Join ==
    /\ main = "join" /\ AllEnded
    /\ generator.at = "done" /\ \A w \in Workers : at[w] # "panicked"
    /\ main' = "save"
    /\ UNCHANGED <<generator, channel, at, index, todo, turn, lock, poisoned, counters, disk, answer>>

\* public_values.bin
Save ==
    /\ main = "save"
    /\ \/ answer' = "Ok"
       \/ ExecutionErrors /\ answer' = "InternalError"
    /\ main' = "end"
    /\ UNCHANGED <<generator, channel, at, index, todo, turn, lock, poisoned, counters, disk>>

----------------------------------------------------------------------------
(* The checkpoint generator.                                               *)

GeneratorFails ==
    /\ generator.at = "execute" /\ ExecutionErrors
    /\ generator' = [generator EXCEPT !.at = "failed"]
    /\ UNCHANGED <<main, channel, at, index, todo, turn, lock, poisoned, counters, disk, answer>>

Execute ==
    /\ generator.at = "execute"
    /\ generator' = [generator EXCEPT !.at = "send"]
    /\ UNCHANGED <<main, channel, at, index, todo, turn, lock, poisoned, counters, disk, answer>>

OverfillsChannel ==
    /\ generator.at = "send"
    /\ channel' = Append(channel, generator.index)
    /\ generator' = IF Last(generator.index) THEN [generator EXCEPT !.at = "done"]
                    ELSE [at |-> "execute", index |-> generator.index + 1]
    /\ UNCHANGED <<main, at, index, todo, turn, lock, poisoned, counters, disk, answer>>

\* The channel blocks its sender while it is full.
SendCheckpoint ==
    /\ generator.at = "send" /\ Len(channel) < ChannelCapacity
    /\ channel' = Append(channel, generator.index)
    /\ generator' = IF Last(generator.index) THEN [generator EXCEPT !.at = "done"]
                    ELSE [at |-> "execute", index |-> generator.index + 1]
    /\ UNCHANGED <<main, at, index, todo, turn, lock, poisoned, counters, disk, answer>>

----------------------------------------------------------------------------
(* A trace worker.                                                         *)

Goto(w, pc) == at' = [at EXCEPT ![w] = pc]

Recv(w) ==
    /\ at[w] = "recv" /\ channel # <<>>
    /\ index' = [index EXCEPT ![w] = Head(channel)]
    /\ channel' = Tail(channel)
    /\ Goto(w, "trace")
    /\ UNCHANGED <<main, generator, todo, turn, lock, poisoned, counters, disk, answer>>

\* The sender is gone and the channel drained.
WorkerEnds(w) ==
    /\ at[w] = "recv" /\ channel = <<>> /\ generator.at \in {"done", "failed"}
    /\ Goto(w, "done")
    /\ UNCHANGED <<main, generator, channel, index, todo, turn, lock, poisoned, counters, disk, answer>>

\* Deserialize and trace the checkpoint.
Trace(w) ==
    /\ at[w] = "trace"
    /\ Goto(w, "turn")
    /\ UNCHANGED <<main, generator, channel, index, todo, turn, lock, poisoned, counters, disk, answer>>

TakesAnyTurn(w) ==
    /\ at[w] = "turn" /\ lock = NoWorker /\ ~poisoned
    /\ lock' = w /\ Goto(w, "number")
    /\ UNCHANGED <<main, generator, channel, index, todo, turn, poisoned, counters, disk, answer>>

\* wait_for_turn, then the guards.
TakeTurn(w) ==
    /\ at[w] = "turn" /\ turn = index[w] /\ lock = NoWorker /\ ~poisoned
    /\ lock' = w /\ Goto(w, "number")
    /\ UNCHANGED <<main, generator, channel, index, todo, turn, poisoned, counters, disk, answer>>

\* lock().unwrap() of a poisoned mutex.
MeetsPoison(w) ==
    /\ at[w] = "turn" /\ turn = index[w] /\ lock = NoWorker /\ poisoned
    /\ Goto(w, "panicked")
    /\ UNCHANGED <<main, generator, channel, index, todo, turn, lock, poisoned, counters, disk, answer>>

Segment(k, s, evs) == [checkpoint |-> k, shard |-> s, events |-> evs]

CountsFromZero(next) == next - 1

\* What segments.txt says once next is the number of the next segment.
SegmentsTxt(next) == next

\* The shard's own record, then the records split off the deferred events: own
\* says whether the shard defers any, m how many of those that wait are committed
\* now, in r records, the first of which stands for all of them.  The last
\* checkpoint leaves none behind.  segments.txt is written before any of the files.
Number(w) ==
    LET k == index[w] IN
    /\ at[w] = "number"
    /\ \E own \in {<<>>, <<k>>}, r \in 0..MaxRecords :
       LET waiting == deferred \o own IN
       \E m \in 0..Len(waiting) :
          /\ m > 0 <=> r > 0
          /\ Last(k) => m = Len(waiting)
          /\ deferred' = SubSeq(waiting, m + 1, Len(waiting))
          /\ shard' = shard + 1 + r
          /\ segment_index' = segment_index + 1 + r
          /\ published' = SegmentsTxt(segment_index')
          /\ todo' = [todo EXCEPT ![w] =
                [i \in segment_index..(segment_index + r) |->
                    Segment(k, shard + 1 + (i - segment_index),
                            IF i = segment_index + 1 THEN SubSeq(waiting, 1, m) ELSE <<>>)]]
    /\ Goto(w, "advance")
    /\ UNCHANGED <<main, generator, channel, index, turn, lock, poisoned, files, proofs, answer>>

AdvancesToNumber(w) ==
    /\ at[w] = "advance"
    /\ turn' = segment_index
    /\ Goto(w, "write")
    /\ UNCHANGED <<main, generator, channel, index, todo, lock, poisoned, counters, disk, answer>>

\* advance_turn
AdvanceTurn(w) ==
    /\ at[w] = "advance"
    /\ turn' = turn + 1
    /\ Goto(w, "write")
    /\ UNCHANGED <<main, generator, channel, index, todo, lock, poisoned, counters, disk, answer>>

\* The segments are compressed and renamed into place in parallel.
WriteSegment(w, i) ==
    /\ at[w] = "write" /\ i \in DOMAIN todo[w]
    /\ files' = [j \in DOMAIN files \cup {i} |-> IF j = i THEN todo[w][i] ELSE files[j]]
    /\ todo' = [todo EXCEPT ![w] = [j \in DOMAIN @ \ {i} |-> @[j]]]
    /\ UNCHANGED <<main, generator, channel, at, index, turn, lock, poisoned, counters, published, proofs, answer>>

\* The last worker also writes the deferred proofs; then the guards are dropped.
NextCheckpoint(w) ==
    /\ at[w] = "write" /\ DOMAIN todo[w] = {}
    /\ proofs' = IF Last(index[w]) THEN 0..(DeferredProofs - 1) ELSE proofs
    /\ lock' = NoWorker
    /\ Goto(w, "recv")
    /\ UNCHANGED <<main, generator, channel, index, todo, turn, poisoned, counters, published, files, answer>>

\* An expect() or an assertion of the tracer fails.  With the guards in hand the
\* mutexes are poisoned; before advance_turn the turn is lost as well.
Panic(w) ==
    /\ Panics /\ at[w] \in {"trace", "number", "write"}
    /\ Goto(w, "panicked")
    /\ poisoned' = (poisoned \/ lock = w)
    /\ lock' = IF lock = w THEN NoWorker ELSE lock
    /\ UNCHANGED <<main, generator, channel, index, todo, turn, counters, disk, answer>>

----------------------------------------------------------------------------
Main == LoadFails \/ StartThreads \/ JoinFails \/ Join \/ Save

Generator == GeneratorFails \/ Execute \/ SendCheckpoint

Worker(w) ==
    \/ Recv(w) \/ WorkerEnds(w) \/ Trace(w)
    \/ TakeTurn(w) \/ MeetsPoison(w) \/ Number(w) \/ AdvanceTurn(w)
    \/ \E i \in DOMAIN todo[w] : WriteSegment(w, i)
    \/ NextCheckpoint(w)

Next == Main \/ Generator \/ \E w \in Workers : Worker(w) \/ Panic(w)

Spec == Init /\ [][Next]_vars

\* Every thread that can go on is scheduled.
FairSpec == Spec /\ WF_vars(Main) /\ WF_vars(Generator) /\ \A w \in Workers : WF_vars(Worker(w))

----------------------------------------------------------------------------
(* Properties.                                                             *)

Indices == 0..(Checkpoints - 1)
GeneratorState == [at : {"none", "execute", "send", "done", "failed"}, index : Indices]
WorkerPlace == {"none", "recv", "trace", "turn", "number", "advance", "write", "done", "panicked"}
Segments == [checkpoint : Indices, shard : Nat, events : Seq(Indices)]
IsFileMap(f) == DOMAIN f \subseteq Nat /\ \A i \in DOMAIN f : f[i] \in Segments

\* The types of the threads' states and of what they share.
TypeOK ==
    /\ main \in {"load", "join", "save", "end"}
    /\ generator \in GeneratorState
    /\ channel \in Seq(Indices) /\ Len(channel) <= ChannelCapacity
    /\ at \in [Workers -> WorkerPlace]
    /\ index \in [Workers -> Indices]
    /\ DOMAIN todo = Workers /\ \A w \in Workers : IsFileMap(todo[w])
    /\ turn \in 0..Checkpoints
    /\ lock \in Workers \cup {NoWorker} /\ poisoned \in BOOLEAN
    /\ shard \in Nat /\ deferred \in Seq(Indices) /\ segment_index \in Nat
    /\ published \in Nat /\ IsFileMap(files) /\ proofs \subseteq Nat
    /\ answer \in {"none", "Ok", "InternalError"}

\* Every segment with a number, written or about to be.
Numbered(i) ==
    {files[j] : j \in DOMAIN files \cap {i}} \cup
    UNION {{todo[w][j] : j \in DOMAIN todo[w] \cap {i}} : w \in Workers}

\* The file number of a segment is its place in the execution, whichever worker
\* traced it and whenever it was done: shard i + 1 is file i, checkpoints follow
\* each other, and the deferred events are committed in order and once.  The
\* stage aggregates the proofs by file number and takes that for the execution.
SegmentsInOrder ==
    \A i, j \in 0..(segment_index - 1) : \A s \in Numbered(i), t \in Numbered(j) :
        /\ s.shard = i + 1
        /\ i < j => /\ s.checkpoint <= t.checkpoint
                    /\ \A a \in DOMAIN s.events, b \in DOMAIN t.events : s.events[a] < t.events[b]
        /\ i = j => s = t

\* When split_elf answers Ok, the stage finds total_segments whole files, the
\* right number in segments.txt and every deferred proof: no worker is still
\* writing, and none of the last checkpoints was dropped with the channel.
AnswerIsComplete ==
    answer = "Ok" =>
        /\ turn = Checkpoints
        /\ deferred = <<>>
        /\ published = segment_index /\ DOMAIN files = 0..(segment_index - 1)
        /\ proofs = 0..(DeferredProofs - 1)

\* What the stage sees of the directory.
Contract == INSTANCE Splitter
    WITH segfiles <- DOMAIN files, total <- IF answer = "Ok" THEN segment_index ELSE 0

\* The executor keeps the contract under which Stage polls its directory.
KeepsContract == Contract!Spec

\* Unless a worker panics, split_elf is answered: no worker waits for a turn or a
\* guard, and the generator for room in the channel, for ever.
SplitAnswers == <>(answer # "none" \/ \E w \in Workers : at[w] = "panicked")

\* "Convert into a boxed error" (prover_service.rs, run_back_task): a panic during
\* a task becomes an error answer.
PanicIsAnswered == \A w \in Workers : at[w] = "panicked" ~> answer # "none"
=============================================================================
