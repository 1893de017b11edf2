------------------------- MODULE SplitExecutorProofs -------------------------
(***************************************************************************)
(* Proofs about SplitExecutor, for any number of workers, checkpoints,     *)
(* records and deferred proofs and any capacity of the channel.            *)
(***************************************************************************)
EXTENDS SplitExecutor, SequenceTheorems, TLAPS

----------------------------------------------------------------------------
(* The inductive invariant.                                                *)

\* How many checkpoints have been sent, received and numbered.
Sent == IF generator.at = "done" THEN Checkpoints ELSE generator.index
Received == Sent - Len(channel)
NumberedCount == IF \E w \in Workers : at[w] = "advance" THEN turn + 1 ELSE turn

\* A worker that has a checkpoint and has not passed on its turn.
Tracing(w) == at[w] \in {"trace", "turn", "number", "advance"}

MainInv ==
    /\ main = "load" => generator.at = "none" /\ \A w \in Workers : at[w] = "none"
    /\ main # "end" => answer = "none"
    /\ main = "save" \/ answer = "Ok" => generator.at = "done" /\ \A w \in Workers : at[w] = "done"

\* The channel holds the last checkpoints sent, in order; a worker that has ended
\* found it empty.
ChannelInv ==
    /\ Len(channel) <= Sent /\ turn <= Received
    /\ \A i \in DOMAIN channel : channel[i] = Received + i - 1
    /\ \A w \in Workers : at[w] = "done" => channel = <<>> /\ generator.at \in {"done", "failed"}

\* Every checkpoint from turn on that was received is with one worker, which may
\* have died with it.
TracingInv ==
    /\ \A w \in Workers : Tracing(w) => turn <= index[w] /\ index[w] < Received
    /\ \A v, w \in Workers : Tracing(v) /\ Tracing(w) /\ index[v] = index[w] => v = w
    /\ \A k \in turn..(Received - 1) :
          \E w \in Workers : index[w] = k /\ (Tracing(w) \/ at[w] = "panicked")

\* The guards are with the worker whose turn it is.
LockInv ==
    \A w \in Workers :
        /\ lock = w <=> at[w] \in {"number", "advance", "write"}
        /\ at[w] \in {"number", "advance"} => index[w] = turn
        /\ at[w] = "write" => index[w] + 1 = turn

\* Every number below segment_index is given once: to a file or to a segment that
\* one worker has still to write.
NumbersInv ==
    /\ shard = segment_index /\ published = segment_index /\ NumberedCount <= segment_index
    /\ \A i \in 0..(segment_index - 1) :
          i \in DOMAIN files \/ \E w \in Workers : i \in DOMAIN todo[w]
    /\ DOMAIN files \subseteq 0..(segment_index - 1)
    /\ \A w \in Workers : DOMAIN todo[w] \subseteq 0..(segment_index - 1)
    /\ \A w \in Workers : DOMAIN todo[w] \cap DOMAIN files = {}
    /\ \A v, w \in Workers : v # w => DOMAIN todo[v] \cap DOMAIN todo[w] = {}
    /\ \A w \in Workers : at[w] \notin {"advance", "write", "panicked"} => DOMAIN todo[w] = {}

\* What has a number stems from the checkpoints numbered, and its events come
\* before all that still wait.
OrderInv ==
    /\ SegmentsInOrder
    /\ \A i \in 0..(segment_index - 1) : \A s \in Numbered(i) :
          /\ s.checkpoint < NumberedCount
          /\ \A a \in DOMAIN s.events : \A b \in DOMAIN deferred : s.events[a] < deferred[b]
          /\ \A a \in DOMAIN s.events : s.events[a] < NumberedCount
    /\ \A b \in DOMAIN deferred : deferred[b] < NumberedCount
    /\ \A a, b \in DOMAIN deferred : a < b => deferred[a] < deferred[b]

\* The last checkpoint leaves nothing behind.
LastInv ==
    /\ NumberedCount = Checkpoints => deferred = <<>>
    /\ turn = Checkpoints => \/ proofs = 0..(DeferredProofs - 1)
                             \/ \E w \in Workers : at[w] \in {"write", "panicked"}

IInv == TypeOK /\ MainInv /\ ChannelInv /\ TracingInv /\ LockInv /\ NumbersInv /\ OrderInv /\ LastInv

----------------------------------------------------------------------------
(* Lemmas about the parts of the invariant that a step leaves alone.       *)

LEMMA Moves ==
    ASSUME TypeOK, NEW w \in Workers, NEW pc \in WorkerPlace, Goto(w, pc)
    PROVE  /\ at' \in [Workers -> WorkerPlace] /\ at'[w] = pc
           /\ \A v \in Workers : v # w => at'[v] = at[v]
  BY DEF TypeOK, Goto

LEMMA Bounds ==
    ASSUME TypeOK
    PROVE  /\ Sent \in Nat /\ Sent <= Checkpoints /\ Len(channel) \in Nat /\ Received \in Int
           /\ turn \in Nat /\ turn <= Checkpoints /\ NumberedCount \in Nat
           /\ generator.index \in Nat /\ generator.index < Checkpoints
           /\ Checkpoints \in Nat \ {0} /\ segment_index \in Nat
           /\ \A w \in Workers : index[w] \in Nat /\ index[w] < Checkpoints
  <1>1. Checkpoints \in Nat \ {0}
    BY ExecutorAssumption
  <1>2. generator.index \in Indices /\ turn \in 0..Checkpoints /\ segment_index \in Nat
    BY DEF TypeOK, GeneratorState
  <1>3. Len(channel) \in Nat
    BY DEF TypeOK
  <1>4. \A w \in Workers : index[w] \in Indices
    BY DEF TypeOK
  <1>5. QED
    BY <1>1, <1>2, <1>3, <1>4 DEF Indices, Sent, Received, NumberedCount

\* While a thread is at work, split waits for it.
LEMMA MainKept ==
    ASSUME MainInv, UNCHANGED <<main, answer>>,
           \/ generator.at \in {"execute", "send"}
           \/ \E w \in Workers : at[w] \notin {"none", "done"}
    PROVE  MainInv'
  BY DEF MainInv

LEMMA NumberedKept ==
    ASSUME UNCHANGED <<files, todo>>
    PROVE  \A i : Numbered(i)' = Numbered(i)
  BY DEF Numbered

LEMMA CountKept ==
    ASSUME turn' = turn, \A w \in Workers : at'[w] = "advance" <=> at[w] = "advance"
    PROVE  NumberedCount' = NumberedCount
  BY DEF NumberedCount

\* A step that numbers and writes nothing.
LEMMA FilesKept ==
    ASSUME NumbersInv, OrderInv, NumberedCount' = NumberedCount,
           UNCHANGED <<shard, deferred, segment_index, published, files, todo>>,
           \A w \in Workers : DOMAIN todo[w] = {}
                              \/ at'[w] \in {"advance", "write", "panicked"}
                              \/ at[w] \notin {"advance", "write", "panicked"}
    PROVE  NumbersInv' /\ OrderInv'
  <1>1. NumbersInv'
    BY DEF NumbersInv
  <1>2. \A i : Numbered(i)' = Numbered(i)
    BY NumberedKept
  <1>3. SegmentsInOrder'
    BY <1>2 DEF OrderInv, SegmentsInOrder
  <1>4. OrderInv'
    BY <1>2, <1>3 DEF OrderInv
  <1>5. QED
    BY <1>1, <1>4

\* The same for a step that neither takes nor passes on a turn, and leaves the
\* deferred proofs alone.
LEMMA QuietStep ==
    ASSUME NumbersInv, OrderInv, LastInv,
           UNCHANGED <<turn, shard, deferred, segment_index, published, files, todo, proofs>>,
           \A w \in Workers : at'[w] = "advance" <=> at[w] = "advance",
           \A w \in Workers : at[w] \in {"write", "panicked"} => at'[w] \in {"write", "panicked"}
    PROVE  NumbersInv' /\ OrderInv' /\ LastInv'
  <1>1. NumberedCount' = NumberedCount
    BY CountKept
  <1>2. NumbersInv' /\ OrderInv'
    BY <1>1, FilesKept
  <1>3. LastInv'
    BY <1>1 DEF LastInv
  <1>4. QED
    BY <1>2, <1>3

----------------------------------------------------------------------------
(* One lemma per action, or per group of actions with the same effect.     *)

LEMMA MainStep ==
    ASSUME IInv, LoadFails \/ JoinFails \/ Join \/ Save
    PROVE  IInv'
  <1>1. /\ UNCHANGED <<generator, channel, at, index, todo, turn, lock, poisoned>>
        /\ UNCHANGED <<shard, deferred, segment_index, published, files, proofs>>
    BY DEF LoadFails, JoinFails, Join, Save, counters, disk
  <1>2. main' \in {"save", "end"} /\ answer' \in {"none", "Ok", "InternalError"}
    BY DEF LoadFails, JoinFails, Join, Save, IInv, TypeOK
  <1>3. TypeOK'
    BY <1>1, <1>2 DEF IInv, TypeOK
  <1>4. MainInv'
    BY <1>1 DEF IInv, TypeOK, MainInv, LoadFails, JoinFails, Join, Save, AllEnded
  <1>5. Sent' = Sent /\ Received' = Received /\ \A w \in Workers : Tracing(w)' <=> Tracing(w)
    BY <1>1 DEF Sent, Received, Tracing
  <1>6. ChannelInv' /\ TracingInv' /\ LockInv'
    BY <1>1, <1>5 DEF IInv, ChannelInv, TracingInv, LockInv
  <1>7. NumbersInv' /\ OrderInv' /\ LastInv'
    BY <1>1, QuietStep DEF IInv
  <1>8. QED
    BY <1>3, <1>4, <1>6, <1>7 DEF IInv

LEMMA StartStep ==
    ASSUME IInv, StartThreads
    PROVE  IInv'
  <1>1. /\ main = "load" /\ main' = "join" /\ generator' = [generator EXCEPT !.at = "execute"]
        /\ at' = [w \in Workers |-> "recv"]
        /\ UNCHANGED <<channel, index, todo, turn, lock, poisoned, answer>>
        /\ UNCHANGED <<shard, deferred, segment_index, published, files, proofs>>
    BY DEF StartThreads, counters, disk
  <1>2. /\ generator.at = "none" /\ answer = "none"
        /\ \A w \in Workers : at[w] = "none" /\ at'[w] = "recv"
    BY <1>1 DEF IInv, MainInv
  <1>3. /\ generator' \in GeneratorState /\ generator'.at = "execute"
        /\ generator'.index = generator.index
    BY <1>1 DEF IInv, TypeOK, GeneratorState
  <1>4. TypeOK'
    BY <1>1, <1>3 DEF IInv, TypeOK, WorkerPlace
  <1>5. MainInv'
    BY <1>1, <1>2 DEF MainInv
  <1>6. Sent' = Sent /\ Received' = Received
    BY <1>1, <1>2, <1>3 DEF Sent, Received
  <1>7. \A w \in Workers : ~Tracing(w) /\ ~Tracing(w)'
    BY <1>2 DEF Tracing
  <1>8. ChannelInv' /\ LockInv'
    BY <1>1, <1>2, <1>6 DEF IInv, ChannelInv, LockInv
  <1>9. TracingInv'
    BY <1>1, <1>2, <1>6, <1>7 DEF IInv, TracingInv
  <1>10. NumbersInv' /\ OrderInv' /\ LastInv'
    BY <1>1, <1>2, QuietStep DEF IInv
  <1>11. QED
    BY <1>4, <1>5, <1>8, <1>9, <1>10 DEF IInv

LEMMA ExecuteStep ==
    ASSUME IInv, GeneratorFails \/ Execute
    PROVE  IInv'
  <1>1. /\ generator.at = "execute"
        /\ UNCHANGED <<main, channel, at, index, todo, turn, lock, poisoned, answer>>
        /\ UNCHANGED <<shard, deferred, segment_index, published, files, proofs>>
    BY DEF GeneratorFails, Execute, counters, disk
  <1>2. /\ generator' \in GeneratorState /\ generator'.at \in {"failed", "send"}
        /\ generator'.index = generator.index
    BY DEF GeneratorFails, Execute, IInv, TypeOK, GeneratorState
  <1>3. TypeOK'
    BY <1>1, <1>2 DEF IInv, TypeOK
  <1>4. MainInv'
    BY <1>1, MainKept DEF IInv
  <1>5. Sent' = Sent /\ Received' = Received /\ \A w \in Workers : Tracing(w)' <=> Tracing(w)
    BY <1>1, <1>2 DEF Sent, Received, Tracing
  <1>6. ChannelInv' /\ TracingInv' /\ LockInv'
    BY <1>1, <1>5 DEF IInv, ChannelInv, TracingInv, LockInv
  <1>7. NumbersInv' /\ OrderInv' /\ LastInv'
    BY <1>1, QuietStep DEF IInv
  <1>8. QED
    BY <1>3, <1>4, <1>6, <1>7 DEF IInv

LEMMA SendStep ==
    ASSUME IInv, SendCheckpoint
    PROVE  IInv'
  <1>1. /\ generator.at = "send" /\ Len(channel) < ChannelCapacity
        /\ channel' = Append(channel, generator.index)
        /\ UNCHANGED <<main, at, index, todo, turn, lock, poisoned, answer>>
        /\ UNCHANGED <<shard, deferred, segment_index, published, files, proofs>>
    BY DEF SendCheckpoint, counters, disk
  <1>2. TypeOK /\ Checkpoints \in Nat \ {0} /\ generator.index \in Indices
    BY ExecutorAssumption DEF IInv, TypeOK, GeneratorState
  <1>3. /\ generator' \in GeneratorState
        /\ \/ generator'.at = "done" /\ generator.index = Checkpoints - 1
           \/ generator'.at = "execute" /\ generator'.index = generator.index + 1
    <2>1. CASE Last(generator.index)
      <3>1. generator' = [generator EXCEPT !.at = "done"] /\ generator.index = Checkpoints - 1
        BY <2>1 DEF SendCheckpoint, Last
      <3>2. QED
        BY <1>2, <3>1 DEF TypeOK, GeneratorState
    <2>2. CASE ~Last(generator.index)
      <3>1. /\ generator' = [at |-> "execute", index |-> generator.index + 1]
            /\ generator.index # Checkpoints - 1
        BY <2>2 DEF SendCheckpoint, Last
      <3>2. generator.index + 1 \in Indices
        BY <1>2, <3>1 DEF Indices
      <3>3. QED
        BY <3>1, <3>2 DEF GeneratorState
    <2>3. QED
      BY <2>1, <2>2
  <1>4. /\ channel' \in Seq(Indices) /\ Len(channel') = Len(channel) + 1
        /\ DOMAIN channel' = 1..(Len(channel) + 1) /\ DOMAIN channel = 1..Len(channel)
        /\ Len(channel) \in Nat /\ channel'[Len(channel) + 1] = generator.index
        /\ \A i \in 1..Len(channel) : channel'[i] = channel[i]
    BY <1>1, <1>2 DEF TypeOK
  <1>5. TypeOK'
    BY <1>1, <1>2, <1>3, <1>4, ExecutorAssumption DEF TypeOK
  <1>6. MainInv'
    BY <1>1, MainKept DEF IInv
  <1>7. Sent = generator.index /\ Sent \in Nat /\ Sent' = Sent + 1 /\ Received' = Received /\ Received \in Int
    <2>1. generator.index \in Nat /\ Checkpoints \in Nat
      BY <1>2 DEF Indices
    <2>2. Sent = generator.index /\ Sent' = generator.index + 1
      BY <1>1, <1>3, <2>1 DEF Sent
    <2>3. QED
      BY <1>4, <2>1, <2>2 DEF Received
  <1>8. ChannelInv'
    <2>1. Len(channel') <= Sent' /\ turn' <= Received'
      BY <1>1, <1>4, <1>7 DEF IInv, ChannelInv
    <2>2. \A i \in DOMAIN channel' : channel'[i] = Received' + i - 1
      <3> SUFFICES ASSUME NEW i \in DOMAIN channel' PROVE channel'[i] = Received + i - 1
        BY <1>7
      <3>1. CASE i \in 1..Len(channel)
        BY <1>4, <3>1 DEF IInv, ChannelInv
      <3>2. CASE i = Len(channel) + 1
        BY <1>4, <1>7, <3>2 DEF Received
      <3>3. QED
        BY <1>4, <3>1, <3>2
    <2>3. \A w \in Workers : at'[w] # "done"
      BY <1>1 DEF IInv, ChannelInv
    <2>4. QED
      BY <2>1, <2>2, <2>3 DEF ChannelInv
  <1>9. TracingInv' /\ LockInv'
    BY <1>1, <1>7 DEF IInv, TracingInv, LockInv, Tracing
  <1>10. NumbersInv' /\ OrderInv' /\ LastInv'
    BY <1>1, QuietStep DEF IInv
  <1>11. QED
    BY <1>5, <1>6, <1>8, <1>9, <1>10 DEF IInv

LEMMA RecvStep ==
    ASSUME IInv, NEW w \in Workers, Recv(w)
    PROVE  IInv'
  <1>1. /\ at[w] = "recv" /\ channel # <<>> /\ channel' = Tail(channel)
        /\ index' = [index EXCEPT ![w] = Head(channel)] /\ Goto(w, "trace")
        /\ UNCHANGED <<main, generator, todo, turn, lock, poisoned, answer>>
        /\ UNCHANGED <<shard, deferred, segment_index, published, files, proofs>>
    BY DEF Recv, counters, disk
  <1>2. TypeOK /\ channel \in Seq(Indices) /\ Len(channel) <= ChannelCapacity
    BY DEF IInv, TypeOK
  <1>3. /\ Len(channel) \in Nat \ {0} /\ DOMAIN channel = 1..Len(channel) /\ Head(channel) = channel[1]
        /\ Head(channel) \in Indices /\ channel' \in Seq(Indices) /\ Len(channel') = Len(channel) - 1
        /\ DOMAIN channel' = 1..(Len(channel) - 1)
        /\ \A i \in 1..(Len(channel) - 1) : channel'[i] = channel[i + 1] /\ i + 1 \in 1..Len(channel)
    BY <1>1, <1>2
  <1>4. /\ at' \in [Workers -> WorkerPlace] /\ at'[w] = "trace"
        /\ \A v \in Workers : v # w => at'[v] = at[v]
    BY <1>1, <1>2, Moves DEF WorkerPlace
  <1>5. /\ index' \in [Workers -> Indices] /\ index'[w] = channel[1]
        /\ \A v \in Workers : v # w => index'[v] = index[v]
    BY <1>1, <1>2, <1>3 DEF TypeOK
  <1>6. TypeOK'
    BY <1>1, <1>2, <1>3, <1>4, <1>5, ExecutorAssumption DEF TypeOK
  <1>7. MainInv'
    BY <1>1, MainKept DEF IInv
  <1>8. Sent \in Nat /\ Received \in Int /\ Sent' = Sent /\ Received' = Received + 1
    BY <1>1, <1>2, <1>3, Bounds DEF Sent, Received
  <1>9. channel[1] = Received
    BY <1>3, <1>8 DEF IInv, ChannelInv
  <1>10. turn \in Nat /\ turn <= Received
    BY <1>2, Bounds DEF IInv, ChannelInv
  <1>11. ChannelInv'
    <2>1. \A i \in DOMAIN channel' : channel'[i] = Received' + i - 1
      <3> SUFFICES ASSUME NEW i \in 1..(Len(channel) - 1) PROVE channel'[i] = Received + 1 + i - 1
        BY <1>3, <1>8
      <3>1. channel[i + 1] = Received + (i + 1) - 1
        BY <1>3 DEF IInv, ChannelInv
      <3>2. QED
        BY <1>3, <1>8, <3>1
    <2>2. \A v \in Workers : at'[v] # "done"
      BY <1>1, <1>4 DEF IInv, ChannelInv
    <2>3. Len(channel') <= Sent' /\ turn' <= Received'
      BY <1>1, <1>3, <1>8, <1>10 DEF IInv, ChannelInv
    <2>4. QED
      BY <2>1, <2>2, <2>3 DEF ChannelInv
  <1>12. TracingInv'
    <2>1. (\A v \in Workers : v # w => (Tracing(v)' <=> Tracing(v))) /\ Tracing(w)' /\ ~Tracing(w)
      BY <1>1, <1>4 DEF Tracing
    <2>2. \A v \in Workers : v # w /\ Tracing(v) => turn <= index[v] /\ index[v] < Received /\ index[v] \in Nat
      BY <1>2, Bounds DEF IInv, TracingInv
    <2>3. \A v \in Workers : Tracing(v)' => turn' <= index'[v] /\ index'[v] < Received'
      BY <1>1, <1>5, <1>8, <1>9, <1>10, <2>1, <2>2
    <2>4. \A v, u \in Workers : Tracing(v)' /\ Tracing(u)' /\ index'[v] = index'[u] => v = u
      BY <1>5, <1>8, <1>9, <2>1, <2>2 DEF IInv, TracingInv
    <2>5. ASSUME NEW k \in turn'..(Received' - 1)
          PROVE  \E v \in Workers : index'[v] = k /\ (Tracing(v)' \/ at'[v] = "panicked")
      <3>1. CASE k = Received
        BY <1>5, <1>9, <2>1, <3>1
      <3>2. CASE k # Received
        <4>1. k \in turn..(Received - 1)
          BY <1>1, <1>8, <1>10, <3>2
        <4>2. PICK v \in Workers : index[v] = k /\ (Tracing(v) \/ at[v] = "panicked")
          BY <4>1 DEF IInv, TracingInv
        <4>3. QED
          BY <1>1, <1>4, <1>5, <2>1, <4>2
      <3>3. QED
        BY <3>1, <3>2
    <2>6. QED
      BY <2>3, <2>4, <2>5 DEF TracingInv
  <1>13. LockInv'
    BY <1>1, <1>4, <1>5 DEF IInv, LockInv
  <1>14. NumbersInv' /\ OrderInv' /\ LastInv'
    BY <1>1, <1>4, QuietStep DEF IInv
  <1>15. QED
    BY <1>6, <1>7, <1>11, <1>12, <1>13, <1>14 DEF IInv

\* A worker moves on with its checkpoint, or at the end of the channel.
LEMMA MoveStep ==
    ASSUME IInv, NEW w \in Workers, WorkerEnds(w) \/ Trace(w) \/ TakeTurn(w)
    PROVE  IInv'
  <1>1. /\ UNCHANGED <<main, generator, channel, index, todo, turn, poisoned, answer>>
        /\ UNCHANGED <<shard, deferred, segment_index, published, files, proofs>>
    BY DEF WorkerEnds, Trace, TakeTurn, counters, disk
  <1>2. PICK pc \in WorkerPlace :
            /\ Goto(w, pc)
            /\ \/ at[w] = "recv" /\ pc = "done" /\ lock' = lock
                  /\ channel = <<>> /\ generator.at \in {"done", "failed"}
               \/ at[w] = "trace" /\ pc = "turn" /\ lock' = lock
               \/ at[w] = "turn" /\ pc = "number" /\ lock = NoWorker /\ lock' = w /\ turn = index[w]
    BY DEF WorkerEnds, Trace, TakeTurn, WorkerPlace
  <1>3. /\ TypeOK /\ at' \in [Workers -> WorkerPlace] /\ at'[w] = pc
        /\ \A v \in Workers : v # w => at'[v] = at[v]
    BY <1>2, Moves DEF IInv
  <1>4. TypeOK'
    BY <1>1, <1>2, <1>3 DEF TypeOK
  <1>5. MainInv'
    BY <1>1, <1>2, MainKept DEF IInv
  <1>6. /\ Sent' = Sent /\ Received' = Received
        /\ \A v \in Workers : (Tracing(v)' <=> Tracing(v)) /\ (at[v] = "panicked" => at'[v] = "panicked")
    BY <1>1, <1>2, <1>3 DEF Sent, Received, Tracing
  <1>7. ChannelInv'
    BY <1>1, <1>2, <1>3, <1>6 DEF IInv, ChannelInv
  <1>8. TracingInv'
    BY <1>1, <1>6 DEF IInv, TracingInv
  <1>9. LockInv'
    BY <1>1, <1>2, <1>3, ExecutorAssumption DEF IInv, LockInv
  <1>10. NumbersInv' /\ OrderInv' /\ LastInv'
    BY <1>1, <1>2, <1>3, QuietStep DEF IInv
  <1>11. QED
    BY <1>4, <1>5, <1>7, <1>8, <1>9, <1>10 DEF IInv

LEMMA PanicStep ==
    ASSUME IInv, NEW w \in Workers, MeetsPoison(w) \/ Panic(w)
    PROVE  IInv'
  <1>1. /\ UNCHANGED <<main, generator, channel, index, todo, turn, answer>>
        /\ UNCHANGED <<shard, deferred, segment_index, published, files, proofs>>
        /\ at[w] \in {"trace", "turn", "number", "write"} /\ Goto(w, "panicked")
    BY DEF MeetsPoison, Panic, counters, disk
  <1>2. /\ TypeOK /\ at' \in [Workers -> WorkerPlace] /\ at'[w] = "panicked"
        /\ \A v \in Workers : v # w => at'[v] = at[v]
    BY <1>1, Moves DEF IInv, WorkerPlace
  <1>3. lock' = IF lock = w THEN NoWorker ELSE lock
    BY ExecutorAssumption DEF MeetsPoison, Panic
  <1>4. poisoned' \in BOOLEAN /\ lock' \in Workers \cup {NoWorker}
    BY <1>2, <1>3 DEF MeetsPoison, Panic, TypeOK
  <1>5. TypeOK'
    BY <1>1, <1>2, <1>4 DEF TypeOK
  <1>6. MainInv'
    BY <1>1, MainKept DEF IInv
  <1>7. /\ Sent' = Sent /\ Received' = Received
        /\ \A v \in Workers : /\ Tracing(v)' => Tracing(v)
                              /\ Tracing(v) => Tracing(v)' \/ at'[v] = "panicked"
                              /\ at[v] = "panicked" => at'[v] = "panicked"
    BY <1>1, <1>2 DEF Sent, Received, Tracing
  <1>8. ChannelInv'
    BY <1>1, <1>2, <1>7 DEF IInv, ChannelInv
  <1>9. TracingInv'
    BY <1>1, <1>7 DEF IInv, TracingInv
  <1>10. LockInv'
    BY <1>1, <1>2, <1>3, ExecutorAssumption DEF IInv, LockInv
  <1>11. NumbersInv' /\ OrderInv' /\ LastInv'
    BY <1>1, <1>2, QuietStep DEF IInv
  <1>12. QED
    BY <1>5, <1>6, <1>8, <1>9, <1>10, <1>11 DEF IInv

LEMMA AdvanceStep ==
    ASSUME IInv, NEW w \in Workers, AdvanceTurn(w)
    PROVE  IInv'
  <1>1. /\ at[w] = "advance" /\ turn' = turn + 1 /\ Goto(w, "write")
        /\ UNCHANGED <<main, generator, channel, index, todo, lock, poisoned, answer>>
        /\ UNCHANGED <<shard, deferred, segment_index, published, files, proofs>>
    BY DEF AdvanceTurn, counters, disk
  <1>2. /\ TypeOK /\ at' \in [Workers -> WorkerPlace] /\ at'[w] = "write"
        /\ \A v \in Workers : v # w => at'[v] = at[v]
    BY <1>1, Moves DEF IInv, WorkerPlace
  <1>3. /\ lock = w /\ index[w] = turn
        /\ \A v \in Workers : v # w => at[v] \notin {"number", "advance", "write"}
    BY <1>1 DEF IInv, LockInv
  <1>4. /\ turn \in Nat /\ Received \in Int /\ turn < Received /\ turn < Checkpoints /\ Checkpoints \in Nat
        /\ \A v \in Workers : index[v] \in Nat
    BY <1>1, <1>2, <1>3, Bounds DEF IInv, TracingInv, Tracing
  <1>5. TypeOK'
    BY <1>1, <1>2, <1>4 DEF TypeOK
  <1>6. MainInv'
    BY <1>1, MainKept DEF IInv
  <1>7. Sent' = Sent /\ Received' = Received
    BY <1>1 DEF Sent, Received
  <1>8. ChannelInv'
    BY <1>1, <1>2, <1>4, <1>7 DEF IInv, ChannelInv
  <1>9. TracingInv'
    <2>1. /\ \A v \in Workers : v # w => (Tracing(v)' <=> Tracing(v)) /\ at'[v] = at[v]
          /\ ~Tracing(w)' /\ Tracing(w)
      BY <1>1, <1>2 DEF Tracing
    <2>2. \A v \in Workers : v # w /\ Tracing(v) => turn < index[v] /\ index[v] < Received
      BY <1>3, <1>4, <2>1 DEF IInv, TracingInv
    <2>3. \A k \in (turn + 1)..(Received - 1) :
              \E v \in Workers : index[v] = k /\ (Tracing(v)' \/ at'[v] = "panicked")
      <3> SUFFICES ASSUME NEW k \in (turn + 1)..(Received - 1)
                   PROVE  \E v \in Workers : index[v] = k /\ (Tracing(v)' \/ at'[v] = "panicked")
        OBVIOUS
      <3>1. k \in turn..(Received - 1) /\ k # turn
        BY <1>4
      <3>2. PICK v \in Workers : index[v] = k /\ (Tracing(v) \/ at[v] = "panicked")
        BY <3>1 DEF IInv, TracingInv
      <3>3. QED
        BY <1>3, <2>1, <3>1, <3>2
    <2>4. \A v \in Workers : Tracing(v)' => turn' <= index'[v] /\ index'[v] < Received'
      BY <1>1, <1>4, <1>7, <2>1, <2>2
    <2>5. \A v, u \in Workers : Tracing(v)' /\ Tracing(u)' /\ index'[v] = index'[u] => v = u
      BY <1>1, <2>1 DEF IInv, TracingInv
    <2>6. QED
      BY <1>1, <1>7, <2>3, <2>4, <2>5 DEF TracingInv
  <1>10. LockInv'
    BY <1>1, <1>2, <1>3 DEF IInv, LockInv
  <1>11. NumberedCount = turn + 1 /\ NumberedCount' = turn + 1
    BY <1>1, <1>2, <1>3 DEF NumberedCount
  <1>12. NumbersInv' /\ OrderInv'
    BY <1>1, <1>2, <1>11, FilesKept DEF IInv
  <1>13. LastInv'
    BY <1>1, <1>2, <1>11 DEF IInv, LastInv
  <1>14. QED
    BY <1>5, <1>6, <1>8, <1>9, <1>10, <1>12, <1>13 DEF IInv

LEMMA NextStep ==
    ASSUME IInv, NEW w \in Workers, NextCheckpoint(w)
    PROVE  IInv'
  <1>1. /\ at[w] = "write" /\ DOMAIN todo[w] = {} /\ lock' = NoWorker /\ Goto(w, "recv")
        /\ proofs' = IF Last(index[w]) THEN 0..(DeferredProofs - 1) ELSE proofs
        /\ UNCHANGED <<main, generator, channel, index, todo, turn, poisoned, answer>>
        /\ UNCHANGED <<shard, deferred, segment_index, published, files>>
    BY DEF NextCheckpoint, counters
  <1>2. /\ TypeOK /\ at' \in [Workers -> WorkerPlace] /\ at'[w] = "recv"
        /\ \A v \in Workers : v # w => at'[v] = at[v]
    BY <1>1, Moves DEF IInv, WorkerPlace
  <1>3. proofs' \subseteq Nat
    BY <1>1, <1>2, ExecutorAssumption DEF TypeOK
  <1>4. TypeOK'
    BY <1>1, <1>2, <1>3 DEF TypeOK
  <1>5. MainInv'
    BY <1>1, MainKept DEF IInv
  <1>6. /\ Sent' = Sent /\ Received' = Received
        /\ \A v \in Workers : (Tracing(v)' <=> Tracing(v)) /\ (at[v] = "panicked" => at'[v] = "panicked")
    BY <1>1, <1>2 DEF Sent, Received, Tracing
  <1>7. ChannelInv'
    BY <1>1, <1>2, <1>6 DEF IInv, ChannelInv
  <1>8. TracingInv'
    BY <1>1, <1>6 DEF IInv, TracingInv
  <1>9. LockInv'
    BY <1>1, <1>2, ExecutorAssumption DEF IInv, LockInv
  <1>10. NumberedCount' = NumberedCount
    BY <1>1, <1>2, CountKept
  <1>11. NumbersInv' /\ OrderInv'
    BY <1>1, <1>2, <1>10, FilesKept DEF IInv
  <1>12. LastInv'
    <2>1. index[w] + 1 = turn /\ index[w] \in Nat /\ Checkpoints \in Nat
      BY <1>1, <1>2, Bounds DEF IInv, LockInv
    <2>2. turn = Checkpoints => proofs' = 0..(DeferredProofs - 1)
      BY <1>1, <2>1 DEF Last
    <2>3. QED
      BY <1>1, <1>10, <2>2 DEF IInv, LastInv
  <1>13. QED
    BY <1>4, <1>5, <1>7, <1>8, <1>9, <1>11, <1>12 DEF IInv

LEMMA NumberedIs ==
    \A i, s : s \in Numbered(i) <=> \/ i \in DOMAIN files /\ s = files[i]
                                    \/ \E w \in Workers : i \in DOMAIN todo[w] /\ s = todo[w][i]
  BY DEF Numbered

LEMMA NumberedIsNext ==
    \A i, s : s \in Numbered(i)' <=> \/ i \in DOMAIN files' /\ s = files'[i]
                                     \/ \E w \in Workers : i \in DOMAIN todo'[w] /\ s = todo'[w][i]
  BY DEF Numbered

LEMMA WriteStep ==
    ASSUME IInv, NEW w \in Workers, NEW i \in DOMAIN todo[w], WriteSegment(w, i)
    PROVE  IInv'
  <1>1. /\ at[w] = "write"
        /\ files' = [j \in DOMAIN files \cup {i} |-> IF j = i THEN todo[w][i] ELSE files[j]]
        /\ todo' = [todo EXCEPT ![w] = [j \in DOMAIN todo[w] \ {i} |-> todo[w][j]]]
        /\ UNCHANGED <<main, generator, channel, at, index, turn, lock, poisoned, answer>>
        /\ UNCHANGED <<shard, deferred, segment_index, published, proofs>>
    BY DEF WriteSegment, counters
  <1>2. TypeOK /\ DOMAIN todo = Workers
    BY DEF IInv, TypeOK
  <1>3. /\ DOMAIN files' = DOMAIN files \cup {i} /\ files'[i] = todo[w][i]
        /\ \A j \in DOMAIN files : j # i => files'[j] = files[j]
    BY <1>1
  <1>4. /\ DOMAIN todo' = Workers /\ \A v \in Workers : v # w => todo'[v] = todo[v]
        /\ DOMAIN todo'[w] = DOMAIN todo[w] \ {i}
        /\ \A j \in DOMAIN todo[w] : j # i => todo'[w][j] = todo[w][j]
    BY <1>1, <1>2
  <1>5. \A v \in Workers : IsFileMap(todo[v]) /\ IsFileMap(files)
    BY <1>2 DEF TypeOK
  <1>6. IsFileMap(files') /\ \A v \in Workers : IsFileMap(todo'[v])
    BY <1>3, <1>4, <1>5 DEF IsFileMap
  <1>7. TypeOK'
    BY <1>1, <1>2, <1>4, <1>6 DEF TypeOK
  <1>8. MainInv'
    BY <1>1, MainKept DEF IInv
  <1>9. /\ Sent' = Sent /\ Received' = Received /\ NumberedCount' = NumberedCount
        /\ \A v \in Workers : Tracing(v)' <=> Tracing(v)
    BY <1>1 DEF Sent, Received, Tracing, NumberedCount
  <1>10. ChannelInv' /\ TracingInv' /\ LockInv'
    BY <1>1, <1>9 DEF IInv, ChannelInv, TracingInv, LockInv
  <1>11. /\ \A v \in Workers : DOMAIN todo[v] \cap DOMAIN files = {}
         /\ \A v \in Workers : v # w => DOMAIN todo[v] \cap DOMAIN todo[w] = {}
    BY DEF IInv, NumbersInv
  <1>12. NumbersInv'
    <2>1. \A j \in 0..(segment_index - 1) :
              j \in DOMAIN files' \/ \E v \in Workers : j \in DOMAIN todo'[v]
      BY <1>3, <1>4 DEF IInv, NumbersInv
    <2>2. /\ DOMAIN files' \subseteq 0..(segment_index - 1)
          /\ \A v \in Workers : DOMAIN todo'[v] \subseteq 0..(segment_index - 1)
      BY <1>3, <1>4 DEF IInv, NumbersInv
    <2>3. /\ \A v \in Workers : DOMAIN todo'[v] \cap DOMAIN files' = {}
          /\ \A v, u \in Workers : v # u => DOMAIN todo'[v] \cap DOMAIN todo'[u] = {}
      BY <1>3, <1>4, <1>11 DEF IInv, NumbersInv
    <2>4. QED
      BY <1>1, <1>4, <1>9, <2>1, <2>2, <2>3 DEF IInv, NumbersInv
  <1>13. \A j : Numbered(j)' = Numbered(j)
    <2> SUFFICES ASSUME NEW j, NEW s PROVE s \in Numbered(j)' <=> s \in Numbered(j)
      OBVIOUS
    <2>1. CASE j = i
      <3>1. s \in Numbered(i) <=> s = todo[w][i]
        BY <1>11, NumberedIs
      <3>2. s \in Numbered(i)' <=> s = todo[w][i]
        BY <1>3, <1>4, <1>11, NumberedIsNext
      <3>3. QED
        BY <2>1, <3>1, <3>2
    <2>2. CASE j # i
      <3>1. j \in DOMAIN files' <=> j \in DOMAIN files
        BY <1>3, <2>2
      <3>2. j \in DOMAIN files => files'[j] = files[j]
        BY <1>3, <2>2
      <3>3. \A v \in Workers : /\ j \in DOMAIN todo'[v] <=> j \in DOMAIN todo[v]
                               /\ j \in DOMAIN todo[v] => todo'[v][j] = todo[v][j]
        BY <1>4, <2>2
      <3>4. QED
        BY <3>1, <3>2, <3>3, NumberedIs, NumberedIsNext
    <2>3. QED
      BY <2>1, <2>2
  <1>14. SegmentsInOrder'
    BY <1>1, <1>13 DEF IInv, OrderInv, SegmentsInOrder
  <1>15. OrderInv' /\ LastInv'
    BY <1>1, <1>9, <1>13, <1>14 DEF IInv, OrderInv, LastInv
  <1>16. QED
    BY <1>7, <1>8, <1>10, <1>12, <1>15 DEF IInv

\* The events that wait when checkpoint k is numbered, in order.
LEMMA WaitingInOrder ==
    ASSUME NEW k \in Indices, NEW d \in Seq(Indices), NEW own \in {<<>>, <<k>>},
           \A b \in DOMAIN d : d[b] < k,
           \A a, b \in DOMAIN d : a < b => d[a] < d[b]
    PROVE  LET waiting == d \o own IN
           /\ waiting \in Seq(Indices) /\ Len(waiting) \in Nat
           /\ \A a \in 1..Len(waiting) : (a \in DOMAIN d /\ waiting[a] = d[a]) \/ waiting[a] = k
           /\ \A a \in 1..Len(waiting) : waiting[a] <= k /\ waiting[a] \in Nat
           /\ \A a, b \in 1..Len(waiting) : a < b => waiting[a] < waiting[b]
  <1> DEFINE waiting == d \o own
  <1>1. own \in Seq(Indices) /\ Len(own) \in Nat /\ Len(own) <= 1 /\ (Len(own) = 1 => own[1] = k)
    <2>1. CASE own = <<>>
      BY <2>1
    <2>2. CASE own = <<k>>
      BY <2>2
    <2>3. QED
      BY <2>1, <2>2
  <1>2. k \in Nat /\ Len(d) \in Nat /\ DOMAIN d = 1..Len(d) /\ \A a \in 1..Len(d) : d[a] \in Nat
    BY ExecutorAssumption DEF Indices
  <1> HIDE DEF Indices
  <1>3. /\ waiting \in Seq(Indices) /\ Len(waiting) = Len(d) + Len(own)
        /\ \A a \in 1..Len(waiting) : waiting[a] = IF a <= Len(d) THEN d[a] ELSE own[a - Len(d)]
    BY <1>1, <1>2, ConcatProperties
  <1> HIDE DEF waiting
  <1>4. \A a \in 1..Len(waiting) : (a \in DOMAIN d /\ waiting[a] = d[a]) \/ (a = Len(d) + 1 /\ waiting[a] = k)
    <2> SUFFICES ASSUME NEW a \in 1..Len(waiting)
                 PROVE  (a \in DOMAIN d /\ waiting[a] = d[a]) \/ (a = Len(d) + 1 /\ waiting[a] = k)
      OBVIOUS
    <2>1. CASE a <= Len(d)
      BY <1>2, <1>3, <2>1
    <2>2. CASE ~(a <= Len(d))
      <3>1. Len(own) = 1 /\ a = Len(d) + 1
        BY <1>1, <1>2, <1>3, <2>2
      <3>2. QED
        BY <1>1, <1>2, <1>3, <2>2, <3>1
    <2>3. QED
      BY <2>1, <2>2
  <1>5. \A a \in 1..Len(waiting) : waiting[a] <= k /\ waiting[a] \in Nat
    BY <1>2, <1>4
  <1>6. Len(waiting) \in Nat /\ Len(waiting) <= Len(d) + 1
    <2>1. Len(own) \in Nat /\ Len(own) <= 1 /\ Len(d) \in Nat
      BY <1>1, <1>2
    <2>2. Len(waiting) = Len(d) + Len(own)
      BY <1>3
    <2>3. QED
      BY <2>1, <2>2
  <1>7. \A a, b \in 1..Len(waiting) : a < b => waiting[a] < waiting[b]
    <2> SUFFICES ASSUME NEW a \in 1..Len(waiting), NEW b \in 1..Len(waiting), a < b
                 PROVE  waiting[a] < waiting[b]
      OBVIOUS
    <2>1. a # Len(d) + 1
      BY <1>2, <1>6
    <2>2. a \in DOMAIN d /\ waiting[a] = d[a]
      BY <1>4, <2>1
    <2>3. CASE b \in DOMAIN d /\ waiting[b] = d[b]
      BY <2>2, <2>3
    <2>4. CASE waiting[b] = k
      BY <2>2, <2>4
    <2>5. QED
      BY <1>4, <2>3, <2>4
  <1>8. QED
    BY <1>3, <1>4, <1>5, <1>6, <1>7 DEF waiting

LEMMA Cut ==
    ASSUME NEW S, NEW waiting \in Seq(S), NEW m \in 0..Len(waiting)
    PROVE  LET first == SubSeq(waiting, 1, m)
               rest == SubSeq(waiting, m + 1, Len(waiting)) IN
           /\ first \in Seq(S) /\ DOMAIN first = 1..m
           /\ \A a \in 1..m : first[a] = waiting[a] /\ a \in 1..Len(waiting)
           /\ rest \in Seq(S) /\ DOMAIN rest = 1..(Len(waiting) - m)
           /\ \A b \in 1..(Len(waiting) - m) : rest[b] = waiting[m + b] /\ m + b \in 1..Len(waiting)
           /\ m = Len(waiting) => rest = <<>>
  <1>1. Len(waiting) \in Nat /\ m \in Nat
    OBVIOUS
  <1>2. /\ SubSeq(waiting, 1, m) \in Seq(S) /\ Len(SubSeq(waiting, 1, m)) = m
        /\ \A a \in 1..m : SubSeq(waiting, 1, m)[a] = waiting[a] /\ a \in 1..Len(waiting)
    BY <1>1
  <1>3. /\ SubSeq(waiting, m + 1, Len(waiting)) \in Seq(S)
        /\ Len(SubSeq(waiting, m + 1, Len(waiting))) = Len(waiting) - m
        /\ \A b \in 1..(Len(waiting) - m) : /\ SubSeq(waiting, m + 1, Len(waiting))[b] = waiting[m + b]
                                            /\ m + b \in 1..Len(waiting)
    BY <1>1
  <1>4. m = Len(waiting) => SubSeq(waiting, m + 1, Len(waiting)) = <<>>
    BY <1>1
  <1>5. QED
    BY <1>1, <1>2, <1>3, <1>4

LEMMA NumberedType ==
    ASSUME TypeOK, NEW i, NEW s \in Numbered(i)
    PROVE  s.checkpoint \in Nat /\ s.shard \in Nat /\ \A a \in DOMAIN s.events : s.events[a] \in Nat
  <1>1. s \in Segments
    BY NumberedIs DEF TypeOK, IsFileMap
  <1>2. s.events \in Seq(Indices) /\ s.checkpoint \in Indices /\ s.shard \in Nat
    BY <1>1 DEF Segments
  <1>3. DOMAIN s.events = 1..Len(s.events) /\ \A a \in 1..Len(s.events) : s.events[a] \in Indices
    BY <1>2
  <1>4. QED
    BY <1>2, <1>3 DEF Indices

LEMMA NumberStep ==
    ASSUME IInv, NEW w \in Workers, Number(w)
    PROVE  IInv'
  <1> DEFINE si == segment_index
             k == index[w]
  <1>1. /\ at[w] = "number" /\ Goto(w, "advance")
        /\ UNCHANGED <<main, generator, channel, index, turn, lock, poisoned, files, proofs, answer>>
    BY DEF Number
  <1>2. k = index[w] /\ k \in Indices
    BY DEF IInv, TypeOK
  <1>3. PICK own \in {<<>>, <<k>>}, r \in 0..MaxRecords :
          \E m \in 0..Len(deferred \o own) :
             /\ Last(k) => m = Len(deferred \o own)
             /\ deferred' = SubSeq(deferred \o own, m + 1, Len(deferred \o own))
             /\ shard' = shard + 1 + r
             /\ segment_index' = si + 1 + r
             /\ published' = segment_index'
             /\ todo' = [todo EXCEPT ![w] =
                   [i \in si..(si + r) |->
                       Segment(k, shard + 1 + (i - si),
                               IF i = si + 1 THEN SubSeq(deferred \o own, 1, m) ELSE <<>>)]]
    BY DEF Number, SegmentsTxt
  <1> HIDE DEF k
  <1> DEFINE waiting == deferred \o own
  <1>4. PICK m \in 0..Len(waiting) :
             /\ Last(k) => m = Len(waiting)
             /\ deferred' = SubSeq(waiting, m + 1, Len(waiting))
             /\ shard' = shard + 1 + r
             /\ segment_index' = si + 1 + r
             /\ published' = segment_index'
             /\ todo' = [todo EXCEPT ![w] =
                   [i \in si..(si + r) |->
                       Segment(k, shard + 1 + (i - si),
                               IF i = si + 1 THEN SubSeq(waiting, 1, m) ELSE <<>>)]]
    BY <1>3
  <1>5. /\ TypeOK /\ at' \in [Workers -> WorkerPlace] /\ at'[w] = "advance"
        /\ \A v \in Workers : v # w => at'[v] = at[v]
    BY <1>1, Moves DEF IInv, WorkerPlace
  <1>6. /\ lock = w /\ turn = k
        /\ \A v \in Workers : v # w => at[v] \notin {"number", "advance", "write"}
    BY <1>1, <1>2 DEF IInv, LockInv
  <1>7. /\ si \in Nat /\ shard = si /\ r \in Nat /\ k \in Nat /\ k < Checkpoints /\ Checkpoints \in Nat
        /\ DOMAIN todo[w] = {} /\ DOMAIN todo = Workers
    <2>1. si \in Nat /\ DOMAIN todo = Workers
      BY <1>5 DEF TypeOK
    <2>2. shard = si /\ DOMAIN todo[w] = {}
      BY <1>1 DEF IInv, NumbersInv
    <2>3. r \in Nat /\ k \in Nat /\ k < Checkpoints /\ Checkpoints \in Nat
      BY <1>2, ExecutorAssumption DEF Indices
    <2>4. QED
      BY <2>1, <2>2, <2>3
  <1>8. NumberedCount = k /\ NumberedCount' = k + 1
    BY <1>1, <1>5, <1>6 DEF NumberedCount
  <1>9. /\ waiting \in Seq(Indices) /\ Len(waiting) \in Nat
        /\ \A a \in 1..Len(waiting) : (a \in DOMAIN deferred /\ waiting[a] = deferred[a]) \/ waiting[a] = k
        /\ \A a \in 1..Len(waiting) : waiting[a] <= k /\ waiting[a] \in Nat
        /\ \A a, b \in 1..Len(waiting) : a < b => waiting[a] < waiting[b]
    <2>1. /\ deferred \in Seq(Indices)
          /\ \A b \in DOMAIN deferred : deferred[b] < k
          /\ \A a, b \in DOMAIN deferred : a < b => deferred[a] < deferred[b]
      BY <1>5, <1>8 DEF IInv, OrderInv, TypeOK
    <2>2. QED
      BY ONLY <1>2, <2>1, own \in {<<>>, <<k>>}, WaitingInOrder, Zenon
  <1> DEFINE first == SubSeq(waiting, 1, m)
             new(i) == Segment(k, shard + 1 + (i - si), IF i = si + 1 THEN first ELSE <<>>)
  <1>10. /\ deferred' \in Seq(Indices) /\ DOMAIN deferred' = 1..(Len(waiting) - m)
         /\ \A b \in 1..(Len(waiting) - m) : deferred'[b] = waiting[m + b] /\ m + b \in 1..Len(waiting)
         /\ m = Len(waiting) => deferred' = <<>>
    BY <1>4, <1>9, Cut
  <1>11. /\ first \in Seq(Indices) /\ DOMAIN first = 1..m
         /\ \A a \in 1..m : first[a] = waiting[a] /\ a \in 1..Len(waiting)
    BY <1>9, Cut
  <1> HIDE DEF waiting, first
  <1>12. \A i \in si..(si + r) :
            /\ new(i) \in Segments /\ new(i).checkpoint = k /\ new(i).shard = i + 1
            /\ new(i).events = IF i = si + 1 THEN first ELSE <<>>
    <2> SUFFICES ASSUME NEW i \in si..(si + r)
                 PROVE  /\ new(i) \in Segments /\ new(i).checkpoint = k /\ new(i).shard = i + 1
                        /\ new(i).events = IF i = si + 1 THEN first ELSE <<>>
      OBVIOUS
    <2> DEFINE n == shard + 1 + (i - si)
               evs == IF i = si + 1 THEN first ELSE <<>>
    <2>1. <<>> \in Seq(Indices)
      OBVIOUS
    <2>2. n = i + 1 /\ n \in Nat
      BY <1>7
    <2>3. evs \in Seq(Indices)
      BY <1>11, <2>1
    <2>4. new(i) = [checkpoint |-> k, shard |-> n, events |-> evs]
      BY DEF Segment
    <2> HIDE DEF n, evs, new
    <2>5. new(i) \in Segments /\ new(i).checkpoint = k /\ new(i).shard = n /\ new(i).events = evs
      BY <1>2, <2>2, <2>3, <2>4 DEF Segments
    <2>6. QED
      BY <2>2, <2>5 DEF evs
  <1> HIDE DEF new
  <1>13. /\ DOMAIN todo' = Workers /\ \A v \in Workers : v # w => todo'[v] = todo[v]
         /\ DOMAIN todo'[w] = si..(si + r) /\ \A i \in si..(si + r) : todo'[w][i] = new(i)
    BY <1>4, <1>7 DEF new, first
  <1>14. TypeOK'
    <2>1. \A v \in Workers : IsFileMap(todo'[v])
      <3>1. \A v \in Workers : IsFileMap(todo[v])
        BY <1>5 DEF TypeOK
      <3>2. si..(si + r) \subseteq Nat
        BY <1>7
      <3>3. IsFileMap(todo'[w])
        BY <1>12, <1>13, <3>2 DEF IsFileMap
      <3>4. QED
        BY <1>13, <3>1, <3>3
    <2>2. shard' \in Nat /\ segment_index' \in Nat /\ published' \in Nat
      BY <1>4, <1>7
    <2>3. QED
      BY <1>1, <1>5, <1>10, <1>13, <2>1, <2>2 DEF TypeOK
  <1>15. MainInv'
    BY <1>1, MainKept DEF IInv
  <1>16. /\ Sent' = Sent /\ Received' = Received
         /\ \A v \in Workers : (Tracing(v)' <=> Tracing(v)) /\ (at[v] = "panicked" => at'[v] = "panicked")
    BY <1>1, <1>5 DEF Sent, Received, Tracing
  <1>17. ChannelInv'
    BY <1>1, <1>5, <1>16 DEF IInv, ChannelInv
  <1>18. TracingInv'
    BY <1>1, <1>16 DEF IInv, TracingInv
  <1>19. LockInv'
    BY <1>1, <1>2, <1>5, <1>6 DEF IInv, LockInv
  <1>20. NumbersInv'
    <2>1. segment_index' = si + 1 + r /\ si \in Nat /\ r \in Nat
      BY <1>4, <1>7
    <2>2. shard' = segment_index' /\ published' = segment_index' /\ NumberedCount' <= segment_index'
      BY <1>4, <1>7, <1>8 DEF IInv, NumbersInv
    <2>3. \A i \in 0..(segment_index' - 1) :
              i \in DOMAIN files' \/ \E v \in Workers : i \in DOMAIN todo'[v]
      <3> SUFFICES ASSUME NEW i \in 0..(segment_index' - 1)
                   PROVE  i \in DOMAIN files \/ \E v \in Workers : i \in DOMAIN todo'[v]
        BY <1>1
      <3>1. CASE i \in si..(si + r)
        BY <1>13, <3>1
      <3>2. CASE i \in 0..(si - 1)
        BY <1>7, <1>13, <3>2 DEF IInv, NumbersInv
      <3>3. QED
        BY <2>1, <3>1, <3>2
    <2>4. /\ \A v \in Workers : v # w => DOMAIN todo'[v] \subseteq 0..(si - 1)
          /\ DOMAIN files' \subseteq 0..(si - 1)
      BY <1>1, <1>13 DEF IInv, NumbersInv
    <2>5. /\ 0..(si - 1) \subseteq 0..(segment_index' - 1) /\ si..(si + r) \subseteq 0..(segment_index' - 1)
          /\ 0..(si - 1) \cap si..(si + r) = {}
      BY <2>1
    <2>6. /\ DOMAIN files' \subseteq 0..(segment_index' - 1)
          /\ \A v \in Workers : DOMAIN todo'[v] \subseteq 0..(segment_index' - 1)
      BY <1>13, <2>4, <2>5
    <2>7. \A v \in Workers : DOMAIN todo'[v] \cap DOMAIN files' = {}
      BY <1>1, <1>13, <2>4, <2>5 DEF IInv, NumbersInv
    <2>8. \A v, u \in Workers : v # u => DOMAIN todo'[v] \cap DOMAIN todo'[u] = {}
      <3>1. \A v, u \in Workers : v # u => DOMAIN todo[v] \cap DOMAIN todo[u] = {}
        BY DEF IInv, NumbersInv
      <3>2. \A v \in Workers : v # w => DOMAIN todo'[v] \cap DOMAIN todo'[w] = {}
        BY <1>13, <2>4, <2>5
      <3>3. QED
        BY <1>13, <3>1, <3>2
    <2>9. \A v \in Workers : at'[v] \notin {"advance", "write", "panicked"} => DOMAIN todo'[v] = {}
      BY <1>5, <1>13 DEF IInv, NumbersInv
    <2>10. QED
      BY <2>2, <2>3, <2>6, <2>7, <2>8, <2>9 DEF NumbersInv
  <1>21. ASSUME NEW i \in 0..(segment_index' - 1), NEW s \in Numbered(i)'
         PROVE  (i \in 0..(si - 1) /\ s \in Numbered(i)) \/ (i \in si..(si + r) /\ s = new(i))
    <2>1. CASE i \in DOMAIN files' /\ s = files'[i]
      BY <1>1, <2>1, NumberedIs DEF IInv, NumbersInv
    <2>2. ASSUME NEW v \in Workers, i \in DOMAIN todo'[v], s = todo'[v][i]
          PROVE  (i \in 0..(si - 1) /\ s \in Numbered(i)) \/ (i \in si..(si + r) /\ s = new(i))
      <3>1. CASE v = w
        BY <1>13, <2>2, <3>1
      <3>2. CASE v # w
        BY <1>13, <2>2, <3>2, NumberedIs DEF IInv, NumbersInv
      <3>3. QED
        BY <3>1, <3>2
    <2>3. QED
      BY <1>21, <2>1, <2>2, NumberedIsNext
  <1>22. ASSUME NEW i \in 0..(si - 1), NEW s \in Numbered(i)
         PROVE  /\ s.checkpoint < k /\ s.checkpoint \in Nat /\ s.shard = i + 1
                /\ \A a \in DOMAIN s.events : /\ s.events[a] \in Nat /\ s.events[a] < k
                                              /\ \A b \in 1..Len(waiting) : s.events[a] < waiting[b]
    <2>1. s.checkpoint \in Nat /\ \A a \in DOMAIN s.events : s.events[a] \in Nat
      BY <1>5, NumberedType
    <2>2. s.checkpoint < k /\ \A a \in DOMAIN s.events : s.events[a] < k
      BY <1>8 DEF IInv, OrderInv
    <2>3. \A a \in DOMAIN s.events : \A b \in DOMAIN deferred : s.events[a] < deferred[b]
      BY DEF IInv, OrderInv
    <2>4. s.shard = i + 1
      BY DEF IInv, OrderInv, SegmentsInOrder
    <2>5. QED
      BY <1>9, <2>1, <2>2, <2>3, <2>4
  <1>23. ASSUME NEW i \in si..(si + r)
         PROVE  /\ \A a \in DOMAIN new(i).events : /\ i = si + 1 /\ a \in 1..m
                                                   /\ new(i).events[a] = waiting[a]
                                                   /\ a \in 1..Len(waiting)
    <2>1. CASE i = si + 1
      BY <1>11, <1>12, <2>1
    <2>2. CASE i # si + 1
      <3>1. new(i).events = <<>>
        BY <1>12, <2>2
      <3>2. QED
        BY <3>1
    <2>3. QED
      BY <2>1, <2>2
  <1>24. SegmentsInOrder'
    <2> SUFFICES ASSUME NEW i \in 0..(segment_index' - 1), NEW j \in 0..(segment_index' - 1),
                        NEW s \in Numbered(i)', NEW t \in Numbered(j)'
                 PROVE  /\ s.shard = i + 1
                        /\ i < j => /\ s.checkpoint <= t.checkpoint
                                    /\ \A a \in DOMAIN s.events, b \in DOMAIN t.events :
                                          s.events[a] < t.events[b]
                        /\ i = j => s = t
      BY DEF SegmentsInOrder
    <2>1. CASE i \in 0..(si - 1) /\ s \in Numbered(i) /\ j \in 0..(si - 1) /\ t \in Numbered(j)
      BY <2>1 DEF IInv, OrderInv, SegmentsInOrder
    <2>2. CASE i \in 0..(si - 1) /\ s \in Numbered(i) /\ j \in si..(si + r) /\ t = new(j)
      <3>1. i < j /\ s.shard = i + 1
        BY <1>7, <1>22, <2>2
      <3>2. s.checkpoint <= t.checkpoint
        BY <1>7, <1>12, <1>22, <2>2
      <3>3. \A a \in DOMAIN s.events, b \in DOMAIN t.events : s.events[a] < t.events[b]
        BY <1>22, <1>23, <2>2
      <3>4. QED
        BY <1>7, <3>1, <3>2, <3>3
    <2>3. CASE i \in si..(si + r) /\ s = new(i) /\ j \in 0..(si - 1) /\ t \in Numbered(j)
      BY <1>7, <1>12, <2>3
    <2>4. CASE i \in si..(si + r) /\ s = new(i) /\ j \in si..(si + r) /\ t = new(j)
      <3>1. s.shard = i + 1 /\ s.checkpoint = k /\ t.checkpoint = k /\ (i = j => s = t)
        BY <1>12, <2>4
      <3>2. \A a \in DOMAIN s.events, b \in DOMAIN t.events : i = j
        BY <1>23, <2>4
      <3>3. QED
        BY <1>7, <3>1, <3>2
    <2>5. QED
      BY <1>21, <2>1, <2>2, <2>3, <2>4
  <1>25. OrderInv'
    <2>1. ASSUME NEW i \in 0..(segment_index' - 1), NEW s \in Numbered(i)'
          PROVE  /\ s.checkpoint < k + 1
                 /\ \A a \in DOMAIN s.events : \A b \in DOMAIN deferred' : s.events[a] < deferred'[b]
                 /\ \A a \in DOMAIN s.events : s.events[a] < k + 1
      <3>1. CASE i \in 0..(si - 1) /\ s \in Numbered(i)
        <4>1. /\ s.checkpoint < k /\ s.checkpoint \in Nat
              /\ \A a \in DOMAIN s.events : /\ s.events[a] \in Nat /\ s.events[a] < k
                                            /\ \A b \in 1..Len(waiting) : s.events[a] < waiting[b]
          BY <1>22, <3>1
        <4>2. \A b \in DOMAIN deferred' : deferred'[b] = waiting[m + b] /\ m + b \in 1..Len(waiting)
          BY <1>10
        <4>3. \A a \in DOMAIN s.events : \A b \in DOMAIN deferred' : s.events[a] < deferred'[b]
          BY <4>1, <4>2
        <4>4. s.checkpoint < k + 1 /\ \A a \in DOMAIN s.events : s.events[a] < k + 1
          BY <1>7, <4>1
        <4>5. QED
          BY <4>3, <4>4
      <3>2. CASE i \in si..(si + r) /\ s = new(i)
        <4>1. s.checkpoint < k + 1
          BY <1>7, <1>12, <3>2
        <4>2. \A a \in DOMAIN s.events : s.events[a] = waiting[a] /\ a \in 1..Len(waiting) /\ a \in 1..m
          BY <1>23, <3>2
        <4>3. \A a \in DOMAIN s.events : \A b \in DOMAIN deferred' : s.events[a] < deferred'[b]
          <5> SUFFICES ASSUME NEW a \in DOMAIN s.events, NEW b \in DOMAIN deferred'
                       PROVE  s.events[a] < deferred'[b]
            OBVIOUS
          <5>1. deferred'[b] = waiting[m + b] /\ m + b \in 1..Len(waiting) /\ b \in 1..(Len(waiting) - m)
            BY <1>10
          <5>2. a < m + b
            BY <1>9, <4>2, <5>1
          <5>3. QED
            BY <1>9, <4>2, <5>1, <5>2
        <4>4. QED
          BY <1>7, <1>9, <4>1, <4>2, <4>3
      <3>3. QED
        BY <1>21, <2>1, <3>1, <3>2
    <2>2. \A b \in DOMAIN deferred' : deferred'[b] < k + 1
      <3> SUFFICES ASSUME NEW b \in DOMAIN deferred' PROVE deferred'[b] < k + 1
        OBVIOUS
      <3>1. deferred'[b] = waiting[m + b] /\ m + b \in 1..Len(waiting)
        BY <1>10
      <3>2. QED
        BY <1>7, <1>9, <3>1
    <2>3. \A a, b \in DOMAIN deferred' : a < b => deferred'[a] < deferred'[b]
      <3> SUFFICES ASSUME NEW a \in DOMAIN deferred', NEW b \in DOMAIN deferred', a < b
                   PROVE  deferred'[a] < deferred'[b]
        OBVIOUS
      <3>1. /\ deferred'[a] = waiting[m + a] /\ m + a \in 1..Len(waiting)
            /\ deferred'[b] = waiting[m + b] /\ m + b \in 1..Len(waiting)
            /\ a \in Int /\ b \in Int
        BY <1>10
      <3>2. m + a < m + b
        BY <3>1, <1>9
      <3>3. QED
        BY <1>9, <3>1, <3>2
    <2>4. QED
      BY <1>8, <1>24, <2>1, <2>2, <2>3 DEF OrderInv
  <1>26. LastInv'
    <2>1. k + 1 = Checkpoints => deferred' = <<>>
      BY <1>4, <1>7, <1>10 DEF Last
    <2>2. turn' # Checkpoints
      BY <1>1, <1>6, <1>7
    <2>3. QED
      BY <1>8, <2>1, <2>2 DEF LastInv
  <1>27. QED
    BY <1>14, <1>15, <1>17, <1>18, <1>19, <1>20, <1>25, <1>26 DEF IInv

----------------------------------------------------------------------------
(* The invariant holds initially and is kept by every step.                *)

LEMMA InitInv == Init => IInv
  <1> SUFFICES ASSUME Init PROVE IInv
    OBVIOUS
  <1>1. Checkpoints \in Nat \ {0} /\ 0 \in Indices /\ ChannelCapacity \in Nat
    BY ExecutorAssumption DEF Indices
  <1>2. /\ generator.at = "none" /\ generator.index = 0 /\ channel = <<>> /\ turn = 0 /\ lock = NoWorker
        /\ main = "load" /\ answer = "none" /\ segment_index = 0 /\ deferred = <<>> /\ shard = 0
        /\ published = 0 /\ proofs = {}
    BY DEF Init
  <1>3. \A w \in Workers : at[w] = "none" /\ index[w] = 0 /\ DOMAIN todo[w] = {}
    BY DEF Init, NoFiles
  <1>4. DOMAIN files = {} /\ DOMAIN todo = Workers
    BY DEF Init, NoFiles
  <1>5. IsFileMap(files) /\ \A w \in Workers : IsFileMap(todo[w])
    BY <1>3, <1>4 DEF IsFileMap
  <1>6. channel \in Seq(Indices) /\ Len(channel) = 0 /\ deferred \in Seq(Indices) /\ DOMAIN deferred = {} /\ DOMAIN channel = {}
    BY <1>2
  <1>7. generator \in GeneratorState /\ at \in [Workers -> WorkerPlace] /\ index \in [Workers -> Indices]
    BY <1>1 DEF Init, GeneratorState, WorkerPlace
  <1>8. TypeOK
    <2>1. turn \in 0..Checkpoints /\ Len(channel) <= ChannelCapacity
      BY <1>1, <1>2, <1>6
    <2>2. poisoned \in BOOLEAN
      BY DEF Init
    <2>3. QED
      BY <1>2, <1>4, <1>5, <1>6, <1>7, <2>1, <2>2 DEF TypeOK
  <1>9. MainInv
    BY <1>2, <1>3 DEF MainInv
  <1>10. Sent = 0 /\ Received = 0 /\ NumberedCount = 0
    <2>1. Sent = 0
      BY <1>2 DEF Sent
    <2>2. Received = 0
      BY <1>6, <2>1 DEF Received
    <2>3. NumberedCount = 0
      BY <1>2, <1>3 DEF NumberedCount
    <2>4. QED
      BY <2>1, <2>2, <2>3
  <1>11. ChannelInv /\ LockInv
    BY <1>2, <1>3, <1>6, <1>10, ExecutorAssumption DEF ChannelInv, LockInv
  <1>12. TracingInv
    BY <1>2, <1>3, <1>10 DEF TracingInv, Tracing
  <1>13. NumbersInv
    BY <1>2, <1>3, <1>4, <1>10 DEF NumbersInv
  <1>14. OrderInv
    BY <1>2, <1>6 DEF OrderInv, SegmentsInOrder
  <1>15. LastInv
    BY <1>1, <1>2, <1>10 DEF LastInv
  <1>16. QED
    BY <1>8, <1>9, <1>11, <1>12, <1>13, <1>14, <1>15 DEF IInv

LEMMA StutterStep ==
    ASSUME IInv, UNCHANGED vars
    PROVE  IInv'
  <1>1. /\ UNCHANGED <<main, generator, channel, at, index, todo, turn, lock, poisoned, answer>>
        /\ UNCHANGED <<shard, deferred, segment_index, published, files, proofs>>
    BY DEF vars, counters, disk
  <1>2. Sent' = Sent /\ Received' = Received /\ \A w \in Workers : Tracing(w)' <=> Tracing(w)
    BY <1>1 DEF Sent, Received, Tracing
  <1>3. TypeOK' /\ MainInv'
    BY <1>1 DEF IInv, TypeOK, MainInv
  <1>4. ChannelInv' /\ TracingInv' /\ LockInv'
    BY <1>1, <1>2 DEF IInv, ChannelInv, TracingInv, LockInv
  <1>5. NumbersInv' /\ OrderInv' /\ LastInv'
    BY <1>1, QuietStep DEF IInv
  <1>6. QED
    BY <1>3, <1>4, <1>5 DEF IInv

LEMMA StepInv == IInv /\ [Next]_vars => IInv'
  <1> SUFFICES ASSUME IInv, [Next]_vars PROVE IInv'
    OBVIOUS
  <1>1. CASE Main
    BY <1>1, MainStep, StartStep DEF Main
  <1>2. CASE Generator
    BY <1>2, ExecuteStep, SendStep DEF Generator
  <1>3. ASSUME NEW w \in Workers, Worker(w)
        PROVE  IInv'
    <2>1. CASE Recv(w)
      BY <2>1, RecvStep
    <2>2. CASE WorkerEnds(w) \/ Trace(w) \/ TakeTurn(w)
      BY <2>2, MoveStep
    <2>3. CASE MeetsPoison(w)
      BY <2>3, PanicStep
    <2>4. CASE Number(w)
      BY <2>4, NumberStep
    <2>5. CASE AdvanceTurn(w)
      BY <2>5, AdvanceStep
    <2>6. ASSUME NEW i \in DOMAIN todo[w], WriteSegment(w, i)
          PROVE  IInv'
      BY <2>6, WriteStep
    <2>7. CASE NextCheckpoint(w)
      BY <2>7, NextStep
    <2>8. QED
      BY <1>3, <2>1, <2>2, <2>3, <2>4, <2>5, <2>6, <2>7 DEF Worker
  <1>4. ASSUME NEW w \in Workers, Panic(w)
        PROVE  IInv'
    BY <1>4, PanicStep
  <1>5. CASE UNCHANGED vars
    BY <1>5, StutterStep
  <1>6. QED
    BY <1>1, <1>2, <1>3, <1>4, <1>5 DEF Next

LEMMA Invariance == Spec => []IInv
  BY InitInv, StepInv, PTL DEF Spec

----------------------------------------------------------------------------
(* What the invariant says of the files and of the answer.                 *)

\* Every step of the generator, of the workers and of split keeps the types.
THEOREM TypeCorrect == Spec => []TypeOK
  <1>1. IInv => TypeOK
    BY DEF IInv
  <1>2. QED
    BY <1>1, Invariance, PTL

\* Whatever the number of workers and however they are scheduled, the numbers of
\* the segment files follow the execution, and the deferred events are committed
\* in order and once: the turn hands the counters from checkpoint to checkpoint.
THEOREM NumbersFollowExecution == Spec => []SegmentsInOrder
  <1>1. IInv => SegmentsInOrder
    BY DEF IInv, OrderInv
  <1>2. QED
    BY <1>1, Invariance, PTL

\* Once split_elf can answer Ok, all of the execution has been numbered and every
\* segment has its file.
LEMMA AllWritten ==
    ASSUME IInv, generator.at = "done", \A w \in Workers : at[w] = "done"
    PROVE  /\ turn = Checkpoints /\ NumberedCount = Checkpoints
           /\ deferred = <<>> /\ published = segment_index /\ published > 0
           /\ DOMAIN files = 0..(segment_index - 1)
           /\ proofs = 0..(DeferredProofs - 1)
  <1>1. Checkpoints \in Nat \ {0} /\ turn \in Nat /\ turn <= Checkpoints /\ segment_index \in Nat
    BY Bounds DEF IInv
  <1>2. channel = <<>>
    BY ExecutorAssumption DEF IInv, ChannelInv
  <1>3. Received = Checkpoints
    <2>1. Len(channel) = 0
      BY <1>2
    <2>2. QED
      BY <1>1, <2>1 DEF Sent, Received
  <1>4. turn = Checkpoints
    <2>1. \A w \in Workers : ~Tracing(w) /\ at[w] # "panicked"
      BY DEF Tracing
    <2>2. \A k \in turn..(Checkpoints - 1) : FALSE
      BY <1>3, <2>1 DEF IInv, TracingInv
    <2>3. QED
      BY <1>1, <2>2
  <1>5. NumberedCount = Checkpoints
    BY <1>4 DEF NumberedCount
  <1>6. deferred = <<>> /\ proofs = 0..(DeferredProofs - 1)
    BY <1>4, <1>5 DEF IInv, LastInv
  <1>7. published = segment_index /\ published > 0
    BY <1>1, <1>5 DEF IInv, NumbersInv
  <1>8. DOMAIN files = 0..(segment_index - 1)
    BY DEF IInv, NumbersInv
  <1>9. QED
    BY <1>4, <1>5, <1>6, <1>7, <1>8

\* An Ok answer is complete: the turn went through every checkpoint, so that the
\* workers that met the end of the channel left none of them behind.
THEOREM OkIsComplete == Spec => []AnswerIsComplete
  <1>1. IInv => AnswerIsComplete
    BY AllWritten DEF IInv, MainInv, AnswerIsComplete
  <1>2. QED
    BY <1>1, Invariance, PTL

----------------------------------------------------------------------------
(* The executor implements the contract under which Stage polls.           *)

\* No Ok answer while a worker is at work.
LEMMA NotYetOk ==
    ASSUME MainInv, NEW w \in Workers, at[w] # "done"
    PROVE  answer # "Ok"
  BY DEF MainInv

LEMMA NumberPublishes ==
    ASSUME IInv, NEW w \in Workers, Number(w)
    PROVE  Contract!Publish
  <1>1. at[w] = "number" /\ UNCHANGED <<files, answer>>
    BY DEF Number
  <1>2. PICK r \in 0..MaxRecords : segment_index' = segment_index + 1 + r /\ published' = segment_index'
    BY DEF Number, SegmentsTxt
  <1>3. published = segment_index /\ segment_index \in Nat /\ r \in Nat
    BY ExecutorAssumption DEF IInv, NumbersInv, TypeOK
  <1>4. published' \in Nat /\ published' > published
    BY <1>2, <1>3
  <1>5. answer # "Ok"
    BY <1>1, NotYetOk DEF IInv
  <1>6. QED
    BY <1>1, <1>4, <1>5 DEF Contract!Publish

LEMMA WriteWrites ==
    ASSUME IInv, NEW w \in Workers, NEW i \in DOMAIN todo[w], WriteSegment(w, i)
    PROVE  Contract!Write
  <1>1. at[w] = "write" /\ UNCHANGED <<published, segment_index, answer>>
    BY DEF WriteSegment, counters
  <1>2. DOMAIN files' = DOMAIN files \cup {i}
    BY DEF WriteSegment
  <1>3. i \in 0..(published - 1) \ DOMAIN files
    BY DEF IInv, NumbersInv
  <1>4. answer # "Ok"
    BY <1>1, NotYetOk DEF IInv
  <1>5. QED
    BY <1>1, <1>2, <1>3, <1>4 DEF Contract!Write

LEMMA SaveReports ==
    ASSUME IInv, Save
    PROVE  Contract!Report \/ UNCHANGED Contract!vars
  <1>1. main = "save" /\ UNCHANGED <<published, segment_index, files>> /\ (answer' = "Ok" \/ answer' # "Ok")
    BY DEF Save, counters, disk
  <1>2. answer = "none" /\ generator.at = "done" /\ \A w \in Workers : at[w] = "done"
    BY <1>1 DEF IInv, MainInv
  <1>3. published = segment_index /\ published > 0 /\ DOMAIN files = 0..(published - 1)
    BY <1>2, AllWritten
  <1>4. CASE answer' = "Ok"
    BY <1>1, <1>2, <1>3, <1>4 DEF Contract!Report
  <1>5. CASE answer' # "Ok"
    BY <1>1, <1>2, <1>5 DEF Contract!vars
  <1>6. QED
    BY <1>4, <1>5

LEMMA OthersHide ==
    ASSUME UNCHANGED <<published, files>>,
           \/ UNCHANGED <<segment_index, answer>>
           \/ answer # "Ok" /\ answer' # "Ok"
    PROVE  UNCHANGED Contract!vars
  BY DEF Contract!vars

LEMMA StepKeepsContract ==
    ASSUME IInv, [Next]_vars
    PROVE  [Contract!Publish \/ Contract!Write \/ Contract!Report]_(Contract!vars)
  <1>1. CASE LoadFails \/ JoinFails \/ StartThreads \/ Join
    <2>1. main # "end" /\ UNCHANGED <<published, files>> /\ answer' # "Ok"
      BY <1>1 DEF IInv, MainInv, LoadFails, JoinFails, StartThreads, Join, disk
    <2>2. answer # "Ok"
      BY <2>1 DEF IInv, MainInv
    <2>3. QED
      BY <2>1, <2>2, OthersHide
  <1>2. CASE Save
    BY <1>2, SaveReports
  <1>3. CASE Generator
    BY <1>3, OthersHide DEF Generator, GeneratorFails, Execute, SendCheckpoint, counters, disk
  <1>4. ASSUME NEW w \in Workers, Worker(w) \/ Panic(w)
        PROVE  Contract!Publish \/ Contract!Write \/ UNCHANGED Contract!vars
    <2>1. CASE Number(w)
      BY <2>1, NumberPublishes
    <2>2. ASSUME NEW i \in DOMAIN todo[w], WriteSegment(w, i)
          PROVE  Contract!Write
      BY <2>2, WriteWrites
    <2>3. CASE \/ Recv(w) \/ WorkerEnds(w) \/ Trace(w) \/ TakeTurn(w) \/ MeetsPoison(w)
               \/ AdvanceTurn(w) \/ NextCheckpoint(w) \/ Panic(w)
      <3>1. UNCHANGED <<published, files, segment_index, answer>>
        BY <2>3 DEF Recv, WorkerEnds, Trace, TakeTurn, MeetsPoison, AdvanceTurn, NextCheckpoint, Panic,
                    counters, disk
      <3>2. QED
        BY <3>1, OthersHide
    <2>4. QED
      BY <1>4, <2>1, <2>2, <2>3 DEF Worker
  <1>5. CASE UNCHANGED vars
    BY <1>5, OthersHide DEF vars, counters, disk
  <1>6. QED
    BY <1>1, <1>2, <1>3, <1>4, <1>5 DEF Next, Main

\* Every behaviour of the executor is one that Stage's Splitter allows: the number
\* in segments.txt grows, a file appears under a number that has been announced,
\* and an Ok answer counts the files that are there.
THEOREM ContractKept == Spec => KeepsContract
  <1>1. Init => Contract!Init
    BY DEF Init, NoFiles, Contract!Init
  <1>2. IInv /\ [Next]_vars => [Contract!Publish \/ Contract!Write \/ Contract!Report]_(Contract!vars)
    BY StepKeepsContract
  <1>3. QED
    BY <1>1, <1>2, Invariance, PTL DEF Spec, KeepsContract, Contract!Spec

----------------------------------------------------------------------------
(* Nobody waits for ever.                                                  *)

\* The conditions under which split, the generator and a worker can take a step of
\* their own; a failure or a panic is not counted.
MainCan == main \in {"load", "save"} \/ (main = "join" /\ AllEnded)

GeneratorCan ==
    \/ generator.at = "execute"
    \/ generator.at = "send" /\ Len(channel) < ChannelCapacity

NumberCan(w) ==
    \E own \in {<<>>, <<index[w]>>}, r \in 0..MaxRecords : \E m \in 0..Len(deferred \o own) :
        (m > 0 <=> r > 0) /\ (Last(index[w]) => m = Len(deferred \o own))

WorkerCan(w) ==
    \/ at[w] = "recv" /\ (channel # <<>> \/ generator.at \in {"done", "failed"})
    \/ at[w] \in {"trace", "advance", "write"}
    \/ at[w] = "turn" /\ turn = index[w] /\ lock = NoWorker
    \/ at[w] = "number" /\ NumberCan(w)

PanickedWorker == \E w \in Workers : at[w] = "panicked"

\* As long as split_elf is not answered and no worker has panicked, some thread can
\* go on.
SomebodyCanGoOn ==
    answer # "none" \/ PanickedWorker \/ MainCan \/ GeneratorCan \/ \E w \in Workers : WorkerCan(w)

\* The threads run once they are started, only a panic poisons the mutexes, and
\* split ends with an answer.
StartedInv ==
    /\ main \in {"join", "save"} => generator.at # "none" /\ \A w \in Workers : at[w] # "none"
    /\ poisoned => PanickedWorker
    /\ main = "end" => answer # "none"

LEMMA StartedStarts == Init => StartedInv
  BY DEF Init, StartedInv

\* A worker never goes back to "none", and a panicked one stays.
LEMMA WorkerStays ==
    ASSUME TypeOK, NEW w \in Workers, Worker(w) \/ Panic(w)
    PROVE  /\ at[w] # "panicked" /\ at[w] # "none" /\ at'[w] # "none"
           /\ \A v \in Workers : v # w => at'[v] = at[v]
           /\ UNCHANGED <<main, generator, answer>>
           /\ poisoned' => poisoned \/ at'[w] = "panicked"
  <1>1. ASSUME NEW pc, Goto(w, pc)
        PROVE  at'[w] = pc /\ \A v \in Workers : v # w => at'[v] = at[v]
    BY <1>1 DEF TypeOK, Goto
  <1>2. CASE Recv(w) \/ WorkerEnds(w) \/ Trace(w) \/ TakeTurn(w) \/ MeetsPoison(w)
    BY <1>1, <1>2 DEF Recv, WorkerEnds, Trace, TakeTurn, MeetsPoison
  <1>3. CASE Number(w) \/ AdvanceTurn(w) \/ NextCheckpoint(w)
    BY <1>1, <1>3 DEF Number, AdvanceTurn, NextCheckpoint
  <1>4. CASE \E i \in DOMAIN todo[w] : WriteSegment(w, i)
    BY <1>4 DEF WriteSegment
  <1>5. CASE Panic(w)
    BY <1>1, <1>5 DEF Panic
  <1>6. QED
    BY <1>2, <1>3, <1>4, <1>5 DEF Worker

LEMMA StartedStep ==
    ASSUME IInv, StartedInv, [Next]_vars
    PROVE  StartedInv'
  <1>1. CASE Main
    <2>1. UNCHANGED poisoned /\ (PanickedWorker => UNCHANGED at)
      BY <1>1 DEF Main, LoadFails, StartThreads, JoinFails, Join, Save, IInv, MainInv, PanickedWorker
    <2>2. \/ main' = "end" /\ answer' # "none" /\ UNCHANGED <<generator, at>>
          \/ main' = "save" /\ main = "join" /\ UNCHANGED <<generator, at>>
          \/ StartThreads
      BY <1>1 DEF Main, LoadFails, JoinFails, Join, Save
    <2>3. ASSUME StartThreads
          PROVE  main' = "join" /\ generator'.at # "none" /\ \A w \in Workers : at'[w] # "none"
      BY <2>3 DEF StartThreads, IInv, TypeOK, GeneratorState
    <2>4. QED
      BY <2>1, <2>2, <2>3 DEF StartedInv, PanickedWorker
  <1>2. CASE Generator
    <2>1. /\ generator.at # "none" /\ generator'.at # "none"
          /\ UNCHANGED <<main, at, poisoned, answer>>
      BY <1>2 DEF Generator, GeneratorFails, Execute, SendCheckpoint, IInv, TypeOK, GeneratorState
    <2>2. QED
      BY <2>1 DEF StartedInv, PanickedWorker
  <1>3. ASSUME NEW w \in Workers, Worker(w) \/ Panic(w)
        PROVE  StartedInv'
    <2>1. /\ at[w] # "panicked" /\ at[w] # "none" /\ at'[w] # "none"
          /\ \A v \in Workers : v # w => at'[v] = at[v]
          /\ UNCHANGED <<main, generator, answer>>
          /\ poisoned' => poisoned \/ at'[w] = "panicked"
      BY <1>3, WorkerStays DEF IInv
    <2>2. PanickedWorker => PanickedWorker'
      BY <2>1 DEF PanickedWorker
    <2>3. poisoned' => PanickedWorker'
      BY <2>1, <2>2 DEF StartedInv, PanickedWorker
    <2>4. QED
      BY <2>1, <2>3 DEF StartedInv
  <1>4. CASE UNCHANGED vars
    BY <1>4 DEF vars, StartedInv, PanickedWorker
  <1>5. QED
    BY <1>1, <1>2, <1>3, <1>4 DEF Next

\* At the last checkpoint one record takes all the events that wait.
LEMMA NumberGoesOn ==
    ASSUME TypeOK, NEW w \in Workers
    PROVE  NumberCan(w)
  <1>1. deferred \o <<>> = deferred /\ Len(deferred) \in Nat
    BY DEF TypeOK
  <1>2. 0 \in 0..MaxRecords /\ 1 \in 0..MaxRecords
    BY ExecutorAssumption
  <1>3. Len(deferred) \in 0..Len(deferred \o <<>>)
    BY <1>1
  <1>4. CASE Len(deferred) = 0
    BY <1>1, <1>2, <1>3, <1>4 DEF NumberCan
  <1>5. CASE Len(deferred) > 0
    BY <1>1, <1>2, <1>3, <1>5 DEF NumberCan
  <1>6. QED
    BY <1>1, <1>4, <1>5

\* If every worker that has a checkpoint waits for its turn, the turn is one of
\* theirs and nobody has the guards.
LEMMA TurnIsTaken ==
    ASSUME IInv, ~PanickedWorker, NEW w \in Workers, at[w] = "turn",
           \A v \in Workers : at[v] \notin {"trace", "number", "advance", "write"}
    PROVE  \E v \in Workers : WorkerCan(v)
  <1>1. turn <= index[w] /\ index[w] < Received /\ turn \in Nat /\ Received \in Int /\ index[w] \in Nat
    BY Bounds DEF IInv, TracingInv, Tracing
  <1>2. turn \in turn..(Received - 1)
    BY <1>1
  <1>3. PICK v \in Workers : index[v] = turn /\ (Tracing(v) \/ at[v] = "panicked")
    BY <1>2 DEF IInv, TracingInv
  <1>4. at[v] = "turn"
    BY <1>3 DEF Tracing, PanickedWorker
  <1>5. lock = NoWorker
    BY DEF IInv, LockInv, TypeOK
  <1>6. QED
    BY <1>3, <1>4, <1>5 DEF WorkerCan

LEMMA GoesOn ==
    ASSUME IInv, StartedInv
    PROVE  SomebodyCanGoOn
  <1> SUFFICES ASSUME answer = "none", ~PanickedWorker, ~MainCan, ~GeneratorCan
               PROVE  \E w \in Workers : WorkerCan(w)
    BY DEF SomebodyCanGoOn
  <1>1. main = "join" /\ ~AllEnded
    BY DEF MainCan, StartedInv, IInv, TypeOK
  <1>2. \A w \in Workers : at[w] \in WorkerPlace /\ at[w] \notin {"none", "panicked"}
    BY <1>1 DEF StartedInv, PanickedWorker, IInv, TypeOK
  <1>3. CASE \E w \in Workers : at[w] \in {"trace", "number", "advance", "write"}
    BY <1>3, NumberGoesOn DEF WorkerCan, IInv
  <1>4. CASE \E w \in Workers : at[w] = "turn"
    BY <1>3, <1>4, TurnIsTaken
  <1>5. CASE \A w \in Workers : at[w] \in {"recv", "done"}
    <2>1. CASE generator.at \in {"done", "failed"}
      <3>1. PICK w \in Workers : at[w] # "done"
        BY <1>1, <2>1 DEF AllEnded
      <3>2. QED
        BY <1>5, <2>1, <3>1 DEF WorkerCan
    <2>2. CASE generator.at = "send" /\ Len(channel) >= ChannelCapacity
      <3>1. channel # <<>>
        BY <2>2, ExecutorAssumption DEF IInv, TypeOK
      <3>2. PICK w \in Workers : TRUE
        BY ExecutorAssumption
      <3>3. at[w] = "recv"
        BY <1>5, <3>1, <3>2 DEF IInv, ChannelInv
      <3>4. QED
        BY <3>1, <3>2, <3>3 DEF WorkerCan
    <2>3. generator.at \in {"send", "done", "failed"}
      BY <1>1 DEF GeneratorCan, StartedInv, IInv, TypeOK, GeneratorState
    <2>4. generator.at = "send" => Len(channel) >= ChannelCapacity
      BY ExecutorAssumption DEF GeneratorCan, IInv, TypeOK
    <2>5. QED
      BY <2>1, <2>2, <2>3, <2>4
  <1>6. QED
    BY <1>2, <1>3, <1>4, <1>5 DEF WorkerPlace

\* Unless a worker has panicked, the threads of a split never all wait for each
\* other, for any number of workers and any capacity of the channel: the turn is
\* always that of a worker which is on its way to it and finds the guards free, a
\* generator that waits for room leaves something to receive, and one that is gone
\* lets the workers end.  This is the safety half of SplitAnswers.
THEOREM SplitNeverStuck == Spec => []SomebodyCanGoOn
  <1>1. IInv /\ StartedInv /\ [Next]_vars => StartedInv'
    BY StartedStep
  <1>2. IInv /\ StartedInv => SomebodyCanGoOn
    BY GoesOn
  <1>3. QED
    BY Invariance, StartedStarts, <1>1, <1>2, PTL DEF Spec
=============================================================================
