---------------------------- MODULE TaskLifecycle ----------------------------
(***************************************************************************)
(* The life of a proof request in the stage server: generate_proof of      *)
(* stage/stage_service.rs stores it as a row and queues it, the            *)
(* TaskManager of stage/stage_worker.rs runs queued tasks under a          *)
(* semaphore, run_stage_task writes the row (database.rs), and a restarted *)
(* server loads the rows that are still Computing.                         *)
(*                                                                         *)
(* A crash loses everything but the rows and the files.  What a run        *)
(* computes is the subject of Stage; here a run is its writes to the row.  *)
(***************************************************************************)
EXTENDS Naturals, Sequences, FiniteSets

CONSTANTS
    Proofs,         \* proof ids
    Requests,       \* generate_proof requests
    IdOf(_),        \* the proof id of a request; a retry repeats it
    Programs,       \* elf ids: the hashes of the elf files
    ElfOf(_),       \* the elf id of a request
    SingleNode,     \* proofs asked for with single_node
    Doomed,         \* proofs whose run can only die: a composite proof with target Snark
                    \* reads a file it never wrote, a block_no above 0 meets a todo!()
    QueueCap,       \* capacity of the task channel (256 in the code)
    MaxConcurrent,  \* permits of the semaphore
    RestartDelay,   \* seconds a restart takes at least
    MaxTicks,       \* bound: seconds that pass while the server is up
    MaxCrashes,     \* bound: crashes
    ClientsLeave,   \* may a client disconnect before it is answered?
    IoErrors        \* may a database update or a file access of a run fail?

ASSUME LifecycleAssumption ==
    /\ \A r \in Requests : IdOf(r) \in Proofs /\ ElfOf(r) \in Programs
    /\ SingleNode \subseteq Proofs /\ Doomed \subseteq Proofs \ SingleNode
    /\ IsFiniteSet(Proofs)
    /\ QueueCap \in Nat \ {0} /\ MaxConcurrent \in Nat \ {0}
    /\ RestartDelay \in Nat /\ MaxTicks \in Nat /\ MaxCrashes \in Nat
    /\ ClientsLeave \in BOOLEAN /\ IoErrors \in BOOLEAN

VARIABLES
    row,        \* stage_task: proof -> [status, step, check_at]
    elf,        \* the cached elf of each program: none, torn or whole
    inputs,     \* the input files in each proof's directory: the same
    handler,    \* generate_proof of each request: where it is, how it was answered
    queue,      \* the task channel
    hand,       \* the task process_tasks has received and waits for a permit with
    slot,       \* what runs under each permit: [at, task, now]
    up,         \* is the server running?
    clock,      \* get_timestamp(), in seconds
    ticks, crashes,     \* counted against their bounds
    dropped     \* history: why nobody works at a proof since the server was started

memory == <<handler, queue, hand, slot>>
disk == <<elf, inputs>>
vars == <<row, disk, memory, up, clock, ticks, crashes, dropped>>

Slots == 1..MaxConcurrent
Final == {"Success", "Error"}
NoRow == [status |-> "Absent", step |-> "Init", check_at |-> 0]

\* A StageTask in memory: a copy of the row's step and check_at.
Task(p, s, c) == [id |-> p, step |-> s, check_at |-> c]
Free == [at |-> "free", task |-> <<>>, now |-> 0]

\* A proof that nobody works at any more.
Drop(p, why) == [dropped EXCEPT ![p] = why]

\* On success check_at gets the run's duration in ms, far below any time stamp.
Duration == 0

Init ==
    /\ row = [p \in Proofs |-> NoRow]
    /\ elf = [e \in Programs |-> "none"]
    /\ inputs = [p \in Proofs |-> "none"]
    /\ handler = [r \in Requests |-> "new"]
    /\ queue = <<>>
    /\ hand = <<>>
    /\ slot = [s \in Slots |-> Free]
    /\ up = TRUE
    /\ clock = 1
    /\ ticks = 0
    /\ crashes = 0
    /\ dropped = [p \in Proofs |-> "no"]

----------------------------------------------------------------------------
(* generate_proof.                                                         *)

\* The checks of the parameters, the signature and the white list, an elf_id that
\* is not in the cache, a directory that cannot be made; one of the checks comes
\* after the files.
Reject(r) ==
    /\ up /\ handler[r] \in {"new", "has_elf", "stored"}
    /\ handler' = [handler EXCEPT ![r] = "invalid"]
    /\ UNCHANGED <<row, disk, queue, hand, slot, up, clock, ticks, crashes, dropped>>

\* The elf is written unless the cache has a file of that name.
CheckElf(r) ==
    /\ up /\ handler[r] = "new"
    /\ handler' = [handler EXCEPT ![r] = IF elf[ElfOf(r)] = "none" THEN "no_elf" ELSE "has_elf"]
    /\ UNCHANGED <<row, disk, queue, hand, slot, up, clock, ticks, crashes, dropped>>

\* LocalFile::write creates the file, or empties the one that is there by now, and
\* then fills it.
OpenElf(r) ==
    /\ up /\ handler[r] = "no_elf"
    /\ elf' = [elf EXCEPT ![ElfOf(r)] = "torn"]
    /\ handler' = [handler EXCEPT ![r] = "writing_elf"]
    /\ UNCHANGED <<row, inputs, queue, hand, slot, up, clock, ticks, crashes, dropped>>

\* A file after one writer is done.  If others opened it too, one of them may have
\* emptied it in the middle.
Filled(others) == IF others = {} THEN {"whole"} ELSE {"whole", "torn"}

WriteElf(r) ==
    /\ up /\ handler[r] = "writing_elf"
    /\ \E f \in Filled({w \in Requests \ {r} : /\ ElfOf(w) = ElfOf(r)
                                              /\ handler[w] \in {"writing_elf", "torn_elf"}}) :
          elf' = [elf EXCEPT ![ElfOf(r)] = f]
    /\ handler' = [handler EXCEPT ![r] = "has_elf"]
    /\ UNCHANGED <<row, inputs, queue, hand, slot, up, clock, ticks, crashes, dropped>>

\* The inputs are written whether or not the proof id is taken.
OpenInputs(r) ==
    /\ up /\ handler[r] = "has_elf"
    /\ inputs' = [inputs EXCEPT ![IdOf(r)] = "torn"]
    /\ handler' = [handler EXCEPT ![r] = "writing"]
    /\ UNCHANGED <<row, elf, queue, hand, slot, up, clock, ticks, crashes, dropped>>

WriteInputs(r) ==
    /\ up /\ handler[r] = "writing"
    /\ \E f \in Filled({w \in Requests \ {r} : /\ IdOf(w) = IdOf(r)
                                              /\ handler[w] \in {"writing", "torn"}}) :
          inputs' = [inputs EXCEPT ![IdOf(r)] = f]
    /\ handler' = [handler EXCEPT ![r] = "stored"]
    /\ UNCHANGED <<row, elf, queue, hand, slot, up, clock, ticks, crashes, dropped>>

\* The disk is full: the request is answered with an error, the file stays torn.
WriteFails(r) ==
    /\ up /\ handler[r] \in {"writing_elf", "writing"}
    /\ handler' = [handler EXCEPT ![r] = IF @ = "writing_elf" THEN "torn_elf" ELSE "torn"]
    /\ UNCHANGED <<row, disk, queue, hand, slot, up, clock, ticks, crashes, dropped>>

InsertsFirst(r) ==
    /\ up /\ handler[r] = "has_elf"
    /\ IF row[IdOf(r)].status = "Absent"
       THEN /\ row' = [row EXCEPT ![IdOf(r)].status = "Computing"]
            /\ handler' = [handler EXCEPT ![r] = "inserted"]
       ELSE /\ handler' = [handler EXCEPT ![r] = "refused"]
            /\ UNCHANGED row
    /\ UNCHANGED <<disk, queue, hand, slot, up, clock, ticks, crashes, dropped>>

OverwritesRow(r) ==
    /\ up /\ handler[r] = "stored"
    /\ row' = [row EXCEPT ![IdOf(r)].status = "Computing"]
    /\ handler' = [handler EXCEPT ![r] = "inserted"]
    /\ UNCHANGED <<disk, queue, hand, slot, up, clock, ticks, crashes, dropped>>

QueuesOnConflict(r) ==
    /\ up /\ handler[r] = "stored"
    /\ row' = IF row[IdOf(r)].status = "Absent"
              THEN [row EXCEPT ![IdOf(r)].status = "Computing"] ELSE row
    /\ handler' = [handler EXCEPT ![r] = "inserted"]
    /\ UNCHANGED <<disk, queue, hand, slot, up, clock, ticks, crashes, dropped>>

\* insert_stage_task: the proof id is the primary key.
Insert(r) ==
    /\ up /\ handler[r] = "stored"
    /\ IF row[IdOf(r)].status = "Absent"
       THEN /\ row' = [row EXCEPT ![IdOf(r)].status = "Computing"]
            /\ handler' = [handler EXCEPT ![r] = "inserted"]
       ELSE /\ handler' = [handler EXCEPT ![r] = "refused"]
            /\ UNCHANGED row
    /\ UNCHANGED <<disk, queue, hand, slot, up, clock, ticks, crashes, dropped>>

SendsAnyway(r) ==
    /\ up /\ handler[r] = "inserted"
    /\ queue' = Append(queue, Task(IdOf(r), "Init", 0))
    /\ handler' = [handler EXCEPT ![r] = "accepted"]
    /\ UNCHANGED <<row, disk, hand, slot, up, clock, ticks, crashes, dropped>>

\* tx.send waits for room in the channel.
Send(r) ==
    /\ up /\ handler[r] = "inserted" /\ Len(queue) < QueueCap
    /\ queue' = Append(queue, Task(IdOf(r), "Init", 0))
    /\ handler' = [handler EXCEPT ![r] = "accepted"]
    /\ UNCHANGED <<row, disk, hand, slot, up, clock, ticks, crashes, dropped>>

\* The client goes away and the server drops the handler where it waits.
Leave(r) ==
    /\ ClientsLeave /\ up /\ handler[r] \in {"new", "stored", "inserted"}
    /\ handler' = [handler EXCEPT ![r] = "gone"]
    /\ dropped' = IF handler[r] = "inserted" THEN Drop(IdOf(r), "left") ELSE dropped
    /\ UNCHANGED <<row, disk, queue, hand, slot, up, clock, ticks, crashes>>

----------------------------------------------------------------------------
(* TaskManager::process_tasks.                                             *)

RecvOrDrop ==
    /\ up /\ hand = <<>> /\ queue # <<>>
    /\ hand' = IF \E s \in Slots : slot[s].at = "free" THEN <<Head(queue)>> ELSE <<>>
    /\ queue' = Tail(queue)
    /\ UNCHANGED <<row, disk, handler, slot, up, clock, ticks, crashes, dropped>>

Recv ==
    /\ up /\ hand = <<>> /\ queue # <<>>
    /\ hand' = <<Head(queue)>>
    /\ queue' = Tail(queue)
    /\ UNCHANGED <<row, disk, handler, slot, up, clock, ticks, crashes, dropped>>

Spawn(s) ==
    /\ up /\ hand # <<>> /\ slot[s].at = "free"
    /\ slot' = [slot EXCEPT ![s] = [at |-> "begin", task |-> hand[1], now |-> clock]]
    /\ hand' = <<>>
    /\ UNCHANGED <<row, disk, handler, queue, up, clock, ticks, crashes, dropped>>

----------------------------------------------------------------------------
(* run_stage_task.                                                         *)

At(s, pcs) == up /\ slot[s].at \in pcs
Id(s) == slot[s].task.id

\* update_stage_task_check_at: compare and set on check_at.
CheckAtHits(p, old) == row[p].check_at = old
UpdateCheckAt(p, old, new, step) ==
    IF CheckAtHits(p, old) THEN [row EXCEPT ![p].check_at = new, ![p].step = step] ELSE row

\* update_stage_task
UpdateStatus(p, status) == [row EXCEPT ![p].status = status]

KeepsOldCheckAt(s) ==
    /\ At(s, {"begin"}) /\ Id(s) \notin SingleNode
    /\ row' = UpdateCheckAt(Id(s), slot[s].task.check_at, slot[s].now, "Prove")
    /\ slot' = [slot EXCEPT ![s].at = "run"]
    /\ UNCHANGED <<disk, handler, queue, hand, up, clock, ticks, crashes, dropped>>

\* The first dispatch and its update, whose outcome nobody looks at.
BeginStage(s) ==
    /\ At(s, {"begin"}) /\ Id(s) \notin SingleNode
    /\ \/ row' = UpdateCheckAt(Id(s), slot[s].task.check_at, slot[s].now, "Prove")
       \/ IoErrors /\ row' = row
    /\ slot' = [slot EXCEPT ![s].at = "run", ![s].task.check_at = slot[s].now]
    /\ UNCHANGED <<disk, handler, queue, hand, up, clock, ticks, crashes, dropped>>

\* The update after a step change or 10 seconds.
Heartbeat(s) ==
    /\ At(s, {"run"}) /\ Id(s) \notin SingleNode
    /\ row' = UpdateCheckAt(Id(s), slot[s].task.check_at, clock, "Prove")
    /\ slot' = [slot EXCEPT ![s].task.check_at =
                   IF CheckAtHits(Id(s), @) THEN clock ELSE @]
    /\ UNCHANGED <<disk, handler, queue, hand, up, clock, ticks, crashes, dropped>>

\* A single-node task that has begun before is left alone.
BeginSingle(s) ==
    /\ At(s, {"begin"}) /\ Id(s) \in SingleNode
    /\ \/ /\ slot[s].task.step = "Init"
          /\ slot' = [slot EXCEPT ![s].at = "record"]
          /\ UNCHANGED dropped
       \/ /\ slot[s].task.step # "Init"
          /\ slot' = [slot EXCEPT ![s] = Free]
          /\ dropped' = Drop(Id(s), "forgotten")
    /\ UNCHANGED <<row, disk, handler, queue, hand, up, clock, ticks, crashes>>

\* prover_client::single_node has a node and marks the row.
RecordSingle(s) ==
    /\ At(s, {"record"})
    /\ row' = UpdateCheckAt(Id(s), slot[s].task.check_at, slot[s].now, "Prove")
    /\ slot' = [slot EXCEPT ![s].at = "run", ![s].task.check_at = slot[s].now]
    /\ UNCHANGED <<disk, handler, queue, hand, up, clock, ticks, crashes, dropped>>

\* The run ends in an error; for a single-node task also when it could not be
\* recorded.
EndError(s) ==
    /\ At(s, {"run"}) \/ (IoErrors /\ At(s, {"record"}))
    /\ row' = UpdateStatus(Id(s), "Error")
    /\ slot' = [slot EXCEPT ![s] = Free]
    /\ UNCHANGED <<disk, handler, queue, hand, up, clock, ticks, crashes, dropped>>

\* Success is two updates: first the duration and the step, then the status.
EndSuccess(s) ==
    /\ At(s, {"run"}) /\ Id(s) \notin Doomed
    /\ row' = UpdateCheckAt(Id(s), slot[s].task.check_at, Duration, "End")
    /\ slot' = [slot EXCEPT ![s].at = "save"]
    /\ UNCHANGED <<disk, handler, queue, hand, up, clock, ticks, crashes, dropped>>

SaveStatus(s) ==
    /\ At(s, {"save"})
    /\ row' = UpdateStatus(Id(s), "Success")
    /\ slot' = [slot EXCEPT ![s] = Free]
    /\ UNCHANGED <<disk, handler, queue, hand, up, clock, ticks, crashes, dropped>>

\* The run dies without any failure around it and returns its permit: at the todo!()
\* or the missing proof file of its request, or at the unwrap() of an input that
\* another request with the same id has torn.
RunDies(s) ==
    /\ \/ At(s, {"run"}) /\ Id(s) \in Doomed
       \/ At(s, {"begin", "run"}) /\ Id(s) \notin SingleNode /\ inputs[Id(s)] = "torn"
    /\ slot' = [slot EXCEPT ![s] = Free]
    /\ dropped' = Drop(Id(s), "died")
    /\ UNCHANGED <<row, disk, handler, queue, hand, up, clock, ticks, crashes>>

\* unwrap() of a failed update or file access: the same.
Panic(s) ==
    /\ IoErrors /\ At(s, {"record", "run", "save"})
    /\ slot' = [slot EXCEPT ![s] = Free]
    /\ dropped' = Drop(Id(s), "died")
    /\ UNCHANGED <<row, disk, handler, queue, hand, up, clock, ticks, crashes>>

----------------------------------------------------------------------------
(* The process.                                                            *)

Crash ==
    /\ up /\ crashes < MaxCrashes
    /\ up' = FALSE /\ crashes' = crashes + 1
    /\ handler' = [r \in Requests |->
                      IF handler[r] \in {"no_elf", "has_elf", "stored", "inserted"} THEN "gone"
                      ELSE IF handler[r] = "writing_elf" THEN "torn_elf"
                      ELSE IF handler[r] = "writing" THEN "torn" ELSE handler[r]]
    /\ queue' = <<>> /\ hand' = <<>> /\ slot' = [s \in Slots |-> Free]
    /\ dropped' = [p \in Proofs |-> "no"]
    /\ UNCHANGED <<row, disk, clock, ticks>>

\* load_incomplete_tasks_from_db: the rows that are Computing and were touched in
\* an earlier second, in the database's order, as long as the channel has room.
StoredRows == {p \in Proofs : row[p].status # "Absent"}
Computing == {p \in Proofs : row[p].status = "Computing"}

LoadsOneLess(loaded) == Cardinality(loaded) < QueueCap
FitsQueue(loaded) == Cardinality(loaded) <= QueueCap

Loaded(now) ==
    LET incomplete == {p \in Computing : row[p].check_at < now}
    IN {s \in UNION {[1..k -> incomplete] : k \in 0..Cardinality(incomplete)} :
          LET loaded == {s[i] : i \in DOMAIN s} IN
          /\ \A i, j \in DOMAIN s : s[i] = s[j] => i = j
          /\ FitsQueue(loaded)
          /\ loaded = incomplete \/ \A p \in incomplete \ loaded : ~FitsQueue(loaded \cup {p})}

Restart ==
    /\ ~up
    /\ up' = TRUE
    /\ clock' = clock + RestartDelay
    /\ \E s \in Loaded(clock') :
          /\ queue' = [i \in DOMAIN s |-> Task(s[i], row[s[i]].step, row[s[i]].check_at)]
          /\ dropped' = [p \in Proofs |->
                            IF p \in Computing /\ p \notin {s[i] : i \in DOMAIN s}
                            THEN "skipped" ELSE "no"]
    /\ UNCHANGED <<row, disk, handler, hand, slot, ticks, crashes>>

ClockTick ==
    /\ up /\ ticks < MaxTicks
    /\ clock' = clock + 1 /\ ticks' = ticks + 1
    /\ UNCHANGED <<row, disk, memory, up, crashes, dropped>>

----------------------------------------------------------------------------
Handle(r) ==
    \/ CheckElf(r) \/ OpenElf(r) \/ WriteElf(r) \/ OpenInputs(r) \/ WriteInputs(r)
    \/ Insert(r) \/ Send(r)

Run(s) ==
    \/ BeginStage(s) \/ BeginSingle(s) \/ RecordSingle(s)
    \/ EndError(s) \/ EndSuccess(s) \/ SaveStatus(s) \/ RunDies(s)

Next ==
    \/ \E r \in Requests : Reject(r) \/ Handle(r) \/ WriteFails(r) \/ Leave(r)
    \/ Recv
    \/ \E s \in Slots : Spawn(s) \/ Run(s) \/ Heartbeat(s) \/ Panic(s)
    \/ Crash \/ Restart \/ ClockTick

Spec == Init /\ [][Next]_vars

\* Handlers, the receiver and the runs are polled until they end -- that a run
\* reports is EventuallyReported of Stage, that it dies instead PanicHasCause -- and
\* a crashed server is started again.
Fairness ==
    /\ \A r \in Requests : WF_vars(Send(r))
    /\ WF_vars(Recv)
    /\ \A s \in Slots : WF_vars(Spawn(s)) /\ WF_vars(Run(s))
    /\ WF_vars(Restart)

FairSpec == Spec /\ Fairness

----------------------------------------------------------------------------
(* Properties.                                                             *)

Step == {"Init", "Prove", "End"}
Row == [status : {"Absent", "Computing"} \cup Final, step : Step, check_at : 0..clock]
TaskType == [id : Proofs, step : Step, check_at : 0..clock]
RunType == [at : {"begin", "record", "run", "save"}, task : TaskType, now : 0..clock]
HandlerPlace == {"new", "invalid", "no_elf", "writing_elf", "has_elf", "writing", "stored", "refused",
                 "inserted", "accepted", "gone", "torn_elf", "torn"}
File == {"none", "torn", "whole"}
Reason == {"no", "left", "skipped", "forgotten", "died"}

\* The types of the rows, of the queue and of the runs.
TypeOK ==
    /\ row \in [Proofs -> Row]
    /\ elf \in [Programs -> File] /\ inputs \in [Proofs -> File]
    /\ handler \in [Requests -> HandlerPlace]
    /\ queue \in Seq(TaskType) /\ Len(queue) <= QueueCap
    /\ hand \in Seq(TaskType) /\ Len(hand) <= 1
    /\ slot \in [Slots -> {Free} \cup RunType]
    /\ up \in BOOLEAN
    /\ clock \in Nat \ {0} /\ ticks \in 0..MaxTicks /\ crashes \in 0..MaxCrashes
    /\ dropped \in [Proofs -> Reason]

\* Where a proof is in memory.
InQueue(p) == {i \in DOMAIN queue : queue[i].id = p}
InHand(p) == {i \in DOMAIN hand : hand[i].id = p}
Running(p) == {s \in Slots : slot[s].at # "free" /\ Id(s) = p}

Held(p) == Cardinality(InQueue(p)) + Cardinality(InHand(p)) + Cardinality(Running(p))

\* A proof is queued or run at most once at a time, through retries of the
\* request, crashes and reloads: two runs would share one directory.
RunsAtMostOnce == \A p \in Proofs : Held(p) <= 1

\* A run always knows the check_at of its row, so that none of its updates is
\* lost to the comparison in update_stage_task_check_at.
CheckAtKnown ==
    \A s \in Slots : slot[s].at \notin {"free", "save"}
        => row[Id(s)].check_at = slot[s].task.check_at

\* A row that says Success or an error keeps it, and keeps its last step: no late
\* run, heartbeat or reload touches a finished proof again.
FinalStatusKept ==
    [][\A p \in Proofs : row[p].status \in Final => row'[p] = row[p]]_vars

\* A stored proof has its elf and its inputs on disk, whole, for whichever run or
\* reload reads them -- except while another request writes the same file, or
\* after a crash or a full disk in the middle of that: nobody repairs a torn file
\* then, and the torn elf is taken for the cached one by every later request.
FilesIntact ==
    \A r \in Requests : row[IdOf(r)].status # "Absent" =>
        /\ inputs[IdOf(r)] = "whole"
           \/ \E w \in Requests : IdOf(w) = IdOf(r) /\ handler[w] \in {"writing", "torn"}
        /\ handler[r] \in {"inserted", "accepted"} => elf[ElfOf(r)] = "whole"
           \/ \E w \in Requests : ElfOf(w) = ElfOf(r) /\ handler[w] \in {"writing_elf", "torn_elf"}

AskedTwice(p) == \E r, q \in Requests : r # q /\ IdOf(r) = p /\ IdOf(q) = p

\* What it takes that nobody works at a proof although its row is Computing: its
\* client went away before it was queued; the reload passed it over, in the second
\* of its last update or for want of room; it is a single-node task that a crash
\* interrupted; or its run died, of a failed update, of its own options, or of
\* another request with its id, which tears its inputs.
Excused(p) ==
    \/ dropped[p] = "left" /\ ClientsLeave
    \/ dropped[p] = "skipped" /\ \/ RestartDelay = 0 /\ row[p].check_at > 0
                                 \/ Cardinality(Proofs) > QueueCap
    \/ dropped[p] = "forgotten" /\ p \in SingleNode /\ crashes > 0
    \/ dropped[p] = "died" /\ (IoErrors \/ p \in Doomed \/ AskedTwice(p))

\* docs/grpc-api.md: COMPUTING "The task is currently being processed."  While
\* the server is up, a row that is Computing is queued, run, or about to be sent,
\* and there is no other way out of the server's hands than the excused ones.
ComputingIsProcessed ==
    up => \A p \in Computing :
              \/ Held(p) > 0 \/ Excused(p)
              \/ \E r \in Requests : IdOf(r) = p /\ handler[r] = "inserted"

\* Every stored request comes to a final status, through any number of crashes up
\* to the bound, or is dropped with an excuse.
EventuallyFinal ==
    \A p \in Proofs : row[p].status = "Computing" ~> row[p].status \in Final \/ Excused(p)

\* The jobs as the clients of the server see them.
Jobs == [p \in Proofs |->
            IF Running(p) # {} THEN "running"
            ELSE IF row[p].status \in Final THEN "finished"
            ELSE IF row[p].status = "Computing" THEN "waiting" ELSE "absent"]

Queue == INSTANCE JobQueue WITH jobs <- Jobs

\* Rows, channel, semaphore and reloads together are a queue of jobs that starts
\* each while it waits, never again once it is finished, and counts the permits
\* right, whatever crashes, clients and the database do.
ImplementsQueue == Queue!JobSpec
=============================================================================
