----------------------------- MODULE ProverNode -----------------------------
(***************************************************************************)
(* The prover processes: proof-service/src/prover_service.rs and the       *)
(* pipelines of prover (v1) and prover_v2 behind it.                       *)
(*                                                                         *)
(* run_back_task gives every request a blocking thread, which goes on when *)
(* the client has given the call up, so several threads may run on a node. *)
(* A v1 pipeline computes one proof at a time and refuses another; in v2   *)
(* the threads share the caches of programs and keys, whose mutexes are    *)
(* held during the work, and SHARD_SIZE in the environment, through which  *)
(* NetworkProve::new passes the segment size of its job.                   *)
(*                                                                         *)
(* The environment is the prover client: it has at most one call at a node *)
(* (ProverClient's NodeExclusive), and gives it up after TASK_TIMEOUT or   *)
(* when the connection breaks.                                             *)
(***************************************************************************)
EXTENDS Naturals

CONSTANTS
    Nodes,              \* the prover processes
    Features,           \* the builds considered
    Tasks,              \* what may be requested
    NoTask,             \* no request
    KindOf(_),          \* the task's type
    SizeOf(_),          \* seg_size of the task's job, more than 0
    Default,            \* the shard size without SHARD_SIZE
    MaxThreads          \* bound: threads on a node

Slots == 1..MaxThreads
Nobody == 0

ASSUME NodeAssumption ==
    /\ Features \subseteq {"prover", "prover_v2"}
    /\ NoTask \notin Tasks
    /\ \A t \in Tasks : SizeOf(t) # Default
    /\ MaxThreads \in Nat

VARIABLES
    feature,        \* the build: prover or prover_v2
    thread,         \* node -> slot -> [at, task, opts, answer, heard]
    mutex,          \* v1: the thread in Pipeline::mutex, per node
    poisoned,       \* v1: nodes where a thread has panicked with the mutex
    program,        \* v2: the thread that holds PROGRAM_CACHE
    key,            \* v2: the thread that holds KEY_CACHE
    shard_size,     \* v2: SHARD_SIZE in the environment of the process
    abandoned       \* history: nodes where a call was given up

vars == <<feature, thread, mutex, poisoned, program, key, shard_size, abandoned>>

Free == [at |-> "free", task |-> NoTask, opts |-> Default, answer |-> "none", heard |-> FALSE]

Init ==
    /\ feature \in Features
    /\ thread = [n \in Nodes |-> [k \in Slots |-> Free]]
    /\ mutex = [n \in Nodes |-> Nobody]
    /\ poisoned = {}
    /\ program = [n \in Nodes |-> Nobody]
    /\ key = [n \in Nodes |-> Nobody]
    /\ shard_size = [n \in Nodes |-> Default]
    /\ abandoned = {}

----------------------------------------------------------------------------
At(n, k, pc) == thread[n][k].at = pc
Kind(n, k) == KindOf(thread[n][k].task)

Goto(n, k, pc) == thread' = [thread EXCEPT ![n][k].at = pc]

\* on_done! sets the code of the response; nobody waits for it if the call has
\* been given up.
Reply(n, k, code) ==
    thread' = [thread EXCEPT ![n][k] = IF @.heard THEN [@ EXCEPT !.at = "done", !.answer = code]
                                       ELSE Free]

\* Which kinds pass their segment size through the environment; the others read
\* the default options.
SetsShardSize(kind) == kind \in {"Split", "Prove", "SingleNode"}

FirstStep(kind) ==
    IF feature = "prover" THEN IF kind = "Split" THEN "work" ELSE "try_lock"
    ELSE IF kind = "Prove" THEN "read_segment"
    ELSE IF SetsShardSize(kind) THEN "set_var" ELSE "opts"

\* single_node is unimplemented in v1.
Served(kind) == feature = "prover_v2" \/ kind # "SingleNode"

\* A request comes in on a node the client has no other call at.
Arrive(n, k, t) ==
    /\ At(n, k, "free") /\ \A j \in Slots : ~thread[n][j].heard
    /\ Served(KindOf(t))
    /\ thread' = [thread EXCEPT ![n][k] =
                     [Free EXCEPT !.at = FirstStep(KindOf(t)), !.task = t, !.heard = TRUE]]
    /\ UNCHANGED <<feature, mutex, poisoned, program, key, shard_size, abandoned>>

\* The response has been sent.
Respond(n, k) ==
    /\ At(n, k, "done")
    /\ thread' = [thread EXCEPT ![n][k] = Free]
    /\ UNCHANGED <<feature, mutex, poisoned, program, key, shard_size, abandoned>>

\* The handler is dropped with the call; its thread is not.
GiveUp(n, k) ==
    /\ thread[n][k].heard /\ ~At(n, k, "done")
    /\ thread' = [thread EXCEPT ![n][k].heard = FALSE]
    /\ abandoned' = abandoned \cup {n}
    /\ UNCHANGED <<feature, mutex, poisoned, program, key, shard_size>>

----------------------------------------------------------------------------
(* v1: prove_root, prove_aggregate and prove_snark.                        *)

DropsGuard(n, k) ==
    /\ At(n, k, "try_lock")
    /\ IF mutex[n] = Nobody /\ n \notin poisoned THEN Goto(n, k, "work") ELSE Reply(n, k, "Busy")
    /\ UNCHANGED <<feature, mutex, poisoned, program, key, shard_size, abandoned>>

\* A mutex that is held, or poisoned, makes the node busy.
TryLock(n, k) ==
    /\ At(n, k, "try_lock")
    /\ IF mutex[n] = Nobody /\ n \notin poisoned
       THEN Goto(n, k, "work") /\ mutex' = [mutex EXCEPT ![n] = k]
       ELSE Reply(n, k, "Busy") /\ UNCHANGED mutex
    /\ UNCHANGED <<feature, poisoned, program, key, shard_size, abandoned>>

----------------------------------------------------------------------------
(* v2: the segment, the options and the caches.                            *)

\* Ten more tries, then an error.
ReadSegment(n, k) ==
    /\ At(n, k, "read_segment")
    /\ Goto(n, k, "set_var") \/ Reply(n, k, "InternalError")
    /\ UNCHANGED <<feature, mutex, poisoned, program, key, shard_size, abandoned>>

\* NetworkProve::new ...
SetVar(n, k) ==
    /\ At(n, k, "set_var")
    /\ shard_size' = [shard_size EXCEPT ![n] = SizeOf(thread[n][k].task)]
    /\ Goto(n, k, "opts")
    /\ UNCHANGED <<feature, mutex, poisoned, program, key, abandoned>>

\* ... and NetworkProve::default, which reads the environment.
ReadOpts(n, k) ==
    /\ At(n, k, "opts")
    /\ thread' = [thread EXCEPT ![n][k].opts = shard_size[n],
                                ![n][k].at = IF SetsShardSize(Kind(n, k)) THEN "remove_var"
                                             ELSE "work"]
    /\ UNCHANGED <<feature, mutex, poisoned, program, key, shard_size, abandoned>>

KeysFirst(kind, lock) ==
    CASE lock = "none"    -> IF kind = "SingleNode" THEN "key" ELSE "program"
      [] lock = "program" -> IF kind = "Prove" THEN "trace"
                             ELSE IF kind = "SingleNode" THEN "work" ELSE "key"
      [] lock = "key"     -> IF kind = "SingleNode" THEN "program" ELSE "work"

\* Where a thread goes with lock in hand: a split and a single node hold
\* PROGRAM_CACHE and then KEY_CACHE to the end, a root proof gives back the first.
NextLock(kind, lock) ==
    CASE lock = "none"    -> "program"
      [] lock = "program" -> IF kind = "Prove" THEN "trace" ELSE "key"
      [] lock = "key"     -> "work"

KeepsVar(n, k) ==
    /\ At(n, k, "remove_var")
    /\ Goto(n, k, NextLock(Kind(n, k), "none"))
    /\ UNCHANGED <<feature, mutex, poisoned, program, key, shard_size, abandoned>>

\* A segment that is a record, not a state, needs no program.
RemoveVar(n, k) ==
    /\ At(n, k, "remove_var")
    /\ shard_size' = [shard_size EXCEPT ![n] = Default]
    /\ \/ Goto(n, k, NextLock(Kind(n, k), "none"))
       \/ Kind(n, k) = "Prove" /\ Goto(n, k, "key")
    /\ UNCHANGED <<feature, mutex, poisoned, program, key, abandoned>>

LockProgram(n, k) ==
    /\ At(n, k, "program") /\ program[n] = Nobody
    /\ program' = [program EXCEPT ![n] = k]
    /\ Goto(n, k, NextLock(Kind(n, k), "program"))
    /\ UNCHANGED <<feature, mutex, poisoned, key, shard_size, abandoned>>

\* A root proof traces its checkpoint with the program and gives the cache back.
TraceCheckpoint(n, k) ==
    /\ At(n, k, "trace")
    /\ program' = [program EXCEPT ![n] = Nobody]
    /\ Goto(n, k, "key")
    /\ UNCHANGED <<feature, mutex, poisoned, key, shard_size, abandoned>>

LockKey(n, k) ==
    /\ At(n, k, "key") /\ key[n] = Nobody
    /\ key' = [key EXCEPT ![n] = k]
    /\ Goto(n, k, NextLock(Kind(n, k), "key"))
    /\ UNCHANGED <<feature, mutex, poisoned, program, shard_size, abandoned>>

----------------------------------------------------------------------------
(* The end of the work: what the thread held is free again.                *)

Unlock(lock, n, k) == IF lock[n] = k THEN [lock EXCEPT ![n] = Nobody] ELSE lock

LeavesCodeUnset(kind) == {"Ok", "InternalError", "Unspecified"}

\* A v1 split that cannot read the elf returns (0, 0), which counts as busy.
Codes(kind) == {"Ok", "InternalError"}
    \cup IF feature = "prover" /\ kind = "Split" THEN {"Busy"} ELSE {}

Ends(n, k, codes) ==
    /\ \E code \in codes : Reply(n, k, code)
    /\ mutex' = Unlock(mutex, n, k)
    /\ program' = Unlock(program, n, k)
    /\ key' = Unlock(key, n, k)

Work(n, k) ==
    /\ At(n, k, "work")
    /\ Ends(n, k, Codes(Kind(n, k)))
    /\ UNCHANGED <<feature, poisoned, shard_size, abandoned>>

\* Before that: the inputs cannot be read, or, with the program cache in hand, the
\* elf cannot (or the tracer panics).
LoadFails(n, k) ==
    /\ \/ At(n, k, "program") /\ Kind(n, k) # "Prove"
       \/ At(n, k, "trace")
       \/ At(n, k, "key") /\ program[n] = k
    /\ Ends(n, k, {"InternalError"})
    /\ UNCHANGED <<feature, poisoned, shard_size, abandoned>>

\* run_back_task catches a panic.  The mutex of v1 is poisoned by it, those of v2
\* (parking_lot) are not.
Panic(n, k) ==
    /\ At(n, k, "work")
    /\ Ends(n, k, {"InternalError"})
    /\ poisoned' = IF mutex[n] = k THEN poisoned \cup {n} ELSE poisoned
    /\ UNCHANGED <<feature, shard_size, abandoned>>

\* A v2 split whose trace worker has lost its turn (SplitExecutor).
Hang(n, k) ==
    /\ At(n, k, "work") /\ feature = "prover_v2" /\ Kind(n, k) = "Split"
    /\ Goto(n, k, "hung")
    /\ UNCHANGED <<feature, mutex, poisoned, program, key, shard_size, abandoned>>

----------------------------------------------------------------------------
\* What a thread does by itself, where it waits for another, and what may befall it.
ThreadRuns(n, k) ==
    \/ TryLock(n, k)
    \/ ReadSegment(n, k) \/ SetVar(n, k) \/ ReadOpts(n, k) \/ RemoveVar(n, k)
    \/ TraceCheckpoint(n, k) \/ Work(n, k)

ThreadLocks(n, k) == LockProgram(n, k) \/ LockKey(n, k)

ThreadFails(n, k) == LoadFails(n, k) \/ Panic(n, k) \/ Hang(n, k)

Next ==
    \E n \in Nodes, k \in Slots :
        \/ \E t \in Tasks : Arrive(n, k, t)
        \/ Respond(n, k) \/ GiveUp(n, k)
        \/ ThreadRuns(n, k) \/ ThreadLocks(n, k) \/ ThreadFails(n, k)

Spec == Init /\ [][Next]_vars

\* A thread runs on, its work ends unless it hangs, and a parking_lot mutex that is
\* given back again and again is had in the end.
FairSpec ==
    /\ Spec
    /\ \A n \in Nodes, k \in Slots : WF_vars(ThreadRuns(n, k)) /\ SF_vars(ThreadLocks(n, k))

----------------------------------------------------------------------------
(* Properties.                                                             *)

Places == {"free", "try_lock", "read_segment", "set_var", "opts", "remove_var",
           "program", "trace", "key", "work", "hung", "done"}
Sizes == {SizeOf(t) : t \in Tasks} \cup {Default}
Answers == {"none", "Ok", "Busy", "InternalError"}

Thread == [at : Places, task : Tasks \cup {NoTask}, opts : Sizes,
           answer : Answers, heard : BOOLEAN]

\* The types of the threads and of what they share.
TypeOK ==
    /\ feature \in Features
    /\ thread \in [Nodes -> [Slots -> Thread]]
    /\ mutex \in [Nodes -> Slots \cup {Nobody}] /\ poisoned \subseteq Nodes
    /\ program \in [Nodes -> Slots \cup {Nobody}] /\ key \in [Nodes -> Slots \cup {Nobody}]
    /\ shard_size \in [Nodes -> Sizes]
    /\ abandoned \subseteq Nodes

\* "Each node can run a proving task" (README.md): a v1 node computes at most one
\* proof, although the client hands a node out again while the thread of a call
\* that ran into its timeout is still at work there.
OneProofPerNode ==
    feature = "prover" =>
        \A n \in Nodes : \A j, k \in Slots :
            At(n, j, "work") /\ At(n, k, "work") /\ Kind(n, j) # "Split" /\ Kind(n, k) # "Split"
                => j = k

\* The options a task should have.
OwnOpts(t) == IF SetsShardSize(KindOf(t)) THEN SizeOf(t) ELSE Default

\* A v2 task is computed with the shard size of its own job, although the size
\* goes through the environment of the process, also after errors and panics:
\* wherever no call was given up, one task's variable is gone before the next.
OwnShardSize ==
    \A n \in Nodes \ abandoned, k \in Slots :
        thread[n][k].at \in {"remove_var", "program", "trace", "key", "work"} /\ feature = "prover_v2"
            => thread[n][k].opts = OwnOpts(thread[n][k].task)

\* No two threads of a node wait for each other's cache: a request is answered,
\* unless a split hangs on the node.
NodeAnswers ==
    \A n \in Nodes, k \in Slots :
        ~At(n, k, "free") ~> \/ thread[n][k].at \in {"free", "done"}
                            \/ \E j \in Slots : At(n, j, "hung")
=============================================================================
