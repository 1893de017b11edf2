-------------------------------- MODULE Stage --------------------------------
(***************************************************************************)
(* One proof job: the Stage object of proof-service/src/stage/stage.rs and *)
(* the loop of run_stage_task (stage/stage_worker.rs) that drives it.      *)
(*                                                                         *)
(* The loop is one asynchronous task.  Each turn it starts calls to the    *)
(* provers (Schedule), waits for one result or for a 200 ms tick (OnSplit, *)
(* OnProve, OnAgg, OnSnark, Tick) and lets the stage react (Dispatch...).  *)
(* Every call is a tokio task of its own, so results come back in any      *)
(* order.  Meanwhile the splitter, another process, writes the segments to *)
(* the shared directory the stage polls (SplitPublish, SplitWrite).        *)
(*                                                                         *)
(* A receipt is the sequence of the root proofs it covers, so that what a  *)
(* proof proves can be compared with what was executed.                    *)
(***************************************************************************)
EXTENDS AggGraph, Integers

CONSTANTS
    Jobs,           \* the generate_tasks considered
    Segments,       \* number of segments the program splits into
    Deferred,       \* number of deferred proofs the split produces (v2 only)
    MaxProverNum,   \* max_prover_num of the job
    Prealloc,       \* prove tasks allocated before the split reports (64 in the code)
    MaxFailures,    \* failures of a prove task that are retried (3 in the code)
    Results         \* states in which a call may hand its task back

TaskState == {"Initial", "Unprocessed", "Processing", "Success", "Failed"}
Step == {"Init", "Split", "Prove", "Agg", "Snark", "End"}

\* What generate_proof lets through (stage_service.rs).
GenerateTask == [from_step : {"Init", "Agg"},
                 target_step : {"Split", "Agg", "Snark"},
                 composite_proof : BOOLEAN]

ASSUME StageAssumption ==
    /\ Jobs \subseteq GenerateTask
    /\ Segments \in Nat \ {0} /\ Deferred \in Nat
    /\ Feature = "prover" => Deferred = 0
    /\ MaxProverNum \in Nat \ {0} /\ Prealloc \in Nat \ {0} /\ MaxFailures \in Nat
    /\ Results \subseteq {"Unprocessed", "Processing", "Success", "Failed"}

VARIABLES
    job,            \* generate_task: fixed for the job
    step,           \* stage.step
    split,          \* split_task.state
    prove,          \* prove_tasks: index -> [state, failure_count, is_deferred, output]
    agg,            \* agg_tasks: index -> [state, inputs, childs, is_final, output]
    snark,          \* snark_task: [state, agg_receipt]
    is_error,
    is_tasks_gen_done,
    calls,          \* prover calls in flight: [ref, input]
    published,      \* number in segments.txt, 0 when there is no such file
    segfiles,       \* segment files on disk
    proofFile,      \* the file snark_path: [exists, receipt]
    pc,             \* where the loop is
    status          \* the status column of the job's row

stageVars == <<step, split, prove, agg, snark, is_error, is_tasks_gen_done>>
diskVars == <<published, segfiles>>
vars == <<job, stageVars, calls, diskVars, proofFile, pc, status>>

SplitRef == <<"split", 0>>
SnarkRef == <<"snark", 0>>

NoReceipt == <<>>
ClientReceipt == <<-1>>         \* the receipt a from_step = Agg job brings along
RunnableAgain == {"Unprocessed", "Failed", "Success"}
Runnable == {"Unprocessed", "Failed"}

\* Everything a complete proof of the execution covers, in order.
Execution == [j \in 1..(Segments + Deferred) |-> j - 1]

----------------------------------------------------------------------------
(* Helpers of the stage.                                                   *)

task_with_no == [state |-> "Unprocessed", failure_count |-> 0,
                 is_deferred |-> FALSE, output |-> NoReceipt]

\* A deferred proof was made during the split: its task is born successful.
deferred_task(i) == [state |-> "Success", failure_count |-> 0,
                     is_deferred |-> TRUE, output |-> <<i>>]

\* A Vec indexed from 0; push and extend only ever add fresh tasks.
EmptyVec == [i \in {} |-> task_with_no]
GrownTo(vec, n) ==
    [i \in DOMAIN vec \cup 0..(n - 1) |-> IF i \in DOMAIN vec THEN vec[i] ELSE task_with_no]

\* gen_prove_task: allocate ahead of the split, then follow segments.txt.
gen_prove_task ==
    IF job.target_step = "Split" \/ is_tasks_gen_done THEN prove
    ELSE GrownTo(IF DOMAIN prove = {} THEN GrownTo(EmptyVec, Prealloc) ELSE prove, published)

RegeneratesTasks(tasks) ==
    [i \in 0..(Segments + Deferred - 1) |->
        IF i >= Segments THEN deferred_task(i)
        ELSE task_with_no]

\* gen_prove_task_post: cut or extend to total_segments, then append the deferred
\* proofs, which are done.
gen_prove_task_post(tasks) ==
    [i \in 0..(Segments + Deferred - 1) |->
        IF i >= Segments THEN deferred_task(i)
        ELSE IF i \in DOMAIN tasks THEN tasks[i] ELSE task_with_no]

gen_agg_tasks(tasks) ==
    LET d == Cardinality({i \in DOMAIN tasks : tasks[i].is_deferred})
        n == Cardinality({i \in DOMAIN tasks : ~tasks[i].is_deferred})
    IN [a \in 0..(AggCount(n, d) - 1) |->
           [state    |-> IF IsPlaceholder(n, d, a) THEN "Success" ELSE "Unprocessed",
            inputs   |-> AggInputs(n, d, a),
            childs   |-> AggChilds(n, d, a),
            is_final |-> IsFinal(n, d, a),
            output   |-> NoReceipt]]

\* clear_agg_child_task for every r in done: the first unprocessed task that
\* waits for r stops waiting.
Waiting(tasks, r) == {a \in DOMAIN tasks : tasks[a].state = "Unprocessed" /\ r \in tasks[a].childs}

clear_agg_child_tasks(tasks, done) ==
    [a \in DOMAIN tasks |->
        [tasks[a] EXCEPT !.childs =
            {r \in @ : ~(/\ r \in done
                         /\ a \in Waiting(tasks, r)
                         /\ \A b \in Waiting(tasks, r) : a <= b)}]]

ForgetsSuccesses(tasks) == {}
SuccessRefs(tasks) == {Prove(i) : i \in {j \in DOMAIN tasks : tasks[j].state = "Success"}}

AllSuccess(tasks) == \A i \in DOMAIN tasks : tasks[i].state = "Success"

is_success == step = "End" \/ snark.state = "Success"

count_unfinished_prove_tasks == Cardinality({i \in DOMAIN prove : prove[i].state # "Success"})
count_processing_prove_tasks == Cardinality({i \in DOMAIN prove : prove[i].state = "Processing"})

\* The output find(..) looks up for an input.
OutputOf(r) == IF r[1] = "agg" THEN agg[r[2]].output ELSE prove[r[2]].output

\* What the provers make of the inputs they are given.
Joined(ins) == IF 1 \notin DOMAIN ins THEN NoReceipt
               ELSE IF 2 \notin DOMAIN ins THEN OutputOf(ins[1])
               ELSE OutputOf(ins[1]) \o OutputOf(ins[2])

FirstReceipt(tasks) == IF 0 \in DOMAIN tasks THEN tasks[0].output ELSE NoReceipt

\* The snark input for a job that starts at Init: the final aggregation's output.
FinalReceipt(tasks) ==
    IF \E a \in DOMAIN tasks : tasks[a].is_final
    THEN tasks[CHOOSE a \in DOMAIN tasks : tasks[a].is_final].output
    ELSE NoReceipt

----------------------------------------------------------------------------
(* The initial state.  A job that is resumed after a restart starts from   *)
(* its first step again but finds the segments of the earlier run on disk. *)

Init ==
    /\ job \in Jobs
    /\ step = job.from_step
    /\ split = "Initial"
    /\ prove = EmptyVec
    /\ agg = EmptyVec
    /\ snark = [state |-> "Initial", agg_receipt |-> NoReceipt]
    /\ is_error = FALSE
    /\ is_tasks_gen_done = FALSE
    /\ calls = {}
    /\ published \in IF job.from_step = "Init" THEN 0..Segments ELSE {0}
    /\ segfiles \in SUBSET (0..(published - 1))
    /\ proofFile = [exists |-> FALSE, receipt |-> NoReceipt]
    /\ pc = "dispatch"
    /\ status = "Computing"

----------------------------------------------------------------------------
(* The splitter process.  segments.txt is raised before the segments it    *)
(* announces are written, and a call that timed out leaves its splitter    *)
(* running, so writes are not tied to a call in flight.  A splitter that   *)
(* starts over lowers segments.txt for a while; the stage never shrinks    *)
(* its vector for that (gen_prove_task), so only rising numbers matter.    *)

SplitPublish ==
    /\ job.from_step = "Init"
    /\ \E k \in (published + 1)..Segments : published' = k
    /\ UNCHANGED <<job, stageVars, calls, segfiles, proofFile, pc, status>>

SplitWrite(i) ==
    /\ i \in 0..(published - 1) \ segfiles
    /\ segfiles' = segfiles \cup {i}
    /\ UNCHANGED <<job, stageVars, calls, published, proofFile, pc, status>>

----------------------------------------------------------------------------
(* The top of the loop: which calls this turn starts.                      *)

Call(r, receipt) == [ref |-> r, input |-> receipt]

\* get_split_task, get_snark_task: the task itself when it can be started.
SplitCalls == IF split \in Runnable THEN {Call(SplitRef, NoReceipt)} ELSE {}

SnarkCalls == IF snark.state \in Runnable THEN {Call(SnarkRef, snark.agg_receipt)} ELSE {}

\* get_prove_task: the first runnable task whose segment file exists.
ProveReady == {i \in DOMAIN prove : prove[i].state \in Runnable /\ i \in segfiles}

ProvePick ==
    IF count_processing_prove_tasks < MaxProverNum
    THEN {i \in ProveReady : \A k \in ProveReady : i <= k}
    ELSE {}

IgnoresChilds == {a \in DOMAIN agg : agg[a].state \in Runnable}

\* get_agg_task: the first runnable task that waits for no child, once fewer
\* root proofs are missing than there are provers.
AggReady == {a \in DOMAIN agg : agg[a].childs = {} /\ agg[a].state \in Runnable}

\* The counts are taken after this turn's prove task has been marked Processing,
\* which does not change how many are unfinished.
AggPick ==
    IF is_tasks_gen_done /\ count_unfinished_prove_tasks < MaxProverNum
    THEN {a \in AggReady : \A b \in AggReady : a <= b}
    ELSE {}

ScheduleProve ==
    /\ pc = "top" /\ step = "Prove"
    /\ split' = IF split \in Runnable THEN "Processing" ELSE split
    /\ prove' = [i \in DOMAIN prove |->
                   IF i \in ProvePick THEN [prove[i] EXCEPT !.state = "Processing"] ELSE prove[i]]
    /\ agg' = [a \in DOMAIN agg |->
                   IF a \in AggPick THEN [agg[a] EXCEPT !.state = "Processing"] ELSE agg[a]]
    /\ calls' = calls \cup SplitCalls
                      \cup {Call(Prove(i), <<i>>) : i \in ProvePick}
                      \cup {Call(Agg(a), Joined(agg[a].inputs)) : a \in AggPick}
    /\ pc' = "select"
    /\ UNCHANGED <<job, step, snark, is_error, is_tasks_gen_done, diskVars, proofFile, status>>

ScheduleSnark ==
    /\ pc = "top" /\ step = "Snark"
    /\ snark' = [snark EXCEPT !.state = IF @ \in Runnable THEN "Processing" ELSE @]
    /\ calls' = calls \cup SnarkCalls
    /\ pc' = "select"
    /\ UNCHANGED <<job, step, split, prove, agg, is_error, is_tasks_gen_done, diskVars, proofFile, status>>

\* In any other step the turn starts nothing.
ScheduleNothing ==
    /\ pc = "top" /\ step \notin {"Prove", "Snark"}
    /\ pc' = "select"
    /\ UNCHANGED <<job, stageVars, calls, diskVars, proofFile, status>>

----------------------------------------------------------------------------
(* The result of a call.  r is the state in which the client handed the    *)
(* task back; the message and the end of the call are one step, since each *)
(* call sends exactly one message and nobody else reads it.                *)

Reported == {"Failed", "Success", "Unprocessed"}

OnSplit(r) ==
    /\ pc = "select"
    /\ \E c \in calls : c.ref = SplitRef /\ calls' = calls \ {c}
    /\ r = "Success" => segfiles = 0..(Segments - 1)
    /\ split' = IF r \in Reported THEN r ELSE split
    /\ is_error' = (is_error \/ r = "Failed")
    /\ pc' = "dispatch"
    /\ UNCHANGED <<job, step, prove, agg, snark, is_tasks_gen_done, diskVars, proofFile, status>>

\* A failed root proof is retried MaxFailures times.
RetriesUsedUp(task) == task.failure_count >= MaxFailures

CountsEveryFailure(task, r, receipt) ==
    IF r \notin Reported THEN task
    ELSE [task EXCEPT
            !.state = r,
            !.output = IF r = "Success" THEN receipt ELSE @,
            !.failure_count = IF r = "Failed" THEN @ + 1 ELSE @]

AfterProve(task, r, receipt) ==
    IF r \notin Reported THEN task
    ELSE [task EXCEPT
            !.state = r,
            !.output = IF r = "Success" THEN receipt ELSE IF r = "Failed" THEN NoReceipt ELSE @,
            !.failure_count = IF r = "Failed" /\ ~RetriesUsedUp(task) THEN @ + 1 ELSE @]

RaisesFirst(task, r) == r = "Failed" /\ RetriesUsedUp(AfterProve(task, r, NoReceipt))

\* The count is compared as it was before this failure.
IsFatal(task, r) == r = "Failed" /\ RetriesUsedUp(task)

OnProve(i, r) ==
    LET live == i \in DOMAIN prove /\ prove[i].state = "Processing" IN
    /\ pc = "select"
    /\ \E c \in calls :
        /\ c.ref = Prove(i) /\ calls' = calls \ {c}
        /\ prove' = IF live THEN [prove EXCEPT ![i] = AfterProve(@, r, c.input)] ELSE prove
    /\ is_error' = (is_error \/ (live /\ IsFatal(prove[i], r)))
    /\ agg' = IF r = "Success" THEN clear_agg_child_tasks(agg, {Prove(i)}) ELSE agg
    /\ pc' = "dispatch"
    /\ UNCHANGED <<job, step, split, snark, is_tasks_gen_done, diskVars, proofFile, status>>

AfterAgg(task, r, receipt) ==
    IF r \notin Reported THEN task
    ELSE [task EXCEPT
            !.state = r,
            !.output = IF r = "Success" THEN receipt ELSE IF r = "Failed" THEN NoReceipt ELSE @]

OnAgg(a, r) ==
    LET live == a \in DOMAIN agg /\ agg[a].state = "Processing" IN
    /\ pc = "select"
    /\ \E c \in calls :
        /\ c.ref = Agg(a) /\ calls' = calls \ {c}
        /\ LET tasks == IF live THEN [agg EXCEPT ![a] = AfterAgg(@, r, c.input)] ELSE agg
           IN agg' = IF r = "Success" THEN clear_agg_child_tasks(tasks, {Agg(a)}) ELSE tasks
        /\ proofFile' = IF r = "Success" /\ a \in DOMAIN agg /\ agg[a].is_final
                             /\ job.target_step = "Agg"
                        THEN [exists |-> TRUE, receipt |-> c.input] ELSE proofFile
    /\ is_error' = (is_error \/ (live /\ r = "Failed"))
    /\ pc' = "dispatch"
    /\ UNCHANGED <<job, step, split, prove, snark, is_tasks_gen_done, diskVars, status>>

\* on_snark_task writes the output whatever the result: an empty file unless the
\* call succeeded.
OnSnark(r) ==
    /\ pc = "select"
    /\ \E c \in calls :
        /\ c.ref = SnarkRef /\ calls' = calls \ {c}
        /\ proofFile' = [exists |-> TRUE, receipt |-> IF r = "Success" THEN c.input ELSE NoReceipt]
    /\ snark' = [snark EXCEPT !.state = IF r \in Reported THEN r ELSE @]
    /\ is_error' = (is_error \/ r = "Failed")
    /\ pc' = "dispatch"
    /\ UNCHANGED <<job, step, split, prove, agg, is_tasks_gen_done, diskVars, status>>

Tick ==
    /\ pc = "select"
    /\ pc' = "dispatch"
    /\ UNCHANGED <<job, stageVars, calls, diskVars, proofFile, status>>

----------------------------------------------------------------------------
(* After the message or the tick: leave the loop, or dispatch and go on.   *)

Ended == is_success \/ is_error

Break ==
    /\ pc = "dispatch" /\ Ended
    /\ pc' = "finish"
    /\ UNCHANGED <<job, stageVars, calls, diskVars, proofFile, status>>

\* gen_snark_task
gen_snark_task(tasks) ==
    [state |-> "Unprocessed",
     agg_receipt |-> IF job.from_step = "Init" THEN FinalReceipt(tasks) ELSE ClientReceipt]

DispatchInit ==
    /\ pc = "dispatch" /\ ~Ended /\ step = "Init"
    /\ split' = "Unprocessed"
    /\ step' = "Prove"
    /\ pc' = "top"
    /\ UNCHANGED <<job, prove, agg, snark, is_error, is_tasks_gen_done, calls, diskVars, proofFile, status>>

\* The split is what the job asked for.
DispatchSplitDone ==
    /\ pc = "dispatch" /\ ~Ended /\ step = "Prove"
    /\ split = "Success" /\ ~is_tasks_gen_done /\ job.target_step = "Split"
    /\ step' = "End"
    /\ pc' = "top"
    /\ UNCHANGED <<job, split, prove, agg, snark, is_error, is_tasks_gen_done, calls, diskVars, proofFile, status>>

SkipsSnark(done, tasks, aggs) ==
    IF done /\ AllSuccess(tasks) /\ (job.composite_proof \/ AllSuccess(aggs))
    THEN step' = "End" /\ UNCHANGED snark
    ELSE UNCHANGED <<step, snark>>

\* The end of the Prove arm: tasks and aggs are the vectors it has arrived at.
Advance(done, tasks, aggs) ==
    IF done /\ AllSuccess(tasks) /\ job.composite_proof
    THEN step' = "End" /\ UNCHANGED snark
    ELSE IF done /\ AllSuccess(tasks) /\ AllSuccess(aggs)
    THEN IF job.target_step = "Agg"
         THEN step' = "End" /\ UNCHANGED snark
         ELSE step' = "Snark" /\ snark' = gen_snark_task(aggs)
    ELSE UNCHANGED <<step, snark>>

\* The split has just been reported: fix the prove tasks, build the aggregation
\* graph and account for the root proofs that are already there.
DispatchGenerate ==
    LET tasks == gen_prove_task_post(gen_prove_task)
        aggs  == IF job.composite_proof THEN agg
                 ELSE clear_agg_child_tasks(gen_agg_tasks(tasks), SuccessRefs(tasks))
    IN /\ pc = "dispatch" /\ ~Ended /\ step = "Prove"
       /\ split = "Success" /\ ~is_tasks_gen_done /\ job.target_step # "Split"
       /\ prove' = tasks
       /\ agg' = aggs
       /\ is_tasks_gen_done' = TRUE
       /\ is_error' = (Feature = "prover" /\ Segments + Deferred < 2)
       /\ Advance(TRUE, tasks, aggs)
       /\ pc' = "top"
       /\ UNCHANGED <<job, split, calls, diskVars, proofFile, status>>

\* Any other turn of the Prove step.
DispatchProve ==
    /\ pc = "dispatch" /\ ~Ended /\ step = "Prove"
    /\ split = "Success" => is_tasks_gen_done
    /\ prove' = gen_prove_task
    /\ Advance(is_tasks_gen_done, gen_prove_task, agg)
    /\ pc' = "top"
    /\ UNCHANGED <<job, split, agg, is_error, is_tasks_gen_done, calls, diskVars, proofFile, status>>

\* A job that starts at Agg goes straight to the snark.
DispatchAgg ==
    /\ pc = "dispatch" /\ ~Ended /\ step = "Agg"
    /\ snark' = gen_snark_task(agg)
    /\ step' = "Snark"
    /\ pc' = "top"
    /\ UNCHANGED <<job, split, prove, agg, is_error, is_tasks_gen_done, calls, diskVars, proofFile, status>>

\* A successful snark task has already ended the loop.
DispatchSnark ==
    /\ pc = "dispatch" /\ ~Ended /\ step = "Snark"
    /\ pc' = "top"
    /\ UNCHANGED <<job, stageVars, calls, diskVars, proofFile, status>>

----------------------------------------------------------------------------
(* After the loop: the row gets its final status.                          *)

ErrorStatus ==
    CASE step = "Split" -> "SplitError"
      [] step = "Prove" -> "ProveError"
      [] step = "Agg"   -> "AggError"
      [] step = "Snark" -> "SnarkError"
      [] OTHER          -> "InternalError"

FinishError ==
    /\ pc = "finish" /\ is_error
    /\ status' = ErrorStatus
    /\ pc' = "done"
    /\ UNCHANGED <<job, stageVars, calls, diskVars, proofFile>>

FinishSuccess ==
    /\ pc = "finish" /\ ~is_error
    /\ job.target_step = "Snark" => proofFile.exists
    /\ status' = "Success"
    /\ pc' = "done"
    /\ UNCHANGED <<job, stageVars, calls, diskVars, proofFile>>

\* read().unwrap() of a proof that was never written: the task dies and the row
\* keeps its status.
FinishPanic ==
    /\ pc = "finish" /\ ~is_error
    /\ job.target_step = "Snark" /\ ~proofFile.exists
    /\ pc' = "panicked"
    /\ UNCHANGED <<job, stageVars, calls, diskVars, proofFile, status>>

\* The task is gone; only the splitter may still be writing.
Stopped == pc \in {"done", "panicked"} /\ UNCHANGED vars

----------------------------------------------------------------------------
Schedule == ScheduleProve \/ ScheduleSnark \/ ScheduleNothing

Dispatch == \/ DispatchInit \/ DispatchSplitDone \/ DispatchGenerate
            \/ DispatchProve \/ DispatchAgg \/ DispatchSnark

Finish == FinishError \/ FinishSuccess \/ FinishPanic

Next ==
    \/ Schedule
    \/ \E r \in Results : OnSplit(r) \/ OnSnark(r)
    \/ \E r \in Results : \E c \in calls :
           OnProve(c.ref[2], r) \/ OnAgg(c.ref[2], r)
    \/ Tick
    \/ Break
    \/ Dispatch
    \/ Finish
    \/ SplitPublish
    \/ \E i \in 0..(Segments - 1) : SplitWrite(i)
    \/ Stopped

Spec == Init /\ [][Next]_vars

----------------------------------------------------------------------------
(* Fairness: the loop keeps turning, the splitter keeps writing, and a     *)
(* task that is offered to the provers again and again is answered at some *)
(* point with something other than "not taken".                            *)

Answers == Results \ {"Unprocessed"}

LoopStep == Schedule \/ Tick \/ Break \/ Dispatch \/ Finish

Fairness ==
    /\ WF_vars(LoopStep)
    /\ WF_vars(SplitPublish)
    /\ WF_vars(\E i \in 0..(Segments - 1) : SplitWrite(i))
    /\ SF_vars(\E r \in Answers : OnSplit(r))
    /\ SF_vars(\E r \in Answers : OnSnark(r))
    /\ \A i \in 0..(Segments - 1) : SF_vars(\E r \in Answers : OnProve(i, r))
    /\ \A a \in 0..(AggCount(Segments, Deferred) - 1) : SF_vars(\E r \in Answers : OnAgg(a, r))

FairSpec == Spec /\ Fairness

----------------------------------------------------------------------------
(* Properties.                                                             *)

Receipt == Seq(Int)

Ref == {"split", "prove", "agg", "snark"} \X Nat

ProveTask == [state : TaskState, failure_count : 0..MaxFailures,
              is_deferred : BOOLEAN, output : Receipt]

\* The inputs of a task are fixed when the graph is built, and it waits for
\* nothing else.
AggTask(a) == LET ins == AggInputs(Segments, Deferred, a) IN
    [state : TaskState, inputs : {ins}, childs : SUBSET SeqRange(ins),
     is_final : BOOLEAN, output : Receipt]

Statuses == {"Computing", "Success", "SplitError", "ProveError", "AggError",
             "SnarkError", "InternalError"}

\* The types of the Stage fields, of the calls and of the shared directory; the
\* prove and aggregation vectors are functions on indices.
TypeOK ==
    /\ job \in Jobs
    /\ step \in Step
    /\ split \in TaskState
    /\ DOMAIN prove \subseteq Nat /\ prove \in [DOMAIN prove -> ProveTask]
    /\ DOMAIN agg \subseteq Nat /\ \A a \in DOMAIN agg : agg[a] \in AggTask(a)
    /\ snark \in [state : TaskState, agg_receipt : Receipt]
    /\ is_error \in BOOLEAN /\ is_tasks_gen_done \in BOOLEAN
    /\ calls \subseteq [ref : Ref, input : Receipt]
    /\ published \in 0..Segments /\ segfiles \subseteq 0..(published - 1)
    /\ proofFile \in [exists : BOOLEAN, receipt : Receipt]
    /\ pc \in {"top", "select", "dispatch", "finish", "done", "panicked"}
    /\ status \in Statuses

\* The proof a reference names exists.
ProofDone(r) ==
    IF r[1] = "agg" THEN r[2] \in DOMAIN agg /\ agg[r[2]].state = "Success"
    ELSE r[2] \in DOMAIN prove /\ prove[r[2]].state = "Success"

\* get_agg_task hands an aggregation to the provers only when every proof it
\* combines exists, in whatever order the results came in: the receipts it
\* copies into the request are never those of an unfinished task.
AggInputsReady ==
    \A a \in DOMAIN agg :
        agg[a].state \in {"Processing", "Success", "Failed"}
            => \A r \in SeqRange(agg[a].inputs) : ProofDone(r)

\* An aggregation waits for exactly its unfinished inputs, also for root proofs
\* that came back before gen_agg_tasks built the graph: no wakeup is lost and
\* none comes early (clear_agg_child_task, dispatch).
WaitsForUnfinished ==
    \A a \in DOMAIN agg :
        agg[a].state = "Unprocessed"
            => agg[a].childs = {r \in SeqRange(agg[a].inputs) : ~ProofDone(r)}

StateOf(r) ==
    IF r = SplitRef THEN split
    ELSE IF r = SnarkRef THEN snark.state
    ELSE IF r[1] = "prove" /\ r[2] \in DOMAIN prove THEN prove[r[2]].state
    ELSE IF r[1] = "agg" /\ r[2] \in DOMAIN agg THEN agg[r[2]].state
    ELSE "Absent"

\* A task is at the provers at most once, and the stage still knows it and holds
\* it as Processing: on_prove_task and on_agg_task never drop a result, and a
\* result never meets a task that has moved on (also not through the truncation
\* in gen_prove_task_post).
OneCallPerTask ==
    /\ \A c \in calls : StateOf(c.ref) = "Processing"
    /\ \A c, e \in calls : c.ref = e.ref => c = e

\* What a job that reports Success has produced: every segment on disk, every
\* root proof (composite), or a proof file whose proof covers the whole execution
\* in order -- the client's receipt if the job started from it.
SuccessMeansProof ==
    status = "Success" =>
        CASE job.from_step = "Agg" -> proofFile = [exists |-> TRUE, receipt |-> ClientReceipt]
          [] job.from_step = "Init" /\ job.target_step = "Split" -> segfiles = 0..(Segments - 1)
          [] job.from_step = "Init" /\ job.target_step # "Split" /\ job.composite_proof ->
                \A i \in 0..(Segments + Deferred - 1) : prove[i].output = <<i>>
          [] OTHER -> proofFile = [exists |-> TRUE, receipt |-> Execution]

\* The failures that end a job at once: of the split, the snark or an aggregation, or
\* a v1 program too small to aggregate.
FailedAtOnce ==
    \/ split = "Failed" \/ snark.state = "Failed"
    \/ \E a \in DOMAIN agg : agg[a].state = "Failed"
    \/ Feature = "prover" /\ Segments + Deferred < 2

\* The cause of an error is still to be seen when the row is written.
ErrorKept ==
    is_error =>
        \/ FailedAtOnce
        \/ \E i \in DOMAIN prove : prove[i].state = "Failed" /\ prove[i].failure_count = MaxFailures

\* The result that makes it one.
ErrorFound ==
    is_error' /\ ~is_error =>
        \/ FailedAtOnce'
        \/ \E i \in DOMAIN prove :
            /\ prove[i].state = "Processing" /\ prove[i].failure_count = MaxFailures
            /\ prove'[i].state = "Failed"

\* A job ends in an error only for a failure of FailedAtOnce or for a root proof, and
\* the cause lasts until the row is written.  A root proof must have used up its
\* retries before the failure that ends the job: the count is compared before it is
\* raised, so the failure with which it reaches MaxFailures is retried like the ones
\* before.
ErrorHasCause == []ErrorKept /\ [][ErrorFound]_vars

\* A finished root proof or aggregation is never lost, redone or replaced, by no
\* result, retry, truncation or regeneration.
FinishedProofsKept ==
    [][/\ \A i \in DOMAIN prove : prove[i].state = "Success"
              => i \in DOMAIN prove' /\ prove'[i] = prove[i]
       /\ \A a \in DOMAIN agg : agg[a].state = "Success"
              => a \in DOMAIN agg' /\ agg'[a] = agg[a]]_vars

\* Every job comes to a final status: the loop of run_stage_task never waits for
\* a result or a child that cannot come any more.
EventuallyReported == <>(status # "Computing")

\* run_stage_task never waits for a result that nobody will bring: as long as there
\* is something left to prove, a call is in flight whenever the loop stands at its
\* select (if no call hands its task back as Processing; ImplementsStage).  A child
\* that is not cleared, or an aggregation left behind, would leave it empty-handed.
WaitsForACall == pc = "select" /\ step \in {"Prove", "Snark"} => calls # {}

\* Once its program is there, run_stage_task dies on a proof file that is not there,
\* and leaves its row Computing, for one kind of request only: a composite proof,
\* which ends before the snark, with target Snark, the default.  (A job with a
\* block_no meets a todo!() before its Stage has done anything; it is among the
\* Doomed of TaskLifecycle.)
PanicHasCause ==
    pc = "panicked" => job.from_step = "Init" /\ job.target_step = "Snark" /\ job.composite_proof
=============================================================================
