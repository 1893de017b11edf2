----------------------------- MODULE StageProofs -----------------------------
(***************************************************************************)
(* Proofs about Stage, for any number of segments, deferred proofs and     *)
(* provers, any set of jobs and both builds.                               *)
(***************************************************************************)
EXTENDS Stage, AggGraphProofs, FiniteSetTheorems, SequenceTheorems, TLAPS

----------------------------------------------------------------------------
(* The inductive invariant.                                                *)

\* Every call in flight belongs to a task that the stage holds as Processing; a
\* root proof in flight is one the truncation in gen_prove_task_post keeps.
CallIsLive(c) ==
    \/ c.ref = SplitRef /\ split = "Processing"
    \/ c.ref = SnarkRef /\ snark.state = "Processing"
    \/ \E i \in DOMAIN prove : c.ref = Prove(i) /\ i < Segments /\ prove[i].state = "Processing"
    \/ \E a \in DOMAIN agg : c.ref = Agg(a) /\ agg[a].state = "Processing"

CallsLive == \A c \in calls : CallIsLive(c)

CallsUnique == \A c, e \in calls : c.ref = e.ref => c = e

\* Before the graph exists there are no aggregations, and only tasks whose segment
\* is real have been started.
BeforeGraph ==
    ~is_tasks_gen_done =>
        /\ DOMAIN agg = {}
        /\ \A i \in DOMAIN prove :
              ~prove[i].is_deferred /\ (prove[i].state # "Unprocessed" => i < Segments)

NotYetStarted ==
    /\ step \in {"Init", "Prove", "Agg"} => snark.state = "Initial"
    /\ step = "Init" => split = "Initial"

\* An aggregation waits at least for its unfinished inputs, and not at all once it
\* has been started.
ChildsCoverInputs ==
    \A a \in DOMAIN agg :
        /\ \A r \in SeqRange(agg[a].inputs) : r \in agg[a].childs \/ ProofDone(r)
        /\ agg[a].state # "Unprocessed" => agg[a].childs = {}

IInv == TypeOK /\ CallsLive /\ CallsUnique /\ BeforeGraph /\ NotYetStarted /\ ChildsCoverInputs

\* What no step may do: drop or change a finished proof.
ProofsKept ==
    /\ \A i \in DOMAIN prove : prove[i].state = "Success"
          => i \in DOMAIN prove' /\ prove'[i] = prove[i]
    /\ \A a \in DOMAIN agg : agg[a].state = "Success"
          => a \in DOMAIN agg' /\ agg'[a] = agg[a]

----------------------------------------------------------------------------
(* Lemmas about the operators of the stage.                                *)

LEMMA FreshTask == task_with_no \in ProveTask /\ task_with_no.state = "Unprocessed"
                     /\ ~task_with_no.is_deferred
  BY StageAssumption DEF task_with_no, ProveTask, TaskState, Receipt, NoReceipt

\* gen_prove_task only appends fresh tasks.
LEMMA GenProveTask ==
    ASSUME TypeOK
    PROVE  /\ DOMAIN gen_prove_task \subseteq Nat
           /\ gen_prove_task \in [DOMAIN gen_prove_task -> ProveTask]
           /\ \A i \in DOMAIN prove : i \in DOMAIN gen_prove_task /\ gen_prove_task[i] = prove[i]
           /\ \A i \in DOMAIN gen_prove_task \ DOMAIN prove : gen_prove_task[i] = task_with_no
  <1> DEFINE start == IF DOMAIN prove = {} THEN GrownTo(EmptyVec, Prealloc) ELSE prove
  <1>1. /\ DOMAIN start \subseteq Nat /\ start \in [DOMAIN start -> ProveTask]
        /\ \A i \in DOMAIN prove : i \in DOMAIN start /\ start[i] = prove[i]
        /\ \A i \in DOMAIN start \ DOMAIN prove : start[i] = task_with_no
    BY FreshTask, StageAssumption DEF GrownTo, EmptyVec, TypeOK
  <1> HIDE DEF start
  <1>2. published \in Nat
    BY StageAssumption DEF TypeOK
  <1>3. /\ DOMAIN GrownTo(start, published) \subseteq Nat
        /\ GrownTo(start, published) \in [DOMAIN GrownTo(start, published) -> ProveTask]
        /\ \A i \in DOMAIN start : i \in DOMAIN GrownTo(start, published)
                                     /\ GrownTo(start, published)[i] = start[i]
        /\ \A i \in DOMAIN GrownTo(start, published) \ DOMAIN start :
               GrownTo(start, published)[i] = task_with_no
    BY <1>1, <1>2, FreshTask DEF GrownTo
  <1>4. CASE job.target_step = "Split" \/ is_tasks_gen_done
    BY <1>4 DEF gen_prove_task, TypeOK
  <1>5. CASE ~(job.target_step = "Split" \/ is_tasks_gen_done)
    <2>1. gen_prove_task = GrownTo(start, published)
      BY <1>5 DEF gen_prove_task, start
    <2>2. QED
      BY <1>1, <1>3, <2>1
  <1>6. QED
    BY <1>4, <1>5

\* gen_prove_task_post keeps the real segments' tasks and appends finished deferred
\* proofs.
LEMMA GenProveTaskPost ==
    ASSUME NEW tasks, tasks \in [DOMAIN tasks -> ProveTask],
           \A i \in DOMAIN tasks : ~tasks[i].is_deferred
    PROVE  LET post == gen_prove_task_post(tasks) IN
           /\ DOMAIN post = 0..(Segments + Deferred - 1)
           /\ post \in [DOMAIN post -> ProveTask]
           /\ \A i \in DOMAIN post : i < Segments =>
                 post[i] = IF i \in DOMAIN tasks THEN tasks[i] ELSE task_with_no
           /\ \A i \in DOMAIN post : post[i].is_deferred <=> i >= Segments
           /\ \A i \in DOMAIN post : i >= Segments => post[i].state = "Success"
  <1>1. \A i \in Nat : /\ deferred_task(i) \in ProveTask
                       /\ deferred_task(i).state = "Success" /\ deferred_task(i).is_deferred
    <2> SUFFICES ASSUME NEW i \in Nat
                 PROVE  /\ deferred_task(i) \in ProveTask
                        /\ deferred_task(i).state = "Success" /\ deferred_task(i).is_deferred
      OBVIOUS
    <2>1. <<i>> \in Receipt /\ 0 \in 0..MaxFailures
      BY StageAssumption DEF Receipt
    <2>2. deferred_task(i).state = "Success" /\ deferred_task(i).is_deferred
      BY DEF deferred_task
    <2>3. deferred_task(i) \in ProveTask
      BY <2>1 DEF deferred_task, ProveTask, TaskState
    <2>4. QED
      BY <2>2, <2>3
  <1>2. gen_prove_task_post(tasks) =
            [i \in 0..(Segments + Deferred - 1) |->
               IF i >= Segments THEN deferred_task(i)
               ELSE IF i \in DOMAIN tasks THEN tasks[i] ELSE task_with_no]
    BY DEF gen_prove_task_post
  <1>3. 0..(Segments + Deferred - 1) \subseteq Nat
    BY StageAssumption
  <1>4. QED
    BY <1>1, <1>2, <1>3, FreshTask, StageAssumption

\* gen_agg_tasks partitions the final prove tasks into the segments and the deferred
\* proofs, and builds the graph for as many of each.
LEMMA GraphOf ==
    ASSUME NEW tasks, DOMAIN tasks = 0..(Segments + Deferred - 1),
           \A i \in DOMAIN tasks : tasks[i].is_deferred <=> i >= Segments
    PROVE  gen_agg_tasks(tasks) =
               [a \in 0..(AggCount(Segments, Deferred) - 1) |->
                   [state    |-> IF IsPlaceholder(Segments, Deferred, a) THEN "Success" ELSE "Unprocessed",
                    inputs   |-> AggInputs(Segments, Deferred, a),
                    childs   |-> AggChilds(Segments, Deferred, a),
                    is_final |-> IsFinal(Segments, Deferred, a),
                    output   |-> NoReceipt]]
  <1>1. /\ {i \in DOMAIN tasks : tasks[i].is_deferred} = Segments..(Segments + Deferred - 1)
        /\ {i \in DOMAIN tasks : ~tasks[i].is_deferred} = 0..(Segments - 1)
    BY StageAssumption
  <1>2. /\ Cardinality(Segments..(Segments + Deferred - 1)) = Deferred
        /\ Cardinality(0..(Segments - 1)) = Segments
    <2>1. \A x, y \in Int : Cardinality(x..y) = IF x > y THEN 0 ELSE y - x + 1
      BY FS_Interval
    <2>2. Segments \in Int /\ Segments > 0 /\ Deferred \in Nat
      BY StageAssumption
    <2>3. Cardinality(Segments..(Segments + Deferred - 1)) =
            IF Segments > Segments + Deferred - 1 THEN 0 ELSE (Segments + Deferred - 1) - Segments + 1
      BY <2>1, <2>2
    <2>4. Cardinality(0..(Segments - 1)) = IF 0 > Segments - 1 THEN 0 ELSE (Segments - 1) - 0 + 1
      BY <2>1, <2>2
    <2>5. QED
      BY <2>2, <2>3, <2>4
  <1>3. QED
    BY <1>1, <1>2 DEF gen_agg_tasks

\* The graph links every task to its inputs and lets it wait for those that are not
\* there yet.
LEMMA GenAggTasks ==
    ASSUME NEW tasks, DOMAIN tasks = 0..(Segments + Deferred - 1),
           \A i \in DOMAIN tasks : tasks[i].is_deferred <=> i >= Segments
    PROVE  LET g == gen_agg_tasks(tasks) IN
           /\ DOMAIN g \subseteq Nat
           /\ \A a \in DOMAIN g :
                /\ g[a] \in AggTask(a)
                /\ g[a].state \in {"Unprocessed", "Success"}
                /\ g[a].state = "Success" => g[a].childs = {} /\ SeqRange(g[a].inputs) = {}
                /\ \A r \in SeqRange(g[a].inputs) :
                       r \in g[a].childs \/ (a \in Segments..(Segments + Deferred - 1) /\ r = Prove(a))
  <1> DEFINE task(a) == [state    |-> IF IsPlaceholder(Segments, Deferred, a) THEN "Success" ELSE "Unprocessed",
                         inputs   |-> AggInputs(Segments, Deferred, a),
                         childs   |-> AggChilds(Segments, Deferred, a),
                         is_final |-> IsFinal(Segments, Deferred, a),
                         output   |-> NoReceipt]
             last == AggCount(Segments, Deferred) - 1
  <1>3. gen_agg_tasks(tasks) = [a \in 0..last |-> task(a)]
    BY GraphOf
  <1> HIDE DEF last
  <1>4. ASSUME NEW a \in Nat
        PROVE  /\ task(a) \in AggTask(a)
               /\ task(a).state \in {"Unprocessed", "Success"}
               /\ task(a).state = "Success" => task(a).childs = {} /\ SeqRange(task(a).inputs) = {}
               /\ \A r \in SeqRange(task(a).inputs) :
                      r \in task(a).childs \/ (a \in Segments..(Segments + Deferred - 1) /\ r = Prove(a))
    <2>1. AggChilds(Segments, Deferred, a) \subseteq SeqRange(AggInputs(Segments, Deferred, a))
      BY DEF AggChilds
    <2>2. IsFinal(Segments, Deferred, a) \in BOOLEAN /\ NoReceipt \in Receipt
      BY DEF IsFinal, NoReceipt, Receipt
    <2>3. task(a) \in AggTask(a)
      BY <2>1, <2>2 DEF AggTask, TaskState
    <2>4. CASE IsPlaceholder(Segments, Deferred, a)
      <3>1. Feature = "prover" /\ a < LeafCount(Segments, Deferred)
        BY <2>4, StageAssumption DEF IsPlaceholder, LeafCount
      <3>2. AggInputs(Segments, Deferred, a) = <<>>
        BY <2>4, <3>1 DEF AggInputs, LeafInputs
      <3>3. SeqRange(AggInputs(Segments, Deferred, a)) = {}
        BY <3>2 DEF SeqRange
      <3>4. QED
        BY <2>1, <2>3, <3>3
    <2>5. CASE ~IsPlaceholder(Segments, Deferred, a)
      <3>1. CASE Feature = "prover_v2" /\ a \in Segments..(Segments + Deferred - 1)
        <4>1. AggInputs(Segments, Deferred, a) = <<Prove(a)>>
          <5>1. a < Segments + Deferred /\ LeafCount(Segments, Deferred) = Segments + Deferred
            BY <3>1, StageAssumption DEF LeafCount
          <5>2. LeafInputs(Segments, Deferred, a) = <<Prove(a)>>
            BY <3>1 DEF LeafInputs
          <5>3. QED
            BY <5>1, <5>2 DEF AggInputs
        <4>2. SeqRange(AggInputs(Segments, Deferred, a)) = {Prove(a)}
          BY <4>1 DEF SeqRange
        <4>3. QED
          BY <2>3, <2>5, <3>1, <4>2
      <3>2. CASE ~(Feature = "prover_v2" /\ a \in Segments..(Segments + Deferred - 1))
        <4>1. AggChilds(Segments, Deferred, a) = SeqRange(AggInputs(Segments, Deferred, a))
          BY <3>2 DEF AggChilds
        <4>2. QED
          BY <2>3, <2>5, <4>1
      <3>3. QED
        BY <3>1, <3>2
    <2>6. QED
      BY <2>4, <2>5
  <1> HIDE DEF task
  <1>5. 0..last \subseteq Nat
    OBVIOUS
  <1>6. QED
    BY <1>3, <1>4, <1>5

\* clear_agg_child_task only takes finished proofs out of the childs of tasks that
\* have not been started.
LEMMA ClearChilds ==
    ASSUME NEW tasks, NEW done,
           \A a \in DOMAIN tasks : tasks[a] \in AggTask(a)
    PROVE  LET g == clear_agg_child_tasks(tasks, done) IN
           /\ DOMAIN g = DOMAIN tasks
           /\ \A a \in DOMAIN tasks :
                /\ g[a] \in AggTask(a)
                /\ g[a].state = tasks[a].state /\ g[a].inputs = tasks[a].inputs
                /\ g[a].childs \subseteq tasks[a].childs
                /\ \A r \in tasks[a].childs : r \in g[a].childs \/ r \in done
                /\ tasks[a].state # "Unprocessed" => g[a] = tasks[a]
  <1> DEFINE g == clear_agg_child_tasks(tasks, done)
             left(a) == {r \in tasks[a].childs :
                            ~(/\ r \in done
                              /\ a \in Waiting(tasks, r)
                              /\ \A b \in Waiting(tasks, r) : a <= b)}
  <1>1. g = [a \in DOMAIN tasks |-> [tasks[a] EXCEPT !.childs = left(a)]]
    BY DEF clear_agg_child_tasks
  <1>2. ASSUME NEW a \in DOMAIN tasks
        PROVE  /\ left(a) \subseteq tasks[a].childs
               /\ \A r \in tasks[a].childs : r \in left(a) \/ r \in done
               /\ tasks[a].state # "Unprocessed" => left(a) = tasks[a].childs
    BY DEF Waiting
  <1> HIDE DEF left, g
  <1>3. ASSUME NEW a \in DOMAIN tasks
        PROVE  /\ g[a] \in AggTask(a)
               /\ g[a].state = tasks[a].state /\ g[a].inputs = tasks[a].inputs
               /\ g[a].childs = left(a)
               /\ left(a) = tasks[a].childs => g[a] = tasks[a]
    <2>1. g[a] = [tasks[a] EXCEPT !.childs = left(a)] /\ tasks[a] \in AggTask(a)
      BY <1>1
    <2>2. left(a) \subseteq tasks[a].childs
      BY <1>2
    <2>3. QED
      BY <2>1, <2>2 DEF AggTask
  <1>4. DOMAIN g = DOMAIN tasks
    BY <1>1
  <1>5. QED
    BY <1>2, <1>3, <1>4 DEF g

LEMMA RefsDiffer ==
    /\ SplitRef # SnarkRef
    /\ \A i : /\ Prove(i) # SplitRef /\ Prove(i) # SnarkRef
              /\ Agg(i) # SplitRef /\ Agg(i) # SnarkRef
    /\ \A i, j : /\ Prove(i) # Agg(j)
                 /\ Prove(i) = Prove(j) => i = j
                 /\ Agg(i) = Agg(j) => i = j
    /\ \A i : Prove(i)[1] = "prove" /\ Prove(i)[2] = i /\ Agg(i)[1] = "agg" /\ Agg(i)[2] = i
  BY DEF SplitRef, SnarkRef, Prove, Agg

\* A finished proof stays finished over a step that keeps finished proofs.
LEMMA DoneKept ==
    ASSUME ProofsKept, NEW r, ProofDone(r)
    PROVE  ProofDone(r)'
  BY DEF ProofsKept, ProofDone

\* The snark input is a receipt.
LEMMA SnarkTask ==
    ASSUME NEW tasks, \A a \in DOMAIN tasks : tasks[a] \in AggTask(a)
    PROVE  /\ gen_snark_task(tasks) \in [state : TaskState, agg_receipt : Receipt]
           /\ gen_snark_task(tasks).state = "Unprocessed"
  <1>1. ClientReceipt \in Receipt /\ NoReceipt \in Receipt
    BY DEF ClientReceipt, NoReceipt, Receipt
  <1>2. FinalReceipt(tasks) \in Receipt
    <2>1. CASE \E a \in DOMAIN tasks : tasks[a].is_final
      <3>1. (CHOOSE a \in DOMAIN tasks : tasks[a].is_final) \in DOMAIN tasks
        BY <2>1
      <3>2. \A a \in DOMAIN tasks : tasks[a].output \in Receipt
        BY DEF AggTask
      <3>3. QED
        BY <2>1, <3>1, <3>2 DEF FinalReceipt
    <2>2. QED
      BY <1>1, <2>1 DEF FinalReceipt
  <1>3. QED
    BY <1>1, <1>2 DEF gen_snark_task, TaskState

----------------------------------------------------------------------------
(* The initial states.                                                     *)

LEMMA InitInv == Init => IInv
  <1> SUFFICES ASSUME Init PROVE IInv
    OBVIOUS
  <1>1. job \in Jobs /\ job \in GenerateTask /\ job.from_step \in {"Init", "Agg"}
    BY StageAssumption DEF Init, GenerateTask
  <1>2. DOMAIN prove = {} /\ DOMAIN agg = {} /\ prove \in [DOMAIN prove -> ProveTask]
    BY DEF Init, EmptyVec
  <1>3. published \in 0..Segments /\ segfiles \subseteq 0..(published - 1)
    BY StageAssumption DEF Init
  <1>4. /\ step \in Step /\ split \in TaskState
        /\ snark \in [state : TaskState, agg_receipt : Receipt]
        /\ proofFile \in [exists : BOOLEAN, receipt : Receipt]
    BY <1>1 DEF Init, Step, TaskState, Receipt, NoReceipt
  <1>5. TypeOK
    BY <1>1, <1>2, <1>3, <1>4 DEF Init, TypeOK, Statuses
  <1>6. CallsLive /\ CallsUnique
    BY DEF Init, CallsLive, CallsUnique
  <1>7. BeforeGraph /\ ChildsCoverInputs
    BY <1>2 DEF BeforeGraph, ChildsCoverInputs
  <1>8. NotYetStarted
    BY DEF Init, NotYetStarted
  <1>9. QED
    BY <1>5, <1>6, <1>7, <1>8 DEF IInv

----------------------------------------------------------------------------
(* Steps that leave the stage and its calls alone.                         *)

LEMMA QuietStep ==
    ASSUME IInv, UNCHANGED <<job, stageVars, calls>>,
           published' \in 0..Segments, segfiles' \subseteq 0..(published' - 1),
           UNCHANGED proofFile,
           pc' \in {"top", "select", "dispatch", "finish", "done", "panicked"},
           status' \in Statuses
    PROVE  IInv' /\ ProofsKept
  <1>1. TypeOK'
    BY DEF IInv, TypeOK, stageVars
  <1>2. CallsLive' /\ CallsUnique'
    BY DEF IInv, CallsLive, CallsUnique, CallIsLive, stageVars
  <1>3. BeforeGraph' /\ NotYetStarted'
    BY DEF IInv, BeforeGraph, NotYetStarted, stageVars
  <1>4. ChildsCoverInputs'
    BY DEF IInv, ChildsCoverInputs, ProofDone, stageVars
  <1>5. ProofsKept
    BY DEF ProofsKept, stageVars
  <1>6. QED
    BY <1>1, <1>2, <1>3, <1>4, <1>5 DEF IInv

LEMMA QuietSteps ==
    ASSUME IInv,
           \/ SplitPublish \/ (\E i \in 0..(Segments - 1) : SplitWrite(i))
           \/ ScheduleNothing \/ Tick \/ Break \/ DispatchSnark \/ Finish \/ UNCHANGED vars
    PROVE  IInv' /\ ProofsKept
  <1>1. /\ published \in 0..Segments /\ segfiles \subseteq 0..(published - 1)
        /\ pc \in {"top", "select", "dispatch", "finish", "done", "panicked"}
        /\ status \in Statuses
    BY DEF IInv, TypeOK
  <1>2. CASE SplitPublish
    <2>1. published' \in 0..Segments /\ segfiles' \subseteq 0..(published' - 1)
      BY <1>1, <1>2, StageAssumption DEF SplitPublish
    <2>2. QED
      BY <1>1, <1>2, <2>1, QuietStep DEF SplitPublish
  <1>3. CASE \E i \in 0..(Segments - 1) : SplitWrite(i)
    <2>1. PICK i \in 0..(Segments - 1) : SplitWrite(i)
      BY <1>3
    <2>2. QED
      BY <1>1, <2>1, QuietStep DEF SplitWrite
  <1>4. CASE ScheduleNothing \/ Tick \/ Break \/ DispatchSnark
    BY <1>1, <1>4, QuietStep DEF ScheduleNothing, Tick, Break, DispatchSnark, diskVars
  <1>5. CASE Finish
    <2>1. ErrorStatus \in Statuses /\ "Success" \in Statuses
      BY DEF ErrorStatus, Statuses
    <2>2. QED
      BY <1>1, <1>5, <2>1, QuietStep DEF Finish, FinishError, FinishSuccess, FinishPanic, diskVars
  <1>6. CASE UNCHANGED vars
    BY <1>1, <1>6, QuietStep DEF vars, diskVars
  <1>7. QED
    BY <1>2, <1>3, <1>4, <1>5, <1>6

----------------------------------------------------------------------------
(* Starting calls.                                                         *)

LEMMA ScheduleSnarkStep ==
    ASSUME IInv, ScheduleSnark
    PROVE  IInv' /\ ProofsKept
  <1>1. snark \in [state : TaskState, agg_receipt : Receipt]
    BY DEF IInv, TypeOK
  <1>2. /\ snark' \in [state : TaskState, agg_receipt : Receipt]
        /\ snark.state \in Runnable => snark'.state = "Processing"
        /\ snark.state \notin Runnable => snark' = snark
    BY <1>1 DEF ScheduleSnark, TaskState
  <1>3. calls' \subseteq [ref : Ref, input : Receipt]
    <2>1. SnarkCalls \subseteq [ref : Ref, input : Receipt]
      BY <1>1 DEF SnarkCalls, Call, SnarkRef, Ref
    <2>2. QED
      BY <2>1 DEF ScheduleSnark, IInv, TypeOK
  <1>4. TypeOK'
    BY <1>2, <1>3 DEF IInv, TypeOK, ScheduleSnark, diskVars
  <1>5. ProofsKept
    BY DEF ProofsKept, ScheduleSnark
  <1>6. CallsLive'
    <2> SUFFICES ASSUME NEW c \in calls' PROVE CallIsLive(c)'
      BY DEF CallsLive
    <2>1. CASE c \in calls
      <3>1. CallIsLive(c)
        BY <2>1 DEF IInv, CallsLive
      <3>2. snark.state = "Processing" => snark'.state = "Processing"
        BY <1>2 DEF Runnable
      <3>3. QED
        BY <3>1, <3>2 DEF CallIsLive, ScheduleSnark
    <2>2. CASE c \notin calls
      <3>1. c.ref = SnarkRef /\ snark.state \in Runnable
        BY <2>2 DEF ScheduleSnark, SnarkCalls, Call
      <3>2. QED
        BY <1>2, <3>1 DEF CallIsLive
    <2>3. QED
      BY <2>1, <2>2
  <1>7. CallsUnique'
    <2>1. CASE snark.state \in Runnable
      <3>1. \A c \in calls : c.ref # SnarkRef
        <4> SUFFICES ASSUME NEW c \in calls, c.ref = SnarkRef PROVE FALSE
          OBVIOUS
        <4>1. CallIsLive(c)
          BY DEF IInv, CallsLive
        <4>2. QED
          BY <2>1, <4>1, RefsDiffer DEF CallIsLive, Runnable
      <3>2. calls' = calls \cup {Call(SnarkRef, snark.agg_receipt)}
        BY <2>1 DEF ScheduleSnark, SnarkCalls
      <3>3. Call(SnarkRef, snark.agg_receipt).ref = SnarkRef
        BY DEF Call
      <3>4. QED
        BY <3>1, <3>2, <3>3 DEF IInv, CallsUnique
    <2>2. CASE snark.state \notin Runnable
      BY <2>2 DEF ScheduleSnark, SnarkCalls, IInv, CallsUnique
    <2>3. QED
      BY <2>1, <2>2
  <1>8. BeforeGraph' /\ NotYetStarted'
    BY DEF IInv, BeforeGraph, NotYetStarted, ScheduleSnark
  <1>9. ChildsCoverInputs'
    BY DEF IInv, ChildsCoverInputs, ProofDone, ScheduleSnark
  <1>10. QED
    BY <1>4, <1>5, <1>6, <1>7, <1>8, <1>9 DEF IInv

\* The inputs of an aggregation that waits for nothing exist, and so do their
\* receipts.
LEMMA JoinedReceipt ==
    ASSUME IInv, NEW a \in DOMAIN agg, agg[a].childs = {}
    PROVE  Joined(agg[a].inputs) \in Receipt
  <1> DEFINE ins == agg[a].inputs
  <1>1. \A r \in SeqRange(ins) : ProofDone(r)
    BY DEF IInv, ChildsCoverInputs
  <1>2. \A b \in DOMAIN agg : agg[b].output \in Receipt
    BY DEF IInv, TypeOK, AggTask
  <1>3. \A i \in DOMAIN prove : prove[i].output \in Receipt
    BY DEF IInv, TypeOK, ProveTask
  <1>4. \A k \in DOMAIN ins : OutputOf(ins[k]) \in Receipt
    <2> SUFFICES ASSUME NEW k \in DOMAIN ins PROVE OutputOf(ins[k]) \in Receipt
      OBVIOUS
    <2>1. ProofDone(ins[k])
      BY <1>1 DEF SeqRange
    <2>2. QED
      BY <2>1, <1>2, <1>3 DEF OutputOf, ProofDone
  <1>5. NoReceipt \in Receipt
    BY DEF NoReceipt, Receipt
  <1>6. \A x, y \in Receipt : x \o y \in Receipt
    BY DEF Receipt
  <1>7. QED
    BY <1>4, <1>5, <1>6 DEF Joined

LEMMA ScheduleProveStep ==
    ASSUME IInv, ScheduleProve
    PROVE  IInv' /\ ProofsKept
  <1> DEFINE newProve == {Call(Prove(i), <<i>>) : i \in ProvePick}
             newAgg == {Call(Agg(a), Joined(agg[a].inputs)) : a \in AggPick}
  <1>1. calls' = calls \cup SplitCalls \cup newProve \cup newAgg
    BY DEF ScheduleProve
  <1>2. \A i \in ProvePick : i \in DOMAIN prove /\ i < Segments /\ i \in Nat
                             /\ prove[i].state \in Runnable
    <2>1. segfiles \subseteq 0..(published - 1) /\ published \in 0..Segments
      BY DEF IInv, TypeOK
    <2>2. \A i \in ProvePick : i \in DOMAIN prove /\ i \in segfiles /\ prove[i].state \in Runnable
      BY DEF ProvePick, ProveReady
    <2>3. \A i \in segfiles : i < Segments /\ i \in Nat
      BY <2>1, StageAssumption
    <2>4. QED
      BY <2>2, <2>3
  <1>3. \A a \in AggPick : a \in DOMAIN agg /\ a \in Nat /\ agg[a].childs = {}
                           /\ agg[a].state \in Runnable
    BY DEF AggPick, AggReady, IInv, TypeOK
  <1>4. /\ DOMAIN prove' = DOMAIN prove
        /\ \A i \in DOMAIN prove :
              /\ prove'[i] \in ProveTask
              /\ prove'[i].is_deferred = prove[i].is_deferred
              /\ i \in ProvePick => prove'[i].state = "Processing"
              /\ i \notin ProvePick => prove'[i] = prove[i]
    <2>1. prove' = [i \in DOMAIN prove |->
             IF i \in ProvePick THEN [prove[i] EXCEPT !.state = "Processing"] ELSE prove[i]]
      BY DEF ScheduleProve
    <2>2. \A i \in DOMAIN prove : prove[i] \in ProveTask
      BY DEF IInv, TypeOK
    <2>3. \A t \in ProveTask : /\ [t EXCEPT !.state = "Processing"] \in ProveTask
                               /\ [t EXCEPT !.state = "Processing"].state = "Processing"
                               /\ [t EXCEPT !.state = "Processing"].is_deferred = t.is_deferred
      BY DEF ProveTask, TaskState
    <2>4. QED
      BY <2>1, <2>2, <2>3
  <1>5. /\ DOMAIN agg' = DOMAIN agg
        /\ \A a \in DOMAIN agg :
              /\ agg'[a] \in AggTask(a)
              /\ agg'[a].inputs = agg[a].inputs /\ agg'[a].childs = agg[a].childs
              /\ a \in AggPick => agg'[a].state = "Processing"
              /\ a \notin AggPick => agg'[a] = agg[a]
    <2>1. agg' = [a \in DOMAIN agg |->
             IF a \in AggPick THEN [agg[a] EXCEPT !.state = "Processing"] ELSE agg[a]]
      BY DEF ScheduleProve
    <2>2. \A a \in DOMAIN agg : agg[a] \in AggTask(a)
      BY DEF IInv, TypeOK
    <2>3. ASSUME NEW a, NEW t \in AggTask(a)
          PROVE  /\ [t EXCEPT !.state = "Processing"] \in AggTask(a)
                 /\ [t EXCEPT !.state = "Processing"].state = "Processing"
                 /\ [t EXCEPT !.state = "Processing"].inputs = t.inputs
                 /\ [t EXCEPT !.state = "Processing"].childs = t.childs
      BY DEF AggTask, TaskState
    <2>4. QED
      BY <2>1, <2>2, <2>3
  <1>6. TypeOK'
    <2>1. calls' \subseteq [ref : Ref, input : Receipt]
      <3>1. SplitCalls \subseteq [ref : Ref, input : Receipt]
        <4>1. SplitRef \in Ref /\ NoReceipt \in Receipt
          BY DEF SplitRef, Ref, NoReceipt, Receipt
        <4>2. Call(SplitRef, NoReceipt) \in [ref : Ref, input : Receipt]
          BY <4>1 DEF Call
        <4>3. QED
          BY <4>2 DEF SplitCalls
      <3>2. newProve \subseteq [ref : Ref, input : Receipt]
        <4>1. \A i \in ProvePick : <<i>> \in Receipt /\ Prove(i) \in Ref
          BY <1>2 DEF Receipt, Prove, Ref
        <4>2. QED
          BY <4>1 DEF Call
      <3>3. newAgg \subseteq [ref : Ref, input : Receipt]
        <4>1. \A a \in AggPick : Joined(agg[a].inputs) \in Receipt /\ Agg(a) \in Ref
          BY <1>3, JoinedReceipt DEF Agg, Ref
        <4>2. QED
          BY <4>1 DEF Call
      <3>4. QED
        BY <1>1, <3>1, <3>2, <3>3 DEF IInv, TypeOK
    <2>2. split' \in TaskState
      BY DEF ScheduleProve, IInv, TypeOK, TaskState
    <2>3. prove' \in [DOMAIN prove' -> ProveTask]
      BY <1>4 DEF ScheduleProve
    <2>4. QED
      BY <1>4, <1>5, <2>1, <2>2, <2>3 DEF IInv, TypeOK, ScheduleProve, diskVars
  <1>7. ProofsKept
    BY <1>2, <1>3, <1>4, <1>5 DEF ProofsKept, Runnable
  <1>8. ASSUME NEW c \in calls' \ calls
        PROVE  \/ c.ref = SplitRef /\ split \in Runnable /\ c = Call(SplitRef, NoReceipt)
               \/ \E i \in ProvePick : c = Call(Prove(i), <<i>>)
               \/ \E a \in AggPick : c = Call(Agg(a), Joined(agg[a].inputs))
    BY <1>1, <1>8 DEF SplitCalls, Call
  <1>9. \A r, x : Call(r, x).ref = r
    BY DEF Call
  <1>10. CallsLive'
    <2> SUFFICES ASSUME NEW c \in calls' PROVE CallIsLive(c)'
      BY DEF CallsLive
    <2>1. CASE c \in calls
      <3>1. CallIsLive(c)
        BY <2>1 DEF IInv, CallsLive
      <3>2. split = "Processing" => split' = "Processing"
        BY DEF Runnable, ScheduleProve
      <3>3. snark' = snark
        BY DEF ScheduleProve
      <3>4. QED
        BY <1>4, <1>5, <3>1, <3>2, <3>3 DEF CallIsLive
    <2>2. CASE c.ref = SplitRef /\ split \in Runnable
      BY <2>2 DEF CallIsLive, ScheduleProve
    <2>3. CASE \E i \in ProvePick : c = Call(Prove(i), <<i>>)
      BY <1>2, <1>4, <1>9, <2>3 DEF CallIsLive
    <2>4. CASE \E a \in AggPick : c = Call(Agg(a), Joined(agg[a].inputs))
      BY <1>3, <1>5, <1>9, <2>4 DEF CallIsLive
    <2>5. QED
      BY <1>8, <2>1, <2>2, <2>3, <2>4
  <1>11. CallsUnique'
    <2>1. ASSUME NEW c \in calls, NEW e \in calls' \ calls, c.ref = e.ref
          PROVE  FALSE
      <3>1. CallIsLive(c)
        BY DEF IInv, CallsLive
      <3>2. CASE e.ref = SplitRef /\ split \in Runnable
        BY <2>1, <3>1, <3>2, RefsDiffer DEF CallIsLive, Runnable
      <3>3. CASE \E i \in ProvePick : e = Call(Prove(i), <<i>>)
        BY <1>2, <1>9, <2>1, <3>1, <3>3, RefsDiffer DEF CallIsLive, Runnable
      <3>4. CASE \E a \in AggPick : e = Call(Agg(a), Joined(agg[a].inputs))
        BY <1>3, <1>9, <2>1, <3>1, <3>4, RefsDiffer DEF CallIsLive, Runnable
      <3>5. QED
        BY <1>8, <3>2, <3>3, <3>4
    <2>2. ASSUME NEW c \in calls' \ calls, NEW e \in calls' \ calls, c.ref = e.ref
          PROVE  c = e
      <3>1. ASSUME NEW x \in calls' \ calls
            PROVE  /\ x.ref = SplitRef => x = Call(SplitRef, NoReceipt)
                   /\ \A i : x.ref = Prove(i) => x = Call(Prove(i), <<i>>)
                   /\ \A a : x.ref = Agg(a) => x = Call(Agg(a), Joined(agg[a].inputs))
        <4>1. CASE x.ref = SplitRef /\ x = Call(SplitRef, NoReceipt)
          BY <4>1, RefsDiffer
        <4>2. CASE \E i \in ProvePick : x = Call(Prove(i), <<i>>)
          <5>1. PICK i \in ProvePick : x = Call(Prove(i), <<i>>)
            BY <4>2
          <5>2. x.ref = Prove(i)
            BY <1>9, <5>1
          <5>3. x.ref # SplitRef /\ \A j : x.ref # Agg(j) /\ (x.ref = Prove(j) => j = i)
            BY <5>2, RefsDiffer
          <5>4. QED
            BY <5>1, <5>3
        <4>3. CASE \E a \in AggPick : x = Call(Agg(a), Joined(agg[a].inputs))
          <5>1. PICK a \in AggPick : x = Call(Agg(a), Joined(agg[a].inputs))
            BY <4>3
          <5>2. x.ref = Agg(a)
            BY <1>9, <5>1
          <5>3. x.ref # SplitRef /\ \A j : x.ref # Prove(j) /\ (x.ref = Agg(j) => j = a)
            BY <5>2, RefsDiffer
          <5>4. QED
            BY <5>1, <5>3
        <4>4. QED
          BY <1>8, <4>1, <4>2, <4>3
      <3>2. c.ref = SplitRef \/ (\E i : c.ref = Prove(i)) \/ (\E a : c.ref = Agg(a))
        <4>1. CASE \E i \in ProvePick : c = Call(Prove(i), <<i>>)
          BY <1>9, <4>1
        <4>2. CASE \E a \in AggPick : c = Call(Agg(a), Joined(agg[a].inputs))
          BY <1>9, <4>2
        <4>3. QED
          BY <1>8, <4>1, <4>2
      <3>3. CASE c.ref = SplitRef
        BY <2>2, <3>1, <3>3
      <3>4. CASE \E i : c.ref = Prove(i)
        <4>1. PICK i : c.ref = Prove(i)
          BY <3>4
        <4>2. c = Call(Prove(i), <<i>>) /\ e = Call(Prove(i), <<i>>)
          BY <2>2, <3>1, <4>1
        <4>3. QED
          BY <4>2
      <3>5. CASE \E a : c.ref = Agg(a)
        <4>1. PICK a : c.ref = Agg(a)
          BY <3>5
        <4>2. c = Call(Agg(a), Joined(agg[a].inputs)) /\ e = Call(Agg(a), Joined(agg[a].inputs))
          BY <2>2, <3>1, <4>1
        <4>3. QED
          BY <4>2
      <3>6. QED
        BY <3>2, <3>3, <3>4, <3>5
    <2>3. ASSUME NEW c \in calls', NEW e \in calls', c.ref = e.ref
          PROVE  c = e
      <3>1. CASE c \in calls /\ e \in calls
        BY <2>3, <3>1 DEF IInv, CallsUnique
      <3>2. QED
        BY <2>1, <2>2, <2>3, <3>1
    <2>4. QED
      BY <2>3 DEF CallsUnique
  <1>12. BeforeGraph'
    BY <1>2, <1>4, <1>5 DEF IInv, BeforeGraph, ScheduleProve
  <1>13. NotYetStarted'
    BY DEF IInv, NotYetStarted, ScheduleProve
  <1>14. ChildsCoverInputs'
    <2> SUFFICES ASSUME NEW a \in DOMAIN agg
                 PROVE  /\ \A r \in SeqRange(agg'[a].inputs) : r \in agg'[a].childs \/ ProofDone(r)'
                        /\ agg'[a].state # "Unprocessed" => agg'[a].childs = {}
      BY <1>5 DEF ChildsCoverInputs
    <2>1. /\ \A r \in SeqRange(agg[a].inputs) : r \in agg[a].childs \/ ProofDone(r)
          /\ agg[a].state # "Unprocessed" => agg[a].childs = {}
      BY DEF IInv, ChildsCoverInputs
    <2>2. QED
      BY <1>3, <1>5, <1>7, <2>1, DoneKept
  <1>15. QED
    BY <1>6, <1>7, <1>10, <1>11, <1>12, <1>13, <1>14 DEF IInv

----------------------------------------------------------------------------
(* Results.                                                                *)

\* A call that ends was live, and the others belong to other tasks.
LEMMA CallEnds ==
    ASSUME IInv, NEW c \in calls, calls' = calls \ {c}
    PROVE  /\ calls' \subseteq [ref : Ref, input : Receipt]
           /\ c.input \in Receipt /\ CallIsLive(c)
           /\ CallsUnique'
           /\ \A e \in calls' : CallIsLive(e) /\ e.ref # c.ref
  BY DEF IInv, TypeOK, CallsLive, CallsUnique

LEMMA OnSplitStep ==
    ASSUME IInv, NEW r \in Results, OnSplit(r)
    PROVE  IInv' /\ ProofsKept
  <1>1. PICK c \in calls : c.ref = SplitRef /\ calls' = calls \ {c}
    BY DEF OnSplit
  <1>2. split' \in TaskState
    BY DEF OnSplit, IInv, TypeOK, TaskState, Reported
  <1>3. is_error' \in BOOLEAN
    BY DEF OnSplit
  <1>4. TypeOK'
    BY <1>1, <1>2, <1>3, CallEnds DEF IInv, TypeOK, OnSplit, diskVars
  <1>5. CallsUnique'
    BY <1>1, CallEnds
  <1>6. CallsLive'
    <2>1. \A e \in calls' : CallIsLive(e) /\ e.ref # SplitRef
      BY <1>1, CallEnds
    <2>2. QED
      BY <2>1 DEF CallsLive, CallIsLive, OnSplit
  <1>7. split = "Processing"
    BY <1>1, CallEnds, RefsDiffer DEF CallIsLive
  <1>8. BeforeGraph' /\ NotYetStarted'
    BY <1>7 DEF IInv, BeforeGraph, NotYetStarted, OnSplit
  <1>9. ChildsCoverInputs'
    BY DEF IInv, ChildsCoverInputs, ProofDone, OnSplit
  <1>10. ProofsKept
    BY DEF ProofsKept, OnSplit
  <1>11. QED
    BY <1>4, <1>5, <1>6, <1>8, <1>9, <1>10 DEF IInv

LEMMA OnSnarkStep ==
    ASSUME IInv, NEW r \in Results, OnSnark(r)
    PROVE  IInv' /\ ProofsKept
  <1>1. PICK c \in calls :
            /\ c.ref = SnarkRef /\ calls' = calls \ {c}
            /\ proofFile' = [exists |-> TRUE, receipt |-> IF r = "Success" THEN c.input ELSE NoReceipt]
    BY DEF OnSnark
  <1>2. snark' \in [state : TaskState, agg_receipt : Receipt]
    BY DEF OnSnark, IInv, TypeOK, TaskState, Reported
  <1>3. proofFile' \in [exists : BOOLEAN, receipt : Receipt]
    <2>1. NoReceipt \in Receipt /\ c.input \in Receipt
      BY <1>1, CallEnds DEF NoReceipt, Receipt
    <2>2. QED
      BY <1>1, <2>1
  <1>4. is_error' \in BOOLEAN
    BY DEF OnSnark
  <1>5. TypeOK'
    BY <1>1, <1>2, <1>3, <1>4, CallEnds DEF IInv, TypeOK, OnSnark, diskVars
  <1>6. CallsUnique'
    BY <1>1, CallEnds
  <1>7. CallsLive'
    <2>1. \A e \in calls' : CallIsLive(e) /\ e.ref # SnarkRef
      BY <1>1, CallEnds
    <2>2. QED
      BY <2>1 DEF CallsLive, CallIsLive, OnSnark
  <1>8. snark.state = "Processing"
    BY <1>1, CallEnds, RefsDiffer DEF CallIsLive
  <1>9. BeforeGraph' /\ NotYetStarted'
    BY <1>8 DEF IInv, BeforeGraph, NotYetStarted, OnSnark
  <1>10. ChildsCoverInputs'
    BY DEF IInv, ChildsCoverInputs, ProofDone, OnSnark
  <1>11. ProofsKept
    BY DEF ProofsKept, OnSnark
  <1>12. QED
    BY <1>5, <1>6, <1>7, <1>9, <1>10, <1>11 DEF IInv

\* What on_prove_task! makes of a task.
LEMMA ProveResult ==
    ASSUME NEW t \in ProveTask, NEW r \in Results, NEW receipt \in Receipt
    PROVE  /\ AfterProve(t, r, receipt) \in ProveTask
           /\ AfterProve(t, r, receipt).is_deferred = t.is_deferred
           /\ r = "Success" => AfterProve(t, r, receipt).state = "Success"
  <1> DEFINE out == IF r = "Success" THEN receipt ELSE IF r = "Failed" THEN NoReceipt ELSE t.output
             fails == IF r = "Failed" /\ ~RetriesUsedUp(t) THEN t.failure_count + 1 ELSE t.failure_count
  <1>1. out \in Receipt
    BY DEF NoReceipt, Receipt, ProveTask
  <1>2. fails \in 0..MaxFailures
    BY StageAssumption DEF ProveTask, RetriesUsedUp
  <1>3. AfterProve(t, r, receipt) =
            IF r \notin Reported THEN t
            ELSE [[[t EXCEPT !.state = r] EXCEPT !.output = out] EXCEPT !.failure_count = fails]
    BY DEF AfterProve, ProveTask
  <1> HIDE DEF out, fails
  <1>4. r \in Reported => r \in TaskState
    BY DEF Reported, TaskState
  <1>5. QED
    BY <1>1, <1>2, <1>3, <1>4 DEF ProveTask, Reported

LEMMA OnProveStep ==
    ASSUME IInv, NEW i, NEW r \in Results, OnProve(i, r)
    PROVE  IInv' /\ ProofsKept
  <1>1. PICK c \in calls :
            /\ c.ref = Prove(i) /\ calls' = calls \ {c}
            /\ prove' = IF i \in DOMAIN prove /\ prove[i].state = "Processing"
                        THEN [prove EXCEPT ![i] = AfterProve(@, r, c.input)] ELSE prove
    BY DEF OnProve
  <1>2. i \in DOMAIN prove /\ i < Segments /\ prove[i].state = "Processing"
    BY <1>1, CallEnds, RefsDiffer DEF CallIsLive
  <1>3. \A k \in DOMAIN prove : prove[k] \in ProveTask
    BY DEF IInv, TypeOK
  <1>4. /\ DOMAIN prove' = DOMAIN prove
        /\ \A k \in DOMAIN prove : k # i => prove'[k] = prove[k]
        /\ prove'[i] = AfterProve(prove[i], r, c.input)
    BY <1>1, <1>2
  <1>5. /\ prove'[i] \in ProveTask /\ prove'[i].is_deferred = prove[i].is_deferred
        /\ r = "Success" => prove'[i].state = "Success"
    BY <1>1, <1>2, <1>3, <1>4, CallEnds, ProveResult
  <1>6. \A a \in DOMAIN agg : agg[a] \in AggTask(a)
    BY DEF IInv, TypeOK
  <1>7. /\ DOMAIN agg' = DOMAIN agg
        /\ \A a \in DOMAIN agg :
             /\ agg'[a] \in AggTask(a)
             /\ agg'[a].state = agg[a].state /\ agg'[a].inputs = agg[a].inputs
             /\ agg'[a].childs \subseteq agg[a].childs
             /\ \A x \in agg[a].childs : x \in agg'[a].childs \/ (x = Prove(i) /\ r = "Success")
             /\ agg[a].state # "Unprocessed" => agg'[a] = agg[a]
    <2>1. CASE r = "Success"
      <3>1. agg' = clear_agg_child_tasks(agg, {Prove(i)})
        BY <2>1 DEF OnProve
      <3>2. QED
        BY <1>6, <2>1, <3>1, ClearChilds
    <2>2. CASE r # "Success"
      BY <1>6, <2>2 DEF OnProve
    <2>3. QED
      BY <2>1, <2>2
  <1>8. ProofsKept
    BY <1>2, <1>4, <1>7 DEF ProofsKept
  <1>9. TypeOK'
    <2>1. prove' \in [DOMAIN prove' -> ProveTask]
      <3>1. \A k \in DOMAIN prove' : prove'[k] \in ProveTask
        BY <1>3, <1>4, <1>5
      <3>2. prove' = [k \in DOMAIN prove' |-> prove'[k]]
        BY <1>1, <1>2 DEF IInv, TypeOK
      <3>3. QED
        BY <3>1, <3>2
    <2>2. is_error' \in BOOLEAN
      BY DEF OnProve
    <2>3. QED
      BY <1>1, <1>4, <1>7, <2>1, <2>2, CallEnds DEF IInv, TypeOK, OnProve, diskVars
  <1>10. CallsUnique'
    BY <1>1, CallEnds
  <1>11. CallsLive'
    <2> SUFFICES ASSUME NEW e \in calls' PROVE CallIsLive(e)'
      BY DEF CallsLive
    <2>1. CallIsLive(e) /\ e.ref # Prove(i)
      BY <1>1, CallEnds
    <2>2. split' = split /\ snark' = snark
      BY DEF OnProve
    <2>3. QED
      BY <1>4, <1>7, <2>1, <2>2 DEF CallIsLive
  <1>12. BeforeGraph'
    BY <1>2, <1>4, <1>5, <1>7 DEF IInv, BeforeGraph, OnProve
  <1>13. NotYetStarted'
    BY DEF IInv, NotYetStarted, OnProve
  <1>14. ChildsCoverInputs'
    <2> SUFFICES ASSUME NEW a \in DOMAIN agg
                 PROVE  /\ \A x \in SeqRange(agg'[a].inputs) : x \in agg'[a].childs \/ ProofDone(x)'
                        /\ agg'[a].state # "Unprocessed" => agg'[a].childs = {}
      BY <1>7 DEF ChildsCoverInputs
    <2>1. /\ \A x \in SeqRange(agg[a].inputs) : x \in agg[a].childs \/ ProofDone(x)
          /\ agg[a].state # "Unprocessed" => agg[a].childs = {}
      BY DEF IInv, ChildsCoverInputs
    <2>2. r = "Success" => ProofDone(Prove(i))'
      BY <1>2, <1>4, <1>5, RefsDiffer DEF ProofDone
    <2>3. QED
      BY <1>7, <1>8, <2>1, <2>2, DoneKept
  <1>15. QED
    BY <1>8, <1>9, <1>10, <1>11, <1>12, <1>13, <1>14 DEF IInv

\* What on_task! makes of an aggregation task.
LEMMA AggResult ==
    ASSUME NEW a, NEW t \in AggTask(a), NEW r \in Results, NEW receipt \in Receipt
    PROVE  /\ AfterAgg(t, r, receipt) \in AggTask(a)
           /\ AfterAgg(t, r, receipt).inputs = t.inputs
           /\ AfterAgg(t, r, receipt).childs = t.childs
           /\ r = "Success" => AfterAgg(t, r, receipt).state = "Success"
  <1> DEFINE out == IF r = "Success" THEN receipt ELSE IF r = "Failed" THEN NoReceipt ELSE t.output
  <1>1. out \in Receipt
    BY DEF NoReceipt, Receipt, AggTask
  <1>2. AfterAgg(t, r, receipt) =
            IF r \notin Reported THEN t
            ELSE [[t EXCEPT !.state = r] EXCEPT !.output = out]
    BY DEF AfterAgg, AggTask
  <1> HIDE DEF out
  <1>3. r \in Reported => r \in TaskState
    BY DEF Reported, TaskState
  <1>4. QED
    BY <1>1, <1>2, <1>3 DEF AggTask, Reported

LEMMA OnAggStep ==
    ASSUME IInv, NEW b, NEW r \in Results, OnAgg(b, r)
    PROVE  IInv' /\ ProofsKept
  <1> DEFINE tasks(c) == IF b \in DOMAIN agg /\ agg[b].state = "Processing"
                         THEN [agg EXCEPT ![b] = AfterAgg(@, r, c.input)] ELSE agg
  <1>1. PICK c \in calls :
            /\ c.ref = Agg(b) /\ calls' = calls \ {c}
            /\ agg' = IF r = "Success" THEN clear_agg_child_tasks(tasks(c), {Agg(b)}) ELSE tasks(c)
            /\ proofFile' \in {proofFile, [exists |-> TRUE, receipt |-> c.input]}
    BY DEF OnAgg
  <1>2. b \in DOMAIN agg /\ agg[b].state = "Processing"
    BY <1>1, CallEnds, RefsDiffer DEF CallIsLive
  <1>3. \A a \in DOMAIN agg : agg[a] \in AggTask(a)
    BY DEF IInv, TypeOK
  <1> DEFINE mid == tasks(c)
  <1>4. /\ DOMAIN mid = DOMAIN agg
        /\ \A a \in DOMAIN agg : a # b => mid[a] = agg[a]
        /\ mid[b] = AfterAgg(agg[b], r, c.input)
    BY <1>2
  <1>5. agg' = IF r = "Success" THEN clear_agg_child_tasks(mid, {Agg(b)}) ELSE mid
    BY <1>1
  <1> HIDE DEF mid, tasks
  <1>6. \A a \in DOMAIN agg :
           /\ mid[a] \in AggTask(a)
           /\ mid[a].inputs = agg[a].inputs /\ mid[a].childs = agg[a].childs
           /\ a = b /\ r = "Success" => mid[a].state = "Success"
    BY <1>1, <1>2, <1>3, <1>4, CallEnds, AggResult
  <1>7. /\ DOMAIN agg' = DOMAIN agg
        /\ \A a \in DOMAIN agg :
             /\ agg'[a] \in AggTask(a)
             /\ agg'[a].state = mid[a].state /\ agg'[a].inputs = agg[a].inputs
             /\ agg'[a].childs \subseteq agg[a].childs
             /\ \A x \in agg[a].childs : x \in agg'[a].childs \/ (x = Agg(b) /\ r = "Success")
             /\ mid[a].state # "Unprocessed" => agg'[a] = mid[a]
    <2>1. CASE r = "Success"
      <3>1. agg' = clear_agg_child_tasks(mid, {Agg(b)})
        BY <1>5, <2>1
      <3>2. \A a \in DOMAIN mid : mid[a] \in AggTask(a)
        BY <1>4, <1>6
      <3>3. QED
        BY <1>4, <1>6, <2>1, <3>1, <3>2, ClearChilds
    <2>2. CASE r # "Success"
      BY <1>4, <1>5, <1>6, <2>2
    <2>3. QED
      BY <2>1, <2>2
  <1>8. ProofsKept
    BY <1>2, <1>4, <1>7 DEF ProofsKept, OnAgg
  <1>9. TypeOK'
    <2>1. proofFile' \in [exists : BOOLEAN, receipt : Receipt]
      <3>1. c.input \in Receipt
        BY <1>1, CallEnds
      <3>2. [exists |-> TRUE, receipt |-> c.input] \in [exists : BOOLEAN, receipt : Receipt]
        BY <3>1
      <3>3. QED
        BY <1>1, <3>2 DEF IInv, TypeOK
    <2>2. is_error' \in BOOLEAN
      BY DEF OnAgg
    <2>3. QED
      BY <1>1, <1>7, <2>1, <2>2, CallEnds DEF IInv, TypeOK, OnAgg, diskVars
  <1>10. CallsUnique'
    BY <1>1, CallEnds
  <1>11. CallsLive'
    <2> SUFFICES ASSUME NEW e \in calls' PROVE CallIsLive(e)'
      BY DEF CallsLive
    <2>1. CallIsLive(e) /\ e.ref # Agg(b)
      BY <1>1, CallEnds
    <2>2. split' = split /\ snark' = snark /\ prove' = prove
      BY DEF OnAgg
    <2>3. QED
      BY <1>4, <1>7, <2>1, <2>2 DEF CallIsLive
  <1>12. BeforeGraph'
    BY <1>2 DEF IInv, BeforeGraph, OnAgg
  <1>13. NotYetStarted'
    BY DEF IInv, NotYetStarted, OnAgg
  <1>14. ChildsCoverInputs'
    <2> SUFFICES ASSUME NEW a \in DOMAIN agg
                 PROVE  /\ \A x \in SeqRange(agg'[a].inputs) : x \in agg'[a].childs \/ ProofDone(x)'
                        /\ agg'[a].state # "Unprocessed" => agg'[a].childs = {}
      BY <1>7 DEF ChildsCoverInputs
    <2>1. /\ \A x \in SeqRange(agg[a].inputs) : x \in agg[a].childs \/ ProofDone(x)
          /\ agg[a].state # "Unprocessed" => agg[a].childs = {}
      BY DEF IInv, ChildsCoverInputs
    <2>2. r = "Success" => ProofDone(Agg(b))'
      BY <1>2, <1>6, <1>7, RefsDiffer DEF ProofDone
    <2>3. agg'[a].state # "Unprocessed" => agg'[a].childs = {}
      BY <1>2, <1>4, <1>7, <2>1
    <2>4. QED
      BY <1>7, <1>8, <2>1, <2>2, <2>3, DoneKept
  <1>15. QED
    BY <1>8, <1>9, <1>10, <1>11, <1>12, <1>13, <1>14 DEF IInv

----------------------------------------------------------------------------
(* Dispatch.                                                               *)

\* The steps that only move to another step of the job.
LEMMA DispatchMoves ==
    ASSUME IInv, DispatchInit \/ DispatchSplitDone \/ DispatchAgg
    PROVE  IInv' /\ ProofsKept
  <1>1. UNCHANGED <<job, prove, agg, is_error, is_tasks_gen_done, calls, published, segfiles,
                    proofFile, status>>
    BY DEF DispatchInit, DispatchSplitDone, DispatchAgg, diskVars
  <1>2. \A a \in DOMAIN agg : agg[a] \in AggTask(a)
    BY DEF IInv, TypeOK
  <1>3. \/ snark' = snark /\ step' \in {"Prove", "End"}
        \/ snark' = gen_snark_task(agg) /\ snark.state = "Initial" /\ step' = "Snark"
    BY DEF DispatchInit, DispatchSplitDone, DispatchAgg, IInv, NotYetStarted
  <1>4. split' = split \/ (split' = "Unprocessed" /\ split = "Initial")
    BY DEF DispatchInit, DispatchSplitDone, DispatchAgg, IInv, NotYetStarted
  <1>5. TypeOK'
    <2>1. snark' \in [state : TaskState, agg_receipt : Receipt] /\ step' \in Step
      BY <1>2, <1>3, SnarkTask DEF IInv, TypeOK, Step
    <2>2. split' \in TaskState
      BY <1>4 DEF IInv, TypeOK, TaskState
    <2>3. pc' = "top"
      BY DEF DispatchInit, DispatchSplitDone, DispatchAgg
    <2>4. QED
      BY <1>1, <2>1, <2>2, <2>3 DEF IInv, TypeOK
  <1>6. CallsLive'
    <2>1. split = "Processing" => split' = "Processing"
      BY <1>4
    <2>2. snark.state = "Processing" => snark'.state = "Processing"
      BY <1>3
    <2>3. QED
      BY <1>1, <2>1, <2>2 DEF IInv, CallsLive, CallIsLive
  <1>7. CallsUnique' /\ BeforeGraph'
    BY <1>1 DEF IInv, CallsUnique, BeforeGraph
  <1>8. NotYetStarted'
    BY <1>3 DEF IInv, NotYetStarted, DispatchInit, DispatchSplitDone, DispatchAgg
  <1>9. ChildsCoverInputs' /\ ProofsKept
    BY <1>1 DEF IInv, ChildsCoverInputs, ProofDone, ProofsKept
  <1>10. QED
    BY <1>5, <1>6, <1>7, <1>8, <1>9 DEF IInv

\* What Advance does to the step and the snark task.
LEMMA AdvanceStep ==
    ASSUME IInv, step = "Prove", NEW done, NEW tasks, NEW aggs, Advance(done, tasks, aggs),
           \A a \in DOMAIN aggs : aggs[a] \in AggTask(a)
    PROVE  /\ step' \in Step
           /\ snark' \in [state : TaskState, agg_receipt : Receipt]
           /\ snark.state = "Initial"
           /\ NotYetStarted'
  <1>1. snark.state = "Initial"
    BY DEF IInv, NotYetStarted
  <1>2. snark \in [state : TaskState, agg_receipt : Receipt]
    BY DEF IInv, TypeOK
  <1>3. \/ step' \in {"Prove", "End"} /\ snark' = snark
        \/ step' = "Snark" /\ snark' = gen_snark_task(aggs)
    BY DEF Advance
  <1>4. QED
    BY <1>1, <1>2, <1>3, SnarkTask DEF NotYetStarted, Step

LEMMA DispatchProveStep ==
    ASSUME IInv, DispatchProve
    PROVE  IInv' /\ ProofsKept
  <1>1. /\ prove' = gen_prove_task /\ pc' = "top" /\ step = "Prove"
        /\ UNCHANGED <<job, split, agg, is_error, is_tasks_gen_done, calls, published, segfiles,
                       proofFile, status>>
    BY DEF DispatchProve, diskVars
  <1>2. /\ DOMAIN prove' \subseteq Nat /\ prove' \in [DOMAIN prove' -> ProveTask]
        /\ \A i \in DOMAIN prove : i \in DOMAIN prove' /\ prove'[i] = prove[i]
        /\ \A i \in DOMAIN prove' \ DOMAIN prove : prove'[i] = task_with_no
    BY <1>1, GenProveTask DEF IInv
  <1>3. /\ step' \in Step /\ snark' \in [state : TaskState, agg_receipt : Receipt]
        /\ snark.state = "Initial" /\ NotYetStarted'
    BY <1>1, AdvanceStep DEF DispatchProve, IInv, TypeOK
  <1>4. TypeOK'
    BY <1>1, <1>2, <1>3 DEF IInv, TypeOK
  <1>5. CallsLive'
    BY <1>1, <1>2, <1>3 DEF IInv, CallsLive, CallIsLive
  <1>6. CallsUnique'
    BY <1>1 DEF IInv, CallsUnique
  <1>7. BeforeGraph'
    BY <1>1, <1>2, FreshTask DEF IInv, BeforeGraph
  <1>8. ProofsKept
    BY <1>1, <1>2 DEF ProofsKept
  <1>9. ChildsCoverInputs'
    BY <1>1, <1>8, DoneKept DEF IInv, ChildsCoverInputs
  <1>10. QED
    BY <1>3, <1>4, <1>5, <1>6, <1>7, <1>8, <1>9 DEF IInv

LEMMA DispatchGenerateStep ==
    ASSUME IInv, DispatchGenerate
    PROVE  IInv' /\ ProofsKept
  <1> DEFINE before == gen_prove_task
             tasks == gen_prove_task_post(before)
             graph == gen_agg_tasks(tasks)
             aggs == IF job.composite_proof THEN agg
                     ELSE clear_agg_child_tasks(graph, SuccessRefs(tasks))
  <1>1. /\ prove' = tasks /\ agg' = aggs /\ pc' = "top" /\ step = "Prove"
        /\ ~is_tasks_gen_done /\ is_tasks_gen_done' = TRUE /\ is_error' \in BOOLEAN
        /\ UNCHANGED <<job, split, calls, published, segfiles, proofFile, status>>
        /\ Advance(TRUE, tasks, aggs)
    BY DEF DispatchGenerate, diskVars
  <1>2. /\ DOMAIN agg = {}
        /\ \A i \in DOMAIN prove :
              ~prove[i].is_deferred /\ (prove[i].state # "Unprocessed" => i < Segments)
    BY <1>1 DEF IInv, BeforeGraph
  <1>3. /\ DOMAIN before \subseteq Nat /\ before \in [DOMAIN before -> ProveTask]
        /\ \A i \in DOMAIN prove : i \in DOMAIN before /\ before[i] = prove[i]
        /\ \A i \in DOMAIN before \ DOMAIN prove : before[i] = task_with_no
    BY GenProveTask DEF IInv
  <1> HIDE DEF before
  <1>4. \A i \in DOMAIN before : ~before[i].is_deferred
    BY <1>2, <1>3, FreshTask
  <1>5. /\ DOMAIN tasks = 0..(Segments + Deferred - 1)
        /\ tasks \in [DOMAIN tasks -> ProveTask]
        /\ \A i \in DOMAIN tasks : i < Segments =>
              tasks[i] = IF i \in DOMAIN before THEN before[i] ELSE task_with_no
        /\ \A i \in DOMAIN tasks : tasks[i].is_deferred <=> i >= Segments
        /\ \A i \in DOMAIN tasks : i >= Segments => tasks[i].state = "Success"
    BY <1>3, <1>4, GenProveTaskPost
  <1> HIDE DEF tasks
  <1>6. \A i \in DOMAIN prove : prove[i].state # "Unprocessed"
            => i \in DOMAIN tasks /\ tasks[i] = prove[i]
    <2> SUFFICES ASSUME NEW i \in DOMAIN prove, prove[i].state # "Unprocessed"
                 PROVE  i \in DOMAIN tasks /\ tasks[i] = prove[i]
      OBVIOUS
    <2>1. i \in Nat /\ i < Segments
      BY <1>2 DEF IInv, TypeOK
    <2>2. i \in 0..(Segments + Deferred - 1)
      BY <2>1, StageAssumption
    <2>3. QED
      BY <1>3, <1>5, <2>1, <2>2
  <1>7. /\ DOMAIN graph \subseteq Nat
        /\ \A a \in DOMAIN graph :
             /\ graph[a] \in AggTask(a)
             /\ graph[a].state \in {"Unprocessed", "Success"}
             /\ graph[a].state = "Success" => graph[a].childs = {} /\ SeqRange(graph[a].inputs) = {}
             /\ \A r \in SeqRange(graph[a].inputs) :
                    r \in graph[a].childs \/ (a \in Segments..(Segments + Deferred - 1) /\ r = Prove(a))
    BY <1>5, GenAggTasks
  <1> HIDE DEF graph
  <1> DEFINE cleared == clear_agg_child_tasks(graph, SuccessRefs(tasks))
  <1>8. /\ DOMAIN cleared = DOMAIN graph
        /\ \A a \in DOMAIN graph :
             /\ cleared[a] \in AggTask(a)
             /\ cleared[a].state = graph[a].state /\ cleared[a].inputs = graph[a].inputs
             /\ cleared[a].childs \subseteq graph[a].childs
             /\ \A r \in graph[a].childs : r \in cleared[a].childs \/ r \in SuccessRefs(tasks)
             /\ graph[a].state # "Unprocessed" => cleared[a] = graph[a]
    BY <1>7, ClearChilds
  <1>9. aggs = IF job.composite_proof THEN agg ELSE cleared
    OBVIOUS
  <1> HIDE DEF cleared, aggs
  <1>10. DOMAIN aggs \subseteq Nat /\ \A a \in DOMAIN aggs : aggs[a] \in AggTask(a)
    BY <1>2, <1>7, <1>8, <1>9
  <1>11. ProofsKept
    BY <1>1, <1>2, <1>6 DEF ProofsKept
  <1>12. /\ step' \in Step /\ snark' \in [state : TaskState, agg_receipt : Receipt]
         /\ snark.state = "Initial" /\ NotYetStarted'
    BY <1>1, <1>10, AdvanceStep
  <1>13. TypeOK'
    <2>1. DOMAIN tasks \subseteq Nat
      BY <1>5, StageAssumption
    <2>2. QED
      BY <1>1, <1>5, <1>10, <1>12, <2>1 DEF IInv, TypeOK
  <1>14. CallsLive'
    <2> SUFFICES ASSUME NEW c \in calls PROVE CallIsLive(c)'
      BY <1>1 DEF CallsLive
    <2>1. CallIsLive(c)
      BY DEF IInv, CallsLive
    <2>2. CASE c.ref = SplitRef /\ split = "Processing"
      BY <1>1, <2>2 DEF CallIsLive
    <2>3. CASE \E i \in DOMAIN prove : c.ref = Prove(i) /\ i < Segments /\ prove[i].state = "Processing"
      <3>1. PICK i \in DOMAIN prove : c.ref = Prove(i) /\ i < Segments /\ prove[i].state = "Processing"
        BY <2>3
      <3>2. i \in DOMAIN prove' /\ prove'[i] = prove[i]
        BY <1>1, <1>6, <3>1
      <3>3. QED
        BY <3>1, <3>2 DEF CallIsLive
    <2>4. QED
      BY <1>2, <1>12, <2>1, <2>2, <2>3 DEF CallIsLive
  <1>15. CallsUnique' /\ BeforeGraph'
    BY <1>1 DEF IInv, CallsUnique, BeforeGraph
  <1>16. ChildsCoverInputs'
    <2> SUFFICES ASSUME NEW a \in DOMAIN aggs
                 PROVE  /\ \A r \in SeqRange(aggs[a].inputs) : r \in aggs[a].childs \/ ProofDone(r)'
                        /\ aggs[a].state # "Unprocessed" => aggs[a].childs = {}
      BY <1>1 DEF ChildsCoverInputs
    <2>1. aggs = cleared /\ a \in DOMAIN graph
      BY <1>2, <1>8, <1>9
    <2>2. \A r \in SuccessRefs(tasks) : ProofDone(r)'
      BY <1>1, RefsDiffer DEF SuccessRefs, ProofDone
    <2>3. a \in Segments..(Segments + Deferred - 1) => ProofDone(Prove(a))'
      <3>1. a \in Segments..(Segments + Deferred - 1) =>
               a \in DOMAIN tasks /\ tasks[a].state = "Success"
        BY <1>5, StageAssumption
      <3>2. QED
        BY <1>1, <3>1, RefsDiffer DEF ProofDone
    <2>4. \A r \in SeqRange(aggs[a].inputs) : r \in aggs[a].childs \/ ProofDone(r)'
      BY <1>7, <1>8, <2>1, <2>2, <2>3
    <2>5. aggs[a].state # "Unprocessed" => aggs[a].childs = {}
      BY <1>7, <1>8, <2>1
    <2>6. QED
      BY <2>4, <2>5
  <1>17. QED
    BY <1>11, <1>12, <1>13, <1>14, <1>15, <1>16 DEF IInv

----------------------------------------------------------------------------
(* The invariant and what it gives.                                        *)

LEMMA StepInv ==
    ASSUME IInv, [Next]_vars
    PROVE  IInv' /\ ProofsKept
  <1>1. CASE Schedule
    BY <1>1, QuietSteps, ScheduleProveStep, ScheduleSnarkStep DEF Schedule
  <1>2. CASE \E r \in Results : OnSplit(r) \/ OnSnark(r)
    BY <1>2, OnSplitStep, OnSnarkStep
  <1>3. CASE \E r \in Results : \E c \in calls : OnProve(c.ref[2], r) \/ OnAgg(c.ref[2], r)
    BY <1>3, OnProveStep, OnAggStep
  <1>4. CASE Dispatch
    BY <1>4, QuietSteps, DispatchMoves, DispatchGenerateStep, DispatchProveStep DEF Dispatch
  <1>5. CASE Tick \/ Break \/ Finish \/ SplitPublish
    BY <1>5, QuietSteps
  <1>6. CASE \E i \in 0..(Segments - 1) : SplitWrite(i)
    BY <1>6, QuietSteps
  <1>7. CASE Stopped \/ UNCHANGED vars
    BY <1>7, QuietSteps DEF Stopped
  <1>8. QED
    BY <1>1, <1>2, <1>3, <1>4, <1>5, <1>6, <1>7 DEF Next

LEMMA Invariance == Spec => []IInv
  <1>1. IInv /\ [Next]_vars => IInv'
    BY StepInv
  <1>2. QED
    BY InitInv, <1>1, PTL DEF Spec

\* The stage's fields, the calls and the shared directory keep their types: the
\* failure count never passes its limit, and an aggregation never waits for
\* anything but its own inputs.
THEOREM TypeCorrect == Spec => []TypeOK
  <1>1. IInv => TypeOK
    BY DEF IInv
  <1>2. QED
    BY Invariance, <1>1, PTL

\* get_agg_task never hands out an aggregation one of whose inputs is missing, for
\* any number of segments and provers and any order of results.
THEOREM AggregatesExistingProofs == Spec => []AggInputsReady
  <1>1. IInv => AggInputsReady
    BY DEF IInv, ChildsCoverInputs, AggInputsReady
  <1>2. QED
    BY Invariance, <1>1, PTL

\* A task is at the provers at most once and is held as Processing while it is.
THEOREM CallsMatchTasks == Spec => []OneCallPerTask
  <1>1. ASSUME IInv PROVE OneCallPerTask
    <2>1. \A c \in calls : StateOf(c.ref) = "Processing"
      <3> SUFFICES ASSUME NEW c \in calls PROVE StateOf(c.ref) = "Processing"
        OBVIOUS
      <3>1. CallIsLive(c)
        BY <1>1 DEF IInv, CallsLive
      <3>2. QED
        BY <3>1, RefsDiffer DEF CallIsLive, StateOf
    <2>2. QED
      BY <1>1, <2>1 DEF IInv, CallsUnique, OneCallPerTask
  <1>2. QED
    BY Invariance, <1>1, PTL

\* No step loses, redoes or replaces a finished root proof or aggregation.
THEOREM ProofsAreKept == Spec => FinishedProofsKept
  <1>1. IInv /\ [Next]_vars => [ProofsKept]_vars
    BY StepInv
  <1>2. QED
    BY Invariance, <1>1, PTL DEF Spec, FinishedProofsKept, ProofsKept

----------------------------------------------------------------------------
(* What a job ends with: the cause of an error or of a panic, the proofs   *)
(* an aggregation waits for, and the proof behind a Success.  IInv says    *)
(* which tasks exist and run; the parts here, in the order in which they   *)
(* are proved, add the course of the job, the graph as built, and the      *)
(* receipts.                                                               *)

\* The loop is on its way out.
Leaving == {"dispatch", "finish", "done", "panicked"}

\* gen_prove_task_post rejects a v1 program of one segment.
TooSmall == Feature = "prover" /\ Segments + Deferred < 2

\* The result that has just come is a failure that may not be retried.
NewCause ==
    \/ FailedAtOnce'
    \/ \E i \in DOMAIN prove :
        /\ prove[i].state = "Processing" /\ prove[i].failure_count = MaxFailures
        /\ prove'[i].state = "Failed"

ErrorCause ==
    \/ split = "Failed" \/ snark.state = "Failed"
    \/ \E a \in DOMAIN agg : agg[a].state = "Failed"
    \/ \E i \in DOMAIN prove : prove[i].state = "Failed" /\ prove[i].failure_count = MaxFailures

\* The loop ends in the turn in which an error is found, before a retry could hide
\* what caused it.
ErrorLasts == is_error => TooSmall \/ (pc \in Leaving /\ ErrorCause)

\* Where the job is, and what it must have done to get there.
CourseOfSplit ==
    /\ job.from_step = "Agg" => split = "Initial" /\ DOMAIN prove = {}
    /\ split = "Success" => segfiles = 0..(Segments - 1)
    /\ is_tasks_gen_done => /\ split = "Success" /\ job.from_step = "Init" /\ job.target_step # "Split"
                            /\ DOMAIN prove = 0..(Segments + Deferred - 1)
                            /\ TooSmall => is_error

CourseOfSteps ==
    /\ step # "Split"
    /\ step \in {"Init", "Prove", "End"} => job.from_step = "Init"
    /\ step = "Agg" => job.from_step = "Agg"
    /\ step = "End" =>
          /\ snark.state = "Initial" /\ split = "Success"
          /\ \/ job.target_step = "Split"
             \/ /\ is_tasks_gen_done /\ AllSuccess(prove)
                /\ job.composite_proof \/ (job.target_step = "Agg" /\ AllSuccess(agg))
    /\ step = "Snark" =>
          \/ job.from_step = "Agg"
          \/ /\ is_tasks_gen_done /\ job.target_step = "Snark" /\ ~job.composite_proof
             /\ AllSuccess(prove) /\ AllSuccess(agg)

CourseOfLoop ==
    /\ snark.state = "Success" => pc \in Leaving /\ proofFile.exists
    /\ pc \in {"finish", "done"} => Ended
    /\ status = "Success" => pc = "done" /\ ~is_error
    /\ PanicHasCause

Course == CourseOfSplit /\ CourseOfSteps /\ CourseOfLoop

\* The aggregations are those of the graph for this job.
GraphBuilt ==
    /\ is_tasks_gen_done /\ ~job.composite_proof => DOMAIN agg = 0..(AggCount(Segments, Deferred) - 1)
    /\ \A a \in DOMAIN agg :
          /\ a \in 0..(AggCount(Segments, Deferred) - 1)
          /\ agg[a].is_final = IsFinal(Segments, Deferred, a)
          /\ IsPlaceholder(Segments, Deferred, a) => agg[a].state = "Success"

\* Nobody waits for a proof that exists.
NoStaleChild == \A a \in DOMAIN agg : \A r \in agg[a].childs : ~ProofDone(r)

Spans == CHOOSE sp : Covers(Segments, Deferred, sp)

\* What every proof covers, and every call would produce.
ProofReceipts ==
    /\ \A i \in DOMAIN prove : prove[i].state = "Success" => prove[i].output = <<i>>
    /\ \A a \in DOMAIN agg : agg[a].state = "Success" /\ ~IsPlaceholder(Segments, Deferred, a)
          => agg[a].output = Interval(Spans[a])

CallReceipts ==
    \A c \in calls :
        /\ c.ref[1] = "prove" => c.input = <<c.ref[2]>>
        /\ c.ref[1] = "agg" => c.input = Interval(Spans[c.ref[2]])
        /\ c.ref[1] = "snark" => c.input = snark.agg_receipt

EndReceipts ==
    /\ snark.state # "Initial" =>
          /\ job.from_step = "Agg" => snark.agg_receipt = ClientReceipt
          /\ job.from_step = "Init" /\ ~TooSmall => snark.agg_receipt = Execution
    /\ snark.state = "Success" => proofFile = [exists |-> TRUE, receipt |-> snark.agg_receipt]
    /\ job.from_step = "Init" /\ job.target_step = "Agg" =>
          \A a \in DOMAIN agg :
              agg[a].is_final /\ agg[a].state = "Success" /\ ~IsPlaceholder(Segments, Deferred, a)
                  => proofFile = [exists |-> TRUE, receipt |-> agg[a].output]

Receipts == ProofReceipts /\ CallReceipts /\ EndReceipts

----------------------------------------------------------------------------
(* Errors.                                                                 *)

LEMMA ErrorStarts == Init => ErrorLasts
  BY DEF Init, ErrorLasts

\* A result that is an error leaves its cause behind.
LEMMA ErrorOfResult ==
    ASSUME IInv, ErrorLasts, pc = "select",
           \/ \E r \in Results : OnSplit(r) \/ OnSnark(r)
           \/ \E r \in Results : \E i : OnProve(i, r) \/ OnAgg(i, r)
    PROVE  ErrorLasts' /\ (is_error' => NewCause)
  <1>a. TooSmall => ErrorLasts' /\ NewCause
    BY DEF ErrorLasts, TooSmall, NewCause, FailedAtOnce
  <1> SUFFICES ASSUME is_error', ~TooSmall PROVE pc' \in Leaving /\ ErrorCause' /\ NewCause
    BY <1>a DEF ErrorLasts
  <1>1. ~is_error
    BY DEF ErrorLasts, Leaving
  <1>2. pc' \in Leaving
    BY DEF OnSplit, OnSnark, OnProve, OnAgg, Leaving
  <1>3. ASSUME NEW r \in Results, OnSplit(r) \/ OnSnark(r) PROVE ErrorCause' /\ NewCause
    <2>1. CASE OnSplit(r)
      BY <1>1, <2>1 DEF OnSplit, ErrorCause, NewCause, FailedAtOnce, Reported
    <2>2. CASE OnSnark(r)
      <3>1. snark \in [state : TaskState, agg_receipt : Receipt]
        BY DEF IInv, TypeOK
      <3>2. r = "Failed" /\ snark' = [snark EXCEPT !.state = IF r \in Reported THEN r ELSE @]
        BY <1>1, <2>2 DEF OnSnark
      <3>3. snark'.state = "Failed"
        BY <3>1, <3>2 DEF Reported
      <3>4. QED
        BY <3>3 DEF ErrorCause, NewCause, FailedAtOnce
    <2>3. QED
      BY <1>3, <2>1, <2>2
  <1>4. ASSUME NEW r \in Results, NEW i, OnProve(i, r) PROVE ErrorCause' /\ NewCause
    <2>1. /\ i \in DOMAIN prove /\ prove[i].state = "Processing" /\ r = "Failed"
          /\ RetriesUsedUp(prove[i])
      BY <1>1, <1>4 DEF OnProve, IsFatal
    <2>2. PICK c \in calls : prove' = [prove EXCEPT ![i] = AfterProve(@, r, c.input)]
      BY <1>4, <2>1 DEF OnProve
    <2>3. prove[i] \in ProveTask
      BY <2>1 DEF IInv, TypeOK
    <2>4. /\ AfterProve(prove[i], r, c.input).state = "Failed"
          /\ AfterProve(prove[i], r, c.input).failure_count = prove[i].failure_count
      BY <2>1, <2>3 DEF AfterProve, Reported, ProveTask
    <2>5. prove[i].failure_count = MaxFailures
      BY <2>1, <2>3, StageAssumption DEF RetriesUsedUp, ProveTask
    <2>6. i \in DOMAIN prove' /\ prove'[i] = AfterProve(prove[i], r, c.input)
      BY <2>1, <2>2
    <2>7. QED
      BY <2>1, <2>4, <2>5, <2>6 DEF ErrorCause, NewCause
  <1>5. ASSUME NEW r \in Results, NEW i, OnAgg(i, r) PROVE ErrorCause' /\ NewCause
    <2>1. i \in DOMAIN agg /\ agg[i].state = "Processing" /\ r = "Failed"
      BY <1>1, <1>5 DEF OnAgg
    <2>2. PICK c \in calls : agg' = [agg EXCEPT ![i] = AfterAgg(@, r, c.input)]
      BY <1>5, <2>1 DEF OnAgg
    <2>3. agg[i] \in AggTask(i)
      BY <2>1 DEF IInv, TypeOK
    <2>4. AfterAgg(agg[i], r, c.input).state = "Failed"
      BY <2>1, <2>3 DEF AfterAgg, Reported, AggTask
    <2>5. i \in DOMAIN agg' /\ agg'[i] = AfterAgg(agg[i], r, c.input)
      BY <2>1, <2>2
    <2>6. QED
      BY <2>4, <2>5 DEF ErrorCause, NewCause, FailedAtOnce
  <1>6. QED
    BY <1>2, <1>3, <1>4, <1>5

LEMMA ErrorStep ==
    ASSUME IInv, ErrorLasts, [Next]_vars
    PROVE  ErrorLasts' /\ (is_error' /\ ~is_error => NewCause)
  <1>1. CASE /\ UNCHANGED stageVars
             /\ pc \in Leaving => pc' \in Leaving \/ ~is_error
    BY <1>1 DEF ErrorLasts, ErrorCause, TooSmall, stageVars
  <1>2. CASE SplitPublish \/ (\E i \in 0..(Segments - 1) : SplitWrite(i)) \/ UNCHANGED vars
    BY <1>1, <1>2 DEF SplitPublish, SplitWrite, vars
  <1>3. CASE ScheduleNothing \/ Tick \/ Break \/ DispatchSnark \/ Finish
    <2>1. UNCHANGED stageVars
      BY <1>3 DEF ScheduleNothing, Tick, Break, DispatchSnark, Finish, FinishError, FinishSuccess, FinishPanic
    <2>2. pc \in Leaving => pc' \in Leaving \/ ~is_error
      BY <1>3 DEF ScheduleNothing, Tick, Break, DispatchSnark, Finish, FinishError, FinishSuccess,
                  FinishPanic, Leaving, Ended
    <2>3. QED
      BY <1>1, <2>1, <2>2
  <1>4. CASE /\ pc \notin Leaving \/ ~is_error
             /\ is_error' = is_error
    BY <1>4 DEF ErrorLasts, TooSmall
  <1>5. CASE ScheduleProve \/ ScheduleSnark
    BY <1>4, <1>5 DEF ScheduleProve, ScheduleSnark, Leaving
  <1>6. CASE DispatchInit \/ DispatchSplitDone \/ DispatchProve \/ DispatchAgg
    BY <1>4, <1>6 DEF DispatchInit, DispatchSplitDone, DispatchProve, DispatchAgg, Ended
  <1>7. CASE DispatchGenerate
    BY <1>7 DEF DispatchGenerate, ErrorLasts, TooSmall, NewCause, FailedAtOnce
  <1>8. CASE \E r \in Results : OnSplit(r) \/ OnSnark(r)
    <2>1. pc = "select"
      BY <1>8 DEF OnSplit, OnSnark
    <2>2. QED
      BY <1>8, <2>1, ErrorOfResult
  <1>9. CASE \E r \in Results : \E c \in calls : OnProve(c.ref[2], r) \/ OnAgg(c.ref[2], r)
    <2>1. pc = "select"
      BY <1>9 DEF OnProve, OnAgg
    <2>2. QED
      BY <1>9, <2>1, ErrorOfResult
  <1>10. QED
    BY <1>2, <1>3, <1>5, <1>6, <1>7, <1>8, <1>9 DEF Next, Schedule, Dispatch, Stopped

\* A job ends in an error only for one of the reasons the code has: the failure that
\* set is_error is still there when the row is written, and a root proof that set it
\* had used up its retries before.
THEOREM ErrorsHaveCause == Spec => ErrorHasCause
  <1>1. IInv /\ ErrorLasts /\ [Next]_vars => ErrorLasts' /\ [ErrorFound]_vars
    BY ErrorStep DEF ErrorFound, NewCause
  <1>2. ErrorLasts => ErrorKept
    BY DEF ErrorLasts, ErrorCause, ErrorKept, FailedAtOnce, TooSmall
  <1>3. QED
    BY Invariance, ErrorStarts, <1>1, <1>2, PTL DEF Spec, ErrorHasCause

----------------------------------------------------------------------------
(* The course of a job.                                                    *)

\* The steps that leave the stage and its calls alone.
Calm ==
    \/ SplitPublish \/ (\E i \in 0..(Segments - 1) : SplitWrite(i))
    \/ ScheduleNothing \/ Tick \/ Break \/ DispatchSnark \/ Finish \/ UNCHANGED vars

LEMMA CalmStep ==
    ASSUME Calm
    PROVE  /\ UNCHANGED <<job, step, split, prove, agg, snark, is_error, is_tasks_gen_done, calls, proofFile>>
           /\ segfiles' = segfiles \/ \E i \in 0..(published - 1) \ segfiles : segfiles' = segfiles \cup {i}
  BY DEF Calm, SplitPublish, SplitWrite, ScheduleNothing, Tick, Break, DispatchSnark, Finish,
         FinishError, FinishSuccess, FinishPanic, vars, stageVars, diskVars

\* The result of a call is that of a task the stage holds as Processing.
LEMMA ResultIsLive ==
    ASSUME IInv, NEW r \in Results
    PROVE  /\ OnSplit(r) => split = "Processing"
           /\ OnSnark(r) => snark.state = "Processing"
           /\ \A i : OnProve(i, r) => i \in DOMAIN prove /\ i < Segments /\ prove[i].state = "Processing"
           /\ \A a : OnAgg(a, r) => a \in DOMAIN agg /\ agg[a].state = "Processing"
  <1>1. \A c \in calls : CallIsLive(c)
    BY DEF IInv, CallsLive
  <1>2. OnSplit(r) => split = "Processing"
    BY <1>1, RefsDiffer DEF OnSplit, CallIsLive
  <1>3. OnSnark(r) => snark.state = "Processing"
    BY <1>1, RefsDiffer DEF OnSnark, CallIsLive
  <1>4. \A i : OnProve(i, r) => i \in DOMAIN prove /\ i < Segments /\ prove[i].state = "Processing"
    BY <1>1, RefsDiffer DEF OnProve, CallIsLive
  <1>5. \A a : OnAgg(a, r) => a \in DOMAIN agg /\ agg[a].state = "Processing"
    BY <1>1, RefsDiffer DEF OnAgg, CallIsLive
  <1>6. QED
    BY <1>2, <1>3, <1>4, <1>5

\* The disjuncts of Next, those that leave the stage alone taken together.
LEMMA StepCases ==
    ASSUME [Next]_vars
    PROVE  \/ Calm \/ ScheduleProve \/ ScheduleSnark
           \/ DispatchInit \/ DispatchSplitDone \/ DispatchGenerate \/ DispatchProve \/ DispatchAgg
           \/ \E r \in Results : OnSplit(r) \/ OnSnark(r)
           \/ \E r \in Results : \E i : OnProve(i, r) \/ OnAgg(i, r)
  BY DEF Next, Calm, Schedule, Dispatch, Stopped

\* What has been done stays done.
LEMMA Frame ==
    ASSUME IInv, Course, [Next]_vars
    PROVE  /\ job' = job
           /\ is_error => is_error'
           /\ split = "Success" => split' = "Success"
           /\ is_tasks_gen_done => is_tasks_gen_done' /\ DOMAIN prove' = DOMAIN prove /\ DOMAIN agg' = DOMAIN agg
  <1>1. CASE Calm
    BY <1>1, CalmStep
  <1>2. CASE ScheduleProve \/ ScheduleSnark
    BY <1>2 DEF ScheduleProve, ScheduleSnark, Runnable
  <1>3. CASE DispatchInit \/ DispatchSplitDone \/ DispatchProve \/ DispatchAgg
    BY <1>3 DEF DispatchInit, DispatchSplitDone, DispatchProve, DispatchAgg, gen_prove_task, IInv, NotYetStarted
  <1>4. CASE DispatchGenerate
    BY <1>4 DEF DispatchGenerate, Ended
  <1>5. CASE \E r \in Results : OnSplit(r) \/ OnSnark(r)
    <2>1. is_error => is_error'
      BY <1>5, Zenon DEF OnSplit, OnSnark
    <2>2. QED
      BY <1>5, <2>1, ResultIsLive DEF OnSplit, OnSnark
  <1>6. ASSUME NEW r \in Results, NEW i, OnProve(i, r)
        PROVE  DOMAIN prove' = DOMAIN prove /\ DOMAIN agg' = DOMAIN agg
    BY <1>6 DEF OnProve, clear_agg_child_tasks
  <1>7. ASSUME NEW r \in Results, NEW a, OnAgg(a, r)
        PROVE  DOMAIN agg' = DOMAIN agg
    <2>1. PICK c \in calls : LET tasks == IF a \in DOMAIN agg /\ agg[a].state = "Processing"
                                          THEN [agg EXCEPT ![a] = AfterAgg(@, r, c.input)] ELSE agg
                             IN agg' = IF r = "Success" THEN clear_agg_child_tasks(tasks, {Agg(a)}) ELSE tasks
      BY <1>7 DEF OnAgg
    <2>2. QED
      BY <2>1 DEF clear_agg_child_tasks
  <1>8. CASE \E r \in Results : \E i : OnProve(i, r) \/ OnAgg(i, r)
    <2>1. is_error => is_error'
      BY <1>8, Zenon DEF OnProve, OnAgg
    <2>2. UNCHANGED <<job, split, is_tasks_gen_done>>
      BY <1>8, Zenon DEF OnProve, OnAgg
    <2>3. DOMAIN prove' = DOMAIN prove /\ DOMAIN agg' = DOMAIN agg
      BY <1>6, <1>7, <1>8 DEF OnAgg
    <2>4. QED
      BY <2>1, <2>2, <2>3
  <1>9. QED
    BY <1>1, <1>2, <1>3, <1>4, <1>5, <1>8, StepCases

LEMMA CourseStarts == Init => Course
  <1> SUFFICES ASSUME Init PROVE Course
    OBVIOUS
  <1>1. job.from_step \in {"Init", "Agg"}
    BY StageAssumption DEF Init, GenerateTask
  <1>2. DOMAIN prove = {}
    BY DEF Init, EmptyVec
  <1>3. QED
    BY <1>1, <1>2 DEF Init, Course, CourseOfSplit, CourseOfSteps, CourseOfLoop, PanicHasCause

LEMMA CourseOfSplitStep ==
    ASSUME IInv, Course, [Next]_vars
    PROVE  CourseOfSplit'
  <1>1. /\ job' = job /\ (is_error => is_error') /\ (split = "Success" => split' = "Success")
        /\ is_tasks_gen_done => is_tasks_gen_done' /\ DOMAIN prove' = DOMAIN prove
    BY Frame
  <1>2. split = "Success" => segfiles' = segfiles
    <2> SUFFICES ASSUME split = "Success" PROVE segfiles' = segfiles
      OBVIOUS
    <2>1. segfiles = 0..(Segments - 1) /\ published \in 0..Segments
      BY DEF Course, CourseOfSplit, IInv, TypeOK
    <2>2. 0..(published - 1) \ segfiles = {}
      BY <2>1, StageAssumption
    <2>3. CASE Calm
      BY <2>2, <2>3, CalmStep
    <2>4. CASE ~Calm
      BY <2>4, StepCases DEF ScheduleProve, ScheduleSnark, DispatchInit, DispatchSplitDone, DispatchGenerate,
         DispatchProve, DispatchAgg, OnSplit, OnSnark, OnProve, OnAgg, diskVars
    <2>5. QED
      BY <2>3, <2>4
  <1>3. split' = "Success" => segfiles' = 0..(Segments - 1)
    <2>1. CASE split = "Success"
      BY <1>2, <2>1 DEF Course, CourseOfSplit
    <2>2. CASE split # "Success" /\ split' = "Success"
      <3>1. \E r \in Results : OnSplit(r)
        BY <2>2, StepCases, CalmStep DEF ScheduleProve, ScheduleSnark, DispatchInit, DispatchSplitDone,
           DispatchGenerate, DispatchProve, DispatchAgg, OnSnark, OnProve, OnAgg
      <3>2. PICK r \in Results : OnSplit(r)
        BY <3>1
      <3>3. QED
        BY <2>2, <3>2 DEF OnSplit, diskVars
    <2>3. QED
      BY <2>1, <2>2
  <1>4. job.from_step = "Agg" => split' = "Initial" /\ DOMAIN prove' = {}
    <2> SUFFICES ASSUME job.from_step = "Agg" PROVE split' = "Initial" /\ DOMAIN prove' = {}
      OBVIOUS
    <2>1. split = "Initial" /\ DOMAIN prove = {} /\ step \notin {"Init", "Prove", "End"}
      BY DEF Course, CourseOfSplit, CourseOfSteps
    <2>2. UNCHANGED <<split, prove>> \/ (\E r \in Results : OnSplit(r)) \/ (\E r \in Results : \E i : OnProve(i, r))
      BY <2>1, StepCases, CalmStep DEF ScheduleProve, ScheduleSnark, DispatchInit, DispatchSplitDone,
         DispatchGenerate, DispatchProve, DispatchAgg, OnSnark, OnAgg
    <2>3. QED
      BY <2>1, <2>2, ResultIsLive
  <1>5. CASE is_tasks_gen_done
    BY <1>1, <1>3, <1>4, <1>5 DEF Course, CourseOfSplit, TooSmall
  <1>6. CASE ~is_tasks_gen_done /\ is_tasks_gen_done'
    <2>1. DispatchGenerate
      BY <1>6, StepCases, CalmStep DEF ScheduleProve, ScheduleSnark, DispatchInit, DispatchSplitDone,
         DispatchProve, DispatchAgg, OnSplit, OnSnark, OnProve, OnAgg
    <2>2. DOMAIN prove' = 0..(Segments + Deferred - 1)
      BY <2>1 DEF DispatchGenerate, gen_prove_task_post
    <2>3. split' = "Success" /\ job.target_step # "Split" /\ (TooSmall => is_error') /\ step = "Prove"
      BY <2>1 DEF DispatchGenerate, TooSmall
    <2>4. job.from_step = "Init"
      BY <2>3 DEF Course, CourseOfSteps
    <2>5. QED
      BY <1>1, <1>3, <1>4, <2>2, <2>3, <2>4 DEF CourseOfSplit, TooSmall
  <1>7. CASE ~is_tasks_gen_done'
    BY <1>1, <1>3, <1>4, <1>7 DEF CourseOfSplit
  <1>8. QED
    BY <1>5, <1>6, <1>7

\* Where Dispatch takes a job that it lets go on from Prove.
LEMMA AdvanceCases ==
    ASSUME NEW done, NEW tasks, NEW aggs, Advance(done, tasks, aggs)
    PROVE  \/ UNCHANGED <<step, snark>>
           \/ /\ done /\ AllSuccess(tasks) /\ step' = "End" /\ snark' = snark
              /\ job.composite_proof \/ (job.target_step = "Agg" /\ AllSuccess(aggs))
           \/ /\ done /\ AllSuccess(tasks) /\ AllSuccess(aggs)
              /\ step' = "Snark" /\ snark' = gen_snark_task(aggs)
              /\ ~job.composite_proof /\ job.target_step # "Agg"
  BY DEF Advance

LEMMA CourseOfStepsStep ==
    ASSUME IInv, Course, [Next]_vars
    PROVE  CourseOfSteps'
  <1>1. /\ job' = job /\ (split = "Success" => split' = "Success")
        /\ is_tasks_gen_done => is_tasks_gen_done' /\ DOMAIN prove' = DOMAIN prove /\ DOMAIN agg' = DOMAIN agg
    BY Frame
  <1>2. ProofsKept
    BY StepInv
  <1>3. is_tasks_gen_done /\ AllSuccess(prove) => AllSuccess(prove')
    BY <1>1, <1>2 DEF ProofsKept, AllSuccess
  <1>4. is_tasks_gen_done /\ AllSuccess(agg) => AllSuccess(agg')
    BY <1>1, <1>2 DEF ProofsKept, AllSuccess
  <1>5. snark.state = "Initial" /\ step = "End" => snark' = snark \/ step' # "End"
    BY StepCases, CalmStep, ResultIsLive DEF ScheduleProve, ScheduleSnark, DispatchInit, DispatchSplitDone,
       DispatchGenerate, DispatchProve, DispatchAgg, OnSplit, OnSnark, OnProve, OnAgg
  <1>6. job.from_step \in {"Init", "Agg"} /\ job.target_step \in {"Split", "Agg", "Snark"}
    BY StageAssumption DEF IInv, TypeOK, GenerateTask
  <1>7. CASE step' = step
    <2>1. step' # "Split" /\ (step' \in {"Init", "Prove", "End"} => job'.from_step = "Init")
                          /\ (step' = "Agg" => job'.from_step = "Agg")
      BY <1>1, <1>7 DEF Course, CourseOfSteps
    <2>2. CASE step = "End"
      <3>1. snark'.state = "Initial" /\ split' = "Success"
        BY <1>1, <1>5, <1>7, <2>2 DEF Course, CourseOfSteps
      <3>2. \/ job.target_step = "Split"
            \/ /\ is_tasks_gen_done /\ AllSuccess(prove)
               /\ job.composite_proof \/ (job.target_step = "Agg" /\ AllSuccess(agg))
        BY <2>2 DEF Course, CourseOfSteps
      <3>3. \/ job'.target_step = "Split"
            \/ /\ is_tasks_gen_done' /\ AllSuccess(prove')
               /\ job'.composite_proof \/ (job'.target_step = "Agg" /\ AllSuccess(agg'))
        BY <1>1, <1>3, <1>4, <3>2
      <3>4. QED
        BY <1>7, <2>1, <2>2, <3>1, <3>3 DEF CourseOfSteps, AllSuccess
    <2>3. CASE step = "Snark"
      <3>1. \/ job.from_step = "Agg"
            \/ /\ is_tasks_gen_done /\ job.target_step = "Snark" /\ ~job.composite_proof
               /\ AllSuccess(prove) /\ AllSuccess(agg)
        BY <2>3 DEF Course, CourseOfSteps
      <3>2. \/ job'.from_step = "Agg"
            \/ /\ is_tasks_gen_done' /\ job'.target_step = "Snark" /\ ~job'.composite_proof
               /\ AllSuccess(prove') /\ AllSuccess(agg')
        BY <1>1, <1>3, <1>4, <3>1
      <3>3. QED
        BY <1>7, <2>1, <2>3, <3>2 DEF CourseOfSteps, AllSuccess
    <2>4. QED
      BY <1>7, <2>1, <2>2, <2>3 DEF CourseOfSteps
  <1>8. CASE DispatchInit
    BY <1>1, <1>8 DEF DispatchInit, Course, CourseOfSteps
  <1>9. CASE DispatchAgg
    BY <1>1, <1>9 DEF DispatchAgg, Course, CourseOfSteps
  <1>10. CASE DispatchSplitDone
    BY <1>1, <1>10 DEF DispatchSplitDone, Course, CourseOfSteps, IInv, NotYetStarted
  <1>11. CASE /\ step = "Prove" /\ step' # step
              /\ \E done : /\ Advance(done, prove', agg')
                           /\ done => split = "Success" /\ is_tasks_gen_done' /\ job.target_step # "Split"
    <2>1. snark.state = "Initial" /\ job.from_step = "Init"
      BY <1>11 DEF IInv, NotYetStarted, Course, CourseOfSteps
    <2>2. PICK done : /\ Advance(done, prove', agg')
                      /\ done => split = "Success" /\ is_tasks_gen_done' /\ job.target_step # "Split"
      BY <1>11
    <2>3. \/ /\ done /\ AllSuccess(prove') /\ step' = "End" /\ snark' = snark
             /\ job.composite_proof \/ (job.target_step = "Agg" /\ AllSuccess(agg'))
          \/ /\ done /\ step' = "Snark" /\ ~job.composite_proof /\ job.target_step # "Agg"
             /\ AllSuccess(prove') /\ AllSuccess(agg')
      BY <1>11, <2>2, AdvanceCases
    <2>4. CASE step' = "End"
      BY <1>1, <2>1, <2>2, <2>3, <2>4 DEF CourseOfSteps, AllSuccess
    <2>5. CASE step' = "Snark"
      BY <1>1, <1>6, <2>1, <2>2, <2>3, <2>5 DEF CourseOfSteps, AllSuccess
    <2>6. QED
      BY <2>3, <2>4, <2>5
  <1>12. CASE DispatchGenerate
    <2>1. Advance(TRUE, prove', agg') /\ step = "Prove" /\ split = "Success" /\ is_tasks_gen_done'
            /\ job.target_step # "Split"
      BY <1>12 DEF DispatchGenerate
    <2>2. QED
      BY <1>7, <1>11, <2>1
  <1>13. CASE DispatchProve
    <2>1. Advance(is_tasks_gen_done, prove', agg') /\ step = "Prove"
      BY <1>13 DEF DispatchProve
    <2>2. is_tasks_gen_done => split = "Success" /\ is_tasks_gen_done' /\ job.target_step # "Split"
      BY <1>1 DEF Course, CourseOfSplit
    <2>3. QED
      BY <1>7, <1>11, <2>1, <2>2
  <1>14. QED
    BY <1>7, <1>8, <1>9, <1>10, <1>12, <1>13, StepCases, CalmStep
       DEF ScheduleProve, ScheduleSnark, OnSplit, OnSnark, OnProve, OnAgg

LEMMA CourseOfLoopStep ==
    ASSUME IInv, Course, [Next]_vars
    PROVE  CourseOfLoop'
  <1>1. job' = job
    BY Frame
  <1>2. CASE pc \in {"finish", "done", "panicked"}
    <2>1. Finish \/ (pc' = pc /\ status' = status /\ Calm)
      BY <1>2, StepCases DEF Calm, SplitPublish, SplitWrite, ScheduleNothing, Tick, Break, DispatchSnark, vars,
         ScheduleProve, ScheduleSnark, DispatchInit, DispatchSplitDone, DispatchGenerate, DispatchProve,
         DispatchAgg, OnSplit, OnSnark, OnProve, OnAgg
    <2>2. UNCHANGED <<job, step, snark, is_error, proofFile>>
      BY <2>1, CalmStep DEF Calm
    <2>3. Ended' = Ended
      BY <2>2 DEF Ended, is_success
    <2>4. CASE pc' = pc /\ status' = status
      BY <2>2, <2>3, <2>4 DEF Course, CourseOfLoop, PanicHasCause, Leaving
    <2>5. CASE FinishError
      BY <2>2, <2>3, <2>5 DEF FinishError, ErrorStatus, Course, CourseOfLoop, PanicHasCause, Leaving
    <2>6. CASE FinishSuccess
      BY <2>2, <2>3, <2>6 DEF FinishSuccess, Course, CourseOfLoop, PanicHasCause, Leaving
    <2>7. CASE FinishPanic
      <3>1. /\ is_success /\ job.target_step = "Snark" /\ ~proofFile.exists /\ pc' = "panicked"
            /\ status' = status /\ status # "Success"
        BY <2>7 DEF FinishPanic, Course, CourseOfLoop, Ended
      <3>2. snark.state # "Success"
        BY <3>1 DEF Course, CourseOfLoop
      <3>3. step = "End"
        BY <3>1, <3>2 DEF is_success
      <3>4. job.from_step = "Init" /\ job.composite_proof
        BY <3>1, <3>3 DEF Course, CourseOfSteps
      <3>5. QED
        BY <2>2, <3>1, <3>2, <3>4 DEF CourseOfLoop, PanicHasCause
    <2>8. QED
      BY <2>1, <2>4, <2>5, <2>6, <2>7 DEF Finish
  <1>3. CASE pc \notin {"finish", "done", "panicked"}
    <2>1. status # "Success" /\ ~Finish
      BY <1>3 DEF Course, CourseOfLoop, Finish, FinishError, FinishSuccess, FinishPanic
    <2>2. status' = status /\ pc' \notin {"done", "panicked"}
      BY <1>3, <2>1, StepCases DEF Calm, SplitPublish, SplitWrite, ScheduleNothing, Tick, Break, DispatchSnark, vars,
         ScheduleProve, ScheduleSnark, DispatchInit, DispatchSplitDone, DispatchGenerate, DispatchProve,
         DispatchAgg, OnSplit, OnSnark, OnProve, OnAgg
    <2>3. pc' = "finish" => Ended'
      <3>1. pc' = "finish" => Break
        BY <1>3, <2>1, StepCases DEF Calm, SplitPublish, SplitWrite, ScheduleNothing, Tick, DispatchSnark, vars,
           ScheduleProve, ScheduleSnark, DispatchInit, DispatchSplitDone, DispatchGenerate, DispatchProve,
           DispatchAgg, OnSplit, OnSnark, OnProve, OnAgg
      <3>2. QED
        BY <3>1 DEF Break, Ended, is_success, stageVars
    <2>4. snark'.state = "Success" => pc' \in Leaving /\ proofFile'.exists
      <3> SUFFICES ASSUME snark'.state = "Success" PROVE pc' \in Leaving /\ proofFile'.exists
        OBVIOUS
      <3>1. CASE snark.state = "Success"
        <4>1. pc = "dispatch" /\ proofFile.exists /\ Ended
          BY <1>3, <3>1 DEF Course, CourseOfLoop, Leaving, Ended, is_success
        <4>2. Calm /\ pc' \in {"dispatch", "finish"}
          BY <2>1, <4>1, StepCases DEF Calm, SplitPublish, SplitWrite, ScheduleNothing, Tick, Break, DispatchSnark,
             vars, ScheduleProve, ScheduleSnark, DispatchInit, DispatchSplitDone, DispatchGenerate, DispatchProve,
             DispatchAgg, OnSplit, OnSnark, OnProve, OnAgg
        <4>3. QED
          BY <4>1, <4>2, CalmStep DEF Leaving
      <3>2. CASE snark.state # "Success"
        <4>1. snark \in [state : TaskState, agg_receipt : Receipt]
          BY DEF IInv, TypeOK
        <4>2. ~ScheduleSnark
          BY <3>2, <4>1 DEF ScheduleSnark
        <4>3. \A tasks : gen_snark_task(tasks).state = "Unprocessed"
          BY DEF gen_snark_task
        <4>4. ~DispatchAgg /\ ~DispatchGenerate /\ ~DispatchProve
          BY <3>2, <4>3, AdvanceCases DEF DispatchAgg, DispatchGenerate, DispatchProve
        <4>5. \E r \in Results : OnSnark(r)
          BY <3>2, <4>2, <4>4, StepCases, CalmStep DEF ScheduleProve, DispatchInit, DispatchSplitDone,
             OnSplit, OnProve, OnAgg
        <4>6. QED
          BY <4>5 DEF OnSnark, Leaving
      <3>3. QED
        BY <3>1, <3>2
    <2>5. QED
      BY <2>1, <2>2, <2>3, <2>4 DEF CourseOfLoop, PanicHasCause
  <1>4. QED
    BY <1>2, <1>3

LEMMA CourseAlways == Spec => []Course
  <1>1. IInv /\ Course /\ [Next]_vars => Course'
    BY CourseOfSplitStep, CourseOfStepsStep, CourseOfLoopStep DEF Course
  <1>2. QED
    BY Invariance, CourseStarts, <1>1, PTL DEF Spec

\* The loop dies for one kind of request only, a composite proof whose target is the
\* snark, for any number of segments and whatever the provers answer.
THEOREM PanicsHaveCause == Spec => []PanicHasCause
  <1>1. Course => PanicHasCause
    BY DEF Course, CourseOfLoop
  <1>2. QED
    BY CourseAlways, <1>1, PTL

----------------------------------------------------------------------------
(* The graph as built, and who waits for what.                             *)

\* The theorems about the graph, for this job.
LEMMA JobGraph ==
    /\ Covers(Segments, Deferred, Spans)
    /\ AggCount(Segments, Deferred) \in Nat
    /\ \A a \in 0..(AggCount(Segments, Deferred) - 1) :
          \A r \in Inputs(Segments, Deferred, a) : Earlier(Segments, Deferred, a, r)
    /\ \A a, b \in 0..(AggCount(Segments, Deferred) - 1) :
          a # b => Inputs(Segments, Deferred, a) \cap Inputs(Segments, Deferred, b) = {}
  <1>1. Shape(Segments, Deferred)
    BY StageAssumption DEF Shape
  <1>2. Covers(Segments, Deferred, Spans)
    BY <1>1, GraphCoversExecution DEF Spans
  <1>3. AggCount(Segments, Deferred) \in Nat
    BY <1>2 DEF Covers
  <1>4. ASSUME NEW a \in 0..(AggCount(Segments, Deferred) - 1), NEW r \in Inputs(Segments, Deferred, a)
        PROVE  Earlier(Segments, Deferred, a, r)
    <2>1. PICK i \in DOMAIN AggInputs(Segments, Deferred, a) : r = AggInputs(Segments, Deferred, a)[i]
      BY DEF Inputs, SeqRange
    <2>2. ~IsPlaceholder(Segments, Deferred, a)
      <3>1. IsPlaceholder(Segments, Deferred, a) => AggInputs(Segments, Deferred, a) = <<>>
        <4>1. IsPlaceholder(Segments, Deferred, a) => a < LeafCount(Segments, Deferred) /\ Feature = "prover"
          BY StageAssumption DEF IsPlaceholder, LeafCount
        <4>2. QED
          BY <4>1 DEF AggInputs, LeafInputs
      <3>2. QED
        BY <2>1, <3>1
    <2>3. Joins(Segments, Deferred, Spans, a)
      BY <1>2, <2>2 DEF Covers
    <2>4. QED
      BY <2>1, <2>3 DEF Joins
  <1>5. QED
    BY <1>1, <1>2, <1>3, <1>4, OneParentEach

\* clear_agg_child_task touches nothing but the childs.
LEMMA ClearKeeps ==
    ASSUME NEW tasks, NEW done, \A a \in DOMAIN tasks : tasks[a] \in AggTask(a)
    PROVE  LET g == clear_agg_child_tasks(tasks, done) IN
           \A a \in DOMAIN tasks : g[a].is_final = tasks[a].is_final /\ g[a].output = tasks[a].output
                                     /\ g[a].state = tasks[a].state
  BY DEF clear_agg_child_tasks, AggTask

\* It takes out the proof for the first task that waits; no other task waits for it.
LEMMA ClearsAll ==
    ASSUME NEW tasks, NEW done, DOMAIN tasks \subseteq 0..(AggCount(Segments, Deferred) - 1),
           \A a \in DOMAIN tasks : /\ tasks[a] \in AggTask(a)
                                   /\ tasks[a].state # "Unprocessed" => tasks[a].childs = {},
           NEW a \in DOMAIN tasks, NEW r \in done
    PROVE  r \notin clear_agg_child_tasks(tasks, done)[a].childs
  <1> SUFFICES ASSUME r \in clear_agg_child_tasks(tasks, done)[a].childs PROVE FALSE
    OBVIOUS
  <1>1. clear_agg_child_tasks(tasks, done)[a].childs =
            {x \in tasks[a].childs : ~(/\ x \in done
                                       /\ a \in Waiting(tasks, x)
                                       /\ \A b \in Waiting(tasks, x) : a <= b)}
    BY DEF clear_agg_child_tasks, AggTask
  <1>2. r \in tasks[a].childs /\ a \in Waiting(tasks, r)
    BY <1>1 DEF Waiting
  <1>3. \A b \in DOMAIN tasks : tasks[b].childs \subseteq Inputs(Segments, Deferred, b)
    BY DEF AggTask, Inputs
  <1>4. \A b \in Waiting(tasks, r) : b = a
    BY <1>2, <1>3, JobGraph DEF Waiting
  <1>5. a <= a
    BY JobGraph
  <1>6. QED
    BY <1>1, <1>2, <1>4, <1>5

\* How an aggregation changes once the graph is there.
LEMMA AggChanges ==
    ASSUME IInv, [Next]_vars, ~DispatchGenerate
    PROVE  /\ DOMAIN agg' = DOMAIN agg
           /\ \A a \in DOMAIN agg :
                /\ agg'[a].is_final = agg[a].is_final
                /\ agg'[a].childs \subseteq agg[a].childs
                /\ agg'[a].state = "Success" =>
                      \/ agg'[a] = agg[a]
                      \/ /\ OnAgg(a, "Success")
                         /\ \E c \in calls : c.ref = Agg(a) /\ calls' = calls \ {c} /\ agg'[a].output = c.input
  <1>1. \A a \in DOMAIN agg : agg[a] \in AggTask(a)
    BY DEF IInv, TypeOK
  <1>2. CASE agg' = agg
    BY <1>2
  <1>3. CASE ScheduleProve
    <2>1. agg' = [a \in DOMAIN agg |->
                   IF a \in AggPick THEN [agg[a] EXCEPT !.state = "Processing"] ELSE agg[a]]
      BY <1>3 DEF ScheduleProve
    <2>2. QED
      BY <1>1, <2>1 DEF AggTask
  <1>4. ASSUME NEW r \in Results, NEW i, OnProve(i, r), r = "Success" PROVE agg' = clear_agg_child_tasks(agg, {Prove(i)})
    BY <1>4 DEF OnProve
  <1>5. CASE \E r \in Results : \E i : OnProve(i, r)
    <2>1. CASE agg' = agg
      BY <1>2, <2>1
    <2>2. CASE \E i : agg' = clear_agg_child_tasks(agg, {Prove(i)})
      <3>1. PICK i : agg' = clear_agg_child_tasks(agg, {Prove(i)})
        BY <2>2
      <3>2. /\ DOMAIN agg' = DOMAIN agg
            /\ \A a \in DOMAIN agg :
                 /\ agg'[a].childs \subseteq agg[a].childs /\ agg'[a].state = agg[a].state
                 /\ agg[a].state # "Unprocessed" => agg'[a] = agg[a]
        BY <1>1, <3>1, ClearChilds
      <3>3. \A a \in DOMAIN agg : agg'[a].is_final = agg[a].is_final
        BY <1>1, <3>1, ClearKeeps
      <3>4. QED
        BY <3>2, <3>3
    <2>3. QED
      BY <1>4, <1>5, <2>1, <2>2 DEF OnProve
  <1>6. ASSUME NEW r \in Results, NEW b, OnAgg(b, r)
        PROVE  /\ DOMAIN agg' = DOMAIN agg
               /\ \A a \in DOMAIN agg :
                    /\ agg'[a].is_final = agg[a].is_final
                    /\ agg'[a].childs \subseteq agg[a].childs
                    /\ agg'[a].state = "Success" =>
                          \/ agg'[a] = agg[a]
                          \/ /\ OnAgg(a, "Success")
                             /\ \E c \in calls : c.ref = Agg(a) /\ calls' = calls \ {c} /\ agg'[a].output = c.input
    <2>1. b \in DOMAIN agg /\ agg[b].state = "Processing"
      BY <1>6, ResultIsLive
    <2> DEFINE mid(c) == [agg EXCEPT ![b] = AfterAgg(@, r, c.input)]
    <2>2. PICK c \in calls :
              /\ c.ref = Agg(b) /\ calls' = calls \ {c}
              /\ agg' = IF r = "Success" THEN clear_agg_child_tasks(mid(c), {Agg(b)}) ELSE mid(c)
      BY <1>6, <2>1 DEF OnAgg
    <2> DEFINE m == mid(c)
    <2>3. /\ DOMAIN m = DOMAIN agg
          /\ \A a \in DOMAIN agg : a # b => m[a] = agg[a]
          /\ m[b] = AfterAgg(agg[b], r, c.input)
      BY <2>1
    <2>4. agg' = IF r = "Success" THEN clear_agg_child_tasks(m, {Agg(b)}) ELSE m
      BY <2>2
    <2> HIDE DEF m, mid
    <2>5. c.input \in Receipt
      BY <2>2 DEF IInv, TypeOK
    <2>6. /\ m[b] \in AggTask(b) /\ m[b].childs = agg[b].childs
          /\ m[b].is_final = agg[b].is_final
          /\ m[b].state = "Success" => r = "Success" /\ m[b].output = c.input
      <3>1. agg[b] \in AggTask(b)
        BY <1>1, <2>1
      <3>2. m[b] \in AggTask(b) /\ m[b].childs = agg[b].childs
        BY <2>3, <2>5, <3>1, AggResult
      <3>3. m[b].is_final = agg[b].is_final
        BY <2>3, <3>1 DEF AfterAgg, AggTask
      <3>4. m[b].state = "Success" => r = "Success" /\ m[b].output = c.input
        BY <2>1, <2>3, <3>1 DEF AfterAgg, AggTask
      <3>5. QED
        BY <3>2, <3>3, <3>4
    <2>7. /\ \A a \in DOMAIN m : m[a] \in AggTask(a)
          /\ \A a \in DOMAIN m : m[a].is_final = agg[a].is_final /\ m[a].childs = agg[a].childs
      BY <1>1, <2>1, <2>3, <2>6
    <2>8. /\ DOMAIN agg' = DOMAIN agg
          /\ \A a \in DOMAIN agg :
               /\ agg'[a].is_final = agg[a].is_final /\ agg'[a].childs \subseteq agg[a].childs
               /\ agg'[a].state = m[a].state /\ agg'[a].output = m[a].output
               /\ m[a].state = "Success" => agg'[a] = m[a]
      <3>1. CASE r = "Success"
        <4>1. agg' = clear_agg_child_tasks(m, {Agg(b)})
          BY <2>4, <3>1
        <4>2. /\ DOMAIN agg' = DOMAIN m
              /\ \A a \in DOMAIN m : /\ agg'[a].childs \subseteq m[a].childs
                                     /\ m[a].state = "Success" => agg'[a] = m[a]
          BY <2>7, <4>1, ClearChilds
        <4>3. \A a \in DOMAIN m : agg'[a].is_final = m[a].is_final /\ agg'[a].output = m[a].output
                                    /\ agg'[a].state = m[a].state
          BY <2>7, <4>1, ClearKeeps
        <4>4. QED
          BY <2>3, <2>7, <4>2, <4>3
      <3>2. CASE r # "Success"
        BY <2>3, <2>4, <2>7, <3>2
      <3>3. QED
        BY <3>1, <3>2
    <2>9. ASSUME NEW a \in DOMAIN agg, agg'[a].state = "Success"
          PROVE  \/ agg'[a] = agg[a]
                 \/ /\ OnAgg(a, "Success")
                    /\ \E e \in calls : e.ref = Agg(a) /\ calls' = calls \ {e} /\ agg'[a].output = e.input
      <3>1. CASE a # b
        BY <2>3, <2>8, <2>9, <3>1
      <3>2. CASE a = b
        <4>1. r = "Success" /\ agg'[a].output = c.input
          BY <2>6, <2>8, <2>9, <3>2
        <4>2. QED
          BY <1>6, <2>2, <3>2, <4>1
      <3>3. QED
        BY <3>1, <3>2
    <2>10. QED
      BY <2>8, <2>9
  <1>7. agg' = agg \/ ScheduleProve \/ (\E r \in Results : \E i : OnProve(i, r) \/ OnAgg(i, r))
    BY StepCases, CalmStep DEF ScheduleSnark, DispatchInit, DispatchSplitDone, DispatchProve, DispatchAgg,
       OnSplit, OnSnark
  <1>8. QED
    BY <1>2, <1>3, <1>5, <1>6, <1>7

\* How a root proof gets finished.
LEMMA ProveChanges ==
    ASSUME IInv, [Next]_vars, ~DispatchGenerate, NEW i \in DOMAIN prove', prove'[i].state = "Success"
    PROVE  /\ i \in DOMAIN prove
           /\ \/ prove'[i] = prove[i]
              \/ /\ OnProve(i, "Success")
                 /\ \E c \in calls : c.ref = Prove(i) /\ calls' = calls \ {c} /\ prove'[i].output = c.input
  <1>1. \A k \in DOMAIN prove : prove[k] \in ProveTask
    BY DEF IInv, TypeOK
  <1>2. CASE prove' = prove
    BY <1>2
  <1>3. CASE ScheduleProve
    <2>1. prove' = [k \in DOMAIN prove |->
                     IF k \in ProvePick THEN [prove[k] EXCEPT !.state = "Processing"] ELSE prove[k]]
      BY <1>3 DEF ScheduleProve
    <2>2. QED
      BY <1>1, <2>1 DEF ProveTask
  <1>4. CASE DispatchProve
    <2>1. prove' = gen_prove_task
      BY <1>4 DEF DispatchProve
    <2>2. QED
      BY <2>1, GenProveTask, FreshTask DEF IInv
  <1>5. ASSUME NEW r \in Results, NEW k, OnProve(k, r)
        PROVE  /\ i \in DOMAIN prove
               /\ \/ prove'[i] = prove[i]
                  \/ /\ OnProve(i, "Success")
                     /\ \E c \in calls : c.ref = Prove(i) /\ calls' = calls \ {c} /\ prove'[i].output = c.input
    <2>1. k \in DOMAIN prove /\ prove[k].state = "Processing"
      BY <1>5, ResultIsLive
    <2>2. PICK c \in calls : /\ c.ref = Prove(k) /\ calls' = calls \ {c}
                             /\ prove' = [prove EXCEPT ![k] = AfterProve(@, r, c.input)]
      BY <1>5, <2>1 DEF OnProve
    <2>3. /\ DOMAIN prove' = DOMAIN prove /\ (i # k => prove'[i] = prove[i])
          /\ prove'[k] = AfterProve(prove[k], r, c.input)
      BY <2>1, <2>2
    <2>4. AfterProve(prove[k], r, c.input).state = "Success"
             => r = "Success" /\ AfterProve(prove[k], r, c.input).output = c.input
      <3>1. prove[k] \in ProveTask /\ prove[k].state # "Success"
        BY <1>1, <2>1
      <3>2. QED
        BY <3>1 DEF AfterProve, ProveTask
    <2>5. QED
      BY <1>5, <2>2, <2>3, <2>4
  <1>6. prove' = prove \/ ScheduleProve \/ DispatchProve \/ (\E r \in Results : \E k : OnProve(k, r))
    BY StepCases, CalmStep DEF ScheduleSnark, DispatchInit, DispatchSplitDone, DispatchAgg,
       OnSplit, OnSnark, OnAgg
  <1>7. QED
    BY <1>2, <1>3, <1>4, <1>5, <1>6

\* What dispatch makes of the end of the split.
LEMMA GenerateMakes ==
    ASSUME IInv, DispatchGenerate
    PROVE  /\ DOMAIN prove' = 0..(Segments + Deferred - 1)
           /\ \A i \in DOMAIN prove' : prove'[i].state = "Success" =>
                 \/ i \in DOMAIN prove /\ prove'[i] = prove[i]
                 \/ i >= Segments /\ prove'[i].output = <<i>>
           /\ DOMAIN agg = {}
           /\ job.composite_proof => agg' = agg
           /\ ~job.composite_proof =>
                 /\ DOMAIN agg' = 0..(AggCount(Segments, Deferred) - 1)
                 /\ \A a \in DOMAIN agg' :
                       /\ agg'[a].state = IF IsPlaceholder(Segments, Deferred, a) THEN "Success" ELSE "Unprocessed"
                       /\ agg'[a].is_final = IsFinal(Segments, Deferred, a)
                       /\ \A r \in SuccessRefs(prove') : r \notin agg'[a].childs
  <1> DEFINE before == gen_prove_task
             tasks == gen_prove_task_post(before)
             graph == gen_agg_tasks(tasks)
  <1>1. /\ prove' = tasks /\ ~is_tasks_gen_done
        /\ agg' = IF job.composite_proof THEN agg ELSE clear_agg_child_tasks(graph, SuccessRefs(tasks))
    BY DEF DispatchGenerate
  <1>2. /\ DOMAIN agg = {}
        /\ \A i \in DOMAIN prove : ~prove[i].is_deferred
    BY <1>1 DEF IInv, BeforeGraph
  <1>3. /\ DOMAIN before \subseteq Nat /\ before \in [DOMAIN before -> ProveTask]
        /\ \A i \in DOMAIN prove : i \in DOMAIN before /\ before[i] = prove[i]
        /\ \A i \in DOMAIN before \ DOMAIN prove : before[i] = task_with_no
    BY GenProveTask DEF IInv
  <1> HIDE DEF before
  <1>4. \A i \in DOMAIN before : ~before[i].is_deferred
    BY <1>2, <1>3, FreshTask
  <1>5. /\ DOMAIN tasks = 0..(Segments + Deferred - 1)
        /\ \A i \in DOMAIN tasks : i < Segments =>
              tasks[i] = IF i \in DOMAIN before THEN before[i] ELSE task_with_no
        /\ \A i \in DOMAIN tasks : tasks[i].is_deferred <=> i >= Segments
    BY <1>3, <1>4, GenProveTaskPost
  <1>6. \A i \in DOMAIN tasks : i >= Segments => tasks[i].output = <<i>>
    BY <1>5, StageAssumption DEF gen_prove_task_post, deferred_task
  <1> HIDE DEF tasks
  <1>7. \A i \in DOMAIN tasks : tasks[i].state = "Success" =>
            \/ i \in DOMAIN prove /\ tasks[i] = prove[i]
            \/ i >= Segments /\ tasks[i].output = <<i>>
    <2> SUFFICES ASSUME NEW i \in DOMAIN tasks, tasks[i].state = "Success", i < Segments
                 PROVE  i \in DOMAIN prove /\ tasks[i] = prove[i]
      BY <1>5, <1>6, StageAssumption
    <2>1. QED
      BY <1>3, <1>5, FreshTask
  <1>8. graph = [a \in 0..(AggCount(Segments, Deferred) - 1) |->
                   [state    |-> IF IsPlaceholder(Segments, Deferred, a) THEN "Success" ELSE "Unprocessed",
                    inputs   |-> AggInputs(Segments, Deferred, a),
                    childs   |-> AggChilds(Segments, Deferred, a),
                    is_final |-> IsFinal(Segments, Deferred, a),
                    output   |-> NoReceipt]]
    BY <1>5, GraphOf
  <1>9. \A a \in DOMAIN graph : graph[a] \in AggTask(a) /\ (graph[a].state # "Unprocessed" => graph[a].childs = {})
    BY <1>5, GenAggTasks
  <1> HIDE DEF graph
  <1>10. DOMAIN graph = 0..(AggCount(Segments, Deferred) - 1)
    BY <1>8
  <1>11. \A a \in DOMAIN graph :
            /\ graph[a].state = IF IsPlaceholder(Segments, Deferred, a) THEN "Success" ELSE "Unprocessed"
            /\ graph[a].is_final = IsFinal(Segments, Deferred, a)
    BY <1>8
  <1> DEFINE cleared == clear_agg_child_tasks(graph, SuccessRefs(tasks))
  <1>12. DOMAIN cleared = DOMAIN graph
    BY DEF clear_agg_child_tasks
  <1>13. \A a \in DOMAIN graph : cleared[a].state = graph[a].state /\ cleared[a].is_final = graph[a].is_final
    BY <1>9, ClearKeeps
  <1>14. \A a \in DOMAIN graph : \A r \in SuccessRefs(tasks) : r \notin cleared[a].childs
    BY <1>9, <1>10, ClearsAll
  <1> HIDE DEF cleared
  <1>15. ~job.composite_proof => agg' = cleared
    BY <1>1 DEF cleared
  <1>16. QED
    BY <1>1, <1>2, <1>5, <1>7, <1>10, <1>11, <1>12, <1>13, <1>14, <1>15

LEMMA GraphBuiltStep ==
    ASSUME IInv, Course, GraphBuilt, [Next]_vars
    PROVE  GraphBuilt'
  <1>1. job' = job
    BY Frame
  <1>2. CASE DispatchGenerate
    BY <1>1, <1>2, GenerateMakes, JobGraph DEF GraphBuilt
  <1>3. CASE ~DispatchGenerate
    <2>1. /\ DOMAIN agg' = DOMAIN agg
          /\ \A a \in DOMAIN agg : agg'[a].is_final = agg[a].is_final
      BY <1>3, AggChanges
    <2>2. \A a \in DOMAIN agg : agg[a].state = "Success" => agg'[a].state = "Success"
      BY StepInv DEF ProofsKept
    <2>3. is_tasks_gen_done' => is_tasks_gen_done
      BY <1>3, StepCases, CalmStep DEF ScheduleProve, ScheduleSnark, DispatchInit, DispatchSplitDone,
         DispatchProve, DispatchAgg, OnSplit, OnSnark, OnProve, OnAgg
    <2>4. QED
      BY <1>1, <2>1, <2>2, <2>3 DEF GraphBuilt
  <1>4. QED
    BY <1>2, <1>3

LEMMA NoStaleChildStep ==
    ASSUME IInv, Course, GraphBuilt, NoStaleChild, [Next]_vars
    PROVE  NoStaleChild'
  <1> SUFFICES ASSUME NEW a \in DOMAIN agg', NEW r \in agg'[a].childs, ProofDone(r)' PROVE FALSE
    BY DEF NoStaleChild
  <1>1. GraphBuilt' /\ IInv'
    BY GraphBuiltStep, StepInv
  <1>2. a \in 0..(AggCount(Segments, Deferred) - 1) /\ r \in Inputs(Segments, Deferred, a)
    BY <1>1 DEF GraphBuilt, IInv, TypeOK, AggTask, Inputs
  <1>3. \/ \E i \in 0..(Segments + Deferred - 1) : r = Prove(i)
        \/ \E b \in 0..(a - 1) : r = Agg(b) /\ ~IsPlaceholder(Segments, Deferred, b)
    BY <1>2, JobGraph DEF Earlier
  <1>4. \A b \in DOMAIN agg : b \in 0..(AggCount(Segments, Deferred) - 1) /\ agg[b] \in AggTask(b)
                                /\ (agg[b].state # "Unprocessed" => agg[b].childs = {})
    BY DEF GraphBuilt, IInv, TypeOK, ChildsCoverInputs
  <1>5. CASE DispatchGenerate
    <2>1. ~job.composite_proof
      BY <1>5, GenerateMakes
    <2>2. ASSUME NEW i, r = Prove(i) PROVE FALSE
      <3>1. i \in DOMAIN prove' /\ prove'[i].state = "Success"
        BY <2>2, RefsDiffer DEF ProofDone
      <3>2. r \in SuccessRefs(prove')
        BY <2>2, <3>1 DEF SuccessRefs
      <3>3. QED
        BY <1>5, <2>1, <3>2, GenerateMakes
    <2>3. ASSUME NEW b, r = Agg(b), ~IsPlaceholder(Segments, Deferred, b) PROVE FALSE
      <3>1. b \in DOMAIN agg' /\ agg'[b].state = "Success"
        BY <2>3, RefsDiffer DEF ProofDone
      <3>2. QED
        BY <1>5, <2>1, <2>3, <3>1, GenerateMakes
    <2>4. QED
      BY <1>3, <2>2, <2>3
  <1>6. CASE ~DispatchGenerate
    <2>1. DOMAIN agg' = DOMAIN agg /\ agg'[a].childs \subseteq agg[a].childs
      BY <1>6, AggChanges
    <2>2. ~ProofDone(r)
      BY <2>1 DEF NoStaleChild
    <2>3. ASSUME NEW i, r = Prove(i) PROVE FALSE
      <3>1. i \in DOMAIN prove' /\ prove'[i].state = "Success" /\ ~(i \in DOMAIN prove /\ prove[i].state = "Success")
        BY <2>2, <2>3, RefsDiffer DEF ProofDone
      <3>2. OnProve(i, "Success")
        BY <1>6, <3>1, ProveChanges
      <3>3. agg' = clear_agg_child_tasks(agg, {Prove(i)})
        BY <3>2 DEF OnProve
      <3>4. r \notin clear_agg_child_tasks(agg, {Prove(i)})[a].childs
        BY <1>4, <2>1, <2>3, ClearsAll
      <3>5. QED
        BY <3>3, <3>4
    <2>4. ASSUME NEW b, r = Agg(b) PROVE FALSE
      <3>1. b \in DOMAIN agg /\ agg'[b].state = "Success" /\ agg[b].state # "Success"
        BY <2>1, <2>2, <2>4, RefsDiffer DEF ProofDone
      <3>2. OnAgg(b, "Success")
        BY <1>6, <3>1, AggChanges
      <3> DEFINE mid(c) == IF b \in DOMAIN agg /\ agg[b].state = "Processing"
                           THEN [agg EXCEPT ![b] = AfterAgg(@, "Success", c.input)] ELSE agg
      <3>3. PICK c \in calls : agg' = clear_agg_child_tasks(mid(c), {Agg(b)})
        BY <3>2 DEF OnAgg
      <3>4. c.input \in Receipt
        BY <3>3 DEF IInv, TypeOK
      <3> DEFINE m == mid(c)
      <3>5. /\ DOMAIN m = DOMAIN agg
            /\ \A x \in DOMAIN agg : x # b => m[x] = agg[x]
            /\ m[b] = agg[b] \/ (m[b] = AfterAgg(agg[b], "Success", c.input) /\ agg[b].state = "Processing")
        BY <3>1
      <3>6. agg' = clear_agg_child_tasks(m, {Agg(b)})
        BY <3>3
      <3> HIDE DEF m, mid
      <3>7. m[b] \in AggTask(b) /\ (m[b].state # "Unprocessed" => m[b].childs = {})
        <4>1. CASE m[b] = agg[b]
          BY <1>4, <3>1, <4>1
        <4>2. CASE m[b] = AfterAgg(agg[b], "Success", c.input) /\ agg[b].state = "Processing"
          <5>1. agg[b] \in AggTask(b) /\ agg[b].childs = {}
            BY <1>4, <3>1, <4>2
          <5>2. AfterAgg(agg[b], "Success", c.input) =
                   [[agg[b] EXCEPT !.state = "Success"] EXCEPT !.output = c.input]
            BY <5>1 DEF AfterAgg, Reported, AggTask
          <5>3. QED
            BY <3>4, <4>2, <5>1, <5>2 DEF AggTask, TaskState
        <4>3. QED
          BY <3>5, <4>1, <4>2
      <3>8. \A x \in DOMAIN m : m[x] \in AggTask(x) /\ (m[x].state # "Unprocessed" => m[x].childs = {})
        BY <1>4, <3>1, <3>5, <3>7
      <3>9. DOMAIN m \subseteq 0..(AggCount(Segments, Deferred) - 1) /\ a \in DOMAIN m
        BY <1>4, <2>1, <3>5
      <3>10. r \notin clear_agg_child_tasks(m, {Agg(b)})[a].childs
        BY <2>4, <3>8, <3>9, ClearsAll
      <3>11. QED
        BY <3>6, <3>10
    <2>5. QED
      BY <1>3, <2>3, <2>4
  <1>7. QED
    BY <1>5, <1>6

LEMMA GraphAlways == Spec => [](GraphBuilt /\ NoStaleChild)
  <1>1. Init => GraphBuilt /\ NoStaleChild
    BY DEF Init, EmptyVec, GraphBuilt, NoStaleChild
  <1>2. IInv /\ Course /\ GraphBuilt /\ NoStaleChild /\ [Next]_vars => GraphBuilt' /\ NoStaleChild'
    BY GraphBuiltStep, NoStaleChildStep
  <1>3. QED
    BY Invariance, CourseAlways, <1>1, <1>2, PTL DEF Spec

\* An aggregation waits for exactly its unfinished inputs, for any graph and any order
\* in which the results and the end of the split come: clear_agg_child_task stops at the
\* first task that waits for a proof, and no other one does.
THEOREM WaitsExactly == Spec => []WaitsForUnfinished
  <1>1. IInv /\ NoStaleChild => WaitsForUnfinished
    <2> SUFFICES ASSUME IInv, NoStaleChild, NEW a \in DOMAIN agg
                 PROVE  agg[a].childs = {r \in SeqRange(agg[a].inputs) : ~ProofDone(r)}
      BY DEF WaitsForUnfinished
    <2>1. agg[a].childs \subseteq SeqRange(agg[a].inputs)
      BY DEF IInv, TypeOK, AggTask
    <2>2. \A r \in SeqRange(agg[a].inputs) : r \in agg[a].childs \/ ProofDone(r)
      BY DEF IInv, ChildsCoverInputs
    <2>3. QED
      BY <2>1, <2>2 DEF NoStaleChild
  <1>2. QED
    BY Invariance, GraphAlways, <1>1, PTL

----------------------------------------------------------------------------
(* Receipts.                                                               *)

\* What the prover is asked to combine is what the graph says the task covers.
LEMMA InputReceipts ==
    ASSUME IInv, GraphBuilt, ProofReceipts, NEW a \in DOMAIN agg, agg[a].childs = {}, agg[a].state # "Success"
    PROVE  Joined(agg[a].inputs) = Interval(Spans[a])
  <1> DEFINE ins == AggInputs(Segments, Deferred, a)
             of(k) == SpanOf(Spans, ins[k])
  <1>1. agg[a].inputs = ins
    BY DEF IInv, TypeOK, AggTask
  <1>2. /\ a \in 0..(AggCount(Segments, Deferred) - 1) /\ AggCount(Segments, Deferred) \in Nat
        /\ ~IsPlaceholder(Segments, Deferred, a)
    BY JobGraph DEF GraphBuilt
  <1>3. Spans \in [0..(AggCount(Segments, Deferred) - 1) -> Span] /\ Joins(Segments, Deferred, Spans, a)
    BY <1>2, JobGraph DEF Covers
  <1>4. ASSUME NEW k \in DOMAIN ins
        PROVE  of(k) \in Span /\ OutputOf(ins[k]) = Interval(of(k))
    <2>1. ProofDone(ins[k])
      BY <1>1 DEF IInv, ChildsCoverInputs, SeqRange
    <2>2. Earlier(Segments, Deferred, a, ins[k])
      BY <1>3 DEF Joins
    <2>3. CASE \E i \in 0..(Segments + Deferred - 1) : ins[k] = Prove(i)
      <3>1. PICK i \in 0..(Segments + Deferred - 1) : ins[k] = Prove(i)
        BY <2>3
      <3>2. i \in DOMAIN prove /\ prove[i].state = "Success" /\ OutputOf(ins[k]) = prove[i].output
        BY <2>1, <3>1, RefsDiffer DEF ProofDone, OutputOf
      <3>3. prove[i].output = <<i>>
        BY <3>2 DEF ProofReceipts
      <3>4. i \in Nat /\ of(k) = [from |-> i, to |-> i + 1]
        BY <3>1, RefsDiffer, StageAssumption DEF SpanOf
      <3>5. of(k) \in Span
        BY <3>4 DEF Span
      <3>6. QED
        BY <3>2, <3>3, <3>4, <3>5, IntervalOfOne
    <2>4. CASE \E b \in 0..(a - 1) : ins[k] = Agg(b) /\ ~IsPlaceholder(Segments, Deferred, b)
      <3>1. PICK b \in 0..(a - 1) : ins[k] = Agg(b) /\ ~IsPlaceholder(Segments, Deferred, b)
        BY <2>4
      <3>2. b \in DOMAIN agg /\ agg[b].state = "Success" /\ OutputOf(ins[k]) = agg[b].output
        BY <2>1, <3>1, RefsDiffer DEF ProofDone, OutputOf
      <3>3. agg[b].output = Interval(Spans[b])
        BY <3>1, <3>2 DEF ProofReceipts
      <3>4. of(k) = Spans[b]
        BY <3>1, RefsDiffer DEF SpanOf
      <3>5. b \in 0..(AggCount(Segments, Deferred) - 1)
        BY <1>2
      <3>6. QED
        BY <1>3, <3>2, <3>3, <3>4, <3>5
    <2>5. QED
      BY <2>2, <2>3, <2>4 DEF Earlier
  <1>5. \/ DOMAIN ins = {1} /\ Spans[a] = of(1)
        \/ /\ DOMAIN ins = {1, 2} /\ of(1).to = of(2).from
           /\ Spans[a] = [from |-> of(1).from, to |-> of(2).to]
    BY <1>3 DEF Joins
  <1> HIDE DEF of
  <1>6. CASE DOMAIN ins = {1} /\ Spans[a] = of(1)
    <2>1. Joined(ins) = OutputOf(ins[1])
      BY <1>6 DEF Joined
    <2>2. QED
      BY <1>1, <1>4, <1>6, <2>1
  <1>7. CASE /\ DOMAIN ins = {1, 2} /\ of(1).to = of(2).from
             /\ Spans[a] = [from |-> of(1).from, to |-> of(2).to]
    <2>1. Joined(ins) = OutputOf(ins[1]) \o OutputOf(ins[2])
      BY <1>7 DEF Joined
    <2>2. OutputOf(ins[1]) = Interval(of(1)) /\ OutputOf(ins[2]) = Interval(of(2))
          /\ of(1) \in Span /\ of(2) \in Span
      BY <1>4, <1>7
    <2>3. Interval(of(1)) \o Interval(of(2)) = Interval(Spans[a])
      BY <1>7, <2>2, IntervalsJoin
    <2>4. QED
      BY <1>1, <2>1, <2>2, <2>3
  <1>8. QED
    BY <1>5, <1>6, <1>7

LEMMA ProofReceiptsStep ==
    ASSUME IInv, ProofReceipts, CallReceipts, [Next]_vars
    PROVE  ProofReceipts'
  <1>1. ASSUME NEW i \in DOMAIN prove', prove'[i].state = "Success"
        PROVE  prove'[i].output = <<i>>
    <2>1. CASE DispatchGenerate
      BY <1>1, <2>1, GenerateMakes DEF ProofReceipts
    <2>2. CASE ~DispatchGenerate
      <3>1. /\ i \in DOMAIN prove
            /\ prove'[i] = prove[i] \/ \E c \in calls : c.ref = Prove(i) /\ prove'[i].output = c.input
        BY <1>1, <2>2, ProveChanges
      <3>2. QED
        BY <1>1, <3>1, RefsDiffer DEF ProofReceipts, CallReceipts
    <2>3. QED
      BY <2>1, <2>2
  <1>2. ASSUME NEW a \in DOMAIN agg', agg'[a].state = "Success", ~IsPlaceholder(Segments, Deferred, a)
        PROVE  agg'[a].output = Interval(Spans[a])
    <2>1. ~DispatchGenerate
      BY <1>2, GenerateMakes
    <2>2. /\ a \in DOMAIN agg
          /\ agg'[a] = agg[a] \/ \E c \in calls : c.ref = Agg(a) /\ agg'[a].output = c.input
      BY <1>2, <2>1, AggChanges
    <2>3. QED
      BY <1>2, <2>2, RefsDiffer DEF ProofReceipts, CallReceipts
  <1>3. QED
    BY <1>1, <1>2 DEF ProofReceipts

\* The snark task is made once, before anything is known of it to a prover.
LEMMA SnarkChanges ==
    ASSUME IInv, Course, [Next]_vars
    PROVE  \/ snark' = snark
           \/ /\ ScheduleSnark /\ snark'.agg_receipt = snark.agg_receipt
              /\ snark'.state # "Success" \/ snark.state = "Success"
              /\ snark.state = "Initial" => snark'.state = "Initial"
           \/ /\ snark.state = "Processing" /\ snark'.agg_receipt = snark.agg_receipt
              /\ \E r \in Results : OnSnark(r) /\ (snark'.state = "Success" => r = "Success")
           \/ /\ snark.state = "Initial" /\ calls' = calls /\ proofFile' = proofFile
              /\ snark' = gen_snark_task(agg')
              /\ \/ DispatchAgg /\ job.from_step = "Agg"
                 \/ job.from_step = "Init" /\ is_tasks_gen_done' /\ AllSuccess(agg') /\ ~job.composite_proof
  <1>1. snark \in [state : TaskState, agg_receipt : Receipt]
    BY DEF IInv, TypeOK
  <1>2. CASE ScheduleSnark
    <2>1. snark' = [snark EXCEPT !.state = IF snark.state \in Runnable THEN "Processing" ELSE snark.state]
      BY <1>2 DEF ScheduleSnark
    <2>2. QED
      BY <1>1, <1>2, <2>1 DEF Runnable
  <1>3. ASSUME NEW r \in Results, OnSnark(r)
        PROVE  snark.state = "Processing" /\ snark'.agg_receipt = snark.agg_receipt
                 /\ (snark'.state = "Success" => r = "Success")
    <2>1. snark' = [snark EXCEPT !.state = IF r \in Reported THEN r ELSE snark.state]
      BY <1>3 DEF OnSnark
    <2>2. snark.state = "Processing"
      BY <1>3, ResultIsLive
    <2>3. QED
      BY <1>1, <2>1, <2>2
  <1>4. CASE DispatchAgg
    BY <1>4 DEF DispatchAgg, IInv, NotYetStarted, Course, CourseOfSteps
  <1>5. ASSUME step = "Prove", NEW done, Advance(done, prove', agg'), done => is_tasks_gen_done',
               calls' = calls, proofFile' = proofFile
        PROVE  \/ snark' = snark
               \/ /\ snark.state = "Initial" /\ calls' = calls /\ proofFile' = proofFile
                  /\ snark' = gen_snark_task(agg')
                  /\ job.from_step = "Init" /\ is_tasks_gen_done' /\ AllSuccess(agg') /\ ~job.composite_proof
    <2>1. snark.state = "Initial" /\ job.from_step = "Init"
      BY <1>5 DEF IInv, NotYetStarted, Course, CourseOfSteps
    <2>2. QED
      BY <1>5, <2>1, AdvanceCases
  <1>6. CASE DispatchGenerate
    <2>1. /\ Advance(TRUE, prove', agg') /\ step = "Prove" /\ is_tasks_gen_done'
          /\ calls' = calls /\ proofFile' = proofFile
      BY <1>6 DEF DispatchGenerate
    <2>2. QED
      BY <1>5, <2>1
  <1>7. CASE DispatchProve
    <2>1. /\ Advance(is_tasks_gen_done, prove', agg') /\ step = "Prove" /\ is_tasks_gen_done' = is_tasks_gen_done
          /\ calls' = calls /\ proofFile' = proofFile
      BY <1>7 DEF DispatchProve
    <2>2. QED
      BY <1>5, <2>1
  <1>8. snark' = snark \/ ScheduleSnark \/ DispatchAgg \/ DispatchGenerate \/ DispatchProve
          \/ (\E r \in Results : OnSnark(r))
    BY StepCases, CalmStep DEF ScheduleProve, DispatchInit, DispatchSplitDone, OnSplit, OnProve, OnAgg
  <1>9. QED
    BY <1>2, <1>3, <1>4, <1>6, <1>7, <1>8

LEMMA CallReceiptsStep ==
    ASSUME IInv, Course, GraphBuilt, ProofReceipts, CallReceipts, [Next]_vars
    PROVE  CallReceipts'
  <1> SUFFICES ASSUME NEW c \in calls'
               PROVE  /\ c.ref[1] = "prove" => c.input = <<c.ref[2]>>
                      /\ c.ref[1] = "agg" => c.input = Interval(Spans[c.ref[2]])
                      /\ c.ref[1] = "snark" => c.input = snark'.agg_receipt
    BY DEF CallReceipts
  <1>1. CASE c \in calls
    <2>1. /\ c.ref[1] = "prove" => c.input = <<c.ref[2]>>
          /\ c.ref[1] = "agg" => c.input = Interval(Spans[c.ref[2]])
          /\ c.ref[1] = "snark" => c.input = snark.agg_receipt
      BY <1>1 DEF CallReceipts
    <2>2. c.ref[1] = "snark" => snark.state # "Initial"
      <3>1. CallIsLive(c)
        BY <1>1 DEF IInv, CallsLive
      <3>2. SplitRef[1] = "split"
        BY DEF SplitRef
      <3>3. QED
        BY <3>1, <3>2, RefsDiffer DEF CallIsLive
    <2>3. c.ref[1] = "snark" => snark'.agg_receipt = snark.agg_receipt
      BY <2>2, SnarkChanges
    <2>4. QED
      BY <2>1, <2>3
  <1>2. CASE c \notin calls
    <2>1. ScheduleProve \/ ScheduleSnark
      BY <1>2, StepCases, CalmStep DEF DispatchInit, DispatchSplitDone, DispatchGenerate, DispatchProve,
         DispatchAgg, OnSplit, OnSnark, OnProve, OnAgg
    <2>2. CASE ScheduleSnark
      <3>1. c \in SnarkCalls
        BY <1>2, <2>2 DEF ScheduleSnark
      <3>2. c = Call(SnarkRef, snark.agg_receipt) /\ snark.state \in Runnable
        BY <3>1 DEF SnarkCalls
      <3>3. c.ref[1] = "snark" /\ c.input = snark.agg_receipt /\ snark.state # "Initial"
        BY <3>2 DEF Call, SnarkRef, Runnable
      <3>4. QED
        BY <3>3, SnarkChanges
    <2>3. CASE ScheduleProve
      <3>1. \/ c \in SplitCalls
            \/ \E i \in ProvePick : c = Call(Prove(i), <<i>>)
            \/ \E a \in AggPick : c = Call(Agg(a), Joined(agg[a].inputs))
        BY <1>2, <2>3 DEF ScheduleProve
      <3>2. CASE c \in SplitCalls
        <4>1. c.ref[1] = "split"
          BY <3>2 DEF SplitCalls, Call, SplitRef
        <4>2. QED
          BY <4>1
      <3>3. CASE \E i \in ProvePick : c = Call(Prove(i), <<i>>)
        BY <3>3, RefsDiffer DEF Call
      <3>4. ASSUME NEW a \in AggPick, c = Call(Agg(a), Joined(agg[a].inputs))
            PROVE  c.ref[1] = "agg" /\ c.input = Interval(Spans[c.ref[2]])
        <4>1. a \in DOMAIN agg /\ agg[a].childs = {} /\ agg[a].state # "Success"
          BY <3>4 DEF AggPick, AggReady, Runnable
        <4>2. c.ref = Agg(a) /\ c.input = Joined(agg[a].inputs)
          BY <3>4 DEF Call
        <4>3. QED
          BY <4>1, <4>2, InputReceipts, RefsDiffer
      <3>5. QED
        BY <3>1, <3>2, <3>3, <3>4
    <2>4. QED
      BY <2>1, <2>2, <2>3
  <1>3. QED
    BY <1>1, <1>2

\* Once all aggregations are done, the last of them covers the whole execution.
LEMMA FinalCovers ==
    ASSUME ~TooSmall, NEW tasks, DOMAIN tasks = 0..(AggCount(Segments, Deferred) - 1), AllSuccess(tasks),
           \A a \in DOMAIN tasks :
              /\ tasks[a].is_final = IsFinal(Segments, Deferred, a)
              /\ tasks[a].state = "Success" /\ ~IsPlaceholder(Segments, Deferred, a)
                    => tasks[a].output = Interval(Spans[a])
    PROVE  LET last == AggCount(Segments, Deferred) - 1 IN
           /\ last \in DOMAIN tasks /\ tasks[last].is_final /\ ~IsPlaceholder(Segments, Deferred, last)
           /\ tasks[last].output = Execution
           /\ FinalReceipt(tasks) = Execution
  <1> DEFINE last == AggCount(Segments, Deferred) - 1
  <1>1. ~Rejected(Segments)
    BY StageAssumption DEF Rejected, TooSmall
  <1>2. /\ AggCount(Segments, Deferred) \in Nat \ {0} /\ ~IsPlaceholder(Segments, Deferred, last)
        /\ Spans[last] = [from |-> 0, to |-> Segments + Deferred]
    BY <1>1, JobGraph DEF Covers
  <1>3. last \in DOMAIN tasks
    BY <1>2
  <1>4. \A a \in DOMAIN tasks : tasks[a].is_final <=> a = last
    BY DEF IsFinal
  <1>5. tasks[last].output = Interval(Spans[last])
    BY <1>2, <1>3 DEF AllSuccess
  <1>6. Interval(Spans[last]) = Execution
    <2> DEFINE s == Spans[last]
    <2>1. s.from = 0 /\ s.to = Segments + Deferred
      BY <1>2
    <2>2. Interval(s) = [j \in 1..(s.to - s.from) |-> s.from + j - 1]
      BY DEF Interval
    <2> HIDE DEF s
    <2>3. s.to - s.from = Segments + Deferred /\ \A j \in 1..(Segments + Deferred) : s.from + j - 1 = j - 1
      BY <2>1, StageAssumption
    <2>4. Interval(s) = [j \in 1..(Segments + Deferred) |-> j - 1]
      BY <2>2, <2>3
    <2>5. QED
      BY <2>4 DEF Execution, s
  <1> HIDE DEF last
  <1>7. (CHOOSE a \in DOMAIN tasks : tasks[a].is_final) = last
    BY <1>3, <1>4
  <1>8. FinalReceipt(tasks) = tasks[last].output
    BY <1>3, <1>4, <1>7 DEF FinalReceipt
  <1>9. QED
    BY <1>2, <1>3, <1>4, <1>5, <1>6, <1>8 DEF last

\* Where the snark can be under way.
LEMMA SnarkUnderWay ==
    ASSUME IInv, Course, snark.state # "Initial"
    PROVE  \/ job.from_step = "Agg"
           \/ is_tasks_gen_done /\ job.from_step = "Init" /\ job.target_step = "Snark" /\ ~job.composite_proof
  BY DEF IInv, TypeOK, Step, NotYetStarted, Course, CourseOfSteps, CourseOfSplit

LEMMA EndReceiptsStep ==
    ASSUME IInv, Course, GraphBuilt, ProofReceipts, CallReceipts, EndReceipts, [Next]_vars
    PROVE  EndReceipts'
  <1>1. /\ IInv' /\ Course' /\ GraphBuilt' /\ ProofReceipts' /\ job' = job
    BY StepInv, CourseOfSplitStep, CourseOfStepsStep, CourseOfLoopStep, GraphBuiltStep, ProofReceiptsStep, Frame
       DEF Course
  <1>2. ASSUME snark'.state # "Initial"
        PROVE  /\ job.from_step = "Agg" => snark'.agg_receipt = ClientReceipt
               /\ job.from_step = "Init" /\ ~TooSmall => snark'.agg_receipt = Execution
    <2>1. CASE snark.state # "Initial"
      <3>1. snark'.agg_receipt = snark.agg_receipt
        BY <2>1, SnarkChanges
      <3>2. QED
        BY <2>1, <3>1 DEF EndReceipts
    <2>2. CASE snark.state = "Initial"
      <3>1. /\ snark' = gen_snark_task(agg')
            /\ \/ job.from_step = "Agg"
               \/ job.from_step = "Init" /\ is_tasks_gen_done' /\ AllSuccess(agg') /\ ~job.composite_proof
        BY <1>2, <2>2, SnarkChanges
      <3>2. snark'.agg_receipt = IF job.from_step = "Init" THEN FinalReceipt(agg') ELSE ClientReceipt
        BY <3>1 DEF gen_snark_task
      <3>3. CASE job.from_step = "Agg"
        BY <3>2, <3>3
      <3>4. CASE job.from_step = "Init" /\ ~TooSmall
        <4>1. is_tasks_gen_done' /\ AllSuccess(agg') /\ ~job'.composite_proof
          BY <1>1, <3>1, <3>4
        <4>2. DOMAIN agg' = 0..(AggCount(Segments, Deferred) - 1)
          BY <1>1, <4>1 DEF GraphBuilt
        <4>3. \A a \in DOMAIN agg' :
                 /\ agg'[a].is_final = IsFinal(Segments, Deferred, a)
                 /\ agg'[a].state = "Success" /\ ~IsPlaceholder(Segments, Deferred, a)
                       => agg'[a].output = Interval(Spans[a])
          BY <1>1 DEF GraphBuilt, ProofReceipts
        <4>4. FinalReceipt(agg') = Execution
          BY <3>4, <4>1, <4>2, <4>3, FinalCovers
        <4>5. QED
          BY <3>2, <3>4, <4>4
      <3>5. QED
        BY <3>3, <3>4
    <2>3. QED
      BY <2>1, <2>2
  <1>3. ASSUME snark'.state = "Success"
        PROVE  proofFile' = [exists |-> TRUE, receipt |-> snark'.agg_receipt]
    <2>1. CASE snark.state = "Success"
      <3>1. proofFile = [exists |-> TRUE, receipt |-> snark.agg_receipt] /\ pc \in Leaving
        BY <2>1 DEF EndReceipts, Course, CourseOfLoop
      <3>2. proofFile' = proofFile
        BY <3>1, StepCases, CalmStep DEF Leaving, ScheduleProve, ScheduleSnark, DispatchInit, DispatchSplitDone,
           DispatchGenerate, DispatchProve, DispatchAgg, OnSplit, OnSnark, OnProve, OnAgg
      <3>3. snark'.agg_receipt = snark.agg_receipt
        BY <2>1, SnarkChanges
      <3>4. QED
        BY <3>1, <3>2, <3>3
    <2>2. CASE snark.state # "Success"
      <3>1. \A tasks : gen_snark_task(tasks).state = "Unprocessed"
        BY DEF gen_snark_task
      <3>2. PICK r \in Results : OnSnark(r) /\ r = "Success" /\ snark'.agg_receipt = snark.agg_receipt
        BY <1>3, <2>2, <3>1, SnarkChanges
      <3>3. PICK c \in calls : c.ref = SnarkRef /\ proofFile' = [exists |-> TRUE, receipt |-> c.input]
        BY <3>2 DEF OnSnark
      <3>4. c.input = snark.agg_receipt
        BY <3>3 DEF CallReceipts, SnarkRef
      <3>5. QED
        BY <3>2, <3>3, <3>4
    <2>3. QED
      BY <2>1, <2>2
  <1>4. ASSUME job.from_step = "Init", job.target_step = "Agg", NEW a \in DOMAIN agg', agg'[a].is_final,
               agg'[a].state = "Success", ~IsPlaceholder(Segments, Deferred, a)
        PROVE  proofFile' = [exists |-> TRUE, receipt |-> agg'[a].output]
    <2>1. ~DispatchGenerate
      BY <1>4, GenerateMakes
    <2>2. /\ a \in DOMAIN agg /\ agg[a].is_final
          /\ \/ agg'[a] = agg[a]
             \/ /\ OnAgg(a, "Success")
                /\ \E c \in calls : c.ref = Agg(a) /\ calls' = calls \ {c} /\ agg'[a].output = c.input
      BY <1>4, <2>1, AggChanges
    <2>3. CASE agg'[a] = agg[a]
      <3>1. agg[a].state = "Success" /\ proofFile = [exists |-> TRUE, receipt |-> agg[a].output]
        BY <1>4, <2>2, <2>3 DEF EndReceipts
      <3>2. \A r \in Results : ~OnSnark(r)
        BY <1>4, SnarkUnderWay, ResultIsLive
      <3>3. \A b \in DOMAIN agg : agg[b].is_final => b = a
        BY <2>2 DEF GraphBuilt, IsFinal
      <3>4. ASSUME NEW r \in Results, NEW b, OnAgg(b, r) PROVE proofFile' = proofFile
        <4>1. b \in DOMAIN agg /\ b # a
          BY <3>1, <3>4, ResultIsLive
        <4>2. QED
          BY <3>3, <3>4, <4>1 DEF OnAgg
      <3>5. proofFile' = proofFile
        BY <3>2, <3>4, StepCases, CalmStep DEF ScheduleProve, ScheduleSnark, DispatchInit, DispatchSplitDone,
           DispatchGenerate, DispatchProve, DispatchAgg, OnSplit, OnProve
      <3>6. QED
        BY <2>3, <3>1, <3>5
    <2>4. CASE /\ OnAgg(a, "Success")
               /\ \E c \in calls : c.ref = Agg(a) /\ calls' = calls \ {c} /\ agg'[a].output = c.input
      <3>1. PICK c \in calls : c.ref = Agg(a) /\ agg'[a].output = c.input
        BY <2>4
      <3>2. PICK e \in calls : e.ref = Agg(a) /\ proofFile' = [exists |-> TRUE, receipt |-> e.input]
        BY <1>4, <2>2, <2>4 DEF OnAgg
      <3>3. c = e
        BY <3>1, <3>2 DEF IInv, CallsUnique
      <3>4. QED
        BY <3>1, <3>2, <3>3
    <2>5. QED
      BY <2>2, <2>3, <2>4
  <1>5. QED
    BY <1>1, <1>2, <1>3, <1>4 DEF EndReceipts, TooSmall

LEMMA ReceiptsAlways == Spec => []Receipts
  <1>1. Init => Receipts
    BY DEF Init, EmptyVec, Receipts, ProofReceipts, CallReceipts, EndReceipts
  <1>2. IInv /\ Course /\ GraphBuilt /\ Receipts /\ [Next]_vars => Receipts'
    BY ProofReceiptsStep, CallReceiptsStep, EndReceiptsStep DEF Receipts
  <1>3. QED
    BY Invariance, CourseAlways, GraphAlways, <1>1, <1>2, PTL DEF Spec

\* A job that reports Success has what it was asked for: every segment, every root
\* proof, or one proof of the whole execution in order, for any number of segments,
\* deferred proofs and provers, any order of results and any failures on the way.
THEOREM SuccessIsProved == Spec => []SuccessMeansProof
  <1>1. ASSUME IInv, Course, GraphBuilt, Receipts, status = "Success" PROVE SuccessMeansProof
    <2>1. ~is_error /\ is_success
      BY <1>1 DEF Course, CourseOfLoop, Ended
    <2>2. /\ job.from_step \in {"Init", "Agg"} /\ job.target_step \in {"Split", "Agg", "Snark"}
          /\ job.composite_proof \in BOOLEAN
      BY <1>1, StageAssumption DEF IInv, TypeOK, GenerateTask
    <2>3. is_tasks_gen_done => ~TooSmall
      BY <1>1, <2>1 DEF Course, CourseOfSplit
    <2>4. CASE snark.state = "Success"
      <3>1. proofFile = [exists |-> TRUE, receipt |-> snark.agg_receipt]
        BY <1>1, <2>4 DEF Receipts, EndReceipts
      <3>2. \/ job.from_step = "Agg"
            \/ is_tasks_gen_done /\ job.from_step = "Init" /\ job.target_step = "Snark" /\ ~job.composite_proof
        BY <1>1, <2>4, SnarkUnderWay
      <3>3. CASE job.from_step = "Agg"
        <4>1. snark.agg_receipt = ClientReceipt
          BY <1>1, <2>4, <3>3 DEF Receipts, EndReceipts
        <4>2. QED
          BY <3>1, <3>3, <4>1 DEF SuccessMeansProof
      <3>4. CASE is_tasks_gen_done /\ job.from_step = "Init" /\ job.target_step = "Snark" /\ ~job.composite_proof
        <4>1. snark.agg_receipt = Execution
          BY <1>1, <2>3, <2>4, <3>4 DEF Receipts, EndReceipts
        <4>2. QED
          BY <3>1, <3>4, <4>1 DEF SuccessMeansProof
      <3>5. QED
        BY <3>2, <3>3, <3>4
    <2>5. CASE step = "End"
      <3>1. /\ split = "Success" /\ job.from_step = "Init"
            /\ \/ job.target_step = "Split"
               \/ /\ is_tasks_gen_done /\ AllSuccess(prove)
                  /\ job.composite_proof \/ (job.target_step = "Agg" /\ AllSuccess(agg))
        BY <1>1, <2>5 DEF Course, CourseOfSteps
      <3>2. CASE job.target_step = "Split"
        <4>1. segfiles = 0..(Segments - 1)
          BY <1>1, <3>1 DEF Course, CourseOfSplit
        <4>2. QED
          BY <3>1, <3>2, <4>1 DEF SuccessMeansProof
      <3>3. CASE job.target_step # "Split" /\ job.composite_proof
        <4>1. DOMAIN prove = 0..(Segments + Deferred - 1) /\ AllSuccess(prove)
          BY <1>1, <3>1, <3>3 DEF Course, CourseOfSplit
        <4>2. \A i \in 0..(Segments + Deferred - 1) : prove[i].output = <<i>>
          BY <1>1, <4>1 DEF AllSuccess, Receipts, ProofReceipts
        <4>3. QED
          BY <3>1, <3>3, <4>2 DEF SuccessMeansProof
      <3>4. CASE job.target_step # "Split" /\ ~job.composite_proof
        <4> DEFINE last == AggCount(Segments, Deferred) - 1
        <4>1. is_tasks_gen_done /\ job.target_step = "Agg" /\ AllSuccess(agg) /\ ~TooSmall
          BY <2>3, <3>1, <3>4
        <4>2. DOMAIN agg = 0..(AggCount(Segments, Deferred) - 1)
          BY <1>1, <3>4, <4>1 DEF GraphBuilt
        <4>3. \A a \in DOMAIN agg :
                 /\ agg[a].is_final = IsFinal(Segments, Deferred, a)
                 /\ agg[a].state = "Success" /\ ~IsPlaceholder(Segments, Deferred, a)
                       => agg[a].output = Interval(Spans[a])
          BY <1>1 DEF GraphBuilt, Receipts, ProofReceipts
        <4>4. /\ last \in DOMAIN agg /\ agg[last].is_final /\ ~IsPlaceholder(Segments, Deferred, last)
              /\ agg[last].output = Execution
          BY <4>1, <4>2, <4>3, FinalCovers
        <4>5. proofFile = [exists |-> TRUE, receipt |-> agg[last].output]
          BY <1>1, <3>1, <4>1, <4>4 DEF Receipts, EndReceipts, AllSuccess
        <4> HIDE DEF last
        <4>6. QED
          BY <3>1, <3>4, <4>1, <4>4, <4>5 DEF SuccessMeansProof
      <3>5. QED
        BY <2>2, <3>2, <3>3, <3>4
    <2>6. QED
      BY <2>1, <2>4, <2>5 DEF is_success
  <1>2. IInv /\ Course /\ GraphBuilt /\ Receipts => SuccessMeansProof
    BY <1>1 DEF SuccessMeansProof
  <1>3. QED
    BY Invariance, CourseAlways, GraphAlways, ReceiptsAlways, <1>2, PTL

----------------------------------------------------------------------------
(* The loop never waits for nobody.                                        *)

AtProvers(r) == \E c \in calls : c.ref = r

\* Every task the stage holds as Processing has its call.
HeldIsCalled ==
    /\ split = "Processing" => AtProvers(SplitRef)
    /\ snark.state = "Processing" => AtProvers(SnarkRef)
    /\ \A i \in DOMAIN prove : prove[i].state = "Processing" => AtProvers(Prove(i))
    /\ \A a \in DOMAIN agg : agg[a].state = "Processing" => AtProvers(Agg(a))

\* A failure that is not retried ends the loop in its turn.
FailuresEnd ==
    split = "Failed" \/ snark.state = "Failed" \/ (\E a \in DOMAIN agg : agg[a].state = "Failed")
        => is_error /\ pc \in Leaving

\* What has been generated is to be done, except the deferred proofs.
Generated ==
    /\ \A i \in DOMAIN prove : prove[i].state # "Initial"
    /\ \A a \in DOMAIN agg : agg[a].state # "Initial"
    /\ step = "Prove" => split # "Initial"
    /\ step = "Snark" => snark.state # "Initial"
    /\ is_tasks_gen_done => \A i \in DOMAIN prove : i >= Segments => prove[i].state = "Success"

\* dispatch leaves nothing undone that it could do without a result.
Dispatched ==
    pc = "top" /\ step = "Prove" =>
        /\ split = "Success" => is_tasks_gen_done
        /\ is_tasks_gen_done => ~(AllSuccess(prove) /\ (job.composite_proof \/ AllSuccess(agg)))

Awake == HeldIsCalled /\ FailuresEnd /\ Generated /\ Dispatched /\ WaitsForACall

\* A call leaves the set only with its result.
LEMMA CallStays ==
    ASSUME [Next]_vars, NEW c \in calls
    PROVE  \/ c \in calls'
           \/ \E r \in Results : \/ c.ref = SplitRef /\ OnSplit(r)
                                 \/ c.ref = SnarkRef /\ OnSnark(r)
                                 \/ \E i : c.ref = Prove(i) /\ OnProve(i, r)
                                 \/ \E a : c.ref = Agg(a) /\ OnAgg(a, r)
  <1>1. CASE Calm
    BY <1>1, CalmStep
  <1>2. CASE ScheduleProve \/ ScheduleSnark
    BY <1>2 DEF ScheduleProve, ScheduleSnark
  <1>3. CASE DispatchInit \/ DispatchSplitDone \/ DispatchGenerate \/ DispatchProve \/ DispatchAgg
    BY <1>3 DEF DispatchInit, DispatchSplitDone, DispatchGenerate, DispatchProve, DispatchAgg
  <1>4. ASSUME NEW r \in Results, OnSplit(r) PROVE c \in calls' \/ c.ref = SplitRef
    BY <1>4 DEF OnSplit
  <1>5. ASSUME NEW r \in Results, OnSnark(r) PROVE c \in calls' \/ c.ref = SnarkRef
    BY <1>5 DEF OnSnark
  <1>6. ASSUME NEW r \in Results, NEW i, OnProve(i, r) PROVE c \in calls' \/ c.ref = Prove(i)
    BY <1>6 DEF OnProve
  <1>7. ASSUME NEW r \in Results, NEW a, OnAgg(a, r) PROVE c \in calls' \/ c.ref = Agg(a)
    BY <1>7 DEF OnAgg
  <1>8. QED
    BY <1>1, <1>2, <1>3, <1>4, <1>5, <1>6, <1>7, StepCases

\* A result other than Processing is the state its task gets.
LEMMA ProveGets ==
    ASSUME IInv, NEW r \in Results, r # "Processing", NEW i, OnProve(i, r)
    PROVE  /\ DOMAIN prove' = DOMAIN prove /\ i \in DOMAIN prove /\ prove'[i].state = r
           /\ \A k \in DOMAIN prove : k # i => prove'[k] = prove[k]
           /\ DOMAIN agg' = DOMAIN agg /\ \A a \in DOMAIN agg : agg'[a].state = agg[a].state
  <1>1. i \in DOMAIN prove /\ prove[i].state = "Processing"
    BY ResultIsLive
  <1>2. PICK c \in calls : prove' = [prove EXCEPT ![i] = AfterProve(@, r, c.input)]
    BY <1>1 DEF OnProve
  <1>3. prove[i] \in ProveTask /\ r \in Reported
    BY <1>1, StageAssumption DEF IInv, TypeOK, Reported
  <1>4. AfterProve(prove[i], r, c.input).state = r
    <2> DEFINE t == prove[i]
    <2>1. t \in ProveTask
      BY <1>3
    <2> HIDE DEF t
    <2>2. AfterProve(t, r, c.input).state = r
      BY <1>3, <2>1 DEF AfterProve, ProveTask
    <2>3. QED
      BY <2>2 DEF t
  <1>5. /\ DOMAIN prove' = DOMAIN prove /\ prove'[i].state = r
        /\ \A k \in DOMAIN prove : k # i => prove'[k] = prove[k]
    BY <1>1, <1>2, <1>4
  <1>6. \A a \in DOMAIN agg : agg[a] \in AggTask(a)
    BY DEF IInv, TypeOK
  <1>7. agg' = agg \/ agg' = clear_agg_child_tasks(agg, {Prove(i)})
    BY DEF OnProve
  <1>8. DOMAIN agg' = DOMAIN agg /\ \A a \in DOMAIN agg : agg'[a].state = agg[a].state
    BY <1>6, <1>7, ClearChilds
  <1>9. QED
    BY <1>1, <1>5, <1>8

LEMMA AggGets ==
    ASSUME IInv, NEW r \in Results, r # "Processing", NEW b, OnAgg(b, r)
    PROVE  /\ DOMAIN agg' = DOMAIN agg /\ b \in DOMAIN agg /\ agg'[b].state = r
           /\ \A a \in DOMAIN agg : a # b => agg'[a].state = agg[a].state
  <1> DEFINE tasks(c) == [agg EXCEPT ![b] = AfterAgg(@, r, c.input)]
  <1>1. b \in DOMAIN agg /\ agg[b].state = "Processing"
    BY ResultIsLive
  <1>2. PICK c \in calls : /\ c \in calls /\ c.ref = Agg(b) /\ calls' = calls \ {c}
                           /\ agg' = IF r = "Success" THEN clear_agg_child_tasks(tasks(c), {Agg(b)}) ELSE tasks(c)
    BY <1>1 DEF OnAgg
  <1>3. \A a \in DOMAIN agg : agg[a] \in AggTask(a)
    BY DEF IInv, TypeOK
  <1>4. r \in Reported
    BY StageAssumption DEF Reported
  <1>5. AfterAgg(agg[b], r, c.input).state = r /\ AfterAgg(agg[b], r, c.input) \in AggTask(b)
    <2> DEFINE t == agg[b]
    <2>1. t \in AggTask(b)
      BY <1>1, <1>3
    <2> HIDE DEF t
    <2>2. AfterAgg(t, r, c.input).state = r
      BY <1>4, <2>1 DEF AfterAgg, AggTask
    <2>3. AfterAgg(t, r, c.input) \in AggTask(b)
      BY <1>2, <2>1, AggResult, CallEnds
    <2>4. QED
      BY <2>2, <2>3 DEF t
  <1> DEFINE mid == tasks(c)
  <1>6. /\ DOMAIN mid = DOMAIN agg /\ mid[b] = AfterAgg(agg[b], r, c.input)
        /\ \A a \in DOMAIN agg : a # b => mid[a] = agg[a]
    BY <1>1
  <1>7. agg' = mid \/ agg' = clear_agg_child_tasks(mid, {Agg(b)})
    BY <1>2
  <1> HIDE DEF mid, tasks
  <1>8. \A a \in DOMAIN mid : mid[a] \in AggTask(a)
    BY <1>3, <1>5, <1>6
  <1>9. DOMAIN agg' = DOMAIN mid /\ \A a \in DOMAIN mid : agg'[a].state = mid[a].state
    BY <1>7, <1>8, ClearChilds
  <1>10. QED
    BY <1>1, <1>5, <1>6, <1>9

\* How a root proof gets its state.
LEMMA ProveMoves ==
    ASSUME IInv, "Processing" \notin Results, [Next]_vars, NEW i \in DOMAIN prove'
    PROVE  \/ /\ i \in DOMAIN prove /\ prove'[i].state = prove[i].state
              /\ \A r \in Results : ~OnProve(i, r)
           \/ prove'[i].state \in {"Unprocessed", "Success"} /\ calls' = calls
           \/ prove'[i].state = "Processing" /\ AtProvers(Prove(i))'
           \/ \E r \in Results : OnProve(i, r) /\ prove'[i].state = r
  <1>1. CASE \E r \in Results : OnProve(i, r)
    BY <1>1, ProveGets
  <1>2. CASE ~\E r \in Results : OnProve(i, r)
    <2>1. CASE prove' = prove
      BY <1>2, <2>1
    <2>2. CASE ScheduleProve
      <3>1. CASE i \in ProvePick
        <4>1. prove'[i] = [prove[i] EXCEPT !.state = "Processing"] /\ i \in DOMAIN prove
          BY <2>2, <3>1 DEF ScheduleProve
        <4>2. prove[i] \in ProveTask
          BY <4>1 DEF IInv, TypeOK
        <4>3. prove'[i].state = "Processing"
          BY <4>1, <4>2 DEF ProveTask
        <4>4. Call(Prove(i), <<i>>) \in calls'
          BY <2>2, <3>1 DEF ScheduleProve
        <4>5. QED
          BY <4>3, <4>4 DEF AtProvers, Call
      <3>2. CASE i \notin ProvePick
        BY <1>2, <2>2, <3>2 DEF ScheduleProve
      <3>3. QED
        BY <3>1, <3>2
    <2>3. CASE DispatchProve
      <3>1. prove' = gen_prove_task /\ calls' = calls
        BY <2>3 DEF DispatchProve
      <3>2. QED
        BY <1>2, <3>1, GenProveTask, FreshTask DEF IInv
    <2>4. CASE DispatchGenerate
      <3> DEFINE before == gen_prove_task
      <3>1. prove' = gen_prove_task_post(before) /\ calls' = calls /\ ~is_tasks_gen_done
        BY <2>4 DEF DispatchGenerate
      <3>2. /\ before \in [DOMAIN before -> ProveTask]
            /\ \A k \in DOMAIN before : ~before[k].is_deferred
            /\ \A k \in DOMAIN prove : before[k] = prove[k]
            /\ \A k \in DOMAIN before \ DOMAIN prove : before[k] = task_with_no
        BY <3>1, GenProveTask DEF IInv, BeforeGraph, task_with_no
      <3> HIDE DEF before
      <3>3. \/ i \in DOMAIN before /\ prove'[i] = before[i]
            \/ prove'[i] = task_with_no
            \/ prove'[i].state = "Success"
        <4>1. /\ DOMAIN prove' = 0..(Segments + Deferred - 1)
              /\ i < Segments => prove'[i] = IF i \in DOMAIN before THEN before[i] ELSE task_with_no
              /\ i >= Segments => prove'[i].state = "Success"
          BY <3>1, <3>2, GenProveTaskPost
        <4>2. i < Segments \/ i >= Segments
          BY <4>1, StageAssumption
        <4>3. QED
          BY <4>1, <4>2
      <3>4. QED
        BY <1>2, <3>1, <3>2, <3>3, FreshTask
    <2>5. ASSUME NEW r \in Results, NEW k, OnProve(k, r)
          PROVE  i \in DOMAIN prove /\ prove'[i] = prove[i]
      BY <1>2, <2>5, ProveGets
    <2>6. prove' = prove \/ ScheduleProve \/ DispatchProve \/ DispatchGenerate
             \/ \E r \in Results : \E k : OnProve(k, r)
      BY StepCases, CalmStep DEF ScheduleSnark, DispatchInit, DispatchSplitDone, DispatchAgg, OnSplit, OnSnark, OnAgg
    <2>7. QED
      BY <1>2, <2>1, <2>2, <2>3, <2>4, <2>5, <2>6
  <1>3. QED
    BY <1>1, <1>2

\* How an aggregation gets its state.
LEMMA AggMoves ==
    ASSUME IInv, "Processing" \notin Results, [Next]_vars, NEW a \in DOMAIN agg'
    PROVE  \/ /\ a \in DOMAIN agg /\ agg'[a].state = agg[a].state
              /\ \A r \in Results : ~OnAgg(a, r)
           \/ agg'[a].state \in {"Unprocessed", "Success"} /\ calls' = calls
           \/ agg'[a].state = "Processing" /\ AtProvers(Agg(a))'
           \/ \E r \in Results : OnAgg(a, r) /\ agg'[a].state = r
  <1>1. CASE \E r \in Results : OnAgg(a, r)
    BY <1>1, AggGets
  <1>2. CASE ~\E r \in Results : OnAgg(a, r)
    <2>1. CASE agg' = agg
      BY <1>2, <2>1
    <2>2. CASE ScheduleProve
      <3>1. CASE a \in AggPick
        <4>1. agg'[a] = [agg[a] EXCEPT !.state = "Processing"] /\ a \in DOMAIN agg
          BY <2>2, <3>1 DEF ScheduleProve
        <4>2. agg[a] \in AggTask(a)
          BY <4>1 DEF IInv, TypeOK
        <4>3. agg'[a].state = "Processing"
          BY <4>1, <4>2 DEF AggTask
        <4>4. Call(Agg(a), Joined(agg[a].inputs)) \in calls'
          BY <2>2, <3>1 DEF ScheduleProve
        <4>5. QED
          BY <4>3, <4>4 DEF AtProvers, Call
      <3>2. CASE a \notin AggPick
        BY <1>2, <2>2, <3>2 DEF ScheduleProve
      <3>3. QED
        BY <3>1, <3>2
    <2>3. CASE DispatchGenerate
      <3>1. calls' = calls
        BY <2>3 DEF DispatchGenerate
      <3>2. CASE job.composite_proof
        BY <1>2, <2>3, <3>2, GenerateMakes
      <3>3. CASE ~job.composite_proof
        BY <2>3, <3>1, <3>3, GenerateMakes
      <3>4. QED
        BY <3>2, <3>3
    <2>4. ASSUME NEW r \in Results, NEW k, OnProve(k, r) \/ OnAgg(k, r)
          PROVE  a \in DOMAIN agg /\ agg'[a].state = agg[a].state
      BY <1>2, <2>4, ProveGets, AggGets
    <2>5. agg' = agg \/ ScheduleProve \/ DispatchGenerate
             \/ \E r \in Results : \E k : OnProve(k, r) \/ OnAgg(k, r)
      BY StepCases, CalmStep DEF ScheduleSnark, DispatchInit, DispatchSplitDone, DispatchProve, DispatchAgg,
         OnSplit, OnSnark
    <2>6. QED
      BY <1>2, <2>1, <2>2, <2>3, <2>4, <2>5
  <1>3. QED
    BY <1>1, <1>2

\* How the split gets its state.
LEMMA SplitMoves ==
    ASSUME IInv, "Processing" \notin Results, [Next]_vars
    PROVE  \/ split' = split /\ \A r \in Results : ~OnSplit(r)
           \/ split' = "Unprocessed" /\ DispatchInit
           \/ split' = "Processing" /\ AtProvers(SplitRef)'
           \/ \E r \in Results : OnSplit(r) /\ split' = r
  <1>1. CASE \E r \in Results : OnSplit(r)
    BY <1>1, StageAssumption DEF OnSplit, Reported
  <1>2. CASE ~\E r \in Results : OnSplit(r)
    <2>1. CASE ScheduleProve
      <3>1. CASE split \in Runnable
        <4>1. split' = "Processing" /\ Call(SplitRef, NoReceipt) \in calls'
          BY <2>1, <3>1 DEF ScheduleProve, SplitCalls
        <4>2. QED
          BY <4>1 DEF AtProvers, Call
      <3>2. CASE split \notin Runnable
        BY <1>2, <2>1, <3>2 DEF ScheduleProve
      <3>3. QED
        BY <3>1, <3>2
    <2>2. CASE DispatchInit
      BY <2>2 DEF DispatchInit
    <2>3. split' = split \/ ScheduleProve \/ DispatchInit
      BY <1>2, StepCases, CalmStep DEF ScheduleSnark, DispatchSplitDone, DispatchGenerate, DispatchProve,
         DispatchAgg, OnSnark, OnProve, OnAgg
    <2>4. QED
      BY <1>2, <2>1, <2>2, <2>3
  <1>3. QED
    BY <1>1, <1>2

\* How the snark task gets its state.
LEMMA SnarkMoves ==
    ASSUME IInv, "Processing" \notin Results, [Next]_vars
    PROVE  \/ snark'.state = snark.state /\ \A r \in Results : ~OnSnark(r)
           \/ snark'.state = "Unprocessed" /\ calls' = calls
           \/ snark'.state = "Processing" /\ AtProvers(SnarkRef)'
           \/ \E r \in Results : OnSnark(r) /\ snark'.state = r
  <1>0. snark \in [state : TaskState, agg_receipt : Receipt]
    BY DEF IInv, TypeOK
  <1>1. CASE \E r \in Results : OnSnark(r)
    BY <1>0, <1>1, StageAssumption DEF OnSnark, Reported
  <1>2. CASE ~\E r \in Results : OnSnark(r)
    <2>1. CASE ScheduleSnark
      <3>1. CASE snark.state \in Runnable
        <4>1. snark'.state = "Processing" /\ Call(SnarkRef, snark.agg_receipt) \in calls'
          BY <1>0, <2>1, <3>1 DEF ScheduleSnark, SnarkCalls
        <4>2. QED
          BY <4>1 DEF AtProvers, Call
      <3>2. CASE snark.state \notin Runnable
        BY <1>0, <1>2, <2>1, <3>2 DEF ScheduleSnark
      <3>3. QED
        BY <3>1, <3>2
    <2>2. CASE DispatchAgg
      BY <2>2 DEF DispatchAgg, gen_snark_task
    <2>3. CASE DispatchGenerate
      <3>1. calls' = calls /\ \E tasks, aggs : Advance(TRUE, tasks, aggs)
        BY <2>3 DEF DispatchGenerate
      <3>2. snark' = snark \/ \E aggs : snark' = gen_snark_task(aggs)
        BY <3>1, AdvanceCases
      <3>3. QED
        BY <1>2, <3>1, <3>2 DEF gen_snark_task
    <2>4. CASE DispatchProve
      <3>1. calls' = calls /\ \E tasks, aggs : Advance(is_tasks_gen_done, tasks, aggs)
        BY <2>4 DEF DispatchProve
      <3>2. snark' = snark \/ \E aggs : snark' = gen_snark_task(aggs)
        BY <3>1, AdvanceCases
      <3>3. QED
        BY <1>2, <3>1, <3>2 DEF gen_snark_task
    <2>5. snark' = snark \/ ScheduleSnark \/ DispatchAgg \/ DispatchGenerate \/ DispatchProve
      BY <1>2, StepCases, CalmStep DEF ScheduleProve, DispatchInit, DispatchSplitDone, OnSplit, OnProve, OnAgg
    <2>6. QED
      BY <1>2, <2>1, <2>2, <2>3, <2>4, <2>5
  <1>3. QED
    BY <1>1, <1>2

LEMMA HeldIsCalledStep ==
    ASSUME IInv, HeldIsCalled, "Processing" \notin Results, [Next]_vars
    PROVE  HeldIsCalled'
  <1>1. ASSUME NEW i \in DOMAIN prove', prove'[i].state = "Processing" PROVE AtProvers(Prove(i))'
    <2> SUFFICES ASSUME i \in DOMAIN prove, prove[i].state = "Processing", \A r \in Results : ~OnProve(i, r)
                 PROVE  AtProvers(Prove(i))'
      BY <1>1, ProveMoves
    <2>1. PICK c \in calls : c.ref = Prove(i)
      BY DEF HeldIsCalled, AtProvers
    <2>2. c \in calls'
      BY <2>1, CallStays, RefsDiffer
    <2>3. QED
      BY <2>1, <2>2 DEF AtProvers
  <1>2. ASSUME NEW a \in DOMAIN agg', agg'[a].state = "Processing" PROVE AtProvers(Agg(a))'
    <2> SUFFICES ASSUME a \in DOMAIN agg, agg[a].state = "Processing", \A r \in Results : ~OnAgg(a, r)
                 PROVE  AtProvers(Agg(a))'
      BY <1>2, AggMoves
    <2>1. PICK c \in calls : c.ref = Agg(a)
      BY DEF HeldIsCalled, AtProvers
    <2>2. c \in calls'
      BY <2>1, CallStays, RefsDiffer
    <2>3. QED
      BY <2>1, <2>2 DEF AtProvers
  <1>3. ASSUME split' = "Processing" PROVE AtProvers(SplitRef)'
    <2> SUFFICES ASSUME split = "Processing", \A r \in Results : ~OnSplit(r) PROVE AtProvers(SplitRef)'
      BY <1>3, SplitMoves
    <2>1. PICK c \in calls : c.ref = SplitRef
      BY DEF HeldIsCalled, AtProvers
    <2>2. c \in calls'
      BY <2>1, CallStays, RefsDiffer
    <2>3. QED
      BY <2>1, <2>2 DEF AtProvers
  <1>4. ASSUME snark'.state = "Processing" PROVE AtProvers(SnarkRef)'
    <2> SUFFICES ASSUME snark.state = "Processing", \A r \in Results : ~OnSnark(r) PROVE AtProvers(SnarkRef)'
      BY <1>4, SnarkMoves
    <2>1. PICK c \in calls : c.ref = SnarkRef
      BY DEF HeldIsCalled, AtProvers
    <2>2. c \in calls'
      BY <2>1, CallStays, RefsDiffer
    <2>3. QED
      BY <2>1, <2>2 DEF AtProvers
  <1>5. QED
    BY <1>1, <1>2, <1>3, <1>4 DEF HeldIsCalled

LEMMA FailuresEndStep ==
    ASSUME IInv, Course, FailuresEnd, "Processing" \notin Results, [Next]_vars
    PROVE  FailuresEnd'
  <1>1. is_error => is_error'
    BY Frame
  <1>2. is_error /\ pc \in Leaving => pc' \in Leaving
    BY StepCases DEF Calm, SplitPublish, SplitWrite, ScheduleNothing, Tick, Break, DispatchSnark, Finish,
       FinishError, FinishSuccess, FinishPanic, vars, ScheduleProve, ScheduleSnark, DispatchInit,
       DispatchSplitDone, DispatchGenerate, DispatchProve, DispatchAgg, OnSplit, OnSnark, OnProve, OnAgg,
       Leaving, Ended
  <1>3. ASSUME split' = "Failed" PROVE is_error' /\ pc' \in Leaving
    <2>1. CASE split = "Failed"
      BY <1>1, <1>2, <2>1 DEF FailuresEnd
    <2>2. CASE OnSplit("Failed")
      BY <2>2 DEF OnSplit, Leaving
    <2>3. QED
      BY <1>3, <2>1, <2>2, SplitMoves
  <1>4. ASSUME snark'.state = "Failed" PROVE is_error' /\ pc' \in Leaving
    <2>1. CASE snark.state = "Failed"
      BY <1>1, <1>2, <2>1 DEF FailuresEnd
    <2>2. CASE OnSnark("Failed")
      BY <2>2 DEF OnSnark, Leaving
    <2>3. QED
      BY <1>4, <2>1, <2>2, SnarkMoves
  <1>5. ASSUME NEW a \in DOMAIN agg', agg'[a].state = "Failed" PROVE is_error' /\ pc' \in Leaving
    <2>1. CASE a \in DOMAIN agg /\ agg[a].state = "Failed"
      BY <1>1, <1>2, <2>1 DEF FailuresEnd
    <2>2. CASE "Failed" \in Results /\ OnAgg(a, "Failed")
      <3>1. a \in DOMAIN agg /\ agg[a].state = "Processing"
        BY <2>2, ResultIsLive
      <3>2. QED
        BY <2>2, <3>1 DEF OnAgg, Leaving
    <2>3. QED
      BY <1>5, <2>1, <2>2, AggMoves
  <1>6. QED
    BY <1>3, <1>4, <1>5 DEF FailuresEnd

LEMMA StepMoves ==
    ASSUME [Next]_vars
    PROVE  \/ step' = step
           \/ step' = "Prove" /\ DispatchInit
           \/ step' = "Snark" /\ snark'.state = "Unprocessed"
           \/ step' = "End"
  <1>1. CASE DispatchInit
    BY <1>1 DEF DispatchInit
  <1>2. CASE DispatchSplitDone
    BY <1>2 DEF DispatchSplitDone
  <1>3. CASE DispatchAgg
    BY <1>3 DEF DispatchAgg, gen_snark_task
  <1>4. CASE DispatchGenerate \/ DispatchProve
    <2>1. \E done, tasks, aggs : Advance(done, tasks, aggs)
      BY <1>4 DEF DispatchGenerate, DispatchProve
    <2>2. step' = step \/ step' = "End" \/ (step' = "Snark" /\ \E aggs : snark' = gen_snark_task(aggs))
      BY <2>1, AdvanceCases
    <2>3. QED
      BY <2>2 DEF gen_snark_task
  <1>5. step' = step \/ DispatchInit \/ DispatchSplitDone \/ DispatchAgg \/ DispatchGenerate \/ DispatchProve
    BY StepCases, CalmStep DEF ScheduleProve, ScheduleSnark, OnSplit, OnSnark, OnProve, OnAgg
  <1>6. QED
    BY <1>1, <1>2, <1>3, <1>4, <1>5

LEMMA GeneratedStep ==
    ASSUME IInv, Course, Generated, "Processing" \notin Results, [Next]_vars
    PROVE  Generated'
  <1>1. "Initial" \notin Results
    BY StageAssumption
  <1>2. \A i \in DOMAIN prove' : prove'[i].state # "Initial"
    BY <1>1, ProveMoves DEF Generated
  <1>3. \A a \in DOMAIN agg' : agg'[a].state # "Initial"
    BY <1>1, AggMoves DEF Generated
  <1>4. step' = "Prove" => split' # "Initial"
    <2>1. CASE step' = step
      BY <1>1, <2>1, SplitMoves DEF Generated
    <2>2. CASE DispatchInit
      BY <2>2 DEF DispatchInit
    <2>3. QED
      BY <2>1, <2>2, StepMoves
  <1>5. step' = "Snark" => snark'.state # "Initial"
    <2>1. CASE step' = step
      BY <1>1, <2>1, SnarkMoves DEF Generated
    <2>2. QED
      BY <2>1, StepMoves
  <1>6. ASSUME is_tasks_gen_done', NEW i \in DOMAIN prove', i >= Segments
        PROVE  prove'[i].state = "Success"
    <2>1. CASE is_tasks_gen_done
      <3>1. i \in DOMAIN prove
        BY <2>1, Frame
      <3>2. QED
        BY <1>6, <2>1, <3>1, StepInv DEF Generated, ProofsKept
    <2>2. CASE ~is_tasks_gen_done
      <3> DEFINE before == gen_prove_task
      <3>1. DispatchGenerate
        BY <1>6, <2>2, StepCases, CalmStep DEF ScheduleProve, ScheduleSnark, DispatchInit, DispatchSplitDone,
           DispatchProve, DispatchAgg, OnSplit, OnSnark, OnProve, OnAgg
      <3>2. prove' = gen_prove_task_post(before)
        BY <3>1 DEF DispatchGenerate
      <3>3. before \in [DOMAIN before -> ProveTask] /\ \A k \in DOMAIN before : ~before[k].is_deferred
        BY <2>2, GenProveTask DEF IInv, BeforeGraph, task_with_no
      <3> HIDE DEF before
      <3>4. QED
        BY <1>6, <3>2, <3>3, GenProveTaskPost
    <2>3. QED
      BY <2>1, <2>2
  <1>7. QED
    BY <1>2, <1>3, <1>4, <1>5, <1>6 DEF Generated

LEMMA DispatchedStep ==
    ASSUME IInv, Course, Dispatched, [Next]_vars
    PROVE  Dispatched'
  <1> SUFFICES ASSUME pc' = "top", step' = "Prove"
               PROVE  /\ split' = "Success" => is_tasks_gen_done'
                      /\ is_tasks_gen_done' => ~(AllSuccess(prove') /\ (job'.composite_proof \/ AllSuccess(agg')))
    BY DEF Dispatched, AllSuccess
  <1>1. ASSUME NEW done, NEW tasks, NEW aggs, Advance(done, tasks, aggs), done,
               step = "Prove", job.target_step # "Split"
        PROVE  ~(AllSuccess(tasks) /\ (job.composite_proof \/ AllSuccess(aggs)))
    BY <1>1 DEF Advance
  <1>2. CASE DispatchInit
    <2>1. split' = "Unprocessed" /\ is_tasks_gen_done' = is_tasks_gen_done /\ split = "Initial"
      BY <1>2 DEF DispatchInit, IInv, NotYetStarted
    <2>2. ~is_tasks_gen_done
      BY <2>1 DEF Course, CourseOfSplit
    <2>3. QED
      BY <2>1, <2>2
  <1>3. CASE DispatchGenerate
    <2>1. /\ Advance(TRUE, prove', agg') /\ step = "Prove" /\ job.target_step # "Split"
          /\ job' = job /\ is_tasks_gen_done'
      BY <1>3 DEF DispatchGenerate
    <2>2. QED
      BY <1>1, <2>1
  <1>4. CASE DispatchProve
    <2>1. /\ Advance(is_tasks_gen_done, prove', agg') /\ step = "Prove" /\ job' = job
          /\ UNCHANGED <<split, is_tasks_gen_done>> /\ (split = "Success" => is_tasks_gen_done)
      BY <1>4 DEF DispatchProve
    <2>2. is_tasks_gen_done => job.target_step # "Split"
      BY DEF Course, CourseOfSplit
    <2>3. QED
      BY <1>1, <2>1, <2>2
  <1>5. CASE pc = "top" /\ UNCHANGED <<job, step, split, prove, agg, is_tasks_gen_done>>
    BY <1>5 DEF Dispatched
  <1>6. \/ DispatchInit \/ DispatchGenerate \/ DispatchProve
        \/ pc = "top" /\ UNCHANGED <<job, step, split, prove, agg, is_tasks_gen_done>>
    BY StepCases DEF Calm, SplitPublish, SplitWrite, ScheduleNothing, Tick, Break, DispatchSnark, Finish,
       FinishError, FinishSuccess, FinishPanic, vars, stageVars, ScheduleProve, ScheduleSnark,
       DispatchSplitDone, DispatchAgg, OnSplit, OnSnark, OnProve, OnAgg
  <1>7. QED
    BY <1>2, <1>3, <1>4, <1>5, <1>6

\* A turn of the Prove step that finds nobody at work starts somebody: the split,
\* the first root proof that is left, or the first aggregation that is left, whose
\* inputs are all there because they come before it.
LEMMA SomethingToStart ==
    ASSUME IInv, Course, GraphBuilt, NoStaleChild, HeldIsCalled, FailuresEnd, Generated, Dispatched,
           pc = "top", step = "Prove", calls = {}, split \notin Runnable
    PROVE  ProvePick # {} \/ AggPick # {}
  <1>1. /\ split # "Processing" /\ snark.state # "Processing"
        /\ \A i \in DOMAIN prove : prove[i].state # "Processing"
        /\ \A a \in DOMAIN agg : agg[a].state # "Processing"
    BY DEF HeldIsCalled, AtProvers
  <1>2. split = "Success"
    BY <1>1 DEF IInv, TypeOK, TaskState, Generated, Runnable
  <1>3. /\ is_tasks_gen_done /\ segfiles = 0..(Segments - 1)
        /\ DOMAIN prove = 0..(Segments + Deferred - 1) /\ DOMAIN prove \subseteq Nat
        /\ ~(AllSuccess(prove) /\ (job.composite_proof \/ AllSuccess(agg)))
    BY <1>2 DEF Dispatched, Course, CourseOfSplit, IInv, TypeOK
  <1>4. CASE ~AllSuccess(prove)
    <2>1. PICK i \in DOMAIN prove : prove[i].state # "Success"
      BY <1>4 DEF AllSuccess
    <2>2. prove[i].state \in Runnable
      <3>1. prove[i].state \in TaskState
        BY <2>1 DEF IInv, TypeOK, ProveTask
      <3>2. QED
        BY <1>1, <2>1, <3>1 DEF TaskState, Generated, Runnable
    <2>3. i \in segfiles
      <3>1. ~(i >= Segments)
        BY <1>3, <2>1 DEF Generated
      <3>2. QED
        BY <1>3, <3>1, StageAssumption
    <2>4. i \in ProveReady /\ ProveReady \subseteq Nat
      BY <1>3, <2>2, <2>3 DEF ProveReady
    <2>5. PICK j \in ProveReady : \A k \in ProveReady : j <= k
      BY <2>4, Least
    <2>6. count_processing_prove_tasks < MaxProverNum
      <3>1. {k \in DOMAIN prove : prove[k].state = "Processing"} = {}
        BY <1>1
      <3>2. count_processing_prove_tasks = 0
        BY <3>1, FS_EmptySet DEF count_processing_prove_tasks
      <3>3. QED
        BY <3>2, StageAssumption
    <2>7. QED
      BY <2>5, <2>6 DEF ProvePick
  <1>5. CASE AllSuccess(prove)
    <2>1. ~job.composite_proof /\ ~AllSuccess(agg)
      BY <1>3, <1>5
    <2>2. /\ DOMAIN agg = 0..(AggCount(Segments, Deferred) - 1) /\ DOMAIN agg \subseteq Nat
          /\ AggCount(Segments, Deferred) \in Nat
      BY <1>3, <2>1, JobGraph DEF GraphBuilt, IInv, TypeOK
    <2> DEFINE U == {a \in DOMAIN agg : agg[a].state # "Success"}
    <2>3. U # {} /\ U \subseteq Nat
      BY <2>1, <2>2 DEF AllSuccess
    <2>4. PICK a \in U : \A b \in U : a <= b
      <3> HIDE DEF U
      <3> QED BY <2>3, Least
    <2>5. a \in DOMAIN agg /\ a \in Nat /\ agg[a] \in AggTask(a)
      BY <2>2 DEF IInv, TypeOK
    <2>6. agg[a].state \in Runnable
      <3>1. agg[a].state \in TaskState /\ agg[a].state # "Success"
        BY <2>5 DEF AggTask
      <3>2. QED
        BY <1>1, <2>5, <3>1 DEF TaskState, Generated, Runnable
    <2>7. \A r \in Inputs(Segments, Deferred, a) : ProofDone(r)
      <3> SUFFICES ASSUME NEW r \in Inputs(Segments, Deferred, a) PROVE ProofDone(r)
        OBVIOUS
      <3>1. Earlier(Segments, Deferred, a, r)
        BY <2>2, <2>5, JobGraph
      <3>2. CASE \E i \in 0..(Segments + Deferred - 1) : r = Prove(i)
        BY <1>3, <1>5, <3>2, RefsDiffer DEF ProofDone, AllSuccess
      <3>3. CASE \E b \in 0..(a - 1) : r = Agg(b)
        <4>1. PICK b \in 0..(a - 1) : r = Agg(b)
          BY <3>3
        <4>2. b \in DOMAIN agg /\ ~(a <= b)
          BY <2>2, <2>5
        <4>3. agg[b].state = "Success"
          BY <2>4, <4>2
        <4>4. QED
          BY <4>1, <4>2, <4>3, RefsDiffer DEF ProofDone
      <3>4. QED
        BY <3>1, <3>2, <3>3 DEF Earlier
    <2>8. agg[a].childs = {}
      <3>1. agg[a].childs \subseteq Inputs(Segments, Deferred, a)
        BY <2>5 DEF AggTask, Inputs
      <3>2. \A r \in agg[a].childs : ~ProofDone(r)
        BY <2>5 DEF NoStaleChild
      <3>3. QED
        BY <2>7, <3>1, <3>2
    <2>9. a \in AggReady /\ AggReady \subseteq Nat
      BY <2>2, <2>5, <2>6, <2>8 DEF AggReady
    <2>10. PICK b \in AggReady : \A k \in AggReady : b <= k
      BY <2>9, Least
    <2>11. count_unfinished_prove_tasks < MaxProverNum
      <3>1. {k \in DOMAIN prove : prove[k].state # "Success"} = {}
        BY <1>5 DEF AllSuccess
      <3>2. count_unfinished_prove_tasks = 0
        BY <3>1, FS_EmptySet DEF count_unfinished_prove_tasks
      <3>3. QED
        BY <3>2, StageAssumption
    <2>12. QED
      BY <1>3, <2>10, <2>11 DEF AggPick
  <1>6. QED
    BY <1>4, <1>5

LEMMA WaitsStep ==
    ASSUME IInv, Course, GraphBuilt, NoStaleChild, Awake, [Next]_vars
    PROVE  WaitsForACall'
  <1> SUFFICES ASSUME pc' = "select", step' \in {"Prove", "Snark"} PROVE calls' # {}
    BY DEF WaitsForACall
  <1> USE DEF Awake
  <1>1. CASE ScheduleProve
    <2>1. /\ calls' = calls \cup SplitCalls
                            \cup {Call(Prove(i), <<i>>) : i \in ProvePick}
                            \cup {Call(Agg(a), Joined(agg[a].inputs)) : a \in AggPick}
          /\ pc = "top" /\ step = "Prove"
      BY <1>1 DEF ScheduleProve
    <2>2. CASE split \in Runnable
      BY <2>1, <2>2 DEF SplitCalls
    <2>3. CASE split \notin Runnable /\ calls = {}
      <3>1. ProvePick # {} \/ AggPick # {}
        BY <2>1, <2>3, SomethingToStart
      <3>2. QED
        BY <2>1, <3>1
    <2>4. CASE calls # {}
      BY <2>1, <2>4
    <2>5. QED
      BY <2>2, <2>3, <2>4
  <1>2. CASE ScheduleSnark
    <2>1. calls' = calls \cup SnarkCalls /\ pc = "top" /\ step = "Snark"
      BY <1>2 DEF ScheduleSnark
    <2>2. snark.state \in {"Unprocessed", "Processing"}
      <3>1. snark.state \in TaskState /\ snark.state # "Initial"
        BY <2>1 DEF IInv, TypeOK, Generated
      <3>2. snark.state # "Failed" /\ snark.state # "Success"
        BY <2>1 DEF FailuresEnd, Course, CourseOfLoop, Leaving
      <3>3. QED
        BY <3>1, <3>2 DEF TaskState
    <2>3. CASE snark.state = "Unprocessed"
      BY <2>1, <2>3 DEF SnarkCalls, Runnable
    <2>4. CASE snark.state = "Processing"
      BY <2>1, <2>4 DEF HeldIsCalled, AtProvers
    <2>5. QED
      BY <2>2, <2>3, <2>4
  <1>3. CASE pc = "select" /\ step' = step /\ calls' = calls
    BY <1>3 DEF WaitsForACall
  <1>4. ScheduleProve \/ ScheduleSnark \/ (pc = "select" /\ step' = step /\ calls' = calls)
    BY StepCases DEF Calm, SplitPublish, SplitWrite, ScheduleNothing, Tick, Break, DispatchSnark, Finish,
       FinishError, FinishSuccess, FinishPanic, vars, stageVars, DispatchInit,
       DispatchSplitDone, DispatchGenerate, DispatchProve, DispatchAgg, OnSplit, OnSnark, OnProve, OnAgg
  <1>5. QED
    BY <1>1, <1>2, <1>3, <1>4

LEMMA AwakeStarts == Init => Awake
  <1> SUFFICES ASSUME Init PROVE Awake
    OBVIOUS
  <1>1. /\ DOMAIN prove = {} /\ DOMAIN agg = {} /\ split = "Initial" /\ snark.state = "Initial"
        /\ step \in {"Init", "Agg"} /\ pc = "dispatch" /\ ~is_tasks_gen_done
    BY StageAssumption DEF Init, EmptyVec, GenerateTask
  <1>2. QED
    BY <1>1 DEF Awake, HeldIsCalled, FailuresEnd, Generated, Dispatched, WaitsForACall

\* The loop of run_stage_task never waits for nobody, whatever the number of
\* segments and provers and in whatever order the results come in, as long as no
\* call hands its task back as Processing: the safety part of EventuallyReported.
THEOREM NeverWaitsForNobody ==
    ASSUME "Processing" \notin Results
    PROVE  Spec => []WaitsForACall
  <1>1. Init => Awake
    BY AwakeStarts
  <1>2. IInv /\ Course /\ GraphBuilt /\ NoStaleChild /\ Awake /\ [Next]_vars => Awake'
    <2> SUFFICES ASSUME IInv, Course, GraphBuilt, NoStaleChild, Awake, [Next]_vars PROVE Awake'
      OBVIOUS
    <2>1. HeldIsCalled'
      BY HeldIsCalledStep DEF Awake
    <2>2. FailuresEnd' /\ Generated' /\ Dispatched'
      BY FailuresEndStep, GeneratedStep, DispatchedStep DEF Awake
    <2>3. WaitsForACall'
      BY WaitsStep
    <2>4. QED
      BY <2>1, <2>2, <2>3 DEF Awake
  <1>3. Awake => WaitsForACall
    BY DEF Awake
  <1>4. QED
    BY <1>1, <1>2, <1>3, Invariance, CourseAlways, GraphAlways, PTL DEF Spec
=============================================================================
