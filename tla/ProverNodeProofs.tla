-------------------------- MODULE ProverNodeProofs --------------------------
(***************************************************************************)
(* Proofs about ProverNode, for any set of nodes and tasks, any number of  *)
(* threads on a node and both builds.                                      *)
(***************************************************************************)
EXTENDS ProverNode, TLAPS

----------------------------------------------------------------------------
(* The inductive invariant.                                                *)

\* A thread that is not free has a task.
HasTask == \A n \in Nodes, k \in Slots : ~At(n, k, "free") => thread[n][k].task \in Tasks

\* In v1 a thread goes from the lock to the work, and whoever computes a proof
\* has the mutex.
V1Thread(n, k) ==
    /\ feature = "prover" => thread[n][k].at \in {"free", "try_lock", "work", "done"}
    /\ feature = "prover" /\ At(n, k, "work") /\ Kind(n, k) # "Split" => mutex[n] = k
    /\ At(n, k, "try_lock") => feature = "prover"

V1Threads == \A n \in Nodes, k \in Slots : V1Thread(n, k)

\* The client has one call at a node, and where it has never given one up, every
\* thread works for it.
OneCall ==
    \A n \in Nodes, k \in Slots :
        /\ thread[n][k].heard => ~At(n, k, "free")
        /\ \A j \in Slots : thread[n][j].heard /\ thread[n][k].heard => j = k
        /\ n \notin abandoned /\ ~At(n, k, "free") => thread[n][k].heard

\* SHARD_SIZE is only set between SetVar and RemoveVar of the one thread there is,
\* which reads its own size.
V2Thread(n, k) ==
    /\ thread[n][k].at \in {"set_var", "read_segment", "remove_var"} => SetsShardSize(Kind(n, k))
    /\ At(n, k, "opts") => shard_size[n] = OwnOpts(thread[n][k].task)
    /\ thread[n][k].at \in {"remove_var", "program", "trace", "key"}
          => thread[n][k].opts = OwnOpts(thread[n][k].task)
    /\ At(n, k, "work") /\ feature = "prover_v2"
          => thread[n][k].opts = OwnOpts(thread[n][k].task)

V2Threads == \A n \in Nodes \ abandoned, k \in Slots : V2Thread(n, k)

VarRemoved ==
    \A n \in Nodes \ abandoned :
        shard_size[n] = Default \/ \E k \in Slots : thread[n][k].at \in {"opts", "remove_var"}

IInv == TypeOK /\ HasTask /\ V1Threads /\ OneCall /\ V2Threads /\ VarRemoved

----------------------------------------------------------------------------
(* What one thread's step leaves alone.                                    *)

LEMMA FreeThread == Free \in Thread
  BY DEF Free, Thread, Places, Sizes, Answers

\* on_done! frees the thread or leaves the answer for its client.
LEMMA ReplyThread ==
    ASSUME TypeOK, NEW n \in Nodes, NEW k \in Slots,
           NEW code \in {"Ok", "Busy", "InternalError"}, Reply(n, k, code)
    PROVE  /\ \A m \in Nodes, j \in Slots : m # n \/ j # k => thread'[m][j] = thread[m][j]
           /\ thread' \in [Nodes -> [Slots -> Thread]]
           /\ (thread'[n][k].at = "done" /\ thread[n][k].heard) \/ thread'[n][k].at = "free"
           /\ thread'[n][k].at = "done" => /\ thread'[n][k].task = thread[n][k].task
                                          /\ thread'[n][k].heard
           /\ thread'[n][k].at = "free" => ~thread'[n][k].heard
  <1> DEFINE v == IF thread[n][k].heard
                  THEN [thread[n][k] EXCEPT !.at = "done", !.answer = code] ELSE Free
  <1>1. thread[n][k] \in Thread /\ Free \in Thread
    BY FreeThread DEF TypeOK
  <1>2. thread' = [thread EXCEPT ![n][k] = v]
    BY DEF Reply, TypeOK
  <1>3. CASE thread[n][k].heard
    <2> DEFINE w == [thread[n][k] EXCEPT !.at = "done", !.answer = code]
    <2>1. v = w
      BY <1>3
    <2>2. /\ w \in Thread /\ w.at = "done" /\ w.task = thread[n][k].task
          /\ w.heard = thread[n][k].heard
      BY <1>1 DEF Thread, Places, Answers
    <2> HIDE DEF w, v
    <2>3. QED
      BY <1>2, <1>3, <2>1, <2>2 DEF TypeOK
  <1>4. CASE ~thread[n][k].heard
    <2>1. v = Free
      BY <1>4
    <2>2. Free.at = "free" /\ ~Free.heard
      BY DEF Free
    <2> HIDE DEF v
    <2>3. QED
      BY <1>1, <1>2, <1>4, <2>1, <2>2 DEF TypeOK
  <1>5. QED
    BY <1>3, <1>4

\* A thread that only goes on keeps its task, options and client.
LEMMA GotoThread ==
    ASSUME TypeOK, NEW n \in Nodes, NEW k \in Slots,
           NEW pc \in {"opts", "set_var", "remove_var", "program", "trace", "key", "work", "hung"},
           Goto(n, k, pc)
    PROVE  /\ \A m \in Nodes, j \in Slots : m # n \/ j # k => thread'[m][j] = thread[m][j]
           /\ thread' \in [Nodes -> [Slots -> Thread]]
           /\ thread'[n][k].at = pc /\ thread'[n][k].task = thread[n][k].task
           /\ thread'[n][k].opts = thread[n][k].opts /\ thread'[n][k].heard = thread[n][k].heard
  <1> DEFINE v == [thread[n][k] EXCEPT !.at = pc]
  <1>1. thread[n][k] \in Thread
    BY DEF TypeOK
  <1>2. thread' = [thread EXCEPT ![n][k] = v]
    BY DEF Goto, TypeOK
  <1>3. /\ v \in Thread /\ v.at = pc /\ v.task = thread[n][k].task
        /\ v.opts = thread[n][k].opts /\ v.heard = thread[n][k].heard
    BY <1>1 DEF Thread, Places
  <1> HIDE DEF v
  <1>4. QED
    BY <1>2, <1>3 DEF TypeOK

\* What a step of one thread has to keep of the client's calls.
LEMMA CallKept ==
    ASSUME OneCall, NEW n \in Nodes, NEW k \in Slots,
           \A m \in Nodes, j \in Slots : m # n \/ j # k => thread'[m][j] = thread[m][j],
           abandoned \subseteq abandoned',
           thread'[n][k].heard => thread'[n][k].at # "free",
           thread'[n][k].heard => thread[n][k].heard \/ \A j \in Slots : ~thread[n][j].heard,
           n \notin abandoned' /\ thread'[n][k].at # "free" => thread'[n][k].heard
    PROVE  OneCall'
  <1> SUFFICES ASSUME NEW m \in Nodes, NEW i \in Slots
               PROVE  /\ thread'[m][i].heard => thread'[m][i].at # "free"
                      /\ \A j \in Slots : thread'[m][j].heard /\ thread'[m][i].heard => j = i
                      /\ m \notin abandoned' /\ thread'[m][i].at # "free" => thread'[m][i].heard
    BY DEF OneCall, At
  <1>1. CASE m # n
    BY <1>1 DEF OneCall, At
  <1>2. CASE m = n
    <2>1. ASSUME NEW j \in Slots, thread'[n][j].heard, j # k PROVE ~thread'[n][k].heard
      BY <2>1 DEF OneCall
    <2>2. \A j \in Slots : thread'[n][j].heard /\ thread'[n][i].heard => j = i
      BY <2>1 DEF OneCall
    <2>3. QED
      BY <1>2, <2>2 DEF OneCall, At
  <1>3. QED
    BY <1>1, <1>2

\* A step of thread k on node n keeps the invariant if it does so for that thread:
\* it takes no mutex from another, and where no call was given up there is no
\* other thread on the node.
LEMMA LocalStep ==
    ASSUME IInv, TypeOK', NEW n \in Nodes, NEW k \in Slots,
           \A m \in Nodes, j \in Slots : m # n \/ j # k => thread'[m][j] = thread[m][j],
           feature' = feature, abandoned \subseteq abandoned',
           \A m \in Nodes, j \in Slots : (m # n \/ j # k) /\ mutex[m] = j => mutex'[m] = j,
           \A m \in Nodes : m # n => shard_size'[m] = shard_size[m],
           thread[n][k].at # "free" \/ \A j \in Slots : ~thread[n][j].heard,
           thread'[n][k].at # "free" => thread'[n][k].task \in Tasks,
           thread'[n][k].heard => thread'[n][k].at # "free",
           thread'[n][k].heard => thread[n][k].heard \/ \A j \in Slots : ~thread[n][j].heard,
           n \notin abandoned' /\ thread'[n][k].at # "free" => thread'[n][k].heard,
           V1Thread(n, k)',
           n \notin abandoned' =>
               /\ V2Thread(n, k)'
               /\ shard_size'[n] = Default \/ thread'[n][k].at \in {"opts", "remove_var"}
    PROVE  IInv'
  <1>1. HasTask'
    BY DEF IInv, HasTask, At
  <1>2. V1Threads'
    <2> SUFFICES ASSUME NEW m \in Nodes, NEW j \in Slots, m # n \/ j # k PROVE V1Thread(m, j)'
      BY DEF V1Threads
    <2>1. V1Thread(m, j) /\ thread'[m][j] = thread[m][j] /\ (mutex[m] = j => mutex'[m] = j)
      BY DEF IInv, V1Threads
    <2>2. QED
      BY <2>1 DEF V1Thread, At, Kind
  <1>3. OneCall'
    BY CallKept DEF IInv
  <1>4. V2Threads'
    <2> SUFFICES ASSUME NEW m \in Nodes \ abandoned', NEW j \in Slots, m # n \/ j # k
                 PROVE  V2Thread(m, j)'
      BY DEF V2Threads
    <2>1. V2Thread(m, j) /\ thread'[m][j] = thread[m][j] /\ m \notin abandoned
      BY DEF IInv, V2Threads
    <2>2. CASE m # n
      BY <2>1, <2>2 DEF V2Thread, At, Kind
    <2>3. CASE m = n
      <3>1. thread[m][j].at = "free"
        BY <2>1, <2>3 DEF IInv, OneCall, At
      <3>2. QED
        BY <2>1, <3>1 DEF V2Thread, At
    <2>4. QED
      BY <2>2, <2>3
  <1>5. VarRemoved'
    <2> SUFFICES ASSUME NEW m \in Nodes \ abandoned', m # n
                 PROVE  \/ shard_size'[m] = Default
                        \/ \E j \in Slots : thread'[m][j].at \in {"opts", "remove_var"}
      BY DEF VarRemoved
    <2>1. m \in Nodes \ abandoned /\ \A j \in Slots : thread'[m][j] = thread[m][j]
      OBVIOUS
    <2>2. QED
      BY <2>1 DEF IInv, VarRemoved
  <1>6. QED
    BY <1>1, <1>2, <1>3, <1>4, <1>5 DEF IInv

\* Where no call was given up, SHARD_SIZE is unset unless the one thread is between
\* SetVar and RemoveVar.
LEMMA NoVar ==
    ASSUME IInv, NEW n \in Nodes \ abandoned, NEW k \in Slots,
           thread[n][k].at \notin {"free", "opts", "remove_var"}
    PROVE  shard_size[n] = Default
  <1>1. ASSUME NEW j \in Slots, thread[n][j].at # "free" PROVE j = k
    BY <1>1 DEF IInv, OneCall, At
  <1>2. QED
    BY <1>1 DEF IInv, VarRemoved

\* The thread is free again, or waits with its answer for the response.
LEMMA ReplyStep ==
    ASSUME IInv, NEW n \in Nodes, NEW k \in Slots,
           NEW code \in {"Ok", "Busy", "InternalError"}, Reply(n, k, code),
           thread[n][k].at \notin {"free", "opts", "remove_var"},
           UNCHANGED <<feature, shard_size, abandoned>>,
           poisoned' \subseteq Nodes,
           mutex' \in [Nodes -> Slots \cup {Nobody}],
           program' \in [Nodes -> Slots \cup {Nobody}],
           key' \in [Nodes -> Slots \cup {Nobody}],
           \A m \in Nodes, j \in Slots : (m # n \/ j # k) /\ mutex[m] = j => mutex'[m] = j
    PROVE  IInv'
  <1>1. TypeOK
    BY DEF IInv
  <1>2. /\ \A m \in Nodes, j \in Slots : m # n \/ j # k => thread'[m][j] = thread[m][j]
        /\ thread' \in [Nodes -> [Slots -> Thread]]
        /\ (thread'[n][k].at = "done" /\ thread[n][k].heard) \/ thread'[n][k].at = "free"
        /\ thread'[n][k].at = "done" => /\ thread'[n][k].task = thread[n][k].task
                                        /\ thread'[n][k].heard
        /\ thread'[n][k].at = "free" => ~thread'[n][k].heard
    BY <1>1, ReplyThread
  <1>3. TypeOK'
    BY <1>1, <1>2 DEF TypeOK
  <1>4. thread[n][k].task \in Tasks
    BY DEF IInv, HasTask, At
  <1>5. V1Thread(n, k)' /\ V2Thread(n, k)'
    BY <1>2 DEF V1Thread, V2Thread, At
  <1>6. n \notin abandoned => shard_size[n] = Default
    BY NoVar
  <1>7. QED
    BY <1>2, <1>3, <1>4, <1>5, <1>6, LocalStep

\* Ends gives back what the thread held and nothing else.
LEMMA EndsStep ==
    ASSUME IInv, NEW n \in Nodes, NEW k \in Slots,
           NEW codes \in SUBSET {"Ok", "Busy", "InternalError"}, Ends(n, k, codes),
           thread[n][k].at \notin {"free", "opts", "remove_var"},
           UNCHANGED <<feature, shard_size, abandoned>>, poisoned' \subseteq Nodes
    PROVE  IInv'
  <1>1. PICK code \in codes : Reply(n, k, code)
    BY DEF Ends
  <1>2. /\ mutex' \in [Nodes -> Slots \cup {Nobody}]
        /\ program' \in [Nodes -> Slots \cup {Nobody}]
        /\ key' \in [Nodes -> Slots \cup {Nobody}]
    BY DEF Ends, Unlock, IInv, TypeOK
  <1>3. \A m \in Nodes, j \in Slots : (m # n \/ j # k) /\ mutex[m] = j => mutex'[m] = j
    BY DEF Ends, Unlock, IInv, TypeOK
  <1>4. QED
    BY <1>1, <1>2, <1>3, ReplyStep

\* A thread that goes on: what is left to show of the place it goes to.
LEMMA GotoStep ==
    ASSUME IInv, NEW n \in Nodes, NEW k \in Slots,
           NEW pc \in {"opts", "set_var", "remove_var", "program", "trace", "key", "work", "hung"},
           Goto(n, k, pc), thread[n][k].at # "free",
           UNCHANGED <<feature, poisoned, abandoned>>,
           mutex' \in [Nodes -> Slots \cup {Nobody}],
           program' \in [Nodes -> Slots \cup {Nobody}],
           key' \in [Nodes -> Slots \cup {Nobody}],
           shard_size' \in [Nodes -> Sizes],
           \A m \in Nodes, j \in Slots : (m # n \/ j # k) /\ mutex[m] = j => mutex'[m] = j,
           \A m \in Nodes : m # n => shard_size'[m] = shard_size[m],
           feature = "prover" => pc = "work" /\ mutex'[n] = k,
           n \notin abandoned =>
              /\ pc \in {"set_var", "remove_var"} => SetsShardSize(Kind(n, k))
              /\ pc = "opts" => shard_size'[n] = OwnOpts(thread[n][k].task)
              /\ pc \in {"remove_var", "program", "trace", "key", "work"} /\ feature = "prover_v2"
                    => thread[n][k].opts = OwnOpts(thread[n][k].task)
              /\ shard_size'[n] = Default \/ pc \in {"opts", "remove_var"}
    PROVE  IInv'
  <1>1. TypeOK
    BY DEF IInv
  <1>2. /\ \A m \in Nodes, j \in Slots : m # n \/ j # k => thread'[m][j] = thread[m][j]
        /\ thread' \in [Nodes -> [Slots -> Thread]]
        /\ thread'[n][k].at = pc /\ thread'[n][k].task = thread[n][k].task
        /\ thread'[n][k].opts = thread[n][k].opts /\ thread'[n][k].heard = thread[n][k].heard
    BY <1>1, GotoThread
  <1>3. TypeOK'
    BY <1>1, <1>2 DEF TypeOK
  <1>4. thread[n][k].task \in Tasks /\ (n \notin abandoned => thread[n][k].heard)
    BY DEF IInv, HasTask, OneCall, At
  <1>5. feature \in {"prover", "prover_v2"}
    BY <1>1, NodeAssumption DEF TypeOK
  <1>6. V1Thread(n, k)' /\ (n \notin abandoned => V2Thread(n, k)')
    BY <1>2, <1>5 DEF V1Thread, V2Thread, At, Kind
  <1>7. QED
    BY <1>2, <1>3, <1>4, <1>6, LocalStep

----------------------------------------------------------------------------
(* One lemma per action.                                                   *)

LEMMA ArriveStep ==
    ASSUME IInv, NEW n \in Nodes, NEW k \in Slots, NEW t \in Tasks, Arrive(n, k, t)
    PROVE  IInv'
  <1> DEFINE v == [Free EXCEPT !.at = FirstStep(KindOf(t)), !.task = t, !.heard = TRUE]
  <1>1. FirstStep(KindOf(t)) \in {"work", "try_lock", "read_segment", "set_var", "opts"}
    BY DEF FirstStep
  <1>2. v \in Thread /\ v.at = FirstStep(KindOf(t)) /\ v.task = t /\ v.heard
    BY <1>1, FreeThread DEF Free, Thread, Places
  <1>3. thread' = [thread EXCEPT ![n][k] = v]
    BY DEF Arrive
  <1> HIDE DEF v
  <1>4. /\ \A m \in Nodes, j \in Slots : m # n \/ j # k => thread'[m][j] = thread[m][j]
        /\ thread' \in [Nodes -> [Slots -> Thread]] /\ thread'[n][k] = v
    BY <1>2, <1>3 DEF IInv, TypeOK
  <1>5. UNCHANGED <<feature, mutex, poisoned, program, key, shard_size, abandoned>>
    BY DEF Arrive
  <1>6. At(n, k, "free") /\ \A j \in Slots : ~thread[n][j].heard
    BY DEF Arrive
  <1>7. TypeOK'
    BY <1>4, <1>5 DEF IInv, TypeOK
  <1>8. V1Thread(n, k)'
    BY <1>2, <1>4, <1>5 DEF V1Thread, At, Kind, FirstStep
  <1>9. n \notin abandoned => shard_size[n] = Default
    BY <1>6 DEF IInv, VarRemoved, OneCall, At
  <1>10. n \notin abandoned => V2Thread(n, k)'
    <2>1. /\ v.at \in {"set_var", "read_segment"} => SetsShardSize(KindOf(t))
          /\ v.at = "opts" => ~SetsShardSize(KindOf(t))
          /\ v.at = "work" => feature = "prover"
      BY <1>2 DEF FirstStep, SetsShardSize
    <2>2. QED
      BY <1>1, <1>2, <1>4, <1>5, <1>9, <2>1 DEF V2Thread, At, Kind, OwnOpts
  <1>11. v.at # "free"
    BY <1>1, <1>2
  <1>12. QED
    BY <1>2, <1>4, <1>5, <1>6, <1>7, <1>8, <1>9, <1>10, <1>11, LocalStep

LEMMA RespondStep ==
    ASSUME IInv, NEW n \in Nodes, NEW k \in Slots, Respond(n, k)
    PROVE  IInv'
  <1>1. TypeOK /\ thread[n][k].at = "done"
    BY DEF IInv, Respond, At
  <1>2. Free.at = "free" /\ ~Free.heard
    BY DEF Free
  <1>3. /\ thread' = [thread EXCEPT ![n][k] = Free]
        /\ UNCHANGED <<feature, mutex, poisoned, program, key, shard_size, abandoned>>
    BY DEF Respond
  <1>4. /\ \A m \in Nodes, j \in Slots : m # n \/ j # k => thread'[m][j] = thread[m][j]
        /\ thread' \in [Nodes -> [Slots -> Thread]] /\ thread'[n][k] = Free
    BY <1>1, <1>3, FreeThread DEF TypeOK
  <1>5. TypeOK'
    BY <1>1, <1>3, <1>4 DEF TypeOK
  <1>6. V1Thread(n, k)' /\ V2Thread(n, k)'
    BY <1>2, <1>4 DEF V1Thread, V2Thread, At
  <1>7. n \notin abandoned => shard_size[n] = Default
    BY <1>1, NoVar
  <1>8. QED
    BY <1>1, <1>2, <1>3, <1>4, <1>5, <1>6, <1>7, LocalStep

LEMMA GiveUpStep ==
    ASSUME IInv, NEW n \in Nodes, NEW k \in Slots, GiveUp(n, k)
    PROVE  IInv'
  <1> DEFINE v == [thread[n][k] EXCEPT !.heard = FALSE]
  <1>1. TypeOK /\ thread[n][k] \in Thread /\ thread[n][k].heard
    BY DEF IInv, TypeOK, GiveUp
  <1>2. /\ v \in Thread /\ v.heard = FALSE /\ v.at = thread[n][k].at /\ v.task = thread[n][k].task
    BY <1>1 DEF Thread
  <1>3. /\ thread' = [thread EXCEPT ![n][k] = v]
        /\ abandoned' = abandoned \cup {n}
        /\ UNCHANGED <<feature, mutex, poisoned, program, key, shard_size>>
    BY <1>1 DEF GiveUp, TypeOK
  <1> HIDE DEF v
  <1>4. /\ \A m \in Nodes, j \in Slots : m # n \/ j # k => thread'[m][j] = thread[m][j]
        /\ thread' \in [Nodes -> [Slots -> Thread]] /\ thread'[n][k] = v
    BY <1>1, <1>2, <1>3 DEF TypeOK
  <1>5. TypeOK'
    BY <1>1, <1>3, <1>4 DEF TypeOK
  <1>6. thread[n][k].at # "free" /\ thread[n][k].task \in Tasks
    BY <1>1 DEF IInv, OneCall, HasTask, At
  <1>7. V1Thread(n, k)'
    <2>1. V1Thread(n, k)
      BY DEF IInv, V1Threads
    <2>2. QED
      BY <1>2, <1>3, <1>4, <2>1 DEF V1Thread, At, Kind
  <1>8. n \in abandoned' /\ abandoned \subseteq abandoned'
    BY <1>3
  <1>9. QED
    BY <1>2, <1>3, <1>4, <1>5, <1>6, <1>7, <1>8, LocalStep

LEMMA TryLockStep ==
    ASSUME IInv, NEW n \in Nodes, NEW k \in Slots, TryLock(n, k)
    PROVE  IInv'
  <1>1. TypeOK /\ thread[n][k].at = "try_lock"
    BY DEF IInv, TryLock, At
  <1>2. UNCHANGED <<feature, poisoned, program, key, shard_size, abandoned>>
    BY DEF TryLock
  <1>3. CASE mutex[n] = Nobody /\ n \notin poisoned
    <2>1. Goto(n, k, "work") /\ mutex' = [mutex EXCEPT ![n] = k]
      BY <1>3 DEF TryLock
    <2>2. \A m \in Nodes, j \in Slots : (m # n \/ j # k) /\ mutex[m] = j => mutex'[m] = j
      BY <1>1, <1>3, <2>1 DEF TypeOK, Nobody, Slots
    <2>3. mutex' \in [Nodes -> Slots \cup {Nobody}] /\ mutex'[n] = k
      BY <1>1, <2>1 DEF TypeOK
    <2>4. n \notin abandoned => shard_size[n] = Default
      BY <1>1, NoVar
    <2>5. feature = "prover"
      BY <1>1 DEF IInv, V1Threads, V1Thread, At
    <2>6. QED
      BY <1>1, <1>2, <2>1, <2>2, <2>3, <2>4, <2>5, GotoStep DEF TypeOK
  <1>4. CASE ~(mutex[n] = Nobody /\ n \notin poisoned)
    <2>1. Reply(n, k, "Busy") /\ mutex' = mutex
      BY <1>4 DEF TryLock
    <2>2. QED
      BY <1>1, <1>2, <2>1, ReplyStep DEF TypeOK
  <1>5. QED
    BY <1>3, <1>4

LEMMA ReadSegmentStep ==
    ASSUME IInv, NEW n \in Nodes, NEW k \in Slots, ReadSegment(n, k)
    PROVE  IInv'
  <1>1. TypeOK /\ thread[n][k].at = "read_segment"
    BY DEF IInv, ReadSegment, At
  <1>2. UNCHANGED <<feature, mutex, poisoned, program, key, shard_size, abandoned>>
    BY DEF ReadSegment
  <1>3. n \notin abandoned => shard_size[n] = Default
    BY <1>1, NoVar
  <1>4. feature # "prover" /\ (n \notin abandoned => SetsShardSize(Kind(n, k)))
    BY <1>1 DEF IInv, V1Threads, V1Thread, V2Threads, V2Thread
  <1>5. CASE Goto(n, k, "set_var")
    BY <1>1, <1>2, <1>3, <1>4, <1>5, GotoStep DEF TypeOK
  <1>6. CASE Reply(n, k, "InternalError")
    BY <1>1, <1>2, <1>6, ReplyStep DEF TypeOK
  <1>7. QED
    BY <1>5, <1>6 DEF ReadSegment

LEMMA SetVarStep ==
    ASSUME IInv, NEW n \in Nodes, NEW k \in Slots, SetVar(n, k)
    PROVE  IInv'
  <1> DEFINE size == SizeOf(thread[n][k].task)
  <1>1. TypeOK /\ thread[n][k].at = "set_var"
    BY DEF IInv, SetVar, At
  <1>2. /\ UNCHANGED <<feature, mutex, poisoned, program, key, abandoned>> /\ Goto(n, k, "opts")
        /\ shard_size' = [shard_size EXCEPT ![n] = size]
    BY DEF SetVar
  <1>3. size \in Sizes
    BY <1>1 DEF IInv, HasTask, At, Sizes
  <1>4. feature # "prover" /\ (n \notin abandoned => SetsShardSize(Kind(n, k)))
    BY <1>1 DEF IInv, V1Threads, V1Thread, V2Threads, V2Thread
  <1>5. /\ shard_size' \in [Nodes -> Sizes] /\ shard_size'[n] = size
        /\ \A m \in Nodes : m # n => shard_size'[m] = shard_size[m]
    BY <1>1, <1>2, <1>3 DEF TypeOK
  <1>6. n \notin abandoned => shard_size'[n] = OwnOpts(thread[n][k].task)
    BY <1>4, <1>5 DEF OwnOpts, Kind
  <1>7. QED
    BY <1>1, <1>2, <1>4, <1>5, <1>6, GotoStep DEF TypeOK

LEMMA ReadOptsStep ==
    ASSUME IInv, NEW n \in Nodes, NEW k \in Slots, ReadOpts(n, k)
    PROVE  IInv'
  <1> DEFINE pc == IF SetsShardSize(Kind(n, k)) THEN "remove_var" ELSE "work"
             v  == [thread[n][k] EXCEPT !.opts = shard_size[n], !.at = pc]
  <1>1. TypeOK /\ thread[n][k].at = "opts" /\ thread[n][k] \in Thread /\ shard_size[n] \in Sizes
    BY DEF IInv, TypeOK, ReadOpts, At
  <1>2. /\ v \in Thread /\ v.at = pc /\ v.task = thread[n][k].task
        /\ v.opts = shard_size[n] /\ v.heard = thread[n][k].heard
    BY <1>1 DEF Thread, Places
  <1>3. /\ thread' = [thread EXCEPT ![n][k] = v]
        /\ UNCHANGED <<feature, mutex, poisoned, program, key, shard_size, abandoned>>
    BY <1>1 DEF ReadOpts, TypeOK
  <1> HIDE DEF v
  <1>4. /\ \A m \in Nodes, j \in Slots : m # n \/ j # k => thread'[m][j] = thread[m][j]
        /\ thread' \in [Nodes -> [Slots -> Thread]] /\ thread'[n][k] = v
    BY <1>1, <1>2, <1>3 DEF TypeOK
  <1>5. TypeOK'
    BY <1>1, <1>3, <1>4 DEF TypeOK
  <1>6. /\ feature # "prover" /\ thread[n][k].task \in Tasks
        /\ n \notin abandoned =>
              shard_size[n] = OwnOpts(thread[n][k].task) /\ thread[n][k].heard
    BY <1>1 DEF IInv, V1Threads, V1Thread, V2Threads, V2Thread, HasTask, OneCall, At
  <1>7. V1Thread(n, k)' /\ (n \notin abandoned => V2Thread(n, k)')
    BY <1>2, <1>3, <1>4, <1>6 DEF V1Thread, V2Thread, At, Kind
  <1>8. n \notin abandoned => shard_size[n] = Default \/ v.at = "remove_var"
    BY <1>2, <1>6 DEF OwnOpts, Kind
  <1>9. QED
    BY <1>1, <1>2, <1>3, <1>4, <1>5, <1>6, <1>7, <1>8, LocalStep

LEMMA RemoveVarStep ==
    ASSUME IInv, NEW n \in Nodes, NEW k \in Slots, RemoveVar(n, k)
    PROVE  IInv'
  <1>1. TypeOK /\ thread[n][k].at = "remove_var"
    BY DEF IInv, RemoveVar, At
  <1>2. /\ UNCHANGED <<feature, mutex, poisoned, program, key, abandoned>>
        /\ shard_size' = [shard_size EXCEPT ![n] = Default]
        /\ Goto(n, k, "program") \/ Goto(n, k, "key")
    BY DEF RemoveVar, NextLock
  <1>3. /\ shard_size' \in [Nodes -> Sizes] /\ shard_size'[n] = Default
        /\ \A m \in Nodes : m # n => shard_size'[m] = shard_size[m]
    BY <1>1, <1>2 DEF TypeOK, Sizes
  <1>4. feature # "prover" /\ (n \notin abandoned => thread[n][k].opts = OwnOpts(thread[n][k].task))
    BY <1>1 DEF IInv, V1Threads, V1Thread, V2Threads, V2Thread
  <1>5. QED
    BY <1>1, <1>2, <1>3, <1>4, GotoStep DEF TypeOK

\* The caches: who takes or gives back one keeps its options.
LEMMA CacheStep ==
    ASSUME IInv, NEW n \in Nodes, NEW k \in Slots,
           LockProgram(n, k) \/ TraceCheckpoint(n, k) \/ LockKey(n, k)
    PROVE  IInv'
  <1>1. TypeOK /\ thread[n][k].at \in {"program", "trace", "key"}
    BY DEF IInv, LockProgram, TraceCheckpoint, LockKey, At
  <1>2. /\ UNCHANGED <<feature, mutex, poisoned, shard_size, abandoned>>
        /\ program' \in [Nodes -> Slots \cup {Nobody}] /\ key' \in [Nodes -> Slots \cup {Nobody}]
    BY <1>1 DEF LockProgram, TraceCheckpoint, LockKey, TypeOK
  <1>3. \E pc \in {"trace", "key", "work"} : Goto(n, k, pc)
    BY DEF LockProgram, TraceCheckpoint, LockKey, NextLock
  <1>4. n \notin abandoned => shard_size[n] = Default
    BY <1>1, NoVar
  <1>5. feature # "prover" /\ (n \notin abandoned => thread[n][k].opts = OwnOpts(thread[n][k].task))
    BY <1>1 DEF IInv, V1Threads, V1Thread, V2Threads, V2Thread
  <1>6. QED
    BY <1>1, <1>2, <1>3, <1>4, <1>5, GotoStep DEF TypeOK

LEMMA EndSteps ==
    ASSUME IInv, NEW n \in Nodes, NEW k \in Slots,
           Work(n, k) \/ LoadFails(n, k) \/ Panic(n, k)
    PROVE  IInv'
  <1>1. TypeOK /\ thread[n][k].at \in {"program", "trace", "key", "work"}
    BY DEF IInv, Work, LoadFails, Panic, At
  <1>2. UNCHANGED <<feature, shard_size, abandoned>> /\ poisoned' \subseteq Nodes
    BY <1>1 DEF Work, LoadFails, Panic, TypeOK
  <1>3. Codes(Kind(n, k)) \in SUBSET {"Ok", "Busy", "InternalError"}
    BY DEF Codes
  <1>4. \E codes \in SUBSET {"Ok", "Busy", "InternalError"} : Ends(n, k, codes)
    BY <1>3 DEF Work, LoadFails, Panic
  <1>5. QED
    BY <1>1, <1>2, <1>4, EndsStep

LEMMA HangStep ==
    ASSUME IInv, NEW n \in Nodes, NEW k \in Slots, Hang(n, k)
    PROVE  IInv'
  <1>1. TypeOK /\ thread[n][k].at = "work" /\ feature = "prover_v2" /\ Goto(n, k, "hung")
    BY DEF IInv, Hang, At
  <1>2. UNCHANGED <<feature, mutex, poisoned, program, key, shard_size, abandoned>>
    BY DEF Hang
  <1>3. n \notin abandoned => shard_size[n] = Default
    BY <1>1, NoVar
  <1>4. QED
    BY <1>1, <1>2, <1>3, GotoStep DEF TypeOK

----------------------------------------------------------------------------
(* The invariant and what it gives.                                        *)

LEMMA InitInv == Init => IInv
  <1> SUFFICES ASSUME Init PROVE IInv
    OBVIOUS
  <1>1. Free.at = "free" /\ ~Free.heard
    BY DEF Free
  <1>2. TypeOK
    BY FreeThread DEF Init, TypeOK, Sizes
  <1>3. \A n \in Nodes : shard_size[n] = Default /\ \A k \in Slots : thread[n][k] = Free
    BY DEF Init
  <1>4. QED
    BY <1>1, <1>2, <1>3
       DEF IInv, HasTask, V1Threads, V1Thread, OneCall, V2Threads, V2Thread, VarRemoved, At

LEMMA StepInv == IInv /\ [Next]_vars => IInv'
  <1> SUFFICES ASSUME IInv, [Next]_vars PROVE IInv'
    OBVIOUS
  <1>1. ASSUME NEW n \in Nodes, NEW k \in Slots,
               \/ \E t \in Tasks : Arrive(n, k, t)
               \/ Respond(n, k) \/ GiveUp(n, k)
               \/ ThreadRuns(n, k) \/ ThreadLocks(n, k) \/ ThreadFails(n, k)
        PROVE  IInv'
    <2>1. CASE \E t \in Tasks : Arrive(n, k, t)
      BY <2>1, ArriveStep
    <2>2. CASE Respond(n, k) \/ GiveUp(n, k)
      BY <2>2, RespondStep, GiveUpStep
    <2>3. CASE ThreadRuns(n, k)
      <3>1. CASE TryLock(n, k) \/ ReadSegment(n, k) \/ SetVar(n, k)
        BY <3>1, TryLockStep, ReadSegmentStep, SetVarStep
      <3>2. CASE ReadOpts(n, k) \/ RemoveVar(n, k)
        BY <3>2, ReadOptsStep, RemoveVarStep
      <3>3. CASE TraceCheckpoint(n, k) \/ Work(n, k)
        BY <3>3, CacheStep, EndSteps
      <3>4. QED
        BY <2>3, <3>1, <3>2, <3>3 DEF ThreadRuns
    <2>4. CASE ThreadLocks(n, k)
      BY <2>4, CacheStep DEF ThreadLocks
    <2>5. CASE ThreadFails(n, k)
      BY <2>5, EndSteps, HangStep DEF ThreadFails
    <2>6. QED
      BY <1>1, <2>1, <2>2, <2>3, <2>4, <2>5
  <1>2. CASE UNCHANGED vars
    <2>1. TypeOK' /\ HasTask' /\ OneCall'
      BY <1>2 DEF IInv, TypeOK, HasTask, OneCall, At, vars
    <2>2. V1Threads'
      BY <1>2 DEF IInv, V1Threads, V1Thread, At, Kind, vars
    <2>3. V2Threads'
      BY <1>2 DEF IInv, V2Threads, V2Thread, At, Kind, vars
    <2>4. VarRemoved'
      BY <1>2 DEF IInv, VarRemoved, vars
    <2>5. QED
      BY <2>1, <2>2, <2>3, <2>4 DEF IInv
  <1>3. QED
    BY <1>1, <1>2 DEF Next

LEMMA Invariance == Spec => []IInv
  BY InitInv, StepInv, PTL DEF Spec

\* The threads, the locks and the environment of a node keep their types; a reply
\* is one of the codes on_done! knows.
THEOREM TypeCorrect == Spec => []TypeOK
  <1>1. IInv => TypeOK
    BY DEF IInv
  <1>2. QED
    BY Invariance, <1>1, PTL

\* A v1 node computes at most one proof at a time, however many calls were given
\* up on it, after errors and panics too.
THEOREM OneProofAtATime == Spec => []OneProofPerNode
  <1>1. IInv => OneProofPerNode
    BY DEF IInv, V1Threads, V1Thread, OneProofPerNode
  <1>2. QED
    BY Invariance, <1>1, PTL

\* A v2 task is computed with the shard size of its own job wherever no call was
\* given up, although the size goes through the environment of the process.
THEOREM ShardSizeIsOwn == Spec => []OwnShardSize
  <1>1. IInv => OwnShardSize
    BY DEF IInv, V2Threads, V2Thread, OwnShardSize, At
  <1>2. QED
    BY Invariance, <1>1, PTL

----------------------------------------------------------------------------
(* No circular wait for the caches of v2.                                  *)

\* Thread k waits for a cache that thread j has.
WaitsFor(n, k, j) ==
    \/ At(n, k, "program") /\ program[n] = j
    \/ At(n, k, "key") /\ key[n] = j

\* The conditions under which a thread can take a step of its own.
ThreadCan(n, k) ==
    \/ thread[n][k].at \in {"try_lock", "read_segment", "set_var", "opts", "remove_var", "trace", "work"}
    \/ At(n, k, "program") /\ program[n] = Nobody
    \/ At(n, k, "key") /\ key[n] = Nobody

\* ... or it is a split that hangs.
CanOrHangs(n, k) == ThreadCan(n, k) \/ At(n, k, "hung")

\* Whoever is at work on a request can go on, or waits for somebody who can, or for
\* one who waits for KEY_CACHE and whose turn comes with the end of a work.
CachesComeBack ==
    \A n \in Nodes, k \in Slots :
        \/ thread[n][k].at \in {"free", "done"}
        \/ CanOrHangs(n, k)
        \/ \E j \in Slots : WaitsFor(n, k, j) /\ CanOrHangs(n, j)
        \/ \E i, j \in Slots : WaitsFor(n, k, j) /\ WaitsFor(n, j, i) /\ CanOrHangs(n, i)

\* PROGRAM_CACHE is taken first and KEY_CACHE last.
Holder(n, k) ==
    /\ program[n] = k => thread[n][k].at \in {"trace", "key", "work", "hung"}
    /\ key[n] = k => thread[n][k].at \in {"work", "hung"}

Holders == \A n \in Nodes, k \in Slots : Holder(n, k)

\* What thread k does with the caches of node n.
CacheMove(n, k) ==
    LET from == thread[n][k].at
        to   == thread'[n][k].at
    IN  \/ UNCHANGED <<program, key>> /\ (from \in {"trace", "key", "work", "hung"} =>
                                             to = from \/ (from = "work" /\ to = "hung"))
        \/ program' = [program EXCEPT ![n] = k] /\ UNCHANGED key /\ from = "program" /\ to \in {"trace", "key"}
        \/ program' = [program EXCEPT ![n] = Nobody] /\ UNCHANGED key /\ from = "trace" /\ to = "key"
        \/ key' = [key EXCEPT ![n] = k] /\ UNCHANGED program /\ from = "key" /\ to = "work"
        \/ program' = Unlock(program, n, k) /\ key' = Unlock(key, n, k)

OthersStay(n, k) == \A m \in Nodes, j \in Slots : m # n \/ j # k => thread'[m][j] = thread[m][j]

\* A step that leaves the caches alone is one of a thread that has none, or only
\* changes what the client knows of it.
LEMMA MovesWithoutCache ==
    ASSUME TypeOK, NEW n \in Nodes, NEW k \in Slots,
           \/ \E t \in Tasks : Arrive(n, k, t)
           \/ Respond(n, k) \/ GiveUp(n, k) \/ TryLock(n, k) \/ ReadSegment(n, k)
           \/ SetVar(n, k) \/ ReadOpts(n, k) \/ RemoveVar(n, k) \/ Hang(n, k)
    PROVE  OthersStay(n, k) /\ CacheMove(n, k)
  <1> DEFINE Changes(v) == thread' = [thread EXCEPT ![n][k] = v]
  <1>1. ASSUME NEW v, Changes(v)
        PROVE  OthersStay(n, k) /\ thread'[n][k] = v
    BY <1>1 DEF OthersStay, TypeOK
  <1>2. UNCHANGED <<program, key>>
    BY DEF Arrive, Respond, GiveUp, TryLock, ReadSegment, SetVar, ReadOpts, RemoveVar, Hang
  <1>3. \E v : Changes(v)
    <2>1. CASE (\E t \in Tasks : Arrive(n, k, t)) \/ Respond(n, k)
      BY <2>1 DEF Arrive, Respond
    <2>2. CASE GiveUp(n, k)
      <3>1. Changes([thread[n][k] EXCEPT !.heard = FALSE])
        BY <2>2 DEF GiveUp, TypeOK
      <3>2. QED
        BY <3>1
    <2>3. CASE ReadOpts(n, k)
      <3>1. Changes([thread[n][k] EXCEPT !.opts = shard_size[n],
                            !.at = IF SetsShardSize(Kind(n, k)) THEN "remove_var" ELSE "work"])
        BY <2>3 DEF ReadOpts, TypeOK, Thread
      <3>2. QED
        BY <3>1
    <2>4. ASSUME NEW pc, Goto(n, k, pc)
          PROVE  \E v : Changes(v)
      <3>1. Changes([thread[n][k] EXCEPT !.at = pc])
        BY <2>4 DEF Goto, TypeOK
      <3>2. QED
        BY <3>1
    <2>5. ASSUME NEW code, Reply(n, k, code)
          PROVE  \E v : Changes(v)
      <3>1. Changes(IF thread[n][k].heard THEN [thread[n][k] EXCEPT !.at = "done", !.answer = code]
                    ELSE Free)
        BY <2>5 DEF Reply, TypeOK
      <3>2. QED
        BY <3>1
    <2>6. CASE TryLock(n, k) \/ ReadSegment(n, k) \/ SetVar(n, k) \/ RemoveVar(n, k) \/ Hang(n, k)
      BY <2>4, <2>5, <2>6 DEF TryLock, ReadSegment, SetVar, RemoveVar, Hang
    <2>7. QED
      BY <2>1, <2>2, <2>3, <2>6
  <1>4. OthersStay(n, k)
    BY <1>1, <1>3
  <1>5. \/ thread[n][k].at \in {"free", "done", "try_lock", "read_segment", "set_var", "opts", "remove_var"}
        \/ GiveUp(n, k)
        \/ Hang(n, k)
    BY DEF Arrive, Respond, TryLock, ReadSegment, SetVar, ReadOpts, RemoveVar, At
  <1>6. ASSUME GiveUp(n, k) PROVE thread'[n][k].at = thread[n][k].at
    <2>1. thread'[n][k] = [thread[n][k] EXCEPT !.heard = FALSE] /\ thread[n][k] \in Thread
      BY <1>6 DEF GiveUp, TypeOK
    <2>2. QED
      BY <2>1 DEF Thread
  <1>7. ASSUME Hang(n, k) PROVE thread[n][k].at = "work" /\ thread'[n][k].at = "hung"
    BY <1>7, GotoThread DEF Hang, At
  <1>8. QED
    BY <1>2, <1>4, <1>5, <1>6, <1>7 DEF CacheMove

\* Taking a cache, giving back PROGRAM_CACHE, and the end of the work, of which the
\* guards are dropped.
LEMMA MovesWithCache ==
    ASSUME TypeOK, NEW n \in Nodes, NEW k \in Slots,
           \/ LockProgram(n, k) \/ TraceCheckpoint(n, k) \/ LockKey(n, k)
           \/ Work(n, k) \/ LoadFails(n, k) \/ Panic(n, k)
    PROVE  OthersStay(n, k) /\ CacheMove(n, k)
  <1>1. CASE LockProgram(n, k) \/ TraceCheckpoint(n, k) \/ LockKey(n, k)
    <2>1. ASSUME NEW pc \in {"trace", "key", "work"}, Goto(n, k, pc)
          PROVE  OthersStay(n, k) /\ thread'[n][k].at = pc
      BY <2>1, GotoThread DEF OthersStay
    <2>2. \/ LockProgram(n, k) /\ \E pc \in {"trace", "key"} : Goto(n, k, pc)
          \/ TraceCheckpoint(n, k) /\ Goto(n, k, "key")
          \/ LockKey(n, k) /\ Goto(n, k, "work")
      BY <1>1 DEF LockProgram, TraceCheckpoint, LockKey, NextLock
    <2>3. QED
      BY <2>1, <2>2 DEF CacheMove, LockProgram, TraceCheckpoint, LockKey, At
  <1>2. CASE Work(n, k) \/ LoadFails(n, k) \/ Panic(n, k)
    <2>1. PICK codes \in SUBSET {"Ok", "Busy", "InternalError"} : Ends(n, k, codes)
      BY <1>2 DEF Work, LoadFails, Panic, Codes
    <2>2. OthersStay(n, k)
      BY <2>1, ReplyThread DEF Ends, OthersStay
    <2>3. QED
      BY <2>1, <2>2 DEF Ends, CacheMove
  <1>3. QED
    BY <1>1, <1>2

LEMMA HoldersKept ==
    ASSUME TypeOK, Holders, NEW n \in Nodes, NEW k \in Slots, OthersStay(n, k), CacheMove(n, k)
    PROVE  Holders'
  <1>1. k # Nobody /\ \A j \in Slots : j # Nobody
    BY NodeAssumption DEF Slots, Nobody
  <1>2. \A m \in Nodes, j \in Slots :
           m # n \/ j # k => (program'[m] = j => program[m] = j) /\ (key'[m] = j => key[m] = j)
    BY <1>1 DEF CacheMove, Unlock, TypeOK
  <1>3. Holder(n, k)'
    <2>1. /\ program[n] = k => thread[n][k].at \in {"trace", "key", "work", "hung"}
          /\ key[n] = k => thread[n][k].at \in {"work", "hung"}
      BY DEF Holders, Holder
    <2>2. CASE program' = Unlock(program, n, k) /\ key' = Unlock(key, n, k)
      BY <1>1, <2>2 DEF Unlock, TypeOK, Holder
    <2>3. CASE ~(program' = Unlock(program, n, k) /\ key' = Unlock(key, n, k))
      BY <1>1, <2>1, <2>3 DEF CacheMove, TypeOK, Holder
    <2>4. QED
      BY <2>2, <2>3
  <1>4. ASSUME NEW m \in Nodes, NEW j \in Slots, m # n \/ j # k
        PROVE  Holder(m, j)'
    BY <1>2, <1>4 DEF Holders, Holder, OthersStay
  <1>5. QED
    BY <1>3, <1>4 DEF Holders

LEMMA HoldersStep ==
    ASSUME TypeOK, Holders, [Next]_vars
    PROVE  Holders'
  <1>1. ASSUME NEW n \in Nodes, NEW k \in Slots,
               \/ \E t \in Tasks : Arrive(n, k, t)
               \/ Respond(n, k) \/ GiveUp(n, k)
               \/ ThreadRuns(n, k) \/ ThreadLocks(n, k) \/ ThreadFails(n, k)
        PROVE  Holders'
    <2>1. OthersStay(n, k) /\ CacheMove(n, k)
      BY <1>1, MovesWithoutCache, MovesWithCache DEF ThreadRuns, ThreadLocks, ThreadFails
    <2>2. QED
      BY <2>1, HoldersKept
  <1>2. CASE UNCHANGED vars
    BY <1>2 DEF vars, Holders, Holder
  <1>3. QED
    BY <1>1, <1>2 DEF Next

\* However many threads of given-up calls run beside each other on a v2 node, no two
\* wait for each other's cache: a split, a single node and a root proof all take
\* PROGRAM_CACHE before KEY_CACHE, none takes one back, and whoever has KEY_CACHE is
\* at work.  So every thread at work can go on, or stands at most two threads behind
\* one that can, or behind a split that hangs.  This is the safety half of
\* NodeAnswers.
THEOREM NoCircularWait == Spec => []CachesComeBack
  <1>1. Init => Holders
    <2>1. \A j \in Slots : j # Nobody
      BY NodeAssumption DEF Slots, Nobody
    <2>2. QED
      BY <2>1 DEF Init, Holders, Holder
  <1>2. IInv /\ Holders /\ [Next]_vars => Holders'
    BY HoldersStep DEF IInv
  <1>3. ASSUME IInv, Holders PROVE CachesComeBack
    <2> SUFFICES ASSUME NEW n \in Nodes, NEW k \in Slots,
                        thread[n][k].at \notin {"free", "done"}, ~CanOrHangs(n, k)
                 PROVE  \/ \E j \in Slots : WaitsFor(n, k, j) /\ CanOrHangs(n, j)
                        \/ \E i, j \in Slots :
                              WaitsFor(n, k, j) /\ WaitsFor(n, j, i) /\ CanOrHangs(n, i)
      BY DEF CachesComeBack
    <2>1. /\ thread[n][k].at \in Places
          /\ program[n] \in Slots \cup {Nobody} /\ key[n] \in Slots \cup {Nobody}
      BY <1>3 DEF IInv, TypeOK, Thread
    <2>2. \/ At(n, k, "program") /\ program[n] \in Slots
          \/ At(n, k, "key") /\ key[n] \in Slots
      BY <2>1 DEF CanOrHangs, ThreadCan, Places, At
    <2>3. key[n] \in Slots => CanOrHangs(n, key[n])
      BY <1>3 DEF Holders, Holder, CanOrHangs, ThreadCan, At
    <2>4. CASE At(n, k, "key") /\ key[n] \in Slots
      BY <2>3, <2>4 DEF WaitsFor
    <2>5. CASE At(n, k, "program") /\ program[n] \in Slots
      <3>1. WaitsFor(n, k, program[n])
        BY <2>5 DEF WaitsFor
      <3>2. CanOrHangs(n, program[n]) \/ (At(n, program[n], "key") /\ key[n] \in Slots)
        BY <1>3, <2>1, <2>5 DEF Holders, Holder, CanOrHangs, ThreadCan, At
      <3>3. QED
        BY <2>3, <2>5, <3>1, <3>2 DEF WaitsFor
    <2>6. QED
      BY <2>2, <2>4, <2>5
  <1>4. QED
    BY Invariance, <1>1, <1>2, <1>3, PTL DEF Spec
=============================================================================
