------------------------- MODULE TaskLifecycleProofs -------------------------
(***************************************************************************)
(* Proofs about TaskLifecycle, for any set of proofs, requests and         *)
(* programs, any capacity of the channel and any number of permits, ticks  *)
(* and crashes.                                                            *)
(***************************************************************************)
EXTENDS TaskLifecycle, FiniteSetTheorems, SequenceTheorems, TLAPS

----------------------------------------------------------------------------
(* The inductive invariant.                                                *)

Busy(s) == slot[s].at # "free"
Sending(r) == handler[r] = "inserted"

\* A proof has one custodian while its row is Computing: the handler that has
\* inserted it and not yet sent it, a place in the channel, the hand of
\* process_tasks or a permit.
OneCustodian ==
    /\ \A r, q \in Requests : Sending(r) /\ Sending(q) /\ IdOf(r) = IdOf(q) => r = q
    /\ \A i, j \in DOMAIN queue : queue[i].id = queue[j].id => i = j
    /\ \A s, t \in Slots : Busy(s) /\ Busy(t) /\ Id(s) = Id(t) => s = t
    /\ \A r \in Requests, i \in DOMAIN queue : Sending(r) => IdOf(r) # queue[i].id
    /\ \A r \in Requests, h \in DOMAIN hand : Sending(r) => IdOf(r) # hand[h].id
    /\ \A r \in Requests, s \in Slots : Sending(r) /\ Busy(s) => IdOf(r) # Id(s)
    /\ \A i \in DOMAIN queue, h \in DOMAIN hand : queue[i].id # hand[h].id
    /\ \A i \in DOMAIN queue, s \in Slots : Busy(s) => queue[i].id # Id(s)
    /\ \A h \in DOMAIN hand, s \in Slots : Busy(s) => hand[h].id # Id(s)

IsComputing(p) == row[p].status = "Computing"

HeldIsComputing ==
    /\ \A r \in Requests : Sending(r) => IsComputing(IdOf(r))
    /\ \A i \in DOMAIN queue : IsComputing(queue[i].id)
    /\ \A h \in DOMAIN hand : IsComputing(hand[h].id)
    /\ \A s \in Slots : Busy(s) => IsComputing(Id(s))

\* A server that is down holds nothing.
DownIsEmpty ==
    ~up => /\ queue = <<>> /\ hand = <<>> /\ \A s \in Slots : ~Busy(s)
           /\ \A r \in Requests : ~Sending(r)

IInv == TypeOK /\ OneCustodian /\ HeldIsComputing /\ DownIsEmpty

\* Torn files have somebody to blame, and whoever relies on a file has seen it.
FilesInv ==
    /\ \A e \in Programs : elf[e] = "torn" =>
          \E w \in Requests : ElfOf(w) = e /\ handler[w] \in {"writing_elf", "torn_elf"}
    /\ \A p \in Proofs : inputs[p] = "torn" =>
          \E w \in Requests : IdOf(w) = p /\ handler[w] \in {"writing", "torn"}
    /\ \A r \in Requests :
          /\ handler[r] \in {"has_elf", "writing", "stored", "inserted", "accepted"}
                => elf[ElfOf(r)] # "none"
          /\ handler[r] = "stored" => inputs[IdOf(r)] # "none"
    /\ \A p \in Proofs : row[p].status # "Absent" => inputs[p] # "none"

\* What the holder of a proof knows of its row, while every update succeeds.
Knows(t) == row[t.id].check_at = t.check_at /\ row[t.id].step = t.step

RowsKnown ==
    /\ \A p \in Proofs : row[p].status = "Absent" => row[p] = NoRow
    /\ \A r \in Requests : Sending(r) => row[IdOf(r)].check_at = 0 /\ row[IdOf(r)].step = "Init"
    /\ \A i \in DOMAIN queue : Knows(queue[i])
    /\ \A h \in DOMAIN hand : Knows(hand[h])
    /\ \A s \in Slots : /\ slot[s].at \in {"begin", "record"} => Knows(slot[s].task)
                        /\ slot[s].at = "run" => row[Id(s)].check_at = slot[s].task.check_at

\* Before the first crash every task in memory is as its request made it.
FirstLife ==
    crashes = 0 => /\ \A i \in DOMAIN queue : queue[i].step = "Init"
                   /\ \A h \in DOMAIN hand : hand[h].step = "Init"
                   /\ \A s \in Slots : slot[s].at = "begin" => slot[s].task.step = "Init"
                   /\ up

\* A stored row has a request that stored it.
Asked ==
    \A p \in Proofs : row[p].status # "Absent" =>
        \E r \in Requests : IdOf(r) = p /\ handler[r] \in {"inserted", "accepted", "gone"}

----------------------------------------------------------------------------
(* Lemmas about runs, rows and the channel.                                *)

LEMMA BusyRun ==
    ASSUME TypeOK, NEW s \in Slots
    PROVE  /\ Busy(s) => /\ slot[s] \in RunType /\ slot[s].task \in TaskType /\ Id(s) \in Proofs
                         /\ slot[s].now \in 0..clock /\ slot[s].task.check_at \in 0..clock
           /\ ~Busy(s) => slot[s] = Free
  <1>1. slot[s] = Free \/ slot[s] \in RunType
    BY DEF TypeOK
  <1>2. Free.at = "free"
    BY DEF Free
  <1>3. slot[s] \in RunType => /\ slot[s].at # "free" /\ slot[s].task \in TaskType
                               /\ slot[s].task.id \in Proofs
                               /\ slot[s].now \in 0..clock /\ slot[s].task.check_at \in 0..clock
    BY DEF RunType, TaskType
  <1>4. QED
    BY <1>1, <1>2, <1>3 DEF Busy, Id

\* update_stage_task_check_at touches one row, and neither its id nor its status.
LEMMA CheckAtRow ==
    ASSUME TypeOK, NEW p \in Proofs, NEW old, NEW new \in 0..clock, NEW step \in Step,
           row' = UpdateCheckAt(p, old, new, step), clock' = clock
    PROVE  /\ row' \in [Proofs -> Row]'
           /\ \A q \in Proofs : row'[q].status = row[q].status
           /\ \A q \in Proofs : q # p => row'[q] = row[q]
           /\ row[p].check_at = old => row'[p].check_at = new /\ row'[p].step = step
           /\ row'[p].step \in {row[p].step, step}
  BY DEF UpdateCheckAt, CheckAtHits, TypeOK, Row

LEMMA StatusRow ==
    ASSUME TypeOK, NEW p \in Proofs, NEW status \in Final,
           row' = UpdateStatus(p, status), clock' = clock
    PROVE  /\ row' \in [Proofs -> Row]'
           /\ \A q \in Proofs : q # p => row'[q] = row[q]
           /\ row'[p].status = status
           /\ row'[p].step = row[p].step /\ row'[p].check_at = row[p].check_at
  BY DEF UpdateStatus, TypeOK, Row, Final

\* The ids of whatever is held are proofs.
LEMMA HeldIds ==
    ASSUME TypeOK
    PROVE  /\ \A i \in DOMAIN queue : queue[i] \in TaskType /\ queue[i].id \in Proofs
           /\ \A h \in DOMAIN hand : hand[h] \in TaskType /\ hand[h].id \in Proofs
           /\ \A s \in Slots : Busy(s) => Id(s) \in Proofs
           /\ \A r \in Requests : IdOf(r) \in Proofs /\ ElfOf(r) \in Programs
  <1>1. /\ DOMAIN queue = 1..Len(queue) /\ \A i \in 1..Len(queue) : queue[i] \in TaskType
        /\ DOMAIN hand = 1..Len(hand) /\ \A h \in 1..Len(hand) : hand[h] \in TaskType
    BY DEF TypeOK
  <1>2. \A t \in TaskType : t.id \in Proofs
    BY DEF TaskType
  <1>3. QED
    BY <1>1, <1>2, BusyRun, LifecycleAssumption

\* Steps of generate_proof that insert nothing.
LEMMA HandlerKept ==
    ASSUME IInv, UNCHANGED <<row, queue, hand, slot, up>>,
           \A q \in Requests : Sending(q)' => Sending(q)
    PROVE  OneCustodian' /\ HeldIsComputing' /\ DownIsEmpty'
  <1>1. OneCustodian'
    BY DEF IInv, OneCustodian, Busy, Id
  <1>2. HeldIsComputing' /\ DownIsEmpty'
    BY DEF IInv, HeldIsComputing, DownIsEmpty, Busy, Id, IsComputing
  <1>3. QED
    BY <1>1, <1>2

\* A step of the run under permit s: it changes the status of its own row at most,
\* and only when it gives the permit back.
LEMMA RunKept ==
    ASSUME IInv, UNCHANGED <<handler, queue, hand, up>>, NEW s \in Slots, Busy(s),
           \A t \in Slots : Busy(t)' => Busy(t) /\ Id(t)' = Id(t),
           \A q \in Proofs : q # Id(s) => row'[q].status = row[q].status,
           Busy(s)' => row'[Id(s)].status = row[Id(s)].status
    PROVE  OneCustodian' /\ HeldIsComputing' /\ DownIsEmpty'
  <1>1. OneCustodian'
    BY DEF IInv, OneCustodian, Sending
  <1>2. HeldIsComputing'
    <2>1. \A r \in Requests : Sending(r) => IdOf(r) # Id(s) /\ IdOf(r) \in Proofs
      BY HeldIds DEF IInv, OneCustodian
    <2>2. \A i \in DOMAIN queue : queue[i].id # Id(s) /\ queue[i].id \in Proofs
      BY HeldIds DEF IInv, OneCustodian
    <2>3. \A h \in DOMAIN hand : hand[h].id # Id(s) /\ hand[h].id \in Proofs
      BY HeldIds DEF IInv, OneCustodian
    <2>4. \A t \in Slots : Busy(t) => Id(t) \in Proofs /\ (Id(t) = Id(s) => t = s)
      BY HeldIds DEF IInv, OneCustodian
    <2>5. \A t \in Slots : Busy(t)' => IsComputing(Id(t))'
      BY <2>4 DEF IInv, HeldIsComputing, IsComputing
    <2>6. QED
      BY <2>1, <2>2, <2>3, <2>5 DEF IInv, HeldIsComputing, IsComputing, Sending
  <1>3. DownIsEmpty'
    BY DEF IInv, DownIsEmpty, Sending
  <1>4. QED
    BY <1>1, <1>2, <1>3

----------------------------------------------------------------------------
(* One lemma per action, or per group of actions with the same effect.     *)

LEMMA FileSteps ==
    ASSUME IInv, NEW r \in Requests,
           \/ Reject(r) \/ CheckElf(r) \/ OpenElf(r) \/ WriteElf(r) \/ OpenInputs(r) \/ WriteInputs(r)
           \/ WriteFails(r) \/ Leave(r)
    PROVE  IInv'
  <1>1. UNCHANGED <<row, queue, hand, slot, up, clock, ticks, crashes>>
    BY DEF Reject, CheckElf, OpenElf, WriteElf, OpenInputs, WriteInputs, WriteFails, Leave, disk
  <1>2. PICK at \in HandlerPlace : at # "inserted" /\ handler' = [handler EXCEPT ![r] = at]
    BY DEF Reject, CheckElf, OpenElf, WriteElf, OpenInputs, WriteInputs, WriteFails, Leave, HandlerPlace
  <1>3. elf' \in [Programs -> File] /\ inputs' \in [Proofs -> File]
    BY LifecycleAssumption DEF IInv, TypeOK, File, Filled,
       Reject, CheckElf, OpenElf, WriteElf, OpenInputs, WriteInputs, WriteFails, Leave, disk
  <1>4. TypeOK'
    <2>1. dropped' \in [Proofs -> Reason]
      BY LifecycleAssumption DEF IInv, TypeOK, Reason, Drop,
         Reject, CheckElf, OpenElf, WriteElf, OpenInputs, WriteInputs, WriteFails, Leave
    <2>2. QED
      BY <1>1, <1>2, <1>3, <2>1 DEF IInv, TypeOK, Row, TaskType, RunType
  <1>5. \A q \in Requests : Sending(q)' => Sending(q)
    BY <1>2 DEF IInv, TypeOK, Sending
  <1>6. QED
    BY <1>1, <1>4, <1>5, HandlerKept DEF IInv

LEMMA InsertStep ==
    ASSUME IInv, NEW r \in Requests, Insert(r)
    PROVE  IInv'
  <1> DEFINE p == IdOf(r)
  <1>1. /\ handler[r] = "stored" /\ up /\ p \in Proofs
        /\ UNCHANGED <<elf, inputs, queue, hand, slot, up, clock, ticks, crashes, dropped>>
    BY LifecycleAssumption DEF Insert, disk
  <1>2. CASE row[p].status = "Absent"
    <2>1. /\ row' = [row EXCEPT ![p].status = "Computing"]
          /\ handler' = [handler EXCEPT ![r] = "inserted"]
      BY <1>2 DEF Insert
    <2>2. row' \in [Proofs -> Row] /\ handler' \in [Requests -> HandlerPlace]
      BY <2>1 DEF IInv, TypeOK, Row, HandlerPlace
    <2>3. TypeOK'
      BY <1>1, <2>2 DEF IInv, TypeOK, Row, TaskType, RunType
    <2>4. \A q \in Proofs : row[q].status = "Computing" => row'[q].status = "Computing"
      BY <2>1 DEF IInv, TypeOK, Row
    <2>5. row'[p].status = "Computing"
      BY <1>1, <2>1 DEF IInv, TypeOK, Row
    <2>6. \A q \in Requests : Sending(q)' <=> Sending(q) \/ q = r
      BY <2>1 DEF IInv, TypeOK, Sending
    <2>7. /\ \A q \in Requests : Sending(q) => IdOf(q) # p
          /\ \A i \in DOMAIN queue : queue[i].id # p
          /\ \A h \in DOMAIN hand : hand[h].id # p
          /\ \A s \in Slots : Busy(s) => Id(s) # p
      BY <1>2 DEF IInv, HeldIsComputing, IsComputing
    <2>8. OneCustodian'
      BY <1>1, <2>6, <2>7 DEF IInv, OneCustodian, Busy, Id
    <2>9. HeldIsComputing'
      BY <1>1, <2>4, <2>5, <2>6, HeldIds DEF IInv, HeldIsComputing, IsComputing, Busy, Id
    <2>10. DownIsEmpty'
      BY <1>1 DEF DownIsEmpty
    <2>11. QED
      BY <2>3, <2>8, <2>9, <2>10 DEF IInv
  <1>3. CASE row[p].status # "Absent"
    <2>1. row' = row /\ handler' = [handler EXCEPT ![r] = "refused"]
      BY <1>3 DEF Insert
    <2>2. TypeOK'
      BY <1>1, <2>1 DEF IInv, TypeOK, Row, TaskType, RunType, HandlerPlace
    <2>3. \A q \in Requests : Sending(q)' => Sending(q)
      BY <2>1 DEF IInv, TypeOK, Sending
    <2>4. QED
      BY <1>1, <2>1, <2>2, <2>3, HandlerKept DEF IInv
  <1>4. QED
    BY <1>2, <1>3

LEMMA SendStep ==
    ASSUME IInv, NEW r \in Requests, Send(r)
    PROVE  IInv'
  <1> DEFINE p == IdOf(r)
             task == Task(p, "Init", 0)
  <1>1. /\ Sending(r) /\ up /\ p \in Proofs /\ Len(queue) < QueueCap
        /\ UNCHANGED <<row, elf, inputs, hand, slot, up, clock, ticks, crashes, dropped>>
        /\ queue' = Append(queue, task) /\ handler' = [handler EXCEPT ![r] = "accepted"]
    BY LifecycleAssumption DEF Send, disk, Sending
  <1>2. task \in TaskType /\ task.id = p
    BY <1>1 DEF Task, TaskType, Step, IInv, TypeOK
  <1>3. queue \in Seq(TaskType) /\ Len(queue) \in Nat /\ DOMAIN queue = 1..Len(queue)
    BY DEF IInv, TypeOK
  <1> HIDE DEF task
  <1>4. /\ queue' \in Seq(TaskType) /\ Len(queue') = Len(queue) + 1
        /\ DOMAIN queue' = 1..(Len(queue) + 1) /\ queue'[Len(queue) + 1] = task
        /\ \A i \in DOMAIN queue : i \in DOMAIN queue' /\ queue'[i] = queue[i]
    BY <1>1, <1>2, <1>3
  <1>5. TypeOK'
    BY <1>1, <1>4, LifecycleAssumption DEF IInv, TypeOK, Row, TaskType, RunType, HandlerPlace
  <1>6. \A q \in Requests : Sending(q)' <=> Sending(q) /\ q # r
    BY <1>1 DEF IInv, TypeOK, Sending
  <1>7. /\ \A i \in DOMAIN queue' :
              (i \in DOMAIN queue /\ queue'[i] = queue[i]) \/ (i = Len(queue) + 1 /\ queue'[i].id = p)
        /\ Len(queue) + 1 \notin DOMAIN queue
    BY <1>2, <1>3, <1>4
  <1>8. /\ \A q \in Requests : Sending(q)' => IdOf(q) # p
        /\ \A i \in DOMAIN queue : queue[i].id # p
        /\ \A h \in DOMAIN hand : hand[h].id # p
        /\ \A s \in Slots : Busy(s) => Id(s) # p
    BY <1>1, <1>6 DEF IInv, OneCustodian
  <1>9. OneCustodian'
    BY <1>1, <1>6, <1>7, <1>8 DEF IInv, OneCustodian, Busy, Id
  <1>10. HeldIsComputing'
    BY <1>1, <1>6, <1>7 DEF IInv, HeldIsComputing, IsComputing, Busy, Id
  <1>11. DownIsEmpty'
    BY <1>1 DEF DownIsEmpty
  <1>12. QED
    BY <1>5, <1>9, <1>10, <1>11 DEF IInv

LEMMA RecvStep ==
    ASSUME IInv, Recv
    PROVE  IInv'
  <1>1. /\ up /\ hand = <<>> /\ queue # <<>>
        /\ UNCHANGED <<row, elf, inputs, handler, slot, up, clock, ticks, crashes, dropped>>
        /\ hand' = <<Head(queue)>> /\ queue' = Tail(queue)
    BY DEF Recv, disk
  <1>2. queue \in Seq(TaskType) /\ Len(queue) \in Nat /\ DOMAIN queue = 1..Len(queue)
    BY DEF IInv, TypeOK
  <1>3. /\ Head(queue) = queue[1] /\ 1 \in DOMAIN queue /\ Head(queue) \in TaskType
        /\ queue' \in Seq(TaskType) /\ Len(queue') = Len(queue) - 1
        /\ \A i \in DOMAIN queue' : i + 1 \in DOMAIN queue /\ queue'[i] = queue[i + 1] /\ i + 1 # 1
        /\ DOMAIN queue' \subseteq Nat
    BY <1>1, <1>2
  <1>4. DOMAIN hand' = {1} /\ hand'[1] = queue[1] /\ hand' \in Seq(TaskType) /\ Len(hand') = 1
    BY <1>1, <1>3
  <1>5. TypeOK'
    BY <1>1, <1>2, <1>3, <1>4, LifecycleAssumption DEF IInv, TypeOK, Row, TaskType, RunType
  <1>6. OneCustodian'
    <2>1. \A i, j \in DOMAIN queue' : queue'[i].id = queue'[j].id => i = j
      <3> SUFFICES ASSUME NEW i \in DOMAIN queue', NEW j \in DOMAIN queue', queue'[i].id = queue'[j].id
                   PROVE  i = j
        OBVIOUS
      <3>1. i + 1 = j + 1
        BY <1>3 DEF IInv, OneCustodian
      <3>2. QED
        BY <1>3, <3>1
    <2>2. \A i \in DOMAIN queue', h \in DOMAIN hand' : queue'[i].id # hand'[h].id
      BY <1>3, <1>4 DEF IInv, OneCustodian
    <2>3. /\ \A r \in Requests, i \in DOMAIN queue' : Sending(r)' => IdOf(r) # queue'[i].id
          /\ \A r \in Requests, h \in DOMAIN hand' : Sending(r)' => IdOf(r) # hand'[h].id
          /\ \A i \in DOMAIN queue', s \in Slots : Busy(s)' => queue'[i].id # Id(s)'
          /\ \A h \in DOMAIN hand', s \in Slots : Busy(s)' => hand'[h].id # Id(s)'
      BY <1>1, <1>3, <1>4 DEF IInv, OneCustodian, Sending, Busy, Id
    <2>4. QED
      BY <1>1, <2>1, <2>2, <2>3 DEF IInv, OneCustodian, Sending, Busy, Id
  <1>7. HeldIsComputing'
    BY <1>1, <1>3, <1>4 DEF IInv, HeldIsComputing, IsComputing, Sending, Busy, Id
  <1>8. DownIsEmpty'
    BY <1>1 DEF DownIsEmpty
  <1>9. QED
    BY <1>5, <1>6, <1>7, <1>8 DEF IInv

LEMMA SpawnStep ==
    ASSUME IInv, NEW s \in Slots, Spawn(s)
    PROVE  IInv'
  <1> DEFINE run == [at |-> "begin", task |-> hand[1], now |-> clock]
  <1>1. /\ up /\ hand # <<>> /\ ~Busy(s)
        /\ slot' = [slot EXCEPT ![s] = run] /\ hand' = <<>>
        /\ UNCHANGED <<row, elf, inputs, handler, queue, up, clock, ticks, crashes, dropped>>
    BY DEF Spawn, disk, Busy
  <1>2. DOMAIN hand = {1} /\ hand[1] \in TaskType
    <2>1. hand \in Seq(TaskType) /\ Len(hand) <= 1 /\ Len(hand) \in Nat
      BY DEF IInv, TypeOK
    <2>2. Len(hand) \in Nat \ {0}
      BY <1>1, <2>1, EmptySeq, Zenon
    <2>3. Len(hand) = 1
      BY <2>1, <2>2
    <2>4. QED
      BY <2>1, <2>3
  <1>3. run \in RunType /\ run.at = "begin" /\ run.task = hand[1]
    BY <1>2 DEF RunType, IInv, TypeOK
  <1> HIDE DEF run
  <1>4. slot' \in [Slots -> {Free} \cup RunType] /\ slot'[s] = run
        /\ \A t \in Slots : t # s => slot'[t] = slot[t]
    BY <1>1, <1>3 DEF IInv, TypeOK
  <1>5. hand' \in Seq(TaskType) /\ Len(hand') = 0 /\ DOMAIN hand' = {}
    BY <1>1
  <1>6. TypeOK'
    BY <1>1, <1>4, <1>5 DEF IInv, TypeOK, Row, TaskType, RunType
  <1>7. /\ \A t \in Slots : t # s => (Busy(t)' <=> Busy(t)) /\ Id(t)' = Id(t)
        /\ Id(s)' = hand[1].id /\ 1 \in DOMAIN hand
    BY <1>2, <1>3, <1>4 DEF Busy, Id
  <1>8. OneCustodian'
    BY <1>1, <1>5, <1>7 DEF IInv, OneCustodian, Sending
  <1>9. HeldIsComputing'
    BY <1>1, <1>5, <1>7 DEF IInv, HeldIsComputing, IsComputing, Sending
  <1>10. DownIsEmpty'
    BY <1>1 DEF DownIsEmpty
  <1>11. QED
    BY <1>6, <1>8, <1>9, <1>10 DEF IInv

\* A step of a run that keeps its permit: it updates its row by compare and set and
\* changes nothing of the run's task but its check_at.
KeepsPermit(s) ==
    /\ up /\ Busy(s)
    /\ UNCHANGED <<elf, inputs, handler, queue, hand, up, clock, ticks, crashes, dropped>>
    /\ \/ row' = row
       \/ \E old \in Nat, new \in 0..clock, step \in {"Prove", "End"} :
              row' = UpdateCheckAt(Id(s), old, new, step)
    /\ \E at \in {"record", "run", "save"}, c \in 0..clock :
          slot' = [slot EXCEPT ![s].at = at, ![s].task.check_at = c]

LEMMA KeepsPermitStep ==
    ASSUME IInv, NEW s \in Slots, KeepsPermit(s)
    PROVE  IInv'
  <1>1. /\ up /\ Busy(s)
        /\ UNCHANGED <<elf, inputs, handler, queue, hand, up, clock, ticks, crashes, dropped>>
    BY DEF KeepsPermit
  <1>2. slot[s] \in RunType /\ Id(s) \in Proofs /\ TypeOK
    BY <1>1, BusyRun DEF IInv
  <1>3. PICK at \in {"record", "run", "save"}, c \in 0..clock :
               slot' = [slot EXCEPT ![s].at = at, ![s].task.check_at = c]
    BY DEF KeepsPermit
  <1>4. row' \in [Proofs -> Row]' /\ \A q \in Proofs : row'[q].status = row[q].status
    <2>1. CASE row' = row
      BY <1>1, <1>2, <2>1 DEF TypeOK, Row
    <2>2. CASE \E old \in Nat, new \in 0..clock, step \in {"Prove", "End"} :
                   row' = UpdateCheckAt(Id(s), old, new, step)
      BY <1>1, <1>2, <2>2, CheckAtRow DEF Step
    <2>3. QED
      BY <2>1, <2>2 DEF KeepsPermit
  <1>5. /\ slot'[s] \in RunType /\ slot'[s].task.id = slot[s].task.id
        /\ DOMAIN slot' = Slots /\ slot' = [slot EXCEPT ![s] = slot'[s]]
        /\ \A t \in Slots : t # s => slot'[t] = slot[t]
    BY <1>2, <1>3 DEF TypeOK, RunType, TaskType
  <1>6. TypeOK'
    <2>1. slot' \in [Slots -> {Free} \cup RunType]
      BY <1>2, <1>5 DEF TypeOK
    <2>2. QED
      BY <1>1, <1>2, <1>4, <2>1 DEF TypeOK, Row, TaskType, RunType
  <1>7. \A t \in Slots : Busy(t)' => Busy(t) /\ Id(t)' = Id(t)
    BY <1>1, <1>5 DEF Busy, Id
  <1>8. QED
    BY <1>1, <1>2, <1>4, <1>6, <1>7, RunKept DEF IInv

\* A step that gives the permit back: it writes the final status of its row, or drops
\* the proof.
GivesBack(s) ==
    /\ up /\ Busy(s)
    /\ UNCHANGED <<elf, inputs, handler, queue, hand, up, clock, ticks, crashes>>
    /\ \/ row' = row /\ \E why \in {"forgotten", "died"} : dropped' = Drop(Id(s), why)
       \/ dropped' = dropped /\ \E status \in Final : row' = UpdateStatus(Id(s), status)
    /\ slot' = [slot EXCEPT ![s] = Free]

LEMMA GivesBackStep ==
    ASSUME IInv, NEW s \in Slots, GivesBack(s)
    PROVE  IInv'
  <1>1. /\ up /\ Busy(s) /\ slot' = [slot EXCEPT ![s] = Free]
        /\ UNCHANGED <<elf, inputs, handler, queue, hand, up, clock, ticks, crashes>>
    BY DEF GivesBack
  <1>2. Id(s) \in Proofs /\ TypeOK
    BY <1>1, BusyRun DEF IInv
  <1>3. row' \in [Proofs -> Row]' /\ \A q \in Proofs : q # Id(s) => row'[q].status = row[q].status
    <2>1. CASE row' = row
      BY <1>1, <1>2, <2>1 DEF TypeOK, Row
    <2>2. CASE \E status \in Final : row' = UpdateStatus(Id(s), status)
      BY <1>1, <1>2, <2>2, StatusRow
    <2>3. QED
      BY <2>1, <2>2 DEF GivesBack
  <1>4. slot'[s] = Free /\ \A t \in Slots : t # s => slot'[t] = slot[t]
    BY <1>1, <1>2 DEF TypeOK
  <1>5. TypeOK'
    <2>1. slot' \in [Slots -> {Free} \cup RunType]
      BY <1>1, <1>2 DEF TypeOK
    <2>2. dropped' \in [Proofs -> Reason]
      BY <1>2 DEF GivesBack, Drop, Reason, TypeOK
    <2>3. QED
      BY <1>1, <1>2, <1>3, <2>1, <2>2 DEF TypeOK, Row, TaskType, RunType
  <1>6. (\A t \in Slots : Busy(t)' => Busy(t) /\ Id(t)' = Id(t)) /\ ~Busy(s)'
    BY <1>4 DEF Busy, Id, Free
  <1>7. QED
    BY <1>1, <1>3, <1>5, <1>6, RunKept DEF IInv

\* Every step of run_stage_task is one or the other.
LEMMA RunSteps ==
    ASSUME TypeOK, NEW s \in Slots, Run(s) \/ Heartbeat(s) \/ Panic(s)
    PROVE  KeepsPermit(s) \/ GivesBack(s)
  <1>1. slot[s].at \in {"begin", "record", "run", "save"} => Busy(s)
    BY DEF Busy
  <1>2. clock \in Nat /\ 0 \in 0..clock /\ clock \in 0..clock
    BY DEF TypeOK
  <1>3. Busy(s) => /\ slot[s].now \in 0..clock /\ slot[s].task.check_at \in 0..clock
                   /\ slot[s].task.check_at \in Nat /\ slot[s] \in RunType
    BY BusyRun, <1>2
  <1>4. Busy(s) => \A at : [slot EXCEPT ![s].at = at] =
               [slot EXCEPT ![s].at = at, ![s].task.check_at = slot[s].task.check_at]
    <2> SUFFICES ASSUME Busy(s), NEW at
                 PROVE  [slot[s] EXCEPT !.at = at] =
                        [slot[s] EXCEPT !.at = at, !.task.check_at = slot[s].task.check_at]
      OBVIOUS
    <2>1. QED
      BY <1>3 DEF RunType, TaskType
  <1>5. Busy(s) => \A c : [slot EXCEPT ![s].task.check_at = c] =
               [slot EXCEPT ![s].at = slot[s].at, ![s].task.check_at = c]
    <2> SUFFICES ASSUME Busy(s), NEW c
                 PROVE  [slot[s] EXCEPT !.task.check_at = c] =
                        [slot[s] EXCEPT !.at = slot[s].at, !.task.check_at = c]
      OBVIOUS
    <2>1. QED
      BY <1>3 DEF RunType, TaskType
  <1>6. CASE BeginStage(s)
    BY <1>1, <1>2, <1>3, <1>6 DEF BeginStage, At, KeepsPermit, disk
  <1>7. CASE BeginSingle(s)
    BY <1>1, <1>2, <1>3, <1>4, <1>7 DEF BeginSingle, At, KeepsPermit, GivesBack, disk
  <1>8. CASE RecordSingle(s)
    BY <1>1, <1>2, <1>3, <1>8 DEF RecordSingle, At, KeepsPermit, disk
  <1>9. CASE EndError(s)
    BY <1>1, <1>9 DEF EndError, At, GivesBack, disk, Final
  <1>10. CASE EndSuccess(s)
    BY <1>1, <1>2, <1>3, <1>4, <1>10 DEF EndSuccess, At, KeepsPermit, disk, Duration
  <1>11. CASE SaveStatus(s)
    BY <1>1, <1>11 DEF SaveStatus, At, GivesBack, disk, Final
  <1>12. CASE Heartbeat(s)
    BY <1>1, <1>2, <1>3, <1>5, <1>12 DEF Heartbeat, At, KeepsPermit, disk
  <1>13. CASE Panic(s) \/ RunDies(s)
    BY <1>1, <1>13 DEF Panic, RunDies, At, GivesBack, disk
  <1>14. QED
    BY <1>6, <1>7, <1>8, <1>9, <1>10, <1>11, <1>12, <1>13 DEF Run

LEMMA CrashStep ==
    ASSUME IInv, Crash
    PROVE  IInv'
  <1>1. /\ up' = FALSE /\ UNCHANGED <<row, elf, inputs, clock, ticks>>
        /\ queue' = <<>> /\ hand' = <<>> /\ slot' = [s \in Slots |-> Free]
        /\ crashes < MaxCrashes /\ crashes' = crashes + 1
        /\ dropped' = [p \in Proofs |-> "no"]
    BY DEF Crash, disk
  <1>2. handler' \in [Requests -> HandlerPlace] /\ \A r \in Requests : handler'[r] # "inserted"
    BY DEF Crash, IInv, TypeOK, HandlerPlace
  <1>3. DOMAIN queue' = {} /\ DOMAIN hand' = {} /\ \A s \in Slots : ~Busy(s)'
    BY <1>1 DEF Busy, Free
  <1>4. /\ queue' \in Seq(TaskType) /\ Len(queue') = 0 /\ hand' \in Seq(TaskType) /\ Len(hand') = 0
        /\ slot' \in [Slots -> {Free} \cup RunType]
    BY <1>1
  <1>5. TypeOK'
    <2>1. Row' = Row /\ TaskType' = TaskType /\ RunType' = RunType
      BY <1>1 DEF Row, TaskType, RunType
    <2>2. crashes' \in 0..MaxCrashes
      BY <1>1, LifecycleAssumption DEF IInv, TypeOK
    <2>3. Len(queue') <= QueueCap /\ Len(hand') <= 1
      BY <1>4, LifecycleAssumption
    <2>4. /\ up' \in BOOLEAN /\ UNCHANGED <<row, elf, inputs, clock, ticks>>
          /\ dropped' \in [Proofs -> Reason]
      BY <1>1 DEF Reason
    <2>5. QED
      BY <1>2, <1>4, <2>1, <2>2, <2>3, <2>4 DEF IInv, TypeOK
  <1>6. OneCustodian' /\ HeldIsComputing' /\ DownIsEmpty'
    BY <1>1, <1>2, <1>3 DEF OneCustodian, HeldIsComputing, DownIsEmpty, Sending
  <1>7. QED
    BY <1>5, <1>6 DEF IInv

\* Time passes: what was a time stamp stays one.
LEMMA TypesGrow ==
    ASSUME clock \in Nat, clock' \in Nat, clock <= clock'
    PROVE  /\ Row \subseteq Row' /\ TaskType \subseteq TaskType' /\ RunType \subseteq RunType'
           /\ Seq(TaskType) \subseteq Seq(TaskType')
  <1>1. 0..clock \subseteq 0..clock'
    OBVIOUS
  <1>2. Row \subseteq Row' /\ TaskType \subseteq TaskType'
    BY <1>1 DEF Row, TaskType
  <1>3. RunType \subseteq RunType'
    BY <1>1, <1>2 DEF RunType
  <1>4. QED
    BY <1>2, <1>3

LEMMA ClockStep ==
    ASSUME IInv, ClockTick
    PROVE  IInv'
  <1>1. /\ UNCHANGED <<row, elf, inputs, handler, queue, hand, slot, up, crashes, dropped>>
        /\ clock' = clock + 1 /\ ticks < MaxTicks /\ ticks' = ticks + 1
    BY DEF ClockTick, disk, memory
  <1>2. clock \in Nat /\ clock' \in Nat \ {0} /\ clock <= clock' /\ ticks' \in 0..MaxTicks
    BY <1>1, LifecycleAssumption DEF IInv, TypeOK
  <1>3. /\ Row \subseteq Row' /\ RunType \subseteq RunType' /\ Seq(TaskType) \subseteq Seq(TaskType')
    BY <1>2, TypesGrow
  <1>4. TypeOK'
    BY <1>1, <1>2, <1>3 DEF IInv, TypeOK
  <1>5. \A q \in Requests : Sending(q)' => Sending(q)
    BY <1>1 DEF Sending
  <1>6. QED
    BY <1>1, <1>4, <1>5, HandlerKept DEF IInv

\* load_incomplete_tasks_from_db puts each row at most once into the channel, and
\* no more of them than it holds.
LEMMA LoadedFits ==
    ASSUME TypeOK, NEW now, NEW s \in Loaded(now)
    PROVE  \E k \in Nat : /\ DOMAIN s = 1..k /\ k <= QueueCap
                          /\ \A i \in 1..k : s[i] \in Computing /\ s[i] \in Proofs
                          /\ \A i, j \in 1..k : s[i] = s[j] => i = j
  <1> DEFINE incomplete == {p \in Computing : row[p].check_at < now}
             loaded == {s[i] : i \in DOMAIN s}
  <1>1. incomplete \subseteq Proofs /\ IsFiniteSet(incomplete)
    BY LifecycleAssumption, FS_Subset DEF Computing
  <1>2. Cardinality(incomplete) \in Nat
    BY <1>1, FS_CardinalityType
  <1>3. /\ \E k \in 0..Cardinality(incomplete) : s \in [1..k -> incomplete]
        /\ \A i, j \in DOMAIN s : s[i] = s[j] => i = j
        /\ FitsQueue(loaded)
    BY DEF Loaded
  <1>4. PICK k \in 0..Cardinality(incomplete) : s \in [1..k -> incomplete]
    BY <1>3
  <1>5. k \in Nat /\ DOMAIN s = 1..k /\ IsFiniteSet(1..k) /\ Cardinality(1..k) = k
    BY <1>2, <1>4, FS_Interval
  <1>6. s \in Bijection(1..k, loaded)
    BY <1>3, <1>5 DEF Bijection, Injection, Surjection, IsInjective
  <1>7. Cardinality(loaded) = k
    BY <1>5, <1>6, FS_Bijection DEF ExistsBijection
  <1>8. k <= QueueCap
    BY <1>3, <1>7 DEF FitsQueue
  <1>9. QED
    BY <1>1, <1>3, <1>4, <1>5, <1>8

LEMMA RestartStep ==
    ASSUME IInv, Restart
    PROVE  IInv'
  <1>1. /\ ~up /\ up' = TRUE /\ clock' = clock + RestartDelay
        /\ UNCHANGED <<row, elf, inputs, handler, hand, slot, ticks, crashes>>
        /\ dropped' \in [Proofs -> Reason]
    BY DEF Restart, disk, Reason
  <1>2. clock \in Nat /\ clock' \in Nat \ {0} /\ clock <= clock'
    BY <1>1, LifecycleAssumption DEF IInv, TypeOK
  <1>3. /\ Row \subseteq Row' /\ RunType \subseteq RunType' /\ TaskType \subseteq TaskType'
        /\ Seq(TaskType) \subseteq Seq(TaskType')
    BY <1>2, TypesGrow
  <1>4. PICK s \in Loaded(clock') :
            queue' = [i \in DOMAIN s |-> Task(s[i], row[s[i]].step, row[s[i]].check_at)]
    BY DEF Restart
  <1>5. PICK k \in Nat : /\ DOMAIN s = 1..k /\ k <= QueueCap
                         /\ \A i \in 1..k : s[i] \in Computing /\ s[i] \in Proofs
                         /\ \A i, j \in 1..k : s[i] = s[j] => i = j
    BY LoadedFits DEF IInv
  <1>6. \A p \in Proofs : Task(p, row[p].step, row[p].check_at) \in TaskType
    BY DEF IInv, TypeOK, Row, TaskType, Task
  <1>7. /\ queue' \in Seq(TaskType) /\ Len(queue') = k /\ DOMAIN queue' = 1..k
        /\ \A i \in 1..k : queue'[i].id = s[i]
    BY <1>4, <1>5, <1>6 DEF Task
  <1>8. DOMAIN hand' = {} /\ \A t \in Slots : ~Busy(t)'
    BY <1>1 DEF IInv, DownIsEmpty, Busy
  <1>9. \A r \in Requests : ~Sending(r)'
    BY <1>1 DEF IInv, DownIsEmpty, Sending
  <1>10. TypeOK'
    BY <1>1, <1>2, <1>3, <1>5, <1>7 DEF IInv, TypeOK
  <1>11. OneCustodian'
    BY <1>5, <1>7, <1>8, <1>9 DEF OneCustodian
  <1>12. HeldIsComputing'
    BY <1>1, <1>5, <1>7, <1>8, <1>9 DEF HeldIsComputing, IsComputing, Computing
  <1>13. DownIsEmpty'
    BY <1>1 DEF DownIsEmpty
  <1>14. QED
    BY <1>10, <1>11, <1>12, <1>13 DEF IInv

LEMMA InitInv == Init => IInv
  <1> SUFFICES ASSUME Init PROVE IInv
    OBVIOUS
  <1>1. NoRow \in Row
    BY DEF Init, NoRow, Row, Step
  <1>2. /\ queue \in Seq(TaskType) /\ Len(queue) = 0 /\ DOMAIN queue = {}
        /\ hand \in Seq(TaskType) /\ Len(hand) = 0 /\ DOMAIN hand = {}
    BY DEF Init
  <1>3. TypeOK
    BY <1>1, <1>2, LifecycleAssumption DEF Init, TypeOK, File, HandlerPlace, Reason
  <1>4. (\A s \in Slots : ~Busy(s)) /\ \A r \in Requests : ~Sending(r)
    BY DEF Init, Busy, Free, Sending
  <1>5. QED
    BY <1>2, <1>3, <1>4 DEF Init, IInv, OneCustodian, HeldIsComputing, DownIsEmpty

LEMMA StutterStep ==
    ASSUME IInv, UNCHANGED vars
    PROVE  IInv'
  <1>1. UNCHANGED <<row, elf, inputs, handler, queue, hand, slot, up, clock, ticks, crashes, dropped>>
    BY DEF vars, disk, memory
  <1>2. TypeOK'
    BY <1>1 DEF IInv, TypeOK, Row, TaskType, RunType
  <1>3. QED
    BY <1>1, <1>2, HandlerKept DEF IInv, Sending

LEMMA StepInv == IInv /\ [Next]_vars => IInv'
  <1> SUFFICES ASSUME IInv, [Next]_vars PROVE IInv'
    OBVIOUS
  <1>1. CASE \E r \in Requests : Reject(r) \/ Handle(r) \/ WriteFails(r) \/ Leave(r)
    BY <1>1, FileSteps, InsertStep, SendStep DEF Handle
  <1>2. CASE Recv
    BY <1>2, RecvStep
  <1>3. CASE \E s \in Slots : Spawn(s) \/ Run(s) \/ Heartbeat(s) \/ Panic(s)
    BY <1>3, SpawnStep, RunSteps, KeepsPermitStep, GivesBackStep DEF IInv
  <1>4. CASE Crash \/ Restart \/ ClockTick
    BY <1>4, CrashStep, RestartStep, ClockStep
  <1>5. CASE UNCHANGED vars
    BY <1>5, StutterStep
  <1>6. QED
    BY <1>1, <1>2, <1>3, <1>4, <1>5 DEF Next

LEMMA Invariance == Spec => []IInv
  BY InitInv, StepInv, PTL DEF Spec

----------------------------------------------------------------------------
\* The rows, the channel and the runs have their types: the channel never holds
\* more than its capacity, not even after a reload, and no time stamp is ahead of
\* the clock.
THEOREM TypeCorrect == Spec => []TypeOK
  <1>1. IInv => TypeOK
    BY DEF IInv
  <1>2. QED
    BY <1>1, Invariance, PTL

LEMMA SubsingletonCardinality ==
    ASSUME NEW S, \A x, y \in S : x = y
    PROVE  Cardinality(S) = IF S = {} THEN 0 ELSE 1
  <1>1. CASE S = {}
    BY <1>1, FS_EmptySet
  <1>2. CASE S # {}
    <2>1. PICK x : S = {x}
      BY <1>2
    <2>2. QED
      BY <1>2, <2>1, FS_Singleton
  <1>3. QED
    BY <1>1, <1>2

\* What Held counts, under the invariant.
LEMMA HeldCounts ==
    ASSUME IInv, NEW p
    PROVE  /\ Cardinality(InQueue(p)) = IF InQueue(p) = {} THEN 0 ELSE 1
           /\ Cardinality(InHand(p)) = IF InHand(p) = {} THEN 0 ELSE 1
           /\ Cardinality(Running(p)) = IF Running(p) = {} THEN 0 ELSE 1
  <1>1. \A i, j \in InQueue(p) : i = j
    BY DEF IInv, OneCustodian, InQueue
  <1>2. \A h, k \in InHand(p) : h = k
    <2>1. DOMAIN hand = 1..Len(hand) /\ Len(hand) \in Nat /\ Len(hand) <= 1
      BY DEF IInv, TypeOK
    <2>2. QED
      BY <2>1 DEF InHand
  <1>3. \A s, t \in Running(p) : s = t
    BY DEF IInv, OneCustodian, Running, Busy, Id
  <1>4. QED
    BY <1>1, <1>2, <1>3, SubsingletonCardinality

\* Two runs of one proof would work in one directory.  There is never more than one
\* place in memory that holds it, whatever requests are repeated, clients leave,
\* updates fail and crashes happen.
THEOREM OneRunAtATime == Spec => []RunsAtMostOnce
  <1>1. ASSUME IInv PROVE RunsAtMostOnce
    <2> SUFFICES ASSUME NEW p \in Proofs PROVE Held(p) <= 1
      BY DEF RunsAtMostOnce
    <2>1. /\ InQueue(p) = {} \/ InHand(p) = {}
          /\ InQueue(p) = {} \/ Running(p) = {}
          /\ InHand(p) = {} \/ Running(p) = {}
      BY <1>1 DEF IInv, OneCustodian, InQueue, InHand, Running, Busy, Id
    <2>2. QED
      BY <1>1, <2>1, HeldCounts DEF Held
  <1>2. QED
    BY <1>1, Invariance, PTL

----------------------------------------------------------------------------
(* Who writes which row.                                                   *)

\* A step changes a row by inserting it, or from under the permit that runs it.
LEMMA RowSteps ==
    ASSUME IInv, [Next]_vars
    PROVE  \/ row' = row
           \/ \E r \in Requests : Insert(r) /\ row[IdOf(r)].status = "Absent"
                                  /\ row' = [row EXCEPT ![IdOf(r)].status = "Computing"]
           \/ \E s \in Slots : Busy(s) /\ \A q \in Proofs : q # Id(s) => row'[q] = row[q]
  <1>1. ASSUME NEW r \in Requests, Insert(r)
        PROVE  row' = row \/ (row[IdOf(r)].status = "Absent"
                              /\ row' = [row EXCEPT ![IdOf(r)].status = "Computing"])
    BY <1>1 DEF Insert
  <1>2. ASSUME NEW r \in Requests, Reject(r) \/ Handle(r) \/ WriteFails(r) \/ Leave(r)
        PROVE  Insert(r) \/ row' = row
    BY <1>2 DEF Handle, Reject, CheckElf, OpenElf, WriteElf, OpenInputs, WriteInputs, Send, WriteFails, Leave
  <1>3. ASSUME NEW s \in Slots, KeepsPermit(s)
        PROVE  Busy(s) /\ \A q \in Proofs : q # Id(s) => row'[q] = row[q]
    <2>1. Busy(s) /\ Id(s) \in Proofs /\ TypeOK /\ clock' = clock
      BY <1>3, BusyRun DEF KeepsPermit, IInv
    <2>2. CASE row' = row
      BY <2>1, <2>2
    <2>3. CASE \E old \in Nat, new \in 0..clock, step \in {"Prove", "End"} :
                   row' = UpdateCheckAt(Id(s), old, new, step)
      BY <2>1, <2>3, CheckAtRow DEF Step
    <2>4. QED
      BY <1>3, <2>2, <2>3 DEF KeepsPermit
  <1>4. ASSUME NEW s \in Slots, GivesBack(s)
        PROVE  Busy(s) /\ \A q \in Proofs : q # Id(s) => row'[q] = row[q]
    <2>1. Busy(s) /\ Id(s) \in Proofs /\ TypeOK /\ clock' = clock
      BY <1>4, BusyRun DEF GivesBack, IInv
    <2>2. QED
      BY <1>4, <2>1, StatusRow DEF GivesBack
  <1>5. ASSUME NEW s \in Slots, Spawn(s) \/ Run(s) \/ Heartbeat(s) \/ Panic(s)
        PROVE  row' = row \/ KeepsPermit(s) \/ GivesBack(s)
    BY <1>5, RunSteps DEF Spawn, IInv
  <1>6. Recv \/ Crash \/ Restart \/ ClockTick \/ UNCHANGED vars => row' = row
    BY DEF Recv, Crash, Restart, ClockTick, vars
  <1>7. QED
    BY <1>1, <1>2, <1>3, <1>4, <1>5, <1>6 DEF Next

\* A finished proof stays as it is: no retry of the request, late update or reload
\* writes its row again.
THEOREM FinalIsKept == Spec => FinalStatusKept
  <1>1. ASSUME IInv, [Next]_vars
        PROVE  [\A p \in Proofs : row[p].status \in Final => row'[p] = row[p]]_vars
    <2> SUFFICES ASSUME NEW p \in Proofs, row[p].status \in Final PROVE row'[p] = row[p]
      OBVIOUS
    <2>1. CASE row' = row
      BY <2>1
    <2>2. CASE \E r \in Requests : row[IdOf(r)].status = "Absent"
                                   /\ row' = [row EXCEPT ![IdOf(r)].status = "Computing"]
      BY <1>1, <2>2 DEF Final, IInv, TypeOK
    <2>3. ASSUME NEW s \in Slots, Busy(s), \A q \in Proofs : q # Id(s) => row'[q] = row[q]
          PROVE  row'[p] = row[p]
      <3>1. IsComputing(Id(s))
        BY <1>1, <2>3 DEF IInv, HeldIsComputing
      <3>2. QED
        BY <2>3, <3>1 DEF IsComputing, Final
    <2>4. QED
      BY <1>1, <2>1, <2>2, <2>3, RowSteps
  <1>2. QED
    BY <1>1, Invariance, PTL DEF Spec, FinalStatusKept

----------------------------------------------------------------------------
(* The files.                                                              *)

\* A step that leaves the files and the writers of files alone, lets nobody rely on
\* a file who did not before, and stores no row.
LEMMA FilesKept ==
    ASSUME FilesInv, UNCHANGED <<elf, inputs>>,
           \A r \in Requests :
               /\ handler[r] \in {"writing_elf", "torn_elf"} => handler'[r] \in {"writing_elf", "torn_elf"}
               /\ handler[r] \in {"writing", "torn"} => handler'[r] \in {"writing", "torn"}
               /\ handler'[r] \in {"has_elf", "writing", "stored", "inserted", "accepted"} =>
                      handler[r] \in {"has_elf", "writing", "stored", "inserted", "accepted"}
               /\ handler'[r] = "stored" => handler[r] = "stored",
           \A p \in Proofs : row'[p].status # "Absent" =>
               \/ row[p].status # "Absent"
               \/ \E r \in Requests : IdOf(r) = p /\ handler[r] = "stored"
    PROVE  FilesInv'
  <1>1. \A e \in Programs : elf'[e] = "torn" =>
            \E w \in Requests : ElfOf(w) = e /\ handler'[w] \in {"writing_elf", "torn_elf"}
    BY DEF FilesInv
  <1>2. \A p \in Proofs : inputs'[p] = "torn" =>
            \E w \in Requests : IdOf(w) = p /\ handler'[w] \in {"writing", "torn"}
    BY DEF FilesInv
  <1>3. \A r \in Requests :
            /\ handler'[r] \in {"has_elf", "writing", "stored", "inserted", "accepted"}
                  => elf'[ElfOf(r)] # "none"
            /\ handler'[r] = "stored" => inputs'[IdOf(r)] # "none"
    BY DEF FilesInv
  <1>4. \A p \in Proofs : row'[p].status # "Absent" => inputs'[p] # "none"
    BY DEF FilesInv
  <1>5. QED
    BY <1>1, <1>2, <1>3, <1>4 DEF FilesInv

LEMMA CheckElfFiles ==
    ASSUME TypeOK, FilesInv, NEW r \in Requests, CheckElf(r)
    PROVE  FilesInv'
  <1>1. /\ UNCHANGED <<row, elf, inputs>> /\ handler[r] = "new" /\ ElfOf(r) \in Programs
        /\ handler' = [handler EXCEPT ![r] = IF elf[ElfOf(r)] = "none" THEN "no_elf" ELSE "has_elf"]
    BY LifecycleAssumption DEF CheckElf, disk
  <1>2. /\ \A q \in Requests : q # r => handler'[q] = handler[q]
        /\ handler'[r] = IF elf[ElfOf(r)] = "none" THEN "no_elf" ELSE "has_elf"
    BY <1>1 DEF TypeOK
  <1>3. /\ \A e \in Programs : elf'[e] = "torn" =>
              \E w \in Requests : ElfOf(w) = e /\ handler'[w] \in {"writing_elf", "torn_elf"}
        /\ \A p \in Proofs : inputs'[p] = "torn" =>
              \E w \in Requests : IdOf(w) = p /\ handler'[w] \in {"writing", "torn"}
    BY <1>1, <1>2 DEF FilesInv
  <1>4. QED
    BY <1>1, <1>2, <1>3 DEF FilesInv

LEMMA OpenElfFiles ==
    ASSUME TypeOK, FilesInv, NEW r \in Requests, OpenElf(r)
    PROVE  FilesInv'
  <1>1. /\ UNCHANGED <<row, inputs>> /\ handler[r] = "no_elf" /\ ElfOf(r) \in Programs
        /\ elf' = [elf EXCEPT ![ElfOf(r)] = "torn"] /\ handler' = [handler EXCEPT ![r] = "writing_elf"]
    BY LifecycleAssumption DEF OpenElf
  <1>2. /\ \A q \in Requests : q # r => handler'[q] = handler[q]
        /\ handler'[r] = "writing_elf" /\ elf'[ElfOf(r)] = "torn"
        /\ \A e \in Programs : e # ElfOf(r) => elf'[e] = elf[e]
    BY <1>1 DEF TypeOK
  <1>3. \A e \in Programs : elf'[e] = "torn" =>
            \E w \in Requests : ElfOf(w) = e /\ handler'[w] \in {"writing_elf", "torn_elf"}
    BY <1>1, <1>2 DEF FilesInv
  <1>4. \A p \in Proofs : inputs'[p] = "torn" =>
            \E w \in Requests : IdOf(w) = p /\ handler'[w] \in {"writing", "torn"}
    BY <1>1, <1>2 DEF FilesInv
  <1>5. QED
    BY <1>1, <1>2, <1>3, <1>4, LifecycleAssumption DEF FilesInv

LEMMA WriteElfFiles ==
    ASSUME TypeOK, FilesInv, NEW r \in Requests, WriteElf(r)
    PROVE  FilesInv'
  <1> DEFINE others == {w \in Requests \ {r} : /\ ElfOf(w) = ElfOf(r)
                                              /\ handler[w] \in {"writing_elf", "torn_elf"}}
  <1>1. /\ UNCHANGED <<row, inputs>> /\ handler[r] = "writing_elf" /\ ElfOf(r) \in Programs
        /\ handler' = [handler EXCEPT ![r] = "has_elf"]
    BY LifecycleAssumption DEF WriteElf
  <1>2. PICK f \in Filled(others) : elf' = [elf EXCEPT ![ElfOf(r)] = f]
    BY DEF WriteElf
  <1>3. /\ \A q \in Requests : q # r => handler'[q] = handler[q]
        /\ handler'[r] = "has_elf" /\ elf'[ElfOf(r)] = f
        /\ \A e \in Programs : e # ElfOf(r) => elf'[e] = elf[e]
    BY <1>1, <1>2 DEF TypeOK
  <1>4. f # "none" /\ (f = "torn" => others # {})
    BY DEF Filled
  <1>5. \A e \in Programs : elf'[e] = "torn" =>
            \E w \in Requests : ElfOf(w) = e /\ handler'[w] \in {"writing_elf", "torn_elf"}
    BY <1>3, <1>4 DEF FilesInv
  <1>6. \A p \in Proofs : inputs'[p] = "torn" =>
            \E w \in Requests : IdOf(w) = p /\ handler'[w] \in {"writing", "torn"}
    BY <1>1, <1>3 DEF FilesInv
  <1>7. QED
    BY <1>1, <1>3, <1>4, <1>5, <1>6, LifecycleAssumption DEF FilesInv

LEMMA OpenInputsFiles ==
    ASSUME TypeOK, FilesInv, NEW r \in Requests, OpenInputs(r)
    PROVE  FilesInv'
  <1>1. /\ UNCHANGED <<row, elf>> /\ handler[r] = "has_elf" /\ IdOf(r) \in Proofs
        /\ inputs' = [inputs EXCEPT ![IdOf(r)] = "torn"] /\ handler' = [handler EXCEPT ![r] = "writing"]
    BY LifecycleAssumption DEF OpenInputs
  <1>2. /\ \A q \in Requests : q # r => handler'[q] = handler[q]
        /\ handler'[r] = "writing" /\ inputs'[IdOf(r)] = "torn"
        /\ \A p \in Proofs : p # IdOf(r) => inputs'[p] = inputs[p]
    BY <1>1 DEF TypeOK
  <1>3. \A e \in Programs : elf'[e] = "torn" =>
            \E w \in Requests : ElfOf(w) = e /\ handler'[w] \in {"writing_elf", "torn_elf"}
    BY <1>1, <1>2 DEF FilesInv
  <1>4. \A p \in Proofs : inputs'[p] = "torn" =>
            \E w \in Requests : IdOf(w) = p /\ handler'[w] \in {"writing", "torn"}
    BY <1>1, <1>2 DEF FilesInv
  <1>5. QED
    BY <1>1, <1>2, <1>3, <1>4, LifecycleAssumption DEF FilesInv

LEMMA WriteInputsFiles ==
    ASSUME TypeOK, FilesInv, NEW r \in Requests, WriteInputs(r)
    PROVE  FilesInv'
  <1> DEFINE others == {w \in Requests \ {r} : /\ IdOf(w) = IdOf(r)
                                              /\ handler[w] \in {"writing", "torn"}}
  <1>1. /\ UNCHANGED <<row, elf>> /\ handler[r] = "writing" /\ IdOf(r) \in Proofs
        /\ handler' = [handler EXCEPT ![r] = "stored"]
    BY LifecycleAssumption DEF WriteInputs
  <1>2. PICK f \in Filled(others) : inputs' = [inputs EXCEPT ![IdOf(r)] = f]
    BY DEF WriteInputs
  <1>3. /\ \A q \in Requests : q # r => handler'[q] = handler[q]
        /\ handler'[r] = "stored" /\ inputs'[IdOf(r)] = f
        /\ \A p \in Proofs : p # IdOf(r) => inputs'[p] = inputs[p]
    BY <1>1, <1>2 DEF TypeOK
  <1>4. f # "none" /\ (f = "torn" => others # {})
    BY DEF Filled
  <1>5. \A e \in Programs : elf'[e] = "torn" =>
            \E w \in Requests : ElfOf(w) = e /\ handler'[w] \in {"writing_elf", "torn_elf"}
    BY <1>1, <1>3 DEF FilesInv
  <1>6. \A p \in Proofs : inputs'[p] = "torn" =>
            \E w \in Requests : IdOf(w) = p /\ handler'[w] \in {"writing", "torn"}
    BY <1>3, <1>4 DEF FilesInv
  <1>7. QED
    BY <1>1, <1>3, <1>4, <1>5, <1>6, LifecycleAssumption DEF FilesInv

LEMMA FilesStep ==
    ASSUME IInv, FilesInv, [Next]_vars
    PROVE  FilesInv'
  <1> USE DEF IInv
  <1>1. ASSUME NEW r \in Requests, Reject(r) \/ WriteFails(r) \/ Leave(r) \/ Insert(r) \/ Send(r)
        PROVE  FilesInv'
    <2>1. UNCHANGED <<elf, inputs>>
      BY <1>1 DEF Reject, WriteFails, Leave, Insert, Send, disk
    <2>2. \A q \in Requests : q # r => handler'[q] = handler[q]
      BY <1>1 DEF Reject, WriteFails, Leave, Insert, Send, TypeOK
    <2>3. \/ handler[r] \in {"new", "has_elf", "stored"} /\ handler'[r] \in {"invalid", "gone", "refused"}
          \/ handler[r] = "inserted" /\ handler'[r] \in {"gone", "accepted"}
          \/ handler[r] = "stored" /\ handler'[r] = "inserted"
          \/ handler[r] = "writing_elf" /\ handler'[r] = "torn_elf"
          \/ handler[r] = "writing" /\ handler'[r] = "torn"
      BY <1>1 DEF Reject, WriteFails, Leave, Insert, Send, TypeOK
    <2>4. \A p \in Proofs : row'[p] = row[p] \/ (IdOf(r) = p /\ handler[r] = "stored")
      BY <1>1 DEF Reject, WriteFails, Leave, Insert, Send, TypeOK
    <2>5. QED
      BY <2>1, <2>2, <2>3, <2>4, FilesKept
  <1>2. ASSUME NEW s \in Slots, Spawn(s) \/ Run(s) \/ Heartbeat(s) \/ Panic(s)
        PROVE  FilesInv'
    <2>1. UNCHANGED <<elf, inputs, handler>>
      BY <1>2, RunSteps DEF Spawn, KeepsPermit, GivesBack, disk
    <2>2. CASE Spawn(s)
      BY <2>1, <2>2, FilesKept DEF Spawn
    <2>3. CASE KeepsPermit(s) \/ GivesBack(s)
      <3>1. Busy(s) /\ Id(s) \in Proofs
        BY <2>3, BusyRun DEF KeepsPermit, GivesBack
      <3>2. IsComputing(Id(s))
        BY <3>1 DEF HeldIsComputing
      <3>3. \A q \in Proofs : q # Id(s) => row'[q] = row[q]
        BY <2>3, <3>1, CheckAtRow, StatusRow DEF KeepsPermit, GivesBack, Step
      <3>4. \A q \in Proofs : row'[q].status # "Absent" => row[q].status # "Absent"
        BY <3>2, <3>3 DEF IsComputing
      <3>5. QED
        BY <2>1, <3>4, FilesKept
    <2>4. QED
      BY <1>2, <2>2, <2>3, RunSteps
  <1>3. CASE Crash
    <2>1. UNCHANGED <<row, elf, inputs>>
      BY <1>3 DEF Crash, disk
    <2>2. \A q \in Requests : handler'[q] =
              IF handler[q] \in {"no_elf", "has_elf", "stored", "inserted"} THEN "gone"
              ELSE IF handler[q] = "writing_elf" THEN "torn_elf"
              ELSE IF handler[q] = "writing" THEN "torn" ELSE handler[q]
      BY <1>3 DEF Crash
    <2>3. QED
      BY <2>1, <2>2, FilesKept
  <1>4. CASE Recv \/ Restart \/ ClockTick \/ UNCHANGED vars
    <2>1. UNCHANGED <<row, elf, inputs, handler>>
      BY <1>4 DEF Recv, Restart, ClockTick, vars, disk, memory
    <2>2. QED
      BY <2>1, FilesKept
  <1>5. QED
    BY <1>1, <1>2, <1>3, <1>4, CheckElfFiles, OpenElfFiles, WriteElfFiles, OpenInputsFiles,
       WriteInputsFiles
       DEF Next, Handle

\* A stored proof has its inputs, and an accepted request its elf, whole on disk,
\* unless another request is writing the file or was cut off while it did.
THEOREM FilesAreIntact == Spec => []FilesIntact
  <1>1. Init => FilesInv
    BY DEF Init, FilesInv, NoRow
  <1>2. ASSUME IInv, FilesInv PROVE FilesIntact
    <2> SUFFICES ASSUME NEW r \in Requests, row[IdOf(r)].status # "Absent"
                 PROVE  /\ \/ inputs[IdOf(r)] = "whole"
                           \/ \E w \in Requests : IdOf(w) = IdOf(r) /\ handler[w] \in {"writing", "torn"}
                        /\ handler[r] \in {"inserted", "accepted"} =>
                           \/ elf[ElfOf(r)] = "whole"
                           \/ \E w \in Requests : /\ ElfOf(w) = ElfOf(r)
                                                  /\ handler[w] \in {"writing_elf", "torn_elf"}
      BY DEF FilesIntact
    <2>1. IdOf(r) \in Proofs /\ ElfOf(r) \in Programs
      BY LifecycleAssumption
    <2>2. inputs[IdOf(r)] \in File /\ elf[ElfOf(r)] \in File
      BY <1>2, <2>1 DEF IInv, TypeOK
    <2>3. QED
      BY <1>2, <2>1, <2>2 DEF FilesInv, File
  <1>3. QED
    BY <1>1, <1>2, Invariance, FilesStep, PTL DEF Spec

----------------------------------------------------------------------------
(* What a run knows of its row.                                            *)

LEMMA KnownKept ==
    ASSUME RowsKnown, UNCHANGED <<row, queue, hand, slot, crashes, up>>,
           \A r \in Requests : Sending(r)' => Sending(r)
    PROVE  RowsKnown'
  BY DEF RowsKnown, Knows, Id

LEMMA InsertKnown ==
    ASSUME IInv, RowsKnown, NEW r \in Requests, Insert(r)
    PROVE  RowsKnown'
  <1> DEFINE p == IdOf(r)
  <1>1. /\ UNCHANGED <<queue, hand, slot, crashes, up>> /\ p \in Proofs
    BY LifecycleAssumption DEF Insert
  <1>2. CASE row[p].status # "Absent"
    <2>1. row' = row /\ handler' = [handler EXCEPT ![r] = "refused"]
      BY <1>2 DEF Insert
    <2>2. \A q \in Requests : Sending(q)' => Sending(q)
      BY <2>1 DEF Sending, IInv, TypeOK
    <2>3. QED
      BY <1>1, <2>1, <2>2, KnownKept
  <1>3. CASE row[p].status = "Absent"
    <2>1. /\ row' = [row EXCEPT ![p].status = "Computing"]
          /\ handler' = [handler EXCEPT ![r] = "inserted"]
      BY <1>3 DEF Insert
    <2>2. \A q \in Requests : Sending(q)' => Sending(q) \/ q = r
      BY <2>1 DEF Sending, IInv, TypeOK
    <2>3. \A q \in Proofs : q # p => row'[q] = row[q]
      BY <2>1 DEF IInv, TypeOK
    <2>4. row[p] = NoRow
      BY <1>1, <1>3 DEF RowsKnown
    <2>5. row'[p].status = "Computing" /\ row'[p].check_at = 0 /\ row'[p].step = "Init"
      BY <1>1, <2>1, <2>4 DEF NoRow, IInv, TypeOK
    <2>6. /\ \A q \in Requests : Sending(q) => IdOf(q) # p /\ IdOf(q) \in Proofs
          /\ \A i \in DOMAIN queue : queue[i].id # p /\ queue[i].id \in Proofs
          /\ \A h \in DOMAIN hand : hand[h].id # p /\ hand[h].id \in Proofs
          /\ \A s \in Slots : Busy(s) => Id(s) # p /\ Id(s) \in Proofs
      BY <1>3, HeldIds DEF IInv, HeldIsComputing, IsComputing
    <2>7. /\ \A q \in Proofs : row'[q].status = "Absent" => row'[q] = NoRow
          /\ \A q \in Requests : Sending(q)' => row'[IdOf(q)].check_at = 0 /\ row'[IdOf(q)].step = "Init"
      BY <2>2, <2>3, <2>5, <2>6 DEF RowsKnown
    <2>8. /\ \A i \in DOMAIN queue' : Knows(queue[i])'
          /\ \A h \in DOMAIN hand' : Knows(hand[h])'
      BY <1>1, <2>3, <2>6 DEF RowsKnown, Knows
    <2>9. \A s \in Slots : /\ slot'[s].at \in {"begin", "record"} => Knows(slot[s].task)'
                           /\ slot'[s].at = "run" => row'[Id(s)'].check_at = slot'[s].task.check_at
      BY <1>1, <2>3, <2>6 DEF RowsKnown, Knows, Busy, Id
    <2>10. QED
      BY <1>1, <2>7, <2>8, <2>9 DEF RowsKnown
  <1>4. QED
    BY <1>2, <1>3

LEMMA SendKnown ==
    ASSUME IInv, RowsKnown, NEW r \in Requests, Send(r)
    PROVE  RowsKnown'
  <1> DEFINE task == Task(IdOf(r), "Init", 0)
  <1>1. /\ Sending(r) /\ queue' = Append(queue, task)
        /\ UNCHANGED <<row, hand, slot, crashes, up>>
        /\ handler' = [handler EXCEPT ![r] = "accepted"]
    BY DEF Send, Sending
  <1>2. \A q \in Requests : Sending(q)' => Sending(q)
    BY <1>1 DEF Sending, IInv, TypeOK
  <1>3. task.id = IdOf(r) /\ task.step = "Init" /\ task.check_at = 0
    BY DEF Task
  <1>4. Knows(task)
    BY <1>1, <1>3 DEF Knows, RowsKnown
  <1> HIDE DEF task
  <1>5. \A i \in DOMAIN queue' : (i \in DOMAIN queue /\ queue'[i] = queue[i]) \/ queue'[i] = task
    BY <1>1 DEF IInv, TypeOK
  <1>6. QED
    BY <1>1, <1>2, <1>3, <1>4, <1>5 DEF RowsKnown, Knows, Id

LEMMA RecvKnown ==
    ASSUME IInv, RowsKnown, Recv
    PROVE  RowsKnown'
  <1>1. /\ queue # <<>> /\ hand' = <<Head(queue)>> /\ queue' = Tail(queue)
        /\ UNCHANGED <<row, handler, slot, crashes, up>>
    BY DEF Recv
  <1>2. queue \in Seq(TaskType)
    BY DEF IInv, TypeOK
  <1>3. /\ 1 \in DOMAIN queue /\ Head(queue) = queue[1]
        /\ \A i \in DOMAIN queue' : i + 1 \in DOMAIN queue /\ queue'[i] = queue[i + 1]
    BY <1>1, <1>2
  <1>4. \A h \in DOMAIN hand' : hand'[h] = queue[1]
    BY <1>1, <1>3
  <1>5. QED
    BY <1>1, <1>3, <1>4 DEF RowsKnown, Knows, Id, Sending

LEMMA SpawnKnown ==
    ASSUME IInv, RowsKnown, NEW s \in Slots, Spawn(s)
    PROVE  RowsKnown'
  <1>1. /\ hand # <<>> /\ hand' = <<>>
        /\ slot' = [slot EXCEPT ![s] = [at |-> "begin", task |-> hand[1], now |-> clock]]
        /\ UNCHANGED <<row, handler, queue, crashes, up>>
    BY DEF Spawn
  <1>2. 1 \in DOMAIN hand
    <2>1. hand \in Seq(TaskType)
      BY DEF IInv, TypeOK
    <2>2. Len(hand) \in Nat \ {0}
      BY <1>1, <2>1, EmptySeq, Zenon
    <2>3. QED
      BY <2>1, <2>2
  <1>3. /\ slot'[s].at = "begin" /\ slot'[s].task = hand[1]
        /\ \A t \in Slots : t # s => slot'[t] = slot[t]
        /\ DOMAIN hand' = {}
    BY <1>1 DEF IInv, TypeOK
  <1>4. QED
    BY <1>1, <1>2, <1>3 DEF RowsKnown, Knows, Id, Sending

\* A step of the run under permit s, which writes no row but its own.
LEMMA RunKnown ==
    ASSUME IInv, RowsKnown, NEW s \in Slots, Busy(s),
           UNCHANGED <<handler, queue, hand, crashes, up>>,
           \A q \in Proofs : q # Id(s) => row'[q] = row[q],
           row'[Id(s)].status # "Absent",
           \A t \in Slots : t # s => slot'[t] = slot[t],
           slot'[s].at # "begin",
           slot'[s].at = "record" => Knows(slot[s].task)',
           slot'[s].at = "run" => row'[Id(s)'].check_at = slot'[s].task.check_at
    PROVE  RowsKnown'
  <1>1. /\ \A r \in Requests : Sending(r) => IdOf(r) # Id(s) /\ IdOf(r) \in Proofs
        /\ \A i \in DOMAIN queue : queue[i].id # Id(s) /\ queue[i].id \in Proofs
        /\ \A h \in DOMAIN hand : hand[h].id # Id(s) /\ hand[h].id \in Proofs
        /\ \A t \in Slots : Busy(t) => Id(t) \in Proofs /\ (Id(t) = Id(s) => t = s)
    BY HeldIds DEF IInv, OneCustodian
  <1>2. /\ \A q \in Proofs : row'[q].status = "Absent" => row'[q] = NoRow
        /\ \A r \in Requests : Sending(r)' => row'[IdOf(r)].check_at = 0 /\ row'[IdOf(r)].step = "Init"
    BY <1>1 DEF RowsKnown, Sending
  <1>3. /\ \A i \in DOMAIN queue' : Knows(queue[i])'
        /\ \A h \in DOMAIN hand' : Knows(hand[h])'
    BY <1>1 DEF RowsKnown, Knows
  <1>4. \A t \in Slots : /\ slot'[t].at \in {"begin", "record"} => Knows(slot[t].task)'
                         /\ slot'[t].at = "run" => row'[Id(t)'].check_at = slot'[t].task.check_at
    <2> SUFFICES ASSUME NEW t \in Slots
                 PROVE  /\ slot'[t].at \in {"begin", "record"} => Knows(slot[t].task)'
                        /\ slot'[t].at = "run" => row'[Id(t)'].check_at = slot'[t].task.check_at
      OBVIOUS
    <2>1. CASE t = s
      BY <2>1
    <2>2. CASE t # s
      <3>1. slot'[t] = slot[t] /\ (Busy(t) => row'[Id(t)] = row[Id(t)])
        BY <1>1, <2>2
      <3>2. QED
        BY <3>1 DEF RowsKnown, Knows, Busy, Id
    <2>3. QED
      BY <2>1, <2>2
  <1>5. QED
    BY <1>2, <1>3, <1>4 DEF RowsKnown

\* The steps of run_stage_task, while no update fails.
LEMMA RunStepsKnown ==
    ASSUME ~IoErrors, IInv, RowsKnown, NEW s \in Slots, Run(s) \/ Heartbeat(s) \/ Panic(s)
    PROVE  RowsKnown'
  <1>1. slot[s].at \in {"begin", "record", "run", "save"} => Busy(s)
    BY DEF Busy
  <1>2. /\ Busy(s) /\ UNCHANGED <<handler, queue, hand, crashes, up, clock>>
        /\ \A t \in Slots : t # s => slot'[t] = slot[t]
    <2>1. KeepsPermit(s) \/ GivesBack(s)
      BY RunSteps DEF IInv
    <2>2. QED
      BY <2>1 DEF KeepsPermit, GivesBack, IInv, TypeOK
  <1>3. /\ TypeOK /\ slot[s] \in RunType /\ Id(s) \in Proofs /\ slot[s].now \in 0..clock
        /\ clock \in 0..clock /\ 0 \in 0..clock /\ row[Id(s)].status = "Computing"
    <2>1. TypeOK /\ IsComputing(Id(s))
      BY <1>2 DEF IInv, HeldIsComputing
    <2>2. clock \in 0..clock /\ 0 \in 0..clock
      BY <2>1 DEF TypeOK
    <2>3. QED
      BY <1>2, <2>1, <2>2, BusyRun DEF IsComputing
  <1>4. ASSUME NEW new \in 0..clock, NEW step \in Step,
               row' = UpdateCheckAt(Id(s), slot[s].task.check_at, new, step)
        PROVE  /\ \A q \in Proofs : q # Id(s) => row'[q] = row[q]
               /\ row'[Id(s)].status # "Absent"
               /\ row[Id(s)].check_at = slot[s].task.check_at => row'[Id(s)].check_at = new
    BY <1>2, <1>3, <1>4, CheckAtRow
  <1>5. ASSUME NEW status \in Final, row' = UpdateStatus(Id(s), status)
        PROVE  /\ \A q \in Proofs : q # Id(s) => row'[q] = row[q]
               /\ row'[Id(s)].status # "Absent"
    BY <1>2, <1>3, <1>5, StatusRow DEF Final
  <1>6. CASE BeginStage(s)
    <2>1. /\ slot[s].at = "begin"
          /\ row' = UpdateCheckAt(Id(s), slot[s].task.check_at, slot[s].now, "Prove")
          /\ slot' = [slot EXCEPT ![s].at = "run", ![s].task.check_at = slot[s].now]
      BY <1>6 DEF BeginStage, At
    <2>2. slot'[s].at = "run" /\ slot'[s].task.check_at = slot[s].now /\ Id(s)' = Id(s)
      BY <1>3, <2>1 DEF TypeOK, RunType, TaskType, Id
    <2>3. row[Id(s)].check_at = slot[s].task.check_at
      BY <2>1 DEF RowsKnown, Knows, Id
    <2>4. QED
      BY <1>2, <1>3, <1>4, <2>1, <2>2, <2>3, RunKnown DEF Step
  <1>7. CASE RecordSingle(s)
    <2>1. /\ slot[s].at = "record"
          /\ row' = UpdateCheckAt(Id(s), slot[s].task.check_at, slot[s].now, "Prove")
          /\ slot' = [slot EXCEPT ![s].at = "run", ![s].task.check_at = slot[s].now]
      BY <1>7 DEF RecordSingle, At
    <2>2. slot'[s].at = "run" /\ slot'[s].task.check_at = slot[s].now /\ Id(s)' = Id(s)
      BY <1>3, <2>1 DEF TypeOK, RunType, TaskType, Id
    <2>3. row[Id(s)].check_at = slot[s].task.check_at
      BY <2>1 DEF RowsKnown, Knows, Id
    <2>4. QED
      BY <1>2, <1>3, <1>4, <2>1, <2>2, <2>3, RunKnown DEF Step
  <1>8. CASE Heartbeat(s)
    <2>1. row[Id(s)].check_at = slot[s].task.check_at
      BY <1>8 DEF Heartbeat, At, RowsKnown, Id
    <2>2. /\ slot[s].at = "run"
          /\ row' = UpdateCheckAt(Id(s), slot[s].task.check_at, clock, "Prove")
          /\ slot' = [slot EXCEPT ![s].task.check_at = clock]
      BY <1>8, <2>1 DEF Heartbeat, At, CheckAtHits
    <2>3. slot'[s].at = "run" /\ slot'[s].task.check_at = clock /\ Id(s)' = Id(s)
      BY <1>3, <2>2 DEF TypeOK, RunType, TaskType, Id
    <2>4. QED
      BY <1>2, <1>3, <1>4, <2>1, <2>2, <2>3, RunKnown DEF Step
  <1>9. CASE BeginSingle(s)
    <2>1. /\ slot[s].at = "begin" /\ row' = row
          /\ slot' = [slot EXCEPT ![s].at = "record"] \/ slot' = [slot EXCEPT ![s] = Free]
      BY <1>9 DEF BeginSingle, At
    <2>2. (slot'[s].at = "record" /\ slot'[s].task = slot[s].task) \/ slot'[s].at = "free"
      BY <1>3, <2>1 DEF TypeOK, RunType, Free
    <2>3. Knows(slot[s].task)
      BY <2>1 DEF RowsKnown
    <2>4. QED
      BY <1>2, <1>3, <2>1, <2>2, <2>3, RunKnown DEF Knows
  <1>10. CASE EndSuccess(s)
    <2>1. /\ row' = UpdateCheckAt(Id(s), slot[s].task.check_at, Duration, "End")
          /\ slot' = [slot EXCEPT ![s].at = "save"]
      BY <1>10 DEF EndSuccess
    <2>2. slot'[s].at = "save"
      BY <1>3, <2>1 DEF TypeOK, RunType
    <2>3. QED
      BY <1>2, <1>3, <1>4, <2>1, <2>2, RunKnown DEF Step, Duration
  <1>11. CASE EndError(s) \/ SaveStatus(s)
    <2>1. /\ \E status \in Final : row' = UpdateStatus(Id(s), status)
          /\ slot' = [slot EXCEPT ![s] = Free]
      BY <1>11 DEF EndError, SaveStatus, Final
    <2>2. slot'[s].at = "free"
      BY <1>3, <2>1 DEF TypeOK, Free
    <2>3. QED
      BY <1>2, <1>5, <2>1, <2>2, RunKnown
  <1>12. CASE RunDies(s)
    <2>1. row' = row /\ slot' = [slot EXCEPT ![s] = Free]
      BY <1>12 DEF RunDies
    <2>2. slot'[s].at = "free"
      BY <1>3, <2>1 DEF TypeOK, Free
    <2>3. QED
      BY <1>2, <1>3, <2>1, <2>2, RunKnown
  <1>13. QED
    BY <1>6, <1>7, <1>8, <1>9, <1>10, <1>11, <1>12 DEF Run, Panic

LEMMA RestartKnown ==
    ASSUME IInv, RowsKnown, Restart
    PROVE  RowsKnown'
  <1>1. /\ ~up /\ UNCHANGED <<row, handler, hand, slot, crashes>>
    BY DEF Restart
  <1>2. PICK s \in Loaded(clock') :
            queue' = [i \in DOMAIN s |-> Task(s[i], row[s[i]].step, row[s[i]].check_at)]
    BY DEF Restart
  <1>3. \A i \in DOMAIN queue' : Knows(queue[i])'
    BY <1>1, <1>2 DEF Knows, Task
  <1>4. QED
    BY <1>1, <1>3 DEF RowsKnown, Knows, Id, Sending

LEMMA KnownStep ==
    ASSUME ~IoErrors, IInv, RowsKnown, [Next]_vars
    PROVE  RowsKnown'
  <1>1. ASSUME NEW r \in Requests,
               \/ Reject(r) \/ CheckElf(r) \/ OpenElf(r) \/ WriteElf(r) \/ OpenInputs(r) \/ WriteInputs(r)
               \/ WriteFails(r) \/ Leave(r)
        PROVE  RowsKnown'
    <2>1. UNCHANGED <<row, queue, hand, slot, crashes, up>>
      BY <1>1 DEF Reject, CheckElf, OpenElf, WriteElf, OpenInputs, WriteInputs, WriteFails, Leave
    <2>2. \A q \in Requests : Sending(q)' => Sending(q)
      BY <1>1 DEF Reject, CheckElf, OpenElf, WriteElf, OpenInputs, WriteInputs, WriteFails, Leave,
                  Sending, IInv, TypeOK
    <2>3. QED
      BY <2>1, <2>2, KnownKept
  <1>2. CASE Crash
    <2>1. /\ row' = row /\ DOMAIN queue' = {} /\ DOMAIN hand' = {}
          /\ slot' = [s \in Slots |-> Free]
          /\ \A q \in Requests : ~Sending(q)'
      BY <1>2 DEF Crash, Sending
    <2>2. \A s \in Slots : slot'[s].at = "free"
      BY <2>1 DEF Free
    <2>3. QED
      BY <2>1, <2>2 DEF RowsKnown
  <1>3. CASE ClockTick \/ UNCHANGED vars
    <2>1. UNCHANGED <<row, queue, hand, slot, crashes, up, handler>>
      BY <1>3 DEF ClockTick, vars, memory
    <2>2. QED
      BY <2>1, KnownKept DEF Sending
  <1>4. QED
    BY <1>1, <1>2, <1>3, InsertKnown, SendKnown, RecvKnown, SpawnKnown, RunStepsKnown, RestartKnown
       DEF Next, Handle

LEMMA KnownInvariance ==
    ASSUME ~IoErrors
    PROVE  Spec => []RowsKnown
  <1>1. Init => RowsKnown
    <2> SUFFICES ASSUME Init PROVE RowsKnown
      OBVIOUS
    <2>1. DOMAIN queue = {} /\ DOMAIN hand = {} /\ up
      BY DEF Init
    <2>2. /\ \A p \in Proofs : row[p] = NoRow
          /\ \A r \in Requests : ~Sending(r)
          /\ \A s \in Slots : slot[s].at = "free"
      BY DEF Init, Sending, Free
    <2>3. QED
      BY <2>1, <2>2 DEF RowsKnown
  <1>2. RowsKnown /\ IInv /\ [Next]_vars => RowsKnown'
    BY KnownStep
  <1>3. QED
    BY <1>1, <1>2, Invariance, PTL DEF Spec

\* While no database update fails, a run knows the check_at of its row until it has
\* written its duration there: none of its updates misses the row.
THEOREM UpdatesHit ==
    ASSUME ~IoErrors
    PROVE  Spec => []CheckAtKnown
  <1>1. ASSUME IInv, RowsKnown PROVE CheckAtKnown
    <2> SUFFICES ASSUME NEW s \in Slots, slot[s].at \notin {"free", "save"}
                 PROVE  row[Id(s)].check_at = slot[s].task.check_at
      BY DEF CheckAtKnown
    <2>1. slot[s].at \in {"begin", "record", "run"}
      BY <1>1, BusyRun DEF IInv, Busy, RunType
    <2>2. QED
      BY <1>1, <2>1 DEF RowsKnown, Knows, Id
  <1>2. QED
    BY <1>1, Invariance, KnownInvariance, PTL

----------------------------------------------------------------------------
(* Nothing that is Computing is left lying.                                *)

\* The steps that keep a task's step, or put one there that a request made.
LEMMA FirstLifeStep ==
    ASSUME IInv, FirstLife, [Next]_vars
    PROVE  FirstLife'
  <1>1. ASSUME UNCHANGED <<queue, hand, slot, crashes, up>> PROVE FirstLife'
    BY <1>1 DEF FirstLife
  <1>2. ASSUME NEW r \in Requests, Reject(r) \/ Handle(r) \/ WriteFails(r) \/ Leave(r)
        PROVE  FirstLife'
    <2>1. Send(r) \/ UNCHANGED <<queue, hand, slot, crashes, up>>
      BY <1>2 DEF Handle, Reject, CheckElf, OpenElf, WriteElf, OpenInputs, WriteInputs, Insert,
                  WriteFails, Leave
    <2>2. CASE Send(r)
      <3>1. /\ queue' = Append(queue, Task(IdOf(r), "Init", 0))
            /\ UNCHANGED <<hand, slot, crashes, up>>
        BY <2>2 DEF Send
      <3>2. Task(IdOf(r), "Init", 0).step = "Init"
        BY DEF Task
      <3>3. \A i \in DOMAIN queue' :
                (i \in DOMAIN queue /\ queue'[i] = queue[i]) \/ queue'[i].step = "Init"
        BY <3>1, <3>2 DEF IInv, TypeOK
      <3>4. QED
        BY <3>1, <3>3 DEF FirstLife
    <2>3. QED
      BY <1>1, <2>1, <2>2
  <1>3. CASE Recv
    <2>1. /\ queue # <<>> /\ hand' = <<Head(queue)>> /\ queue' = Tail(queue)
          /\ UNCHANGED <<slot, crashes, up>> /\ queue \in Seq(TaskType)
      BY <1>3 DEF Recv, IInv, TypeOK
    <2>2. /\ 1 \in DOMAIN queue /\ Head(queue) = queue[1]
          /\ \A i \in DOMAIN queue' : i + 1 \in DOMAIN queue /\ queue'[i] = queue[i + 1]
      BY <2>1
    <2>3. \A h \in DOMAIN hand' : hand'[h] = queue[1]
      BY <2>1, <2>2
    <2>4. QED
      BY <2>1, <2>2, <2>3 DEF FirstLife
  <1>4. ASSUME NEW s \in Slots, Spawn(s) PROVE FirstLife'
    <2>1. /\ hand # <<>> /\ hand' = <<>> /\ UNCHANGED <<queue, crashes, up>>
          /\ slot' = [slot EXCEPT ![s] = [at |-> "begin", task |-> hand[1], now |-> clock]]
          /\ hand \in Seq(TaskType)
      BY <1>4 DEF Spawn, IInv, TypeOK
    <2>2. 1 \in DOMAIN hand
      <3>1. Len(hand) \in Nat \ {0}
        BY <2>1, EmptySeq, Zenon
      <3>2. QED
        BY <2>1, <3>1
    <2>3. /\ slot'[s].task = hand[1] /\ DOMAIN hand' = {}
          /\ \A t \in Slots : t # s => slot'[t] = slot[t]
      BY <2>1 DEF IInv, TypeOK
    <2>4. QED
      BY <2>1, <2>2, <2>3 DEF FirstLife
  <1>5. ASSUME NEW s \in Slots, Run(s) \/ Heartbeat(s) \/ Panic(s) PROVE FirstLife'
    <2>1. KeepsPermit(s) \/ GivesBack(s)
      BY <1>5, RunSteps DEF IInv
    <2>2. /\ UNCHANGED <<queue, hand, crashes, up>> /\ Busy(s)
          /\ \A t \in Slots : t # s => slot'[t] = slot[t]
      BY <2>1 DEF KeepsPermit, GivesBack, IInv, TypeOK
    <2>3. slot'[s].at # "begin"
      BY <2>1, <2>2, BusyRun DEF KeepsPermit, GivesBack, IInv, TypeOK, RunType, Free
    <2>4. QED
      BY <2>2, <2>3 DEF FirstLife
  <1>6. CASE Crash \/ Restart
    <2>1. crashes' # 0
      BY <1>6 DEF Crash, Restart, FirstLife, IInv, TypeOK
    <2>2. QED
      BY <2>1 DEF FirstLife
  <1>7. CASE ClockTick \/ UNCHANGED vars
    BY <1>1, <1>7 DEF ClockTick, vars, memory
  <1>8. QED
    BY <1>2, <1>3, <1>4, <1>5, <1>6, <1>7 DEF Next

LEMMA AskedStep ==
    ASSUME IInv, Asked, [Next]_vars
    PROVE  Asked'
  <1>1. \A r \in Requests : handler[r] \in {"inserted", "accepted", "gone"}
                             => handler'[r] \in {"inserted", "accepted", "gone"}
    <2>1. ASSUME NEW q \in Requests, Reject(q) \/ Handle(q) \/ WriteFails(q) \/ Leave(q),
                 NEW r \in Requests, handler[r] \in {"inserted", "accepted", "gone"}
          PROVE  handler'[r] \in {"inserted", "accepted", "gone"}
      BY <2>1 DEF Handle, Reject, CheckElf, OpenElf, WriteElf, OpenInputs, WriteInputs, Insert, Send,
                  WriteFails, Leave, IInv, TypeOK
    <2>2. \A s \in Slots : Spawn(s) \/ Run(s) \/ Heartbeat(s) \/ Panic(s) => handler' = handler
      BY RunSteps DEF IInv, Spawn, KeepsPermit, GivesBack
    <2>3. Recv \/ Restart \/ ClockTick \/ UNCHANGED vars => handler' = handler
      BY DEF Recv, Restart, ClockTick, vars, memory
    <2>4. Crash => \A r \in Requests : handler[r] \in {"inserted", "accepted", "gone"}
                                        => handler'[r] \in {"inserted", "accepted", "gone"}
      BY DEF Crash
    <2>5. QED
      BY <2>1, <2>2, <2>3, <2>4 DEF Next
  <1>2. ASSUME NEW p \in Proofs, row'[p].status # "Absent", row[p].status = "Absent"
        PROVE  \E r \in Requests : IdOf(r) = p /\ handler'[r] = "inserted"
    <2>1. CASE row' = row
      BY <1>2, <2>1
    <2>2. ASSUME NEW r \in Requests, Insert(r), row[IdOf(r)].status = "Absent",
                 row' = [row EXCEPT ![IdOf(r)].status = "Computing"]
          PROVE  IdOf(r) = p /\ handler'[r] = "inserted"
      BY <1>2, <2>2 DEF Insert, IInv, TypeOK
    <2>3. ASSUME NEW s \in Slots, Busy(s), \A q \in Proofs : q # Id(s) => row'[q] = row[q]
          PROVE  FALSE
      BY <1>2, <2>3 DEF IInv, HeldIsComputing, IsComputing
    <2>4. QED
      BY <2>1, <2>2, <2>3, RowSteps
  <1>3. QED
    BY <1>1, <1>2 DEF Asked

----------------------------------------------------------------------------
Handled(p) ==
    \/ \E i \in DOMAIN queue : queue[i].id = p
    \/ \E h \in DOMAIN hand : hand[h].id = p
    \/ \E s \in Slots : Busy(s) /\ Id(s) = p
    \/ \E r \in Requests : Sending(r) /\ IdOf(r) = p
    \/ Excused(p)

Processed == up => \A p \in Proofs : IsComputing(p) => Handled(p)

\* An excuse lasts while the row is left alone.
LEMMA ExcuseKept ==
    ASSUME NEW p \in Proofs, Excused(p), row'[p] = row[p], dropped'[p] = dropped[p],
           crashes' = crashes
    PROVE  Excused(p)'
  BY DEF Excused, AskedTwice

\* A reload passes over what was touched in its own second, and what finds the
\* channel full.
LEMMA LoadedIsAll ==
    ASSUME Cardinality(Proofs) <= QueueCap, TypeOK, NEW now, NEW s \in Loaded(now),
           NEW p \in Proofs, IsComputing(p), row[p].check_at < now
    PROVE  \E i \in DOMAIN s : s[i] = p
  <1> DEFINE incomplete == {q \in Computing : row[q].check_at < now}
             loaded == {s[i] : i \in DOMAIN s}
  <1>1. p \in incomplete
    BY DEF IsComputing, Computing
  <1>2. incomplete \subseteq Proofs
    BY DEF Computing
  <1>3. /\ \E k \in 0..Cardinality(incomplete) : s \in [1..k -> incomplete]
        /\ loaded = incomplete \/ \A q \in incomplete \ loaded : ~FitsQueue(loaded \cup {q})
    BY DEF Loaded
  <1>4. loaded \subseteq Proofs
    BY <1>2, <1>3
  <1>5. p \in loaded
    <2> SUFFICES ASSUME p \notin loaded PROVE FALSE
      OBVIOUS
    <2>1. ~FitsQueue(loaded \cup {p})
      BY <1>1, <1>3
    <2>2. loaded \cup {p} \in SUBSET Proofs
      BY <1>4
    <2> HIDE DEF loaded
    <2>3. IsFiniteSet(loaded \cup {p}) /\ Cardinality(loaded \cup {p}) <= Cardinality(Proofs)
      BY <2>2, FS_Subset, LifecycleAssumption
    <2>4. Cardinality(loaded \cup {p}) \in Nat /\ Cardinality(Proofs) \in Nat
      BY <2>3, FS_CardinalityType, LifecycleAssumption
    <2>5. QED
      BY <2>1, <2>3, <2>4, LifecycleAssumption DEF FitsQueue
  <1>6. QED
    BY <1>5

LEMMA RestartProcessed ==
    ASSUME IInv, Restart
    PROVE  Processed'
  <1>1. row' = row /\ clock' = clock + RestartDelay
    BY DEF Restart
  <1>2. PICK s \in Loaded(clock') :
            /\ queue' = [i \in DOMAIN s |-> Task(s[i], row[s[i]].step, row[s[i]].check_at)]
            /\ dropped' = [p \in Proofs |->
                   IF p \in Computing /\ p \notin {s[i] : i \in DOMAIN s} THEN "skipped" ELSE "no"]
    BY DEF Restart
  <1>3. DOMAIN queue' = DOMAIN s /\ \A i \in DOMAIN s : queue'[i].id = s[i]
    BY <1>2 DEF Task
  <1>4. ASSUME NEW p \in Proofs, IsComputing(p)', \A i \in DOMAIN s : s[i] # p
        PROVE  Excused(p)'
    <2>1. IsComputing(p) /\ dropped'[p] = "skipped"
      BY <1>1, <1>2, <1>4 DEF IsComputing, Computing
    <2>2. Cardinality(Proofs) \in Nat /\ QueueCap \in Nat
      BY LifecycleAssumption, FS_CardinalityType
    <2>3. Cardinality(Proofs) > QueueCap \/ ~(row[p].check_at < clock')
      BY <1>4, <2>1, <2>2, LoadedIsAll DEF IInv
    <2>4. /\ row[p].check_at \in 0..clock /\ clock \in Nat \ {0} /\ RestartDelay \in Nat
      BY LifecycleAssumption DEF IInv, TypeOK, Row
    <2>5. ~(row[p].check_at < clock') => RestartDelay = 0 /\ row[p].check_at > 0
      BY <1>1, <2>4
    <2>6. QED
      BY <1>1, <2>1, <2>3, <2>5 DEF Excused
  <1>5. QED
    BY <1>3, <1>4 DEF Processed, Handled

\* Where a proof goes that is held: one step leaves it there, passes it on, writes
\* its final status, or drops it.
LEMMA HandlerProcessed ==
    ASSUME IInv, Processed, NEW r \in Requests,
           Reject(r) \/ Handle(r) \/ WriteFails(r) \/ Leave(r)
    PROVE  Processed'
  <1>1. /\ up /\ UNCHANGED <<hand, slot, up, crashes>>
    BY DEF Handle, Reject, CheckElf, OpenElf, WriteElf, OpenInputs, WriteInputs, Insert, Send,
           WriteFails, Leave
  <1>2. CASE Insert(r)
    <2>1. /\ UNCHANGED <<queue, dropped>> /\ handler[r] = "stored"
          /\ \/ row' = row /\ handler' = [handler EXCEPT ![r] = "refused"]
             \/ /\ row' = [row EXCEPT ![IdOf(r)].status = "Computing"]
                /\ handler' = [handler EXCEPT ![r] = "inserted"]
      BY <1>2 DEF Insert
    <2>2. \A q \in Requests : Sending(q) => Sending(q)'
      BY <2>1 DEF Sending, IInv, TypeOK
    <2>3. \/ row' = row
          \/ Sending(r)' /\ \A p \in Proofs : p # IdOf(r) => row'[p] = row[p]
      BY <2>1 DEF Sending, IInv, TypeOK
    <2>4. \A p \in Proofs : Handled(p) /\ row'[p] = row[p] => Handled(p)'
      BY <1>1, <2>1, <2>2, ExcuseKept DEF Handled, Busy, Id
    <2>5. QED
      BY <1>1, <2>3, <2>4 DEF Processed, Handled, IsComputing
  <1>3. CASE Send(r)
    <2>1. /\ UNCHANGED <<row, dropped>> /\ queue' = Append(queue, Task(IdOf(r), "Init", 0))
          /\ handler' = [handler EXCEPT ![r] = "accepted"]
      BY <1>3 DEF Send
    <2>2. \A q \in Requests : q # r /\ Sending(q) => Sending(q)'
      BY <2>1 DEF Sending, IInv, TypeOK
    <2>3. Task(IdOf(r), "Init", 0).id = IdOf(r)
      BY DEF Task
    <2>4. /\ \A i \in DOMAIN queue : i \in DOMAIN queue' /\ queue'[i] = queue[i]
          /\ Len(queue) + 1 \in DOMAIN queue' /\ queue'[Len(queue) + 1].id = IdOf(r)
      BY <2>1, <2>3 DEF IInv, TypeOK
    <2>5. \A p \in Proofs : Excused(p) => Excused(p)'
      BY <1>1, <2>1, ExcuseKept
    <2>6. QED
      BY <1>1, <2>1, <2>2, <2>4, <2>5 DEF Processed, Handled, Busy, Id, IsComputing
  <1>4. CASE Leave(r) /\ handler[r] = "inserted"
    <2>1. /\ UNCHANGED <<row, queue>> /\ ClientsLeave /\ IdOf(r) \in Proofs
          /\ handler' = [handler EXCEPT ![r] = "gone"] /\ dropped' = Drop(IdOf(r), "left")
      BY <1>4, LifecycleAssumption DEF Leave, disk
    <2>2. \A q \in Requests : q # r /\ Sending(q) => Sending(q)'
      BY <2>1 DEF Sending, IInv, TypeOK
    <2>3. /\ dropped'[IdOf(r)] = "left"
          /\ \A p \in Proofs : p # IdOf(r) => dropped'[p] = dropped[p]
      BY <2>1 DEF Drop, IInv, TypeOK
    <2>4. Excused(IdOf(r))'
      BY <2>1, <2>3 DEF Excused
    <2>5. \A p \in Proofs : p # IdOf(r) /\ Excused(p) => Excused(p)'
      BY <1>1, <2>1, <2>3, ExcuseKept
    <2>6. QED
      BY <1>1, <2>1, <2>2, <2>4, <2>5 DEF Processed, Handled, Busy, Id, IsComputing
  <1>5. CASE ~Insert(r) /\ ~Send(r) /\ ~(Leave(r) /\ handler[r] = "inserted")
    <2>1. UNCHANGED <<row, queue, dropped>> /\ \A q \in Requests : Sending(q) => Sending(q)'
      BY <1>5 DEF Handle, Reject, CheckElf, OpenElf, WriteElf, OpenInputs, WriteInputs, WriteFails,
                  Leave, Sending, IInv, TypeOK
    <2>2. \A p \in Proofs : Excused(p) => Excused(p)'
      BY <1>1, <2>1, ExcuseKept
    <2>3. QED
      BY <1>1, <2>1, <2>2 DEF Processed, Handled, Busy, Id, IsComputing
  <1>6. QED
    BY <1>2, <1>3, <1>4, <1>5

LEMMA RecvProcessed ==
    ASSUME IInv, Processed, Recv
    PROVE  Processed'
  <1>1. /\ up /\ hand = <<>> /\ queue # <<>> /\ hand' = <<Head(queue)>> /\ queue' = Tail(queue)
        /\ UNCHANGED <<row, handler, slot, crashes, dropped, up>>
    BY DEF Recv
  <1>2. queue \in Seq(TaskType) /\ DOMAIN queue = 1..Len(queue) /\ Len(queue) \in Nat
    BY DEF IInv, TypeOK
  <1>3. /\ Head(queue) = queue[1]
        /\ \A i \in DOMAIN queue : i # 1 => i - 1 \in DOMAIN queue' /\ queue'[i - 1] = queue[i]
    BY <1>1, <1>2
  <1>4. 1 \in DOMAIN hand' /\ hand'[1] = queue[1] /\ DOMAIN hand = {}
    BY <1>1, <1>3
  <1>5. ASSUME NEW i \in DOMAIN queue
        PROVE  \/ \E j \in DOMAIN queue' : queue'[j].id = queue[i].id
               \/ \E h \in DOMAIN hand' : hand'[h].id = queue[i].id
    BY <1>3, <1>4
  <1>6. \A p \in Proofs : Excused(p) => Excused(p)'
    BY <1>1, ExcuseKept
  <1>7. QED
    BY <1>1, <1>4, <1>5, <1>6 DEF Processed, Handled, Busy, Id, IsComputing, Sending

LEMMA SpawnProcessed ==
    ASSUME IInv, Processed, NEW s \in Slots, Spawn(s)
    PROVE  Processed'
  <1>1. /\ up /\ ~Busy(s) /\ UNCHANGED <<row, handler, queue, crashes, dropped, up>>
        /\ slot' = [slot EXCEPT ![s] = [at |-> "begin", task |-> hand[1], now |-> clock]]
    BY DEF Spawn, Busy
  <1>2. \A h \in DOMAIN hand : h = 1
    BY DEF IInv, TypeOK
  <1>3. /\ Busy(s)' /\ Id(s)' = hand[1].id
        /\ \A t \in Slots : t # s /\ Busy(t) => Busy(t)' /\ Id(t)' = Id(t)
    BY <1>1 DEF Busy, Id, IInv, TypeOK
  <1>4. \A p \in Proofs : Excused(p) => Excused(p)'
    BY <1>1, ExcuseKept
  <1>5. QED
    BY <1>1, <1>2, <1>3, <1>4 DEF Processed, Handled, IsComputing, Sending

\* A run that dies or is left alone has one of the reasons that Excused lists.
LEMMA DropIsExcused ==
    ASSUME IInv, FilesInv, Asked, FirstLife, NEW s \in Slots,
           (Run(s) \/ Heartbeat(s) \/ Panic(s)), GivesBack(s),
           NEW p \in Proofs, p = Id(s), IsComputing(p)'
    PROVE  Excused(p)'
  <1>1. /\ TypeOK /\ Busy(s) /\ Id(s) \in Proofs /\ UNCHANGED <<handler, crashes, clock, inputs>>
        /\ slot' = [slot EXCEPT ![s] = Free] /\ slot'[s].at = "free"
    BY BusyRun DEF GivesBack, IInv, TypeOK, Free
  <1>2. \A why : dropped' = Drop(p, why) => dropped'[p] = why
    BY DEF Drop, IInv, TypeOK
  <1>3. CASE EndError(s) \/ SaveStatus(s)
    <2>1. PICK status \in Final : row' = UpdateStatus(Id(s), status)
      BY <1>3 DEF EndError, SaveStatus, Final
    <2>2. row'[Id(s)].status = status
      BY <1>1, <2>1, StatusRow
    <2>3. QED
      BY <2>2 DEF IsComputing, Final
  <1>4. CASE BeginSingle(s)
    <2>1. slot[s].at = "begin" /\ Id(s) \in SingleNode
      BY <1>4 DEF BeginSingle, At
    <2>2. slot[s].task.step # "Init" /\ dropped' = Drop(Id(s), "forgotten")
      <3>1. slot' # [slot EXCEPT ![s].at = "record"]
        BY <1>1, BusyRun DEF TypeOK, RunType, Free
      <3>2. QED
        BY <1>4, <3>1 DEF BeginSingle
    <2>3. crashes # 0 /\ crashes \in Nat
      BY <2>1, <2>2 DEF FirstLife, IInv, TypeOK
    <2>4. dropped'[p] = "forgotten"
      BY <1>2, <2>2
    <2>5. QED
      BY <1>1, <2>1, <2>3, <2>4 DEF Excused
  <1>5. CASE Panic(s)
    <2>1. IoErrors /\ dropped'[p] = "died"
      BY <1>2, <1>5 DEF Panic
    <2>2. QED
      BY <2>1 DEF Excused
  <1>6. CASE RunDies(s)
    <2>1. dropped'[p] = "died" /\ (p \in Doomed \/ inputs[p] = "torn")
      BY <1>2, <1>6 DEF RunDies
    <2>2. ASSUME inputs[p] = "torn" PROVE AskedTwice(p)
      <3>1. PICK w \in Requests : IdOf(w) = p /\ handler[w] \in {"writing", "torn"}
        BY <2>2 DEF FilesInv
      <3>2. row[p].status # "Absent"
        BY <1>1 DEF IInv, HeldIsComputing, IsComputing
      <3>3. PICK r \in Requests : IdOf(r) = p /\ handler[r] \in {"inserted", "accepted", "gone"}
        BY <3>2 DEF Asked
      <3>4. QED
        BY <3>1, <3>3 DEF AskedTwice
    <2>3. QED
      BY <2>1, <2>2 DEF Excused, AskedTwice
  <1>7. CASE BeginStage(s) \/ RecordSingle(s) \/ EndSuccess(s) \/ Heartbeat(s)
    <2>1. slot'[s].at \in {"run", "save"}
      BY <1>1, <1>7, BusyRun DEF BeginStage, RecordSingle, EndSuccess, Heartbeat, At,
         TypeOK, RunType, TaskType
    <2>2. QED
      BY <1>1, <2>1
  <1>8. QED
    BY <1>3, <1>4, <1>5, <1>6, <1>7 DEF Run

LEMMA RunProcessed ==
    ASSUME IInv, FilesInv, Asked, FirstLife, Processed,
           NEW s \in Slots, Run(s) \/ Heartbeat(s) \/ Panic(s)
    PROVE  Processed'
  <1>1. TypeOK
    BY DEF IInv
  <1>2. CASE KeepsPermit(s)
    <2>1. /\ up /\ Busy(s) /\ Id(s) \in Proofs
          /\ UNCHANGED <<handler, queue, hand, up, crashes, dropped>> /\ clock' = clock
      BY <1>1, <1>2, BusyRun DEF KeepsPermit
    <2>2. \A t \in Slots : Busy(t) => Busy(t)' /\ Id(t)' = Id(t)
      BY <1>1, <1>2, BusyRun DEF KeepsPermit, Busy, Id, TypeOK, RunType, TaskType
    <2>3. /\ \A p \in Proofs : IsComputing(p)' => IsComputing(p)
          /\ \A p \in Proofs : p # Id(s) => row'[p] = row[p]
      BY <1>1, <1>2, <2>1, CheckAtRow DEF KeepsPermit, IsComputing, Step
    <2>4. \A p \in Proofs : p # Id(s) /\ Excused(p) => Excused(p)'
      BY <2>1, <2>3, ExcuseKept
    <2>5. QED
      BY <2>1, <2>2, <2>3, <2>4 DEF Processed, Handled, Sending
  <1>3. CASE GivesBack(s)
    <2>1. /\ up /\ Busy(s) /\ Id(s) \in Proofs /\ UNCHANGED <<handler, queue, hand, up, crashes>>
          /\ clock' = clock /\ slot' = [slot EXCEPT ![s] = Free]
      BY <1>1, <1>3, BusyRun DEF GivesBack
    <2>2. \A t \in Slots : t # s /\ Busy(t) => Busy(t)' /\ Id(t)' = Id(t)
      BY <1>1, <2>1 DEF Busy, Id, TypeOK
    <2>3. \A p \in Proofs : p # Id(s) => row'[p] = row[p] /\ dropped'[p] = dropped[p]
      BY <1>1, <1>3, <2>1, StatusRow DEF GivesBack, Drop, TypeOK
    <2>4. \A p \in Proofs : p # Id(s) /\ Excused(p) => Excused(p)'
      BY <2>1, <2>3, ExcuseKept
    <2>5. ASSUME NEW p \in Proofs, p = Id(s), IsComputing(p)' PROVE Excused(p)'
      BY <1>3, <2>5, DropIsExcused
    <2>6. QED
      BY <2>1, <2>2, <2>3, <2>4, <2>5 DEF Processed, Handled, Sending, IsComputing
  <1>4. QED
    BY <1>1, <1>2, <1>3, RunSteps

LEMMA ProcessedStep ==
    ASSUME IInv, FilesInv, Asked, FirstLife, Processed, [Next]_vars
    PROVE  Processed'
  <1>1. CASE Crash
    BY <1>1 DEF Crash, Processed
  <1>2. CASE ClockTick \/ UNCHANGED vars
    <2>1. UNCHANGED <<row, queue, hand, slot, handler, crashes, dropped, up>>
      BY <1>2 DEF ClockTick, vars, memory
    <2>2. \A p \in Proofs : Excused(p) => Excused(p)'
      BY <2>1, ExcuseKept
    <2>3. QED
      BY <2>1, <2>2 DEF Processed, Handled, Busy, Id, IsComputing, Sending
  <1>3. QED
    BY <1>1, <1>2, HandlerProcessed, RecvProcessed, SpawnProcessed, RunProcessed, RestartProcessed
       DEF Next

\* What the status query reports as Computing is in somebody's hands, with no
\* assumption on clients, database, restarts or room, or it was dropped in one of the
\* ways that Excused lists: the client left between insert and send, the reload passed
\* the row over, a crash interrupted a single-node task, or the run died -- of a
\* failed update, of a composite request for a Snark proof or a block number, or of
\* inputs that a second request with the same id was writing.
THEOREM NothingLeftLying == Spec => []ComputingIsProcessed
  <1>1. Init => FilesInv /\ Asked /\ FirstLife /\ Processed
    <2> SUFFICES ASSUME Init PROVE FilesInv /\ Asked /\ FirstLife /\ Processed
      OBVIOUS
    <2>1. FilesInv /\ Asked /\ Processed
      BY DEF Init, FilesInv, Asked, Processed, IsComputing, NoRow
    <2>2. DOMAIN queue = {} /\ DOMAIN hand = {} /\ up /\ \A s \in Slots : slot[s].at = "free"
      BY DEF Init, Free
    <2>3. QED
      BY <2>1, <2>2 DEF FirstLife
  <1>2. IInv /\ (FilesInv /\ Asked /\ FirstLife /\ Processed) /\ [Next]_vars
            => (FilesInv /\ Asked /\ FirstLife /\ Processed)'
    BY FilesStep, AskedStep, FirstLifeStep, ProcessedStep
  <1>3. ASSUME IInv, Processed PROVE ComputingIsProcessed
    <2> SUFFICES ASSUME up, NEW p \in Computing
                 PROVE  \/ Held(p) > 0 \/ Excused(p)
                        \/ \E r \in Requests : IdOf(r) = p /\ handler[r] = "inserted"
      BY DEF ComputingIsProcessed
    <2>1. Handled(p)
      BY <1>3 DEF Processed, Computing, IsComputing
    <2>2. InQueue(p) # {} \/ InHand(p) # {} \/ Running(p) # {} => Held(p) > 0
      BY <1>3, HeldCounts DEF Held
    <2>3. QED
      BY <2>1, <2>2 DEF Handled, InQueue, InHand, Running, Busy, Sending
  <1>4. QED
    BY <1>1, <1>2, <1>3, Invariance, PTL DEF Spec

----------------------------------------------------------------------------
(* The server as a queue of jobs.                                          *)

LEMMA JobsAre ==
    ASSUME IInv
    PROVE  /\ \A p \in Proofs : Jobs[p] = "running" <=> \E s \in Slots : Busy(s) /\ Id(s) = p
           /\ \A p \in Proofs : Jobs[p] = "finished" <=> row[p].status \in Final
           /\ \A p \in Proofs : Jobs[p] = "absent" <=> row[p].status = "Absent"
           /\ \A p \in Proofs : Jobs[p] \in {"running", "finished", "waiting", "absent"}
           /\ DOMAIN Jobs = Proofs
  <1> SUFFICES ASSUME NEW p \in Proofs
               PROVE  /\ Jobs[p] = "running" <=> \E s \in Slots : Busy(s) /\ Id(s) = p
                      /\ Jobs[p] = "finished" <=> row[p].status \in Final
                      /\ Jobs[p] = "absent" <=> row[p].status = "Absent"
                      /\ Jobs[p] \in {"running", "finished", "waiting", "absent"}
    BY DEF Jobs
  <1>1. Running(p) # {} <=> \E s \in Slots : Busy(s) /\ Id(s) = p
    BY DEF Running, Busy
  <1>2. (\E s \in Slots : Busy(s) /\ Id(s) = p) => row[p].status = "Computing"
    BY DEF IInv, HeldIsComputing, IsComputing
  <1>3. row[p].status \in {"Absent", "Computing"} \cup Final
    BY DEF IInv, TypeOK, Row
  <1>4. Jobs[p] = IF Running(p) # {} THEN "running"
                  ELSE IF row[p].status \in Final THEN "finished"
                  ELSE IF row[p].status = "Computing" THEN "waiting" ELSE "absent"
    BY DEF Jobs
  <1>5. QED
    BY <1>1, <1>2, <1>3, <1>4 DEF Final

\* The job of a proof is a function of its row's status and of whether it runs.
IsRun(p) == \E s \in Slots : Busy(s) /\ Id(s) = p

LEMMA SameJob ==
    ASSUME NEW p \in Proofs, row'[p].status = row[p].status, IsRun(p)' <=> IsRun(p)
    PROVE  Jobs'[p] = Jobs[p]
  <1>1. (Running(p) # {} <=> IsRun(p)) /\ ((Running(p) # {})' <=> IsRun(p)')
    BY DEF Running, IsRun, Busy
  <1>2. /\ Jobs[p] = IF Running(p) # {} THEN "running"
                     ELSE IF row[p].status \in Final THEN "finished"
                     ELSE IF row[p].status = "Computing" THEN "waiting" ELSE "absent"
        /\ Jobs'[p] = IF (Running(p) # {})' THEN "running"
                      ELSE IF row'[p].status \in Final THEN "finished"
                      ELSE IF row'[p].status = "Computing" THEN "waiting" ELSE "absent"
    BY DEF Jobs
  <1>3. QED
    BY <1>1, <1>2

LEMMA JobStutter ==
    ASSUME \A p \in Proofs : row'[p].status = row[p].status,
           \A s \in Slots : (Busy(s)' <=> Busy(s)) /\ (Busy(s) => Id(s)' = Id(s))
    PROVE  Jobs' = Jobs
  <1>1. \A p \in Proofs : Jobs'[p] = Jobs[p]
    BY SameJob DEF IsRun
  <1>2. DOMAIN Jobs = Proofs /\ DOMAIN Jobs' = Proofs
    BY DEF Jobs
  <1>3. Jobs = [p \in Proofs |-> Jobs[p]] /\ Jobs' = [p \in Proofs |-> Jobs'[p]]
    BY DEF Jobs
  <1>4. QED
    BY <1>1, <1>3

LEMMA OneJob ==
    ASSUME NEW p \in Proofs, \A q \in Proofs : q # p => Jobs'[q] = Jobs[q]
    PROVE  Jobs' = [Jobs EXCEPT ![p] = Jobs'[p]]
  <1>1. Jobs = [q \in Proofs |-> Jobs[q]] /\ Jobs' = [q \in Proofs |-> Jobs'[q]]
    BY DEF Jobs
  <1> DEFINE j == Jobs
             k == Jobs'
  <1>2. j = [q \in Proofs |-> j[q]] /\ k = [q \in Proofs |-> k[q]]
    BY <1>1
  <1>3. \A q \in Proofs : q # p => k[q] = j[q]
    OBVIOUS
  <1> HIDE DEF j, k
  <1>4. k = [j EXCEPT ![p] = k[p]]
    BY <1>2, <1>3
  <1>5. QED
    BY <1>4 DEF j, k

\* The permits count the running jobs.
LEMMA FreePermit ==
    ASSUME IInv, NEW s \in Slots, ~Busy(s)
    PROVE  Cardinality({p \in Proofs : Jobs[p] = "running"}) < MaxConcurrent
  <1> DEFINE busy == {t \in Slots : Busy(t)}
             running == {p \in Proofs : Jobs[p] = "running"}
             id == [t \in busy |-> Id(t)]
  <1>1. /\ IsFiniteSet(Slots) /\ Cardinality(Slots) = MaxConcurrent
        /\ MaxConcurrent \in Nat
    BY LifecycleAssumption, FS_Interval DEF Slots
  <1>2. /\ IsFiniteSet(Slots \ {s}) /\ Cardinality(Slots \ {s}) = MaxConcurrent - 1
    BY <1>1, FS_RemoveElement
  <1>3. busy \in SUBSET (Slots \ {s})
    OBVIOUS
  <1>4. IsFiniteSet(busy) /\ Cardinality(busy) <= MaxConcurrent - 1
    BY <1>2, <1>3, FS_Subset
  <1>5. id \in Surjection(busy, running)
    <2>1. \A t \in busy : Id(t) \in running
      BY JobsAre, HeldIds DEF IInv
    <2>2. \A p \in running : \E t \in busy : Id(t) = p
      BY JobsAre
    <2>3. id \in [busy -> running] /\ \A p \in running : \E t \in busy : id[t] = p
      BY <2>1, <2>2
    <2>4. QED
      BY <2>3 DEF Surjection
  <1> HIDE DEF busy, running, id
  <1>6. IsFiniteSet(running) /\ Cardinality(running) <= Cardinality(busy)
    BY <1>4, <1>5, FS_Surjection
  <1>7. Cardinality(running) \in Nat /\ Cardinality(busy) \in Nat
    BY <1>4, <1>6, FS_CardinalityType
  <1>8. QED
    BY <1>1, <1>4, <1>6, <1>7 DEF running

LEMMA InsertJob ==
    ASSUME IInv, IInv', NEW r \in Requests, Insert(r)
    PROVE  Queue!JobNext \/ Jobs' = Jobs
  <1> DEFINE p == IdOf(r)
  <1>1. p \in Proofs /\ slot' = slot
    BY LifecycleAssumption DEF Insert
  <1>2. CASE row[p].status # "Absent"
    BY <1>1, <1>2, JobStutter DEF Insert, Busy, Id
  <1>3. CASE row[p].status = "Absent"
    <2>1. row' = [row EXCEPT ![p].status = "Computing"]
      BY <1>3 DEF Insert
    <2>2. row'[p].status = "Computing" /\ \A q \in Proofs : q # p => row'[q] = row[q]
      BY <1>1, <2>1 DEF IInv, TypeOK, Row
    <2>3. \A q \in Proofs : q # p => Jobs'[q] = Jobs[q]
      BY <1>1, <2>2, SameJob DEF IsRun, Busy, Id
    <2>4. Jobs[p] = "absent" /\ ~IsRun(p)
      BY <1>1, <1>3, JobsAre DEF IsRun
    <2>5. (Running(p) = {})'
      BY <1>1, <2>4 DEF Running, IsRun, Busy, Id
    <2>6. Jobs'[p] = "waiting"
      BY <1>1, <2>2, <2>5 DEF Jobs, Final
    <2>7. Jobs' = [Jobs EXCEPT ![p] = "waiting"]
      BY <1>1, <2>3, <2>6, OneJob
    <2>8. Queue!Submit(p)
      BY <2>4, <2>7 DEF Queue!Submit
    <2>9. QED
      BY <1>1, <2>8 DEF Queue!JobNext
  <1>4. QED
    BY <1>2, <1>3

LEMMA SpawnJob ==
    ASSUME IInv, IInv', NEW s \in Slots, Spawn(s)
    PROVE  Queue!JobNext \/ Jobs' = Jobs
  <1>1. /\ hand # <<>> /\ ~Busy(s) /\ row' = row
        /\ slot' = [slot EXCEPT ![s] = [at |-> "begin", task |-> hand[1], now |-> clock]]
    BY DEF Spawn, Busy
  <1>2. 1 \in DOMAIN hand
    <2>1. hand \in Seq(TaskType)
      BY DEF IInv, TypeOK
    <2>2. Len(hand) \in Nat \ {0}
      BY <1>1, <2>1, EmptySeq, Zenon
    <2>3. QED
      BY <2>1, <2>2
  <1>3. PICK p \in Proofs : p = hand[1].id /\ IsComputing(p) /\ ~IsRun(p)
    BY <1>2, HeldIds DEF IInv, OneCustodian, HeldIsComputing, IsRun
  <1>4. /\ Busy(s)' /\ Id(s)' = p
        /\ \A t \in Slots : t # s => (Busy(t)' <=> Busy(t)) /\ Id(t)' = Id(t)
    BY <1>1, <1>3 DEF Busy, Id, IInv, TypeOK
  <1>5. \A q \in Proofs : q # p => Jobs'[q] = Jobs[q]
    BY <1>1, <1>4, SameJob DEF IsRun
  <1>6. Jobs[p] = "waiting" /\ Jobs'[p] = "running"
    <2>1. Jobs[p] = "waiting"
      BY <1>3, JobsAre DEF IsRun, IsComputing, Final
    <2>2. IsRun(p)'
      BY <1>4 DEF IsRun
    <2>3. (Running(p) # {})'
      BY <2>2 DEF IsRun, Running, Busy
    <2>4. QED
      BY <1>3, <2>1, <2>3 DEF Jobs
  <1>7. Jobs' = [Jobs EXCEPT ![p] = "running"]
    <2>1. Jobs' = [Jobs EXCEPT ![p] = Jobs'[p]]
      BY <1>5, OneJob
    <2>2. QED
      BY <1>6, <2>1
  <1>8. Queue!Start(p)
    <2>1. Queue!Cardinality(Queue!InState("running")) = Cardinality(Queue!InState("running"))
      BY DEF Queue!Cardinality, Cardinality
    <2>2. Cardinality(Queue!InState("running")) < MaxConcurrent
      BY <1>1, FreePermit DEF Queue!InState
    <2>3. QED
      BY <1>6, <1>7, <2>1, <2>2 DEF Queue!Start
  <1>9. QED
    BY <1>3, <1>8 DEF Queue!JobNext

LEMMA RunJob ==
    ASSUME IInv, IInv', NEW s \in Slots, Run(s) \/ Heartbeat(s) \/ Panic(s)
    PROVE  Queue!JobNext \/ Jobs' = Jobs
  <1>1. CASE KeepsPermit(s)
    <2>1. Busy(s) /\ Id(s) \in Proofs /\ TypeOK /\ clock' = clock
      BY <1>1, BusyRun DEF KeepsPermit, IInv
    <2>2. \A t \in Slots : (Busy(t)' <=> Busy(t)) /\ (Busy(t) => Id(t)' = Id(t))
      BY <1>1, <2>1, BusyRun DEF KeepsPermit, Busy, Id, TypeOK, RunType, TaskType
    <2>3. \A q \in Proofs : row'[q].status = row[q].status
      <3>1. CASE row' = row
        BY <3>1
      <3>2. CASE \E old \in Nat, new \in 0..clock, step \in {"Prove", "End"} :
                     row' = UpdateCheckAt(Id(s), old, new, step)
        BY <2>1, <3>2, CheckAtRow DEF Step
      <3>3. QED
        BY <1>1, <3>1, <3>2 DEF KeepsPermit
    <2>4. QED
      BY <2>2, <2>3, JobStutter
  <1>2. CASE GivesBack(s)
    <2>1. /\ Busy(s) /\ TypeOK /\ clock' = clock /\ slot' = [slot EXCEPT ![s] = Free]
          /\ row' = row \/ \E status \in Final : row' = UpdateStatus(Id(s), status)
      BY <1>2 DEF GivesBack, IInv
    <2>2. PICK p \in Proofs : p = Id(s)
      BY <2>1, BusyRun
    <2>3. /\ ~Busy(s)'
          /\ \A t \in Slots : t # s => (Busy(t)' <=> Busy(t)) /\ Id(t)' = Id(t)
      BY <2>1 DEF Busy, Id, TypeOK, Free
    <2>4. IsRun(p) /\ ~IsRun(p)' /\ \A q \in Proofs : q # p => (IsRun(q)' <=> IsRun(q))
      BY <2>1, <2>2, <2>3 DEF IsRun, IInv, OneCustodian
    <2>5. /\ \A q \in Proofs : q # p => row'[q].status = row[q].status
          /\ row'[p].status \in Final \/ row'[p].status = row[p].status
      BY <2>1, <2>2, StatusRow
    <2>6. row[p].status = "Computing" /\ Jobs[p] = "running"
      BY <2>1, <2>2, <2>4, JobsAre DEF IInv, HeldIsComputing, IsComputing, IsRun
    <2>7. Jobs' = [Jobs EXCEPT ![p] = Jobs'[p]]
      BY <2>4, <2>5, SameJob, OneJob
    <2>8. (Running(p) = {})'
      BY <2>4 DEF Running, IsRun, Busy
    <2>9. CASE row'[p].status \in Final
      <3>1. Jobs'[p] = "finished"
        BY <2>8, <2>9 DEF Jobs
      <3>2. Queue!Finish(p)
        BY <2>6, <2>7, <3>1 DEF Queue!Finish
      <3>3. QED
        BY <3>2 DEF Queue!JobNext
    <2>10. CASE row'[p].status = row[p].status
      <3>1. Jobs'[p] = "waiting"
        BY <2>6, <2>8, <2>10 DEF Jobs, Final
      <3>2. Jobs' = [q \in Proofs |-> IF q \in {p} THEN "waiting" ELSE Jobs[q]]
        BY <2>7, <3>1 DEF Jobs
      <3>3. {p} \in SUBSET {q \in Proofs : Jobs[q] = "running"}
        BY <2>6
      <3>4. Queue!Interrupt
        BY <3>2, <3>3 DEF Queue!Interrupt, Queue!InState
      <3>5. QED
        BY <3>4 DEF Queue!JobNext
    <2>11. QED
      BY <2>5, <2>9, <2>10
  <1>3. QED
    BY <1>1, <1>2, RunSteps DEF IInv

LEMMA CrashJob ==
    ASSUME IInv, IInv', Crash
    PROVE  Queue!JobNext
  <1>1. row' = row /\ \A s \in Slots : ~Busy(s)'
    BY DEF Crash, Busy, Free
  <1>2. \A p \in Proofs : ~IsRun(p)'
    BY <1>1 DEF IsRun
  <1>3. \A p \in Proofs : Jobs[p] = "running" => Jobs'[p] = "waiting"
    <2> SUFFICES ASSUME NEW p \in Proofs, Jobs[p] = "running" PROVE Jobs'[p] = "waiting"
      OBVIOUS
    <2>1. row[p].status = "Computing"
      BY JobsAre DEF IInv, HeldIsComputing, IsComputing
    <2>2. (Running(p) = {})'
      BY <1>2 DEF IsRun, Running, Busy
    <2>3. QED
      BY <1>1, <2>1, <2>2 DEF Jobs, Final
  <1>4. \A p \in Proofs : Jobs[p] # "running" => Jobs'[p] = Jobs[p]
    BY <1>1, <1>2, SameJob, JobsAre DEF IsRun
  <1> DEFINE S == {p \in Proofs : Jobs[p] = "running"}
  <1>5. Jobs' = [p \in Proofs |-> Jobs'[p]]
    BY DEF Jobs
  <1>6. Jobs' = [p \in Proofs |-> IF p \in S THEN "waiting" ELSE Jobs[p]]
    BY <1>3, <1>4, <1>5
  <1>7. Queue!Interrupt
    BY <1>6 DEF Queue!Interrupt, Queue!InState
  <1>8. QED
    BY <1>7 DEF Queue!JobNext

\* Rows, channel, permits and reloads implement the queue of jobs that JobQueue
\* promises the clients: a job starts only while it waits and a permit is free,
\* goes back to the waiting ones when it is interrupted, and never starts again
\* once it is finished.
THEOREM QueueImplemented == Spec => ImplementsQueue
  <1>1. Init => Queue!JobInit
    <2> SUFFICES ASSUME Init PROVE Queue!JobInit
      OBVIOUS
    <2>1. \A p \in Proofs : Running(p) = {} /\ row[p].status = "Absent"
      BY DEF Init, Running, Free, NoRow
    <2>2. QED
      BY <2>1 DEF Queue!JobInit, Jobs, Final
  <1>2. ASSUME IInv, IInv', [Next]_vars PROVE Queue!JobNext \/ Jobs' = Jobs
    <2>1. ASSUME NEW r \in Requests, Reject(r) \/ Handle(r) \/ WriteFails(r) \/ Leave(r)
          PROVE  Insert(r) \/ UNCHANGED <<row, slot>>
      BY <2>1 DEF Handle, Reject, CheckElf, OpenElf, WriteElf, OpenInputs, WriteInputs, Send, WriteFails, Leave
    <2>2. Recv \/ Restart \/ ClockTick \/ UNCHANGED vars => UNCHANGED <<row, slot>>
      BY DEF Recv, Restart, ClockTick, vars, memory
    <2>3. UNCHANGED <<row, slot>> => Jobs' = Jobs
      BY JobStutter DEF Busy, Id
    <2>4. QED
      BY <1>2, <2>1, <2>2, <2>3, InsertJob, SpawnJob, RunJob, CrashJob DEF Next
  <1>3. IInv /\ IInv' /\ [Next]_vars => [Queue!JobNext]_Jobs
    BY <1>2
  <1>4. QED
    BY <1>1, <1>3, Invariance, PTL DEF Spec, ImplementsQueue, Queue!JobSpec
=============================================================================
