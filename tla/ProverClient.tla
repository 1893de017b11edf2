---------------------------- MODULE ProverClient ----------------------------
(***************************************************************************)
(* proof-service/src/prover_client.rs and prover_node.rs: how the calls of *)
(* all running stages share the prover nodes.                              *)
(*                                                                         *)
(* A call is the async function split, prove, aggregate, snark_proof or    *)
(* single_node run for one task.  It holds no lock across its awaits, so   *)
(* the calls interleave between: the first look at cur_prover_num, the     *)
(* search for a node, the connection, the second look, the RPC, the        *)
(* decrement and the release of the node.  A local variable of a call goes *)
(* back to its initial value when it goes out of scope.                    *)
(***************************************************************************)
EXTENDS Integers, FiniteSets

CONSTANTS
    Nodes,              \* prover_nodes
    FirstNode,          \* prover_nodes[0], the only node for snarks
    ProveNodes,         \* the nodes PROVE_NODES_NUM leaves to root proofs
    NoNode,             \* an empty node_info
    Stages,             \* proof jobs, each with a cur_prover_num of its own
    Calls,              \* tasks; each has at most one call at a time
    StageOf(_),         \* the job of a task
    KindOf(_),          \* the task's type
    MaxProverNum,       \* max_prover_num of every job
    DbErrors            \* may a database update fail?

Kind == {"Split", "Prove", "Agg", "Snark", "SingleNode"}

ASSUME ClientAssumption ==
    /\ FirstNode \in Nodes /\ ProveNodes \subseteq Nodes /\ NoNode \notin Nodes
    /\ \A c \in Calls : StageOf(c) \in Stages /\ KindOf(c) \in Kind
    /\ MaxProverNum \in Nat
    /\ IsFiniteSet(Calls)

ASSUME DbAssumption == DbErrors \in BOOLEAN

VARIABLES
    status,         \* NodeStatus; "Expired" is OffLine for 180 s or more
    connected,      \* nodes with a cached channel
    count,          \* cur_prover_num of each stage
    pc,             \* where each call is
    todo,           \* nodes get_idle_client has not looked at yet
    node,           \* the node a call picked
    answer,         \* what the RPC brought
    result,         \* the state in which the task is handed back
    node_info       \* trace.node_info of the task: where it failed last

vars == <<status, connected, count, pc, todo, node, answer, result, node_info>>

Statuses == {"Idle", "Busy", "OffLine", "Expired"}
Answer == {"Ok", "Busy", "InternalError", "Unspecified", "NoResult", "Unreachable"}
TaskState == {"Unprocessed", "Processing", "Success", "Failed"}

Counted(c) == KindOf(c) # "SingleNode"

Init ==
    /\ status = [n \in Nodes |-> "Idle"]
    /\ connected = {}
    /\ count = [s \in Stages |-> 0]
    /\ pc = [c \in Calls |-> "idle"]
    /\ todo = [c \in Calls |-> {}]
    /\ node = [c \in Calls |-> NoNode]
    /\ answer = [c \in Calls |-> "Ok"]
    /\ result = [c \in Calls |-> "Unprocessed"]
    /\ node_info = [c \in Calls |-> NoNode]

----------------------------------------------------------------------------
get_nodes(c) ==
    CASE KindOf(c) = "Snark" -> {FirstNode}
      [] KindOf(c) = "Prove" -> ProveNodes
      [] OTHER               -> Nodes

\* Every function but snark_proof resets the task to Unprocessed on entry; the
\* snark task comes in as get_snark_task left it.
EntryState(c) == IF KindOf(c) = "Snark" THEN "Processing" ELSE "Unprocessed"

\* The worker spawns the call.
Start(c) ==
    /\ pc[c] = "idle"
    /\ pc' = [pc EXCEPT ![c] = IF Counted(c) THEN "check" ELSE "pick"]
    /\ todo' = [todo EXCEPT ![c] = IF Counted(c) THEN {} ELSE get_nodes(c)]
    /\ result' = [result EXCEPT ![c] = EntryState(c)]
    /\ UNCHANGED <<status, connected, count, node, answer, node_info>>

OneTooMany(c) == count[StageOf(c)] > MaxProverNum
AtLimit(c) == count[StageOf(c)] >= MaxProverNum

\* The first look at cur_prover_num.
Check(c) ==
    /\ pc[c] = "check"
    /\ pc' = [pc EXCEPT ![c] = IF AtLimit(c) THEN "returned" ELSE "pick"]
    /\ todo' = [todo EXCEPT ![c] = IF AtLimit(c) THEN {} ELSE get_nodes(c)]
    /\ UNCHANGED <<status, connected, count, node, answer, result, node_info>>

\* get_idle_client, in the shuffled order: skip a node that is busy or went
\* offline less than 180 s ago ...
IgnoresBusy(n) == status[n] = "OffLine"
Unavailable(n) == status[n] \in {"Busy", "OffLine"}

SkipNode(c, n) ==
    /\ pc[c] = "pick" /\ n \in todo[c]
    /\ Unavailable(n)
    /\ todo' = [todo EXCEPT ![c] = @ \ {n}]
    /\ UNCHANGED <<status, connected, count, pc, node, answer, result, node_info>>

\* ... take any other, dropping the channel of one that was offline ...
TakeNode(c, n) ==
    /\ pc[c] = "pick" /\ n \in todo[c]
    /\ ~Unavailable(n)
    /\ connected' = IF status[n] = "Expired" THEN connected \ {n} ELSE connected
    /\ status' = [status EXCEPT ![n] = "Busy"]
    /\ todo' = [todo EXCEPT ![c] = @ \ {n}]
    /\ node' = [node EXCEPT ![c] = n]
    /\ pc' = [pc EXCEPT ![c] = "connect"]
    /\ UNCHANGED <<count, answer, result, node_info>>

\* ... and connect to it unless a channel is cached.
Connect(c) ==
    /\ pc[c] = "connect"
    /\ connected' = connected \cup {node[c]}
    /\ todo' = [todo EXCEPT ![c] = {}]
    /\ pc' = [pc EXCEPT ![c] = IF Counted(c) THEN "recheck" ELSE "record"]
    /\ UNCHANGED <<status, count, node, answer, result, node_info>>

ConnectFails(c) ==
    /\ pc[c] = "connect" /\ node[c] \notin connected
    /\ status' = [status EXCEPT ![node[c]] = "OffLine"]
    /\ node' = [node EXCEPT ![c] = NoNode]
    /\ pc' = [pc EXCEPT ![c] = "pick"]
    /\ UNCHANGED <<connected, count, todo, answer, result, node_info>>

\* single_node records in the database that it has begun; if that fails it gives
\* up at once.
Record(c) ==
    /\ pc[c] = "record"
    /\ pc' = [pc EXCEPT ![c] = "rpc"]
    /\ UNCHANGED <<status, connected, count, todo, node, answer, result, node_info>>

RecordFails(c) ==
    /\ pc[c] = "record" /\ DbErrors
    /\ result' = [result EXCEPT ![c] = "Failed"]
    /\ pc' = [pc EXCEPT ![c] = "returned"]
    /\ UNCHANGED <<status, connected, count, todo, node, answer, node_info>>

KeepsLooking(c) ==
    /\ pc[c] = "pick" /\ todo[c] = {}
    /\ todo' = [todo EXCEPT ![c] = get_nodes(c)]
    /\ UNCHANGED <<status, connected, count, pc, node, answer, result, node_info>>

\* No node left: the task goes back unprocessed; single_node sleeps and tries again.
NoIdleNode(c) ==
    /\ pc[c] = "pick" /\ todo[c] = {}
    /\ IF Counted(c)
       THEN /\ pc' = [pc EXCEPT ![c] = "returned"]
            /\ result' = [result EXCEPT ![c] = "Unprocessed"]
            /\ UNCHANGED todo
       ELSE /\ todo' = [todo EXCEPT ![c] = get_nodes(c)]
            /\ UNCHANGED <<pc, result>>
    /\ UNCHANGED <<status, connected, count, node, answer, node_info>>

TakesNoPlace(c) ==
    /\ pc[c] = "recheck" /\ ~AtLimit(c)
    /\ pc' = [pc EXCEPT ![c] = "send"]
    /\ UNCHANGED <<status, connected, count, todo, node, answer, result, node_info>>

\* The second look, which reserves a place among the max_prover_num or gives the
\* node back.
Recheck(c) ==
    /\ pc[c] = "recheck"
    /\ IF AtLimit(c)
       THEN /\ status' = [status EXCEPT ![node[c]] = "Idle"]
            /\ pc' = [pc EXCEPT ![c] = "returned"]
            /\ UNCHANGED count
       ELSE /\ count' = [count EXCEPT ![StageOf(c)] = @ + 1]
            /\ pc' = [pc EXCEPT ![c] = "send"]
            /\ UNCHANGED status
    /\ UNCHANGED <<connected, todo, node, answer, result, node_info>>

\* prove gives up a node on which the task has failed before.
SameNode(c) == KindOf(c) = "Prove" /\ node_info[c] = node[c]

SkipKeepsNode(c) ==
    /\ pc[c] = "send" /\ SameNode(c)
    /\ pc' = [pc EXCEPT ![c] = "returned"]
    /\ UNCHANGED <<status, connected, count, todo, node, answer, result, node_info>>

SkipSameNode(c) ==
    /\ pc[c] = "send" /\ SameNode(c)
    /\ status' = [status EXCEPT ![node[c]] = "Idle"]
    /\ pc' = [pc EXCEPT ![c] = "returned"]
    /\ UNCHANGED <<connected, count, todo, node, answer, result, node_info>>

Send(c) ==
    /\ pc[c] = "send" /\ ~SameNode(c)
    /\ pc' = [pc EXCEPT ![c] = "rpc"]
    /\ UNCHANGED <<status, connected, count, todo, node, answer, result, node_info>>

\* The RPC ends: an answer of the node, or an error or the 7200 s timeout.
RpcEnds(c) ==
    /\ pc[c] = "rpc"
    /\ \E a \in Answer : answer' = [answer EXCEPT ![c] = a]
    /\ pc' = [pc EXCEPT ![c] = IF Counted(c) THEN "decrement" ELSE "release"]
    /\ UNCHANGED <<status, connected, count, todo, node, result, node_info>>

Decrement(c) ==
    /\ pc[c] = "decrement"
    /\ count' = [count EXCEPT ![StageOf(c)] = @ - 1]
    /\ pc' = [pc EXCEPT ![c] = "release"]
    /\ UNCHANGED <<status, connected, todo, node, answer, result, node_info>>

BusyIsProcessing(c) ==
    CASE answer[c] = "Ok"                                    -> "Success"
      [] answer[c] # "Ok" /\ KindOf(c) = "Snark"             -> "Failed"
      [] answer[c] = "InternalError" /\ KindOf(c) # "Snark"  -> "Failed"
      [] answer[c] = "Busy" /\ KindOf(c) # "Snark"           -> "Processing"
      [] OTHER                                               -> "Unprocessed"

\* result_code_to_state; without a result the task keeps its state.  snark_proof
\* knows only success and failure.
StateAfter(c) ==
    CASE answer[c] = "Ok"                                    -> "Success"
      [] answer[c] # "Ok" /\ KindOf(c) = "Snark"             -> "Failed"
      [] answer[c] = "InternalError" /\ KindOf(c) # "Snark"  -> "Failed"
      [] answer[c] = "Unspecified" /\ KindOf(c) # "Snark"    -> "Processing"
      [] OTHER                                               -> "Unprocessed"

IdleAfterSuccess(c) ==
    /\ pc[c] = "release"
    /\ status' = [status EXCEPT ![node[c]] =
                     IF answer[c] = "Unreachable" THEN "OffLine"
                     ELSE IF answer[c] = "Ok" THEN "Idle" ELSE @]
    /\ result' = [result EXCEPT ![c] = StateAfter(c)]
    /\ answer' = [answer EXCEPT ![c] = "Ok"]
    /\ pc' = [pc EXCEPT ![c] = "returned"]
    /\ UNCHANGED <<connected, count, todo, node, node_info>>

Release(c) ==
    /\ pc[c] = "release"
    /\ status' = [status EXCEPT ![node[c]] =
                     IF answer[c] = "Unreachable" THEN "OffLine" ELSE "Idle"]
    /\ result' = [result EXCEPT ![c] = StateAfter(c)]
    /\ answer' = [answer EXCEPT ![c] = "Ok"]
    /\ pc' = [pc EXCEPT ![c] = "returned"]
    /\ UNCHANGED <<connected, count, todo, node, node_info>>

\* The stage takes the result: a failed root proof remembers its node, and after
\* a success the slot serves the next task.
Collect(c) ==
    /\ pc[c] = "returned"
    /\ node_info' = [node_info EXCEPT ![c] =
                        IF KindOf(c) = "Prove" /\ result[c] = "Failed" THEN node[c]
                        ELSE IF result[c] = "Success" THEN NoNode ELSE @]
    /\ node' = [node EXCEPT ![c] = NoNode]
    /\ result' = [result EXCEPT ![c] = "Unprocessed"]
    /\ pc' = [pc EXCEPT ![c] = "idle"]
    /\ UNCHANGED <<status, connected, count, todo, answer>>

\* 180 seconds pass.
CoolDown(n) ==
    /\ status[n] = "OffLine"
    /\ status' = [status EXCEPT ![n] = "Expired"]
    /\ UNCHANGED <<connected, count, pc, todo, node, answer, result, node_info>>

----------------------------------------------------------------------------
Step(c) ==
    \/ Check(c)
    \/ \E n \in Nodes : SkipNode(c, n) \/ TakeNode(c, n)
    \/ Connect(c) \/ ConnectFails(c) \/ NoIdleNode(c)
    \/ Record(c) \/ RecordFails(c)
    \/ Recheck(c) \/ SkipSameNode(c) \/ Send(c)
    \/ RpcEnds(c) \/ Decrement(c) \/ Release(c)

Next ==
    \/ \E c \in Calls : Start(c) \/ Step(c) \/ Collect(c)
    \/ \E n \in Nodes : CoolDown(n)

Spec == Init /\ [][Next]_vars

\* A spawned call is polled until it returns, and its RPC is bounded by
\* TASK_TIMEOUT.
FairSpec == Spec /\ \A c \in Calls : WF_vars(Step(c))

----------------------------------------------------------------------------
PC == {"idle", "check", "pick", "connect", "record", "recheck", "send", "rpc",
       "decrement", "release", "returned"}

\* The types of the node table, the counters and the calls' local variables.
TypeOK ==
    /\ status \in [Nodes -> Statuses]
    /\ connected \subseteq Nodes
    /\ count \in [Stages -> Nat]
    /\ pc \in [Calls -> PC]
    /\ todo \in [Calls -> SUBSET Nodes]
    /\ node \in [Calls -> Nodes \cup {NoNode}]
    /\ answer \in [Calls -> Answer]
    /\ result \in [Calls -> TaskState]
    /\ node_info \in [Calls -> Nodes \cup {NoNode}]

\* From marking a node Busy to giving it back.
Holds(c) == pc[c] \in {"connect", "record", "recheck", "send", "rpc", "decrement", "release"}

\* A node is held by at most one call of all jobs, and is marked Busy as long as
\* it is: get_idle_client never hands out a node in use, whatever failed
\* connections, early returns and expired offline times do to the table.
NodeExclusive ==
    /\ \A c, e \in Calls : Holds(c) /\ Holds(e) /\ c # e => node[c] # node[e]
    /\ \A c \in Calls : Holds(c) => node[c] \in Nodes /\ status[node[c]] = "Busy"

\* "set the node status to Idle, so it can be reused later" (prover_client.rs): no
\* early return of prove, aggregate or snark_proof, no failed connection and no failed
\* RPC leaves a node Busy that nobody will release.  (The `?` of single_node does when
\* its update of the row fails: DbErrors.)
NoNodeLost ==
    \A n \in Nodes : status[n] = "Busy" => \E c \in Calls : Holds(c) /\ node[c] = n

\* The calls of a job that stand counted in cur_prover_num.
Reserved(s) == {c \in Calls : StageOf(c) = s /\ Counted(c)
                                /\ pc[c] \in {"send", "rpc", "decrement"}}

\* "cannot run more than max_prover_num nodes at the same time": although the
\* count is checked, dropped and checked again around the search for a node, a
\* job never has more calls at the provers than max_prover_num, and the u32
\* counter never wraps below zero.
ProverCap ==
    \A s \in Stages : Cardinality(Reserved(s)) <= count[s] /\ count[s] <= MaxProverNum

\* A spawned call comes back, whatever the other calls and the nodes do.
CallReturns ==
    \A c \in Calls : Counted(c) => (pc[c] = "check" ~> pc[c] = "returned")
=============================================================================
