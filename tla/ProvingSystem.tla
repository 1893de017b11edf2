--------------------------- MODULE ProvingSystem ---------------------------
(***************************************************************************)
(* One proof job on a pool of provers: the stage and its loop (Stage), the *)
(* asynchronous functions its calls run in (ProverClient) and the nodes,   *)
(* seen through their answers (ProverNode).  A call the loop spawns goes   *)
(* its own way through the client, and its result is handed to the stage   *)
(* in the state the client left the task in.                               *)
(***************************************************************************)
EXTENDS Stage

CONSTANTS
    Nodes, FirstNode, ProveNodes, NoNode,
    ProveFails          \* may a root proof fail?

VARIABLES
    nodeStatus, connected, count, cpc, todo, node, answer, result, node_info

clientVars == <<nodeStatus, connected, count, cpc, todo, node, answer, result, node_info>>
systemVars == <<vars, clientVars>>

\* Every task the job may have.
Refs == {SplitRef, SnarkRef} \cup {Prove(i) : i \in 0..(Segments - 1)}
                             \cup {Agg(a) : a \in 0..(AggCount(Segments, Deferred) - 1)}

KindOf(r) ==
    CASE r[1] = "split" -> "Split"
      [] r[1] = "prove" -> "Prove"
      [] r[1] = "agg"   -> "Agg"
      [] r[1] = "snark" -> "Snark"

StageOf(r) == "stage"

Client == INSTANCE ProverClient
    WITH pc <- cpc, status <- nodeStatus, Calls <- Refs, Stages <- {"stage"}, DbErrors <- FALSE

SystemInit == Init /\ Client!Init

----------------------------------------------------------------------------
\* What the loop and the splitter do by themselves.
StageStep == (LoopStep \/ Stopped) /\ UNCHANGED clientVars

SplitterPublishes == SplitPublish /\ UNCHANGED clientVars

SplitterWrites == (\E i \in 0..(Segments - 1) : SplitWrite(i)) /\ UNCHANGED clientVars

\* A spawned call is polled for the first time.
Begin(r) ==
    /\ \E c \in calls : c.ref = r
    /\ Client!Start(r)
    /\ UNCHANGED vars

\* Its way to a node, and from there to its end.
ToNode(r) ==
    /\ \/ Client!Check(r) \/ \E n \in Nodes : Client!SkipNode(r, n)
       \/ Client!NoIdleNode(r)
       \/ Client!Recheck(r) \/ Client!SkipSameNode(r) \/ Client!Send(r)
       \/ Client!Decrement(r) \/ Client!Release(r)
    /\ UNCHANGED vars

Take(r, n) == Client!TakeNode(r, n) /\ UNCHANGED vars

Connected(r) == Client!Connect(r) /\ UNCHANGED vars

NotConnected(r) == Client!ConnectFails(r) /\ UNCHANGED vars

\* The node has done the work, or failed: on_done! knows Ok, Busy and InternalError.
\* A split is answered Ok when its segments are written (Splitter).
Computed(r) ==
    /\ Client!RpcEnds(r)
    /\ \/ answer'[r] = "Ok" /\ (r = SplitRef => segfiles = 0..(Segments - 1))
       \/ answer'[r] = "InternalError" /\ (KindOf(r) = "Prove" => ProveFails)
    /\ UNCHANGED vars

\* The node was busy with an orphaned task, or the call was lost or timed out.
NotComputed(r) ==
    /\ Client!RpcEnds(r)
    /\ answer'[r] \in {"Busy", "Unreachable"}
    /\ UNCHANGED vars

\* The result arrives in the loop.
Deliver(r) ==
    /\ Client!Collect(r)
    /\ \/ r = SplitRef /\ OnSplit(result[r])
       \/ r = SnarkRef /\ OnSnark(result[r])
       \/ r[1] = "prove" /\ OnProve(r[2], result[r])
       \/ r[1] = "agg" /\ OnAgg(r[2], result[r])

CoolDown(n) == Client!CoolDown(n) /\ UNCHANGED vars

\* The steps of a spawned call.
CallStep(r) ==
    \/ Begin(r) \/ ToNode(r) \/ (\E n \in Nodes : Take(r, n))
    \/ Connected(r) \/ NotConnected(r)
    \/ Computed(r) \/ NotComputed(r)

SystemNext ==
    \/ StageStep \/ SplitterPublishes \/ SplitterWrites
    \/ \E r \in Refs : CallStep(r) \/ Deliver(r)
    \/ \E n \in Nodes : CoolDown(n)

SystemSpec == SystemInit /\ [][SystemNext]_systemVars

\* The loop turns, the splitter writes, a spawned call is polled and its RPC ends,
\* and 180 seconds pass.  The loop does not choose its timer over a result for
\* ever, and of the nodes no more is asked than that not every connection fails
\* and not every RPC ends without the work done.
SystemFairness ==
    /\ WF_systemVars(StageStep) /\ WF_systemVars(SplitterPublishes) /\ WF_systemVars(SplitterWrites)
    /\ \A r \in Refs : WF_systemVars(CallStep(r))
    /\ \A n \in Nodes : WF_systemVars(CoolDown(n))
    /\ SF_systemVars(\E r \in Refs : Deliver(r))
    /\ SF_systemVars(\E r \in Refs : Connected(r))
    /\ SF_systemVars(\E r \in Refs : Computed(r))

FairSystemSpec == SystemSpec /\ SystemFairness

----------------------------------------------------------------------------
(* Properties.                                                             *)

\* The provers' side is no more than Stage assumes of it: a result is never handed
\* back as Processing, which the loop would wait for for ever -- not even by
\* snark_proof, the one call that leaves the state alone when it is refused at
\* max_prover_num, although early returns of prove leak places there.
ImplementsStage == Spec

\* Stage assumes that a task offered again and again is computed at some time.
\* This client provides it, with nodes that come and go, answer busy or not at
\* all: every job is reported, as long as no root proof has failed.
JobReported == <>(status # "Computing" \/ \E i \in DOMAIN prove : prove[i].failure_count > 0)

----------------------------------------------------------------------------
(* What a log message says that the code does not do.                      *)

\* "[prove] {}:{} failed, try again..." (stage.rs, on_prove_task!): a root proof
\* that failed and may be retried reaches a prover again, unless the job ends.
FailedIsTriedAgain ==
    \A i \in 0..(Segments - 1) :
        (i \in DOMAIN prove /\ prove[i].state = "Failed")
            ~> (cpc[Prove(i)] = "rpc" \/ pc \in {"finish", "done", "panicked"})
=============================================================================
