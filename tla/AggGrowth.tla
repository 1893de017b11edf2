----------------------------- MODULE AggGrowth ------------------------------
(***************************************************************************)
(* gen_agg_tasks for every number of segments and of deferred proofs up to *)
(* a bound: the shape is grown one proof at a time and checked at each     *)
(* size against what an aggregation tree must be.                          *)
(***************************************************************************)
EXTENDS AggGraph

CONSTANTS MaxSegments, MaxDeferred      \* bounds of the enumeration

VARIABLES
    n, d,       \* normal and deferred prove tasks when the graph is built
    inputs      \* the generated graph: what each task combines

vars == <<n, d, inputs>>

gen_agg_tasks(m, e) == [a \in 0..(AggCount(m, e) - 1) |-> AggInputs(m, e, a)]

Init == n = 1 /\ d = 0 /\ inputs = gen_agg_tasks(1, 0)

MoreSegments ==
    /\ n < MaxSegments
    /\ n' = n + 1 /\ inputs' = gen_agg_tasks(n + 1, d)
    /\ UNCHANGED d

\* Only the v2 split produces deferred proofs.
MoreDeferred ==
    /\ Feature = "prover_v2" /\ d < MaxDeferred
    /\ d' = d + 1 /\ inputs' = gen_agg_tasks(n, d + 1)
    /\ UNCHANGED n

Next == MoreSegments \/ MoreDeferred

Spec == Init /\ [][Next]_vars

----------------------------------------------------------------------------
Tasks == DOMAIN inputs

\* What the output of each task proves: the root proofs in the order in which
\* the provers concatenate their inputs.
Covered ==
    LET cover[a \in Tasks] ==
            LET part(r) == IF r[1] = "prove" THEN <<r[2]>> ELSE cover[r[2]]
            IN IF 1 \notin DOMAIN inputs[a] THEN <<>>
               ELSE IF 2 \notin DOMAIN inputs[a] THEN part(inputs[a][1])
               ELSE part(inputs[a][1]) \o part(inputs[a][2])
    IN cover

\* gen_prove_task_post rejects a single v1 segment, which cannot be aggregated.
Unaggregated == Feature = "prover" /\ n = 1

\* The final aggregation proof of gen_agg_tasks covers every segment and every
\* deferred proof exactly once and in execution order.
FinalCoversExecution ==
    ~Unaggregated => \E a \in Tasks : /\ IsFinal(n, d, a)
                                      /\ Covered[a] = [j \in 1..(n + d) |-> j - 1]

\* The tasks that wait for proof r.
Parents(r) == {a \in Tasks : \E i \in DOMAIN inputs[a] : inputs[a][i] = r}

\* The proofs of a job: its root proofs and what its tasks compute.
Proofs == {Prove(i) : i \in 0..(n + d - 1)}
              \cup {Agg(a) : a \in {b \in Tasks : ~IsPlaceholder(n, d, b)}}

\* clear_agg_child_task stops at the first task that holds the finished child,
\* so every proof except the last must be the child of exactly one task; a
\* second parent would wait for ever.
OneParent ==
    \A r \in Proofs :
        IF Unaggregated \/ r = Agg(AggCount(n, d) - 1) THEN Parents(r) = {}
        ELSE Cardinality(Parents(r)) = 1

\* The bound the unit test test_gen_agg_tasks asserts of the v1 build for 12 to
\* 19 segments (agg_tasks.len() <= n), here for every size up to the bound.
TaskCountBound == Feature = "prover" => Cardinality(Tasks) <= n
=============================================================================
