------------------------------ MODULE AggGraph ------------------------------
(***************************************************************************)
(* The aggregation graph that Stage::gen_agg_tasks builds once the split   *)
(* is done: which root proofs and which aggregation proofs each            *)
(* aggregation task combines.                                              *)
(*                                                                         *)
(* The code keeps the tasks in a Vec and links them by uuid; here a task   *)
(* is named by its place, Prove(i) = prove_tasks[i] and Agg(a) =           *)
(* agg_tasks[a].  Both builds are modelled: Feature = "prover" (pairs, an  *)
(* odd result is carried to the next round) and Feature = "prover_v2" (a   *)
(* leaf for every root proof, then chunks of two).                         *)
(***************************************************************************)
EXTENDS Naturals, Sequences, FiniteSets

CONSTANT Feature      \* the cargo feature the binary was built with

ASSUME FeatureAssumption == Feature \in {"prover", "prover_v2"}

Prove(i) == <<"prove", i>>
Agg(a) == <<"agg", a>>

SeqRange(s) == {s[i] : i \in DOMAIN s}

(***************************************************************************)
(* The first layer for n segments and d deferred proofs.                   *)
(* "prover": two root proofs per task; the last of an odd number gets a    *)
(* placeholder that is born successful, has no inputs and stands for the   *)
(* root proof itself (init_from_single_prove_task, from_prove = true).     *)
(* "prover_v2": one task per root proof, then one per deferred proof.      *)
(***************************************************************************)
LeafCount(n, d) == IF Feature = "prover" THEN (n + 1) \div 2 ELSE n + d

IsPlaceholder(n, d, a) ==
    Feature = "prover" /\ n % 2 = 1 /\ a = LeafCount(n, d) - 1

LeafInputs(n, d, a) ==
    IF Feature = "prover_v2" THEN <<Prove(a)>>
    ELSE IF IsPlaceholder(n, d, a) THEN <<>>
    ELSE <<Prove(2 * a), Prove(2 * a + 1)>>

PairsWithPlaceholder(n, d, a) == Agg(a)
LeafRef(n, d, a) == IF IsPlaceholder(n, d, a) THEN Prove(n - 1) ELSE Agg(a)

(***************************************************************************)
(* The while loop: before round k, `refs` is the list `result` still to be *)
(* combined and `next` the index the next task gets.                       *)
(***************************************************************************)
DropsOdd(len) == len \div 2
RoundsUp(len) == (len + 1) \div 2
NewTasks(len) == IF Feature = "prover" THEN len \div 2 ELSE (len + 1) \div 2

CarriesNothing(refs) == <<>>
CarriedOver(refs) ==
    IF Feature = "prover" /\ Len(refs) % 2 = 1 THEN <<refs[Len(refs)]>> ELSE <<>>

FirstRound(n, d) ==
    [refs |-> [j \in 1..LeafCount(n, d) |-> LeafRef(n, d, j - 1)], next |-> LeafCount(n, d)]

NextRound(last) ==
    LET new == NewTasks(Len(last.refs)) IN
    IF Len(last.refs) <= 1 THEN last
    ELSE [refs |-> [j \in 1..new |-> Agg(last.next + j - 1)] \o CarriedOver(last.refs),
          next |-> last.next + new]

Rounds(n, d) ==
    LET round[k \in Nat] == IF k = 0 THEN FirstRound(n, d) ELSE NextRound(round[k - 1])
    IN round

\* Every round of the loop shortens the list, so that it has ended after as many
\* rounds as there are leaves.
AggCount(n, d) == Rounds(n, d)[LeafCount(n, d)].next

\* The j-th pair of the list a round starts from, or what is left of it.
Chunk(refs, j) == [i \in 1..(IF 2 * j + 2 <= Len(refs) THEN 2 ELSE 1) |-> refs[2 * j + i]]

\* What task a combines: a leaf's root proofs, or its chunk of the round that made it.
AggInputs(n, d, a) ==
    IF a < LeafCount(n, d) THEN LeafInputs(n, d, a)
    ELSE LET rounds == Rounds(n, d)
             k      == CHOOSE i \in 0..LeafCount(n, d) :
                           rounds[i].next <= a /\ a < rounds[i + 1].next
         IN Chunk(rounds[k].refs, a - rounds[k].next)

WaitsForAggsOnly(n, d, a) ==
    IF a < LeafCount(n, d) THEN SeqRange(AggInputs(n, d, a))
    ELSE {r \in SeqRange(AggInputs(n, d, a)) : r[1] = "agg"}

\* The inputs a task waits for: a deferred proof exists since the split, so its
\* leaf waits for nothing.
AggChilds(n, d, a) ==
    IF Feature = "prover_v2" /\ a \in n..(n + d - 1) THEN {}
    ELSE SeqRange(AggInputs(n, d, a))

\* v2 also passes is_complete to a lone leaf, which is then the last task.
IsFinal(n, d, a) == a = AggCount(n, d) - 1
=============================================================================
