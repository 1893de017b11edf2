-------------------------- MODULE AggGrowthProofs ---------------------------
(***************************************************************************)
(* The invariants of AggGrowth for both builds and any number of segments  *)
(* and of deferred proofs: the graph is always the one gen_agg_tasks       *)
(* builds for n and d, and AggGraphProofs says what that one is.           *)
(***************************************************************************)
EXTENDS AggGrowth, AggGraphProofs, FiniteSetTheorems

IInv == Shape(n, d) /\ inputs = gen_agg_tasks(n, d)

LEMMA IInvHolds == Spec => []IInv
  <1>1. Init => IInv
    BY DEF Init, IInv, Shape
  <1>2. IInv /\ [Next]_vars => IInv'
    <2> SUFFICES ASSUME IInv, [Next]_vars PROVE IInv'
      OBVIOUS
    <2> USE DEF IInv, Shape
    <2>1. CASE MoreSegments
      BY <2>1 DEF MoreSegments
    <2>2. CASE MoreDeferred
      BY <2>2 DEF MoreDeferred
    <2>3. CASE UNCHANGED vars
      BY <2>3 DEF vars, gen_agg_tasks
    <2>4. QED
      BY <2>1, <2>2, <2>3 DEF Next
  <1>3. QED
    BY <1>1, <1>2, PTL DEF Spec

\* The state is the graph the lemmas are about.
LEMMA TheGraph ==
    ASSUME IInv
    PROVE  /\ AggCount(n, d) \in Nat /\ Tasks = 0..(AggCount(n, d) - 1)
           /\ \A a \in Tasks : inputs[a] = AggInputs(n, d, a)
           /\ \A r : Parents(r) = {a \in Tasks : r \in Inputs(n, d, a)}
  <1>1. Shape(n, d) /\ inputs = [a \in 0..(AggCount(n, d) - 1) |-> AggInputs(n, d, a)]
    BY DEF IInv, gen_agg_tasks
  <1>2. AggCount(n, d) \in Nat
    <2>1. PICK sp : Covers(n, d, sp)
      BY <1>1, GraphCoversExecution
    <2>2. QED
      BY <2>1 DEF Covers
  <1>3. Tasks = 0..(AggCount(n, d) - 1) /\ \A a \in Tasks : inputs[a] = AggInputs(n, d, a)
    BY <1>1 DEF Tasks
  <1>4. \A r : Parents(r) = {a \in Tasks : r \in Inputs(n, d, a)}
    BY <1>3 DEF Parents, Inputs, SeqRange
  <1>5. QED
    BY <1>2, <1>3, <1>4

----------------------------------------------------------------------------
(* What a task covers does not depend on how the recursion is unfolded:    *)
(* the intervals of GraphCoversExecution satisfy its equation, and by      *)
(* induction over the tasks nothing else does.                             *)

Part(h, r) == IF r[1] = "prove" THEN <<r[2]>> ELSE h[r[2]]
Joint(h, a) == IF 1 \notin DOMAIN inputs[a] THEN <<>>
               ELSE IF 2 \notin DOMAIN inputs[a] THEN Part(h, inputs[a][1])
               ELSE Part(h, inputs[a][1]) \o Part(h, inputs[a][2])

\* A task whose inputs cover their spans covers its own.
LEMMA JointIs ==
    ASSUME IInv, NEW sp, Covers(n, d, sp), NEW h, NEW a \in Tasks, ~IsPlaceholder(n, d, a),
           \A b \in 0..(a - 1) : ~IsPlaceholder(n, d, b) => h[b] = Interval(sp[b])
    PROVE  Joint(h, a) = Interval(sp[a])
  <1> DEFINE ins == AggInputs(n, d, a)
             of(k) == SpanOf(sp, ins[k])
  <1>1. /\ AggCount(n, d) \in Nat /\ a \in 0..(AggCount(n, d) - 1) /\ inputs[a] = ins
        /\ n \in Nat /\ d \in Nat
    BY TheGraph DEF IInv, Shape
  <1>2. sp \in [0..(AggCount(n, d) - 1) -> Span] /\ Joins(n, d, sp, a)
    BY <1>1 DEF Covers
  <1>3. ASSUME NEW k \in DOMAIN ins
        PROVE  of(k) \in Span /\ Part(h, ins[k]) = Interval(of(k))
    <2>1. Earlier(n, d, a, ins[k])
      BY <1>2 DEF Joins
    <2>2. CASE \E i \in 0..(n + d - 1) : ins[k] = Prove(i)
      <3>1. PICK i \in 0..(n + d - 1) : ins[k] = Prove(i)
        BY <2>2
      <3>2. i \in Nat /\ of(k) = [from |-> i, to |-> i + 1] /\ Part(h, ins[k]) = <<i>>
        BY <1>1, <3>1, RefType DEF SpanOf, Part
      <3>3. of(k) \in Span
        BY <3>2 DEF Span
      <3>4. QED
        BY <3>2, <3>3, IntervalOfOne
    <2>3. CASE \E b \in 0..(a - 1) : ins[k] = Agg(b) /\ ~IsPlaceholder(n, d, b)
      <3>1. PICK b \in 0..(a - 1) : ins[k] = Agg(b) /\ ~IsPlaceholder(n, d, b)
        BY <2>3
      <3>2. of(k) = sp[b] /\ Part(h, ins[k]) = h[b]
        BY <3>1, RefType DEF SpanOf, Part
      <3>3. b \in 0..(AggCount(n, d) - 1)
        BY <1>1
      <3>4. QED
        BY <1>2, <3>1, <3>2, <3>3
    <2>4. QED
      BY <2>1, <2>2, <2>3 DEF Earlier
  <1>4. \/ DOMAIN ins = {1} /\ sp[a] = of(1)
        \/ /\ DOMAIN ins = {1, 2} /\ of(1).to = of(2).from
           /\ sp[a] = [from |-> of(1).from, to |-> of(2).to]
    BY <1>2 DEF Joins
  <1> HIDE DEF of
  <1>5. CASE DOMAIN ins = {1} /\ sp[a] = of(1)
    <2>1. Joint(h, a) = Part(h, ins[1])
      BY <1>1, <1>5 DEF Joint
    <2>2. QED
      BY <1>3, <1>5, <2>1
  <1>6. CASE /\ DOMAIN ins = {1, 2} /\ of(1).to = of(2).from
             /\ sp[a] = [from |-> of(1).from, to |-> of(2).to]
    <2>1. Joint(h, a) = Part(h, ins[1]) \o Part(h, ins[2])
      BY <1>1, <1>6 DEF Joint
    <2>2. /\ Part(h, ins[1]) = Interval(of(1)) /\ Part(h, ins[2]) = Interval(of(2))
          /\ of(1) \in Span /\ of(2) \in Span
      BY <1>3, <1>6
    <2>3. Interval(of(1)) \o Interval(of(2)) = Interval(sp[a])
      BY <1>6, <2>2, IntervalsJoin
    <2>4. QED
      BY <2>1, <2>2, <2>3
  <1>7. QED
    BY <1>4, <1>5, <1>6

LEMMA CoveredIs ==
    ASSUME IInv, NEW sp, Covers(n, d, sp)
    PROVE  \A a \in Tasks : ~IsPlaceholder(n, d, a) => Covered[a] = Interval(sp[a])
  <1> DEFINE Body(h) == [a \in Tasks |-> Joint(h, a)]
             g == [a \in Tasks |-> IF IsPlaceholder(n, d, a) THEN <<>> ELSE Interval(sp[a])]
  <1>1. AggCount(n, d) \in Nat /\ Tasks = 0..(AggCount(n, d) - 1)
    BY TheGraph
  <1>2. g = Body(g)
    <2>1. ASSUME NEW a \in Tasks, IsPlaceholder(n, d, a) PROVE Joint(g, a) = <<>>
      <3>1. a < LeafCount(n, d) /\ Feature = "prover"
        <4>1. LeafCount(n, d) \in Nat
          BY Leaves DEF IInv
        <4>2. Feature = "prover" /\ a = LeafCount(n, d) - 1
          BY <2>1 DEF IsPlaceholder
        <4>3. QED
          BY <4>1, <4>2
      <3>2. inputs[a] = <<>>
        BY <2>1, <3>1, TheGraph DEF AggInputs, LeafInputs
      <3>3. QED
        BY <3>2 DEF Joint
    <2>2. ASSUME NEW a \in Tasks, ~IsPlaceholder(n, d, a) PROVE Joint(g, a) = Interval(sp[a])
      <3>1. \A b \in 0..(a - 1) : b \in Tasks
        BY <1>1
      <3>2. \A b \in 0..(a - 1) : ~IsPlaceholder(n, d, b) => g[b] = Interval(sp[b])
        BY <3>1
      <3> HIDE DEF g
      <3>3. QED
        BY <2>2, <3>2, JointIs
    <2>3. QED
      BY <2>1, <2>2
  <1>3. Covered = CHOOSE h : h = Body(h)
    BY DEF Covered, Joint, Part
  <1>4. Covered = Body(Covered)
    <2> HIDE DEF g
    <2> QED BY <1>2, <1>3, Zenon
  <1>5. \A a \in Tasks : Covered[a] = Joint(Covered, a)
    <2> DEFINE c == Covered
    <2>1. c = Body(c)
      BY <1>4
    <2> HIDE DEF c
    <2>2. \A a \in Tasks : c[a] = Joint(c, a)
      BY <2>1
    <2>3. QED
      BY <2>2 DEF c
  <1> DEFINE U == {a \in Tasks : ~IsPlaceholder(n, d, a) /\ Covered[a] # Interval(sp[a])}
  <1>6. U = {}
    <2> SUFFICES ASSUME U # {} PROVE FALSE
      OBVIOUS
    <2>1. U \subseteq Nat
      BY <1>1
    <2>2. PICK a \in U : \A b \in U : a <= b
      BY <2>1, Least
    <2>3. a \in Tasks /\ ~IsPlaceholder(n, d, a) /\ Covered[a] # Interval(sp[a])
      OBVIOUS
    <2>4. \A b \in 0..(a - 1) : b \in Tasks /\ b \notin U
      BY <1>1, <2>2, <2>3
    <2>5. \A b \in 0..(a - 1) : ~IsPlaceholder(n, d, b) => Covered[b] = Interval(sp[b])
      BY <2>4
    <2>6. Joint(Covered, a) = Interval(sp[a])
      BY <2>3, <2>5, JointIs
    <2>7. QED
      BY <1>5, <2>3, <2>6
  <1>7. QED
    BY <1>6

\* The final aggregation proof of gen_agg_tasks covers every segment and every
\* deferred proof exactly once and in execution order, for jobs of any size.
THEOREM FinalCovers == Spec => []FinalCoversExecution
  <1>1. IInv => FinalCoversExecution
    <2> SUFFICES ASSUME IInv, ~Unaggregated
                 PROVE  \E a \in Tasks : IsFinal(n, d, a) /\ Covered[a] = [j \in 1..(n + d) |-> j - 1]
      BY DEF FinalCoversExecution
    <2>1. PICK sp : Covers(n, d, sp)
      BY GraphCoversExecution DEF IInv
    <2> DEFINE a == AggCount(n, d) - 1
               s == [from |-> 0, to |-> n + d]
    <2>2. AggCount(n, d) \in Nat \ {0} /\ ~IsPlaceholder(n, d, a) /\ sp[a] = s
      BY <2>1 DEF Covers, Unaggregated, Rejected
    <2>3. a \in Tasks /\ IsFinal(n, d, a)
      BY <2>2, TheGraph DEF IsFinal
    <2>4. Covered[a] = Interval(s)
      BY <2>1, <2>2, <2>3, CoveredIs
    <2>5. Interval(s) = [j \in 1..(n + d) |-> j - 1]
      <3>1. n \in Nat /\ d \in Nat /\ s.from = 0 /\ s.to = n + d
        BY DEF IInv, Shape
      <3>2. s.to - s.from = n + d /\ \A j \in 1..(n + d) : s.from + j - 1 = j - 1
        BY <3>1
      <3> HIDE DEF s
      <3>3. QED
        BY <3>2 DEF Interval
    <2> HIDE DEF a
    <2>6. QED
      BY <2>3, <2>4, <2>5
  <1>2. QED
    BY <1>1, IInvHolds, PTL

----------------------------------------------------------------------------
(* Parents.                                                                *)

\* A rejected job has no tasks that combine anything.
LEMMA NothingCombined ==
    ASSUME IInv, Unaggregated, NEW a \in Tasks
    PROVE  Inputs(n, d, a) = {}
  <1>1. Shape(n, d) /\ n = 1 /\ Feature = "prover" /\ AggCount(n, d) \in Nat /\ a \in 0..(AggCount(n, d) - 1)
    BY TheGraph DEF IInv, Unaggregated
  <1>2. AggCount(n, d) <= n
    BY <1>1, AtMostOnePerSegment
  <1>3. a = 0
    BY <1>1, <1>2
  <1>4. LeafCount(n, d) = 1 /\ IsPlaceholder(n, d, a)
    BY <1>1, <1>3 DEF LeafCount, IsPlaceholder
  <1>5. AggInputs(n, d, a) = <<>>
    BY <1>1, <1>3, <1>4 DEF AggInputs, LeafInputs
  <1>6. QED
    BY <1>5 DEF Inputs, SeqRange

\* Every proof but the last is the child of exactly one task, so that nobody but
\* the one that clear_agg_child_task finds waits for it, in jobs of any size.
THEOREM EveryProofHasOneParent == Spec => []OneParent
  <1>1. IInv => OneParent
    <2> SUFFICES ASSUME IInv, NEW r \in Proofs
                 PROVE  IF Unaggregated \/ r = Agg(AggCount(n, d) - 1) THEN Parents(r) = {}
                        ELSE Cardinality(Parents(r)) = 1
      BY DEF OneParent
    <2>1. /\ Shape(n, d) /\ AggCount(n, d) \in Nat /\ Tasks = 0..(AggCount(n, d) - 1)
          /\ Parents(r) = {a \in Tasks : r \in Inputs(n, d, a)}
      BY TheGraph DEF IInv
    <2>2. ASSUME Unaggregated PROVE Parents(r) = {}
      BY <2>1, <2>2, NothingCombined
    <2>3. ASSUME r = Agg(AggCount(n, d) - 1) PROVE Parents(r) = {}
      <3> SUFFICES ASSUME NEW a \in Tasks, Agg(AggCount(n, d) - 1) \in Inputs(n, d, a) PROVE FALSE
        BY <2>1, <2>3
      <3>1. AggCount(n, d) - 1 < a
        BY <2>1, OneParentEach
      <3>2. QED
        BY <2>1, <3>1
    <2>4. ASSUME ~Unaggregated, r # Agg(AggCount(n, d) - 1) PROVE Cardinality(Parents(r)) = 1
      <3>1. Earlier(n, d, AggCount(n, d), r)
        BY <2>1 DEF Proofs, Earlier
      <3>2. PICK a \in 0..(AggCount(n, d) - 1) : r \in Inputs(n, d, a)
        BY <2>1, <2>4, <3>1, EveryProofCombined DEF Unaggregated, Rejected
      <3>3. \A b \in 0..(AggCount(n, d) - 1) : r \in Inputs(n, d, b) => b = a
        BY <2>1, <3>2, OneParentEach
      <3>4. Parents(r) = {a}
        BY <2>1, <3>2, <3>3
      <3>5. QED
        BY <3>4, FS_Singleton
    <2>5. QED
      BY <2>2, <2>3, <2>4
  <1>2. QED
    BY <1>1, IInvHolds, PTL

\* The bound of the unit test test_gen_agg_tasks holds for any number of segments.
THEOREM TasksBounded == Spec => []TaskCountBound
  <1>1. IInv => TaskCountBound
    <2> SUFFICES ASSUME IInv, Feature = "prover" PROVE Cardinality(Tasks) <= n
      BY DEF TaskCountBound
    <2>1. Shape(n, d) /\ AggCount(n, d) \in Nat /\ Tasks = 0..(AggCount(n, d) - 1)
      BY TheGraph DEF IInv
    <2>2. AggCount(n, d) <= n
      BY <2>1, AtMostOnePerSegment
    <2>3. Cardinality(0..(AggCount(n, d) - 1)) = AggCount(n, d)
      <3> DEFINE c == AggCount(n, d)
      <3>1. c \in Nat /\ 0 \in Int /\ c - 1 \in Int
        BY <2>1
      <3> HIDE DEF c
      <3>2. Cardinality(0..(c - 1)) = IF 0 > c - 1 THEN 0 ELSE c - 1 - 0 + 1
        BY <3>1, FS_Interval
      <3>3. Cardinality(0..(c - 1)) = c
        BY <3>1, <3>2
      <3>4. QED
        BY <3>3 DEF c
    <2>4. QED
      BY <2>1, <2>2, <2>3
  <1>2. QED
    BY <1>1, IInvHolds, PTL
=============================================================================
