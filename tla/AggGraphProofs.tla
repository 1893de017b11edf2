--------------------------- MODULE AggGraphProofs ---------------------------
(***************************************************************************)
(* Proofs about AggGraph, for both builds and any number of segments and   *)
(* of deferred proofs.  The rounds are an induction over the naturals,     *)
(* which is had here from the well-foundedness of < on sets of naturals.   *)
(***************************************************************************)
EXTENDS AggGraph, Integers, WellFoundedInduction, SequenceTheorems, TLAPS

----------------------------------------------------------------------------
(* Induction and recursion over the naturals, for sets and functions.      *)

LEMMA Least ==
    ASSUME NEW T, T \subseteq Nat, T # {}
    PROVE  \E x \in T : \A y \in T : x <= y
  <1> DEFINE R == OpToRel(<, Nat)
  <1>1. IsWellFoundedOn(R, Nat)
    BY NatLessThanWellFounded
  <1>2. \A x, y \in Nat : y < x => <<y, x>> \in R
    BY DEF OpToRel
  <1> HIDE DEF R
  <1>3. PICK x \in T : \A y \in T : ~(<<y, x>> \in R)
    BY <1>1, WFMin
  <1>4. \A y \in T : x \in Nat /\ y \in Nat /\ ~(y < x)
    BY <1>2, <1>3
  <1>5. \A y \in T : x <= y
    BY <1>4
  <1>6. QED
    BY <1>5

LEMMA SetInduction ==
    ASSUME NEW T, 0 \in T, \A i \in Nat : i \in T => i + 1 \in T
    PROVE  \A i \in Nat : i \in T
  <1> DEFINE U == Nat \ T
  <1> SUFFICES ASSUME U # {} PROVE FALSE
    OBVIOUS
  <1>1. PICK x \in U : \A y \in U : x <= y
    BY Least
  <1>2. x \in Nat /\ x # 0 /\ x - 1 \in Nat /\ x - 1 < x
    OBVIOUS
  <1>3. x - 1 \in T
    BY <1>1, <1>2
  <1>4. x - 1 + 1 \in T
    BY <1>2, <1>3
  <1>5. QED
    BY <1>2, <1>4

\* A function can be defined by what it is at 0 and how it goes on.
LEMMA Recursion ==
    ASSUME NEW V, NEW v0 \in V, NEW F \in [V -> V]
    PROVE  \E g \in [Nat -> V] : g[0] = v0 /\ \A k \in Nat : g[k + 1] = F[g[k]]
  <1> DEFINE H(k) == {h \in [0..k -> V] : h[0] = v0 /\ \A i \in 0..(k - 1) : h[i + 1] = F[h[i]]}
  <1>1. \A k \in Nat : H(k) # {}
    <2> DEFINE T == {k \in Nat : H(k) # {}}
    <2>1. 0 \in T
      <3>1. [i \in 0..0 |-> v0] \in H(0)
        OBVIOUS
      <3>2. QED
        BY <3>1
    <2>2. ASSUME NEW k \in Nat, k \in T PROVE k + 1 \in T
      <3>1. PICK h \in [0..k -> V] : h[0] = v0 /\ \A i \in 0..(k - 1) : h[i + 1] = F[h[i]]
        BY <2>2
      <3> DEFINE e == [i \in 0..(k + 1) |-> IF i <= k THEN h[i] ELSE F[h[k]]]
      <3>2. e \in [0..(k + 1) -> V] /\ e[0] = v0
        BY <3>1
      <3>3. \A i \in 0..k : e[i + 1] = F[e[i]]
        <4> SUFFICES ASSUME NEW i \in 0..k PROVE e[i + 1] = F[e[i]]
          OBVIOUS
        <4>1. CASE i = k
          BY <4>1
        <4>2. CASE i \in 0..(k - 1)
          BY <3>1, <4>2
        <4>3. QED
          BY <4>1, <4>2
      <3>4. k + 1 - 1 = k /\ k + 1 \in Nat
        OBVIOUS
      <3> HIDE DEF e
      <3>5. e \in H(k + 1)
        BY <3>2, <3>3, <3>4
      <3>6. QED
        BY <3>4, <3>5
    <2> HIDE DEF T
    <2>3. \A k \in Nat : k \in T
      BY <2>1, <2>2, SetInduction
    <2>4. QED
      BY <2>3 DEF T
  <1>2. ASSUME NEW k \in Nat, NEW h \in H(k), NEW e \in H(k + 1)
        PROVE  \A i \in 0..k : h[i] = e[i]
    <2> DEFINE T == {i \in Nat : i <= k => h[i] = e[i]}
    <2>1. 0 \in T
      OBVIOUS
    <2>2. ASSUME NEW i \in Nat, i \in T PROVE i + 1 \in T
      <3> SUFFICES ASSUME i + 1 <= k PROVE h[i + 1] = e[i + 1]
        OBVIOUS
      <3>1. h[i] = e[i] /\ i \in 0..(k - 1) /\ i \in 0..(k + 1 - 1)
        BY <2>2
      <3>2. QED
        BY <3>1
    <2> HIDE DEF T
    <2>3. \A i \in Nat : i \in T
      BY <2>1, <2>2, SetInduction
    <2>4. QED
      BY <2>3 DEF T
  <1> DEFINE pick(k) == CHOOSE h : h \in H(k)
             g == [k \in Nat |-> pick(k)[k]]
  <1>3. \A k \in Nat : pick(k) \in H(k)
    BY <1>1
  <1> HIDE DEF pick
  <1>4. \A k \in Nat : pick(k)[k] \in V
    BY <1>3
  <1>5. pick(0)[0] = v0
    BY <1>3
  <1>6. ASSUME NEW k \in Nat PROVE pick(k + 1)[k + 1] = F[pick(k)[k]]
    <2>1. pick(k)[k] = pick(k + 1)[k]
      <3>1. k + 1 \in Nat /\ pick(k) \in H(k) /\ pick(k + 1) \in H(k + 1) /\ k \in 0..k
        BY <1>3
      <3> HIDE DEF H
      <3>2. QED
        BY <1>2, <3>1
    <2>2. pick(k + 1)[k + 1] = F[pick(k + 1)[k]]
      BY <1>3
    <2>3. QED
      BY <2>1, <2>2
  <1> HIDE DEF H
  <1>7. g \in [Nat -> V] /\ g[0] = v0 /\ \A k \in Nat : g[k + 1] = F[g[k]]
    BY <1>4, <1>5, <1>6
  <1>8. QED
    BY <1>7

----------------------------------------------------------------------------
(* The rounds are what the loop of gen_agg_tasks computes.                 *)

ProofRef == {"prove", "agg"} \X Nat
Round == [refs : Seq(ProofRef), next : Nat]

\* What gen_agg_tasks is called for: v1 has no deferred proofs.
Shape(n, d) == n \in Nat \ {0} /\ d \in Nat /\ (Feature = "prover" => d = 0)

LEMMA Halves ==
    ASSUME NEW x \in Nat
    PROVE  /\ x \div 2 \in Nat /\ x % 2 \in {0, 1}
           /\ x % 2 = 0 => 2 * (x \div 2) = x
           /\ x % 2 = 1 => 2 * (x \div 2) + 1 = x
  OBVIOUS

LEMMA RefType ==
    /\ \A i \in Nat : Prove(i) \in ProofRef /\ Agg(i) \in ProofRef
    /\ \A i, j : Prove(i) # Agg(j) /\ (Prove(i) = Prove(j) => i = j) /\ (Agg(i) = Agg(j) => i = j)
    /\ \A i : Prove(i)[1] = "prove" /\ Prove(i)[2] = i /\ Agg(i)[1] = "agg" /\ Agg(i)[2] = i
  BY DEF Prove, Agg, ProofRef

LEMMA Leaves ==
    ASSUME NEW n, NEW d, Shape(n, d)
    PROVE  LeafCount(n, d) \in Nat \ {0}
  BY FeatureAssumption DEF Shape, LeafCount

LEMMA FirstRoundType ==
    ASSUME NEW n, NEW d, Shape(n, d)
    PROVE  /\ FirstRound(n, d) \in Round
           /\ Len(FirstRound(n, d).refs) = LeafCount(n, d) /\ FirstRound(n, d).next = LeafCount(n, d)
           /\ \A j \in 1..LeafCount(n, d) : FirstRound(n, d).refs[j] = LeafRef(n, d, j - 1)
  <1>1. LeafCount(n, d) \in Nat
    BY Leaves
  <1>2. \A j \in 1..LeafCount(n, d) : LeafRef(n, d, j - 1) \in ProofRef
    <2>1. n - 1 \in Nat /\ \A j \in 1..LeafCount(n, d) : j - 1 \in Nat
      BY <1>1 DEF Shape
    <2>2. QED
      BY <2>1, RefType DEF LeafRef
  <1> DEFINE refs == [j \in 1..LeafCount(n, d) |-> LeafRef(n, d, j - 1)]
  <1>3. /\ refs \in Seq(ProofRef) /\ Len(refs) = LeafCount(n, d)
        /\ \A j \in 1..LeafCount(n, d) : refs[j] = LeafRef(n, d, j - 1)
    BY <1>1, <1>2
  <1>4. FirstRound(n, d) = [refs |-> refs, next |-> LeafCount(n, d)]
    BY DEF FirstRound
  <1> HIDE DEF refs
  <1>5. QED
    BY <1>1, <1>3, <1>4 DEF Round

\* One turn of the loop: new tasks for the chunks, then what is carried over.
LEMMA NextRoundIs ==
    ASSUME NEW v \in Round, Len(v.refs) > 1
    PROVE  LET w == NextRound(v)
               len == Len(v.refs)
               new == NewTasks(len) IN
           /\ w \in Round /\ len \in Nat /\ new \in Nat \ {0} /\ w.next = v.next + new
           /\ Len(w.refs) \in {new, new + 1} /\ 2 * Len(w.refs) \in {len, len + 1}
           /\ \A j \in 1..new : w.refs[j] = Agg(v.next + j - 1)
           /\ Len(w.refs) = new + 1 => len = 2 * new + 1 /\ w.refs[new + 1] = v.refs[len]
  <1> DEFINE len == Len(v.refs)
             new == NewTasks(len)
             made == [j \in 1..new |-> Agg(v.next + j - 1)]
             carried == CarriedOver(v.refs)
  <1>1. v.refs \in Seq(ProofRef) /\ v.next \in Nat /\ len \in Nat /\ len > 1
    BY DEF Round
  <1>2. /\ new \in Nat \ {0}
        /\ \/ carried = <<>> /\ (2 * new = len \/ 2 * new = len + 1)
           \/ carried = <<v.refs[len]>> /\ len = 2 * new + 1
    <2>1. len + 1 \in Nat
      BY <1>1
    <2>2. CASE Feature = "prover" /\ len % 2 = 1
      <3>1. new = len \div 2 /\ carried = <<v.refs[len]>>
        BY <2>2 DEF NewTasks, CarriedOver
      <3>2. 2 * (len \div 2) + 1 = len /\ len \div 2 \in Nat
        BY <1>1, <2>2, Halves
      <3> HIDE DEF len, carried, new
      <3>3. QED
        BY <1>1, <3>1, <3>2
    <2>3. CASE Feature = "prover" /\ len % 2 # 1
      <3>1. new = len \div 2 /\ carried = <<>>
        BY <2>3 DEF NewTasks, CarriedOver
      <3>2. 2 * (len \div 2) = len /\ len \div 2 \in Nat
        BY <1>1, <2>3, Halves
      <3> HIDE DEF len, carried, new
      <3>3. QED
        BY <1>1, <3>1, <3>2
    <2>4. CASE Feature # "prover"
      <3>1. new = (len + 1) \div 2 /\ carried = <<>>
        BY <2>4 DEF NewTasks, CarriedOver
      <3>2. /\ 2 * ((len + 1) \div 2) = len + 1 \/ 2 * ((len + 1) \div 2) + 1 = len + 1
            /\ (len + 1) \div 2 \in Nat
        BY <2>1, Halves
      <3> HIDE DEF len, carried, new
      <3>3. QED
        BY <1>1, <3>1, <3>2
    <2>5. QED
      BY <2>2, <2>3, <2>4
  <1>3. made \in Seq(ProofRef) /\ Len(made) = new /\ \A j \in 1..new : made[j] = Agg(v.next + j - 1)
    <2>1. \A j \in 1..new : v.next + j - 1 \in Nat
      BY <1>1, <1>2
    <2>2. \A j \in 1..new : Agg(v.next + j - 1) \in ProofRef
      BY <2>1, RefType
    <2> HIDE DEF new
    <2>3. QED
      BY <1>2, <2>2
  <1>4. NextRound(v) = [refs |-> made \o carried, next |-> v.next + new]
    BY <1>1 DEF NextRound
  <1>5. v.refs[len] \in ProofRef
    BY <1>1
  <1>6. CASE carried = <<>> /\ (2 * new = len \/ 2 * new = len + 1)
    <2>1. made \o carried = made
      <3> HIDE DEF made, carried
      <3> QED BY <1>3, <1>6
    <2> HIDE DEF made, carried, new, len
    <2>2. NextRound(v).refs = made /\ NextRound(v).next = v.next + new /\ NextRound(v) \in Round
      <3>1. NextRound(v) = [refs |-> made, next |-> v.next + new]
        BY <1>4, <2>1
      <3>2. v.next + new \in Nat /\ made \in Seq(ProofRef)
        BY <1>1, <1>2, <1>3
      <3>3. QED
        BY <3>1, <3>2 DEF Round
    <2>3. NextRound(v) \in Round /\ Len(made) = new
      BY <1>3, <2>2
    <2>4. 2 * Len(made) \in {len, len + 1} /\ Len(made) # new + 1
      BY <1>2, <1>3, <1>6
    <2>5. QED
      BY <1>1, <1>2, <1>3, <2>2, <2>3, <2>4 DEF len, new
  <1>7. CASE carried = <<v.refs[len]>> /\ len = 2 * new + 1
    <2> HIDE DEF made, carried, new
    <2>1. /\ made \o carried \in Seq(ProofRef) /\ Len(made \o carried) = new + 1
          /\ \A j \in 1..new : (made \o carried)[j] = made[j]
          /\ (made \o carried)[new + 1] = v.refs[len]
      BY <1>2, <1>3, <1>5, <1>7
    <2> HIDE DEF len
    <2>2. NextRound(v).refs = made \o carried /\ NextRound(v).next = v.next + new /\ NextRound(v) \in Round
      BY <1>1, <1>2, <1>4, <2>1 DEF Round
    <2>3. 2 * (new + 1) \in {len, len + 1} /\ new + 1 # new
      BY <1>1, <1>2, <1>7
    <2>4. QED
      BY <1>1, <1>2, <1>3, <1>7, <2>1, <2>2, <2>3 DEF len, new
  <1>8. QED
    BY <1>2, <1>6, <1>7

LEMMA NextRoundType ==
    ASSUME NEW v \in Round
    PROVE  NextRound(v) \in Round
  <1>1. CASE Len(v.refs) <= 1
    BY <1>1 DEF NextRound
  <1>2. CASE ~(Len(v.refs) <= 1)
    <2>1. Len(v.refs) \in Nat
      BY DEF Round
    <2>2. QED
      BY <1>2, <2>1, NextRoundIs
  <1>3. QED
    BY <1>1, <1>2

LEMMA RoundsAre ==
    ASSUME NEW n, NEW d, Shape(n, d)
    PROVE  /\ Rounds(n, d) \in [Nat -> Round] /\ Rounds(n, d)[0] = FirstRound(n, d)
           /\ \A k \in Nat : Rounds(n, d)[k + 1] = NextRound(Rounds(n, d)[k])
  <1> DEFINE F == [v \in Round |-> NextRound(v)]
             Body(g) == [k \in Nat |-> IF k = 0 THEN FirstRound(n, d) ELSE NextRound(g[k - 1])]
  <1>1. FirstRound(n, d) \in Round
    BY FirstRoundType
  <1>2. F \in [Round -> Round]
    BY NextRoundType
  <1>3. PICK g \in [Nat -> Round] : g[0] = FirstRound(n, d) /\ \A k \in Nat : g[k + 1] = F[g[k]]
    <2> HIDE DEF F
    <2> QED BY <1>1, <1>2, Recursion
  <1>4. g = Body(g)
    <2>1. \A k \in Nat : g[k] = IF k = 0 THEN FirstRound(n, d) ELSE NextRound(g[k - 1])
      <3> SUFFICES ASSUME NEW k \in Nat, k # 0 PROVE g[k] = NextRound(g[k - 1])
        BY <1>3
      <3>1. k - 1 \in Nat /\ k - 1 + 1 = k
        OBVIOUS
      <3>2. g[k - 1 + 1] = F[g[k - 1]]
        BY <1>3, <3>1
      <3>3. QED
        BY <3>1, <3>2
    <2>2. QED
      BY <2>1
  <1>5. Rounds(n, d) = CHOOSE h : h = Body(h)
    BY DEF Rounds
  <1> DEFINE R == Rounds(n, d)
  <1>6. R = Body(R)
    BY <1>4, <1>5, Zenon
  <1>7. R[0] = FirstRound(n, d) /\ \A k \in Nat : R[k + 1] = NextRound(R[k])
    <2> HIDE DEF R
    <2>1. \A k \in Nat : R[k] = IF k = 0 THEN FirstRound(n, d) ELSE NextRound(R[k - 1])
      BY <1>6
    <2>2. ASSUME NEW k \in Nat PROVE R[k + 1] = NextRound(R[k])
      <3>1. k + 1 \in Nat /\ k + 1 # 0 /\ k + 1 - 1 = k
        OBVIOUS
      <3>2. QED
        BY <2>1, <3>1
    <2>3. QED
      BY <2>1, <2>2
  <1> HIDE DEF F, Body, R
  <1>8. \A k \in Nat : R[k] \in Round
    <2> DEFINE T == {k \in Nat : R[k] \in Round}
    <2>1. 0 \in T
      BY <1>1, <1>7
    <2>2. \A k \in Nat : k \in T => k + 1 \in T
      BY <1>7, NextRoundType
    <2> HIDE DEF T
    <2>3. \A k \in Nat : k \in T
      BY <2>1, <2>2, SetInduction
    <2>4. QED
      BY <2>3 DEF T
  <1>9. R \in [Nat -> Round]
    BY <1>6, <1>8 DEF Body
  <1>10. QED
    BY <1>7, <1>9 DEF R

\* A round that is not the last one shortens the list and adds tasks; after the
\* last one nothing changes.
LEMMA RoundStep ==
    ASSUME NEW n, NEW d, Shape(n, d), NEW k \in Nat
    PROVE  LET v == Rounds(n, d)[k]
               w == Rounds(n, d)[k + 1] IN
           /\ v \in Round /\ w \in Round /\ Len(v.refs) \in Nat /\ v.next \in Nat /\ w.next \in Nat
           /\ Len(v.refs) <= 1 => w = v
           /\ Len(v.refs) > 1 => /\ Len(w.refs) < Len(v.refs) /\ Len(w.refs) > 0
                                 /\ w.next > v.next
           /\ v.next <= w.next
  <1> DEFINE v == Rounds(n, d)[k]
             w == Rounds(n, d)[k + 1]
  <1>1. v \in Round /\ w = NextRound(v)
    BY RoundsAre
  <1> HIDE DEF v, w
  <1>2. w \in Round /\ Len(v.refs) \in Nat /\ v.next \in Nat /\ w.next \in Nat /\ Len(w.refs) \in Nat
    BY <1>1, NextRoundType DEF Round
  <1>3. Len(v.refs) <= 1 => w = v
    BY <1>1 DEF NextRound
  <1>4. Len(v.refs) > 1 => /\ Len(w.refs) < Len(v.refs) /\ Len(w.refs) > 0 /\ w.next > v.next
    <2> SUFFICES ASSUME Len(v.refs) > 1
                 PROVE  Len(w.refs) < Len(v.refs) /\ Len(w.refs) > 0 /\ w.next > v.next
      OBVIOUS
    <2>1. PICK new \in Nat \ {0} : w.next = v.next + new
      BY <1>1, NextRoundIs
    <2>2. 2 * Len(w.refs) = Len(v.refs) \/ 2 * Len(w.refs) = Len(v.refs) + 1
      BY <1>1, NextRoundIs
    <2>3. QED
      BY <1>2, <2>1, <2>2
  <1>5. v.next <= w.next
    BY <1>2, <1>3, <1>4
  <1>6. QED
    BY <1>1, <1>2, <1>3, <1>4, <1>5 DEF v, w

LEMMA RoundsProgress ==
    ASSUME NEW n, NEW d, Shape(n, d)
    PROVE  LET R == Rounds(n, d) IN
           /\ \A k \in Nat : /\ Len(R[k].refs) > 0
                             /\ Len(R[k].refs) <= 1 \/ Len(R[k].refs) + k <= LeafCount(n, d)
           /\ \A i \in Nat : \A m \in Nat : R[i].next <= R[i + m].next
  <1> DEFINE R == Rounds(n, d)
             L == LeafCount(n, d)
  <1>1. /\ \A k \in Nat : /\ Len(R[k].refs) \in Nat /\ R[k].next \in Nat
                          /\ Len(R[k].refs) <= 1 => R[k + 1] = R[k]
                          /\ Len(R[k].refs) > 1 => Len(R[k + 1].refs) < Len(R[k].refs) /\ Len(R[k + 1].refs) > 0
                          /\ R[k].next <= R[k + 1].next
    BY RoundStep
  <1>2. L \in Nat \ {0} /\ Len(R[0].refs) = L
    BY Leaves, RoundsAre, FirstRoundType
  <1> HIDE DEF R, L
  <1>3. \A k \in Nat : Len(R[k].refs) > 0 /\ (Len(R[k].refs) <= 1 \/ Len(R[k].refs) + k <= L)
    <2> DEFINE T == {k \in Nat : Len(R[k].refs) > 0 /\ (Len(R[k].refs) <= 1 \/ Len(R[k].refs) + k <= L)}
    <2>1. 0 \in T
      BY <1>1, <1>2
    <2>2. ASSUME NEW k \in Nat, k \in T PROVE k + 1 \in T
      <3>1. Len(R[k].refs) \in Nat /\ Len(R[k + 1].refs) \in Nat /\ k + 1 \in Nat
        <4>1. k + 1 \in Nat
          OBVIOUS
        <4>2. QED
          BY <1>1, <4>1
      <3>2. CASE Len(R[k].refs) <= 1
        BY <1>1, <2>2, <3>1, <3>2
      <3>3. CASE Len(R[k].refs) > 1
        <4>1. Len(R[k + 1].refs) < Len(R[k].refs) /\ Len(R[k + 1].refs) > 0 /\ Len(R[k].refs) + k <= L
          BY <1>1, <2>2, <3>1, <3>3
        <4>2. QED
          BY <1>2, <3>1, <4>1
      <3>4. QED
        BY <3>1, <3>2, <3>3
    <2> HIDE DEF T
    <2>3. \A k \in Nat : k \in T
      BY <2>1, <2>2, SetInduction
    <2>4. QED
      BY <2>3 DEF T
  <1>4. ASSUME NEW i \in Nat
        PROVE  \A m \in Nat : R[i].next <= R[i + m].next
    <2> DEFINE T == {m \in Nat : R[i].next <= R[i + m].next}
    <2>1. 0 \in T
      BY <1>1
    <2>2. ASSUME NEW m \in Nat, m \in T PROVE m + 1 \in T
      <3>1. i + m \in Nat /\ i + (m + 1) = (i + m) + 1
        OBVIOUS
      <3>2. R[i].next \in Nat /\ R[i + m].next \in Nat /\ R[(i + m) + 1].next \in Nat
            /\ R[i + m].next <= R[(i + m) + 1].next
        <4>1. (i + m) + 1 \in Nat
          OBVIOUS
        <4>2. QED
          BY <1>1, <3>1, <4>1
      <3>3. R[i].next <= R[i + (m + 1)].next
        BY <2>2, <3>1, <3>2
      <3>4. QED
        BY <3>3
    <2> HIDE DEF T
    <2>3. \A m \in Nat : m \in T
      BY <2>1, <2>2, SetInduction
    <2>4. QED
      BY <2>3 DEF T
  <1>5. QED
    BY <1>3, <1>4 DEF R, L

LEMMA Settled ==
    ASSUME NEW n, NEW d, Shape(n, d), NEW i \in Nat, Len(Rounds(n, d)[i].refs) <= 1,
           NEW j \in Nat, i <= j
    PROVE  Rounds(n, d)[j] = Rounds(n, d)[i]
  <1> DEFINE R == Rounds(n, d)
             T == {m \in Nat : R[i + m] = R[i]}
  <1>1. \A k \in Nat : Len(R[k].refs) <= 1 => R[k + 1] = R[k]
    BY RoundStep
  <1> HIDE DEF R
  <1>2. 0 \in T
    OBVIOUS
  <1>3. ASSUME NEW m \in Nat, m \in T PROVE m + 1 \in T
    <2>1. i + m \in Nat /\ i + (m + 1) = (i + m) + 1
      OBVIOUS
    <2>2. R[i + m] = R[i] /\ Len(R[i].refs) <= 1
      BY <1>3 DEF R
    <2>3. R[(i + m) + 1] = R[i + m]
      BY <1>1, <2>1, <2>2
    <2>4. R[i + (m + 1)] = R[i]
      BY <2>1, <2>2, <2>3
    <2>5. QED
      BY <2>4
  <1> HIDE DEF T
  <1>4. \A m \in Nat : m \in T
    BY <1>2, <1>3, SetInduction
  <1>5. PICK m \in Nat : j = i + m
    <2>1. j - i \in Nat /\ j = i + (j - i)
      OBVIOUS
    <2>2. QED
      BY <2>1
  <1>6. QED
    BY <1>4, <1>5 DEF R, T

\* The loop ends, with one proof left; e is the number of its rounds.
LEMMA LoopEnds ==
    ASSUME NEW n, NEW d, Shape(n, d)
    PROVE  LET R == Rounds(n, d)
               L == LeafCount(n, d) IN
           /\ L \in Nat \ {0} /\ Len(R[L].refs) = 1
           /\ \A k \in Nat : Len(R[k].refs) > 1 => k < L
           /\ \E e \in Nat : R[L] = R[e] /\ \A i \in 0..(e - 1) : Len(R[i].refs) > 1
  <1> DEFINE R == Rounds(n, d)
             L == LeafCount(n, d)
             T == {k \in Nat : Len(R[k].refs) <= 1}
  <1>1. L \in Nat \ {0}
    BY Leaves
  <1>2. \A k \in Nat : Len(R[k].refs) \in Nat /\ Len(R[k].refs) > 0
    BY RoundStep, RoundsProgress
  <1>3. \A k \in Nat : Len(R[k].refs) <= 1 \/ Len(R[k].refs) + k <= L
    BY RoundsProgress
  <1>4. L \in T
    BY <1>1, <1>2, <1>3
  <1>5. PICK e \in T : \A j \in T : e <= j
    <2>1. T # {} /\ T \subseteq Nat
      BY <1>4
    <2> HIDE DEF T
    <2>2. QED
      BY <2>1, Least
  <1>6. e \in Nat /\ e <= L /\ Len(R[e].refs) <= 1
    BY <1>1, <1>4, <1>5
  <1>7. \A i \in 0..(e - 1) : Len(R[i].refs) > 1
    BY <1>2, <1>5, <1>6
  <1>8. R[L] = R[e]
    BY <1>1, <1>6, Settled
  <1>9. Len(R[L].refs) = 1
    <2> DEFINE len == Len(R[L].refs)
    <2>1. len \in Nat /\ len > 0 /\ len <= 1
      BY <1>1, <1>2, <1>4
    <2> HIDE DEF len
    <2>2. len = 1
      BY <2>1
    <2>3. QED
      BY <2>2 DEF len
  <1>10. ASSUME NEW k \in Nat, Len(R[k].refs) > 1 PROVE k < L
    BY <1>1, <1>2, <1>3, <1>10
  <1> HIDE DEF T
  <1>11. QED
    BY <1>1, <1>6, <1>7, <1>8, <1>9, <1>10

\* A task's inputs are its chunk of the round that made it.
LEMMA InputsOf ==
    ASSUME NEW n, NEW d, Shape(n, d), NEW k \in Nat,
           NEW a \in Rounds(n, d)[k].next .. (Rounds(n, d)[k + 1].next - 1)
    PROVE  /\ AggInputs(n, d, a) = Chunk(Rounds(n, d)[k].refs, a - Rounds(n, d)[k].next)
           /\ Len(Rounds(n, d)[k].refs) > 1 /\ a \in Nat
  <1> DEFINE R == Rounds(n, d)
             e == LeafCount(n, d)
             P(i) == R[i].next <= a /\ a < R[i + 1].next
  <1>1. \A i \in Nat : R[i].next \in Nat /\ Len(R[i].refs) \in Nat
    BY RoundStep
  <1>2. a \in Nat /\ R[k].next <= a /\ a < R[k + 1].next
    BY <1>1
  <1>3. Len(R[k].refs) > 1
    <2>1. Len(R[k].refs) <= 1 => R[k + 1] = R[k]
      BY RoundStep
    <2>2. QED
      BY <1>1, <1>2, <2>1
  <1>4. k \in 0..e
    <2>1. e \in Nat /\ k < e
      BY <1>3, LoopEnds
    <2>2. QED
      BY <2>1
  <1>5. \A i, m \in Nat : i < m => R[i + 1].next <= R[m].next
    <2> SUFFICES ASSUME NEW i \in Nat, NEW m \in Nat, i < m PROVE R[i + 1].next <= R[m].next
      OBVIOUS
    <2>1. i + 1 \in Nat /\ m - (i + 1) \in Nat /\ (i + 1) + (m - (i + 1)) = m
      OBVIOUS
    <2>2. \A x, y \in Nat : R[x].next <= R[x + y].next
      BY RoundsProgress
    <2> HIDE DEF R
    <2>3. R[i + 1].next <= R[(i + 1) + (m - (i + 1))].next
      BY <2>1, <2>2
    <2>4. QED
      BY <2>1, <2>3
  <1>6. \A i \in Nat : P(i) => i = k
    <2> SUFFICES ASSUME NEW i \in Nat, P(i), i # k PROVE FALSE
      OBVIOUS
    <2>1. CASE i < k
      <3>1. R[i + 1].next <= R[k].next /\ i + 1 \in Nat
        BY <1>5, <2>1
      <3>2. QED
        BY <1>1, <1>2, <3>1
    <2>2. CASE k < i
      <3>1. R[k + 1].next <= R[i].next /\ k + 1 \in Nat
        BY <1>5, <2>2
      <3>2. QED
        BY <1>1, <1>2, <3>1
    <2>3. QED
      BY <2>1, <2>2
  <1>7. P(k)
    BY <1>2
  <1>8. (CHOOSE i \in 0..e : P(i)) = k
    <2> HIDE DEF P, R
    <2>1. e \in Nat
      BY LoopEnds
    <2> HIDE DEF e
    <2>2. \A i \in 0..e : P(i) => i = k
      BY <1>6, <2>1
    <2>3. QED
      BY <1>4, <1>7, <2>2, Zenon
  <1>9. R[0].next = LeafCount(n, d) /\ R[0].next <= R[k].next
    <2>1. R[0].next = LeafCount(n, d)
      BY RoundsAre, FirstRoundType
    <2>2. \A m \in Nat : R[0].next <= R[0 + m].next
      BY RoundsProgress
    <2>3. QED
      BY <2>1, <2>2
  <1>10. ~(a < LeafCount(n, d))
    BY <1>1, <1>2, <1>9
  <1>11. AggInputs(n, d, a) = Chunk(R[CHOOSE i \in 0..e : P(i)].refs, a - R[CHOOSE i \in 0..e : P(i)].next)
    BY <1>10 DEF AggInputs
  <1> HIDE DEF P, e
  <1>12. QED
    BY <1>2, <1>3, <1>8, <1>11

----------------------------------------------------------------------------
(* The graph is a forest: no proof is combined twice.                      *)

Inputs(n, d, a) == SeqRange(AggInputs(n, d, a))

\* What holds of the tasks below v.next and of the list v.refs after each round.
Forest(n, d, v) ==
    /\ \A i, j \in 1..Len(v.refs) : v.refs[i] = v.refs[j] => i = j
    /\ \A j \in 1..Len(v.refs) : \A b : v.refs[j] = Agg(b) => b \in Nat /\ b < v.next
    /\ \A a \in 0..(v.next - 1) : \A b : Agg(b) \in Inputs(n, d, a) => b \in Nat /\ b < a
    /\ \A a \in 0..(v.next - 1) : \A j \in 1..Len(v.refs) : v.refs[j] \notin Inputs(n, d, a)
    /\ \A a, b \in 0..(v.next - 1) : a # b => Inputs(n, d, a) \cap Inputs(n, d, b) = {}

LEMMA ChunkRange ==
    ASSUME NEW refs \in Seq(ProofRef), NEW j \in Nat, 2 * j + 1 <= Len(refs)
    PROVE  \A r : r \in SeqRange(Chunk(refs, j)) <=>
                     \E p \in 1..Len(refs) : (p = 2 * j + 1 \/ p = 2 * j + 2) /\ r = refs[p]
  <1>1. Len(refs) \in Nat
    OBVIOUS
  <1>2. CASE 2 * j + 2 <= Len(refs)
    <2>1. Chunk(refs, j) = [i \in 1..2 |-> refs[2 * j + i]]
      BY <1>2 DEF Chunk
    <2>2. SeqRange(Chunk(refs, j)) = {refs[2 * j + 1], refs[2 * j + 2]}
      BY <2>1 DEF SeqRange
    <2>3. 2 * j + 1 \in 1..Len(refs) /\ 2 * j + 2 \in 1..Len(refs)
      BY <1>1, <1>2
    <2>4. QED
      BY <2>2, <2>3
  <1>3. CASE ~(2 * j + 2 <= Len(refs))
    <2>1. Chunk(refs, j) = [i \in 1..1 |-> refs[2 * j + i]]
      BY <1>3 DEF Chunk
    <2>2. SeqRange(Chunk(refs, j)) = {refs[2 * j + 1]}
      BY <2>1 DEF SeqRange
    <2>3. 2 * j + 1 \in 1..Len(refs) /\ 2 * j + 2 \notin 1..Len(refs)
      BY <1>1, <1>3
    <2>4. QED
      BY <2>2, <2>3
  <1>4. QED
    BY <1>2, <1>3

\* The tasks a round adds to the list v and the list w it leaves.
Adds(n, d, v, w, new) ==
    LET len == Len(v.refs) IN
    /\ w.next = v.next + new /\ 2 * new <= len + 1 /\ len <= 2 * new + 1
    /\ Len(w.refs) = IF len = 2 * new + 1 THEN new + 1 ELSE new
    /\ \A q \in 1..Len(w.refs) :
          \/ q \in 1..new /\ w.refs[q] = Agg(v.next + q - 1)
          \/ q = new + 1 /\ len = 2 * new + 1 /\ w.refs[q] = v.refs[len]
    /\ \A a \in v.next..(w.next - 1) :
          LET j == a - v.next IN
          /\ j \in 0..(new - 1) /\ 2 * j + 1 \in 1..len
          /\ AggInputs(n, d, a) = Chunk(v.refs, j)
          /\ \A r : r \in Inputs(n, d, a) <=>
                \E p \in 1..len : (p = 2 * j + 1 \/ p = 2 * j + 2) /\ r = v.refs[p]

LEMMA RoundAdds ==
    ASSUME NEW n, NEW d, Shape(n, d), NEW k \in Nat, Len(Rounds(n, d)[k].refs) > 1
    PROVE  \E new \in Nat \ {0} : Adds(n, d, Rounds(n, d)[k], Rounds(n, d)[k + 1], new)
  <1> DEFINE v == Rounds(n, d)[k]
             w == Rounds(n, d)[k + 1]
             len == Len(v.refs)
             new == NewTasks(len)
  <1>1. v \in Round /\ w = NextRound(v)
    BY RoundsAre
  <1> HIDE DEF v, w
  <1>2. v.refs \in Seq(ProofRef) /\ v.next \in Nat /\ len \in Nat /\ len > 1
    BY <1>1 DEF Round, v
  <1>3. /\ w \in Round /\ new \in Nat \ {0} /\ w.next = v.next + new
        /\ Len(w.refs) \in {new, new + 1} /\ 2 * Len(w.refs) \in {len, len + 1}
        /\ \A j \in 1..new : w.refs[j] = Agg(v.next + j - 1)
        /\ Len(w.refs) = new + 1 => len = 2 * new + 1 /\ w.refs[new + 1] = v.refs[len]
    BY <1>1, <1>2, NextRoundIs
  <1> HIDE DEF new
  <1>4. /\ 2 * new <= len + 1 /\ len <= 2 * new + 1
        /\ Len(w.refs) = IF len = 2 * new + 1 THEN new + 1 ELSE new
    <2> DEFINE left == Len(w.refs)
    <2>1. /\ len \in Nat /\ new \in Nat /\ (left = new \/ left = new + 1)
          /\ 2 * left = len \/ 2 * left = len + 1
          /\ left = new + 1 => len = 2 * new + 1
      BY <1>2, <1>3
    <2> HIDE DEF left, len
    <2>2. left \in Nat
      BY <2>1
    <2>3. /\ 2 * new <= len + 1 /\ len <= 2 * new + 1
          /\ left = IF len = 2 * new + 1 THEN new + 1 ELSE new
      BY ONLY <2>1, <2>2
    <2>4. QED
      BY <2>3 DEF left, len
  <1>5. \A q \in 1..Len(w.refs) :
            \/ q \in 1..new /\ w.refs[q] = Agg(v.next + q - 1)
            \/ q = new + 1 /\ len = 2 * new + 1 /\ w.refs[q] = v.refs[len]
    <2> SUFFICES ASSUME NEW q \in 1..Len(w.refs), ~(q \in 1..new)
                 PROVE  q = new + 1 /\ len = 2 * new + 1 /\ w.refs[q] = v.refs[len]
      BY <1>3
    <2>1. q = new + 1 /\ Len(w.refs) = new + 1
      BY <1>3
    <2>2. QED
      BY <1>3, <2>1
  <1>6. ASSUME NEW a \in v.next..(w.next - 1)
        PROVE  LET j == a - v.next IN
               /\ j \in 0..(new - 1) /\ 2 * j + 1 \in 1..len
               /\ AggInputs(n, d, a) = Chunk(v.refs, j)
               /\ \A r : r \in Inputs(n, d, a) <=>
                     \E p \in 1..len : (p = 2 * j + 1 \/ p = 2 * j + 2) /\ r = v.refs[p]
    <2> DEFINE j == a - v.next
    <2>1. j \in Nat /\ j <= new - 1 /\ 2 * j + 1 <= len
      <3>1. a \in Int /\ v.next <= a /\ a <= v.next + new - 1 /\ v.next \in Nat /\ new \in Nat
        BY <1>2, <1>3
      <3>2. 2 * new <= len + 1 /\ len \in Nat
        BY <1>2, <1>4
      <3> HIDE DEF len
      <3>3. QED
        BY <3>1, <3>2
    <2>2. AggInputs(n, d, a) = Chunk(v.refs, j)
      BY InputsOf DEF v, w
    <2> HIDE DEF j
    <2>3. \A r : r \in SeqRange(Chunk(v.refs, j)) <=>
                     \E p \in 1..len : (p = 2 * j + 1 \/ p = 2 * j + 2) /\ r = v.refs[p]
      BY <1>2, <2>1, ChunkRange
    <2>4. j \in 0..(new - 1) /\ 2 * j + 1 \in 1..len
      BY <1>2, <1>3, <2>1
    <2>5. QED
      BY <2>2, <2>3, <2>4 DEF Inputs, j
  <1>7. Adds(n, d, v, w, new)
    BY <1>3, <1>4, <1>5, <1>6 DEF Adds
  <1>8. QED
    BY <1>3, <1>7 DEF v, w

LEMMA LeafInputsAre ==
    ASSUME NEW n, NEW d, Shape(n, d), NEW a \in 0..(LeafCount(n, d) - 1)
    PROVE  /\ AggInputs(n, d, a) = LeafInputs(n, d, a)
           /\ a \in Nat
           /\ Feature = "prover_v2" => AggInputs(n, d, a) = <<Prove(a)>> /\ a < n + d
           /\ Feature = "prover" /\ IsPlaceholder(n, d, a) => AggInputs(n, d, a) = <<>> /\ n = 2 * a + 1
           /\ Feature = "prover" /\ ~IsPlaceholder(n, d, a) =>
                 AggInputs(n, d, a) = <<Prove(2 * a), Prove(2 * a + 1)>> /\ 2 * a + 1 < n
  <1>1. LeafCount(n, d) \in Nat /\ a \in Nat /\ a < LeafCount(n, d)
    BY Leaves
  <1>2. AggInputs(n, d, a) = LeafInputs(n, d, a)
    BY <1>1 DEF AggInputs
  <1>3. ASSUME Feature = "prover"
        PROVE  /\ IsPlaceholder(n, d, a) => n = 2 * a + 1
               /\ ~IsPlaceholder(n, d, a) => 2 * a + 1 < n
    <2> DEFINE L == LeafCount(n, d)
    <2>1. L = (n + 1) \div 2 /\ n \in Nat /\ n + 1 \in Nat
      BY <1>3 DEF LeafCount, Shape
    <2>2. (n + 1) % 2 \in {0, 1} /\ n % 2 \in {0, 1} /\ (n + 1) % 2 = 1 - (n % 2)
      BY <2>1
    <2>3. (n % 2 = 1 => 2 * L = n + 1) /\ (n % 2 = 0 => 2 * L + 1 = n + 1)
      BY <2>1, <2>2, Halves
    <2>4. IsPlaceholder(n, d, a) <=> n % 2 = 1 /\ a = L - 1
      BY <1>3 DEF IsPlaceholder
    <2>5. L \in Nat /\ a < L
      BY <1>1
    <2> HIDE DEF L
    <2>6. QED
      BY <1>1, <2>1, <2>2, <2>3, <2>4, <2>5
  <1>4. Feature = "prover_v2" => LeafCount(n, d) = n + d
    BY DEF LeafCount
  <1>5. QED
    BY <1>1, <1>2, <1>3, <1>4 DEF LeafInputs

LEMMA ForestStarts ==
    ASSUME NEW n, NEW d, Shape(n, d)
    PROVE  Forest(n, d, FirstRound(n, d))
  <1> DEFINE L == LeafCount(n, d)
             v == FirstRound(n, d)
  <1>1. /\ L \in Nat /\ Len(v.refs) = L /\ v.next = L
        /\ \A j \in 1..L : v.refs[j] = LeafRef(n, d, j - 1) /\ j - 1 \in 0..(L - 1)
    <2>1. L \in Nat /\ Len(v.refs) = L /\ v.next = L /\ \A j \in 1..L : v.refs[j] = LeafRef(n, d, j - 1)
      BY Leaves, FirstRoundType
    <2> HIDE DEF L, v
    <2>2. QED
      BY <2>1
  <1>2. \A j \in 1..L : \/ v.refs[j] = Agg(j - 1) /\ ~IsPlaceholder(n, d, j - 1)
                        \/ /\ IsPlaceholder(n, d, j - 1) /\ v.refs[j] = Prove(n - 1)
                           /\ j = L /\ n = 2 * j - 1 /\ Feature = "prover"
    <2> SUFFICES ASSUME NEW j \in 1..L, IsPlaceholder(n, d, j - 1)
                 PROVE  j = L /\ n = 2 * j - 1 /\ Feature = "prover"
      BY <1>1 DEF LeafRef
    <2>1. Feature = "prover" /\ j - 1 = L - 1 /\ j - 1 \in 0..(L - 1)
      BY <1>1 DEF IsPlaceholder
    <2>2. n = 2 * (j - 1) + 1
      BY <2>1, LeafInputsAre
    <2>3. QED
      BY <1>1, <2>1, <2>2
  <1>3. \A a \in 0..(L - 1) : \A r \in Inputs(n, d, a) :
            \E i \in Nat : /\ r = Prove(i)
                           /\ Feature = "prover_v2" => i = a
                           /\ Feature = "prover" => (i = 2 * a \/ i = 2 * a + 1) /\ 2 * a + 1 < n
    <2> SUFFICES ASSUME NEW a \in 0..(L - 1), NEW r \in Inputs(n, d, a)
                 PROVE  \E i \in Nat : /\ r = Prove(i)
                                       /\ Feature = "prover_v2" => i = a
                                       /\ Feature = "prover" => (i = 2 * a \/ i = 2 * a + 1) /\ 2 * a + 1 < n
      OBVIOUS
    <2>1. a \in Nat /\ 2 * a \in Nat /\ 2 * a + 1 \in Nat
      BY <1>1
    <2>2. CASE Feature = "prover_v2"
      <3>1. AggInputs(n, d, a) = <<Prove(a)>>
        BY <2>2, LeafInputsAre
      <3>2. Inputs(n, d, a) = {Prove(a)}
        BY <3>1 DEF Inputs, SeqRange
      <3>3. QED
        BY <2>1, <2>2, <3>2
    <2>3. CASE Feature = "prover" /\ IsPlaceholder(n, d, a)
      <3>1. AggInputs(n, d, a) = <<>>
        BY <2>3, LeafInputsAre
      <3>2. Inputs(n, d, a) = {}
        BY <3>1 DEF Inputs, SeqRange
      <3>3. QED
        BY <3>2
    <2>4. CASE Feature = "prover" /\ ~IsPlaceholder(n, d, a)
      <3>1. AggInputs(n, d, a) = <<Prove(2 * a), Prove(2 * a + 1)>> /\ 2 * a + 1 < n
        BY <2>4, LeafInputsAre
      <3>2. Inputs(n, d, a) = {Prove(2 * a), Prove(2 * a + 1)}
        BY <3>1 DEF Inputs, SeqRange
      <3>3. QED
        BY <2>1, <2>4, <3>1, <3>2
    <2>5. QED
      BY <2>2, <2>3, <2>4, FeatureAssumption
  <1> HIDE DEF L, v
  <1>4. \A i, j \in 1..L : v.refs[i] = v.refs[j] => i = j
    <2> SUFFICES ASSUME NEW i \in 1..L, NEW j \in 1..L, v.refs[i] = v.refs[j] PROVE i = j
      OBVIOUS
    <2>1. CASE v.refs[i] = Agg(i - 1) /\ v.refs[j] = Agg(j - 1)
      <3>1. i - 1 = j - 1
        BY <2>1, RefType
      <3>2. QED
        BY <1>1, <3>1
    <2>2. CASE i = L /\ j = L
      BY <2>2
    <2>3. QED
      BY <1>2, <2>1, <2>2, RefType
  <1>5. \A j \in 1..L : \A b : v.refs[j] = Agg(b) => b \in Nat /\ b < L
    <2> SUFFICES ASSUME NEW j \in 1..L, NEW b, v.refs[j] = Agg(b) PROVE b \in Nat /\ b < L
      OBVIOUS
    <2>1. b = j - 1
      BY <1>2, RefType
    <2>2. QED
      BY <1>1, <2>1
  <1>6. \A a \in 0..(L - 1) : \A b : Agg(b) \notin Inputs(n, d, a)
    BY <1>3, RefType
  <1>7. \A a \in 0..(L - 1) : \A j \in 1..L : v.refs[j] \notin Inputs(n, d, a)
    <2> SUFFICES ASSUME NEW a \in 0..(L - 1), NEW j \in 1..L, v.refs[j] \in Inputs(n, d, a) PROVE FALSE
      OBVIOUS
    <2>1. v.refs[j] = Prove(n - 1) /\ n = 2 * j - 1 /\ Feature = "prover"
      BY <1>2, <1>6
    <2>2. PICK i \in Nat : Prove(n - 1) = Prove(i) /\ (i = 2 * a \/ i = 2 * a + 1) /\ 2 * a + 1 < n
      BY <1>3, <2>1
    <2>3. i = n - 1
      BY <2>2, RefType
    <2>4. QED
      BY <1>1, <2>1, <2>2, <2>3
  <1>8. \A a, b \in 0..(L - 1) : a # b => Inputs(n, d, a) \cap Inputs(n, d, b) = {}
    <2> SUFFICES ASSUME NEW a \in 0..(L - 1), NEW b \in 0..(L - 1),
                        NEW r \in Inputs(n, d, a), r \in Inputs(n, d, b)
                 PROVE  a = b
      OBVIOUS
    <2>1. PICK i \in Nat : /\ r = Prove(i)
                           /\ Feature = "prover_v2" => i = a
                           /\ Feature = "prover" => (i = 2 * a \/ i = 2 * a + 1)
      BY <1>3
    <2>2. PICK j \in Nat : /\ r = Prove(j)
                           /\ Feature = "prover_v2" => j = b
                           /\ Feature = "prover" => (j = 2 * b \/ j = 2 * b + 1)
      BY <1>3
    <2>3. i = j
      BY <2>1, <2>2, RefType
    <2>4. QED
      BY <1>1, <2>1, <2>2, <2>3, FeatureAssumption
  <1>9. QED
    BY <1>1, <1>4, <1>5, <1>6, <1>7, <1>8 DEF Forest, v, L

LEMMA ForestGrows ==
    ASSUME NEW n, NEW d, Shape(n, d), NEW k \in Nat, Forest(n, d, Rounds(n, d)[k])
    PROVE  Forest(n, d, Rounds(n, d)[k + 1])
  <1> DEFINE v == Rounds(n, d)[k]
             w == Rounds(n, d)[k + 1]
             len == Len(v.refs)
  <1>1. /\ v \in Round /\ w \in Round /\ len \in Nat /\ Len(w.refs) \in Nat
        /\ v.next \in Nat /\ w.next \in Nat /\ (len <= 1 => w = v)
    <2>1. v \in Round /\ w \in Round /\ v.next \in Nat /\ w.next \in Nat /\ (len <= 1 => w = v)
      BY RoundStep
    <2> HIDE DEF v, w
    <2>2. QED
      BY <2>1 DEF Round
  <1>2. CASE len <= 1
    BY <1>1, <1>2
  <1>3. CASE len > 1
    <2>1. PICK new \in Nat \ {0} : Adds(n, d, v, w, new)
      BY <1>3, RoundAdds
    <2>2. Forest(n, d, v)
      OBVIOUS
    <2> HIDE DEF v, w
    <2>13. /\ w.next = v.next + new /\ len = Len(v.refs)
          /\ \A q \in 1..Len(w.refs) :
                \/ q \in 1..new /\ w.refs[q] = Agg(v.next + q - 1)
                \/ q = new + 1 /\ len = 2 * new + 1 /\ w.refs[q] = v.refs[len]
          /\ \A a \in v.next..(w.next - 1) :
                LET j == a - v.next IN
                /\ j \in 0..(new - 1)
                /\ \A r : r \in Inputs(n, d, a) <=>
                      \E p \in 1..len : (p = 2 * j + 1 \/ p = 2 * j + 2) /\ r = v.refs[p]
      BY <2>1 DEF Adds
    <2>14. \A a \in v.next..(w.next - 1) :
              /\ a - v.next \in 0..(new - 1)
              /\ \A r \in Inputs(n, d, a) : \E p \in 1..len :
                    (p = 2 * (a - v.next) + 1 \/ p = 2 * (a - v.next) + 2) /\ r = v.refs[p]
      <3> SUFFICES ASSUME NEW a \in v.next..(w.next - 1)
                   PROVE  /\ a - v.next \in 0..(new - 1)
                          /\ \A r \in Inputs(n, d, a) : \E p \in 1..len :
                                (p = 2 * (a - v.next) + 1 \/ p = 2 * (a - v.next) + 2) /\ r = v.refs[p]
        OBVIOUS
      <3> QED
        BY <1>1, <2>1 DEF Adds
    <2> HIDE DEF len
    <2>3. /\ \A i, j \in 1..len : v.refs[i] = v.refs[j] => i = j
          /\ \A j \in 1..len : \A b : v.refs[j] = Agg(b) => b \in Nat /\ b < v.next
          /\ \A a \in 0..(v.next - 1) : \A b : Agg(b) \in Inputs(n, d, a) => b \in Nat /\ b < a
          /\ \A a \in 0..(v.next - 1) : \A j \in 1..len : v.refs[j] \notin Inputs(n, d, a)
          /\ \A a, b \in 0..(v.next - 1) : a # b => Inputs(n, d, a) \cap Inputs(n, d, b) = {}
      BY <2>2 DEF Forest, len
    <2>4. \A a \in 0..(w.next - 1) : a \in 0..(v.next - 1) \/ a \in v.next..(w.next - 1)
      BY <1>1
    <2>5. \A q \in 1..new : v.next + q - 1 \in Nat /\ v.next + q - 1 >= v.next /\ v.next + q - 1 < w.next
      BY <1>1, <2>13
    \* The inputs of a new task are of the old list, in the order of the tasks.
    <2>6. \A a \in v.next..(w.next - 1) : \A r \in Inputs(n, d, a) :
              \E p \in 1..len : /\ r = v.refs[p] /\ p <= 2 * new
                                /\ p = 2 * (a - v.next) + 1 \/ p = 2 * (a - v.next) + 2
      <3> SUFFICES ASSUME NEW a \in v.next..(w.next - 1), NEW r \in Inputs(n, d, a)
                   PROVE  \E p \in 1..len : /\ r = v.refs[p] /\ p <= 2 * new
                                            /\ p = 2 * (a - v.next) + 1 \/ p = 2 * (a - v.next) + 2
        OBVIOUS
      <3> DEFINE j == a - v.next
      <3>1. j \in 0..(new - 1) /\ \E p \in 1..len : (p = 2 * j + 1 \/ p = 2 * j + 2) /\ r = v.refs[p]
        BY <2>14
      <3> HIDE DEF j
      <3>2. PICK p \in 1..len : (p = 2 * j + 1 \/ p = 2 * j + 2) /\ r = v.refs[p]
        BY <3>1
      <3>3. p <= 2 * new
        BY <3>1, <3>2
      <3>4. QED
        BY <3>2, <3>3 DEF j
    <2>7. \A i, j \in 1..Len(w.refs) : w.refs[i] = w.refs[j] => i = j
      <3> SUFFICES ASSUME NEW i \in 1..Len(w.refs), NEW j \in 1..Len(w.refs), w.refs[i] = w.refs[j]
                   PROVE  i = j
        OBVIOUS
      <3>1. CASE i \in 1..new /\ w.refs[i] = Agg(v.next + i - 1) /\ j \in 1..new /\ w.refs[j] = Agg(v.next + j - 1)
        <4>1. v.next + i - 1 = v.next + j - 1
          BY <3>1, RefType
        <4>2. QED
          BY <1>1, <3>1, <4>1
      <3>2. ASSUME NEW x \in 1..new, len = 2 * new + 1, Agg(v.next + x - 1) = v.refs[len] PROVE FALSE
        <4>1. v.next + x - 1 < v.next
          <5>1. len \in 1..len
            BY <1>1, <3>2
          <5>2. QED
            BY <2>3, <3>2, <5>1
        <4>2. QED
          BY <1>1, <2>5, <4>1
      <3>3. CASE i = new + 1 /\ j = new + 1
        BY <3>3
      <3>4. QED
        BY <2>13, <3>1, <3>2, <3>3
    <2>8. \A j \in 1..Len(w.refs) : \A b : w.refs[j] = Agg(b) => b \in Nat /\ b < w.next
      <3> SUFFICES ASSUME NEW j \in 1..Len(w.refs), NEW b, w.refs[j] = Agg(b)
                   PROVE  b \in Nat /\ b < w.next
        OBVIOUS
      <3>1. CASE j \in 1..new /\ w.refs[j] = Agg(v.next + j - 1)
        <4>1. b = v.next + j - 1
          BY <3>1, RefType
        <4>2. QED
          BY <2>5, <3>1, <4>1
      <3>2. CASE len = 2 * new + 1 /\ w.refs[j] = v.refs[len]
        <4>1. b \in Nat /\ b < v.next
          <5>1. len \in 1..len
            BY <1>1, <3>2
          <5>2. QED
            BY <2>3, <3>2, <5>1
        <4>2. QED
          BY <1>1, <2>13, <4>1
      <3>3. QED
        BY <2>13, <3>1, <3>2
    <2>9. \A a \in 0..(w.next - 1) : \A b : Agg(b) \in Inputs(n, d, a) => b \in Nat /\ b < a
      <3> SUFFICES ASSUME NEW a \in v.next..(w.next - 1), NEW b, Agg(b) \in Inputs(n, d, a)
                   PROVE  b \in Nat /\ b < a
        BY <2>3, <2>4
      <3>1. b \in Nat /\ b < v.next
        BY <2>3, <2>6
      <3>2. QED
        BY <1>1, <3>1
    <2>10. \A a \in 0..(w.next - 1) : \A q \in 1..Len(w.refs) : w.refs[q] \notin Inputs(n, d, a)
      <3> SUFFICES ASSUME NEW a \in 0..(w.next - 1), NEW q \in 1..Len(w.refs), w.refs[q] \in Inputs(n, d, a)
                   PROVE  FALSE
        OBVIOUS
      <3>1. CASE q \in 1..new /\ w.refs[q] = Agg(v.next + q - 1)
        <4>1. CASE a \in 0..(v.next - 1)
          <5>1. v.next + q - 1 < a
            BY <2>3, <3>1, <4>1
          <5>2. QED
            BY <1>1, <2>5, <3>1, <4>1, <5>1
        <4>2. CASE a \in v.next..(w.next - 1)
          <5>1. v.next + q - 1 < v.next
            BY <2>3, <2>6, <3>1, <4>2
          <5>2. QED
            BY <1>1, <2>5, <3>1, <5>1
        <4>3. QED
          BY <2>4, <4>1, <4>2
      <3>2. CASE len = 2 * new + 1 /\ w.refs[q] = v.refs[len]
        <4>1. len \in 1..len
          BY <1>1, <2>13, <3>2
        <4>2. CASE a \in 0..(v.next - 1)
          BY <2>3, <3>2, <4>1, <4>2
        <4>3. CASE a \in v.next..(w.next - 1)
          <5>1. PICK p \in 1..len : v.refs[len] = v.refs[p] /\ p <= 2 * new
            BY <2>6, <3>2, <4>3
          <5>2. p = len
            BY <2>3, <4>1, <5>1
          <5>3. QED
            BY <2>13, <3>2, <5>1, <5>2
        <4>4. QED
          BY <2>4, <4>2, <4>3
      <3>3. QED
        BY <2>13, <3>1, <3>2
    <2>11. \A a, b \in 0..(w.next - 1) : a # b => Inputs(n, d, a) \cap Inputs(n, d, b) = {}
      <3>1. ASSUME NEW a \in 0..(v.next - 1), NEW b \in v.next..(w.next - 1), NEW r \in Inputs(n, d, a)
            PROVE  r \notin Inputs(n, d, b)
        BY <2>3, <2>6
      <3>2. ASSUME NEW a \in v.next..(w.next - 1), NEW b \in v.next..(w.next - 1),
                   NEW r \in Inputs(n, d, a), r \in Inputs(n, d, b)
            PROVE  a = b
        <4>1. PICK p \in 1..len : r = v.refs[p] /\ (p = 2 * (a - v.next) + 1 \/ p = 2 * (a - v.next) + 2)
          BY <2>6
        <4>2. PICK q \in 1..len : r = v.refs[q] /\ (q = 2 * (b - v.next) + 1 \/ q = 2 * (b - v.next) + 2)
          BY <2>6, <3>2
        <4>3. p = q
          BY <2>3, <4>1, <4>2
        <4> DEFINE i == a - v.next
                   j == b - v.next
        <4>4. i \in Int /\ j \in Int /\ (i = j => a = b)
          BY <1>1
        <4>5. (p = 2 * i + 1 \/ p = 2 * i + 2) /\ (p = 2 * j + 1 \/ p = 2 * j + 2) /\ p \in Int
          BY <1>1, <4>1, <4>2, <4>3
        <4> HIDE DEF i, j
        <4>6. i = j
          BY ONLY <4>4, <4>5
        <4>7. QED
          BY <4>4, <4>6
      <3>3. QED
        BY <2>3, <2>4, <3>1, <3>2
    <2>12. QED
      BY <2>7, <2>8, <2>9, <2>10, <2>11 DEF Forest, w
  <1>4. QED
    BY <1>1, <1>2, <1>3

LEMMA ForestAlways ==
    ASSUME NEW n, NEW d, Shape(n, d)
    PROVE  \A k \in Nat : Forest(n, d, Rounds(n, d)[k])
  <1> DEFINE T == {k \in Nat : Forest(n, d, Rounds(n, d)[k])}
  <1>1. 0 \in T
    BY ForestStarts, RoundsAre
  <1>2. \A k \in Nat : k \in T => k + 1 \in T
    BY ForestGrows
  <1> HIDE DEF T
  <1>3. \A k \in Nat : k \in T
    BY <1>1, <1>2, SetInduction
  <1>4. QED
    BY <1>3 DEF T

----------------------------------------------------------------------------
(* The list covers the execution after every round, in order.              *)

Span == {s \in [from : Nat, to : Nat] : s.from <= s.to}

\* The root proofs behind a reference, given those behind each task.
SpanOf(sp, r) == IF r[1] = "prove" THEN [from |-> r[2], to |-> r[2] + 1] ELSE sp[r[2]]

\* r names a root proof or a task before the a-th that computes something.
Earlier(n, d, a, r) ==
    \/ \E i \in 0..(n + d - 1) : r = Prove(i)
    \/ \E b \in 0..(a - 1) : r = Agg(b) /\ ~IsPlaceholder(n, d, b)

\* Task a combines neighbours.
Joins(n, d, sp, a) ==
    LET ins == AggInputs(n, d, a) IN
    /\ \A i \in DOMAIN ins : Earlier(n, d, a, ins[i])
    /\ \/ DOMAIN ins = {1} /\ sp[a] = SpanOf(sp, ins[1])
       \/ /\ DOMAIN ins = {1, 2} /\ SpanOf(sp, ins[1]).to = SpanOf(sp, ins[2]).from
          /\ sp[a] = [from |-> SpanOf(sp, ins[1]).from, to |-> SpanOf(sp, ins[2]).to]

Tiled(n, d, v, sp) ==
    LET len == Len(v.refs) IN
    /\ sp \in [0..(v.next - 1) -> Span]
    /\ \A j \in 1..len : Earlier(n, d, v.next, v.refs[j])
    /\ SpanOf(sp, v.refs[1]).from = 0 /\ SpanOf(sp, v.refs[len]).to = n + d
    /\ \A j \in 1..(len - 1) : SpanOf(sp, v.refs[j]).to = SpanOf(sp, v.refs[j + 1]).from
    /\ \A a \in 0..(v.next - 1) : ~IsPlaceholder(n, d, a) => Joins(n, d, sp, a)

LEMMA TiledStarts ==
    ASSUME NEW n, NEW d, Shape(n, d)
    PROVE  \E sp : Tiled(n, d, FirstRound(n, d), sp)
  <1> DEFINE L == LeafCount(n, d)
             v == FirstRound(n, d)
             span(a) == IF Feature = "prover_v2" THEN [from |-> a, to |-> a + 1]
                        ELSE [from |-> 2 * a, to |-> 2 * a + 2]
             sp == [a \in 0..(L - 1) |-> span(a)]
  <1>1. /\ L \in Nat \ {0} /\ Len(v.refs) = L /\ v.next = L
        /\ \A j \in 1..L : v.refs[j] = LeafRef(n, d, j - 1)
    BY Leaves, FirstRoundType
  <1>2. n \in Nat \ {0} /\ d \in Nat /\ (Feature = "prover" => d = 0)
    BY DEF Shape
  <1>3. \A a \in 0..(L - 1) :
            /\ Feature = "prover_v2" => AggInputs(n, d, a) = <<Prove(a)>> /\ a < n + d
            /\ Feature = "prover" /\ IsPlaceholder(n, d, a) => n = 2 * a + 1
            /\ Feature = "prover" /\ ~IsPlaceholder(n, d, a) =>
                  AggInputs(n, d, a) = <<Prove(2 * a), Prove(2 * a + 1)>> /\ 2 * a + 1 < n
    BY LeafInputsAre
  <1>4. /\ Feature = "prover_v2" => L = n + d
        /\ Feature = "prover" => (IsPlaceholder(n, d, L - 1) /\ 2 * L = n + 1) \/ 2 * L = n
    <2>1. Feature = "prover" => L = (n + 1) \div 2
      BY DEF LeafCount
    <2>2. Feature = "prover" => (n % 2 = 1 /\ 2 * L = n + 1) \/ 2 * L = n
      BY <1>2, <2>1
    <2>3. QED
      BY <2>2 DEF LeafCount, IsPlaceholder
  <1>5. \A a : IsPlaceholder(n, d, a) => a = L - 1 /\ Feature = "prover"
    BY DEF IsPlaceholder
  <1> HIDE DEF L, v
  <1>6. sp \in [0..(L - 1) -> Span] /\ \A a \in 0..(L - 1) : sp[a] = span(a)
    <2>1. \A a \in 0..(L - 1) : span(a) \in Span
      BY <1>1 DEF Span
    <2> HIDE DEF span
    <2>2. QED
      BY <2>1
  <1> HIDE DEF sp
  <1>7. \A j \in 1..L :
            LET r == v.refs[j] IN
            /\ Earlier(n, d, L, r)
            /\ Feature = "prover_v2" => SpanOf(sp, r).from = j - 1 /\ SpanOf(sp, r).to = j
            /\ Feature = "prover" => /\ SpanOf(sp, r).from = 2 * j - 2
                                     /\ SpanOf(sp, r).to = IF IsPlaceholder(n, d, j - 1) THEN n ELSE 2 * j
    <2> SUFFICES ASSUME NEW j \in 1..L
                 PROVE  LET r == v.refs[j] IN
                        /\ Earlier(n, d, L, r)
                        /\ Feature = "prover_v2" => SpanOf(sp, r).from = j - 1 /\ SpanOf(sp, r).to = j
                        /\ Feature = "prover" =>
                              /\ SpanOf(sp, r).from = 2 * j - 2
                              /\ SpanOf(sp, r).to = IF IsPlaceholder(n, d, j - 1) THEN n ELSE 2 * j
      OBVIOUS
    <2>1. j - 1 \in 0..(L - 1) /\ j \in Nat
      BY <1>1
    <2>2. CASE IsPlaceholder(n, d, j - 1)
      <3>1. v.refs[j] = Prove(n - 1) /\ Feature = "prover" /\ n = 2 * (j - 1) + 1
        BY <1>1, <1>3, <1>5, <2>1, <2>2 DEF LeafRef
      <3>2. SpanOf(sp, Prove(n - 1)) = [from |-> n - 1, to |-> n - 1 + 1]
        BY RefType DEF SpanOf
      <3>3. Earlier(n, d, L, Prove(n - 1))
        BY <1>2 DEF Earlier
      <3>4. QED
        BY <1>2, <2>1, <2>2, <3>1, <3>2, <3>3
    <2>3. CASE ~IsPlaceholder(n, d, j - 1)
      <3>1. v.refs[j] = Agg(j - 1)
        BY <1>1, <2>3 DEF LeafRef
      <3>2. SpanOf(sp, Agg(j - 1)) = span(j - 1)
        BY <1>6, <2>1, RefType DEF SpanOf
      <3>3. Earlier(n, d, L, Agg(j - 1))
        BY <2>1, <2>3 DEF Earlier
      <3>4. QED
        BY <2>1, <2>3, <3>1, <3>2, <3>3
    <2>4. QED
      BY <2>2, <2>3
  <1>8. \A j \in 1..L : Earlier(n, d, L, v.refs[j])
    BY <1>7
  <1>9. SpanOf(sp, v.refs[1]).from = 0 /\ SpanOf(sp, v.refs[L]).to = n + d
    <2>1. 1 \in 1..L /\ L \in 1..L
      BY <1>1
    <2>2. CASE Feature = "prover_v2"
      BY <1>4, <1>7, <2>1, <2>2
    <2>3. CASE Feature = "prover"
      BY <1>1, <1>2, <1>4, <1>7, <2>1, <2>3
    <2>4. QED
      BY <2>2, <2>3, FeatureAssumption
  <1>10. \A j \in 1..(L - 1) : SpanOf(sp, v.refs[j]).to = SpanOf(sp, v.refs[j + 1]).from
    <2> SUFFICES ASSUME NEW j \in 1..(L - 1)
                 PROVE  SpanOf(sp, v.refs[j]).to = SpanOf(sp, v.refs[j + 1]).from
      OBVIOUS
    <2>1. j \in 1..L /\ j + 1 \in 1..L /\ ~IsPlaceholder(n, d, j - 1) /\ j \in Nat
      BY <1>1, <1>5
    <2>2. CASE Feature = "prover_v2"
      BY <1>7, <2>1, <2>2
    <2>3. CASE Feature = "prover"
      BY <1>7, <2>1, <2>3
    <2>4. QED
      BY <2>2, <2>3, FeatureAssumption
  <1>11. ASSUME NEW a \in 0..(L - 1), ~IsPlaceholder(n, d, a)
         PROVE  Joins(n, d, sp, a)
    <2>1. a \in Nat /\ sp[a] = span(a)
      BY <1>1, <1>6
    <2>2. CASE Feature = "prover_v2"
      <3>1. AggInputs(n, d, a) = <<Prove(a)>> /\ a < n + d
        BY <1>3, <2>2
      <3>2. SpanOf(sp, Prove(a)) = [from |-> a, to |-> a + 1]
        BY RefType DEF SpanOf
      <3>3. Earlier(n, d, a, Prove(a))
        BY <1>2, <2>1, <3>1 DEF Earlier
      <3>4. QED
        BY <2>1, <2>2, <3>1, <3>2, <3>3 DEF Joins
    <2>3. CASE Feature = "prover"
      <3>1. AggInputs(n, d, a) = <<Prove(2 * a), Prove(2 * a + 1)>> /\ 2 * a + 1 < n
        BY <1>3, <1>11, <2>3
      <3>2. /\ SpanOf(sp, Prove(2 * a)) = [from |-> 2 * a, to |-> 2 * a + 1]
            /\ SpanOf(sp, Prove(2 * a + 1)) = [from |-> 2 * a + 1, to |-> 2 * a + 1 + 1]
        BY RefType DEF SpanOf
      <3>3. Earlier(n, d, a, Prove(2 * a)) /\ Earlier(n, d, a, Prove(2 * a + 1))
        BY <1>2, <2>1, <3>1 DEF Earlier
      <3>4. sp[a] = [from |-> 2 * a, to |-> 2 * a + 1 + 1]
        BY <2>1, <2>3
      <3>5. QED
        BY <3>1, <3>2, <3>3, <3>4 DEF Joins
    <2>4. QED
      BY <2>2, <2>3, FeatureAssumption
  <1>12. Tiled(n, d, v, sp)
    BY <1>1, <1>6, <1>8, <1>9, <1>10, <1>11 DEF Tiled
  <1>13. QED
    BY <1>12 DEF v

LEMMA EarlierKept ==
    ASSUME NEW n, NEW d, NEW a \in Nat, NEW b \in Nat, a <= b, NEW r, Earlier(n, d, a, r)
    PROVE  Earlier(n, d, b, r)
  <1>1. 0..(a - 1) \subseteq 0..(b - 1)
    OBVIOUS
  <1>2. QED
    BY <1>1 DEF Earlier

\* What is behind an earlier reference does not change when tasks are added.
LEMMA SpanKept ==
    ASSUME NEW n, NEW d, Shape(n, d), NEW m \in Nat, NEW r, Earlier(n, d, m, r),
           NEW sp \in [0..(m - 1) -> Span], NEW sq, \A a \in 0..(m - 1) : sq[a] = sp[a]
    PROVE  SpanOf(sq, r) = SpanOf(sp, r) /\ SpanOf(sp, r) \in Span
  <1>1. ASSUME NEW i \in 0..(n + d - 1), r = Prove(i)
        PROVE  SpanOf(sq, r) = SpanOf(sp, r) /\ SpanOf(sp, r) \in Span
    <2>1. SpanOf(sq, r) = [from |-> i, to |-> i + 1] /\ SpanOf(sp, r) = [from |-> i, to |-> i + 1] /\ i \in Nat
      BY <1>1, RefType DEF SpanOf, Shape
    <2>2. QED
      BY <2>1 DEF Span
  <1>2. ASSUME NEW b \in 0..(m - 1), r = Agg(b)
        PROVE  SpanOf(sq, r) = SpanOf(sp, r) /\ SpanOf(sp, r) \in Span
    <2>1. SpanOf(sq, r) = sq[b] /\ SpanOf(sp, r) = sp[b]
      BY <1>2, RefType DEF SpanOf
    <2>2. QED
      BY <2>1
  <1>3. QED
    BY <1>1, <1>2 DEF Earlier

LEMMA JoinsKept ==
    ASSUME NEW n, NEW d, Shape(n, d), NEW m \in Nat, NEW sp \in [0..(m - 1) -> Span],
           NEW sq, \A a \in 0..(m - 1) : sq[a] = sp[a],
           NEW a \in 0..(m - 1), Joins(n, d, sp, a)
    PROVE  Joins(n, d, sq, a)
  <1> DEFINE ins == AggInputs(n, d, a)
  <1>1. \A i \in DOMAIN ins : Earlier(n, d, a, ins[i])
    BY DEF Joins
  <1>2. \A i \in DOMAIN ins : SpanOf(sq, ins[i]) = SpanOf(sp, ins[i])
    <2> SUFFICES ASSUME NEW i \in DOMAIN ins PROVE SpanOf(sq, ins[i]) = SpanOf(sp, ins[i])
      OBVIOUS
    <2>1. Earlier(n, d, m, ins[i])
      BY <1>1, EarlierKept
    <2> HIDE DEF ins
    <2>2. QED
      BY <2>1, SpanKept
  <1>3. sq[a] = sp[a]
    OBVIOUS
  <1>4. CASE DOMAIN ins = {1} /\ sp[a] = SpanOf(sp, ins[1])
    BY <1>1, <1>2, <1>3, <1>4 DEF Joins
  <1>5. CASE /\ DOMAIN ins = {1, 2} /\ SpanOf(sp, ins[1]).to = SpanOf(sp, ins[2]).from
             /\ sp[a] = [from |-> SpanOf(sp, ins[1]).from, to |-> SpanOf(sp, ins[2]).to]
    <2>1. SpanOf(sq, ins[1]) = SpanOf(sp, ins[1]) /\ SpanOf(sq, ins[2]) = SpanOf(sp, ins[2])
      BY <1>2, <1>5
    <2> HIDE DEF ins
    <2>2. QED
      BY <1>1, <1>3, <1>5, <2>1 DEF Joins, ins
  <1>6. QED
    BY <1>4, <1>5 DEF Joins

LEMMA TiledGrows ==
    ASSUME NEW n, NEW d, Shape(n, d), NEW k \in Nat, NEW sp, Tiled(n, d, Rounds(n, d)[k], sp)
    PROVE  \E sq : Tiled(n, d, Rounds(n, d)[k + 1], sq)
  <1> DEFINE v == Rounds(n, d)[k]
             w == Rounds(n, d)[k + 1]
             len == Len(v.refs)
  <1>1. /\ v \in Round /\ w \in Round /\ len \in Nat /\ Len(w.refs) \in Nat
        /\ v.next \in Nat /\ w.next \in Nat /\ (len <= 1 => w = v)
    <2>1. v \in Round /\ w \in Round /\ v.next \in Nat /\ w.next \in Nat /\ (len <= 1 => w = v)
      BY RoundStep
    <2> HIDE DEF v, w
    <2>2. QED
      BY <2>1 DEF Round
  <1>2. CASE len <= 1
    BY <1>1, <1>2
  <1>3. CASE len > 1
    <2>1. PICK new \in Nat \ {0} : Adds(n, d, v, w, new)
      BY <1>3, RoundAdds
    <2>2. Tiled(n, d, v, sp) /\ v.next >= LeafCount(n, d) /\ LeafCount(n, d) \in Nat
      <3>1. Rounds(n, d)[0].next = LeafCount(n, d) /\ LeafCount(n, d) \in Nat
        <4>1. Rounds(n, d)[0] = FirstRound(n, d)
          BY RoundsAre
        <4>2. QED
          BY <4>1, FirstRoundType, Leaves
      <3>2. \A m \in Nat : Rounds(n, d)[0].next <= Rounds(n, d)[0 + m].next
        BY RoundsProgress
      <3>3. Rounds(n, d)[0].next <= v.next
        BY <3>2
      <3>4. QED
        BY <1>1, <3>1, <3>3
    <2> HIDE DEF v, w
    <2>3. /\ w.next = v.next + new /\ 2 * new <= len + 1 /\ len <= 2 * new + 1
          /\ Len(w.refs) = IF len = 2 * new + 1 THEN new + 1 ELSE new
          /\ \A q \in 1..Len(w.refs) :
                \/ q \in 1..new /\ w.refs[q] = Agg(v.next + q - 1)
                \/ q = new + 1 /\ len = 2 * new + 1 /\ w.refs[q] = v.refs[len]
      BY <2>1 DEF Adds
    <2>0. v.next \in Nat /\ w.next \in Nat /\ w.next = v.next + new /\ v.next <= w.next /\ new \in Nat
      BY <1>1, <2>3
    <2>4. \A a \in v.next..(w.next - 1) : /\ a - v.next \in 0..(new - 1)
                                          /\ AggInputs(n, d, a) = Chunk(v.refs, a - v.next)
      BY <2>1 DEF Adds
    <2>5. /\ sp \in [0..(v.next - 1) -> Span]
          /\ \A j \in 1..len : Earlier(n, d, v.next, v.refs[j])
          /\ SpanOf(sp, v.refs[1]).from = 0 /\ SpanOf(sp, v.refs[len]).to = n + d
          /\ \A j \in 1..(len - 1) : SpanOf(sp, v.refs[j]).to = SpanOf(sp, v.refs[j + 1]).from
          /\ \A a \in 0..(v.next - 1) : ~IsPlaceholder(n, d, a) => Joins(n, d, sp, a)
      BY <2>2 DEF Tiled
    <2> HIDE DEF len
    \* The p-th proof of the list, and the last one of chunk j.
    <2> DEFINE at(p) == SpanOf(sp, v.refs[p])
               last(j) == IF 2 * j + 2 <= len THEN 2 * j + 2 ELSE 2 * j + 1
               span(j) == [from |-> at(2 * j + 1).from, to |-> at(last(j)).to]
               sq == [a \in 0..(w.next - 1) |-> IF a < v.next THEN sp[a] ELSE span(a - v.next)]
    <2>6. \A p \in 1..len : at(p) \in Span
      BY <1>1, <2>5, SpanKept
    <2>7. \A p \in 1..(len - 1) : at(p).to = at(p + 1).from
      BY <2>5
    <2>8. at(1).from = 0 /\ at(len).to = n + d
      BY <2>5
    <2> HIDE DEF at
    <2>9. \A j \in 0..(new - 1) : /\ j \in Nat /\ 2 * j + 1 \in 1..len /\ last(j) \in 1..len
                                  /\ last(j) = 2 * j + 2 => 2 * j + 1 \in 1..(len - 1)
      BY <1>1, <2>3
    <2>10. \A j \in 0..(new - 1) : span(j) \in Span
      <3> SUFFICES ASSUME NEW j \in 0..(new - 1) PROVE span(j) \in Span
        OBVIOUS
      <3>1. at(2 * j + 1) \in Span /\ at(last(j)) \in Span
        BY <2>6, <2>9
      <3>2. at(2 * j + 1).from <= at(last(j)).to
        <4>1. CASE last(j) = 2 * j + 1
          BY <3>1, <4>1 DEF Span
        <4>2. CASE last(j) = 2 * j + 2
          <5>1. 2 * j + 1 \in 1..(len - 1) /\ 2 * j + 1 + 1 = 2 * j + 2
            BY <2>9, <4>2
          <5>2. at(2 * j + 1).to = at(2 * j + 2).from
            BY <2>7, <5>1
          <5> HIDE DEF last
          <5>3. at(2 * j + 2) \in Span
            BY <3>1, <4>2
          <5>4. QED
            BY <3>1, <4>2, <5>2, <5>3 DEF Span
        <4>3. QED
          BY <4>1, <4>2
      <3> HIDE DEF last
      <3>3. QED
        BY <3>1, <3>2 DEF Span
    <2>11. /\ sq \in [0..(w.next - 1) -> Span] /\ \A a \in 0..(v.next - 1) : sq[a] = sp[a]
           /\ \A a \in v.next..(w.next - 1) : sq[a] = span(a - v.next)
      <3> HIDE DEF span
      <3>1. \A a \in 0..(w.next - 1) : a < v.next => a \in 0..(v.next - 1)
        BY <1>1
      <3>2. \A a \in 0..(w.next - 1) : ~(a < v.next) => a \in v.next..(w.next - 1)
        BY <1>1
      <3>3. 0..(v.next - 1) \subseteq 0..(w.next - 1) /\ v.next..(w.next - 1) \subseteq 0..(w.next - 1)
        BY ONLY <2>0
      <3>4. \A a \in 0..(v.next - 1) : a < v.next
        BY <1>1
      <3>5. \A a \in v.next..(w.next - 1) : ~(a < v.next)
        BY <1>1
      <3>6. \A a \in 0..(w.next - 1) : (IF a < v.next THEN sp[a] ELSE span(a - v.next)) \in Span
        BY <2>4, <2>5, <2>10, <3>1, <3>2
      <3>7. QED
        BY <3>3, <3>4, <3>5, <3>6
    <2> HIDE DEF sq
    <2>12. \A p \in 1..len : SpanOf(sq, v.refs[p]) = at(p)
      <3> SUFFICES ASSUME NEW p \in 1..len PROVE SpanOf(sq, v.refs[p]) = at(p)
        OBVIOUS
      <3>1. Earlier(n, d, v.next, v.refs[p]) /\ \A a \in 0..(v.next - 1) : sq[a] = sp[a]
        BY <2>5, <2>11
      <3>2. sp \in [0..(v.next - 1) -> Span] /\ v.next \in Nat
        BY <2>5, <2>0
      <3>3. SpanOf(sq, v.refs[p]) = SpanOf(sp, v.refs[p])
        BY <3>1, <3>2, SpanKept
      <3>4. QED
        BY <3>3 DEF at
    <2>13. \A a \in v.next..(w.next - 1) : ~IsPlaceholder(n, d, a)
      BY <1>1, <2>2 DEF IsPlaceholder
    <2>14. \A q \in 1..new : /\ v.next + q - 1 \in v.next..(w.next - 1)
                             /\ v.next + q - 1 - v.next = q - 1 /\ q - 1 \in 0..(new - 1)
      BY <1>1, <2>3
    <2>15. \A q \in 1..Len(w.refs) : Earlier(n, d, w.next, w.refs[q])
      <3> SUFFICES ASSUME NEW q \in 1..Len(w.refs) PROVE Earlier(n, d, w.next, w.refs[q])
        OBVIOUS
      <3>1. CASE q \in 1..new /\ w.refs[q] = Agg(v.next + q - 1)
        <4>1. v.next + q - 1 \in 0..(w.next - 1) /\ ~IsPlaceholder(n, d, v.next + q - 1)
          BY <2>0, <2>13, <2>14, <3>1
        <4>2. QED
          BY <3>1, <4>1 DEF Earlier
      <3>2. CASE len = 2 * new + 1 /\ w.refs[q] = v.refs[len]
        <4>1. len \in 1..len /\ v.next <= w.next
          BY <1>1, <2>3, <3>2
        <4>2. QED
          BY <1>1, <2>5, <3>2, <4>1, EarlierKept
      <3>3. QED
        BY <2>3, <3>1, <3>2
    <2>16. \A q \in 1..new : q \in 1..Len(w.refs) => SpanOf(sq, w.refs[q]) = span(q - 1)
      <3> SUFFICES ASSUME NEW q \in 1..new, q \in 1..Len(w.refs)
                   PROVE  SpanOf(sq, w.refs[q]) = span(q - 1)
        OBVIOUS
      <3>1. w.refs[q] = Agg(v.next + q - 1)
        BY <2>3
      <3>2. SpanOf(sq, w.refs[q]) = sq[v.next + q - 1]
        BY <3>1, RefType DEF SpanOf
      <3> HIDE DEF span
      <3>3. \A m, l \in Nat : l = m + new => \E x \in m..(l - 1) : x = m + q - 1 /\ x - m = q - 1
        <4> SUFFICES ASSUME NEW m \in Nat, NEW l \in Nat, l = m + new
                     PROVE  \E x \in m..(l - 1) : x = m + q - 1 /\ x - m = q - 1
          OBVIOUS
        <4>1. m + q - 1 \in m..(l - 1) /\ m + q - 1 - m = q - 1
          BY <2>0
        <4>2. QED
          BY <4>1
      <3>4. PICK x \in v.next..(w.next - 1) : x = v.next + q - 1 /\ x - v.next = q - 1
        BY <2>0, <3>3, Zenon
      <3>5. sq[x] = span(x - v.next)
        BY <2>11, Zenon
      <3>6. QED
        BY <3>2, <3>4, <3>5, Zenon
    <2>17. len = 2 * new + 1 => SpanOf(sq, w.refs[new + 1]) = at(len)
      <3> SUFFICES ASSUME len = 2 * new + 1 PROVE SpanOf(sq, w.refs[new + 1]) = at(len)
        OBVIOUS
      <3>1. new + 1 \in 1..Len(w.refs) /\ new + 1 \notin 1..new /\ len \in 1..len
        BY <1>1, <2>3
      <3>2. w.refs[new + 1] = v.refs[len]
        BY <2>3, <3>1
      <3>3. QED
        BY <2>12, <3>1, <3>2
    <2>18. SpanOf(sq, w.refs[1]).from = 0
      <3>1. 1 \in 1..new /\ 1 \in 1..Len(w.refs)
        BY <2>3
      <3>2. SpanOf(sq, w.refs[1]).from = at(2 * 0 + 1).from
        <4>1. SpanOf(sq, w.refs[1]) = span(1 - 1)
          BY <2>16, <3>1
        <4>2. 1 - 1 = 0
          OBVIOUS
        <4>3. SpanOf(sq, w.refs[1]) = span(0)
          BY <4>1, <4>2, Zenon
        <4>4. QED
          BY <4>3
      <3>3. 2 * 0 + 1 = 1
        OBVIOUS
      <3>4. QED
        BY <2>8, <3>2, <3>3
    <2>19. SpanOf(sq, w.refs[Len(w.refs)]).to = n + d
      <3>1. CASE len = 2 * new + 1
        BY <2>3, <2>8, <2>17, <3>1
      <3>2. CASE len # 2 * new + 1
        <4>1. Len(w.refs) = new /\ new \in 1..new /\ new \in 1..Len(w.refs)
          BY <2>3, <3>2
        <4>2. last(new - 1) = len
          <5>1. len \in Nat /\ 2 * new <= len + 1 /\ len <= 2 * new + 1
            BY <1>1, <2>3
          <5>2. len = 2 * new \/ len = 2 * new - 1
            BY ONLY <2>0, <3>2, <5>1
          <5>3. 2 * (new - 1) + 2 = 2 * new /\ 2 * (new - 1) + 1 = 2 * new - 1
            BY ONLY <2>0
          <5>4. QED
            BY ONLY <2>0, <5>2, <5>3
        <4>3. SpanOf(sq, w.refs[new]) = span(new - 1)
          BY <2>16, <4>1
        <4>4. span(new - 1).to = at(len).to
          BY <4>2
        <4>5. QED
          BY <2>8, <4>1, <4>3, <4>4
      <3>3. QED
        BY <3>1, <3>2
    <2>20. \A q \in 1..(Len(w.refs) - 1) : SpanOf(sq, w.refs[q]).to = SpanOf(sq, w.refs[q + 1]).from
      <3> SUFFICES ASSUME NEW q \in 1..(Len(w.refs) - 1)
                   PROVE  SpanOf(sq, w.refs[q]).to = SpanOf(sq, w.refs[q + 1]).from
        OBVIOUS
      <3>1. q \in 1..new /\ q \in 1..Len(w.refs) /\ 2 * q \in 1..(len - 1) /\ last(q - 1) = 2 * q
        BY <1>1, <2>3
      <3>2. SpanOf(sq, w.refs[q]).to = at(2 * q).to
        <4>1. SpanOf(sq, w.refs[q]) = span(q - 1)
          BY <2>16, <3>1
        <4>2. span(q - 1).to = at(2 * q).to
          BY <3>1
        <4>3. QED
          BY <4>1, <4>2
      <3>3. at(2 * q).to = at(2 * q + 1).from
        BY <2>7, <3>1
      <3>4. CASE q + 1 \in 1..new
        <4>1. q + 1 \in 1..Len(w.refs) /\ q + 1 - 1 = q
          BY <1>1
        <4>2. SpanOf(sq, w.refs[q + 1]) = span(q)
          BY <2>16, <3>4, <4>1
        <4>3. QED
          BY <3>2, <3>3, <4>2
      <3>5. CASE q + 1 \notin 1..new
        <4>1. q = new /\ len = 2 * new + 1 /\ 2 * q + 1 = len
          BY <1>1, <2>3, <3>1, <3>5
        <4>2. QED
          BY <2>17, <3>2, <3>3, <4>1
      <3>6. QED
        BY <3>4, <3>5
    <2>21. ASSUME NEW a \in v.next..(w.next - 1)
           PROVE  Joins(n, d, sq, a)
      <3> DEFINE j == a - v.next
                 ins == AggInputs(n, d, a)
      <3>1. j \in 0..(new - 1) /\ ins = Chunk(v.refs, j) /\ sq[a] = span(j) /\ a \in Nat /\ v.next <= a
        <4>1. a - v.next \in 0..(new - 1) /\ AggInputs(n, d, a) = Chunk(v.refs, a - v.next)
          BY <2>4
        <4>2. sq[a] = span(a - v.next)
          BY <2>11, Zenon
        <4>3. a \in Nat /\ v.next <= a
          BY <2>0
        <4>4. QED
          BY <4>1, <4>2, <4>3, Zenon
      <3> HIDE DEF j, ins
      <3>2. 2 * j + 1 \in 1..len /\ j \in Nat
        BY <2>9, <3>1
      <3>3. CASE 2 * j + 2 <= len
        <4>1. ins = [i \in 1..2 |-> v.refs[2 * j + i]]
          BY <3>1, <3>3 DEF Chunk, len
        <4>2. DOMAIN ins = {1, 2} /\ ins[1] = v.refs[2 * j + 1] /\ ins[2] = v.refs[2 * j + 2]
          BY <4>1
        <4>3. 2 * j + 2 \in 1..len /\ 2 * j + 1 \in 1..(len - 1) /\ 2 * j + 1 + 1 = 2 * j + 2 /\ last(j) = 2 * j + 2
          BY <1>1, <3>2, <3>3
        <4>4. at(2 * j + 1).to = at(2 * j + 2).from
          BY <2>7, <4>3
        <4>5. SpanOf(sq, ins[1]) = at(2 * j + 1) /\ SpanOf(sq, ins[2]) = at(2 * j + 2)
          BY <2>12, <3>2, <4>2, <4>3
        <4>6. Earlier(n, d, a, ins[1]) /\ Earlier(n, d, a, ins[2])
          BY <1>1, <2>5, <3>1, <3>2, <4>2, <4>3, EarlierKept
        <4>7. sq[a] = [from |-> SpanOf(sq, ins[1]).from, to |-> SpanOf(sq, ins[2]).to]
          BY <3>1, <4>3, <4>5
        <4>8. QED
          BY <4>2, <4>4, <4>5, <4>6, <4>7 DEF Joins, ins
      <3>4. CASE ~(2 * j + 2 <= len)
        <4>1. ins = [i \in 1..1 |-> v.refs[2 * j + i]]
          BY <3>1, <3>4 DEF Chunk, len
        <4>2. DOMAIN ins = {1} /\ ins[1] = v.refs[2 * j + 1]
          BY <4>1
        <4>3. SpanOf(sq, ins[1]) = at(2 * j + 1) /\ at(2 * j + 1) \in Span /\ last(j) = 2 * j + 1
          BY <2>6, <2>12, <3>2, <3>4, <4>2
        <4>4. Earlier(n, d, a, ins[1])
          BY <1>1, <2>5, <3>1, <3>2, <4>2, EarlierKept
        <4>5. sq[a] = SpanOf(sq, ins[1])
          BY <3>1, <4>3 DEF Span
        <4>6. QED
          BY <4>2, <4>4, <4>5 DEF Joins, ins
      <3>5. QED
        BY <3>3, <3>4
    <2>22. \A a \in 0..(v.next - 1) : ~IsPlaceholder(n, d, a) => Joins(n, d, sq, a)
      BY <1>1, <2>5, <2>11, JoinsKept
    <2>23. \A a \in 0..(w.next - 1) : ~IsPlaceholder(n, d, a) => Joins(n, d, sq, a)
      <3>1. \A a \in 0..(w.next - 1) : a \in 0..(v.next - 1) \/ a \in v.next..(w.next - 1)
        BY <1>1
      <3>2. QED
        BY <2>21, <2>22, <3>1
    <2>24. Tiled(n, d, w, sq)
      BY <2>11, <2>15, <2>18, <2>19, <2>20, <2>23 DEF Tiled
    <2>25. QED
      BY <2>24 DEF w
  <1>4. QED
    BY <1>1, <1>2, <1>3

LEMMA TiledAlways ==
    ASSUME NEW n, NEW d, Shape(n, d)
    PROVE  \A k \in Nat : \E sp : Tiled(n, d, Rounds(n, d)[k], sp)
  <1> DEFINE T == {k \in Nat : \E sp : Tiled(n, d, Rounds(n, d)[k], sp)}
  <1>1. 0 \in T
    <2>1. Rounds(n, d)[0] = FirstRound(n, d)
      BY RoundsAre
    <2>2. QED
      BY <2>1, TiledStarts
  <1>2. \A k \in Nat : k \in T => k + 1 \in T
    BY TiledGrows
  <1> HIDE DEF T
  <1>3. \A k \in Nat : k \in T
    BY <1>1, <1>2, SetInduction
  <1>4. QED
    BY <1>3 DEF T

----------------------------------------------------------------------------
(* What a proof covers, as the list of the root proofs behind it.          *)

\* The root proofs from one place of the execution to another.
Interval(s) == [j \in 1..(s.to - s.from) |-> s.from + j - 1]

LEMMA IntervalType ==
    ASSUME NEW s \in Span
    PROVE  Interval(s) \in Seq(Int) /\ Len(Interval(s)) = s.to - s.from
  <1>1. s.from \in Nat /\ s.to \in Nat /\ s.to - s.from \in Nat
    BY DEF Span
  <1>2. Interval(s) \in [1..(s.to - s.from) -> Int]
    BY <1>1 DEF Interval
  <1>3. QED
    BY <1>1, <1>2

LEMMA IntervalOfOne ==
    ASSUME NEW i \in Nat
    PROVE  Interval([from |-> i, to |-> i + 1]) = <<i>>
  <1>1. Interval([from |-> i, to |-> i + 1]) = [j \in 1..1 |-> i]
    <2>1. i + 1 - i = 1 /\ \A j \in 1..1 : i + j - 1 = i
      OBVIOUS
    <2>2. QED
      BY <2>1 DEF Interval
  <1>2. QED
    BY <1>1

LEMMA IntervalsJoin ==
    ASSUME NEW s \in Span, NEW t \in Span, s.to = t.from
    PROVE  Interval(s) \o Interval(t) = Interval([from |-> s.from, to |-> t.to])
  <1> DEFINE u == [from |-> s.from, to |-> t.to]
             x == Interval(s)
             y == Interval(t)
             z == Interval(u)
  <1>1. /\ s.from \in Nat /\ s.to \in Nat /\ s.from <= s.to
        /\ t.to \in Nat /\ s.to <= t.to
    BY DEF Span
  <1>2. u \in Span /\ u.from = s.from /\ u.to = t.to
    BY <1>1 DEF Span
  <1>3. /\ x \in Seq(Int) /\ Len(x) = s.to - s.from
        /\ y \in Seq(Int) /\ Len(y) = t.to - s.to
        /\ z \in Seq(Int) /\ Len(z) = t.to - s.from
    BY <1>2, IntervalType
  <1>4. /\ \A j \in 1..(s.to - s.from) : x[j] = s.from + j - 1
        /\ \A j \in 1..(t.to - s.to) : y[j] = s.to + j - 1
        /\ \A j \in 1..(t.to - s.from) : z[j] = s.from + j - 1
    BY <1>2 DEF Interval
  <1> HIDE DEF u, x, y, z
  <1>5. /\ x \o y \in Seq(Int) /\ Len(x \o y) = Len(x) + Len(y)
        /\ \A j \in 1..(Len(x) + Len(y)) : (x \o y)[j] = IF j <= Len(x) THEN x[j] ELSE y[j - Len(x)]
    BY <1>3, ConcatProperties
  <1>6. ASSUME NEW p \in Nat, NEW q \in Nat, NEW r \in Nat, p <= q, q <= r
        PROVE  /\ (q - p) + (r - q) = r - p
               /\ \A j \in 1..(r - p) : j <= q - p => j \in 1..(q - p)
               /\ \A j \in 1..(r - p) : ~(j <= q - p) =>
                      j - (q - p) \in 1..(r - q) /\ q + (j - (q - p)) - 1 = p + j - 1
    BY ONLY <1>6
  <1>7. Len(x \o y) = t.to - s.from /\ Len(x) + Len(y) = t.to - s.from
    BY <1>1, <1>3, <1>5, <1>6
  <1>8. ASSUME NEW j \in 1..(t.to - s.from)
        PROVE  (x \o y)[j] = z[j]
    <2>1. (x \o y)[j] = IF j <= Len(x) THEN x[j] ELSE y[j - Len(x)]
      BY <1>5, <1>7
    <2>2. CASE j <= Len(x)
      BY <1>1, <1>3, <1>4, <1>6, <2>1, <2>2
    <2>3. CASE ~(j <= Len(x))
      <3>1. j - Len(x) \in 1..(t.to - s.to) /\ s.to + (j - Len(x)) - 1 = s.from + j - 1
        <4>1. \A k \in 1..(t.to - s.from) : ~(k <= s.to - s.from) =>
                 k - (s.to - s.from) \in 1..(t.to - s.to) /\ s.to + (k - (s.to - s.from)) - 1 = s.from + k - 1
          BY <1>1, <1>6, Zenon
        <4>2. QED
          BY <1>3, <2>3, <4>1, Zenon
      <3>2. y[j - Len(x)] = s.to + (j - Len(x)) - 1
        BY <1>4, <3>1
      <3>3. QED
        BY <1>4, <2>1, <2>3, <3>1, <3>2
    <2>4. QED
      BY <2>2, <2>3
  <1>9. x \o y = z
    BY <1>3, <1>5, <1>7, <1>8, SeqEqual
  <1>10. QED
    BY <1>9 DEF u, x, y, z

----------------------------------------------------------------------------
(* Every proof is combined or still in the list after each round.          *)

Placed(n, d, v) ==
    \A r : Earlier(n, d, v.next, r) =>
              \/ \E j \in 1..Len(v.refs) : r = v.refs[j]
              \/ \E a \in 0..(v.next - 1) : r \in Inputs(n, d, a)

LEMMA PlacedStarts ==
    ASSUME NEW n, NEW d, Shape(n, d)
    PROVE  Placed(n, d, FirstRound(n, d))
  <1> DEFINE L == LeafCount(n, d)
             v == FirstRound(n, d)
  <1>1. /\ L \in Nat /\ Len(v.refs) = L /\ v.next = L
        /\ \A j \in 1..L : v.refs[j] = LeafRef(n, d, j - 1)
    BY Leaves, FirstRoundType
  <1> HIDE DEF v
  <1>2. \A b \in 0..(L - 1) : \E j \in 1..L : v.refs[j] = LeafRef(n, d, b)
    <2> SUFFICES ASSUME NEW b \in 0..(L - 1) PROVE \E j \in 1..L : v.refs[j] = LeafRef(n, d, b)
      OBVIOUS
    <2> HIDE DEF L
    <2> DEFINE j == b + 1
    <2>1. j \in 1..L /\ j - 1 = b
      BY <1>1
    <2> HIDE DEF j
    <2>2. v.refs[j] = LeafRef(n, d, j - 1)
      BY <1>1, <2>1
    <2>3. QED
      BY <2>1, <2>2, Zenon
  <1>3. ASSUME NEW i \in 0..(n + d - 1)
        PROVE  \/ \E j \in 1..L : Prove(i) = v.refs[j]
               \/ \E a \in 0..(L - 1) : Prove(i) \in Inputs(n, d, a)
    <2>1. n \in Nat /\ d \in Nat /\ i \in Nat /\ i < n + d
      BY DEF Shape
    <2>2. CASE Feature = "prover_v2"
      <3>1. L = n + d
        BY <2>2 DEF LeafCount
      <3> HIDE DEF L
      <3>2. i \in 0..(L - 1)
        BY <2>1, <3>1
      <3>3. AggInputs(n, d, i) = <<Prove(i)>>
        BY <2>2, <3>2, LeafInputsAre DEF L
      <3>4. Prove(i) \in Inputs(n, d, i)
        BY <3>3 DEF Inputs, SeqRange
      <3>5. QED
        BY <3>2, <3>4
    <2>3. CASE Feature = "prover"
      <3>1. L = (n + 1) \div 2 /\ d = 0
        BY <2>3 DEF LeafCount, Shape
      <3>2. PICK a \in Nat : i = 2 * a \/ i = 2 * a + 1
        <4>1. i \div 2 \in Nat /\ (i = 2 * (i \div 2) \/ i = 2 * (i \div 2) + 1)
          BY <2>1, Halves
        <4>2. QED
          BY <4>1
      <3>3. a \in 0..(L - 1)
        <4>1. /\ L \in Nat /\ n + 1 \in Nat
              /\ 2 * L = n + 1 \/ 2 * L + 1 = n + 1
          BY <2>1, <3>1, Halves
        <4> HIDE DEF L
        <4>2. QED
          BY <2>1, <3>1, <3>2, <4>1
      <3>4. CASE IsPlaceholder(n, d, a)
        <4>1. n = 2 * a + 1
          BY <2>3, <3>3, <3>4, LeafInputsAre
        <4>2. i = n - 1
          BY <2>1, <3>1, <3>2, <4>1
        <4>3. LeafRef(n, d, a) = Prove(i)
          BY <3>4, <4>2 DEF LeafRef
        <4>4. QED
          BY <1>2, <3>3, <4>3
      <3>5. CASE ~IsPlaceholder(n, d, a)
        <4>1. AggInputs(n, d, a) = <<Prove(2 * a), Prove(2 * a + 1)>>
          BY <2>3, <3>3, <3>5, LeafInputsAre
        <4>2. Inputs(n, d, a) = {Prove(2 * a), Prove(2 * a + 1)}
          BY <4>1 DEF Inputs, SeqRange
        <4>3. Prove(i) \in Inputs(n, d, a)
          BY <3>2, <4>2
        <4>4. QED
          BY <3>3, <4>3
      <3>6. QED
        BY <3>4, <3>5
    <2>4. QED
      BY <2>2, <2>3, FeatureAssumption
  <1>4. ASSUME NEW b \in 0..(L - 1), ~IsPlaceholder(n, d, b)
        PROVE  \E j \in 1..L : Agg(b) = v.refs[j]
    <2>1. LeafRef(n, d, b) = Agg(b)
      BY <1>4 DEF LeafRef
    <2>2. QED
      BY <1>2, <2>1
  <1> HIDE DEF L
  <1>5. ASSUME NEW r, Earlier(n, d, L, r)
        PROVE  \/ \E j \in 1..L : r = v.refs[j]
               \/ \E a \in 0..(L - 1) : r \in Inputs(n, d, a)
    <2>1. CASE \E i \in 0..(n + d - 1) : r = Prove(i)
      BY <1>3, <2>1
    <2>2. CASE \E b \in 0..(L - 1) : r = Agg(b) /\ ~IsPlaceholder(n, d, b)
      BY <1>4, <2>2
    <2>3. QED
      BY <1>5, <2>1, <2>2 DEF Earlier
  <1>6. QED
    BY <1>1, <1>5 DEF Placed, v

LEMMA PlacedGrows ==
    ASSUME NEW n, NEW d, Shape(n, d), NEW k \in Nat, Placed(n, d, Rounds(n, d)[k])
    PROVE  Placed(n, d, Rounds(n, d)[k + 1])
  <1> DEFINE v == Rounds(n, d)[k]
             w == Rounds(n, d)[k + 1]
             len == Len(v.refs)
  <1>1. len \in Nat /\ v.next \in Nat /\ w.next \in Nat /\ (len <= 1 => w = v)
    BY RoundStep
  <1>2. CASE len <= 1
    BY <1>1, <1>2
  <1>3. CASE len > 1
    <2>1. PICK new \in Nat \ {0} : Adds(n, d, v, w, new)
      BY <1>3, RoundAdds
    <2>2. Placed(n, d, v)
      OBVIOUS
    <2> HIDE DEF v, w
    <2>3. /\ w.next = v.next + new /\ 2 * new <= len + 1 /\ len <= 2 * new + 1
          /\ Len(w.refs) = IF len = 2 * new + 1 THEN new + 1 ELSE new
          /\ \A q \in 1..Len(w.refs) :
                \/ q \in 1..new /\ w.refs[q] = Agg(v.next + q - 1)
                \/ q = new + 1 /\ len = 2 * new + 1 /\ w.refs[q] = v.refs[len]
          /\ \A a \in v.next..(w.next - 1) :
                \A r : r \in Inputs(n, d, a) <=>
                   \E p \in 1..len : (p = 2 * (a - v.next) + 1 \/ p = 2 * (a - v.next) + 2) /\ r = v.refs[p]
      BY <2>1 DEF Adds
    <2> HIDE DEF len
    <2>4. ASSUME NEW p \in 1..len
          PROVE  \/ \E j \in 1..Len(w.refs) : v.refs[p] = w.refs[j]
                 \/ \E a \in 0..(w.next - 1) : v.refs[p] \in Inputs(n, d, a)
      <3>1. CASE p = 2 * new + 1
        <4>1. new + 1 \in 1..Len(w.refs) /\ new + 1 \notin 1..new /\ len = p
          BY <1>1, <2>3, <3>1
        <4>2. w.refs[new + 1] = v.refs[len]
          BY <2>3, <4>1
        <4>3. QED
          BY <4>1, <4>2
      <3>2. CASE p # 2 * new + 1
        <4>1. PICK h \in Nat : p - 1 = 2 * h \/ p - 1 = 2 * h + 1
          <5>1. p - 1 \in Nat
            BY <1>1
          <5>2. (p - 1) \div 2 \in Nat /\ (p - 1 = 2 * ((p - 1) \div 2) \/ p - 1 = 2 * ((p - 1) \div 2) + 1)
            BY <5>1, Halves
          <5>3. QED
            BY <5>2
        <4>2. p \in Nat /\ p # 2 * new + 1 /\ p <= 2 * new + 1 /\ new \in Nat
          BY <1>1, <2>3, <3>2
        <4>3. h < new /\ (p = 2 * h + 1 \/ p = 2 * h + 2)
          BY ONLY h \in Nat, <4>1, <4>2
        <4> DEFINE a == v.next + h
        <4>4. a \in v.next..(w.next - 1) /\ a \in 0..(w.next - 1) /\ a - v.next = h
          BY <1>1, <2>3, <4>2, <4>3
        <4> HIDE DEF a
        <4>5. p = 2 * (a - v.next) + 1 \/ p = 2 * (a - v.next) + 2
          BY <4>3, <4>4, Zenon
        <4>6. v.refs[p] \in Inputs(n, d, a)
          BY <2>3, <4>4, <4>5, Zenon
        <4>7. QED
          BY <4>4, <4>6
      <3>3. QED
        BY <3>1, <3>2
    <2>5. ASSUME NEW b \in v.next..(w.next - 1)
          PROVE  \E j \in 1..Len(w.refs) : Agg(b) = w.refs[j]
      <3> DEFINE q == b - v.next + 1
      <3>0. w.next = v.next + new /\ v.next \in Nat
        BY <1>1, <2>3
      <3>1. q \in 1..new /\ v.next + q - 1 = b
        BY <3>0
      <3> HIDE DEF q
      <3>2. q \in 1..Len(w.refs) /\ q # new + 1
        BY <2>3, <3>1
      <3>3. w.refs[q] = Agg(v.next + q - 1)
        BY <2>3, <3>2, Zenon
      <3>4. QED
        BY <3>1, <3>2, <3>3, Zenon
    <2>6. ASSUME NEW r, Earlier(n, d, w.next, r)
          PROVE  \/ \E j \in 1..Len(w.refs) : r = w.refs[j]
                 \/ \E a \in 0..(w.next - 1) : r \in Inputs(n, d, a)
      <3>1. CASE Earlier(n, d, v.next, r)
        <4>1. CASE \E p \in 1..len : r = v.refs[p]
          BY <2>4, <4>1
        <4>2. CASE \E a \in 0..(v.next - 1) : r \in Inputs(n, d, a)
          <5>1. \A a \in 0..(v.next - 1) : a \in 0..(w.next - 1)
            BY <1>1, <2>3
          <5>2. QED
            BY <4>2, <5>1
        <4>3. QED
          BY <2>2, <3>1, <4>1, <4>2 DEF Placed, len
      <3>2. CASE ~Earlier(n, d, v.next, r)
        <4>1. PICK b \in 0..(w.next - 1) : r = Agg(b) /\ ~IsPlaceholder(n, d, b)
          BY <2>6, <3>2 DEF Earlier
        <4>2. b \notin 0..(v.next - 1)
          BY <3>2, <4>1 DEF Earlier
        <4>3. b \in v.next..(w.next - 1)
          BY <1>1, <4>2
        <4>4. QED
          BY <2>5, <4>1, <4>3
      <3>3. QED
        BY <3>1, <3>2
    <2>7. QED
      BY <2>6 DEF Placed, w
  <1>4. QED
    BY <1>1, <1>2, <1>3

LEMMA PlacedAlways ==
    ASSUME NEW n, NEW d, Shape(n, d)
    PROVE  \A k \in Nat : Placed(n, d, Rounds(n, d)[k])
  <1> DEFINE T == {k \in Nat : Placed(n, d, Rounds(n, d)[k])}
  <1>1. 0 \in T
    <2>1. Rounds(n, d)[0] = FirstRound(n, d)
      BY RoundsAre
    <2>2. QED
      BY <2>1, PlacedStarts
  <1>2. \A k \in Nat : k \in T => k + 1 \in T
    BY PlacedGrows
  <1> HIDE DEF T
  <1>3. \A k \in Nat : k \in T
    BY <1>1, <1>2, SetInduction
  <1>4. QED
    BY <1>3 DEF T

----------------------------------------------------------------------------
(* The end of the loop.                                                    *)

\* gen_prove_task_post rejects a single v1 segment, which cannot be aggregated.
Rejected(n) == Feature = "prover" /\ n = 1

\* The last task of the list is the one that is left.
LEMMA LastIsLeft ==
    ASSUME NEW n, NEW d, Shape(n, d), ~Rejected(n)
    PROVE  LET count == AggCount(n, d) IN
           /\ count \in Nat \ {0} /\ ~IsPlaceholder(n, d, count - 1)
           /\ Rounds(n, d)[LeafCount(n, d)].refs[1] = Agg(count - 1)
  <1> DEFINE R == Rounds(n, d)
             L == LeafCount(n, d)
  <1>0. PICK e \in Nat : R[L] = R[e] /\ \A i \in 0..(e - 1) : Len(R[i].refs) > 1
    BY LoopEnds
  <1>1. e \in Nat /\ Len(R[e].refs) = 1 /\ \A i \in 0..(e - 1) : Len(R[i].refs) > 1
    BY <1>0, LoopEnds
  <1>2. /\ R[0] = FirstRound(n, d) /\ L \in Nat \ {0}
        /\ Len(FirstRound(n, d).refs) = L /\ FirstRound(n, d).next = L
        /\ \A j \in 1..L : FirstRound(n, d).refs[j] = LeafRef(n, d, j - 1)
    BY RoundsAre, Leaves, FirstRoundType
  <1>3. AggCount(n, d) = R[e].next
    BY <1>0 DEF AggCount
  <1>4. CASE e = 0
    <2>1. L = 1 /\ R[e].next = 1 /\ R[e].refs[1] = LeafRef(n, d, 1 - 1)
      BY <1>1, <1>2, <1>4
    <2>2. ~IsPlaceholder(n, d, 0)
      <3> SUFFICES ASSUME IsPlaceholder(n, d, 0) PROVE FALSE
        OBVIOUS
      <3>1. Feature = "prover" /\ n % 2 = 1 /\ L = (n + 1) \div 2 /\ n \in Nat
        BY DEF IsPlaceholder, LeafCount, Shape
      <3>2. n = 1
        BY <2>1, <3>1
      <3>3. QED
        BY <3>1, <3>2 DEF Rejected
    <2>3. 1 - 1 = 0
      OBVIOUS
    <2>4. R[e].refs[1] = Agg(0)
      BY <2>1, <2>2, <2>3 DEF LeafRef
    <2>5. QED
      BY <1>3, <1>0, <2>1, <2>2, <2>3, <2>4
  <1>5. CASE e # 0
    <2> DEFINE k == e - 1
    <2>1. k \in Nat /\ k + 1 = e /\ k \in 0..(e - 1)
      BY <1>1, <1>5
    <2>2. Len(R[k].refs) > 1
      BY <1>1, <2>1
    <2> HIDE DEF k
    <2>3. PICK new \in Nat \ {0} : Adds(n, d, R[k], R[k + 1], new)
      BY <2>1, <2>2, RoundAdds
    <2>4. /\ R[e].next = R[k].next + new
          /\ Len(R[e].refs) = new \/ Len(R[e].refs) = new + 1
          /\ \A q \in 1..Len(R[e].refs) :
                (q \in 1..new /\ R[e].refs[q] = Agg(R[k].next + q - 1)) \/ q = new + 1
      BY <2>1, <2>3 DEF Adds
    <2>5. R[k].next \in Nat /\ L <= R[k].next
      <3>1. \A m \in Nat : R[0].next <= R[0 + m].next
        BY RoundsProgress
      <3>2. R[k].next \in Nat /\ R[0].next <= R[k].next
        <4>1. R[k].next \in Nat
          BY <2>1, RoundStep
        <4>2. 0 + k = k /\ R[0].next <= R[0 + k].next
          BY <2>1, <3>1
        <4>3. QED
          BY <4>1, <4>2, Zenon
      <3>3. QED
        BY <1>2, <3>2
    <2> HIDE DEF R, L
    <2>6. new = 1
      BY <1>1, <2>4
    <2>7. R[e].refs[1] = Agg(R[k].next + 1 - 1)
      BY <1>1, <2>4, <2>6
    <2>8. R[k].next + 1 - 1 = R[k].next /\ R[e].next - 1 = R[k].next
      BY <2>4, <2>5, <2>6
    <2>9. ~IsPlaceholder(n, d, R[k].next)
      <3>1. R[k].next # L - 1
        BY <1>2, <2>5
      <3>2. QED
        BY <3>1 DEF IsPlaceholder, L
    <2>10. R[e].next \in Nat \ {0}
      BY <2>4, <2>5, <2>6
    <2>11. QED
      BY <1>3, <1>0, <2>7, <2>8, <2>9, <2>10 DEF R, L
  <1>6. QED
    BY <1>4, <1>5

\* sp gives the root proofs behind every task: those of its inputs put together,
\* and all of them for the last task.
Covers(n, d, sp) ==
    LET count == AggCount(n, d) IN
    /\ count \in Nat /\ sp \in [0..(count - 1) -> Span]
    /\ \A a \in 0..(count - 1) : ~IsPlaceholder(n, d, a) => Joins(n, d, sp, a)
    /\ ~Rejected(n) => /\ count # 0 /\ ~IsPlaceholder(n, d, count - 1)
                       /\ sp[count - 1] = [from |-> 0, to |-> n + d]

\* The graph of gen_agg_tasks combines neighbours only and ends in a proof of the
\* whole execution, each segment and each deferred proof once and in order.
THEOREM GraphCoversExecution ==
    ASSUME NEW n, NEW d, Shape(n, d)
    PROVE  \E sp : Covers(n, d, sp)
  <1> DEFINE v == Rounds(n, d)[LeafCount(n, d)]
  <1>1. LeafCount(n, d) \in Nat /\ Len(v.refs) = 1
    BY LoopEnds
  <1>2. PICK sp : Tiled(n, d, v, sp)
    BY <1>1, TiledAlways
  <1>3. AggCount(n, d) = v.next /\ v.next \in Nat
    BY <1>1, RoundStep DEF AggCount
  <1>4. ~Rejected(n) => /\ v.next \in Nat \ {0} /\ ~IsPlaceholder(n, d, v.next - 1)
                        /\ v.refs[1] = Agg(v.next - 1)
    BY <1>3, LastIsLeft
  <1> HIDE DEF v
  <1>5. /\ sp \in [0..(v.next - 1) -> Span]
        /\ SpanOf(sp, v.refs[1]).from = 0 /\ SpanOf(sp, v.refs[1]).to = n + d
        /\ \A a \in 0..(v.next - 1) : ~IsPlaceholder(n, d, a) => Joins(n, d, sp, a)
    BY <1>1, <1>2 DEF Tiled
  <1>6. ASSUME ~Rejected(n) PROVE sp[v.next - 1] = [from |-> 0, to |-> n + d]
    <2>1. SpanOf(sp, v.refs[1]) = sp[v.next - 1]
      BY <1>4, <1>6, RefType DEF SpanOf
    <2>2. v.next - 1 \in 0..(v.next - 1)
      BY <1>4, <1>6
    <2>3. sp[v.next - 1] \in [from : Nat, to : Nat]
      BY <1>5, <2>2 DEF Span
    <2>4. QED
      BY <1>5, <2>1, <2>3
  <1>7. Covers(n, d, sp)
    BY <1>3, <1>4, <1>5, <1>6 DEF Covers
  <1>8. QED
    BY <1>7

\* No proof is combined twice, and a task combines only tasks before it: whoever
\* waits for a proof is the only one that does.
THEOREM OneParentEach ==
    ASSUME NEW n, NEW d, Shape(n, d)
    PROVE  /\ \A a \in 0..(AggCount(n, d) - 1) : \A b : Agg(b) \in Inputs(n, d, a) => b \in Nat /\ b < a
           /\ \A a, b \in 0..(AggCount(n, d) - 1) :
                  a # b => Inputs(n, d, a) \cap Inputs(n, d, b) = {}
  <1> DEFINE v == Rounds(n, d)[LeafCount(n, d)]
  <1>1. Forest(n, d, v)
    BY LoopEnds, ForestAlways
  <1>2. AggCount(n, d) = v.next
    BY DEF AggCount
  <1> HIDE DEF v
  <1>3. QED
    BY <1>1, <1>2 DEF Forest

\* Nothing is left over: every proof but the last is combined by some task.
THEOREM EveryProofCombined ==
    ASSUME NEW n, NEW d, Shape(n, d), ~Rejected(n),
           NEW r, Earlier(n, d, AggCount(n, d), r), r # Agg(AggCount(n, d) - 1)
    PROVE  \E a \in 0..(AggCount(n, d) - 1) : r \in Inputs(n, d, a)
  <1> DEFINE v == Rounds(n, d)[LeafCount(n, d)]
  <1>1. LeafCount(n, d) \in Nat /\ Len(v.refs) = 1
    BY LoopEnds
  <1>2. Placed(n, d, v)
    BY <1>1, PlacedAlways
  <1>3. v.refs[1] = Agg(AggCount(n, d) - 1)
    BY LastIsLeft
  <1>4. AggCount(n, d) = v.next
    BY DEF AggCount
  <1> HIDE DEF v
  <1>5. ~\E j \in 1..Len(v.refs) : r = v.refs[j]
    BY <1>1, <1>3
  <1>6. QED
    BY <1>2, <1>4, <1>5 DEF Placed

\* The bound of the unit test test_gen_agg_tasks: a v1 job has at most as many
\* aggregations as segments.
THEOREM AtMostOnePerSegment ==
    ASSUME NEW n, NEW d, Shape(n, d), Feature = "prover"
    PROVE  AggCount(n, d) <= n
  <1> DEFINE R == Rounds(n, d)
             L == LeafCount(n, d)
             T == {k \in Nat : R[k].next + Len(R[k].refs) = 2 * L}
  <1>1. \A k \in Nat : R[k].next \in Nat /\ Len(R[k].refs) \in Nat
    BY RoundStep
  <1>2. 0 \in T
    <2>1. /\ R[0] = FirstRound(n, d) /\ L \in Nat \ {0}
          /\ Len(FirstRound(n, d).refs) = L /\ FirstRound(n, d).next = L
      BY RoundsAre, Leaves, FirstRoundType
    <2>2. QED
      BY <2>1
  <1>3. ASSUME NEW k \in Nat, k \in T PROVE k + 1 \in T
    <2>1. Len(R[k].refs) <= 1 => R[k + 1] = R[k]
      BY RoundStep
    <2>2. ASSUME Len(R[k].refs) > 1 PROVE R[k + 1].next + Len(R[k + 1].refs) = R[k].next + Len(R[k].refs)
      <3> DEFINE v == R[k]
                 w == R[k + 1]
                 len == Len(v.refs)
                 new == NewTasks(len)
      <3>1. v \in Round /\ w = NextRound(v) /\ v.next \in Nat /\ len \in Nat
        BY <1>1, RoundsAre
      <3> HIDE DEF v, w
      <3>2. /\ new \in Nat \ {0} /\ w.next = v.next + new
            /\ Len(w.refs) \in {new, new + 1} /\ 2 * Len(w.refs) \in {len, len + 1}
        BY <2>2, <3>1, NextRoundIs DEF v
      <3>3. new = len \div 2
        BY DEF NewTasks
      <3> HIDE DEF new, len
      <3>4. 2 * new = len \/ 2 * new + 1 = len
        BY <3>1, <3>3
      <3>5. Len(w.refs) = len - new
        BY <3>1, <3>2, <3>4
      <3>6. QED
        BY <3>1, <3>2, <3>5 DEF v, w, len
    <2>3. R[k + 1].next + Len(R[k + 1].refs) = 2 * L /\ k + 1 \in Nat
      BY <1>1, <1>3, <2>1, <2>2
    <2>4. QED
      BY <2>3
  <1> HIDE DEF T
  <1>4. \A k \in Nat : k \in T
    BY <1>2, <1>3, SetInduction
  <1>5. LeafCount(n, d) \in Nat /\ Len(R[LeafCount(n, d)].refs) = 1
    BY LoopEnds
  <1>6. R[LeafCount(n, d)].next + 1 = 2 * L
    BY <1>4, <1>5 DEF T
  <1>7. L = (n + 1) \div 2 /\ n \in Nat
    BY DEF LeafCount, Shape
  <1>8. R[LeafCount(n, d)].next \in Nat
    BY <1>1, <1>5
  <1> HIDE DEF L, R
  <1>9. 2 * L <= n + 1
    BY <1>7
  <1>10. QED
    BY <1>6, <1>7, <1>8, <1>9 DEF AggCount, R
=============================================================================
