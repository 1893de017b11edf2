------------------------- MODULE ProverClientProofs -------------------------
(***************************************************************************)
(* Proofs about ProverClient: for any nodes, jobs, calls and limit, a node *)
(* serves one call at a time, the node table never loses a node, and a job *)
(* never has more calls at the provers than max_prover_num.                *)
(***************************************************************************)
EXTENDS ProverClient, FiniteSetTheorems, TLAPS

\* single_node passes neither look at the counter nor the decrement.
CountedPath == \A c \in Calls :
    /\ pc[c] \in {"check", "recheck", "send", "decrement"} => Counted(c)
    /\ pc[c] = "record" => ~Counted(c)

\* The inductive invariant: the counter can only be shown natural together with
\* the calls that are counted in it.
Inv == TypeOK /\ NodeExclusive /\ ProverCap /\ CountedPath

\* With a database that answers no node is lost either.
LossFree == DbErrors \/ NoNodeLost

\* Reserved is a finite set, so its cardinality is a number.
LEMMA ReservedFinite ==
    ASSUME NEW s \in Stages
    PROVE  /\ IsFiniteSet(Reserved(s)) /\ Cardinality(Reserved(s)) \in Nat
           /\ IsFiniteSet(Reserved(s)') /\ Cardinality(Reserved(s)') \in Nat
  <1>1. IsFiniteSet(Calls)
    BY ClientAssumption
  <1>2. Reserved(s) \subseteq Calls /\ Reserved(s)' \subseteq Calls
    BY DEF Reserved
  <1>3. QED
    BY <1>1, <1>2, FS_Subset, FS_CardinalityType

\* A step that moves no call into or out of the counted region keeps the limit.
LEMMA CapKept ==
    ASSUME ProverCap, count' = count, \A s \in Stages : Reserved(s)' = Reserved(s)
    PROVE  ProverCap'
  BY DEF ProverCap

LEMMA InitInv == Init => Inv
  <1> SUFFICES ASSUME Init PROVE Inv
    OBVIOUS
  <1>1. TypeOK
    BY ClientAssumption DEF Init, TypeOK, Statuses, PC, Answer, TaskState
  <1>2. NodeExclusive
    BY DEF Init, NodeExclusive, Holds
  <1>3. ProverCap
    <2>1. \A s \in Stages : Reserved(s) = {}
      BY DEF Init, Reserved
    <2>2. \A s \in Stages : Cardinality(Reserved(s)) = 0
      BY <2>1, FS_EmptySet, Zenon
    <2>3. \A s \in Stages : count[s] = 0
      BY DEF Init
    <2>4. MaxProverNum \in Nat
      BY ClientAssumption
    <2>5. QED
      BY <2>2, <2>3, <2>4 DEF ProverCap
  <1>4. CountedPath
    BY DEF Init, CountedPath
  <1>5. QED
    BY <1>1, <1>2, <1>3, <1>4 DEF Inv

----------------------------------------------------------------------------
\* The nodes a call looks at are nodes of the table.
LEMMA NodesOfCall ==
    ASSUME NEW c \in Calls PROVE get_nodes(c) \subseteq Nodes
  BY ClientAssumption DEF get_nodes, Kind

\* A step leaves every variable in its type; only the decrement needs to know
\* that the call is counted.
LEMMA TypeStep == Inv /\ [Next]_vars => TypeOK'
  <1> SUFFICES ASSUME Inv, [Next]_vars PROVE TypeOK'
    OBVIOUS
  <1> USE DEF TypeOK, Statuses, PC, Answer, TaskState
  <1>0. TypeOK /\ NodeExclusive /\ ProverCap /\ CountedPath
    BY DEF Inv
  <1>1. ASSUME NEW c \in Calls, Start(c) PROVE TypeOK'
    BY <1>0, <1>1, NodesOfCall DEF Start, EntryState
  <1>2. ASSUME NEW c \in Calls, Check(c) PROVE TypeOK'
    BY <1>0, <1>2, NodesOfCall DEF Check
  <1>3. ASSUME NEW c \in Calls, NEW n \in Nodes, SkipNode(c, n) PROVE TypeOK'
    BY <1>0, <1>3 DEF SkipNode
  <1>4. ASSUME NEW c \in Calls, NEW n \in Nodes, TakeNode(c, n) PROVE TypeOK'
    BY <1>0, <1>4 DEF TakeNode
  <1>5. ASSUME NEW c \in Calls, Connect(c) PROVE TypeOK'
    BY <1>0, <1>5 DEF Connect, NodeExclusive, Holds
  <1>6. ASSUME NEW c \in Calls, ConnectFails(c) PROVE TypeOK'
    BY <1>0, <1>6 DEF ConnectFails, NodeExclusive, Holds
  <1>7. ASSUME NEW c \in Calls, NoIdleNode(c) PROVE TypeOK'
    BY <1>0, <1>7, NodesOfCall DEF NoIdleNode
  <1>8. ASSUME NEW c \in Calls, Recheck(c) PROVE TypeOK'
    BY <1>0, <1>8, ClientAssumption DEF Recheck
  <1>9. ASSUME NEW c \in Calls, SkipSameNode(c) PROVE TypeOK'
    BY <1>0, <1>9 DEF SkipSameNode
  <1>10. ASSUME NEW c \in Calls, Send(c) \/ Record(c) \/ RecordFails(c) PROVE TypeOK'
    BY <1>0, <1>10 DEF Send, Record, RecordFails
  <1>11. ASSUME NEW c \in Calls, RpcEnds(c) PROVE TypeOK'
    BY <1>0, <1>11 DEF RpcEnds
  <1>12. ASSUME NEW c \in Calls, Decrement(c) PROVE TypeOK'
    <2> DEFINE s == StageOf(c)
    <2>1. s \in Stages
      BY ClientAssumption
    <2>2. c \in Reserved(s)
      BY <1>0, <1>12 DEF Decrement, Reserved, CountedPath
    <2>3. Cardinality(Reserved(s)) # 0
      BY <2>1, <2>2, ReservedFinite, FS_EmptySet
    <2>4. Cardinality(Reserved(s)) \in Nat /\ Cardinality(Reserved(s)) <= count[s] /\ count[s] \in Nat
      BY <1>0, <2>1, ReservedFinite DEF ProverCap
    <2>5. count[s] - 1 \in Nat
      BY <2>3, <2>4
    <2>6. QED
      BY <1>0, <1>12, <2>1, <2>5 DEF Decrement
  <1>13. ASSUME NEW c \in Calls, Release(c) PROVE TypeOK'
    BY <1>0, <1>13 DEF Release, StateAfter
  <1>14. ASSUME NEW c \in Calls, Collect(c) PROVE TypeOK'
    BY <1>0, <1>14 DEF Collect
  <1>15. ASSUME NEW n \in Nodes, CoolDown(n) PROVE TypeOK'
    BY <1>0, <1>15 DEF CoolDown
  <1>16. CASE UNCHANGED vars
    BY <1>0, <1>16 DEF vars
  <1>17. QED
    BY <1>1, <1>2, <1>3, <1>4, <1>5, <1>6, <1>7, <1>8, <1>9, <1>10, <1>11, <1>12,
       <1>13, <1>14, <1>15, <1>16 DEF Next, Step

LEMMA CountedPathStep == Inv /\ [Next]_vars => CountedPath'
  <1> SUFFICES ASSUME Inv, [Next]_vars PROVE CountedPath'
    OBVIOUS
  <1>0. TypeOK /\ CountedPath
    BY DEF Inv
  <1> USE <1>0 DEF TypeOK, CountedPath
  <1>1. ASSUME NEW c \in Calls, Start(c) \/ Check(c) \/ NoIdleNode(c) PROVE CountedPath'
    BY <1>1 DEF Start, Check, NoIdleNode
  <1>2. ASSUME NEW c \in Calls, NEW n \in Nodes, SkipNode(c, n) \/ TakeNode(c, n) PROVE CountedPath'
    BY <1>2 DEF SkipNode, TakeNode
  <1>3. ASSUME NEW c \in Calls, Connect(c) \/ ConnectFails(c) \/ Recheck(c) PROVE CountedPath'
    BY <1>3 DEF Connect, ConnectFails, Recheck
  <1>4. ASSUME NEW c \in Calls, SkipSameNode(c) \/ Send(c) \/ RpcEnds(c)
                                   \/ Record(c) \/ RecordFails(c)
        PROVE CountedPath'
    BY <1>4 DEF SkipSameNode, Send, RpcEnds, Record, RecordFails
  <1>5. ASSUME NEW c \in Calls, Decrement(c) \/ Release(c) \/ Collect(c) PROVE CountedPath'
    BY <1>5 DEF Decrement, Release, Collect
  <1>6. ASSUME NEW n \in Nodes, CoolDown(n) PROVE CountedPath'
    BY <1>6 DEF CoolDown
  <1>7. CASE UNCHANGED vars
    BY <1>7 DEF vars
  <1>8. QED
    BY <1>1, <1>2, <1>3, <1>4, <1>5, <1>6, <1>7 DEF Next, Step

\* No step lets two calls hold a node or frees a held one.
LEMMA ExclusiveStep == Inv /\ [Next]_vars => NodeExclusive'
  <1> SUFFICES ASSUME Inv, [Next]_vars PROVE NodeExclusive'
    OBVIOUS
  <1>0. TypeOK /\ NodeExclusive
    BY DEF Inv
  <1> USE <1>0 DEF TypeOK, NodeExclusive, Holds
  \* steps of a call that holds no node before and after
  <1>1. ASSUME NEW c \in Calls, Start(c) \/ Check(c) \/ NoIdleNode(c) \/ Collect(c) PROVE NodeExclusive'
    <2>1. \A e \in Calls : /\ Holds(e)' = Holds(e)
                           /\ Holds(e) => node'[e] = node[e]
      BY <1>1 DEF Start, Check, NoIdleNode, Collect
    <2>2. status' = status
      BY <1>1 DEF Start, Check, NoIdleNode, Collect
    <2>3. QED
      BY <2>1, <2>2
  <1>2. ASSUME NEW c \in Calls, NEW n \in Nodes, SkipNode(c, n) PROVE NodeExclusive'
    BY <1>2 DEF SkipNode
  \* the node taken was not Busy, so nobody held it
  <1>3. ASSUME NEW c \in Calls, NEW n \in Nodes, TakeNode(c, n) PROVE NodeExclusive'
    <2>1. \A e \in Calls : Holds(e) => node[e] # n
      BY <1>3 DEF TakeNode, Unavailable
    <2>2. /\ ~Holds(c) /\ Holds(c)' /\ node'[c] = n
          /\ \A e \in Calls : e # c => (Holds(e)' = Holds(e) /\ node'[e] = node[e])
      BY <1>3 DEF TakeNode
    <2>3. status' = [status EXCEPT ![n] = "Busy"]
      BY <1>3 DEF TakeNode
    <2>4. QED
      BY <2>1, <2>2, <2>3
  \* steps inside the time a call holds its node
  <1>4. ASSUME NEW c \in Calls, Connect(c) \/ Record(c) \/ Send(c) \/ RpcEnds(c) \/ Decrement(c)
        PROVE NodeExclusive'
    <2>1. \A e \in Calls : Holds(e)' = Holds(e)
      BY <1>4 DEF Connect, Record, Send, RpcEnds, Decrement
    <2>2. status' = status /\ node' = node
      BY <1>4 DEF Connect, Record, Send, RpcEnds, Decrement
    <2>3. QED
      BY <2>1, <2>2
  \* steps that give the node back: the holder and the Busy status go together
  <1>5. ASSUME NEW c \in Calls, ConnectFails(c) \/ SkipSameNode(c) \/ Release(c) PROVE NodeExclusive'
    <2>1. /\ Holds(c) /\ ~Holds(c)'
          /\ \A e \in Calls : e # c => (Holds(e)' = Holds(e) /\ node'[e] = node[e])
      BY <1>5 DEF ConnectFails, SkipSameNode, Release
    <2>2. PICK st \in {"OffLine", "Idle"} : status' = [status EXCEPT ![node[c]] = st]
      BY <1>5 DEF ConnectFails, SkipSameNode, Release
    <2>3. QED
      BY <2>1, <2>2
  \* a failed record leaves the node Busy, which no other call is disturbed by
  <1>5a. ASSUME NEW c \in Calls, RecordFails(c) PROVE NodeExclusive'
    BY <1>5a DEF RecordFails
  <1>6. ASSUME NEW c \in Calls, Recheck(c) PROVE NodeExclusive'
    <2>1. CASE AtLimit(c)
      <3>1. /\ Holds(c) /\ ~Holds(c)'
            /\ \A e \in Calls : e # c => (Holds(e)' = Holds(e) /\ node'[e] = node[e])
        BY <1>6, <2>1 DEF Recheck
      <3>2. status' = [status EXCEPT ![node[c]] = "Idle"]
        BY <1>6, <2>1 DEF Recheck
      <3>3. QED
        BY <3>1, <3>2
    <2>2. CASE ~AtLimit(c)
      <3>1. \A e \in Calls : Holds(e)' = Holds(e)
        BY <1>6, <2>2 DEF Recheck
      <3>2. status' = status /\ node' = node
        BY <1>6, <2>2 DEF Recheck
      <3>3. QED
        BY <3>1, <3>2
    <2>3. QED
      BY <2>1, <2>2
  <1>7. ASSUME NEW n \in Nodes, CoolDown(n) PROVE NodeExclusive'
    BY <1>7 DEF CoolDown
  <1>8. CASE UNCHANGED vars
    BY <1>8 DEF vars
  <1>9. QED
    BY <1>1, <1>2, <1>3, <1>4, <1>5, <1>6, <1>5a, <1>7, <1>8 DEF Next, Step

\* Nor does it strand a busy node, unless the database fails.
LEMMA LossFreeStep == Inv /\ LossFree /\ [Next]_vars => LossFree'
  <1> SUFFICES ASSUME Inv, LossFree, [Next]_vars, ~DbErrors PROVE NoNodeLost'
    BY DEF LossFree
  <1>0. TypeOK /\ NodeExclusive /\ NoNodeLost
    BY DEF Inv, LossFree
  <1> USE <1>0 DEF TypeOK, NoNodeLost, Holds
  <1>1. ASSUME NEW c \in Calls, Start(c) \/ Check(c) \/ NoIdleNode(c) \/ Collect(c) PROVE NoNodeLost'
    <2>1. \A e \in Calls : /\ Holds(e)' = Holds(e)
                           /\ Holds(e) => node'[e] = node[e]
      BY <1>1 DEF Start, Check, NoIdleNode, Collect
    <2>2. status' = status
      BY <1>1 DEF Start, Check, NoIdleNode, Collect
    <2>3. QED
      BY <2>1, <2>2
  <1>2. ASSUME NEW c \in Calls, NEW n \in Nodes, SkipNode(c, n) PROVE NoNodeLost'
    BY <1>2 DEF SkipNode
  <1>3. ASSUME NEW c \in Calls, NEW n \in Nodes, TakeNode(c, n) PROVE NoNodeLost'
    <2>1. /\ ~Holds(c) /\ Holds(c)' /\ node'[c] = n
          /\ \A e \in Calls : e # c => (Holds(e)' = Holds(e) /\ node'[e] = node[e])
      BY <1>3 DEF TakeNode
    <2>2. status' = [status EXCEPT ![n] = "Busy"]
      BY <1>3 DEF TakeNode
    <2>3. QED
      BY <2>1, <2>2
  <1>4. ASSUME NEW c \in Calls, Connect(c) \/ Record(c) \/ Send(c) \/ RpcEnds(c) \/ Decrement(c)
        PROVE NoNodeLost'
    <2>1. \A e \in Calls : Holds(e)' = Holds(e)
      BY <1>4 DEF Connect, Record, Send, RpcEnds, Decrement
    <2>2. status' = status /\ node' = node
      BY <1>4 DEF Connect, Record, Send, RpcEnds, Decrement
    <2>3. QED
      BY <2>1, <2>2
  <1>5. ASSUME NEW c \in Calls, ConnectFails(c) \/ SkipSameNode(c) \/ Release(c)
                                   \/ (Recheck(c) /\ AtLimit(c))
        PROVE NoNodeLost'
    <2>1. /\ Holds(c) /\ ~Holds(c)'
          /\ \A e \in Calls : e # c => (Holds(e)' = Holds(e) /\ node'[e] = node[e])
      BY <1>5 DEF ConnectFails, SkipSameNode, Release, Recheck
    <2>2. PICK st \in {"OffLine", "Idle"} : status' = [status EXCEPT ![node[c]] = st]
      BY <1>5 DEF ConnectFails, SkipSameNode, Release, Recheck
    <2>3. QED
      BY <2>1, <2>2 DEF NodeExclusive
  <1>6. ASSUME NEW c \in Calls, Recheck(c), ~AtLimit(c) PROVE NoNodeLost'
    <2>1. \A e \in Calls : Holds(e)' = Holds(e)
      BY <1>6 DEF Recheck
    <2>2. status' = status /\ node' = node
      BY <1>6 DEF Recheck
    <2>3. QED
      BY <2>1, <2>2
  <1>7. ASSUME NEW n \in Nodes, CoolDown(n) PROVE NoNodeLost'
    BY <1>7 DEF CoolDown
  <1>8. CASE UNCHANGED vars
    BY <1>8 DEF vars
  <1>9. ~(\E c \in Calls : RecordFails(c))
    BY DEF RecordFails
  <1>10. QED
    BY <1>1, <1>2, <1>3, <1>4, <1>5, <1>6, <1>7, <1>8, <1>9 DEF Next, Step

\* A call that leaves the counted region keeps the limit while the counter stays.
LEMMA CapAfterLeaving ==
    ASSUME ProverCap, TypeOK, NEW c \in Calls, count' = count,
           Reserved(StageOf(c))' = Reserved(StageOf(c)) \ {c},
           \A s \in Stages : s # StageOf(c) => Reserved(s)' = Reserved(s)
    PROVE  ProverCap'
  <1> SUFFICES ASSUME NEW s \in Stages
               PROVE  Cardinality(Reserved(s)') <= count[s] /\ count[s] <= MaxProverNum
    BY DEF ProverCap
  <1>1. /\ Cardinality(Reserved(s)) \in Nat /\ Cardinality(Reserved(s)') \in Nat
        /\ IsFiniteSet(Reserved(s)) /\ count[s] \in Nat
    BY ReservedFinite DEF TypeOK
  <1>2. Reserved(s)' \subseteq Reserved(s)
    OBVIOUS
  <1>3. Cardinality(Reserved(s)') <= Cardinality(Reserved(s))
    BY <1>1, <1>2, FS_Subset
  <1>4. Cardinality(Reserved(s)) <= count[s] /\ count[s] <= MaxProverNum
    BY DEF ProverCap
  <1>5. QED
    BY <1>1, <1>3, <1>4, ClientAssumption

\* The limit: only the second look at the counter lets a call in, and it does so
\* in the same step in which it counts it.
LEMMA CapStep == Inv /\ [Next]_vars => ProverCap'
  <1> SUFFICES ASSUME Inv, [Next]_vars PROVE ProverCap'
    OBVIOUS
  <1>0. TypeOK /\ ProverCap /\ CountedPath
    BY DEF Inv
  <1> USE <1>0
  <1>1. ASSUME NEW c \in Calls, Start(c) \/ Check(c) \/ NoIdleNode(c) \/ Collect(c)
                                   \/ Connect(c) \/ ConnectFails(c) \/ Release(c)
                                   \/ Record(c) \/ RecordFails(c)
        PROVE ProverCap'
    <2>1. count' = count
      BY <1>1 DEF Start, Check, NoIdleNode, Collect, Connect, ConnectFails, Release, Record,
                   RecordFails
    <2>2. \A e \in Calls : pc'[e] \in {"send", "rpc", "decrement"} /\ Counted(e)
                            <=> pc[e] \in {"send", "rpc", "decrement"} /\ Counted(e)
      BY <1>1 DEF Start, Check, NoIdleNode, Collect, Connect, ConnectFails, Release, Record,
                   RecordFails, TypeOK, CountedPath
    <2>3. \A s \in Stages : Reserved(s)' = Reserved(s)
      BY <2>2 DEF Reserved
    <2>4. QED
      BY <2>1, <2>3, CapKept
  <1>2. ASSUME NEW c \in Calls, NEW n \in Nodes, SkipNode(c, n) \/ TakeNode(c, n) PROVE ProverCap'
    <2>1. count' = count /\ \A s \in Stages : Reserved(s)' = Reserved(s)
      BY <1>2 DEF SkipNode, TakeNode, Reserved, TypeOK
    <2>2. QED
      BY <2>1, CapKept
  <1>3. ASSUME NEW c \in Calls, Send(c) PROVE ProverCap'
    <2>1. count' = count /\ \A s \in Stages : Reserved(s)' = Reserved(s)
      BY <1>3 DEF Send, Reserved, TypeOK
    <2>2. QED
      BY <2>1, CapKept
  \* of a counted call the RPC's end is followed by the decrement
  <1>4. ASSUME NEW c \in Calls, RpcEnds(c) PROVE ProverCap'
    <2>1. count' = count /\ \A s \in Stages : Reserved(s)' = Reserved(s)
      BY <1>4 DEF RpcEnds, Reserved, TypeOK
    <2>2. QED
      BY <2>1, CapKept
  <1>5. ASSUME NEW c \in Calls, SkipSameNode(c) PROVE ProverCap'
    <2>1. /\ count' = count
          /\ Reserved(StageOf(c))' = Reserved(StageOf(c)) \ {c}
          /\ \A s \in Stages : s # StageOf(c) => Reserved(s)' = Reserved(s)
      BY <1>5 DEF SkipSameNode, Reserved, TypeOK
    <2>2. QED
      BY <2>1, CapAfterLeaving
  <1>6. ASSUME NEW c \in Calls, Recheck(c) PROVE ProverCap'
    <2>1. CASE AtLimit(c)
      <3>1. count' = count /\ \A s \in Stages : Reserved(s)' = Reserved(s)
        BY <1>6, <2>1 DEF Recheck, Reserved, TypeOK
      <3>2. QED
        BY <3>1, CapKept
    <2>2. CASE ~AtLimit(c)
      <3> DEFINE t == StageOf(c)
      <3>1. t \in Stages
        BY ClientAssumption
      <3>2. /\ c \notin Reserved(t) /\ Reserved(t)' = Reserved(t) \cup {c}
            /\ \A s \in Stages : s # t => Reserved(s)' = Reserved(s)
        BY <1>6, <2>2 DEF Recheck, Reserved, TypeOK, CountedPath
      <3>3. /\ count'[t] = count[t] + 1 /\ count[t] < MaxProverNum
            /\ \A s \in Stages : s # t => count'[s] = count[s]
        BY <1>6, <2>2, <3>1, ClientAssumption DEF Recheck, AtLimit, TypeOK
      <3>4. Cardinality(Reserved(t)') = Cardinality(Reserved(t)) + 1
        BY <3>1, <3>2, ReservedFinite, FS_AddElement
      <3>5. ASSUME NEW s \in Stages
            PROVE  Cardinality(Reserved(s)') <= count'[s] /\ count'[s] <= MaxProverNum
        <4>1. /\ Cardinality(Reserved(s)) <= count[s] /\ count[s] <= MaxProverNum
              /\ Cardinality(Reserved(s)) \in Nat /\ count[s] \in Nat
          BY ReservedFinite DEF ProverCap, TypeOK
        <4>2. QED
          BY <3>2, <3>3, <3>4, <4>1, ClientAssumption
      <3>6. QED
        BY <3>5 DEF ProverCap
    <2>3. QED
      BY <2>1, <2>2
  <1>7. ASSUME NEW c \in Calls, Decrement(c) PROVE ProverCap'
    <2> DEFINE t == StageOf(c)
    <2>1. t \in Stages
      BY ClientAssumption
    <2>2. /\ c \in Reserved(t) /\ Reserved(t)' = Reserved(t) \ {c}
          /\ \A s \in Stages : s # t => Reserved(s)' = Reserved(s)
      BY <1>7 DEF Decrement, Reserved, TypeOK, CountedPath
    <2>3. /\ count'[t] = count[t] - 1
          /\ \A s \in Stages : s # t => count'[s] = count[s]
      BY <1>7, <2>1 DEF Decrement, TypeOK
    <2>4. Cardinality(Reserved(t)') = Cardinality(Reserved(t)) - 1
      BY <2>1, <2>2, ReservedFinite, FS_RemoveElement
    <2>5. ASSUME NEW s \in Stages
          PROVE  Cardinality(Reserved(s)') <= count'[s] /\ count'[s] <= MaxProverNum
      <3>1. /\ Cardinality(Reserved(s)) <= count[s] /\ count[s] <= MaxProverNum
            /\ Cardinality(Reserved(s)) \in Nat /\ count[s] \in Nat
        BY ReservedFinite DEF ProverCap, TypeOK
      <3>2. CASE s = t
        BY <2>3, <2>4, <3>1, <3>2, ClientAssumption
      <3>3. CASE s # t
        BY <2>2, <2>3, <3>1, <3>3
      <3>4. QED
        BY <3>2, <3>3
    <2>6. QED
      BY <2>5 DEF ProverCap
  <1>8. ASSUME NEW n \in Nodes, CoolDown(n) PROVE ProverCap'
    <2>1. count' = count /\ \A s \in Stages : Reserved(s)' = Reserved(s)
      BY <1>8 DEF CoolDown, Reserved
    <2>2. QED
      BY <2>1, CapKept
  <1>9. CASE UNCHANGED vars
    <2>1. count' = count /\ \A s \in Stages : Reserved(s)' = Reserved(s)
      BY <1>9 DEF vars, Reserved
    <2>2. QED
      BY <2>1, CapKept
  <1>10. QED
    BY <1>1, <1>2, <1>3, <1>4, <1>5, <1>6, <1>7, <1>8, <1>9 DEF Next, Step

----------------------------------------------------------------------------
\* Inv holds in every reachable state of prover_client.rs as modelled.
LEMMA Invariance == Spec => []Inv
  <1>1. Inv /\ [Next]_vars => Inv'
    BY TypeStep, ExclusiveStep, CapStep, CountedPathStep DEF Inv
  <1>2. QED
    BY InitInv, <1>1, PTL DEF Spec

\* The variables of the client keep their types; in particular the u32 counter
\* cur_prover_num is never decremented below zero.
THEOREM TypeCorrect == Spec => []TypeOK
  <1>1. Inv => TypeOK
    BY DEF Inv
  <1>2. QED
    BY Invariance, <1>1, PTL

\* For any number of nodes, jobs and calls, a prover node serves at most one call
\* at a time and is marked Busy meanwhile (get_idle_client).
THEOREM NodesExclusive == Spec => []NodeExclusive
  <1>1. Inv => NodeExclusive
    BY DEF Inv
  <1>2. QED
    BY Invariance, <1>1, PTL

\* As long as the database answers, every Busy node is held by a call that will
\* release it (the releases in split, prove, aggregate, snark_proof, single_node).
THEOREM NodesReturned == ~DbErrors => (Spec => []NoNodeLost)
  <1> SUFFICES ASSUME ~DbErrors PROVE Spec => []NoNodeLost
    OBVIOUS
  <1>1. Init => LossFree
    BY DEF Init, LossFree, NoNodeLost
  <1>2. Inv /\ LossFree /\ [Next]_vars => LossFree'
    BY LossFreeStep
  <1>3. LossFree => NoNodeLost
    BY DEF LossFree
  <1>4. QED
    BY Invariance, <1>1, <1>2, <1>3, PTL DEF Spec

\* For any limit, a job never has more calls at the provers than max_prover_num.
THEOREM CapRespected == Spec => []ProverCap
  <1>1. Inv => ProverCap
    BY DEF Inv
  <1>2. QED
    BY Invariance, <1>1, PTL
=============================================================================
