------------------------- MODULE ProvingSystemProofs -------------------------
(***************************************************************************)
(* The stage on its client and its nodes implements Stage, for any number  *)
(* of nodes, segments and places: the one call that could be handed back   *)
(* as Processing, the snark, is never refused a place.                     *)
(***************************************************************************)
EXTENDS ProvingSystem, StageProofs

----------------------------------------------------------------------------
(* The inductive invariant.                                                *)

\* The answers that reach a call (on_done!).
KnownAnswers == {"Ok", "Busy", "InternalError", "Unreachable"}

ClientTypes ==
    /\ cpc \in [Refs -> Client!PC \ {"record"}]
    /\ answer \in [Refs -> KnownAnswers]
    /\ result \in [Refs -> Client!TaskState]
    /\ count \in [{"stage"} -> Int]

\* A call runs for a task that the loop has at the provers.
CallsBegun == \A r \in Refs : cpc[r] # "idle" => \E c \in calls : c.ref = r

\* Only snark_proof leaves the task as it came in; no call hands it back that way.
ResultsKnown ==
    \A r \in Refs : /\ cpc[r] = "returned" => result[r] # "Processing"
                    /\ r # SnarkRef /\ cpc[r] # "returned" => result[r] = "Unprocessed"

\* The places of the job that no call will give back.
Leaked == count["stage"] - Cardinality(Client!Reserved("stage"))

\* A root proof that is not done and cannot be, for want of a place.
Starved(i) ==
    /\ ~ProofDone(Prove(i))
    /\ cpc[Prove(i)] \in {"idle", "check", "returned"} /\ result[Prove(i)] = "Unprocessed"

\* Only prove loses places, and the proof for which the last one was lost needs one.
PlacesLeft ==
    \/ Leaked < MaxProverNum
    \/ job.from_step = "Init" /\ \E i \in 0..(Segments - 1) : Starved(i)

SysInv == ClientTypes /\ CallsBegun /\ ResultsKnown /\ PlacesLeft

----------------------------------------------------------------------------
(* The tasks and their kinds.                                              *)

LEMMA Kinds ==
    /\ SnarkRef \in Refs /\ KindOf(SnarkRef) = "Snark"
    /\ \A r \in Refs : /\ KindOf(r) \in {"Split", "Prove", "Agg", "Snark"}
                       /\ KindOf(r) = "Snark" => r = SnarkRef
                       /\ KindOf(r) = "Prove" => \E i \in 0..(Segments - 1) : r = Prove(i)
    /\ \A i \in 0..(Segments - 1) : Prove(i) \in Refs
  <1>1. /\ SplitRef[1] = "split" /\ SnarkRef[1] = "snark"
        /\ \A i : Prove(i)[1] = "prove" /\ Agg(i)[1] = "agg"
    BY DEF SplitRef, SnarkRef, Prove, Agg
  <1>2. \A r \in Refs : \/ r = SplitRef \/ r = SnarkRef
                        \/ \E i \in 0..(Segments - 1) : r = Prove(i)
                        \/ \E a : r = Agg(a)
    BY DEF Refs
  <1>3. /\ KindOf(SplitRef) = "Split" /\ KindOf(SnarkRef) = "Snark"
        /\ \A i : KindOf(Prove(i)) = "Prove" /\ KindOf(Agg(i)) = "Agg"
    BY <1>1 DEF KindOf
  <1>4. SnarkRef \in Refs /\ \A i \in 0..(Segments - 1) : Prove(i) \in Refs
    BY DEF Refs
  <1>5. QED
    BY <1>2, <1>3, <1>4

LEMMA AllCounted == \A r \in Refs : Client!Counted(r)
  BY Kinds DEF Client!Counted

LEMMA RefsFinite == IsFiniteSet(Refs)
  <1> DEFINE P == 0..(Segments - 1)
             A == 0..(AggCount(Segments, Deferred) - 1)
  <1>1. Segments - 1 \in Int /\ AggCount(Segments, Deferred) - 1 \in Int
    BY StageAssumption, JobGraph
  <1>2. IsFiniteSet(P) /\ IsFiniteSet(A)
    BY <1>1, FS_Interval
  <1>3. Refs = ({SplitRef} \cup {SnarkRef}) \cup (({"prove"} \X P) \cup ({"agg"} \X A))
    BY DEF Refs, Prove, Agg
  <1> HIDE DEF P, A
  <1>4. IsFiniteSet({SplitRef}) /\ IsFiniteSet({SnarkRef}) /\ IsFiniteSet({"prove"}) /\ IsFiniteSet({"agg"})
    BY FS_Singleton
  <1>5. IsFiniteSet({"prove"} \X P) /\ IsFiniteSet({"agg"} \X A)
    BY <1>2, <1>4, FS_Product
  <1>6. IsFiniteSet({SplitRef} \cup {SnarkRef}) /\ IsFiniteSet(({"prove"} \X P) \cup ({"agg"} \X A))
    BY <1>4, <1>5, FS_Union
  <1>7. QED
    BY <1>3, <1>6, FS_Union

----------------------------------------------------------------------------
(* Places.                                                                 *)

\* The calls that stand counted.
Sending == {"send", "rpc", "decrement"}

LEMMA ReservedIs ==
    /\ Client!Reserved("stage") = {r \in Refs : cpc[r] \in Sending}
    /\ Client!Reserved("stage")' = {r \in Refs : cpc'[r] \in Sending}
    /\ IsFiniteSet(Client!Reserved("stage")) /\ Cardinality(Client!Reserved("stage")) \in Nat
  <1>1. /\ Client!Reserved("stage") = {r \in Refs : cpc[r] \in Sending}
        /\ Client!Reserved("stage")' = {r \in Refs : cpc'[r] \in Sending}
    BY AllCounted DEF Client!Reserved, StageOf, Sending
  <1>2. IsFiniteSet(Client!Reserved("stage"))
    BY <1>1, RefsFinite, FS_Subset
  <1>3. QED
    BY <1>1, <1>2, FS_CardinalityType

\* A place is lost only with the early return of prove.
LEMMA LeakedKept ==
    ASSUME count["stage"] \in Int, NEW r \in Refs, NEW p, cpc \in [Refs -> Client!PC \ {"record"}],
           cpc' = [cpc EXCEPT ![r] = p],
           \/ count'["stage"] = count["stage"] /\ (cpc[r] \in Sending <=> p \in Sending)
           \/ count'["stage"] = count["stage"] + 1 /\ cpc[r] \notin Sending /\ p \in Sending
           \/ count'["stage"] = count["stage"] - 1 /\ cpc[r] \in Sending /\ p \notin Sending
    PROVE  Leaked' = Leaked
  <1> DEFINE R == Client!Reserved("stage")
  <1>1. /\ R = {q \in Refs : cpc[q] \in Sending} /\ R' = {q \in Refs : cpc'[q] \in Sending}
        /\ IsFiniteSet(R) /\ Cardinality(R) \in Nat
    BY ReservedIs
  <1>2. /\ cpc'[r] = p /\ \A q \in Refs : q # r => cpc'[q] = cpc[q]
    OBVIOUS
  <1> HIDE DEF R
  <1>3. CASE count'["stage"] = count["stage"] /\ (cpc[r] \in Sending <=> p \in Sending)
    <2>1. R' = R
      BY <1>1, <1>2, <1>3
    <2>2. QED
      BY <1>3, <2>1 DEF Leaked, R
  <1>4. CASE count'["stage"] = count["stage"] + 1 /\ cpc[r] \notin Sending /\ p \in Sending
    <2>1. R' = R \cup {r} /\ r \notin R
      BY <1>1, <1>2, <1>4
    <2>2. Cardinality(R') = Cardinality(R) + 1
      BY <1>1, <2>1, FS_AddElement
    <2>3. QED
      BY <1>1, <1>4, <2>2 DEF Leaked, R
  <1>5. CASE count'["stage"] = count["stage"] - 1 /\ cpc[r] \in Sending /\ p \notin Sending
    <2>1. R' = R \ {r} /\ r \in R
      BY <1>1, <1>2, <1>5
    <2>2. Cardinality(R') = Cardinality(R) - 1
      BY <1>1, <2>1, FS_RemoveElement
    <2>3. QED
      BY <1>1, <1>5, <2>2 DEF Leaked, R
  <1>6. QED
    BY <1>3, <1>4, <1>5

----------------------------------------------------------------------------
(* What a call does in a step.                                             *)

\* The call for r goes from one place in its function to another, leaves res as the
\* state of the task and takes n places.
Moves(r, from, to, res, n) ==
    /\ cpc[r] = from /\ cpc' = [cpc EXCEPT ![r] = to]
    /\ result' = [result EXCEPT ![r] = res]
    /\ count' = [count EXCEPT !["stage"] = count["stage"] + n]

AtLimit == count["stage"] >= MaxProverNum

CallMove(r) ==
    \/ (\E c \in calls : c.ref = r) /\ Moves(r, "idle", "check", Client!EntryState(r), 0)
    \/ Moves(r, "check", IF AtLimit THEN "returned" ELSE "pick", result[r], 0)
    \/ Moves(r, "pick", "pick", result[r], 0)
    \/ Moves(r, "pick", "connect", result[r], 0)
    \/ Moves(r, "pick", "returned", "Unprocessed", 0)
    \/ Moves(r, "connect", "recheck", result[r], 0)
    \/ Moves(r, "connect", "pick", result[r], 0)
    \/ AtLimit /\ Moves(r, "recheck", "returned", result[r], 0)
    \/ ~AtLimit /\ Moves(r, "recheck", "send", result[r], 1)
    \/ KindOf(r) = "Prove" /\ Moves(r, "send", "returned", result[r], 0)
    \/ Moves(r, "send", "rpc", result[r], 0)
    \/ Moves(r, "rpc", "decrement", result[r], 0)
    \/ Moves(r, "decrement", "release", result[r], -1)
    \/ Moves(r, "release", "returned", Client!StateAfter(r), 0)

LEMMA CallStepMoves ==
    ASSUME ClientTypes, NEW r \in Refs, CallStep(r)
    PROVE  CallMove(r) /\ UNCHANGED vars /\ answer' \in [Refs -> KnownAnswers]
  <1>1. /\ result = [result EXCEPT ![r] = result[r]] /\ cpc = [cpc EXCEPT ![r] = cpc[r]]
        /\ count = [count EXCEPT !["stage"] = count["stage"] + 0]
        /\ answer \in [Refs -> KnownAnswers]
    BY DEF ClientTypes
  <1>2. Client!Counted(r) /\ StageOf(r) = "stage"
    BY AllCounted DEF StageOf
  <1>3. Client!AtLimit(r) <=> AtLimit
    BY DEF Client!AtLimit, AtLimit, StageOf
  <1>4. CASE Begin(r)
    BY <1>1, <1>2, <1>4 DEF Begin, Client!Start, CallMove, Moves
  <1>5. CASE Client!Check(r) /\ UNCHANGED vars
    BY <1>1, <1>3, <1>5 DEF Client!Check, CallMove, Moves
  <1>6. CASE \E n \in Nodes : Client!SkipNode(r, n) /\ UNCHANGED vars
    BY <1>1, <1>6 DEF Client!SkipNode, CallMove, Moves
  <1>7. CASE Client!NoIdleNode(r) /\ UNCHANGED vars
    BY <1>1, <1>2, <1>7 DEF Client!NoIdleNode, CallMove, Moves
  <1>8. CASE Client!Recheck(r) /\ UNCHANGED vars
    BY <1>1, <1>2, <1>3, <1>8 DEF Client!Recheck, CallMove, Moves
  <1>9. CASE Client!SkipSameNode(r) /\ UNCHANGED vars
    BY <1>1, <1>9 DEF Client!SkipSameNode, Client!SameNode, CallMove, Moves
  <1>10. CASE Client!Send(r) /\ UNCHANGED vars
    BY <1>1, <1>10 DEF Client!Send, CallMove, Moves
  <1>11. CASE Client!Decrement(r) /\ UNCHANGED vars
    <2>1. count["stage"] - 1 = count["stage"] + (-1)
      BY DEF ClientTypes
    <2>2. QED
      BY <1>1, <1>2, <1>11, <2>1 DEF Client!Decrement, CallMove, Moves
  <1>12. CASE Client!Release(r) /\ UNCHANGED vars
    BY <1>1, <1>12 DEF Client!Release, CallMove, Moves, KnownAnswers
  <1>13. CASE \E n \in Nodes : Take(r, n)
    BY <1>1, <1>13 DEF Take, Client!TakeNode, CallMove, Moves
  <1>14. CASE Connected(r)
    BY <1>1, <1>2, <1>14 DEF Connected, Client!Connect, CallMove, Moves
  <1>15. CASE NotConnected(r)
    BY <1>1, <1>15 DEF NotConnected, Client!ConnectFails, CallMove, Moves
  <1>16. CASE Computed(r) \/ NotComputed(r)
    <2>1. Client!RpcEnds(r) /\ answer'[r] \in KnownAnswers /\ UNCHANGED vars
      BY <1>16 DEF Computed, NotComputed, KnownAnswers
    <2>2. \E a : answer' = [answer EXCEPT ![r] = a]
      BY <2>1 DEF Client!RpcEnds
    <2>3. answer' \in [Refs -> KnownAnswers]
      BY <1>1, <2>1, <2>2
    <2>4. QED
      BY <1>1, <1>2, <2>1, <2>3 DEF Client!RpcEnds, CallMove, Moves
  <1>17. QED
    BY <1>4, <1>5, <1>6, <1>7, <1>8, <1>9, <1>10, <1>11, <1>12, <1>13, <1>14, <1>15, <1>16 DEF CallStep, ToNode

LEMMA StateAfterKnown ==
    ASSUME ClientTypes, NEW r \in Refs
    PROVE  Client!StateAfter(r) \in {"Success", "Failed", "Unprocessed"}
  <1>1. answer[r] \in {"Ok", "Busy", "InternalError", "Unreachable"} /\ KindOf(r) \in {"Split", "Prove", "Agg", "Snark"}
    BY Kinds DEF ClientTypes, KnownAnswers
  <1>2. QED
    BY <1>1 DEF Client!StateAfter

----------------------------------------------------------------------------
(* The snark finds a place: it is alone when it is started, and no root    *)
(* proof is left that could be the starved one.                            *)

LEMMA LiveRefs ==
    ASSUME IInv, CallsBegun, NEW r \in Refs, cpc[r] # "idle"
    PROVE  /\ r = SplitRef => split = "Processing"
           /\ r = SnarkRef => snark.state = "Processing"
           /\ \A i : r = Prove(i) => i \in DOMAIN prove /\ prove[i].state = "Processing"
           /\ \A a : r = Agg(a) => a \in DOMAIN agg /\ agg[a].state = "Processing"
  <1>1. PICK c \in calls : c.ref = r
    BY DEF CallsBegun
  <1>2. CallIsLive(c)
    BY DEF IInv, CallsLive
  <1>3. QED
    BY <1>1, <1>2, RefsDiffer DEF CallIsLive

LEMMA SnarkHasPlace ==
    ASSUME IInv, Course, SysInv, cpc[SnarkRef] # "idle", cpc[SnarkRef] \notin Sending
    PROVE  ~AtLimit
  <1>1. CallsBegun /\ PlacesLeft /\ count["stage"] \in Int
    BY DEF SysInv, ClientTypes
  <1>2. snark.state = "Processing"
    BY <1>1, LiveRefs, Kinds
  <1>3. step = "Snark"
    BY <1>2 DEF IInv, TypeOK, Step, NotYetStarted, Course, CourseOfSteps
  <1>4. \/ job.from_step = "Agg" /\ split = "Initial" /\ DOMAIN prove = {} /\ DOMAIN agg = {}
        \/ /\ split = "Success" /\ AllSuccess(prove) /\ AllSuccess(agg)
           /\ DOMAIN prove = 0..(Segments + Deferred - 1)
    BY <1>3 DEF IInv, BeforeGraph, Course, CourseOfSteps, CourseOfSplit
  <1>5. \A r \in Refs : r # SnarkRef => cpc[r] = "idle"
    <2> SUFFICES ASSUME NEW r \in Refs, r # SnarkRef, cpc[r] # "idle" PROVE FALSE
      OBVIOUS
    <2>1. \/ r = SplitRef \/ (\E i : r = Prove(i)) \/ (\E a : r = Agg(a))
      BY DEF Refs
    <2>2. QED
      BY <1>1, <1>4, <2>1, LiveRefs DEF AllSuccess
  <1>6. Client!Reserved("stage") = {}
    BY <1>5, ReservedIs DEF Sending
  <1>7. Leaked = count["stage"]
    <2>1. Cardinality(Client!Reserved("stage")) = 0
      BY <1>6, FS_EmptySet
    <2>2. QED
      BY <1>1, <2>1 DEF Leaked
  <1>8. ~(job.from_step = "Init" /\ \E i \in 0..(Segments - 1) : Starved(i))
    <2>1. CASE job.from_step = "Agg"
      BY <2>1
    <2>2. CASE AllSuccess(prove) /\ DOMAIN prove = 0..(Segments + Deferred - 1)
      <3>1. \A i \in 0..(Segments - 1) : ProofDone(Prove(i))
        BY <2>2, RefsDiffer, StageAssumption DEF AllSuccess, ProofDone
      <3>2. QED
        BY <3>1 DEF Starved
    <2>3. QED
      BY <1>4, <2>1, <2>2
  <1>9. QED
    BY <1>1, <1>7, <1>8, StageAssumption DEF PlacesLeft, AtLimit

----------------------------------------------------------------------------
(* The invariant, step by step.                                            *)

LEMMA SysStarts == SystemInit => SysInv
  <1> SUFFICES ASSUME SystemInit PROVE SysInv
    OBVIOUS
  <1>1. /\ cpc = [r \in Refs |-> "idle"] /\ answer = [r \in Refs |-> "Ok"]
        /\ result = [r \in Refs |-> "Unprocessed"] /\ count = [s \in {"stage"} |-> 0]
    BY DEF SystemInit, Client!Init
  <1>2. ClientTypes
    BY <1>1 DEF ClientTypes, KnownAnswers, Client!PC, Client!TaskState
  <1>3. CallsBegun /\ ResultsKnown
    BY <1>1 DEF CallsBegun, ResultsKnown
  <1>4. Leaked = 0
    <2>1. Client!Reserved("stage") = {}
      BY <1>1, ReservedIs DEF Sending
    <2>2. Cardinality(Client!Reserved("stage")) = 0
      BY <2>1, FS_EmptySet
    <2>3. QED
      BY <1>1, <2>2 DEF Leaked
  <1>5. QED
    BY <1>2, <1>3, <1>4, StageAssumption DEF SysInv, PlacesLeft

LEMMA CallKeeps ==
    ASSUME IInv, Course, SysInv, NEW r \in Refs, CallStep(r)
    PROVE  SysInv'
  <1>1. ClientTypes /\ CallsBegun /\ ResultsKnown /\ PlacesLeft
    BY DEF SysInv
  <1>2. CallMove(r) /\ UNCHANGED vars /\ answer' \in [Refs -> KnownAnswers]
    BY <1>1, CallStepMoves
  <1>3. UNCHANGED <<job, prove, agg, calls>>
    BY <1>2 DEF vars, stageVars
  <1>4. /\ cpc' = [cpc EXCEPT ![r] = cpc'[r]]
        /\ result' = [result EXCEPT ![r] = result'[r]]
        /\ count' = [count EXCEPT !["stage"] = count'["stage"]]
    <2>1. PICK from, to, res, n : Moves(r, from, to, res, n)
      BY <1>2 DEF CallMove
    <2>2. QED
      BY <1>1, <2>1 DEF Moves, ClientTypes
  <1>5. \A q \in Refs : q # r => cpc'[q] = cpc[q] /\ result'[q] = result[q]
    BY <1>1, <1>4 DEF ClientTypes
  <1>6. r = SnarkRef => ~(AtLimit /\ cpc[r] \in {"check", "recheck"})
    BY SnarkHasPlace DEF Sending
  <1>7. /\ Client!EntryState(r) \in {"Unprocessed", "Processing"}
        /\ r # SnarkRef => Client!EntryState(r) = "Unprocessed"
    BY Kinds DEF Client!EntryState
  <1>8. ClientTypes'
    <2>1. cpc'[r] \in Client!PC \ {"record"}
      BY <1>1, <1>2 DEF CallMove, Moves, ClientTypes, Client!PC
    <2>2. result'[r] \in Client!TaskState
      <3>1. /\ result[r] \in Client!TaskState /\ Client!EntryState(r) \in Client!TaskState
            /\ Client!StateAfter(r) \in Client!TaskState /\ "Unprocessed" \in Client!TaskState
        BY <1>1, <1>7, StateAfterKnown DEF ClientTypes, Client!TaskState
      <3>2. QED
        BY <1>1, <1>2, <3>1 DEF CallMove, Moves, ClientTypes
    <2>3. count'["stage"] \in Int
      BY <1>1, <1>2 DEF CallMove, Moves, ClientTypes
    <2>4. QED
      BY <1>1, <1>2, <1>4, <2>1, <2>2, <2>3 DEF ClientTypes
  <1>9. CallsBegun'
    <2>1. cpc[r] = "idle" => \E c \in calls : c.ref = r
      BY <1>2 DEF CallMove, Moves
    <2>2. \A q \in Refs : cpc'[q] # "idle" => \E c \in calls : c.ref = q
      BY <1>1, <1>5, <2>1 DEF CallsBegun
    <2>3. QED
      BY <1>3, <2>2 DEF CallsBegun
  <1>10. ResultsKnown'
    <2>1. /\ cpc[r] = "returned" => result[r] # "Processing"
          /\ r # SnarkRef /\ cpc[r] # "returned" => result[r] = "Unprocessed"
      BY <1>1 DEF ResultsKnown
    <2>2. /\ cpc'[r] = "returned" => result'[r] # "Processing"
          /\ r # SnarkRef /\ cpc'[r] # "returned" => result'[r] = "Unprocessed"
      BY <1>1, <1>2, <1>6, <1>7, <2>1, Kinds, StateAfterKnown DEF CallMove, Moves, ClientTypes
    <2>3. QED
      BY <1>1, <1>5, <2>2 DEF ResultsKnown
  <1>11. PlacesLeft'
    <2>1. CASE KindOf(r) = "Prove" /\ Moves(r, "send", "returned", result[r], 0)
      <3>1. PICK i \in 0..(Segments - 1) : r = Prove(i)
        BY <2>1, Kinds
      <3>2. cpc[r] = "send"
        BY <2>1 DEF Moves
      <3>3. i \in DOMAIN prove /\ prove[i].state = "Processing"
        BY <1>1, <3>1, <3>2, LiveRefs
      <3>4. job.from_step = "Init"
        BY <3>3, StageAssumption DEF Course, CourseOfSplit, IInv, TypeOK, GenerateTask
      <3>5. cpc'[r] = "returned" /\ result'[r] = "Unprocessed"
        BY <1>1, <2>1, <3>1, <3>2, RefsDiffer DEF Moves, ClientTypes, ResultsKnown
      <3>6. ~ProofDone(Prove(i))'
        BY <1>3, <3>3, RefsDiffer DEF ProofDone
      <3>7. QED
        BY <1>3, <3>1, <3>4, <3>5, <3>6 DEF PlacesLeft, Starved
    <2>2. CASE ~(KindOf(r) = "Prove" /\ Moves(r, "send", "returned", result[r], 0))
      <3>1. Leaked' = Leaked
        <4>1. count["stage"] \in Int /\ cpc \in [Refs -> Client!PC \ {"record"}]
          BY <1>1 DEF ClientTypes
        <4>2. \/ count'["stage"] = count["stage"] /\ (cpc[r] \in Sending <=> cpc'[r] \in Sending)
              \/ count'["stage"] = count["stage"] + 1 /\ cpc[r] \notin Sending /\ cpc'[r] \in Sending
              \/ count'["stage"] = count["stage"] - 1 /\ cpc[r] \in Sending /\ cpc'[r] \notin Sending
          <5>1. count["stage"] + (-1) = count["stage"] - 1 /\ count["stage"] + 0 = count["stage"]
            BY <4>1
          <5>2. QED
            BY <1>1, <1>2, <2>2, <5>1 DEF CallMove, Moves, ClientTypes, Sending
        <4>3. QED
          BY <1>4, <4>1, <4>2, LeakedKept
      <3>2. CASE Leaked < MaxProverNum
        BY <3>1, <3>2 DEF PlacesLeft
      <3>3. CASE ~(Leaked < MaxProverNum)
        <4>1. PICK i \in 0..(Segments - 1) : Starved(i)
          BY <1>1, <3>3 DEF PlacesLeft
        <4>2. job.from_step = "Init"
          BY <1>1, <3>3 DEF PlacesLeft
        <4>3. AtLimit
          <5>1. Cardinality(Client!Reserved("stage")) \in Nat /\ count["stage"] \in Int /\ MaxProverNum \in Nat
            BY <1>1, ReservedIs, StageAssumption DEF ClientTypes
          <5>2. QED
            BY <3>3, <5>1 DEF Leaked, AtLimit
        <4>4. ~ProofDone(Prove(i))'
          BY <1>3, <4>1 DEF Starved, ProofDone
        <4>5. cpc'[Prove(i)] \in {"idle", "check", "returned"} /\ result'[Prove(i)] = "Unprocessed"
          <5>1. CASE r # Prove(i)
            BY <1>5, <4>1, <5>1, Kinds DEF Starved
          <5>2. CASE r = Prove(i)
            BY <1>1, <1>2, <1>7, <4>1, <4>3, <5>2, RefsDiffer DEF Starved, CallMove, Moves, ClientTypes
          <5>3. QED
            BY <5>1, <5>2
        <4>6. QED
          BY <1>3, <4>1, <4>2, <4>4, <4>5 DEF PlacesLeft, Starved
      <3>4. QED
        BY <3>2, <3>3
    <2>3. QED
      BY <2>1, <2>2
  <1>12. QED
    BY <1>8, <1>9, <1>10, <1>11 DEF SysInv

\* A reference names its task.
LEMMA RefNames ==
    ASSUME NEW r \in Refs
    PROVE  /\ r[1] = "prove" => r = Prove(r[2])
           /\ r[1] = "agg" => r = Agg(r[2])
  <1>1. \/ r = SplitRef \/ r = SnarkRef \/ (\E i : r = Prove(i)) \/ (\E a : r = Agg(a))
    BY DEF Refs
  <1>2. SplitRef[1] = "split" /\ SnarkRef[1] = "snark"
    BY DEF SplitRef, SnarkRef
  <1>3. QED
    BY <1>1, <1>2, RefsDiffer

\* What arrives in the loop is what Stage expects of a call.
LEMMA DeliverSeen ==
    ASSUME SysInv, NEW r \in Refs, Deliver(r)
    PROVE  /\ result[r] \in Reported
           /\ \E c \in calls : c.ref = r /\ calls' = calls \ {c}
           /\ Reported \subseteq Results => Next
  <1>1. cpc[r] = "returned"
    BY DEF Deliver, Client!Collect
  <1>2. result[r] \in Reported
    BY <1>1 DEF SysInv, ClientTypes, ResultsKnown, Client!TaskState, Reported
  <1>3. CASE r = SplitRef /\ OnSplit(result[r])
    BY <1>2, <1>3 DEF OnSplit, Next
  <1>4. CASE r = SnarkRef /\ OnSnark(result[r])
    BY <1>2, <1>4 DEF OnSnark, Next
  <1>5. CASE r[1] = "prove" /\ OnProve(r[2], result[r])
    <2>1. PICK c \in calls : c.ref = r /\ calls' = calls \ {c}
      BY <1>5, RefNames DEF OnProve
    <2>2. Reported \subseteq Results => Next
      BY <1>2, <1>5, <2>1 DEF Next
    <2>3. QED
      BY <1>2, <2>1, <2>2
  <1>6. CASE r[1] = "agg" /\ OnAgg(r[2], result[r])
    <2>1. PICK c \in calls : c.ref = r /\ calls' = calls \ {c}
      BY <1>6, RefNames DEF OnAgg
    <2>2. Reported \subseteq Results => Next
      BY <1>2, <1>6, <2>1 DEF Next
    <2>3. QED
      BY <1>2, <2>1, <2>2
  <1>7. QED
    BY <1>3, <1>4, <1>5, <1>6 DEF Deliver

\* A root proof is finished by its own successful result.
LEMMA DeliverDone ==
    ASSUME IInv, SysInv, NEW r \in Refs, Deliver(r),
           NEW i, ~ProofDone(Prove(i)), ProofDone(Prove(i))'
    PROVE  r = Prove(i) /\ result[r] = "Success"
  <1>1. /\ i \in DOMAIN prove' /\ prove'[i].state = "Success"
        /\ ~(i \in DOMAIN prove /\ prove[i].state = "Success")
    BY RefsDiffer DEF ProofDone
  <1>2. result[r] \in Reported
    BY DeliverSeen
  <1>3. r[1] = "prove" /\ OnProve(r[2], result[r])
    BY <1>1 DEF Deliver, OnSplit, OnSnark, OnAgg
  <1> DEFINE k == r[2]
  <1>4. PICK c \in calls : prove' = IF k \in DOMAIN prove /\ prove[k].state = "Processing"
                                    THEN [prove EXCEPT ![k] = AfterProve(@, result[r], c.input)] ELSE prove
    BY <1>3 DEF OnProve
  <1>5. /\ k \in DOMAIN prove /\ k = i
        /\ prove'[i] = AfterProve(prove[i], result[r], c.input)
    BY <1>1, <1>4
  <1>6. prove[i] \in ProveTask
    BY <1>5 DEF IInv, TypeOK
  <1>7. result[r] = "Success"
    BY <1>1, <1>2, <1>5, <1>6 DEF AfterProve, ProveTask
  <1>8. QED
    BY <1>3, <1>5, <1>7, RefNames

LEMMA DeliverKeeps ==
    ASSUME IInv, SysInv, NEW r \in Refs, Deliver(r), job' = job
    PROVE  SysInv'
  <1>1. ClientTypes /\ CallsBegun /\ ResultsKnown /\ PlacesLeft
    BY DEF SysInv
  <1>2. /\ cpc[r] = "returned" /\ cpc' = [cpc EXCEPT ![r] = "idle"]
        /\ result' = [result EXCEPT ![r] = "Unprocessed"] /\ UNCHANGED <<count, answer>>
    BY DEF Deliver, Client!Collect
  <1>3. /\ cpc'[r] = "idle" /\ result'[r] = "Unprocessed"
        /\ \A q \in Refs : q # r => cpc'[q] = cpc[q] /\ result'[q] = result[q]
    BY <1>1, <1>2 DEF ClientTypes
  <1>4. ClientTypes'
    BY <1>1, <1>2 DEF ClientTypes, Client!PC, Client!TaskState
  <1>5. CallsBegun'
    <2>1. PICK d \in calls : d.ref = r /\ calls' = calls \ {d}
      BY DeliverSeen
    <2>2. \A q \in Refs : cpc'[q] # "idle" => \E c \in calls' : c.ref = q
      BY <1>1, <1>3, <2>1 DEF CallsBegun
    <2>3. QED
      BY <2>2 DEF CallsBegun
  <1>6. ResultsKnown'
    BY <1>1, <1>3 DEF ResultsKnown
  <1>7. PlacesLeft'
    <2>1. Leaked' = Leaked
      <3>1. count["stage"] \in Int /\ cpc \in [Refs -> Client!PC \ {"record"}]
        BY <1>1 DEF ClientTypes
      <3>2. count'["stage"] = count["stage"] /\ (cpc[r] \in Sending <=> "idle" \in Sending)
        BY <1>2 DEF Sending
      <3>3. QED
        BY <1>2, <3>1, <3>2, LeakedKept
    <2>2. \A i \in 0..(Segments - 1) : Starved(i) => Starved(i)'
      <3> SUFFICES ASSUME NEW i \in 0..(Segments - 1), Starved(i) PROVE Starved(i)'
        OBVIOUS
      <3>1. ~ProofDone(Prove(i))'
        BY DeliverDone DEF Starved
      <3>2. cpc'[Prove(i)] \in {"idle", "check", "returned"} /\ result'[Prove(i)] = "Unprocessed"
        BY <1>3, Kinds DEF Starved
      <3>3. QED
        BY <3>1, <3>2 DEF Starved
    <2>3. QED
      BY <1>1, <2>1, <2>2 DEF PlacesLeft
  <1>8. QED
    BY <1>4, <1>5, <1>6, <1>7 DEF SysInv

\* The loop and the splitter take nothing from the calls.
LEMMA StageOnly ==
    ASSUME StageStep \/ SplitterPublishes \/ SplitterWrites
    PROVE  Next /\ calls \subseteq calls' /\ UNCHANGED clientVars
  <1>1. Next /\ UNCHANGED clientVars
    BY DEF StageStep, SplitterPublishes, SplitterWrites, LoopStep, Next
  <1>2. calls \subseteq calls'
    <2>1. CASE StageStep
      BY <2>1 DEF StageStep, LoopStep, Stopped, Schedule, ScheduleProve, ScheduleSnark, ScheduleNothing, Tick, Break,
         Dispatch, DispatchInit, DispatchSplitDone, DispatchGenerate, DispatchProve, DispatchAgg, DispatchSnark,
         Finish, FinishError, FinishSuccess, FinishPanic, vars
    <2>2. CASE SplitterPublishes \/ SplitterWrites
      BY <2>2 DEF SplitterPublishes, SplitterWrites, SplitPublish, SplitWrite
    <2>3. QED
      BY <2>1, <2>2
  <1>3. QED
    BY <1>1, <1>2

LEMMA StageKeeps ==
    ASSUME IInv, Course, SysInv, [Next]_vars, calls \subseteq calls',
           UNCHANGED <<count, cpc, answer, result>>
    PROVE  SysInv'
  <1>1. ClientTypes /\ CallsBegun /\ ResultsKnown /\ PlacesLeft
    BY DEF SysInv
  <1>2. ClientTypes' /\ ResultsKnown'
    BY <1>1 DEF ClientTypes, ResultsKnown
  <1>3. CallsBegun'
    BY <1>1 DEF CallsBegun
  <1>4. Leaked' = Leaked
    <2>1. Client!Reserved("stage")' = Client!Reserved("stage")
      BY ReservedIs
    <2>2. QED
      BY <2>1 DEF Leaked
  <1>5. \A i \in 0..(Segments - 1) : Starved(i) => Starved(i)'
    <2> SUFFICES ASSUME NEW i \in 0..(Segments - 1), Starved(i), ProofDone(Prove(i))' PROVE FALSE
      BY DEF Starved
    <2>1. /\ i \in DOMAIN prove' /\ prove'[i].state = "Success"
          /\ ~(i \in DOMAIN prove /\ prove[i].state = "Success")
      BY RefsDiffer DEF ProofDone, Starved
    <2>2. CASE DispatchGenerate
      <3>1. i >= Segments
        BY <2>1, <2>2, GenerateMakes
      <3>2. QED
        BY <3>1, StageAssumption
    <2>3. CASE ~DispatchGenerate
      <3>1. \E c \in calls : calls' = calls \ {c}
        BY <2>1, <2>3, ProveChanges
      <3>2. QED
        BY <3>1
    <2>4. QED
      BY <2>2, <2>3
  <1>6. job' = job
    BY Frame
  <1>7. PlacesLeft'
    BY <1>1, <1>4, <1>5, <1>6 DEF PlacesLeft
  <1>8. QED
    BY <1>2, <1>3, <1>7 DEF SysInv

----------------------------------------------------------------------------
(* The refinement.                                                         *)

\* Every step of the system is a step of Stage or leaves it alone.
LEMMA SystemStepSeen ==
    ASSUME SysInv, Reported \subseteq Results, [SystemNext]_systemVars
    PROVE  [Next]_vars
  <1>1. CASE StageStep \/ SplitterPublishes \/ SplitterWrites
    BY <1>1, StageOnly
  <1>2. ASSUME NEW r \in Refs, CallStep(r)
        PROVE  UNCHANGED vars
    BY <1>2, CallStepMoves DEF SysInv
  <1>3. ASSUME NEW r \in Refs, Deliver(r)
        PROVE  Next
    BY <1>3, DeliverSeen
  <1>4. CASE \E n \in Nodes : CoolDown(n)
    BY <1>4 DEF CoolDown
  <1>5. CASE UNCHANGED systemVars
    BY <1>5 DEF systemVars
  <1>6. QED
    BY <1>1, <1>2, <1>3, <1>4, <1>5 DEF SystemNext

LEMMA SystemStepKeeps ==
    ASSUME IInv, Course, SysInv, Reported \subseteq Results, [SystemNext]_systemVars
    PROVE  IInv' /\ Course' /\ SysInv'
  <1>1. [Next]_vars
    BY SystemStepSeen
  <1>2. IInv'
    BY <1>1, StepInv
  <1>3. Course'
    BY <1>1, CourseOfSplitStep, CourseOfStepsStep, CourseOfLoopStep DEF Course
  <1>4. ASSUME StageStep \/ SplitterPublishes \/ SplitterWrites
        PROVE  SysInv'
    <2>1. calls \subseteq calls' /\ UNCHANGED <<count, cpc, answer, result>>
      BY <1>4, StageOnly DEF clientVars
    <2>2. QED
      BY <1>1, <2>1, StageKeeps
  <1>5. ASSUME NEW r \in Refs, CallStep(r)
        PROVE  SysInv'
    BY <1>5, CallKeeps
  <1>6. ASSUME NEW r \in Refs, Deliver(r)
        PROVE  SysInv'
    <2>1. job' = job
      BY <1>1, Frame
    <2>2. QED
      BY <1>6, <2>1, DeliverKeeps
  <1>7. ASSUME (\E n \in Nodes : CoolDown(n)) \/ UNCHANGED systemVars
        PROVE  SysInv'
    <2>1. calls' = calls /\ UNCHANGED <<count, cpc, answer, result>>
      BY <1>7 DEF CoolDown, Client!CoolDown, systemVars, clientVars, vars
    <2>2. QED
      BY <1>1, <2>1, StageKeeps
  <1>8. SysInv'
    BY <1>4, <1>5, <1>6, <1>7 DEF SystemNext
  <1>9. QED
    BY <1>2, <1>3, <1>8

\* The stage on its client and its nodes does nothing that Stage does not allow, for
\* any number of segments, nodes and places (ImplementsStage): every result reaches
\* the loop in a state the loop reacts to.  The early return of prove may lose the
\* job's places for good, but the root proof that lost the last one is itself
\* starved then, so that the snark, which is refused without a state of its own, is
\* never reached without a place.
THEOREM SystemImplementsStage ==
    ASSUME Reported \subseteq Results
    PROVE  SystemSpec => ImplementsStage
  <1>1. SystemInit => Init /\ IInv /\ Course /\ SysInv
    BY InitInv, CourseStarts, SysStarts DEF SystemInit
  <1>2. IInv /\ Course /\ SysInv /\ [SystemNext]_systemVars => IInv' /\ Course' /\ SysInv'
    BY SystemStepKeeps
  <1>3. SysInv /\ [SystemNext]_systemVars => [Next]_vars
    BY SystemStepSeen
  <1>4. QED
    BY <1>1, <1>2, <1>3, PTL DEF SystemSpec, ImplementsStage, Spec

----------------------------------------------------------------------------
(* What the job promises, on its client and its nodes.                     *)

\* Every step of the system is a step of the client for the calls of this one job,
\* or leaves the client alone.
LEMMA SystemStepOfClient ==
    ASSUME [SystemNext]_systemVars
    PROVE  [Client!Next]_(Client!vars)
  <1>1. ASSUME StageStep \/ SplitterPublishes \/ SplitterWrites \/ UNCHANGED systemVars
        PROVE  UNCHANGED Client!vars
    BY <1>1 DEF StageStep, SplitterPublishes, SplitterWrites, systemVars, clientVars, Client!vars
  <1>2. ASSUME NEW r \in Refs, CallStep(r)
        PROVE  Client!Start(r) \/ Client!Step(r)
    BY <1>2 DEF CallStep, Begin, ToNode, Take, Connected, NotConnected, Computed, NotComputed,
                Client!Step
  <1>3. ASSUME NEW r \in Refs, Deliver(r)
        PROVE  Client!Collect(r)
    BY <1>3 DEF Deliver
  <1>4. ASSUME NEW n \in Nodes, CoolDown(n)
        PROVE  Client!CoolDown(n)
    BY <1>4 DEF CoolDown
  <1>5. QED
    BY <1>1, <1>2, <1>3, <1>4 DEF SystemNext, Client!Next

\* Behind the loop, the calls of the job are calls of ProverClient: what its theorems
\* say of any calls on the node table holds of those that the loop spawns, which
\* start and end when the loop decides.
THEOREM SystemImplementsClient == SystemSpec => Client!Spec
  <1>1. SystemInit => Client!Init
    BY DEF SystemInit
  <1>2. [SystemNext]_systemVars => [Client!Next]_(Client!vars)
    BY SystemStepOfClient
  <1>3. QED
    BY <1>1, <1>2, PTL DEF SystemSpec, Client!Spec

\* A job that save_result reports as a success has its proof, although its calls ran
\* on nodes that come and go, answer busy, late or not at all (SuccessMeansProof).
THEOREM SystemSuccessIsProved ==
    ASSUME Reported \subseteq Results
    PROVE  SystemSpec => []SuccessMeansProof
  BY SystemImplementsStage, SuccessIsProved, PTL DEF ImplementsStage

\* With the states that this client hands back, the loop never sleeps on an empty
\* set of calls in the middle of its work (WaitsForACall): that no call comes back
\* as Processing, which Stage takes for granted there, is what the client and its
\* nodes provide.
THEOREM SystemNeverWaitsForNobody ==
    ASSUME Results = Reported
    PROVE  SystemSpec => []WaitsForACall
  <1>1. "Processing" \notin Results /\ Reported \subseteq Results
    BY DEF Reported
  <1>2. Spec => []WaitsForACall
    BY <1>1, NeverWaitsForNobody
  <1>3. SystemSpec => Spec
    BY <1>1, SystemImplementsStage DEF ImplementsStage
  <1>4. QED
    BY <1>2, <1>3, PTL
=============================================================================
