------------------------------ MODULE JobQueue ------------------------------
(***************************************************************************)
(* What the stage server promises of the proof jobs it has accepted: each  *)
(* is started, at most MaxConcurrent run at a time, one that is            *)
(* interrupted goes back to the waiting ones, and one that is finished is  *)
(* never started again.  TaskLifecycle implements it through crashes and   *)
(* reloads.                                                                *)
(***************************************************************************)
EXTENDS Naturals, FiniteSets

CONSTANTS Proofs, MaxConcurrent

VARIABLE jobs       \* proof -> absent, waiting, running or finished

JobInit == jobs = [p \in Proofs |-> "absent"]

InState(s) == {p \in Proofs : jobs[p] = s}

Submit(p) == jobs[p] = "absent" /\ jobs' = [jobs EXCEPT ![p] = "waiting"]

Start(p) ==
    /\ jobs[p] = "waiting" /\ Cardinality(InState("running")) < MaxConcurrent
    /\ jobs' = [jobs EXCEPT ![p] = "running"]

Finish(p) == jobs[p] = "running" /\ jobs' = [jobs EXCEPT ![p] = "finished"]

\* Some or all of the running jobs stop before their end.
Interrupt ==
    \E S \in SUBSET InState("running") :
        jobs' = [p \in Proofs |-> IF p \in S THEN "waiting" ELSE jobs[p]]

JobNext == Interrupt \/ \E p \in Proofs : Submit(p) \/ Start(p) \/ Finish(p)

JobSpec == JobInit /\ [][JobNext]_jobs
=============================================================================
