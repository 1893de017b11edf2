------------------------------ MODULE MCStage ------------------------------
(* Instances of Stage for TLC. *)
EXTENDS Stage, TLC

JobsOf(froms, targets, composite) ==
    [from_step : froms, target_step : targets, composite_proof : composite]

\* Every request generate_proof accepts.
AllJobs == GenerateTask

\* A full proof from the program to the snark.
FullJob == JobsOf({"Init"}, {"Snark"}, {FALSE})

\* Every request whose proof file is written when its loop ends.
ReportingJobs == {j \in AllJobs : ~(j.from_step = "Init" /\ j.target_step = "Snark" /\ j.composite_proof)}
=============================================================================
