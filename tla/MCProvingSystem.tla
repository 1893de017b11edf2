-------------------------- MODULE MCProvingSystem --------------------------
(* Instances of ProvingSystem for TLC. *)
EXTENDS ProvingSystem

CONSTANTS n1, n2

OneNode == {n1}
TwoNodes == {n1, n2}

\* A full proof from the program to the snark.
FullJob == [from_step : {"Init"}, target_step : {"Snark"}, composite_proof : {FALSE}]
=============================================================================
