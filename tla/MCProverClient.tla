--------------------------- MODULE MCProverClient ---------------------------
(* Instances of ProverClient for TLC: a job that splits, proves and           *)
(* aggregates beside a job that is at its snark, or beside a single-node job. *)
EXTENDS ProverClient

CONSTANTS n1, n2, s1, s2, prove1, agg1, snark2, single2

MCNodes == {n1, n2}
MCStages == {s1, s2}

CallsSnark == {prove1, agg1, snark2}
CallsLive == {prove1, agg1, single2}

MCStageOf(c) == IF c \in {snark2, single2} THEN s2 ELSE s1
MCKindOf(c) == IF c = snark2 THEN "Snark"
               ELSE IF c = single2 THEN "SingleNode"
               ELSE IF c = agg1 THEN "Agg"
               ELSE "Prove"
=============================================================================
