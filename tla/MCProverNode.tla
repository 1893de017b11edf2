---------------------------- MODULE MCProverNode ----------------------------
(* An instance of ProverNode for TLC: a node that serves every kind of task of *)
(* a job, and a single-node job with another segment size.                     *)
EXTENDS ProverNode

CONSTANTS n1, split1, prove1, agg1, single2

MCNodes == {n1}
MCTasks == {split1, prove1, agg1, single2}
MCFeatures == {"prover", "prover_v2"}

MCSizeOf(t) == IF t = single2 THEN 2 ELSE 1
MCKindOf(t) == IF t = split1 THEN "Split"
               ELSE IF t = single2 THEN "SingleNode"
               ELSE IF t = agg1 THEN "Agg"
               ELSE "Prove"
=============================================================================
