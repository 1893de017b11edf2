----------------------------- MODULE MCAggGraph -----------------------------
(***************************************************************************)
(* The aggregation graphs of both builds for TLC: first that of Feature,   *)
(* the v1 build, grows to its bound, then that of v2.                      *)
(***************************************************************************)
EXTENDS AggGrowth

CONSTANTS SegmentsV2, DeferredV2    \* bounds of the enumeration for v2

VARIABLES n2, d2, inputs2

V2 == INSTANCE AggGrowth WITH Feature <- "prover_v2", MaxSegments <- SegmentsV2,
          MaxDeferred <- DeferredV2, n <- n2, d <- d2, inputs <- inputs2

InitBoth == Init /\ V2!Init

NextBoth ==
    \/ MoreSegments /\ UNCHANGED <<n2, d2, inputs2>>
    \/ n = MaxSegments /\ V2!Next /\ UNCHANGED vars

SpecBoth == InitBoth /\ [][NextBoth]_<<vars, n2, d2, inputs2>>

----------------------------------------------------------------------------
\* gen_agg_tasks of v2, with its leaves for deferred proofs and its chunks of two:
\* the final proof covers the execution in order, and every proof but the last is
\* waited for by exactly one task (clear_agg_child_task stops at the first).
GraphOfV2 == V2!FinalCoversExecution /\ V2!OneParent
=============================================================================
