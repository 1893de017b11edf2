------------------------------ MODULE Splitter ------------------------------
(***************************************************************************)
(* What a stage relies on when it polls the directory of a running split   *)
(* (get_prove_task, gen_prove_task and on_split_task in stage/stage.rs):   *)
(* the number in segments.txt only grows, a segment file appears after it  *)
(* has been announced and is whole, and when split_elf answers Ok every    *)
(* segment it counts is there.  Stage uses these steps as its environment, *)
(* SplitExecutor implements them.                                          *)
(***************************************************************************)
EXTENDS Naturals

VARIABLES
    published,      \* the number in segments.txt, 0 without the file
    segfiles,       \* the segment files that can be read
    total           \* total_segments of the answer, 0 before it

vars == <<published, segfiles, total>>

Init == published = 0 /\ segfiles = {} /\ total = 0

Publish ==
    /\ total = 0
    /\ published' \in Nat /\ published' > published
    /\ UNCHANGED <<segfiles, total>>

Write ==
    /\ total = 0
    /\ \E i \in 0..(published - 1) \ segfiles : segfiles' = segfiles \cup {i}
    /\ UNCHANGED <<published, total>>

Report ==
    /\ total = 0
    /\ published > 0 /\ segfiles = 0..(published - 1)
    /\ total' = published
    /\ UNCHANGED <<published, segfiles>>

Spec == Init /\ [][Publish \/ Write \/ Report]_vars
=============================================================================
