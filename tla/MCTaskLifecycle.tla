--------------------------- MODULE MCTaskLifecycle ---------------------------
(* Instances of TaskLifecycle for TLC: a proof asked for twice, a single-node  *)
(* one, and one whose run can only die.                                        *)
EXTENDS TaskLifecycle

CONSTANTS p1, p2, p3, r1, retry1, r2, r3, elf1

TwoProofs == {p1, p2}
ThreeProofs == {p1, p2, p3}
ThreeRequests == {r1, retry1, r2}
OneEach == {r1, r2, r3}
MCIdOf(r) == IF r = r2 THEN p2 ELSE IF r = r3 THEN p3 ELSE p1
OneProgram == {elf1}
MCElfOf(r) == elf1
SecondSingle == {p2}
ThirdDoomed == {p3}
NoneDoomed == {}
=============================================================================
