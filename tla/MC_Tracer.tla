----------------------------- MODULE MC_Tracer -----------------------------
(* Two threads (T1 the main thread, registered first, so last in the      *)
(* list), a three-instruction loop, two-byte words, and breakpoints at     *)
(* the two neighbouring addresses 0 and 1, whose words overlap.            *)
EXTENDS Tracer

CONSTANTS T1, T2

MC_ThreadList == <<T2, T1>>
MC_MaxSteps == {-1, 0, 2}
(* For the signal runs: one bounded step_until.                            *)
MC_MaxStepsSig == {1}
=============================================================================
