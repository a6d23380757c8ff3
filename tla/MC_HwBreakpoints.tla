--------------------------- MODULE MC_HwBreakpoints ---------------------------
EXTENDS HwBreakpoints

CONSTANTS T1, T2

(* An execute breakpoint and an 8-byte write watchpoint.                   *)
MC_BpKinds == {[type |-> "x", len |-> 1], [type |-> "w", len |-> 8]}
(* One kind only, for the runs that fill every slot of one thread.         *)
MC_OneKind == {[type |-> "x", len |-> 1]}
==============================================================================
