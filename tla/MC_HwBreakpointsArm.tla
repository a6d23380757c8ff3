-------------------------- MODULE MC_HwBreakpointsArm --------------------------
EXTENDS HwBreakpointsArm

(* An execute breakpoint (len 4, the only length the hardware takes) and a *)
(* write watchpoint over eight bytes, so that one access can hit a         *)
(* watchpoint at an address other than the registered one.                 *)
MC_ArmKinds == {[type |-> "x", len |-> 4], [type |-> "w", len |-> 8]}
==============================================================================
