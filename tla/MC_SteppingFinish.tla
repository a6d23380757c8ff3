------------------------- MODULE MC_SteppingFinish -------------------------
EXTENDS SteppingFinish

(* main:  0 call f;  1 nop;  2 jmp main                                   *)
(* f:     3 nop;     4 call g;  5 ret                                      *)
(* g:     6 ret                                                            *)
MC_Insn ==
  [a \in 0..6 |->
     CASE a = 0 -> [op |-> "call", to |-> 3]
       [] a = 2 -> [op |-> "jmp",  to |-> 0]
       [] a = 4 -> [op |-> "call", to |-> 6]
       [] a \in {5, 6} -> [op |-> "ret", to |-> 0]
       [] OTHER -> [op |-> "nop", to |-> 0]]
=============================================================================
