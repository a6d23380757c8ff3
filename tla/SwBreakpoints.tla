--------------------------- MODULE SwBreakpoints ---------------------------
(***************************************************************************)
(* The software-breakpoint table of ptrace_cffi_source.c (the list         *)
(* state->sw_b_HEAD of struct software_breakpoint) together with the part  *)
(* of the tracee's code image that breakpoints patch.                      *)
(*                                                                         *)
(* Memory is modelled byte by byte, because a PTRACE_PEEKDATA word covers  *)
(* WordLen bytes and breakpoints closer than a word overlap: the word      *)
(* saved for one breakpoint can contain the trap byte of another.  A byte  *)
(* is either the program's own byte (Code) or the trap opcode (Trap);      *)
(* bytes never move, so this is all a property can tell apart.             *)
(***************************************************************************)
EXTENDS Integers, Sequences, SequencesExt

CONSTANTS
  BpAddr,     \* addresses a breakpoint may be registered at
  MemAddr,    \* byte addresses of the modelled code image
  WordLen     \* bytes per machine word (8 on x86_64, 2 in the models)

VARIABLES
  mem,        \* mem[x]: the byte at address x
  bps         \* state->sw_b_HEAD as a sequence, head first

Code == "code"
Trap == "trap"
Byte == {Code, Trap}

Offsets == 0..(WordLen - 1)
Word == [Offsets -> Byte]

ASSUME WordLen \in Nat \ {0}
ASSUME \A a \in BpAddr : \A i \in Offsets : a + i \in MemAddr

SwBreakpoint ==
  [addr: BpAddr, instruction: Word, patched_instruction: Word, enabled: BOOLEAN]

(* Slip: one byte too many read into a saved word.                       *)
PeekDataOverread(m, a) == [i \in 0..WordLen |-> m[a + i]]

(* PTRACE_PEEKDATA and PTRACE_POKEDATA of one word at address a.           *)
PeekData(m, a) == [i \in Offsets |-> m[a + i]]
PokeData(m, a, w) ==
  [x \in DOMAIN m |-> IF x - a \in Offsets THEN w[x - a] ELSE m[x]]

(* INSTALL_BREAKPOINT: the trap opcode over the low byte, the rest kept.   *)
INSTALL_BREAKPOINT(w) == [w EXCEPT ![0] = Trap]

BpAddrs(list) == {list[i].addr : i \in DOMAIN list}
EnabledAddrs(list) == {list[i].addr : i \in {j \in DOMAIN list : list[j].enabled}}

(* Slip: the list kept in descending instead of ascending address order.  *)
InsertPosDescending(list, a) ==
  IF list = <<>> \/ list[1].addr < a
  THEN 1
  ELSE LET stop == {j \in 2..Len(list) : ~(list[j].addr > a)}
       IN  IF stop = {} THEN Len(list) + 1 ELSE Min(stop)

(* Where register_breakpoint links a new entry: before the head if the     *)
(* list is empty or the head's address is greater, otherwise after the     *)
(* walk that starts at the second entry and stops at the first entry       *)
(* whose address is not below a.                                           *)
InsertPos(list, a) ==
  IF list = <<>> \/ list[1].addr > a
  THEN 1
  ELSE LET stop == {j \in 2..Len(list) : ~(list[j].addr < a)}
       IN  IF stop = {} THEN Len(list) + 1 ELSE Min(stop)

(* Rewrite every enabled breakpoint's word, walking the list from its head *)
(* (the tail loops of prepare_for_run and of wait_all_and_update_regs).   *)
PatchAll(m, list) ==
  FoldLeft(LAMBDA mm, b : IF b.enabled
                          THEN PokeData(mm, b.addr, b.patched_instruction)
                          ELSE mm,
           m, list)
(* Slip: the restore loop walking the list from its tail.                *)
RestoreAllFromTail(m, list) ==
  FoldRight(LAMBDA b, mm : IF b.enabled
                           THEN PokeData(mm, b.addr, b.instruction)
                           ELSE mm,
            list, m)
RestoreAll(m, list) ==
  FoldLeft(LAMBDA mm, b : IF b.enabled
                          THEN PokeData(mm, b.addr, b.instruction)
                          ELSE mm,
           m, list)

Init ==
  /\ mem = [x \in MemAddr |-> Code]
  /\ bps = <<>>

(* register_breakpoint: peek, patch and poke the word at once, then either *)
(* re-enable the existing entry or link a new one in address order.        *)
register_breakpoint(a) ==
  LET instruction == PeekData(mem, a)
      patched == INSTALL_BREAKPOINT(instruction)
  IN  /\ mem' = PokeData(mem, a, patched)
      /\ bps' = IF a \in BpAddrs(bps)
                THEN [i \in DOMAIN bps |->
                        IF bps[i].addr = a
                        THEN [bps[i] EXCEPT !.enabled = TRUE] ELSE bps[i]]
                ELSE InsertAt(bps, InsertPos(bps, a),
                              [addr |-> a, instruction |-> instruction,
                               patched_instruction |-> patched,
                               enabled |-> TRUE])

(* unregister_breakpoint: unlink the first entry for a; memory untouched.  *)
unregister_breakpoint(a) ==
  /\ bps' = RemoveFirstMatch(bps, LAMBDA b : b.addr = a)
  /\ UNCHANGED mem

SetEnabled(a, on) ==
  [i \in DOMAIN bps |-> IF bps[i].addr = a
                        THEN [bps[i] EXCEPT !.enabled = on] ELSE bps[i]]

(* enable_breakpoint and disable_breakpoint only flip the flag.           *)
enable_breakpoint(a) ==
  /\ bps' = SetEnabled(a, TRUE)
  /\ UNCHANGED mem

disable_breakpoint(a) ==
  /\ bps' = SetEnabled(a, FALSE)
  /\ UNCHANGED mem

(* free_breakpoints: drop the whole list; memory untouched.              *)
free_breakpoints ==
  /\ bps' = <<>>
  /\ UNCHANGED mem

TypeOK ==
  /\ mem \in [MemAddr -> Byte]
  /\ bps \in Seq(SwBreakpoint)
=============================================================================
