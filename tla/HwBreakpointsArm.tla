--------------------------- MODULE HwBreakpointsArm ---------------------------
(***************************************************************************)
(* The AArch64 hardware breakpoints of ptrace_cffi_source.c: the same list *)
(* state->hw_b_HEAD as on x86_64 (register/unregister/enable/disable/get   *)
(* hit are shared code), driving per thread the two register sets read and *)
(* written whole with PTRACE_GETREGSET/SETREGSET: NT_ARM_HW_BREAK for "x"  *)
(* entries and NT_ARM_HW_WATCH for the others.  Each set is an array of 16 *)
(* dbg_regs {addr, ctrl}; the hardware implements the first NumHw of them  *)
(* (the low byte of dbg_info); the kernel reads the rest back as zero and  *)
(* refuses a write that programs one of them.                              *)
(*                                                                         *)
(* Hit detection reads the siginfo of the thread's last stop, so the       *)
(* kernel side is abstracted to that siginfo: a hardware trap              *)
(* (SIGTRAP/TRAP_HWBKPT) carries in si_addr the address that triggered the *)
(* slot (the instruction for a breakpoint, the accessed byte of the        *)
(* watched range for a watchpoint); any other stop carries another code.   *)
(* As in HwBreakpoints, the list is a set.  The callers that step off a   *)
(* hardware stop are modelled too: prepare_for_run's loop, which waits for *)
(* the step before reinstalling, and singlestep, which does not.           *)
(***************************************************************************)
EXTENDS Integers, FiniteSets, FiniteSetsExt, Bitwise

CONSTANTS
  Threads,    \* tids the caller places hardware breakpoints on
  Addr,       \* addresses it places them at (0 marks a free dbg_regs entry)
  BpKinds,    \* the [type, len] pairs it passes ("rw" is type[0..1] = "rw")
  NumHw       \* slots per set the hardware implements (dbg_info & 0xff)

NoAddr == 0
NumRegs == 16
Regs == 0..(NumRegs - 1)
HwRegs == 0..(NumHw - 1)
Types == {"x", "w", "r", "rw"}
Lens == {1, 2, 4, 8}
Sets == {"NT_ARM_HW_BREAK", "NT_ARM_HW_WATCH"}
StopCodes == {"TRAP_HWBKPT", "TRAP_BRKPT", "TRAP_TRACE", "SIGNAL"}

ASSUME NoAddr \notin Addr /\ Addr \subseteq Nat
ASSUME BpKinds \subseteq [type: Types, len: Lens]
ASSUME NumHw \in 1..NumRegs

VARIABLES
  hw_bps,     \* state->hw_b_HEAD
  dbg,        \* dbg[t][s][i]: dbg_regs[i] of register set s of thread t
  si,         \* si[t]: si_code and si_addr of thread t's last stop
  last_hit,   \* history: register set and address of the entry that caused t's
              \* last stop, or NoHit
  ks,         \* ks[t]: the kernel's state of thread t
  pc,         \* where the caller is
  todo,       \* threads prepare_for_run's hardware loop has still to visit
  cur,        \* the entry being stepped over (bp of the loop), or NoBp
  buf         \* singlestep's copy of the set install_hardware_breakpoint read

tableVars == <<hw_bps, dbg>>
runVars == <<ks, pc, todo, cur, buf>>
vars == <<hw_bps, dbg, si, last_hit, runVars>>

HwBreakpoint == [addr: Addr, tid: Threads, enabled: BOOLEAN, type: Types, len: Lens]
DbgReg == [addr: Addr \cup {NoAddr}, ctrl: 0..(2^13 - 1)]
DbgClear == [addr |-> NoAddr, ctrl |-> 0]
NoHit == [set |-> "none", addr |-> NoAddr]
NoBp == [addr |-> NoAddr, tid |-> NoAddr, enabled |-> FALSE, type |-> "x", len |-> 4]
Zeroed == [i \in Regs |-> DbgClear]
KStates == {"stopped", "running", "stepping"}
PCs == {"idle", "prepare", "prepare_wait", "running", "ss_get", "ss_set", "stepped"}

get_breakpoint_type(type) ==
  CASE type = "r" -> 1 [] type = "rw" -> 3 [] type = "w" -> 2 [] type = "x" -> 0

Command(bp) ==
  IF get_breakpoint_type(bp.type) = 0 THEN "NT_ARM_HW_BREAK" ELSE "NT_ARM_HW_WATCH"

(* Slip: the length mask written as 1 << len, without the - 1.             *)
ControlNoMinusOne(len, condition) ==
  ((2^len) * 2^5) | (condition * 2^3) | (2 * 2^1) | 1

(* Slip: the condition shifted by 2 instead of 3.                          *)
ControlCondShift(len, condition) ==
  ((2^len - 1) * 2^5) | (condition * 2^2) | (2 * 2^1) | 1

(* control = (length << 5) | (condition << 3) | (2 << 1) | 1, with the     *)
(* byte-address-select mask length = (1 << len) - 1.                       *)
Control(len, condition) ==
  ((2^len - 1) * 2^5) | (condition * 2^3) | (2 * 2^1) | 1

(* PTRACE_GETREGSET into a zeroed struct user_hwdebug_state: the thread's  *)
(* entries, zero past the hardware's; on a thread that is not              *)
(* ptrace-stopped the call fails and the struct stays zero.                *)
GetRegSet(t, s) ==
  [i \in Regs |-> IF ks[t] = "stopped" /\ i < NumHw THEN dbg[t][s][i] ELSE DbgClear]

(* The loop over the 16 entries of a read set st that stops at the first   *)
(* one whose address is a (a = 0: the first free one); 16 when it runs off *)
(* the end.                                                                *)
FirstReg(st, a) ==
  LET found == {i \in Regs : st[i].addr = a}
  IN  IF found = {} THEN NumRegs ELSE Min(found)

(* PTRACE_SETREGSET of the whole set st: refused on a thread that is not   *)
(* ptrace-stopped, and when it programs an entry the hardware lacks.       *)
SetRegSet(t, s, st) ==
  IF ks[t] = "stopped" /\ \A i \in Regs \ HwRegs : st[i] = DbgClear
  THEN dbg' = [dbg EXCEPT ![t][s] = [i \in HwRegs |-> st[i]]]
  ELSE UNCHANGED dbg

(* The part of install_hardware_breakpoint after the GETREGSET into st,   *)
(* with the list entry's own update: an "x" entry's len becomes 4 once a   *)
(* free entry is found.  others is the rest of the list.                   *)
InstallFrom(bp, others, st) ==
  LET s == Command(bp)
      i == FirstReg(st, NoAddr)
      b == IF i < NumRegs /\ bp.type = "x" THEN [bp EXCEPT !.len = 4] ELSE bp
  IN  /\ hw_bps' = others \cup {b}
      /\ IF i = NumRegs
         THEN UNCHANGED dbg
         ELSE SetRegSet(bp.tid, s, [st EXCEPT ![i] =
                [addr |-> b.addr, ctrl |-> Control(b.len, get_breakpoint_type(b.type))]])

install_hardware_breakpoint(bp, others) ==
  InstallFrom(bp, others, GetRegSet(bp.tid, Command(bp)))

remove_hardware_breakpoint(bp) ==
  LET st == GetRegSet(bp.tid, Command(bp))
      i == FirstReg(st, bp.addr)
  IN  IF i = NumRegs THEN UNCHANGED dbg
      ELSE SetRegSet(bp.tid, Command(bp), [st EXCEPT ![i] = DbgClear])

is_breakpoint_hit(bp) ==
  /\ si[bp.tid].code = "TRAP_HWBKPT"
  /\ si[bp.tid].addr = bp.addr

(* Both counts return dbg_info & 0xff: the number of entries the hardware  *)
(* has, whatever is in them.                                               *)
get_remaining_hw_breakpoint_count(t) == NumHw
get_remaining_hw_watchpoint_count(t) == NumHw

get_hit_hw_breakpoint(t) ==
  LET hit == {b \in hw_bps : b.tid = t /\ is_breakpoint_hit(b)}
  IN  IF hit = {} THEN NoAddr ELSE (CHOOSE b \in hit : TRUE).addr

Entry(t, a) == {b \in hw_bps : b.tid = t /\ b.addr = a}

-----------------------------------------------------------------------------
Init ==
  /\ hw_bps = {}
  /\ dbg = [t \in Threads |-> [s \in Sets |-> [i \in HwRegs |-> DbgClear]]]
  /\ si = [t \in Threads |-> [code |-> "SIGNAL", addr |-> NoAddr]]
  /\ last_hit = [t \in Threads |-> NoHit]
  /\ ks = [t \in Threads |-> "stopped"]
  /\ pc = "idle"
  /\ todo = {}
  /\ cur = NoBp
  /\ buf = Zeroed

(* The list calls, made while every thread is stopped.  A duplicate       *)
(* (tid, addr) returns at once, changing nothing.                          *)
register_hw_breakpoint(t, a, k) ==
  /\ Entry(t, a) = {}
  /\ install_hardware_breakpoint(
       [addr |-> a, tid |-> t, enabled |-> TRUE, type |-> k.type, len |-> k.len], hw_bps)

unregister_hw_breakpoint(t, a) ==
  \E b \in Entry(t, a) :
    /\ hw_bps' = hw_bps \ {b}
    /\ IF b.enabled THEN remove_hardware_breakpoint(b) ELSE UNCHANGED dbg

(* Slip: install called whether or not the entry is already enabled.      *)
enable_hw_breakpoint_always(t, a) ==
  \E b \in Entry(t, a) :
    install_hardware_breakpoint([b EXCEPT !.enabled = TRUE], hw_bps \ {b})

enable_hw_breakpoint(t, a) ==
  \E b \in Entry(t, a) :
    IF ~b.enabled
    THEN install_hardware_breakpoint([b EXCEPT !.enabled = TRUE], hw_bps \ {b})
    ELSE UNCHANGED tableVars

disable_hw_breakpoint(t, a) ==
  \E b \in Entry(t, a) :
    /\ hw_bps' = (hw_bps \ {b}) \cup {[b EXCEPT !.enabled = FALSE]}
    /\ IF b.enabled THEN remove_hardware_breakpoint(b) ELSE UNCHANGED dbg

free_breakpoints ==
  /\ pc = "idle"
  /\ hw_bps' = {}
  /\ UNCHANGED <<dbg, si, last_hit, runVars>>

TableCalls ==
  /\ pc = "idle"
  /\ \E t \in Threads, a \in Addr :
       \/ \E k \in BpKinds : register_hw_breakpoint(t, a, k)
       \/ unregister_hw_breakpoint(t, a)
       \/ enable_hw_breakpoint(t, a)
       \/ disable_hw_breakpoint(t, a)
  /\ UNCHANGED <<si, last_hit, runVars>>

-----------------------------------------------------------------------------
(* prepare_for_run's AArch64 loop (cont_all_and_set_bps): for each thread, *)
(* the first enabled entry of that thread that is_breakpoint_hit reports   *)
(* is removed, the thread single-stepped and waited for, and the entry     *)
(* installed again.  Then every thread is resumed.                          *)
HitOf(t) == {b \in hw_bps : b.tid = t /\ b.enabled /\ is_breakpoint_hit(b)}

ContAll ==
  /\ pc = "idle"
  /\ pc' = "prepare"
  /\ todo' = Threads
  /\ UNCHANGED <<hw_bps, dbg, si, last_hit, ks, cur, buf>>

PrepareHit(t) ==
  /\ pc = "prepare"
  /\ t \in todo
  /\ \E b \in HitOf(t) :
       /\ remove_hardware_breakpoint(b)
       /\ ks' = [ks EXCEPT ![t] = "stepping"]
       /\ cur' = b
  /\ pc' = "prepare_wait"
  /\ UNCHANGED <<hw_bps, si, last_hit, todo, buf>>

PrepareNoHit(t) ==
  /\ pc = "prepare"
  /\ t \in todo
  /\ HitOf(t) = {}
  /\ todo' = todo \ {t}
  /\ UNCHANGED <<hw_bps, dbg, si, last_hit, ks, pc, cur, buf>>

(* waitpid(t->tid) returns once the step has stopped the thread.          *)
PrepareWait ==
  /\ pc = "prepare_wait"
  /\ ks[cur.tid] = "stopped"
  /\ install_hardware_breakpoint(cur, hw_bps \ {cur})
  /\ todo' = todo \ {cur.tid}
  /\ cur' = NoBp
  /\ pc' = "prepare"
  /\ UNCHANGED <<si, last_hit, ks, buf>>

ContinueAll ==
  /\ pc = "prepare"
  /\ todo = {}
  /\ ks' = [t \in Threads |-> "running"]
  /\ pc' = "running"
  /\ UNCHANGED <<hw_bps, dbg, si, last_hit, todo, cur, buf>>

(* singlestep on AArch64: when the thread is on an enabled entry that      *)
(* is_breakpoint_hit reports, remove it, PTRACE_SINGLESTEP, and call       *)
(* install_hardware_breakpoint at once, with no waitpid: its GETREGSET and *)
(* its SETREGSET each find the thread still stepping, or stopped again.    *)
SingleStep(t) ==
  /\ pc = "idle"
  /\ ks' = [ks EXCEPT ![t] = "stepping"]
  /\ IF HitOf(t) = {}
     THEN /\ pc' = "stepped"
          /\ UNCHANGED <<dbg, cur>>
     ELSE \E b \in HitOf(t) :
            /\ remove_hardware_breakpoint(b)
            /\ cur' = b
            /\ pc' = "ss_get"
  /\ UNCHANGED <<hw_bps, si, last_hit, todo, buf>>

SingleStepGet ==
  /\ pc = "ss_get"
  /\ buf' = GetRegSet(cur.tid, Command(cur))
  /\ pc' = "ss_set"
  /\ UNCHANGED <<hw_bps, dbg, si, last_hit, ks, todo, cur>>

SingleStepSet ==
  /\ pc = "ss_set"
  /\ InstallFrom(cur, hw_bps \ {cur}, buf)
  /\ buf' = Zeroed
  /\ cur' = NoBp
  /\ pc' = "stepped"
  /\ UNCHANGED <<si, last_hit, ks, todo>>

(* The caller's wait_all_and_update_regs after singlestep.                *)
WaitStepped ==
  /\ pc = "stepped"
  /\ \A t \in Threads : ks[t] = "stopped"
  /\ pc' = "idle"
  /\ UNCHANGED <<hw_bps, dbg, si, last_hit, ks, todo, cur, buf>>

-----------------------------------------------------------------------------
(* The CPU and the kernel.  A resumed thread stops on an enabled entry i   *)
(* of set s; si_addr is the instruction address for a breakpoint and, for  *)
(* a watchpoint, the accessed byte, anywhere in the range the              *)
(* byte-address-select mask covers.  wait_all_and_update_regs then stops  *)
(* the other threads with SIGSTOP.                                         *)
MaskLen(ctrl) ==
  LET mask == (ctrl \div 2^5) % 2^8
      ls == {l \in Lens : 2^l - 1 = mask}
  IN  IF ls = {} THEN 0 ELSE Min(ls)

Triggers(s, r) ==
  IF s = "NT_ARM_HW_BREAK" THEN {r.addr} ELSE r.addr..(r.addr + MaskLen(r.ctrl) - 1)

Armed(t, h) ==
  \E i \in HwRegs : dbg[t][h.set][i].addr = h.addr /\ dbg[t][h.set][i].ctrl % 2 = 1

StopWorld(t, code, x, hit) ==
  /\ si' = [u \in Threads |-> IF u = t THEN [code |-> code, addr |-> x]
                              ELSE [code |-> "SIGNAL", addr |-> NoAddr]]
  /\ last_hit' = [u \in Threads |-> IF u = t THEN hit ELSE NoHit]
  /\ ks' = [u \in Threads |-> "stopped"]
  /\ pc' = "idle"

HwTrap(t, s, i) ==
  LET r == dbg[t][s][i]
  IN  /\ pc = "running"
      /\ r.addr /= NoAddr
      /\ r.ctrl % 2 = 1
      /\ \E x \in Triggers(s, r) : StopWorld(t, "TRAP_HWBKPT", x, [set |-> s, addr |-> r.addr])
      /\ UNCHANGED <<hw_bps, dbg, todo, cur, buf>>

(* A brk instruction or a signal: si_addr is whatever address the stop     *)
(* reports (the brk, the fault).                                           *)
OtherStop(t, c, x) ==
  /\ pc = "running"
  /\ StopWorld(t, c, x, NoHit)
  /\ UNCHANGED <<hw_bps, dbg, todo, cur, buf>>

(* PTRACE_SINGLESTEP ends in a TRAP_TRACE stop, unless the thread stands   *)
(* on the access or instruction whose armed entry stopped it last: the     *)
(* exception is taken again before the instruction completes.             *)
StepDone(t) ==
  /\ ks[t] = "stepping"
  /\ ks' = [ks EXCEPT ![t] = "stopped"]
  /\ IF last_hit[t] /= NoHit /\ Armed(t, last_hit[t])
     THEN UNCHANGED <<si, last_hit>>
     ELSE /\ si' = [si EXCEPT ![t] = [code |-> "TRAP_TRACE", addr |-> NoAddr]]
          /\ last_hit' = [last_hit EXCEPT ![t] = NoHit]
  /\ UNCHANGED <<hw_bps, dbg, pc, todo, cur, buf>>

Tracee ==
  \E t \in Threads :
    \/ \E s \in Sets, i \in HwRegs : HwTrap(t, s, i)
    \/ \E c \in StopCodes \ {"TRAP_HWBKPT", "TRAP_TRACE"}, x \in Addr : OtherStop(t, c, x)
    \/ StepDone(t)

Prepare ==
  \/ ContAll \/ PrepareWait \/ ContinueAll
  \/ \E t \in Threads : PrepareHit(t) \/ PrepareNoHit(t)

SingleStepping ==
  \/ \E t \in Threads : SingleStep(t)
  \/ SingleStepGet \/ SingleStepSet \/ WaitStepped

(* The table used while the tracee is alive, without the final free; and   *)
(* the same without the caller's singlestep.                               *)
LiveSpec == Init /\ [][TableCalls \/ Prepare \/ SingleStepping \/ Tracee]_vars
TableSpec == Init /\ [][TableCalls \/ Prepare \/ Tracee]_vars

Next == TableCalls \/ Prepare \/ SingleStepping \/ free_breakpoints \/ Tracee
Spec == Init /\ [][Next]_vars

-----------------------------------------------------------------------------
(* Refinement: the list's breakpoints, and those the two register sets     *)
(* trap on, decoded from each entry's ctrl (enable bit 0, condition bits   *)
(* 3-4, byte-address-select mask bits 5-12).  The entry prepare_for_run    *)
(* has taken out for its step counts as armed: to the caller the step-over *)
(* is one internal step.                                                    *)
TypeOfCond(c) == CASE c = 0 -> "x" [] c = 1 -> "r" [] c = 2 -> "w" [] OTHER -> "rw"

WatchOf ==
  [t \in Threads |->
     {[addr |-> b.addr, type |-> b.type, len |-> b.len] : b \in {c \in hw_bps : c.tid = t}}]
Suspended(t) ==
  IF pc = "prepare_wait" /\ cur.tid = t
  THEN {[addr |-> cur.addr, type |-> cur.type, len |-> cur.len]}
  ELSE {}
ArmedOf ==
  [t \in Threads |->
     Suspended(t) \cup
     UNION {{[addr |-> dbg[t][s][i].addr,
              type |-> TypeOfCond((dbg[t][s][i].ctrl \div 2^3) % 2^2),
              len |-> MaskLen(dbg[t][s][i].ctrl)] :
               i \in {j \in HwRegs : dbg[t][s][j].addr /= NoAddr /\ dbg[t][s][j].ctrl % 2 = 1}} :
            s \in Sets}]

Abs == INSTANCE HwBreakpointsAbstract WITH watch <- WatchOf, armed <- ArmedOf

-----------------------------------------------------------------------------
TypeOK ==
  /\ hw_bps \subseteq HwBreakpoint
  /\ dbg \in [Threads -> [Sets -> [HwRegs -> DbgReg]]]
  /\ si \in [Threads -> [code: StopCodes, addr: Nat]]
  /\ last_hit \in [Threads -> [set: Sets, addr: Addr] \cup {NoHit}]
  /\ ks \in [Threads -> KStates]
  /\ pc \in PCs
  /\ todo \subseteq Threads
  /\ cur \in HwBreakpoint \cup {NoBp}
  /\ buf \in [Regs -> DbgReg]

(* Spec 8, invariant 4, on AArch64: whenever the caller may call in and    *)
(* while the tracee runs, an enabled entry has an entry of its register    *)
(* set (NT_ARM_HW_BREAK for "x", NT_ARM_HW_WATCH otherwise) programmed     *)
(* with its address and the control word its kind and length give; a      *)
(* disabled entry has none in either set.  It rests on prepare_for_run and *)
(* singlestep putting back what they take out for a step.                  *)
SlotForEveryEnabled ==
  pc \in {"idle", "running"} =>
    \A b \in hw_bps :
      IF b.enabled
      THEN \E i \in HwRegs :
             dbg[b.tid][Command(b)][i] =
               [addr |-> b.addr, ctrl |-> Control(b.len, get_breakpoint_type(b.type))]
      ELSE \A s \in Sets, i \in HwRegs : dbg[b.tid][s][i].addr /= b.addr

(* While the table is live, the register sets trap on exactly the enabled  *)
(* breakpoints of the list, and only table calls change that.              *)
HwSpec == Abs!Spec

(* prepare_for_run resumes no thread onto the instruction or access whose *)
(* armed entry stopped it last: it takes that entry out for a single-step  *)
(* first, or the thread traps again at once and never gets past it.        *)
ResumePastHit ==
  [][pc = "prepare" /\ pc' = "running" =>
       \A t \in Threads : last_hit[t] = NoHit \/ ~Armed(t, last_hit[t])]_vars
==============================================================================
