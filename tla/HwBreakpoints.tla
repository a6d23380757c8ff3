---------------------------- MODULE HwBreakpoints ----------------------------
(***************************************************************************)
(* The x86_64 hardware breakpoints of ptrace_cffi_source.c: the list       *)
(* state->hw_b_HEAD and, per thread, the debug registers the list drives   *)
(* through PTRACE_PEEKUSER/POKEUSER: DR0-DR3 (slot addresses), DR7 (per    *)
(* slot local-enable bit, condition and length fields) and DR6 (which      *)
(* slots fired).                                                           *)
(*                                                                         *)
(* DR7 is kept as its per-slot fields rather than as one 64-bit word; the  *)
(* code only ever reads, clears and ORs whole fields.  The list is kept as *)
(* a set: register_hw_breakpoint refuses a second entry for a (tid, addr)  *)
(* pair, every walk acts on that one entry, and get_hit_hw_breakpoint can  *)
(* match only the entry whose address is in the slot DR6 names, so the    *)
(* order of the list is never observable.                                  *)
(*                                                                         *)
(* The thread's runs are abstracted to how the last one ended: on a debug  *)
(* exception for an armed slot, on a single-step (also a debug exception), *)
(* or on anything else (an int3, a signal), which leaves DR6 as it was.    *)
(***************************************************************************)
EXTENDS Integers, FiniteSets, FiniteSetsExt

CONSTANTS
  Threads,    \* tids the caller places hardware breakpoints on
  Addr,       \* addresses it places them at (0 is the free-slot marker)
  BpKinds     \* the [type, len] pairs it passes (type is type[0])

NoAddr == 0
NumSlots == 4
Slots == 0..(NumSlots - 1)
Types == {"x", "w", "r"}
Lens == {1, 2, 4, 8}

ASSUME NoAddr \notin Addr /\ Addr \subseteq Nat
ASSUME BpKinds \subseteq [type: Types, len: Lens]

VARIABLES
  hw_bps,     \* state->hw_b_HEAD
  dr,         \* dr[t][i]: DRi of thread t
  dr7,        \* dr7[t][i]: slot i's fields of DR7 of thread t
  dr6,        \* dr6[t]: the B0-B3 bits of DR6 of thread t, as a set of slots
  last_hit    \* history: address whose slot caused t's last stop, or NoAddr

vars == <<hw_bps, dr, dr7, dr6, last_hit>>

HwBreakpoint == [addr: Addr, tid: Threads, enabled: BOOLEAN, type: Types, len: Lens]
Dr7Slot == [l: 0..1, rw: 0..3, len: 0..3]
Dr7Clear == [l |-> 0, rw |-> 0, len |-> 0]

CTRL_COND_VAL(type) == CASE type = "x" -> 0 [] type = "w" -> 1 [] OTHER -> 3
CTRL_LEN_VAL(len) == CASE len = 1 -> 0 [] len = 2 -> 1 [] len = 8 -> 2 [] OTHER -> 3

(* Slip: the slot loop bounded by i < 3, so DR3 is never searched.        *)
FirstSlotShort(t, a) ==
  LET found == {i \in 0..(NumSlots - 2) : dr[t][i] = a}
  IN  IF found = {} THEN NumSlots ELSE Min(found)

(* The loop over DR0..DR3 that stops at the first slot holding address a  *)
(* (a = 0: the first free slot); NumSlots when it runs off the end.        *)
FirstSlot(t, a) ==
  LET found == {i \in Slots : dr[t][i] = a}
  IN  IF found = {} THEN NumSlots ELSE Min(found)

(* Slip: DR7 updated with += instead of |=.                               *)
Dr7InstallAdd(f, bp) ==
  [f EXCEPT !.l = @ + 1, !.rw = CTRL_COND_VAL(bp.type), !.len = CTRL_LEN_VAL(bp.len)]

(* install: condition and length fields cleared, then CTRL_LOCAL,          *)
(* condition and length OR-ed in.                                          *)
Dr7Install(f, bp) ==
  [f EXCEPT !.l = 1, !.rw = CTRL_COND_VAL(bp.type), !.len = CTRL_LEN_VAL(bp.len)]

(* remove: condition and length fields cleared; the local-enable bit is    *)
(* left as it was.                                                         *)
Dr7Remove(f) == [f EXCEPT !.rw = 0, !.len = 0]

install_hardware_breakpoint(bp) ==
  LET t == bp.tid
      i == FirstSlot(t, NoAddr)
  IN  IF i = NumSlots
      THEN UNCHANGED <<dr, dr7>>
      ELSE /\ dr' = [dr EXCEPT ![t][i] = bp.addr]
           /\ dr7' = [dr7 EXCEPT ![t][i] = Dr7Install(@, bp)]

remove_hardware_breakpoint(bp) ==
  LET t == bp.tid
      i == FirstSlot(t, bp.addr)
  IN  IF i = NumSlots
      THEN UNCHANGED <<dr, dr7>>
      ELSE /\ dr7' = [dr7 EXCEPT ![t][i] = Dr7Remove(@)]
           /\ dr' = [dr EXCEPT ![t][i] = NoAddr]

(* The lowest set bit of DR6 names the slot; its address must be bp's.    *)
is_breakpoint_hit(bp) ==
  /\ dr6[bp.tid] /= {}
  /\ dr[bp.tid][Min(dr6[bp.tid])] = bp.addr

get_remaining_hw_breakpoint_count(t) == NumSlots - FirstSlot(t, NoAddr)

get_hit_hw_breakpoint(t) ==
  LET hit == {b \in hw_bps : b.tid = t /\ is_breakpoint_hit(b)}
  IN  IF hit = {} THEN NoAddr ELSE (CHOOSE b \in hit : TRUE).addr

Entry(t, a) == {b \in hw_bps : b.tid = t /\ b.addr = a}

-----------------------------------------------------------------------------
Init ==
  /\ hw_bps = {}
  /\ dr = [t \in Threads |-> [i \in Slots |-> NoAddr]]
  /\ dr7 = [t \in Threads |-> [i \in Slots |-> Dr7Clear]]
  /\ dr6 = [t \in Threads |-> {}]
  /\ last_hit = [t \in Threads |-> NoAddr]

(* A duplicate (tid, addr) returns at once, changing nothing.              *)
register_hw_breakpoint(t, a, k) ==
  /\ Entry(t, a) = {}
  /\ LET bp == [addr |-> a, tid |-> t, enabled |-> TRUE, type |-> k.type, len |-> k.len]
     IN  /\ hw_bps' = hw_bps \cup {bp}
         /\ install_hardware_breakpoint(bp)
  /\ UNCHANGED <<dr6, last_hit>>

(* Slip: the entry unlinked without remove_hardware_breakpoint.          *)
unregister_hw_breakpoint_keep_slot(t, a) ==
  /\ \E b \in Entry(t, a) :
       /\ hw_bps' = hw_bps \ {b}
       /\ UNCHANGED <<dr, dr7>>
  /\ UNCHANGED <<dr6, last_hit>>

unregister_hw_breakpoint(t, a) ==
  /\ \E b \in Entry(t, a) :
       /\ hw_bps' = hw_bps \ {b}
       /\ IF b.enabled THEN remove_hardware_breakpoint(b) ELSE UNCHANGED <<dr, dr7>>
  /\ UNCHANGED <<dr6, last_hit>>

(* Slip: install called whether or not the entry is already enabled.      *)
enable_hw_breakpoint_always(t, a) ==
  /\ \E b \in Entry(t, a) :
       /\ hw_bps' = (hw_bps \ {b}) \cup {[b EXCEPT !.enabled = TRUE]}
       /\ install_hardware_breakpoint(b)
  /\ UNCHANGED <<dr6, last_hit>>

enable_hw_breakpoint(t, a) ==
  /\ \E b \in Entry(t, a) :
       /\ hw_bps' = (hw_bps \ {b}) \cup {[b EXCEPT !.enabled = TRUE]}
       /\ IF ~b.enabled THEN install_hardware_breakpoint(b) ELSE UNCHANGED <<dr, dr7>>
  /\ UNCHANGED <<dr6, last_hit>>

disable_hw_breakpoint(t, a) ==
  /\ \E b \in Entry(t, a) :
       /\ hw_bps' = (hw_bps \ {b}) \cup {[b EXCEPT !.enabled = FALSE]}
       /\ IF b.enabled THEN remove_hardware_breakpoint(b) ELSE UNCHANGED <<dr, dr7>>
  /\ UNCHANGED <<dr6, last_hit>>

(* The hardware half of free_breakpoints: the list is freed; the debug     *)
(* registers are not touched.                                              *)
free_breakpoints ==
  /\ hw_bps' = {}
  /\ UNCHANGED <<dr, dr7, dr6, last_hit>>

-----------------------------------------------------------------------------
(* The CPU and the kernel: how thread t's last run ended.  A debug         *)
(* exception rewrites the thread's DR6 (its virtual DR6 in Linux); an int3 *)
(* or a signal does not.                                                   *)
DebugTrap(t, i) ==
  /\ dr[t][i] /= NoAddr
  /\ dr7[t][i].l = 1
  /\ dr6' = [dr6 EXCEPT ![t] = {i}]
  /\ last_hit' = [last_hit EXCEPT ![t] = dr[t][i]]
  /\ UNCHANGED <<hw_bps, dr, dr7>>

StepTrap(t) ==
  /\ dr6' = [dr6 EXCEPT ![t] = {}]
  /\ last_hit' = [last_hit EXCEPT ![t] = NoAddr]
  /\ UNCHANGED <<hw_bps, dr, dr7>>

OtherStop(t) ==
  /\ last_hit' = [last_hit EXCEPT ![t] = NoAddr]
  /\ UNCHANGED <<hw_bps, dr, dr7, dr6>>

Tracee ==
  \E t \in Threads : StepTrap(t) \/ OtherStop(t) \/ \E i \in Slots : DebugTrap(t, i)

TableCalls ==
  \E t \in Threads, a \in Addr :
    \/ \E k \in BpKinds : register_hw_breakpoint(t, a, k)
    \/ unregister_hw_breakpoint(t, a)
    \/ enable_hw_breakpoint(t, a)
    \/ disable_hw_breakpoint(t, a)

Next == TableCalls \/ free_breakpoints \/ Tracee
Spec == Init /\ [][Next]_vars

(* The table used while the tracee is alive, without the final free.       *)
TableSpec == Init /\ [][TableCalls \/ Tracee]_vars

-----------------------------------------------------------------------------
(* Refinement: the breakpoints the list holds, and those the debug         *)
(* registers trap on, read back from DR0-DR3 and DR7.                      *)
TypeOf(rw) == CASE rw = 0 -> "x" [] rw = 1 -> "w" [] OTHER -> "r"
LenOf(code) == CASE code = 0 -> 1 [] code = 1 -> 2 [] code = 2 -> 8 [] OTHER -> 4

WatchOf ==
  [t \in Threads |->
     {[addr |-> b.addr, type |-> b.type, len |-> b.len] : b \in {c \in hw_bps : c.tid = t}}]
ArmedOf ==
  [t \in Threads |->
     {[addr |-> dr[t][i], type |-> TypeOf(dr7[t][i].rw), len |-> LenOf(dr7[t][i].len)] :
        i \in {j \in Slots : dr[t][j] /= NoAddr /\ dr7[t][j].l = 1}}]

Abs == INSTANCE HwBreakpointsAbstract WITH watch <- WatchOf, armed <- ArmedOf

-----------------------------------------------------------------------------
TypeOK ==
  /\ hw_bps \subseteq HwBreakpoint
  /\ dr \in [Threads -> [Slots -> Addr \cup {NoAddr}]]
  /\ dr7 \in [Threads -> [Slots -> Dr7Slot]]
  /\ dr6 \in [Threads -> SUBSET Slots]
  /\ last_hit \in [Threads -> Addr \cup {NoAddr}]

(* Spec 8, invariant 4: an enabled entry has a slot programmed with its   *)
(* address, kind and length; a disabled entry has none.  It rests on the  *)
(* enable/disable guards of the list walks and on install and remove     *)
(* finding the same slot.                                                 *)
SlotForEveryEnabled ==
  \A b \in hw_bps :
    LET mine == {i \in Slots : dr[b.tid][i] = b.addr}
    IN  IF b.enabled
        THEN \E i \in mine : dr7[b.tid][i] = [l |-> 1, rw |-> CTRL_COND_VAL(b.type),
                                              len |-> CTRL_LEN_VAL(b.len)]
        ELSE mine = {}

(* While the table is live, the debug registers trap on exactly the       *)
(* enabled breakpoints of the list, and only table calls change that.     *)
HwSpec == Abs!Spec

(* get_hit_hw_breakpoint names the breakpoint that stopped the thread      *)
(* (spec 8 scenario 5), never one that did not fire for this stop.         *)
HitIsCurrent ==
  \A t \in Threads :
    get_hit_hw_breakpoint(t) /= NoAddr => get_hit_hw_breakpoint(t) = last_hit[t]
==============================================================================
