------------------------- MODULE HwBreakpointsAbstract ------------------------
(***************************************************************************)
(* What the hardware-breakpoint table promises its caller, with no debug   *)
(* registers in sight: per thread, the breakpoints registered (watch) and  *)
(* those the CPU currently traps on (armed).  A registration is an address *)
(* with the kind and length the caller asked for.                          *)
(***************************************************************************)
CONSTANTS Threads, Addr, BpKinds

VARIABLES watch, armed

Watchpoint == [addr: Addr, type: {"x", "w", "r"}, len: {1, 2, 4, 8}]

AddrsOf(s) == {w.addr : w \in s}
Without(s, a) == {w \in s : w.addr /= a}

Init ==
  /\ watch = [t \in Threads |-> {}]
  /\ armed = [t \in Threads |-> {}]

(* A new address is registered and armed at once; a second registration   *)
(* of an address the thread already has changes nothing.                  *)
Register(t, a, k) ==
  /\ a \notin AddrsOf(watch[t])
  /\ watch' = [watch EXCEPT ![t] = @ \cup {[addr |-> a, type |-> k.type, len |-> k.len]}]
  /\ armed' = [armed EXCEPT ![t] = @ \cup {[addr |-> a, type |-> k.type, len |-> k.len]}]

Unregister(t, a) ==
  /\ a \in AddrsOf(watch[t])
  /\ watch' = [watch EXCEPT ![t] = Without(@, a)]
  /\ armed' = [armed EXCEPT ![t] = Without(@, a)]

Enable(t, a) ==
  /\ armed' = [armed EXCEPT ![t] = @ \cup {w \in watch[t] : w.addr = a}]
  /\ UNCHANGED watch

Disable(t, a) ==
  /\ armed' = [armed EXCEPT ![t] = Without(@, a)]
  /\ UNCHANGED watch

(* Releasing the table releases every breakpoint in it.                    *)
Free ==
  /\ watch' = [t \in Threads |-> {}]
  /\ armed' = [t \in Threads |-> {}]

Next ==
  \/ \E t \in Threads, a \in Addr, k \in BpKinds : Register(t, a, k)
  \/ \E t \in Threads, a \in Addr :
       Unregister(t, a) \/ Enable(t, a) \/ Disable(t, a)
  \/ Free

Spec == Init /\ [][Next]_<<watch, armed>>

(* Only registered breakpoints trap.                                       *)
ArmedRegistered == \A t \in Threads : armed[t] \subseteq watch[t]
==============================================================================
