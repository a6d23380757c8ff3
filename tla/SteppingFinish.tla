--------------------------- MODULE SteppingFinish ---------------------------
(***************************************************************************)
(* stepping_finish of ptrace_cffi_source.c: step one thread out of the    *)
(* function it is in.  prepare_for_run (flush, step over a breakpoint at  *)
(* the IP with the 4991 retry, re-patch) runs first; then the thread is   *)
(* single-stepped, and after each step the opcode at the new IP moves a   *)
(* nesting counter seeded at 1: up on a call, down on a ret.  At zero the *)
(* thread stands on the ret that leaves the function and one more step    *)
(* takes it.  An unchanged IP or a trap byte at the new IP ends the loop  *)
(* early.  Every path ends in cleanup, which writes each enabled          *)
(* breakpoint's original word back.                                       *)
(*                                                                         *)
(* Only the stepped thread is modelled.  prepare_for_run also flushes and *)
(* steps over the other threads, which stay stopped and do not run while  *)
(* this thread is stepped.                                                *)
(*                                                                         *)
(* The tracee's program is a constant: one instruction per address, each  *)
(* a nop, a jmp, a call or a ret, with the call stack of return addresses *)
(* kept by the kernel side of the model.  A trap byte executed by a       *)
(* single-step behaves as x86_64 int3: the IP moves past it and the       *)
(* instruction it covers is not executed.                                 *)
(***************************************************************************)
EXTENDS Integers, Sequences, SequencesExt

CONSTANTS
  NumCode,    \* number of code addresses
  Insn,       \* Insn[a]: [op |-> "nop" | "jmp" | "call" | "ret", to |-> target]
  Entry,      \* address the thread starts executing at
  BpAddr      \* addresses that may carry a software breakpoint

CodeAddr == 0..(NumCode - 1)
Ops == {"nop", "jmp", "call", "ret"}

ASSUME Insn \in [CodeAddr -> [op: Ops, to: CodeAddr]] /\ Entry \in CodeAddr
ASSUME \A a \in BpAddr : a + 1 \in CodeAddr

VARIABLES
  mem, bps,   \* code image and software-breakpoint list (SwBreakpoints)
  ks,         \* kernel state of the thread: "stopped" or "stepping"
  kip,        \* instruction pointer the kernel holds
  stack,      \* return addresses on the tracee's stack, innermost first
  pendstop,   \* a SIGSTOP left queued by wait_all_and_update_regs
  wstatus,    \* stop status not yet collected by waitpid
  regs,       \* cached instruction pointer in stepping_thread->regs
  pc,         \* where the core is
  counter,    \* nested_call_counter
  entry,      \* history: the call stack when stepping_finish was entered
  plain       \* history: it was entered on an ordinary instruction, with no
              \* breakpoint listed at the IP and no SIGSTOP queued

SW == INSTANCE SwBreakpoints WITH MemAddr <- CodeAddr, WordLen <- 1
Code == SW!Code
Trap == SW!Trap

vars == <<mem, bps, ks, kip, stack, pendstop, wstatus, regs, pc, counter, entry, plain>>

NoStatus == "none"
SigTrap == "SIGTRAP"
SigStop == "SIGSTOP"
PCs == {"idle", "prepare_wait", "prepare_retry", "step_wait", "last_wait"}

(* One instruction of the program, executed from state s = [ip, stack].   *)
Exec(s) ==
  CASE Insn[s.ip].op = "nop"  -> [s EXCEPT !.ip = s.ip + 1]
    [] Insn[s.ip].op = "jmp"  -> [s EXCEPT !.ip = Insn[s.ip].to]
    [] Insn[s.ip].op = "call" -> [ip |-> Insn[s.ip].to, stack |-> <<s.ip + 1>> \o s.stack]
    [] Insn[s.ip].op = "ret"  -> [ip |-> Head(s.stack), stack |-> Tail(s.stack)]

(* The [ip, stack] states the program reaches from its entry point.       *)
RECURSIVE Closure(_)
Closure(S) ==
  LET S2 == S \cup {Exec(s) : s \in S}
  IN  IF S2 = S THEN S ELSE Closure(S2)
Frames == Closure({[ip |-> Entry, stack |-> <<>>]})

(* The sorted list register_breakpoint builds for the addresses S, with   *)
(* the words it saved from unpatched code.                               *)
OrigWord == [o \in {0} |-> Code]
BpList(S, en) ==
  LET as == SetToSortSeq(S, <)
  IN  [i \in 1..Len(as) |->
         [addr |-> as[i], instruction |-> OrigWord,
          patched_instruction |-> SW!INSTALL_BREAKPOINT(OrigWord),
          enabled |-> en[as[i]]]]

(* The first byte of the word PTRACE_PEEKDATA reads at a, as an opcode.   *)
OpAt(a) == IF mem[a] = Trap THEN "int3" ELSE Insn[a].op

(* The state wait_all_and_update_regs leaves: the thread stopped with its *)
(* registers cached, enabled breakpoints restored, disabled ones still    *)
(* patched (restore skips them), and possibly a SIGSTOP that raced the    *)
(* thread's own stop still queued.  An enabled breakpoint registered      *)
(* since then is patched too: register_breakpoint pokes the trap at once. *)
Init ==
  /\ \E f \in Frames : kip = f.ip /\ stack = f.stack
  /\ \E S \in SUBSET BpAddr, en \in [BpAddr -> BOOLEAN], fresh \in SUBSET BpAddr :
       /\ bps = BpList(S, en)
       /\ mem = [a \in CodeAddr |-> IF a \in S /\ (~en[a] \/ a \in fresh) THEN Trap ELSE Code]
  /\ ks = "stopped"
  /\ pendstop \in {"none", "queued"}
  /\ wstatus = NoStatus
  /\ regs = kip
  /\ pc = "idle"
  /\ counter = 0
  /\ entry = <<>>
  /\ plain = FALSE

-----------------------------------------------------------------------------
(* The kernel.  PTRACE_SINGLESTEP with no signal pending executes one     *)
(* instruction and stops with SIGTRAP; a queued SIGSTOP is delivered in   *)
(* its place and the thread does not move.                               *)
StepInstruction ==
  LET s == IF mem[kip] = Trap
           THEN [ip |-> kip + 1, stack |-> stack]
           ELSE Exec([ip |-> kip, stack |-> stack])
  IN  /\ ks = "stepping"
      /\ pendstop = "none"
      /\ kip' = s.ip
      /\ stack' = s.stack
      /\ ks' = "stopped"
      /\ wstatus' = SigTrap
      /\ UNCHANGED <<mem, bps, pendstop, regs, pc, counter, entry, plain>>

DeliverSigstop ==
  /\ ks = "stepping"
  /\ pendstop = "queued"
  /\ ks' = "stopped"
  /\ wstatus' = SigStop
  /\ pendstop' = "none"
  /\ UNCHANGED <<mem, bps, kip, stack, regs, pc, counter, entry, plain>>

-----------------------------------------------------------------------------
(* Slip: the counter seeded at 0 instead of 1.                           *)
BeginLoopSeedZero ==
  /\ mem' = SW!PatchAll(mem, bps)
  /\ counter' = 0
  /\ ks' = "stepping"
  /\ pc' = "step_wait"

(* End of prepare_for_run (re-patch every enabled breakpoint), then the   *)
(* seed of the counter and the first PTRACE_SINGLESTEP of the loop.      *)
BeginLoop ==
  /\ mem' = SW!PatchAll(mem, bps)
  /\ counter' = 1
  /\ ks' = "stepping"
  /\ pc' = "step_wait"

(* stepping_finish(tid): prepare_for_run flushes the cached registers and *)
(* single-steps the thread if its IP is the address of a listed breakpoint. *)
stepping_finish ==
  /\ pc = "idle"
  /\ kip' = regs
  /\ entry' = stack
  /\ plain' = (Insn[regs].op \in {"nop", "jmp"} /\ regs \notin SW!BpAddrs(bps)
               /\ pendstop = "none")
  /\ IF regs \in SW!BpAddrs(bps)
     THEN /\ ks' = "stepping"
          /\ pc' = "prepare_wait"
          /\ UNCHANGED <<mem, counter>>
     ELSE BeginLoop
  /\ UNCHANGED <<bps, stack, pendstop, wstatus, regs>>

(* prepare_for_run's waitpid after the step-over; a SIGSTOP (4991) is     *)
(* answered with one more step and wait.  Registers are not re-read.     *)
PrepareWait ==
  /\ pc \in {"prepare_wait", "prepare_retry"}
  /\ wstatus /= NoStatus
  /\ wstatus' = NoStatus
  /\ IF pc = "prepare_wait" /\ wstatus = SigStop
     THEN /\ ks' = "stepping"
          /\ pc' = "prepare_retry"
          /\ UNCHANGED <<mem, counter>>
     ELSE BeginLoop
  /\ UNCHANGED <<bps, kip, stack, pendstop, regs, entry, plain>>

(* cleanup: write back the original word of every enabled breakpoint.    *)
Cleanup ==
  /\ mem' = SW!RestoreAll(mem, bps)
  /\ pc' = "idle"
  /\ counter' = 0

(* waitpid, then previous_ip from the cache, getregs, and the opcode at   *)
(* the new IP: an unchanged IP or a trap byte goes to cleanup.            *)
StepWaitAbort ==
  /\ pc = "step_wait"
  /\ wstatus /= NoStatus
  /\ wstatus' = NoStatus
  /\ regs' = kip
  /\ kip = regs \/ OpAt(kip) = "int3"
  /\ Cleanup
  /\ UNCHANGED <<bps, ks, kip, stack, pendstop, entry, plain>>

(* Slip: the last PTRACE_SINGLESTEP left out before its waitpid.        *)
StepWaitNextNoLastStep ==
  LET c == counter + (IF OpAt(kip) = "call" THEN 1
                      ELSE IF OpAt(kip) = "ret" THEN -1 ELSE 0)
  IN  /\ pc = "step_wait"
      /\ wstatus /= NoStatus
      /\ wstatus' = NoStatus
      /\ regs' = kip
      /\ kip /= regs /\ OpAt(kip) /= "int3"
      /\ counter' = c
      /\ ks' = IF c > 0 THEN "stepping" ELSE ks
      /\ pc' = IF c > 0 THEN "step_wait" ELSE "last_wait"
      /\ UNCHANGED <<mem, bps, kip, stack, pendstop, entry, plain>>

(* Slip: the loop runs while the counter is not negative.               *)
StepWaitNextWhileNonNeg ==
  LET c == counter + (IF OpAt(kip) = "call" THEN 1
                      ELSE IF OpAt(kip) = "ret" THEN -1 ELSE 0)
  IN  /\ pc = "step_wait"
      /\ wstatus /= NoStatus
      /\ wstatus' = NoStatus
      /\ regs' = kip
      /\ kip /= regs /\ OpAt(kip) /= "int3"
      /\ counter' = c
      /\ ks' = "stepping"
      /\ pc' = IF c >= 0 THEN "step_wait" ELSE "last_wait"
      /\ UNCHANGED <<mem, bps, kip, stack, pendstop, entry, plain>>

(* Otherwise the counter moves on a call or a ret, and while it is        *)
(* positive the thread is stepped again; at zero the last step follows.   *)
StepWaitNext ==
  LET c == counter + (IF OpAt(kip) = "call" THEN 1
                      ELSE IF OpAt(kip) = "ret" THEN -1 ELSE 0)
  IN  /\ pc = "step_wait"
      /\ wstatus /= NoStatus
      /\ wstatus' = NoStatus
      /\ regs' = kip
      /\ kip /= regs /\ OpAt(kip) /= "int3"
      /\ counter' = c
      /\ ks' = "stepping"
      /\ pc' = IF c > 0 THEN "step_wait" ELSE "last_wait"
      /\ UNCHANGED <<mem, bps, kip, stack, pendstop, entry, plain>>

(* The last step's waitpid and getregs, then cleanup.                    *)
LastWait ==
  /\ pc = "last_wait"
  /\ wstatus /= NoStatus
  /\ wstatus' = NoStatus
  /\ regs' = kip
  /\ Cleanup
  /\ UNCHANGED <<bps, ks, kip, stack, pendstop, entry, plain>>

Next ==
  \/ StepInstruction \/ DeliverSigstop
  \/ stepping_finish \/ PrepareWait
  \/ StepWaitAbort \/ StepWaitNext \/ LastWait

(* The kernel runs a stepped thread and delivers a queued signal; the    *)
(* core, once called, does not stop part way.  The caller need not call.  *)
Spec ==
  /\ Init /\ [][Next]_vars
  /\ WF_vars(StepInstruction \/ DeliverSigstop)
  /\ WF_vars(PrepareWait \/ StepWaitAbort \/ StepWaitNext \/ LastWait)

-----------------------------------------------------------------------------
TypeOK ==
  /\ SW!TypeOK
  /\ ks \in {"stopped", "stepping"}
  /\ kip \in CodeAddr /\ regs \in CodeAddr
  /\ stack \in Seq(CodeAddr) /\ entry \in Seq(CodeAddr)
  /\ pendstop \in {"none", "queued"}
  /\ wstatus \in {NoStatus, SigTrap, SigStop}
  /\ pc \in PCs
  /\ counter \in Nat
  /\ plain \in BOOLEAN

Returns == pc /= "idle" /\ pc' = "idle"

(* stepping_finish started on an ordinary instruction, with no breakpoint *)
(* to step over and no SIGSTOP queued, from inside a called function,     *)
(* leaves that function: it returns one frame out, at the return address, *)
(* unless it stopped on a breakpoint in between.  The counting has to be  *)
(* right across nested calls, breakpoints in callees and at the return    *)
(* address.                                                               *)
PlainFinishLeavesFrame ==
  [][Returns /\ plain /\ entry /= <<>> =>
       \/ kip' \in SW!BpAddrs(bps)
       \/ stack' = Tail(entry) /\ kip' = Head(entry)]_vars

(* Such a stepping_finish returns: the counter reaches zero or the loop   *)
(* ends early; it does not step the thread for ever.                      *)
PlainFinishReturns ==
  (pc /= "idle" /\ plain /\ entry /= <<>>) ~> pc = "idle"

(* Spec 4.4, stepping_finish: "step out of the current call".  When it    *)
(* returns from a call made inside a function, the thread either stands   *)
(* on a breakpoint that got in the way (the caller resolves it), or it    *)
(* has left that function: one frame fewer, at the frame's return address. *)
FinishLeavesFrame ==
  [][Returns /\ entry /= <<>> =>
       \/ kip' \in SW!BpAddrs(bps)
       \/ stack' = Tail(entry) /\ kip' = Head(entry)]_vars
=============================================================================
