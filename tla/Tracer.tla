------------------------------- MODULE Tracer -------------------------------
(***************************************************************************)
(* The run/stop coordinator of ptrace_cffi_source.c (prepare_for_run,      *)
(* cont_all_and_set_bps, wait_all_and_update_regs, ptrace_detach_and_cont) *)
(* composed with the software-breakpoint table and with the kernel's view  *)
(* of the tracee's threads.                                                *)
(*                                                                         *)
(* The core is one sequential caller; pc says where it is inside an entry  *)
(* point.  Every blocking waitpid is a point where the tracee's threads,   *)
(* which the kernel runs in parallel, may take steps.  Each thread runs a  *)
(* loop over the code addresses 0..NumCode-1, one byte per instruction.    *)
(* A trap byte stops the thread at that address with SIGTRAP (the AArch64  *)
(* BRK convention; on x86_64 the caller rewinds rip by one first).         *)
(***************************************************************************)
EXTENDS Integers, Sequences, SequencesExt

CONSTANTS
  ThreadList, \* state->t_HEAD at attach: threads, head first, main thread last
  NumCode,    \* number of code addresses the threads execute
  WordLen,    \* bytes per PTRACE_PEEKDATA word
  BpAddr,     \* addresses the caller may place software breakpoints at
  MaxSteps,   \* values of step_until's max_steps the caller passes
  ExitAddr,   \* address of a thread-exit system call in the threads' code
  MaxSignals, \* signals other processes send the tracee's threads, in all
  SigTargets, \* threads those signals are sent to
  NoThread    \* a model value: no thread id

Threads == ToSet(ThreadList)
Main == Last(ThreadList)
CodeAddr == 0..(NumCode - 1)
MemAddr == 0..(NumCode + WordLen - 2)

ASSUME ThreadList /= <<>> /\ IsInjective(ThreadList)
ASSUME MaxSteps \subseteq {-1} \cup Nat
ASSUME NumCode \in Nat \ {0} /\ BpAddr \subseteq CodeAddr /\ NoThread \notin Threads
ASSUME ExitAddr \in CodeAddr /\ MaxSignals \in Nat /\ SigTargets \subseteq Threads

VARIABLES
  mem, bps,   \* code image and software-breakpoint list (SwBreakpoints)
  ks,         \* ks[t]: kernel state of thread t
  kip,        \* kip[t]: instruction pointer the kernel holds for t
  pendstop,   \* pendstop[t]: SIGSTOP sent by tgkill and not yet delivered
  wstatus,    \* wstatus[t]: stop status of t not yet collected by waitpid
  regs,       \* regs[t]: cached instruction pointer in t->regs
  pc,         \* where the core is
  idx,        \* position in live of the current per-thread loop
  primary,    \* head->tid: thread of the first status wait_all collected
  status,     \* prepare_for_run's local status
  su,         \* step_until's locals: [tid, addr, max_steps, count]
  live,       \* state->t_HEAD: the live thread list, head first
  dead,       \* state->dead_t_HEAD: unregistered threads, head first
  told,       \* threads whose exit status wait_all_and_update_regs returned
  pendsig,    \* pendsig[t]: a signal (SIGUSR1) sent to t and not yet dequeued
  fwd,        \* fwd[t]: t->signal_to_forward
  sigtold,    \* threads whose SIGUSR1 stop wait_all_and_update_regs returned
  raised,     \* raised[t], auxiliary: signals sent to t so far
  reported,   \* reported[t], auxiliary: SIGUSR1 stops of t handed to the caller
  handled,    \* handled[t], auxiliary: signals delivered to t's handler
  dying       \* threads that reached the exit event (PTRACE_O_TRACEEXIT)

SW == INSTANCE SwBreakpoints
Code == SW!Code
Trap == SW!Trap

kernelVars == <<ks, kip, pendstop, wstatus, dying>>
coreVars == <<regs, pc, idx, primary, status, su>>
tableVars == <<live, dead, told>>
sigVars == <<pendsig, fwd, sigtold, raised, reported, handled>>
vars == <<mem, bps, kernelVars, coreVars, tableVars, sigVars>>

(* Kernel thread states: ptrace-stopped, resumed by PTRACE_CONT, resumed   *)
(* by PTRACE_SINGLESTEP, resumed and blocked in a system call, detached   *)
(* and running untraced, killed, and exited (a zombie until waitpid       *)
(* collects its status, then gone).                                        *)
KStates == {"stopped", "running", "blocked", "stepping", "free", "killed", "exited"}
(* A traced thread that PTRACE_CONT resumed: executing, or blocked.       *)
Resumed == {"running", "blocked"}
(* A SIGSTOP is "sent" while the thread runs and may race its next        *)
(* instructions; it is "queued" when the thread stopped for another reason *)
(* first, and is then delivered before any instruction on resume.          *)
Pending == {"none", "sent", "queued"}
NoStatus == "none"
SigTrap == "SIGTRAP"
SigStop == "SIGSTOP"     \* the raw status 4991 of prepare_for_run
Exited == "EXIT"
ExitStop == "EVENT_EXIT"  \* SIGTRAP | PTRACE_EVENT_EXIT << 8, before the exit
SigUsr == "SIGUSR1"      \* a signal of the program's own, to be forwarded
Statuses == {NoStatus, SigTrap, SigStop, Exited, ExitStop, SigUsr}
NoSignal == 0            \* signal_to_forward when there is none
SIGUSR1 == 10            \* its number, as signal_to_forward holds it
Failed == "-1"           \* prepare_for_run's result when a step-over fails
PCs == {"idle", "prepare", "prepare_wait", "prepare_retry", "running", "stepped",
        "wait_others", "wait_one", "detach", "detach_wait", "detached",
        "step_until", "step_until_wait", "kill", "kill_wait", "killed"}

Succ(a) == (a + 1) % NumCode
(* A signal racing the thread stays pending when it stops for another     *)
(* reason, and is then dequeued before any instruction on resume.        *)
Queue(p) == IF p = "sent" THEN "queued" ELSE p
(* The locals of an entry point exist only while it runs; between calls   *)
(* the model gives them fixed values.                                     *)
NoStepUntil == [tid |-> NoThread, addr |-> 0, max_steps |-> 0, count |-> 0]
Cur == live[idx]
Live == ToSet(live)
(* setregs succeeds on a ptrace-stopped thread and fails on any other.    *)
Flush == [t \in Threads |-> IF ks[t] = "stopped" THEN regs[t] ELSE kip[t]]
(* PTRACE_CONT of every live thread with its signal_to_forward; it fails  *)
(* on a thread that is gone.  A stopped thread given the signal runs its    *)
(* handler.  Every live thread's signal_to_forward is then cleared.         *)
Resume == [t \in Threads |-> IF ks[t] = "stopped" THEN "running" ELSE ks[t]]
Forwarded(t) == ks[t] = "stopped" /\ fwd[t] = SIGUSR1
Deliver == [t \in Threads |-> IF Forwarded(t) /\ t \in Live THEN handled[t] + 1 ELSE handled[t]]
ClearFwd == [t \in Threads |-> IF t \in Live THEN NoSignal ELSE fwd[t]]
(* Statuses a waitpid hands back: the threads that exited and the signal  *)
(* stops are recorded for the caller.                                      *)
Told(t, st) == IF st = Exited THEN told \cup {t} ELSE told
SigTold(t, st) == IF st = SigUsr THEN sigtold \cup {t} ELSE sigtold
Reported(t, st) == IF st = SigUsr THEN [reported EXCEPT ![t] = @ + 1] ELSE reported

-----------------------------------------------------------------------------
(* The kernel: a running thread executes its next instruction, or stops  *)
(* on a trap byte, or takes a pending SIGSTOP.  A thread in dying is past  *)
(* its exit event: it executes nothing and takes no signal any more.       *)

Execute(t) ==
  /\ ks[t] \in {"running", "free"}
  /\ t \notin dying
  /\ pendstop[t] /= "queued" /\ pendsig[t] /= "queued"
  /\ mem[kip[t]] = Code
  /\ kip' = [kip EXCEPT ![t] = Succ(kip[t])]
  /\ UNCHANGED <<mem, bps, ks, pendstop, dying, wstatus, coreVars, tableVars, sigVars>>

HitTrap(t) ==
  /\ ks[t] = "running"
  /\ t \notin dying
  /\ pendstop[t] /= "queued" /\ pendsig[t] /= "queued"
  /\ mem[kip[t]] = Trap
  /\ ks' = [ks EXCEPT ![t] = "stopped"]
  /\ wstatus' = [wstatus EXCEPT ![t] = SigTrap]
  /\ pendstop' = [pendstop EXCEPT ![t] = Queue(@)]
  /\ pendsig' = [pendsig EXCEPT ![t] = Queue(@)]
  /\ UNCHANGED <<mem, bps, kip, dying, coreVars, tableVars, fwd, sigtold, raised, reported, handled>>

(* A traced thread may enter a system call that blocks for good (a read, *)
(* a join, a futex wait): it reaches no further trap, and only a signal  *)
(* stops it.  A single-stepped system call blocks the same way: the step's *)
(* SIGTRAP comes only when the call returns.                               *)
Block(t) ==
  /\ ks[t] \in {"running", "stepping"}
  /\ t \notin dying
  /\ pendstop[t] /= "queued" /\ pendsig[t] /= "queued"
  /\ mem[kip[t]] = Code
  /\ ks' = [ks EXCEPT ![t] = "blocked"]
  /\ UNCHANGED <<mem, bps, kip, pendstop, dying, wstatus, coreVars, tableVars, sigVars>>

(* SIGSTOP is dequeued only when no lower-numbered signal is pending.     *)
DeliverSigstop(t) ==
  /\ ks[t] \in Resumed \cup {"stepping"}
  /\ t \notin dying
  /\ pendstop[t] /= "none"
  /\ pendsig[t] = "none"
  /\ ks' = [ks EXCEPT ![t] = "stopped"]
  /\ wstatus' = [wstatus EXCEPT ![t] = SigStop]
  /\ pendstop' = [pendstop EXCEPT ![t] = "none"]
  /\ UNCHANGED <<mem, bps, kip, dying, coreVars, tableVars, sigVars>>

(* PTRACE_SINGLESTEP with no signal pending: one instruction, or the trap *)
(* it stands on, then a SIGTRAP stop.                                      *)
StepInstruction(t) ==
  /\ ks[t] = "stepping"
  /\ t \notin dying
  /\ pendstop[t] = "none" /\ pendsig[t] /= "queued"
  /\ ks' = [ks EXCEPT ![t] = "stopped"]
  /\ wstatus' = [wstatus EXCEPT ![t] = SigTrap]
  /\ kip' = [kip EXCEPT ![t] = IF mem[kip[t]] = Trap THEN kip[t] ELSE Succ(kip[t])]
  /\ pendsig' = [pendsig EXCEPT ![t] = Queue(@)]
  /\ UNCHANGED <<mem, bps, pendstop, dying, coreVars, tableVars, fwd, sigtold, raised, reported, handled>>

(* A thread other than the main one, running or single-stepped, executes  *)
(* the exit system call at ExitAddr (or the call returns, and it is an    *)
(* ordinary instruction).  With PTRACE_O_TRACEEXIT (ptrace_set_options)   *)
(* it first stops at PTRACE_EVENT_EXIT, where getregs still succeeds and  *)
(* reads the instruction pointer past the system call.                    *)
ExitEvent(t) ==
  /\ t /= Main
  /\ t \notin dying
  /\ \/ ks[t] = "running" /\ pendstop[t] /= "queued"
     \/ ks[t] = "stepping" /\ pendstop[t] = "none"
  /\ pendsig[t] /= "queued"
  /\ kip[t] = ExitAddr
  /\ mem[kip[t]] = Code
  /\ ks' = [ks EXCEPT ![t] = "stopped"]
  /\ wstatus' = [wstatus EXCEPT ![t] = ExitStop]
  /\ kip' = [kip EXCEPT ![t] = Succ(ExitAddr)]
  /\ dying' = dying \cup {t}
  /\ UNCHANGED <<mem, bps, pendstop, coreVars, tableVars, sigVars>>

(* Resumed from the exit event (continued, single-stepped or detached), the *)
(* thread ends; signals still pending die with it.  The tracer's waitpid   *)
(* reports the exit of a traced thread; a detached one is reaped unseen.   *)
ThreadExit(t) ==
  /\ t \in dying
  /\ ks[t] \in {"running", "stepping", "free"}
  /\ ks' = [ks EXCEPT ![t] = "exited"]
  /\ wstatus' = [wstatus EXCEPT ![t] = IF ks[t] = "free" THEN @ ELSE Exited]
  /\ pendstop' = [pendstop EXCEPT ![t] = "none"]
  /\ pendsig' = [pendsig EXCEPT ![t] = "none"]
  /\ UNCHANGED <<mem, bps, kip, dying, coreVars, tableVars, fwd, sigtold, raised, reported, handled>>

(* Another process sends a traced thread a signal (kill or tgkill) while  *)
(* it runs.  It races the thread's next instructions, like a SIGSTOP.      *)
RaiseSignal(t) ==
  /\ t \in SigTargets
  /\ t \notin dying
  /\ ks[t] \in Resumed \cup {"stepping"}
  /\ pendsig[t] = "none"
  /\ FoldFunction(+, 0, raised) < MaxSignals
  /\ pendsig' = [pendsig EXCEPT ![t] = "sent"]
  /\ raised' = [raised EXCEPT ![t] = @ + 1]
  /\ UNCHANGED <<mem, bps, kernelVars, coreVars, tableVars, fwd, sigtold, reported, handled>>

(* Dequeuing the signal: a traced thread enters a signal-delivery stop     *)
(* (before the instruction it was to execute or step); the tracer decides *)
(* whether the program sees it.  An untraced thread runs its handler.      *)
DeliverSignal(t) ==
  /\ pendsig[t] /= "none"
  /\ t \notin dying
  /\ pendsig' = [pendsig EXCEPT ![t] = "none"]
  /\ \/ /\ ks[t] \in Resumed \cup {"stepping"}
        /\ ks' = [ks EXCEPT ![t] = "stopped"]
        /\ wstatus' = [wstatus EXCEPT ![t] = SigUsr]
        /\ pendstop' = [pendstop EXCEPT ![t] = Queue(@)]
        /\ UNCHANGED handled
     \/ /\ ks[t] = "free" /\ pendstop[t] = "none"
        /\ handled' = [handled EXCEPT ![t] = @ + 1]
        /\ UNCHANGED <<ks, wstatus, pendstop>>
  /\ UNCHANGED <<mem, bps, kip, dying, coreVars, tableVars, fwd, sigtold, raised, reported>>

(* An untraced thread that executes a trap byte takes SIGTRAP, whose     *)
(* default action ends the whole process.                                 *)
UntracedTrap(t) ==
  /\ ks[t] = "free"
  /\ t \notin dying
  /\ pendstop[t] = "none"
  /\ mem[kip[t]] = Trap
  /\ ks' = [u \in Threads |-> "killed"]
  /\ UNCHANGED <<mem, bps, kip, pendstop, dying, wstatus, coreVars, tableVars, sigVars>>

Kernel ==
  \E t \in Threads :
    \/ Execute(t) \/ HitTrap(t) \/ Block(t) \/ DeliverSigstop(t)
    \/ StepInstruction(t) \/ ExitEvent(t) \/ ThreadExit(t)
    \/ RaiseSignal(t) \/ DeliverSignal(t)
    \/ UntracedTrap(t)

(* Once the detached process has died, or ptrace_detach_for_kill has      *)
(* returned, nothing more happens.                                         *)
Terminated ==
  /\ \/ pc = "detached" /\ \A t \in Threads : ks[t] = "killed"
     \/ pc = "killed"
  /\ UNCHANGED vars

-----------------------------------------------------------------------------
(* The caller, between two resumes: breakpoint-table calls and writes to  *)
(* the register cache that register_thread handed out.  It first           *)
(* unregisters every thread whose exit wait_all_and_update_regs reported.  *)
CallerIdle == pc = "idle" /\ told \cap Live = {}

TableCall ==
  /\ CallerIdle
  /\ \/ \E a \in BpAddr : SW!register_breakpoint(a)
     \/ \E a \in BpAddr : SW!unregister_breakpoint(a)
     \/ \E a \in BpAddr : SW!enable_breakpoint(a)
     \/ \E a \in BpAddr : SW!disable_breakpoint(a)
     \/ SW!free_breakpoints
  /\ UNCHANGED <<kernelVars, coreVars, tableVars, sigVars>>

SetRegisters(t, a) ==
  /\ CallerIdle
  /\ t \in Live
  /\ regs' = [regs EXCEPT ![t] = a]
  /\ UNCHANGED <<mem, bps, kernelVars, pc, idx, primary, status, su, tableVars, sigVars>>

(* unregister_thread: unlink t from the live list and push it on the dead  *)
(* list, keeping its cached registers.                                    *)
unregister_thread(t) ==
  /\ pc = "idle"
  /\ t \in told \cap Live
  /\ live' = SelectSeq(live, LAMBDA u : u /= t)
  /\ dead' = <<t>> \o dead
  /\ told' = told \ {t}
  /\ UNCHANGED <<mem, bps, kernelVars, coreVars, sigVars>>

(* The caller forwards a signal stop it was handed: it sets the thread's  *)
(* signal_to_forward, which the next resume passes to the kernel.          *)
ForwardSignal(t) ==
  /\ CallerIdle
  /\ t \in sigtold \cap Live
  /\ fwd' = [fwd EXCEPT ![t] = SIGUSR1]
  /\ sigtold' = sigtold \ {t}
  /\ UNCHANGED <<mem, bps, kernelVars, coreVars, tableVars, pendsig, raised, reported, handled>>

-----------------------------------------------------------------------------
(* cont_all_and_set_bps calls prepare_for_run, whose first loop flushes   *)
(* every cached register block with setregs.                              *)
ContAll ==
  /\ CallerIdle
  /\ kip' = Flush
  /\ pc' = "prepare"
  /\ idx' = 1
  /\ status' = NoStatus
  /\ UNCHANGED <<mem, bps, ks, pendstop, dying, wstatus, regs, primary, su, tableVars, sigVars>>

(* Second loop: a thread whose cached ip is a breakpoint address is      *)
(* single-stepped and waited for.                                         *)
PrepareStepOver ==
  /\ pc = "prepare"
  /\ idx <= Len(live)
  /\ regs[Cur] \in SW!BpAddrs(bps)
  /\ ks[Cur] = "stopped"
  /\ ks' = [ks EXCEPT ![Cur] = "stepping"]
  /\ pc' = "prepare_wait"
  /\ UNCHANGED <<mem, bps, kip, pendstop, dying, wstatus, regs, idx, primary, status, su, tableVars, sigVars>>

(* PTRACE_SINGLESTEP fails on a thread that is gone: prepare_for_run      *)
(* returns -1 at once, and cont_all_and_set_bps, which ignores the result, *)
(* resumes every thread with the breakpoints not patched back in.          *)
PrepareFail ==
  /\ pc = "prepare"
  /\ idx <= Len(live)
  /\ regs[Cur] \in SW!BpAddrs(bps)
  /\ ks[Cur] /= "stopped"
  /\ ks' = Resume
  /\ handled' = Deliver
  /\ fwd' = ClearFwd
  /\ pc' = "running"
  /\ idx' = 1
  /\ status' = Failed
  /\ UNCHANGED <<mem, bps, kip, pendstop, dying, wstatus, regs, primary, su, tableVars,
                 pendsig, sigtold, raised, reported>>

PrepareSkip ==
  /\ pc = "prepare"
  /\ idx <= Len(live)
  /\ regs[Cur] \notin SW!BpAddrs(bps)
  /\ idx' = idx + 1
  /\ UNCHANGED <<mem, bps, kernelVars, regs, pc, primary, status, su, tableVars, sigVars>>

(* Slip: the 4991 check left out; the first wait always ends the step.   *)
PrepareWaitNoRetry ==
  /\ pc \in {"prepare_wait", "prepare_retry"}
  /\ wstatus[Cur] /= NoStatus
  /\ status' = wstatus[Cur]
  /\ wstatus' = [wstatus EXCEPT ![Cur] = NoStatus]
  /\ pc' = "prepare"
  /\ idx' = idx + 1
  /\ UNCHANGED <<mem, bps, ks, kip, pendstop, dying, regs, primary, su, tableVars, sigVars>>

(* waitpid(t->tid); a status of 4991 (stopped by SIGSTOP) is answered    *)
(* with one more single-step and wait.                                    *)
PrepareWait ==
  /\ pc \in {"prepare_wait", "prepare_retry"}
  /\ wstatus[Cur] /= NoStatus
  /\ status' = wstatus[Cur]
  /\ wstatus' = [wstatus EXCEPT ![Cur] = NoStatus]
  /\ IF pc = "prepare_wait" /\ wstatus[Cur] = SigStop
     THEN /\ ks' = [ks EXCEPT ![Cur] = "stepping"]
          /\ pc' = "prepare_retry"
          /\ UNCHANGED idx
     ELSE /\ pc' = "prepare"
          /\ idx' = idx + 1
          /\ UNCHANGED ks
  /\ UNCHANGED <<mem, bps, kip, pendstop, dying, regs, primary, su, tableVars, sigVars>>

(* Last loop of prepare_for_run re-patches every enabled breakpoint, then *)
(* cont_all_and_set_bps resumes every thread with PTRACE_CONT.            *)
ContinueAll ==
  /\ pc = "prepare"
  /\ idx > Len(live)
  /\ mem' = SW!PatchAll(mem, bps)
  /\ ks' = Resume
  /\ handled' = Deliver
  /\ fwd' = ClearFwd
  /\ pc' = "running"
  /\ idx' = 1
  /\ status' = NoStatus
  /\ UNCHANGED <<bps, kip, pendstop, dying, wstatus, regs, primary, su, tableVars,
                 pendsig, sigtold, raised, reported>>

-----------------------------------------------------------------------------
(* wait_all_and_update_regs: the blocking waitpid(-pgid) returns one      *)
(* ready status.                                                          *)
WaitPrimary ==
  /\ pc \in {"running", "stepped"}
  /\ \E t \in Threads :
       /\ wstatus[t] /= NoStatus
       /\ wstatus' = [wstatus EXCEPT ![t] = NoStatus]
       /\ primary' = t
       /\ told' = Told(t, wstatus[t])
       /\ sigtold' = SigTold(t, wstatus[t])
       /\ reported' = Reported(t, wstatus[t])
  /\ pc' = "wait_others"
  /\ idx' = 1
  /\ UNCHANGED <<mem, bps, ks, kip, pendstop, dying, regs, status, su, live, dead,
                 pendsig, fwd, raised, handled>>

(* Slip: getregs's result ignored, every thread taken as already stopped. *)
WaitSkipIgnoringGetregs ==
  /\ pc = "wait_others"
  /\ idx <= Len(live)
  /\ regs' = IF Cur = primary THEN regs ELSE [regs EXCEPT ![Cur] = kip[Cur]]
  /\ idx' = idx + 1
  /\ UNCHANGED <<mem, bps, kernelVars, pc, primary, status, su, tableVars, sigVars>>

(* Every other thread: getregs succeeds when it is stopped.                *)
WaitSkip ==
  /\ pc = "wait_others"
  /\ idx <= Len(live)
  /\ Cur = primary \/ ks[Cur] = "stopped"
  /\ regs' = IF Cur = primary THEN regs ELSE [regs EXCEPT ![Cur] = kip[Cur]]
  /\ idx' = idx + 1
  /\ UNCHANGED <<mem, bps, kernelVars, pc, primary, status, su, tableVars, sigVars>>

(* Slip: waitpid(tid) without the tgkill before it.                       *)
WaitInterruptNoSignal ==
  /\ pc = "wait_others"
  /\ idx <= Len(live)
  /\ Cur /= primary
  /\ ks[Cur] /= "stopped"
  /\ pc' = "wait_one"
  /\ UNCHANGED <<mem, bps, ks, kip, pendstop, dying, wstatus, regs, idx, primary, status, su, tableVars, sigVars>>

(* getregs failed: tgkill(pid, tid, SIGSTOP), then waitpid(tid).          *)
WaitInterrupt ==
  /\ pc = "wait_others"
  /\ idx <= Len(live)
  /\ Cur /= primary
  /\ ks[Cur] /= "stopped"
  /\ pendstop' = [pendstop EXCEPT ![Cur] = IF ks[Cur] = "exited" THEN @ ELSE "sent"]
  /\ pc' = "wait_one"
  /\ UNCHANGED <<mem, bps, ks, kip, wstatus, dying, regs, idx, primary, status, su, tableVars, sigVars>>

WaitOne ==
  /\ pc = "wait_one"
  /\ wstatus[Cur] /= NoStatus
  /\ wstatus' = [wstatus EXCEPT ![Cur] = NoStatus]
  /\ told' = Told(Cur, wstatus[Cur])
  /\ sigtold' = SigTold(Cur, wstatus[Cur])
  /\ reported' = Reported(Cur, wstatus[Cur])
  /\ pc' = "wait_others"
  /\ idx' = idx + 1
  /\ UNCHANGED <<mem, bps, ks, kip, pendstop, dying, regs, primary, status, su, live, dead,
                 pendsig, fwd, raised, handled>>

(* The thread is gone and its exit was collected before: waitpid fails at  *)
(* once, and the status pushed is temp_status, never written.             *)
WaitOneGone ==
  /\ pc = "wait_one"
  /\ ks[Cur] = "exited"
  /\ wstatus[Cur] = NoStatus
  /\ pc' = "wait_others"
  /\ idx' = idx + 1
  /\ UNCHANGED <<mem, bps, kernelVars, regs, primary, status, su, tableVars, sigVars>>

(* Drain with WNOHANG (stops and exits alike), refresh every thread's      *)
(* registers (getregs fails on a thread that is gone), and write every     *)
(* enabled breakpoint's original word back.                               *)
WaitFinish ==
  /\ pc = "wait_others"
  /\ idx > Len(live)
  /\ wstatus' = [t \in Threads |-> IF ks[t] \in {"stopped", "exited"} THEN NoStatus
                                   ELSE wstatus[t]]
  /\ told' = told \cup {t \in Threads : wstatus[t] = Exited}
  /\ LET drained == {t \in Threads : ks[t] = "stopped" /\ wstatus[t] = SigUsr}
     IN  /\ sigtold' = sigtold \cup drained
         /\ reported' = [t \in Threads |-> IF t \in drained THEN reported[t] + 1 ELSE reported[t]]
  /\ regs' = [t \in Threads |-> IF ks[t] = "stopped" THEN kip[t] ELSE regs[t]]
  /\ mem' = SW!RestoreAll(mem, bps)
  /\ pc' = "idle"
  /\ idx' = 1
  /\ primary' = NoThread
  /\ UNCHANGED <<bps, ks, kip, pendstop, dying, status, su, live, dead,
                 pendsig, fwd, raised, handled>>

-----------------------------------------------------------------------------
(* ptrace_detach_and_cont: ptrace_detach_for_migration walks the list;    *)
(* a stopped thread gets setregs, a SIGSTOP and PTRACE_DETACH.            *)
DetachBegin ==
  /\ CallerIdle \/ pc \in {"running", "stepped"}
  /\ pc' = "detach"
  /\ idx' = 1
  /\ UNCHANGED <<mem, bps, kernelVars, regs, primary, status, su, tableVars, sigVars>>

DetachStopped ==
  /\ pc = "detach"
  /\ idx <= Len(live)
  /\ ks[Cur] = "stopped"
  /\ kip' = [kip EXCEPT ![Cur] = regs[Cur]]
  /\ pendstop' = [pendstop EXCEPT ![Cur] = "queued"]
  /\ ks' = [ks EXCEPT ![Cur] = "free"]
  /\ idx' = idx + 1
  /\ UNCHANGED <<mem, bps, wstatus, dying, regs, pc, primary, status, su, tableVars, sigVars>>

(* setregs failed on a running thread: SIGSTOP it and wait first.         *)
DetachInterrupt ==
  /\ pc = "detach"
  /\ idx <= Len(live)
  /\ ks[Cur] \in Resumed
  /\ pendstop' = [pendstop EXCEPT ![Cur] = "sent"]
  /\ pc' = "detach_wait"
  /\ UNCHANGED <<mem, bps, ks, kip, wstatus, dying, regs, idx, primary, status, su, tableVars, sigVars>>

DetachWait ==
  /\ pc = "detach_wait"
  /\ wstatus[Cur] /= NoStatus
  /\ wstatus' = [wstatus EXCEPT ![Cur] = NoStatus]
  /\ kip' = [kip EXCEPT ![Cur] = regs[Cur]]
  /\ pendstop' = [pendstop EXCEPT ![Cur] = "queued"]
  /\ ks' = [ks EXCEPT ![Cur] = "free"]
  /\ pc' = "detach"
  /\ idx' = idx + 1
  /\ UNCHANGED <<dying, mem, bps, regs, primary, status, su, tableVars, sigVars>>

(* A thread that is gone: setregs fails, tgkill and PTRACE_DETACH fail,    *)
(* and waitpid collects its exit or fails at once.                         *)
DetachGone ==
  /\ pc = "detach"
  /\ idx <= Len(live)
  /\ ks[Cur] = "exited"
  /\ wstatus' = [wstatus EXCEPT ![Cur] = NoStatus]
  /\ idx' = idx + 1
  /\ UNCHANGED <<mem, bps, ks, kip, pendstop, dying, regs, pc, primary, status, su, tableVars, sigVars>>

(* kill(pid, SIGCONT) discards the pending stops and lets the process run. *)
DetachCont ==
  /\ pc = "detach"
  /\ idx > Len(live)
  /\ pendstop' = [t \in Threads |-> "none"]
  /\ pc' = "detached"
  /\ idx' = 1
  /\ UNCHANGED <<mem, bps, ks, kip, wstatus, dying, regs, primary, status, su, tableVars, sigVars>>

-----------------------------------------------------------------------------
(* ptrace_detach_for_kill walks the list: getregs succeeds on a stopped    *)
(* thread, which is detached and sent SIGKILL.  SIGKILL ends the whole     *)
(* thread group, so after the first one every thread is dead; getregs then *)
(* fails on the rest, and waitpid reaps each dead thread at once.          *)
KillBegin ==
  /\ CallerIdle \/ pc \in {"running", "stepped"}
  /\ pc' = "kill"
  /\ idx' = 1
  /\ UNCHANGED <<mem, bps, kernelVars, regs, primary, status, su, tableVars, sigVars>>

KillStopped ==
  /\ pc = "kill"
  /\ idx <= Len(live)
  /\ ks[Cur] \in {"stopped", "killed"}
  /\ ks' = [t \in Threads |-> "killed"]
  /\ idx' = idx + 1
  /\ UNCHANGED <<mem, bps, kip, pendstop, dying, wstatus, regs, pc, primary, status, su, tableVars, sigVars>>

(* Slip: waitpid(tid) on a running thread without the tgkill before it.   *)
KillInterruptNoSignal ==
  /\ pc = "kill"
  /\ idx <= Len(live)
  /\ ks[Cur] \in Resumed \cup {"stepping"}
  /\ pc' = "kill_wait"
  /\ UNCHANGED <<mem, bps, kernelVars, regs, idx, primary, status, su, tableVars, sigVars>>

(* getregs failed on a live thread: tgkill(pid, tid, SIGSTOP), waitpid.   *)
KillInterrupt ==
  /\ pc = "kill"
  /\ idx <= Len(live)
  /\ ks[Cur] \in Resumed \cup {"stepping"}
  /\ pendstop' = [pendstop EXCEPT ![Cur] = "sent"]
  /\ pc' = "kill_wait"
  /\ UNCHANGED <<mem, bps, ks, kip, wstatus, dying, regs, idx, primary, status, su, tableVars, sigVars>>

(* The wait returns, then PTRACE_DETACH and SIGKILL.                       *)
KillWait ==
  /\ pc = "kill_wait"
  /\ wstatus[Cur] /= NoStatus
  /\ wstatus' = [wstatus EXCEPT ![Cur] = NoStatus]
  /\ ks' = [t \in Threads |-> "killed"]
  /\ pc' = "kill"
  /\ idx' = idx + 1
  /\ UNCHANGED <<mem, bps, kip, pendstop, dying, regs, primary, status, su, tableVars, sigVars>>

(* A thread that is gone: getregs fails, waitpid collects its exit or      *)
(* fails at once, and PTRACE_DETACH and tgkill fail.                       *)
KillGone ==
  /\ pc = "kill"
  /\ idx <= Len(live)
  /\ ks[Cur] = "exited"
  /\ wstatus' = [wstatus EXCEPT ![Cur] = NoStatus]
  /\ idx' = idx + 1
  /\ UNCHANGED <<mem, bps, ks, kip, pendstop, dying, regs, pc, primary, status, su, tableVars, sigVars>>

(* Last, waitpid(pid) reaps the main thread.                               *)
KillFinish ==
  /\ pc = "kill"
  /\ idx > Len(live)
  /\ pc' = "killed"
  /\ idx' = 1
  /\ UNCHANGED <<mem, bps, kernelVars, regs, primary, status, su, tableVars, sigVars>>

-----------------------------------------------------------------------------
(* Slip: the clear of signal_to_forward outside the tid test, so that     *)
(* every thread's signal is dropped, not only the stepped one's.           *)
SingleStepClearAll(t) ==
  /\ CallerIdle
  /\ t \in Live
  /\ ks[t] = "stopped"
  /\ kip' = Flush
  /\ ks' = [ks EXCEPT ![t] = "stepping"]
  /\ handled' = [handled EXCEPT ![t] = IF fwd[t] = SIGUSR1 THEN @ + 1 ELSE @]
  /\ fwd' = ClearFwd
  /\ pc' = "stepped"
  /\ UNCHANGED <<mem, bps, pendstop, dying, wstatus, regs, idx, primary, status, su, tableVars,
                 pendsig, sigtold, raised, reported>>

(* singlestep (x86_64): flush every cached register block, take the        *)
(* thread's signal_to_forward and clear it, then PTRACE_SINGLESTEP the one *)
(* thread with that signal (its handler is entered); the caller collects  *)
(* the stop with wait_all_and_update_regs.                                 *)
SingleStep(t) ==
  /\ CallerIdle
  /\ t \in Live
  /\ ks[t] = "stopped"
  /\ kip' = Flush
  /\ ks' = [ks EXCEPT ![t] = "stepping"]
  /\ handled' = [handled EXCEPT ![t] = IF fwd[t] = SIGUSR1 THEN @ + 1 ELSE @]
  /\ fwd' = [fwd EXCEPT ![t] = NoSignal]
  /\ pc' = "stepped"
  /\ UNCHANGED <<mem, bps, pendstop, dying, wstatus, regs, idx, primary, status, su, tableVars,
                 pendsig, sigtold, raised, reported>>

(* step_until: flush every cached register block, then loop: step, wait,  *)
(* refresh the thread's registers, stop at the target address, and count  *)
(* only the steps that moved the instruction pointer.  With max_steps = -1 *)
(* the count is never read, and the model keeps it at 0.                   *)
StepUntil(t, a, n) ==
  /\ CallerIdle
  /\ t \in Live
  /\ kip' = Flush
  /\ su' = [tid |-> t, addr |-> a, max_steps |-> n, count |-> 0]
  /\ pc' = "step_until"
  /\ UNCHANGED <<mem, bps, ks, pendstop, dying, wstatus, regs, idx, primary, status, tableVars, sigVars>>

StepUntilStep ==
  /\ pc = "step_until"
  /\ su.max_steps = -1 \/ su.count < su.max_steps
  /\ ks[su.tid] = "stopped"
  /\ ks' = [ks EXCEPT ![su.tid] = "stepping"]
  /\ pc' = "step_until_wait"
  /\ UNCHANGED <<mem, bps, kip, pendstop, dying, wstatus, regs, idx, primary, status, su, tableVars, sigVars>>

(* PTRACE_SINGLESTEP fails on a thread that is gone: return -1.            *)
StepUntilFail ==
  /\ pc = "step_until"
  /\ su.max_steps = -1 \/ su.count < su.max_steps
  /\ ks[su.tid] /= "stopped"
  /\ pc' = "idle"
  /\ su' = NoStepUntil
  /\ UNCHANGED <<mem, bps, kernelVars, regs, idx, primary, status, tableVars, sigVars>>

StepUntilExhausted ==
  /\ pc = "step_until"
  /\ ~(su.max_steps = -1 \/ su.count < su.max_steps)
  /\ pc' = "idle"
  /\ su' = NoStepUntil
  /\ UNCHANGED <<mem, bps, kernelVars, regs, idx, primary, status, tableVars, sigVars>>

StepUntilWait ==
  LET t == su.tid
      previous_ip == regs[t]
      ip == IF ks[t] = "stopped" THEN kip[t] ELSE regs[t]   \* getregs may fail
  IN  /\ pc = "step_until_wait"
      /\ wstatus[t] /= NoStatus
      /\ wstatus' = [wstatus EXCEPT ![t] = NoStatus]
      /\ regs' = [regs EXCEPT ![t] = ip]
      /\ \/ ip = su.addr /\ pc' = "idle" /\ su' = NoStepUntil
         \/ ip /= su.addr /\ ip = previous_ip
            /\ pc' = "step_until" /\ UNCHANGED su
         \/ ip /= su.addr /\ ip /= previous_ip
            /\ pc' = "step_until"
            /\ su' = [su EXCEPT !.count = IF su.max_steps = -1 THEN 0 ELSE @ + 1]
      /\ UNCHANGED <<mem, bps, ks, kip, pendstop, dying, idx, primary, status, tableVars, sigVars>>

-----------------------------------------------------------------------------
Init ==
  /\ SW!Init
  /\ ks = [t \in Threads |-> "stopped"]
  /\ kip = [t \in Threads |-> 0]
  /\ pendstop = [t \in Threads |-> "none"]
  /\ wstatus = [t \in Threads |-> NoStatus]
  /\ regs = kip
  /\ pc = "idle"
  /\ idx = 1
  /\ primary = NoThread
  /\ status = NoStatus
  /\ su = NoStepUntil
  /\ live = ThreadList
  /\ dead = <<>>
  /\ told = {}
  /\ pendsig = [t \in Threads |-> "none"]
  /\ fwd = [t \in Threads |-> NoSignal]
  /\ sigtold = {}
  /\ raised = [t \in Threads |-> 0]
  /\ reported = raised
  /\ handled = raised
  /\ dying = {}

Core ==
  \/ TableCall
  \/ \E t \in Threads, a \in CodeAddr : SetRegisters(t, a)
  \/ \E t \in Threads : unregister_thread(t)
  \/ \E t \in Threads : ForwardSignal(t)
  \/ ContAll \/ PrepareStepOver \/ PrepareFail \/ PrepareSkip \/ PrepareWait \/ ContinueAll
  \/ WaitPrimary \/ WaitSkip \/ WaitInterrupt \/ WaitOne \/ WaitOneGone \/ WaitFinish
  \/ DetachBegin \/ DetachStopped \/ DetachInterrupt \/ DetachWait \/ DetachGone \/ DetachCont
  \/ KillBegin \/ KillStopped \/ KillInterrupt \/ KillWait \/ KillGone \/ KillFinish
  \/ \E t \in Threads : SingleStep(t)
  \/ \E t \in Threads, a \in CodeAddr, n \in MaxSteps : StepUntil(t, a, n)
  \/ StepUntilStep \/ StepUntilFail \/ StepUntilExhausted \/ StepUntilWait

Next == Core \/ Kernel \/ Terminated

(* The kernel runs every resumed thread, completes every step that does  *)
(* not block, delivers every pending signal and ends every thread resumed *)
(* past its exit event; the core, a sequential program, takes its next    *)
(* step whenever it can.  Whether a thread blocks, exits or is sent a      *)
(* signal is the program's business (no fairness on Block, ExitEvent,     *)
(* RaiseSignal), and the caller is not obliged to call anything (none on   *)
(* TableCall, SetRegisters, ContAll, DetachBegin).                         *)
Fairness ==
  /\ \A t \in Threads :
       /\ WF_vars(Execute(t)) /\ WF_vars(HitTrap(t))
       /\ WF_vars(DeliverSigstop(t)) /\ WF_vars(StepInstruction(t))
       /\ WF_vars(DeliverSignal(t)) /\ WF_vars(ThreadExit(t))
  /\ WF_vars(PrepareStepOver \/ PrepareFail \/ PrepareSkip \/ PrepareWait \/ ContinueAll)
  /\ WF_vars(WaitPrimary \/ WaitSkip \/ WaitInterrupt \/ WaitOne \/ WaitOneGone \/ WaitFinish)
  /\ WF_vars(DetachStopped \/ DetachInterrupt \/ DetachWait \/ DetachGone \/ DetachCont)
  /\ WF_vars(KillStopped \/ KillInterrupt \/ KillWait \/ KillGone \/ KillFinish)
  /\ WF_vars(StepUntilStep \/ StepUntilFail \/ StepUntilExhausted \/ StepUntilWait)

Spec == Init /\ [][Next]_vars /\ Fairness

-----------------------------------------------------------------------------
TypeOK ==
  /\ SW!TypeOK
  /\ ks \in [Threads -> KStates]
  /\ kip \in [Threads -> CodeAddr]
  /\ pendstop \in [Threads -> Pending]
  /\ wstatus \in [Threads -> Statuses]
  /\ regs \in [Threads -> CodeAddr]
  /\ pc \in PCs
  /\ idx \in 1..(Len(ThreadList) + 1)
  /\ primary \in Threads \cup {NoThread}
  /\ su \in [tid: Threads \cup {NoThread}, addr: CodeAddr,
            max_steps: MaxSteps \cup {0}, count: 0..Max(MaxSteps \cup {0})]
  /\ status \in Statuses \cup {Failed}
  /\ live \in Seq(Threads) /\ IsInjective(live)
  /\ dead \in Seq(Threads)
  /\ told \subseteq Threads
  /\ pendsig \in [Threads -> Pending]
  /\ fwd \in [Threads -> {NoSignal, SIGUSR1}]
  /\ sigtold \subseteq Threads
  /\ dying \subseteq Threads \ {Main}
  /\ \A f \in {raised, reported, handled} : f \in [Threads -> 0..MaxSignals]

-----------------------------------------------------------------------------
(* The loops that, before a blocking waitpid on a thread, send it SIGSTOP. *)
Interrupting == {"wait_others", "wait_one", "detach", "detach_wait", "kill", "kill_wait"}
WaitReturns == pc = "wait_others" /\ pc' = "idle"
(* Threads whose signals no longer concern the tracer.                    *)
Gone == {"exited", "killed", "free"}
Count(b) == IF b THEN 1 ELSE 0

(* Stop the world (wait_all_and_update_regs): when it returns, every       *)
(* thread is ptrace-stopped and its cached registers are the kernel's,     *)
(* although threads kept running while the other threads were probed and   *)
(* sent SIGSTOP one by one.                                                *)
StoppedAndCached ==
  [][WaitReturns =>
       \A t \in Live : ks'[t] /= "exited" => ks'[t] = "stopped" /\ regs'[t] = kip'[t]]_vars

(* Spec 8, invariant 2: after cont_all_and_set_bps returns with no error,  *)
(* the byte at every enabled breakpoint is the trap, while the tracee      *)
(* runs (prepare_for_run re-patches in list order; overlapping words of    *)
(* neighbouring breakpoints must not undo each other's trap).              *)
ArmedWhileRunning ==
  pc = "running" /\ status /= Failed =>
    \A a \in SW!EnabledAddrs(bps) : mem[a] = Trap

(* When wait_all_and_update_regs returns, the byte at every enabled        *)
(* breakpoint is the low byte of the word saved for it, although the       *)
(* restore loop writes overlapping words one after the other.              *)
RestoredOnReturn ==
  [][WaitReturns =>
       \A i \in DOMAIN bps :
         bps[i].enabled => mem'[bps[i].addr] = bps[i].instruction[0]]_vars

(* prepare_for_run's step over a breakpoint is never left absorbed by a   *)
(* SIGSTOP that wait_all_and_update_regs sent to a thread which then      *)
(* stopped on a trap first (the 4991 retry).                               *)
StepOverNotAbsorbed ==
  pc = "prepare" => status /= SigStop

(* The stop-the-world loop of wait_all_and_update_regs and the loops of    *)
(* ptrace_detach_for_migration and ptrace_detach_for_kill never wait       *)
(* forever on a thread: each one found running, even blocked for good in a *)
(* system call, is sent SIGSTOP before its waitpid, and one that exited    *)
(* meanwhile is reaped.  (prepare_for_run's and step_until's waitpid send   *)
(* nothing, and a stepped system call that blocks hangs them.)             *)
EntryPointsReturn ==
  (pc \in Interrupting) ~> (pc \in {"idle", "detached", "killed"})

(* Spec 8: singlestep clears the target thread's signal_to_forward exactly *)
(* once even if other threads are stopped.  Every signal stop that         *)
(* wait_all_and_update_regs handed to the caller is still with the caller, *)
(* in signal_to_forward, or has reached the thread's handler, however      *)
(* singlestep, cont_all_and_set_bps (both clear signal_to_forward as they  *)
(* pass it on) and the threads' steps interleave.                          *)
ReportedSignalDelivered ==
  \A t \in Threads :
    ks[t] \notin Gone =>
      reported[t] = handled[t] + Count(t \in sigtold) + Count(fwd[t] = SIGUSR1)

-----------------------------------------------------------------------------
(* Properties the spec states and the code does not keep (violation runs). *)

(* Spec 2 and 4.4: the caller decides, through signal_to_forward, which   *)
(* signals the program sees; so every signal sent to a live traced thread *)
(* is pending, an uncollected stop, with the caller, in signal_to_forward, *)
(* or handled.  The waitpid calls of prepare_for_run's step-over and of    *)
(* step_until take whatever stop comes (the 4991 check covers SIGSTOP      *)
(* only), and only wait_all_and_update_regs hands a status to the caller.  *)
SignalNotLost ==
  \A t \in Threads :
    ks[t] \notin Gone =>
      raised[t] = handled[t] + Count(pendsig[t] /= "none") + Count(wstatus[t] = SigUsr)
                  + Count(t \in sigtold) + Count(fwd[t] = SIGUSR1)

(* Spec 4.4: prepare_for_run's invariant is that the threads it lets run   *)
(* have every enabled software breakpoint patched in; whenever the        *)
(* tracee's threads run under the tracer, the breakpoints are armed.       *)
ArmedWhenResumed ==
  pc = "running" => \A a \in SW!EnabledAddrs(bps) : mem[a] = Trap

(* Spec 4.4 and 5: step_until with a max_steps bound returns; only the    *)
(* unbounded call (-1) may step for ever.                                  *)
StepUntilReturns ==
  (pc = "step_until" /\ su.max_steps /= -1) ~> (pc = "idle")

(* Spec 4.4, prepare_for_run step 2: a thread standing on a breakpoint is  *)
(* single-stepped while the memory there holds the original word, so the  *)
(* step executes the original instruction, not the trap.                   *)
StepOverExecutesOriginal ==
  pc \in {"prepare_wait", "prepare_retry"} /\ ks[Cur] = "stepping" =>
    mem[kip[Cur]] = Code

(* Spec 3: a thread's cached registers are "last read from the kernel at  *)
(* the most recent stop and written back on the next resume".  A thread    *)
(* that ptrace_detach_for_migration finds running (setregs fails) has been *)
(* resumed since: after it is stopped with SIGSTOP it keeps the position   *)
(* it reached, and the second setregs does not move it back.               *)
DetachKeepsPosition ==
  [][pc = "detach_wait" /\ pc' = "detach" => kip'[Cur] = kip[Cur]]_vars

(* Spec 8, end-to-end scenario 6: after ptrace_detach_and_cont the         *)
(* breakpoint addresses read as the original code and the child runs to   *)
(* completion: the detached process never dies of a trap.                   *)
DetachedRunsClean ==
  \A t \in Threads : ks[t] /= "killed"
=============================================================================
