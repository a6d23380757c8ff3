# TLA+ models of the libdebug ptrace core

This directory models `src/libdebug/cffi/ptrace_cffi_source.c` in TLA+ and
checks it with TLC. That file is the C core under libdebug's Python debugger:
it keeps the tables of traced threads and breakpoints, and it drives the tracee
through ptrace.

## 1. The system

The core is one sequential program. The Python side calls it from a single
thread. Concurrency comes from the tracee: the kernel runs its threads in
parallel, delivers signals, and reports stops through `waitpid`. Every
`waitpid` in the core is a point where any tracee thread may have moved.

| Part | Code | State | Operations |
|---|---|---|---|
| Thread table | `register_thread`, `unregister_thread`, `free_thread_list`, `get_thread` (392-571) | `t_HEAD` (live, head-inserted, main thread last), `dead_t_HEAD`, a cached register block per thread | register, unregister to the dead list, free |
| Software breakpoints | `register_breakpoint` … `free_breakpoints` (1048-1161) | `sw_b_HEAD`, sorted by address; per entry `instruction`, `patched_instruction`, `enabled` | register (peek, patch, poke at once), unregister, enable, disable, free |
| Hardware breakpoints | x86_64 DR0-DR3/DR7 (128-252), AArch64 dbg_regs (254-390), list ops (1240-1336) | `hw_b_HEAD`, debug registers per thread | register, unregister, enable, disable, hit query |
| Run/stop coordinator | `prepare_for_run`, `cont_all_and_set_bps`, `wait_all_and_update_regs` (847-1035) | reads and writes all of the above | flush registers, step over a breakpoint (with the `4991` SIGSTOP retry), re-patch, resume; stop the world and restore |
| Stepping | `singlestep`, `step_until`, `stepping_finish` (764-845, 1163-1238) | the stepped thread's registers | step one thread; step until an address or a bound; step out of a call |
| Attach/detach | `ptrace_detach_for_kill`, `_for_migration`, `_and_cont`, `ptrace_reattach_from_gdb` (573-666) | kernel trace state of every thread | detach (with SIGSTOP), SIGCONT, reattach |
| Memory and register I/O | `ptrace_peekdata/pokedata`, `peekuser/pokeuser`, FP regs (87-126, 415-500, 676-762) | words of tracee memory | word reads and writes |

How the parts interact:
- Breakpoints live in tracee memory as trap bytes.
- The coordinator re-patches every enabled breakpoint before each resume, and
  writes the original words back at each stop.
- A thread stopped on a breakpoint is single-stepped over the original
  instruction before the resume.
- Stopping the world probes each other thread with `getregs`. A thread that is
  still running is sent SIGSTOP with `tgkill` and waited for.
- That SIGSTOP can race with the thread stopping at a trap on its own. It then
  stays pending and is delivered in place of the next single-step, which is
  why the `4991` retry exists.

## 2. Modules

- **`SwBreakpoints.tla`** models the software-breakpoint list and the code
  image it patches.
  - Memory is byte-addressed with bytes `Code` and `Trap`. `PeekData` and
    `PokeData` read and write `WordLen` bytes, so breakpoints closer than a
    word overlap, as on x86_64 (8-byte words, 1-byte `int3`).
  - There is one operator per function: `register_breakpoint`,
    `unregister_breakpoint`, `enable_breakpoint`, `disable_breakpoint` and
    `free_breakpoints`.
  - `InsertPos` is the sorted-insertion walk. `PatchAll` and `RestoreAll` are
    the tail loops of `prepare_for_run` and `wait_all_and_update_regs`.
- **`Tracer.tla`** models the run/stop coordinator, stepping and
  detach-and-continue. It composes `SwBreakpoints` (`SW == INSTANCE`) with a
  model of the kernel.
  - Kernel variables:
    - `ks`: stopped, running, blocked in a system call, stepping, free
      (detached) or killed;
    - `kip`: the kernel's instruction pointer;
    - `pendstop`: a SIGSTOP that is `sent`, or `queued` behind another stop;
    - `wstatus`: an uncollected stop status.
  - Core variables: `regs` (the cached IP), `pc` (the position inside an entry
    point), `idx` (the thread-list loop), `primary`, `status`, and `su`
    (step_until's locals).
  - Each `waitpid` and each loop iteration is its own action. For example,
    `WaitSkip`, `WaitInterrupt` and `WaitOne` are the three branches of the
    loop at lines 986-1006, and `WaitFinish` is the drain, refresh and
    restore. Only there can kernel steps interleave.
  - The threads run a loop over `NumCode` code bytes. A trap byte stops a
    thread at that address (AArch64 BRK; on x86_64 the Python side rewinds
    rip). A thread may also block in a system call (`Block`), after which only
    a signal stops it. That includes a thread being single-stepped over a
    system call: the step's SIGTRAP comes only when the call returns.
  - A secondary thread at `ExitAddr` may exit. `ptrace_set_options` sets
    PTRACE_O_TRACEEXIT (671), so it first stops at PTRACE_EVENT_EXIT
    (`ExitEvent`, status `EVENT_EXIT`), stopped like any other stop but with
    its IP past the exit call and a place in `dying`. Resumed from there in
    any way, it ends (`ThreadExit`). It is then a zombie whose `EXIT` status
    the next `waitpid` on it collects; after that it is gone, and getregs,
    setregs, PTRACE_SINGLESTEP and tgkill on it fail. The model assumes the
    Python side called `ptrace_set_options` after attaching. The spec lists
    it with attach, detach and kill.
  - Thread table: `live` is `t_HEAD` (head-insertion order of
    `register_thread`), `dead` is `dead_t_HEAD`, and `told` is the set of
    threads whose exit `wait_all_and_update_regs` reported. The caller's
    contract `CallerIdle` is that it calls `unregister_thread` for each of
    them before anything else; the model assumes this of the Python side.
  - `ptrace_detach_for_kill` is the `Kill*` loop: getregs probe, tgkill
    SIGSTOP plus waitpid on a running thread, detach, SIGKILL, and the last
    waitpid on the main thread. `PrepareFail` is `prepare_for_run`'s
    `return -1` when PTRACE_SINGLESTEP fails, after which
    `cont_all_and_set_bps` still continues every thread (`Resume`).
  - Signals: another process may send a traced thread a signal (SIGUSR1)
    while it runs (`RaiseSignal`, at most `MaxSignals`, to the threads in
    `SigTargets`). Like a SIGSTOP it is `sent`, racing the next instructions,
    or `queued` behind a stop for another reason. `DeliverSignal` dequeues it
    before a pending SIGSTOP (lower number first): a traced thread enters a
    signal-delivery stop, before the instruction it was to run or step; an
    untraced one runs its handler. `fwd` is `signal_to_forward`. The caller,
    handed a SIGUSR1 stop (`sigtold`), forwards it (`ForwardSignal`);
    `singlestep` passes and clears the stepped thread's, and
    `cont_all_and_set_bps` passes every stopped live thread's and clears them
    all (`Deliver`, `ClearFwd`). `raised`, `reported` and `handled` are
    auxiliary counts (history variables) that the signal properties compare.
- **`HwBreakpoints.tla`** models the x86_64 hardware breakpoints (lines
  128-240 and 1149-1160, 1240-1336).
  - `hw_bps` is the `hw_b_HEAD` list, kept as a set. Entries are unique per
    (tid, addr) because `register_hw_breakpoint` refuses duplicates, and no
    operation depends on list order except `get_hit`, which returns the first
    hit and can hit only one slot.
  - `dr[t][i]` is DR0-DR3 of thread t, where 0 is a free slot, exactly as the
    code tests it. `dr7[t][i]` is slot i's part of DR7 as three fields: the
    local-enable bit `l` and the codes `rw` and `len` that `CTRL_COND_VAL` and
    `CTRL_LEN_VAL` produce. DR7 is a 64-bit word and TLC's integers are
    32 bits wide, so the word is kept per slot; the bits the code's masks touch
    are exactly these fields.
  - `dr6[t]` is the set of slots whose B bit is set. The kernel rewrites the
    virtual DR6 only on a debug exception: a hardware trap sets it to the
    slot that fired (`DebugTrap`), a single-step sets it to no slot
    (`StepTrap`), and an `int3` or a signal leaves it alone (`OtherStop`).
  - `last_hit` is a history variable: the address whose trap caused the
    thread's current stop, or 0.
  - `install_hardware_breakpoint` and `remove_hardware_breakpoint` are
    operators that the list operations use, as in the code. `FirstSlot` is
    their shared loop over the four DRs.
- **`HwBreakpointsAbstract.tla`** is what the table promises: per thread,
  the registered breakpoints (`watch`) and those that trap (`armed`).
  `HwBreakpoints` maps onto it with `WatchOf` (the list) and `ArmedOf` (the
  slots that are programmed and locally enabled). `HwSpec == Abs!Spec` is
  checked as a property, so every step of the code is a step of the abstract
  table or leaves it unchanged.
- **`HwBreakpointsArm.tla`** models the AArch64 hardware breakpoints (lines
  243-390) over the same list code (1149-1160, 1240-1336).
  - `dbg[t][s][i]` is entry i, with fields `addr` and `ctrl`, of register set
    `s` of thread t. `NT_ARM_HW_BREAK` holds the `"x"` entries and
    `NT_ARM_HW_WATCH` the others (`Command`). The hardware implements
    `NumHw` entries per set (`dbg_info & 0xff`). `GetRegSet` reads the others
    back as zero, as `PTRACE_GETREGSET` does, and `SetRegSet` refuses to
    program them. Both calls fail unless the thread is ptrace-stopped
    (`ks[t]`): the failed GET leaves the zeroed buffer, the failed SET changes
    nothing. `InstallFrom` is the rest of `install_hardware_breakpoint`, from
    the buffer the GET returned.
  - `FirstReg` is the loop over all 16 entries. `Control` is the control word
    `(length << 5) | (condition << 3) | (2 << 1) | 1`, computed with
    `Bitwise`'s `|`. `install_hardware_breakpoint` also sets an `"x"` entry's
    `len` to 4 once a free entry is found, as line 297 does to the list entry.
  - `si[t]` is the `si_code` and `si_addr` of the thread's last stop, which
    `is_breakpoint_hit` reads. `HwTrap` is a hardware trap. Its `si_addr` is
    the breakpoint's address, or any byte of a watchpoint's range. `OtherStop`
    is a `brk`, a single-step or a signal, with its own code and address.
    `last_hit` is the same history variable as in `HwBreakpoints`.
  - `pc`, `todo` and `cur` follow the caller. `ContAll`, `PrepareHit`,
    `PrepareNoHit`, `PrepareWait` and `ContinueAll` are `cont_all_and_set_bps`
    with `prepare_for_run`'s hardware loop (897-934): per thread, the first
    enabled entry `is_breakpoint_hit` reports (`HitOf`) is removed, the thread
    single-stepped and waited for, and the entry installed again.
    `SingleStep`, `SingleStepGet` and `SingleStepSet` are `singlestep`
    (783-799). It reinstalls with no wait, so the GET and the SET of that
    install are separate steps, each racing the kernel's `StepDone`; `buf` is
    the buffer between them. `WaitStepped` is the caller's wait after it.
  - `StepDone` ends a step with a `TRAP_TRACE` stop, unless the entry that
    stopped the thread last (`last_hit`, a register set and address) is still
    armed: the exception is taken before the instruction completes, and the
    step stops on it again.
  - `ArmedOf` decodes each enabled entry's `ctrl` back to a kind and length,
    and counts the entry `prepare_for_run` has taken out for its step as
    armed (`Suspended`): the step-over is internal to one call.
    `Abs` maps the module onto the same `HwBreakpointsAbstract`.
    `TableSpec` has the table calls, `cont_all_and_set_bps` and the tracee;
    `LiveSpec` adds `singlestep`; `Spec` adds the final `free_breakpoints`.
- **`SteppingFinish.tla`** models `stepping_finish` (1163-1238) for the
  stepped thread. The other threads stay stopped while it runs, so they are
  left out.
  - The tracee runs a constant program with one instruction per address:
    `nop`, `jmp`, `call` or `ret`. The kernel side keeps the call stack of
    return addresses (`stack`). `OpAt` is what the opcode tests see: the
    instruction, or `int3` where a trap byte is patched in.
  - A single-step that executes a trap byte moves the IP past it without
    executing the instruction underneath, as x86_64 `int3` does.
  - `Init` is any state the program reaches from its entry point. The
    recursive `Closure` computes these states. The breakpoint list is what
    `register_breakpoint` builds for any subset of `BpAddr`, each entry
    enabled or not. As `wait_all_and_update_regs` leaves it, enabled
    breakpoints are restored and disabled ones are still patched. An enabled
    breakpoint registered after that stop is patched as well, because
    `register_breakpoint` pokes the trap at once. A SIGSTOP
    may still be queued, the race `Tracer` shows.
  - The actions follow the code:
    - `stepping_finish`: the flush and the step-over test of
      `prepare_for_run`;
    - `PrepareWait`: its waitpid with the 4991 retry;
    - `BeginLoop`: the re-patch, the counter seed and the first step;
    - `StepWaitAbort` and `StepWaitNext`: the two outcomes of one loop
      iteration;
    - `LastWait`: the final step;
    - `Cleanup`.
  - `entry` (the call stack at entry) and `plain` (entered on an ordinary
    instruction, with no breakpoint at the IP and no SIGSTOP queued) are
    history variables for the properties.
- **`MC_Tracer.tla`** instantiates Tracer for TLC. It has two threads as
  model values (`T1` is the main thread, last in the list) and
  `MaxSteps = {-1, 0, 2}`.

- **`MC_HwBreakpoints.tla`** gives `BpKinds` a small value: execute with
  length 1 and write with length 8, which is the length code that overflows
  `int` in slot 3. `MC_OneKind` (execute, length 1) is used where the kind
  does not matter.

- **`MC_SteppingFinish.tla`** gives the program. `main` loops calling `f`,
  and `f` calls `g`:
  ```
  0: call 3    1: nop    2: jmp 0          (main)
  3: nop       4: call 6    5: ret         (f)
  6: ret                                   (g)
  ```
  Breakpoints may be placed at 1 (a return address), 3 (f's entry), 4 (a
  call) and 5 (a ret).

## 3. Runs

The Tracer runs use `Tracer.cfg`'s constants:
- `NumCode = 3`;
- `WordLen = 2`, so the words at 0 and 1 overlap;
- breakpoints at `{0, 1}`;
- two threads.

These bounds are enough for the cases that matter here:
- overlapping words in either registration order;
- a breakpoint at a thread's own IP;
- one thread on a trap while the other runs or blocks;
- the SIGSTOP race;
- step_until with no bound, bound 0 and bound 2.

`ExitAddr = 2`: the second thread may stop at its exit event at address 2,
with IP 0 (a breakpoint address) at that stop, and then exit. `MaxSignals = 0`
in every Tracer run except the two signal runs.

The main run finishes in about 2 min 20 s with about 2,380,000 distinct
states.

Every Tracer configuration sets `CHECK_DEADLOCK FALSE`, because the code
really can stop for good. If a thread is single-stepped over a system call
that blocks (prepare_for_run's step-over at 881-884, or step_until at
825-828), the waitpid that follows waits for ever. It sends no SIGSTOP and
has no timeout, and every other thread is stopped. With deadlock checking
on, TLC stops at that state (pc `step_until_wait`, the stepped thread
blocked).

The signal runs (`Tracer_Signals.cfg`, `Tracer_SignalNotLost.cfg`) send one
SIGUSR1 to either thread, at any moment it runs, with one breakpoint (at 1)
and `step_until` bound 1. With both breakpoints and three bounds the
signal run has over 12 million states and takes 20 minutes; one breakpoint
still has a thread stopped on it, stepped over, singlestepped and stepped
until, with the signal arriving before, during or after each step. One
signal is enough: the properties are about what happens to a signal, and a
second would only meet the same paths. `tracer_signals` has about 780,000
states and takes under a minute.

| Run | Expect | What it shows |
|---|---|---|
| `tracer_core` | pass | See the invariants and properties listed below. |
| `step_over_trap` | violation (`StepOverExecutesOriginal`) | A breakpoint registered at a stopped thread's IP is poked at once. `prepare_for_run` then single-steps the trap, not the original instruction (spec 4.4 step 2 says otherwise). |
| `tracer_exit` | violation (`ArmedWhenResumed`) | `Tracer_ArmedWhenResumed.cfg`, breakpoint at 0, the address just past the exit call at 2. The second thread stops at its exit event with IP 0. `step_until` steps it out of that stop, so the thread exits, and the waitpid (828) takes the exit status. Nothing reports it, so the thread stays in `t_HEAD` with IP 0 (15 steps). The next `cont_all_and_set_bps` tries to step it over, PTRACE_SINGLESTEP fails, `prepare_for_run` returns -1 before re-patching (881), and every thread is continued with no breakpoint in memory. Spec 4.4 says enabled breakpoints are armed while the process runs. |

| `tracer_signals` | pass | `ReportedSignalDelivered`: every SIGUSR1 stop handed to the caller is still with the caller, in `signal_to_forward`, or has run the thread's handler, however `singlestep` of another thread and `cont_all_and_set_bps` interleave (spec 8: singlestep clears the target's `signal_to_forward` exactly once); `EntryPointsReturn` with a signal stop arriving before the SIGSTOP a wait expects. |
| `signal_lost` | violation (`SignalNotLost`) | A signal arriving while `step_until` (828) or `prepare_for_run`'s step-over (884) single-steps a thread stops the step before the instruction; the waitpid takes that stop for the step's end (only 4991 is retried), nobody reports it, and the next resume passes `signal_to_forward` = 0, so the kernel discards it. TLC finds it in 5 steps through `step_until`; the step-over path is the same. `stepping_finish`'s steps (1188, 1219) have the same exposure and are not checked. |

Properties of `tracer_core`:
- `TypeOK`.
- `ArmedWhileRunning`: while the tracee runs after a `cont_all_and_set_bps`
  that returned no error (spec 8 invariant 2), every enabled breakpoint's
  byte is a trap, even with overlapping words.
- `StepOverNotAbsorbed`: prepare_for_run never moves on from a step-over that
  a pending SIGSTOP absorbed.
- `StoppedAndCached` (action): when `wait_all_and_update_regs` returns, every
  thread is stopped and its cached IP is the kernel's.
- `RestoredOnReturn` (action): on that return, every enabled breakpoint's
  byte is the saved original byte.
- `EntryPointsReturn` (liveness): the loops that send SIGSTOP before they
  wait always return. These are the stop-the-world loop of
  `wait_all_and_update_regs` and the loops of `ptrace_detach_for_migration`
  and `ptrace_detach_for_kill`. They return even when the thread is blocked
  in a system call or exits during the wait. `prepare_for_run` and
  `step_until` are left out because they can hang (section 3).

Each property has a mutant in `PROJECT.json`. A mutant is a plausible slip in
the code, defined just before the definition it replaces, that makes TLC find
the property violated:
- a reversed sort;
- the restore loop walking from the tail;
- the `4991` retry dropped;
- getregs's result ignored;
- no tgkill before the waitpid;
- a one-byte overread.

### Hardware breakpoint runs

`HwBreakpoints`'s `TableSpec` is every table call and every trap, without
`free_breakpoints`. `Spec` adds it.

| Run | Expect | Bounds | What it shows |
|---|---|---|---|
| `hw_table` | pass | 1 thread, addresses 1-4, 184,519 states, about 1 min | `TypeOK`. `SlotForEveryEnabled`: every enabled list entry has exactly one slot holding its address, locally enabled with its kind and length (spec 8 invariant 4). `HwSpec`: the code refines `HwBreakpointsAbstract`. |
| `arm_table` | pass | AArch64: 1 thread, addresses 1-3, kinds x/4 and w/8, `NumHw` = 3, 68,658 states, under 30 s | `TableSpec`, so table calls, resumes with `prepare_for_run`'s hardware step-over, and stops. `TypeOK`. `SlotForEveryEnabled`: whenever the caller may call in or the tracee runs, every enabled entry has an entry of its own register set holding its address and control word; a disabled one has none. `HwSpec`: `HwBreakpointsArm` refines `HwBreakpointsAbstract`, the step-over being one internal step. `get_hit_hw_breakpoint` reads the siginfo of the last stop, which every stop rewrites, and its `si_code` test (348) keeps a stale hit from being reported, unlike DR6 on x86_64 (section 5). |
| `arm_watch_resume` | violation (`ResumePastHit`) | as `arm_table` | A watchpoint at 1 over 8 bytes traps on an access to byte 2 or 3. `is_breakpoint_hit` wants `si_addr` equal to the base, so `prepare_for_run` finds no hit, and the thread is resumed with the entry armed onto the same access: it traps again, every time (8 states deep). |
| `arm_singlestep` | violation (`SlotForEveryEnabled`) | as `arm_table`, `LiveSpec` | `singlestep` on a thread stopped at an execute breakpoint removes it, steps, and reinstalls at once. With the thread still stepping, GET and SET both fail and the breakpoint stays enabled in the list with no entry programmed. A failed GET and a SET after the step ends writes a zeroed set plus this entry, dropping the others. |

The 4 addresses of `hw_table` fill all four slots in every order of
registration and removal. Threads do not share debug registers, and the list
keys them by thread, so the two-thread runs add the per-thread filters of
`get_hit` and the lookups. A two-thread, three-address `TableSpec` run did not
finish in 15 minutes. On AArch64 the three addresses fill
the three implemented entries of a set. The eight-byte watchpoint lets a trap
report an `si_addr` other than a registered address, which may equal another
registered address.

### stepping_finish runs

| Run | Expect | What it shows |
|---|---|---|
| `finish_core` | pass (11,707 states) | `PlainFinishLeavesFrame`: entered inside a function on an ordinary instruction, with nothing to step over and no SIGSTOP queued, `stepping_finish` returns one frame out, at the frame's return address. It may instead stop on a breakpoint on the way. This holds across nested calls, breakpoints in the callee and at the return address. `PlainFinishReturns` (liveness): such a call returns. |
| `finish_sigstop` | violation (`FinishLeavesFrame`) | The same property with no precondition. A SIGSTOP that raced the thread's stop in `wait_all_and_update_regs` is still queued. It takes the first single-step, the IP does not move, and the code returns as if a hardware breakpoint had been hit (line 1207). |

`FinishLeavesFrame` also fails for two other starting points:
- On a `call`, or on a breakpoint whose step-over in `prepare_for_run`
  reaches a `call`: the loop never examines that call, so the callee's `ret`
  ends it inside the same function. `previous_ip` is the cached IP, which
  the step-over made stale.
- On a `ret`: the ret is not counted, and the thread leaves two frames.
  When the caller never returns (here `main`), it is stepped for ever.

The precondition `plain` excludes exactly these cases.

### Detach

`detach_rewind`: a violation of `DetachKeepsPosition`. When the first setregs
of `ptrace_detach_for_migration` fails because a thread was resumed, the code
stops the thread and writes the registers cached at the last stop. That moves
it back to where it stopped.

## 4. Fairness

- Kernel actions (`Execute`, `HitTrap`, `DeliverSigstop`,
  `StepInstruction`, `DeliverSignal`, `ThreadExit`) are weakly fair per
  thread. The kernel schedules runnable threads, delivers pending signals,
  and ends a thread resumed from its exit event. Weak fairness on
  `StepInstruction` does not force a step to finish: `Block` disables it,
  and a stepped system call that blocks never finishes.
- The core's internal steps are weakly fair. It is a sequential program that
  does not stop part way through a call.
- `Block`, `ExitEvent` and `RaiseSignal` have no fairness. A thread may
  block or exit, and another process may send a signal, but none of them
  has to.
- Caller actions (`TableCall`, `SetRegisters`, `ContAll`, `SingleStep`,
  `StepUntil`, `DetachBegin`, `KillBegin`, `unregister_thread`,
  `ForwardSignal`) have no
  fairness. The Python side may never call
  anything.
- `SteppingFinish` uses the same split. The kernel's `StepInstruction` and
  `DeliverSigstop` are weakly fair, as are the core's `PrepareWait`,
  `StepWaitAbort`, `StepWaitNext` and `LastWait`. The caller's
  `stepping_finish` has no fairness.
- `HwBreakpoints` and `HwBreakpointsArm` check no liveness and assume no
  fairness. `ResumePastHit` is the safety form of the AArch64 step-over's
  progress: a resume onto an armed entry's own trap is checked as a step.
- `HwBreakpointsArm` does not model the SIGSTOP `wait_all_and_update_regs`
  may leave pending. Its hardware step-over has no `4991` retry (line 926),
  so that SIGSTOP would take the step; `Tracer` checks the software case.

## 5. Not modelled yet, and the plan

Observed but not checked by a run (the run budget goes to deeper questions):
- `free_breakpoints` frees the hardware entries without removing them, so
  the DRs stay programmed. Registering the address again takes a second
  slot, and disabling it leaves the first one trapping (found with
  `HwBreakpoints`' `Spec` and `SlotForEveryEnabled`, 2 threads, 2 addresses).
- A fifth x86_64 hardware breakpoint finds no slot.
  `install_hardware_breakpoint` only calls `perror`, but
  `register_hw_breakpoint` has already linked the entry enabled (line 1263).
  Spec 8 says it is rejected with no change of state.
- `disable_breakpoint` while a breakpoint is patched leaves the trap in
  memory for good, because patch and restore skip disabled entries. Spec 4.3
  says memory follows on the next boundary.
- `get_remaining_hw_breakpoint_count` returns 4 minus the index of the first
  free DR. With DR0 freed and DR1 in use it reports 4 free slots, not 3.
- `remove_hardware_breakpoint` leaves the DR7 local-enable bit of the slot set
  (line 190), so register then unregister does not restore DR7 bit for bit
  (spec 8 round-trip law). With the address cleared, the bit arms address 0
  only, and the next install in the slot rewrites it.
- On AArch64, `is_breakpoint_hit` compares `si_addr` with the
  breakpoint's address (line 354). For a watchpoint the kernel reports the
  accessed address, which can be any byte of the watched range. Take a write
  watchpoint at 1 over 8 bytes and an execute breakpoint at 2. A write to
  byte 2 is blamed on the breakpoint at 2, and a write to byte 3 is missed.
  TLC found both in 4 steps of `HwBreakpointsArm`. The missed case makes
  `prepare_for_run` resume onto the same access for ever (`arm_watch_resume`).
  Spec scenario 5, a write of the whole variable at the watched address, is
  the case that works.
- On AArch64 both `get_remaining_*` counts return `dbg_info & 0xff`, the
  number of entries the hardware has. That is not the number still free.
- The `original_word` that `register_breakpoint` saves can contain a
  neighbouring breakpoint's trap, when the two are less than a word apart.
  `RestoredOnReturn` checks the byte at each breakpoint, which is right; the
  rest of the word is not.

- On x86_64, DR6 is never cleared by the library. After a hardware trap, a
  stop for another reason still shows the old slot, and
  `get_hit_hw_breakpoint` names a breakpoint that did not cause the stop
  (`HwBreakpoints`' `HitIsCurrent`, 2 threads, addresses 1-2).
- `ptrace_detach_and_cont` never writes the original words back, so the
  resumed child executes a trap untraced and dies of SIGTRAP (spec 8
  scenario 6 says it runs to completion). `DetachedRunsClean` with
  `Tracer.cfg`'s constants is violated (run retired for the signal runs).
- `step_until` continues without counting whenever the IP did not change
  (line 839), so `max_steps` does not bound the loop: a step that cannot move
  the IP makes a bounded `step_until` loop for ever. `StepUntilReturns` with
  `Tracer.cfg`'s constants is violated (run retired for the signal runs).
- `step_until(t, addr)` with `addr` the thread's current IP returns 0, as if
  the target were reached, when the thread exits during the step: getregs
  fails and leaves the cached IP equal to `addr`.
- A thread that exits while `wait_all_and_update_regs` interrupts it makes
  its `waitpid` fail; the uninitialised `temp_status` (line 994) is then put
  in the returned list. The model drops that record (`WaitOneGone`).

Not modelled, and why:
- **Threads created during a run.** `register_thread` is called by the
  Python side on a clone event it decodes with `ptrace_geteventmsg`; the
  order of that against the library's loops is the Python side's, so the
  thread list is fixed at attach in the model.
- **`ptrace_reattach_from_gdb`** (643-656). Its getregs right after
  PTRACE_ATTACH races the attach stop (hazard 652), but whether stale
  registers matter depends on what gdb left behind and on whether the
  Python side calls `wait_all_and_update_regs` (which refreshes them)
  before the next resume; neither is in this repository's C code.
- **ptrace failures on a live, stopped thread.** The kernel makes these
  calls fail only for a thread that is gone or not stopped, which the model
  covers; an `EFAULT` on a bad address belongs to the memory wrappers, which
  return the error to the caller.
- **PTRACE_SYSCALL mode** only selects the request in
  `cont_all_and_set_bps`; system-call stops are decoded by the Python side.

Out of reach or out of scope:
- FP/XSAVE register I/O and `ptrace_geteventmsg`. These are I/O with no
  control flow of the library's own. Of `ptrace_set_options` the model
  keeps the PTRACE_O_TRACEEXIT stop (`ExitEvent`). The fork, clone and exec
  events belong to the Python side's handling of new threads (above).
- The benchmark tracee under `src/test`.
- The AArch64 `ptrace_peekuser`/`ptrace_pokeuser` (706-752). Each is one
  GETREGSET, or a GETREGSET, a one-word change and a SETREGSET, made by the
  single caller thread on a stopped tracee. No other writer can interleave.
- DR7 as a 64-bit word. The `int` overflow of `3 << 30` (line 158) and of
  `2 << 30` (line 152) changes only bits 32-63, which hold no field.
