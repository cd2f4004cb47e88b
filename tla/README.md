# Verification of riscv-test-scripts

This directory holds TLA+ models, TLC configurations and TLAPS proofs for the
RISC-V test programs and scripts of this repository (`src/`). The programs
are bare-metal C for QEMU `virt` and for the emulator riscv_em: they drive
privilege levels, delegation, interrupts, physical memory protection (PMP) and
Sv32 translation, and two shell scripts run them on both machines and compare the
register traces. A test "passes" when it reaches the function `pass()`, and several
handlers call it whatever happened: the interesting question is therefore not
whether a test passes but whether it passes *for the reason it is named for*,
on every platform and under every order of interrupts.

## 1. Inventory

| Component | Code | State | Operations | Here |
|---|---|---|---|---|
| Hart, CLINT, PMP, Sv32 (the platform) | external; driven through `helper/riscv_helper.h`, `helper/priv_helper.h` | privilege mode, `mstatus`, `m/sepc`, `m/scause`, `medeleg`, `mideleg`, `mie`, `mip`, PMP entries, `satp`, `msip`, `mtime`, `mtimecmp` | trap entry with delegation, `mret`, `sret`, CSR writes, taking an interrupt, checking and translating an access | `Hart`, `Pmp`, `Sv32`, `ReloadTimer` (partly: no instructions) |
| Privilege-level tests | `privilege_levels/*.c`, `init.S` | the CSRs, `msip`, the stack frame of an interrupted handler | `kmain`, the three test functions, `machine_trap`, `supervisor_trap`, `reload_timer`, `pass` | `PrivPrograms`, `PrivTests`, `PrivLadder` over `EcallLadder` |
| PMP tests and helper | `pmp/*.c`, `helper/pmp_helper.c` | the PMP entries, `mstatus.MPP/MPRV` | `main`, the two address helpers, the handler | `Pmp`, `PmpPrograms`, `PmpTests`, `PmpGuarded` over `PmpGuard` |
| PMP user programs | `pmp/userspace_test_programs` | none but their accesses | the accesses, `ecall` | `PmpPrograms`, `PmpTests` (partly: one file is never built) |
| MMU tests | `mmu/mmu_*.c` | `page_table`, `satp`, `mstatus.SUM/MXR` | `Sv32_mmu_map_virt` and its exec-only sister, `kmain`, `machine_trap` | `Sv32`, `MmuTests` |
| MMU supervisor and user programs | `mmu/*_test_programs` | none but their accesses | the accesses, `sret`, `ecall` | `MmuTests` |
| Nested interrupt and ecall tests | `mytests/irq_test*.c`, `ecall_test.c` | `mepc`, `mstatus`, `msip`, the handler's frame across nested traps | `main`, the handler, `pass` | `NestedIrq` over `TrapStack` |
| Machine timer reload | `privilege_levels/priv_irq_deleg.c` | `mtime`, `mtimecmp` | `reload_timer` | control in `PrivTests`, arithmetic in `ReloadTimer` |
| Trace harness | `build_qemu_tests.sh`, `build_riscv_em_tests.sh`, `step_mult.gdb`, `scripts/convert_*` | QEMU processes, trace and state files, the `done` file, `EXIT_CODE` | start QEMU, attach gdb, continue, kill, convert, cut, compare | `Harness` |
| Build scripts and lists | `tests.sh`, `scripts/build_*` | compiled programs, a `done` file of their own | compile each program of a list | lists in the program modules, stop-at-first-failure in `Harness` (partly) |
| Instruction tests | `mytests/csr_test.S`, `test_printf.c`, `mem_out_of_bound_test.c`, `write_read_special_regs.c` | - | straight-line code | not modelled |
| Upstream suites | `riscv_test.h`, `patches/`, `apply_patches.sh` | - | - | not modelled (submodules, absent) |

**How they interact.** A test program and the hart share the CSRs; the hart calls
the program's handlers through `mtvec`/`stvec`; handlers pass control back with
`mret`/`sret`, having rewritten the very CSRs that hold the return state. The
CLINT raises interrupt lines at its own time. A PMP or MMU test's `main` jumps to a
separately linked program. The harness starts QEMU in the background, sends gdb to
TCP port 1234, waits for the breakpoint at `pass()`, kills QEMU by name, and cuts
the trace at the first line of `pass()`.

**What is hard here.** (a) Interrupts come between any two instructions, including
between the store to `msip` and the next instruction. (b) Return state (MPP, MPIE,
`mepc`) is a one-deep stack that nested traps overwrite. (c) The same program
runs on platforms that differ: without PMP, with one that refuses what is not
covered, with QEMU >= 6, which makes `mret` illegal when no entry is on. (d) MPRV
makes `main`'s *own* loads and stores those of another level. (e) PMP encodings
are off-by-one country. (f) Handlers pass on any cause, or loop on any cause.
(g) The page table has one second-level array for all of the address space.
(h) rv32 writes half of a 64-bit comparison. (i) The harness orders its processes by
`sleep 1` and looks at no exit status. `PROJECT.json` lists these at their lines under
"hazards", with the properties that cover each, or the reason none does.

**What makes each component correct.**
- Privilege tests: functions run at the level of their name; the ecalls climb
  user, supervisor, machine without skipping or repeating; `pass()` is earned by the
  last ecall; each interrupt reaches the handler the test is named for; enabled tests
  terminate in `pass()`.
- PMP tests: an entry covers exactly the region `main` meant; exactly the accesses
  inside opened regions are made; each test ends in the trap its name promises.
- MMU tests: what is left of the map requests suffices for what the programs access;
  the supervisor program is closed to user mode; each test ends in the trap of its name.
- Nested tests: every trap returns to where it was taken, the last first; the traps
  are those of the name, in its order; the interrupt is cleared.
- Timer: the interrupt is due after the interval and not earlier; on rv32, exactly when it is due instead.
- Harness: gdb talks to the QEMU of its own test; `done` means all files are there;
  without faults every file ends at `pass()`; an error is not forgotten; both
  scripts end.

## 2. Modules

```
Hart -- PrivPrograms -- PrivTests -- PrivLadder -- MCPrivTests         (TLC)
  |                         |            |-- EcallLadder  (abstract, INSTANCE)
  |                         |-- PrivTestsProofs -- PrivLadderProofs
  |---- PmpPrograms --- PmpTests --- PmpGuarded -- MCPmpTests          (TLC)
  |  Pmp ----/              |            |-- PmpGuard     (abstract, INSTANCE)
  |   |-- PmpAddrProofs -----------------|-- PmpProofs
  |---- NestedIrq ------------------------------- MCNestedIrq          (TLC)
  |         |-- TrapStack (abstract, INSTANCE)    NestedIrqProofs
  |---- MmuTests -------------------------------- MCMmuTests           (TLC)
     Sv32 --/                                     MmuProofs
Harness ----------------------------------------- MCHarness            (TLC)
                                                  HarnessProofs
ReloadTimer ------------------------------------- MCReloadTimer        (TLC)
                                                  ReloadTimerProofs
```

A definition whose comment calls it "a variant with a mistake" is not part of any
specification; see "Every property can fail" below.

### Hart (external)
A hart is a record; every operator maps a hart to the hart after an event: `EnterM`,
`EnterS`, `Trap` (which of the two, by `medeleg`/`mideleg`), `Mret`, `Sret`,
`WriteSstatus`, and the interrupt rule `Takeable`. `on` is the set of one-bit
`mstatus` fields that are 1, `mpp` the two-bit field MPP with its encoding 0, 1, 3. Only
fields the programs use are present. A module INSTANCEs `Hart` with the code
locations its `mtvec` and `stvec` point to.

### PrivPrograms, PrivTests
The eleven files of `privilege_levels/` are the same skeleton with different CSR
writes and with some branches present or not. `PrivPrograms` has a record per file
(what `kmain` writes; which branches exist) and `PrivTests` the skeleton, one
action per stretch of C between two transfers of control:

| Action | Code |
|---|---|
| `KmainReload`, `Kmain`, `KmainMret` | `kmain`: call of `reload_timer`, CSR writes, `mret` |
| `UserTestFunc`, `SupervisorTestFunc`, `MachineTestFunc` | the test functions up to their ecall, the `sstatus` write included |
| `MachineTrapSoftwareIrq`, `MachineTrapClimb`, `MachineTrapPass`, `MachineTrapTimerIrq`, `TrapReload`, `MachineTrapSpin` | branches of `machine_trap` in the order the code tests them |
| `SupervisorTrapEnter`, `SupervisorTrapStore`, `SupervisorTrapClimb`, `SupervisorTrapPass`, `SupervisorTrapSpin` | `supervisor_trap`, cut before and after the store to `msip`: the interrupt of this store may come after it, that of an earlier one before it |
| `RefuseFetch`, `TakeInterrupt`, `ClintRaises`, `ClintLowers`, `TimerExpires` | hardware |

An interrupt can be taken wherever `pc` is and the hart allows it, so between all of the
program's actions. `stale` records that `machine_trap` left by the `mret` in
the middle of the C function (`priv_nested_deleg_ecall_irq.c:82`), so the
interrupted `supervisor_trap` goes on with a foreign frame pointer: its store through
`p_msip` hits `msip`, something else, or faults, and its comparison of the local `scause`
has either outcome.

`platform` is chosen once per behaviour: the kind of PMP, the value the build
gives to the undefined `1 << 64` of `TRAP_MCAUSE_IRQ` on rv64 (a choice over what a
compiler can produce), and whether the linked libc `printf` is built on ecall.

### EcallLadder, PrivLadder
`EcallLadder` is the promise of a ladder test: climb one rung per ecall from user
mode to the top, pass there and nowhere else. `PrivLadder` maps a state of `PrivTests` to a
rung: in a handler the rung is the level the trap came from, read from MPP or SPP.
Programs that are no climbers stay at the foot, so the refinement can be checked on all
eleven programs at once.

### Pmp, PmpPrograms, PmpTests, PmpGuard, PmpGuarded
`Pmp` has the two helpers of `pmp_helper.c` and, external, the decoding of an entry
and the permission check. Addresses are in words of four bytes, the unit
of `pmpaddr`; `(base + (size/2 - 1)) >> 2` on bytes becomes
`base + (2*size - 1) \div 4` on words (the division by 4 rounds down as the shift does).
`PmpPrograms` has one record per file of `pmp/`: the four regions (how encoded, where,
for what, locked), MPP, MPRV, whether `main` calls `pass()` itself, the user
program as a sequence of accesses, and the trap the test's *name* promises (`*_err`: the
fault of its kind; else the ecall). `PmpTests` runs it: `MainPmp` (all PMP
writes, one action, as nothing can trap between them), `MainMstatus`, then
`Granted`/`Refused` for each access, which from here on include `main`'s own stack
accesses under MPRV, `MainMret` or `MainPass`, `UserEcall`, and `Handler`, whose
register saves can fault themselves. `pmp_user_*` repeat accesses in loops; a
repeated access is listed once, as PMP checks have no memory. Platforms differ in: PMP
absent, strict, lenient or QEMU 6; whether the reserved W-without-R keeps or drops W;
whether `mret` clears MPRV.

`PmpGuard` is the promise of a PMP test with regions as plain intervals: accesses are
made in order while the next one lies in an opened region, and none is made
that does not. It knows no encodings, no matching order and no MPRV; `PmpGuarded`
maps `PmpTests` to it.

### NestedIrq, TrapStack
One record per file of the four tests; the fields say what `main` does to start
(store to `msip` or ecall) and which branches the handler has, including the two
peculiarities of `irq_test` and `ecall_test`: `MCAUSE_MSI` without the interrupt bit
and `mcause` read into 32 bits, from which `Seen` computes what the comparison sees
on rv32 and rv64.

| Action | Code |
|---|---|
| `MainSetup`, `MainRaises`, `MainEcalls`, `MainPasses`, `MainEnds` | `main`: CSR writes, the store or the ecall, `pass()`, return or loop |
| `HandlerEnter` | prologue and the comparison of `mcause` |
| `EcallBranch`, `PassInHandler`, `AdvanceMepc` | the ecall branch; a nested interrupt is raised, or `pass()` called, before `mepc` is read and advanced |
| `MsiBranch`, `MsiClear`, `MsiReadsMip` | the interrupt branch; an ecall in one of the tests, then the store and the read of `mip` |
| `Epilogue`, `HandlerMret`, `HandlerMretTraps` | the store at the end, the frame popped, the `mret` the `interrupt` attribute generates |
| `RefuseFetch`, `TakeInterrupt`, `ClintDrives` | hardware |

On a platform that is not `prompt`, the line follows `msip` with any delay and the hart
takes the interrupt at any later instruction. After a return into the handler without
its frame the pointer `p_msip` is whatever the stack holds: `MsiClear` then has three
outcomes (it hits `msip`, something else, or faults).

`TrapStack` is the abstract promise: a trap pushes the context that is to go on, behind
the ecall or at the interrupted instruction, and a return goes to the top of the stack.
The history variable `due` is that stack, `NestedIrq!Context` the context that runs.

### Sv32, MmuTests
`Sv32` is `Sv32_mmu_map_virt` (`Map`) on page numbers, with the table as the code has it: a
set of valid root entries and *one* second-level array indexed by the low ten bits;
and, external, the walk and the permission check with U, SUM and MXR. `MmuTests` has
a record per test (rights of the supervisor page, user program or not, `mstatus`),
the requests of `kmain` in their order (`Requests`: 128 RAM pages, the programs, the UART), and
the supervisor and user programs as sequences of accesses: stack, UART, and the
read of its own code for `mmu_supervisor_mxr`.

| Action | Code |
|---|---|
| `MapVirt` | one call of a map function by `kmain` |
| `KmainMret` | `satp`, `mstatus`, `mepc`, `mret`; on rv64 `1<<31` sign-extends to a reserved mode and `satp` does not change |
| `MakeAccess`, `RefuseAccess` | an access, and the fetch before it, below machine mode |
| `SupervisorSret`, `Ecall` | the `sstatus` write, `sepc` and `sret`; the ecalls |
| `MachineTrap` | report and `while(1)` |

Platforms differ in XLEN, PMP, and whether the hart sets the A and D bits itself: the programs
leave them 0, so on a hart that does not, every access is a page fault.

### ReloadTimer
`mtime` and `mtimecmp` are two halves of any size. `ReadTime` and `StoreCmp` are the two
accesses of `reload_timer`: all of the value on rv64, the lower half and a sum modulo its
size on rv32. `Tick` may come between any two steps and
the initial values are arbitrary; `TimerIrq` is `machine_trap` calling `reload_timer` again.

### Harness
The script is a program counter over its commands; QEMU processes are records beside it,
so that `Script` and the QEMU steps interleave.

| Action | Code |
|---|---|
| `CheckDone`, `Build` | the `done` test and `build_riscv_tests.sh`, whose exit status nobody looks at |
| `StartQemu`, `SleepStart` | `qemu-system-riscv ... &`, `sleep 1` |
| `GdbConnects`, `GdbFindsNobody`, `GdbBreaks` | the gdb command: connect to whoever has the port, continue to `pass()`, quit |
| `Kill`, `SleepKill` | `kill -9 $(pgrep ...)`, which can miss a process that is only starting; `sleep 1` |
| `Convert`, `TouchDone` | conversion, cut at the success symbol, `touch done` |
| `EmBuild`, `EmTest` | `build_riscv_em_tests.sh`: build, run, convert, compare, `EXIT_CODE` |
| `QemuListens`, `QemuRunsFree`, `QemuIsGone`, `Interrupt` | QEMU gets the port or exits, runs on without gdb, dies; somebody stops the script |

What the sleeps stand for is an assumption that holds unless the fault set of the
behaviour says otherwise: `slow_start` and `slow_kill` lift "QEMU listens" and "QEMU is gone"
after a second, `slow_run` lifts "QEMU has got through `pass()` before it is killed", and
`no_qemu`, `build_fails` and `interrupt` are what else can go wrong. Traces are reduced to
how far they go: none, empty, short of `pass()`, through it, or garbled by two writers.

## 3. Runs

| Run | Question | Result |
|---|---|---|
| `priv_all` | eleven programs, every platform: functions run at the named level (`FuncRunsAtItsLevel`, inductive `LevelInv`); no delegated ecall reaches `machine_trap`, also with software interrupts in between; `pass()` is earned (`PassIsEarned`); the enabled three implement `EcallLadder` (`LadderClimbed`, inductive `LadderHolds`) and reach `pass()` (`EnabledTestsPass`); STI reaches the handler in the name (`StiGoesWhereTested`, `StiIsTaken`); the timer keeps firing; unfinished tests do not pass; a raised software interrupt is served | holds, 1978 states |
| `pmp_all` | fifteen programs, every platform: entries cover their regions, the trap is the one in the name (`TrapAsNamed`), `PmpGuard` is implemented, every test reaches `pass()` | holds, 1880 |
| `nested_irq` | four programs, every platform: `TrapStack` is implemented (`TrapsNest`, inductive `OneTrapAtATime`), traps as named, `pass()` reached, interrupt cleared | holds, 2733 |
| `mmu_tests` | three programs, every platform, the real page numbers: requests survive until their index is reused (`LastRequestWins`), accesses reach what is meant, the supervisor program is closed to user mode, each test ends in its trap (`EndsInNamedTrap`) | holds, 4857 |
| `harness` | two tests, one interruption, every set of at most two faults: `done`, completeness, the peer of gdb, `EXIT_CODE`, termination | holds, 130942 |
| `timer` | halves of 8 values, interval 5, rv32 and rv64, all initial values: when the interrupt is due, with rv32's lost carry and unwritten upper half (`DueAfterInterval`) | holds, 560279 |
| `priv_nested_pmp`, `priv_timer_rv64`, `pmp_tor_start`, `nested_irq_ecall`, `mmu_shared`, `harness_empty` | a statement of a comment, declaration or script that the code contradicts | violated, see 4 |

**Bounds.** The state of a test program is finite: the first four runs use the
repository's actual programs with every platform, so TLC explores all of the
model's behaviours. `MaxTraps = 3` only bounds a history: the longest name announces two
traps, and a third is the one too many. `Entries = 1024` and `RamPages = 128` are the
code's own numbers. In `harness`, two tests are enough for a process of one test to
meet the next, `MaxInterrupts = 1` for one of a stopped run to meet the next run, and two
faults at once for one to hide another; all combinations of which test reaches
whose `pass()` are initial states. In `timer`, halves of 8 values let the carry, the wrap of the
lower half and every relation of the upper halves happen within reach; a behaviour ends
before `mtime` itself wraps, after 2^64 ticks. Section 5 proves every invariant
and every refinement of the six runs without these bounds. `CHECK_DEADLOCK FALSE` stands in every configuration because the
programs and scripts do stop: in `pass()`, `while(1)` or at their last line.

**Fairness.** `PrivTests!FairSpec` and `NestedIrq!FairSpec` have weak fairness of `Execute` (a hart that can
execute the next instruction does), of `TakeInterrupt` (an interrupt that stays
takeable is taken at some instruction, as the architecture requires) and of the CLINT
(`msip` and the timer comparison drive level-triggered lines, with any delay).
`PmpTests!Spec` has weak fairness of `Next`: the hart keeps executing.
`Harness!FairSpec` has weak fairness of the script's commands and of each kind of QEMU step: the operating
system schedules all processes. Nothing is assumed
of the order between interrupts and instructions, nor that one of several
continuously enabled choices is ever taken. `ScriptsEnd` assumes that every test gets to its
`pass()`, which `EnabledTestsPass`, `PmpTestsPass` and `EveryTestPasses` show for the tests modelled.

**Every property can fail.** For each property of a passing run, `PROJECT.json` names a
variant of a mapped definition with one plausible mistake (a delegation bit
missing, MPP not raised, `msip` not cleared, SIE forgotten, an inclusive TOR bound, the UART
mapped first, the page index not masked, a sleep dropped, `touch done` inside the loop, ...) under which TLC
finds it violated. The variants stand just before the definition they vary.

**To repeat them.** In this directory, `tlc -config <run>.cfg <module>` with the
module `PROJECT.json` names for the run, and `tlapm <module>.tla` for each `*Proofs.tla`.

## 4. What the checks show about the code

Contradictions between the code and what is said of it, each with a run:

- `priv_nested_deleg_ecall_irq` opens RAM and UART in the PMP but not the CLINT, so
  with a PMP the store that should raise the interrupt faults
  (`priv_nested_pmp`). The program is not enabled in `tests.sh` (lines
  245-249 say QEMU advances `epc` wrongly in it).
- `TRAP_MCAUSE_IRQ` is `1 << 64` on rv64: undefined, and with the value 0 the timer
  interrupt is not recognised (`priv_timer_rv64`).
- Entry 3 of the TOR tests is not bounded below by `TEST_ACCESS_LOCATION_START` but
  by the encoded UART address of entry 2 (`pmp_tor_start`).
- `irq_test_irq_ecall_nested` passes inside its handler and never comes back to `main`:
  the inner ecall overwrites `mepc`, MPP and MPIE of the outer trap, and the outer
  `mret` goes back into the handler in user mode (`nested_irq_ecall`).
- The MMU tests map RAM to itself so that all modes access "the same mem area", but all root
  entries share one second-level array: pages 0x80002 and, in the tests with a user program,
  0x8000C are the programs and 0x80000 is the UART (`mmu_shared`). The tests work all the same because the
  stack is page 0x80007 (`AccessesReachWhatIsMeant`).
- A test that ran on neither machine is reported as a success, because two empty
  files are identical (`harness_empty`).

Other facts, stated as parts of properties that hold:

- `reload_timer` calls the libc `printf`; where that is an ecall, the timer test
  passes in `kmain` (the exception in `UnfinishedTestsNeverPass`).
- `priv_nested_deleg_ecall_irq` may call `pass()` on its first ecall, with
  `supervisor_test_func` never run, when the interrupt comes inside `supervisor_trap` and leaves it
  a stale frame (the exception in `PassIsEarned`).
- `pmp_mprv_s_mode` expects an exception from a `PMP_DEBUG` that is compiled out: the
  test promises no trap (`TrapAsNamed`) and goes the same way if MPRV is ignored.
- `pmp_do_nothing` says nothing is checked when no entry is on; that depends
  on the platform, and the test passes either way (`TrapAsNamed` has it only where the PMP is lenient).
- `pmp_tor_write_err` asks in a FIXME whether the missing fault is a bug in QEMU or in
  the test. On a PMP as specified the test does fault on the write: entry 3 matches the
  word, has no W, and no lower entry matches.
- `pmp_tor_exec_err` has no TOR entry: its fetch fault comes from entry 1 without
  X, and is what its name asks for.
- On rv32 no branch of `irq_test`'s handler recognises the interrupt (`MCAUSE_MSI` lacks the
  interrupt bit); the store at its end saves it (`SoftwareIrqServed`).
- `mmu_sum` traps with cause 12 whatever SUM is, since supervisor mode may never fetch
  from a user page.
- On rv32 the timer interrupt is due after the interval only when the upper half of
  `mtimecmp`, which nobody writes, is that of the sum; with a smaller one, or a carry, it is there at
  once, with a larger one multiples of 2^32 ticks late (`DueIn` in `DueAfterInterval`).
- `PeerIsOwn` needs that QEMU starts within the second and that the script is not stopped: a
  late QEMU is missed by the kill, and one left behind by a stopped script is met by the next run's first gdb.

## 5. What is proved

TLAPS checks every theorem below, for all values of the constants that meet the
named assumptions (the types of the program records and platforms; positive numbers).
Every invariant and every refinement that a passing run checks is the statement of a theorem.
Where one needs more of a program than its type, the theorem names the condition as
an operator, and a theorem `Repository...` shows that the files of the repository meet it, so that the
result stands for them without a hypothesis. The conditions are what a new test would have to keep to.

**Types.** `TypeCorrect` in six of the proof modules: `Spec => []TypeOK`. The argument is a lemma for
each hart event (`EnterMType`, `TrapType`, `MretType`, ...) and one case per action.

**Levels.** `FuncsRunAtTheirLevels`: every set of well-named programs on any
platform. `FuncRunsAtItsLevel` is not inductive: what matters is what MPP
and `mepc` hold while machine-mode code that ends in `mret` runs, and an interrupt can
save any pair. `LevelInv` adds that whenever that code runs and `mepc` is a
test function, MPP is its level, and that the middle of `supervisor_trap` is
entered only in programs that climb. `WellNamed` (a program enters at the
level of the function it enters, and only climbs with functions named by their level)
is the hypothesis; `RepositoryFuncsRunAtTheirLevels` discharges it for the eleven programs.

**Delegation.** `DelegatedEcallsCorrect` has no hypothesis. A trap looks at `medeleg` when it
is taken, the property at the handler later. `DelegInv` says of a program that delegates both ecalls that
nothing can trap before `kmain` has written `medeleg`, that nothing leads back there, and that
`mcause` never holds an ecall from below machine mode.

**Earned.** `PassEarned`, for climbing programs that delegate nothing but the ecalls of user and
supervisor mode (`DelegatesOnlyEcalls`). `supervisor_trap` reads `scause` into a local, may be
interrupted, and passes on the local; machine-mode handlers return into the middle of
it. `EarnedInv` therefore speaks of the return state too: when `mepc` is in `supervisor_trap`
or is `pass`, MPP is S and `scause` still is an ecall from below, the last one unless the frame is stale; a trap taken
in a machine-mode handler is never returned from. A delegated exception of another kind would break it,
which is why the hypothesis is there.

**Interrupt tests.** A `SpinningTest` leaves one interrupt to take and a loop to take it in.
`StiGoesWhereDelegated` says of every such program, from its `mideleg`, MPP, SIE, MIE and MPIE, who can take it
(`MachineTakesSti`, `SupervisorTakesSti`); `StiInv` follows the flags through each place it can come.
`RepositoryStiGoesWhereTested` is the instance for the six files.
`RepositoryUnfinishedNeverPass` adds `TimerInv` for `priv_irq_deleg`, where the one trap that could pass is
the ecall of a libc `printf` inside `kmain`'s call of `reload_timer`.

**Ladder.** `PrivLadderProofs!LadderImplemented`: every set of programs whose climbing ones
have the shape `LadderProgram` implements `EcallLadder`. `LadderInv` says where the hart can be
together with the privilege mode there and, in a handler, that the cause is the
ecall of the very level the handler would return to; without it a trap
could report one level and return to another. `RepositoryTestsClimb` discharges the hypothesis.

**PMP encoding.** `PmpAddrProofs!NapotExact`: for every NAPOT size up to 2 GiB and every
base aligned to it, the value `pmp_get_napot_addr` returns decodes to exactly the
region. The size is decoded as the number of trailing ones, so the proof
shows that no other size fits the value: for a smaller one the trailing
part would be all ones (`OnesBelow`), and likewise for a larger one seen from
the smaller (`NapotSizeIs`).

**PMP entries.** `PmpProofs!EntriesCorrect`: in every run of every program with well-formed
regions the entries in force cover exactly those regions. `PmpAsWritten`
(from the PMP writes on, until a trap, the entries are the encoded regions) is the invariant; it is
inductive because no `mret` leads back from the handler.
`RepositoryEntriesCorrect` discharges `WellFormed` for the fifteen programs.

**PMP guard.** `GuardImplemented`: `PmpTests` implements `PmpGuard`, on every platform. PMP takes the *lowest* entry
that matches and `PmpGuard` the *union* of intervals. The two agree on an access when the regions decide
it (`Decided`): its word is in one region only, a TOR region begins where it was meant to or what lies before is
covered by a lower entry, and no write relies on W without R. `GrantsOpens` is that
fact; `Checked` asks it of the accesses that are made if those before them are, and of `main`'s own. It also asks
that `main` under MPRV is bound as the user program is (`OneMode`). `GuardInv` ties
the rest of the accesses to the rest of `PmpGuard`'s, and has a case for a platform that checks nothing
while no entry is on. The 15 programs meet `Checked` (`RepositoryFine`), which computes the
lists of accesses and the rule for each.

**PMP traps.** `NamedTraps`: for programs that also meet `TrapNamed` (the name promises the
fault of the first access no region opens, else the ecall), `TrapAsNamed` holds. The handler
can fault in its own register saves and so pass with a second cause; `TrapInv` excludes it: on the platforms
the property speaks of, the handler is entered from the user program only, hence with the stack
open to it.

**Nested traps.** `NestedIrqProofs!TrapsNestAlways`: every program of the declared type whose handler makes
no ecall implements `TrapStack`. `OneTrapAtATime` is the invariant and inductive as it stands: main
with an empty stack, or one frame of the handler with interrupts off and `mepc`, MPP and MPIE
holding the one context due, with `mepc` still to be advanced exactly in the ecall branch.

**Named traps, nested.** `NestedIrqProofs!NamedTraps`: on a prompt platform every program that meets `Announces`
takes the traps of its name in that order before it passes, nested interrupts and ecalls of the
handler included. `Announces` says that the interrupt is ended in its branch or at the end of the
handler, and that a handler that makes an ecall or raises an interrupt was started by the other of the two. Without
the first the interrupt would be taken again. The invariant is a list of phases (`Before`, `InEcall`, `Pending`, `InMsi`,
`InNested`, `AllTaken`), each with the traps so far, the line and `msip`. `MaxTraps >= 2` lets the history hold a name.

**MMU.** `LastRequestAlwaysWins` for any table size and any requests of the shape of `Requests`;
`SupervisorProgramStaysClosed` for up to 128 RAM pages: no RAM page is mapped to the frame
the supervisor program is copied to. `AccessesAlwaysReachWhatIsMeant` follows from the former: when the last request
has been made, none after the request of an accessed page has its index.
It takes `Entries = 1024`, as the indices of the pages depend on it.
`TrapsFollowRights`: for any rights of the supervisor page and any of SUM and MXR, with or without a
user program, the cause in `machine_trap` is `Outcome`: a fetch fault without X or with U, a write fault
without SUM (the stack is the user's too), a read fault of its own code without R and MXR, else the ecall of the program that runs
last. `RepositoryEndsInNamedTrap` is its instance for the three tests; it also says why
`mmu_sum` cannot show what SUM does. Programs that set MPRV are outside (`OnlySumMxr`).

**Timer.** `AlwaysDueAfterInterval` for every size of a half, every interval below it and every value
`mtimecmp` may have held. The
invariant (`TimeInv`) is that `mtime` is what was read plus `age` ticks, and that `now`, then
`mtimecmp`, are what the width lets through; `CmpVal` says which number the half-written
`mtimecmp` then is, and the rest is a comparison of two-digit numbers.

**Harness.** For any number of tests and interruptions, each with its own invariant: the
conversion loop has written all files before its position, and `done` comes after the
loop (`DoneInv`); an error in a test before the position is in `exitCode`
(`ErrorsCounted`); at most one QEMU lives, its state fits the script's command, and none lives between
the rounds (`OneQemu`), which gives `PeerIsOwn`; without faults the traces before
the position go through `pass()` (`CleanInv`).

**Model-checked only.** Liveness: `EnabledTestsPass`, `StiIsTaken`, `TimerKeepsFiring`, `SoftwareIrqIsServed`,
`PmpTestsPass`, `EveryTestPasses`, `SoftwareIrqServed` and `ScriptsEnd`, as the provers have no reasoning about fairness or
ENABLED. TLC checks them on the whole state graph of the repository's programs, `ScriptsEnd` on two tests.
The statements of the six violated runs are not theorems.

## 6. Not modelled

Instruction execution, the contents of messages the programs print, register values
other than the CSRs above, linker layout except the memory map in
`PmpPrograms` and `MmuTests`; the layout of the stack behind `stale`; bus errors. PMP is
left out of `PrivTests`, `NestedIrq` and `MmuTests` except for what it does when no entry is open
for an access: the privilege programs open the same regions as
`pmp_everything_ok` without the user RAM, and only the CLINT store leaves them; the other two open none.
The text of traces and of register states: only how far a trace goes is kept, so what
`convert_*.sh` make of single registers is not.

- `csr_test.S`, `test_printf.c`, `mem_out_of_bound_test.c` and `write_read_special_regs.c` are straight
  lines of instructions with no trap handler and no second actor; they test the emulator's instructions.
- `pmp_user_something2.c` is in no list of `tests.sh` and is never built.
- `step_mult.gdb` is sourced by gdb, but the command it defines is never called.
- The compiler invocations of `scripts/build_*.sh` keep no state but the files they write.
- The upstream suites are submodules and not part of the source tree.

## 7. What is left

Nothing of the repository's own control logic is left out. What could be added: a
composition of `Harness` with the test programs, so that `hits` is computed rather than chosen;
and the privilege programs with PMP entries in full, in place of "RAM is open".
