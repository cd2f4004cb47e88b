------------------------------ MODULE PrivTests ------------------------------
(***************************************************************************)
(* A privilege-level test program (src/privilege_levels/*.c) running on a   *)
(* hart.  One behaviour is one program on one platform, from the entry of   *)
(* kmain until it spins.  Every action is one stretch of C code between two *)
(* transfers of control (a trap, a trap return, the while(1) at the end),   *)
(* or a step of the hardware: an interrupt is taken, the CLINT raises its   *)
(* line, a fetch is refused by the PMP.                                     *)
(***************************************************************************)
EXTENDS Naturals, PrivPrograms

CONSTANTS Programs,   \* the programs (records of PrivPrograms) to run
          PmpKinds,   \* what the platform does with physical memory protection
          IrqMasks,   \* the value the build gives to TRAP_MCAUSE_IRQ
          LibcEcalls  \* whether libc printf is built on ecall (libgloss)

\* The types of the fields of a program record.
ProgramType ==
    [pmp : BOOLEAN, timer : BOOLEAN, on : SUBSET Flags, mpp : Modes,
     medeleg : SUBSET Codes, mideleg : SUBSET Codes,
     mie : SUBSET Codes, mip : SUBSET Codes,
     entry : {"user_test_func", "supervisor_test_func"},
     superOn : SUBSET SFlags, spins : BOOLEAN, climbs : BOOLEAN,
     climbOn : SUBSET Flags, passM : BOOLEAN, msi : BOOLEAN]

ASSUME ProgramsAssumption == Programs \subseteq ProgramType

\* "absent": no PMP; "strict": an access below machine mode that matches no
\* entry faults; "qemu6": moreover, an mret to below machine mode is an illegal
\* instruction while no entry is on.
ASSUME PmpKindsAssumption == PmpKinds \subseteq {"absent", "strict", "qemu6"}

\* "irqbit": bit 31, as on rv32.  On rv64 TRAP_MCAUSE_IRQ is 1 << 64, which C
\* does not define: "zero" and "one" are the values a compiler may fold it to.
ASSUME IrqMasksAssumption == IrqMasks \subseteq {"irqbit", "zero", "one"}

ASSUME LibcEcallsAssumption == LibcEcalls \subseteq BOOLEAN

Platforms == [pmp : PmpKinds, irqMask : IrqMasks, libcEcalls : LibcEcalls]

VARIABLES prog,      \* the program that runs
          platform,  \* the platform it runs on
          hart,      \* the hart, see Hart
          msip,      \* the CLINT register msip
          stale      \* supervisor_trap was resumed with the frame pointer of machine_trap

vars == <<prog, platform, hart, msip, stale>>

\* Code locations: the test functions, supervisor_trap and what follows its
\* prologue (the store to msip, the comparison of scause), the two calls of
\* reload_timer, the mret of kmain and the while(1) of the traps.
TestFuncs == {"user_test_func", "supervisor_test_func", "machine_test_func"}

SupervisorBody == {"supervisor_store", "supervisor_compare"}

Pcs == {"kmain_reload", "kmain", "kmain_mret",
        "machine_trap", "trap_reload", "machine_spin",
        "supervisor_trap", "supervisor_spin", "pass"}
       \cup TestFuncs \cup SupervisorBody

Harts == [prv : Modes, pc : Pcs, on : SUBSET Flags, mpp : Modes,
          mepc : Pcs, mcause : Causes, sepc : Pcs, scause : Causes,
          medeleg : SUBSET Codes, mideleg : SUBSET Codes,
          mie : SUBSET Codes, mip : SUBSET Codes]

TypeOK ==
    /\ prog \in Programs
    /\ platform \in Platforms
    /\ hart \in Harts
    /\ msip \in {0, 1}
    /\ stale \in BOOLEAN

-----------------------------------------------------------------------------
(* What the platform lets code below machine mode do. *)

RamOpen == platform.pmp = "absent" \/ prog.pmp
ClintOpen == platform.pmp = "absent"

CanFetch == hart.prv = M \/ RamOpen

At(loc) == hart.pc = loc /\ CanFetch

Goto(loc) == hart' = [hart EXCEPT !.pc = loc]

\* mret as the platform executes it.
DoMret(h) ==
    IF platform.pmp = "qemu6" /\ ~prog.pmp /\ h.mpp # M
    THEN Trap(h, IllegalInstruction)
    ELSE Mret(h)

Ecall(h) == Trap(h, EcallFrom(h.prv))

-----------------------------------------------------------------------------
(* kmain *)

ResetHart(entry) ==
    [prv |-> M, pc |-> entry, on |-> {}, mpp |-> U,
     mepc |-> entry, mcause |-> Exception(0), sepc |-> entry, scause |-> Exception(0),
     medeleg |-> {}, mideleg |-> {}, mie |-> {}, mip |-> {}]

Init ==
    /\ prog \in Programs
    /\ platform \in Platforms
    /\ hart = ResetHart(IF prog.timer THEN "kmain_reload" ELSE "kmain")
    /\ msip = 0
    /\ stale = FALSE

\* kmain's call of reload_timer; its printf may trap before mtimecmp is written.
KmainReload ==
    /\ At("kmain_reload")
    /\ hart' = IF platform.libcEcalls THEN Ecall(hart)
               ELSE [hart EXCEPT !.pc = "kmain", !.mip = @ \ {MTI}]
    /\ UNCHANGED <<prog, platform, msip, stale>>

\* All the CSR writes of kmain; mip's software- and timer-machine bits are
\* not writable, so the write only adds the supervisor bit to what is pending.
Kmain ==
    /\ At("kmain")
    /\ hart' = [hart EXCEPT !.pc = "kmain_mret",
                            !.on = prog.on, !.mpp = prog.mpp,
                            !.medeleg = prog.medeleg, !.mideleg = prog.mideleg,
                            !.mie = prog.mie, !.mip = @ \cup prog.mip,
                            !.mepc = prog.entry]
    /\ UNCHANGED <<prog, platform, msip, stale>>

KmainMret ==
    /\ At("kmain_mret")
    /\ hart' = DoMret(hart)
    /\ UNCHANGED <<prog, platform, msip, stale>>

-----------------------------------------------------------------------------
(* The functions the programs run at the three levels. *)

UserTestFunc ==
    /\ At("user_test_func")
    /\ hart' = Ecall(hart)
    /\ UNCHANGED <<prog, platform, msip, stale>>

\* The sstatus write is an illegal instruction in user mode.
SupervisorTestFunc ==
    /\ At("supervisor_test_func")
    /\ ~prog.spins
    /\ hart' = IF prog.superOn = {} THEN Ecall(hart)
               ELSE IF hart.prv = U THEN Trap(hart, IllegalInstruction)
               ELSE Ecall(WriteSstatus(hart, prog.superOn))
    /\ UNCHANGED <<prog, platform, msip, stale>>

MachineTestFunc ==
    /\ At("machine_test_func")
    /\ hart' = Ecall(hart)
    /\ UNCHANGED <<prog, platform, msip, stale>>

-----------------------------------------------------------------------------
(* machine_trap *)

\* (mcause & 0xFF) == 3, which does not look at the interrupt bit.
IsSoftwareIrq(cause) == prog.msi /\ cause.code = MSI

\* mcause & TRAP_MCAUSE_IRQ
IsTimerIrq(cause) ==
    /\ prog.timer
    /\ \/ platform.irqMask = "irqbit" /\ cause.irq
       \/ platform.irqMask = "one" /\ cause.code % 2 = 1

IsClimb(cause) ==
    /\ prog.climbs
    /\ cause \in {EcallFrom(U), EcallFrom(S)}
    /\ ~IsSoftwareIrq(cause) /\ ~IsTimerIrq(cause)

IsPassOnAnyEcall(cause) ==     \* a variant with a mistake: the cause is not looked at
    prog.climbs /\ prog.passM /\ ~IsSoftwareIrq(cause) /\ ~IsTimerIrq(cause)

IsPass(cause) ==
    /\ prog.climbs /\ prog.passM
    /\ cause = EcallFrom(M)
    /\ ~IsSoftwareIrq(cause) /\ ~IsTimerIrq(cause)

MachineTrapKeepsMsip ==         \* a variant with a mistake: msip is not cleared
    /\ At("machine_trap") /\ IsSoftwareIrq(hart.mcause)
    /\ hart' = DoMret(hart)
    /\ stale' = (stale \/ hart.mepc \in SupervisorBody)
    /\ UNCHANGED <<prog, platform, msip>>

\* Clears msip and executes mret in the middle of the function, so that the
\* epilogue does not restore sp and s0: supervisor_trap, if that is what was
\* interrupted, goes on with the frame of machine_trap.
MachineTrapSoftwareIrq ==
    /\ At("machine_trap") /\ IsSoftwareIrq(hart.mcause)
    /\ msip' = 0
    /\ hart' = DoMret(hart)
    /\ stale' = (stale \/ hart.mepc \in SupervisorBody)
    /\ UNCHANGED <<prog, platform>>

\* Variants with a mistake: the reserved MPP 2, an MPP that stays 0 on the first
\* climb, and the same function for both climbs.
NextLevelReserved(cause) == 2
NextLevelStays(cause) == IF cause = EcallFrom(U) THEN U ELSE M
NextFuncRepeats(cause) == "supervisor_test_func"

\* The function and MPP for the level above the one the ecall came from.
NextLevel(cause) == IF cause = EcallFrom(U) THEN S ELSE M
NextFunc(cause) ==
    IF cause = EcallFrom(U) THEN "supervisor_test_func" ELSE "machine_test_func"

MachineTrapClimb ==
    /\ At("machine_trap") /\ IsClimb(hart.mcause)
    /\ hart' = DoMret([hart EXCEPT !.on = prog.climbOn,
                                   !.mpp = NextLevel(hart.mcause),
                                   !.mepc = NextFunc(hart.mcause)])
    /\ UNCHANGED <<prog, platform, msip, stale>>

MachineTrapPass ==
    /\ At("machine_trap") /\ IsPass(hart.mcause)
    /\ Goto("pass")
    /\ UNCHANGED <<prog, platform, msip, stale>>

MachineTrapTimerIrq ==
    /\ At("machine_trap") /\ IsTimerIrq(hart.mcause)
    /\ Goto("trap_reload")
    /\ UNCHANGED <<prog, platform, msip, stale>>

\* The timer branch calls reload_timer and returns through the epilogue.
TrapReload ==
    /\ At("trap_reload")
    /\ hart' = IF platform.libcEcalls THEN Ecall(hart)
               ELSE DoMret([hart EXCEPT !.mip = @ \ {MTI}])
    /\ UNCHANGED <<prog, platform, msip, stale>>

MachineTrapSpin ==
    /\ At("machine_trap")
    /\ ~IsSoftwareIrq(hart.mcause) /\ ~IsTimerIrq(hart.mcause)
    /\ ~IsClimb(hart.mcause) /\ ~IsPass(hart.mcause)
    /\ Goto("machine_spin")
    /\ UNCHANGED <<prog, platform, msip, stale>>

-----------------------------------------------------------------------------
(* supervisor_trap *)

SupervisorTrapSpin ==
    /\ At("supervisor_trap") /\ ~prog.climbs
    /\ Goto("supervisor_spin")
    /\ UNCHANGED <<prog, platform, msip, stale>>

\* The prologue makes a frame; p_msip and scause are now locals in it.
SupervisorTrapEnter ==
    /\ At("supervisor_trap") /\ prog.climbs
    /\ Goto(IF prog.msi THEN "supervisor_store" ELSE "supervisor_compare")
    /\ stale' = FALSE
    /\ UNCHANGED <<prog, platform, msip>>

\* *p_msip = 1 of the nested test.  A software interrupt that was still to come
\* from an earlier store may be taken just before it: then p_msip is read through
\* the frame of machine_trap and the store may hit anything.
SupervisorTrapStore ==
    /\ At("supervisor_store")
    /\ \/ /\ ClintOpen
          /\ msip' = 1 /\ Goto("supervisor_compare")
       \/ /\ stale
          /\ Goto("supervisor_compare") /\ UNCHANGED msip
       \/ /\ stale \/ ~ClintOpen
          /\ hart' = Trap(hart, StoreFault) /\ UNCHANGED msip
    /\ UNCHANGED <<prog, platform, stale>>

\* The local read through a stale frame pointer may hold any value.
SupervisorTrapClimb ==
    /\ At("supervisor_compare")
    /\ stale \/ hart.scause = EcallFrom(U)
    /\ hart' = Sret([WriteSstatus(hart, {"SPP"}) EXCEPT !.sepc = "supervisor_test_func"])
    /\ UNCHANGED <<prog, platform, msip, stale>>

SupervisorTrapPass ==
    /\ At("supervisor_compare")
    /\ stale \/ hart.scause # EcallFrom(U)
    /\ Goto("pass")
    /\ UNCHANGED <<prog, platform, msip, stale>>

-----------------------------------------------------------------------------
(* Steps of the hardware. *)

RefuseFetch ==
    /\ ~CanFetch
    /\ hart' = Trap(hart, FetchFault)
    /\ UNCHANGED <<prog, platform, msip, stale>>

TakeInterrupt ==
    /\ \E i \in Takeable(hart) : hart' = Trap(hart, Interrupt(i))
    /\ UNCHANGED <<prog, platform, msip, stale>>

\* The software interrupt line follows msip with a delay.
ClintRaises ==
    /\ msip = 1 /\ MSI \notin hart.mip
    /\ hart' = [hart EXCEPT !.mip = @ \cup {MSI}]
    /\ UNCHANGED <<prog, platform, msip, stale>>

ClintLowers ==
    /\ msip = 0 /\ MSI \in hart.mip
    /\ hart' = [hart EXCEPT !.mip = @ \ {MSI}]
    /\ UNCHANGED <<prog, platform, msip, stale>>

\* mtime reaches mtimecmp.
TimerExpires ==
    /\ prog.timer /\ MTI \notin hart.mip
    /\ hart' = [hart EXCEPT !.mip = @ \cup {MTI}]
    /\ UNCHANGED <<prog, platform, msip, stale>>

-----------------------------------------------------------------------------
Execute ==
    \/ KmainReload \/ Kmain \/ KmainMret
    \/ UserTestFunc \/ SupervisorTestFunc \/ MachineTestFunc
    \/ MachineTrapSoftwareIrq \/ MachineTrapClimb \/ MachineTrapPass
    \/ MachineTrapTimerIrq \/ TrapReload \/ MachineTrapSpin
    \/ SupervisorTrapSpin \/ SupervisorTrapEnter \/ SupervisorTrapStore
    \/ SupervisorTrapClimb \/ SupervisorTrapPass
    \/ RefuseFetch

Clint == ClintRaises \/ ClintLowers \/ TimerExpires

Next == Execute \/ TakeInterrupt \/ Clint

\* The hart keeps executing, takes an interrupt that stays takeable, and the
\* CLINT keeps counting and driving its lines.
Fairness == WF_vars(Execute) /\ WF_vars(TakeInterrupt) /\ WF_vars(Clint)

Spec == Init /\ [][Next]_vars

FairSpec == Spec /\ Fairness

-----------------------------------------------------------------------------
(* Properties *)

\* The tests whose subject is the supervisor timer interrupt kmain makes pending.
StiTests == {p \in Programs : STI \in p.mip}

\* The privilege the file and function names promise.
FromMachineMode == {priv_irq_deleg_with_sie_enabled_from_m_mode,
                    priv_irq_deleg_with_mie_enabled_from_m_mode,
                    priv_irq_with_sie_enabled_from_m_mode}

NamedLevel(p, func) ==
    CASE func = "user_test_func" -> U
      [] func = "machine_test_func" -> M
      [] func = "supervisor_test_func" -> IF p \in FromMachineMode THEN M ELSE S

\* What a program must get right for its functions to run where they are named:
\* kmain starts its first function at that function's level, and the traps of
\* a *_from_m_mode test send the hart nowhere.
WellNamed(p) ==
    /\ p.mpp = NamedLevel(p, p.entry)
    /\ p \in FromMachineMode => ~p.climbs

\* Each test function runs at the level its name says (the *_from_m_mode tests
\* run supervisor_test_func in machine mode), also when a trap handler, a
\* nested one included, has returned to it or sent the hart there.
FuncRunsAtItsLevel ==
    hart.pc \in TestFuncs => hart.prv = NamedLevel(prog, hart.pc)

\* While machine-mode code that ends in mret runs (kmain, machine_trap and the
\* reload_timer it calls), MPP is the level of the function mepc points to:
\* nothing between a trap and its mret changes one without the other.
MretGoesToItsLevel ==
    hart.pc \in {"kmain_mret", "machine_trap", "trap_reload"} /\ hart.mepc \in TestFuncs
        => hart.mpp = NamedLevel(prog, hart.mepc)

\* Only a supervisor_trap that climbs gets past its prologue, or is interrupted there.
BodyOnlyIfClimbs ==
    {hart.pc, hart.mepc} \cap SupervisorBody # {} => prog.climbs

\* The inductive invariant behind FuncRunsAtItsLevel.
LevelInv ==
    TypeOK /\ FuncRunsAtItsLevel /\ MretGoesToItsLevel /\ BodyOnlyIfClimbs

\* With user and supervisor ecalls delegated, no ecall reaches machine_trap,
\* whatever the software interrupts of the nested test do in between.
DelegatedEcallsStayInSupervisor ==
    /\ prog \in {priv_deleg, priv_nested_deleg_ecall_irq}
    /\ hart.pc \in {"machine_trap", "machine_spin"}
    => hart.mcause \notin {EcallFrom(U), EcallFrom(S)}

\* pass() is earned by the last ecall of the test, in the handler it is for.  Only
\* the nested test may pass on its first ecall, with supervisor_test_func never
\* run, and only in a supervisor_trap that a software interrupt has interrupted
\* and left with a stale frame.
PassIsEarned ==
    hart.pc = "pass" =>
        \/ hart.prv = M /\ hart.mcause = EcallFrom(M)
        \/ hart.prv = S /\ hart.scause = EcallFrom(S)
        \/ /\ prog.msi /\ stale
           /\ hart.prv = S /\ hart.scause = EcallFrom(U)

\* The pending supervisor timer interrupt reaches the handler the test is named
\* for and no other: supervisor_trap if delegated and SIE is on in supervisor
\* mode, machine_trap if not delegated and the hart is below machine mode; in
\* all other tests it stays pending.
StiGoesWhereTested ==
    prog \in StiTests =>
        /\ hart.pc \in {"supervisor_trap", "supervisor_spin"} =>
               prog = priv_irq_deleg_with_sie_enabled
        /\ hart.pc \in {"machine_trap", "machine_spin"} /\ hart.mcause.irq =>
               prog = priv_irq_with_sie_enabled_from_s_mode

\* ... and in the two tests that expect it, it is taken, unless the platform's
\* PMP (which these tests do not configure) keeps the hart out of supervisor mode.
StiIsTaken ==
    /\ prog = priv_irq_deleg_with_sie_enabled /\ platform.pmp = "absent"
           ~> hart.pc = "supervisor_spin"
    /\ prog = priv_irq_with_sie_enabled_from_s_mode /\ platform.pmp = "absent"
           ~> hart.pc = "machine_spin" /\ hart.mcause = Interrupt(STI)

\* The timer test goes on taking timer interrupts for ever: each handling
\* leaves the hart able to take the next one (rv32, no PMP, a printf that
\* does not trap).
TimerKeepsFiring ==
    /\ prog.timer
    /\ platform = [pmp |-> "absent", irqMask |-> "irqbit", libcEcalls |-> FALSE]
    => []<>(hart.pc = "trap_reload")

\* tests.sh:236: the interrupt tests "need to be finished first, calling the
\* pass() function": as they are, none of them reaches pass() - except the timer
\* test with a libc printf built on ecall (its reload_timer calls that printf, not
\* riscv_helper_printf): then kmain's own call passes, before any timer interrupt.
UnfinishedTestsNeverPass ==
    (prog.timer \/ prog \in StiTests) /\ hart.pc = "pass" =>
        prog.timer /\ platform.libcEcalls /\ hart.mepc = "kmain_reload"

\* priv_irq_deleg waits for timer interrupts (its line 36) and its machine_trap
\* tells them by TRAP_MCAUSE_IRQ: an interrupt never ends in the while(1).
TimerIrqIsRecognised ==
    prog.timer /\ hart.pc = "machine_spin" => ~hart.mcause.irq

\* priv_nested_deleg_ecall_irq.c:137: the store to msip in supervisor_trap
\* "should immediately trap to the machine trap handler": nothing else than the
\* software interrupt brings that program to machine_trap.
NestedTrapIsTheSoftwareIrq ==
    prog.msi /\ hart.pc = "machine_trap" => hart.mcause = Interrupt(MSI)

\* The software interrupt the nested test triggers is always served: machine_trap
\* gets to clear msip.
SoftwareIrqIsServed == msip = 1 ~> msip = 0

=============================================================================
