---------------------------- MODULE PrivPrograms ----------------------------
(***************************************************************************)
(* The eleven programs of src/privilege_levels as data: what each kmain     *)
(* writes to the CSRs before its mret, and which variant of the test        *)
(* functions and trap handlers the file contains.  The control flow those   *)
(* variants select is in PrivTests.                                         *)
(***************************************************************************)
EXTENDS Naturals

INSTANCE Hart WITH Mtvec <- "machine_trap", Stvec <- "supervisor_trap"

\* Fields kmain fixes:
\*   pmp      kmain opens RAM and UART in the PMP (but not the CLINT)
\*   timer    kmain calls reload_timer
\*   on, mpp  the mstatus it leaves (on: the flags set)
\*   medeleg, mideleg, mie   the CSRs of that name, as sets of codes
\*   mip      the interrupts it makes pending by writing mip
\*   entry    the function it puts in mepc
\* Fields the functions of the file fix:
\*   superOn  flags supervisor_test_func writes to sstatus ({} : no write)
\*   spins    supervisor_test_func is a while(1)
\*   climbs   the traps handle the ecalls (else they are a while(1))
\*   climbOn  flags machine_trap sets beside MPP when it climbs
\*   passM    machine_trap calls pass() on an ecall from machine mode
\*   msi      the traps trigger (S) and clear (M) the software interrupt
LadderTest == [pmp |-> TRUE, timer |-> FALSE, on |-> {"SUM"}, mpp |-> U,
           medeleg |-> {}, mideleg |-> {}, mie |-> {}, mip |-> {},
           entry |-> "user_test_func", superOn |-> {}, spins |-> FALSE,
           climbs |-> TRUE, climbOn |-> {"SUM"}, passM |-> TRUE, msi |-> FALSE]

\* The common shape of the supervisor timer interrupt tests.
StiTest == [LadderTest EXCEPT !.pmp = FALSE, !.on = {}, !.mpp = S,
                          !.mie = {STI}, !.mip = {STI},
                          !.entry = "supervisor_test_func", !.spins = TRUE,
                          !.climbs = FALSE, !.climbOn = {}, !.passM = FALSE]

\* Each program is preceded by the variants of it with one plausible mistake
\* that the properties of PrivTests and PrivLadder are shown to catch.

SIE_and_SPIE == {"SIE", "SPIE"}
MIE_and_MPIE == {"MIE", "MPIE"}

priv_privileged_levels_from_s == [LadderTest EXCEPT !.mpp = S]
priv_privileged_levels == LadderTest

priv_privileged_levels2_without_pmp ==
    [LadderTest EXCEPT !.pmp = FALSE, !.superOn = {"SUM", "SPP"}]
priv_privileged_levels2 == [LadderTest EXCEPT !.superOn = {"SUM", "SPP"}]

priv_deleg ==
    [LadderTest EXCEPT !.on = {}, !.medeleg = {9, 8}, !.superOn = {"SPP"},
                   !.climbOn = {}, !.passM = FALSE]

priv_nested_deleg_ecall_irq_user_only ==
    [LadderTest EXCEPT !.on = MIE_and_MPIE \cup SIE_and_SPIE, !.medeleg = {8},
                       !.mie = {MSI, 1}, !.climbOn = {}, !.passM = FALSE, !.msi = TRUE]
priv_nested_deleg_ecall_irq ==
    [LadderTest EXCEPT !.on = MIE_and_MPIE \cup SIE_and_SPIE, !.medeleg = {9, 8},
                   !.mie = {MSI, 1}, !.climbOn = {}, !.passM = FALSE, !.msi = TRUE]

priv_irq_deleg_without_loop ==
    [LadderTest EXCEPT !.pmp = FALSE, !.timer = TRUE, !.on = {"SIE"}, !.mpp = S,
                       !.mie = {MTI}, !.entry = "supervisor_test_func"]
priv_irq_deleg_supervisor_timer ==
    [LadderTest EXCEPT !.pmp = FALSE, !.timer = TRUE, !.on = {"SIE"}, !.mpp = S,
                       !.mie = {STI}, !.entry = "supervisor_test_func", !.spins = TRUE]
priv_irq_deleg ==
    [LadderTest EXCEPT !.pmp = FALSE, !.timer = TRUE, !.on = {"SIE"}, !.mpp = S,
                   !.mie = {MTI}, !.entry = "supervisor_test_func", !.spins = TRUE]

priv_irq_deleg_with_sie_forgotten == [StiTest EXCEPT !.mideleg = {STI}]
priv_irq_deleg_with_sie_enabled ==
    [StiTest EXCEPT !.mideleg = {STI}, !.on = SIE_and_SPIE]

priv_irq_deleg_with_sie_enabled_from_m_mode ==
    [StiTest EXCEPT !.mideleg = {STI}, !.on = SIE_and_SPIE, !.mpp = M]

priv_irq_deleg_with_mie_enabled_from_m_mode ==
    [StiTest EXCEPT !.mideleg = {STI}, !.on = MIE_and_MPIE, !.mpp = M]

priv_irq_deleg_with_sie_disabled ==
    [StiTest EXCEPT !.mideleg = {STI}, !.on = MIE_and_MPIE]

priv_irq_with_mie_enabled_from_m_mode ==
    [StiTest EXCEPT !.on = MIE_and_MPIE, !.mpp = M]
priv_irq_with_sie_enabled_from_m_mode ==
    [StiTest EXCEPT !.on = SIE_and_SPIE, !.mpp = M]

priv_irq_with_sie_enabled_from_s_mode == [StiTest EXCEPT !.on = SIE_and_SPIE]

-----------------------------------------------------------------------------
\* tests.sh:230-233: the tests that are run.
EnabledPrograms == {priv_privileged_levels, priv_privileged_levels2, priv_deleg}

\* tests.sh:236-243: the interrupt tests, which are to be finished.
UnfinishedPrograms ==
    {priv_irq_deleg, priv_irq_deleg_with_sie_disabled,
     priv_irq_deleg_with_sie_enabled,
     priv_irq_deleg_with_sie_enabled_from_m_mode,
     priv_irq_deleg_with_mie_enabled_from_m_mode,
     priv_irq_with_sie_enabled_from_m_mode,
     priv_irq_with_sie_enabled_from_s_mode}

AllPrograms ==
    EnabledPrograms \cup UnfinishedPrograms \cup {priv_nested_deleg_ecall_irq}

=============================================================================
