------------------------------ MODULE MmuTests ------------------------------
(***************************************************************************)
(* The MMU tests (src/mmu): kmain fills the page table request by request,  *)
(* switches it on and goes to a supervisor program, which goes on to a user *)
(* program or reads its own code; the test ends in machine_trap with a      *)
(* cause somebody has to compare with the name of the test.                 *)
(***************************************************************************)
EXTENDS Sv32, Sequences

INSTANCE Hart WITH Mtvec <- "machine_trap", Stvec <- "machine_trap"

CONSTANTS MmuPrograms,    \* the programs to run
          MmuPlatforms,   \* the platforms to run them on
          RamPages        \* the pages kmain maps to themselves

\* Fields of a program:
\*   rights   of the page of the supervisor program
\*   user     there is a user program: it is mapped, and the supervisor program
\*            goes to it; else that one reads its own code
\*   on       the flags kmain writes to mstatus
MmuProgramType == [rights : SUBSET Rights, user : BOOLEAN, on : SUBSET Flags]

\* adHardware: the hart sets the A and D bits of an entry itself, which the programs
\* leave 0; else such an entry is a page fault.
MmuPlatformType ==
    [xlen : {32, 64}, pmp : {"absent", "strict", "qemu6"}, adHardware : BOOLEAN]

\* Where things are.
RamBase == 524288               \* 0x80000
StackPage == RamBase + 7        \* the end of the 32 KiB of test.ld
SuperPage == 2                  \* 0x2
SuperFrame == RamBase + 128     \* 0x80080
UserPage == 12                  \* 0xC
UserFrame == RamBase + 144      \* 0x80090
UartPage == 65536               \* 0x10000

ASSUME MmuProgramsAssumption == MmuPrograms \subseteq MmuProgramType
ASSUME MmuPlatformsAssumption == MmuPlatforms \subseteq MmuPlatformType
ASSUME RamPagesAssumption == RamPages \in 8 .. 128

\* A variant with a mistake: mstatus has no SUM.
mmu_simple_without_sum == [rights |-> ReadWriteExec, user |-> TRUE, on |-> {}]

mmu_simple == [rights |-> ReadWriteExec, user |-> TRUE, on |-> {"SUM"}]

mmu_sum == [mmu_simple EXCEPT !.rights = @ \cup User, !.on = {}]

mmu_mxr == [rights |-> ExecOnly, user |-> FALSE, on |-> {"MXR", "SUM"}]

AllMmuPrograms == {mmu_simple, mmu_sum, mmu_mxr}

-----------------------------------------------------------------------------
(* What kmain asks of Sv32_mmu_map_virt. *)

Request(virt, phys, rights) == [virt |-> virt, pte |-> [ppn |-> phys, rights |-> rights]]

RamRequests ==
    [j \in 1 .. RamPages |->
         Request(RamBase + (j - 1), RamBase + (j - 1), ReadWriteExec \cup User)]

RequestsUartFirst(p) ==         \* a variant with a mistake: the UART comes first
    <<Request(UartPage, UartPage, ReadWriteExec \cup User)>>
    \o RamRequests
    \o <<Request(SuperPage, SuperFrame, p.rights)>>
    \o (IF p.user THEN <<Request(UserPage, UserFrame, ReadWriteExec \cup User)>> ELSE <<>>)

RequestsOneMore(p) ==           \* a variant with a mistake: i <= 0x80
    RamRequests
    \o <<Request(RamBase + RamPages, RamBase + RamPages, ReadWriteExec \cup User),
         Request(SuperPage, SuperFrame, p.rights)>>
    \o (IF p.user THEN <<Request(UserPage, UserFrame, ReadWriteExec \cup User)>> ELSE <<>>)
    \o <<Request(UartPage, UartPage, ReadWriteExec \cup User)>>

Requests(p) ==
    RamRequests
    \o <<Request(SuperPage, SuperFrame, p.rights)>>
    \o (IF p.user THEN <<Request(UserPage, UserFrame, ReadWriteExec \cup User)>> ELSE <<>>)
    \o <<Request(UartPage, UartPage, ReadWriteExec \cup User)>>

RequestsOf == [p \in MmuPrograms |-> Requests(p)]

VARIABLES prog,      \* the program that runs
          platform,  \* the platform it runs on
          hart,      \* the hart, see Hart
          mapped,    \* how many requests have been made
          table,     \* page_table
          satp,      \* the translation is on
          step,      \* the next access of the program below machine mode
          reached    \* history: the frames accessed below machine mode, by page

vars == <<prog, platform, hart, mapped, table, satp, step, reached>>

Pcs == {"kmain", "supervisor", "user", "machine_trap", "spin"}

Harts == [prv : Modes, pc : Pcs, on : SUBSET Flags, mpp : Modes,
          mepc : Pcs, mcause : Causes, sepc : Pcs, scause : Causes,
          medeleg : SUBSET Codes, mideleg : SUBSET Codes,
          mie : SUBSET Codes, mip : SUBSET Codes]

TypeOK ==
    /\ prog \in MmuPrograms /\ platform \in MmuPlatforms
    /\ hart \in Harts
    /\ mapped \in 0 .. Len(RequestsOf[prog])
    /\ IsTable(table)
    /\ satp \in BOOLEAN
    /\ step \in Nat
    /\ \A a \in reached : a \in [page : Nat, frame : Nat]

-----------------------------------------------------------------------------
(* kmain *)

ResetHart ==
    [prv |-> M, pc |-> "kmain", on |-> {}, mpp |-> U,
     mepc |-> "kmain", mcause |-> Exception(0), sepc |-> "kmain", scause |-> Exception(0),
     medeleg |-> {}, mideleg |-> {}, mie |-> {}, mip |-> {}]

Init ==
    /\ prog \in MmuPrograms /\ platform \in MmuPlatforms
    /\ hart = ResetHart
    /\ mapped = 0 /\ table = EmptyTable /\ satp = FALSE
    /\ step = 1 /\ reached = {}

MapVirt ==
    /\ hart.pc = "kmain" /\ mapped < Len(RequestsOf[prog])
    /\ LET r == RequestsOf[prog][mapped + 1] IN table' = Map(table, r.virt, r.pte)
    /\ mapped' = mapped + 1
    /\ UNCHANGED <<prog, platform, hart, satp, step, reached>>

\* Since QEMU 6 an mret to below machine mode without a PMP entry is illegal.
DoMret(h) ==
    IF platform.pmp = "qemu6" /\ h.mpp # M THEN Trap(h, IllegalInstruction) ELSE Mret(h)

\* satp is (1<<31) | (satp_addr >> 12): on rv64 the sign extension makes the mode a
\* reserved one, and the write has no effect.
KmainMret ==
    /\ hart.pc = "kmain" /\ mapped = Len(RequestsOf[prog])
    /\ satp' = (platform.xlen = 32)
    /\ hart' = DoMret([hart EXCEPT !.on = prog.on, !.mpp = S, !.mepc = "supervisor"])
    /\ UNCHANGED <<prog, platform, mapped, table, step, reached>>

-----------------------------------------------------------------------------
(* The programs below machine mode. *)

PageFault(access) == Exception(CASE access = "X" -> 12 [] access = "R" -> 13 [] access = "W" -> 15)
AccessFault(access) == Exception(CASE access = "X" -> 1 [] access = "R" -> 5 [] access = "W" -> 7)

Allowed(page, access) ==
    /\ platform.adHardware /\ Present(table, page)
    /\ Permitted(Walk(table, page), access, hart.prv = U, hart.on)

\* The causes an access may trap with; none: it is made.  No PMP entry is opened, and
\* the walk is an access too.  Without translation there is no RAM at the programs.
Faults(page, access) ==
    CASE platform.pmp # "absent" -> {AccessFault(access)}
      [] platform.pmp = "absent" /\ ~satp -> {AccessFault(access), IllegalInstruction}
      [] platform.pmp = "absent" /\ satp ->
             IF Allowed(page, access) THEN {} ELSE {PageFault(access)}

CodePage == IF hart.pc = "supervisor" THEN SuperPage ELSE UserPage

Access(access, page) == [access |-> access, page |-> page]

\* The accesses the program in control makes, in this order: its stack, the UART, and
\* test_read.
Accesses ==
    IF hart.pc = "supervisor" /\ ~prog.user
    THEN <<Access("W", StackPage), Access("W", UartPage),
           Access("R", SuperPage), Access("W", UartPage)>>
    ELSE <<Access("W", StackPage), Access("W", UartPage)>>

Running ==
    /\ hart.pc \in {"supervisor", "user"}
    /\ Faults(CodePage, "X") = {}

\* The fetch comes before the access it is for.
NextAccess ==
    IF Faults(CodePage, "X") # {} THEN Access("X", CodePage) ELSE Accesses[step]

RefuseAccess ==
    /\ hart.pc \in {"supervisor", "user"} /\ step <= Len(Accesses)
    /\ \E cause \in Faults(NextAccess.page, NextAccess.access) : hart' = Trap(hart, cause)
    /\ UNCHANGED <<prog, platform, mapped, table, satp, step, reached>>

MakeAccess ==
    /\ Running /\ step <= Len(Accesses)
    /\ LET a == Accesses[step] IN
           /\ Faults(a.page, a.access) = {}
           /\ reached' = reached \cup {[page |-> p, frame |-> Walk(table, p).ppn] :
                                           p \in {CodePage, a.page}}
    /\ step' = step + 1
    /\ UNCHANGED <<prog, platform, hart, mapped, table, satp>>

\* sstatus = SUM, with SPP 0 (and MXR gone); sepc; sret.
SupervisorSret ==
    /\ Running /\ step > Len(Accesses)
    /\ hart.pc = "supervisor" /\ prog.user
    /\ hart' = Sret([WriteSstatus(hart, {"SUM"}) EXCEPT !.sepc = "user"])
    /\ step' = 1
    /\ UNCHANGED <<prog, platform, mapped, table, satp, reached>>

\* The last statement of the user program and of mmu_supervisor_mxr.
Ecall ==
    /\ Running /\ step > Len(Accesses)
    /\ hart.pc = "user" \/ ~prog.user
    /\ hart' = Trap(hart, EcallFrom(hart.prv))
    /\ UNCHANGED <<prog, platform, mapped, table, satp, step, reached>>

\* machine_trap reports the cause and loops; nothing calls pass().
MachineTrap ==
    /\ hart.pc = "machine_trap"
    /\ hart' = [hart EXCEPT !.pc = "spin"]
    /\ UNCHANGED <<prog, platform, mapped, table, satp, step, reached>>

Next ==
    \/ MapVirt \/ KmainMret \/ RefuseAccess \/ MakeAccess
    \/ SupervisorSret \/ Ecall \/ MachineTrap

Spec == Init /\ [][Next]_vars

-----------------------------------------------------------------------------
(* Properties *)

\* A page stays mapped as it was asked for, until a later request has the same index
\* in the one second-level array.
LastRequestWins ==
    \A j \in 1 .. mapped :
        LET r == RequestsOf[prog][j] IN
            \/ Present(table, r.virt) /\ Walk(table, r.virt) = r.pte
            \/ \E k \in (j + 1) .. mapped : Lo(RequestsOf[prog][k].virt) = Lo(r.virt)

\* Whatever a program accesses below machine mode is the memory kmain meant: its own
\* code where it was copied, the stack kmain used, the UART - although four of the
\* pages share their index with another one.
Meant(page) ==
    CASE page = SuperPage -> SuperFrame
      [] page = UserPage -> UserFrame
      [] page \notin {SuperPage, UserPage} -> page

AccessesReachWhatIsMeant == \A a \in reached : a.frame = Meant(a.page)

\* User mode has no page through which it reaches the supervisor program, in a test
\* that does not give that page to it: no RAM page kmain maps for it is that frame.
SupervisorProgramIsClosed ==
    "U" \notin prog.rights =>
        \A lo \in DOMAIN table.leaf :
            table.leaf[lo].ppn = SuperFrame => "U" \notin table.leaf[lo].rights

Ideal == platform.xlen = 32 /\ platform.pmp = "absent" /\ platform.adHardware

\* A test ends with the trap it is named for: mmu_simple with the ecall of its user
\* program, mmu_mxr with that of its supervisor program, mmu_sum with the page fault
\* of a supervisor fetch from a user page.
EndsInNamedTrap ==
    hart.pc \in {"machine_trap", "spin"} /\ Ideal =>
        hart.mcause = CASE prog = mmu_simple -> EcallFrom(U)
                        [] prog = mmu_mxr -> EcallFrom(S)
                        [] prog = mmu_sum -> PageFault("X")

\* "This should actually not be done, this is only here so that userspace and
\* supervisor space can access the same mem area as machine mode": below machine mode
\* a page of RAM is the page machine mode has there.
SameMemoryAsMachine ==
    satp /\ hart.prv # M =>
        \A page \in RamBase .. RamBase + RamPages - 1 :
            Present(table, page) /\ Walk(table, page).ppn = page

=============================================================================
