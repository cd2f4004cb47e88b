-------------------------------- MODULE Hart --------------------------------
(***************************************************************************)
(* The part of a RISC-V hart that the test programs drive: privilege modes, *)
(* mstatus, trap entry with delegation, mret/sret and the interrupt rule.   *)
(* The hart is external to the repository (QEMU virt or riscv_em executes   *)
(* it); it is modelled here from how the programs use it, i.e. from the     *)
(* CSRs they read and write and the outcomes they expect.  A hart is a      *)
(* record and every operator maps a hart to the hart after the event.       *)
(***************************************************************************)
EXTENDS Naturals

CONSTANTS Mtvec,   \* code location kmain writes to mtvec
          Stvec    \* code location kmain writes to stvec

\* Privilege modes, with the encoding the mstatus.MPP field uses.
U == 0
S == 1
M == 3
Modes == {U, S, M}

\* The one-bit fields of mstatus the programs use (h.on is the set of those that
\* are 1; the two-bit field MPP is h.mpp), and those that sstatus shows.
Flags == {"SIE", "MIE", "SPIE", "MPIE", "SPP", "SUM", "MXR", "MPRV"}
SFlags == {"SIE", "SPIE", "SPP", "SUM", "MXR"}

\* Trap causes: an exception or interrupt code of mcause/scause.
Codes == 0 .. 15
Causes == [irq : BOOLEAN, code : Codes]
Exception(n) == [irq |-> FALSE, code |-> n]
Interrupt(n) == [irq |-> TRUE, code |-> n]

FetchFault == Exception(1)
IllegalInstruction == Exception(2)
StoreFault == Exception(7)
EcallFrom(prv) == Exception(8 + prv)

\* Interrupt numbers: S/M software (1, 3) and S/M timer (5, 7).
MSI == 3
STI == 5
MTI == 7

\* Flag  to  takes the value flag  from  has in the set  on.
CopyFlag(on, from, to) == IF from \in on THEN on \cup {to} ELSE on \ {to}

\* A CSR write to sstatus reaches only the fields sstatus shows.
WriteSstatus(h, flags) == [h EXCEPT !.on = (h.on \ SFlags) \cup flags]

\* A trap is delegated by medeleg/mideleg, but never out of machine mode.
Delegated(h, cause) ==
    /\ h.prv # M
    /\ cause.code \in (IF cause.irq THEN h.mideleg ELSE h.medeleg)

EnterM(h, cause) ==
    [h EXCEPT !.prv = M, !.pc = Mtvec, !.mepc = h.pc, !.mcause = cause,
              !.on = CopyFlag(h.on, "MIE", "MPIE") \ {"MIE"}, !.mpp = h.prv]

EnterS(h, cause) ==
    [h EXCEPT !.prv = S, !.pc = Stvec, !.sepc = h.pc, !.scause = cause,
              !.on = (CopyFlag(h.on, "SIE", "SPIE") \ {"SIE", "SPP"})
                     \cup (IF h.prv = U THEN {} ELSE {"SPP"})]

Trap(h, cause) == IF Delegated(h, cause) THEN EnterS(h, cause) ELSE EnterM(h, cause)

Mret(h) ==
    [h EXCEPT !.prv = h.mpp, !.pc = h.mepc,
              !.on = CopyFlag(h.on, "MPIE", "MIE") \cup {"MPIE"}, !.mpp = U]

Sret(h) ==
    [h EXCEPT !.prv = IF "SPP" \in h.on THEN S ELSE U, !.pc = h.sepc,
              !.on = (CopyFlag(h.on, "SPIE", "SIE") \cup {"SPIE"}) \ {"SPP"}]

\* Interrupts that machine mode, respectively supervisor mode, would take now.
ToMachine(h) ==
    IF h.prv # M \/ "MIE" \in h.on
    THEN (h.mip \cap h.mie) \ h.mideleg ELSE {}

ToSupervisor(h) ==
    IF h.prv = U \/ (h.prv = S /\ "SIE" \in h.on)
    THEN h.mip \cap h.mie \cap h.mideleg ELSE {}

\* Interrupts for machine mode come before those delegated to supervisor mode.
Takeable(h) == IF ToMachine(h) # {} THEN ToMachine(h) ELSE ToSupervisor(h)

=============================================================================
