------------------------------ MODULE NestedIrq ------------------------------
(***************************************************************************)
(* The machine-mode interrupt and ecall tests (src/mytests): main enables   *)
(* the software interrupt and raises it, or executes an ecall, and the one  *)
(* handler of the file serves both, in two of the tests one inside the      *)
(* other.  An action is a stretch of C code that ends before a store to     *)
(* msip, a trap, a trap return or pass(), or a step of the hardware.        *)
(***************************************************************************)
EXTENDS Naturals, Sequences

INSTANCE Hart WITH Mtvec <- "handler", Stvec <- "handler"

CONSTANTS IrqPrograms,    \* the programs to run
          IrqPlatforms,   \* the platforms to run them on
          MaxTraps        \* how many traps the history traps keeps

\* Fields of a program:
\*   trigger  what main does: the store to msip or the ecall
\*   msi      the constant MCAUSE_MSI
\*   narrow   mcause is read into a uint32_t
\*   raises   the ecall branch of the handler stores 1 to msip
\*   passes   ... and calls pass()
\*   ecalls   the interrupt branch executes an ecall
\*   clears   the handler ends with a store of 0 to msip, whatever the cause
\*   returns  main returns after pass() (else it loops)
IrqProgramType ==
    [trigger : {"msip", "ecall"}, msi : Causes, narrow : BOOLEAN, raises : BOOLEAN,
     passes : BOOLEAN, ecalls : BOOLEAN, clears : BOOLEAN, returns : BOOLEAN]

\* prompt: msip drives the interrupt line, and the hart takes the interrupt,
\* before the next instruction; else both take their time.
IrqPlatformType ==
    [xlen : {32, 64}, pmp : {"absent", "strict", "qemu6"}, prompt : BOOLEAN]

ASSUME IrqProgramsAssumption == IrqPrograms \subseteq IrqProgramType
ASSUME IrqPlatformsAssumption == IrqPlatforms \subseteq IrqPlatformType
ASSUME MaxTrapsAssumption == MaxTraps \in Nat

irq_test ==
    [trigger |-> "msip", msi |-> Exception(MSI), narrow |-> TRUE, raises |-> FALSE,
     passes |-> FALSE, ecalls |-> FALSE, clears |-> TRUE, returns |-> TRUE]

ecall_test == [irq_test EXCEPT !.trigger = "ecall"]

irq_test_ecall_irq_nested ==
    [trigger |-> "ecall", msi |-> Interrupt(MSI), narrow |-> FALSE, raises |-> TRUE,
     passes |-> FALSE, ecalls |-> FALSE, clears |-> FALSE, returns |-> FALSE]

irq_test_irq_ecall_nested ==
    [irq_test_ecall_irq_nested EXCEPT !.trigger = "msip", !.raises = FALSE,
                                      !.passes = TRUE, !.ecalls = TRUE]

AllIrqPrograms ==
    {irq_test, ecall_test, irq_test_ecall_irq_nested, irq_test_irq_ecall_nested}

VARIABLES prog,      \* the program that runs
          platform,  \* the platform it runs on
          hart,      \* the hart, see Hart
          msip,      \* the CLINT register msip
          frames,    \* the frames of interrupt_handler on the stack
          due,       \* history: where the traps taken are to return to
          traps,     \* history: the first causes taken, up to pass()
          passed     \* history: pass() has been reached

vars == <<prog, platform, hart, msip, frames, due, traps, passed>>

\* main up to and after its trigger, the branches of the handler, and the end of it.
MainPcs == {"main", "trigger", "after_trigger", "pass", "loop", "ended"}
HandlerPcs == {"handler", "ecall_branch", "pass_in_handler", "advance_mepc",
               "msi_branch", "msi_clear", "msi_mip", "epilogue", "mret"}
Pcs == MainPcs \cup HandlerPcs

\* mepc + 4 behind the two ecalls; behind a place that is no ecall is the place.
After == [pc \in Pcs |-> CASE pc = "trigger" -> "after_trigger"
                           [] pc = "msi_branch" -> "msi_clear"
                           [] OTHER -> pc]

Harts == [prv : Modes, pc : Pcs, on : SUBSET Flags, mpp : Modes,
          mepc : Pcs, mcause : Causes, sepc : Pcs, scause : Causes,
          medeleg : SUBSET Codes, mideleg : SUBSET Codes,
          mie : SUBSET Codes, mip : SUBSET Codes]

Contexts == [pc : Pcs, prv : Modes, mie : BOOLEAN]

TypeOK ==
    /\ prog \in IrqPrograms /\ platform \in IrqPlatforms
    /\ hart \in Harts
    /\ msip \in {0, 1}
    /\ frames \in Nat
    /\ due \in Seq(Contexts)
    /\ traps \in Seq(Causes)
    /\ passed \in BOOLEAN

-----------------------------------------------------------------------------
(* The hart on this platform. *)

\* None of the tests opens the PMP: code below machine mode cannot be fetched.
CanFetch == hart.prv = M \/ platform.pmp = "absent"

LineFollowsMsip == MSI \in hart.mip <=> msip = 1

At(loc) ==
    /\ hart.pc = loc /\ CanFetch
    /\ platform.prompt => Takeable(hart) = {} /\ LineFollowsMsip

Goto(loc) == hart' = [hart EXCEPT !.pc = loc]

\* The context a trap with this cause is to return to.
Resume(cause) ==
    [pc |-> IF cause = EcallFrom(hart.prv) THEN After[hart.pc] ELSE hart.pc,
     prv |-> hart.prv, mie |-> "MIE" \in hart.on]

EnterTrap(cause) ==
    /\ hart' = Trap(hart, cause)
    /\ due' = Append(due, Resume(cause))
    /\ traps' = IF passed \/ Len(traps) >= MaxTraps THEN traps ELSE Append(traps, cause)

NoTrap == UNCHANGED <<due, traps>>

-----------------------------------------------------------------------------
(* main *)

ResetHart ==
    [prv |-> M, pc |-> "main", on |-> {}, mpp |-> U,
     mepc |-> "main", mcause |-> Exception(0), sepc |-> "main", scause |-> Exception(0),
     medeleg |-> {}, mideleg |-> {}, mie |-> {}, mip |-> {}]

Init ==
    /\ prog \in IrqPrograms /\ platform \in IrqPlatforms
    /\ hart = ResetHart
    /\ msip = 0 /\ frames = 0
    /\ due = <<>> /\ traps = <<>>
    /\ passed = FALSE

MainSetupForgetsMie ==          \* a variant with a mistake: mie.MSIP is not set
    /\ At("main")
    /\ hart' = [hart EXCEPT !.pc = "trigger", !.on = @ \cup {"MIE"}]
    /\ NoTrap /\ UNCHANGED <<prog, platform, msip, frames, passed>>

\* mtvec, mstatus.MIE and mie.MSIP.
MainSetup ==
    /\ At("main")
    /\ hart' = [hart EXCEPT !.pc = "trigger", !.on = @ \cup {"MIE"}, !.mie = @ \cup {MSI}]
    /\ NoTrap /\ UNCHANGED <<prog, platform, msip, frames, passed>>

MainRaisesByBit ==              \* a variant with a mistake: the mie bit is stored
    /\ At("trigger") /\ prog.trigger = "msip"
    /\ msip' = 8
    /\ Goto("after_trigger")
    /\ NoTrap /\ UNCHANGED <<prog, platform, frames, passed>>

MainRaises ==
    /\ At("trigger") /\ prog.trigger = "msip"
    /\ msip' = 1
    /\ Goto("after_trigger")
    /\ NoTrap /\ UNCHANGED <<prog, platform, frames, passed>>

MainEcalls ==
    /\ At("trigger") /\ prog.trigger = "ecall"
    /\ EnterTrap(EcallFrom(hart.prv))
    /\ UNCHANGED <<prog, platform, msip, frames, passed>>

\* The bounded loop, or the read of mip, before pass().
MainPasses ==
    /\ At("after_trigger")
    /\ Goto("pass")
    /\ passed' = TRUE
    /\ NoTrap /\ UNCHANGED <<prog, platform, msip, frames>>

\* pass() returns; main loops or returns to init.S, where the model ends.
MainEnds ==
    /\ At("pass")
    /\ Goto(IF prog.returns THEN "ended" ELSE "loop")
    /\ NoTrap /\ UNCHANGED <<prog, platform, msip, frames, passed>>

-----------------------------------------------------------------------------
(* interrupt_handler *)

\* mcause as the handler sees it: a uint32_t loses the interrupt bit of rv64.
Seen(cause) ==
    IF prog.narrow /\ platform.xlen = 64 THEN [cause EXCEPT !.irq = FALSE] ELSE cause

\* The prologue pushes a frame; then the cause selects a branch.
HandlerEnter ==
    /\ At("handler")
    /\ frames' = frames + 1
    /\ Goto(IF Seen(hart.mcause) = EcallFrom(M) THEN "ecall_branch"
            ELSE IF Seen(hart.mcause) = prog.msi THEN "msi_branch"
            ELSE "epilogue")
    /\ NoTrap /\ UNCHANGED <<prog, platform, msip, passed>>

EcallBranchRaisesAgain ==       \* a variant with a mistake: mepc is left at the ecall
    /\ At("ecall_branch")
    /\ msip' = IF prog.raises THEN 1 ELSE msip
    /\ Goto("epilogue")
    /\ NoTrap /\ UNCHANGED <<prog, platform, frames, passed>>

EcallBranch ==
    /\ At("ecall_branch")
    /\ msip' = IF prog.raises THEN 1 ELSE msip
    /\ passed' = (passed \/ prog.passes)
    /\ Goto(IF prog.passes THEN "pass_in_handler" ELSE "advance_mepc")
    /\ NoTrap /\ UNCHANGED <<prog, platform, frames>>

PassInHandler ==
    /\ At("pass_in_handler")
    /\ Goto("advance_mepc")
    /\ NoTrap /\ UNCHANGED <<prog, platform, msip, frames, passed>>

AdvanceMepc ==
    /\ At("advance_mepc")
    /\ hart' = [hart EXCEPT !.pc = "epilogue", !.mepc = After[@]]
    /\ NoTrap /\ UNCHANGED <<prog, platform, msip, frames, passed>>

MsiBranch ==
    /\ At("msi_branch")
    /\ IF prog.ecalls THEN EnterTrap(EcallFrom(hart.prv))
       ELSE Goto("msi_clear") /\ NoTrap
    /\ UNCHANGED <<prog, platform, msip, frames, passed>>

MsiKept ==                      \* a variant with a mistake: the interrupt is not cleared
    /\ At("msi_clear")
    /\ Goto("msi_mip")
    /\ NoTrap /\ UNCHANGED <<prog, platform, msip, frames, passed>>

\* *p_msip = 0; with the frame of p_msip gone the address is whatever is there:
\* the store may hit msip, something else, or nothing and fault.
MsiClear ==
    /\ At("msi_clear")
    /\ \/ /\ msip' = 0
          /\ Goto("msi_mip") /\ NoTrap
       \/ /\ frames = 0
          /\ Goto("msi_mip") /\ NoTrap /\ UNCHANGED msip
       \/ /\ frames = 0
          /\ EnterTrap(StoreFault) /\ UNCHANGED msip
    /\ UNCHANGED <<prog, platform, frames, passed>>

\* The read of mip, a machine-mode register (irq_test has none).
MsiReadsMip ==
    /\ At("msi_mip")
    /\ IF hart.prv = M THEN Goto("epilogue") /\ NoTrap
       ELSE EnterTrap(IllegalInstruction)
    /\ UNCHANGED <<prog, platform, msip, frames, passed>>

Epilogue ==
    /\ At("epilogue")
    /\ msip' = IF prog.clears THEN 0 ELSE msip
    /\ frames' = IF frames = 0 THEN 0 ELSE frames - 1
    /\ Goto("mret")
    /\ NoTrap /\ UNCHANGED <<prog, platform, passed>>

\* Since QEMU 6 an mret to below machine mode without a PMP entry is illegal.
MretTraps == platform.pmp = "qemu6" /\ hart.mpp # M

HandlerMret ==
    /\ At("mret") /\ ~MretTraps
    /\ hart' = Mret(hart)
    /\ due' = IF due = <<>> THEN <<>> ELSE SubSeq(due, 1, Len(due) - 1)
    /\ UNCHANGED <<prog, platform, msip, frames, traps, passed>>

HandlerMretTraps ==
    /\ At("mret") /\ MretTraps
    /\ EnterTrap(IllegalInstruction)
    /\ UNCHANGED <<prog, platform, msip, frames, passed>>

-----------------------------------------------------------------------------
(* Steps of the hardware. *)

RefuseFetch ==
    /\ ~CanFetch
    /\ EnterTrap(FetchFault)
    /\ UNCHANGED <<prog, platform, msip, frames, passed>>

TakeInterrupt ==
    /\ hart.pc # "ended"
    /\ \E i \in Takeable(hart) : EnterTrap(Interrupt(i))
    /\ UNCHANGED <<prog, platform, msip, frames, passed>>

ClintDrives ==
    /\ ~LineFollowsMsip
    /\ hart' = [hart EXCEPT !.mip = IF msip = 1 THEN @ \cup {MSI} ELSE @ \ {MSI}]
    /\ NoTrap /\ UNCHANGED <<prog, platform, msip, frames, passed>>

-----------------------------------------------------------------------------
Execute ==
    \/ MainSetup \/ MainRaises \/ MainEcalls \/ MainPasses \/ MainEnds
    \/ HandlerEnter \/ EcallBranch \/ PassInHandler \/ AdvanceMepc
    \/ MsiBranch \/ MsiClear \/ MsiReadsMip \/ Epilogue
    \/ HandlerMret \/ HandlerMretTraps \/ RefuseFetch

Next == Execute \/ TakeInterrupt \/ ClintDrives

\* The hart executes, takes an interrupt that stays takeable, and the CLINT
\* drives its line.
Fairness == WF_vars(Execute) /\ WF_vars(TakeInterrupt) /\ WF_vars(ClintDrives)

Spec == Init /\ [][Next]_vars

FairSpec == Spec /\ Fairness

-----------------------------------------------------------------------------
(* Properties *)

Context == [pc |-> hart.pc, prv |-> hart.prv, mie |-> "MIE" \in hart.on]

\* The program with an ecall inside its interrupt branch promises no stack, see
\* InterruptedMainResumes: it stays at the reset.
Nests == ~prog.ecalls

Stack == INSTANCE TrapStack
           WITH Handler <- "handler", Locations <- Pcs, Following <- After,
                now <- IF Nests THEN Context ELSE [Context EXCEPT !.prv = M],
                due <- IF Nests THEN due ELSE <<>>

\* Where the handler will return to: its own advance of mepc is still to come.
ReturnPc ==
    IF /\ hart.pc \in {"handler", "ecall_branch", "pass_in_handler", "advance_mepc"}
       /\ hart.mcause = EcallFrom(M)
    THEN After[hart.mepc] ELSE hart.mepc

InMain ==
    /\ due = <<>> /\ frames = 0

InHandler ==
    /\ "MIE" \notin hart.on /\ hart.mpp = M /\ hart.mepc \in MainPcs
    /\ due = <<[pc |-> ReturnPc, prv |-> M, mie |-> "MPIE" \in hart.on]>>
    /\ frames = IF hart.pc \in {"handler", "mret"} THEN 0 ELSE 1
    /\ hart.mcause \in {EcallFrom(M), Interrupt(MSI)}
    /\ hart.pc \in {"ecall_branch", "pass_in_handler", "advance_mepc"}
           <=> hart.mcause = EcallFrom(M) /\ hart.pc \notin {"handler", "epilogue", "mret"}

\* Between main and the one frame of its handler there is nothing else: the handler
\* runs with interrupts off and mepc, MPP and MPIE hold the only context due.
OneTrapAtATime ==
    Nests => /\ hart.prv = M
             /\ hart.mie \subseteq {MSI} /\ hart.mip \subseteq {MSI}
             /\ IF hart.pc \in MainPcs THEN InMain ELSE InHandler

\* Every mret goes back to the code the last trap interrupted: behind the ecall or
\* to the interrupted instruction, in machine mode, with interrupts as they were -
\* also when the handler raised the interrupt of the next trap itself, or a line
\* that falls late causes one more.
TrapsNest == Stack!Spec

\* Every test reaches pass(), whatever the CLINT and the hart delay: the build
\* script waits for its breakpoint there without a limit.
EveryTestPasses == <>passed

\* A software interrupt that is raised is cleared again, before the test ends, or is
\* so slow that it ends first.  On rv32 no branch of irq_test recognises the cause:
\* only the store at the end of its handler saves it from an interrupt storm.
SoftwareIrqServed == (msip = 1) ~> (msip = 0 \/ hart.pc = "ended")

\* The traps the name of a test announces, in the order of the name.
Named ==
    LET msi == Interrupt(MSI)
        ecall == EcallFrom(M)
    IN  CASE prog.raises -> <<ecall, msi>>
          [] prog.ecalls -> <<msi, ecall>>
          [] ~prog.raises /\ ~prog.ecalls -> IF prog.trigger = "msip" THEN <<msi>> ELSE <<ecall>>

\* At pass() exactly the traps of the test's name were taken, in its order, when
\* the CLINT and the hart are prompt: nested_ecall_irq takes its interrupt when the
\* ecall has returned and before main goes on, and no trap is taken twice.
TrapsAsNamed == passed /\ platform.prompt => traps = Named

\* Whoever is interrupted goes on: after a trap, main executes again.  The handler
\* is declared an interrupt handler and advances mepc behind an ecall for this; it
\* fails when the ecall is its own, because nothing saves mepc and mstatus.
InterruptedMainResumes == (due # <<>>) ~> (hart.pc \in MainPcs)

=============================================================================
