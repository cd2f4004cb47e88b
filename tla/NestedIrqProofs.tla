--------------------------- MODULE NestedIrqProofs ---------------------------
(***************************************************************************)
(* TLAPS proofs about NestedIrq: for every set of programs of its shape and *)
(* every platform, the state is well typed; every program whose handler     *)
(* executes no ecall takes one trap at a time and returns from each to      *)
(* where TrapStack says; and on a prompt platform a program takes the traps *)
(* of its name, in that order, and no others.                               *)
(***************************************************************************)
EXTENDS NestedIrq, SequenceTheorems, TLAPS

LEMMA TrapType ==
    ASSUME NEW h \in Harts, NEW cause \in Causes
    PROVE  Trap(h, cause) \in Harts
<1>1. EnterM(h, cause) \in Harts
  <2>1. CopyFlag(h.on, "MIE", "MPIE") \ {"MIE"} \in SUBSET Flags
    BY DEF Harts, CopyFlag, Flags
  <2>2. M \in Modes /\ "handler" \in Pcs
    BY DEF Modes, Pcs, HandlerPcs
  <2>. QED  BY <2>1, <2>2 DEF Harts, EnterM
<1>2. EnterS(h, cause) \in Harts
  <2>1. (CopyFlag(h.on, "SIE", "SPIE") \ {"SIE", "SPP"})
            \cup (IF h.prv = U THEN {} ELSE {"SPP"}) \in SUBSET Flags
    BY DEF Harts, CopyFlag, Flags
  <2>2. S \in Modes /\ "handler" \in Pcs
    BY DEF Modes, Pcs, HandlerPcs
  <2>. QED  BY <2>1, <2>2 DEF Harts, EnterS
<1>. QED  BY <1>1, <1>2 DEF Trap

LEMMA MretType ==
    ASSUME NEW h \in Harts
    PROVE  Mret(h) \in Harts
BY DEF Harts, Mret, CopyFlag, Flags, Modes, U, S, M

LEMMA CauseTypes ==
    /\ FetchFault \in Causes /\ IllegalInstruction \in Causes /\ StoreFault \in Causes
    /\ \A prv \in Modes : EcallFrom(prv) \in Causes
    /\ \A n \in Codes : Interrupt(n) \in Causes
BY DEF FetchFault, IllegalInstruction, StoreFault, EcallFrom, Exception, Interrupt,
       Causes, Codes, Modes, U, S, M

LEMMA AfterType ==
    /\ DOMAIN After = Pcs
    /\ \A pc \in Pcs : After[pc] \in Pcs
    /\ \A pc \in Pcs \ {"trigger", "msi_branch"} : After[pc] = pc
BY DEF After, Pcs, MainPcs, HandlerPcs

LEMMA ResumeType ==
    ASSUME TypeOK, NEW cause
    PROVE  Resume(cause) \in Contexts
BY AfterType DEF Resume, Contexts, TypeOK, Harts

LEMMA EnterTrapType ==
    ASSUME TypeOK, NEW cause \in Causes, EnterTrap(cause)
    PROVE  hart' \in Harts /\ due' \in Seq(Contexts) /\ traps' \in Seq(Causes)
<1>1. hart' \in Harts
  BY TrapType DEF EnterTrap, TypeOK
<1>2. due' \in Seq(Contexts)
  BY ResumeType, AppendProperties DEF EnterTrap, TypeOK
<1>3. traps' \in Seq(Causes)
  BY AppendProperties DEF EnterTrap, TypeOK
<1>. QED  BY <1>1, <1>2, <1>3

\* Removing the last element.
LEMMA FrontOf ==
    ASSUME NEW X, NEW s \in Seq(X)
    PROVE  /\ s # <<>> => SubSeq(s, 1, Len(s) - 1) \in Seq(X)
           /\ \A x \in X : SubSeq(<<x>>, 1, Len(<<x>>) - 1) = <<>>
<1>1. s # <<>> => Len(s) \in Nat \ {0}
  BY EmptySeq
<1>. QED  BY <1>1

LEMMA TypeInit == Init => TypeOK
<1>1. ResetHart \in Harts
  <2>1. Exception(0) \in Causes
    BY DEF Exception, Causes, Codes
  <2>2. "main" \in Pcs /\ U \in Modes /\ M \in Modes
    BY DEF Pcs, MainPcs, Modes, U, M
  <2>. QED  BY <2>1, <2>2 DEF ResetHart, Harts
<1>2. <<>> \in Seq(Contexts) /\ <<>> \in Seq(Causes)
  BY EmptySeq
<1>3. Init => due \in Seq(Contexts) /\ traps \in Seq(Causes)
  BY <1>2, Zenon DEF Init
<1>4. Init => hart \in Harts
  BY <1>1, Zenon DEF Init
<1>5. Init => passed \in BOOLEAN
  BY Zenon DEF Init
<1>6. Init => msip \in {0, 1} /\ frames \in Nat
  BY SMT DEF Init
<1>7. Init => prog \in IrqPrograms /\ platform \in IrqPlatforms
  BY Zenon DEF Init
<1>. QED  BY <1>3, <1>4, <1>5, <1>6, <1>7, Zenon DEF TypeOK

LEMMA EcallCauseType == TypeOK => EcallFrom(hart.prv) \in Causes
BY CauseTypes DEF TypeOK, Harts

LEMMA TypeStep == TypeOK /\ [Next]_vars => TypeOK'
<1>. SUFFICES ASSUME TypeOK, [Next]_vars PROVE TypeOK'
  OBVIOUS
<1>. USE DEF TypeOK
<1>g. ASSUME NEW loc \in Pcs, Goto(loc) PROVE hart' \in Harts
  BY <1>g DEF Goto, Harts
<1>1. CASE MainSetup
  <2>1. /\ hart.on \cup {"MIE"} \in SUBSET Flags
        /\ hart.mie \cup {MSI} \in SUBSET Codes
    <3>1. hart.on \in SUBSET Flags /\ hart.mie \in SUBSET Codes
      BY DEF Harts
    <3>2. "MIE" \in Flags /\ MSI \in Codes
      BY DEF Flags, MSI, Codes
    <3>. QED  BY <3>1, <3>2
  <2>2. hart' \in Harts
    <3>1. "trigger" \in Pcs
      BY DEF Pcs, MainPcs
    <3>. QED  BY <1>1, <2>1, <3>1 DEF MainSetup, Harts
  <2>. QED  BY <1>1, <2>2 DEF MainSetup, NoTrap
<1>2. CASE MainRaises \/ MainPasses \/ MainEnds
  BY <1>2, <1>g DEF MainRaises, MainPasses, MainEnds, NoTrap, Pcs, MainPcs
<1>3. CASE MainEcalls
  BY <1>3, EnterTrapType, EcallCauseType DEF MainEcalls
<1>4. CASE HandlerEnter
  BY <1>4, <1>g DEF HandlerEnter, NoTrap, Pcs, HandlerPcs
<1>5. CASE EcallBranch
  <2>1. prog.passes \in BOOLEAN
    BY IrqProgramsAssumption DEF IrqProgramType
  <2>. QED  BY <1>5, <1>g, <2>1 DEF EcallBranch, NoTrap, Pcs, HandlerPcs
<1>6. CASE PassInHandler
  BY <1>6, <1>g DEF PassInHandler, NoTrap, Pcs, HandlerPcs
<1>7. CASE AdvanceMepc
  <2>1. hart' \in Harts
    BY <1>7, AfterType DEF AdvanceMepc, Harts, Pcs, HandlerPcs
  <2>. QED  BY <1>7, <2>1 DEF AdvanceMepc, NoTrap
<1>8. CASE MsiBranch
  BY <1>8, <1>g, EnterTrapType, EcallCauseType DEF MsiBranch, NoTrap, Pcs, HandlerPcs
<1>9. CASE MsiClear
  BY <1>9, <1>g, EnterTrapType, CauseTypes DEF MsiClear, NoTrap, Pcs, HandlerPcs
<1>10. CASE MsiReadsMip
  BY <1>10, <1>g, EnterTrapType, CauseTypes DEF MsiReadsMip, NoTrap, Pcs, HandlerPcs
<1>11. CASE Epilogue
  BY <1>11, <1>g DEF Epilogue, NoTrap, Pcs, HandlerPcs
<1>12. CASE HandlerMret
  BY <1>12, MretType, FrontOf DEF HandlerMret
<1>13. CASE HandlerMretTraps \/ RefuseFetch
  BY <1>13, EnterTrapType, CauseTypes DEF HandlerMretTraps, RefuseFetch
<1>14. CASE TakeInterrupt
  <2>1. Takeable(hart) \subseteq Codes
    BY DEF Takeable, ToMachine, ToSupervisor, Harts
  <2>. QED  BY <1>14, <2>1, EnterTrapType, CauseTypes DEF TakeInterrupt
<1>15. CASE ClintDrives
  <2>1. hart.mip \in SUBSET Codes
    BY DEF Harts
  <2>2. MSI \in Codes
    BY SMT DEF MSI, Codes
  <2>3. /\ hart.mip \cup {MSI} \in SUBSET Codes
        /\ hart.mip \ {MSI} \in SUBSET Codes
    BY <2>1, <2>2
  <2>4. hart' \in Harts
    BY <1>15, <2>3 DEF ClintDrives, Harts
  <2>. QED  BY <1>15, <2>4 DEF ClintDrives, NoTrap
<1>16. CASE UNCHANGED vars
  BY <1>16 DEF vars
<1>. QED
  BY <1>1, <1>2, <1>3, <1>4, <1>5, <1>6, <1>7, <1>8, <1>9, <1>10, <1>11, <1>12,
     <1>13, <1>14, <1>15, <1>16 DEF Next, Execute

\* Every variable keeps its type, whatever programs of this shape are run.
THEOREM TypeCorrect == Spec => []TypeOK
BY TypeInit, TypeStep, PTL DEF Spec

-----------------------------------------------------------------------------
(* Traps nest.  A step of a program without an ecall in its handler runs,    *)
(* enters a trap or returns from one, as the actions of TrapStack do.        *)

Runs == hart'.prv = hart.prv /\ due' = due

Enters ==
    /\ hart'.pc = "handler" /\ "MIE" \notin hart'.on
    /\ \E cause \in Causes : due' = Append(due, Resume(cause))

Returns ==
    /\ due # <<>>
    /\ Context' = due[Len(due)]
    /\ due' = SubSeq(due, 1, Len(due) - 1)

Quiet == TypeOK /\ OneTrapAtATime /\ Nests

LEMMA PcsSplit == Pcs = MainPcs \cup HandlerPcs /\ MainPcs \cap HandlerPcs = {}
BY DEF Pcs, MainPcs, HandlerPcs

LEMMA QuietFetches == Quiet => CanFetch
BY DEF Quiet, OneTrapAtATime, CanFetch

\* A step of main that takes no trap: pc, mie and MIE may change.
LEMMA MainRuns ==
    ASSUME Quiet, hart.pc \in MainPcs, hart'.pc \in MainPcs, hart'.prv = hart.prv,
           hart'.mie \subseteq {MSI}, hart'.mip = hart.mip, NoTrap,
           UNCHANGED <<prog, frames>>
    PROVE  OneTrapAtATime' /\ Runs
BY DEF Quiet, OneTrapAtATime, InMain, Nests, NoTrap, Runs

LEMMA MainActions ==
    ASSUME Quiet, MainSetup \/ MainRaises \/ MainPasses \/ MainEnds
    PROVE  OneTrapAtATime' /\ Runs
<1>1. hart \in Harts
  BY DEF Quiet, TypeOK
<1>2. hart.mie \subseteq {MSI}
  BY DEF Quiet, OneTrapAtATime
<1>3. CASE MainSetup
  <2>1. /\ hart.pc = "main" /\ hart'.pc = "trigger" /\ hart'.prv = hart.prv
        /\ hart'.mie = hart.mie \cup {MSI} /\ hart'.mip = hart.mip
    BY <1>1, <1>3 DEF MainSetup, At, Harts
  <2>2. "main" \in MainPcs /\ "trigger" \in MainPcs
    BY DEF MainPcs
  <2>. QED  BY <1>2, <1>3, <2>1, <2>2, MainRuns DEF MainSetup
<1>4. CASE MainRaises \/ MainPasses \/ MainEnds
  <2>1. /\ hart.pc \in MainPcs /\ hart'.pc \in MainPcs
        /\ hart'.prv = hart.prv /\ hart'.mie = hart.mie /\ hart'.mip = hart.mip
    BY <1>1, <1>4 DEF MainRaises, MainPasses, MainEnds, At, Goto, Harts, MainPcs
  <2>. QED  BY <1>2, <1>4, <2>1, MainRuns DEF MainRaises, MainPasses, MainEnds
<1>. QED  BY <1>3, <1>4

\* A step inside the handler that takes no trap: pc may change, and so may mepc
\* when the ecall's address is advanced.
LEMMA HandlerRuns ==
    ASSUME Quiet, hart.pc \in HandlerPcs, hart'.pc \in HandlerPcs,
           hart'.prv = hart.prv, hart'.on = hart.on, hart'.mpp = hart.mpp,
           hart'.mcause = hart.mcause, hart'.mie = hart.mie, hart'.mip = hart.mip,
           hart'.mepc \in MainPcs, ReturnPc' = ReturnPc, NoTrap, prog' = prog,
           frames' = IF hart'.pc \in {"handler", "mret"} THEN 0 ELSE 1,
           hart'.pc \in {"ecall_branch", "pass_in_handler", "advance_mepc"}
               <=> /\ hart.mcause = EcallFrom(M)
                   /\ hart'.pc \notin {"handler", "epilogue", "mret"}
    PROVE  OneTrapAtATime' /\ Runs
<1>1. InHandler
  BY PcsSplit DEF Quiet, OneTrapAtATime
<1>2. InHandler'
  BY <1>1 DEF InHandler, NoTrap
<1>. QED  BY <1>2, PcsSplit DEF Quiet, OneTrapAtATime, Nests, NoTrap, Runs

HandlerStep ==
    \/ HandlerEnter \/ EcallBranch \/ PassInHandler \/ AdvanceMepc
    \/ MsiBranch \/ MsiClear \/ MsiReadsMip \/ Epilogue

LEMMA QuietInHandler ==
    ASSUME Quiet, hart.pc \in HandlerPcs
    PROVE  InHandler /\ hart \in Harts /\ hart.prv = M
BY PcsSplit DEF Quiet, TypeOK, OneTrapAtATime

LEMMA GotoKeeps ==
    ASSUME hart \in Harts, NEW loc \in Pcs, Goto(loc)
    PROVE  /\ hart'.pc = loc /\ hart'.prv = hart.prv /\ hart'.on = hart.on
           /\ hart'.mpp = hart.mpp /\ hart'.mepc = hart.mepc
           /\ hart'.mcause = hart.mcause /\ hart'.mie = hart.mie /\ hart'.mip = hart.mip
BY DEF Goto, Harts

LEMMA CausesDiffer == EcallFrom(M) # Interrupt(MSI) /\ EcallFrom(M).irq = FALSE
BY DEF EcallFrom, Exception, Interrupt

LEMMA HandlerActions ==
    ASSUME Quiet, HandlerStep
    PROVE  OneTrapAtATime' /\ Runs
<1>0. hart.pc \in HandlerPcs
  BY DEF HandlerStep, HandlerEnter, EcallBranch, PassInHandler, AdvanceMepc,
         MsiBranch, MsiClear, MsiReadsMip, Epilogue, At, HandlerPcs
<1>h. InHandler /\ hart \in Harts /\ hart.prv = M
  BY <1>0, QuietInHandler
<1>n. ~prog.ecalls
  BY DEF Quiet, Nests
<1>1. CASE HandlerEnter
  <2>1. hart.mcause = EcallFrom(M) <=> Seen(hart.mcause) = EcallFrom(M)
    <3>1. Seen(EcallFrom(M)) = EcallFrom(M)
      BY DEF Seen, EcallFrom, Exception
    <3>2. Seen(Interrupt(MSI)).code = 3 /\ EcallFrom(M).code = 11
      BY DEF Seen, EcallFrom, Exception, Interrupt, MSI, M
    <3>. QED  BY <1>h, <3>1, <3>2 DEF InHandler
  <2>2. \E loc \in {"ecall_branch", "msi_branch", "epilogue"} :
            Goto(loc) /\ (loc = "ecall_branch" <=> hart.mcause = EcallFrom(M))
    <3>1. CASE Seen(hart.mcause) = EcallFrom(M)
      BY <1>1, <2>1, <3>1 DEF HandlerEnter
    <3>2. CASE Seen(hart.mcause) # EcallFrom(M) /\ Seen(hart.mcause) = prog.msi
      <4>1. Goto("msi_branch")
        BY <1>1, <3>2 DEF HandlerEnter
      <4>. QED  BY <2>1, <3>2, <4>1
    <3>3. CASE Seen(hart.mcause) # EcallFrom(M) /\ Seen(hart.mcause) # prog.msi
      <4>1. Goto("epilogue")
        BY <1>1, <3>3 DEF HandlerEnter
      <4>. QED  BY <2>1, <3>3, <4>1
    <3>. QED  BY <3>1, <3>2, <3>3
  <2>3. PICK loc \in {"ecall_branch", "msi_branch", "epilogue"} :
            Goto(loc) /\ (loc = "ecall_branch" <=> hart.mcause = EcallFrom(M))
    BY <2>2
  <2>4. hart.pc = "handler" /\ frames' = frames + 1 /\ NoTrap /\ prog' = prog
    BY <1>1 DEF HandlerEnter, At
  <2>5. loc \in HandlerPcs /\ loc \in Pcs
    BY DEF HandlerPcs, Pcs
  <2>6. ReturnPc' = ReturnPc
    BY <1>h, <2>3, <2>4, <2>5, GotoKeeps DEF ReturnPc
  <2>. QED
    BY <1>0, <1>h, <2>3, <2>4, <2>5, <2>6, GotoKeeps, HandlerRuns DEF InHandler
<1>2. CASE EcallBranch \/ PassInHandler
  <2>1. PICK loc \in {"pass_in_handler", "advance_mepc"} : Goto(loc)
    BY <1>2 DEF EcallBranch, PassInHandler
  <2>2. /\ hart.pc \in {"ecall_branch", "pass_in_handler"}
        /\ frames' = frames /\ NoTrap /\ prog' = prog
    BY <1>2 DEF EcallBranch, PassInHandler, At
  <2>3. loc \in HandlerPcs /\ loc \in Pcs
    BY DEF HandlerPcs, Pcs
  <2>4. ReturnPc' = ReturnPc
    BY <1>h, <2>1, <2>2, <2>3, GotoKeeps DEF ReturnPc
  <2>. QED
    BY <1>0, <1>h, <2>1, <2>2, <2>3, <2>4, GotoKeeps, HandlerRuns DEF InHandler
<1>3. CASE AdvanceMepc
  <2>1. /\ hart.pc = "advance_mepc" /\ hart' = [hart EXCEPT !.pc = "epilogue", !.mepc = After[@]]
        /\ frames' = frames /\ NoTrap /\ prog' = prog
    BY <1>3 DEF AdvanceMepc, At
  <2>2. /\ hart'.pc = "epilogue" /\ hart'.mepc = After[hart.mepc]
        /\ hart'.prv = hart.prv /\ hart'.on = hart.on /\ hart'.mpp = hart.mpp
        /\ hart'.mcause = hart.mcause /\ hart'.mie = hart.mie /\ hart'.mip = hart.mip
    BY <1>h, <2>1 DEF Harts
  <2>3. hart.mcause = EcallFrom(M) /\ hart.mepc \in MainPcs
    BY <1>h, <2>1 DEF InHandler
  <2>4. ReturnPc' = ReturnPc
    BY <2>1, <2>2, <2>3 DEF ReturnPc
  <2>5. After[hart.mepc] \in MainPcs
    BY <2>3 DEF After, Pcs, MainPcs, HandlerPcs
  <2>6. "epilogue" \in HandlerPcs
    BY DEF HandlerPcs
  <2>. QED
    BY <1>0, <1>h, <2>1, <2>2, <2>3, <2>4, <2>5, <2>6, HandlerRuns DEF InHandler
<1>4. CASE MsiBranch \/ MsiClear \/ MsiReadsMip
  <2>1. frames = 1 /\ hart.mcause # EcallFrom(M)
    BY <1>4, <1>h DEF MsiBranch, MsiClear, MsiReadsMip, At, InHandler
  <2>2. PICK loc \in {"msi_clear", "msi_mip", "epilogue"} : Goto(loc) /\ NoTrap
    BY <1>4, <1>h, <1>n, <2>1 DEF MsiBranch, MsiClear, MsiReadsMip
  <2>3. /\ hart.pc \in {"msi_branch", "msi_clear", "msi_mip"}
        /\ frames' = frames /\ prog' = prog
    BY <1>4 DEF MsiBranch, MsiClear, MsiReadsMip, At
  <2>4. loc \in HandlerPcs /\ loc \in Pcs
    BY DEF HandlerPcs, Pcs
  <2>5. ReturnPc' = ReturnPc
    BY <1>h, <2>2, <2>3, <2>4, GotoKeeps DEF ReturnPc
  <2>. QED
    BY <1>0, <1>h, <2>1, <2>2, <2>3, <2>4, <2>5, GotoKeeps, HandlerRuns DEF InHandler
<1>5. CASE Epilogue
  <2>1. hart.pc = "epilogue" /\ Goto("mret") /\ NoTrap /\ prog' = prog
    BY <1>5 DEF Epilogue, At
  <2>2. frames' = 0
    BY <1>5, <1>h, <2>1 DEF Epilogue, InHandler
  <2>3. "mret" \in HandlerPcs /\ "mret" \in Pcs
    BY DEF HandlerPcs, Pcs
  <2>4. ReturnPc' = ReturnPc
    BY <1>h, <2>1, <2>3, GotoKeeps DEF ReturnPc
  <2>. QED
    BY <1>0, <1>h, <2>1, <2>2, <2>3, <2>4, GotoKeeps, HandlerRuns DEF InHandler
<1>. QED  BY <1>1, <1>2, <1>3, <1>4, <1>5 DEF HandlerStep

\* A trap out of main.
LEMMA MainTraps ==
    ASSUME NEW cause \in {EcallFrom(M), Interrupt(MSI)}, Quiet,
           hart.pc \in MainPcs, EnterTrap(cause), UNCHANGED <<prog, frames>>
    PROVE  OneTrapAtATime' /\ Enters
<1>1. /\ hart \in Harts /\ hart.prv = M /\ due = <<>> /\ frames = 0
      /\ hart.mie \subseteq {MSI} /\ hart.mip \subseteq {MSI} /\ Nests
  BY DEF Quiet, TypeOK, OneTrapAtATime, InMain
<1>2. cause \in Causes
  BY CauseTypes DEF Modes, Codes, M, MSI
<1>3. hart' = EnterM(hart, cause)
  BY <1>1 DEF EnterTrap, Trap, Delegated
<1>4. /\ hart'.pc = "handler" /\ hart'.prv = M /\ hart'.mpp = M
      /\ hart'.mepc = hart.pc /\ hart'.mcause = cause
      /\ hart'.mie = hart.mie /\ hart'.mip = hart.mip
      /\ hart'.on = CopyFlag(hart.on, "MIE", "MPIE") \ {"MIE"}
  BY <1>1, <1>3 DEF EnterM, Harts
<1>5. "MIE" \notin hart'.on /\ ("MPIE" \in hart'.on <=> "MIE" \in hart.on)
  BY <1>4 DEF CopyFlag
<1>6. due' = <<Resume(cause)>> /\ due' = Append(due, Resume(cause))
  BY <1>1 DEF EnterTrap
<1>7. Resume(cause) = [pc |-> ReturnPc', prv |-> M, mie |-> "MPIE" \in hart'.on]
  BY <1>1, <1>4, <1>5 DEF Resume, ReturnPc
<1>8. InHandler'
  BY <1>1, <1>4, <1>5, <1>6, <1>7 DEF InHandler
<1>9. "handler" \notin MainPcs
  BY DEF MainPcs
<1>10. OneTrapAtATime'
  BY <1>1, <1>4, <1>8, <1>9 DEF OneTrapAtATime, Nests
<1>. QED  BY <1>2, <1>4, <1>5, <1>6, <1>10 DEF Enters

LEMMA MretReturns ==
    ASSUME Quiet, HandlerMret
    PROVE  OneTrapAtATime' /\ Returns
<1>1. hart.pc = "mret" /\ hart' = Mret(hart) /\ UNCHANGED <<prog, frames>>
      /\ due' = IF due = <<>> THEN <<>> ELSE SubSeq(due, 1, Len(due) - 1)
  BY DEF HandlerMret, At
<1>2. InHandler /\ hart \in Harts /\ hart.prv = M
  BY <1>1, QuietInHandler DEF HandlerPcs
<1>3. due = <<[pc |-> hart.mepc, prv |-> M, mie |-> "MPIE" \in hart.on]>> /\ frames = 0
  BY <1>1, <1>2 DEF InHandler, ReturnPc
<1>4. /\ hart'.pc = hart.mepc /\ hart'.prv = M
      /\ hart'.mie = hart.mie /\ hart'.mip = hart.mip
      /\ hart'.on = CopyFlag(hart.on, "MPIE", "MIE") \cup {"MPIE"}
  BY <1>1, <1>2 DEF Mret, Harts, InHandler
<1>5. "MIE" \in hart'.on <=> "MPIE" \in hart.on
  BY <1>4 DEF CopyFlag
<1>6. /\ due # <<>> /\ Len(due) = 1
      /\ due[Len(due)] = [pc |-> hart.mepc, prv |-> M, mie |-> "MPIE" \in hart.on]
  BY <1>3
<1>7. Context' = due[Len(due)]
  BY <1>4, <1>5, <1>6 DEF Context
<1>8. due' = SubSeq(due, 1, Len(due) - 1) /\ due' = <<>>
  BY <1>1, <1>3, <1>6
<1>9. hart'.pc \in MainPcs
  BY <1>2, <1>4 DEF InHandler
<1>10. OneTrapAtATime'
  BY <1>1, <1>3, <1>4, <1>8, <1>9 DEF Quiet, OneTrapAtATime, InMain, Nests
<1>. QED  BY <1>6, <1>7, <1>8, <1>10 DEF Returns

\* Interrupts are on in main only, and mie and mip hold at most MSI.
LEMMA InterruptTraps ==
    ASSUME Quiet, TakeInterrupt
    PROVE  OneTrapAtATime' /\ Enters
<1>1. hart.prv = M /\ hart.mie \subseteq {MSI} /\ hart \in Harts
  BY DEF Quiet, TypeOK, OneTrapAtATime
<1>2. PICK i \in Takeable(hart) : EnterTrap(Interrupt(i))
  BY DEF TakeInterrupt
<1>3. i \in ToMachine(hart)
  BY <1>1, <1>2 DEF Takeable, ToSupervisor, S, U, M
<1>4. "MIE" \in hart.on /\ i = MSI
  BY <1>1, <1>3 DEF ToMachine
<1>5. hart.pc \in MainPcs
  BY <1>4 DEF Quiet, OneTrapAtATime, InHandler
<1>. QED  BY <1>2, <1>4, <1>5, MainTraps DEF TakeInterrupt

LEMMA QuietStep ==
    ASSUME Quiet, Next
    PROVE  OneTrapAtATime' /\ (Runs \/ Enters \/ Returns)
<1>1. CASE MainSetup \/ MainRaises \/ MainPasses \/ MainEnds
  BY <1>1, MainActions
<1>2. CASE MainEcalls
  <2>1. hart.pc \in MainPcs /\ hart.prv = M
    BY <1>2 DEF MainEcalls, At, MainPcs, Quiet, OneTrapAtATime
  <2>. QED  BY <1>2, <2>1, MainTraps DEF MainEcalls
<1>3. CASE HandlerStep
  BY <1>3, HandlerActions
<1>4. CASE HandlerMret
  BY <1>4, MretReturns
<1>5. CASE HandlerMretTraps
  <2>1. hart.mpp = M
    BY <1>5, QuietInHandler DEF HandlerMretTraps, At, HandlerPcs, InHandler
  <2>. QED  BY <1>5, <2>1 DEF HandlerMretTraps, MretTraps
<1>6. CASE RefuseFetch
  BY <1>6, QuietFetches DEF RefuseFetch
<1>7. CASE TakeInterrupt
  BY <1>7, InterruptTraps
<1>8. CASE ClintDrives
  <2>1. /\ hart'.pc = hart.pc /\ hart'.prv = hart.prv /\ hart'.on = hart.on
        /\ hart'.mpp = hart.mpp /\ hart'.mepc = hart.mepc
        /\ hart'.mcause = hart.mcause /\ hart'.mie = hart.mie
        /\ hart'.mip \in {hart.mip \cup {MSI}, hart.mip \ {MSI}}
    BY <1>8 DEF ClintDrives, Quiet, TypeOK, Harts
  <2>2. UNCHANGED <<due, frames, prog>>
    BY <1>8 DEF ClintDrives, NoTrap
  <2>3. hart'.mip \subseteq {MSI}
    BY <2>1 DEF Quiet, OneTrapAtATime
  <2>. QED
    BY <2>1, <2>2, <2>3
       DEF Quiet, OneTrapAtATime, InMain, InHandler, ReturnPc, Nests, Runs
<1>. QED
  BY <1>1, <1>2, <1>3, <1>4, <1>5, <1>6, <1>7, <1>8 DEF Next, Execute, HandlerStep

LEMMA ProgKept == TypeOK /\ [Next]_vars => prog' = prog
BY DEF vars, Next, Execute, MainSetup, MainRaises, MainEcalls, MainPasses, MainEnds,
       HandlerEnter, EcallBranch, PassInHandler, AdvanceMepc, MsiBranch, MsiClear,
       MsiReadsMip, Epilogue, HandlerMret, HandlerMretTraps, RefuseFetch,
       TakeInterrupt, ClintDrives

\* A program whose handler executes no ecall is in main with no trap open, or in
\* its handler with one, whose context is what mepc, MPP and MPIE hold.
THEOREM OneTrapAlways == Spec => [](TypeOK /\ OneTrapAtATime)
<1>1. Init => OneTrapAtATime
  BY DEF Init, ResetHart, OneTrapAtATime, InMain, MainPcs
<1>2. TypeOK /\ OneTrapAtATime /\ [Next]_vars => OneTrapAtATime'
  <2>. SUFFICES ASSUME TypeOK, OneTrapAtATime, [Next]_vars PROVE OneTrapAtATime'
    OBVIOUS
  <2>1. CASE ~Nests
    BY <2>1, ProgKept DEF OneTrapAtATime, Nests
  <2>2. CASE Nests /\ Next
    BY <2>2, QuietStep DEF Quiet
  <2>3. CASE UNCHANGED vars
    BY <2>3 DEF vars, OneTrapAtATime, InMain, InHandler, ReturnPc, Nests
  <2>. QED  BY <2>1, <2>2, <2>3
<1>. QED  BY <1>1, <1>2, TypeInit, TypeStep, PTL DEF Spec

\* Such a program returns from every trap to the code it interrupted, as TrapStack
\* says, whatever it does in main and whenever its interrupt arrives.
THEOREM TrapsNestAlways == Spec => TrapsNest
<1>1. Init => Stack!Init
  BY DEF Init, Stack!Init
<1>2. TypeOK /\ OneTrapAtATime /\ [Next]_vars => [Stack!Next]_Stack!stack
  <2>. SUFFICES ASSUME TypeOK, OneTrapAtATime, [Next]_vars
                PROVE  [Stack!Next]_Stack!stack
    OBVIOUS
  <2>1. prog' = prog /\ Nests' = Nests
    BY ProgKept DEF Nests
  <2>2. CASE ~Nests
    BY <2>1, <2>2 DEF Stack!Next, Stack!Run, Context
  <2>3. CASE Nests /\ Next
    <3>1. CASE Runs
      BY <2>1, <2>3, <3>1 DEF Runs, Stack!Next, Stack!Run, Context
    <3>2. CASE Enters
      <4>1. PICK cause \in Causes : due' = Append(due, Resume(cause))
        BY <3>2 DEF Enters
      <4>2. \E pc \in {hart.pc, After[hart.pc]} : Resume(cause) = [Context EXCEPT !.pc = pc]
        BY DEF Resume, Context
      <4>. QED  BY <2>1, <2>3, <3>2, <4>1, <4>2
                DEF Enters, Stack!Next, Stack!Enter, Context
    <3>3. CASE Returns
      BY <2>1, <2>3, <3>3 DEF Returns, Stack!Next, Stack!Return
    <3>. QED  BY <2>3, <3>1, <3>2, <3>3, QuietStep DEF Quiet
  <2>4. CASE UNCHANGED vars
    BY <2>4 DEF vars, Stack!stack, Context, Nests
  <2>. QED  BY <2>2, <2>3, <2>4
<1>. QED  BY <1>1, <1>2, OneTrapAlways, PTL DEF Spec, TrapsNest, Stack!Spec

-----------------------------------------------------------------------------
(* The traps are those of the test's name.  On a prompt platform a test goes *)
(* through the phases below, each with the traps taken so far.               *)

Ecall == EcallFrom(M)
Msi == Interrupt(MSI)

\* The handler tells the software interrupt from the rest.
Recognises(p) == p.msi = Msi /\ ~p.narrow

\* The programs a name can be given to: the interrupt is cleared in its branch or at
\* the end of the handler, and an ecall or a store to msip in the handler belongs to
\* the other trigger.  The four of the repository are such programs.
Announces(p) ==
    /\ p.clears \/ Recognises(p)
    /\ p.ecalls => p.trigger = "msip" /\ p.passes /\ ~p.raises /\ Recognises(p)
    /\ p.raises => p.trigger = "ecall" /\ ~p.passes /\ ~p.clears

RaisesMsi(p) == p.trigger = "msip" \/ p.raises

BeforeMsi(p) == IF p.raises THEN <<Ecall>> ELSE <<>>

Before ==
    /\ traps = <<>> /\ msip = 0 /\ hart.mip = {}
    /\ \/ hart.pc = "main" /\ "MIE" \notin hart.on /\ hart.mie = {}
       \/ hart.pc = "trigger" /\ "MIE" \in hart.on /\ hart.mie = {MSI}

\* In the handler, with the context of main in MPIE and MPP.
Interrupted ==
    /\ "MIE" \notin hart.on /\ "MPIE" \in hart.on
    /\ hart.mpp = M /\ hart.mie = {MSI}

InEcall ==
    /\ traps = <<Ecall>> /\ hart.mcause = Ecall /\ prog.trigger = "ecall"
    /\ Interrupted
    /\ \/ /\ hart.pc \in {"handler", "ecall_branch", "advance_mepc"}
          /\ hart.mepc = "trigger"
       \/ hart.pc \in {"epilogue", "mret"} /\ hart.mepc = "after_trigger"
    /\ msip = IF prog.raises /\ hart.pc \notin {"handler", "ecall_branch"} THEN 1 ELSE 0

\* The interrupt is raised and still to be taken: main does not go on.
Pending ==
    /\ traps = BeforeMsi(prog) /\ RaisesMsi(prog) /\ msip = 1
    /\ hart.pc = "after_trigger" /\ "MIE" \in hart.on /\ hart.mie = {MSI}

InMsi ==
    /\ traps = Append(BeforeMsi(prog), Msi) /\ RaisesMsi(prog)
    /\ hart.mcause = Msi /\ hart.mepc = "after_trigger" /\ Interrupted
    /\ \/ hart.pc \in {"handler", "msi_branch"}
       \/ hart.pc = "msi_clear" /\ ~prog.ecalls
       \/ hart.pc \in {"msi_mip", "mret"} /\ ~prog.ecalls /\ msip = 0
       \/ hart.pc = "epilogue" /\ ~prog.ecalls /\ (msip = 0 \/ prog.clears)

\* The ecall of the interrupt branch, whose handler calls pass().
InNested ==
    /\ traps = <<Msi, Ecall>> /\ prog.ecalls
    /\ hart.mcause = Ecall /\ "MIE" \notin hart.on
    /\ hart.pc \in {"handler", "ecall_branch"}

AllTaken == traps = Named /\ msip = 0 /\ hart.mip = {} /\ hart.pc = "after_trigger"

Phase ==
    /\ hart.prv = M /\ hart.mip \subseteq {MSI}
    /\ Before \/ InEcall \/ Pending \/ InMsi \/ InNested \/ AllTaken

NamedInv ==
    /\ hart.mideleg = {}
    /\ platform.prompt => IF passed THEN traps = Named ELSE Phase

\* A state before pass() in which the steps below start.
Underway ==
    /\ TypeOK /\ OneTrapAtATime /\ Announces(prog)
    /\ NamedInv /\ platform.prompt /\ ~passed
    /\ MaxTraps >= 2

LEMMA AnnouncesProgs == \A p \in AllIrqPrograms : Announces(p)
<1>1. Announces(irq_test) /\ Announces(ecall_test)
  BY DEF irq_test, ecall_test, Announces
<1>2. Announces(irq_test_ecall_irq_nested)
  BY DEF irq_test_ecall_irq_nested, Announces, Recognises, Msi
<1>3. Announces(irq_test_irq_ecall_nested)
  BY DEF irq_test_ecall_irq_nested, irq_test_irq_ecall_nested, Announces, Recognises, Msi
<1>. QED  BY <1>1, <1>2, <1>3 DEF AllIrqPrograms

LEMMA CausesApart == Ecall # Msi /\ Ecall \in Causes /\ Msi \in Causes
BY DEF Ecall, Msi, EcallFrom, Exception, Interrupt, Causes, Codes, MSI, M

\* A step that takes no trap and stays before pass().
Quietly == hart'.prv = M /\ traps' = traps /\ UNCHANGED <<prog, platform, passed>>

LEMMA NamedKept == prog' = prog /\ traps' = traps => (traps = Named => traps' = Named')
BY DEF Named

LEMMA UnderwayTypes ==
    ASSUME Underway
    PROVE  /\ hart \in Harts /\ hart.prv = M /\ CanFetch
           /\ prog \in IrqProgramType /\ MaxTraps \in Nat /\ MaxTraps >= 2
           /\ msip \in {0, 1} /\ traps \in Seq(Causes)
           /\ Phase /\ hart.mideleg = {} /\ ~passed
BY IrqProgramsAssumption, MaxTrapsAssumption DEF Underway, NamedInv, Phase, TypeOK, CanFetch

\* A trap taken in machine mode.
LEMMA TrapTaken ==
    ASSUME Underway, NEW cause \in Causes, EnterTrap(cause), Len(traps) < MaxTraps
    PROVE  /\ hart'.pc = "handler" /\ hart'.prv = M /\ hart'.mpp = M
           /\ hart'.mepc = hart.pc /\ hart'.mcause = cause
           /\ hart'.mie = hart.mie /\ hart'.mip = hart.mip
           /\ "MIE" \notin hart'.on /\ ("MPIE" \in hart'.on <=> "MIE" \in hart.on)
           /\ traps' = Append(traps, cause)
<1>1. hart \in Harts /\ hart.prv = M /\ ~passed
  BY UnderwayTypes DEF Underway
<1>2. hart' = EnterM(hart, cause)
  BY <1>1 DEF EnterTrap, Trap, Delegated
<1>3. /\ hart'.pc = "handler" /\ hart'.prv = M /\ hart'.mpp = M
      /\ hart'.mepc = hart.pc /\ hart'.mcause = cause
      /\ hart'.mie = hart.mie /\ hart'.mip = hart.mip
      /\ hart'.on = CopyFlag(hart.on, "MIE", "MPIE") \ {"MIE"}
  BY <1>1, <1>2 DEF EnterM, Harts
<1>4. "MIE" \notin hart'.on /\ ("MPIE" \in hart'.on <=> "MIE" \in hart.on)
  BY <1>3 DEF CopyFlag
<1>5. traps' = Append(traps, cause)
  BY <1>1, UnderwayTypes DEF EnterTrap
<1>. QED  BY <1>3, <1>4, <1>5

LEMMA MainPhases ==
    ASSUME Underway, MainSetup \/ MainRaises \/ MainEcalls
    PROVE  Phase' /\ ~passed'
<1>. USE UnderwayTypes
<1>1. CASE MainSetup
  <2>1. /\ hart.pc = "main" /\ hart'.pc = "trigger" /\ hart'.prv = hart.prv
        /\ hart'.on = hart.on \cup {"MIE"}
        /\ hart'.mie = hart.mie \cup {MSI} /\ hart'.mip = hart.mip
    BY <1>1 DEF MainSetup, At, Harts
  <2>2. UNCHANGED <<msip, traps, passed>>
    BY <1>1 DEF MainSetup, NoTrap
  <2>3. Before
    BY <2>1 DEF Phase, InEcall, Pending, InMsi, InNested, AllTaken
  <2>4. Before'
    BY <2>1, <2>2, <2>3 DEF Before
  <2>. QED  BY <2>1, <2>2, <2>4 DEF Phase
<1>2. CASE MainRaises
  <2>1. /\ hart.pc = "trigger" /\ Goto("after_trigger")
        /\ msip' = 1 /\ prog.trigger = "msip" /\ UNCHANGED <<prog, traps, passed>>
    BY <1>2 DEF MainRaises, At, NoTrap
  <2>2. Before
    BY <2>1 DEF Phase, InEcall, Pending, InMsi, InNested, AllTaken
  <2>3. ~prog.raises
    BY <2>1 DEF Underway, Announces
  <2>4. /\ hart'.pc = "after_trigger" /\ hart'.prv = hart.prv /\ hart'.on = hart.on
        /\ hart'.mie = hart.mie /\ hart'.mip = hart.mip
    BY <2>1, GotoKeeps DEF Pcs, MainPcs
  <2>5. Pending'
    BY <2>1, <2>2, <2>3, <2>4 DEF Before, Pending, RaisesMsi, BeforeMsi
  <2>. QED  BY <2>1, <2>4, <2>5 DEF Phase
<1>3. CASE MainEcalls
  <2>1. /\ hart.pc = "trigger" /\ prog.trigger = "ecall" /\ EnterTrap(Ecall)
        /\ UNCHANGED <<prog, msip, passed>>
    BY <1>3 DEF MainEcalls, At, Ecall
  <2>2. Before
    BY <2>1 DEF Phase, InEcall, Pending, InMsi, InNested, AllTaken
  <2>3. Len(traps) < MaxTraps
    BY <2>2 DEF Before
  <2>4. /\ hart'.pc = "handler" /\ hart'.prv = M /\ hart'.mpp = M
        /\ hart'.mepc = "trigger" /\ hart'.mcause = Ecall
        /\ hart'.mie = hart.mie /\ hart'.mip = hart.mip
        /\ "MIE" \notin hart'.on /\ ("MPIE" \in hart'.on <=> "MIE" \in hart.on)
        /\ traps' = <<Ecall>>
    BY <2>1, <2>2, <2>3, TrapTaken, CausesApart DEF Before
  <2>5. InEcall'
    BY <2>1, <2>2, <2>4 DEF Before, InEcall, Interrupted
  <2>. QED  BY <2>1, <2>2, <2>4, <2>5 DEF Phase, Before
<1>. QED  BY <1>1, <1>2, <1>3

\* main reaches pass() only when no interrupt is left to take.
LEMMA PassPhase ==
    ASSUME Underway, MainPasses
    PROVE  passed' /\ traps' = Named'
<1>1. /\ hart.pc = "after_trigger" /\ Takeable(hart) = {} /\ LineFollowsMsip
      /\ passed' = TRUE /\ UNCHANGED <<prog, traps>>
  BY DEF MainPasses, At, NoTrap, Underway
<1>2. ~Pending
  <2>. SUFFICES ASSUME Pending PROVE FALSE
    OBVIOUS
  <2>1. MSI \in hart.mip
    BY <1>1 DEF Pending, LineFollowsMsip
  <2>2. MSI \in ToMachine(hart) \/ MSI \in hart.mideleg
    BY <2>1 DEF Pending, ToMachine
  <2>3. hart.mideleg = {}
    BY UnderwayTypes
  <2>. QED  BY <1>1, <2>2, <2>3 DEF Takeable
<1>3. AllTaken
  BY <1>1, <1>2, UnderwayTypes DEF Phase, Before, InEcall, InMsi, InNested
<1>. QED  BY <1>1, <1>3, NamedKept DEF AllTaken

LEMMA EnterPhases ==
    ASSUME Underway, HandlerEnter
    PROVE  Phase' /\ ~passed'
<1>. USE UnderwayTypes
<1>1. /\ hart.pc = "handler" /\ UNCHANGED <<prog, traps, msip, passed>>
      /\ InEcall \/ InMsi \/ InNested
  BY DEF HandlerEnter, At, NoTrap, Phase, Before, Pending, AllTaken
<1>2. CASE hart.mcause = Ecall
  <2>1. Seen(hart.mcause) = Ecall
    <3>1. Seen(Ecall) = Ecall
      BY DEF Seen, Ecall, EcallFrom, Exception
    <3>. QED  BY <1>2, <3>1
  <2>2. Goto("ecall_branch")
    BY <2>1 DEF HandlerEnter, Ecall
  <2>3. ~InMsi
    BY <1>2, CausesApart DEF InMsi
  <2>4. /\ hart'.pc = "ecall_branch" /\ hart'.prv = hart.prv /\ hart'.on = hart.on
        /\ hart'.mpp = hart.mpp /\ hart'.mepc = hart.mepc
        /\ hart'.mcause = hart.mcause /\ hart'.mie = hart.mie /\ hart'.mip = hart.mip
    BY <2>2, GotoKeeps DEF Pcs, HandlerPcs
  <2>5. (InEcall => InEcall') /\ (InNested => InNested')
    BY <1>1, <2>4 DEF InEcall, InNested, Interrupted
  <2>. QED  BY <1>1, <2>3, <2>4, <2>5 DEF Phase
<1>3. CASE hart.mcause # Ecall
  <2>1. InMsi
    BY <1>1, <1>3 DEF InEcall, InNested
  <2>2. Seen(hart.mcause) # Ecall
    <3>1. Seen(Msi).code = 3 /\ Ecall.code = 11
      BY DEF Seen, Ecall, Msi, EcallFrom, Exception, Interrupt, MSI, M
    <3>. QED  BY <2>1, <3>1 DEF InMsi
  <2>3. Recognises(prog) => Seen(hart.mcause) = prog.msi
    BY <2>1 DEF Recognises, Seen, InMsi
  <2>4. \/ Goto("msi_branch")
        \/ Goto("epilogue") /\ prog.clears /\ ~prog.ecalls
    <3>1. Recognises(prog) \/ (prog.clears /\ ~prog.ecalls)
      BY DEF Underway, Announces
    <3>. QED  BY <2>2, <2>3, <3>1 DEF HandlerEnter, Ecall
  <2>5. PICK loc \in {"msi_branch", "epilogue"} :
            Goto(loc) /\ (loc = "epilogue" => prog.clears /\ ~prog.ecalls)
    BY <2>4
  <2>6. /\ hart'.pc = loc /\ hart'.prv = hart.prv /\ hart'.on = hart.on
        /\ hart'.mpp = hart.mpp /\ hart'.mepc = hart.mepc
        /\ hart'.mcause = hart.mcause /\ hart'.mie = hart.mie /\ hart'.mip = hart.mip
    BY <2>5, GotoKeeps DEF Pcs, HandlerPcs
  <2>7. InMsi'
    BY <1>1, <2>1, <2>5, <2>6 DEF InMsi, Interrupted
  <2>. QED  BY <1>1, <2>6, <2>7 DEF Phase
<1>. QED  BY <1>2, <1>3

\* The ecall branch: pass() in the handler, or the advance of mepc.
LEMMA EcallBranchPhases ==
    ASSUME Underway, EcallBranch
    PROVE  IF passed' THEN traps' = Named' ELSE Phase'
<1>. USE UnderwayTypes
<1>1. /\ hart.pc = "ecall_branch" /\ UNCHANGED <<prog, traps>>
      /\ msip' = IF prog.raises THEN 1 ELSE msip
      /\ passed' = (passed \/ prog.passes)
      /\ Goto(IF prog.passes THEN "pass_in_handler" ELSE "advance_mepc")
      /\ InEcall \/ InNested
  BY DEF EcallBranch, At, NoTrap, Phase, Before, Pending, AllTaken, InMsi
<1>2. CASE prog.passes
  <2>1. ~prog.raises /\ (prog.ecalls => prog.trigger = "msip")
    BY <1>2 DEF Underway, Announces
  <2>2. traps = Named
    BY <1>1, <2>1 DEF InEcall, InNested, Named, Ecall, Msi
  <2>. QED  BY <1>1, <1>2, <2>2, NamedKept
<1>3. CASE ~prog.passes
  <2>1. InEcall
    BY <1>1, <1>3 DEF InNested, Underway, Announces
  <2>2. Goto("advance_mepc") /\ ~passed'
    BY <1>1, <1>3 DEF IrqProgramType
  <2>3. /\ hart'.pc = "advance_mepc" /\ hart'.prv = hart.prv /\ hart'.on = hart.on
        /\ hart'.mpp = hart.mpp /\ hart'.mepc = hart.mepc
        /\ hart'.mcause = hart.mcause /\ hart'.mie = hart.mie /\ hart'.mip = hart.mip
    BY <2>2, GotoKeeps DEF Pcs, HandlerPcs
  <2>4. InEcall'
    BY <1>1, <2>1, <2>3 DEF InEcall, Interrupted
  <2>. QED  BY <1>1, <2>2, <2>3, <2>4 DEF Phase
<1>. QED  BY <1>2, <1>3

LEMMA AdvancePhases ==
    ASSUME Underway, AdvanceMepc
    PROVE  Phase' /\ ~passed'
<1>. USE UnderwayTypes
<1>1. /\ hart.pc = "advance_mepc" /\ UNCHANGED <<prog, traps, msip, passed>>
      /\ hart' = [hart EXCEPT !.pc = "epilogue", !.mepc = After[@]]
      /\ InEcall
  BY DEF AdvanceMepc, At, NoTrap, Phase, Before, Pending, AllTaken, InMsi, InNested
<1>2. /\ hart'.pc = "epilogue" /\ hart'.mepc = "after_trigger"
      /\ hart'.prv = hart.prv /\ hart'.on = hart.on /\ hart'.mpp = hart.mpp
      /\ hart'.mcause = hart.mcause /\ hart'.mie = hart.mie /\ hart'.mip = hart.mip
  <2>1. hart.mepc = "trigger" /\ After["trigger"] = "after_trigger"
    BY <1>1 DEF InEcall, After, Pcs, MainPcs
  <2>. QED  BY <1>1, <2>1 DEF Harts
<1>3. InEcall'
  BY <1>1, <1>2 DEF InEcall, Interrupted
<1>. QED  BY <1>1, <1>2, <1>3 DEF Phase

\* The branch of the interrupt; its own ecall is the second trap of its test.
LEMMA MsiPhases ==
    ASSUME Underway, MsiBranch \/ MsiClear \/ MsiReadsMip
    PROVE  Phase' /\ ~passed'
<1>. USE UnderwayTypes
<1>1. /\ hart.pc \in {"msi_branch", "msi_clear", "msi_mip"} /\ InMsi
      /\ UNCHANGED <<prog, passed>>
  BY DEF MsiBranch, MsiClear, MsiReadsMip, At, Phase, Before, Pending, AllTaken,
         InEcall, InNested
<1>2. CASE MsiBranch /\ prog.ecalls
  <2>1. EnterTrap(Ecall) /\ hart.pc = "msi_branch"
    BY <1>2 DEF MsiBranch, At, Ecall
  <2>2. traps = <<Msi>>
    <3>1. ~prog.raises
      BY <1>2 DEF Underway, Announces
    <3>. QED  BY <1>1, <3>1 DEF InMsi, BeforeMsi
  <2>3. /\ hart'.pc = "handler" /\ hart'.prv = M /\ hart'.mcause = Ecall
        /\ hart'.mip = hart.mip /\ "MIE" \notin hart'.on
        /\ traps' = <<Msi, Ecall>>
    BY <2>1, <2>2, TrapTaken, CausesApart
  <2>4. InNested'
    BY <1>1, <1>2, <2>3 DEF InNested
  <2>. QED  BY <1>1, <2>3, <2>4 DEF Phase
<1>3. CASE ~(MsiBranch /\ prog.ecalls)
  <2>1. ~prog.ecalls
    BY <1>1, <1>3 DEF InMsi, MsiClear, MsiReadsMip, At
  <2>2. frames = 1
    <3>1. InHandler
      BY <1>1, <2>1, PcsSplit DEF Underway, OneTrapAtATime, Nests, HandlerPcs
    <3>. QED  BY <1>1, <3>1 DEF InHandler
  <2>3. PICK loc \in {"msi_clear", "msi_mip", "epilogue"} :
            /\ Goto(loc) /\ NoTrap
            /\ loc = "msi_clear" \/ msip' = 0
    <3>1. CASE MsiBranch
      BY <2>1, <3>1 DEF MsiBranch
    <3>2. CASE MsiClear
      BY <2>2, <3>2 DEF MsiClear
    <3>3. CASE MsiReadsMip
      BY <1>1, <3>3 DEF MsiReadsMip, At, InMsi
    <3>. QED  BY <3>1, <3>2, <3>3
  <2>4. /\ hart'.pc = loc /\ hart'.prv = hart.prv /\ hart'.on = hart.on
        /\ hart'.mpp = hart.mpp /\ hart'.mepc = hart.mepc
        /\ hart'.mcause = hart.mcause /\ hart'.mie = hart.mie /\ hart'.mip = hart.mip
    BY <2>3, GotoKeeps DEF Pcs, HandlerPcs
  <2>5. InMsi'
    BY <1>1, <2>1, <2>3, <2>4 DEF InMsi, Interrupted, NoTrap
  <2>. QED  BY <1>1, <2>4, <2>5 DEF Phase
<1>. QED  BY <1>2, <1>3

LEMMA EpiloguePhases ==
    ASSUME Underway, Epilogue
    PROVE  Phase' /\ ~passed'
<1>. USE UnderwayTypes
<1>1. /\ hart.pc = "epilogue" /\ UNCHANGED <<prog, traps, passed>>
      /\ msip' = IF prog.clears THEN 0 ELSE msip
      /\ Goto("mret")
      /\ InEcall \/ InMsi
  BY DEF Epilogue, At, NoTrap, Phase, Before, Pending, AllTaken, InNested
<1>2. /\ hart'.pc = "mret" /\ hart'.prv = hart.prv /\ hart'.on = hart.on
      /\ hart'.mpp = hart.mpp /\ hart'.mepc = hart.mepc
      /\ hart'.mcause = hart.mcause /\ hart'.mie = hart.mie /\ hart'.mip = hart.mip
  BY <1>1, GotoKeeps DEF Pcs, HandlerPcs
<1>3. prog.raises => ~prog.clears
  BY DEF Underway, Announces
<1>4. InEcall => InEcall'
  BY <1>1, <1>2, <1>3 DEF InEcall, Interrupted
<1>5. InMsi => InMsi'
  BY <1>1, <1>2 DEF InMsi, Interrupted
<1>. QED  BY <1>1, <1>2, <1>4, <1>5 DEF Phase

\* Back in main the line follows msip: raised by the handler, the interrupt is
\* pending; cleared, nothing is left to take.
LEMMA MretPhases ==
    ASSUME Underway, HandlerMret
    PROVE  Phase' /\ ~passed'
<1>. USE UnderwayTypes
<1>1. /\ hart.pc = "mret" /\ hart' = Mret(hart)
      /\ UNCHANGED <<prog, msip, traps, passed>>
      /\ LineFollowsMsip
      /\ InEcall \/ InMsi
  BY DEF HandlerMret, At, Phase, Before, Pending, AllTaken, InNested, Underway
<1>2. /\ hart.mepc = "after_trigger" /\ hart.mpp = M /\ "MPIE" \in hart.on
      /\ hart.mie = {MSI} /\ hart.mip \subseteq {MSI}
  BY <1>1 DEF InEcall, InMsi, Interrupted, Phase
<1>3. /\ hart'.pc = "after_trigger" /\ hart'.prv = M /\ "MIE" \in hart'.on
      /\ hart'.mie = {MSI} /\ hart'.mip = hart.mip
  BY <1>1, <1>2 DEF Mret, CopyFlag, Harts
<1>4. msip = 0 => hart.mip = {}
  BY <1>1, <1>2 DEF LineFollowsMsip
<1>5. CASE InEcall /\ prog.raises
  <2>1. Pending'
    BY <1>1, <1>3, <1>5 DEF InEcall, Pending, BeforeMsi, RaisesMsi
  <2>. QED  BY <1>1, <1>2, <1>3, <2>1 DEF Phase
<1>6. CASE InEcall /\ ~prog.raises
  <2>1. traps = Named /\ msip = 0
    BY <1>1, <1>6 DEF InEcall, Named, Ecall, Underway, Announces
  <2>2. AllTaken'
    BY <1>1, <1>3, <1>4, <2>1, NamedKept DEF AllTaken
  <2>. QED  BY <1>1, <1>2, <1>3, <2>2 DEF Phase
<1>7. CASE InMsi
  <2>1. ~prog.ecalls /\ msip = 0
    BY <1>1, <1>7 DEF InMsi
  <2>2. traps = Named
    BY <1>7, <2>1 DEF InMsi, BeforeMsi, RaisesMsi, Named, Ecall, Msi
  <2>3. AllTaken'
    BY <1>1, <1>3, <1>4, <2>1, <2>2, NamedKept DEF AllTaken
  <2>. QED  BY <1>1, <1>2, <1>3, <2>3 DEF Phase
<1>. QED  BY <1>1, <1>5, <1>6, <1>7

\* The interrupt is taken once, where main waits for it.
LEMMA InterruptPhases ==
    ASSUME Underway, TakeInterrupt
    PROVE  Phase' /\ ~passed'
<1>. USE UnderwayTypes
<1>1. PICK i \in Takeable(hart) : EnterTrap(Interrupt(i))
  BY DEF TakeInterrupt
<1>2. i \in ToMachine(hart)
  BY <1>1 DEF Takeable, ToSupervisor, S, U, M
<1>3. "MIE" \in hart.on /\ i \in hart.mip
  BY <1>2 DEF ToMachine
<1>4. i = MSI /\ hart.mip = {MSI}
  BY <1>3 DEF Phase
<1>5. Pending
  BY <1>3, <1>4 DEF Phase, Before, InEcall, InMsi, InNested, AllTaken, Interrupted
<1>6. EnterTrap(Msi) /\ Len(traps) < 2
  BY <1>1, <1>4, <1>5 DEF Msi, Pending, BeforeMsi
<1>7. /\ hart'.pc = "handler" /\ hart'.prv = M /\ hart'.mpp = M
      /\ hart'.mepc = "after_trigger" /\ hart'.mcause = Msi
      /\ hart'.mie = hart.mie /\ hart'.mip = hart.mip
      /\ "MIE" \notin hart'.on /\ "MPIE" \in hart'.on
      /\ traps' = Append(traps, Msi)
  BY <1>3, <1>5, <1>6, TrapTaken, CausesApart DEF Pending
<1>8. UNCHANGED <<prog, passed>>
  BY DEF TakeInterrupt
<1>9. InMsi'
  BY <1>5, <1>7, <1>8 DEF Pending, InMsi, Interrupted, RaisesMsi, BeforeMsi
<1>. QED  BY <1>4, <1>7, <1>8, <1>9 DEF Phase

LEMMA ClintPhases ==
    ASSUME Underway, ClintDrives
    PROVE  Phase' /\ ~passed'
<1>. USE UnderwayTypes
<1>1. /\ ~LineFollowsMsip /\ UNCHANGED <<prog, msip, traps, passed>>
      /\ hart'.pc = hart.pc /\ hart'.prv = hart.prv /\ hart'.on = hart.on
      /\ hart'.mpp = hart.mpp /\ hart'.mepc = hart.mepc
      /\ hart'.mcause = hart.mcause /\ hart'.mie = hart.mie
      /\ hart'.mip \in {hart.mip \cup {MSI}, hart.mip \ {MSI}}
  BY DEF ClintDrives, NoTrap, Harts
<1>2. ~Before /\ ~AllTaken
  BY <1>1 DEF Before, AllTaken, LineFollowsMsip
<1>3. InEcall \/ Pending \/ InMsi \/ InNested
  BY <1>2 DEF Phase
<1>4. InEcall' \/ Pending' \/ InMsi' \/ InNested'
  BY <1>1, <1>3 DEF InEcall, Pending, InMsi, InNested, Interrupted
<1>. QED  BY <1>1, <1>4 DEF Phase

LEMMA PhaseStep ==
    ASSUME Underway, Next
    PROVE  IF passed' THEN traps' = Named' ELSE Phase'
<1>. USE UnderwayTypes
<1>1. ~(MainEnds \/ PassInHandler \/ HandlerMretTraps \/ RefuseFetch)
  <2>1. ~(MainEnds \/ PassInHandler)
    BY DEF MainEnds, PassInHandler, At, Phase, Before, InEcall, Pending, InMsi,
           InNested, AllTaken
  <2>2. ~HandlerMretTraps
    <3>1. hart.pc = "mret" => hart.mpp = M
      BY DEF Phase, Before, InEcall, Pending, InMsi, InNested, AllTaken, Interrupted
    <3>. QED  BY <3>1 DEF HandlerMretTraps, MretTraps, At
  <2>3. ~RefuseFetch
    BY DEF RefuseFetch
  <2>. QED  BY <2>1, <2>2, <2>3
<1>. QED
  BY <1>1, MainPhases, PassPhase, EnterPhases, EcallBranchPhases, AdvancePhases,
     MsiPhases, EpiloguePhases, MretPhases, InterruptPhases, ClintPhases
     DEF Next, Execute

LEMMA MidelegKept ==
    ASSUME TypeOK, hart.mideleg = {}, [Next]_vars
    PROVE  hart'.mideleg = {}
<1>1. hart \in Harts
  BY DEF TypeOK
<1>2. ASSUME NEW cause, EnterTrap(cause) PROVE hart'.mideleg = {}
  BY <1>1, <1>2 DEF EnterTrap, Trap, EnterM, EnterS, Harts
<1>3. ASSUME NEW loc, Goto(loc) PROVE hart'.mideleg = {}
  BY <1>1, <1>3 DEF Goto, Harts
<1>4. CASE MainSetup \/ AdvanceMepc \/ ClintDrives
  BY <1>1, <1>4 DEF MainSetup, AdvanceMepc, ClintDrives, Harts
<1>5. CASE HandlerMret
  BY <1>1, <1>5 DEF HandlerMret, Mret, Harts
<1>6. CASE MainRaises \/ MainPasses \/ MainEnds \/ HandlerEnter \/ EcallBranch
           \/ PassInHandler \/ Epilogue
  BY <1>3, <1>6 DEF MainRaises, MainPasses, MainEnds, HandlerEnter, EcallBranch,
                    PassInHandler, Epilogue
<1>7. CASE MainEcalls \/ HandlerMretTraps \/ RefuseFetch \/ TakeInterrupt
  BY <1>2, <1>7 DEF MainEcalls, HandlerMretTraps, RefuseFetch, TakeInterrupt
<1>8. CASE MsiBranch \/ MsiClear \/ MsiReadsMip
  BY <1>2, <1>3, <1>8 DEF MsiBranch, MsiClear, MsiReadsMip
<1>9. CASE UNCHANGED vars
  BY <1>9 DEF vars
<1>. QED
  BY <1>4, <1>5, <1>6, <1>7, <1>8, <1>9 DEF Next, Execute

\* Once pass() is reached the history is closed.
LEMMA HistoryKept ==
    ASSUME passed, [Next]_vars
    PROVE  passed' /\ UNCHANGED <<prog, platform, traps>>
BY DEF vars, Next, Execute, MainSetup, MainRaises, MainEcalls, MainPasses, MainEnds,
       HandlerEnter, EcallBranch, PassInHandler, AdvanceMepc, MsiBranch, MsiClear,
       MsiReadsMip, Epilogue, HandlerMret, HandlerMretTraps, RefuseFetch,
       TakeInterrupt, ClintDrives, NoTrap, EnterTrap

LEMMA PlatformKept == [Next]_vars => platform' = platform
BY DEF vars, Next, Execute, MainSetup, MainRaises, MainEcalls, MainPasses, MainEnds,
       HandlerEnter, EcallBranch, PassInHandler, AdvanceMepc, MsiBranch, MsiClear,
       MsiReadsMip, Epilogue, HandlerMret, HandlerMretTraps, RefuseFetch,
       TakeInterrupt, ClintDrives

\* At pass() exactly the traps of its name were taken, in its order, by every
\* program whose handler answers what its main triggers, on a prompt platform.
THEOREM NamedTraps ==
    ASSUME MaxTraps >= 2, \A p \in IrqPrograms : Announces(p)
    PROVE  Spec => []TrapsAsNamed
<1>1. Init => NamedInv
  <2>. SUFFICES ASSUME Init PROVE NamedInv
    OBVIOUS
  <2>1. /\ hart.prv = M /\ hart.pc = "main" /\ hart.mip = {} /\ hart.mie = {}
        /\ hart.on = {} /\ hart.mideleg = {} /\ traps = <<>> /\ msip = 0 /\ ~passed
    BY DEF Init, ResetHart
  <2>. QED  BY <2>1 DEF NamedInv, Phase, Before
<1>2. TypeOK /\ OneTrapAtATime /\ NamedInv /\ [Next]_vars => NamedInv'
  <2>. SUFFICES ASSUME TypeOK, OneTrapAtATime, NamedInv, [Next]_vars PROVE NamedInv'
    OBVIOUS
  <2>1. hart'.mideleg = {} /\ platform' = platform
    BY MidelegKept, PlatformKept DEF NamedInv
  <2>2. CASE ~platform.prompt
    BY <2>1, <2>2 DEF NamedInv
  <2>3. CASE platform.prompt /\ passed
    BY <2>1, <2>3, HistoryKept, NamedKept DEF NamedInv
  <2>4. CASE platform.prompt /\ ~passed /\ Next
    <3>1. Underway
      BY <2>4 DEF Underway, TypeOK
    <3>. QED  BY <2>1, <2>4, <3>1, PhaseStep DEF NamedInv
  <2>5. CASE UNCHANGED vars
    BY <2>5 DEF vars, NamedInv, Phase, Before, InEcall, Pending, InMsi, InNested,
                AllTaken, Interrupted, Named
  <2>. QED  BY <2>2, <2>3, <2>4, <2>5
<1>3. NamedInv => TrapsAsNamed
  BY DEF NamedInv, TrapsAsNamed
<1>. QED  BY <1>1, <1>2, <1>3, OneTrapAlways, PTL DEF Spec

\* ... and so by the four programs of the repository.
THEOREM RepositoryNamedTraps ==
    ASSUME MaxTraps >= 2, IrqPrograms \subseteq AllIrqPrograms
    PROVE  Spec => []TrapsAsNamed
BY AnnouncesProgs, NamedTraps, Zenon

=============================================================================
