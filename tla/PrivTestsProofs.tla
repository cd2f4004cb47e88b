--------------------------- MODULE PrivTestsProofs ---------------------------
(***************************************************************************)
(* TLAPS proofs about PrivTests, for every set of programs of the shape of  *)
(* PrivPrograms and every platform: types; the levels of the test           *)
(* functions; delegated ecalls stay in supervisor mode; pass() is earned;   *)
(* the supervisor timer interrupt goes where it is delegated; unfinished    *)
(* tests never pass.                                                        *)
(***************************************************************************)
EXTENDS PrivLadder, TLAPS

\* The events of a hart keep it a hart.
LEMMA EnterMType ==
    ASSUME NEW h \in Harts, NEW cause \in Causes
    PROVE  EnterM(h, cause) \in Harts
<1>1. CopyFlag(h.on, "MIE", "MPIE") \ {"MIE"} \in SUBSET Flags
  BY DEF Harts, CopyFlag, Flags
<1>2. M \in Modes /\ "machine_trap" \in Pcs
  BY DEF Modes, Pcs
<1>. QED  BY <1>1, <1>2 DEF Harts, EnterM

LEMMA EnterSType ==
    ASSUME NEW h \in Harts, NEW cause \in Causes
    PROVE  EnterS(h, cause) \in Harts
<1>1. (CopyFlag(h.on, "SIE", "SPIE") \ {"SIE", "SPP"})
          \cup (IF h.prv = U THEN {} ELSE {"SPP"}) \in SUBSET Flags
  BY DEF Harts, CopyFlag, Flags
<1>2. S \in Modes /\ "supervisor_trap" \in Pcs
  BY DEF Modes, Pcs
<1>. QED  BY <1>1, <1>2 DEF Harts, EnterS

LEMMA TrapType ==
    ASSUME NEW h \in Harts, NEW cause \in Causes
    PROVE  Trap(h, cause) \in Harts
BY EnterMType, EnterSType DEF Trap

LEMMA MretType ==
    ASSUME NEW h \in Harts
    PROVE  Mret(h) \in Harts
BY DEF Harts, Mret, CopyFlag, Flags, Modes, U, S, M

LEMMA SretType ==
    ASSUME NEW h \in Harts
    PROVE  Sret(h) \in Harts
BY DEF Harts, Sret, CopyFlag, Flags, Modes, U, S, M

LEMMA WriteSstatusType ==
    ASSUME NEW h \in Harts, NEW flags \in SUBSET SFlags
    PROVE  WriteSstatus(h, flags) \in Harts
BY DEF Harts, WriteSstatus, Flags, SFlags

LEMMA CauseTypes ==
    /\ FetchFault \in Causes /\ IllegalInstruction \in Causes /\ StoreFault \in Causes
    /\ \A prv \in Modes : EcallFrom(prv) \in Causes
    /\ \A n \in Codes : Interrupt(n) \in Causes
BY DEF FetchFault, IllegalInstruction, StoreFault, EcallFrom, Exception, Interrupt,
       Causes, Codes, Modes, U, S, M

LEMMA DoMretType ==
    ASSUME NEW h \in Harts
    PROVE  DoMret(h) \in Harts
BY TrapType, MretType, CauseTypes DEF DoMret

LEMMA EcallType ==
    ASSUME NEW h \in Harts
    PROVE  Ecall(h) \in Harts
<1>1. EcallFrom(h.prv) \in Causes
  BY CauseTypes DEF Harts
<1>. QED  BY <1>1, TrapType DEF Ecall

-----------------------------------------------------------------------------
(* Type correctness.  Every step either leaves the hart alone, or traps,     *)
(* returns from a trap, or writes fields with values of their types.         *)

LEMMA ResetHartType == \A entry \in Pcs : ResetHart(entry) \in Harts
BY DEF ResetHart, Harts, Exception, Causes, Codes, Modes, U, S, M

LEMMA TypeInit == Init => TypeOK
BY ResetHartType DEF Init, TypeOK, Pcs

LEMMA GotoType ==
    ASSUME hart \in Harts, NEW loc \in Pcs, Goto(loc)
    PROVE  hart' \in Harts
BY DEF Goto, Harts

\* What a climbing handler writes before its mret.
LEMMA ClimbType ==
    ASSUME TypeOK
    PROVE  [hart EXCEPT !.on = prog.climbOn, !.mpp = NextLevel(hart.mcause),
                        !.mepc = NextFunc(hart.mcause)] \in Harts
<1>1. prog.climbOn \in SUBSET Flags
  BY ProgramsAssumption DEF TypeOK, ProgramType
<1>2. NextLevel(hart.mcause) \in Modes /\ NextFunc(hart.mcause) \in Pcs
  BY DEF NextLevel, NextFunc, Pcs, TestFuncs, Modes
<1>. QED  BY <1>1, <1>2 DEF TypeOK, Harts

LEMMA HartStaysTyped ==
    ASSUME TypeOK, Next
    PROVE  hart' \in Harts
<1>. USE DEF TypeOK
<1>p. prog \in ProgramType
  BY ProgramsAssumption
<1>1. CASE KmainReload
  <2>1. [hart EXCEPT !.pc = "kmain", !.mip = hart.mip \ {MTI}] \in Harts
    BY DEF Harts, Pcs
  <2>. QED  BY <1>1, <2>1, EcallType DEF KmainReload
<1>2. CASE Kmain
  BY <1>2, <1>p DEF Kmain, Harts, ProgramType, Pcs, TestFuncs
<1>3. CASE KmainMret
  BY <1>3, DoMretType DEF KmainMret
<1>4. CASE UserTestFunc \/ MachineTestFunc
  BY <1>4, EcallType DEF UserTestFunc, MachineTestFunc
<1>5. CASE SupervisorTestFunc
  <2>1. WriteSstatus(hart, prog.superOn) \in Harts
    BY <1>p, WriteSstatusType DEF ProgramType
  <2>. QED  BY <1>5, <2>1, EcallType, TrapType, CauseTypes DEF SupervisorTestFunc
<1>6. CASE MachineTrapSoftwareIrq
  BY <1>6, DoMretType DEF MachineTrapSoftwareIrq
<1>7. CASE MachineTrapClimb
  <2>1. [hart EXCEPT !.on = prog.climbOn, !.mpp = NextLevel(hart.mcause),
                     !.mepc = NextFunc(hart.mcause)] \in Harts
    BY ClimbType
  <2>. QED  BY <1>7, <2>1, DoMretType DEF MachineTrapClimb
<1>8. CASE TrapReload
  <2>1. [hart EXCEPT !.mip = hart.mip \ {MTI}] \in Harts
    BY DEF Harts
  <2>. QED  BY <1>8, <2>1, EcallType, DoMretType DEF TrapReload
<1>9. CASE MachineTrapPass \/ MachineTrapTimerIrq \/ MachineTrapSpin
           \/ SupervisorTrapSpin \/ SupervisorTrapPass
  BY <1>9, GotoType
     DEF MachineTrapPass, MachineTrapTimerIrq, MachineTrapSpin,
         SupervisorTrapSpin, SupervisorTrapPass, Pcs
<1>10. CASE SupervisorTrapEnter
  BY <1>10, GotoType DEF SupervisorTrapEnter, Pcs, SupervisorBody
<1>15. CASE SupervisorTrapStore
  BY <1>15, GotoType, TrapType, CauseTypes DEF SupervisorTrapStore, Pcs, SupervisorBody
<1>11. CASE SupervisorTrapClimb
  <2>1. WriteSstatus(hart, {"SPP"}) \in Harts
    BY WriteSstatusType DEF SFlags
  <2>2. [WriteSstatus(hart, {"SPP"}) EXCEPT !.sepc = "supervisor_test_func"] \in Harts
    BY <2>1 DEF Harts, Pcs, TestFuncs
  <2>. QED  BY <1>11, <2>2, SretType DEF SupervisorTrapClimb
<1>12. CASE RefuseFetch
  BY <1>12, TrapType, CauseTypes DEF RefuseFetch
<1>13. CASE TakeInterrupt
  <2>1. Takeable(hart) \subseteq Codes
    BY DEF Takeable, ToMachine, ToSupervisor, Harts
  <2>. QED  BY <1>13, <2>1, TrapType, CauseTypes DEF TakeInterrupt
<1>14. CASE Clint
  BY <1>14 DEF Clint, ClintRaises, ClintLowers, TimerExpires, Harts, MSI, MTI, Codes
<1>. QED
  BY <1>1, <1>2, <1>3, <1>4, <1>5, <1>6, <1>7, <1>8, <1>9, <1>10, <1>11, <1>12,
     <1>13, <1>14, <1>15 DEF Next, Execute

LEMMA OthersStayTyped ==
    ASSUME TypeOK, Next
    PROVE  /\ prog' = prog /\ platform' = platform
           /\ msip' \in {0, 1} /\ stale' \in BOOLEAN
BY DEF TypeOK, Next, Execute, Clint, KmainReload, Kmain, KmainMret,
       UserTestFunc, SupervisorTestFunc, MachineTestFunc,
       MachineTrapSoftwareIrq, MachineTrapClimb, MachineTrapPass,
       MachineTrapTimerIrq, TrapReload, MachineTrapSpin, SupervisorTrapSpin,
       SupervisorTrapEnter, SupervisorTrapStore, SupervisorTrapClimb, SupervisorTrapPass,
       RefuseFetch, TakeInterrupt, ClintRaises, ClintLowers, TimerExpires

LEMMA TypeStep == TypeOK /\ [Next]_vars => TypeOK'
<1>. SUFFICES ASSUME TypeOK, [Next]_vars PROVE TypeOK'
  OBVIOUS
<1>1. CASE Next
  BY <1>1, HartStaysTyped, OthersStayTyped DEF TypeOK, Platforms
<1>2. CASE UNCHANGED vars
  BY <1>2 DEF TypeOK, vars, Platforms
<1>. QED  BY <1>1, <1>2

\* Every variable keeps its type, whatever programs of this shape are run.
THEOREM TypeCorrect == Spec => []TypeOK
BY TypeInit, TypeStep, PTL DEF Spec

-----------------------------------------------------------------------------
(* The level of the test functions.  LevelOK states LevelInv's last three    *)
(* conjuncts of any hart, so that they can be followed through the events    *)
(* of which a step is made.                                                  *)

ReturnOK(p, h) ==
    /\ h.mepc \in TestFuncs => h.mpp = NamedLevel(p, h.mepc)
    /\ h.mepc \in SupervisorBody => p.climbs

LevelOK(p, h) ==
    /\ h.pc \in TestFuncs => h.prv = NamedLevel(p, h.pc)
    /\ h.pc \in {"kmain_mret", "machine_trap", "trap_reload"} /\ h.mepc \in TestFuncs
           => h.mpp = NamedLevel(p, h.mepc)
    /\ {h.pc, h.mepc} \cap SupervisorBody # {} => p.climbs

LEMMA LevelInvIsLevelOK == LevelInv <=> TypeOK /\ LevelOK(prog, hart)
BY DEF LevelInv, LevelOK, FuncRunsAtItsLevel, MretGoesToItsLevel, BodyOnlyIfClimbs

\* A trap into machine mode saves the level of the code it interrupts together
\* with its address; a trap into supervisor mode leaves both alone.
LEMMA TrapLevel ==
    ASSUME NEW p, NEW h \in Harts, NEW cause \in Causes, LevelOK(p, h)
    PROVE  LevelOK(p, Trap(h, cause))
<1>1. LevelOK(p, EnterM(h, cause))
  BY DEF LevelOK, EnterM, Harts, TestFuncs, SupervisorBody
<1>2. LevelOK(p, EnterS(h, cause))
  BY DEF LevelOK, EnterS, Harts, TestFuncs, SupervisorBody
<1>. QED  BY <1>1, <1>2 DEF Trap

LEMMA MretLevel ==
    ASSUME NEW p, NEW h \in Harts, ReturnOK(p, h)
    PROVE  LevelOK(p, Mret(h))
BY DEF LevelOK, ReturnOK, Mret, Harts, TestFuncs

LEMMA DoMretLevel ==
    ASSUME NEW h \in Harts, ReturnOK(prog, h),
           h.pc \in {"kmain_mret", "machine_trap", "trap_reload"}
    PROVE  LevelOK(prog, DoMret(h))
<1>1. LevelOK(prog, h)
  BY DEF LevelOK, ReturnOK, TestFuncs, SupervisorBody
<1>. QED  BY <1>1, TrapLevel, MretLevel, CauseTypes DEF DoMret

LEMMA EcallLevel ==
    ASSUME NEW p, NEW h \in Harts, LevelOK(p, h)
    PROVE  LevelOK(p, Ecall(h))
<1>1. EcallFrom(h.prv) \in Causes
  BY CauseTypes DEF Harts
<1>. QED  BY <1>1, TrapLevel DEF Ecall

\* Going to a place that is neither a test function nor before an mret.
LEMMA GotoLevel ==
    ASSUME hart \in Harts, LevelOK(prog, hart), NEW loc \in Pcs, Goto(loc),
           loc \notin TestFuncs \cup {"kmain_mret", "machine_trap", "trap_reload"},
           loc \in SupervisorBody => prog.climbs
    PROVE  LevelOK(prog, hart')
BY DEF LevelOK, Goto, Harts

LEMMA LevelInit == Init => LevelOK(prog, hart)
BY DEF Init, LevelOK, ResetHart, TestFuncs, SupervisorBody

\* A climb sends the hart to the next function at the next level; only programs
\* whose functions run at the level of their names climb.
LEMMA ClimbReturnOK ==
    ASSUME TypeOK, WellNamed(prog), IsClimb(hart.mcause),
           NEW h \in Harts, h.mpp = NextLevel(hart.mcause), h.mepc = NextFunc(hart.mcause)
    PROVE  ReturnOK(prog, h)
BY DEF ReturnOK, WellNamed, IsClimb, NextLevel, NextFunc, NamedLevel, TestFuncs,
       U, S, M

LEMMA LevelStep ==
    ASSUME TypeOK, LevelOK(prog, hart), WellNamed(prog), Next
    PROVE  LevelOK(prog, hart')
<1>. USE DEF TypeOK
<1>p. prog \in ProgramType
  BY ProgramsAssumption
<1>1. CASE KmainReload
  <2>1. LevelOK(prog, [hart EXCEPT !.pc = "kmain", !.mip = hart.mip \ {MTI}])
    BY <1>1 DEF LevelOK, Harts, TestFuncs, SupervisorBody, KmainReload, At
  <2>. QED  BY <1>1, <2>1, EcallLevel DEF KmainReload
<1>2. CASE Kmain
  BY <1>2, <1>p DEF Kmain, Harts, ProgramType, LevelOK, TestFuncs, SupervisorBody, WellNamed
<1>3. CASE KmainMret
  <2>1. ReturnOK(prog, hart) /\ hart.pc = "kmain_mret"
    BY <1>3 DEF KmainMret, At, LevelOK, ReturnOK
  <2>. QED  BY <1>3, <2>1, DoMretLevel DEF KmainMret
<1>4. CASE UserTestFunc \/ MachineTestFunc
  BY <1>4, EcallLevel DEF UserTestFunc, MachineTestFunc
<1>5. CASE SupervisorTestFunc
  <2>1. LevelOK(prog, WriteSstatus(hart, prog.superOn))
    BY DEF LevelOK, WriteSstatus, Harts
  <2>2. WriteSstatus(hart, prog.superOn) \in Harts
    BY <1>p, WriteSstatusType DEF ProgramType
  <2>. QED
    BY <1>5, <2>1, <2>2, EcallLevel, TrapLevel, CauseTypes DEF SupervisorTestFunc
<1>6. CASE MachineTrapSoftwareIrq
  <2>1. ReturnOK(prog, hart) /\ hart.pc = "machine_trap"
    BY <1>6 DEF MachineTrapSoftwareIrq, At, LevelOK, ReturnOK
  <2>. QED  BY <1>6, <2>1, DoMretLevel DEF MachineTrapSoftwareIrq
<1>7. CASE MachineTrapClimb
  <2>. DEFINE h == [hart EXCEPT !.on = prog.climbOn, !.mpp = NextLevel(hart.mcause),
                                !.mepc = NextFunc(hart.mcause)]
  <2>1. h \in Harts
    BY ClimbType
  <2>2. /\ h.mpp = NextLevel(hart.mcause) /\ h.mepc = NextFunc(hart.mcause)
        /\ h.pc = "machine_trap"
    BY <1>7 DEF Harts, MachineTrapClimb, At
  <2>3. ReturnOK(prog, h)
    BY <1>7, <2>1, <2>2, ClimbReturnOK DEF MachineTrapClimb
  <2>4. hart' = DoMret(h)
    BY <1>7 DEF MachineTrapClimb
  <2>. HIDE DEF h
  <2>. QED  BY <2>1, <2>2, <2>3, <2>4, DoMretLevel
<1>8. CASE TrapReload
  <2>. DEFINE h == [hart EXCEPT !.mip = hart.mip \ {MTI}]
  <2>1. h \in Harts
    BY DEF Harts
  <2>2. ReturnOK(prog, h) /\ h.pc = "trap_reload"
    BY <1>8 DEF TrapReload, At, LevelOK, ReturnOK, Harts
  <2>3. hart' = IF platform.libcEcalls THEN Ecall(hart) ELSE DoMret(h)
    BY <1>8 DEF TrapReload
  <2>. HIDE DEF h
  <2>. QED  BY <2>1, <2>2, <2>3, EcallLevel, DoMretLevel
<1>9. CASE MachineTrapPass \/ MachineTrapSpin \/ SupervisorTrapSpin \/ SupervisorTrapPass
  BY <1>9, GotoLevel
     DEF MachineTrapPass, MachineTrapSpin, SupervisorTrapSpin, SupervisorTrapPass,
         Pcs, SupervisorBody, TestFuncs
<1>10. CASE MachineTrapTimerIrq
  BY <1>10 DEF MachineTrapTimerIrq, At, Goto, LevelOK, Harts, TestFuncs, SupervisorBody
<1>11. CASE SupervisorTrapEnter
  BY <1>11, GotoLevel DEF SupervisorTrapEnter, Pcs, SupervisorBody, TestFuncs
<1>16. CASE SupervisorTrapStore
  <2>1. prog.climbs
    BY <1>16 DEF SupervisorTrapStore, At, LevelOK, SupervisorBody
  <2>. QED
    BY <1>16, <2>1, GotoLevel, TrapLevel, CauseTypes
       DEF SupervisorTrapStore, Pcs, SupervisorBody, TestFuncs
<1>12. CASE SupervisorTrapClimb
  <2>. DEFINE h == [WriteSstatus(hart, {"SPP"}) EXCEPT !.sepc = "supervisor_test_func"]
  <2>1. WriteSstatus(hart, {"SPP"}) \in Harts
    BY WriteSstatusType DEF SFlags
  <2>2. /\ h \in Harts /\ "SPP" \in h.on /\ h.sepc = "supervisor_test_func"
        /\ h.mepc = hart.mepc
    BY <2>1 DEF Harts, Pcs, TestFuncs, WriteSstatus
  <2>3. prog.climbs
    BY <1>12 DEF SupervisorTrapClimb, At, LevelOK, SupervisorBody
  <2>4. NamedLevel(prog, "supervisor_test_func") = S
    BY <2>3 DEF NamedLevel, WellNamed
  <2>5. hart' = Sret(h)
    BY <1>12 DEF SupervisorTrapClimb
  <2>. HIDE DEF h
  <2>6. hart'.pc = "supervisor_test_func" /\ hart'.prv = S
    BY <2>2, <2>5 DEF Sret, Harts
  <2>. QED  BY <2>3, <2>4, <2>6 DEF LevelOK
<1>13. CASE RefuseFetch
  BY <1>13, TrapLevel, CauseTypes DEF RefuseFetch
<1>14. CASE TakeInterrupt
  <2>1. Takeable(hart) \subseteq Codes
    BY DEF Takeable, ToMachine, ToSupervisor, Harts
  <2>. QED  BY <1>14, <2>1, TrapLevel, CauseTypes DEF TakeInterrupt
<1>15. CASE Clint
  BY <1>15 DEF Clint, ClintRaises, ClintLowers, TimerExpires, Harts, LevelOK
<1>. QED
  BY <1>1, <1>2, <1>3, <1>4, <1>5, <1>6, <1>7, <1>8, <1>9, <1>10, <1>11, <1>12,
     <1>13, <1>14, <1>15, <1>16 DEF Next, Execute

LEMMA LevelInvStep ==
    ASSUME \A p \in Programs : WellNamed(p)
    PROVE  LevelInv /\ [Next]_vars => LevelInv'
<1>. SUFFICES ASSUME LevelInv, [Next]_vars PROVE LevelInv'
  OBVIOUS
<1>1. TypeOK /\ LevelOK(prog, hart) /\ WellNamed(prog)
  BY LevelInvIsLevelOK DEF TypeOK
<1>2. TypeOK'
  BY <1>1, TypeStep
<1>3. LevelOK(prog', hart')
  <2>1. CASE Next
    BY <1>1, <2>1, LevelStep, OthersStayTyped
  <2>2. CASE UNCHANGED vars
    BY <1>1, <2>2 DEF vars
  <2>. QED  BY <2>1, <2>2
<1>. QED
  BY <1>2, <1>3 DEF LevelInv, LevelOK, FuncRunsAtItsLevel, MretGoesToItsLevel,
                    BodyOnlyIfClimbs

\* Whatever well-named programs run, on whatever platform, every return from a
\* trap goes to code of the level it sets.
THEOREM LevelCorrect ==
    ASSUME \A p \in Programs : WellNamed(p)
    PROVE  Spec => []LevelInv
<1>1. Init => LevelInv
  BY TypeInit, LevelInit, LevelInvIsLevelOK
<1>2. LevelInv /\ [Next]_vars => LevelInv'
  BY LevelInvStep
<1>. QED  BY <1>1, <1>2, PTL DEF Spec

\* ... and so every test function runs at the level its name promises.
THEOREM FuncsRunAtTheirLevels ==
    ASSUME \A p \in Programs : WellNamed(p)
    PROVE  Spec => []FuncRunsAtItsLevel
<1>1. LevelInv => FuncRunsAtItsLevel
  BY DEF LevelInv
<1>. QED  BY <1>1, LevelCorrect, PTL

\* The hypothesis is met by the eleven programs of the repository.
LEMMA FieldTypes ==
    /\ {} \in SUBSET Flags /\ {"SUM"} \in SUBSET Flags /\ {"SIE"} \in SUBSET Flags
    /\ SIE_and_SPIE \in SUBSET Flags /\ MIE_and_MPIE \in SUBSET Flags
    /\ MIE_and_MPIE \cup SIE_and_SPIE \in SUBSET Flags
    /\ {} \in SUBSET SFlags /\ {"SUM", "SPP"} \in SUBSET SFlags
    /\ {"SPP"} \in SUBSET SFlags
    /\ {} \in SUBSET Codes /\ {9, 8} \in SUBSET Codes /\ {MSI, 1} \in SUBSET Codes
    /\ {STI} \in SUBSET Codes /\ {MTI} \in SUBSET Codes
    /\ U \in Modes /\ S \in Modes /\ M \in Modes
BY DEF Flags, SFlags, Codes, Modes, SIE_and_SPIE, MIE_and_MPIE, MSI, STI, MTI

\* The type of a program, the level it starts at and where.
StartsIn(p, level, func) ==
    p \in ProgramType /\ p.mpp = level /\ p.entry = func

LEMMA LadderTestStart == StartsIn(LadderTest, U, "user_test_func")
BY FieldTypes DEF StartsIn, LadderTest, ProgramType

LEMMA StiTestStart ==
    StartsIn(StiTest, S, "supervisor_test_func") /\ StiTest.climbs = FALSE
BY FieldTypes, LadderTestStart DEF StartsIn, StiTest, ProgramType

LEMMA UserProgramsStart ==
    \A p \in {priv_privileged_levels, priv_privileged_levels2, priv_deleg,
              priv_nested_deleg_ecall_irq} : StartsIn(p, U, "user_test_func")
<1>. USE FieldTypes, LadderTestStart DEF StartsIn, ProgramType
<1>1. StartsIn(priv_privileged_levels, U, "user_test_func")
  BY DEF priv_privileged_levels
<1>2. StartsIn(priv_privileged_levels2, U, "user_test_func")
  BY DEF priv_privileged_levels2
<1>3. StartsIn(priv_deleg, U, "user_test_func")
  BY DEF priv_deleg
<1>4. StartsIn(priv_nested_deleg_ecall_irq, U, "user_test_func")
  BY DEF priv_nested_deleg_ecall_irq
<1>. QED  BY <1>1, <1>2, <1>3, <1>4

LEMMA SupervisorProgramsStart ==
    \A p \in {priv_irq_deleg, priv_irq_deleg_with_sie_enabled,
              priv_irq_deleg_with_sie_disabled,
              priv_irq_with_sie_enabled_from_s_mode} :
        StartsIn(p, S, "supervisor_test_func")
<1>. USE FieldTypes, LadderTestStart, StiTestStart DEF StartsIn, ProgramType
<1>1. StartsIn(priv_irq_deleg, S, "supervisor_test_func")
  BY DEF priv_irq_deleg
<1>2. StartsIn(priv_irq_deleg_with_sie_enabled, S, "supervisor_test_func")
  BY DEF priv_irq_deleg_with_sie_enabled
<1>3. StartsIn(priv_irq_deleg_with_sie_disabled, S, "supervisor_test_func")
  BY DEF priv_irq_deleg_with_sie_disabled
<1>4. StartsIn(priv_irq_with_sie_enabled_from_s_mode, S, "supervisor_test_func")
  BY DEF priv_irq_with_sie_enabled_from_s_mode
<1>. QED  BY <1>1, <1>2, <1>3, <1>4

LEMMA MachineProgramsStart ==
    \A p \in FromMachineMode :
        StartsIn(p, M, "supervisor_test_func") /\ p.climbs = FALSE
<1>. USE FieldTypes, StiTestStart DEF StartsIn, ProgramType
<1>. DEFINE OK(p) == StartsIn(p, M, "supervisor_test_func") /\ p.climbs = FALSE
<1>1. OK(priv_irq_deleg_with_sie_enabled_from_m_mode)
  BY DEF priv_irq_deleg_with_sie_enabled_from_m_mode
<1>2. OK(priv_irq_deleg_with_mie_enabled_from_m_mode)
  BY DEF priv_irq_deleg_with_mie_enabled_from_m_mode
<1>3. OK(priv_irq_with_sie_enabled_from_m_mode)
  BY DEF priv_irq_with_sie_enabled_from_m_mode
<1>. QED  BY <1>1, <1>2, <1>3 DEF FromMachineMode

\* The eleven programs are of the declared type and enter each function at its level.
THEOREM RepositoryProgramsWellNamed ==
    \A p \in AllPrograms : p \in ProgramType /\ WellNamed(p)
<1>. SUFFICES ASSUME NEW p \in AllPrograms PROVE p \in ProgramType /\ WellNamed(p)
  OBVIOUS
<1>1. CASE p \in FromMachineMode
  BY <1>1, MachineProgramsStart DEF StartsIn, WellNamed, NamedLevel
<1>2. CASE p \notin FromMachineMode
  <2>1. \/ StartsIn(p, U, "user_test_func")
        \/ StartsIn(p, S, "supervisor_test_func")
    BY <1>2, UserProgramsStart, SupervisorProgramsStart
       DEF AllPrograms, EnabledPrograms, UnfinishedPrograms, FromMachineMode
  <2>. QED  BY <1>2, <2>1 DEF StartsIn, WellNamed, NamedLevel
<1>. QED  BY <1>1, <1>2

\* So the programs of the repository, whichever are selected, never run a test
\* function at another level than the one it is named for.
THEOREM RepositoryFuncsRunAtTheirLevels ==
    ASSUME Programs \subseteq AllPrograms
    PROVE  Spec => []FuncRunsAtItsLevel
<1>1. \A p \in Programs : WellNamed(p)
  BY RepositoryProgramsWellNamed
<1>. QED  BY <1>1, FuncsRunAtTheirLevels

-----------------------------------------------------------------------------
(* Delegated ecalls.  Once kmain has written medeleg, an ecall from below    *)
(* machine mode cannot get into mcause; and nothing leads back to kmain.     *)

EcallsFromBelow == {EcallFrom(U), EcallFrom(S)}

DelegatesEcalls(p) == {8, 9} \subseteq p.medeleg /\ ~p.timer

DelegOK(h) ==
    /\ IF h.pc = "kmain" THEN h.prv = M /\ h.mie = {}
       ELSE /\ h.pc # "kmain_reload" /\ h.mepc \notin {"kmain", "kmain_reload"}
            /\ {8, 9} \subseteq h.medeleg
    /\ h.mcause \notin EcallsFromBelow

\* The inductive invariant.
DelegInv == TypeOK /\ (DelegatesEcalls(prog) => DelegOK(hart))

LEMMA TrapDeleg ==
    ASSUME NEW h \in Harts, NEW cause \in Causes, DelegOK(h), h.pc # "kmain",
           cause \in EcallsFromBelow => h.prv # M
    PROVE  DelegOK(Trap(h, cause))
<1>1. DelegOK(EnterS(h, cause))
  BY DEF DelegOK, EnterS, Harts
<1>2. CASE ~Delegated(h, cause)
  <2>1. cause \notin EcallsFromBelow
    BY <1>2 DEF Delegated, DelegOK, EcallsFromBelow, EcallFrom, Exception, U, S
  <2>2. DelegOK(EnterM(h, cause))
    BY <2>1 DEF DelegOK, EnterM, Harts
  <2>. QED  BY <1>2, <2>2 DEF Trap
<1>. QED  BY <1>1, <1>2 DEF Trap

LEMMA OtherCauses ==
    /\ {FetchFault, StoreFault, IllegalInstruction} \cap EcallsFromBelow = {}
    /\ \A n \in Codes : Interrupt(n) \notin EcallsFromBelow
    /\ EcallFrom(M) \notin EcallsFromBelow
BY DEF FetchFault, StoreFault, IllegalInstruction, Interrupt, EcallFrom, Exception,
       EcallsFromBelow, U, S, M

LEMMA EcallDeleg ==
    ASSUME NEW h \in Harts, DelegOK(h), h.pc # "kmain"
    PROVE  DelegOK(Ecall(h))
<1>1. EcallFrom(h.prv) \in Causes
  BY CauseTypes DEF Harts
<1>2. EcallFrom(h.prv) \in EcallsFromBelow => h.prv # M
  BY OtherCauses
<1>. QED  BY <1>1, <1>2, TrapDeleg DEF Ecall

LEMMA DoMretDeleg ==
    ASSUME NEW h \in Harts, DelegOK(h), h.pc # "kmain"
    PROVE  DelegOK(DoMret(h))
<1>1. DelegOK(Mret(h))
  BY DEF DelegOK, Mret, Harts
<1>2. DelegOK(Trap(h, IllegalInstruction))
  BY TrapDeleg, CauseTypes, OtherCauses
<1>. QED  BY <1>1, <1>2 DEF DoMret

LEMMA GotoDeleg ==
    ASSUME hart \in Harts, DelegOK(hart), hart.pc # "kmain",
           NEW loc \in Pcs \ {"kmain", "kmain_reload"}, Goto(loc)
    PROVE  DelegOK(hart')
BY DEF DelegOK, Goto, Harts

LEMMA DelegStep ==
    ASSUME TypeOK, DelegatesEcalls(prog), DelegOK(hart), Next
    PROVE  DelegOK(hart')
<1>. USE DEF TypeOK
<1>p. prog \in ProgramType
  BY ProgramsAssumption
<1>1. CASE Kmain
  BY <1>1, <1>p DEF Kmain, At, DelegOK, DelegatesEcalls, ProgramType, Harts
<1>2. CASE KmainReload \/ TrapReload
  <2>1. hart.pc = "trap_reload"
    BY <1>2 DEF KmainReload, TrapReload, At, DelegOK
  <2>. DEFINE h == [hart EXCEPT !.mip = hart.mip \ {MTI}]
  <2>2. h \in Harts /\ DelegOK(h) /\ h.pc # "kmain"
    BY <2>1 DEF Harts, DelegOK
  <2>3. hart' = IF platform.libcEcalls THEN Ecall(hart) ELSE DoMret(h)
    BY <1>2, <2>1 DEF TrapReload, KmainReload, At
  <2>. HIDE DEF h
  <2>. QED  BY <2>1, <2>2, <2>3, EcallDeleg, DoMretDeleg
<1>3. CASE KmainMret \/ MachineTrapSoftwareIrq
  BY <1>3, DoMretDeleg DEF KmainMret, MachineTrapSoftwareIrq, At
<1>4. CASE UserTestFunc \/ MachineTestFunc
  BY <1>4, EcallDeleg DEF UserTestFunc, MachineTestFunc, At
<1>5. CASE SupervisorTestFunc
  <2>1. WriteSstatus(hart, prog.superOn) \in Harts
    BY <1>p, WriteSstatusType DEF ProgramType
  <2>2. hart.pc = "supervisor_test_func"
    BY <1>5 DEF SupervisorTestFunc, At
  <2>3. DelegOK(WriteSstatus(hart, prog.superOn))
        /\ WriteSstatus(hart, prog.superOn).pc # "kmain"
    BY <2>2 DEF DelegOK, WriteSstatus, Harts
  <2>. QED
    BY <1>5, <2>1, <2>2, <2>3, EcallDeleg, TrapDeleg, CauseTypes, OtherCauses
       DEF SupervisorTestFunc
<1>6. CASE MachineTrapClimb
  <2>. DEFINE h == [hart EXCEPT !.on = prog.climbOn, !.mpp = NextLevel(hart.mcause),
                                !.mepc = NextFunc(hart.mcause)]
  <2>1. h \in Harts
    BY ClimbType
  <2>2. DelegOK(h) /\ h.pc # "kmain"
    BY <1>6 DEF MachineTrapClimb, At, DelegOK, Harts, NextFunc
  <2>3. hart' = DoMret(h)
    BY <1>6 DEF MachineTrapClimb
  <2>. HIDE DEF h
  <2>. QED  BY <2>1, <2>2, <2>3, DoMretDeleg
<1>7. CASE MachineTrapPass \/ MachineTrapTimerIrq \/ MachineTrapSpin
           \/ SupervisorTrapSpin \/ SupervisorTrapPass
  BY <1>7, GotoDeleg
     DEF MachineTrapPass, MachineTrapTimerIrq, MachineTrapSpin,
         SupervisorTrapSpin, SupervisorTrapPass, At, Pcs
<1>8. CASE SupervisorTrapEnter \/ SupervisorTrapStore
  BY <1>8, GotoDeleg, TrapDeleg, CauseTypes, OtherCauses
     DEF SupervisorTrapEnter, SupervisorTrapStore, At, Pcs, SupervisorBody
<1>9. CASE SupervisorTrapClimb
  <2>. DEFINE h == [WriteSstatus(hart, {"SPP"}) EXCEPT !.sepc = "supervisor_test_func"]
  <2>1. DelegOK(h) /\ h.sepc = "supervisor_test_func" /\ h.pc # "kmain"
    BY <1>9 DEF SupervisorTrapClimb, At, WriteSstatus, DelegOK, Harts
  <2>2. WriteSstatus(hart, {"SPP"}) \in Harts
    BY WriteSstatusType DEF SFlags
  <2>3. h \in Harts
    BY <2>2 DEF Harts, Pcs, TestFuncs
  <2>4. hart' = Sret(h)
    BY <1>9 DEF SupervisorTrapClimb
  <2>. HIDE DEF h
  <2>. QED  BY <2>1, <2>3, <2>4 DEF DelegOK, Sret, Harts
<1>10. CASE RefuseFetch
  <2>1. hart.pc # "kmain"
    BY <1>10 DEF RefuseFetch, CanFetch, DelegOK
  <2>. QED  BY <1>10, <2>1, TrapDeleg, CauseTypes, OtherCauses DEF RefuseFetch
<1>11. CASE TakeInterrupt
  <2>1. PICK i \in Takeable(hart) : hart' = Trap(hart, Interrupt(i))
    BY <1>11 DEF TakeInterrupt
  <2>2. i \in Codes
    BY DEF Takeable, ToMachine, ToSupervisor, Harts
  <2>3. hart.pc # "kmain"
    BY DEF Takeable, ToMachine, ToSupervisor, DelegOK
  <2>. QED  BY <2>1, <2>2, <2>3, TrapDeleg, CauseTypes, OtherCauses
<1>12. CASE Clint
  BY <1>12 DEF Clint, ClintRaises, ClintLowers, TimerExpires, Harts, DelegOK
<1>. QED
  BY <1>1, <1>2, <1>3, <1>4, <1>5, <1>6, <1>7, <1>8, <1>9, <1>10, <1>11, <1>12
     DEF Next, Execute

LEMMA DelegInvCorrect == Spec => []DelegInv
<1>1. Init => DelegInv
  <2>1. Exception(0) \notin EcallsFromBelow
    BY DEF Exception, EcallsFromBelow, EcallFrom, U, S
  <2>. QED
    BY <2>1, TypeInit DEF Init, DelegInv, DelegOK, ResetHart, DelegatesEcalls
<1>2. DelegInv /\ [Next]_vars => DelegInv'
  <2>. SUFFICES ASSUME DelegInv, [Next]_vars PROVE DelegInv'
    OBVIOUS
  <2>1. TypeOK'
    BY TypeStep DEF DelegInv
  <2>2. CASE Next
    BY <2>1, <2>2, DelegStep, OthersStayTyped DEF DelegInv, DelegatesEcalls
  <2>3. CASE UNCHANGED vars
    BY <2>1, <2>3 DEF DelegInv, DelegatesEcalls, DelegOK, vars
  <2>. QED  BY <2>2, <2>3
<1>. QED  BY <1>1, <1>2, PTL DEF Spec

\* Whatever else a program does, and on every platform: if its kmain delegates the
\* ecalls from below machine mode, machine_trap never sees one - no return from
\* a nested software interrupt, no fault and no mret undoes the delegation.
THEOREM DelegatedEcallsCorrect == Spec => []DelegatedEcallsStayInSupervisor
<1>1. DelegInv => DelegatedEcallsStayInSupervisor
  <2>1. DelegatesEcalls(priv_deleg) /\ DelegatesEcalls(priv_nested_deleg_ecall_irq)
    BY DEF DelegatesEcalls, priv_deleg, priv_nested_deleg_ecall_irq, LadderTest
  <2>. QED
    BY <2>1 DEF DelegInv, DelegOK, DelegatedEcallsStayInSupervisor, EcallsFromBelow
<1>. QED  BY <1>1, DelegInvCorrect, PTL

-----------------------------------------------------------------------------
(* pass() is earned.  What supervisor_trap compares is an ecall from below   *)
(* machine mode, since nothing else is delegated to it; an interrupt on the  *)
(* way to pass() comes back to the same place, or leaves a stale frame.      *)

SupervisorHandler == {"supervisor_trap", "supervisor_store", "supervisor_compare"}
MachineHandler == {"machine_trap", "trap_reload"}

\* Programs whose traps climb delegate nothing but those ecalls.
DelegatesOnlyEcalls(p) == p.medeleg \subseteq {8, 9} /\ p.mideleg = {}

\* What an mret of machine_trap or reload_timer goes back to; a trap taken in them
\* (the ecall of a libc printf, a refused mret) is never returned from.
EarnedReturn(h) ==
    /\ h.mepc = "pass" =>
           h.mpp = S /\ h.scause \in EcallsFromBelow /\ (stale \/ h.scause = EcallFrom(S))
    /\ h.mepc \in SupervisorHandler => h.mpp = S /\ h.scause \in EcallsFromBelow
    /\ h.mepc \in MachineHandler =>
           \/ h.pc = "machine_trap" /\ h.mcause = IllegalInstruction
           \/ h.mcause = EcallFrom(M) /\ platform.libcEcalls

EarnedPass(h) ==
    \/ h.prv = M /\ h.mcause = EcallFrom(M) /\ "MIE" \notin h.on
    \/ /\ h.prv = S /\ h.scause \in EcallsFromBelow
       /\ stale \/ h.scause = EcallFrom(S)

EarnedWhere(h) ==
    /\ h.pc = "pass" => EarnedPass(h)
    /\ h.pc \in SupervisorHandler => h.prv = S /\ h.scause \in EcallsFromBelow
    /\ h.pc \in MachineHandler => h.prv = M /\ "MIE" \notin h.on /\ EarnedReturn(h)
    /\ h.pc = "kmain_mret" => h.mepc \in TestFuncs \cup {"kmain_mret"}

DelegationOf(p, h) == h.medeleg \subseteq p.medeleg /\ h.mideleg \subseteq p.mideleg

NeverThere(h) ==
    {h.pc, h.mepc} \cap {"pass", "supervisor_store", "supervisor_compare"} = {}

EarnedOK(p, h) ==
    /\ DelegationOf(p, h)
    /\ IF p.climbs THEN EarnedWhere(h) ELSE NeverThere(h)

\* The inductive invariant.
EarnedInv == TypeOK /\ (stale => prog.msi) /\ EarnedOK(prog, hart)

\* The three lemmas for programs that do not climb.
LEMMA TrapNever ==
    ASSUME NEW h \in Harts, NEW cause \in Causes, NeverThere(h)
    PROVE  NeverThere(Trap(h, cause))
BY DEF NeverThere, Trap, EnterM, EnterS, Harts

LEMMA DoMretNever ==
    ASSUME NEW h \in Harts, NeverThere(h)
    PROVE  NeverThere(DoMret(h))
<1>1. NeverThere(Mret(h))
  BY DEF NeverThere, Mret, Harts
<1>. QED  BY <1>1, TrapNever, CauseTypes DEF DoMret

LEMMA DelegationStays ==
    ASSUME NEW p, NEW h \in Harts, NEW cause \in Causes, DelegationOf(p, h)
    PROVE  DelegationOf(p, Trap(h, cause)) /\ DelegationOf(p, Mret(h))
           /\ DelegationOf(p, DoMret(h)) /\ DelegationOf(p, Ecall(h))
BY DEF DelegationOf, DoMret, Ecall, Trap, EnterM, EnterS, Mret, Harts

\* The causes a trap can have in a program that climbs.
PlainCauses == {FetchFault, StoreFault, IllegalInstruction}

LEMMA PlainNotDelegated ==
    ASSUME NEW p, DelegatesOnlyEcalls(p), NEW h \in Harts, DelegationOf(p, h),
           NEW cause \in Causes, Delegated(h, cause)
    PROVE  cause \in EcallsFromBelow
<1>1. cause.irq = FALSE /\ cause.code \in {8, 9} /\ cause \in [irq : BOOLEAN, code : Codes]
  BY DEF Delegated, DelegatesOnlyEcalls, DelegationOf, Causes
<1>2. cause = Exception(8) \/ cause = Exception(9)
  BY <1>1 DEF Exception
<1>. QED  BY <1>2 DEF EcallsFromBelow, EcallFrom, U, S

\* A trap from anywhere but the handlers of machine mode, and one from there
\* that is never returned from.
LEMMA TrapEarned ==
    ASSUME NEW p, DelegatesOnlyEcalls(p), NEW h \in Harts, DelegationOf(p, h),
           EarnedWhere(h), NEW cause \in Causes,
           h.pc = "pass" => h.prv = S,
           h.pc \in MachineHandler => \/ cause = IllegalInstruction
                                      \/ cause = EcallFrom(M) /\ platform.libcEcalls
    PROVE  EarnedWhere(Trap(h, cause))
<1>1. CASE Delegated(h, cause)
  <2>1. cause \in EcallsFromBelow
    BY <1>1, PlainNotDelegated
  <2>2. EarnedWhere(EnterS(h, cause))
    BY <2>1 DEF EarnedWhere, EnterS, Harts, SupervisorHandler, MachineHandler
  <2>. QED  BY <1>1, <2>2 DEF Trap
<1>2. CASE ~Delegated(h, cause)
  <2>. DEFINE g == EnterM(h, cause)
  <2>1. /\ g.pc = "machine_trap" /\ g.prv = M /\ "MIE" \notin g.on
        /\ g.mepc = h.pc /\ g.mpp = h.prv /\ g.mcause = cause /\ g.scause = h.scause
    BY DEF EnterM, Harts
  <2>. HIDE DEF g
  <2>2. EarnedReturn(g)
    <3>1. h.pc = "pass" => /\ h.prv = S /\ h.scause \in EcallsFromBelow
                           /\ stale \/ h.scause = EcallFrom(S)
      BY DEF EarnedWhere, EarnedPass, S, M
    <3>. QED  BY <2>1, <3>1 DEF EarnedReturn, EarnedWhere
  <2>3. EarnedWhere(g)
    BY <2>1, <2>2 DEF EarnedWhere, SupervisorHandler
  <2>. QED  BY <1>2, <2>3 DEF Trap, g
<1>. QED  BY <1>1, <1>2

LEMMA EcallEarned ==
    ASSUME NEW p, DelegatesOnlyEcalls(p), NEW h \in Harts, DelegationOf(p, h),
           EarnedWhere(h), h.pc # "pass",
           h.pc \in MachineHandler => platform.libcEcalls
    PROVE  EarnedWhere(Ecall(h))
<1>1. EcallFrom(h.prv) \in Causes
  BY CauseTypes DEF Harts
<1>2. h.pc \in MachineHandler => h.prv = M
  BY DEF EarnedWhere
<1>. QED  BY <1>1, <1>2, TrapEarned DEF Ecall

\* An mret to where a trap came from.
LEMMA DoMretEarned ==
    ASSUME NEW p, DelegatesOnlyEcalls(p), NEW h \in Harts, DelegationOf(p, h),
           EarnedWhere(h), h.pc \in MachineHandler \cup {"kmain_mret"},
           h.mepc \notin MachineHandler
    PROVE  EarnedWhere(DoMret(h))
<1>1. EarnedWhere(Trap(h, IllegalInstruction))
  BY TrapEarned, CauseTypes DEF MachineHandler
<1>2. EarnedWhere(Mret(h))
  <2>. DEFINE g == Mret(h)
  <2>1. /\ g.pc = h.mepc /\ g.prv = h.mpp /\ g.scause = h.scause
        /\ g.mepc = h.mepc
    BY DEF Mret, Harts
  <2>. SUFFICES EarnedWhere(g)
    OBVIOUS
  <2>. HIDE DEF g
  <2>2. CASE h.pc \in MachineHandler
    BY <2>1, <2>2 DEF EarnedWhere, EarnedReturn, EarnedPass, SupervisorHandler
  <2>3. CASE h.pc = "kmain_mret"
    <3>1. h.mepc \in TestFuncs \cup {"kmain_mret"}
      BY <2>3 DEF EarnedWhere
    <3>. QED  BY <2>1, <3>1 DEF EarnedWhere, TestFuncs, SupervisorHandler, MachineHandler
  <2>. QED  BY <2>2, <2>3
<1>. QED  BY <1>1, <1>2 DEF DoMret

\* A step that forgets no stale frame.
LEMMA StaleKept ==
    ASSUME EarnedWhere(hart'), stale => stale', platform' = platform
    PROVE  EarnedWhere(hart)'
BY DEF EarnedWhere, EarnedReturn, EarnedPass

\* No interrupt is taken in machine mode with MIE off.
LEMMA NoInterruptInHandler ==
    ASSUME TypeOK, prog.climbs, EarnedOK(prog, hart), DelegatesOnlyEcalls(prog),
           Takeable(hart) # {}
    PROVE  /\ hart.pc \notin MachineHandler
           /\ hart.pc = "pass" => hart.prv = S
<1>1. hart.prv # M \/ "MIE" \in hart.on
  BY DEF Takeable, ToMachine, ToSupervisor, U, S, M
<1>. QED  BY <1>1 DEF EarnedOK, EarnedWhere, EarnedPass

LEMMA GotoEarned ==
    ASSUME TypeOK, EarnedOK(prog, hart), NEW loc \in Pcs, Goto(loc),
           loc \notin {"pass", "kmain_mret"} \cup SupervisorHandler \cup MachineHandler
    PROVE  EarnedOK(prog, hart')
BY DEF TypeOK, EarnedOK, EarnedWhere, NeverThere, DelegationOf, Goto, Harts,
       SupervisorHandler, MachineHandler

\* The steps of kmain.
LEMMA EarnedKmain ==
    ASSUME TypeOK, EarnedOK(prog, hart), prog.climbs => DelegatesOnlyEcalls(prog),
           KmainReload \/ Kmain \/ KmainMret
    PROVE  EarnedOK(prog, hart')
<1>. USE DEF TypeOK
<1>p. prog \in ProgramType
  BY ProgramsAssumption
<1>1. CASE KmainReload
  <2>1. hart.pc = "kmain_reload"
    BY <1>1 DEF KmainReload, At
  <2>2. EcallFrom(hart.prv) \in Causes
    BY CauseTypes DEF Harts
  <2>3. EarnedOK(prog, Ecall(hart))
    <3>1. CASE prog.climbs
      BY <2>1, <2>2, <3>1, EcallEarned, DelegationStays DEF EarnedOK, MachineHandler
    <3>2. CASE ~prog.climbs
      BY <2>1, <2>2, <3>2, TrapNever, DelegationStays DEF EarnedOK, Ecall
    <3>. QED  BY <3>1, <3>2
  <2>4. EarnedOK(prog, [hart EXCEPT !.pc = "kmain", !.mip = hart.mip \ {MTI}])
    BY DEF EarnedOK, EarnedWhere, NeverThere, DelegationOf, Harts,
           SupervisorHandler, MachineHandler
  <2>. QED  BY <1>1, <2>3, <2>4 DEF KmainReload
<1>2. CASE Kmain
  BY <1>2, <1>p DEF Kmain, ProgramType, EarnedOK, EarnedWhere, NeverThere, DelegationOf,
                    Harts, SupervisorHandler, MachineHandler, TestFuncs
<1>3. CASE KmainMret
  <2>1. hart.pc = "kmain_mret" /\ hart' = DoMret(hart)
    BY <1>3 DEF KmainMret, At
  <2>2. CASE prog.climbs
    <3>1. hart.mepc \notin MachineHandler
      BY <2>1, <2>2 DEF EarnedOK, EarnedWhere, TestFuncs, MachineHandler
    <3>. QED  BY <2>1, <2>2, <3>1, DoMretEarned, DelegationStays, CauseTypes DEF EarnedOK
  <2>3. CASE ~prog.climbs
    BY <2>1, <2>3, DoMretNever, DelegationStays, CauseTypes DEF EarnedOK
  <2>. QED  BY <2>2, <2>3
<1>. QED  BY <1>1, <1>2, <1>3

\* The steps of the test functions and of the hardware.
LEMMA EarnedFuncs ==
    ASSUME TypeOK, EarnedOK(prog, hart), prog.climbs => DelegatesOnlyEcalls(prog),
           \/ UserTestFunc \/ SupervisorTestFunc \/ MachineTestFunc
           \/ RefuseFetch \/ TakeInterrupt \/ Clint
    PROVE  EarnedOK(prog, hart')
<1>. USE DEF TypeOK
<1>p. prog \in ProgramType
  BY ProgramsAssumption
<1>1. ASSUME NEW h \in Harts, EarnedOK(prog, h), h.pc \in TestFuncs
      PROVE  EarnedOK(prog, Ecall(h)) /\ EarnedOK(prog, Trap(h, IllegalInstruction))
  <2>1. EcallFrom(h.prv) \in Causes /\ IllegalInstruction \in Causes
    BY CauseTypes DEF Harts
  <2>2. CASE prog.climbs
    BY <1>1, <2>1, <2>2, EcallEarned, TrapEarned, DelegationStays
       DEF EarnedOK, TestFuncs, MachineHandler
  <2>3. CASE ~prog.climbs
    BY <1>1, <2>1, <2>3, TrapNever, DelegationStays DEF EarnedOK, Ecall
  <2>. QED  BY <2>2, <2>3
<1>2. CASE UserTestFunc \/ MachineTestFunc
  BY <1>1, <1>2 DEF UserTestFunc, MachineTestFunc, At, TestFuncs
<1>3. CASE SupervisorTestFunc
  <2>. DEFINE h == WriteSstatus(hart, prog.superOn)
  <2>1. h \in Harts
    BY <1>p, WriteSstatusType DEF ProgramType
  <2>2. hart.pc = "supervisor_test_func"
    BY <1>3 DEF SupervisorTestFunc, At
  <2>3. EarnedOK(prog, h) /\ h.pc = "supervisor_test_func"
    BY <2>2 DEF EarnedOK, EarnedWhere, NeverThere, DelegationOf, WriteSstatus, Harts,
                SupervisorHandler, MachineHandler
  <2>4. \/ hart' = Ecall(hart) \/ hart' = Trap(hart, IllegalInstruction)
        \/ hart' = Ecall(h)
    BY <1>3 DEF SupervisorTestFunc
  <2>. HIDE DEF h
  <2>. QED  BY <1>1, <2>1, <2>2, <2>3, <2>4 DEF TestFuncs
<1>4. CASE RefuseFetch
  <2>1. hart.prv # M /\ hart' = Trap(hart, FetchFault)
    BY <1>4 DEF RefuseFetch, CanFetch
  <2>2. CASE prog.climbs
    <3>1. hart.pc \notin MachineHandler /\ (hart.pc = "pass" => hart.prv = S)
      BY <2>1, <2>2 DEF EarnedOK, EarnedWhere, EarnedPass
    <3>. QED
      BY <2>1, <2>2, <3>1, TrapEarned, DelegationStays, CauseTypes DEF EarnedOK
  <2>3. CASE ~prog.climbs
    BY <2>1, <2>3, TrapNever, DelegationStays, CauseTypes DEF EarnedOK
  <2>. QED  BY <2>2, <2>3
<1>5. CASE TakeInterrupt
  <2>1. PICK i \in Takeable(hart) : hart' = Trap(hart, Interrupt(i))
    BY <1>5 DEF TakeInterrupt
  <2>2. Interrupt(i) \in Causes
    <3>1. i \in Codes
      BY DEF Takeable, ToMachine, ToSupervisor, Harts
    <3>. QED  BY <3>1, CauseTypes
  <2>3. CASE prog.climbs
    BY <2>1, <2>2, <2>3, NoInterruptInHandler, TrapEarned, DelegationStays DEF EarnedOK
  <2>4. CASE ~prog.climbs
    BY <2>1, <2>2, <2>4, TrapNever, DelegationStays DEF EarnedOK
  <2>. QED  BY <2>3, <2>4
<1>6. CASE Clint
  <2>1. PICK mip \in SUBSET Codes : hart' = [hart EXCEPT !.mip = mip]
    BY <1>6 DEF Clint, ClintRaises, ClintLowers, TimerExpires, Harts, MSI, MTI, Codes
  <2>. QED
    BY <2>1 DEF EarnedOK, EarnedWhere, EarnedReturn, EarnedPass, NeverThere,
                DelegationOf, Harts
<1>. QED  BY <1>2, <1>3, <1>4, <1>5, <1>6

\* The steps of machine_trap and of the reload_timer it calls.
LEMMA EarnedMachine ==
    ASSUME TypeOK, EarnedOK(prog, hart), prog.climbs => DelegatesOnlyEcalls(prog),
           \/ MachineTrapSoftwareIrq \/ MachineTrapClimb \/ MachineTrapPass
           \/ MachineTrapTimerIrq \/ TrapReload \/ MachineTrapSpin
    PROVE  EarnedOK(prog, hart')
<1>. USE DEF TypeOK
<1>p. prog \in ProgramType
  BY ProgramsAssumption
<1>c. /\ IllegalInstruction.code = 2 /\ IllegalInstruction.irq = FALSE
      /\ EcallFrom(M).code = 11
      /\ EcallFrom(M) \notin EcallsFromBelow /\ IllegalInstruction \notin EcallsFromBelow
  BY OtherCauses DEF IllegalInstruction, EcallFrom, Exception, M
<1>1. CASE MachineTrapSoftwareIrq
  <2>1. hart.pc = "machine_trap" /\ hart' = DoMret(hart) /\ hart.mcause.code = 3
    BY <1>1 DEF MachineTrapSoftwareIrq, At, IsSoftwareIrq, MSI
  <2>2. CASE prog.climbs
    <3>1. hart.mepc \notin MachineHandler
      BY <1>c, <2>1, <2>2 DEF EarnedOK, EarnedWhere, EarnedReturn, MachineHandler
    <3>. QED
      BY <2>1, <2>2, <3>1, DoMretEarned, DelegationStays, CauseTypes
         DEF EarnedOK, MachineHandler
  <2>3. CASE ~prog.climbs
    BY <2>1, <2>3, DoMretNever, DelegationStays, CauseTypes DEF EarnedOK
  <2>. QED  BY <2>2, <2>3
<1>2. CASE MachineTrapClimb
  <2>. DEFINE h == [hart EXCEPT !.on = prog.climbOn, !.mpp = NextLevel(hart.mcause),
                                !.mepc = NextFunc(hart.mcause)]
  <2>1. prog.climbs /\ hart.pc = "machine_trap"
    BY <1>2 DEF MachineTrapClimb, IsClimb, At
  <2>2. h \in Harts
    BY ClimbType
  <2>3. DelegationOf(prog, h)
    BY DEF EarnedOK, DelegationOf, Harts
  <2>4. /\ h.pc = "machine_trap" /\ h.prv = M /\ h.mepc \in TestFuncs
        /\ h.medeleg = hart.medeleg /\ h.mideleg = hart.mideleg
    BY <2>1 DEF EarnedOK, EarnedWhere, Harts, NextFunc, TestFuncs, MachineHandler
  <2>5. hart' = DoMret(h)
    BY <1>2 DEF MachineTrapClimb
  <2>. HIDE DEF h
  <2>6. EarnedWhere(Mret(h))
    BY <2>2, <2>4 DEF Mret, Harts, EarnedWhere, TestFuncs, SupervisorHandler, MachineHandler
  <2>7. EarnedWhere(Trap(h, IllegalInstruction))
    <3>1. Trap(h, IllegalInstruction) = EnterM(h, IllegalInstruction)
      BY <2>4 DEF Trap, Delegated
    <3>2. /\ EnterM(h, IllegalInstruction).mcause = IllegalInstruction
          /\ EnterM(h, IllegalInstruction).pc = "machine_trap"
          /\ EnterM(h, IllegalInstruction).prv = M
          /\ EnterM(h, IllegalInstruction).mepc = "machine_trap"
          /\ "MIE" \notin EnterM(h, IllegalInstruction).on
      BY <2>2, <2>4 DEF EnterM, Harts
    <3>. QED
      BY <3>1, <3>2 DEF EarnedWhere, EarnedReturn, SupervisorHandler, MachineHandler
  <2>. QED
    BY <2>1, <2>2, <2>3, <2>5, <2>6, <2>7, DelegationStays, CauseTypes
       DEF EarnedOK, DoMret
<1>3. CASE MachineTrapPass
  <2>1. /\ prog.climbs /\ hart.pc = "machine_trap" /\ hart.mcause = EcallFrom(M)
        /\ hart' = [hart EXCEPT !.pc = "pass"]
    BY <1>3 DEF MachineTrapPass, At, IsPass, Goto
  <2>2. hart.prv = M /\ "MIE" \notin hart.on
    BY <2>1 DEF EarnedOK, EarnedWhere, MachineHandler
  <2>. QED
    BY <2>1, <2>2 DEF EarnedOK, EarnedWhere, EarnedPass, DelegationOf, Harts,
                      SupervisorHandler, MachineHandler
<1>4. CASE MachineTrapTimerIrq
  <2>1. /\ hart.pc = "machine_trap" /\ IsTimerIrq(hart.mcause)
        /\ hart' = [hart EXCEPT !.pc = "trap_reload"]
    BY <1>4 DEF MachineTrapTimerIrq, At, Goto
  <2>2. hart.mcause # IllegalInstruction
    BY <1>c, <2>1 DEF IsTimerIrq
  <2>. QED
    BY <2>1, <2>2 DEF EarnedOK, EarnedWhere, EarnedReturn, NeverThere, DelegationOf,
                      Harts, SupervisorHandler, MachineHandler
<1>5. CASE TrapReload
  <2>. DEFINE h == [hart EXCEPT !.mip = hart.mip \ {MTI}]
  <2>1. hart.pc = "trap_reload"
    BY <1>5 DEF TrapReload, At
  <2>2. hart' = IF platform.libcEcalls THEN Ecall(hart) ELSE DoMret(h)
    BY <1>5 DEF TrapReload
  <2>3. h \in Harts /\ EarnedOK(prog, h) /\ h.pc = "trap_reload" /\ h.mepc = hart.mepc
    BY <2>1 DEF EarnedOK, EarnedWhere, EarnedReturn, NeverThere, DelegationOf, Harts,
                SupervisorHandler, MachineHandler
  <2>. HIDE DEF h
  <2>4. CASE prog.climbs
    <3>1. hart.mepc \in MachineHandler => platform.libcEcalls
      BY <2>1, <2>4 DEF EarnedOK, EarnedWhere, EarnedReturn, MachineHandler
    <3>2. CASE platform.libcEcalls
      BY <2>1, <2>2, <2>4, <3>2, EcallEarned, DelegationStays, CauseTypes DEF EarnedOK
    <3>3. CASE ~platform.libcEcalls
      BY <2>2, <2>3, <2>4, <3>1, <3>3, DoMretEarned, DelegationStays, CauseTypes
         DEF EarnedOK, MachineHandler
    <3>. QED  BY <3>2, <3>3
  <2>5. CASE ~prog.climbs
    <3>1. EcallFrom(hart.prv) \in Causes /\ IllegalInstruction \in Causes
      BY CauseTypes DEF Harts
    <3>. QED
      BY <2>2, <2>3, <2>5, <3>1, DoMretNever, TrapNever, DelegationStays DEF EarnedOK, Ecall
  <2>. QED  BY <2>4, <2>5
<1>6. CASE MachineTrapSpin
  BY <1>6, GotoEarned DEF MachineTrapSpin, Pcs, SupervisorHandler, MachineHandler
<1>. QED  BY <1>1, <1>2, <1>3, <1>4, <1>5, <1>6

\* The steps of supervisor_trap; the frame is fresh once it has been entered.
LEMMA EarnedSupervisor ==
    ASSUME TypeOK, EarnedOK(prog, hart), prog.climbs => DelegatesOnlyEcalls(prog),
           stale => prog.msi,
           \/ SupervisorTrapSpin \/ SupervisorTrapEnter \/ SupervisorTrapStore
           \/ SupervisorTrapClimb \/ SupervisorTrapPass
    PROVE  EarnedOK(prog, hart)'
<1>. USE DEF TypeOK
<1>1. CASE SupervisorTrapSpin
  <2>1. EarnedOK(prog, hart')
    BY <1>1, GotoEarned DEF SupervisorTrapSpin, Pcs, SupervisorHandler, MachineHandler
  <2>. QED  BY <1>1, <2>1, StaleKept DEF SupervisorTrapSpin, EarnedOK, DelegationOf, NeverThere
<1>2. CASE SupervisorTrapEnter \/ SupervisorTrapStore
  <2>1. /\ prog.climbs /\ hart.pc \in SupervisorHandler
        /\ prog' = prog /\ platform' = platform
    BY <1>2 DEF SupervisorTrapEnter, SupervisorTrapStore, At, EarnedOK, NeverThere,
                SupervisorHandler
  <2>2. /\ hart.prv = S /\ hart.scause \in EcallsFromBelow /\ DelegationOf(prog, hart)
        /\ DelegatesOnlyEcalls(prog)
    BY <2>1 DEF EarnedOK, EarnedWhere
  <2>3. ASSUME NEW loc \in SupervisorBody, hart' = [hart EXCEPT !.pc = loc]
        PROVE  EarnedOK(prog, hart)'
    BY <2>1, <2>2, <2>3 DEF EarnedOK, EarnedWhere, DelegationOf, Harts,
                            SupervisorBody, SupervisorHandler, MachineHandler
  <2>4. CASE hart' = Trap(hart, StoreFault)
    <3>1. StoreFault \in Causes /\ StoreFault \notin EcallsFromBelow
      BY CauseTypes, OtherCauses
    <3>2. hart' = EnterM(hart, StoreFault)
      BY <2>2, <2>4, <3>1, PlainNotDelegated DEF Trap
    <3>3. /\ hart'.pc = "machine_trap" /\ hart'.prv = M /\ "MIE" \notin hart'.on
          /\ hart'.mepc = hart.pc /\ hart'.mpp = S
          /\ hart'.scause = hart.scause /\ DelegationOf(prog, hart')
      BY <2>1, <2>2, <3>2 DEF EnterM, Harts, DelegationOf
    <3>. QED
      BY <2>1, <2>2, <3>3 DEF EarnedOK, EarnedWhere, EarnedReturn, DelegationOf,
                              SupervisorHandler, MachineHandler
  <2>. QED
    BY <1>2, <2>3, <2>4 DEF SupervisorTrapEnter, SupervisorTrapStore, Goto, SupervisorBody
<1>3. CASE SupervisorTrapClimb
  <2>. DEFINE h == [WriteSstatus(hart, {"SPP"}) EXCEPT !.sepc = "supervisor_test_func"]
  <2>1. WriteSstatus(hart, {"SPP"}) \in Harts
    BY WriteSstatusType DEF SFlags
  <2>2. /\ h \in Harts /\ h.sepc = "supervisor_test_func"
        /\ h.medeleg = hart.medeleg /\ h.mideleg = hart.mideleg
    BY <2>1 DEF Harts, Pcs, TestFuncs, WriteSstatus
  <2>3. hart' = Sret(h) /\ hart.pc = "supervisor_compare"
        /\ prog' = prog /\ platform' = platform /\ stale' = stale
    BY <1>3 DEF SupervisorTrapClimb, At
  <2>4. prog.climbs
    BY <2>3 DEF EarnedOK, NeverThere
  <2>. HIDE DEF h
  <2>5. /\ hart'.pc = "supervisor_test_func"
        /\ hart'.medeleg = hart.medeleg /\ hart'.mideleg = hart.mideleg
    BY <2>2, <2>3 DEF Sret, Harts
  <2>. QED
    BY <2>3, <2>4, <2>5 DEF EarnedOK, EarnedWhere, DelegationOf, SupervisorHandler,
                            MachineHandler
<1>4. CASE SupervisorTrapPass
  <2>1. /\ hart.pc = "supervisor_compare" /\ hart' = [hart EXCEPT !.pc = "pass"]
        /\ stale \/ hart.scause # EcallFrom(U)
        /\ prog' = prog /\ platform' = platform /\ stale' = stale
    BY <1>4 DEF SupervisorTrapPass, At, Goto
  <2>2. prog.climbs
    BY <2>1 DEF EarnedOK, NeverThere
  <2>3. hart.prv = S /\ hart.scause \in EcallsFromBelow
    BY <2>1, <2>2 DEF EarnedOK, EarnedWhere, SupervisorHandler
  <2>4. stale \/ hart.scause = EcallFrom(S)
    BY <2>1, <2>3 DEF EcallsFromBelow
  <2>. QED
    BY <2>1, <2>2, <2>3, <2>4
       DEF EarnedOK, EarnedWhere, EarnedPass, DelegationOf, Harts, SupervisorHandler,
           MachineHandler
<1>. QED  BY <1>1, <1>2, <1>3, <1>4

LEMMA EarnedStep ==
    ASSUME EarnedInv, prog.climbs => DelegatesOnlyEcalls(prog), Next
    PROVE  EarnedOK(prog, hart)' /\ (stale' => prog.msi)
<1>1. prog' = prog /\ platform' = platform
  BY OthersStayTyped DEF EarnedInv
<1>2. stale' => prog.msi
  BY DEF EarnedInv, Next, Execute, Clint, KmainReload, Kmain, KmainMret,
       UserTestFunc, SupervisorTestFunc, MachineTestFunc,
       MachineTrapSoftwareIrq, MachineTrapClimb, MachineTrapPass,
       MachineTrapTimerIrq, TrapReload, MachineTrapSpin, SupervisorTrapSpin,
       SupervisorTrapEnter, SupervisorTrapStore, SupervisorTrapClimb, SupervisorTrapPass,
       RefuseFetch, TakeInterrupt, ClintRaises, ClintLowers, TimerExpires, IsSoftwareIrq
<1>3. CASE \/ SupervisorTrapSpin \/ SupervisorTrapEnter \/ SupervisorTrapStore
           \/ SupervisorTrapClimb \/ SupervisorTrapPass
  BY <1>2, <1>3, EarnedSupervisor DEF EarnedInv
<1>4. CASE ~(\/ SupervisorTrapSpin \/ SupervisorTrapEnter \/ SupervisorTrapStore
             \/ SupervisorTrapClimb \/ SupervisorTrapPass)
  <2>1. EarnedOK(prog, hart')
    BY <1>4, EarnedKmain, EarnedFuncs, EarnedMachine DEF EarnedInv, Next, Execute
  <2>2. stale => stale'
    BY <1>4 DEF Next, Execute, Clint, KmainReload, Kmain, KmainMret,
       UserTestFunc, SupervisorTestFunc, MachineTestFunc,
       MachineTrapSoftwareIrq, MachineTrapClimb, MachineTrapPass,
       MachineTrapTimerIrq, TrapReload, MachineTrapSpin,
       RefuseFetch, TakeInterrupt, ClintRaises, ClintLowers, TimerExpires
  <2>. QED
    BY <1>1, <1>2, <2>1, <2>2, StaleKept DEF EarnedOK, DelegationOf, NeverThere
<1>. QED  BY <1>2, <1>3, <1>4

\* Programs whose climbing traps are delegated nothing but ecalls pass only when
\* the last ecall of their ladder was the cause, on every platform and through
\* every interrupt - but for the stale frame of the nested test.
THEOREM PassEarned ==
    ASSUME \A p \in Programs : p.climbs => DelegatesOnlyEcalls(p)
    PROVE  Spec => []PassIsEarned
<1>1. Init => EarnedInv
  <2>1. Init => EarnedOK(prog, hart)
    BY DEF Init, EarnedOK, EarnedWhere, NeverThere, DelegationOf, ResetHart,
           SupervisorHandler, MachineHandler
  <2>. QED  BY <2>1, TypeInit DEF EarnedInv, Init
<1>2. EarnedInv /\ [Next]_vars => EarnedInv'
  <2>. SUFFICES ASSUME EarnedInv, [Next]_vars PROVE EarnedInv'
    OBVIOUS
  <2>1. TypeOK'
    BY TypeStep DEF EarnedInv
  <2>2. prog.climbs => DelegatesOnlyEcalls(prog)
    BY DEF EarnedInv, TypeOK
  <2>3. CASE Next
    BY <2>1, <2>2, <2>3, EarnedStep, OthersStayTyped DEF EarnedInv
  <2>4. CASE UNCHANGED vars
    BY <2>1, <2>4 DEF EarnedInv, EarnedOK, EarnedWhere, EarnedReturn, EarnedPass,
                      NeverThere, DelegationOf, vars
  <2>. QED  BY <2>3, <2>4
<1>3. EarnedInv => PassIsEarned
  BY DEF EarnedInv, EarnedOK, EarnedWhere, EarnedPass, EcallsFromBelow, NeverThere,
         PassIsEarned
<1>. QED  BY <1>1, <1>2, <1>3, PTL DEF Spec

LEMMA RepositoryDelegations ==
    \A p \in AllPrograms : p.climbs => DelegatesOnlyEcalls(p)
<1>1. \A p \in FromMachineMode : ~p.climbs
  BY MachineProgramsStart
<1>2. /\ DelegatesOnlyEcalls(priv_privileged_levels)
      /\ DelegatesOnlyEcalls(priv_privileged_levels2)
      /\ DelegatesOnlyEcalls(priv_deleg)
      /\ DelegatesOnlyEcalls(priv_nested_deleg_ecall_irq)
      /\ DelegatesOnlyEcalls(priv_irq_deleg)
  BY DEF DelegatesOnlyEcalls, priv_privileged_levels, priv_privileged_levels2, priv_deleg,
         priv_nested_deleg_ecall_irq, priv_irq_deleg, LadderTest
<1>3. /\ ~priv_irq_deleg_with_sie_disabled.climbs
      /\ ~priv_irq_deleg_with_sie_enabled.climbs
      /\ ~priv_irq_with_sie_enabled_from_s_mode.climbs
  BY StiTestStart DEF priv_irq_deleg_with_sie_disabled, priv_irq_deleg_with_sie_enabled,
         priv_irq_with_sie_enabled_from_s_mode
<1>. QED
  BY <1>1, <1>2, <1>3 DEF AllPrograms, EnabledPrograms, UnfinishedPrograms, FromMachineMode

\* So no test of the repository passes by accident, the nested one apart.
THEOREM RepositoryPassEarned ==
    ASSUME Programs \subseteq AllPrograms
    PROVE  Spec => []PassIsEarned
<1>1. \A p \in Programs : p.climbs => DelegatesOnlyEcalls(p)
  BY RepositoryDelegations
<1>. QED  BY <1>1, PassEarned

-----------------------------------------------------------------------------
(* The supervisor timer interrupt tests.  kmain leaves one interrupt to take *)
(* and a function that spins, so mideleg, MPP and the flags of mstatus alone *)
(* decide who takes it.                                                      *)

SpinningTest(p) ==
    /\ p.spins /\ ~p.climbs /\ ~p.timer /\ ~p.msi
    /\ p.entry = "supervisor_test_func" /\ p.mpp \in {S, M}
    /\ p.medeleg = {} /\ p.mideleg \subseteq {STI} /\ p.mie = {STI}

\* MPIE matters where kmain's mret makes it MIE, MIE at that mret itself.
MachineTakesSti(p) ==
    STI \notin p.mideleg /\ (p.mpp = S \/ {"MIE", "MPIE"} \cap p.on # {})
SupervisorTakesSti(p) == STI \in p.mideleg /\ p.mpp = S /\ "SIE" \in p.on

StiWhere(p, h) ==
    \/ /\ h.pc = "kmain_mret" /\ h.prv = M
       /\ h.on = p.on /\ h.mpp = p.mpp /\ h.mepc = "supervisor_test_func"
    \/ /\ h.pc = "supervisor_test_func" /\ h.prv = p.mpp
       /\ "SIE" \in h.on => "SIE" \in p.on
       /\ "MIE" \in h.on => "MPIE" \in p.on
    \/ /\ h.pc \in {"machine_trap", "machine_spin"} /\ h.prv = M /\ "MIE" \notin h.on
       /\ h.mcause.irq => MachineTakesSti(p)
    \/ /\ h.pc \in {"supervisor_trap", "supervisor_spin"} /\ h.prv = S
       /\ "SIE" \notin h.on /\ SupervisorTakesSti(p)

StiOK(p, h) ==
    \/ h.pc = "kmain" /\ h.prv = M /\ h.mie = {}
    \/ /\ h.medeleg = {} /\ h.mideleg = p.mideleg /\ h.mie = {STI}
       /\ StiWhere(p, h)

\* The inductive invariant.
StiInv == TypeOK /\ (SpinningTest(prog) => StiOK(prog, hart))

\* A fault goes to machine_trap: nothing but STI is delegated.
LEMMA StiFault ==
    ASSUME NEW p, NEW h \in Harts, NEW cause \in {FetchFault, IllegalInstruction},
           h.medeleg = {}, h.mideleg = p.mideleg, h.mie = {STI}
    PROVE  StiOK(p, Trap(h, cause))
<1>1. cause.irq = FALSE
  BY DEF FetchFault, IllegalInstruction, Exception
<1>2. Trap(h, cause) = EnterM(h, cause)
  BY <1>1 DEF Trap, Delegated
<1>. QED  BY <1>1, <1>2 DEF EnterM, Harts, StiOK, StiWhere

LEMMA StiTaken ==
    ASSUME TypeOK, SpinningTest(prog), StiOK(prog, hart), NEW i \in Takeable(hart)
    PROVE  StiOK(prog, Trap(hart, Interrupt(i)))
<1>h. hart \in Harts
  BY DEF TypeOK
<1>1. hart.pc # "kmain"
  BY DEF Takeable, ToMachine, ToSupervisor, StiOK, StiWhere
<1>2. i = STI /\ hart.mideleg = prog.mideleg /\ hart.medeleg = {} /\ hart.mie = {STI}
  BY <1>1 DEF Takeable, ToMachine, ToSupervisor, StiOK
<1>3. Interrupt(STI).irq = TRUE /\ Interrupt(STI).code = STI
  BY DEF Interrupt
<1>4. CASE STI \in prog.mideleg
  <2>1. hart.prv = U \/ (hart.prv = S /\ "SIE" \in hart.on)
    BY <1>2, <1>4 DEF Takeable, ToMachine, ToSupervisor
  <2>2. SupervisorTakesSti(prog) /\ hart.prv = S
    BY <1>1, <1>4, <2>1 DEF StiOK, StiWhere, SupervisorTakesSti, SpinningTest, U, S, M
  <2>3. Trap(hart, Interrupt(i)) = EnterS(hart, Interrupt(i))
    BY <1>2, <1>3, <1>4, <2>2 DEF Trap, Delegated, S, M
  <2>. QED  BY <1>h, <1>2, <2>2, <2>3 DEF EnterS, Harts, StiOK, StiWhere, U, S
<1>5. CASE STI \notin prog.mideleg
  <2>1. hart.prv # M \/ "MIE" \in hart.on
    BY <1>2, <1>5 DEF Takeable, ToMachine, ToSupervisor
  <2>2. MachineTakesSti(prog)
    BY <1>1, <1>5, <2>1
       DEF StiOK, StiWhere, SupervisorTakesSti, MachineTakesSti, SpinningTest
  <2>3. Trap(hart, Interrupt(i)) = EnterM(hart, Interrupt(i))
    BY <1>2, <1>3, <1>5 DEF Trap, Delegated
  <2>. QED  BY <1>h, <1>2, <2>2, <2>3 DEF EnterM, Harts, StiOK, StiWhere
<1>. QED  BY <1>4, <1>5

LEMMA StiStep ==
    ASSUME TypeOK, SpinningTest(prog), StiOK(prog, hart), Next
    PROVE  StiOK(prog, hart')
<1>. USE DEF TypeOK
<1>p. prog \in ProgramType
  BY ProgramsAssumption
<1>w. \/ hart.pc = "kmain"
      \/ hart.pc \in {"kmain_mret", "supervisor_test_func", "machine_trap", "machine_spin",
                      "supervisor_trap", "supervisor_spin"}
  BY DEF StiOK, StiWhere
<1>1. CASE Kmain
  BY <1>1, <1>p DEF Kmain, At, StiOK, StiWhere, SpinningTest, ProgramType, Harts
<1>2. CASE KmainMret
  <2>1. hart.pc = "kmain_mret" /\ hart' = DoMret(hart)
    BY <1>2 DEF KmainMret, At
  <2>2. /\ hart.prv = M /\ hart.on = prog.on /\ hart.mpp = prog.mpp
        /\ hart.mepc = "supervisor_test_func"
        /\ hart.medeleg = {} /\ hart.mideleg = prog.mideleg /\ hart.mie = {STI}
    BY <2>1 DEF StiOK, StiWhere
  <2>3. StiOK(prog, Trap(hart, IllegalInstruction))
    BY <2>2, StiFault
  <2>4. StiOK(prog, Mret(hart))
    BY <1>p, <2>2 DEF Mret, CopyFlag, Harts, StiOK, StiWhere, ProgramType
  <2>. QED  BY <2>1, <2>3, <2>4 DEF DoMret
<1>3. CASE MachineTrapSpin
  BY <1>3 DEF MachineTrapSpin, At, Goto, Harts, StiOK, StiWhere
<1>4. CASE SupervisorTrapSpin
  BY <1>4 DEF SupervisorTrapSpin, At, Goto, Harts, StiOK, StiWhere
<1>5. CASE RefuseFetch
  <2>1. hart.pc # "kmain"
    BY <1>5 DEF RefuseFetch, CanFetch, StiOK, StiWhere
  <2>2. hart.medeleg = {} /\ hart.mideleg = prog.mideleg /\ hart.mie = {STI}
    BY <2>1 DEF StiOK
  <2>. QED  BY <1>5, <2>2, StiFault DEF RefuseFetch
<1>6. CASE TakeInterrupt
  BY <1>6, StiTaken DEF TakeInterrupt
<1>7. CASE Clint
  BY <1>7 DEF Clint, ClintRaises, ClintLowers, TimerExpires, Harts, StiOK, StiWhere
<1>8. ~(KmainReload \/ UserTestFunc \/ SupervisorTestFunc \/ MachineTestFunc)
  BY <1>w DEF KmainReload, UserTestFunc, SupervisorTestFunc, MachineTestFunc, At,
              SpinningTest
<1>9. ~(\/ MachineTrapSoftwareIrq \/ MachineTrapClimb \/ MachineTrapPass
        \/ MachineTrapTimerIrq \/ TrapReload)
  BY <1>w DEF MachineTrapSoftwareIrq, MachineTrapClimb, MachineTrapPass,
              MachineTrapTimerIrq, TrapReload, At, IsSoftwareIrq, IsTimerIrq, IsClimb,
              IsPass, SpinningTest
<1>10. ~(\/ SupervisorTrapEnter \/ SupervisorTrapStore
         \/ SupervisorTrapClimb \/ SupervisorTrapPass)
  BY <1>w DEF SupervisorTrapEnter, SupervisorTrapStore, SupervisorTrapClimb,
              SupervisorTrapPass, At, SpinningTest
<1>. QED
  BY <1>1, <1>2, <1>3, <1>4, <1>5, <1>6, <1>7, <1>8, <1>9, <1>10 DEF Next, Execute

LEMMA StiInvCorrect == Spec => []StiInv
<1>1. Init => StiInv
  BY TypeInit DEF Init, StiInv, SpinningTest, StiOK, ResetHart
<1>2. StiInv /\ [Next]_vars => StiInv'
  <2>. SUFFICES ASSUME StiInv, [Next]_vars PROVE StiInv'
    OBVIOUS
  <2>1. TypeOK'
    BY TypeStep DEF StiInv
  <2>2. CASE Next
    BY <2>1, <2>2, StiStep, OthersStayTyped DEF StiInv
  <2>3. CASE UNCHANGED vars
    BY <2>1, <2>3 DEF StiInv, vars
  <2>. QED  BY <2>2, <2>3
<1>. QED  BY <1>1, <1>2, PTL DEF Spec

-----------------------------------------------------------------------------
(* The timer test.  Its function spins in supervisor mode and nothing is     *)
(* delegated: only the ecall of a libc printf, in kmain's own reload_timer,  *)
(* brings an ecall from machine mode to machine_trap.                        *)

TimerTest(p) ==
    /\ p.timer /\ p.spins /\ ~p.msi
    /\ p.entry = "supervisor_test_func" /\ p.mpp = S /\ "MIE" \notin p.on
    /\ p.medeleg = {} /\ p.mideleg = {}

BackToFunc(h) == h.mpp = S /\ h.mepc = "supervisor_test_func"

\* Where a hart whose printf traps can be, and one whose printf does not.
TrappingPrintf(h) ==
    \/ h.pc = "kmain_reload" /\ h.mie = {}
    \/ /\ h.pc = "machine_trap" /\ h.mcause = EcallFrom(M)
       /\ h.mepc = "kmain_reload" \/ platform.irqMask = "one"
    \/ h.pc = "trap_reload" /\ platform.irqMask = "one"
    \/ h.pc = "pass" /\ h.mepc = "kmain_reload"
    \/ h.pc = "machine_spin"

PlainPrintf(h) ==
    \/ h.pc \in {"kmain_reload", "kmain"} /\ h.mie = {}
    \/ h.pc \in {"kmain_mret", "trap_reload"} /\ BackToFunc(h)
    \/ h.pc = "machine_trap" /\ h.mcause = IllegalInstruction
    \/ /\ h.pc = "machine_trap" /\ BackToFunc(h)
       /\ h.mcause.irq \/ h.mcause = FetchFault
    \/ h.pc = "machine_spin"

TimerOK(h) ==
    /\ h.medeleg = {} /\ h.mideleg = {}
    /\ \/ h.pc = "supervisor_test_func" /\ h.prv = S /\ ~platform.libcEcalls
       \/ /\ h.prv = M /\ (h.mie = {} \/ "MIE" \notin h.on)
          /\ IF platform.libcEcalls THEN TrappingPrintf(h) ELSE PlainPrintf(h)

\* The inductive invariant.
TimerInv == TypeOK /\ (TimerTest(prog) => TimerOK(hart))

\* A trap goes to machine_trap, with its cause and the way back.
LEMMA TimerTrap ==
    ASSUME NEW h \in Harts, h.medeleg = {}, h.mideleg = {}, NEW cause \in Causes
    PROVE  LET g == Trap(h, cause) IN
           /\ g.medeleg = {} /\ g.mideleg = {} /\ g.mie = h.mie
           /\ g.pc = "machine_trap" /\ g.prv = M /\ "MIE" \notin g.on
           /\ g.mcause = cause /\ g.mepc = h.pc /\ g.mpp = h.prv
<1>1. Trap(h, cause) = EnterM(h, cause)
  BY DEF Trap, Delegated
<1>. QED  BY <1>1 DEF EnterM, Harts

LEMMA TimerMret ==
    ASSUME NEW h \in Harts, h.medeleg = {}, h.mideleg = {}, BackToFunc(h),
           ~platform.libcEcalls
    PROVE  TimerOK(DoMret(h))
<1>1. TimerOK(Mret(h))
  BY DEF Mret, Harts, TimerOK, BackToFunc
<1>2. TimerOK(Trap(h, IllegalInstruction))
  BY TimerTrap, CauseTypes DEF TimerOK, PlainPrintf
<1>. QED  BY <1>1, <1>2 DEF DoMret

LEMMA TimerEcall ==
    ASSUME NEW h \in Harts, h.medeleg = {}, h.mideleg = {}, h.prv = M,
           platform.libcEcalls, h.pc = "kmain_reload" \/ platform.irqMask = "one"
    PROVE  TimerOK(Ecall(h))
<1>1. EcallFrom(M) \in Causes
  BY CauseTypes DEF Modes
<1>. QED  BY <1>1, TimerTrap DEF Ecall, TimerOK, TrappingPrintf

LEMMA TimerStep ==
    ASSUME TypeOK, TimerTest(prog), TimerOK(hart), Next
    PROVE  TimerOK(hart')
<1>. USE DEF TypeOK
<1>p. prog \in ProgramType /\ platform' = platform
  BY ProgramsAssumption, OthersStayTyped
<1>d. hart.medeleg = {} /\ hart.mideleg = {}
  BY DEF TimerOK
<1>w. hart.pc \in {"kmain_reload", "kmain", "kmain_mret", "supervisor_test_func",
                   "machine_trap", "trap_reload", "machine_spin", "pass"}
  BY DEF TimerOK, TrappingPrintf, PlainPrintf
<1>c. /\ FetchFault.irq = FALSE /\ IllegalInstruction.irq = FALSE
      /\ EcallFrom(M).irq = FALSE /\ EcallFrom(M).code = 11
      /\ FetchFault.code = 1 /\ IllegalInstruction.code = 2
  BY DEF FetchFault, IllegalInstruction, EcallFrom, Exception, M
<1>1. CASE KmainReload
  <2>1. hart.pc = "kmain_reload" /\ hart.prv = M
    BY <1>1 DEF KmainReload, At, TimerOK
  <2>2. CASE platform.libcEcalls
    BY <1>1, <1>d, <2>1, <2>2, TimerEcall DEF KmainReload
  <2>3. CASE ~platform.libcEcalls
    BY <1>1, <2>1, <2>3 DEF KmainReload, TimerOK, TrappingPrintf, PlainPrintf, Harts
  <2>. QED  BY <2>2, <2>3
<1>2. CASE Kmain
  BY <1>2, <1>p DEF Kmain, At, TimerOK, TrappingPrintf, PlainPrintf, BackToFunc,
                    TimerTest, ProgramType, Harts
<1>3. CASE KmainMret
  <2>1. BackToFunc(hart) /\ ~platform.libcEcalls
    BY <1>3 DEF KmainMret, At, TimerOK, TrappingPrintf, PlainPrintf
  <2>. QED  BY <1>3, <1>d, <2>1, TimerMret DEF KmainMret
<1>4. CASE MachineTrapPass
  <2>1. hart.pc = "machine_trap" /\ hart.mcause = EcallFrom(M) /\ ~IsTimerIrq(hart.mcause)
    BY <1>4 DEF MachineTrapPass, At, IsPass
  <2>2. platform.irqMask # "one"
    BY <1>c, <2>1 DEF IsTimerIrq, TimerTest
  <2>3. platform.libcEcalls
    BY <1>c, <2>1 DEF TimerOK, PlainPrintf
  <2>. QED
    BY <1>4, <2>1, <2>2, <2>3 DEF MachineTrapPass, Goto, TimerOK, TrappingPrintf, Harts
<1>5. CASE MachineTrapTimerIrq
  <2>1. hart.pc = "machine_trap" /\ IsTimerIrq(hart.mcause)
    BY <1>5 DEF MachineTrapTimerIrq, At
  <2>2. CASE platform.libcEcalls
    <3>1. platform.irqMask = "one"
      BY <1>c, <2>1, <2>2 DEF TimerOK, TrappingPrintf, IsTimerIrq
    <3>. QED
      BY <1>5, <2>1, <2>2, <3>1
         DEF MachineTrapTimerIrq, Goto, TimerOK, TrappingPrintf, Harts
  <2>3. CASE ~platform.libcEcalls
    <3>1. hart.mcause # IllegalInstruction
      BY <1>c, <2>1 DEF IsTimerIrq
    <3>. QED
      BY <1>5, <2>1, <2>3, <3>1
         DEF MachineTrapTimerIrq, Goto, TimerOK, PlainPrintf, BackToFunc, Harts
  <2>. QED  BY <2>2, <2>3
<1>6. CASE TrapReload
  <2>1. hart.pc = "trap_reload" /\ hart.prv = M
    BY <1>6 DEF TrapReload, At, TimerOK
  <2>2. CASE platform.libcEcalls
    <3>1. platform.irqMask = "one"
      BY <2>1, <2>2 DEF TimerOK, TrappingPrintf
    <3>. QED  BY <1>6, <1>d, <2>1, <2>2, <3>1, TimerEcall DEF TrapReload
  <2>3. CASE ~platform.libcEcalls
    <3>. DEFINE h == [hart EXCEPT !.mip = hart.mip \ {MTI}]
    <3>1. h \in Harts /\ h.medeleg = {} /\ h.mideleg = {} /\ BackToFunc(h)
      BY <1>d, <2>1, <2>3 DEF TimerOK, PlainPrintf, BackToFunc, Harts
    <3>2. hart' = DoMret(h)
      BY <1>6, <2>3 DEF TrapReload
    <3>. HIDE DEF h
    <3>. QED  BY <2>3, <3>1, <3>2, TimerMret
  <2>. QED  BY <2>2, <2>3
<1>7. CASE MachineTrapSpin
  BY <1>7 DEF MachineTrapSpin, At, Goto, TimerOK, TrappingPrintf, PlainPrintf, Harts
<1>8. CASE RefuseFetch
  <2>1. /\ hart.pc = "supervisor_test_func" /\ hart.prv = S /\ ~platform.libcEcalls
        /\ hart' = Trap(hart, FetchFault)
    BY <1>8 DEF RefuseFetch, CanFetch, TimerOK
  <2>. QED
    BY <1>d, <2>1, TimerTrap, CauseTypes DEF TimerOK, PlainPrintf, BackToFunc
<1>9. CASE TakeInterrupt
  <2>1. PICK i \in Takeable(hart) : hart' = Trap(hart, Interrupt(i))
    BY <1>9 DEF TakeInterrupt
  <2>2. i \in Codes
    BY DEF Takeable, ToMachine, ToSupervisor, Harts
  <2>3. hart.pc = "supervisor_test_func" /\ hart.prv = S /\ ~platform.libcEcalls
    BY DEF Takeable, ToMachine, ToSupervisor, TimerOK, U, S, M
  <2>4. Interrupt(i).irq = TRUE
    BY DEF Interrupt
  <2>. QED
    BY <1>d, <2>1, <2>2, <2>3, <2>4, TimerTrap, CauseTypes
       DEF TimerOK, PlainPrintf, BackToFunc
<1>10. CASE Clint
  <2>1. PICK mip : hart' = [hart EXCEPT !.mip = mip]
    BY <1>10 DEF Clint, ClintRaises, ClintLowers, TimerExpires
  <2>. QED
    BY <2>1 DEF TimerOK, TrappingPrintf, PlainPrintf, BackToFunc, Harts
<1>11. ~(UserTestFunc \/ SupervisorTestFunc \/ MachineTestFunc \/ MachineTrapSoftwareIrq)
  BY <1>w DEF UserTestFunc, SupervisorTestFunc, MachineTestFunc, MachineTrapSoftwareIrq,
              At, IsSoftwareIrq, TimerTest
<1>12. ~MachineTrapClimb
  <2>1. /\ EcallFrom(U).irq = FALSE /\ EcallFrom(S).irq = FALSE
        /\ EcallFrom(U).code = 8 /\ EcallFrom(S).code = 9
    BY DEF EcallFrom, Exception, U, S
  <2>. QED
    BY <1>c, <2>1 DEF MachineTrapClimb, At, IsClimb, TimerOK, TrappingPrintf, PlainPrintf
<1>13. ~(\/ SupervisorTrapSpin \/ SupervisorTrapEnter \/ SupervisorTrapStore
         \/ SupervisorTrapClimb \/ SupervisorTrapPass)
  BY <1>w DEF SupervisorTrapSpin, SupervisorTrapEnter, SupervisorTrapStore,
              SupervisorTrapClimb, SupervisorTrapPass, At
<1>. QED
  BY <1>1, <1>2, <1>3, <1>4, <1>5, <1>6, <1>7, <1>8, <1>9, <1>10, <1>11, <1>12, <1>13
     DEF Next, Execute

LEMMA TimerInvCorrect == Spec => []TimerInv
<1>1. Init => TimerInv
  BY TypeInit DEF Init, TimerInv, TimerTest, TimerOK, TrappingPrintf, PlainPrintf, ResetHart
<1>2. TimerInv /\ [Next]_vars => TimerInv'
  <2>. SUFFICES ASSUME TimerInv, [Next]_vars PROVE TimerInv'
    OBVIOUS
  <2>1. TypeOK'
    BY TypeStep DEF TimerInv
  <2>2. CASE Next
    <3>1. prog' = prog /\ platform' = platform
      BY <2>2, OthersStayTyped DEF TimerInv
    <3>2. TimerTest(prog) => TimerOK(hart')
      BY <2>2, TimerStep DEF TimerInv
    <3>. QED
      BY <2>1, <3>1, <3>2 DEF TimerInv, TimerOK, TrappingPrintf, PlainPrintf
  <2>3. CASE UNCHANGED vars
    BY <2>1, <2>3 DEF TimerInv, TimerOK, TrappingPrintf, PlainPrintf, vars
  <2>. QED  BY <2>2, <2>3
<1>. QED  BY <1>1, <1>2, PTL DEF Spec

-----------------------------------------------------------------------------
(* What follows for the unfinished tests of the repository. *)

LEMMA RepositorySpinningTests ==
    \A p \in UnfinishedPrograms \ {priv_irq_deleg} : SpinningTest(p)
<1>. USE FieldTypes, LadderTestStart, StiTestStart DEF StartsIn, ProgramType
<1>1. SpinningTest(StiTest)
  BY DEF SpinningTest, StiTest, LadderTest
<1>2. SpinningTest(priv_irq_deleg_with_sie_disabled)
  BY <1>1 DEF SpinningTest, priv_irq_deleg_with_sie_disabled
<1>3. SpinningTest(priv_irq_deleg_with_sie_enabled)
  BY <1>1 DEF SpinningTest, priv_irq_deleg_with_sie_enabled
<1>4. SpinningTest(priv_irq_deleg_with_sie_enabled_from_m_mode)
  BY <1>1 DEF SpinningTest, priv_irq_deleg_with_sie_enabled_from_m_mode
<1>5. SpinningTest(priv_irq_deleg_with_mie_enabled_from_m_mode)
  BY <1>1 DEF SpinningTest, priv_irq_deleg_with_mie_enabled_from_m_mode
<1>6. SpinningTest(priv_irq_with_sie_enabled_from_m_mode)
  BY <1>1 DEF SpinningTest, priv_irq_with_sie_enabled_from_m_mode
<1>7. SpinningTest(priv_irq_with_sie_enabled_from_s_mode)
  BY <1>1 DEF SpinningTest, priv_irq_with_sie_enabled_from_s_mode
<1>. QED
  BY <1>2, <1>3, <1>4, <1>5, <1>6, <1>7 DEF UnfinishedPrograms

\* Who can take the supervisor timer interrupt of each test.
LEMMA RepositoryTakesSti ==
    \A p \in UnfinishedPrograms \ {priv_irq_deleg} :
        /\ SupervisorTakesSti(p) => p = priv_irq_deleg_with_sie_enabled
        /\ MachineTakesSti(p) => p = priv_irq_with_sie_enabled_from_s_mode
<1>. USE DEF SupervisorTakesSti, MachineTakesSti
<1>1. /\ DOMAIN StiTest = DOMAIN LadderTest /\ {"on", "mpp", "mideleg"} \subseteq DOMAIN StiTest
      /\ StiTest.mideleg = {} /\ StiTest.mpp = S /\ S # M
      /\ "SIE" \notin MIE_and_MPIE /\ {"MIE", "MPIE"} \cap SIE_and_SPIE = {}
  <2>1. DOMAIN StiTest = DOMAIN LadderTest
    BY DEF StiTest
  <2>2. {"on", "mpp", "mideleg"} \subseteq DOMAIN LadderTest /\ LadderTest.mideleg = {}
    BY DEF LadderTest
  <2>3. StiTest.mideleg = {} /\ StiTest.mpp = S
    BY <2>2 DEF StiTest
  <2>. QED  BY <2>1, <2>2, <2>3 DEF S, M, MIE_and_MPIE, SIE_and_SPIE
<1>2. LET p == priv_irq_deleg_with_sie_disabled
      IN  ~SupervisorTakesSti(p) /\ ~MachineTakesSti(p)
  BY <1>1 DEF priv_irq_deleg_with_sie_disabled
<1>3. ~MachineTakesSti(priv_irq_deleg_with_sie_enabled)
  BY <1>1 DEF priv_irq_deleg_with_sie_enabled
<1>4. LET p == priv_irq_deleg_with_sie_enabled_from_m_mode
      IN  ~SupervisorTakesSti(p) /\ ~MachineTakesSti(p)
  BY <1>1 DEF priv_irq_deleg_with_sie_enabled_from_m_mode
<1>5. LET p == priv_irq_deleg_with_mie_enabled_from_m_mode
      IN  ~SupervisorTakesSti(p) /\ ~MachineTakesSti(p)
  BY <1>1 DEF priv_irq_deleg_with_mie_enabled_from_m_mode
<1>6. LET p == priv_irq_with_sie_enabled_from_m_mode
      IN  ~SupervisorTakesSti(p) /\ ~MachineTakesSti(p)
  BY <1>1 DEF priv_irq_with_sie_enabled_from_m_mode
<1>7. ~SupervisorTakesSti(priv_irq_with_sie_enabled_from_s_mode)
  BY <1>1 DEF priv_irq_with_sie_enabled_from_s_mode
<1>. QED
  BY <1>2, <1>3, <1>4, <1>5, <1>6, <1>7 DEF UnfinishedPrograms

LEMMA RepositoryStiTests ==
    ASSUME Programs \subseteq AllPrograms
    PROVE  StiTests \subseteq UnfinishedPrograms \ {priv_irq_deleg}
<1>1. /\ priv_privileged_levels.mip = {} /\ priv_privileged_levels2.mip = {}
      /\ priv_deleg.mip = {} /\ priv_nested_deleg_ecall_irq.mip = {}
      /\ priv_irq_deleg.mip = {}
  BY DEF priv_privileged_levels, priv_privileged_levels2, priv_deleg,
         priv_nested_deleg_ecall_irq, priv_irq_deleg, LadderTest
<1>2. \A p \in AllPrograms : p.mip # {} => p \in UnfinishedPrograms \ {priv_irq_deleg}
  BY <1>1 DEF AllPrograms, EnabledPrograms
<1>. QED  BY <1>2 DEF StiTests

LEMMA RepositoryTimerTests ==
    \A p \in AllPrograms : p.timer => TimerTest(p)
<1>1. TimerTest(priv_irq_deleg)
  BY DEF TimerTest, priv_irq_deleg, LadderTest
<1>2. /\ ~priv_privileged_levels.timer /\ ~priv_privileged_levels2.timer
      /\ ~priv_deleg.timer /\ ~priv_nested_deleg_ecall_irq.timer
  BY DEF priv_privileged_levels, priv_privileged_levels2, priv_deleg,
         priv_nested_deleg_ecall_irq, LadderTest
<1>3. \A p \in UnfinishedPrograms \ {priv_irq_deleg} : ~p.timer
  BY RepositorySpinningTests DEF SpinningTest
<1>. QED  BY <1>1, <1>2, <1>3 DEF AllPrograms, EnabledPrograms

\* Whatever a test delegates and whatever flags it sets: supervisor_trap is entered
\* only where STI is delegated and SIE on in supervisor mode, and machine_trap for an
\* interrupt only where it is not delegated and machine mode is below or lets it in.
THEOREM StiGoesWhereDelegated ==
    Spec => [](SpinningTest(prog) =>
                  /\ hart.pc \in {"supervisor_trap", "supervisor_spin"} =>
                         SupervisorTakesSti(prog)
                  /\ hart.pc \in {"machine_trap", "machine_spin"} /\ hart.mcause.irq =>
                         MachineTakesSti(prog))
<1>. DEFINE Goes == SpinningTest(prog) =>
                       /\ hart.pc \in {"supervisor_trap", "supervisor_spin"} =>
                              SupervisorTakesSti(prog)
                       /\ hart.pc \in {"machine_trap", "machine_spin"} /\ hart.mcause.irq =>
                              MachineTakesSti(prog)
<1>1. StiInv => Goes
  BY DEF StiInv, StiOK, StiWhere
<1>. QED  BY <1>1, StiInvCorrect, PTL

\* In each supervisor timer interrupt test of the repository the interrupt goes
\* to the handler the test is named for, or nowhere.
THEOREM RepositoryStiGoesWhereTested ==
    ASSUME Programs \subseteq AllPrograms
    PROVE  Spec => []StiGoesWhereTested
<1>1. StiInv => StiGoesWhereTested
  <2>. SUFFICES ASSUME StiInv, prog \in StiTests PROVE StiGoesWhereTested
    BY DEF StiGoesWhereTested
  <2>1. prog \in UnfinishedPrograms \ {priv_irq_deleg}
    BY RepositoryStiTests
  <2>2. StiOK(prog, hart)
    BY <2>1, RepositorySpinningTests DEF StiInv
  <2>3. /\ hart.pc \in {"supervisor_trap", "supervisor_spin"} => SupervisorTakesSti(prog)
        /\ hart.pc \in {"machine_trap", "machine_spin"} /\ hart.mcause.irq
               => MachineTakesSti(prog)
    BY <2>2 DEF StiOK, StiWhere
  <2>. QED  BY <2>1, <2>3, RepositoryTakesSti DEF StiGoesWhereTested
<1>. QED  BY <1>1, StiInvCorrect, PTL

\* None of the unfinished tests passes, but for the timer test on a libc whose
\* printf is an ecall, and then kmain's own printf is what passes.
THEOREM RepositoryUnfinishedNeverPass ==
    ASSUME Programs \subseteq AllPrograms
    PROVE  Spec => []UnfinishedTestsNeverPass
<1>1. StiInv /\ TimerInv => UnfinishedTestsNeverPass
  <2>. SUFFICES ASSUME StiInv, TimerInv, prog.timer \/ prog \in StiTests, hart.pc = "pass"
                PROVE  prog.timer /\ platform.libcEcalls /\ hart.mepc = "kmain_reload"
    BY DEF UnfinishedTestsNeverPass
  <2>1. prog \notin StiTests
    <3>1. ASSUME prog \in StiTests PROVE StiOK(prog, hart)
      BY <3>1, RepositoryStiTests, RepositorySpinningTests DEF StiInv
    <3>. QED  BY <3>1 DEF StiOK, StiWhere
  <2>2. TimerOK(hart)
    BY <2>1, RepositoryTimerTests DEF TimerInv, TypeOK
  <2>. QED  BY <2>1, <2>2 DEF TimerOK, TrappingPrintf, PlainPrintf
<1>. QED  BY <1>1, StiInvCorrect, TimerInvCorrect, PTL

=============================================================================
