-------------------------- MODULE PrivLadderProofs --------------------------
(***************************************************************************)
(* TLAPS proof that the ladder tests implement EcallLadder (its safety      *)
(* part), on every platform.                                                *)
(***************************************************************************)
EXTENDS PrivTestsProofs

LEMMA EcallCauses ==
    \A a, b \in Modes : EcallFrom(a) = EcallFrom(b) => a = b
BY DEF EcallFrom, Exception, Modes, U, S, M

LEMMA LadderInit ==
    ASSUME Init, LadderProgram(prog)
    PROVE  LadderInv
<1>1. ~prog.timer /\ prog \in Programs
  BY DEF Init, LadderProgram
<1>. QED  BY <1>1, TypeInit DEF Init, LadderInv, ResetHart

\* An ecall from a test function enters the handler that the delegation says,
\* with the mode of that function as cause and as mode to return to.
LEMMA EcallEntersLadder ==
    ASSUME NEW h \in Harts, NEW passM \in BOOLEAN,
           h.medeleg = (IF passM THEN {} ELSE {8, 9}),
           h.prv = M => passM
    PROVE  LET t == Ecall(h) IN
           /\ t.mie = h.mie /\ t.medeleg = h.medeleg
           /\ passM => /\ t.pc = "machine_trap" /\ t.prv = M
                       /\ t.mpp = h.prv /\ t.mcause = EcallFrom(h.prv)
           /\ ~passM => /\ t.pc = "supervisor_trap" /\ t.prv = S
                        /\ "SPP" \in t.on <=> h.prv = S
                        /\ t.scause = EcallFrom(h.prv)
<1>1. h.prv \in {U, S, M}
  BY DEF Harts, Modes
<1>2. EcallFrom(h.prv).irq = FALSE /\ EcallFrom(h.prv).code = 8 + h.prv
  BY DEF EcallFrom, Exception
<1>3. CASE passM
  <2>1. ~Delegated(h, EcallFrom(h.prv))
    BY <1>2, <1>3 DEF Delegated
  <2>2. Ecall(h) = EnterM(h, EcallFrom(h.prv))
    BY <2>1 DEF Ecall, Trap
  <2>. QED  BY <1>3, <2>2 DEF EnterM, Harts
<1>4. CASE ~passM
  <2>1. Delegated(h, EcallFrom(h.prv))
    BY <1>1, <1>2, <1>4 DEF Delegated, U, S, M
  <2>2. Ecall(h) = EnterS(h, EcallFrom(h.prv))
    BY <2>1 DEF Ecall, Trap
  <2>. QED  BY <1>1, <1>4, <2>2 DEF EnterS, Harts, CopyFlag, U, S, M
<1>. QED  BY <1>3, <1>4

-----------------------------------------------------------------------------
(* Of the actions of PrivTests only these are enabled in a ladder test.       *)

LadderStep ==
    \/ Kmain \/ KmainMret \/ UserTestFunc \/ SupervisorTestFunc \/ MachineTestFunc
    \/ MachineTrapClimb \/ MachineTrapPass
    \/ SupervisorTrapEnter \/ SupervisorTrapClimb \/ SupervisorTrapPass

\* A cause that machine_trap knows: no ladder test ends in its while(1).
LEMMA LadderTrapKnown ==
    ASSUME LadderInv, LadderProgram(prog), hart.pc = "machine_trap"
    PROVE  IsClimb(hart.mcause) \/ IsPass(hart.mcause)
<1>1. hart.mpp \in {U, S, M} /\ hart.mcause = EcallFrom(hart.mpp) /\ prog.passM
  BY DEF LadderInv, TypeOK, Harts, Modes
<1>2. ~IsSoftwareIrq(hart.mcause) /\ ~IsTimerIrq(hart.mcause) /\ prog.climbs
  BY DEF LadderProgram, IsSoftwareIrq, IsTimerIrq
<1>. QED  BY <1>1, <1>2 DEF IsClimb, IsPass

LEMMA OnlyLadderSteps ==
    ASSUME LadderInv, LadderProgram(prog), Next
    PROVE  LadderStep \/ (hart' = [hart EXCEPT !.mip = hart'.mip] /\ UNCHANGED <<prog, stale>>)
<1>1. ~KmainReload /\ ~TrapReload
  BY DEF LadderInv, KmainReload, TrapReload, At
<1>2. ~MachineTrapSoftwareIrq /\ ~MachineTrapTimerIrq
  BY DEF LadderProgram, MachineTrapSoftwareIrq, MachineTrapTimerIrq,
         IsSoftwareIrq, IsTimerIrq
<1>3. ~MachineTrapSpin
  BY LadderTrapKnown DEF MachineTrapSpin, At
<1>4. ~SupervisorTrapSpin /\ ~RefuseFetch
  BY DEF LadderProgram, SupervisorTrapSpin, RefuseFetch, CanFetch, RamOpen
<1>5. ~TakeInterrupt
  BY DEF LadderInv, TakeInterrupt, Takeable, ToMachine, ToSupervisor
<1>6. ASSUME Clint
      PROVE  hart' = [hart EXCEPT !.mip = hart'.mip] /\ UNCHANGED <<prog, stale>>
  BY <1>6 DEF Clint, ClintRaises, ClintLowers, TimerExpires, LadderInv, TypeOK, Harts
<1>7. ~SupervisorTrapStore
  BY DEF LadderInv, SupervisorTrapStore, At
<1>. QED
  BY <1>1, <1>2, <1>3, <1>4, <1>5, <1>6, <1>7 DEF Next, Execute, LadderStep

-----------------------------------------------------------------------------
(* One lemma per step: the invariant after it and the step of EcallLadder it is. *)

\* The mapped step, with Ladder's definitions expanded.
Stays == LadderTop' = LadderTop /\ LadderRung' = LadderRung /\ LadderPassed' = LadderPassed
Climbs == LadderTop' = LadderTop /\ LadderRung < LadderTop
          /\ LadderRung' = LadderRung + 1 /\ LadderPassed' = LadderPassed
Passes == LadderTop' = LadderTop /\ LadderRung' = LadderRung /\ LadderRung = LadderTop
          /\ ~LadderPassed /\ LadderPassed'

\* A ladder test is one of those the mapping is about.
LEMMA LadderClimbs ==
    ASSUME LadderProgram(prog), prog' = prog
    PROVE  Climber(prog) /\ Climber(prog)'
BY DEF LadderProgram, Climber

LEMMA KmainLadder ==
    ASSUME LadderInv, LadderProgram(prog), Kmain, TypeOK'
    PROVE  LadderInv' /\ Stays
BY DEF LadderInv, LadderProgram, Kmain, At, TypeOK, Harts, Stays, LadderTop,
       LadderRung, LadderPassed

LEMMA KmainMretLadder ==
    ASSUME LadderInv, LadderProgram(prog), KmainMret, TypeOK'
    PROVE  LadderInv' /\ Climbs
<1>1. hart' = Mret(hart) /\ UNCHANGED <<prog, stale>>
  BY DEF KmainMret, DoMret, LadderProgram
<1>2. /\ hart'.pc = "user_test_func" /\ hart'.prv = U
      /\ hart'.mie = hart.mie /\ hart'.medeleg = hart.medeleg
  BY <1>1 DEF Mret, LadderInv, KmainMret, At, TypeOK, Harts
<1>3. hart.pc = "kmain_mret"
  BY DEF KmainMret, At
<1>. QED
  BY LadderClimbs, <1>1, <1>2, <1>3
     DEF LadderInv, Climbs, LadderTop, LadderRung, LadderPassed, TestFuncs, Rung

\* Common to the three test functions.
LEMMA TestFuncLadder ==
    ASSUME LadderInv, LadderProgram(prog), TypeOK', NEW h \in Harts,
           hart.pc \in TestFuncs, h.prv = hart.prv, h.mie = hart.mie,
           h.medeleg = hart.medeleg, hart' = Ecall(h), UNCHANGED <<prog, stale>>
    PROVE  LadderInv' /\ Stays
<1>1. /\ prog.passM \in BOOLEAN /\ hart.prv \in {U, S, M}
      /\ hart.medeleg = prog.medeleg /\ (hart.prv = M => prog.passM)
  BY ProgramsAssumption
     DEF LadderInv, TypeOK, ProgramType, Harts, Modes, TestFuncs, U, S, M
<1>2. h.medeleg = (IF prog.passM THEN {} ELSE {8, 9})
  BY <1>1 DEF LadderProgram
<1>3. /\ hart'.mie = hart.mie /\ hart'.medeleg = hart.medeleg
      /\ prog.passM => /\ hart'.pc = "machine_trap" /\ hart'.prv = M
                       /\ hart'.mpp = hart.prv
                       /\ hart'.mcause = EcallFrom(hart.prv)
      /\ ~prog.passM => /\ hart'.pc = "supervisor_trap" /\ hart'.prv = S
                        /\ "SPP" \in hart'.on <=> hart.prv = S
                        /\ hart'.scause = EcallFrom(hart.prv)
  BY <1>1, <1>2, EcallEntersLadder
<1>4. TrapCameFrom' = hart.prv
  BY <1>1, <1>3 DEF TrapCameFrom, U, S, M
<1>5. LadderInv'
  BY <1>1, <1>3, <1>4 DEF LadderInv
<1>6. Stays
  BY <1>1, <1>3, <1>4 DEF Stays, LadderTop, LadderRung, LadderPassed, TestFuncs
<1>. QED  BY <1>5, <1>6

LEMMA UserMachineFuncLadder ==
    ASSUME LadderInv, LadderProgram(prog), UserTestFunc \/ MachineTestFunc, TypeOK'
    PROVE  LadderInv' /\ Stays
BY TestFuncLadder DEF LadderInv, UserTestFunc, MachineTestFunc, At, TestFuncs, TypeOK

LEMMA SupervisorFuncLadder ==
    ASSUME LadderInv, LadderProgram(prog), SupervisorTestFunc, TypeOK'
    PROVE  LadderInv' /\ Stays
<1>. DEFINE h == WriteSstatus(hart, prog.superOn)
<1>1. /\ h \in Harts /\ h.prv = hart.prv /\ h.mie = hart.mie
      /\ h.medeleg = hart.medeleg
  BY WriteSstatusType, ProgramsAssumption
     DEF LadderInv, TypeOK, ProgramType, WriteSstatus, Harts
<1>2. hart.pc = "supervisor_test_func" /\ hart.prv = S
  BY DEF LadderInv, SupervisorTestFunc, At
<1>3. hart' = Ecall(hart) \/ hart' = Ecall(h)
  BY <1>2 DEF SupervisorTestFunc, U, S
<1>4. UNCHANGED <<prog, stale>> /\ hart \in Harts
  BY DEF SupervisorTestFunc, LadderInv, TypeOK
<1>. HIDE DEF h
<1>. QED  BY <1>1, <1>2, <1>3, <1>4, TestFuncLadder DEF TestFuncs

LEMMA MachineTrapClimbLadder ==
    ASSUME LadderInv, LadderProgram(prog), MachineTrapClimb, TypeOK'
    PROVE  LadderInv' /\ Climbs
<1>. DEFINE h == [hart EXCEPT !.on = prog.climbOn, !.mpp = NextLevel(hart.mcause),
                              !.mepc = NextFunc(hart.mcause)]
<1>1. /\ hart.pc = "machine_trap" /\ hart.prv = M /\ prog.passM
      /\ hart.mcause = EcallFrom(hart.mpp) /\ hart.mpp \in Modes
      /\ hart.mcause \in {EcallFrom(U), EcallFrom(S)}
  BY DEF LadderInv, MachineTrapClimb, At, IsClimb, TypeOK, Harts
<1>2. hart.mpp \in {U, S}
  BY <1>1, EcallCauses DEF Modes
<1>3. hart' = Mret(h) /\ UNCHANGED <<prog, stale>>
  BY DEF MachineTrapClimb, DoMret, LadderProgram
<1>4. /\ h.mpp = NextLevel(hart.mcause) /\ h.mepc = NextFunc(hart.mcause)
      /\ h.mie = hart.mie /\ h.medeleg = hart.medeleg
  BY DEF LadderInv, TypeOK, Harts
<1>5. /\ hart'.prv = NextLevel(hart.mcause) /\ hart'.pc = NextFunc(hart.mcause)
      /\ hart'.mie = hart.mie /\ hart'.medeleg = hart.medeleg
  BY <1>3 DEF Mret, LadderInv, TypeOK, Harts
<1>6. CASE hart.mpp = U
  <2>1. hart'.prv = S /\ hart'.pc = "supervisor_test_func"
    BY <1>1, <1>5, <1>6 DEF NextLevel, NextFunc
  <2>2. LadderInv'
    BY <1>1, <1>3, <1>5, <2>1 DEF LadderInv
  <2>3. LadderRung = 1 /\ LadderRung' = 2
    BY LadderClimbs, <1>3, <1>1, <1>6, <2>1 DEF LadderRung, TrapCameFrom, Rung, TestFuncs, U, S, M
  <2>. QED
    BY <1>1, <1>3, <2>1, <2>2, <2>3 DEF Climbs, LadderTop, LadderPassed
<1>7. CASE hart.mpp = S
  <2>1. hart.mcause # EcallFrom(U)
    BY <1>1, <1>7, EcallCauses DEF Modes, U, S
  <2>2. hart'.prv = M /\ hart'.pc = "machine_test_func"
    BY <1>5, <2>1 DEF NextLevel, NextFunc
  <2>3. LadderInv'
    BY <1>1, <1>3, <1>5, <2>2 DEF LadderInv
  <2>4. LadderRung = 2 /\ LadderRung' = 3
    BY LadderClimbs, <1>3, <1>1, <1>7, <2>2 DEF LadderRung, TrapCameFrom, Rung, TestFuncs, U, S, M
  <2>. QED
    BY <1>1, <1>3, <2>2, <2>3, <2>4 DEF Climbs, LadderTop, LadderPassed
<1>. QED  BY <1>2, <1>6, <1>7

LEMMA MachineTrapPassLadder ==
    ASSUME LadderInv, LadderProgram(prog), MachineTrapPass, TypeOK'
    PROVE  LadderInv' /\ Passes
<1>1. /\ hart.pc = "machine_trap" /\ hart.prv = M /\ prog.passM
      /\ hart.mcause = EcallFrom(hart.mpp) /\ hart.mpp \in Modes
      /\ hart.mcause = EcallFrom(M)
  BY DEF LadderInv, MachineTrapPass, At, IsPass, TypeOK, Harts
<1>2. hart.mpp = M
  BY <1>1, EcallCauses DEF Modes
<1>3. /\ hart'.pc = "pass" /\ hart'.prv = M /\ hart'.mpp = M
      /\ hart'.mie = hart.mie /\ hart'.medeleg = hart.medeleg
      /\ UNCHANGED <<prog, stale>>
  BY <1>1, <1>2 DEF MachineTrapPass, Goto, LadderInv, TypeOK, Harts
<1>4. LadderInv'
  BY <1>1, <1>3 DEF LadderInv
<1>. QED
  BY LadderClimbs, <1>1, <1>2, <1>3, <1>4
     DEF Passes, LadderTop, LadderPassed, LadderRung, TrapCameFrom, TestFuncs, Rung,
         U, S, M

LEMMA SupervisorTrapEnterLadder ==
    ASSUME LadderInv, LadderProgram(prog), SupervisorTrapEnter, TypeOK'
    PROVE  LadderInv' /\ Stays
<1>1. /\ hart.pc = "supervisor_trap" /\ hart.prv = S /\ ~prog.passM
      /\ hart.scause = EcallFrom(TrapCameFrom)
  BY DEF LadderInv, SupervisorTrapEnter, At
<1>2. /\ hart' = [hart EXCEPT !.pc = "supervisor_compare"]
      /\ prog' = prog /\ ~stale'
  BY DEF SupervisorTrapEnter, LadderProgram, Goto
<1>3. /\ hart'.pc = "supervisor_compare" /\ hart'.prv = S
      /\ hart'.scause = hart.scause /\ hart'.on = hart.on /\ hart'.mpp = hart.mpp
      /\ hart'.mie = hart.mie /\ hart'.medeleg = hart.medeleg
  BY <1>1, <1>2 DEF LadderInv, TypeOK, Harts
<1>4. TrapCameFrom' = TrapCameFrom
  BY <1>1, <1>3 DEF TrapCameFrom
<1>5. LadderInv'
  BY <1>1, <1>2, <1>3, <1>4 DEF LadderInv
<1>. QED
  BY <1>1, <1>2, <1>3, <1>4, <1>5
     DEF Stays, LadderTop, LadderPassed, LadderRung, TestFuncs

LEMMA SupervisorTrapClimbLadder ==
    ASSUME LadderInv, LadderProgram(prog), SupervisorTrapClimb, TypeOK'
    PROVE  LadderInv' /\ Climbs
<1>. DEFINE w == WriteSstatus(hart, {"SPP"})
            h == [w EXCEPT !.sepc = "supervisor_test_func"]
<1>1. /\ hart.pc = "supervisor_compare" /\ hart.prv = S /\ ~prog.passM
      /\ hart.scause = EcallFrom(TrapCameFrom) /\ hart.scause = EcallFrom(U)
  BY DEF LadderInv, SupervisorTrapClimb, At
<1>2. TrapCameFrom = U
  <2>1. TrapCameFrom \in Modes
    BY <1>1 DEF TrapCameFrom, Modes, S, M
  <2>. QED  BY <1>1, <2>1, EcallCauses DEF Modes
<1>3. w \in Harts /\ w.mie = hart.mie /\ w.medeleg = hart.medeleg /\ "SPP" \in w.on
  BY WriteSstatusType DEF LadderInv, TypeOK, WriteSstatus, Harts, SFlags
<1>4. hart' = Sret(h) /\ UNCHANGED <<prog, stale>>
  BY DEF SupervisorTrapClimb
<1>. HIDE DEF w
<1>5. /\ hart'.pc = "supervisor_test_func" /\ hart'.prv = S
      /\ hart'.mie = hart.mie /\ hart'.medeleg = hart.medeleg
  BY <1>3, <1>4 DEF Sret, Harts
<1>6. LadderInv'
  BY <1>1, <1>4, <1>5 DEF LadderInv
<1>7. LadderRung = 1 /\ LadderRung' = 2
  BY LadderClimbs, <1>4, <1>1, <1>2, <1>5 DEF LadderRung, Rung, TestFuncs, U, S
<1>. QED  BY <1>1, <1>4, <1>5, <1>6, <1>7 DEF Climbs, LadderTop, LadderPassed

LEMMA SupervisorTrapPassLadder ==
    ASSUME LadderInv, LadderProgram(prog), SupervisorTrapPass, TypeOK'
    PROVE  LadderInv' /\ Passes
<1>1. /\ hart.pc = "supervisor_compare" /\ hart.prv = S /\ ~prog.passM
      /\ hart.scause = EcallFrom(TrapCameFrom) /\ hart.scause # EcallFrom(U)
  BY DEF LadderInv, SupervisorTrapPass, At
<1>2. "SPP" \in hart.on
  BY <1>1 DEF TrapCameFrom, S, M
<1>3. /\ hart'.pc = "pass" /\ hart'.prv = S /\ hart'.on = hart.on
      /\ hart'.mie = hart.mie /\ hart'.medeleg = hart.medeleg
      /\ UNCHANGED <<prog, stale>>
  BY <1>1 DEF SupervisorTrapPass, Goto, LadderInv, TypeOK, Harts
<1>4. LadderInv'
  BY <1>1, <1>2, <1>3 DEF LadderInv
<1>. QED
  BY LadderClimbs, <1>1, <1>2, <1>3, <1>4
     DEF Passes, LadderTop, LadderPassed, LadderRung, TrapCameFrom, TestFuncs, Rung,
         U, S, M

-----------------------------------------------------------------------------
LEMMA HardwareLadder ==
    ASSUME LadderInv, hart' = [hart EXCEPT !.mip = hart'.mip],
           UNCHANGED <<prog, stale>>, TypeOK'
    PROVE  LadderInv' /\ Stays
<1>1. /\ hart'.pc = hart.pc /\ hart'.prv = hart.prv /\ hart'.on = hart.on
      /\ hart'.mpp = hart.mpp /\ hart'.mepc = hart.mepc
      /\ hart'.mcause = hart.mcause /\ hart'.scause = hart.scause
      /\ hart'.mie = hart.mie /\ hart'.medeleg = hart.medeleg
  BY DEF LadderInv, TypeOK, Harts
<1>2. TrapCameFrom' = TrapCameFrom
  BY <1>1 DEF TrapCameFrom
<1>. QED
  BY <1>1, <1>2 DEF LadderInv, Stays, LadderTop, LadderRung, LadderPassed

LEMMA NextLadder ==
    ASSUME LadderInv, LadderProgram(prog), Next
    PROVE  LadderInv' /\ (Stays \/ Climbs \/ Passes)
<1>1. TypeOK'
  BY TypeStep DEF LadderInv
<1>. QED
  BY <1>1, OnlyLadderSteps, HardwareLadder, KmainLadder, KmainMretLadder,
     UserMachineFuncLadder, SupervisorFuncLadder, MachineTrapClimbLadder,
     MachineTrapPassLadder, SupervisorTrapEnterLadder, SupervisorTrapClimbLadder,
     SupervisorTrapPassLadder DEF LadderStep

\* Whatever programs run beside them, on every platform: if the tests that are to
\* climb have the ladder's shape, LadderInv holds of each at every step.
THEOREM LadderAlways ==
    ASSUME \A p \in Programs : Climber(p) => LadderProgram(p)
    PROVE  Spec => [](TypeOK /\ LadderHolds)
<1>1. Init => TypeOK /\ LadderHolds
  <2>. SUFFICES ASSUME Init PROVE TypeOK /\ LadderHolds
    OBVIOUS
  <2>1. Climber(prog) => LadderProgram(prog)
    BY DEF Init
  <2>. QED  BY <2>1, TypeInit, LadderInit DEF LadderHolds
<1>2. TypeOK /\ LadderHolds /\ [Next]_vars => (TypeOK /\ LadderHolds)'
  <2>. SUFFICES ASSUME TypeOK, LadderHolds, [Next]_vars
                PROVE  (TypeOK /\ LadderHolds)'
    OBVIOUS
  <2>1. (Climber(prog) => LadderProgram(prog)) /\ prog' = prog
    BY OthersStayTyped DEF TypeOK, vars
  <2>2. TypeOK'
    BY TypeStep
  <2>3. CASE ~Climber(prog)
    BY <2>1, <2>2, <2>3 DEF LadderHolds
  <2>4. CASE Climber(prog) /\ Next
    BY <2>1, <2>2, <2>4, NextLadder DEF LadderHolds
  <2>5. CASE UNCHANGED vars
    BY <2>2, <2>5 DEF vars, LadderHolds, LadderInv, TrapCameFrom
  <2>. QED  BY <2>3, <2>4, <2>5
<1>. QED  BY <1>1, <1>2, PTL DEF Spec

\* Every test that is to climb does so as EcallLadder says, on every platform: in
\* order, no level skipped or repeated, pass() only from the top.
THEOREM LadderImplemented ==
    ASSUME \A p \in Programs : Climber(p) => LadderProgram(p)
    PROVE  Spec => LadderClimbed
<1>1. Init => Ladder!Init
  <2>. SUFFICES ASSUME Init PROVE Ladder!Init
    OBVIOUS
  <2>1. CASE ~Climber(prog)
    BY <2>1 DEF Init, Ladder!Init, LadderTop, LadderRung, LadderPassed
  <2>2. CASE Climber(prog)
    <3>1. LadderProgram(prog)
      BY <2>2 DEF Init
    <3>2. hart.pc = "kmain"
      BY <2>2 DEF Init, ResetHart, Climber
    <3>. QED
      BY <3>2 DEF Ladder!Init, LadderTop, LadderRung, LadderPassed
  <2>. QED  BY <2>1, <2>2
<1>2. TypeOK /\ LadderHolds /\ [Next]_vars => [Ladder!Next]_Ladder!ladder
  <2>. SUFFICES ASSUME TypeOK, LadderHolds, [Next]_vars
                PROVE  [Ladder!Next]_Ladder!ladder
    OBVIOUS
  <2>1. (Climber(prog) => LadderProgram(prog)) /\ prog' = prog
    BY OthersStayTyped DEF TypeOK, vars
  <2>2. CASE Climber(prog) /\ Next
    <3>1. Stays \/ Climbs \/ Passes
      BY <2>1, <2>2, NextLadder DEF LadderHolds
    <3>. QED
      BY <3>1 DEF Stays, Climbs, Passes, Ladder!Next, Ladder!Climb, Ladder!Pass,
                  Ladder!ladder
  <2>3. CASE ~Climber(prog)
    BY <2>1, <2>3 DEF Ladder!ladder, LadderTop, LadderRung, LadderPassed
  <2>4. CASE UNCHANGED vars
    BY <2>4 DEF vars, Ladder!ladder, LadderTop, LadderRung, LadderPassed, TrapCameFrom
  <2>. QED  BY <2>2, <2>3, <2>4
<1>. QED  BY <1>1, <1>2, LadderAlways, PTL DEF Spec, LadderClimbed, Ladder!Spec

LEMMA EnabledAreLadderPrograms == \A p \in EnabledPrograms : LadderProgram(p)
<1>. USE DEF LadderProgram, LadderTest
<1>1. LadderProgram(priv_privileged_levels)
  BY DEF priv_privileged_levels
<1>2. LadderProgram(priv_privileged_levels2)
  BY DEF priv_privileged_levels2
<1>3. LadderProgram(priv_deleg)
  BY DEF priv_deleg
<1>. QED  BY <1>1, <1>2, <1>3 DEF EnabledPrograms

LEMMA ClimbersAreEnabled ==
    \A p \in AllPrograms : Climber(p) => p \in EnabledPrograms
<1>1. ~Climber(priv_nested_deleg_ecall_irq)
  BY DEF Climber, priv_nested_deleg_ecall_irq, LadderTest
<1>2. ASSUME NEW p \in UnfinishedPrograms PROVE ~Climber(p)
  BY DEF UnfinishedPrograms, Climber, LadderTest, StiTest, priv_irq_deleg,
         priv_irq_deleg_with_sie_disabled, priv_irq_deleg_with_sie_enabled,
         priv_irq_deleg_with_sie_enabled_from_m_mode,
         priv_irq_deleg_with_mie_enabled_from_m_mode,
         priv_irq_with_sie_enabled_from_m_mode,
         priv_irq_with_sie_enabled_from_s_mode
<1>. QED  BY <1>1, <1>2 DEF AllPrograms

\* The repository's programs: the three that are to climb are ladder tests.
THEOREM RepositoryTestsClimb ==
    ASSUME Programs \subseteq AllPrograms
    PROVE  Spec => LadderClimbed
<1>1. \A p \in Programs : Climber(p) => LadderProgram(p)
  BY EnabledAreLadderPrograms, ClimbersAreEnabled
<1>. QED  BY <1>1, LadderImplemented

=============================================================================
