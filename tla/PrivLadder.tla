----------------------------- MODULE PrivLadder -----------------------------
(***************************************************************************)
(* The enabled privilege-level tests implement EcallLadder.                 *)
(***************************************************************************)
EXTENDS PrivTests

\* The tests that are to climb: their traps handle ecalls, no interrupt comes in.
Climber(p) == p.climbs /\ ~p.timer /\ ~p.msi

\* What makes a program a ladder test: it opens RAM in the PMP, uses no
\* interrupt, starts in user mode, and either handles every ecall in
\* machine_trap, which then passes, or delegates those from below it.
LadderProgram(p) ==
    /\ p.pmp /\ p.climbs /\ ~p.spins /\ ~p.timer /\ ~p.msi
    /\ p.mie = {} /\ p.mpp = U /\ p.entry = "user_test_func"
    /\ p.medeleg = IF p.passM THEN {} ELSE {8, 9}

\* The rung of a privilege mode.
Rung(prv) == IF prv = U THEN 1 ELSE IF prv = S THEN 2 ELSE 3

\* A trap handler, and the pass() it calls, is on the rung the trap came from.
TrapCameFrom ==
    IF hart.prv = M THEN hart.mpp
    ELSE IF "SPP" \in hart.on THEN S ELSE U

\* The tests without machine rung are those whose machine_trap never passes.
LadderTop == IF prog.passM THEN 3 ELSE 2

\* The programs that are no climbers promise no ladder: they stay at its foot.
LadderRung ==
    IF ~Climber(prog) \/ hart.pc \in {"kmain", "kmain_mret"} THEN 0
    ELSE IF hart.pc \in TestFuncs THEN Rung(hart.prv)
    ELSE Rung(TrapCameFrom)

LadderPassed == Climber(prog) /\ hart.pc = "pass"

Ladder == INSTANCE EcallLadder
            WITH Tops <- {2, 3}, top <- LadderTop,
                 rung <- LadderRung, passed <- LadderPassed

\* Each enabled test visits user, supervisor and (except priv_deleg) machine
\* mode in this order, one ecall each, and then passes: no level is skipped or
\* run twice by a wrong MPP, SPP or delegation, and no pass() comes early.
LadderClimbed == Ladder!Spec

\* Every enabled test does reach pass(), which the harness waits for (the
\* breakpoint of build_qemu_tests.sh:44): no trap ends in the while(1) of
\* machine_trap and no return goes back to code that has run.
EnabledTestsPass == prog \in EnabledPrograms => <>LadderPassed

\* The inductive invariant behind the refinement: where the hart is determines
\* its privilege mode, and in a trap handler the cause is the ecall of the mode
\* the handler would return to, with the handler being the delegated one.
LadderInv ==
    /\ TypeOK
    /\ hart.mie = {} /\ ~stale
    /\ hart.pc # "kmain" => hart.medeleg = prog.medeleg
    /\ \/ hart.pc = "kmain" /\ hart.prv = M
       \/ /\ hart.pc = "kmain_mret" /\ hart.prv = M
          /\ hart.mpp = U /\ hart.mepc = "user_test_func"
       \/ hart.pc = "user_test_func" /\ hart.prv = U
       \/ hart.pc = "supervisor_test_func" /\ hart.prv = S
       \/ hart.pc = "machine_test_func" /\ hart.prv = M /\ prog.passM
       \/ /\ hart.pc = "machine_trap" /\ hart.prv = M /\ prog.passM
          /\ hart.mcause = EcallFrom(hart.mpp)
       \/ /\ hart.pc \in {"supervisor_trap", "supervisor_compare"}
          /\ hart.prv = S /\ ~prog.passM
          /\ hart.scause = EcallFrom(TrapCameFrom)
       \/ /\ hart.pc = "pass"
          /\ IF prog.passM THEN hart.prv = M /\ hart.mpp = M
                           ELSE hart.prv = S /\ "SPP" \in hart.on

\* It holds of every test that is to climb: a wrong MPP or delegation bit, or a
\* handler entered for another cause, breaks it before any level is skipped.
LadderHolds == Climber(prog) => LadderInv

=============================================================================
