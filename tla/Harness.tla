------------------------------- MODULE Harness -------------------------------
(***************************************************************************)
(* The scripts around the tests: build_qemu_tests.sh runs every test under  *)
(* QEMU, driven by gdb to the breakpoint at pass(), and keeps the register  *)
(* states up to there; build_riscv_em_tests.sh runs every test under        *)
(* riscv_em and compares.  QEMU runs beside the script: the script starts   *)
(* and kills it without asking, and only sleeps stand for its answers.      *)
(***************************************************************************)
EXTENDS Naturals

CONSTANTS NumTests,        \* the tests of tests.sh, by their position
          FaultSets,       \* what may go wrong, see Faults
          MaxInterrupts    \* how often somebody stops build_qemu_tests.sh

Tests == 1 .. NumTests

\*   no_qemu      QEMU does not run here
\*   build_fails  a test may not compile
\*   slow_start   QEMU may take longer than the first sleep
\*   slow_run     QEMU may not get through pass() before it is killed
\*   slow_kill    QEMU may take longer than the second sleep to be gone
\*   interrupt    the script may be stopped; it is then run again
Faults == {"no_qemu", "build_fails", "slow_start", "slow_run", "slow_kill", "interrupt"}

ASSUME NumTestsAssumption == NumTests \in Nat \ {0}
ASSUME FaultSetsAssumption == FaultSets \subseteq SUBSET Faults
ASSUME MaxInterruptsAssumption == MaxInterrupts \in Nat

VARIABLES faults,      \* what may go wrong in this behaviour
          hits,        \* <<t, b>>: test t, run from its start, gets to b's pass()
          pc,          \* the command the script is at
          i,           \* the test it is at
          built,       \* the tests up to here are compiled
          qemus,       \* the QEMU processes
          trace,       \* the file traces/..., by test
          states,      \* the file register_states/..._states.txt, by test
          done,        \* the file done
          interrupts,  \* how often the script has been stopped
          result,      \* what build_riscv_em_tests.sh says of each test
          exitCode     \* EXIT_CODE

vars == <<faults, hits, pc, i, built, qemus, trace, states, done, interrupts,
          result, exitCode>>

\* A QEMU process: the run of the script that started it, its test, whether it has
\* executed nothing before gdb came, and its state; it has the port from listening on.
\* gdb is connected to one that is attached, or astray: that never meets gdb's breakpoint.
Qemus == [run : 0 .. MaxInterrupts, test : Tests, fresh : BOOLEAN,
          state : {"starting", "listening", "attached", "astray", "free", "dying"}]

\* What the files hold, as far as the scripts' outcome depends on it: a run of the
\* test not up to pass(), a run through pass(), a file two runs wrote to.
Traces == {"none", "empty", "short", "pass", "garbled"}
States == {"none", "empty", "toPass", "other"}

QemuScript == {"build", "start", "sleep_start", "gdb", "continue", "kill",
               "sleep_kill", "convert", "touch"}
Pcs == QemuScript \cup {"check", "em_build", "em", "end"}

TypeOK ==
    /\ faults \in FaultSets /\ hits \subseteq Tests \X Tests
    /\ pc \in Pcs /\ i \in Tests
    /\ built \in 0 .. NumTests
    /\ qemus \subseteq Qemus
    /\ trace \in [Tests -> Traces] /\ states \in [Tests -> States]
    /\ done \in BOOLEAN
    /\ interrupts \in 0 .. MaxInterrupts
    /\ result \in [Tests -> {"none", "SUCCESS", "ERROR"}]
    /\ exitCode \in {0, 1}

Init ==
    /\ faults \in FaultSets /\ hits \in SUBSET (Tests \X Tests)
    /\ pc = "check" /\ i = 1 /\ built = 0
    /\ qemus = {} /\ trace = [t \in Tests |-> "none"]
    /\ states = [t \in Tests |-> "none"] /\ done = FALSE
    /\ interrupts = 0
    /\ result = [t \in Tests |-> "none"] /\ exitCode = 0

Environment == <<faults, hits, interrupts>>
EmFiles == <<result, exitCode>>

\* The next round of a loop, or what comes after it.
Loop(again, after) ==
    IF i < NumTests THEN pc' = again /\ i' = i + 1 ELSE pc' = after /\ i' = 1

-----------------------------------------------------------------------------
(* build_qemu_tests.sh *)

CheckDone ==
    /\ pc = "check"
    /\ pc' = IF done THEN "em_build" ELSE "build"
    /\ UNCHANGED <<Environment, i, built, qemus, trace, states, done, EmFiles>>

\* build_riscv_tests.sh stops at the first test that does not compile; its exit
\* status is not looked at.  When all have compiled it leaves a file of its own named
\* done, and does nothing from then on.
Build ==
    /\ pc = "build"
    /\ built' \in IF "build_fails" \in faults THEN built .. NumTests ELSE {NumTests}
    /\ pc' = "start"
    /\ UNCHANGED <<Environment, i, qemus, trace, states, done, EmFiles>>

\* qemu-system-riscv ... -s -S 2> trace &
StartQemu ==
    /\ pc = "start"
    /\ trace' = [trace EXCEPT ![i] = "empty"]
    /\ qemus' = qemus \cup
           {[run |-> interrupts, test |-> i, fresh |-> TRUE, state |-> "starting"]}
    /\ pc' = "sleep_start"
    /\ UNCHANGED <<Environment, i, built, states, done, EmFiles>>

InState(s) == {q \in qemus : q.state = s}
WithGdb == InState("attached") \cup InState("astray")

SleepStartNot ==                \* a variant with a mistake: the sleep is gone
    /\ pc = "sleep_start"
    /\ pc' = "gdb"
    /\ UNCHANGED <<Environment, i, built, qemus, trace, states, done, EmFiles>>

SleepStart ==
    /\ pc = "sleep_start"
    /\ "slow_start" \in faults \/ InState("starting") = {}
    /\ pc' = "gdb"
    /\ UNCHANGED <<Environment, i, built, qemus, trace, states, done, EmFiles>>

\* gdb connects to whoever has the port and lets it run to pass() of the script's test;
\* a QEMU that has run before may be anywhere.  Without anybody all its commands fail.
GdbConnects ==
    /\ pc = "gdb"
    /\ \E q \in InState("listening") \cup InState("free") :
       LET fresh == q.fresh /\ q.state = "listening" IN
       \E hit \in (IF fresh THEN {(<<q.test, i>> \in hits)} ELSE BOOLEAN) :
           qemus' = (qemus \ {q}) \cup
               {[q EXCEPT !.state = IF hit THEN "attached" ELSE "astray", !.fresh = fresh]}
    /\ pc' = "continue"
    /\ UNCHANGED <<Environment, i, built, trace, states, done, EmFiles>>

GdbFindsNobody ==
    /\ pc = "gdb"
    /\ InState("listening") \cup InState("free") = {}
    /\ pc' = "kill"
    /\ UNCHANGED <<Environment, i, built, qemus, trace, states, done, EmFiles>>

\* The breakpoint is hit, and gdb quits.
GdbBreaks ==
    /\ pc = "continue"
    /\ \E q \in InState("attached") :
           /\ qemus' = (qemus \ {q}) \cup {[q EXCEPT !.state = "free"]}
           /\ trace' = [trace EXCEPT ![q.test] = IF q.fresh THEN "short" ELSE "garbled"]
    /\ pc' = "kill"
    /\ UNCHANGED <<Environment, i, built, states, done, EmFiles>>

\* The processes that are about to log the line of their pass().
BeforePass ==
    {q \in InState("free") :
        q.fresh /\ trace[q.test] = "short" /\ <<q.test, q.test>> \in hits}

KillNot ==                      \* a variant with a mistake: the name does not match
    /\ pc = "kill"
    /\ "slow_run" \in faults \/ BeforePass = {}
    /\ pc' = "sleep_kill"
    /\ UNCHANGED <<Environment, i, built, qemus, trace, states, done, EmFiles>>

\* kill -9 $(pgrep ...) kills every QEMU; one that is just starting may be missed.
Kill ==
    /\ pc = "kill"
    /\ "slow_run" \in faults \/ BeforePass = {}
    /\ \E missed \in SUBSET InState("starting") :
           qemus' = missed \cup {[q EXCEPT !.state = "dying"] : q \in qemus \ missed}
    /\ pc' = "sleep_kill"
    /\ UNCHANGED <<Environment, i, built, trace, states, done, EmFiles>>

SleepKill ==
    /\ pc = "sleep_kill"
    /\ "slow_kill" \in faults \/ InState("dying") = {}
    /\ Loop("start", "convert")
    /\ UNCHANGED <<Environment, built, qemus, trace, states, done, EmFiles>>

\* What convert_qemu_output.sh and the cut at the first line of pass() leave: without
\* such a line last_line_number is 1, and sed deletes the whole file.
Converted(t) ==
    CASE t \in {"none", "empty", "short"} -> {"empty"}
      [] t = "pass" -> {"toPass"}
      [] t = "garbled" -> {"empty", "other"}

ConvertTouchesDone ==           \* a variant with a mistake: touch inside the loop
    /\ pc = "convert"
    /\ \E s \in Converted(trace[i]) : states' = [states EXCEPT ![i] = s]
    /\ done' = TRUE
    /\ Loop("convert", "touch")
    /\ UNCHANGED <<Environment, built, qemus, trace, EmFiles>>

Convert ==
    /\ pc = "convert"
    /\ \E s \in Converted(trace[i]) : states' = [states EXCEPT ![i] = s]
    /\ Loop("convert", "touch")
    /\ UNCHANGED <<Environment, built, qemus, trace, done, EmFiles>>

TouchDone ==
    /\ pc = "touch"
    /\ done' = TRUE
    /\ pc' = "em_build"
    /\ UNCHANGED <<Environment, i, built, qemus, trace, states, EmFiles>>

WithoutGdb(q) ==
    IF q \in WithGdb THEN [q EXCEPT !.state = "free", !.fresh = FALSE] ELSE q

\* Somebody stops the script, and gdb with it, and runs it again; QEMU, in the
\* background, does not see the signal.
Interrupt ==
    /\ "interrupt" \in faults /\ interrupts < MaxInterrupts
    /\ pc \in QemuScript
    /\ interrupts' = interrupts + 1
    /\ pc' = "check" /\ i' = 1
    /\ qemus' = {WithoutGdb(q) : q \in qemus}
    /\ UNCHANGED <<faults, hits, built, trace, states, done, EmFiles>>

-----------------------------------------------------------------------------
(* QEMU *)

HasPort(q) == q.state # "starting"

QemuListens ==
    /\ \E q \in InState("starting") :
           qemus' = (qemus \ {q}) \cup
               (IF "no_qemu" \in faults \/ q.test > built \/ \E o \in qemus : HasPort(o)
                THEN {} ELSE {[q EXCEPT !.state = "listening"]})
    /\ UNCHANGED <<Environment, pc, i, built, trace, states, done, EmFiles>>

\* Without gdb QEMU runs on, past pass() if it gets there.
QemuRunsFree ==
    /\ \/ \E q \in BeforePass : trace' = [trace EXCEPT ![q.test] = "pass"]
       \/ \E q \in InState("free") :
              ~q.fresh /\ trace' = [trace EXCEPT ![q.test] = "garbled"]
    /\ UNCHANGED <<Environment, pc, i, built, qemus, states, done, EmFiles>>

QemuIsGone ==
    /\ \E q \in InState("dying") : qemus' = qemus \ {q}
    /\ UNCHANGED <<Environment, pc, i, built, trace, states, done, EmFiles>>

-----------------------------------------------------------------------------
(* build_riscv_em_tests.sh, run when the other script has ended *)

\* build_riscv_tests.sh again; with set -e a test that does not compile ends the script.
EmBuild ==
    /\ pc = "em_build"
    /\ \/ pc' = "em" /\ UNCHANGED exitCode
       \/ /\ "build_fails" \in faults /\ built < NumTests
          /\ pc' = "end" /\ exitCode' = 1
    /\ UNCHANGED <<Environment, i, built, qemus, trace, states, done, result>>

EmTestForgets ==                \* a variant with a mistake: EXIT_CODE is the last result
    /\ pc = "em"
    /\ \E em \in {"empty", "toPass", "other"} :
           LET same == em = states[i] /\ em # "other" IN
           /\ result' = [result EXCEPT ![i] = IF same THEN "SUCCESS" ELSE "ERROR"]
           /\ exitCode' = IF same THEN 0 ELSE 1
    /\ Loop("em", "end")
    /\ UNCHANGED <<Environment, built, qemus, trace, states, done>>

EmTestCounts ==                 \* a variant with a mistake: EXIT_CODE counts
    /\ pc = "em"
    /\ \E em \in {"empty", "toPass", "other"} :
           LET same == em = states[i] /\ em # "other" IN
           /\ result' = [result EXCEPT ![i] = IF same THEN "SUCCESS" ELSE "ERROR"]
           /\ exitCode' = IF same THEN exitCode ELSE exitCode + 1
    /\ Loop("em", "end")
    /\ UNCHANGED <<Environment, built, qemus, trace, states, done>>

\* riscv_em runs the test to pass() like QEMU, or differently, or not at all; its
\* states are compared with QEMU's file.
EmTest ==
    /\ pc = "em"
    /\ \E em \in {"empty", "toPass", "other"} :
           LET same == em = states[i] /\ em # "other" IN
           /\ result' = [result EXCEPT ![i] = IF same THEN "SUCCESS" ELSE "ERROR"]
           /\ exitCode' = IF same THEN exitCode ELSE 1
    /\ Loop("em", "end")
    /\ UNCHANGED <<Environment, built, qemus, trace, states, done>>

-----------------------------------------------------------------------------
Script ==
    \/ CheckDone \/ Build \/ StartQemu \/ SleepStart \/ GdbConnects \/ GdbFindsNobody
    \/ GdbBreaks \/ Kill \/ SleepKill \/ Convert \/ TouchDone \/ EmBuild \/ EmTest

Next == Script \/ Interrupt \/ QemuListens \/ QemuRunsFree \/ QemuIsGone

\* The script's commands and QEMU's processes are executed.
Fairness ==
    /\ WF_vars(Script) /\ WF_vars(QemuListens)
    /\ WF_vars(QemuRunsFree) /\ WF_vars(QemuIsGone)

Spec == Init /\ [][Next]_vars

FairSpec == Spec /\ Fairness

-----------------------------------------------------------------------------
(* Properties *)

\* done stands for a file of register states of every test: an interrupted script is
\* not taken for a finished one, whatever else goes wrong.
DoneMeansAllConverted == done => \A t \in Tests : states[t] # "none"

\* If nothing goes wrong, every file ends at pass() of its test.
CleanRunIsComplete == done /\ faults = {} => \A t \in Tests : states[t] = "toPass"

\* gdb talks to the QEMU of the test whose breakpoint it sets: no process of an
\* earlier test keeps the port.  The sleep before gdb and the kill see to that as
\* long as QEMU starts in time and the script is not stopped: a late QEMU is missed by
\* the kill, and one of a stopped script waits for the first gdb of the next.
PeerIsOwn ==
    faults \cap {"slow_start", "interrupt"} = {} =>
        \A q \in WithGdb : pc = "continue" /\ q.test = i

\* The exit status of build_riscv_em_tests.sh tells of an error in any test.
FailureIsNotForgotten ==
    pc = "end" => ((\E t \in Tests : result[t] = "ERROR") => exitCode = 1)

\* Both scripts end when every test gets to its pass() and gdb meets its own QEMU, or
\* none: a missed connection costs a trace and not the run.
ScriptsEnd ==
    /\ \A t \in Tests : <<t, t>> \in hits
    /\ faults \cap {"slow_start", "interrupt"} = {}
    => <>(pc = "end")

\* The breakpoint at pass() is there "to check if the test reaches the end": a test of
\* which build_riscv_em_tests.sh says SUCCESS has got to pass() under QEMU.
SuccessMeansPass == \A t \in Tests : result[t] = "SUCCESS" => states[t] = "toPass"

=============================================================================
