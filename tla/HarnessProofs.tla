---------------------------- MODULE HarnessProofs ----------------------------
(***************************************************************************)
(* TLAPS proofs about Harness: for every number of tests, every set of      *)
(* faults and every number of interruptions, the state is well typed, done  *)
(* is not there too early, no error is forgotten, gdb meets its own QEMU,   *)
(* and a run in which nothing goes wrong keeps every test up to its pass(). *)
(***************************************************************************)
EXTENDS Harness, TLAPS

LEMMA TestNumbers ==
    /\ NumTests \in Nat /\ 1 \in Tests
    /\ \A t \in Tests : t \in Nat /\ 1 <= t /\ t <= NumTests
    /\ \A t \in Tests : t < NumTests => t + 1 \in Tests
BY NumTestsAssumption DEF Tests

LEMMA LoopType ==
    ASSUME i \in Tests, NEW again \in Pcs, NEW after \in Pcs, Loop(again, after)
    PROVE  pc' \in Pcs /\ i' \in Tests
BY TestNumbers DEF Loop

LEMMA ConvertedType ==
    ASSUME NEW t \in Traces, NEW s \in Converted(t)
    PROVE  s \in States /\ s # "none"
BY DEF Traces, States, Converted

LEMMA TypeInit == Init => TypeOK
<1>. SUFFICES ASSUME Init PROVE TypeOK
  OBVIOUS
<1>1. faults \in FaultSets /\ hits \subseteq Tests \X Tests
  BY Zenon DEF Init
<1>2. pc \in Pcs /\ i \in Tests
  BY TestNumbers DEF Init, Pcs, QemuScript
<1>3. built \in 0 .. NumTests /\ interrupts \in 0 .. MaxInterrupts
  BY NumTestsAssumption, MaxInterruptsAssumption, SMT DEF Init
<1>4. qemus \subseteq Qemus
  BY DEF Init
<1>5. trace \in [Tests -> Traces]
  BY DEF Init, Traces
<1>6. states \in [Tests -> States]
  BY DEF Init, States
<1>7. result \in [Tests -> {"none", "SUCCESS", "ERROR"}]
  BY DEF Init
<1>8. done \in BOOLEAN
  BY Zenon DEF Init
<1>9. exitCode \in {0, 1}
  BY DEF Init
<1>. QED  BY <1>1, <1>2, <1>3, <1>4, <1>5, <1>6, <1>7, <1>8, <1>9 DEF TypeOK

\* Changing the state of a process, or whether it has executed anything, keeps its type.
LEMMA QemuType ==
    ASSUME NEW q \in Qemus, NEW f \in BOOLEAN,
           NEW s \in {"starting", "listening", "attached", "astray", "free", "dying"}
    PROVE  /\ [q EXCEPT !.state = s] \in Qemus
           /\ [q EXCEPT !.state = s, !.fresh = f] \in Qemus
BY DEF Qemus

LEMMA TypeStep == TypeOK /\ [Next]_vars => TypeOK'
<1>. SUFFICES ASSUME TypeOK, [Next]_vars PROVE TypeOK'
  OBVIOUS
<1>0. CASE UNCHANGED vars
  BY <1>0 DEF vars, TypeOK
<1>1. CASE CheckDone
  BY <1>1 DEF CheckDone, TypeOK, Environment, EmFiles, Pcs, QemuScript
<1>2. CASE Build
  <2>1. built' \in 0 .. NumTests
    BY <1>2, NumTestsAssumption DEF Build, TypeOK
  <2>. QED  BY <1>2, <2>1 DEF Build, TypeOK, Environment, EmFiles, Pcs, QemuScript
<1>3. CASE StartQemu
  <2>1. [run |-> interrupts, test |-> i, fresh |-> TRUE, state |-> "starting"] \in Qemus
    BY DEF Qemus, TypeOK
  <2>2. qemus' \subseteq Qemus
    BY <1>3, <2>1 DEF StartQemu, TypeOK
  <2>3. trace' \in [Tests -> Traces]
    BY <1>3 DEF StartQemu, TypeOK, Traces
  <2>. QED  BY <1>3, <2>2, <2>3 DEF StartQemu, TypeOK, Environment, EmFiles, Pcs, QemuScript
<1>4. CASE SleepStart
  BY <1>4 DEF SleepStart, TypeOK, Environment, EmFiles, Pcs, QemuScript
<1>5. CASE GdbConnects
  <2>1. PICK q \in qemus, f \in BOOLEAN, hit \in BOOLEAN :
            qemus' = (qemus \ {q}) \cup
                {[q EXCEPT !.state = IF hit THEN "attached" ELSE "astray", !.fresh = f]}
    <3>1. PICK q \in InState("listening") \cup InState("free") :
              LET fresh == q.fresh /\ q.state = "listening" IN
              \E hit \in (IF fresh THEN {(<<q.test, i>> \in hits)} ELSE BOOLEAN) :
                 qemus' = (qemus \ {q}) \cup
                   {[q EXCEPT !.state = IF hit THEN "attached" ELSE "astray", !.fresh = fresh]}
      BY <1>5 DEF GdbConnects
    <3>2. q \in qemus /\ (q.fresh /\ q.state = "listening") \in BOOLEAN
      BY DEF InState
    <3>. QED  BY <3>1, <3>2
  <2>2. [q EXCEPT !.state = IF hit THEN "attached" ELSE "astray", !.fresh = f] \in Qemus
    BY QemuType DEF TypeOK
  <2>3. qemus' \subseteq Qemus
    BY <2>1, <2>2 DEF TypeOK
  <2>. QED  BY <1>5, <2>3 DEF GdbConnects, TypeOK, Environment, EmFiles, Pcs, QemuScript
<1>6. CASE GdbFindsNobody
  BY <1>6 DEF GdbFindsNobody, TypeOK, Environment, EmFiles, Pcs, QemuScript
<1>7. CASE GdbBreaks
  <2>1. PICK q \in qemus :
            /\ qemus' = (qemus \ {q}) \cup {[q EXCEPT !.state = "free"]}
            /\ trace' = [trace EXCEPT ![q.test] = IF q.fresh THEN "short" ELSE "garbled"]
    BY <1>7 DEF GdbBreaks, InState
  <2>2. qemus' \subseteq Qemus
    BY <2>1, QemuType DEF TypeOK
  <2>3. trace' \in [Tests -> Traces]
    BY <2>1 DEF TypeOK, Traces
  <2>. QED  BY <1>7, <2>2, <2>3 DEF GdbBreaks, TypeOK, Environment, EmFiles, Pcs, QemuScript
<1>8. CASE Kill
  <2>1. qemus' \subseteq Qemus
    BY <1>8, QemuType DEF Kill, TypeOK, InState
  <2>. QED  BY <1>8, <2>1 DEF Kill, TypeOK, Environment, EmFiles, Pcs, QemuScript
<1>9. CASE SleepKill
  <2>1. pc' \in Pcs /\ i' \in Tests
    BY <1>9, LoopType DEF SleepKill, TypeOK, Pcs, QemuScript
  <2>. QED  BY <1>9, <2>1 DEF SleepKill, TypeOK, Environment, EmFiles
<1>10. CASE Convert
  <2>1. pc' \in Pcs /\ i' \in Tests
    BY <1>10, LoopType DEF Convert, TypeOK, Pcs, QemuScript
  <2>2. states' \in [Tests -> States]
    BY <1>10, ConvertedType DEF Convert, TypeOK
  <2>. QED  BY <1>10, <2>1, <2>2 DEF Convert, TypeOK, Environment, EmFiles
<1>11. CASE TouchDone
  BY <1>11 DEF TouchDone, TypeOK, Environment, EmFiles, Pcs, QemuScript
<1>12. CASE EmBuild
  BY <1>12 DEF EmBuild, TypeOK, Environment, Pcs
<1>13. CASE EmTest
  <2>1. pc' \in Pcs /\ i' \in Tests
    BY <1>13, LoopType DEF EmTest, TypeOK, Pcs
  <2>2. result' \in [Tests -> {"none", "SUCCESS", "ERROR"}] /\ exitCode' \in {0, 1}
    BY <1>13 DEF EmTest, TypeOK
  <2>. QED  BY <1>13, <2>1, <2>2 DEF EmTest, TypeOK, Environment
<1>14. CASE Interrupt
  <2>1. interrupts' \in 0 .. MaxInterrupts
    BY <1>14, MaxInterruptsAssumption DEF Interrupt, TypeOK
  <2>2. qemus' \subseteq Qemus
    <3>1. \A q \in qemus : WithoutGdb(q) \in Qemus
      BY QemuType DEF WithoutGdb, TypeOK
    <3>. QED  BY <1>14, <3>1 DEF Interrupt
  <2>3. pc' \in Pcs /\ i' \in Tests
    BY <1>14, TestNumbers DEF Interrupt, Pcs, QemuScript
  <2>. QED  BY <1>14, <2>1, <2>2, <2>3 DEF Interrupt, TypeOK, EmFiles
<1>15. CASE QemuListens
  <2>1. PICK q \in qemus :
            qemus' = (qemus \ {q}) \cup
               (IF "no_qemu" \in faults \/ q.test > built \/ \E o \in qemus : HasPort(o)
                THEN {} ELSE {[q EXCEPT !.state = "listening"]})
    BY <1>15 DEF QemuListens, InState
  <2>2. [q EXCEPT !.state = "listening"] \in Qemus
    BY QemuType DEF TypeOK
  <2>3. qemus' \subseteq Qemus
    BY <2>1, <2>2 DEF TypeOK
  <2>. QED  BY <1>15, <2>3 DEF QemuListens, TypeOK, Environment, EmFiles
<1>16. CASE QemuRunsFree
  <2>1. trace' \in [Tests -> Traces]
    BY <1>16 DEF QemuRunsFree, TypeOK, Traces
  <2>. QED  BY <1>16, <2>1 DEF QemuRunsFree, TypeOK, Environment, EmFiles
<1>17. CASE QemuIsGone
  BY <1>17 DEF QemuIsGone, TypeOK, Environment, EmFiles
<1>. QED
  BY <1>0, <1>1, <1>2, <1>3, <1>4, <1>5, <1>6, <1>7, <1>8, <1>9, <1>10, <1>11, <1>12,
     <1>13, <1>14, <1>15, <1>16, <1>17 DEF Next, Script

\* Every file, process and variable is as the scripts and QEMU may leave it.
THEOREM TypeCorrect == Spec => []TypeOK
BY TypeInit, TypeStep, PTL DEF Spec

-----------------------------------------------------------------------------
(* done *)

\* The loop has converted the tests before i; after the loop, all.
DoneInv ==
    /\ pc = "convert" => \A t \in Tests : t < i => states[t] # "none"
    /\ pc = "touch" \/ done => \A t \in Tests : states[t] # "none"

LEMMA DoneStep == TypeOK /\ DoneInv /\ [Next]_vars => DoneInv'
<1>. SUFFICES ASSUME TypeOK, DoneInv, [Next]_vars PROVE DoneInv'
  OBVIOUS
<1>1. CASE SleepKill
  <2>1. i = NumTests => \A t \in Tests : ~(t < 1)
    BY TestNumbers
  <2>. QED  BY <1>1, <2>1, TestNumbers DEF SleepKill, Loop, DoneInv, TypeOK
<1>2. CASE Convert
  <2>1. PICK s \in Converted(trace[i]) : states' = [states EXCEPT ![i] = s]
    BY <1>2 DEF Convert
  <2>2. s # "none"
    BY ConvertedType DEF TypeOK
  <2>3. \A t \in Tests : states'[t] = IF t = i THEN s ELSE states[t]
    BY <2>1 DEF TypeOK
  <2>4. \A t \in Tests : t < i \/ t = i => states'[t] # "none"
    BY <1>2, <2>2, <2>3 DEF Convert, DoneInv
  <2>5. CASE i < NumTests
    <3>1. pc' = "convert" /\ i' = i + 1 /\ done' = done
      BY <1>2, <2>5 DEF Convert, Loop
    <3>2. \A t \in Tests : t < i + 1 => t < i \/ t = i
      BY TestNumbers DEF TypeOK
    <3>3. done => \A t \in Tests : states'[t] # "none"
      BY <2>2, <2>3 DEF DoneInv
    <3>. QED  BY <3>1, <3>2, <3>3, <2>4 DEF DoneInv
  <2>6. CASE ~(i < NumTests)
    <3>1. pc' = "touch"
      BY <1>2, <2>6 DEF Convert, Loop
    <3>2. i \in Tests
      BY DEF TypeOK
    <3>3. \A t \in Tests : t < i \/ t = i
      BY <2>6, <3>2, TestNumbers
    <3>. QED  BY <3>1, <3>3, <2>4 DEF DoneInv
  <2>. QED  BY <2>5, <2>6
<1>3. CASE TouchDone
  BY <1>3 DEF TouchDone, DoneInv
<1>4. CASE EmTest
  BY <1>4 DEF EmTest, Loop, DoneInv
<1>5. CASE CheckDone \/ Build \/ StartQemu \/ SleepStart \/ GdbFindsNobody \/ EmBuild
  BY <1>5 DEF CheckDone, Build, StartQemu, SleepStart, GdbFindsNobody, EmBuild, DoneInv
<1>6. CASE GdbConnects \/ GdbBreaks \/ Kill \/ Interrupt
  <2>1. pc' \in {"continue", "kill", "sleep_kill", "check"} /\ states' = states /\ done' = done
    BY <1>6, Zenon DEF GdbConnects, GdbBreaks, Kill, Interrupt
  <2>. QED  BY <2>1 DEF DoneInv
<1>7. CASE QemuListens \/ QemuRunsFree \/ QemuIsGone \/ UNCHANGED vars
  <2>1. pc' = pc /\ i' = i /\ states' = states /\ done' = done
    BY <1>7, Zenon DEF QemuListens, QemuRunsFree, QemuIsGone, vars
  <2>. QED  BY <2>1 DEF DoneInv
<1>. QED
  BY <1>1, <1>2, <1>3, <1>4, <1>5, <1>6, <1>7 DEF Next, Script

\* done is only there when every test has its file of register states, whatever fails
\* and wherever the script is stopped.
THEOREM DoneAlwaysMeansAllConverted == Spec => []DoneMeansAllConverted
<1>1. Init => DoneInv
  BY DEF Init, DoneInv
<1>2. TypeOK /\ DoneInv /\ [Next]_vars => DoneInv'
  BY DoneStep
<1>3. DoneInv => DoneMeansAllConverted
  BY DEF DoneInv, DoneMeansAllConverted
<1>. QED  BY <1>1, <1>2, <1>3, TypeCorrect, PTL DEF Spec

-----------------------------------------------------------------------------
(* EXIT_CODE *)

ErrorsCounted == \A t \in Tests : result[t] = "ERROR" => exitCode = 1

LEMMA ErrorsCountedStep == TypeOK /\ ErrorsCounted /\ [Next]_vars => ErrorsCounted'
<1>. SUFFICES ASSUME TypeOK, ErrorsCounted, [Next]_vars PROVE ErrorsCounted'
  OBVIOUS
<1>1. CASE EmTest
  BY <1>1 DEF EmTest, ErrorsCounted, TypeOK
<1>2. CASE EmBuild
  BY <1>2 DEF EmBuild, ErrorsCounted
<1>3. CASE \/ CheckDone \/ Build \/ StartQemu \/ SleepStart \/ GdbConnects \/ GdbFindsNobody
           \/ GdbBreaks \/ Kill \/ SleepKill \/ Convert \/ TouchDone \/ Interrupt
  BY <1>3 DEF CheckDone, Build, StartQemu, SleepStart, GdbConnects, GdbFindsNobody,
      GdbBreaks, Kill, SleepKill, Convert, TouchDone, Interrupt, EmFiles, ErrorsCounted
<1>4. CASE QemuListens \/ QemuRunsFree \/ QemuIsGone \/ UNCHANGED vars
  BY <1>4 DEF QemuListens, QemuRunsFree, QemuIsGone, EmFiles, vars, ErrorsCounted
<1>. QED
  BY <1>1, <1>2, <1>3, <1>4 DEF Next, Script

\* An error in any test makes the exit status 1, whatever later tests do.
THEOREM FailureIsNeverForgotten == Spec => []FailureIsNotForgotten
<1>1. Init => ErrorsCounted
  BY DEF Init, ErrorsCounted
<1>2. TypeOK /\ ErrorsCounted /\ [Next]_vars => ErrorsCounted'
  BY ErrorsCountedStep
<1>3. ErrorsCounted => FailureIsNotForgotten
  BY DEF ErrorsCounted, FailureIsNotForgotten
<1>. QED  BY <1>1, <1>2, <1>3, TypeCorrect, PTL DEF Spec

-----------------------------------------------------------------------------
(* gdb and its QEMU *)

\* What a process is after its state, or what it has executed, has changed.
LEMMA QemuFields ==
    ASSUME NEW q \in Qemus, NEW f \in BOOLEAN,
           NEW s \in {"starting", "listening", "attached", "astray", "free", "dying"}
    PROVE  /\ [q EXCEPT !.state = s].state = s
           /\ [q EXCEPT !.state = s].test = q.test
           /\ [q EXCEPT !.state = s].fresh = q.fresh
           /\ [q EXCEPT !.state = s, !.fresh = f].state = s
           /\ [q EXCEPT !.state = s, !.fresh = f].test = q.test
           /\ [q EXCEPT !.state = s, !.fresh = f].fresh = f
BY DEF Qemus

\* At most one process lives, that of the test the script is at; it has started when
\* gdb comes, and gdb is at it only while the script waits for gdb.
OneQemu ==
    /\ \A q \in qemus : q.state # "dying" =>
          q.test = i /\ pc \in {"sleep_start", "gdb", "continue", "kill"}
    /\ \A q \in qemus : q.state = "starting" => pc = "sleep_start"
    /\ \A q \in qemus : q.state \in {"attached", "astray"} => pc = "continue"
    /\ \A q, r \in qemus : q.state # "dying" /\ r.state # "dying" => q = r

PeerInv == faults \cap {"slow_start", "interrupt"} = {} => OneQemu

LEMMA OneQemuStep ==
    ASSUME TypeOK, OneQemu, [Next]_vars, faults \cap {"slow_start", "interrupt"} = {}
    PROVE  OneQemu'
<1>0. qemus \subseteq Qemus /\ i \in Tests /\ interrupts \in 0 .. MaxInterrupts
  BY DEF TypeOK
<1>1. CASE CheckDone \/ Build \/ TouchDone \/ EmBuild
  BY <1>1 DEF CheckDone, Build, TouchDone, EmBuild, OneQemu
<1>2. CASE StartQemu
  <2>. DEFINE n == [run |-> interrupts, test |-> i, fresh |-> TRUE, state |-> "starting"]
  <2>1. qemus' = qemus \cup {n} /\ pc' = "sleep_start" /\ i' = i /\ pc = "start"
    BY <1>2 DEF StartQemu
  <2>2. n.state = "starting" /\ n.test = i
    OBVIOUS
  <2>. HIDE DEF n
  <2>. QED  BY <2>1, <2>2 DEF OneQemu
<1>3. CASE SleepStart
  BY <1>3 DEF SleepStart, OneQemu, InState
<1>4. CASE GdbFindsNobody
  BY <1>4 DEF GdbFindsNobody, OneQemu
<1>5. CASE GdbConnects
  <2>1. PICK q \in InState("listening") \cup InState("free") :
            LET fresh == q.fresh /\ q.state = "listening" IN
            \E hit \in (IF fresh THEN {(<<q.test, i>> \in hits)} ELSE BOOLEAN) :
               qemus' = (qemus \ {q}) \cup
                 {[q EXCEPT !.state = IF hit THEN "attached" ELSE "astray", !.fresh = fresh]}
    BY <1>5 DEF GdbConnects
  <2>2. PICK hit \in BOOLEAN, f \in BOOLEAN :
            qemus' = (qemus \ {q}) \cup
                 {[q EXCEPT !.state = IF hit THEN "attached" ELSE "astray", !.fresh = f]}
    BY <2>1
  <2>3. q \in qemus /\ q.state \in {"listening", "free"}
    BY DEF InState
  <2>. DEFINE r == [q EXCEPT !.state = IF hit THEN "attached" ELSE "astray", !.fresh = f]
  <2>4. /\ qemus' = (qemus \ {q}) \cup {r}
        /\ r.state \in {"attached", "astray"} /\ r.test = q.test
    BY <1>0, <2>2, <2>3, QemuFields
  <2>. HIDE DEF r
  <2>5. pc = "gdb" /\ pc' = "continue" /\ i' = i
    BY <1>5 DEF GdbConnects
  <2>. QED  BY <2>3, <2>4, <2>5 DEF OneQemu
<1>6. CASE GdbBreaks
  <2>1. PICK q \in InState("attached") : qemus' = (qemus \ {q}) \cup {[q EXCEPT !.state = "free"]}
    BY <1>6 DEF GdbBreaks
  <2>2. q \in qemus /\ q.state = "attached"
    BY DEF InState
  <2>. DEFINE r == [q EXCEPT !.state = "free"]
  <2>3. qemus' = (qemus \ {q}) \cup {r} /\ r.state = "free" /\ r.test = q.test
    BY <1>0, <2>1, <2>2, QemuFields
  <2>. HIDE DEF r
  <2>4. pc = "continue" /\ pc' = "kill" /\ i' = i
    BY <1>6 DEF GdbBreaks
  <2>. QED  BY <2>2, <2>3, <2>4 DEF OneQemu
<1>7. CASE Kill
  <2>1. pc = "kill" /\ pc' = "sleep_kill"
    BY <1>7 DEF Kill
  <2>2. InState("starting") = {}
    BY <2>1 DEF OneQemu, InState
  <2>3. \A q \in qemus : [q EXCEPT !.state = "dying"].state = "dying"
    BY <1>0, QemuFields
  <2>4. PICK missed \in SUBSET InState("starting") :
            qemus' = missed \cup {[q EXCEPT !.state = "dying"] : q \in qemus \ missed}
    BY <1>7 DEF Kill
  <2>5. \A r \in qemus' : r.state = "dying"
    BY <2>2, <2>3, <2>4
  <2>. QED  BY <2>5 DEF OneQemu
<1>8. CASE SleepKill \/ Convert \/ EmTest
  <2>1. qemus' = qemus
    BY <1>8, Zenon DEF SleepKill, Convert, EmTest
  <2>2. pc \in {"sleep_kill", "convert", "em"}
    BY <1>8, Zenon DEF SleepKill, Convert, EmTest
  <2>3. \A q \in qemus : q.state = "dying"
    BY <2>2 DEF OneQemu
  <2>. QED  BY <2>1, <2>3 DEF OneQemu
<1>9. CASE Interrupt
  BY <1>9 DEF Interrupt
<1>10. CASE QemuListens
  <2>1. PICK q \in InState("starting") :
            qemus' = (qemus \ {q}) \cup
               (IF "no_qemu" \in faults \/ q.test > built \/ \E o \in qemus : HasPort(o)
                THEN {} ELSE {[q EXCEPT !.state = "listening"]})
    BY <1>10 DEF QemuListens
  <2>2. q \in qemus /\ q.state = "starting"
    BY DEF InState
  <2>. DEFINE r == [q EXCEPT !.state = "listening"]
  <2>3. qemus' \subseteq (qemus \ {q}) \cup {r} /\ r.state = "listening" /\ r.test = q.test
    BY <1>0, <2>1, <2>2, QemuFields
  <2>. HIDE DEF r
  <2>4. pc' = pc /\ i' = i
    BY <1>10 DEF QemuListens
  <2>. QED  BY <2>2, <2>3, <2>4 DEF OneQemu
<1>11. CASE QemuIsGone
  BY <1>11 DEF QemuIsGone, OneQemu
<1>12. CASE QemuRunsFree \/ UNCHANGED vars
  <2>1. pc' = pc /\ i' = i /\ qemus' = qemus
    BY <1>12, Zenon DEF QemuRunsFree, vars
  <2>. QED  BY <2>1 DEF OneQemu
<1>. QED
  BY <1>1, <1>2, <1>3, <1>4, <1>5, <1>6, <1>7, <1>8, <1>9, <1>10, <1>11, <1>12
  DEF Next, Script

LEMMA FaultsStay == [Next]_vars => faults' = faults
BY Zenon DEF Next, Script, vars, Environment, CheckDone, Build, StartQemu, SleepStart,
   GdbConnects, GdbFindsNobody, GdbBreaks, Kill, SleepKill, Convert, TouchDone, EmBuild,
   EmTest, Interrupt, QemuListens, QemuRunsFree, QemuIsGone

\* While QEMU starts in time and the script is not stopped, gdb is never connected to a
\* QEMU of another test, whatever else goes wrong: QEMU absent, tests that do not
\* compile, slow runs, kills that take longer than the sleep.
THEOREM PeerIsAlwaysOwn == Spec => []PeerIsOwn
<1>1. Init => PeerInv
  BY DEF Init, PeerInv, OneQemu
<1>2. TypeOK /\ PeerInv /\ [Next]_vars => PeerInv'
  BY OneQemuStep, FaultsStay DEF PeerInv
<1>3. PeerInv => PeerIsOwn
  BY DEF PeerInv, OneQemu, PeerIsOwn, WithGdb, InState
<1>. QED  BY <1>1, <1>2, <1>3, TypeCorrect, PTL DEF Spec

-----------------------------------------------------------------------------
(* A run in which nothing goes wrong *)

\* The only process is the one of the test the script is at, in one of the states S.
Alone(S) == \E q \in Qemus : qemus = {q} /\ q.test = i /\ q.fresh = TRUE /\ q.state \in S

LoopPcs == {"start", "sleep_start", "gdb", "continue", "kill", "sleep_kill"}

\* How far each command leaves the process and the files of the test it is about.
Clean ==
    /\ pc \in LoopPcs => built = NumTests /\ \A t \in Tests : t < i => trace[t] = "pass"
    /\ pc \notin LoopPcs \/ pc = "start" => qemus = {}
    /\ pc \in {"check", "build"} => i = 1
    /\ pc = "sleep_start" => Alone({"starting", "listening"}) /\ trace[i] = "empty"
    /\ pc = "gdb" => Alone({"listening"}) /\ trace[i] = "empty"
    /\ pc = "continue" => /\ trace[i] = "empty"
                          /\ \/ Alone({"astray"})
                             \/ Alone({"attached"}) /\ <<i, i>> \in hits
    /\ pc = "kill" => Alone({"free"}) /\ <<i, i>> \in hits /\ trace[i] \in {"short", "pass"}
    /\ pc = "sleep_kill" => trace[i] = "pass" /\ \A q \in qemus : q.state = "dying"
    /\ pc = "convert" => /\ \A t \in Tests : trace[t] = "pass"
                         /\ \A t \in Tests : t < i => states[t] = "toPass"
    /\ pc = "touch" \/ done => \A t \in Tests : states[t] = "toPass"

CleanInv == faults = {} => Clean

LEMMA CleanStep ==
    ASSUME TypeOK, Clean, Next, faults = {}
    PROVE  Clean'
<1>0. /\ qemus \subseteq Qemus /\ i \in Tests /\ trace \in [Tests -> Traces]
      /\ states \in [Tests -> States]
  BY DEF TypeOK
<1>1. CASE CheckDone
  BY <1>1 DEF CheckDone, Clean, LoopPcs
<1>2. CASE Build
  <2>1. \A t \in Tests : ~(t < 1)
    BY TestNumbers
  <2>2. pc = "build" /\ built' = NumTests /\ pc' = "start"
    BY <1>2 DEF Build
  <2>3. i' = i /\ qemus' = qemus /\ done' = done /\ states' = states
    BY <1>2 DEF Build
  <2>. QED  BY <2>1, <2>2, <2>3 DEF Clean, LoopPcs
<1>3. CASE StartQemu
  <2>. DEFINE n == [run |-> interrupts, test |-> i, fresh |-> TRUE, state |-> "starting"]
  <2>1. pc = "start" /\ pc' = "sleep_start" /\ trace' = [trace EXCEPT ![i] = "empty"]
    BY <1>3 DEF StartQemu
  <2>2. i' = i /\ built' = built /\ done' = done /\ states' = states
    BY <1>3 DEF StartQemu
  <2>3. n \in Qemus /\ n.test = i /\ n.fresh = TRUE /\ n.state \in {"starting", "listening"}
    BY DEF Qemus, TypeOK
  <2>4. qemus = {}
    BY <2>1 DEF Clean
  <2>5. qemus' = {n}
    BY <1>3, <2>4 DEF StartQemu
  <2>6. Alone({"starting", "listening"})'
    BY <2>2, <2>3, <2>5 DEF Alone
  <2>7. trace'[i] = "empty" /\ \A t \in Tests : t < i => trace'[t] = trace[t]
    BY <1>0, <2>1, TestNumbers
  <2>8. built = NumTests /\ \A t \in Tests : t < i => trace[t] = "pass"
    BY <2>1 DEF Clean, LoopPcs
  <2>9. done => \A t \in Tests : states[t] = "toPass"
    BY DEF Clean
  <2>. QED  BY <2>1, <2>2, <2>6, <2>7, <2>8, <2>9 DEF Clean, LoopPcs
<1>4. CASE SleepStart
  <2>1. pc = "sleep_start" /\ pc' = "gdb" /\ InState("starting") = {}
    BY <1>4 DEF SleepStart
  <2>2. i' = i /\ built' = built /\ qemus' = qemus /\ trace' = trace /\ done' = done
        /\ states' = states
    BY <1>4 DEF SleepStart
  <2>3. Alone({"starting", "listening"})
    BY <2>1 DEF Clean
  <2>4. Alone({"listening"})
    BY <2>1, <2>3 DEF Alone, InState
  <2>5. Alone({"listening"})'
    BY <2>2, <2>4 DEF Alone
  <2>. QED  BY <2>1, <2>2, <2>5 DEF Clean, LoopPcs
<1>5. CASE GdbConnects
  <2>1. pc = "gdb" /\ pc' = "continue"
    BY <1>5 DEF GdbConnects
  <2>2. i' = i /\ built' = built /\ trace' = trace /\ done' = done /\ states' = states
        /\ hits' = hits
    BY <1>5 DEF GdbConnects, Environment
  <2>3. PICK q \in Qemus : qemus = {q} /\ q.test = i /\ q.fresh = TRUE /\ q.state = "listening"
    BY <2>1 DEF Clean, Alone
  <2>4. PICK hit \in BOOLEAN :
            /\ hit => <<i, i>> \in hits
            /\ qemus' = (qemus \ {q}) \cup
                  {[q EXCEPT !.state = IF hit THEN "attached" ELSE "astray", !.fresh = TRUE]}
    <3>1. PICK p \in InState("listening") \cup InState("free") :
              LET fresh == p.fresh /\ p.state = "listening" IN
              \E hit \in (IF fresh THEN {(<<p.test, i>> \in hits)} ELSE BOOLEAN) :
                 qemus' = (qemus \ {p}) \cup
                   {[p EXCEPT !.state = IF hit THEN "attached" ELSE "astray", !.fresh = fresh]}
      BY <1>5 DEF GdbConnects
    <3>2. p = q
      BY <2>3 DEF InState
    <3>3. (p.fresh /\ p.state = "listening") = TRUE
      BY <2>3, <3>2
    <3>. QED  BY <2>3, <3>1, <3>2, <3>3
  <2>. DEFINE s == IF hit THEN "attached" ELSE "astray"
              r == [q EXCEPT !.state = s, !.fresh = TRUE]
  <2>6. s \in {"attached", "astray"}
    OBVIOUS
  <2>. HIDE DEF s
  <2>5. r \in Qemus /\ r.test = i /\ r.fresh = TRUE /\ r.state = s
    <3>1. TRUE \in BOOLEAN
      OBVIOUS
    <3>2. s \in {"starting", "listening", "attached", "astray", "free", "dying"}
      BY <2>6
    <3>3. r \in Qemus
      BY <2>3, <3>1, <3>2, QemuType, Zenon
    <3>4. r.test = q.test /\ r.fresh = TRUE /\ r.state = s
      BY <2>3 DEF Qemus
    <3>. QED  BY <2>3, <3>3, <3>4
  <2>. HIDE DEF r
  <2>7. qemus' = {r}
    BY <2>3, <2>4 DEF r, s
  <2>8. Alone({"astray"})' \/ (Alone({"attached"})' /\ <<i, i>> \in hits)
    <3>1. CASE hit
      BY <2>2, <2>4, <2>5, <2>7, <3>1 DEF Alone, s
    <3>2. CASE ~hit
      BY <2>2, <2>5, <2>7, <3>2 DEF Alone, s
    <3>. QED  BY <3>1, <3>2
  <2>. QED  BY <2>1, <2>2, <2>8 DEF Clean, LoopPcs
<1>6. CASE GdbFindsNobody
  <2>1. pc = "gdb" /\ InState("listening") = {}
    BY <1>6 DEF GdbFindsNobody
  <2>. QED  BY <2>1 DEF Clean, Alone, InState
<1>7. CASE GdbBreaks
  <2>1. pc = "continue" /\ pc' = "kill"
    BY <1>7 DEF GdbBreaks
  <2>2. i' = i /\ built' = built /\ done' = done /\ states' = states /\ hits' = hits
    BY <1>7 DEF GdbBreaks, Environment
  <2>3. PICK q \in InState("attached") :
            /\ qemus' = (qemus \ {q}) \cup {[q EXCEPT !.state = "free"]}
            /\ trace' = [trace EXCEPT ![q.test] = IF q.fresh THEN "short" ELSE "garbled"]
    BY <1>7 DEF GdbBreaks
  <2>4. q \in Qemus /\ qemus = {q} /\ q.test = i /\ q.fresh = TRUE
    BY <2>1 DEF Clean, Alone, InState
  <2>5. <<i, i>> \in hits
    BY <2>1, <2>3 DEF Clean, Alone, InState
  <2>. DEFINE r == [q EXCEPT !.state = "free"]
  <2>6. r \in Qemus /\ r.test = i /\ r.fresh = TRUE /\ r.state = "free"
    BY <2>4, QemuType, QemuFields
  <2>9. qemus' = {r}
    BY <2>3, <2>4
  <2>. HIDE DEF r
  <2>7. Alone({"free"})'
    BY <2>2, <2>6, <2>9 DEF Alone
  <2>8. trace'[i] = "short" /\ \A t \in Tests : t < i => trace'[t] = trace[t]
    BY <1>0, <2>3, <2>4, TestNumbers
  <2>. QED  BY <2>1, <2>2, <2>5, <2>7, <2>8 DEF Clean, LoopPcs
<1>8. CASE Kill
  <2>1. pc = "kill" /\ pc' = "sleep_kill" /\ BeforePass = {}
    BY <1>8 DEF Kill
  <2>2. i' = i /\ built' = built /\ trace' = trace /\ done' = done /\ states' = states
    BY <1>8 DEF Kill
  <2>3. PICK q \in Qemus : qemus = {q} /\ q.test = i /\ q.fresh = TRUE /\ q.state = "free"
    BY <2>1 DEF Clean, Alone
  <2>4. trace[i] = "pass"
    BY <2>1, <2>3 DEF Clean, BeforePass, InState
  <2>5. PICK missed \in SUBSET InState("starting") :
            qemus' = missed \cup {[p EXCEPT !.state = "dying"] : p \in qemus \ missed}
    BY <1>8 DEF Kill
  <2>6. missed = {} /\ qemus' = {[q EXCEPT !.state = "dying"]}
    BY <2>3, <2>5 DEF InState
  <2>7. \A p \in qemus' : p.state = "dying"
    <3>1. [q EXCEPT !.state = "dying"].state = "dying"
      BY <2>3, QemuFields
    <3>. QED  BY <2>6, <3>1
  <2>. QED  BY <2>1, <2>2, <2>4, <2>7 DEF Clean, LoopPcs
<1>9. CASE SleepKill
  <2>1. pc = "sleep_kill" /\ InState("dying") = {} /\ Loop("start", "convert")
    BY <1>9 DEF SleepKill
  <2>2. built' = built /\ qemus' = qemus /\ trace' = trace /\ done' = done /\ states' = states
    BY <1>9 DEF SleepKill
  <2>3. qemus = {}
    BY <2>1 DEF Clean, InState
  <2>4. \A t \in Tests : t < i \/ t = i => trace[t] = "pass"
    BY <2>1 DEF Clean, LoopPcs
  <2>5. built = NumTests /\ (done => \A t \in Tests : states[t] = "toPass")
    BY <2>1 DEF Clean, LoopPcs
  <2>6. CASE i < NumTests
    <3>1. pc' = "start" /\ i' = i + 1
      BY <2>1, <2>6 DEF Loop
    <3>2. \A t \in Tests : t < i + 1 => t < i \/ t = i
      BY <1>0, TestNumbers
    <3>. QED  BY <2>2, <2>3, <2>4, <2>5, <3>1, <3>2 DEF Clean, LoopPcs
  <2>7. CASE ~(i < NumTests)
    <3>1. pc' = "convert" /\ i' = 1
      BY <2>1, <2>7 DEF Loop
    <3>2. \A t \in Tests : (t < i \/ t = i) /\ ~(t < 1)
      BY <1>0, <2>7, TestNumbers
    <3>. QED  BY <2>2, <2>3, <2>4, <2>5, <3>1, <3>2 DEF Clean, LoopPcs
  <2>. QED  BY <2>6, <2>7
<1>10. CASE Convert
  <2>1. pc = "convert" /\ Loop("convert", "touch")
    BY <1>10 DEF Convert
  <2>2. qemus' = qemus /\ trace' = trace /\ done' = done
    BY <1>10 DEF Convert
  <2>3. qemus = {} /\ \A t \in Tests : trace[t] = "pass"
    BY <2>1 DEF Clean, LoopPcs
  <2>4. states' = [states EXCEPT ![i] = "toPass"]
    BY <1>0, <1>10, <2>3 DEF Convert, Converted
  <2>5. \A t \in Tests : states'[t] = IF t = i THEN "toPass" ELSE states[t]
    BY <1>0, <2>4
  <2>6. \A t \in Tests : t < i \/ t = i => states'[t] = "toPass"
    BY <2>1, <2>5 DEF Clean
  <2>7. done => \A t \in Tests : states'[t] = "toPass"
    BY <2>5 DEF Clean
  <2>8. CASE i < NumTests
    <3>1. pc' = "convert" /\ i' = i + 1
      BY <2>1, <2>8 DEF Loop
    <3>2. \A t \in Tests : t < i + 1 => t < i \/ t = i
      BY <1>0, TestNumbers
    <3>. QED  BY <2>2, <2>3, <2>6, <2>7, <3>1, <3>2 DEF Clean, LoopPcs
  <2>9. CASE ~(i < NumTests)
    <3>1. pc' = "touch"
      BY <2>1, <2>9 DEF Loop
    <3>2. \A t \in Tests : t < i \/ t = i
      BY <1>0, <2>9, TestNumbers
    <3>. QED  BY <2>2, <2>3, <2>6, <2>7, <3>1, <3>2 DEF Clean, LoopPcs
  <2>. QED  BY <2>8, <2>9
<1>11. CASE TouchDone
  BY <1>11 DEF TouchDone, Clean, LoopPcs
<1>12. CASE EmBuild
  BY <1>12 DEF EmBuild, Clean, LoopPcs
<1>13. CASE EmTest
  <2>1. pc = "em" /\ pc' \in {"em", "end"}
    BY <1>13 DEF EmTest, Loop
  <2>2. qemus' = qemus /\ done' = done /\ states' = states
    BY <1>13 DEF EmTest
  <2>. QED  BY <2>1, <2>2 DEF Clean, LoopPcs
<1>14. CASE Interrupt
  BY <1>14 DEF Interrupt
<1>15. CASE QemuListens
  <2>1. PICK q \in InState("starting") :
            qemus' = (qemus \ {q}) \cup
               (IF "no_qemu" \in faults \/ q.test > built \/ \E o \in qemus : HasPort(o)
                THEN {} ELSE {[q EXCEPT !.state = "listening"]})
    BY <1>15 DEF QemuListens
  <2>2. pc' = pc /\ i' = i /\ built' = built /\ trace' = trace /\ done' = done
        /\ states' = states
    BY <1>15 DEF QemuListens
  <2>3. pc = "sleep_start" /\ q \in Qemus /\ qemus = {q} /\ q.test = i /\ q.fresh = TRUE
        /\ q.state = "starting"
    BY <1>0 DEF Clean, Alone, InState, LoopPcs
  <2>4. ~(q.test > built)
    BY <1>0, <2>3, TestNumbers DEF Clean, LoopPcs
  <2>5. ~\E o \in qemus : HasPort(o)
    BY <2>3 DEF HasPort
  <2>. DEFINE r == [q EXCEPT !.state = "listening"]
  <2>6. r \in Qemus /\ r.test = i /\ r.fresh = TRUE /\ r.state = "listening"
    BY <2>3, QemuType, QemuFields
  <2>7. qemus' = {r}
    BY <2>1, <2>3, <2>4, <2>5
  <2>. HIDE DEF r
  <2>8. Alone({"starting", "listening"})'
    BY <2>2, <2>6, <2>7 DEF Alone
  <2>. QED  BY <2>2, <2>3, <2>8 DEF Clean, LoopPcs
<1>16. CASE QemuRunsFree
  <2>1. pc' = pc /\ i' = i /\ built' = built /\ qemus' = qemus /\ done' = done
        /\ states' = states /\ hits' = hits
    BY <1>16, Zenon DEF QemuRunsFree, Environment
  <2>2. PICK q \in qemus : q.state = "free"
    BY <1>16 DEF QemuRunsFree, BeforePass, InState
  <2>3. pc = "kill" /\ qemus = {q} /\ q.test = i /\ q.fresh = TRUE
    BY <1>0, <2>2 DEF Clean, Alone, LoopPcs
  <2>4. trace' = [trace EXCEPT ![i] = "pass"]
    BY <1>16, <2>3 DEF QemuRunsFree, BeforePass, InState
  <2>5. trace'[i] = "pass" /\ \A t \in Tests : t < i => trace'[t] = trace[t]
    BY <1>0, <2>4, TestNumbers
  <2>6. Alone({"free"})'
    BY <2>1, <2>3 DEF Clean, Alone
  <2>. QED  BY <2>1, <2>3, <2>5, <2>6 DEF Clean, LoopPcs
<1>17. CASE QemuIsGone
  <2>1. PICK q \in InState("dying") : qemus' = qemus \ {q}
    BY <1>17 DEF QemuIsGone
  <2>2. pc' = pc /\ i' = i /\ built' = built /\ trace' = trace /\ done' = done
        /\ states' = states
    BY <1>17 DEF QemuIsGone
  <2>3. q \in qemus /\ q.state = "dying"
    BY DEF InState
  <2>4. pc = "sleep_kill"
    BY <1>0, <2>3 DEF Clean, Alone, LoopPcs, TypeOK, Pcs, QemuScript
  <2>. QED  BY <2>1, <2>2, <2>4 DEF Clean, LoopPcs
<1>. QED
  BY <1>1, <1>2, <1>3, <1>4, <1>5, <1>6, <1>7, <1>8, <1>9, <1>10, <1>11, <1>12, <1>13,
     <1>14, <1>15, <1>16, <1>17 DEF Next, Script

LEMMA CleanInit == Init => CleanInv
BY DEF Init, CleanInv, Clean, LoopPcs

LEMMA CleanUnchanged == Clean /\ UNCHANGED vars => Clean'
BY DEF Clean, Alone, vars

\* When nothing goes wrong the two sleeps suffice: done means that the register states of
\* every test are there up to its pass().
THEOREM CleanRunIsAlwaysComplete == Spec => []CleanRunIsComplete
<1>1. TypeOK /\ CleanInv /\ [Next]_vars => CleanInv'
  BY CleanStep, CleanUnchanged, FaultsStay DEF CleanInv
<1>2. CleanInv => CleanRunIsComplete
  BY DEF CleanInv, Clean, CleanRunIsComplete
<1>. QED  BY <1>1, <1>2, CleanInit, TypeCorrect, PTL DEF Spec

=============================================================================
