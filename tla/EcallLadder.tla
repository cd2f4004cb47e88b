----------------------------- MODULE EcallLadder -----------------------------
(***************************************************************************)
(* What a privilege-level test promises: from kmain the hart climbs the     *)
(* privilege levels one ecall at a time, starting in user mode, skipping    *)
(* none and repeating none, and the test passes on the ecall from the top   *)
(* level it covers, and nowhere else.                                       *)
(***************************************************************************)
EXTENDS Naturals

CONSTANT Tops   \* the rungs on which a test may end, a subset of 1 .. 3

VARIABLES top,    \* the rung on which this test ends
          rung,   \* 0: kmain, 1: user, 2: supervisor, 3: machine mode
          passed  \* pass() has been reached

ladder == <<top, rung, passed>>

Init ==
    /\ top \in Tops
    /\ rung = 0
    /\ passed = FALSE

Climb ==
    /\ rung < top
    /\ rung' = rung + 1
    /\ UNCHANGED <<top, passed>>

Pass ==
    /\ rung = top
    /\ ~passed
    /\ passed' = TRUE
    /\ UNCHANGED <<top, rung>>

Next == Climb \/ Pass

Spec == Init /\ [][Next]_ladder

=============================================================================
