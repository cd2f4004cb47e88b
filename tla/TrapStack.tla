------------------------------ MODULE TrapStack ------------------------------
(***************************************************************************)
(* What nested traps promise to the code they interrupt: each trap notes    *)
(* where, at which level and with which interrupt enable the code is to go  *)
(* on, and the returns go there in the opposite order, the last trap first. *)
(***************************************************************************)
EXTENDS Naturals, Sequences

CONSTANTS Handler,     \* the location every trap enters
          Locations,   \* all code locations
          Following    \* the location after the ecall at a location

VARIABLES now,   \* the context that runs: [pc, prv, mie]
          due    \* the contexts to go on with, the innermost last

stack == <<now, due>>

Init == due = <<>>

\* The running code goes on at its level.
Run ==
    /\ now'.prv = now.prv
    /\ UNCHANGED due

\* A trap; an ecall is to go on behind itself, anything else where it was.
Enter ==
    /\ now'.pc = Handler /\ ~now'.mie
    /\ \E pc \in {now.pc, Following[now.pc]} :
           due' = Append(due, [now EXCEPT !.pc = pc])

Return ==
    /\ due # <<>>
    /\ now' = due[Len(due)]
    /\ due' = SubSeq(due, 1, Len(due) - 1)

Next == Run \/ Enter \/ Return

Spec == Init /\ [][Next]_stack

=============================================================================
