------------------------------ MODULE PmpGuarded ------------------------------
(***************************************************************************)
(* The PMP tests implement PmpGuard, whatever the platform does with an     *)
(* access that no entry covers.                                             *)
(***************************************************************************)
EXTENDS PmpTests

NothingOpened == \A i \in 0 .. 3 : prog.regions[i].a = "OFF"

\* All the accesses of a test: main's with the mstatus it wrote, then the user
\* program's.  A platform without PMP stops main before the first, QEMU 6 stops
\* one that opened nothing at its mret.
UserAccesses ==
    IF platform.pmp = "qemu6" /\ NothingOpened THEN <<>> ELSE prog.user

AllAccesses ==
    IF platform.pmp = "absent" THEN <<>>
    ELSE IF prog.direct THEN <<Access("W", Stack)>>
    ELSE <<Access("R", Stack), Access("W", Stack)>> \o UserAccesses

Left ==
    IF hart.pc \in {"main", "main_mstatus"} THEN AllAccesses
    ELSE IF hart.pc = "main_locals" THEN todo \o UserAccesses
    ELSE IF hart.mcause = IllegalInstruction THEN <<>>
    ELSE IF hart.pc = "user" \/ hart.mepc = "user" \/ prog.direct THEN todo
    ELSE todo \o UserAccesses

\* The regions bind code below machine mode, unless the platform checks nothing
\* while no entry is on.
Bound ==
    prog.mpp # M /\ (NothingOpened => platform.pmp = "strict")

Guard == INSTANCE PmpGuard
           WITH regions <- prog.regions, guarded <- Bound,
                left <- Left, stopped <- hart.pc \in {"handler", "pass"}

\* The registers the helpers compute, the lowest-match rule and MPRV together
\* refuse exactly the first access outside what main asked for: an encoding off
\* by one, a bound taken as inclusive, a forgotten permission or an MPP left
\* from main would grant or refuse another one.
PmpGuarded == Guard!Spec

=============================================================================
