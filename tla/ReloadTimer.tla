----------------------------- MODULE ReloadTimer -----------------------------
(***************************************************************************)
(* reload_timer of priv_irq_deleg.c and the CLINT's comparison: mtime and   *)
(* mtimecmp are 64 bits wide, the program reads and writes rv_uint_xlen of  *)
(* them.  A 64-bit value is its two halves, hi and lo, so that a half can   *)
(* have any size.                                                           *)
(***************************************************************************)
EXTENDS Integers

CONSTANTS Half,       \* the number of values of a half: 2^32
          Interval    \* 5000000

ASSUME HalfAssumption == Half \in Nat \ {0}
ASSUME IntervalAssumption == Interval \in 1 .. Half - 1

Halves == 0 .. Half - 1
Words == [hi : Halves, lo : Halves]

VARIABLES xlen,        \* the width of rv_uint_xlen
          mtime, mtimecmp,
          now,         \* the local variable
          pc,          \* "reload", "store" after the read, "main" when it has returned
          readAt,      \* history: mtime when it was read
          age          \* history: the ticks since then

vars == <<xlen, mtime, mtimecmp, now, pc, readAt, age>>

TypeOK ==
    /\ xlen \in {32, 64}
    /\ mtime \in Words /\ mtimecmp \in Words /\ now \in Words /\ readAt \in Words
    /\ pc \in {"reload", "store", "main"}
    /\ age \in Nat

\* t + n for n < Half, modulo 2^64.
Plus(t, n) ==
    IF t.lo + n < Half THEN [t EXCEPT !.lo = @ + n]
    ELSE [hi |-> IF t.hi + 1 < Half THEN t.hi + 1 ELSE 0, lo |-> t.lo + n - Half]

\* t + n for n < Half, modulo 2^32.
PlusLow(t, n) == IF t.lo + n < Half THEN t.lo + n ELSE t.lo + n - Half

AtLeast(t, u) == t.hi > u.hi \/ (t.hi = u.hi /\ t.lo >= u.lo)

\* The CLINT compares all the time.
Pending == AtLeast(mtime, mtimecmp)

\* What is in mtime and mtimecmp at reset is not specified.
Init ==
    /\ xlen \in {32, 64}
    /\ mtime \in Words /\ mtimecmp \in Words
    /\ pc = "reload" /\ now = mtime /\ readAt = mtime /\ age = 0

ReadTimeHalf ==                 \* a variant with a mistake: now has 32 bits
    /\ pc = "reload"
    /\ now' = [mtime EXCEPT !.hi = 0]
    /\ readAt' = mtime /\ age' = 0
    /\ pc' = "store"
    /\ UNCHANGED <<xlen, mtime, mtimecmp>>

\* now = *mtime: on rv32, the lower half.
ReadTime ==
    /\ pc = "reload"
    /\ now' = IF xlen = 64 THEN mtime ELSE [mtime EXCEPT !.hi = 0]
    /\ readAt' = mtime /\ age' = 0
    /\ pc' = "store"
    /\ UNCHANGED <<xlen, mtime, mtimecmp>>

StoreCmpCarries ==              \* a variant with a mistake: the sum is not reduced
    /\ pc = "store"
    /\ mtimecmp' = IF xlen = 64 THEN Plus(now, Interval)
                   ELSE [mtimecmp EXCEPT !.lo = now.lo + Interval]
    /\ pc' = "main"
    /\ UNCHANGED <<xlen, mtime, now, readAt, age>>

\* *mtimecmp = now + 5000000: on rv32, the lower half, and the sum is one of 32 bits.
StoreCmp ==
    /\ pc = "store"
    /\ mtimecmp' = IF xlen = 64 THEN Plus(now, Interval)
                   ELSE [mtimecmp EXCEPT !.lo = PlusLow(now, Interval)]
    /\ pc' = "main"
    /\ UNCHANGED <<xlen, mtime, now, readAt, age>>

\* machine_trap, entered with interrupts off, calls reload_timer.
TimerIrq ==
    /\ pc = "main" /\ Pending
    /\ pc' = "reload"
    /\ UNCHANGED <<xlen, mtime, mtimecmp, now, readAt, age>>

\* Time passes between any two instructions.  The behaviour ends before mtime wraps,
\* which takes 2^64 ticks.
Tick ==
    /\ mtime # [hi |-> Half - 1, lo |-> Half - 1]
    /\ mtime' = Plus(mtime, 1) /\ age' = age + 1
    /\ UNCHANGED <<xlen, mtimecmp, now, pc, readAt>>

Next == ReadTime \/ StoreCmp \/ TimerIrq \/ Tick

Spec == Init /\ [][Next]_vars

-----------------------------------------------------------------------------
(* Properties *)

\* The carry of the sum of the lower halves.
Carry == IF readAt.lo + Interval < Half THEN 0 ELSE 1

\* The ticks from the read to the interrupt.  On rv32 nobody writes the upper half of
\* mtimecmp, and the carry is lost.
DueIn ==
    IF xlen = 64 THEN Interval
    ELSE Interval + (mtimecmp.hi - readAt.hi - Carry) * Half

\* The sum on rv64 is one of 64 bits, which it is until 2^64 ticks have passed.
Fits == xlen = 64 => readAt.hi < Half - 1 \/ Carry = 0

\* After reload_timer the interrupt is pending from DueIn ticks after the read on and not
\* a tick earlier, however long the store took.  On rv64 that is the interval.  On rv32 it
\* is so only if the upper half of mtimecmp happens to be that of the sum: with a smaller
\* one, a carry that is lost included, the interrupt is there at once, again and again;
\* with a larger one it comes multiples of 2^32 ticks late.
DueAfterInterval == pc = "main" /\ Fits => (Pending <=> age >= DueIn)

=============================================================================
