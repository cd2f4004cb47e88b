-------------------------- MODULE ReloadTimerProofs --------------------------
(***************************************************************************)
(* TLAPS proofs about ReloadTimer: for halves of any size and every         *)
(* interval that fits one, when the timer interrupt is due.                 *)
(***************************************************************************)
EXTENDS ReloadTimer, TLAPS

\* The number two halves stand for.
Val(t) == t.hi * Half + t.lo

LEMMA MoreHalves ==
    ASSUME NEW a \in Nat, NEW b \in Nat, a > b
    PROVE  a * Half >= b * Half + Half
<1>1. Half \in Nat
  BY HalfAssumption
<1>2. (a - b - 1) \in Nat
  OBVIOUS
<1>3. (a - b - 1) * Half \in Nat
  BY <1>1, <1>2
<1>4. (a - b - 1) * Half = a * Half - b * Half - Half
  BY <1>1
<1>. QED  BY <1>1, <1>3, <1>4

\* The comparison by halves is the comparison of the numbers.
LEMMA AtLeastVal ==
    ASSUME NEW t \in Words, NEW u \in Words
    PROVE  AtLeast(t, u) <=> Val(t) >= Val(u)
<1>. DEFINE a == t.hi  b == t.lo  c == u.hi  d == u.lo
<1>0. Half \in Nat \ {0}
  BY HalfAssumption
<1>1. a \in Nat /\ c \in Nat /\ b \in 0 .. Half - 1 /\ d \in 0 .. Half - 1
  BY <1>0 DEF Words, Halves
<1>2. AtLeast(t, u) <=> a > c \/ (a = c /\ b >= d)
  BY DEF AtLeast
<1>3. (Val(t) >= Val(u)) <=> (a * Half + b >= c * Half + d)
  BY DEF Val
<1>. HIDE DEF a, b, c, d
<1>4. a * Half \in Nat /\ c * Half \in Nat
  BY <1>0, <1>1
<1>5. a > c => a * Half >= c * Half + Half
  BY <1>1, MoreHalves
<1>6. c > a => c * Half >= a * Half + Half
  BY <1>1, MoreHalves
<1>7. a > c \/ c > a \/ a = c
  BY <1>1
<1>. QED  BY <1>0, <1>1, <1>2, <1>3, <1>4, <1>5, <1>6, <1>7

LEMMA PlusType ==
    ASSUME NEW t \in Words, NEW n \in 0 .. Half - 1
    PROVE  Plus(t, n) \in Words
<1>0. Half \in Nat \ {0}
  BY HalfAssumption
<1>1. t.hi \in 0 .. Half - 1 /\ t.lo \in 0 .. Half - 1
  BY DEF Words, Halves
<1>2. CASE t.lo + n < Half
  <2>1. t.lo + n \in 0 .. Half - 1
    BY <1>0, <1>1, <1>2
  <2>. QED  BY <1>2, <2>1 DEF Plus, Words, Halves
<1>3. CASE ~(t.lo + n < Half)
  <2>1. t.lo + n - Half \in 0 .. Half - 1
    BY <1>0, <1>1, <1>3
  <2>2. (IF t.hi + 1 < Half THEN t.hi + 1 ELSE 0) \in 0 .. Half - 1
    BY <1>0, <1>1
  <2>. QED  BY <1>3, <2>1, <2>2 DEF Plus, Words, Halves
<1>. QED  BY <1>2, <1>3

\* Plus is addition, as long as the sum has 64 bits.
LEMMA PlusVal ==
    ASSUME NEW t \in Words, NEW n \in 0 .. Half - 1,
           t.hi < Half - 1 \/ t.lo + n < Half
    PROVE  Val(Plus(t, n)) = Val(t) + n
<1>0. Half \in Nat \ {0}
  BY HalfAssumption
<1>1. t.hi \in 0 .. Half - 1 /\ t.lo \in 0 .. Half - 1
  BY DEF Words, Halves
<1>2. CASE t.lo + n < Half
  <2>1. Plus(t, n).hi = t.hi /\ Plus(t, n).lo = t.lo + n
    BY <1>2 DEF Plus, Words
  <2>. QED  BY <1>0, <1>1, <2>1 DEF Val
<1>3. CASE ~(t.lo + n < Half)
  <2>1. t.hi + 1 < Half
    BY <1>0, <1>1, <1>3
  <2>2. Plus(t, n).hi = t.hi + 1 /\ Plus(t, n).lo = t.lo + n - Half
    BY <1>3, <2>1 DEF Plus
  <2>3. (t.hi + 1) * Half = t.hi * Half + Half
    BY <1>0, <1>1
  <2>4. t.hi * Half \in Nat
    BY <1>0, <1>1
  <2>. QED  BY <1>0, <1>1, <2>2, <2>3, <2>4 DEF Val
<1>. QED  BY <1>2, <1>3

-----------------------------------------------------------------------------
(* The type invariant *)

LEMMA Constants == Half \in Nat \ {0} /\ Interval \in 0 .. Half - 1 /\ Interval > 0
BY HalfAssumption, IntervalAssumption

LEMMA LowType == \A t \in Words : [t EXCEPT !.hi = 0] \in Words
BY Constants DEF Words, Halves

LEMMA TypeInit == Init => TypeOK
BY DEF Init, TypeOK

LEMMA TypeStep == TypeOK /\ [Next]_vars => TypeOK'
<1>. SUFFICES ASSUME TypeOK, [Next]_vars PROVE TypeOK'
  OBVIOUS
<1>1. CASE ReadTime
  BY <1>1, LowType DEF ReadTime, TypeOK
<1>2. CASE StoreCmp
  <2>1. Plus(now, Interval) \in Words
    BY Constants, PlusType DEF TypeOK
  <2>2. [mtimecmp EXCEPT !.lo = PlusLow(now, Interval)] \in Words
    BY Constants DEF TypeOK, PlusLow, Words, Halves
  <2>. QED  BY <1>2, <2>1, <2>2 DEF StoreCmp, TypeOK
<1>3. CASE TimerIrq
  BY <1>3 DEF TimerIrq, TypeOK
<1>4. CASE Tick
  <2>1. Plus(mtime, 1) \in Words
    BY Constants, PlusType DEF TypeOK
  <2>. QED  BY <1>4, <2>1 DEF Tick, TypeOK
<1>5. CASE UNCHANGED vars
  BY <1>5 DEF vars, TypeOK
<1>. QED  BY <1>1, <1>2, <1>3, <1>4, <1>5 DEF Next

\* Both registers stay 64-bit numbers whatever is stored.
THEOREM TypeCorrect == Spec => []TypeOK
BY TypeInit, TypeStep, PTL DEF Spec

-----------------------------------------------------------------------------
(* The interrupt is due after the interval *)

\* mtime has counted the ticks since the read; what was read is in now until the store,
\* and plus the interval in mtimecmp from then on.
TimeInv ==
    /\ Val(mtime) = Val(readAt) + age
    /\ pc = "store" => now.lo = readAt.lo /\ (xlen = 64 => now = readAt)
    /\ pc = "main" => IF xlen = 64 THEN mtimecmp = Plus(readAt, Interval)
                      ELSE mtimecmp.lo = PlusLow(readAt, Interval)

LEMMA TimeInit == Init => TimeInv
<1>. SUFFICES ASSUME Init PROVE TimeInv
  OBVIOUS
<1>1. Val(mtime) \in Int
  BY Constants DEF Init, Words, Halves, Val
<1>. QED  BY <1>1 DEF Init, TimeInv

LEMMA TimeStep == TypeOK /\ TimeInv /\ [Next]_vars => TimeInv'
<1>. SUFFICES ASSUME TypeOK, TimeInv, [Next]_vars PROVE TimeInv'
  OBVIOUS
<1>0. /\ mtime \in Words /\ mtimecmp \in Words /\ now \in Words /\ readAt \in Words
      /\ age \in Nat
  BY DEF TypeOK
<1>1. CASE ReadTime
  <2>1. Val(mtime) \in Int
    BY <1>0, Constants DEF Words, Halves, Val
  <2>2. pc' = "store" /\ xlen' = xlen /\ mtime' = mtime /\ readAt' = mtime /\ age' = 0
    BY <1>1 DEF ReadTime
  <2>3. now' = IF xlen = 64 THEN mtime ELSE [mtime EXCEPT !.hi = 0]
    BY <1>1 DEF ReadTime
  <2>4. now'.lo = mtime.lo /\ (xlen = 64 => now' = mtime)
    BY <1>0, <2>3 DEF Words
  <2>5. Val(mtime') = Val(readAt') + age'
    BY <2>1, <2>2
  <2>. QED  BY <2>2, <2>4, <2>5 DEF TimeInv, Val
<1>2. CASE StoreCmp
  <2>1. pc = "store" /\ pc' = "main" /\ UNCHANGED <<xlen, mtime, readAt, age>>
    BY <1>2 DEF StoreCmp
  <2>2. mtimecmp' = IF xlen = 64 THEN Plus(now, Interval)
                    ELSE [mtimecmp EXCEPT !.lo = PlusLow(now, Interval)]
    BY <1>2 DEF StoreCmp
  <2>3. now.lo = readAt.lo /\ (xlen = 64 => now = readAt)
    BY <2>1 DEF TimeInv
  <2>4. xlen # 64 => mtimecmp'.lo = PlusLow(readAt, Interval)
    BY <1>0, <2>2, <2>3 DEF PlusLow, Words
  <2>5. xlen = 64 => mtimecmp' = Plus(readAt, Interval)
    BY <2>2, <2>3
  <2>. QED  BY <2>1, <2>4, <2>5 DEF TimeInv, Val, Plus, PlusLow
<1>3. CASE TimerIrq
  BY <1>3 DEF TimerIrq, TimeInv, Val
<1>4. CASE Tick
  <2>1. /\ mtime' = Plus(mtime, 1) /\ age' = age + 1 /\ mtime # [hi |-> Half - 1, lo |-> Half - 1]
        /\ UNCHANGED <<xlen, mtimecmp, now, pc, readAt>>
    BY <1>4 DEF Tick
  <2>2. mtime.hi < Half - 1 \/ mtime.lo + 1 < Half
    BY <1>0, <2>1, Constants DEF Words, Halves
  <2>3. Half > 1 /\ 1 \in 0 .. Half - 1
    BY Constants
  <2>4. Val(mtime') = Val(mtime) + 1
    BY <1>0, <2>1, <2>2, <2>3, PlusVal
  <2>5. Val(readAt) \in Int
    BY <1>0, Constants DEF Words, Halves, Val
  <2>6. Val(mtime') = Val(readAt) + (age + 1)
    BY <1>0, <2>4, <2>5 DEF TimeInv
  <2>. QED  BY <2>1, <2>6 DEF TimeInv, Val, Plus, PlusLow
<1>5. CASE UNCHANGED vars
  BY <1>5 DEF vars, TimeInv, Val, Plus, PlusLow
<1>. QED  BY <1>1, <1>2, <1>3, <1>4, <1>5 DEF Next

\* What rv32 has in mtimecmp: the halves are of two numbers.
LEMMA HalvesApart ==
    ASSUME NEW a \in Nat, NEW b \in Nat, NEW c \in {0, 1}
    PROVE  a * Half = b * Half + c * Half + (a - b - c) * Half
BY Constants

LEMMA CmpVal ==
    ASSUME TypeOK, TimeInv, pc = "main", Fits
    PROVE  Val(mtimecmp) = Val(readAt) + DueIn /\ DueIn \in Int
<1>0. /\ mtimecmp \in Words /\ readAt \in Words
      /\ mtimecmp.hi \in Nat /\ readAt.hi \in Nat /\ readAt.lo \in Nat
  BY Constants DEF TypeOK, Words, Halves
<1>1. CASE xlen = 64
  <2>1. mtimecmp = Plus(readAt, Interval) /\ DueIn = Interval
    BY <1>1 DEF TimeInv, DueIn
  <2>2. readAt.hi < Half - 1 \/ readAt.lo + Interval < Half
    BY <1>1 DEF Fits, Carry
  <2>. QED  BY <1>0, <2>1, <2>2, Constants, PlusVal
<1>2. CASE xlen # 64
  <2>. DEFINE a == mtimecmp.hi  b == readAt.hi
              p == a * Half  q == b * Half  r == Carry * Half  d == (a - b - Carry) * Half
  <2>1. Carry \in {0, 1} /\ mtimecmp.lo = readAt.lo + Interval - r
    BY <1>0, <1>2, Constants DEF TimeInv, PlusLow, Carry
  <2>2. p = q + r + d
    BY <1>0, <2>1, HalvesApart
  <2>3. p \in Int /\ q \in Int /\ r \in Int /\ d \in Int
    BY <1>0, <2>1, Constants
  <2>4. DueIn = Interval + d
    BY <1>2 DEF DueIn
  <2>5. Val(mtimecmp) = p + mtimecmp.lo /\ Val(readAt) = q + readAt.lo
    BY DEF Val
  <2>. HIDE DEF p, q, r, d
  <2>. QED  BY <1>0, <2>1, <2>2, <2>3, <2>4, <2>5, Constants
<1>. QED  BY <1>1, <1>2

LEMMA DueFromTime == TypeOK /\ TimeInv => DueAfterInterval
<1>. SUFFICES ASSUME TypeOK, TimeInv, pc = "main", Fits
              PROVE  Pending <=> age >= DueIn
  BY DEF DueAfterInterval
<1>0. mtime \in Words /\ mtimecmp \in Words /\ readAt \in Words /\ age \in Nat
  BY DEF TypeOK
<1>1. Val(mtimecmp) = Val(readAt) + DueIn /\ DueIn \in Int
  BY CmpVal
<1>2. Pending <=> Val(mtime) >= Val(mtimecmp)
  BY <1>0, AtLeastVal DEF Pending
<1>3. Val(readAt) \in Int
  BY <1>0, Constants DEF Words, Halves, Val
<1>. QED  BY <1>0, <1>1, <1>2, <1>3 DEF TimeInv

\* For halves of any size and whatever mtimecmp held: the interrupt is pending from the
\* interval after the read on and not before, on rv32 shifted by what the upper half of
\* mtimecmp differs from that of the sum.
THEOREM AlwaysDueAfterInterval == Spec => []DueAfterInterval
BY TimeInit, TimeStep, DueFromTime, TypeCorrect, PTL DEF Spec

=============================================================================
