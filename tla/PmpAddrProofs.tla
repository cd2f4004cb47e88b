---------------------------- MODULE PmpAddrProofs ----------------------------
(***************************************************************************)
(* pmp_get_napot_addr is right: for every power-of-two size and every base  *)
(* aligned to it, the NAPOT entry it encodes covers exactly the region.     *)
(***************************************************************************)
EXTENDS Pmp, TLAPS

LEMMA DivMod ==
    ASSUME NEW a \in Nat, NEW b \in Nat, b > 0
    PROVE  /\ a \div b \in Nat /\ a % b \in 0 .. b - 1
           /\ a = b * (a \div b) + (a % b)
BY SMTT(30)

\* Quotient and remainder are determined by the decomposition.
LEMMA DivModUnique ==
    ASSUME NEW b \in Nat, NEW q \in Nat, NEW r \in Nat, r < b
    PROVE  /\ (b * q + r) \div b = q
           /\ (b * q + r) % b = r
BY SMTT(30)

LEMMA SizesAreEven ==
    ASSUME NEW s \in NapotSizes
    PROVE  s \in Nat /\ s >= 2 /\ s \div 2 \in Nat \ {0} /\ s = 2 * (s \div 2)
BY DEF NapotSizes

\* Of two different sizes the larger is an even multiple of the smaller.
LEMMA SizesDivide ==
    ASSUME NEW s \in NapotSizes, NEW t \in NapotSizes, s < t
    PROVE  \E j \in Nat \ {0} : t = 2 * (s * j)
<1>1. t % (2 * s) = 0
  BY SMTT(60) DEF NapotSizes
<1>2. s \in Nat /\ t \in Nat /\ 2 * s \in Nat /\ 2 * s > 0 /\ t > 0
  BY SizesAreEven
<1>3. t \div (2 * s) \in Nat /\ t = (2 * s) * (t \div (2 * s)) + (t % (2 * s))
  BY <1>2, DivMod
<1> DEFINE j == t \div (2 * s)
<1>4. j \in Nat /\ t = (2 * s) * j
  BY <1>1, <1>2, <1>3
<1> HIDE DEF j
<1>5. j # 0 /\ t = 2 * (s * j)
  BY <1>2, <1>4
<1> QED
  BY <1>4, <1>5

\* The value written: the aligned base with s/2 - 1 in its low bits.
LEMMA NapotValue ==
    ASSUME NEW s \in NapotSizes, NEW b \in Nat
    PROVE  pmp_get_napot_addr(b, s) = b + (s \div 2 - 1)
<1> DEFINE h == s \div 2
<1>1. h \in Nat \ {0} /\ s = 2 * h
  BY SizesAreEven
<1> HIDE DEF h
<1>2. (2 * s - 1) \div 4 = h - 1
  BY <1>1
<1> QED
  BY <1>2 DEF pmp_get_napot_addr, h

\* A number of the form t*(multiple of 2)*j - 1 ends in more ones than t has.
LEMMA OnesBelow ==
    ASSUME NEW t \in NapotSizes, NEW n \in Nat \ {0}, NEW a \in Nat, a = t * n - 1
    PROVE  a % t # t \div 2 - 1
<1>1. t \in Nat /\ t >= 2 /\ t \div 2 \in Nat \ {0} /\ t = 2 * (t \div 2)
  BY SizesAreEven
<1> DEFINE m == n - 1
           r == t - 1
<1>2. a = t * m + r
  BY <1>1
<1>3. m \in Nat /\ r \in Nat /\ r < t
  BY <1>1
<1>4. a % t = r
  <2> HIDE DEF m, r
  <2> QED
    BY <1>1, <1>2, <1>3, DivModUnique
<1> QED
  BY <1>1, <1>4

\* The size is read back from the trailing ones: no other size fits them.
LEMMA NapotSizeIs ==
    ASSUME NEW s \in NapotSizes, NEW q \in Nat, NEW a \in Nat,
           a = s * q + (s \div 2 - 1)
    PROVE  NapotSize(a) = s
<1>s. s \in Nat /\ s >= 2 /\ s \div 2 \in Nat \ {0} /\ s = 2 * (s \div 2)
  BY SizesAreEven
<1>1. a % s = s \div 2 - 1
  <2>1. s \div 2 - 1 \in Nat /\ s \div 2 - 1 < s
    BY <1>s
  <2> QED
    BY <1>s, <2>1, DivModUnique
<1>2. ASSUME NEW t \in NapotSizes, a % t = t \div 2 - 1
      PROVE  t = s
  <2>t. t \in Nat /\ t >= 2 /\ t \div 2 \in Nat \ {0} /\ t = 2 * (t \div 2)
    BY SizesAreEven
  <2>1. CASE t < s
    <3>1. PICK j \in Nat \ {0} : s = 2 * (t * j)
      BY <2>1, SizesDivide
    <3>2. s \div 2 = t * j
      BY <1>s, <2>t, <3>1
    <3> DEFINE n == 2 * j * q + j
    <3>3. n \in Nat \ {0}
      BY <3>1
    <3>4. a = t * n - 1
      <4>1. s * q = t * (2 * j * q)
        BY <2>t, <3>1
      <4> QED
        BY <2>t, <3>1, <3>2, <4>1
    <3> QED
      BY <1>2, <3>3, <3>4, OnesBelow
  <2>2. CASE s < t
    <3>1. PICK j \in Nat \ {0} : t = 2 * (s * j)
      BY <2>2, SizesDivide
    <3>2. t \div 2 = s * j
      BY <1>s, <2>t, <3>1
    <3> DEFINE k == a \div t
    <3>3. k \in Nat /\ a = t * k + (t \div 2 - 1)
      BY <1>2, <2>t, DivMod
    <3> HIDE DEF k
    <3> DEFINE n == 2 * j * k + j
    <3>4. n \in Nat \ {0}
      BY <3>1, <3>3
    <3>5. a = s * n - 1
      <4>1. t * k = s * (2 * j * k)
        BY <1>s, <3>1, <3>3
      <4> QED
        BY <1>s, <3>1, <3>2, <3>3, <4>1
    <3> QED
      BY <1>1, <3>4, <3>5, OnesBelow
  <2> QED
    BY <1>s, <2>t, <2>1, <2>2
<1> QED
  BY <1>1, <1>2 DEF NapotSize

\* The region an aligned base and a size stand for is what the entry covers.
THEOREM NapotExact ==
    ASSUME NEW s \in NapotSizes, NEW b \in Nat, b % s = 0, NEW w \in Nat
    PROVE  InNapot(pmp_get_napot_addr(b, s), w) <=> w \in b .. b + s - 1
<1> DEFINE q == b \div s
           a == b + (s \div 2 - 1)
<1>s. s \in Nat /\ s >= 2 /\ s \div 2 \in Nat \ {0} /\ s = 2 * (s \div 2)
  BY SizesAreEven
<1>1. q \in Nat /\ b = s * q
  <2>1. q \in Nat /\ b = s * q + (b % s)
    BY <1>s, DivMod
  <2> QED
    BY <1>s, <2>1
<1>2. a \in Nat /\ a = s * q + (s \div 2 - 1)
  BY <1>s, <1>1
<1> HIDE DEF q
<1>3. NapotSize(a) = s
  BY <1>1, <1>2, NapotSizeIs
<1>4. a \div s = q
  <2>1. s \div 2 - 1 \in Nat /\ s \div 2 - 1 < s
    BY <1>s
  <2> QED
    BY <1>s, <1>1, <1>2, <2>1, DivModUnique
<1>5. InNapot(a, w) <=> w \div s = q
  BY <1>3, <1>4 DEF InNapot
<1>6. w \div s = q <=> w \in b .. b + s - 1
  <2>1. ASSUME w \div s = q
        PROVE  w \in b .. b + s - 1
    <3>1. w % s \in 0 .. s - 1 /\ w = s * q + (w % s)
      BY <1>s, <2>1, DivMod
    <3> QED
      BY <1>s, <1>1, <3>1
  <2>2. ASSUME w \in b .. b + s - 1
        PROVE  w \div s = q
    <3> DEFINE r == w - b
    <3>1. r \in Nat /\ r < s /\ w = s * q + r
      BY <1>s, <1>1, <2>2
    <3> HIDE DEF r
    <3> QED
      BY <1>s, <1>1, <3>1, DivModUnique
  <2> QED
    BY <2>1, <2>2
<1> QED
  BY <1>5, <1>6, NapotValue

=============================================================================
