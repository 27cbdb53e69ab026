--------------------------- MODULE FixpointProofs ---------------------------
(***************************************************************************)
(* The fixed-point numbers of csf_assign01 for every base, every width of  *)
(* a part and every sequence of calls.                                     *)
(***************************************************************************)
EXTENDS Fixpoint, SequenceTheorems, WellFoundedInduction, TLAPS

-----------------------------------------------------------------------------
(* Induction and recursion                                                   *)

\* A set of numbers that has the successor of each of its members up to n has
\* all numbers up to n, when it has 0.
LEMMA UpTo ==
    ASSUME NEW n \in Nat, NEW T, 0 \in T, \A k \in 0..(n - 1) : k \in T => k + 1 \in T
    PROVE  0..n \subseteq T
  <1> DEFINE U == {k \in 0..n : k \notin T}
  <1>1. SUFFICES ASSUME U # {} PROVE FALSE
    OBVIOUS
  <1>2. PICK k \in U : \A j \in U : ~ (j < k)
    <2>1. U \subseteq Nat
      OBVIOUS
    <2>2. PICK k \in U : \A j \in U : <<j, k>> \notin OpToRel(<, Nat)
      BY <1>1, <2>1, NatLessThanWellFounded, WFMin
    <2> QED BY <2>1, <2>2 DEF OpToRel
  <1>3. k - 1 \in 0..(n - 1) /\ k - 1 \notin U
    BY <1>2
  <1> QED BY <1>2, <1>3

\* What a recursion over 0..n that starts at base and goes on by step defines.
Recurs(f, n, X, base, step) ==
    /\ f \in [0..n -> X]
    /\ f[0] = base
    /\ \A k \in 1..n : f[k] = step[<<k, f[k - 1]>>]

LEMMA Recursion ==
    ASSUME NEW n \in Nat, NEW X, NEW base \in X, NEW step \in [(1..n) \X X -> X]
    PROVE  \E f : Recurs(f, n, X, base, step)
  <1> DEFINE Fits(f, m) == f[0] = base /\ \A k \in 1..m : f[k] = step[<<k, f[k - 1]>>]
             T == {m \in 0..n : \E f \in [0..m -> X] : Fits(f, m)}
  <1>1. 0 \in T
    <2> DEFINE f == [k \in 0..0 |-> base]
    <2>1. f \in [0..0 -> X] /\ Fits(f, 0)
      OBVIOUS
    <2> HIDE DEF f, Fits
    <2> QED BY <2>1
  <1>2. ASSUME NEW m \in 0..(n - 1), m \in T PROVE m + 1 \in T
    <2>1. PICK f \in [0..m -> X] : Fits(f, m)
      BY <1>2
    <2> DEFINE g == [k \in 0..(m + 1) |-> IF k = m + 1 THEN step[<<m + 1, f[m]>>] ELSE f[k]]
    <2>2. g \in [0..(m + 1) -> X]
      <3>1. <<m + 1, f[m]>> \in (1..n) \X X
        OBVIOUS
      <3> QED BY <3>1
    <2>3. Fits(g, m + 1)
      <3>1. g[0] = base
        BY <2>1
      <3>2. ASSUME NEW k \in 1..(m + 1) PROVE g[k] = step[<<k, g[k - 1]>>]
        <4>1. CASE k = m + 1
          <5>1. g[m + 1] = step[<<m + 1, f[m]>>] /\ g[m] = f[m]
            OBVIOUS
          <5> HIDE DEF g
          <5> QED BY <4>1, <5>1
        <4>2. CASE k # m + 1
          BY <2>1, <4>2
        <4> QED BY <4>1, <4>2
      <3> QED BY <3>1, <3>2
    <2> HIDE DEF g, Fits
    <2> QED BY <2>2, <2>3
  <1>3. 0..n \subseteq T
    <2> HIDE DEF T
    <2> QED BY <1>1, <1>2, UpTo
  <1> QED BY <1>3 DEF Recurs

-----------------------------------------------------------------------------
(* Powers of the base                                                        *)

LEMMA PowerIs ==
    /\ Power \in [0..(2 * Digits) -> Nat]
    /\ Power[0] = 1
    /\ \A k \in 1..(2 * Digits) : Power[k] = Radix * Power[k - 1]
  <1> DEFINE D == 2 * Digits
  <1>1. D \in Nat /\ Radix \in Nat
    BY FixpointAssumption
  <1>2. PICK X : X = Nat
    OBVIOUS
  <1> DEFINE step == [x \in (1..D) \X X |-> Radix * x[2]]
  <1>3. step \in [(1..D) \X X -> X] /\ 1 \in X
    BY <1>1, <1>2
  <1>4. PICK f : Recurs(f, D, X, 1, step)
    <2> HIDE DEF D, step
    <2> QED BY <1>1, <1>3, Recursion
  <1>5. ASSUME NEW k \in 1..D PROVE f[k] = Radix * f[k - 1]
    <2>1. <<k, f[k - 1]>> \in (1..D) \X X
      BY <1>1, <1>4 DEF Recurs
    <2> QED BY <1>4, <2>1 DEF Recurs
  <1>6. f = [k \in 0..D |-> IF k = 0 THEN 1 ELSE Radix * f[k - 1]]
    BY <1>1, <1>2, <1>4, <1>5 DEF Recurs
  <1>7. Power = [k \in 0..D |-> IF k = 0 THEN 1 ELSE Radix * Power[k - 1]]
    BY <1>6 DEF Power
  <1>8. Power[0] = 1 /\ \A k \in 1..D : Power[k] = Radix * Power[k - 1]
    BY <1>1, <1>7
  <1>9. 0..D \subseteq {k \in 0..D : Power[k] \in Nat}
    <2> DEFINE T == {k \in 0..D : Power[k] \in Nat}
    <2>1. 0 \in T
      BY <1>1, <1>8
    <2>2. ASSUME NEW k \in 0..(D - 1), k \in T PROVE k + 1 \in T
      <3>1. k + 1 \in 1..D /\ Power[k] \in Nat
        BY <1>1, <2>2
      <3> QED BY <1>1, <1>8, <3>1
    <2>3. 0..D \subseteq T
      <3> HIDE DEF T, D
      <3> QED BY <1>1, <2>1, <2>2, UpTo
    <2> QED BY <2>3
  <1> QED BY <1>1, <1>7, <1>8, <1>9

LEMMA PowerStep ==
    ASSUME NEW k \in Nat, k < 2 * Digits
    PROVE  Power[k] \in Nat /\ Power[k + 1] \in Nat /\ Power[k + 1] = Radix * Power[k]
  <1>1. /\ k + 1 \in 1..(2 * Digits) /\ (k + 1) - 1 = k
        /\ k \in 0..(2 * Digits) /\ k + 1 \in 0..(2 * Digits)
    BY FixpointAssumption
  <1>2. Power[k + 1] = Radix * Power[(k + 1) - 1]
    BY <1>1, PowerIs
  <1> QED BY <1>1, <1>2, PowerIs

LEMMA PowersGrow ==
    \A k \in 0..(2 * Digits) : /\ Power[k] \in Nat /\ Power[k] >= 1
                               /\ k >= 1 => Power[k] >= 2
  <1> DEFINE D == 2 * Digits
             T == {k \in 0..D : Power[k] >= 1 /\ (k >= 1 => Power[k] >= 2)}
  <1>1. D \in Nat /\ Radix \in Nat /\ Radix >= 2
    BY FixpointAssumption
  <1>2. 0 \in T
    BY <1>1, PowerIs
  <1>3. ASSUME NEW k \in 0..(D - 1), k \in T PROVE k + 1 \in T
    <2>1. /\ k + 1 \in 1..D /\ Power[k] \in Nat /\ Power[k] >= 1
          /\ Power[k + 1] \in Nat /\ Power[k + 1] = Radix * Power[k]
      BY <1>1, <1>3, PowerStep
    <2>2. Radix * Power[k] >= 2
      BY <1>1, <2>1
    <2> QED BY <2>1, <2>2
  <1>4. 0..D \subseteq T
    <2> HIDE DEF T, D
    <2> QED BY <1>1, <1>2, <1>3, UpTo
  <1> QED BY <1>4, PowerIs

LEMMA PowersAdd ==
    ASSUME NEW i \in 0..(2 * Digits), NEW j \in 0..(2 * Digits - i)
    PROVE  Power[i + j] = Power[i] * Power[j]
  <1> DEFINE D == 2 * Digits
             T == {k \in 0..(D - i) : Power[i + k] = Power[i] * Power[k]}
  <1>1. D \in Nat /\ Radix \in Nat /\ D - i \in Nat
    BY FixpointAssumption
  <1>2. 0 \in T
    <2>1. Power[0] = 1 /\ Power[i] \in Nat
      BY <1>1, PowerIs
    <2>2. i + 0 = i /\ Power[i] * 1 = Power[i] /\ 0 \in 0..(D - i)
      BY <1>1, <2>1
    <2> QED BY <2>1, <2>2
  <1>3. ASSUME NEW k \in 0..(D - i - 1), k \in T PROVE k + 1 \in T
    <2>1. /\ Power[k] \in Nat /\ Power[i] \in Nat /\ Power[i + k] \in Nat
          /\ Power[k + 1] = Radix * Power[k]
          /\ Power[(i + k) + 1] = Radix * Power[i + k]
      <3>1. k \in Nat /\ k < D /\ i + k \in Nat /\ i + k < D /\ i \in 0..D
        BY <1>1
      <3> QED BY <3>1, PowerStep, PowerIs
    <2>4. Power[i + k] = Power[i] * Power[k]
      BY <1>3
    <2>5. i + (k + 1) = (i + k) + 1
      BY <1>1
    <2>2. Radix * (Power[i] * Power[k]) = Power[i] * (Radix * Power[k])
      BY <1>1, <2>1
    <2>3. Power[i + (k + 1)] = Power[i] * Power[k + 1]
      BY <2>1, <2>2, <2>4, <2>5
    <2> QED BY <1>1, <1>3, <2>3
  <1>4. 0..(D - i) \subseteq T
    <2> HIDE DEF T, D
    <2> QED BY <1>1, <1>2, <1>3, UpTo
  <1> QED BY <1>4

LEMMA PowersRise ==
    ASSUME NEW i \in 0..(2 * Digits), NEW j \in i..(2 * Digits)
    PROVE  Power[i] <= Power[j]
  <1>1. j - i \in 0..(2 * Digits - i) /\ j - i \in 0..(2 * Digits) /\ i + (j - i) = j
    BY FixpointAssumption
  <1>2. PICK a \in Nat, b \in Nat : a = Power[i] /\ b = Power[j - i] /\ a >= 1 /\ b >= 1
    BY <1>1, PowersGrow
  <1>3. Power[j] = a * b
    <2>1. Power[i + (j - i)] = Power[i] * Power[j - i]
      BY <1>1, PowersAdd
    <2> QED BY <1>1, <1>2, <2>1
  <1>4. a * b >= a
    BY <1>2
  <1> QED BY <1>2, <1>3, <1>4

LEMMA BaseIs == B \in Nat /\ B >= 2 /\ B * B \in Nat /\ B * B > B
  <1>1. B \in Nat /\ B >= 2
    BY PowersGrow, FixpointAssumption DEF B
  <1> QED BY <1>1

-----------------------------------------------------------------------------
(* Quotients and remainders                                                  *)

LEMMA Divides ==
    ASSUME NEW a \in Int, NEW n \in Nat, n > 0
    PROVE  /\ a \div n \in Int /\ a % n \in 0..(n - 1)
           /\ a = (a \div n) * n + (a % n)
  <1>1. (a \div n) * n + (a % n) = a
    BY Z3
  <1> QED BY <1>1

LEMMA Quotient ==
    ASSUME NEW q \in Int, NEW n \in Nat, n > 0, NEW r \in 0..(n - 1)
    PROVE  (q * n + r) \div n = q /\ (q * n + r) % n = r
  <1> DEFINE a == q * n + r
  <1>1. a \in Int
    OBVIOUS
  <1>2. PICK p \in Int : p = a \div n
    BY <1>1, Divides
  <1>3. PICK s \in 0..(n - 1) : s = a % n
    BY <1>1, Divides
  <1>4. q * n + r = p * n + s
    <2> HIDE DEF a
    <2>1. a = p * n + s
      BY <1>1, <1>2, <1>3, Divides
    <2> QED BY <2>1 DEF a
  <1>5. (q - p) * n = s - r
    BY <1>4
  <1>6. ~ (q - p >= 1)
    <2> SUFFICES ASSUME q - p >= 1 PROVE FALSE
      OBVIOUS
    <2>1. (q - p) * n >= n
      OBVIOUS
    <2> QED BY <1>5, <2>1
  <1>7. ~ (p - q >= 1)
    <2> SUFFICES ASSUME p - q >= 1 PROVE FALSE
      OBVIOUS
    <2>1. (p - q) * n >= n /\ (p - q) * n = - ((q - p) * n)
      OBVIOUS
    <2> QED BY <1>5, <2>1
  <1>8. q = p
    BY <1>6, <1>7
  <1>9. r = s
    BY <1>4, <1>8
  <1> QED BY <1>2, <1>3, <1>8, <1>9

\* The remainders of numbers that are at most once too large or too small.
LEMMA WrapsOnce ==
    ASSUME NEW n \in Nat, n > 0, NEW a \in (-n)..(2 * n - 1)
    PROVE  a % n = IF a < 0 THEN a + n ELSE IF a < n THEN a ELSE a - n
  <1>1. CASE a < 0
    <2>1. a + n \in 0..(n - 1) /\ a = (-1) * n + (a + n)
      BY <1>1
    <2>2. ((-1) * n + (a + n)) % n = a + n
      BY <2>1, Quotient
    <2> QED BY <1>1, <2>1, <2>2
  <1>2. CASE a \in 0..(n - 1)
    <2>1. (0 * n + a) % n = a
      BY <1>2, Quotient
    <2> QED BY <1>2, <2>1
  <1>3. CASE a >= n
    <2>1. a - n \in 0..(n - 1) /\ a = 1 * n + (a - n)
      BY <1>3
    <2>2. (1 * n + (a - n)) % n = a - n
      BY <2>1, Quotient
    <2> QED BY <1>3, <2>1, <2>2
  <1> QED BY <1>1, <1>2, <1>3

-----------------------------------------------------------------------------
(* Magnitudes                                                                *)

\* The magnitude of a number, in units of its last place.
Units(x) == x.whole * B + x.frac

LEMMA Higher ==
    ASSUME NEW b \in Nat, NEW u \in Nat, NEW v \in Nat, u < v,
           NEW p \in 0..(b - 1), NEW q \in Nat
    PROVE  u * b + p < v * b + q
  <1>1. PICK d \in Nat : v = u + 1 + d
    <2>1. v - u - 1 \in Nat /\ v = u + 1 + (v - u - 1)
      OBVIOUS
    <2> QED BY <2>1
  <1>2. v * b = u * b + b + d * b /\ d * b \in Nat /\ u * b \in Nat
    BY <1>1
  <1> QED BY <1>2

LEMMA WrapSum ==
    ASSUME NEW u \in Word, NEW v \in 0..B
    PROVE  Wrap32(u + v) = IF u + v < B THEN u + v ELSE u + v - B
  <1>1. PICK a \in Int : a = u + v
    BY BaseIs DEF Word
  <1>2. a \in (-B)..(2 * B - 1) /\ ~ (a < 0)
    BY <1>1, BaseIs DEF Word
  <1>3. a % B = IF a < 0 THEN a + B ELSE IF a < B THEN a ELSE a - B
    BY <1>2, BaseIs, WrapsOnce
  <1>4. Wrap32(u + v) = a % B
    BY <1>1 DEF Wrap32
  <1>5. a % B = IF a < B THEN a ELSE a - B
    BY <1>2, <1>3
  <1>6. u \in Int /\ v \in Int /\ B \in Int
    BY BaseIs DEF Word
  <1> QED BY <1>1, <1>4, <1>5, <1>6

LEMMA WrapDifference ==
    ASSUME NEW u \in Word, NEW v \in 0..B
    PROVE  Wrap32(u - v) = IF u - v < 0 THEN u - v + B ELSE u - v
  <1>1. PICK a \in Int : a = u - v
    BY BaseIs DEF Word
  <1>2. a \in (-B)..(2 * B - 1) /\ a < B
    BY <1>1, BaseIs DEF Word
  <1>3. a % B = IF a < 0 THEN a + B ELSE IF a < B THEN a ELSE a - B
    BY <1>2, BaseIs, WrapsOnce
  <1>4. Wrap32(u - v) = a % B
    BY <1>1 DEF Wrap32
  <1> QED BY <1>1, <1>2, <1>3, <1>4

LEMMA UnitsIs ==
    ASSUME NEW x \in Fixpoints
    PROVE  /\ x.whole \in Word /\ x.frac \in Word /\ x.negative \in BOOLEAN
           /\ Units(x) \in 0..(B * B - 1)
           /\ IsZero(x) <=> Units(x) = 0
  <1>1. x.whole \in Word /\ x.frac \in Word /\ x.negative \in BOOLEAN
    BY DEF Fixpoints
  <1>2. x.whole * B + x.frac < B * B + 0
    BY <1>1, BaseIs, Higher DEF Word
  <1>3. x.whole * B \in Nat /\ (x.whole * B = 0 <=> x.whole = 0)
    BY <1>1, BaseIs DEF Word
  <1>4. x.whole * B + x.frac \in 0..(B * B - 1)
    BY <1>1, <1>2, <1>3, BaseIs DEF Word
  <1>5. x.whole = 0 /\ x.frac = 0 <=> x.whole * B + x.frac = 0
    BY <1>1, <1>3 DEF Word
  <1> QED BY <1>1, <1>4, <1>5 DEF Units, IsZero

LEMMA CmpMagnitudeIs ==
    ASSUME NEW x \in Fixpoints, NEW y \in Fixpoints
    PROVE  /\ CmpMagnitude(x, y) < 0 => CmpMagnitude(x, y) = -1 /\ Units(x) < Units(y)
           /\ CmpMagnitude(x, y) = 0 => Units(x) = Units(y)
           /\ CmpMagnitude(x, y) > 0 => CmpMagnitude(x, y) = 1 /\ Units(x) > Units(y)
           /\ CmpMagnitude(x, y) \in Int
  <1>1. /\ x.whole \in Word /\ x.frac \in Word /\ y.whole \in Word /\ y.frac \in Word
        /\ B \in Nat
    BY UnitsIs, BaseIs
  <1>2. CASE x.whole # y.whole
    <2>1. /\ x.whole \in Nat /\ y.whole \in Nat /\ x.frac \in Nat /\ y.frac \in Nat
          /\ x.frac \in 0..(B - 1) /\ y.frac \in 0..(B - 1)
      BY <1>1 DEF Word
    <2>3. x.whole < y.whole => Units(x) < Units(y)
      BY <1>1, <2>1, Higher DEF Units
    <2>4. y.whole < x.whole => Units(y) < Units(x)
      BY <1>1, <2>1, Higher DEF Units
    <2>2. CmpMagnitude(x, y) = IF x.whole < y.whole THEN -1 ELSE 1
      BY <1>2 DEF CmpMagnitude
    <2> QED BY <1>1, <1>2, <2>1, <2>2, <2>3, <2>4 DEF Word
  <1>3. CASE x.whole = y.whole /\ x.frac # y.frac
    <2>1. CmpMagnitude(x, y) = IF x.frac < y.frac THEN -1 ELSE 1
      BY <1>3 DEF CmpMagnitude
    <2>2. x.whole * B \in Int /\ x.whole * B = y.whole * B
      BY <1>1, <1>3 DEF Word
    <2> QED BY <1>1, <1>3, <2>1, <2>2 DEF Word, Units
  <1>4. CASE x.whole = y.whole /\ x.frac = y.frac
    <2>1. CmpMagnitude(x, y) = 0
      BY <1>4 DEF CmpMagnitude
    <2> QED BY <1>4, <2>1 DEF Units
  <1> QED BY <1>2, <1>3, <1>4

\* The parts m are those of s without the places above them.
AddsUp(m, s) ==
    /\ m.whole \in Word /\ m.frac \in Word
    /\ m.overflow \in BOOLEAN
    /\ m.overflow <=> s >= B * B
    /\ m.whole * B + m.frac = IF s >= B * B THEN s - B * B ELSE s

LEMMA AddMagnitudeIs ==
    ASSUME NEW x \in Fixpoints, NEW y \in Fixpoints
    PROVE  AddsUp(AddMagnitude(x, y), Units(x) + Units(y))
  <1> DEFINE rf    == Wrap32(x.frac + y.frac)
             carry == Carry(rf < x.frac)
             sum   == Wrap32(x.whole + y.whole)
             rw    == Wrap32(sum + carry)
             over  == sum < x.whole \/ rw < carry
  <1>1. /\ x.whole \in Word /\ x.frac \in Word /\ y.whole \in Word /\ y.frac \in Word
        /\ B \in Nat /\ B >= 2
    BY UnitsIs, BaseIs
  <1>2. /\ rf = IF x.frac + y.frac < B THEN x.frac + y.frac ELSE x.frac + y.frac - B
        /\ carry = IF x.frac + y.frac < B THEN 0 ELSE 1
    <2>1. rf = IF x.frac + y.frac < B THEN x.frac + y.frac ELSE x.frac + y.frac - B
      BY <1>1, WrapSum DEF Word
    <2> QED BY <1>1, <2>1 DEF Word, Carry
  <1>3. /\ sum = IF x.whole + y.whole < B THEN x.whole + y.whole ELSE x.whole + y.whole - B
        /\ sum \in Word
    <2>1. sum = IF x.whole + y.whole < B THEN x.whole + y.whole ELSE x.whole + y.whole - B
      BY <1>1, WrapSum DEF Word
    <2> QED BY <1>1, <2>1 DEF Word
  <1>4. rw = IF sum + carry < B THEN sum + carry ELSE sum + carry - B
    <2>1. carry \in 0..B
      BY <1>1, <1>2
    <2> HIDE DEF sum, carry
    <2> QED BY <1>1, <1>3, <2>1, WrapSum
  <1>5. AddMagnitude(x, y) = [whole |-> rw, frac |-> rf, overflow |-> over]
    BY DEF AddMagnitude
  <1> HIDE DEF rw, rf, sum, carry
  <1>6. rf \in Word /\ rw \in Word
    BY <1>1, <1>2, <1>3, <1>4 DEF Word
  <1> DEFINE t == x.whole + y.whole + carry
  <1>7. /\ x.frac + y.frac = carry * B + rf
        /\ t = IF over THEN B + rw ELSE rw
    <2>1. x.frac + y.frac = carry * B + rf
      BY <1>1, <1>2 DEF Word
    <2>2. t = IF over THEN B + rw ELSE rw
      BY <1>1, <1>2, <1>3, <1>4, <1>6 DEF Word
    <2> QED BY <2>1, <2>2
  <1> HIDE DEF over
  <1>8. Units(x) + Units(y) = t * B + rf
    <2>1. /\ x.whole * B \in Int /\ y.whole * B \in Int /\ carry * B \in Int
          /\ t * B = x.whole * B + y.whole * B + carry * B
      BY <1>1, <1>2 DEF Word
    <2> HIDE DEF t
    <2>2. Units(x) = x.whole * B + x.frac /\ Units(y) = y.whole * B + y.frac
      BY DEF Units
    <2>3. /\ x.frac \in Int /\ y.frac \in Int /\ rf \in Int
          /\ x.frac + y.frac = carry * B + rf
      BY <1>1, <1>6, <1>7 DEF Word
    <2> HIDE DEF Units
    <2> QED BY <2>1, <2>2, <2>3
  <1>9. /\ over => t * B = B * B + rw * B
        /\ ~ over => t * B = rw * B
    <2> HIDE DEF t
    <2> QED BY <1>1, <1>6, <1>7 DEF Word
  <1>10. rw * B + rf < B * B + 0 /\ rw * B + rf >= 0
    BY <1>1, <1>6, Higher DEF Word
  <1>11. over \in BOOLEAN
    BY DEF over
  <1> QED
    <2> HIDE DEF t
    <2>1. B * B \in Nat /\ rw * B \in Nat /\ rf \in Nat
      BY <1>1, <1>6 DEF Word
    <2> QED BY <1>5, <1>6, <1>8, <1>9, <1>10, <1>11, <2>1 DEF AddsUp

LEMMA WrapWord ==
    ASSUME NEW a \in Word
    PROVE  Wrap32(a) = a
  <1>1. a \in 0..(B - 1) /\ a < B /\ ~ (a < 0) /\ a \in (-B)..(2 * B - 1)
    BY BaseIs DEF Word
  <1>2. a % B = a
    BY <1>1, BaseIs, WrapsOnce
  <1> QED BY <1>2 DEF Wrap32

LEMMA SubMagnitudeIs ==
    ASSUME NEW x \in Fixpoints, NEW y \in Fixpoints, Units(x) >= Units(y)
    PROVE  LET m == SubMagnitude(x, y)
           IN  /\ m.whole \in Word /\ m.frac \in Word
               /\ m.whole * B + m.frac = Units(x) - Units(y)
  <1> DEFINE borrow == Carry(x.frac < y.frac)
             rf == Wrap32(x.frac - y.frac)
             rw == x.whole - y.whole - borrow
  <1>1. /\ x.whole \in Word /\ x.frac \in Word /\ y.whole \in Word /\ y.frac \in Word
        /\ B \in Nat /\ B >= 2
    BY UnitsIs, BaseIs
  <1>2. /\ borrow = IF x.frac < y.frac THEN 1 ELSE 0
        /\ rf = IF x.frac - y.frac < 0 THEN x.frac - y.frac + B ELSE x.frac - y.frac
    BY <1>1, WrapDifference DEF Carry, Word
  <1>3. /\ x.whole \in Nat /\ y.whole \in Nat /\ x.frac \in 0..(B - 1) /\ y.frac \in 0..(B - 1)
        /\ x.frac \in Nat /\ y.frac \in Nat
    BY <1>1 DEF Word
  <1>4. ~ (x.whole < y.whole)
    <2>1. x.whole < y.whole => x.whole * B + x.frac < y.whole * B + y.frac
      BY <1>1, <1>3, Higher
    <2>2. Units(x) \in Int /\ Units(y) \in Int
      BY UnitsIs
    <2> QED BY <2>1, <2>2 DEF Units
  <1>5. x.whole = y.whole => ~ (x.frac < y.frac)
    <2> SUFFICES ASSUME x.whole = y.whole PROVE ~ (x.frac < y.frac)
      OBVIOUS
    <2>1. x.whole * B = y.whole * B /\ x.whole * B \in Int
      BY <1>1, <1>3
    <2> QED BY <1>3, <2>1 DEF Units
  <1>6. rw \in Word /\ rf \in Word
    BY <1>1, <1>2, <1>3, <1>4, <1>5 DEF Word
  <1>7. SubMagnitude(x, y) = [whole |-> rw, frac |-> rf]
    <2>1. SubMagnitude(x, y) = [whole |-> Wrap32(rw), frac |-> rf]
      BY DEF SubMagnitude
    <2> HIDE DEF rw, rf
    <2> QED BY <1>6, <2>1, WrapWord
  <1>8. rw * B + rf = Units(x) - Units(y)
    <2>1. /\ x.whole * B \in Int /\ y.whole * B \in Int /\ borrow * B \in Int
          /\ (x.whole - y.whole - borrow) * B = x.whole * B - y.whole * B - borrow * B
      BY <1>1, <1>2, <1>3
    <2>2. rf = x.frac - y.frac + borrow * B
      BY <1>1, <1>2, <1>3
    <2> HIDE DEF borrow, rf
    <2> QED BY <1>3, <2>1, <2>2 DEF Units
  <1> HIDE DEF rw, rf
  <1> QED BY <1>6, <1>7, <1>8

-----------------------------------------------------------------------------
(* Products                                                                  *)

\* When the two inner products exceed a double word, so does the outer one.
LEMMA CrossProducts ==
    ASSUME NEW b \in Nat, b >= 2,
           NEW u \in 0..(b - 1), NEW v \in 0..(b - 1), NEW f \in 0..(b - 1), NEW g \in 0..(b - 1),
           u * g + f * v >= b * b
    PROVE  u * v >= b
  <1>1. u * g <= u * (b - 1) /\ f * v <= (b - 1) * v
    OBVIOUS
  <1>2. (u + v) * (b - 1) = u * (b - 1) + (b - 1) * v
    OBVIOUS
  <1>3. u * g \in Int /\ f * v \in Int /\ u * (b - 1) \in Int /\ (b - 1) * v \in Int /\ b * b \in Int
    OBVIOUS
  <1>4. (u + v) * (b - 1) >= b * b
    BY <1>1, <1>2, <1>3
  <1>5. ~ (u + v <= b + 1)
    <2> SUFFICES ASSUME u + v <= b + 1 PROVE FALSE
      OBVIOUS
    <2>1. (u + v) * (b - 1) <= (b + 1) * (b - 1)
      OBVIOUS
    <2>2. (b + 1) * (b - 1) = b * b - 1
      OBVIOUS
    <2> QED BY <1>3, <1>4, <2>1, <2>2
  <1>6. u - 1 >= 1 /\ v - 1 >= 1
    BY <1>5
  <1>7. (u - 1) * (v - 1) >= 1
    BY <1>6
  <1>8. (u - 1) * (v - 1) = u * v - u - v + 1
    OBVIOUS
  <1> QED BY <1>5, <1>7, <1>8

\* A multiple of b wraps at b * b as its factor wraps at b.
LEMMA WrapMultiple ==
    ASSUME NEW b \in Nat, b >= 2, NEW n \in Nat
    PROVE  (n * b) % (b * b) = (n % b) * b /\ (n % b) * b \in 0..(b * b - b)
  <1>1. PICK q \in Int, r \in 0..(b - 1) : q = n \div b /\ r = n % b /\ n = q * b + r
    BY Divides
  <1>2. r * b \in 0..(b * b - b)
    <2>1. r * b <= (b - 1) * b /\ (b - 1) * b = b * b - b /\ r * b \in Nat
      OBVIOUS
    <2> QED BY <2>1
  <1>3. n * b = q * (b * b) + r * b
    <2>1. (q * b + r) * b = q * (b * b) + r * b
      OBVIOUS
    <2>2. n = q * b + r
      BY <1>1
    <2> QED BY <2>1, <2>2
  <1>4. PICK m \in Nat : m = b * b /\ m > 0
    OBVIOUS
  <1>5. PICK s \in 0..(m - 1) : s = r * b
    BY <1>2, <1>4
  <1>6. (q * m + s) % m = s
    BY <1>4, Quotient
  <1>7. n * b = q * m + s
    BY <1>3, <1>4, <1>5
  <1> QED BY <1>1, <1>2, <1>4, <1>5, <1>6, <1>7

\* The sums of mul, on the parts u, f and v, g: the two middle words of the
\* product, whether anything is above them, and whether anything is below.
ProductFits(b, u, v, f, g) ==
    LET n    == b * b
        t0   == f * g
        t3   == u * v
        sum  == (u * g + f * v) % n
        mid0 == (t3 * b) % n
        mid1 == (mid0 + sum) % n
        mid2 == (mid1 + t0 \div b) % n
        high == (t3 + sum \div b + Carry((t0 + sum * b) % n < t0)
                 + Carry(mid1 < mid0) + Carry(mid2 < mid1)) % n
        p    == (u * b + f) * (v * b + g)
    IN  /\ mid2 = (p \div b) % n
        /\ high \div b # 0 <=> p \div b >= n
        /\ t0 % b = p % b

LEMMA ProductParts ==
    ASSUME NEW b \in Nat, b >= 2,
           NEW u \in 0..(b - 1), NEW v \in 0..(b - 1), NEW f \in 0..(b - 1), NEW g \in 0..(b - 1)
    PROVE  ProductFits(b, u, v, f, g)
  <1>1. PICK n \in Nat : n = b * b /\ n >= 2 * b /\ n > 0
    <2>1. b * b \in Nat /\ b * b >= 2 * b
      OBVIOUS
    <2> QED BY <2>1
  <1>2. PICK t0 \in Nat : t0 = f * g /\ t0 <= n - 2 * b + 1
    <2>1. f * g \in Nat /\ f * g <= (b - 1) * (b - 1) /\ (b - 1) * (b - 1) = b * b - 2 * b + 1
      OBVIOUS
    <2> QED BY <1>1, <2>1
  <1>3. PICK t3 \in Nat : t3 = u * v /\ t3 <= n - 2 * b + 1
    <2>1. u * v \in Nat /\ u * v <= (b - 1) * (b - 1) /\ (b - 1) * (b - 1) = b * b - 2 * b + 1
      OBVIOUS
    <2> QED BY <1>1, <2>1
  <1>4. PICK c \in Nat : c = u * g + f * v /\ c <= 2 * n - 4 * b + 2
    <2>1. u * g \in Nat /\ u * g <= (b - 1) * (b - 1) /\ (b - 1) * (b - 1) = b * b - 2 * b + 1
      OBVIOUS
    <2>2. f * v \in Nat /\ f * v <= (b - 1) * (b - 1)
      OBVIOUS
    <2> QED BY <1>1, <2>1, <2>2
  \* The product, its part above the last word, and that last word.
  <1>5. PICK h \in Nat, l \in 0..(b - 1) : h = t0 \div b /\ l = t0 % b /\ t0 = h * b + l /\ h <= b - 2
    <2>1. PICK h \in Int, l \in 0..(b - 1) : h = t0 \div b /\ l = t0 % b /\ t0 = h * b + l
      BY Divides
    <2>2. h * b <= (b - 1) * (b - 1)
      BY <1>1, <1>2, <2>1
    <2>3. ~ (h >= b - 1)
      <3> SUFFICES ASSUME h >= b - 1 PROVE FALSE
        OBVIOUS
      <3>1. h * b >= (b - 1) * b /\ (b - 1) * b = (b - 1) * (b - 1) + (b - 1)
        OBVIOUS
      <3>2. (b - 1) * (b - 1) \in Int /\ h * b \in Int
        OBVIOUS
      <3> QED BY <2>2, <3>1, <3>2
    <2>4. ~ (h <= -1)
      <3> SUFFICES ASSUME h <= -1 PROVE FALSE
        OBVIOUS
      <3>1. h * b <= (-1) * b
        OBVIOUS
      <3> QED BY <2>1, <3>1
    <2> QED BY <2>1, <2>3, <2>4
  <1>6. PICK m \in Nat : m = t3 * b + c + h
    <2>1. t3 * b \in Nat
      OBVIOUS
    <2> QED BY <2>1
  <1>7. (u * b + f) * (v * b + g) = m * b + l
    <2>1. (u * b + f) * (v * b + g) = (u * v) * (b * b) + (u * g + f * v) * b + f * g
      OBVIOUS
    <2>2. (u * b + f) * (v * b + g) = t3 * (b * b) + c * b + t0
      BY <1>2, <1>3, <1>4, <2>1
    <2>3. m * b = t3 * (b * b) + c * b + h * b
      <3>1. (t3 * b + c + h) * b = t3 * (b * b) + c * b + h * b
        OBVIOUS
      <3> QED BY <1>6, <3>1
    <2>4. t3 * (b * b) \in Int /\ c * b \in Int /\ h * b \in Int
      OBVIOUS
    <2> QED BY <1>5, <2>2, <2>3, <2>4
  <1>8. (m * b + l) \div b = m /\ (m * b + l) % b = l
    BY Quotient
  \* The sums, each of which wraps once or not at all.
  <1>9. PICK sum \in 0..(n - 1) : sum = c % n /\ sum = IF c < n THEN c ELSE c - n
    <2>1. c \in (-n)..(2 * n - 1) /\ ~ (c < 0)
      BY <1>1, <1>4
    <2>2. c % n = IF c < n THEN c ELSE c - n
      BY <1>1, <2>1, WrapsOnce
    <2> QED BY <1>1, <2>1, <2>2
  <1>10. PICK q3 \in Nat, r3 \in 0..(b - 1) : t3 = q3 * b + r3 /\ r3 = t3 % b
    <2>1. PICK q \in Int, r \in 0..(b - 1) : q = t3 \div b /\ r = t3 % b /\ t3 = q * b + r
      BY Divides
    <2>2. ~ (q <= -1)
      <3> SUFFICES ASSUME q <= -1 PROVE FALSE
        OBVIOUS
      <3>1. q * b <= (-1) * b
        OBVIOUS
      <3> QED BY <2>1, <3>1
    <2>3. q \in Nat
      BY <2>2
    <2> QED BY <2>1, <2>3
  <1>11. PICK mid0 \in 0..(n - b) : mid0 = (t3 * b) % n /\ t3 * b = q3 * n + mid0
    <2>1. (t3 * b) % (b * b) = r3 * b /\ r3 * b \in 0..(b * b - b)
      BY <1>10, WrapMultiple
    <2>2. t3 * b = q3 * (b * b) + r3 * b
      <3>1. (q3 * b + r3) * b = q3 * (b * b) + r3 * b
        OBVIOUS
      <3>2. t3 = q3 * b + r3
        BY <1>10
      <3> QED BY <3>1, <3>2
    <2> QED BY <1>1, <2>1, <2>2
  <1>12. PICK mid1 \in 0..(n - 1) : /\ mid1 = (mid0 + sum) % n
                                    /\ mid1 = IF mid0 + sum < n THEN mid0 + sum ELSE mid0 + sum - n
    <2>1. PICK a \in Nat : a = mid0 + sum
      BY <1>1
    <2>2. a \in (-n)..(2 * n - 1) /\ ~ (a < 0)
      BY <1>1, <2>1
    <2>3. a % n = IF a < n THEN a ELSE a - n
      BY <1>1, <2>2, WrapsOnce
    <2> QED BY <1>1, <2>1, <2>2, <2>3
  <1>13. PICK mid2 \in 0..(n - 1) : /\ mid2 = (mid1 + h) % n
                                    /\ mid2 = IF mid1 + h < n THEN mid1 + h ELSE mid1 + h - n
    <2>1. PICK a \in Nat : a = mid1 + h
      BY <1>1
    <2>2. a \in (-n)..(2 * n - 1) /\ ~ (a < 0)
      BY <1>1, <1>5, <2>1
    <2>3. a % n = IF a < n THEN a ELSE a - n
      BY <1>1, <2>2, WrapsOnce
    <2> QED BY <1>1, <2>1, <2>2, <2>3
  <1>14. PICK qs \in Nat, rs \in 0..(b - 1) : qs = sum \div b /\ sum = qs * b + rs /\ qs <= b - 1
    <2>1. PICK q \in Int, r \in 0..(b - 1) : q = sum \div b /\ sum = q * b + r
      BY Divides
    <2>2. ~ (q <= -1)
      <3> SUFFICES ASSUME q <= -1 PROVE FALSE
        OBVIOUS
      <3>1. q * b <= (-1) * b
        OBVIOUS
      <3> QED BY <2>1, <3>1
    <2>3. ~ (q >= b)
      <3> SUFFICES ASSUME q >= b PROVE FALSE
        OBVIOUS
      <3>1. q * b >= b * b
        OBVIOUS
      <3> QED BY <1>1, <2>1, <3>1
    <2> QED BY <2>1, <2>2, <2>3
  <1>15. PICK c0, c1, c2 \in {0, 1} : /\ c0 = Carry((t0 + sum * b) % n < t0)
                                      /\ c1 = Carry(mid1 < mid0)
                                      /\ c2 = Carry(mid2 < mid1)
    BY DEF Carry
  <1>16. /\ c1 = IF mid0 + sum < n THEN 0 ELSE 1
         /\ c2 = IF mid1 + h < n THEN 0 ELSE 1
    <2>1. mid1 < mid0 <=> ~ (mid0 + sum < n)
      BY <1>1, <1>12
    <2>2. mid2 < mid1 <=> ~ (mid1 + h < n)
      BY <1>1, <1>5, <1>13
    <2> QED BY <1>15, <2>1, <2>2 DEF Carry
  <1>17. PICK e \in 0..(n - b) : e = rs * b /\ sum * b = qs * n + e
    <2>1. rs * b \in Nat /\ rs * b <= (b - 1) * b /\ (b - 1) * b = b * b - b
      OBVIOUS
    <2>2. (qs * b + rs) * b = qs * (b * b) + rs * b
      OBVIOUS
    <2>3. sum = qs * b + rs
      BY <1>14
    <2> QED BY <1>1, <2>1, <2>2, <2>3
  <1>18. PICK low \in 0..(n - 1) : e + t0 = c0 * n + low
    <2> DEFINE low == IF e + t0 < n THEN e + t0 ELSE e + t0 - n
    <2>1. low \in 0..(n - 1)
      BY <1>1, <1>2
    <2>2. (t0 + sum * b) % n = low
      <3>1. PICK q \in Int : q = IF e + t0 < n THEN qs ELSE qs + 1
        OBVIOUS
      <3>2. (q * n + low) % n = low
        <4>1. PICK r \in 0..(n - 1) : r = low
          BY <2>1
        <4>2. (q * n + r) % n = r
          <5>1. q \in Int /\ n \in Nat /\ n > 0 /\ r \in 0..(n - 1)
            BY <1>1
          <5> QED BY <5>1, Quotient, Zenon
        <4> HIDE DEF low
        <4> QED BY <4>1, <4>2
      <3>3. q * n = qs * n + (IF e + t0 < n THEN 0 ELSE n)
        BY <3>1
      <3>4. t0 + sum * b = q * n + low
        <4>1. qs * n \in Int
          OBVIOUS
        <4> QED BY <1>17, <3>3, <4>1
      <3> HIDE DEF low
      <3> QED BY <3>2, <3>4
    <2>3. c0 = IF e + t0 < n THEN 0 ELSE 1
      BY <1>1, <1>2, <1>15, <2>2 DEF Carry
    <2>4. e + t0 = c0 * n + low
      BY <1>1, <1>2, <2>3
    <2> QED BY <2>1, <2>4
  \* How often n is in the middle words, and in the whole product.
  <1>19. PICK cw \in {0, 1} : cw = IF c < n THEN 0 ELSE 1
    OBVIOUS
  <1>20. PICK k \in Nat : k = q3 + cw + c1 + c2
    OBVIOUS
  <1>21. m = k * n + mid2
    <2>1. k * n = q3 * n + cw * n + c1 * n + c2 * n
      <3>1. (q3 + cw + c1 + c2) * n = q3 * n + cw * n + c1 * n + c2 * n
        OBVIOUS
      <3> QED BY <1>20, <3>1
    <2>2. c = sum + cw * n
      BY <1>9, <1>19
    <2>3. mid0 + sum = c1 * n + mid1 /\ mid1 + h = c2 * n + mid2
      BY <1>12, <1>13, <1>16
    <2>4. m = q3 * n + mid0 + c + h
      BY <1>6, <1>11
    <2>5. q3 * n \in Int /\ cw * n \in Int /\ c1 * n \in Int /\ c2 * n \in Int
      OBVIOUS
    <2> QED BY <2>1, <2>2, <2>3, <2>4, <2>5
  <1>22. m % n = mid2
    <2>1. PICK q \in Int, r \in 0..(n - 1) : q = k /\ r = mid2
      OBVIOUS
    <2>2. (q * n + r) % n = r
      BY ZenonT(60), <1>1, Quotient
    <2> QED BY <1>21, <2>1, <2>2
  <1>23. m >= n <=> k >= 1
    <2>1. k >= 1 => k * n >= n
      OBVIOUS
    <2>2. k = 0 => k * n = 0
      OBVIOUS
    <2>3. k * n \in Int
      OBVIOUS
    <2> QED BY <1>21, <2>1, <2>2, <2>3
  <1>24. PICK top \in Nat : top = t3 + qs + c0 + cw * b
    <2>1. cw * b \in Nat
      OBVIOUS
    <2> QED BY <2>1
  <1>25. m * b + l = top * n + low
    <2>1. m * b + l = t3 * n + c * b + t0
      <3>1. (t3 * b + c + h) * b + l = t3 * (b * b) + c * b + (h * b + l)
        OBVIOUS
      <3>2. m * b + l = t3 * (b * b) + c * b + (h * b + l)
        BY <1>6, <3>1
      <3> QED BY <1>1, <1>5, <3>2
    <2>2. c * b = sum * b + (cw * b) * n
      <3>1. c = sum + cw * n
        BY <1>9, <1>19
      <3>2. (sum + cw * n) * b = sum * b + (cw * b) * n
        OBVIOUS
      <3> QED BY <3>1, <3>2
    <2>3. top * n = t3 * n + qs * n + c0 * n + (cw * b) * n
      <3>1. (t3 + qs + c0 + cw * b) * n = t3 * n + qs * n + c0 * n + (cw * b) * n
        OBVIOUS
      <3> QED BY <1>24, <3>1
    <2>4. /\ t3 * n \in Int /\ qs * n \in Int /\ c0 * n \in Int /\ (cw * b) * n \in Int
          /\ sum * b \in Int /\ c * b \in Int /\ m * b \in Int /\ top * n \in Int
      OBVIOUS
    <2> QED BY <1>17, <1>18, <2>1, <2>2, <2>3, <2>4
  <1>26. m >= n <=> top >= b
    <2>1. ASSUME m >= n PROVE top >= b
      <3> SUFFICES ASSUME top <= b - 1 PROVE FALSE
        OBVIOUS
      <3>1. top * n <= (b - 1) * n /\ (b - 1) * n = b * n - n
        OBVIOUS
      <3>2. m * b >= n * b /\ n * b = b * n
        BY <2>1
      <3>3. top * n \in Int /\ m * b \in Int /\ b * n \in Int
        OBVIOUS
      <3> QED BY <1>25, <3>1, <3>2, <3>3
    <2>2. ASSUME top >= b PROVE m >= n
      <3> SUFFICES ASSUME m <= n - 1 PROVE FALSE
        OBVIOUS
      <3>1. top * n >= b * n
        BY <2>2
      <3>2. m * b <= (n - 1) * b /\ (n - 1) * b = b * n - b
        OBVIOUS
      <3>3. top * n \in Int /\ m * b \in Int /\ b * n \in Int
        OBVIOUS
      <3> QED BY <1>25, <3>1, <3>2, <3>3
    <2> QED BY <2>1, <2>2
  <1>27. top <= n - 2
    <2>1. PICK x \in Nat : x = u * b + f /\ x <= n - 1
      <3>1. u * b <= (b - 1) * b /\ (b - 1) * b = b * b - b /\ u * b \in Nat
        OBVIOUS
      <3> QED BY <1>1, <3>1
    <2>2. PICK y \in Nat : y = v * b + g /\ y <= n - 1
      <3>1. v * b <= (b - 1) * b /\ (b - 1) * b = b * b - b /\ v * b \in Nat
        OBVIOUS
      <3> QED BY <1>1, <3>1
    <2>3. x * y = top * n + low
      BY <1>7, <1>25, <2>1, <2>2
    <2>4. x * y <= (n - 1) * (n - 1) /\ (n - 1) * (n - 1) = (n - 1) * n - n + 1
      <3>1. x * y <= (n - 1) * y
        BY <2>1
      <3>2. (n - 1) * y <= (n - 1) * (n - 1)
        BY <2>2, <1>1
      <3>3. x * y \in Int /\ (n - 1) * y \in Int /\ (n - 1) * (n - 1) \in Int
        OBVIOUS
      <3>4. (n - 1) * (n - 1) = (n - 1) * n - n + 1
        OBVIOUS
      <3> QED BY <3>1, <3>2, <3>3, <3>4
    <2> SUFFICES ASSUME top >= n - 1 PROVE FALSE
      OBVIOUS
    <2>5. top * n >= (n - 1) * n
      OBVIOUS
    <2>6. top * n \in Int /\ x * y \in Int /\ (n - 1) * n \in Int
      OBVIOUS
    <2> QED BY <1>1, <2>3, <2>4, <2>5, <2>6
  \* What high counts besides.
  <1>28. c1 + c2 <= 1
    BY <1>5, <1>12, <1>16
  <1>29. PICK s \in Nat : s = t3 + qs + c0 + c1 + c2
    OBVIOUS
  <1>30. s <= n - 1 /\ (s >= b <=> m >= n)
    <2>1. CASE cw = 0
      <3>1. top = t3 + qs + c0
        BY <1>24, <2>1
      <3> QED BY <1>20, <1>23, <1>26, <1>27, <1>28, <1>29, <3>1, <2>1
    <2>2. CASE cw = 1
      <3>1. top = t3 + qs + c0 + b
        BY <1>24, <2>2
      <3>2. t3 >= b
        <4>1. u * g + f * v >= b * b
          BY <1>1, <1>4, <1>19, <2>2
        <4> QED BY <1>3, <4>1, CrossProducts
      <3>3. k >= 1
        BY <1>20, <2>2
      <3> QED BY <1>23, <1>27, <1>28, <1>29, <3>1, <3>2, <3>3
    <2> QED BY <2>1, <2>2
  <1>31. PICK high \in Nat : high = s % n /\ (high \div b # 0 <=> m >= n)
    <2>1. s % n = s
      <3>1. (0 * n + s) % n = s
        BY <1>1, <1>30, Quotient
      <3> QED BY <3>1
    <2>2. PICK q \in Int, r \in 0..(b - 1) : q = s \div b /\ s = q * b + r
      BY Divides
    <2>3. s >= b <=> q # 0
      <3>1. q >= 1 => q * b >= b
        OBVIOUS
      <3>2. q = 0 => q * b = 0
        OBVIOUS
      <3>3. q <= -1 => q * b <= (-1) * b
        OBVIOUS
      <3>4. q * b \in Int
        OBVIOUS
      <3> QED BY <2>2, <3>1, <3>2, <3>3, <3>4
    <2> QED BY <1>30, <2>1, <2>2, <2>3
  <1> QED
    <2>1. (f * g) \div b = h /\ (f * g) % b = l
      BY <1>2, <1>5
    <2>2. /\ (u * g + f * v) % (b * b) = sum
          /\ ((u * v) * b) % (b * b) = mid0
      BY <1>1, <1>3, <1>4, <1>9, <1>11
    <2>3. ((u * b + f) * (v * b + g)) \div b = m /\ ((u * b + f) * (v * b + g)) % b = l
      BY <1>7, <1>8
    <2>4. (mid0 + sum) % (b * b) = mid1 /\ (mid1 + h) % (b * b) = mid2
      BY <1>1, <1>12, <1>13
    <2>5. (t3 + sum \div b + c0 + c1 + c2) % n = high
      BY <1>14, <1>29, <1>31
    <2> QED BY <1>1, <1>2, <1>3, <1>15, <1>22, <1>31, <2>1, <2>2, <2>3, <2>4, <2>5
            DEF ProductFits

\* The parts m are the middle ones of the product p, and the flags tell of the
\* other two.
CutsProduct(m, p) ==
    /\ m.whole \in Word /\ m.frac \in Word
    /\ m.whole * B + m.frac = (p \div B) % (B * B)
    /\ m.overflow \in BOOLEAN /\ m.underflow \in BOOLEAN
    /\ m.overflow <=> p \div B >= B * B
    /\ m.underflow <=> p % B # 0

LEMMA MulMagnitudeIs ==
    ASSUME NEW x \in Fixpoints, NEW y \in Fixpoints
    PROVE  CutsProduct(MulMagnitude(x, y), Units(x) * Units(y))
  <1> DEFINE u == x.whole
             f == x.frac
             v == y.whole
             g == y.frac
             n    == B * B
             t0   == f * g
             t3   == u * v
             sum  == (u * g + f * v) % n
             mid0 == (t3 * B) % n
             mid1 == (mid0 + sum) % n
             mid2 == (mid1 + t0 \div B) % n
             high == (t3 + sum \div B + Carry((t0 + sum * B) % n < t0)
                      + Carry(mid1 < mid0) + Carry(mid2 < mid1)) % n
             p    == (u * B + f) * (v * B + g)
  <1>1. /\ u \in 0..(B - 1) /\ f \in 0..(B - 1) /\ v \in 0..(B - 1) /\ g \in 0..(B - 1)
        /\ B \in Nat /\ B >= 2 /\ B * B \in Nat /\ B * B > 0
    BY UnitsIs, BaseIs DEF Word
  <1>2. /\ mid2 = (p \div B) % n
        /\ high \div B # 0 <=> p \div B >= n
        /\ t0 % B = p % B
    <2>1. ProductFits(B, u, v, f, g)
      <3> HIDE DEF u, v, f, g
      <3> QED BY <1>1, ProductParts
    <2> QED BY <2>1 DEF ProductFits
  <1>3. MulMagnitude(x, y) = [whole |-> mid2 \div B, frac |-> mid2 % B,
                              overflow |-> high \div B # 0, underflow |-> t0 % B # 0]
    BY DEF MulMagnitude, Wrap64
  <1>4. p = Units(x) * Units(y)
    BY DEF Units
  <1>5. PICK m \in 0..(n - 1) : m = mid2
    <2>1. p \in Int
      <3> HIDE DEF u, v, f, g
      <3> QED BY <1>1
    <2>2. p \div B \in Int
      <3> HIDE DEF p
      <3> QED BY <1>1, <2>1, Divides
    <2>3. (p \div B) % n \in 0..(n - 1)
      <3> HIDE DEF p
      <3> QED BY <1>1, <2>2, Divides
    <2> HIDE DEF p, mid2, n
    <2> QED BY <1>2, <2>3
  <1>6. m \div B \in Word /\ m % B \in Word /\ (m \div B) * B + (m % B) = m
    <2>1. PICK q \in Int, r \in 0..(B - 1) : q = m \div B /\ r = m % B /\ m = q * B + r
      BY <1>1, Divides
    <2>2. ~ (q <= -1)
      <3> SUFFICES ASSUME q <= -1 PROVE FALSE
        OBVIOUS
      <3>1. q * B <= (-1) * B
        BY <1>1
      <3> QED BY <1>1, <2>1, <3>1
    <2>3. ~ (q >= B)
      <3> SUFFICES ASSUME q >= B PROVE FALSE
        OBVIOUS
      <3>1. q * B >= B * B
        BY <1>1
      <3> QED BY <1>1, <2>1, <3>1
    <2> QED BY <1>1, <2>1, <2>2, <2>3 DEF Word
  <1> HIDE DEF p, high, mid2, t0, n
  <1>7. m = (p \div B) % n
    BY <1>2, <1>5
  <1>8. /\ MulMagnitude(x, y).whole = m \div B /\ MulMagnitude(x, y).frac = m % B
        /\ MulMagnitude(x, y).overflow = (high \div B # 0)
        /\ MulMagnitude(x, y).underflow = (t0 % B # 0)
    BY <1>3, <1>5
  <1>9. n = B * B
    BY DEF n
  <1> QED BY <1>2, <1>4, <1>6, <1>7, <1>8, <1>9 DEF CutsProduct

-----------------------------------------------------------------------------
(* Numbers                                                                   *)

IsSignedZero(x) == IsZero(x) /\ x.negative

LEMMA ValueIs ==
    ASSUME NEW x \in Fixpoints
    PROVE  /\ Value(x) = IF x.negative THEN -Units(x) ELSE Units(x)
           /\ Value(x) \in Scaled!Numbers /\ Value(x) \in Int
           /\ Scaled!Magnitude(Value(x)) = Units(x)
  <1>1. Value(x) = IF x.negative THEN -Units(x) ELSE Units(x)
    BY DEF Value, Units
  <1>2. Units(x) \in 0..(B * B - 1) /\ B * B \in Nat
    BY UnitsIs, BaseIs
  <1> QED BY <1>1, <1>2 DEF Scaled!Numbers, Scaled!Magnitude

\* What the parts and the sign of a result are worth.
LEMMA SignedIs ==
    ASSUME NEW t \in Nat, NEW neg \in BOOLEAN, NEW s, s = IF neg THEN -t ELSE t,
           NEW r \in Fixpoints, Units(r) = t % (B * B), t # 0 => r.negative = neg
    PROVE  /\ Scaled!Magnitude(s) = t
           /\ Value(r) = Scaled!Signum(s) * (Scaled!Magnitude(s) % (B * B))
  <1>1. Scaled!Magnitude(s) = t
    BY DEF Scaled!Magnitude
  <1>2. Value(r) = IF r.negative THEN -Units(r) ELSE Units(r)
    BY ValueIs
  <1>3. PICK w \in Int : w = t % (B * B) /\ Units(r) = w
    BY UnitsIs, BaseIs
  <1>4. CASE t = 0
    <2>1. Scaled!Signum(s) = 0 /\ w = 0
      <3>1. (0 * (B * B) + 0) % (B * B) = 0
        BY BaseIs, Quotient
      <3>2. 0 * (B * B) + 0 = 0
        BY BaseIs
      <3>3. 0 % (B * B) = 0
        BY <3>1, <3>2
      <3>4. w = 0
        BY <1>3, <1>4, <3>3
      <3>5. s = 0
        <4>1. s = IF neg THEN -0 ELSE 0
          BY <1>4, Zenon
        <4> QED BY <4>1
      <3> QED BY <3>4, <3>5 DEF Scaled!Signum
    <2> QED BY <1>1, <1>2, <1>3, <2>1
  <1>5. CASE t # 0
    <2>1. Scaled!Signum(s) = IF neg THEN -1 ELSE 1
      BY <1>5 DEF Scaled!Signum
    <2>2. Value(r) = Scaled!Signum(s) * w
      BY <1>2, <1>3, <1>5, <2>1
    <2> QED BY <1>1, <1>3, <2>2
  <1> QED BY <1>4, <1>5

\* The exact sum, without the places above the whole part, and a flag for them.
SumsRight(r, x, y) ==
    LET s == Value(x) + Value(y)
    IN  /\ r.value \in Fixpoints
        /\ r.flags = Scaled!Lost(Scaled!Magnitude(s) >= B * B, FALSE)
        /\ Value(r.value) = Scaled!Signum(s) * (Scaled!Magnitude(s) % (B * B))
        /\ IsSignedZero(r.value) => r.flags # {} \/ (IsSignedZero(x) /\ IsSignedZero(y))

LEMMA SmallDifference ==
    ASSUME NEW x \in Fixpoints, NEW y \in Fixpoints, Units(x) > Units(y), x.negative # y.negative,
           NEW r, r = [value |-> Parts(SubMagnitude(x, y), x.negative), flags |-> {}]
    PROVE  SumsRight(r, x, y) /\ SumsRight(r, y, x)
  <1> DEFINE m == SubMagnitude(x, y)
             t == Units(x) - Units(y)
             s == Value(x) + Value(y)
  <1>1. m.whole \in Word /\ m.frac \in Word /\ m.whole * B + m.frac = t
    BY SubMagnitudeIs, UnitsIs
  <1>2. r.value = [whole |-> m.whole, frac |-> m.frac, negative |-> x.negative] /\ r.flags = {}
    BY DEF Parts
  <1>3. /\ r.value \in Fixpoints /\ r.value.negative = x.negative
        /\ Units(r.value) = t
    <2> HIDE DEF m
    <2> QED BY <1>1, <1>2, UnitsIs DEF Fixpoints, Units
  <1>4. t \in Nat /\ t > 0 /\ t < B * B /\ B * B \in Nat /\ t % (B * B) = t
    <2>1. t \in Nat /\ t > 0 /\ t < B * B /\ B * B \in Nat /\ B * B > 0
      BY UnitsIs, BaseIs
    <2>2. PICK n \in Nat : n = B * B
      BY <2>1
    <2>3. PICK a \in 0..(n - 1) : a = t
      BY <2>1, <2>2
    <2>4. (0 * n + a) % n = a
      BY <2>1, <2>2, Quotient
    <2>5. 0 * n + a = a
      OBVIOUS
    <2> QED BY <2>1, <2>2, <2>3, <2>4, <2>5
  <1>5. s = IF x.negative THEN -t ELSE t
    BY ValueIs, UnitsIs
  <1>6. s = Value(y) + Value(x)
    BY ValueIs
  <1>7. /\ Scaled!Magnitude(s) = t
        /\ Value(r.value) = Scaled!Signum(s) * (Scaled!Magnitude(s) % (B * B))
    <2> HIDE DEF s, t
    <2> QED BY <1>3, <1>4, <1>5, UnitsIs, SignedIs
  <1>8. r.flags = Scaled!Lost(Scaled!Magnitude(s) >= B * B, FALSE)
    <2>1. ~ (Scaled!Magnitude(s) >= B * B)
      BY <1>4, <1>7
    <2> QED BY <1>2, <2>1 DEF Scaled!Lost
  <1>9. ~ IsSignedZero(r.value)
    BY <1>3, <1>4, UnitsIs DEF IsSignedZero
  <1> HIDE DEF s
  <1>10. SumsRight(r, x, y)
    BY <1>3, <1>7, <1>8, <1>9 DEF SumsRight, s
  <1>11. SumsRight(r, y, x)
    BY <1>3, <1>6, <1>7, <1>8, <1>9 DEF SumsRight
  <1> QED BY <1>10, <1>11

LEMMA SumIs ==
    ASSUME NEW x \in Fixpoints, NEW y \in Fixpoints
    PROVE  SumsRight(Sum(x, y), x, y)
  <1> DEFINE s == Value(x) + Value(y)
             r == Sum(x, y)
             c == CmpMagnitude(x, y)
  <1>1. x.negative \in BOOLEAN /\ y.negative \in BOOLEAN /\ c \in Int
    BY UnitsIs, CmpMagnitudeIs
  <1>2. CASE x.negative = y.negative
    <2> DEFINE m == AddMagnitude(x, y)
               t == Units(x) + Units(y)
    <2>1. /\ m.whole \in Word /\ m.frac \in Word /\ m.overflow \in BOOLEAN
          /\ m.overflow <=> t >= B * B
          /\ m.whole * B + m.frac = IF t >= B * B THEN t - B * B ELSE t
      <3>1. AddsUp(m, t)
        BY AddMagnitudeIs
      <3> HIDE DEF m, t
      <3> QED BY <3>1 DEF AddsUp
    <2>2. r = [value |-> Parts(m, x.negative), flags |-> Overflow(m)]
      BY <1>2 DEF Sum
    <2>3. r.value = [whole |-> m.whole, frac |-> m.frac, negative |-> x.negative]
          /\ r.flags = Overflow(m)
      BY <2>2 DEF Parts
    <2> HIDE DEF m, r
    <2>4. /\ r.value \in Fixpoints /\ r.value.negative = x.negative
          /\ Units(r.value) = IF t >= B * B THEN t - B * B ELSE t
      BY <1>1, <2>1, <2>3 DEF Fixpoints, Units
    <2>5. /\ Units(x) \in 0..(B * B - 1) /\ Units(y) \in 0..(B * B - 1)
          /\ B * B \in Nat /\ B * B > 0
      BY UnitsIs, BaseIs
    <2>6. t \in Nat /\ t % (B * B) = IF t >= B * B THEN t - B * B ELSE t
      <3>1. PICK n \in Nat : n = B * B /\ n > 0
        BY <2>5
      <3>2. PICK a \in Nat : a = t
        BY <2>5
      <3>3. a \in (-n)..(2 * n - 1) /\ ~ (a < 0)
        BY <2>5, <3>1, <3>2
      <3>4. a % n = IF a < n THEN a ELSE a - n
        BY <3>1, <3>3, WrapsOnce
      <3> HIDE DEF t
      <3> QED BY <3>1, <3>2, <3>4
    <2>7. s = IF x.negative THEN -t ELSE t
      BY <1>1, <1>2, <2>5, ValueIs
    <2> HIDE DEF t, s
    <2>8. /\ Scaled!Magnitude(s) = t
          /\ Value(r.value) = Scaled!Signum(s) * (Scaled!Magnitude(s) % (B * B))
      BY <1>1, <2>4, <2>6, <2>7, SignedIs
    <2>9. r.flags = Scaled!Lost(Scaled!Magnitude(s) >= B * B, FALSE)
      BY <2>1, <2>3, <2>8 DEF Overflow, Scaled!Lost
    <2>10. IsSignedZero(r.value) => r.flags # {} \/ (IsSignedZero(x) /\ IsSignedZero(y))
      <3> SUFFICES ASSUME IsSignedZero(r.value), ~ (t >= B * B)
                   PROVE  IsSignedZero(x) /\ IsSignedZero(y)
        BY <2>1, <2>3 DEF Overflow
      <3>1. t = 0 /\ x.negative /\ y.negative
        BY <1>2, <2>4, UnitsIs DEF IsSignedZero
      <3>2. Units(x) = 0 /\ Units(y) = 0
        BY <2>5, <3>1 DEF t
      <3> QED BY <3>1, <3>2, UnitsIs DEF IsSignedZero
    <2> QED BY <2>4, <2>8, <2>9, <2>10 DEF SumsRight, r, s
  <1>3. CASE x.negative # y.negative /\ c = 0
    <2>1. r = [value |-> Zero, flags |-> {}]
      <3>1. ~ (c < 0) /\ ~ (c > 0)
        BY <1>3
      <3> QED BY <1>3, <3>1, Zenon DEF Sum
    <2>2. Units(x) = Units(y)
      BY <1>3, CmpMagnitudeIs
    <2>3. s = 0
      BY <1>1, <1>3, <2>2, ValueIs, UnitsIs
    <2>4. /\ Zero \in Fixpoints /\ Units(Zero) = 0 /\ Zero.negative = FALSE
      BY BaseIs DEF Zero, Fixpoints, Units, Word
    <2>5. Value(Zero) = 0
      BY <2>4, ValueIs
    <2>6. Scaled!Magnitude(s) = 0 /\ Scaled!Signum(s) = 0
      BY <2>3 DEF Scaled!Magnitude, Scaled!Signum
    <2>7. Scaled!Signum(s) * (Scaled!Magnitude(s) % (B * B)) = 0
      <3>1. PICK w \in Int : w = 0 % (B * B)
        BY BaseIs, Divides
      <3> QED BY <2>6, <3>1
    <2>8. Scaled!Lost(Scaled!Magnitude(s) >= B * B, FALSE) = {}
      <3>1. ~ (0 >= B * B)
        BY BaseIs
      <3> QED BY <2>6, <3>1 DEF Scaled!Lost
    <2>9. r.value = Zero /\ r.flags = {}
      BY <2>1
    <2> HIDE DEF s, r
    <2>10. /\ r.value \in Fixpoints /\ ~ IsSignedZero(r.value)
           /\ r.flags = Scaled!Lost(Scaled!Magnitude(s) >= B * B, FALSE)
           /\ Value(r.value) = Scaled!Signum(s) * (Scaled!Magnitude(s) % (B * B))
      BY <2>4, <2>5, <2>7, <2>8, <2>9 DEF IsSignedZero
    <2> QED BY <2>10 DEF SumsRight, r, s
  <1>4. CASE x.negative # y.negative /\ c > 0
    <2>1. r = [value |-> Parts(SubMagnitude(x, y), x.negative), flags |-> {}]
      <3>1. c # 0 /\ ~ (c < 0)
        BY <1>1, <1>4
      <3> QED BY <1>4, <3>1, Zenon DEF Sum
    <2>2. Units(x) > Units(y)
      BY <1>4, CmpMagnitudeIs
    <2> QED BY <1>4, <2>1, <2>2, SmallDifference
  <1>5. CASE x.negative # y.negative /\ c < 0
    <2>1. r = [value |-> Parts(SubMagnitude(y, x), y.negative), flags |-> {}]
      <3>1. c # 0 /\ ~ (c > 0)
        BY <1>1, <1>5
      <3> QED BY <1>5, <3>1, Zenon DEF Sum
    <2>2. Units(y) > Units(x)
      BY <1>5, CmpMagnitudeIs, UnitsIs
    <2> QED BY <1>5, <2>1, <2>2, SmallDifference
  <1> QED BY <1>1, <1>2, <1>3, <1>4, <1>5

LEMMA NegatedIs ==
    ASSUME NEW x \in Fixpoints
    PROVE  /\ Negated(x) \in Fixpoints
           /\ Value(Negated(x)) = - Value(x)
           /\ ~ IsSignedZero(Negated(x))
  <1>1. /\ Negated(x) = [whole |-> x.whole, frac |-> x.frac,
                         negative |-> ~ x.negative /\ ~ IsZero(x)]
        /\ x.whole \in Word /\ x.frac \in Word /\ x.negative \in BOOLEAN
    BY DEF Negated, Fixpoints
  <1>2. (~ x.negative /\ ~ IsZero(x)) \in BOOLEAN
    BY <1>1
  <1>3. /\ Negated(x) \in Fixpoints
        /\ Negated(x).negative = (~ x.negative /\ ~ IsZero(x))
        /\ Units(Negated(x)) = Units(x)
    BY <1>1, <1>2 DEF Fixpoints, Units
  <1>4. Units(x) \in Int /\ (IsZero(x) <=> Units(x) = 0)
    BY UnitsIs
  <1>5. IsZero(Negated(x)) <=> IsZero(x)
    BY <1>3, <1>4, UnitsIs
  <1>6. ~ IsSignedZero(Negated(x))
    BY <1>3, <1>5 DEF IsSignedZero
  <1>7. Value(Negated(x)) = IF Negated(x).negative THEN - Units(x) ELSE Units(x)
    BY <1>3, ValueIs
  <1>8. Value(x) = IF x.negative THEN - Units(x) ELSE Units(x)
    BY ValueIs
  <1> HIDE DEF Negated
  <1>9. Value(Negated(x)) = - Value(x)
    <2>1. CASE IsZero(x)
      BY <1>3, <1>4, <1>7, <1>8, <2>1
    <2>2. CASE ~ IsZero(x)
      <3>1. Negated(x).negative = ~ x.negative
        BY <1>1, <1>3, <2>2
      <3>2. CASE x.negative
        <4>1. ~ Negated(x).negative
          BY <3>1, <3>2
        <4> QED BY <1>4, <1>7, <1>8, <3>2, <4>1
      <3>3. CASE ~ x.negative
        <4>1. Negated(x).negative
          BY <3>1, <3>3
        <4> QED BY <1>4, <1>7, <1>8, <3>3, <4>1
      <3> QED BY <3>2, <3>3
    <2> QED BY <2>1, <2>2
  <1> QED BY <1>3, <1>6, <1>9

LEMMA ZeroIs == \A n \in Nat : n > 0 => 0 \div n = 0 /\ 0 % n = 0
  <1> SUFFICES ASSUME NEW n \in Nat, n > 0 PROVE 0 \div n = 0 /\ 0 % n = 0
    OBVIOUS
  <1>1. (0 * n + 0) \div n = 0 /\ (0 * n + 0) % n = 0
    BY Quotient
  <1>2. 0 * n + 0 = 0
    OBVIOUS
  <1> QED BY <1>1, <1>2

\* What the product of two numbers becomes, with the sign that it has when it is
\* not zero.
LEMMA ProductIs ==
    ASSUME NEW x \in Fixpoints, NEW y \in Fixpoints, NEW sign \in BOOLEAN,
           NEW v, v = Parts(MulMagnitude(x, y), sign),
           ~ IsZero(v) => sign = (x.negative # y.negative)
    PROVE  LET m == Scaled!Magnitude(Value(x) * Value(y))
           IN  /\ v \in Fixpoints
               /\ Units(v) = (m \div B) % (B * B)
               /\ CutsProduct(MulMagnitude(x, y), m)
               /\ m = Units(x) * Units(y)
               /\ Value(v) = Scaled!Signum(Value(x) * Value(y)) * ((m \div B) % (B * B))
  <1> DEFINE m == Scaled!Magnitude(Value(x) * Value(y))
             neg == x.negative # y.negative
  <1>1. PICK a \in Nat, b \in Nat : a = Units(x) /\ b = Units(y)
    BY UnitsIs, BaseIs
  <1>2. PICK t \in Nat : t = a * b
    OBVIOUS
  <1>3. x.negative \in BOOLEAN /\ y.negative \in BOOLEAN /\ neg \in BOOLEAN
    BY UnitsIs
  <1>4. Value(x) * Value(y) = IF neg THEN - t ELSE t
    <2>1. /\ Value(x) = IF x.negative THEN - a ELSE a
          /\ Value(y) = IF y.negative THEN - b ELSE b
      BY <1>1, ValueIs
    <2>2. (-a) * b = -(a * b) /\ a * (-b) = -(a * b) /\ (-a) * (-b) = a * b
      OBVIOUS
    <2> QED BY <1>2, <1>3, <2>1, <2>2
  <1>5. m = t
    BY <1>2, <1>4 DEF Scaled!Magnitude
  <1>6. t = Units(x) * Units(y)
    BY <1>1, <1>2
  <1>7. CutsProduct(MulMagnitude(x, y), t)
    BY <1>6, MulMagnitudeIs
  <1>8. /\ v.whole = MulMagnitude(x, y).whole /\ v.frac = MulMagnitude(x, y).frac
        /\ v.negative = sign
        /\ v = [whole |-> MulMagnitude(x, y).whole, frac |-> MulMagnitude(x, y).frac, negative |-> sign]
    BY DEF Parts
  <1>9. v \in Fixpoints /\ Units(v) = (t \div B) % (B * B)
    BY <1>7, <1>8 DEF CutsProduct, Fixpoints, Units
  <1>10. Units(v) # 0 => t # 0 /\ sign = neg
    <2>1. t = 0 => Units(v) = 0
      BY <1>9, BaseIs, ZeroIs
    <2> QED BY <1>9, <2>1, UnitsIs
  <1>11. Value(v) = Scaled!Signum(Value(x) * Value(y)) * Units(v)
    <2>1. Value(v) = IF sign THEN - Units(v) ELSE Units(v)
      BY <1>8, <1>9, ValueIs
    <2>2. PICK w \in Nat : w = Units(v)
      BY <1>9, UnitsIs, BaseIs
    <2>3. PICK s \in Int : s = Scaled!Signum(Value(x) * Value(y))
      BY DEF Scaled!Signum
    <2>4. CASE w = 0
      BY <2>1, <2>2, <2>3, <2>4
    <2>5. CASE w # 0
      <3>1. t > 0 /\ sign = neg
        BY <1>10, <2>2, <2>5
      <3>2. PICK z \in Int : z = Value(x) * Value(y)
        BY ValueIs
      <3>3. z = IF sign THEN - t ELSE t
        <4> HIDE DEF neg
        <4> QED BY <1>4, <3>1, <3>2
      <3>4. Scaled!Signum(z) = IF sign THEN -1 ELSE 1
        BY <3>1, <3>3 DEF Scaled!Signum
      <3> QED BY <2>1, <2>2, <2>3, <3>2, <3>4
    <2> QED BY <2>4, <2>5
  <1> HIDE DEF m
  <1>12. CutsProduct(MulMagnitude(x, y), m)
    BY <1>5, <1>7
  <1> QED BY <1>5, <1>6, <1>9, <1>11, <1>12 DEF m

LEMMA ComparisonIs ==
    ASSUME NEW x \in Fixpoints, NEW y \in Fixpoints
    PROVE  Comparison(x, y) = Scaled!Signum(Value(x) - Value(y))
  <1>1. /\ Value(x) = IF IsNegative(x) THEN - Units(x) ELSE Units(x)
        /\ IsNegative(x) => Units(x) > 0
        /\ IsNegative(x) \in BOOLEAN
    BY ValueIs, UnitsIs DEF IsNegative
  <1>2. /\ Value(y) = IF IsNegative(y) THEN - Units(y) ELSE Units(y)
        /\ IsNegative(y) => Units(y) > 0
        /\ IsNegative(y) \in BOOLEAN
    BY ValueIs, UnitsIs DEF IsNegative
  <1>3. Units(x) \in Nat /\ Units(y) \in Nat
    BY UnitsIs, BaseIs
  <1>4. CASE IsNegative(x) # IsNegative(y)
    <2>1. Comparison(x, y) = IF IsNegative(x) THEN -1 ELSE 1
      BY <1>4 DEF Comparison
    <2> QED BY <1>1, <1>2, <1>3, <1>4, <2>1 DEF Scaled!Signum
  <1>5. CASE IsNegative(x) = IsNegative(y)
    <2> DEFINE c == CmpMagnitude(x, y)
    <2>1. Comparison(x, y) = IF IsNegative(x) THEN - c ELSE c
      BY <1>5 DEF Comparison
    <2>2. /\ c < 0 => c = -1 /\ Units(x) < Units(y)
          /\ c = 0 => Units(x) = Units(y)
          /\ c > 0 => c = 1 /\ Units(x) > Units(y)
          /\ c \in Int
      BY CmpMagnitudeIs
    <2>3. Scaled!Signum(Units(x) - Units(y)) = c
      BY <1>3, <2>2 DEF Scaled!Signum
    <2>4. Scaled!Signum(Units(y) - Units(x)) = - c
      BY <1>3, <2>2 DEF Scaled!Signum
    <2>5. Value(x) - Value(y) = IF IsNegative(x) THEN Units(y) - Units(x) ELSE Units(x) - Units(y)
      BY <1>1, <1>2, <1>3, <1>5
    <2> HIDE DEF c
    <2> QED BY <2>1, <2>3, <2>4, <2>5
  <1> QED BY <1>1, <1>2, <1>4, <1>5

-----------------------------------------------------------------------------
(* The calls                                                                 *)

Types == val \in [Objects -> Fixpoints] /\ str \in Seq(Chars)

\* The values of the objects after one of them is assigned.
LEMMA NumIs ==
    ASSUME Types, NEW o \in Objects, NEW v \in Fixpoints, val' = [val EXCEPT ![o] = v]
    PROVE  /\ val' \in [Objects -> Fixpoints]
           /\ [q \in Objects |-> Value(val[q])]' = [[q \in Objects |-> Value(val[q])] EXCEPT ![o] = Value(v)]
  <1>1. val' \in [Objects -> Fixpoints]
    BY DEF Types
  <1>2. \A q \in Objects : val'[q] = IF q = o THEN v ELSE val[q]
    BY DEF Types
  <1>3. [q \in Objects |-> Value(val'[q])] = [[q \in Objects |-> Value(val[q])] EXCEPT ![o] = Value(v)]
    <2>1. ASSUME NEW q \in Objects
          PROVE  Value(val'[q]) = IF q = o THEN Value(v) ELSE Value(val[q])
      BY <1>2
    <2> QED BY <2>1
  <1> QED BY <1>1, <1>3

LEMMA AssignIs ==
    ASSUME Types, NEW o \in Objects, NEW r, r.value \in Fixpoints, Assign(o, r), NEW s \in Int,
           r.flags = Scaled!Lost(Scaled!Magnitude(s) >= B * B, FALSE),
           Value(r.value) = Scaled!Signum(s) * (Scaled!Magnitude(s) % (B * B))
    PROVE  Types' /\ Scaled!Assign(o, s)
  <1>1. val' = [val EXCEPT ![o] = r.value] /\ ret' = Flags(r.flags) /\ str' = str
    BY DEF Assign
  <1>2. /\ val' \in [Objects -> Fixpoints]
        /\ [q \in Objects |-> Value(val[q])]'
               = [[q \in Objects |-> Value(val[q])] EXCEPT ![o] = Value(r.value)]
    BY <1>1, NumIs
  <1>3. ret' = Scaled!Flags(Scaled!Lost(Scaled!Magnitude(s) >= B * B, FALSE))
    BY <1>1 DEF Flags, Nothing, Scaled!Flags, Scaled!Nothing
  <1>4. Denoted(str)' = Denoted(str)
    BY <1>1 DEF Denoted
  <1>5. Types'
    BY <1>1, <1>2 DEF Types
  <1> QED BY <1>2, <1>3, <1>4, <1>5 DEF Scaled!Assign

LEMMA AddStep ==
    ASSUME Types, NEW o \in Objects, NEW l \in Objects, NEW r \in Objects, Add(o, l, r)
    PROVE  Types' /\ Scaled!Add(o, l, r)
  <1>1. val[l] \in Fixpoints /\ val[r] \in Fixpoints
    BY DEF Types
  <1>2. SumsRight(Sum(val[l], val[r]), val[l], val[r])
    BY <1>1, SumIs
  <1>3. Value(val[l]) + Value(val[r]) \in Int
    BY <1>1, ValueIs
  <1>4. Types' /\ Scaled!Assign(o, Value(val[l]) + Value(val[r]))
    BY <1>2, <1>3, AssignIs DEF Add, SumsRight
  <1> QED BY <1>4 DEF Scaled!Add

LEMMA SubStep ==
    ASSUME Types, NEW o \in Objects, NEW l \in Objects, NEW r \in Objects, Sub(o, l, r)
    PROVE  Types' /\ Scaled!Sub(o, l, r)
  <1>1. /\ val[l] \in Fixpoints /\ val[r] \in Fixpoints
        /\ Negated(val[r]) \in Fixpoints /\ Value(Negated(val[r])) = - Value(val[r])
    BY NegatedIs DEF Types
  <1>2. SumsRight(Sum(val[l], Negated(val[r])), val[l], Negated(val[r]))
    BY <1>1, SumIs
  <1>3. /\ Value(val[l]) - Value(val[r]) \in Int
        /\ Value(val[l]) + Value(Negated(val[r])) = Value(val[l]) - Value(val[r])
    BY <1>1, ValueIs
  <1>4. Types' /\ Scaled!Assign(o, Value(val[l]) - Value(val[r]))
    BY <1>2, <1>3, AssignIs DEF Sub, SumsRight
  <1> QED BY <1>4 DEF Scaled!Sub

\* What mul writes, with the sign that it finds by reading its operands again.
LEMMA MulWrites ==
    ASSUME Types, NEW o \in Objects, NEW l \in Objects, NEW r \in Objects, Mul(o, l, r)
    PROVE  \E sign \in BOOLEAN, v \in Fixpoints :
              LET p == MulMagnitude(val[l], val[r])
              IN  /\ v = Parts(p, sign)
                  /\ Assign(o, [value |-> v, flags |-> Overflow(p) \cup (IF p.underflow THEN {"underflow"} ELSE {})])
                  /\ IsZero(v) => \/ sign = FALSE
                                  \/ ~ IsZero(val[l]) /\ ~ IsZero(val[r])
                  /\ ~ IsZero(v) => sign = (val[l].negative # val[r].negative)
  <1> DEFINE p       == MulMagnitude(val[l], val[r])
             written == [val EXCEPT ![o].whole = p.whole, ![o].frac = p.frac]
             zero    == IsZero(written[o]) /\ (IsZero(written[l]) \/ IsZero(written[r]))
             sign    == ~zero /\ val[l].negative # val[r].negative
             v       == Parts(p, sign)
  <1>1. val[l] \in Fixpoints /\ val[r] \in Fixpoints /\ val[o] \in Fixpoints
    BY DEF Types
  <1>2. p.whole \in Word /\ p.frac \in Word
    BY <1>1, MulMagnitudeIs DEF CutsProduct
  <1>3. /\ written[o] = [val[o] EXCEPT !.whole = p.whole, !.frac = p.frac]
        /\ \A q \in Objects : q # o => written[q] = val[q]
    BY DEF Types
  <1>4. written[o].whole = p.whole /\ written[o].frac = p.frac
    BY <1>1, <1>3 DEF Fixpoints
  <1>5. sign \in BOOLEAN /\ v = [whole |-> p.whole, frac |-> p.frac, negative |-> sign]
    BY DEF Parts
  <1>6. v \in Fixpoints /\ (IsZero(v) <=> IsZero(written[o]))
    <2> HIDE DEF v, sign, p, written
    <2> QED BY <1>2, <1>4, <1>5 DEF Fixpoints, IsZero
  <1>7. Assign(o, [value |-> v, flags |-> Overflow(p) \cup (IF p.underflow THEN {"underflow"} ELSE {})])
    BY DEF Mul
  <1>8. IsZero(v) /\ (IsZero(val[l]) \/ IsZero(val[r])) => zero
    <2> SUFFICES ASSUME IsZero(v), IsZero(val[l]) \/ IsZero(val[r]) PROVE zero
      OBVIOUS
    <2>1. IsZero(written[o])
      BY <1>6
    <2>2. \A q \in Objects : IsZero(val[q]) => IsZero(written[q])
      BY <1>3, <2>1
    <2> QED BY <2>1, <2>2
  <1>9. ~ IsZero(v) => ~ zero
    BY <1>6
  <1> HIDE DEF p, zero, v, written
  <1> QED BY <1>5, <1>6, <1>7, <1>8, <1>9 DEF p, v

LEMMA MulStep ==
    ASSUME Types, NEW o \in Objects, NEW l \in Objects, NEW r \in Objects, Mul(o, l, r)
    PROVE  Types' /\ Scaled!Mul(o, l, r)
  <1> DEFINE x == val[l]
             y == val[r]
             p == MulMagnitude(x, y)
             m == Scaled!Magnitude(Value(x) * Value(y))
             f == Overflow(p) \cup (IF p.underflow THEN {"underflow"} ELSE {})
  <1>1. x \in Fixpoints /\ y \in Fixpoints
    BY DEF Types
  <1>2. PICK sign \in BOOLEAN, v \in Fixpoints :
              /\ v = Parts(p, sign)
              /\ Assign(o, [value |-> v, flags |-> f])
              /\ ~ IsZero(v) => sign = (x.negative # y.negative)
    BY MulWrites
  <1>3. /\ CutsProduct(p, m)
        /\ Value(v) = Scaled!Signum(Value(x) * Value(y)) * ((m \div B) % (B * B))
    <2> HIDE DEF x, y
    <2> QED BY <1>1, <1>2, ProductIs
  <1>4. f = Scaled!Lost(m \div B >= B * B, m % B # 0)
    <2> HIDE DEF m, p
    <2> QED BY <1>3 DEF CutsProduct, Overflow, Scaled!Lost
  <1> HIDE DEF p, m, f
  <1>5. val' = [val EXCEPT ![o] = v] /\ ret' = Flags(f) /\ str' = str
    BY <1>2 DEF Assign
  <1>6. /\ val' \in [Objects -> Fixpoints]
        /\ [q \in Objects |-> Value(val[q])]'
               = [[q \in Objects |-> Value(val[q])] EXCEPT ![o] = Value(v)]
    BY <1>5, NumIs
  <1>7. ret' = Scaled!Flags(f)
    BY <1>5 DEF Flags, Nothing, Scaled!Flags, Scaled!Nothing
  <1>8. Denoted(str)' = Denoted(str)
    BY <1>5 DEF Denoted
  <1>9. Types'
    BY <1>5, <1>6 DEF Types
  <1> QED BY <1>3, <1>4, <1>6, <1>7, <1>8, <1>9 DEF Scaled!Mul, m

LEMMA NegateStep ==
    ASSUME Types, NEW o \in Objects, Negate(o)
    PROVE  Types' /\ Scaled!Negate(o)
  <1>1. /\ val[o] \in Fixpoints
        /\ Negated(val[o]) \in Fixpoints /\ Value(Negated(val[o])) = - Value(val[o])
    BY NegatedIs DEF Types
  <1>2. val' = [val EXCEPT ![o] = Negated(val[o])] /\ ret' = Nothing /\ str' = str
    BY DEF Negate
  <1>3. /\ val' \in [Objects -> Fixpoints]
        /\ [q \in Objects |-> Value(val[q])]'
               = [[q \in Objects |-> Value(val[q])] EXCEPT ![o] = Value(Negated(val[o]))]
    BY <1>1, <1>2, NumIs
  <1>4. ret' = Scaled!Nothing
    BY <1>2 DEF Nothing, Scaled!Nothing
  <1>5. Denoted(str)' = Denoted(str)
    BY <1>2 DEF Denoted
  <1>6. Types'
    BY <1>2, <1>3 DEF Types
  <1> QED BY <1>1, <1>3, <1>4, <1>5, <1>6 DEF Scaled!Negate

LEMMA CompareStep ==
    ASSUME Types, NEW l \in Objects, NEW r \in Objects, Compare(l, r)
    PROVE  Types' /\ Scaled!Compare(l, r)
  <1>1. val[l] \in Fixpoints /\ val[r] \in Fixpoints
    BY DEF Types
  <1>2. ret' = Order(Comparison(val[l], val[r])) /\ val' = val /\ str' = str
    BY DEF Compare
  <1>3. ret' = Scaled!Order(Scaled!Signum(Value(val[l]) - Value(val[r])))
    BY <1>1, <1>2, ComparisonIs DEF Order, Nothing, Scaled!Order, Scaled!Nothing
  <1>4. /\ Denoted(str)' = Denoted(str)
        /\ [q \in Objects |-> Value(val[q])]' = [q \in Objects |-> Value(val[q])]
    BY <1>2 DEF Denoted, Value
  <1>5. Types'
    BY <1>2 DEF Types
  <1> QED BY <1>3, <1>4, <1>5 DEF Scaled!Compare

-----------------------------------------------------------------------------
(* Zeros with a sign                                                         *)

\* An object that is assigned is such a zero after it only if the result is.
LEMMA SignedZeroOf ==
    ASSUME Types, NEW o \in Objects, NEW v \in Fixpoints, val' = [val EXCEPT ![o] = v],
           NEW q \in Objects, SignedZero(q)'
    PROVE  (q = o /\ IsSignedZero(v)) \/ (SignedZero(q) /\ val'[q] = val[q])
  <1>1. CASE q = o
    <2>1. val'[q] = v
      BY <1>1 DEF Types
    <2> QED BY <1>1, <2>1 DEF SignedZero, IsSignedZero
  <1>2. CASE q # o
    <2>1. val'[q] = val[q]
      BY <1>2 DEF Types
    <2> QED BY <2>1 DEF SignedZero
  <1> QED BY <1>1, <1>2

LEMMA NoLossNoZero ==
    ASSUME NEW p \in Nat, p \div B < B * B, p % B = 0, (p \div B) % (B * B) = 0
    PROVE  p = 0
  <1>1. PICK b \in Nat : b = B /\ b > 0
    BY BaseIs
  <1>2. PICK q \in Int : q = p \div b /\ p = q * b + 0
    BY <1>1, Divides
  <1>3. ~ (q <= -1)
    <2> SUFFICES ASSUME q <= -1 PROVE FALSE
      OBVIOUS
    <2>1. q * b <= (-1) * b
      BY <1>1
    <2> QED BY <1>1, <1>2, <2>1
  <1>4. PICK n \in Nat : n = B * B /\ n > 0
    BY BaseIs
  <1>5. PICK r \in 0..(n - 1) : r = q
    BY <1>1, <1>2, <1>3, <1>4
  <1>6. (0 * n + r) % n = r
    BY <1>4, Quotient
  <1>7. q = 0
    BY <1>1, <1>2, <1>4, <1>5, <1>6
  <1> QED BY <1>1, <1>2, <1>7

LEMMA MulLeavesNoSignedZero ==
    ASSUME Types, NEW o \in Objects, NEW l \in Objects, NEW r \in Objects, Mul(o, l, r)
    PROVE  \E v \in Fixpoints : /\ val' = [val EXCEPT ![o] = v]
                                /\ IsSignedZero(v) => ret'.flags # {}
  <1> DEFINE x == val[l]
             y == val[r]
             p == MulMagnitude(x, y)
             f == Overflow(p) \cup (IF p.underflow THEN {"underflow"} ELSE {})
  <1>1. x \in Fixpoints /\ y \in Fixpoints
    BY DEF Types
  <1>2. PICK sign \in BOOLEAN, v \in Fixpoints :
              /\ v = Parts(p, sign)
              /\ Assign(o, [value |-> v, flags |-> f])
              /\ IsZero(v) => sign = FALSE \/ (~ IsZero(x) /\ ~ IsZero(y))
              /\ ~ IsZero(v) => sign = (x.negative # y.negative)
    BY MulWrites
  <1>3. val' = [val EXCEPT ![o] = v] /\ ret'.flags = f
    BY <1>2 DEF Assign, Flags, Nothing
  <1>4. ASSUME IsSignedZero(v), f = {} PROVE FALSE
    <2>1. v.negative = sign
      BY <1>2 DEF Parts
    <2>2. ~ IsZero(x) /\ ~ IsZero(y) /\ IsZero(v)
      BY <1>2, <1>4, <2>1 DEF IsSignedZero
    <2>3. PICK a \in Nat, b \in Nat : a = Units(x) /\ b = Units(y) /\ a # 0 /\ b # 0
      BY <1>1, <2>2, UnitsIs, BaseIs
    <2>4. PICK t \in Nat : t = a * b /\ t # 0
      <3>1. a * b \in Nat /\ a * b # 0
        BY <2>3
      <3> QED BY <3>1
    <2>5. CutsProduct(p, t) /\ t = Units(x) * Units(y)
      <3>1. t = Units(x) * Units(y)
        BY <2>3, <2>4
      <3> HIDE DEF x, y
      <3> QED BY <1>1, <3>1, MulMagnitudeIs DEF p
    <2> HIDE DEF p
    <2>6. ~ (t \div B >= B * B) /\ t % B = 0
      BY <1>4, <2>5 DEF CutsProduct, Overflow
    <2>7. (t \div B) % (B * B) = 0
      <3>1. Units(v) = (t \div B) % (B * B)
        BY <1>2, <2>5 DEF CutsProduct, Units, Parts
      <3> QED BY <2>2, <3>1, UnitsIs
    <2>8. t \div B \in Int /\ B * B \in Int
      BY BaseIs, Divides
    <2> QED BY <2>4, <2>6, <2>7, <2>8, NoLossNoZero
  <1> QED BY <1>3, <1>4

LEMMA InitialIs ==
    ASSUME NEW w \in Word, NEW f \in Word, NEW neg \in BOOLEAN
    PROVE  /\ FixpointInit(w, f, neg) \in Fixpoints
           /\ ~ IsSignedZero(FixpointInit(w, f, neg))
           /\ Units(FixpointInit(w, f, neg)) = w * B + f
           /\ Value(FixpointInit(w, f, neg)) = IF neg THEN - (w * B + f) ELSE w * B + f
  <1> DEFINE x == FixpointInit(w, f, neg)
  <1>1. PICK sg \in BOOLEAN : sg = (neg /\ ~ (w = 0 /\ f = 0))
    OBVIOUS
  <1>2. x = [whole |-> w, frac |-> f, negative |-> sg] /\ x \in Fixpoints
    BY <1>1 DEF FixpointInit, Fixpoints
  <1>3. Units(x) = w * B + f /\ (IsZero(x) <=> w = 0 /\ f = 0) /\ x.negative = sg
    BY <1>2 DEF Units, IsZero
  <1> HIDE DEF x
  <1>4. Value(x) = IF sg THEN - Units(x) ELSE Units(x)
    BY <1>2, <1>3, ValueIs
  <1>5. ~ IsSignedZero(x)
    BY <1>1, <1>3 DEF IsSignedZero
  <1>6. Value(x) = IF neg THEN - Units(x) ELSE Units(x)
    <2>1. CASE w = 0 /\ f = 0
      <3>1. Units(x) = 0
        BY <1>2, <1>3, <2>1, UnitsIs
      <3> QED BY <1>4, <3>1
    <2>2. CASE ~ (w = 0 /\ f = 0)
      <3>1. sg <=> neg
        BY <1>1, <2>2
      <3> QED BY <1>4, <3>1
    <2> QED BY <2>1, <2>2
  <1> QED BY <1>2, <1>3, <1>5, <1>6 DEF x

-----------------------------------------------------------------------------
(* Reading a text                                                            *)

LEMMA DigitsAre ==
    /\ Radix \in Nat /\ Radix >= 2 /\ Digits \in Nat /\ Digits >= 1
    /\ Digit = 0..(Radix - 1) /\ Digit \subseteq Nat
    /\ Chars \subseteq Int /\ Minus \notin Digit /\ Point \notin Digit /\ Minus # Point
    /\ \A c \in Digit : c # Minus /\ c # Point
  BY FixpointAssumption DEF Digit, Chars, Minus, Point

LEMMA WrapType == \A n \in Int : Wrap32(n) \in Word
  BY Divides, BaseIs DEF Wrap32, Word

\* What the loop over digits has read is in turn what ReadDigit makes of it.
ReadState == [value : Word, count : Nat, ok : BOOLEAN]
Unread    == [value |-> 0, count |-> 0, ok |-> TRUE]

LEMMA ReadingIs ==
    ASSUME NEW s \in Seq(Chars)
    PROVE  /\ Reading(s) \in [0..Len(s) -> ReadState]
           /\ Reading(s)[0] = Unread
           /\ \A k \in 1..Len(s) : Reading(s)[k] = ReadDigit(Reading(s)[k - 1], s[k])
  <1> DEFINE n == Len(s)
             step == [x \in (1..n) \X ReadState |-> ReadDigit(x[2], s[x[1]])]
  <1>1. n \in Nat /\ \A k \in 1..n : s[k] \in Chars
    OBVIOUS
  <1>2. Unread \in ReadState
    BY BaseIs DEF Unread, ReadState, Word
  <1>3. ASSUME NEW p \in ReadState, NEW c \in Chars PROVE ReadDigit(p, c) \in ReadState
    <2>1. CASE ~p.ok \/ c \notin Digit \/ p.count >= Digits
      BY <2>1 DEF ReadDigit, ReadState
    <2>2. CASE ~ (~p.ok \/ c \notin Digit \/ p.count >= Digits)
      <3>1. p.value * Radix + c \in Int
        <4>1. p.value \in Int /\ Radix \in Int /\ c \in Int
          BY BaseIs, DigitsAre DEF ReadState, Word
        <4> QED BY <4>1
      <3>2. Wrap32(p.value * Radix + c) \in Word
        BY <3>1, WrapType
      <3> QED BY <2>2, <3>2 DEF ReadDigit, ReadState
    <2> QED BY <2>1, <2>2
  <1>4. step \in [(1..n) \X ReadState -> ReadState]
    <2>1. ASSUME NEW x \in (1..n) \X ReadState PROVE ReadDigit(x[2], s[x[1]]) \in ReadState
      BY <1>1, <1>3
    <2> QED BY <2>1
  <1>5. PICK f : Recurs(f, n, ReadState, Unread, step)
    <2> HIDE DEF n, step
    <2> QED BY <1>1, <1>2, <1>4, Recursion
  <1>6. f \in [0..n -> ReadState] /\ f[0] = Unread
    BY <1>5 DEF Recurs
  <1>7. ASSUME NEW k \in 1..n PROVE f[k] = ReadDigit(f[k - 1], s[k])
    <2>1. <<k, f[k - 1]>> \in (1..n) \X ReadState
      BY <1>1, <1>6
    <2>2. f[k] = step[<<k, f[k - 1]>>]
      BY <1>5 DEF Recurs
    <2> QED BY <2>1, <2>2
  <1> DEFINE Body(g) == [k \in 0..n |-> IF k = 0 THEN Unread ELSE ReadDigit(g[k - 1], s[k])]
  <1>8. f = Body(f)
    BY <1>1, <1>6, <1>7
  <1>9. Reading(s) = CHOOSE g : g = Body(g)
    BY DEF Reading, Unread
  <1>10. PICK r : r = Reading(s) /\ r = Body(r)
    <2> HIDE DEF Body
    <2> QED BY <1>8, <1>9
  <1>11. r[0] = Unread /\ \A k \in 1..n : r[k] = ReadDigit(r[k - 1], s[k])
    BY <1>1, <1>10
  <1>12. 0..n \subseteq {k \in 0..n : r[k] \in ReadState}
    <2> DEFINE T == {k \in 0..n : r[k] \in ReadState}
    <2>1. 0 \in T
      BY <1>1, <1>2, <1>11
    <2>2. ASSUME NEW k \in 0..(n - 1), k \in T PROVE k + 1 \in T
      <3>1. k + 1 \in 1..n /\ (k + 1) - 1 = k /\ r[k] \in ReadState
        BY <1>1, <2>2
      <3>2. r[k + 1] = ReadDigit(r[k], s[k + 1])
        BY <1>11, <3>1
      <3>3. r[k + 1] \in ReadState
        BY <1>1, <1>3, <3>1, <3>2
      <3> QED BY <1>1, <3>1, <3>3
    <2>3. 0..n \subseteq T
      <3> HIDE DEF T, n
      <3> QED BY <1>1, <2>1, <2>2, UpTo
    <2> QED BY <2>3
  <1>13. r \in [0..n -> ReadState]
    BY <1>10, <1>12
  <1> QED BY <1>10, <1>11, <1>13

\* The first k characters of s are digits, and no more than a part has.
Numerals(s, k) == k <= Digits /\ \A i \in 1..k : s[i] \in Digit

\* One more digit of a numeral.
LEMMA DigitFits ==
    ASSUME NEW a \in Nat, NEW c \in Digit, NEW k \in 0..(Digits - 1), a < Power[k]
    PROVE  /\ a * Radix + c \in Nat /\ a * Radix + c < Power[k + 1]
           /\ Wrap32(a * Radix + c) = a * Radix + c
  <1>1. k \in Nat /\ k < 2 * Digits /\ k + 1 \in 0..Digits /\ k + 1 \in 0..(2 * Digits)
        /\ Digits \in (k + 1)..(2 * Digits)
    BY DigitsAre
  <1>2. PICK p \in Nat : p = Power[k]
    BY <1>1, PowerStep
  <1>3. PICK R \in Nat : R = Radix /\ R >= 2 /\ c \in 0..(R - 1)
    BY DigitsAre
  <1>4. Power[k + 1] = R * p
    BY <1>1, <1>2, <1>3, PowerStep
  <1>5. a \in Nat /\ c \in Nat /\ c <= R - 1 /\ a <= p - 1 /\ p >= 1
    BY <1>2, <1>3
  <1>6. a * R + c \in Nat /\ a * R + c < R * p
    <2>1. PICK u \in Nat : u = a * R
      BY <1>5
    <2>2. u <= (p - 1) * R
      BY <1>5, <2>1
    <2>3. (p - 1) * R = R * p - R
      OBVIOUS
    <2>4. R * p \in Nat
      OBVIOUS
    <2> QED BY <1>5, <2>1, <2>2, <2>3, <2>4
  <1>7. Power[k + 1] <= B
    BY <1>1, PowersRise DEF B
  <1>8. a * R + c \in Word
    <2>1. PICK u \in Nat, v \in Nat : u = a * R + c /\ v = Power[k + 1] /\ u < v /\ v <= B
      BY <1>4, <1>6, <1>7
    <2> QED BY <2>1, BaseIs DEF Word
  <1> QED BY <1>3, <1>4, <1>6, <1>8, WrapWord

\* The loop accepts the numerals of at most Digits digits, and a numeral is the
\* number that its digits make.
LEMMA DigitsRead ==
    ASSUME NEW s \in Seq(Chars), NEW k \in 0..Len(s)
    PROVE  /\ Reading(s)[k].ok <=> Numerals(s, k)
           /\ Numerals(s, k) => /\ Reading(s)[k].count = k
                                /\ Reading(s)[k].value \in Nat
                                /\ Reading(s)[k].value < Power[k]
           /\ k >= 1 /\ Numerals(s, k) =>
                  Reading(s)[k].value = Reading(s)[k - 1].value * Radix + s[k]
  <1> DEFINE r == Reading(s)
             Good(j) == /\ r[j].ok <=> Numerals(s, j)
                        /\ Numerals(s, j) => /\ r[j].count = j /\ r[j].value \in Nat
                                             /\ r[j].value < Power[j]
             More(j) == Numerals(s, j) => r[j].value = r[j - 1].value * Radix + s[j]
  <1>1. PICK n \in Nat : n = Len(s)
    OBVIOUS
  <1>2. Good(0)
    <2>1. r[0] = Unread /\ Power[0] = 1 /\ 0 <= Digits
      BY DigitsAre, ReadingIs, PowerIs
    <2>2. Numerals(s, 0)
      BY <2>1 DEF Numerals
    <2> HIDE DEF r
    <2>3. r[0].ok = TRUE /\ r[0].count = 0 /\ r[0].value = 0
      BY <2>1 DEF Unread
    <2> QED BY <2>1, <2>2, <2>3
  <1>3. ASSUME NEW j \in 0..(n - 1), Good(j)
        PROVE  Good(j + 1) /\ More(j + 1)
    <2>1. j + 1 \in 1..n /\ (j + 1) - 1 = j /\ j \in 0..n /\ j \in Nat
      BY <1>1
    <2>2. r[j + 1] = ReadDigit(r[j], s[j + 1]) /\ r[j] \in ReadState /\ s[j + 1] \in Chars
      <3>1. /\ r \in [0..n -> ReadState]
            /\ \A i \in 1..n : r[i] = ReadDigit(r[i - 1], s[i])
        BY <1>1, ReadingIs
      <3>2. s[j + 1] \in Chars
        BY <1>1, <2>1
      <3> HIDE DEF r
      <3> QED BY <2>1, <3>1, <3>2
    <2>3. Numerals(s, j + 1) <=> Numerals(s, j) /\ s[j + 1] \in Digit /\ j < Digits
      <3>1. j + 1 <= Digits <=> j <= Digits /\ j < Digits
        BY <2>1, DigitsAre
      <3>2. 1..(j + 1) = (1..j) \cup {j + 1}
        BY <2>1
      <3> QED BY <3>1, <3>2 DEF Numerals
    <2> HIDE DEF r
    <2>4. CASE ~ Numerals(s, j)
      <3>1. ~ r[j + 1].ok
        BY <1>3, <2>2, <2>4 DEF ReadDigit, ReadState
      <3> QED BY <2>3, <2>4, <3>1
    <2>5. CASE Numerals(s, j) /\ ~ (s[j + 1] \in Digit /\ j < Digits)
      <3>1. r[j].count = j /\ ~ (j < Digits) => r[j].count >= Digits
        BY <2>1, DigitsAre
      <3>2. ~ r[j + 1].ok
        BY <1>3, <2>2, <2>5, <3>1 DEF ReadDigit, ReadState
      <3> QED BY <2>3, <2>5, <3>2
    <2>6. CASE Numerals(s, j) /\ s[j + 1] \in Digit /\ j < Digits
      <3>1. PICK a \in Nat : a = r[j].value /\ a < Power[j] /\ r[j].count = j /\ r[j].ok
        BY <1>3, <2>6
      <3>2. ~ (r[j].count >= Digits) /\ j \in 0..(Digits - 1)
        BY <2>1, <2>6, <3>1, DigitsAre
      <3>3. r[j + 1] = [value |-> Wrap32(a * Radix + s[j + 1]), count |-> j + 1, ok |-> TRUE]
        BY <2>2, <2>6, <3>1, <3>2 DEF ReadDigit
      <3>4. /\ a * Radix + s[j + 1] \in Nat /\ a * Radix + s[j + 1] < Power[j + 1]
            /\ Wrap32(a * Radix + s[j + 1]) = a * Radix + s[j + 1]
        BY <2>6, <3>1, <3>2, DigitFits
      <3>5. r[j + 1].ok /\ r[j + 1].count = j + 1 /\ r[j + 1].value = a * Radix + s[j + 1]
        BY <3>3, <3>4
      <3>6. Good(j + 1)
        BY <2>3, <2>6, <3>4, <3>5
      <3>7. More(j + 1)
        BY <2>1, <3>1, <3>5
      <3> QED BY <3>6, <3>7
    <2> QED BY <2>4, <2>5, <2>6
  <1>4. 0..n \subseteq {j \in 0..n : Good(j)}
    <2> DEFINE T == {j \in 0..n : Good(j)}
    <2>1. 0 \in T
      BY <1>2
    <2>2. ASSUME NEW j \in 0..(n - 1), j \in T PROVE j + 1 \in T
      <3>1. j + 1 \in 0..n
        OBVIOUS
      <3>2. Good(j)
        BY <2>2
      <3>3. Good(j + 1)
        <4> HIDE DEF Good, T
        <4> QED BY <1>3, <3>2
      <3> HIDE DEF Good
      <3> QED BY <3>1, <3>3
    <2>3. 0..n \subseteq T
      <3> HIDE DEF T
      <3> QED BY <2>1, <2>2, UpTo
    <2> QED BY <2>3
  <1>5. ASSUME NEW j \in 1..n PROVE More(j)
    <2>1. j - 1 \in 0..(n - 1) /\ j - 1 \in 0..n /\ (j - 1) + 1 = j
      OBVIOUS
    <2> HIDE DEF Good, More
    <2>2. Good(j - 1)
      BY <1>4, <2>1
    <2>3. More((j - 1) + 1)
      BY <1>3, <2>1, <2>2
    <2> QED BY <2>1, <2>3
  <1>6. k \in 0..n /\ (k >= 1 => k \in 1..n)
    BY <1>1
  <1>7. Good(k) /\ (k >= 1 => More(k))
    <2> HIDE DEF Good, More
    <2> QED BY <1>4, <1>5, <1>6
  <1> QED BY <1>7

-----------------------------------------------------------------------------
(* What a text denotes                                                       *)

HasSign(s) == s # <<>> /\ s[1] = Minus
Unsigned(s) == IF HasSign(s) THEN Tail(s) ELSE s

\* t is an unsigned text by the grammar, with its point at p.
Shaped(t, p) ==
    /\ p - 1 \in 1..Digits
    /\ Len(t) - p \in 1..Digits
    /\ \A i \in DOMAIN t : IF i = p THEN t[i] = Point ELSE t[i] \in Digit

\* The worth of the characters of t.
Terms(t, p) ==
    [i \in DOMAIN t |->
        IF i = p THEN 0
        ELSE t[i] * Power[Digits + IF i < p THEN p - 1 - i ELSE p - i]]

LEMMA DenotedIs ==
    ASSUME NEW s \in Seq(Chars)
    PROVE  Denoted(s) =
             {IF HasSign(s) THEN -Total(Terms(Unsigned(s), p)) ELSE Total(Terms(Unsigned(s), p)) :
                p \in {q \in DOMAIN Unsigned(s) : Shaped(Unsigned(s), q)}}
  BY DEF Denoted, HasSign, Unsigned, Shaped, Terms

LEMMA UnsignedIs ==
    ASSUME NEW s \in Seq(Chars)
    PROVE  Unsigned(s) \in Seq(Chars)
  BY DEF Unsigned, HasSign

LEMMA SumsAre ==
    ASSUME NEW n \in Nat, NEW f \in [1..n -> Int]
    PROVE  /\ Sums(f)[0] = 0
           /\ \A k \in 1..n : Sums(f)[k - 1] \in Int /\ Sums(f)[k] = Sums(f)[k - 1] + f[k]
           /\ Total(f) = Sums(f)[n]
  <1>1. f \in Seq(Int) /\ Len(f) = n
    OBVIOUS
  <1>2. PICK X : X = Int
    OBVIOUS
  <1> DEFINE step == [x \in (1..n) \X X |-> x[2] + f[x[1]]]
  <1>3. step \in [(1..n) \X X -> X] /\ 0 \in X
    BY <1>2
  <1>4. PICK g : Recurs(g, n, X, 0, step)
    <2> HIDE DEF step
    <2> QED BY <1>3, Recursion
  <1>5. ASSUME NEW k \in 1..n PROVE g[k] = g[k - 1] + f[k]
    <2>1. <<k, g[k - 1]>> \in (1..n) \X X
      BY <1>4 DEF Recurs
    <2> QED BY <1>4, <2>1 DEF Recurs
  <1> DEFINE Body(h) == [k \in 0..n |-> IF k = 0 THEN 0 ELSE h[k - 1] + f[k]]
  <1>6. g = Body(g)
    BY <1>2, <1>4, <1>5 DEF Recurs
  <1>7. Sums(f) = CHOOSE h : h = Body(h)
    BY <1>1 DEF Sums
  <1>8. PICK h : h = Sums(f) /\ h = Body(h)
    <2> HIDE DEF Body
    <2> QED BY <1>6, <1>7
  <1>9. h[0] = 0 /\ \A k \in 1..n : h[k] = h[k - 1] + f[k]
    BY <1>8
  <1>10. 0..n \subseteq {k \in 0..n : h[k] \in Int}
    <2> DEFINE T == {k \in 0..n : h[k] \in Int}
    <2>1. 0 \in T
      BY <1>9
    <2>2. ASSUME NEW k \in 0..(n - 1), k \in T PROVE k + 1 \in T
      <3>1. k + 1 \in 1..n /\ (k + 1) - 1 = k /\ h[k] \in Int /\ k + 1 \in 0..n
        BY <2>2
      <3>2. h[k + 1] = h[k] + f[k + 1] /\ f[k + 1] \in Int
        BY <1>9, <3>1
      <3> QED BY <3>1, <3>2
    <2>3. 0..n \subseteq T
      <3> HIDE DEF T
      <3> QED BY <2>1, <2>2, UpTo
    <2> QED BY <2>3
  <1>11. ASSUME NEW k \in 1..n PROVE h[k - 1] \in Int
    <2>1. k - 1 \in 0..n
      OBVIOUS
    <2> QED BY <1>10, <2>1
  <1>12. Total(f) = Sums(f)[n]
    BY <1>1 DEF Total
  <1> QED BY <1>8, <1>9, <1>11, <1>12

\* Where fixpoint_parse_hex finds the point.
LEMMA PointAt ==
    ASSUME NEW t \in Seq(Chars), NEW at, at = FirstPoint(t)
    PROVE  \/ at = 0 /\ \A i \in 1..Len(t) : t[i] # Point
           \/ /\ at \in 1..Len(t) /\ t[at] = Point
              /\ \A i \in 1..(at - 1) : t[i] # Point
  <1> DEFINE I == {i \in 1..Len(t) : t[i] = Point}
             Least(k) == k \in I /\ \A j \in I : k <= j
  <1>1. CASE I = {}
    <2>1. at = 0
      BY <1>1 DEF FirstPoint, SelectInSeq
    <2> QED BY <1>1, <2>1
  <1>2. CASE I # {}
    <2>1. at = CHOOSE k \in I : \A j \in I : k <= j
      BY <1>2 DEF FirstPoint, SelectInSeq, Min
    <2>2. PICK k \in I : \A j \in I : ~ (j < k)
      <3>1. I \subseteq Nat
        OBVIOUS
      <3> HIDE DEF I
      <3>2. PICK k \in I : \A j \in I : <<j, k>> \notin OpToRel(<, Nat)
        BY <1>2, <3>1, NatLessThanWellFounded, WFMin
      <3> QED BY <3>1, <3>2 DEF OpToRel
    <2>3. \E q \in I : \A j \in I : q <= j
      BY <2>2
    <2>4. at \in I /\ \A j \in I : at <= j
      <3> HIDE DEF I
      <3> QED BY <2>1, <2>3
    <2> QED BY <2>4
  <1> QED BY <1>1, <1>2

WholeText(t, p) == SubSeq(t, 1, p - 1)
FracText(t, p)  == SubSeq(t, p + 1, Len(t))

LEMMA PiecesAre ==
    ASSUME NEW t \in Seq(Chars), NEW p \in 1..Len(t)
    PROVE  /\ WholeText(t, p) \in Seq(Chars) /\ Len(WholeText(t, p)) = p - 1
           /\ \A i \in 1..(p - 1) : WholeText(t, p)[i] = t[i]
           /\ FracText(t, p) \in Seq(Chars) /\ Len(FracText(t, p)) = Len(t) - p
           /\ \A i \in 1..(Len(t) - p) : FracText(t, p)[i] = t[p + i]
  BY DEF WholeText, FracText

LEMMA ShapedIs ==
    ASSUME NEW t \in Seq(Chars), NEW p \in 1..Len(t)
    PROVE  Shaped(t, p) <=> /\ t[p] = Point
                            /\ p - 1 >= 1 /\ Len(t) - p >= 1
                            /\ Numerals(WholeText(t, p), p - 1)
                            /\ Numerals(FracText(t, p), Len(t) - p)
  <1> DEFINE W == WholeText(t, p)
             F == FracText(t, p)
             n == Len(t)
  <1>1. n \in Nat /\ p \in Nat /\ p >= 1 /\ p <= n /\ DOMAIN t = 1..n
    OBVIOUS
  <1>2. /\ \A i \in 1..(p - 1) : W[i] = t[i]
        /\ \A i \in 1..(n - p) : F[i] = t[p + i]
    BY PiecesAre
  <1> HIDE DEF W, F, n
  <1>3. Numerals(W, p - 1) <=> p - 1 <= Digits /\ \A i \in 1..(p - 1) : t[i] \in Digit
    BY <1>1, <1>2 DEF Numerals
  <1>4. Numerals(F, n - p) <=> n - p <= Digits /\ \A i \in 1..(n - p) : t[p + i] \in Digit
    BY <1>1, <1>2 DEF Numerals
  <1>5. (\A i \in 1..(n - p) : t[p + i] \in Digit) <=> (\A i \in (p + 1)..n : t[i] \in Digit)
    <2>1. ASSUME \A i \in 1..(n - p) : t[p + i] \in Digit, NEW i \in (p + 1)..n
          PROVE  t[i] \in Digit
      <3>1. i - p \in 1..(n - p) /\ p + (i - p) = i
        BY <1>1
      <3>2. t[p + (i - p)] \in Digit
        BY <2>1, <3>1
      <3> QED BY <3>1, <3>2
    <2>2. ASSUME \A i \in (p + 1)..n : t[i] \in Digit, NEW i \in 1..(n - p)
          PROVE  t[p + i] \in Digit
      <3>1. p + i \in (p + 1)..n
        BY <1>1
      <3> QED BY <2>2, <3>1
    <2> QED BY <2>1, <2>2
  <1>6. (\A i \in DOMAIN t : IF i = p THEN t[i] = Point ELSE t[i] \in Digit)
          <=> /\ t[p] = Point
              /\ \A i \in 1..(p - 1) : t[i] \in Digit
              /\ \A i \in (p + 1)..n : t[i] \in Digit
    <2>1. DOMAIN t = (1..(p - 1)) \cup {p} \cup ((p + 1)..n)
      BY <1>1
    <2>2. \A i \in 1..(p - 1) : i # p
      BY <1>1
    <2>3. \A i \in (p + 1)..n : i # p
      BY <1>1
    <2> QED BY <2>1, <2>2, <2>3, Zenon
  <1>7. /\ p - 1 \in 1..Digits <=> p - 1 >= 1 /\ p - 1 <= Digits
        /\ n - p \in 1..Digits <=> n - p >= 1 /\ n - p <= Digits
    BY <1>1, DigitsAre
  <1>8. Shaped(t, p) <=> /\ p - 1 \in 1..Digits /\ n - p \in 1..Digits
                         /\ \A i \in DOMAIN t : IF i = p THEN t[i] = Point ELSE t[i] \in Digit
    BY DEF Shaped, n
  <1>9. Shaped(t, p) <=> /\ t[p] = Point /\ p - 1 >= 1 /\ n - p >= 1
                         /\ Numerals(W, p - 1) /\ Numerals(F, n - p)
    BY <1>3, <1>4, <1>5, <1>6, <1>7, <1>8, Zenon
  <1> QED BY <1>9 DEF W, F, n

LEMMA TermsAre ==
    ASSUME NEW t \in Seq(Chars), NEW p \in 1..Len(t), Shaped(t, p)
    PROVE  /\ Terms(t, p) \in [1..Len(t) -> Int]
           /\ Terms(t, p)[p] = 0
           /\ \A i \in 1..(p - 1) : Terms(t, p)[i] = t[i] * Power[Digits + p - 1 - i]
           /\ \A i \in (p + 1)..Len(t) : Terms(t, p)[i] = t[i] * Power[Digits + p - i]
  <1> DEFINE n == Len(t)
  <1>1. /\ n \in Nat /\ DOMAIN t = 1..n /\ p \in 1..n
        /\ p - 1 \in 1..Digits /\ n - p \in 1..Digits
        /\ \A i \in 1..n : i # p => t[i] \in Int
    <2>1. \A i \in 1..n : t[i] \in Chars
      OBVIOUS
    <2> QED BY <2>1, DigitsAre DEF Shaped
  <1> HIDE DEF n
  <1>2. ASSUME NEW i \in 1..n, i < p
        PROVE  /\ Digits + p - 1 - i \in 0..(2 * Digits) /\ i # p
               /\ Digits + (p - 1 - i) = Digits + p - 1 - i
    BY <1>1, <1>2, DigitsAre
  <1>3. ASSUME NEW i \in 1..n, i > p
        PROVE  /\ Digits + p - i \in 0..(2 * Digits) /\ i # p /\ ~ (i < p)
               /\ Digits + (p - i) = Digits + p - i
    BY <1>1, <1>3, DigitsAre
  <1>4. Terms(t, p) = [i \in 1..n |->
            IF i = p THEN 0
            ELSE t[i] * Power[Digits + IF i < p THEN p - 1 - i ELSE p - i]]
    BY <1>1 DEF Terms
  <1>5. Terms(t, p)[p] = 0
    BY <1>1, <1>4
  <1>6. ASSUME NEW i \in 1..n, i < p
        PROVE  Terms(t, p)[i] = t[i] * Power[Digits + p - 1 - i] /\ Terms(t, p)[i] \in Int
    <2>1. Terms(t, p)[i] = t[i] * Power[Digits + (p - 1 - i)]
      BY <1>2, <1>4, <1>6
    <2>2. Power[Digits + p - 1 - i] \in Nat /\ t[i] \in Int
      BY <1>1, <1>2, <1>6, PowerIs
    <2>3. Terms(t, p)[i] = t[i] * Power[Digits + p - 1 - i]
      BY <1>2, <1>6, <2>1
    <2> QED BY <2>2, <2>3
  <1>7. ASSUME NEW i \in 1..n, i > p
        PROVE  Terms(t, p)[i] = t[i] * Power[Digits + p - i] /\ Terms(t, p)[i] \in Int
    <2>1. Terms(t, p)[i] = t[i] * Power[Digits + (p - i)]
      BY <1>3, <1>4, <1>7
    <2>2. Power[Digits + p - i] \in Nat /\ t[i] \in Int
      BY <1>1, <1>3, <1>7, PowerIs
    <2>3. Terms(t, p)[i] = t[i] * Power[Digits + p - i]
      BY <1>3, <1>7, <2>1
    <2> QED BY <2>2, <2>3
  <1>8. ASSUME NEW i \in 1..n PROVE Terms(t, p)[i] \in Int
    <2>1. i < p \/ i = p \/ i > p
      BY <1>1
    <2> QED BY <1>5, <1>6, <1>7, <2>1
  <1>9. Terms(t, p) \in [1..n -> Int]
    <2>1. DOMAIN Terms(t, p) = 1..n
      BY <1>4
    <2>2. Terms(t, p) = [i \in 1..n |-> Terms(t, p)[i]]
      BY <1>4
    <2> QED BY <1>8, <2>2
  <1>10. /\ \A i \in 1..(p - 1) : i \in 1..n /\ i < p
         /\ \A i \in (p + 1)..n : i \in 1..n /\ i > p
    BY <1>1
  <1>11. /\ \A i \in 1..(p - 1) : Terms(t, p)[i] = t[i] * Power[Digits + p - 1 - i]
         /\ \A i \in (p + 1)..n : Terms(t, p)[i] = t[i] * Power[Digits + p - i]
    BY <1>6, <1>7, <1>10
  <1> QED BY <1>5, <1>9, <1>11 DEF n

LEMMA OneMoreDigit ==
    ASSUME NEW v \in Int, NEW c \in Int, NEW R \in Int, NEW q \in Int
    PROVE  v * (R * q) + c * q = (v * R + c) * q
  OBVIOUS

\* The terms before the point add up to the whole part.
LEMMA WholeWorth ==
    ASSUME NEW t \in Seq(Chars), NEW p \in 1..Len(t), Shaped(t, p)
    PROVE  Sums(Terms(t, p))[p - 1] = Numeral(WholeText(t, p)).value * B
  <1> DEFINE W == WholeText(t, p)
             r == Reading(W)
             S == Sums(Terms(t, p))
             m == p - 1
  <1>1. /\ m \in Nat /\ m <= Digits /\ p = m + 1 /\ Len(t) \in Nat /\ m <= Len(t)
        /\ W \in Seq(Chars) /\ Len(W) = m /\ Numerals(W, m)
        /\ \A i \in 1..m : W[i] = t[i] /\ W[i] \in Digit
    <2>1. W \in Seq(Chars) /\ Len(W) = m /\ \A i \in 1..m : W[i] = t[i]
      BY PiecesAre
    <2>2. Numerals(W, m) /\ m <= Digits
      BY ShapedIs DEF Numerals
    <2>3. \A i \in 1..m : W[i] \in Digit
      BY <2>2 DEF Numerals
    <2> QED BY <2>1, <2>2, <2>3
  <1>2. S[0] = 0 /\ \A k \in 1..m : S[k - 1] \in Int /\ S[k] = S[k - 1] + Terms(t, p)[k]
    <2>1. Terms(t, p) \in [1..Len(t) -> Int]
      BY TermsAre
    <2>2. S[0] = 0 /\ \A k \in 1..Len(t) : S[k - 1] \in Int /\ S[k] = S[k - 1] + Terms(t, p)[k]
      BY <1>1, <2>1, SumsAre
    <2>3. 1..m \subseteq 1..Len(t)
      BY <1>1
    <2> QED BY <2>2, <2>3
  <1>3. \A k \in 1..m : Terms(t, p)[k] = t[k] * Power[Digits + m - k]
    <2>1. \A k \in 1..m : Digits + p - 1 - k = Digits + m - k
      BY <1>1, DigitsAre
    <2>2. \A k \in 1..m : Terms(t, p)[k] = t[k] * Power[Digits + p - 1 - k]
      BY TermsAre
    <2> QED BY <2>1, <2>2
  <1> HIDE DEF m, W, S
  <1>4. /\ r[0].value = 0
        /\ \A k \in 0..m : r[k].value \in Nat
        /\ \A k \in 1..m : r[k].value = r[k - 1].value * Radix + W[k]
    <2>1. r[0].value = 0
      BY <1>1, ReadingIs DEF Unread
    <2>2. ASSUME NEW k \in 0..m PROVE Numerals(W, k)
      <3>1. k <= Digits /\ \A i \in 1..k : i \in 1..m
        BY <1>1, DigitsAre
      <3> QED BY <1>1, <3>1 DEF Numerals
    <2>3. ASSUME NEW k \in 0..m PROVE r[k].value \in Nat
      BY <1>1, <2>2, DigitsRead
    <2>4. ASSUME NEW k \in 1..m PROVE r[k].value = r[k - 1].value * Radix + W[k]
      <3>1. k \in 0..m /\ k >= 1
        BY <1>1
      <3> QED BY <1>1, <2>2, <3>1, DigitsRead
    <2> QED BY <2>1, <2>3, <2>4
  <1> HIDE DEF r
  <1> DEFINE Worth(k) == S[k] = r[k].value * Power[Digits + m - k]
             T == {k \in 0..m : Worth(k)}
  <1>5. 0 \in T
    <2>1. Power[Digits + m - 0] \in Nat
      <3>1. Digits + m - 0 \in 0..(2 * Digits)
        BY <1>1, DigitsAre
      <3> QED BY <3>1, PowerIs
    <2>2. 0 * Power[Digits + m - 0] = 0
      BY <2>1
    <2> QED BY <1>1, <1>2, <1>4, <2>2
  <1>6. ASSUME NEW k \in 0..(m - 1), Worth(k) PROVE Worth(k + 1)
    <2>1. /\ k + 1 \in 1..m /\ (k + 1) - 1 = k /\ k \in 0..m /\ k \in Nat
          /\ Digits + m - (k + 1) \in Nat /\ Digits + m - (k + 1) < 2 * Digits
          /\ (Digits + m - (k + 1)) + 1 = Digits + m - k
      BY <1>1, DigitsAre
    <2>2. PICK q \in Nat : q = Power[Digits + m - (k + 1)] /\ Power[Digits + m - k] = Radix * q
      BY <2>1, PowerStep
    <2>3. PICK v \in Nat : v = r[k].value /\ r[k + 1].value = v * Radix + W[k + 1]
      BY <1>4, <2>1
    <2>4. PICK c \in Nat : c = W[k + 1] /\ c = t[k + 1]
      BY <1>1, <2>1, DigitsAre
    <2>5. S[k + 1] = v * (Radix * q) + c * q
      <3>1. S[k + 1] = S[k] + Terms(t, p)[k + 1]
        BY <1>2, <2>1
      <3>2. S[k] = v * (Radix * q)
        BY <1>6, <2>2, <2>3
      <3>3. Terms(t, p)[k + 1] = c * q
        BY <1>3, <2>1, <2>2, <2>4
      <3> QED BY <3>1, <3>2, <3>3
    <2>6. v * (Radix * q) + c * q = (v * Radix + c) * q
      BY OneMoreDigit, DigitsAre
    <2> QED BY <2>2, <2>3, <2>4, <2>5, <2>6
  <1>7. 0..m \subseteq T
    <2>1. ASSUME NEW k \in 0..(m - 1), k \in T PROVE k + 1 \in T
      <3>1. k + 1 \in 0..m /\ Worth(k)
        BY <1>1, <2>1
      <3>2. Worth(k + 1)
        <4> HIDE DEF Worth, T
        <4> QED BY <1>6, <3>1
      <3> HIDE DEF Worth
      <3> QED BY <3>1, <3>2
    <2> HIDE DEF T
    <2> QED BY <1>1, <1>5, <2>1, UpTo
  <1>8. Worth(m)
    <2>1. m \in 0..m
      BY <1>1
    <2> HIDE DEF Worth
    <2> QED BY <1>7, <2>1
  <1>9. Digits + m - m = Digits /\ r[m] = Numeral(W)
    BY <1>1, DigitsAre DEF Numeral, r
  <1>10. S[m] = r[m].value * B
    BY <1>8, <1>9 DEF B
  <1> QED BY <1>9, <1>10 DEF m, W, S

\* The terms after the point add up to the fraction.
LEMMA FracWorth ==
    ASSUME NEW t \in Seq(Chars), NEW p \in 1..Len(t), Shaped(t, p)
    PROVE  Total(Terms(t, p)) =
               Sums(Terms(t, p))[p - 1]
               + Numeral(FracText(t, p)).value * Power[Digits - (Len(t) - p)]
  <1> DEFINE F == FracText(t, p)
             r == Reading(F)
             S == Sums(Terms(t, p))
             n == Len(t)
             m == n - p
  <1>1. /\ m \in Nat /\ m <= Digits /\ p \in 1..n /\ n \in Nat
        /\ F \in Seq(Chars) /\ Len(F) = m /\ Numerals(F, m)
        /\ \A i \in 1..m : F[i] = t[p + i] /\ F[i] \in Digit
    <2>1. F \in Seq(Chars) /\ Len(F) = m /\ \A i \in 1..m : F[i] = t[p + i]
      BY PiecesAre
    <2>2. Numerals(F, m) /\ m <= Digits
      BY ShapedIs DEF Numerals
    <2>3. \A i \in 1..m : F[i] \in Digit
      BY <2>2 DEF Numerals
    <2> QED BY <2>1, <2>2, <2>3
  <1>2. /\ \A k \in 1..n : S[k - 1] \in Int /\ S[k] = S[k - 1] + Terms(t, p)[k]
        /\ Total(Terms(t, p)) = S[n]
        /\ Terms(t, p)[p] = 0
    <2>1. Terms(t, p) \in [1..n -> Int] /\ Terms(t, p)[p] = 0
      BY TermsAre
    <2> QED BY <1>1, <2>1, SumsAre
  <1>3. \A i \in (p + 1)..n : Terms(t, p)[i] = t[i] * Power[Digits + p - i]
    BY TermsAre
  <1> HIDE DEF m, F, S
  <1>4. /\ r[0].value = 0
        /\ \A k \in 0..m : r[k].value \in Nat
        /\ \A k \in 1..m : r[k].value = r[k - 1].value * Radix + F[k]
    <2>1. r[0].value = 0
      BY <1>1, ReadingIs DEF Unread
    <2>2. ASSUME NEW k \in 0..m PROVE Numerals(F, k)
      <3>1. k <= Digits /\ \A i \in 1..k : i \in 1..m
        BY <1>1, DigitsAre
      <3> QED BY <1>1, <3>1 DEF Numerals
    <2>3. ASSUME NEW k \in 0..m PROVE r[k].value \in Nat
      BY <1>1, <2>2, DigitsRead
    <2>4. ASSUME NEW k \in 1..m PROVE r[k].value = r[k - 1].value * Radix + F[k]
      <3>1. k \in 0..m /\ k >= 1
        BY <1>1
      <3> QED BY <1>1, <2>2, <3>1, DigitsRead
    <2> QED BY <2>1, <2>3, <2>4
  <1> HIDE DEF r, n
  <1>5. PICK w \in Int : w = S[p - 1] /\ S[p] = w
    <2>1. S[p - 1] \in Int /\ S[p] = S[p - 1] + 0
      BY <1>1, <1>2
    <2> QED BY <2>1
  <1> DEFINE Worth(k) == S[p + k] = w + r[k].value * Power[Digits - k]
             T == {k \in 0..m : Worth(k)}
  <1>6. 0 \in T
    <2>1. Power[Digits - 0] \in Nat /\ p + 0 = p
      <3>1. Digits - 0 \in 0..(2 * Digits) /\ p + 0 = p
        BY <1>1, DigitsAre
      <3> QED BY <3>1, PowerIs
    <2>2. w + 0 * Power[Digits - 0] = w
      BY <2>1
    <2> QED BY <1>1, <1>4, <1>5, <2>1, <2>2
  <1>7. ASSUME NEW k \in 0..(m - 1), Worth(k) PROVE Worth(k + 1)
    <2>1. /\ k + 1 \in 1..m /\ (k + 1) - 1 = k /\ k \in 0..m /\ k \in Nat
          /\ Digits - (k + 1) \in Nat /\ Digits - (k + 1) < 2 * Digits
          /\ (Digits - (k + 1)) + 1 = Digits - k
      BY <1>1, DigitsAre
    <2>2. /\ p + (k + 1) \in (p + 1)..n /\ p + (k + 1) \in 1..n /\ (p + (k + 1)) - 1 = p + k
          /\ Digits + p - (p + (k + 1)) = Digits - (k + 1)
      BY <1>1, <2>1, DigitsAre DEF m
    <2>3. PICK q \in Nat : q = Power[Digits - (k + 1)] /\ Power[Digits - k] = Radix * q
      BY <2>1, PowerStep
    <2>4. PICK v \in Nat : v = r[k].value /\ r[k + 1].value = v * Radix + F[k + 1]
      BY <1>4, <2>1
    <2>5. PICK c \in Nat : c = F[k + 1] /\ c = t[p + (k + 1)]
      BY <1>1, <2>1, DigitsAre
    <2>6. S[p + (k + 1)] = (w + v * (Radix * q)) + c * q
      <3>1. S[p + (k + 1)] = S[p + k] + Terms(t, p)[p + (k + 1)]
        BY <1>2, <2>2
      <3>2. S[p + k] = w + v * (Radix * q)
        BY <1>7, <2>3, <2>4
      <3>3. Terms(t, p)[p + (k + 1)] = c * q
        <4>1. Terms(t, p)[p + (k + 1)] = t[p + (k + 1)] * Power[Digits + p - (p + (k + 1))]
          BY <1>3, <2>2
        <4> QED BY <2>2, <2>3, <2>5, <4>1
      <3> QED BY <3>1, <3>2, <3>3
    <2>7. v * (Radix * q) + c * q = (v * Radix + c) * q
      BY OneMoreDigit, DigitsAre
    <2>8. S[p + (k + 1)] = w + (v * Radix + c) * q
      <3>1. PICK a \in Int, b \in Int, d \in Int :
                a = v * (Radix * q) /\ b = c * q /\ d = (v * Radix + c) * q
        BY DigitsAre
      <3>2. S[p + (k + 1)] = (w + a) + b /\ a + b = d
        BY <2>6, <2>7, <3>1
      <3>3. S[p + (k + 1)] = w + d
        BY <3>2
      <3> QED BY <3>1, <3>3
    <2> QED BY <2>3, <2>4, <2>5, <2>8
  <1>8. 0..m \subseteq T
    <2>1. ASSUME NEW k \in 0..(m - 1), k \in T PROVE k + 1 \in T
      <3>1. k + 1 \in 0..m /\ Worth(k)
        BY <1>1, <2>1
      <3>2. Worth(k + 1)
        <4> HIDE DEF Worth, T
        <4> QED BY <1>7, <3>1
      <3> HIDE DEF Worth
      <3> QED BY <3>1, <3>2
    <2> HIDE DEF T
    <2> QED BY <1>1, <1>6, <2>1, UpTo
  <1>9. Worth(m)
    <2>1. m \in 0..m
      BY <1>1
    <2> HIDE DEF Worth
    <2> QED BY <1>8, <2>1
  <1>10. p + m = n /\ r[m] = Numeral(F)
    BY <1>1 DEF Numeral, r, m
  <1>11. S[n] = w + r[m].value * Power[Digits - m]
    BY <1>9, <1>10
  <1>12. Total(Terms(t, p)) = S[p - 1] + Numeral(F).value * Power[Digits - m]
    BY <1>2, <1>5, <1>10, <1>11
  <1> QED BY <1>12 DEF m, F, S, n

\* fixpoint_parse_hex with its pieces named.
LEMMA ParsesPieces ==
    ASSUME NEW s \in Seq(Chars), NEW t, t = Unsigned(s), NEW at, at = FirstPoint(t),
           NEW whole, whole = Numeral(WholeText(t, at)),
           NEW frac, frac = Numeral(FracText(t, at))
    PROVE  /\ Parse(s).ok = (at # 0 /\ whole.ok /\ whole.count > 0 /\ frac.ok /\ frac.count > 0)
           /\ Parse(s).value =
                FixpointInit(whole.value, Wrap32(frac.value * Power[Digits - frac.count]), HasSign(s))
  <1> DEFINE neg == s # <<>> /\ Head(s) = Minus
             rest == IF neg THEN Tail(s) ELSE s
             w == Numeral(SubSeq(rest, 1, FirstPoint(rest) - 1))
             f == Numeral(SubSeq(rest, FirstPoint(rest) + 1, Len(rest)))
  <1>1. neg = HasSign(s)
    BY DEF HasSign
  <1>2. rest = t
    BY <1>1 DEF Unsigned
  <1>3. Parse(s) =
          [ok |-> FirstPoint(rest) # 0 /\ w.ok /\ w.count > 0 /\ f.ok /\ f.count > 0,
           value |-> FixpointInit(w.value, Wrap32(f.value * Power[Digits - f.count]), neg)]
    BY DEF Parse
  <1>4. w = whole /\ f = frac
    BY <1>2 DEF WholeText, FracText
  <1> HIDE DEF neg, rest, w, f
  <1> QED BY <1>1, <1>2, <1>3, <1>4

\* A text has the shape that the grammar asks for at no place but its first point.
LEMMA ShapedAtPoint ==
    ASSUME NEW t \in Seq(Chars), NEW p \in 1..Len(t), Shaped(t, p)
    PROVE  p = FirstPoint(t)
  <1>1. DOMAIN t = 1..Len(t) /\ Len(t) \in Nat
    OBVIOUS
  <1>2. t[p] = Point /\ \A i \in 1..Len(t) : i # p => t[i] # Point
    BY <1>1, DigitsAre DEF Shaped
  <1>3. PICK at : at = FirstPoint(t)
    OBVIOUS
  <1>4. at \in 1..Len(t) /\ t[at] = Point
    BY <1>2, <1>3, PointAt
  <1> QED BY <1>2, <1>3, <1>4

LEMMA LessTimes ==
    ASSUME NEW x \in Int, NEW y \in Int, NEW b \in Nat, x <= y
    PROVE  x * b <= y * b
  <1>1. PICK d \in Nat : y = x + d
    <2>1. y - x \in Nat /\ y = x + (y - x)
      OBVIOUS
    <2> QED BY <2>1
  <1>2. (x + d) * b = x * b + d * b
    OBVIOUS
  <1>3. x * b \in Int /\ d * b \in Nat
    OBVIOUS
  <1> QED BY <1>1, <1>2, <1>3

LEMMA ParseOfShaped ==
    ASSUME NEW s \in Seq(Chars), NEW t, t = Unsigned(s), NEW p \in 1..Len(t), Shaped(t, p)
    PROVE  /\ Parse(s).ok = TRUE
           /\ Parse(s).value \in Fixpoints
           /\ ~ IsSignedZero(Parse(s).value)
           /\ Value(Parse(s).value) = IF HasSign(s) THEN -Total(Terms(t, p)) ELSE Total(Terms(t, p))
  <1> DEFINE W == WholeText(t, p)
             F == FracText(t, p)
             m == p - 1
             n == Len(t) - p
  <1>1. t \in Seq(Chars) /\ p = FirstPoint(t) /\ Len(t) \in Nat
    BY UnsignedIs, ShapedAtPoint
  <1>2. /\ W \in Seq(Chars) /\ Len(W) = m /\ F \in Seq(Chars) /\ Len(F) = n
        /\ m \in Nat /\ n \in Nat /\ m >= 1 /\ n >= 1
        /\ Numerals(W, m) /\ Numerals(F, n) /\ m <= Digits /\ n <= Digits
    <2>1. m \in Nat /\ n \in Nat
      BY <1>1
    <2>2. W \in Seq(Chars) /\ Len(W) = m /\ F \in Seq(Chars) /\ Len(F) = n
      BY <1>1, PiecesAre
    <2>3. m >= 1 /\ n >= 1 /\ Numerals(W, m) /\ Numerals(F, n)
      BY <1>1, ShapedIs
    <2>4. m <= Digits /\ n <= Digits
      BY <2>3 DEF Numerals
    <2> QED BY <2>1, <2>2, <2>3, <2>4
  <1>3. Total(Terms(t, p)) = Numeral(W).value * B + Numeral(F).value * Power[Digits - n]
    BY <1>1, WholeWorth, FracWorth
  <1> HIDE DEF W, F, m, n
  <1>4. PICK w \in Nat : Numeral(W).ok /\ Numeral(W).count = m /\ w = Numeral(W).value /\ w < Power[m]
    <2>1. m \in 0..Len(W)
      BY <1>2
    <2> QED BY <1>2, <2>1, DigitsRead DEF Numeral
  <1>5. PICK f \in Nat : Numeral(F).ok /\ Numeral(F).count = n /\ f = Numeral(F).value /\ f < Power[n]
    <2>1. n \in 0..Len(F)
      BY <1>2
    <2> QED BY <1>2, <2>1, DigitsRead DEF Numeral
  <1>6. w \in Word
    <2>1. m \in 0..(2 * Digits) /\ Digits \in m..(2 * Digits)
      BY <1>2, DigitsAre
    <2>2. Power[m] <= B /\ Power[m] \in Nat
      BY <2>1, PowersRise, PowerIs DEF B
    <2> QED BY <1>4, <2>2, BaseIs DEF Word
  <1>7. PICK g \in Word : g = f * Power[Digits - n] /\ Wrap32(f * Power[Digits - n]) = g
    <2>1. /\ n \in 0..(2 * Digits) /\ Digits - n \in 0..(2 * Digits - n)
          /\ Digits - n \in 0..(2 * Digits) /\ n + (Digits - n) = Digits
      BY <1>2, DigitsAre
    <2>2. PICK a \in Nat, b \in Nat : a = Power[n] /\ b = Power[Digits - n] /\ b >= 1 /\ f <= a - 1
      BY <1>5, <2>1, PowersGrow
    <2>3. B = a * b
      BY <2>1, <2>2, PowersAdd DEF B
    <2>4. f * b <= (a - 1) * b
      <3>1. f \in Int /\ a - 1 \in Int /\ b \in Nat /\ f <= a - 1
        BY <2>2
      <3> QED BY <3>1, LessTimes
    <2>5. (a - 1) * b = a * b - b
      OBVIOUS
    <2>6. f * b \in Nat /\ a * b \in Nat
      OBVIOUS
    <2>7. f * b \in Word
      BY <2>2, <2>3, <2>4, <2>5, <2>6 DEF Word
    <2> QED BY <2>2, <2>7, WrapWord
  <1>8. /\ Parse(s).ok = TRUE
        /\ Parse(s).value = FixpointInit(w, g, HasSign(s))
    <2>1. /\ Parse(s).ok = (p # 0 /\ Numeral(W).ok /\ Numeral(W).count > 0
                            /\ Numeral(F).ok /\ Numeral(F).count > 0)
          /\ Parse(s).value = FixpointInit(Numeral(W).value,
                                Wrap32(Numeral(F).value * Power[Digits - Numeral(F).count]), HasSign(s))
      BY <1>1, ParsesPieces DEF W, F
    <2>2. p # 0 /\ m > 0 /\ n > 0
      BY <1>2
    <2> QED BY <1>4, <1>5, <1>7, <2>1, <2>2
  <1>9. HasSign(s) \in BOOLEAN
    BY DEF HasSign
  <1>10. Total(Terms(t, p)) = w * B + g
    BY <1>3, <1>4, <1>5, <1>7
  <1> QED BY <1>6, <1>7, <1>8, <1>9, <1>10, InitialIs

LEMMA ShapedWhenParsed ==
    ASSUME NEW s \in Seq(Chars), NEW t, t = Unsigned(s), Parse(s).ok = TRUE
    PROVE  \E p \in 1..Len(t) : Shaped(t, p)
  <1>1. PICK p : p = FirstPoint(t)
    OBVIOUS
  <1> DEFINE W == WholeText(t, p)
             F == FracText(t, p)
  <1>2. p # 0 /\ Numeral(W).ok /\ Numeral(W).count > 0 /\ Numeral(F).ok /\ Numeral(F).count > 0
    <2>1. Parse(s).ok = (p # 0 /\ Numeral(W).ok /\ Numeral(W).count > 0
                         /\ Numeral(F).ok /\ Numeral(F).count > 0)
      BY <1>1, ParsesPieces
    <2> QED BY <2>1
  <1>3. t \in Seq(Chars) /\ p \in 1..Len(t) /\ t[p] = Point
    <2>1. t \in Seq(Chars)
      BY UnsignedIs
    <2> QED BY <1>1, <1>2, <2>1, PointAt
  <1>4. /\ W \in Seq(Chars) /\ Len(W) = p - 1 /\ F \in Seq(Chars) /\ Len(F) = Len(t) - p
        /\ p - 1 \in Nat /\ Len(t) - p \in Nat
    <2>1. Len(t) \in Nat /\ p - 1 \in Nat /\ Len(t) - p \in Nat
      BY <1>3
    <2> QED BY <1>3, <2>1, PiecesAre
  <1> HIDE DEF W, F
  <1>5. Numerals(W, p - 1) /\ p - 1 > 0
    <2>1. p - 1 \in 0..Len(W) /\ Numeral(W) = Reading(W)[p - 1]
      BY <1>4 DEF Numeral
    <2>2. Numerals(W, p - 1)
      BY <1>2, <1>4, <2>1, DigitsRead
    <2>3. Numeral(W).count = p - 1
      BY <1>4, <2>1, <2>2, DigitsRead
    <2> QED BY <1>2, <2>2, <2>3
  <1>6. Numerals(F, Len(t) - p) /\ Len(t) - p > 0
    <2>1. Len(t) - p \in 0..Len(F) /\ Numeral(F) = Reading(F)[Len(t) - p]
      BY <1>4 DEF Numeral
    <2>2. Numerals(F, Len(t) - p)
      BY <1>2, <1>4, <2>1, DigitsRead
    <2>3. Numeral(F).count = Len(t) - p
      BY <1>4, <2>1, <2>2, DigitsRead
    <2> QED BY <1>2, <2>2, <2>3
  <1>7. p - 1 >= 1 /\ Len(t) - p >= 1
    BY <1>4, <1>5, <1>6
  <1>8. Shaped(t, p)
    BY <1>3, <1>5, <1>6, <1>7, ShapedIs DEF W, F
  <1> QED BY <1>3, <1>8

\* fixpoint_parse_hex reads the texts of the grammar and no others, as what
\* they denote.
ParsesRight(s) ==
    /\ Parse(s).ok \in BOOLEAN
    /\ Parse(s).ok = FALSE => Denoted(s) = {}
    /\ Parse(s).ok = TRUE => /\ Parse(s).value \in Fixpoints
                             /\ ~ IsSignedZero(Parse(s).value)
                             /\ Denoted(s) = {Value(Parse(s).value)}

LEMMA ParseIs ==
    ASSUME NEW s \in Seq(Chars)
    PROVE  ParsesRight(s)
  <1>1. PICK t : t = Unsigned(s)
    OBVIOUS
  <1>2. t \in Seq(Chars) /\ DOMAIN t = 1..Len(t)
    BY <1>1, UnsignedIs
  <1> DEFINE D == {q \in DOMAIN t : Shaped(t, q)}
             Worth(p) == IF HasSign(s) THEN -Total(Terms(t, p)) ELSE Total(Terms(t, p))
  <1>3. Denoted(s) = {Worth(p) : p \in D}
    BY <1>1, DenotedIs
  <1>4. Parse(s).ok \in BOOLEAN
    BY ParsesPieces
  <1>5. CASE D = {}
    <2>1. Denoted(s) = {}
      BY <1>3, <1>5
    <2>2. ~ (Parse(s).ok = TRUE)
      BY <1>1, <1>2, <1>5, ShapedWhenParsed
    <2> QED BY <1>4, <2>1, <2>2 DEF ParsesRight
  <1>6. ASSUME NEW p \in D PROVE ParsesRight(s)
    <2>1. p \in 1..Len(t) /\ Shaped(t, p)
      BY <1>2
    <2>2. D = {p}
      <3>1. ASSUME NEW q \in D PROVE q = p
        BY <1>2, <2>1, ShapedAtPoint
      <3> QED BY <3>1
    <2>3. Denoted(s) = {Worth(p)}
      <3> HIDE DEF D, Worth
      <3> QED BY <1>3, <2>2
    <2>4. /\ Parse(s).ok = TRUE /\ Parse(s).value \in Fixpoints
          /\ ~ IsSignedZero(Parse(s).value) /\ Value(Parse(s).value) = Worth(p)
      BY <1>1, <2>1, ParseOfShaped
    <2> HIDE DEF Worth
    <2> QED BY <2>3, <2>4 DEF ParsesRight
  <1> QED BY <1>5, <1>6

LEMMA ParseStep ==
    ASSUME Types, NEW o \in Objects, ParseHex(o)
    PROVE  Types' /\ Scaled!ParseHex(o)
  <1>1. /\ str \in Seq(Chars) /\ str' = str
        /\ ret' = Success(Parse(str).ok)
        /\ val' = IF Parse(str).ok THEN [val EXCEPT ![o] = Parse(str).value] ELSE val
    BY DEF Types, ParseHex
  <1>2. ParsesRight(str)
    BY <1>1, ParseIs
  <1>3. Denoted(str)' = Denoted(str)
    BY <1>1 DEF Denoted
  <1>4. CASE Parse(str).ok = FALSE
    <2>1. Denoted(str) = {} /\ val' = val
      BY <1>1, <1>2, <1>4 DEF ParsesRight
    <2>2. ret' = Scaled!Success(Denoted(str) # {})
      BY <1>1, <1>4, <2>1 DEF Success, Nothing, Scaled!Success, Scaled!Nothing
    <2>3. [q \in Objects |-> Value(val[q])]' = [q \in Objects |-> Value(val[q])]
      BY <2>1 DEF Value
    <2>4. Types'
      BY <1>1, <2>1 DEF Types
    <2> QED BY <1>3, <2>1, <2>2, <2>3, <2>4 DEF Scaled!ParseHex
  <1>5. CASE Parse(str).ok = TRUE
    <2>1. /\ Parse(str).value \in Fixpoints
          /\ Denoted(str) = {Value(Parse(str).value)}
          /\ val' = [val EXCEPT ![o] = Parse(str).value]
      BY <1>1, <1>2, <1>5 DEF ParsesRight
    <2>2. ret' = Scaled!Success(Denoted(str) # {})
      <3>1. (Denoted(str) # {}) = TRUE
        BY <2>1
      <3>2. ret' = Success(TRUE)
        BY <1>1, <1>5
      <3> QED BY <3>1, <3>2 DEF Success, Nothing, Scaled!Success, Scaled!Nothing
    <2>3. /\ val' \in [Objects -> Fixpoints]
          /\ [q \in Objects |-> Value(val[q])]'
                 = [[q \in Objects |-> Value(val[q])] EXCEPT ![o] = Value(Parse(str).value)]
      BY <2>1, NumIs
    <2>4. Types'
      BY <1>1, <2>3 DEF Types
    <2>5. Value(Parse(str).value) \in Denoted(str)
      BY <2>1
    <2> QED BY <1>3, <2>2, <2>3, <2>4, <2>5 DEF Scaled!ParseHex
  <1>6. Parse(str).ok \in BOOLEAN
    BY <1>2 DEF ParsesRight
  <1> QED BY <1>4, <1>5, <1>6

-----------------------------------------------------------------------------
(* Printing a number                                                         *)

\* To divide by a product is to divide by its factors in turn.
LEMMA DividesInTurn ==
    ASSUME NEW n \in Nat, NEW R \in Nat, R > 0, NEW q \in Nat, q > 0
    PROVE  /\ n \div q \in Nat /\ (n \div q) \div R \in Nat /\ R * q > 0 /\ R * q \in Nat
           /\ n \div (R * q) = (n \div q) \div R
  <1>1. PICK a \in Int, b \in 0..(q - 1) : a = n \div q /\ n = a * q + b
    BY Divides
  <1>2. a \in Nat
    <2>1. ~ (a <= -1)
      <3> SUFFICES ASSUME a <= -1 PROVE FALSE
        OBVIOUS
      <3>1. a * q <= (-1) * q
        BY LessTimes
      <3> QED BY <1>1, <3>1
    <2> QED BY <2>1
  <1>3. PICK c \in Int, d \in 0..(R - 1) : c = a \div R /\ a = c * R + d
    BY <1>2, Divides
  <1>4. c \in Nat
    <2>1. ~ (c <= -1)
      <3> SUFFICES ASSUME c <= -1 PROVE FALSE
        OBVIOUS
      <3>1. c * R <= (-1) * R
        BY LessTimes
      <3> QED BY <1>2, <1>3, <3>1
    <2> QED BY <2>1
  <1>5. R * q \in Nat /\ R * q > 0
    <2>1. 1 * q <= R * q
      BY LessTimes
    <2>2. R * q \in Nat
      OBVIOUS
    <2> QED BY <2>1, <2>2
  <1>6. d * q + b \in 0..(R * q - 1)
    <2>1. d \in Int /\ R - 1 \in Int /\ d <= R - 1
      OBVIOUS
    <2>2. d * q <= (R - 1) * q
      BY <2>1, LessTimes
    <2>3. (R - 1) * q = R * q - q
      OBVIOUS
    <2>4. d * q \in Nat
      OBVIOUS
    <2> QED BY <1>5, <2>2, <2>3, <2>4
  <1>7. n = c * (R * q) + (d * q + b)
    <2>1. (c * R + d) * q = c * (R * q) + d * q
      OBVIOUS
    <2>2. c * (R * q) \in Int /\ d * q \in Int /\ n = (c * R + d) * q + b
      BY <1>1, <1>3
    <2> QED BY <2>1, <2>2
  <1>8. n \div (R * q) = c
    BY <1>5, <1>6, <1>7, Quotient
  <1> QED BY <1>1, <1>2, <1>3, <1>4, <1>5, <1>8

\* The digits of n that s has are those that the numeral of s makes.
LEMMA DigitsMake ==
    ASSUME NEW s \in Seq(Chars), NEW k \in 1..Digits, Len(s) <= k,
           NEW n \in Nat, n < Power[k],
           \A i \in 1..Len(s) : s[i] = (n \div Power[k - i]) % Radix
    PROVE  /\ Numerals(s, Len(s))
           /\ Numeral(s).value = n \div Power[k - Len(s)]
  <1>1. PICK m \in Nat : m = Len(s) /\ m <= k
    OBVIOUS
  <1>2. /\ k \in Nat /\ k <= Digits /\ Digits \in Nat /\ Radix \in Nat /\ Radix >= 2
        /\ Digit = 0..(Radix - 1)
    BY DigitsAre
  <1>3. ASSUME NEW j \in 0..(m - 1)
        PROVE  /\ j + 1 \in 1..m /\ (j + 1) - 1 = j /\ j \in 0..m
               /\ k - (j + 1) \in Nat /\ k - (j + 1) < 2 * Digits /\ (k - (j + 1)) + 1 = k - j
    BY <1>1, <1>2
  <1>4. ASSUME NEW j \in 0..(m - 1)
        PROVE  \E a \in Nat, b \in Nat : /\ b = n \div Power[k - (j + 1)]
                                         /\ a = n \div Power[k - j]
                                         /\ a = b \div Radix /\ b = a * Radix + s[j + 1]
                                         /\ s[j + 1] \in Digit
    <2>1. PICK q \in Nat : q = Power[k - (j + 1)] /\ q > 0 /\ Power[k - j] = Radix * q
      <3>1. Power[k - (j + 1)] \in Nat /\ Power[k - j] = Radix * Power[k - (j + 1)]
        BY <1>3, PowerStep
      <3>2. k - (j + 1) \in 0..(2 * Digits)
        BY <1>2, <1>3
      <3>3. Power[k - (j + 1)] >= 1
        BY <3>2, PowersGrow
      <3> QED BY <3>1, <3>3
    <2>2. n \div q \in Nat /\ (n \div q) \div Radix \in Nat /\ n \div (Radix * q) = (n \div q) \div Radix
      <3>1. Radix \in Nat /\ Radix > 0
        BY <1>2
      <3>2. q \in Nat /\ q > 0
        BY <2>1
      <3> QED BY ZenonT(60), <3>1, <3>2, DividesInTurn
    <2>3. PICK a \in Nat, b \in Nat : b = n \div q /\ a = b \div Radix /\ a = n \div (Radix * q)
      BY <2>2
    <2>4. s[j + 1] = b % Radix
      BY <1>1, <1>3, <2>1, <2>3
    <2>5. b = a * Radix + (b % Radix) /\ b % Radix \in 0..(Radix - 1)
      <3>1. b \in Int /\ Radix \in Nat /\ Radix > 0
        BY <1>2
      <3> QED BY <2>3, <3>1, Divides
    <2>6. b = a * Radix + s[j + 1] /\ s[j + 1] \in Digit
      BY <1>2, <2>4, <2>5
    <2> QED BY <2>1, <2>3, <2>6
  <1>5. Numerals(s, m)
    <2>1. ASSUME NEW i \in 1..m PROVE s[i] \in Digit
      <3>1. i - 1 \in 0..(m - 1) /\ (i - 1) + 1 = i
        BY <1>1
      <3> QED BY <1>4, <3>1
    <2> QED BY <1>1, <1>2, <2>1 DEF Numerals
  <1> DEFINE r == Reading(s)
             Worth(j) == r[j].value = n \div Power[k - j]
             T == {j \in 0..m : Worth(j)}
  <1>6. 0 \in T
    <2>1. r[0].value = 0 /\ k - 0 = k /\ 0 \in 0..m
      BY <1>1, <1>2, ReadingIs DEF Unread
    <2>2. PICK p \in Nat : p = Power[k] /\ n \in 0..(p - 1) /\ p > 0
      <3>1. k \in 0..(2 * Digits)
        BY <1>2
      <3>2. Power[k] \in Nat
        BY <3>1, PowerIs
      <3> QED BY <3>2
    <2>3. (0 * p + n) \div p = 0
      <3>1. 0 \in Int /\ p \in Nat /\ p > 0 /\ n \in 0..(p - 1)
        BY <2>2
      <3> QED BY <3>1, Quotient, Zenon
    <2>4. 0 * p + n = n
      BY <2>2
    <2> QED BY <2>1, <2>2, <2>3, <2>4
  <1>7. ASSUME NEW j \in 0..(m - 1), Worth(j) PROVE Worth(j + 1)
    <2>1. PICK a \in Nat, b \in Nat : /\ b = n \div Power[k - (j + 1)]
                                      /\ a = n \div Power[k - j] /\ b = a * Radix + s[j + 1]
      BY <1>4
    <2>2. Numerals(s, j + 1) /\ j + 1 \in 0..Len(s) /\ j + 1 >= 1
      <3>1. j + 1 <= m /\ j + 1 <= Digits /\ j + 1 \in 1..m /\ 1..(j + 1) \subseteq 1..m
        BY <1>1, <1>2, <1>3
      <3> QED BY <1>1, <1>5, <3>1 DEF Numerals
    <2>3. r[j + 1].value = r[(j + 1) - 1].value * Radix + s[j + 1]
      BY <2>2, DigitsRead
    <2>4. r[j + 1].value = r[j].value * Radix + s[j + 1]
      BY <1>3, <2>3
    <2> QED BY <1>7, <2>1, <2>4
  <1>8. 0..m \subseteq T
    <2>1. ASSUME NEW j \in 0..(m - 1), j \in T PROVE j + 1 \in T
      <3>1. j + 1 \in 0..m /\ Worth(j)
        BY <1>1, <2>1
      <3>2. Worth(j + 1)
        <4> HIDE DEF Worth, T
        <4> QED BY <1>7, <3>1
      <3> HIDE DEF Worth
      <3> QED BY <3>1, <3>2
    <2> HIDE DEF T
    <2> QED BY <1>1, <1>6, <2>1, UpTo
  <1>9. r[m].value = n \div Power[k - m]
    <2>1. m \in 0..m
      BY <1>1
    <2> HIDE DEF r
    <2> QED BY <1>8, <2>1
  <1> QED BY <1>1, <1>5, <1>9 DEF Numeral

\* The digits that snprintf writes.
LEMMA PaddedIs ==
    ASSUME NEW k \in 1..Digits, NEW n \in Nat, n < Power[k]
    PROVE  /\ Padded(n, k) \in Seq(Chars) /\ Len(Padded(n, k)) = k
           /\ \A i \in 1..k : /\ Padded(n, k)[i] = (n \div Power[k - i]) % Radix
                              /\ Padded(n, k)[i] \in Digit
  <1>1. /\ k \in Nat /\ k <= Digits /\ Digits \in Nat /\ Radix \in Nat /\ Radix >= 2
        /\ Digit = 0..(Radix - 1)
    BY DigitsAre
  <1>2. ASSUME NEW i \in 1..k PROVE (n \div Power[k - i]) % Radix \in Digit
    <2>1. k - i \in 0..(2 * Digits)
      BY <1>1
    <2>2. Power[k - i] \in Nat /\ Power[k - i] > 0
      BY <2>1, PowersGrow
    <2>3. n \div Power[k - i] \in Int
      BY <2>2, Divides
    <2> QED BY <1>1, <2>3, Divides
  <1>3. Padded(n, k) = [i \in 1..k |-> (n \div Power[k - i]) % Radix]
    BY DEF Padded
  <1>4. Padded(n, k) \in [1..k -> Digit]
    BY <1>2, <1>3
  <1>5. Padded(n, k) \in Seq(Chars) /\ Len(Padded(n, k)) = k
    <2>1. Padded(n, k) \in [1..k -> Chars]
      BY <1>4 DEF Chars
    <2> HIDE <1>4
    <2> QED BY <1>1, <2>1
  <1> QED BY <1>2, <1>3, <1>5

\* The least number of digits that n has.
FewestDigits(n, k) == n < Power[k] /\ (k = 1 \/ n >= Power[k - 1])

LEMMA HexIs ==
    ASSUME NEW n \in Word
    PROVE  \E k \in 1..Digits : Hex(n) = Padded(n, k) /\ FewestDigits(n, k) /\ n \in Nat
  <1>1. n \in Nat /\ n < Power[Digits] /\ Digits \in Nat /\ Digits >= 1
    BY BaseIs, DigitsAre DEF Word, B
  <1> DEFINE I == {k \in 1..Digits : n < Power[k]}
  <1>2. PICK k \in I : \A j \in I : ~ (j < k)
    <2>1. I \subseteq Nat /\ I # {}
      BY <1>1
    <2> HIDE DEF I
    <2>2. PICK k \in I : \A j \in I : <<j, k>> \notin OpToRel(<, Nat)
      BY <2>1, NatLessThanWellFounded, WFMin
    <2> QED BY <2>1, <2>2 DEF OpToRel
  <1>3. FewestDigits(n, k)
    <2>1. CASE k = 1
      BY <2>1 DEF FewestDigits
    <2>2. CASE k # 1
      <3>1. k - 1 \in 1..Digits /\ k - 1 \notin I /\ k - 1 \in 0..(2 * Digits)
        BY <1>1, <1>2, <2>2
      <3>2. Power[k - 1] \in Nat
        BY <3>1, PowerIs
      <3>3. n >= Power[k - 1]
        BY <1>1, <3>1, <3>2
      <3> QED BY <3>3 DEF FewestDigits
    <2> QED BY <2>1, <2>2
  <1>4. Hex(n) = Padded(n, CHOOSE h \in 1..Digits : FewestDigits(n, h))
    BY DEF Hex, FewestDigits
  <1>5. PICK h \in 1..Digits : Hex(n) = Padded(n, h) /\ FewestDigits(n, h)
    <2>1. \E h \in 1..Digits : FewestDigits(n, h)
      BY <1>3
    <2> QED BY <1>4, <2>1
  <1> QED BY <1>1, <1>5

\* A number whose last digits are zeros is a multiple of the power above them.
LEMMA ZerosWorth ==
    ASSUME NEW n \in Nat, NEW m \in 0..Digits,
           \A i \in (m + 1)..Digits : (n \div Power[Digits - i]) % Radix = 0
    PROVE  n = (n \div Power[Digits - m]) * Power[Digits - m]
  <1>1. PICK z \in Nat : z = Digits - m /\ z <= Digits
    BY DigitsAre
  <1>2. PICK R \in Nat : R = Radix /\ R > 0 /\ Digits \in Nat
    BY DigitsAre
  <1> DEFINE Whole(j) == n = (n \div Power[j]) * Power[j]
             T == {j \in 0..z : Whole(j)}
  <1>3. 0 \in T
    <2>1. PICK one \in Nat : one = 1 /\ Power[0] = one /\ one > 0
      BY PowerIs
    <2>2. n = n * one + 0 /\ n \in Int /\ 0 \in 0..(one - 1)
      BY <2>1
    <2>3. (n * one + 0) \div one = n
      BY <2>1, <2>2, Quotient, Zenon
    <2>4. n \div Power[0] = n
      BY <2>1, <2>2, <2>3
    <2> QED BY <2>1, <2>2, <2>4
  <1>4. ASSUME NEW j \in 0..(z - 1), Whole(j) PROVE Whole(j + 1)
    <2>1. j \in Nat /\ j < 2 * Digits /\ j \in 0..(2 * Digits)
          /\ Digits - j \in (m + 1)..Digits /\ Digits - (Digits - j) = j
      BY <1>1, <1>2
    <2>2. PICK q \in Nat : q = Power[j] /\ q > 0 /\ Power[j + 1] = R * q
      <3>1. Power[j] \in Nat /\ Power[j + 1] = Radix * Power[j] /\ Power[j] >= 1
        BY <2>1, PowerStep, PowersGrow
      <3> QED BY <1>2, <3>1
    <2>3. n \div q \in Nat /\ (n \div q) \div R \in Nat /\ n \div (R * q) = (n \div q) \div R
      <3>1. q \in Nat /\ q > 0 /\ R \in Nat /\ R > 0
        BY <1>2, <2>2
      <3> QED BY ZenonT(60), <3>1, DividesInTurn
    <2>4. PICK a \in Nat : a = n \div q
      BY <2>3
    <2>5. a % R = 0
      <3>1. (n \div Power[Digits - (Digits - j)]) % Radix = 0
        BY <2>1
      <3> QED BY <1>2, <2>1, <2>2, <2>4, <3>1
    <2>6. PICK c \in Nat : c = a \div R /\ a = c * R /\ c = n \div (R * q)
      <3>1. PICK c \in Nat : c = a \div R /\ c = n \div (R * q)
        BY <2>3, <2>4
      <3>2. a = (a \div R) * R + (a % R)
        BY <1>2, Divides
      <3>3. c * R \in Int
        BY <1>2
      <3> QED BY <2>5, <3>1, <3>2, <3>3
    <2>7. n = a * q
      BY <1>4, <2>2, <2>4
    <2>8. (c * R) * q = c * (R * q)
      OBVIOUS
    <2>9. n = c * (R * q)
      BY <2>6, <2>7, <2>8
    <2> QED BY <2>2, <2>6, <2>9
  <1>5. 0..z \subseteq T
    <2>1. ASSUME NEW j \in 0..(z - 1), j \in T PROVE j + 1 \in T
      <3>1. j + 1 \in 0..z /\ Whole(j)
        BY <1>1, <2>1
      <3>2. Whole(j + 1)
        <4> HIDE DEF Whole, T
        <4> QED BY <1>4, <3>1
      <3> HIDE DEF Whole
      <3> QED BY <3>1, <3>2
    <2> HIDE DEF T
    <2> QED BY <1>1, <1>3, <2>1, UpTo
  <1>6. Whole(z)
    <2>1. z \in 0..z
      BY <1>1
    <2> HIDE DEF Whole
    <2> QED BY <1>5, <2>1
  <1> QED BY <1>1, <1>6

\* The fraction is printed up to its last digit that is not zero.
EndsAt(s, m) ==
    /\ m = 1 \/ s[m] # 0
    /\ \A i \in DOMAIN s : i > m => s[i] = 0

LEMMA TrimmedIs ==
    ASSUME NEW s \in Seq(Chars), NEW n \in Nat, n = Len(s), n >= 1
    PROVE  \E m \in 1..n : /\ EndsAt(s, m)
                           /\ Trimmed(s) \in Seq(Chars) /\ Len(Trimmed(s)) = m
                           /\ \A i \in 1..m : Trimmed(s)[i] = s[i]
  <1> DEFINE I == {d \in 0..(n - 1) : d = n - 1 \/ s[n - d] # 0}
  <1>1. PICK d \in I : \A j \in I : ~ (j < d)
    <2>1. I \subseteq Nat /\ n - 1 \in I
      OBVIOUS
    <2> HIDE DEF I
    <2>2. PICK d \in I : \A j \in I : <<j, d>> \notin OpToRel(<, Nat)
      BY <2>1, NatLessThanWellFounded, WFMin
    <2> QED BY <2>1, <2>2 DEF OpToRel
  <1>2. n - d \in 1..n /\ EndsAt(s, n - d) /\ DOMAIN s = 1..n
    <2>1. n - d \in 1..n /\ DOMAIN s = 1..n
      OBVIOUS
    <2>2. n - d = 1 \/ s[n - d] # 0
      OBVIOUS
    <2>3. ASSUME NEW i \in 1..n, i > n - d PROVE s[i] = 0
      <3>1. n - i \in 0..(n - 1) /\ n - i < d /\ n - (n - i) = i
        BY <2>1, <2>3
      <3>2. n - i \notin I
        BY <1>1, <3>1
      <3> QED BY <3>1, <3>2
    <2> QED BY <2>1, <2>2, <2>3 DEF EndsAt
  <1>3. PICK m \in 1..n : Trimmed(s) = SubSeq(s, 1, m) /\ EndsAt(s, m)
    <2>1. Trimmed(s) = SubSeq(s, 1, CHOOSE m \in 1..n : EndsAt(s, m))
      BY <1>2 DEF Trimmed, EndsAt
    <2> HIDE DEF I
    <2>2. \E m \in 1..n : EndsAt(s, m)
      BY <1>2
    <2> QED BY <2>1, <2>2
  <1>4. Trimmed(s) \in Seq(Chars) /\ Len(Trimmed(s)) = m /\ \A i \in 1..m : Trimmed(s)[i] = s[i]
    BY <1>3
  <1> QED BY <1>3, <1>4

\* A whole part, the point and a fraction.
Joins(t, h, f) ==
    /\ t = h \o <<Point>> \o f
    /\ t \in Seq(Chars) /\ Len(t) = Len(h) + 1 + Len(f)
    /\ \A i \in 1..Len(h) : t[i] = h[i]
    /\ t[Len(h) + 1] = Point
    /\ \A i \in 1..Len(f) : t[(Len(h) + 1) + i] = f[i]

LEMMA Joined ==
    ASSUME NEW h \in Seq(Chars), NEW f \in Seq(Chars)
    PROVE  \E t : Joins(t, h, f)
  <1>1. Point \in Chars
    BY DEF Chars
  <1>2. PICK g : g = h \o <<Point>>
    OBVIOUS
  <1>3. /\ g \in Seq(Chars) /\ Len(g) = Len(h) + 1
        /\ \A i \in 1..Len(h) : g[i] = h[i]
        /\ g[Len(h) + 1] = Point
    BY <1>1, <1>2
  <1>4. PICK t : t = g \o f
    OBVIOUS
  <1>5. /\ t \in Seq(Chars) /\ Len(t) = Len(g) + Len(f)
        /\ \A i \in 1..Len(g) : t[i] = g[i]
        /\ \A i \in 1..Len(f) : t[Len(g) + i] = f[i]
    <2>1. /\ g \o f \in Seq(Chars) /\ Len(g \o f) = Len(g) + Len(f)
          /\ \A i \in 1..(Len(g) + Len(f)) :
                (g \o f)[i] = IF i <= Len(g) THEN g[i] ELSE f[i - Len(g)]
      BY <1>3, ConcatProperties, Zenon
    <2>2. Len(g) \in Nat /\ Len(f) \in Nat
      BY <1>3
    <2>3. ASSUME NEW i \in 1..Len(g) PROVE t[i] = g[i]
      <3>1. i \in 1..(Len(g) + Len(f)) /\ i <= Len(g)
        BY <2>2
      <3> QED BY <1>4, <2>1, <3>1
    <2>4. ASSUME NEW i \in 1..Len(f) PROVE t[Len(g) + i] = f[i]
      <3>1. /\ Len(g) + i \in 1..(Len(g) + Len(f)) /\ ~ (Len(g) + i <= Len(g))
            /\ (Len(g) + i) - Len(g) = i
        BY <2>2
      <3> QED BY <1>4, <2>1, <3>1
    <2> QED BY <1>4, <2>1, <2>3, <2>4
  <1>6. /\ \A i \in 1..Len(h) : i \in 1..Len(g)
        /\ Len(h) + 1 \in 1..Len(g)
    BY <1>3
  <1>7. t = h \o <<Point>> \o f
    BY <1>2, <1>4
  <1>8. /\ Len(t) = Len(h) + 1 + Len(f)
        /\ \A i \in 1..Len(h) : t[i] = h[i]
        /\ t[Len(h) + 1] = Point
        /\ \A i \in 1..Len(f) : t[(Len(h) + 1) + i] = f[i]
    BY <1>3, <1>5, <1>6
  <1> QED BY <1>5, <1>7, <1>8 DEF Joins

LEMMA Prefixed ==
    ASSUME NEW u \in Seq(Chars), Len(u) = 1, NEW t \in Seq(Chars), NEW s, s = u \o t
    PROVE  s \in Seq(Chars) /\ s # <<>> /\ s[1] = u[1] /\ Tail(s) = t
  <1>1. /\ s \in Seq(Chars) /\ Len(s) = Len(t) + 1 /\ Len(t) \in Nat /\ s # <<>>
        /\ s[1] = u[1]
        /\ \A i \in 1..Len(t) : s[i + 1] = t[i]
    <2>1. /\ s \in Seq(Chars) /\ Len(s) = Len(u) + Len(t) /\ Len(t) \in Nat
          /\ \A i \in 1..(Len(u) + Len(t)) : s[i] = IF i <= Len(u) THEN u[i] ELSE t[i - Len(u)]
      <3>1. /\ u \o t \in Seq(Chars) /\ Len(u \o t) = Len(u) + Len(t)
            /\ \A i \in 1..(Len(u) + Len(t)) :
                  (u \o t)[i] = IF i <= Len(u) THEN u[i] ELSE t[i - Len(u)]
        BY ConcatProperties, Zenon
      <3>2. Len(t) \in Nat
        OBVIOUS
      <3> QED BY <3>1, <3>2, Zenon
    <2>2. Len(s) = Len(t) + 1
      BY <2>1
    <2>3. s # <<>>
      BY <2>1, <2>2
    <2>4. s[1] = u[1]
      BY <2>1
    <2>5. ASSUME NEW i \in 1..Len(t) PROVE s[i + 1] = t[i]
      <3>1. i + 1 \in 1..(Len(u) + Len(t)) /\ ~ (i + 1 <= Len(u)) /\ (i + 1) - Len(u) = i
        BY <2>1
      <3> QED BY <2>1, <3>1
    <2> QED BY <2>1, <2>2, <2>3, <2>4, <2>5
  <1>2. /\ Tail(s) \in Seq(Chars) /\ Len(Tail(s)) = Len(s) - 1
        /\ \A i \in 1..Len(Tail(s)) : Tail(s)[i] = s[i + 1]
    BY <1>1, HeadTailProperties
  <1>3. Len(Tail(s)) = Len(t)
    BY <1>1, <1>2
  <1>4. \A i \in 1..Len(t) : Tail(s)[i] = t[i]
    BY <1>1, <1>2, <1>3
  <1>5. Tail(s) = t
    BY <1>2, <1>3, <1>4, SeqEqual
  <1> QED BY <1>1, <1>5

Regrouped(a, b, c, d) == ((a \o b) \o c) \o d = a \o ((b \o c) \o d)

LEMMA Regroups ==
    ASSUME NEW a \in Seq(Chars), NEW b \in Seq(Chars), NEW c \in Seq(Chars), NEW d \in Seq(Chars)
    PROVE  Regrouped(a, b, c, d)
  <1>1. PICK e \in Seq(Chars) : e = b \o c
    BY ConcatProperties, Zenon
  <1>2. (a \o b) \o c = a \o (b \o c)
    BY SMTT(60)
  <1>3. (a \o e) \o d = a \o (e \o d)
    BY SMTT(60)
  <1> QED BY SMTT(30), <1>1, <1>2, <1>3 DEF Regrouped

LEMMA MinusIs ==
    ASSUME NEW t \in Seq(Chars)
    PROVE  /\ <<Minus>> \o t \in Seq(Chars)
           /\ HasSign(<<Minus>> \o t)
           /\ Unsigned(<<Minus>> \o t) = t
  <1>1. PICK u \in Seq(Chars) : u = <<Minus>> /\ Len(u) = 1 /\ u[1] = Minus
    <2>1. <<Minus>> \in Seq(Chars) /\ Len(<<Minus>>) = 1 /\ <<Minus>>[1] = Minus
      BY DEF Chars
    <2> QED BY <2>1
  <1>2. PICK s : s = u \o t
    OBVIOUS
  <1>3. s \in Seq(Chars) /\ s # <<>> /\ s[1] = Minus /\ Tail(s) = t
    BY <1>1, <1>2, Prefixed, Zenon
  <1>4. HasSign(s) /\ Unsigned(s) = t
    BY <1>3 DEF HasSign, Unsigned
  <1> QED BY <1>1, <1>2, <1>3, <1>4, Zenon

\* A sign or none, and the rest of a text.
Prints(s, neg, h, f) ==
    s = (IF neg THEN <<Minus>> ELSE <<>>) \o h \o <<Point>> \o f

LEMMA SignIs ==
    ASSUME NEW h \in Seq(Chars), NEW f \in Seq(Chars), NEW t, Joins(t, h, f),
           Len(h) >= 1, h[1] \in Digit, NEW neg \in BOOLEAN, NEW s, Prints(s, neg, h, f)
    PROVE  s \in Seq(Chars) /\ HasSign(s) = neg /\ Unsigned(s) = t
  <1>0. /\ t \in Seq(Chars) /\ t = h \o <<Point>> \o f
        /\ s = (IF neg THEN <<Minus>> ELSE <<>>) \o h \o <<Point>> \o f
        /\ t[1] \in Digit
    <2>1. t[1] = h[1]
      BY DEF Joins
    <2> QED BY <2>1 DEF Joins, Prints
  <1>1. Minus \in Chars /\ Point \in Chars
    BY DEF Chars
  <1>2. CASE neg
    <2>1. s = <<Minus>> \o h \o <<Point>> \o f
      BY <1>0, <1>2
    <2>2. s = <<Minus>> \o t
      <3>1. PICK u \in Seq(Chars), v \in Seq(Chars) : u = <<Minus>> /\ v = <<Point>>
        <4>1. <<Minus>> \in Seq(Chars) /\ <<Point>> \in Seq(Chars)
          BY <1>1
        <4> QED BY <4>1
      <3>2. Regrouped(u, h, v, f)
        BY Regroups, Zenon
      <3>3. s = ((u \o h) \o v) \o f /\ t = (h \o v) \o f
        BY <1>0, <2>1, <3>1, Zenon
      <3>4. s = u \o t
        BY <3>2, <3>3, Zenon DEF Regrouped
      <3> QED BY <3>1, <3>4, Zenon
    <2>3. s \in Seq(Chars) /\ HasSign(s) /\ Unsigned(s) = t
      BY <1>0, <2>2, MinusIs
    <2> QED BY <1>2, <2>3
  <1>3. CASE ~neg
    <2>1. s = <<>> \o h \o <<Point>> \o f
      BY <1>0, <1>3
    <2>2. s = t
      <3>1. <<>> \o h = h
        BY ConcatEmptySeq
      <3> QED BY <1>0, <2>1, <3>1
    <2>3. s[1] # Minus
      BY <1>0, <2>2, DigitsAre
    <2>4. ~ HasSign(s)
      BY <2>3 DEF HasSign
    <2>5. Unsigned(s) = s
      BY <2>4 DEF Unsigned
    <2>6. HasSign(s) \in BOOLEAN
      BY DEF HasSign
    <2> QED BY <1>0, <1>3, <2>2, <2>4, <2>5, <2>6
  <1> QED BY <1>2, <1>3

\* fixpoint_format_hex: which digits it prints.
LEMMA FormatPieces ==
    ASSUME NEW x \in Fixpoints
    PROVE  \E h \in Seq(Chars), f \in Seq(Chars), k \in 1..Digits, m \in 1..Digits :
              /\ Prints(Format(x), IsNegative(x), h, f)
              /\ Len(h) = k /\ FewestDigits(x.whole, k)
              /\ \A i \in 1..k : /\ h[i] = (x.whole \div Power[k - i]) % Radix
                                 /\ h[i] \in Digit
              /\ Len(f) = m
              /\ \A i \in 1..m : /\ f[i] = (x.frac \div Power[Digits - i]) % Radix
                                 /\ f[i] \in Digit
              /\ m = 1 \/ f[m] # 0
              /\ \A i \in (m + 1)..Digits : (x.frac \div Power[Digits - i]) % Radix = 0
  <1>1. x.whole \in Word /\ x.frac \in Word /\ Digits \in Nat /\ Digits >= 1
    BY UnitsIs, DigitsAre
  <1>2. PICK k \in 1..Digits : Hex(x.whole) = Padded(x.whole, k) /\ FewestDigits(x.whole, k)
    BY <1>1, HexIs
  <1>3. x.whole \in Nat /\ x.frac \in Nat /\ x.whole < Power[k] /\ x.frac < Power[Digits]
    BY <1>1, <1>2, BaseIs DEF Word, FewestDigits, B
  <1>4. PICK h \in Seq(Chars) :
            /\ h = Hex(x.whole) /\ Len(h) = k
            /\ \A i \in 1..k : h[i] = (x.whole \div Power[k - i]) % Radix /\ h[i] \in Digit
    BY <1>2, <1>3, PaddedIs
  <1>5. PICK s \in Seq(Chars) :
            /\ s = Padded(x.frac, Digits) /\ Len(s) = Digits
            /\ \A i \in 1..Digits : s[i] = (x.frac \div Power[Digits - i]) % Radix /\ s[i] \in Digit
    <2>1. Digits \in 1..Digits
      BY <1>1
    <2> QED BY <1>3, <2>1, PaddedIs
  <1>6. PICK m \in 1..Digits : /\ EndsAt(s, m)
                               /\ Trimmed(s) \in Seq(Chars) /\ Len(Trimmed(s)) = m
                               /\ \A i \in 1..m : Trimmed(s)[i] = s[i]
    BY <1>1, <1>5, TrimmedIs
  <1>7. PICK f \in Seq(Chars) : f = Trimmed(s)
    BY <1>6
  <1>8. DOMAIN s = 1..Digits /\ m \in 1..m /\ 1..m \subseteq 1..Digits
    BY <1>1, <1>5
  <1>9. /\ Len(f) = m
        /\ \A i \in 1..m : f[i] = (x.frac \div Power[Digits - i]) % Radix /\ f[i] \in Digit
    BY <1>5, <1>6, <1>7, <1>8
  <1>10. m = 1 \/ f[m] # 0
    BY <1>6, <1>7, <1>8 DEF EndsAt
  <1>11. ASSUME NEW i \in (m + 1)..Digits PROVE (x.frac \div Power[Digits - i]) % Radix = 0
    <2>1. i \in 1..Digits /\ i > m
      BY <1>1
    <2> QED BY <1>5, <1>6, <1>8, <2>1 DEF EndsAt
  <1>12. Prints(Format(x), IsNegative(x), h, f)
    BY <1>4, <1>5, <1>7 DEF Format, Prints
  <1> QED BY SMTT(30), <1>2, <1>4, <1>9, <1>10, <1>11, <1>12

LEMMA WholeOf ==
    ASSUME NEW n \in Nat
    PROVE  n \div Power[0] = n
  <1>1. PICK one \in Nat : one = 1 /\ Power[0] = one /\ one > 0
    BY PowerIs
  <1>2. n = n * one + 0 /\ n \in Int /\ 0 \in 0..(one - 1)
    BY <1>1
  <1>3. (n * one + 0) \div one = n
    BY <1>1, <1>2, Quotient, Zenon
  <1> QED BY <1>1, <1>2, <1>3

\* The text of x is t with a minus sign or none; it has k digits before the
\* point and m behind it.
TextOf(x, t, k, m) ==
    /\ Format(x) \in Seq(Chars) /\ HasSign(Format(x)) = IsNegative(x)
    /\ Unsigned(Format(x)) = t /\ t \in Seq(Chars) /\ Len(t) = k + 1 + m
    /\ FewestDigits(x.whole, k)
    /\ \A i \in 1..k : /\ t[i] = (x.whole \div Power[k - i]) % Radix
                       /\ t[i] \in Digit
    /\ t[k + 1] = Point
    /\ \A i \in 1..m : /\ t[(k + 1) + i] = (x.frac \div Power[Digits - i]) % Radix
                       /\ t[(k + 1) + i] \in Digit
    /\ m = 1 \/ t[(k + 1) + m] # 0
    /\ \A i \in (m + 1)..Digits : (x.frac \div Power[Digits - i]) % Radix = 0

LEMMA FormatText ==
    ASSUME NEW x \in Fixpoints
    PROVE  \E t, k, m : k \in 1..Digits /\ m \in 1..Digits /\ TextOf(x, t, k, m)
  <1>1. PICK h \in Seq(Chars), f \in Seq(Chars), k \in 1..Digits, m \in 1..Digits :
              /\ Prints(Format(x), IsNegative(x), h, f)
              /\ Len(h) = k /\ FewestDigits(x.whole, k)
              /\ \A i \in 1..k : /\ h[i] = (x.whole \div Power[k - i]) % Radix
                                 /\ h[i] \in Digit
              /\ Len(f) = m
              /\ \A i \in 1..m : /\ f[i] = (x.frac \div Power[Digits - i]) % Radix
                                 /\ f[i] \in Digit
              /\ m = 1 \/ f[m] # 0
              /\ \A i \in (m + 1)..Digits : (x.frac \div Power[Digits - i]) % Radix = 0
    BY FormatPieces
  <1>2. PICK t : Joins(t, h, f)
    BY Joined
  <1>3. /\ t \in Seq(Chars) /\ Len(t) = k + 1 + m
        /\ \A i \in 1..k : t[i] = h[i]
        /\ t[k + 1] = Point
        /\ \A i \in 1..m : t[(k + 1) + i] = f[i]
    BY <1>1, <1>2 DEF Joins
  <1>4. PICK neg \in BOOLEAN : neg = IsNegative(x)
    BY UnitsIs DEF IsNegative, IsZero
  <1>5. Format(x) \in Seq(Chars) /\ HasSign(Format(x)) = neg /\ Unsigned(Format(x)) = t
    <2>1. Len(h) >= 1 /\ h[1] \in Digit
      <3>1. 1 \in 1..k
        BY DigitsAre
      <3> QED BY <1>1, <3>1
    <2>2. PICK s : s = Format(x) /\ Prints(s, neg, h, f)
      BY <1>1, <1>4
    <2>3. s \in Seq(Chars) /\ HasSign(s) = neg /\ Unsigned(s) = t
      BY <1>2, <2>1, <2>2, SignIs
    <2> QED BY <2>2, <2>3
  <1>6. m = 1 \/ t[(k + 1) + m] # 0
    <2>1. m \in 1..m
      BY DigitsAre
    <2> QED BY <1>1, <1>3, <2>1
  <1>7. /\ \A i \in 1..k : t[i] = (x.whole \div Power[k - i]) % Radix /\ t[i] \in Digit
        /\ \A i \in 1..m : /\ t[(k + 1) + i] = (x.frac \div Power[Digits - i]) % Radix
                           /\ t[(k + 1) + i] \in Digit
    BY <1>1, <1>3
  <1>8. TextOf(x, t, k, m)
    BY <1>1, <1>3, <1>4, <1>5, <1>6, <1>7 DEF TextOf
  <1> QED BY <1>8

LEMMA TextShaped ==
    ASSUME NEW x \in Fixpoints, NEW t, NEW k \in 1..Digits, NEW m \in 1..Digits, TextOf(x, t, k, m)
    PROVE  /\ Shaped(t, k + 1) /\ k + 1 \in 1..Len(t) /\ DOMAIN t = 1..Len(t)
           /\ (k + 1) - 1 = k /\ Len(t) - (k + 1) = m /\ k \in Nat /\ m \in Nat
  <1>1. k \in Nat /\ m \in Nat /\ k >= 1 /\ m >= 1
    BY DigitsAre
  <1>2. t \in Seq(Chars) /\ Len(t) = k + 1 + m /\ t[k + 1] = Point
    BY DEF TextOf
  <1>3. /\ k + 1 \in 1..Len(t) /\ DOMAIN t = 1..Len(t)
        /\ (k + 1) - 1 = k /\ Len(t) - (k + 1) = m
    BY <1>1, <1>2
  <1>4. ASSUME NEW i \in 1..Len(t), i # k + 1
        PROVE  t[i] \in Digit
    <2>1. CASE i <= k
      <3>1. i \in 1..k
        BY <1>1, <2>1
      <3> QED BY <3>1 DEF TextOf
    <2>2. CASE ~ (i <= k)
      <3>1. i - (k + 1) \in 1..m /\ (k + 1) + (i - (k + 1)) = i
        BY <1>1, <1>2, <1>4, <2>2
      <3>2. t[(k + 1) + (i - (k + 1))] \in Digit
        BY <3>1 DEF TextOf
      <3> QED BY <3>1, <3>2
    <2> QED BY <2>1, <2>2
  <1> QED BY <1>1, <1>2, <1>3, <1>4 DEF Shaped

\* The text of a number denotes it.
LEMMA FormatIs ==
    ASSUME NEW x \in Fixpoints
    PROVE  /\ Format(x) \in Seq(Chars)
           /\ Denoted(Format(x)) = {Value(x)}
  <1>1. PICK t, k, m : k \in 1..Digits /\ m \in 1..Digits /\ TextOf(x, t, k, m)
    BY FormatText
  <1>2. PICK s : s = Format(x)
    OBVIOUS
  <1>3. PICK p : p = k + 1
    OBVIOUS
  <1>4. /\ Shaped(t, p) /\ p \in 1..Len(t) /\ p - 1 = k /\ Len(t) - p = m
        /\ k \in Nat /\ m \in Nat
    BY <1>1, <1>3, TextShaped
  <1>5. /\ s \in Seq(Chars) /\ HasSign(s) = IsNegative(x) /\ Unsigned(s) = t /\ t \in Seq(Chars)
        /\ FewestDigits(x.whole, k)
        /\ \A i \in 1..k : t[i] = (x.whole \div Power[k - i]) % Radix
        /\ \A i \in 1..m : t[p + i] = (x.frac \div Power[Digits - i]) % Radix
        /\ \A i \in (m + 1)..Digits : (x.frac \div Power[Digits - i]) % Radix = 0
    BY <1>1, <1>2, <1>3 DEF TextOf
  <1>6. /\ Digits \in Nat /\ Digits >= 1
        /\ x.whole \in Nat /\ x.frac \in Nat /\ x.whole < Power[k] /\ x.frac < Power[Digits]
    <2>1. x.whole \in Word /\ x.frac \in Word
      BY UnitsIs
    <2>2. x.whole \in Nat /\ x.frac \in Nat /\ x.frac < B /\ Digits \in Nat /\ Digits >= 1
      BY <2>1, BaseIs, DigitsAre DEF Word
    <2>3. x.whole < Power[k]
      BY <1>5 DEF FewestDigits
    <2> QED BY <2>2, <2>3 DEF B
  <1>7. PICK w \in Seq(Chars) : /\ w = WholeText(t, p) /\ Len(w) = k
                                /\ \A i \in 1..k : w[i] = t[i]
    BY <1>4, <1>5, PiecesAre
  <1>8. PICK g \in Seq(Chars) : /\ g = FracText(t, p) /\ Len(g) = m
                                /\ \A i \in 1..m : g[i] = t[p + i]
    BY <1>4, <1>5, PiecesAre
  <1>9. Numeral(w).value = x.whole
    <2>1. \A i \in 1..Len(w) : w[i] = (x.whole \div Power[k - i]) % Radix
      BY <1>5, <1>7
    <2>2. Numeral(w).value = x.whole \div Power[k - Len(w)]
      <3>1. k \in 1..Digits /\ Len(w) <= k
        BY <1>1, <1>4, <1>7
      <3> QED BY <1>6, <2>1, <3>1, DigitsMake
    <2>3. k - Len(w) = 0
      BY <1>4, <1>7
    <2> QED BY <1>6, <2>2, <2>3, WholeOf
  <1>10. Numeral(g).value = x.frac \div Power[Digits - m]
    <2>1. \A i \in 1..Len(g) : g[i] = (x.frac \div Power[Digits - i]) % Radix
      BY <1>5, <1>8
    <2>2. Digits \in 1..Digits /\ Len(g) <= Digits
      BY <1>1, <1>6, <1>8
    <2>3. Numeral(g).value = x.frac \div Power[Digits - Len(g)]
      BY <1>6, <2>1, <2>2, DigitsMake
    <2> QED BY <1>8, <2>3
  <1>11. Total(Terms(t, p)) = Units(x)
    <2>1. x.frac = (x.frac \div Power[Digits - m]) * Power[Digits - m]
      <3>1. m \in 0..Digits
        BY <1>1, <1>6
      <3> QED BY <1>5, <1>6, <3>1, ZerosWorth
    <2>2. Sums(Terms(t, p))[p - 1] = x.whole * B
      BY <1>4, <1>5, <1>7, <1>9, WholeWorth
    <2>3. Total(Terms(t, p)) = Sums(Terms(t, p))[p - 1] + Numeral(g).value * Power[Digits - m]
      BY <1>4, <1>5, <1>8, FracWorth
    <2> QED BY <1>10, <2>1, <2>2, <2>3 DEF Units
  <1>12. /\ ParsesRight(s) /\ Parse(s).ok = TRUE
         /\ Value(Parse(s).value) = IF IsNegative(x) THEN - Units(x) ELSE Units(x)
    <2>1. ParsesRight(s)
      BY <1>5, ParseIs
    <2>2. /\ Parse(s).ok = TRUE
          /\ Value(Parse(s).value) = IF HasSign(s) THEN -Total(Terms(t, p)) ELSE Total(Terms(t, p))
      BY <1>4, <1>5, ParseOfShaped
    <2>3. HasSign(s) <=> IsNegative(x)
      BY <1>5
    <2> QED BY <1>11, <2>1, <2>2, <2>3
  <1>13. Value(x) = IF IsNegative(x) THEN - Units(x) ELSE Units(x)
    <2>1. Value(x) = IF x.negative THEN - Units(x) ELSE Units(x)
      BY ValueIs
    <2>2. CASE IsZero(x)
      <3>1. Units(x) = 0
        BY <2>2, UnitsIs
      <3> QED BY <2>1, <3>1
    <2>3. CASE ~ IsZero(x)
      <3>1. x.negative <=> IsNegative(x)
        BY <2>3, UnitsIs DEF IsNegative
      <3> QED BY <2>1, <3>1
    <2> QED BY <2>2, <2>3
  <1>14. Denoted(s) = {Value(x)}
    BY <1>12, <1>13 DEF ParsesRight
  <1> QED BY <1>2, <1>5, <1>14

LEMMA FormatStep ==
    ASSUME Types, NEW o \in Objects, FormatHex(o)
    PROVE  Types' /\ Scaled!FormatHex(o)
  <1>1. str' = Format(val[o]) /\ ret' = Nothing /\ val' = val /\ val[o] \in Fixpoints
    BY DEF FormatHex, Types
  <1>2. str' \in Seq(Chars) /\ Denoted(str') = {Value(val[o])}
    BY <1>1, FormatIs
  <1>3. Types'
    BY <1>1, <1>2 DEF Types
  <1>4. [q \in Objects |-> Value(val[q])]' = [q \in Objects |-> Value(val[q])]
    BY <1>1 DEF Value
  <1>5. Denoted(str)' = {[q \in Objects |-> Value(val[q])][o]}
    <2>1. Denoted(str)' = Denoted(str')
      BY DEF Denoted
    <2> QED BY <1>2, <2>1
  <1>6. ret' = Scaled!Nothing
    BY <1>1 DEF Nothing, Scaled!Nothing
  <1> QED BY <1>3, <1>4, <1>5, <1>6 DEF Scaled!FormatHex

-----------------------------------------------------------------------------
(* The calls                                                                 *)

\* The steps of a call.
LEMMA NextCases ==
    ASSUME Next
    PROVE  \/ \E o, l, r \in Objects : Add(o, l, r)
           \/ \E o, l, r \in Objects : Sub(o, l, r)
           \/ \E o, l, r \in Objects : Mul(o, l, r)
           \/ \E o \in Objects : Negate(o)
           \/ \E o \in Objects : FormatHex(o)
           \/ \E o \in Objects : ParseHex(o)
           \/ \E l, r \in Objects : Compare(l, r)
  BY DEF Next

LEMMA InitImplements ==
    ASSUME Init
    PROVE  Types /\ Scaled!Init
  <1>1. /\ Zero \in Fixpoints
        /\ \A g \in Given, n \in BOOLEAN : FixpointInit(g[1], g[2], n) \in Fixpoints
    <2>1. Zero \in Fixpoints
      BY BaseIs DEF Zero, Fixpoints, Word
    <2>2. ASSUME NEW g \in Given, NEW n \in BOOLEAN
          PROVE  FixpointInit(g[1], g[2], n) \in Fixpoints
      <3>1. g[1] \in Word /\ g[2] \in Word
        BY GivenAssumption
      <3> QED BY <3>1, InitialIs
    <2> QED BY <2>1, <2>2
  <1>2. val \in [Objects -> Fixpoints]
    BY <1>1 DEF Init
  <1>3. str \in Seq(Chars) /\ Denoted(str) \in {{}} \cup {{n} : n \in Scaled!Numbers}
    <2>1. CASE str = Format(Zero)
      BY <1>1, <2>1, FormatIs, ValueIs
    <2>2. CASE str \in Texts
      <3>1. str \in Seq(Chars)
        BY <2>2, TextsAssumption
      <3>2. ParsesRight(str)
        BY <3>1, ParseIs
      <3>3. Denoted(str) = {} \/ \E v \in Fixpoints : Denoted(str) = {Value(v)}
        BY <3>2 DEF ParsesRight
      <3> QED BY <3>1, <3>3, ValueIs
    <2> QED BY <2>1, <2>2 DEF Init
  <1>4. [o \in Objects |-> Value(val[o])] \in [Objects -> Scaled!Numbers]
    <2>1. \A o \in Objects : Value(val[o]) \in Scaled!Numbers
      BY <1>2, ValueIs
    <2> QED BY <2>1
  <1>5. ret = Scaled!Nothing
    BY DEF Init, Nothing, Scaled!Nothing
  <1>6. Types
    BY <1>2, <1>3 DEF Types
  <1> QED BY <1>3, <1>4, <1>5, <1>6 DEF Scaled!Init

LEMMA StepImplements ==
    ASSUME Types, [Next]_vars
    PROVE  Types' /\ [Scaled!Next]_(Scaled!vars)
  <1>1. CASE Next
    <2>1. ASSUME NEW o \in Objects, NEW l \in Objects, NEW r \in Objects, Add(o, l, r)
          PROVE  Types' /\ Scaled!Next
      BY <2>1, AddStep DEF Scaled!Next
    <2>2. ASSUME NEW o \in Objects, NEW l \in Objects, NEW r \in Objects, Sub(o, l, r)
          PROVE  Types' /\ Scaled!Next
      BY <2>2, SubStep DEF Scaled!Next
    <2>3. ASSUME NEW o \in Objects, NEW l \in Objects, NEW r \in Objects, Mul(o, l, r)
          PROVE  Types' /\ Scaled!Next
      BY <2>3, MulStep DEF Scaled!Next
    <2>4. ASSUME NEW o \in Objects, Negate(o)
          PROVE  Types' /\ Scaled!Next
      BY <2>4, NegateStep DEF Scaled!Next
    <2>5. ASSUME NEW o \in Objects, FormatHex(o)
          PROVE  Types' /\ Scaled!Next
      BY <2>5, FormatStep DEF Scaled!Next
    <2>6. ASSUME NEW o \in Objects, ParseHex(o)
          PROVE  Types' /\ Scaled!Next
      BY <2>6, ParseStep DEF Scaled!Next
    <2>7. ASSUME NEW l \in Objects, NEW r \in Objects, Compare(l, r)
          PROVE  Types' /\ Scaled!Next
      BY <2>7, CompareStep DEF Scaled!Next
    <2> QED BY <1>1, <2>1, <2>2, <2>3, <2>4, <2>5, <2>6, <2>7, NextCases
  <1>2. CASE UNCHANGED vars
    <2>1. val' = val /\ str' = str /\ ret' = ret
      BY <1>2 DEF vars
    <2>2. Types'
      BY <2>1 DEF Types
    <2>3. /\ [o \in Objects |-> Value(val[o])]' = [o \in Objects |-> Value(val[o])]
          /\ Denoted(str)' = Denoted(str)
      BY <2>1 DEF Value, Denoted
    <2> QED BY <2>1, <2>2, <2>3 DEF Scaled!vars
  <1> QED BY <1>1, <1>2

\* Whatever is called, the parts of every number stay 32-bit words and the
\* string one of digits, signs and points.
THEOREM WordsStayWords == Spec => []Types
  <1>1. Init => Types
    BY InitImplements
  <1>2. Types /\ [Next]_vars => Types'
    BY StepImplements
  <1> QED BY <1>1, <1>2, PTL DEF Spec

\* The functions of fixpoint.c do on signs, parts, carries and characters what
\* fixpoint.h promises on numbers: exact results but for the places that they
\* report as lost, in any order of calls and with any of the objects as the
\* result, and texts that read back as what was printed.
THEOREM IntegersImplemented == Spec => ImplementsIntegers
  <1>1. Init => Scaled!Init
    BY InitImplements
  <1>2. Types /\ [Next]_vars => [Scaled!Next]_(Scaled!vars)
    BY StepImplements
  <1> QED BY <1>1, <1>2, WordsStayWords, PTL DEF Spec, ImplementsIntegers, Scaled!Spec

\* A call leaves an object that is a zero with a sign only when it reports a
\* loss, when it does not touch one, or when it adds two.
LEMMA StepLosesSign ==
    ASSUME Types, Next, NEW q \in Objects, SignedZero(q)'
    PROVE  \/ ret'.flags # {}
           \/ SignedZero(q) /\ val'[q] = val[q]
           \/ \E l, r \in Objects : SignedZero(l) /\ SignedZero(r) /\ Add(q, l, r)
  <1> DEFINE Kept    == SignedZero(q) /\ val'[q] = val[q]
             Allowed == \/ ret'.flags # {}
                        \/ Kept
                        \/ \E l, r \in Objects :
                               SignedZero(l) /\ SignedZero(r) /\ Add(q, l, r)
  <1>1. ASSUME NEW o \in Objects, NEW l \in Objects, NEW r \in Objects, NEW y \in Fixpoints,
               Assign(o, Sum(val[l], y))
        PROVE  \/ ret'.flags # {}
               \/ Kept
               \/ q = o /\ IsSignedZero(val[l]) /\ IsSignedZero(y)
    <2>1. val[l] \in Fixpoints
      BY DEF Types
    <2>2. PICK s : s = Sum(val[l], y) /\ SumsRight(s, val[l], y)
      BY <2>1, SumIs
    <2>3. val' = [val EXCEPT ![o] = s.value] /\ ret'.flags = s.flags /\ s.value \in Fixpoints
      BY <1>1, <2>2 DEF Assign, Flags, Nothing, SumsRight
    <2>4. IsSignedZero(s.value) => ret'.flags # {} \/ (IsSignedZero(val[l]) /\ IsSignedZero(y))
      BY <2>2, <2>3 DEF SumsRight
    <2>5. (q = o /\ IsSignedZero(s.value)) \/ Kept
      BY <2>3, SignedZeroOf
    <2> QED BY <2>4, <2>5
  <1>2. ASSUME NEW o \in Objects, NEW l \in Objects, NEW r \in Objects, Add(o, l, r)
        PROVE  Allowed
    <2>1. val[r] \in Fixpoints
      BY DEF Types
    <2>2. Assign(o, Sum(val[l], val[r]))
      BY <1>2 DEF Add
    <2>3. \/ ret'.flags # {}
          \/ Kept
          \/ q = o /\ IsSignedZero(val[l]) /\ IsSignedZero(val[r])
      BY <1>1, <2>1, <2>2
    <2>4. q = o /\ IsSignedZero(val[l]) /\ IsSignedZero(val[r]) =>
            SignedZero(l) /\ SignedZero(r) /\ Add(q, l, r)
      BY <1>2 DEF SignedZero, IsSignedZero
    <2> QED BY <2>3, <2>4
  <1>3. ASSUME NEW o \in Objects, NEW l \in Objects, NEW r \in Objects, Sub(o, l, r)
        PROVE  Allowed
    <2>1. Negated(val[r]) \in Fixpoints /\ ~ IsSignedZero(Negated(val[r]))
      BY NegatedIs DEF Types
    <2>2. Assign(o, Sum(val[l], Negated(val[r])))
      BY <1>3 DEF Sub
    <2>3. \/ ret'.flags # {}
          \/ Kept
          \/ q = o /\ IsSignedZero(val[l]) /\ IsSignedZero(Negated(val[r]))
      BY <1>1, <2>1, <2>2
    <2> QED BY <2>1, <2>3
  <1>4. ASSUME NEW o \in Objects, NEW l \in Objects, NEW r \in Objects, Mul(o, l, r)
        PROVE  Allowed
    <2>1. PICK v \in Fixpoints : /\ val' = [val EXCEPT ![o] = v]
                                 /\ IsSignedZero(v) => ret'.flags # {}
      BY <1>4, MulLeavesNoSignedZero
    <2>2. (q = o /\ IsSignedZero(v)) \/ Kept
      BY <2>1, SignedZeroOf
    <2> QED BY <2>1, <2>2
  <1>5. ASSUME NEW o \in Objects, Negate(o)
        PROVE  Allowed
    <2>1. val' = [val EXCEPT ![o] = Negated(val[o])] /\ val[o] \in Fixpoints
      BY <1>5 DEF Negate, Types
    <2>2. Negated(val[o]) \in Fixpoints /\ ~ IsSignedZero(Negated(val[o]))
      BY <2>1, NegatedIs
    <2>3. Kept
      BY <2>1, <2>2, SignedZeroOf
    <2> QED BY <2>3
  <1>6. ASSUME val' = val
        PROVE  Allowed
    <2>1. Kept
      BY <1>6 DEF SignedZero
    <2> QED BY <2>1
  <1>7. ASSUME NEW o \in Objects, ParseHex(o)
        PROVE  Allowed
    <2>1. ParsesRight(str)
      BY ParseIs DEF Types
    <2>2. CASE Parse(str).ok = TRUE
      <3>1. /\ val' = [val EXCEPT ![o] = Parse(str).value]
            /\ Parse(str).value \in Fixpoints /\ ~ IsSignedZero(Parse(str).value)
        BY <1>7, <2>1, <2>2 DEF ParseHex, ParsesRight
      <3>2. Kept
        BY <3>1, SignedZeroOf
      <3> QED BY <3>2
    <2>3. CASE Parse(str).ok = FALSE
      <3>1. val' = val
        BY <1>7, <2>3 DEF ParseHex
      <3> QED BY <1>6, <3>1
    <2> QED BY <2>1, <2>2, <2>3 DEF ParsesRight
  <1>8. ASSUME NEW o \in Objects, FormatHex(o)
        PROVE  Allowed
    BY <1>6, <1>8 DEF FormatHex
  <1>9. ASSUME NEW l \in Objects, NEW r \in Objects, Compare(l, r)
        PROVE  Allowed
    BY <1>6, <1>9 DEF Compare
  <1> HIDE DEF Allowed, Kept
  <1>10. Allowed
    BY <1>2, <1>3, <1>4, <1>5, <1>7, <1>8, <1>9, NextCases
  <1> QED BY <1>10 DEF Allowed, Kept

\* Sums, products, negations and texts leave no zero with a sign, unless they
\* report a loss or add two zeros with one.
THEOREM OnlyLossSignsZero == Spec => SignedZeroIsLoss
  <1>1. Types /\ [Next]_vars =>
          [\A o \in Objects :
             SignedZero(o)' =>
                 \/ ret'.flags # {}
                 \/ SignedZero(o) /\ val'[o] = val[o]
                 \/ \E l, r \in Objects :
                        SignedZero(l) /\ SignedZero(r) /\ Add(o, l, r)]_vars
    BY StepLosesSign
  <1> QED BY <1>1, WordsStayWords, PTL DEF Spec, SignedZeroIsLoss

\* The first digit of a number with the fewest digits.
LEMMA LeadingDigit ==
    ASSUME NEW n \in Nat, NEW k \in 1..Digits, FewestDigits(n, k)
    PROVE  /\ k # 1 => (n \div Power[k - 1]) % Radix # 0
           /\ n > 0 => (n \div Power[k - 1]) % Radix # 0
  <1>1. /\ k \in Nat /\ k - 1 \in Nat /\ k - 1 < 2 * Digits /\ (k - 1) + 1 = k
        /\ k - 1 \in 0..(2 * Digits)
    BY DigitsAre
  <1>2. PICK R \in Nat : R = Radix /\ R >= 2
    BY DigitsAre
  <1>3. PICK q \in Nat : q = Power[k - 1] /\ q > 0 /\ Power[k] = R * q
    <2>1. Power[k - 1] \in Nat /\ Power[k] = Radix * Power[k - 1] /\ Power[k - 1] >= 1
      BY <1>1, PowerStep, PowersGrow
    <2> QED BY <1>2, <2>1
  <1>4. n < R * q /\ (k = 1 \/ n >= q)
    BY <1>3 DEF FewestDigits
  <1>5. PICK a \in Nat, b \in 0..(q - 1) : a = n \div q /\ n = a * q + b
    <2>1. n \div q \in Nat
      <3>1. q \in Nat /\ q > 0 /\ R \in Nat /\ R > 0
        BY <1>2, <1>3
      <3> QED BY ZenonT(60), <3>1, DividesInTurn
    <2>2. n % q \in 0..(q - 1) /\ n = (n \div q) * q + (n % q)
      BY <1>3, Divides
    <2> QED BY <2>1, <2>2
  <1>6. a \in 0..(R - 1)
    <2>1. ~ (a >= R)
      <3> SUFFICES ASSUME a >= R PROVE FALSE
        OBVIOUS
      <3>1. R * q <= a * q
        BY LessTimes
      <3>2. R * q \in Nat /\ a * q \in Nat
        OBVIOUS
      <3> QED BY <1>4, <1>5, <3>1, <3>2
    <2> QED BY <1>2, <2>1
  <1>7. a % R = a
    <2>1. (0 * R + a) % R = a
      <3>1. 0 \in Int /\ R \in Nat /\ R > 0
        BY <1>2
      <3> QED BY <1>6, <3>1, Quotient, Zenon
    <2>2. 0 * R + a = a
      BY <1>2
    <2> QED BY <2>1, <2>2
  <1>8. a = 0 => n < q
    BY <1>5
  <1>9. k = 1 => q = 1
    BY <1>3, PowerIs
  <1>10. (k # 1 \/ n > 0) => a # 0
    BY <1>4, <1>8, <1>9
  <1> QED BY <1>2, <1>3, <1>5, <1>7, <1>10

LEMMA CanonicalIs ==
    ASSUME NEW x \in Fixpoints
    PROVE  Canonical(Format(x))
  <1>1. PICK t, k, m : k \in 1..Digits /\ m \in 1..Digits /\ TextOf(x, t, k, m)
    BY FormatText
  <1>2. PICK s : s = Format(x)
    OBVIOUS
  <1>3. PICK p : p = k + 1
    OBVIOUS
  <1>4. /\ Shaped(t, p) /\ p \in 1..Len(t) /\ p - 1 = k /\ Len(t) - p = m
        /\ k \in Nat /\ m \in Nat /\ DOMAIN t = 1..Len(t) /\ k >= 1 /\ m >= 1
    BY <1>1, <1>3, TextShaped
  <1>5. /\ s \in Seq(Chars) /\ HasSign(s) = IsNegative(x) /\ Unsigned(s) = t /\ t \in Seq(Chars)
        /\ FewestDigits(x.whole, k)
        /\ \A i \in 1..k : t[i] = (x.whole \div Power[k - i]) % Radix /\ t[i] \in Digit
        /\ \A i \in 1..m : /\ t[p + i] = (x.frac \div Power[Digits - i]) % Radix
                           /\ t[p + i] \in Digit
        /\ m = 1 \/ t[p + m] # 0
        /\ \A i \in (m + 1)..Digits : (x.frac \div Power[Digits - i]) % Radix = 0
    BY <1>1, <1>2, <1>3 DEF TextOf
  <1>6. /\ Digits \in Nat /\ Digits >= 1
        /\ x.whole \in Nat /\ x.frac \in Nat /\ x.frac < Power[Digits]
    <2>1. x.whole \in Word /\ x.frac \in Word
      BY UnitsIs
    <2> QED BY <2>1, BaseIs, DigitsAre DEF Word, B
  <1>7. /\ Len(t) \in Nat /\ Len(t) = p + m /\ p \in 2..(Len(t) - 1)
        /\ 1 \in 1..k /\ 1 \in DOMAIN t /\ p + m \in DOMAIN t /\ m \in 1..m
        /\ p = 2 <=> k = 1
        /\ p = Len(t) - 1 <=> m = 1
    BY <1>3, <1>4, <1>5
  <1>8. t[1] = (x.whole \div Power[k - 1]) % Radix /\ t[1] \in Digit /\ Digit \subseteq Nat
    BY <1>5, <1>7, DigitsAre
  <1>9. /\ k # 1 => t[1] # 0
        /\ x.whole > 0 => t[1] # 0
    BY <1>1, <1>5, <1>6, <1>8, LeadingDigit
  <1>10. p = FirstPoint(t)
    BY <1>4, <1>5, ShapedAtPoint
  <1>11. p = Len(t) - 1 \/ Last(t) # 0
    <2>1. Last(t) = t[Len(t)]
      BY DEF Last
    <2> QED BY <1>5, <1>7, <2>1
  <1>12. x.frac > 0 => t[p + m] # 0
    <2> SUFFICES ASSUME x.frac > 0, t[p + m] = 0 PROVE FALSE
      OBVIOUS
    <2>1. m = 1
      BY <1>5
    <2>2. (x.frac \div Power[Digits - 1]) % Radix = 0
      BY <1>5, <1>7, <2>1
    <2>3. \A i \in (0 + 1)..Digits : (x.frac \div Power[Digits - i]) % Radix = 0
      <3>1. ASSUME NEW i \in (0 + 1)..Digits PROVE i = 1 \/ i \in (m + 1)..Digits
        BY <1>6, <2>1
      <3> QED BY <1>5, <2>2, <3>1
    <2>4. 0 \in 0..Digits /\ Digits - 0 = Digits
      BY <1>6
    <2>5. x.frac = (x.frac \div Power[Digits - 0]) * Power[Digits - 0]
      BY <1>6, <2>3, <2>4, ZerosWorth
    <2>6. PICK b \in Nat : b = Power[Digits] /\ x.frac \in 0..(b - 1) /\ b > 0
      <3>1. Power[Digits] \in Nat
        BY BaseIs DEF B
      <3> QED BY <1>6, <3>1
    <2>7. x.frac \div b = 0
      <3>1. (0 * b + x.frac) \div b = 0
        <4>1. 0 \in Int /\ b \in Nat /\ b > 0 /\ x.frac \in 0..(b - 1)
          BY <2>6
        <4> QED BY <4>1, Quotient, Zenon
      <3>2. 0 * b + x.frac = x.frac
        BY <1>6, <2>6
      <3> QED BY <3>1, <3>2
    <2>8. x.frac = 0 * b
      BY <2>4, <2>5, <2>6, <2>7
    <2>9. 0 * b = 0
      BY <2>6
    <2> QED BY <2>8, <2>9
  <1>13. IsNegative(x) => \E i \in DOMAIN t : t[i] > 0
    <2> SUFFICES ASSUME IsNegative(x) PROVE \E i \in DOMAIN t : t[i] > 0
      OBVIOUS
    <2>1. x.whole > 0 \/ x.frac > 0
      BY <1>6 DEF IsNegative, IsZero
    <2>2. CASE x.whole > 0
      <3>1. PICK d \in Nat : d = t[1]
        BY <1>8
      <3>2. d # 0
        BY <1>9, <2>2, <3>1
      <3>3. t[1] > 0
        BY <3>1, <3>2
      <3> QED BY <1>7, <3>3
    <2>3. CASE x.frac > 0
      <3>1. t[p + m] \in Digit /\ t[p + m] # 0
        BY <1>5, <1>7, <1>12, <2>3
      <3>2. PICK d \in Nat : d = t[p + m] /\ d # 0
        BY <1>8, <3>1
      <3> QED BY <1>7, <3>2
    <2> QED BY <2>1, <2>2, <2>3
  <1>14. s # <<>>
    <2> SUFFICES ASSUME s = <<>> PROVE FALSE
      OBVIOUS
    <2>1. ~ HasSign(s)
      BY DEF HasSign
    <2>2. t = <<>>
      BY <1>5, <2>1 DEF Unsigned
    <2> QED BY <1>7, <2>2
  <1>15. PICK neg \in BOOLEAN : neg = (s[1] = Minus)
    OBVIOUS
  <1>16. /\ neg <=> HasSign(s)
         /\ neg <=> IsNegative(x)
         /\ t = IF neg THEN Tail(s) ELSE s
    <2>1. neg <=> HasSign(s)
      BY <1>14, <1>15 DEF HasSign
    <2> QED BY <1>5, <2>1 DEF Unsigned
  <1>17. /\ p \in 2..(Len(t) - 1)
         /\ p = 2 \/ t[1] # 0
         /\ p = Len(t) - 1 \/ Last(t) # 0
         /\ neg => \E i \in DOMAIN t : t[i] > 0
    BY <1>7, <1>9, <1>11, <1>13, <1>16
  <1>18. Canonical(s)
    BY <1>10, <1>15, <1>16, <1>17, Zenon DEF Canonical
  <1> QED BY <1>2, <1>18

\* What is printed has no zeros that the value does not need, and a minus sign
\* only before a number below zero.
THEOREM PrintedIsCanonical == Spec => PrintsCanonical
  <1>1. Types /\ [Next]_vars => [str' # str => Canonical(str')]_vars
    <2> SUFFICES ASSUME Types, Next, str' # str PROVE Canonical(str')
      OBVIOUS
    <2>1. PICK o \in Objects : FormatHex(o)
      <3>1. \A o \in Objects : /\ \A l, r \in Objects : ~ Add(o, l, r) /\ ~ Sub(o, l, r)
                               /\ ~ Negate(o) /\ ~ ParseHex(o)
        BY DEF Add, Sub, Assign, Negate, ParseHex
      <3>2. \A o, l, r \in Objects : ~ Mul(o, l, r) /\ ~ Compare(l, r)
        BY DEF Mul, Assign, Compare
      <3> QED BY <3>1, <3>2, NextCases
    <2>2. str' = Format(val[o]) /\ val[o] \in Fixpoints
      BY <2>1 DEF FormatHex, Types
    <2> QED BY <2>2, CanonicalIs
  <1> QED BY <1>1, WordsStayWords, PTL DEF Spec, PrintsCanonical

=============================================================================
