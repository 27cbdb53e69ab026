------------------------------ MODULE Fixpoint ------------------------------
(***************************************************************************)
(* csf_assign01/fixpoint.c: numbers with a sign, a whole and a fractional  *)
(* part.  A caller keeps some of them and a string and calls the functions *)
(* on them, with any of its objects as operands and as the result.         *)
(*                                                                         *)
(* A part has Digits digits to the base Radix: 8 and 16 in the code.  An   *)
(* uint32_t wraps at B and an uint64_t at B^2.                             *)
(***************************************************************************)
EXTENDS Integers, Sequences, SequencesExt

CONSTANTS
    Objects,    \* the fixpoint_t objects of the caller
    Fresh,      \* those that it initialises to zero
    Radix,      \* base of the digits
    Digits,     \* digits of a part
    Given,      \* bound: magnitudes, <<whole, frac>>, of the caller's numbers
    Texts,      \* bound: strings that the caller makes up
    MaxCalls    \* bound: number of calls

ASSUME FixpointAssumption ==
    /\ Fresh \subseteq Objects
    /\ Radix \in Nat \ {0, 1}
    /\ Digits \in Nat \ {0}
    /\ MaxCalls \in Nat

VARIABLES
    val,        \* fixpoint_t: whole, frac and negative of every object
    str,        \* fixpoint_str_t, up to its NUL
    ret,        \* what the last call returned
    calls       \* number of calls so far

vars == <<val, str, ret, calls>>

\* Radix to the power k: the worth of a digit k places from the last.
Power[k \in 0..(2 * Digits)] == IF k = 0 THEN 1 ELSE Radix * Power[k - 1]

B     == Power[Digits]
Word  == 0..(B - 1)
Digit == 0..(Radix - 1)
Minus == -1
Point == -2
Chars == Digit \cup {Minus, Point}

ASSUME GivenAssumption == Given \subseteq Word \X Word
ASSUME TextsAssumption == Texts \subseteq Seq(Chars)

Wrap32(n) == n % B
Wrap64(n) == n % (B * B)
Carry(b)  == IF b THEN 1 ELSE 0

Fixpoints == [whole : Word, frac : Word, negative : BOOLEAN]
IsZero(x) == x.whole = 0 /\ x.frac = 0
Zero      == [whole |-> 0, frac |-> 0, negative |-> FALSE]

Nothing    == [flags |-> {}, order |-> 0, ok |-> TRUE]
Flags(f)   == [Nothing EXCEPT !.flags = f]
Order(o)   == [Nothing EXCEPT !.order = o]
Success(b) == [Nothing EXCEPT !.ok = b]

-----------------------------------------------------------------------------
(* Mistakes the code could have made.  No definition uses them: each property  *)
(* below is violated when one replaces the definition it is named after.      *)

\* add_magnitude forgets that the carry may wrap the whole part again.
AddMagnitude_OneCarry(x, y) ==
    LET rf  == Wrap32(x.frac + y.frac)
        sum == Wrap32(x.whole + y.whole)
    IN  [whole |-> Wrap32(sum + Carry(rf < x.frac)), frac |-> rf,
         overflow |-> sum < x.whole]

\* fixpoint_init stores the sign of zero.
FixpointInit_AsGiven(whole, frac, negative) ==
    [whole |-> whole, frac |-> frac, negative |-> negative]

\* The loop that drops the zeros of the fraction does not stop at the first
\* digit.
Trimmed_ToNothing(s) ==
    SubSeq(s, 1, CHOOSE k \in 0..Len(s) :
                     /\ k = 0 \/ s[k] # 0
                     /\ \A i \in DOMAIN s : i > k => s[i] = 0)

-----------------------------------------------------------------------------
(* Magnitudes.                                                               *)

\* cmp_magnitude: -1, 0 or 1.
CmpMagnitude(x, y) ==
    CASE x.whole # y.whole -> IF x.whole < y.whole THEN -1 ELSE 1
      [] x.whole = y.whole /\ x.frac # y.frac -> IF x.frac < y.frac THEN -1 ELSE 1
      [] OTHER -> 0

\* add_magnitude: a part has wrapped when it is less than what was added.
AddMagnitude(x, y) ==
    LET rf    == Wrap32(x.frac + y.frac)
        carry == Carry(rf < x.frac)
        sum   == Wrap32(x.whole + y.whole)
        rw    == Wrap32(sum + carry)
    IN  [whole |-> rw, frac |-> rf, overflow |-> sum < x.whole \/ rw < carry]

\* sub_magnitude, where big is not the smaller one.
SubMagnitude(big, small) ==
    LET borrow == Carry(big.frac < small.frac)
    IN  [whole |-> Wrap32(big.whole - small.whole - borrow),
         frac  |-> Wrap32(big.frac - small.frac)]

\* The products of the parts that fixpoint_mul adds up, as 64-bit words.
MulMagnitude(x, y) ==
    LET t0   == x.frac * y.frac
        t3   == x.whole * y.whole
        sum  == Wrap64(x.whole * y.frac + x.frac * y.whole)
        mid0 == Wrap64(t3 * B)
        mid1 == Wrap64(mid0 + sum)
        mid2 == Wrap64(mid1 + t0 \div B)
        high == Wrap64(t3 + sum \div B
                       + Carry(Wrap64(t0 + sum * B) < t0)
                       + Carry(mid1 < mid0) + Carry(mid2 < mid1))
    IN  [whole |-> mid2 \div B, frac |-> mid2 % B,
         overflow |-> high \div B # 0, underflow |-> t0 % B # 0]
-----------------------------------------------------------------------------
(* Numbers.                                                                  *)

FixpointInit(whole, frac, negative) ==
    [whole |-> whole, frac |-> frac,
     negative |-> negative /\ ~(whole = 0 /\ frac = 0)]

IsNegative(x) == x.negative /\ ~IsZero(x)
Negated(x)    == [x EXCEPT !.negative = ~x.negative /\ ~IsZero(x)]
Parts(m, neg) == [whole |-> m.whole, frac |-> m.frac, negative |-> neg]

Overflow(m) == IF m.overflow THEN {"overflow"} ELSE {}

\* fixpoint_add reads all of both operands before it writes the result.
Sum(x, y) ==
    LET cmp == CmpMagnitude(x, y)
        all == AddMagnitude(x, y)
    IN  CASE x.negative = y.negative ->
                [value |-> Parts(all, x.negative), flags |-> Overflow(all)]
          [] x.negative # y.negative /\ cmp = 0 -> [value |-> Zero, flags |-> {}]
          [] x.negative # y.negative /\ cmp > 0 ->
                [value |-> Parts(SubMagnitude(x, y), x.negative), flags |-> {}]
          [] x.negative # y.negative /\ cmp < 0 ->
                [value |-> Parts(SubMagnitude(y, x), y.negative), flags |-> {}]

\* fixpoint_compare
Comparison(x, y) ==
    IF IsNegative(x) # IsNegative(y)
    THEN IF IsNegative(x) THEN -1 ELSE 1
    ELSE IF IsNegative(x) THEN -CmpMagnitude(x, y) ELSE CmpMagnitude(x, y)

-----------------------------------------------------------------------------
(* Strings: sequences of digits, Minus and Point.  A letter is the same digit *)
(* in upper and in lower case.                                               *)

\* The last k digits of n, the highest first: snprintf with %0kx.
Padded(n, k) == [i \in 1..k |-> (n \div Power[k - i]) % Radix]

\* snprintf with %x
Hex(n) == Padded(n, CHOOSE k \in 1..Digits :
                        /\ n < Power[k]
                        /\ k = 1 \/ n >= Power[k - 1])

\* A sequence of digits without the zeros at its end, but for the first digit.
Trimmed(s) ==
    LET last == CHOOSE k \in DOMAIN s :
                    /\ k = 1 \/ s[k] # 0
                    /\ \A i \in DOMAIN s : i > k => s[i] = 0
    IN  SubSeq(s, 1, last)

\* fixpoint_format_hex; the longest text is shorter than its buffer.
Format(x) == (IF IsNegative(x) THEN <<Minus>> ELSE <<>>)
             \o Hex(x.whole) \o <<Point>> \o Trimmed(Padded(x.frac, Digits))

\* One character of a loop of fixpoint_parse_hex.
ReadDigit(p, c) ==
    IF ~p.ok \/ c \notin Digit \/ p.count >= Digits
    THEN [p EXCEPT !.ok = FALSE]
    ELSE [value |-> Wrap32(p.value * Radix + c), count |-> p.count + 1, ok |-> TRUE]

\* What the loop has read after each character.
Reading(s) ==
    LET Read[k \in 0..Len(s)] ==
            IF k = 0 THEN [value |-> 0, count |-> 0, ok |-> TRUE]
            ELSE ReadDigit(Read[k - 1], s[k])
    IN  Read
Numeral(s) == Reading(s)[Len(s)]

\* Where the first point is, or 0.
FirstPoint(s) == SelectInSeq(s, LAMBDA c : c = Point)

\* fixpoint_parse_hex: whether s is well formed, and what it stands for.
Parse(s) ==
    LET neg    == s # <<>> /\ Head(s) = Minus
        rest   == IF neg THEN Tail(s) ELSE s
        at     == FirstPoint(rest)
        whole  == Numeral(SubSeq(rest, 1, at - 1))
        frac   == Numeral(SubSeq(rest, at + 1, Len(rest)))
    IN  [ok |-> at # 0 /\ whole.ok /\ whole.count > 0 /\ frac.ok /\ frac.count > 0,
         value |-> FixpointInit(whole.value,
                                Wrap32(frac.value * Power[Digits - frac.count]),
                                neg)]

-----------------------------------------------------------------------------
(* The calls.                                                                *)

\* A caller's objects hold given numbers or its string a given text.  One of
\* the two at a time: no call reads both.
Init ==
    /\ \/ /\ val \in [Objects -> {FixpointInit(g[1], g[2], n) :
                                    g \in Given, n \in BOOLEAN}]
          /\ \A o \in Fresh : val[o] = Zero
          /\ str = Format(Zero)
       \/ /\ val = [o \in Objects |-> Zero]
          /\ str \in Texts
    /\ ret = Nothing
    /\ calls = 0

Call == calls < MaxCalls /\ calls' = calls + 1

Assign(o, result) ==
    /\ Call
    /\ val' = [val EXCEPT ![o] = result.value]
    /\ ret' = Flags(result.flags)
    /\ UNCHANGED str

Add(o, l, r) == Assign(o, Sum(val[l], val[r]))
Sub(o, l, r) == Assign(o, Sum(val[l], Negated(val[r])))

\* The sign is chosen after the parts of the result are written, and the
\* operands are read again for it: one of them may be the result itself.
Mul(o, l, r) ==
    LET p       == MulMagnitude(val[l], val[r])
        written == [val EXCEPT ![o].whole = p.whole, ![o].frac = p.frac]
        zero    == IsZero(written[o]) /\ (IsZero(written[l]) \/ IsZero(written[r]))
        sign    == ~zero /\ val[l].negative # val[r].negative
    IN  Assign(o, [value |-> Parts(p, sign),
                   flags |-> Overflow(p)
                             \cup (IF p.underflow THEN {"underflow"} ELSE {})])

Negate(o) ==
    /\ Call
    /\ val' = [val EXCEPT ![o] = Negated(@)]
    /\ ret' = Nothing
    /\ UNCHANGED str

Compare(l, r) ==
    /\ Call
    /\ ret' = Order(Comparison(val[l], val[r]))
    /\ UNCHANGED <<val, str>>

FormatHex(o) ==
    /\ Call
    /\ str' = Format(val[o])
    /\ ret' = Nothing
    /\ UNCHANGED val

ParseHex(o) ==
    /\ Call
    /\ val' = IF Parse(str).ok THEN [val EXCEPT ![o] = Parse(str).value] ELSE val
    /\ ret' = Success(Parse(str).ok)
    /\ UNCHANGED str

Next ==
    \/ \E o, l, r \in Objects : Add(o, l, r) \/ Sub(o, l, r) \/ Mul(o, l, r)
    \/ \E o \in Objects : Negate(o) \/ FormatHex(o) \/ ParseHex(o)
    \/ \E l, r \in Objects : Compare(l, r)

Spec == Init /\ [][Next]_vars

-----------------------------------------------------------------------------
(* Properties.                                                               *)

\* The number that an object stands for, in units of its last place.
Value(x) == LET m == x.whole * B + x.frac IN IF x.negative THEN -m ELSE m

\* The sum of a sequence.
Sums(f)  == LET Upto[k \in 0..Len(f)] == IF k = 0 THEN 0 ELSE Upto[k - 1] + f[k] IN Upto
Total(f) == Sums(f)[Len(f)]

\* What a text denotes by the grammar of fixpoint.h: a sign or none, one to
\* Digits digits, a point and one to Digits digits, the place of each by its
\* distance from the point.  Says nothing of how it is parsed.
Denoted(s) ==
    LET neg  == s # <<>> /\ s[1] = Minus
        t    == IF neg THEN Tail(s) ELSE s
        WellFormed(p) ==
            /\ p - 1 \in 1..Digits
            /\ Len(t) - p \in 1..Digits
            /\ \A i \in DOMAIN t : IF i = p THEN t[i] = Point ELSE t[i] \in Digit
        Term(p, i) ==
            IF i = p THEN 0
            ELSE t[i] * Power[Digits + IF i < p THEN p - 1 - i ELSE p - i]
        Sigma(p) == Total([i \in DOMAIN t |-> Term(p, i)])
    IN  {IF neg THEN -Sigma(p) ELSE Sigma(p) : p \in {q \in DOMAIN t : WellFormed(q)}}

Scaled == INSTANCE ScaledIntegers WITH
            num  <- [o \in Objects |-> Value(val[o])],
            text <- Denoted(str)

\* Whatever sequence of calls is made, on whatever objects, even when the result
\* is an operand: sums, differences and products are exact or truncated as
\* fixpoint.h says, the flags tell exactly whether and where places were lost,
\* comparing agrees with subtracting, a printed text reads as the same number,
\* only well-formed texts are read, and the sign that some zeros carry is never
\* seen in a result.
ImplementsIntegers == Scaled!Spec

SignedZero(o) == IsZero(val[o]) /\ val[o].negative

\* fixpoint.h keeps zero without a sign.  Sums and products do leave a zero
\* with one, but only in a call that reports lost places, or as the sum of two
\* such zeros: no other call makes one, whatever its operands and its result
\* are.
SignedZeroIsLoss ==
    [][\A o \in Objects :
         SignedZero(o)' =>
             \/ ret'.flags # {}
             \/ SignedZero(o) /\ val'[o] = val[o]
             \/ \E l, r \in Objects :
                    SignedZero(l) /\ SignedZero(r) /\ Add(o, l, r)]_vars

\* The shape that fixpoint.h describes.
Canonical(s) ==
    LET neg == s[1] = Minus
        t   == IF neg THEN Tail(s) ELSE s
        p   == FirstPoint(t)
    IN  /\ p \in 2..(Len(t) - 1)
        /\ p = 2 \/ t[1] # 0
        /\ p = Len(t) - 1 \/ Last(t) # 0
        /\ neg => \E i \in DOMAIN t : t[i] > 0

\* What is printed has the shape that fixpoint.h asks for: no zero before the
\* whole part nor after the fraction, but for the one that stands there when no
\* other digit does, and a minus sign only before a number below zero.
PrintsCanonical == [][str' # str => Canonical(str')]_vars
=============================================================================
