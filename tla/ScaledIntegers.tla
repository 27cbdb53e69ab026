--------------------------- MODULE ScaledIntegers ---------------------------
(***************************************************************************)
(* What fixpoint.h promises, on integers: a number is its multiple of the  *)
(* last place, 1/B, and has a magnitude below B^2.  A result that does not *)
(* fit loses its high places, one that is too fine its low places, and the *)
(* caller is told which.  There are no parts, no carries and no zero with  *)
(* a sign; a text is only the number that it denotes, if it denotes one.   *)
(***************************************************************************)
EXTENDS Integers

CONSTANTS
    Objects,    \* the numbers of the caller
    B           \* how many units of the last place make up 1

VARIABLES
    num,        \* the value of every object, in units of the last place
    text,       \* the set of the number that the text denotes: empty if none
    ret         \* what the last call returned

vars == <<num, text, ret>>

Magnitude(n) == IF n < 0 THEN -n ELSE n
Signum(n)    == IF n < 0 THEN -1 ELSE IF n = 0 THEN 0 ELSE 1
Numbers      == (1 - B * B)..(B * B - 1)

Nothing    == [flags |-> {}, order |-> 0, ok |-> TRUE]
Flags(f)   == [Nothing EXCEPT !.flags = f]
Order(o)   == [Nothing EXCEPT !.order = o]
Success(b) == [Nothing EXCEPT !.ok = b]

\* The flags of a call that loses high places, or low places.
Lost(high, low) == (IF high THEN {"overflow"} ELSE {})
                   \cup (IF low THEN {"underflow"} ELSE {})

Init ==
    /\ num \in [Objects -> Numbers]
    /\ text \in {{}} \cup {{n} : n \in Numbers}
    /\ ret = Nothing

\* The exact sum, without the places above B^2.
Assign(o, sum) ==
    /\ ret' = Flags(Lost(Magnitude(sum) >= B * B, FALSE))
    /\ num' = [num EXCEPT ![o] = Signum(sum) * (Magnitude(sum) % (B * B))]
    /\ UNCHANGED text

Add(o, l, r) == Assign(o, num[l] + num[r])
Sub(o, l, r) == Assign(o, num[l] - num[r])

\* The exact product counts units of 1/B^2: the lowest and the highest of
\* its four places are cut off.
Mul(o, l, r) ==
    LET p == num[l] * num[r]
        m == Magnitude(p)
    IN  /\ ret' = Flags(Lost(m \div B >= B * B, m % B # 0))
        /\ num' = [num EXCEPT ![o] = Signum(p) * ((m \div B) % (B * B))]
        /\ UNCHANGED text

Negate(o) ==
    /\ ret' = Nothing
    /\ num' = [num EXCEPT ![o] = -@]
    /\ UNCHANGED text

Compare(l, r) ==
    /\ ret' = Order(Signum(num[l] - num[r]))
    /\ UNCHANGED <<num, text>>

\* A number that is printed is the one its text denotes, to the last place.
FormatHex(o) ==
    /\ ret' = Nothing
    /\ UNCHANGED num
    /\ text' = {num[o]}

\* A text that denotes no number is refused and leaves the object alone.
ParseHex(o) ==
    /\ ret' = Success(text # {})
    /\ \/ text = {} /\ UNCHANGED num
       \/ \E n \in text : num' = [num EXCEPT ![o] = n]
    /\ UNCHANGED text

Next ==
    \/ \E o, l, r \in Objects : Add(o, l, r) \/ Sub(o, l, r) \/ Mul(o, l, r)
    \/ \E o \in Objects : Negate(o) \/ FormatHex(o) \/ ParseHex(o)
    \/ \E l, r \in Objects : Compare(l, r)

Spec == Init /\ [][Next]_vars
=============================================================================
