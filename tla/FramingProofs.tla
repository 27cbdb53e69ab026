---------------------------- MODULE FramingProofs ----------------------------
(***************************************************************************)
(* For messages, buffers and a kernel of any size: no buffer of Framing    *)
(* overflows, plain messages arrive, and a connection is a stream of       *)
(* pieces.  The invariants follow the characters on their way: what is in  *)
(* the line buffer, the read buffer, the kernel and the hands of           *)
(* rio_writen is, in this order, what is left of the lines that were asked *)
(* for.                                                                    *)
(***************************************************************************)
EXTENDS Framing, SequenceTheorems, FiniteSetTheorems, WellFoundedInduction, TLAPS

-----------------------------------------------------------------------------
(* Sequences and numbers *)

\* A set of natural numbers with a bound has a smallest one.
LEMMA LeastExists ==
    ASSUME NEW n \in Nat, NEW S \in SUBSET (0..n), S # {}
    PROVE  \E i \in S : \A j \in S : i <= j
  <1> DEFINE Below(x) == {z \in S : z < x}
             R == StrictSubsetOrdering(S)
             T == {A \in SUBSET S : \E x \in S : A = Below(x)}
  <1>1. IsFiniteSet(S)
    <2>1. IsFiniteSet(0..n)
      BY FS_Interval
    <2> QED BY <2>1, FS_Subset
  <1>2. IsWellFoundedOn(R, FiniteSubsetsOf(S))
    BY <1>1, FS_StrictSubsetOrderingWellFounded
  <1>3. FiniteSubsetsOf(S) = SUBSET S
    BY <1>1, FS_FiniteSubsetsOfFinite
  <1>4. \A x \in S : Below(x) \in T
    OBVIOUS
  <1>5. T \subseteq FiniteSubsetsOf(S) /\ T # {}
    BY <1>3, <1>4
  <1>6. PICK A \in T : \A B \in T : ~(<<B, A>> \in R)
    <2> HIDE DEF T, R
    <2> QED BY <1>2, <1>5, WFMin
  <1>7. PICK m \in S : A = Below(m)
    BY <1>6
  <1>8. ASSUME NEW x \in S, x < m PROVE FALSE
    <2>1. x \in Below(m) /\ x \notin Below(x)
      BY <1>8
    <2>2. \A z \in S : z < x => z < m
      BY <1>8
    <2>3. Below(x) \subseteq Below(m)
      BY <2>2
    <2>4. <<Below(x), Below(m)>> \in R
      BY <2>1, <2>3 DEF StrictSubsetOrdering
    <2> QED BY <2>4, <1>4, <1>6, <1>7
  <1>9. \A x \in S : ~(x < m)
    BY <1>8
  <1> QED BY <1>9

\* A sequence is its first k elements and the others.
LEMMA Slices ==
    ASSUME NEW S, NEW s \in Seq(S), NEW k \in 0..Len(s)
    PROVE  /\ SubSeq(s, 1, k) \in Seq(S) /\ Len(SubSeq(s, 1, k)) = k
           /\ \A i \in 1..k : SubSeq(s, 1, k)[i] = s[i]
           /\ SubSeq(s, k + 1, Len(s)) \in Seq(S)
           /\ Len(SubSeq(s, k + 1, Len(s))) = Len(s) - k
           /\ \A i \in 1..(Len(s) - k) : SubSeq(s, k + 1, Len(s))[i] = s[k + i]
           /\ SubSeq(s, 1, k) \o SubSeq(s, k + 1, Len(s)) = s
  <1>1. SubSeq(s, 1, k) \in Seq(S) /\ SubSeq(s, k + 1, Len(s)) \in Seq(S)
    OBVIOUS
  <1>2. /\ Len(SubSeq(s, 1, k)) = k
        /\ Len(SubSeq(s, k + 1, Len(s))) = Len(s) - k
    OBVIOUS
  <1>3. \A i \in 1..k : SubSeq(s, 1, k)[i] = s[i]
    OBVIOUS
  <1>4. \A i \in 1..(Len(s) - k) : SubSeq(s, k + 1, Len(s))[i] = s[k + i]
    OBVIOUS
  <1>5. SubSeq(s, 1, k) \o SubSeq(s, k + 1, Len(s)) = SubSeq(s, 1, Len(s))
    <2>1. /\ 1 \in 1..(Len(s) + 1) /\ k \in (1 - 1)..Len(s)
          /\ Len(s) \in k..Len(s)
      OBVIOUS
    <2> QED BY <2>1, ConcatAdjacentSubSeq
  <1> QED BY <1>1, <1>2, <1>3, <1>4, <1>5, SubSeqFull

-----------------------------------------------------------------------------
(* Lines *)

\* The characters of a line, one by one.
LEMMA Spelled ==
    ASSUME NEW t \in Seq(Char), NEW d \in Seq(Char), NEW e, e = t \o <<Colon>> \o d \o <<Newline>>
    PROVE  /\ Len(t) \in Nat /\ Len(d) \in Nat
           /\ e \in Seq(Char) /\ Len(e) = Len(t) + Len(d) + 2
           /\ \A i \in 1..Len(t) : e[i] = t[i]
           /\ e[Len(t) + 1] = Colon
           /\ \A i \in 1..Len(d) : e[Len(t) + 1 + i] = d[i]
           /\ e[Len(t) + Len(d) + 2] = Newline
  <1>1. Newline \in Char /\ Colon \in Char
    BY DEF Char
  <1>2. /\ Len(t) \in Nat /\ Len(d) \in Nat
        /\ e \in Seq(Char) /\ Len(e) = Len(t) + Len(d) + 2
    BY <1>1
  <1>3. ASSUME NEW i \in 1..Len(t) PROVE e[i] = t[i]
    BY <1>1
  <1>4. e[Len(t) + 1] = Colon
    BY <1>1
  <1>5. ASSUME NEW i \in 1..Len(d) PROVE e[Len(t) + 1 + i] = d[i]
    BY <1>1
  <1>6. e[Len(t) + Len(d) + 2] = Newline
    BY <1>1
  <1> QED BY <1>2, <1>3, <1>4, <1>5, <1>6

LEMMA Encoded ==
    ASSUME NEW m \in Messages
    PROVE  /\ m.tag \in Seq(Char) /\ m.data \in Seq(Char)
           /\ Encode(m) \in Seq(Char)
           /\ Encode(m) = m.tag \o <<Colon>> \o m.data \o <<Newline>>
  <1>1. m \in [tag : Seq(Char), data : Seq(Char)]
    BY CharactersAssumption
  <1>2. m.tag \in Seq(Char) /\ m.data \in Seq(Char)
    BY <1>1
  <1>3. Encode(m) = m.tag \o <<Colon>> \o m.data \o <<Newline>>
    BY DEF Encode
  <1> QED BY <1>2, <1>3, Spelled

\* In a plain line the only newline is the last character, and there is no NUL.
LEMMA PlainSpelled ==
    ASSUME NEW t \in Seq(Char), NEW d \in Seq(Char), NEW e, e = t \o <<Colon>> \o d \o <<Newline>>,
           Range(t) \cap {Newline, Colon, Nul} = {},
           Range(d) \cap {Newline, Nul} = {}
    PROVE  \A i \in 1..Len(e) : e[i] # Nul /\ (e[i] = Newline <=> i = Len(e))
  <1>1. \A i \in 1..Len(t) : t[i] \notin {Newline, Colon, Nul}
    BY RangeEquality
  <1>2. \A i \in 1..Len(d) : d[i] \notin {Newline, Nul}
    BY RangeEquality
  <1>3. Len(t) \in Nat /\ Len(d) \in Nat /\ Len(e) = Len(t) + Len(d) + 2
    BY Spelled
  <1>4. ASSUME NEW i \in 1..Len(e) PROVE e[i] # Nul /\ (e[i] = Newline <=> i = Len(e))
    <2>1. CASE i \in 1..Len(t)
      BY <2>1, <1>1, <1>3, Spelled
    <2>2. CASE i = Len(t) + 1
      BY <2>2, <1>3, Spelled, CharactersAssumption
    <2>3. CASE i = Len(e)
      BY <2>3, <1>3, Spelled, CharactersAssumption
    <2>4. CASE i \in (Len(t) + 2)..(Len(t) + 1 + Len(d))
      <3> DEFINE j == i - Len(t) - 1
      <3>1. j \in 1..Len(d) /\ Len(t) + 1 + j = i
        BY <2>4, <1>3
      <3> HIDE DEF j
      <3>2. e[i] = d[j]
        BY <3>1, Spelled
      <3> QED BY <3>1, <3>2, <2>4, <1>2, <1>3
    <2>5. \/ i \in 1..Len(t) \/ i = Len(t) + 1 \/ i = Len(e)
          \/ i \in (Len(t) + 2)..(Len(t) + 1 + Len(d))
      <3>1. \A p, q \in Nat : \A x \in 1..(p + q + 2) :
               x \in 1..p \/ x = p + 1 \/ x = p + q + 2 \/ x \in (p + 2)..(p + 1 + q)
        OBVIOUS
      <3> QED BY <3>1, <1>3
    <2> QED BY <2>1, <2>2, <2>3, <2>4, <2>5
  <1> QED BY <1>4

LEMMA PlainLine ==
    ASSUME NEW m \in Messages, Plain(m)
    PROVE  /\ Len(Encode(m)) \in 2..(BufLen - 1)
           /\ \A i \in 1..Len(Encode(m)) :
                 /\ Encode(m)[i] # Nul
                 /\ Encode(m)[i] = Newline <=> i = Len(Encode(m))
  <1>1. /\ m.tag \in Seq(Char) /\ m.data \in Seq(Char)
        /\ Encode(m) = m.tag \o <<Colon>> \o m.data \o <<Newline>>
    BY Encoded
  <1>2. /\ Range(m.tag) \cap {Newline, Colon, Nul} = {}
        /\ Range(m.data) \cap {Newline, Nul} = {}
        /\ Len(Encode(m)) < BufLen
    BY LinesAssumption DEF Plain
  <1>3. Len(Encode(m)) \in Nat /\ Len(Encode(m)) >= 2
    <2>1. \A t, d \in Seq(Char) : LET e == t \o <<Colon>> \o d \o <<Newline>>
                                 IN  Len(e) \in Nat /\ Len(e) >= 2
      <3>1. SUFFICES ASSUME NEW t \in Seq(Char), NEW d \in Seq(Char), NEW e,
                            e = t \o <<Colon>> \o d \o <<Newline>>
                     PROVE  Len(e) \in Nat /\ Len(e) >= 2
        OBVIOUS
      <3>2. Len(t) \in Nat /\ Len(d) \in Nat /\ Len(e) = Len(t) + Len(d) + 2
        BY <3>1, Spelled
      <3> QED BY <3>2
    <2> QED BY <1>1, <2>1
  <1>4. Len(Encode(m)) \in 2..(BufLen - 1)
    BY <1>2, <1>3, SizesAssumption
  <1>5. \A i \in 1..Len(Encode(m)) :
           /\ Encode(m)[i] # Nul
           /\ Encode(m)[i] = Newline <=> i = Len(Encode(m))
    BY <1>1, <1>2, PlainSpelled
  <1> QED BY <1>4, <1>5

\* A plain line that arrives in one piece is taken apart into what was sent.
LEMMA PlainParsed ==
    ASSUME NEW t \in Seq(Char), NEW d \in Seq(Char), NEW e, e = t \o <<Colon>> \o d \o <<Newline>>,
           Range(t) \cap {Newline, Colon, Nul} = {},
           Range(d) \cap {Newline, Nul} = {},
           d # <<>> => Last(d) # Return
    PROVE  Parse(e) = [tag |-> t, data |-> d, result |-> "SUCCESS"]
  <1> DEFINE k == Len(e) - 1
             s == SubSeq(e, 1, k)
             p == Len(t) + 1
  <1>1. /\ Len(t) \in Nat /\ Len(d) \in Nat /\ e \in Seq(Char)
        /\ Len(e) = Len(t) + Len(d) + 2 /\ DOMAIN e = 1..Len(e)
    <2>1. Len(t) \in Nat /\ Len(d) \in Nat /\ Len(e) = Len(t) + Len(d) + 2
      BY Spelled
    <2>2. e \in Seq(Char)
      BY Spelled
    <2> QED BY <2>1, <2>2, LenProperties
  <1>2. \A i \in 1..Len(e) : e[i] # Nul /\ (e[i] = Newline <=> i = Len(e))
    BY PlainSpelled
  <1>3. CString(e) = e
    <2>1. {i \in DOMAIN e : e[i] = Nul} = {}
      BY <1>1, <1>2
    <2> QED BY <2>1 DEF CString
  <1>4. k \in 1..Len(e) /\ k # Len(e) /\ e[k] \notin {Newline, Return}
    <2>1. k \in 1..Len(e) /\ k # Len(e)
      <3>1. \A x, y, z \in Nat : z = x + y + 2 => z - 1 \in 1..z /\ z - 1 # z
        OBVIOUS
      <3> QED BY <3>1, <1>1
    <2>2. e[k] # Newline
      BY <2>1, <1>2
    <2>3. CASE d = <<>>
      <3>1. Len(d) = 0
        BY <2>3
      <3>2. k = Len(t) + 1
        <4>1. \A x \in Nat : (x + 0 + 2) - 1 = x + 1
          OBVIOUS
        <4> QED BY <4>1, <3>1, <1>1
      <3>3. e[k] = Colon
        BY <3>2, Spelled
      <3> QED BY <2>1, <2>2, <3>3, CharactersAssumption
    <2>4. CASE d # <<>>
      <3>1. Len(d) \in 1..Len(d)
        BY <2>4, EmptySeq, <1>1
      <3>2. k = Len(t) + 1 + Len(d)
        <4>1. \A x, y \in Nat : (x + y + 2) - 1 = x + 1 + y
          OBVIOUS
        <4> QED BY <4>1, <1>1
      <3>3. e[k] = d[Len(d)]
        BY <3>1, <3>2, Spelled
      <3>4. d[Len(d)] # Return
        BY <2>4 DEF Last
      <3> QED BY <2>1, <2>2, <3>3, <3>4
    <2> QED BY <2>3, <2>4
  <1> HIDE DEF k
  <1>5. Strip(e) = s
    <2> DEFINE kept == {i \in DOMAIN e : e[i] \notin {Newline, Return}}
    <2>1. k \in kept
      BY <1>1, <1>4
    <2>2. \A j \in kept : j <= k
      <3>1. ASSUME NEW j \in kept PROVE j <= k
        <4>1. j \in 1..Len(e) /\ j # Len(e)
          BY <1>1, <1>2
        <4> QED BY <4>1, <1>1 DEF k
      <3> QED BY <3>1
    <2>3. \A i \in kept : (\A j \in kept : j <= i) => i = k
      <3>1. ASSUME NEW i \in kept, \A j \in kept : j <= i PROVE i = k
        <4>1. i <= k /\ k <= i /\ i \in Int /\ k \in Int
          BY <2>1, <2>2, <3>1, <1>1, <1>4
        <4> QED BY <4>1
      <3> QED BY <3>1
    <2>4. (CHOOSE i \in kept : \A j \in kept : j <= i) = k
      <3> HIDE DEF kept
      <3> QED BY <2>1, <2>2, <2>3
    <2>5. kept # {}
      BY <2>1
    <2>6. Strip(e) = IF kept = {} THEN <<>>
                     ELSE SubSeq(e, 1, CHOOSE i \in kept : \A j \in kept : j <= i)
      BY DEF Strip
    <2> HIDE DEF kept
    <2> QED BY <2>4, <2>5, <2>6
  <1>6. /\ s \in Seq(Char) /\ Len(s) = k /\ DOMAIN s = 1..k
        /\ \A i \in 1..k : s[i] = e[i]
    <2>1. k \in 0..Len(e)
      BY <1>4
    <2>2. s \in Seq(Char) /\ Len(s) = k /\ \A i \in 1..k : s[i] = e[i]
      BY <2>1, <1>1, Slices
    <2> HIDE DEF s
    <2> QED BY <2>2, LenProperties
  <1> HIDE DEF s
  <1>7. k = Len(t) + 1 + Len(d) /\ p \in 1..k
    <2>1. \A x, y, z \in Nat : z = x + y + 2 => z - 1 = x + 1 + y /\ x + 1 \in 1..(z - 1)
      OBVIOUS
    <2> QED BY <2>1, <1>1 DEF k
  <1>8. s[p] = Colon /\ \A i \in 1..Len(t) : s[i] = t[i] /\ t[i] # Colon
    <2>1. s[p] = Colon
      BY <1>6, <1>7, Spelled
    <2>2. \A i \in 1..Len(t) : t[i] # Colon
      BY RangeEquality
    <2>3. \A i \in 1..Len(t) : i \in 1..k
      BY <1>1, <1>7
    <2>4. \A i \in 1..Len(t) : s[i] = t[i]
      BY <1>6, <2>3, Spelled
    <2> QED BY <2>1, <2>2, <2>4
  <1>9. \A i \in 1..Len(d) : s[p + i] = d[i]
    <2>1. ASSUME NEW i \in 1..Len(d) PROVE p + i \in 1..k
      BY <1>1, <1>7
    <2> QED BY <2>1, <1>6, Spelled
  <1> DEFINE colons == {i \in DOMAIN s : s[i] = Colon}
             pos    == CHOOSE i \in colons : \A j \in colons : i <= j
  <1>10. p \in colons
    BY <1>6, <1>7, <1>8
  <1>11. \A j \in colons : j \in Int /\ p <= j
    <2>1. ASSUME NEW j \in colons PROVE j \in Int /\ p <= j
      <3>1. j \in 1..k /\ s[j] = Colon
        BY <1>6
      <3>2. j \notin 1..Len(t)
        BY <1>8, <3>1
      <3> QED BY <3>1, <3>2, <1>1, <1>7
    <2> QED BY <2>1
  <1>12. pos = p
    <2>1. p \in Int
      BY <1>11, <1>10
    <2> HIDE DEF colons, p
    <2>2. \A i \in colons : (\A j \in colons : i <= j) => i = p
      <3>1. ASSUME NEW i \in colons, \A j \in colons : i <= j PROVE i = p
        <4>1. i <= p /\ p <= i /\ i \in Int
          BY <1>10, <1>11, <3>1
        <4> QED BY <4>1, <2>1
      <3> QED BY <3>1
    <2> QED BY <2>2, <1>10, <1>11
  <1>13. Parse(e) = [tag |-> SubSeq(s, 1, pos - 1), data |-> SubSeq(s, pos + 1, Len(s)),
                     result |-> "SUCCESS"]
    <2>1. colons # {}
      BY <1>10
    <2>2. Parse(e) = IF colons = {} THEN NoMessage
                     ELSE [tag |-> SubSeq(s, 1, pos - 1),
                           data |-> SubSeq(s, pos + 1, Len(s)), result |-> "SUCCESS"]
      BY <1>3, <1>5 DEF Parse
    <2> HIDE DEF colons, pos
    <2> QED BY <2>1, <2>2
  <1> HIDE DEF colons, pos
  <1>14. SubSeq(s, 1, p - 1) = t
    <2>1. p - 1 = Len(t) /\ Len(t) \in 0..Len(s)
      BY <1>1, <1>6, <1>7
    <2>2. /\ SubSeq(s, 1, Len(t)) \in Seq(Char) /\ Len(SubSeq(s, 1, Len(t))) = Len(t)
          /\ \A i \in 1..Len(t) : SubSeq(s, 1, Len(t))[i] = s[i]
      BY <2>1, <1>6, Slices
    <2>3. SubSeq(s, 1, Len(t)) = t
      BY <2>2, <1>8, SeqEqual
    <2> QED BY <2>1, <2>3
  <1>15. SubSeq(s, p + 1, Len(s)) = d
    <2>1. p \in 0..Len(s) /\ Len(s) - p = Len(d)
      <3>1. \A x, y \in Nat : (x + 1 + y) - (x + 1) = y
        OBVIOUS
      <3> QED BY <3>1, <1>1, <1>6, <1>7
    <2>2. /\ SubSeq(s, p + 1, Len(s)) \in Seq(Char)
          /\ Len(SubSeq(s, p + 1, Len(s))) = Len(d)
          /\ \A i \in 1..Len(d) : SubSeq(s, p + 1, Len(s))[i] = s[p + i]
      <3> HIDE DEF p
      <3>1. /\ SubSeq(s, p + 1, Len(s)) \in Seq(Char)
            /\ Len(SubSeq(s, p + 1, Len(s))) = Len(s) - p
            /\ \A i \in 1..(Len(s) - p) : SubSeq(s, p + 1, Len(s))[i] = s[p + i]
        BY <2>1, <1>6, Slices
      <3> QED BY <3>1, <2>1
    <2> HIDE DEF p
    <2> QED BY <2>2, <1>9, SeqEqual
  <1> QED BY <1>12, <1>13, <1>14, <1>15

LEMMA ParsePlain ==
    ASSUME NEW m \in Messages, Plain(m)
    PROVE  Parse(Encode(m)) = [tag |-> m.tag, data |-> m.data, result |-> "SUCCESS"]
  <1>1. /\ m.tag \in Seq(Char) /\ m.data \in Seq(Char)
        /\ Encode(m) = m.tag \o <<Colon>> \o m.data \o <<Newline>>
    BY Encoded
  <1>2. /\ Range(m.tag) \cap {Newline, Colon, Nul} = {}
        /\ Range(m.data) \cap {Newline, Nul} = {}
        /\ m.data # <<>> => Last(m.data) # Return
    BY LinesAssumption DEF Plain
  <1> QED BY <1>1, <1>2, PlainParsed

-----------------------------------------------------------------------------
(* Types *)

\* The loop of rio_readlineb stops at the first newline, at the end of rio_buf
\* or where the line buffer is full.
LEMMA TakenStops ==
    ASSUME unread \in Seq(Char), unread # <<>>, Room \in Nat \ {0}
    PROVE  /\ Taken \in 1..Len(unread) /\ Taken <= Room
           /\ \A j \in 1..Len(unread) : j < Taken => unread[j] # Newline
           /\ Taken = Room \/ Taken = Len(unread) \/ unread[Taken] = Newline
  <1> DEFINE newlines == {i \in DOMAIN unread : unread[i] = Newline}
             stops == newlines \cup {Len(unread), Room}
  <1>1. DOMAIN unread = 1..Len(unread) /\ Len(unread) \in Nat \ {0}
    BY EmptySeq, LenProperties
  <1>2. newlines \subseteq 1..Len(unread)
    BY <1>1
  <1>3. stops \subseteq 0..(Len(unread) + Room) /\ Len(unread) + Room \in Nat /\ stops # {}
    <2>1. 1..Len(unread) \subseteq 0..(Len(unread) + Room)
      BY <1>1
    <2>2. /\ Len(unread) \in 0..(Len(unread) + Room) /\ Room \in 0..(Len(unread) + Room)
          /\ Len(unread) + Room \in Nat
      BY <1>1
    <2> HIDE DEF newlines
    <2> QED BY <1>2, <2>1, <2>2
  <1>4. \E i \in stops : \A j \in stops : i <= j
    <2> HIDE DEF stops
    <2> QED BY <1>3, LeastExists
  <1>5. Taken \in stops /\ \A j \in stops : Taken <= j
    <2>1. Taken = CHOOSE i \in stops : \A j \in stops : i <= j
      BY DEF Taken
    <2> HIDE DEF stops
    <2> QED BY <2>1, <1>4
  <1>6. Taken <= Len(unread) /\ Taken <= Room
    BY <1>5
  <1>7. Taken \in Nat \ {0}
    <2>1. newlines \subseteq Nat \ {0}
      BY <1>2
    <2> HIDE DEF newlines
    <2> QED BY <2>1, <1>1, <1>5
  <1>8. ASSUME NEW j \in 1..Len(unread), j < Taken PROVE unread[j] # Newline
    <2>1. j \notin stops
      BY <1>5, <1>7, <1>8
    <2> QED BY <2>1, <1>1
  <1>9. Taken = Room \/ Taken = Len(unread) \/ unread[Taken] = Newline
    BY <1>5
  <1>10. Taken \in 1..Len(unread)
    BY <1>1, <1>6, <1>7
  <1> HIDE DEF stops, newlines
  <1> QED BY <1>6, <1>8, <1>9, <1>10

\* What Consume has in its hands.
LEMMA Consumed ==
    ASSUME TypeOK, unread # <<>>,
           NEW read, read = line \o SubSeq(unread, 1, Taken)
    PROVE  /\ Room \in Nat \ {0}
           /\ Taken \in 1..Len(unread)
           /\ read \in Seq(Char) \ {<<>>}
           /\ Len(read) = Len(line) + Taken /\ Len(read) <= BufLen - 1
           /\ Taken = Room <=> Len(read) = BufLen - 1
           /\ Taken = Room \/ Taken = Len(unread) \/ unread[Taken] = Newline
           /\ read[Len(read)] = unread[Taken]
           /\ \A j \in 1..Len(line) : read[j] = line[j]
           /\ \A j \in 1..Taken : read[Len(line) + j] = unread[j]
  <1>1. /\ unread \in Seq(Char) /\ line \in Seq(Char) /\ Len(line) < BufLen - 1
        /\ Len(line) \in Nat /\ BufLen \in Nat
    BY LenProperties, SizesAssumption DEF TypeOK
  <1>2. Room \in Nat \ {0} /\ Room = BufLen - 1 - Len(line)
    BY <1>1 DEF Room
  <1>3. /\ Taken \in 1..Len(unread) /\ Taken <= Room
        /\ Taken = Room \/ Taken = Len(unread) \/ unread[Taken] = Newline
    BY <1>1, <1>2, TakenStops
  <1> DEFINE u == SubSeq(unread, 1, Taken)
  <1>4. /\ u \in Seq(Char) /\ Len(u) = Taken
        /\ \A j \in 1..Taken : u[j] = unread[j]
    <2>1. Taken \in 0..Len(unread)
      BY <1>3
    <2> QED BY <2>1, <1>1, Slices
  <1> HIDE DEF u
  <1>5. read = line \o u
    BY DEF u
  <1>6. read \in Seq(Char) /\ Len(read) = Len(line) + Taken
    BY <1>1, <1>4, <1>5
  <1>7. \A j \in 1..Len(line) : read[j] = line[j]
    BY <1>1, <1>4, <1>5
  <1>8. \A j \in 1..Taken : read[Len(line) + j] = unread[j]
    BY <1>1, <1>4, <1>5
  <1>9. Taken \in 1..Taken /\ Taken \in Nat \ {0}
    BY <1>3
  <1>10. read[Len(read)] = unread[Taken]
    BY <1>6, <1>8, <1>9
  <1>11. /\ Len(read) <= BufLen - 1 /\ (Taken = Room <=> Len(read) = BufLen - 1)
         /\ Len(read) # 0
    <2>1. \A l, t, b, r \in Nat : t # 0 /\ t <= r /\ r = b - 1 - l =>
              l + t <= b - 1 /\ (t = r <=> l + t = b - 1) /\ l + t # 0
      OBVIOUS
    <2> QED BY <2>1, <1>1, <1>2, <1>3, <1>6, <1>9
  <1>12. read # <<>>
    <2>1. Len(<<>>) = 0
      OBVIOUS
    <2> QED BY <2>1, <1>11
  <1> QED BY <1>2, <1>3, <1>6, <1>7, <1>8, <1>10, <1>11, <1>12

LEMMA TypesStep == TypeOK /\ [Next]_vars => TypeOK'
  <1>1. SUFFICES ASSUME TypeOK, [Next]_vars PROVE TypeOK'
    OBVIOUS
  <1>2. /\ asked \in Seq(Messages) /\ Len(asked) <= MaxSends
        /\ rest \in Seq(Char)
        /\ wire \in Seq(Char) /\ Len(wire) <= KernelSize
        /\ conn \in {"open", "closed", "reset"}
        /\ unread \in Seq(Char) /\ Len(unread) <= RioSize
        /\ line \in Seq(Char) /\ Len(line) < BufLen - 1
        /\ rpc \in {"idle", "receive", "ended"}
        /\ pieces \in Seq(Seq(Char) \ {<<>>})
    BY <1>1 DEF TypeOK
  <1>3. Len(<<>>) = 0 /\ <<>> \in Seq(Char) /\ 0 < BufLen - 1 /\ 0 <= KernelSize /\ 0 <= RioSize
    BY SizesAssumption
  <1>4. /\ Len(asked) \in Nat /\ Len(rest) \in Nat /\ Len(wire) \in Nat
        /\ Len(unread) \in Nat /\ Len(line) \in Nat /\ MaxSends \in Nat
        /\ KernelSize \in Nat /\ RioSize \in Nat
    BY <1>2, LenProperties, SizesAssumption
  <1>5. ASSUME NEW msg \in Messages, Send(msg) PROVE TypeOK'
    <2>1. asked' \in Seq(Messages) /\ Len(asked') <= MaxSends
      BY <1>5, <1>2, <1>4 DEF Send
    <2>2. rest' \in Seq(Char)
      BY <1>5, Encoded DEF Send
    <2> QED BY <1>5, <1>2, <2>1, <2>2 DEF Send, TypeOK
  <1>6. ASSUME NEW k \in 1..Len(rest), Write(k) PROVE TypeOK'
    <2>1. k \in 0..Len(rest)
      BY <1>4
    <2>2. /\ SubSeq(rest, 1, k) \in Seq(Char) /\ Len(SubSeq(rest, 1, k)) = k
          /\ SubSeq(rest, k + 1, Len(rest)) \in Seq(Char)
      BY <2>1, <1>2, Slices
    <2>3. wire' \in Seq(Char) /\ Len(wire') <= KernelSize
      <3> DEFINE u == SubSeq(rest, 1, k)
      <3>1. wire' = wire \o u /\ Len(wire) + k <= KernelSize /\ u \in Seq(Char) /\ Len(u) = k
        BY <1>6, <2>2 DEF Write
      <3> HIDE DEF u
      <3>2. wire' \in Seq(Char)
        BY <3>1, <1>2
      <3>3. Len(wire') = Len(wire) + k
        <4>1. \A a, b \in Seq(Char) : Len(a \o b) = Len(a) + Len(b)
          OBVIOUS
        <4> QED BY <4>1, <3>1, <1>2
      <3> QED BY <3>1, <3>2, <3>3
    <2> QED BY <1>6, <1>2, <2>2, <2>3 DEF Write, TypeOK
  <1>7. CASE WriteFails
    BY <1>7, <1>2, <1>3 DEF WriteFails, TypeOK
  <1>8. CASE Close
    BY <1>8, <1>2, <1>3 DEF Close, TypeOK
  <1>9. CASE Receive
    BY <1>9, <1>2 DEF Receive, TypeOK
  <1>10. ASSUME NEW k \in 1..Len(wire), Refill(k) PROVE TypeOK'
    <2>1. k \in 0..Len(wire) /\ k \in Nat /\ k <= Len(wire)
      BY <1>4
    <2>2. /\ SubSeq(wire, 1, k) \in Seq(Char) /\ Len(SubSeq(wire, 1, k)) = k
          /\ SubSeq(wire, k + 1, Len(wire)) \in Seq(Char)
          /\ Len(SubSeq(wire, k + 1, Len(wire))) = Len(wire) - k
      BY <2>1, <1>2, Slices
    <2>3. Len(wire) - k <= KernelSize
      BY <2>1, <1>2, <1>4
    <2>4. unread' \in Seq(Char) /\ Len(unread') <= RioSize
      BY <1>10, <2>2 DEF Refill
    <2>5. wire' \in Seq(Char) /\ Len(wire') <= KernelSize
      BY <1>10, <2>2, <2>3 DEF Refill
    <2> QED BY <1>10, <1>2, <2>4, <2>5 DEF Refill, TypeOK
  <1>11. CASE Consume
    <2> DEFINE read == line \o SubSeq(unread, 1, Taken)
    <2>1. /\ Room \in Nat \ {0} /\ Taken \in 1..Len(unread)
          /\ read \in Seq(Char) \ {<<>>}
          /\ Len(read) <= BufLen - 1
          /\ Taken = Room <=> Len(read) = BufLen - 1
      BY <1>11, <1>1, Consumed DEF Consume
    <2>2. unread' \in Seq(Char) /\ Len(unread') <= RioSize
      <3>1. Taken \in 0..Len(unread) /\ Taken \in Nat
        BY <2>1
      <3>2. /\ SubSeq(unread, Taken + 1, Len(unread)) \in Seq(Char)
            /\ Len(SubSeq(unread, Taken + 1, Len(unread))) = Len(unread) - Taken
        BY <3>1, <1>2, Slices
      <3>3. Len(unread) - Taken <= RioSize
        BY <3>1, <1>2, <1>4
      <3> QED BY <1>11, <3>2, <3>3 DEF Consume
    <2>3. UNCHANGED <<asked, rest, wire, conn>>
      BY <1>11 DEF Consume
    <2>4. CASE unread[Taken] = Newline \/ Taken = Room
      <3>1. Deliver(read)
        BY <1>11, <2>4 DEF Consume
      <3> HIDE DEF read
      <3>2. pieces' \in Seq(Seq(Char) \ {<<>>})
        BY <3>1, <1>2, <2>1 DEF Deliver
      <3> QED BY <3>1, <3>2, <2>2, <2>3, <1>2, <1>3 DEF Deliver, TypeOK
    <2>5. CASE ~(unread[Taken] = Newline \/ Taken = Room)
      <3>1. line' = read /\ UNCHANGED <<rpc, pieces>>
        BY <1>11, <2>5 DEF Consume
      <3> HIDE DEF read
      <3>2. Len(read) \in Nat /\ BufLen \in Nat
        BY <2>1, LenProperties, SizesAssumption
      <3>3. Len(line') < BufLen - 1
        BY <3>1, <3>2, <2>1, <2>5
      <3> QED BY <3>1, <3>3, <2>1, <2>2, <2>3, <1>2 DEF TypeOK
    <2> QED BY <2>4, <2>5
  <1>12. CASE EndOfFile
    <2>1. CASE line = <<>>
      BY <1>12, <2>1, <1>2 DEF EndOfFile, TypeOK
    <2>2. CASE line # <<>>
      <3>1. Deliver(line) /\ UNCHANGED <<asked, rest, wire, conn, unread>>
        BY <1>12, <2>2 DEF EndOfFile
      <3>2. pieces' \in Seq(Seq(Char) \ {<<>>})
        BY <3>1, <2>2, <1>2 DEF Deliver
      <3> QED BY <3>1, <3>2, <1>2, <1>3 DEF Deliver, TypeOK
    <2> QED BY <2>1, <2>2
  <1>13. CASE ReadFails
    BY <1>13, <1>2, <1>3 DEF ReadFails, TypeOK
  <1>14. CASE Reset
    <2>1. wire' = wire \/ wire' = <<>>
      BY <1>14 DEF Reset
    <2>2. wire' \in Seq(Char) /\ Len(wire') <= KernelSize
      BY <2>1, <1>2, <1>3
    <2> QED BY <1>14, <2>2, <1>2 DEF Reset, TypeOK
  <1>15. CASE UNCHANGED vars
    BY <1>15, <1>2 DEF vars, TypeOK
  <1> QED BY <1>1, <1>5, <1>6, <1>7, <1>8, <1>9, <1>10, <1>11, <1>12, <1>13, <1>14, <1>15
          DEF Next, Sender, Receiver

LEMMA TypesInit == Init => TypeOK
  <1>1. Len(<<>>) = 0 /\ 0 < BufLen - 1 /\ 0 <= KernelSize /\ 0 <= RioSize /\ 0 <= MaxSends
    BY SizesAssumption
  <1>2. <<>> \in Seq(Char) /\ <<>> \in Seq(Messages) /\ <<>> \in Seq(Seq(Char) \ {<<>>})
    OBVIOUS
  <1> QED BY <1>1, <1>2 DEF Init, TypeOK

\* However writes and reads cut the stream, no buffer holds more than it has
\* room for: neither the kernel's, nor rio_buf, nor the one receive gives to
\* rio_readlineb, which stores a NUL behind the line.
THEOREM NothingOverflows == Spec => []TypeOK
  <1>1. Init => TypeOK
    BY TypesInit
  <1>2. TypeOK /\ [Next]_vars => TypeOK'
    BY TypesStep
  <1> QED BY <1>1, <1>2, PTL DEF Spec

-----------------------------------------------------------------------------
(* The characters on their way *)

\* What is on its way, from the beginning of the line that is being read.
Rest     == IF conn = "open" THEN rest ELSE <<>>
OnItsWay == line \o unread \o wire \o Rest

\* Of a line that is being read the newline has not come yet.
LineOpen == \A i \in 1..Len(line) : line[i] # Newline

\* The two halves of a sequence.
LEMMA Halves ==
    ASSUME NEW S, NEW x \in Seq(S), NEW y \in Seq(S)
    PROVE  /\ SubSeq(x \o y, 1, Len(x)) = x
           /\ SubSeq(x \o y, Len(x) + 1, Len(x \o y)) = y
  <1> DEFINE s == x \o y
  <1>1. /\ s \in Seq(S) /\ Len(s) = Len(x) + Len(y) /\ Len(x) \in Nat /\ Len(y) \in Nat
        /\ Len(x) \in 0..Len(s) /\ Len(s) - Len(x) = Len(y)
    OBVIOUS
  <1>2. \A i \in 1..Len(x) : s[i] = x[i]
    OBVIOUS
  <1>3. \A i \in 1..Len(y) : s[Len(x) + i] = y[i]
    OBVIOUS
  <1> HIDE DEF s
  <1>4. /\ SubSeq(s, 1, Len(x)) \in Seq(S) /\ Len(SubSeq(s, 1, Len(x))) = Len(x)
        /\ \A i \in 1..Len(x) : SubSeq(s, 1, Len(x))[i] = s[i]
        /\ SubSeq(s, Len(x) + 1, Len(s)) \in Seq(S)
        /\ Len(SubSeq(s, Len(x) + 1, Len(s))) = Len(y)
        /\ \A i \in 1..Len(y) : SubSeq(s, Len(x) + 1, Len(s))[i] = s[Len(x) + i]
    <2>1. Len(x) \in 0..Len(s)
      BY <1>1
    <2> QED BY <2>1, <1>1, Slices
  <1>5. SubSeq(s, 1, Len(x)) = x
    BY <1>2, <1>4, SeqEqual
  <1>6. SubSeq(s, Len(x) + 1, Len(s)) = y
    BY <1>3, <1>4, SeqEqual
  <1> QED BY <1>5, <1>6 DEF s

\* Where a sequence is cut before it is put behind another makes no difference.
LEMMA Moved ==
    ASSUME NEW S, NEW a \in Seq(S), NEW s \in Seq(S), NEW k \in 0..Len(s)
    PROVE  (a \o SubSeq(s, 1, k)) \o SubSeq(s, k + 1, Len(s)) = a \o s
  <1> DEFINE x == SubSeq(s, 1, k)
             y == SubSeq(s, k + 1, Len(s))
  <1>1. x \in Seq(S) /\ y \in Seq(S)
    BY Slices
  <1>2. x \o y = s
    BY Slices
  <1> HIDE DEF x, y
  <1>3. (a \o x) \o y = a \o (x \o y)
    BY SMTT(20), <1>1, ConcatAssociative
  <1>4. (a \o x) \o y = a \o s
    BY <1>2, <1>3
  <1> QED BY <1>4 DEF x, y

\* A sequence begins with the first of its parts.
LEMMA Begins ==
    ASSUME NEW S, NEW x \in Seq(S), NEW y \in Seq(S)
    PROVE  /\ Len(x) <= Len(x \o y)
           /\ \A j \in 1..Len(x) : (x \o y)[j] = x[j]
  <1>1. Len(x) <= Len(x \o y)
    OBVIOUS
  <1>2. \A j \in 1..Len(x) : (x \o y)[j] = x[j]
    OBVIOUS
  <1> QED BY <1>1, <1>2

\* What is on its way is a sequence of characters.
LEMMA OnItsWayTypes ==
    ASSUME TypeOK
    PROVE  Rest \in Seq(Char) /\ OnItsWay \in Seq(Char) /\ line \o unread \o wire \in Seq(Char)
  <1>1. Rest \in Seq(Char)
    BY DEF Rest, TypeOK
  <1>2. line \in Seq(Char) /\ unread \in Seq(Char) /\ wire \in Seq(Char)
    BY DEF TypeOK
  <1> QED BY <1>1, <1>2 DEF OnItsWay

LEMMA OnItsWayTypesNext ==
    ASSUME TypeOK'
    PROVE  Rest' \in Seq(Char) /\ OnItsWay' \in Seq(Char)
  <1>1. Rest' \in Seq(Char)
    BY DEF Rest, TypeOK
  <1>2. line' \in Seq(Char) /\ unread' \in Seq(Char) /\ wire' \in Seq(Char)
    BY DEF TypeOK
  <1> QED BY <1>1, <1>2 DEF OnItsWay

\* A message is put behind them, unless the connection has ended.
LEMMA FlowSend ==
    ASSUME TypeOK, NEW msg \in Messages, Send(msg)
    PROVE  OnItsWay' = IF conn = "open" THEN OnItsWay \o Encode(msg) ELSE OnItsWay
  <1>1. /\ rest = <<>> /\ rest' = Encode(msg)
        /\ UNCHANGED <<wire, conn, unread, line>>
    BY DEF Send
  <1>2. CASE conn = "open"
    <2>1. OnItsWay' = line \o unread \o wire \o Encode(msg)
      BY <1>1, <1>2 DEF OnItsWay, Rest
    <2>2. OnItsWay = line \o unread \o wire \o <<>>
      BY <1>1, <1>2 DEF OnItsWay, Rest
    <2>3. line \o unread \o wire \in Seq(Char)
      BY OnItsWayTypes
    <2>4. OnItsWay = line \o unread \o wire
      BY <2>2, <2>3, ConcatEmptySeq
    <2> QED BY <1>2, <2>1, <2>4
  <1>3. CASE conn # "open"
    BY <1>1, <1>3 DEF OnItsWay, Rest
  <1> QED BY <1>2, <1>3

\* write and read move them on and change none.
LEMMA FlowWrite ==
    ASSUME TypeOK, NEW k \in 1..Len(rest), Write(k)
    PROVE  OnItsWay' = OnItsWay
  <1>1. /\ rest \in Seq(Char) /\ wire \in Seq(Char) /\ unread \in Seq(Char)
        /\ line \in Seq(Char) /\ k \in 0..Len(rest)
    BY LenProperties DEF TypeOK
  <1>2. /\ conn = "open" /\ conn' = conn /\ wire' = wire \o SubSeq(rest, 1, k)
        /\ rest' = SubSeq(rest, k + 1, Len(rest))
        /\ UNCHANGED <<unread, line>>
    BY DEF Write
  <1> DEFINE x == line \o unread
             r1 == SubSeq(rest, 1, k)
             r2 == SubSeq(rest, k + 1, Len(rest))
  <1>3. /\ x \in Seq(Char) /\ r1 \in Seq(Char) /\ r2 \in Seq(Char)
        /\ (wire \o r1) \o r2 = wire \o rest
    <2>1. x \in Seq(Char)
      BY <1>1
    <2>2. r1 \in Seq(Char) /\ r2 \in Seq(Char)
      BY <1>1, Slices
    <2>3. (wire \o r1) \o r2 = wire \o rest
      BY <1>1, Moved
    <2> QED BY <2>1, <2>2, <2>3
  <1>4. OnItsWay' = x \o (wire \o r1) \o r2 /\ OnItsWay = x \o wire \o rest
    BY <1>2 DEF OnItsWay, Rest
  <1> HIDE DEF x, r1, r2
  <1>5. wire \o r1 \in Seq(Char)
    BY <1>1, <1>3
  <1>6. \A a, b, c \in Seq(Char) : (a \o b) \o c = a \o (b \o c)
    OBVIOUS
  <1>7. x \o (wire \o r1) \o r2 = x \o ((wire \o r1) \o r2)
    BY <1>3, <1>5, <1>6
  <1>8. x \o wire \o rest = x \o (wire \o rest)
    BY ZenonT(30), <1>1, <1>3, <1>6
  <1> QED BY <1>3, <1>4, <1>7, <1>8

LEMMA FlowRefill ==
    ASSUME TypeOK, NEW k \in 1..Len(wire), Refill(k)
    PROVE  OnItsWay' = OnItsWay
  <1>1. /\ wire \in Seq(Char) /\ line \in Seq(Char) /\ k \in 0..Len(wire)
        /\ Rest \in Seq(Char)
    BY LenProperties, OnItsWayTypes DEF TypeOK
  <1>2. /\ unread = <<>> /\ unread' = SubSeq(wire, 1, k)
        /\ wire' = SubSeq(wire, k + 1, Len(wire))
        /\ UNCHANGED <<rest, conn, line>>
    BY DEF Refill
  <1>3. OnItsWay = line \o <<>> \o wire \o Rest /\ Rest' = Rest
    BY <1>2 DEF OnItsWay, Rest
  <1>4. line \o <<>> = line
    BY <1>1, ConcatEmptySeq
  <1>5. (line \o unread') \o wire' = line \o wire
    BY <1>1, <1>2, Moved
  <1>6. OnItsWay' = ((line \o unread') \o wire') \o Rest
    BY <1>3, <1>2 DEF OnItsWay
  <1>7. OnItsWay = (line \o wire) \o Rest
    BY <1>3, <1>4
  <1> QED BY <1>5, <1>6, <1>7

\* A line that does not end yet is kept; otherwise a piece of it is taken off the
\* characters, up to its newline or as long as the buffer.
LEMMA FlowConsume ==
    ASSUME TypeOK, LineOpen, Consume
    PROVE  \/ LineOpen' /\ pieces' = pieces /\ OnItsWay' = OnItsWay
           \/ \E read \in Seq(Char) \ {<<>>} :
                 /\ line' = <<>> /\ pieces' = Append(pieces, read)
                 /\ OnItsWay = read \o OnItsWay' /\ OnItsWay' \in Seq(Char)
                 /\ Len(read) <= BufLen - 1
                 /\ read[Len(read)] = Newline \/ Len(read) = BufLen - 1
                 /\ \A j \in 1..Len(read) : j < Len(read) => read[j] # Newline
  <1> DEFINE read == line \o SubSeq(unread, 1, Taken)
             kept == SubSeq(unread, Taken + 1, Len(unread))
             after == kept \o wire \o Rest
             W == OnItsWay
  <1>1. /\ unread \in Seq(Char) /\ line \in Seq(Char) /\ wire \in Seq(Char)
        /\ Rest \in Seq(Char) /\ Len(line) \in Nat
        /\ \A i \in 1..Len(line) : line[i] # Newline
    BY LenProperties, OnItsWayTypes DEF LineOpen, TypeOK
  <1>2. /\ unread # <<>> /\ unread' = kept
        /\ UNCHANGED <<asked, rest, wire, conn>>
        /\ IF unread[Taken] = Newline \/ Taken = Room
           THEN Deliver(read)
           ELSE line' = read /\ UNCHANGED <<rpc, pieces>>
    BY DEF Consume
  <1>3. /\ Room \in Nat \ {0}
        /\ Taken \in 1..Len(unread)
        /\ read \in Seq(Char) \ {<<>>}
        /\ Len(read) = Len(line) + Taken /\ Len(read) <= BufLen - 1
        /\ Taken = Room <=> Len(read) = BufLen - 1
        /\ read[Len(read)] = unread[Taken]
        /\ \A j \in 1..Len(line) : read[j] = line[j]
        /\ \A j \in 1..Taken : read[Len(line) + j] = unread[j]
    BY <1>1, <1>2, Consumed
  <1>4. \A j \in 1..Len(unread) : j < Taken => unread[j] # Newline
    BY <1>1, <1>2, <1>3, TakenStops
  <1>5. Taken \in Nat \ {0} /\ Taken \in 0..Len(unread) /\ Len(unread) \in Nat /\ Taken <= Len(unread)
    BY <1>1, <1>3, LenProperties
  <1>6. kept \in Seq(Char) /\ after \in Seq(Char)
    <2>1. kept \in Seq(Char)
      BY <1>1, <1>5, Slices
    <2> HIDE DEF kept
    <2> QED BY <2>1, <1>1
  <1>7. read \o kept = line \o unread
    BY <1>1, <1>5, Moved
  <1> HIDE DEF read, kept
  <1>8. W = (read \o kept) \o wire \o Rest
    BY <1>7 DEF OnItsWay
  <1>9. W = read \o after
    <2>1. read \in Seq(Char) /\ kept \in Seq(Char) /\ wire \in Seq(Char) /\ Rest \in Seq(Char)
      BY <1>1, <1>3, <1>6
    <2>2. (read \o kept) \o wire \o Rest = read \o (kept \o wire \o Rest)
      <3>1. (read \o kept) \o wire = read \o (kept \o wire)
        BY SMTT(20), <2>1, ConcatAssociative
      <3>2. kept \o wire \in Seq(Char)
        BY <2>1
      <3>3. (read \o (kept \o wire)) \o Rest = read \o ((kept \o wire) \o Rest)
        BY SMTT(20), <2>1, <3>2, ConcatAssociative
      <3> QED BY <3>1, <3>3
    <2> QED BY <2>2, <1>8
  <1>10. Rest' = Rest
    BY <1>2 DEF Rest
  <1>11. \A j \in 1..Len(read) : j < Len(read) => read[j] # Newline
    <2>1. ASSUME NEW j \in 1..Len(read), j < Len(read) PROVE read[j] # Newline
      <3>1. CASE j \in 1..Len(line)
        BY <3>1, <1>1, <1>3
      <3>2. CASE j \notin 1..Len(line)
        <4> DEFINE i == j - Len(line)
        <4>1. i \in 1..Taken /\ i < Taken /\ j = Len(line) + i
          BY <3>2, <2>1, <1>1, <1>3, <1>5
        <4> HIDE DEF i
        <4>2. i \in 1..Len(unread)
          BY <4>1, <1>5
        <4>3. read[j] = unread[i]
          BY <4>1, <1>3
        <4> QED BY <4>1, <4>2, <4>3, <1>4
      <3> QED BY <3>1, <3>2
    <2> QED BY <2>1
  <1>12. CASE ~(unread[Taken] = Newline \/ Taken = Room)
    <2>1. line' = read /\ pieces' = pieces
      BY <1>2, <1>12
    <2>2. OnItsWay' = OnItsWay
      BY <2>1, <1>2, <1>8, <1>10 DEF OnItsWay
    <2>3. \A i \in 1..Len(read) : i < Len(read) \/ i = Len(read)
      <3>1. \A l \in Nat : \A i \in 1..l : i < l \/ i = l
        OBVIOUS
      <3>2. Len(read) \in Nat
        BY <1>1, <1>3, <1>5
      <3> QED BY <3>1, <3>2
    <2>4. read[Len(read)] # Newline
      BY <1>3, <1>12
    <2>5. LineOpen'
      BY <2>1, <2>3, <2>4, <1>11 DEF LineOpen
    <2> QED BY <2>1, <2>2, <2>5
  <1>13. CASE unread[Taken] = Newline \/ Taken = Room
    <2>1. pieces' = Append(pieces, read) /\ line' = <<>>
      BY <1>2, <1>13 DEF Deliver
    <2>2. OnItsWay' = after
      <3>1. <<>> \o kept = kept
        BY <1>6, ConcatEmptySeq
      <3>2. OnItsWay' = <<>> \o kept \o wire \o Rest
        BY <2>1, <1>2, <1>10 DEF OnItsWay
      <3> QED BY <3>1, <3>2
    <2> HIDE DEF after, W
    <2>3. W = read \o OnItsWay' /\ OnItsWay' \in Seq(Char)
      BY <2>2, <1>6, <1>9
    <2>4. read[Len(read)] = Newline \/ Len(read) = BufLen - 1
      BY <1>3, <1>13
    <2> QED BY <2>1, <2>3, <2>4, <1>3, <1>11 DEF W
  <1> QED BY <1>12, <1>13

\* At the end of the file what was read of a line is a piece, and nothing is left.
LEMMA FlowEndOfFile ==
    ASSUME TypeOK, EndOfFile
    PROVE  /\ OnItsWay = line /\ conn = "closed"
           /\ line = <<>> => OnItsWay' = OnItsWay /\ line' = line /\ pieces' = pieces
           /\ line # <<>> => OnItsWay' = <<>> /\ line' = <<>> /\ pieces' = Append(pieces, line)
  <1>1. line \in Seq(Char) /\ <<>> \in Seq(Char)
    BY DEF TypeOK
  <1>2. /\ unread = <<>> /\ wire = <<>> /\ conn = "closed"
        /\ UNCHANGED <<rest, wire, conn, unread>>
    BY DEF EndOfFile
  <1>3. line \o <<>> = line /\ <<>> \o <<>> = <<>>
    BY <1>1, ConcatEmptySeq
  <1>4. OnItsWay = line \o <<>> \o <<>> \o <<>> /\ OnItsWay' = line' \o <<>> \o <<>> \o <<>>
    BY <1>2 DEF OnItsWay, Rest
  <1>5. OnItsWay = line
    BY <1>3, <1>4
  <1>6. CASE line = <<>>
    <2>1. UNCHANGED <<line, pieces>>
      BY <1>6 DEF EndOfFile
    <2> QED BY <2>1, <1>2, <1>4, <1>5, <1>6
  <1>7. CASE line # <<>>
    <2>1. pieces' = Append(pieces, line) /\ line' = <<>>
      BY <1>7 DEF EndOfFile, Deliver
    <2> QED BY <2>1, <1>2, <1>3, <1>4, <1>5, <1>7
  <1> QED BY <1>6, <1>7

\* When the connection ends, or what is left of it does, characters are lost at
\* the end.
LEMMA FlowReadFails ==
    ASSUME TypeOK, ReadFails
    PROVE  OnItsWay = OnItsWay' \o line /\ LineOpen' /\ line \in Seq(Char)
  <1>1. line \in Seq(Char)
    BY DEF TypeOK
  <1>2. /\ unread = <<>> /\ wire = <<>> /\ conn = "reset" /\ line' = <<>>
        /\ UNCHANGED <<asked, rest, wire, conn, unread, pieces>>
    BY DEF ReadFails
  <1>3. OnItsWay' = <<>> /\ OnItsWay = line
    <2>1. line \o <<>> = line /\ <<>> \o <<>> = <<>>
      <3>1. line \o <<>> = line
        BY <1>1, ConcatEmptySeq
      <3>2. <<>> \in Seq(Char)
        OBVIOUS
      <3>3. <<>> \o <<>> = <<>>
        BY <3>2, ConcatEmptySeq
      <3> QED BY <3>1, <3>3
    <2>2. OnItsWay = line \o <<>> \o <<>> \o <<>> /\ OnItsWay' = <<>> \o <<>> \o <<>> \o <<>>
      BY <1>2 DEF OnItsWay, Rest
    <2> QED BY <2>1, <2>2
  <1>4. OnItsWay = OnItsWay' \o line
    <2>1. <<>> \o line = line
      BY <1>1, ConcatEmptySeq
    <2> QED BY <2>1, <1>3
  <1>5. LineOpen'
    <2>1. 1..Len(line') = {}
      BY <1>2
    <2> QED BY <2>1 DEF LineOpen
  <1> QED BY <1>1, <1>4, <1>5

LEMMA FlowClose ==
    ASSUME TypeOK, Close
    PROVE  OnItsWay = OnItsWay' \o rest /\ rest \in Seq(Char)
  <1>1. rest \in Seq(Char) /\ line \o unread \o wire \in Seq(Char)
    BY OnItsWayTypes DEF TypeOK
  <1>2. conn = "open" /\ conn' = "closed" /\ UNCHANGED <<wire, unread, line>>
    BY DEF Close
  <1>3. OnItsWay' = line \o unread \o wire \o <<>>
    BY <1>2 DEF OnItsWay, Rest
  <1>4. OnItsWay' = line \o unread \o wire
    BY <1>1, <1>3, ConcatEmptySeq
  <1> QED BY <1>1, <1>2, <1>4 DEF OnItsWay, Rest

LEMMA FlowReset ==
    ASSUME TypeOK, TypeOK', Reset
    PROVE  \E lost \in Seq(Char) : OnItsWay = OnItsWay' \o lost
  <1>1. /\ Rest \in Seq(Char) /\ line \o unread \o wire \in Seq(Char)
        /\ line \in Seq(Char) /\ unread \in Seq(Char) /\ wire \in Seq(Char)
    BY OnItsWayTypes DEF TypeOK
  <1>2. /\ conn' = "reset"
        /\ wire' = wire \/ wire' = <<>>
        /\ UNCHANGED <<unread, line>>
    BY DEF Reset
  <1>3. OnItsWay' = line \o unread \o wire' /\ OnItsWay = line \o unread \o wire \o Rest
    <2>1. OnItsWay' = line \o unread \o wire' \o <<>>
      BY <1>2 DEF OnItsWay, Rest
    <2>2. line \o unread \o wire' \in Seq(Char)
      <3>1. wire' \in Seq(Char)
        BY DEF TypeOK
      <3> QED BY <3>1, <1>1
    <2>3. OnItsWay' = line \o unread \o wire'
      BY <2>1, <2>2, ConcatEmptySeq
    <2> QED BY <2>3 DEF OnItsWay
  <1>4. CASE wire' = wire
    BY <1>1, <1>3, <1>4
  <1>5. CASE wire' = <<>>
    <2> DEFINE x == line \o unread
               lost == wire \o Rest
    <2>1. x \in Seq(Char) /\ lost \in Seq(Char)
      BY <1>1
    <2>2. OnItsWay' = x \o <<>>
      BY <1>3, <1>5
    <2>3. OnItsWay' = x
      BY <2>1, <2>2, ConcatEmptySeq
    <2>4. (x \o wire) \o Rest = x \o (wire \o Rest)
      BY SMTT(20), <2>1, <1>1, ConcatAssociative
    <2>5. OnItsWay = OnItsWay' \o lost
      BY <2>3, <2>4, <1>3
    <2> HIDE DEF lost
    <2> QED BY <2>1, <2>5
  <1> QED BY <1>2, <1>4, <1>5

-----------------------------------------------------------------------------
(* Plain messages arrive *)

\* The lines asked for begin at cuts of the stream of characters.
Cuts(c, lines) ==
    /\ c \in [0..Len(lines) -> Nat]
    /\ \A i \in 1..Len(lines) : c[i] = c[i - 1] + Len(Encode(lines[i]))
    /\ \A i, j \in 0..Len(lines) : i <= j => c[i] <= c[j]

\* The lines from the n-th on are what a sequence of characters begins with.
Spells(text, c, lines, n) ==
    \A i \in (n + 1)..Len(lines) : \A j \in 1..Len(Encode(lines[i])) :
        c[i - 1] - c[n] + j <= Len(text) => text[c[i - 1] - c[n] + j] = Encode(lines[i])[j]

\* Of some lines the first ones were heard, and the others are on their way, all
\* of them or, when some were lost, the first ones.
Ordered(lines, heard, text, all) ==
    /\ Len(heard) <= Len(lines)
    /\ \A i \in 1..Len(heard) : heard[i] = Encode(lines[i])
    /\ \E c : /\ Cuts(c, lines)
              /\ Spells(text, c, lines, Len(heard))
              /\ Len(text) <= c[Len(lines)] - c[Len(heard)]
              /\ all => Len(text) = c[Len(lines)] - c[Len(heard)]

\* A line of which the end was lost is the last one heard.
CutShort(lines, heard) ==
    /\ Len(heard) \in 1..(Len(lines) + 1)
    /\ heard[Len(heard)][Len(heard[Len(heard)])] # Newline
    /\ \A i \in 1..(Len(heard) - 1) : heard[i] = Encode(lines[i])

AllPlain == \A i \in 1..Len(asked) : Plain(asked[i])

ArriveInv ==
    /\ TypeOK
    /\ LineOpen
    /\ AllPlain =>
          \/ Ordered(asked, pieces, OnItsWay, conn = "open")
          \/ /\ conn # "open" /\ line = <<>> /\ unread = <<>> /\ wire = <<>>
             /\ CutShort(asked, pieces)

-----------------------------------------------------------------------------
\* Characters at the end may be lost.
LEMMA OrderKept ==
    ASSUME NEW a \in Seq(Messages), NEW p, Len(p) \in Nat, NEW t \in Seq(Char), NEW all \in BOOLEAN,
           Ordered(a, p, t, all),
           NEW u \in Seq(Char), Len(u) <= Len(t), \A j \in 1..Len(u) : u[j] = t[j],
           NEW still \in BOOLEAN, still => all /\ Len(u) = Len(t)
    PROVE  Ordered(a, p, u, still)
  <1>1. PICK c : /\ Cuts(c, a) /\ Spells(t, c, a, Len(p))
                 /\ Len(t) <= c[Len(a)] - c[Len(p)]
                 /\ all => Len(t) = c[Len(a)] - c[Len(p)]
    BY DEF Ordered
  <1>2. /\ Len(p) <= Len(a) /\ Len(p) \in 0..Len(a) /\ Len(a) \in 0..Len(a) /\ Len(a) \in Nat
        /\ \A i \in 1..Len(p) : p[i] = Encode(a[i])
    <2>1. Len(p) <= Len(a) /\ \A i \in 1..Len(p) : p[i] = Encode(a[i])
      BY DEF Ordered
    <2>2. Len(a) \in Nat
      BY LenProperties
    <2> QED BY <2>1, <2>2
  <1>3. /\ \A i \in 0..Len(a) : c[i] \in Nat
        /\ \A i, j \in 0..Len(a) : i <= j => c[i] <= c[j]
    BY <1>1 DEF Cuts
  <1>4. Len(u) \in Nat /\ Len(t) \in Nat
    BY LenProperties
  <1>5. Spells(u, c, a, Len(p))
    <2>1. SUFFICES ASSUME NEW i \in (Len(p) + 1)..Len(a), NEW j \in 1..Len(Encode(a[i])),
                          c[i - 1] - c[Len(p)] + j <= Len(u)
                   PROVE  u[c[i - 1] - c[Len(p)] + j] = Encode(a[i])[j]
      BY DEF Spells
    <2> DEFINE at == c[i - 1] - c[Len(p)] + j
    <2>2. i - 1 \in 0..Len(a) /\ Len(p) <= i - 1
      BY <1>2
    <2>3. c[i - 1] \in Nat /\ c[Len(p)] \in Nat /\ c[Len(p)] <= c[i - 1] /\ j \in Nat \ {0}
      BY <2>2, <1>2, <1>3
    <2>4. at \in 1..Len(u) /\ at <= Len(t)
      BY SMTT(20), <2>1, <2>3, <1>4
    <2>5. t[at] = Encode(a[i])[j]
      BY <2>4, <1>1 DEF Spells
    <2> HIDE DEF at
    <2> QED BY <2>4, <2>5 DEF at
  <1>6. /\ Len(u) <= c[Len(a)] - c[Len(p)]
        /\ still => Len(u) = c[Len(a)] - c[Len(p)]
    <2>1. c[Len(a)] - c[Len(p)] \in Int
      BY <1>2, <1>3
    <2> QED BY <2>1, <1>1, <1>4
  <1> QED BY <1>1, <1>2, <1>5, <1>6 DEF Ordered

\* A line more is asked for.
LEMMA OrderGrows ==
    ASSUME NEW a \in Seq(Messages), NEW m \in Messages,
           NEW p, Len(p) \in Nat, NEW t \in Seq(Char), NEW all \in BOOLEAN,
           Ordered(a, p, t, all),
           NEW u, u = IF all THEN t \o Encode(m) ELSE t
    PROVE  Ordered(Append(a, m), p, u, all)
  <1> DEFINE b == Append(a, m)
             e == Encode(m)
             n == Len(a) + 1
  <1>1. PICK c : /\ Cuts(c, a) /\ Spells(t, c, a, Len(p))
                 /\ Len(t) <= c[Len(a)] - c[Len(p)]
                 /\ all => Len(t) = c[Len(a)] - c[Len(p)]
    BY DEF Ordered
  <1>2. /\ Len(p) <= Len(a) /\ Len(p) \in 0..Len(a) /\ Len(a) \in 0..Len(a) /\ Len(a) \in Nat
        /\ \A i \in 1..Len(p) : p[i] = Encode(a[i])
    <2>1. Len(p) <= Len(a) /\ \A i \in 1..Len(p) : p[i] = Encode(a[i])
      BY DEF Ordered
    <2>2. Len(a) \in Nat
      BY LenProperties
    <2> QED BY <2>1, <2>2
  <1>3. /\ \A i \in 0..Len(a) : c[i] \in Nat
        /\ \A i, j \in 0..Len(a) : i <= j => c[i] <= c[j]
        /\ \A i \in 1..Len(a) : c[i] = c[i - 1] + Len(Encode(a[i]))
    BY <1>1 DEF Cuts
  <1>4. e \in Seq(Char) /\ Len(e) \in Nat /\ Len(t) \in Nat
    BY Encoded, LenProperties
  <1>5. b \in Seq(Messages) /\ Len(b) = n /\ b[n] = m /\ \A i \in 1..Len(a) : b[i] = a[i]
    BY AppendProperties
  <1> HIDE DEF e, b
  <1> DEFINE d == [i \in 0..n |-> IF i = n THEN c[Len(a)] + Len(e) ELSE c[i]]
  <1>6. /\ d[n] = c[Len(a)] + Len(e) /\ \A i \in 0..Len(a) : d[i] = c[i]
        /\ d \in [0..n -> Nat]
    BY SMTT(20), <1>2, <1>3, <1>4
  <1> HIDE DEF d
  <1>7. Cuts(d, b)
    <2>1. ASSUME NEW i \in 1..n PROVE d[i] = d[i - 1] + Len(Encode(b[i]))
      <3>1. CASE i = n
        <4>1. i - 1 = Len(a) /\ d[i - 1] = c[Len(a)]
          BY <3>1, <1>2, <1>6
        <4> QED BY <3>1, <4>1, <1>5, <1>6 DEF e
      <3>2. CASE i # n
        <4>1. i \in 1..Len(a) /\ i \in 0..Len(a) /\ i - 1 \in 0..Len(a)
          BY <3>2, <1>2
        <4> QED BY <4>1, <1>3, <1>5, <1>6
      <3> QED BY <3>1, <3>2
    <2>2. ASSUME NEW i \in 0..n, NEW j \in 0..n, i <= j PROVE d[i] <= d[j]
      <3>1. CASE j \in 0..Len(a)
        <4>1. i \in 0..Len(a)
          BY <3>1, <2>2
        <4> QED BY <3>1, <4>1, <2>2, <1>3, <1>6
      <3>2. CASE j = n /\ i \in 0..Len(a)
        <4>1. c[i] <= c[Len(a)] /\ c[i] \in Nat /\ c[Len(a)] \in Nat
          BY <3>2, <1>2, <1>3
        <4> QED BY <4>1, <3>2, <1>4, <1>6
      <3>3. CASE i = n /\ j = n
        BY SMTT(20), <3>3, <1>6
      <3> QED BY <3>1, <3>2, <3>3, <2>2, <1>2
    <2> QED BY <2>1, <2>2, <1>5, <1>6 DEF Cuts
  <1>8. u \in Seq(Char) /\ Len(u) \in Nat /\ Len(u) = (IF all THEN Len(t) + Len(e) ELSE Len(t))
        /\ (\A j \in 1..Len(t) : u[j] = t[j])
        /\ (all => \A j \in 1..Len(e) : u[Len(t) + j] = e[j])
    <2>1. CASE all
      <3>1. u = t \o e
        BY <2>1 DEF e
      <3>2. u \in Seq(Char) /\ Len(u) = Len(t) + Len(e) /\ Len(u) \in Nat
        <4>1. \A x, y \in Seq(Char) : /\ x \o y \in Seq(Char) /\ Len(x \o y) = Len(x) + Len(y)
                                      /\ Len(x \o y) \in Nat
          OBVIOUS
        <4> QED BY <4>1, <3>1, <1>4
      <3>3. \A j \in 1..Len(t) : u[j] = t[j]
        <4>1. \A x, y \in Seq(Char) : \A j \in 1..Len(x) : (x \o y)[j] = x[j]
          OBVIOUS
        <4> QED BY <4>1, <3>1, <1>4
      <3>4. \A j \in 1..Len(e) : u[Len(t) + j] = e[j]
        <4>1. \A x, y \in Seq(Char) : \A j \in 1..Len(y) : (x \o y)[Len(x) + j] = y[j]
          OBVIOUS
        <4> QED BY <4>1, <3>1, <1>4
      <3> QED BY <2>1, <3>2, <3>3, <3>4
    <2>2. CASE ~all
      BY <2>2, <1>4
    <2> QED BY <2>1, <2>2
  <1>9. Spells(u, d, b, Len(p))
    <2>1. SUFFICES ASSUME NEW i \in (Len(p) + 1)..n, NEW j \in 1..Len(Encode(b[i])),
                          d[i - 1] - d[Len(p)] + j <= Len(u)
                   PROVE  u[d[i - 1] - d[Len(p)] + j] = Encode(b[i])[j]
      BY <1>5 DEF Spells
    <2> DEFINE at == c[i - 1] - c[Len(p)] + j
    <2>2. i - 1 \in 0..Len(a) /\ Len(p) <= i - 1 /\ i \in Nat
      BY <1>2
    <2>3. /\ c[i - 1] \in Nat /\ c[Len(p)] \in Nat /\ c[Len(p)] <= c[i - 1] /\ j \in Nat \ {0}
          /\ d[i - 1] = c[i - 1] /\ d[Len(p)] = c[Len(p)]
      BY <2>2, <1>2, <1>3, <1>6
    <2>4. CASE i # n
      <3>1. i \in 1..Len(a) /\ b[i] = a[i] /\ i \in (Len(p) + 1)..Len(a)
        BY <2>2, <2>4, <1>2, <1>5
      <3>2. c[i] = c[i - 1] + Len(Encode(a[i])) /\ c[i] <= c[Len(a)] /\ j <= Len(Encode(a[i]))
            /\ c[i] \in Nat /\ c[Len(a)] \in Nat /\ Len(Encode(a[i])) \in Nat
        <4>1. a[i] \in Messages /\ i \in 0..Len(a) /\ i <= Len(a) /\ i - 1 \in 0..Len(a)
          BY <3>1, <1>2, ElementOfSeq
        <4>2. Encode(a[i]) \in Seq(Char) /\ Len(Encode(a[i])) \in Nat
          BY <4>1, Encoded, LenProperties
        <4> QED BY <3>1, <4>1, <4>2, <1>2, <1>3
      <3>3. at <= Len(t)
        <4>1. CASE all
          <5>1. Len(t) = c[Len(a)] - c[Len(p)]
            BY <4>1, <1>1
          <5>2. \A w, x, y, z, l \in Nat : w + l <= z /\ j <= l => w - x + j <= z - x
            BY <2>3
          <5> QED BY <5>1, <5>2, <2>3, <3>2
        <4>2. CASE ~all
          BY <4>2, <1>8, <2>1, <2>3
        <4> QED BY <4>1, <4>2
      <3>4. at \in 1..Len(t) /\ t[at] = Encode(a[i])[j]
        <4>1. at \in 1..Len(t)
          BY SMTT(20), <3>3, <2>3, <1>4
        <4>2. j \in 1..Len(Encode(a[i]))
          BY <3>1
        <4> QED BY <3>1, <3>3, <4>1, <4>2, <1>1 DEF Spells
      <3>5. u[at] = t[at]
        BY <3>4, <1>8
      <3> HIDE DEF at
      <3> QED BY <3>1, <3>4, <3>5, <2>3 DEF at
    <2>5. CASE i = n
      <3>1. b[i] = m /\ i - 1 = Len(a) /\ j \in 1..Len(e)
        BY <2>5, <1>2, <1>5 DEF e
      <3>2. CASE all
        <4>1. at = Len(t) + j
          BY <3>1, <3>2, <1>1
        <4>2. u[Len(t) + j] = e[j]
          BY <3>1, <3>2, <1>8
        <4> HIDE DEF at
        <4> QED BY <3>1, <4>1, <4>2, <2>3 DEF at, e
      <3>3. CASE ~all
        <4>1. Len(u) <= c[i - 1] - c[Len(p)]
          BY <3>1, <3>3, <1>1, <1>8
        <4>2. FALSE
          BY SMTT(20), <4>1, <2>1, <2>3, <1>8
        <4> QED BY <4>2
      <3> QED BY <3>2, <3>3
    <2> QED BY <2>4, <2>5
  <1>10. /\ Len(u) <= d[n] - d[Len(p)]
         /\ all => Len(u) = d[n] - d[Len(p)]
    <2>1. /\ d[n] = c[Len(a)] + Len(e) /\ d[Len(p)] = c[Len(p)]
          /\ c[Len(a)] \in Nat /\ c[Len(p)] \in Nat
      BY <1>2, <1>3, <1>6
    <2>2. CASE all
      <3>1. Len(t) = c[Len(a)] - c[Len(p)] /\ Len(u) = Len(t) + Len(e)
        BY <2>2, <1>1, <1>8
      <3>2. \A x, y, z \in Nat : (x - y) + z = (x + z) - y
        OBVIOUS
      <3>3. Len(u) = d[n] - d[Len(p)]
        BY <3>1, <3>2, <2>1, <1>4
      <3> QED BY <3>3, <2>1, <1>4, <1>8
    <2>3. CASE ~all
      <3>1. Len(u) <= c[Len(a)] - c[Len(p)]
        BY <2>3, <1>1, <1>8
      <3>2. \A x, y, z, l \in Nat : l <= x - y => l <= (x + z) - y
        OBVIOUS
      <3>3. Len(u) <= d[n] - d[Len(p)]
        BY <3>1, <3>2, <2>1, <1>4, <1>8
      <3> QED BY <2>3, <3>3
    <2> QED BY <2>2, <2>3
  <1>11. \A i \in 1..Len(p) : p[i] = Encode(b[i])
    <2>1. \A i \in 1..Len(p) : i \in 1..Len(a)
      BY <1>2
    <2> QED BY <2>1, <1>2, <1>5
  <1>12. Len(p) <= Len(b)
    BY <1>2, <1>5
  <1> QED BY <1>5, <1>7, <1>9, <1>10, <1>11, <1>12 DEF Ordered, b

\* A piece that ends with the first newline, or where the buffer is full, is the
\* next line, if the lines are plain.
LEMMA OrderHears ==
    ASSUME NEW a \in Seq(Messages), \A i \in 1..Len(a) : Plain(a[i]),
           NEW p \in Seq(Seq(Char)), NEW t \in Seq(Char), NEW all \in BOOLEAN,
           Ordered(a, p, t, all),
           NEW l \in 1..Len(t), l <= BufLen - 1,
           t[l] = Newline \/ l = BufLen - 1,
           \A j \in 1..Len(t) : j < l => t[j] # Newline
    PROVE  Ordered(a, Append(p, SubSeq(t, 1, l)), SubSeq(t, l + 1, Len(t)), all)
  <1> DEFINE n == Len(p) + 1
             e == Encode(a[n])
             r == SubSeq(t, 1, l)
             u == SubSeq(t, l + 1, Len(t))
             q == Append(p, r)
  <1>1. PICK c : /\ Cuts(c, a) /\ Spells(t, c, a, Len(p))
                 /\ Len(t) <= c[Len(a)] - c[Len(p)]
                 /\ all => Len(t) = c[Len(a)] - c[Len(p)]
    BY DEF Ordered
  <1>2. /\ Len(p) <= Len(a) /\ Len(p) \in Nat /\ Len(p) \in 0..Len(a)
        /\ Len(a) \in 0..Len(a) /\ Len(a) \in Nat
        /\ \A i \in 1..Len(p) : p[i] = Encode(a[i])
    <2>1. Len(p) <= Len(a) /\ \A i \in 1..Len(p) : p[i] = Encode(a[i])
      BY DEF Ordered
    <2>2. Len(a) \in Nat /\ Len(p) \in Nat
      BY LenProperties
    <2> QED BY <2>1, <2>2
  <1>3. /\ \A i \in 0..Len(a) : c[i] \in Nat
        /\ \A i, j \in 0..Len(a) : i <= j => c[i] <= c[j]
        /\ \A i \in 1..Len(a) : c[i] = c[i - 1] + Len(Encode(a[i]))
    BY <1>1 DEF Cuts
  <1>4. Len(t) \in Nat /\ l \in Nat \ {0} /\ l \in 0..Len(t) /\ l <= Len(t)
    BY LenProperties
  <1>5. n \in 1..Len(a) /\ n - 1 = Len(p) /\ n \in 0..Len(a)
    <2>1. Len(p) # Len(a)
      <3>1. SUFFICES ASSUME Len(p) = Len(a) PROVE FALSE
        OBVIOUS
      <3>2. Len(t) <= 0
        BY <3>1, <1>1, <1>2, <1>3
      <3> QED BY <3>2, <1>4
    <2> QED BY <2>1, <1>2
  <1>6. /\ a[n] \in Messages /\ Plain(a[n])
        /\ e \in Seq(Char) /\ Len(e) \in Nat /\ Len(e) \in 2..(BufLen - 1)
        /\ \A i \in 1..Len(e) : e[i] = Newline <=> i = Len(e)
    <2>1. a[n] \in Messages /\ Plain(a[n])
      BY <1>5, ElementOfSeq
    <2>2. e \in Seq(Char)
      BY <2>1, Encoded
    <2> QED BY <2>1, <2>2, PlainLine, LenProperties
  <1>7. c[n] = c[Len(p)] + Len(e) /\ c[Len(p)] \in Nat /\ c[n] \in Nat
    BY <1>2, <1>3, <1>5
  <1>8. \A j \in 1..Len(e) : j <= Len(t) => t[j] = e[j]
    <2>1. ASSUME NEW j \in 1..Len(e), j <= Len(t) PROVE t[j] = e[j]
      <3>1. c[n - 1] - c[Len(p)] + j = j
        BY <1>5, <1>7
      <3>2. n \in (Len(p) + 1)..Len(a)
        BY <1>2, <1>5
      <3> QED BY <3>1, <3>2, <2>1, <1>1 DEF Spells
    <2> QED BY <2>1
  <1> HIDE DEF e, n
  <1>9. l = Len(e)
    <2>1. Len(e) \in 1..Len(e) /\ e[Len(e)] = Newline
      BY <1>6
    <2>2. ~(Len(e) < l)
      <3>1. SUFFICES ASSUME Len(e) < l PROVE FALSE
        OBVIOUS
      <3>2. Len(e) \in 1..Len(t) /\ Len(e) <= Len(t)
        BY <3>1, <1>4, <1>6
      <3> QED BY <3>1, <3>2, <2>1, <1>8
    <2>3. ~(l < Len(e))
      <3>1. SUFFICES ASSUME l < Len(e) PROVE FALSE
        OBVIOUS
      <3>2. l \in 1..Len(e) /\ l # Len(e)
        BY <3>1, <1>4, <1>6
      <3>3. t[l] = e[l] /\ e[l] # Newline
        BY <3>2, <1>4, <1>6, <1>8
      <3>4. l # BufLen - 1
        BY <3>1, <1>4, <1>6, SizesAssumption
      <3> QED BY <3>3, <3>4
    <2> QED BY <2>2, <2>3, <1>4, <1>6
  <1>10. /\ r \in Seq(Char) /\ Len(r) = l /\ \A i \in 1..l : r[i] = t[i]
         /\ u \in Seq(Char) /\ Len(u) = Len(t) - l
         /\ \A i \in 1..(Len(t) - l) : u[i] = t[l + i]
    BY <1>4, Slices
  <1> HIDE DEF r, u
  <1>11. r = e
    <2>1. \A i \in 1..Len(e) : i <= Len(t)
      BY <1>4, <1>6, <1>9
    <2>2. \A i \in 1..Len(r) : r[i] = e[i]
      BY <2>1, <1>8, <1>9, <1>10
    <2> QED BY <2>2, <1>6, <1>9, <1>10, SeqEqual
  <1>12. Len(q) = n /\ q[n] = r /\ \A i \in 1..Len(p) : q[i] = p[i]
    BY <1>10, AppendProperties DEF n
  <1> HIDE DEF q
  <1>13. \A i \in 1..n : q[i] = Encode(a[i])
    <2>1. ASSUME NEW i \in 1..n PROVE q[i] = Encode(a[i])
      <3>1. CASE i = n
        BY <3>1, <1>11, <1>12 DEF e
      <3>2. CASE i # n
        <4>1. i \in 1..Len(p)
          BY <3>2, <1>2, <1>5
        <4> QED BY <4>1, <1>2, <1>12
      <3> QED BY <3>1, <3>2
    <2> QED BY <2>1
  <1>14. Spells(u, c, a, n)
    <2>1. SUFFICES ASSUME NEW i \in (n + 1)..Len(a), NEW j \in 1..Len(Encode(a[i])),
                          c[i - 1] - c[n] + j <= Len(u)
                   PROVE  u[c[i - 1] - c[n] + j] = Encode(a[i])[j]
      BY DEF Spells
    <2> DEFINE at == c[i - 1] - c[n] + j
    <2>2. i - 1 \in 0..Len(a) /\ n <= i - 1 /\ i \in (Len(p) + 1)..Len(a) /\ n \in Nat
      BY <1>2, <1>5
    <2>3. c[i - 1] \in Nat /\ c[n] <= c[i - 1] /\ j \in Nat \ {0}
      BY SMTT(20), <2>2, <1>3, <1>5
    <2>4. at \in 1..(Len(t) - l)
      <3>1. \A x, y, k, z \in Nat : k # 0 /\ y <= x /\ x - y + k <= z => x - y + k \in 1..z
        OBVIOUS
      <3>2. Len(t) - l \in Nat /\ at <= Len(t) - l
        BY <2>1, <1>4, <1>10
      <3> QED BY <3>1, <3>2, <2>3, <1>7
    <2>5. u[at] = t[l + at]
      BY <2>4, <1>10
    <2>6. l + at = c[i - 1] - c[Len(p)] + j /\ l + at <= Len(t)
      <3>1. c[n] = c[Len(p)] + l
        BY <1>7, <1>9
      <3>2. l + at = c[i - 1] - c[Len(p)] + j
        <4>1. \A x, y, k, z \in Nat : k + (x - (y + k) + z) = x - y + z
          OBVIOUS
        <4>2. l + at = l + (c[i - 1] - (c[Len(p)] + l) + j)
          BY <3>1
        <4> HIDE DEF at
        <4> QED BY SMTT(20), <4>1, <4>2, <2>3, <1>4, <1>7
      <3>3. at \in Int /\ at <= Len(t) - l
        BY <2>4, <1>4
      <3> HIDE DEF at
      <3>4. l + at <= Len(t)
        BY <3>3, <1>4
      <3> QED BY <3>2, <3>4 DEF at
    <2>7. t[l + at] = Encode(a[i])[j]
      <3>1. c[i - 1] - c[Len(p)] + j <= Len(t)
        BY <2>6
      <3>2. t[c[i - 1] - c[Len(p)] + j] = Encode(a[i])[j]
        BY <3>1, <2>2, <1>1 DEF Spells
      <3> QED BY <3>2, <2>6
    <2> QED BY <2>5, <2>7
  <1>15. /\ Len(u) <= c[Len(a)] - c[n]
         /\ all => Len(u) = c[Len(a)] - c[n]
    <2>1. c[Len(a)] \in Nat /\ c[n] = c[Len(p)] + l
      BY <1>2, <1>3, <1>7, <1>9
    <2>2. \A x, y, k, z \in Nat : /\ z <= x - y => z - k <= x - (y + k)
                                  /\ z = x - y => z - k = x - (y + k)
      OBVIOUS
    <2>3. Len(t) <= c[Len(a)] - c[Len(p)] => Len(u) <= c[Len(a)] - c[n]
      BY SMTT(20), <2>1, <2>2, <1>4, <1>7, <1>10
    <2>4. Len(t) = c[Len(a)] - c[Len(p)] => Len(u) = c[Len(a)] - c[n]
      BY <2>1, <2>2, <1>4, <1>7, <1>10
    <2> QED BY <2>3, <2>4, <1>1
  <1>16. Len(q) <= Len(a)
    BY <1>5, <1>12
  <1>17. Ordered(a, q, u, all)
    BY <1>1, <1>12, <1>13, <1>14, <1>15, <1>16 DEF Ordered
  <1> QED BY <1>17 DEF q, u, r

-----------------------------------------------------------------------------
(* One lemma for each step                                                   *)

\* A step of which the receiver and the program that sends know nothing.
LEMMA ArriveMoved ==
    ASSUME ArriveInv, TypeOK', UNCHANGED <<asked, pieces>>,
           OnItsWay' = OnItsWay, conn' = conn,
           LineOpen',
           ~(line = <<>> /\ unread = <<>> /\ wire = <<>>) \/ UNCHANGED <<line, unread, wire>>
    PROVE  ArriveInv'
  <1>1. AllPlain' <=> AllPlain
    BY DEF AllPlain
  <1> QED BY <1>1 DEF ArriveInv

\* A step that ends the connection and may lose characters.
LEMMA ArriveLost ==
    ASSUME ArriveInv, TypeOK', UNCHANGED <<asked, pieces>>, conn' # "open",
           NEW lost \in Seq(Char), OnItsWay = OnItsWay' \o lost,
           LineOpen',
           line = <<>> /\ unread = <<>> /\ wire = <<>> =>
               line' = <<>> /\ unread' = <<>> /\ wire' = <<>>
    PROVE  ArriveInv'
  <1>1. AllPlain' <=> AllPlain
    BY DEF AllPlain
  <1>2. TypeOK
    BY DEF ArriveInv
  <1>3. CASE AllPlain /\ Ordered(asked, pieces, OnItsWay, conn = "open")
    <2>1. OnItsWay' \in Seq(Char) /\ OnItsWay \in Seq(Char)
      BY <1>2, OnItsWayTypes, OnItsWayTypesNext
    <2>2. /\ Len(OnItsWay') <= Len(OnItsWay)
          /\ \A j \in 1..Len(OnItsWay') : OnItsWay[j] = OnItsWay'[j]
      BY <2>1, Begins
    <2>3. asked \in Seq(Messages) /\ Len(pieces) \in Nat
      BY <1>2, LenProperties DEF TypeOK
    <2>4. Ordered(asked, pieces, OnItsWay', FALSE)
      BY <2>1, <2>2, <2>3, <1>3, OrderKept
    <2>5. Ordered(asked', pieces', OnItsWay', conn' = "open")
      <3>1. (conn' = "open") = FALSE
        OBVIOUS
      <3> QED BY <3>1, <2>4
    <2> QED BY <2>5 DEF ArriveInv
  <1>4. CASE AllPlain /\ ~Ordered(asked, pieces, OnItsWay, conn = "open")
    BY <1>4 DEF ArriveInv
  <1>5. CASE ~AllPlain
    BY <1>5, <1>1 DEF ArriveInv
  <1> QED BY <1>3, <1>4, <1>5

LEMMA ArriveSend ==
    ASSUME ArriveInv, TypeOK', NEW msg \in Messages, Send(msg) PROVE ArriveInv'
  <1>1. TypeOK /\ asked \in Seq(Messages) /\ Len(pieces) \in Nat /\ Len(asked) \in Nat
    BY LenProperties DEF ArriveInv, TypeOK
  <1>2. asked' = Append(asked, msg) /\ UNCHANGED <<wire, conn, unread, line, pieces>>
    BY DEF Send
  <1>3. /\ Len(asked') = Len(asked) + 1
        /\ \A i \in 1..Len(asked) : asked'[i] = asked[i]
    BY <1>1, <1>2, AppendProperties
  <1>4. AllPlain' => AllPlain
    <2>1. \A i \in 1..Len(asked) : i \in 1..Len(asked')
      BY <1>1, <1>3
    <2> QED BY <2>1, <1>3 DEF AllPlain
  <1>8. LineOpen'
    BY <1>2 DEF ArriveInv, LineOpen
  <1>5. CASE AllPlain /\ Ordered(asked, pieces, OnItsWay, conn = "open")
    <2>1. OnItsWay' = IF conn = "open" THEN OnItsWay \o Encode(msg) ELSE OnItsWay
      BY <1>1, FlowSend
    <2>2. OnItsWay \in Seq(Char)
      BY <1>1, OnItsWayTypes
    <2>3. Ordered(Append(asked, msg), pieces, OnItsWay', conn = "open")
      <3>1. CASE conn = "open"
        <4>1. (conn = "open") = TRUE
          BY <3>1
        <4>2. OnItsWay' = IF TRUE THEN OnItsWay \o Encode(msg) ELSE OnItsWay
          BY <3>1, <2>1
        <4>3. Ordered(asked, pieces, OnItsWay, TRUE)
          BY <4>1, <1>5
        <4>4. Ordered(Append(asked, msg), pieces, OnItsWay', TRUE)
          BY <4>2, <4>3, <2>2, <1>1, OrderGrows
        <4> QED BY <4>1, <4>4
      <3>2. CASE conn # "open"
        <4>1. (conn = "open") = FALSE
          BY <3>2
        <4>2. OnItsWay' = IF FALSE THEN OnItsWay \o Encode(msg) ELSE OnItsWay
          BY <3>2, <2>1
        <4>3. Ordered(asked, pieces, OnItsWay, FALSE)
          BY <4>1, <1>5
        <4>4. Ordered(Append(asked, msg), pieces, OnItsWay', FALSE)
          BY <4>2, <4>3, <2>2, <1>1, OrderGrows
        <4> QED BY <4>1, <4>4
      <3> QED BY <3>1, <3>2
    <2>4. Ordered(asked', pieces', OnItsWay', conn' = "open")
      BY <2>3, <1>2
    <2> QED BY <2>4, <1>8 DEF ArriveInv
  <1>6. CASE AllPlain /\ ~Ordered(asked, pieces, OnItsWay, conn = "open")
    <2>1. /\ conn # "open" /\ line = <<>> /\ unread = <<>> /\ wire = <<>>
          /\ CutShort(asked, pieces)
      BY <1>6 DEF ArriveInv
    <2>2. CutShort(asked', pieces')
      <3>1. /\ Len(pieces) \in 1..(Len(asked) + 1)
            /\ pieces[Len(pieces)][Len(pieces[Len(pieces)])] # Newline
            /\ \A i \in 1..(Len(pieces) - 1) : pieces[i] = Encode(asked[i])
        BY <2>1 DEF CutShort
      <3>2. \A i \in 1..(Len(pieces) - 1) : i \in 1..Len(asked)
        BY <3>1, <1>1
      <3>3. Len(pieces) \in 1..(Len(asked') + 1)
        BY <3>1, <1>1, <1>3
      <3> QED BY <3>1, <3>2, <3>3, <1>2, <1>3 DEF CutShort
    <2> QED BY <2>1, <2>2, <1>2, <1>8 DEF ArriveInv
  <1>7. CASE ~AllPlain
    BY <1>4, <1>7, <1>8 DEF ArriveInv
  <1> QED BY <1>5, <1>6, <1>7

LEMMA ArriveWrite ==
    ASSUME ArriveInv, TypeOK', NEW k \in 1..Len(rest), Write(k) PROVE ArriveInv'
  <1>1. TypeOK /\ LineOpen
    BY DEF ArriveInv
  <1>2. conn = "open" /\ conn' = conn /\ UNCHANGED <<asked, unread, line, pieces>>
    BY DEF Write
  <1>3. OnItsWay' = OnItsWay /\ LineOpen'
    BY <1>1, <1>2, FlowWrite DEF LineOpen
  <1>4. CASE ~(line = <<>> /\ unread = <<>> /\ wire = <<>>)
    BY <1>1, <1>2, <1>3, <1>4, ArriveMoved
  <1>5. CASE line = <<>> /\ unread = <<>> /\ wire = <<>>
    <2>1. AllPlain' <=> AllPlain
      BY <1>2 DEF AllPlain
    <2> QED BY <2>1, <1>2, <1>3 DEF ArriveInv
  <1> QED BY <1>4, <1>5

LEMMA ArriveRefill ==
    ASSUME ArriveInv, TypeOK', NEW k \in 1..Len(wire), Refill(k) PROVE ArriveInv'
  <1>1. TypeOK /\ LineOpen /\ wire # <<>>
    BY EmptySeq DEF ArriveInv, TypeOK
  <1>2. UNCHANGED <<asked, rest, conn, line, pieces>>
    BY DEF Refill
  <1>3. OnItsWay' = OnItsWay /\ LineOpen'
    BY <1>1, <1>2, FlowRefill DEF LineOpen
  <1> QED BY <1>1, <1>2, <1>3, ArriveMoved

LEMMA ArriveConsume ==
    ASSUME ArriveInv, TypeOK', Consume PROVE ArriveInv'
  <1>1. /\ TypeOK /\ LineOpen /\ asked \in Seq(Messages)
        /\ pieces \in Seq(Seq(Char) \ {<<>>})
        /\ Len(asked) \in Nat /\ Len(pieces) \in Nat /\ BufLen \in Nat
    BY LenProperties, SizesAssumption DEF ArriveInv, TypeOK
  <1>2. unread # <<>> /\ UNCHANGED <<asked, rest, wire, conn>>
    BY DEF Consume
  <1>3. CASE LineOpen' /\ pieces' = pieces /\ OnItsWay' = OnItsWay
    BY <1>2, <1>3, ArriveMoved
  <1>4. ASSUME NEW read \in Seq(Char) \ {<<>>},
               line' = <<>>, pieces' = Append(pieces, read),
               OnItsWay = read \o OnItsWay', OnItsWay' \in Seq(Char),
               Len(read) <= BufLen - 1,
               read[Len(read)] = Newline \/ Len(read) = BufLen - 1,
               \A j \in 1..Len(read) : j < Len(read) => read[j] # Newline
        PROVE  ArriveInv'
    <2>1. LineOpen'
      <3>1. 1..Len(line') = {}
        BY <1>4
      <3> QED BY <3>1 DEF LineOpen
    <2>2. AllPlain' <=> AllPlain
      BY <1>2 DEF AllPlain
    <2>3. CASE AllPlain
      <3> DEFINE W == OnItsWay
                 l == Len(read)
                 after == OnItsWay'
      <3>1. Ordered(asked, pieces, W, conn = "open")
        BY <2>3, <1>2 DEF ArriveInv
      <3>2. SubSeq(W, 1, l) = read /\ SubSeq(W, l + 1, Len(W)) = after
        BY <1>4, Halves
      <3>3. l \in 1..Len(W) /\ Len(W) \in Nat /\ W \in Seq(Char)
        <4>1. \A a, b \in Seq(Char) : /\ Len(a \o b) = Len(a) + Len(b) /\ Len(b) \in Nat
                                      /\ a \o b \in Seq(Char)
          OBVIOUS
        <4>2. Len(W) = l + Len(after) /\ Len(after) \in Nat /\ W \in Seq(Char)
          BY <4>1, <1>4
        <4>3. l \in Nat \ {0}
          BY EmptySeq
        <4> QED BY <4>2, <4>3
      <3>4. \A j \in 1..l : W[j] = read[j]
        BY <1>4, Begins
      <3>5. l \in 1..l
        BY <3>3
      <3>6. W[l] = Newline \/ l = BufLen - 1
        BY <3>4, <3>5, <1>4
      <3>7. \A j \in 1..Len(W) : j < l => W[j] # Newline
        <4>1. \A j \in 1..Len(W) : j < l => j \in 1..l
          BY <3>3
        <4> QED BY <4>1, <3>4, <1>4
      <3>8. l <= BufLen - 1
        BY <1>4
      <3>9. pieces \in Seq(Seq(Char)) /\ \A i \in 1..Len(asked) : Plain(asked[i])
        <4>1. pieces \in Seq(Seq(Char))
          BY <1>1, SeqMonotonic
        <4> QED BY <4>1, <2>3 DEF AllPlain
      <3> HIDE DEF l, W, after
      <3>10. CASE conn = "open"
        <4>1. (conn = "open") = TRUE
          BY <3>10
        <4>2. Ordered(asked, pieces, W, TRUE)
          BY <4>1, <3>1
        <4>3. Ordered(asked, Append(pieces, SubSeq(W, 1, l)), SubSeq(W, l + 1, Len(W)), TRUE)
          BY <4>2, <3>3, <3>6, <3>7, <3>8, <3>9, <1>1, OrderHears
        <4>4. Ordered(asked, pieces', OnItsWay', TRUE)
          BY <4>3, <3>2, <1>4 DEF after
        <4> QED BY <4>1, <4>4, <2>1, <1>2 DEF ArriveInv
      <3>11. CASE conn # "open"
        <4>1. (conn = "open") = FALSE
          BY <3>11
        <4>2. Ordered(asked, pieces, W, FALSE)
          BY <4>1, <3>1
        <4>3. Ordered(asked, Append(pieces, SubSeq(W, 1, l)), SubSeq(W, l + 1, Len(W)), FALSE)
          BY <4>2, <3>3, <3>6, <3>7, <3>8, <3>9, <1>1, OrderHears
        <4>4. Ordered(asked, pieces', OnItsWay', FALSE)
          BY <4>3, <3>2, <1>4 DEF after
        <4> QED BY <4>1, <4>4, <2>1, <1>2 DEF ArriveInv
      <3> QED BY <3>10, <3>11
    <2>4. CASE ~AllPlain
      BY <2>1, <2>2, <2>4 DEF ArriveInv
    <2> QED BY <2>3, <2>4
  <1> QED BY <1>1, <1>3, <1>4, FlowConsume

LEMMA ArriveEndOfFile ==
    ASSUME ArriveInv, TypeOK', EndOfFile PROVE ArriveInv'
  <1>1. /\ TypeOK /\ LineOpen /\ line \in Seq(Char) /\ Len(line) \in Nat
        /\ asked \in Seq(Messages) /\ pieces \in Seq(Seq(Char) \ {<<>>})
        /\ Len(asked) \in Nat /\ Len(pieces) \in Nat
    BY LenProperties DEF ArriveInv, TypeOK
  <1>2. /\ unread = <<>> /\ wire = <<>> /\ conn = "closed"
        /\ UNCHANGED <<asked, rest, wire, conn, unread>>
    BY DEF EndOfFile
  <1>3. AllPlain' <=> AllPlain
    BY <1>2 DEF AllPlain
  <1>4. CASE line = <<>>
    <2>1. line' = line /\ pieces' = pieces /\ OnItsWay' = OnItsWay
      BY <1>1, <1>4, FlowEndOfFile
    <2>2. LineOpen'
      BY <2>1, <1>1 DEF LineOpen
    <2> QED BY <2>1, <2>2, <1>2, ArriveMoved
  <1>5. CASE line # <<>>
    <2>1. pieces' = Append(pieces, line) /\ line' = <<>>
      BY <1>1, <1>5, FlowEndOfFile
    <2>2. LineOpen'
      <3>1. 1..Len(line') = {}
        BY <2>1
      <3> QED BY <3>1 DEF LineOpen
    <2>3. CASE AllPlain
      <3>1. Ordered(asked, pieces, OnItsWay, conn = "open")
        BY <2>3, <1>5 DEF ArriveInv
      <3>2. /\ Len(pieces) <= Len(asked)
            /\ \A i \in 1..Len(pieces) : pieces[i] = Encode(asked[i])
        BY <3>1 DEF Ordered
      <3>3. /\ Len(pieces') = Len(pieces) + 1 /\ pieces'[Len(pieces) + 1] = line
            /\ \A i \in 1..Len(pieces) : pieces'[i] = pieces[i]
        <4>1. line \in Seq(Char) \ {<<>>}
          BY <1>1, <1>5
        <4> QED BY <4>1, <2>1, <1>1, AppendProperties
      <3>4. Len(line) \in 1..Len(line)
        BY <1>1, <1>5, EmptySeq
      <3>5. Len(pieces') \in 1..(Len(asked') + 1)
        BY <3>2, <3>3, <1>1, <1>2
      <3>6. pieces'[Len(pieces')][Len(pieces'[Len(pieces')])] # Newline
        BY <3>3, <3>4, <1>1 DEF LineOpen
      <3>7. \A i \in 1..(Len(pieces') - 1) : pieces'[i] = Encode(asked'[i])
        <4>1. Len(pieces') - 1 = Len(pieces)
          BY <3>3, <1>1
        <4> QED BY <4>1, <3>2, <3>3, <1>2
      <3>8. CutShort(asked', pieces')
        BY <3>5, <3>6, <3>7 DEF CutShort
      <3> QED BY <3>8, <2>1, <2>2, <1>2 DEF ArriveInv
    <2>4. CASE ~AllPlain
      BY <2>2, <2>4, <1>3 DEF ArriveInv
    <2> QED BY <2>3, <2>4
  <1> QED BY <1>4, <1>5

LEMMA ArriveReadFails ==
    ASSUME ArriveInv, TypeOK', ReadFails PROVE ArriveInv'
  <1>1. TypeOK
    BY DEF ArriveInv
  <1>2. /\ unread = <<>> /\ wire = <<>> /\ conn = "reset" /\ line' = <<>>
        /\ UNCHANGED <<asked, wire, conn, unread, pieces>>
    BY DEF ReadFails
  <1>3. line \in Seq(Char) /\ OnItsWay = OnItsWay' \o line /\ LineOpen'
    BY <1>1, FlowReadFails
  <1>4. conn' # "open"
    BY <1>2
  <1> QED BY <1>2, <1>3, <1>4, ArriveLost

LEMMA ArriveClose ==
    ASSUME ArriveInv, TypeOK', Close PROVE ArriveInv'
  <1>1. TypeOK /\ LineOpen
    BY DEF ArriveInv
  <1>2. conn' # "open" /\ UNCHANGED <<asked, wire, unread, line, pieces>>
    BY DEF Close
  <1>3. rest \in Seq(Char) /\ OnItsWay = OnItsWay' \o rest /\ LineOpen'
    BY <1>1, <1>2, FlowClose DEF LineOpen
  <1> QED BY <1>2, <1>3, ArriveLost

LEMMA ArriveReset ==
    ASSUME ArriveInv, TypeOK', Reset PROVE ArriveInv'
  <1>1. TypeOK /\ LineOpen
    BY DEF ArriveInv
  <1>2. /\ conn' # "open"
        /\ wire' = wire \/ wire' = <<>>
        /\ UNCHANGED <<asked, unread, line, pieces>>
    BY DEF Reset
  <1>3. PICK lost \in Seq(Char) : OnItsWay = OnItsWay' \o lost
    BY <1>1, FlowReset
  <1>4. LineOpen'
    BY <1>1, <1>2 DEF LineOpen
  <1>5. line = <<>> /\ unread = <<>> /\ wire = <<>> => line' = <<>> /\ unread' = <<>> /\ wire' = <<>>
    BY <1>2
  <1>6. conn' # "open" /\ UNCHANGED <<asked, pieces>>
    BY <1>2
  <1> QED BY <1>3, <1>4, <1>5, <1>6, ArriveLost

\* Init and every step.
LEMMA ArriveInit == Init => ArriveInv
  <1>1. SUFFICES ASSUME Init PROVE ArriveInv
    OBVIOUS
  <1>2. TypeOK
    BY <1>1, TypesInit
  <1>3. /\ asked = <<>> /\ pieces = <<>> /\ line = <<>> /\ unread = <<>> /\ wire = <<>>
        /\ rest = <<>> /\ conn = "open" /\ Len(<<>>) = 0
    BY <1>1 DEF Init
  <1>4. OnItsWay = <<>>
    <2>1. <<>> \in Seq(Char)
      OBVIOUS
    <2>2. <<>> \o <<>> = <<>>
      BY <2>1, ConcatEmptySeq
    <2>3. OnItsWay = <<>> \o <<>> \o <<>> \o <<>>
      BY <1>3 DEF OnItsWay, Rest
    <2> QED BY <2>2, <2>3
  <1> DEFINE c == [i \in 0..0 |-> 0]
  <1>5. c \in [0..0 -> Nat] /\ c[0] = 0 /\ 1..0 = {}
    OBVIOUS
  <1> HIDE DEF c
  <1>6. Cuts(c, asked)
    BY <1>3, <1>5 DEF Cuts
  <1>7. Spells(OnItsWay, c, asked, Len(pieces))
    <2>1. (0 + 1)..0 = {}
      OBVIOUS
    <2> QED BY <2>1, <1>3 DEF Spells
  <1>8. Ordered(asked, pieces, OnItsWay, conn = "open")
    <2>1. 0 = c[0] - c[0]
      BY <1>5
    <2>2. /\ Len(OnItsWay) <= c[Len(asked)] - c[Len(pieces)]
          /\ Len(OnItsWay) = c[Len(asked)] - c[Len(pieces)]
      BY <2>1, <1>3, <1>4
    <2> QED BY <2>2, <1>3, <1>5, <1>6, <1>7 DEF Ordered
  <1>9. LineOpen
    BY <1>3, <1>5 DEF LineOpen
  <1> QED BY <1>2, <1>8, <1>9 DEF ArriveInv

LEMMA ArriveStep == ArriveInv /\ [Next]_vars => ArriveInv'
  <1>1. SUFFICES ASSUME ArriveInv, [Next]_vars PROVE ArriveInv'
    OBVIOUS
  <1>2. TypeOK'
    BY <1>1, TypesStep DEF ArriveInv
  <1>3. LineOpen
    BY <1>1 DEF ArriveInv
  <1>4. ASSUME NEW msg \in Messages, Send(msg) PROVE ArriveInv'
    BY <1>1, <1>2, <1>4, ArriveSend
  <1>5. ASSUME NEW k \in 1..Len(rest), Write(k) PROVE ArriveInv'
    BY <1>1, <1>2, <1>5, ArriveWrite
  <1>6. CASE WriteFails
    <2>1. /\ conn = "reset" /\ UNCHANGED <<asked, wire, conn, unread, line, pieces>>
      BY <1>6 DEF WriteFails
    <2>2. OnItsWay' = OnItsWay /\ LineOpen'
      BY <2>1, <1>3 DEF OnItsWay, Rest, LineOpen
    <2> QED BY <2>1, <2>2, <1>1, <1>2, <1>3, ArriveMoved
  <1>7. CASE Close
    BY <1>1, <1>2, <1>7, ArriveClose
  <1>8. CASE Receive
    <2>1. UNCHANGED <<asked, rest, wire, conn, unread, line, pieces>>
      BY <1>8 DEF Receive
    <2>2. OnItsWay' = OnItsWay /\ LineOpen'
      BY <2>1, <1>3 DEF OnItsWay, Rest, LineOpen
    <2> QED BY <2>1, <2>2, <1>1, <1>2, <1>3, ArriveMoved
  <1>9. ASSUME NEW k \in 1..Len(wire), Refill(k) PROVE ArriveInv'
    BY <1>1, <1>2, <1>9, ArriveRefill
  <1>10. CASE Consume
    BY <1>1, <1>2, <1>10, ArriveConsume
  <1>11. CASE EndOfFile
    BY <1>1, <1>2, <1>11, ArriveEndOfFile
  <1>12. CASE ReadFails
    BY <1>1, <1>2, <1>12, ArriveReadFails
  <1>13. CASE Reset
    BY <1>1, <1>2, <1>13, ArriveReset
  <1>14. CASE UNCHANGED vars
    <2>1. UNCHANGED <<asked, rest, wire, conn, unread, line, pieces>>
      BY <1>14 DEF vars
    <2>2. OnItsWay' = OnItsWay /\ LineOpen'
      BY <2>1, <1>3 DEF OnItsWay, Rest, LineOpen
    <2> QED BY <2>1, <2>2, <1>1, <1>2, <1>3, ArriveMoved
  <1> QED BY <1>1, <1>4, <1>5, <1>6, <1>7, <1>8, <1>9, <1>10, <1>11, <1>12, <1>13, <1>14
          DEF Next, Sender, Receiver

\* What the invariant says of the pieces.
LEMMA ArriveShows == ArriveInv => PlainMessagesArrive
  <1>1. SUFFICES ASSUME ArriveInv, \A i \in DOMAIN asked : Plain(asked[i]),
                        NEW i \in DOMAIN pieces
                 PROVE  IF Last(pieces[i]) = Newline
                        THEN Parse(pieces[i]) = [tag |-> asked[i].tag, data |-> asked[i].data,
                                                 result |-> "SUCCESS"]
                        ELSE i = Len(pieces) /\ conn # "open"
    BY DEF PlainMessagesArrive
  <1>2. /\ asked \in Seq(Messages) /\ DOMAIN asked = 1..Len(asked) /\ Len(asked) \in Nat
        /\ pieces \in Seq(Seq(Char) \ {<<>>}) /\ DOMAIN pieces = 1..Len(pieces)
        /\ Len(pieces) \in Nat
    BY <1>1, LenProperties DEF ArriveInv, TypeOK
  <1>3. AllPlain
    BY <1>1, <1>2 DEF AllPlain
  <1>4. ASSUME i <= Len(asked), pieces[i] = Encode(asked[i])
        PROVE  /\ Last(pieces[i]) = Newline
               /\ Parse(pieces[i]) = [tag |-> asked[i].tag, data |-> asked[i].data,
                                      result |-> "SUCCESS"]
    <2>1. i \in 1..Len(asked)
      BY <1>1, <1>2, <1>4
    <2>2. asked[i] \in Messages /\ Plain(asked[i])
      BY <2>1, <1>2, <1>3, ElementOfSeq DEF AllPlain
    <2>3. Len(Encode(asked[i])) \in 1..Len(Encode(asked[i]))
      <3>1. Len(Encode(asked[i])) \in 2..(BufLen - 1)
        BY <2>2, PlainLine
      <3>2. Len(Encode(asked[i])) \in Nat \ {0}
        BY <3>1
      <3> QED BY <3>2
    <2>4. Encode(asked[i])[Len(Encode(asked[i]))] = Newline
      BY <2>2, <2>3, PlainLine
    <2> QED BY <2>2, <2>4, <1>4, ParsePlain DEF Last
  <1>5. CASE Ordered(asked, pieces, OnItsWay, conn = "open")
    <2>1. i <= Len(asked) /\ pieces[i] = Encode(asked[i])
      BY <1>2, <1>1, <1>5 DEF Ordered
    <2> QED BY <2>1, <1>4
  <1>6. CASE conn # "open" /\ CutShort(asked, pieces)
    <2>1. CASE i = Len(pieces)
      BY <2>1, <1>6 DEF CutShort, Last
    <2>2. CASE i # Len(pieces)
      <3>1. i \in 1..(Len(pieces) - 1) /\ Len(pieces) \in 1..(Len(asked) + 1)
        BY <2>2, <1>1, <1>2, <1>6 DEF CutShort
      <3>2. i <= Len(asked) /\ pieces[i] = Encode(asked[i])
        BY SMTT(20), <3>1, <1>2, <1>6 DEF CutShort
      <3> QED BY <3>2, <1>4
    <2> QED BY <2>1, <2>2
  <1> QED BY <1>1, <1>3, <1>5, <1>6 DEF ArriveInv

\* However writes and reads cut the stream and whenever the connection ends: if
\* the messages sent are plain, receive returns them one by one in the order of
\* the calls of send, and only the last line can be cut short.
THEOREM PlainArrive == Spec => []PlainMessagesArrive
  <1>1. Init => ArriveInv
    BY ArriveInit
  <1>2. ArriveInv /\ [Next]_vars => ArriveInv'
    BY ArriveStep
  <1>3. ArriveInv => PlainMessagesArrive
    BY ArriveShows
  <1> QED BY <1>1, <1>2, <1>3, PTL DEF Spec

-----------------------------------------------------------------------------
(* Recursion and induction on sequences *)

LEMMA UpTo ==
    ASSUME NEW n \in Nat, NEW T, 0 \in T, \A k \in 0..(n - 1) : k \in T => k + 1 \in T
    PROVE  0..n \subseteq T
  <1> DEFINE U == {k \in 0..n : k \notin T}
  <1>1. SUFFICES ASSUME U # {} PROVE FALSE
    OBVIOUS
  <1>2. PICK k \in U : \A j \in U : ~ (j < k)
    <2>1. U \subseteq Nat
      OBVIOUS
    <2>2. PICK k \in U : \A j \in U : <<j, k>> \notin OpToRel(<, Nat)
      BY <1>1, <2>1, NatLessThanWellFounded, WFMin
    <2> QED BY <2>1, <2>2 DEF OpToRel
  <1>3. k - 1 \in 0..(n - 1) /\ k - 1 \notin U
    BY <1>2
  <1> QED BY <1>2, <1>3

\* What a recursion over 0..n that starts at base and goes on by step defines.
Recurs(f, n, X, base, step) ==
    /\ f \in [0..n -> X]
    /\ f[0] = base
    /\ \A k \in 1..n : f[k] = step[<<k, f[k - 1]>>]

LEMMA Recursion ==
    ASSUME NEW n \in Nat, NEW X, NEW base \in X, NEW step \in [(1..n) \X X -> X]
    PROVE  \E f : Recurs(f, n, X, base, step)
  <1> DEFINE Fits(f, m) == f[0] = base /\ \A k \in 1..m : f[k] = step[<<k, f[k - 1]>>]
             T == {m \in 0..n : \E f \in [0..m -> X] : Fits(f, m)}
  <1>1. 0 \in T
    <2> DEFINE f == [k \in 0..0 |-> base]
    <2>1. f \in [0..0 -> X] /\ Fits(f, 0)
      OBVIOUS
    <2> HIDE DEF f, Fits
    <2> QED BY <2>1
  <1>2. ASSUME NEW m \in 0..(n - 1), m \in T PROVE m + 1 \in T
    <2>1. PICK f \in [0..m -> X] : Fits(f, m)
      BY <1>2
    <2> DEFINE g == [k \in 0..(m + 1) |-> IF k = m + 1 THEN step[<<m + 1, f[m]>>] ELSE f[k]]
    <2>2. g \in [0..(m + 1) -> X]
      <3>1. <<m + 1, f[m]>> \in (1..n) \X X
        OBVIOUS
      <3> QED BY <3>1
    <2>3. Fits(g, m + 1)
      <3>1. g[0] = base
        BY <2>1
      <3>2. ASSUME NEW k \in 1..(m + 1) PROVE g[k] = step[<<k, g[k - 1]>>]
        <4>1. CASE k = m + 1
          <5>1. g[m + 1] = step[<<m + 1, f[m]>>] /\ g[m] = f[m]
            OBVIOUS
          <5> HIDE DEF g
          <5> QED BY <4>1, <5>1
        <4>2. CASE k # m + 1
          BY <2>1, <4>2
        <4> QED BY <4>1, <4>2
      <3> QED BY <3>1, <3>2
    <2> HIDE DEF g, Fits
    <2> QED BY <2>2, <2>3
  <1>3. 0..n \subseteq T
    <2> HIDE DEF T
    <2> QED BY <1>1, <1>2, UpTo
  <1> QED BY <1>3 DEF Recurs

\* What holds of the empty sequence, and of a sequence when it gets longer, holds
\* of all.
LEMMA Grown ==
    ASSUME NEW S, NEW T, <<>> \in T,
           \A s \in Seq(S), e \in S : s \in T => Append(s, e) \in T
    PROVE  Seq(S) \subseteq T
  <1>1. SUFFICES ASSUME NEW s \in Seq(S) PROVE s \in T
    OBVIOUS
  <1> DEFINE U == {k \in 0..Len(s) : SubSeq(s, 1, k) \in T}
  <1>2. Len(s) \in Nat
    BY LenProperties
  <1>3. 0 \in U
    <2>1. SubSeq(s, 1, 0) = <<>>
      BY SubSeqEmpty
    <2>2. 0 \in 0..Len(s)
      BY <1>2
    <2> QED BY <2>1, <2>2
  <1>4. ASSUME NEW k \in 0..(Len(s) - 1), k \in U PROVE k + 1 \in U
    <2>1. k + 1 \in 1..Len(s) /\ k + 1 \in 0..Len(s) /\ k \in 0..Len(s) /\ 1 \in 1..Len(s)
          /\ k + 1 \in 1..Len(s)
      BY <1>2
    <2>2. SubSeq(s, 1, k) \in Seq(S)
      BY <2>1, Slices
    <2>3. s[k + 1] \in S
      BY <2>1, ElementOfSeq
    <2>4. SubSeq(s, 1, k + 1) = SubSeq(s, 1, k) \o <<s[k + 1]>>
      BY <2>1, SubSeqRecursiveSecond
    <2>5. SubSeq(s, 1, k + 1) = Append(SubSeq(s, 1, k), s[k + 1])
      BY <2>2, <2>3, <2>4, AppendIsConcat
    <2> QED BY <1>4, <2>1, <2>2, <2>3, <2>5
  <1>5. 0..Len(s) \subseteq U
    <2> HIDE DEF U
    <2> QED BY <1>2, <1>3, <1>4, UpTo
  <1>6. Len(s) \in U
    BY <1>2, <1>5
  <1> QED BY <1>6, SubSeqFull

-----------------------------------------------------------------------------
(* Pieces *)

LEMMA MaxPieceIs == MaxPiece \in Nat /\ MaxPiece >= 1 /\ MaxPiece = BufLen - 1
  BY SizesAssumption DEF MaxPiece

\* One more character.
LEMMA LongerIs ==
    ASSUME NEW ps \in Seq(Seq(Char)), NEW c \in Char
    PROVE  /\ Longer(c)[ps] \in Seq(Seq(Char))
           /\ ps = <<>> \/ Whole(ps[Len(ps)]) => Longer(c)[ps] = Append(ps, <<c>>)
           /\ ~ (ps = <<>> \/ Whole(ps[Len(ps)])) =>
                 Longer(c)[ps] = [ps EXCEPT ![Len(ps)] = Append(ps[Len(ps)], c)]
  <1>1. Longer(c)[ps] = IF ps = <<>> \/ Whole(Last(ps)) THEN Append(ps, <<c>>)
                        ELSE [ps EXCEPT ![Len(ps)] = Append(@, c)]
    BY DEF Longer
  <1>2. <<c>> \in Seq(Char)
    OBVIOUS
  <1>3. CASE ps = <<>> \/ Whole(ps[Len(ps)])
    <2>1. Longer(c)[ps] = Append(ps, <<c>>)
      BY <1>1, <1>3 DEF Last
    <2> QED BY <2>1, <1>2, <1>3, AppendProperties
  <1>4. CASE ~ (ps = <<>> \/ Whole(ps[Len(ps)]))
    <2>1. Longer(c)[ps] = [ps EXCEPT ![Len(ps)] = Append(ps[Len(ps)], c)]
      BY <1>1, <1>4 DEF Last
    <2>2. Len(ps) \in 1..Len(ps)
      BY <1>4, EmptySeq
    <2>3. Append(ps[Len(ps)], c) \in Seq(Char)
      BY <2>2, ElementOfSeq, AppendProperties
    <2> QED BY <2>1, <2>2, <2>3, <1>4, ExceptSeq
  <1> QED BY <1>3, <1>4

LEMMA CutRecurs ==
    ASSUME NEW s \in Seq(Char)
    PROVE  \E f \in [0..Len(s) -> Seq(Seq(Char))] :
              /\ f[0] = <<>>
              /\ \A k \in 1..Len(s) : f[k] = Longer(s[k])[f[k - 1]]
              /\ Cut(s) = f[Len(s)]
  <1> DEFINE N == Len(s)
  <1>1. N \in Nat /\ \A k \in 1..N : s[k] \in Char
    BY LenProperties, ElementOfSeq
  <1>2. PICK X : X = Seq(Seq(Char))
    OBVIOUS
  <1> DEFINE step == [x \in (1..N) \X X |-> Longer(s[x[1]])[x[2]]]
  <1>3. step \in [(1..N) \X X -> X] /\ <<>> \in X
    <2>1. \A x \in (1..N) \X X : Longer(s[x[1]])[x[2]] \in X
      BY <1>1, <1>2, LongerIs
    <2> HIDE DEF N
    <2> QED BY <2>1, <1>2
  <1>4. PICK f : Recurs(f, N, X, <<>>, step)
    <2> HIDE DEF N, step
    <2> QED BY <1>1, <1>3, Recursion
  <1>5. ASSUME NEW k \in 1..N PROVE f[k] = Longer(s[k])[f[k - 1]]
    <2>1. <<k, f[k - 1]>> \in (1..N) \X X
      BY <1>1, <1>4 DEF Recurs
    <2> HIDE DEF N
    <2> QED BY <1>4, <2>1 DEF Recurs
  <1> HIDE DEF step
  <1> DEFINE Fits(g) == g = [n \in 0..N |-> IF n = 0 THEN <<>> ELSE Longer(s[n])[g[n - 1]]]
             up == CHOOSE g : Fits(g)
  <1>6. Fits(f)
    <2> HIDE DEF N
    <2>1. f \in [0..N -> X] /\ f[0] = <<>>
      BY <1>4 DEF Recurs
    <2>2. \A n \in 0..N : f[n] = IF n = 0 THEN <<>> ELSE Longer(s[n])[f[n - 1]]
      <3>1. \A n \in 0..N : n = 0 \/ n \in 1..N
        BY <1>1
      <3> QED BY <3>1, <2>1, <1>5
    <2> QED BY <2>1, <2>2
  <1>7. Cut(s) = up[N]
    BY Zenon DEF Cut
  <1>8. Fits(up)
    <2> HIDE DEF Fits
    <2> QED BY <1>6
  <1> HIDE DEF up, N
  <1>9. up[0] = <<>> /\ \A k \in 1..N : up[k] = Longer(s[k])[up[k - 1]]
    BY <1>1, <1>8
  <1>10. 0..N \subseteq {k \in 0..N : up[k] \in X}
    <2> DEFINE T == {k \in 0..N : up[k] \in X}
    <2>1. 0 \in T
      BY <1>1, <1>3, <1>9
    <2>2. ASSUME NEW k \in 0..(N - 1), k \in T PROVE k + 1 \in T
      <3>1. k + 1 \in 1..N /\ k + 1 \in 0..N /\ (k + 1) - 1 = k /\ up[k] \in X
        BY <1>1, <2>2
      <3>2. up[k + 1] = Longer(s[k + 1])[up[k]] /\ s[k + 1] \in Char
        BY <1>1, <1>9, <3>1
      <3> QED BY <1>2, <3>1, <3>2, LongerIs
    <2>3. 0..N \subseteq T
      <3> HIDE DEF T
      <3> QED BY <1>1, <2>1, <2>2, UpTo
    <2> QED BY <2>3
  <1>11. up \in [0..N -> X]
    <2>1. \A k \in 0..N : up[k] \in X
      BY <1>10
    <2> QED BY <1>8, <2>1
  <1> QED BY <1>2, <1>7, <1>9, <1>11 DEF N

\* What a receiver will see of a text grows with it.
LEMMA CutGrows ==
    ASSUME NEW s \in Seq(Char), NEW c \in Char
    PROVE  Cut(Append(s, c)) = Longer(c)[Cut(s)]
  <1> DEFINE t == Append(s, c)
             N == Len(s)
  <1>1. /\ N \in Nat /\ t \in Seq(Char) /\ Len(t) = N + 1
        /\ \A k \in 1..N : t[k] = s[k]
        /\ t[N + 1] = c
    BY AppendProperties, LenProperties
  <1> HIDE DEF t, N
  <1>2. PICK f : /\ f[0] = <<>> /\ Cut(s) = f[N]
                 /\ \A k \in 1..N : f[k] = Longer(s[k])[f[k - 1]]
    BY CutRecurs DEF N
  <1>3. PICK g : /\ g[0] = <<>> /\ Cut(t) = g[N + 1]
                 /\ \A k \in 1..(N + 1) : g[k] = Longer(t[k])[g[k - 1]]
    <2>1. \E g \in [0..Len(t) -> Seq(Seq(Char))] :
             /\ g[0] = <<>>
             /\ \A k \in 1..Len(t) : g[k] = Longer(t[k])[g[k - 1]]
             /\ Cut(t) = g[Len(t)]
      BY <1>1, CutRecurs
    <2> QED BY <2>1, <1>1
  <1> DEFINE T == {k \in 0..N : f[k] = g[k]}
  <1>4. 0 \in T
    BY <1>1, <1>2, <1>3
  <1>5. ASSUME NEW k \in 0..(N - 1), k \in T PROVE k + 1 \in T
    <2>1. k + 1 \in 1..N /\ k + 1 \in 1..(N + 1) /\ (k + 1) - 1 = k /\ k + 1 \in 0..N
      BY <1>1
    <2>2. f[k] = g[k]
      BY <1>5
    <2>3. f[k + 1] = Longer(s[k + 1])[f[k]] /\ g[k + 1] = Longer(t[k + 1])[g[k]]
      BY <2>1, <1>2, <1>3
    <2>4. t[k + 1] = s[k + 1]
      BY <2>1, <1>1
    <2> QED BY <2>1, <2>2, <2>3, <2>4
  <1>6. N \in T
    <2>1. 0..N \subseteq T
      <3> HIDE DEF T
      <3> QED BY <1>1, <1>4, <1>5, UpTo
    <2> QED BY <2>1, <1>1
  <1>7. g[N + 1] = Longer(c)[g[N]]
    <2>1. N + 1 \in 1..(N + 1) /\ (N + 1) - 1 = N
      BY <1>1
    <2> QED BY <2>1, <1>1, <1>3
  <1> QED BY <1>2, <1>3, <1>6, <1>7 DEF t

LEMMA CutNothing == Cut(<<>>) = <<>>
  <1>1. <<>> \in Seq(Char) /\ Len(<<>>) = 0
    OBVIOUS
  <1>2. PICK f : f[0] = <<>> /\ Cut(<<>>) = f[Len(<<>>)]
    BY <1>1, CutRecurs
  <1> QED BY <1>1, <1>2

\* The pieces of a text are not empty, and its last character ends the last piece.
Piece == Seq(Char) \ {<<>>}

LEMMA LongerTypes ==
    ASSUME NEW ps \in Seq(Piece), NEW c \in Char
    PROVE  /\ ps \in Seq(Seq(Char))
           /\ Longer(c)[ps] \in Seq(Piece)
           /\ Longer(c)[ps] # <<>>
           /\ \E p \in Piece : /\ Longer(c)[ps][Len(Longer(c)[ps])] = p
                              /\ p[Len(p)] = c
  <1>1. ps \in Seq(Seq(Char))
    BY SeqMonotonic DEF Piece
  <1>2. <<c>> \in Piece /\ <<c>>[Len(<<c>>)] = c
    BY DEF Piece
  <1>3. CASE ps = <<>> \/ Whole(ps[Len(ps)])
    <2>1. Longer(c)[ps] = Append(ps, <<c>>)
      BY <1>1, <1>3, LongerIs
    <2>2. /\ Append(ps, <<c>>) \in Seq(Piece) /\ Append(ps, <<c>>) # <<>>
          /\ Append(ps, <<c>>)[Len(Append(ps, <<c>>))] = <<c>>
      BY <1>2, AppendProperties
    <2> QED BY <2>1, <2>2, <1>1, <1>2
  <1>4. CASE ~ (ps = <<>> \/ Whole(ps[Len(ps)]))
    <2> DEFINE n == Len(ps)
               p == Append(ps[n], c)
               q == [ps EXCEPT ![n] = p]
    <2>1. n \in 1..n
      BY <1>4, EmptySeq
    <2>2. ps[n] \in Seq(Char)
      BY <2>1, <1>1, ElementOfSeq
    <2>3. p \in Piece /\ p[Len(p)] = c
      BY <2>2, AppendProperties DEF Piece
    <2>4. Longer(c)[ps] = q
      BY <1>1, <1>4, LongerIs
    <2> HIDE DEF p
    <2>5. q \in Seq(Piece) /\ Len(q) = n /\ q[n] = p
      BY <2>1, <2>3, ExceptSeq
    <2>6. q # <<>>
      <3>1. Len(<<>>) = 0 /\ n # 0
        BY <2>1
      <3> QED BY <3>1, <2>5
    <2> QED BY <2>3, <2>4, <2>5, <2>6, <1>1
  <1> QED BY <1>3, <1>4

LEMMA CutTypes ==
    ASSUME NEW s \in Seq(Char)
    PROVE  /\ Cut(s) \in Seq(Piece) /\ Cut(s) \in Seq(Seq(Char))
           /\ s # <<>> => /\ Cut(s) # <<>>
                          /\ \E p \in Piece : /\ Cut(s)[Len(Cut(s))] = p
                                              /\ p[Len(p)] = s[Len(s)]
  <1> DEFINE T == {t \in Seq(Char) : Cut(t) \in Seq(Piece)}
  <1>1. <<>> \in T
    <2>1. <<>> \in Seq(Char) /\ <<>> \in Seq(Piece)
      OBVIOUS
    <2> QED BY <2>1, CutNothing
  <1>2. \A t \in Seq(Char), c \in Char : t \in T => Append(t, c) \in T
    <2>1. SUFFICES ASSUME NEW t \in Seq(Char), NEW c \in Char, Cut(t) \in Seq(Piece)
                   PROVE  Append(t, c) \in Seq(Char) /\ Cut(Append(t, c)) \in Seq(Piece)
      OBVIOUS
    <2>2. Append(t, c) \in Seq(Char)
      BY AppendProperties
    <2> QED BY <2>1, <2>2, CutGrows, LongerTypes
  <1>3. Seq(Char) \subseteq T
    <2> HIDE DEF T
    <2> QED BY <1>1, <1>2, Grown
  <1>4. \A t \in Seq(Char) : Cut(t) \in Seq(Piece)
    BY <1>3
  <1> HIDE DEF T
  <1>5. Cut(s) \in Seq(Seq(Char))
    <2>1. Piece \subseteq Seq(Char)
      BY DEF Piece
    <2> QED BY <2>1, <1>4, SeqMonotonic
  <1>6. ASSUME s # <<>>
        PROVE  /\ Cut(s) # <<>>
               /\ \E p \in Piece : Cut(s)[Len(Cut(s))] = p /\ p[Len(p)] = s[Len(s)]
    <2>1. PICK r \in Seq(Char), c \in Char : s = Append(r, c)
      BY <1>6, SequenceEmptyOrAppend
    <2>2. s[Len(s)] = c
      BY <2>1, AppendProperties
    <2>3. Cut(s) = Longer(c)[Cut(r)] /\ Cut(r) \in Seq(Piece)
      BY <2>1, <1>4, CutGrows
    <2> QED BY <2>2, <2>3, LongerTypes
  <1> QED BY <1>4, <1>5, <1>6

\* A text after pieces that are whole is cut as if it stood alone.
LEMMA LongerBehind ==
    ASSUME NEW ps \in Seq(Seq(Char)), NEW qs \in Seq(Seq(Char)), NEW c \in Char,
           ps = <<>> \/ Whole(ps[Len(ps)])
    PROVE  Longer(c)[ps \o qs] = ps \o Longer(c)[qs]
  <1> DEFINE S == Seq(Char)
  <1>1. <<c>> \in S
    OBVIOUS
  <1>2. /\ Len(ps) \in Nat /\ Len(qs) \in Nat /\ ps \o qs \in Seq(S)
        /\ Len(ps \o qs) = Len(ps) + Len(qs)
    BY ConcatProperties, LenProperties
  <1>3. ps \in Seq(S) /\ qs \in Seq(S)
    OBVIOUS
  <1> HIDE DEF S
  <1>4. CASE qs = <<>>
    <2>1. ps \o qs = ps
      BY <1>4, ConcatEmptySeq
    <2>2. Longer(c)[ps \o qs] = Append(ps, <<c>>)
      BY <2>1, LongerIs
    <2>3. Longer(c)[qs] = Append(<<>>, <<c>>)
      BY <1>4, LongerIs
    <2>4. Append(<<>>, <<c>>) = <<<<c>>>>
      OBVIOUS
    <2>5. Append(ps, <<c>>) = ps \o <<<<c>>>>
      BY <1>1, AppendIsConcat DEF S
    <2> QED BY <2>2, <2>3, <2>4, <2>5
  <1>5. CASE qs # <<>>
    <2> DEFINE w == ps \o qs
               n == Len(qs)
    <2>1. n \in 1..n
      BY <1>5, EmptySeq
    <2>2. w[Len(w)] = qs[n] /\ w # <<>> /\ Len(w) \in 1..Len(w)
      <3>1. n \in 1..Len(qs)
        BY <2>1
      <3>2. w[Len(ps) + n] = qs[n]
        BY <3>1, <1>2
      <3>3. Len(w) \in 1..Len(w) /\ Len(w) # 0 /\ Len(<<>>) = 0
        BY <2>1, <1>2
      <3> HIDE DEF w
      <3>4. w # <<>>
        BY <3>3
      <3> QED BY <3>2, <3>3, <3>4, <1>2 DEF w
    <2> HIDE DEF w
    <2>3. CASE Whole(qs[n])
      <3>1. Longer(c)[w] = Append(w, <<c>>)
        BY <2>2, <2>3, <1>2, LongerIs DEF w, S
      <3>2. Longer(c)[qs] = Append(qs, <<c>>)
        BY <2>3, LongerIs
      <3>3. /\ Append(w, <<c>>) = w \o <<<<c>>>>
            /\ Append(qs, <<c>>) = qs \o <<<<c>>>>
        BY <1>1, <1>2, AppendIsConcat DEF w, S
      <3>4. (ps \o qs) \o <<<<c>>>> = ps \o (qs \o <<<<c>>>>)
        <4>1. <<<<c>>>> \in Seq(S)
          BY <1>1
        <4> QED BY SMTT(20), <4>1, ConcatAssociative DEF S
      <3> QED BY <3>1, <3>2, <3>3, <3>4 DEF w
    <2>4. CASE ~ Whole(qs[n])
      <3> DEFINE e == Append(qs[n], c)
                 x == [w EXCEPT ![Len(w)] = e]
                 y == [qs EXCEPT ![n] = e]
      <3>1. qs[n] \in S
        BY <2>1, ElementOfSeq DEF S
      <3>2. e \in S
        BY <3>1, AppendProperties DEF S
      <3>3. Longer(c)[w] = x
        <4>1. w \in Seq(Seq(Char))
          BY <1>2 DEF w, S
        <4>2. Longer(c)[w] = [w EXCEPT ![Len(w)] = Append(w[Len(w)], c)]
          BY <4>1, <2>2, <2>4, LongerIs
        <4> QED BY <4>2, <2>2
      <3>4. Longer(c)[qs] = y
        BY <1>5, <2>4, LongerIs
      <3> HIDE DEF e
      <3>5. /\ x \in Seq(S) /\ Len(x) = Len(w)
            /\ \A j \in 1..Len(w) : x[j] = IF j = Len(w) THEN e ELSE w[j]
        <4>1. w \in Seq(S)
          BY <1>2 DEF w
        <4> QED BY <4>1, <2>2, <3>2, ExceptSeq
      <3>6. /\ y \in Seq(S) /\ Len(y) = n
            /\ \A j \in 1..n : y[j] = IF j = n THEN e ELSE qs[j]
        BY <2>1, <3>2, ExceptSeq DEF S
      <3> HIDE DEF x, y
      <3>7. ps \o y \in Seq(S) /\ Len(ps \o y) = Len(w)
        <4>1. ps \o y \in Seq(S) /\ Len(ps \o y) = Len(ps) + Len(y)
          BY <3>6, <1>3, ConcatProperties
        <4> QED BY <4>1, <3>6, <1>2 DEF w
      <3>8. ASSUME NEW j \in 1..Len(w) PROVE x[j] = (ps \o y)[j]
        <4>1. /\ (ps \o y)[j] = IF j <= Len(ps) THEN ps[j] ELSE y[j - Len(ps)]
              /\ w[j] = IF j <= Len(ps) THEN ps[j] ELSE qs[j - Len(ps)]
          <5>1. j \in 1..(Len(ps) + Len(qs)) /\ j \in 1..(Len(ps) + Len(y))
            BY <3>6, <1>2 DEF w
          <5>2. (ps \o y)[j] = IF j <= Len(ps) THEN ps[j] ELSE y[j - Len(ps)]
            BY <5>1, <3>6, <1>3, ConcatProperties
          <5>3. (ps \o qs)[j] = IF j <= Len(ps) THEN ps[j] ELSE qs[j - Len(ps)]
            BY <5>1, <1>3, ConcatProperties
          <5> QED BY <5>2, <5>3 DEF w
        <4>2. CASE j <= Len(ps)
          BY <4>1, <4>2, <3>5, <2>1, <1>2 DEF w
        <4>3. CASE ~ (j <= Len(ps))
          <5>1. j - Len(ps) \in 1..n /\ (j = Len(w) <=> j - Len(ps) = n)
            BY <4>3, <1>2 DEF w
          <5> QED BY <5>1, <4>1, <4>3, <3>5, <3>6
        <4> QED BY <4>2, <4>3
      <3>9. x = ps \o y
        BY <3>5, <3>7, <3>8, SeqEqual
      <3> QED BY <3>3, <3>4, <3>9 DEF w
    <2> QED BY <2>3, <2>4
  <1> QED BY <1>4, <1>5

LEMMA CutJoin ==
    ASSUME NEW a \in Seq(Char), NEW b \in Seq(Char),
           Cut(a) = <<>> \/ Whole(Cut(a)[Len(Cut(a))])
    PROVE  Cut(a \o b) = Cut(a) \o Cut(b)
  <1> DEFINE T == {t \in Seq(Char) : Cut(a \o t) = Cut(a) \o Cut(t)}
  <1>1. <<>> \in T
    <2>1. a \o <<>> = a /\ Cut(a) \o <<>> = Cut(a)
      BY CutTypes, ConcatEmptySeq
    <2>2. <<>> \in Seq(Char)
      OBVIOUS
    <2> QED BY <2>1, <2>2, CutNothing
  <1>2. \A t \in Seq(Char), c \in Char : t \in T => Append(t, c) \in T
    <2>1. SUFFICES ASSUME NEW t \in Seq(Char), NEW c \in Char,
                          Cut(a \o t) = Cut(a) \o Cut(t)
                   PROVE  /\ Append(t, c) \in Seq(Char)
                          /\ Cut(a \o Append(t, c)) = Cut(a) \o Cut(Append(t, c))
      OBVIOUS
    <2>2. Append(t, c) \in Seq(Char) /\ a \o t \in Seq(Char)
      BY AppendProperties, ConcatProperties
    <2>3. a \o Append(t, c) = Append(a \o t, c)
      OBVIOUS
    <2>4. /\ Cut(Append(a \o t, c)) = Longer(c)[Cut(a) \o Cut(t)]
          /\ Cut(Append(t, c)) = Longer(c)[Cut(t)]
      BY <2>1, <2>2, CutGrows
    <2>5. Longer(c)[Cut(a) \o Cut(t)] = Cut(a) \o Longer(c)[Cut(t)]
      BY CutTypes, LongerBehind
    <2> QED BY <2>2, <2>3, <2>4, <2>5
  <1>3. Seq(Char) \subseteq T
    <2> HIDE DEF T
    <2> QED BY <1>1, <1>2, Grown
  <1> QED BY <1>3

\* What has no newline but at its end and fits the buffer is one piece.
LEMMA CutPiece ==
    ASSUME NEW s \in Piece, Len(s) <= MaxPiece, \A i \in 1..(Len(s) - 1) : s[i] # Newline
    PROVE  Cut(s) = <<s>>
  <1> DEFINE Fits(t) == t # <<>> /\ Len(t) <= MaxPiece /\ \A i \in 1..(Len(t) - 1) : t[i] # Newline
             T == {t \in Seq(Char) : Fits(t) => Cut(t) = <<t>>}
  <1>1. <<>> \in T
    OBVIOUS
  <1>2. \A t \in Seq(Char), c \in Char : t \in T => Append(t, c) \in T
    <2>1. SUFFICES ASSUME NEW t \in Seq(Char), NEW c \in Char, t \in T, Fits(Append(t, c))
                   PROVE  Cut(Append(t, c)) = <<Append(t, c)>>
      BY AppendProperties
    <2>2. Cut(Append(t, c)) = Longer(c)[Cut(t)]
      BY CutGrows
    <2>3. CASE t = <<>>
      <3>1. Longer(c)[<<>>] = Append(<<>>, <<c>>)
        <4>1. <<>> \in Seq(Seq(Char))
          OBVIOUS
        <4> QED BY <4>1, LongerIs
      <3>2. Append(<<>>, c) = <<c>> /\ Append(<<>>, <<c>>) = <<<<c>>>>
        OBVIOUS
      <3> QED BY <2>2, <2>3, <3>1, <3>2, CutNothing
    <2>4. CASE t # <<>>
      <3>1. /\ Len(t) \in Nat \ {0} /\ Len(Append(t, c)) = Len(t) + 1
            /\ \A i \in 1..Len(t) : Append(t, c)[i] = t[i]
        BY <2>4, EmptySeq, AppendProperties
      <3>2. /\ Len(t) < MaxPiece /\ \A i \in 1..Len(t) : t[i] # Newline
            /\ Len(t) \in 1..Len(t)
        BY <2>1, <3>1, MaxPieceIs
      <3>3. Fits(t)
        BY <2>4, <3>1, <3>2, MaxPieceIs
      <3>4. Cut(t) = <<t>>
        BY <2>1, <3>3
      <3>5. <<t>> \in Seq(Seq(Char)) /\ <<t>> # <<>> /\ <<t>>[Len(<<t>>)] = t
        OBVIOUS
      <3>6. ~ Whole(t)
        BY <3>1, <3>2, MaxPieceIs DEF Whole, Last
      <3>7. Longer(c)[<<t>>] = [<<t>> EXCEPT ![Len(<<t>>)] = Append(t, c)]
        BY <3>5, <3>6, LongerIs
      <3>8. \A e : [<<t>> EXCEPT ![Len(<<t>>)] = e] = <<e>>
        OBVIOUS
      <3> QED BY <2>2, <3>4, <3>7, <3>8
    <2> QED BY <2>3, <2>4
  <1>3. Seq(Char) \subseteq T
    <2> HIDE DEF T
    <2> QED BY <1>1, <1>2, Grown
  <1> QED BY <1>3 DEF Piece

-----------------------------------------------------------------------------
(* Pieces lost at the end *)

\* Of pieces some at the end are missing, and one may be cut short.
Shortened(ps, qs) ==
    \E n \in 0..Len(ps) :
        \/ qs = SubSeq(ps, 1, n)
        \/ n > 0 /\ \E k \in 1..Len(ps[n]) : qs = Append(SubSeq(ps, 1, n - 1), SubSeq(ps[n], 1, k))

LEMMA SameBeginning ==
    ASSUME NEW S, NEW s \in Seq(S), NEW t \in Seq(S), NEW n \in Nat, n <= Len(s), n <= Len(t),
           \A i \in 1..n : s[i] = t[i]
    PROVE  SubSeq(s, 1, n) = SubSeq(t, 1, n)
  <1>1. n \in 0..Len(s) /\ n \in 0..Len(t)
    BY LenProperties
  <1>2. /\ SubSeq(s, 1, n) \in Seq(S) /\ Len(SubSeq(s, 1, n)) = n
        /\ \A i \in 1..n : SubSeq(s, 1, n)[i] = s[i]
    BY <1>1, Slices
  <1>3. /\ SubSeq(t, 1, n) \in Seq(S) /\ Len(SubSeq(t, 1, n)) = n
        /\ \A i \in 1..n : SubSeq(t, 1, n)[i] = t[i]
    BY <1>1, Slices
  <1> QED BY <1>2, <1>3, SeqEqual

LEMMA LongerShortens ==
    ASSUME NEW ps \in Seq(Piece), NEW qs, Shortened(ps, qs), NEW c \in Char
    PROVE  Shortened(Longer(c)[ps], qs)
  <1> DEFINE l == Len(ps)
  <1>1. ps \in Seq(Seq(Char)) /\ l \in Nat /\ \A i \in 1..l : ps[i] \in Piece
    BY LongerTypes, LenProperties, ElementOfSeq
  <1>2. PICK n \in 0..l :
           \/ qs = SubSeq(ps, 1, n)
           \/ n > 0 /\ \E k \in 1..Len(ps[n]) : qs = Append(SubSeq(ps, 1, n - 1), SubSeq(ps[n], 1, k))
    BY DEF Shortened
  <1>3. ASSUME NEW rs \in Seq(Seq(Char)), n <= Len(rs), \A i \in 1..n : rs[i] = ps[i]
        PROVE  Shortened(rs, qs)
    <2>1. /\ n \in 0..Len(rs) /\ n <= l /\ n \in Nat
          /\ n > 0 => rs[n] = ps[n]
      BY <1>1, <1>3, LenProperties
    <2>2. SubSeq(rs, 1, n) = SubSeq(ps, 1, n)
      BY <2>1, <1>1, <1>3, SameBeginning
    <2>3. n > 0 => SubSeq(rs, 1, n - 1) = SubSeq(ps, 1, n - 1)
      <3>1. n > 0 => /\ n - 1 \in Nat /\ n - 1 <= Len(rs) /\ n - 1 <= l
                     /\ \A i \in 1..(n - 1) : rs[i] = ps[i]
        BY <1>1, <1>3, LenProperties
      <3> HIDE DEF l
      <3> QED BY <3>1, <1>1, <1>3, SameBeginning DEF l
    <2> QED BY <2>1, <2>2, <2>3, <1>2 DEF Shortened
  <1>4. CASE ps = <<>> \/ Whole(ps[l])
    <2>1. Longer(c)[ps] = Append(ps, <<c>>)
      <3> HIDE DEF l
      <3> QED BY <1>1, <1>4, LongerIs DEF l
    <2>2. <<c>> \in Seq(Char)
      OBVIOUS
    <2>3. /\ Append(ps, <<c>>) \in Seq(Seq(Char)) /\ Len(Append(ps, <<c>>)) = l + 1
          /\ \A i \in 1..l : Append(ps, <<c>>)[i] = ps[i]
      BY <2>2, <1>1, AppendProperties
    <2>4. n <= l + 1 /\ \A i \in 1..n : Append(ps, <<c>>)[i] = ps[i]
      BY <2>3, <1>1
    <2> QED BY <2>1, <2>3, <2>4, <1>3
  <1>5. CASE ~ (ps = <<>> \/ Whole(ps[l]))
    <2> DEFINE e == Append(ps[l], c)
               rs == [ps EXCEPT ![l] = e]
    <2>1. l \in 1..l
      BY <1>5, EmptySeq
    <2>2. ps[l] \in Piece /\ ps[l] \in Seq(Char) /\ Len(ps[l]) \in Nat \ {0}
      BY <2>1, <1>1, EmptySeq DEF Piece
    <2>3. /\ e \in Seq(Char) /\ Len(e) = Len(ps[l]) + 1
          /\ \A i \in 1..Len(ps[l]) : e[i] = ps[l][i]
      BY <2>2, AppendProperties
    <2>4. Longer(c)[ps] = rs
      BY <1>1, <1>5, LongerIs
    <2> HIDE DEF e
    <2>5. /\ rs \in Seq(Seq(Char)) /\ Len(rs) = l /\ rs[l] = e
          /\ \A i \in 1..l : i # l => rs[i] = ps[i]
      BY <2>1, <2>3, <1>1, ExceptSeq
    <2> HIDE DEF rs
    <2>6. CASE n < l
      BY <2>4, <2>5, <2>6, <1>1, <1>3
    <2>7. CASE n = l
      <3>1. ASSUME NEW k \in 1..Len(ps[l]) PROVE SubSeq(e, 1, k) = SubSeq(ps[l], 1, k)
        <4>1. k \in Nat /\ k <= Len(e) /\ k <= Len(ps[l]) /\ \A i \in 1..k : e[i] = ps[l][i]
          BY <2>2, <2>3
        <4> QED BY <4>1, <2>2, <2>3, SameBeginning
      <3>2. SubSeq(rs, 1, l - 1) = SubSeq(ps, 1, l - 1)
        <4>1. /\ l - 1 \in Nat /\ l - 1 <= Len(rs) /\ l - 1 <= l
              /\ \A i \in 1..(l - 1) : rs[i] = ps[i]
          BY <2>1, <2>5, <1>1
        <4> QED BY <4>1, <2>5, <1>1, SameBeginning
      <3>3. ASSUME NEW k \in 1..Len(ps[l]), qs = Append(SubSeq(ps, 1, l - 1), SubSeq(ps[l], 1, k))
            PROVE  Shortened(rs, qs)
        <4>1. qs = Append(SubSeq(rs, 1, l - 1), SubSeq(rs[l], 1, k))
          BY <3>1, <3>2, <3>3, <2>5
        <4>2. k \in 1..Len(rs[l]) /\ l > 0 /\ l \in 0..Len(rs)
          BY <2>1, <2>2, <2>3, <2>5, <1>1
        <4> QED BY <4>1, <4>2 DEF Shortened
      <3>4. CASE qs = SubSeq(ps, 1, l)
        <4>1. SubSeq(ps, 1, l) = SubSeq(ps, 1, l - 1) \o <<ps[l]>>
          <5>1. 1 \in 1..Len(ps) /\ l \in 1..Len(ps)
            BY <2>1
          <5> QED BY <5>1, <1>1, SubSeqRecursiveSecond
        <4>2. SubSeq(ps, 1, l - 1) \in Seq(Seq(Char))
          <5>1. l - 1 \in 0..l
            BY <2>1, <1>1
          <5> QED BY <5>1, <1>1, Slices
        <4>3. SubSeq(ps, 1, l) = Append(SubSeq(ps, 1, l - 1), ps[l])
          BY <4>1, <4>2, <2>2, AppendIsConcat
        <4>4. Len(ps[l]) \in 1..Len(ps[l]) /\ SubSeq(ps[l], 1, Len(ps[l])) = ps[l]
          BY <2>2, SubSeqFull
        <4>5. qs = Append(SubSeq(ps, 1, l - 1), SubSeq(ps[l], 1, Len(ps[l])))
          BY <3>4, <4>3, <4>4
        <4> HIDE DEF l
        <4> QED BY <3>3, <4>4, <4>5, <2>4
      <3> QED BY <3>3, <3>4, <2>4, <2>7, <1>2
    <2> QED BY <2>6, <2>7, <1>1
  <1> QED BY <1>4, <1>5

\* A beginning of a text is seen as pieces of it, the last one perhaps cut short.
LEMMA CutBeginning ==
    ASSUME NEW a \in Seq(Char), NEW b \in Seq(Char)
    PROVE  Shortened(Cut(a \o b), Cut(a))
  <1> DEFINE T == {t \in Seq(Char) : Shortened(Cut(a \o t), Cut(a))}
  <1>1. <<>> \in T
    <2>1. a \o <<>> = a
      BY ConcatEmptySeq
    <2>2. SubSeq(Cut(a), 1, Len(Cut(a))) = Cut(a) /\ Len(Cut(a)) \in 0..Len(Cut(a))
      BY CutTypes, SubSeqFull, LenProperties
    <2>3. Shortened(Cut(a), Cut(a))
      BY <2>2 DEF Shortened
    <2>4. <<>> \in Seq(Char)
      OBVIOUS
    <2> QED BY <2>1, <2>3, <2>4
  <1>2. \A t \in Seq(Char), c \in Char : t \in T => Append(t, c) \in T
    <2>1. SUFFICES ASSUME NEW t \in Seq(Char), NEW c \in Char, Shortened(Cut(a \o t), Cut(a))
                   PROVE  /\ Append(t, c) \in Seq(Char)
                          /\ Shortened(Cut(a \o Append(t, c)), Cut(a))
      OBVIOUS
    <2>2. Append(t, c) \in Seq(Char) /\ a \o t \in Seq(Char)
      BY AppendProperties, ConcatProperties
    <2>3. a \o Append(t, c) = Append(a \o t, c)
      OBVIOUS
    <2>4. Cut(Append(a \o t, c)) = Longer(c)[Cut(a \o t)] /\ Cut(a \o t) \in Seq(Piece)
      BY <2>2, CutGrows, CutTypes
    <2>5. Shortened(Longer(c)[Cut(a \o t)], Cut(a))
      BY <2>1, <2>4, LongerShortens
    <2> QED BY <2>2, <2>3, <2>4, <2>5
  <1>3. Seq(Char) \subseteq T
    <2> HIDE DEF T
    <2> QED BY <1>1, <1>2, Grown
  <1> QED BY <1>3

-----------------------------------------------------------------------------
(* A line in pieces *)

LEMMA Quotient ==
    ASSUME NEW q \in Nat, NEW n \in Nat, n > 0, NEW r \in 0..(n - 1)
    PROVE  (q * n + r) \div n = q
  <1> DEFINE a == q * n + r
  <1>1. a \in Int
    OBVIOUS
  <1>2. a = (a \div n) * n + (a % n) /\ a \div n \in Int /\ a % n \in 0..(n - 1)
    <2> HIDE DEF a
    <2>1. (a \div n) * n + (a % n) = a
      BY <1>1, Z3
    <2> QED BY <2>1, <1>1
  <1>3. PICK p \in Int, s \in 0..(n - 1) : p = a \div n /\ a = p * n + s
    <2> HIDE DEF a
    <2> QED BY <1>2
  <1>4. (q - p) * n = s - r
    BY <1>3
  <1>5. ~ (q - p >= 1)
    <2> SUFFICES ASSUME q - p >= 1 PROVE FALSE
      OBVIOUS
    <2>1. (q - p) * n >= n
      OBVIOUS
    <2> QED BY <1>4, <2>1
  <1>6. ~ (p - q >= 1)
    <2> SUFFICES ASSUME p - q >= 1 PROVE FALSE
      OBVIOUS
    <2>1. (p - q) * n >= n /\ (p - q) * n = - ((q - p) * n)
      OBVIOUS
    <2> QED BY <1>4, <2>1
  <1> QED BY <1>3, <1>5, <1>6

\* A line of a length has so many pieces.
Holds(n, length) == length <= n * MaxPiece /\ n * MaxPiece < length + MaxPiece

LEMMA PieceCount ==
    ASSUME NEW text \in Seq(Char), NEW n \in Nat, Holds(n, Len(text))
    PROVE  Stream!Pieces(text) =
              [i \in 1..n |-> SubSeq(text, (i - 1) * MaxPiece + 1,
                                     IF i = n THEN Len(text) ELSE i * MaxPiece)]
  <1> DEFINE M == MaxPiece
             r == Len(text) + M - 1 - n * M
  <1>1. M \in Nat /\ M >= 1 /\ Len(text) \in Nat
    BY MaxPieceIs, LenProperties
  <1> HIDE DEF M
  <1>2. n * M \in Nat
    BY <1>1
  <1>3. Len(text) <= n * M /\ n * M < Len(text) + M
    BY DEF Holds, M
  <1>4. r \in 0..(M - 1) /\ n * M + r = Len(text) + M - 1
    <2>1. PICK x \in Nat : x = n * M
      BY <1>2
    <2> QED BY <2>1, <1>1, <1>3
  <1>5. (Len(text) + M - 1) \div M = n
    <2> HIDE DEF r
    <2>1. (n * M + r) \div M = n
      BY <1>1, <1>4, Quotient
    <2> QED BY <2>1, <1>4
  <1> QED BY <1>5 DEF Stream!Pieces, M

\* A part of a text does not change when the text gets longer.
LEMMA PartKept ==
    ASSUME NEW s \in Seq(Char), NEW c \in Char, NEW i \in Nat, i >= 1, NEW j \in Nat, j <= Len(s)
    PROVE  /\ SubSeq(Append(s, c), i, j) = SubSeq(s, i, j)
           /\ SubSeq(s, i, j) \in Seq(Char)
           /\ Len(SubSeq(s, i, j)) = IF i <= j THEN j - i + 1 ELSE 0
           /\ \A k \in 1..(j - i + 1) : SubSeq(s, i, j)[k] = s[i + k - 1]
  <1>1. /\ Append(s, c) \in Seq(Char) /\ Len(Append(s, c)) = Len(s) + 1 /\ Len(s) \in Nat
        /\ \A k \in 1..Len(s) : Append(s, c)[k] = s[k]
    BY AppendProperties, LenProperties
  <1>2. \A k \in i..j : k \in 1..Len(s) /\ s[k] \in Char /\ Append(s, c)[k] = s[k]
    <2>1. \A k \in i..j : k \in 1..Len(s)
      BY <1>1
    <2> QED BY <2>1, <1>1, ElementOfSeq
  <1> DEFINE t == Append(s, c)
  <1> HIDE DEF t
  <1>3. \A k \in i..j : t[k] \in Char
    BY <1>2 DEF t
  <1>4. /\ SubSeq(s, i, j) \in Seq(Char)
        /\ Len(SubSeq(s, i, j)) = IF i <= j THEN j - i + 1 ELSE 0
        /\ \A k \in 1..(j - i + 1) : SubSeq(s, i, j)[k] = s[i + k - 1]
    BY <1>2, SubSeqProperties
  <1>5. /\ SubSeq(t, i, j) \in Seq(Char)
        /\ Len(SubSeq(t, i, j)) = IF i <= j THEN j - i + 1 ELSE 0
        /\ \A k \in 1..(j - i + 1) : SubSeq(t, i, j)[k] = t[i + k - 1]
    BY <1>3, SubSeqProperties
  <1>6. \A k \in 1..Len(SubSeq(t, i, j)) : SubSeq(t, i, j)[k] = SubSeq(s, i, j)[k]
    <2>1. ASSUME NEW k \in 1..Len(SubSeq(t, i, j)) PROVE SubSeq(t, i, j)[k] = SubSeq(s, i, j)[k]
      <3>1. i <= j /\ k \in 1..(j - i + 1) /\ i + k - 1 \in i..j
        BY <2>1, <1>5
      <3>2. t[i + k - 1] = s[i + k - 1]
        BY <3>1, <1>2 DEF t
      <3> QED BY <3>1, <3>2, <1>4, <1>5
    <2> QED BY <2>1
  <1>7. SubSeq(t, i, j) = SubSeq(s, i, j)
    BY <1>4, <1>5, <1>6, SeqEqual
  <1> QED BY <1>4, <1>7 DEF t

\* The last piece of a text that gets longer.
LEMMA PartGrows ==
    ASSUME NEW s \in Seq(Char), NEW c \in Char, NEW i \in 1..(Len(s) + 1)
    PROVE  SubSeq(Append(s, c), i, Len(s) + 1) = Append(SubSeq(s, i, Len(s)), c)
  <1> DEFINE t == Append(s, c)
             n == Len(s)
  <1>1. n \in Nat /\ t \in Seq(Char) /\ Len(t) = n + 1 /\ t[n + 1] = c
    BY AppendProperties, LenProperties
  <1>2. SubSeq(t, i, n + 1) = SubSeq(t, i, n) \o <<t[n + 1]>>
    <2>1. i \in 1..Len(t) /\ n + 1 \in i..Len(t) /\ (n + 1) - 1 = n
      BY <1>1
    <2> HIDE DEF t
    <2> QED BY <2>1, <1>1, SubSeqRecursiveSecond
  <1>3. SubSeq(t, i, n) = SubSeq(s, i, n) /\ SubSeq(s, i, n) \in Seq(Char)
    <2>1. i \in Nat /\ i >= 1 /\ n <= Len(s)
      BY <1>1
    <2> QED BY <2>1, <1>1, PartKept
  <1>4. SubSeq(s, i, n) \o <<c>> = Append(SubSeq(s, i, n), c)
    BY <1>3, AppendIsConcat
  <1> QED BY <1>1, <1>2, <1>3, <1>4

\* A text that a receiver sees no line end in.
Unended(text) == \A i \in 1..Len(text) : text[i] # Newline

\* With one more character a text that does not end yet has one more piece, when
\* its pieces were full, or a longer last one.
LEMMA PiecesGrow ==
    ASSUME NEW s \in Seq(Char), NEW c \in Char, Unended(s), Cut(s) = Stream!Pieces(s)
    PROVE  Cut(Append(s, c)) = Stream!Pieces(Append(s, c))
  <1> DEFINE M == MaxPiece
             L == Len(s)
             t == Append(s, c)
  <1>1. M \in Nat /\ M >= 1 /\ L \in Nat
    BY MaxPieceIs, LenProperties
  <1>2. t \in Seq(Char) /\ Len(t) = L + 1
    BY AppendProperties
  <1> HIDE DEF M, L
  <1>3. PICK n \in Nat : L <= n * M /\ n * M < L + M
    <2>1. (L + M - 1) = ((L + M - 1) \div M) * M + ((L + M - 1) % M)
      <3> DEFINE a == L + M - 1
      <3>1. a \in Int
        BY <1>1
      <3> HIDE DEF a
      <3>2. (a \div M) * M + (a % M) = a
        BY <1>1, <3>1, Z3
      <3> QED BY <3>2 DEF a
    <2>2. PICK q \in Int, r \in 0..(M - 1) : L + M - 1 = q * M + r
      <3> DEFINE a == L + M - 1
      <3>1. a \in Int
        BY <1>1
      <3> HIDE DEF a
      <3>2. a \div M \in Int /\ a % M \in 0..(M - 1)
        BY <3>1, <1>1
      <3> QED BY <3>2, <2>1 DEF a
    <2>3. q >= 0
      <3>1. ~ (q <= -1)
        <4> SUFFICES ASSUME q <= -1 PROVE FALSE
          OBVIOUS
        <4>1. q * M <= - M
          BY <1>1
        <4> QED BY <4>1, <2>2, <1>1
      <3> QED BY <3>1
    <2>4. PICK x \in Int : x = q * M
      BY <1>1
    <2>5. L <= x /\ x < L + M
      BY <2>2, <2>4, <1>1
    <2> QED BY <2>3, <2>4, <2>5
  <1>4. PICK at, end :
           \A i \in Int : at[i] = (i - 1) * M + 1 /\ end[i] = i * M
    <2> DEFINE f == [i \in Int |-> (i - 1) * M + 1]
               g == [i \in Int |-> i * M]
    <2>1. \A i \in Int : (i - 1) * M + 1 \in Int /\ i * M \in Int
      BY <1>1
    <2>2. f \in [Int -> Int] /\ g \in [Int -> Int]
      BY <2>1
    <2>3. \A i \in Int : f[i] = (i - 1) * M + 1 /\ g[i] = i * M
      OBVIOUS
    <2> HIDE DEF f, g
    <2> QED BY <2>2, <2>3
  <1>5. /\ end[n] \in Nat /\ L <= end[n] /\ end[n] < L + M /\ (n = 0 => end[n] = 0)
        /\ end[n + 1] = end[n] + M /\ at[n + 1] = end[n] + 1
    <2>1. n \in Int /\ n + 1 \in Int /\ (n + 1) - 1 = n
      OBVIOUS
    <2>2. end[n] = n * M /\ end[n + 1] = (n + 1) * M /\ at[n + 1] = n * M + 1
      BY <2>1, <1>4
    <2>3. n * M \in Nat /\ (n = 0 => n * M = 0) /\ (n + 1) * M = n * M + M
      BY <1>1
    <2> QED BY <2>2, <2>3, <1>3
  <1>6. \A i \in 1..n : /\ at[i] \in Nat /\ at[i] >= 1 /\ end[i] \in Nat
                        /\ end[i] = at[i] + M - 1 /\ end[i] <= end[n]
                        /\ i # n => end[i] + M <= end[n]
    <2> SUFFICES ASSUME NEW i \in 1..n
                 PROVE  /\ at[i] \in Nat /\ at[i] >= 1 /\ end[i] \in Nat
                        /\ end[i] = at[i] + M - 1 /\ end[i] <= end[n]
                        /\ i # n => end[i] + M <= end[n]
      OBVIOUS
    <2>1. (i - 1) * M \in Nat /\ i * M = (i - 1) * M + M
      BY <1>1
    <2>2. n * M = i * M + (n - i) * M /\ (n - i) * M \in Nat
      BY <1>1
    <2>3. i # n => (n - i) * M >= M
      BY <1>1
    <2>4. i \in Int /\ n \in Int
      OBVIOUS
    <2>5. at[i] = (i - 1) * M + 1 /\ end[i] = i * M /\ end[n] = n * M
      BY <2>4, <1>4
    <2>6. PICK x \in Nat, y \in Nat, m \in Nat : x = (i - 1) * M /\ y = (n - i) * M /\ m = M
      BY <2>1, <2>2, <1>1
    <2>7. /\ at[i] = x + 1 /\ end[i] = x + m /\ end[n] = x + m + y /\ m >= 1
          /\ i # n => y >= m
      BY <2>1, <2>2, <2>3, <2>5, <2>6, <1>1
    <2>8. i # n => x + m + m <= x + m + y
      BY <2>7
    <2>9. x + 1 >= 1 /\ x + m = x + 1 + m - 1 /\ x + m <= x + m + y
      OBVIOUS
    <2> QED BY <2>6, <2>7, <2>8, <2>9
  <1>7. \A text \in Seq(Char), p \in Nat : Holds(p, Len(text)) =>
           Stream!Pieces(text) =
              [i \in 1..p |-> SubSeq(text, at[i], IF i = p THEN Len(text) ELSE end[i])]
    <2>1. SUFFICES ASSUME NEW text \in Seq(Char), NEW p \in Nat, Holds(p, Len(text))
                   PROVE  Stream!Pieces(text) =
                      [i \in 1..p |-> SubSeq(text, at[i], IF i = p THEN Len(text) ELSE end[i])]
      OBVIOUS
    <2>2. Stream!Pieces(text) =
              [i \in 1..p |-> SubSeq(text, (i - 1) * M + 1, IF i = p THEN Len(text) ELSE i * M)]
      BY <2>1, PieceCount DEF M
    <2>3. \A i \in 1..p : i \in Int
      OBVIOUS
    <2>4. \A i \in 1..p : at[i] = (i - 1) * M + 1 /\ end[i] = i * M
      BY <2>3, <1>4
    <2> QED BY <2>2, <2>4
  <1>8. Cut(s) = [i \in 1..n |-> SubSeq(s, at[i], IF i = n THEN L ELSE end[i])]
    <2>1. Holds(n, Len(s))
      BY <1>3 DEF Holds, M, L
    <2> QED BY <2>1, <1>7 DEF L
  <1>9. Cut(t) = Longer(c)[Cut(s)] /\ Cut(s) \in Seq(Piece) /\ Cut(s) \in Seq(Seq(Char))
    BY CutGrows, CutTypes
  <1>10. Len(Cut(s)) = n
    BY <1>8
  <1>11. PICK l \in Nat, m \in Nat, top \in Nat :
            l = L /\ m = M /\ top = end[n]
    BY <1>1, <1>5
  <1>12. m >= 1 /\ l <= top /\ top < l + m /\ (n = 0 => top = 0)
    BY <1>1, <1>5, <1>11
  <1>13. \A i \in 1..n : \E a, e \in Nat :
            /\ a = at[i] /\ e = end[i] /\ a >= 1 /\ e = a + m - 1 /\ e <= top
            /\ i # n => e + m <= top
    <2> SUFFICES ASSUME NEW i \in 1..n
                 PROVE  \E a, e \in Nat :
                           /\ a = at[i] /\ e = end[i] /\ a >= 1 /\ e = a + m - 1 /\ e <= top
                           /\ i # n => e + m <= top
      OBVIOUS
    <2>1. /\ at[i] \in Nat /\ at[i] >= 1 /\ end[i] \in Nat
          /\ end[i] = at[i] + M - 1 /\ end[i] <= end[n]
          /\ i # n => end[i] + M <= end[n]
      BY <1>6
    <2>2. PICK a \in Nat, e \in Nat : a = at[i] /\ e = end[i]
      BY <2>1
    <2>3. /\ a >= 1 /\ e = a + m - 1 /\ e <= top
          /\ i # n => e + m <= top
      BY <2>1, <2>2, <1>11
    <2> QED BY <2>2, <2>3
  <1>14. \A i \in 1..n : i # n => end[i] <= L
    <2> SUFFICES ASSUME NEW i \in 1..n, i # n PROVE end[i] <= L
      OBVIOUS
    <2>1. PICK e \in Nat : e = end[i] /\ e + m <= top
      BY <1>13
    <2>2. e <= l
      BY <2>1, <1>12
    <2> QED BY <2>1, <2>2, <1>11
  <1>15. n > 0 => \E a \in Nat : a = at[n] /\ a >= 1 /\ top = a + m - 1 /\ a <= l /\ top - a + 1 = m
    <2> SUFFICES ASSUME n > 0 PROVE \E a \in Nat : a = at[n] /\ a >= 1 /\ top = a + m - 1 /\ a <= l /\ top - a + 1 = m
      OBVIOUS
    <2>1. n \in 1..n
      OBVIOUS
    <2>2. PICK a \in Nat, e \in Nat : a = at[n] /\ e = end[n] /\ a >= 1 /\ e = a + m - 1
      BY <2>1, <1>13
    <2>3. top = a + m - 1
      BY <2>2, <1>11
    <2>4. a <= l
      BY <2>3, <1>12
    <2>5. top - a + 1 = m
      BY <2>3
    <2> QED BY <2>2, <2>3, <2>4, <2>5
  <1>16. CASE L = end[n]
    <2> DEFINE F(i) == SubSeq(t, at[i], IF i = n + 1 THEN Len(t) ELSE end[i])
    <2>1. Stream!Pieces(t) = [i \in 1..(n + 1) |-> F(i)]
      <3>1. l = top /\ Len(t) = l + 1 /\ end[n + 1] = top + m
        BY <1>2, <1>16, <1>5, <1>11
      <3>2. l + 1 <= top + m /\ top + m < l + 1 + m
        BY <3>1, <1>12
      <3>3. n + 1 \in Nat /\ (n + 1) * M = top + m
        BY <3>1, <1>4
      <3>4. Holds(n + 1, Len(t)) /\ n + 1 \in Nat
        BY <3>1, <3>2, <3>3, <1>11 DEF Holds, M
      <3> HIDE DEF t
      <3> QED BY <3>4, <1>2, <1>7
    <2>2. ASSUME NEW i \in 1..n PROVE F(i) = Cut(s)[i]
      <3>1. PICK a \in Nat, e \in Nat : a = at[i] /\ e = end[i] /\ a >= 1 /\ e <= top
        BY <1>13
      <3>2. e <= l /\ i # n + 1 /\ l = Len(s)
        BY <3>1, <1>16, <1>11 DEF L
      <3>3. i # n + 1 /\ end[i] <= Len(s) /\ at[i] \in Nat /\ at[i] >= 1 /\ end[i] \in Nat
        BY <3>1, <3>2
      <3>4. F(i) = SubSeq(t, at[i], end[i])
        BY <3>3
      <3>5. SubSeq(t, at[i], end[i]) = SubSeq(s, at[i], end[i])
        <4>1. a >= 1 /\ e <= Len(s)
          BY <3>1, <3>2
        <4> HIDE DEF t
        <4>2. SubSeq(Append(s, c), a, e) = SubSeq(s, a, e)
          BY <4>1, PartKept
        <4> QED BY <4>2, <3>1 DEF t
      <3>6. Cut(s)[i] = SubSeq(s, at[i], IF i = n THEN L ELSE end[i])
        BY <1>8
      <3>7. (IF i = n THEN L ELSE end[i]) = end[i]
        BY <1>16
      <3> QED BY <3>4, <3>5, <3>6, <3>7
    <2>3. F(n + 1) = <<c>>
      <3>1. at[n + 1] = L + 1 /\ Len(t) = L + 1
        BY <1>1, <1>2, <1>16, <1>5
      <3>2. F(n + 1) = SubSeq(t, L + 1, L + 1)
        BY <3>1
      <3>3. SubSeq(t, L + 1, L + 1) = Append(SubSeq(s, L + 1, L), c)
        <4>1. L + 1 \in 1..(L + 1)
          BY <1>1
        <4> QED BY <4>1, PartGrows DEF L
      <3>4. SubSeq(s, L + 1, L) = <<>>
        BY <1>1, SubSeqEmpty
      <3>5. Append(<<>>, c) = <<c>>
        OBVIOUS
      <3> QED BY <3>2, <3>3, <3>4, <3>5
    <2>4. Cut(s) = <<>> \/ Whole(Cut(s)[Len(Cut(s))])
      <3>1. CASE n = 0
        <4>1. Len(Cut(s)) = 0
          BY <3>1, <1>10
        <4> QED BY <4>1, <1>9, EmptySeq
      <3>2. CASE n # 0
        <4>1. n \in 1..n
          BY <3>2
        <4>2. Cut(s)[n] = SubSeq(s, at[n], L)
          BY <4>1, <1>8
        <4>3. PICK a \in Nat : a = at[n] /\ a >= 1 /\ a <= l /\ top - a + 1 = m
          BY <3>2, <1>15
        <4>4. l = Len(s) /\ top = l
          BY <1>16, <1>11 DEF L
        <4>5. l - a + 1 = m
          <5>1. l = top
            BY <4>4
          <5>2. top - a + 1 = m
            BY <4>3
          <5> QED BY <5>1, <5>2
        <4>6. l <= Len(s) /\ l - a + 1 = m
          BY <4>4, <4>5
        <4>7. Len(SubSeq(s, at[n], L)) = M
          <5>1. Len(SubSeq(s, a, l)) = m
            <6>1. l - a + 1 = m /\ a <= l
            BY <4>3, <4>6
          <6>2. Len(SubSeq(s, a, l)) = IF a <= l THEN l - a + 1 ELSE 0
            BY <4>3, <4>6, PartKept
          <6> QED BY <6>1, <6>2
          <5> QED BY <4>3, <5>1, <1>11
        <4> QED BY <4>2, <4>7, <1>10 DEF Whole, M
      <3> QED BY <3>1, <3>2
    <2>5. Cut(t) = Append(Cut(s), <<c>>)
      BY <2>4, <1>9, LongerIs
    <2> HIDE DEF F
    <2>6. Append(Cut(s), <<c>>) = [i \in 1..(n + 1) |-> F(i)]
      <3>1. <<c>> \in Seq(Char)
        OBVIOUS
      <3>2. /\ Append(Cut(s), <<c>>) \in Seq(Seq(Char)) /\ Len(Append(Cut(s), <<c>>)) = n + 1
            /\ \A i \in 1..n : Append(Cut(s), <<c>>)[i] = Cut(s)[i]
            /\ Append(Cut(s), <<c>>)[n + 1] = <<c>>
        <4>1. Cut(s) \in Seq(Seq(Char)) /\ Len(Cut(s)) = n
          BY <1>9, <1>10
        <4>2. Len(Append(Cut(s), <<c>>)) = n + 1
          BY <3>1, <4>1, AppendProperties
        <4>3. Append(Cut(s), <<c>>)[n + 1] = <<c>>
          BY <3>1, <4>1, AppendProperties
        <4>4. \A i \in 1..n : Append(Cut(s), <<c>>)[i] = Cut(s)[i]
          BY <3>1, <4>1, AppendProperties
        <4>5. Append(Cut(s), <<c>>) \in Seq(Seq(Char))
          BY <3>1, <4>1, AppendProperties
        <4> QED BY <4>2, <4>3, <4>4, <4>5
      <3>3. \A i \in 1..(n + 1) : Append(Cut(s), <<c>>)[i] = F(i)
        <4>1. \A i \in 1..(n + 1) : i \in 1..n \/ i = n + 1
          OBVIOUS
        <4> QED BY <4>1, <3>2, <2>2, <2>3
      <3>4. Append(Cut(s), <<c>>) \in [1..(n + 1) -> Seq(Char)]
        BY <3>2, LenProperties
      <3> QED BY <3>3, <3>4
    <2> QED BY <2>1, <2>5, <2>6
  <1>17. CASE L # end[n]
    <2> DEFINE F(i) == SubSeq(t, at[i], IF i = n THEN Len(t) ELSE end[i])
               q == SubSeq(s, at[n], L)
    <2>1. l < top /\ n > 0 /\ l = Len(s)
      <3>1. l # top /\ l = Len(s)
        BY <1>17, <1>11 DEF L
      <3> QED BY <3>1, <1>12
    <2>2. PICK a \in Nat : a = at[n] /\ a >= 1 /\ a <= l /\ top = a + m - 1
      BY <2>1, <1>15
    <2>3. Stream!Pieces(t) = [i \in 1..n |-> F(i)]
      <3>1. l + 1 <= top /\ top < l + 1 + m
        BY <2>1, <1>12
      <3>2. n * M = top
        BY <1>4, <1>11
      <3>3. Holds(n, Len(t))
        BY <3>1, <3>2, <1>2, <1>11 DEF Holds, M
      <3> HIDE DEF t
      <3> QED BY <3>3, <1>2, <1>7
    <2>4. ASSUME NEW i \in 1..n, i # n PROVE F(i) = Cut(s)[i]
      <3>1. PICK b \in Nat, e \in Nat : b = at[i] /\ e = end[i] /\ b >= 1 /\ e + m <= top
        BY <2>4, <1>13
      <3>2. e <= l
        BY <3>1, <1>12
      <3>3. SubSeq(t, b, e) = SubSeq(s, b, e)
        <4>1. b >= 1 /\ e <= Len(s)
          BY <3>1, <3>2, <2>1
        <4> QED BY <4>1, PartKept
      <3>4. SubSeq(t, at[i], end[i]) = SubSeq(s, at[i], end[i])
        BY <3>1, <3>3
      <3> QED BY <3>4, <2>4, <1>8
    <2>5. n \in 1..n /\ Cut(s)[n] = q
      <3>1. n \in 1..n
        BY <2>1
      <3> QED BY <3>1, <1>8
    <2>6. a \in 1..(l + 1) /\ l - a + 1 < m /\ l - a + 1 \in Nat /\ l - a + 1 >= 1
      BY <2>1, <2>2
    <2>7. /\ q \in Seq(Char) /\ Len(q) = l - a + 1
          /\ \A k \in 1..(l - a + 1) : q[k] = s[a + k - 1]
      <3>1. q = SubSeq(s, a, l)
        BY <2>2, <1>11
      <3>2. a >= 1 /\ l <= Len(s) /\ a <= l
        BY <2>1, <2>2
      <3> HIDE DEF q
      <3>3. /\ SubSeq(s, a, l) \in Seq(Char)
            /\ Len(SubSeq(s, a, l)) = IF a <= l THEN l - a + 1 ELSE 0
            /\ \A k \in 1..(l - a + 1) : SubSeq(s, a, l)[k] = s[a + k - 1]
        BY <3>2, PartKept
      <3> QED BY <3>1, <3>2, <3>3
    <2>8. F(n) = Append(q, c)
      <3>1. SubSeq(t, a, l + 1) = Append(SubSeq(s, a, l), c)
        BY <2>1, <2>6, PartGrows
      <3>2. F(n) = SubSeq(t, at[n], L + 1)
        BY <1>2
      <3> QED BY <3>1, <3>2, <2>2, <1>11
    <2>9. ~ (Cut(s) = <<>> \/ Whole(Cut(s)[Len(Cut(s))]))
      <3>1. Cut(s) # <<>>
        <4>1. Len(<<>>) = 0
          OBVIOUS
        <4> QED BY <4>1, <2>1, <1>10
      <3>2. Len(q) # M
        BY <2>6, <2>7, <1>11
      <3>3. q[Len(q)] # Newline
        <4>1. Len(q) \in 1..(l - a + 1) /\ a + Len(q) - 1 = l /\ l \in 1..Len(s)
          <5>1. PICK x \in Nat : x = Len(q) /\ x = l - a + 1
            BY <2>6, <2>7
          <5>2. x >= 1 /\ a + x - 1 = l
            BY <5>1, <2>6
          <5>3. l >= 1
            BY <2>2
          <5>4. x \in 1..(l - a + 1) /\ a + x - 1 = l /\ l \in 1..l
            BY <5>1, <5>2, <5>3
          <5> QED BY <5>1, <5>4, <2>1
        <4>2. q[Len(q)] = s[l]
          <5> HIDE DEF q
          <5> QED BY <4>1, <2>7
        <4> QED BY <4>1, <4>2 DEF Unended
      <3> HIDE DEF q
      <3> QED BY <3>1, <3>2, <3>3, <2>5, <1>10 DEF Whole, Last, M
    <2> HIDE DEF F, q
    <2>10. Cut(t) = [Cut(s) EXCEPT ![n] = Append(q, c)]
      BY <2>5, <2>9, <1>9, <1>10, LongerIs
    <2>11. Append(q, c) \in Seq(Char)
      BY <2>7, AppendProperties
    <2>12. /\ Cut(t) \in Seq(Seq(Char)) /\ Len(Cut(t)) = n
           /\ \A i \in 1..n : Cut(t)[i] = IF i = n THEN Append(q, c) ELSE Cut(s)[i]
      BY <2>5, <2>10, <2>11, <1>9, <1>10, ExceptSeq
    <2>13. \A i \in 1..n : Cut(t)[i] = F(i)
      BY <2>4, <2>8, <2>12
    <2>14. Cut(t) \in [1..n -> Seq(Char)]
      BY <2>12, LenProperties
    <2>15. Cut(t) = [i \in 1..n |-> F(i)]
      BY <2>13, <2>14
    <2> QED BY <2>3, <2>15
  <1> QED BY <1>16, <1>17

\* A line is seen in the pieces that the abstract stream has of it.
LEMMA LineInPieces ==
    ASSUME NEW s \in Seq(Char), \A i \in 1..(Len(s) - 1) : s[i] # Newline
    PROVE  Cut(s) = Stream!Pieces(s)
  <1> DEFINE One(t) == \A i \in 1..(Len(t) - 1) : t[i] # Newline
             T == {t \in Seq(Char) : One(t) => Cut(t) = Stream!Pieces(t)}
  <1>1. <<>> \in T
    <2>1. <<>> \in Seq(Char) /\ Len(<<>>) = 0
      OBVIOUS
    <2>2. Holds(0, Len(<<>>)) /\ 0 \in Nat
      <3>1. 0 * MaxPiece = 0
        BY MaxPieceIs
      <3>2. 0 <= 0 * MaxPiece /\ 0 * MaxPiece < 0 + MaxPiece
        BY <3>1, MaxPieceIs
      <3> QED BY <2>1, <3>2 DEF Holds
    <2> DEFINE F(i) == SubSeq(<<>>, (i - 1) * MaxPiece + 1,
                              IF i = 0 THEN Len(<<>>) ELSE i * MaxPiece)
    <2>3. Stream!Pieces(<<>>) = [i \in 1..0 |-> F(i)]
      <3>1. \A t \in Seq(Char) : Holds(0, Len(t)) => Stream!Pieces(t) =
               [i \in 1..0 |-> SubSeq(t, (i - 1) * MaxPiece + 1,
                                     IF i = 0 THEN Len(t) ELSE i * MaxPiece)]
        BY PieceCount
      <3> QED BY <2>1, <2>2, <3>1
    <2>4. [i \in 1..0 |-> F(i)] = <<>>
      <3> HIDE DEF F
      <3> QED OBVIOUS
    <2> QED BY <2>1, <2>3, <2>4, CutNothing
  <1>2. \A t \in Seq(Char), c \in Char : t \in T => Append(t, c) \in T
    <2>1. SUFFICES ASSUME NEW t \in Seq(Char), NEW c \in Char, t \in T, One(Append(t, c))
                   PROVE  Cut(Append(t, c)) = Stream!Pieces(Append(t, c))
      BY AppendProperties
    <2>2. /\ Len(t) \in Nat /\ Len(Append(t, c)) = Len(t) + 1
          /\ \A i \in 1..Len(t) : Append(t, c)[i] = t[i]
      BY AppendProperties, LenProperties
    <2>3. \A i \in 1..Len(t) : t[i] # Newline
      <3>1. \A i \in 1..Len(t) : i \in 1..(Len(Append(t, c)) - 1)
        BY <2>2
      <3> QED BY <3>1, <2>1, <2>2
    <2>4. One(t)
      BY <2>2, <2>3
    <2>5. Cut(t) = Stream!Pieces(t)
      BY <2>1, <2>4
    <2>6. Unended(t)
      BY <2>3 DEF Unended
    <2> QED BY <2>5, <2>6, PiecesGrow
  <1>3. Seq(Char) \subseteq T
    <2> HIDE DEF T
    <2> QED BY <1>1, <1>2, Grown
  <1> QED BY <1>3

-----------------------------------------------------------------------------
(* The stream of pieces *)

\* What follows the beginning of a sequence ends it.
LEMMA LastOfBoth ==
    ASSUME NEW S, NEW x \in Seq(S), NEW y \in Seq(S), y # <<>>
    PROVE  (x \o y)[Len(x \o y)] = y[Len(y)] /\ x \o y # <<>>
  <1>1. Len(y) \in Nat /\ Len(y) >= 1 /\ Len(x) \in Nat
    BY EmptySeq, LenProperties
  <1>2. Len(x \o y) = Len(x) + Len(y)
    BY ConcatProperties
  <1>3. \A i \in 1..Len(y) : (x \o y)[Len(x) + i] = y[i]
    OBVIOUS
  <1>4. Len(y) \in 1..Len(y)
    BY <1>1
  <1>5. x \o y # <<>>
    <2>1. Len(x \o y) >= 1 /\ Len(<<>>) = 0
      BY <1>1, <1>2
    <2> QED BY <2>1
  <1> QED BY <1>2, <1>3, <1>4, <1>5

LEMMA FirstOfBoth ==
    ASSUME NEW S, NEW p \in S, NEW q \in Seq(S)
    PROVE  Head(<<p>> \o q) = p /\ Tail(<<p>> \o q) = q /\ <<p>> \o q # <<>>
  <1> DEFINE s == <<p>> \o q
  <1>1. /\ s \in Seq(S) /\ Len(s) = Len(q) + 1 /\ Len(q) \in Nat /\ s[1] = p
        /\ \A i \in 1..Len(q) : s[1 + i] = q[i]
    OBVIOUS
  <1> HIDE DEF s
  <1>2. s # <<>>
    <2>1. Len(s) # Len(<<>>)
      BY <1>1
    <2> QED BY <2>1
  <1>3. Head(s) = p
    BY <1>1, <1>2, HeadTailProperties
  <1>4. /\ Tail(s) \in Seq(S) /\ Len(Tail(s)) = Len(q)
        /\ \A i \in 1..Len(q) : Tail(s)[i] = s[i + 1]
    BY <1>1, <1>2, HeadTailProperties
  <1>5. \A i \in 1..Len(q) : Tail(s)[i] = q[i]
    <2>1. ASSUME NEW i \in 1..Len(q) PROVE Tail(s)[i] = q[i]
      <3>1. i + 1 = 1 + i
        OBVIOUS
      <3> QED BY <3>1, <1>1, <1>4
    <2> QED BY <2>1
  <1>6. Tail(s) = q
    BY <1>4, <1>5, SeqEqual
  <1> QED BY <1>2, <1>3, <1>6 DEF s

\* Only the last character of an encoded message is a newline.
LEMMA LineSpelled ==
    ASSUME NEW t \in Seq(Char), NEW d \in Seq(Char), NEW e, e = t \o <<Colon>> \o d \o <<Newline>>,
           \A i \in 1..Len(t) : t[i] # Newline, \A i \in 1..Len(d) : d[i] # Newline
    PROVE  \A i \in 1..Len(e) : i < Len(e) => e[i] # Newline
  <1>1. Len(t) \in Nat /\ Len(d) \in Nat /\ Len(e) = Len(t) + Len(d) + 2
    BY Spelled
  <1>2. ASSUME NEW i \in 1..Len(e), i < Len(e) PROVE e[i] # Newline
    <2>1. CASE i \in 1..Len(t)
      BY <2>1, <1>1, Spelled
    <2>2. CASE i = Len(t) + 1
      BY <2>2, <1>1, Spelled, CharactersAssumption
    <2>3. CASE i \in (Len(t) + 2)..(Len(t) + 1 + Len(d))
      <3> DEFINE j == i - Len(t) - 1
      <3>1. j \in 1..Len(d) /\ Len(t) + 1 + j = i
        <4>1. \A p, q \in Nat : \A x \in (p + 2)..(p + 1 + q) :
                 x - p - 1 \in 1..q /\ p + 1 + (x - p - 1) = x
          OBVIOUS
        <4> QED BY <4>1, <2>3, <1>1
      <3> HIDE DEF j
      <3>2. e[i] = d[j]
        BY <3>1, Spelled
      <3> QED BY <3>1, <3>2
    <2>4. i \in 1..Len(t) \/ i = Len(t) + 1 \/ i \in (Len(t) + 2)..(Len(t) + 1 + Len(d))
      <3>1. \A p, q \in Nat : \A x \in 1..(p + q + 2) : x < p + q + 2 =>
               x \in 1..p \/ x = p + 1 \/ x \in (p + 2)..(p + 1 + q)
        OBVIOUS
      <3> QED BY <3>1, <1>1, <1>2
    <2> QED BY <2>1, <2>2, <2>3, <2>4
  <1> QED BY <1>2

LEMMA EncodedIsALine ==
    ASSUME NEW m \in Messages
    PROVE  /\ Encode(m) \in Seq(Char) /\ Encode(m) # <<>>
           /\ Encode(m)[Len(Encode(m))] = Newline
           /\ \A i \in 1..(Len(Encode(m)) - 1) : Encode(m)[i] # Newline
  <1> DEFINE t == m.tag
             d == m.data
             e == Encode(m)
  <1>1. t \in Seq(Char) /\ d \in Seq(Char) /\ e = t \o <<Colon>> \o d \o <<Newline>>
    BY Encoded
  <1>2. /\ \A i \in 1..Len(t) : t[i] # Newline
        /\ \A i \in 1..Len(d) : d[i] # Newline
    <2>1. Newline \notin Range(t) /\ Newline \notin Range(d)
      BY LinesAssumption
    <2>2. DOMAIN t = 1..Len(t) /\ DOMAIN d = 1..Len(d)
      BY <1>1, LenProperties
    <2> HIDE DEF t, d
    <2> QED BY <2>1, <2>2 DEF Range
  <1> HIDE DEF t, d, e
  <1>3. e \in Seq(Char) /\ Len(e) \in Nat /\ Len(e) >= 2 /\ e[Len(e)] = Newline
    <2>1. Len(t) \in Nat /\ Len(d) \in Nat /\ Len(e) = Len(t) + Len(d) + 2
      BY <1>1, Spelled
    <2>2. e \in Seq(Char)
      BY <1>1, Spelled
    <2>3. e[Len(t) + Len(d) + 2] = Newline
      BY <1>1, Spelled
    <2> QED BY <2>1, <2>2, <2>3
  <1>4. \A i \in 1..Len(e) : i < Len(e) => e[i] # Newline
    BY <1>1, <1>2, LineSpelled
  <1>5. \A i \in 1..(Len(e) - 1) : i \in 1..Len(e) /\ i < Len(e)
    BY <1>3
  <1>6. e # <<>>
    <2>1. Len(<<>>) = 0
      OBVIOUS
    <2> QED BY <2>1, <1>3
  <1> QED BY <1>3, <1>4, <1>5, <1>6 DEF e

\* While the connection is open whole lines are on their way.
LinesWhole ==
    conn = "open" /\ OnItsWay # <<>> => OnItsWay[Len(OnItsWay)] = Newline

\* That no whole line waits in the line buffer, and that what is on its way ends
\* with a whole line, decide where the next pieces begin.
StreamInv == TypeOK /\ LineOpen /\ LinesWhole

LEMMA StreamInit == Init => StreamInv /\ Stream!Init
  <1> SUFFICES ASSUME Init PROVE StreamInv /\ Stream!Init
    OBVIOUS
  <1>1. TypeOK
    BY TypesInit
  <1>2. /\ pieces = <<>> /\ line = <<>> /\ unread = <<>> /\ wire = <<>>
        /\ rest = <<>> /\ conn = "open"
    BY DEF Init
  <1>3. OnItsWay = <<>>
    <2>1. <<>> \in Seq(Char)
      OBVIOUS
    <2>2. <<>> \o <<>> = <<>>
      BY <2>1, ConcatEmptySeq
    <2>3. OnItsWay = <<>> \o <<>> \o <<>> \o <<>>
      BY <1>2 DEF OnItsWay, Rest
    <2> QED BY <2>2, <2>3
  <1>4. LineOpen
    <2>1. 1..Len(line) = {}
      BY <1>2
    <2> QED BY <2>1 DEF LineOpen
  <1>5. Cut(OnItsWay) = <<>>
    BY <1>3, CutNothing
  <1>6. Stream!Init
    BY <1>2, <1>5 DEF Stream!Init, OnItsWay, Rest
  <1> QED BY <1>1, <1>3, <1>4, <1>6 DEF StreamInv, LinesWhole

\* The steps of the stream, told by the characters on their way.
LEMMA StreamStays ==
    ASSUME OnItsWay' = OnItsWay, pieces' = pieces, conn' = conn
    PROVE  UNCHANGED Stream!vars
  BY DEF Stream!vars, OnItsWay, Rest

LEMMA StreamSays ==
    ASSUME NEW m \in Messages, conn = "open", conn' = conn, pieces' = pieces,
           Cut(OnItsWay') = Cut(OnItsWay) \o Stream!Pieces(Encode(m))
    PROVE  Stream!Next
  <1>1. Stream!Say(Encode(m))
    BY DEF Stream!Say, OnItsWay, Rest
  <1> QED BY <1>1 DEF Stream!Next

LEMMA StreamHears ==
    ASSUME NEW p, Cut(OnItsWay) # <<>>, p = Head(Cut(OnItsWay)),
           Cut(OnItsWay') = Tail(Cut(OnItsWay)),
           pieces' = Append(pieces, p), conn' = conn
    PROVE  Stream!Next
  <1>1. Stream!Hear
    BY DEF Stream!Hear, OnItsWay, Rest
  <1> QED BY <1>1 DEF Stream!Next

LEMMA StreamCuts ==
    ASSUME Shortened(Cut(OnItsWay), Cut(OnItsWay')), conn' # "open", pieces' = pieces
    PROVE  Stream!Next
  <1>1. Stream!Cut
    BY DEF Stream!Cut, Shortened, OnItsWay, Rest
  <1> QED BY <1>1 DEF Stream!Next

\* A step in which the characters stay on their way.
LEMMA StreamMoved ==
    ASSUME StreamInv, TypeOK', LineOpen', OnItsWay' = OnItsWay, pieces' = pieces, conn' = conn
    PROVE  StreamInv' /\ [Stream!Next]_(Stream!vars)
  <1>1. LinesWhole'
    BY DEF StreamInv, LinesWhole
  <1> QED BY <1>1, StreamStays DEF StreamInv

\* A step in which some of them are lost at the end.
LEMMA StreamLost ==
    ASSUME StreamInv, TypeOK', LineOpen', pieces' = pieces, conn' # "open",
           NEW lost \in Seq(Char), OnItsWay = OnItsWay' \o lost
    PROVE  StreamInv' /\ [Stream!Next]_(Stream!vars)
  <1>1. LinesWhole'
    BY DEF LinesWhole
  <1>2. OnItsWay' \in Seq(Char)
    BY OnItsWayTypesNext
  <1>3. Shortened(Cut(OnItsWay), Cut(OnItsWay'))
    BY <1>2, CutBeginning
  <1>4. Stream!Next
    BY <1>3, StreamCuts
  <1> QED BY <1>1, <1>4 DEF StreamInv

\* A step in which a piece is heard.
LEMMA StreamHeard ==
    ASSUME StreamInv, TypeOK', line' = <<>>, NEW p \in Piece, Len(p) <= MaxPiece,
           \A i \in 1..Len(p) : i < Len(p) => p[i] # Newline,
           Whole(p) \/ OnItsWay' = <<>>,
           OnItsWay = p \o OnItsWay', pieces' = Append(pieces, p), conn' = conn
    PROVE  StreamInv' /\ [Stream!Next]_(Stream!vars)
  <1>1. OnItsWay' \in Seq(Char) /\ p \in Seq(Char)
    BY OnItsWayTypesNext DEF Piece
  <1> DEFINE after == OnItsWay'
  <1>2. Cut(p) = <<p>>
    <2>1. \A i \in 1..(Len(p) - 1) : i \in 1..Len(p) /\ i < Len(p)
      BY <1>1, LenProperties
    <2>2. \A i \in 1..(Len(p) - 1) : p[i] # Newline
      BY <2>1
    <2> QED BY <2>2, CutPiece
  <1>3. Cut(OnItsWay) = <<p>> \o Cut(after)
    <2>1. CASE Whole(p)
      <3>1. Whole(Cut(p)[Len(Cut(p))])
        BY <2>1, <1>2
      <3>2. Cut(p \o after) = Cut(p) \o Cut(after)
        BY <3>1, <1>1, CutJoin
      <3> QED BY <3>2, <1>2
    <2>2. CASE after = <<>>
      <3>1. OnItsWay = p
        BY <2>2, <1>1, ConcatEmptySeq
      <3>2. Cut(after) = <<>> /\ <<p>> \o <<>> = <<p>>
        <4>1. <<p>> \in Seq(Piece)
          OBVIOUS
        <4> QED BY <4>1, <2>2, CutNothing, ConcatEmptySeq
      <3> QED BY <3>1, <3>2, <1>2
    <2> QED BY <2>1, <2>2
  <1>4. Cut(after) \in Seq(Piece)
    BY <1>1, CutTypes
  <1>5. /\ Cut(OnItsWay) # <<>> /\ Head(Cut(OnItsWay)) = p
        /\ Tail(Cut(OnItsWay)) = Cut(after)
    BY <1>3, <1>4, FirstOfBoth
  <1>6. Stream!Next
    BY <1>5, StreamHears
  <1>7. LineOpen'
    <2>1. 1..Len(line') = {}
      OBVIOUS
    <2> QED BY <2>1 DEF LineOpen
  <1>8. LinesWhole'
    <2> SUFFICES ASSUME conn' = "open", after # <<>> PROVE after[Len(after)] = Newline
      BY DEF LinesWhole
    <2>1. OnItsWay # <<>> /\ OnItsWay[Len(OnItsWay)] = after[Len(after)]
      BY <1>1, LastOfBoth
    <2> QED BY <2>1 DEF StreamInv, LinesWhole
  <1> QED BY <1>6, <1>7, <1>8 DEF StreamInv

\* A message is said.
LEMMA StreamSend ==
    ASSUME StreamInv, TypeOK', NEW m \in Messages, Send(m)
    PROVE  StreamInv' /\ [Stream!Next]_(Stream!vars)
  <1>1. UNCHANGED <<wire, conn, unread, line, rpc, pieces>>
    BY DEF Send
  <1>2. LineOpen' /\ TypeOK
    BY <1>1 DEF StreamInv, LineOpen
  <1>3. OnItsWay' = IF conn = "open" THEN OnItsWay \o Encode(m) ELSE OnItsWay
    BY <1>2, FlowSend
  <1>4. CASE conn # "open"
    BY <1>1, <1>2, <1>3, <1>4, StreamMoved
  <1>5. CASE conn = "open"
    <2>1. OnItsWay \in Seq(Char) /\ OnItsWay' = OnItsWay \o Encode(m)
      BY <1>2, <1>3, <1>5, OnItsWayTypes
    <2>2. /\ Encode(m) \in Seq(Char) /\ Encode(m) # <<>>
          /\ Encode(m)[Len(Encode(m))] = Newline
          /\ Cut(Encode(m)) = Stream!Pieces(Encode(m))
      BY EncodedIsALine, LineInPieces
    <2>3. LinesWhole'
      <3>1. OnItsWay'[Len(OnItsWay')] = Newline
        BY <2>1, <2>2, LastOfBoth
      <3> QED BY <3>1 DEF LinesWhole
    <2>4. Cut(OnItsWay) = <<>> \/ Whole(Cut(OnItsWay)[Len(Cut(OnItsWay))])
      <3>1. CASE OnItsWay = <<>>
        BY <3>1, CutNothing
      <3>2. CASE OnItsWay # <<>>
        <4>1. OnItsWay[Len(OnItsWay)] = Newline
          BY <3>2, <1>5 DEF StreamInv, LinesWhole
        <4>2. PICK p \in Piece : /\ Cut(OnItsWay)[Len(Cut(OnItsWay))] = p
                                 /\ p[Len(p)] = OnItsWay[Len(OnItsWay)]
          BY <3>2, <2>1, CutTypes
        <4> QED BY <4>1, <4>2 DEF Whole, Last
      <3> QED BY <3>1, <3>2
    <2>5. Cut(OnItsWay') = Cut(OnItsWay) \o Cut(Encode(m))
      BY <2>1, <2>2, <2>4, CutJoin
    <2>6. Stream!Next
      BY <2>2, <2>5, <1>1, <1>5, StreamSays
    <2> QED BY <2>3, <2>6, <1>2 DEF StreamInv
  <1> QED BY <1>4, <1>5

LEMMA StreamConsume ==
    ASSUME StreamInv, TypeOK', Consume
    PROVE  StreamInv' /\ [Stream!Next]_(Stream!vars)
  <1>1. conn' = conn
    BY DEF Consume
  <1>2. CASE LineOpen' /\ pieces' = pieces /\ OnItsWay' = OnItsWay
    BY <1>1, <1>2, StreamMoved
  <1>3. ASSUME NEW read \in Seq(Char) \ {<<>>},
               line' = <<>>, pieces' = Append(pieces, read),
               OnItsWay = read \o OnItsWay', Len(read) <= BufLen - 1,
               read[Len(read)] = Newline \/ Len(read) = BufLen - 1,
               \A j \in 1..Len(read) : j < Len(read) => read[j] # Newline
        PROVE  StreamInv' /\ [Stream!Next]_(Stream!vars)
    <2>1. read \in Piece /\ Len(read) <= MaxPiece
      BY <1>3 DEF Piece, MaxPiece
    <2>2. Whole(read)
      BY <1>3 DEF Whole, Last, MaxPiece
    <2> QED BY <2>1, <2>2, <1>1, <1>3, StreamHeard
  <1> QED BY <1>2, <1>3, FlowConsume DEF StreamInv

LEMMA StreamEndOfFile ==
    ASSUME StreamInv, TypeOK', EndOfFile
    PROVE  StreamInv' /\ [Stream!Next]_(Stream!vars)
  <1>1. conn' = conn /\ TypeOK /\ LineOpen
    BY DEF EndOfFile, StreamInv
  <1>2. /\ OnItsWay = line
        /\ line = <<>> => OnItsWay' = OnItsWay /\ line' = line /\ pieces' = pieces
        /\ line # <<>> => OnItsWay' = <<>> /\ line' = <<>> /\ pieces' = Append(pieces, line)
    BY <1>1, FlowEndOfFile
  <1>3. CASE line = <<>>
    <2>1. LineOpen'
      BY <1>1, <1>2, <1>3 DEF LineOpen
    <2> QED BY <2>1, <1>1, <1>2, <1>3, StreamMoved
  <1>4. CASE line # <<>>
    <2>1. line \in Piece /\ line \in Seq(Char) /\ Len(line) <= MaxPiece
      <3>1. line \in Seq(Char) /\ Len(line) < BufLen - 1
        BY <1>1 DEF TypeOK
      <3>2. Len(line) <= MaxPiece
        BY <3>1, SizesAssumption, LenProperties DEF MaxPiece
      <3> QED BY <3>1, <3>2, <1>4 DEF Piece
    <2>2. OnItsWay = line \o OnItsWay'
      BY <2>1, <1>2, <1>4, ConcatEmptySeq
    <2> QED BY <2>1, <2>2, <1>1, <1>2, <1>4, StreamHeard DEF LineOpen
  <1> QED BY <1>3, <1>4

LEMMA StreamStep == StreamInv /\ [Next]_vars => StreamInv' /\ [Stream!Next]_(Stream!vars)
  <1> SUFFICES ASSUME StreamInv, [Next]_vars
               PROVE  StreamInv' /\ [Stream!Next]_(Stream!vars)
    OBVIOUS
  <1>1. TypeOK /\ LineOpen
    BY DEF StreamInv
  <1>2. TypeOK'
    BY <1>1, TypesStep
  <1>3. line' = line => LineOpen'
    BY <1>1 DEF LineOpen
  <1>4. ASSUME NEW m \in Messages, Send(m) PROVE StreamInv' /\ [Stream!Next]_(Stream!vars)
    BY <1>2, <1>4, StreamSend
  <1>5. ASSUME NEW k \in 1..Len(rest), Write(k) PROVE StreamInv' /\ [Stream!Next]_(Stream!vars)
    <2>1. UNCHANGED <<conn, line, pieces>>
      BY <1>5 DEF Write
    <2>2. OnItsWay' = OnItsWay
      BY <1>1, <1>5, FlowWrite
    <2> QED BY <2>1, <2>2, <1>2, <1>3, StreamMoved
  <1>6. CASE WriteFails
    <2>1. conn = "reset" /\ UNCHANGED <<wire, conn, unread, line, pieces>>
      BY <1>6 DEF WriteFails
    <2>2. OnItsWay' = OnItsWay
      BY <2>1 DEF OnItsWay, Rest
    <2> QED BY <2>1, <2>2, <1>2, <1>3, StreamMoved
  <1>7. CASE Close
    <2>1. conn' = "closed" /\ UNCHANGED <<line, pieces>>
      BY <1>7 DEF Close
    <2>2. OnItsWay = OnItsWay' \o rest /\ rest \in Seq(Char)
      BY <1>1, <1>7, FlowClose
    <2> QED BY <2>1, <2>2, <1>2, <1>3, StreamLost
  <1>8. CASE Receive
    <2>1. UNCHANGED <<rest, wire, conn, unread, line, pieces>>
      BY <1>8 DEF Receive
    <2>2. OnItsWay' = OnItsWay
      BY <2>1 DEF OnItsWay, Rest
    <2> QED BY <2>1, <2>2, <1>2, <1>3, StreamMoved
  <1>9. ASSUME NEW k \in 1..Len(wire), Refill(k) PROVE StreamInv' /\ [Stream!Next]_(Stream!vars)
    <2>1. UNCHANGED <<conn, line, pieces>>
      BY <1>9 DEF Refill
    <2>2. OnItsWay' = OnItsWay
      BY <1>1, <1>9, FlowRefill
    <2> QED BY <2>1, <2>2, <1>2, <1>3, StreamMoved
  <1>10. CASE Consume
    BY <1>2, <1>10, StreamConsume
  <1>11. CASE EndOfFile
    BY <1>2, <1>11, StreamEndOfFile
  <1>12. CASE ReadFails
    <2>1. conn' = "reset" /\ pieces' = pieces
      BY <1>12 DEF ReadFails
    <2>2. OnItsWay = OnItsWay' \o line /\ LineOpen' /\ line \in Seq(Char)
      BY <1>1, <1>12, FlowReadFails
    <2> QED BY <2>1, <2>2, <1>2, StreamLost
  <1>13. CASE Reset
    <2>1. conn' = "reset" /\ UNCHANGED <<line, pieces>>
      BY <1>13 DEF Reset
    <2>2. PICK lost \in Seq(Char) : OnItsWay = OnItsWay' \o lost
      BY <1>1, <1>2, <1>13, FlowReset
    <2> QED BY <2>1, <2>2, <1>2, <1>3, StreamLost
  <1>14. CASE UNCHANGED vars
    <2>1. UNCHANGED <<rest, wire, conn, unread, line, pieces>>
      BY <1>14 DEF vars
    <2>2. OnItsWay' = OnItsWay
      BY <2>1 DEF OnItsWay, Rest
    <2> QED BY <2>1, <2>2, <1>2, <1>3, StreamMoved
  <1> QED BY <1>4, <1>5, <1>6, <1>7, <1>8, <1>9, <1>10, <1>11, <1>12, <1>13, <1>14
          DEF Next, Sender, Receiver

\* However rio_writen, the kernel, rio_read and rio_readlineb cut the characters,
\* a connection is a stream of pieces: each line that is sent is heard in the
\* pieces a buffer of that length gives it, in order, none missing and none
\* twice, until the connection ends and what is under way is cut short.
THEOREM StreamOfPieces == Spec => ImplementsPieceStream
  <1>1. Init => StreamInv /\ Stream!Init
    BY StreamInit
  <1>2. StreamInv /\ [Next]_vars => StreamInv' /\ [Stream!Next]_(Stream!vars)
    BY StreamStep
  <1> QED BY <1>1, <1>2, PTL DEF Spec, ImplementsPieceStream, Stream!Spec
=============================================================================
