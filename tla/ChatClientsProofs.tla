------------------------- MODULE ChatClientsProofs -------------------------
(***************************************************************************)
(* Proofs about ChatClients: questions and answers stay in step, what is   *)
(* broadcast is what was typed, and a receiver prints what was broadcast.  *)
(*                                                                         *)
(* The invariant has four parts.  Wires is about all connections: types, a *)
(* connection waits once to be accepted, and each end is closed just when  *)
(* its program or its worker has ended.  SendersInTouch says for each      *)
(* place a sender can be at which line, if any, is on the wire either way, *)
(* and what its last command made of the room and of the texts; of a       *)
(* program that was killed the wire may hold a beginning of its last line. *)
(* EntriesTrue says of every broadcast who typed it.  ReceiversInTune says *)
(* of a receiver up to its join what SendersInTouch says of a sender, and  *)
(* from then on that what it printed, what is on the wire behind the       *)
(* answer to the join and what is in its queue are, one after the other,   *)
(* the deliveries of what was broadcast, but for the last piece that a     *)
(* server that ended left on the wire.  A sender or a receiver that sent a *)
(* line of more than one piece is out of touch or out of tune for good;    *)
(* what the others keep does not depend on it.                             *)
(***************************************************************************)
EXTENDS ChatClients, SequenceTheorems, NaturalsInduction, WellFoundedInduction, TLAPS

-----------------------------------------------------------------------------
(* Words, and what receive leaves of them *)

Spelled == DOMAIN TagSize \cup DOMAIN Size \cup {""}
AnyWord == [w : Spelled, at : Nat, n : Nat]

\* Words without a NUL, and data as receive leaves it: no NUL, and no carriage
\* return at the end.
CleanWord == {x \in AnyWord : Places(Nul, x) = {}}
CleanData == {data \in Seq(CleanWord) : data # <<>> /\ Stripped(data[Len(data)]) = data[Len(data)]}

\* Every set of numbers that is not empty has a least element.
LEMMA LeastOf ==
    ASSUME NEW S \in SUBSET Nat, S # {}
    PROVE  Min(S) \in S /\ \A j \in S : Min(S) <= j
<1> DEFINE R == {p \in Nat \X Nat : p[1] < p[2]}
<1>1. IsWellFoundedOn(R, Nat)
  BY NatLessThanWellFounded DEF OpToRel
<1> HIDE DEF R
<1>2. \E i \in S : \A j \in S : ~(<<j, i>> \in R)
  BY <1>1, WFMin
<1>3. \A i \in S : \A j \in S : ~(<<j, i>> \in R) => i <= j
  BY DEF R
<1>4. \E i \in S : \A j \in S : i <= j
  BY <1>2, <1>3
<1> QED
  BY <1>4 DEF Min

\* A word is told from every other by its name.
LEMMA WordsDiffer == \A v, w : Word(v) = Word(w) => v = w
<1>1. \A w : Word(w).w = w
  BY DEF Word
<1> QED
  BY <1>1

\* A piece has one tag.
LEMMA OneTag == \A piece, t, u : Has(piece, t) /\ Has(piece, u) => t = u
BY WordsDiffer DEF Has

LEMMA TagNames ==
    DOMAIN TagSize = {"slogin", "rlogin", "join", "leave", "sendall", "quit",
                      "delivery", "ok", "err"}
BY DEF TagSize

LEMMA WordTypes ==
    /\ \A w \in DOMAIN TagSize \cup DOMAIN Size : Word(w) \in AnyWord
    /\ Empty \in AnyWord
    /\ Words \subseteq AnyWord
<1>1. \A w \in DOMAIN TagSize : TagSize[w] \in Nat
  BY DEF TagSize
<1>2. \A w \in DOMAIN TagSize \cup DOMAIN Size : WordSize(w) \in Nat
  BY <1>1, WordsAssumption DEF WordSize
<1>3. \A w \in DOMAIN TagSize \cup DOMAIN Size : Word(w) \in AnyWord
  BY <1>2 DEF Word, AnyWord, Spelled
<1>4. Empty \in AnyWord
  BY DEF Empty, AnyWord, Spelled
<1> QED
  BY <1>3, <1>4 DEF Words

\* Tags, and the word of no character, hold nothing that receive takes off.
LEMMA TagsAreClean ==
    /\ \A tag \in DOMAIN TagSize : Word(tag) \in CleanWord /\ Stripped(Word(tag)) = Word(tag)
    /\ Empty \in CleanWord /\ Stripped(Empty) = Empty /\ Places(Return, Empty) = {}
<1>1. \A tag \in DOMAIN TagSize \cup {""} : \A x :
         x.w = tag => Places(Nul, x) = {} /\ Places(Return, x) = {}
  BY WordsAssumption DEF Places
<1>2. \A tag \in DOMAIN TagSize : Word(tag).w = tag
  BY DEF Word
<1>3. Empty.w = ""
  BY DEF Empty
<1> QED
  BY <1>1, <1>2, <1>3, WordTypes DEF CleanWord, Stripped

LEMMA PartTypes ==
    ASSUME NEW x \in AnyWord, NEW n \in Nat
    PROVE  /\ Part(x, 0, n) \in AnyWord /\ Part(x, 0, n).n = n
           /\ n # 0 => Part(x, 0, n).w = x.w /\ Part(x, 0, n).at = x.at
<1>1. CASE n = 0
  BY <1>1, WordTypes DEF Part, Empty
<1>2. CASE n # 0
  <2>1. Part(x, 0, n) = [x EXCEPT !.at = x.at + 0, !.n = n]
    BY <1>2 DEF Part
  <2>2. x = [w |-> x.w, at |-> x.at, n |-> x.n] /\ x.w \in Spelled /\ x.at \in Nat
    BY DEF AnyWord
  <2>3. x.at + 0 = x.at
    BY <2>2
  <2>4. Part(x, 0, n) = [w |-> x.w, at |-> x.at, n |-> n]
    BY <2>1, <2>2, <2>3
  <2> QED
    BY <1>2, <2>2, <2>4 DEF AnyWord
<1> QED
  BY <1>1, <1>2

\* A part has no more than the word.
LEMMA PartPlaces ==
    ASSUME NEW x \in AnyWord, NEW n \in 0..x.n, NEW of, of \in {Nul, Return}
    PROVE  /\ Places(of, Part(x, 0, n)) \subseteq Places(of, x)
           /\ \A i \in Places(of, Part(x, 0, n)) : i <= x.at + n
<1>1. x.n \in Nat /\ x.at \in Nat /\ n \in Nat
  BY DEF AnyWord
<1>a. \A w \in DOMAIN of : of[w] \subseteq Nat
  BY WordsAssumption
<1>2. CASE n = 0
  <2>1. Part(x, 0, n) = Empty
    BY <1>2 DEF Part
  <2>2. \A i \in Nat : ~(0 < i /\ i <= 0 + 0)
    OBVIOUS
  <2>3. Empty.w = "" /\ Empty.at = 0 /\ Empty.n = 0
    BY DEF Empty
  <2>4. Places(of, Empty) = {}
    BY <1>a, <2>2, <2>3 DEF Places
  <2> QED
    BY <2>1, <2>4
<1>3. CASE n # 0
  <2> DEFINE y == Part(x, 0, n)
  <2>1. y.w = x.w /\ y.at = x.at /\ y.n = n
    BY <1>1, <1>3, PartTypes
  <2> HIDE DEF y
  <2>2. \A i \in Places(of, y) : x.w \in DOMAIN of /\ i \in of[x.w] /\ x.at < i /\ i <= x.at + n
    BY <2>1 DEF Places
  <2>3. \A i \in Places(of, y) : i \in of[x.w] /\ i <= x.at + x.n
    BY <2>2, <1>1, <1>a
  <2> QED
    BY <2>2, <2>3 DEF y, Places
<1> QED
  BY <1>2, <1>3

\* What is left of a word without the carriage returns at its end.
LEMMA StrippedWord ==
    ASSUME NEW x \in AnyWord
    PROVE  /\ Stripped(x) = x \/ \E n \in 0..x.n : Stripped(x) = Part(x, 0, n)
           /\ Stripped(x) \in AnyWord
           /\ Places(Nul, Stripped(x)) \subseteq Places(Nul, x)
           /\ Stripped(Stripped(x)) = Stripped(x)
<1> DEFINE All(y) == {m \in 0..y.n : \A i \in m + 1..y.n : y.at + i \in Places(Return, y)}
<1>1. x.n \in Nat /\ x.at \in Nat
  BY DEF AnyWord
<1>2. CASE Places(Return, x) = {}
  BY <1>2 DEF Stripped
<1>3. CASE Places(Return, x) # {}
  <2> DEFINE m == Min(All(x))
             y == Part(x, 0, m)
  <2>1. Stripped(x) = y
    BY <1>3 DEF Stripped
  <2>2. x.n \in All(x) /\ All(x) \in SUBSET Nat
    BY <1>1
  <2>3. m \in All(x) /\ \A j \in All(x) : m <= j
    <3> HIDE DEF All
    <3> QED
      BY <2>2, LeastOf
  <2>4. m \in 0..x.n /\ m \in Nat
    BY <1>1, <2>3
  <2> HIDE DEF m
  <2>5. y \in AnyWord /\ y.n = m /\ (m # 0 => y.w = x.w /\ y.at = x.at)
    BY <2>4, PartTypes
  <2>6. Places(Nul, y) \subseteq Places(Nul, x) /\ Places(Return, y) \subseteq Places(Return, x)
    BY <2>4, PartPlaces
  <2>7. Stripped(y) = y
    <3>1. CASE Places(Return, y) = {}
      BY <3>1 DEF Stripped
    <3>2. CASE Places(Return, y) # {}
      <4>1. m # 0
        <5>1. m = 0 => y = Empty
          BY DEF Part
        <5> QED
          BY <3>2, <5>1, TagsAreClean
      <4>2. m \in All(y) /\ All(y) \in SUBSET Nat
        BY <2>4, <2>5
      <4> DEFINE l == Min(All(y))
      <4>3. l \in All(y) /\ l <= m
        <5> HIDE DEF All
        <5> QED
          BY <4>2, LeastOf
      <4> HIDE DEF l
      <4>4. l \in 0..x.n
        <5>1. l \in 0..y.n
          BY <4>3
        <5> HIDE DEF y
        <5> QED
          BY <1>1, <2>4, <2>5, <5>1
      <4>5. ASSUME NEW i \in l + 1..x.n PROVE x.at + i \in Places(Return, x)
        <5>1. CASE i <= m
          BY <2>4, <2>5, <2>6, <4>1, <4>3, <4>4, <5>1
        <5>2. CASE i > m
          BY <2>3, <2>4, <4>4, <5>2
        <5> QED
          BY <2>4, <4>4, <5>1, <5>2
      <4>6. l = m
        BY <2>3, <2>4, <4>3, <4>4, <4>5
      <4>7. Stripped(y) = Part(y, 0, m)
        BY <3>2, <4>6 DEF Stripped, l
      <4>8. Part(y, 0, m) = [y EXCEPT !.at = y.at + 0, !.n = m]
        BY <4>1 DEF Part
      <4>9. y = [w |-> y.w, at |-> y.at, n |-> y.n] /\ y.at \in Nat
        BY <2>5 DEF AnyWord
      <4> HIDE DEF y
      <4>a. y.at + 0 = y.at /\ y.n = m
        BY <2>5, <4>9
      <4>10. Part(y, 0, m) = y
        BY <4>8, <4>9, <4>a
      <4> QED
        BY <4>7, <4>10
    <3> QED
      BY <3>1, <3>2
  <2> QED
    BY <2>1, <2>4, <2>5, <2>6, <2>7
<1> QED
  BY <1>2, <1>3

\* What is before the first NUL.
LEMMA UntilNulWords ==
    ASSUME NEW piece \in Seq(AnyWord), piece # <<>>
    PROVE  /\ UntilNul(piece) \in Seq(CleanWord) /\ UntilNul(piece) # <<>>
           /\ piece \in Seq(CleanWord) => UntilNul(piece) = piece
           /\ Len(piece) > 1 /\ piece[1] \in CleanWord =>
                 Len(UntilNul(piece)) > 1 /\ UntilNul(piece)[1] = piece[1]
<1> DEFINE cut == {k \in DOMAIN piece : Places(Nul, piece[k]) # {}}
<1>1. \A k \in DOMAIN piece : piece[k] \in AnyWord /\ (k \notin cut => piece[k] \in CleanWord)
  BY DEF CleanWord
<1>2. CASE cut = {}
  <2>1. UntilNul(piece) = piece
    BY <1>2 DEF UntilNul
  <2> HIDE DEF cut
  <2>2. \A k \in 1..Len(piece) : piece[k] \in CleanWord
    BY <1>1, <1>2
  <2>3. piece \in Seq(CleanWord)
    BY <2>2
  <2> QED
    BY <2>1, <2>2, <2>3
<1>3. CASE cut # {}
  <2> DEFINE k == Min(cut)
             x == piece[k]
             p == Min(Places(Nul, x))
             n == p - 1 - x.at
  <2>1. UntilNul(piece) = Append(SubSeq(piece, 1, k - 1), Part(x, 0, n))
    BY <1>3 DEF UntilNul
  <2>2. k \in cut /\ \A j \in cut : k <= j
    <3>1. cut \in SUBSET Nat
      OBVIOUS
    <3> HIDE DEF cut
    <3> QED
      BY <1>3, <3>1, LeastOf
  <2> HIDE DEF k
  <2>3. k \in 1..Len(piece) /\ x \in AnyWord /\ Places(Nul, x) # {}
    BY <2>2
  <2>4. x.n \in Nat /\ x.at \in Nat
    BY <2>3 DEF AnyWord
  <2>5. Places(Nul, x) \in SUBSET Nat
    BY WordsAssumption DEF Places
  <2>6. p \in Places(Nul, x) /\ \A i \in Places(Nul, x) : p <= i
    BY <2>3, <2>5, LeastOf
  <2>7. p \in Nat /\ x.at < p /\ p <= x.at + x.n
    BY <2>5, <2>6 DEF Places
  <2> HIDE DEF p
  <2>8. n \in 0..x.n /\ n \in Nat
    BY <2>4, <2>7
  <2>9. Places(Nul, Part(x, 0, n)) \subseteq Places(Nul, x)
        /\ \A i \in Places(Nul, Part(x, 0, n)) : i <= x.at + n
    BY <2>3, <2>8, PartPlaces
  <2>10. Places(Nul, Part(x, 0, n)) = {}
    <3>1. x.at + n = p - 1
      BY <2>4, <2>7
    <3>2. \A i \in Nat : p <= i => ~(i <= p - 1)
      BY <2>7
    <3> QED
      BY <2>5, <2>6, <2>9, <3>1, <3>2
  <2>11. Part(x, 0, n) \in CleanWord
    BY <2>3, <2>8, <2>10, PartTypes DEF CleanWord
  <2> DEFINE l == Part(x, 0, n)
  <2> HIDE DEF l, cut
  <2>12. \A j \in 1..k - 1 : piece[j] \in CleanWord
    BY <1>1, <2>2, <2>3
  <2>13. SubSeq(piece, 1, k - 1) \in Seq(CleanWord) /\ Len(SubSeq(piece, 1, k - 1)) = k - 1
         /\ \A j \in 1..k - 1 : SubSeq(piece, 1, k - 1)[j] = piece[j]
    BY <2>3, <2>12
  <2>14. UntilNul(piece) \in Seq(CleanWord) /\ Len(UntilNul(piece)) = k
         /\ \A j \in 1..k - 1 : UntilNul(piece)[j] = piece[j]
    BY <2>1, <2>3, <2>11, <2>13 DEF l
  <2>15. UntilNul(piece) # <<>>
    BY <2>3, <2>14
  <2>16. piece \notin Seq(CleanWord)
    BY <2>3 DEF CleanWord
  <2>17. piece[1] \in CleanWord => k > 1
    BY <2>3 DEF CleanWord
  <2> QED
    BY <2>3, <2>14, <2>15, <2>16, <2>17
<1> QED
  BY <1>2, <1>3

\* The words of a piece without the carriage returns at its end.
LEMMA WithoutReturnsWords ==
    ASSUME NEW piece \in Seq(CleanWord), piece # <<>>
    PROVE  /\ WithoutReturns(piece) \in CleanData
           /\ Len(WithoutReturns(piece)) = Len(piece)
           /\ \A i \in 1..Len(piece) - 1 : WithoutReturns(piece)[i] = piece[i]
           /\ WithoutReturns(piece)[Len(piece)] = Stripped(piece[Len(piece)])
<1> DEFINE n == Len(piece)
           x == Stripped(piece[n])
<1>1. n \in 1..Len(piece) /\ piece[n] \in CleanWord
  OBVIOUS
<1>2. WithoutReturns(piece) = [piece EXCEPT ![n] = x]
  BY DEF WithoutReturns
<1>3. x \in CleanWord /\ Stripped(x) = x
  BY <1>1, StrippedWord DEF CleanWord
<1> HIDE DEF x
<1>4. /\ [piece EXCEPT ![n] = x] \in Seq(CleanWord) /\ Len([piece EXCEPT ![n] = x]) = n
      /\ \A i \in 1..n - 1 : [piece EXCEPT ![n] = x][i] = piece[i]
      /\ [piece EXCEPT ![n] = x][n] = x
  BY <1>1, <1>3
<1>5. [piece EXCEPT ![n] = x] # <<>>
  <2> DEFINE f == [piece EXCEPT ![n] = x]
  <2>a. Len(piece) >= 1
    OBVIOUS
  <2>b. Len(f) = n
    BY <1>4
  <2>1. Len(f) = n /\ n >= 1
    BY <2>a, <2>b
  <2>2. Len(<<>>) = 0 /\ ~(0 >= 1)
    OBVIOUS
  <2> QED
    BY <2>1, <2>2, Zenon
<1> QED
  BY <1>2, <1>3, <1>4, <1>5 DEF CleanData, x

LEMMA ReceivedClean ==
    ASSUME NEW piece \in Seq(AnyWord), piece # <<>>
    PROVE  Received(piece) \in CleanData
BY UntilNulWords, WithoutReturnsWords DEF Received

\* Clean data is received as it is sent.
LEMMA ReceivedAsIs ==
    ASSUME NEW data \in CleanData
    PROVE  Received(data) = data
<1>1. data \in Seq(CleanWord) /\ data # <<>> /\ Stripped(data[Len(data)]) = data[Len(data)]
  BY DEF CleanData
<1>2. data \in Seq(AnyWord)
  BY <1>1 DEF CleanWord
<1>3. UntilNul(data) = data
  BY <1>1, <1>2, UntilNulWords
<1>4. [data EXCEPT ![Len(data)] = data[Len(data)]] = data
  BY <1>1
<1> QED
  BY <1>1, <1>3, <1>4 DEF Received, WithoutReturns

\* A message keeps its tag.
LEMMA ReceivedTag ==
    ASSUME NEW piece \in Seq(AnyWord), NEW tag \in DOMAIN TagSize, Has(piece, tag)
    PROVE  Has(Received(piece), tag)
<1>1. Len(piece) > 1 /\ piece[1] = Word(tag) /\ Word(tag) \in CleanWord /\ piece # <<>>
  BY TagsAreClean DEF Has, IsMessage
<1> DEFINE u == UntilNul(piece)
<1>2. u \in Seq(CleanWord) /\ u # <<>> /\ Len(u) > 1 /\ u[1] = Word(tag)
  BY <1>1, UntilNulWords
<1> HIDE DEF u
<1>3. Len(WithoutReturns(u)) > 1 /\ WithoutReturns(u)[1] = Word(tag)
  BY <1>2, WithoutReturnsWords
<1> QED
  BY <1>3 DEF Has, IsMessage, Received, u

-----------------------------------------------------------------------------
(* Lines and pieces *)

CleanTypes(data) == data \in Seq(CleanWord) /\ data \in Seq(AnyWord) /\ data # <<>> /\ Len(data) >= 1

LEMMA CleanIsTyped == \A data \in CleanData : CleanTypes(data)
<1> SUFFICES ASSUME NEW data \in CleanData PROVE CleanTypes(data)
  OBVIOUS
<1>1. data \in Seq(CleanWord) /\ data # <<>>
  BY DEF CleanData
<1>2. data \in Seq(AnyWord) /\ Len(data) >= 1
  BY <1>1 DEF CleanWord
<1> QED
  BY <1>1, <1>2 DEF CleanTypes

LEMMA TailClean ==
    ASSUME NEW data \in CleanData, Len(data) > 1
    PROVE  Tail(data) \in CleanData
<1>1. data \in Seq(CleanWord) /\ Stripped(data[Len(data)]) = data[Len(data)]
  BY DEF CleanData
<1>2. Tail(data) \in Seq(CleanWord) /\ Len(Tail(data)) = Len(data) - 1 /\ Len(data) \in Nat
      /\ \A i \in 1..Len(data) - 1 : Tail(data)[i] = data[i + 1]
  BY <1>1
<1>c. \A n \in Nat : n > 1 => n - 1 # 0
  OBVIOUS
<1>a. Len(data) - 1 # 0
  BY <1>2, <1>c
<1>b. Len(<<>>) = 0
  OBVIOUS
<1>3. Len(Tail(data)) # 0 /\ Len(<<>>) = 0
  BY <1>2, <1>a, <1>b
<1>4. Tail(data)[Len(Tail(data))] = data[Len(data)]
  BY <1>2
<1> QED
  BY <1>1, <1>2, <1>3, <1>4 DEF CleanData

\* A line made from a tag and some data has that tag.
LEMMA TagOfMessage ==
    ASSUME NEW tag \in DOMAIN TagSize, NEW data \in Seq(AnyWord), data # <<>>
    PROVE  /\ Message(tag, data) \in Seq(AnyWord) /\ Message(tag, data) # <<>>
           /\ Has(Message(tag, data), tag)
           /\ Tail(Message(tag, data)) = data
BY WordTypes DEF Message, Has, IsMessage

LEMMA CleanMessage ==
    ASSUME NEW tag \in DOMAIN TagSize, NEW data \in CleanData
    PROVE  Message(tag, data) \in CleanData
<1> DEFINE x == Word(tag)
<1>1. x \in CleanWord
  BY TagsAreClean
<1> HIDE DEF x
<1>2. data \in Seq(CleanWord) /\ Len(data) >= 1 /\ Stripped(data[Len(data)]) = data[Len(data)]
  BY CleanIsTyped DEF CleanTypes, CleanData
<1>3. <<x>> \o data \in Seq(CleanWord) /\ Len(<<x>> \o data) = Len(data) + 1
      /\ (<<x>> \o data)[Len(data) + 1] = data[Len(data)] /\ <<x>> \o data # <<>>
  BY <1>1, <1>2
<1> QED
  BY <1>2, <1>3 DEF Message, CleanData, x

\* A line that fits a buffer is heard in one piece.
LEMMA OnePiece == ASSUME NEW words, Fits(words) PROVE Pieces(words) = <<Received(words)>>
BY DEF Pieces

LEMMA Answers ==
    /\ Has(Ok, "ok") /\ Has(Err, "err") /\ ~Has(Err, "ok") /\ Ok # Err
    /\ Pieces(Ok) = <<Ok>> /\ Pieces(Err) = <<Err>>
    /\ Ok \in CleanData /\ Err \in CleanData
<1>1. <<Empty>> \in CleanData /\ "ok" \in DOMAIN TagSize /\ "err" \in DOMAIN TagSize
  BY TagsAreClean, TagNames DEF CleanData
<1>2. Ok \in CleanData /\ Err \in CleanData
  BY <1>1, CleanMessage DEF Ok, Err
<1>3. Has(Ok, "ok") /\ Has(Err, "err")
  BY <1>1, CleanIsTyped, TagOfMessage DEF Ok, Err, CleanTypes
<1>4. Pieces(Ok) = <<Ok>> /\ Pieces(Err) = <<Err>>
  BY <1>2, AnswersAssumption, OnePiece, ReceivedAsIs
<1> QED
  BY <1>2, <1>3, <1>4, OneTag

\* Messages with a tag, and what is received of them.
Lines == {line \in Seq(AnyWord) : \E tag \in DOMAIN TagSize : Has(line, tag)}

LEMMA MessageIsLine ==
    ASSUME NEW tag \in DOMAIN TagSize, NEW data \in Seq(AnyWord), data # <<>>
    PROVE  Message(tag, data) \in Lines
BY TagOfMessage DEF Lines

LEMMA ReceivedLine ==
    ASSUME NEW line \in Lines
    PROVE  /\ Received(line) \in CleanData /\ IsMessage(Received(line))
           /\ \A tag \in DOMAIN TagSize : Has(Received(line), tag) <=> Has(line, tag)
           /\ Tail(Received(line)) \in CleanData
<1>1. line \in Seq(AnyWord) /\ \E t \in DOMAIN TagSize : Has(line, t)
  BY DEF Lines
<1>2. PICK t \in DOMAIN TagSize : Has(line, t)
  BY <1>1
<1>3. line # <<>>
  BY <1>2 DEF Has, IsMessage
<1>4. Received(line) \in CleanData /\ Has(Received(line), t)
  BY <1>1, <1>2, <1>3, ReceivedClean, ReceivedTag
<1>5. \A tag : Has(Received(line), tag) <=> Has(line, tag)
  BY <1>2, <1>4, OneTag
<1>6. Tail(Received(line)) \in CleanData
  BY <1>4, TailClean DEF Has, IsMessage
<1> QED
  BY <1>4, <1>5, <1>6 DEF Has

Slogin(s) == Message("slogin", name[s])
Rlogin(r) == Message("rlogin", name[r])

LEMMA Logins ==
    ASSUME NEW c, name[c] \in Seq(AnyWord) \ {<<>>}
    PROVE  /\ Slogin(c) \in Lines /\ Rlogin(c) \in Lines
           /\ Has(Slogin(c), "slogin") /\ Has(Rlogin(c), "rlogin")
<1>1. "slogin" \in DOMAIN TagSize /\ "rlogin" \in DOMAIN TagSize
  BY TagNames
<1> QED
  BY <1>1, TagOfMessage, MessageIsLine DEF Slogin, Rlogin

\* What is typed becomes a line of words.
LEMMA Interpreted ==
    ASSUME NEW line \in UNION Range(Typed), Interpret(line) # NoMessage
    PROVE  Interpret(line) \in Lines
<1>1. \/ line.cmd \in {"/leave", "/quit", "invalid"}
      \/ line.cmd \in {"/join", "text"} /\ line.data \in Seq(Words) \ {<<>>}
  BY LinesAssumption
<1>2. Seq(Words) \subseteq Seq(AnyWord)
  BY WordTypes
<1>3. \A tag \in DOMAIN TagSize, data \in Seq(AnyWord) \ {<<>>} : Message(tag, data) \in Lines
  BY MessageIsLine
<1>4. <<Empty>> \in Seq(AnyWord) \ {<<>>}
  BY WordTypes
<1>5. CASE line.cmd \in {"/leave", "/quit", "invalid"}
  <2>1. Message("quit", <<Empty>>) \in Lines /\ Message("leave", <<Empty>>) \in Lines
    BY <1>3, <1>4, TagNames
  <2> QED
    BY <1>5, <2>1 DEF Interpret, NoMessage
<1>6. CASE line.cmd = "/join" /\ line.data \in Seq(Words) \ {<<>>}
  BY <1>2, <1>3, <1>6, TagNames DEF Interpret
<1>7. CASE line.cmd = "text" /\ line.data \in Seq(Words) \ {<<>>}
  BY <1>2, <1>3, <1>7, TagNames DEF Interpret, NoMessage
<1> QED
  BY <1>1, <1>5, <1>6, <1>7

-----------------------------------------------------------------------------
(* What a connection that ends leaves on the way *)

LEMMA BeginningShape ==
    ASSUME NEW p \in CleanData, NEW b \in Beginnings(p)
    PROVE  /\ b \in CleanData /\ Len(b) \in 1..Len(p)
           /\ \A i \in 1..Len(b) - 1 : b[i] = p[i]
           /\ \E n \in 0..p[Len(b)].n : b[Len(b)] = Part(p[Len(b)], 0, n)
<1>1. p \in Seq(CleanWord) /\ p \in Seq(AnyWord)
  BY CleanIsTyped DEF CleanTypes
<1>2. PICK k \in DOMAIN p, n \in Breaks :
         /\ n <= p[k].n
         /\ b = WithoutReturns(Append(SubSeq(p, 1, k - 1), Part(p[k], 0, n)))
  BY DEF Beginnings
<1> DEFINE x == p[k]
           y == Part(x, 0, n)
           q == Append(SubSeq(p, 1, k - 1), y)
<1>3. k \in 1..Len(p) /\ x \in CleanWord /\ x \in AnyWord /\ n \in Nat
  BY <1>1, LimitsAssumption
<1>4. x.n \in Nat /\ n \in 0..x.n
  BY <1>2, <1>3 DEF AnyWord
<1>5. y \in CleanWord /\ y \in AnyWord /\ y.n = n
  BY <1>3, <1>4, PartTypes, PartPlaces DEF CleanWord
<1> HIDE DEF y
<1>6. SubSeq(p, 1, k - 1) \in Seq(CleanWord) /\ Len(SubSeq(p, 1, k - 1)) = k - 1
      /\ \A i \in 1..k - 1 : SubSeq(p, 1, k - 1)[i] = p[i]
  BY <1>1, <1>3
<1>7. q \in Seq(CleanWord) /\ Len(q) = k /\ q[k] = y /\ \A i \in 1..k - 1 : q[i] = p[i]
  BY <1>3, <1>5, <1>6
<1>8. q # <<>>
  BY <1>3, <1>7
<1>9. b = WithoutReturns(q)
  BY <1>2 DEF y
<1> HIDE DEF q
<1>10. b \in CleanData /\ Len(b) = k /\ b[k] = Stripped(y) /\ \A i \in 1..k - 1 : b[i] = p[i]
  BY <1>3, <1>7, <1>8, <1>9, WithoutReturnsWords
<1>11. \E m \in 0..x.n : Stripped(y) = Part(x, 0, m)
  <2>1. CASE Stripped(y) = y
    BY <1>4, <2>1 DEF y
  <2>2. ASSUME NEW m \in 0..y.n, Stripped(y) = Part(y, 0, m) PROVE Stripped(y) = Part(x, 0, m) /\ m \in 0..x.n
    <3>1. m \in 0..x.n /\ m \in Nat /\ m <= n
      BY <1>4, <1>5
    <3>2. CASE m = 0
      BY <2>2, <3>1, <3>2 DEF Part
    <3>3. CASE m # 0
      <4>1. n # 0
        BY <1>4, <3>1, <3>3
      <4>2. y.w = x.w /\ y.at = x.at
        BY <1>3, <4>1, PartTypes DEF y
      <4>3. Part(y, 0, m) = [y EXCEPT !.at = y.at + 0, !.n = m] /\ Part(x, 0, m) = [x EXCEPT !.at = x.at + 0, !.n = m]
        BY <3>3 DEF Part
      <4>4. y = [w |-> y.w, at |-> y.at, n |-> y.n] /\ x = [w |-> x.w, at |-> x.at, n |-> x.n]
        BY <1>3, <1>5 DEF AnyWord
      <4> HIDE DEF x
      <4>5. Part(y, 0, m) = [w |-> y.w, at |-> y.at + 0, n |-> m]
        BY <4>3, <4>4
      <4>6. Part(x, 0, m) = [w |-> x.w, at |-> x.at + 0, n |-> m]
        BY <4>3, <4>4
      <4> QED
        BY <2>2, <3>1, <4>2, <4>5, <4>6
    <3> QED
      BY <3>1, <3>2, <3>3
  <2> QED
    BY <1>5, <2>1, <2>2, StrippedWord
<1> QED
  BY <1>3, <1>10, <1>11

\* A beginning with a tag has the tag of the piece.
LEMMA BeginningTag ==
    ASSUME NEW p \in CleanData, NEW b \in Beginnings(p), IsMessage(b)
    PROVE  /\ IsMessage(p) /\ \A tag : Has(b, tag) <=> Has(p, tag)
           /\ IsBeginning(Tail(b), Tail(p)) /\ Tail(b) \in CleanData
<1>1. p \in Seq(AnyWord) /\ b \in CleanData /\ b \in Seq(AnyWord)
  BY BeginningShape, CleanIsTyped DEF CleanTypes
<1>2. /\ Len(b) \in 1..Len(p) /\ Len(b) > 1 /\ Len(p) \in Nat /\ Len(b) \in Nat
      /\ \A i \in 1..Len(b) - 1 : b[i] = p[i]
      /\ \E n \in 0..p[Len(b)].n : b[Len(b)] = Part(p[Len(b)], 0, n)
  BY <1>1, BeginningShape DEF IsMessage
<1>3. Len(p) > 1 /\ b[1] = p[1]
  BY <1>2
<1>4. /\ Len(Tail(b)) = Len(b) - 1 /\ Len(Tail(p)) = Len(p) - 1
      /\ \A i \in 1..Len(b) - 1 : Tail(b)[i] = b[i + 1]
      /\ \A i \in 1..Len(p) - 1 : Tail(p)[i] = p[i + 1]
  BY <1>1, <1>3, <1>2
<1> DEFINE k == Len(b) - 1
<1>5. k \in 1..Len(p) - 1 /\ k + 1 = Len(b) /\ k \in Nat
  BY <1>2
<1>6. \A i \in 1..k - 1 : Tail(b)[i] = Tail(p)[i]
  <2> SUFFICES ASSUME NEW i \in 1..k - 1 PROVE Tail(b)[i] = Tail(p)[i]
    OBVIOUS
  <2>1. i \in 1..Len(b) - 1 /\ i \in 1..Len(p) - 1 /\ i + 1 \in 1..Len(b) - 1
    BY <1>2, <1>5
  <2> QED
    BY <1>2, <1>4, <2>1
<1>7. Tail(b)[k] = b[Len(b)] /\ Tail(p)[k] = p[Len(b)]
  BY <1>4, <1>5
<1>8. IsBeginning(Tail(b), Tail(p))
  BY <1>2, <1>4, <1>5, <1>6, <1>7 DEF IsBeginning
<1>9. Tail(b) \in CleanData
  BY <1>1, <1>2, TailClean
<1> QED
  BY <1>3, <1>8, <1>9 DEF IsMessage, Has

LEMMA RemainsShape ==
    ASSUME NEW q \in Seq(CleanData), NEW rest \in Remains(q)
    PROVE  /\ rest \in Seq(CleanData) /\ Len(rest) <= Len(q)
           /\ \A i \in 1..Len(rest) - 1 : rest[i] = q[i]
<1>1. ASSUME NEW n \in 0..Len(q)
      PROVE  /\ SubSeq(q, 1, n) \in Seq(CleanData) /\ Len(SubSeq(q, 1, n)) = n
             /\ \A i \in 1..n : SubSeq(q, 1, n)[i] = q[i]
  OBVIOUS
<1>2. CASE \E n \in 0..Len(q) : rest = SubSeq(q, 1, n)
  BY <1>1, <1>2
<1>3. CASE \E n \in DOMAIN q : \E b \in Beginnings(q[n]) : rest = Append(SubSeq(q, 1, n - 1), b)
  <2>b. DOMAIN q = 1..Len(q)
    OBVIOUS
  <2>a. PICK n \in 1..Len(q) : \E b \in Beginnings(q[n]) : rest = Append(SubSeq(q, 1, n - 1), b)
    BY <1>3, <2>b
  <2>1. PICK b \in Beginnings(q[n]) : rest = Append(SubSeq(q, 1, n - 1), b)
    BY <2>a
  <2>2. q[n] \in CleanData /\ n - 1 \in 0..Len(q)
    OBVIOUS
  <2>3. b \in CleanData
    BY <2>2, BeginningShape
  <2> DEFINE s == SubSeq(q, 1, n - 1)
  <2>4. s \in Seq(CleanData) /\ Len(s) = n - 1 /\ \A i \in 1..n - 1 : s[i] = q[i]
    BY <1>1, <2>2
  <2> HIDE DEF s
  <2>5. Append(s, b) \in Seq(CleanData) /\ Len(Append(s, b)) = n /\ \A i \in 1..n - 1 : Append(s, b)[i] = q[i]
    BY <2>3, <2>4
  <2> QED
    BY <2>1, <2>5 DEF s
<1> QED
  BY <1>2, <1>3 DEF Remains

\* Of one piece, or none, at most one is left.
LEMMA RemainsOfOne ==
    /\ \A rest \in Remains(<<>>) : rest = <<>>
    /\ \A p : \A rest \in Remains(<<p>>) :
          rest = <<>> \/ rest = <<p>> \/ \E b \in Beginnings(p) : rest = <<b>>
<1>1. ASSUME NEW p
      PROVE  SubSeq(<<p>>, 1, 0) = <<>> /\ SubSeq(<<p>>, 1, 1) = <<p>> /\ Len(<<p>>) = 1
  <2>1. <<p>> \in Seq({p}) /\ Len(<<p>>) = 1
    OBVIOUS
  <2>2. SubSeq(<<p>>, 1, Len(<<p>>)) = <<p>>
    BY <2>1, SubSeqFull
  <2>3. SubSeq(<<p>>, 1, 0) = <<>>
    BY SubSeqEmpty
  <2> QED
    BY <2>1, <2>2, <2>3
<1>2. SubSeq(<<>>, 1, 0) = <<>> /\ Len(<<>>) = 0 /\ DOMAIN <<>> = {}
  OBVIOUS
<1>3. \A rest \in Remains(<<>>) : rest = <<>>
  <2>1. \A n \in 0..0 : n = 0
    OBVIOUS
  <2> QED
    BY <1>2, <2>1 DEF Remains
<1>4. ASSUME NEW p, NEW rest \in Remains(<<p>>)
      PROVE  rest = <<>> \/ rest = <<p>> \/ \E b \in Beginnings(p) : rest = <<b>>
  <2>1. CASE \E n \in 0..Len(<<p>>) : rest = SubSeq(<<p>>, 1, n)
    <3>1. \A n \in 0..1 : n = 0 \/ n = 1
      OBVIOUS
    <3> QED
      BY <1>1, <2>1, <3>1
  <2>2. CASE \E n \in DOMAIN <<p>> : \E b \in Beginnings(<<p>>[n]) : rest = Append(SubSeq(<<p>>, 1, n - 1), b)
    <3>1. \A n \in DOMAIN <<p>> : n = 1 /\ <<p>>[n] = p /\ n - 1 = 0
      OBVIOUS
    <3>2. \A b : Append(<<>>, b) = <<b>>
      OBVIOUS
    <3> QED
      BY <1>1, <2>2, <3>1, <3>2
  <2> QED
    BY <2>1, <2>2 DEF Remains
<1> QED
  BY <1>3, <1>4

-----------------------------------------------------------------------------
(* The connections *)

Types ==
    /\ DOMAIN pc = Clients /\ DOMAIN worker = Clients
    /\ DOMAIN up = Clients /\ DOMAIN down = Clients
    /\ DOMAIN user = Clients /\ DOMAIN current = Clients
    /\ DOMAIN queue = Receivers /\ DOMAIN printed = Receivers
    /\ DOMAIN said = Receivers /\ DOMAIN meant = Receivers
    /\ name \in [Clients -> Seq(AnyWord) \ {<<>>}]
    /\ asked \in [Senders -> Lines \cup {<<>>}]
    /\ told \in [Senders -> [room : Seq(AnyWord), texts : Nat]]
    /\ cast \in [Senders -> Nat]
    /\ backlog \in Seq(Clients)

\* A connection waits once, and has no worker until it is accepted.
Waiting ==
    /\ \A i \in 1..Len(backlog) : worker[backlog[i]] = "none" /\ pc[backlog[i]] # "off"
    /\ \A i, j \in 1..Len(backlog) : backlog[i] = backlog[j] => i = j
    /\ listening # "ended" => \A c \in Clients : pc[c] = "off" => worker[c] = "none"

\* The server's end is closed when its worker has ended or the server has, the
\* client's end when the program has.
Closed ==
    /\ \A c \in Clients : worker[c] = "gone" <=> c \in dropped
    /\ \A c \in Clients : pc[c] = "done" <=> c \in left

Wires == Types /\ Waiting /\ Closed

LEMMA WiresAtFirst == Init => Wires
<1> SUFFICES ASSUME Init PROVE Wires
  OBVIOUS
<1>1. name \in [Clients -> Seq(AnyWord) \ {<<>>}]
  <2>1. Seq(Words) \subseteq Seq(AnyWord)
    BY WordTypes
  <2>2. \A c \in Clients : Names[c] \subseteq Seq(Words) \ {<<>>}
    BY LinesAssumption
  <2>3. name \in [Clients -> UNION Range(Names)] /\ \A c \in Clients : name[c] \in Names[c]
    BY DEF Init
  <2> QED
    BY <2>1, <2>2, <2>3
<1> QED
  BY <1>1 DEF Init, Wires, Types, Waiting, Closed

\* A room or a text told to a user is of words.
LEMMA LearnTypes ==
    ASSUME Types, NEW s \in Senders, Learn(s)
    PROVE  told' \in [Senders -> [room : Seq(AnyWord), texts : Nat]]
<1>1. asked[s] \in Lines \/ asked[s] = <<>>
  BY DEF Types
<1>2. Has(asked[s], "join") => Tail(Received(asked[s])) \in Seq(AnyWord)
  BY <1>1, ReceivedLine, CleanIsTyped DEF Has, IsMessage, CleanTypes
<1>3. told[s] \in [room : Seq(AnyWord), texts : Nat]
  BY DEF Types
<1>4. <<>> \in Seq(AnyWord)
  OBVIOUS
<1> DEFINE new == CASE Has(asked[s], "join")    -> [told[s] EXCEPT !.room = Tail(Received(asked[s]))]
                    [] Has(asked[s], "leave")   -> [told[s] EXCEPT !.room = <<>>]
                    [] Has(asked[s], "sendall") -> [told[s] EXCEPT !.texts = @ + 1]
                    [] OTHER                    -> told[s]
<1>5. new \in [room : Seq(AnyWord), texts : Nat]
  <2>1. Has(asked[s], "join") => [told[s] EXCEPT !.room = Tail(Received(asked[s]))] \in [room : Seq(AnyWord), texts : Nat]
    BY <1>2, <1>3
  <2>2. [told[s] EXCEPT !.room = <<>>] \in [room : Seq(AnyWord), texts : Nat]
    BY <1>3, <1>4
  <2>3. [told[s] EXCEPT !.texts = @ + 1] \in [room : Seq(AnyWord), texts : Nat]
    BY <1>3
  <2> QED
    BY <1>3, <2>1, <2>2, <2>3
<1>6. told' = [told EXCEPT ![s] = new]
  BY DEF Learn
<1> QED
  BY <1>5, <1>6 DEF Types

LEMMA WiresStep ==
    ASSUME Wires, [Next]_vars
    PROVE  Wires'
<1> USE DEF Wires, serverVars, wires, broadcasts, record, history
<1> SUFFICES Types' /\ Waiting' /\ Closed'
  OBVIOUS
<1>1. CASE Listen
  BY <1>1 DEF Listen, Types, Waiting, Closed
<1>2. CASE Accept
  <2>1. Types'
    BY <1>2 DEF Accept, Types
  <2>2. Waiting'
    <3>1. /\ backlog # <<>> /\ backlog' = Tail(backlog) /\ UNCHANGED <<listening, pc>>
          /\ listening = "on" /\ worker' = [worker EXCEPT ![Head(backlog)] = "login"]
      BY <1>2 DEF Accept
    <3>2. backlog \in Seq(Clients) /\ DOMAIN worker = Clients
      BY DEF Types
    <3>3. /\ Len(backlog') = Len(backlog) - 1 /\ 1 \in 1..Len(backlog) /\ Head(backlog) = backlog[1]
          /\ \A i \in 1..Len(backlog') : backlog'[i] = backlog[i + 1] /\ i + 1 \in 1..Len(backlog) /\ i + 1 # 1
      BY <3>1, <3>2
    <3>4. \A i \in 1..Len(backlog') : backlog'[i] # Head(backlog)
      BY <3>3 DEF Waiting
    <3>5. \A i \in 1..Len(backlog') : worker'[backlog'[i]] = "none" /\ pc'[backlog'[i]] # "off"
      BY <3>1, <3>2, <3>3, <3>4 DEF Waiting
    <3>6. \A i, j \in 1..Len(backlog') : backlog'[i] = backlog'[j] => i = j
      BY <3>2, <3>3 DEF Waiting
    <3>7. \A c \in Clients : pc'[c] = "off" => worker'[c] = "none"
      BY <3>1, <3>2, <3>3 DEF Waiting
    <3> QED
      BY <3>5, <3>6, <3>7 DEF Waiting
  <2>3. Closed'
    BY <1>2 DEF Accept, Types, Waiting, Closed
  <2> QED
    BY <2>1, <2>2, <2>3
<1>3. CASE AcceptFails
  BY <1>3 DEF AcceptFails, Types, Waiting, Closed
<1>4. ASSUME NEW c \in Clients, Connect(c) PROVE Types' /\ Waiting' /\ Closed'
  <2>1. CASE listening = "on"
    <3>1. /\ pc[c] = "off" /\ pc' = [pc EXCEPT ![c] = "connected"]
          /\ backlog' = Append(backlog, c) /\ UNCHANGED <<left, listening, worker, dropped>>
      BY <1>4, <2>1 DEF Connect, Goto
    <3>2. backlog \in Seq(Clients) /\ backlog' \in Seq(Clients) /\ Len(backlog') = Len(backlog) + 1
      BY <3>1 DEF Types
    <3>3. \A i \in 1..Len(backlog) : backlog'[i] = backlog[i] /\ backlog[i] # c
      BY <3>1, <3>2 DEF Waiting
    <3>4. backlog'[Len(backlog) + 1] = c /\ worker[c] = "none"
      BY <2>1, <3>1, <3>2 DEF Waiting
    <3>5. Types'
      BY <1>4, <3>1, <3>2 DEF Connect, Types
    <3>6. \A i \in 1..Len(backlog') : i \in 1..Len(backlog) \/ i = Len(backlog) + 1
      BY <3>2
    <3>7. Waiting'
      BY <2>1, <3>1, <3>2, <3>3, <3>4, <3>6 DEF Types, Waiting
    <3> QED
      BY <3>1, <3>5, <3>7 DEF Types, Closed
  <2>2. CASE listening # "on"
    <3>1. Exit(c) /\ pc[c] = "off" /\ UNCHANGED <<backlog, listening, worker, dropped>>
      BY <1>4, <2>2 DEF Connect
    <3>2. Types'
      BY <1>4, <3>1 DEF Connect, Exit, Types
    <3>3. Waiting'
      BY <3>1 DEF Exit, Types, Waiting
    <3> QED
      BY <3>1, <3>2, <3>3 DEF Exit, Types, Closed
  <2> QED
    BY <2>1, <2>2
<1>5. ASSUME NEW c \in Clients, WorkerLogin(c) PROVE Types' /\ Waiting' /\ Closed'
  BY <1>5 DEF WorkerLogin, Asked, Gone, Serve, Refuse, Write, Reply, Finish, Types, Waiting, Closed
<1>6. ASSUME NEW s \in Senders, WorkerSender(s) PROVE Types' /\ Waiting' /\ Closed'
  <2>1. Types'
    <3>1. /\ DOMAIN worker' = Clients /\ DOMAIN up' = Clients /\ DOMAIN down' = Clients
          /\ DOMAIN current' = Clients
      BY <1>6 DEF WorkerSender, Asked, Gone, Command, Write, Reply, Finish, Enter, Clients, Types
    <3>2. /\ DOMAIN queue' = Receivers /\ DOMAIN said' = Receivers /\ DOMAIN meant' = Receivers
          /\ cast' \in [Senders -> Nat]
      <4>1. UNCHANGED <<queue, broadcasts>> \/ \E text : Broadcast(s, text)
        BY <1>6 DEF WorkerSender, Command
      <4>2. ASSUME NEW text, Broadcast(s, text)
            PROVE  /\ DOMAIN queue' = Receivers /\ DOMAIN said' = Receivers /\ DOMAIN meant' = Receivers
                   /\ cast' \in [Senders -> Nat]
        <5>1. DOMAIN queue' = Receivers /\ DOMAIN said' = Receivers /\ DOMAIN meant' = Receivers
          BY <4>2 DEF Broadcast
        <5>2. cast' = [cast EXCEPT ![s] = cast[s] + 1] /\ cast \in [Senders -> Nat]
          BY <4>2 DEF Broadcast, Types
        <5> QED
          BY <5>1, <5>2
      <4> QED
        BY <4>1, <4>2 DEF Types
    <3> QED
      BY <1>6, <3>1, <3>2 DEF WorkerSender, Types
  <2>2. Waiting'
    BY <1>6 DEF WorkerSender, Asked, Gone, Command, Write, Reply, Finish, Broadcast, Enter, Clients, Types, Waiting
  <2>3. Closed'
    BY <1>6 DEF WorkerSender, Asked, Gone, Command, Write, Reply, Finish, Broadcast, Enter, Clients, Types, Closed
  <2> QED
    BY <2>1, <2>2, <2>3
<1>7. ASSUME NEW r \in Receivers, WorkerJoin(r) PROVE Types' /\ Waiting' /\ Closed'
  <2>1. Types'
    BY <1>7 DEF WorkerJoin, Asked, Gone, Serve, Refuse, Write, Reply, Finish, Enter, Clients, Types
  <2>2. Waiting'
    BY <1>7 DEF WorkerJoin, Asked, Gone, Serve, Refuse, Write, Reply, Finish, Enter, Clients, Types, Waiting
  <2>3. Closed'
    BY <1>7 DEF WorkerJoin, Asked, Gone, Serve, Refuse, Write, Reply, Finish, Enter, Clients, Types, Closed
  <2> QED
    BY <2>1, <2>2, <2>3
<1>8. ASSUME NEW r \in Receivers, WorkerDeliver(r) PROVE Types' /\ Waiting' /\ Closed'
  <2>1. Types'
    BY <1>8 DEF WorkerDeliver, Write, Reply, Finish, Clients, Types
  <2>2. Waiting'
    BY <1>8 DEF WorkerDeliver, Write, Reply, Finish, Clients, Types, Waiting
  <2>3. Closed'
    BY <1>8 DEF WorkerDeliver, Write, Reply, Finish, Clients, Types, Closed
  <2> QED
    BY <2>1, <2>2, <2>3
<1>9. ASSUME NEW c \in Clients, Login(c) PROVE Types' /\ Waiting' /\ Closed'
  BY <1>9 DEF Login, Put, Goto, Types, Waiting, Closed
<1>10. ASSUME NEW c \in Clients, LoginReply(c) PROVE Types' /\ Waiting' /\ Closed'
  <2>1. /\ pc[c] = "login" /\ UNCHANGED <<serverVars, dropped, asked, printed, record>>
        /\ DOMAIN up' = Clients /\ DOMAIN down' = Clients
    BY <1>10 DEF LoginReply, Answered, Hangup, Put, Exit, Types
  <2>2. \/ \E at \in {"prompt", "join"} : Goto(c, "login", at) /\ UNCHANGED left
        \/ Exit(c)
    BY <1>10 DEF LoginReply
  <2> QED
    BY SMTT(20), <2>1, <2>2 DEF Goto, Exit, Types, Waiting, Closed
<1>11. ASSUME NEW r \in Receivers, JoinReply(r) PROVE Types' /\ Waiting' /\ Closed'
  <2>1. /\ pc[r] = "join" /\ UNCHANGED <<serverVars, dropped, asked, printed, history>>
        /\ DOMAIN up' = Clients /\ DOMAIN down' = Clients
    BY <1>11 DEF JoinReply, Answered, Hangup, Exit, Types
  <2>2. (Goto(r, "join", "listen") /\ UNCHANGED left) \/ Exit(r)
    BY <1>11 DEF JoinReply
  <2>3. Types'
    BY <2>1, <2>2 DEF Goto, Exit, Types
  <2>4. Waiting'
    BY <2>1, <2>2 DEF Goto, Exit, Types, Waiting, Clients
  <2>5. Closed'
    BY <2>1, <2>2 DEF Goto, Exit, Types, Closed, Clients
  <2> QED
    BY <2>3, <2>4, <2>5
<1>12. ASSUME NEW s \in Senders, NEW line \in UNION Range(Typed), Type(s, line) PROVE Types' /\ Waiting' /\ Closed'
  <2>1. Types'
    BY <1>12, Interpreted DEF Type, Put, Goto, Clients, Types
  <2>2. Waiting'
    BY <1>12 DEF Type, Put, Goto, Clients, Types, Waiting
  <2>3. Closed'
    BY <1>12 DEF Type, Put, Goto, Clients, Types, Closed
  <2> QED
    BY <2>1, <2>2, <2>3
<1>13. ASSUME NEW s \in Senders, Answer(s) PROVE Types' /\ Waiting' /\ Closed'
  <2>1. Types'
    BY <1>13, LearnTypes DEF Answer, Answered, Hangup, Goto, Exit, Clients, Types
  <2>2. Waiting'
    BY <1>13 DEF Answer, Answered, Hangup, Goto, Exit, Clients, Types, Waiting
  <2>3. Closed'
    <3>1. pc[s] = "await" /\ UNCHANGED <<worker, dropped>>
      BY <1>13 DEF Answer
    <3>2. Exit(s) \/ (Goto(s, "await", "prompt") /\ UNCHANGED left)
      BY <1>13 DEF Answer
    <3> QED
      BY <3>1, <3>2 DEF Goto, Exit, Clients, Types, Closed
  <2> QED
    BY <2>1, <2>2, <2>3
<1>14. ASSUME NEW r \in Receivers, ShowNext(r) PROVE Types' /\ Waiting' /\ Closed'
  <2>1. Types'
    BY <1>14 DEF ShowNext, Answered, Hangup, Exit, Clients, Types
  <2>2. Waiting'
    BY <1>14 DEF ShowNext, Answered, Hangup, Exit, Clients, Types, Waiting
  <2>3. Closed'
    BY <1>14 DEF ShowNext, Answered, Hangup, Exit, Clients, Types, Closed
  <2> QED
    BY <2>1, <2>2, <2>3
<1>15. ASSUME NEW c \in Clients, Quit(c) PROVE Types' /\ Waiting' /\ Closed'
  BY <1>15 DEF Quit, Exit, Types, Waiting, Closed
<1>16. CASE UNCHANGED vars
  BY <1>16 DEF vars, Types, Waiting, Closed
<1> QED
  BY <1>1, <1>2, <1>3, <1>4, <1>5, <1>6, <1>7, <1>8, <1>9, <1>10, <1>11, <1>12, <1>13, <1>14, <1>15,
     <1>16 DEF Next, Worker, Program


-----------------------------------------------------------------------------
(* Senders *)

\* Where an ok to the last command leaves a sender.
RoomAfter(s) ==
    IF Has(asked[s], "join") THEN Tail(Received(asked[s]))
    ELSE IF Has(asked[s], "leave") THEN <<>> ELSE told[s].room
CastAfter(s) == IF Has(asked[s], "sendall") THEN told[s].texts + 1 ELSE told[s].texts

Counted(s) ==
    /\ told[s].texts <= cast[s] /\ cast[s] <= told[s].texts + 1
    /\ up[s] # <<>> /\ worker[s] # "gone" => cast[s] = told[s].texts

\* At most one piece is on the way to the worker.  One under way when the worker
\* talks to a sender is its last command, or a beginning of it if the program
\* was killed.
OneLine(s) ==
    /\ up[s] # <<>> => up[s] = <<Head(up[s])>>
    /\ up[s] # <<>> /\ worker[s] = "sender" =>
          /\ asked[s] \in Lines /\ user[s] = Tail(Received(Slogin(s)))
          /\ \/ Head(up[s]) = Received(asked[s])
             \/ s \in left /\ Head(up[s]) \in Beginnings(Received(asked[s]))

Known(s) == worker[s] = "sender" /\ pc[s] # "done" => user[s] = Tail(Received(Slogin(s)))

Fresh(s) == cast[s] = 0 /\ told[s] = [room |-> <<>>, texts |-> 0] /\ current[s] = <<>>

\* At most one piece.
Few(q) == q = <<>> \/ \E p : q = <<p>>

Starting(s) ==
    pc[s] \in {"off", "connected"} =>
        up[s] = <<>> /\ down[s] = <<>> /\ Fresh(s) /\ worker[s] \in {"none", "login", "gone"}

\* The login is under way, answered with ok, or the worker has ended.
LoggingIn(s) ==
    pc[s] = "login" =>
        /\ Fresh(s)
        /\ \/ /\ up[s] = <<Received(Slogin(s))>> /\ down[s] = <<>>
              /\ worker[s] \in {"none", "login"}
           \/ up[s] = <<>> /\ down[s] = <<Ok>> /\ worker[s] = "sender"
           \/ worker[s] = "gone" /\ Few(down[s])

Prompting(s) ==
    pc[s] = "prompt" =>
        /\ down[s] = <<>>
        /\ \/ /\ up[s] = <<>> /\ worker[s] = "sender"
              /\ told[s].room = current[s] /\ cast[s] = told[s].texts
           \/ worker[s] = "gone"

\* The command is under way, answered with ok or err, or the worker has ended,
\* after an answer to it or before.
Awaiting(s) ==
    pc[s] = "await" =>
        /\ asked[s] \in Lines
        /\ \/ /\ up[s] = <<Received(asked[s])>> /\ down[s] = <<>> /\ worker[s] = "sender"
              /\ told[s].room = current[s] /\ cast[s] = told[s].texts
           \/ /\ up[s] = <<>> /\ down[s] = <<Ok>> /\ cast[s] = CastAfter(s)
              /\ ~Has(asked[s], "quit") /\ worker[s] = "sender" /\ current[s] = RoomAfter(s)
           \/ /\ up[s] = <<>> /\ down[s] = <<Err>> /\ cast[s] = told[s].texts
              /\ worker[s] = "sender" /\ current[s] = told[s].room
           \/ /\ worker[s] = "gone" /\ Few(down[s])
              /\ \A p : down[s] = <<p>> /\ Has(p, "ok") => cast[s] = CastAfter(s)

InTouch(s) ==
    /\ pc[s] \in {"off", "connected", "login", "prompt", "await", "done"}
    /\ Counted(s) /\ OneLine(s) /\ Known(s)
    /\ Starting(s) /\ LoggingIn(s) /\ Prompting(s) /\ Awaiting(s)

SendersInTouch == \A s \in Senders \ overlong : InTouch(s)

LEMMA InTouchAtFirst == Init => SendersInTouch
<1> SUFFICES ASSUME Init, NEW s \in Senders PROVE InTouch(s)
  BY DEF SendersInTouch
<1>1. /\ pc[s] = "off" /\ worker[s] = "none" /\ up[s] = <<>> /\ down[s] = <<>>
      /\ cast[s] = 0 /\ told[s] = [room |-> <<>>, texts |-> 0] /\ current[s] = <<>>
  BY DEF Init, Clients
<1> QED
  BY <1>1 DEF InTouch, Counted, OneLine, Known, Starting, LoggingIn, Prompting, Awaiting, Fresh

Same(s) ==
    /\ user'[s] = user[s] /\ current'[s] = current[s] /\ asked'[s] = asked[s]
    /\ told'[s] = told[s] /\ cast'[s] = cast[s] /\ name' = name

\* What others do leaves a sender in touch.
LEMMA Untouched ==
    ASSUME NEW s \in Senders, InTouch(s), Same(s), left \subseteq left',
           pc'[s] = pc[s], worker'[s] = worker[s], up'[s] = up[s], down'[s] = down[s]
    PROVE  InTouch(s)'
<1>1. RoomAfter(s)' = RoomAfter(s) /\ CastAfter(s)' = CastAfter(s) /\ Slogin(s)' = Slogin(s)
      /\ Fresh(s)' = Fresh(s)
  BY DEF Same, RoomAfter, CastAfter, Slogin, Fresh
<1>2. Counted(s)' /\ OneLine(s)' /\ Known(s)'
  BY <1>1 DEF Same, InTouch, Counted, OneLine, Known
<1>3. Starting(s)' /\ LoggingIn(s)' /\ Prompting(s)' /\ Awaiting(s)'
  BY <1>1 DEF Same, InTouch, Starting, LoggingIn, Prompting, Awaiting
<1> QED
  BY <1>2, <1>3 DEF InTouch

LEMMA FewRemain == ASSUME NEW q, Few(q), NEW rest \in Remains(q) PROVE Few(rest)
BY RemainsOfOne DEF Few

\* A worker ends without an answer, or the server does.
LEMMA WorkerEnds ==
    ASSUME NEW s \in Senders, InTouch(s), Same(s), left' = left, worker'[s] = "gone",
           worker[s] = "gone" => down'[s] = down[s],
           down'[s] = down[s] \/ down'[s] \in Remains(down[s]),
           pc'[s] = pc[s], up'[s] = up[s]
    PROVE  InTouch(s)'
<1>1. CastAfter(s)' = CastAfter(s) /\ Fresh(s)' = Fresh(s)
  BY DEF Same, CastAfter, Fresh
<1>2. Counted(s)' /\ OneLine(s)' /\ Known(s)'
  BY DEF Same, InTouch, Counted, OneLine, Known
<1>3. down[s] = <<>> => down'[s] = <<>>
  BY RemainsOfOne
<1>4. Few(down[s]) => Few(down'[s])
  BY FewRemain
<1>5. \A p : Few(<<p>>) /\ Few(<<>>)
  BY DEF Few
<1>6. Starting(s)' /\ LoggingIn(s)' /\ Prompting(s)'
  BY <1>1, <1>3, <1>4, <1>5 DEF Same, InTouch, Starting, LoggingIn, Prompting
<1>7. Awaiting(s)'
  <2> SUFFICES ASSUME pc[s] = "await"
      PROVE  Few(down'[s]) /\ \A p : down'[s] = <<p>> /\ Has(p, "ok") => cast[s] = CastAfter(s)
    BY <1>1 DEF Same, Awaiting, InTouch
  <2>0. \A p : <<p>> # <<>>
    OBVIOUS
  <2>1. CASE down[s] = <<>>
    BY <1>3, <1>5, <2>0, <2>1
  <2>2. CASE down[s] = <<Ok>> /\ cast[s] = CastAfter(s)
    BY <1>4, <1>5, <2>2
  <2>3. CASE down[s] = <<Err>>
    <3>1. down'[s] = <<>> \/ down'[s] = <<Err>> \/ \E b \in Beginnings(Err) : down'[s] = <<b>>
      BY <2>3, RemainsOfOne
    <3>2. \A b \in Beginnings(Err) : ~Has(b, "ok")
      BY Answers, BeginningTag DEF Has
    <3>3. \A p, b : <<p>> = <<b>> => p = b
      OBVIOUS
    <3> QED
      BY <1>4, <1>5, <2>0, <2>3, <3>1, <3>2, <3>3, Answers
  <2>4. CASE worker[s] = "gone"
    BY <2>4 DEF InTouch, Awaiting
  <2> QED
    BY <2>1, <2>2, <2>3, <2>4 DEF InTouch, Awaiting
<1> QED
  BY <1>2, <1>6, <1>7 DEF Same, InTouch

\* A program that ends leaves nothing to keep in touch with but what it wrote.
LEMMA ProgramEnds ==
    ASSUME NEW s \in Senders, InTouch(s), Types, pc'[s] = "done", s \notin left, s \in left',
           up'[s] = up[s] \/ up'[s] \in Remains(up[s]),
           worker'[s] = worker[s], user'[s] = user[s], asked'[s] = asked[s], cast'[s] = cast[s],
           told'[s].texts = told[s].texts, name' = name
    PROVE  InTouch(s)'
<1>1. up[s] = <<>> => up'[s] = <<>>
  BY RemainsOfOne
<1>2. ASSUME up[s] # <<>> PROVE up'[s] = <<>> \/ up'[s] = up[s] \/ \E b \in Beginnings(Head(up[s])) : up'[s] = <<b>>
  BY <1>2, RemainsOfOne DEF InTouch, OneLine
<1>3. \A b : Head(<<b>>) = b /\ <<b>> # <<>>
  OBVIOUS
<1>4. Slogin(s)' = Slogin(s)
  BY DEF Slogin
<1>5. OneLine(s)'
  BY <1>1, <1>2, <1>3, <1>4 DEF InTouch, OneLine
<1>6. Counted(s)'
  BY <1>1 DEF InTouch, Counted
<1> QED
  BY <1>5, <1>6 DEF InTouch, Known, Starting, LoggingIn, Prompting, Awaiting

LEMMA TakenInTouch ==
    ASSUME Types, NEW s \in Senders, InTouch(s), Asked(s)
    PROVE  up[s] = <<Head(up[s])>> /\ up'[s] = <<>>
<1>1. up[s] = <<Head(up[s])>> /\ up'[s] = Tail(up[s])
  BY DEF Asked, InTouch, OneLine, Types, Clients
<1>2. \A x : Tail(<<x>>) = <<>>
  OBVIOUS
<1> QED
  BY <1>1, <1>2

LEMMA ConnectInTouch ==
    ASSUME Wires, NEW s \in Senders, InTouch(s), Connect(s)
    PROVE  InTouch(s)'
<1> USE DEF Wires, Types, Clients
<1>1. /\ pc[s] = "off" /\ s \in DOMAIN pc /\ s \in DOMAIN up /\ s \notin left
      /\ UNCHANGED <<worker, user, down, current, asked, told, cast, name>>
  BY DEF Connect, Goto, Closed, history, record, broadcasts
<1>2. CASE listening = "on"
  <2>1. pc'[s] = "connected" /\ UNCHANGED <<up, left>>
    BY <1>1, <1>2 DEF Connect, Goto
  <2>2. up[s] = <<>> /\ down[s] = <<>> /\ Fresh(s) /\ worker[s] \in {"none", "login", "gone"}
    BY <1>1 DEF InTouch, Starting
  <2> QED
    BY <1>1, <2>1, <2>2 DEF InTouch, Counted, OneLine, Known, Starting, LoggingIn, Prompting, Awaiting, Fresh
<1>3. CASE listening # "on"
  <2>1. Exit(s)
    BY <1>3 DEF Connect
  <2>2. pc'[s] = "done" /\ s \in left' /\ (up'[s] = up[s] \/ up'[s] \in Remains(up[s]))
    BY <1>1, <2>1 DEF Exit
  <2> QED
    BY <1>1, <2>2, ProgramEnds
<1> QED
  BY <1>2, <1>3

LEMMA AcceptInTouch ==
    ASSUME Wires, NEW s \in Senders, InTouch(s), Accept
    PROVE  InTouch(s)'
<1>1. backlog # <<>> /\ worker' = [worker EXCEPT ![Head(backlog)] = "login"]
  BY DEF Accept
<1>2. worker[Head(backlog)] = "none" /\ Head(backlog) \in Clients
  <2>1. backlog \in Seq(Clients)
    BY DEF Wires, Types
  <2>2. 1 \in 1..Len(backlog) /\ Head(backlog) = backlog[1] /\ backlog[1] \in Clients
    BY <1>1, <2>1
  <2> QED
    BY <2>2 DEF Wires, Waiting
<1>3. UNCHANGED <<pc, up, down, left, user, current, asked, told, cast, name>>
  BY DEF Accept, wires, history, record, broadcasts
<1>4. CASE Head(backlog) # s
  BY <1>1, <1>2, <1>3, <1>4, Untouched DEF Wires, Types, Clients, Same
<1>5. CASE Head(backlog) = s
  <2>1. worker[s] = "none" /\ worker'[s] = "login"
    BY <1>1, <1>2, <1>5 DEF Wires, Types
  <2>2. Slogin(s)' = Slogin(s)
    BY <1>3 DEF Slogin
  <2> QED
    BY <1>3, <2>1, <2>2
       DEF InTouch, Counted, OneLine, Known, Starting, LoggingIn, Prompting, Awaiting, Fresh
<1> QED
  BY <1>4, <1>5

LEMMA WorkerLoginInTouch ==
    ASSUME Wires, NEW s \in Senders, InTouch(s), WorkerLogin(s)
    PROVE  InTouch(s)'
<1> USE DEF Wires, Types, Clients
<1>1. worker[s] = "login" /\ UNCHANGED <<pc, current, asked, told, cast, left, name>>
  BY DEF WorkerLogin, history, record, broadcasts
<1>a. Slogin(s)' = Slogin(s)
  BY <1>1 DEF Slogin
<1>2. CASE Gone(s)
  <2>1. pc[s] = "done" /\ up[s] = <<>> /\ up'[s] = <<>>
    BY <1>2 DEF WorkerLogin, Gone, Closed, Asked
  <2> QED
    BY <1>1, <2>1 DEF InTouch, Counted, OneLine, Known, Starting, LoggingIn, Prompting, Awaiting
<1>3. CASE Asked(s)
  <2>1. up[s] # <<>> /\ up'[s] = <<>> /\ up[s] = <<Head(up[s])>>
    BY <1>3, TakenInTouch DEF Asked
  <2>2. pc[s] = "login" => Head(up[s]) = Received(Slogin(s)) /\ s \notin left /\ down[s] = <<>> /\ Fresh(s)
    BY <1>1, <2>1 DEF InTouch, LoggingIn, Closed
  <2>a. Has(Received(Slogin(s)), "slogin") /\ ~Has(Received(Slogin(s)), "rlogin")
    BY Logins, ReceivedLine, OneTag, TagNames
  <2>3. pc[s] = "login" => worker'[s] = "sender" /\ down'[s] = <<Ok>> /\ user'[s] = Tail(Received(Slogin(s)))
    <3> HAVE pc[s] = "login"
    <3>1. Serve(s, "sender") /\ user' = [user EXCEPT ![s] = Tail(Head(up[s]))]
      BY <1>3, <2>1, <2>2, <2>a DEF WorkerLogin, Gone
    <3>2. down'[s] = <<>> \o <<Ok>>
      BY <2>2, <3>1, Answers DEF Serve, Reply, Sent
    <3> QED
      BY <2>2, <3>1, <3>2 DEF Serve
  <2>4. pc[s] \in {"login", "done"}
    BY <1>1, <2>1 DEF InTouch, Starting, Prompting, Awaiting
  <2> QED
    BY <1>1, <1>a, <2>1, <2>2, <2>3, <2>4
       DEF InTouch, Counted, OneLine, Known, Starting, LoggingIn, Prompting, Awaiting, Fresh
<1> QED
  BY <1>2, <1>3 DEF WorkerLogin

\* The answer to a command matches what it did.
LEMMA CommandInTouch ==
    ASSUME Wires, NEW s \in Senders, InTouch(s), WorkerSender(s)
    PROVE  InTouch(s)'
<1> USE DEF Wires, Types, Clients
<1>1. worker[s] = "sender" /\ UNCHANGED <<pc, user, asked, told, left, name>>
  BY DEF WorkerSender
<1>a. Slogin(s)' = Slogin(s) /\ CastAfter(s)' = CastAfter(s) /\ RoomAfter(s)' = RoomAfter(s)
  BY <1>1 DEF Slogin, CastAfter, RoomAfter
<1>2. CASE Gone(s) /\ Finish(s, down[s]) /\ UNCHANGED <<up, lost, current, queue, broadcasts>>
  <2>1. pc[s] = "done" /\ up[s] = <<>>
    BY <1>2 DEF Gone, Closed
  <2>2. worker'[s] = "gone" /\ UNCHANGED <<up, cast>>
    BY <1>2 DEF Finish, broadcasts
  <2> QED
    BY <1>1, <2>1, <2>2 DEF InTouch, Counted, OneLine, Known, Starting, LoggingIn, Prompting, Awaiting
<1>3. CASE Asked(s) /\ Command(s, Head(up[s]))
  <2> DEFINE piece == Head(up[s])
  <2>1. up[s] # <<>> /\ up'[s] = <<>> /\ cast[s] = told[s].texts
    BY <1>1, <1>3, TakenInTouch DEF Asked, InTouch, Counted
  <2>2. pc[s] \in {"await", "done"}
    BY <1>1, <2>1 DEF InTouch, Starting, LoggingIn, Prompting
  <2>3. told[s].texts \in Nat
    OBVIOUS
  <2>4. /\ pc[s] = "await" => s \notin left /\ down[s] = <<>> /\ told[s].room = current[s]
        /\ asked[s] \in Lines /\ (pc[s] = "await" => piece = Received(asked[s]))
    BY <1>1, <2>1 DEF InTouch, OneLine, Awaiting, Closed
  <2> HIDE DEF piece
  <2>b. Command(s, piece)
    BY <1>3 DEF piece
  <2>5. CASE ~IsMessage(piece)
    <3>1. UNCHANGED cast
      BY <2>b, <2>5 DEF Command, broadcasts
    <3>2. pc[s] = "done"
      BY <2>2, <2>4, <2>5, ReceivedLine
    <3> QED
      BY <1>1, <2>1, <2>3, <3>1, <3>2
         DEF InTouch, Counted, OneLine, Known, Starting, LoggingIn, Prompting, Awaiting
  <2>6. CASE IsMessage(piece)
    <3>1. cast'[s] = IF Has(piece, "sendall") /\ current[s] # <<>> THEN cast[s] + 1 ELSE cast[s]
      BY <2>b, <2>6 DEF Command, Broadcast, broadcasts
    <3>2. ASSUME pc[s] = "await" PROVE Awaiting(s)'
      <4>1. /\ s \notin left /\ down[s] = <<>> /\ told[s].room = current[s] /\ asked[s] \in Lines
            /\ piece = Received(asked[s])
        BY <2>4, <3>2
      <4>2. \A tag \in DOMAIN TagSize : Has(piece, tag) <=> Has(asked[s], tag)
        BY <4>1, ReceivedLine
      <4>3. current'[s] = IF Has(asked[s], "join") THEN Tail(piece)
                          ELSE IF Has(asked[s], "leave") THEN <<>> ELSE current[s]
        BY <2>b, <2>6, <4>2, TagNames DEF Command, Enter
      <4> DEFINE answer == IF Accepted(s, piece) THEN Ok ELSE Err
      <4>4. Sent(s, answer) = <<answer>>
        <5>1. \A x : <<>> \o <<x>> = <<x>>
          OBVIOUS
        <5> QED
          BY <4>1, <5>1, Answers DEF Sent
      <4>5. CASE Has(piece, "quit")
        <5>1. Accepted(s, piece) /\ ~Has(piece, "sendall")
          BY <4>5, OneTag DEF Accepted
        <5>2. worker'[s] = "gone" /\ down'[s] \in Remains(<<Ok>>)
          BY <2>b, <2>6, <4>1, <4>4, <4>5, <5>1 DEF Command, Finish
        <5>3. cast'[s] = CastAfter(s)
          BY <2>1, <3>1, <4>2, <5>1, TagNames DEF CastAfter
        <5>4. Few(down'[s])
          BY <5>2, RemainsOfOne DEF Few
        <5> QED
          BY <1>1, <1>a, <4>1, <5>2, <5>3, <5>4 DEF Awaiting
      <4>6. CASE ~Has(piece, "quit")
        <5>1. worker'[s] = "sender" /\ down'[s] = <<answer>>
          BY <1>1, <2>b, <2>6, <4>4, <4>6 DEF Command, Reply
        <5>2. CASE Accepted(s, piece)
          <6>1. current'[s] = RoomAfter(s)
            BY <4>1, <4>3 DEF RoomAfter
          <6>2. cast'[s] = CastAfter(s)
            BY <2>1, <3>1, <4>2, <5>2, OneTag, TagNames DEF Accepted, CastAfter
          <6>3. ~Has(asked[s], "quit")
            BY <4>2, <4>6, TagNames
          <6> QED
            BY <1>1, <1>a, <2>1, <4>1, <5>1, <5>2, <6>1, <6>2, <6>3 DEF Awaiting
        <5>3. CASE ~Accepted(s, piece)
          <6>1. cast'[s] = told[s].texts /\ current'[s] = told[s].room
            BY <2>1, <3>1, <4>1, <4>2, <4>3, <5>3, TagNames DEF Accepted
          <6> QED
            BY <1>1, <2>1, <4>1, <5>1, <5>3, <6>1 DEF Awaiting
        <5> QED
          BY <5>2, <5>3
      <4> QED
        BY <4>5, <4>6
    <3>3. worker'[s] \in {"sender", "gone"}
      BY <1>1, <2>b, <2>6 DEF Command, Finish
    <3>4. Awaiting(s)'
      BY <1>1, <3>2 DEF Awaiting
    <3>5. Counted(s)' /\ OneLine(s)'
      BY <1>1, <2>1, <2>3, <3>1 DEF Counted, OneLine
    <3> QED
      BY <1>1, <1>a, <2>2, <3>4, <3>5 DEF InTouch, Known, Starting, LoggingIn, Prompting
  <2> QED
    BY <2>5, <2>6
<1> QED
  BY <1>2, <1>3 DEF WorkerSender

LEMMA LoginInTouch ==
    ASSUME Wires, NEW s \in Senders, s \notin overlong', InTouch(s), Login(s)
    PROVE  InTouch(s)'
<1> USE DEF Wires, Types, Clients
<1>1. /\ pc[s] = "connected" /\ pc'[s] = "login"
      /\ UNCHANGED <<worker, user, current, down, left, asked, told, cast, name>>
  BY DEF Login, Goto, serverVars, record, broadcasts
<1>a. Slogin(s)' = Slogin(s)
  BY <1>1 DEF Slogin
<1>2. up[s] = <<>> /\ down[s] = <<>> /\ Fresh(s) /\ worker[s] \in {"none", "login", "gone"}
  BY <1>1 DEF InTouch, Starting
<1>3. Put(s, Slogin(s))
  BY DEF Login, Slogin
<1>4. Pieces(Slogin(s)) = <<Received(Slogin(s))>>
  BY <1>3, OnePiece DEF Put
<1>5. worker[s] # "gone" => up'[s] = <<Received(Slogin(s))>>
  <2>1. \A x : <<>> \o <<x>> = <<x>>
    OBVIOUS
  <2>2. s \notin dropped => up'[s] = up[s] \o <<Received(Slogin(s))>>
    BY <1>3, <1>4 DEF Put
  <2> QED
    BY <1>2, <2>1, <2>2 DEF Closed
<1>6. worker[s] = "gone" => up'[s] = <<>>
  BY <1>2, <1>3 DEF Put, Closed
<1>7. up'[s] # <<>> => up'[s] = <<Head(up'[s])>>
  BY <1>2, <1>5, <1>6
<1>8. Few(down[s])
  BY <1>2 DEF Few
<1> QED
  BY <1>1, <1>a, <1>2, <1>5, <1>6, <1>7, <1>8
     DEF InTouch, Counted, OneLine, Known, Starting, LoggingIn, Prompting, Awaiting, Fresh

LEMMA LoginReplyInTouch ==
    ASSUME Wires, NEW s \in Senders, InTouch(s), LoginReply(s)
    PROVE  InTouch(s)'
<1> USE DEF Wires, Types, Clients
<1>1. pc[s] = "login" /\ s \notin left /\ UNCHANGED <<worker, user, current, asked, told, cast, name>>
  BY DEF LoginReply, serverVars, record, broadcasts, Closed
<1>2. CASE Exit(s)
  <2>1. pc'[s] = "done" /\ s \in left' /\ (up'[s] = up[s] \/ up'[s] \in Remains(up[s]))
    BY <1>2 DEF Exit
  <2> QED
    BY <1>1, <2>1, ProgramEnds
<1>3. CASE Answered(s, TRUE) /\ Goto(s, "login", "prompt") /\ UNCHANGED <<up, lost, overlong>> /\ UNCHANGED left
  <2>1. down[s] # <<>> /\ down'[s] = Tail(down[s]) /\ pc'[s] = "prompt" /\ up'[s] = up[s]
    BY <1>3 DEF Answered, Goto
  <2>2. \A x : Tail(<<x>>) = <<>>
    OBVIOUS
  <2>3. Fresh(s) /\ down'[s] = <<>> /\ (worker[s] = "gone" \/ (worker[s] = "sender" /\ up[s] = <<>>))
    BY <1>1, <2>1, <2>2 DEF InTouch, LoggingIn, Few
  <2>4. Slogin(s)' = Slogin(s)
    BY <1>1 DEF Slogin
  <2> QED
    BY <1>1, <1>3, <2>1, <2>3, <2>4
       DEF InTouch, Counted, OneLine, Known, Starting, LoggingIn, Prompting, Awaiting, Fresh
<1> QED
  BY <1>2, <1>3 DEF LoginReply

LEMMA TypeInTouch ==
    ASSUME Wires, NEW s \in Senders, s \notin overlong', InTouch(s),
           NEW line \in UNION Range(Typed), Type(s, line)
    PROVE  InTouch(s)'
<1> USE DEF Wires, Types, Clients
<1> DEFINE msg == Interpret(line)
<1>a. msg # NoMessage => msg \in Lines
  BY Interpreted
<1> HIDE DEF msg
<1>1. pc[s] = "prompt" /\ UNCHANGED <<worker, user, current, down, left, told, cast, name>>
  BY DEF Type, serverVars, broadcasts
<1>2. CASE UNCHANGED <<up, lost, pc, asked, overlong>>
  BY <1>1, <1>2, Untouched DEF Same
<1>3. CASE /\ msg # NoMessage
           /\ Goto(s, "prompt", "await") /\ Put(s, msg) /\ asked' = [asked EXCEPT ![s] = msg]
  <2>1. pc'[s] = "await" /\ asked'[s] = msg /\ msg \in Lines
    BY <1>a, <1>3 DEF Goto
  <2>2. /\ down[s] = <<>>
        /\ \/ /\ up[s] = <<>> /\ worker[s] = "sender"
              /\ told[s].room = current[s] /\ cast[s] = told[s].texts
           \/ worker[s] = "gone"
    BY <1>1 DEF InTouch, Prompting
  <2>3. Pieces(msg) = <<Received(msg)>>
    BY <1>3, OnePiece DEF Put
  <2>4. worker[s] # "gone" => up'[s] = <<Received(msg)>>
    <3>1. worker[s] # "gone" => up[s] = <<>> /\ s \notin dropped
      BY <2>2 DEF Closed
    <3>2. \A x : <<>> \o <<x>> = <<x>>
      OBVIOUS
    <3>3. s \notin dropped => up'[s] = up[s] \o <<Received(msg)>>
      BY <1>3, <2>3 DEF Put
    <3> QED
      BY <3>1, <3>2, <3>3
  <2>5. worker[s] = "gone" => up'[s] = up[s]
    BY <1>3 DEF Put, Closed
  <2>6. up'[s] # <<>> => up'[s] = <<Head(up'[s])>>
    BY <2>4, <2>5 DEF InTouch, OneLine
  <2>7. Few(<<>>) /\ \A p : <<p>> # <<>> /\ Head(<<p>>) = p
    BY DEF Few
  <2>8. Slogin(s)' = Slogin(s)
    BY <1>1 DEF Slogin
  <2>9. OneLine(s)' /\ Known(s)' /\ Counted(s)'
    BY <1>1, <2>1, <2>2, <2>4, <2>5, <2>6, <2>7, <2>8 DEF InTouch, OneLine, Known, Counted
  <2>10. Awaiting(s)'
    BY <1>1, <2>1, <2>2, <2>4, <2>7 DEF Awaiting
  <2> QED
    BY <2>1, <2>9, <2>10 DEF InTouch, Starting, LoggingIn, Prompting
<1> QED
  BY <1>2, <1>3 DEF Type, msg

LEMMA LearnTold ==
    ASSUME Types, NEW s \in Senders, Learn(s)
    PROVE  told'[s].room = RoomAfter(s) /\ told'[s].texts = CastAfter(s)
<1>1. told[s] \in [room : Seq(AnyWord), texts : Nat] /\ told \in [Senders -> [room : Seq(AnyWord), texts : Nat]]
  BY DEF Types
<1>2. ~(Has(asked[s], "join") /\ Has(asked[s], "leave")) /\ ~(Has(asked[s], "join") /\ Has(asked[s], "sendall"))
      /\ ~(Has(asked[s], "leave") /\ Has(asked[s], "sendall"))
  BY OneTag
<1> DEFINE new == CASE Has(asked[s], "join")    -> [told[s] EXCEPT !.room = Tail(Received(asked[s]))]
                    [] Has(asked[s], "leave")   -> [told[s] EXCEPT !.room = <<>>]
                    [] Has(asked[s], "sendall") -> [told[s] EXCEPT !.texts = told[s].texts + 1]
                    [] OTHER                    -> told[s]
<1>3. told' = [told EXCEPT ![s] = new]
  BY DEF Learn
<1>4. told'[s] = new
  BY <1>1, <1>3
<1>5. CASE Has(asked[s], "join")
  <2>1. new = [told[s] EXCEPT !.room = Tail(Received(asked[s]))]
    BY <1>2, <1>5
  <2> HIDE DEF new
  <2> QED
    BY <1>1, <1>2, <1>4, <1>5, <2>1 DEF RoomAfter, CastAfter
<1>6. CASE Has(asked[s], "leave")
  <2>1. new = [told[s] EXCEPT !.room = <<>>]
    BY <1>2, <1>6
  <2> HIDE DEF new
  <2> QED
    BY <1>1, <1>2, <1>4, <1>6, <2>1 DEF RoomAfter, CastAfter
<1>7. CASE Has(asked[s], "sendall")
  <2>1. new = [told[s] EXCEPT !.texts = told[s].texts + 1]
    BY <1>2, <1>7
  <2> HIDE DEF new
  <2>2. told'[s].room = told[s].room /\ told'[s].texts = told[s].texts + 1
    BY <1>1, <1>4, <2>1
  <2> QED
    BY <1>2, <1>7, <2>2 DEF RoomAfter, CastAfter
<1>8. CASE ~Has(asked[s], "join") /\ ~Has(asked[s], "leave") /\ ~Has(asked[s], "sendall")
  BY <1>4, <1>8 DEF RoomAfter, CastAfter
<1> QED
  BY <1>5, <1>6, <1>7, <1>8

LEMMA AnswerInTouch ==
    ASSUME Wires, NEW s \in Senders, InTouch(s), Answer(s)
    PROVE  InTouch(s)'
<1> USE DEF Wires, Types, Clients
<1>1. pc[s] = "await" /\ s \notin left /\ UNCHANGED <<worker, dropped, user, current, asked, cast, name>>
  BY DEF Answer, serverVars, broadcasts, Closed
<1>2. \A x : Tail(<<x>>) = <<>> /\ Head(<<x>>) = x /\ <<x>> # <<>>
  OBVIOUS
<1>a. Slogin(s)' = Slogin(s)
  BY <1>1 DEF Slogin
<1>3. CASE /\ Answered(s, TRUE) /\ Learn(s)
           /\ IF Has(asked[s], "quit") THEN Exit(s)
              ELSE Goto(s, "await", "prompt") /\ UNCHANGED <<left, up>>
  <2>1. down[s] # <<>> /\ Has(Head(down[s]), "ok") /\ down'[s] = Tail(down[s])
    BY <1>3 DEF Answered
  <2>2. /\ down'[s] = <<>> /\ cast[s] = CastAfter(s)
        /\ \/ worker[s] = "gone"
           \/ /\ worker[s] = "sender" /\ current[s] = RoomAfter(s) /\ up[s] = <<>>
              /\ ~Has(asked[s], "quit")
    BY <1>1, <1>2, <2>1, Answers DEF InTouch, Awaiting, Few
  <2>4. told'[s].room = RoomAfter(s) /\ told'[s].texts = CastAfter(s)
    BY <1>3, LearnTold
  <2>5. cast[s] \in Nat
    OBVIOUS
  <2>6. CASE Has(asked[s], "quit")
    <3>1. pc'[s] = "done" /\ worker[s] = "gone" /\ up' = up /\ left \subseteq left'
      BY <1>3, <2>2, <2>6 DEF Exit, Closed
    <3> QED
      BY <1>1, <1>a, <2>2, <2>4, <2>5, <3>1
         DEF InTouch, Counted, OneLine, Known, Starting, LoggingIn, Prompting, Awaiting
  <2>7. CASE ~Has(asked[s], "quit")
    <3>1. pc'[s] = "prompt" /\ UNCHANGED <<up, left>>
      BY <1>3, <2>7 DEF Goto
    <3> QED
      BY <1>1, <1>a, <2>2, <2>4, <2>5, <3>1
         DEF InTouch, Counted, OneLine, Known, Starting, LoggingIn, Prompting, Awaiting
  <2> QED
    BY <2>6, <2>7
<1>4. CASE /\ Answered(s, FALSE) \/ (Hangup(s) /\ UNCHANGED down)
           /\ Goto(s, "await", "prompt") /\ UNCHANGED <<left, up, told>>
  <2>1. pc'[s] = "prompt"
    BY <1>4 DEF Goto
  <2>2. \/ worker[s] = "gone" /\ down'[s] = <<>>
        \/ /\ up[s] = <<>> /\ down'[s] = <<>> /\ cast[s] = told[s].texts
           /\ worker[s] = "sender" /\ current[s] = told[s].room
    <3>1. CASE Answered(s, FALSE)
      <4>1. down[s] # <<>> /\ ~Has(Head(down[s]), "ok") /\ down'[s] = Tail(down[s])
        BY <3>1 DEF Answered
      <4> QED
        BY <1>1, <1>2, <4>1, Answers DEF InTouch, Awaiting, Few
    <3>2. CASE Hangup(s) /\ UNCHANGED down
      BY <3>2 DEF Hangup, Closed
    <3> QED
      BY <1>4, <3>1, <3>2
  <2> QED
    BY <1>1, <1>a, <1>4, <2>1, <2>2
       DEF InTouch, Counted, OneLine, Known, Starting, LoggingIn, Prompting, Awaiting
<1> QED
  BY <1>3, <1>4 DEF Answer

LEMMA OnlyGrow ==
    ASSUME [Next]_vars
    PROVE  overlong \subseteq overlong' /\ left \subseteq left' /\ name' = name
<1> USE DEF serverVars, wires, broadcasts, record, history
<1>1. overlong \subseteq overlong'
  BY DEF Next, vars, Listen, Accept, AcceptFails, Connect, Worker, WorkerLogin,
         WorkerSender, WorkerJoin, WorkerDeliver, Program, Login, LoginReply, Answer, JoinReply, ShowNext,
         Quit, Type, Put
<1>2. left \subseteq left'
  BY DEF Next, vars, Listen, Accept, AcceptFails, Connect, Worker, WorkerLogin, Exit,
         WorkerSender, WorkerJoin, WorkerDeliver, Program, Login, LoginReply, Answer, JoinReply, ShowNext,
         Quit, Type
<1>3. name' = name
  BY DEF Next, vars, Listen, Accept, AcceptFails, Connect, Worker, WorkerLogin,
         WorkerSender, WorkerJoin, WorkerDeliver, Program, Login, LoginReply, Answer, JoinReply, ShowNext,
         Quit, Type
<1> QED
  BY <1>1, <1>2, <1>3

LEMMA InTouchStep ==
    ASSUME Wires, SendersInTouch, [Next]_vars
    PROVE  SendersInTouch'
<1> SUFFICES ASSUME NEW s \in Senders, s \notin overlong' PROVE InTouch(s)'
  BY DEF SendersInTouch
<1>1. s \notin overlong /\ left \subseteq left' /\ name' = name
  BY OnlyGrow
<1>2. InTouch(s)
  BY <1>1 DEF SendersInTouch
<1>3. s \in Clients /\ \A r \in Receivers : r # s
  BY ClientsAssumption DEF Clients
<1> USE DEF serverVars, wires, broadcasts, record, history, Same
<1>4. CASE Listen
  BY <1>1, <1>2, <1>4, Untouched DEF Listen
<1>5. CASE Accept
  BY <1>2, <1>5, AcceptInTouch
<1>6. CASE AcceptFails
  <2>1. worker'[s] = "gone" /\ UNCHANGED <<user, current, up, left, lost, pc, asked, told, cast, name>>
    BY <1>3, <1>6 DEF AcceptFails
  <2> DEFINE rests == [c \in Clients |-> IF c \in left \cup dropped THEN {down[c]} ELSE Remains(down[c])]
  <2>2. down'[s] \in rests[s]
    BY <1>3, <1>6 DEF AcceptFails
  <2>3. down'[s] = down[s] \/ (s \notin dropped /\ down'[s] \in Remains(down[s]))
    BY <1>3, <2>2
  <2>4. worker[s] = "gone" => s \in dropped
    BY <1>3 DEF Wires, Closed
  <2> QED
    BY <1>2, <2>1, <2>3, <2>4, WorkerEnds
<1>7. ASSUME NEW c \in Clients, c # s, Connect(c) PROVE InTouch(s)'
  <2>1. pc'[s] = pc[s] /\ up'[s] = up[s]
    BY <1>3, <1>7 DEF Connect, Goto, Exit, Wires, Types
  <2> QED
    BY <1>1, <1>2, <1>7, <2>1, Untouched DEF Connect
<1>8. ASSUME NEW c \in Clients, c # s, WorkerLogin(c) PROVE InTouch(s)'
  <2>1. worker'[s] = worker[s] /\ up'[s] = up[s] /\ down'[s] = down[s] /\ user'[s] = user[s]
    BY <1>3, <1>8 DEF WorkerLogin, Asked, Serve, Refuse, Write, Reply, Finish, Wires, Types
  <2> QED
    BY <1>1, <1>2, <1>8, <2>1, Untouched DEF WorkerLogin
<1>9. ASSUME NEW c \in Senders, c # s, WorkerSender(c) PROVE InTouch(s)'
  <2>1. c \in Clients
    BY DEF Clients
  <2>2. worker'[s] = worker[s] /\ up'[s] = up[s] /\ down'[s] = down[s]
    BY <1>3, <1>9, <2>1 DEF WorkerSender, Command, Asked, Gone, Write, Reply, Finish, Wires, Types
  <2>3. current'[s] = current[s] /\ cast'[s] = cast[s]
    BY <1>3, <1>9, <2>1 DEF WorkerSender, Command, Enter, Broadcast, Wires, Types
  <2> QED
    BY <1>1, <1>2, <1>9, <2>2, <2>3, Untouched DEF WorkerSender
<1>10. ASSUME NEW r \in Receivers, WorkerJoin(r) PROVE InTouch(s)'
  <2>1. worker'[s] = worker[s] /\ up'[s] = up[s] /\ down'[s] = down[s] /\ current'[s] = current[s]
    BY <1>3, <1>10 DEF WorkerJoin, Asked, Serve, Refuse, Write, Reply, Finish, Enter, Wires, Types
  <2> QED
    BY <1>1, <1>2, <1>10, <2>1, Untouched DEF WorkerJoin
<1>11. ASSUME NEW r \in Receivers, WorkerDeliver(r) PROVE InTouch(s)'
  <2>1. worker'[s] = worker[s] /\ down'[s] = down[s]
    BY <1>3, <1>11 DEF WorkerDeliver, Write, Reply, Finish, Wires, Types
  <2> QED
    BY <1>1, <1>2, <1>11, <2>1, Untouched DEF WorkerDeliver
<1>12. ASSUME NEW c \in Clients, c # s, Login(c) PROVE InTouch(s)'
  <2>1. pc'[s] = pc[s] /\ up'[s] = up[s]
    BY <1>3, <1>12 DEF Login, Goto, Put, Wires, Types
  <2> QED
    BY <1>1, <1>2, <1>12, <2>1, Untouched DEF Login
<1>13. ASSUME NEW c \in Clients, c # s, LoginReply(c) PROVE InTouch(s)'
  <2>1. pc'[s] = pc[s] /\ up'[s] = up[s] /\ down'[s] = down[s]
    BY <1>3, <1>13 DEF LoginReply, Answered, Hangup, Goto, Exit, Put, Wires, Types
  <2> QED
    BY <1>1, <1>2, <1>13, <2>1, Untouched DEF LoginReply
<1>14. ASSUME NEW c \in Senders, c # s, Answer(c) PROVE InTouch(s)'
  <2>1. pc'[s] = pc[s] /\ up'[s] = up[s] /\ down'[s] = down[s] /\ told'[s] = told[s]
    BY <1>3, <1>14 DEF Answer, Answered, Hangup, Learn, Goto, Exit, Wires, Types, Clients
  <2> QED
    BY <1>1, <1>2, <1>14, <2>1, Untouched DEF Answer
<1>15. ASSUME NEW r \in Receivers, JoinReply(r) \/ ShowNext(r) PROVE InTouch(s)'
  <2>1. pc'[s] = pc[s] /\ up'[s] = up[s] /\ down'[s] = down[s]
    BY <1>3, <1>15 DEF JoinReply, ShowNext, Answered, Hangup, Goto, Exit, Wires, Types, Clients
  <2> QED
    BY <1>1, <1>2, <1>15, <2>1, Untouched DEF JoinReply, ShowNext
<1>16. ASSUME NEW c \in Clients, Quit(c) PROVE InTouch(s)'
  <2>1. CASE c = s
    <3>1. s \notin left
      BY <1>3, <1>16, <2>1 DEF Quit, Wires, Closed
    <3>2. pc'[s] = "done" /\ s \in left' /\ (up'[s] = up[s] \/ up'[s] \in Remains(up[s]))
      BY <1>3, <1>16, <2>1 DEF Quit, Exit, Wires, Types
    <3> QED
      BY <1>2, <1>16, <3>1, <3>2, ProgramEnds DEF Quit, Wires
  <2>2. CASE c # s
    <3>1. pc'[s] = pc[s] /\ up'[s] = up[s]
      BY <1>3, <1>16, <2>2 DEF Quit, Exit, Wires, Types
    <3> QED
      BY <1>1, <1>2, <1>16, <3>1, Untouched DEF Quit
  <2> QED
    BY <2>1, <2>2
<1>17. ASSUME NEW c \in Senders, NEW line, c # s, Type(c, line) PROVE InTouch(s)'
  <2>1. pc'[s] = pc[s] /\ up'[s] = up[s] /\ asked'[s] = asked[s]
    BY <1>3, <1>17 DEF Type, Goto, Put, Wires, Types
  <2> QED
    BY <1>1, <1>2, <1>17, <2>1, Untouched DEF Type
<1>18. CASE UNCHANGED vars
  BY <1>1, <1>2, <1>18, Untouched DEF vars
<1>19. ASSUME NEW c \in Clients, Connect(c) \/ Worker(c) \/ Program(c) PROVE InTouch(s)'
  <2>1. CASE c = s
    BY <1>2, <1>3, <1>19, <2>1, ConnectInTouch, WorkerLoginInTouch, CommandInTouch, LoginInTouch,
       LoginReplyInTouch, AnswerInTouch DEF Worker, Program
  <2>2. CASE c # s
    BY <1>7, <1>8, <1>9, <1>10, <1>11, <1>12, <1>13, <1>14, <1>15, <1>19, <2>2 DEF Worker, Program
  <2> QED
    BY <2>1, <2>2
<1>20. ASSUME NEW c \in Senders, NEW line \in UNION Range(Typed), Type(c, line) PROVE InTouch(s)'
  BY <1>2, <1>17, <1>20, TypeInTouch
<1> QED
  BY <1>4, <1>5, <1>6, <1>16, <1>18, <1>19, <1>20 DEF Next

\* Question and answer stay in step, whatever the other programs and the server
\* do and wherever a connection is cut, for every sender whose lines fit: what
\* the user is told of its room and its texts at a prompt is what the worker has
\* made of them.
THEOREM QuestionsInStep == Spec => []InStep
<1>1. Init => Wires /\ SendersInTouch
  BY WiresAtFirst, InTouchAtFirst
<1>2. Wires /\ SendersInTouch /\ [Next]_vars => Wires' /\ SendersInTouch'
  BY WiresStep, InTouchStep
<1>3. Wires /\ SendersInTouch => InStep
  <2> SUFFICES ASSUME Wires, SendersInTouch, NEW s \in Senders \ overlong
      PROVE  /\ told[s].texts <= cast[s] /\ cast[s] <= told[s].texts + 1
             /\ pc[s] = "prompt" /\ s \notin dropped =>
                   /\ up[s] = <<>> /\ down[s] = <<>>
                   /\ told[s] = [room |-> current[s], texts |-> cast[s]]
    BY DEF InStep
  <2>1. InTouch(s)
    BY DEF SendersInTouch
  <2>2. told[s] \in [room : Seq(AnyWord), texts : Nat]
    BY DEF Wires, Types
  <2>3. pc[s] = "prompt" /\ s \notin dropped =>
           /\ up[s] = <<>> /\ down[s] = <<>> /\ told[s].room = current[s] /\ told[s].texts = cast[s]
    BY <2>1 DEF InTouch, Prompting, Wires, Closed, Clients
  <2> QED
    BY <2>1, <2>2, <2>3 DEF InTouch, Counted
<1> QED
  BY <1>1, <1>2, <1>3, PTL DEF Spec

-----------------------------------------------------------------------------
(* What is broadcast *)

\* The last text of a sender that was killed, of which only a beginning came.
CutShort(r, i) ==
    LET by == meant[r][i].by
    IN  /\ by \in left /\ up[by] = <<>>
        /\ IsBeginning(said[r][i].text, meant[r][i].text)
        /\ \A j \in 1..Len(meant[r]) : meant[r][j].by = by => j <= i

CleanEntry == [from : CleanData, text : CleanData]

Genuine(r, i) ==
    LET by == meant[r][i].by
    IN  /\ by \in Senders
        /\ by \notin overlong =>
              /\ said[r][i] \in CleanEntry
              /\ said[r][i].from = Tail(Received(Slogin(by)))
              /\ said[r][i].text = meant[r][i].text \/ CutShort(r, i)

IsSeq(q) == \E S : q \in Seq(S)

EntriesTrue ==
    \A r \in Receivers :
        /\ IsSeq(said[r]) /\ IsSeq(meant[r]) /\ Len(said[r]) = Len(meant[r])
        /\ \A i \in 1..Len(said[r]) : Genuine(r, i)

LEMMA EntriesAtFirst == Init => EntriesTrue
<1> SUFFICES ASSUME Init, NEW r \in Receivers
             PROVE  IsSeq(<<>>) /\ Len(<<>>) = 0 /\ 1..0 = {}
  BY DEF EntriesTrue, Init
<1> QED
  BY DEF IsSeq

\* A program that has ended sends nothing more.
LEMMA NothingMoreIsSent ==
    ASSUME Wires, [Next]_vars, NEW s \in Clients, s \in left, up[s] = <<>>
    PROVE  up'[s] = <<>>
<1>1. pc[s] = "done" /\ DOMAIN up = Clients
  BY DEF Wires, Closed, Types
<1> USE DEF serverVars, wires, broadcasts, record, history
<1>2. ASSUME NEW c \in Clients, Connect(c) \/ LoginReply(c) \/ Login(c) \/ Quit(c) PROVE up'[s] = <<>>
  <2>1. c # s
    BY <1>1, <1>2 DEF Connect, Goto, LoginReply, Login, Quit
  <2> QED
    BY <1>1, <1>2, <2>1 DEF Connect, LoginReply, Login, Quit, Exit, Put
<1>3. ASSUME NEW c \in Clients, Worker(c) PROVE up'[s] = <<>>
  <2>1. Asked(c) \/ UNCHANGED up
    BY <1>3 DEF Worker, WorkerLogin, WorkerSender, WorkerJoin, WorkerDeliver
  <2> QED
    BY <1>1, <2>1 DEF Asked
<1>4. ASSUME NEW c \in Clients, Answer(c) \/ JoinReply(c) \/ ShowNext(c) PROVE up'[s] = <<>>
  <2>1. c # s
    BY <1>1, <1>4 DEF Answer, JoinReply, ShowNext
  <2> QED
    BY <1>1, <1>4, <2>1 DEF Answer, JoinReply, ShowNext, Exit
<1>5. ASSUME NEW c \in Senders, NEW line, Type(c, line) PROVE up'[s] = <<>>
  <2>1. c # s
    BY <1>1, <1>5 DEF Type
  <2> QED
    BY <1>1, <1>5, <2>1 DEF Type, Put
<1>6. CASE Listen \/ Accept \/ AcceptFails \/ UNCHANGED vars
  BY <1>6 DEF Listen, Accept, AcceptFails, vars
<1> QED
  BY <1>2, <1>3, <1>4, <1>5, <1>6 DEF Next, Program

\* What a worker broadcasts for a sender in touch is what was typed, or a
\* beginning of it.
LEMMA BroadcastIsGenuine ==
    ASSUME Wires, SendersInTouch, NEW s \in Senders \ overlong, worker[s] = "sender",
           Asked(s), Has(Head(up[s]), "sendall"), NEW e, e = Entry(s, Tail(Head(up[s])))
    PROVE  /\ e \in CleanEntry /\ e.from = Tail(Received(Slogin(s))) /\ up'[s] = <<>>
           /\ \/ e.text = Tail(Received(asked[s]))
              \/ s \in left /\ IsBeginning(e.text, Tail(Received(asked[s])))
<1> DEFINE piece == Head(up[s])
<1>1. InTouch(s) /\ up[s] # <<>>
  BY DEF SendersInTouch, Asked
<1>2. /\ asked[s] \in Lines /\ user[s] = Tail(Received(Slogin(s)))
      /\ \/ piece = Received(asked[s])
         \/ s \in left /\ piece \in Beginnings(Received(asked[s]))
  BY <1>1 DEF InTouch, OneLine
<1>3. up'[s] = <<>>
  BY <1>1, TakenInTouch DEF Wires
<1>4. user[s] \in CleanData
  BY <1>2, Logins, ReceivedLine DEF Wires, Types, Clients
<1>5. IsMessage(piece) /\ Received(asked[s]) \in CleanData /\ Tail(Received(asked[s])) \in CleanData
  BY <1>2, ReceivedLine DEF Has
<1> HIDE DEF piece
<1>6. e = [from |-> user[s], text |-> Tail(piece)]
  BY DEF Entry, piece
<1>a. e.from = user[s] /\ e.text = Tail(piece) /\ (Tail(piece) \in CleanData => e \in CleanEntry)
  <2>1. \A a, b : [from |-> a, text |-> b].from = a /\ [from |-> a, text |-> b].text = b
    OBVIOUS
  <2>2. \A a, b \in CleanData : [from |-> a, text |-> b] \in CleanEntry
    BY DEF CleanEntry
  <2> QED
    <3> DEFINE a == user[s]
               b == Tail(piece)
    <3>1. e = [from |-> a, text |-> b]
      BY <1>6
    <3>2. a \in CleanData
      BY <1>4
    <3> HIDE DEF a, b
    <3>3. e.from = a /\ e.text = b
      BY <2>1, <3>1, Zenon
    <3>4. b \in CleanData => e \in CleanEntry
      BY <2>2, <3>1, <3>2, Zenon
    <3> QED
      BY <3>3, <3>4 DEF a, b
<1>7. CASE piece = Received(asked[s])
  BY <1>2, <1>3, <1>5, <1>7, <1>a
<1>8. CASE s \in left /\ piece \in Beginnings(Received(asked[s]))
  <2>1. IsBeginning(Tail(piece), Tail(Received(asked[s]))) /\ Tail(piece) \in CleanData
    BY <1>5, <1>8, BeginningTag
  <2> QED
    BY <1>2, <1>3, <1>8, <1>a, <2>1
<1> QED
  BY <1>2, <1>7, <1>8

\* Every step but a broadcast leaves the texts broadcast as they are.
LEMMA OnlyBroadcasts ==
    ASSUME [Next]_vars
    PROVE  \/ UNCHANGED broadcasts
           \/ \E s \in Senders : /\ worker[s] = "sender" /\ Asked(s) /\ Has(Head(up[s]), "sendall")
                                 /\ UNCHANGED overlong
                                 /\ Broadcast(s, Tail(Head(up[s])))
<1> USE DEF serverVars, wires, record, history
<1>1. ASSUME NEW s \in Senders, WorkerSender(s)
      PROVE  \/ UNCHANGED broadcasts
             \/ /\ worker[s] = "sender" /\ Asked(s) /\ Has(Head(up[s]), "sendall")
                /\ UNCHANGED overlong
                /\ Broadcast(s, Tail(Head(up[s])))
  BY <1>1 DEF WorkerSender, Command
<1>2. ASSUME NEW c \in Clients, Connect(c) \/ WorkerLogin(c) \/ WorkerJoin(c) \/ WorkerDeliver(c) \/ Program(c) \/ Quit(c)
      PROVE  UNCHANGED broadcasts
  BY <1>2 DEF Connect, WorkerLogin, WorkerJoin, WorkerDeliver, Program, Login, LoginReply, Answer, JoinReply,
              ShowNext, Quit
<1>3. ASSUME NEW s \in Senders, NEW line, Type(s, line) PROVE UNCHANGED broadcasts
  BY <1>3 DEF Type
<1>4. CASE Listen \/ Accept \/ AcceptFails \/ UNCHANGED vars
  BY <1>4 DEF Listen, Accept, AcceptFails, vars
<1> QED
  BY <1>1, <1>2, <1>3, <1>4 DEF Next, Worker

LEMMA EntriesStep ==
    ASSUME Wires, SendersInTouch, EntriesTrue, [Next]_vars
    PROVE  EntriesTrue'
<1> SUFFICES ASSUME NEW r \in Receivers
             PROVE  /\ IsSeq(said'[r]) /\ IsSeq(meant'[r]) /\ Len(said'[r]) = Len(meant'[r])
                    /\ \A i \in 1..Len(said'[r]) : Genuine(r, i)'
  BY DEF EntriesTrue
<1>1. overlong \subseteq overlong' /\ left \subseteq left' /\ \A s : Slogin(s)' = Slogin(s)
  BY OnlyGrow DEF Slogin
<1>2. /\ IsSeq(said[r]) /\ IsSeq(meant[r]) /\ Len(said[r]) = Len(meant[r])
      /\ \A i \in 1..Len(said[r]) : Genuine(r, i)
  BY DEF EntriesTrue
<1>3. ASSUME NEW i, NEW by, by \in Senders, by = meant[r][i].by, CutShort(r, i) PROVE up'[by] = <<>>
  BY <1>3, NothingMoreIsSent DEF CutShort, Clients
\* An entry stays genuine when nothing is said after it, or by another.
<1>4. ASSUME NEW i \in 1..Len(said[r]), said'[r][i] = said[r][i], meant'[r][i] = meant[r][i],
             CutShort(r, i) /\ meant[r][i].by \in Senders =>
                \A j \in 1..Len(meant'[r]) : meant'[r][j].by = meant[r][i].by => j <= i
      PROVE  Genuine(r, i)'
  <2>1. Genuine(r, i)
    BY <1>2
  <2>2. CutShort(r, i) /\ meant[r][i].by \in Senders => CutShort(r, i)'
    BY <1>1, <1>3, <1>4 DEF CutShort
  <2> QED
    BY <1>1, <1>4, <2>1, <2>2 DEF Genuine
<1>5. CASE said'[r] = said[r] /\ meant'[r] = meant[r]
  <2>1. \A i \in 1..Len(said[r]) : Genuine(r, i)'
    BY <1>4, <1>5 DEF CutShort
  <2> QED
    BY <1>2, <1>5, <2>1
<1>6. ASSUME NEW s \in Senders, worker[s] = "sender", Asked(s), Has(Head(up[s]), "sendall"),
             UNCHANGED overlong, Broadcast(s, Tail(Head(up[s]))), r \in Members(current[s])
      PROVE  /\ IsSeq(said'[r]) /\ IsSeq(meant'[r]) /\ Len(said'[r]) = Len(meant'[r])
             /\ \A i \in 1..Len(said'[r]) : Genuine(r, i)'
  <2> DEFINE e == Entry(s, Tail(Head(up[s])))
             m == [by |-> s, text |-> Tail(Received(asked[s]))]
  <2>n. PICK n : n = Len(said[r]) + 1
    OBVIOUS
  <2>1. said'[r] = Append(said[r], e) /\ meant'[r] = Append(meant[r], m)
    BY <1>6 DEF Broadcast
  <2>2. PICK S : said[r] \in Seq(S)
    BY <1>2 DEF IsSeq
  <2>3. PICK M : meant[r] \in Seq(M)
    BY <1>2 DEF IsSeq
  <2> HIDE DEF e, m
  <2>4. /\ said'[r] \in Seq(S \cup {e}) /\ meant'[r] \in Seq(M \cup {m})
        /\ Len(said'[r]) = n /\ Len(meant'[r]) = n
        /\ said'[r][n] = e /\ meant'[r][n] = m
        /\ \A i \in 1..Len(said[r]) : said'[r][i] = said[r][i] /\ meant'[r][i] = meant[r][i]
    BY <1>2, <2>n, <2>1, <2>2, <2>3
  <2>5. n \in Nat
    BY <2>n, <2>2
  <2>6. ASSUME NEW i \in 1..Len(said[r]) PROVE Genuine(r, i)'
    <3>1. CutShort(r, i) => meant[r][i].by # s
      BY <1>6 DEF CutShort, Asked
    <3>2. m.by = s /\ \A j \in 1..n : j \in 1..Len(meant[r]) \/ j = n
      BY <1>2, <2>n, <2>2 DEF m
    <3>3. CutShort(r, i) => \A j \in 1..Len(meant'[r]) : meant'[r][j].by = meant[r][i].by => j <= i
      BY <1>2, <2>4, <3>1, <3>2 DEF CutShort
    <3> QED
      BY <1>4, <2>4, <3>3
  <2>7. Genuine(r, n)'
    <3>1. m.by = s /\ m.text = Tail(Received(asked[s]))
      BY DEF m
    <3>2. CASE s \in overlong
      BY <1>6, <2>4, <3>1, <3>2 DEF Genuine
    <3>3. CASE s \notin overlong
      <4>1. /\ e \in CleanEntry /\ e.from = Tail(Received(Slogin(s))) /\ up'[s] = <<>>
            /\ \/ e.text = Tail(Received(asked[s]))
               \/ s \in left /\ IsBeginning(e.text, Tail(Received(asked[s])))
        BY <1>6, <3>3, BroadcastIsGenuine DEF e
      <4>2. \A j \in 1..n : j <= n
        BY <2>5
      <4>3. e.text = m.text \/ CutShort(r, n)'
        BY <1>1, <2>4, <3>1, <4>1, <4>2 DEF CutShort
      <4> QED
        BY <1>1, <2>4, <3>1, <4>1, <4>3 DEF Genuine
    <3> QED
      BY <3>2, <3>3
  <2>8. \A i \in 1..n : i \in 1..Len(said[r]) \/ i = n
    BY <2>n, <2>2
  <2> QED
    BY <2>4, <2>6, <2>7, <2>8 DEF IsSeq
<1>7. ASSUME NEW s \in Senders, Broadcast(s, Tail(Head(up[s]))), r \notin Members(current[s])
      PROVE  said'[r] = said[r] /\ meant'[r] = meant[r]
  BY <1>7 DEF Broadcast
<1> QED
  BY <1>5, <1>6, <1>7, OnlyBroadcasts DEF broadcasts

\* Whatever is typed and wherever the connections are cut, what is broadcast is
\* what its sender typed, under the name it was started with; of the last text
\* of a sender that was killed perhaps a beginning.
THEOREM BroadcastAsTyped == Spec => []BroadcastsWhatWasTyped
<1>1. Init => Wires /\ SendersInTouch /\ EntriesTrue
  BY WiresAtFirst, InTouchAtFirst, EntriesAtFirst
<1>2. Wires /\ SendersInTouch /\ EntriesTrue /\ [Next]_vars => Wires' /\ SendersInTouch' /\ EntriesTrue'
  BY WiresStep, InTouchStep, EntriesStep
<1>3. EntriesTrue => BroadcastsWhatWasTyped
  <2> SUFFICES ASSUME EntriesTrue, NEW r \in Receivers, NEW i \in DOMAIN said[r],
                      meant[r][i].by \notin overlong
      PROVE  LET e == said[r][i]
                 m == meant[r][i]
             IN  /\ e.from = Tail(Received(Message("slogin", name[m.by])))
                 /\ \/ e.text = m.text
                    \/ /\ m.by \in left /\ IsBeginning(e.text, m.text)
                       /\ \A j \in DOMAIN meant[r] : meant[r][j].by = m.by => j <= i
    BY DEF BroadcastsWhatWasTyped
  <2>1. i \in 1..Len(said[r]) /\ DOMAIN meant[r] = 1..Len(meant[r])
    BY DEF EntriesTrue, IsSeq
  <2>2. Genuine(r, i)
    BY <2>1 DEF EntriesTrue
  <2> QED
    BY <2>1, <2>2 DEF Genuine, CutShort, Slogin
<1> QED
  BY <1>1, <1>2, <1>3, PTL DEF Spec

-----------------------------------------------------------------------------
(* Deliveries *)

\* A broadcast under a name without a colon.
PlainEntry == {e \in CleanEntry : Len(e.from) = 1}

Joins(c, a, b) ==
    /\ Len(c) = Len(a) + Len(b)
    /\ \A i \in 1..Len(a) : c[i] = a[i]
    /\ \A i \in 1..Len(b) : c[Len(a) + i] = b[i]
    /\ SubSeq(c, Len(a) + 1, Len(a) + Len(b)) = b

LEMMA Joined ==
    ASSUME NEW S, NEW a \in Seq(S), NEW b \in Seq(S)
    PROVE  a \o b \in Seq(S) /\ Joins(a \o b, a, b)
BY DEF Joins

LEMMA Parsed ==
    ASSUME NEW room \in Seq(CleanWord), Len(room) = 1, NEW f \in Seq(CleanWord), Len(f) = 1, NEW t \in CleanData,
           NEW p \in Seq(CleanWord), Joins(p, room, f), NEW data \in Seq(CleanWord), Joins(data, p, t)
    PROVE  data \in CleanData /\ Shown(data) = [from |-> f, text |-> t]
<1>1. t \in Seq(CleanWord) /\ Len(t) >= 1 /\ Stripped(t[Len(t)]) = t[Len(t)]
  BY CleanIsTyped DEF CleanData, CleanTypes
<1>2. Len(p) = 2 /\ p[2] = f[1]
  BY DEF Joins
<1>3. /\ Len(data) = 2 + Len(t) /\ Len(t) \in Nat
      /\ \A i \in 1..2 : data[i] = p[i]
      /\ \A i \in 1..Len(t) : data[2 + i] = t[i]
      /\ SubSeq(data, 3, 2 + Len(t)) = t
  BY <1>1, <1>2 DEF Joins
<1>4. Len(data) > 2 /\ Len(data) \in Nat /\ Len(data) # 0
  BY <1>1, <1>3
<1>5. data[2] = f[1] /\ <<f[1]>> = f
  BY <1>2, <1>3
<1>6. data[Len(data)] = t[Len(t)] /\ data # <<>>
  BY <1>1, <1>3, <1>4
<1>7. Shown(data) = [from |-> f, text |-> t]
  BY <1>3, <1>4, <1>5 DEF Shown
<1>8. data \in CleanData
  BY <1>1, <1>6 DEF CleanData
<1> QED
  BY <1>7, <1>8

LEMMA FromAndText ==
    ASSUME NEW room \in CleanData, Len(room) = 1, NEW f \in CleanData, Len(f) = 1, NEW t \in CleanData
    PROVE  /\ room \o f \o t \in CleanData
           /\ Shown(room \o f \o t) = [from |-> f, text |-> t]
<1>1. room \in Seq(CleanWord) /\ f \in Seq(CleanWord) /\ t \in Seq(CleanWord)
  BY DEF CleanData
<1>2. room \o f \in Seq(CleanWord) /\ Joins(room \o f, room, f)
  BY <1>1, Joined, Zenon
<1>3. (room \o f) \o t \in Seq(CleanWord) /\ Joins((room \o f) \o t, room \o f, t)
  BY <1>1, <1>2, Joined, Zenon
<1>4. \A p, data \in Seq(CleanWord) : Joins(p, room, f) /\ Joins(data, p, t) =>
         data \in CleanData /\ Shown(data) = [from |-> f, text |-> t]
  BY <1>1, Parsed
<1> QED
  BY <1>2, <1>3, <1>4, Zenon

\* A delivery is shown as it was broadcast.
LEMMA DeliveryShown ==
    ASSUME NEW room \in CleanData, Len(room) = 1, NEW e \in PlainEntry
    PROVE  /\ Delivery(room, e) \in CleanData
           /\ Has(Delivery(room, e), "delivery") /\ ~Has(Delivery(room, e), "err")
           /\ Shown(Tail(Delivery(room, e))) = e
           /\ Fits(Delivery(room, e)) => Pieces(Delivery(room, e)) = <<Delivery(room, e)>>
<1> DEFINE data == room \o e.from \o e.text
<1>1. data \in CleanData /\ Shown(data) = e
  <2>1. /\ e.from \in CleanData /\ e.text \in CleanData /\ Len(e.from) = 1
        /\ e = [from |-> e.from, text |-> e.text]
    BY DEF PlainEntry, CleanEntry
  <2> QED
    BY <2>1, FromAndText
<1>2. data \in Seq(AnyWord) /\ data # <<>>
  BY <1>1, CleanIsTyped DEF CleanTypes
<1>3. Delivery(room, e) = Message("delivery", data)
  BY DEF Delivery
<1> HIDE DEF data
<1>4. Delivery(room, e) \in CleanData /\ Has(Delivery(room, e), "delivery") /\ Tail(Delivery(room, e)) = data
  BY <1>1, <1>2, <1>3, CleanMessage, TagOfMessage, TagNames
<1>5. ~Has(Delivery(room, e), "err")
  BY <1>4, OneTag
<1>6. Fits(Delivery(room, e)) => Pieces(Delivery(room, e)) = <<Delivery(room, e)>>
  BY <1>4, OnePiece, ReceivedAsIs
<1> QED
  BY <1>1, <1>4, <1>5, <1>6

\* What is shown is the first of the entries, what is on the way the next.  Of a
\* connection that was cut the last piece may be anything.
Follows(shown, onWay, entries, room, cut) ==
    /\ Len(shown) + Len(onWay) <= Len(entries)
    /\ \A i \in 1..Len(shown) : shown[i] = entries[i] \/ (cut /\ i = Len(shown) /\ onWay = <<>>)
    /\ \A i \in 1..Len(onWay) : onWay[i] = Delivery(room, entries[Len(shown) + i]) \/ (cut /\ i = Len(onWay))

\* A connection that ends, and a queue lost with the server, leave a beginning.
LEMMA FollowsLess ==
    ASSUME NEW shown, Len(shown) \in Nat, NEW p \in Seq(CleanData), NEW q \in Seq(CleanData),
           NEW entries, Len(entries) \in Nat, NEW room, NEW cut,
           Follows(shown, p \o q, entries, room, cut),
           NEW rest \in Seq(CleanData), Len(rest) <= Len(p),
           \A i \in 1..Len(rest) - 1 : rest[i] = p[i]
    PROVE  Follows(shown, rest, entries, room, TRUE)
<1> DEFINE all == p \o q
<1>1. /\ all \in Seq(CleanData) /\ Len(all) = Len(p) + Len(q) /\ Len(p) \in Nat /\ Len(q) \in Nat
      /\ \A i \in 1..Len(p) : all[i] = p[i]
  OBVIOUS
<1>2. Len(rest) \in Nat
  OBVIOUS
<1>3. Follows(shown, all, entries, room, cut)
  OBVIOUS
<1> HIDE DEF all
<1>4. Len(shown) + Len(rest) <= Len(entries)
  BY <1>1, <1>2, <1>3 DEF Follows
<1>5. ASSUME NEW i \in 1..Len(rest) PROVE rest[i] = Delivery(room, entries[Len(shown) + i]) \/ i = Len(rest)
  <2> SUFFICES ASSUME i # Len(rest) PROVE rest[i] = Delivery(room, entries[Len(shown) + i])
    OBVIOUS
  <2>1. i \in 1..Len(rest) - 1 /\ i \in 1..Len(p) /\ i \in 1..Len(all) /\ i # Len(all)
    BY <1>1, <1>2
  <2> QED
    BY <1>1, <1>3, <2>1 DEF Follows
<1>6. all = <<>> => rest = <<>>
  BY <1>1, <1>2
<1>7. \A i \in 1..Len(shown) : shown[i] = entries[i] \/ (i = Len(shown) /\ rest = <<>>)
  BY <1>3, <1>6 DEF Follows
<1> QED
  BY <1>4, <1>5, <1>7 DEF Follows

\* One more is broadcast.
LEMMA FollowsMore ==
    ASSUME NEW shown, Len(shown) \in Nat, NEW onWay \in Seq(CleanData),
           NEW entries \in Seq(PlainEntry), NEW room, NEW e \in PlainEntry,
           NEW cut \in BOOLEAN, ~cut, Follows(shown, onWay, entries, room, cut), Len(shown) + Len(onWay) = Len(entries),
           NEW d \in CleanData, d = Delivery(room, e)
    PROVE  /\ Follows(shown, Append(onWay, d), Append(entries, e), room, cut)
           /\ Len(shown) + Len(Append(onWay, d)) = Len(Append(entries, e))
<1> DEFINE more == Append(onWay, d)
           all  == Append(entries, e)
<1>1. Len(more) = Len(onWay) + 1 /\ Len(all) = Len(entries) + 1
  OBVIOUS
<1>2. \A i \in 1..Len(onWay) : more[i] = onWay[i]
  OBVIOUS
<1>3. \A i \in 1..Len(entries) : all[i] = entries[i]
  OBVIOUS
<1>4. more[Len(onWay) + 1] = Delivery(room, e) /\ all[Len(entries) + 1] = e
  OBVIOUS
<1>5. Len(onWay) \in Nat /\ Len(entries) \in Nat
  OBVIOUS
<1> HIDE DEF more, all
<1>6. ASSUME NEW i \in 1..Len(more) PROVE more[i] = Delivery(room, all[Len(shown) + i])
  <2>1. CASE i \in 1..Len(onWay)
    <3>1. onWay[i] = Delivery(room, entries[Len(shown) + i])
      BY <2>1 DEF Follows
    <3>2. Len(shown) + i \in 1..Len(entries)
      BY <1>5, <2>1
    <3> QED
      BY <1>2, <1>3, <2>1, <3>1, <3>2
  <2>2. CASE i = Len(onWay) + 1
    <3>1. Len(shown) + i = Len(entries) + 1
      BY <1>5, <2>2
    <3> QED
      BY <1>4, <2>2, <3>1
  <2> QED
    BY <1>1, <1>5, <2>1, <2>2
<1>7. \A i \in 1..Len(shown) : shown[i] = all[i]
  <2>1. \A i \in 1..Len(shown) : i \in 1..Len(entries)
    BY <1>5
  <2> QED
    BY <1>3, <2>1 DEF Follows
<1>8. Len(shown) + Len(more) = Len(all) /\ Len(shown) + Len(more) <= Len(all)
  BY <1>1, <1>5
<1>9. Follows(shown, more, all, room, cut)
  BY <1>6, <1>7, <1>8 DEF Follows
<1> QED
  BY <1>8, <1>9 DEF more, all

\* The next one is shown, or, if it was cut, anything.
LEMMA FollowsNext ==
    ASSUME NEW shown, IsSeq(shown), NEW onWay \in Seq(CleanData), onWay # <<>>,
           NEW entries \in Seq(PlainEntry), NEW room, NEW cut \in BOOLEAN,
           Follows(shown, onWay, entries, room, cut), NEW e, e = entries[Len(shown) + 1]
    PROVE  /\ e \in PlainEntry
           /\ \/ /\ Head(onWay) = Delivery(room, e)
                 /\ Follows(Append(shown, e), Tail(onWay), entries, room, cut)
                 /\ Len(Append(shown, e)) + Len(Tail(onWay)) = Len(shown) + Len(onWay)
              \/ /\ cut /\ Tail(onWay) = <<>> /\ Follows(shown, <<>>, entries, room, cut)
                 /\ \A x : Follows(Append(shown, x), <<>>, entries, room, cut)
<1>1. PICK S : shown \in Seq(S)
  BY DEF IsSeq
<1>2. /\ Len(shown) \in Nat /\ Len(onWay) \in Nat /\ Len(entries) \in Nat /\ Len(onWay) >= 1
      /\ Len(shown) + Len(onWay) <= Len(entries) /\ Len(shown) + 1 \in 1..Len(entries)
  BY <1>1 DEF Follows
<1>3. e \in PlainEntry
  BY <1>2
<1>4. /\ Len(Tail(onWay)) = Len(onWay) - 1 /\ Tail(onWay) \in Seq(CleanData) /\ Head(onWay) = onWay[1]
      /\ \A i \in 1..Len(Tail(onWay)) : Tail(onWay)[i] = onWay[i + 1] /\ i + 1 \in 1..Len(onWay)
  BY <1>2
<1>5. ASSUME NEW x
      PROVE  /\ Len(Append(shown, x)) = Len(shown) + 1 /\ Append(shown, x)[Len(shown) + 1] = x
             /\ \A i \in 1..Len(shown) : Append(shown, x)[i] = shown[i]
  <2>1. shown \in Seq(S \cup {x})
    BY <1>1
  <2> QED
    BY <2>1
<1>6. \A i \in 1..Len(shown) : shown[i] = entries[i]
  BY DEF Follows
<1>7. onWay[1] = Delivery(room, e) \/ (cut /\ Len(onWay) = 1)
  <2>1. 1 \in 1..Len(onWay)
    BY <1>2
  <2>2. \A i \in 1..Len(onWay) : onWay[i] = Delivery(room, entries[Len(shown) + i]) \/ (cut /\ i = Len(onWay))
    BY DEF Follows
  <2> QED
    BY <2>1, <2>2
<1>8. CASE onWay[1] = Delivery(room, e)
  <2> DEFINE more == Append(shown, e)
             rest == Tail(onWay)
  <2>1. Len(more) = Len(shown) + 1 /\ Len(rest) = Len(onWay) - 1
    BY <1>4, <1>5
  <2>2. \A i \in 1..Len(more) : more[i] = entries[i]
    <3>1. \A i \in 1..Len(more) : i \in 1..Len(shown) \/ i = Len(shown) + 1
      BY <1>2, <2>1
    <3> QED
      BY <1>5, <1>6, <3>1
  <2>3. ASSUME NEW i \in 1..Len(rest)
        PROVE  rest[i] = Delivery(room, entries[Len(more) + i]) \/ (cut /\ i = Len(rest))
    <3>1. rest[i] = onWay[i + 1] /\ i + 1 \in 1..Len(onWay)
      BY <1>4
    <3>2. onWay[i + 1] = Delivery(room, entries[Len(shown) + (i + 1)]) \/ (cut /\ i + 1 = Len(onWay))
      BY <3>1 DEF Follows
    <3> HIDE DEF more, rest
    <3>3. Len(shown) + (i + 1) = Len(more) + i /\ (i + 1 = Len(onWay) => i = Len(rest))
      BY <1>2, <2>1
    <3> QED
      BY <3>1, <3>2, <3>3
  <2>4. Len(more) + Len(rest) = Len(shown) + Len(onWay)
    BY <1>2, <2>1
  <2> HIDE DEF more, rest
  <2>5. Follows(more, rest, entries, room, cut)
    BY <1>2, <2>2, <2>3, <2>4 DEF Follows
  <2> QED
    BY <1>3, <1>4, <1>8, <2>4, <2>5 DEF more, rest
<1>9. CASE cut /\ Len(onWay) = 1
  <2>1. Tail(onWay) = <<>> /\ Len(<<>>) = 0 /\ 1..0 = {}
    BY <1>4, <1>9
  <2>2. Follows(shown, <<>>, entries, room, cut)
    BY <1>2, <1>6, <2>1 DEF Follows
  <2>3. ASSUME NEW x PROVE Follows(Append(shown, x), <<>>, entries, room, cut)
    <3> DEFINE more == Append(shown, x)
    <3>1. Len(more) = Len(shown) + 1 /\ \A i \in 1..Len(shown) : more[i] = shown[i]
      BY <1>5
    <3>2. \A i \in 1..Len(more) : i \in 1..Len(shown) \/ i = Len(more)
      BY <1>2, <3>1
    <3> HIDE DEF more
    <3>3. Len(more) + 0 <= Len(entries)
      BY <1>2, <3>1
    <3>4. Follows(more, <<>>, entries, room, cut)
      BY <1>6, <1>9, <2>1, <3>1, <3>2, <3>3 DEF Follows
    <3> QED
      BY <3>4 DEF more
  <2> QED
    BY <1>3, <1>9, <2>1, <2>2, <2>3
<1> QED
  BY <1>7, <1>8, <1>9

\* The first of a queue joins what is under way.
LEMMA FirstMoves ==
    ASSUME NEW p \in Seq(CleanData), NEW q \in Seq(CleanData), q # <<>>
    PROVE  /\ (p \o <<Head(q)>>) \o Tail(q) = p \o q
           /\ p \o <<Head(q)>> \in Seq(CleanData) /\ Tail(q) \in Seq(CleanData)
           /\ p # <<>> => /\ p \o <<Head(q)>> # <<>>
                         /\ Tail(p \o <<Head(q)>>) = Tail(p) \o <<Head(q)>>
<1>1. Head(q) \in CleanData /\ Tail(q) \in Seq(CleanData) /\ q = <<Head(q)>> \o Tail(q)
  OBVIOUS
<1>2. <<Head(q)>> \in Seq(CleanData)
  BY <1>1
<1>3. \A a, b, c \in Seq(CleanData) : (a \o b) \o c = a \o (b \o c)
  BY SMTT(20)
<1>4. (p \o <<Head(q)>>) \o Tail(q) = p \o (<<Head(q)>> \o Tail(q))
  BY <1>1, <1>2, <1>3
<1>5. \A a, b \in Seq(CleanData) : a \o b \in Seq(CleanData)
  OBVIOUS
<1>6. \A a, b \in Seq(CleanData) : a # <<>> => a \o b # <<>> /\ Tail(a \o b) = Tail(a) \o b
  OBVIOUS
<1> QED
  BY <1>1, <1>2, <1>4, <1>5, <1>6

-----------------------------------------------------------------------------
(* Receivers *)

\* The receiver and what is broadcast to it, as PrintsWhatWasBroadcast asks.
Good(r) == Plain(r) /\ \A i \in DOMAIN said[r] : Deliverable(r, i)

Quiet(r) == said[r] = <<>> /\ printed[r] = <<>> /\ queue[r] = <<>>

\* The lines that are behind the answer to the join.
Behind(r) == IF pc[r] = "listen" THEN down[r] ELSE Tail(down[r])
OnWay(r)  == Behind(r) \o queue[r]

\* What was printed is what was broadcast first, but for the last of it where
\* the connection was cut.
Shows(r) ==
    Good(r) => said[r] \in Seq(PlainEntry) /\ Follows(printed[r], <<>>, said[r], current[r], r \in dropped)

\* The rest is on the way, all of it while there is a worker.
Carries(r) ==
    Good(r) => /\ current[r] \in CleanData
               /\ down[r] \in Seq(CleanData) /\ queue[r] \in Seq(CleanData)
               /\ Follows(printed[r], OnWay(r), said[r], current[r], r \in dropped)
               /\ worker[r] = "deliver" => Len(printed[r]) + Len(OnWay(r)) = Len(said[r])

AsksFor(r) == \E room \in Rooms : up[r] = <<Received(Message("join", room))>>

BeforeLogin(r) ==
    pc[r] \in {"off", "connected"} =>
        Quiet(r) /\ up[r] = <<>> /\ down[r] = <<>> /\ worker[r] \in {"none", "login", "gone"}

AtLogin(r) ==
    pc[r] = "login" =>
        /\ Quiet(r)
        /\ \/ /\ up[r] = <<Received(Rlogin(r))>> /\ down[r] = <<>>
              /\ worker[r] \in {"none", "login"}
           \/ up[r] = <<>> /\ down[r] = <<Ok>> /\ worker[r] = "join"
           \/ worker[r] = "gone" /\ Few(down[r])

AtJoin(r) ==
    pc[r] = "join" =>
        \/ Quiet(r) /\ AsksFor(r) /\ down[r] = <<>> /\ worker[r] = "join"
        \/ worker[r] = "gone" /\ down[r] = <<>>
        \/ /\ worker[r] \in {"deliver", "gone"}
           /\ Good(r) => down[r] # <<>>
           /\ Carries(r)

AtListen(r) ==
    pc[r] = "listen" => worker[r] \in {"deliver", "gone"} /\ Carries(r)

InTune(r) ==
    /\ pc[r] \in {"off", "connected", "login", "join", "listen", "done"}
    /\ worker[r] \in {"none", "login", "sender", "join"} => Quiet(r)
    /\ BeforeLogin(r) /\ AtLogin(r) /\ AtJoin(r) /\ AtListen(r)
    /\ Shows(r) /\ IsSeq(printed[r])

ReceiversInTune == \A r \in Receivers \ overlong : InTune(r)

LEMMA NothingFollows ==
    ASSUME NEW entries, NEW room, NEW cut, Len(entries) \in Nat
    PROVE  Follows(<<>>, <<>>, entries, room, cut)
BY DEF Follows

\* A receiver nothing was broadcast to has shown all there was.
LEMMA QuietShows == ASSUME NEW r, Quiet(r) PROVE Shows(r) /\ IsSeq(printed[r])
<1>1. <<>> \in Seq(PlainEntry) /\ IsSeq(<<>>) /\ Len(<<>>) \in Nat
  BY DEF IsSeq
<1> QED
  BY <1>1, NothingFollows DEF Quiet, Shows

LEMMA InTuneAtFirst == Init => ReceiversInTune
<1> SUFFICES ASSUME Init, NEW r \in Receivers PROVE InTune(r)
  BY DEF ReceiversInTune
<1>1. /\ pc[r] = "off" /\ up[r] = <<>> /\ down[r] = <<>> /\ worker[r] = "none" /\ Quiet(r)
  BY DEF Init, Clients, Quiet
<1> QED
  BY <1>1, QuietShows DEF InTune, BeforeLogin, AtLogin, AtJoin, AtListen

\* Broadcasts only add to what a receiver has to be told, and a room does not
\* change: if all of it can be delivered now, all of it could before.
LEMMA GoodBefore ==
    ASSUME NEW r \in Receivers, overlong \subseteq overlong', current'[r] = current[r],
           \A i \in DOMAIN said[r] : /\ i \in DOMAIN said'[r]
                                     /\ said'[r][i] = said[r][i] /\ meant'[r][i] = meant[r][i],
           Good(r)'
    PROVE  Good(r)
BY DEF Good, Plain, Deliverable

\* What stays with a receiver where nothing is broadcast to it.
Kept(r) ==
    /\ overlong \subseteq overlong' /\ (r \in dropped => r \in dropped') /\ name' = name
    /\ current'[r] = current[r] /\ said'[r] = said[r] /\ meant'[r] = meant[r]

LEMMA KeptShows ==
    ASSUME NEW r \in Receivers, Kept(r), printed'[r] = printed[r], Shows(r)
    PROVE  (Good(r)' => Good(r)) /\ Shows(r)'
<1>1. Good(r)' => Good(r)
  BY GoodBefore DEF Kept
<1> QED
  BY <1>1 DEF Kept, Shows, Follows

\* What others do leaves a receiver in tune.
LEMMA LeftInTune ==
    ASSUME NEW r \in Receivers, InTune(r), Kept(r), r \in dropped' => r \in dropped,
           pc'[r] = pc[r], worker'[r] = worker[r], up'[r] = up[r], down'[r] = down[r],
           queue'[r] = queue[r], printed'[r] = printed[r]
    PROVE  InTune(r)'
<1>1. (Good(r)' => Good(r)) /\ Shows(r)'
  BY KeptShows DEF InTune
<1>2. /\ Quiet(r)' = Quiet(r) /\ AsksFor(r)' = AsksFor(r) /\ OnWay(r)' = OnWay(r) /\ Rlogin(r)' = Rlogin(r)
      /\ (r \in dropped)' = (r \in dropped)
  BY DEF Kept, Quiet, AsksFor, OnWay, Behind, Rlogin
<1>3. Carries(r) => Carries(r)'
  BY <1>1, <1>2 DEF Carries, Kept
<1>4. AtJoin(r)'
  BY <1>1, <1>2, <1>3 DEF InTune, AtJoin
<1> QED
  BY <1>1, <1>2, <1>3, <1>4 DEF InTune, BeforeLogin, AtLogin, AtListen

\* Of a program that has ended only what it printed matters.
LEMMA EndsInTune ==
    ASSUME NEW r \in Receivers, InTune(r), Kept(r), pc'[r] = "done",
           worker'[r] = worker[r] \/ worker'[r] \in {"deliver", "gone"},
           queue'[r] = queue[r] \/ worker'[r] \in {"deliver", "gone"}, printed'[r] = printed[r]
    PROVE  InTune(r)'
<1>1. Shows(r)'
  BY KeptShows DEF InTune
<1> QED
  BY <1>1 DEF InTune, Quiet, BeforeLogin, AtLogin, AtJoin, AtListen, Kept

\* The server ends: what was queued is lost, and the connection may be cut.
LEMMA ServerEndsInTune ==
    ASSUME NEW r \in Receivers, InTune(r), Kept(r), IsSeq(said[r]), r \in dropped', worker'[r] = "gone",
           worker[r] = "gone" => down'[r] = down[r],
           down'[r] = down[r] \/ down'[r] \in Remains(down[r]),
           pc'[r] = pc[r], up'[r] = up[r], queue'[r] = <<>>, printed'[r] = printed[r]
    PROVE  InTune(r)'
<1>1. (Good(r)' => Good(r)) /\ Shows(r)'
  BY KeptShows DEF InTune
<1>2. Quiet(r) => Quiet(r)'
  BY DEF Quiet, Kept
<1>3. down[r] = <<>> => down'[r] = <<>>
  BY RemainsOfOne
<1>4. Few(down[r]) => Few(down'[r])
  BY FewRemain
<1>5. Few(<<>>) /\ Few(<<Ok>>)
  BY DEF Few
<1>6. BeforeLogin(r)' /\ AtLogin(r)'
  BY <1>2, <1>3, <1>4, <1>5 DEF InTune, BeforeLogin, AtLogin
<1>7. ASSUME Carries(r), Good(r), pc[r] = "listen" \/ down'[r] # <<>>
      PROVE  /\ current'[r] \in CleanData /\ down'[r] \in Seq(CleanData) /\ queue'[r] \in Seq(CleanData)
             /\ Follows(printed'[r], OnWay(r)', said'[r], current'[r], TRUE)
  <2> DEFINE p == Behind(r)
             q == queue[r]
             d == down[r]
             rest == down'[r]
  <2>1. /\ current[r] \in CleanData /\ d \in Seq(CleanData) /\ q \in Seq(CleanData)
        /\ Follows(printed[r], p \o q, said[r], current[r], r \in dropped)
    BY <1>7 DEF Carries, OnWay
  <2>2. /\ Len(printed[r]) \in Nat /\ Len(said[r]) \in Nat
    <3>1. \A x : IsSeq(x) => Len(x) \in Nat
      BY DEF IsSeq
    <3> QED
      BY <3>1 DEF InTune
  <2>3. rest \in Seq(CleanData) /\ Len(rest) <= Len(d) /\ \A i \in 1..Len(rest) - 1 : rest[i] = d[i]
    <3>1. CASE rest = d
      BY <2>1, <3>1
    <3>2. CASE rest \in Remains(d)
      <4> HIDE DEF rest, d
      <4> QED
        BY <2>1, <3>2, RemainsShape
    <3> QED
      BY <3>1, <3>2
  <2> DEFINE left_ == Behind(r)'
  <2>4. p \in Seq(CleanData) /\ left_ \in Seq(CleanData) /\ Len(left_) <= Len(p) /\ \A i \in 1..Len(left_) - 1 : left_[i] = p[i]
    <3>1. CASE pc[r] = "listen"
      BY <2>1, <2>3, <3>1 DEF Behind
    <3>2. CASE pc[r] # "listen"
      <4>1. p = Tail(d) /\ left_ = Tail(rest)
        BY <3>2 DEF Behind
      <4>2. rest # <<>>
        BY <1>7, <3>2
      <4> HIDE DEF p, d, rest, left_
      <4>3. Len(rest) \in Nat /\ Len(d) \in Nat /\ Len(rest) # 0 /\ Len(d) # 0
        BY <2>1, <2>3, <4>2
      <4>4. d # <<>> /\ rest # <<>>
        BY <4>2, <4>3
      <4>5. /\ Tail(d) \in Seq(CleanData) /\ Len(Tail(d)) = Len(d) - 1
            /\ \A i \in 1..Len(d) - 1 : Tail(d)[i] = d[i + 1]
        BY <2>1, <4>4
      <4>6. /\ Tail(rest) \in Seq(CleanData) /\ Len(Tail(rest)) = Len(rest) - 1
            /\ \A i \in 1..Len(rest) - 1 : Tail(rest)[i] = rest[i + 1]
        BY <2>3, <4>4
      <4>7. \A i \in 1..Len(Tail(rest)) - 1 : Tail(rest)[i] = Tail(d)[i]
        <5> SUFFICES ASSUME NEW i \in 1..Len(Tail(rest)) - 1 PROVE Tail(rest)[i] = Tail(d)[i]
          OBVIOUS
        <5>1. i \in 1..Len(rest) - 1 /\ i + 1 \in 1..Len(rest) - 1 /\ i \in 1..Len(d) - 1
          BY <2>3, <4>3, <4>6
        <5> QED
          BY <2>3, <4>5, <4>6, <5>1
      <4> QED
        BY <2>3, <4>1, <4>3, <4>5, <4>6, <4>7
    <3> QED
      BY <3>1, <3>2
  <2>5. OnWay(r)' = left_
    <3>1. OnWay(r)' = left_ \o <<>>
      BY DEF OnWay
    <3> HIDE DEF left_
    <3> QED
      BY <2>4, <3>1
  <2>6. Follows(printed[r], left_, said[r], current[r], TRUE)
    <3> HIDE DEF p, q, d, rest, left_
    <3> QED
      BY <2>1, <2>2, <2>4, FollowsLess
  <2>7. <<>> \in Seq(CleanData)
    OBVIOUS
  <2> QED
    BY <2>1, <2>3, <2>5, <2>6, <2>7 DEF Kept
<1>8. ASSUME Carries(r), pc[r] = "listen" \/ down'[r] # <<>> PROVE Carries(r)'
  BY <1>1, <1>7, <1>8 DEF Carries
<1>9. AtJoin(r)'
  <2>1. CASE down'[r] = <<>>
    BY <2>1 DEF AtJoin
  <2>2. CASE down'[r] # <<>>
    BY <1>3, <1>8, <2>2 DEF InTune, AtJoin
  <2> QED
    BY <2>1, <2>2
<1>10. AtListen(r)'
  BY <1>8 DEF InTune, AtListen
<1> QED
  BY <1>1, <1>6, <1>9, <1>10 DEF InTune

\* One more text is broadcast to a member.
LEMMA HeardInTune ==
    ASSUME NEW r \in Receivers, Wires, InTune(r), overlong \subseteq overlong', dropped \subseteq dropped',
           worker[r] = "deliver", r \notin dropped',
           NEW e, said'[r] = Append(said[r], e), queue'[r] = Append(queue[r], Delivery(current[r], e)),
           Good(r)' => Good(r) /\ e \in PlainEntry,
           pc'[r] = pc[r], worker'[r] = worker[r], up'[r] = up[r], down'[r] = down[r],
           current'[r] = current[r], printed'[r] = printed[r]
    PROVE  InTune(r)'
<1>1. r \notin dropped /\ (r \in dropped) = FALSE /\ (r \in dropped)' = FALSE
  BY DEF Wires, Closed
<1>2. \A x : IsSeq(x) => Len(x) \in Nat
  BY DEF IsSeq
<1>3. Len(printed[r]) \in Nat
  BY <1>2 DEF InTune
<1>4. Shows(r)'
  <2> SUFFICES ASSUME Good(r)'
      PROVE  said'[r] \in Seq(PlainEntry) /\ Follows(printed'[r], <<>>, said'[r], current'[r], FALSE)
    BY <1>1 DEF Shows
  <2>1. said[r] \in Seq(PlainEntry) /\ e \in PlainEntry /\ Follows(printed[r], <<>>, said[r], current[r], FALSE)
    BY <1>1 DEF InTune, Shows
  <2>2. Len(printed[r]) <= Len(said[r]) /\ \A i \in 1..Len(printed[r]) : printed[r][i] = said[r][i]
    BY <1>3, <2>1 DEF Follows
  <2>3. /\ Append(said[r], e) \in Seq(PlainEntry) /\ Len(printed[r]) <= Len(Append(said[r], e))
        /\ \A i \in 1..Len(printed[r]) : printed[r][i] = Append(said[r], e)[i]
    BY <1>3, <2>1, <2>2
  <2> QED
    BY <1>3, <2>1, <2>3 DEF Follows
<1>5. ASSUME Carries(r), pc[r] = "listen" \/ (Good(r) => down[r] # <<>>) PROVE Carries(r)'
  <2> SUFFICES ASSUME Good(r)'
      PROVE  /\ current'[r] \in CleanData
             /\ down'[r] \in Seq(CleanData) /\ queue'[r] \in Seq(CleanData)
             /\ Follows(printed'[r], OnWay(r)', said'[r], current'[r], FALSE)
             /\ Len(printed'[r]) + Len(OnWay(r)') = Len(said'[r])
    BY <1>1 DEF Carries
  <2>1. Good(r) /\ e \in PlainEntry /\ Len(current[r]) = 1 /\ said[r] \in Seq(PlainEntry)
    BY DEF Good, Plain, InTune, Shows
  <2>2. /\ current[r] \in CleanData /\ down[r] \in Seq(CleanData) /\ queue[r] \in Seq(CleanData)
        /\ Follows(printed[r], OnWay(r), said[r], current[r], FALSE)
        /\ Len(printed[r]) + Len(OnWay(r)) = Len(said[r])
    BY <1>1, <1>5, <2>1 DEF Carries
  <2>3. Behind(r) \in Seq(CleanData) /\ Behind(r)' = Behind(r)
    BY <1>5, <2>1, <2>2 DEF Behind
  <2>4. Delivery(current[r], e) \in CleanData
    BY <2>1, <2>2, DeliveryShown
  <2>5. \A p, q \in Seq(CleanData), x \in CleanData :
           p \o Append(q, x) = Append(p \o q, x) /\ p \o q \in Seq(CleanData) /\ Append(q, x) \in Seq(CleanData)
    OBVIOUS
  <2>6. /\ OnWay(r)' = Append(OnWay(r), Delivery(current[r], e)) /\ OnWay(r) \in Seq(CleanData)
        /\ queue'[r] \in Seq(CleanData)
    <3> DEFINE d == Delivery(current[r], e)
               p == Behind(r)
               q == queue[r]
    <3>1. p \in Seq(CleanData) /\ q \in Seq(CleanData) /\ d \in CleanData
      BY <2>2, <2>3, <2>4
    <3>2. OnWay(r) = p \o q /\ OnWay(r)' = p \o Append(q, d) /\ queue'[r] = Append(q, d)
      BY <2>3 DEF OnWay
    <3> HIDE DEF d, p, q
    <3>3. p \o Append(q, d) = Append(p \o q, d) /\ p \o q \in Seq(CleanData) /\ Append(q, d) \in Seq(CleanData)
      BY <2>5, <3>1, Zenon
    <3> QED
      BY <3>2, <3>3 DEF d
  <2>7. /\ Follows(printed[r], OnWay(r)', Append(said[r], e), current[r], FALSE)
        /\ Len(printed[r]) + Len(OnWay(r)') = Len(Append(said[r], e))
    <3>1. Len(printed[r]) \in Nat /\ OnWay(r) \in Seq(CleanData)
      BY <1>3, <2>6
    <3>2. PICK onWay \in Seq(CleanData) : onWay = OnWay(r)
      BY <3>1
    <3>3. PICK all \in Seq(PlainEntry) : all = said[r]
      BY <2>1
    <3>4. PICK x \in PlainEntry : x = e
      BY <2>1
    <3>5. Follows(printed[r], onWay, all, current[r], FALSE) /\ Len(printed[r]) + Len(onWay) = Len(all)
      BY <2>2, <3>2, <3>3
    <3>6. PICK d \in CleanData : d = Delivery(current[r], x)
      BY <2>4, <3>4
    <3>7. /\ Follows(printed[r], Append(onWay, d), Append(all, x), current[r], FALSE)
          /\ Len(printed[r]) + Len(Append(onWay, d)) = Len(Append(all, x))
      <4>1. PICK shown, room, cut : shown = printed[r] /\ room = current[r] /\ cut = FALSE
        OBVIOUS
      <4>2. /\ Len(shown) \in Nat /\ Follows(shown, onWay, all, room, cut) /\ Len(shown) + Len(onWay) = Len(all)
            /\ d = Delivery(room, x) /\ cut \in BOOLEAN /\ ~cut
        BY <3>1, <3>5, <3>6, <4>1
      <4>3. /\ Follows(shown, Append(onWay, d), Append(all, x), room, cut)
            /\ Len(shown) + Len(Append(onWay, d)) = Len(Append(all, x))
        BY <4>2, FollowsMore
      <4> QED
        BY <4>1, <4>3
    <3> QED
      BY <2>6, <3>2, <3>3, <3>4, <3>6, <3>7
  <2> QED
    BY <2>2, <2>6, <2>7
<1>6. Good(r)' => Good(r)
  OBVIOUS
<1>7. AtJoin(r)'
  BY <1>5, <1>6 DEF InTune, AtJoin
<1> QED
  BY <1>4, <1>5, <1>7 DEF InTune, BeforeLogin, AtLogin, AtListen

\* A text is broadcast by a sender in touch: it can be shown.
LEMMA BroadcastInTune ==
    ASSUME Wires, SendersInTouch, EntriesTrue, NEW r \in Receivers, InTune(r),
           NEW s \in Senders, WorkerSender(s)
    PROVE  InTune(r)'
<1>1. r # s /\ r \in Clients /\ s \in Clients
  BY ClientsAssumption DEF Clients
<1>2. /\ UNCHANGED <<pc, printed, overlong, name>>
      /\ worker'[r] = worker[r] /\ up'[r] = up[r] /\ down'[r] = down[r] /\ current'[r] = current[r]
  BY <1>1 DEF WorkerSender, Command, Asked, Gone, Write, Reply, Finish, Enter, Wires, Types
<1>3. dropped \subseteq dropped' /\ (r \in dropped' => r \in dropped)
  BY <1>1 DEF WorkerSender, Command, Finish
<1>4. CASE queue'[r] = queue[r] /\ said'[r] = said[r] /\ meant'[r] = meant[r]
  BY <1>2, <1>3, <1>4, LeftInTune DEF Kept
<1> DEFINE piece == Head(up[s])
           e == Entry(s, Tail(piece))
           m == [by |-> s, text |-> Tail(Received(asked[s]))]
<1>5. CASE /\ Asked(s) /\ Has(piece, "sendall") /\ r \in Members(current[s])
           /\ Broadcast(s, Tail(piece))
  <2>1. worker[r] = "deliver" /\ current[r] = current[s] /\ worker[s] = "sender"
    BY <1>5 DEF Members, WorkerSender
  <2>2. /\ said'[r] = Append(said[r], e) /\ meant'[r] = Append(meant[r], m)
        /\ queue'[r] = Append(queue[r], Delivery(current[r], e))
    BY <1>5, <2>1 DEF Broadcast
  <2>3. PICK S : said[r] \in Seq(S)
    BY DEF EntriesTrue, IsSeq
  <2>4. PICK M : meant[r] \in Seq(M)
    BY DEF EntriesTrue, IsSeq
  <2>5. Len(said[r]) = Len(meant[r]) /\ m.by = s
    BY DEF EntriesTrue
  <2> HIDE DEF e, m
  <2>n. PICK n : n = Len(said[r]) + 1
    OBVIOUS
  <2>6. /\ n \in DOMAIN said'[r] /\ said'[r][n] = e /\ meant'[r][n] = m
        /\ \A i \in DOMAIN said[r] : /\ i \in DOMAIN said'[r]
                                     /\ said'[r][i] = said[r][i] /\ meant'[r][i] = meant[r][i]
    <3>1. said'[r] \in Seq(S \cup {e}) /\ meant'[r] \in Seq(M \cup {m}) /\ DOMAIN said[r] = 1..Len(said[r])
      BY <2>2, <2>3, <2>4
    <3> QED
      BY <2>2, <2>3, <2>4, <2>5, <2>n, <3>1
  <2>7. ASSUME Good(r)' PROVE Good(r) /\ e \in PlainEntry
    <3>1. Good(r)
      BY <1>2, <2>6, <2>7, GoodBefore
    <3>2. Deliverable(r, n)'
      BY <2>6, <2>7 DEF Good
    <3>3. s \notin overlong /\ Len(e.from) = 1
      BY <1>2, <2>5, <2>6, <3>2 DEF Deliverable
    <3>4. e \in CleanEntry
      BY <1>5, <2>1, <3>3, BroadcastIsGenuine DEF e
    <3> QED
      BY <3>1, <3>3, <3>4 DEF PlainEntry
  <2>8. r \notin dropped'
    BY <1>1, <1>3, <2>1 DEF Wires, Closed
  <2> HIDE DEF piece
  <2> QED
    BY <1>2, <1>3, <2>1, <2>2, <2>7, <2>8, HeardInTune
<1>6. UNCHANGED <<queue, said, meant>> \/ (Asked(s) /\ Has(piece, "sendall") /\ Broadcast(s, Tail(piece)))
  BY DEF WorkerSender, Command, broadcasts
<1>7. ASSUME Broadcast(s, Tail(piece)), r \notin Members(current[s])
      PROVE  queue'[r] = queue[r] /\ said'[r] = said[r] /\ meant'[r] = meant[r]
  <2>1. DOMAIN queue = Receivers /\ DOMAIN said = Receivers
    BY DEF Wires, Types
  <2> QED
    BY <1>7, <2>1 DEF Broadcast
<1> QED
  BY <1>4, <1>5, <1>6, <1>7

LEMMA ConnectInTune ==
    ASSUME Wires, NEW r \in Receivers, InTune(r), Connect(r)
    PROVE  InTune(r)'
<1>1. /\ UNCHANGED <<worker, down, dropped, current, queue, printed, said, meant, overlong, name>>
      /\ r \in DOMAIN pc /\ pc[r] = "off"
  BY DEF Connect, Goto, Wires, Types, Clients, history, record, broadcasts
<1>2. CASE listening = "on"
  <2>1. pc'[r] = "connected" /\ up' = up
    BY <1>1, <1>2 DEF Connect, Goto
  <2>2. Quiet(r) /\ Quiet(r)'
    BY <1>1 DEF InTune, BeforeLogin, Quiet
  <2>3. Shows(r)' /\ IsSeq(printed[r])'
    BY <1>1, <2>2, KeptShows DEF InTune, Kept
  <2> QED
    BY <1>1, <2>1, <2>2, <2>3 DEF InTune, BeforeLogin, AtLogin, AtJoin, AtListen
<1>3. CASE listening # "on"
  BY <1>1, <1>3, EndsInTune DEF Connect, Exit, Kept
<1> QED
  BY <1>2, <1>3

LEMMA AcceptInTune ==
    ASSUME Wires, NEW r \in Receivers, InTune(r), Accept
    PROVE  InTune(r)'
<1>1. backlog # <<>> /\ worker' = [worker EXCEPT ![Head(backlog)] = "login"]
  BY DEF Accept
<1>2. worker[Head(backlog)] = "none" /\ Head(backlog) \in Clients
  <2>1. backlog \in Seq(Clients)
    BY DEF Wires, Types
  <2>2. 1 \in 1..Len(backlog) /\ Head(backlog) = backlog[1] /\ backlog[1] \in Clients
    BY <1>1, <2>1
  <2> QED
    BY <2>2 DEF Wires, Waiting
<1>3. UNCHANGED <<pc, up, down, dropped, current, queue, printed, said, meant, overlong, name>>
  BY DEF Accept, wires, history, record, broadcasts
<1>4. CASE Head(backlog) # r
  BY <1>1, <1>2, <1>3, <1>4, LeftInTune DEF Wires, Types, Clients, Kept
<1>5. CASE Head(backlog) = r
  <2>1. worker[r] = "none" /\ worker'[r] = "login"
    BY <1>1, <1>2, <1>5 DEF Wires, Types
  <2>2. Quiet(r) /\ Quiet(r)' /\ pc[r] \in {"off", "connected", "login", "done"}
    BY <1>3, <2>1 DEF InTune, AtJoin, AtListen, Quiet
  <2>3. Shows(r)' /\ Rlogin(r)' = Rlogin(r)
    BY <1>3, KeptShows DEF InTune, Kept, Rlogin
  <2> QED
    BY <1>3, <2>1, <2>2, <2>3 DEF InTune, BeforeLogin, AtLogin, AtJoin, AtListen
<1> QED
  BY <1>4, <1>5

LEMMA WorkerLoginInTune ==
    ASSUME Wires, NEW r \in Receivers, InTune(r), WorkerLogin(r)
    PROVE  InTune(r)'
<1> USE DEF Wires, Types, Clients
<1>1. /\ worker[r] = "login"
      /\ UNCHANGED <<pc, current, queue, printed, said, meant, left, overlong, name>>
      /\ worker'[r] \in {"sender", "join", "gone"} /\ dropped \subseteq dropped'
  BY DEF WorkerLogin, Serve, Refuse, Finish, history, record, broadcasts
<1>2. Quiet(r) /\ Quiet(r)' /\ pc[r] \in {"off", "connected", "login", "done"}
  BY <1>1 DEF InTune, AtJoin, AtListen, Quiet
<1>3. Shows(r)' /\ IsSeq(printed[r])'
  BY <1>1, KeptShows DEF InTune, Kept
<1>4. CASE pc[r] \in {"off", "connected"}
  BY <1>1, <1>4 DEF InTune, BeforeLogin, WorkerLogin, Asked, Gone, Closed
<1>5. CASE pc[r] = "done"
  BY <1>1, <1>2, <1>3, <1>5 DEF InTune, BeforeLogin, AtLogin, AtJoin, AtListen
<1>6. CASE pc[r] = "login"
  <2>1. up[r] = <<Received(Rlogin(r))>> /\ down[r] = <<>> /\ r \notin left
    BY <1>1, <1>6 DEF InTune, AtLogin, Closed
  <2>2. Head(up[r]) = Received(Rlogin(r)) /\ Asked(r)
    BY <2>1 DEF WorkerLogin, Gone
  <2>3. \A x : Tail(<<x>>) = <<>> /\ <<>> \o <<x>> = <<x>>
    OBVIOUS
  <2>4. up'[r] = <<>>
    BY <2>1, <2>2, <2>3 DEF Asked
  <2>5. Has(Received(Rlogin(r)), "rlogin") /\ ~Has(Received(Rlogin(r)), "slogin")
    BY Logins, ReceivedLine, OneTag, TagNames
  <2>6. Serve(r, "join")
    BY <2>1, <2>2, <2>5 DEF WorkerLogin, Gone
  <2>7. worker'[r] = "join" /\ down'[r] = <<Ok>>
    BY <2>1, <2>3, <2>6, Answers DEF Serve, Reply, Sent
  <2> QED
    BY <1>1, <1>2, <1>3, <1>6, <2>4, <2>7 DEF InTune, BeforeLogin, AtLogin, AtJoin, AtListen
<1> QED
  BY <1>2, <1>4, <1>5, <1>6

\* What a receiver asks for is a room as the server receives it.
LEMMA RoomsReceived ==
    ASSUME NEW room \in Rooms
    PROVE  LET line == Message("join", room)
           IN  Has(Received(line), "join") /\ Tail(Received(line)) \in CleanData
<1>1. room \in Seq(AnyWord) /\ room # <<>>
  BY LinesAssumption, WordTypes
<1>2. Message("join", room) \in Lines /\ Has(Message("join", room), "join")
  BY <1>1, MessageIsLine, TagOfMessage, TagNames
<1> QED
  BY <1>2, ReceivedLine, TagNames

LEMMA WorkerJoinInTune ==
    ASSUME Wires, NEW r \in Receivers, InTune(r), WorkerJoin(r)
    PROVE  InTune(r)'
<1> USE DEF Wires, Types, Clients
<1>1. /\ worker[r] = "join" /\ worker'[r] \in {"deliver", "gone"}
      /\ UNCHANGED <<pc, queue, printed, said, meant, left, overlong, name>>
  BY DEF WorkerJoin, Serve, Refuse, Finish, history, record, broadcasts
<1>2. Quiet(r) /\ Quiet(r)' /\ pc[r] \in {"login", "join", "done"}
  BY <1>1 DEF InTune, BeforeLogin, AtListen, Quiet
<1>3. Shows(r)' /\ IsSeq(printed[r])'
  <2>1. <<>> \in Seq(PlainEntry) /\ IsSeq(<<>>) /\ Len(<<>>) \in Nat
    BY DEF IsSeq
  <2> QED
    BY <1>2, <2>1, NothingFollows DEF Quiet, Shows
<1>4. CASE pc[r] = "login"
  BY <1>1, <1>4 DEF InTune, AtLogin, WorkerJoin, Asked, Gone, Closed
<1>5. CASE pc[r] = "done"
  BY <1>1, <1>2, <1>3, <1>5 DEF InTune, BeforeLogin, AtLogin, AtJoin, AtListen
<1>6. CASE pc[r] = "join"
  <2>1. AsksFor(r) /\ down[r] = <<>> /\ r \notin left
    BY <1>1, <1>6 DEF InTune, AtJoin, Closed
  <2>2. PICK room \in Rooms : up[r] = <<Received(Message("join", room))>>
    BY <2>1 DEF AsksFor
  <2>a. PICK line : line = Received(Message("join", room))
    OBVIOUS
  <2>3. Head(up[r]) = line /\ Has(line, "join") /\ Tail(line) \in CleanData
    BY <2>2, <2>a, RoomsReceived
  <2>5. Serve(r, "deliver") /\ Enter(r, Tail(line))
    BY <2>1, <2>2, <2>3 DEF WorkerJoin, Gone
  <2>6. worker'[r] = "deliver" /\ current'[r] = Tail(line) /\ down'[r] = <<Ok>>
    <3>1. \A x : <<>> \o <<x>> = <<x>>
      OBVIOUS
    <3> QED
      BY <2>1, <2>5, <3>1, Answers DEF Serve, Enter, Reply, Sent
  <2>7. \A x : Tail(<<x>>) = <<>> /\ <<x>> # <<>>
    OBVIOUS
  <2>8. OnWay(r)' = <<>>
    BY <1>1, <1>2, <1>6, <2>6, <2>7 DEF OnWay, Behind, Quiet
  <2>9. Carries(r)'
    <3>1. <<Ok>> \in Seq(CleanData) /\ <<>> \in Seq(CleanData) /\ Len(<<>>) \in Nat /\ Len(<<>>) + Len(<<>>) = Len(<<>>)
      BY Answers
    <3> QED
      BY <1>2, <2>3, <2>6, <2>8, <3>1, NothingFollows DEF Carries, Quiet
  <2>10. AtJoin(r)'
    BY <2>6, <2>7, <2>9 DEF AtJoin
  <2> QED
    BY <1>1, <1>2, <1>3, <1>6, <2>10 DEF InTune, BeforeLogin, AtLogin, AtListen
<1> QED
  BY <1>2, <1>4, <1>5, <1>6

LEMMA WorkerDeliverInTune ==
    ASSUME Wires, NEW r \in Receivers, InTune(r), WorkerDeliver(r)
    PROVE  InTune(r)'
<1> USE DEF Wires, Types, Clients
<1>1. /\ worker[r] = "deliver" /\ worker'[r] \in {"deliver", "gone"} /\ queue[r] # <<>>
      /\ dropped \subseteq dropped' /\ r \notin dropped
      /\ UNCHANGED <<pc, up, current, printed, said, meant, left, overlong, name>>
  BY DEF WorkerDeliver, Finish, Closed, history, record, broadcasts
<1>2. Good(r)' = Good(r) /\ Shows(r)' /\ IsSeq(printed[r])'
  <2>1. Good(r)' = Good(r)
    BY <1>1 DEF Good, Plain, Deliverable
  <2> QED
    BY <1>1, <2>1, KeptShows DEF InTune, Kept
<1>3. pc[r] \in {"join", "listen", "done"}
  BY <1>1 DEF InTune, BeforeLogin, AtLogin
<1>4. CASE pc[r] = "done"
  BY <1>1, <1>2, <1>4 DEF InTune, BeforeLogin, AtLogin, AtJoin, AtListen
<1>5. CASE pc[r] \in {"join", "listen"}
  <2>1. r \notin left /\ Reply(r, Head(queue[r])) /\ queue'[r] = Tail(queue[r])
        /\ worker'[r] = "deliver" /\ dropped' = dropped
    BY <1>1, <1>5 DEF WorkerDeliver, Closed
  <2>2. Carries(r) /\ (pc[r] = "join" => (Good(r) => down[r] # <<>>))
    BY <1>1, <1>5 DEF InTune, AtJoin, AtListen, Quiet
  <2>3. ASSUME Good(r)
        PROVE  Carries(r)' /\ (pc[r] = "join" => down'[r] # <<>>)
    <3> DEFINE d == down[r]
               q == queue[r]
               n == Len(printed[r])
               x == Head(q)
               room == current[r]
               entries == said[r]
    <3>1. /\ entries \in Seq(PlainEntry) /\ room \in CleanData /\ Len(room) = 1
          /\ d \in Seq(CleanData) /\ q \in Seq(CleanData) /\ q # <<>>
          /\ Follows(printed[r], Behind(r) \o q, entries, room, FALSE)
          /\ n + Len(OnWay(r)) = Len(entries) /\ OnWay(r) = Behind(r) \o q
      <4>1. (r \in dropped) = FALSE
        BY <1>1
      <4>2. said[r] \in Seq(PlainEntry)
        BY <2>3 DEF InTune, Shows
      <4>3. /\ current[r] \in CleanData /\ down[r] \in Seq(CleanData) /\ queue[r] \in Seq(CleanData)
            /\ Follows(printed[r], OnWay(r), said[r], current[r], FALSE)
            /\ Len(printed[r]) + Len(OnWay(r)) = Len(said[r])
        BY <1>1, <2>2, <2>3, <4>1 DEF Carries
      <4>4. Len(current[r]) = 1
        BY <2>3 DEF Good, Plain
      <4>5. OnWay(r) = Behind(r) \o queue[r]
        BY DEF OnWay
      <4> QED
        BY <1>1, <4>2, <4>3, <4>4, <4>5
    <3>2. Behind(r) \in Seq(CleanData)
      BY <1>5, <2>2, <2>3, <3>1 DEF Behind
    <3>n. n \in Nat
      <4>1. \A y : IsSeq(y) => Len(y) \in Nat
        BY DEF IsSeq
      <4> QED
        BY <4>1 DEF InTune
    <3>3. PICK i : i = n + (Len(Behind(r)) + 1)
      OBVIOUS
    <3>4. i \in DOMAIN entries /\ x = Delivery(room, entries[i])
      <4> DEFINE b == Behind(r)
      <4> HIDE DEF b, d, q, n, room, entries
      <4>1. b \in Seq(CleanData) /\ q \in Seq(CleanData) /\ q # <<>>
        BY <3>1, <3>2 DEF b
      <4>2. /\ Len(b) \in Nat /\ Len(q) \in Nat /\ Len(q) # 0 /\ Len(b \o q) = Len(b) + Len(q)
            /\ (b \o q)[Len(b) + 1] = Head(q)
        BY <4>1
      <4>3. Len(b) + 1 \in 1..Len(b \o q)
        BY <4>2
      <4>4. (b \o q)[Len(b) + 1] = Delivery(room, entries[n + (Len(b) + 1)])
        BY <3>1, <4>3 DEF Follows, b, n
      <4>5. n + Len(b \o q) <= Len(entries)
        BY <3>1 DEF Follows, b, n
      <4>6. i \in 1..Len(entries)
        BY <3>n, <3>1, <3>3, <4>2, <4>5 DEF b
      <4>7. DOMAIN entries = 1..Len(entries)
        BY <3>1
      <4> QED
        BY <3>3, <4>2, <4>4, <4>6, <4>7 DEF b
    <3>5. Fits(x) /\ entries[i] \in PlainEntry
      <4>1. Fits(x)
        BY <2>3, <3>4 DEF Good, Deliverable
      <4> QED
        BY <3>1, <3>4, <4>1
    <3>6. Pieces(x) = <<x>>
      BY <3>1, <3>4, <3>5, DeliveryShown
    <3>7. down'[r] = d \o <<x>> /\ queue'[r] = Tail(q)
      <4>1. down'[r] = d \o Pieces(x)
        BY <2>1 DEF Reply, Sent
      <4> QED
        BY <2>1, <3>6, <4>1
    <3> HIDE DEF d, q, n, room, entries
    <3>8. /\ down'[r] \in Seq(CleanData) /\ queue'[r] \in Seq(CleanData)
          /\ d # <<>> => down'[r] # <<>> /\ Tail(down'[r]) = Tail(d) \o <<x>>
      <4>1. /\ d \o <<Head(q)>> \in Seq(CleanData) /\ Tail(q) \in Seq(CleanData)
            /\ d # <<>> => /\ d \o <<Head(q)>> # <<>>
                          /\ Tail(d \o <<Head(q)>>) = Tail(d) \o <<Head(q)>>
        BY <3>1, FirstMoves
      <4> QED
        BY <3>7, <4>1
    <3>9. pc[r] = "join" => d # <<>>
      BY <2>2, <2>3 DEF d
    <3>10. Behind(r)' = Behind(r) \o <<x>>
      <4>1. CASE pc[r] = "listen"
        BY <1>1, <3>7, <4>1 DEF Behind, d
      <4>2. CASE pc[r] = "join"
        <5>1. Behind(r) = Tail(d) /\ Behind(r)' = Tail(down'[r])
          BY <1>1, <4>2 DEF Behind, d
        <5> QED
          BY <3>8, <3>9, <4>2, <5>1
      <4> QED
        BY <1>5, <4>1, <4>2
    <3>11. OnWay(r)' = Behind(r) \o q
      <4>1. (Behind(r) \o <<Head(q)>>) \o Tail(q) = Behind(r) \o q
        BY <3>1, <3>2, FirstMoves
      <4>2. OnWay(r)' = Behind(r)' \o queue'[r]
        BY DEF OnWay
      <4> QED
        BY <3>7, <3>10, <4>1, <4>2, Zenon
    <3>12. Carries(r)'
      <4>1. (r \in dropped)' = FALSE
        BY <1>1, <2>1
      <4>2. OnWay(r)' = OnWay(r)
        BY <3>1, <3>11
      <4> QED
        BY <1>1, <3>1, <3>8, <3>11, <4>1, <4>2 DEF Carries, n, room, entries
    <3> QED
      BY <3>8, <3>9, <3>12
  <2>4. Carries(r)' /\ (pc'[r] = "join" => (Good(r)' => down'[r] # <<>>))
    BY <1>1, <1>2, <2>3 DEF Carries
  <2> QED
    BY <1>1, <1>2, <1>5, <2>1, <2>4 DEF InTune, BeforeLogin, AtLogin, AtJoin, AtListen
<1> QED
  BY <1>3, <1>4, <1>5

LEMMA ReceiverLoginInTune ==
    ASSUME Wires, NEW r \in Receivers, r \notin overlong', InTune(r), Login(r)
    PROVE  InTune(r)'
<1> USE DEF Wires, Types, Clients
<1>1. /\ pc[r] = "connected" /\ pc'[r] = "login" /\ overlong \subseteq overlong'
      /\ UNCHANGED <<worker, current, down, dropped, queue, printed, said, meant, name>>
  BY DEF Login, Goto, Put, serverVars, record, broadcasts
<1>2. up[r] = <<>> /\ down[r] = <<>> /\ Quiet(r) /\ Quiet(r)' /\ worker[r] \in {"none", "login", "gone"}
  BY <1>1 DEF InTune, BeforeLogin, Quiet
<1>3. r \notin Senders /\ Rlogin(r)' = Rlogin(r)
  BY <1>1, ClientsAssumption DEF Rlogin
<1>4. Put(r, Rlogin(r))
  BY <1>3 DEF Login, Rlogin
<1>5. Pieces(Rlogin(r)) = <<Received(Rlogin(r))>>
  BY <1>4, OnePiece DEF Put
<1>6. worker[r] # "gone" => up'[r] = <<Received(Rlogin(r))>>
  <2>1. \A x : <<>> \o <<x>> = <<x>>
    OBVIOUS
  <2> QED
    BY <1>2, <1>4, <1>5, <2>1 DEF Put, Closed
<1>7. Shows(r)' /\ IsSeq(printed[r])'
  BY <1>1, KeptShows DEF InTune, Kept
<1>8. Few(<<>>)
  BY DEF Few
<1> QED
  BY <1>1, <1>2, <1>3, <1>6, <1>7, <1>8 DEF InTune, BeforeLogin, AtLogin, AtJoin, AtListen

LEMMA ReceiverLoginReplyInTune ==
    ASSUME Wires, NEW r \in Receivers, r \notin overlong', overlong \subseteq overlong', InTune(r), LoginReply(r)
    PROVE  InTune(r)'
<1> USE DEF Wires, Types, Clients
<1>1. pc[r] = "login" /\ UNCHANGED <<worker, current, dropped, queue, printed, said, meant, name>>
  BY DEF LoginReply, serverVars, record, broadcasts
<1>2. Quiet(r) /\ Quiet(r)'
  BY <1>1 DEF InTune, AtLogin, Quiet
<1>3. Shows(r)' /\ IsSeq(printed[r])'
  BY <1>1, KeptShows DEF InTune, Kept
<1>4. r \notin Senders
  BY ClientsAssumption
<1>5. CASE Exit(r) /\ UNCHANGED <<lost, overlong>>
  BY <1>1, <1>2, <1>3, <1>5 DEF Exit, InTune, BeforeLogin, AtLogin, AtJoin, AtListen
<1>6. CASE Answered(r, TRUE) /\ Goto(r, "login", "join") /\ \E room \in Rooms : Put(r, Message("join", room))
  <2>1. down[r] # <<>> /\ down'[r] = Tail(down[r]) /\ pc'[r] = "join"
    BY <1>6 DEF Answered, Goto
  <2>2. \A x : Tail(<<x>>) = <<>> /\ <<>> \o <<x>> = <<x>>
    OBVIOUS
  <2>3. down'[r] = <<>> /\ ((worker[r] = "join" /\ up[r] = <<>>) \/ worker[r] = "gone")
    BY <1>1, <2>1, <2>2 DEF InTune, AtLogin, Few
  <2>4. PICK room \in Rooms : Put(r, Message("join", room))
    BY <1>6
  <2>5. Pieces(Message("join", room)) = <<Received(Message("join", room))>>
    BY <2>4, OnePiece DEF Put
  <2>6. worker[r] = "join" => up'[r] = up[r] \o <<Received(Message("join", room))>>
    BY <2>4, <2>5 DEF Put, Closed
  <2>7. worker[r] = "join" => AsksFor(r)'
    BY <2>2, <2>3, <2>6 DEF AsksFor
  <2> QED
    BY <1>1, <1>2, <1>3, <2>1, <2>3, <2>7 DEF InTune, BeforeLogin, AtLogin, AtJoin, AtListen
<1> QED
  BY <1>4, <1>5, <1>6 DEF LoginReply

LEMMA JoinReplyInTune ==
    ASSUME Wires, NEW r \in Receivers, InTune(r), JoinReply(r)
    PROVE  InTune(r)'
<1> USE DEF Wires, Types, Clients
<1>1. pc[r] = "join" /\ UNCHANGED <<worker, current, dropped, queue, printed, said, meant, overlong, name>>
  BY DEF JoinReply, serverVars, history, record, broadcasts
<1>2. CASE Exit(r)
  BY <1>1, <1>2, EndsInTune DEF Exit, Kept
<1>3. CASE Answered(r, TRUE) /\ Goto(r, "join", "listen")
  <2>1. pc'[r] = "listen" /\ down[r] # <<>> /\ down'[r] = Tail(down[r])
    BY <1>3 DEF Answered, Goto
  <2>2. worker[r] \in {"deliver", "gone"} /\ Carries(r)
    BY <1>1, <2>1 DEF InTune, AtJoin
  <2>3. Good(r)' = Good(r) /\ OnWay(r)' = OnWay(r)
    BY <1>1, <2>1 DEF Good, Plain, Deliverable, OnWay, Behind
  <2>4. Shows(r)' /\ IsSeq(printed[r])'
    BY <1>1, KeptShows DEF InTune, Kept
  <2>5. Good(r) => Tail(down[r]) \in Seq(CleanData)
    BY <2>1, <2>2 DEF Carries
  <2>6. Carries(r)'
    BY <1>1, <2>1, <2>2, <2>3, <2>5 DEF Carries
  <2> QED
    BY <1>1, <2>1, <2>2, <2>4, <2>6 DEF InTune, BeforeLogin, AtLogin, AtJoin, AtListen
<1> QED
  BY <1>2, <1>3 DEF JoinReply

LEMMA FollowsNone ==
    ASSUME NEW shown, Len(shown) \in Nat, NEW onWay, Len(onWay) \in Nat, NEW entries, Len(entries) \in Nat,
           NEW room, NEW cut, Follows(shown, onWay, entries, room, cut)
    PROVE  Follows(shown, <<>>, entries, room, cut)
<1>1. Len(<<>>) = 0 /\ Len(shown) + 0 <= Len(entries) /\ 1..0 = {}
  BY DEF Follows
<1> QED
  BY <1>1 DEF Follows

LEMMA ShowNextInTune ==
    ASSUME Wires, NEW r \in Receivers, InTune(r), ShowNext(r)
    PROVE  InTune(r)'
<1> USE DEF Wires, Types, Clients
<1>1. pc[r] = "listen" /\ UNCHANGED <<worker, current, dropped, queue, said, meant, overlong, name>>
  BY DEF ShowNext, serverVars, history, record, broadcasts
<1>2. Good(r)' = Good(r) /\ (r \in dropped)' = (r \in dropped)
  BY <1>1 DEF Good, Plain, Deliverable
<1>3. worker[r] \in {"deliver", "gone"} /\ Carries(r) /\ Shows(r) /\ IsSeq(printed[r])
  BY <1>1 DEF InTune, AtListen
<1>4. CASE Hangup(r) /\ Exit(r) /\ UNCHANGED <<down, printed>>
  BY <1>1, <1>4, EndsInTune DEF Exit, Kept
<1> DEFINE piece == Head(down[r])
<1>5. CASE /\ \E ok \in BOOLEAN : Answered(r, ok)
           /\ IF IsMessage(piece) /\ ~Has(piece, "err") THEN UNCHANGED <<pc, left, up>> ELSE Exit(r)
           /\ printed' = IF Has(piece, "delivery")
                         THEN [printed EXCEPT ![r] = Append(@, Shown(Tail(piece)))]
                         ELSE printed
  <2>1. /\ pc'[r] \in {"listen", "done"} /\ down[r] # <<>> /\ down'[r] = Tail(down[r])
        /\ IsMessage(piece) /\ ~Has(piece, "err") => pc'[r] = "listen"
        /\ printed'[r] = IF Has(piece, "delivery") THEN Append(printed[r], Shown(Tail(piece))) ELSE printed[r]
    BY <1>1, <1>5 DEF Exit, Answered
  <2>2. \A x : IsSeq(Append(printed[r], x))
    <3>1. PICK S : printed[r] \in Seq(S)
      BY <1>3 DEF IsSeq
    <3>2. \A x : Append(printed[r], x) \in Seq(S \cup {x})
      BY <3>1
    <3> QED
      BY <3>2 DEF IsSeq
  <2>3. IsSeq(printed'[r])
    BY <1>3, <2>1, <2>2
  <2>4. CASE ~Good(r)
    BY <1>1, <1>2, <1>3, <2>1, <2>3, <2>4 DEF InTune, BeforeLogin, AtLogin, AtJoin, AtListen, Carries, Shows
  <2>5. ASSUME Good(r), pc'[r] = "listen" => Carries(r)', Shows(r)' PROVE InTune(r)'
    BY <1>1, <1>3, <2>1, <2>3, <2>5 DEF InTune, BeforeLogin, AtLogin, AtJoin, AtListen
  <2>6. CASE Good(r)
    <3>1. /\ said[r] \in Seq(PlainEntry) /\ current[r] \in CleanData /\ Len(current[r]) = 1
          /\ down[r] \in Seq(CleanData) /\ queue[r] \in Seq(CleanData)
          /\ Follows(printed[r], down[r] \o queue[r], said[r], current[r], r \in dropped)
          /\ worker[r] = "deliver" => Len(printed[r]) + Len(down[r] \o queue[r]) = Len(said[r])
      BY <1>1, <1>3, <2>6 DEF Carries, Shows, OnWay, Behind, Good, Plain
    <3>2. PICK onWay \in Seq(CleanData) : onWay = down[r] \o queue[r]
      <4>1. \A p, q \in Seq(CleanData) : p \o q \in Seq(CleanData)
        OBVIOUS
      <4> QED
        BY <3>1, <4>1, Zenon
    <3>3. /\ onWay # <<>> /\ Head(onWay) = piece /\ Tail(onWay) = Tail(down[r]) \o queue[r]
          /\ Tail(onWay) \in Seq(CleanData) /\ Tail(down[r]) \in Seq(CleanData)
      BY <2>1, <3>1, <3>2
    <3>4. PICK cut \in BOOLEAN : cut = (r \in dropped)
      <4>1. (r \in dropped) \in BOOLEAN
        OBVIOUS
      <4> QED
        BY <4>1, Zenon
    <3>5. PICK e : e = said[r][Len(printed[r]) + 1]
      OBVIOUS
    <3>6. Follows(printed[r], onWay, said[r], current[r], cut)
      BY <3>1, <3>2, <3>4
    <3>7. /\ e \in PlainEntry
          /\ \/ /\ piece = Delivery(current[r], e)
                /\ Follows(Append(printed[r], e), Tail(onWay), said[r], current[r], cut)
                /\ Len(Append(printed[r], e)) + Len(Tail(onWay)) = Len(printed[r]) + Len(onWay)
             \/ /\ cut /\ Tail(onWay) = <<>> /\ Follows(printed[r], <<>>, said[r], current[r], cut)
                /\ \A x : Follows(Append(printed[r], x), <<>>, said[r], current[r], cut)
      BY <1>3, <3>1, <3>3, <3>5, <3>6, FollowsNext
    <3>8. pc'[r] = "listen" => OnWay(r)' = Tail(onWay)
      BY <1>1, <2>1, <3>3 DEF OnWay, Behind
    <3> HIDE DEF piece
    <3>9. CASE /\ piece = Delivery(current[r], e)
               /\ Follows(Append(printed[r], e), Tail(onWay), said[r], current[r], cut)
               /\ Len(Append(printed[r], e)) + Len(Tail(onWay)) = Len(printed[r]) + Len(onWay)
      <4>1. Has(piece, "delivery") /\ ~Has(piece, "err") /\ IsMessage(piece) /\ Shown(Tail(piece)) = e
        BY <3>1, <3>7, <3>9, DeliveryShown DEF Has
      <4>2. pc'[r] = "listen" /\ printed'[r] = Append(printed[r], e)
        BY <2>1, <4>1
      <4>3. PICK more : more = Append(printed[r], e)
        OBVIOUS
      <4>4. Len(more) \in Nat /\ Len(Tail(onWay)) \in Nat /\ Len(said[r]) \in Nat
        <5>1. \A x : IsSeq(x) => Len(x) \in Nat
          BY DEF IsSeq
        <5> QED
          BY <2>2, <3>1, <3>3, <4>3, <5>1
      <4>5. Follows(more, Tail(onWay), said[r], current[r], cut) /\ Follows(more, <<>>, said[r], current[r], cut)
        BY <3>9, <4>3, <4>4, FollowsNone
      <4>6. worker[r] = "deliver" => Len(more) + Len(Tail(onWay)) = Len(said[r])
        BY <3>1, <3>2, <3>9, <4>3
      <4>7. Carries(r)'
        BY <1>1, <1>2, <2>1, <3>1, <3>3, <3>4, <3>8, <4>2, <4>3, <4>5, <4>6 DEF Carries
      <4>8. Shows(r)'
        BY <1>1, <1>2, <3>1, <3>4, <4>2, <4>3, <4>5 DEF Shows
      <4> QED
        BY <2>5, <2>6, <4>7, <4>8
    <3>10. CASE /\ cut /\ Tail(onWay) = <<>> /\ Follows(printed[r], <<>>, said[r], current[r], cut)
                /\ \A x : Follows(Append(printed[r], x), <<>>, said[r], current[r], cut)
      <4>1. Follows(printed'[r], <<>>, said[r], current[r], cut)
        BY <2>1, <3>10
      <4>2. worker[r] # "deliver"
        BY <3>4, <3>10 DEF Closed
      <4>3. pc'[r] = "listen" => Carries(r)'
        BY <1>1, <1>2, <2>1, <3>1, <3>3, <3>4, <3>8, <3>10, <4>1, <4>2 DEF Carries
      <4>4. Shows(r)'
        BY <1>1, <1>2, <3>1, <3>4, <4>1 DEF Shows
      <4> QED
        BY <2>5, <2>6, <4>3, <4>4
    <3> QED
      BY <3>7, <3>9, <3>10
  <2> QED
    BY <2>4, <2>6
<1> QED
  BY <1>4, <1>5 DEF ShowNext

LEMMA InTuneStep ==
    ASSUME Wires, SendersInTouch, EntriesTrue, ReceiversInTune, [Next]_vars
    PROVE  ReceiversInTune'
<1> SUFFICES ASSUME NEW r \in Receivers, r \notin overlong' PROVE InTune(r)'
  BY DEF ReceiversInTune
<1>1. overlong \subseteq overlong' /\ r \notin overlong /\ name' = name
  BY OnlyGrow
<1>2. InTune(r)
  BY <1>1 DEF ReceiversInTune
<1>3. r \in Clients /\ \A s \in Senders : s # r
  BY ClientsAssumption DEF Clients
<1> USE DEF serverVars, wires, broadcasts, record, history
<1>4. CASE Listen
  BY <1>1, <1>2, <1>4, LeftInTune DEF Listen, Kept
<1>5. CASE Accept
  BY <1>2, <1>5, AcceptInTune
<1>6. CASE AcceptFails
  <2>1. /\ worker'[r] = "gone" /\ queue'[r] = <<>> /\ dropped' = Clients
        /\ UNCHANGED <<pc, up, current, printed, said, meant, overlong, name>>
    BY <1>3, <1>6 DEF AcceptFails
  <2> DEFINE rests == [c \in Clients |-> IF c \in left \cup dropped THEN {down[c]} ELSE Remains(down[c])]
  <2>2. down'[r] \in rests[r]
    BY <1>3, <1>6 DEF AcceptFails
  <2>3. down'[r] = down[r] \/ (r \notin dropped /\ down'[r] \in Remains(down[r]))
    BY <1>3, <2>2
  <2>4. worker[r] = "gone" => r \in dropped
    BY <1>3 DEF Wires, Closed
  <2>5. IsSeq(said[r])
    BY DEF EntriesTrue
  <2> QED
    BY <1>2, <1>3, <2>1, <2>3, <2>4, <2>5, ServerEndsInTune DEF Kept
<1>7. ASSUME NEW c \in Clients, c # r, Connect(c) PROVE InTune(r)'
  <2>1. pc'[r] = pc[r] /\ up'[r] = up[r]
    BY <1>3, <1>7 DEF Connect, Goto, Exit, Wires, Types
  <2> QED
    BY <1>1, <1>2, <1>7, <2>1, LeftInTune DEF Connect, Kept
<1>8. ASSUME NEW c \in Clients, c # r, WorkerLogin(c) PROVE InTune(r)'
  <2>1. /\ worker'[r] = worker[r] /\ up'[r] = up[r] /\ down'[r] = down[r]
        /\ dropped \subseteq dropped' /\ (r \in dropped' => r \in dropped)
    BY <1>3, <1>8 DEF WorkerLogin, Asked, Serve, Refuse, Write, Reply, Finish, Wires, Types
  <2> QED
    BY <1>1, <1>2, <1>8, <2>1, LeftInTune DEF WorkerLogin, Kept
<1>9. ASSUME NEW c \in Receivers, c # r, WorkerJoin(c) PROVE InTune(r)'
  <2>1. /\ worker'[r] = worker[r] /\ up'[r] = up[r] /\ down'[r] = down[r] /\ current'[r] = current[r]
        /\ dropped \subseteq dropped' /\ (r \in dropped' => r \in dropped)
    BY <1>3, <1>9 DEF WorkerJoin, Asked, Serve, Refuse, Write, Reply, Finish, Enter, Wires, Types
  <2> QED
    BY <1>1, <1>2, <1>9, <2>1, LeftInTune DEF WorkerJoin, Kept
<1>10. ASSUME NEW c \in Receivers, c # r, WorkerDeliver(c) PROVE InTune(r)'
  <2>1. /\ worker'[r] = worker[r] /\ down'[r] = down[r] /\ queue'[r] = queue[r]
        /\ dropped \subseteq dropped' /\ (r \in dropped' => r \in dropped)
    BY <1>3, <1>10 DEF WorkerDeliver, Write, Reply, Finish, Wires, Types
  <2> QED
    BY <1>1, <1>2, <1>10, <2>1, LeftInTune DEF WorkerDeliver, Kept
<1>11. ASSUME NEW c \in Clients, c # r, Login(c) PROVE InTune(r)'
  <2>1. pc'[r] = pc[r] /\ up'[r] = up[r]
    BY <1>3, <1>11 DEF Login, Goto, Put, Wires, Types
  <2> QED
    BY <1>1, <1>2, <1>11, <2>1, LeftInTune DEF Login, Kept
<1>12. ASSUME NEW c \in Clients, c # r, LoginReply(c) PROVE InTune(r)'
  <2>1. pc'[r] = pc[r] /\ up'[r] = up[r] /\ down'[r] = down[r]
    BY <1>3, <1>12 DEF LoginReply, Answered, Hangup, Goto, Exit, Put, Wires, Types
  <2> QED
    BY <1>1, <1>2, <1>12, <2>1, LeftInTune DEF LoginReply, Kept
<1>13. ASSUME NEW s \in Senders, Answer(s) PROVE InTune(r)'
  <2>1. pc'[r] = pc[r] /\ up'[r] = up[r] /\ down'[r] = down[r]
    BY <1>3, <1>13 DEF Answer, Answered, Hangup, Goto, Exit, Wires, Types, Clients
  <2> QED
    BY <1>1, <1>2, <1>13, <2>1, LeftInTune DEF Answer, Kept
<1>14. ASSUME NEW c \in Receivers, c # r, JoinReply(c) \/ ShowNext(c) PROVE InTune(r)'
  <2>1. pc'[r] = pc[r] /\ up'[r] = up[r] /\ down'[r] = down[r] /\ printed'[r] = printed[r]
    BY <1>3, <1>14 DEF JoinReply, ShowNext, Answered, Hangup, Goto, Exit, Wires, Types, Clients
  <2> QED
    BY <1>1, <1>2, <1>14, <2>1, LeftInTune DEF JoinReply, ShowNext, Kept
<1>15. ASSUME NEW c \in Clients, Quit(c) PROVE InTune(r)'
  <2>1. CASE c = r
    <3>1. pc'[r] = "done"
      BY <1>3, <1>15, <2>1 DEF Quit, Exit, Wires, Types
    <3> QED
      BY <1>1, <1>2, <1>15, <3>1, EndsInTune DEF Quit, Kept
  <2>2. CASE c # r
    <3>1. pc'[r] = pc[r] /\ up'[r] = up[r]
      BY <1>3, <1>15, <2>2 DEF Quit, Exit, Wires, Types
    <3> QED
      BY <1>1, <1>2, <1>15, <3>1, LeftInTune DEF Quit, Kept
  <2> QED
    BY <2>1, <2>2
<1>16. ASSUME NEW s \in Senders, NEW line, Type(s, line) PROVE InTune(r)'
  <2>1. pc'[r] = pc[r] /\ up'[r] = up[r]
    BY <1>3, <1>16 DEF Type, Goto, Put, Wires, Types
  <2> QED
    BY <1>1, <1>2, <1>16, <2>1, LeftInTune DEF Type, Kept
<1>17. CASE UNCHANGED vars
  BY <1>1, <1>2, <1>17, LeftInTune DEF vars, Kept
<1>18. ASSUME NEW s \in Senders, WorkerSender(s) PROVE InTune(r)'
  BY <1>2, <1>18, BroadcastInTune
<1>19. ASSUME NEW c \in Clients, Connect(c) \/ Worker(c) \/ Program(c) PROVE InTune(r)'
  <2>1. CASE c = r
    BY <1>1, <1>2, <1>3, <1>19, <2>1, ConnectInTune, WorkerLoginInTune, WorkerJoinInTune, WorkerDeliverInTune,
       ReceiverLoginInTune, ReceiverLoginReplyInTune, JoinReplyInTune, ShowNextInTune DEF Worker, Program
  <2>2. CASE c # r
    BY <1>7, <1>8, <1>9, <1>10, <1>11, <1>12, <1>13, <1>14, <1>18, <1>19, <2>2 DEF Worker, Program
  <2> QED
    BY <2>1, <2>2
<1> QED
  BY <1>4, <1>5, <1>6, <1>15, <1>16, <1>17, <1>19 DEF Next

-----------------------------------------------------------------------------
(* What follows for a user *)

\* Two sequences with the same elements are the same; so shown and on the way
\* make up what was broadcast.
LEMMA AllShown ==
    ASSUME NEW shown \in Seq(PlainEntry), NEW onWay \in Seq(CleanData), NEW entries \in Seq(PlainEntry),
           NEW room \in CleanData, Len(room) = 1,
           Follows(shown, onWay, entries, room, FALSE), Len(shown) + Len(onWay) = Len(entries)
    PROVE  shown \o [i \in DOMAIN onWay |-> Shown(Tail(onWay[i]))] = entries
<1> DEFINE rest == [i \in DOMAIN onWay |-> Shown(Tail(onWay[i]))]
<1>1. Len(shown) \in Nat /\ Len(onWay) \in Nat /\ DOMAIN onWay = 1..Len(onWay)
  OBVIOUS
<1>2. ASSUME NEW i \in 1..Len(onWay)
      PROVE  /\ rest[i] = entries[Len(shown) + i] /\ rest[i] \in PlainEntry
  <2>1. Len(shown) + i \in 1..Len(entries)
    BY <1>1
  <2>2. entries[Len(shown) + i] \in PlainEntry
    BY <2>1
  <2>3. onWay[i] = Delivery(room, entries[Len(shown) + i])
    BY DEF Follows
  <2>4. Shown(Tail(onWay[i])) = entries[Len(shown) + i]
    BY <2>2, <2>3, DeliveryShown
  <2> QED
    BY <1>1, <2>2, <2>4
<1>3. rest \in Seq(PlainEntry) /\ Len(rest) = Len(onWay)
  BY <1>1, <1>2
<1> HIDE DEF rest
<1>4. Len(shown \o rest) = Len(entries) /\ shown \o rest \in Seq(PlainEntry)
  <2>1. \A a, b \in Seq(PlainEntry) : Len(a \o b) = Len(a) + Len(b) /\ a \o b \in Seq(PlainEntry)
    OBVIOUS
  <2> QED
    BY <1>3, <2>1
<1>5. ASSUME NEW i \in 1..Len(entries) PROVE (shown \o rest)[i] = entries[i]
  <2>1. CASE i \in 1..Len(shown)
    BY <1>3, <2>1 DEF Follows
  <2>2. CASE i \notin 1..Len(shown)
    <3>1. i - Len(shown) \in 1..Len(rest) /\ Len(shown) + (i - Len(shown)) = i
      BY <1>1, <1>3, <2>2
    <3>2. (shown \o rest)[i] = rest[i - Len(shown)]
      BY <1>3, <2>2, <3>1
    <3> QED
      BY <1>2, <1>3, <3>1, <3>2
  <2> QED
    BY <2>1, <2>2
<1>6. shown \o rest = entries
  BY <1>4, <1>5, SeqEqual
<1> QED
  BY <1>6 DEF rest

\* Whatever is typed, whoever comes and goes and wherever a connection is cut, a
\* receiver whose own lines fit prints what was broadcast in its room, in the
\* order of the broadcasts, nothing missing and nothing twice, as long as every
\* text fits the line of a delivery and comes from a sender in step.  Only the
\* last line it prints may be wrong, if the server ended.
THEOREM PrintedAsBroadcast == Spec => []PrintsWhatWasBroadcast
<1> DEFINE IInv == Wires /\ SendersInTouch /\ EntriesTrue /\ ReceiversInTune
<1>1. Init => IInv
  BY WiresAtFirst, InTouchAtFirst, EntriesAtFirst, InTuneAtFirst
<1>2. IInv /\ [Next]_vars => IInv'
  BY WiresStep, InTouchStep, EntriesStep, InTuneStep
<1>3. IInv => PrintsWhatWasBroadcast
  <2> SUFFICES ASSUME IInv, NEW r \in Receivers, Good(r)
      PROVE  LET behind == IF pc[r] = "listen" \/ down[r] = <<>> THEN down[r] ELSE Tail(down[r])
                 onWay  == behind \o queue[r]
                 all    == printed[r] \o [i \in DOMAIN onWay |-> Shown(Tail(onWay[i]))]
                 last   == Len(printed[r])
             IN  /\ last <= Len(said[r])
                 /\ \A i \in 1..last :
                       printed[r][i] = said[r][i] \/ (r \in dropped /\ i = last)
                 /\ r \notin left \cup dropped => all = said[r]
    BY DEF PrintsWhatWasBroadcast, Good
  <2> DEFINE behind == IF pc[r] = "listen" \/ down[r] = <<>> THEN down[r] ELSE Tail(down[r])
             onWay  == behind \o queue[r]
             all    == printed[r] \o [i \in DOMAIN onWay |-> Shown(Tail(onWay[i]))]
             last   == Len(printed[r])
  <2>1. InTune(r)
    BY DEF ReceiversInTune, Good, Plain
  <2>2. /\ said[r] \in Seq(PlainEntry) /\ Follows(printed[r], <<>>, said[r], current[r], r \in dropped)
        /\ IsSeq(printed[r])
    BY <2>1 DEF InTune, Shows
  <2>3. last <= Len(said[r]) /\ \A i \in 1..last : printed[r][i] = said[r][i] \/ (r \in dropped /\ i = last)
    <3>1. last \in Nat /\ Len(<<>>) = 0
      BY <2>2 DEF IsSeq
    <3> QED
      BY <2>2, <3>1 DEF Follows
  <2>4. ASSUME r \notin left \cup dropped PROVE all = said[r]
    <3>1. pc[r] # "done" /\ worker[r] # "gone"
      BY <2>4 DEF Wires, Closed, Clients
    <3>2. \/ Quiet(r) /\ (down[r] = <<>> \/ (down[r] = <<Ok>> /\ pc[r] = "login"))
          \/ Carries(r) /\ worker[r] = "deliver" /\ (pc[r] = "listen" \/ down[r] # <<>>)
      BY <2>1, <3>1 DEF InTune, BeforeLogin, AtLogin, AtJoin, AtListen
    <3>3. CASE Quiet(r) /\ (down[r] = <<>> \/ (down[r] = <<Ok>> /\ pc[r] = "login"))
      <4>1. \A x : Tail(<<x>>) = <<>> /\ <<x>> # <<>>
        OBVIOUS
      <4>2. behind = <<>>
        BY <3>3, <4>1
      <4> HIDE DEF behind
      <4>3. onWay = <<>>
        BY <3>3, <4>2 DEF Quiet
      <4> HIDE DEF onWay
      <4>4. all = <<>> \o [i \in {} |-> Shown(Tail(onWay[i]))]
        BY <3>3, <4>3 DEF Quiet
      <4>5. [i \in {} |-> Shown(Tail(onWay[i]))] = <<>>
        OBVIOUS
      <4> QED
        BY <3>3, <4>4, <4>5 DEF Quiet
    <3>4. CASE Carries(r) /\ worker[r] = "deliver" /\ (pc[r] = "listen" \/ down[r] # <<>>)
      <4>0. (r \in dropped) = FALSE
        BY <2>4
      <4>1. behind = Behind(r)
        BY <3>4 DEF Behind
      <4>2. onWay = OnWay(r)
        BY <4>1 DEF OnWay
      <4>3. /\ current[r] \in CleanData /\ Len(current[r]) = 1
            /\ Follows(printed[r], onWay, said[r], current[r], FALSE)
            /\ Len(printed[r]) + Len(onWay) = Len(said[r])
        BY <3>4, <4>0, <4>2 DEF Carries, Good, Plain
      <4>4. onWay \in Seq(CleanData)
        <5>1. down[r] \in Seq(CleanData) /\ queue[r] \in Seq(CleanData)
          BY <3>4 DEF Carries
        <5>2. Behind(r) \in Seq(CleanData)
          BY <3>4, <5>1 DEF Behind
        <5> QED
          BY <4>2, <5>1, <5>2 DEF OnWay
      <4>5. printed[r] \in Seq(PlainEntry)
        <5>1. PICK S : printed[r] \in Seq(S)
          BY <2>2 DEF IsSeq
        <5>2. \A i \in 1..Len(printed[r]) : printed[r][i] = said[r][i] /\ i \in 1..Len(said[r])
          BY <2>2, <2>3, <2>4, <5>1
        <5>3. \A i \in 1..Len(printed[r]) : printed[r][i] \in PlainEntry
          BY <2>2, <5>2
        <5> QED
          BY <5>1, <5>3
      <4> HIDE DEF onWay
      <4> QED
        BY <2>2, <4>3, <4>4, <4>5, AllShown
    <3> QED
      BY <3>2, <3>3, <3>4
  <2> QED
    BY <2>3, <2>4
<1> QED
  BY <1>1, <1>2, <1>3, PTL DEF Spec
=============================================================================
