---------------------------- MODULE PieceStream ----------------------------
(***************************************************************************)
(* What one direction of a Connection of csf_assign05 promises, without    *)
(* system calls or buffers: every line that is sent comes out in order, in *)
(* the pieces that a receiver with a buffer of fixed length sees, nothing  *)
(* missing and nothing twice, until the connection ends.  Then the pieces  *)
(* from some point on are lost, and the last one left may be cut short.    *)
(***************************************************************************)
EXTENDS Naturals, Sequences

CONSTANTS
    Lines,      \* the lines that may be sent, sequences of characters
    MaxPiece    \* the longest piece a receiver takes

VARIABLES
    stream,     \* the pieces under way, oldest first
    heard,      \* the pieces received
    over        \* whether the connection has ended

vars == <<stream, heard, over>>

\* A line in pieces of at most MaxPiece characters.
Pieces(text) ==
    LET n == (Len(text) + MaxPiece - 1) \div MaxPiece
        End(i) == IF i = n THEN Len(text) ELSE i * MaxPiece
    IN  [i \in 1..n |-> SubSeq(text, (i - 1) * MaxPiece + 1, End(i))]

Init == stream = <<>> /\ heard = <<>> /\ ~over

Say(text) ==
    /\ ~over
    /\ stream' = stream \o Pieces(text)
    /\ UNCHANGED <<heard, over>>

Hear ==
    /\ stream # <<>>
    /\ heard' = Append(heard, Head(stream))
    /\ stream' = Tail(stream)
    /\ UNCHANGED over

\* The connection ends or breaks: all pieces from some point on are lost, and of
\* one piece a beginning may be left.
Cut ==
    /\ over'
    /\ \E n \in 0..Len(stream) :
          \/ stream' = SubSeq(stream, 1, n)
          \/ /\ n > 0
             /\ \E k \in 1..Len(stream[n]) :
                   stream' = Append(SubSeq(stream, 1, n - 1),
                                    SubSeq(stream[n], 1, k))
    /\ UNCHANGED heard

Next == (\E text \in Lines : Say(text)) \/ Hear \/ Cut

Spec == Init /\ [][Next]_vars
=============================================================================
