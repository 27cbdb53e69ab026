----------------------------- MODULE MCFraming -----------------------------
(* An instance of Framing for TLC. *)
EXTENDS Framing

\* In a buffer of six characters a line of five fits: the second one just so.
\* The others end in a carriage return, contain a NUL, are one too long and,
\* with a colon beyond the cut, two too long.
MCMessages ==
    {[tag |-> <<"t">>, data |-> d] :
        d \in {<<"a">>, <<"a", Colon>>, <<"a", Return>>, <<Nul, "a">>,
               <<"a", "a", "a">>, <<"a", "a", "a", Colon>>}}
=============================================================================
