----------------------------- MODULE MCFixpoint -----------------------------
(***************************************************************************)
(* Fixpoint with three objects, of which the caller sets two.              *)
(***************************************************************************)
EXTENDS Fixpoint

CONSTANTS x, y, z

\* The least, the next and the greatest part in every combination, and the only
\* two magnitudes whose product overflows in the carries alone.
MCGiven == ({0, 1, 3} \X {0, 1, 3}) \cup {<<1, 2>>, <<2, 3>>}

\* Every string of up to three characters, and longer ones up to the longest
\* that denotes a number and past the most digits that a part may have; a minus
\* sign before each.
Unsigned == UNION {[1..n -> Chars] : n \in 0..3}
            \cup UNION {[1..n -> {1, Point}] : n \in 4..6}
MCTexts  == Unsigned \cup {<<Minus>> \o s : s \in Unsigned}

\* The objects that the caller sets are alike.
Symmetry == Permutations({x, y})
=============================================================================
