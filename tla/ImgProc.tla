------------------------------ MODULE ImgProc ------------------------------
(***************************************************************************)
(* The transformations of csf_assign02, in C (c_imgproc_fns.c) and in      *)
(* assembly (asm_imgproc_fns.S), and what imgproc.h says of them.          *)
(*                                                                         *)
(* A pixel is the sequence of its four components, red first and alpha     *)
(* last; an image has its pixels in row-major order.  The products are     *)
(* those of mathematics: they fit as long as an image has fewer than 2^31  *)
(* pixels (the index, in 32 bits) and fewer than 92682 rows and columns    *)
(* (a * a in 32 bits, in the assembly); 46341 by 46341 pixels are too many. *)
(***************************************************************************)
EXTENDS Integers, Sequences, FiniteSets, FiniteSetsExt

OpaqueBlack == <<0, 0, 0, 255>>

\* Rows and columns are counted from 0.
Rows(img) == 0..(img.height - 1)
Cols(img) == 0..(img.width - 1)
Compute_index(img, row, col) == row * img.width + col + 1
At(img, row, col)  == img.data[Compute_index(img, row, col)]

\* An image of the size of another, pixel by pixel.
Image(img, pixel) ==
    [img EXCEPT !.data = [i \in DOMAIN @ |-> pixel[(i - 1) \div img.width, (i - 1) % img.width]]]

WithColor(p, r, g, b) == <<r, g, b, p[4]>>
Grey(p, v) == WithColor(p, v, v, v)

Magnitude(n) == IF n < 0 THEN -n ELSE n
Clamp(n)     == IF n < 0 THEN 0 ELSE IF n > 255 THEN 255 ELSE n

-----------------------------------------------------------------------------
\* A mistake: of differences that tie the last one wins.
StrongestDiff_LastTie(d) ==
    IF Magnitude(d[1]) > Magnitude(d[2]) /\ Magnitude(d[1]) > Magnitude(d[3]) THEN d[1]
    ELSE IF Magnitude(d[2]) > Magnitude(d[3]) THEN d[2] ELSE d[3]

-----------------------------------------------------------------------------
(* Both versions *)

Complement(img) ==
    Image(img, [row \in Rows(img), col \in Cols(img) |->
        LET p == At(img, row, col) IN WithColor(p, 255 - p[1], 255 - p[2], 255 - p[3])])

\* The pixel of row i and column j goes to row j and column i of a square.
Transpose(img) ==
    Image(img, [row \in Rows(img), col \in Cols(img) |-> At(img, col, row)])

EllipseOf(img, inside) ==
    Image(img, [row \in Rows(img), col \in Cols(img) |->
        IF <<row, col>> \in inside THEN At(img, row, col) ELSE OpaqueBlack])

\* What to add to a color for that of the neighbour above and to the left.
Diffs(img, row, col) ==
    [i \in 1..3 |-> At(img, row - 1, col - 1)[i] - At(img, row, col)[i]]

EmbossOf(img, strongest) ==
    Image(img, [row \in Rows(img), col \in Cols(img) |->
        Grey(At(img, row, col),
             IF row = 0 \/ col = 0 THEN 128 ELSE Clamp(128 + strongest[row, col]))])

-----------------------------------------------------------------------------
(* The C version *)

Is_in_ellipse(img, row, col) ==
    LET a == img.width \div 2
        b == img.height \div 2
        x == col - a
        y == row - b
    IN  IF a = 0 /\ b = 0 THEN x = 0 /\ y = 0
        ELSE IF a = 0 THEN x = 0 /\ 10000 * y * y <= b * b * 10000
        ELSE IF b = 0 THEN y = 0 /\ 10000 * x * x <= a * a * 10000
        ELSE (10000 * x * x) \div (a * a) + (10000 * y * y) \div (b * b) <= 10000

StrongestDiff(d) ==
    IF Magnitude(d[1]) >= Magnitude(d[2]) /\ Magnitude(d[1]) >= Magnitude(d[3]) THEN d[1]
    ELSE IF Magnitude(d[2]) >= Magnitude(d[3]) THEN d[2] ELSE d[3]

Ellipse(img) ==
    EllipseOf(img, {at \in Rows(img) \X Cols(img) : Is_in_ellipse(img, at[1], at[2])})
Emboss(img) ==
    EmbossOf(img, [row \in Rows(img), col \in Cols(img) |-> StrongestDiff(Diffs(img, row, col))])

-----------------------------------------------------------------------------
(* The assembly version *)

\* A divisor of zero is tested for and puts the pixel outside.
InEllipseAsm(img, row, col) ==
    LET a == img.width \div 2
        b == img.height \div 2
        x == Magnitude(col - a)
        y == Magnitude(row - b)
    IN  /\ a * a # 0 /\ b * b # 0
        /\ (10000 * (x * x)) \div (a * a) + (10000 * (y * y)) \div (b * b) <= 10000

\* The best difference so far is kept unless the next is strictly larger.
StrongestDiffAsm(d) ==
    LET green == IF Magnitude(d[2]) > Magnitude(d[1]) THEN d[2] ELSE d[1]
    IN  IF Magnitude(d[3]) > Magnitude(green) THEN d[3] ELSE green

EllipseAsm(img) ==
    EllipseOf(img, {at \in Rows(img) \X Cols(img) : InEllipseAsm(img, at[1], at[2])})
EmbossAsm(img) ==
    EmbossOf(img, [row \in Rows(img), col \in Cols(img) |-> StrongestDiffAsm(Diffs(img, row, col))])

-----------------------------------------------------------------------------
(* The table of the main program, for the version that is linked *)

Versions == {"c", "asm"}
Names    == {"complement", "transpose", "ellipse", "emboss"}

Applicable(name, img) == name \in Names /\ (name = "transpose" => img.width = img.height)

Applied(version, name, img) ==
    CASE name = "complement" -> Complement(img)
      [] name = "transpose"  -> Transpose(img)
      [] name = "ellipse"    -> IF version = "c" THEN Ellipse(img) ELSE EllipseAsm(img)
      [] name = "emboss"     -> IF version = "c" THEN Emboss(img) ELSE EmbossAsm(img)

-----------------------------------------------------------------------------
(* What imgproc.h says, pixel by pixel: the pixels that the output may have  *)
(* at a place                                                                *)

\* The largest of the differences, red before green before blue.
Documented_diff(d) ==
    LET largest == Max({Magnitude(d[i]) : i \in 1..3})
    IN  d[Min({i \in 1..3 : Magnitude(d[i]) = largest})]

\* The inequality says nothing of an image one pixel wide or high: a or b is 0.
Documented_pixels(name, img, row, col) ==
    LET p == At(img, row, col)
        a == img.width \div 2
        b == img.height \div 2
        x == Magnitude(col - a)
        y == Magnitude(row - b)
        inside == (10000 * x * x) \div (a * a) + (10000 * y * y) \div (b * b) <= 10000
        gray == Documented_diff(Diffs(img, row, col)) + 128
    IN  CASE name = "complement" -> {[i \in 1..4 |-> IF i = 4 THEN p[4] ELSE 255 - p[i]]}
          [] name = "transpose"  -> {At(img, col, row)}
          [] name = "ellipse" ->
                 IF a = 0 \/ b = 0 THEN {p, OpaqueBlack}
                 ELSE IF inside THEN {p} ELSE {OpaqueBlack}
          [] name = "emboss" ->
                 IF row = 0 \/ col = 0 THEN {<<128, 128, 128, p[4]>>}
                 ELSE {<<g, g, g, p[4]>> : g \in {Min({255, Max({0, gray})})}}

Documents(name, img, out) ==
    /\ out.width = img.width /\ out.height = img.height
    /\ \A row \in Rows(img), col \in Cols(img) :
          At(out, row, col) \in Documented_pixels(name, img, row, col)
=============================================================================
