----------------------------- MODULE MCImgTool -----------------------------
(* Instances of ImgTool for TLC. *)
EXTENDS ImgTool

\* Pixels whose differences tie with opposite signs, exceed what can be added to
\* or taken from 128, or come from any one of the components.
A == <<0, 0, 255, 255>>
B == <<100, 200, 0, 5>>
C == <<200, 100, 60, 128>>

Img(w, data) == [width |-> w, height |-> Len(data) \div w, data |-> data]

\* Every image of two by two of these, some of one row or column, and larger
\* ones, even and odd, with room for an ellipse.
Squares == {Img(2, data) : data \in [1..4 -> {A, B, C}]}
Thin    == {Img(1, <<A>>), Img(1, <<A, B, C>>), Img(3, <<C, A, B>>)}
Large   == {Img(w, [i \in 1..(w * h) |-> IF i % 3 = 1 THEN A ELSE IF i % 3 = 2 THEN B ELSE C]) :
               w \in 3..5, h \in 3..4}

Color(p, n)  == SubSeq(p, 1, n)
Lines(img, n) ==
    [k \in 1..img.height |->
        FlattenSeq([j \in 1..img.width |-> Color(At(img, k - 1, j - 1), n)])]
Opaque(img) == [img EXCEPT !.data = [i \in DOMAIN @ |-> Append(Color(@[i], 3), 255)]]

\* An image as another program may store it.
Rgba(img, filters, cuts, ancillary) ==
    [picture |-> img,
     file |-> Foreign(Header(img.width, img.height, "truecolor_alpha"),
                      Stored(Lines(img, 4), filters, 4), cuts, ancillary)]
Rgb(img, filters, cuts, ancillary) ==
    [picture |-> Opaque(img),
     file |-> Foreign(Header(img.width, img.height, "truecolor"),
                      Stored(Lines(img, 3), filters, 3), cuts, ancillary)]

Plain(img) == Rgba(img, [k \in 1..img.height |-> 0], <<>>, FALSE)

\* Every filter on a first line and below, in one piece and in several.
Mixed == Img(2, <<B, C, A, B, C, C>>)
FilteredInputs ==
    {Rgba(Mixed, <<f, g, h>>, <<>>, FALSE) : f, g, h \in 0..4}
    \cup {Rgb(Mixed, <<f, g, 4>>, <<2, 9>>, TRUE) : f, g \in 0..4}

\* Files cut anywhere, and kinds of files that are refused.
Cut(i) == {[picture |-> IF k < Len(i.file) - 1 THEN Broken ELSE i.picture,
            file |-> SubSeq(i.file, 1, k)] : k \in 0..(Len(i.file) - 1)}
Refused ==
    {[picture |-> Broken,
      file |-> Foreign(h, Stored(Lines(Mixed, 4), <<0, 0, 0>>, 4), <<>>, FALSE)] :
         h \in {Header(2, 3, "indexed"), Header(2, 3, "greyscale"),
                [Header(2, 3, "truecolor_alpha") EXCEPT !.depth = 16],
                [Header(2, 3, "truecolor_alpha") EXCEPT !.interlaced = TRUE]}}

\* A line of a filter type that is not known, and what a run without memory for
\* compress leaves.
Odd ==
    {[picture |-> Broken, file |-> file] :
        file \in {Foreign(Header(2, 3, "truecolor_alpha"),
                         [Stored(Lines(Mixed, 4), <<0, 2, 1>>, 4) EXCEPT ![k] = 5], <<>>, FALSE) :
                     k \in {1, 10, 19}}
                 \cup {Write_ihdr(Header(2, 3, "truecolor_alpha")) \o Write_nothing}}

MCInputs ==
    {Plain(img) : img \in Squares \cup Thin \cup Large} \cup FilteredInputs
    \cup UNION {Cut(i) : i \in {Plain(Mixed), Rgb(Mixed, <<1, 2, 4>>, <<2, 9>>, TRUE)}}
    \cup Refused \cup Odd \cup {[picture |-> Broken, file |-> NoFile]}

\* No output file yet, or an earlier picture.
MCOlds == {NoFile, Plain(Img(1, <<B>>)).file}
=============================================================================
