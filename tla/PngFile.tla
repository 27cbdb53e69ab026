------------------------------ MODULE PngFile ------------------------------
(***************************************************************************)
(* PNG files as pnglite.c reads and writes them, for csf_assign02.         *)
(*                                                                         *)
(* A file is the sequence of the items that are read at a time: the        *)
(* signature, the IHDR chunk's type with its fields, and of the other      *)
(* chunks the length, the type, the data and the CRC.  Compression is the  *)
(* identity here: zlib gives back what it was given.  A file that is cut   *)
(* short is a prefix.  Sizes fit in 32 bits: a picture has fewer than      *)
(* 2^31 / 3 pixels (image.c:66).                                           *)
(***************************************************************************)
EXTENDS Integers, Sequences, SequencesExt

Signature   == [is |-> "signature"]
Length(n)   == [is |-> "length", n |-> n]
Crc         == [is |-> "crc"]
Type(t)     == [is |-> "type", type |-> t]
Data(bytes) == [is |-> "data", bytes |-> bytes]

\* A chunk of other type than IHDR.
Chunk(t, bytes) == <<Length(Len(bytes)), Type(t), Data(bytes), Crc>>
IEND            == <<Length(0), Type("IEND"), Crc>>

\* png_get_bpp for a depth of eight bits; indexed colours are not supported.
BytesPerPixel ==
    [greyscale |-> 1, truecolor |-> 3, greyscale_alpha |-> 2, truecolor_alpha |-> 4]

Header(w, h, color) ==
    [is |-> "IHDR", width |-> w, height |-> h, color |-> color, depth |-> 8,
     interlaced |-> FALSE]

Supported(header) ==
    /\ header.color # "indexed"
    /\ header.depth \in {8, 16}
    /\ ~header.interlaced

\* The length of the image data with the filter type in front of each line.
DataLength(header) ==
    header.width * header.height * BytesPerPixel[header.color] + header.height

Byte(n) == n % 256

Distance(m, n) == IF m < n THEN n - m ELSE m - n

-----------------------------------------------------------------------------
(* Filters.  prev is the line above, none if it is the first.               *)

NoLine == <<>>

Paeth(a, b, c) ==
    LET p  == a + b - c
        pa == Distance(p, a)
        pb == Distance(p, b)
        pc == Distance(p, c)
    IN  IF pa <= pb /\ pa <= pc THEN a ELSE IF pb <= pc THEN b ELSE c

\* A mistake: the line above is taken to be there.
Filter_up_NoFirstLine(in, prev) ==
    IF prev = NoLine THEN [i \in DOMAIN in |-> 0] ELSE [i \in DOMAIN in |-> Byte(in[i] + prev[i])]

Filter_sub(stride, in) ==
    LET out[i \in DOMAIN in] == Byte(in[i] + (IF i > stride THEN out[i - stride] ELSE 0))
    IN  SubSeq(out, 1, Len(in))

Filter_up(in, prev) ==
    IF prev = NoLine THEN in ELSE [i \in DOMAIN in |-> Byte(in[i] + prev[i])]

Filter_average(stride, in, prev) ==
    LET out[i \in DOMAIN in] ==
            LET a == IF i > stride THEN out[i - stride] ELSE 0
                b == IF prev # NoLine THEN prev[i] ELSE 0
            IN  Byte(in[i] + (a + b) \div 2)
    IN  SubSeq(out, 1, Len(in))

Filter_paeth(stride, in, prev) ==
    LET out[i \in DOMAIN in] ==
            LET a == IF i > stride THEN out[i - stride] ELSE 0
                b == IF prev # NoLine THEN prev[i] ELSE 0
                c == IF prev # NoLine /\ i > stride THEN prev[i - stride] ELSE 0
            IN  Byte(in[i] + Paeth(a, b, c))
    IN  SubSeq(out, 1, Len(in))

\* png_unfilter stops at a line of another type, the rest of it done for nothing.
FiltersKnown(header, filtered) ==
    LET size == header.width * BytesPerPixel[header.color]
    IN  \A k \in 0..(header.height - 1) : filtered[k * (size + 1) + 1] \in 0..4

\* The lines of the picture, from the filtered bytes.
Unfilter(header, filtered) ==
    LET stride == BytesPerPixel[header.color]
        size   == header.width * stride
        line[k \in 0..header.height] ==
            IF k = 0 THEN NoLine
            ELSE LET pos  == (k - 1) * (size + 1) + 1
                     in   == SubSeq(filtered, pos + 1, pos + size)
                     prev == line[k - 1]
                 IN  CASE filtered[pos] = 0 -> in
                       [] filtered[pos] = 1 -> Filter_sub(stride, in)
                       [] filtered[pos] = 2 -> Filter_up(in, prev)
                       [] filtered[pos] = 3 -> Filter_average(stride, in, prev)
                       [] filtered[pos] = 4 -> Filter_paeth(stride, in, prev)
    IN  FlattenSeq([k \in 1..header.height |-> line[k]])

-----------------------------------------------------------------------------
(* What a file is written in: the items of each call of file_write.         *)

\* Every line without a filter.
Filtered(header, bytes) ==
    LET size == header.width * BytesPerPixel[header.color]
        line(k) == <<0>> \o SubSeq(bytes, (k - 1) * size + 1, k * size)
    IN  FlattenSeq([k \in 1..header.height |-> line(k)])

Write_ihdr(header) == <<Signature, Length(13), header, Crc>>
Write_idats(header, bytes) == Chunk("IDAT", Filtered(header, bytes)) \o IEND

\* What compress leaves when it fails: no data (or, before zlib 1.2.9, bytes that
\* do not inflate), in a chunk like any other.
Write_nothing == Chunk("IDAT", <<>>) \o IEND

-----------------------------------------------------------------------------
(* Files that other programs write, as the PNG standard has them: a line x   *)
(* of type f is stored as the differences from what is predicted from the    *)
(* pixel to the left, the one above and the one above to the left.           *)

Predicted(f, a, b, c) ==
    CASE f = 0 -> 0
      [] f = 1 -> a
      [] f = 2 -> b
      [] f = 3 -> (a + b) \div 2
      [] f = 4 -> LET Away(n) == Distance(a + b, n + c)
                  IN  IF \A n \in {b, c} : Away(a) <= Away(n) THEN a
                      ELSE IF Away(b) <= Away(c) THEN b ELSE c

\* The lines are given as sequences of bytes, the filters one for each.
Stored(lines, filters, stride) ==
    LET raw(k, i) == IF k < 1 \/ i < 1 THEN 0 ELSE lines[k][i]
        line(k) == <<filters[k]>> \o [i \in DOMAIN lines[k] |->
            (raw(k, i) + 256 - Predicted(filters[k], raw(k, i - stride), raw(k - 1, i),
                                         raw(k - 1, i - stride))) % 256]
    IN  FlattenSeq([k \in DOMAIN lines |-> line(k)])

\* Chunks that need not be there may stand before and between the image data,
\* which may come in several chunks.
Foreign(header, stored, cuts, ancillary) ==
    LET part(i) == SubSeq(stored, IF i = 1 THEN 1 ELSE cuts[i - 1] + 1,
                          IF i > Len(cuts) THEN Len(stored) ELSE cuts[i])
    IN  Write_ihdr(header)
        \o (IF ancillary THEN Chunk("tEXt", <<1>>) ELSE <<>>)
        \o FlattenSeq([i \in 1..(Len(cuts) + 1) |-> Chunk("IDAT", part(i))])
        \o IEND
=============================================================================
