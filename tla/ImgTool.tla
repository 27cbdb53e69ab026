------------------------------ MODULE ImgTool ------------------------------
(***************************************************************************)
(* The image program of csf_assign02, one run from start to exit: main     *)
(* (c_imgproc_main.c), img_read and img_write (image.c) and pnglite under  *)
(* them.  Any allocation and any opening of a file may fail, the disk may  *)
(* be full, and the program may be killed, which loses what stdio holds    *)
(* back.  The command line is chosen where it is looked at.                *)
(***************************************************************************)
EXTENDS ImgProc, PngFile

CONSTANTS
    Inputs,        \* input files, each with the picture in it
    Olds,          \* output files as they may be before
    LittleEndian   \* the machine's byte order

ASSUME EndianAssumption == LittleEndian \in BOOLEAN

None   == [none |-> TRUE]
Broken == [broken |-> TRUE]
NoFile == <<[is |-> "none"]>>

VARIABLES
    pc,      \* where main is, or how it ended
    disk,    \* the input and the output file, by name
    pos,     \* the input file's position
    header,  \* the fields of png_t that png_read_ihdr sets
    got,     \* png_data as far as it is inflated
    input, output,  \* input_img and output_img, None while not allocated
    target,  \* the name of the output file, once opened
    pending, \* what stdio holds back of the output
    short,   \* "nothing", or what the output fell short of: memory or room
    source   \* history: the picture in the input file

vars == <<pc, disk, pos, header, got, input, output, target, pending, short, source>>

Ended == {"ok", "error", "crashed"}

Init ==
    /\ pc = "start"
    /\ \E i \in Inputs : source = i.picture
                      /\ disk \in {[in |-> i.file, out |-> o] : o \in Olds}
    /\ pos = 0 /\ header = None /\ got = <<>>
    /\ input = None /\ output = None /\ target = "none" /\ pending = <<>>
    /\ short = "nothing"

End(how) == pc' = how

-----------------------------------------------------------------------------
(* img_read *)

\* Four bytes of memory as a uint32_t, the most significant component first.
Word(bytes) == IF LittleEndian THEN Reverse(bytes) ELSE bytes
Byteswap(p) == Reverse(p)

FromBytes(h, b) ==
    IF h.color = "truecolor" THEN Append(b, 255)
    ELSE IF LittleEndian THEN Byteswap(Word(b)) ELSE Word(b)

Picture(h, bytes) ==
    LET n == BytesPerPixel[h.color]
        pixel(i) == FromBytes(h, SubSeq(bytes, (i - 1) * n + 1, i * n))
    IN  [width |-> h.width, height |-> h.height,
         data  |-> [i \in 1..(h.width * h.height) |-> pixel(i)]]

Truecolor(h) == h.color \in {"truecolor", "truecolor_alpha"} /\ h.depth = 8

\* malloc, fopen, png_open_read and the test of the colour type.  At the end of
\* the file png_read_ihdr compares with a CRC that it has not read.
OpenRead ==
    /\ pc = "start"
    /\ \/ End("error") /\ UNCHANGED <<pos, header>>
       \/ LET file == disk["in"]
          IN  /\ Len(file) >= 3 /\ file[1] = Signature
              /\ Supported(file[3]) /\ Truecolor(file[3])
              /\ header' = file[3] /\ pos' = 5
              /\ pc' = "chunks"
    /\ UNCHANGED <<disk, got, input, output, target, pending, short, source>>

\* inflate must take all it is given, and reports no progress on nothing.
Inflates(bytes) == bytes # <<>> /\ Len(got) + Len(bytes) <= DataLength(header)

Next_is(i, t) == pos + i <= Len(disk["in"]) /\ disk["in"][pos + i] = Type(t)
There(i)      == pos + i <= Len(disk["in"])

\* A mistake: the end of the file is not noticed when a chunk's type is read.
Chunk_NoEnd ==
    /\ pc = "chunks" /\ ~Next_is(1, "IEND")
    /\ \/ /\ Next_is(1, "IDAT") /\ There(2) /\ Inflates(disk["in"][pos + 2].bytes)
          /\ got' = got \o disk["in"][pos + 2].bytes /\ pos' = pos + 4
          /\ UNCHANGED pc
       \/ /\ ~Next_is(1, "IDAT")
          /\ pos' = IF There(4) THEN pos + 4 ELSE pos
          /\ UNCHANGED <<pc, got>>
       \/ Next_is(1, "IDAT") /\ End("error") /\ UNCHANGED <<pos, got>>
    /\ UNCHANGED <<disk, header, input, output, target, pending, short, source>>

\* png_process_chunk: image data are read, checked and inflated, which may fail
\* for want of memory too; other chunks are passed over, beyond the end as well.
ProcessChunk ==
    /\ pc = "chunks" /\ ~Next_is(1, "IEND")
    /\ \/ /\ Next_is(1, "IDAT") /\ There(2)
          /\ Inflates(disk["in"][pos + 2].bytes)
          /\ got' = got \o disk["in"][pos + 2].bytes
          /\ pos' = pos + 4
          /\ UNCHANGED pc
       \/ /\ There(1) /\ ~Next_is(1, "IDAT")
          /\ pos' = pos + 4
          /\ UNCHANGED <<pc, got>>
       \/ /\ ~There(1) \/ Next_is(1, "IDAT")
          /\ End("error") /\ UNCHANGED <<pos, got>>
    /\ UNCHANGED <<disk, header, input, output, target, pending, short, source>>

\* The rest of png_get_data and of img_read.  Their buffers of pixels are used
\* without a test, so that the program dies if there was no memory for them.
FinishRead ==
    /\ pc = "chunks" /\ Next_is(1, "IEND")
    /\ \/ End("crashed") /\ UNCHANGED input
       \/ ~FiltersKnown(header, got) /\ End("error") /\ UNCHANGED input
       \/ /\ FiltersKnown(header, got)
          /\ input' = Picture(header, Unfilter(header, got))
          /\ pc' = "create"
    /\ UNCHANGED <<disk, pos, header, got, output, target, pending, short, source>>

-----------------------------------------------------------------------------
(* main between reading and writing *)

\* img_init makes the new image opaque black.  That of "rgb", which no
\* transformation in the table is for, would be larger and is dropped unused.
CreateOutput ==
    /\ pc = "create"
    /\ \/ End("error") /\ UNCHANGED output
       \/ /\ output' = Image(input, [row \in Rows(input), col \in Cols(input) |-> OpaqueBlack])
          /\ pc' = "apply"
    /\ UNCHANGED <<disk, pos, header, got, input, target, pending, short, source>>

\* The table has no other name; transpose refuses some images.
Apply ==
    /\ pc = "apply"
    /\ \/ \E name \in {"rgb"} \cup Names :
             /\ ~Applicable(name, input)
             /\ End("error") /\ UNCHANGED output
       \/ \E version \in Versions, name \in Names :
             /\ Applicable(name, input)
             /\ output' = Applied(version, name, input)
             /\ pc' = "open"
    /\ UNCHANGED <<disk, pos, header, got, input, target, pending, short, source>>

-----------------------------------------------------------------------------
(* img_write *)

\* Opening for writing empties the file, which may be the input file.
OpenWrite ==
    /\ pc = "open"
    /\ \/ /\ target' \in DOMAIN disk
          /\ disk' = [disk EXCEPT ![target'] = <<>>]
          /\ pc' = "swap"
       \/ End("error") /\ UNCHANGED <<disk, target>>
    /\ UNCHANGED <<pos, header, got, input, output, pending, short, source>>

\* The copy in the file's byte order; without memory for it an error is
\* reported, without memory for png_set_data's own copy the program dies.
Swap ==
    /\ pc = "swap"
    /\ pc' \in {"header", "crashed"} \cup {how \in {"error"} : LittleEndian}
    /\ UNCHANGED <<disk, pos, header, got, input, output, target, pending, short, source>>

OutHeader == Header(output.width, output.height, "truecolor_alpha")

OutBytes_NoSwap ==                            \* a mistake: the bytes of memory
    FlattenSeq([i \in DOMAIN output.data |-> Word(output.data[i])])
OutBytes ==
    FlattenSeq([i \in DOMAIN output.data |->
        LET p == output.data[i] IN IF LittleEndian THEN Word(Byteswap(p)) ELSE Word(p)])

\* Some of what is held back and of the items goes to the disk now; what finds no
\* room is lost.  Nobody looks at what file_write returns.
Put(items, otherwise) ==
    IF short = "room" THEN UNCHANGED <<disk, pending, short>>
    ELSE LET all == pending \o items
         IN  \E k \in 0..Len(all) :
                /\ disk' = [disk EXCEPT ![target] = @ \o SubSeq(all, 1, k)]
                /\ pending' = SubSeq(all, k + 1, Len(all))
                /\ short' \in {otherwise} \cup {s \in {"room"} : k < Len(all)}

WriteHeader ==
    /\ pc = "header"
    /\ Put(Write_ihdr(OutHeader), short)
    /\ pc' = "data"
    /\ UNCHANGED <<pos, header, got, input, output, target, source>>

\* Without memory for the compressed data the program dies; if compress has none
\* to work in, what it returns is not looked at.
WriteData ==
    /\ pc = "data"
    /\ \/ End("crashed") /\ UNCHANGED <<disk, pending, short>>
       \/ Put(Write_idats(OutHeader, OutBytes), short) /\ pc' = "close"
       \/ Put(Write_nothing, "memory") /\ pc' = "close"
    /\ UNCHANGED <<pos, header, got, input, output, target, source>>

\* fclose writes the rest, with no look at its result either.
Close ==
    /\ pc = "close"
    /\ Put(<<>>, short)
    /\ pending' # <<>> => short' = "room"
    /\ pc' = "exit"
    /\ UNCHANGED <<pos, header, got, input, output, target, source>>

\* png_set_data always returns PNG_NO_ERROR.
Exit ==
    /\ pc = "exit"
    /\ End("ok")
    /\ UNCHANGED <<disk, pos, header, got, input, output, target, pending, short, source>>

-----------------------------------------------------------------------------
Step ==
    \/ OpenRead \/ ProcessChunk \/ FinishRead \/ CreateOutput \/ Apply
    \/ OpenWrite \/ Swap \/ WriteHeader \/ WriteData \/ Close \/ Exit

Kill ==
    /\ pc \notin Ended
    /\ End("crashed")
    /\ UNCHANGED <<disk, pos, header, got, input, output, target, pending, short, source>>

Next == Step \/ Kill

Spec     == Init /\ [][Next]_vars
FairSpec == Spec /\ WF_vars(Step)

-----------------------------------------------------------------------------
(* Properties *)

\* What is read is the picture in the input file, whatever filters, chunks and
\* colour type another program wrote it with; a file that is cut short, as a run
\* on a full disk leaves it, is never taken for a picture.
ReadsWhatItHolds == input # None => input = source

\* A file with a picture in it, all of it, and which: no filter is used in what is
\* written, and one chunk.
Whole(file) ==
    /\ Len(file) > 4 /\ file[1] = Signature
    /\ Supported(file[3]) /\ Truecolor(file[3])
    /\ Type("IEND") \in Range(file)
    /\ file[7].bytes # <<>>
Held(file) == Picture(file[3], Unfilter(file[3], file[7].bytes))

\* Whoever reads the output file later gets the picture that was computed, with
\* the same pixels and whatever the machine's byte order, or finds none.
WritesWhatItMade ==
    target # "none" /\ Whole(disk[target]) => Held(disk[target]) = output

\* The program computes what imgproc.h documents, in C and in assembly, touches no
\* file before it has, writes only to the output file, and reports success only if
\* the result is there or room or memory was short.
Contents(f) ==
    IF f = target THEN IF Whole(disk[f]) THEN output ELSE Broken
    ELSE IF f = "in" THEN source ELSE disk[f]
Tool == INSTANCE ImageTool WITH
            Files <- {"in", "out"},
            Documented <- LAMBDA img, out : \E name \in Names :
                              Applicable(name, img) /\ Documents(name, img, out),
            disk <- [f \in {"in", "out"} |-> Contents(f)],
            result <- IF pc \in {"open", "swap", "header", "data", "close", "exit"} THEN output
                      ELSE None,
            short <- short # "nothing",
            outcome <- IF pc \in Ended THEN pc ELSE "running"
ImplementsImageTool == Tool!Spec

\* Every run ends; a file that ends early does not keep the program looking for
\* the next chunk.
RunEnds == <>(pc \in Ended)
=============================================================================
