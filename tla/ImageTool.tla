----------------------------- MODULE ImageTool -----------------------------
(***************************************************************************)
(* What the image program of csf_assign02 promises its user: it computes   *)
(* what imgproc.h says from the picture in the input file, opens the       *)
(* output file only when it has done so, and reports success only with the *)
(* result in that file, unless the disk was full or memory short.          *)
(***************************************************************************)
CONSTANTS
    Files,               \* the names of the files
    None, Broken,        \* what a file holds: nothing, no picture, or a picture
    Documented(_, _)     \* is the second picture what a transformation makes of the first?

VARIABLES
    disk,    \* what each file holds
    result,  \* the picture computed, or None; gone when the program ends
    target,  \* the file opened for output, or "none"
    short,   \* of room on the disk, or of memory to write
    outcome  \* "running", or how the program ended

vars == <<disk, result, target, short, outcome>>

Init ==
    /\ DOMAIN disk = Files
    /\ result = None /\ target = "none" /\ short = FALSE /\ outcome = "running"

Compute ==
    /\ result = None /\ disk["in"] \notin {None, Broken}
    /\ result' # None /\ Documented(disk["in"], result')
    /\ UNCHANGED <<disk, target, short, outcome>>

Open ==
    /\ result # None /\ target = "none"
    /\ target' \in Files
    /\ disk' = [disk EXCEPT ![target'] = Broken]
    /\ UNCHANGED <<result, short, outcome>>

RunShort == ~short /\ short' = TRUE /\ UNCHANGED <<disk, result, target, outcome>>

Write ==
    /\ target # "none" /\ ~short
    /\ disk' = [disk EXCEPT ![target] = result]
    /\ short' \in BOOLEAN
    /\ UNCHANGED <<result, target, outcome>>

End ==
    /\ outcome' \in {"ok", "error", "crashed"}
    /\ outcome' = "ok" => target # "none" /\ (short \/ disk[target] = result)
    /\ result' = None
    /\ UNCHANGED <<disk, target, short>>

Next == outcome = "running" /\ (Compute \/ Open \/ RunShort \/ Write \/ End)

Spec == Init /\ [][Next]_vars
=============================================================================
