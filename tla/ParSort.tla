------------------------------ MODULE ParSort ------------------------------
(***************************************************************************)
(* The parallel quicksort of csf_assign04/parsort.c: a tree of processes   *)
(* that sort segments of one file, mapped by all of them.  A process is    *)
(* named by its segment <<start, end>>, which no two calls of quicksort    *)
(* share.  One action is one system call, one iteration of partition, or a *)
(* call of qsort.                                                          *)
(*                                                                         *)
(* Below index 0 lie words that the program does not own and, at some      *)
(* point, a page that is not mapped.  Once right_index wraps it never      *)
(* comes back: left_index only grows and right_index only shrinks, so the  *)
(* process touches that page in the end.  What it writes to words that are *)
(* not in the file is left out.                                            *)
(***************************************************************************)
EXTENDS Integers, FiniteSets, FiniteSetsExt

CONSTANTS
    FileSizes,      \* sizes of the file, in bytes
    Values,         \* the words of the file,
    Junk,           \*   and those outside of it
    Thresholds,     \* par_threshold
    MaxFaults       \* bound: failed system calls and kills

ASSUME SortAssumption ==
    /\ FileSizes \subseteq Nat /\ FileSizes # {} /\ IsFiniteSet(FileSizes)
    /\ Values \subseteq Int /\ Values # {} /\ Junk \subseteq Int
    /\ Thresholds \subseteq Nat /\ MaxFaults \in Nat

VARIABLES
    file_size,
    num_elements,
    par_threshold,
    arr,            \* the mapped file
    input,          \* history: arr at the start
    pc,             \* what the process of each segment does next
    loc,            \* its locals in partition and quicksort
    reaped,         \* segments whose process was waited for
    faults          \* history: failures of the environment so far

vars == <<file_size, num_elements, par_threshold, arr, input, pc, loc, reaped, faults>>
file == <<file_size, num_elements, par_threshold, input>>

WordSize    == 8
MaxElements == Max({b \div WordSize : b \in FileSizes})
Segments    == {p \in (0..MaxElements) \X (0..MaxElements) : p[1] <= p[2]}
Root        == <<0, num_elements>>
Len(p)      == p[2] - p[1]
Indices(p)  == p[1]..(p[2] - 1)
InArray     == 0..(num_elements - 1)

\* Every index from 2^64 - 1 down to the first page that is not mapped.
Outside == 2 * MaxElements + 2

Running == {"start", "enter", "loop", "forkLeft", "forkRight", "waitLeft",
            "waitLeftOnly", "waitRight", "waitRightOnly", "unmap"}
Ended   == {"exited0", "exited1", "killed"}

NoLocals == [left |-> 0, right |-> 0, mid |-> 0, pivot |-> CHOOSE v \in Values : TRUE]

Swapped(a, i, j) == [a EXCEPT ![i] = a[j], ![j] = a[i]]

Count(a, p, v) == Cardinality({i \in Indices(p) : a[i] = v})
Permutation(a, b, p) == \A v \in Values \cup Junk : Count(a, p, v) = Count(b, p, v)

\* The test of is_sorted.c.
IsSorted(a, p) == \A i \in Indices(p) : i + 1 \in Indices(p) => a[i] <= a[i + 1]

\* What qsort makes of a segment; the rest stays.
Qsorted(a, p) ==
    LET Below(v)  == Cardinality({j \in Indices(p) : a[j] < v})
        UpTo(v)   == Cardinality({j \in Indices(p) : a[j] <= v})
        Nth(k)    == CHOOSE v \in {a[j] : j \in Indices(p)} : Below(v) <= k /\ k < UpTo(v)
    IN  [i \in DOMAIN a |-> IF i \in Indices(p) THEN Nth(i - p[1]) ELSE a[i]]

LeftOf(p)  == <<p[1], loc[p].mid>>
RightOf(p) == <<loc[p].mid + 1, p[2]>>

Goto(p, label) == pc' = [pc EXCEPT ![p] = label]

Fault == faults < MaxFaults /\ faults' = faults + 1

-----------------------------------------------------------------------------
(* Mistakes the code could have made: no definition uses them.  Each is next   *)
(* to the definition that it replaces.                                         *)

\* The status of the children is not looked at.
Returned_AlwaysOk(p, ok) == IF p = Root THEN "unmap" ELSE "exited0"

\* main unmaps the file after a success; a child exits with the result.
Returned(p, ok) == IF ~ok THEN "exited1" ELSE IF p = Root THEN "unmap" ELSE "exited0"

-----------------------------------------------------------------------------
Init ==
    /\ file_size \in FileSizes
    /\ num_elements = file_size \div WordSize
    /\ par_threshold \in Thresholds
    /\ arr \in [InArray -> Values]
    /\ input = arr
    /\ pc = [p \in Segments |-> IF p = Root THEN "start" ELSE "none"]
    /\ loc = [p \in Segments |-> NoLocals]
    /\ reaped = {}
    /\ faults = 0

\* open, fstat and mmap; mmap refuses an empty file.
MapFile ==
    /\ pc[Root] = "start"
    /\ file_size > 0
    /\ Goto(Root, "enter")
    /\ UNCHANGED <<file, arr, loc, reaped, faults>>

MapFails ==
    /\ pc[Root] = "start"
    /\ Goto(Root, "exited1")
    /\ \/ file_size = 0 /\ UNCHANGED faults
       \/ Fault
    /\ UNCHANGED <<file, arr, loc, reaped>>

Unmap ==
    /\ pc[Root] = "unmap"
    /\ \/ Goto(Root, "exited0") /\ UNCHANGED faults
       \/ Goto(Root, "exited1") /\ Fault
    /\ UNCHANGED <<file, arr, loc, reaped>>

\* quicksort of fewer than two elements.
Short(p) ==
    /\ pc[p] = "enter"
    /\ Len(p) < 2
    /\ Goto(p, Returned(p, TRUE))
    /\ UNCHANGED <<file, arr, loc, reaped, faults>>

Qsort(p) ==
    /\ pc[p] = "enter"
    /\ Len(p) >= 2 /\ Len(p) <= par_threshold
    /\ arr' = Qsorted(arr, p)
    /\ Goto(p, Returned(p, TRUE))
    /\ UNCHANGED <<file, loc, reaped, faults>>

\* A mistake: the loop starts at the pivot's place.
Partition_AtPivot(p) ==
    LET middle == p[1] + Len(p) \div 2
    IN  /\ pc[p] = "enter"
        /\ Len(p) >= 2 /\ Len(p) > par_threshold
        /\ arr' = Swapped(arr, middle, p[2] - 1)
        /\ loc' = [loc EXCEPT ![p] = [left |-> p[1], right |-> p[1] + Len(p) - 1,
                                      mid |-> 0, pivot |-> arr[middle]]]
        /\ Goto(p, "loop")
        /\ UNCHANGED <<file, reaped, faults>>

\* partition up to its loop: the middle element goes to the end.
Partition(p) ==
    LET middle == p[1] + Len(p) \div 2
    IN  /\ pc[p] = "enter"
        /\ Len(p) >= 2 /\ Len(p) > par_threshold
        /\ arr' = Swapped(arr, middle, p[2] - 1)
        /\ loc' = [loc EXCEPT ![p] = [left |-> p[1], right |-> p[1] + Len(p) - 2,
                                      mid |-> 0, pivot |-> arr[middle]]]
        /\ Goto(p, "loop")
        /\ UNCHANGED <<file, reaped, faults>>

\* A mistake: right_index stops at words equal to the pivot too.
StopsRight_OnEqual(p) == arr[loc[p].right] <= loc[p].pivot

InLoop(p)     == pc[p] = "loop" /\ loc[p].left <= loc[p].right
StopsLeft(p)  == arr[loc[p].left] >= loc[p].pivot
StopsRight(p) == arr[loc[p].right] < loc[p].pivot

ScanLeft(p) ==
    /\ InLoop(p)
    /\ loc[p].left \in InArray
    /\ ~StopsLeft(p)
    /\ loc' = [loc EXCEPT ![p].left = @ + 1]
    /\ UNCHANGED <<file, arr, pc, reaped, faults>>

ScanRight(p) ==
    /\ InLoop(p)
    /\ loc[p].right \in InArray
    /\ StopsLeft(p) /\ ~StopsRight(p)
    /\ loc' = [loc EXCEPT ![p].right = IF @ = 0 THEN Outside ELSE @ - 1]
    /\ UNCHANGED <<file, arr, pc, reaped, faults>>

SwapPair(p) ==
    /\ InLoop(p)
    /\ loc[p].right \in InArray
    /\ StopsLeft(p) /\ StopsRight(p)
    /\ arr' = Swapped(arr, loc[p].left, loc[p].right)
    /\ UNCHANGED <<file, pc, loc, reaped, faults>>

\* Past the wrap a read finds a word of somebody else's, here swapped in,
Spill(p) ==
    /\ InLoop(p)
    /\ loc[p].right = Outside
    /\ loc[p].left \in InArray /\ StopsLeft(p)
    /\ \E w \in Junk : w < loc[p].pivot /\ arr' = [arr EXCEPT ![loc[p].left] = w]
    /\ UNCHANGED <<file, pc, loc, reaped, faults>>

\* or no page.
Segfault(p) ==
    /\ InLoop(p)
    /\ loc[p].right = Outside
    /\ loc[p].left \in InArray => StopsLeft(p)
    /\ Goto(p, "killed")
    /\ UNCHANGED <<file, arr, loc, reaped, faults>>

\* A mistake: the pivot is left at the end.
Place_NoSwap(p) ==
    /\ pc[p] = "loop"
    /\ loc[p].left > loc[p].right
    /\ loc' = [loc EXCEPT ![p].mid = loc[p].left]
    /\ Goto(p, "forkLeft")
    /\ UNCHANGED <<file, arr, reaped, faults>>

\* The last swap of partition puts the pivot between the two parts.
Place(p) ==
    /\ pc[p] = "loop"
    /\ loc[p].left > loc[p].right
    /\ arr' = Swapped(arr, loc[p].left, p[2] - 1)
    /\ loc' = [loc EXCEPT ![p].mid = loc[p].left]
    /\ Goto(p, "forkLeft")
    /\ UNCHANGED <<file, reaped, faults>>

ForkLeft(p) ==
    /\ pc[p] = "forkLeft"
    /\ pc' = [pc EXCEPT ![p] = "forkRight", ![LeftOf(p)] = "enter"]
    /\ UNCHANGED <<file, arr, loc, reaped, faults>>

ForkLeftFails(p) ==
    /\ pc[p] = "forkLeft"
    /\ Fault
    /\ Goto(p, Returned(p, FALSE))
    /\ UNCHANGED <<file, arr, loc, reaped>>

ForkRight(p) ==
    /\ pc[p] = "forkRight"
    /\ pc' = [pc EXCEPT ![p] = "waitLeft", ![RightOf(p)] = "enter"]
    /\ UNCHANGED <<file, arr, loc, reaped, faults>>

\* A mistake: the process gives up without waiting for its left child.
ForkRightFails_NoWait(p) ==
    /\ pc[p] = "forkRight"
    /\ Fault
    /\ Goto(p, Returned(p, FALSE))
    /\ UNCHANGED <<file, arr, loc, reaped>>

ForkRightFails(p) ==
    /\ pc[p] = "forkRight"
    /\ Fault
    /\ Goto(p, "waitLeftOnly")
    /\ UNCHANGED <<file, arr, loc, reaped>>

\* waitpid returns when the child has ended, and reaps it.
Wait(child) ==
    /\ pc[child] \in Ended
    /\ reaped' = reaped \cup {child}

WaitLeftOnly(p) ==
    /\ pc[p] = "waitLeftOnly"
    /\ Wait(LeftOf(p))
    /\ Goto(p, Returned(p, FALSE))
    /\ UNCHANGED <<file, arr, loc, faults>>

WaitLeft(p) ==
    /\ pc[p] = "waitLeft"
    /\ Wait(LeftOf(p))
    /\ Goto(p, "waitRight")
    /\ UNCHANGED <<file, arr, loc, faults>>

WaitRight(p) ==
    /\ pc[p] = "waitRight"
    /\ Wait(RightOf(p))
    /\ Goto(p, Returned(p, pc[LeftOf(p)] = "exited0" /\ pc[RightOf(p)] = "exited0"))
    /\ UNCHANGED <<file, arr, loc, faults>>

\* With SIGCHLD ignored, as a parent may leave it to the program, waitpid fails when
\* the child has ended, which the kernel has then reaped; the processes catch no
\* signal that could cut it short.  After the first failure both are waited for.
WaitLeftFails(p) ==
    /\ pc[p] = "waitLeft"
    /\ Wait(LeftOf(p))
    /\ Fault
    /\ Goto(p, "waitRightOnly")
    /\ UNCHANGED <<file, arr, loc>>

WaitRightFails(p) ==
    /\ pc[p] = "waitRight"
    /\ Wait(RightOf(p))
    /\ Fault
    /\ Goto(p, Returned(p, FALSE))
    /\ UNCHANGED <<file, arr, loc>>

WaitRightOnly(p) ==
    /\ pc[p] = "waitRightOnly"
    /\ Wait(RightOf(p))
    /\ Goto(p, Returned(p, FALSE))
    /\ UNCHANGED <<file, arr, loc, faults>>

\* A process can be killed at any time; its children run on.
Kill(p) ==
    /\ pc[p] \in Running
    /\ Fault
    /\ Goto(p, "killed")
    /\ UNCHANGED <<file, arr, loc, reaped>>

PartitionStep(p) ==
    Partition(p) \/ ScanLeft(p) \/ ScanRight(p) \/ SwapPair(p) \/ Spill(p) \/ Segfault(p)
    \/ Place(p)
ForkStep(p) == ForkLeft(p) \/ ForkLeftFails(p) \/ ForkRight(p) \/ ForkRightFails(p)
WaitStep(p) ==
    WaitLeftOnly(p) \/ WaitLeft(p) \/ WaitRight(p)
    \/ WaitLeftFails(p) \/ WaitRightFails(p) \/ WaitRightOnly(p)
Step(p)     == Short(p) \/ Qsort(p) \/ PartitionStep(p) \/ ForkStep(p) \/ WaitStep(p)

Main == MapFile \/ MapFails \/ Unmap

Next == Main \/ \E p \in Segments : Step(p) \/ Kill(p)

Spec == Init /\ [][Next]_vars

\* The kernel schedules every process; nothing makes it kill one.
FairSpec == Spec /\ WF_vars(Main) /\ \A p \in Segments : WF_vars(Step(p))

-----------------------------------------------------------------------------
(* Properties *)

Locals == [left : Nat, right : Nat, mid : Nat, pivot : Values \cup Junk]

\* The type invariant; a process stays within its segment until it strays.
TypeOK ==
    /\ num_elements \in 0..MaxElements /\ par_threshold \in Thresholds
    /\ arr \in [InArray -> Values \cup Junk] /\ input \in [InArray -> Values]
    /\ pc \in [Segments -> Running \cup Ended \cup {"none"}]
    /\ loc \in [Segments -> Locals]
    /\ reaped \subseteq {p \in Segments : pc[p] \in Ended}
    /\ faults \in 0..MaxFaults
    /\ \A p \in Segments : pc[p] = "loop" /\ loc[p].right # Outside =>
          loc[p].left \in p[1]..(p[2] - 1) /\ loc[p].right <= p[2] - 2

Strayed    == {p \in Segments : loc[p].right = Outside}
Forked(p) ==
    pc[p] \in {"forkRight", "waitLeft", "waitLeftOnly", "waitRight", "waitRightOnly"}
Exited(p)  == pc[p] \in {"exited0", "exited1"}
Inside(p, q) == q[1] <= p[1] /\ p[2] <= q[2]

\* The exit status tells the truth: after a 0 the file is the input, sorted, and no
\* process is left, not even of a killed one, that could still write to it; an error
\* means that something failed or the file is empty: it is not for some order of the
\* processes.
ExitStatusIsTrue ==
    /\ pc[Root] = "exited0" =>
          /\ IsSorted(arr, Root) /\ Permutation(arr, input, Root)
          /\ \A p \in Segments : pc[p] \notin Running
    /\ pc[Root] \in {"exited1", "killed"} =>
          faults > 0 \/ Strayed # {} \/ file_size = 0

\* While the children of p sort their parts at the same time, the pivot stays in
\* its place between smaller words and words that are not.
SplitHolds ==
    \A p \in Segments : pc[p] \in {"forkLeft"} \/ Forked(p) =>
        \/ Strayed # {}
        \/ /\ arr[loc[p].mid] = loc[p].pivot
           /\ \A i \in Indices(LeftOf(p)) : arr[i] < loc[p].pivot
           /\ \A i \in Indices(RightOf(p)) : arr[i] >= loc[p].pivot

\* When a process has exited, what still runs in its segment descends from one
\* that was killed, and its own children are no zombies.
NothingLeftBehind ==
    \A p \in Segments : Exited(p) =>
        /\ \A c \in Segments : pc[c] \in Running /\ Inside(c, p) =>
              \E k \in Segments : pc[k] = "killed" /\ Inside(c, k) /\ Inside(k, p)
        /\ \A c \in {LeftOf(p), RightOf(p)} :
              Len(p) >= 2 /\ Len(p) > par_threshold /\ pc[c] # "none" => c \in reaped

\* Some process always ends the program, whatever fails.
Terminates == <>(pc[Root] \in Ended)

\* partition "swaps 2 values in the array" (parsort.c:74).
SwapsInArray ==
    [][\A p \in Segments : SwapPair(p) \/ Spill(p) =>
          {loc[p].left, loc[p].right} \subseteq InArray]_vars
=============================================================================
