------------------------------ MODULE Framing ------------------------------
(***************************************************************************)
(* One direction of a Connection of csf_assign05: Connection::send and the *)
(* rio_writen under it at one end of a TCP connection, Connection::receive *)
(* and the rio_readlineb and rio_read under it at the other.  One step is  *)
(* one read or write of the kernel, or what a thread does between two of   *)
(* them.  A call that EINTR interrupts is made again and changes nothing.  *)
(*                                                                         *)
(* Characters matter as the code tells them apart: newline, carriage       *)
(* return, colon, NUL and any other.                                       *)
(***************************************************************************)
EXTENDS Naturals, Sequences, SequencesExt

CONSTANTS
    Newline, Return, Colon, Nul,    \* the characters with a meaning
    Messages,   \* what may be sent: records of two sequences, tag and data
    MaxSends,   \* bound: calls of send
    BufLen,     \* size of the buffer of receive (Message::MAX_LEN + 2)
    RioSize,    \* size of rio_buf (RIO_BUFSIZE)
    KernelSize  \* what the kernel holds between write and read

ASSUME SizesAssumption ==
    /\ BufLen \in Nat /\ BufLen >= 2
    /\ RioSize \in Nat \ {0}
    /\ KernelSize \in Nat \ {0}
    /\ MaxSends \in Nat

Char == {Newline, Return, Colon, Nul} \cup
        UNION {Range(m.tag \o m.data) : m \in Messages}

ASSUME CharactersAssumption ==
    /\ Newline \notin {Return, Colon, Nul}
    /\ Return \notin {Colon, Nul} /\ Colon # Nul
    /\ Messages \subseteq [tag : Seq(Char), data : Seq(Char)]

\* Tags are constants of the programs; a text and a room to join were read as a
\* line or a part of one and lost the newline at its end.  A user name, and a
\* receiver's room, come from the command line and are not checked: one with a
\* newline in it, which would be two lines, is left out here.
ASSUME LinesAssumption ==
    \A m \in Messages : Newline \notin Range(m.tag) \cup Range(m.data)

VARIABLES
    asked,      \* the messages send was called with
    rest,       \* what rio_writen has still to write
    wire,       \* what is in the kernel
    conn,       \* open, closed by the sender, or reset
    unread,     \* rio_buf from rio_bufptr on, rio_cnt characters
    line,       \* what rio_readlineb has put into its caller's buffer
    rpc,        \* the receiver: idle, in receive, or ended
    pieces      \* what rio_readlineb returned with, one for each receive

vars == <<asked, rest, wire, conn, unread, line, rpc, pieces>>

Encode(msg) == msg.tag \o <<Colon>> \o msg.data \o <<Newline>>

\* The C string in a buffer ends at its first NUL.
CString(buf) ==
    LET nuls == {i \in DOMAIN buf : buf[i] = Nul}
    IN  IF nuls = {} THEN buf
        ELSE SubSeq(buf, 1, (CHOOSE i \in nuls : \A j \in nuls : i <= j) - 1)

\* Without the newlines and carriage returns at its end.
Strip(s) ==
    LET kept == {i \in DOMAIN s : s[i] \notin {Newline, Return}}
    IN  IF kept = {} THEN <<>>
        ELSE SubSeq(s, 1, CHOOSE i \in kept : \A j \in kept : j <= i)

NoMessage == [tag |-> <<>>, data |-> <<>>, result |-> "EOF_OR_ERROR"]

\* A mistake the code could have made: receive splits at the last colon.
Parse_LastColon(piece) ==
    LET s      == Strip(CString(piece))
        colons == {i \in DOMAIN s : s[i] = Colon}
        pos    == CHOOSE i \in colons : \A j \in colons : j <= i
    IN  IF colons = {} THEN NoMessage
        ELSE [tag |-> SubSeq(s, 1, pos - 1), data |-> SubSeq(s, pos + 1, Len(s)),
              result |-> "SUCCESS"]

\* What receive makes of a piece: tag and data around the first colon, or an
\* error, the same one as for the end of the connection.
Parse(piece) ==
    LET s      == Strip(CString(piece))
        colons == {i \in DOMAIN s : s[i] = Colon}
        pos    == CHOOSE i \in colons : \A j \in colons : i <= j
    IN  IF colons = {} THEN NoMessage
        ELSE [tag |-> SubSeq(s, 1, pos - 1), data |-> SubSeq(s, pos + 1, Len(s)),
              result |-> "SUCCESS"]

-----------------------------------------------------------------------------
(* Mistakes the code could have made.  No step of the system uses them: each *)
(* property below is violated when one replaces its definition.              *)

\* rio_writen takes a short write for a whole one.
Write_Once(k) ==
    /\ conn = "open"
    /\ k \in 1..Len(rest) /\ Len(wire) + k <= KernelSize
    /\ wire' = wire \o SubSeq(rest, 1, k)
    /\ rest' = <<>>
    /\ UNCHANGED <<asked, conn, unread, line, rpc, pieces>>

\* The loop of rio_readlineb runs for n <= maxlen.
Room_OneMore == BufLen - Len(line)

\* rio_writen waits for room for all that is left.
Write_AllOrNone(k) ==
    /\ conn = "open"
    /\ k = Len(rest) /\ k > 0 /\ Len(wire) + k <= KernelSize
    /\ wire' = wire \o rest
    /\ rest' = <<>>
    /\ UNCHANGED <<asked, conn, unread, line, rpc, pieces>>

-----------------------------------------------------------------------------
Init ==
    /\ asked = <<>> /\ rest = <<>>
    /\ wire = <<>> /\ conn = "open"
    /\ unread = <<>> /\ line = <<>>
    /\ rpc = "idle" /\ pieces = <<>>

(* The sender *)

Send(msg) ==
    /\ rest = <<>> /\ conn # "closed"
    /\ Len(asked) < MaxSends
    /\ asked' = Append(asked, msg)
    /\ rest' = Encode(msg)
    /\ UNCHANGED <<wire, conn, unread, line, rpc, pieces>>

\* write takes some of it: at least one character, at most what there is room for.
Write(k) ==
    /\ conn = "open"
    /\ k \in 1..Len(rest) /\ Len(wire) + k <= KernelSize
    /\ wire' = wire \o SubSeq(rest, 1, k)
    /\ rest' = SubSeq(rest, k + 1, Len(rest))
    /\ UNCHANGED <<asked, conn, unread, line, rpc, pieces>>

\* write fails, and with it send; the callers go on with the connection.
WriteFails ==
    /\ conn = "reset"
    /\ rest # <<>>
    /\ rest' = <<>>
    /\ UNCHANGED <<asked, wire, conn, unread, line, rpc, pieces>>

\* The sender closes its end, or dies and the kernel does, in the middle of a
\* line too: what the kernel has is still read.
Close ==
    /\ conn = "open"
    /\ conn' = "closed"
    /\ rest' = <<>>
    /\ UNCHANGED <<asked, wire, unread, line, rpc, pieces>>

\* The connection breaks; what the kernel has may be lost.
Reset ==
    /\ conn # "reset"
    /\ conn' = "reset"
    /\ wire' \in {wire, <<>>}
    /\ UNCHANGED <<asked, rest, unread, line, rpc, pieces>>

(* The receiver *)

Receive ==
    /\ rpc = "idle"
    /\ rpc' = "receive"
    /\ UNCHANGED <<asked, rest, wire, conn, unread, line, pieces>>

\* rio_read with an empty buffer: read returns what there is, up to RioSize, or
\* less.
Refill(k) ==
    /\ rpc = "receive"
    /\ unread = <<>>
    /\ k \in 1..Len(wire) /\ k <= RioSize
    /\ unread' = SubSeq(wire, 1, k)
    /\ wire' = SubSeq(wire, k + 1, Len(wire))
    /\ UNCHANGED <<asked, rest, conn, line, rpc, pieces>>

\* The characters that rio_readlineb may still store, one kept for the NUL.
Room == BufLen - 1 - Len(line)

\* What its loop takes before it must read again: up to a newline, the end of
\* rio_buf or the last character there is room for.
Taken ==
    LET stops == {i \in DOMAIN unread : unread[i] = Newline} \cup {Len(unread), Room}
    IN  CHOOSE i \in stops : \A j \in stops : i <= j

\* receive returns with a piece, after which rio_readlineb has stored a NUL.
Deliver(piece) ==
    /\ pieces' = Append(pieces, piece)
    /\ line' = <<>>
    /\ rpc' = "idle"

Consume ==
    /\ rpc = "receive"
    /\ unread # <<>>
    /\ LET read == line \o SubSeq(unread, 1, Taken)
       IN  IF unread[Taken] = Newline \/ Taken = Room
           THEN Deliver(read)
           ELSE line' = read /\ UNCHANGED <<rpc, pieces>>
    /\ unread' = SubSeq(unread, Taken + 1, Len(unread))
    /\ UNCHANGED <<asked, rest, wire, conn>>

\* read returns 0.  Characters without a newline are taken for a line; the next
\* call finds none and ends.
EndOfFile ==
    /\ rpc = "receive"
    /\ unread = <<>> /\ wire = <<>>
    /\ conn = "closed"
    /\ IF line = <<>>
       THEN rpc' = "ended" /\ UNCHANGED <<line, pieces>>
       ELSE Deliver(line)
    /\ UNCHANGED <<asked, rest, wire, conn, unread>>

\* read fails, once all that the kernel kept is read: what was read of the line
\* is lost.
ReadFails ==
    /\ rpc = "receive"
    /\ unread = <<>> /\ wire = <<>>
    /\ conn = "reset"
    /\ rpc' = "ended"
    /\ line' = <<>>
    /\ UNCHANGED <<asked, rest, wire, conn, unread, pieces>>

Sender ==
    \/ \E msg \in Messages : Send(msg)
    \/ \E k \in 1..Len(rest) : Write(k)
    \/ WriteFails \/ Close

Receiver ==
    \/ Receive
    \/ \E k \in 1..Len(wire) : Refill(k)
    \/ Consume \/ EndOfFile \/ ReadFails

Next == Sender \/ Receiver \/ Reset

Spec == Init /\ [][Next]_vars

\* Loops of rio_writen and rio_readlineb go on while the kernel takes and gives,
\* and the receiving programs call receive until it fails.
Fairness ==
    /\ WF_vars(\E k \in 1..Len(rest) : Write(k))
    /\ WF_vars(Receiver)

FairSpec == Spec /\ Fairness

-----------------------------------------------------------------------------
(* Safety *)

\* The type invariant.  No buffer overflows: receive's keeps room for the NUL
\* that ends the string.
TypeOK ==
    /\ asked \in Seq(Messages) /\ Len(asked) <= MaxSends
    /\ rest \in Seq(Char)
    /\ wire \in Seq(Char) /\ Len(wire) <= KernelSize
    /\ conn \in {"open", "closed", "reset"}
    /\ unread \in Seq(Char) /\ Len(unread) <= RioSize
    /\ line \in Seq(Char) /\ Len(line) < BufLen - 1
    /\ rpc \in {"idle", "receive", "ended"}
    /\ pieces \in Seq(Seq(Char) \ {<<>>})

\* Messages whose encoding can be taken apart again and fits the buffer.
Plain(msg) ==
    /\ Range(msg.tag) \cap {Colon, Nul} = {}
    /\ Nul \notin Range(msg.data)
    /\ msg.data # <<>> => Last(msg.data) # Return
    /\ Len(Encode(msg)) < BufLen

\* However writes and reads cut the stream: if the messages sent are plain, the
\* k-th receive returns the k-th of them; only the last, when the connection is
\* no longer open, may be a line that was not sent to its end.
PlainMessagesArrive ==
    (\A i \in DOMAIN asked : Plain(asked[i])) =>
        \A i \in DOMAIN pieces :
            IF Last(pieces[i]) = Newline
            THEN Parse(pieces[i]) = [tag |-> asked[i].tag, data |-> asked[i].data,
                                     result |-> "SUCCESS"]
            ELSE i = Len(pieces) /\ conn # "open"

-----------------------------------------------------------------------------
(* Refinement *)

MaxPiece == BufLen - 1

Whole(piece) == Last(piece) = Newline \/ Len(piece) = MaxPiece

\* The pieces of a text when one more character comes in.
Longer(char) == [ps \in Seq(Seq(Char)) |->
    IF ps = <<>> \/ Whole(Last(ps)) THEN Append(ps, <<char>>)
    ELSE [ps EXCEPT ![Len(ps)] = Append(@, char)]]

\* A sequence of characters as a receiver will see it.
Cut(chars) ==
    LET upTo[n \in 0..Len(chars)] ==
            IF n = 0 THEN <<>> ELSE Longer(chars[n])[upTo[n - 1]]
    IN  upTo[Len(chars)]

Stream == INSTANCE PieceStream WITH
    Lines  <- {Encode(m) : m \in Messages},
    stream <- Cut(line \o unread \o wire \o (IF conn = "open" THEN rest ELSE <<>>)),
    heard  <- pieces,
    over   <- conn # "open"

\* Short writes, short reads, the read buffer and the line buffer together
\* implement a stream of pieces: in order, none missing, none twice.
ImplementsPieceStream == Stream!Spec

-----------------------------------------------------------------------------
(* Liveness *)

LinesHeard == Cardinality({i \in DOMAIN pieces : Last(pieces[i]) = Newline})

\* While the connection lasts every line sent is received to its end, although
\* the kernel may hold less than a line.
EveryLineArrives ==
    \A n \in 1..MaxSends :
        Len(asked) >= n ~> LinesHeard >= n \/ conn # "open"
=============================================================================
