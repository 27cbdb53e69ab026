---------------------------- MODULE ChatClients ----------------------------
(***************************************************************************)
(* The chat system of csf_assign05 as its users see it: the programs       *)
(* sender and receiver, the connections, and the server's worker for each  *)
(* of them.  A connection carries lines in the pieces that PieceStream     *)
(* describes, and ends as it says, in the middle of a line too; a          *)
(* connection between two programs that both go on does not break here.    *)
(* Rooms and queues behave as ChatRooms and AbstractQueue say, so that a   *)
(* broadcast is one step.                                                  *)
(*                                                                         *)
(* A line is a sequence of words, with a colon between any two of them and *)
(* a newline at the end.  Of a word its length is modelled and where NULs  *)
(* and carriage returns are in it; [w, at, n] is the part of word w from   *)
(* character at + 1 to at + n.  A part that is not the whole word is not   *)
(* taken for a tag, whatever it spells, nor for a part of another word.    *)
(***************************************************************************)
EXTENDS Naturals, Sequences, FiniteSets, SequencesExt

CONSTANTS
    Senders, Receivers, \* the client programs started
    Names,      \* the user names each may be started with, sequences of words
    Typed,      \* what a sender's user may type, line by line: see Interpret
    Rooms,      \* rooms a receiver is started with, sequences of words
    Size,       \* the length of the words that are not tags
    Nul, Return,\* the positions of NULs and carriage returns in words with some
    Breaks,     \* bound: how much of a word may be left where a line is cut
    MaxLen      \* Message::MAX_LEN

Clients == Senders \cup Receivers

ASSUME ClientsAssumption == Senders \cap Receivers = {} /\ IsFiniteSet(Clients)
ASSUME LimitsAssumption  == MaxLen \in Nat /\ Breaks \subseteq Nat

VARIABLES
    listening,  \* the server: "no", "on" or "ended"
    backlog,    \* connections made and not accepted yet
    up, down,   \* per client, the pieces on the way to the server and back
    left,       \* clients whose end of the connection is closed
    dropped,    \* clients to whose connection the server's end is closed
    lost,       \* connections with a write to a closed end behind them
    pc,         \* where each client program is
    worker,     \* where the server's worker for each client is
    user,       \* the username its worker has
    current,    \* chat_with_sender's current, or the room a receiver joined
    queue,      \* a receiver's MessageQueue
    asked,      \* the command a sender sent last
    printed,    \* what a receiver has printed
    name,       \* the user name each client program was started with
    typed,      \* history: how many lines a user typed,
    overlong,   \*   clients that sent a line of more than one piece,
    told,       \*   the room and the number of texts a sender was told ok for,
    cast,       \*   the number of its texts that were broadcast,
    said,       \*   what was broadcast to a receiver,
    meant       \*   and what was typed for it, and at which sender

serverVars == <<listening, backlog, worker, user, current, queue>>
wires      == <<up, down, left, dropped, lost>>
broadcasts == <<cast, said, meant>>
record     == <<name, typed, told, broadcasts>>
history    == <<overlong, record>>
vars       == <<serverVars, wires, pc, asked, printed, history>>

-----------------------------------------------------------------------------
(* Lines and pieces *)

TagSize == [slogin |-> 6, rlogin |-> 6, join |-> 4, leave |-> 5, sendall |-> 7,
            quit |-> 4, delivery |-> 8, ok |-> 2, err |-> 3]

WordSize(w) == IF w \in DOMAIN TagSize THEN TagSize[w] ELSE Size[w]

Word(w) == [w |-> w, at |-> 0, n |-> WordSize(w)]
Empty   == [w |-> "", at |-> 0, n |-> 0]

\* The n characters of x behind the first m.
Part(x, m, n) == IF n = 0 THEN Empty ELSE [x EXCEPT !.at = @ + m, !.n = n]

\* The number of characters of the first k words with what follows each.
Upto(words, k) ==
    LET upto[i \in 0..k] == IF i = 0 THEN 0 ELSE upto[i - 1] + words[i].n + 1
    IN  upto[k]
Length(words)  == Upto(words, Len(words))

\* receive's buffer has room for one character more than a message may have.
Buffer == MaxLen + 1

Fits(words) == Length(words) <= Buffer

\* Where characters of a kind are in a part of a word.
Places(of, x) == IF x.w \in DOMAIN of THEN {i \in of[x.w] : x.at < i /\ i <= x.at + x.n} ELSE {}

\* receive takes what is before the first NUL,
UntilNul(piece) ==
    LET cut == {k \in DOMAIN piece : Places(Nul, piece[k]) # {}}
        k   == Min(cut)
        x   == piece[k]
    IN  IF cut = {} THEN piece
        ELSE Append(SubSeq(piece, 1, k - 1), Part(x, 0, Min(Places(Nul, x)) - 1 - x.at))

\* and of it no carriage returns at the end.
Stripped(x) ==
    IF Places(Return, x) = {} THEN x
    ELSE Part(x, 0, Min({m \in 0..x.n : \A i \in m + 1..x.n : x.at + i \in Places(Return, x)}))
WithoutReturns(piece) == [piece EXCEPT ![Len(piece)] = Stripped(@)]

Received(piece) == WithoutReturns(UntilNul(piece))

\* Mistakes, here and below, that the code could have made.  No step uses them:
\* each property is violated when one replaces the definition it is named for.
Shown_FirstColon(data) == [from |-> <<data[1]>>, text |-> Tail(data)]

\* The words and parts of words from character a + 1 to character b of a line.
Slice(words, a, b) ==
    LET At(c) == CHOOSE i \in DOMAIN words :
                    Upto(words, i - 1) <= c /\ (c < Upto(words, i) \/ i = Len(words))
        Within(f, l) ==
            [i \in 1..l - f + 1 |->
                LET x      == words[f + i - 1]
                    before == Upto(words, f + i - 2)
                    from   == Max({0, a - before})
                IN  Part(x, from, Min({x.n, b - before}) - from)]
    IN  Within(At(a), At(b))

\* What the other end receives of a line, in pieces of a buffer each.
Pieces(words) ==
    LET all  == Length(words)
        n    == (all + Buffer - 1) \div Buffer
        End(i) == IF i = n THEN all ELSE i * Buffer
    IN  IF Fits(words) THEN <<Received(words)>>
        ELSE [i \in 1..n |-> Received(Slice(words, (i - 1) * Buffer, End(i)))]

\* A connection that ends loses the pieces from some point on, and may leave a
\* beginning of one.
Beginnings(piece) ==
    UNION {{WithoutReturns(Append(SubSeq(piece, 1, k - 1), Part(piece[k], 0, n))) :
               n \in {n \in Breaks : n <= piece[k].n /\ (k > 1 \/ n > 0)}} :
              k \in DOMAIN piece}
Remains(pieces) ==
    {SubSeq(pieces, 1, n) : n \in 0..Len(pieces)} \cup
    UNION {{Append(SubSeq(pieces, 1, n - 1), b) : b \in Beginnings(pieces[n])} :
              n \in DOMAIN pieces}

\* A piece is a message if there is a colon in it.
IsMessage(piece) == Len(piece) > 1
Has(piece, tag)  == IsMessage(piece) /\ piece[1] = Word(tag)

Message(tag, data) == <<Word(tag)>> \o data
Ok  == Message("ok", <<Empty>>)
Err == Message("err", <<Empty>>)

Words == {Word(w) : w \in DOMAIN TagSize \cup DOMAIN Size} \cup {Empty}

ASSUME AnswersAssumption == Fits(Ok) /\ Fits(Err)
ASSUME WordsAssumption ==
    /\ \A w \in DOMAIN Size : Size[w] \in Nat
    /\ Nul \in [DOMAIN Nul -> SUBSET Nat] /\ Return \in [DOMAIN Return -> SUBSET Nat]
    /\ (DOMAIN Nul \cup DOMAIN Return) \cap (DOMAIN TagSize \cup {""}) = {}

\* Names and rooms come from the command line: one with a newline in it is not
\* modelled.  They may have colons, and may be empty.
ASSUME LinesAssumption ==
    /\ Rooms \subseteq Seq(Words) \ {<<>>}
    /\ Names \in [Clients -> SUBSET (Seq(Words) \ {<<>>})]
    /\ \A line \in UNION Range(Typed) :
          \/ line.cmd \in {"/leave", "/quit", "invalid"}
          \/ line.cmd \in {"/join", "text"} /\ line.data \in Seq(Words) \ {<<>>}

\* What interpret makes of a line typed: a message, or none if the line is empty
\* or interpret complains.
NoMessage == <<>>
Interpret(line) ==
    CASE line.cmd = "/quit"  -> Message("quit", <<Empty>>)
      [] line.cmd = "/join"  -> Message("join", line.data)
      [] line.cmd = "/leave" -> Message("leave", <<Empty>>)
      [] line.cmd = "invalid" -> NoMessage
      [] line.cmd = "text"   -> IF Length(line.data) - 1 \in 1..MaxLen
                                THEN Message("sendall", line.data) ELSE NoMessage

\* A receiver takes the text after the second colon of a delivery's data.
Shown(data) ==
    IF Len(data) > 2 THEN [from |-> <<data[2]>>, text |-> SubSeq(data, 3, Len(data))]
    ELSE [from |-> <<data[Len(data)]>>, text |-> data]

-----------------------------------------------------------------------------
Init ==
    /\ listening = "no" /\ backlog = <<>>
    /\ up = [c \in Clients |-> <<>>] /\ down = [c \in Clients |-> <<>>]
    /\ left = {} /\ dropped = {} /\ lost = {}
    /\ pc = [c \in Clients |-> "off"]
    /\ worker = [c \in Clients |-> "none"]
    /\ user = [c \in Clients |-> <<>>]
    /\ current = [c \in Clients |-> <<>>]
    /\ queue = [r \in Receivers |-> <<>>]
    /\ asked = [s \in Senders |-> <<>>]
    /\ printed = [r \in Receivers |-> <<>>]
    /\ name \in {f \in [Clients -> UNION Range(Names)] : \A c \in Clients : f[c] \in Names[c]}
    /\ typed = [s \in Senders |-> 0]
    /\ overlong = {}
    /\ told = [s \in Senders |-> [room |-> <<>>, texts |-> 0]]
    /\ cast = [s \in Senders |-> 0]
    /\ said = [r \in Receivers |-> <<>>]
    /\ meant = [r \in Receivers |-> <<>>]

Goto(c, from, to) == pc[c] = from /\ pc' = [pc EXCEPT ![c] = to]

(* Writes and reads *)

\* A client's write: after the server closed its end the first is still taken,
\* a later one may raise SIGPIPE, which the clients do not ignore (Killed).
Put(c, words) ==
    /\ up' = IF c \in dropped THEN up ELSE [up EXCEPT ![c] = @ \o Pieces(words)]
    /\ lost' = IF c \in dropped THEN lost \cup {c} ELSE lost
    /\ overlong' = IF Fits(words) THEN overlong ELSE overlong \cup {c}

Answered(c, ok) == down[c] # <<>> /\ Has(Head(down[c]), "ok") = ok
                /\ down' = [down EXCEPT ![c] = Tail(@)]
Hangup(c) == down[c] = <<>> /\ c \in dropped

\* A server's write to a client that left is taken once, and lost.
Sent(c, words) == IF c \in left THEN down[c] ELSE down[c] \o Pieces(words)
Write(c) == lost' = IF c \in left THEN lost \cup {c} ELSE lost
Reply(c, words) == Write(c) /\ down' = [down EXCEPT ![c] = Sent(c, words)]

Asked(c) == up[c] # <<>> /\ up' = [up EXCEPT ![c] = Tail(@)]
Gone(c) == up[c] = <<>> /\ c \in left

\* A program returns from main or dies, in the middle of a write too: the kernel
\* closes its connection.
Exit(c) ==
    /\ pc' = [pc EXCEPT ![c] = "done"]
    /\ left' = left \cup {c}
    /\ IF c \in dropped THEN UNCHANGED up
       ELSE \E rest \in Remains(up[c]) : up' = [up EXCEPT ![c] = rest]

-----------------------------------------------------------------------------
(* Start of the server and of a connection *)

\* open_listenfd binds the first address it can; the program ends if it finds none.
Listen ==
    /\ listening = "no"
    /\ listening' \in {"on", "ended"}
    /\ UNCHANGED <<backlog, worker, user, current, queue, wires, pc, asked, printed, history>>

\* open_clientfd tries every address until one answers; connect exits if none does.
Connect(c) ==
    /\ IF listening = "on"
       THEN Goto(c, "off", "connected") /\ backlog' = Append(backlog, c) /\ UNCHANGED <<left, up>>
       ELSE pc[c] = "off" /\ Exit(c) /\ UNCHANGED backlog
    /\ UNCHANGED <<listening, worker, user, current, queue, down, dropped, lost,
                   asked, printed, history>>

Accept ==
    /\ listening = "on" /\ backlog # <<>>
    /\ worker' = [worker EXCEPT ![Head(backlog)] = "login"]
    /\ backlog' = Tail(backlog)
    /\ UNCHANGED <<listening, user, current, queue, wires, pc, asked, printed, history>>

\* Accept and Pthread_create exit on any error: a connection given up early, no
\* descriptor left, no memory.  The process takes all its connections with it,
\* while other threads are in the middle of a write.
AcceptFails ==
    /\ listening = "on" /\ backlog # <<>>
    /\ listening' = "ended"
    /\ dropped' = Clients
    /\ backlog' = <<>>
    /\ worker' = [c \in Clients |-> "gone"]
    /\ queue' = [r \in Receivers |-> <<>>]
    /\ LET rests == [c \in Clients |-> IF c \in left \cup dropped THEN {down[c]}
                                     ELSE Remains(down[c])]
       IN  \E rest \in [Clients -> UNION Range(rests)] :
              (\A c \in Clients : rest[c] \in rests[c]) /\ down' = rest
    /\ UNCHANGED <<user, current, up, left, lost, pc, asked, printed, history>>

-----------------------------------------------------------------------------
(* The server's workers *)

Finish_KeepOpen(c, onWay) ==
    /\ worker' = [worker EXCEPT ![c] = "gone"]
    /\ down' = [down EXCEPT ![c] = onWay]
    /\ UNCHANGED dropped

\* The worker returns; Connection's destructor closes its end.
Finish(c, onWay) ==
    /\ worker' = [worker EXCEPT ![c] = "gone"]
    /\ dropped' = dropped \cup {c}
    /\ IF c \in left THEN UNCHANGED down
       ELSE \E rest \in Remains(onWay) : down' = [down EXCEPT ![c] = rest]

Refuse(c) == Write(c) /\ Finish(c, Sent(c, Err))

Serve(c, at) == Reply(c, Ok) /\ worker' = [worker EXCEPT ![c] = at] /\ UNCHANGED dropped

\* No message where one is due is a refusal as well: the client has left, or
\* its line has no colon.
WorkerLogin(c) ==
    /\ worker[c] = "login"
    /\ \/ LET piece == Head(up[c])
          IN  /\ Asked(c)
              /\ CASE Has(piece, "slogin") -> Serve(c, "sender") /\ user' = [user EXCEPT ![c] = Tail(piece)]
                   [] Has(piece, "rlogin") -> Serve(c, "join") /\ user' = [user EXCEPT ![c] = Tail(piece)]
                   [] OTHER                -> Refuse(c) /\ UNCHANGED user
       \/ Gone(c) /\ Refuse(c) /\ UNCHANGED <<up, user>>
    /\ UNCHANGED <<listening, backlog, current, queue, left, pc, asked, printed, history>>

Members(room) == {r \in Receivers : worker[r] = "deliver" /\ current[r] = room}

Delivery(room, e) == Message("delivery", room \o e.from \o e.text)

Entry_ToColon(s, text) == [from |-> user[s], text |-> <<Head(text)>>]

Entry(s, text) == [from |-> user[s], text |-> text]

Broadcast(s, text) ==
    LET members == Members(current[s])
        e       == Entry(s, text)
        More(q, x) == [r \in Receivers |-> IF r \in members THEN Append(q[r], x) ELSE q[r]]
    IN  /\ queue' = More(queue, Delivery(current[s], e))
        /\ said'  = More(said, e)
        /\ meant' = More(meant, [by |-> s, text |-> Tail(Received(asked[s]))])
        /\ cast'  = [cast EXCEPT ![s] = @ + 1]

Enter(s, room) == current' = [current EXCEPT ![s] = room]

Accepted_AnyText(s, piece) ==                           \* a text needs no room
    \/ \E tag \in {"join", "quit", "sendall"} : Has(piece, tag)
    \/ current[s] # <<>> /\ Has(piece, "leave")

\* Texts and leave need a room.
Accepted(s, piece) ==
    \/ \E tag \in {"join", "quit"} : Has(piece, tag)
    \/ /\ current[s] # <<>>
       /\ \E tag \in {"sendall", "leave"} : Has(piece, tag)

\* One round of chat_with_sender.
Command(s, piece) ==
    IF ~IsMessage(piece)
    THEN Finish(s, down[s]) /\ UNCHANGED <<current, queue, broadcasts, lost>>
    ELSE LET answer == IF Accepted(s, piece) THEN Ok ELSE Err
         IN  /\ IF Has(piece, "quit") THEN Write(s) /\ Finish(s, Sent(s, answer))
                ELSE Reply(s, answer) /\ UNCHANGED <<worker, dropped>>
             /\ IF Has(piece, "join") THEN Enter(s, Tail(piece))
                ELSE IF Has(piece, "leave") THEN Enter(s, <<>>)
                ELSE UNCHANGED current
             /\ IF Has(piece, "sendall") /\ current[s] # <<>> THEN Broadcast(s, Tail(piece))
                ELSE UNCHANGED <<queue, broadcasts>>

WorkerSender(s) ==
    /\ worker[s] = "sender"
    /\ \/ Asked(s) /\ Command(s, Head(up[s]))
       \/ Gone(s) /\ Finish(s, down[s]) /\ UNCHANGED <<up, lost, current, queue, broadcasts>>
    /\ UNCHANGED <<listening, backlog, user, left, pc, asked, printed, name, typed, overlong, told>>

\* chat_with_receiver up to its loop: add_member, then the answer.
WorkerJoin(r) ==
    /\ worker[r] = "join"
    /\ \/ /\ Asked(r)
          /\ IF Has(Head(up[r]), "join")
             THEN Serve(r, "deliver") /\ Enter(r, Tail(Head(up[r])))
             ELSE Refuse(r) /\ UNCHANGED current
       \/ Gone(r) /\ Refuse(r) /\ UNCHANGED <<up, current>>
    /\ UNCHANGED <<listening, backlog, user, queue, left, pc, asked, printed, history>>

\* The queue is waited on until there is more than one delivery.
WorkerDeliver_TwoOrMore(r) ==
    /\ worker[r] = "deliver"
    /\ Len(queue[r]) > 1
    /\ ~(r \in left /\ r \in lost)
    /\ Reply(r, Head(queue[r]))
    /\ queue' = [queue EXCEPT ![r] = Tail(@)]
    /\ UNCHANGED <<worker, dropped, listening, backlog, user, current, up, left, pc, asked,
                   printed, history>>

\* Its loop: a write to a client that left is lost or, at the latest the second
\* time, fails; then the member is removed and the User deleted with its queue.
WorkerDeliver(r) ==
    /\ worker[r] = "deliver"
    /\ queue[r] # <<>>
    /\ \/ /\ ~(r \in left /\ r \in lost)
          /\ Reply(r, Head(queue[r]))
          /\ queue' = [queue EXCEPT ![r] = Tail(@)]
          /\ UNCHANGED <<worker, dropped>>
       \/ /\ r \in left
          /\ Finish(r, down[r])
          /\ queue' = [queue EXCEPT ![r] = <<>>]
          /\ UNCHANGED lost
    /\ UNCHANGED <<listening, backlog, user, current, up, left, pc, asked, printed, history>>

Worker(c) ==
    \/ WorkerLogin(c)
    \/ c \in Senders /\ WorkerSender(c)
    \/ c \in Receivers /\ (WorkerJoin(c) \/ WorkerDeliver(c))

-----------------------------------------------------------------------------
(* The programs sender and receiver *)

Login(c) ==
    /\ Goto(c, "connected", "login")
    /\ Put(c, Message(IF c \in Senders THEN "slogin" ELSE "rlogin", name[c]))
    /\ UNCHANGED <<serverVars, down, left, dropped, asked, printed, record>>

\* The answer to the login; a receiver asks for its room at once.
LoginReply(c) ==
    /\ pc[c] = "login"
    /\ \/ /\ Answered(c, TRUE)
          /\ IF c \in Senders THEN Goto(c, "login", "prompt") /\ UNCHANGED <<up, lost, overlong>>
             ELSE /\ Goto(c, "login", "join")
                  /\ \E room \in Rooms : Put(c, Message("join", room))
          /\ UNCHANGED left
       \/ /\ Answered(c, FALSE) \/ (Hangup(c) /\ UNCHANGED down)
          /\ Exit(c) /\ UNCHANGED <<lost, overlong>>
    /\ UNCHANGED <<serverVars, dropped, asked, printed, record>>

JoinReply(r) ==
    /\ pc[r] = "join"
    /\ \/ Answered(r, TRUE) /\ Goto(r, "join", "listen") /\ UNCHANGED <<left, up>>
       \/ Answered(r, FALSE) /\ Exit(r)
       \/ Hangup(r) /\ Exit(r) /\ UNCHANGED down
    /\ UNCHANGED <<serverVars, dropped, lost, asked, printed, history>>

\* One line of standard input.  A send that fails brings the prompt back.
Type(s, line) ==
    LET msg == Interpret(line)
    IN  /\ pc[s] = "prompt"
        /\ typed[s] < Len(Typed) /\ line \in Typed[typed[s] + 1]
        /\ typed' = [typed EXCEPT ![s] = @ + 1]
        /\ IF msg = NoMessage
           THEN UNCHANGED <<up, lost, pc, asked, overlong>>
           ELSE \/ /\ Goto(s, "prompt", "await")
                   /\ Put(s, msg)
                   /\ asked' = [asked EXCEPT ![s] = msg]
                \/ /\ s \in dropped /\ s \in lost
                   /\ UNCHANGED <<up, lost, pc, asked, overlong>>
        /\ UNCHANGED <<serverVars, down, left, dropped, printed, name, told, broadcasts>>

\* What a sender's user concludes from the answer ok.  A room is known by what
\* the server receives of its name.
Learn(s) ==
    told' = [told EXCEPT ![s] =
        CASE Has(asked[s], "join")    -> [@ EXCEPT !.room = Tail(Received(asked[s]))]
          [] Has(asked[s], "leave")   -> [@ EXCEPT !.room = <<>>]
          [] Has(asked[s], "sendall") -> [@ EXCEPT !.texts = @ + 1]
          [] OTHER                    -> @]

\* Anything but the ok to a quit brings the prompt back, the end of the
\* connection too.
Answer(s) ==
    /\ pc[s] = "await"
    /\ \/ /\ Answered(s, TRUE)
          /\ Learn(s)
          /\ IF Has(asked[s], "quit") THEN Exit(s)
             ELSE Goto(s, "await", "prompt") /\ UNCHANGED <<left, up>>
       \/ /\ Answered(s, FALSE) \/ (Hangup(s) /\ UNCHANGED down)
          /\ Goto(s, "await", "prompt") /\ UNCHANGED <<left, up, told>>
    /\ UNCHANGED <<serverVars, dropped, lost, asked, printed, name, typed, overlong, broadcasts>>

\* A receiver prints deliveries, skips what it does not know and ends on an
\* error, a line without a colon and the end of the connection.
ShowNext(r) ==
    /\ pc[r] = "listen"
    /\ \/ LET piece == Head(down[r])
          IN  /\ \E ok \in BOOLEAN : Answered(r, ok)
              /\ IF IsMessage(piece) /\ ~Has(piece, "err")
                 THEN UNCHANGED <<pc, left, up>> ELSE Exit(r)
              /\ printed' = IF Has(piece, "delivery")
                            THEN [printed EXCEPT ![r] = Append(@, Shown(Tail(piece)))]
                            ELSE printed
       \/ Hangup(r) /\ Exit(r) /\ UNCHANGED <<down, printed>>
    /\ UNCHANGED <<serverVars, dropped, lost, asked, history>>

\* Standard input ends at a prompt; a user or SIGPIPE ends a program anywhere.
Quit(c) ==
    /\ pc[c] \notin {"off", "done"}
    /\ Exit(c)
    /\ UNCHANGED <<serverVars, down, dropped, lost, asked, printed, history>>

Program(c) ==
    \/ Login(c) \/ LoginReply(c)
    \/ c \in Senders /\ Answer(c)
    \/ c \in Receivers /\ (JoinReply(c) \/ ShowNext(c))

Next ==
    \/ Listen \/ Accept \/ AcceptFails
    \/ \E c \in Clients : Connect(c) \/ Worker(c) \/ Program(c) \/ Quit(c)
    \/ \E s \in Senders, line \in UNION Range(Typed) : Type(s, line)

Spec == Init /\ [][Next]_vars

\* Threads and programs run on; users need not type, start or stop anything.
Fairness ==
    /\ WF_vars(Accept \/ AcceptFails)
    /\ \A c \in Clients : WF_vars(Worker(c)) /\ WF_vars(Program(c))

FairSpec == Spec /\ Fairness

-----------------------------------------------------------------------------
(* Safety *)

\* Question and answer stay in step: at the prompt no answer is left over and
\* no command under way, the server has the sender in the room it told it, and
\* has broadcast just the texts it said ok to.  Only the sender's own lines
\* that do not fit a message can break that, nobody else's.
InStep ==
    \A s \in Senders \ overlong :
        /\ told[s].texts <= cast[s] /\ cast[s] <= told[s].texts + 1
        /\ pc[s] = "prompt" /\ s \notin dropped =>
              /\ up[s] = <<>> /\ down[s] = <<>>
              /\ told[s] = [room |-> current[s], texts |-> cast[s]]

IsBeginning(text, of) ==
    LET k == Len(text)
    IN  /\ k \in 1..Len(of)
        /\ \A i \in 1..k - 1 : text[i] = of[i]
        /\ \E n \in 0..of[k].n : text[k] = Part(of[k], 0, n)

\* What is broadcast has the name its sender was started with and the text typed
\* for it, but for what receive takes off.  Only a sender whose own lines do not
\* fit a message can break that; and the last text of a sender that was killed
\* may be broadcast although only a beginning of it arrived.
BroadcastsWhatWasTyped ==
    \A r \in Receivers : \A i \in DOMAIN said[r] :
        LET e == said[r][i]
            m == meant[r][i]
        IN  m.by \notin overlong =>
               /\ e.from = Tail(Received(Message("slogin", name[m.by])))
               /\ \/ e.text = m.text
                  \/ /\ m.by \in left /\ IsBeginning(e.text, m.text)
                     /\ \A j \in DOMAIN meant[r] : meant[r][j].by = m.by => j <= i

\* A receiver whose own lines fit, in a room whose name has no colon.
Plain(r) == r \notin overlong /\ Len(current[r]) = 1

\* A broadcast that fits the line of a delivery, of a sender in step whose name
\* has no colon.
Deliverable(r, i) ==
    /\ meant[r][i].by \notin overlong
    /\ Len(said[r][i].from) = 1
    /\ Fits(Delivery(current[r], said[r][i]))

\* What a receiver prints is what was broadcast in its room since it came in, in
\* that order, under the right name, nothing missing and nothing twice; what is
\* not printed yet is in its queue or under way, behind the answer to its join.
\* Only the last line it prints may be wrong, if the server ended.
PrintsWhatWasBroadcast ==
    \A r \in Receivers :
        Plain(r) /\ (\A i \in DOMAIN said[r] : Deliverable(r, i))
        => LET behind == IF pc[r] = "listen" \/ down[r] = <<>> THEN down[r] ELSE Tail(down[r])
               onWay  == behind \o queue[r]
               all    == printed[r] \o [i \in DOMAIN onWay |-> Shown(Tail(onWay[i]))]
               last   == Len(printed[r])
           IN  /\ last <= Len(said[r])
               /\ \A i \in 1..last :
                     printed[r][i] = said[r][i] \/ (r \in dropped /\ i = last)
               /\ r \notin left \cup dropped => all = said[r]

\* "An encoded message may have at most this many characters, including the
\* trailing newline" (message.h).
EncodedFits ==
    /\ \A s \in Senders : Length(asked[s]) <= MaxLen
    /\ \A r \in Receivers : \A i \in DOMAIN queue[r] : Length(queue[r][i]) <= MaxLen

-----------------------------------------------------------------------------
(* Liveness *)

\* A sender that asked goes on, at its prompt or to its end, whatever becomes of
\* the server; and one that ends, however it does, gives its descriptor back.
SenderGoesOn ==
    \A s \in Senders :
        /\ pc[s] = "await" ~> pc[s] # "await"
        /\ pc[s] = "done" /\ worker[s] # "none" ~> worker[s] = "gone"

\* A receiver catches up with what is broadcast to it, unless it ends.
BroadcastIsPrinted ==
    \A r \in Receivers :
        Len(said[r]) > Len(printed[r]) ~> Len(said[r]) = Len(printed[r]) \/ pc[r] = "done"
=============================================================================
