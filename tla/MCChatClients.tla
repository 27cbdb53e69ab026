--------------------------- MODULE MCChatClients ---------------------------
(* Instances of ChatClients for TLC. *)
EXTENDS ChatClients

\* Lengths in characters.  With MaxLen 255 a text of 247 is the longest that
\* sendall can carry in one line; a delivery adds the room and the sender.
MCSize == [s1 |-> 2, r1 |-> 2, a |-> 1, b |-> 1, hi |-> 2, cr |-> 3, nul |-> 3,
           near |-> 241, wide |-> 247, long |-> 248, huge |-> 256]

\* A word that begins and ends with a carriage return, and one with a NUL in it.
MCReturn == [cr |-> {1, 3}]
MCNul    == [nul |-> {2}]

\* Names without and with a colon; so have the rooms that a sender joins.
MCNames == [c \in {"s1", "r1"} |->
              {<<Word(c)>>} \cup IF c = "s1" THEN {<<Word(c), Word("b")>>} ELSE {}]
MCRooms == {<<Word("a")>>}

MCCommands ==
    [cmd : {"/join"}, data : {<<Word("a"), Word("b")>>}] \cup
    {[cmd |-> "/leave"], [cmd |-> "/quit"], [cmd |-> "invalid"]}

\* Texts that fit everywhere, with and without a colon, a carriage return and a
\* NUL; that fit a command and not a delivery; that fit neither: without and with
\* a colon beyond the cut; one that interpret refuses, and one it never sees.
MCTexts ==
    [cmd : {"text"},
     data : {<<Word("hi")>>, <<Word("hi"), Word("cr")>>, <<Word("nul"), Word("hi")>>,
             <<Word("wide")>>, <<Word("near"), Word("hi"), Word("hi")>>,
             <<Word("long")>>, <<Word("wide"), Word("hi"), Word("hi")>>,
             <<Word("huge")>>, <<Empty>>}]

\* The first line is a join or a text that arrives in two pieces; the third is
\* answered behind what is left of those before.
MCFirst ==
    {[cmd |-> "/join", data |-> <<Word("a")>>], [cmd |-> "text", data |-> <<Word("long")>>]}
MCThird == {[cmd |-> "text", data |-> <<Word("hi")>>]}
MCTyped == <<MCFirst, MCCommands \cup MCTexts, MCThird>>
=============================================================================
