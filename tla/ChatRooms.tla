----------------------------- MODULE ChatRooms -----------------------------
(***************************************************************************)
(* What the chat server of csf_assign05 promises to its clients, without   *)
(* threads, locks or queues: everything said in a room is written to the   *)
(* room's log, and a receiver in the room hears the log from the moment it *)
(* came in, in order, with nothing missing and nothing twice.              *)
(***************************************************************************)
EXTENDS Naturals, Sequences

CONSTANTS
    Workers,    \* the connections
    Names,      \* the names of the rooms
    Msg,        \* what can be said: records with the room's name in `room`
    Nil         \* no room

VARIABLES
    said,       \* the log of each room
    place,      \* where a receiver sits, or Nil
    next,       \* the position in the log it hears next
    heard       \* what it heard so far

vars == <<said, place, next, heard>>

Init ==
    /\ said = [n \in Names |-> <<>>]
    /\ place = [u \in Workers |-> Nil]
    /\ next = [u \in Workers |-> 1]
    /\ heard = [u \in Workers |-> <<>>]

Enter(u, n) ==
    /\ place[u] = Nil
    /\ place' = [place EXCEPT ![u] = n]
    /\ next' = [next EXCEPT ![u] = Len(said[n]) + 1]
    /\ UNCHANGED <<said, heard>>

\* A message belongs to a room and is said there once.
Say(m) ==
    /\ \A i \in DOMAIN said[m.room] : said[m.room][i] # m
    /\ said' = [said EXCEPT ![m.room] = Append(@, m)]
    /\ UNCHANGED <<place, next, heard>>

Hear(u) ==
    /\ place[u] # Nil
    /\ next[u] <= Len(said[place[u]])
    /\ heard' = [heard EXCEPT ![u] = Append(@, said[place[u]][next[u]])]
    /\ next' = [next EXCEPT ![u] = @ + 1]
    /\ UNCHANGED <<said, place>>

\* A receiver that leaves never comes back: its worker ends.
Exit(u) ==
    /\ place[u] # Nil
    /\ place' = [place EXCEPT ![u] = Nil]
    /\ next' = [next EXCEPT ![u] = 1]
    /\ UNCHANGED <<said, heard>>

Next ==
    \/ \E u \in Workers, n \in Names : Enter(u, n)
    \/ \E m \in Msg : Say(m)
    \/ \E u \in Workers : Hear(u) \/ Exit(u)

Spec == Init /\ [][Next]_vars
=============================================================================
