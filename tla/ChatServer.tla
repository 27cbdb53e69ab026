---------------------------- MODULE ChatServer ----------------------------
(***************************************************************************)
(* The server of csf_assign05: the accept loop, one detached worker thread *)
(* per connection (server.cpp), the rooms (room.cpp) and the receivers'    *)
(* message queues (message_queue.cpp), composed as the workers run them.   *)
(*                                                                         *)
(* A worker's pc is a point between two synchronizations or a blocking     *)
(* call; the handler code between two such points is one action.  A User   *)
(* object is named by the worker that allocated it, a Room object by the   *)
(* worker that allocated it and its name, so that two objects for one name *)
(* could be told apart.                                                    *)
(*                                                                         *)
(* The client of a connection may send any command at any time and may     *)
(* close at any time.  What a line looks like on the wire is not modelled  *)
(* here: a line that does not parse is a failed receive.                   *)
(***************************************************************************)
EXTENDS Naturals, Sequences, FiniteSets

CONSTANTS
    Workers,    \* connections the server accepts, with their threads
    Senders,    \* those whose client may log in with slogin
    Receivers,  \* those whose client may log in with rlogin
    Names,      \* room names clients ask for
    MaxSends,   \* bound: sendall commands one sender issues while in a room
    Nil         \* nullptr, no owner, no room

Rooms     == Workers \X Names           \* Room objects
NameOf(r) == r[2]                       \* Room::room_name
Msg       == [room : Names, from : Workers, n : 1..MaxSends]

ASSUME ChatAssumption ==
    /\ IsFiniteSet(Workers)
    /\ Senders \subseteq Workers
    /\ Receivers \subseteq Workers
    /\ MaxSends \in Nat
    /\ Nil \notin Workers \cup Rooms \cup Msg \cup Names

VARIABLES
    pc,         \* where each worker is
    conn,       \* its connection: "open", "closed" by the client, "reset"
    asked,      \* the room name of the join being handled
    room,       \* a sender's `current`, a receiver's `room`
    text,       \* the message a sender is broadcasting
    sends,      \* how many messages a sender has broadcast
    visited,    \* users the loop of broadcast_message has dealt with
    dest,       \* the user whose queue it is filling
    rooms,      \* Server::m_rooms
    serverLock, \* who holds Server::m_lock
    roomLock,   \* who holds the lock of each Room
    members,    \* the members of each Room
    user,       \* the life of each worker's User object
    queue,      \* m_messages of each User's queue
    avail,      \* m_avail of each User's queue
    queueLock,  \* who holds m_lock of each User's queue
    delivery,   \* the message a receiver's worker took off its queue
    log,        \* history: what was broadcast under each room name
    since,      \* history: how much of it came before a receiver joined
    got         \* history: what each receiver's worker dequeued

sender   == <<text, sends, visited, dest>>
server   == <<rooms, serverLock>>
roomVars == <<roomLock, members, log, since>>
userVars == <<user, queue, avail, queueLock, delivery, got>>
vars     == <<pc, conn, asked, room, sender, server, roomVars, userVars>>

PCs == {"new", "login", "command", "find", "lookup", "create", "reply",
        "bcast", "each", "lock", "push", "post",
        "join", "add", "joined", "loop", "wait", "blocked", "claim", "pop",
        "got", "remove", "delete", "done"}

FindPCs     == {"find", "lookup", "create"}
RoomPCs     == {"each", "lock", "push", "post"}     \* inside a Room's mutex
QueuePCs    == {"lock", "push", "post"}             \* inside enqueue
MemberPCs   == {"joined", "loop", "wait", "blocked", "claim", "pop", "got",
                "remove"}
ReceiverPCs == {"join", "add", "delete"} \cup MemberPCs

Init ==
    /\ pc = [w \in Workers |-> "new"]
    /\ conn = [w \in Workers |-> "open"]
    /\ asked = [w \in Workers |-> Nil]
    /\ room = [w \in Workers |-> Nil]
    /\ text = [w \in Workers |-> Nil]
    /\ sends = [w \in Workers |-> 0]
    /\ visited = [w \in Workers |-> {}]
    /\ dest = [w \in Workers |-> Nil]
    /\ rooms = [n \in Names |-> Nil]
    /\ serverLock = Nil
    /\ roomLock = [r \in Rooms |-> Nil]
    /\ members = [r \in Rooms |-> {}]
    /\ user = [w \in Workers |-> "none"]
    /\ queue = [w \in Workers |-> <<>>]
    /\ avail = [w \in Workers |-> 0]
    /\ queueLock = [w \in Workers |-> Nil]
    /\ delivery = [w \in Workers |-> Nil]
    /\ log = [n \in Names |-> <<>>]
    /\ since = [w \in Workers |-> 0]
    /\ got = [w \in Workers |-> <<>>]

Goto(w, from, to) ==
    /\ pc[w] = from
    /\ pc' = [pc EXCEPT ![w] = to]

\* A worker ends: ~Connection closes the descriptor.
Finish(w, from) == Goto(w, from, "done")

\* conn.send on worker w.  While the client is there it succeeds.  After the
\* client has closed the kernel may accept one more write before the reset
\* is known; from then on writes fail (SIGPIPE is ignored, server_main.cpp).
Send(w, ok) ==
    /\ IF ok THEN conn[w] # "reset" ELSE conn[w] # "open"
    /\ conn' = [conn EXCEPT ![w] = IF @ = "open" THEN @ ELSE "reset"]

-----------------------------------------------------------------------------
(* Mistakes the code could have made, one step each.  No step of the system  *)
(* uses them: each property below is violated when one replaces its step.    *)

\* find_or_create_room looks the name up without the server mutex.
FindLock_NoWait(w) ==
    /\ Goto(w, "find", "lookup")
    /\ serverLock' = w
    /\ UNCHANGED <<conn, asked, room, sender, rooms, roomVars, userVars>>

\* find_or_create_room releases the mutex between the look-up and the insertion.
FindMiss_Unlocks(w) ==
    /\ Goto(w, "lookup", "create")
    /\ rooms[asked[w]] = Nil
    /\ serverLock' = Nil
    /\ UNCHANGED <<conn, asked, room, sender, rooms, roomVars, userVars>>

\* enqueue pushes while the consumer is inside the queue.
EnqueueLock_NoWait(w) ==
    /\ Goto(w, "lock", "push")
    /\ queueLock' = [queueLock EXCEPT ![dest[w]] = w]
    /\ UNCHANGED <<conn, asked, room, sender, server, roomVars, user, queue,
                   avail, delivery, got>>

\* enqueue does not post the semaphore.
EnqueuePost_Forgets(w) ==
    /\ Goto(w, "post", "each")
    /\ visited' = [visited EXCEPT ![w] = @ \cup {dest[w]}]
    /\ dest' = [dest EXCEPT ![w] = Nil]
    /\ UNCHANGED <<conn, asked, room, text, sends, server, roomVars, userVars>>

\* add_member inserts while a broadcast iterates.
AddMember_NoWait(w) ==
    /\ Goto(w, "add", "joined")
    /\ members' = [members EXCEPT ![room[w]] = @ \cup {w}]
    /\ since' = [since EXCEPT ![w] = Len(log[NameOf(room[w])])]
    /\ UNCHANGED <<conn, asked, room, sender, server, roomLock, log, userVars>>

\* The wait of dequeue is not checked, and the counter goes below zero.
SemTake_Underflow(w) ==
    /\ \/ Goto(w, "wait", "claim")
       \/ Goto(w, "blocked", "claim")
    /\ avail' = [avail EXCEPT ![w] = @ - 1]
    /\ UNCHANGED <<conn, asked, room, sender, server, roomVars, user, queue,
                   queueLock, delivery, got>>

\* dequeue returns with the queue's mutex locked.
DequeuePop_NoUnlock(w) ==
    /\ Goto(w, "pop", "got")
    /\ delivery' = [delivery EXCEPT ![w] = Head(queue[w])]
    /\ got' = [got EXCEPT ![w] = Append(@, Head(queue[w]))]
    /\ queue' = [queue EXCEPT ![w] = Tail(@)]
    /\ UNCHANGED <<conn, asked, room, sender, server, roomVars, user, avail,
                   queueLock>>

\* A failed send to a receiver is ignored.
SendFails_Ignored(w) ==
    /\ Goto(w, "got", "loop")
    /\ delivery[w] # Nil
    /\ Send(w, FALSE)
    /\ delivery' = [delivery EXCEPT ![w] = Nil]
    /\ UNCHANGED <<asked, room, sender, server, roomVars, user, queue, avail,
                   queueLock, got>>

\* remove_member erases while a broadcast iterates.
RemoveMember_NoWait(w) ==
    /\ Goto(w, "remove", "delete")
    /\ members' = [members EXCEPT ![room[w]] = @ \ {w}]
    /\ UNCHANGED <<conn, asked, room, sender, server, roomLock, log, since,
                   userVars>>

-----------------------------------------------------------------------------
(* The clients *)

ClientCloses(w) ==
    /\ pc[w] \notin {"new", "done"}
    /\ conn[w] = "open"
    /\ conn' = [conn EXCEPT ![w] = "closed"]
    /\ UNCHANGED <<pc, asked, room, sender, server, roomVars, userVars>>

-----------------------------------------------------------------------------
(* handle_client_requests and worker: accept, then the login message *)

Accept(w) ==
    /\ Goto(w, "new", "login")
    /\ UNCHANGED <<conn, asked, room, sender, server, roomVars, userVars>>

LoginSender(w) ==
    /\ w \in Senders
    /\ Goto(w, "login", "command")
    /\ \E ok \in BOOLEAN : Send(w, ok)
    /\ UNCHANGED <<asked, room, sender, server, roomVars, userVars>>

LoginReceiver(w) ==
    /\ w \in Receivers
    /\ Goto(w, "login", "join")
    /\ \E ok \in BOOLEAN : Send(w, ok)
    /\ user' = [user EXCEPT ![w] = "live"]
    /\ UNCHANGED <<asked, room, sender, server, roomVars, queue, avail,
                   queueLock, delivery, got>>

\* The receive fails or the tag is another one: err, and the worker ends.
LoginRefused(w) ==
    /\ Finish(w, "login")
    /\ \E ok \in BOOLEAN : Send(w, ok)
    /\ UNCHANGED <<asked, room, sender, server, roomVars, userVars>>

-----------------------------------------------------------------------------
(* chat_with_sender *)

SenderJoin(w) ==
    /\ Goto(w, "command", "find")
    /\ \E n \in Names : asked' = [asked EXCEPT ![w] = n]
    /\ UNCHANGED <<conn, room, sender, server, roomVars, userVars>>

SenderSendall(w) ==
    /\ Goto(w, "command", "bcast")
    /\ room[w] # Nil
    /\ sends[w] < MaxSends
    /\ sends' = [sends EXCEPT ![w] = @ + 1]
    /\ text' = [text EXCEPT ![w] =
                  [room |-> NameOf(room[w]), from |-> w, n |-> sends[w] + 1]]
    /\ UNCHANGED <<conn, asked, room, visited, dest, server, roomVars,
                   userVars>>

SenderLeave(w) ==
    /\ Goto(w, "command", "reply")
    /\ room[w] # Nil
    /\ room' = [room EXCEPT ![w] = Nil]
    /\ UNCHANGED <<conn, asked, sender, server, roomVars, userVars>>

\* An unknown tag, or leave or sendall outside a room: only a reply.
SenderRefused(w) ==
    /\ Goto(w, "command", "reply")
    /\ UNCHANGED <<conn, asked, room, sender, server, roomVars, userVars>>

\* The ok or err of every command; the result of this send is ignored.
Reply(w) ==
    /\ Goto(w, "reply", "command")
    /\ \E ok \in BOOLEAN : Send(w, ok)
    /\ UNCHANGED <<asked, room, sender, server, roomVars, userVars>>

\* quit, or a receive that fails at EOF or on a line without a colon.
SenderEnds(w) ==
    /\ Finish(w, "command")
    /\ \/ \E ok \in BOOLEAN : Send(w, ok)
       \/ UNCHANGED conn
    /\ room' = [room EXCEPT ![w] = Nil]
    /\ UNCHANGED <<asked, sender, server, roomVars, userVars>>

-----------------------------------------------------------------------------
(* Server::find_or_create_room, for a sender's join and a receiver's *)

AfterFind(w) == IF user[w] = "live" THEN "add" ELSE "reply"

FindLock(w) ==
    /\ Goto(w, "find", "lookup")
    /\ serverLock = Nil
    /\ serverLock' = w
    /\ UNCHANGED <<conn, asked, room, sender, rooms, roomVars, userVars>>

FindHit(w) ==
    /\ Goto(w, "lookup", AfterFind(w))
    /\ rooms[asked[w]] # Nil
    /\ room' = [room EXCEPT ![w] = rooms[asked[w]]]
    /\ asked' = [asked EXCEPT ![w] = Nil]
    /\ serverLock' = Nil
    /\ UNCHANGED <<conn, sender, rooms, roomVars, userVars>>

FindMiss(w) ==
    /\ Goto(w, "lookup", "create")
    /\ rooms[asked[w]] = Nil
    /\ UNCHANGED <<conn, asked, room, sender, server, roomVars, userVars>>

CreateRoom(w) ==
    /\ Goto(w, "create", AfterFind(w))
    /\ rooms' = [rooms EXCEPT ![asked[w]] = <<w, asked[w]>>]
    /\ room' = [room EXCEPT ![w] = <<w, asked[w]>>]
    /\ asked' = [asked EXCEPT ![w] = Nil]
    /\ serverLock' = Nil
    /\ UNCHANGED <<conn, sender, roomVars, userVars>>

-----------------------------------------------------------------------------
(* Room::broadcast_message, with MessageQueue::enqueue inlined *)

BroadcastLock(w) ==
    /\ Goto(w, "bcast", "each")
    /\ roomLock[room[w]] = Nil
    /\ roomLock' = [roomLock EXCEPT ![room[w]] = w]
    /\ log' = [log EXCEPT ![text[w].room] = Append(@, text[w])]
    /\ UNCHANGED <<conn, asked, room, sender, server, members, since, userVars>>

\* The next user of the std::set; its order is that of the addresses.
NextUser(w) ==
    /\ Goto(w, "each", "lock")
    /\ \E u \in members[room[w]] \ visited[w] :
          dest' = [dest EXCEPT ![w] = u]
    /\ UNCHANGED <<conn, asked, room, text, sends, visited, server, roomVars,
                   userVars>>

EnqueueLock(w) ==
    /\ Goto(w, "lock", "push")
    /\ queueLock[dest[w]] = Nil
    /\ queueLock' = [queueLock EXCEPT ![dest[w]] = w]
    /\ UNCHANGED <<conn, asked, room, sender, server, roomVars, user, queue,
                   avail, delivery, got>>

EnqueuePush(w) ==
    /\ Goto(w, "push", "post")
    /\ queue' = [queue EXCEPT ![dest[w]] = Append(@, text[w])]
    /\ queueLock' = [queueLock EXCEPT ![dest[w]] = Nil]
    /\ UNCHANGED <<conn, asked, room, sender, server, roomVars, user, avail,
                   delivery, got>>

EnqueuePost(w) ==
    /\ Goto(w, "post", "each")
    /\ avail' = [avail EXCEPT ![dest[w]] = @ + 1]
    /\ visited' = [visited EXCEPT ![w] = @ \cup {dest[w]}]
    /\ dest' = [dest EXCEPT ![w] = Nil]
    /\ UNCHANGED <<conn, asked, room, text, sends, server, roomVars, user,
                   queue, queueLock, delivery, got>>

\* The loop ends, the Guard goes, chat_with_sender goes on to its reply.
BroadcastDone(w) ==
    /\ Goto(w, "each", "reply")
    /\ members[room[w]] \subseteq visited[w]
    /\ roomLock' = [roomLock EXCEPT ![room[w]] = Nil]
    /\ visited' = [visited EXCEPT ![w] = {}]
    /\ text' = [text EXCEPT ![w] = Nil]
    /\ UNCHANGED <<conn, asked, room, sends, dest, server, members, log,
                   since, userVars>>

-----------------------------------------------------------------------------
(* chat_with_receiver, with MessageQueue::dequeue inlined *)

ReceiverJoin(w) ==
    /\ Goto(w, "join", "find")
    /\ \E n \in Names : asked' = [asked EXCEPT ![w] = n]
    /\ UNCHANGED <<conn, room, sender, server, roomVars, userVars>>

\* No join: err, the User is deleted, the worker ends.
ReceiverRefused(w) ==
    /\ Finish(w, "join")
    /\ \E ok \in BOOLEAN : Send(w, ok)
    /\ user' = [user EXCEPT ![w] = "freed"]
    /\ UNCHANGED <<asked, room, sender, server, roomVars, queue, avail,
                   queueLock, delivery, got>>

\* add_member; its critical section is one set insertion.
AddMember(w) ==
    /\ Goto(w, "add", "joined")
    /\ roomLock[room[w]] = Nil
    /\ members' = [members EXCEPT ![room[w]] = @ \cup {w}]
    /\ since' = [since EXCEPT ![w] = Len(log[NameOf(room[w])])]
    /\ UNCHANGED <<conn, asked, room, sender, server, roomLock, log, userVars>>

JoinedReply(w) ==
    /\ Goto(w, "joined", "loop")
    /\ \E ok \in BOOLEAN : Send(w, ok)
    /\ UNCHANGED <<asked, room, sender, server, roomVars, userVars>>

DequeueCall(w) ==
    /\ Goto(w, "loop", "wait")
    /\ UNCHANGED <<conn, asked, room, sender, server, roomVars, userVars>>

SemTake(w) ==
    /\ avail[w] > 0
    /\ \/ Goto(w, "wait", "claim")
       \/ Goto(w, "blocked", "claim")
    /\ avail' = [avail EXCEPT ![w] = @ - 1]
    /\ UNCHANGED <<conn, asked, room, sender, server, roomVars, user, queue,
                   queueLock, delivery, got>>

SemBlock(w) ==
    /\ Goto(w, "wait", "blocked")
    /\ avail[w] = 0
    /\ UNCHANGED <<conn, asked, room, sender, server, roomVars, userVars>>

\* The deadline passes while asleep; a post may already be there.
SemTimeout(w) ==
    /\ Goto(w, "blocked", "got")
    /\ UNCHANGED <<conn, asked, room, sender, server, roomVars, userVars>>

DequeueLock(w) ==
    /\ Goto(w, "claim", "pop")
    /\ queueLock[w] = Nil
    /\ queueLock' = [queueLock EXCEPT ![w] = w]
    /\ UNCHANGED <<conn, asked, room, sender, server, roomVars, user, queue,
                   avail, delivery, got>>

DequeuePop(w) ==
    /\ Goto(w, "pop", "got")
    /\ delivery' = [delivery EXCEPT ![w] =
                      IF queue[w] = <<>> THEN Nil ELSE Head(queue[w])]
    /\ got' = [got EXCEPT ![w] = @ \o SubSeq(queue[w], 1, 1)]
    /\ queue' = [queue EXCEPT ![w] = SubSeq(@, 2, Len(@))]
    /\ queueLock' = [queueLock EXCEPT ![w] = Nil]
    /\ UNCHANGED <<conn, asked, room, sender, server, roomVars, user, avail>>

\* dequeue returned nullptr: keep looping.
NothingReady(w) ==
    /\ Goto(w, "got", "loop")
    /\ delivery[w] = Nil
    /\ UNCHANGED <<conn, asked, room, sender, server, roomVars, userVars>>

SendDelivery(w) ==
    /\ Goto(w, "got", "loop")
    /\ delivery[w] # Nil
    /\ Send(w, TRUE)
    /\ delivery' = [delivery EXCEPT ![w] = Nil]
    /\ UNCHANGED <<asked, room, sender, server, roomVars, user, queue, avail,
                   queueLock, got>>

SendFails(w) ==
    /\ Goto(w, "got", "remove")
    /\ delivery[w] # Nil
    /\ Send(w, FALSE)
    /\ UNCHANGED <<asked, room, sender, server, roomVars, userVars>>

\* remove_member; its critical section is one set erasure.
RemoveMember(w) ==
    /\ Goto(w, "remove", "delete")
    /\ roomLock[room[w]] = Nil
    /\ members' = [members EXCEPT ![room[w]] = @ \ {w}]
    /\ UNCHANGED <<conn, asked, room, sender, server, roomLock, log, since,
                   userVars>>

\* delete user; delete delivery; return.
DeleteUser(w) ==
    /\ Finish(w, "delete")
    /\ user' = [user EXCEPT ![w] = "freed"]
    /\ delivery' = [delivery EXCEPT ![w] = Nil]
    /\ UNCHANGED <<conn, asked, room, sender, server, roomVars, queue, avail,
                   queueLock, got>>

-----------------------------------------------------------------------------
LoginStep(w) ==
    Accept(w) \/ LoginSender(w) \/ LoginReceiver(w) \/ LoginRefused(w)

CommandStep(w) ==
    \/ SenderJoin(w) \/ SenderSendall(w) \/ SenderLeave(w)
    \/ SenderRefused(w) \/ Reply(w) \/ SenderEnds(w)

FindStep(w) ==
    FindLock(w) \/ FindHit(w) \/ FindMiss(w) \/ CreateRoom(w)

BroadcastStep(w) ==
    \/ BroadcastLock(w) \/ NextUser(w) \/ EnqueueLock(w) \/ EnqueuePush(w)
    \/ EnqueuePost(w) \/ BroadcastDone(w)

DequeueStep(w) ==
    \/ DequeueCall(w) \/ SemTake(w) \/ SemBlock(w) \/ SemTimeout(w)
    \/ DequeueLock(w) \/ DequeuePop(w) \/ NothingReady(w)

ReceiverStep(w) ==
    \/ ReceiverJoin(w) \/ ReceiverRefused(w) \/ AddMember(w)
    \/ JoinedReply(w) \/ DequeueStep(w) \/ SendDelivery(w)
    \/ SendFails(w) \/ RemoveMember(w) \/ DeleteUser(w)

Step(w) ==
    \/ ClientCloses(w) \/ LoginStep(w) \/ CommandStep(w) \/ FindStep(w)
    \/ BroadcastStep(w) \/ ReceiverStep(w)

\* When every connection of the instance has come and gone the main thread
\* sleeps in accept: the one way the model may stop.
OnlyAccepting ==
    /\ \A w \in Workers : pc[w] = "done"
    /\ UNCHANGED vars

Next == (\E w \in Workers : Step(w)) \/ OnlyAccepting

Spec == Init /\ [][Next]_vars

\* The server's own code keeps running between blocking calls on a
\* connection.  The clients, and the sends that wait for them to read, may
\* stall for ever.  Weak fairness suffices for the mutexes: every contender
\* takes them finitely often, MaxSends times and once in and out of a room.
ServerStep(w) ==
    \/ FindStep(w) \/ BroadcastStep(w) \/ DequeueStep(w)
    \/ AddMember(w) \/ RemoveMember(w) \/ DeleteUser(w)

FairSpec == Spec /\ \A w \in Workers : WF_vars(ServerStep(w))

\* The receivers' clients read what they are sent, or have closed.
ClientsRead ==
    \A w \in Workers : WF_vars(JoinedReply(w) \/ SendDelivery(w) \/ SendFails(w))

-----------------------------------------------------------------------------
(* Safety *)

\* What each variable holds.
Shapes ==
    /\ pc \in [Workers -> PCs]
    /\ conn \in [Workers -> {"open", "closed", "reset"}]
    /\ asked \in [Workers -> Names \cup {Nil}]
    /\ room \in [Workers -> Rooms \cup {Nil}]
    /\ text \in [Workers -> Msg \cup {Nil}]
    /\ sends \in [Workers -> 0..MaxSends]
    /\ visited \in [Workers -> SUBSET Workers]
    /\ dest \in [Workers -> Workers \cup {Nil}]
    /\ rooms \in [Names -> Rooms \cup {Nil}]
    /\ serverLock \in Workers \cup {Nil}
    /\ roomLock \in [Rooms -> Workers \cup {Nil}]
    /\ members \in [Rooms -> SUBSET Workers]
    /\ user \in [Workers -> {"none", "live", "freed"}]
    /\ queue \in [Workers -> Seq(Msg)]
    /\ avail \in [Workers -> Nat]
    /\ queueLock \in [Workers -> Workers \cup {Nil}]
    /\ delivery \in [Workers -> Msg \cup {Nil}]
    /\ log \in [Names -> Seq(Msg)]
    /\ since \in [Workers -> Nat]
    /\ got \in [Workers -> Seq(Msg)]

\* What a worker's local variables hold at a point of its code.
LocalsSet(w) ==
    /\ pc[w] \in FindPCs => asked[w] \in Names
    /\ pc[w] \in RoomPCs \cup {"bcast"} => text[w] \in Msg
    /\ pc[w] \in RoomPCs \cup MemberPCs \cup {"bcast", "add", "delete"}
          => room[w] \in Rooms
    /\ pc[w] \in QueuePCs <=> dest[w] \in Workers

\* The type invariant.
TypeOK == Shapes /\ \A w \in Workers : LocalsSet(w)

\* Where a worker touches m_rooms, the members of r, the messages of u.
InServer(w)      == pc[w] \in {"lookup", "create"}
InMembers(w, r)  == pc[w] \in RoomPCs /\ room[w] = r
InMessages(w, u) == \/ pc[w] = "push" /\ dest[w] = u
                    \/ pc[w] = "pop" /\ w = u

ServerLocked == \A w \in Workers : InServer(w) <=> serverLock = w
RoomsLocked  == \A w \in Workers, r \in Rooms :
                    InMembers(w, r) <=> roomLock[r] = w
QueuesLocked == \A w, u \in Workers : InMessages(w, u) <=> queueLock[u] = w

\* "No shared data structure is ever touched without holding the right lock"
\* (README.txt): each of the three kinds of mutex is held by the worker that
\* is inside its section, through the nested enqueue too.
LocksHeld == ServerLocked /\ RoomsLocked /\ QueuesLocked

\* "Deleting users/rooms is safe" (README.txt): a User is deleted only when
\* no Room points to it any more and no broadcast is inside its queue,
\* although its worker frees it without holding any lock.
NoUseAfterFree ==
    /\ \A r \in Rooms : \A u \in members[r] : user[u] = "live"
    /\ \A w \in Workers : dest[w] # Nil => user[dest[w]] = "live"

\* However the joins interleave, all workers in a room of one name hold the
\* same Room object, the one in m_rooms.
OneRoomPerName ==
    \A w \in Workers : room[w] # Nil => rooms[NameOf(room[w])] = room[w]

\* What was said under the name n after u joined.
LogSince(n, u) == SubSeq(log[n], since[u] + 1, Len(log[n]))

\* What a broadcast in progress in r still has to put into u's queue.
Pending(r, u) ==
    LET w == roomLock[r]
    IN  IF w = Nil \/ (w # Nil /\ (u \in visited[w]
                                  \/ (pc[w] = "post" /\ dest[w] = u)))
        THEN <<>> ELSE <<text[w]>>

\* Total order and exactly-once: what a member has dequeued, what is in its
\* queue and what is on its way there is exactly what was broadcast in the
\* room since it joined, in one order that is the same for all members,
\* whoever sends and whatever time-outs its dequeue meets.
RoomOrder ==
    \A r \in Rooms : \A u \in members[r] :
        got[u] \o queue[u] \o Pending(r, u)
            = LogSince(NameOf(r), u)

-----------------------------------------------------------------------------
(* Refinement *)

RoomOf(u) == CHOOSE r \in Rooms : u \in members[r]
InRoom(u) == \E r \in Rooms : u \in members[r]

Promise == INSTANCE ChatRooms WITH
    said  <- log,
    place <- [u \in Workers |-> IF InRoom(u) THEN NameOf(RoomOf(u)) ELSE Nil],
    next  <- [u \in Workers |->
                IF InRoom(u) THEN since[u] + Len(got[u]) + 1 ELSE 1],
    heard <- got

\* The server implements rooms with one log each that members hear in order.
ImplementsChatRooms == Promise!Spec

Contents(s) == {s[i] : i \in DOMAIN s}

\* The queue of u as MessageQueue sees it: the other workers produce, u's
\* worker consumes.
QueueOf(u) == INSTANCE MessageQueue WITH
    Producers <- Workers \ {u},
    Consumers <- {u},
    owner     <- queueLock[u],
    avail     <- avail[u],
    messages  <- queue[u],
    pc        <- [t \in Workers |->
                    CASE t # u /\ dest[t] = u -> pc[t]
                      [] t = u /\ pc[t] \in {"wait", "blocked", "pop"} -> pc[t]
                      [] t = u /\ pc[t] = "claim" -> "lock"
                      [] t = u /\ pc[t] = "got" -> "ret"
                      [] OTHER -> "idle"],
    arg       <- [t \in Workers \ {u} |-> IF dest[t] = u THEN text[t] ELSE Nil],
    ret       <- [t \in {u} |-> IF pc[u] = "got" THEN delivery[u] ELSE Nil],
    sent      <- Contents(got[u] \o queue[u])
                    \cup {text[t] : t \in {s \in Workers : dest[s] = u}},
    taken     <- Contents(got[u])

\* The workers use each User's queue as the MessageQueue class allows:
\* what is checked and proved of MessageQueue holds of every queue here.
ImplementsQueues ==
    /\ \A u \in Receivers : QueueOf(u)!Init
    /\ [][\A u \in Receivers : [QueueOf(u)!Next]_(QueueOf(u)!vars)]_vars

-----------------------------------------------------------------------------
(* Progress *)

\* "Broadcasting does not block the sender" (README.txt): a broadcast ends
\* even if every receiver has stopped reading its connection.
BroadcastEnds == \A w \in Senders : pc[w] = "bcast" ~> pc[w] = "reply"

\* Whatever is broadcast in a room is eventually sent to each receiver that
\* was a member, unless its client closes.
EveryMemberHears ==
    ClientsRead => \A u \in Receivers, m \in Msg :
        (\E r \in Rooms : /\ u \in members[r]
                          /\ m \in Contents(LogSince(NameOf(r), u)))
        ~> \/ m \in Contents(got[u]) /\ delivery[u] # m
           \/ conn[u] # "open"

\* Once a write to a receiver that has gone was lost, one more message is
\* enough for the server to take it out of its room and delete its User.
GoneReceiverIsRemoved ==
    ClientsRead => \A u \in Receivers :
        conn[u] = "reset" /\ queue[u] # <<>> ~> user[u] = "freed"

\* "If the receiver disconnects, the server kicks it out of the room and
\* deletes its User object." (README.txt)
DisconnectedIsRemoved ==
    ClientsRead => \A u \in Receivers :
        conn[u] # "open" /\ InRoom(u) ~> user[u] = "freed"
=============================================================================
