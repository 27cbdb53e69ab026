------------------------- MODULE ChatServerProofs -------------------------
(***************************************************************************)
(* What is proved of ChatServer for any number of clients, rooms and       *)
(* messages: the types, the mutexes, the rooms, the lives of the users,    *)
(* the one order in which the members of a room hear it, that the server   *)
(* therefore implements ChatRooms, and that it uses every receiver's queue *)
(* as MessageQueue allows.                                                 *)
(***************************************************************************)
EXTENDS ChatServer, FiniteSetTheorems, SequenceTheorems, TLAPS

-----------------------------------------------------------------------------
(* Sequences *)

\* The first message of a queue, as a sequence of at most one.
LEMMA HeadSeq ==
    ASSUME NEW s \in Seq(Msg), s # <<>>
    PROVE  SubSeq(s, 1, 1) = <<Head(s)>> /\ Head(s) \in Msg
  <1>1. Len(s) \in Nat /\ Len(s) >= 1
    BY EmptySeq, SeqEqual
  <1>2. SubSeq(s, 1, 1) = <<s[1]>> \o SubSeq(s, 2, 1)
    BY <1>1, SubSeqRecursiveFirst
  <1>3. SubSeq(s, 2, 1) = <<>>
    BY SubSeqEmpty
  <1>4. s[1] \in Msg /\ Head(s) = s[1]
    BY <1>1, HeadTailProperties, ElementOfSeq
  <1>5. <<s[1]>> \o <<>> = <<s[1]>>
    BY <1>4, ConcatEmptySeq
  <1> QED BY <1>2, <1>3, <1>4, <1>5

\* An empty queue has none.
LEMMA EmptyHead ==
    ASSUME NEW s \in Seq(Msg), s = <<>>
    PROVE  SubSeq(s, 1, 1) = <<>>
  OBVIOUS

\* Either way it is a sequence of messages.
LEMMA FirstSeq ==
    ASSUME NEW s \in Seq(Msg)
    PROVE  SubSeq(s, 1, 1) \in Seq(Msg)
  <1>1. CASE s = <<>>
    BY <1>1, EmptyHead
  <1>2. CASE s # <<>>
    <2>1. <<Head(s)>> \in Seq(Msg)
      BY <1>2, HeadSeq
    <2> QED BY <1>2, <2>1, HeadSeq
  <1> QED BY <1>1, <1>2

\* The rest of a queue.
LEMMA TailSeq ==
    ASSUME NEW s \in Seq(Msg)
    PROVE  SubSeq(s, 2, Len(s)) \in Seq(Msg)
  OBVIOUS

-----------------------------------------------------------------------------
(* Types *)

\* The state in which the server starts is well typed.
LEMMA InitTypes == Init => TypeOK
  BY ChatAssumption
  DEF Init, TypeOK, Shapes, LocalsSet, PCs, FindPCs, RoomPCs, QueuePCs, MemberPCs

\* Closing and logging in keep the types.
LEMMA LoginTypes ==
    ASSUME TypeOK, NEW w \in Workers, ClientCloses(w) \/ LoginStep(w)
    PROVE  TypeOK'
  <1> USE ChatAssumption
      DEF TypeOK, Shapes, LocalsSet, PCs, FindPCs, RoomPCs, QueuePCs, MemberPCs,
          Goto, Finish, Send, sender, server, roomVars, userVars
  <1>1. CASE ClientCloses(w)
    BY <1>1 DEF ClientCloses
  <1>2. CASE Accept(w)
    BY <1>2 DEF Accept
  <1>3. CASE LoginSender(w)
    BY <1>3 DEF LoginSender
  <1>4. CASE LoginReceiver(w)
    BY <1>4 DEF LoginReceiver
  <1>5. CASE LoginRefused(w)
    BY <1>5 DEF LoginRefused
  <1> QED BY <1>1, <1>2, <1>3, <1>4, <1>5 DEF LoginStep

\* So do the commands of a sender up to the calls they make.
LEMMA CommandTypes ==
    ASSUME TypeOK, NEW w \in Workers, CommandStep(w)
    PROVE  TypeOK'
  <1> USE ChatAssumption
      DEF TypeOK, Shapes, LocalsSet, PCs, FindPCs, RoomPCs, QueuePCs, MemberPCs,
          Goto, Finish, Send, sender, server, roomVars, userVars
  <1>1. CASE SenderJoin(w)
    <2>1. PICK n \in Names : asked' = [asked EXCEPT ![w] = n]
      BY <1>1 DEF SenderJoin
    <2>2. Shapes'
      BY <1>1, <2>1 DEF SenderJoin
    <2>3. \A v \in Workers : LocalsSet(v)'
      BY ZenonT(30), <1>1, <2>1 DEF SenderJoin
    <2> QED BY <2>2, <2>3
  <1>2. CASE SenderSendall(w)
    <2> DEFINE m == [room |-> NameOf(room[w]), from |-> w, n |-> sends[w] + 1]
    <2>1. room[w] \in Rooms /\ sends[w] \in Nat /\ sends[w] < MaxSends
      BY <1>2 DEF SenderSendall
    <2>2. m \in Msg
      <3>1. NameOf(room[w]) \in Names
        BY <2>1 DEF Rooms, NameOf
      <3>2. sends[w] + 1 \in 1..MaxSends
        BY <2>1
      <3> QED BY <3>1, <3>2 DEF Msg
    <2>3. sends[w] + 1 \in 0..MaxSends
      BY <2>1
    <2>4. text' = [text EXCEPT ![w] = m]
      BY <1>2 DEF SenderSendall
    <2> HIDE DEF m
    <2>5. Shapes'
      BY <1>2, <2>2, <2>3, <2>4 DEF SenderSendall
    <2>6. \A v \in Workers : LocalsSet(v)'
      BY <1>2, <2>1, <2>2, <2>4 DEF SenderSendall
    <2> QED BY <2>5, <2>6
  <1>3. CASE SenderLeave(w)
    <2>5. Shapes'
      BY <1>3 DEF SenderLeave
    <2>6. \A v \in Workers : LocalsSet(v)'
      BY <1>3 DEF SenderLeave
    <2> QED BY <2>5, <2>6
  <1>4. CASE SenderRefused(w)
    BY <1>4 DEF SenderRefused
  <1>5. CASE Reply(w)
    BY <1>5 DEF Reply
  <1>6. CASE SenderEnds(w)
    BY <1>6 DEF SenderEnds
  <1> QED BY <1>1, <1>2, <1>3, <1>4, <1>5, <1>6 DEF CommandStep

\* So does the search for a room.
LEMMA FindTypes ==
    ASSUME TypeOK, NEW w \in Workers, FindStep(w)
    PROVE  TypeOK'
  <1> USE ChatAssumption
      DEF TypeOK, Shapes, LocalsSet, PCs, FindPCs, RoomPCs, QueuePCs, MemberPCs,
          Goto, Finish, Send, sender, server, roomVars, userVars
  <1>1. CASE FindLock(w)
    BY <1>1 DEF FindLock
  <1>2. CASE FindHit(w)
    <2>1. asked[w] \in Names /\ rooms[asked[w]] \in Rooms
      BY <1>2 DEF FindHit
    <2>5. Shapes'
      BY <1>2, <2>1 DEF FindHit, AfterFind
    <2>6. \A v \in Workers : LocalsSet(v)'
      BY <1>2, <2>1 DEF FindHit, AfterFind
    <2> QED BY <2>5, <2>6
  <1>3. CASE FindMiss(w)
    BY ZenonT(30), <1>3 DEF FindMiss
  <1>4. CASE CreateRoom(w)
    <2>1. asked[w] \in Names /\ <<w, asked[w]>> \in Rooms
      BY <1>4 DEF CreateRoom, Rooms
    <2>5. Shapes'
      BY <1>4, <2>1 DEF CreateRoom, AfterFind
    <2>6. \A v \in Workers : LocalsSet(v)'
      BY <1>4, <2>1 DEF CreateRoom, AfterFind
    <2> QED BY <2>5, <2>6
  <1> QED BY <1>1, <1>2, <1>3, <1>4 DEF FindStep

\* So does a broadcast.
LEMMA BroadcastTypes ==
    ASSUME TypeOK, NEW w \in Workers, BroadcastStep(w)
    PROVE  TypeOK'
  <1> USE ChatAssumption
      DEF TypeOK, Shapes, LocalsSet, PCs, FindPCs, RoomPCs, QueuePCs, MemberPCs,
          Goto, Finish, Send, sender, server, roomVars, userVars
  <1>1. CASE BroadcastLock(w)
    <2>1. room[w] \in Rooms /\ text[w] \in Msg /\ text[w].room \in Names
      BY <1>1 DEF BroadcastLock, Msg
    <2>2. log' \in [Names -> Seq(Msg)]
      <3>1. log' = [log EXCEPT ![text[w].room] = Append(@, text[w])]
        BY <1>1 DEF BroadcastLock
      <3>2. log \in [Names -> Seq(Msg)]
        OBVIOUS
      <3> QED BY ONLY <2>1, <3>1, <3>2
    <2>5. Shapes'
      BY <1>1, <2>1, <2>2 DEF BroadcastLock
    <2>6. \A v \in Workers : LocalsSet(v)'
      BY ZenonT(30), <1>1, <2>1 DEF BroadcastLock
    <2> QED BY <2>5, <2>6
  <1>2. CASE NextUser(w)
    <2>1. room[w] \in Rooms
      BY <1>2 DEF NextUser
    <2>2. PICK u \in members[room[w]] : dest' = [dest EXCEPT ![w] = u]
      BY <1>2 DEF NextUser
    <2>3. u \in Workers
      BY <2>1
    <2>4. Shapes'
      BY <1>2, <2>2, <2>3 DEF NextUser
    <2>5. \A v \in Workers : LocalsSet(v)'
      BY SMTT(20), <1>2, <2>2, <2>3 DEF NextUser
    <2> QED BY <2>4, <2>5
  <1>3. CASE EnqueueLock(w)
    <2>1. dest[w] \in Workers
      BY <1>3 DEF EnqueueLock
    <2>5. Shapes'
      BY SMTT(20), <1>3, <2>1 DEF EnqueueLock
    <2>6. \A v \in Workers : LocalsSet(v)'
      BY SMTT(20), <1>3 DEF EnqueueLock
    <2> QED BY <2>5, <2>6
  <1>4. CASE EnqueuePush(w)
    <2>1. dest[w] \in Workers /\ text[w] \in Msg
      BY <1>4 DEF EnqueuePush
    <2>2. queue' \in [Workers -> Seq(Msg)]
      BY <1>4, <2>1 DEF EnqueuePush
    <2>5. Shapes'
      BY <1>4, <2>1, <2>2 DEF EnqueuePush
    <2>6. \A v \in Workers : LocalsSet(v)'
      BY <1>4, <2>1, <2>2 DEF EnqueuePush
    <2> QED BY <2>5, <2>6
  <1>5. CASE EnqueuePost(w)
    <2>1. dest[w] \in Workers
      BY <1>5 DEF EnqueuePost
    <2>2. avail[dest[w]] + 1 \in Nat
      BY SMTT(20), <2>1
    <2>3. avail' \in [Workers -> Nat]
      BY <1>5, <2>1, <2>2 DEF EnqueuePost
    <2>4. visited' \in [Workers -> SUBSET Workers]
      BY <1>5, <2>1 DEF EnqueuePost
    <2>5. Shapes'
      BY <1>5, <2>3, <2>4 DEF EnqueuePost
    <2>6. \A v \in Workers : LocalsSet(v)'
      BY SMTT(20), <1>5, <2>1 DEF EnqueuePost
    <2> QED BY <2>5, <2>6
  <1>6. CASE BroadcastDone(w)
    BY <1>6 DEF BroadcastDone
  <1> QED BY <1>1, <1>2, <1>3, <1>4, <1>5, <1>6 DEF BroadcastStep

\* So does a receiver outside dequeue.
LEMMA MemberTypes ==
    ASSUME TypeOK, NEW w \in Workers, ReceiverStep(w), ~DequeueStep(w)
    PROVE  TypeOK'
  <1> USE ChatAssumption
      DEF TypeOK, Shapes, LocalsSet, PCs, FindPCs, RoomPCs, QueuePCs, MemberPCs,
          Goto, Finish, Send, sender, server, roomVars, userVars
  <1>1. CASE ReceiverJoin(w)
    <2>1. PICK n \in Names : asked' = [asked EXCEPT ![w] = n]
      BY <1>1 DEF ReceiverJoin
    <2>2. Shapes'
      BY <1>1, <2>1 DEF ReceiverJoin
    <2>3. \A v \in Workers : LocalsSet(v)'
      BY <1>1, <2>1 DEF ReceiverJoin
    <2> QED BY <2>2, <2>3
  <1>2. CASE ReceiverRefused(w)
    BY <1>2 DEF ReceiverRefused
  <1>3. CASE AddMember(w)
    <2>1. room[w] \in Rooms /\ NameOf(room[w]) \in Names
      BY <1>3 DEF AddMember, Rooms, NameOf
    <2>2. Len(log[NameOf(room[w])]) \in Nat
      BY <2>1
    <2>5. Shapes'
      BY SMTT(20), <1>3, <2>1, <2>2 DEF AddMember
    <2>6. \A v \in Workers : LocalsSet(v)'
      BY ZenonT(30), <1>3, <2>1, <2>2 DEF AddMember
    <2> QED BY <2>5, <2>6
  <1>4. CASE JoinedReply(w)
    BY <1>4 DEF JoinedReply
  <1>5. CASE SendDelivery(w)
    BY <1>5 DEF SendDelivery
  <1>6. CASE SendFails(w)
    BY <1>6 DEF SendFails
  <1>7. CASE RemoveMember(w)
    BY <1>7 DEF RemoveMember
  <1>8. CASE DeleteUser(w)
    BY <1>8 DEF DeleteUser
  <1> QED BY <1>1, <1>2, <1>3, <1>4, <1>5, <1>6, <1>7, <1>8 DEF ReceiverStep

\* So does a receiver inside dequeue.
LEMMA DequeueTypes ==
    ASSUME TypeOK, NEW w \in Workers, DequeueStep(w)
    PROVE  TypeOK'
  <1> USE ChatAssumption
      DEF TypeOK, Shapes, LocalsSet, PCs, FindPCs, RoomPCs, QueuePCs, MemberPCs,
          Goto, Finish, Send, sender, server, roomVars, userVars
  <1>1. CASE DequeueCall(w)
    BY <1>1 DEF DequeueCall
  <1>2. CASE SemTake(w)
    <2>1. avail[w] - 1 \in Nat
      BY <1>2 DEF SemTake
    <2>2. avail' = [avail EXCEPT ![w] = avail[w] - 1]
      BY <1>2 DEF SemTake
    <2>3. pc' = [pc EXCEPT ![w] = "claim"]
      BY <1>2 DEF SemTake
    <2>4. avail' \in [Workers -> Nat]
      BY <2>1, <2>2
    <2>5. Shapes'
      BY <1>2, <2>3, <2>4 DEF SemTake
    <2>6. \A v \in Workers : LocalsSet(v)'
      BY <1>2, <2>3 DEF SemTake
    <2> QED BY <2>5, <2>6
  <1>3. CASE SemBlock(w)
    BY <1>3 DEF SemBlock
  <1>4. CASE SemTimeout(w)
    BY <1>4 DEF SemTimeout
  <1>5. CASE DequeueLock(w)
    BY <1>5 DEF DequeueLock
  <1>6. CASE DequeuePop(w)
    <2>1. queue[w] \in Seq(Msg) /\ got[w] \in Seq(Msg)
      BY <1>6
    <2>2. got[w] \o SubSeq(queue[w], 1, 1) \in Seq(Msg)
      <3>1. SubSeq(queue[w], 1, 1) \in Seq(Msg)
        BY <2>1, FirstSeq
      <3> QED BY <2>1, <3>1, ConcatProperties
    <2>3. SubSeq(queue[w], 2, Len(queue[w])) \in Seq(Msg)
      BY <2>1, TailSeq
    <2>4. (IF queue[w] = <<>> THEN Nil ELSE Head(queue[w])) \in Msg \cup {Nil}
      BY <2>1
    <2>5. Shapes'
      BY <1>6, <2>1, <2>2, <2>3, <2>4 DEF DequeuePop
    <2>6. \A v \in Workers : LocalsSet(v)'
      BY <1>6, <2>1 DEF DequeuePop
    <2> QED BY <2>5, <2>6
  <1>7. CASE NothingReady(w)
    BY ZenonT(30), <1>7 DEF NothingReady
  <1> QED BY <1>1, <1>2, <1>3, <1>4, <1>5, <1>6, <1>7 DEF DequeueStep

\* Every step keeps the types.
LEMMA StepTypes == TypeOK /\ [Next]_vars => TypeOK'
  <1> SUFFICES ASSUME TypeOK, [Next]_vars PROVE TypeOK'
    OBVIOUS
  <1>1. ASSUME NEW w \in Workers, Step(w) PROVE TypeOK'
    BY <1>1, LoginTypes, CommandTypes, FindTypes, BroadcastTypes, MemberTypes,
       DequeueTypes
    DEF Step
  <1>2. CASE UNCHANGED vars
    BY <1>2 DEF vars, sender, server, roomVars, userVars, TypeOK, Shapes, LocalsSet
  <1> QED BY <1>1, <1>2 DEF Next, OnlyAccepting

\* Every variable, and every local variable where it is used, holds a value of
\* its type, in every state the server reaches.
THEOREM TypeCorrect == Spec => []TypeOK
  BY InitTypes, StepTypes, PTL DEF Spec

-----------------------------------------------------------------------------
(* Locks *)

\* No lock is held when the server starts.
LEMMA InitLocks == Init => LocksHeld
  BY ChatAssumption
  DEF Init, LocksHeld, ServerLocked, RoomsLocked, QueuesLocked, InServer,
      InMembers, InMessages, RoomPCs

\* What Goto does to the program counters.
LEMMA Moves ==
    ASSUME TypeOK, NEW w \in Workers, NEW from, NEW to, Goto(w, from, to)
    PROVE  /\ pc[w] = from /\ pc'[w] = to
           /\ \A v \in Workers : v # w => pc'[v] = pc[v]
  BY DEF TypeOK, Shapes, Goto

\* A step of w that neither enters nor leaves the server's section.
LEMMA ServerFrame ==
    ASSUME ServerLocked, NEW w \in Workers,
           pc[w] \notin {"lookup", "create"}, pc'[w] \notin {"lookup", "create"},
           \A v \in Workers : v # w => pc'[v] = pc[v],
           UNCHANGED serverLock
    PROVE  ServerLocked'
  BY DEF ServerLocked, InServer

\* A step of w that neither enters nor leaves a Room's section.
LEMMA RoomFrame ==
    ASSUME RoomsLocked, NEW w \in Workers,
           \/ pc[w] \notin RoomPCs /\ pc'[w] \notin RoomPCs
           \/ pc[w] \in RoomPCs /\ pc'[w] \in RoomPCs /\ room'[w] = room[w],
           \A v \in Workers : v # w => pc'[v] = pc[v] /\ room'[v] = room[v],
           UNCHANGED roomLock
    PROVE  RoomsLocked'
  BY DEF RoomsLocked, InMembers

\* A step of w outside the sections of the queues.
LEMMA QueueFrame ==
    ASSUME QueuesLocked, NEW w \in Workers,
           pc[w] \notin {"push", "pop"}, pc'[w] \notin {"push", "pop"},
           \A v \in Workers : v # w => pc'[v] = pc[v] /\ dest'[v] = dest[v],
           UNCHANGED queueLock
    PROVE  QueuesLocked'
  BY DEF QueuesLocked, InMessages

\* Every step keeps the server's mutex with the worker inside its section.
LEMMA ServerLockSteps ==
    ASSUME TypeOK, ServerLocked, NEW w \in Workers, Step(w)
    PROVE  ServerLocked'
  <1> USE DEF TypeOK, Shapes, Goto, Finish, sender, server, roomVars, userVars, InServer
  <1>1. CASE ClientCloses(w)
    BY <1>1 DEF ClientCloses, ServerLocked
  <1>2. CASE LoginStep(w)
    BY <1>2, ServerFrame DEF LoginStep, Accept, LoginSender, LoginReceiver, LoginRefused
  <1>3. CASE CommandStep(w)
    BY <1>3, ServerFrame DEF CommandStep, SenderJoin, SenderSendall, SenderLeave, SenderRefused,
        Reply, SenderEnds
  <1>4. CASE BroadcastStep(w)
    BY ZenonT(30), <1>4, ServerFrame DEF BroadcastStep, BroadcastLock, NextUser, EnqueueLock, EnqueuePush,
        EnqueuePost, BroadcastDone
  <1>5. CASE DequeueStep(w)
    BY <1>5, ServerFrame DEF DequeueStep, DequeueCall, SemTake, SemBlock, SemTimeout,
        DequeueLock, DequeuePop, NothingReady
  <1>6. CASE ReceiverStep(w) /\ ~DequeueStep(w)
    BY <1>6, ServerFrame DEF ReceiverStep, ReceiverJoin, ReceiverRefused, AddMember, JoinedReply,
        SendDelivery, SendFails, RemoveMember, DeleteUser
  <1>7. CASE FindStep(w)
    <2>1. CASE FindLock(w)
      BY <2>1, ChatAssumption DEF FindLock, ServerLocked
    <2>2. CASE FindHit(w)
      BY <2>2, ChatAssumption DEF FindHit, AfterFind, ServerLocked
    <2>3. CASE FindMiss(w)
      BY <2>3 DEF FindMiss, ServerLocked
    <2>4. CASE CreateRoom(w)
      BY <2>4, ChatAssumption DEF CreateRoom, AfterFind, ServerLocked
    <2> QED BY <1>7, <2>1, <2>2, <2>3, <2>4 DEF FindStep
  <1> QED BY <1>1, <1>2, <1>3, <1>4, <1>5, <1>6, <1>7 DEF Step

\* Every step keeps a Room's mutex with the worker inside its section.
LEMMA RoomLockSteps ==
    ASSUME TypeOK, RoomsLocked, NEW w \in Workers, Step(w)
    PROVE  RoomsLocked'
  <1> USE DEF TypeOK, Shapes, Goto, Finish, sender, server, roomVars, userVars, RoomPCs
  <1>1. CASE ClientCloses(w)
    BY <1>1, RoomFrame DEF ClientCloses
  <1>2. CASE LoginStep(w)
    BY <1>2, RoomFrame DEF LoginStep, Accept, LoginSender, LoginReceiver, LoginRefused
  <1>3. CASE CommandStep(w)
    BY <1>3, RoomFrame DEF CommandStep, SenderJoin, SenderSendall, SenderLeave, SenderRefused,
        Reply, SenderEnds
  <1>4. CASE FindStep(w)
    BY <1>4, RoomFrame DEF FindStep, FindLock, FindHit, FindMiss, CreateRoom, AfterFind
  <1>5. CASE DequeueStep(w)
    BY <1>5, RoomFrame DEF DequeueStep, DequeueCall, SemTake, SemBlock, SemTimeout,
        DequeueLock, DequeuePop, NothingReady
  <1>6. CASE ReceiverStep(w) /\ ~DequeueStep(w)
    BY ZenonT(30), <1>6, RoomFrame DEF ReceiverStep, ReceiverJoin, ReceiverRefused, AddMember, JoinedReply,
        SendDelivery, SendFails, RemoveMember, DeleteUser
  <1>7. CASE BroadcastLock(w)
    <2>1. room[w] \in Rooms
      BY <1>7 DEF BroadcastLock, LocalsSet
    <2> QED BY SMTT(20), <1>7, <2>1, ChatAssumption DEF BroadcastLock, RoomsLocked, InMembers
  <1>8. CASE BroadcastDone(w)
    <2>1. room[w] \in Rooms
      BY <1>8 DEF BroadcastDone, LocalsSet
    <2> QED BY <1>8, <2>1, ChatAssumption DEF BroadcastDone, RoomsLocked, InMembers
  <1>9. CASE NextUser(w) \/ EnqueueLock(w) \/ EnqueuePush(w) \/ EnqueuePost(w)
    BY <1>9, RoomFrame DEF NextUser, EnqueueLock, EnqueuePush, EnqueuePost
  <1> QED BY <1>1, <1>2, <1>3, <1>4, <1>5, <1>6, <1>7, <1>8, <1>9 DEF Step, BroadcastStep

\* Every step keeps a queue's mutex with the worker inside its section.
LEMMA QueueLockSteps ==
    ASSUME TypeOK, QueuesLocked, NEW w \in Workers, Step(w)
    PROVE  QueuesLocked'
  <1> USE DEF TypeOK, Shapes, Goto, Finish, sender, server, roomVars, userVars
  <1>1. CASE ClientCloses(w)
    BY <1>1 DEF ClientCloses, QueuesLocked, InMessages
  <1>2. CASE LoginStep(w)
    BY <1>2, QueueFrame DEF LoginStep, Accept, LoginSender, LoginReceiver, LoginRefused
  <1>3. CASE CommandStep(w)
    BY <1>3, QueueFrame DEF CommandStep, SenderJoin, SenderSendall, SenderLeave, SenderRefused,
        Reply, SenderEnds
  <1>4. CASE FindStep(w)
    BY <1>4, QueueFrame DEF FindStep, FindLock, FindHit, FindMiss, CreateRoom, AfterFind
  <1>5. CASE ReceiverStep(w) /\ ~DequeueStep(w)
    BY ZenonT(30), <1>5, QueueFrame DEF ReceiverStep, ReceiverJoin, ReceiverRefused, AddMember, JoinedReply,
        SendDelivery, SendFails, RemoveMember, DeleteUser
  <1>6. CASE \/ BroadcastLock(w) \/ NextUser(w) \/ EnqueuePost(w)
             \/ BroadcastDone(w)
    BY ZenonT(30), <1>6, QueueFrame DEF BroadcastLock, NextUser, EnqueuePost, BroadcastDone
  <1>7. CASE EnqueueLock(w)
    <2>1. pc[w] = "lock" /\ dest[w] \in Workers
      BY <1>7 DEF EnqueueLock, LocalsSet, QueuePCs
    <2>2. /\ pc'[w] = "push"
          /\ \A v \in Workers : v # w => pc'[v] = pc[v]
      BY <1>7 DEF EnqueueLock
    <2>3. /\ queueLock'[dest[w]] = w
          /\ \A u \in Workers : u # dest[w] => queueLock'[u] = queueLock[u]
      BY <1>7, <2>1 DEF EnqueueLock
    <2>4. dest' = dest /\ queueLock[dest[w]] = Nil
      BY <1>7 DEF EnqueueLock
    <2> HIDE DEF TypeOK, Goto
    <2> QED BY <2>1, <2>2, <2>3, <2>4, ChatAssumption DEF QueuesLocked, InMessages
  <1>8. CASE EnqueuePush(w)
    <2>1. pc[w] = "push" /\ dest[w] \in Workers
      BY <1>8 DEF EnqueuePush, LocalsSet, QueuePCs
    <2>2. /\ pc'[w] = "post"
          /\ \A v \in Workers : v # w => pc'[v] = pc[v]
      BY <1>8 DEF EnqueuePush
    <2>3. /\ queueLock'[dest[w]] = Nil
          /\ \A u \in Workers : u # dest[w] => queueLock'[u] = queueLock[u]
      BY <1>8, <2>1 DEF EnqueuePush
    <2>4. dest' = dest
      BY <1>8 DEF EnqueuePush
    <2> HIDE DEF TypeOK, Goto
    <2> QED BY <2>1, <2>2, <2>3, <2>4, ChatAssumption DEF QueuesLocked, InMessages
  <1>9. CASE \/ DequeueCall(w) \/ SemTake(w) \/ SemBlock(w) \/ SemTimeout(w)
             \/ NothingReady(w)
    BY <1>9, QueueFrame
    DEF DequeueCall, SemTake, SemBlock, SemTimeout, NothingReady
  <1>10. CASE DequeueLock(w)
    <2>1. pc[w] = "claim" /\ w \in Workers
      BY <1>10 DEF DequeueLock, LocalsSet, QueuePCs
    <2>2. /\ pc'[w] = "pop"
          /\ \A v \in Workers : v # w => pc'[v] = pc[v]
      BY <1>10 DEF DequeueLock
    <2>3. /\ queueLock'[w] = w
          /\ \A u \in Workers : u # w => queueLock'[u] = queueLock[u]
      BY <1>10, <2>1 DEF DequeueLock
    <2>4. dest' = dest /\ queueLock[w] = Nil
      BY <1>10 DEF DequeueLock
    <2> HIDE DEF TypeOK, Goto
    <2> QED BY <2>1, <2>2, <2>3, <2>4, ChatAssumption DEF QueuesLocked, InMessages
  <1>11. CASE DequeuePop(w)
    <2>1. pc[w] = "pop" /\ w \in Workers
      BY <1>11 DEF DequeuePop, LocalsSet, QueuePCs
    <2>2. /\ pc'[w] = "got"
          /\ \A v \in Workers : v # w => pc'[v] = pc[v]
      BY <1>11 DEF DequeuePop
    <2>3. /\ queueLock'[w] = Nil
          /\ \A u \in Workers : u # w => queueLock'[u] = queueLock[u]
      BY <1>11, <2>1 DEF DequeuePop
    <2>4. dest' = dest
      BY <1>11 DEF DequeuePop
    <2> HIDE DEF TypeOK, Goto
    <2> QED BY <2>1, <2>2, <2>3, <2>4, ChatAssumption DEF QueuesLocked, InMessages
  <1> QED BY <1>1, <1>2, <1>3, <1>4, <1>5, <1>6, <1>7, <1>8, <1>9, <1>10, <1>11
          DEF Step, BroadcastStep, DequeueStep

\* Each mutex is held by exactly the worker inside its section: no shared
\* structure is touched without its lock, by however many threads.
THEOREM LockDiscipline == Spec => []LocksHeld
  <1>1. TypeOK /\ LocksHeld /\ [Next]_vars => LocksHeld'
    <2> SUFFICES ASSUME TypeOK, LocksHeld, [Next]_vars PROVE LocksHeld'
      OBVIOUS
    <2>1. ASSUME NEW w \in Workers, Step(w) PROVE LocksHeld'
      BY <2>1, ServerLockSteps, RoomLockSteps, QueueLockSteps DEF LocksHeld
    <2>2. CASE UNCHANGED vars
      BY <2>2
      DEF vars, sender, server, roomVars, userVars, LocksHeld, ServerLocked,
          RoomsLocked, QueuesLocked, InServer, InMembers, InMessages
    <2> QED BY <2>1, <2>2 DEF Next, OnlyAccepting
  <1> QED BY <1>1, InitLocks, TypeCorrect, PTL DEF Spec

-----------------------------------------------------------------------------
(* The rooms *)

\* Why there is one Room per name: what m_rooms holds for a name is a Room of
\* that name, and a worker that is about to insert one found none.
Registered ==
    /\ \A n \in Names : rooms[n] # Nil => NameOf(rooms[n]) = n
    /\ \A w \in Workers : pc[w] = "create" => rooms[asked[w]] = Nil

RoomsInv == OneRoomPerName /\ Registered

\* Steps that neither read nor write m_rooms.
LEMMA RoomsFrame ==
    ASSUME TypeOK, RoomsInv, NEW w \in Workers,
           UNCHANGED <<rooms, asked>>, pc'[w] # "create",
           room'[w] \in {room[w], Nil},
           \A v \in Workers : v # w => pc'[v] = pc[v] /\ room'[v] = room[v]
    PROVE  RoomsInv'
  <1>1. Registered'
    BY DEF RoomsInv, Registered
  <1>2. ASSUME NEW v \in Workers, room'[v] # Nil
        PROVE  rooms'[NameOf(room'[v])] = room'[v]
    <2>1. room'[v] = room[v] /\ rooms' = rooms
      BY <1>2
    <2> QED BY <1>2, <2>1 DEF RoomsInv, OneRoomPerName
  <1> QED BY <1>1, <1>2 DEF RoomsInv, OneRoomPerName

\* Every step keeps one Room per name; the insertion does because the mutex is
\* held from the look-up on.
LEMMA RoomsSteps ==
    ASSUME TypeOK, ServerLocked, RoomsInv, NEW w \in Workers, Step(w)
    PROVE  RoomsInv'
  <1> USE DEF TypeOK, Shapes, Goto, Finish, sender, server, roomVars, userVars
  <1>1. CASE ClientCloses(w)
    BY <1>1 DEF ClientCloses, RoomsInv, Registered, OneRoomPerName
  <1>2. CASE LoginStep(w)
    BY <1>2, RoomsFrame
    DEF LoginStep, Accept, LoginSender, LoginReceiver, LoginRefused
  <1>3. CASE SenderJoin(w) \/ ReceiverJoin(w)
    <2>1. /\ pc'[w] = "find"
          /\ \A v \in Workers : v # w => pc'[v] = pc[v] /\ asked'[v] = asked[v]
          /\ UNCHANGED <<rooms, room>>
      BY <1>3 DEF SenderJoin, ReceiverJoin
    <2> QED BY <2>1 DEF RoomsInv, Registered, OneRoomPerName
  <1>4. CASE CommandStep(w) /\ ~SenderJoin(w)
    BY <1>4, RoomsFrame
    DEF CommandStep, SenderSendall, SenderLeave, SenderRefused, Reply, SenderEnds
  <1>5. CASE BroadcastStep(w)
    BY ZenonT(30), <1>5, RoomsFrame
    DEF BroadcastStep, BroadcastLock, NextUser, EnqueueLock, EnqueuePush,
        EnqueuePost, BroadcastDone
  <1>6. CASE DequeueStep(w)
    BY <1>6, RoomsFrame
    DEF DequeueStep, DequeueCall, SemTake, SemBlock, SemTimeout, DequeueLock,
        DequeuePop, NothingReady
  <1>7. CASE ReceiverStep(w) /\ ~DequeueStep(w) /\ ~ReceiverJoin(w)
    BY <1>7, RoomsFrame
    DEF ReceiverStep, ReceiverRefused, AddMember, JoinedReply, SendDelivery,
        SendFails, RemoveMember, DeleteUser
  <1>8. CASE FindLock(w)
    BY <1>8, RoomsFrame DEF FindLock
  <1>9. CASE FindHit(w)
    <2>1. asked[w] \in Names
      BY <1>9 DEF FindHit, LocalsSet, FindPCs
    <2> QED BY <1>9, <2>1
            DEF FindHit, AfterFind, RoomsInv, Registered, OneRoomPerName
  <1>10. CASE FindMiss(w)
    BY <1>10 DEF FindMiss, RoomsInv, Registered, OneRoomPerName
  <1>11. CASE CreateRoom(w)
    <2> DEFINE n == asked[w]
    <2>1. /\ n \in Names
          /\ rooms[n] = Nil
      BY <1>11 DEF CreateRoom, LocalsSet, FindPCs, RoomsInv, Registered
    <2>2. /\ rooms'[n] = <<w, n>>
          /\ \A m \in Names : m # n => rooms'[m] = rooms[m]
      BY <1>11, <2>1 DEF CreateRoom
    <2>3. NameOf(<<w, n>>) = n /\ <<w, n>> \in Rooms
      BY <2>1 DEF NameOf, Rooms
    <2>4. /\ room'[w] = <<w, n>>
          /\ \A v \in Workers : v # w => room'[v] = room[v]
      BY <1>11 DEF CreateRoom
    <2>5. \A v \in Workers : v # w => pc[v] # "create"
      BY <1>11 DEF CreateRoom, ServerLocked, InServer
    <2>6. \A v \in Workers : pc'[v] # "create"
      BY <1>11, <2>5 DEF CreateRoom, AfterFind
    <2>7. Registered'
      BY <2>2, <2>3, <2>6 DEF RoomsInv, Registered
    <2>8. \A v \in Workers : room[v] # Nil => NameOf(room[v]) \in Names
      BY DEF NameOf, Rooms
    <2>9. OneRoomPerName'
      BY ZenonT(30), <2>1, <2>2, <2>3, <2>4, <2>8 DEF RoomsInv, OneRoomPerName
    <2> QED BY <2>7, <2>9 DEF RoomsInv
  <1> QED
    BY <1>1, <1>2, <1>3, <1>4, <1>5, <1>6, <1>7, <1>8, <1>9, <1>10, <1>11
    DEF Step, FindStep, ReceiverStep, CommandStep

\* The invariant holds of every state the server reaches.
LEMMA RoomsHold == Spec => []RoomsInv
  <1>1. Init => RoomsInv
    BY DEF Init, RoomsInv, Registered, OneRoomPerName
  <1>2. TypeOK /\ LocksHeld /\ RoomsInv /\ [Next]_vars => RoomsInv'
    <2> SUFFICES ASSUME TypeOK, ServerLocked, RoomsInv, [Next]_vars PROVE RoomsInv'
      BY DEF LocksHeld
    <2>1. ASSUME NEW w \in Workers, Step(w) PROVE RoomsInv'
      BY <2>1, RoomsSteps
    <2>2. CASE UNCHANGED vars
      BY <2>2 DEF vars, sender, server, roomVars, userVars, RoomsInv, Registered,
                  OneRoomPerName
    <2> QED BY <2>1, <2>2 DEF Next, OnlyAccepting
  <1> QED BY <1>1, <1>2, TypeCorrect, LockDiscipline, PTL DEF Spec

\* However the joins interleave, all workers in a room of one name share the
\* one Room object that m_rooms has for it.
THEOREM RoomsAreShared == Spec => []OneRoomPerName
  <1>1. RoomsInv => OneRoomPerName
    BY DEF RoomsInv
  <1> QED BY <1>1, RoomsHold, PTL

-----------------------------------------------------------------------------
(* The members *)

\* Why a User can be deleted without a lock: the members of a Room are
\* receivers between add_member and remove_member, their Users are live until
\* the worker is past remove_member, and a broadcast fills the queue of a
\* member, which cannot be removed while the broadcast holds the Room's mutex.
MembersInside == \A r \in Rooms : \A u \in members[r] :
                    pc[u] \in MemberPCs /\ room[u] = r
ReceiversLive == \A u \in Workers : pc[u] \in ReceiverPCs => user[u] = "live"
DestIsMember  == \A w \in Workers :
                    pc[w] \in QueuePCs => dest[w] \in members[room[w]]

MembersInv == MembersInside /\ ReceiversLive /\ DestIsMember

\* A step of w that is no entry to or exit from a Room.
LEMMA InsideFrame ==
    ASSUME TypeOK, MembersInside, NEW w \in Workers, UNCHANGED members,
           pc[w] \in MemberPCs => pc'[w] \in MemberPCs /\ room'[w] = room[w],
           \A v \in Workers : v # w => pc'[v] = pc[v] /\ room'[v] = room[v]
    PROVE  MembersInside'
  BY DEF TypeOK, Shapes, MembersInside

\* Every step keeps the members of a Room between add_member and remove_member.
LEMMA InsideSteps ==
    ASSUME TypeOK, MembersInside, NEW w \in Workers, Step(w)
    PROVE  MembersInside'
  <1> USE DEF TypeOK, Shapes, Goto, Finish, sender, server, roomVars, userVars,
              MemberPCs
  <1>1. CASE ClientCloses(w)
    BY <1>1 DEF ClientCloses, MembersInside
  <1>2. CASE LoginStep(w)
    BY <1>2, InsideFrame
    DEF LoginStep, Accept, LoginSender, LoginReceiver, LoginRefused
  <1>3. CASE CommandStep(w)
    BY <1>3, InsideFrame
    DEF CommandStep, SenderJoin, SenderSendall, SenderLeave, SenderRefused,
        Reply, SenderEnds
  <1>4. CASE FindStep(w)
    BY <1>4, InsideFrame
    DEF FindStep, FindLock, FindHit, FindMiss, CreateRoom
  <1>5. CASE BroadcastStep(w)
    BY <1>5, InsideFrame
    DEF BroadcastStep, BroadcastLock, NextUser, EnqueueLock, EnqueuePush,
        EnqueuePost, BroadcastDone
  <1>6. CASE DequeueStep(w)
    BY <1>6, InsideFrame
    DEF DequeueStep, DequeueCall, SemTake, SemBlock, SemTimeout, DequeueLock,
        DequeuePop, NothingReady
  <1>7. CASE ReceiverStep(w) /\ ~DequeueStep(w) /\ ~AddMember(w) /\ ~RemoveMember(w)
    BY <1>7, InsideFrame
    DEF ReceiverStep, ReceiverJoin, ReceiverRefused, JoinedReply, SendDelivery,
        SendFails, DeleteUser
  <1>8. CASE AddMember(w)
    <2>1. room[w] \in Rooms
      BY <1>8 DEF AddMember, LocalsSet
    <2> QED BY <1>8, <2>1 DEF AddMember, MembersInside
  <1>9. CASE RemoveMember(w)
    <2>1. room[w] \in Rooms
      BY <1>9 DEF RemoveMember, LocalsSet
    <2> QED BY <1>9, <2>1 DEF RemoveMember, MembersInside
  <1> QED BY <1>1, <1>2, <1>3, <1>4, <1>5, <1>6, <1>7, <1>8, <1>9
          DEF Step, ReceiverStep

\* A step of w that does not make it a receiver nor end the life of its User.
LEMMA LiveFrame ==
    ASSUME TypeOK, ReceiversLive, NEW w \in Workers,
           pc'[w] \in ReceiverPCs => pc[w] \in ReceiverPCs /\ user'[w] = user[w],
           \A v \in Workers : v # w => pc'[v] = pc[v] /\ user'[v] = user[v]
    PROVE  ReceiversLive'
  BY DEF ReceiversLive

\* Every step keeps the User of a receiver live.
LEMMA LiveSteps ==
    ASSUME TypeOK, ReceiversLive, NEW w \in Workers, Step(w)
    PROVE  ReceiversLive'
  <1> USE DEF TypeOK, Shapes, Goto, Finish, sender, server, roomVars, userVars,
              MemberPCs, ReceiverPCs
  <1>1. CASE ClientCloses(w)
    BY <1>1 DEF ClientCloses, ReceiversLive
  <1>2. CASE LoginReceiver(w)
    BY <1>2 DEF LoginReceiver, ReceiversLive
  <1>3. CASE LoginStep(w) /\ ~LoginReceiver(w)
    BY <1>3, LiveFrame DEF LoginStep, Accept, LoginSender, LoginRefused
  <1>4. CASE CommandStep(w)
    BY ZenonT(30), <1>4, LiveFrame
    DEF CommandStep, SenderJoin, SenderSendall, SenderLeave, SenderRefused,
        Reply, SenderEnds
  <1>5. CASE FindStep(w)
    BY SMTT(20), <1>5
    DEF FindStep, FindLock, FindHit, FindMiss, CreateRoom, AfterFind,
        ReceiversLive
  <1>6. CASE BroadcastStep(w)
    <2>1. /\ pc'[w] \in RoomPCs \cup {"reply"}
          /\ \A v \in Workers : v # w => pc'[v] = pc[v]
          /\ UNCHANGED user
      BY <1>6
      DEF BroadcastStep, BroadcastLock, NextUser, EnqueueLock, EnqueuePush,
          EnqueuePost, BroadcastDone, RoomPCs
    <2> QED BY <2>1, LiveFrame DEF RoomPCs
  <1>7. CASE DequeueStep(w)
    BY <1>7, LiveFrame
    DEF DequeueStep, DequeueCall, SemTake, SemBlock, SemTimeout, DequeueLock,
        DequeuePop, NothingReady
  <1>8. CASE ReceiverStep(w) /\ ~DequeueStep(w)
    BY ZenonT(30), <1>8, LiveFrame
    DEF ReceiverStep, ReceiverJoin, ReceiverRefused, AddMember, JoinedReply,
        SendDelivery, SendFails, RemoveMember, DeleteUser
  <1> QED BY <1>1, <1>2, <1>3, <1>4, <1>5, <1>6, <1>7, <1>8 DEF Step

\* A step of w that leaves it outside enqueue and removes no member.
LEMMA DestFrame ==
    ASSUME TypeOK, DestIsMember, NEW w \in Workers, pc'[w] \notin QueuePCs,
           \A r \in Rooms : members[r] \subseteq members'[r],
           \A v \in Workers : v # w =>
              pc'[v] = pc[v] /\ room'[v] = room[v] /\ dest'[v] = dest[v]
    PROVE  DestIsMember'
  <1> SUFFICES ASSUME NEW v \in Workers, pc'[v] \in QueuePCs
               PROVE  dest'[v] \in members'[room'[v]]
    BY DEF DestIsMember
  <1>1. v # w /\ pc[v] \in QueuePCs
    OBVIOUS
  <1>2. room[v] \in Rooms
    BY <1>1 DEF TypeOK, LocalsSet, QueuePCs, RoomPCs
  <1> QED BY <1>1, <1>2 DEF DestIsMember

\* Every step keeps the queue that a broadcast is filling that of a member.
LEMMA DestSteps ==
    ASSUME TypeOK, RoomsLocked, DestIsMember, NEW w \in Workers, Step(w)
    PROVE  DestIsMember'
  <1> USE DEF TypeOK, Shapes, Goto, Finish, sender, server, roomVars, userVars,
              QueuePCs
  <1>1. CASE ClientCloses(w)
    BY <1>1 DEF ClientCloses, DestIsMember
  <1>2. CASE LoginStep(w)
    BY <1>2, DestFrame
    DEF LoginStep, Accept, LoginSender, LoginReceiver, LoginRefused
  <1>3. CASE CommandStep(w)
    BY <1>3, DestFrame
    DEF CommandStep, SenderJoin, SenderSendall, SenderLeave, SenderRefused,
        Reply, SenderEnds
  <1>4. CASE FindStep(w)
    BY <1>4, DestFrame
    DEF FindStep, FindLock, FindHit, FindMiss, CreateRoom, AfterFind
  <1>5. CASE NextUser(w)
    <2>1. PICK u \in members[room[w]] : dest' = [dest EXCEPT ![w] = u]
      BY <1>5 DEF NextUser
    <2> QED BY <1>5, <2>1 DEF NextUser, DestIsMember
  <1>6. CASE EnqueueLock(w) \/ EnqueuePush(w)
    <2>1. /\ pc[w] \in QueuePCs
          /\ \A v \in Workers : v # w => pc'[v] = pc[v]
          /\ UNCHANGED <<dest, room, members>>
      BY <1>6 DEF EnqueueLock, EnqueuePush
    <2> QED BY <2>1 DEF DestIsMember
  <1>7. CASE BroadcastLock(w) \/ EnqueuePost(w) \/ BroadcastDone(w)
    BY ZenonT(30), <1>7, DestFrame DEF BroadcastLock, EnqueuePost, BroadcastDone
  <1>8. CASE DequeueStep(w)
    BY <1>8, DestFrame
    DEF DequeueStep, DequeueCall, SemTake, SemBlock, SemTimeout, DequeueLock,
        DequeuePop, NothingReady
  <1>9. CASE AddMember(w)
    <2>1. \A r \in Rooms : members[r] \subseteq members'[r]
      BY <1>9 DEF AddMember
    <2> QED BY <1>9, <2>1, DestFrame DEF AddMember
  <1>10. CASE RemoveMember(w)
    <2>1. room[w] \in Rooms /\ roomLock[room[w]] = Nil
      BY <1>10 DEF RemoveMember, LocalsSet, MemberPCs
    <2>2. ASSUME NEW v \in Workers, pc'[v] \in QueuePCs
          PROVE  dest'[v] \in members'[room'[v]]
      <3>1. v # w /\ pc[v] \in QueuePCs
        BY <1>10, <2>2 DEF RemoveMember
      <3>2. room[v] \in Rooms
        BY <3>1 DEF LocalsSet, RoomPCs
      <3>3. roomLock[room[v]] = v
        BY <3>1, <3>2 DEF RoomsLocked, InMembers, RoomPCs
      <3>4. room[v] # room[w]
        BY <2>1, <3>3, ChatAssumption
      <3>5. /\ dest'[v] = dest[v]
            /\ room'[v] = room[v]
            /\ members'[room[v]] = members[room[v]]
        BY <1>10, <3>2, <3>4 DEF RemoveMember
      <3> QED BY <3>1, <3>5 DEF DestIsMember
    <2> QED BY <2>2 DEF DestIsMember
  <1>11. CASE ReceiverStep(w) /\ ~DequeueStep(w) /\ ~AddMember(w) /\ ~RemoveMember(w)
    BY <1>11, DestFrame
    DEF ReceiverStep, ReceiverJoin, ReceiverRefused, JoinedReply, SendDelivery,
        SendFails, DeleteUser
  <1> QED
    BY <1>1, <1>2, <1>3, <1>4, <1>5, <1>6, <1>7, <1>8, <1>9, <1>10, <1>11
    DEF Step, BroadcastStep, ReceiverStep

\* The invariant holds of every state the server reaches.
LEMMA MembersHold == Spec => []MembersInv
  <1>1. Init => MembersInv
    BY DEF Init, MembersInv, MembersInside, ReceiversLive, DestIsMember,
           ReceiverPCs, MemberPCs, QueuePCs
  <1>2. TypeOK /\ LocksHeld /\ MembersInv /\ [Next]_vars => MembersInv'
    <2> SUFFICES ASSUME TypeOK, RoomsLocked, MembersInv, [Next]_vars
                 PROVE  MembersInv'
      BY DEF LocksHeld
    <2>1. ASSUME NEW w \in Workers, Step(w) PROVE MembersInv'
      BY <2>1, InsideSteps, LiveSteps, DestSteps DEF MembersInv
    <2>2. CASE UNCHANGED vars
      BY <2>2 DEF vars, sender, server, roomVars, userVars, MembersInv,
                  MembersInside, ReceiversLive, DestIsMember
    <2> QED BY <2>1, <2>2 DEF Next, OnlyAccepting
  <1> QED BY <1>1, <1>2, TypeCorrect, LockDiscipline, PTL DEF Spec

\* A User is freed only when no Room points to it and no broadcast is inside
\* its queue, for any number of clients and in whatever order they come and go.
THEOREM UsersAreSafe == Spec => []NoUseAfterFree
  <1>1. TypeOK /\ MembersInv => NoUseAfterFree
    <2> SUFFICES ASSUME TypeOK, MembersInv PROVE NoUseAfterFree
      OBVIOUS
    <2>1. \A r \in Rooms : \A u \in members[r] : user[u] = "live"
      BY DEF TypeOK, Shapes, MembersInv, MembersInside, ReceiversLive, ReceiverPCs
    <2>2. ASSUME NEW w \in Workers, dest[w] # Nil PROVE user[dest[w]] = "live"
      <3>1. pc[w] \in QueuePCs /\ room[w] \in Rooms
        BY <2>2 DEF TypeOK, Shapes, LocalsSet, QueuePCs, RoomPCs
      <3> QED BY <2>1, <3>1 DEF MembersInv, DestIsMember
    <2> QED BY <2>1, <2>2 DEF NoUseAfterFree
  <1> QED BY <1>1, MembersHold, TypeCorrect, PTL

-----------------------------------------------------------------------------
(* Sequences *)

\* A suffix of a log grows with it.
LEMMA SuffixGrows ==
    ASSUME NEW s \in Seq(Msg), NEW m \in Msg, NEW k \in Nat, k <= Len(s)
    PROVE  SubSeq(Append(s, m), k + 1, Len(Append(s, m)))
               = SubSeq(s, k + 1, Len(s)) \o <<m>>
  <1> DEFINE t == Append(s, m)
  <1>1. /\ t \in Seq(Msg) /\ Len(s) \in Nat /\ Len(t) = Len(s) + 1
        /\ t[Len(t)] = m
        /\ \A i \in 1..Len(s) : t[i] = s[i]
    OBVIOUS
  <1> HIDE DEF t
  <1>2. SubSeq(t, k + 1, Len(t)) = SubSeq(t, k + 1, Len(s)) \o <<m>>
    <2>1. k + 1 \in 1..Len(t) /\ Len(t) \in (k + 1)..Len(t) /\ Len(t) - 1 = Len(s)
      BY <1>1
    <2> QED BY <1>1, <2>1, SubSeqRecursiveSecond
  <1>3. SubSeq(t, k + 1, Len(s)) = SubSeq(s, k + 1, Len(s))
    <2>1. \A i \in (k + 1)..Len(s) : t[i] = s[i] /\ s[i] \in Msg
      BY <1>1, ElementOfSeq
    <2> DEFINE a == SubSeq(t, k + 1, Len(s))
               b == SubSeq(s, k + 1, Len(s))
    <2>2. /\ a \in Seq(Msg) /\ Len(a) = IF k + 1 <= Len(s) THEN Len(s) - (k + 1) + 1 ELSE 0
          /\ \A i \in 1..(Len(s) - (k + 1) + 1) : a[i] = t[(k + 1) + i - 1]
      BY <1>1, <2>1, SubSeqProperties
    <2>3. /\ b \in Seq(Msg) /\ Len(b) = IF k + 1 <= Len(s) THEN Len(s) - (k + 1) + 1 ELSE 0
          /\ \A i \in 1..(Len(s) - (k + 1) + 1) : b[i] = s[(k + 1) + i - 1]
      BY <1>1, <2>1, SubSeqProperties
    <2> HIDE DEF a, b
    <2>4. Len(a) = Len(b) /\ \A i \in 1..Len(a) : a[i] = b[i]
      BY <1>1, <2>1, <2>2, <2>3
    <2>5. a = b
      BY <2>2, <2>3, <2>4, SeqEqual
    <2> QED BY <2>5 DEF a, b
  <1> QED BY <1>2, <1>3 DEF t

\* Nothing follows the end of a log.
LEMMA SuffixAtEnd ==
    ASSUME NEW s \in Seq(Msg)
    PROVE  SubSeq(s, Len(s) + 1, Len(s)) = <<>>
  BY SubSeqEmpty

\* A suffix of a log is a sequence of messages.
LEMMA SuffixType ==
    ASSUME NEW s \in Seq(Msg), NEW k \in Nat
    PROVE  SubSeq(s, k + 1, Len(s)) \in Seq(Msg)
  <1>1. \A i \in (k + 1)..Len(s) : s[i] \in Msg
    BY ElementOfSeq
  <1> QED BY <1>1, SubSeqProperties

\* The first message of a queue and the rest of it.
LEMMA FirstAndRest ==
    ASSUME NEW s \in Seq(Msg)
    PROVE  SubSeq(s, 1, 1) \o SubSeq(s, 2, Len(s)) = s
  <1>1. CASE s = <<>>
    <2>1. SubSeq(s, 2, Len(s)) = <<>>
      BY <1>1, EmptySeq, SubSeqEmpty
    <2> QED BY <1>1, <2>1, EmptyHead, ConcatEmptySeq
  <1>2. CASE s # <<>>
    <2>1. Len(s) \in Nat /\ Len(s) >= 1
      BY <1>2, EmptySeq, SeqEqual
    <2>2. SubSeq(s, 1, Len(s)) = <<s[1]>> \o SubSeq(s, 2, Len(s))
      BY <2>1, SubSeqRecursiveFirst
    <2>3. SubSeq(s, 1, 1) = <<s[1]>>
      BY <1>2, HeadSeq, HeadTailProperties
    <2> QED BY <2>2, <2>3, SubSeqFull
  <1> QED BY <1>1, <1>2

\* A message that goes from its way into a queue stays where it was in the
\* order.
LEMMA PushMoves ==
    ASSUME NEW g \in Seq(Msg), NEW s \in Seq(Msg), NEW m \in Msg
    PROVE  (g \o Append(s, m)) \o <<>> = (g \o s) \o <<m>>
  <1>1. <<m>> \in Seq(Msg) /\ Append(s, m) \in Seq(Msg)
    OBVIOUS
  <1>2. Append(s, m) = s \o <<m>>
    <2>1. /\ s \o <<m>> \in Seq(Msg) /\ Len(s \o <<m>>) = Len(s) + Len(<<m>>)
          /\ \A i \in 1..(Len(s) + Len(<<m>>)) :
                (s \o <<m>>)[i] = IF i <= Len(s) THEN s[i] ELSE <<m>>[i - Len(s)]
      BY <1>1, ConcatProperties
    <2>2. Len(<<m>>) = 1 /\ <<m>>[1] = m
      OBVIOUS
    <2>3. \A i \in 1..Len(Append(s, m)) :
             Append(s, m)[i] = IF i <= Len(s) THEN s[i] ELSE m
      OBVIOUS
    <2> QED BY <1>1, <2>1, <2>2, <2>3, SeqEqual
  <1>3. (g \o s) \o <<m>> = g \o (s \o <<m>>)
    BY <1>1, ConcatAssociative
  <1>4. g \o (s \o <<m>>) \in Seq(Msg)
    BY <1>1, <1>2, ConcatProperties
  <1> QED BY <1>2, <1>3, <1>4, ConcatEmptySeq

\* So does one that goes from the queue to its receiver.
LEMMA PopMoves ==
    ASSUME NEW g \in Seq(Msg), NEW s \in Seq(Msg)
    PROVE  (g \o SubSeq(s, 1, 1)) \o SubSeq(s, 2, Len(s)) = g \o s
  <1> DEFINE a == SubSeq(s, 1, 1)
             b == SubSeq(s, 2, Len(s))
  <1>1. a \in Seq(Msg) /\ b \in Seq(Msg)
    BY FirstSeq, TailSeq
  <1>2. a \o b = s
    BY FirstAndRest
  <1> HIDE DEF a, b
  <1>3. (g \o a) \o b = g \o (a \o b)
    BY <1>1, ConcatAssociative
  <1> QED BY <1>2, <1>3 DEF a, b

-----------------------------------------------------------------------------
(* What the order rests on *)

\* A queue is empty until its User is a member; the message of a broadcast
\* carries the name of its room; a broadcast visits each member once; no member
\* joined after the end of its room's log.
FreshQueues == \A u \in Workers :
                  pc[u] \notin MemberPCs \cup {"delete", "done"}
                      => got[u] = <<>> /\ queue[u] = <<>>
TextInRoom  == \A w \in Workers :
                  pc[w] \in RoomPCs \cup {"bcast"}
                      => text[w].room = NameOf(room[w])
VisitedOnce == \A w \in Workers :
                  /\ pc[w] \notin RoomPCs => visited[w] = {}
                  /\ pc[w] \in QueuePCs => dest[w] \notin visited[w]
SinceInLog  == \A r \in Rooms : \A u \in members[r] :
                  since[u] <= Len(log[NameOf(r)])

\* Steps that touch no queue and leave no Room.
LEMMA FreshFrame ==
    ASSUME FreshQueues, NEW w \in Workers, UNCHANGED <<got, queue>>,
           pc'[w] \notin MemberPCs \cup {"delete", "done"}
               => pc[w] \notin MemberPCs \cup {"delete", "done"},
           \A v \in Workers : v # w => pc'[v] = pc[v]
    PROVE  FreshQueues'
  BY DEF FreshQueues

\* Every step keeps the queues of those who have not joined empty.
LEMMA FreshSteps ==
    ASSUME TypeOK, MembersInv, FreshQueues, NEW w \in Workers, Step(w)
    PROVE  FreshQueues'
  <1> USE DEF TypeOK, Shapes, Goto, Finish, sender, server, roomVars, userVars, MemberPCs
  <1>1. CASE ClientCloses(w)
    BY <1>1 DEF ClientCloses, FreshQueues
  <1>2. CASE LoginStep(w)
    BY <1>2, FreshFrame
    DEF LoginStep, Accept, LoginSender, LoginReceiver, LoginRefused
  <1>3. CASE CommandStep(w)
    BY <1>3, FreshFrame
    DEF CommandStep, SenderJoin, SenderSendall, SenderLeave,
        SenderRefused, Reply, SenderEnds
  <1>4. CASE FindStep(w)
    BY <1>4, FreshFrame
    DEF FindStep, FindLock, FindHit, FindMiss, CreateRoom, AfterFind
  <1>5. CASE BroadcastStep(w) /\ ~EnqueuePush(w)
    BY <1>5, FreshFrame
    DEF BroadcastStep, BroadcastLock, NextUser, EnqueueLock,
        EnqueuePost, BroadcastDone
  <1>6. CASE DequeueStep(w) /\ ~DequeuePop(w)
    BY <1>6, FreshFrame
    DEF DequeueStep, DequeueCall, SemTake, SemBlock, SemTimeout,
        DequeueLock, NothingReady
  <1>7. CASE ReceiverStep(w) /\ ~DequeueStep(w)
    BY <1>7, FreshFrame
    DEF ReceiverStep, ReceiverJoin, ReceiverRefused, AddMember,
        JoinedReply, SendDelivery, SendFails, RemoveMember, DeleteUser
  <1>8. CASE EnqueuePush(w)
    <2>1. /\ pc[w] = "push" /\ pc'[w] = "post"
          /\ \A v \in Workers : v # w => pc'[v] = pc[v]
          /\ got' = got
      BY <1>8 DEF EnqueuePush
    <2>2. room[w] \in Rooms /\ dest[w] \in members[room[w]]
      BY <2>1 DEF LocalsSet, RoomPCs, QueuePCs, MembersInv, DestIsMember
    <2>3. pc[dest[w]] \in MemberPCs
      BY <2>2 DEF MembersInv, MembersInside
    <2>4. \A u \in Workers : u # dest[w] => queue'[u] = queue[u]
      BY <1>8 DEF EnqueuePush
    <2> QED BY <2>1, <2>3, <2>4 DEF FreshQueues
  <1>9. CASE DequeuePop(w)
    <2>1. /\ pc'[w] = "got"
          /\ \A v \in Workers : v # w => /\ pc'[v] = pc[v]
                                         /\ got'[v] = got[v]
                                         /\ queue'[v] = queue[v]
      BY <1>9 DEF DequeuePop
    <2> QED BY <2>1 DEF FreshQueues
  <1> QED BY <1>1, <1>2, <1>3, <1>4, <1>5, <1>6, <1>7, <1>8, <1>9
          DEF Step, BroadcastStep, DequeueStep, ReceiverStep

\* Steps that start no broadcast.
LEMMA TextFrame ==
    ASSUME TextInRoom, NEW w \in Workers,
           pc'[w] \in RoomPCs \cup {"bcast"}
               => /\ pc[w] \in RoomPCs \cup {"bcast"}
                  /\ text'[w] = text[w] /\ room'[w] = room[w],
           \A v \in Workers : v # w =>
               pc'[v] = pc[v] /\ text'[v] = text[v] /\ room'[v] = room[v]
    PROVE  TextInRoom'
  BY DEF TextInRoom, NameOf

\* Every step keeps the message of a broadcast under the name of its room.
LEMMA TextSteps ==
    ASSUME TypeOK, TextInRoom, NEW w \in Workers, Step(w)
    PROVE  TextInRoom'
  <1> USE DEF TypeOK, Shapes, Goto, Finish, sender, server, roomVars, userVars, RoomPCs
  <1>1. CASE ClientCloses(w)
    BY <1>1 DEF ClientCloses, TextInRoom
  <1>2. CASE LoginStep(w)
    BY <1>2, TextFrame
    DEF LoginStep, Accept, LoginSender, LoginReceiver, LoginRefused
  <1>3. CASE CommandStep(w) /\ ~SenderSendall(w)
    BY <1>3, TextFrame
    DEF CommandStep, SenderJoin, SenderLeave, SenderRefused, Reply,
        SenderEnds
  <1>4. CASE FindStep(w)
    BY <1>4, TextFrame
    DEF FindStep, FindLock, FindHit, FindMiss, CreateRoom, AfterFind
  <1>5. CASE BroadcastStep(w)
    BY <1>5, TextFrame
    DEF BroadcastStep, BroadcastLock, NextUser, EnqueueLock,
        EnqueuePush, EnqueuePost, BroadcastDone
  <1>6. CASE DequeueStep(w)
    BY <1>6, TextFrame
    DEF DequeueStep, DequeueCall, SemTake, SemBlock, SemTimeout,
        DequeueLock, DequeuePop, NothingReady
  <1>7. CASE ReceiverStep(w) /\ ~DequeueStep(w)
    BY ZenonT(30), <1>7, TextFrame
    DEF ReceiverStep, ReceiverJoin, ReceiverRefused, AddMember,
        JoinedReply, SendDelivery, SendFails, RemoveMember, DeleteUser
  <1>8. CASE SenderSendall(w)
    <2>1. /\ text'[w].room = NameOf(room[w])
          /\ room' = room
          /\ \A v \in Workers : v # w => pc'[v] = pc[v] /\ text'[v] = text[v]
      BY <1>8 DEF SenderSendall
    <2> QED BY <2>1 DEF TextInRoom, NameOf
  <1> QED BY <1>1, <1>2, <1>3, <1>4, <1>5, <1>6, <1>7, <1>8
          DEF Step, CommandStep, ReceiverStep

\* Steps outside a broadcast.
LEMMA VisitedFrame ==
    ASSUME TypeOK, VisitedOnce, NEW w \in Workers,
           pc[w] \notin RoomPCs, pc'[w] \notin RoomPCs,
           UNCHANGED <<visited, dest>>,
           \A v \in Workers : v # w => pc'[v] = pc[v]
    PROVE  VisitedOnce'
  BY DEF VisitedOnce, RoomPCs, QueuePCs

\* Every step keeps a broadcast from visiting a member twice.
LEMMA VisitedSteps ==
    ASSUME TypeOK, VisitedOnce, NEW w \in Workers, Step(w)
    PROVE  VisitedOnce'
  <1> USE DEF TypeOK, Shapes, Goto, Finish, sender, server, roomVars, userVars, RoomPCs
  <1>1. CASE ClientCloses(w)
    BY <1>1 DEF ClientCloses, VisitedOnce
  <1>2. CASE LoginStep(w)
    BY <1>2, VisitedFrame
    DEF LoginStep, Accept, LoginSender, LoginReceiver, LoginRefused
  <1>3. CASE CommandStep(w)
    BY <1>3, VisitedFrame
    DEF CommandStep, SenderJoin, SenderSendall, SenderLeave,
        SenderRefused, Reply, SenderEnds
  <1>4. CASE FindStep(w)
    BY <1>4, VisitedFrame
    DEF FindStep, FindLock, FindHit, FindMiss, CreateRoom, AfterFind
  <1>5. CASE DequeueStep(w)
    BY <1>5, VisitedFrame
    DEF DequeueStep, DequeueCall, SemTake, SemBlock, SemTimeout,
        DequeueLock, DequeuePop, NothingReady
  <1>6. CASE ReceiverStep(w) /\ ~DequeueStep(w)
    BY ZenonT(30), <1>6, VisitedFrame
    DEF ReceiverStep, ReceiverJoin, ReceiverRefused, AddMember,
        JoinedReply, SendDelivery, SendFails, RemoveMember, DeleteUser
  <1>7. CASE BroadcastStep(w)
    <2>1. \A v \in Workers : v # w => /\ pc'[v] = pc[v]
                                      /\ visited'[v] = visited[v]
                                      /\ dest'[v] = dest[v]
      BY <1>7
      DEF BroadcastStep, BroadcastLock, NextUser, EnqueueLock, EnqueuePush,
          EnqueuePost, BroadcastDone
    <2>2. CASE BroadcastLock(w)
      BY <2>1, <2>2 DEF BroadcastLock, VisitedOnce, QueuePCs
    <2>3. CASE NextUser(w)
      <3>1. /\ pc'[w] = "lock" /\ visited' = visited
            /\ dest'[w] \notin visited[w]
        BY <2>3 DEF NextUser
      <3> QED BY <2>1, <3>1 DEF VisitedOnce, QueuePCs
    <2>4. CASE EnqueueLock(w) \/ EnqueuePush(w)
      <3>1. /\ pc[w] \in QueuePCs /\ pc'[w] \in QueuePCs
            /\ visited' = visited /\ dest' = dest
        BY <2>4 DEF EnqueueLock, EnqueuePush, QueuePCs
      <3> QED BY <2>1, <3>1 DEF VisitedOnce, QueuePCs
    <2>5. CASE EnqueuePost(w)
      BY <2>1, <2>5 DEF EnqueuePost, VisitedOnce, QueuePCs
    <2>6. CASE BroadcastDone(w)
      BY <2>1, <2>6 DEF BroadcastDone, VisitedOnce, QueuePCs
    <2> QED BY <1>7, <2>2, <2>3, <2>4, <2>5, <2>6 DEF BroadcastStep
  <1> QED BY <1>1, <1>2, <1>3, <1>4, <1>5, <1>6, <1>7 DEF Step, ReceiverStep

\* Steps that add nobody to a room and nothing to a log.
LEMMA SinceFrame ==
    ASSUME SinceInLog, UNCHANGED <<log, since>>,
           \A r \in Rooms : members'[r] \subseteq members[r]
    PROVE  SinceInLog'
  BY DEF SinceInLog, NameOf

\* Every step keeps the place where a member joined inside its room's log.
LEMMA SinceSteps ==
    ASSUME TypeOK, MembersInv, SinceInLog, NEW w \in Workers, Step(w)
    PROVE  SinceInLog'
  <1> USE DEF TypeOK, Shapes, Goto, Finish, sender, server, roomVars, userVars
  <1>1. CASE ClientCloses(w)
    BY <1>1, SinceFrame DEF ClientCloses
  <1>2. CASE LoginStep(w)
    BY <1>2, SinceFrame
    DEF LoginStep, Accept, LoginSender, LoginReceiver, LoginRefused
  <1>3. CASE CommandStep(w)
    BY <1>3, SinceFrame
    DEF CommandStep, SenderJoin, SenderSendall, SenderLeave,
        SenderRefused, Reply, SenderEnds
  <1>4. CASE FindStep(w)
    BY <1>4, SinceFrame
    DEF FindStep, FindLock, FindHit, FindMiss, CreateRoom, AfterFind
  <1>5. CASE DequeueStep(w)
    BY <1>5, SinceFrame
    DEF DequeueStep, DequeueCall, SemTake, SemBlock, SemTimeout,
        DequeueLock, DequeuePop, NothingReady
  <1>6. CASE ReceiverStep(w) /\ ~DequeueStep(w) /\ ~AddMember(w) /\ ~RemoveMember(w)
    BY <1>6, SinceFrame
    DEF ReceiverStep, ReceiverJoin, ReceiverRefused, JoinedReply,
        SendDelivery, SendFails, DeleteUser
  <1>7. CASE RemoveMember(w)
    <2>1. room[w] \in Rooms
      BY <1>7 DEF RemoveMember, LocalsSet, MemberPCs
    <2>2. \A q \in Rooms : members'[q] \subseteq members[q]
      BY <1>7, <2>1 DEF RemoveMember
    <2> QED BY <1>7, <2>2, SinceFrame DEF RemoveMember
  <1>8. CASE BroadcastStep(w) /\ ~BroadcastLock(w)
    BY <1>8, SinceFrame
    DEF BroadcastStep, NextUser, EnqueueLock, EnqueuePush,
        EnqueuePost, BroadcastDone
  <1>9. CASE AddMember(w)
    <2>1. room[w] \in Rooms
      BY <1>9 DEF AddMember, LocalsSet
    <2>2. \A r \in Rooms : Len(log[NameOf(r)]) \in Nat
      BY DEF Rooms, NameOf
    <2>3. /\ log' = log
          /\ since'[w] = Len(log[NameOf(room[w])])
          /\ \A v \in Workers : v # w => since'[v] = since[v]
      BY <1>9 DEF AddMember
    <2>4. \A r \in Rooms : \A u \in members'[r] :
             u \in members[r] \/ (u = w /\ r = room[w])
      BY <1>9, <2>1 DEF AddMember
    <2>5. ASSUME NEW r \in Rooms, NEW u \in members'[r]
          PROVE  since'[u] <= Len(log[NameOf(r)])
      <3>1. CASE u = w /\ r = room[w]
        BY <2>2, <2>3, <3>1
      <3>2. CASE u # w
        BY <2>3, <2>4, <2>5, <3>2 DEF SinceInLog
      <3>3. CASE u = w /\ r # room[w]
        <4>1. w \in members[r] /\ pc[w] = "add"
          BY <1>9, <2>4, <2>5, <3>3 DEF AddMember
        <4> QED BY <4>1 DEF MembersInv, MembersInside, MemberPCs
      <3> QED BY <3>1, <3>2, <3>3
    <2> QED BY <2>3, <2>5 DEF SinceInLog, NameOf
  <1>10. CASE BroadcastLock(w)
    <2>1. text[w] \in Msg /\ text[w].room \in Names
      BY <1>10 DEF BroadcastLock, LocalsSet, Msg
    <2>2. \A n \in Names : Len(log[n]) \in Nat
      OBVIOUS
    <2>3. Len(log'[text[w].room]) = Len(log[text[w].room]) + 1
      BY <1>10, <2>1 DEF BroadcastLock
    <2>4. \A n \in Names : n # text[w].room => log'[n] = log[n]
      BY <1>10 DEF BroadcastLock
    <2>5. UNCHANGED <<members, since>>
      BY <1>10 DEF BroadcastLock
    <2>6. ASSUME NEW r \in Rooms, NEW u \in members[r]
          PROVE  since[u] <= Len(log'[NameOf(r)])
      <3>1. NameOf(r) \in Names /\ since[u] \in Nat
        BY <2>6 DEF Rooms, NameOf
      <3>2. since[u] <= Len(log[NameOf(r)])
        BY <2>6 DEF SinceInLog
      <3>3. CASE NameOf(r) = text[w].room
        BY <2>2, <2>3, <3>1, <3>2, <3>3
      <3>4. CASE NameOf(r) # text[w].room
        BY <2>4, <3>1, <3>2, <3>4
      <3> QED BY <3>3, <3>4
    <2> QED BY <2>5, <2>6 DEF SinceInLog, NameOf
  <1> QED BY <1>1, <1>2, <1>3, <1>4, <1>5, <1>6, <1>8, <1>9, <1>10, <1>7
          DEF Step, ReceiverStep, BroadcastStep

-----------------------------------------------------------------------------
(* The order *)

\* With no broadcast in the room nothing is on its way.
LEMMA PendingNone ==
    ASSUME NEW r \in Rooms, NEW u \in Workers, roomLock[r] = Nil
    PROVE  Pending(r, u) = <<>>
  BY DEF Pending

\* During a broadcast by w its message is, unless w has put it into u's queue.
LEMMA PendingHeld ==
    ASSUME NEW w \in Workers, NEW r \in Rooms, NEW u \in Workers, roomLock[r] = w
    PROVE  Pending(r, u) = IF u \in visited[w] \/ (pc[w] = "post" /\ dest[w] = u)
                           THEN <<>> ELSE <<text[w]>>
  BY ChatAssumption DEF Pending

\* What is on its way is a sequence of messages.
LEMMA PendingType ==
    ASSUME TypeOK, RoomsLocked, NEW r \in Rooms, NEW u \in Workers
    PROVE  Pending(r, u) \in Seq(Msg)
  <1>1. CASE roomLock[r] = Nil
    BY <1>1, PendingNone, EmptySeq
  <1>2. CASE roomLock[r] # Nil
    <2>1. PICK w \in Workers : roomLock[r] = w
      BY <1>2 DEF TypeOK, Shapes
    <2>2. text[w] \in Msg
      BY <2>1 DEF RoomsLocked, InMembers, TypeOK, LocalsSet
    <2>3. <<text[w]>> \in Seq(Msg)
      BY <2>2
    <2> QED BY <2>1, <2>3, PendingHeld, EmptySeq
  <1> QED BY <1>1, <1>2

\* A step of w that is not broadcasting in r changes nothing on its way in r.
LEMMA PendingSame ==
    ASSUME TypeOK, RoomsLocked, NEW w \in Workers, NEW r \in Rooms,
           NEW u \in Workers,
           pc[w] \notin RoomPCs \/ room[w] # r,
           roomLock'[r] = roomLock[r],
           \A v \in Workers : v # w => /\ pc'[v] = pc[v] /\ text'[v] = text[v]
                                       /\ visited'[v] = visited[v]
                                       /\ dest'[v] = dest[v]
    PROVE  Pending(r, u)' = Pending(r, u)
  <1>1. roomLock[r] # w
    BY DEF RoomsLocked, InMembers
  <1>2. CASE roomLock[r] = Nil
    BY <1>2 DEF Pending
  <1>3. CASE roomLock[r] # Nil
    <2>1. PICK v \in Workers : roomLock[r] = v /\ v # w
      BY <1>1, <1>3 DEF TypeOK, Shapes
    <2> QED BY <2>1 DEF Pending
  <1> QED BY <1>2, <1>3

\* The order at one member.
Order(r, u) == got[u] \o queue[u] \o Pending(r, u) = LogSince(NameOf(r), u)

\* Steps that change neither what is said nor what is on its way.
LEMMA OrderFrame ==
    ASSUME RoomOrder, UNCHANGED <<got, queue, log, since>>,
           \A r \in Rooms : members'[r] \subseteq members[r],
           \A r \in Rooms : \A u \in members'[r] : Pending(r, u)' = Pending(r, u)
    PROVE  RoomOrder'
  <1> SUFFICES ASSUME NEW r \in Rooms, NEW u \in members'[r] PROVE Order(r, u)'
    BY DEF RoomOrder, Order
  <1>1. Order(r, u)
    BY DEF RoomOrder, Order
  <1> QED BY <1>1 DEF Order, LogSince, NameOf

\* In particular those of a worker that is not broadcasting.
LEMMA OrderQuiet ==
    ASSUME TypeOK, RoomsLocked, RoomOrder, NEW w \in Workers,
           pc[w] \notin RoomPCs,
           UNCHANGED <<got, queue, log, since, roomLock, visited, dest>>,
           \A r \in Rooms : members'[r] \subseteq members[r],
           \A v \in Workers : v # w => pc'[v] = pc[v] /\ text'[v] = text[v]
    PROVE  RoomOrder'
  <1>1. ASSUME NEW r \in Rooms, NEW u \in members'[r]
        PROVE  Pending(r, u)' = Pending(r, u)
    <2>1. u \in Workers
      BY <1>1 DEF TypeOK, Shapes
    <2> QED BY <2>1, PendingSame
  <1> QED BY <1>1, OrderFrame

\* Taking the mutex of a room puts the message on its way to every member, at
\* the end of the log: nobody else's is on its way there.
LEMMA BroadcastLockOrder ==
    ASSUME TypeOK, RoomsLocked, RoomsInv, MembersInv, TextInRoom, VisitedOnce,
           SinceInLog, RoomOrder, NEW w \in Workers, BroadcastLock(w)
    PROVE  RoomOrder'
  <1> DEFINE m == text[w]
             n == text[w].room
             q == room[w]
  <1> USE DEF TypeOK, Shapes, Goto, sender, server, userVars
  <1>1. /\ pc[w] = "bcast" /\ pc'[w] = "each"
        /\ \A v \in Workers : v # w => pc'[v] = pc[v]
    BY DEF BroadcastLock
  <1>2. m \in Msg /\ q \in Rooms /\ n = NameOf(q) /\ n \in Names
    BY <1>1 DEF LocalsSet, TextInRoom, Msg
  <1>3. /\ roomLock[q] = Nil /\ roomLock'[q] = w
        /\ \A r \in Rooms : r # q => roomLock'[r] = roomLock[r]
    BY <1>2 DEF BroadcastLock
  <1>4. /\ log'[n] = Append(log[n], m)
        /\ \A k \in Names : k # n => log'[k] = log[k]
    BY <1>2 DEF BroadcastLock
  <1>5. UNCHANGED <<text, visited, dest, members, since, got, queue>>
    BY DEF BroadcastLock
  <1>6. visited[w] = {}
    BY <1>1 DEF VisitedOnce, RoomPCs
  <1>7. SUFFICES ASSUME NEW r \in Rooms, NEW u \in members[r] PROVE Order(r, u)'
    BY <1>5 DEF RoomOrder, Order
  <1>8. u \in Workers /\ NameOf(r) \in Names
    BY DEF Rooms, NameOf
  <1>9. Order(r, u)
    BY DEF RoomOrder, Order
  <1>10. CASE r = q
    <2>1. Pending(r, u) = <<>>
      BY <1>3, <1>8, <1>10, PendingNone
    <2>2. Pending(r, u)' = <<m>>
      BY SMTT(20), <1>1, <1>3, <1>5, <1>6, <1>10, ChatAssumption DEF Pending
    <2>3. got[u] \o queue[u] \in Seq(Msg)
      BY <1>8, ConcatProperties
    <2>4. got[u] \o queue[u] = LogSince(n, u)
      BY <1>2, <1>9, <1>10, <2>1, <2>3, ConcatEmptySeq DEF Order
    <2>5. LogSince(n, u)' = LogSince(n, u) \o <<m>>
      <3>1. since[u] \in Nat /\ since[u] <= Len(log[n]) /\ log[n] \in Seq(Msg)
        BY <1>2, <1>8, <1>10 DEF SinceInLog
      <3>2. SubSeq(Append(log[n], m), since[u] + 1, Len(Append(log[n], m)))
                = SubSeq(log[n], since[u] + 1, Len(log[n])) \o <<m>>
        BY <1>2, <3>1, SuffixGrows
      <3>3. LogSince(n, u)' = SubSeq(log'[n], since[u] + 1, Len(log'[n]))
        BY <1>5 DEF LogSince
      <3> QED BY <1>4, <3>2, <3>3 DEF LogSince
    <2> QED BY <1>2, <1>5, <1>10, <2>2, <2>4, <2>5 DEF Order, NameOf
  <1>11. CASE r # q
    <2>1. room[u] = r
      BY DEF MembersInv, MembersInside
    <2>2. NameOf(r) # n
      BY <1>2, <1>8, <1>11, <2>1, ChatAssumption DEF RoomsInv, OneRoomPerName
    <2>3. Pending(r, u)' = Pending(r, u)
      BY <1>1, <1>3, <1>5, <1>8, <1>11, PendingSame
    <2>4. LogSince(NameOf(r), u)' = LogSince(NameOf(r), u)
      BY <1>4, <1>5, <1>8, <2>2 DEF LogSince, NameOf
    <2> QED BY <1>5, <1>9, <2>3, <2>4 DEF Order
  <1> QED BY <1>10, <1>11

\* A push moves the message from the broadcast into the member's queue.
LEMMA EnqueuePushOrder ==
    ASSUME TypeOK, RoomsLocked, MembersInv, VisitedOnce, RoomOrder,
           NEW w \in Workers, EnqueuePush(w)
    PROVE  RoomOrder'
  <1> DEFINE m == text[w]
             q == room[w]
             d == dest[w]
  <1> USE DEF TypeOK, Shapes, Goto, sender, server, roomVars
  <1>1. /\ pc[w] = "push" /\ pc'[w] = "post"
        /\ \A v \in Workers : v # w => pc'[v] = pc[v]
    BY DEF EnqueuePush
  <1>2. m \in Msg /\ q \in Rooms /\ d \in members[q] /\ d \in Workers
    BY <1>1 DEF LocalsSet, RoomPCs, QueuePCs, MembersInv, DestIsMember
  <1>3. UNCHANGED <<text, visited, dest, room, members, since, log, got, roomLock>>
    BY DEF EnqueuePush
  <1>4. /\ queue'[d] = Append(queue[d], m)
        /\ \A u \in Workers : u # d => queue'[u] = queue[u]
    BY <1>2 DEF EnqueuePush
  <1>5. roomLock[q] = w /\ d \notin visited[w]
    BY <1>1, <1>2 DEF RoomsLocked, InMembers, RoomPCs, VisitedOnce, QueuePCs
  <1>6. SUFFICES ASSUME NEW r \in Rooms, NEW u \in members[r] PROVE Order(r, u)'
    BY <1>3 DEF RoomOrder, Order
  <1>7. u \in Workers /\ room[u] = r /\ room[d] = q
    BY <1>2 DEF MembersInv, MembersInside
  <1>8. Order(r, u)
    BY DEF RoomOrder, Order
  <1>9. LogSince(NameOf(r), u)' = LogSince(NameOf(r), u)
    BY <1>3 DEF LogSince, NameOf
  <1>10. CASE u = d
    <2>1. r = q
      BY <1>7, <1>10
    <2>2. Pending(r, u) = <<m>>
      BY <1>1, <1>5, <1>10, <2>1, ChatAssumption DEF Pending
    <2>3. Pending(r, u)' = <<>>
      BY <1>1, <1>3, <1>5, <1>10, <2>1 DEF Pending
    <2>4. got[u] \in Seq(Msg) /\ queue[u] \in Seq(Msg)
      BY <1>7
    <2>5. (got[u] \o queue'[u]) \o <<>> = (got[u] \o queue[u]) \o <<m>>
      <3>1. queue'[u] = Append(queue[u], m)
        BY <1>4, <1>10
      <3>2. \A g, s \in Seq(Msg) : (g \o Append(s, m)) \o <<>> = (g \o s) \o <<m>>
        BY <1>2, PushMoves
      <3> QED BY <2>4, <3>1, <3>2
    <2> QED BY <1>3, <1>8, <1>9, <2>2, <2>3, <2>5 DEF Order
  <1>11. CASE u # d
    <2>1. queue'[u] = queue[u]
      BY <1>4, <1>7, <1>11
    <2>2. Pending(r, u)' = Pending(r, u)
      <3>1. CASE r = q
        BY <1>1, <1>3, <1>5, <1>11, <3>1 DEF Pending
      <3>2. CASE r # q
        BY <1>1, <1>3, <1>7, <3>2, PendingSame
      <3> QED BY <3>1, <3>2
    <2> QED BY <1>3, <1>8, <1>9, <2>1, <2>2 DEF Order
  <1> QED BY <1>10, <1>11

\* The rest of a broadcast moves nothing.
LEMMA BroadcastOrder ==
    ASSUME TypeOK, RoomsLocked, RoomOrder, NEW w \in Workers,
           NextUser(w) \/ EnqueueLock(w) \/ EnqueuePost(w) \/ BroadcastDone(w)
    PROVE  RoomOrder'
  <1> USE DEF TypeOK, Shapes, Goto, sender, server, roomVars, userVars
  <1>1. pc[w] \in RoomPCs /\ room[w] \in Rooms
    BY DEF NextUser, EnqueueLock, EnqueuePost, BroadcastDone, RoomPCs, LocalsSet
  <1>2. roomLock[room[w]] = w
    BY <1>1 DEF RoomsLocked, InMembers
  <1>3. \A v \in Workers : v # w => /\ pc'[v] = pc[v] /\ text'[v] = text[v]
                                    /\ visited'[v] = visited[v]
                                    /\ dest'[v] = dest[v]
    BY DEF NextUser, EnqueueLock, EnqueuePost, BroadcastDone
  <1>4. UNCHANGED <<members, since, log, got, queue>>
    BY DEF NextUser, EnqueueLock, EnqueuePost, BroadcastDone
  <1>5. \A r \in Rooms : r # room[w] => roomLock'[r] = roomLock[r]
    BY <1>1 DEF NextUser, EnqueueLock, EnqueuePost, BroadcastDone
  <1>6. ASSUME NEW u \in members[room[w]]
        PROVE  Pending(room[w], u)' = Pending(room[w], u)
    <2>1. u \in Workers /\ UNCHANGED room
      BY <1>1, <1>6 DEF NextUser, EnqueueLock, EnqueuePost, BroadcastDone
    <2>2. CASE NextUser(w) \/ EnqueueLock(w)
      <3>1. /\ pc[w] # "post" /\ pc'[w] # "post"
            /\ UNCHANGED <<text, visited, roomLock>>
        BY <2>2 DEF NextUser, EnqueueLock
      <3> QED BY <1>2, <2>1, <3>1 DEF Pending
    <2>3. CASE EnqueuePost(w)
      <3>1. /\ pc[w] = "post" /\ pc'[w] = "each"
            /\ visited'[w] = visited[w] \cup {dest[w]}
            /\ UNCHANGED <<text, roomLock>>
        BY <2>3 DEF EnqueuePost
      <3> QED BY <1>2, <2>1, <3>1 DEF Pending
    <2>4. CASE BroadcastDone(w)
      <3>1. /\ u \in visited[w]
            /\ roomLock'[room[w]] = Nil
        BY <1>1, <1>6, <2>4 DEF BroadcastDone
      <3> QED BY <1>2, <2>1, <3>1 DEF Pending
    <2> QED BY <2>2, <2>3, <2>4
  <1>7. ASSUME NEW r \in Rooms, NEW u \in members[r], r # room[w]
        PROVE  Pending(r, u)' = Pending(r, u)
    <2>1. u \in Workers
      BY <1>7
    <2> QED BY <1>3, <1>5, <1>7, <2>1, PendingSame
  <1> HIDE DEF TypeOK, Shapes
  <1>8. UNCHANGED room
    BY DEF NextUser, EnqueueLock, EnqueuePost, BroadcastDone
  <1> QED BY <1>4, <1>6, <1>7, <1>8, OrderFrame

\* Who joins has heard nothing and the log goes on from there.
LEMMA AddMemberOrder ==
    ASSUME TypeOK, RoomsLocked, MembersInv, FreshQueues, RoomOrder,
           NEW w \in Workers, AddMember(w)
    PROVE  RoomOrder'
  <1> USE DEF TypeOK, Shapes, Goto, sender, server, userVars
  <1>1. /\ pc[w] = "add" /\ room[w] \in Rooms
        /\ \A v \in Workers : v # w => pc'[v] = pc[v]
    BY DEF AddMember, LocalsSet
  <1>2. UNCHANGED <<room, text, visited, dest, roomLock, log, got, queue>>
    BY DEF AddMember
  <1>3. /\ roomLock[room[w]] = Nil
        /\ since'[w] = Len(log[NameOf(room[w])])
        /\ \A v \in Workers : v # w => since'[v] = since[v]
    BY DEF AddMember
  <1>4. \A r \in Rooms : \A u \in members'[r] :
           u \in members[r] \/ (u = w /\ r = room[w])
    BY <1>1 DEF AddMember
  <1>5. \A r \in Rooms : w \notin members[r]
    BY <1>1 DEF MembersInv, MembersInside, MemberPCs
  <1>6. SUFFICES ASSUME NEW r \in Rooms, NEW u \in members'[r] PROVE Order(r, u)'
    BY DEF RoomOrder, Order
  <1>7. NameOf(r) \in Names
    BY DEF Rooms, NameOf
  <1>8. CASE u = w
    <2>1. r = room[w]
      BY <1>4, <1>5, <1>8
    <2>2. got[u] = <<>> /\ queue[u] = <<>>
      BY <1>1, <1>8 DEF FreshQueues, MemberPCs
    <2>3. Pending(r, u)' = <<>>
      BY <1>2, <1>3, <2>1 DEF Pending
    <2>4. LogSince(NameOf(r), u)' = <<>>
      <3>1. log[NameOf(r)] \in Seq(Msg)
        BY <1>7
      <3> QED BY <1>2, <1>3, <1>8, <2>1, <3>1, SuffixAtEnd DEF LogSince, NameOf
    <2>5. (<<>> \o <<>>) \o <<>> = <<>>
      BY EmptySeq, ConcatEmptySeq
    <2> QED BY <1>2, <2>2, <2>3, <2>4, <2>5 DEF Order
  <1>9. CASE u # w
    <2>1. u \in members[r] /\ u \in Workers
      BY <1>4, <1>9
    <2>2. Order(r, u)
      BY <2>1 DEF RoomOrder, Order
    <2>3. Pending(r, u)' = Pending(r, u)
      BY <1>1, <1>2, <2>1, PendingSame DEF RoomPCs
    <2> QED BY <1>2, <1>3, <1>9, <2>1, <2>2, <2>3 DEF Order, LogSince, NameOf
  <1> QED BY <1>8, <1>9

\* A pop moves the first message of the queue to the receiver.
LEMMA DequeuePopOrder ==
    ASSUME TypeOK, RoomsLocked, RoomOrder, NEW w \in Workers, DequeuePop(w)
    PROVE  RoomOrder'
  <1> USE DEF TypeOK, Shapes, Goto, sender, server, roomVars
  <1>1. /\ pc[w] = "pop"
        /\ \A v \in Workers : v # w => pc'[v] = pc[v]
    BY DEF DequeuePop
  <1>2. UNCHANGED <<room, text, visited, dest, roomLock, members, since, log>>
    BY DEF DequeuePop
  <1>3. /\ got'[w] = got[w] \o SubSeq(queue[w], 1, 1)
        /\ queue'[w] = SubSeq(queue[w], 2, Len(queue[w]))
        /\ \A v \in Workers : v # w => got'[v] = got[v] /\ queue'[v] = queue[v]
    BY DEF DequeuePop
  <1>4. SUFFICES ASSUME NEW r \in Rooms, NEW u \in members[r] PROVE Order(r, u)'
    BY <1>2 DEF RoomOrder, Order
  <1>5. u \in Workers /\ Order(r, u)
    BY DEF RoomOrder, Order
  <1>6. Pending(r, u)' = Pending(r, u)
    BY <1>1, <1>2, <1>5, PendingSame DEF RoomPCs
  <1>7. got'[u] \o queue'[u] = got[u] \o queue[u]
    <2>1. CASE u = w
      <3>1. got[w] \in Seq(Msg) /\ queue[w] \in Seq(Msg)
        OBVIOUS
      <3> QED BY <1>3, <2>1, <3>1, PopMoves
    <2>2. CASE u # w
      BY <1>3, <1>5, <2>2
    <2> QED BY <2>1, <2>2
  <1> QED BY <1>2, <1>5, <1>6, <1>7 DEF Order, LogSince, NameOf

\* Every step keeps the order.
LEMMA OrderSteps ==
    ASSUME TypeOK, RoomsLocked, RoomsInv, MembersInv, FreshQueues, TextInRoom,
           VisitedOnce, SinceInLog, RoomOrder, NEW w \in Workers, Step(w)
    PROVE  RoomOrder'
  <1> USE DEF TypeOK, Shapes, Goto, Finish, sender, server, roomVars, userVars
  <1>1. CASE ClientCloses(w)
    BY <1>1 DEF ClientCloses, RoomOrder, Pending, LogSince, NameOf
  <1>2. CASE LoginStep(w)
    BY <1>2, OrderQuiet
    DEF RoomPCs, LoginStep, Accept, LoginSender, LoginReceiver, LoginRefused
  <1>3. CASE CommandStep(w) /\ ~SenderSendall(w)
    BY <1>3, OrderQuiet
    DEF RoomPCs, CommandStep, SenderJoin, SenderLeave, SenderRefused, Reply,
        SenderEnds
  <1>4. CASE SenderSendall(w)
    BY <1>4, OrderQuiet DEF RoomPCs, SenderSendall
  <1>5. CASE FindStep(w)
    BY <1>5, OrderQuiet
    DEF RoomPCs, FindStep, FindLock, FindHit, FindMiss, CreateRoom, AfterFind
  <1>6. CASE DequeueStep(w) /\ ~DequeuePop(w)
    BY <1>6, OrderQuiet
    DEF RoomPCs, DequeueStep, DequeueCall, SemTake, SemBlock, SemTimeout,
        DequeueLock, NothingReady
  <1>7. CASE ReceiverStep(w) /\ ~DequeueStep(w) /\ ~AddMember(w) /\ ~RemoveMember(w)
    BY <1>7, OrderQuiet
    DEF RoomPCs, ReceiverStep, ReceiverJoin, ReceiverRefused, JoinedReply,
        SendDelivery, SendFails, DeleteUser
  <1>8. CASE RemoveMember(w)
    <2>1. room[w] \in Rooms
      BY <1>8 DEF RemoveMember, LocalsSet, MemberPCs
    <2>2. \A r \in Rooms : members'[r] \subseteq members[r]
      BY <1>8, <2>1 DEF RemoveMember
    <2> QED BY <1>8, <2>2, OrderQuiet DEF RoomPCs, RemoveMember
  <1>9. CASE AddMember(w) \/ DequeuePop(w) \/ BroadcastStep(w)
    BY <1>9, AddMemberOrder, DequeuePopOrder, BroadcastLockOrder,
       EnqueuePushOrder, BroadcastOrder
    DEF BroadcastStep
  <1> QED BY <1>1, <1>2, <1>3, <1>4, <1>5, <1>6, <1>7, <1>8, <1>9
          DEF Step, CommandStep, DequeueStep, ReceiverStep

OrderInv == FreshQueues /\ TextInRoom /\ VisitedOnce /\ SinceInLog /\ RoomOrder

\* The invariant holds when the server starts.
LEMMA InitOrder == Init => OrderInv
  BY DEF Init, OrderInv, FreshQueues, TextInRoom, VisitedOnce, SinceInLog,
         RoomOrder, RoomPCs, QueuePCs

\* OrderInv holds in every reachable state.
LEMMA OrderHolds == Spec => []OrderInv
  <1>1. TypeOK /\ LocksHeld /\ RoomsInv /\ MembersInv /\ OrderInv /\ [Next]_vars
            => OrderInv'
    <2> SUFFICES ASSUME TypeOK, RoomsLocked, RoomsInv, MembersInv, OrderInv,
                        [Next]_vars
                 PROVE  OrderInv'
      BY DEF LocksHeld
    <2>1. ASSUME NEW w \in Workers, Step(w) PROVE OrderInv'
      BY <2>1, FreshSteps, TextSteps, VisitedSteps, SinceSteps, OrderSteps
      DEF OrderInv
    <2>2. CASE UNCHANGED vars
      <3>1. FreshQueues' /\ TextInRoom' /\ VisitedOnce' /\ SinceInLog'
        BY <2>2 DEF vars, sender, server, roomVars, userVars, OrderInv,
                    FreshQueues, TextInRoom, VisitedOnce, SinceInLog, NameOf
      <3>2. RoomOrder'
        BY <2>2 DEF vars, sender, server, roomVars, userVars, OrderInv,
                    RoomOrder, Pending, LogSince, NameOf
      <3> QED BY <3>1, <3>2 DEF OrderInv
    <2> QED BY <2>1, <2>2 DEF Next, OnlyAccepting
  <1> QED BY <1>1, InitOrder, TypeCorrect, LockDiscipline, RoomsHold, MembersHold, PTL
          DEF Spec

\* Every member of a room hears exactly what is broadcast in it from the moment
\* it joins, in the one order of the room: nothing is lost, doubled or
\* reordered, whatever the number of senders and receivers, whoever comes and
\* goes, and whatever deadlines its dequeue meets.
THEOREM MembersHearInOrder == Spec => []RoomOrder
  <1>1. OrderInv => RoomOrder
    BY DEF OrderInv
  <1> QED BY <1>1, OrderHolds, PTL

-----------------------------------------------------------------------------
(* Refinement of ChatRooms *)

\* A receiver that is past its join and has not left is a member of its room.
JoinedIsMember == \A u \in Workers : pc[u] \in MemberPCs => u \in members[room[u]]

\* A message about to be broadcast is its sender's last one, and those in the
\* logs are earlier ones: no message is said twice.
LastNumber == \A w \in Workers :
                 pc[w] = "bcast" => text[w].from = w /\ text[w].n = sends[w]
EarlierOne(m) == m.n <= sends[m.from] /\ (pc[m.from] = "bcast" => m.n < sends[m.from])
LogNumbers == \A n \in Names : \A i \in DOMAIN log[n] : EarlierOne(log[n][i])

RefineInv == JoinedIsMember /\ LastNumber /\ LogNumbers

\* Steps that change neither members nor a log, and begin no broadcast.
LEMMA RefineFrame ==
    ASSUME TypeOK, RefineInv, NEW w \in Workers, UNCHANGED <<members, log, sends>>,
           pc'[w] \in MemberPCs => pc[w] \in MemberPCs /\ room'[w] = room[w],
           pc'[w] # "bcast",
           \A v \in Workers : v # w =>
               pc'[v] = pc[v] /\ room'[v] = room[v] /\ text'[v] = text[v]
    PROVE  RefineInv'
  <1>1. JoinedIsMember'
    BY DEF RefineInv, JoinedIsMember
  <1>2. LastNumber'
    BY DEF RefineInv, LastNumber
  <1>3. LogNumbers'
    <2> SUFFICES ASSUME NEW n \in Names, NEW i \in DOMAIN log[n]
                 PROVE  EarlierOne(log[n][i])'
      BY DEF LogNumbers
    <2>1. log[n][i] \in Msg
      BY DEF TypeOK, Shapes
    <2>2. EarlierOne(log[n][i])
      BY DEF RefineInv, LogNumbers
    <2> QED BY <2>1, <2>2 DEF EarlierOne, Msg
  <1> QED BY <1>1, <1>2, <1>3 DEF RefineInv

\* Every step keeps them.
LEMMA RefineSteps ==
    ASSUME TypeOK, RefineInv, TextInRoom, MembersInside, NEW w \in Workers, Step(w)
    PROVE  RefineInv'
  <1> USE DEF Goto, Finish, sender, server, roomVars, userVars, MemberPCs
  <1>0. TypeOK /\ Shapes
    BY DEF TypeOK
  <1>1. CASE ClientCloses(w)
    BY <1>1 DEF ClientCloses, RefineInv, JoinedIsMember, LastNumber, LogNumbers, EarlierOne
  <1>2. CASE LoginStep(w)
    BY <1>0, <1>2, RefineFrame
    DEF Shapes, LoginStep, Accept, LoginSender, LoginReceiver, LoginRefused
  <1>3. CASE CommandStep(w) /\ ~SenderSendall(w)
    BY <1>0, <1>3, RefineFrame
    DEF Shapes, CommandStep, SenderJoin, SenderLeave, SenderRefused, Reply, SenderEnds
  <1>4. CASE FindStep(w)
    BY ZenonT(30), <1>0, <1>4, RefineFrame
    DEF Shapes, FindStep, FindLock, FindHit, FindMiss, CreateRoom, AfterFind
  <1>5. CASE BroadcastStep(w) /\ ~BroadcastLock(w)
    <2>1. CASE NextUser(w) \/ EnqueueLock(w) \/ EnqueuePush(w)
      BY ZenonT(30), <1>0, <2>1, RefineFrame DEF Shapes, NextUser, EnqueueLock, EnqueuePush
    <2>2. CASE EnqueuePost(w)
      BY <1>0, <2>2, RefineFrame DEF Shapes, EnqueuePost
    <2>3. CASE BroadcastDone(w)
      BY <1>0, <2>3, RefineFrame DEF Shapes, BroadcastDone
    <2> QED BY <1>5, <2>1, <2>2, <2>3 DEF BroadcastStep
  <1>6. CASE DequeueStep(w)
    BY <1>0, <1>6, RefineFrame
    DEF Shapes, DequeueStep, DequeueCall, SemTake, SemBlock, SemTimeout, DequeueLock,
        DequeuePop, NothingReady
  <1>7. CASE ReceiverStep(w) /\ ~DequeueStep(w) /\ ~AddMember(w) /\ ~RemoveMember(w)
    BY <1>0, <1>7, RefineFrame
    DEF Shapes, ReceiverStep, ReceiverJoin, ReceiverRefused, JoinedReply, SendDelivery,
        SendFails, DeleteUser
  <1>8. CASE AddMember(w) \/ RemoveMember(w)
    <2>1. /\ pc[w] \in {"add", "remove"} /\ pc'[w] \in {"joined", "delete"}
          /\ pc'[w] = "joined" => AddMember(w)
          /\ \A v \in Workers : v # w => pc'[v] = pc[v]
          /\ UNCHANGED <<room, text, sends, log>>
      BY <1>0, <1>8 DEF Shapes, AddMember, RemoveMember
    <2>2. room[w] \in Rooms
      BY <1>0, <2>1 DEF TypeOK, LocalsSet
    <2>3. /\ \A r \in Rooms : \A v \in Workers : v # w /\ v \in members[r] => v \in members'[r]
          /\ AddMember(w) => w \in members'[room[w]]
      <3>1. CASE AddMember(w)
        BY <1>0, <2>2, <3>1 DEF Shapes, AddMember
      <3>2. CASE RemoveMember(w)
        <4>1. pc'[w] = "delete" /\ members' = [members EXCEPT ![room[w]] = @ \ {w}]
          BY <1>0, <3>2 DEF Shapes, RemoveMember
        <4>2. ~AddMember(w)
          BY <1>0, <4>1 DEF Shapes, AddMember
        <4> QED BY <1>0, <2>2, <4>1, <4>2 DEF Shapes
      <3> QED BY <1>8, <3>1, <3>2
    <2>4. JoinedIsMember'
      <3> SUFFICES ASSUME NEW u \in Workers, pc'[u] \in MemberPCs
                   PROVE  u \in members'[room'[u]]
        BY DEF JoinedIsMember
      <3>1. CASE u = w
        BY <2>1, <2>3, <3>1
      <3>2. CASE u # w
        <4>1. pc[u] \in MemberPCs /\ u \in members[room[u]]
          BY <2>1, <3>2 DEF RefineInv, JoinedIsMember
        <4>2. room[u] \in Rooms
          BY <1>0, <4>1 DEF TypeOK, LocalsSet
        <4> QED BY <2>1, <2>3, <3>2, <4>1, <4>2
      <3> QED BY <3>1, <3>2
    <2>5. LastNumber'
      BY <2>1 DEF RefineInv, LastNumber
    <2>6. LogNumbers'
      <3> SUFFICES ASSUME NEW n \in Names, NEW i \in DOMAIN log[n]
                   PROVE  EarlierOne(log[n][i])'
        BY <2>1 DEF LogNumbers
      <3>1. log[n][i] \in Msg
        BY <1>0 DEF Shapes
      <3>2. EarlierOne(log[n][i])
        BY DEF RefineInv, LogNumbers
      <3> QED BY <2>1, <3>1, <3>2 DEF EarlierOne, Msg
    <2> QED BY <2>4, <2>5, <2>6 DEF RefineInv
  <1>9. CASE SenderSendall(w)
    <2>1. /\ pc[w] = "command" /\ pc'[w] = "bcast"
          /\ \A v \in Workers : v # w => pc'[v] = pc[v] /\ sends'[v] = sends[v]
                                         /\ text'[v] = text[v]
          /\ sends'[w] = sends[w] + 1
          /\ text'[w].from = w /\ text'[w].n = sends'[w]
          /\ UNCHANGED <<room, log, members>>
      BY <1>0, <1>9 DEF Shapes, SenderSendall
    <2>2. JoinedIsMember' /\ LastNumber'
      BY <2>1 DEF RefineInv, JoinedIsMember, LastNumber
    <2>3. LogNumbers'
      <3> SUFFICES ASSUME NEW n \in Names, NEW i \in DOMAIN log[n]
                   PROVE  EarlierOne(log[n][i])'
        BY <2>1 DEF LogNumbers
      <3>1. log[n][i] \in Msg
        BY <1>0 DEF Shapes
      <3>2. EarlierOne(log[n][i])
        BY DEF RefineInv, LogNumbers
      <3>3. sends[w] \in 0..MaxSends /\ MaxSends \in Nat
        BY <1>0, ChatAssumption DEF Shapes
      <3> QED BY <2>1, <3>1, <3>2, <3>3 DEF EarlierOne, Msg
    <2> QED BY <2>2, <2>3 DEF RefineInv
  <1>10. CASE BroadcastLock(w)
    <2>1. /\ pc[w] = "bcast" /\ pc'[w] = "each"
          /\ \A v \in Workers : v # w => pc'[v] = pc[v]
          /\ UNCHANGED <<room, sends, text, members>>
      BY <1>0, <1>10 DEF Shapes, BroadcastLock
    <2>2. text[w] \in Msg /\ text[w].from = w /\ text[w].n = sends[w]
      BY <1>0, <2>1 DEF TypeOK, LocalsSet, RefineInv, LastNumber
    <2>3. /\ log \in [Names -> Seq(Msg)] /\ text[w].room \in Names
          /\ log' = [log EXCEPT ![text[w].room] = Append(@, text[w])]
      BY <1>0, <1>10, <2>2 DEF Shapes, BroadcastLock, Msg
    <2>4. JoinedIsMember' /\ LastNumber'
      BY <2>1 DEF RefineInv, JoinedIsMember, LastNumber
    <2>5. LogNumbers'
      <3> SUFFICES ASSUME NEW n \in Names, NEW i \in DOMAIN log'[n]
                   PROVE  EarlierOne(log[n][i])'
        BY DEF LogNumbers
      <3>1. \/ log'[n][i] = text[w]
            \/ i \in DOMAIN log[n] /\ log'[n][i] = log[n][i]
        <4>1. CASE n = text[w].room
          <5>1. log[n] \in Seq(Msg) /\ log'[n] = Append(log[n], text[w])
            BY <2>3, <4>1
          <5> QED BY <2>2, <5>1
        <4>2. CASE n # text[w].room
          BY <2>3, <4>2
        <4> QED BY <4>1, <4>2
      <3>2. CASE log'[n][i] = text[w]
        <4>1. sends[w] \in 0..MaxSends /\ MaxSends \in Nat
          BY <1>0, ChatAssumption DEF Shapes
        <4> QED BY <2>1, <2>2, <3>2, <4>1 DEF EarlierOne
      <3>3. CASE i \in DOMAIN log[n] /\ log'[n][i] = log[n][i]
        <4>1. log[n][i] \in Msg /\ EarlierOne(log[n][i])
          BY <2>3, <3>3 DEF RefineInv, LogNumbers
        <4> QED BY <2>1, <3>3, <4>1 DEF EarlierOne, Msg
      <3> QED BY <3>1, <3>2, <3>3
    <2> QED BY <2>4, <2>5 DEF RefineInv
  <1> QED BY <1>1, <1>2, <1>3, <1>4, <1>5, <1>6, <1>7, <1>8, <1>9, <1>10
          DEF Step, CommandStep, BroadcastStep, ReceiverStep

-----------------------------------------------------------------------------
\* A member sits in one room only, the one its worker knows.
LEMMA SitsIn ==
    ASSUME MembersInside, NEW r \in Rooms, NEW u \in members[r]
    PROVE  InRoom(u) /\ RoomOf(u) = r
  <1>1. \A q \in Rooms : u \in members[q] => q = r
    BY DEF MembersInside
  <1> QED BY <1>1 DEF InRoom, RoomOf

\* Steps that change no room and no log, and give nothing to a receiver.
LEMMA NobodyHears ==
    ASSUME UNCHANGED <<log, since, members, got>>
    PROVE  UNCHANGED Promise!vars
  BY DEF Promise!vars, InRoom, RoomOf, NameOf

\* add_member is the entry.
LEMMA EnterRefines ==
    ASSUME TypeOK, MembersInside, MembersInside', FreshQueues, NEW w \in Workers, AddMember(w)
    PROVE  Promise!Next
  <1>0. pc[w] = "add" /\ room[w] \in Rooms
    BY DEF AddMember, Goto, TypeOK, LocalsSet
  <1>1. PICK r \in Rooms :
            /\ room[w] = r
            /\ UNCHANGED <<room, log, got>>
            /\ members' = [members EXCEPT ![r] = @ \cup {w}]
            /\ since' = [since EXCEPT ![w] = Len(log[NameOf(r)])]
    BY <1>0 DEF AddMember, userVars
  <1>2. PICK n \in Names : n = NameOf(r)
    BY DEF Rooms, NameOf
  <1>3. /\ members \in [Rooms -> SUBSET Workers] /\ since \in [Workers -> Nat]
        /\ log \in [Names -> Seq(Msg)]
        /\ got \in [Workers -> Seq(Msg)]
    BY DEF TypeOK, Shapes
  <1>33. got[w] = <<>>
    BY <1>0 DEF FreshQueues, MemberPCs
  <1>4. ~InRoom(w)
    BY <1>0 DEF InRoom, MembersInside, MemberPCs
  <1>5. InRoom(w)' /\ RoomOf(w)' = r
    <2>1. w \in members'[r]
      BY <1>1, <1>3
    <2>2. \A q \in Rooms : w \in members'[q] => q = r
      BY <1>1 DEF MembersInside
    <2> QED BY <2>1, <2>2 DEF InRoom, RoomOf
  <1>6. ASSUME NEW u \in Workers, u # w
        PROVE  InRoom(u)' = InRoom(u) /\ RoomOf(u)' = RoomOf(u)
    <2>1. \A q \in Rooms : u \in members'[q] <=> u \in members[q]
      BY <1>1, <1>3, <1>6
    <2> QED BY <2>1 DEF InRoom, RoomOf
  <1>7. Len(log[n]) \in Nat /\ since'[w] = Len(log[n]) /\ Len(got[w]) = 0
    BY <1>1, <1>2, <1>3, <1>33
  <1>8. \A u \in Workers : u # w => since'[u] = since[u]
    BY <1>1, <1>3
  <1>9. r[2] = n
    BY <1>2 DEF NameOf
  <1>10. Promise!Enter(w, n)
    <2> DEFINE place == [u \in Workers |-> IF InRoom(u) THEN NameOf(RoomOf(u)) ELSE Nil]
               next == [u \in Workers |-> IF InRoom(u) THEN since[u] + Len(got[u]) + 1 ELSE 1]
    <2>1. place[w] = Nil
      BY <1>4
    <2>2. place' = [place EXCEPT ![w] = n]
      BY <1>5, <1>6, <1>9 DEF NameOf
    <2>3. next' = [next EXCEPT ![w] = Len(log[n]) + 1]
      <3>1. next'[w] = Len(log[n]) + 1
        BY <1>1, <1>5, <1>7
      <3>2. ASSUME NEW u \in Workers, u # w PROVE next'[u] = next[u]
        BY <1>1, <1>6, <1>8, <3>2
      <3> QED BY <3>1, <3>2
    <2> HIDE DEF place, next
    <2> QED BY <1>1, <2>1, <2>2, <2>3 DEF Promise!Enter, place, next
  <1> QED BY <1>10 DEF Promise!Next

\* remove_member is the exit.
LEMMA ExitRefines ==
    ASSUME TypeOK, MembersInside, JoinedIsMember, NEW w \in Workers, RemoveMember(w)
    PROVE  Promise!Next
  <1>0. pc[w] = "remove" /\ room[w] \in Rooms
    BY DEF RemoveMember, Goto, TypeOK, LocalsSet, MemberPCs
  <1>1. PICK r \in Rooms :
            /\ room[w] = r
            /\ UNCHANGED <<log, since, got>>
            /\ members' = [members EXCEPT ![r] = @ \ {w}]
    BY <1>0 DEF RemoveMember, userVars
  <1>2. members \in [Rooms -> SUBSET Workers]
    BY DEF TypeOK, Shapes
  <1>3. w \in members[r]
    BY <1>0, <1>1 DEF JoinedIsMember, MemberPCs
  <1>4. InRoom(w) /\ RoomOf(w) = r /\ NameOf(r) # Nil
    <2>1. NameOf(r) \in Names
      BY <1>1 DEF Rooms, NameOf
    <2>2. InRoom(w) /\ RoomOf(w) = r
      BY <1>3, SitsIn
    <2> QED BY <2>1, <2>2, ChatAssumption
  <1>5. ~InRoom(w)'
    <2>1. \A q \in Rooms : w \in members[q] => q = r
      BY <1>1 DEF MembersInside
    <2>2. \A q \in Rooms : w \notin members'[q]
      BY <1>1, <1>2, <2>1
    <2> QED BY <2>2 DEF InRoom
  <1>6. ASSUME NEW u \in Workers, u # w
        PROVE  InRoom(u)' = InRoom(u) /\ RoomOf(u)' = RoomOf(u)
    <2>1. \A q \in Rooms : u \in members'[q] <=> u \in members[q]
      BY <1>1, <1>2, <1>6
    <2> QED BY <2>1 DEF InRoom, RoomOf
  <1>7. Promise!Exit(w)
    BY <1>1, <1>4, <1>5, <1>6 DEF Promise!Exit, NameOf
  <1> QED BY <1>7 DEF Promise!Next

\* What a sequence begins with, it begins with when more is appended.
LEMMA InFront ==
    ASSUME NEW S, NEW a \in Seq(S), NEW c \in Seq(S), NEW i \in 1..Len(a)
    PROVE  Len(a \o c) = Len(a) + Len(c) /\ (a \o c)[i] = a[i]
  <1>1. Len(a) \in Nat /\ Len(c) \in Nat
    BY LenProperties
  <1>2. Len(a \o c) = Len(a) + Len(c)
    BY ConcatProperties
  <1>3. i \in 1..(Len(a) + Len(c)) /\ i <= Len(a)
    BY <1>1
  <1> QED BY <1>2, <1>3, ConcatProperties

\* The step in which a broadcast takes the room's mutex says the message.
LEMMA SayRefines ==
    ASSUME TypeOK, TextInRoom, RefineInv, NEW w \in Workers, BroadcastLock(w)
    PROVE  Promise!Next
  <1>1. /\ pc[w] = "bcast"
        /\ log' = [log EXCEPT ![text[w].room] = Append(@, text[w])]
        /\ UNCHANGED <<members, since, got>>
    BY DEF BroadcastLock, Goto, userVars
  <1>2. text[w] \in Msg /\ text[w].from = w /\ text[w].n = sends[w]
    BY <1>1 DEF TypeOK, LocalsSet, RefineInv, LastNumber
  <1>3. text[w].room \in Names
    BY <1>2 DEF Msg
  <1>4. ASSUME NEW i \in DOMAIN log[text[w].room] PROVE log[text[w].room][i] # text[w]
    <2>1. EarlierOne(log[text[w].room][i])
      BY <1>3 DEF RefineInv, LogNumbers
    <2>2. sends[w] \in Nat
      BY ChatAssumption DEF TypeOK, Shapes
    <2> QED BY <1>1, <1>2, <2>1, <2>2 DEF EarlierOne
  <1>5. \A u : InRoom(u)' = InRoom(u) /\ RoomOf(u)' = RoomOf(u) /\ NameOf(u)' = NameOf(u)
    BY <1>1 DEF InRoom, RoomOf, NameOf
  <1>6. Promise!Say(text[w])
    BY <1>1, <1>4, <1>5 DEF Promise!Say, NameOf
  <1> QED BY <1>2, <1>6 DEF Promise!Next

\* The step in which dequeue takes a message off the queue is the one in which
\* the receiver hears it, the next of the log.
LEMMA HearRefines ==
    ASSUME TypeOK, RoomsLocked, MembersInside, SinceInLog, RoomOrder, JoinedIsMember,
           NEW w \in Workers, DequeuePop(w), queue[w] # <<>>
    PROVE  Promise!Next
  <1>0. pc[w] = "pop" /\ room[w] \in Rooms
    BY DEF DequeuePop, Goto, TypeOK, LocalsSet, MemberPCs
  <1>1. PICK r \in Rooms : r = room[w] /\ w \in members[r]
    BY <1>0 DEF JoinedIsMember, MemberPCs
  <1>2. PICK n \in Names : n = NameOf(r)
    BY DEF Rooms, NameOf
  <1>3. /\ got[w] \in Seq(Msg) /\ queue[w] \in Seq(Msg) /\ log[n] \in Seq(Msg)
        /\ since[w] \in Nat /\ got \in [Workers -> Seq(Msg)]
    BY DEF TypeOK, Shapes
  <1>4. InRoom(w) /\ RoomOf(w) = r /\ n # Nil
    BY <1>1, SitsIn, ChatAssumption
  <1>5. since[w] + Len(got[w]) + 1 <= Len(log[n])
        /\ log[n][since[w] + Len(got[w]) + 1] = Head(queue[w])
    <2>1. Pending(r, w) \in Seq(Msg)
      BY PendingType
    <2>2. got[w] \o queue[w] \o Pending(r, w) = SubSeq(log[n], since[w] + 1, Len(log[n]))
      BY <1>1, <1>2 DEF RoomOrder, LogSince
    <2>3. since[w] <= Len(log[n])
      BY <1>1, <1>2 DEF SinceInLog
    <2>4. ASSUME NEW g, g = got[w], NEW q, q = queue[w], NEW p, p = Pending(r, w),
                 NEW l, l = log[n], NEW k, k = since[w]
          PROVE  k + Len(g) + 1 <= Len(l) /\ l[k + Len(g) + 1] = Head(q)
      <3>1. g \in Seq(Msg) /\ q \in Seq(Msg) /\ p \in Seq(Msg) /\ l \in Seq(Msg)
            /\ k \in Nat
        BY <1>3, <2>1, <2>4
      <3>2. k <= Len(l) /\ q # <<>>
        BY <2>3, <2>4
      <3>3. PICK t : t = (g \o q) \o p /\ t = SubSeq(l, k + 1, Len(l))
        BY <2>2, <2>4
      <3>4. /\ Len(g) \in Nat /\ Len(q) \in Nat /\ Len(p) \in Nat /\ Len(l) \in Nat
            /\ Len(q) >= 1 /\ Head(q) = q[1]
        BY <3>1, <3>2, EmptySeq, SeqEqual, LenProperties
      <3>5. /\ g \o q \in Seq(Msg) /\ Len(g \o q) = Len(g) + Len(q)
            /\ (g \o q)[Len(g) + 1] = q[1]
        BY <3>1, <3>4, ConcatProperties
      <3>6. /\ Len((g \o q) \o p) = Len(g) + Len(q) + Len(p)
            /\ ((g \o q) \o p)[Len(g) + 1] = q[1]
        <4>1. Len(g) + 1 \in 1..Len(g \o q)
          BY <3>4, <3>5
        <4> QED BY <3>1, <3>5, <4>1, InFront
      <3>7. \A i \in (k + 1)..Len(l) : l[i] \in Msg
        BY <3>1, ElementOfSeq
      <3>8. /\ Len(t) = IF k + 1 <= Len(l) THEN Len(l) - (k + 1) + 1 ELSE 0
            /\ \A i \in 1..(Len(l) - (k + 1) + 1) : t[i] = l[(k + 1) + i - 1]
        BY <3>1, <3>2, <3>3, <3>4, <3>7, SubSeqProperties
      <3>9. Len(t) = Len(g) + Len(q) + Len(p) /\ t[Len(g) + 1] = q[1]
        BY <3>3, <3>6
      <3>10. k + Len(g) + 1 <= Len(l) /\ Len(g) + 1 \in 1..(Len(l) - (k + 1) + 1)
        BY <3>1, <3>4, <3>8, <3>9
      <3>11. t[Len(g) + 1] = l[(k + 1) + (Len(g) + 1) - 1]
        BY <3>8, <3>10
      <3>12. (k + 1) + (Len(g) + 1) - 1 = k + Len(g) + 1
        BY <3>1, <3>4
      <3> QED BY <3>4, <3>9, <3>10, <3>11, <3>12
    <2> QED BY <2>4
  <1>6. /\ got' = [got EXCEPT ![w] = @ \o SubSeq(queue[w], 1, 1)]
        /\ UNCHANGED <<members, since, log>>
    BY DEF DequeuePop, roomVars
  <1>7. /\ got[w] \o SubSeq(queue[w], 1, 1) = Append(got[w], Head(queue[w]))
        /\ Len(Append(got[w], Head(queue[w]))) = Len(got[w]) + 1
    <2>1. SubSeq(queue[w], 1, 1) = <<Head(queue[w])>> /\ Head(queue[w]) \in Msg
      BY <1>3, HeadSeq
    <2> QED BY <1>3, <2>1
  <1>8. \A u : InRoom(u)' = InRoom(u) /\ RoomOf(u)' = RoomOf(u)
    BY <1>6 DEF InRoom, RoomOf
  <1> DEFINE place == [u \in Workers |-> IF InRoom(u) THEN NameOf(RoomOf(u)) ELSE Nil]
             next == [u \in Workers |-> IF InRoom(u) THEN since[u] + Len(got[u]) + 1 ELSE 1]
  <1>9. place[w] = n /\ next[w] = since[w] + Len(got[w]) + 1 /\ place' = place
    BY <1>2, <1>4, <1>8 DEF NameOf
  <1>10. next' = [next EXCEPT ![w] = @ + 1]
    <2>1. next'[w] = next[w] + 1
      BY <1>3, <1>4, <1>6, <1>7, <1>8
    <2>2. ASSUME NEW u \in Workers, u # w PROVE next'[u] = next[u]
      BY <1>3, <1>6, <1>8, <2>2
    <2> QED BY <2>1, <2>2
  <1> HIDE DEF place, next
  <1>11. Promise!Hear(w)
    BY <1>4, <1>5, <1>6, <1>7, <1>9, <1>10 DEF Promise!Hear, place, next
  <1> QED BY <1>11 DEF Promise!Next

\* Every step of a worker is a step of ChatRooms or none.
LEMMA WorkerRefines ==
    ASSUME TypeOK, RoomsLocked, MembersInside, MembersInside', OrderInv, RefineInv,
           NEW w \in Workers, Step(w)
    PROVE  [Promise!Next]_(Promise!vars)
  <1> USE DEF Goto, Finish, sender, server, roomVars, userVars
  <1>1. CASE AddMember(w) \/ RemoveMember(w) \/ BroadcastLock(w)
    BY <1>1, EnterRefines, ExitRefines, SayRefines DEF OrderInv, RefineInv
  <1>2. CASE DequeuePop(w) /\ queue[w] # <<>>
    BY <1>2, HearRefines DEF OrderInv, RefineInv
  <1>3. CASE DequeuePop(w) /\ queue[w] = <<>>
    <2>1. UNCHANGED <<log, since, members>>
      BY <1>3 DEF DequeuePop
    <2>2. got' = got
      <3>1. got \in [Workers -> Seq(Msg)] /\ queue[w] \in Seq(Msg)
        BY DEF TypeOK, Shapes
      <3>2. got[w] \o SubSeq(queue[w], 1, 1) = got[w]
        BY <1>3, <3>1, EmptyHead, ConcatEmptySeq
      <3> QED BY <1>3, <3>1, <3>2 DEF DequeuePop
    <2> QED BY <2>1, <2>2, NobodyHears
  <1>4. CASE ClientCloses(w) \/ LoginStep(w) \/ CommandStep(w) \/ FindStep(w)
    BY <1>4, NobodyHears
    DEF ClientCloses, LoginStep, Accept, LoginSender, LoginReceiver, LoginRefused,
        CommandStep, SenderJoin, SenderSendall, SenderLeave, SenderRefused, Reply, SenderEnds,
        FindStep, FindLock, FindHit, FindMiss, CreateRoom
  <1>5. CASE BroadcastStep(w) /\ ~BroadcastLock(w)
    BY <1>5, NobodyHears
    DEF BroadcastStep, NextUser, EnqueueLock, EnqueuePush, EnqueuePost, BroadcastDone
  <1>6. CASE DequeueStep(w) /\ ~DequeuePop(w)
    BY <1>6, NobodyHears
    DEF DequeueStep, DequeueCall, SemTake, SemBlock, SemTimeout, DequeueLock, NothingReady
  <1>7. CASE ReceiverStep(w) /\ ~DequeueStep(w) /\ ~AddMember(w) /\ ~RemoveMember(w)
    BY <1>7, NobodyHears
    DEF ReceiverStep, ReceiverJoin, ReceiverRefused, JoinedReply, SendDelivery, SendFails,
        DeleteUser
  <1> QED BY <1>1, <1>2, <1>3, <1>4, <1>5, <1>6, <1>7
          DEF Step, BroadcastStep, DequeueStep, ReceiverStep

\* When the server starts there is no member and no log.
LEMMA InitRefine == Init => RefineInv
  BY DEF Init, RefineInv, JoinedIsMember, LastNumber, LogNumbers, MemberPCs

\* RefineInv holds in every reachable state.
LEMMA RefineHolds == Spec => []RefineInv
  <1>1. TypeOK /\ MembersInv /\ OrderInv /\ RefineInv /\ [Next]_vars => RefineInv'
    <2> SUFFICES ASSUME TypeOK, MembersInv, OrderInv, RefineInv, [Next]_vars PROVE RefineInv'
      OBVIOUS
    <2>1. ASSUME NEW w \in Workers, Step(w) PROVE RefineInv'
      BY <2>1, RefineSteps DEF OrderInv, MembersInv
    <2>2. CASE UNCHANGED vars
      BY <2>2 DEF vars, sender, server, roomVars, userVars, RefineInv, JoinedIsMember,
                  LastNumber, LogNumbers, EarlierOne
    <2> QED BY <2>1, <2>2 DEF Next, OnlyAccepting
  <1> QED BY <1>1, InitRefine, TypeCorrect, MembersHold, OrderHolds, PTL DEF Spec

\* The server, with its threads, locks and queues, implements rooms with one log
\* each: a receiver hears the log of its room in order from where it came in.
THEOREM ServerIsChatRooms == Spec => ImplementsChatRooms
  <1>1. Init => Promise!Init
    <2> SUFFICES ASSUME Init PROVE Promise!Init
      OBVIOUS
    <2>1. \A u : ~InRoom(u)
      BY DEF Init, InRoom
    <2> QED BY <2>1 DEF Init, Promise!Init
  <1>2. TypeOK /\ LocksHeld /\ MembersInv /\ MembersInv' /\ OrderInv /\ RefineInv
            /\ [Next]_vars => [Promise!Next]_(Promise!vars)
    <2> SUFFICES ASSUME TypeOK, LocksHeld, MembersInv, MembersInv', OrderInv, RefineInv,
                        [Next]_vars
                 PROVE  [Promise!Next]_(Promise!vars)
      OBVIOUS
    <2>1. ASSUME NEW w \in Workers, Step(w) PROVE [Promise!Next]_(Promise!vars)
      BY <2>1, WorkerRefines DEF LocksHeld, MembersInv
    <2>2. CASE UNCHANGED vars
      BY <2>2, NobodyHears DEF vars, roomVars, userVars
    <2> QED BY <2>1, <2>2 DEF Next, OnlyAccepting
  <1> QED BY <1>1, <1>2, TypeCorrect, LockDiscipline, MembersHold, OrderHolds, RefineHolds, PTL
          DEF Spec, ImplementsChatRooms, Promise!Spec

-----------------------------------------------------------------------------
(* Refinement of MessageQueue *)

\* The elements of a sequence after a push, and those of two sequences.
LEMMA ContentsConcat ==
    ASSUME NEW S, NEW a \in Seq(S), NEW c \in Seq(S)
    PROVE  Contents(a \o c) = Contents(a) \cup Contents(c)
  <1>1. Len(a) \in Nat /\ Len(c) \in Nat /\ a \o c \in Seq(S)
    BY LenProperties, ConcatProperties
  <1>2. /\ DOMAIN a = 1..Len(a) /\ DOMAIN c = 1..Len(c)
        /\ DOMAIN (a \o c) = 1..(Len(a) + Len(c))
    BY <1>1, LenProperties, ConcatProperties
  <1>3. \A i \in 1..(Len(a) + Len(c)) :
           (a \o c)[i] = IF i <= Len(a) THEN a[i] ELSE c[i - Len(a)]
    BY ConcatProperties
  <1>4. ASSUME NEW i \in DOMAIN a PROVE a[i] \in Contents(a \o c)
    <2>1. i \in DOMAIN (a \o c) /\ (a \o c)[i] = a[i]
      BY <1>1, <1>2, <1>3
    <2> QED BY <2>1 DEF Contents
  <1>5. ASSUME NEW i \in DOMAIN c PROVE c[i] \in Contents(a \o c)
    <2>1. i + Len(a) \in DOMAIN (a \o c)
      BY <1>1, <1>2
    <2>2. (a \o c)[i + Len(a)] = c[i]
      BY <1>1, <1>2, <1>3
    <2> QED BY <2>1, <2>2 DEF Contents
  <1>6. ASSUME NEW i \in DOMAIN (a \o c) PROVE (a \o c)[i] \in Contents(a) \cup Contents(c)
    <2>1. CASE i <= Len(a)
      <3>1. i \in DOMAIN a /\ (a \o c)[i] = a[i]
        BY <2>1, <1>1, <1>2, <1>3
      <3> QED BY <3>1 DEF Contents
    <2>2. CASE ~(i <= Len(a))
      <3>1. i - Len(a) \in DOMAIN c /\ (a \o c)[i] = c[i - Len(a)]
        BY <2>2, <1>1, <1>2, <1>3
      <3> QED BY <3>1 DEF Contents
    <2> QED BY <2>1, <2>2
  <1> QED BY <1>4, <1>5, <1>6 DEF Contents

\* A push adds one element.
LEMMA ContentsPush ==
    ASSUME NEW S, NEW a \in Seq(S), NEW m \in S
    PROVE  Contents(Append(a, m)) = Contents(a) \cup {m}
  <1> DEFINE b == Append(a, m)
  <1>1. /\ Len(a) \in Nat /\ DOMAIN a = 1..Len(a) /\ DOMAIN b = 1..(Len(a) + 1)
        /\ \A i \in 1..Len(a) : b[i] = a[i]
        /\ b[Len(a) + 1] = m
    OBVIOUS
  <1> HIDE DEF b
  <1>2. \A i \in DOMAIN b : i \in DOMAIN a \/ i = Len(a) + 1
    BY <1>1
  <1>3. \A i \in DOMAIN a : i \in DOMAIN b
    BY <1>1
  <1>4. Len(a) + 1 \in DOMAIN b
    BY <1>1
  <1>5. Contents(b) = Contents(a) \cup {m}
    BY <1>1, <1>2, <1>3, <1>4 DEF Contents
  <1> QED BY <1>5 DEF b

\* In a sequence without repetitions the last element of a suffix is not before.
LEMMA LastIsNew ==
    ASSUME NEW S, NEW l \in Seq(S), \A i, j \in DOMAIN l : l[i] = l[j] => i = j,
           NEW s \in Nat, NEW a \in Seq(S), NEW m \in S,
           a \o <<m>> = SubSeq(l, s + 1, Len(l))
    PROVE  m \notin Contents(a)
  <1> DEFINE b == a \o <<m>>
             c == SubSeq(l, s + 1, Len(l))
  <1>1. /\ Len(b) = Len(a) + 1 /\ \A i \in 1..Len(a) : b[i] = a[i]
        /\ b[Len(a) + 1] = m /\ Len(a) \in Nat /\ DOMAIN a = 1..Len(a)
    <2>1. <<m>> \in Seq(S) /\ Len(<<m>>) = 1 /\ <<m>>[1] = m
      OBVIOUS
    <2>2. Len(a) \in Nat /\ DOMAIN a = 1..Len(a)
      BY LenProperties
    <2>3. PICK z \in Seq(S) : z = <<m>>
      BY <2>1
    <2>4. /\ Len(a \o z) = Len(a) + Len(z)
          /\ \A i \in 1..(Len(a) + Len(z)) : (a \o z)[i] = IF i <= Len(a) THEN a[i] ELSE z[i - Len(a)]
      BY <2>3, ConcatProperties
    <2>5. Len(z) = 1 /\ z[1] = m
      BY <2>1, <2>3
    <2>6. (a \o z)[Len(a) + 1] = m
      BY <2>2, <2>4, <2>5
    <2> QED BY <2>2, <2>3, <2>4, <2>5, <2>6
  <1>2. \A i \in 1..Len(c) : i + s \in DOMAIN l /\ c[i] = l[i + s]
    <2>1. Len(l) \in Nat /\ DOMAIN l = 1..Len(l)
      BY LenProperties
    <2>2. /\ Len(c) = IF s + 1 <= Len(l) THEN Len(l) - s ELSE 0
          /\ \A i \in 1..Len(c) : c[i] = l[s + 1 + i - 1]
      BY <2>1
    <2> QED BY <2>1, <2>2
  <1> HIDE DEF b, c
  <1>3. b = c
    BY DEF b, c
  <1>4. \A i \in 1..Len(a) : a[i] # m
    <2> SUFFICES ASSUME NEW i \in 1..Len(a), a[i] = m PROVE FALSE
      OBVIOUS
    <2>1. i \in 1..Len(c) /\ Len(a) + 1 \in 1..Len(c)
      BY <1>1, <1>3
    <2>2. c[i] = m /\ c[Len(a) + 1] = m
      BY <1>1, <1>3
    <2>3. l[i + s] = l[Len(a) + 1 + s] /\ i + s \in DOMAIN l /\ Len(a) + 1 + s \in DOMAIN l
      BY <1>2, <2>1, <2>2
    <2>4. i + s = Len(a) + 1 + s
      BY <2>3
    <2> QED BY <1>1, <2>4
  <1> QED BY <1>1, <1>4 DEF Contents

\* A push behind what was taken adds one element.
LEMMA PushedContents ==
    ASSUME NEW S, NEW a \in Seq(S), NEW c \in Seq(S), NEW m \in S
    PROVE  Contents(a \o Append(c, m)) = Contents(a \o c) \cup {m}
  <1>0. Append(c, m) \in Seq(S)
    OBVIOUS
  <1>1. PICK d \in Seq(S) : d = Append(c, m)
    BY <1>0, Zenon
  <1>2. Contents(d) = Contents(c) \cup {m}
    BY <1>1, ContentsPush
  <1>3. Contents(a \o d) = Contents(a) \cup Contents(d)
    BY ContentsConcat
  <1>4. Contents(a \o c) = Contents(a) \cup Contents(c)
    BY ContentsConcat
  <1>5. Contents(a \o d) = Contents(a \o c) \cup {m}
    BY ONLY <1>2, <1>3, <1>4
  <1> QED BY ONLY <1>1, <1>5, Zenon

\* What the queues rest on besides: no message is twice in a log; a worker holds
\* a message only from dequeue to its delivery; a message for which the semaphore
\* is about to be posted was pushed.
LogsDistinct == \A n \in Names : \A i, j \in DOMAIN log[n] :
                   log[n][i] = log[n][j] => i = j
InHand == \A u \in Workers : delivery[u] # Nil => pc[u] \in {"got", "remove", "delete"}
Pushed == \A w \in Workers : pc[w] = "post" =>
             text[w] \in Contents(got[dest[w]]) \cup Contents(queue[dest[w]])

\* A broadcast adds a message to one log that is in none yet.
LEMMA DistinctSteps ==
    ASSUME TypeOK, RefineInv, LogsDistinct, NEW w \in Workers, Step(w)
    PROVE  LogsDistinct'
  <1>1. CASE BroadcastLock(w)
    <2>1. pc[w] = "bcast" /\ log' = [log EXCEPT ![text[w].room] = Append(@, text[w])]
      BY <1>1 DEF BroadcastLock, Goto
    <2>2. text[w] \in Msg /\ text[w].from = w /\ text[w].n = sends[w]
      BY <2>1 DEF TypeOK, LocalsSet, RefineInv, LastNumber
    <2>3. text[w].room \in Names /\ log \in [Names -> Seq(Msg)] /\ sends[w] \in Nat
      <3>1. text[w].room \in Names
        BY <2>2 DEF Msg
      <3>2. log \in [Names -> Seq(Msg)] /\ sends[w] \in 0..MaxSends
        BY DEF TypeOK, Shapes
      <3> QED BY <3>1, <3>2, ChatAssumption
    <2>4. PICK m \in Msg : m = text[w]
      BY <2>2
    <2>5. \A i \in DOMAIN log[m.room] : log[m.room][i] # m
      <3> SUFFICES ASSUME NEW i \in DOMAIN log[m.room], log[m.room][i] = m PROVE FALSE
        OBVIOUS
      <3>1. EarlierOne(m)
        BY <2>3, <2>4 DEF RefineInv, LogNumbers
      <3> QED BY <2>1, <2>2, <2>3, <2>4, <3>1 DEF EarlierOne
    <2>6. ASSUME NEW n \in Names, NEW i \in DOMAIN log'[n], NEW j \in DOMAIN log'[n],
                 log'[n][i] = log'[n][j]
          PROVE  i = j
      <3>1. CASE n = m.room
        <4>1. PICK l \in Seq(Msg) : l = log[n] /\ log'[n] = Append(l, m)
          BY <2>1, <2>3, <2>4, <3>1
        <4>2. /\ Len(l) \in Nat /\ DOMAIN l = 1..Len(l)
              /\ DOMAIN Append(l, m) = 1..(Len(l) + 1)
              /\ \A k \in 1..Len(l) : Append(l, m)[k] = l[k]
              /\ Append(l, m)[Len(l) + 1] = m
          OBVIOUS
        <4>3. \A k \in 1..Len(l) : l[k] # m
          BY <2>5, <3>1, <4>1, <4>2
        <4>4. \A k, h \in 1..Len(l) : l[k] = l[h] => k = h
          BY <4>1, <4>2 DEF LogsDistinct
        <4>5. i \in 1..(Len(l) + 1) /\ j \in 1..(Len(l) + 1)
              /\ Append(l, m)[i] = Append(l, m)[j]
          BY <2>6, <4>1, <4>2
        <4>6. (i \in 1..Len(l) \/ i = Len(l) + 1) /\ (j \in 1..Len(l) \/ j = Len(l) + 1)
          BY <4>2, <4>5
        <4> HIDE <4>1
        <4> QED BY <4>2, <4>3, <4>4, <4>5, <4>6
      <3>2. CASE n # m.room
        <4>1. log'[n] = log[n]
          BY <2>1, <2>3, <2>4, <3>2
        <4> QED BY <2>6, <4>1 DEF LogsDistinct
      <3> QED BY <3>1, <3>2
    <2> QED BY <2>6 DEF LogsDistinct
  <1>2. CASE ~BroadcastLock(w)
    <2>1. log' = log
      BY <1>2 DEF Step, ClientCloses, LoginStep, Accept, LoginSender, LoginReceiver, LoginRefused,
          CommandStep, SenderJoin, SenderSendall, SenderLeave, SenderRefused, Reply, SenderEnds,
          FindStep, FindLock, FindHit, FindMiss, CreateRoom, BroadcastStep, NextUser, EnqueueLock,
          EnqueuePush, EnqueuePost, BroadcastDone, ReceiverStep, ReceiverJoin, ReceiverRefused,
          AddMember, JoinedReply, DequeueStep, DequeueCall, SemTake, SemBlock, SemTimeout,
          DequeueLock, DequeuePop, NothingReady, SendDelivery, SendFails, RemoveMember, DeleteUser,
          roomVars
    <2> QED BY <2>1 DEF LogsDistinct
  <1> QED BY <1>1, <1>2

\* Steps that take no message off a queue.
LEMMA InHandFrame ==
    ASSUME InHand, NEW w \in Workers,
           delivery'[w] # Nil => delivery[w] # Nil,
           pc[w] \in {"got", "remove", "delete"} =>
               delivery'[w] = Nil \/ pc'[w] \in {"got", "remove", "delete"},
           \A v \in Workers : v # w => pc'[v] = pc[v] /\ delivery'[v] = delivery[v]
    PROVE  InHand'
  BY DEF InHand

\* A worker holds a message only from dequeue to its delivery.
LEMMA InHandSteps ==
    ASSUME TypeOK, InHand, NEW w \in Workers, Step(w)
    PROVE  InHand'
  <1> USE DEF Goto, Finish, userVars
  <1>0. pc \in [Workers -> PCs] /\ delivery \in [Workers -> Msg \cup {Nil}]
    BY DEF TypeOK, Shapes
  <1>1. CASE DequeuePop(w)
    <2>1. /\ pc'[w] = "got"
          /\ \A v \in Workers : v # w => pc'[v] = pc[v] /\ delivery'[v] = delivery[v]
      BY <1>0, <1>1 DEF DequeuePop
    <2> QED BY <2>1 DEF InHand
  <1>2. CASE ClientCloses(w)
    BY <1>2 DEF ClientCloses, InHand
  <1>3. CASE LoginStep(w) \/ CommandStep(w) \/ FindStep(w)
    <2>1. /\ UNCHANGED delivery /\ pc[w] \notin {"got", "remove", "delete"}
          /\ \A v \in Workers : v # w => pc'[v] = pc[v]
      BY <1>0, <1>3 DEF LoginStep, Accept, LoginSender, LoginReceiver, LoginRefused,
          CommandStep, SenderJoin, SenderSendall, SenderLeave, SenderRefused, Reply, SenderEnds,
          FindStep, FindLock, FindHit, FindMiss, CreateRoom
    <2> QED BY <2>1, InHandFrame
  <1>4. CASE BroadcastStep(w)
    <2>1. /\ UNCHANGED delivery /\ pc[w] \notin {"got", "remove", "delete"}
          /\ \A v \in Workers : v # w => pc'[v] = pc[v]
      BY <1>0, <1>4 DEF BroadcastStep, BroadcastLock, NextUser, EnqueueLock, EnqueuePush,
          EnqueuePost, BroadcastDone
    <2> QED BY <2>1, InHandFrame
  <1>5. CASE DequeueStep(w) /\ ~DequeuePop(w)
    <2>1. /\ UNCHANGED delivery
          /\ pc[w] = "got" => delivery[w] = Nil
          /\ pc[w] \notin {"remove", "delete"}
          /\ \A v \in Workers : v # w => pc'[v] = pc[v]
      BY <1>0, <1>5 DEF DequeueStep, DequeueCall, SemTake, SemBlock, SemTimeout, DequeueLock,
          NothingReady
    <2> QED BY <2>1, InHandFrame
  <1>6. CASE ReceiverStep(w) /\ ~DequeueStep(w)
    <2>1. CASE ReceiverJoin(w) \/ ReceiverRefused(w) \/ AddMember(w) \/ JoinedReply(w)
      <3>1. /\ UNCHANGED delivery /\ pc[w] \notin {"got", "remove", "delete"}
            /\ \A v \in Workers : v # w => pc'[v] = pc[v]
        BY <1>0, <2>1 DEF ReceiverJoin, ReceiverRefused, AddMember, JoinedReply
      <3> QED BY <3>1, InHandFrame
    <2>2. CASE SendDelivery(w) \/ DeleteUser(w)
      <3>1. /\ delivery'[w] = Nil
            /\ \A v \in Workers : v # w => pc'[v] = pc[v] /\ delivery'[v] = delivery[v]
        BY <1>0, <2>2 DEF SendDelivery, DeleteUser
      <3> QED BY <3>1, InHandFrame
    <2>3. CASE SendFails(w) \/ RemoveMember(w)
      <3>1. /\ UNCHANGED delivery /\ pc'[w] \in {"got", "remove", "delete"}
            /\ \A v \in Workers : v # w => pc'[v] = pc[v]
        BY <1>0, <2>3 DEF SendFails, RemoveMember
      <3> QED BY <3>1, InHandFrame
    <2> QED BY <1>6, <2>1, <2>2, <2>3 DEF ReceiverStep
  <1> QED BY <1>1, <1>2, <1>3, <1>4, <1>5, <1>6 DEF Step, ReceiverStep, DequeueStep

\* Steps that neither push nor begin a post.
LEMMA PushedFrame ==
    ASSUME TypeOK, Pushed, NEW w \in Workers, UNCHANGED <<got, queue>>, pc'[w] # "post",
           \A v \in Workers : v # w => /\ pc'[v] = pc[v] /\ text'[v] = text[v]
                                       /\ dest'[v] = dest[v]
    PROVE  Pushed'
  BY DEF Pushed, Contents

\* Between the push and the post the message is in the queue, or was taken off
\* it already for an earlier unit of the semaphore.
LEMMA PushedSteps ==
    ASSUME TypeOK, Pushed, NEW w \in Workers, Step(w)
    PROVE  Pushed'
  <1> USE DEF Goto, Finish, sender, server, roomVars, userVars
  <1>1. CASE EnqueuePush(w)
    <2>0. PICK d \in Workers : d = dest[w]
      BY <1>1 DEF EnqueuePush, TypeOK, LocalsSet, QueuePCs
    <2>1. /\ UNCHANGED <<text, dest, got>> /\ queue' = [queue EXCEPT ![d] = Append(@, text[w])]
          /\ \A v \in Workers : v # w => pc'[v] = pc[v]
      BY <1>1, <2>0 DEF EnqueuePush, TypeOK, Shapes
    <2>2. text[w] \in Msg /\ queue[d] \in Seq(Msg) /\ queue'[d] = Append(queue[d], text[w])
      BY <1>1, <2>1 DEF EnqueuePush, TypeOK, Shapes, LocalsSet, RoomPCs
    <2>3. Contents(queue'[d]) = Contents(queue[d]) \cup {text[w]}
      BY <2>2, ContentsPush
    <2>4. ASSUME NEW v \in Workers, pc'[v] = "post"
          PROVE  text[v] \in Contents(got[dest[v]]) \cup Contents(queue'[dest[v]])
      <3>1. CASE v = w
        BY <2>0, <2>3, <3>1
      <3>2. CASE v # w
        <4>1. dest[v] \in Workers
          BY <2>1, <2>4, <3>2 DEF TypeOK, LocalsSet, QueuePCs
        <4>2. text[v] \in Contents(got[dest[v]]) \cup Contents(queue[dest[v]])
          BY <2>1, <2>4, <3>2 DEF Pushed
        <4>3. CASE dest[v] = d
          BY <2>3, <4>2, <4>3
        <4>4. CASE dest[v] # d
          BY <2>1, <4>1, <4>2, <4>4 DEF TypeOK, Shapes
        <4> QED BY <4>3, <4>4
      <3> QED BY <3>1, <3>2
    <2>5. \A v \in Workers : pc'[v] = "post" =>
             text'[v] \in Contents(got'[dest'[v]]) \cup Contents(queue'[dest'[v]])
      BY <2>1, <2>4
    <2> QED BY <2>5 DEF Pushed, Contents
  <1>2. CASE DequeuePop(w)
    <2>1. /\ UNCHANGED <<text, dest>>
          /\ got' = [got EXCEPT ![w] = @ \o SubSeq(queue[w], 1, 1)]
          /\ queue' = [queue EXCEPT ![w] = SubSeq(@, 2, Len(@))]
          /\ pc'[w] # "post"
          /\ \A v \in Workers : v # w => pc'[v] = pc[v]
      BY <1>2 DEF DequeuePop, TypeOK, Shapes
    <2>2. got[w] \in Seq(Msg) /\ queue[w] \in Seq(Msg)
      BY DEF TypeOK, Shapes
    <2>3. Contents(got'[w]) \cup Contents(queue'[w]) = Contents(got[w]) \cup Contents(queue[w])
      <3>1. PICK g \in Seq(Msg) : g = got[w] \o SubSeq(queue[w], 1, 1)
        BY <2>2, FirstSeq, ConcatProperties
      <3>2. PICK q \in Seq(Msg) : q = SubSeq(queue[w], 2, Len(queue[w]))
        BY <2>2, TailSeq
      <3>3. g \o q = got[w] \o queue[w]
        BY <2>2, <3>1, <3>2, PopMoves
      <3>4. Contents(g \o q) = Contents(g) \cup Contents(q)
        BY ContentsConcat
      <3>5. Contents(got[w] \o queue[w]) = Contents(got[w]) \cup Contents(queue[w])
        BY <2>2, ContentsConcat
      <3>6. got'[w] = g /\ queue'[w] = q
        BY <2>1, <3>1, <3>2 DEF TypeOK, Shapes
      <3> QED BY ONLY <3>3, <3>4, <3>5, <3>6, Zenon
    <2>4. ASSUME NEW v \in Workers, pc'[v] = "post"
          PROVE  text[v] \in Contents(got'[dest[v]]) \cup Contents(queue'[dest[v]])
      <3>1. pc[v] = "post"
        BY <2>1, <2>4
      <3>2. dest[v] \in Workers
        BY <3>1 DEF TypeOK, LocalsSet, QueuePCs
      <3>3. text[v] \in Contents(got[dest[v]]) \cup Contents(queue[dest[v]])
        BY <3>1 DEF Pushed
      <3>4. CASE dest[v] = w
        BY <2>3, <3>3, <3>4
      <3>5. CASE dest[v] # w
        BY <2>1, <3>2, <3>3, <3>5 DEF TypeOK, Shapes
      <3> QED BY <3>4, <3>5
    <2>5. \A v \in Workers : pc'[v] = "post" =>
             text'[v] \in Contents(got'[dest'[v]]) \cup Contents(queue'[dest'[v]])
      BY <2>1, <2>4
    <2> QED BY <2>5 DEF Pushed, Contents
  <1>3. CASE ClientCloses(w)
    BY <1>3 DEF ClientCloses, Pushed, Contents
  <1>4. CASE LoginStep(w) \/ CommandStep(w) \/ FindStep(w)
    <2>1. /\ UNCHANGED <<got, queue>> /\ pc'[w] # "post"
          /\ \A v \in Workers : v # w => /\ pc'[v] = pc[v] /\ text'[v] = text[v]
                                         /\ dest'[v] = dest[v]
      BY <1>4 DEF LoginStep, Accept, LoginSender, LoginReceiver, LoginRefused,
          CommandStep, SenderJoin, SenderSendall, SenderLeave, SenderRefused, Reply, SenderEnds,
          FindStep, FindLock, FindHit, FindMiss, CreateRoom, AfterFind, TypeOK, Shapes
    <2> QED BY <2>1, PushedFrame
  <1>5. CASE BroadcastStep(w) /\ ~EnqueuePush(w)
    <2>1. /\ UNCHANGED <<got, queue>> /\ pc'[w] # "post"
          /\ \A v \in Workers : v # w => /\ pc'[v] = pc[v] /\ text'[v] = text[v]
                                         /\ dest'[v] = dest[v]
      BY <1>5 DEF BroadcastStep, BroadcastLock, NextUser, EnqueueLock, EnqueuePost,
          BroadcastDone, TypeOK, Shapes
    <2> QED BY <2>1, PushedFrame
  <1>6. CASE DequeueStep(w) /\ ~DequeuePop(w)
    <2>1. /\ UNCHANGED <<got, queue, text, dest>> /\ pc'[w] # "post"
          /\ \A v \in Workers : v # w => pc'[v] = pc[v]
      BY <1>6 DEF DequeueStep, DequeueCall, SemTake, SemBlock, SemTimeout, DequeueLock,
          NothingReady, TypeOK, Shapes
    <2> QED BY <2>1, PushedFrame
  <1>7. CASE ReceiverStep(w) /\ ~DequeueStep(w)
    <2>1. /\ UNCHANGED <<got, queue, text, dest>> /\ pc'[w] # "post"
          /\ \A v \in Workers : v # w => pc'[v] = pc[v]
      BY <1>7 DEF ReceiverStep, ReceiverJoin, ReceiverRefused, AddMember, JoinedReply,
          SendDelivery, SendFails, RemoveMember, DeleteUser, TypeOK, Shapes
    <2> QED BY <2>1, PushedFrame
  <1> QED BY <1>1, <1>2, <1>3, <1>4, <1>5, <1>6, <1>7
          DEF Step, BroadcastStep, DequeueStep, ReceiverStep

QueuesInv == LogsDistinct /\ InHand /\ Pushed

\* QueuesInv holds in every reachable state.
LEMMA QueuesHold == Spec => []QueuesInv
  <1>1. Init => QueuesInv
    BY DEF Init, QueuesInv, LogsDistinct, InHand, Pushed
  <1>2. TypeOK /\ RefineInv /\ QueuesInv /\ [Next]_vars => QueuesInv'
    <2> SUFFICES ASSUME TypeOK, RefineInv, QueuesInv, [Next]_vars PROVE QueuesInv'
      OBVIOUS
    <2>1. ASSUME NEW w \in Workers, Step(w) PROVE QueuesInv'
      BY <2>1, DistinctSteps, InHandSteps, PushedSteps DEF QueuesInv
    <2>2. CASE UNCHANGED vars
      BY <2>2 DEF vars, sender, server, roomVars, userVars, QueuesInv, LogsDistinct, InHand,
                  Pushed, Contents
    <2> QED BY <2>1, <2>2 DEF Next, OnlyAccepting
  <1> QED BY <1>1, <1>2, TypeCorrect, RefineHolds, PTL DEF Spec

-----------------------------------------------------------------------------
(* The steps of a queue, seen from its MessageQueue *)

\* The view of a queue that ChatServer defines, part by part.
Point(u, t, p, d) ==
    CASE t # u /\ d = u -> p
      [] t = u /\ p \in {"wait", "blocked", "pop"} -> p
      [] t = u /\ p = "claim" -> "lock"
      [] t = u /\ p = "got" -> "ret"
      [] OTHER -> "idle"
Where(u)  == [t \in Workers |-> Point(u, t, pc[t], dest[t])]
Arg(u)    == [t \in Workers \ {u} |-> IF dest[t] = u THEN text[t] ELSE Nil]
Ret(u)    == [t \in {u} |-> IF pc[u] = "got" THEN delivery[u] ELSE Nil]
Coming(u) == {text[t] : t \in {s \in Workers : dest[s] = u}}
Sent(u)   == Contents(got[u] \o queue[u]) \cup Coming(u)

\* The points at which a receiver's worker is inside its queue.
InsidePCs == {"wait", "blocked", "pop", "claim", "got"}

\* Where a thread is, case by case.
LEMMA PointIs ==
    ASSUME NEW u, NEW t, NEW p, NEW d
    PROVE  /\ t # u /\ d = u => Point(u, t, p, d) = p
           /\ t # u /\ d # u => Point(u, t, p, d) = "idle"
           /\ t = u /\ p \in {"wait", "blocked", "pop"} => Point(u, t, p, d) = p
           /\ t = u /\ p = "claim" => Point(u, t, p, d) = "lock"
           /\ t = u /\ p = "got" => Point(u, t, p, d) = "ret"
           /\ t = u /\ p \notin InsidePCs => Point(u, t, p, d) = "idle"
  BY Zenon DEF Point, InsidePCs

\* A move of one thread, in the view.
LEMMA ViewGoto ==
    ASSUME NEW u \in Receivers, NEW w \in Workers, NEW from, NEW to,
           Point(u, w, pc[w], dest[w]) = from,
           Point(u, w, pc'[w], dest'[w]) = to,
           \A v \in Workers : v # w => pc'[v] = pc[v] /\ dest'[v] = dest[v]
    PROVE  QueueOf(u)!Goto(w, from, to)
  <1>1. Where(u)[w] = from
    BY DEF Where
  <1>2. Where(u)' = [Where(u) EXCEPT ![w] = to]
    BY DEF Where
  <1> QED BY ONLY <1>1, <1>2, Zenon DEF QueueOf!Goto, Where, Point

\* A step of w that is at u's queue neither before nor after is none of u's.
LEMMA ViewFrame ==
    ASSUME NEW u \in Receivers, NEW w \in Workers, dest[w] # u, dest'[w] # u,
           w = u => pc[w] \notin InsidePCs /\ pc'[w] \notin InsidePCs,
           \A v \in Workers : v # w => /\ pc'[v] = pc[v] /\ dest'[v] = dest[v]
                                       /\ text'[v] = text[v]
                                       /\ delivery'[v] = delivery[v],
           queue'[u] = queue[u], avail'[u] = avail[u],
           queueLock'[u] = queueLock[u], got'[u] = got[u]
    PROVE  UNCHANGED QueueOf(u)!vars
  <1>0. u \in Workers
    BY ChatAssumption
  <1>1. Where(u)' = Where(u)
    <2>1. ASSUME NEW t \in Workers
          PROVE  Point(u, t, pc'[t], dest'[t]) = Point(u, t, pc[t], dest[t])
      <3>1. CASE t # w
        BY <3>1
      <3>2. CASE t = w
        BY <3>2, PointIs
      <3> QED BY <3>1, <3>2
    <2> QED BY <2>1 DEF Where
  <1>2. Arg(u)' = Arg(u)
    BY DEF Arg
  <1>3. Ret(u)' = Ret(u)
    <2>1. (IF pc'[u] = "got" THEN delivery'[u] ELSE Nil)
             = IF pc[u] = "got" THEN delivery[u] ELSE Nil
      BY <1>0 DEF InsidePCs
    <2> QED BY <2>1 DEF Ret
  <1>4. Coming(u)' = Coming(u)
    BY DEF Coming
  <1>5. Sent(u)' = Sent(u)
    BY <1>4 DEF Sent, Contents
  <1>6. Contents(got[u])' = Contents(got[u])
    BY DEF Contents
  <1> QED BY ONLY <1>1, <1>2, <1>3, <1>5, <1>6, Zenon,
             queue'[u] = queue[u], avail'[u] = avail[u], queueLock'[u] = queueLock[u]
          DEF QueueOf!vars, Where, Point, Arg, Ret, Sent, Coming

\* The step of a broadcast from one member to the next begins a call.
LEMMA NextUserCalls ==
    ASSUME TypeOK, RoomsLocked, MembersInside, DestIsMember, VisitedOnce, TextInRoom,
           RoomOrder, LogsDistinct,
           NEW u \in Receivers, NEW w \in Workers, NextUser(w), dest'[w] = u
    PROVE  QueueOf(u)!Next
  <1>0. u \in Workers
    BY ChatAssumption
  <1>1. /\ pc[w] = "each" /\ pc'[w] = "lock"
        /\ \A v \in Workers : v # w => pc'[v] = pc[v] /\ dest'[v] = dest[v]
        /\ UNCHANGED <<text, delivery, queue, avail, queueLock, got>>
        /\ u \in members[room[w]] /\ u \notin visited[w]
        /\ pc' = [pc EXCEPT ![w] = "lock"]
        /\ dest' = [dest EXCEPT ![w] = u]
    BY DEF NextUser, Goto, TypeOK, Shapes, sender, server, roomVars, userVars
  <1>2. room[w] \in Rooms /\ text[w] \in Msg /\ dest[w] \notin Workers
    BY <1>1 DEF TypeOK, LocalsSet, RoomPCs, QueuePCs
  <1>3. w # u
    BY <1>1, <1>2 DEF MembersInside, MemberPCs
  <1>4. roomLock[room[w]] = w
    BY <1>1, <1>2 DEF RoomsLocked, InMembers, RoomPCs
  <1>5. \A t \in Workers : dest[t] # u
    <2> SUFFICES ASSUME NEW t \in Workers, dest[t] = u PROVE FALSE
      OBVIOUS
    <2>1. pc[t] \in QueuePCs
      BY <1>0 DEF TypeOK, LocalsSet
    <2>2. room[t] \in Rooms /\ u \in members[room[t]]
      BY <2>1 DEF DestIsMember, TypeOK, LocalsSet, QueuePCs, RoomPCs
    <2>3. room[t] = room[w]
      BY <1>1, <1>2, <2>2 DEF MembersInside
    <2>4. roomLock[room[w]] = t
      BY <1>2, <2>1, <2>3 DEF RoomsLocked, InMembers, RoomPCs, QueuePCs
    <2> QED BY <1>0, <1>2, <1>4, <2>4
  <1>6. /\ got[u] \in Seq(Msg) /\ queue[u] \in Seq(Msg) /\ log[NameOf(room[w])] \in Seq(Msg)
        /\ since[u] \in Nat /\ NameOf(room[w]) \in Names
    BY <1>0, <1>2 DEF TypeOK, Shapes, Rooms, NameOf
  <1>7. text[w] \notin Contents(got[u] \o queue[u])
    <2>1. (got[u] \o queue[u]) \o <<text[w]>> = LogSince(NameOf(room[w]), u)
      <3>1. Pending(room[w], u) = <<text[w]>>
        BY <1>0, <1>1, <1>2, <1>4, PendingHeld
      <3>2. got[u] \o queue[u] \o Pending(room[w], u) = LogSince(NameOf(room[w]), u)
        BY <1>1, <1>2, Zenon DEF RoomOrder
      <3> QED BY ONLY <3>1, <3>2, Zenon
    <2>2. \A i, j \in DOMAIN log[NameOf(room[w])] :
             log[NameOf(room[w])][i] = log[NameOf(room[w])][j] => i = j
      BY <1>6 DEF LogsDistinct
    <2>3. got[u] \o queue[u] \in Seq(Msg)
      BY <1>6, ConcatProperties
    <2> QED BY <1>2, <1>6, <2>1, <2>2, <2>3, LastIsNew DEF LogSince
  <1>8. Coming(u) = {} /\ Coming(u)' = {text[w]}
    <2>1. dest[w] # u /\ dest'[w] = u
      BY <1>5
    <2>2. \A t \in Workers : dest'[t] = u <=> t = w
      BY <1>1, <1>5, <2>1
    <2> QED BY <1>1, <1>5, <2>2 DEF Coming
  <1>9. text[w] \notin Sent(u) /\ Sent(u)' = Sent(u) \cup {text[w]}
    <2>1. Contents(got[u] \o queue[u])' = Contents(got[u] \o queue[u])
      BY <1>1 DEF Contents
    <2>2. Sent(u)' = Contents(got[u] \o queue[u]) \cup {text[w]}
      BY ONLY <1>8, <2>1, Zenon DEF Sent
    <2>3. Sent(u) = Contents(got[u] \o queue[u])
      BY ONLY <1>8, Zenon DEF Sent
    <2> QED BY ONLY <1>7, <2>2, <2>3
  <1>10. Arg(u)' = [Arg(u) EXCEPT ![w] = text[w]]
    BY <1>1, <1>5 DEF Arg
  <1>11. QueueOf(u)!Goto(w, "idle", "lock")
    BY <1>1, <1>3, <1>5, PointIs, ViewGoto
  <1>12. /\ Ret(u)' = Ret(u) /\ Contents(got[u])' = Contents(got[u])
         /\ queue'[u] = queue[u] /\ avail'[u] = avail[u] /\ queueLock'[u] = queueLock[u]
    BY <1>0, <1>1, <1>3 DEF Ret, Contents
  <1>13. \E m \in Msg \ Sent(u) : Arg(u)' = [Arg(u) EXCEPT ![w] = m] /\ Sent(u)' = Sent(u) \cup {m}
    BY <1>2, <1>9, <1>10
  <1>14. QueueOf(u)!EnqueueCall(w)
    BY ONLY <1>11, <1>12, <1>13, Zenon
       DEF QueueOf!EnqueueCall, Arg, Ret, Sent, Coming
  <1> QED BY <1>3, <1>14 DEF QueueOf!Next

\* enqueue up to the push.
LEMMA EnqueueLockView ==
    ASSUME TypeOK, MembersInside, DestIsMember,
           NEW u \in Receivers, NEW w \in Workers, EnqueueLock(w), dest[w] = u
    PROVE  QueueOf(u)!Next
  <1>0. u \in Workers
    BY ChatAssumption
  <1>1. /\ pc[w] = "lock" /\ pc'[w] = "push" /\ w # u
        /\ \A v \in Workers : v # w => pc'[v] = pc[v]
        /\ UNCHANGED <<dest, text, delivery, queue, avail, got>>
        /\ queueLock[u] = Nil /\ queueLock'[u] = w
    <2>1. room[w] \in Rooms /\ u \in members[room[w]] /\ pc[w] = "lock"
      BY DEF EnqueueLock, Goto, DestIsMember, TypeOK, LocalsSet, QueuePCs, RoomPCs
    <2>2. w # u
      BY <2>1 DEF MembersInside, MemberPCs
    <2> QED BY <1>0, <2>2 DEF EnqueueLock, Goto, TypeOK, Shapes, sender, server, roomVars
  <1>2. QueueOf(u)!Goto(w, "lock", "push")
    BY <1>1, PointIs, ViewGoto
  <1>3. /\ Arg(u)' = Arg(u) /\ Ret(u)' = Ret(u) /\ Sent(u)' = Sent(u)
        /\ Contents(got[u])' = Contents(got[u])
        /\ queue'[u] = queue[u] /\ avail'[u] = avail[u]
    BY <1>0, <1>1 DEF Arg, Ret, Sent, Coming, Contents
  <1>4. QueueOf(u)!EnqueueLock(w)
    BY ONLY <1>1, <1>2, <1>3, Zenon DEF QueueOf!EnqueueLock, Arg, Ret, Sent, Coming
  <1> QED BY <1>1, <1>4 DEF QueueOf!Next, QueueOf!EnqueueStep

\* The push: the message was on its way and is in the queue.
LEMMA EnqueuePushView ==
    ASSUME TypeOK, MembersInside, DestIsMember,
           NEW u \in Receivers, NEW w \in Workers, EnqueuePush(w), dest[w] = u
    PROVE  QueueOf(u)!Next
  <1>0. u \in Workers
    BY ChatAssumption
  <1>1. /\ pc[w] = "push" /\ pc'[w] = "post" /\ w # u
        /\ \A v \in Workers : v # w => pc'[v] = pc[v]
        /\ UNCHANGED <<dest, text, delivery, avail, got>>
        /\ queue'[u] = Append(queue[u], text[w]) /\ queueLock'[u] = Nil
    <2>1. room[w] \in Rooms /\ u \in members[room[w]] /\ pc[w] = "push"
      BY DEF EnqueuePush, Goto, DestIsMember, TypeOK, LocalsSet, QueuePCs, RoomPCs
    <2>2. w # u
      BY <2>1 DEF MembersInside, MemberPCs
    <2> QED BY <1>0, <2>2 DEF EnqueuePush, Goto, TypeOK, Shapes, sender, server, roomVars
  <1>2. got[u] \in Seq(Msg) /\ queue[u] \in Seq(Msg) /\ text[w] \in Msg
    BY <1>0, <1>1 DEF TypeOK, Shapes, LocalsSet, RoomPCs
  <1>3. QueueOf(u)!Goto(w, "push", "post")
    BY <1>1, PointIs, ViewGoto
  <1>4. /\ Arg(u)' = Arg(u) /\ Ret(u)' = Ret(u) /\ Contents(got[u])' = Contents(got[u])
        /\ avail'[u] = avail[u] /\ Coming(u)' = Coming(u)
    BY <1>0, <1>1 DEF Arg, Ret, Coming, Contents
  <1>5. queue'[u] = Append(queue[u], Arg(u)[w])
    BY <1>1 DEF Arg
  <1>6. Sent(u)' = Sent(u)
    <2>1. Contents(got[u] \o Append(queue[u], text[w])) = Contents(got[u] \o queue[u]) \cup {text[w]}
      BY <1>2, PushedContents
    <2>4. Contents(got[u] \o queue[u])' = Contents(got[u] \o Append(queue[u], text[w]))
      BY <1>1 DEF Contents
    <2>5. text[w] \in Coming(u)
      BY DEF Coming
    <2>6. Sent(u)' = Contents(got[u] \o queue[u])' \cup Coming(u)
      BY ONLY <1>4, Zenon DEF Sent
    <2>7. Sent(u) = Contents(got[u] \o queue[u]) \cup Coming(u)
      BY ONLY Zenon DEF Sent
    <2> QED BY ONLY <2>1, <2>4, <2>5, <2>6, <2>7
  <1>7. QueueOf(u)!EnqueuePush(w)
    BY ONLY <1>1, <1>3, <1>4, <1>5, <1>6, Zenon DEF QueueOf!EnqueuePush, Arg, Ret, Sent, Coming
  <1> QED BY <1>1, <1>7 DEF QueueOf!Next, QueueOf!EnqueueStep

\* The post ends the call; the message stays where the push put it.
LEMMA EnqueuePostView ==
    ASSUME TypeOK, MembersInside, DestIsMember, Pushed,
           NEW u \in Receivers, NEW w \in Workers, EnqueuePost(w), dest[w] = u
    PROVE  QueueOf(u)!Next
  <1>0. u \in Workers
    BY ChatAssumption
  <1>1. /\ pc[w] = "post" /\ pc'[w] = "each" /\ w # u /\ dest'[w] = Nil
        /\ \A v \in Workers : v # w => pc'[v] = pc[v] /\ dest'[v] = dest[v]
        /\ UNCHANGED <<text, delivery, queue, queueLock, got>>
        /\ avail'[u] = avail[u] + 1
    <2>1. room[w] \in Rooms /\ u \in members[room[w]] /\ pc[w] = "post"
      BY DEF EnqueuePost, Goto, DestIsMember, TypeOK, LocalsSet, QueuePCs, RoomPCs
    <2>2. w # u
      BY <2>1 DEF MembersInside, MemberPCs
    <2> QED BY <1>0, <2>2 DEF EnqueuePost, Goto, TypeOK, Shapes, server, roomVars
  <1>2. got[u] \in Seq(Msg) /\ queue[u] \in Seq(Msg) /\ u # Nil
    BY <1>0, ChatAssumption DEF TypeOK, Shapes
  <1>3. QueueOf(u)!Goto(w, "post", "idle")
    BY <1>1, <1>2, PointIs, ViewGoto
  <1>4. /\ Arg(u)' = [Arg(u) EXCEPT ![w] = Nil]
        /\ Ret(u)' = Ret(u) /\ Contents(got[u])' = Contents(got[u])
        /\ queue'[u] = queue[u] /\ queueLock'[u] = queueLock[u]
    BY <1>0, <1>1, <1>2 DEF Arg, Ret, Contents
  <1>5. Sent(u)' = Sent(u)
    <2>1. text[w] \in Contents(got[u] \o queue[u])
      BY <1>1, <1>2, ContentsConcat DEF Pushed
    <2>2. Coming(u) = Coming(u)' \cup {text[w]}
      BY <1>1, <1>2 DEF Coming
    <2>3. Contents(got[u] \o queue[u])' = Contents(got[u] \o queue[u])
      BY <1>1 DEF Contents
    <2>4. Sent(u)' = Contents(got[u] \o queue[u]) \cup Coming(u)'
      BY ONLY <2>3, Zenon DEF Sent
    <2>5. Sent(u) = Contents(got[u] \o queue[u]) \cup Coming(u)
      BY ONLY Zenon DEF Sent
    <2> QED BY ONLY <2>1, <2>2, <2>4, <2>5
  <1>6. QueueOf(u)!EnqueuePost(w)
    BY ONLY <1>1, <1>3, <1>4, <1>5, Zenon DEF QueueOf!EnqueuePost, Arg, Ret, Sent, Coming
  <1> QED BY <1>1, <1>6 DEF QueueOf!Next, QueueOf!EnqueueStep

\* dequeue up to the lock, and the time-out.
LEMMA DequeueView ==
    ASSUME TypeOK, InHand, NEW u \in Receivers,
           DequeueCall(u) \/ SemTake(u) \/ SemBlock(u) \/ SemTimeout(u) \/ DequeueLock(u)
    PROVE  QueueOf(u)!Next
  <1>0. u \in Workers
    BY ChatAssumption
  <1>1. /\ \A v \in Workers : v # u => pc'[v] = pc[v]
        /\ UNCHANGED <<dest, text, delivery, queue, got>>
    BY <1>0 DEF DequeueCall, SemTake, SemBlock, SemTimeout, DequeueLock, Goto, TypeOK, Shapes,
                sender, server, roomVars, userVars
  <1>2. /\ Arg(u)' = Arg(u) /\ Sent(u)' = Sent(u) /\ Contents(got[u])' = Contents(got[u])
        /\ queue'[u] = queue[u]
    BY <1>1 DEF Arg, Sent, Coming, Contents
  <1>3. pc[u] # "got" => Ret(u) = [t \in {u} |-> Nil]
    BY DEF Ret
  <1>4. pc'[u] # "got" => Ret(u)' = [t \in {u} |-> Nil]
    BY DEF Ret
  <1>5. CASE DequeueCall(u)
    <2>1. /\ pc[u] = "loop" /\ pc'[u] = "wait"
          /\ avail'[u] = avail[u] /\ queueLock'[u] = queueLock[u]
      BY <1>0, <1>5 DEF DequeueCall, Goto, TypeOK, Shapes, userVars
    <2>2. QueueOf(u)!Goto(u, "idle", "wait") /\ Ret(u)' = Ret(u)
      BY <1>0, <1>1, <1>3, <1>4, <2>1, PointIs, ViewGoto DEF InsidePCs
    <2>3. QueueOf(u)!DequeueCall(u)
      BY ONLY <1>2, <2>1, <2>2, Zenon DEF QueueOf!DequeueCall, Arg, Ret, Sent, Coming
    <2> QED BY <2>3 DEF QueueOf!Next
  <1>6. CASE SemTake(u)
    <2>1. /\ pc[u] \in {"wait", "blocked"} /\ pc'[u] = "claim"
          /\ avail[u] > 0 /\ avail'[u] = avail[u] - 1 /\ queueLock'[u] = queueLock[u]
      BY <1>0, <1>6 DEF SemTake, Goto, TypeOK, Shapes
    <2>2. Ret(u)' = Ret(u)
      BY <1>3, <1>4, <2>1
    <2>3. CASE pc[u] = "wait"
      <3>1. QueueOf(u)!Goto(u, "wait", "lock")
        BY <1>0, <1>1, <2>1, <2>3, PointIs, ViewGoto
      <3>2. QueueOf(u)!SemTake(u)
        BY ONLY <1>2, <2>1, <2>2, <3>1, Zenon DEF QueueOf!SemTake, Arg, Ret, Sent, Coming
      <3> QED BY <3>2 DEF QueueOf!Next, QueueOf!DequeueStep
    <2>4. CASE pc[u] = "blocked"
      <3>1. QueueOf(u)!Goto(u, "blocked", "lock")
        BY <1>0, <1>1, <2>1, <2>4, PointIs, ViewGoto
      <3>2. QueueOf(u)!SemWake(u)
        BY ONLY <1>2, <2>1, <2>2, <3>1, Zenon DEF QueueOf!SemWake, Arg, Ret, Sent, Coming
      <3> QED BY <3>2 DEF QueueOf!Next, QueueOf!DequeueStep
    <2> QED BY <2>1, <2>3, <2>4
  <1>7. CASE SemBlock(u)
    <2>1. /\ pc[u] = "wait" /\ pc'[u] = "blocked" /\ avail[u] = 0
          /\ avail'[u] = avail[u] /\ queueLock'[u] = queueLock[u]
      BY <1>0, <1>7 DEF SemBlock, Goto, TypeOK, Shapes, userVars
    <2>2. QueueOf(u)!Goto(u, "wait", "blocked") /\ Ret(u)' = Ret(u)
      BY <1>0, <1>1, <1>3, <1>4, <2>1, PointIs, ViewGoto
    <2>3. QueueOf(u)!SemBlock(u)
      BY ONLY <1>2, <2>1, <2>2, Zenon DEF QueueOf!SemBlock, Arg, Ret, Sent, Coming
    <2> QED BY <2>3 DEF QueueOf!Next, QueueOf!DequeueStep
  <1>8. CASE SemTimeout(u)
    <2>1. /\ pc[u] = "blocked" /\ pc'[u] = "got"
          /\ avail'[u] = avail[u] /\ queueLock'[u] = queueLock[u]
      BY <1>0, <1>8 DEF SemTimeout, Goto, TypeOK, Shapes, userVars
    <2>2. QueueOf(u)!Goto(u, "blocked", "ret")
      BY <1>0, <1>1, <2>1, PointIs, ViewGoto
    <2>3. Ret(u)' = [Ret(u) EXCEPT ![u] = Nil]
      BY <1>0, <1>1, <2>1 DEF Ret, InHand
    <2>4. QueueOf(u)!SemTimeout(u)
      BY ONLY <1>2, <2>1, <2>2, <2>3, Zenon DEF QueueOf!SemTimeout, Arg, Ret, Sent, Coming
    <2> QED BY <2>4 DEF QueueOf!Next, QueueOf!DequeueStep
  <1>9. CASE DequeueLock(u)
    <2>1. /\ pc[u] = "claim" /\ pc'[u] = "pop" /\ avail'[u] = avail[u]
          /\ queueLock[u] = Nil /\ queueLock'[u] = u
      BY <1>0, <1>9 DEF DequeueLock, Goto, TypeOK, Shapes
    <2>2. QueueOf(u)!Goto(u, "lock", "pop") /\ Ret(u)' = Ret(u)
      BY <1>0, <1>1, <1>3, <1>4, <2>1, PointIs, ViewGoto
    <2>3. QueueOf(u)!DequeueLock(u)
      BY ONLY <1>2, <2>1, <2>2, Zenon DEF QueueOf!DequeueLock, Arg, Ret, Sent, Coming
    <2> QED BY <2>3 DEF QueueOf!Next, QueueOf!DequeueStep
  <1> QED BY <1>5, <1>6, <1>7, <1>8, <1>9

\* What a pop takes, and what it leaves.
LEMMA PopView ==
    ASSUME NEW q \in Seq(Msg), NEW g \in Seq(Msg)
    PROVE  /\ SubSeq(q, 2, Len(q)) = IF q = <<>> THEN q ELSE Tail(q)
           /\ Contents(g \o SubSeq(q, 1, 1))
                 = Contents(g) \cup ({IF q = <<>> THEN Nil ELSE Head(q)} \ {Nil})
  <1>1. CASE q = <<>>
    <2>1. SubSeq(q, 1, 1) = <<>> /\ g \o <<>> = g
      BY <1>1, EmptyHead, ConcatEmptySeq
    <2>2. SubSeq(q, 2, Len(q)) = q
      BY <1>1
    <2>3. ({IF q = <<>> THEN Nil ELSE Head(q)} \ {Nil}) = {}
      BY <1>1
    <2> QED BY <1>1, <2>1, <2>2, <2>3
  <1>2. CASE q # <<>>
    <2>1. PICK a \in Seq(Msg) : a = SubSeq(q, 1, 1)
      BY FirstSeq
    <2>2. a = <<Head(q)>> /\ Head(q) \in Msg
      BY <1>2, <2>1, HeadSeq
    <2>3. Contents(a) = {Head(q)}
      <3>1. PICK m \in Msg : m = Head(q)
        BY <2>2
      <3>2. DOMAIN a = {1} /\ a[1] = m
        BY <2>2, <3>1
      <3> QED BY <3>1, <3>2 DEF Contents
    <2>4. Contents(g \o a) = Contents(g) \cup Contents(a)
      BY ContentsConcat
    <2>5. Head(q) # Nil
      BY <2>2, ChatAssumption
    <2>6. ({IF q = <<>> THEN Nil ELSE Head(q)} \ {Nil}) = {Head(q)}
      BY <1>2, <2>5
    <2>7. Contents(g \o SubSeq(q, 1, 1)) = Contents(g) \cup {Head(q)}
      BY ONLY <2>1, <2>3, <2>4, Zenon
    <2>8. SubSeq(q, 2, Len(q)) = Tail(q)
      BY <1>2
    <2> QED BY ONLY <1>2, <2>6, <2>7, <2>8
  <1> QED BY <1>1, <1>2

\* The pop, with the message returned.
LEMMA DequeuePopView ==
    ASSUME TypeOK, NEW u \in Receivers, DequeuePop(u)
    PROVE  QueueOf(u)!Next
  <1>0. u \in Workers
    BY ChatAssumption
  <1>1. /\ pc[u] = "pop" /\ pc'[u] = "got"
        /\ \A v \in Workers : v # u => pc'[v] = pc[v]
        /\ UNCHANGED <<dest, text, avail>>
        /\ queueLock'[u] = Nil
        /\ delivery'[u] = IF queue[u] = <<>> THEN Nil ELSE Head(queue[u])
        /\ got'[u] = got[u] \o SubSeq(queue[u], 1, 1)
        /\ queue'[u] = SubSeq(queue[u], 2, Len(queue[u]))
    BY <1>0 DEF DequeuePop, Goto, TypeOK, Shapes, sender, server, roomVars
  <1>2. got[u] \in Seq(Msg) /\ queue[u] \in Seq(Msg)
    BY <1>0 DEF TypeOK, Shapes
  <1>3. QueueOf(u)!Goto(u, "pop", "ret")
    BY <1>0, <1>1, PointIs, ViewGoto
  <1>4. Arg(u)' = Arg(u) /\ Coming(u)' = Coming(u) /\ avail'[u] = avail[u]
    BY <1>1 DEF Arg, Coming
  <1>5. Ret(u)' = [Ret(u) EXCEPT ![u] = IF queue[u] = <<>> THEN Nil ELSE Head(queue[u])]
    BY <1>1 DEF Ret
  <1>6. queue'[u] = IF queue[u] = <<>> THEN queue[u] ELSE Tail(queue[u])
    BY <1>1, <1>2, PopView
  <1>7. Contents(got[u])' = Contents(got[u])
                               \cup ({IF queue[u] = <<>> THEN Nil ELSE Head(queue[u])} \ {Nil})
    <2>1. Contents(got[u])' = Contents(got[u] \o SubSeq(queue[u], 1, 1))
      BY <1>1 DEF Contents
    <2>2. Contents(got[u] \o SubSeq(queue[u], 1, 1))
             = Contents(got[u]) \cup ({IF queue[u] = <<>> THEN Nil ELSE Head(queue[u])} \ {Nil})
      BY <1>2, PopView
    <2> QED BY ONLY <2>1, <2>2, Zenon
  <1>8. Sent(u)' = Sent(u)
    <2>1. got'[u] \o queue'[u] = got[u] \o queue[u]
      BY <1>1, <1>2, PopMoves
    <2>2. Contents(got[u] \o queue[u])' = Contents(got[u] \o queue[u])
      BY <2>1 DEF Contents
    <2> QED BY ONLY <1>4, <2>2, Zenon DEF Sent
  <1>9. QueueOf(u)!DequeuePop(u)
    BY ONLY <1>1, <1>3, <1>4, <1>5, <1>6, <1>7, <1>8, Zenon
       DEF QueueOf!DequeuePop, QueueOf!Front, QueueOf!Rest, Arg, Ret, Sent, Coming
  <1> QED BY <1>9 DEF QueueOf!Next, QueueOf!DequeueStep

\* The receiver's worker has the result: dequeue has returned.
LEMMA ReturnView ==
    ASSUME TypeOK, NEW u \in Receivers, NothingReady(u) \/ SendDelivery(u) \/ SendFails(u)
    PROVE  QueueOf(u)!Next
  <1>0. u \in Workers
    BY ChatAssumption
  <1>1. /\ pc[u] = "got" /\ pc'[u] \in {"loop", "remove"}
        /\ \A v \in Workers : v # u => pc'[v] = pc[v]
        /\ UNCHANGED <<dest, text, queue, avail, queueLock, got>>
    BY <1>0 DEF NothingReady, SendDelivery, SendFails, Goto, TypeOK, Shapes,
                sender, server, roomVars, userVars
  <1>2. QueueOf(u)!Goto(u, "ret", "idle")
    BY <1>0, <1>1, PointIs, ViewGoto DEF InsidePCs
  <1>3. /\ Arg(u)' = Arg(u) /\ Sent(u)' = Sent(u) /\ Contents(got[u])' = Contents(got[u])
        /\ queue'[u] = queue[u] /\ avail'[u] = avail[u] /\ queueLock'[u] = queueLock[u]
    BY <1>1 DEF Arg, Sent, Coming, Contents
  <1>4. Ret(u)' = [Ret(u) EXCEPT ![u] = Nil]
    BY <1>1 DEF Ret
  <1>5. QueueOf(u)!DequeueReturn(u)
    BY ONLY <1>2, <1>3, <1>4, Zenon DEF QueueOf!DequeueReturn, Arg, Ret, Sent, Coming
  <1> QED BY <1>5 DEF QueueOf!Next, QueueOf!DequeueStep

\* Steps of workers that are in no queue.
LEMMA QuietView ==
    ASSUME TypeOK, NEW u \in Receivers, NEW w \in Workers, pc[w] \notin QueuePCs, dest' = dest,
           w = u => pc[w] \notin InsidePCs /\ pc'[w] \notin InsidePCs,
           \A v \in Workers : v # w => /\ pc'[v] = pc[v] /\ text'[v] = text[v]
                                       /\ delivery'[v] = delivery[v],
           queue'[u] = queue[u], avail'[u] = avail[u],
           queueLock'[u] = queueLock[u], got'[u] = got[u]
    PROVE  UNCHANGED QueueOf(u)!vars
  <1>1. dest[w] # u /\ dest'[w] # u
    BY ChatAssumption DEF TypeOK, LocalsSet
  <1> QED BY <1>1, ViewFrame

\* Every step of a worker is a step of u's queue or none.
LEMMA WorkerAtQueue ==
    ASSUME TypeOK, RoomsLocked, MembersInside, DestIsMember, VisitedOnce, TextInRoom, RoomOrder,
           LogsDistinct, InHand, Pushed,
           NEW u \in Receivers, NEW w \in Workers, Step(w)
    PROVE  [QueueOf(u)!Next]_(QueueOf(u)!vars)
  <1> USE DEF Goto, Finish, sender, server, roomVars, userVars
  <1>0. u \in Workers /\ u # Nil
    BY ChatAssumption
  <1>1. CASE ClientCloses(w)
    <2>1. UNCHANGED <<pc, dest, text, queue, avail, queueLock, delivery, got>>
      BY <1>1 DEF ClientCloses
    <2> QED BY <2>1 DEF QueueOf!vars, Contents
  <1>2. CASE LoginStep(w) \/ CommandStep(w) \/ FindStep(w) \/ BroadcastLock(w) \/ BroadcastDone(w)
    <2>1. /\ UNCHANGED <<dest, queue, avail, queueLock, got, delivery>>
          /\ pc[w] \notin QueuePCs \cup InsidePCs /\ pc'[w] \notin InsidePCs
          /\ \A v \in Workers : v # w => pc'[v] = pc[v] /\ text'[v] = text[v]
      BY <1>2 DEF LoginStep, Accept, LoginSender, LoginReceiver, LoginRefused,
          CommandStep, SenderJoin, SenderSendall, SenderLeave, SenderRefused, Reply, SenderEnds,
          FindStep, FindLock, FindHit, FindMiss, CreateRoom, AfterFind, BroadcastLock,
          BroadcastDone, TypeOK, Shapes, QueuePCs, InsidePCs
    <2> QED BY <2>1, QuietView
  <1>3. CASE NextUser(w)
    <2>1. CASE dest'[w] = u
      BY <1>3, <2>1, NextUserCalls
    <2>2. CASE dest'[w] # u
      <3>1. /\ UNCHANGED <<queue, avail, queueLock, got, delivery, text>>
            /\ pc[w] = "each" /\ pc'[w] = "lock"
            /\ \A v \in Workers : v # w => pc'[v] = pc[v] /\ dest'[v] = dest[v]
        BY <1>3 DEF NextUser, TypeOK, Shapes
      <3>2. dest[w] # u
        BY <1>0, <3>1 DEF TypeOK, LocalsSet, QueuePCs
      <3> QED BY <2>2, <3>1, <3>2, ViewFrame DEF InsidePCs
    <2> QED BY <2>1, <2>2
  <1>4. CASE EnqueueLock(w) \/ EnqueuePush(w) \/ EnqueuePost(w)
    <2>1. CASE dest[w] = u
      BY <1>4, <2>1, EnqueueLockView, EnqueuePushView, EnqueuePostView
    <2>2. CASE dest[w] # u
      <3>1. /\ UNCHANGED <<got, delivery, text>> /\ queue'[u] = queue[u]
            /\ avail'[u] = avail[u] /\ queueLock'[u] = queueLock[u] /\ dest'[w] # u
            /\ pc[w] \notin InsidePCs /\ pc'[w] \notin InsidePCs
            /\ \A v \in Workers : v # w => pc'[v] = pc[v] /\ dest'[v] = dest[v]
        <4>1. CASE EnqueueLock(w)
          BY <1>0, <2>2, <4>1 DEF EnqueueLock, TypeOK, Shapes, InsidePCs
        <4>2. CASE EnqueuePush(w)
          BY <1>0, <2>2, <4>2 DEF EnqueuePush, TypeOK, Shapes, InsidePCs
        <4>3. CASE EnqueuePost(w)
          BY <1>0, <2>2, <4>3 DEF EnqueuePost, TypeOK, Shapes, InsidePCs
        <4> QED BY <1>4, <4>1, <4>2, <4>3
      <3> QED BY <2>2, <3>1, ViewFrame
    <2> QED BY <2>1, <2>2
  <1>5. CASE DequeueStep(w) \/ SendDelivery(w) \/ SendFails(w)
    <2>1. CASE w = u
      BY <1>5, <2>1, DequeueView, DequeuePopView, ReturnView DEF DequeueStep
    <2>2. CASE w # u
      <3>1. /\ UNCHANGED <<dest, text>> /\ queue'[u] = queue[u] /\ got'[u] = got[u]
            /\ avail'[u] = avail[u] /\ queueLock'[u] = queueLock[u]
            /\ pc[w] \notin QueuePCs
            /\ \A v \in Workers : v # w => pc'[v] = pc[v] /\ delivery'[v] = delivery[v]
        <4>1. CASE DequeueCall(w) \/ SemBlock(w) \/ SemTimeout(w) \/ NothingReady(w)
                   \/ SendDelivery(w) \/ SendFails(w)
          BY <2>2, <4>1 DEF DequeueCall, SemBlock, SemTimeout, NothingReady, SendDelivery,
              SendFails, TypeOK, Shapes, QueuePCs
        <4>2. CASE SemTake(w)
          BY <1>0, <2>2, <4>2 DEF SemTake, TypeOK, Shapes, QueuePCs
        <4>3. CASE DequeueLock(w)
          BY <1>0, <2>2, <4>3 DEF DequeueLock, TypeOK, Shapes, QueuePCs
        <4>4. CASE DequeuePop(w)
          BY <1>0, <2>2, <4>4 DEF DequeuePop, TypeOK, Shapes, QueuePCs
        <4> QED BY <1>5, <4>1, <4>2, <4>3, <4>4 DEF DequeueStep
      <3> QED BY <2>2, <3>1, QuietView
    <2> QED BY <2>1, <2>2
  <1>6. CASE ReceiverJoin(w) \/ ReceiverRefused(w) \/ AddMember(w) \/ JoinedReply(w)
             \/ RemoveMember(w) \/ DeleteUser(w)
    <2>1. /\ UNCHANGED <<dest, text, queue, avail, queueLock, got>>
          /\ pc[w] \notin QueuePCs \cup InsidePCs /\ pc'[w] \notin InsidePCs
          /\ \A v \in Workers : v # w => pc'[v] = pc[v] /\ delivery'[v] = delivery[v]
      BY <1>6 DEF ReceiverJoin, ReceiverRefused, AddMember, JoinedReply, RemoveMember, DeleteUser,
          TypeOK, Shapes, QueuePCs, InsidePCs
    <2> QED BY <2>1, QuietView
  <1> QED BY <1>1, <1>2, <1>3, <1>4, <1>5, <1>6 DEF Step, BroadcastStep, ReceiverStep

\* A receiver's queue starts empty, with nobody in it.
LEMMA QueuesInit == ASSUME Init, NEW u \in Receivers PROVE QueueOf(u)!Init
  <1>1. u \in Workers
    BY ChatAssumption
  <1>2. <<>> \o <<>> = <<>>
    OBVIOUS
  <1>3. Contents(got[u] \o queue[u]) = {}
    BY <1>1, <1>2 DEF Init, Contents
  <1> QED BY <1>1, <1>2, <1>3, ChatAssumption DEF Init, QueueOf!Init, QueueOf!Threads, Contents

\* The workers use each receiver's queue as the MessageQueue class allows: a call
\* of enqueue has a message of its own, one dequeue runs at a time, and every
\* step inside is one of message_queue.cpp, whichever worker takes it.
THEOREM QueuesAreUsedRightly == Spec => ImplementsQueues
  <1>1. Init => \A u \in Receivers : QueueOf(u)!Init
    BY QueuesInit
  <1>2. TypeOK /\ LocksHeld /\ MembersInv /\ OrderInv /\ QueuesInv /\ [Next]_vars
           => [\A u \in Receivers : [QueueOf(u)!Next]_(QueueOf(u)!vars)]_vars
    <2> SUFFICES ASSUME TypeOK, LocksHeld, MembersInv, OrderInv, QueuesInv, Next,
                        NEW u \in Receivers
                 PROVE  [QueueOf(u)!Next]_(QueueOf(u)!vars)
      OBVIOUS
    <2>1. ASSUME NEW w \in Workers, Step(w) PROVE [QueueOf(u)!Next]_(QueueOf(u)!vars)
      BY <2>1, WorkerAtQueue DEF LocksHeld, MembersInv, OrderInv, QueuesInv
    <2>2. CASE UNCHANGED vars
      <3>1. UNCHANGED <<pc, dest, text, queue, avail, queueLock, delivery, got>>
        BY <2>2 DEF vars, sender, server, roomVars, userVars
      <3> QED BY <3>1 DEF QueueOf!vars, Contents
    <2> QED BY <2>1, <2>2 DEF Next, OnlyAccepting
  <1> QED BY <1>1, <1>2, TypeCorrect, LockDiscipline, MembersHold, OrderHolds, QueuesHold, PTL
          DEF Spec, ImplementsQueues
=============================================================================
