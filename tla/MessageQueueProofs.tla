------------------------ MODULE MessageQueueProofs ------------------------
(***************************************************************************)
(* What is proved of MessageQueue for any finite sets of threads and any   *)
(* set of messages.  LockHeld and SemaphoreCounts are inductive together   *)
(* with TypeOK; that a claim is honoured follows from the count, and that  *)
(* the queue implements the atomic queue follows from the types alone.     *)
(***************************************************************************)
EXTENDS MessageQueue, FiniteSetTheorems, SequenceTheorems, TLAPS

Inv == TypeOK /\ LockHeld /\ SemaphoreCounts

-----------------------------------------------------------------------------
(* Types *)

\* Every step of a producer keeps the types.
LEMMA ProducerTypes ==
    ASSUME TypeOK, NEW p \in Producers, EnqueueCall(p) \/ EnqueueStep(p)
    PROVE  TypeOK'
  <1> USE ThreadsAssumption, NilAssumption
      DEF TypeOK, Threads, ProducerPC, ConsumerPC, Goto
  <1>1. CASE EnqueueCall(p)
    BY <1>1 DEF EnqueueCall
  <1>2. CASE EnqueueLock(p)
    BY <1>2 DEF EnqueueLock
  <1>3. CASE EnqueuePush(p)
    <2>1. arg[p] \in Msg
      BY <1>3 DEF EnqueuePush
    <2>2. messages' \in Seq(Msg)
      BY <1>3, <2>1 DEF EnqueuePush
    <2> QED BY <1>3, <2>2 DEF EnqueuePush
  <1>4. CASE EnqueuePost(p)
    BY <1>4 DEF EnqueuePost
  <1> QED BY <1>1, <1>2, <1>3, <1>4 DEF EnqueueStep

\* Every step of a consumer keeps the types.
LEMMA ConsumerTypes ==
    ASSUME TypeOK, NEW c \in Consumers, DequeueCall(c) \/ DequeueStep(c)
    PROVE  TypeOK'
  <1> USE ThreadsAssumption, NilAssumption
      DEF TypeOK, Threads, ProducerPC, ConsumerPC, Goto
  <1>1. CASE DequeueCall(c)
    BY <1>1 DEF DequeueCall
  <1>2. CASE SemTake(c) \/ SemWake(c)
    BY <1>2 DEF SemTake, SemWake
  <1>3. CASE SemBlock(c)
    BY <1>3 DEF SemBlock
  <1>4. CASE SemTimeout(c)
    BY <1>4 DEF SemTimeout
  <1>5. CASE DequeueLock(c)
    BY <1>5 DEF DequeueLock
  <1>6. CASE DequeuePop(c)
    <2>1. Front \in Msg \cup {Nil} /\ Rest \in Seq(Msg)
      BY DEF Front, Rest
    <2> QED BY <1>6, <2>1 DEF DequeuePop
  <1>7. CASE DequeueReturn(c)
    BY <1>7 DEF DequeueReturn
  <1> QED BY <1>1, <1>2, <1>3, <1>4, <1>5, <1>6, <1>7 DEF DequeueStep

\* The type invariant, for every instance.
THEOREM TypeCorrect == Spec => []TypeOK
  <1>1. Init => TypeOK
    BY ThreadsAssumption, NilAssumption
    DEF Init, TypeOK, Threads, ProducerPC, ConsumerPC
  <1>2. TypeOK /\ [Next]_vars => TypeOK'
    <2> SUFFICES ASSUME TypeOK, [Next]_vars PROVE TypeOK'
      OBVIOUS
    <2>1. CASE Next
      BY <2>1, ProducerTypes, ConsumerTypes DEF Next
    <2>2. CASE UNCHANGED vars
      BY <2>2 DEF vars, TypeOK
    <2> QED BY <2>1, <2>2
  <1> QED BY <1>1, <1>2, PTL DEF Spec

-----------------------------------------------------------------------------
(* The mutex *)

\* A step of a producer keeps the mutex with the thread that is inside.
LEMMA ProducerLock ==
    ASSUME TypeOK, LockHeld,
           NEW p \in Producers, EnqueueCall(p) \/ EnqueueStep(p)
    PROVE  LockHeld'
  <1> USE ThreadsAssumption, NilAssumption
      DEF TypeOK, LockHeld, Threads, ProducerPC, ConsumerPC, Goto
  <1>1. CASE EnqueueCall(p) \/ EnqueuePost(p)
    BY <1>1 DEF EnqueueCall, EnqueuePost
  <1>2. CASE EnqueueLock(p)
    BY <1>2 DEF EnqueueLock
  <1>3. CASE EnqueuePush(p)
    BY <1>3 DEF EnqueuePush
  <1> QED BY <1>1, <1>2, <1>3 DEF EnqueueStep

\* A step of a consumer does too.
LEMMA ConsumerLock ==
    ASSUME TypeOK, LockHeld,
           NEW c \in Consumers, DequeueCall(c) \/ DequeueStep(c)
    PROVE  LockHeld'
  <1> USE ThreadsAssumption, NilAssumption
      DEF TypeOK, LockHeld, Threads, ProducerPC, ConsumerPC, Goto
  <1>1. CASE DequeueCall(c) \/ SemTake(c) \/ SemWake(c) \/ SemBlock(c)
               \/ SemTimeout(c) \/ DequeueReturn(c)
    BY <1>1 DEF DequeueCall, SemTake, SemWake, SemBlock, SemTimeout, DequeueReturn
  <1>2. CASE DequeueLock(c)
    BY <1>2 DEF DequeueLock
  <1>3. CASE DequeuePop(c)
    BY <1>3 DEF DequeuePop
  <1> QED BY <1>1, <1>2, <1>3 DEF DequeueStep

-----------------------------------------------------------------------------
(* The semaphore *)

\* A thread that enters or leaves a finite set moves its size by one.
LEMMA EnterLeave ==
    ASSUME NEW S, NEW T, NEW x, IsFiniteSet(S), x \notin S, T = S \cup {x}
    PROVE  Cardinality(T) = Cardinality(S) + 1 /\ Cardinality(S) \in Nat
  BY FS_AddElement, FS_CardinalityType

\* The sets of posting and of claiming threads are finite.
LEMMA FiniteSets ==
    /\ IsFiniteSet(Posting) /\ Cardinality(Posting) \in Nat
    /\ IsFiniteSet(Claiming) /\ Cardinality(Claiming) \in Nat
  <1>1. Posting \subseteq Producers /\ Claiming \subseteq Consumers
    BY DEF Posting, Claiming
  <1> QED BY <1>1, FS_Subset, FS_CardinalityType, ThreadsAssumption

\* A producer's step keeps the count: the push adds a message and a posting
\* thread, the post turns the thread into a unit of the semaphore.
LEMMA ProducerCount ==
    ASSUME TypeOK, SemaphoreCounts,
           NEW p \in Producers, EnqueueCall(p) \/ EnqueueStep(p)
    PROVE  SemaphoreCounts'
  <1> USE ThreadsAssumption DEF TypeOK, Threads, ProducerPC, ConsumerPC, Goto
  <1>0. pc[p] # "idle" => arg[p] \in Msg
    OBVIOUS
  <1>1. Claiming' = Claiming
    BY DEF Claiming, EnqueueStep, EnqueueCall, EnqueueLock, EnqueuePush, EnqueuePost
  <1>2. CASE EnqueueCall(p) \/ EnqueueLock(p)
    <2>1. Posting' = Posting
      BY <1>2 DEF Posting, EnqueueCall, EnqueueLock
    <2> QED BY <1>1, <1>2, <2>1 DEF SemaphoreCounts, EnqueueCall, EnqueueLock
  <1>3. CASE EnqueuePush(p)
    <2>1. p \notin Posting /\ Posting' = Posting \cup {p}
      BY <1>3 DEF Posting, EnqueuePush
    <2>2. Cardinality(Posting') = Cardinality(Posting) + 1
      BY <2>1, FiniteSets, EnterLeave
    <2>3. Len(messages') = Len(messages) + 1
      BY <1>0, <1>3, AppendProperties DEF EnqueuePush
    <2>4. avail' = avail
      BY <1>3 DEF EnqueuePush
    <2> QED BY <1>1, <2>2, <2>3, <2>4, FiniteSets, LenProperties DEF SemaphoreCounts
  <1>4. CASE EnqueuePost(p)
    <2>1. p \notin Posting' /\ Posting = Posting' \cup {p}
      BY <1>4 DEF Posting, EnqueuePost
    <2>2. IsFiniteSet(Posting')
      <3>1. Posting' = Posting \ {p}
        BY <2>1
      <3> QED BY <3>1, FiniteSets, FS_RemoveElement
    <2>3. Cardinality(Posting) = Cardinality(Posting') + 1 /\ Cardinality(Posting') \in Nat
      BY <2>1, <2>2, EnterLeave
    <2>4. avail' = avail + 1 /\ messages' = messages
      BY <1>4 DEF EnqueuePost
    <2> QED BY <1>1, <2>3, <2>4, FiniteSets, LenProperties DEF SemaphoreCounts
  <1> QED BY <1>2, <1>3, <1>4 DEF EnqueueStep

\* While some consumer claims a message the queue is not empty.
LEMMA ClaimFindsMessage ==
    ASSUME TypeOK, SemaphoreCounts, NEW c \in Claiming
    PROVE  messages # <<>>
  <1>1. Cardinality(Claiming) # 0
    BY FiniteSets, FS_EmptySet
  <1>2. Len(messages) # 0
    BY <1>1, FiniteSets DEF SemaphoreCounts, TypeOK
  <1> QED BY <1>2

\* A consumer's step keeps the count: taking a unit makes a claim, and the
\* pop meets it with a message.
LEMMA ConsumerCount ==
    ASSUME TypeOK, SemaphoreCounts,
           NEW c \in Consumers, DequeueCall(c) \/ DequeueStep(c)
    PROVE  SemaphoreCounts'
  <1> USE ThreadsAssumption DEF TypeOK, Threads, ProducerPC, ConsumerPC, Goto
  <1>1. Posting' = Posting
    BY DEF Posting, DequeueStep, DequeueCall, SemTake, SemBlock, SemWake,
           SemTimeout, DequeueLock, DequeuePop, DequeueReturn
  <1>2. CASE DequeueCall(c) \/ SemBlock(c) \/ SemTimeout(c) \/ DequeueLock(c)
               \/ DequeueReturn(c)
    <2>1. Claiming' = Claiming
      BY <1>2 DEF Claiming, DequeueCall, SemBlock, SemTimeout, DequeueLock, DequeueReturn
    <2>2. avail' = avail /\ messages' = messages
      BY <1>2 DEF DequeueCall, SemBlock, SemTimeout, DequeueLock, DequeueReturn
    <2> QED BY <1>1, <2>1, <2>2 DEF SemaphoreCounts
  <1>3. CASE SemTake(c) \/ SemWake(c)
    <2>1. c \notin Claiming /\ Claiming' = Claiming \cup {c}
      BY <1>3 DEF Claiming, SemTake, SemWake
    <2>2. Cardinality(Claiming') = Cardinality(Claiming) + 1
      BY <2>1, FiniteSets, EnterLeave
    <2>3. avail > 0 /\ avail' = avail - 1 /\ messages' = messages
      BY <1>3 DEF SemTake, SemWake
    <2> QED BY <1>1, <2>2, <2>3, FiniteSets, LenProperties DEF SemaphoreCounts
  <1>4. CASE DequeuePop(c)
    <2>1. c \notin Claiming' /\ Claiming = Claiming' \cup {c}
      BY <1>4 DEF Claiming, DequeuePop
    <2>2. IsFiniteSet(Claiming')
      <3>1. Claiming' = Claiming \ {c}
        BY <2>1
      <3> QED BY <3>1, FiniteSets, FS_RemoveElement
    <2>3. Cardinality(Claiming) = Cardinality(Claiming') + 1 /\ Cardinality(Claiming') \in Nat
      BY <2>1, <2>2, EnterLeave
    <2>4. messages # <<>>
      BY <2>1, ClaimFindsMessage
    <2>5. messages' = Tail(messages)
      BY <1>4, <2>4 DEF DequeuePop, Rest
    <2>6. Len(messages') = Len(messages) - 1
      BY <2>4, <2>5, HeadTailProperties
    <2>7. avail' = avail
      BY <1>4 DEF DequeuePop
    <2> QED BY <1>1, <2>3, <2>6, <2>7, FiniteSets, LenProperties DEF SemaphoreCounts
  <1> QED BY <1>2, <1>3, <1>4 DEF DequeueStep

\* Inv holds in every reachable state of every instance.
THEOREM InvHolds == Spec => []Inv
  <1>1. Init => Inv
    <2> SUFFICES ASSUME Init PROVE Inv
      OBVIOUS
    <2>1. TypeOK
      BY ThreadsAssumption, NilAssumption
      DEF Init, TypeOK, Threads, ProducerPC, ConsumerPC
    <2>2. LockHeld
      BY NilAssumption DEF Init, LockHeld, Threads
    <2>3. Posting = {} /\ Claiming = {}
      BY DEF Init, Posting, Claiming, Threads
    <2>4. SemaphoreCounts
      BY <2>3, FS_EmptySet DEF Init, SemaphoreCounts
    <2> QED BY <2>1, <2>2, <2>4 DEF Inv
  <1>2. Inv /\ [Next]_vars => Inv'
    <2> SUFFICES ASSUME Inv, [Next]_vars PROVE Inv'
      OBVIOUS
    <2>1. ASSUME NEW p \in Producers, EnqueueCall(p) \/ EnqueueStep(p) PROVE Inv'
      BY <2>1, ProducerTypes, ProducerLock, ProducerCount DEF Inv
    <2>2. ASSUME NEW c \in Consumers, DequeueCall(c) \/ DequeueStep(c) PROVE Inv'
      BY <2>2, ConsumerTypes, ConsumerLock, ConsumerCount DEF Inv
    <2>3. CASE UNCHANGED vars
      BY <2>3 DEF vars, Inv, TypeOK, LockHeld, SemaphoreCounts, Posting, Claiming
    <2> QED BY <2>1, <2>2, <2>3 DEF Next
  <1> QED BY <1>1, <1>2, PTL DEF Spec

\* The mutex is held exactly by the thread that touches the deque.
THEOREM MutualExclusion == Spec => []LockHeld
  BY InvHolds, PTL DEF Inv

\* The semaphore counts the messages up to the threads that are between
\* their two steps.
THEOREM SemaphoreCorrect == Spec => []SemaphoreCounts
  BY InvHolds, PTL DEF Inv

\* No dequeue that passed the semaphore meets an empty deque.
THEOREM ClaimsHonoured == Spec => []ClaimIsHonoured
  <1>1. Inv => ClaimIsHonoured
    BY ClaimFindsMessage DEF Inv, ClaimIsHonoured, Claiming
  <1> QED BY <1>1, InvHolds, PTL

-----------------------------------------------------------------------------
(* Refinement *)

\* A step of a producer is a step of the atomic queue or a stutter.
LEMMA ProducerRefines ==
    ASSUME TypeOK, NEW p \in Producers, EnqueueCall(p) \/ EnqueueStep(p)
    PROVE  [Atomic!Next]_(Atomic!vars)
  <1> USE ThreadsAssumption DEF TypeOK, Threads, Goto, Call
  <1>1. CASE EnqueueCall(p)
    <2>1. PICK m \in Msg : arg' = [arg EXCEPT ![p] = m]
      BY <1>1 DEF EnqueueCall
    <2>2. Atomic!InvokePut(p, m)
      <3>1. pc[p] = "idle" /\ pc' = [pc EXCEPT ![p] = "lock"] /\ UNCHANGED <<messages, ret>>
        BY <1>1 DEF EnqueueCall
      <3>2. \A t \in Threads : (IF t = p THEN [at |-> "putting", msg |-> m]
                                        ELSE Call(t)) = Call(t)'
        BY <2>1, <3>1
      <3>3. Call(p) = [at |-> "idle"]
        BY <3>1
      <3> QED BY <3>1, <3>2, <3>3 DEF Atomic!InvokePut, Atomic!Idle, Atomic!Putting
    <2> QED BY <2>2 DEF Atomic!Next
  <1>2. CASE EnqueueLock(p)
    BY <1>2 DEF EnqueueLock, Atomic!vars
  <1>3. CASE EnqueuePush(p)
    <2>1. arg[p] \in Msg
      BY <1>3 DEF EnqueuePush
    <2>2. Atomic!Put(p, arg[p])
      BY <1>3 DEF EnqueuePush, Atomic!Put, Atomic!Putting, Atomic!Done
    <2> HIDE DEF TypeOK, Threads, Goto, Call
    <2> QED BY <2>1, <2>2 DEF Atomic!Next
  <1>4. CASE EnqueuePost(p)
    <2>1. Atomic!Return(p)
      BY <1>4 DEF EnqueuePost, Atomic!Return, Atomic!Idle
    <2> QED BY <2>1 DEF Atomic!Next
  <1> QED BY <1>1, <1>2, <1>3, <1>4 DEF EnqueueStep

\* So is a step of a consumer; an empty-handed pop would be a give-up.
LEMMA ConsumerRefines ==
    ASSUME TypeOK, NEW c \in Consumers, DequeueCall(c) \/ DequeueStep(c)
    PROVE  [Atomic!Next]_(Atomic!vars)
  <1> USE ThreadsAssumption DEF TypeOK, Threads, Goto, Call
  <1>1. CASE DequeueCall(c)
    <2>1. Atomic!InvokeTake(c)
      BY <1>1 DEF DequeueCall, Atomic!InvokeTake, Atomic!Idle, Atomic!Taking
    <2> QED BY <2>1 DEF Atomic!Next
  <1>2. CASE SemTake(c) \/ SemBlock(c) \/ SemWake(c) \/ DequeueLock(c)
    BY <1>2 DEF SemTake, SemBlock, SemWake, DequeueLock, Atomic!vars
  <1>3. CASE SemTimeout(c)
    <2>1. Atomic!GiveUp(c)
      BY <1>3 DEF SemTimeout, Atomic!GiveUp, Atomic!Taking, Atomic!Done
    <2> QED BY <2>1 DEF Atomic!Next
  <1>4. CASE DequeuePop(c)
    <2>1. CASE messages = <<>>
      <3>1. Atomic!GiveUp(c)
        BY <1>4, <2>1 DEF DequeuePop, Front, Rest, Atomic!GiveUp, Atomic!Taking, Atomic!Done
      <3> QED BY <3>1 DEF Atomic!Next
    <2>2. CASE messages # <<>>
      <3>1. Atomic!Take(c)
        BY <1>4, <2>2 DEF DequeuePop, Front, Rest, Atomic!Take, Atomic!Taking, Atomic!Done
      <3> QED BY <3>1 DEF Atomic!Next
    <2> QED BY <2>1, <2>2
  <1>5. CASE DequeueReturn(c)
    <2>1. Atomic!Return(c)
      BY <1>5 DEF DequeueReturn, Atomic!Return, Atomic!Idle
    <2> QED BY <2>1 DEF Atomic!Next
  <1> QED BY <1>1, <1>2, <1>3, <1>4, <1>5 DEF DequeueStep

\* The queue with its mutex and its semaphore implements the atomic queue.
THEOREM QueueIsAtomic == Spec => ImplementsAtomicQueue
  <1>1. Init => Atomic!Init
    BY DEF Init, Atomic!Init, Atomic!Idle, Call, Threads
  <1>2. TypeOK /\ [Next]_vars => [Atomic!Next]_(Atomic!vars)
    <2> SUFFICES ASSUME TypeOK, [Next]_vars PROVE [Atomic!Next]_(Atomic!vars)
      OBVIOUS
    <2>1. CASE Next
      BY <2>1, ProducerRefines, ConsumerRefines DEF Next
    <2>2. CASE UNCHANGED vars
      BY <2>2 DEF vars, Atomic!vars, Call
    <2> QED BY <2>1, <2>2
  <1> QED BY <1>1, <1>2, TypeCorrect, PTL DEF Spec, ImplementsAtomicQueue, Atomic!Spec
=============================================================================
