--------------------------- MODULE MessageQueue ---------------------------
(***************************************************************************)
(* One MessageQueue object of csf_assign05/message_queue.cpp: a deque of   *)
(* Message pointers, the mutex m_lock that guards it and the semaphore     *)
(* m_avail that counts what is available.  Threads interleave between the  *)
(* points where they synchronize; what a thread does while it holds m_lock *)
(* is one step together with the release (Guard's destructor), because     *)
(* no other thread reads the deque without the lock.                       *)
(*                                                                         *)
(* A message is a pointer from `new`, so it is enqueued at most once: the  *)
(* finite set Msg bounds the number of enqueue calls.                      *)
(***************************************************************************)
EXTENDS Naturals, Sequences, FiniteSets

CONSTANTS
    Producers,  \* threads that call enqueue (broadcasting workers)
    Consumers,  \* threads that call dequeue (receivers' workers)
    Msg,        \* Message pointers
    Nil         \* nullptr

ASSUME ThreadsAssumption ==
    /\ IsFiniteSet(Producers)
    /\ IsFiniteSet(Consumers)
    /\ Producers \cap Consumers = {}

ASSUME NilAssumption == Nil \notin Msg \cup Producers \cup Consumers

VARIABLES
    owner,      \* the thread that holds m_lock, or Nil
    avail,      \* the value of the semaphore m_avail
    messages,   \* the deque m_messages, front first
    pc,         \* where each thread is in its call
    arg,        \* the argument of each producer's enqueue, or Nil
    ret,        \* what each consumer's dequeue is returning, or Nil
    sent,       \* history: messages some enqueue was called with
    taken       \* history: messages some dequeue returned

vars == <<owner, avail, messages, pc, arg, ret, sent, taken>>

Threads    == Producers \cup Consumers
ProducerPC == {"idle", "lock", "push", "post"}
ConsumerPC == {"idle", "wait", "blocked", "lock", "pop", "ret"}

Init ==
    /\ owner = Nil
    /\ avail = 0
    /\ messages = <<>>
    /\ pc = [t \in Threads |-> "idle"]
    /\ arg = [p \in Producers |-> Nil]
    /\ ret = [c \in Consumers |-> Nil]
    /\ sent = {}
    /\ taken = {}

Goto(t, from, to) ==
    /\ pc[t] = from
    /\ pc' = [pc EXCEPT ![t] = to]

-----------------------------------------------------------------------------
(* Mistakes the code could have made, one step each.  No step of the system  *)
(* uses them: each property below is violated when one replaces its step.    *)

\* The failure of a sem_trywait is not looked at.
SemTake_Unchecked(c) ==
    /\ Goto(c, "wait", "lock")
    /\ avail' = IF avail > 0 THEN avail - 1 ELSE 0
    /\ UNCHANGED <<owner, messages, arg, ret, sent, taken>>

\* A time-out uses up the unit that came in at the last moment.
SemTimeout_Consumes(c) ==
    /\ Goto(c, "blocked", "ret")
    /\ avail' = IF avail > 0 THEN avail - 1 ELSE 0
    /\ UNCHANGED <<owner, messages, arg, ret, sent, taken>>

\* sem_wait in place of sem_timedwait.
SemTimeout_Never(c) ==
    /\ Goto(c, "blocked", "blocked")
    /\ UNCHANGED <<owner, avail, messages, arg, ret, sent, taken>>

\* back() in place of front().
Front_Back == IF messages = <<>> THEN Nil ELSE messages[Len(messages)]

-----------------------------------------------------------------------------
(* enqueue *)

\* A broadcast calls enqueue with a message it has just allocated.
EnqueueCall(p) ==
    /\ Goto(p, "idle", "lock")
    /\ \E m \in Msg \ sent :
          /\ arg' = [arg EXCEPT ![p] = m]
          /\ sent' = sent \cup {m}
    /\ UNCHANGED <<owner, avail, messages, ret, taken>>

\* pthread_mutex_lock(&m_lock) returns.
EnqueueLock(p) ==
    /\ Goto(p, "lock", "push")
    /\ owner = Nil
    /\ owner' = p
    /\ UNCHANGED <<avail, messages, arg, ret, sent, taken>>

\* push_back, and the lock is released at the end of the block.
EnqueuePush(p) ==
    /\ Goto(p, "push", "post")
    /\ messages' = Append(messages, arg[p])
    /\ owner' = Nil
    /\ UNCHANGED <<avail, arg, ret, sent, taken>>

\* sem_post(&m_avail), outside the critical section.
EnqueuePost(p) ==
    /\ Goto(p, "post", "idle")
    /\ avail' = avail + 1
    /\ arg' = [arg EXCEPT ![p] = Nil]
    /\ UNCHANGED <<owner, messages, ret, sent, taken>>

-----------------------------------------------------------------------------
(* dequeue *)

\* The deadline now + 1s is computed; it is some later instant.
DequeueCall(c) ==
    /\ Goto(c, "idle", "wait")
    /\ UNCHANGED <<owner, avail, messages, arg, ret, sent, taken>>

\* sem_timedwait takes a unit that is there without looking at the deadline.
SemTake(c) ==
    /\ Goto(c, "wait", "lock")
    /\ avail > 0
    /\ avail' = avail - 1
    /\ UNCHANGED <<owner, messages, arg, ret, sent, taken>>

\* Nothing is there: the thread sleeps.
SemBlock(c) ==
    /\ Goto(c, "wait", "blocked")
    /\ avail = 0
    /\ UNCHANGED <<owner, avail, messages, arg, ret, sent, taken>>

\* A sleeping thread finds a unit ...
SemWake(c) ==
    /\ Goto(c, "blocked", "lock")
    /\ avail > 0
    /\ avail' = avail - 1
    /\ UNCHANGED <<owner, messages, arg, ret, sent, taken>>

\* ... or its deadline passes (or a signal arrives), whether or not a post
\* has come in the meantime: sem_timedwait # 0 and dequeue returns nullptr.
SemTimeout(c) ==
    /\ Goto(c, "blocked", "ret")
    /\ ret' = [ret EXCEPT ![c] = Nil]
    /\ UNCHANGED <<owner, avail, messages, arg, sent, taken>>

DequeueLock(c) ==
    /\ Goto(c, "lock", "pop")
    /\ owner = Nil
    /\ owner' = c
    /\ UNCHANGED <<avail, messages, arg, ret, sent, taken>>

\* The front message, or nullptr if the deque turns out to be empty.
Front == IF messages = <<>> THEN Nil ELSE Head(messages)
Rest  == IF messages = <<>> THEN messages ELSE Tail(messages)

DequeuePop(c) ==
    /\ Goto(c, "pop", "ret")
    /\ ret' = [ret EXCEPT ![c] = Front]
    /\ messages' = Rest
    /\ taken' = taken \cup ({Front} \ {Nil})
    /\ owner' = Nil
    /\ UNCHANGED <<avail, arg, sent>>

\* The caller has the result.
DequeueReturn(c) ==
    /\ Goto(c, "ret", "idle")
    /\ ret' = [ret EXCEPT ![c] = Nil]
    /\ UNCHANGED <<owner, avail, messages, arg, sent, taken>>

-----------------------------------------------------------------------------
EnqueueStep(p) ==
    EnqueueLock(p) \/ EnqueuePush(p) \/ EnqueuePost(p)

DequeueStep(c) ==
    \/ SemTake(c) \/ SemBlock(c) \/ SemWake(c) \/ SemTimeout(c)
    \/ DequeueLock(c) \/ DequeuePop(c) \/ DequeueReturn(c)

Next ==
    \/ \E p \in Producers : EnqueueCall(p) \/ EnqueueStep(p)
    \/ \E c \in Consumers : DequeueCall(c) \/ DequeueStep(c)

Spec == Init /\ [][Next]_vars

\* A producer inside a call keeps running; nothing obliges anyone to call
\* enqueue.  A consumer may stop anywhere except while it holds m_lock.  Weak
\* fairness is enough for m_lock because a thread meets only finitely many
\* competing acquisitions: one per message.
FairSpec ==
    /\ Spec
    /\ \A p \in Producers : WF_vars(EnqueueStep(p))
    /\ \A c \in Consumers : WF_vars(DequeuePop(c))

\* The consumers keep running too, and call dequeue again and again as the
\* loop of chat_with_receiver does.
ConsumersRun == \A c \in Consumers : WF_vars(DequeueCall(c) \/ DequeueStep(c))

-----------------------------------------------------------------------------
(* Properties *)

\* The type invariant, of the proofs only.  It says the semaphore never falls
\* below zero.
TypeOK ==
    /\ owner \in Threads \cup {Nil}
    /\ avail \in Nat
    /\ messages \in Seq(Msg)
    /\ pc \in [Threads -> ProducerPC \cup ConsumerPC]
    /\ \A p \in Producers : pc[p] \in ProducerPC
    /\ \A c \in Consumers : pc[c] \in ConsumerPC
    /\ arg \in [Producers -> Msg \cup {Nil}]
    /\ \A p \in Producers : pc[p] # "idle" => arg[p] \in Msg
    /\ ret \in [Consumers -> Msg \cup {Nil}]
    /\ sent \subseteq Msg
    /\ taken \subseteq Msg

\* "m_lock must be held while accessing queue" (message_queue.h): a thread
\* about to push or pop is the one that holds the mutex.
LockHeld ==
    \A t \in Threads : pc[t] \in {"push", "pop"} <=> owner = t

\* Producers between push_back and sem_post; consumers that took a unit of
\* the semaphore and have not popped yet.
Posting  == {p \in Producers : pc[p] = "post"}
Claiming == {c \in Consumers : pc[c] \in {"lock", "pop"}}

\* "the semaphore keeps a count of how many messages are currently in the
\* queue" (message_queue.h), made exact: every queued message is counted by
\* the semaphore, or is about to be, or is promised to a consumer.
SemaphoreCounts ==
    Len(messages) = avail + Cardinality(Posting) + Cardinality(Claiming)

\* A dequeue that got past sem_timedwait always finds a message, so the test
\* for an empty deque in message_queue.cpp never fires, however many
\* consumers compete and whenever their waits time out.
ClaimIsHonoured ==
    \A c \in Consumers : pc[c] = "pop" => messages # <<>>

\* What a thread's call looks like from outside, in terms of AbstractQueue.
Call(t) ==
    CASE pc[t] = "idle" -> [at |-> "idle"]
      [] t \in Producers /\ pc[t] \in {"lock", "push"} ->
            [at |-> "putting", msg |-> arg[t]]
      [] t \in Producers /\ pc[t] = "post" -> [at |-> "done", msg |-> Nil]
      [] t \in Consumers /\ pc[t] = "ret" -> [at |-> "done", msg |-> ret[t]]
      [] OTHER -> [at |-> "taking"]

Atomic == INSTANCE AbstractQueue WITH
    fifo <- messages,
    call <- [t \in Threads |-> Call(t)]

\* What the threads see is a first-in first-out queue whose operations are
\* atomic: a call takes effect at the push or the pop of message_queue.cpp.
ImplementsAtomicQueue == Atomic!Spec

\* A message handed to enqueue is eventually returned by a dequeue: no
\* time-out, in particular one that races with sem_post, loses it.
EveryMessageTaken ==
    ConsumersRun => \A m \in Msg : m \in sent ~> m \in taken

\* "will not block" and "blocks for at most a finite amount of time"
\* (message_queue.h): enqueue returns even when the consumers have stopped
\* reading, and dequeue even if no message ever comes.
CallsReturn ==
    /\ \A p \in Producers : pc[p] = "lock" ~> pc[p] = "idle"
    /\ ConsumersRun => \A c \in Consumers : pc[c] = "wait" ~> pc[c] = "ret"
=============================================================================
