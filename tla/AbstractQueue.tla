--------------------------- MODULE AbstractQueue ---------------------------
(***************************************************************************)
(* What csf_assign05/message_queue.h promises to the callers of a          *)
(* MessageQueue: a first-in first-out queue of messages whose operations   *)
(* take effect at one instant between their call and their return, and     *)
(* whose dequeue may come back empty-handed ("blocks for at most a finite  *)
(* amount of time").  No mutex and no semaphore appears at this level.     *)
(***************************************************************************)
EXTENDS Sequences

CONSTANTS
    Producers,  \* threads that call enqueue
    Consumers,  \* threads that call dequeue
    Msg,        \* the messages
    Nil         \* the null pointer a dequeue may return

VARIABLES
    fifo,       \* the messages in the queue, oldest first
    call        \* the state of every thread's current call

vars == <<fifo, call>>

Idle         == [at |-> "idle"]
Putting(m)   == [at |-> "putting", msg |-> m]
Taking       == [at |-> "taking"]
Done(result) == [at |-> "done", msg |-> result]

Init ==
    /\ fifo = <<>>
    /\ call = [t \in Producers \cup Consumers |-> Idle]

InvokePut(p, m) ==
    /\ call[p] = Idle
    /\ call' = [call EXCEPT ![p] = Putting(m)]
    /\ UNCHANGED fifo

Put(p, m) ==
    /\ call[p] = Putting(m)
    /\ fifo' = Append(fifo, m)
    /\ call' = [call EXCEPT ![p] = Done(Nil)]

InvokeTake(c) ==
    /\ call[c] = Idle
    /\ call' = [call EXCEPT ![c] = Taking]
    /\ UNCHANGED fifo

Take(c) ==
    /\ call[c] = Taking
    /\ fifo # <<>>
    /\ fifo' = Tail(fifo)
    /\ call' = [call EXCEPT ![c] = Done(Head(fifo))]

GiveUp(c) ==
    /\ call[c] = Taking
    /\ call' = [call EXCEPT ![c] = Done(Nil)]
    /\ UNCHANGED fifo

Return(t) ==
    /\ call[t].at = "done"
    /\ call' = [call EXCEPT ![t] = Idle]
    /\ UNCHANGED fifo

Next ==
    \/ \E p \in Producers, m \in Msg : InvokePut(p, m) \/ Put(p, m)
    \/ \E c \in Consumers : InvokeTake(c) \/ Take(c) \/ GiveUp(c)
    \/ \E t \in Producers \cup Consumers : Return(t)

Spec == Init /\ [][Next]_vars
=============================================================================
