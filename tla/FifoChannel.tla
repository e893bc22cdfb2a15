----------------------------- MODULE FifoChannel -----------------------------
(***************************************************************************)
(* What the users of common/queue.h rely on, without mutex, condition      *)
(* variables or wait sets: calls take effect one at a time, items leave in *)
(* the order they entered, a closed channel accepts nothing more, and a    *)
(* call that cannot proceed stays pending, but not while it could finish   *)
(* all along.                                                              *)
(***************************************************************************)
EXTENDS Integers, Sequences

CONSTANTS Threads, Items, MaxSize

NoCall == [op |-> "none"]
PopCall == [op |-> "pop"]
PushCall(v) == [op |-> "push", item |-> v]
Calls == {NoCall, PopCall} \cup {PushCall(v) : v \in Items}
Answers == {"ok", "false", "closed"}

VARIABLES
    buffer,  \* the items inside, oldest first
    closed,
    call,    \* the blocking call each thread has pending
    result   \* what its last call answered: an item or an answer

vars == <<buffer, closed, call, result>>

Init ==
    /\ buffer = <<>>
    /\ closed = FALSE
    /\ call = [t \in Threads |-> NoCall]
    /\ result = [t \in Threads |-> "ok"]

Answer(t, r) == result' = [result EXCEPT ![t] = r]

\* A call that changes nothing but its caller's answer.
Refuse(t) ==
    /\ call[t] = NoCall
    /\ \/ closed /\ Answer(t, "closed")                          \* push, try_push
       \/ closed /\ buffer = <<>> /\ Answer(t, "closed")         \* try_pop
       \/ ~ closed /\ Len(buffer) = MaxSize /\ Answer(t, "false")
       \/ ~ closed /\ buffer = <<>> /\ Answer(t, "false")
    /\ UNCHANGED <<buffer, closed, call>>

Put(t, v) ==
    /\ ~ closed
    /\ call[t] \in {NoCall, PushCall(v)}
    /\ Len(buffer) < MaxSize
    /\ buffer' = Append(buffer, v)
    /\ call' = [call EXCEPT ![t] = NoCall]
    /\ Answer(t, "ok")
    /\ UNCHANGED closed

\* What is inside when the channel is closed still comes out: a pop raises
\* ClosedQueue only once nothing is left.
Take(t) ==
    /\ call[t] \in {NoCall, PopCall}
    /\ buffer # <<>>
    /\ buffer' = Tail(buffer)
    /\ call' = [call EXCEPT ![t] = NoCall]
    /\ Answer(t, Head(buffer))
    /\ UNCHANGED closed

Suspend(t) ==
    /\ call[t] = NoCall
    /\ ~ closed
    /\ \/ buffer = <<>> /\ call' = [call EXCEPT ![t] = PopCall]
       \/ /\ Len(buffer) = MaxSize
          /\ \E v \in Items : call' = [call EXCEPT ![t] = PushCall(v)]
    /\ UNCHANGED <<buffer, closed, result>>

\* A pending push learns that nothing is accepted any more, a pending pop that
\* nothing will ever come.
GiveUp(t) ==
    /\ call[t] # NoCall
    /\ closed
    /\ call[t] = PopCall => buffer = <<>>
    /\ call' = [call EXCEPT ![t] = NoCall]
    /\ Answer(t, "closed")
    /\ UNCHANGED <<buffer, closed>>

Close ==
    /\ closed' = TRUE
    /\ UNCHANGED <<buffer, call, result>>

Next ==
    \/ \E t \in Threads : Refuse(t) \/ Take(t) \/ Suspend(t) \/ GiveUp(t)
    \/ \E t \in Threads, v \in Items : Put(t, v)
    \/ Close

\* Thread t's pending call finishes.  (That a producer waiting for room hears of
\* the close is not promised.)
FinishPending(t) ==
    /\ call[t] # NoCall
    /\ Take(t) \/ (call[t] = PopCall /\ GiveUp(t)) \/ \E v \in Items : Put(t, v)

Fairness == \A t \in Threads : WF_vars(FinishPending(t))

Spec == Init /\ [][Next]_vars /\ Fairness
=============================================================================
