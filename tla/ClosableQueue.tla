---------------------------- MODULE ClosableQueue ----------------------------
(***************************************************************************)
(* common/queue.h: the blocking queue between the threads of server and    *)
(* client (command_queue of a match, send_queue of a connection).  Every   *)
(* method holds the mutex, so each run of a method between two waits is    *)
(* one action.  A thread inside condition_variable::wait is asleep until a *)
(* notify_all or a spurious wake-up, and then takes the mutex again to     *)
(* re-test its loop condition.                                             *)
(*                                                                         *)
(* The program builds its queues with max_size UINT_MAX - 1; the class also *)
(* takes a bound, so MaxSize is a parameter.                               *)
(*                                                                         *)
(* ...Bug: a mutated form of the definition that follows it.               *)
(***************************************************************************)
EXTENDS Integers, Sequences

CONSTANTS Threads, Items, MaxSize

ASSUME MaxSizeAssumption == MaxSize \in Nat \ {0}

VARIABLES
    buffer, closed, call, result,   \* as in FifoChannel
    asleep   \* the threads inside is_not_full.wait or is_not_empty.wait

Channel == INSTANCE FifoChannel
NoCall == Channel!NoCall
PopCall == Channel!PopCall
PushCall(v) == Channel!PushCall(v)
Answer(t, r) == Channel!Answer(t, r)

ASSUME ItemsAssumption == Items \cap Channel!Answers = {}

queueVars == <<buffer, closed, call, result, asleep>>

IsFullBug == Len(buffer) > MaxSize
IsFull == Len(buffer) = MaxSize
IsEmpty == buffer = <<>>
Poppers == {t \in Threads : call[t] = PopCall}
Pushers == {t \in Threads : call[t] \in {PushCall(v) : v \in Items}}

\* notify_all of one condition variable, when the code's test says so.
WakePoppersOnPushBug == asleep
WakePoppersOnPush == IF IsEmpty THEN asleep \ Poppers ELSE asleep
WakePushersOnPopBug == IF Len(buffer) = 1 THEN asleep \ Pushers ELSE asleep
WakePushersOnPop == IF IsFull THEN asleep \ Pushers ELSE asleep
WakeOnCloseBug == asleep
WakeOnClose == asleep \ Poppers

-----------------------------------------------------------------------------
QueueInit == Channel!Init /\ asleep = {}

\* The tail of push and try_push, past every test.
Insert(t, v) ==
    /\ asleep' = WakePoppersOnPush
    /\ buffer' = Append(buffer, v)
    /\ call' = [call EXCEPT ![t] = NoCall]
    /\ Answer(t, "ok")
    /\ UNCHANGED closed

\* The tail of pop and try_pop.
Dequeue(t) ==
    /\ asleep' = WakePushersOnPop
    /\ buffer' = Tail(buffer)
    /\ call' = [call EXCEPT ![t] = NoCall]
    /\ Answer(t, Head(buffer))
    /\ UNCHANGED closed

Throw(t) ==
    /\ call' = [call EXCEPT ![t] = NoCall]
    /\ Answer(t, "closed")
    /\ UNCHANGED <<buffer, closed, asleep>>

Sleep(t, c) ==
    /\ call' = [call EXCEPT ![t] = c]
    /\ asleep' = asleep \cup {t}
    /\ UNCHANGED <<buffer, closed, result>>

Push(t, v) ==
    /\ call[t] = NoCall
    /\ \/ closed /\ Throw(t)
       \/ ~ closed /\ IsFull /\ Sleep(t, PushCall(v))
       \/ ~ closed /\ ~ IsFull /\ Insert(t, v)

\* Back from is_not_full.wait: the loop tests the size and not closed.
ResumePush(t) ==
    /\ t \in Pushers \ asleep
    /\ \/ IsFull /\ Sleep(t, call[t])
       \/ ~ IsFull /\ Insert(t, call[t].item)

TryPush(t, v) ==
    /\ call[t] = NoCall
    /\ \/ closed /\ Throw(t)
       \/ /\ ~ closed /\ IsFull
          /\ Answer(t, "false")
          /\ UNCHANGED <<buffer, closed, call, asleep>>
       \/ ~ closed /\ ~ IsFull /\ Insert(t, v)

\* The loop of pop, entered by the call or again by a wake-up.
PopLoop(t) ==
    \/ ~ IsEmpty /\ Dequeue(t)
    \/ IsEmpty /\ closed /\ Throw(t)
    \/ IsEmpty /\ ~ closed /\ Sleep(t, PopCall)

Pop(t) == call[t] = NoCall /\ PopLoop(t)
ResumePop(t) == t \in Poppers \ asleep /\ PopLoop(t)

TryPop(t) ==
    /\ call[t] = NoCall
    /\ \/ ~ IsEmpty /\ Dequeue(t)
       \/ IsEmpty /\ closed /\ Throw(t)
       \/ /\ IsEmpty /\ ~ closed
          /\ Answer(t, "false")
          /\ UNCHANGED <<buffer, closed, call, asleep>>

Close ==
    /\ ~ closed
    /\ closed' = TRUE
    /\ asleep' = WakeOnClose
    /\ UNCHANGED <<buffer, call, result>>

SpuriousWakeup(t) ==
    /\ t \in asleep
    /\ asleep' = asleep \ {t}
    /\ UNCHANGED <<buffer, closed, call, result>>

Resume(t) == ResumePush(t) \/ ResumePop(t)

QueueNext ==
    \/ \E t \in Threads, v \in Items : Push(t, v) \/ TryPush(t, v)
    \/ \E t \in Threads : Resume(t) \/ Pop(t) \/ TryPop(t) \/ SpuriousWakeup(t)
    \/ Close

\* Every runnable thread gets the mutex again and again (an awake thread is
\* scheduled and the mutex is not held across a wait); nobody has to call.
Fairness == \A t \in Threads : WF_queueVars(Resume(t))

QueueSpec == QueueInit /\ [][QueueNext]_queueVars /\ Fairness

-----------------------------------------------------------------------------
\* Types: never more than MaxSize items; only a thread in a call sleeps.
QueueTypeOK ==
    /\ buffer \in Seq(Items)
    /\ Len(buffer) <= MaxSize
    /\ closed \in BOOLEAN
    /\ call \in [Threads -> Channel!Calls]
    /\ result \in [Threads -> Items \cup Channel!Answers]
    /\ asleep \in SUBSET {t \in Threads : call[t] # NoCall}

\* No lost wake-up, for consumers: none sleeps while there is an item to take
\* or the queue is closed, although push notifies only on the empty to
\* non-empty edge and before it inserts.
NoSleepingPopper ==
    (\E t \in asleep : call[t] = PopCall) => IsEmpty /\ ~ closed

\* No lost wake-up, for producers: none sleeps while there is room, although
\* pop notifies only on the full to not-full edge.
NoSleepingPusher ==
    (\E t \in asleep : call[t] # PopCall) => IsFull

\* No wake-up is lost in any interleaving of producers, consumers and close.
NoSleepers == NoSleepingPopper /\ NoSleepingPusher

\* The one step no channel takes: queue.h:25 says that any method of a closed queue
\* raises ClosedQueue, but a push that was waiting for room adds its item.
LatePush == closed /\ \E t \in Threads : ResumePush(t)

\* But for the late push of a queue that was full, the queue with its mutex and
\* condition variables implements the channel: same order, same answers, nothing
\* enters after the close, and no call that could finish is left pending.
ImplementsChannel ==
    /\ Channel!Init
    /\ [][Channel!Next \/ LatePush]_<<buffer, closed, call, result>>
    /\ Channel!Fairness

\* A pop blocked on an empty queue returns once the queue is closed: how
\* SenderThread::stop and Server::disconnect end the sender thread.
CloseEndsPop ==
    \A t \in Threads : (closed /\ call[t] = PopCall) ~> call[t] # PopCall
=============================================================================
