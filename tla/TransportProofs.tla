--------------------------- MODULE TransportProofs ---------------------------
(***************************************************************************)
(* Machine-checked proofs about the ways from one end to the other: the    *)
(* queues between threads (ClosableQueue, for any number of threads, any   *)
(* items and any bound), the bytes of the protocol (WireFormat, for any    *)
(* layout and any values it can hold), and the conversation of a client    *)
(* with its handler (Conversation, for any matches, any messages of the    *)
(* game and any number of clicks).                                         *)
(***************************************************************************)
EXTENDS ClosableQueue, Conversation, TLAPS, FiniteSetTheorems, SequenceTheorems

\* The three kinds of call cannot be mistaken for one another.
LEMMA CallsDiffer ==
  /\ NoCall # PopCall
  /\ \A v \in Items : PushCall(v) \notin {NoCall, PopCall} /\ PushCall(v).item = v
  /\ Channel!Calls = {NoCall, PopCall} \cup {PushCall(v) : v \in Items}
<1>1. NoCall.op = "none" /\ PopCall.op = "pop" /\ \A v \in Items : PushCall(v).op = "push"
  BY DEF NoCall, PopCall, PushCall, Channel!NoCall, Channel!PopCall, Channel!PushCall
<1>2. \A v \in Items : PushCall(v).item = v
  BY DEF PushCall, Channel!PushCall
<1>3. Channel!Calls = {NoCall, PopCall} \cup {PushCall(v) : v \in Items}
  BY DEF Channel!Calls, NoCall, PopCall, PushCall
<1>4. QED
  BY <1>1, <1>2, <1>3

\* A thread in a blocking call is a popper or a pusher and not both.
LEMMA PoppersAndPushers ==
  ASSUME QueueTypeOK
  PROVE  /\ Poppers \cap Pushers = {}
         /\ \A t \in Threads : call[t] # NoCall <=> t \in Poppers \cup Pushers
BY CallsDiffer DEF QueueTypeOK, Poppers, Pushers

\* Inductive: no wake-up is lost, whatever the other threads do.
QueueInv == QueueTypeOK /\ NoSleepingPopper /\ NoSleepingPusher

\* The wait sets, said with Poppers and Pushers.
LEMMA Sleepers ==
  ASSUME QueueTypeOK
  PROVE  /\ NoSleepingPopper <=> (asleep \cap Poppers # {} => IsEmpty /\ ~ closed)
         /\ NoSleepingPusher <=> (asleep \cap Pushers # {} => IsFull)
<1>1. asleep \subseteq Poppers \cup Pushers
  BY PoppersAndPushers DEF QueueTypeOK
<1>2. \A t \in asleep : call[t] = PopCall <=> t \in Poppers
  BY DEF QueueTypeOK, Poppers
<1>3. \A t \in asleep : call[t] # PopCall <=> t \in Pushers
  BY <1>1, <1>2, PoppersAndPushers
<1>4. QED
  BY <1>2, <1>3 DEF NoSleepingPopper, NoSleepingPusher

\* The tail of push: the waiting consumers are woken if the queue was empty.
LEMMA InsertStep ==
  ASSUME QueueInv, NEW t \in Threads \ asleep, NEW v \in Items, ~ IsFull, Insert(t, v)
  PROVE  QueueInv'
<1>1. Len(buffer) \in Nat /\ Len(buffer) < MaxSize
  BY MaxSizeAssumption DEF QueueInv, QueueTypeOK, IsFull
<1>2. /\ buffer' \in Seq(Items) /\ Len(buffer') = Len(buffer) + 1 /\ buffer' # <<>>
      /\ IsEmpty => Len(buffer) = 0
  BY DEF QueueInv, QueueTypeOK, Insert, IsEmpty
<1>3. /\ call' = [call EXCEPT ![t] = NoCall]
      /\ asleep' = IF IsEmpty THEN asleep \ Poppers ELSE asleep
      /\ result' = [result EXCEPT ![t] = "ok"] /\ closed' = closed
  BY DEF Insert, WakePoppersOnPush, Answer, Channel!Answer
<1>4. /\ call' \in [Threads -> Channel!Calls] /\ \A s \in asleep : call'[s] = call[s]
      /\ asleep' \subseteq asleep
  BY <1>3, CallsDiffer DEF QueueInv, QueueTypeOK
<1>5. QueueTypeOK'
  BY <1>1, <1>2, <1>3, <1>4, MaxSizeAssumption DEF QueueInv, QueueTypeOK, Channel!Answers
<1>6. NoSleepingPopper'
  BY <1>3, <1>4, Sleepers DEF QueueInv, NoSleepingPopper, Poppers, QueueTypeOK
<1>7. NoSleepingPusher'
  <2>1. \A s \in asleep : call[s] = PopCall
    BY <1>4 DEF QueueInv, NoSleepingPusher
  <2>2. QED
    BY <1>4, <2>1 DEF NoSleepingPusher
<1>8. QED
  BY <1>5, <1>6, <1>7 DEF QueueInv

\* The tail of pop: the waiting producers are woken if the queue was full.
LEMMA DequeueStep ==
  ASSUME QueueInv, NEW t \in Threads \ asleep, ~ IsEmpty, Dequeue(t)
  PROVE  QueueInv'
<1>1. /\ Len(buffer) \in Nat /\ Len(buffer) <= MaxSize
      /\ Head(buffer) \in Items
      /\ buffer' \in Seq(Items) /\ Len(buffer') = Len(buffer) - 1
  BY DEF QueueInv, QueueTypeOK, Dequeue, IsEmpty
<1>2. /\ call' = [call EXCEPT ![t] = NoCall]
      /\ asleep' = IF IsFull THEN asleep \ Pushers ELSE asleep
      /\ result' = [result EXCEPT ![t] = Head(buffer)] /\ closed' = closed
  BY DEF Dequeue, WakePushersOnPop, Answer, Channel!Answer
<1>3. /\ call' \in [Threads -> Channel!Calls] /\ \A s \in asleep : call'[s] = call[s]
      /\ asleep' \subseteq asleep
  BY <1>2, CallsDiffer DEF QueueInv, QueueTypeOK
<1>4. QueueTypeOK'
  BY <1>1, <1>2, <1>3, MaxSizeAssumption DEF QueueInv, QueueTypeOK
<1>5. NoSleepingPopper'
  BY <1>3 DEF QueueInv, NoSleepingPopper
<1>6. NoSleepingPusher'
  <2>1. asleep' \cap Pushers = {}
    BY <1>2, Sleepers DEF QueueInv
  <2>2. \A s \in asleep' : call'[s] = PopCall
    BY <1>3, <2>1, PoppersAndPushers DEF QueueInv, QueueTypeOK, Poppers
  <2>3. QED
    BY <2>2 DEF NoSleepingPusher
<1>7. QED
  BY <1>4, <1>5, <1>6 DEF QueueInv

\* Going to sleep is safe after the test for which one sleeps.
LEMMA SleepStep ==
  ASSUME QueueInv, NEW t \in Threads \ asleep, NEW c \in Channel!Calls, Sleep(t, c),
         \/ c = PopCall /\ IsEmpty /\ ~ closed
         \/ c \in {PushCall(v) : v \in Items} /\ IsFull
  PROVE  QueueInv'
<1>1. /\ call' = [call EXCEPT ![t] = c] /\ asleep' = asleep \cup {t}
      /\ UNCHANGED <<buffer, closed, result>>
  BY DEF Sleep
<1>2. \A s \in asleep : call'[s] = call[s]
  BY <1>1 DEF QueueInv, QueueTypeOK
<1>3. call'[t] = c /\ c # NoCall
  BY <1>1, CallsDiffer DEF QueueInv, QueueTypeOK
<1>4. QueueTypeOK'
  BY <1>1, <1>2, <1>3 DEF QueueInv, QueueTypeOK
<1>5. NoSleepingPopper'
  BY <1>1, <1>2, <1>3, CallsDiffer DEF QueueInv, NoSleepingPopper, IsEmpty
<1>6. NoSleepingPusher'
  BY <1>1, <1>2, <1>3, CallsDiffer DEF QueueInv, NoSleepingPusher, IsFull
<1>7. QED
  BY <1>4, <1>5, <1>6 DEF QueueInv

\* A call that ends without touching the buffer.
LEMMA ThrowStep ==
  ASSUME QueueInv, NEW t \in Threads \ asleep, Throw(t)
  PROVE  QueueInv'
<1>1. /\ call' = [call EXCEPT ![t] = NoCall]
      /\ result' = [result EXCEPT ![t] = "closed"]
      /\ UNCHANGED <<buffer, closed, asleep>>
  BY DEF Throw, Answer, Channel!Answer
<1>2. call' \in [Threads -> Channel!Calls] /\ \A s \in asleep : call'[s] = call[s]
  BY <1>1, CallsDiffer DEF QueueInv, QueueTypeOK
<1>3. QED
  BY <1>1, <1>2
  DEF QueueInv, QueueTypeOK, Channel!Answers, NoSleepingPopper, NoSleepingPusher, IsEmpty, IsFull

-----------------------------------------------------------------------------
\* Every method, from a call or from a wake-up, keeps the invariant.
LEMMA QueueStep == QueueInv /\ [QueueNext]_queueVars => QueueInv'
<1> SUFFICES ASSUME QueueInv, [QueueNext]_queueVars PROVE QueueInv'
  OBVIOUS
<1>1. \A t \in Threads : call[t] = NoCall => t \notin asleep
  BY DEF QueueInv, QueueTypeOK
<1>2. PopCall \in Channel!Calls /\ \A v \in Items : PushCall(v) \in Channel!Calls
  BY CallsDiffer
<1>3. ASSUME NEW t \in Threads \ asleep, PopLoop(t) PROVE QueueInv'
  <2>1. CASE ~ IsEmpty /\ Dequeue(t)
    BY <1>3, <2>1, DequeueStep
  <2>2. CASE IsEmpty /\ closed /\ Throw(t)
    BY <1>3, <2>2, ThrowStep
  <2>3. CASE IsEmpty /\ ~ closed /\ Sleep(t, PopCall)
    BY <1>2, <1>3, <2>3, SleepStep
  <2>4. QED
    BY <1>3, <2>1, <2>2, <2>3 DEF PopLoop
<1>4. ASSUME NEW t \in Threads, NEW v \in Items, Push(t, v) PROVE QueueInv'
  <2>1. t \in Threads \ asleep
    BY <1>1, <1>4 DEF Push
  <2>2. CASE closed /\ Throw(t)
    BY <2>1, <2>2, ThrowStep
  <2>3. CASE ~ closed /\ IsFull /\ Sleep(t, PushCall(v))
    BY <1>2, <2>1, <2>3, SleepStep
  <2>4. CASE ~ closed /\ ~ IsFull /\ Insert(t, v)
    BY <2>1, <2>4, InsertStep
  <2>5. QED
    BY <1>4, <2>2, <2>3, <2>4 DEF Push
<1>5. ASSUME NEW t \in Threads, NEW v \in Items, TryPush(t, v) PROVE QueueInv'
  <2>1. t \in Threads \ asleep
    BY <1>1, <1>5 DEF TryPush
  <2>2. CASE closed /\ Throw(t)
    BY <2>1, <2>2, ThrowStep
  <2>3. CASE Answer(t, "false") /\ UNCHANGED <<buffer, closed, call, asleep>>
    BY <2>3
    DEF QueueInv, QueueTypeOK, NoSleepingPopper, NoSleepingPusher, IsEmpty, IsFull, Answer,
        Channel!Answer, Channel!Answers
  <2>4. CASE ~ closed /\ ~ IsFull /\ Insert(t, v)
    BY <2>1, <2>4, InsertStep
  <2>5. QED
    BY <1>5, <2>2, <2>3, <2>4 DEF TryPush
<1>6. ASSUME NEW t \in Threads, TryPop(t) PROVE QueueInv'
  <2>1. t \in Threads \ asleep
    BY <1>1, <1>6 DEF TryPop
  <2>2. CASE ~ IsEmpty /\ Dequeue(t)
    BY <2>1, <2>2, DequeueStep
  <2>3. CASE IsEmpty /\ closed /\ Throw(t)
    BY <2>1, <2>3, ThrowStep
  <2>4. CASE Answer(t, "false") /\ UNCHANGED <<buffer, closed, call, asleep>>
    BY <2>4
    DEF QueueInv, QueueTypeOK, NoSleepingPopper, NoSleepingPusher, IsEmpty, IsFull, Answer,
        Channel!Answer, Channel!Answers
  <2>5. QED
    BY <1>6, <2>2, <2>3, <2>4 DEF TryPop
<1>7. ASSUME NEW t \in Threads, Pop(t) PROVE QueueInv'
  BY <1>1, <1>3, <1>7 DEF Pop
<1>8. ASSUME NEW t \in Threads, ResumePop(t) PROVE QueueInv'
  BY <1>3, <1>8 DEF ResumePop, Poppers
<1>9. ASSUME NEW t \in Threads, ResumePush(t) PROVE QueueInv'
  <2>1. PICK v \in Items : t \in Threads \ asleep /\ call[t] = PushCall(v) /\ call[t].item = v
    BY <1>9, CallsDiffer DEF ResumePush, Pushers
  <2>2. CASE IsFull /\ Sleep(t, call[t])
    BY <1>2, <2>1, <2>2, SleepStep
  <2>3. CASE ~ IsFull /\ Insert(t, call[t].item)
    BY <2>1, <2>3, InsertStep
  <2>4. QED
    BY <1>9, <2>2, <2>3 DEF ResumePush
<1>10. CASE Close
  <2>1. asleep' \subseteq asleep \ Poppers /\ closed' = TRUE /\ UNCHANGED <<buffer, call, result>>
    BY <1>10 DEF Close, WakeOnClose
  <2>2. NoSleepingPopper'
    BY <2>1 DEF NoSleepingPopper, Poppers, QueueInv, QueueTypeOK
  <2>3. QueueTypeOK' /\ NoSleepingPusher'
    BY <2>1 DEF QueueInv, QueueTypeOK, NoSleepingPusher, IsFull
  <2>4. QED
    BY <2>2, <2>3 DEF QueueInv
<1>11. ASSUME NEW t \in Threads, SpuriousWakeup(t) PROVE QueueInv'
  BY <1>11
  DEF SpuriousWakeup, QueueInv, QueueTypeOK, NoSleepingPopper, NoSleepingPusher, IsEmpty, IsFull
<1>12. CASE UNCHANGED queueVars
  BY <1>12
  DEF queueVars, QueueInv, QueueTypeOK, NoSleepingPopper, NoSleepingPusher, IsEmpty, IsFull
<1>13. QED
  BY <1>4, <1>5, <1>6, <1>7, <1>8, <1>9, <1>10, <1>11, <1>12 DEF QueueNext, Resume

\* Types and wait sets are right in every reachable state.
THEOREM QueueCorrect == QueueSpec => []QueueInv
<1>1. QueueInit => QueueInv
  <2>1. ASSUME QueueInit PROVE QueueTypeOK
    <3>1. /\ buffer = <<>> /\ closed = FALSE /\ asleep = {}
          /\ call = [t \in Threads |-> NoCall] /\ result = [t \in Threads |-> "ok"]
      BY <2>1 DEF QueueInit, Channel!Init, NoCall
    <3>2. /\ buffer \in Seq(Items) /\ Len(buffer) <= MaxSize
          /\ call \in [Threads -> Channel!Calls]
          /\ result \in [Threads -> Items \cup Channel!Answers]
      BY <3>1, CallsDiffer, MaxSizeAssumption DEF Channel!Answers
    <3>3. QED
      BY <3>1, <3>2 DEF QueueTypeOK
  <2>2. QueueInit => asleep = {}
    BY DEF QueueInit
  <2>3. QED
    BY <2>1, <2>2 DEF QueueInv, NoSleepingPopper, NoSleepingPusher
<1>2. QED
  BY <1>1, QueueStep, PTL DEF QueueSpec

\* Every variable of the queue keeps its type and the bound holds.
THEOREM QueueTypesCorrect == QueueSpec => []QueueTypeOK
<1>1. QueueInv => QueueTypeOK
  BY DEF QueueInv
<1>2. QED
  BY <1>1, QueueCorrect, PTL

\* No consumer sleeps beside an item or on a closed queue.
THEOREM PoppersCorrect == QueueSpec => []NoSleepingPopper
<1>1. QueueInv => NoSleepingPopper
  BY DEF QueueInv
<1>2. QED
  BY <1>1, QueueCorrect, PTL

\* No producer sleeps beside a free place.
THEOREM PushersCorrect == QueueSpec => []NoSleepingPusher
<1>1. QueueInv => NoSleepingPusher
  BY DEF QueueInv
<1>2. QED
  BY <1>1, QueueCorrect, PTL

-----------------------------------------------------------------------------
\* Each step of the queue is one step of the channel, or none, or a late push: the
\* order of the items, the answers and the calls that are pending are those of
\* FifoChannel.
LEMMA ChannelStep ==
  QueueTypeOK /\ [QueueNext]_queueVars => [Channel!Next \/ LatePush]_Channel!vars
<1> SUFFICES ASSUME QueueTypeOK, [QueueNext]_queueVars
             PROVE  [Channel!Next \/ LatePush]_Channel!vars
  OBVIOUS
<1> USE DEF NoCall, PopCall, PushCall, Answer
<1>1. ASSUME NEW t \in Threads, NEW v \in Items, ~ IsFull, Insert(t, v),
             ~ closed, call[t] \in {NoCall, PushCall(v)}
      PROVE  Channel!Put(t, v)
  <2>1. Len(buffer) < MaxSize
    BY <1>1, MaxSizeAssumption DEF QueueTypeOK, IsFull
  <2>2. QED
    BY <1>1, <2>1 DEF Insert, Channel!Put
<1>2. ASSUME NEW t \in Threads, ~ IsEmpty, Dequeue(t), call[t] \in {NoCall, PopCall}
      PROVE  Channel!Take(t)
  BY <1>2 DEF Dequeue, Channel!Take, IsEmpty
<1>3. ASSUME NEW t \in Threads, call[t] = NoCall, Throw(t), closed
      PROVE  Channel!Refuse(t)
  <2>1. call' = call
    BY <1>3 DEF Throw, QueueTypeOK
  <2>2. QED
    BY <1>3, <2>1 DEF Throw, Channel!Refuse
<1>4. ASSUME NEW t \in Threads, NEW v \in Items, Push(t, v) \/ TryPush(t, v)
      PROVE  Channel!Next
  <2>1. CASE closed /\ Throw(t)
    BY <1>3, <1>4, <2>1 DEF Push, TryPush, Channel!Next
  <2>2. CASE ~ closed /\ IsFull /\ Sleep(t, PushCall(v))
    BY <1>4, <2>2 DEF Push, TryPush, Sleep, IsFull, Channel!Suspend, Channel!Next
  <2>3. CASE ~ closed /\ IsFull /\ Answer(t, "false") /\ UNCHANGED <<buffer, closed, call, asleep>>
    BY <1>4, <2>3 DEF Push, TryPush, IsFull, Channel!Refuse, Channel!Next
  <2>4. CASE ~ closed /\ ~ IsFull /\ Insert(t, v)
    BY <1>1, <1>4, <2>4 DEF Push, TryPush, Channel!Next
  <2>5. QED
    BY <1>4, <2>1, <2>2, <2>3, <2>4 DEF Push, TryPush
<1>5. ASSUME NEW t \in Threads, ResumePush(t)
      PROVE  [Channel!Next \/ LatePush]_Channel!vars
  <2>1. PICK v \in Items : call[t] = PushCall(v) /\ call[t].item = v
    BY <1>5, CallsDiffer DEF ResumePush, Pushers
  <2>2. CASE IsFull /\ Sleep(t, call[t])
    BY <2>2 DEF Sleep, QueueTypeOK, Channel!vars
  <2>3. CASE ~ IsFull /\ Insert(t, call[t].item)
    BY <1>1, <1>5, <2>1, <2>3 DEF Channel!Next, LatePush
  <2>4. QED
    BY <1>5, <2>2, <2>3 DEF ResumePush
<1>6. ASSUME NEW t \in Threads, Pop(t) \/ TryPop(t) PROVE Channel!Next
  <2>1. CASE ~ IsEmpty /\ Dequeue(t)
    BY <1>2, <1>6, <2>1 DEF Pop, TryPop, Channel!Next
  <2>2. CASE closed /\ Throw(t)
    BY <1>3, <1>6, <2>2 DEF Pop, TryPop, Channel!Next
  <2>3. CASE IsEmpty /\ ~ closed /\ Sleep(t, PopCall)
    BY <1>6, <2>3 DEF Pop, TryPop, Sleep, IsEmpty, Channel!Suspend, Channel!Next
  <2>4. CASE IsEmpty /\ ~ closed /\ Answer(t, "false") /\ UNCHANGED <<buffer, closed, call, asleep>>
    BY <1>6, <2>4 DEF Pop, TryPop, IsEmpty, Channel!Refuse, Channel!Next
  <2>5. QED
    BY <1>6, <2>1, <2>2, <2>3, <2>4 DEF Pop, TryPop, PopLoop
<1>7. ASSUME NEW t \in Threads, ResumePop(t) PROVE [Channel!Next]_Channel!vars
  <2>1. call[t] = PopCall /\ PopLoop(t)
    BY <1>7 DEF ResumePop, Poppers
  <2>2. CASE ~ IsEmpty /\ Dequeue(t)
    BY <1>2, <2>1, <2>2 DEF Channel!Next
  <2>3. CASE IsEmpty /\ closed /\ Throw(t)
    BY <2>1, <2>3, CallsDiffer DEF Throw, IsEmpty, Channel!GiveUp, Channel!Next
  <2>4. CASE IsEmpty /\ ~ closed /\ Sleep(t, PopCall)
    BY <2>1, <2>4 DEF Sleep, QueueTypeOK, Channel!vars
  <2>5. QED
    BY <2>1, <2>2, <2>3, <2>4 DEF PopLoop
<1>8. CASE Close
  BY <1>8 DEF Close, Channel!Close, Channel!Next
<1>9. ASSUME NEW t \in Threads, SpuriousWakeup(t) PROVE UNCHANGED Channel!vars
  BY <1>9 DEF SpuriousWakeup, Channel!vars
<1>10. CASE UNCHANGED queueVars
  BY <1>10 DEF queueVars, Channel!vars
<1>11. QED
  BY <1>4, <1>5, <1>6, <1>7, <1>8, <1>9, <1>10 DEF QueueNext, Resume

\* The queue with its mutex and condition variables implements the channel, its
\* fairness and the late push of a queue that was full apart: nothing else enters a
\* closed queue.
THEOREM ChannelCorrect ==
  QueueSpec => Channel!Init /\ [][Channel!Next \/ LatePush]_Channel!vars
<1>1. QueueInit => Channel!Init
  BY DEF QueueInit
<1>2. QED
  BY <1>1, ChannelStep, QueueTypesCorrect, PTL DEF QueueSpec

\* No thread sleeps beside work it could do.
THEOREM SleepersCorrect == QueueSpec => []NoSleepers
BY PoppersCorrect, PushersCorrect, PTL DEF NoSleepers

-----------------------------------------------------------------------------
\* Induction over the natural numbers, for a set: among the numbers outside it there
\* would be a least one.
LEMMA NatSetInduction ==
    ASSUME NEW T \in SUBSET Nat, 0 \in T, \A n \in T : n + 1 \in T
    PROVE  T = Nat
<1> SUFFICES ASSUME Nat \ T # {} PROVE FALSE
  OBVIOUS
<1>1. IsWellFoundedOn({pair \in Nat \X Nat : pair[1] < pair[2]}, Nat)
  BY NatLessThanWellFounded, Zenon DEF OpToRel
<1>2. PICK n \in Nat \ T : \A m \in Nat \ T : <<m, n>> \notin {pair \in Nat \X Nat : pair[1] < pair[2]}
  BY <1>1, WFMin, Zenon
<1>3. \A m \in Nat \ T : ~(m < n)
  BY <1>2, Zenon
<1>4. n # 0 /\ n - 1 \in Nat
  OBVIOUS
<1>5. n - 1 \in T
  BY <1>3, <1>4
<1> QED
  BY <1>5

-----------------------------------------------------------------------------
\* The recursion of FlattenSeq.
IsFlattening(f, s) == f = [i \in 1..Len(s) |-> IF i = 1 THEN s[i] ELSE f[i - 1] \o s[i]]
Flattening(s) == CHOOSE f : IsFlattening(f, s)
Flat(s, k) == IF k = 0 THEN <<>> ELSE Flattening(s)[k]

\* There is a function that satisfies it.
LEMMA FlatteningExists ==
    ASSUME NEW s, Len(s) \in Nat
    PROVE  IsFlattening(Flattening(s), s)
<1> DEFINE N == {n \in Nat : \E f : f = [i \in 1..n |-> IF i = 1 THEN s[i] ELSE f[i - 1] \o s[i]]}
<1>1. 0 \in N
  <2>1. <<>> = [i \in 1..0 |-> IF i = 1 THEN s[i] ELSE <<>>[i - 1] \o s[i]]
    OBVIOUS
  <2> QED
    BY <2>1
<1>2. ASSUME NEW n \in N PROVE n + 1 \in N
  <2>1. PICK f : f = [i \in 1..n |-> IF i = 1 THEN s[i] ELSE f[i - 1] \o s[i]]
    OBVIOUS
  <2> DEFINE g == [i \in 1..n+1 |-> IF i \in 1..n THEN f[i] ELSE IF i = 1 THEN s[i] ELSE f[i - 1] \o s[i]]
  <2>2. ASSUME NEW i \in 1..n+1 PROVE g[i] = IF i = 1 THEN s[i] ELSE g[i - 1] \o s[i]
    <3>1. g[i] = IF i = 1 THEN s[i] ELSE f[i - 1] \o s[i]
      BY <2>1
    <3>2. i # 1 => i - 1 \in 1..n /\ i - 1 \in 1..n+1
      OBVIOUS
    <3>3. i # 1 => g[i - 1] = f[i - 1]
      BY <3>2
    <3> QED
      BY <3>1, <3>3
  <2>3. g = [i \in 1..n+1 |-> IF i = 1 THEN s[i] ELSE g[i - 1] \o s[i]]
    BY <2>2
  <2>4. \E h : h = [i \in 1..n+1 |-> IF i = 1 THEN s[i] ELSE h[i - 1] \o s[i]]
    <3> HIDE DEF g
    <3> QED
      BY <2>3
  <2>5. n + 1 \in Nat
    OBVIOUS
  <2> HIDE DEF g
  <2> QED
    BY <2>4, <2>5, Zenon
<1>3. N = Nat
  <2> HIDE DEF N
  <2>1. N \in SUBSET Nat
    BY DEF N
  <2> QED
    BY <2>1, <1>1, <1>2, NatSetInduction
<1>4. \E f : IsFlattening(f, s)
  BY <1>3 DEF IsFlattening
<1> QED
  BY <1>4, Zenon DEF Flattening

\* What it gives, one more at a time.
LEMMA FlatStep ==
    ASSUME NEW s, Len(s) \in Nat, \A i \in 1..Len(s) : s[i] \in Bytes
    PROVE  /\ Flat(s, 0) = <<>>
           /\ \A k \in 0..Len(s) - 1 : Flat(s, k) \in Bytes => Flat(s, k + 1) = Flat(s, k) \o s[k + 1]
           /\ \A k \in 0..Len(s) : Flat(s, k) \in Bytes
           /\ IsSequence(s) => FlattenSeq(s) = Flat(s, Len(s))
<1>1. Flattening(s) = [i \in 1..Len(s) |-> IF i = 1 THEN s[i] ELSE Flattening(s)[i - 1] \o s[i]]
  BY FlatteningExists DEF IsFlattening
<1>2. Flat(s, 0) = <<>>
  BY DEF Flat
<1>3. ASSUME NEW k \in 0..Len(s) - 1
      PROVE  Flat(s, k) \in Bytes => Flat(s, k + 1) = Flat(s, k) \o s[k + 1]
  <2>1. Flattening(s)[k + 1] = IF k = 0 THEN s[k + 1] ELSE Flattening(s)[k] \o s[k + 1]
    <3>1. k + 1 \in 1..Len(s) /\ k + 1 - 1 = k /\ (k + 1 = 1 <=> k = 0)
      OBVIOUS
    <3> DEFINE E(i) == IF i = 1 THEN s[i] ELSE Flattening(s)[i - 1] \o s[i]
    <3>2. \A i \in 1..Len(s) : Flattening(s)[i] = E(i)
      <4>1. Flattening(s) = [i \in 1..Len(s) |-> E(i)]
        BY <1>1, Zenon
      <4> HIDE DEF E
      <4> QED
        BY <4>1
    <3>3. Flattening(s)[k + 1] = IF k + 1 = 1 THEN s[k + 1] ELSE Flattening(s)[k + 1 - 1] \o s[k + 1]
      <4>1. Flattening(s)[k + 1] = E(k + 1)
        <5> HIDE DEF E
        <5> QED
          BY <3>1, <3>2
      <4> QED
        BY <4>1
    <3> QED
      BY <3>1, <3>3
  <2>2. CASE k = 0
    <3>1. <<>> \o s[k + 1] = s[k + 1]
      BY <2>2, ConcatEmptySeq DEF Bytes
    <3> QED
      BY <2>1, <2>2, <3>1 DEF Flat
  <2>3. CASE k # 0
    <3>1. Flat(s, k) = Flattening(s)[k] /\ Flat(s, k + 1) = Flattening(s)[k + 1]
      BY <2>3 DEF Flat
    <3> QED
      BY <2>1, <2>3, <3>1
  <2> QED
    BY <2>2, <2>3
<1>4. ASSUME NEW k \in 0..Len(s) PROVE Flat(s, k) \in Bytes
  <2> DEFINE T == {n \in Nat : n <= Len(s) => Flat(s, n) \in Bytes}
  <2>1. 0 \in T
    <3>1. <<>> \in Bytes
      BY EmptySeq DEF Bytes
    <3> QED
      BY <1>2, <3>1
  <2>2. ASSUME NEW n \in T PROVE n + 1 \in T
    <3>1. CASE n + 1 <= Len(s)
      <4>1. Flat(s, n + 1) = Flat(s, n) \o s[n + 1] /\ Flat(s, n) \in Bytes /\ s[n + 1] \in Bytes
        BY <1>3, <3>1
      <4>2. Flat(s, n) \o s[n + 1] \in Bytes
        BY <4>1, ConcatProperties DEF Bytes
      <4>3. Flat(s, n + 1) \in Bytes
        BY <4>1, <4>2
      <4> HIDE DEF Flat
      <4> QED
        BY <4>3
    <3> QED
      BY <3>1
  <2>3. T = Nat
    <3> HIDE DEF T
    <3>1. T \in SUBSET Nat
      BY DEF T
    <3> QED
      BY <3>1, <2>1, <2>2, NatSetInduction
  <2> QED
    BY <2>3
<1>5. ASSUME IsSequence(s) PROVE FlattenSeq(s) = Flat(s, Len(s))
  <2>1. CASE Len(s) = 0
    <3>1. s = [i \in 1..0 |-> s[i]]
      BY <1>5, <2>1 DEF IsSequence
    <3>2. s = <<>>
      BY <3>1
    <3> QED
      BY <2>1, <3>2 DEF FlattenSeq, Flat
  <2>2. CASE Len(s) # 0
    <3>1. FlattenSeq(s) = Flattening(s)[Len(s)]
      BY <2>2, Zenon DEF FlattenSeq, Flattening, IsFlattening
    <3> QED
      BY <2>2, <3>1 DEF Flat
  <2> QED
    BY <2>1, <2>2
<1> QED
  BY <1>2, <1>3, <1>4, <1>5

-----------------------------------------------------------------------------
\* The recursion of GetEach.
IsResults(g, readers, bytes) ==
    g = [i \in 0..Len(readers) |-> IF i = 0 THEN Read(<<>>, bytes) ELSE GetNext(g[i - 1], readers[i])]
Results(readers, bytes) == CHOOSE g : IsResults(g, readers, bytes)

\* There is a function that satisfies it.
LEMMA ResultsExist ==
    ASSUME NEW readers, NEW bytes, Len(readers) \in Nat
    PROVE  IsResults(Results(readers, bytes), readers, bytes)
<1> DEFINE Step(g, i) == IF i = 0 THEN Read(<<>>, bytes) ELSE GetNext(g[i - 1], readers[i])
           N == {n \in Nat : \E g : g = [i \in 0..n |-> Step(g, i)]}
<1>1. 0 \in N
  <2> DEFINE h == [i \in 0..0 |-> Read(<<>>, bytes)]
  <2>1. h = [i \in 0..0 |-> Step(h, i)]
    OBVIOUS
  <2>2. \E g : g = [i \in 0..0 |-> Step(g, i)]
    <3> HIDE DEF h
    <3> QED
      BY <2>1
  <2> QED
    BY <2>2
<1>2. ASSUME NEW n \in N PROVE n + 1 \in N
  <2>1. PICK f : f = [i \in 0..n |-> Step(f, i)]
    OBVIOUS
  <2> DEFINE g == [i \in 0..n+1 |-> IF i \in 0..n THEN f[i] ELSE Step(f, i)]
  <2>2. ASSUME NEW i \in 0..n+1 PROVE g[i] = Step(g, i)
    <3>1. g[i] = Step(f, i)
      BY <2>1
    <3>2. i # 0 => i - 1 \in 0..n /\ i - 1 \in 0..n+1
      OBVIOUS
    <3>3. i # 0 => g[i - 1] = f[i - 1]
      BY <3>2
    <3> HIDE DEF g
    <3> QED
      BY <3>1, <3>3
  <2>3. g = [i \in 0..n+1 |-> Step(g, i)]
    <3>1. g = [i \in 0..n+1 |-> g[i]]
      OBVIOUS
    <3> HIDE DEF g, Step
    <3> QED
      BY <2>2, <3>1
  <2>4. \E h : h = [i \in 0..n+1 |-> Step(h, i)]
    <3> HIDE DEF g
    <3> QED
      BY <2>3
  <2> QED
    BY <2>4
<1>3. N = Nat
  <2> HIDE DEF N
  <2>1. N \in SUBSET Nat
    BY DEF N
  <2> QED
    BY <2>1, <1>1, <1>2, NatSetInduction
<1>4. \E g : IsResults(g, readers, bytes)
  BY <1>3 DEF IsResults
<1> QED
  BY <1>4, Zenon DEF Results

\* What it gives, one reader at a time.
LEMMA ResultsStep ==
    ASSUME NEW readers, NEW bytes, Len(readers) \in Nat
    PROVE  /\ Results(readers, bytes)[0] = Read(<<>>, bytes)
           /\ \A k \in 0..Len(readers) - 1 :
                Results(readers, bytes)[k + 1] = GetNext(Results(readers, bytes)[k], readers[k + 1])
           /\ GetEach(readers, bytes) = Results(readers, bytes)[Len(readers)]
<1>1. Results(readers, bytes) =
        [i \in 0..Len(readers) |-> IF i = 0 THEN Read(<<>>, bytes)
                                   ELSE GetNext(Results(readers, bytes)[i - 1], readers[i])]
  BY ResultsExist DEF IsResults
<1>2. ASSUME NEW k \in 0..Len(readers) - 1
      PROVE  Results(readers, bytes)[k + 1] = GetNext(Results(readers, bytes)[k], readers[k + 1])
  <2>1. k + 1 \in 0..Len(readers) /\ k + 1 # 0 /\ k + 1 - 1 = k
    OBVIOUS
  <2> QED
    BY <1>1, <2>1
<1>3. GetEach(readers, bytes) = Results(readers, bytes)[Len(readers)]
  BY Zenon DEF GetEach, Results, IsResults
<1> QED
  BY <1>1, <1>2, <1>3
-----------------------------------------------------------------------------
\* The beginning of a sequence, and the beginnings and the end of two in a row.
LEMMA Beginning ==
    ASSUME NEW S, NEW x \in Seq(S), NEW n \in 0..Len(x)
    PROVE  /\ SubSeq(x, 1, n) \in Seq(S) /\ Len(SubSeq(x, 1, n)) = n
           /\ \A i \in 1..n : SubSeq(x, 1, n)[i] = x[i]
<1>1. \A i \in 1..n : x[i] \in S
  BY ElementOfSeq, LenProperties
<1> QED
  BY <1>1, SubSeqProperties, LenProperties

\* What a cut at n leaves of two sequences in a row.
LEMMA CutFirst ==
    ASSUME NEW S, NEW x \in Seq(S), NEW y \in Seq(S), NEW n \in 0..Len(x)
    PROVE  SubSeq(x \o y, 1, n) = SubSeq(x, 1, n)
<1>1. /\ x \o y \in Seq(S) /\ Len(x \o y) = Len(x) + Len(y) /\ n \in 0..Len(x \o y)
      /\ Len(x) \in Nat /\ Len(y) \in Nat
      /\ \A i \in 1..n : (x \o y)[i] = x[i]
  BY ConcatProperties, LenProperties
<1>2. /\ SubSeq(x \o y, 1, n) \in Seq(S) /\ Len(SubSeq(x \o y, 1, n)) = n
      /\ \A i \in 1..n : SubSeq(x \o y, 1, n)[i] = (x \o y)[i]
  BY <1>1, Beginning
<1>3. /\ SubSeq(x, 1, n) \in Seq(S) /\ Len(SubSeq(x, 1, n)) = n
      /\ \A i \in 1..n : SubSeq(x, 1, n)[i] = x[i]
  BY Beginning
<1>4. \A i \in 1..n : SubSeq(x \o y, 1, n)[i] = SubSeq(x, 1, n)[i]
  BY <1>1, <1>2, <1>3
<1> QED
  BY <1>2, <1>3, <1>4, SeqEqual

\* The cut is in the second.
LEMMA CutSecond ==
    ASSUME NEW S, NEW x \in Seq(S), NEW y \in Seq(S), NEW n \in 0..Len(y)
    PROVE  SubSeq(x \o y, 1, Len(x) + n) = x \o SubSeq(y, 1, n)
<1> DEFINE z == x \o y
           w == SubSeq(y, 1, n)
<1>1. /\ z \in Seq(S) /\ Len(z) = Len(x) + Len(y) /\ Len(x) + n \in 0..Len(z)
      /\ Len(x) \in Nat /\ Len(y) \in Nat
      /\ \A i \in 1..Len(x) + Len(y) : z[i] = IF i <= Len(x) THEN x[i] ELSE y[i - Len(x)]
  BY ConcatProperties, LenProperties
<1>2. w \in Seq(S) /\ Len(w) = n /\ \A i \in 1..n : w[i] = y[i]
  BY Beginning
<1> HIDE DEF z, w
<1>3. /\ SubSeq(z, 1, Len(x) + n) \in Seq(S) /\ Len(SubSeq(z, 1, Len(x) + n)) = Len(x) + n
      /\ \A i \in 1..Len(x) + n : SubSeq(z, 1, Len(x) + n)[i] = z[i]
  BY <1>1, Beginning
<1>4. /\ x \o w \in Seq(S) /\ Len(x \o w) = Len(x) + n
      /\ \A i \in 1..Len(x) + n : (x \o w)[i] = IF i <= Len(x) THEN x[i] ELSE w[i - Len(x)]
  BY <1>2, ConcatProperties
<1>5. ASSUME NEW i \in 1..Len(x) + n PROVE SubSeq(z, 1, Len(x) + n)[i] = (x \o w)[i]
  <2>1. i \in 1..Len(x) + Len(y)
    BY <1>1
  <2>2. i > Len(x) => w[i - Len(x)] = y[i - Len(x)]
    BY <1>1, <1>2
  <2> QED
    BY <1>1, <1>3, <1>4, <2>1, <2>2
<1>6. SubSeq(z, 1, Len(x) + n) = x \o w
  BY <1>3, <1>4, <1>5, SeqEqual
<1> QED
  BY <1>6 DEF z, w

\* The first is taken away.
LEMMA CutAway ==
    ASSUME NEW S, NEW x \in Seq(S), NEW y \in Seq(S)
    PROVE  SubSeq(x \o y, Len(x) + 1, Len(x \o y)) = y
<1> DEFINE z == x \o y
<1>1. /\ z \in Seq(S) /\ Len(z) = Len(x) + Len(y)
      /\ Len(x) \in Nat /\ Len(y) \in Nat
      /\ \A i \in 1..Len(x) + Len(y) : z[i] = IF i <= Len(x) THEN x[i] ELSE y[i - Len(x)]
  BY ConcatProperties, LenProperties
<1> HIDE DEF z
<1>2. \A i \in Len(x) + 1..Len(z) : z[i] \in S
  BY <1>1, ElementOfSeq
<1>3. /\ SubSeq(z, Len(x) + 1, Len(z)) \in Seq(S)
      /\ Len(SubSeq(z, Len(x) + 1, Len(z))) = Len(y)
      /\ \A i \in 1..Len(y) : SubSeq(z, Len(x) + 1, Len(z))[i] = z[Len(x) + i]
  <2>1. Len(x) + 1 \in Int /\ Len(z) \in Int
    BY <1>1
  <2>2. /\ SubSeq(z, Len(x) + 1, Len(z)) \in Seq(S)
        /\ Len(SubSeq(z, Len(x) + 1, Len(z))) = IF Len(x) + 1 <= Len(z) THEN Len(z) - (Len(x) + 1) + 1 ELSE 0
        /\ \A i \in 1..Len(z) - (Len(x) + 1) + 1 : SubSeq(z, Len(x) + 1, Len(z))[i] = z[Len(x) + 1 + i - 1]
    BY <1>2, <2>1, SubSeqProperties
  <2>3. Len(z) - (Len(x) + 1) + 1 = Len(y) /\ \A i \in 1..Len(y) : Len(x) + 1 + i - 1 = Len(x) + i
    BY <1>1
  <2>4. Len(SubSeq(z, Len(x) + 1, Len(z))) = Len(y)
    BY <1>1, <2>2
  <2> QED
    BY <2>2, <2>3, <2>4
<1>4. \A i \in 1..Len(y) : SubSeq(z, Len(x) + 1, Len(z))[i] = y[i]
  <2> SUFFICES ASSUME NEW i \in 1..Len(y) PROVE SubSeq(z, Len(x) + 1, Len(z))[i] = y[i]
    OBVIOUS
  <2>1. Len(x) + i \in 1..Len(x) + Len(y) /\ ~(Len(x) + i <= Len(x)) /\ Len(x) + i - Len(x) = i
    BY <1>1
  <2> QED
    BY <1>1, <1>3, <2>1
<1> QED
  BY <1>3, <1>4, SeqEqual DEF z

-----------------------------------------------------------------------------
\* A reader that takes exactly the bytes e, and of a part of them nothing, and makes v
\* of them.
Decodes(reader, e, v) ==
    /\ e \in Bytes
    /\ \A rest \in Bytes : reader[e \o rest] = Read(v, rest)
    /\ \A n \in 0..Len(e) - 1 : reader[SubSeq(e, 1, n)] = Short

\* The same of several readers in a row.
EachDecodes(readers, e, vs) ==
    /\ e \in Bytes
    /\ \A rest \in Bytes : GetEach(readers, e \o rest) = Read(vs, rest)
    /\ \A n \in 0..Len(e) - 1 : GetEach(readers, SubSeq(e, 1, n)) = Short

\* A value, one more.
LEMMA AppendNext ==
    ASSUME NEW vs, NEW k \in Nat
    PROVE  Append([i \in 1..k |-> vs[i]], vs[k + 1]) = [i \in 1..k + 1 |-> vs[i]]
<1> DEFINE S == {vs[i] : i \in 1..k + 1}
           s == [i \in 1..k |-> vs[i]]
           t == [i \in 1..k + 1 |-> vs[i]]
<1>1. s \in Seq(S) /\ Len(s) = k /\ \A i \in 1..k : s[i] = vs[i]
  OBVIOUS
<1>2. t \in Seq(S) /\ Len(t) = k + 1 /\ \A i \in 1..k + 1 : t[i] = vs[i]
  OBVIOUS
<1>3. vs[k + 1] \in S
  OBVIOUS
<1> HIDE DEF s, t, S
<1>4. /\ Append(s, vs[k + 1]) \in Seq(S) /\ Len(Append(s, vs[k + 1])) = k + 1
      /\ \A i \in 1..k : Append(s, vs[k + 1])[i] = vs[i]
      /\ Append(s, vs[k + 1])[k + 1] = vs[k + 1]
  BY <1>1, <1>3, AppendProperties
<1>5. \A i \in 1..k + 1 : Append(s, vs[k + 1])[i] = t[i]
  BY <1>2, <1>4
<1>6. Append(s, vs[k + 1]) = t
  BY <1>2, <1>4, <1>5, SeqEqual
<1> QED
  BY <1>6 DEF s, t

\* What was read, and what is missing.
LEMMA ReadIs ==
    ASSUME NEW v, NEW rest
    PROVE  Read(v, rest).status = "whole" /\ Read(v, rest).value = v /\ Read(v, rest).rest = rest
BY DEF Read

\* After a whole value, the next reader reads; after a failure none does.
LEMMA NextOfWhole ==
    ASSUME NEW vs, NEW rest, NEW reader
    PROVE  GetNext(Read(vs, rest), reader) =
             IF reader[rest].status # "whole" THEN reader[rest]
             ELSE Read(Append(vs, reader[rest].value), reader[rest].rest)
BY DEF GetNext, Read

\* A reader that reads on after a whole reading, and one that cannot.
LEMMA NextOfRead ==
    ASSUME NEW vs, NEW b, NEW reader, NEW v, NEW rest, reader[b] = Read(v, rest)
    PROVE  GetNext(Read(vs, b), reader) = Read(Append(vs, v), rest)
<1>1. reader[b].status = "whole" /\ reader[b].value = v /\ reader[b].rest = rest
  BY ReadIs
<1>2. GetNext(Read(vs, b), reader) =
        IF reader[b].status # "whole" THEN reader[b]
        ELSE Read(Append(vs, reader[b].value), reader[b].rest)
  BY NextOfWhole
<1> QED
  BY <1>1, <1>2

\* Nothing is read after a reading that was short.
LEMMA NextOfShort ==
    ASSUME NEW reader PROVE GetNext(Short, reader) = Short
BY DEF GetNext, Short

\* The invariant of the induction over the readers.
WholeUpTo(readers, es, vs, k) ==
    \A rest \in Bytes :
        Results(readers, Flat(es, k) \o rest)[k] = Read([i \in 1..k |-> vs[i]], rest)
ShortUpTo(readers, es, k) ==
    \A n \in 0..Len(Flat(es, k)) - 1 : Results(readers, SubSeq(Flat(es, k), 1, n))[k] = Short

\* Bytes in a row are in a row however they are grouped.
LEMMA BytesJoin ==
    ASSUME NEW x \in Bytes, NEW y \in Bytes
    PROVE  x \o y \in Bytes
BY ConcatProperties DEF Bytes

\* The same of three, and of none.
LEMMA BytesInARow ==
    ASSUME NEW x \in Bytes, NEW y \in Bytes, NEW z \in Bytes
    PROVE  (x \o y) \o z = x \o (y \o z) /\ x \o <<>> = x /\ <<>> \o x = x
BY ConcatAssociative, ConcatEmptySeq DEF Bytes

\* One reader more.
LEMMA OneMore ==
    ASSUME NEW readers, NEW es, NEW vs, Len(readers) \in Nat, Len(es) = Len(readers),
           \A i \in 1..Len(readers) : Decodes(readers[i], es[i], vs[i]),
           NEW k \in 0..Len(readers) - 1,
           WholeUpTo(readers, es, vs, k), ShortUpTo(readers, es, k)
    PROVE  WholeUpTo(readers, es, vs, k + 1) /\ ShortUpTo(readers, es, k + 1)
<1> DEFINE x == Flat(es, k)
           e == es[k + 1]
<1>1. k + 1 \in 1..Len(readers) /\ k \in 0..Len(readers)
  OBVIOUS
<1>2. Decodes(readers[k + 1], e, vs[k + 1])
  BY <1>1
<1>3. e \in Bytes /\ x \in Bytes /\ Flat(es, k + 1) = x \o e
  <2>1. \A i \in 1..Len(es) : es[i] \in Bytes
    BY DEF Decodes
  <2> QED
    BY <1>1, <2>1, FlatStep
<1>4. \A b : Results(readers, b)[k + 1] = GetNext(Results(readers, b)[k], readers[k + 1])
  BY ResultsStep
<1> HIDE DEF x, e
<1>5. ASSUME NEW rest \in Bytes
      PROVE  Results(readers, (x \o e) \o rest)[k + 1] = Read([i \in 1..k + 1 |-> vs[i]], rest)
  <2>0. e \o rest \in Bytes /\ e \in Bytes /\ x \in Bytes
    BY <1>3, BytesJoin
  <2>1. e \o rest \in Bytes /\ (x \o e) \o rest = x \o (e \o rest)
    BY <2>0, BytesInARow, SMTT(30)
  <2>2. Results(readers, x \o (e \o rest))[k] = Read([i \in 1..k |-> vs[i]], e \o rest)
    BY <2>1 DEF WholeUpTo, x
  <2>3. readers[k + 1][e \o rest] = Read(vs[k + 1], rest)
    BY <1>2 DEF Decodes
  <2>4. GetNext(Read([i \in 1..k |-> vs[i]], e \o rest), readers[k + 1])
          = Read(Append([i \in 1..k |-> vs[i]], vs[k + 1]), rest)
    BY <2>3, NextOfRead
  <2>5. Append([i \in 1..k |-> vs[i]], vs[k + 1]) = [i \in 1..k + 1 |-> vs[i]]
    BY AppendNext
  <2>6. Results(readers, x \o (e \o rest))[k + 1] = Read(Append([i \in 1..k |-> vs[i]], vs[k + 1]), rest)
    BY <1>4, <2>2, <2>4, Zenon
  <2> QED
    BY <2>1, <2>5, <2>6, Zenon
<1>6. ASSUME NEW n \in 0..Len(x \o e) - 1
      PROVE  Results(readers, SubSeq(x \o e, 1, n))[k + 1] = Short
  <2>1. Len(x \o e) = Len(x) + Len(e) /\ Len(x) \in Nat /\ Len(e) \in Nat
    BY <1>3, ConcatProperties, LenProperties DEF Bytes
  <2>2. CASE n < Len(x)
    <3>1. SubSeq(x \o e, 1, n) = SubSeq(x, 1, n)
      BY <1>3, <2>1, <2>2, CutFirst DEF Bytes
    <3>2. Results(readers, SubSeq(x, 1, n))[k] = Short
      BY <2>1, <2>2 DEF ShortUpTo, x
    <3> QED
      BY <1>4, <3>1, <3>2, NextOfShort
  <2>3. CASE n >= Len(x)
    <3>1. PICK j \in 0..Len(e) - 1 : n = Len(x) + j
      <4>1. n - Len(x) \in 0..Len(e) - 1 /\ n = Len(x) + (n - Len(x))
        BY <2>1, <2>3
      <4> QED
        BY <4>1
    <3>2. SubSeq(x \o e, 1, n) = x \o SubSeq(e, 1, j) /\ SubSeq(e, 1, j) \in Bytes
      <4>1. x \in Seq(Byte) /\ e \in Seq(Byte) /\ j \in 0..Len(e)
        BY <1>3, <2>1, <3>1 DEF Bytes
      <4>2. SubSeq(x \o e, 1, Len(x) + j) = x \o SubSeq(e, 1, j)
        BY <4>1, CutSecond
      <4>3. SubSeq(e, 1, j) \in Bytes
        BY <4>1, Beginning DEF Bytes
      <4> QED
        BY <3>1, <4>2, <4>3
    <3>3. Results(readers, x \o SubSeq(e, 1, j))[k] = Read([i \in 1..k |-> vs[i]], SubSeq(e, 1, j))
      BY <3>2 DEF WholeUpTo, x
    <3>4. readers[k + 1][SubSeq(e, 1, j)] = Short
      BY <1>2, <3>1 DEF Decodes
    <3>5. GetNext(Read([i \in 1..k |-> vs[i]], SubSeq(e, 1, j)), readers[k + 1]) = Short
      BY <3>4, NextOfWhole DEF Short
    <3> QED
      BY <1>4, <3>2, <3>3, <3>5
  <2> QED
    BY <2>1, <2>2, <2>3
<1> QED
  BY <1>3, <1>5, <1>6 DEF WholeUpTo, ShortUpTo, x

\* Readers that each take the bytes of their value take those of all the values.
LEMMA EachReads ==
    ASSUME NEW readers, NEW es, NEW vs, Len(readers) \in Nat,
           IsSequence(es), Len(es) = Len(readers), IsSequence(vs), Len(vs) = Len(readers),
           \A i \in 1..Len(readers) : Decodes(readers[i], es[i], vs[i])
    PROVE  EachDecodes(readers, FlattenSeq(es), vs)
<1> DEFINE T == {n \in Nat : n <= Len(readers) =>
                               WholeUpTo(readers, es, vs, n) /\ ShortUpTo(readers, es, n)}
<1>0. \A i \in 1..Len(es) : es[i] \in Bytes
  BY DEF Decodes
<1>1. 0 \in T
  <2>1. Flat(es, 0) = <<>> /\ \A b : Results(readers, b)[0] = Read(<<>>, b)
    BY <1>0, FlatStep, ResultsStep
  <2>2. [i \in 1..0 |-> vs[i]] = <<>>
    OBVIOUS
  <2>3. \A rest \in Bytes : <<>> \o rest = rest
    BY ConcatEmptySeq DEF Bytes
  <2>4. WholeUpTo(readers, es, vs, 0)
    BY <2>1, <2>2, <2>3 DEF WholeUpTo
  <2>5. ShortUpTo(readers, es, 0)
    BY <2>1, EmptySeq DEF ShortUpTo
  <2> QED
    BY <2>4, <2>5
<1>2. ASSUME NEW n \in T PROVE n + 1 \in T
  <2>1. CASE n + 1 <= Len(readers)
    <3>1. n \in 0..Len(readers) - 1 /\ WholeUpTo(readers, es, vs, n) /\ ShortUpTo(readers, es, n)
      BY <2>1
    <3>2. WholeUpTo(readers, es, vs, n + 1) /\ ShortUpTo(readers, es, n + 1)
      BY <3>1, OneMore
    <3> QED
      BY <3>2
  <2> QED
    BY <2>1
<1>3. T = Nat
  <2> HIDE DEF T
  <2>1. T \in SUBSET Nat
    BY DEF T
  <2> QED
    BY <2>1, <1>1, <1>2, NatSetInduction
<1>4. WholeUpTo(readers, es, vs, Len(readers)) /\ ShortUpTo(readers, es, Len(readers))
  BY <1>3
<1>5. FlattenSeq(es) = Flat(es, Len(readers)) /\ FlattenSeq(es) \in Bytes
  BY <1>0, FlatStep
<1>6. \A b : GetEach(readers, b) = Results(readers, b)[Len(readers)]
  BY ResultsStep
<1>7. vs = [i \in 1..Len(readers) |-> vs[i]]
  BY DEF IsSequence
<1> QED
  BY <1>4, <1>5, <1>6, <1>7 DEF WholeUpTo, ShortUpTo, EachDecodes
-----------------------------------------------------------------------------
\* Numbers, bytes and strings.
LEMMA WordIs == Word = 65536
BY SMT DEF Word

\* The ranges, as inequalities.
LEMMA BytesAre == \A v : v \in Byte <=> v \in Int /\ 0 <= v /\ v < 256
BY SMT DEF Byte

\* What a uint16_t can count, by its bounds.
LEMMA CountsAre == \A v : v \in Counts <=> v \in Int /\ 0 <= v /\ v < 65536
<1>1. Word \in Int
  BY WordIs, SMT
<1>2. \A v : v \in Counts <=> v \in Int /\ 0 <= v /\ v <= Word - 1
  BY <1>1, SMT DEF Counts
<1> QED
  BY <1>2, WordIs, SMT

\* The 32-bit integers, by their bounds.
LEMMA Int32Are == \A v : v \in Int32 <=> v \in Int /\ -2147483648 <= v /\ v < 2147483648
<1>1. Word \in Int
  BY WordIs, SMT
<1>2. \A v : v \in Int32 <=> /\ v \in Int /\ -(32767 * Word) - Word <= v
                             /\ v <= 32767 * Word + (Word - 1)
  BY <1>1, SMT DEF Int32
<1> QED
  BY <1>2, WordIs, SMT

\* Bytes after bytes.
LEMMA InARow ==
    ASSUME NEW x \in Bytes, NEW y \in Bytes
    PROVE  /\ x \o y \in Bytes /\ Len(x \o y) = Len(x) + Len(y)
           /\ Len(x) \in Nat /\ Len(y) \in Nat
           /\ \A i \in 1..Len(x) : (x \o y)[i] = x[i]
           /\ \A i \in 1..Len(y) : (x \o y)[Len(x) + i] = y[i]
<1>1. Len(x) \in Nat /\ Len(y) \in Nat
  BY LenProperties DEF Bytes
<1>2. /\ x \o y \in Bytes /\ Len(x \o y) = Len(x) + Len(y)
      /\ \A i \in 1..Len(x) + Len(y) : (x \o y)[i] = IF i <= Len(x) THEN x[i] ELSE y[i - Len(x)]
  BY ConcatProperties DEF Bytes
<1>3. \A i \in 1..Len(x) : i \in 1..Len(x) + Len(y) /\ i <= Len(x)
  BY <1>1
<1>4. \A i \in 1..Len(y) : /\ Len(x) + i \in 1..Len(x) + Len(y) /\ ~(Len(x) + i <= Len(x))
                           /\ Len(x) + i - Len(x) = i
  BY <1>1
<1> QED
  BY <1>1, <1>2, <1>3, <1>4

\* A byte at the head of others.
LEMMA OneByte == ASSUME NEW a \in Byte
                 PROVE  /\ <<a>> \in Bytes /\ Len(<<a>>) = 1
                        /\ \A rest \in Bytes : (<<a>> \o rest)[1] = a
<1>1. <<a>> \in Bytes /\ Len(<<a>>) = 1 /\ <<a>>[1] = a
  BY DEF Bytes
<1> QED
  BY <1>1, ConcatProperties, LenProperties DEF Bytes

\* A recvall takes the bytes that are there, and waits when one is missing.
LEMMA RecvallDecodes ==
    ASSUME NEW e \in Bytes, NEW n, Len(e) = n
    PROVE  /\ \A v : \A rest \in Bytes : Recvall(e \o rest, n, v) = Read(v, rest)
           /\ \A v : \A m \in 0..Len(e) - 1 : Recvall(SubSeq(e, 1, m), n, v) = Short
<1>1. ASSUME NEW v, NEW rest \in Bytes PROVE Recvall(e \o rest, n, v) = Read(v, rest)
  <2>1. Len(e \o rest) >= n
    BY ConcatProperties, LenProperties DEF Bytes
  <2>2. SubSeq(e \o rest, n + 1, Len(e \o rest)) = rest
    BY CutAway DEF Bytes
  <2> QED
    BY <2>1, <2>2 DEF Recvall, Arrived
<1>2. ASSUME NEW v, NEW m \in 0..Len(e) - 1 PROVE Recvall(SubSeq(e, 1, m), n, v) = Short
  <2>1. m \in 0..Len(e) /\ Len(e) \in Nat
    BY LenProperties DEF Bytes
  <2>2. Len(SubSeq(e, 1, m)) = m
    BY <2>1, Beginning DEF Bytes
  <2> QED
    BY <2>1, <2>2 DEF Recvall, Arrived
<1> QED
  BY <1>1, <1>2

\* Two bytes of a number below 65536.
LEMMA HalfBytes ==
    ASSUME NEW v \in Counts
    PROVE  /\ v \div 256 \in Byte /\ v % 256 \in Byte /\ 256 * (v \div 256) + (v % 256) = v
           /\ PutU16(v) = <<v \div 256, v % 256>>
           /\ PutU16(v) \in Bytes /\ Len(PutU16(v)) = 2
<1>1. v \div 256 \in Byte /\ v % 256 \in Byte /\ 256 * (v \div 256) + (v % 256) = v
  BY BytesAre, CountsAre, SMT
<1>2. <<v \div 256, v % 256>> \in Bytes /\ Len(<<v \div 256, v % 256>>) = 2
  BY <1>1 DEF Bytes
<1> QED
  BY <1>1, <1>2 DEF PutU16

\* They come back.
LEMMA U16Decodes ==
    ASSUME NEW v \in Counts
    PROVE  /\ \A rest \in Bytes : GetU16(PutU16(v) \o rest) = Read(v, rest)
           /\ \A m \in 0..Len(PutU16(v)) - 1 : GetU16(SubSeq(PutU16(v), 1, m)) = Short
<1> DEFINE e == PutU16(v)
<1>1. e \in Bytes
  BY HalfBytes
<1>2. Len(e) = 2
  BY HalfBytes
<1>3. 256 * e[1] + e[2] = v
  BY HalfBytes
<1> HIDE DEF e
<1>4. /\ \A w : \A rest \in Bytes : Recvall(e \o rest, Len(e), w) = Read(w, rest)
      /\ \A w : \A m \in 0..Len(e) - 1 : Recvall(SubSeq(e, 1, m), Len(e), w) = Short
  BY <1>1, RecvallDecodes
<1>5. \A b : GetU16(b) = Recvall(b, Len(e), 256 * b[1] + b[2])
  BY <1>2 DEF GetU16
<1>6. ASSUME NEW rest \in Bytes PROVE GetU16(e \o rest) = Read(v, rest)
  <2>1. \A i \in 1..Len(e) : (e \o rest)[i] = e[i]
    BY <1>1, InARow
  <2>2. 1 \in 1..Len(e) /\ 2 \in 1..Len(e)
    BY <1>2
  <2>3. (e \o rest)[1] = e[1] /\ (e \o rest)[2] = e[2]
    BY <2>1, <2>2
  <2>4. 256 * (e \o rest)[1] + (e \o rest)[2] = v
    BY <1>3, <2>3
  <2> QED
    BY <1>4, <1>5, <2>4
<1>7. ASSUME NEW m \in 0..Len(e) - 1 PROVE GetU16(SubSeq(e, 1, m)) = Short
  BY <1>4, <1>5
<1> QED
  BY <1>6, <1>7 DEF e

\* Four bytes of a number of 32 bits.
LEMMA WholeBytes ==
    ASSUME NEW v \in Int32
    PROVE  /\ PutU32(v) \in Bytes /\ Len(PutU32(v)) = 4
           /\ \A b : /\ b[1] = PutU32(v)[1] /\ b[2] = PutU32(v)[2]
                     /\ b[3] = PutU32(v)[3] /\ b[4] = PutU32(v)[4]
                     => Int32At(b, 0) = v
           /\ \A b : /\ b[5] = PutU32(v)[1] /\ b[6] = PutU32(v)[2]
                     /\ b[7] = PutU32(v)[3] /\ b[8] = PutU32(v)[4]
                     => Int32At(b, 4) = v
<1> DEFINE h == (v \div 65536) % 65536
           l == v % 65536
           b1 == h \div 256
           b2 == h % 256
           b3 == l \div 256
           b4 == l % 256
<1>1. v \in Int /\ -2147483648 <= v /\ v < 2147483648
  BY Int32Are, SMT
<1>2. h \in Int /\ 0 <= h /\ h < 65536 /\ l \in Int /\ 0 <= l /\ l < 65536
  BY <1>1, SMT
<1>3. (IF h < 32768 THEN h ELSE h - 65536) * 65536 + l = v
  <2> DEFINE q == v \div 65536
  <2>1. v = 65536 * q + l /\ q \in Int /\ -32768 <= q /\ q < 32768
    BY <1>1, SMT
  <2>2. h = IF q >= 0 THEN q ELSE q + 65536
    BY <2>1, SMT
  <2> HIDE DEF q, h, l
  <2> QED
    BY <1>2, <2>1, <2>2, SMT
<1>4. b1 \in Byte /\ b2 \in Byte /\ h = 256 * b1 + b2
  <2> HIDE DEF h, l
  <2> QED
    BY <1>2, BytesAre, SMT
<1>5. b3 \in Byte /\ b4 \in Byte /\ l = 256 * b3 + b4
  <2> HIDE DEF h, l
  <2> QED
    BY <1>2, BytesAre, SMT
<1>6. PutU32(v) = <<b1, b2>> \o <<b3, b4>>
  BY DEF PutU32, PutU16
<1> HIDE DEF h, l, b1, b2, b3, b4
<1>7. PutU32(v) = <<b1, b2, b3, b4>>
  <2>1. <<b1, b2>> \in Bytes /\ Len(<<b1, b2>>) = 2 /\ <<b3, b4>> \in Bytes /\ Len(<<b3, b4>>) = 2
    BY <1>4, <1>5 DEF Bytes
  <2>2. <<b1, b2, b3, b4>> \in Bytes /\ Len(<<b1, b2, b3, b4>>) = 4
    BY <1>4, <1>5 DEF Bytes
  <2>3. <<b1, b2>> \o <<b3, b4>> \in Bytes /\ Len(<<b1, b2>> \o <<b3, b4>>) = 4
        /\ \A i \in 1..4 : (<<b1, b2>> \o <<b3, b4>>)[i] = IF i <= 2 THEN <<b1, b2>>[i] ELSE <<b3, b4>>[i - 2]
    BY <2>1, InARow
  <2>4. \A i \in 1..4 : (<<b1, b2>> \o <<b3, b4>>)[i] = <<b1, b2, b3, b4>>[i]
    <3> DEFINE c == <<b1, b2>> \o <<b3, b4>>
    <3>1. c[1] = b1 /\ c[2] = b2 /\ c[3] = b3 /\ c[4] = b4
      <4> HIDE DEF c
      <4> QED
        BY <2>3 DEF c
    <3> HIDE DEF c
    <3> QED
      BY <3>1 DEF c
  <2>5. <<b1, b2>> \o <<b3, b4>> = <<b1, b2, b3, b4>>
    BY <2>2, <2>3, <2>4, SeqEqual DEF Bytes
  <2> QED
    BY <1>6, <2>5
<1>8. PutU32(v) \in Bytes /\ Len(PutU32(v)) = 4
  BY <1>4, <1>5, <1>7 DEF Bytes
<1>9. PutU32(v)[1] = b1 /\ PutU32(v)[2] = b2 /\ PutU32(v)[3] = b3 /\ PutU32(v)[4] = b4
  BY <1>7
<1>10. (IF b1 < 128 THEN b1 ELSE b1 - 256) * 16777216 + 65536 * b2 + 256 * b3 + b4 = v
  BY <1>2, <1>3, <1>4, <1>5, BytesAre, SMT
<1>11. \A b : b[1] = b1 /\ b[2] = b2 /\ b[3] = b3 /\ b[4] = b4 => Int32At(b, 0) = v
  BY <1>10, SMT DEF Int32At
<1>12. \A b : b[5] = b1 /\ b[6] = b2 /\ b[7] = b3 /\ b[8] = b4 => Int32At(b, 4) = v
  BY <1>10, SMT DEF Int32At
<1> QED
  BY <1>8, <1>9, <1>11, <1>12

\* They come back too.
LEMMA U32Decodes ==
    ASSUME NEW v \in Int32
    PROVE  /\ \A rest \in Bytes : GetU32(PutU32(v) \o rest) = Read(v, rest)
           /\ \A m \in 0..Len(PutU32(v)) - 1 : GetU32(SubSeq(PutU32(v), 1, m)) = Short
<1> DEFINE e == PutU32(v)
<1>1. e \in Bytes /\ Len(e) = 4
  BY WholeBytes
<1>2. ASSUME NEW rest \in Bytes PROVE GetU32(e \o rest) = Read(v, rest)
  <2>1. /\ (e \o rest)[1] = e[1] /\ (e \o rest)[2] = e[2]
        /\ (e \o rest)[3] = e[3] /\ (e \o rest)[4] = e[4]
    <3> HIDE DEF e
    <3>1. 1 \in 1..Len(e) /\ 2 \in 1..Len(e) /\ 3 \in 1..Len(e) /\ 4 \in 1..Len(e)
      BY <1>1
    <3> QED
      BY <1>1, <3>1, InARow
  <2>2. Int32At(e \o rest, 0) = v
    BY <2>1, WholeBytes
  <2> HIDE DEF e
  <2> QED
    BY <1>1, <2>2, RecvallDecodes, ZenonT(30) DEF GetU32
<1> HIDE DEF e
<1>3. ASSUME NEW m \in 0..Len(e) - 1 PROVE GetU32(SubSeq(e, 1, m)) = Short
  BY <1>1, RecvallDecodes DEF GetU32
<1> QED
  BY <1>2, <1>3 DEF e

\* And eight of them.
LEMMA U64Decodes ==
    ASSUME NEW a \in Int32, NEW b \in Int32
    PROVE  /\ PutU32(a) \o PutU32(b) \in Bytes /\ Len(PutU32(a) \o PutU32(b)) = 8
           /\ \A rest \in Bytes : GetU64((PutU32(a) \o PutU32(b)) \o rest) = Read(<<a, b>>, rest)
           /\ \A m \in 0..Len(PutU32(a) \o PutU32(b)) - 1 : GetU64(SubSeq(PutU32(a) \o PutU32(b), 1, m)) = Short
<1> DEFINE x == PutU32(a)
           y == PutU32(b)
           e == x \o y
<1>1. x \in Bytes /\ y \in Bytes
  BY WholeBytes
<1>2. Len(x) = 4 /\ Len(y) = 4
  BY WholeBytes
<1> HIDE DEF x, y
<1>3. /\ e \in Bytes /\ Len(e) = Len(x) + Len(y)
      /\ \A i \in 1..Len(x) : e[i] = x[i]
      /\ \A i \in 1..Len(y) : e[Len(x) + i] = y[i]
  BY <1>1, InARow
<1>4. Len(e) = 8
  BY <1>2, <1>3
<1> HIDE DEF e
<1>5. ASSUME NEW rest \in Bytes PROVE GetU64(e \o rest) = Read(<<a, b>>, rest)
  <2> DEFINE z == e \o rest
  <2>1. \A i \in 1..Len(e) : z[i] = e[i]
    BY <1>3, InARow
  <2>2. \A v : Recvall(z, Len(e), v) = Read(v, rest)
    BY <1>3, RecvallDecodes
  <2> HIDE DEF z
  <2>3. /\ z[1] = x[1] /\ z[2] = x[2] /\ z[3] = x[3] /\ z[4] = x[4]
        /\ z[5] = y[1] /\ z[6] = y[2] /\ z[7] = y[3] /\ z[8] = y[4]
    <3>1. /\ 1 \in 1..Len(e) /\ 2 \in 1..Len(e) /\ 3 \in 1..Len(e) /\ 4 \in 1..Len(e)
          /\ 5 \in 1..Len(e) /\ 6 \in 1..Len(e) /\ 7 \in 1..Len(e) /\ 8 \in 1..Len(e)
      BY <1>4
    <3>2. /\ 1 \in 1..Len(x) /\ 2 \in 1..Len(x) /\ 3 \in 1..Len(x) /\ 4 \in 1..Len(x)
      BY <1>2
    <3>3. /\ 1 \in 1..Len(y) /\ 2 \in 1..Len(y) /\ 3 \in 1..Len(y) /\ 4 \in 1..Len(y)
      BY <1>2
    <3>4. e[1] = x[1] /\ e[2] = x[2] /\ e[3] = x[3] /\ e[4] = x[4]
      BY <1>3, <3>2
    <3>5. e[5] = y[1] /\ e[6] = y[2] /\ e[7] = y[3] /\ e[8] = y[4]
      <4>1. e[Len(x) + 1] = y[1] /\ e[Len(x) + 2] = y[2] /\ e[Len(x) + 3] = y[3] /\ e[Len(x) + 4] = y[4]
        BY <1>3, <3>3
      <4> QED
        BY <1>2, <4>1
    <3> QED
      BY <2>1, <3>1, <3>4, <3>5
  <2>4. Int32At(z, 0) = a /\ Int32At(z, 4) = b
    BY <2>3, WholeBytes DEF x, y
  <2>5. GetU64(z) = Recvall(z, Len(e), <<a, b>>)
    BY <1>4, <2>4 DEF GetU64
  <2> QED
    BY <2>2, <2>5 DEF z
<1>6. ASSUME NEW m \in 0..Len(e) - 1 PROVE GetU64(SubSeq(e, 1, m)) = Short
  <2>1. \A v : Recvall(SubSeq(e, 1, m), Len(e), v) = Short
    BY <1>3, RecvallDecodes
  <2> QED
    BY <1>4, <2>1 DEF GetU64
<1> QED
  BY <1>3, <1>4, <1>5, <1>6 DEF x, y, e

\* A string after its length.
LEMMA StringDecodes ==
    ASSUME NEW v \in Bytes, Len(v) \in Counts
    PROVE  /\ PutU16(Len(v)) \o v \in Bytes /\ Len(PutU16(Len(v)) \o v) = 2 + Len(v)
           /\ \A rest \in Bytes : GetString((PutU16(Len(v)) \o v) \o rest) = Read(v, rest)
           /\ \A m \in 0..Len(PutU16(Len(v)) \o v) - 1 : GetString(SubSeq(PutU16(Len(v)) \o v, 1, m)) = Short
<1>0. Len(v) \in Nat
  BY LenProperties DEF Bytes
<1> DEFINE x == PutU16(Len(v))
           e == x \o v
<1>1. x \in Bytes
  BY HalfBytes
<1>11. Len(x) = 2
  BY HalfBytes
<1>2. /\ \A rest \in Bytes : GetU16(x \o rest) = Read(Len(v), rest)
      /\ \A m \in 0..Len(x) - 1 : GetU16(SubSeq(x, 1, m)) = Short
  BY U16Decodes
<1> HIDE DEF x
<1>12. e \in Bytes /\ Len(e) = Len(x) + Len(v)
  BY <1>1, InARow
<1>3. e \in Bytes /\ Len(e) = 2 + Len(v)
  BY <1>0, <1>11, <1>12
<1>4. ASSUME NEW rest \in Bytes PROVE GetString(e \o rest) = Read(v, rest)
  <2>1. v \o rest \in Bytes /\ e \o rest = x \o (v \o rest)
    BY <1>1, InARow, ConcatAssociative DEF Bytes
  <2>2. GetU16(e \o rest) = Read(Len(v), v \o rest)
    BY <1>2, <2>1
  <2>3. SubSeq(v \o rest, 1, Len(v)) = v
    <3>1. Len(v) \in 0..Len(v)
      BY <1>0
    <3> QED
      BY <3>1, CutFirst, SubSeqFull DEF Bytes
  <2>4. Recvall(v \o rest, Len(v), v) = Read(v, rest)
    BY RecvallDecodes
  <2> HIDE DEF e
  <2> QED
    <3>1. GetU16(e \o rest).status = "whole" /\ GetU16(e \o rest).value = Len(v) /\ GetU16(e \o rest).rest = v \o rest
      BY <2>2 DEF Read
    <3> QED
      BY <2>3, <2>4, <3>1, Zenon DEF GetString
<1>5. ASSUME NEW m \in 0..Len(e) - 1 PROVE GetString(SubSeq(e, 1, m)) = Short
  <2>0. Len(e) - 1 = 1 + Len(v) /\ m \in Nat /\ m <= 1 + Len(v)
    <3> HIDE DEF e
    <3> QED
      BY <1>0, <1>3
  <2>1. CASE m < 2
    <3>0. m \in 0..Len(x) /\ m \in 0..Len(x) - 1
      BY <1>0, <1>11, <2>0, <2>1
    <3>1. SubSeq(e, 1, m) = SubSeq(x, 1, m)
      BY <1>1, <3>0, CutFirst DEF Bytes
    <3>2. GetU16(SubSeq(e, 1, m)) = Short
      BY <1>2, <3>0, <3>1
    <3> HIDE DEF e
    <3> QED
      BY <3>2 DEF GetString, Short
  <2>2. CASE m >= 2
    <3>1. PICK j \in 0..Len(v) - 1 : m = Len(x) + j
      <4>1. m - 2 \in 0..Len(v) - 1 /\ m = Len(x) + (m - 2)
        BY <1>0, <1>11, <2>0, <2>2
      <4> QED
        BY <4>1
    <3>2. SubSeq(e, 1, m) = x \o SubSeq(v, 1, j) /\ SubSeq(v, 1, j) \in Bytes
      <4>1. j \in 0..Len(v)
        BY <1>0
      <4>2. SubSeq(x \o v, 1, Len(x) + j) = x \o SubSeq(v, 1, j) /\ SubSeq(v, 1, j) \in Seq(Byte)
        BY <1>1, <4>1, CutSecond, Beginning DEF Bytes
      <4> QED
        BY <3>1, <4>2 DEF Bytes
    <3>3. GetU16(SubSeq(e, 1, m)) = Read(Len(v), SubSeq(v, 1, j))
      BY <1>2, <3>2
    <3>4. \A w : Recvall(SubSeq(v, 1, j), Len(v), w) = Short
      BY RecvallDecodes
    <3> HIDE DEF e
    <3> QED
      BY <3>3, <3>4, ReadIs DEF GetString
  <2> QED
    BY <2>0, <2>1, <2>2
<1> QED
  BY <1>3, <1>4, <1>5 DEF x, e

\* A byte, a byte with a bound, a truth value.
LEMMA U8Decodes ==
    ASSUME NEW a \in Byte
    PROVE  /\ <<a>> \in Bytes
           /\ \A rest \in Bytes : GetU8(<<a>> \o rest) = Read(a, rest)
           /\ \A m \in 0..Len(<<a>>) - 1 : GetU8(SubSeq(<<a>>, 1, m)) = Short
<1> DEFINE e == <<a>>
<1>1. e \in Bytes /\ Len(e) = 1 /\ \A rest \in Bytes : (e \o rest)[1] = a
  BY OneByte
<1> HIDE DEF e
<1>2. /\ \A v : \A rest \in Bytes : Recvall(e \o rest, 1, v) = Read(v, rest)
      /\ \A v : \A m \in 0..Len(e) - 1 : Recvall(SubSeq(e, 1, m), 1, v) = Short
  BY <1>1, RecvallDecodes
<1>3. ASSUME NEW rest \in Bytes PROVE GetU8(e \o rest) = Read(a, rest)
  BY <1>1, <1>2 DEF GetU8
<1>4. ASSUME NEW m \in 0..Len(e) - 1 PROVE GetU8(SubSeq(e, 1, m)) = Short
  BY <1>2 DEF GetU8
<1> QED
  BY <1>1, <1>3, <1>4 DEF e

\* The byte of an enumeration,
LEMMA UpToDecodes ==
    ASSUME NEW last \in Byte, NEW a \in 0..last
    PROVE  /\ <<a>> \in Bytes
           /\ \A rest \in Bytes : GetUpTo(<<a>> \o rest, last) = Read(a, rest)
           /\ \A m \in 0..Len(<<a>>) - 1 : GetUpTo(SubSeq(<<a>>, 1, m), last) = Short
<1> DEFINE e == <<a>>
<1>1. a \in Byte /\ last \in Int /\ a \in Int /\ ~(a > last)
  BY BytesAre, SMT
<1>2. /\ e \in Bytes
      /\ \A rest \in Bytes : GetU8(e \o rest) = Read(a, rest)
      /\ \A m \in 0..Len(e) - 1 : GetU8(SubSeq(e, 1, m)) = Short
  BY <1>1, U8Decodes
<1> HIDE DEF e
<1>3. ASSUME NEW rest \in Bytes PROVE GetUpTo(e \o rest, last) = Read(a, rest)
  <2>1. GetU8(e \o rest) = Read(a, rest)
    BY <1>2
  <2>2. GetU8(e \o rest).value = a
    BY <2>1, ReadIs
  <2> QED
    BY <1>1, <2>1, <2>2 DEF GetUpTo
<1>4. ASSUME NEW m \in 0..Len(e) - 1 PROVE GetUpTo(SubSeq(e, 1, m), last) = Short
  <2>1. GetU8(SubSeq(e, 1, m)) = Short
    BY <1>2
  <2> QED
    BY <2>1 DEF GetUpTo, Short
<1> QED
  BY <1>2, <1>3, <1>4 DEF e

\* and that of a bool.
LEMMA BoolDecodes ==
    ASSUME NEW b \in BOOLEAN
    PROVE  \E a \in Byte :
             /\ (IF b THEN <<1>> ELSE <<0>>) = <<a>>
             /\ \A rest \in Bytes : GetBool(<<a>> \o rest) = Read(b, rest)
             /\ \A m \in 0..Len(<<a>>) - 1 : GetBool(SubSeq(<<a>>, 1, m)) = Short
<1> DEFINE a == IF b THEN 1 ELSE 0
           e == <<a>>
<1>1. a \in Byte /\ (IF b THEN <<1>> ELSE <<0>>) = <<a>> /\ b = (a # 0)
  BY BytesAre, SMT
<1> HIDE DEF a
<1>2. e \in Bytes /\ Len(e) = 1 /\ \A rest \in Bytes : (e \o rest)[1] = a
  BY <1>1, OneByte
<1> HIDE DEF e
<1>3. /\ \A v : \A rest \in Bytes : Recvall(e \o rest, 1, v) = Read(v, rest)
      /\ \A v : \A m \in 0..Len(e) - 1 : Recvall(SubSeq(e, 1, m), 1, v) = Short
  BY <1>2, RecvallDecodes
<1>4. ASSUME NEW rest \in Bytes PROVE GetBool(e \o rest) = Read(b, rest)
  <2>1. Recvall(e \o rest, 1, a # 0) = Read(a # 0, rest)
    BY <1>3
  <2>2. GetBool(e \o rest) = Recvall(e \o rest, 1, a # 0)
    BY <1>2, Zenon DEF GetBool
  <2> QED
    BY <1>1, <2>1, <2>2, Zenon
<1>5. ASSUME NEW m \in 0..Len(e) - 1 PROVE GetBool(SubSeq(e, 1, m)) = Short
  BY <1>3, Zenon DEF GetBool
<1> QED
  BY <1>1, <1>4, <1>5 DEF e

\* What a field without rows is written as and read with.
LEMMA ScalarCases ==
    ASSUME NEW field, NEW v
    PROVE  /\ field.kind \in {"u8", "upto"} => PutScalar(field, v) = <<v>>
           /\ field.kind = "bool" => PutScalar(field, v) = IF v THEN <<1>> ELSE <<0>>
           /\ field.kind = "u16" => PutScalar(field, v) = PutU16(v)
           /\ field.kind = "u32" => PutScalar(field, v) = PutU32(v)
           /\ field.kind = "u64" => PutScalar(field, v) = PutU32(v[1]) \o PutU32(v[2])
           /\ field.kind = "string" => PutScalar(field, v) = PutU16(Len(v)) \o v
BY DEF PutScalar

\* GetScalar, kind by kind.
LEMMA GetterCases ==
    ASSUME NEW field
    PROVE  \A b : /\ field.kind = "u8" => GetScalar(field, b) = GetU8(b)
                  /\ field.kind = "upto" => GetScalar(field, b) = GetUpTo(b, field.last)
                  /\ field.kind = "bool" => GetScalar(field, b) = GetBool(b)
                  /\ field.kind = "u16" => GetScalar(field, b) = GetU16(b)
                  /\ field.kind = "u32" => GetScalar(field, b) = GetU32(b)
                  /\ field.kind = "u64" => GetScalar(field, b) = GetU64(b)
                  /\ field.kind = "string" => GetScalar(field, b) = GetString(b)
BY DEF GetScalar

\* A scalar decodes when its getter and what is put decode.
LEMMA ScalarFrom ==
    ASSUME NEW field, NEW e \in Bytes, NEW v,
           \A rest \in Bytes : GetScalar(field, e \o rest) = Read(v, rest),
           \A m \in 0..Len(e) - 1 : GetScalar(field, SubSeq(e, 1, m)) = Short
    PROVE  Decodes(ScalarReader(field), e, v)
<1>1. \A b \in Bytes : ScalarReader(field)[b] = GetScalar(field, b)
  BY DEF ScalarReader
<1>2. \A rest \in Bytes : e \o rest \in Bytes
  BY InARow
<1>3. ASSUME NEW m \in 0..Len(e) - 1 PROVE SubSeq(e, 1, m) \in Bytes
  <2>1. m \in 0..Len(e)
    BY InARow
  <2> QED
    BY <2>1, Beginning DEF Bytes
<1> QED
  BY <1>1, <1>2, <1>3 DEF Decodes

\* A field without rows is read back from its bytes.
LEMMA ScalarDecodes ==
    ASSUME NEW field, NEW v, FitsScalar(field, v)
    PROVE  Decodes(ScalarReader(field), PutScalar(field, v), v)
<1> DEFINE e == PutScalar(field, v)
<1>1. CASE field.kind = "u8" /\ v \in Byte
  <2>1. e = <<v>>
    BY <1>1, ScalarCases
  <2>2. \A b : GetScalar(field, b) = GetU8(b)
    BY <1>1, GetterCases
  <2>3. /\ e \in Bytes
        /\ \A rest \in Bytes : GetU8(e \o rest) = Read(v, rest)
        /\ \A m \in 0..Len(e) - 1 : GetU8(SubSeq(e, 1, m)) = Short
    BY <1>1, <2>1, U8Decodes
  <2> HIDE DEF e
  <2>6. Decodes(ScalarReader(field), e, v)
    BY <2>2, <2>3, ScalarFrom
  <2> QED
    BY <2>6 DEF e
<1>2. CASE field.kind = "upto" /\ v \in 0..field.last /\ field.last \in Byte
  <2>1. e = <<v>>
    BY <1>2, ScalarCases
  <2>2. \A b : GetScalar(field, b) = GetUpTo(b, field.last)
    BY <1>2, GetterCases
  <2>3. /\ e \in Bytes
        /\ \A rest \in Bytes : GetUpTo(e \o rest, field.last) = Read(v, rest)
        /\ \A m \in 0..Len(e) - 1 : GetUpTo(SubSeq(e, 1, m), field.last) = Short
    BY <1>2, <2>1, UpToDecodes
  <2> HIDE DEF e
  <2>6. Decodes(ScalarReader(field), e, v)
    BY <2>2, <2>3, ScalarFrom
  <2> QED
    BY <2>6 DEF e
<1>3. CASE field.kind = "bool" /\ v \in BOOLEAN
  <2>1. e = IF v THEN <<1>> ELSE <<0>>
    BY <1>3, ScalarCases
  <2>2. \A b : GetScalar(field, b) = GetBool(b)
    BY <1>3, GetterCases
  <2>4. PICK a \in Byte :
             /\ (IF v THEN <<1>> ELSE <<0>>) = <<a>>
             /\ \A rest \in Bytes : GetBool(<<a>> \o rest) = Read(v, rest)
             /\ \A m \in 0..Len(<<a>>) - 1 : GetBool(SubSeq(<<a>>, 1, m)) = Short
    BY <1>3, BoolDecodes
  <2>5. <<a>> \in Bytes
    BY OneByte
  <2>3. /\ e \in Bytes
        /\ \A rest \in Bytes : GetBool(e \o rest) = Read(v, rest)
        /\ \A m \in 0..Len(e) - 1 : GetBool(SubSeq(e, 1, m)) = Short
    BY <2>1, <2>4, <2>5
  <2> HIDE DEF e
  <2>6. Decodes(ScalarReader(field), e, v)
    BY <2>2, <2>3, ScalarFrom
  <2> QED
    BY <2>6 DEF e
<1>4. CASE field.kind = "u16" /\ v \in Counts
  <2>1. e = PutU16(v)
    BY <1>4, ScalarCases
  <2>2. \A b : GetScalar(field, b) = GetU16(b)
    BY <1>4, GetterCases
  <2>3. /\ e \in Bytes
        /\ \A rest \in Bytes : GetU16(e \o rest) = Read(v, rest)
        /\ \A m \in 0..Len(e) - 1 : GetU16(SubSeq(e, 1, m)) = Short
    BY <1>4, <2>1, HalfBytes, U16Decodes
  <2> HIDE DEF e
  <2>6. Decodes(ScalarReader(field), e, v)
    BY <2>2, <2>3, ScalarFrom
  <2> QED
    BY <2>6 DEF e
<1>5. CASE field.kind = "u32" /\ v \in Int32
  <2>1. e = PutU32(v)
    BY <1>5, ScalarCases
  <2>2. \A b : GetScalar(field, b) = GetU32(b)
    BY <1>5, GetterCases
  <2>3. /\ e \in Bytes
        /\ \A rest \in Bytes : GetU32(e \o rest) = Read(v, rest)
        /\ \A m \in 0..Len(e) - 1 : GetU32(SubSeq(e, 1, m)) = Short
    BY <1>5, <2>1, WholeBytes, U32Decodes
  <2> HIDE DEF e
  <2>6. Decodes(ScalarReader(field), e, v)
    BY <2>2, <2>3, ScalarFrom
  <2> QED
    BY <2>6 DEF e
<1>6. CASE field.kind = "u64" /\ v = <<v[1], v[2]>> /\ v[1] \in Int32 /\ v[2] \in Int32
  <2>1. e = PutU32(v[1]) \o PutU32(v[2])
    BY <1>6, ScalarCases
  <2>2. \A b : GetScalar(field, b) = GetU64(b)
    BY <1>6, GetterCases
  <2>4. PICK x \in Int32, y \in Int32 : v = <<x, y>> /\ e = PutU32(x) \o PutU32(y)
    BY <1>6, <2>1
  <2> HIDE DEF e
  <2>3. /\ e \in Bytes
        /\ \A rest \in Bytes : GetU64(e \o rest) = Read(v, rest)
        /\ \A m \in 0..Len(e) - 1 : GetU64(SubSeq(e, 1, m)) = Short
    BY <2>4, U64Decodes
  <2>6. Decodes(ScalarReader(field), e, v)
    BY <2>2, <2>3, ScalarFrom
  <2> QED
    BY <2>6 DEF e
<1>7. CASE field.kind = "string" /\ v \in Bytes /\ Len(v) \in Counts
  <2>1. e = PutU16(Len(v)) \o v
    BY <1>7, ScalarCases
  <2>2. \A b : GetScalar(field, b) = GetString(b)
    BY <1>7, GetterCases
  <2>3. /\ e \in Bytes
        /\ \A rest \in Bytes : GetString(e \o rest) = Read(v, rest)
        /\ \A m \in 0..Len(e) - 1 : GetString(SubSeq(e, 1, m)) = Short
    BY <1>7, <2>1, StringDecodes
  <2> HIDE DEF e
  <2>6. Decodes(ScalarReader(field), e, v)
    BY <2>2, <2>3, ScalarFrom
  <2> QED
    BY <2>6 DEF e
<1> QED
  BY <1>1, <1>2, <1>3, <1>4, <1>5, <1>6, <1>7 DEF FitsScalar
-----------------------------------------------------------------------------
\* Fields in a row.
LEMMA RowDecodes ==
    ASSUME NEW layout, IsSequence(layout), NEW readers, NEW es, NEW vs,
           readers = [i \in DOMAIN layout |-> readers[i]],
           es = [i \in DOMAIN layout |-> es[i]],
           IsSequence(vs), Len(vs) = Len(layout),
           \A i \in 1..Len(layout) : Decodes(readers[i], es[i], vs[i])
    PROVE  Decodes([bytes \in Bytes |-> GetEach(readers, bytes)], FlattenSeq(es), vs)
<1> DEFINE n == Len(layout)
           r == [bytes \in Bytes |-> GetEach(readers, bytes)]
           e == FlattenSeq(es)
<1>1. n \in Nat /\ DOMAIN layout = 1..n
  BY DEF IsSequence
<1>2. readers = [i \in 1..n |-> readers[i]] /\ es = [i \in 1..n |-> es[i]]
  BY <1>1
<1>3. Len(readers) = n /\ Len(es) = n
  <2> HIDE DEF n
  <2> QED
    BY <1>1, <1>2
<1>4. IsSequence(es)
  BY <1>1, <1>2, <1>3 DEF IsSequence
<1>5. EachDecodes(readers, e, vs)
  BY <1>1, <1>3, <1>4, EachReads
<1> HIDE DEF e
<1>6. \A b \in Bytes : r[b] = GetEach(readers, b)
  OBVIOUS
<1>7. e \in Bytes /\ (\A rest \in Bytes : e \o rest \in Bytes)
  BY <1>5, InARow DEF EachDecodes
<1>8. ASSUME NEW m \in 0..Len(e) - 1 PROVE SubSeq(e, 1, m) \in Bytes
  <2>1. m \in 0..Len(e)
    BY <1>7, InARow
  <2> QED
    BY <1>7, <2>1, Beginning DEF Bytes
<1> HIDE DEF r
<1>9. Decodes(r, e, vs)
  BY <1>5, <1>6, <1>7, <1>8 DEF Decodes, EachDecodes
<1> QED
  BY <1>9 DEF r, e

\* Rows of the same layout.
LEMMA RowsDecode ==
    ASSUME NEW row, NEW es, NEW rs, IsSequence(rs),
           es = [i \in DOMAIN rs |-> es[i]],
           \A i \in 1..Len(rs) : Decodes(row, es[i], rs[i])
    PROVE  EachDecodes([i \in 1..Len(rs) |-> row], FlattenSeq(es), rs)
<1> DEFINE n == Len(rs)
           readers == [i \in 1..n |-> row]
<1>1. n \in Nat /\ DOMAIN rs = 1..n
  BY DEF IsSequence
<1>2. es = [i \in 1..n |-> es[i]]
  BY <1>1
<1>3. Len(readers) = n /\ Len(es) = n /\ \A i \in 1..n : readers[i] = row
  <2> HIDE DEF n
  <2> QED
    BY <1>1, <1>2
<1>4. IsSequence(es)
  BY <1>1, <1>2, <1>3 DEF IsSequence
<1> HIDE DEF readers
<1>5. \A i \in 1..Len(readers) : Decodes(readers[i], es[i], rs[i])
  BY <1>3
<1>6. EachDecodes(readers, FlattenSeq(es), rs)
  BY <1>1, <1>3, <1>4, <1>5, EachReads
<1> QED
  BY <1>6 DEF readers

-----------------------------------------------------------------------------
\* A reader that reads a head, then what the head says how often.
Follows(r, head, h, readers, vs, v) ==
    /\ \A b \in Bytes : head[b] = Short => r[b] = Short
    /\ \A b, rest \in Bytes : head[b] = Read(h, rest) /\ GetEach(readers, rest) = Short => r[b] = Short
    /\ \A b, rest, left \in Bytes :
         head[b] = Read(h, rest) /\ GetEach(readers, rest) = Read(vs, left) => r[b] = Read(v, left)

\* It reads both back.
LEMMA FollowDecodes ==
    ASSUME NEW r, NEW head, NEW h, NEW readers, NEW vs, NEW v, NEW x, NEW e,
           Follows(r, head, h, readers, vs, v), Decodes(head, x, h), EachDecodes(readers, e, vs)
    PROVE  Decodes(r, x \o e, v)
<1>1. x \in Bytes /\ e \in Bytes
  BY DEF Decodes, EachDecodes
<1>2. x \o e \in Bytes /\ Len(x \o e) = Len(x) + Len(e) /\ Len(x) \in Nat /\ Len(e) \in Nat
  BY <1>1, InARow
<1>3. ASSUME NEW rest \in Bytes PROVE r[(x \o e) \o rest] = Read(v, rest)
  <2>1. e \o rest \in Bytes /\ (x \o e) \o rest \in Bytes /\ (x \o e) \o rest = x \o (e \o rest)
    BY <1>1, <1>2, InARow, ConcatAssociative DEF Bytes
  <2>2. head[(x \o e) \o rest] = Read(h, e \o rest)
    BY <2>1 DEF Decodes
  <2>3. GetEach(readers, e \o rest) = Read(vs, rest)
    BY DEF EachDecodes
  <2> QED
    BY <2>1, <2>2, <2>3 DEF Follows
<1>4. ASSUME NEW n \in 0..Len(x \o e) - 1 PROVE r[SubSeq(x \o e, 1, n)] = Short
  <2>0. n \in 0..Len(x \o e)
    BY <1>2
  <2>1. SubSeq(x \o e, 1, n) \in Bytes
    BY <1>2, <2>0, Beginning DEF Bytes
  <2>2. CASE n < Len(x)
    <3>1. n \in 0..Len(x) - 1 /\ n \in 0..Len(x)
      BY <1>2, <2>2
    <3>2. SubSeq(x \o e, 1, n) = SubSeq(x, 1, n)
      BY <1>1, <3>1, CutFirst DEF Bytes
    <3>3. head[SubSeq(x \o e, 1, n)] = Short
      BY <3>1, <3>2 DEF Decodes
    <3> QED
      BY <2>1, <3>3 DEF Follows
  <2>3. CASE n >= Len(x)
    <3>1. PICK j \in 0..Len(e) - 1 : n = Len(x) + j
      <4>1. n - Len(x) \in 0..Len(e) - 1 /\ n = Len(x) + (n - Len(x))
        BY <1>2, <2>3
      <4> QED
        BY <4>1
    <3>2. j \in 0..Len(e)
      BY <1>2
    <3>3. SubSeq(x \o e, 1, n) = x \o SubSeq(e, 1, j) /\ SubSeq(e, 1, j) \in Bytes
      BY <1>1, <3>1, <3>2, CutSecond, Beginning DEF Bytes
    <3>4. head[SubSeq(x \o e, 1, n)] = Read(h, SubSeq(e, 1, j))
      BY <3>3 DEF Decodes
    <3>5. GetEach(readers, SubSeq(e, 1, j)) = Short
      BY <3>1 DEF EachDecodes
    <3> QED
      BY <2>1, <3>3, <3>4, <3>5 DEF Follows
  <2> QED
    BY <1>2, <2>2, <2>3
<1> QED
  BY <1>2, <1>3, <1>4 DEF Decodes

\* A list.
LEMMA ListDecodes ==
    ASSUME NEW length, NEW row, NEW x, NEW es, NEW rs, IsSequence(rs),
           es = [i \in DOMAIN rs |-> es[i]],
           Decodes(length, x, Len(rs)),
           \A i \in 1..Len(rs) : Decodes(row, es[i], rs[i])
    PROVE  Decodes(ListReader(length, row), x \o FlattenSeq(es), rs)
<1> DEFINE r == ListReader(length, row)
           readers == [i \in 1..Len(rs) |-> row]
<1>1. EachDecodes(readers, FlattenSeq(es), rs)
  BY RowsDecode
<1>2. \A b \in Bytes : r[b] = IF length[b].status = "whole"
                              THEN GetEach([i \in 1..length[b].value |-> row], length[b].rest)
                              ELSE length[b]
  BY DEF ListReader
<1>3. Short.status # "whole"
  BY DEF Short
<1> HIDE DEF r
<1>4. \A b \in Bytes : length[b] = Short => r[b] = Short
  BY <1>2, <1>3
<1>5. ASSUME NEW b \in Bytes, NEW rest \in Bytes, length[b] = Read(Len(rs), rest)
      PROVE  r[b] = GetEach(readers, rest)
  <2>1. length[b].status = "whole" /\ length[b].value = Len(rs) /\ length[b].rest = rest
    BY <1>5, ReadIs
  <2> QED
    BY <1>2, <2>1
<1> HIDE DEF readers
<1>6. Follows(r, length, Len(rs), readers, rs, rs)
  BY <1>4, <1>5 DEF Follows
<1>7. Decodes(r, x \o FlattenSeq(es), rs)
  BY <1>1, <1>6, FollowDecodes
<1> QED
  BY <1>7 DEF r

\* The sides of a grid.
LEMMA SidesDecode ==
    ASSUME NEW w \in Counts, NEW h \in Counts
    PROVE  Decodes(SidesReader, PutU16(w) \o PutU16(h), <<w, h>>)
<1> DEFINE layout == <<U16, U16>>
           readers == <<ScalarReader(U16), ScalarReader(U16)>>
           es == <<PutU16(w), PutU16(h)>>
           vs == <<w, h>>
<1>1. IsSequence(layout) /\ Len(layout) = 2 /\ DOMAIN layout = 1..2
      /\ IsSequence(vs) /\ Len(vs) = 2
  BY DEF IsSequence
<1>2. readers = [i \in 1..2 |-> readers[i]] /\ es = [i \in 1..2 |-> es[i]]
  OBVIOUS
<1>3. /\ FitsScalar(U16, w) /\ FitsScalar(U16, h)
      /\ PutScalar(U16, w) = PutU16(w) /\ PutScalar(U16, h) = PutU16(h)
  BY DEF FitsScalar, U16, PutScalar
<1>4. Decodes(ScalarReader(U16), PutU16(w), w) /\ Decodes(ScalarReader(U16), PutU16(h), h)
  BY <1>3, ScalarDecodes
<1>5. \A i \in 1..2 : Decodes(readers[i], es[i], vs[i])
  BY <1>4
<1>6. FlattenSeq(es) = PutU16(w) \o PutU16(h)
  <2>1. PutU16(w) \in Bytes /\ PutU16(h) \in Bytes
    BY HalfBytes
  <2>2. Len(es) = 2 /\ IsSequence(es) /\ \A i \in 1..2 : es[i] \in Bytes
    BY <2>1 DEF IsSequence
  <2>3. es[1] = PutU16(w) /\ es[2] = PutU16(h)
    OBVIOUS
  <2> HIDE DEF es
  <2>4. Len(es) \in Nat /\ \A i \in 1..Len(es) : es[i] \in Bytes
    BY <2>2
  <2>5. 0 \in 0..Len(es) - 1 /\ 1 \in 0..Len(es) - 1 /\ 0 \in 0..Len(es) /\ 1 \in 0..Len(es)
    BY <2>2
  <2>6. /\ Flat(es, 0) = <<>> /\ FlattenSeq(es) = Flat(es, Len(es))
        /\ Flat(es, 0) \in Bytes /\ Flat(es, 1) \in Bytes
        /\ Flat(es, 0 + 1) = Flat(es, 0) \o es[0 + 1] /\ Flat(es, 1 + 1) = Flat(es, 1) \o es[1 + 1]
    BY <2>2, <2>4, <2>5, FlatStep
  <2>7. <<>> \o es[1] = es[1]
    BY <2>1, <2>3, ConcatEmptySeq DEF Bytes
  <2>8. 0 + 1 = 1 /\ 1 + 1 = 2
    OBVIOUS
  <2>9. Flat(es, 1) = es[1] /\ Flat(es, 2) = Flat(es, 1) \o es[2]
    BY <2>6, <2>7, <2>8
  <2>10. FlattenSeq(es) = Flat(es, 2)
    BY <2>2, <2>6
  <2> QED
    BY <2>3, <2>9, <2>10
<1>7. SidesReader = [bytes \in Bytes |-> GetEach(readers, bytes)]
  BY DEF SidesReader
<1> HIDE DEF layout, readers, es, vs
<1>8. /\ readers = [i \in DOMAIN layout |-> readers[i]] /\ es = [i \in DOMAIN layout |-> es[i]]
      /\ \A i \in 1..Len(layout) : Decodes(readers[i], es[i], vs[i])
      /\ Len(vs) = Len(layout)
  BY <1>1, <1>2, <1>5
<1>9. Decodes([bytes \in Bytes |-> GetEach(readers, bytes)], FlattenSeq(es), vs)
  BY <1>1, <1>8, RowDecodes
<1> QED
  BY <1>6, <1>7, <1>9 DEF vs

\* A grid.
LEMMA GridDecodes ==
    ASSUME NEW cell, NEW es, NEW v, IsSequence(v.cells),
           v = [width |-> v.width, height |-> v.height, cells |-> v.cells],
           v.width \in Counts, v.height \in Counts, Len(v.cells) = v.width * v.height,
           es = [i \in DOMAIN v.cells |-> es[i]],
           \A i \in 1..Len(v.cells) : Decodes(cell, es[i], v.cells[i])
    PROVE  Decodes(GridReader(cell), (PutU16(v.width) \o PutU16(v.height)) \o FlattenSeq(es), v)
<1> DEFINE r == GridReader(cell)
           h == <<v.width, v.height>>
           readers == [i \in 1..Len(v.cells) |-> cell]
           grid(b) == GetEach([i \in 1..(SidesReader[b].value[1] * SidesReader[b].value[2]) |-> cell],
                              SidesReader[b].rest)
<1>1. EachDecodes(readers, FlattenSeq(es), v.cells)
  BY RowsDecode
<1>2. Decodes(SidesReader, PutU16(v.width) \o PutU16(v.height), h)
  BY SidesDecode
<1>3. \A b \in Bytes :
        r[b] = IF SidesReader[b].status # "whole" THEN SidesReader[b]
               ELSE IF grid(b).status # "whole" THEN grid(b)
               ELSE Read([width |-> SidesReader[b].value[1], height |-> SidesReader[b].value[2],
                          cells |-> grid(b).value], grid(b).rest)
  BY DEF GridReader
<1>4. Short.status # "whole"
  BY DEF Short
<1> HIDE DEF r
<1>5. \A b \in Bytes : SidesReader[b] = Short => r[b] = Short
  BY <1>3, <1>4
<1>6. ASSUME NEW b \in Bytes, NEW rest \in Bytes, SidesReader[b] = Read(h, rest)
      PROVE  /\ SidesReader[b].status = "whole" /\ SidesReader[b].value[1] = v.width
             /\ SidesReader[b].value[2] = v.height /\ grid(b) = GetEach(readers, rest)
  <2>1. SidesReader[b].status = "whole" /\ SidesReader[b].value = h /\ SidesReader[b].rest = rest
    <3> HIDE DEF h
    <3> QED
      BY <1>6, ReadIs
  <2>2. SidesReader[b].value[1] = v.width /\ SidesReader[b].value[2] = v.height
    BY <2>1
  <2> QED
    BY <2>1, <2>2
<1> HIDE DEF readers, h, grid
<1>7. ASSUME NEW b \in Bytes, NEW rest \in Bytes, SidesReader[b] = Read(h, rest),
             GetEach(readers, rest) = Short
      PROVE  r[b] = Short
  BY <1>3, <1>4, <1>6, <1>7
<1>8. ASSUME NEW b \in Bytes, NEW rest \in Bytes, NEW left \in Bytes, SidesReader[b] = Read(h, rest),
             GetEach(readers, rest) = Read(v.cells, left)
      PROVE  r[b] = Read(v, left)
  <2>1. grid(b).status = "whole" /\ grid(b).value = v.cells /\ grid(b).rest = left
    BY <1>6, <1>8, ReadIs
  <2>2. /\ SidesReader[b].status = "whole" /\ SidesReader[b].value[1] = v.width
        /\ SidesReader[b].value[2] = v.height
    BY <1>6, <1>8
  <2>3. r[b] = Read([width |-> v.width, height |-> v.height, cells |-> v.cells], left)
    BY <1>3, <2>1, <2>2
  <2> QED
    BY <2>3
<1>9. Follows(r, SidesReader, h, readers, v.cells, v)
  BY <1>5, <1>7, <1>8 DEF Follows
<1>10. Decodes(r, (PutU16(v.width) \o PutU16(v.height)) \o FlattenSeq(es), v)
  BY <1>1, <1>2, <1>9, FollowDecodes
<1> QED
  BY <1>10 DEF r
-----------------------------------------------------------------------------
\* From the inside out: rs whose fields have no rows of their own,
LEMMA RowOfScalars ==
    ASSUME NEW layout, NEW values, FitsRow(FitsScalar, layout, values)
    PROVE  Decodes(RowReader(ScalarReader, layout), PutRow(PutScalar, layout, values), values)
<1> DEFINE readers == [i \in DOMAIN layout |-> ScalarReader(layout[i])]
           es == [i \in DOMAIN layout |-> PutScalar(layout[i], values[i])]
<1>1. /\ IsSequence(layout) /\ IsSequence(values) /\ Len(values) = Len(layout)
  BY DEF FitsRow
<1>0. \A i \in 1..Len(layout) : FitsScalar(layout[i], values[i])
  BY DEF FitsRow
<1>2. DOMAIN layout = 1..Len(layout)
  BY <1>1 DEF IsSequence
<1>3. ASSUME NEW i \in 1..Len(layout) PROVE Decodes(readers[i], es[i], values[i])
  BY <1>0, <1>1, <1>2, ScalarDecodes
<1>4. readers = [i \in DOMAIN layout |-> readers[i]] /\ es = [i \in DOMAIN layout |-> es[i]]
  OBVIOUS
<1>5. /\ RowReader(ScalarReader, layout) = [bytes \in Bytes |-> GetEach(readers, bytes)]
      /\ PutRow(PutScalar, layout, values) = FlattenSeq(es)
  BY DEF RowReader, PutRow
<1> HIDE DEF readers, es
<1>6. Decodes([bytes \in Bytes |-> GetEach(readers, bytes)], FlattenSeq(es), values)
  BY <1>1, <1>3, <1>4, RowDecodes
<1> QED
  BY <1>5, <1>6

\* fields with such rows,
LEMMA SimpleDecodes ==
    ASSUME NEW field, NEW v, FitsSimple(field, v)
    PROVE  Decodes(SimpleReader(field), PutSimple(field, v), v)
<1> DEFINE es(rs) == [i \in DOMAIN rs |-> PutRow(PutScalar, field.layout, rs[i])]
           row == RowReader(ScalarReader, field.layout)
<1>1. ASSUME NEW rs, FitsRows(FitsScalar, field.layout, rs)
      PROVE  /\ IsSequence(rs) /\ es(rs) = [i \in DOMAIN rs |-> es(rs)[i]]
             /\ \A i \in 1..Len(rs) : Decodes(row, es(rs)[i], rs[i])
             /\ PutRows(PutScalar, field.layout, rs) = FlattenSeq(es(rs))
  <2>1. IsSequence(rs) /\ \A i \in 1..Len(rs) : FitsRow(FitsScalar, field.layout, rs[i])
    BY <1>1 DEF FitsRows
  <2>2. DOMAIN rs = 1..Len(rs)
    BY <2>1 DEF IsSequence
  <2>3. ASSUME NEW i \in 1..Len(rs) PROVE Decodes(row, es(rs)[i], rs[i])
    BY <2>1, <2>2, RowOfScalars
  <2>4. PutRows(PutScalar, field.layout, rs) = FlattenSeq(es(rs))
    BY DEF PutRows
  <2> QED
    BY <2>1, <2>3, <2>4
<1>2. CASE /\ field.kind = "list" /\ field.length \in {U8, U16} /\ FitsScalar(field.length, Len(v))
           /\ FitsRows(FitsScalar, field.layout, v)
  <2>1. Decodes(ScalarReader(field.length), PutScalar(field.length, Len(v)), Len(v))
    BY <1>2, ScalarDecodes
  <2>2. /\ IsSequence(v) /\ es(v) = [i \in DOMAIN v |-> es(v)[i]]
        /\ \A i \in 1..Len(v) : Decodes(row, es(v)[i], v[i])
    BY <1>1, <1>2
  <2>3. PutRows(PutScalar, field.layout, v) = FlattenSeq(es(v))
    BY <1>1, <1>2
  <2>4. /\ SimpleReader(field) = ListReader(ScalarReader(field.length), row)
        /\ PutSimple(field, v) = PutScalar(field.length, Len(v)) \o FlattenSeq(es(v))
    BY <1>2, <2>3 DEF SimpleReader, FieldReader, PutSimple, PutField
  <2> HIDE DEF es, row
  <2>5. Decodes(ListReader(ScalarReader(field.length), row), PutScalar(field.length, Len(v)) \o FlattenSeq(es(v)), v)
    BY <2>1, <2>2, ListDecodes
  <2> QED
    BY <2>4, <2>5
<1>3. CASE /\ field.kind = "grid" /\ v = [width |-> v.width, height |-> v.height, cells |-> v.cells]
           /\ v.width \in Counts /\ v.height \in Counts /\ Len(v.cells) = v.width * v.height
           /\ FitsRows(FitsScalar, field.layout, v.cells)
  <2>1. /\ IsSequence(v.cells) /\ es(v.cells) = [i \in DOMAIN v.cells |-> es(v.cells)[i]]
        /\ \A i \in 1..Len(v.cells) : Decodes(row, es(v.cells)[i], v.cells[i])
    BY <1>1, <1>3
  <2>2. PutRows(PutScalar, field.layout, v.cells) = FlattenSeq(es(v.cells))
    BY <1>1, <1>3
  <2>3. PutU16(v.width) \in Bytes /\ PutU16(v.height) \in Bytes /\ FlattenSeq(es(v.cells)) \in Bytes
    <3>1. EachDecodes([i \in 1..Len(v.cells) |-> row], FlattenSeq(es(v.cells)), v.cells)
      <4> HIDE DEF es, row
      <4> QED
        BY <2>1, RowsDecode
    <3> QED
      BY <1>3, <3>1, HalfBytes DEF EachDecodes
  <2>4. /\ SimpleReader(field) = GridReader(row)
        /\ PutSimple(field, v) = PutU16(v.width) \o PutU16(v.height) \o FlattenSeq(es(v.cells))
    BY <1>3, <2>2 DEF SimpleReader, FieldReader, PutSimple, PutField
  <2> HIDE DEF es, row
  <2>5. PutU16(v.width) \o PutU16(v.height) \o FlattenSeq(es(v.cells))
          = (PutU16(v.width) \o PutU16(v.height)) \o FlattenSeq(es(v.cells))
    BY <2>3, ConcatAssociative DEF Bytes
  <2>6. Decodes(GridReader(row), (PutU16(v.width) \o PutU16(v.height)) \o FlattenSeq(es(v.cells)), v)
    BY <1>3, <2>1, GridDecodes
  <2> QED
    BY <2>4, <2>5, <2>6
<1>4. CASE FitsScalar(field, v)
  <2>1. field.kind \notin {"list", "grid"}
    BY <1>4 DEF FitsScalar
  <2>2. SimpleReader(field) = ScalarReader(field) /\ PutSimple(field, v) = PutScalar(field, v)
    BY <2>1 DEF SimpleReader, FieldReader, PutSimple, PutField
  <2> QED
    BY <1>4, <2>2, ScalarDecodes
<1> QED
  BY <1>2, <1>3, <1>4 DEF FitsSimple, FitsField

\* rows of those,
LEMMA RowOfSimple ==
    ASSUME NEW layout, NEW values, FitsRow(FitsSimple, layout, values)
    PROVE  Decodes(RowReader(SimpleReader, layout), PutRow(PutSimple, layout, values), values)
<1> DEFINE readers == [i \in DOMAIN layout |-> SimpleReader(layout[i])]
           es == [i \in DOMAIN layout |-> PutSimple(layout[i], values[i])]
<1>1. /\ IsSequence(layout) /\ IsSequence(values) /\ Len(values) = Len(layout)
  BY DEF FitsRow
<1>0. \A i \in 1..Len(layout) : FitsSimple(layout[i], values[i])
  BY DEF FitsRow
<1>2. DOMAIN layout = 1..Len(layout)
  BY <1>1 DEF IsSequence
<1>3. ASSUME NEW i \in 1..Len(layout) PROVE Decodes(readers[i], es[i], values[i])
  BY <1>0, <1>1, <1>2, SimpleDecodes
<1>4. readers = [i \in DOMAIN layout |-> readers[i]] /\ es = [i \in DOMAIN layout |-> es[i]]
  OBVIOUS
<1>5. /\ RowReader(SimpleReader, layout) = [bytes \in Bytes |-> GetEach(readers, bytes)]
      /\ PutRow(PutSimple, layout, values) = FlattenSeq(es)
  BY DEF RowReader, PutRow
<1> HIDE DEF readers, es
<1>6. Decodes([bytes \in Bytes |-> GetEach(readers, bytes)], FlattenSeq(es), values)
  BY <1>1, <1>3, <1>4, RowDecodes
<1> QED
  BY <1>5, <1>6

\* fields of a message,
LEMMA NestedDecodes ==
    ASSUME NEW field, NEW v, FitsNested(field, v)
    PROVE  Decodes(NestedReader(field), PutNested(field, v), v)
<1> DEFINE es(rs) == [i \in DOMAIN rs |-> PutRow(PutSimple, field.layout, rs[i])]
           row == RowReader(SimpleReader, field.layout)
<1>1. ASSUME NEW rs, FitsRows(FitsSimple, field.layout, rs)
      PROVE  /\ IsSequence(rs) /\ es(rs) = [i \in DOMAIN rs |-> es(rs)[i]]
             /\ \A i \in 1..Len(rs) : Decodes(row, es(rs)[i], rs[i])
             /\ PutRows(PutSimple, field.layout, rs) = FlattenSeq(es(rs))
  <2>1. IsSequence(rs) /\ \A i \in 1..Len(rs) : FitsRow(FitsSimple, field.layout, rs[i])
    BY <1>1 DEF FitsRows
  <2>2. DOMAIN rs = 1..Len(rs)
    BY <2>1 DEF IsSequence
  <2>3. ASSUME NEW i \in 1..Len(rs) PROVE Decodes(row, es(rs)[i], rs[i])
    BY <2>1, <2>2, RowOfSimple
  <2>4. PutRows(PutSimple, field.layout, rs) = FlattenSeq(es(rs))
    BY DEF PutRows
  <2> QED
    BY <2>1, <2>3, <2>4
<1>2. CASE /\ field.kind = "list" /\ field.length \in {U8, U16} /\ FitsScalar(field.length, Len(v))
           /\ FitsRows(FitsSimple, field.layout, v)
  <2>1. Decodes(ScalarReader(field.length), PutScalar(field.length, Len(v)), Len(v))
    BY <1>2, ScalarDecodes
  <2>2. /\ IsSequence(v) /\ es(v) = [i \in DOMAIN v |-> es(v)[i]]
        /\ \A i \in 1..Len(v) : Decodes(row, es(v)[i], v[i])
    BY <1>1, <1>2
  <2>3. PutRows(PutSimple, field.layout, v) = FlattenSeq(es(v))
    BY <1>1, <1>2
  <2>4. /\ NestedReader(field) = ListReader(ScalarReader(field.length), row)
        /\ PutNested(field, v) = PutScalar(field.length, Len(v)) \o FlattenSeq(es(v))
    BY <1>2, <2>3 DEF NestedReader, FieldReader, PutNested, PutField
  <2> HIDE DEF es, row
  <2>5. Decodes(ListReader(ScalarReader(field.length), row), PutScalar(field.length, Len(v)) \o FlattenSeq(es(v)), v)
    BY <2>1, <2>2, ListDecodes
  <2> QED
    BY <2>4, <2>5
<1>3. CASE /\ field.kind = "grid" /\ v = [width |-> v.width, height |-> v.height, cells |-> v.cells]
           /\ v.width \in Counts /\ v.height \in Counts /\ Len(v.cells) = v.width * v.height
           /\ FitsRows(FitsSimple, field.layout, v.cells)
  <2>1. /\ IsSequence(v.cells) /\ es(v.cells) = [i \in DOMAIN v.cells |-> es(v.cells)[i]]
        /\ \A i \in 1..Len(v.cells) : Decodes(row, es(v.cells)[i], v.cells[i])
    BY <1>1, <1>3
  <2>2. PutRows(PutSimple, field.layout, v.cells) = FlattenSeq(es(v.cells))
    BY <1>1, <1>3
  <2>3. PutU16(v.width) \in Bytes /\ PutU16(v.height) \in Bytes /\ FlattenSeq(es(v.cells)) \in Bytes
    <3>1. EachDecodes([i \in 1..Len(v.cells) |-> row], FlattenSeq(es(v.cells)), v.cells)
      <4> HIDE DEF es, row
      <4> QED
        BY <2>1, RowsDecode
    <3> QED
      BY <1>3, <3>1, HalfBytes DEF EachDecodes
  <2>4. /\ NestedReader(field) = GridReader(row)
        /\ PutNested(field, v) = PutU16(v.width) \o PutU16(v.height) \o FlattenSeq(es(v.cells))
    BY <1>3, <2>2 DEF NestedReader, FieldReader, PutNested, PutField
  <2> HIDE DEF es, row
  <2>5. PutU16(v.width) \o PutU16(v.height) \o FlattenSeq(es(v.cells))
          = (PutU16(v.width) \o PutU16(v.height)) \o FlattenSeq(es(v.cells))
    BY <2>3, ConcatAssociative DEF Bytes
  <2>6. Decodes(GridReader(row), (PutU16(v.width) \o PutU16(v.height)) \o FlattenSeq(es(v.cells)), v)
    BY <1>3, <2>1, GridDecodes
  <2> QED
    BY <2>4, <2>5, <2>6
<1>4. CASE FitsScalar(field, v)
  <2>1. field.kind \notin {"list", "grid"}
    BY <1>4 DEF FitsScalar
  <2>2. NestedReader(field) = ScalarReader(field) /\ PutNested(field, v) = PutScalar(field, v)
    BY <2>1 DEF NestedReader, FieldReader, PutNested, PutField
  <2> QED
    BY <1>4, <2>2, ScalarDecodes
<1> QED
  BY <1>2, <1>3, <1>4 DEF FitsNested, FitsField

\* and messages.
LEMMA RowOfNested ==
    ASSUME NEW layout, NEW values, FitsRow(FitsNested, layout, values)
    PROVE  Decodes(RowReader(NestedReader, layout), PutRow(PutNested, layout, values), values)
<1> DEFINE readers == [i \in DOMAIN layout |-> NestedReader(layout[i])]
           es == [i \in DOMAIN layout |-> PutNested(layout[i], values[i])]
<1>1. /\ IsSequence(layout) /\ IsSequence(values) /\ Len(values) = Len(layout)
  BY DEF FitsRow
<1>0. \A i \in 1..Len(layout) : FitsNested(layout[i], values[i])
  BY DEF FitsRow
<1>2. DOMAIN layout = 1..Len(layout)
  BY <1>1 DEF IsSequence
<1>3. ASSUME NEW i \in 1..Len(layout) PROVE Decodes(readers[i], es[i], values[i])
  BY <1>0, <1>1, <1>2, NestedDecodes
<1>4. readers = [i \in DOMAIN layout |-> readers[i]] /\ es = [i \in DOMAIN layout |-> es[i]]
  OBVIOUS
<1>5. /\ RowReader(NestedReader, layout) = [bytes \in Bytes |-> GetEach(readers, bytes)]
      /\ PutRow(PutNested, layout, values) = FlattenSeq(es)
  BY DEF RowReader, PutRow
<1> HIDE DEF readers, es
<1>6. Decodes([bytes \in Bytes |-> GetEach(readers, bytes)], FlattenSeq(es), values)
  BY <1>1, <1>3, <1>4, RowDecodes
<1> QED
  BY <1>5, <1>6

\* Whole and only when whole: whatever the layout and whatever values it can hold, the
\* reader of the layout gives back what Put was given, with the bytes that follow left
\* on the stream, and of any part of the bytes it says that they are not all there.
THEOREM LayoutsDecode ==
    ASSUME NEW layout, NEW values, Fits(layout, values)
    PROVE  /\ Put(layout, values) \in Bytes
           /\ \A rest \in Bytes : Get(layout, Put(layout, values) \o rest) = Read(values, rest)
           /\ \A n \in 0..Len(Put(layout, values)) - 1 : Get(layout, SubSeq(Put(layout, values), 1, n)) = Short
<1>1. Decodes(RowReader(NestedReader, layout), Put(layout, values), values)
  BY RowOfNested DEF Fits, Put
<1>2. \A b : Get(layout, b) = RowReader(NestedReader, layout)[b]
  BY DEF Get
<1> QED
  BY <1>1, <1>2 DEF Decodes
-----------------------------------------------------------------------------
\* What can be read back, whole and only when whole.
ReadsAs(bytes, layout, values) ==
    /\ bytes \in Bytes
    /\ \A rest \in Bytes : Get(layout, bytes \o rest) = Read(values, rest)
    /\ \A n \in 0..Len(bytes) - 1 : Get(layout, SubSeq(bytes, 1, n)) = Short

\* A message that one end writes by the layouts of sent and the other reads by those of
\* taken.
Carries(sent, taken, m) ==
    /\ m.op \in Byte /\ m.op \in DOMAIN taken
    /\ ReadsAs(Put(sent[m.op], m.payload), taken[m.op], m.payload)

\* One byte is put for an enumerator as for a number, and the reader of an enumeration of
\* four takes the first four.
Narrows(layout, narrow, values) ==
    /\ IsSequence(layout) /\ IsSequence(narrow) /\ Len(narrow) = Len(layout)
    /\ \A i \in 1..Len(layout) : layout[i] = U8 /\ narrow[i] = UpTo(3) /\ values[i] <= 3

\* A reader of enumerations reads what was put as bytes, if the bytes are small enough.
LEMMA NarrowDecodes ==
    ASSUME NEW layout, NEW narrow, NEW values, Fits(layout, values), Narrows(layout, narrow, values)
    PROVE  ReadsAs(Put(layout, values), narrow, values)
<1>1. /\ IsSequence(layout) /\ IsSequence(narrow) /\ Len(narrow) = Len(layout)
      /\ IsSequence(values) /\ Len(values) = Len(layout)
  BY DEF Fits, FitsRow, Narrows
<1>2. DOMAIN layout = 1..Len(layout) /\ DOMAIN narrow = 1..Len(layout)
  BY <1>1 DEF IsSequence
<1>3. ASSUME NEW v, FitsNested(U8, v), v <= 3
      PROVE  FitsNested(UpTo(3), v) /\ PutNested(UpTo(3), v) = PutNested(U8, v)
  <2>1. U8.kind = "u8" /\ UpTo(3).kind = "upto" /\ UpTo(3).last = 3
    BY DEF U8, UpTo
  <2>2. FitsScalar(U8, v)
    BY <1>3, <2>1 DEF FitsNested, FitsField
  <2>3. v \in Byte
    BY <2>1, <2>2 DEF FitsScalar
  <2>4. v \in 0..3 /\ 3 \in Byte
    BY <1>3, <2>3, BytesAre, SMT
  <2>5. FitsScalar(UpTo(3), v)
    BY <2>1, <2>4 DEF FitsScalar
  <2>6. PutNested(U8, v) = <<v>> /\ PutNested(UpTo(3), v) = <<v>>
    BY <2>1 DEF PutNested, PutField, PutScalar
  <2> QED
    BY <2>5, <2>6 DEF FitsNested, FitsField
<1>4. \A i \in 1..Len(layout) : FitsNested(narrow[i], values[i])
  <2>1. \A i \in 1..Len(layout) : FitsNested(layout[i], values[i])
    BY DEF Fits, FitsRow
  <2>2. \A i \in 1..Len(layout) : layout[i] = U8 /\ narrow[i] = UpTo(3) /\ values[i] <= 3
    BY DEF Narrows
  <2> QED
    BY <1>3, <2>1, <2>2
<1>5. Fits(narrow, values)
  BY <1>1, <1>4 DEF Fits, FitsRow
<1>6. ASSUME NEW i \in 1..Len(layout)
      PROVE  PutNested(layout[i], values[i]) = PutNested(narrow[i], values[i])
  <2>1. FitsNested(layout[i], values[i])
    BY DEF Fits, FitsRow
  <2>2. layout[i] = U8 /\ narrow[i] = UpTo(3) /\ values[i] <= 3
    BY DEF Narrows
  <2> QED
    BY <1>3, <2>1, <2>2
<1>7. Put(narrow, values) = Put(layout, values)
  <2>1. [i \in DOMAIN narrow |-> PutNested(narrow[i], values[i])]
          = [i \in DOMAIN layout |-> PutNested(layout[i], values[i])]
    BY <1>2, <1>6
  <2> QED
    BY <2>1 DEF Put, PutRow
<1> QED
  BY <1>5, <1>7, LayoutsDecode DEF ReadsAs

\* The two texts of the protocol are the same table for all but the bytes of Race, Class
\* and Direction, which the server narrows.
LEMMA TablesAgree ==
    /\ DOMAIN Server!Requests = DOMAIN Client!Requests /\ DOMAIN Client!Updates = DOMAIN Server!Updates
    /\ \A op \in DOMAIN Client!Requests : op \notin {5, 16} => Server!Requests[op] = Client!Requests[op]
    /\ \A op \in DOMAIN Server!Updates : Client!Updates[op] = Server!Updates[op]
    /\ Client!Requests[5] = <<U8, U8>> /\ Server!Requests[5] = <<UpTo(3), UpTo(3)>>
    /\ Client!Requests[16] = <<U8>> /\ Server!Requests[16] = <<UpTo(3)>>
    /\ \A op \in DOMAIN Client!Requests : op \in Byte
    /\ \A op \in DOMAIN Server!Updates : op \in Byte
<1> DEFINE Asks == 1..5 \cup 16..25 \cup {32, 33, 254, 255}
           Says == 129..137 \cup 146..149 \cup 160..162 \cup {144, 176, 177, 192, 193, 238}
<1>1. DOMAIN Server!Requests = Asks /\ DOMAIN Client!Requests = Asks
  BY DEF Server!Requests, Client!Requests
<1>2. DOMAIN Client!Updates = Says /\ DOMAIN Server!Updates = Says
  BY DEF Server!Updates, Client!Updates
<1>3. (\A op \in Asks : op \in Byte) /\ (\A op \in Says : op \in Byte)
  BY BytesAre, SMT
<1>4. ASSUME NEW op \in Asks, op \notin {5, 16} PROVE Server!Requests[op] = Client!Requests[op]
  BY <1>4 DEF Server!Requests, Client!Requests,
     Server!RecvLogin, Server!RecvCreateMatch, Server!RecvJoinMatch, Server!RecvAttack,
     Server!RecvSlot, Server!RecvInteract, Server!RecvClan, Server!RecvCheat, Server!RecvChat,
     Server!RecvPrivateChat, Client!SendLogin, Client!SendCreateMatch, Client!SendJoinMatch,
     Client!SendAttack, Client!SendDropItem, Client!SendEquipItem, Client!SendInteract,
     Client!SendClanAction, Client!SendCheat, Client!SendChat, Client!SendPrivateChat,
     Server!Str, Client!Str, Server!U8, Client!U8, Server!U32, Client!U32, Server!I32, Client!I32
<1>5. ASSUME NEW op \in Says PROVE Client!Updates[op] = Server!Updates[op]
  BY DEF Server!Updates, Client!Updates,
     Server!SendLoginOk, Server!SendMatchList, Server!SendMatchCreated, Server!SendMatchJoined,
     Server!SendPlayerJoined, Server!SendPlayerLeft, Server!SendPlayerSpawned, Server!SendWorldMap,
     Server!SendAttacked, Server!SendDeath, Server!SendMeditate, Server!SendRevive,
     Server!SendInventory, Server!SendCatalog, Server!SendSnapshot, Server!SendMoved,
     Server!SendChatMsg, Server!SendSystemMsg, Server!SendNpcInteract, Server!SendClanResult,
     Server!SendClanReview, Server!SendError,
     Client!RecvLoginOk, Client!RecvMatchList, Client!RecvMatchCreated, Client!RecvMatchJoined,
     Client!RecvPlayerJoined, Client!RecvPlayerLeft, Client!RecvPlayerSpawned, Client!RecvWorldMap,
     Client!RecvAttacked, Client!RecvDeath, Client!RecvMeditate, Client!RecvRevive,
     Client!RecvInventory, Client!RecvCatalog, Client!RecvSnapshot, Client!RecvMoved,
     Client!RecvChatMsg, Client!RecvSystemMsg, Client!RecvNpcInteract, Client!RecvClanResult,
     Client!RecvClanReview, Client!RecvError,
     Server!Str, Client!Str, Server!U8, Client!U8, Server!U32, Client!U32, Server!I32, Client!I32,
     Server!U16, Client!U16, Server!U64, Client!U64, Server!Bool, Client!Bool,
     Server!ListOf, Client!ListOf, Server!GridOf, Client!GridOf
<1>6. /\ Client!Requests[5] = <<U8, U8>> /\ Server!Requests[5] = <<UpTo(3), UpTo(3)>>
      /\ Client!Requests[16] = <<U8>> /\ Server!Requests[16] = <<UpTo(3)>>
  BY DEF Server!Requests, Client!Requests, Client!SendSelectRaceClass, Client!SendMove,
     Server!RecvSelectRaceClass, Server!RecvMove, Server!UpTo, UpTo, Client!U8, U8
<1> QED
  BY <1>1, <1>2, <1>3, <1>4, <1>5, <1>6


\* A request is read as the client wrote it,
LEMMA RequestCarries ==
    ASSUME NEW m, FitsRequest(m)
    PROVE  Carries(Client!Requests, Server!Requests, m)
<1>1. m.op \in DOMAIN Client!Requests /\ Fits(Client!Requests[m.op], m.payload)
  BY DEF FitsRequest
<1>2. m.op \in Byte /\ m.op \in DOMAIN Server!Requests
  BY <1>1, TablesAgree
<1>3. CASE m.op \notin {5, 16}
  <2>1. Server!Requests[m.op] = Client!Requests[m.op]
    BY <1>1, <1>3, TablesAgree
  <2>2. ReadsAs(Put(Client!Requests[m.op], m.payload), Client!Requests[m.op], m.payload)
    BY <1>1, LayoutsDecode DEF ReadsAs
  <2> QED
    BY <1>2, <2>1, <2>2 DEF Carries
<1>4. CASE m.op \in {5, 16}
  <2>1. \A i \in DOMAIN m.payload : m.payload[i] <= 3
    BY <1>4 DEF FitsRequest
  <2>2. DOMAIN m.payload = 1..Len(Client!Requests[m.op])
    <3>1. IsSequence(m.payload) /\ Len(m.payload) = Len(Client!Requests[m.op])
      BY <1>1 DEF Fits, FitsRow
    <3> QED
      BY <3>1 DEF IsSequence
  <2>3. Narrows(Client!Requests[m.op], Server!Requests[m.op], m.payload)
    <3>1. CASE m.op = 5
      <4>1. Client!Requests[m.op] = <<U8, U8>> /\ Server!Requests[m.op] = <<UpTo(3), UpTo(3)>>
        BY <3>1, TablesAgree
      <4> QED
        BY <2>1, <2>2, <4>1 DEF Narrows, IsSequence
    <3>2. CASE m.op = 16
      <4>1. Client!Requests[m.op] = <<U8>> /\ Server!Requests[m.op] = <<UpTo(3)>>
        BY <3>2, TablesAgree
      <4> QED
        BY <2>1, <2>2, <4>1 DEF Narrows, IsSequence
    <3> QED
      BY <1>4, <3>1, <3>2
  <2>4. ReadsAs(Put(Client!Requests[m.op], m.payload), Server!Requests[m.op], m.payload)
    BY <1>1, <2>3, NarrowDecodes
  <2> QED
    BY <1>2, <2>4 DEF Carries
<1> QED
  BY <1>3, <1>4

\* and an update as the server did.
LEMMA UpdateCarries ==
    ASSUME NEW u, FitsUpdate(u)
    PROVE  Carries(Server!Updates, Client!Updates, u)
<1>1. u.op \in DOMAIN Server!Updates /\ Fits(Server!Updates[u.op], u.payload)
  BY DEF FitsUpdate
<1>2. u.op \in Byte /\ u.op \in DOMAIN Client!Updates /\ Client!Updates[u.op] = Server!Updates[u.op]
  BY <1>1, TablesAgree
<1>3. ReadsAs(Put(Server!Updates[u.op], u.payload), Server!Updates[u.op], u.payload)
  BY <1>1, LayoutsDecode DEF ReadsAs
<1> QED
  BY <1>2, <1>3 DEF Carries

\* Every sample of a message is made by the reading end of what the writing end put, and of
\* nothing less, whatever the samples are.
THEOREM EndsCorrect == Spec => []EndsAgree
<1>1. ASSUME NEW sent, NEW taken, NEW m, Carries(sent, taken, m) PROVE ReadsBack(sent, taken, m)
  <2> DEFINE b == Put(sent[m.op], m.payload)
  <2>1. ReadsAs(b, taken[m.op], m.payload)
    BY <1>1 DEF Carries
  <2> HIDE DEF b
  <2>2. <<>> \in Bytes /\ b \o <<>> = b
    BY <2>1, ConcatEmptySeq, EmptySeq DEF ReadsAs, Bytes
  <2>3. Get(taken[m.op], b) = Read(m.payload, <<>>)
    BY <2>1, <2>2 DEF ReadsAs
  <2>4. \A n \in 0..(Len(b) - 1) : Get(taken[m.op], SubSeq(b, 1, n)) = Short
    BY <2>1 DEF ReadsAs
  <2> QED
    BY <2>3, <2>4 DEF ReadsBack, b
<1>2. ASSUME NEW m \in SomeRequests PROVE ReadsBack(Client!Requests, Server!Requests, m)
  BY <1>1, RequestsAssumption, RequestCarries
<1>3. ASSUME NEW u \in SomeUpdates PROVE ReadsBack(Server!Updates, Client!Updates, u)
  BY <1>1, UpdatesAssumption, UpdateCarries
<1>4. EndsAgree
  BY <1>2, <1>3 DEF EndsAgree
<1> QED
  BY <1>4, PTL

-----------------------------------------------------------------------------
\* FlattenSeq of sequences of bytes, step by step.
LEMMA FlatBytes ==
    ASSUME NEW s \in Seq(Bytes)
    PROVE  /\ Flat(s, 0) = <<>> /\ FlattenSeq(s) = Flat(s, Len(s))
           /\ \A k \in 0..Len(s) : Flat(s, k) \in Bytes
           /\ \A k \in 0..Len(s) - 1 : Flat(s, k + 1) = Flat(s, k) \o s[k + 1]
<1>1. Len(s) \in Nat /\ \A i \in 1..Len(s) : s[i] \in Bytes
  BY LenProperties, ElementOfSeq
<1>2. IsSequence(s)
  BY LenProperties DEF IsSequence
<1>3. \A k \in 0..Len(s) - 1 : k \in 0..Len(s)
  BY <1>1
<1> QED
  BY <1>1, <1>2, <1>3, FlatStep

\* Flattening is by halves.
LEMMA FlattenConcat ==
    ASSUME NEW s \in Seq(Bytes), NEW t \in Seq(Bytes)
    PROVE  /\ FlattenSeq(s) \in Bytes /\ FlattenSeq(t) \in Bytes
           /\ FlattenSeq(s \o t) = FlattenSeq(s) \o FlattenSeq(t)
<1> DEFINE st == s \o t
<1>1. /\ st \in Seq(Bytes) /\ Len(st) = Len(s) + Len(t) /\ Len(s) \in Nat /\ Len(t) \in Nat
      /\ \A i \in 1..Len(s) + Len(t) : st[i] = IF i <= Len(s) THEN s[i] ELSE t[i - Len(s)]
  BY ConcatProperties, LenProperties
<1> HIDE DEF st
<1>2. /\ Flat(s, 0) = <<>> /\ FlattenSeq(s) = Flat(s, Len(s))
      /\ \A k \in 0..Len(s) : Flat(s, k) \in Bytes
      /\ \A k \in 0..Len(s) - 1 : Flat(s, k + 1) = Flat(s, k) \o s[k + 1]
  BY FlatBytes
<1>3. /\ Flat(t, 0) = <<>> /\ FlattenSeq(t) = Flat(t, Len(t))
      /\ \A k \in 0..Len(t) : Flat(t, k) \in Bytes
      /\ \A k \in 0..Len(t) - 1 : Flat(t, k + 1) = Flat(t, k) \o t[k + 1]
  BY FlatBytes
<1>4. /\ Flat(st, 0) = <<>> /\ FlattenSeq(st) = Flat(st, Len(st))
      /\ \A k \in 0..Len(st) : Flat(st, k) \in Bytes
      /\ \A k \in 0..Len(st) - 1 : Flat(st, k + 1) = Flat(st, k) \o st[k + 1]
  BY <1>1, FlatBytes
<1> HIDE DEF Flat
<1>5. Flat(st, Len(s)) = Flat(s, Len(s))
  <2> DEFINE T == {n \in Nat : n <= Len(s) => Flat(st, n) = Flat(s, n)}
  <2>1. 0 \in T
    BY <1>2, <1>4
  <2>2. ASSUME NEW n \in T PROVE n + 1 \in T
    <3>1. CASE n + 1 <= Len(s)
      <4>1. n \in 0..Len(s) - 1 /\ n \in 0..Len(st) - 1 /\ n + 1 \in 1..Len(s) + Len(t) /\ n + 1 <= Len(s)
        BY <1>1, <3>1
      <4>2. Flat(st, n) = Flat(s, n) /\ st[n + 1] = s[n + 1]
        BY <1>1, <4>1
      <4>3. Flat(st, n + 1) = Flat(s, n + 1)
        BY <1>2, <1>4, <4>1, <4>2
      <4> QED
        BY <4>3
    <3> QED
      BY <3>1
  <2>3. T = Nat
    <3> HIDE DEF T
    <3>1. T \in SUBSET Nat
      BY DEF T
    <3> QED
      BY <3>1, <2>1, <2>2, NatSetInduction
  <2> QED
    BY <1>1, <2>3
<1>6. Flat(st, Len(s) + Len(t)) = Flat(s, Len(s)) \o Flat(t, Len(t))
  <2> DEFINE T == {n \in Nat : n <= Len(t) => Flat(st, Len(s) + n) = Flat(s, Len(s)) \o Flat(t, n)}
  <2>0. Flat(s, Len(s)) \in Bytes
    BY <1>1, <1>2
  <2>1. 0 \in T
    <3>1. Flat(s, Len(s)) \o <<>> = Flat(s, Len(s))
      BY <2>0, BytesInARow
    <3>2. Len(s) + 0 = Len(s)
      BY <1>1
    <3>3. Flat(st, Len(s) + 0) = Flat(s, Len(s)) \o Flat(t, 0)
      BY <1>3, <1>5, <3>1, <3>2
    <3> QED
      BY <3>3
  <2>2. ASSUME NEW n \in T PROVE n + 1 \in T
    <3>1. CASE n + 1 <= Len(t)
      <4>1. /\ n \in 0..Len(t) - 1 /\ n \in 0..Len(t) /\ Len(s) + n \in 0..Len(st) - 1
            /\ Len(s) + n + 1 \in 1..Len(s) + Len(t) /\ ~ (Len(s) + n + 1 <= Len(s))
            /\ (Len(s) + n) + 1 - Len(s) = n + 1 /\ n + 1 \in 1..Len(t)
            /\ Len(s) + (n + 1) = (Len(s) + n) + 1
        BY <1>1, <3>1
      <4>0. st[(Len(s) + n) + 1] = t[n + 1]
        BY <1>1, <4>1
      <4>2. Flat(st, Len(s) + n) = Flat(s, Len(s)) \o Flat(t, n)
        <5>1. n <= Len(t)
          BY <4>1
        <5> QED
          BY <5>1, Zenon
      <4>3. Flat(st, (Len(s) + n) + 1) = (Flat(s, Len(s)) \o Flat(t, n)) \o t[n + 1]
        BY <1>4, <4>0, <4>1, <4>2
      <4>4. Flat(t, n) \in Bytes /\ t[n + 1] \in Bytes /\ Flat(t, n + 1) = Flat(t, n) \o t[n + 1]
        BY <1>3, <4>1, ElementOfSeq
      <4>5. (Flat(s, Len(s)) \o Flat(t, n)) \o t[n + 1] = Flat(s, Len(s)) \o Flat(t, n + 1)
        <5>1. (Flat(s, Len(s)) \o Flat(t, n)) \o t[n + 1] = Flat(s, Len(s)) \o (Flat(t, n) \o t[n + 1])
          BY <2>0, <4>4, BytesInARow, Zenon
        <5> QED
          BY <4>4, <5>1
      <4>6. Flat(st, Len(s) + (n + 1)) = Flat(s, Len(s)) \o Flat(t, n + 1)
        BY <4>1, <4>3, <4>5
      <4> QED
        BY <4>6
    <3> QED
      BY <3>1
  <2>3. T = Nat
    <3> HIDE DEF T
    <3>1. T \in SUBSET Nat
      BY DEF T
    <3> QED
      BY <3>1, <2>1, <2>2, NatSetInduction
  <2>4. Len(t) \in T
    BY <1>1, <2>3
  <2> QED
    BY <1>1, <2>4
<1> QED
  BY <1>1, <1>2, <1>3, <1>4, <1>6 DEF st

\* Every message of a set is put as bytes.
Writes(layouts, S) == \A m \in S : PutMessage(layouts, m) \in Bytes
Parts(layouts, q) == [i \in DOMAIN q |-> PutMessage(layouts, q[i])]

\* The parts of what is written,
LEMMA PartsConcat ==
    ASSUME NEW layouts, NEW S, Writes(layouts, S), NEW q \in Seq(S), NEW r \in Seq(S)
    PROVE  /\ Parts(layouts, q) \in Seq(Bytes) /\ Parts(layouts, r) \in Seq(Bytes)
           /\ Parts(layouts, q \o r) = Parts(layouts, q) \o Parts(layouts, r)
<1>1. ASSUME NEW s \in Seq(S)
      PROVE  /\ Parts(layouts, s) \in Seq(Bytes) /\ Len(Parts(layouts, s)) = Len(s)
             /\ \A i \in 1..Len(s) : Parts(layouts, s)[i] = PutMessage(layouts, s[i])
  <2>1. Len(s) \in Nat /\ DOMAIN s = 1..Len(s) /\ \A i \in 1..Len(s) : s[i] \in S
    BY LenProperties, ElementOfSeq
  <2>2. Parts(layouts, s) = [i \in 1..Len(s) |-> PutMessage(layouts, s[i])]
    BY <2>1 DEF Parts
  <2>3. \A i \in 1..Len(s) : PutMessage(layouts, s[i]) \in Bytes
    BY <2>1 DEF Writes
  <2>4. Parts(layouts, s) \in Seq(Bytes)
    BY <2>1, <2>2, <2>3, IsASeq
  <2> QED
    BY <2>1, <2>2, <2>4
<1>2. /\ q \o r \in Seq(S) /\ Len(q \o r) = Len(q) + Len(r) /\ Len(q) \in Nat /\ Len(r) \in Nat
      /\ \A i \in 1..Len(q) + Len(r) : (q \o r)[i] = IF i <= Len(q) THEN q[i] ELSE r[i - Len(q)]
  BY ConcatProperties, LenProperties
<1> DEFINE a == Parts(layouts, q)
           b == Parts(layouts, r)
           c == Parts(layouts, q \o r)
<1>3. /\ a \in Seq(Bytes) /\ b \in Seq(Bytes) /\ c \in Seq(Bytes)
      /\ Len(a) = Len(q) /\ Len(b) = Len(r) /\ Len(c) = Len(q) + Len(r)
  BY <1>1, <1>2
<1>4. ASSUME NEW i \in 1..Len(q) + Len(r) PROVE c[i] = IF i <= Len(q) THEN a[i] ELSE b[i - Len(q)]
  <2>1. c[i] = PutMessage(layouts, (q \o r)[i])
    BY <1>1, <1>2
  <2>2. (q \o r)[i] = IF i <= Len(q) THEN q[i] ELSE r[i - Len(q)]
    BY <1>2
  <2>3. i <= Len(q) => a[i] = PutMessage(layouts, q[i])
    BY <1>1, <1>2
  <2>4. ~ (i <= Len(q)) => b[i - Len(q)] = PutMessage(layouts, r[i - Len(q)])
    BY <1>1, <1>2
  <2> QED
    BY <2>1, <2>2, <2>3, <2>4
<1> HIDE DEF a, b, c
<1>5. /\ a \o b \in Seq(Bytes) /\ Len(a \o b) = Len(q) + Len(r)
      /\ \A i \in 1..Len(q) + Len(r) : (a \o b)[i] = IF i <= Len(q) THEN a[i] ELSE b[i - Len(q)]
  <2>0. a \in Seq(Bytes) /\ b \in Seq(Bytes)
    BY <1>3
  <2>1. /\ a \o b \in Seq(Bytes) /\ Len(a \o b) = Len(a) + Len(b)
        /\ \A i \in 1..Len(a) + Len(b) : (a \o b)[i] = IF i <= Len(a) THEN a[i] ELSE b[i - Len(a)]
    BY <2>0, ConcatProperties
  <2> QED
    BY <1>3, <2>1
<1>6. c = a \o b
  BY <1>3, <1>4, <1>5, SeqEqual
<1> QED
  BY <1>3, <1>6 DEF a, b, c

\* and the whole of it: message after message.
LEMMA MessagesConcat ==
    ASSUME NEW layouts, NEW S, Writes(layouts, S), NEW q \in Seq(S), NEW r \in Seq(S)
    PROVE  /\ PutMessages(layouts, q) \in Bytes /\ PutMessages(layouts, r) \in Bytes
           /\ PutMessages(layouts, q \o r) = PutMessages(layouts, q) \o PutMessages(layouts, r)
<1>1. \A s : PutMessages(layouts, s) = FlattenSeq(Parts(layouts, s))
  BY DEF PutMessages, Parts
<1>2. /\ Parts(layouts, q) \in Seq(Bytes) /\ Parts(layouts, r) \in Seq(Bytes)
      /\ Parts(layouts, q \o r) = Parts(layouts, q) \o Parts(layouts, r)
  BY PartsConcat
<1> DEFINE a == Parts(layouts, q)
           b == Parts(layouts, r)
<1>3. /\ FlattenSeq(a) \in Bytes /\ FlattenSeq(b) \in Bytes
      /\ FlattenSeq(a \o b) = FlattenSeq(a) \o FlattenSeq(b)
  <2>1. a \in Seq(Bytes) /\ b \in Seq(Bytes)
    BY <1>2
  <2> HIDE DEF a, b
  <2> QED
    BY <2>1, FlattenConcat
<1>4. /\ PutMessages(layouts, q) = FlattenSeq(a) /\ PutMessages(layouts, r) = FlattenSeq(b)
      /\ PutMessages(layouts, q \o r) = FlattenSeq(Parts(layouts, q \o r))
  BY <1>1, Zenon
<1>5. FlattenSeq(Parts(layouts, q \o r)) = FlattenSeq(a \o b)
  BY <1>2
<1> QED
  BY <1>3, <1>4, <1>5, Zenon

\* One message and none.
LEMMA MessagesFew ==
    ASSUME NEW layouts, NEW m, PutMessage(layouts, m) \in Bytes
    PROVE  PutMessages(layouts, <<m>>) = PutMessage(layouts, m) /\ PutMessages(layouts, <<>>) = <<>>
<1>1. Parts(layouts, <<m>>) = <<PutMessage(layouts, m)>> /\ Parts(layouts, <<>>) = <<>>
  BY DEF Parts
<1>2. <<PutMessage(layouts, m)>> \in Seq(Bytes) /\ Len(<<PutMessage(layouts, m)>>) = 1
      /\ <<PutMessage(layouts, m)>>[1] = PutMessage(layouts, m)
  OBVIOUS
<1>3. FlattenSeq(<<PutMessage(layouts, m)>>) = PutMessage(layouts, m)
  <2> DEFINE one == <<PutMessage(layouts, m)>>
  <2>1. one \in Seq(Bytes) /\ Len(one) = 1 /\ one[1] = PutMessage(layouts, m)
    BY <1>2
  <2> HIDE DEF one
  <2>2. /\ Flat(one, 0) = <<>> /\ FlattenSeq(one) = Flat(one, Len(one))
        /\ \A k \in 0..Len(one) - 1 : Flat(one, k + 1) = Flat(one, k) \o one[k + 1]
    BY <2>1, FlatBytes
  <2>3. Flat(one, 0 + 1) = Flat(one, 0) \o one[0 + 1]
    <3> HIDE DEF Flat
    <3>1. 0 \in 0..Len(one) - 1
      BY <2>1
    <3> QED
      BY <2>2, <3>1
  <2>4. 0 + 1 = 1
    OBVIOUS
  <2>5. FlattenSeq(one) = <<>> \o PutMessage(layouts, m)
    <3> HIDE DEF Flat
    <3> QED
      BY <2>1, <2>2, <2>3, <2>4, Zenon
  <2> QED
    BY <2>5, BytesInARow DEF one
<1> QED
  BY <1>1, <1>3 DEF PutMessages, Parts, FlattenSeq

-----------------------------------------------------------------------------
\* A beginning of bytes, by its length.
LEMMA PrefixIs ==
    ASSUME NEW x \in Bytes, NEW y \in Bytes, IsPrefix(x, y)
    PROVE  Len(x) \in 0..Len(y) /\ x = SubSeq(y, 1, Len(x))
<1>1. Len(x) \in Nat /\ Len(y) \in Nat /\ Len(x) \in 0..Len(x)
  BY LenProperties DEF Bytes
<1>2. SubSeq(x, 1, Len(x)) \in Bytes /\ Len(SubSeq(x, 1, Len(x))) = Len(x)
      /\ \A i \in 1..Len(x) : SubSeq(x, 1, Len(x))[i] = x[i]
  BY <1>1, Beginning DEF Bytes
<1>3. SubSeq(x, 1, Len(x)) = x
  BY <1>2, SeqEqual DEF Bytes
<1> QED
  BY <1>1, <1>3 DEF IsPrefix

\* Every cut is a beginning, the last one the whole.
LEMMA CutIsPrefix ==
    ASSUME NEW y \in Bytes, NEW n \in 0..Len(y)
    PROVE  SubSeq(y, 1, n) \in Bytes /\ Len(SubSeq(y, 1, n)) = n /\ IsPrefix(SubSeq(y, 1, n), y)
<1> DEFINE x == SubSeq(y, 1, n)
<1>1. x \in Bytes /\ Len(x) = n /\ Len(y) \in Nat
  BY Beginning, LenProperties DEF Bytes
<1> HIDE DEF x
<1>2. SubSeq(x, 1, n) = x
  <2>1. n \in 0..Len(x)
    BY <1>1
  <2>2. SubSeq(x, 1, n) \in Bytes /\ Len(SubSeq(x, 1, n)) = n /\ \A i \in 1..n : SubSeq(x, 1, n)[i] = x[i]
    BY <1>1, <2>1, Beginning DEF Bytes
  <2> QED
    BY <1>1, <2>2, SeqEqual DEF Bytes
<1> QED
  BY <1>1, <1>2 DEF IsPrefix, x

\* All of it is a beginning, and no beginning is longer.
LEMMA WholeIsPrefix ==
    ASSUME NEW y \in Bytes
    PROVE  /\ IsPrefix(y, y) /\ SubSeq(y, 1, Len(y)) = y
           /\ \A x \in Bytes : IsPrefix(x, y) /\ Len(x) = Len(y) => x = y
<1>1. Len(y) \in 0..Len(y)
  BY LenProperties DEF Bytes
<1>2. IsPrefix(y, y)
  BY <1>1 DEF IsPrefix
<1>3. SubSeq(y, 1, Len(y)) = y
  BY <1>2, PrefixIs
<1> QED
  BY <1>2, <1>3, PrefixIs

\* A beginning without its last byte.
LEMMA LessIsPrefix ==
    ASSUME NEW x \in Bytes, NEW y \in Bytes, IsPrefix(x, y), x # <<>>
    PROVE  SubSeq(x, 1, Len(x) - 1) \in Bytes /\ IsPrefix(SubSeq(x, 1, Len(x) - 1), y)
<1> DEFINE n == Len(x)
<1>1. n \in 0..Len(y) /\ x = SubSeq(y, 1, n) /\ n \in Nat /\ Len(y) \in Nat
  BY PrefixIs, LenProperties DEF Bytes
<1>2. n # 0
  BY EmptySeq, LenProperties, SeqEqual DEF Bytes
<1>3. n - 1 \in 0..n /\ n - 1 \in 0..Len(y)
  BY <1>1, <1>2
<1> HIDE DEF n
<1>4. /\ SubSeq(x, 1, n - 1) \in Bytes /\ Len(SubSeq(x, 1, n - 1)) = n - 1
      /\ \A i \in 1..n - 1 : SubSeq(x, 1, n - 1)[i] = x[i]
  BY <1>3, Beginning DEF Bytes, n
<1>5. /\ SubSeq(y, 1, n - 1) \in Bytes /\ Len(SubSeq(y, 1, n - 1)) = n - 1
      /\ \A i \in 1..n - 1 : SubSeq(y, 1, n - 1)[i] = y[i]
  BY <1>3, Beginning DEF Bytes
<1>6. \A i \in 1..n : x[i] = y[i]
  <2>1. \A i \in 1..n : SubSeq(y, 1, n)[i] = y[i]
    BY <1>1, Beginning DEF Bytes
  <2> QED
    BY <1>1, <2>1
<1>7. \A i \in 1..n - 1 : SubSeq(x, 1, n - 1)[i] = SubSeq(y, 1, n - 1)[i]
  BY <1>1, <1>4, <1>5, <1>6
<1>8. SubSeq(x, 1, n - 1) = SubSeq(y, 1, n - 1)
  BY <1>4, <1>5, <1>7, SeqEqual DEF Bytes
<1>9. IsPrefix(SubSeq(y, 1, n - 1), y)
  BY <1>3, CutIsPrefix
<1> QED
  BY <1>4, <1>8, <1>9 DEF n

\* A byte in front of bytes.
LEMMA ByteInFront ==
    ASSUME NEW a \in Byte, NEW z \in Bytes
    PROVE  /\ <<a>> \o z \in Bytes /\ <<a>> \o z # <<>> /\ Len(<<a>> \o z) = Len(z) + 1
           /\ (<<a>> \o z)[1] = a /\ Tail(<<a>> \o z) = z /\ Head(<<a>> \o z) = a
<1> DEFINE e == <<a>>
           ez == e \o z
<1>1. e \in Bytes /\ Len(e) = 1 /\ \A rest \in Bytes : (e \o rest)[1] = a
  BY OneByte
<1> HIDE DEF e
<1>2. /\ ez \in Bytes /\ Len(ez) = Len(e) + Len(z) /\ Len(z) \in Nat
      /\ \A i \in 1..Len(e) + Len(z) : ez[i] = IF i <= Len(e) THEN e[i] ELSE z[i - Len(e)]
  BY <1>1, ConcatProperties, LenProperties DEF Bytes
<1>3. ez[1] = a
  BY <1>1
<1> HIDE DEF ez
<1>4. ez # <<>>
  <2>1. Len(ez) # 0
    BY <1>1, <1>2
  <2> QED
    BY <2>1
<1>5. /\ Tail(ez) \in Bytes /\ Len(Tail(ez)) = Len(ez) - 1
      /\ \A i \in 1..Len(Tail(ez)) : Tail(ez)[i] = ez[i + 1]
  BY <1>2, <1>4, HeadTailProperties DEF Bytes
<1>6. Len(Tail(ez)) = Len(z)
  BY <1>1, <1>2, <1>5
<1>7. ASSUME NEW i \in 1..Len(z) PROVE Tail(ez)[i] = z[i]
  <2>1. i + 1 \in 1..Len(e) + Len(z) /\ ~ (i + 1 <= Len(e)) /\ i + 1 - Len(e) = i
    BY <1>1, <1>2
  <2>2. ez[i + 1] = z[i]
    BY <1>2, <2>1
  <2> QED
    BY <1>5, <1>6, <2>2
<1>8. Tail(ez) = z
  BY <1>5, <1>6, <1>7, SeqEqual DEF Bytes
<1>9. Len(ez) = Len(z) + 1 /\ Head(ez) = ez[1]
  BY <1>1, <1>2
<1> QED
  BY <1>2, <1>3, <1>4, <1>8, <1>9 DEF e, ez

-----------------------------------------------------------------------------
\* Every message of a set is carried.
AllCarried(sent, taken, S) == \A m \in S : Carries(sent, taken, m)

\* What is carried is put as bytes.
LEMMA CarriedIsWritten ==
    ASSUME NEW sent, NEW taken, NEW S, AllCarried(sent, taken, S)
    PROVE  Writes(sent, S)
<1>1. ASSUME NEW m \in S PROVE PutMessage(sent, m) \in Bytes
  <2>1. m.op \in Byte /\ Put(sent[m.op], m.payload) \in Bytes
    BY DEF AllCarried, Carries, ReadsAs
  <2> QED
    BY <2>1, ByteInFront DEF PutMessage
<1> QED
  BY <1>1 DEF Writes

\* A sequence is its first element and the others.
LEMMA HeadAndTail ==
    ASSUME NEW S, NEW q \in Seq(S), q # <<>>
    PROVE  /\ Head(q) \in S /\ Tail(q) \in Seq(S) /\ <<Head(q)>> \in Seq(S)
           /\ <<Head(q)>> \o Tail(q) = q
<1> DEFINE m == Head(q)
           r == Tail(q)
<1>1. m \in S /\ r \in Seq(S)
  BY HeadTailProperties
<1>2. <<m>> \in Seq(S) /\ Len(<<m>>) = 1 /\ <<m>>[1] = m
  BY <1>1
<1>3. Len(r) = Len(q) - 1 /\ (\A i \in 1..Len(r) : r[i] = q[i + 1]) /\ Len(q) \in Nat /\ q[1] = m
  BY HeadTailProperties, LenProperties
<1> DEFINE e == <<m>>
<1> HIDE DEF e, m, r
<1>4. e \in Seq(S) /\ Len(e) = 1 /\ e[1] = m
  BY <1>2 DEF e
<1>5. /\ e \o r \in Seq(S) /\ Len(e \o r) = Len(e) + Len(r)
      /\ \A i \in 1..Len(e) + Len(r) : (e \o r)[i] = IF i <= Len(e) THEN e[i] ELSE r[i - Len(e)]
  BY <1>1, <1>4, ConcatProperties
<1>6. Len(e \o r) = Len(q) /\ Len(e) + Len(r) = Len(q)
  BY <1>3, <1>4, <1>5
<1>7. ASSUME NEW i \in 1..Len(q) PROVE (e \o r)[i] = q[i]
  <2>1. (e \o r)[i] = IF i <= Len(e) THEN e[i] ELSE r[i - Len(e)]
    BY <1>5, <1>6
  <2>2. CASE i = 1
    BY <1>3, <1>4, <2>1, <2>2
  <2>3. CASE i # 1
    <3>1. i - 1 \in 1..Len(r) /\ i - 1 + 1 = i /\ ~ (i <= 1)
      BY <1>3, <2>3
    <3>2. r[i - 1] = q[i]
      BY <1>3, <3>1
    <3> QED
      BY <1>4, <2>1, <3>1, <3>2
  <2> QED
    BY <2>2, <2>3
<1>8. e \o r = q
  BY <1>5, <1>6, <1>7, SeqEqual
<1> QED
  BY <1>1, <1>4, <1>8 DEF e, m, r

\* The first message of several, and the others.
LEMMA FirstMessage ==
    ASSUME NEW sent, NEW S, Writes(sent, S), NEW q \in Seq(S), q # <<>>
    PROVE  /\ Head(q) \in S /\ Tail(q) \in Seq(S)
           /\ PutMessages(sent, q) = PutMessage(sent, Head(q)) \o PutMessages(sent, Tail(q))
           /\ PutMessages(sent, Tail(q)) \in Bytes
<1> DEFINE m == Head(q)
           r == Tail(q)
<1>1. m \in S /\ r \in Seq(S)
  BY HeadTailProperties
<1>2. <<m>> \in Seq(S) /\ <<m>> \o r = q
  BY HeadAndTail
<1>3. PutMessage(sent, m) \in Bytes
  BY <1>1 DEF Writes
<1>4. PutMessages(sent, <<m>>) = PutMessage(sent, m)
  BY <1>3, MessagesFew
<1> DEFINE e == <<m>>
<1> HIDE DEF e, m, r
<1>5. /\ PutMessages(sent, e \o r) = PutMessages(sent, e) \o PutMessages(sent, r)
      /\ PutMessages(sent, r) \in Bytes
  BY <1>1, <1>2, MessagesConcat DEF e
<1> QED
  BY <1>1, <1>2, <1>4, <1>5 DEF e, m, r

\* What is left of the bytes of messages after the first of them has been read, or none of
\* it when it is not all there.
Arrives(sent, taken, q, b) ==
    LET r == Get(taken[b[1]], Tail(b))
    IN \/ /\ r.status = "short" /\ r.rest = <<>> /\ b # PutMessages(sent, q)
       \/ /\ r.status = "whole" /\ r.value = Head(q).payload /\ r.rest \in Bytes
          /\ IsPrefix(r.rest, PutMessages(sent, Tail(q)))
          /\ b = PutMessages(sent, q) => r.rest = PutMessages(sent, Tail(q))

\* Of the beginning of what was written the reader makes the first message, or finds that
\* it is not all there, and it knows the opcode.
LEMMA FirstArrives ==
    ASSUME NEW sent, NEW taken, NEW S, AllCarried(sent, taken, S),
           NEW q \in Seq(S), NEW b \in Bytes, b # <<>>, IsPrefix(b, PutMessages(sent, q))
    PROVE  /\ q # <<>> /\ Head(q) \in S /\ Tail(q) \in Seq(S)
           /\ b[1] = Head(q).op /\ b[1] \in DOMAIN taken /\ Tail(b) \in Bytes
           /\ Arrives(sent, taken, q, b)
<1>1. Writes(sent, S)
  BY CarriedIsWritten
<1>2. q # <<>>
  <2> SUFFICES ASSUME q = <<>> PROVE FALSE
    OBVIOUS
  <2>1. PutMessages(sent, <<>>) = <<>>
    BY DEF PutMessages, FlattenSeq
  <2>2. <<>> \in Bytes /\ Len(<<>>) = 0
    BY EmptySeq DEF Bytes
  <2>3. Len(b) \in 0..Len(<<>>)
    BY <2>1, <2>2, PrefixIs
  <2>4. Len(b) = 0
    BY <2>2, <2>3
  <2> QED
    BY <2>4, EmptySeq, SeqEqual DEF Bytes
<1> DEFINE m == Head(q)
           x == Put(sent[m.op], m.payload)
           R == PutMessages(sent, Tail(q))
           W == PutMessages(sent, q)
           z == x \o R
           n == Len(b)
<1>3. m \in S /\ Tail(q) \in Seq(S) /\ W = PutMessage(sent, m) \o R /\ R \in Bytes
  BY <1>1, <1>2, FirstMessage
<1>4. m.op \in Byte /\ m.op \in DOMAIN taken /\ ReadsAs(x, taken[m.op], m.payload)
  BY <1>3 DEF AllCarried, Carries
<1>5. x \in Bytes
  BY <1>4 DEF ReadsAs
<1>6. PutMessage(sent, m) = <<m.op>> \o x /\ <<m.op>> \in Bytes
  BY <1>4, OneByte DEF PutMessage
<1> DEFINE e == <<m.op>>
<1> HIDE DEF x, R, W, n, e, m
<1>7. z \in Bytes /\ Len(z) = Len(x) + Len(R) /\ Len(x) \in Nat /\ Len(R) \in Nat
  BY <1>3, <1>5, InARow
<1>8. W = e \o z
  BY <1>3, <1>5, <1>6, BytesInARow DEF e
<1> HIDE DEF z
<1>9. e \in Bytes /\ Len(e) = 1
  BY <1>4, OneByte DEF e
<1>10. W \in Bytes /\ Len(W) = Len(z) + 1
  BY <1>4, <1>7, <1>8, ByteInFront DEF e
<1>11. n \in 1..Len(z) + 1 /\ b = SubSeq(W, 1, n) /\ n - 1 \in 0..Len(z) /\ 1 + (n - 1) = n
  <2>1. n \in 0..Len(W) /\ b = SubSeq(W, 1, n)
    BY <1>10, PrefixIs DEF W, n
  <2>2. n # 0
    BY EmptySeq, SeqEqual DEF Bytes, n
  <2> QED
    BY <1>7, <1>10, <2>1, <2>2
<1>12. b = e \o SubSeq(z, 1, n - 1)
  <2>1. SubSeq(e \o z, 1, Len(e) + (n - 1)) = e \o SubSeq(z, 1, n - 1)
    BY <1>7, <1>9, <1>11, CutSecond, ZenonT(30) DEF Bytes
  <2> QED
    BY <1>8, <1>9, <1>11, <2>1
<1>13. SubSeq(z, 1, n - 1) \in Bytes
  BY <1>7, <1>11, Beginning DEF Bytes
<1>14. b[1] = m.op /\ Tail(b) = SubSeq(z, 1, n - 1)
  BY <1>4, <1>12, <1>13, ByteInFront DEF e
<1>15. ASSUME n - 1 < Len(x) PROVE Arrives(sent, taken, q, b)
  <2>1. n - 1 \in 0..Len(x) /\ n - 1 \in 0..Len(x) - 1
    BY <1>7, <1>11, <1>15
  <2>2. SubSeq(z, 1, n - 1) = SubSeq(x, 1, n - 1)
    BY <1>3, <1>5, <2>1, CutFirst DEF z, Bytes
  <2>3. Get(taken[m.op], SubSeq(x, 1, n - 1)) = Short
    BY <1>4, <2>1 DEF ReadsAs
  <2>4. b # W
    BY <1>7, <1>10, <1>11, <1>15 DEF n
  <2>5. Get(taken[b[1]], Tail(b)) = Short
    BY <1>14, <2>2, <2>3
  <2>6. Get(taken[b[1]], Tail(b)).status = "short" /\ Get(taken[b[1]], Tail(b)).rest = <<>>
    BY <2>5 DEF Short
  <2> QED
    BY <2>4, <2>6 DEF Arrives, W
<1>16. ASSUME ~ (n - 1 < Len(x)) PROVE Arrives(sent, taken, q, b)
  <2> DEFINE k == n - 1 - Len(x)
             rest == SubSeq(R, 1, k)
  <2>1. k \in 0..Len(R) /\ Len(x) + k = n - 1
    BY <1>7, <1>11, <1>16
  <2> HIDE DEF k
  <2>2. SubSeq(x \o R, 1, Len(x) + k) = x \o SubSeq(R, 1, k)
    BY <1>3, <1>5, <2>1, CutSecond DEF Bytes
  <2>3. rest \in Bytes /\ IsPrefix(rest, R)
    BY <1>3, <2>1, CutIsPrefix
  <2>4. b = W => rest = R
    <3>1. b = W => k = Len(R)
      BY <1>7, <1>10, <1>11, <2>1 DEF n
    <3>2. SubSeq(R, 1, Len(R)) = R
      BY <1>3, WholeIsPrefix
    <3> QED
      BY <3>1, <3>2
  <2> HIDE DEF rest
  <2>5. Tail(b) = x \o rest
    BY <1>14, <2>1, <2>2 DEF z, rest
  <2>6. Get(taken[m.op], x \o rest) = Read(m.payload, rest)
    BY <1>4, <2>3 DEF ReadsAs
  <2>7. Get(taken[b[1]], Tail(b)) = Read(m.payload, rest)
    BY <1>14, <2>5, <2>6
  <2>8. /\ Get(taken[b[1]], Tail(b)).status = "whole" /\ Get(taken[b[1]], Tail(b)).value = m.payload
        /\ Get(taken[b[1]], Tail(b)).rest = rest
    BY <2>7, ReadIs
  <2> QED
    BY <2>3, <2>4, <2>8 DEF Arrives, W, R, m
<1> QED
  BY <1>2, <1>3, <1>4, <1>13, <1>14, <1>15, <1>16 DEF m

-----------------------------------------------------------------------------
\* What a reader of requests leaves on a stream that holds anything: after an opcode that
\* was refused, its payload is read as opcodes and payloads.
Leaving(reader) == \A b \in Bytes : reader[b].rest \in Bytes

\* A recvall leaves bytes.
LEMMA RecvallLeaves ==
    ASSUME NEW b \in Bytes, NEW n \in Nat, NEW v
    PROVE  Recvall(b, n, v).rest \in Bytes
<1>1. Len(b) \in Nat /\ \A i \in n + 1..Len(b) : b[i] \in Byte
  BY LenProperties, ElementOfSeq DEF Bytes
<1>2. SubSeq(b, n + 1, Len(b)) \in Bytes
  BY <1>1, SubSeqProperties DEF Bytes
<1>3. <<>> \in Bytes
  BY EmptySeq DEF Bytes
<1> QED
  BY <1>2, <1>3 DEF Recvall, Read, Short

\* So does the reader of a scalar,
LEMMA ScalarLeaves ==
    ASSUME NEW field
    PROVE  Leaving(ScalarReader(field))
<1> SUFFICES ASSUME NEW b \in Bytes PROVE GetScalar(field, b).rest \in Bytes
  BY DEF Leaving, ScalarReader
<1>1. <<>> \in Bytes
  BY EmptySeq DEF Bytes
<1>2. GetU8(b).rest \in Bytes
  BY RecvallLeaves DEF GetU8
<1>3. GetU16(b).rest \in Bytes
  BY RecvallLeaves DEF GetU16
<1>4. GetU32(b).rest \in Bytes
  BY RecvallLeaves DEF GetU32
<1>5. GetU64(b).rest \in Bytes
  BY RecvallLeaves DEF GetU64
<1>6. GetBool(b).rest \in Bytes
  BY RecvallLeaves DEF GetBool
<1>7. \A last : GetUpTo(b, last).rest \in Bytes
  BY <1>1, <1>2 DEF GetUpTo, Bad
<1>8. GetString(b).rest \in Bytes
  <2>1. CASE GetU16(b).status = "whole"
    <3>1. Len(b) >= 2 /\ GetU16(b).value = 256 * b[1] + b[2]
      BY <2>1 DEF GetU16, Recvall, Arrived, Read, Short
    <3>2. b[1] \in Byte /\ b[2] \in Byte
      <4>1. 1 \in 1..Len(b) /\ 2 \in 1..Len(b)
        BY <3>1, LenProperties DEF Bytes
      <4> QED
        BY <4>1, ElementOfSeq DEF Bytes
    <3>3. GetU16(b).value \in Nat
      BY <3>1, <3>2, BytesAre, SMT
    <3> DEFINE rest == GetU16(b).rest
               n == GetU16(b).value
    <3>4. rest \in Bytes /\ n \in Nat
      BY <1>3, <3>3
    <3>5. GetString(b) = Recvall(rest, n, SubSeq(rest, 1, n))
      BY <2>1 DEF GetString
    <3> HIDE DEF rest, n
    <3>6. Recvall(rest, n, SubSeq(rest, 1, n)).rest \in Bytes
      BY <3>4, RecvallLeaves
    <3> QED
      BY <3>5, <3>6
  <2>2. CASE GetU16(b).status # "whole"
    BY <1>3, <2>2 DEF GetString
  <2> QED
    BY <2>1, <2>2
<1> QED
  BY <1>2, <1>3, <1>4, <1>5, <1>6, <1>7, <1>8 DEF GetScalar

\* and readers one after the other.
LEMMA EachLeaves ==
    ASSUME NEW readers, Len(readers) \in Nat, \A i \in 1..Len(readers) : Leaving(readers[i]),
           NEW b \in Bytes
    PROVE  GetEach(readers, b).rest \in Bytes
<1> DEFINE g == Results(readers, b)
           T == {n \in Nat : n <= Len(readers) => g[n].rest \in Bytes}
<1>1. /\ g[0] = Read(<<>>, b)
      /\ \A k \in 0..Len(readers) - 1 : g[k + 1] = GetNext(g[k], readers[k + 1])
      /\ GetEach(readers, b) = g[Len(readers)]
  BY ResultsStep
<1> HIDE DEF g
<1>2. 0 \in T
  BY <1>1, ReadIs
<1>3. ASSUME NEW n \in T PROVE n + 1 \in T
  <2>1. CASE n + 1 <= Len(readers)
    <3>1. n \in 0..Len(readers) - 1 /\ n + 1 \in 1..Len(readers) /\ n <= Len(readers)
      BY <2>1
    <3>2. g[n].rest \in Bytes /\ Leaving(readers[n + 1]) /\ g[n + 1] = GetNext(g[n], readers[n + 1])
      BY <1>1, <3>1
    <3>3. readers[n + 1][g[n].rest].rest \in Bytes
      BY <3>2 DEF Leaving
    <3>4. g[n + 1].rest \in Bytes
      BY <3>2, <3>3 DEF GetNext, Read
    <3> QED
      BY <3>4
  <2> QED
    BY <2>1
<1>4. T = Nat
  <2> HIDE DEF T
  <2>1. T \in SUBSET Nat
    BY DEF T
  <2> QED
    BY <2>1, <1>2, <1>3, NatSetInduction
<1> QED
  BY <1>1, <1>4

\* Requests have neither lists nor grids.
IsFlat(layout) == IsSequence(layout) /\ \A i \in 1..Len(layout) : layout[i].kind \notin {"list", "grid"}

\* A layout without them leaves bytes.
LEMMA FlatLeaves ==
    ASSUME NEW layout, IsFlat(layout), NEW b \in Bytes
    PROVE  Get(layout, b).rest \in Bytes
<1> DEFINE readers == [i \in DOMAIN layout |-> NestedReader(layout[i])]
<1>1. Len(layout) \in Nat /\ DOMAIN layout = 1..Len(layout)
  BY DEF IsFlat, IsSequence
<1>2. Len(readers) = Len(layout)
  BY <1>1
<1>3. ASSUME NEW i \in 1..Len(layout) PROVE Leaving(readers[i])
  <2>1. layout[i].kind \notin {"list", "grid"}
    BY DEF IsFlat
  <2>2. NestedReader(layout[i]) = ScalarReader(layout[i])
    BY <2>1 DEF NestedReader, FieldReader
  <2>3. readers[i] = ScalarReader(layout[i])
    BY <1>1, <2>2
  <2> QED
    BY <2>3, ScalarLeaves
<1>4. Get(layout, b) = GetEach(readers, b)
  BY DEF Get, RowReader
<1> HIDE DEF readers
<1> QED
  BY <1>1, <1>2, <1>3, <1>4, EachLeaves

\* The server's readers are such.
LEMMA RequestsLeave ==
    ASSUME NEW op \in DOMAIN Server!Requests, NEW b \in Bytes
    PROVE  Get(Server!Requests[op], b).rest \in Bytes
<1>1. Server!Requests[op] \in
        {<<>>, <<Str>>, <<Str, U8>>, <<U32>>, <<UpTo(3), UpTo(3)>>, <<UpTo(3)>>, <<U8>>,
         <<U32, U8, Str, I32>>, <<U8, Str>>, <<Str, Str>>}
  BY DEF Server!Requests,
     Server!RecvLogin, Server!RecvCreateMatch, Server!RecvJoinMatch, Server!RecvSelectRaceClass,
     Server!RecvMove, Server!RecvAttack, Server!RecvSlot, Server!RecvInteract, Server!RecvClan,
     Server!RecvCheat, Server!RecvChat, Server!RecvPrivateChat,
     Server!Str, Server!U8, Server!U32, Server!I32, Server!UpTo, Str, U8, U32, I32, UpTo
<1>2. \A f \in {Str, U8, U32, I32, UpTo(3)} : f.kind \notin {"list", "grid"}
  BY DEF Str, U8, U32, I32, UpTo
<1>3. ASSUME NEW f, NEW g, NEW h, NEW k
      PROVE  IsSequence(<<>>) /\ IsSequence(<<f>>) /\ IsSequence(<<f, g>>) /\ IsSequence(<<f, g, h, k>>)
  BY DEF IsSequence
<1>4. ASSUME NEW f \in {Str, U8, U32, I32, UpTo(3)}, NEW g \in {Str, U8, U32, I32, UpTo(3)},
             NEW h \in {Str, U8, U32, I32, UpTo(3)}, NEW k \in {Str, U8, U32, I32, UpTo(3)}
      PROVE  IsFlat(<<>>) /\ IsFlat(<<f>>) /\ IsFlat(<<f, g>>) /\ IsFlat(<<f, g, h, k>>)
  <2>1. /\ f.kind \notin {"list", "grid"} /\ g.kind \notin {"list", "grid"}
        /\ h.kind \notin {"list", "grid"} /\ k.kind \notin {"list", "grid"}
    BY <1>2
  <2>2. IsFlat(<<>>)
    <3>1. IsSequence(<<>>)
      BY <1>3
    <3>2. \A i \in 1..Len(<<>>) : <<>>[i].kind \notin {"list", "grid"}
      BY <2>1
    <3> QED
      BY <3>1, <3>2 DEF IsFlat
  <2>3. IsFlat(<<f>>)
    <3>1. IsSequence(<<f>>)
      BY <1>3
    <3>2. \A i \in 1..Len(<<f>>) : <<f>>[i].kind \notin {"list", "grid"}
      BY <2>1
    <3> QED
      BY <3>1, <3>2 DEF IsFlat
  <2>4. IsFlat(<<f, g>>)
    <3>1. IsSequence(<<f, g>>)
      BY <1>3
    <3>2. \A i \in 1..Len(<<f, g>>) : <<f, g>>[i].kind \notin {"list", "grid"}
      BY <2>1
    <3> QED
      BY <3>1, <3>2 DEF IsFlat
  <2>5. IsFlat(<<f, g, h, k>>)
    <3>1. IsSequence(<<f, g, h, k>>)
      BY <1>3
    <3>2. \A i \in 1..Len(<<f, g, h, k>>) : <<f, g, h, k>>[i].kind \notin {"list", "grid"}
      BY <2>1
    <3> QED
      BY <3>1, <3>2 DEF IsFlat
  <2> QED
    BY <2>2, <2>3, <2>4, <2>5
<1>5. IsFlat(Server!Requests[op])
  <2> HIDE DEF IsFlat
  <2> QED
    BY <1>1, <1>4, ZenonT(30)
<1> QED
  BY <1>5, FlatLeaves

-----------------------------------------------------------------------------
\* The messages of the conversation.
Requested ==
    {Login, ListMatches, CreateMatch, SelectRaceClass, LeaveMatch}
        \cup {JoinMatch(m) : m \in MatchIds} \cup GameRequests
Updated ==
    {LoginOk, MatchCreated, WorldMap, Refusal} \cup {MatchList(ms) : ms \in SUBSET MatchIds}
        \cup {MatchJoined(m, restored) : m \in {0} \cup MatchIds, restored \in BOOLEAN}
        \cup Broadcasts

\* A layout of up to five fields holds as many values that fit.
LEMMA FewFit ==
    ASSUME NEW a, NEW u, NEW b, NEW v, NEW c, NEW w, NEW d, NEW x, NEW e, NEW y
    PROVE  /\ Fits(<<>>, <<>>)
           /\ FitsNested(a, u) => Fits(<<a>>, <<u>>)
           /\ FitsNested(a, u) /\ FitsNested(b, v) => Fits(<<a, b>>, <<u, v>>)
           /\ FitsNested(a, u) /\ FitsNested(b, v) /\ FitsNested(c, w) /\ FitsNested(d, x) /\ FitsNested(e, y)
                => Fits(<<a, b, c, d, e>>, <<u, v, w, x, y>>)
<1>1. Fits(<<>>, <<>>)
  <2>1. IsSequence(<<>>)
    BY DEF IsSequence
  <2> QED
    BY <2>1 DEF Fits, FitsRow
<1>2. ASSUME FitsNested(a, u) PROVE Fits(<<a>>, <<u>>)
  <2>1. IsSequence(<<a>>) /\ IsSequence(<<u>>)
    BY DEF IsSequence
  <2>2. \A i \in 1..Len(<<a>>) : FitsNested(<<a>>[i], <<u>>[i])
    BY <1>2
  <2> QED
    BY <2>1, <2>2 DEF Fits, FitsRow
<1>3. ASSUME FitsNested(a, u), FitsNested(b, v) PROVE Fits(<<a, b>>, <<u, v>>)
  <2>1. IsSequence(<<a, b>>) /\ IsSequence(<<u, v>>)
    BY DEF IsSequence
  <2>2. \A i \in 1..Len(<<a, b>>) : FitsNested(<<a, b>>[i], <<u, v>>[i])
    BY <1>3
  <2> QED
    BY <2>1, <2>2 DEF Fits, FitsRow
<1>4. ASSUME FitsNested(a, u), FitsNested(b, v), FitsNested(c, w), FitsNested(d, x), FitsNested(e, y)
      PROVE  Fits(<<a, b, c, d, e>>, <<u, v, w, x, y>>)
  <2>1. IsSequence(<<a, b, c, d, e>>) /\ IsSequence(<<u, v, w, x, y>>)
    BY DEF IsSequence
  <2>2. \A i \in 1..Len(<<a, b, c, d, e>>) : FitsNested(<<a, b, c, d, e>>[i], <<u, v, w, x, y>>[i])
    BY <1>4
  <2> QED
    BY <2>1, <2>2 DEF Fits, FitsRow
<1> QED
  BY <1>1, <1>2, <1>3, <1>4

\* What scalars hold, in a message and in a row of one.
LEMMA ScalarsFit ==
    /\ \A v \in Byte : FitsScalar(U8, v)
    /\ \A v \in BOOLEAN : FitsScalar(Bool, v)
    /\ \A v \in Counts : FitsScalar(U16, v)
    /\ \A v \in Int32 : FitsScalar(U32, v)
    /\ \A v \in Bytes : Len(v) \in Counts => FitsScalar(Str, v)
    /\ \A f, v : FitsScalar(f, v) => FitsNested(f, v) /\ FitsSimple(f, v)
<1>1. /\ U8.kind = "u8" /\ Bool.kind = "bool" /\ U16.kind = "u16" /\ U32.kind = "u32" /\ Str.kind = "string"
  BY DEF U8, Bool, U16, U32, Str
<1>2. \A v \in Byte : FitsScalar(U8, v)
  BY <1>1 DEF FitsScalar
<1>3. \A v \in BOOLEAN : FitsScalar(Bool, v)
  BY <1>1 DEF FitsScalar
<1>4. \A v \in Counts : FitsScalar(U16, v)
  BY <1>1 DEF FitsScalar
<1>5. \A v \in Int32 : FitsScalar(U32, v)
  BY <1>1 DEF FitsScalar
<1>6. \A v \in Bytes : Len(v) \in Counts => FitsScalar(Str, v)
  BY <1>1 DEF FitsScalar
<1>7. ASSUME NEW f, NEW v, FitsScalar(f, v) PROVE FitsNested(f, v) /\ FitsSimple(f, v)
  BY <1>7 DEF FitsNested, FitsSimple, FitsField
<1> QED
  BY <1>2, <1>3, <1>4, <1>5, <1>6, <1>7

\* The fields of these messages.
LEMMA FieldsFit ==
    /\ 1 \in Int32 /\ 0 \in Int32 /\ \A n \in 0..4 : n \in Byte /\ n \in Counts
    /\ FitsNested(Str, <<97>>) /\ FitsSimple(Str, <<97>>)
    /\ FitsNested(Str, <<97, 32, 98>>) /\ FitsNested(Str, <<110, 111>>)
<1>1. 1 \in Int32 /\ 0 \in Int32
  BY Int32Are, SMT
<1>2. \A n \in 0..4 : n \in Byte /\ n \in Counts
  BY BytesAre, CountsAre, SMT
<1>3. 97 \in Byte /\ 32 \in Byte /\ 98 \in Byte /\ 110 \in Byte /\ 111 \in Byte
  BY BytesAre, SMT
<1>4. <<97>> \in Bytes /\ <<97, 32, 98>> \in Bytes /\ <<110, 111>> \in Bytes
  BY <1>3 DEF Bytes
<1>5. Len(<<97>>) \in Counts /\ Len(<<97, 32, 98>>) \in Counts /\ Len(<<110, 111>>) \in Counts
  <2>1. Len(<<97>>) = 1 /\ Len(<<97, 32, 98>>) = 3 /\ Len(<<110, 111>>) = 2
    OBVIOUS
  <2> QED
    BY <2>1, CountsAre, SMT
<1>6. FitsScalar(Str, <<97>>)
  BY <1>4, <1>5, ScalarsFit
<1>7. FitsScalar(Str, <<97, 32, 98>>)
  BY <1>4, <1>5, ScalarsFit
<1>8. FitsScalar(Str, <<110, 111>>)
  BY <1>4, <1>5, ScalarsFit
<1> QED
  BY <1>1, <1>2, <1>6, <1>7, <1>8, ScalarsFit

\* Every request the client makes fits its layout.
LEMMA RequestedFit == \A m \in Requested : FitsRequest(m)
<1>1. /\ Client!Requests[1] = <<Str>> /\ Client!Requests[2] = <<>> /\ Client!Requests[3] = <<Str, U8>>
      /\ Client!Requests[4] = <<U32>> /\ Client!Requests[5] = <<U8, U8>> /\ Client!Requests[254] = <<>>
      /\ {1, 2, 3, 4, 5, 254} \subseteq DOMAIN Client!Requests
  BY DEF Client!Requests, Client!SendLogin, Client!SendCreateMatch, Client!SendJoinMatch,
     Client!SendSelectRaceClass, Client!Str, Client!U8, Client!U32, Str, U8, U32
<1>2. ASSUME NEW op \in {1, 2, 3, 4, 5, 254}, NEW payload, Fits(Client!Requests[op], payload),
             op = 5 => \A i \in DOMAIN payload : payload[i] <= 3
      PROVE  FitsRequest(Message(op, payload))
  BY <1>1, <1>2 DEF FitsRequest, Message
<1>3. FitsRequest(Login)
  <2>1. Fits(<<Str>>, <<<<97>>>>)
    BY FewFit, FieldsFit
  <2> QED
    BY <1>1, <1>2, <2>1 DEF Login
<1>4. FitsRequest(ListMatches) /\ FitsRequest(LeaveMatch)
  <2>1. Fits(<<>>, <<>>)
    BY FewFit
  <2> QED
    BY <1>1, <1>2, <2>1 DEF ListMatches, LeaveMatch
<1>5. FitsRequest(CreateMatch)
  <2>1. FitsNested(U8, 4)
    BY FieldsFit, ScalarsFit
  <2>2. Fits(<<Str, U8>>, <<<<97, 32, 98>>, 4>>)
    BY <2>1, FewFit, FieldsFit, ZenonT(30)
  <2> QED
    BY <1>1, <1>2, <2>2 DEF CreateMatch
<1>6. FitsRequest(SelectRaceClass)
  <2>1. FitsNested(U8, 1) /\ FitsNested(U8, 3)
    BY FieldsFit, ScalarsFit
  <2>2. Fits(<<U8, U8>>, <<1, 3>>)
    BY <2>1, FewFit
  <2>3. \A i \in DOMAIN <<1, 3>> : <<1, 3>>[i] <= 3
    OBVIOUS
  <2> QED
    BY <1>1, <1>2, <2>2, <2>3 DEF SelectRaceClass
<1>7. ASSUME NEW m \in MatchIds PROVE FitsRequest(JoinMatch(m))
  <2>1. FitsNested(U32, m)
    BY MatchIdsAssumption, ScalarsFit
  <2>2. Fits(<<U32>>, <<m>>)
    BY <2>1, FewFit
  <2> QED
    BY <1>1, <1>2, <2>2 DEF JoinMatch
<1> QED
  BY <1>3, <1>4, <1>5, <1>6, <1>7, RequestsAssumption DEF Requested

\* A finite set in some order.
LEMMA InSomeOrder ==
    ASSUME NEW S, IsFiniteSet(S)
    PROVE  SetToSeq(S) \in [1..Cardinality(S) -> S] /\ Cardinality(S) \in Nat
<1>1. Cardinality(S) \in Nat /\ ExistsBijection(1..Cardinality(S), S)
  BY FS_CardinalityType
<1>2. \E f \in [1..Cardinality(S) -> S] : IsInjective(f)
  BY <1>1 DEF ExistsBijection, Bijection, Injection, Surjection, IsInjective
<1> QED
  BY <1>1, <1>2, Zenon DEF SetToSeq

\* The list of any matches: a row for each.
LEMMA ListOfMatches ==
    ASSUME NEW ms \in SUBSET MatchIds
    PROVE  /\ Fits(<<ListOf(U16, <<U32, Str, U8, U8>>)>>, MatchList(ms).payload)
           /\ \A i \in DOMAIN MatchList(ms).payload[1] : MatchList(ms).payload[1][i][1] \in ms
<1> DEFINE s == SetToSeq(ms)
           n == Cardinality(ms)
           v == [i \in DOMAIN s |-> <<s[i], <<97>>, 0, 4>>]
           row == <<U32, Str, U8, U8>>
           f == ListOf(U16, row)
<1>1. IsFiniteSet(ms) /\ n <= Cardinality(MatchIds)
  BY MatchIdsAssumption, FS_Subset
<1>2. s \in [1..n -> ms] /\ n \in Nat
  BY <1>1, InSomeOrder
<1>3. n \in Counts
  BY <1>1, <1>2, MatchIdsAssumption, CountsAre, SMT
<1>4. MatchList(ms).payload = <<v>>
  BY DEF MatchList, Message
<1> HIDE DEF n, s
<1>5. DOMAIN v = 1..n /\ Len(v) = n /\ \A i \in 1..n : v[i] = <<s[i], <<97>>, 0, 4>> /\ s[i] \in ms
  BY <1>2
<1>6. IsSequence(v)
  BY <1>2, <1>5 DEF IsSequence
<1>7. ASSUME NEW id \in Int32 PROVE FitsRow(FitsSimple, row, <<id, <<97>>, 0, 4>>)
  <2>1. /\ FitsSimple(U32, id) /\ FitsSimple(Str, <<97>>) /\ FitsSimple(U8, 0) /\ FitsSimple(U8, 4)
    BY FieldsFit, ScalarsFit
  <2>2. IsSequence(row) /\ IsSequence(<<id, <<97>>, 0, 4>>)
    BY DEF IsSequence
  <2>3. \A i \in 1..Len(row) : FitsSimple(row[i], <<id, <<97>>, 0, 4>>[i])
    BY <2>1
  <2> QED
    BY <2>2, <2>3 DEF FitsRow
<1>8. ASSUME NEW i \in 1..n PROVE FitsRow(FitsSimple, row, v[i])
  <2>1. s[i] \in Int32 /\ v[i] = <<s[i], <<97>>, 0, 4>>
    BY <1>5, MatchIdsAssumption
  <2> HIDE DEF v, row
  <2> QED
    BY <2>1, <1>7
<1> HIDE DEF v, row
<1>9. FitsRows(FitsSimple, row, v)
  BY <1>5, <1>6, <1>8 DEF FitsRows
<1>10. FitsNested(f, v)
  <2>1. f.kind = "list" /\ f.length = U16 /\ f.layout = row
    BY DEF ListOf
  <2>2. FitsScalar(U16, Len(v))
    BY <1>3, <1>5, ScalarsFit
  <2> HIDE DEF f
  <2> QED
    BY <1>9, <2>1, <2>2 DEF FitsNested, FitsField
<1>11. Fits(<<f>>, <<v>>)
  <2> HIDE DEF f
  <2> QED
    BY <1>10, FewFit
<1>12. \A i \in DOMAIN <<v>>[1] : <<v>>[1][i][1] \in ms
  BY <1>5
<1> QED
  BY <1>4, <1>11, <1>12 DEF row

\* Every update the server makes fits its layout.
LEMMA UpdatedFit == \A u \in Updated : FitsUpdate(u)
<1>1. /\ Server!Updates[129] = <<U32>> /\ Server!Updates[131] = <<U32>>
      /\ Server!Updates[130] = <<ListOf(U16, <<U32, Str, U8, U8>>)>>
      /\ Server!Updates[132] = <<U32, U32, Bool, U8, U8>>
      /\ Server!Updates[137] = <<GridOf(<<U8, Bool>>)>> /\ Server!Updates[238] = <<U8, Str>>
      /\ {129, 130, 131, 132, 137, 238} \subseteq DOMAIN Server!Updates
  BY DEF Server!Updates, Server!SendLoginOk, Server!SendMatchCreated, Server!SendMatchList,
     Server!SendMatchJoined, Server!SendWorldMap, Server!SendError, Server!ListOf, Server!GridOf,
     Server!Str, Server!U8, Server!U16, Server!U32, Server!Bool, ListOf, GridOf, Str, U8, U16, U32, Bool
<1>2. ASSUME NEW op \in {129, 130, 131, 132, 137, 238}, NEW payload, Fits(Server!Updates[op], payload)
      PROVE  FitsUpdate(Message(op, payload))
  BY <1>1, <1>2 DEF FitsUpdate, Message
<1>3. FitsUpdate(LoginOk) /\ FitsUpdate(MatchCreated)
  <2>1. FitsNested(U32, 1)
    BY FieldsFit, ScalarsFit
  <2>2. Fits(<<U32>>, <<1>>)
    BY <2>1, FewFit
  <2> QED
    BY <1>1, <1>2, <2>2 DEF LoginOk, MatchCreated
<1>4. FitsUpdate(Refusal)
  <2>1. FitsNested(U8, 4)
    BY FieldsFit, ScalarsFit
  <2>2. Fits(<<U8, Str>>, <<4, <<110, 111>>>>)
    BY <2>1, FewFit, FieldsFit, ZenonT(30)
  <2> QED
    BY <1>1, <1>2, <2>2 DEF Refusal
<1>5. ASSUME NEW m \in {0} \cup MatchIds, NEW restored \in BOOLEAN
      PROVE  FitsUpdate(MatchJoined(m, restored))
  <2>1. m \in Int32
    BY FieldsFit, MatchIdsAssumption
  <2>2. /\ FitsNested(U32, m) /\ FitsNested(U32, 1) /\ FitsNested(Bool, restored) /\ FitsNested(U8, 0)
    BY <2>1, FieldsFit, ScalarsFit
  <2>3. Fits(<<U32, U32, Bool, U8, U8>>, <<m, 1, restored, 0, 0>>)
    BY <2>2, FewFit
  <2> QED
    BY <1>1, <1>2, <2>3 DEF MatchJoined
<1>6. ASSUME NEW ms \in SUBSET MatchIds PROVE FitsUpdate(MatchList(ms))
  <2>1. Fits(<<ListOf(U16, <<U32, Str, U8, U8>>)>>, MatchList(ms).payload)
    BY ListOfMatches
  <2>2. MatchList(ms) = Message(130, MatchList(ms).payload)
    BY DEF MatchList, Message
  <2> QED
    BY <1>1, <1>2, <2>1, <2>2
<1>7. FitsUpdate(WorldMap)
  <2> DEFINE first == <<0, FALSE>>
             second == <<3, TRUE>>
             cells == <<first, second>>
             grid == [width |-> 2, height |-> 1, cells |-> cells]
             row == <<U8, Bool>>
             f == GridOf(row)
  <2>1. ASSUME NEW n \in {0, 3}, NEW blocked \in BOOLEAN PROVE FitsRow(FitsSimple, row, <<n, blocked>>)
    <3>1. FitsSimple(U8, n) /\ FitsSimple(Bool, blocked)
      BY FieldsFit, ScalarsFit
    <3>2. IsSequence(row) /\ IsSequence(<<n, blocked>>)
      BY DEF IsSequence
    <3>3. \A i \in 1..Len(row) : FitsSimple(row[i], <<n, blocked>>[i])
      BY <3>1
    <3> QED
      BY <3>2, <3>3 DEF FitsRow
  <2>2. FitsRow(FitsSimple, row, first) /\ FitsRow(FitsSimple, row, second)
    <3> HIDE DEF row
    <3> QED
      BY <2>1, Zenon
  <2> HIDE DEF first, second
  <2>3. IsSequence(cells) /\ Len(cells) = 2 /\ cells[1] = first /\ cells[2] = second
    BY DEF IsSequence
  <2> HIDE DEF cells, row
  <2>4. \A i \in 1..Len(cells) : FitsRow(FitsSimple, row, cells[i])
    BY <2>2, <2>3
  <2>5. FitsRows(FitsSimple, row, cells)
    BY <2>3, <2>4 DEF FitsRows
  <2>6. /\ grid = [width |-> grid.width, height |-> grid.height, cells |-> grid.cells]
        /\ grid.width = 2 /\ grid.height = 1 /\ grid.cells = cells
    OBVIOUS
  <2>7. 2 \in Counts /\ 1 \in Counts
    BY FieldsFit
  <2>8. f.kind = "grid" /\ f.layout = row
    BY DEF GridOf
  <2> HIDE DEF grid, f
  <2>9. FitsNested(f, grid)
    BY <2>3, <2>5, <2>6, <2>7, <2>8 DEF FitsNested, FitsField
  <2>10. Fits(<<f>>, <<grid>>)
    BY <2>9, FewFit
  <2>11. Fits(Server!Updates[137], <<grid>>)
    BY <1>1, <2>10 DEF f, row
  <2>12. WorldMap = Message(137, <<grid>>)
    BY DEF WorldMap, grid, cells, first, second
  <2> QED
    BY <1>2, <2>11, <2>12
<1> QED
  BY <1>3, <1>4, <1>5, <1>6, <1>7, UpdatesAssumption DEF Updated

\* So both ways carry what is written on them.
LEMMA BothCarried ==
    /\ AllCarried(Client!Requests, Server!Requests, Requested)
    /\ AllCarried(Server!Updates, Client!Updates, Updated)
<1>1. \A m \in Requested : Carries(Client!Requests, Server!Requests, m)
  BY RequestedFit, RequestCarries
<1>2. \A u \in Updated : Carries(Server!Updates, Client!Updates, u)
  BY UpdatedFit, UpdateCarries
<1> QED
  BY <1>1, <1>2 DEF AllCarried
-----------------------------------------------------------------------------
\* An append is a concatenation.
LEMMA AppendIs ==
    ASSUME NEW S, NEW q \in Seq(S), NEW u \in S
    PROVE  <<u>> \in Seq(S) /\ q \o <<u>> \in Seq(S) /\ Append(q, u) = q \o <<u>>
<1>1. Append(q, u) = q \o <<u>> /\ Append(q, u) \in Seq(S)
  BY AppendIsConcat, AppendProperties
<1> QED
  BY <1>1

\* What the invariant says of messages that are on their way.
Holds(q, op) == \E i \in DOMAIN q : q[i].op = op
OnlyOf(q, ops) == \A i \in DOMAIN q : q[i].op \in ops
MapsFollow(q) == \A i \in DOMAIN q : q[i].op = 137 => \E j \in 1..i - 1 : q[j].op = 132

\* Nothing is on its way,
LEMMA OfNothing ==
    /\ \A op : ~ Holds(<<>>, op)
    /\ \A ops : OnlyOf(<<>>, ops)
    /\ MapsFollow(<<>>)
BY DEF Holds, OnlyOf, MapsFollow

\* one message,
LEMMA OfOne ==
    ASSUME NEW u
    PROVE  /\ \A op : Holds(<<u>>, op) <=> u.op = op
           /\ \A ops : OnlyOf(<<u>>, ops) <=> u.op \in ops
           /\ MapsFollow(<<u>>) <=> u.op # 137
<1>1. DOMAIN <<u>> = {1} /\ <<u>>[1] = u
  OBVIOUS
<1> DEFINE e == <<u>>
<1>2. DOMAIN e = {1} /\ e[1] = u
  BY <1>1
<1> HIDE DEF e
<1>3. (\A op : Holds(e, op) <=> u.op = op) /\ (\A ops : OnlyOf(e, ops) <=> u.op \in ops)
  BY <1>2 DEF Holds, OnlyOf
<1>4. MapsFollow(e) <=> u.op # 137
  <2>1. 1..1 - 1 = {}
    OBVIOUS
  <2> QED
    BY <1>2, <2>1 DEF MapsFollow
<1> QED
  BY <1>3, <1>4 DEF e

\* the messages of one part and those of another.
LEMMA OfParts ==
    ASSUME NEW S, NEW q \in Seq(S), NEW r \in Seq(S)
    PROVE  /\ q \o r \in Seq(S)
           /\ \A op : Holds(q \o r, op) <=> Holds(q, op) \/ Holds(r, op)
           /\ \A ops : OnlyOf(q \o r, ops) <=> OnlyOf(q, ops) /\ OnlyOf(r, ops)
           /\ MapsFollow(q \o r) => MapsFollow(q)
           /\ MapsFollow(q) /\ (Holds(q, 132) \/ ~ Holds(r, 137)) => MapsFollow(q \o r)
           /\ MapsFollow(q \o r) /\ ~ Holds(q, 132) => MapsFollow(r)
<1> DEFINE w == q \o r
<1>1. /\ w \in Seq(S) /\ Len(w) = Len(q) + Len(r)
      /\ \A i \in 1..Len(q) + Len(r) : w[i] = IF i <= Len(q) THEN q[i] ELSE r[i - Len(q)]
  BY ConcatProperties
<1>2. /\ Len(q) \in Nat /\ Len(r) \in Nat /\ DOMAIN q = 1..Len(q) /\ DOMAIN r = 1..Len(r)
      /\ DOMAIN w = 1..Len(q) + Len(r)
  <2> HIDE DEF w
  <2> QED
    BY <1>1, LenProperties
<1> HIDE DEF w
<1>3. ASSUME NEW i \in DOMAIN q PROVE i \in DOMAIN w /\ w[i] = q[i]
  <2>1. i \in 1..Len(q) + Len(r) /\ i <= Len(q)
    BY <1>2
  <2> QED
    BY <1>1, <1>2, <2>1
<1>4. ASSUME NEW i \in DOMAIN r PROVE Len(q) + i \in DOMAIN w /\ w[Len(q) + i] = r[i]
  <2>1. Len(q) + i \in 1..Len(q) + Len(r) /\ ~ (Len(q) + i <= Len(q)) /\ Len(q) + i - Len(q) = i
    BY <1>2
  <2> QED
    BY <1>1, <1>2, <2>1
<1>5. ASSUME NEW i \in DOMAIN w
      PROVE  \/ i \in DOMAIN q /\ w[i] = q[i]
             \/ i - Len(q) \in DOMAIN r /\ w[i] = r[i - Len(q)]
  <2>1. CASE i <= Len(q)
    <3>1. i \in DOMAIN q
      BY <1>2, <2>1
    <3> QED
      BY <1>3, <3>1
  <2>2. CASE ~ (i <= Len(q))
    <3>1. i - Len(q) \in DOMAIN r /\ Len(q) + (i - Len(q)) = i
      BY <1>2, <2>2
    <3>2. w[Len(q) + (i - Len(q))] = r[i - Len(q)]
      BY <1>4, <3>1
    <3> QED
      BY <3>1, <3>2
  <2> QED
    BY <2>1, <2>2
<1>6. \A op : Holds(w, op) <=> Holds(q, op) \/ Holds(r, op)
  BY <1>3, <1>4, <1>5 DEF Holds
<1>7. \A ops : OnlyOf(w, ops) <=> OnlyOf(q, ops) /\ OnlyOf(r, ops)
  BY <1>3, <1>4, <1>5 DEF OnlyOf
<1>8. ASSUME MapsFollow(w) PROVE MapsFollow(q)
  <2> SUFFICES ASSUME NEW i \in DOMAIN q, q[i].op = 137 PROVE \E j \in 1..i - 1 : q[j].op = 132
    BY DEF MapsFollow
  <2>1. PICK j \in 1..i - 1 : w[j].op = 132
    BY <1>3, <1>8 DEF MapsFollow
  <2>2. j \in DOMAIN q
    BY <1>2, <2>1
  <2> QED
    BY <1>3, <2>1, <2>2
<1>9. ASSUME MapsFollow(q), Holds(q, 132) \/ ~ Holds(r, 137) PROVE MapsFollow(w)
  <2> SUFFICES ASSUME NEW i \in DOMAIN w, w[i].op = 137 PROVE \E j \in 1..i - 1 : w[j].op = 132
    BY DEF MapsFollow
  <2>1. CASE i \in DOMAIN q /\ w[i] = q[i]
    <3>1. PICK j \in 1..i - 1 : q[j].op = 132
      BY <1>9, <2>1 DEF MapsFollow
    <3>2. j \in DOMAIN q
      BY <1>2, <2>1, <3>1
    <3> QED
      BY <1>3, <3>1, <3>2
  <2>2. CASE i - Len(q) \in DOMAIN r /\ w[i] = r[i - Len(q)]
    <3>1. Holds(r, 137)
      BY <2>2 DEF Holds
    <3>2. PICK j \in DOMAIN q : q[j].op = 132
      BY <1>9, <3>1 DEF Holds
    <3>3. j \in 1..i - 1
      BY <1>2, <2>2, <3>2
    <3> QED
      BY <1>3, <3>2, <3>3
  <2> QED
    BY <1>5, <2>1, <2>2
<1>10. ASSUME MapsFollow(w), ~ Holds(q, 132) PROVE MapsFollow(r)
  <2> SUFFICES ASSUME NEW i \in DOMAIN r, r[i].op = 137 PROVE \E j \in 1..i - 1 : r[j].op = 132
    BY DEF MapsFollow
  <2>1. PICK j \in 1..Len(q) + i - 1 : w[j].op = 132
    BY <1>4, <1>10 DEF MapsFollow
  <2>2. j \in DOMAIN w
    BY <1>2, <2>1
  <2>3. ~ (j \in DOMAIN q /\ w[j] = q[j])
    BY <1>10, <2>1 DEF Holds
  <2>4. j - Len(q) \in DOMAIN r /\ w[j] = r[j - Len(q)]
    BY <1>5, <2>2, <2>3
  <2>5. j - Len(q) \in 1..i - 1
    BY <1>2, <2>1, <2>4
  <2> QED
    BY <2>1, <2>4, <2>5
<1> QED
  BY <1>1, <1>6, <1>7, <1>8, <1>9, <1>10 DEF w

\* The first message taken away: it was no map unless a map followed nothing.
LEMMA OfTail ==
    ASSUME NEW S, NEW q \in Seq(S), q # <<>>
    PROVE  /\ Head(q) \in S /\ Tail(q) \in Seq(S)
           /\ \A op : Holds(q, op) <=> Head(q).op = op \/ Holds(Tail(q), op)
           /\ \A ops : OnlyOf(q, ops) <=> Head(q).op \in ops /\ OnlyOf(Tail(q), ops)
           /\ MapsFollow(q) => Head(q).op # 137
           /\ MapsFollow(q) /\ Head(q).op # 132 => MapsFollow(Tail(q))
<1> DEFINE e == <<Head(q)>>
           r == Tail(q)
<1>1. Head(q) \in S /\ r \in Seq(S) /\ e \in Seq(S) /\ e \o r = q
  BY HeadAndTail
<1>2. /\ \A op : Holds(e, op) <=> Head(q).op = op
      /\ \A ops : OnlyOf(e, ops) <=> Head(q).op \in ops
      /\ MapsFollow(e) <=> Head(q).op # 137
  BY OfOne
<1> HIDE DEF e, r
<1>3. /\ \A op : Holds(e \o r, op) <=> Holds(e, op) \/ Holds(r, op)
      /\ \A ops : OnlyOf(e \o r, ops) <=> OnlyOf(e, ops) /\ OnlyOf(r, ops)
      /\ MapsFollow(e \o r) => MapsFollow(e)
      /\ MapsFollow(e \o r) /\ ~ Holds(e, 132) => MapsFollow(r)
  BY <1>1, OfParts
<1> QED
  BY <1>1, <1>2, <1>3, ZenonT(30) DEF r
-----------------------------------------------------------------------------
\* What is kept and left by the steps below: every message is one of the conversation.
Typed ==
    /\ TypeOK
    /\ asked \in Seq(Requested)
    /\ inbox \in Seq(Updated) /\ said \in Seq(Updated) /\ outbox \in Seq(Updated)
    /\ misread \in BOOLEAN /\ misheard \in BOOLEAN /\ strayed \in BOOLEAN

\* The updates this client will come to, in their order.
Row(a, b, c) == (a \o b) \o c
Coming == Row(inbox, said, outbox)

\* A message taken from the front, put at the end, lost with others at the end.
Taken(m, q, r) ==
    /\ \A op : Holds(q, op) <=> m.op = op \/ Holds(r, op)
    /\ \A ops : OnlyOf(q, ops) <=> m.op \in ops /\ OnlyOf(r, ops)
    /\ MapsFollow(q) => m.op # 137
    /\ MapsFollow(q) /\ m.op # 132 => MapsFollow(r)
Added(u, q, r) ==
    /\ \A op : Holds(r, op) <=> Holds(q, op) \/ u.op = op
    /\ \A ops : OnlyOf(r, ops) <=> OnlyOf(q, ops) /\ u.op \in ops
    /\ MapsFollow(q) /\ (u.op # 137 \/ Holds(q, 132)) => MapsFollow(r)
Lost(q, r) ==
    /\ \A ops : OnlyOf(q, ops) => OnlyOf(r, ops)
    /\ MapsFollow(q) => MapsFollow(r)

\* A row of sequences, as BytesInARow.
LEMMA SeqsInARow ==
    ASSUME NEW S, NEW x \in Seq(S), NEW y \in Seq(S), NEW z \in Seq(S)
    PROVE  (x \o y) \o z = x \o (y \o z)
BY ConcatAssociative

\* The head of one moves to the end of the one before it.
LEMMA HeadMoves ==
    ASSUME NEW S, NEW x \in Seq(S), NEW y \in Seq(S), y # <<>>
    PROVE  /\ Append(x, Head(y)) \in Seq(S) /\ Tail(y) \in Seq(S)
           /\ Append(x, Head(y)) \o Tail(y) = x \o y
<1> DEFINE e == <<Head(y)>>
           r == Tail(y)
<1>1. e \in Seq(S) /\ r \in Seq(S) /\ e \o r = y /\ Head(y) \in S
  BY HeadAndTail
<1>2. Append(x, Head(y)) = x \o e /\ x \o e \in Seq(S)
  BY <1>1, AppendIs
<1> HIDE DEF e, r
<1>3. e \in Seq(S) /\ r \in Seq(S)
  BY <1>1
<1>4. (x \o e) \o r = x \o (e \o r)
  BY <1>3, SeqsInARow
<1> QED
  BY <1>1, <1>2, <1>4 DEF r

\* The three queues in a row: a message moves from each to the next without a change of
\* place, leaves the first and enters the last.
LEMMA Moves ==
    ASSUME NEW S, NEW a \in Seq(S), NEW b \in Seq(S), NEW c \in Seq(S)
    PROVE  /\ a # <<>> => (a \o b) \o c = <<Head(a)>> \o ((Tail(a) \o b) \o c)
           /\ b # <<>> => Row(Append(a, Head(b)), Tail(b), c) = Row(a, b, c)
           /\ c # <<>> => Row(a, Append(b, Head(c)), Tail(c)) = Row(a, b, c)
           /\ \A u \in S : (a \o b) \o (c \o <<u>>) = ((a \o b) \o c) \o <<u>>
<1>1. ASSUME NEW x \in Seq(S), NEW y \in Seq(S) PROVE x \o y \in Seq(S)
  BY ConcatProperties
<1>2. ASSUME a # <<>> PROVE (a \o b) \o c = <<Head(a)>> \o ((Tail(a) \o b) \o c)
  <2> DEFINE e == <<Head(a)>>
             r == Tail(a)
  <2>1. e \in Seq(S) /\ r \in Seq(S) /\ a = e \o r
    BY <1>2, HeadAndTail
  <2> HIDE DEF e, r
  <2>2. (e \o r) \o b = e \o (r \o b) /\ r \o b \in Seq(S)
    BY SeqsInARow, <1>1, <2>1, SMTT(30)
  <2>3. (e \o (r \o b)) \o c = e \o ((r \o b) \o c)
    BY SeqsInARow, <2>1, <2>2, SMTT(30)
  <2> QED
    BY <2>1, <2>2, <2>3 DEF e, r
<1>4. ASSUME c # <<>> PROVE (a \o Append(b, Head(c))) \o Tail(c) = (a \o b) \o c
  <2> DEFINE x == Append(b, Head(c))
             r == Tail(c)
  <2>1. x \in Seq(S) /\ r \in Seq(S) /\ x \o r = b \o c
    BY <1>4, HeadMoves
  <2> HIDE DEF x, r
  <2>0. x \in Seq(S) /\ r \in Seq(S)
    BY <2>1
  <2>2. (a \o x) \o r = a \o (x \o r)
    BY <2>0, SeqsInARow, SMTT(60)
  <2>3. (a \o b) \o c = a \o (b \o c)
    BY SeqsInARow
  <2> QED
    BY <2>1, <2>2, <2>3 DEF x, r
<1>5. ASSUME b # <<>> PROVE (Append(a, Head(b)) \o Tail(b)) \o c = (a \o b) \o c
  BY <1>5, HeadMoves
<1>6. ASSUME NEW u \in S PROVE (a \o b) \o (c \o <<u>>) = ((a \o b) \o c) \o <<u>>
  <2> DEFINE e == <<u>>
             ab == a \o b
  <2>1. e \in Seq(S) /\ ab \in Seq(S)
    BY <1>1
  <2> HIDE DEF e, ab
  <2>2. (ab \o c) \o e = ab \o (c \o e)
    BY SeqsInARow, <2>1, SMTT(60)
  <2> QED
    BY <2>2 DEF e, ab
<1> QED
  BY <1>2, <1>4, <1>5, <1>6 DEF Row

\* What they say of the queues.
LEMMA ChangesOf ==
    ASSUME NEW S, NEW a \in Seq(S), NEW b \in Seq(S), NEW c \in Seq(S)
    PROVE  /\ a # <<>> => Taken(Head(a), (a \o b) \o c, (Tail(a) \o b) \o c)
           /\ \A u \in S : Added(u, (a \o b) \o c, (a \o b) \o (c \o <<u>>))
           /\ Lost((a \o b) \o c, (a \o b) \o <<>>)
<1>1. a \o b \in Seq(S) /\ (a \o b) \o c \in Seq(S)
  BY ConcatProperties
<1>2. ASSUME a # <<>> PROVE Taken(Head(a), (a \o b) \o c, (Tail(a) \o b) \o c)
  <2> DEFINE m == Head(a)
             e == <<m>>
             q == (a \o b) \o c
             r == (Tail(a) \o b) \o c
  <2>1. e \in Seq(S) /\ Tail(a) \in Seq(S) /\ q = e \o r
    BY <1>2, HeadAndTail, Moves
  <2>2. r \in Seq(S)
    BY <2>1, ConcatProperties
  <2>3. /\ \A op : Holds(e, op) <=> m.op = op
        /\ \A ops : OnlyOf(e, ops) <=> m.op \in ops
        /\ MapsFollow(e) <=> m.op # 137
    BY OfOne
  <2> HIDE DEF e, r, m
  <2>4. /\ \A op : Holds(e \o r, op) <=> Holds(e, op) \/ Holds(r, op)
        /\ \A ops : OnlyOf(e \o r, ops) <=> OnlyOf(e, ops) /\ OnlyOf(r, ops)
        /\ MapsFollow(e \o r) => MapsFollow(e)
        /\ MapsFollow(e \o r) /\ ~ Holds(e, 132) => MapsFollow(r)
    BY <2>1, <2>2, OfParts
  <2>5. Taken(m, e \o r, r)
    BY <2>3, <2>4 DEF Taken
  <2> QED
    BY <2>1, <2>5 DEF r, m
<1>3. ASSUME NEW u \in S PROVE Added(u, (a \o b) \o c, (a \o b) \o (c \o <<u>>))
  <2> DEFINE e == <<u>>
             q == (a \o b) \o c
  <2>1. e \in Seq(S) /\ (a \o b) \o (c \o e) = q \o e
    BY Moves
  <2>2. /\ \A op : Holds(e, op) <=> u.op = op
        /\ \A ops : OnlyOf(e, ops) <=> u.op \in ops
    BY OfOne
  <2> HIDE DEF e, q
  <2>3. q \in Seq(S)
    BY <1>1 DEF q
  <2>4. /\ \A op : Holds(q \o e, op) <=> Holds(q, op) \/ Holds(e, op)
        /\ \A ops : OnlyOf(q \o e, ops) <=> OnlyOf(q, ops) /\ OnlyOf(e, ops)
        /\ MapsFollow(q) /\ (Holds(q, 132) \/ ~ Holds(e, 137)) => MapsFollow(q \o e)
    BY <2>1, <2>3, OfParts
  <2>5. Added(u, q, q \o e)
    BY <2>2, <2>4 DEF Added
  <2> QED
    BY <2>1, <2>5 DEF q, e
<1>4. Lost((a \o b) \o c, (a \o b) \o <<>>)
  <2> DEFINE ab == a \o b
  <2>1. ab \in Seq(S) /\ ab \o <<>> = ab
    BY <1>1, ConcatEmptySeq
  <2> HIDE DEF ab
  <2>2. /\ \A ops : OnlyOf(ab \o c, ops) <=> OnlyOf(ab, ops) /\ OnlyOf(c, ops)
        /\ MapsFollow(ab \o c) => MapsFollow(ab)
    BY <2>1, OfParts
  <2>3. Lost(ab \o c, ab \o <<>>)
    BY <2>1, <2>2 DEF Lost
  <2> QED
    BY <2>3 DEF ab
<1> QED
  BY <1>2, <1>3, <1>4
-----------------------------------------------------------------------------
\* The first of the requests on the stream, as ServerReads and Leaves find it: all of it is
\* there unless the client is gone.
LEMMA RequestArrives ==
    ASSUME Typed, RequestsArriveWhole, ~ strayed, up # <<>>
    PROVE  /\ asked # <<>> /\ Head(asked) \in Requested /\ Tail(asked) \in Seq(Requested)
           /\ Head(asked) = Message(up[1], Head(asked).payload)
           /\ up[1] \in DOMAIN Server!Requests /\ Tail(up) \in Bytes
           /\ RecvPayload.status = "short" => page = "closed"
           /\ RecvPayload.status # "bad"
           /\ RecvPayload.status = "whole" =>
                 /\ RecvPayload.value = Head(asked).payload /\ RecvPayload.rest \in Bytes
                 /\ IsPrefix(RecvPayload.rest, PutMessages(Client!Requests, Tail(asked)))
                 /\ page # "closed" => RecvPayload.rest = PutMessages(Client!Requests, Tail(asked))
<1>1. /\ up \in Bytes /\ asked \in Seq(Requested) /\ IsPrefix(up, PutMessages(Client!Requests, asked))
      /\ page # "closed" => up = PutMessages(Client!Requests, asked)
  BY DEF Typed, TypeOK, RequestsArriveWhole, AskedBytes
<1>2. AllCarried(Client!Requests, Server!Requests, Requested)
  BY BothCarried
<1>3. /\ asked # <<>> /\ Head(asked) \in Requested /\ Tail(asked) \in Seq(Requested)
      /\ up[1] = Head(asked).op /\ up[1] \in DOMAIN Server!Requests /\ Tail(up) \in Bytes
      /\ Arrives(Client!Requests, Server!Requests, asked, up)
  BY <1>1, <1>2, FirstArrives
<1>4. Head(asked) = Message(up[1], Head(asked).payload)
  <2>1. FitsRequest(Head(asked))
    BY <1>3, RequestedFit
  <2> QED
    BY <1>3, <2>1 DEF FitsRequest
<1>5. RecvPayload = Get(Server!Requests[up[1]], Tail(up))
  BY DEF RecvPayload
<1> QED
  BY <1>1, <1>3, <1>4, <1>5 DEF Arrives

\* The first of the updates on the stream, as receive_update finds it.
LEMMA UpdateArrives ==
    ASSUME Typed, UpdatesArriveWhole, down # <<>>
    PROVE  /\ said # <<>> /\ Head(said) \in Updated /\ Tail(said) \in Seq(Updated)
           /\ Head(said) = Message(down[1], Head(said).payload)
           /\ ReceiveUpdate.status = "short" => downEnd
           /\ ReceiveUpdate.status # "bad"
           /\ ReceiveUpdate.status = "whole" =>
                 /\ ReceiveUpdate.value = Head(said).payload /\ ReceiveUpdate.rest \in Bytes
                 /\ IsPrefix(ReceiveUpdate.rest, PutMessages(Server!Updates, Tail(said)))
                 /\ ~ downEnd => ReceiveUpdate.rest = PutMessages(Server!Updates, Tail(said))
<1>1. /\ down \in Bytes /\ said \in Seq(Updated) /\ IsPrefix(down, PutMessages(Server!Updates, said))
      /\ ~ downEnd => down = PutMessages(Server!Updates, said)
  BY DEF Typed, TypeOK, UpdatesArriveWhole, SaidBytes
<1>2. AllCarried(Server!Updates, Client!Updates, Updated)
  BY BothCarried
<1>3. /\ said # <<>> /\ Head(said) \in Updated /\ Tail(said) \in Seq(Updated)
      /\ down[1] = Head(said).op /\ down[1] \in DOMAIN Client!Updates
      /\ Arrives(Server!Updates, Client!Updates, said, down)
  BY <1>1, <1>2, FirstArrives
<1>4. Head(said) = Message(down[1], Head(said).payload)
  <2>1. FitsUpdate(Head(said))
    BY <1>3, UpdatedFit
  <2> QED
    BY <1>3, <2>1 DEF FitsUpdate
<1>5. ReceiveUpdate = Get(Client!Updates[down[1]], Tail(down))
  BY <1>3 DEF ReceiveUpdate
<1> QED
  BY <1>1, <1>3, <1>4, <1>5 DEF Arrives

\* Requests and updates put one after the other.
LEMMA MorePut ==
    /\ \A q, r \in Seq(Requested) :
          /\ PutMessages(Client!Requests, q) \in Bytes
          /\ PutMessages(Client!Requests, q \o r)
               = PutMessages(Client!Requests, q) \o PutMessages(Client!Requests, r)
    /\ \A q \in Seq(Updated), u \in Updated :
          /\ PutMessages(Server!Updates, q) \in Bytes /\ PutMessage(Server!Updates, u) \in Bytes
          /\ PutMessages(Server!Updates, Append(q, u))
               = PutMessages(Server!Updates, q) \o PutMessage(Server!Updates, u)
<1>1. Writes(Client!Requests, Requested) /\ Writes(Server!Updates, Updated)
  BY BothCarried, CarriedIsWritten
<1>2. ASSUME NEW q \in Seq(Requested), NEW r \in Seq(Requested)
      PROVE  /\ PutMessages(Client!Requests, q) \in Bytes
             /\ PutMessages(Client!Requests, q \o r)
                  = PutMessages(Client!Requests, q) \o PutMessages(Client!Requests, r)
  BY <1>1, MessagesConcat
<1>3. ASSUME NEW q \in Seq(Updated), NEW u \in Updated
      PROVE  /\ PutMessages(Server!Updates, q) \in Bytes /\ PutMessage(Server!Updates, u) \in Bytes
             /\ PutMessages(Server!Updates, Append(q, u))
                  = PutMessages(Server!Updates, q) \o PutMessage(Server!Updates, u)
  <2>1. PutMessage(Server!Updates, u) \in Bytes
    BY <1>1 DEF Writes
  <2>2. PutMessages(Server!Updates, <<u>>) = PutMessage(Server!Updates, u)
    BY <2>1, MessagesFew
  <2>3. <<u>> \in Seq(Updated) /\ Append(q, u) = q \o <<u>>
    BY AppendIs
  <2> DEFINE e == <<u>>
  <2> HIDE DEF e
  <2>4. /\ PutMessages(Server!Updates, q) \in Bytes
        /\ PutMessages(Server!Updates, q \o e)
             = PutMessages(Server!Updates, q) \o PutMessages(Server!Updates, e)
    BY <1>1, <2>3, MessagesConcat DEF e
  <2> QED
    BY <2>1, <2>2, <2>3, <2>4 DEF e
<1> QED
  BY <1>2, <1>3

\* What is written by the client keeps its stream in step.
LEMMA SendStep ==
    ASSUME Typed, RequestsArriveWhole, NEW ms \in Seq(Requested), Send(ms),
           page # "closed", UNCHANGED <<misread, strayed>>
    PROVE  up' \in Bytes /\ asked' \in Seq(Requested) /\ RequestsArriveWhole'
<1>1. up \in Bytes /\ asked \in Seq(Requested) /\ up' = up \o PutMessages(Client!Requests, ms)
      /\ asked' = asked \o ms
  BY DEF Typed, TypeOK, Send
<1>2. /\ PutMessages(Client!Requests, asked) \in Bytes /\ PutMessages(Client!Requests, ms) \in Bytes
      /\ PutMessages(Client!Requests, asked \o ms)
           = PutMessages(Client!Requests, asked) \o PutMessages(Client!Requests, ms)
  BY <1>1, MorePut
<1>3. up' \in Bytes
  BY <1>1, <1>2, BytesJoin
<1>4. asked' \in Seq(Requested)
  BY <1>1, ConcatProperties
<1>5. ASSUME ~ strayed PROVE ~ misread' /\ up' = PutMessages(Client!Requests, asked')
  BY <1>1, <1>2, <1>5 DEF RequestsArriveWhole, AskedBytes
<1>6. IsPrefix(up', up')
  BY <1>3, WholeIsPrefix
<1>7. strayed' = strayed
  OBVIOUS
<1> QED
  BY <1>3, <1>4, <1>5, <1>6, <1>7 DEF RequestsArriveWhole, AskedBytes
-----------------------------------------------------------------------------
\* The inductive invariant: the messages and the streams (Typed, MessagesArriveWhole), who
\* is still connected (Linked), and what is known of the answers that are on their way.

\* The timer runs on the pages of MainWindow with a Client to poll; a handler is over before
\* its queue is closed and before its end of the stream is.
Linked ==
    /\ polling => page \in {"connection", "lobby"} /\ ~ upEnd
    /\ busy => page = "connection" /\ polling
    /\ upEnd => page \in {"connection", "closed"}
    /\ polling /\ inboxClosed => downEnd
    /\ downEnd => conn = "over" /\ ~ sender
    /\ outboxClosed => conn = "over"

\* An attempt to log in: its request is on its way, or its answer is.
LoggingIn ==
    /\ OnlyOf(Coming, {129, 238})
    /\ conn # "IN_MATCH" /\ ~ strayed
    /\ asked = <<>> \/ (asked = <<Login>> /\ conn = "CONNECTED") \/ downEnd
    /\ Holds(Coming, 129) => (asked = <<>> /\ conn = "AUTHENTICATED") \/ downEnd
    /\ busy => asked = <<Login>> \/ Holds(Coming, 129) \/ Holds(Coming, 238) \/ downEnd
BeforeLogin == page = "connection" /\ polling => LoggingIn

\* In the lobby: the server has let the client into no match, or MATCH_JOINED is on its way
\* or about to be, and the map is behind it.
Unmatched == conn = "AUTHENTICATED" /\ ~ strayed /\ OnlyOf(asked, {2, 3, 4})
Choosing ==
    /\ Unmatched \/ joining = "told" \/ Holds(Coming, 132) \/ downEnd
    /\ joining = "map" => Holds(Coming, 132)
    /\ Holds(Coming, 132) => joining # "no" \/ Holds(Coming, 137) \/ downEnd
    /\ MapsFollow(Coming)
InLobby == page = "lobby" /\ polling => Choosing

\* After the lobby.
MapComes == page \in {"race", "game"} => map \/ joining # "no" \/ Holds(Coming, 137) \/ downEnd

\* All of it.
Streams == Typed /\ RequestsArriveWhole /\ UpdatesArriveWhole
Answers == Linked /\ BeforeLogin /\ InLobby /\ MapComes
IInv == Streams /\ Answers

\* The messages by their opcodes.
LEMMA RequestOps ==
    /\ <<ListMatches>> \in Seq(Requested) /\ <<CreateMatch>> \in Seq(Requested)
    /\ <<Login>> \in Seq(Requested) /\ <<SelectRaceClass>> \in Seq(Requested)
    /\ <<LeaveMatch, ListMatches>> \in Seq(Requested)
    /\ \A m \in MatchIds : <<JoinMatch(m)>> \in Seq(Requested)
    /\ \A r \in GameRequests : <<r>> \in Seq(Requested)
    /\ Login.op = 1 /\ ListMatches.op = 2 /\ CreateMatch.op = 3 /\ \A m \in MatchIds : JoinMatch(m).op = 4
<1>1. /\ Login \in Requested /\ ListMatches \in Requested /\ CreateMatch \in Requested
      /\ SelectRaceClass \in Requested /\ LeaveMatch \in Requested
      /\ \A m \in MatchIds : JoinMatch(m) \in Requested
      /\ \A r \in GameRequests : r \in Requested
  BY DEF Requested
<1>2. ASSUME NEW a \in Requested, NEW b \in Requested
      PROVE  <<a>> \in Seq(Requested) /\ <<a, b>> \in Seq(Requested)
  OBVIOUS
<1>3. Login.op = 1 /\ ListMatches.op = 2 /\ CreateMatch.op = 3 /\ \A m \in MatchIds : JoinMatch(m).op = 4
  BY DEF Login, ListMatches, CreateMatch, JoinMatch, Message
<1> QED
  BY <1>1, <1>2, <1>3

\* Only the lobby's answers have the opcodes of the lobby, and the list of matches has the
\* ids of matches.
LEMMA UpdateOps ==
    /\ LoginOk \in Updated /\ LoginOk.op = 129 /\ MatchCreated \in Updated /\ MatchCreated.op = 131
    /\ WorldMap \in Updated /\ WorldMap.op = 137 /\ Refusal \in Updated /\ Refusal.op = 238
    /\ \A ms \in SUBSET MatchIds : MatchList(ms) \in Updated /\ MatchList(ms).op = 130
    /\ \A m \in {0} \cup MatchIds, restored \in BOOLEAN :
          MatchJoined(m, restored) \in Updated /\ MatchJoined(m, restored).op = 132
    /\ \A u \in Broadcasts : u \in Updated /\ u.op \notin {129, 130, 131, 132, 137, 238}
    /\ \A u \in Updated : u.op = 130 => \E ms \in SUBSET MatchIds : u = MatchList(ms)
<1>1. /\ LoginOk \in Updated /\ MatchCreated \in Updated /\ WorldMap \in Updated /\ Refusal \in Updated
      /\ \A ms \in SUBSET MatchIds : MatchList(ms) \in Updated
      /\ \A m \in {0} \cup MatchIds, restored \in BOOLEAN : MatchJoined(m, restored) \in Updated
      /\ \A u \in Broadcasts : u \in Updated
  BY DEF Updated
<1>2. /\ LoginOk.op = 129 /\ MatchCreated.op = 131 /\ WorldMap.op = 137 /\ Refusal.op = 238
      /\ \A ms : MatchList(ms).op = 130
      /\ \A m, restored : MatchJoined(m, restored).op = 132
  BY DEF LoginOk, MatchCreated, WorldMap, Refusal, MatchList, MatchJoined, Message
<1>3. \A u \in Broadcasts : u.op \notin {129, 130, 131, 132, 137, 238}
  BY BroadcastsAssumption DEF IsLobbyUpdate
<1>4. ASSUME NEW u \in Updated, u.op = 130 PROVE \E ms \in SUBSET MatchIds : u = MatchList(ms)
  BY <1>2, <1>3, <1>4 DEF Updated
<1> QED
  BY <1>1, <1>2, <1>3, <1>4

\* The lobby shows ids of matches.
LEMMA RowsAreMatches ==
    ASSUME NEW u \in Updated, u.op = 130
    PROVE  {u.payload[1][i][1] : i \in DOMAIN u.payload[1]} \subseteq MatchIds
<1>1. PICK ms \in SUBSET MatchIds : u = MatchList(ms)
  BY UpdateOps
<1>2. \A i \in DOMAIN MatchList(ms).payload[1] : MatchList(ms).payload[1][i][1] \in ms
  BY ListOfMatches
<1> DEFINE p == MatchList(ms).payload[1]
<1> HIDE DEF p
<1>3. {p[i][1] : i \in DOMAIN p} \subseteq MatchIds
  BY <1>2 DEF p
<1> QED
  BY <1>1, <1>3 DEF p

\* Nothing said.
LEMMA NothingSaid ==
    /\ <<>> \in Seq(Requested) /\ <<>> \in Seq(Updated) /\ <<>> \in Bytes
    /\ PutMessages(Client!Requests, <<>>) = <<>> /\ PutMessages(Server!Updates, <<>>) = <<>>
    /\ IsPrefix(<<>>, <<>>)
<1>1. <<>> \in Bytes
  BY EmptySeq DEF Bytes
<1>2. PutMessages(Client!Requests, <<>>) = <<>> /\ PutMessages(Server!Updates, <<>>) = <<>>
  BY DEF PutMessages, FlattenSeq
<1>3. IsPrefix(<<>>, <<>>)
  BY <1>1, WholeIsPrefix
<1> QED
  BY <1>1, <1>2, <1>3

\* What a step leaves alone stays whole.
LEMMA RequestsKept ==
    ASSUME RequestsArriveWhole, UNCHANGED <<up, asked, misread, strayed>>, page' # "closed" => page # "closed"
    PROVE  RequestsArriveWhole'
<1>1. AskedBytes' = AskedBytes
  BY DEF AskedBytes
<1> QED
  BY <1>1 DEF RequestsArriveWhole

\* And what the server said.
LEMMA UpdatesKept ==
    ASSUME UpdatesArriveWhole, UNCHANGED <<down, downEnd, said, misheard>>
    PROVE  UpdatesArriveWhole'
<1>1. SaidBytes' = SaidBytes
  BY DEF SaidBytes
<1> QED
  BY <1>1 DEF UpdatesArriveWhole
-----------------------------------------------------------------------------
\* What is pushed to the send queue is an update, whether the queue takes it or not.
LEMMA EnqueueTypes ==
    ASSUME outbox \in Seq(Updated), NEW u \in Updated, Enqueue(<<u>>)
    PROVE  outbox' \in Seq(Updated)
<1>1. <<u>> \in Seq(Updated) /\ outbox \o <<u>> \in Seq(Updated)
  BY AppendIs
<1> QED
  BY <1>1 DEF Enqueue

\* What the handlers leave: at most one answer, and none that the lobby learns a match from.
LEMMA Handles ==
    ASSUME NEW op, NEW payload, Handle(op, payload)
    PROVE  /\ outbox' = outbox \/ \E u \in Updated : u.op \in {129, 130, 131, 238} /\ Enqueue(<<u>>)
           /\ op # 1 => outbox' = outbox \/ \E u \in Updated : u.op \in {130, 131, 238} /\ Enqueue(<<u>>)
           /\ op = 1 => \/ conn' = "AUTHENTICATED" /\ Enqueue(<<LoginOk>>)
                        \/ conn' = conn /\ Enqueue(<<Refusal>>)
           /\ op \in {2, 3} => conn' = conn
           /\ op = 4 => conn' = conn \/ (conn' = "IN_MATCH" /\ joining' = "told")
           /\ conn' \in {conn, "AUTHENTICATED", "IN_MATCH"}
           /\ joining' = joining \/ (conn' = "IN_MATCH" /\ joining' = "told")
           /\ match' = match \/ match' \in {0} \cup MatchIds
<1>1. CASE op = 1
  BY <1>1, UpdateOps DEF Handle, OnLogin
<1>2. CASE op = 2
  <2>1. PICK ms \in SUBSET MatchIds : Enqueue(<<MatchList(ms)>>)
    BY <1>2 DEF Handle
  <2>2. MatchList(ms) \in Updated /\ MatchList(ms).op = 130
    BY UpdateOps
  <2> QED
    BY <1>2, <2>1, <2>2 DEF Handle
<1>3. CASE op = 3
  BY <1>3, UpdateOps DEF Handle
<1>4. CASE op = 4
  BY <1>4, UpdateOps DEF Handle, OnJoinMatch
<1>5. CASE op = 254
  BY <1>5 DEF Handle
<1>6. CASE op \notin {1, 2, 3, 4, 254}
  BY <1>6 DEF Handle
<1> QED
  BY <1>1, <1>2, <1>3, <1>4, <1>5, <1>6

\* poll_updates: the slot of each update.
LEMMA Polls ==
    ASSUME PollUpdate
    PROVE  /\ Head(inbox).op = 129 => OnLoginOk
           /\ Head(inbox).op = 130 => OnMatchList(Head(inbox))
           /\ Head(inbox).op = 131 => OnMatchCreated
           /\ Head(inbox).op = 132 => OnMatchJoined(Head(inbox))
           /\ Head(inbox).op = 238 => ShowError /\ UNCHANGED upVars
           /\ Head(inbox).op \notin {129, 130, 131, 132, 238} =>
                 UNCHANGED <<page, busy, polling, rows, upVars>>
<1> DEFINE u == Head(inbox)
<1>1. (CASE u.op = 129 -> OnLoginOk
           [] u.op = 130 -> OnMatchList(u)
           [] u.op = 131 -> OnMatchCreated
           [] u.op = 132 -> OnMatchJoined(u)
           [] u.op = 238 -> ShowError /\ UNCHANGED upVars
           [] OTHER      -> UNCHANGED <<page, busy, polling, rows, upVars>>)
  BY DEF PollUpdate
<1> HIDE DEF u
<1> QED
  BY <1>1 DEF u

\* The table of the server has every opcode a state has a case for.
LEMMA AcceptedKnown ==
    ASSUME NEW op, Accepts(op), conn \in {"CONNECTED", "AUTHENTICATED", "IN_MATCH"}
    PROVE  op \in DOMAIN Server!Requests
<1> DEFINE Asks == 1..5 \cup 16..25 \cup {32, 33, 254, 255}
<1>1. DOMAIN Server!Requests = Asks
  BY DEF Server!Requests
<1>2. op = 1 \/ op \in {2, 3, 4} \/ op \in InMatchOps
  BY DEF Accepts
<1>3. op \in Asks
  BY <1>2 DEF InMatchOps
<1> HIDE DEF Asks
<1> QED
  BY <1>1, <1>3

\* A request that has no payload is its opcode.
LEMMA NoPayload ==
    ASSUME NEW m \in Requested, m.payload = <<>>
    PROVE  Put(Client!Requests[m.op], m.payload) = <<>>
<1> DEFINE layout == Client!Requests[m.op]
<1>1. Fits(layout, m.payload)
  BY RequestedFit DEF FitsRequest
<1> HIDE DEF layout
<1>2. Len(layout) = 0 /\ layout = [i \in 1..Len(layout) |-> layout[i]]
  BY <1>1 DEF Fits, FitsRow, IsSequence
<1>3. DOMAIN layout = {}
  BY <1>2
<1>4. [i \in DOMAIN layout |-> PutNested(layout[i], m.payload[i])] = <<>>
  BY <1>3
<1>5. Put(layout, m.payload) = <<>>
  BY <1>4 DEF Put, PutRow, FlattenSeq
<1> QED
  BY <1>5 DEF layout

\* RefusesOp of a request without a payload takes the whole of it.
LEMMA RefusedWhole ==
    ASSUME Typed, RequestsArriveWhole, ~ strayed, up # <<>>, Head(asked).payload = <<>>
    PROVE  /\ IsPrefix(Tail(up), PutMessages(Client!Requests, Tail(asked)))
           /\ page # "closed" => Tail(up) = PutMessages(Client!Requests, Tail(asked))
<1> DEFINE m == Head(asked)
           layout == Server!Requests[up[1]]
           rest == Tail(up)
<1>1. m \in Requested /\ m.op = up[1] /\ m.payload = <<>> /\ rest \in Bytes
  BY RequestArrives DEF Message
<1>2. Carries(Client!Requests, Server!Requests, m)
  BY <1>1, BothCarried DEF AllCarried
<1>3. ReadsAs(<<>>, layout, m.payload)
  BY <1>1, <1>2, NoPayload DEF Carries
<1>4. RecvPayload = Get(layout, rest)
  BY DEF RecvPayload
<1> HIDE DEF layout, rest, m
<1>5. Get(layout, <<>> \o rest) = Read(m.payload, rest)
  BY <1>1, <1>3 DEF ReadsAs
<1>6. <<>> \o rest = rest
  BY <1>1, BytesInARow
<1>7. RecvPayload = Read(m.payload, rest)
  BY <1>4, <1>5, <1>6
<1>8. RecvPayload.status = "whole" /\ RecvPayload.rest = rest
  BY <1>7, ReadIs
<1> QED
  BY <1>8, RequestArrives DEF rest
-----------------------------------------------------------------------------
\* Every message arrives, step by step: what each action writes and reads, and the types it
\* leaves.
LEMMA StreamsStep ==
    ASSUME IInv, [Next]_vars
    PROVE  Streams'
<1> USE DEF Streams
<1>0. Typed /\ RequestsArriveWhole /\ UpdatesArriveWhole /\ Linked
  BY DEF IInv, Answers
<1>1. CASE Connect
  <2>1. asked' = <<Login>> /\ <<Login>> \in Seq(Requested)
    BY <1>1, RequestOps DEF Connect
  <2>2. up' = PutMessages(Client!Requests, asked') /\ up' \in Bytes
    <3>1. Login \in Requested /\ Writes(Client!Requests, Requested)
      BY BothCarried, CarriedIsWritten DEF Requested
    <3>2. PutMessage(Client!Requests, Login) \in Bytes
      BY <3>1 DEF Writes
    <3>3. PutMessages(Client!Requests, <<Login>>) = PutMessage(Client!Requests, Login)
      BY <3>2, MessagesFew
    <3> QED
      BY <1>1, <2>1, <3>2, <3>3 DEF Connect
  <2>3. IsPrefix(up', up')
    BY <2>2, WholeIsPrefix
  <2>4. RequestsArriveWhole'
    BY <1>1, <2>2, <2>3 DEF Connect, RequestsArriveWhole, AskedBytes
  <2>5. UpdatesArriveWhole'
    BY <1>1, NothingSaid DEF Connect, UpdatesArriveWhole, SaidBytes
  <2>6. Typed'
    BY <1>0, <1>1, <2>1, <2>2, NothingSaid DEF Connect, Typed, TypeOK
  <2> QED
    BY <2>4, <2>5, <2>6
<1>2. CASE Refresh \/ Create \/ \E m \in MatchIds : Join(m)
  <2>1. PICK ms \in Seq(Requested) : Send(ms) /\ page = "lobby"
    BY <1>2, RequestOps DEF Refresh, Create, Join
  <2>2. UNCHANGED <<page, busy, polling, rows, map, downVars, inboxVars, handlerVars, outboxVars>>
    BY <1>2 DEF Refresh, Create, Join
  <2>3. up' \in Bytes /\ asked' \in Seq(Requested) /\ RequestsArriveWhole' /\ upEnd' = upEnd
    BY <1>0, <2>1, <2>2, SendStep DEF handlerVars, Send
  <2>4. UpdatesArriveWhole'
    BY <1>0, <2>2, UpdatesKept DEF downVars, inboxVars
  <2>5. Typed'
    BY <1>0, <2>2, <2>3 DEF Typed, TypeOK, downVars, inboxVars, handlerVars, outboxVars
  <2> QED
    BY <2>3, <2>4, <2>5
<1>3. CASE Confirm \/ BackToLobby
  <2>1. PICK ms \in Seq(Requested) : Send(ms) /\ page = "race"
    BY <1>3, RequestOps DEF Confirm, BackToLobby
  <2>2. /\ page' \in {"game", "lobby"} /\ (polling' = FALSE \/ polling' = polling)
        /\ UNCHANGED <<busy, rows, map, downVars, inboxVars, handlerVars, outboxVars>>
    BY <1>3 DEF Confirm, BackToLobby
  <2>3. up' \in Bytes /\ asked' \in Seq(Requested) /\ RequestsArriveWhole' /\ upEnd' = upEnd
    BY <1>0, <2>1, <2>2, SendStep DEF handlerVars, Send
  <2>4. UpdatesArriveWhole'
    BY <1>0, <2>2, UpdatesKept DEF downVars, inboxVars
  <2>5. Typed'
    <3>1. TypeOK'
      <4>1. (page \in {"connection", "lobby", "race", "game", "closed"})'
        BY <2>2
      <4>2. (busy \in BOOLEAN /\ polling \in BOOLEAN /\ rows \subseteq MatchIds /\ map \in BOOLEAN)'
        BY <1>0, <2>2 DEF Typed, TypeOK
      <4>3. (up \in Bytes /\ down \in Bytes /\ upEnd \in BOOLEAN /\ downEnd \in BOOLEAN)'
        BY <1>0, <2>2, <2>3 DEF Typed, TypeOK, downVars
      <4>4. (inboxClosed \in BOOLEAN /\ outboxClosed \in BOOLEAN /\ sender \in BOOLEAN)'
        BY <1>0, <2>2, <2>3 DEF Typed, TypeOK, inboxVars, outboxVars
      <4>5. (/\ conn \in {"CONNECTED", "AUTHENTICATED", "IN_MATCH", "over"}
             /\ joining \in {"no", "told", "map"} /\ match \in {0} \cup MatchIds
             /\ joining # "no" => conn = "IN_MATCH")'
        BY <1>0, <2>2, <2>3 DEF Typed, TypeOK, handlerVars
      <4> QED
        BY <4>1, <4>2, <4>3, <4>4, <4>5 DEF TypeOK
    <3> QED
      BY <1>0, <2>2, <2>3, <3>1 DEF Typed, downVars, inboxVars, handlerVars, outboxVars
  <2> QED
    BY <2>3, <2>4, <2>5
<1>4. CASE \E r \in GameRequests : Play(r)
  <2>1. PICK ms \in Seq(Requested) : Send(ms) /\ page = "game"
    BY <1>4, RequestOps DEF Play
  <2>2. UNCHANGED <<page, busy, polling, rows, map, downVars, inboxVars, handlerVars, outboxVars>>
    BY <1>4 DEF Play
  <2>3. up' \in Bytes /\ asked' \in Seq(Requested) /\ RequestsArriveWhole' /\ upEnd' = upEnd
    BY <1>0, <2>1, <2>2, SendStep DEF handlerVars, Send
  <2>4. UpdatesArriveWhole'
    BY <1>0, <2>2, UpdatesKept DEF downVars, inboxVars
  <2>5. Typed'
    BY <1>0, <2>2, <2>3 DEF Typed, TypeOK, downVars, inboxVars, handlerVars, outboxVars
  <2> QED
    BY <2>3, <2>4, <2>5
<1>5. ASSUME Gone, page' \in {"connection", "closed"}, busy' = FALSE,
             up' \in Bytes, RequestsArriveWhole'
      PROVE  Streams'
  <2>1. UpdatesArriveWhole'
    BY <1>0, <1>5, NothingSaid DEF Gone, UpdatesArriveWhole, SaidBytes
  <2>2. Typed'
    BY <1>0, <1>5, NothingSaid, ZenonT(30) DEF Gone, Typed, TypeOK, handlerVars, outboxVars
  <2> QED
    BY <1>5, <2>1, <2>2
<1>6. CASE LogOut
  <2>1. RequestsArriveWhole' /\ up' \in Bytes
    BY <1>0, <1>6, RequestsKept DEF LogOut, Gone, handlerVars, Typed, TypeOK
  <2> QED
    BY <1>5, <1>6, <2>1 DEF LogOut
<1>7. CASE Quit
  <2>1. up' \in Bytes /\ (~ strayed => IsPrefix(up', AskedBytes))
    <3>1. CASE up' = up
      BY <1>0, <3>1 DEF RequestsArriveWhole, Typed, TypeOK
    <3>2. CASE up # <<>> /\ up' = SubSeq(up, 1, Len(up) - 1)
      <4>1. up \in Bytes /\ AskedBytes \in Bytes
        BY <1>0, MorePut DEF Typed, TypeOK, AskedBytes
      <4>2. up' \in Bytes
        <5>1. IsPrefix(up, up)
          BY <4>1, WholeIsPrefix
        <5> QED
          BY <3>2, <4>1, <5>1, LessIsPrefix
      <4>3. ASSUME ~ strayed PROVE IsPrefix(up', AskedBytes)
        <5>1. IsPrefix(up, AskedBytes)
          BY <1>0, <4>3 DEF RequestsArriveWhole
        <5> QED
          BY <3>2, <4>1, <5>1, LessIsPrefix
      <4> QED
        BY <4>2, <4>3
    <3> QED
      BY <1>7, <3>1, <3>2 DEF Quit
  <2>2. RequestsArriveWhole'
    <3>1. UNCHANGED <<asked, strayed, misread>> /\ page' = "closed"
      BY <1>7 DEF Quit, Gone, handlerVars
    <3>2. AskedBytes' = AskedBytes
      BY <3>1 DEF AskedBytes
    <3> QED
      BY <1>0, <2>1, <3>1, <3>2 DEF RequestsArriveWhole
  <2> QED
    BY <1>5, <1>7, <2>1, <2>2 DEF Quit
<1>8. CASE ClientReceives
  <2>1. ReceiveUpdate.status = "whole" /\ down # <<>>
    BY <1>8 DEF ClientReceives, ReceiveUpdate, Short
  <2> DEFINE u == Message(down[1], ReceiveUpdate.value)
  <2>2. /\ u = Head(said) /\ Head(said) \in Updated /\ Tail(said) \in Seq(Updated)
        /\ ReceiveUpdate.rest \in Bytes
        /\ IsPrefix(ReceiveUpdate.rest, PutMessages(Server!Updates, Tail(said)))
        /\ ~ downEnd => ReceiveUpdate.rest = PutMessages(Server!Updates, Tail(said))
    BY <1>0, <2>1, UpdateArrives
  <2>3. /\ inbox' = Append(inbox, u) /\ down' = ReceiveUpdate.rest /\ said' = Tail(said)
        /\ misheard' = (misheard \/ u # Head(said))
        /\ UNCHANGED <<inboxClosed, downEnd, windowVars, upVars, handlerVars, outboxVars>>
    BY <1>8 DEF ClientReceives
  <2> HIDE DEF u
  <2>4. UpdatesArriveWhole'
    BY <1>0, <2>2, <2>3 DEF UpdatesArriveWhole, SaidBytes
  <2>5. RequestsArriveWhole'
    BY <1>0, <2>3, RequestsKept DEF windowVars, upVars, handlerVars
  <2>6. inbox' \in Seq(Updated)
    BY <1>0, <2>2, <2>3, AppendIs DEF Typed
  <2>7. Typed'
    BY <1>0, <2>2, <2>3, <2>6 DEF Typed, TypeOK, UpdatesArriveWhole, windowVars, upVars, handlerVars, outboxVars
  <2> QED
    BY <2>4, <2>5, <2>7
<1>9. CASE ClientReceiverEnds
  <2>1. inboxClosed' = TRUE /\ UNCHANGED <<inbox, misheard, windowVars, upVars, downVars, handlerVars, outboxVars>>
    BY <1>9 DEF ClientReceiverEnds
  <2>2. RequestsArriveWhole' /\ UpdatesArriveWhole'
    BY <1>0, <2>1, RequestsKept, UpdatesKept DEF windowVars, upVars, downVars, handlerVars
  <2>3. Typed'
    BY <1>0, <2>1 DEF Typed, TypeOK, windowVars, upVars, downVars, handlerVars, outboxVars
  <2> QED
    BY <2>2, <2>3
<1>10. CASE PollUpdate
  <2> DEFINE u == Head(inbox)
  <2>1. u \in Updated /\ Tail(inbox) \in Seq(Updated)
    BY <1>0, <1>10, OfTail DEF Typed, PollUpdate
  <2>2. /\ inbox' = Tail(inbox) /\ page \in {"connection", "lobby"}
        /\ UNCHANGED <<map, clicks, inboxClosed, misheard, downVars, handlerVars, outboxVars>>
    BY <1>0, <1>10 DEF PollUpdate, Linked
  <2>3. /\ page' \in {page, "lobby", "race", "game"} 
        /\ busy' = FALSE \/ busy' = busy
        /\ polling' = FALSE \/ polling' = polling
        /\ rows' \subseteq MatchIds
        /\ UNCHANGED upVars \/ \E ms \in Seq(Requested) : Send(ms)
    <3>1. rows \subseteq MatchIds
      BY <1>0 DEF Typed, TypeOK
    <3>2. <<ListMatches>> \in Seq(Requested)
      BY RequestOps
    <3>3. CASE u.op = 129
      <4>1. OnLoginOk
        BY <1>10, <3>3, Polls
      <4>2. Send(<<ListMatches>>) /\ page' = "lobby" /\ busy' = FALSE /\ polling' = polling /\ rows' = rows
        BY <4>1 DEF OnLoginOk
      <4>3. \E ms \in Seq(Requested) : Send(ms)
        BY <3>2, <4>2, Zenon
      <4> QED
        BY <3>1, <4>2, <4>3
    <3>4. CASE u.op = 130
      <4>1. OnMatchList(u)
        BY <1>10, <3>4, Polls
      <4>2. rows' \subseteq MatchIds
        BY <2>1, <3>4, <4>1, RowsAreMatches DEF OnMatchList
      <4> QED
        BY <4>1, <4>2 DEF OnMatchList
    <3>5. CASE u.op = 131
      <4>1. OnMatchCreated
        BY <1>10, <3>5, Polls
      <4>2. Send(<<ListMatches>>) /\ page' = page /\ busy' = busy /\ polling' = polling /\ rows' = rows
        BY <4>1 DEF OnMatchCreated
      <4>3. \E ms \in Seq(Requested) : Send(ms)
        BY <3>2, <4>2, Zenon
      <4> QED
        BY <3>1, <4>2, <4>3
    <3>6. CASE u.op = 132
      BY <1>10, <3>1, <3>6, Polls DEF OnMatchJoined
    <3>7. CASE u.op = 238
      BY <1>10, <3>1, <3>7, Polls DEF ShowError
    <3>8. CASE u.op \notin {129, 130, 131, 132, 238}
      BY <1>10, <3>1, <3>8, Polls
    <3> QED
      BY <3>3, <3>4, <3>5, <3>6, <3>7, <3>8
  <2>4. page # "closed" /\ page' # "closed"
    BY <2>2, <2>3
  <2>5. up' \in Bytes /\ asked' \in Seq(Requested) /\ upEnd' = upEnd /\ RequestsArriveWhole'
    <3>1. CASE UNCHANGED upVars
      <4>1. RequestsArriveWhole'
        BY <1>0, <2>2, <2>4, <3>1, RequestsKept DEF upVars, handlerVars
      <4> QED
        BY <1>0, <3>1, <4>1 DEF Typed, TypeOK, upVars
    <3>2. CASE \E ms \in Seq(Requested) : Send(ms)
      BY <1>0, <2>2, <2>4, <3>2, SendStep DEF handlerVars, Send
    <3> QED
      BY <2>3, <3>1, <3>2
  <2>6. UpdatesArriveWhole'
    BY <1>0, <2>2, UpdatesKept DEF downVars
  <2>7. Typed'
    <3>1. TypeOK'
      <4>1. (page \in {"connection", "lobby", "race", "game", "closed"})'
        BY <2>2, <2>3
      <4>2. (busy \in BOOLEAN /\ polling \in BOOLEAN /\ rows \subseteq MatchIds /\ map \in BOOLEAN)'
        BY <1>0, <2>2, <2>3 DEF Typed, TypeOK
      <4>3. (up \in Bytes /\ down \in Bytes /\ upEnd \in BOOLEAN /\ downEnd \in BOOLEAN)'
        BY <1>0, <2>2, <2>5 DEF Typed, TypeOK, downVars
      <4>4. (inboxClosed \in BOOLEAN /\ outboxClosed \in BOOLEAN /\ sender \in BOOLEAN)'
        BY <1>0, <2>2, <2>3 DEF Typed, TypeOK, outboxVars
      <4>5. (/\ conn \in {"CONNECTED", "AUTHENTICATED", "IN_MATCH", "over"}
             /\ joining \in {"no", "told", "map"} /\ match \in {0} \cup MatchIds
             /\ joining # "no" => conn = "IN_MATCH")'
        BY <1>0, <2>2, <2>3 DEF Typed, TypeOK, handlerVars
      <4> QED
        BY <4>1, <4>2, <4>3, <4>4, <4>5 DEF TypeOK
    <3> QED
      BY <1>0, <2>1, <2>2, <2>3, <2>5, <3>1 DEF Typed, downVars, handlerVars, outboxVars
  <2> QED
    BY <2>5, <2>6, <2>7
<1>11. CASE PollClosed
  <2>1. RequestsArriveWhole' /\ up' \in Bytes
    <3>1. UNCHANGED <<up, asked, misread, strayed>> /\ page' = "closed" /\ page # "closed"
      BY <1>0, <1>11 DEF PollClosed, Gone, handlerVars, Linked
    <3> QED
      BY <1>0, <3>1, RequestsKept DEF Typed, TypeOK
  <2> QED
    BY <1>5, <1>11, <2>1 DEF PollClosed
<1>12. CASE ApplyPending
  <2>1. /\ inbox' = Tail(inbox) /\ inbox # <<>> /\ map' \in BOOLEAN
        /\ UNCHANGED <<page, busy, polling, rows, clicks, inboxClosed, misheard, upVars, downVars,
                       handlerVars, outboxVars>>
    BY <1>0, <1>12 DEF ApplyPending, Typed, TypeOK
  <2>2. RequestsArriveWhole' /\ UpdatesArriveWhole'
    BY <1>0, <2>1, RequestsKept, UpdatesKept DEF upVars, downVars, handlerVars
  <2>3. Tail(inbox) \in Seq(Updated)
    BY <1>0, <2>1, OfTail DEF Typed
  <2>4. Typed'
    BY <1>0, <2>1, <2>3 DEF Typed, TypeOK, upVars, downVars, handlerVars, outboxVars
  <2> QED
    BY <2>2, <2>4
<1>13. CASE RefusesOp
  <2>1. /\ Reading /\ up # <<>> /\ up' = Tail(up) /\ Enqueue(<<Refusal>>)
        /\ strayed' = (strayed \/ (asked # <<>> /\ Head(asked).payload # <<>>))
        /\ asked' = IF strayed' THEN <<>> ELSE Tail(asked)
        /\ UNCHANGED <<upEnd, windowVars, downVars, inboxVars, conn, joining, match, misread,
                       outboxClosed, sender, broadcasts>>
    BY <1>13 DEF RefusesOp
  <2>2. outbox' \in Seq(Updated)
    BY <1>0, <2>1, EnqueueTypes, UpdateOps DEF Typed
  <2>3. Tail(up) \in Bytes
    BY <1>0, <2>1, HeadTailProperties DEF Typed, TypeOK, Bytes
  <2>4. strayed' \in BOOLEAN
    BY <1>0, <2>1 DEF Typed
  <2>5. ASSUME ~ strayed'
        PROVE  /\ Tail(asked) \in Seq(Requested) /\ asked' = Tail(asked) /\ ~ misread'
               /\ IsPrefix(up', PutMessages(Client!Requests, asked'))
               /\ page' # "closed" => up' = PutMessages(Client!Requests, asked')
    <3>1. ~ strayed /\ ~ (asked # <<>> /\ Head(asked).payload # <<>>)
      BY <2>1, <2>5
    <3>2. asked # <<>> /\ Tail(asked) \in Seq(Requested)
      BY <1>0, <2>1, <3>1, RequestArrives
    <3>3. Head(asked).payload = <<>>
      BY <3>1, <3>2
    <3>4. /\ IsPrefix(Tail(up), PutMessages(Client!Requests, Tail(asked)))
          /\ page # "closed" => Tail(up) = PutMessages(Client!Requests, Tail(asked))
      BY <1>0, <2>1, <3>1, <3>3, RefusedWhole
    <3> QED
      BY <1>0, <2>1, <2>5, <3>1, <3>2, <3>4 DEF RequestsArriveWhole, windowVars
  <2>6. RequestsArriveWhole'
    BY <2>5 DEF RequestsArriveWhole, AskedBytes
  <2>7. asked' \in Seq(Requested)
    BY <2>1, <2>5, NothingSaid
  <2>8. UpdatesArriveWhole'
    BY <1>0, <2>1, UpdatesKept DEF downVars, inboxVars
  <2>9. Typed'
    BY <1>0, <2>1, <2>2, <2>3, <2>4, <2>7 DEF Typed, TypeOK, windowVars, downVars, inboxVars
  <2> QED
    BY <2>6, <2>8, <2>9
<1>14. CASE ServerReads
  <2> DEFINE r == RecvPayload
  <2>1. /\ Reading /\ up # <<>> /\ Accepts(up[1]) /\ r.status = "whole" /\ up' = r.rest
        /\ asked' = IF strayed THEN <<>> ELSE Tail(asked)
        /\ misread' = (misread \/ (~ strayed /\ ~ AsAsked(Message(up[1], r.value))))
        /\ Handle(up[1], r.value)
        /\ UNCHANGED <<upEnd, strayed, windowVars, downVars, inboxVars, outboxClosed, sender, broadcasts>>
    BY <1>14 DEF ServerReads
  <2>2. r.rest \in Bytes
    <3>1. up[1] \in DOMAIN Server!Requests
      BY <1>0, <2>1, AcceptedKnown DEF Reading, Typed, TypeOK
    <3>2. Tail(up) \in Bytes
      BY <1>0, <2>1, HeadTailProperties DEF Typed, TypeOK, Bytes
    <3> QED
      BY <3>1, <3>2, RequestsLeave DEF RecvPayload
  <2> HIDE DEF r
  <2>3. ASSUME ~ strayed
        PROVE  /\ Tail(asked) \in Seq(Requested) /\ asked' = Tail(asked) /\ ~ misread'
               /\ IsPrefix(up', PutMessages(Client!Requests, asked'))
               /\ page' # "closed" => up' = PutMessages(Client!Requests, asked')
    <3>1. /\ asked # <<>> /\ Tail(asked) \in Seq(Requested)
          /\ Head(asked) = Message(up[1], Head(asked).payload) /\ r.value = Head(asked).payload
          /\ IsPrefix(r.rest, PutMessages(Client!Requests, Tail(asked)))
          /\ page # "closed" => r.rest = PutMessages(Client!Requests, Tail(asked))
      BY <1>0, <2>1, <2>3, RequestArrives DEF r
    <3>2. AsAsked(Message(up[1], r.value))
      BY <3>1 DEF AsAsked
    <3>3. ~ misread'
      BY <1>0, <2>1, <2>3, <3>2 DEF RequestsArriveWhole
    <3> QED
      BY <2>1, <2>3, <3>1, <3>3 DEF windowVars
  <2>4. RequestsArriveWhole'
    BY <2>1, <2>3 DEF RequestsArriveWhole, AskedBytes
  <2>5. asked' \in Seq(Requested) /\ misread' \in BOOLEAN
    BY <1>0, <2>1, <2>3, NothingSaid DEF Typed
  <2>6. UpdatesArriveWhole'
    BY <1>0, <2>1, UpdatesKept DEF downVars, inboxVars
  <2>7. outbox' \in Seq(Updated)
    <3>1. outbox' = outbox \/ \E u \in Updated : Enqueue(<<u>>)
      BY <2>1, Handles
    <3> QED
      BY <1>0, <3>1, EnqueueTypes DEF Typed
  <2>8. /\ conn' \in {"CONNECTED", "AUTHENTICATED", "IN_MATCH", "over"}
        /\ joining' \in {"no", "told", "map"} /\ match' \in {0} \cup MatchIds
        /\ joining' # "no" => conn' = "IN_MATCH"
    <3>1. /\ conn' \in {conn, "AUTHENTICATED", "IN_MATCH"}
          /\ joining' = joining \/ (conn' = "IN_MATCH" /\ joining' = "told")
          /\ match' = match \/ match' \in {0} \cup MatchIds
      BY <2>1, Handles
    <3> QED
      BY <1>0, <2>1, <3>1 DEF Typed, TypeOK, Reading
  <2>9. Typed'
    BY <1>0, <2>1, <2>2, <2>5, <2>7, <2>8 DEF Typed, TypeOK, windowVars, downVars, inboxVars
  <2> QED
    BY <2>4, <2>6, <2>9
<1>15. CASE TellsJoined \/ SendsMap
  <2>1. /\ joining # "no" /\ joining' \in {"no", "map"}
        /\ UNCHANGED <<conn, match, misread, strayed, outboxClosed, sender, broadcasts,
                       windowVars, upVars, downVars, inboxVars>>
    BY <1>15 DEF TellsJoined, SendsMap
  <2>2. \E u \in Updated : Enqueue(<<u>>)
    <3>1. match \in {0} \cup MatchIds
      BY <1>0 DEF Typed, TypeOK
    <3> QED
      BY <1>15, <3>1, UpdateOps DEF TellsJoined, SendsMap
  <2>3. outbox' \in Seq(Updated)
    BY <1>0, <2>2, EnqueueTypes DEF Typed
  <2>4. RequestsArriveWhole' /\ UpdatesArriveWhole'
    BY <1>0, <2>1, RequestsKept, UpdatesKept DEF windowVars, upVars, downVars, inboxVars
  <2>5. Typed'
    BY <1>0, <2>1, <2>3 DEF Typed, TypeOK, windowVars, upVars, downVars, inboxVars
  <2> QED
    BY <2>4, <2>5
<1>16. CASE ReceiverEnds
  <2>1. /\ joining = "no" /\ conn' = "over" /\ match' = 0 /\ outboxClosed' = TRUE
        /\ UNCHANGED <<joining, misread, strayed, outbox, sender, broadcasts,
                       windowVars, upVars, downVars, inboxVars>>
    BY <1>16 DEF ReceiverEnds, Reading
  <2>2. RequestsArriveWhole' /\ UpdatesArriveWhole'
    BY <1>0, <2>1, RequestsKept, UpdatesKept DEF windowVars, upVars, downVars, inboxVars
  <2>3. Typed'
    BY <1>0, <2>1 DEF Typed, TypeOK, windowVars, upVars, downVars, inboxVars
  <2> QED
    BY <2>2, <2>3
<1>17. CASE \E u \in Broadcasts : MatchSays(u)
  <2>1. PICK u \in Broadcasts : Enqueue(<<u>>)
    BY <1>17 DEF MatchSays
  <2>2. UNCHANGED <<outboxClosed, sender, windowVars, upVars, downVars, inboxVars, handlerVars>>
    BY <1>17 DEF MatchSays
  <2>3. outbox' \in Seq(Updated)
    BY <1>0, <2>1, EnqueueTypes, UpdateOps DEF Typed
  <2>4. RequestsArriveWhole' /\ UpdatesArriveWhole'
    BY <1>0, <2>2, RequestsKept, UpdatesKept DEF windowVars, upVars, downVars, inboxVars, handlerVars
  <2>5. Typed'
    BY <1>0, <2>2, <2>3 DEF Typed, TypeOK, windowVars, upVars, downVars, inboxVars, handlerVars
  <2> QED
    BY <2>4, <2>5
<1>18. CASE SenderSends
  <2> DEFINE u == Head(outbox)
  <2>1. /\ sender /\ outbox # <<>> /\ outbox' = Tail(outbox)
        /\ down' = IF upEnd THEN down ELSE down \o PutMessage(Server!Updates, u)
        /\ said' = IF upEnd THEN said ELSE Append(said, u)
        /\ UNCHANGED <<downEnd, outboxClosed, sender, broadcasts, windowVars, upVars, inboxVars, handlerVars>>
    BY <1>18 DEF SenderSends
  <2>2. u \in Updated /\ Tail(outbox) \in Seq(Updated) /\ ~ downEnd
    BY <1>0, <2>1, OfTail DEF Typed, Linked
  <2> HIDE DEF u
  <2>3. /\ down = PutMessages(Server!Updates, said) /\ down \in Bytes /\ said \in Seq(Updated)
        /\ PutMessage(Server!Updates, u) \in Bytes /\ ~ misheard
        /\ PutMessages(Server!Updates, Append(said, u))
             = PutMessages(Server!Updates, said) \o PutMessage(Server!Updates, u)
    BY <1>0, <2>2, MorePut DEF Typed, TypeOK, UpdatesArriveWhole, SaidBytes
  <2>4. down' \in Bytes /\ said' \in Seq(Updated) /\ down' = PutMessages(Server!Updates, said')
    <3>1. CASE upEnd
      BY <2>1, <2>3, <3>1
    <3>2. CASE ~ upEnd
      <4>1. Append(said, u) \in Seq(Updated)
        BY <2>2, <2>3, AppendIs
      <4>2. down \o PutMessage(Server!Updates, u) \in Bytes
        BY <2>3, BytesJoin
      <4> QED
        BY <2>1, <2>3, <3>2, <4>1, <4>2
    <3> QED
      BY <3>1, <3>2
  <2>5. IsPrefix(down', down')
    BY <2>4, WholeIsPrefix
  <2>6. UpdatesArriveWhole'
    BY <2>1, <2>3, <2>4, <2>5 DEF UpdatesArriveWhole, SaidBytes, inboxVars
  <2>7. RequestsArriveWhole'
    BY <1>0, <2>1, RequestsKept DEF windowVars, upVars, handlerVars
  <2>8. Typed'
    BY <1>0, <2>1, <2>2, <2>4 DEF Typed, TypeOK, windowVars, upVars, inboxVars, handlerVars
  <2> QED
    BY <2>6, <2>7, <2>8
<1>19. CASE SenderEnds
  <2>1. /\ sender' = FALSE /\ outbox' = outbox /\ outboxClosed' = outboxClosed /\ broadcasts' = broadcasts
        /\ UNCHANGED <<windowVars, upVars, downVars, inboxVars, handlerVars>>
    BY <1>19 DEF SenderEnds
  <2>2. RequestsArriveWhole' /\ UpdatesArriveWhole'
    BY <1>0, <2>1, RequestsKept, UpdatesKept DEF windowVars, upVars, downVars, inboxVars, handlerVars
  <2>3. Typed'
    <3>1. TypeOK'
      <4>1. (page \in {"connection", "lobby", "race", "game", "closed"})'
        BY <1>0, <2>1 DEF Typed, TypeOK, windowVars
      <4>2. (busy \in BOOLEAN /\ polling \in BOOLEAN /\ rows \subseteq MatchIds /\ map \in BOOLEAN)'
        BY <1>0, <2>1 DEF Typed, TypeOK, windowVars
      <4>3. (up \in Bytes /\ down \in Bytes /\ upEnd \in BOOLEAN /\ downEnd \in BOOLEAN)'
        BY <1>0, <2>1 DEF Typed, TypeOK, upVars, downVars
      <4>4. (inboxClosed \in BOOLEAN /\ outboxClosed \in BOOLEAN /\ sender \in BOOLEAN)'
        BY <1>0, <2>1 DEF Typed, TypeOK, inboxVars
      <4>5. (/\ conn \in {"CONNECTED", "AUTHENTICATED", "IN_MATCH", "over"}
             /\ joining \in {"no", "told", "map"} /\ match \in {0} \cup MatchIds
             /\ joining # "no" => conn = "IN_MATCH")'
        BY <1>0, <2>1 DEF Typed, TypeOK, handlerVars
      <4> QED
        BY <4>1, <4>2, <4>3, <4>4, <4>5 DEF TypeOK
    <3> QED
      BY <1>0, <2>1, <3>1 DEF Typed, windowVars, upVars, downVars, inboxVars, handlerVars
  <2> QED
    BY <2>2, <2>3
<1>20. CASE HandlerReaped
  <2>1. downEnd' = TRUE /\ UNCHANGED <<down, said, windowVars, upVars, inboxVars, handlerVars, outboxVars>>
    BY <1>20 DEF HandlerReaped
  <2>2. RequestsArriveWhole'
    BY <1>0, <2>1, RequestsKept DEF windowVars, upVars, handlerVars
  <2>3. UpdatesArriveWhole'
    <3>1. SaidBytes' = SaidBytes
      BY <2>1 DEF SaidBytes
    <3> QED
      BY <1>0, <2>1, <3>1 DEF UpdatesArriveWhole, inboxVars
  <2>4. Typed'
    BY <1>0, <2>1 DEF Typed, TypeOK, windowVars, upVars, inboxVars, handlerVars, outboxVars
  <2> QED
    BY <2>2, <2>3, <2>4
<1>21. CASE HardKill
  <2>1. /\ downEnd' = TRUE /\ conn' = "over" /\ joining' = "no" /\ match' = 0
        /\ outbox' = <<>> /\ outboxClosed' = TRUE /\ sender' = FALSE
        /\ down' = down \/ (down # <<>> /\ down' = SubSeq(down, 1, Len(down) - 1))
        /\ UNCHANGED <<said, misread, strayed, broadcasts, windowVars, upVars, inboxVars>>
    BY <1>21 DEF HardKill
  <2>2. down \in Bytes /\ SaidBytes \in Bytes /\ IsPrefix(down, SaidBytes) /\ SaidBytes' = SaidBytes
    <3>1. said \in Seq(Updated) /\ down \in Bytes /\ IsPrefix(down, SaidBytes)
      BY <1>0 DEF Typed, TypeOK, UpdatesArriveWhole
    <3>2. SaidBytes \in Bytes
      BY <3>1, UpdateOps, MorePut DEF SaidBytes
    <3>3. SaidBytes' = SaidBytes
      BY <2>1 DEF SaidBytes
    <3> QED
      BY <3>1, <3>2, <3>3
  <2>3. down' \in Bytes /\ IsPrefix(down', SaidBytes)
    BY <2>1, <2>2, LessIsPrefix
  <2>4. UpdatesArriveWhole'
    BY <1>0, <2>1, <2>2, <2>3 DEF UpdatesArriveWhole, inboxVars
  <2>5. RequestsArriveWhole'
    BY <1>0, <2>1, RequestsKept DEF windowVars, upVars
  <2>6. Typed'
    BY <1>0, <2>1, <2>3, NothingSaid, ZenonT(30) DEF Typed, TypeOK, windowVars, upVars, inboxVars
  <2> QED
    BY <2>4, <2>5, <2>6
<1>22. CASE UNCHANGED vars
  <2>1. UNCHANGED <<windowVars, upVars, downVars, inboxVars, handlerVars, outboxVars>>
    BY <1>22 DEF vars
  <2>2. RequestsArriveWhole' /\ UpdatesArriveWhole'
    BY <1>0, <2>1, RequestsKept, UpdatesKept DEF windowVars, upVars, downVars, inboxVars, handlerVars
  <2>3. Typed'
    BY <1>0, <2>1 DEF Typed, TypeOK, windowVars, upVars, downVars, inboxVars, handlerVars, outboxVars
  <2> QED
    BY <2>2, <2>3
<1> QED
  BY <1>1, <1>2, <1>3, <1>4, <1>6, <1>7, <1>8, <1>9, <1>10, <1>11, <1>12, <1>13, <1>14, <1>15,
     <1>16, <1>17, <1>18, <1>19, <1>20, <1>21, <1>22 DEF Next, User, ClientThreads, Handler
-----------------------------------------------------------------------------
\* How the messages on their way change: not at all when one only moves on,
LEMMA ComingMoves ==
    ASSUME Typed
    PROVE  /\ said # <<>> /\ inbox' = Append(inbox, Head(said)) /\ said' = Tail(said) /\ outbox' = outbox
                => Coming' = Coming
           /\ outbox # <<>> /\ inbox' = inbox /\ said' = Append(said, Head(outbox)) /\ outbox' = Tail(outbox)
                => Coming' = Coming
<1>1. inbox \in Seq(Updated) /\ said \in Seq(Updated) /\ outbox \in Seq(Updated)
  BY DEF Typed
<1>2. /\ said # <<>> => Row(Append(inbox, Head(said)), Tail(said), outbox) = Row(inbox, said, outbox)
      /\ outbox # <<>> => Row(inbox, Append(said, Head(outbox)), Tail(outbox)) = Row(inbox, said, outbox)
  BY <1>1, Moves, ZenonT(30)
<1> QED
  BY <1>2 DEF Coming

\* by what a thread of the server pushes,
LEMMA ComingAdds ==
    ASSUME Typed, NEW u \in Updated, Enqueue(<<u>>), ~ outboxClosed, UNCHANGED <<inbox, said>>
    PROVE  Added(u, Coming, Coming')
<1>1. inbox \in Seq(Updated) /\ said \in Seq(Updated) /\ outbox \in Seq(Updated)
  BY DEF Typed
<1>2. Added(u, (inbox \o said) \o outbox, (inbox \o said) \o (outbox \o <<u>>))
  BY <1>1, ChangesOf
<1>3. Coming' = (inbox \o said) \o (outbox \o <<u>>)
  BY DEF Coming, Row, Enqueue
<1> QED
  BY <1>2, <1>3 DEF Coming, Row

\* by what the window or the game takes, and by what is lost with the server.
LEMMA ComingLoses ==
    ASSUME Typed, UNCHANGED said
    PROVE  /\ inbox # <<>> /\ inbox' = Tail(inbox) /\ outbox' = outbox => Taken(Head(inbox), Coming, Coming')
           /\ inbox' = inbox /\ outbox' = <<>> => Lost(Coming, Coming')
<1>1. inbox \in Seq(Updated) /\ said \in Seq(Updated) /\ outbox \in Seq(Updated)
  BY DEF Typed
<1>2. /\ inbox # <<>> => Taken(Head(inbox), (inbox \o said) \o outbox, (Tail(inbox) \o said) \o outbox)
      /\ Lost((inbox \o said) \o outbox, (inbox \o said) \o <<>>)
  BY <1>1, ChangesOf
<1> QED
  BY <1>2 DEF Coming, Row

\* What is known of the answers stays known while neither end does anything about them.
LEMMA AnswersKept ==
    ASSUME BeforeLogin, InLobby, MapComes, Coming' = Coming \/ (~ polling /\ page \notin {"race", "game"}),
           UNCHANGED <<page, busy, polling, map, conn, joining, strayed, asked>>, downEnd => downEnd'
    PROVE  BeforeLogin' /\ InLobby' /\ MapComes'
<1>1. /\ page' = page /\ busy' = busy /\ polling' = polling /\ map' = map /\ conn' = conn
      /\ joining' = joining /\ strayed' = strayed /\ asked' = asked
  OBVIOUS
<1>2. BeforeLogin'
  BY <1>1 DEF BeforeLogin, LoggingIn
<1>3. InLobby'
  BY <1>1 DEF InLobby, Choosing, Unmatched
<1>4. MapComes'
  BY <1>1 DEF MapComes
<1> QED
  BY <1>2, <1>3, <1>4

\* What the server pushes adds at the end, and only messages of the opcodes it pushes.
Adds(ops, q, r) ==
    /\ \A op : Holds(q, op) => Holds(r, op)
    /\ \A op : Holds(r, op) => Holds(q, op) \/ op \in ops
    /\ \A s : ops \subseteq s /\ OnlyOf(q, s) => OnlyOf(r, s)
    /\ 137 \notin ops /\ MapsFollow(q) => MapsFollow(r)

\* As the queue takes it or, when nothing is pushed, leaves it.
LEMMA PushAdds ==
    ASSUME Typed, UNCHANGED <<inbox, said>>, ~ outboxClosed, NEW ops,
           outbox' = outbox \/ \E u \in Updated : u.op \in ops /\ Enqueue(<<u>>)
    PROVE  Adds(ops, Coming, Coming')
<1>1. CASE outbox' = outbox
  <2>1. Coming' = Coming
    BY <1>1 DEF Coming
  <2> QED
    BY <2>1 DEF Adds
<1>2. CASE \E u \in Updated : u.op \in ops /\ Enqueue(<<u>>)
  <2>1. PICK u \in Updated : u.op \in ops /\ Enqueue(<<u>>)
    BY <1>2
  <2>2. Added(u, Coming, Coming')
    BY <2>1, ComingAdds
  <2> QED
    BY <2>1, <2>2 DEF Adds, Added
<1> QED
  BY <1>1, <1>2

\* An attempt to log in that is being read is of one request, which the server has a case for.
LEMMA LoginAccepted ==
    ASSUME IInv, page = "connection", polling, Reading
    PROVE  /\ LoggingIn /\ ~ downEnd /\ ~ outboxClosed /\ ~ upEnd
           /\ up # <<>> => asked = <<Login>> /\ conn = "CONNECTED" /\ up[1] = 1 /\ Accepts(up[1])
<1>1. LoggingIn /\ ~ downEnd /\ ~ outboxClosed /\ ~ upEnd
  BY DEF IInv, Answers, BeforeLogin, Linked, Reading
<1>2. ASSUME up # <<>> PROVE asked = <<Login>> /\ conn = "CONNECTED" /\ up[1] = 1 /\ Accepts(up[1])
  <2>1. asked # <<>> /\ Head(asked) = Message(up[1], Head(asked).payload)
    BY <1>1, <1>2, RequestArrives DEF IInv, Streams, LoggingIn
  <2>2. asked = <<Login>> /\ conn = "CONNECTED"
    BY <1>1, <2>1 DEF LoggingIn
  <2>3. Head(asked).op = 1
    BY <2>2, RequestOps
  <2>4. up[1] = 1
    BY <2>1, <2>3 DEF Message
  <2> QED
    BY <2>2, <2>4 DEF Accepts
<1> QED
  BY <1>1, <1>2

\* The requests of a lobby that is in no match are those that the server has a case for.
LEMMA LobbyAccepted ==
    ASSUME IInv, page = "lobby", polling, Reading
    PROVE  /\ Choosing /\ ~ downEnd /\ ~ outboxClosed /\ ~ upEnd
           /\ Unmatched /\ up # <<>> =>
                 /\ asked # <<>> /\ Head(asked).op = up[1] /\ up[1] \in {2, 3, 4} /\ Accepts(up[1])
                 /\ OnlyOf(Tail(asked), {2, 3, 4})
<1>1. Choosing /\ ~ downEnd /\ ~ outboxClosed /\ ~ upEnd
  BY DEF IInv, Answers, InLobby, Linked, Reading
<1>2. ASSUME Unmatched, up # <<>>
      PROVE  /\ asked # <<>> /\ Head(asked).op = up[1] /\ up[1] \in {2, 3, 4} /\ Accepts(up[1])
             /\ OnlyOf(Tail(asked), {2, 3, 4})
  <2>1. asked # <<>> /\ Head(asked) = Message(up[1], Head(asked).payload) /\ asked \in Seq(Requested)
    BY <1>2, RequestArrives DEF IInv, Streams, Typed, Unmatched
  <2>2. Head(asked).op = up[1]
    BY <2>1 DEF Message
  <2>3. Head(asked).op \in {2, 3, 4} /\ OnlyOf(Tail(asked), {2, 3, 4})
    BY <1>2, <2>1, OfTail DEF Unmatched
  <2> QED
    BY <1>2, <2>1, <2>2, <2>3 DEF Accepts, Unmatched
<1> QED
  BY <1>1, <1>2

\* The receiver of a client that still waits for an answer does not leave: what is left on
\* the stream is whole.
LEMMA StaysForMore ==
    ASSUME IInv, page # "closed", ~ upEnd, ~ strayed, up # <<>> => up[1] # 255
    PROVE  ~ Leaves
<1>1. CASE up = <<>>
  BY <1>1 DEF Leaves
<1>2. CASE up # <<>>
  <2>1. RecvPayload.status # "short" /\ RecvPayload.status # "bad"
    BY <1>2, RequestArrives DEF IInv, Streams
  <2> QED
    BY <1>2, <2>1 DEF Leaves
<1> QED
  BY <1>1, <1>2

\* The lobby goes on, whatever it takes from its queue but MATCH_JOINED and whatever it asks.
LEMMA ChoosingGoesOn ==
    ASSUME Typed, Choosing, NEW u, u.op # 132, Coming' = Coming \/ Taken(u, Coming, Coming'),
           asked' = asked \/ \E r \in Requested : r.op \in {2, 3, 4} /\ asked' = asked \o <<r>>,
           UNCHANGED <<conn, strayed, joining, downEnd>>
    PROVE  Choosing'
<1>1. conn' = conn /\ strayed' = strayed /\ joining' = joining /\ downEnd' = downEnd
  OBVIOUS
<1>2. OnlyOf(asked, {2, 3, 4}) => OnlyOf(asked', {2, 3, 4})
  <2>1. CASE asked' = asked
    BY <2>1
  <2>2. CASE \E r \in Requested : r.op \in {2, 3, 4} /\ asked' = asked \o <<r>>
    <3>1. PICK r \in Requested : r.op \in {2, 3, 4} /\ asked' = asked \o <<r>>
      BY <2>2
    <3> DEFINE e == <<r>>
               ops == {2, 3, 4}
    <3>2. asked \in Seq(Requested) /\ e \in Seq(Requested) /\ OnlyOf(e, ops)
      BY <3>1, OfOne DEF Typed
    <3> HIDE DEF e, ops
    <3>3. OnlyOf(asked, ops) => OnlyOf(asked \o e, ops)
      BY <3>2, OfParts
    <3> QED
      BY <3>1, <3>3 DEF e, ops
  <2> QED
    BY <2>1, <2>2
<1>3. Unmatched => Unmatched'
  BY <1>1, <1>2 DEF Unmatched
<1>4. /\ Holds(Coming', 132) <=> Holds(Coming, 132)
      /\ Holds(Coming', 137) <=> Holds(Coming, 137)
      /\ MapsFollow(Coming')
  <2>1. MapsFollow(Coming)
    BY DEF Choosing
  <2>2. CASE Coming' = Coming
    BY <2>1, <2>2
  <2>3. CASE Taken(u, Coming, Coming')
    BY <2>1, <2>3 DEF Taken
  <2> QED
    BY <2>2, <2>3
<1> QED
  BY <1>1, <1>3, <1>4 DEF Choosing
-----------------------------------------------------------------------------
\* RefusesOp cannot come between an attempt to log in and its answer, nor between a lobby and
\* a match it is to join: what it refuses there is an answer more.
LEMMA RefusesAnswers ==
    ASSUME IInv, RefusesOp
    PROVE  Answers'
<1>1. /\ Reading /\ up # <<>> /\ ~ Accepts(up[1]) /\ Enqueue(<<Refusal>>)
      /\ UNCHANGED <<upEnd, windowVars, downVars, inboxVars, conn, joining, match, misread,
                     outboxClosed, sender, broadcasts>>
  BY DEF RefusesOp
<1>2. Typed /\ Linked /\ BeforeLogin /\ InLobby /\ MapComes
  BY DEF IInv, Streams, Answers
<1>3. conn # "over" /\ joining = "no" /\ ~ downEnd /\ ~ outboxClosed
  BY <1>1, <1>2 DEF Reading, Linked
<1>4. Adds({238}, Coming, Coming')
  <2>1. outbox' = outbox \/ \E u \in Updated : u.op \in {238} /\ Enqueue(<<u>>)
    BY <1>1, UpdateOps
  <2>2. UNCHANGED <<inbox, said>>
    BY <1>1 DEF downVars, inboxVars
  <2> QED
    BY <1>2, <1>3, <2>1, <2>2, PushAdds
<1>5. /\ page' = page /\ busy' = busy /\ polling' = polling /\ map' = map /\ upEnd' = upEnd
      /\ downEnd' = downEnd /\ inboxClosed' = inboxClosed /\ conn' = conn /\ joining' = joining
      /\ outboxClosed' = outboxClosed /\ sender' = sender
  BY <1>1 DEF windowVars, downVars, inboxVars
<1>6. Linked'
  BY <1>2, <1>5 DEF Linked
<1>7. BeforeLogin'
  <2>1. ~ (page = "connection" /\ polling)
    BY <1>1, LoginAccepted
  <2> QED
    BY <1>5, <2>1 DEF BeforeLogin
<1>8. InLobby'
  <2> SUFFICES ASSUME page = "lobby", polling PROVE Choosing'
    BY <1>5 DEF InLobby
  <2>1. Choosing /\ ~ Unmatched
    BY <1>1, LobbyAccepted
  <2>2. Holds(Coming, 132) /\ Holds(Coming, 137) /\ MapsFollow(Coming)
    BY <1>3, <2>1 DEF Choosing
  <2>3. Holds(Coming', 132) /\ Holds(Coming', 137) /\ MapsFollow(Coming')
    BY <1>4, <2>2 DEF Adds
  <2> QED
    BY <2>3 DEF Choosing
<1>9. MapComes'
  <2>1. Holds(Coming, 137) => Holds(Coming', 137)
    BY <1>4 DEF Adds
  <2> QED
    BY <1>2, <1>5, <2>1 DEF MapComes
<1> QED
  BY <1>6, <1>7, <1>8, <1>9 DEF Answers

\* A request that is read is answered: a login with LOGIN_OK or an error, and the join of a
\* match, granted, with what handle_join_match is about to say.
LEMMA ReadsAnswers ==
    ASSUME IInv, ServerReads
    PROVE  Answers'
<1> DEFINE value == RecvPayload.value
<1>1. /\ Reading /\ up # <<>> /\ Accepts(up[1]) /\ Handle(up[1], value)
      /\ asked' = IF strayed THEN <<>> ELSE Tail(asked)
      /\ UNCHANGED <<upEnd, strayed, windowVars, downVars, inboxVars, outboxClosed, sender, broadcasts>>
  BY DEF ServerReads
<1> HIDE DEF value
<1>2. Typed /\ Linked /\ BeforeLogin /\ InLobby /\ MapComes
  BY DEF IInv, Streams, Answers
<1>3. conn # "over" /\ joining = "no" /\ ~ downEnd /\ ~ outboxClosed
  BY <1>1, <1>2 DEF Reading, Linked
<1>4. /\ outbox' = outbox \/ \E u \in Updated : u.op \in {129, 130, 131, 238} /\ Enqueue(<<u>>)
      /\ up[1] # 1 => outbox' = outbox \/ \E u \in Updated : u.op \in {130, 131, 238} /\ Enqueue(<<u>>)
      /\ up[1] = 1 => \/ conn' = "AUTHENTICATED" /\ Enqueue(<<LoginOk>>)
                      \/ conn' = conn /\ Enqueue(<<Refusal>>)
      /\ up[1] \in {2, 3} => conn' = conn
      /\ up[1] = 4 => conn' = conn \/ (conn' = "IN_MATCH" /\ joining' = "told")
      /\ conn' \in {conn, "AUTHENTICATED", "IN_MATCH"}
      /\ joining' = joining \/ (conn' = "IN_MATCH" /\ joining' = "told")
  BY <1>1, Handles
<1>5. Adds({129, 130, 131, 238}, Coming, Coming')
  <2>1. UNCHANGED <<inbox, said>>
    BY <1>1 DEF downVars, inboxVars
  <2> QED
    BY <1>2, <1>3, <1>4, <2>1, PushAdds
<1>6. /\ page' = page /\ busy' = busy /\ polling' = polling /\ map' = map /\ upEnd' = upEnd
      /\ downEnd' = downEnd /\ inboxClosed' = inboxClosed /\ outboxClosed' = outboxClosed
      /\ sender' = sender /\ strayed' = strayed
  BY <1>1 DEF windowVars, downVars, inboxVars
<1>7. Linked'
  BY <1>2, <1>3, <1>4, <1>6 DEF Linked
<1>8. BeforeLogin'
  <2> SUFFICES ASSUME page = "connection", polling PROVE LoggingIn'
    BY <1>6 DEF BeforeLogin
  <2>1. LoggingIn /\ asked = <<Login>> /\ conn = "CONNECTED" /\ up[1] = 1
    BY <1>1, LoginAccepted
  <2>2. asked' = <<>> /\ ~ strayed /\ OnlyOf(Coming, {129, 238}) /\ ~ Holds(Coming, 129)
    BY <1>1, <1>3, <2>1 DEF LoggingIn
  <2>3. UNCHANGED <<inbox, said>>
    BY <1>1 DEF downVars, inboxVars
  <2>4. CASE conn' = "AUTHENTICATED" /\ Enqueue(<<LoginOk>>)
    <3>1. LoginOk \in Updated /\ LoginOk.op = 129
      BY UpdateOps
    <3>2. Added(LoginOk, Coming, Coming')
      BY <1>2, <1>3, <2>3, <2>4, <3>1, ComingAdds
    <3>3. OnlyOf(Coming', {129, 238}) /\ Holds(Coming', 129)
      BY <2>2, <3>1, <3>2 DEF Added
    <3> QED
      BY <1>6, <2>2, <2>4, <3>3 DEF LoggingIn
  <2>5. CASE conn' = conn /\ Enqueue(<<Refusal>>)
    <3>1. Refusal \in Updated /\ Refusal.op = 238
      BY UpdateOps
    <3>2. Added(Refusal, Coming, Coming')
      BY <1>2, <1>3, <2>3, <2>5, <3>1, ComingAdds
    <3>3. OnlyOf(Coming', {129, 238}) /\ Holds(Coming', 238) /\ ~ Holds(Coming', 129)
      BY <2>2, <3>1, <3>2 DEF Added
    <3> QED
      BY <1>6, <2>1, <2>2, <2>5, <3>3 DEF LoggingIn
  <2> QED
    BY <1>4, <2>1, <2>4, <2>5
<1>9. InLobby'
  <2> SUFFICES ASSUME page = "lobby", polling PROVE Choosing'
    BY <1>6 DEF InLobby
  <2>1. /\ Choosing
        /\ Unmatched => /\ asked # <<>> /\ up[1] \in {2, 3, 4} /\ OnlyOf(Tail(asked), {2, 3, 4})
    BY <1>1, LobbyAccepted
  <2>2. MapsFollow(Coming')
    BY <1>5, <2>1 DEF Choosing, Adds
  <2>3. Holds(Coming', 132) <=> Holds(Coming, 132)
    BY <1>5 DEF Adds
  <2>4. Holds(Coming, 137) => Holds(Coming', 137)
    BY <1>5 DEF Adds
  <2>5. Unmatched => Unmatched' \/ joining' = "told"
    <3> SUFFICES ASSUME Unmatched PROVE Unmatched' \/ joining' = "told"
      OBVIOUS
    <3>1. conn = "AUTHENTICATED" /\ ~ strayed /\ asked' = Tail(asked)
      BY <1>1 DEF Unmatched
    <3>2. conn' = conn \/ joining' = "told"
      BY <1>4, <2>1
    <3> QED
      BY <1>6, <2>1, <3>1, <3>2 DEF Unmatched
  <2>6. joining' # "map"
    BY <1>3, <1>4
  <2> QED
    BY <1>3, <1>6, <2>1, <2>2, <2>3, <2>4, <2>5, <2>6 DEF Choosing
<1>10. MapComes'
  <2>1. Holds(Coming, 137) => Holds(Coming', 137)
    BY <1>5 DEF Adds
  <2> QED
    BY <1>2, <1>3, <1>6, <2>1 DEF MapComes
<1> QED
  BY <1>7, <1>8, <1>9, <1>10 DEF Answers

\* handle_join_match says MATCH_JOINED and then the map: the map is never first.
LEMMA JoinAnswers ==
    ASSUME IInv, TellsJoined \/ SendsMap
    PROVE  Answers'
<1>1. /\ joining # "no"
      /\ UNCHANGED <<conn, match, misread, strayed, outboxClosed, sender, broadcasts,
                     windowVars, upVars, downVars, inboxVars>>
  BY DEF TellsJoined, SendsMap
<1>2. Typed /\ Linked /\ BeforeLogin /\ InLobby /\ MapComes
  BY DEF IInv, Streams, Answers
<1>3. conn = "IN_MATCH" /\ ~ downEnd /\ ~ outboxClosed
  BY <1>1, <1>2 DEF Typed, TypeOK, Linked
<1>4. /\ page' = page /\ busy' = busy /\ polling' = polling /\ map' = map /\ upEnd' = upEnd
      /\ downEnd' = downEnd /\ inboxClosed' = inboxClosed /\ outboxClosed' = outboxClosed
      /\ sender' = sender /\ strayed' = strayed /\ asked' = asked /\ conn' = conn
      /\ inbox' = inbox /\ said' = said
  BY <1>1 DEF windowVars, upVars, downVars, inboxVars
<1>5. Linked'
  BY <1>2, <1>4 DEF Linked
<1>6. BeforeLogin'
  BY <1>2, <1>3, <1>4 DEF BeforeLogin, LoggingIn
<1>7. CASE TellsJoined
  <2>1. PICK restored \in BOOLEAN : Enqueue(<<MatchJoined(match, restored)>>)
    BY <1>7 DEF TellsJoined
  <2> DEFINE u == MatchJoined(match, restored)
  <2>2. u \in Updated /\ u.op = 132
    <3>1. match \in {0} \cup MatchIds
      BY <1>2 DEF Typed, TypeOK
    <3> QED
      BY <3>1, UpdateOps
  <2> HIDE DEF u
  <2>3. Added(u, Coming, Coming')
    <3>1. Enqueue(<<u>>)
      BY <2>1 DEF u
    <3> QED
      BY <1>2, <1>3, <1>4, <2>2, <3>1, ComingAdds
  <2>4. Holds(Coming', 132) /\ (MapsFollow(Coming) => MapsFollow(Coming'))
    BY <2>2, <2>3 DEF Added
  <2>5. joining' = "map"
    BY <1>7 DEF TellsJoined
  <2>6. InLobby'
    BY <1>2, <1>4, <2>4, <2>5 DEF InLobby, Choosing
  <2>7. MapComes'
    BY <2>5 DEF MapComes
  <2> QED
    BY <1>5, <1>6, <2>6, <2>7 DEF Answers
<1>8. CASE SendsMap
  <2>1. joining = "map" /\ joining' = "no" /\ Enqueue(<<WorldMap>>)
    BY <1>8 DEF SendsMap
  <2>2. WorldMap \in Updated /\ WorldMap.op = 137
    BY UpdateOps
  <2>3. Added(WorldMap, Coming, Coming')
    BY <1>2, <1>3, <1>4, <2>1, <2>2, ComingAdds
  <2>4. /\ Holds(Coming', 137) /\ (Holds(Coming, 132) => Holds(Coming', 132))
        /\ MapsFollow(Coming) /\ Holds(Coming, 132) => MapsFollow(Coming')
    BY <2>2, <2>3 DEF Added
  <2>5. InLobby'
    BY <1>2, <1>4, <2>1, <2>4 DEF InLobby, Choosing
  <2>6. MapComes'
    BY <2>4 DEF MapComes
  <2> QED
    BY <1>5, <1>6, <2>5, <2>6 DEF Answers
<1> QED
  BY <1>7, <1>8

\* What else the match says is none of the answers.
LEMMA MatchAnswers ==
    ASSUME IInv, NEW u \in Broadcasts, MatchSays(u)
    PROVE  Answers'
<1>1. /\ conn = "IN_MATCH" /\ Enqueue(<<u>>)
      /\ UNCHANGED <<outboxClosed, sender, windowVars, upVars, downVars, inboxVars, handlerVars>>
  BY DEF MatchSays
<1>2. Typed /\ Linked /\ BeforeLogin /\ InLobby /\ MapComes
  BY DEF IInv, Streams, Answers
<1>3. ~ outboxClosed
  BY <1>1, <1>2 DEF Linked
<1>4. /\ page' = page /\ busy' = busy /\ polling' = polling /\ map' = map /\ upEnd' = upEnd
      /\ downEnd' = downEnd /\ inboxClosed' = inboxClosed /\ outboxClosed' = outboxClosed
      /\ sender' = sender /\ strayed' = strayed /\ asked' = asked /\ conn' = conn
      /\ inbox' = inbox /\ said' = said /\ joining' = joining
  BY <1>1 DEF windowVars, upVars, downVars, inboxVars, handlerVars
<1>5. u \in Updated /\ u.op # 132 /\ u.op # 137
  BY UpdateOps
<1>6. Added(u, Coming, Coming')
  BY <1>1, <1>2, <1>3, <1>4, <1>5, ComingAdds
<1>7. /\ Holds(Coming', 132) <=> Holds(Coming, 132)
      /\ Holds(Coming', 137) <=> Holds(Coming, 137)
      /\ MapsFollow(Coming) => MapsFollow(Coming')
  BY <1>5, <1>6 DEF Added
<1>8. Linked'
  BY <1>2, <1>4 DEF Linked
<1>9. BeforeLogin'
  BY <1>1, <1>2, <1>4 DEF BeforeLogin, LoggingIn
<1>10. InLobby'
  BY <1>2, <1>4, <1>7 DEF InLobby, Choosing, Unmatched
<1>11. MapComes'
  BY <1>2, <1>4, <1>7 DEF MapComes
<1> QED
  BY <1>8, <1>9, <1>10, <1>11 DEF Answers
-----------------------------------------------------------------------------
\* What the window does on its own: an attempt to connect begins with nothing but its LOGIN,
\* the lobby asks for what it may, and the race page and the game wait for the map.
LEMMA WindowAnswers ==
    ASSUME IInv, \/ Connect \/ Refresh \/ Create \/ Confirm \/ BackToLobby
                 \/ \E m \in MatchIds : Join(m)
                 \/ \E r \in GameRequests : Play(r)
    PROVE  Answers'
<1>0. Typed /\ Linked /\ BeforeLogin /\ InLobby /\ MapComes
  BY DEF IInv, Streams, Answers
<1>1. CASE Connect
  <2>1. /\ page = "connection" /\ page' = page /\ polling' = TRUE /\ upEnd' = FALSE /\ asked' = <<Login>>
        /\ downEnd' = FALSE /\ inboxClosed' = FALSE /\ conn' = "CONNECTED" /\ strayed' = FALSE
        /\ outboxClosed' = FALSE /\ inbox' = <<>> /\ said' = <<>> /\ outbox' = <<>>
    BY <1>1 DEF Connect
  <2>2. Coming' = <<>>
    BY <2>1 DEF Coming, Row
  <2>3. \A ops : OnlyOf(Coming', ops) /\ \A op : ~ Holds(Coming', op)
    BY <2>2, OfNothing
  <2>4. LoggingIn'
    BY <2>1, <2>3 DEF LoggingIn
  <2>5. Linked'
    BY <2>1 DEF Linked
  <2> QED
    BY <2>1, <2>4, <2>5 DEF Answers, BeforeLogin, InLobby, MapComes
<1>2. CASE Refresh \/ Create \/ \E m \in MatchIds : Join(m)
  <2>1. /\ page = "lobby"
        /\ UNCHANGED <<page, busy, polling, rows, map, downVars, inboxVars, handlerVars, outboxVars>>
    BY <1>2 DEF Refresh, Create, Join
  <2>2. PICK a \in Requested : a.op \in {2, 3, 4} /\ Send(<<a>>)
    <3>1. ListMatches \in Requested /\ CreateMatch \in Requested /\ \A m \in MatchIds : JoinMatch(m) \in Requested
      BY DEF Requested
    <3> QED
      BY <1>2, <3>1, RequestOps DEF Refresh, Create, Join
  <2>3. asked' = asked \o <<a>> /\ upEnd' = upEnd
    BY <2>2 DEF Send
  <2>4. /\ Coming' = Coming /\ conn' = conn /\ strayed' = strayed /\ joining' = joining
        /\ downEnd' = downEnd /\ inboxClosed' = inboxClosed /\ outboxClosed' = outboxClosed
        /\ sender' = sender /\ page' = page /\ busy' = busy /\ polling' = polling
    BY <2>1 DEF Coming, downVars, inboxVars, handlerVars, outboxVars
  <2>5. Choosing => Choosing'
    <3> SUFFICES ASSUME Choosing PROVE Choosing'
      OBVIOUS
    <3>1. ListMatches.op # 132
      BY RequestOps
    <3>2. asked' = asked \/ \E b \in Requested : b.op \in {2, 3, 4} /\ asked' = asked \o <<b>>
      BY <2>2, <2>3
    <3> QED
      BY <1>0, <2>4, <3>1, <3>2, ChoosingGoesOn
  <2>6. Linked'
    BY <1>0, <2>3, <2>4 DEF Linked
  <2>7. InLobby'
    BY <1>0, <2>4, <2>5 DEF InLobby
  <2> QED
    BY <2>1, <2>4, <2>6, <2>7 DEF Answers, BeforeLogin, MapComes
<1>3. CASE Confirm \/ BackToLobby \/ \E r \in GameRequests : Play(r)
  <2>1. /\ page \in {"race", "game"} /\ page' \in {"game", "lobby"} /\ (polling' = FALSE \/ polling' = polling)
        /\ UNCHANGED <<busy, rows, map, downVars, inboxVars, handlerVars, outboxVars>>
    BY <1>3 DEF Confirm, BackToLobby, Play
  <2>2. upEnd' = upEnd
    BY <1>3 DEF Confirm, BackToLobby, Play, Send
  <2>3. ~ polling /\ ~ busy /\ ~ upEnd
    BY <1>0, <2>1 DEF Linked
  <2>4. /\ Coming' = Coming /\ conn' = conn /\ joining' = joining
        /\ downEnd' = downEnd /\ inboxClosed' = inboxClosed /\ outboxClosed' = outboxClosed
        /\ sender' = sender /\ map' = map /\ busy' = busy /\ ~ polling'
    BY <2>1, <2>3 DEF Coming, downVars, inboxVars, handlerVars, outboxVars
  <2>5. Linked'
    BY <1>0, <2>2, <2>3, <2>4 DEF Linked
  <2>6. MapComes'
    BY <1>0, <2>1, <2>4 DEF MapComes
  <2> QED
    BY <2>4, <2>5, <2>6 DEF Answers, BeforeLogin, InLobby
<1> QED
  BY <1>1, <1>2, <1>3

\* A Client that is destroyed waits for nothing more.
LEMMA GoneAnswers ==
    ASSUME IInv, Gone, page' \in {"connection", "closed"}, busy' = FALSE
    PROVE  Answers'
<1>1. /\ polling' = FALSE /\ inboxClosed' = TRUE /\ downEnd' = downEnd /\ conn' = conn
      /\ sender' = sender /\ outboxClosed' = outboxClosed
  BY DEF Gone, handlerVars, outboxVars
<1>2. Linked
  BY DEF IInv, Answers
<1>3. Linked'
  BY <1>1, <1>2 DEF Linked
<1> QED
  BY <1>1, <1>3 DEF Answers, BeforeLogin, InLobby, MapComes

\* The receiver thread of the client hands on what it reads, and ends only with its stream.
LEMMA ReceiverAnswers ==
    ASSUME IInv, ClientReceives \/ ClientReceiverEnds
    PROVE  Answers'
<1>0. Typed /\ UpdatesArriveWhole /\ Linked /\ BeforeLogin /\ InLobby /\ MapComes
  BY DEF IInv, Streams, Answers
<1>1. UNCHANGED <<downEnd, windowVars, upVars, handlerVars, outboxVars>>
  BY DEF ClientReceives, ClientReceiverEnds, downVars
<1>2. /\ page' = page /\ busy' = busy /\ polling' = polling /\ map' = map /\ upEnd' = upEnd
      /\ downEnd' = downEnd /\ outboxClosed' = outboxClosed /\ sender' = sender
      /\ strayed' = strayed /\ asked' = asked /\ conn' = conn /\ joining' = joining /\ outbox' = outbox
  BY <1>1 DEF windowVars, upVars, handlerVars, outboxVars
<1>3. Coming' = Coming
  <2>1. CASE ClientReceives
    <3>1. ReceiveUpdate.status = "whole" /\ down # <<>>
      BY <2>1 DEF ClientReceives, ReceiveUpdate, Short
    <3> DEFINE u == Message(down[1], ReceiveUpdate.value)
    <3>2. said # <<>> /\ u = Head(said)
      BY <1>0, <3>1, UpdateArrives
    <3>3. inbox' = Append(inbox, u) /\ said' = Tail(said)
      BY <2>1 DEF ClientReceives
    <3> QED
      BY <1>0, <1>2, <3>2, <3>3, ComingMoves
  <2>2. CASE ClientReceiverEnds
    BY <1>2, <2>2 DEF ClientReceiverEnds, downVars, Coming
  <2> QED
    BY <2>1, <2>2
<1>4. inboxClosed' = inboxClosed \/ downEnd
  <2>1. CASE ClientReceives
    BY <2>1 DEF ClientReceives
  <2>2. CASE ClientReceiverEnds
    <3>1. ReceiveUpdate.status # "bad"
      <4>1. CASE down = <<>>
        BY <4>1 DEF ReceiveUpdate, Short
      <4>2. CASE down # <<>>
        BY <1>0, <4>2, UpdateArrives
      <4> QED
        BY <4>1, <4>2
    <3> QED
      BY <2>2, <3>1 DEF ClientReceiverEnds
  <2> QED
    BY <2>1, <2>2
<1>5. Linked'
  BY <1>0, <1>2, <1>4 DEF Linked
<1>6. BeforeLogin' /\ InLobby' /\ MapComes'
  BY <1>0, <1>2, <1>3, AnswersKept
<1> QED
  BY <1>5, <1>6 DEF Answers

\* poll_updates: LOGIN_OK opens a lobby that is in no match, and MATCH_JOINED leaves the map
\* behind it in the queue.
LEMMA PollAnswers ==
    ASSUME IInv, PollUpdate
    PROVE  Answers'
<1> DEFINE u == Head(inbox)
<1>0. Typed /\ Linked /\ BeforeLogin /\ InLobby /\ MapComes
  BY DEF IInv, Streams, Answers
<1>1. /\ polling /\ inbox # <<>> /\ inbox' = Tail(inbox)
      /\ UNCHANGED <<map, clicks, inboxClosed, misheard, downVars, handlerVars, outboxVars>>
  BY DEF PollUpdate
<1>2. /\ conn' = conn /\ joining' = joining /\ strayed' = strayed /\ downEnd' = downEnd
      /\ inboxClosed' = inboxClosed /\ outboxClosed' = outboxClosed /\ sender' = sender /\ map' = map
      /\ outbox' = outbox /\ said' = said
  BY <1>1 DEF downVars, handlerVars, outboxVars
<1>3. Taken(u, Coming, Coming')
  BY <1>0, <1>1, <1>2, ComingLoses
<1>4. page \in {"connection", "lobby"} /\ ~ upEnd
  BY <1>0, <1>1 DEF Linked
<1>5. /\ u.op = 129 => OnLoginOk
      /\ u.op = 130 => OnMatchList(u)
      /\ u.op = 131 => OnMatchCreated
      /\ u.op = 132 => OnMatchJoined(u)
      /\ u.op = 238 => ShowError /\ UNCHANGED upVars
      /\ u.op \notin {129, 130, 131, 132, 238} => UNCHANGED <<page, busy, polling, rows, upVars>>
  BY Polls
<1>6. joining # "no" => conn = "IN_MATCH"
  BY <1>0 DEF Typed, TypeOK
<1> HIDE DEF u
<1>7. CASE page = "connection"
  <2>1. LoggingIn
    BY <1>0, <1>1, <1>7 DEF BeforeLogin
  <2>2. u.op \in {129, 238} /\ OnlyOf(Coming', {129, 238})
    BY <1>3, <2>1 DEF LoggingIn, Taken
  <2>3. CASE u.op = 129
    <3>1. /\ page' = "lobby" /\ busy' = FALSE /\ polling' = polling /\ upEnd' = upEnd
          /\ asked' = asked \o <<ListMatches>>
      BY <1>5, <2>3 DEF OnLoginOk, Send
    <3>2. Linked'
      BY <1>0, <1>2, <1>4, <3>1 DEF Linked
    <3>3. Holds(Coming, 129)
      BY <1>3, <2>3 DEF Taken
    <3>4. conn # "IN_MATCH" /\ ~ strayed /\ ((asked = <<>> /\ conn = "AUTHENTICATED") \/ downEnd)
      BY <2>1, <3>3 DEF LoggingIn
    <3>5. asked = <<>> => OnlyOf(asked', {2, 3, 4})
      <4> SUFFICES ASSUME asked = <<>> PROVE OnlyOf(asked', {2, 3, 4})
        OBVIOUS
      <4>1. asked' = <<ListMatches>>
        BY <3>1
      <4>2. OnlyOf(<<ListMatches>>, {2, 3, 4})
        BY OfOne, RequestOps
      <4> QED
        BY <4>1, <4>2
    <3>6. ~ Holds(Coming', 132) /\ MapsFollow(Coming')
      BY <2>2 DEF OnlyOf, Holds, MapsFollow
    <3>7. Choosing'
      BY <1>2, <1>6, <3>4, <3>5, <3>6 DEF Choosing, Unmatched
    <3> QED
      BY <3>1, <3>2, <3>7 DEF Answers, BeforeLogin, InLobby, MapComes
  <2>4. CASE u.op = 238
    <3>1. /\ page' = page /\ busy' = FALSE /\ polling' = polling /\ upEnd' = upEnd /\ asked' = asked
      BY <1>5, <2>4 DEF ShowError, upVars
    <3>2. Linked'
      BY <1>0, <1>2, <1>4, <3>1 DEF Linked
    <3>3. Holds(Coming', 129) => Holds(Coming, 129)
      BY <1>3 DEF Taken
    <3>4. LoggingIn'
      BY <1>2, <2>1, <2>2, <3>1, <3>3 DEF LoggingIn
    <3> QED
      BY <1>7, <3>1, <3>2, <3>4 DEF Answers, BeforeLogin, InLobby, MapComes
  <2> QED
    BY <2>2, <2>3, <2>4
<1>8. CASE page = "lobby"
  <2>1. Choosing /\ ~ busy
    BY <1>0, <1>1, <1>8 DEF InLobby, Linked
  <2>2. CASE u.op = 132
    <3>1. polling' = FALSE /\ page' \in {"race", "game"} /\ busy' = busy /\ upEnd' = upEnd
      BY <1>5, <2>2 DEF OnMatchJoined, upVars
    <3>2. Linked'
      BY <1>0, <1>2, <1>4, <2>1, <3>1 DEF Linked
    <3>3. Holds(Coming, 132) /\ (Holds(Coming, 137) => Holds(Coming', 137))
      BY <1>3, <2>2 DEF Taken
    <3>4. MapComes'
      BY <1>2, <2>1, <3>3 DEF Choosing, MapComes
    <3> QED
      BY <3>1, <3>2, <3>4 DEF Answers, BeforeLogin, InLobby
  <2>3. CASE u.op # 132
    <3>1. /\ page' = "lobby" /\ (busy' = FALSE \/ busy' = busy) /\ polling' = polling /\ upEnd' = upEnd
          /\ asked' = asked \/ asked' = asked \o <<ListMatches>>
      <4>1. CASE u.op = 129
        BY <1>5, <4>1 DEF OnLoginOk, Send
      <4>2. CASE u.op = 130
        BY <1>5, <1>8, <4>2 DEF OnMatchList, upVars
      <4>3. CASE u.op = 131
        BY <1>5, <1>8, <4>3 DEF OnMatchCreated, Send
      <4>4. CASE u.op = 238
        BY <1>5, <1>8, <4>4 DEF ShowError, upVars
      <4>5. CASE u.op \notin {129, 130, 131, 132, 238}
        BY <1>5, <1>8, <4>5 DEF upVars
      <4> QED
        BY <2>3, <4>1, <4>2, <4>3, <4>4, <4>5
    <3>2. Linked'
      BY <1>0, <1>2, <1>4, <2>1, <3>1 DEF Linked
    <3>3. asked' = asked \/ \E r \in Requested : r.op \in {2, 3, 4} /\ asked' = asked \o <<r>>
      <4>1. ListMatches \in Requested /\ ListMatches.op \in {2, 3, 4}
        BY RequestOps DEF Requested
      <4> QED
        BY <3>1, <4>1
    <3>4. Choosing'
      BY <1>0, <1>2, <1>3, <2>1, <2>3, <3>3, ChoosingGoesOn
    <3> QED
      BY <3>1, <3>2, <3>4 DEF Answers, BeforeLogin, InLobby, MapComes
  <2> QED
    BY <2>2, <2>3
<1> QED
  BY <1>4, <1>7, <1>8

\* The game takes the map from its queue.
LEMMA ApplyAnswers ==
    ASSUME IInv, ApplyPending
    PROVE  Answers'
<1> DEFINE u == Head(inbox)
<1>0. Typed /\ Linked /\ MapComes
  BY DEF IInv, Streams, Answers
<1>1. /\ page = "game" /\ inbox # <<>> /\ inbox' = Tail(inbox) /\ map' = (map \/ u.op = 137)
      /\ UNCHANGED <<page, busy, polling, rows, clicks, inboxClosed, misheard, upVars, downVars,
                     handlerVars, outboxVars>>
  BY DEF ApplyPending
<1> HIDE DEF u
<1>2. /\ page' = page /\ polling' = polling /\ busy' = busy /\ upEnd' = upEnd /\ inboxClosed' = inboxClosed
      /\ downEnd' = downEnd /\ conn' = conn /\ joining' = joining /\ sender' = sender
      /\ outboxClosed' = outboxClosed /\ outbox' = outbox /\ said' = said
  BY <1>1 DEF upVars, downVars, handlerVars, outboxVars
<1>3. Taken(u, Coming, Coming')
  BY <1>0, <1>1, <1>2, ComingLoses DEF u
<1>4. Holds(Coming, 137) => u.op = 137 \/ Holds(Coming', 137)
  BY <1>3 DEF Taken
<1>5. MapComes'
  <2>1. map => map'
    BY <1>1
  <2>2. u.op = 137 => map'
    BY <1>1
  <2> QED
    BY <1>0, <1>1, <1>2, <1>4, <2>1, <2>2 DEF MapComes
<1>6. Linked'
  BY <1>0, <1>2 DEF Linked
<1> QED
  BY <1>1, <1>2, <1>5, <1>6 DEF Answers, BeforeLogin, InLobby

\* The threads of the handler: its receiver does not end while the client waits for an answer,
\* its sender loses a message only to a client that is gone, and after both nothing is expected.
LEMMA ThreadsAnswer ==
    ASSUME IInv, ReceiverEnds \/ SenderSends \/ SenderEnds \/ HandlerReaped
    PROVE  Answers'
<1>0. Typed /\ Linked /\ BeforeLogin /\ InLobby /\ MapComes
  BY DEF IInv, Streams, Answers
<1>1. CASE ReceiverEnds
  <2>1. /\ Reading /\ Leaves /\ conn' = "over" /\ outboxClosed' = TRUE
        /\ UNCHANGED <<joining, misread, strayed, outbox, sender, broadcasts,
                       windowVars, upVars, downVars, inboxVars>>
    BY <1>1 DEF ReceiverEnds
  <2>2. /\ page' = page /\ busy' = busy /\ polling' = polling /\ map' = map /\ upEnd' = upEnd
        /\ downEnd' = downEnd /\ inboxClosed' = inboxClosed /\ joining' = joining
        /\ Coming' = Coming
    BY <2>1 DEF windowVars, upVars, downVars, inboxVars, Coming
  <2>3. conn # "over" /\ joining = "no" /\ ~ downEnd
    BY <1>0, <2>1 DEF Reading, Linked
  <2>4. Linked'
    BY <1>0, <2>1, <2>2, <2>3 DEF Linked
  <2>5. ~ (page = "connection" /\ polling)
    <3> SUFFICES ASSUME page = "connection", polling PROVE FALSE
      OBVIOUS
    <3>1. ~ upEnd /\ ~ strayed /\ (up # <<>> => up[1] # 255)
      BY <2>1, LoginAccepted DEF LoggingIn
    <3> QED
      BY <2>1, <3>1, StaysForMore
  <2>6. ASSUME page = "lobby", polling PROVE Choosing'
    <3>1. Choosing /\ ~ upEnd
      BY <2>1, <2>6, LobbyAccepted
    <3>2. ~ Unmatched
      <4> SUFFICES ASSUME Unmatched PROVE FALSE
        OBVIOUS
      <4>1. ~ strayed /\ (up # <<>> => up[1] # 255)
        BY <2>1, <2>6, LobbyAccepted DEF Unmatched
      <4> QED
        BY <2>1, <2>6, <3>1, <4>1, StaysForMore
    <3>3. Holds(Coming, 132)
      BY <2>3, <3>1, <3>2 DEF Choosing
    <3> QED
      BY <2>2, <2>3, <3>1, <3>3 DEF Choosing
  <2>7. MapComes'
    BY <1>0, <2>2 DEF MapComes
  <2> QED
    BY <2>2, <2>4, <2>5, <2>6, <2>7 DEF Answers, BeforeLogin, InLobby
<1>2. CASE SenderSends
  <2>1. /\ outbox # <<>> /\ outbox' = Tail(outbox)
        /\ said' = IF upEnd THEN said ELSE Append(said, Head(outbox))
        /\ UNCHANGED <<downEnd, outboxClosed, sender, broadcasts, windowVars, upVars, inboxVars, handlerVars>>
    BY <1>2 DEF SenderSends
  <2>2. /\ page' = page /\ busy' = busy /\ polling' = polling /\ map' = map /\ upEnd' = upEnd
        /\ downEnd' = downEnd /\ inboxClosed' = inboxClosed /\ joining' = joining /\ conn' = conn
        /\ strayed' = strayed /\ asked' = asked /\ inbox' = inbox /\ outboxClosed' = outboxClosed
        /\ sender' = sender
    BY <2>1 DEF windowVars, upVars, inboxVars, handlerVars
  <2>3. Coming' = Coming \/ (~ polling /\ page \notin {"race", "game"})
    <3>1. CASE upEnd
      BY <1>0, <3>1 DEF Linked
    <3>2. CASE ~ upEnd
      BY <1>0, <2>1, <2>2, <3>2, ComingMoves
    <3> QED
      BY <3>1, <3>2
  <2>4. Linked'
    BY <1>0, <2>2 DEF Linked
  <2>5. BeforeLogin' /\ InLobby' /\ MapComes'
    BY <1>0, <2>2, <2>3, AnswersKept
  <2> QED
    BY <2>4, <2>5 DEF Answers
<1>3. CASE SenderEnds \/ HandlerReaped
  <2>1. /\ UNCHANGED <<windowVars, upVars, inboxVars, handlerVars>> /\ said' = said /\ outbox' = outbox
        /\ outboxClosed' = outboxClosed
        /\ (sender' = FALSE \/ sender' = sender) /\ (downEnd => downEnd')
        /\ downEnd' = downEnd \/ (conn = "over" /\ ~ sender /\ sender' = sender)
    BY <1>3 DEF SenderEnds, HandlerReaped, downVars, outboxVars
  <2>2. /\ page' = page /\ busy' = busy /\ polling' = polling /\ map' = map /\ upEnd' = upEnd
        /\ inboxClosed' = inboxClosed /\ joining' = joining /\ conn' = conn
        /\ strayed' = strayed /\ asked' = asked /\ Coming' = Coming
    BY <2>1 DEF windowVars, upVars, inboxVars, handlerVars, Coming
  <2>3. Linked'
    BY <1>0, <2>1, <2>2 DEF Linked
  <2>4. BeforeLogin' /\ InLobby' /\ MapComes'
    BY <1>0, <2>1, <2>2, AnswersKept
  <2> QED
    BY <2>3, <2>4 DEF Answers
<1> QED
  BY <1>1, <1>2, <1>3

\* The shutdown of the server ends both directions at once.
LEMMA KillAnswers ==
    ASSUME IInv, HardKill
    PROVE  Answers'
<1>0. Typed /\ Linked /\ BeforeLogin /\ InLobby /\ MapComes
  BY DEF IInv, Streams, Answers
<1>1. /\ downEnd' = TRUE /\ conn' = "over" /\ joining' = "no" /\ sender' = FALSE
      /\ outbox' = <<>> /\ outboxClosed' = TRUE
      /\ UNCHANGED <<said, misread, strayed, broadcasts, windowVars, upVars, inboxVars>>
  BY DEF HardKill
<1>2. /\ page' = page /\ busy' = busy /\ polling' = polling /\ map' = map /\ upEnd' = upEnd
      /\ inboxClosed' = inboxClosed /\ strayed' = strayed /\ asked' = asked /\ inbox' = inbox
      /\ said' = said
  BY <1>1 DEF windowVars, upVars, inboxVars
<1>3. Lost(Coming, Coming')
  BY <1>0, <1>1, <1>2, ComingLoses
<1>4. Linked'
  BY <1>0, <1>1, <1>2 DEF Linked
<1>5. BeforeLogin'
  <2> SUFFICES ASSUME page = "connection", polling PROVE LoggingIn'
    BY <1>2 DEF BeforeLogin
  <2>1. OnlyOf(Coming', {129, 238}) /\ ~ strayed
    BY <1>0, <1>3 DEF BeforeLogin, LoggingIn, Lost
  <2> QED
    BY <1>1, <1>2, <2>1 DEF LoggingIn
<1>6. InLobby'
  <2> SUFFICES ASSUME page = "lobby", polling PROVE Choosing'
    BY <1>2 DEF InLobby
  <2>1. MapsFollow(Coming')
    BY <1>0, <1>3 DEF InLobby, Choosing, Lost
  <2> QED
    BY <1>1, <2>1 DEF Choosing
<1>7. MapComes'
  BY <1>1 DEF MapComes
<1> QED
  BY <1>4, <1>5, <1>6, <1>7 DEF Answers
-----------------------------------------------------------------------------
\* Every action keeps what is known of the answers.
LEMMA AnswersStep ==
    ASSUME IInv, [Next]_vars
    PROVE  Answers'
<1>1. CASE \/ Connect \/ Refresh \/ Create \/ Confirm \/ BackToLobby
           \/ \E m \in MatchIds : Join(m)
           \/ \E r \in GameRequests : Play(r)
  BY <1>1, WindowAnswers
<1>2. CASE LogOut \/ Quit \/ PollClosed
  BY <1>2, GoneAnswers DEF LogOut, Quit, PollClosed
<1>3. CASE ClientReceives \/ ClientReceiverEnds
  BY <1>3, ReceiverAnswers
<1>4. CASE PollUpdate
  BY <1>4, PollAnswers
<1>5. CASE ApplyPending
  BY <1>5, ApplyAnswers
<1>6. CASE RefusesOp
  BY <1>6, RefusesAnswers
<1>7. CASE ServerReads
  BY <1>7, ReadsAnswers
<1>8. CASE TellsJoined \/ SendsMap
  BY <1>8, JoinAnswers
<1>9. CASE ReceiverEnds \/ SenderSends \/ SenderEnds \/ HandlerReaped
  BY <1>9, ThreadsAnswer
<1>10. CASE HardKill
  BY <1>10, KillAnswers
<1>11. CASE \E u \in Broadcasts : MatchSays(u)
  BY <1>11, MatchAnswers
<1>12. CASE UNCHANGED vars
  <2>1. /\ page' = page /\ busy' = busy /\ polling' = polling /\ map' = map /\ upEnd' = upEnd
        /\ downEnd' = downEnd /\ inboxClosed' = inboxClosed /\ outboxClosed' = outboxClosed
        /\ sender' = sender /\ strayed' = strayed /\ asked' = asked /\ conn' = conn
        /\ joining' = joining /\ Coming' = Coming
    BY <1>12 DEF vars, windowVars, upVars, downVars, inboxVars, handlerVars, outboxVars, Coming
  <2>2. Linked /\ BeforeLogin /\ InLobby /\ MapComes
    BY DEF IInv, Answers
  <2>3. Linked'
    BY <2>1, <2>2 DEF Linked
  <2>4. BeforeLogin' /\ InLobby' /\ MapComes'
    BY <2>1, <2>2, AnswersKept
  <2> QED
    BY <2>3, <2>4 DEF Answers
<1> QED
  BY <1>1, <1>2, <1>3, <1>4, <1>5, <1>6, <1>7, <1>8, <1>9, <1>10, <1>11, <1>12
     DEF Next, User, ClientThreads, Handler

\* At first there is no Client, hence nothing to be said.
LEMMA NothingAtFirst ==
    ASSUME Init
    PROVE  IInv
<1>1. RequestsArriveWhole /\ UpdatesArriveWhole
  BY NothingSaid DEF Init, RequestsArriveWhole, UpdatesArriveWhole, AskedBytes, SaidBytes
<1>2. Typed
  BY NothingSaid DEF Init, Typed, TypeOK
<1>3. Answers
  BY DEF Init, Answers, Linked, BeforeLogin, InLobby, MapComes
<1> QED
  BY <1>1, <1>2, <1>3 DEF IInv, Streams

\* The inductive invariant.
THEOREM ConversationCorrect == Spec => []IInv
<1>1. Init => IInv
  BY NothingAtFirst
<1>2. IInv /\ [Next]_vars => IInv'
  BY StreamsStep, AnswersStep DEF IInv
<1> QED
  BY <1>1, <1>2, PTL DEF Spec

\* Both ends, both streams and the two queues have the values that the code gives them, the
\* match of a connection among them.
THEOREM ConversationTypes == Spec => []TypeOK
<1>1. IInv => TypeOK
  BY DEF IInv, Streams, Typed
<1> QED
  BY <1>1, ConversationCorrect, PTL

\* recv_ of either end returns the messages that the send_ of the other was given, in their
\* order and with their values, and no half of one, while no refused opcode left its payload.
THEOREM MessagesCorrect == Spec => []MessagesArriveWhole
<1>1. IInv => MessagesArriveWhole
  BY DEF IInv, Streams, MessagesArriveWhole
<1> QED
  BY <1>1, ConversationCorrect, PTL

\* A client that has left the lobby for a match gets its map unless the connection ends: it
\* has it, or send_world_map_to is about to be called, or the message is in one of the queues.
THEOREM MapCorrect == Spec => []MapReachesGame
<1>1. ASSUME IInv, page \in {"race", "game"}
      PROVE  \/ map \/ joining # "no" \/ downEnd
             \/ Holds(inbox, 137) \/ Holds(said, 137) \/ Holds(outbox, 137)
  <2>1. inbox \in Seq(Updated) /\ said \in Seq(Updated) /\ outbox \in Seq(Updated)
    BY <1>1 DEF IInv, Streams, Typed
  <2> DEFINE a == inbox \o said
  <2>2. a \in Seq(Updated) /\ (Holds(a, 137) <=> Holds(inbox, 137) \/ Holds(said, 137))
    BY <2>1, OfParts
  <2> HIDE DEF a
  <2>3. Holds(a \o outbox, 137) <=> Holds(a, 137) \/ Holds(outbox, 137)
    BY <2>1, <2>2, OfParts
  <2>4. Coming = a \o outbox
    BY DEF Coming, Row, a
  <2>5. map \/ joining # "no" \/ Holds(Coming, 137) \/ downEnd
    BY <1>1 DEF IInv, Answers, MapComes
  <2> QED
    BY <2>2, <2>3, <2>4, <2>5
<1>2. IInv => MapReachesGame
  BY <1>1 DEF MapReachesGame, Holds
<1> QED
  BY <1>2, ConversationCorrect, PTL

\* What has left no byte to read was nothing.
LEMMA SilenceIsNothing ==
    ASSUME NEW sent, NEW taken, NEW S, AllCarried(sent, taken, S), NEW q \in Seq(S),
           PutMessages(sent, q) = <<>>
    PROVE  q = <<>>
<1> SUFFICES ASSUME q # <<>> PROVE FALSE
  OBVIOUS
<1> DEFINE m == Head(q)
           rest == PutMessages(sent, Tail(q))
<1>1. /\ m \in S /\ rest \in Bytes /\ PutMessages(sent, q) = PutMessage(sent, m) \o rest
  BY CarriedIsWritten, FirstMessage
<1> HIDE DEF m, rest
<1>2. m.op \in Byte /\ Put(sent[m.op], m.payload) \in Bytes
  BY <1>1 DEF AllCarried, Carries, ReadsAs
<1> DEFINE first == <<m.op>> \o Put(sent[m.op], m.payload)
<1>3. PutMessage(sent, m) = first
  BY DEF PutMessage
<1>4. first \in Bytes /\ Len(first) = Len(Put(sent[m.op], m.payload)) + 1
  BY <1>2, ByteInFront
<1>5. Len(first) > 0
  BY <1>2, <1>4, LenProperties DEF Bytes
<1> HIDE DEF first
<1>6. Len(first \o rest) = Len(first) + Len(rest) /\ Len(rest) \in Nat
  BY <1>1, <1>4, ConcatProperties, LenProperties DEF Bytes
<1>7. first \o rest = <<>>
  BY <1>1, <1>3
<1>8. Len(first \o rest) = 0
  BY <1>7
<1> QED
  BY <1>4, <1>5, <1>6, <1>8, LenProperties DEF Bytes

\* When nothing more can come, an attempt to log in has its answer, and a lobby that polls
\* has learnt of the match its client was let into.
THEOREM AnswersCorrect == Spec => []AnswersReachUser
<1>1. ASSUME IInv, Settled, polling, page \in {"connection", "lobby"}
      PROVE  ~ downEnd /\ Coming = <<>> /\ (~ strayed => asked = <<>>)
  <2>1. up = <<>> /\ outbox = <<>> /\ down = <<>> /\ inbox = <<>> /\ ~ downEnd
    BY <1>1 DEF Settled
  <2>2. /\ asked \in Seq(Requested) /\ said \in Seq(Updated)
        /\ PutMessages(Server!Updates, said) = <<>>
        /\ ~ strayed => PutMessages(Client!Requests, asked) = <<>>
    BY <1>1, <2>1 DEF IInv, Streams, Typed, RequestsArriveWhole, UpdatesArriveWhole, AskedBytes, SaidBytes
  <2>3. said = <<>> /\ (~ strayed => asked = <<>>)
    BY <2>2, BothCarried, SilenceIsNothing
  <2>4. Coming = <<>>
    BY <2>1, <2>3 DEF Coming, Row
  <2> QED
    BY <2>1, <2>3, <2>4
<1>2. \A op : ~ Holds(<<>>, op)
  BY OfNothing
<1>3. ASSUME IInv, Settled PROVE LoginIsAnswered
  <2> SUFFICES ASSUME page = "connection", busy PROVE FALSE
    BY DEF LoginIsAnswered
  <2>1. polling
    BY <1>3 DEF IInv, Answers, Linked
  <2>2. LoggingIn /\ ~ strayed
    BY <1>3, <2>1 DEF IInv, Answers, BeforeLogin, LoggingIn
  <2>3. ~ downEnd /\ Coming = <<>> /\ asked = <<>>
    BY <1>1, <1>3, <2>1, <2>2
  <2>4. asked # <<Login>>
    BY <2>3
  <2> QED
    BY <1>2, <2>2, <2>3, <2>4 DEF LoggingIn
<1>4. ASSUME IInv, Settled PROVE LobbyKnowsMatch
  <2> SUFFICES ASSUME page = "lobby", polling PROVE conn = "AUTHENTICATED"
    BY DEF LobbyKnowsMatch
  <2>1. Choosing
    BY <1>4 DEF IInv, Answers, InLobby
  <2>2. ~ downEnd /\ Coming = <<>> /\ joining = "no"
    BY <1>1, <1>4 DEF Settled
  <2> QED
    BY <1>2, <2>1, <2>2 DEF Choosing, Unmatched
<1>5. IInv => AnswersReachUser
  BY <1>3, <1>4 DEF AnswersReachUser
<1> QED
  BY <1>5, ConversationCorrect, PTL
===============================================================================
