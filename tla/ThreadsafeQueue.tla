-------------------------- MODULE ThreadsafeQueue --------------------------
(***************************************************************************)
(* The queue every loop of the pipeline reads from and writes to           *)
(* (include/ThreadsafeQueue.h): a std::queue guarded by one mutex, and two *)
(* condition variables.                                                    *)
(*                                                                         *)
(* A method runs from one acquisition of the mutex to the next release in  *)
(* a single step.  Waiting on a condition variable releases the mutex, so  *)
(* Push and Pop have two steps when they wait: one that ends in the wait,  *)
(* and, once the thread has been woken and holds the mutex again, one that *)
(* does the rest.  Any step of another thread may come between the two:    *)
(* the source tests its condition with `if', not with `while'.             *)
(***************************************************************************)
EXTENDS Integers, Sequences, FiniteSets

CONSTANTS
    Producers,          \* threads that call Push
    Consumers,          \* threads that call Pop
    MaxSize,            \* max_queue_size
    PushBound,          \* bound on the items each producer pushes
    SpuriousBound       \* bound on the waits in can_push that end unnotified

ASSUME QueueAssumption ==
    /\ IsFiniteSet(Producers)
    /\ IsFiniteSet(Consumers)
    /\ MaxSize \in Nat
    /\ PushBound \in Nat
    /\ SpuriousBound \in Nat

VARIABLES
    queue,              \* the std::queue
    items_in_queue,     \* the three counters the status thread reads
    items_pushed,
    items_popped,
    is_finished,        \* the flag of SetFinished and IsFinished
    producer,           \* where each producer is in Push
    consumer,           \* where each consumer is in Pop
    calls,              \* how many items each producer has handed to Push
    spurious,           \* auxiliary: how many waits in can_push ended unnotified
    history,            \* auxiliary: every item that entered the queue
    output              \* auxiliary: every item a Pop returned

counters == <<items_in_queue, items_pushed, items_popped>>
vars == <<queue, counters, is_finished, producer, consumer, calls,
          spurious, history, output>>

\* The n-th item producer p pushes: items are told apart by who made them.
Items == Producers \X (1 .. PushBound)

-----------------------------------------------------------------------------

Init ==
    /\ queue = <<>>
    /\ items_in_queue = 0
    /\ items_pushed = 0
    /\ items_popped = 0
    /\ is_finished = FALSE
    /\ producer = [p \in Producers |-> "idle"]
    /\ consumer = [c \in Consumers |-> "idle"]
    /\ calls = [p \in Producers |-> 0]
    /\ spurious = 0
    /\ history = <<>>
    /\ output = <<>>

\* The threads blocked in can_push.wait and can_pop.wait_for, and those that
\* have been woken and have not got the mutex back yet.
WaitingProducers == {p \in Producers : producer[p] = "can_push"}
WokenProducers   == {p \in Producers : producer[p] = "woken"}
WaitingConsumers == {c \in Consumers : consumer[c] = "can_pop"}
WokenConsumers   == {c \in Consumers : consumer[c] = "woken"}

\* condition_variable::notify_one: it wakes one waiting thread, if any waits.
\* after: the producers or the consumers after the notifying thread's step.
NotifyOne(threads, waiting, after) ==
    IF waiting = {}
    THEN after = threads
    ELSE \E t \in waiting : after = [threads EXCEPT ![t] = "woken"]

-----------------------------------------------------------------------------
(* Push *)

NotifyCanPop == NotifyOne(consumer, WaitingConsumers, consumer')

\* Faulty: the bound is off by one.
HasRoomOffByOne == Len(queue) <= MaxSize + 1

HasRoom == ~(Len(queue) > MaxSize)

\* The end of Push of producer p's n-th item, with the mutex held.
Enqueue(p, n) ==
    /\ items_pushed' = items_pushed + 1
    /\ items_in_queue' = items_in_queue + 1
    /\ queue' = Append(queue, <<p, n>>)
    /\ history' = Append(history, <<p, n>>)
    /\ producer' = [producer EXCEPT ![p] = "idle"]
    /\ NotifyCanPop
    /\ UNCHANGED <<items_popped, is_finished, spurious, output>>

\* Push finds room.
Push(p) ==
    /\ producer[p] = "idle"
    /\ calls[p] < PushBound
    /\ HasRoom
    /\ calls' = [calls EXCEPT ![p] = @ + 1]
    /\ Enqueue(p, calls[p] + 1)

\* Push finds the queue over its size and waits.
PushWaits(p) ==
    /\ producer[p] = "idle"
    /\ calls[p] < PushBound
    /\ ~HasRoom
    /\ calls' = [calls EXCEPT ![p] = @ + 1]
    /\ producer' = [producer EXCEPT ![p] = "can_push"]
    /\ UNCHANGED <<queue, counters, is_finished, consumer, spurious, history,
                   output>>

\* A woken producer holds the mutex again and pushes, whatever it finds.
PushAfterWait(p) ==
    /\ producer[p] = "woken"
    /\ Enqueue(p, calls[p])
    /\ UNCHANGED calls

-----------------------------------------------------------------------------
(* Pop *)

\* Faulty: Pop notifies only when it takes the queue down to its size, or not
\* at all; it takes the newest item.
NotifyCanPushWhenFull ==
    IF HasRoom
    THEN UNCHANGED producer
    ELSE NotifyOne(producer, WaitingProducers, producer')

NotifyCanPushNever == UNCHANGED producer

TakeNewest ==
    /\ queue' = SubSeq(queue, 1, Len(queue) - 1)
    /\ output' = Append(output, queue[Len(queue)])

NotifyCanPush == NotifyOne(producer, WaitingProducers, producer')

TakeOldest ==
    /\ queue' = Tail(queue)
    /\ output' = Append(output, Head(queue))

CountPop ==
    /\ items_popped' = items_popped + 1
    /\ items_in_queue' = items_in_queue - 1

\* The end of Pop when there is an item, with the mutex held.
Dequeue(c) ==
    /\ queue # <<>>
    /\ TakeOldest
    /\ CountPop
    /\ consumer' = [consumer EXCEPT ![c] = "idle"]
    /\ NotifyCanPush
    /\ UNCHANGED <<items_pushed, is_finished, calls, spurious, history>>

Pop(c) ==
    /\ consumer[c] = "idle"
    /\ Dequeue(c)

\* Pop with a time to wait finds the queue empty and waits.  A Pop without
\* one returns -1 and changes nothing.
PopWaits(c) ==
    /\ consumer[c] = "idle"
    /\ queue = <<>>
    /\ consumer' = [consumer EXCEPT ![c] = "can_pop"]
    /\ UNCHANGED <<queue, counters, is_finished, producer, calls,
                   spurious, history, output>>

PopAfterWait(c) ==
    /\ consumer[c] = "woken"
    /\ Dequeue(c)

\* A woken consumer finds the queue empty: Pop returns -1.
PopReturnsEmpty(c) ==
    /\ consumer[c] = "woken"
    /\ queue = <<>>
    /\ consumer' = [consumer EXCEPT ![c] = "idle"]
    /\ UNCHANGED <<queue, counters, is_finished, producer, calls,
                   spurious, history, output>>

-----------------------------------------------------------------------------
(* Waits that end without a notification, and the flag *)

\* wait_for runs out of time (or wakes spuriously).
PopTimeout(c) ==
    /\ consumer[c] = "can_pop"
    /\ consumer' = [consumer EXCEPT ![c] = "woken"]
    /\ UNCHANGED <<queue, counters, is_finished, producer, calls,
                   spurious, history, output>>

\* A condition variable may wake a thread nobody notified.
PushSpuriousWakeup(p) ==
    /\ spurious < SpuriousBound
    /\ spurious' = spurious + 1
    /\ producer[p] = "can_push"
    /\ producer' = [producer EXCEPT ![p] = "woken"]
    /\ UNCHANGED <<queue, counters, is_finished, consumer, calls, history,
                   output>>

SetFinished(finished) ==
    /\ is_finished' = finished
    /\ UNCHANGED <<queue, counters, producer, consumer, calls, spurious,
                   history, output>>

-----------------------------------------------------------------------------

ProducerStep(p) ==
    Push(p) \/ PushWaits(p) \/ PushAfterWait(p) \/ PushSpuriousWakeup(p)

ConsumerStep(c) ==
    \/ Pop(c) \/ PopWaits(c) \/ PopAfterWait(c)
    \/ PopReturnsEmpty(c) \/ PopTimeout(c)

Next ==
    \/ \E p \in Producers : ProducerStep(p)
    \/ \E c \in Consumers : ConsumerStep(c)
    \/ \E finished \in BOOLEAN : SetFinished(finished)

Spec == Init /\ [][Next]_vars

(***************************************************************************)
(* The consumers are loops that call Pop again and again, and a thread     *)
(* that may run does run: a woken thread gets the mutex back, a wait with  *)
(* a time limit ends.  Producers need not push.                            *)
(***************************************************************************)
Fairness ==
    /\ \A p \in Producers : WF_vars(PushAfterWait(p))
    /\ \A c \in Consumers : WF_vars(ConsumerStep(c))

FairSpec == Spec /\ Fairness

-----------------------------------------------------------------------------
(* Properties *)

\* Every variable holds a value of its type.
TypeOK ==
    /\ queue \in Seq(Items)
    /\ items_in_queue \in Int
    /\ items_pushed \in Nat
    /\ items_popped \in Nat
    /\ is_finished \in BOOLEAN
    /\ producer \in [Producers -> {"idle", "can_push", "woken"}]
    /\ consumer \in [Consumers -> {"idle", "can_pop", "woken"}]
    /\ calls \in [Producers -> 0 .. PushBound]
    /\ spurious \in 0 .. SpuriousBound
    /\ history \in Seq(Items)
    /\ output \in Seq(Items)

\* The counters the status line shows agree with the queue they count, so
\* Size(), which returns a counter and not queue.size(), tells the truth to
\* the loops that empty a queue with `while(Size() != 0) Pop(...)'.
CountersAgree ==
    /\ items_in_queue = Len(queue)
    /\ items_pushed = Len(history)
    /\ items_popped = Len(output)
    /\ items_pushed = items_popped + items_in_queue

\* What came out followed by what is still inside is what went in, in order.
FirstInFirstOut ==
    /\ Len(history) = Len(output) + Len(queue)
    /\ \A i \in 1 .. Len(output) : output[i] = history[i]
    /\ \A i \in 1 .. Len(queue) : queue[i] = history[Len(output) + i]

\* The size test lets a queue hold MaxSize + 1 items; a producer that barges in
\* while a woken one waits for the mutex adds one, and so does a wait that ends
\* although no Pop made room.  Nothing else takes the queue over its size.
WithinCapacity ==
    Len(queue) + Cardinality(WokenProducers)
        <= MaxSize + Cardinality(Producers) + spurious

\* While a consumer sleeps in can_pop there is no item that is not already
\* promised to a consumer that was woken: no wakeup of Push is lost.
NoItemLeftToSleepers ==
    WaitingConsumers # {} => Len(queue) <= Cardinality(WokenConsumers)

\* While a producer sleeps in can_push the queue is full up to the places
\* that are promised to producers that were woken: no wakeup of Pop is lost,
\* though a producer waits without a time limit.
NoRoomLeftToSleepers ==
    WaitingProducers # {} =>
        Len(queue) + Cardinality(WokenProducers) > MaxSize

\* No wakeup is lost on either side, whichever thread gets the mutex first.
NobodySleepsInVain == NoItemLeftToSleepers /\ NoRoomLeftToSleepers

\* A producer that found the queue full gets its item in, as long as the
\* consumers go on popping.
BlockedPushReturns ==
    \A p \in Producers : producer[p] = "can_push" ~> producer[p] = "idle"

\* The queue implements the channel the loops are written for.
Channel == INSTANCE FifoChannel WITH
    Capacity <- MaxSize + Cardinality(Producers) + SpuriousBound,
    sent     <- history,
    received <- output

ImplementsChannel == Channel!Spec
=============================================================================
