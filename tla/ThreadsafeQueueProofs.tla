----------------------- MODULE ThreadsafeQueueProofs -----------------------
(***************************************************************************)
(* Proofs about ThreadsafeQueue, for any numbers of producers, consumers,  *)
(* items and spurious wakeups, and any size.                               *)
(*                                                                         *)
(* The invariant has three layers, each proved with the help of the ones   *)
(* before it: Typed, Ordered (what is in the queue, what came out and the  *)
(* counters are the history), and Counted (how many threads sleep, how     *)
(* many have been woken, and how full the queue is).                       *)
(***************************************************************************)
EXTENDS ThreadsafeQueue, FiniteSetTheorems, TLAPS

\* A producer that is inside Push has an item.
CallsMade == \A p \in Producers : producer[p] # "idle" => calls[p] >= 1

Typed == TypeOK /\ CallsMade

Ordered == FirstInFirstOut /\ CountersAgree

Counted == WithinCapacity /\ NoItemLeftToSleepers /\ NoRoomLeftToSleepers

-----------------------------------------------------------------------------
(* Types *)

\* A notification changes the place of one waiting thread, or nothing.
LEMMA NotifyTyped ==
    ASSUME NEW T, NEW S, "woken" \in S,
           NEW before \in [T -> S], NEW waiting \in SUBSET T, NEW after,
           NotifyOne(before, waiting, after)
    PROVE  /\ after \in [T -> S]
           /\ \A t \in T : after[t] = before[t]
                           \/ (t \in waiting /\ after[t] = "woken")
  BY DEF NotifyOne

LEMMA InitTyped == Init => Typed
<1> SUFFICES ASSUME Init
             PROVE  Typed
  OBVIOUS
<1>1. queue \in Seq(Items) /\ history \in Seq(Items) /\ output \in Seq(Items)
  BY DEF Init
<1>2. /\ calls \in [Producers -> 0 .. PushBound]
      /\ spurious \in 0 .. SpuriousBound
  BY QueueAssumption DEF Init
<1>3. /\ producer \in [Producers -> {"idle", "can_push", "woken"}]
      /\ consumer \in [Consumers -> {"idle", "can_pop", "woken"}]
      /\ CallsMade
  BY DEF Init, CallsMade
<1>4. items_in_queue = 0 /\ items_pushed = 0 /\ items_popped = 0
  BY Zenon DEF Init
<1>5. is_finished \in BOOLEAN
  BY DEF Init
<1> QED
  BY <1>1, <1>2, <1>3, <1>4, <1>5 DEF Typed, TypeOK

\* Enqueue keeps the types when it is given an item that has been counted.
LEMMA EnqueueTyped ==
    ASSUME Typed, NEW p \in Producers, NEW n \in 1 .. PushBound,
           Enqueue(p, n),
           calls' \in [Producers -> 0 .. PushBound],
           \A r \in Producers : calls'[r] >= calls[r]
    PROVE  Typed'
<1>1. consumer' \in [Consumers -> {"idle", "can_pop", "woken"}]
  <2>1. NotifyOne(consumer, WaitingConsumers, consumer')
    BY DEF Enqueue, NotifyCanPop
  <2>2. WaitingConsumers \in SUBSET Consumers
    BY DEF WaitingConsumers
  <2> QED
    BY <2>1, <2>2, NotifyTyped DEF Typed, TypeOK
<1>2. <<p, n>> \in Items
  BY DEF Items
<1>3. queue' \in Seq(Items) /\ history' \in Seq(Items)
  BY <1>2 DEF Enqueue, Typed, TypeOK
<1>4. producer' = [producer EXCEPT ![p] = "idle"]
  BY DEF Enqueue
<1>5. TypeOK'
  <2>1. producer' \in [Producers -> {"idle", "can_push", "woken"}]
    BY <1>4 DEF Typed, TypeOK
  <2>2. items_in_queue' \in Int /\ items_pushed' \in Nat
    BY DEF Enqueue, Typed, TypeOK
  <2>3. UNCHANGED <<items_popped, is_finished, spurious, output>>
    BY DEF Enqueue
  <2> QED
    BY <1>1, <1>3, <2>1, <2>2, <2>3 DEF Typed, TypeOK
<1>6. CallsMade'
  <2> SUFFICES ASSUME NEW r \in Producers, producer'[r] # "idle"
               PROVE  calls'[r] >= 1
    BY DEF CallsMade
  <2>1. producer[r] # "idle"
    BY <1>4 DEF Typed, TypeOK
  <2> QED
    BY <2>1, QueueAssumption DEF Typed, TypeOK, CallsMade
<1> QED
  BY <1>5, <1>6 DEF Typed

LEMMA DequeueTyped ==
    ASSUME Typed, NEW c \in Consumers, Dequeue(c)
    PROVE  Typed'
<1>1. /\ producer' \in [Producers -> {"idle", "can_push", "woken"}]
      /\ \A p \in Producers : producer'[p] = producer[p]
                              \/ (p \in WaitingProducers /\ producer'[p] = "woken")
  <2>1. NotifyOne(producer, WaitingProducers, producer')
    BY DEF Dequeue, NotifyCanPush
  <2>2. WaitingProducers \in SUBSET Producers
    BY DEF WaitingProducers
  <2> QED
    BY <2>1, <2>2 DEF NotifyOne, Typed, TypeOK
<1>2. queue \in Seq(Items) /\ queue # <<>> /\ output \in Seq(Items)
  BY DEF Dequeue, Typed, TypeOK
<1>3. queue' \in Seq(Items) /\ output' \in Seq(Items)
  <2>1. queue' = Tail(queue) /\ output' = Append(output, Head(queue))
    BY DEF Dequeue, TakeOldest
  <2>2. Head(queue) \in Items /\ Tail(queue) \in Seq(Items)
    BY <1>2
  <2> QED
    BY <1>2, <2>1, <2>2
<1>4. TypeOK'
  BY <1>1, <1>3 DEF Dequeue, CountPop, Typed, TypeOK
<1>5. CallsMade'
  BY <1>1 DEF Dequeue, Typed, CallsMade, WaitingProducers
<1> QED
  BY <1>4, <1>5 DEF Typed

LEMMA NextTyped == Typed /\ [Next]_vars => Typed'
<1> SUFFICES ASSUME Typed, [Next]_vars
             PROVE  Typed'
  OBVIOUS
<1>1. ASSUME NEW p \in Producers, Push(p)
      PROVE  Typed'
  <2>1. calls[p] + 1 \in 1 .. PushBound
    BY <1>1, QueueAssumption DEF Push, Typed, TypeOK
  <2>2. calls' \in [Producers -> 0 .. PushBound]
    BY <1>1, QueueAssumption DEF Push, Typed, TypeOK
  <2>3. \A r \in Producers : calls'[r] >= calls[r]
    BY <1>1, QueueAssumption DEF Push, Typed, TypeOK
  <2>4. Enqueue(p, calls[p] + 1)
    BY <1>1 DEF Push
  <2> QED
    BY <2>1, <2>2, <2>3, <2>4, EnqueueTyped
<1>2. ASSUME NEW p \in Producers, PushWaits(p)
      PROVE  Typed'
  BY <1>2, QueueAssumption
  DEF PushWaits, Typed, TypeOK, CallsMade, counters
<1>3. ASSUME NEW p \in Producers, PushAfterWait(p)
      PROVE  Typed'
  <2>1. calls[p] \in 1 .. PushBound
    BY <1>3, QueueAssumption DEF PushAfterWait, Typed, TypeOK, CallsMade
  <2>2. calls' = calls /\ Enqueue(p, calls[p])
    BY <1>3 DEF PushAfterWait
  <2>3. \A r \in Producers : calls'[r] >= calls[r]
    BY <2>2, QueueAssumption DEF Typed, TypeOK
  <2>4. calls' \in [Producers -> 0 .. PushBound]
    BY <2>2 DEF Typed, TypeOK
  <2> QED
    BY <2>1, <2>2, <2>3, <2>4, EnqueueTyped
<1>4. ASSUME NEW p \in Producers, PushSpuriousWakeup(p)
      PROVE  Typed'
  BY <1>4, QueueAssumption
  DEF PushSpuriousWakeup, Typed, TypeOK, CallsMade, counters
<1>5. ASSUME NEW c \in Consumers, Pop(c) \/ PopAfterWait(c)
      PROVE  Typed'
  BY <1>5, DequeueTyped DEF Pop, PopAfterWait
<1>6. ASSUME NEW c \in Consumers,
             PopWaits(c) \/ PopReturnsEmpty(c) \/ PopTimeout(c)
      PROVE  Typed'
  BY <1>6 DEF PopWaits, PopReturnsEmpty, PopTimeout, Typed, TypeOK,
              CallsMade, counters
<1>7. ASSUME NEW finished \in BOOLEAN, SetFinished(finished)
      PROVE  Typed'
  BY <1>7 DEF SetFinished, Typed, TypeOK, CallsMade, counters
<1>8. CASE UNCHANGED vars
  BY <1>8 DEF vars, counters, Typed, TypeOK, CallsMade
<1> QED
  BY <1>1, <1>2, <1>3, <1>4, <1>5, <1>6, <1>7, <1>8
  DEF Next, ProducerStep, ConsumerStep

\* Every variable always holds a value of its type.
THEOREM TypeCorrect == Spec => []TypeOK
<1>1. Typed => TypeOK
  BY DEF Typed
<1> QED
  BY <1>1, InitTyped, NextTyped, PTL DEF Spec
-----------------------------------------------------------------------------
(* Order *)

\* What the items in the queue and the items delivered are, seen from one push.
LEMMA EnqueueOrdered ==
    ASSUME Typed, Ordered, NEW p \in Producers, NEW n \in 1 .. PushBound,
           Enqueue(p, n)
    PROVE  Ordered'
<1> DEFINE item == <<p, n>>
<1>1. item \in Items
  BY DEF Items
<1>2. queue \in Seq(Items) /\ history \in Seq(Items) /\ output \in Seq(Items)
  BY DEF Typed, TypeOK
<1>3. /\ queue' = Append(queue, item)
      /\ history' = Append(history, item)
      /\ output' = output
      /\ items_pushed' = items_pushed + 1
      /\ items_in_queue' = items_in_queue + 1
      /\ items_popped' = items_popped
  BY DEF Enqueue
<1> HIDE DEF item
<1>4. Len(history) = Len(output) + Len(queue)
  BY DEF Ordered, FirstInFirstOut
<1>5. /\ Len(history') = Len(history) + 1
      /\ Len(queue') = Len(queue) + 1
      /\ Len(history') = Len(output') + Len(queue')
  <2>1. Len(history') = Len(history) + 1 /\ Len(queue') = Len(queue) + 1
    BY <1>1, <1>2, <1>3
  <2> QED
    BY <2>1, <1>2, <1>3, <1>4
<1>6. ASSUME NEW i \in 1 .. Len(output')
      PROVE  output'[i] = history'[i]
  <2>1. output[i] = history[i] /\ i \in 1 .. Len(history)
    BY <1>2, <1>3, <1>4, <1>6 DEF Ordered, FirstInFirstOut
  <2> QED
    BY <2>1, <1>1, <1>2, <1>3
<1>7. ASSUME NEW i \in 1 .. Len(queue')
      PROVE  queue'[i] = history'[Len(output') + i]
  <2>1. CASE i = Len(queue) + 1
    BY <2>1, <1>1, <1>2, <1>3, <1>4
  <2>2. CASE i # Len(queue) + 1
    <3>1. i \in 1 .. Len(queue)
      BY <2>2, <1>1, <1>2, <1>3
    <3>2. queue[i] = history[Len(output) + i]
      BY <3>1 DEF Ordered, FirstInFirstOut
    <3>3. Len(output) + i \in 1 .. Len(history)
      BY <3>1, <1>2, <1>4
    <3> QED
      BY <3>1, <3>2, <3>3, <1>1, <1>2, <1>3
  <2> QED
    BY <2>1, <2>2
<1>8. CountersAgree'
  <2>1. /\ items_in_queue = Len(queue)
        /\ items_pushed = Len(history)
        /\ items_popped = Len(output)
        /\ Len(queue) \in Nat /\ Len(history) \in Nat /\ Len(output) \in Nat
    BY <1>2 DEF Ordered, CountersAgree
  <2> QED
    BY <2>1, <1>3, <1>4, <1>5 DEF CountersAgree
<1> QED
  BY <1>5, <1>6, <1>7, <1>8 DEF Ordered, FirstInFirstOut

\* A Pop moves the boundary between output and queue by one.
LEMMA DequeueOrdered ==
    ASSUME Typed, Ordered, NEW c \in Consumers, Dequeue(c)
    PROVE  Ordered'
<1>1. queue \in Seq(Items) /\ history \in Seq(Items) /\ output \in Seq(Items)
  BY DEF Typed, TypeOK
<1>2. /\ queue # <<>>
      /\ queue' = Tail(queue)
      /\ output' = Append(output, Head(queue))
      /\ history' = history
      /\ items_pushed' = items_pushed
      /\ items_in_queue' = items_in_queue - 1
      /\ items_popped' = items_popped + 1
  BY DEF Dequeue, TakeOldest, CountPop
<1>3. Len(history) = Len(output) + Len(queue)
  BY DEF Ordered, FirstInFirstOut
<1>4. Len(queue) >= 1 /\ Head(queue) = queue[1] /\ Head(queue) \in Items
  BY <1>1, <1>2
<1>5. Len(queue') = Len(queue) - 1 /\ Len(output') = Len(output) + 1
  BY <1>1, <1>2, <1>4
<1>6. Len(history') = Len(output') + Len(queue')
  BY <1>1, <1>2, <1>3, <1>5
<1>7. Head(queue) = history[Len(output) + 1]
  BY <1>1, <1>4 DEF Ordered, FirstInFirstOut
<1>8. ASSUME NEW i \in 1 .. Len(output')
      PROVE  output'[i] = history'[i]
  <2>1. CASE i = Len(output) + 1
    BY <2>1, <1>1, <1>2, <1>4, <1>7
  <2>2. CASE i # Len(output) + 1
    <3>1. i \in 1 .. Len(output)
      BY <2>2, <1>1, <1>5
    <3> QED
      BY <3>1, <1>1, <1>2, <1>4 DEF Ordered, FirstInFirstOut
  <2> QED
    BY <2>1, <2>2
<1>9. ASSUME NEW i \in 1 .. Len(queue')
      PROVE  queue'[i] = history'[Len(output') + i]
  <2>1. i + 1 \in 1 .. Len(queue)
    BY <1>1, <1>5
  <2>2. queue'[i] = queue[i + 1]
    BY <2>1, <1>1, <1>2, <1>5
  <2>3. queue[i + 1] = history[Len(output) + (i + 1)]
    BY <2>1 DEF Ordered, FirstInFirstOut
  <2>4. Len(output) + (i + 1) = Len(output') + i
    BY <1>1, <1>5
  <2> QED
    BY <2>2, <2>3, <2>4, <1>2
<1>10. CountersAgree'
  <2>1. /\ items_in_queue = Len(queue)
        /\ items_pushed = Len(history)
        /\ items_popped = Len(output)
        /\ Len(queue) \in Nat /\ Len(history) \in Nat /\ Len(output) \in Nat
    BY <1>1 DEF Ordered, CountersAgree
  <2> QED
    BY <2>1, <1>2, <1>3, <1>5 DEF CountersAgree
<1> QED
  BY <1>6, <1>8, <1>9, <1>10 DEF Ordered, FirstInFirstOut

LEMMA NextOrdered == Typed /\ Ordered /\ [Next]_vars => Ordered'
<1> SUFFICES ASSUME Typed, Ordered, [Next]_vars
             PROVE  Ordered'
  OBVIOUS
<1>1. ASSUME NEW p \in Producers, Push(p)
      PROVE  Ordered'
  <2>1. calls[p] + 1 \in 1 .. PushBound /\ Enqueue(p, calls[p] + 1)
    BY <1>1, QueueAssumption DEF Push, Typed, TypeOK
  <2> QED
    BY <2>1, EnqueueOrdered
<1>2. ASSUME NEW p \in Producers, PushAfterWait(p)
      PROVE  Ordered'
  <2>1. calls[p] \in 1 .. PushBound /\ Enqueue(p, calls[p])
    BY <1>2, QueueAssumption DEF PushAfterWait, Typed, TypeOK, CallsMade
  <2> QED
    BY <2>1, EnqueueOrdered
<1>3. ASSUME NEW c \in Consumers, Pop(c) \/ PopAfterWait(c)
      PROVE  Ordered'
  BY <1>3, DequeueOrdered DEF Pop, PopAfterWait
<1>4. ASSUME UNCHANGED <<queue, counters, history, output>>
      PROVE  Ordered'
  BY <1>4 DEF counters, Ordered, FirstInFirstOut, CountersAgree
<1>5. ASSUME NEW p \in Producers, PushWaits(p) \/ PushSpuriousWakeup(p)
      PROVE  Ordered'
  BY <1>4, <1>5 DEF PushWaits, PushSpuriousWakeup
<1>6. ASSUME NEW c \in Consumers,
             PopWaits(c) \/ PopReturnsEmpty(c) \/ PopTimeout(c)
      PROVE  Ordered'
  BY <1>4, <1>6 DEF PopWaits, PopReturnsEmpty, PopTimeout
<1>7. ASSUME NEW finished \in BOOLEAN, SetFinished(finished)
      PROVE  Ordered'
  BY <1>4, <1>7 DEF SetFinished
<1>8. CASE UNCHANGED vars
  BY <1>4, <1>8 DEF vars
<1> QED
  BY <1>1, <1>2, <1>3, <1>5, <1>6, <1>7, <1>8
  DEF Next, ProducerStep, ConsumerStep

LEMMA InitOrdered == Init => Ordered
  BY DEF Init, Ordered, FirstInFirstOut, CountersAgree

\* Items come out of a queue in the order they went in, each one once, and the
\* counters that Size, ItemsPushed and ItemsPopped return are exact.
THEOREM FifoCorrect == Spec => [](FirstInFirstOut /\ CountersAgree)
<1>1. Typed /\ Ordered => FirstInFirstOut /\ CountersAgree
  BY DEF Ordered
<1> QED
  BY <1>1, InitTyped, NextTyped, InitOrdered, NextOrdered, PTL DEF Spec
-----------------------------------------------------------------------------
(* Sleepers and capacity *)

InState(threads, T, state) == {t \in T : threads[t] = state}

\* How the number of woken threads changes when one thread changes its place.
LEMMA WokenCount ==
    ASSUME NEW T, IsFiniteSet(T), NEW before, NEW after,
           NEW t \in T, NEW state,
           \A u \in T \ {t} : after[u] = before[u],
           after[t] = state
    PROVE  LET n == Cardinality(InState(before, T, "woken"))
               m == Cardinality(InState(after, T, "woken"))
           IN  /\ n \in Nat /\ m \in Nat
               /\ n <= Cardinality(T)
               /\ (before[t] = "woken" /\ state # "woken" => m = n - 1)
               /\ (before[t] # "woken" /\ state = "woken" => m = n + 1)
               /\ (before[t] # "woken" /\ state # "woken" => m = n)
               /\ (before[t] # "woken" => n <= Cardinality(T) - 1)
<1> DEFINE N == InState(before, T, "woken")
           M == InState(after, T, "woken")
<1>1. N \in SUBSET T /\ M \in SUBSET T
  BY DEF InState
<1>2. /\ IsFiniteSet(N) /\ Cardinality(N) \in Nat /\ Cardinality(N) <= Cardinality(T)
      /\ IsFiniteSet(M) /\ Cardinality(M) \in Nat
      /\ Cardinality(T) \in Nat
  BY <1>1, FS_Subset, FS_CardinalityType
<1>3. before[t] = "woken" /\ state # "woken" => M = N \ {t} /\ t \in N
  BY DEF InState
<1>4. before[t] # "woken" /\ state = "woken" => M = N \cup {t} /\ t \notin N
  BY DEF InState
<1>5. before[t] # "woken" /\ state # "woken" => M = N
  BY DEF InState
<1>6. ASSUME before[t] # "woken"
      PROVE  Cardinality(N) <= Cardinality(T) - 1
  <2>1. N \in SUBSET (T \ {t})
    BY <1>6 DEF InState
  <2>2. IsFiniteSet(T \ {t}) /\ Cardinality(T \ {t}) = Cardinality(T) - 1
    BY FS_RemoveElement
  <2> QED
    BY <2>1, <2>2, FS_Subset
<1>7. /\ Cardinality(N \cup {t}) = IF t \in N THEN Cardinality(N) ELSE Cardinality(N) + 1
      /\ Cardinality(N \ {t}) = IF t \in N THEN Cardinality(N) - 1 ELSE Cardinality(N)
  BY <1>2, FS_AddElement, FS_RemoveElement
<1> HIDE DEF N, M
<1>8. /\ Cardinality(N) \in Nat /\ Cardinality(M) \in Nat
      /\ Cardinality(N) <= Cardinality(T)
      /\ (before[t] = "woken" /\ state # "woken" => Cardinality(M) = Cardinality(N) - 1)
      /\ (before[t] # "woken" /\ state = "woken" => Cardinality(M) = Cardinality(N) + 1)
      /\ (before[t] # "woken" /\ state # "woken" => Cardinality(M) = Cardinality(N))
      /\ (before[t] # "woken" => Cardinality(N) <= Cardinality(T) - 1)
  BY <1>2, <1>3, <1>4, <1>5, <1>6, <1>7
<1> QED
  BY <1>8 DEF N, M

\* A notification wakes one more thread, unless nobody waits; then it leaves
\* everybody where they are.
LEMMA NotifyCount ==
    ASSUME NEW T, IsFiniteSet(T), NEW S, NEW before \in [T -> S], NEW after,
           NEW state, state # "woken",
           NotifyOne(before, InState(before, T, state), after)
    PROVE  LET n == Cardinality(InState(before, T, "woken"))
               m == Cardinality(InState(after, T, "woken"))
           IN  /\ n \in Nat /\ m \in Nat
               /\ IF InState(before, T, state) = {}
                  THEN m = n /\ InState(after, T, state) = {}
                  ELSE m = n + 1
<1>1. CASE InState(before, T, state) = {}
  <2>1. after = before
    BY <1>1 DEF NotifyOne
  <2>2. /\ IsFiniteSet(InState(before, T, "woken"))
        /\ Cardinality(InState(before, T, "woken")) \in Nat
    <3>1. InState(before, T, "woken") \in SUBSET T
      BY DEF InState
    <3> QED
      BY <3>1, FS_Subset, FS_CardinalityType
  <2> QED
    BY <1>1, <2>1, <2>2
<1>2. CASE InState(before, T, state) # {}
  <2>1. PICK t \in InState(before, T, state) : after = [before EXCEPT ![t] = "woken"]
    BY <1>2 DEF NotifyOne
  <2>2. t \in T /\ before[t] # "woken"
    BY <2>1 DEF InState
  <2>3. after[t] = "woken" /\ \A u \in T \ {t} : after[u] = before[u]
    BY <2>1, <2>2
  <2> QED
    BY <1>2, <2>2, <2>3, WokenCount
<1> QED
  BY <1>1, <1>2

\* The sets the properties speak of, in the form of the two lemmas.
LEMMA Places ==
    /\ WaitingProducers = InState(producer, Producers, "can_push")
    /\ WokenProducers = InState(producer, Producers, "woken")
    /\ WaitingConsumers = InState(consumer, Consumers, "can_pop")
    /\ WokenConsumers = InState(consumer, Consumers, "woken")
    /\ WaitingProducers' = InState(producer', Producers, "can_push")
    /\ WokenProducers' = InState(producer', Producers, "woken")
    /\ WaitingConsumers' = InState(consumer', Consumers, "can_pop")
    /\ WokenConsumers' = InState(consumer', Consumers, "woken")
  BY DEF WaitingProducers, WokenProducers, WaitingConsumers, WokenConsumers,
         InState

LEMMA InitCounted == Init => Counted
<1> SUFFICES ASSUME Init
             PROVE  Counted
  OBVIOUS
<1>1. /\ WaitingProducers = {} /\ WokenProducers = {}
      /\ WaitingConsumers = {} /\ WokenConsumers = {}
  BY DEF Init, WaitingProducers, WokenProducers, WaitingConsumers,
         WokenConsumers
<1>2. Cardinality({}) = 0 /\ Cardinality(Producers) \in Nat
  BY QueueAssumption, FS_EmptySet, FS_CardinalityType
<1>3. Len(queue) = 0 /\ spurious = 0
  BY DEF Init
<1> QED
  BY <1>1, <1>2, <1>3, QueueAssumption
  DEF Counted, WithinCapacity, NoItemLeftToSleepers, NoRoomLeftToSleepers

\* A push that had room, or whose producer had been woken, adds one item and,
\* in the second case, takes one producer from the woken ones.
LEMMA EnqueueCounted ==
    ASSUME Typed, Counted, NEW p \in Producers, NEW n, Enqueue(p, n),
           \/ producer[p] = "idle" /\ HasRoom
           \/ producer[p] = "woken"
    PROVE  Counted'
<1> DEFINE np == Cardinality(WokenProducers)
           nc == Cardinality(WokenConsumers)
<1>1. /\ queue \in Seq(Items) /\ Len(queue) \in Nat
      /\ producer \in [Producers -> {"idle", "can_push", "woken"}]
      /\ consumer \in [Consumers -> {"idle", "can_pop", "woken"}]
      /\ spurious \in Nat /\ MaxSize \in Nat
      /\ Cardinality(Producers) \in Nat
  BY QueueAssumption, FS_CardinalityType DEF Typed, TypeOK
<1>2. Len(queue') = Len(queue) + 1 /\ spurious' = spurious
  BY <1>1 DEF Enqueue
<1>3. /\ \A u \in Producers \ {p} : producer'[u] = producer[u]
      /\ producer'[p] = "idle"
      /\ WaitingProducers' = WaitingProducers
  BY <1>1 DEF Enqueue, WaitingProducers
<1>4. /\ np \in Nat /\ np' \in Nat
      /\ producer[p] = "woken" => np' = np - 1
      /\ producer[p] # "woken" => np' = np /\ np <= Cardinality(Producers) - 1
  <2> DEFINE n0 == Cardinality(InState(producer, Producers, "woken"))
             n1 == Cardinality(InState(producer', Producers, "woken"))
  <2>1. /\ n0 \in Nat /\ n1 \in Nat
        /\ producer[p] = "woken" => n1 = n0 - 1
        /\ producer[p] # "woken" => n1 = n0 /\ n0 <= Cardinality(Producers) - 1
    BY <1>3, WokenCount, QueueAssumption
  <2>2. np = n0 /\ np' = n1
    BY Places
  <2> QED
    BY <2>1, <2>2
<1>5. /\ nc \in Nat /\ nc' \in Nat
      /\ IF WaitingConsumers = {} THEN WaitingConsumers' = {} ELSE nc' = nc + 1
  <2>1. NotifyOne(consumer, InState(consumer, Consumers, "can_pop"), consumer')
    BY Places DEF Enqueue, NotifyCanPop
  <2> DEFINE n0 == Cardinality(InState(consumer, Consumers, "woken"))
             n1 == Cardinality(InState(consumer', Consumers, "woken"))
  <2>2. /\ n0 \in Nat /\ n1 \in Nat
        /\ IF InState(consumer, Consumers, "can_pop") = {}
           THEN n1 = n0 /\ InState(consumer', Consumers, "can_pop") = {}
           ELSE n1 = n0 + 1
    BY <1>1, <2>1, NotifyCount, QueueAssumption
  <2>3. nc = n0 /\ nc' = n1
    BY Places
  <2> HIDE DEF n0, n1, nc
  <2> QED
    BY <2>2, <2>3, Places
<1>6. /\ Len(queue) + np <= MaxSize + Cardinality(Producers) + spurious
      /\ WaitingConsumers # {} => Len(queue) <= nc
      /\ WaitingProducers # {} => Len(queue) + np > MaxSize
      /\ HasRoom => Len(queue) <= MaxSize
  BY <1>1 DEF Counted, WithinCapacity, NoItemLeftToSleepers,
              NoRoomLeftToSleepers, HasRoom
<1> HIDE DEF np, nc
<1>7. /\ Len(queue') + np' <= MaxSize + Cardinality(Producers) + spurious'
      /\ WaitingConsumers' # {} => Len(queue') <= nc'
      /\ WaitingProducers' # {} => Len(queue') + np' > MaxSize
  BY <1>1, <1>2, <1>3, <1>4, <1>5, <1>6
<1> QED
  BY <1>7 DEF np, nc, Counted, WithinCapacity, NoItemLeftToSleepers,
              NoRoomLeftToSleepers

\* A pop takes one item, promises its place to one producer if any sleeps, and
\* may take one consumer from the woken ones.
LEMMA DequeueCounted ==
    ASSUME Typed, Counted, NEW c \in Consumers, Dequeue(c),
           consumer[c] # "can_pop"
    PROVE  Counted'
<1> DEFINE np == Cardinality(WokenProducers)
           nc == Cardinality(WokenConsumers)
<1>1. /\ queue \in Seq(Items) /\ Len(queue) \in Nat /\ queue # <<>>
      /\ producer \in [Producers -> {"idle", "can_push", "woken"}]
      /\ consumer \in [Consumers -> {"idle", "can_pop", "woken"}]
      /\ spurious \in Nat /\ MaxSize \in Nat
      /\ Cardinality(Producers) \in Nat
  BY QueueAssumption, FS_CardinalityType DEF Typed, TypeOK, Dequeue
<1>2. Len(queue') = Len(queue) - 1 /\ spurious' = spurious
  BY <1>1 DEF Dequeue, TakeOldest
<1>3. /\ \A u \in Consumers \ {c} : consumer'[u] = consumer[u]
      /\ consumer'[c] = "idle"
      /\ WaitingConsumers' = WaitingConsumers
  BY <1>1 DEF Dequeue, WaitingConsumers
<1>4. /\ nc \in Nat /\ nc' \in Nat
      /\ nc' >= nc - 1
  BY <1>3, Places, WokenCount, QueueAssumption
<1>5. /\ np \in Nat /\ np' \in Nat
      /\ IF WaitingProducers = {}
         THEN WaitingProducers' = {} /\ np' = np
         ELSE np' = np + 1
  <2>1. NotifyOne(producer, InState(producer, Producers, "can_push"), producer')
    BY Places DEF Dequeue, NotifyCanPush
  <2> DEFINE n0 == Cardinality(InState(producer, Producers, "woken"))
             n1 == Cardinality(InState(producer', Producers, "woken"))
  <2>2. /\ n0 \in Nat /\ n1 \in Nat
        /\ IF InState(producer, Producers, "can_push") = {}
           THEN n1 = n0 /\ InState(producer', Producers, "can_push") = {}
           ELSE n1 = n0 + 1
    BY <1>1, <2>1, NotifyCount, QueueAssumption
  <2>3. np = n0 /\ np' = n1
    BY Places
  <2> HIDE DEF n0, n1, np
  <2> QED
    BY <2>2, <2>3, Places
<1>6. /\ Len(queue) + np <= MaxSize + Cardinality(Producers) + spurious
      /\ WaitingConsumers # {} => Len(queue) <= nc
      /\ WaitingProducers # {} => Len(queue) + np > MaxSize
  BY DEF Counted, WithinCapacity, NoItemLeftToSleepers, NoRoomLeftToSleepers
<1> HIDE DEF np, nc
<1>7. /\ Len(queue') + np' <= MaxSize + Cardinality(Producers) + spurious'
      /\ WaitingConsumers' # {} => Len(queue') <= nc'
      /\ WaitingProducers' # {} => Len(queue') + np' > MaxSize
  BY <1>1, <1>2, <1>3, <1>4, <1>5, <1>6
<1> QED
  BY <1>7 DEF np, nc, Counted, WithinCapacity, NoItemLeftToSleepers,
              NoRoomLeftToSleepers

\* The steps that move one thread and leave the queue alone.
LEMMA ProducerMoves ==
    ASSUME Typed, Counted, NEW p \in Producers,
           PushWaits(p) \/ PushSpuriousWakeup(p)
    PROVE  Counted'
<1> DEFINE np == Cardinality(WokenProducers)
<1>1. /\ Len(queue) \in Nat
      /\ producer \in [Producers -> {"idle", "can_push", "woken"}]
      /\ spurious \in Nat /\ MaxSize \in Nat
      /\ Cardinality(Producers) \in Nat
  BY QueueAssumption, FS_CardinalityType DEF Typed, TypeOK
<1>2. queue' = queue /\ consumer' = consumer
  BY DEF PushWaits, PushSpuriousWakeup
<1>3. /\ np \in Nat
      /\ Len(queue) + np <= MaxSize + Cardinality(Producers) + spurious
      /\ WaitingProducers # {} => Len(queue) + np > MaxSize
  <2>1. np \in Nat
    BY Places, WokenCount, QueueAssumption
  <2> QED
    BY <2>1 DEF Counted, WithinCapacity, NoRoomLeftToSleepers
<1>4. NoItemLeftToSleepers'
  BY <1>2 DEF Counted, NoItemLeftToSleepers, WaitingConsumers, WokenConsumers
<1>5. CASE PushWaits(p)
  <2>1. /\ \A u \in Producers \ {p} : producer'[u] = producer[u]
        /\ producer[p] = "idle" /\ producer'[p] = "can_push"
        /\ Len(queue) > MaxSize /\ spurious' = spurious
    BY <1>1, <1>5 DEF PushWaits, HasRoom
  <2>2. np' = np
    BY <2>1, Places, WokenCount, QueueAssumption
  <2> HIDE DEF np
  <2>3. /\ Len(queue') + np' <= MaxSize + Cardinality(Producers) + spurious'
        /\ Len(queue') + np' > MaxSize
    BY <1>1, <1>2, <1>3, <2>1, <2>2
  <2> QED
    BY <1>4, <2>3 DEF np, Counted, WithinCapacity, NoRoomLeftToSleepers
<1>6. CASE PushSpuriousWakeup(p)
  <2>1. /\ \A u \in Producers \ {p} : producer'[u] = producer[u]
        /\ producer[p] = "can_push" /\ producer'[p] = "woken"
        /\ spurious' = spurious + 1
        /\ WaitingProducers # {}
    BY <1>1, <1>6 DEF PushSpuriousWakeup, WaitingProducers
  <2>2. np' = np + 1
    BY <2>1, Places, WokenCount, QueueAssumption
  <2> HIDE DEF np
  <2>3. /\ Len(queue') + np' <= MaxSize + Cardinality(Producers) + spurious'
        /\ Len(queue') + np' > MaxSize
    BY <1>1, <1>2, <1>3, <2>1, <2>2
  <2> QED
    BY <1>4, <2>3 DEF np, Counted, WithinCapacity, NoRoomLeftToSleepers
<1> QED
  BY <1>5, <1>6

LEMMA ConsumerMoves ==
    ASSUME Typed, Counted, NEW c \in Consumers,
           PopWaits(c) \/ PopReturnsEmpty(c) \/ PopTimeout(c)
    PROVE  Counted'
<1> DEFINE nc == Cardinality(WokenConsumers)
<1>1. /\ Len(queue) \in Nat
      /\ consumer \in [Consumers -> {"idle", "can_pop", "woken"}]
  BY DEF Typed, TypeOK
<1>2. queue' = queue /\ producer' = producer /\ spurious' = spurious
  BY DEF PopWaits, PopReturnsEmpty, PopTimeout
<1>3. WithinCapacity' /\ NoRoomLeftToSleepers'
  BY <1>2 DEF Counted, WithinCapacity, NoRoomLeftToSleepers,
              WaitingProducers, WokenProducers
<1>4. nc \in Nat /\ nc' \in Nat
  <2>1. IsFiniteSet(WokenConsumers) /\ IsFiniteSet(WokenConsumers')
    BY QueueAssumption, FS_Subset DEF WokenConsumers
  <2> QED
    BY <2>1, FS_CardinalityType
<1>5. CASE PopWaits(c) \/ PopReturnsEmpty(c)
  <2>1. Len(queue) = 0
    BY <1>5 DEF PopWaits, PopReturnsEmpty
  <2> QED
    BY <1>2, <1>3, <1>4, <2>1 DEF Counted, NoItemLeftToSleepers
<1>6. CASE PopTimeout(c)
  <2>1. /\ \A u \in Consumers \ {c} : consumer'[u] = consumer[u]
        /\ consumer[c] = "can_pop" /\ consumer'[c] = "woken"
        /\ WaitingConsumers # {}
    BY <1>1, <1>6 DEF PopTimeout, WaitingConsumers
  <2>2. nc' = nc + 1
    BY <2>1, Places, WokenCount, QueueAssumption
  <2>3. Len(queue) <= nc
    BY <2>1 DEF Counted, NoItemLeftToSleepers
  <2> HIDE DEF nc
  <2>4. Len(queue') <= nc'
    BY <1>1, <1>2, <1>4, <2>2, <2>3
  <2> QED
    BY <1>3, <2>4 DEF nc, Counted, NoItemLeftToSleepers
<1> QED
  BY <1>5, <1>6

LEMMA NextCounted == Typed /\ Counted /\ [Next]_vars => Counted'
<1> SUFFICES ASSUME Typed, Counted, [Next]_vars
             PROVE  Counted'
  OBVIOUS
<1>1. ASSUME NEW p \in Producers, Push(p) \/ PushAfterWait(p)
      PROVE  Counted'
  BY <1>1, EnqueueCounted DEF Push, PushAfterWait
<1>2. ASSUME NEW p \in Producers, PushWaits(p) \/ PushSpuriousWakeup(p)
      PROVE  Counted'
  BY <1>2, ProducerMoves
<1>3. ASSUME NEW c \in Consumers, Pop(c) \/ PopAfterWait(c)
      PROVE  Counted'
  BY <1>3, DequeueCounted DEF Pop, PopAfterWait
<1>4. ASSUME NEW c \in Consumers,
             PopWaits(c) \/ PopReturnsEmpty(c) \/ PopTimeout(c)
      PROVE  Counted'
  BY <1>4, ConsumerMoves
<1>5. CASE UNCHANGED <<queue, producer, consumer, spurious>>
  BY <1>5 DEF Counted, WithinCapacity, NoItemLeftToSleepers,
              NoRoomLeftToSleepers, WaitingProducers, WokenProducers,
              WaitingConsumers, WokenConsumers
<1>6. ASSUME NEW finished \in BOOLEAN, SetFinished(finished)
      PROVE  Counted'
  BY <1>5, <1>6 DEF SetFinished
<1>7. CASE UNCHANGED vars
  BY <1>5, <1>7 DEF vars
<1> QED
  BY <1>1, <1>2, <1>3, <1>4, <1>6, <1>7
  DEF Next, ProducerStep, ConsumerStep

\* A queue never gets beyond its size by more than one item for each producer
\* and each spurious wakeup.
THEOREM CapacityCorrect == Spec => []WithinCapacity
<1>1. Counted => WithinCapacity
  BY DEF Counted
<1> QED
  BY <1>1, InitTyped, NextTyped, InitCounted, NextCounted, PTL DEF Spec

\* No wakeup is lost: a consumer does not sleep beside an item nobody has been
\* woken for, nor a producer beside a free place nobody has been woken for.
THEOREM NoLostWakeup == Spec => []NobodySleepsInVain
<1>1. Counted => NobodySleepsInVain
  BY DEF Counted, NobodySleepsInVain
<1> QED
  BY <1>1, InitTyped, NextTyped, InitCounted, NextCounted, PTL DEF Spec

-----------------------------------------------------------------------------
(* Refinement *)

\* The queue implements the channel: a completed Push is a Send, a Pop that
\* returns an item is a Receive, and every other step is a stutter.
THEOREM QueueImplementsChannel == Spec => ImplementsChannel
<1>1. Init => Channel!Init
  BY DEF Init, Channel!Init
<1>2. Typed /\ Ordered /\ Counted /\ [Next]_vars => [Channel!Next]_(Channel!vars)
  <2> SUFFICES ASSUME Typed, Ordered, Counted, [Next]_vars
               PROVE  Channel!Next \/ UNCHANGED <<history, output>>
    BY DEF Channel!vars
  <2>1. /\ Len(queue) \in Nat /\ Len(output) \in Nat
        /\ Len(history) = Len(output) + Len(queue)
        /\ history \in Seq(Items) /\ output \in Seq(Items) /\ queue \in Seq(Items)
        /\ MaxSize \in Nat /\ SpuriousBound \in Nat
        /\ spurious \in 0 .. SpuriousBound
    BY QueueAssumption DEF Typed, TypeOK, Ordered, FirstInFirstOut
  <2>2. ASSUME NEW p \in Producers, NEW n \in 1 .. PushBound, Enqueue(p, n),
               Len(history) < Len(output)
                              + (MaxSize + Cardinality(Producers) + SpuriousBound)
        PROVE  Channel!Next
    <3>1. <<p, n>> \in Items
      BY DEF Items
    <3>2. Channel!Send(<<p, n>>)
      BY <2>2 DEF Enqueue, Channel!Send
    <3> QED
      BY <3>1, <3>2 DEF Channel!Next
  <2>3. ASSUME NEW c \in Consumers, Dequeue(c)
        PROVE  Channel!Next
    <3>1. Head(queue) = history[Len(output) + 1] /\ Len(queue) >= 1
      BY <2>1, <2>3 DEF Dequeue, Ordered, FirstInFirstOut
    <3>2. Len(output) < Len(history)
      BY <2>1, <3>1
    <3>3. Channel!Receive
      BY <2>3, <3>1, <3>2 DEF Dequeue, TakeOldest, Channel!Receive
    <3> QED
      BY <3>3 DEF Channel!Next
  <2>4. /\ Cardinality(WokenProducers) \in Nat /\ Cardinality(Producers) \in Nat
        /\ Len(queue) + Cardinality(WokenProducers)
              <= MaxSize + Cardinality(Producers) + spurious
        /\ \A p \in Producers : producer[p] = "woken" =>
              Cardinality(WokenProducers) >= 1
        /\ \A p \in Producers : Cardinality(Producers) >= 1
    <3>1. /\ IsFiniteSet(WokenProducers) /\ IsFiniteSet(Producers)
          /\ \A p \in Producers : producer[p] = "woken" => WokenProducers # {}
      BY QueueAssumption, FS_Subset DEF WokenProducers
    <3> QED
      BY <3>1, FS_CardinalityType, FS_EmptySet DEF Counted, WithinCapacity
  <2>5. ASSUME NEW p \in Producers, Push(p)
        PROVE  Channel!Next
    <3>1. calls[p] + 1 \in 1 .. PushBound /\ Enqueue(p, calls[p] + 1)
      BY <2>5, QueueAssumption DEF Push, Typed, TypeOK
    <3>2. Len(queue) <= MaxSize
      BY <2>1, <2>5 DEF Push, HasRoom
    <3>3. Len(history) < Len(output)
                         + (MaxSize + Cardinality(Producers) + SpuriousBound)
      BY <2>1, <2>4, <3>2
    <3> QED
      BY <2>2, <3>1, <3>3
  <2>6. ASSUME NEW p \in Producers, PushAfterWait(p)
        PROVE  Channel!Next
    <3>1. calls[p] \in 1 .. PushBound /\ Enqueue(p, calls[p])
      BY <2>6, QueueAssumption DEF PushAfterWait, Typed, TypeOK, CallsMade
    <3>2. Cardinality(WokenProducers) >= 1
      BY <2>4, <2>6 DEF PushAfterWait
    <3>3. Len(history) < Len(output)
                         + (MaxSize + Cardinality(Producers) + SpuriousBound)
      BY <2>1, <2>4, <3>2
    <3> QED
      BY <2>2, <3>1, <3>3
  <2>7. ASSUME NEW c \in Consumers, Pop(c) \/ PopAfterWait(c)
        PROVE  Channel!Next
    BY <2>3, <2>7 DEF Pop, PopAfterWait
  <2>8. ASSUME NEW p \in Producers, PushWaits(p) \/ PushSpuriousWakeup(p)
        PROVE  UNCHANGED <<history, output>>
    BY <2>8 DEF PushWaits, PushSpuriousWakeup
  <2>9. ASSUME NEW c \in Consumers,
               PopWaits(c) \/ PopReturnsEmpty(c) \/ PopTimeout(c)
        PROVE  UNCHANGED <<history, output>>
    BY <2>9 DEF PopWaits, PopReturnsEmpty, PopTimeout
  <2>10. ASSUME NEW finished \in BOOLEAN, SetFinished(finished)
         PROVE  UNCHANGED <<history, output>>
    BY <2>10 DEF SetFinished
  <2>11. CASE UNCHANGED vars
    BY <2>11 DEF vars
  <2> QED
    BY <2>5, <2>6, <2>7, <2>8, <2>9, <2>10, <2>11
    DEF Next, ProducerStep, ConsumerStep
<1> QED
  BY <1>1, <1>2, InitTyped, NextTyped, InitOrdered, NextOrdered, InitCounted,
     NextCounted, PTL
  DEF Spec, ImplementsChannel, Channel!Spec

=============================================================================
