------------------------- MODULE SortPipelineProofs -------------------------
(***************************************************************************)
(* Proofs about SortPipeline, for any set of loops, any size of the queues *)
(* and any number of raw events: its types and capacities, that nothing    *)
(* enters a queue once it is finished, that loops end after the ones they  *)
(* pop from, that all receivers of a loop get the same items, and that     *)
(* every fragment is delivered once.                                       *)
(*                                                                         *)
(* Every step is a call on a queue or a Turn: a loop that has made all its *)
(* calls does something and takes on a list of new calls.  What makes      *)
(* NothingAfterFinish inductive is the order in such a list: pushes come   *)
(* before finishes, only a loop's last list has finishes, and after a      *)
(* finish has been made there is no push left.                             *)
(*                                                                         *)
(* What makes EveryReceiverGetsAll and Delivered inductive is Put(q): what *)
(* has been popped from q, what is in q and what its producer is about to  *)
(* push.  Only a turn of the producer changes it, and the invariant        *)
(* Conserved relates the Puts of neighbouring queues.                      *)
(***************************************************************************)
EXTENDS SortPipeline, FiniteSetTheorems, TLAPS

Outputs(l) == {q \in Queues : Producer(q) = l}

CallsOf(l) ==
    [call : {"SetFinished"}, to : Outputs(l)]
      \cup [call : {"Push"}, to : Outputs(l) \ EventQueues, item : Numbers]
      \cup [call : {"Push"}, to : Outputs(l) \cap EventQueues, item : Seq(Numbers)]

\* The types, with the lists of calls as sequences.
Flows ==
    /\ DOMAIN queue = Queues /\ DOMAIN taken = Queues
    /\ \A q \in Queues :
         /\ queue[q] \in Seq(ItemsOf(q)) /\ taken[q] \in Seq(ItemsOf(q))
         /\ Len(queue[q]) <= MaxSize + 1
Locals ==
    /\ fNextEvent \in Seq(Numbers)
    /\ hasAnything \subseteq Loops
    /\ unpacked \in [Kinds -> Seq(Numbers)]
    /\ raced \in BOOLEAN
Threads ==
    /\ pc \in [Loops -> Places]
    /\ todo = [l \in Loops |-> todo[l]]
    /\ \A l \in Loops : todo[l] \in Seq(CallsOf(l))
Typed ==
    /\ options \in Configurations
    /\ finished \in [Queues -> BOOLEAN]
    /\ Flows /\ Locals /\ Threads

OnlyPushes(calls) == \A i \in 1 .. Len(calls) : calls[i].call = "Push"
NoPush(calls) == \A i \in 1 .. Len(calls) : calls[i].call # "Push"
PushesFirst(calls) ==
    \A i, j \in 1 .. Len(calls) :
        i < j /\ calls[i].call # "Push" => calls[j].call # "Push"

Ordered ==
    /\ \A l \in Loops : PushesFirst(todo[l])
    /\ \A l \in Loops : pc[l] # "done" => OnlyPushes(todo[l])
    /\ \A q \in Queues :
         finished[q] => pc[Producer(q)] = "done" /\ NoPush(todo[Producer(q)])

\* All that loop l pops from is finished, but for the queue of fragments out of
\* order, which nobody finishes.
ParentsFinished(l) ==
    \A q \in Queues \ {"out_of_order"} : Consumer[q] = l => finished[q]

\* A loop that runs ends after its parents; one that does not run does nothing.
Ended ==
    /\ \A l \in Loops \ Running : pc[l] = "done" /\ todo[l] = <<>>
    /\ \A l \in Running : pc[l] = "done" => ParentsFinished(l)
    /\ \A q \in Queues : finished[q] => Producer(q) \in Running

\* There is nothing to pop before loop l, but for fragments out of order.
NothingBefore(l) ==
    \A q \in Queues \ {"out_of_order"} : Consumer[q] = l => queue[q] = <<>>

\* Loop l pops from a queue that is its own, or from none.
Flowing(l) == UNCHANGED flow \/ \E q \in Queues : Consumer[q] = l /\ Take(q)

\* Loop l, which has made its calls and has not ended, goes to a place with a
\* list of new calls.
Turn(l) ==
    /\ todo[l] = <<>> /\ pc[l] # "done"
    /\ \E place \in Places, calls \in Seq(CallsOf(l)) :
         /\ pc' = [pc EXCEPT ![l] = place]
         /\ todo' = [todo EXCEPT ![l] = calls]
         /\ PushesFirst(calls)
         /\ place # "done" => OnlyPushes(calls)
         /\ place = "done" =>
                ParentsFinished(l) /\ UNCHANGED flow /\ (NothingBefore(l) \/ raced')
    /\ UNCHANGED <<options, finished>>
    /\ raced => raced'
    /\ Flowing(l)

-----------------------------------------------------------------------------
(* Queues and their ends *)

LEMMA QueuesAre ==
    Queues = {"raw", "good_hist", "good_write", "bad", "scaler", "good_build",
              "events", "det_hist", "det_write", "out_of_order"}
  BY DEF Queues, Consumer

LEMMA ProducersAre ==
    /\ Outputs("input") = {"raw"}
    /\ Outputs("unpack") = {"good_hist", "good_write", "good_build", "bad", "scaler"}
    /\ Outputs("event_build") = {"events", "out_of_order"}
    /\ Outputs("det_build") = {"det_hist", "det_write"}
  BY QueuesAre DEF Outputs, Producer

LEMMA ConsumersAre ==
    \A q \in Queues :
        /\ Consumer[q] \in Loops \ {"input"}
        /\ Consumer[q] = "unpack" => q = "raw"
        /\ Consumer[q] = "frag_hist" => q = "good_hist"
        /\ Consumer[q] = "frag_write" => q \in {"good_write", "bad", "scaler"}
        /\ Consumer[q] = "event_build" => q = "good_build"
        /\ Consumer[q] = "det_build" => q = "events"
        /\ Consumer[q] = "analysis_hist" => q = "det_hist"
        /\ Consumer[q] = "analysis_write" => q \in {"det_write", "out_of_order"}
  BY QueuesAre DEF Consumer, Loops

LEMMA ProducerIsLoop == \A q \in Queues : Producer(q) \in Loops
  BY QueuesAre DEF Producer, Loops

\* Every queue is the output of its producer.
LEMMA OutputOf == \A l, q : q \in Outputs(l) <=> q \in Queues /\ Producer(q) = l
  BY DEF Outputs

LEMMA InUseIs == ASSUME NEW S, NEW q \in S PROVE InUse(q) \in Seq(S)
  BY DEF InUse

LEMMA Joined == ASSUME NEW S, NEW s \in Seq(S), NEW t \in Seq(S) PROVE s \o t \in Seq(S)
  OBVIOUS

LEMMA GoodQueuesAre ==
    GoodQueues \in Seq({"good_hist", "good_write", "good_build"})
<1> DEFINE S == {"good_hist", "good_write", "good_build"}
<1>1. /\ InUse("good_hist") \in Seq(S) /\ InUse("good_write") \in Seq(S)
      /\ InUse("good_build") \in Seq(S)
  BY InUseIs
<1> HIDE DEF S
<1>2. InUse("good_hist") \o InUse("good_write") \in Seq(S)
  BY <1>1, Joined
<1>3. GoodQueues \in Seq(S)
  BY <1>1, <1>2, Joined DEF GoodQueues
<1> QED
  BY <1>3 DEF S

LEMMA DetQueuesAre == DetQueues \in Seq({"det_hist", "det_write"})
<1> DEFINE S == {"det_hist", "det_write"}
<1>1. InUse("det_hist") \in Seq(S) /\ InUse("det_write") \in Seq(S)
  BY InUseIs
<1> HIDE DEF S
<1>2. DetQueues \in Seq(S)
  BY <1>1, Joined DEF DetQueues
<1> QED
  BY <1>2 DEF S

-----------------------------------------------------------------------------
(* Lists of calls *)

\* A push is a call of the loop whose output the queue is.
LEMMA PushIsCall ==
    ASSUME NEW l, NEW q \in Outputs(l), NEW item \in ItemsOf(q)
    PROVE  Push(q, item) \in CallsOf(l) /\ Push(q, item).call = "Push"
<1>1. CASE q \in EventQueues
  BY <1>1 DEF Push, CallsOf, ItemsOf
<1>2. CASE q \notin EventQueues
  BY <1>2 DEF Push, CallsOf, ItemsOf
<1> QED
  BY <1>1, <1>2

LEMMA PushesAreCalls ==
    ASSUME NEW l, NEW Q \in SUBSET Outputs(l), NEW queues \in Seq(Q), NEW item,
           \A q \in Q : item \in ItemsOf(q)
    PROVE  PushAll(queues, item) \in Seq(CallsOf(l)) /\ OnlyPushes(PushAll(queues, item))
<1>1. \A i \in 1 .. Len(queues) :
        Push(queues[i], item) \in CallsOf(l) /\ Push(queues[i], item).call = "Push"
  BY PushIsCall
<1>2. PushAll(queues, item) = [i \in 1 .. Len(queues) |-> Push(queues[i], item)]
  BY DEF PushAll
<1> QED
  BY <1>1, <1>2 DEF OnlyPushes

LEMMA FinishesAreCalls ==
    ASSUME NEW l, NEW Q \in SUBSET Outputs(l), NEW queues \in Seq(Q)
    PROVE  FinishAll(queues) \in Seq(CallsOf(l)) /\ NoPush(FinishAll(queues))
<1>1. \A i \in 1 .. Len(queues) :
        SetFinished(queues[i]) \in CallsOf(l) /\ SetFinished(queues[i]).call # "Push"
  BY DEF SetFinished, CallsOf
<1>2. FinishAll(queues) = [i \in 1 .. Len(queues) |-> SetFinished(queues[i])]
  BY DEF FinishAll
<1> QED
  BY <1>1, <1>2 DEF NoPush

LEMMA OneList ==
    ASSUME NEW l, NEW calls \in Seq(CallsOf(l)), OnlyPushes(calls) \/ NoPush(calls)
    PROVE  PushesFirst(calls)
  BY DEF OnlyPushes, NoPush, PushesFirst

LEMMA NoCalls == \A l : <<>> \in Seq(CallsOf(l)) /\ OnlyPushes(<<>>) /\ PushesFirst(<<>>)
  BY DEF OnlyPushes, PushesFirst

\* Pushes, then finishes.
LEMMA PushesThenFinishes ==
    ASSUME NEW l, NEW pushes \in Seq(CallsOf(l)), NEW finishes \in Seq(CallsOf(l)),
           OnlyPushes(pushes), NoPush(finishes)
    PROVE  pushes \o finishes \in Seq(CallsOf(l)) /\ PushesFirst(pushes \o finishes)
<1> DEFINE s == pushes \o finishes
<1>1. /\ s \in Seq(CallsOf(l))
      /\ Len(s) = Len(pushes) + Len(finishes)
      /\ \A i \in 1 .. Len(pushes) : s[i] = pushes[i]
      /\ \A i \in 1 .. Len(finishes) : s[Len(pushes) + i] = finishes[i]
  OBVIOUS
<1>2. \A i \in 1 .. Len(s) : s[i].call # "Push" => i > Len(pushes)
  BY <1>1 DEF OnlyPushes
<1>3. ASSUME NEW j \in 1 .. Len(s), j > Len(pushes)
      PROVE  s[j].call # "Push"
  <2>1. j - Len(pushes) \in 1 .. Len(finishes) /\ j = Len(pushes) + (j - Len(pushes))
    BY <1>1, <1>3
  <2> QED
    BY <1>1, <2>1 DEF NoPush
<1>4. PushesFirst(s)
  <2> SUFFICES ASSUME NEW i \in 1 .. Len(s), NEW j \in 1 .. Len(s),
                      i < j, s[i].call # "Push"
               PROVE  s[j].call # "Push"
    BY DEF PushesFirst
  <2>1. i > Len(pushes) /\ Len(pushes) \in Nat
    BY <1>2
  <2> QED
    BY <1>3, <2>1
<1> QED
  BY <1>1, <1>4

LEMMA TwoPushes ==
    ASSUME NEW l, NEW one \in Seq(CallsOf(l)), NEW two \in Seq(CallsOf(l)),
           OnlyPushes(one), OnlyPushes(two)
    PROVE  one \o two \in Seq(CallsOf(l)) /\ OnlyPushes(one \o two)
<1> DEFINE s == one \o two
<1>1. /\ s \in Seq(CallsOf(l))
      /\ Len(s) = Len(one) + Len(two)
      /\ \A i \in 1 .. Len(one) : s[i] = one[i]
      /\ \A i \in 1 .. Len(two) : s[Len(one) + i] = two[i]
  OBVIOUS
<1>2. ASSUME NEW i \in 1 .. Len(s), i > Len(one)
      PROVE  s[i].call = "Push"
  <2>1. i - Len(one) \in 1 .. Len(two) /\ i = Len(one) + (i - Len(one))
    BY <1>1, <1>2
  <2> QED
    BY <1>1, <2>1 DEF OnlyPushes
<1> QED
  BY <1>1, <1>2 DEF OnlyPushes

LEMMA OnePush ==
    ASSUME NEW l, NEW q \in Outputs(l), NEW item \in ItemsOf(q)
    PROVE  <<Push(q, item)>> \in Seq(CallsOf(l)) /\ OnlyPushes(<<Push(q, item)>>)
  BY PushIsCall DEF OnlyPushes

-----------------------------------------------------------------------------
(* Every step that is not a call is a turn                                 *)

LEMMA GoingOn ==
    ASSUME Typed, NEW l \in Loops, NEW from, At(l, from), from # "done",
           NEW next \in Places \ {"done"}, Goto(l, next), Flowing(l),
           UNCHANGED <<options, finished, todo, raced>>
    PROVE  Turn(l)
<1>1. todo' = [todo EXCEPT ![l] = <<>>] /\ pc' = [pc EXCEPT ![l] = next]
  BY DEF Typed, Threads, At, Goto
<1>2. todo[l] = <<>> /\ pc[l] # "done"
  BY DEF At
<1> QED
  BY <1>1, <1>2, NoCalls DEF Turn

LEMMA Calling ==
    ASSUME Typed, NEW l \in Loops, NEW from, At(l, from), from # "done",
           NEW calls \in Seq(CallsOf(l)), OnlyPushes(calls), Do(l, calls),
           Flowing(l), UNCHANGED <<options, finished, pc, raced>>
    PROVE  Turn(l)
<1>1. todo' = [todo EXCEPT ![l] = calls] /\ pc' = [pc EXCEPT ![l] = pc[l]]
  BY DEF Typed, Threads, Do
<1>2. todo[l] = <<>> /\ pc[l] # "done" /\ pc[l] \in Places
  BY DEF At, Typed, Threads
<1> QED
  BY <1>1, <1>2, OneList DEF Turn

LEMMA Ending ==
    ASSUME Typed, NEW l \in Loops, NEW from, At(l, from), from # "done",
           NEW calls \in Seq(CallsOf(l)), PushesFirst(calls), Do(l, calls),
           Goto(l, "done"), ParentsFinished(l), NothingBefore(l) \/ raced',
           raced => raced', UNCHANGED <<options, finished, flow>>
    PROVE  Turn(l)
<1>1. todo' = [todo EXCEPT ![l] = calls] /\ pc' = [pc EXCEPT ![l] = "done"]
  BY DEF Do, Goto
<1>2. todo[l] = <<>> /\ pc[l] # "done" /\ "done" \in Places
  BY DEF At, Places
<1> QED
  BY <1>1, <1>2 DEF Turn, Flowing

\* The locals stay what they are.
LEMMA SameLocals ==
    ASSUME Typed, UNCHANGED <<options, fNextEvent, unpacked>>,
           hasAnything' \subseteq Loops, raced' \in BOOLEAN
    PROVE  Locals'
  BY DEF Typed, Locals, Numbers

LEMMA HeadTyped ==
    ASSUME Typed, NEW q \in Queues, queue[q] # <<>>
    PROVE  Head(queue[q]) \in ItemsOf(q)
<1>1. queue[q] \in Seq(ItemsOf(q))
  BY DEF Typed, Flows
<1> QED
  BY <1>1

LEMMA PopNothingTurn ==
    ASSUME Typed, NEW l \in Loops, NEW q \in Queues, NEW calls \in Seq(CallsOf(l)),
           PushesFirst(calls), PopNothing(l, q, calls),
           \A r \in Queues : Consumer[r] = l => r = q
    PROVE  Turn(l) /\ Locals'
<1>1. CASE FindEmpty(l, q)
  <2>1. "check" \in Places \ {"done"}
    BY DEF Places
  <2> QED
    BY <1>1, <2>1, GoingOn, SameLocals DEF FindEmpty, Flowing, Typed, Locals
<1>2. CASE Continue(l, {q})
  <2>1. "pop" \in Places \ {"done"}
    BY DEF Places
  <2> QED
    BY <1>2, <2>1, GoingOn, SameLocals DEF Continue, Flowing, Typed, Locals
<1>3. CASE End(l, {q}, calls)
  <2>1. ParentsFinished(l) /\ (NothingBefore(l) \/ raced')
    BY <1>3 DEF End, AllParentsDead, ParentsFinished, NothingBefore
  <2>2. Turn(l)
    BY <1>3, <2>1, Ending DEF End, Flowing
  <2>3. Locals'
    BY <1>3, SameLocals DEF End, Typed, Locals
  <2> QED
    BY <2>2, <2>3
<1> QED
  BY <1>1, <1>2, <1>3 DEF PopNothing

LEMMA InputTurn ==
    ASSUME Typed, InputStep
    PROVE  Turn("input") /\ Locals'
<1>1. "input" \in Loops /\ "raw" \in Outputs("input") /\ "raw" \in Queues
  BY ProducersAre, QueuesAre DEF Loops
<1>2. CASE ReadEvent
  <2>1. options.rawEvents \in Nat
    BY PipelineAssumption DEF Typed
  <2>2. EventsRead \in Nat
    BY <1>1 DEF EventsRead, Typed, Flows
  <2>3. EventsRead + 1 \in ItemsOf("raw")
    BY <1>2, <2>1, <2>2 DEF ReadEvent, ItemsOf, EventQueues, Numbers
  <2>4. /\ <<Push("raw", EventsRead + 1)>> \in Seq(CallsOf("input"))
        /\ OnlyPushes(<<Push("raw", EventsRead + 1)>>)
    BY <1>1, <2>3, OnePush
  <2> QED
    BY <1>1, <1>2, <2>4, Calling, SameLocals
    DEF ReadEvent, Flowing, Typed, Locals
<1>3. CASE EndOfInput
  <2>1. <<"raw">> \in Seq({"raw"}) /\ {"raw"} \in SUBSET Outputs("input")
    BY <1>1
  <2>2. FinishAll(<<"raw">>) = <<SetFinished("raw")>>
    BY DEF FinishAll
  <2>3. /\ <<SetFinished("raw")>> \in Seq(CallsOf("input"))
        /\ PushesFirst(<<SetFinished("raw")>>)
    BY <2>1, <2>2, FinishesAreCalls, OneList
  <2>4. ParentsFinished("input") /\ NothingBefore("input")
    BY ConsumersAre DEF ParentsFinished, NothingBefore
  <2> QED
    BY <1>1, <1>3, <2>3, <2>4, Ending, SameLocals
    DEF EndOfInput, Flowing, Typed, Locals
<1> QED
  BY <1>2, <1>3 DEF InputStep

LEMMA UnpackTurn ==
    ASSUME Typed, UnpackStep
    PROVE  Turn("unpack") /\ Locals'
<1> DEFINE G == {"good_hist", "good_write", "good_build"}
           O == {"good_hist", "good_write", "good_build", "bad", "scaler"}
<1>1. /\ "unpack" \in Loops /\ "raw" \in Queues /\ O \in SUBSET Outputs("unpack")
      /\ Consumer["raw"] = "unpack"
  BY ProducersAre, QueuesAre DEF Loops, Consumer
<1>2. CASE Unpack
  <2> DEFINE f == Head(queue["raw"])
  <2>1. f \in Numbers
    BY <1>1, <1>2, HeadTyped DEF Unpack, Take, ItemsOf, EventQueues
  <2>2. PICK kind \in Kinds :
          /\ unpacked' = [unpacked EXCEPT ![kind] = Append(@, f)]
          /\ Do("unpack", PushAll(Receivers(kind), f))
    BY <1>2 DEF Unpack
  <2>3. Receivers(kind) \in Seq(O)
    <3>1. CASE kind = "good"
      BY <3>1, GoodQueuesAre DEF Receivers
    <3>2. CASE kind # "good"
      BY <3>2, <2>2 DEF Receivers, Kinds
    <3> QED
      BY <3>1, <3>2
  <2>4. \A q \in O : f \in ItemsOf(q)
    BY <2>1 DEF ItemsOf, EventQueues
  <2>5. /\ PushAll(Receivers(kind), f) \in Seq(CallsOf("unpack"))
        /\ OnlyPushes(PushAll(Receivers(kind), f))
    BY <1>1, <2>3, <2>4, PushesAreCalls
  <2>6. unpacked' \in [Kinds -> Seq(Numbers)]
    BY <2>1, <2>2 DEF Typed, Locals
  <2>7. Turn("unpack")
    BY <1>1, <1>2, <2>2, <2>5, Calling DEF Unpack, Flowing
  <2>8. Locals'
    BY <1>2, <2>6 DEF Unpack, Typed, Locals, Numbers
  <2> QED
    BY <2>7, <2>8
<1>3. CASE PopNothing("unpack", "raw", UnpackLastCalls)
  <2>1. GoodQueues \o <<"bad", "scaler", "bad", "scaler">> \in Seq(O)
    <3>1. GoodQueues \in Seq(O)
      BY GoodQueuesAre
    <3>2. <<"bad", "scaler", "bad", "scaler">> \in Seq(O)
      OBVIOUS
    <3> QED
      BY <3>1, <3>2, Joined
  <2>2. UnpackLastCalls \in Seq(CallsOf("unpack")) /\ PushesFirst(UnpackLastCalls)
    BY <1>1, <2>1, FinishesAreCalls, OneList DEF UnpackLastCalls
  <2> QED
    BY <1>1, <1>3, <2>2, ConsumersAre, PopNothingTurn
<1> QED
  BY <1>2, <1>3 DEF UnpackStep

LEMMA HistTurn ==
    ASSUME Typed, NEW l \in Loops, NEW q \in Queues, HistStep(l, q), Consumer[q] = l,
           \A r \in Queues : Consumer[r] = l => r = q
    PROVE  Turn(l) /\ Locals'
<1>1. CASE Histogram(l, q)
  <2>1. Do(l, <<>>)
    BY <1>1 DEF Histogram, At, Do, Typed, Threads
  <2>2. Turn(l)
    BY <1>1, <2>1, NoCalls, Calling DEF Histogram, Flowing
  <2>3. Locals'
    BY <1>1, SameLocals DEF Histogram, Typed, Locals
  <2> QED
    BY <2>2, <2>3
<1>2. CASE PopNothing(l, q, <<>>)
  BY <1>2, NoCalls, PopNothingTurn
<1> QED
  BY <1>1, <1>2 DEF HistStep

LEMMA PopAnythingTurn ==
    ASSUME Typed, NEW l \in Loops, NEW q \in Queues, Consumer[q] = l, NEW from, from # "done",
           NEW next \in Places \ {"done"}, PopAnything(l, from, q, next)
    PROVE  Turn(l) /\ Locals'
<1>1. Turn(l)
  BY GoingOn DEF PopAnything, Flowing
<1>2. Locals'
  BY SameLocals DEF PopAnything, Typed, Locals
<1> QED
  BY <1>1, <1>2

\* A writer's Iteration goes on, or it ends without a call.
LEMMA WriterTurn ==
    ASSUME Typed, NEW l \in Loops, NEW queues,
           \A r \in Queues \ {"out_of_order"} : Consumer[r] = l => r \in queues,
           Continue(l, queues) \/ End(l, queues, <<>>)
    PROVE  Turn(l) /\ Locals'
<1>1. "pop" \in Places \ {"done"}
  BY DEF Places
<1>2. CASE Continue(l, queues)
  BY <1>1, <1>2, GoingOn, SameLocals DEF Continue, Flowing, Typed, Locals
<1>3. CASE End(l, queues, <<>>)
  <2>1. ParentsFinished(l) /\ (NothingBefore(l) \/ raced')
    BY <1>3 DEF End, AllParentsDead, ParentsFinished, NothingBefore
  <2>2. Turn(l)
    BY <1>3, <2>1, NoCalls, Ending DEF End, Flowing
  <2>3. Locals'
    BY <1>3, SameLocals DEF End, Typed, Locals
  <2> QED
    BY <2>2, <2>3
<1> QED
  BY <1>2, <1>3

LEMMA FragWriteTurn ==
    ASSUME Typed, FragWriteStep
    PROVE  Turn("frag_write") /\ Locals'
<1>1. /\ "frag_write" \in Loops /\ {"good_write", "bad", "scaler"} \subseteq Queues
      /\ {"pop_bad", "pop_scaler", "check"} \subseteq Places \ {"done"}
  BY QueuesAre DEF Loops, Places
<1>own. \A q \in {"good_write", "bad", "scaler"} : Consumer[q] = "frag_write"
  BY DEF Consumer
<1>2. CASE \/ PopAnything("frag_write", "pop", "good_write", "pop_bad")
           \/ PopAnything("frag_write", "pop_bad", "bad", "pop_scaler")
           \/ PopAnything("frag_write", "pop_scaler", "scaler", "check")
  BY <1>1, <1>2, <1>own, PopAnythingTurn
<1>3. CASE \/ Continue("frag_write", FragWriteParents)
           \/ End("frag_write", FragWriteParents, <<>>)
  BY <1>1, <1>3, ConsumersAre, WriterTurn DEF FragWriteParents
<1> QED
  BY <1>2, <1>3 DEF FragWriteStep

LEMMA AnalysisWriteTurn ==
    ASSUME Typed, AnalysisWriteStep
    PROVE  Turn("analysis_write") /\ Locals'
<1>1. /\ "analysis_write" \in Loops /\ {"det_write", "out_of_order"} \subseteq Queues
      /\ {"pop_out_of_order", "check"} \subseteq Places \ {"done"}
  BY QueuesAre DEF Loops, Places
<1>own. \A q \in {"det_write", "out_of_order"} : Consumer[q] = "analysis_write"
  BY DEF Consumer
<1>2. CASE PopAnything("analysis_write", "pop", "det_write",
                       IF options.separate THEN "pop_out_of_order" ELSE "check")
  BY <1>1, <1>2, <1>own, PopAnythingTurn
<1>3. CASE PopOutOfOrder
  <2>1. Turn("analysis_write")
    BY <1>1, <1>3, <1>own, GoingOn DEF PopOutOfOrder, Flowing
  <2>2. Locals'
    BY <1>3, SameLocals DEF PopOutOfOrder, Typed, Locals
  <2> QED
    BY <2>1, <2>2
<1>4. CASE \/ Continue("analysis_write", {"det_write"})
           \/ End("analysis_write", {"det_write"}, <<>>)
  BY <1>1, <1>4, ConsumersAre, WriterTurn
<1> QED
  BY <1>2, <1>3, <1>4 DEF AnalysisWriteStep

LEMMA BuilderTurn ==
    ASSUME Typed, BuilderStep
    PROVE  Turn("event_build") /\ Locals'
<1>1. /\ "event_build" \in Loops /\ "good_build" \in Queues
      /\ "events" \in Outputs("event_build") /\ "out_of_order" \in Outputs("event_build")
      /\ Consumer["good_build"] = "event_build"
  BY ProducersAre, QueuesAre DEF Loops, Consumer
<1>2. fNextEvent \in ItemsOf("events")
  BY DEF Typed, Locals, ItemsOf, EventQueues
<1>3. CASE BuildEvent
  <2> DEFINE f == Head(queue["good_build"])
  <2>1. f \in Numbers /\ f \in ItemsOf("out_of_order")
    BY <1>1, <1>3, HeadTyped DEF BuildEvent, Take, ItemsOf, EventQueues
  <2>2. PICK closes \in BOOLEAN, apart \in BOOLEAN :
          /\ fNextEvent' = IF apart THEN (IF closes THEN <<>> ELSE fNextEvent)
                           ELSE Append(IF closes THEN <<>> ELSE fNextEvent, f)
          /\ Do("event_build",
                (IF closes THEN <<Push("events", fNextEvent)>> ELSE <<>>)
                  \o (IF apart THEN <<Push("out_of_order", f)>> ELSE <<>>))
    BY <1>3 DEF BuildEvent
  <2> DEFINE one == IF closes THEN <<Push("events", fNextEvent)>> ELSE <<>>
             two == IF apart THEN <<Push("out_of_order", f)>> ELSE <<>>
  <2>3. one \in Seq(CallsOf("event_build")) /\ OnlyPushes(one)
    BY <1>1, <1>2, OnePush, NoCalls
  <2>4. two \in Seq(CallsOf("event_build")) /\ OnlyPushes(two)
    BY <1>1, <2>1, OnePush, NoCalls
  <2>5. fNextEvent' \in Seq(Numbers)
    <3>1. fNextEvent \in Seq(Numbers) /\ <<>> \in Seq(Numbers)
      BY DEF Typed, Locals
    <3> QED
      BY <2>1, <2>2, <3>1
  <2> HIDE DEF one, two
  <2>6. one \o two \in Seq(CallsOf("event_build")) /\ OnlyPushes(one \o two)
    BY <2>3, <2>4, TwoPushes
  <2>7. Do("event_build", one \o two)
    BY <2>2 DEF one, two
  <2>8. Turn("event_build")
    BY <1>1, <1>3, <2>6, <2>7, Calling DEF BuildEvent, Flowing
  <2>9. Locals'
    BY <1>3, <2>5 DEF BuildEvent, Typed, Locals, Numbers
  <2> QED
    BY <2>8, <2>9
<1>4. CASE PopNothing("event_build", "good_build", BuilderLastCalls)
  <2>1. LastEvent \in Seq(CallsOf("event_build")) /\ OnlyPushes(LastEvent)
    BY <1>1, <1>2, OnePush, NoCalls DEF LastEvent
  <2>2. <<"events">> \in Seq({"events"}) /\ {"events"} \in SUBSET Outputs("event_build")
    BY <1>1
  <2>3. FinishAll(<<"events">>) = <<SetFinished("events")>>
    BY DEF FinishAll
  <2>4. /\ <<SetFinished("events")>> \in Seq(CallsOf("event_build"))
        /\ NoPush(<<SetFinished("events")>>)
    BY <2>2, <2>3, FinishesAreCalls
  <2>5. BuilderLastCalls \in Seq(CallsOf("event_build")) /\ PushesFirst(BuilderLastCalls)
    BY <2>1, <2>4, PushesThenFinishes DEF BuilderLastCalls
  <2> QED
    BY <1>1, <1>4, <2>5, ConsumersAre, PopNothingTurn
<1> QED
  BY <1>3, <1>4 DEF BuilderStep

LEMMA DetectorTurn ==
    ASSUME Typed, DetectorStep
    PROVE  Turn("det_build") /\ Locals'
<1> DEFINE D == {"det_hist", "det_write"}
<1>1. /\ "det_build" \in Loops /\ "events" \in Queues /\ D \in SUBSET Outputs("det_build")
      /\ Consumer["events"] = "det_build"
  BY ProducersAre, QueuesAre DEF Loops, Consumer
<1>2. CASE BuildDetectors
  <2> DEFINE event == Head(queue["events"])
  <2>1. event \in Seq(Numbers)
    BY <1>1, <1>2, HeadTyped DEF BuildDetectors, Take, ItemsOf, EventQueues
  <2>2. \A q \in D : event \in ItemsOf(q)
    BY <2>1 DEF ItemsOf, EventQueues
  <2>3. /\ PushAll(DetQueues, event) \in Seq(CallsOf("det_build"))
        /\ OnlyPushes(PushAll(DetQueues, event))
    BY <1>1, <2>2, DetQueuesAre, PushesAreCalls
  <2>4. "check" \in Places \ {"done"}
    BY DEF Places
  <2>5. /\ event = <<>> => Goto("det_build", "check") /\ UNCHANGED todo
        /\ event # <<>> =>
             Do("det_build", PushAll(DetQueues, event)) /\ UNCHANGED pc
    BY <1>2, Zenon DEF BuildDetectors
  <2>6. /\ At("det_build", "pop") /\ Flowing("det_build")
        /\ UNCHANGED <<options, finished, fNextEvent, hasAnything, unpacked, raced>>
    BY <1>1, <1>2, Zenon DEF BuildDetectors, Flowing
  <2>7. Locals'
    BY <2>6, SameLocals DEF Typed, Locals
  <2>8. CASE event = <<>>
    BY <1>1, <2>4, <2>5, <2>6, <2>7, <2>8, GoingOn
  <2>9. CASE event # <<>>
    BY <1>1, <2>3, <2>5, <2>6, <2>7, <2>9, Calling
  <2> QED
    BY <2>8, <2>9
<1>3. CASE PopNothing("det_build", "events", FinishAll(DetQueues))
  <2>1. FinishAll(DetQueues) \in Seq(CallsOf("det_build")) /\ PushesFirst(FinishAll(DetQueues))
    BY <1>1, DetQueuesAre, FinishesAreCalls, OneList
  <2> QED
    BY <1>1, <1>3, <2>1, ConsumersAre, PopNothingTurn
<1> QED
  BY <1>2, <1>3 DEF DetectorStep

LEMMA StepIsCallOrTurn ==
    ASSUME Typed, NEW l \in Loops, Step(l)
    PROVE  Call(l) \/ (Turn(l) /\ Locals')
<1>1. /\ {"good_hist", "det_hist"} \subseteq Queues
      /\ Consumer["good_hist"] = "frag_hist" /\ Consumer["det_hist"] = "analysis_hist"
  BY QueuesAre DEF Consumer
<1>2. CASE l = "frag_hist" /\ HistStep(l, "good_hist")
  BY <1>1, <1>2, ConsumersAre, HistTurn
<1>3. CASE l = "analysis_hist" /\ HistStep(l, "det_hist")
  BY <1>1, <1>3, ConsumersAre, HistTurn
<1> QED
  BY <1>2, <1>3, InputTurn, UnpackTurn, FragWriteTurn, BuilderTurn, DetectorTurn,
     AnalysisWriteTurn DEF Step

-----------------------------------------------------------------------------
(* Types                                                                   *)

LEMMA InitTyped == Init => Typed
<1> SUFFICES ASSUME Init PROVE Typed
  OBVIOUS
<1>1. MaxSize \in Nat
  BY PipelineAssumption
<1>2. Flows
  BY <1>1 DEF Init, Flows
<1>3. Locals
  <2>1. /\ fNextEvent = <<>> /\ unpacked = [k \in Kinds |-> <<>>]
        /\ hasAnything = {} /\ raced = FALSE
    BY DEF Init
  <2>2. <<>> \in Seq(Numbers)
    OBVIOUS
  <2> QED
    BY <2>1, <2>2 DEF Locals
<1>4. Threads
  BY NoCalls DEF Init, Threads, Places
<1> QED
  BY <1>2, <1>3, <1>4 DEF Init, Typed

LEMMA SameTypes ==
    ASSUME UNCHANGED options
    PROVE  /\ Numbers' = Numbers
           /\ \A q : ItemsOf(q)' = ItemsOf(q)
           /\ \A l : CallsOf(l)' = CallsOf(l)
  BY DEF Numbers, ItemsOf, CallsOf, Outputs

LEMMA TurnTyped ==
    ASSUME Typed, NEW l \in Loops, Turn(l), Locals'
    PROVE  Typed'
<1>1. UNCHANGED <<options, finished>>
  BY DEF Turn
<1>2. Threads'
  <2>1. PICK place \in Places, calls \in Seq(CallsOf(l)) :
          /\ pc' = [pc EXCEPT ![l] = place]
          /\ todo' = [todo EXCEPT ![l] = calls]
    BY DEF Turn
  <2> QED
    BY <1>1, <2>1, SameTypes DEF Typed, Threads
<1>3. Flows'
  <2>1. CASE UNCHANGED flow
    BY <1>1, <2>1, SameTypes DEF flow, Typed, Flows
  <2>2. ASSUME NEW q \in Queues, Take(q) PROVE Flows'
    <3>1. queue[q] \in Seq(ItemsOf(q)) /\ queue[q] # <<>> /\ taken[q] \in Seq(ItemsOf(q))
      BY <2>2 DEF Typed, Flows, Take
    <3>2. /\ Tail(queue[q]) \in Seq(ItemsOf(q)) /\ Len(Tail(queue[q])) <= Len(queue[q])
          /\ Append(taken[q], Head(queue[q])) \in Seq(ItemsOf(q))
      BY <3>1
    <3>3. MaxSize \in Nat /\ Len(queue[q]) \in Nat /\ Len(Tail(queue[q])) \in Nat
      BY <3>1, <3>2, PipelineAssumption
    <3> QED
      BY <1>1, <2>2, <3>2, <3>3, SameTypes DEF Typed, Flows, Take
  <2> QED
    BY <2>1, <2>2 DEF Turn, Flowing
<1> QED
  BY <1>1, <1>2, <1>3 DEF Typed

LEMMA CallTyped ==
    ASSUME Typed, NEW l \in Loops, Call(l)
    PROVE  Typed'
<1> DEFINE next == Head(todo[l])
<1>1. UNCHANGED <<options, pc, fNextEvent, hasAnything, unpacked, taken, raced>>
  BY DEF Call
<1>2. next \in CallsOf(l) /\ Tail(todo[l]) \in Seq(CallsOf(l))
  BY DEF Typed, Threads, Call
<1>3. next.to \in Queues
  BY <1>2, OutputOf DEF CallsOf
<1>4. Threads'
  BY <1>1, <1>2, SameTypes DEF Typed, Threads, Call, Do
<1>5. Locals'
  BY <1>1 DEF Typed, Locals, Numbers
<1>6. CASE /\ next.call = "Push" /\ HasRoom(next.to)
           /\ queue' = [queue EXCEPT ![next.to] = Append(@, next.item)]
           /\ UNCHANGED finished
  <2>1. next.item \in ItemsOf(next.to)
    BY <1>2, <1>6 DEF CallsOf, ItemsOf
  <2>2. queue[next.to] \in Seq(ItemsOf(next.to)) /\ Len(queue[next.to]) <= MaxSize
    BY <1>3, <1>6, PipelineAssumption DEF Typed, Flows, HasRoom
  <2>3. /\ Append(queue[next.to], next.item) \in Seq(ItemsOf(next.to))
        /\ Len(Append(queue[next.to], next.item)) = Len(queue[next.to]) + 1
    BY <2>1, <2>2
  <2>4. Len(queue[next.to]) + 1 <= MaxSize + 1
    BY <2>2, PipelineAssumption
  <2> HIDE DEF next
  <2>5. Flows'
    BY <1>1, <1>3, <1>6, <2>3, <2>4, SameTypes DEF Typed, Flows
  <2> QED
    BY <1>1, <1>4, <1>5, <1>6, <2>5 DEF Typed
<1>7. CASE /\ next.call = "SetFinished"
           /\ finished' = [finished EXCEPT ![next.to] = TRUE]
           /\ UNCHANGED queue
  <2>1. Flows'
    BY <1>1, <1>7, SameTypes DEF Typed, Flows
  <2>2. finished' \in [Queues -> BOOLEAN]
    BY <1>3, <1>7 DEF Typed
  <2> QED
    BY <1>1, <1>4, <1>5, <2>1, <2>2 DEF Typed
<1> QED
  BY <1>6, <1>7 DEF Call

LEMMA StutterTyped == Typed /\ UNCHANGED vars => Typed'
  BY DEF vars, flow, Typed, Flows, Locals, Threads, CallsOf, Outputs, ItemsOf, Numbers

LEMMA NextTyped == Typed /\ [Next]_vars => Typed'
  BY StepIsCallOrTurn, TurnTyped, CallTyped, StutterTyped DEF Next

\* Loops push what belongs into the queues that are theirs, and no queue gets
\* beyond MaxSize items and the one that was let in.
THEOREM TypeCorrect == Spec => []TypeOK
<1>1. Typed => TypeOK
  <2> SUFFICES ASSUME Typed PROVE TypeOK
    OBVIOUS
  <2>1. ASSUME NEW l \in Loops, NEW i \in DOMAIN todo[l]
        PROVE  CallOf(l, todo[l][i])
    <3>1. todo[l][i] \in CallsOf(l)
      BY <2>1 DEF Typed, Threads
    <3> QED
      BY <3>1, OutputOf DEF CallsOf, CallOf, ItemsOf
  <2> QED
    BY <2>1 DEF Typed, Flows, Locals, Threads, TypeOK
<1> QED
  BY <1>1, InitTyped, NextTyped, PTL DEF Spec

-----------------------------------------------------------------------------
(* Pushes come first                                                       *)

LEMMA InitOrdered == Init => Ordered
  BY ProducerIsLoop, NoCalls DEF Init, Ordered

LEMMA TurnOrdered ==
    ASSUME Typed, Ordered, NEW l \in Loops, Turn(l)
    PROVE  Ordered'
<1>1. PICK place \in Places, calls \in Seq(CallsOf(l)) :
        /\ pc' = [pc EXCEPT ![l] = place]
        /\ todo' = [todo EXCEPT ![l] = calls]
        /\ PushesFirst(calls)
        /\ place # "done" => OnlyPushes(calls)
  BY DEF Turn
<1>2. pc[l] # "done" /\ UNCHANGED finished
  BY DEF Turn
<1>3. /\ pc'[l] = place /\ todo'[l] = calls
      /\ \A k \in Loops \ {l} : pc'[k] = pc[k] /\ todo'[k] = todo[k]
  BY <1>1 DEF Typed, Threads
<1>4. \A k \in Loops : PushesFirst(todo'[k])
  BY <1>1, <1>3 DEF Ordered
<1>5. \A k \in Loops : pc'[k] # "done" => OnlyPushes(todo'[k])
  BY <1>1, <1>3 DEF Ordered
<1>6. ASSUME NEW q \in Queues, finished'[q]
      PROVE  pc'[Producer(q)] = "done" /\ NoPush(todo'[Producer(q)])
  <2>1. finished[q] /\ Producer(q) \in Loops
    BY <1>2, <1>6, ProducerIsLoop
  <2>2. pc[Producer(q)] = "done" /\ NoPush(todo[Producer(q)])
    BY <2>1 DEF Ordered
  <2> QED
    BY <1>2, <1>3, <2>1, <2>2
<1> QED
  BY <1>4, <1>5, <1>6 DEF Ordered

LEMMA RestOfCalls ==
    ASSUME NEW l, NEW calls \in Seq(CallsOf(l)), calls # <<>>
    PROVE  /\ PushesFirst(calls) => PushesFirst(Tail(calls))
           /\ OnlyPushes(calls) => OnlyPushes(Tail(calls)) /\ Head(calls).call = "Push"
           /\ NoPush(calls) => NoPush(Tail(calls)) /\ Head(calls).call # "Push"
           /\ PushesFirst(calls) /\ Head(calls).call # "Push" => NoPush(Tail(calls))
<1>1. /\ Len(Tail(calls)) = Len(calls) - 1 /\ Len(calls) \in Nat \ {0}
      /\ \A i \in 1 .. Len(calls) - 1 : Tail(calls)[i] = calls[i + 1]
      /\ Head(calls) = calls[1]
  OBVIOUS
<1>2. \A i \in 1 .. Len(calls) - 1 : i + 1 \in 1 .. Len(calls) /\ 1 < i + 1
  BY <1>1
<1>3. PushesFirst(calls) => PushesFirst(Tail(calls))
  <2> SUFFICES ASSUME PushesFirst(calls), NEW i \in 1 .. Len(Tail(calls)),
                      NEW j \in 1 .. Len(Tail(calls)), i < j,
                      Tail(calls)[i].call # "Push"
               PROVE  Tail(calls)[j].call # "Push"
    BY DEF PushesFirst
  <2>1. /\ i + 1 \in 1 .. Len(calls) /\ j + 1 \in 1 .. Len(calls) /\ i + 1 < j + 1
        /\ Tail(calls)[i] = calls[i + 1] /\ Tail(calls)[j] = calls[j + 1]
    BY <1>1
  <2> QED
    BY <2>1 DEF PushesFirst
<1>4. 1 \in 1 .. Len(calls)
  BY <1>1
<1> QED
  BY <1>1, <1>2, <1>3, <1>4 DEF OnlyPushes, NoPush, PushesFirst

LEMMA CallOrdered ==
    ASSUME Typed, Ordered, NEW l \in Loops, Call(l)
    PROVE  /\ Ordered'
           /\ \A q \in Queues : finished[q] =>
                 finished'[q] /\ Len(queue'[q]) <= Len(queue[q])
<1> DEFINE next == Head(todo[l])
<1>1. todo[l] \in Seq(CallsOf(l)) /\ todo[l] # <<>> /\ UNCHANGED pc
  BY DEF Typed, Threads, Call
<1>2. /\ todo'[l] = Tail(todo[l])
      /\ \A k \in Loops \ {l} : todo'[k] = todo[k]
  BY DEF Typed, Threads, Call, Do
<1>3. next.to \in Queues /\ Producer(next.to) = l
  BY <1>1, OutputOf DEF CallsOf
<1>4. \A k \in Loops : PushesFirst(todo'[k])
  BY <1>1, <1>2, RestOfCalls DEF Ordered
<1>5. \A k \in Loops : pc'[k] # "done" => OnlyPushes(todo'[k])
  BY <1>1, <1>2, RestOfCalls DEF Ordered
<1>6. \A q \in Queues : finished[q] =>
        pc'[Producer(q)] = "done" /\ NoPush(todo'[Producer(q)])
  BY <1>1, <1>2, RestOfCalls, ProducerIsLoop DEF Ordered
<1>7. CASE /\ next.call = "Push"
           /\ queue' = [queue EXCEPT ![next.to] = Append(@, next.item)]
           /\ UNCHANGED finished
  <2>1. ~ finished[next.to]
    BY <1>1, <1>3, <1>7, RestOfCalls DEF Ordered
  <2>2. \A q \in Queues : finished[q] => queue'[q] = queue[q] /\ Len(queue[q]) \in Nat
    BY <1>7, <2>1 DEF Typed, Flows
  <2> HIDE DEF next
  <2>3. Ordered'
    BY <1>4, <1>5, <1>6, <1>7 DEF Ordered
  <2>4. finished' = finished
    BY <1>7
  <2>5. \A q \in Queues : finished[q] =>
          finished'[q] /\ Len(queue'[q]) <= Len(queue[q])
    BY <2>2, <2>4
  <2> QED
    BY <2>3, <2>5
<1>8. CASE /\ next.call = "SetFinished"
           /\ finished' = [finished EXCEPT ![next.to] = TRUE]
           /\ UNCHANGED queue
  <2>1. pc[l] = "done"
    BY <1>1, <1>8, RestOfCalls DEF Ordered
  <2>2. NoPush(todo'[l])
    BY <1>1, <1>2, <1>8, RestOfCalls DEF Ordered
  <2> HIDE DEF next
  <2>3. \A q \in Queues : finished'[q] <=> finished[q] \/ q = next.to
    BY <1>3, <1>8 DEF Typed
  <2>4. \A q \in Queues : Len(queue[q]) \in Nat /\ queue'[q] = queue[q]
    BY <1>8 DEF Typed, Flows
  <2>5. \A q \in Queues : finished'[q] =>
          pc'[Producer(q)] = "done" /\ NoPush(todo'[Producer(q)])
    BY <1>1, <1>3, <1>6, <2>1, <2>2, <2>3
  <2>6. Ordered'
    BY <1>4, <1>5, <2>5 DEF Ordered
  <2> QED
    BY <2>3, <2>4, <2>6
<1> QED
  BY <1>7, <1>8 DEF Call

LEMMA TurnKeepsFinished ==
    ASSUME Typed, NEW l \in Loops, Turn(l), NEW q \in Queues, finished[q]
    PROVE  finished'[q] /\ Len(queue'[q]) <= Len(queue[q])
<1>1. UNCHANGED finished /\ queue[q] \in Seq(ItemsOf(q)) /\ DOMAIN queue = Queues
  BY DEF Turn, Typed, Flows
<1>2. CASE UNCHANGED flow
  BY <1>1, <1>2 DEF flow
<1>3. ASSUME NEW r \in Queues, Take(r)
      PROVE  Len(queue'[q]) <= Len(queue[q])
  <2>1. queue'[q] = IF q = r THEN Tail(queue[q]) ELSE queue[q]
    BY <1>1, <1>3 DEF Take
  <2>2. q = r => Len(Tail(queue[q])) <= Len(queue[q])
    BY <1>1, <1>3 DEF Take
  <2> QED
    BY <1>1, <2>1, <2>2
<1> QED
  BY <1>1, <1>2, <1>3 DEF Turn, Flowing

LEMMA NextOrdered == Typed /\ Ordered /\ [Next]_vars => Ordered'
<1> SUFFICES ASSUME Typed, Ordered, [Next]_vars PROVE Ordered'
  OBVIOUS
<1>1. CASE Next
  BY <1>1, StepIsCallOrTurn, TurnOrdered, CallOrdered DEF Next
<1>2. CASE UNCHANGED vars
  BY <1>2 DEF vars, flow, Ordered
<1> QED
  BY <1>1, <1>2

\* Nothing enters a queue once it is finished, and it stays finished: a loop
\* makes its last Push before it finishes any of its queues.
THEOREM FinishIsFinal == Spec => NothingAfterFinish
<1> DEFINE Final == \A q \in Queues : finished[q] =>
                        finished'[q] /\ Len(queue'[q]) <= Len(queue[q])
<1>1. Typed /\ Ordered /\ [Next]_vars => [Final]_vars
  <2> SUFFICES ASSUME Typed, Ordered, Next PROVE Final
    OBVIOUS
  <2> QED
    BY StepIsCallOrTurn, TurnKeepsFinished, CallOrdered DEF Next
<1> QED
  BY <1>1, InitTyped, NextTyped, InitOrdered, NextOrdered, PTL
  DEF Spec, NothingAfterFinish

-----------------------------------------------------------------------------
(* Loops end in order                                                      *)

LEMMA InitEnded == Init => Ended
<1> SUFFICES ASSUME Init PROVE Ended
  OBVIOUS
<1>1. Running \subseteq Loops
  BY PipelineAssumption DEF Init, Running
<1>2. \A l \in Loops : pc[l] = IF l \in Running THEN "pop" ELSE "done"
  BY DEF Init
<1>3. \A l \in Running : pc[l] # "done"
  BY <1>1, <1>2
<1>4. /\ \A l \in Loops : todo[l] = <<>>
      /\ \A q \in Queues : ~finished[q]
  BY DEF Init
<1> QED
  BY <1>2, <1>3, <1>4 DEF Ended

LEMMA TurnEnded ==
    ASSUME Typed, Ended, NEW l \in Loops, Turn(l)
    PROVE  Ended'
<1>1. PICK place \in Places, calls \in Seq(CallsOf(l)) :
        /\ pc' = [pc EXCEPT ![l] = place]
        /\ todo' = [todo EXCEPT ![l] = calls]
        /\ place = "done" => ParentsFinished(l)
  BY DEF Turn
<1>2. pc[l] # "done" /\ finished' = finished /\ options' = options
  BY DEF Turn
<1>3. l \in Running
  BY <1>2 DEF Ended
<1>4. /\ pc'[l] = place
      /\ \A k \in Loops \ {l} : pc'[k] = pc[k] /\ todo'[k] = todo[k]
  BY <1>1 DEF Typed, Threads
<1>5. Running \subseteq Loops
  BY PipelineAssumption DEF Typed, Running
<1>6. Running' = Running /\ \A k : ParentsFinished(k)' = ParentsFinished(k)
  BY <1>2 DEF Running, ParentsFinished
<1>7. \A k \in Loops \ Running : pc'[k] = "done" /\ todo'[k] = <<>>
  BY <1>3, <1>4 DEF Ended
<1>8. \A k \in Running : pc'[k] = "done" => ParentsFinished(k)
  BY <1>1, <1>4, <1>5 DEF Ended
<1> QED
  BY <1>2, <1>6, <1>7, <1>8 DEF Ended

LEMMA CallEnded ==
    ASSUME Typed, Ended, NEW l \in Loops, Call(l)
    PROVE  Ended'
<1> DEFINE next == Head(todo[l])
<1>1. todo[l] \in Seq(CallsOf(l)) /\ todo[l] # <<>> /\ pc' = pc /\ options' = options
  BY DEF Typed, Threads, Call
<1>2. l \in Running
  BY <1>1 DEF Ended
<1>3. next.to \in Queues /\ Producer(next.to) = l
  BY <1>1, OutputOf DEF CallsOf
<1>4. \A k \in Loops \ {l} : todo'[k] = todo[k]
  BY DEF Typed, Threads, Call, Do
<1>5. finished' = finished \/ finished' = [finished EXCEPT ![next.to] = TRUE]
  BY DEF Call
<1> HIDE DEF next
<1>6. \A q \in Queues : (finished[q] => finished'[q])
                        /\ (finished'[q] => finished[q] \/ q = next.to)
  BY <1>3, <1>5 DEF Typed
<1>7. Running' = Running
  BY <1>1 DEF Running
<1>8. \A k : ParentsFinished(k) => ParentsFinished(k)'
  BY <1>6 DEF ParentsFinished
<1>9. \A k \in Loops \ Running : pc'[k] = "done" /\ todo'[k] = <<>>
  BY <1>1, <1>2, <1>4 DEF Ended
<1>10. \A q \in Queues : finished'[q] => Producer(q) \in Running
  BY <1>2, <1>3, <1>6 DEF Ended
<1>11. \A k \in Running : pc'[k] = "done" => ParentsFinished(k)'
  BY <1>1, <1>8 DEF Ended
<1> QED
  BY <1>7, <1>9, <1>10, <1>11 DEF Ended

LEMMA NextEnded == Typed /\ Ended /\ [Next]_vars => Ended'
<1> SUFFICES ASSUME Typed, Ended, [Next]_vars PROVE Ended'
  OBVIOUS
<1>1. CASE Next
  BY <1>1, StepIsCallOrTurn, TurnEnded, CallEnded DEF Next
<1>2. CASE UNCHANGED vars
  BY <1>2 DEF vars, flow, Ended, Running, ParentsFinished
<1> QED
  BY <1>1, <1>2

\* A loop ends after the one it pops from has made its last Push: no Push waits
\* for a consumer that has ended.
THEOREM LoopsEndInOrder == Spec => []NoPushToTheDead
<1>1. Typed /\ Ordered /\ Ended => NoPushToTheDead
  <2> SUFFICES ASSUME Typed, Ordered, Ended, NEW q \in Queues,
                      Consumer[q] \in Running, pc[Consumer[q]] = "done"
               PROVE  pc[Producer(q)] = "done" /\ NoPush(todo[Producer(q)])
    <3>1. ASSUME NEW r \in Queues, NoPush(todo[Producer(r)]), Typed,
                 NEW i \in DOMAIN todo[Producer(r)]
          PROVE  todo[Producer(r)][i].call # "Push"
      <4>1. i \in 1 .. Len(todo[Producer(r)])
        BY <3>1, ProducerIsLoop DEF Typed, Threads
      <4> QED
        BY <3>1, <4>1 DEF NoPush
    <3> QED
      BY <3>1 DEF NoPushToTheDead
  <2>1. CASE q # "out_of_order"
    BY <2>1 DEF Ended, ParentsFinished, Ordered
  <2>2. CASE q = "out_of_order"
    <3>1. /\ Consumer[q] = "analysis_write" /\ Consumer["det_write"] = "analysis_write"
          /\ Consumer["events"] = "det_build" /\ {"det_write", "events"} \subseteq Queues
          /\ Producer("det_write") = "det_build" /\ Producer("events") = "event_build"
          /\ Producer(q) = "event_build"
      BY <2>2, QueuesAre DEF Consumer, Producer
    <3>2. finished["det_write"]
      BY <3>1 DEF Ended, ParentsFinished
    <3>3. pc["det_build"] = "done" /\ "det_build" \in Running
      BY <3>1, <3>2 DEF Ended, Ordered
    <3>4. finished["events"]
      BY <3>1, <3>3 DEF Ended, ParentsFinished
    <3> QED
      BY <3>1, <3>4 DEF Ordered
  <2> QED
    BY <2>1, <2>2
<1> QED
  BY <1>1, InitTyped, NextTyped, InitOrdered, NextOrdered, InitEnded, NextEnded, PTL
  DEF Spec

-----------------------------------------------------------------------------
(* What goes through a queue                                               *)

\* A list of calls pushes at most one item to a queue.
OncePerQueue(calls) ==
    \A i, j \in 1 .. Len(calls) :
        calls[i].call = "Push" /\ calls[j].call = "Push" /\ calls[i].to = calls[j].to
            => i = j

LEMMA NothingPending == \A q : PendingIn(<<>>, q) = <<>>
  BY DEF PendingIn

LEMMA PendingIsItem ==
    ASSUME NEW S, NEW calls \in Seq(S), OncePerQueue(calls),
           NEW i \in 1 .. Len(calls), calls[i].call = "Push"
    PROVE  PendingIn(calls, calls[i].to) = <<calls[i].item>>
<1> DEFINE pushes == {j \in DOMAIN calls :
                         calls[j].call = "Push" /\ calls[j].to = calls[i].to}
<1>1. i \in pushes
  OBVIOUS
<1>2. (CHOOSE j \in pushes : TRUE) \in pushes
  BY <1>1
<1>3. (CHOOSE j \in pushes : TRUE) = i
  BY <1>2 DEF OncePerQueue
<1> QED
  BY <1>1, <1>3 DEF PendingIn

LEMMA NotPending ==
    ASSUME NEW S, NEW calls \in Seq(S), NEW q,
           \A i \in 1 .. Len(calls) : calls[i].call # "Push" \/ calls[i].to # q
    PROVE  PendingIn(calls, q) = <<>>
<1>1. DOMAIN calls = 1 .. Len(calls)
  OBVIOUS
<1> QED
  BY <1>1 DEF PendingIn

\* The first call of a list is made.
LEMMA PendingAfterCall ==
    ASSUME NEW S, NEW calls \in Seq(S), calls # <<>>, OncePerQueue(calls), NEW q
    PROVE  /\ OncePerQueue(Tail(calls))
           /\ Head(calls).call = "Push" /\ Head(calls).to = q =>
                  /\ PendingIn(calls, q) = <<Head(calls).item>>
                  /\ PendingIn(Tail(calls), q) = <<>>
           /\ ~ (Head(calls).call = "Push" /\ Head(calls).to = q) =>
                  PendingIn(Tail(calls), q) = PendingIn(calls, q)
<1> DEFINE rest == Tail(calls)
<1>1. /\ rest \in Seq(S) /\ Len(calls) \in Nat /\ Len(rest) = Len(calls) - 1
      /\ \A i \in 1 .. Len(rest) : rest[i] = calls[i + 1] /\ i + 1 \in 1 .. Len(calls)
      /\ Head(calls) = calls[1] /\ 1 \in 1 .. Len(calls)
  OBVIOUS
<1> HIDE DEF rest
<1>2. OncePerQueue(rest)
  <2> SUFFICES ASSUME NEW i \in 1 .. Len(rest), NEW j \in 1 .. Len(rest),
                      rest[i].call = "Push", rest[j].call = "Push", rest[i].to = rest[j].to
               PROVE  i = j
    BY DEF OncePerQueue
  <2>1. i + 1 = j + 1
    BY <1>1 DEF OncePerQueue
  <2> QED
    BY <2>1, <1>1
<1>3. ASSUME calls[1].call = "Push", calls[1].to = q
      PROVE  PendingIn(calls, q) = <<calls[1].item>> /\ PendingIn(rest, q) = <<>>
  <2>1. PendingIn(calls, q) = <<calls[1].item>>
    BY <1>1, <1>3, PendingIsItem
  <2>2. ASSUME NEW i \in 1 .. Len(rest), rest[i].call = "Push", rest[i].to = q
        PROVE  FALSE
    <3>1. calls[i + 1].call = "Push" /\ calls[i + 1].to = q /\ i + 1 # 1
      BY <1>1, <2>2
    <3> QED
      BY <1>1, <1>3, <3>1 DEF OncePerQueue
  <2>3. PendingIn(rest, q) = <<>>
    BY <1>1, <2>2, NotPending
  <2> QED
    BY <2>1, <2>3
<1>4. ASSUME ~ (calls[1].call = "Push" /\ calls[1].to = q)
      PROVE  PendingIn(rest, q) = PendingIn(calls, q)
  <2>1. CASE \E i \in 1 .. Len(rest) : rest[i].call = "Push" /\ rest[i].to = q
    <3>1. PICK i \in 1 .. Len(rest) : rest[i].call = "Push" /\ rest[i].to = q
      BY <2>1
    <3>2. PendingIn(rest, q) = <<rest[i].item>>
      BY <1>1, <1>2, <3>1, PendingIsItem
    <3>3. PendingIn(calls, q) = <<calls[i + 1].item>>
      BY <1>1, <3>1, PendingIsItem
    <3> QED
      BY <1>1, <3>2, <3>3
  <2>2. CASE ~ \E i \in 1 .. Len(rest) : rest[i].call = "Push" /\ rest[i].to = q
    <3>1. PendingIn(rest, q) = <<>>
      BY <1>1, <2>2, NotPending
    <3>2. \A i \in 1 .. Len(calls) : calls[i].call # "Push" \/ calls[i].to # q
      <4> SUFFICES ASSUME NEW i \in 1 .. Len(calls), i # 1
                   PROVE  calls[i].call # "Push" \/ calls[i].to # q
        BY <1>4
      <4>1. i - 1 \in 1 .. Len(rest) /\ (i - 1) + 1 = i
        BY <1>1
      <4> QED
        BY <1>1, <2>2, <4>1
    <3>3. PendingIn(calls, q) = <<>>
      BY <3>2, NotPending
    <3> QED
      BY <3>1, <3>3
  <2> QED
    BY <2>1, <2>2
<1> QED
  BY <1>1, <1>2, <1>3, <1>4 DEF rest

\* A list that pushes nothing, and one that pushes an item to some queues.
LEMMA NoPushPending ==
    ASSUME NEW S, NEW calls \in Seq(S), NoPush(calls)
    PROVE  OncePerQueue(calls) /\ \A q : PendingIn(calls, q) = <<>>
<1>1. OncePerQueue(calls)
  BY DEF NoPush, OncePerQueue
<1>2. \A q : PendingIn(calls, q) = <<>>
  BY NotPending DEF NoPush
<1> QED
  BY <1>1, <1>2

Distinct(queues) ==
    \A i, j \in 1 .. Len(queues) : queues[i] = queues[j] => i = j

LEMMA PushAllPending ==
    ASSUME NEW Q, NEW queues \in Seq(Q), Distinct(queues), NEW item, NEW q
    PROVE  /\ OncePerQueue(PushAll(queues, item))
           /\ q \in ToSet(queues) => PendingIn(PushAll(queues, item), q) = <<item>>
           /\ q \notin ToSet(queues) => PendingIn(PushAll(queues, item), q) = <<>>
<1> DEFINE calls == PushAll(queues, item)
           S == [call : {"Push"}, to : Q, item : {item}]
<1>dom. DOMAIN queues = 1 .. Len(queues) /\ Len(queues) \in Nat
  OBVIOUS
<1>list. calls = [i \in 1 .. Len(queues) |-> Push(queues[i], item)]
  BY <1>dom DEF PushAll
<1>push. \A i \in 1 .. Len(queues) : Push(queues[i], item) \in S
  BY DEF Push
<1>1. /\ calls \in Seq(S) /\ Len(calls) = Len(queues)
      /\ \A i \in 1 .. Len(queues) : calls[i] = Push(queues[i], item)
  <2> HIDE DEF S
  <2> QED
    BY <1>dom, <1>list, <1>push
<1>2. /\ DOMAIN queues = 1 .. Len(queues)
      /\ \A i \in 1 .. Len(queues) :
            calls[i].call = "Push" /\ calls[i].to = queues[i] /\ calls[i].item = item
  <2> HIDE DEF calls, S
  <2> QED
    BY <1>dom, <1>list DEF Push
<1> HIDE DEF calls
<1>3. OncePerQueue(calls)
  BY <1>1, <1>2 DEF OncePerQueue, Distinct
<1>4. CASE q \in ToSet(queues)
  <2>1. PICK i \in 1 .. Len(queues) : q = queues[i]
    BY <1>2, <1>4 DEF ToSet
  <2>2. PendingIn(calls, calls[i].to) = <<calls[i].item>>
    BY <1>1, <1>2, <1>3, PendingIsItem
  <2> QED
    BY <1>2, <1>3, <1>4, <2>1, <2>2 DEF calls
<1>5. CASE q \notin ToSet(queues)
  <2>1. PendingIn(calls, q) = <<>>
    BY <1>1, <1>2, <1>5, NotPending DEF ToSet
  <2> QED
    BY <1>3, <1>5, <2>1 DEF calls
<1> QED
  BY <1>4, <1>5

LEMMA InUseIsOne == \A q : InUse(q) = <<>> \/ InUse(q) = <<q>>
  BY DEF InUse

LEMMA GoodQueuesDistinct == Distinct(GoodQueues)
<1> DEFINE a == InUse("good_hist")
           b == InUse("good_write")
           c == InUse("good_build")
<1>1. /\ a = <<>> \/ a = <<"good_hist">>
      /\ b = <<>> \/ b = <<"good_write">>
      /\ c = <<>> \/ c = <<"good_build">>
  BY InUseIsOne
<1> HIDE DEF a, b, c
<1>2. Distinct(a \o b \o c)
  BY <1>1 DEF Distinct
<1> QED
  BY <1>2 DEF GoodQueues, a, b, c

LEMMA DetQueuesDistinct == Distinct(DetQueues)
<1> DEFINE a == InUse("det_hist")
           b == InUse("det_write")
<1>1. /\ a = <<>> \/ a = <<"det_hist">>
      /\ b = <<>> \/ b = <<"det_write">>
  BY InUseIsOne
<1> HIDE DEF a, b
<1>2. Distinct(a \o b)
  BY <1>1 DEF Distinct
<1> QED
  BY <1>2 DEF DetQueues, a, b

\* Everything that has entered a queue, in order.
Entered(q) == taken[q] \o queue[q]

LEMMA EnteredTyped ==
    ASSUME Typed, NEW q \in Queues
    PROVE  /\ Entered(q) \in Seq(ItemsOf(q))
           /\ Len(Entered(q)) = Len(taken[q]) + Len(queue[q])
  BY DEF Typed, Flows, Entered

\* A Pop moves the head of the queue to what has been taken.
LEMMA TakeEntered ==
    ASSUME Typed, NEW q \in Queues, Take(q)
    PROVE  /\ \A r \in Queues : Entered(r)' = Entered(r)
           /\ \A r \in Queues \ {q} : taken'[r] = taken[r]
           /\ taken'[q] = Append(taken[q], Head(queue[q]))
           /\ Head(queue[q]) = Entered(q)[Len(taken[q]) + 1]
<1>1. /\ queue[q] \in Seq(ItemsOf(q)) /\ queue[q] # <<>> /\ taken[q] \in Seq(ItemsOf(q))
      /\ queue'[q] = Tail(queue[q]) /\ taken'[q] = Append(taken[q], Head(queue[q]))
      /\ \A r \in Queues \ {q} : queue'[r] = queue[r] /\ taken'[r] = taken[r]
  BY DEF Typed, Flows, Take
<1>2. ASSUME NEW s \in Seq(ItemsOf(q)), NEW t \in Seq(ItemsOf(q)), t # <<>>
      PROVE  /\ Append(s, Head(t)) \o Tail(t) = s \o t
             /\ Head(t) = (s \o t)[Len(s) + 1]
  BY <1>2
<1>3. Entered(q)' = Entered(q) /\ Head(queue[q]) = Entered(q)[Len(taken[q]) + 1]
  BY <1>1, <1>2 DEF Entered
<1>4. \A r \in Queues \ {q} : Entered(r)' = Entered(r)
  BY <1>1 DEF Entered
<1> QED
  BY <1>1, <1>3, <1>4

LEMMA TurnEntered ==
    ASSUME Typed, NEW l \in Loops, Turn(l), NEW q \in Queues
    PROVE  Entered(q)' = Entered(q) /\ (Consumer[q] # l => taken'[q] = taken[q])
<1>1. CASE UNCHANGED flow
  BY <1>1 DEF flow, Entered
<1>2. ASSUME NEW r \in Queues, Consumer[r] = l, Take(r)
      PROVE  Entered(q)' = Entered(q) /\ (Consumer[q] # l => taken'[q] = taken[q])
  BY <1>2, TakeEntered
<1> QED
  BY <1>1, <1>2 DEF Turn, Flowing

\* Everything that its producer has pushed to a queue or is about to push.
Put(q) == Through(Producer(q), q)

LEMMA PutIs == \A q : Put(q) = Entered(q) \o PendingIn(todo[Producer(q)], q)
  BY DEF Put, Through, Entered

LEMMA PendingTyped ==
    ASSUME Typed, NEW q \in Queues
    PROVE  PendingIn(todo[Producer(q)], q) \in Seq(ItemsOf(q))
<1> DEFINE calls == todo[Producer(q)]
           pushes == {i \in DOMAIN calls : calls[i].call = "Push" /\ calls[i].to = q}
<1>1. calls \in Seq(CallsOf(Producer(q))) /\ Producer(q) \in Loops
  BY ProducerIsLoop DEF Typed, Threads
<1>2. ASSUME NEW i \in pushes
      PROVE  calls[i].item \in ItemsOf(q)
  <2>1. calls[i] \in CallsOf(Producer(q))
    BY <1>1, <1>2
  <2> QED
    BY <1>2, <2>1 DEF CallsOf, ItemsOf
<1>3. PendingIn(calls, q)
        = IF pushes = {} THEN <<>> ELSE <<calls[CHOOSE i \in pushes : TRUE].item>>
  BY DEF PendingIn
<1> HIDE DEF pushes, calls
<1> QED
  BY <1>2, <1>3 DEF calls

LEMMA AppendToBoth ==
    ASSUME NEW S, NEW s \in Seq(S), NEW t \in Seq(S), NEW x \in S
    PROVE  (s \o Append(t, x)) \o <<>> = (s \o t) \o <<x>>
<1>1. s \o Append(t, x) \in Seq(S) /\ s \o t \in Seq(S)
  OBVIOUS
<1>2. (s \o Append(t, x)) \o <<>> = s \o Append(t, x)
  BY <1>1
<1>3. (s \o t) \o <<x>> = Append(s \o t, x)
  BY <1>1
<1>4. s \o Append(t, x) = Append(s \o t, x)
  OBVIOUS
<1> QED
  BY <1>2, <1>3, <1>4

\* A call moves what is pending into the queue.
LEMMA CallPuts ==
    ASSUME Typed, NEW l \in Loops, OncePerQueue(todo[l]), Call(l), NEW q \in Queues
    PROVE  /\ Put(q)' = Put(q) /\ taken' = taken
           /\ OncePerQueue(todo'[l])
<1> DEFINE next == Head(todo[l])
           pushed == next.call = "Push" /\ next.to = q
<1>1. todo[l] \in Seq(CallsOf(l)) /\ todo[l] # <<>> /\ taken' = taken
  BY DEF Typed, Threads, Call
<1>2. /\ todo'[l] = Tail(todo[l])
      /\ \A k \in Loops \ {l} : todo'[k] = todo[k]
  BY DEF Typed, Threads, Call, Do
<1>3. next.to \in Queues /\ Producer(next.to) = l
  BY <1>1, OutputOf DEF CallsOf
<1>4. /\ OncePerQueue(todo'[l])
      /\ pushed => /\ PendingIn(todo[l], q) = <<next.item>>
                   /\ PendingIn(todo'[l], q) = <<>>
      /\ ~pushed => PendingIn(todo'[l], q) = PendingIn(todo[l], q)
  BY <1>1, <1>2, PendingAfterCall
<1>5. /\ pushed => queue'[q] = Append(queue[q], next.item)
      /\ ~pushed => queue'[q] = queue[q]
  <2> HIDE DEF next
  <2> QED
    BY <1>3 DEF Call, Typed, Flows, next
<1>6. queue[q] \in Seq(ItemsOf(q)) /\ taken[q] \in Seq(ItemsOf(q))
  BY DEF Typed, Flows
<1>7. CASE pushed
  <2>1. next.item \in ItemsOf(q)
    BY <1>1, <1>7 DEF CallsOf, ItemsOf
  <2>2. Producer(q) = l
    BY <1>3, <1>7
  <2> HIDE DEF next
  <2>3. (taken[q] \o Append(queue[q], next.item)) \o <<>>
          = (taken[q] \o queue[q]) \o <<next.item>>
    <3>1. \A s, t \in Seq(ItemsOf(q)), x \in ItemsOf(q) :
              (s \o Append(t, x)) \o <<>> = (s \o t) \o <<x>>
      BY AppendToBoth
    <3> QED
      BY <1>6, <2>1, <3>1
  <2>4. Put(q)' = Put(q)
    BY <1>1, <1>4, <1>5, <1>7, <2>2, <2>3 DEF Put, Through
  <2> QED
    BY <1>1, <1>4, <2>4
<1>8. CASE ~pushed
  <2>1. PendingIn(todo'[Producer(q)], q) = PendingIn(todo[Producer(q)], q)
    BY <1>2, <1>4, <1>8, ProducerIsLoop
  <2>2. Put(q)' = Put(q)
    BY <1>1, <1>5, <1>8, <2>1 DEF Put, Through
  <2> QED
    BY <1>1, <1>4, <2>2
<1> QED
  BY <1>7, <1>8

\* A turn of another loop than the producer puts nothing, and the producer has
\* nothing pending before it and what its new calls push after it.
LEMMA TurnPuts ==
    ASSUME Typed, NEW l \in Loops, Turn(l), NEW q \in Queues
    PROVE  /\ Producer(q) # l => Put(q)' = Put(q)
           /\ Producer(q) = l => /\ Put(q) = Entered(q)
                                 /\ Put(q)' = Entered(q) \o PendingIn(todo'[l], q)
<1>1. Entered(q)' = Entered(q) /\ Entered(q) \in Seq(ItemsOf(q)) /\ Producer(q) \in Loops
  BY TurnEntered, EnteredTyped, ProducerIsLoop
<1>2. todo[l] = <<>> /\ \A k \in Loops \ {l} : todo'[k] = todo[k]
  BY DEF Turn, Typed, Threads
<1>3. CASE Producer(q) # l
  BY <1>1, <1>2, <1>3 DEF Put, Through, Entered
<1>4. CASE Producer(q) = l
  <2>1. Put(q) = Entered(q) \o <<>>
    BY <1>2, <1>4, NothingPending DEF Put, Through, Entered
  <2>2. Put(q)' = Entered(q)' \o PendingIn(todo'[l], q)
    BY <1>4 DEF Put, Through, Entered
  <2>3. Entered(q) \o <<>> = Entered(q)
    BY <1>1
  <2> QED
    BY <1>1, <1>4, <2>1, <2>2, <2>3
<1> QED
  BY <1>3, <1>4

\* Only the unpacking loop unpacks, and only the builder builds.
LEMMA OthersKeep ==
    ASSUME NEW l, Step(l)
    PROVE  /\ l # "unpack" => unpacked' = unpacked
           /\ l # "event_build" => fNextEvent' = fNextEvent
<1>1. CASE Call(l)
  BY <1>1 DEF Call
<1>2. ASSUME NEW q, NEW calls, PopNothing(l, q, calls)
      PROVE  unpacked' = unpacked /\ fNextEvent' = fNextEvent
  BY <1>2 DEF PopNothing, FindEmpty, Continue, End
<1>3. CASE l = "input" /\ InputStep
  BY <1>3 DEF InputStep, ReadEvent, EndOfInput
<1>4. CASE l = "unpack" /\ UnpackStep
  BY <1>2, <1>4 DEF UnpackStep, Unpack
<1>5. CASE \/ l = "frag_hist" /\ HistStep(l, "good_hist")
           \/ l = "analysis_hist" /\ HistStep(l, "det_hist")
  BY <1>2, <1>5 DEF HistStep, Histogram
<1>6. CASE l = "frag_write" /\ FragWriteStep
  BY <1>6 DEF FragWriteStep, PopAnything, Continue, End
<1>7. CASE l = "event_build" /\ BuilderStep
  BY <1>2, <1>7 DEF BuilderStep, BuildEvent
<1>8. CASE l = "det_build" /\ DetectorStep
  BY <1>2, <1>8 DEF DetectorStep, BuildDetectors
<1>9. CASE l = "analysis_write" /\ AnalysisWriteStep
  BY <1>9 DEF AnalysisWriteStep, PopAnything, PopOutOfOrder, Continue, End
<1> QED
  BY <1>1, <1>3, <1>4, <1>5, <1>6, <1>7, <1>8, <1>9 DEF Step

\* A loop that pops nothing has no calls to make, or it ends with its last ones.
LEMMA PopNothingCalls ==
    ASSUME Typed, NEW l \in Loops, NEW q, NEW calls, PopNothing(l, q, calls)
    PROVE  /\ \/ todo'[l] = <<>> /\ pc'[l] # "done"
              \/ todo'[l] = calls /\ pc'[l] = "done"
           /\ UNCHANGED <<flow, unpacked, fNextEvent>>
<1>1. CASE FindEmpty(l, q) \/ Continue(l, {q})
  BY <1>1 DEF FindEmpty, Continue, At, Goto, Typed, Threads
<1>2. CASE End(l, {q}, calls)
  BY <1>2 DEF End, Do, Goto, Typed, Threads
<1> QED
  BY <1>1, <1>2 DEF PopNothing

-----------------------------------------------------------------------------
(* What the receivers of a loop get                                        *)

Once == \A l \in Loops : OncePerQueue(todo[l])

Received ==
    /\ \A q \in ToSet(GoodQueues) : Put(q) = unpacked["good"]
    /\ \A k \in Kinds \ {"good"} : Put(k) = unpacked[k]

DetReceived == \A q \in ToSet(DetQueues) : AreTheFull(Put(q), taken["events"])

LEMMA ReceiversAre ==
    /\ ToSet(GoodQueues) \subseteq {"good_hist", "good_write", "good_build"}
    /\ ToSet(DetQueues) \subseteq {"det_hist", "det_write"}
<1>1. ASSUME NEW S, NEW s \in Seq(S) PROVE ToSet(s) \subseteq S
  BY <1>1 DEF ToSet
<1> QED
  BY <1>1, GoodQueuesAre, DetQueuesAre

LEMMA SameReceivers ==
    ASSUME UNCHANGED options
    PROVE  GoodQueues' = GoodQueues /\ DetQueues' = DetQueues /\ Running' = Running
  BY DEF GoodQueues, DetQueues, InUse, Running

LEMMA NoCallsPending == OncePerQueue(<<>>) /\ \A q : PendingIn(<<>>, q) = <<>>
  BY NothingPending DEF OncePerQueue

\* What the unpacking loop puts where.
LEMMA UnpackPuts ==
    ASSUME Typed, UnpackStep
    PROVE  /\ OncePerQueue(todo'["unpack"])
           /\ \/ /\ Take("raw")
                 /\ \E kind \in Kinds :
                      LET f == Head(queue["raw"]) IN
                      /\ unpacked' = [unpacked EXCEPT ![kind] = Append(@, f)]
                      /\ \A q \in Queues : PendingIn(todo'["unpack"], q)
                           = IF q \in ToSet(Receivers(kind)) THEN <<f>> ELSE <<>>
              \/ /\ UNCHANGED <<flow, unpacked>>
                 /\ \A q \in Queues : PendingIn(todo'["unpack"], q) = <<>>
<1>1. "unpack" \in Loops
  BY DEF Loops
<1>2. CASE Unpack
  <2> DEFINE f == Head(queue["raw"])
  <2>1. PICK kind \in Kinds :
          /\ unpacked' = [unpacked EXCEPT ![kind] = Append(@, f)]
          /\ Do("unpack", PushAll(Receivers(kind), f))
    BY <1>2 DEF Unpack
  <2>2. todo'["unpack"] = PushAll(Receivers(kind), f)
    BY <1>1, <2>1 DEF Do, Typed, Threads
  <2> HIDE DEF f
  <2> DEFINE O == {"good_hist", "good_write", "good_build", "bad", "scaler"}
  <2>3. Receivers(kind) \in Seq(O) /\ Distinct(Receivers(kind))
    <3>1. CASE kind = "good"
      BY <3>1, GoodQueuesAre, GoodQueuesDistinct DEF Receivers
    <3>2. CASE kind # "good"
      <4>1. Receivers(kind) = <<kind>> /\ kind \in O
        BY <2>1, <3>2 DEF Receivers, Kinds
      <4>2. <<kind>> \in Seq(O) /\ Distinct(<<kind>>)
        BY <4>1 DEF Distinct
      <4> QED
        BY <4>1, <4>2
    <3> QED
      BY <3>1, <3>2
  <2> HIDE DEF O
  <2>4. /\ OncePerQueue(todo'["unpack"])
        /\ \A q \in Queues : PendingIn(todo'["unpack"], q)
             = IF q \in ToSet(Receivers(kind)) THEN <<f>> ELSE <<>>
    BY <2>2, <2>3, PushAllPending
  <2> QED
    BY <1>2, <2>1, <2>4 DEF Unpack, f
<1>3. CASE PopNothing("unpack", "raw", UnpackLastCalls)
  <2> DEFINE Q == {"good_hist", "good_write", "good_build", "bad", "scaler"}
             all == GoodQueues \o <<"bad", "scaler", "bad", "scaler">>
  <2>1. all \in Seq(Q) /\ Q \in SUBSET Outputs("unpack")
    <3>1. GoodQueues \in Seq(Q)
      BY GoodQueuesAre
    <3>2. <<"bad", "scaler", "bad", "scaler">> \in Seq(Q)
      OBVIOUS
    <3> QED
      BY <3>1, <3>2, Joined, ProducersAre
  <2>2. UnpackLastCalls \in Seq(CallsOf("unpack")) /\ NoPush(UnpackLastCalls)
    BY <2>1, FinishesAreCalls DEF UnpackLastCalls
  <2>3. /\ todo'["unpack"] = <<>> \/ todo'["unpack"] = UnpackLastCalls
        /\ UNCHANGED <<flow, unpacked>>
    BY <1>1, <1>3, PopNothingCalls
  <2> QED
    BY <2>2, <2>3, NoPushPending, NoCallsPending
<1> QED
  BY <1>2, <1>3 DEF UnpackStep

LEMMA AppendOne == ASSUME NEW S, NEW s \in Seq(S), NEW x PROVE s \o <<x>> = Append(s, x)
  OBVIOUS

LEMMA UnpackReceived ==
    ASSUME Typed, Received, UnpackStep
    PROVE  Received'
<1>1. Turn("unpack") /\ "unpack" \in Loops
  BY UnpackTurn DEF Loops
<1>2. GoodQueues' = GoodQueues
  BY <1>1, SameReceivers DEF Turn
<1> DEFINE O == ToSet(GoodQueues) \cup {"bad", "scaler"}
           Kind(q) == IF q \in ToSet(GoodQueues) THEN "good" ELSE q
<1>3. \A q \in O : q \in Queues /\ Producer(q) = "unpack"
  <2>1. O \subseteq Outputs("unpack")
    BY ReceiversAre, ProducersAre
  <2> QED
    BY <2>1, OutputOf
<1>4. \A q \in O : /\ Kind(q) \in Kinds /\ Put(q) = unpacked[Kind(q)]
                   /\ Put(q) \in Seq(Numbers)
                   /\ Put(q)' = Put(q) \o PendingIn(todo'["unpack"], q)
  BY <1>1, <1>3, TurnPuts DEF Received, Kinds, Typed, Locals
<1>5. ASSUME NEW kind \in Kinds, NEW q \in O
      PROVE  q \in ToSet(Receivers(kind)) <=> Kind(q) = kind
  <2>1. CASE kind = "good"
    BY <2>1, ReceiversAre DEF Receivers
  <2>2. CASE kind # "good"
    <3>1. ToSet(Receivers(kind)) = {kind} /\ kind \notin ToSet(GoodQueues)
      BY <2>2, ReceiversAre DEF Receivers, ToSet, Kinds
    <3> QED
      BY <2>2, <3>1
  <2> QED
    BY <2>1, <2>2
<1>6. \A q \in O : Put(q)' = unpacked'[Kind(q)]
  <2> SUFFICES ASSUME NEW q \in O PROVE Put(q)' = unpacked'[Kind(q)]
    OBVIOUS
  <2> HIDE DEF O, Kind
  <2>1. CASE \E kind \in Kinds :
               LET f == Head(queue["raw"]) IN
               /\ unpacked' = [unpacked EXCEPT ![kind] = Append(@, f)]
               /\ \A r \in Queues : PendingIn(todo'["unpack"], r)
                    = IF r \in ToSet(Receivers(kind)) THEN <<f>> ELSE <<>>
    <3> DEFINE f == Head(queue["raw"])
    <3>1. PICK kind \in Kinds :
            /\ unpacked' = [unpacked EXCEPT ![kind] = Append(@, f)]
            /\ PendingIn(todo'["unpack"], q)
                 = IF q \in ToSet(Receivers(kind)) THEN <<f>> ELSE <<>>
      BY <1>3, <2>1
    <3> HIDE DEF f
    <3>2. CASE Kind(q) = kind
      <4>1. Put(q)' = Append(unpacked[Kind(q)], f)
        BY <1>4, <1>5, <3>1, <3>2, AppendOne
      <4> QED
        BY <3>1, <3>2, <4>1 DEF Typed, Locals
    <3>3. CASE Kind(q) # kind
      <4>1. Put(q)' = unpacked[Kind(q)]
        BY <1>4, <1>5, <3>1, <3>3
      <4> QED
        BY <1>4, <3>1, <3>3, <4>1 DEF Typed, Locals
    <3> QED
      BY <3>2, <3>3
  <2>2. CASE /\ UNCHANGED <<flow, unpacked>>
             /\ \A r \in Queues : PendingIn(todo'["unpack"], r) = <<>>
    BY <1>3, <1>4, <2>2
  <2> QED
    BY <2>1, <2>2, UnpackPuts
<1> QED
  BY <1>2, <1>6, ReceiversAre DEF Received, Kinds

\* The events with fragments among some are finitely many, and fewer among fewer.
LEMMA FullCounted ==
    ASSUME NEW events, NEW n \in Nat, NEW m \in 0 .. n
    PROVE  /\ IsFiniteSet(FullAmong(events, m))
           /\ Cardinality(FullAmong(events, m)) \in Nat
           /\ Cardinality(FullAmong(events, m)) <= Cardinality(FullAmong(events, n))
<1>1. /\ FullAmong(events, m) \in SUBSET FullAmong(events, n)
      /\ FullAmong(events, n) \in SUBSET (1 .. n)
  BY DEF FullAmong
<1>2. IsFiniteSet(1 .. n)
  BY FS_Interval
<1>3. IsFiniteSet(FullAmong(events, n))
  BY <1>1, <1>2, FS_Subset
<1> QED
  BY <1>1, <1>3, FS_Subset, FS_CardinalityType

LEMMA FullOfAppend ==
    ASSUME NEW S, NEW all \in Seq(S), NEW e
    PROVE  /\ \A n \in 0 .. Len(all) : FullAmong(Append(all, e), n) = FullAmong(all, n)
           /\ FullAmong(Append(all, e), Len(all) + 1)
                = FullAmong(all, Len(all)) \cup (IF e = <<>> THEN {} ELSE {Len(all) + 1})
<1>1. /\ Len(all) \in Nat
      /\ \A i \in 1 .. Len(all) : Append(all, e)[i] = all[i]
      /\ Append(all, e)[Len(all) + 1] = e
  OBVIOUS
<1>2. 1 .. Len(all) + 1 = (1 .. Len(all)) \cup {Len(all) + 1}
  BY <1>1
<1> QED
  BY <1>1, <1>2 DEF FullAmong

LEMMA EmptyIsNotAmong ==
    ASSUME NEW S, NEW all \in Seq(S), NEW some, AreTheFull(some, all)
    PROVE  AreTheFull(some, Append(all, <<>>))
<1>1. Len(Append(all, <<>>)) = Len(all) + 1 /\ Len(all) \in Nat
  OBVIOUS
<1>2. \A n \in 0 .. Len(all) :
        FullAmong(Append(all, <<>>), n) = FullAmong(all, n)
  BY FullOfAppend
<1>3. FullAmong(Append(all, <<>>), Len(all) + 1) = FullAmong(all, Len(all))
  BY FullOfAppend
<1>4. \A i \in FullAmong(all, Len(all)) : i \in 0 .. Len(all) /\ i \in 1 .. Len(all)
  BY <1>1 DEF FullAmong
<1>5. \A i \in 1 .. Len(all) : Append(all, <<>>)[i] = all[i]
  OBVIOUS
<1> QED
  BY <1>1, <1>2, <1>3, <1>4, <1>5 DEF AreTheFull

LEMMA FullIsAmong ==
    ASSUME NEW S, NEW all \in Seq(S), NEW some \in Seq(S), AreTheFull(some, all),
           NEW e, e # <<>>
    PROVE  AreTheFull(Append(some, e), Append(all, e))
<1> DEFINE n == Len(all)
           full == FullAmong(all, n)
<1>1. Len(Append(all, e)) = n + 1 /\ n \in Nat
  OBVIOUS
<1>2. \A m \in 0 .. n : FullAmong(Append(all, e), m) = FullAmong(all, m)
  BY FullOfAppend
<1>3. FullAmong(Append(all, e), n + 1) = full \cup {n + 1}
  BY FullOfAppend
<1>4. \A i \in full : i \in 0 .. n /\ i \in 1 .. n
  BY <1>1 DEF FullAmong
<1>5. IsFiniteSet(full) /\ Cardinality(full) \in Nat
  BY <1>1, FullCounted
<1>6. Cardinality(full \cup {n + 1}) = Cardinality(full) + 1
  <2>1. n + 1 \notin full
    BY <1>1, <1>4
  <2> QED
    BY <1>5, <2>1, FS_AddElement
<1>7. Len(some) = Cardinality(full) /\ \A i \in full : some[Cardinality(FullAmong(all, i))] = all[i]
  BY DEF AreTheFull
<1>8. \A i \in 1 .. n : Append(all, e)[i] = all[i]
  OBVIOUS
<1>9. Append(all, e)[n + 1] = e
  OBVIOUS
<1>10. /\ Len(Append(some, e)) = Len(some) + 1 /\ Len(some) \in Nat
       /\ Append(some, e)[Len(some) + 1] = e
       /\ \A k \in 1 .. Len(some) : Append(some, e)[k] = some[k]
  OBVIOUS
<1>11. ASSUME NEW i \in full
       PROVE  Append(some, e)[Cardinality(FullAmong(Append(all, e), i))] = Append(all, e)[i]
  <2>1. i \in FullAmong(all, i) /\ i \in 1 .. n
    BY <1>4, <1>11 DEF FullAmong
  <2>2. /\ IsFiniteSet(FullAmong(all, i)) /\ Cardinality(FullAmong(all, i)) \in Nat
        /\ Cardinality(FullAmong(all, i)) <= Cardinality(full)
    BY <1>1, <2>1, FullCounted
  <2>3. Cardinality(FullAmong(all, i)) # 0
    BY <2>1, <2>2, FS_EmptySet
  <2>4. Cardinality(FullAmong(all, i)) \in 1 .. Len(some)
    BY <1>5, <1>7, <2>2, <2>3
  <2>5. FullAmong(Append(all, e), i) = FullAmong(all, i)
    BY <1>2, <1>4, <1>11
  <2> HIDE DEF n, full
  <2> QED
    BY <1>7, <1>8, <1>10, <1>11, <2>1, <2>4, <2>5
<1> HIDE DEF n, full
<1> QED
  BY <1>1, <1>3, <1>5, <1>6, <1>7, <1>9, <1>10, <1>11 DEF AreTheFull

\* What the detector builder puts where.
LEMMA DetectorPuts ==
    ASSUME Typed, DetectorStep
    PROVE  /\ OncePerQueue(todo'["det_build"])
           /\ \/ /\ Take("events")
                 /\ LET event == Head(queue["events"]) IN
                    \A q \in ToSet(DetQueues) : PendingIn(todo'["det_build"], q)
                      = IF event = <<>> THEN <<>> ELSE <<event>>
              \/ /\ UNCHANGED flow
                 /\ \A q \in ToSet(DetQueues) : PendingIn(todo'["det_build"], q) = <<>>
<1>1. "det_build" \in Loops
  BY DEF Loops
<1>2. CASE BuildDetectors
  <2> DEFINE event == Head(queue["events"])
  <2>1. /\ event = <<>> => UNCHANGED todo
        /\ event # <<>> => Do("det_build", PushAll(DetQueues, event))
        /\ todo["det_build"] = <<>>
        /\ Take("events")
    BY <1>2, Zenon DEF BuildDetectors, At
  <2> HIDE DEF event
  <2>2. CASE event = <<>>
    BY <2>1, <2>2, NoCallsPending DEF event
  <2>3. CASE event # <<>>
    <3>1. todo'["det_build"] = PushAll(DetQueues, event)
      BY <1>1, <2>1, <2>3 DEF Do, Typed, Threads
    <3>2. /\ OncePerQueue(todo'["det_build"])
          /\ \A q \in ToSet(DetQueues) : PendingIn(todo'["det_build"], q) = <<event>>
      BY <3>1, DetQueuesAre, DetQueuesDistinct, PushAllPending
    <3> QED
      BY <2>1, <2>3, <3>2 DEF event
  <2> QED
    BY <2>2, <2>3
<1>3. CASE PopNothing("det_build", "events", FinishAll(DetQueues))
  <2> DEFINE D == {"det_hist", "det_write"}
  <2>1. DetQueues \in Seq(D) /\ D \in SUBSET Outputs("det_build")
    BY DetQueuesAre, ProducersAre
  <2>2. /\ FinishAll(DetQueues) \in Seq(CallsOf("det_build"))
        /\ NoPush(FinishAll(DetQueues))
    BY <2>1, FinishesAreCalls
  <2>3. /\ todo'["det_build"] = <<>> \/ todo'["det_build"] = FinishAll(DetQueues)
        /\ UNCHANGED flow
    BY <1>1, <1>3, PopNothingCalls
  <2> QED
    BY <2>2, <2>3, NoPushPending, NoCallsPending
<1> QED
  BY <1>2, <1>3 DEF DetectorStep

LEMMA DetectorReceived ==
    ASSUME Typed, DetReceived, DetectorStep
    PROVE  DetReceived'
<1>1. Turn("det_build") /\ "det_build" \in Loops
  BY DetectorTurn DEF Loops
<1>2. DetQueues' = DetQueues
  BY <1>1, SameReceivers DEF Turn
<1> SUFFICES ASSUME NEW q \in ToSet(DetQueues)
             PROVE  AreTheFull(Put(q)', taken'["events"])
  BY <1>2 DEF DetReceived
<1>3. /\ q \in Queues /\ Producer(q) = "det_build" /\ ItemsOf(q) = Seq(Numbers)
      /\ "events" \in Queues /\ ItemsOf("events") = Seq(Numbers)
  <2>1. q \in {"det_hist", "det_write"}
    BY ReceiversAre
  <2> QED
    BY <2>1, ProducersAre, OutputOf, QueuesAre DEF ItemsOf, EventQueues
<1>4. /\ AreTheFull(Put(q), taken["events"])
      /\ Put(q) \in Seq(Seq(Numbers)) /\ taken["events"] \in Seq(Seq(Numbers))
      /\ Put(q)' = Put(q) \o PendingIn(todo'["det_build"], q)
  BY <1>1, <1>3, TurnPuts, EnteredTyped DEF DetReceived, Typed, Flows
<1>5. CASE /\ Take("events")
           /\ LET event == Head(queue["events"]) IN
              PendingIn(todo'["det_build"], q)
                = IF event = <<>> THEN <<>> ELSE <<event>>
  <2> DEFINE event == Head(queue["events"])
  <2>1. /\ taken'["events"] = Append(taken["events"], event)
        /\ PendingIn(todo'["det_build"], q) = IF event = <<>> THEN <<>> ELSE <<event>>
    BY <1>3, <1>5, TakeEntered
  <2> HIDE DEF event
  <2>2. CASE event = <<>>
    <3>1. Put(q)' = Put(q)
      BY <1>4, <2>1, <2>2
    <3> QED
      BY <1>4, <2>1, <2>2, <3>1, EmptyIsNotAmong
  <2>3. CASE event # <<>>
    <3>1. Put(q)' = Append(Put(q), event)
      BY <1>4, <2>1, <2>3, AppendOne
    <3> QED
      BY <1>4, <2>1, <2>3, <3>1, FullIsAmong
  <2> QED
    BY <2>2, <2>3
<1>6. CASE UNCHANGED flow /\ PendingIn(todo'["det_build"], q) = <<>>
  <2>1. Put(q)' = Put(q) /\ taken' = taken
    BY <1>4, <1>6 DEF flow
  <2> QED
    BY <1>4, <2>1
<1> QED
  BY <1>5, <1>6, DetectorPuts

-----------------------------------------------------------------------------
(* Every fragment is unpacked once                                         *)

\* The input numbers the raw events, and no good fragment comes twice.
Numbered == \A i \in 1 .. Len(Put("raw")) : Put("raw")[i] = i

UnpackedOnce ==
    /\ \A i, j \in 1 .. Len(unpacked["good"]) :
           unpacked["good"][i] = unpacked["good"][j] => i = j
    /\ \A i \in 1 .. Len(unpacked["good"]) : unpacked["good"][i] <= Len(taken["raw"])

LEMMA OneCallPending ==
    ASSUME NEW q, NEW item
    PROVE  /\ OncePerQueue(<<Push(q, item)>>)
           /\ PendingIn(<<Push(q, item)>>, q) = <<item>>
<1> DEFINE c == Push(q, item)
           calls == <<c>>
<1>1. c.call = "Push" /\ c.to = q /\ c.item = item
  BY DEF Push
<1> HIDE DEF c
<1>2. calls \in Seq({c}) /\ Len(calls) = 1 /\ calls[1] = c
  OBVIOUS
<1> HIDE DEF calls
<1>3. OncePerQueue(calls)
  BY <1>2 DEF OncePerQueue
<1>4. PendingIn(calls, calls[1].to) = <<calls[1].item>>
  <2>1. 1 \in 1 .. Len(calls) /\ calls[1].call = "Push"
    BY <1>1, <1>2
  <2> QED
    BY <1>2, <1>3, <2>1, PendingIsItem
<1> QED
  BY <1>1, <1>2, <1>3, <1>4 DEF calls, c

LEMMA NotPendingElsewhere ==
    ASSUME NEW q, NEW item, NEW r, r # q
    PROVE  PendingIn(<<Push(q, item)>>, r) = <<>>
<1>1. <<Push(q, item)>> \in Seq({Push(q, item)}) /\ Len(<<Push(q, item)>>) = 1
  OBVIOUS
<1>2. Push(q, item).to # r
  BY DEF Push
<1>3. \A i \in 1 .. Len(<<Push(q, item)>>) : <<Push(q, item)>>[i].to # r
  BY <1>1, <1>2
<1> QED
  BY <1>1, <1>3, NotPending

LEMMA InputPuts ==
    ASSUME Typed, InputStep
    PROVE  /\ OncePerQueue(todo'["input"])
           /\ \/ PendingIn(todo'["input"], "raw") = <<Len(Entered("raw")) + 1>>
              \/ PendingIn(todo'["input"], "raw") = <<>>
<1>1. "input" \in Loops /\ "raw" \in Queues
  BY QueuesAre DEF Loops
<1>2. CASE ReadEvent
  <2>1. todo'["input"] = <<Push("raw", EventsRead + 1)>>
    BY <1>1, <1>2 DEF ReadEvent, Do, Typed, Threads
  <2>2. EventsRead = Len(Entered("raw"))
    BY <1>1, EnteredTyped DEF EventsRead
  <2> QED
    BY <2>1, <2>2, OneCallPending
<1>3. CASE EndOfInput
  <2>1. todo'["input"] = <<SetFinished("raw")>>
    BY <1>1, <1>3 DEF EndOfInput, Do, Typed, Threads
  <2>2. NoPush(<<SetFinished("raw")>>) /\ <<SetFinished("raw")>> \in Seq({SetFinished("raw")})
    BY DEF NoPush, SetFinished
  <2> QED
    BY <2>1, <2>2, NoPushPending
<1> QED
  BY <1>2, <1>3 DEF InputStep

LEMMA InputNumbered ==
    ASSUME Typed, Numbered, InputStep
    PROVE  Numbered'
<1> DEFINE s == Put("raw")
<1>1. "input" \in Loops /\ "raw" \in Queues /\ Producer("raw") = "input"
  BY ProducersAre, OutputOf, QueuesAre DEF Loops
<1>2. /\ Put("raw")' = s \o PendingIn(todo'["input"], "raw")
      /\ s = Entered("raw") /\ s \in Seq(Numbers)
  BY <1>1, InputTurn, TurnPuts, EnteredTyped DEF ItemsOf, EventQueues
<1>3. CASE PendingIn(todo'["input"], "raw") = <<Len(s) + 1>>
  <2>1. Put("raw")' = Append(s, Len(s) + 1)
    BY <1>2, <1>3, AppendOne
  <2> HIDE DEF s
  <2>2. \A i \in 1 .. Len(s) : s[i] = i
    BY DEF Numbered, s
  <2>3. \A i \in 1 .. Len(Append(s, Len(s) + 1)) : Append(s, Len(s) + 1)[i] = i
    BY <1>2, <2>2
  <2> QED
    BY <2>1, <2>3 DEF Numbered
<1>4. CASE PendingIn(todo'["input"], "raw") = <<>>
  <2>1. Put("raw")' = Put("raw")
    BY <1>2, <1>4
  <2> QED
    BY <2>1 DEF Numbered
<1> QED
  BY <1>2, <1>3, <1>4, InputPuts

\* The head of the raw events is the next number.
LEMMA NextRaw ==
    ASSUME Typed, Numbered, NEW l \in Loops, Turn(l), Take("raw")
    PROVE  Head(queue["raw"]) = Len(taken["raw"]) + 1
<1> DEFINE n == Len(taken["raw"])
           e == Entered("raw")
           t == PendingIn(todo["input"], "raw")
<1>1. "raw" \in Queues /\ Producer("raw") = "input" /\ ItemsOf("raw") = Numbers
  BY ProducersAre, OutputOf, QueuesAre DEF ItemsOf, EventQueues
<1>2. /\ e \in Seq(Numbers) /\ Len(e) = Len(taken["raw"]) + Len(queue["raw"])
      /\ t \in Seq(Numbers)
      /\ queue["raw"] \in Seq(Numbers) /\ queue["raw"] # <<>>
      /\ taken["raw"] \in Seq(Numbers)
  BY <1>1, EnteredTyped, PendingTyped DEF Typed, Flows, Take
<1>3. Put("raw") = e \o t /\ Head(queue["raw"]) = e[n + 1]
  BY <1>1, PutIs, TakeEntered
<1>4. n + 1 \in 1 .. Len(e)
  <2>1. Len(queue["raw"]) \in Nat \ {0} /\ n \in Nat
    BY <1>2
  <2>2. Len(e) = n + Len(queue["raw"])
    BY <1>2
  <2> HIDE DEF e, n
  <2> QED
    BY <2>1, <2>2
<1> HIDE DEF e, t, n
<1>5. n + 1 \in 1 .. Len(e \o t) /\ (e \o t)[n + 1] = e[n + 1]
  <2>1. e \in Seq(Numbers) /\ t \in Seq(Numbers)
    BY <1>2
  <2> QED
    BY <1>4, <2>1
<1> QED
  BY <1>3, <1>5 DEF Numbered, n

LEMMA UnpackKeepsOnce ==
    ASSUME Typed, Numbered, UnpackedOnce, UnpackStep
    PROVE  UnpackedOnce'
<1>1. "raw" \in Queues /\ Turn("unpack") /\ "unpack" \in Loops
  BY QueuesAre, UnpackTurn DEF Loops
<1> DEFINE f == Head(queue["raw"])
           s == unpacked["good"]
           n == Len(taken["raw"])
<1>2. s \in Seq(Numbers) /\ taken["raw"] \in Seq(ItemsOf("raw")) /\ n \in Nat
  BY <1>1 DEF Typed, Flows, Locals, Kinds
<1>3. CASE Take("raw") /\ \E kind \in Kinds :
               unpacked' = [unpacked EXCEPT ![kind] = Append(@, f)]
  <2>1. f = n + 1 /\ taken'["raw"] = Append(taken["raw"], f)
    BY <1>1, <1>3, NextRaw, TakeEntered
  <2>2. Len(taken'["raw"]) = n + 1
    BY <1>2, <2>1
  <2>3. unpacked'["good"] = s \/ unpacked'["good"] = Append(s, n + 1)
    <3> HIDE DEF f
    <3> QED
      BY <1>3, <2>1 DEF Typed, Locals, Kinds
  <2> HIDE DEF s, n, f
  <2>4. /\ \A i, j \in 1 .. Len(s) : s[i] = s[j] => i = j
        /\ \A i \in 1 .. Len(s) : s[i] <= n
    BY DEF UnpackedOnce, s, n
  <2>n. \A i \in 1 .. Len(s) : s[i] \in Nat
    <3>1. \A x \in Numbers : x \in Nat
      BY PipelineAssumption DEF Typed, Numbers
    <3> QED
      BY <1>2, <3>1
  <2>5. /\ Len(Append(s, n + 1)) = Len(s) + 1 /\ Len(s) \in Nat
        /\ \A i \in 1 .. Len(s) : Append(s, n + 1)[i] = s[i]
        /\ Append(s, n + 1)[Len(s) + 1] = n + 1
    BY <1>2
  <2>6. \A i \in 1 .. Len(s) + 1 : i \in 1 .. Len(s) \/ i = Len(s) + 1
    BY <2>5
  <2>7. CASE unpacked'["good"] = s
    <3>1. \A i \in 1 .. Len(s) : s[i] <= n + 1
      BY <1>2, <2>4, <2>n
    <3> QED
      BY <2>2, <2>4, <2>7, <3>1 DEF UnpackedOnce
  <2>8. CASE unpacked'["good"] = Append(s, n + 1)
    <3>1. \A i, j \in 1 .. Len(s) + 1 :
            Append(s, n + 1)[i] = Append(s, n + 1)[j] => i = j
      BY <1>2, <2>4, <2>n, <2>5, <2>6
    <3>2. \A i \in 1 .. Len(s) + 1 : Append(s, n + 1)[i] <= n + 1
      BY <1>2, <2>4, <2>n, <2>5, <2>6
    <3> QED
      BY <2>2, <2>5, <2>8, <3>1, <3>2 DEF UnpackedOnce
  <2> QED
    BY <2>3, <2>7, <2>8
<1>4. CASE UNCHANGED <<flow, unpacked>>
  BY <1>4 DEF UnpackedOnce, flow
<1> QED
  BY <1>3, <1>4, UnpackPuts

-----------------------------------------------------------------------------
(* Every fragment is placed once                                           *)

\* The events that have been built, with the one under construction.
Pieces == IF pc["event_build"] = "done" THEN Put("events")
          ELSE Append(Put("events"), fNextEvent)

Built == PlacedOnce(Pieces, Put("out_of_order"), taken["good_build"])

LEMMA ToSetOfAppend ==
    ASSUME NEW S, NEW s \in Seq(S), NEW x
    PROVE  ToSet(Append(s, x)) = ToSet(s) \cup {x}
<1>1. /\ DOMAIN s = 1 .. Len(s) /\ DOMAIN Append(s, x) = 1 .. Len(s) + 1
      /\ Len(s) \in Nat
      /\ \A i \in 1 .. Len(s) : Append(s, x)[i] = s[i]
      /\ Append(s, x)[Len(s) + 1] = x
  OBVIOUS
<1>2. 1 .. Len(s) + 1 = (1 .. Len(s)) \cup {Len(s) + 1}
  BY <1>1
<1> QED
  BY <1>1, <1>2 DEF ToSet

\* A new fragment joins the last event.
LEMMA FragmentJoins ==
    ASSUME NEW S, NEW E \in Seq(Seq(S)), NEW N \in Seq(S), NEW O \in Seq(S),
           NEW F \in Seq(S), NEW f \in S \ ToSet(F), PlacedOnce(Append(E, N), O, F)
    PROVE  PlacedOnce(Append(E, Append(N, f)), O, Append(F, f))
<1> DEFINE A == Append(E, N)
           B == Append(E, Append(N, f))
           k == Len(E) + 1
<1>1. /\ DOMAIN A = 1 .. k /\ DOMAIN B = 1 .. k /\ k \in 1 .. k
      /\ \A i \in 1 .. k : i # k => B[i] = A[i]
      /\ A[k] = N /\ B[k] = Append(N, f)
  OBVIOUS
<1>2. /\ DOMAIN Append(N, f) = (DOMAIN N) \cup {Len(N) + 1}
      /\ \A m \in DOMAIN N : m # Len(N) + 1 /\ Append(N, f)[m] = N[m]
      /\ Append(N, f)[Len(N) + 1] = f
  OBVIOUS
<1>3. ToSet(Append(N, f)) = ToSet(N) \cup {f} /\ ToSet(Append(F, f)) = ToSet(F) \cup {f}
  BY ToSetOfAppend
<1> HIDE DEF A, B, k
<1>4. /\ \A i, j \in 1 .. k : \A m \in DOMAIN A[i], n \in DOMAIN A[j] :
             A[i][m] = A[j][n] => i = j /\ m = n
      /\ \A m, n \in DOMAIN O : O[m] = O[n] => m = n
      /\ \A i \in 1 .. k : ToSet(A[i]) \cap ToSet(O) = {}
      /\ (UNION {ToSet(A[i]) : i \in 1 .. k}) \cup ToSet(O) = ToSet(F)
  <2>1. PlacedOnce(A, O, F)
    BY DEF A
  <2> QED
    BY <1>1, <2>1 DEF PlacedOnce
<1>5. \A i \in 1 .. k : f \notin ToSet(A[i])
  BY <1>4
<1>6. f \notin ToSet(O)
  BY <1>4
<1>7. \A i \in 1 .. k : \A m \in DOMAIN A[i] : A[i][m] # f
  BY <1>5 DEF ToSet
<1>8. \A i \in 1 .. k : \A m \in DOMAIN B[i] :
        \/ m \in DOMAIN A[i] /\ B[i][m] = A[i][m]
        \/ i = k /\ m = Len(N) + 1 /\ B[i][m] = f
  BY <1>1, <1>2
<1>9. \A i, j \in 1 .. k : \A m \in DOMAIN B[i], n \in DOMAIN B[j] :
        B[i][m] = B[j][n] => i = j /\ m = n
  <2> SUFFICES ASSUME NEW i \in 1 .. k, NEW j \in 1 .. k,
                      NEW m \in DOMAIN B[i], NEW n \in DOMAIN B[j], B[i][m] = B[j][n]
               PROVE  i = j /\ m = n
    OBVIOUS
  <2>1. CASE m \in DOMAIN A[i] /\ B[i][m] = A[i][m]
    <3>1. B[j][n] # f
      BY <1>7, <2>1
    <3>2. n \in DOMAIN A[j] /\ B[j][n] = A[j][n]
      BY <1>8, <3>1
    <3>3. A[i][m] = A[j][n]
      BY <2>1, <3>2
    <3>4. \A x \in DOMAIN A[i], y \in DOMAIN A[j] :
            A[i][x] = A[j][y] => i = j /\ x = y
      BY <1>4
    <3> QED
      BY <2>1, <3>2, <3>3, <3>4
  <2>2. CASE i = k /\ m = Len(N) + 1 /\ B[i][m] = f
    <3>1. ~ (n \in DOMAIN A[j] /\ B[j][n] = A[j][n])
      BY <1>7, <2>2
    <3>2. j = k /\ n = Len(N) + 1
      BY <1>8, <3>1
    <3> QED
      BY <2>2, <3>2
  <2> QED
    BY <1>8, <2>1, <2>2
<1>10. \A i \in 1 .. k : ToSet(B[i]) = ToSet(A[i]) \cup (IF i = k THEN {f} ELSE {})
  BY <1>1, <1>3
<1>11. \A i \in 1 .. k : ToSet(B[i]) \cap ToSet(O) = {}
  BY <1>4, <1>6, <1>10
<1>12. UNION {ToSet(B[i]) : i \in 1 .. k} = (UNION {ToSet(A[i]) : i \in 1 .. k}) \cup {f}
  BY <1>1, <1>10
<1>13. (UNION {ToSet(B[i]) : i \in 1 .. k}) \cup ToSet(O) = ToSet(Append(F, f))
  BY <1>3, <1>4, <1>12
<1>14. PlacedOnce(B, O, Append(F, f))
  BY <1>1, <1>4, <1>9, <1>11, <1>13 DEF PlacedOnce
<1> QED
  BY <1>14 DEF B

\* A new fragment goes out of order.
LEMMA FragmentApart ==
    ASSUME NEW S, NEW A, NEW O \in Seq(S), NEW F \in Seq(S), NEW f \in S \ ToSet(F),
           PlacedOnce(A, O, F)
    PROVE  PlacedOnce(A, Append(O, f), Append(F, f))
<1>1. /\ DOMAIN Append(O, f) = (DOMAIN O) \cup {Len(O) + 1}
      /\ \A m \in DOMAIN O : Append(O, f)[m] = O[m]
      /\ Append(O, f)[Len(O) + 1] = f
  OBVIOUS
<1>2. ToSet(Append(O, f)) = ToSet(O) \cup {f} /\ ToSet(Append(F, f)) = ToSet(F) \cup {f}
  BY ToSetOfAppend
<1>3. (UNION {ToSet(A[i]) : i \in DOMAIN A}) \cup ToSet(O) = ToSet(F)
  BY DEF PlacedOnce
<1>4. f \notin ToSet(O) /\ \A i \in DOMAIN A : f \notin ToSet(A[i])
  BY <1>3
<1>5. \A m \in DOMAIN O : O[m] # f
  BY <1>4 DEF ToSet
<1>6. \A m, n \in DOMAIN Append(O, f) : Append(O, f)[m] = Append(O, f)[n] => m = n
  BY <1>1, <1>5 DEF PlacedOnce
<1>7. \A i \in DOMAIN A : ToSet(A[i]) \cap ToSet(Append(O, f)) = {}
  BY <1>2, <1>4 DEF PlacedOnce
<1>8. (UNION {ToSet(A[i]) : i \in DOMAIN A}) \cup ToSet(Append(O, f)) = ToSet(Append(F, f))
  BY <1>2, <1>3
<1> QED
  BY <1>6, <1>7, <1>8 DEF PlacedOnce

\* An empty event has no fragments.
LEMMA EmptyEvent ==
    ASSUME NEW S, NEW E \in Seq(Seq(S)), NEW O, NEW F
    PROVE  PlacedOnce(Append(E, <<>>), O, F) <=> PlacedOnce(E, O, F)
<1> DEFINE A == Append(E, <<>>)
           k == Len(E) + 1
<1>1. /\ DOMAIN A = (DOMAIN E) \cup {k} /\ k \notin DOMAIN E
      /\ \A i \in DOMAIN E : A[i] = E[i]
      /\ A[k] = <<>>
  OBVIOUS
<1> HIDE DEF A, k
<1>2. DOMAIN A[k] = {} /\ ToSet(A[k]) = {}
  BY <1>1 DEF ToSet
<1>3. UNION {ToSet(A[i]) : i \in DOMAIN A} = UNION {ToSet(E[i]) : i \in DOMAIN E}
  BY <1>1, <1>2
<1>4. PlacedOnce(A, O, F) <=> PlacedOnce(E, O, F)
  BY <1>1, <1>2, <1>3 DEF PlacedOnce
<1> QED
  BY <1>4 DEF A

LEMMA TwoCalls ==
    ASSUME NEW c, NEW b
    PROVE  LET calls == <<c>> \o <<b>>
           IN  /\ calls \in Seq({c, b}) /\ 1 .. Len(calls) = {1, 2}
               /\ calls[1] = c /\ calls[2] = b
<1>1. <<c>> \o <<b>> = Append(<<c>>, b) /\ <<c>> \in Seq({c, b})
  BY AppendOne
<1> QED
  BY <1>1

LEMMA TwoCallsPending ==
    ASSUME NEW q, NEW x, NEW b, b.call # "Push" \/ b.to # q
    PROVE  /\ OncePerQueue(<<Push(q, x)>> \o <<b>>)
           /\ PendingIn(<<Push(q, x)>> \o <<b>>, q) = <<x>>
<1> DEFINE c == Push(q, x)
           calls == <<c>> \o <<b>>
<1>1. c.call = "Push" /\ c.to = q /\ c.item = x
  BY DEF Push
<1> HIDE DEF c
<1>2. calls \in Seq({c, b}) /\ 1 .. Len(calls) = {1, 2} /\ calls[1] = c /\ calls[2] = b
  BY TwoCalls
<1> HIDE DEF calls
<1>3. OncePerQueue(calls)
  BY <1>1, <1>2 DEF OncePerQueue
<1>4. PendingIn(calls, calls[1].to) = <<calls[1].item>>
  <2>1. 1 \in 1 .. Len(calls) /\ calls[1].call = "Push"
    BY <1>1, <1>2
  <2> QED
    BY <1>2, <1>3, <2>1, PendingIsItem
<1> QED
  BY <1>1, <1>2, <1>3, <1>4 DEF calls, c

LEMMA SecondCallPending ==
    ASSUME NEW q, NEW x, NEW r, r # q, NEW b, b.call # "Push" \/ b.to = r
    PROVE  PendingIn(<<Push(q, x)>> \o <<b>>, r)
             = IF b.call = "Push" THEN <<b.item>> ELSE <<>>
<1> DEFINE c == Push(q, x)
           calls == <<c>> \o <<b>>
<1>1. c.call = "Push" /\ c.to = q
  BY DEF Push
<1> HIDE DEF c
<1>2. calls \in Seq({c, b}) /\ 1 .. Len(calls) = {1, 2} /\ calls[1] = c /\ calls[2] = b
  BY TwoCalls
<1> HIDE DEF calls
<1>3. OncePerQueue(calls)
  BY <1>1, <1>2 DEF OncePerQueue
<1>4. CASE b.call = "Push"
  <2>1. 2 \in 1 .. Len(calls) /\ calls[2].call = "Push"
    BY <1>2, <1>4
  <2>2. PendingIn(calls, calls[2].to) = <<calls[2].item>>
    BY <1>2, <1>3, <2>1, PendingIsItem
  <2> QED
    BY <1>2, <1>4, <2>2 DEF calls, c
<1>5. CASE b.call # "Push"
  <2>1. \A i \in 1 .. Len(calls) : calls[i].call # "Push" \/ calls[i].to # r
    BY <1>1, <1>2, <1>5
  <2>2. PendingIn(calls, r) = <<>>
    BY <1>2, <2>1, NotPending
  <2> QED
    BY <1>5, <2>2 DEF calls, c
<1> QED
  BY <1>4, <1>5

\* What the builder puts where: the event it has closed, the fragment it sorts
\* out, and its last event.
LEMMA BuilderPuts ==
    ASSUME Typed, BuilderStep
    PROVE  /\ OncePerQueue(todo'["event_build"])
           /\ \/ /\ Take("good_build") /\ pc'["event_build"] = pc["event_build"]
                 /\ \E closes, apart \in BOOLEAN :
                      LET f    == Head(queue["good_build"])
                          rest == IF closes THEN <<>> ELSE fNextEvent
                      IN  /\ fNextEvent' = IF apart THEN rest ELSE Append(rest, f)
                          /\ PendingIn(todo'["event_build"], "events")
                               = IF closes THEN <<fNextEvent>> ELSE <<>>
                          /\ PendingIn(todo'["event_build"], "out_of_order")
                               = IF apart THEN <<f>> ELSE <<>>
              \/ /\ UNCHANGED <<flow, fNextEvent>>
                 /\ PendingIn(todo'["event_build"], "out_of_order") = <<>>
                 /\ \/ /\ pc'["event_build"] # "done"
                       /\ PendingIn(todo'["event_build"], "events") = <<>>
                    \/ /\ pc'["event_build"] = "done"
                       /\ PendingIn(todo'["event_build"], "events")
                            = IF fNextEvent = <<>> THEN <<>> ELSE <<fNextEvent>>
<1>1. "event_build" \in Loops
  BY DEF Loops
<1>2. CASE BuildEvent
  <2> DEFINE f == Head(queue["good_build"])
             rest(closes) == IF closes THEN <<>> ELSE fNextEvent
             calls(closes, apart) ==
                (IF closes THEN <<Push("events", fNextEvent)>> ELSE <<>>)
                  \o (IF apart THEN <<Push("out_of_order", f)>> ELSE <<>>)
  <2>1. PICK closes \in BOOLEAN, apart \in BOOLEAN :
          /\ fNextEvent' = IF apart THEN rest(closes) ELSE Append(rest(closes), f)
          /\ Do("event_build", calls(closes, apart))
    BY <1>2 DEF BuildEvent
  <2> HIDE DEF f
  <2>2. todo'["event_build"] = calls(closes, apart)
    <3> HIDE DEF calls
    <3> QED
      BY <1>1, <2>1 DEF Do, Typed, Threads
  <2>3. /\ OncePerQueue(todo'["event_build"])
        /\ PendingIn(todo'["event_build"], "events")
             = IF closes THEN <<fNextEvent>> ELSE <<>>
        /\ PendingIn(todo'["event_build"], "out_of_order") = IF apart THEN <<f>> ELSE <<>>
    <3> DEFINE p == Push("events", fNextEvent)
               o == Push("out_of_order", f)
    <3>1. o.call = "Push" /\ o.to = "out_of_order" /\ o.item = f
      BY DEF Push
    <3> HIDE DEF p, o
    <3>2. calls(closes, apart) = (IF closes THEN <<p>> ELSE <<>>) \o (IF apart THEN <<o>> ELSE <<>>)
      BY DEF p, o
    <3> HIDE DEF calls
    <3>3. CASE closes /\ apart
      <4>1. calls(closes, apart) = <<p>> \o <<o>>
        BY <3>2, <3>3
      <4>2. /\ OncePerQueue(<<p>> \o <<o>>)
            /\ PendingIn(<<p>> \o <<o>>, "events") = <<fNextEvent>>
        BY <3>1, TwoCallsPending DEF p
      <4>3. PendingIn(<<p>> \o <<o>>, "out_of_order") = <<f>>
        BY <3>1, SecondCallPending DEF p
      <4> QED
        BY <2>2, <3>3, <4>1, <4>2, <4>3
    <3>4. CASE closes /\ ~apart
      <4>1. calls(closes, apart) = <<p>>
        BY <3>2, <3>4
      <4>2. /\ OncePerQueue(<<p>>) /\ PendingIn(<<p>>, "events") = <<fNextEvent>>
            /\ PendingIn(<<p>>, "out_of_order") = <<>>
        BY OneCallPending, NotPendingElsewhere DEF p
      <4> QED
        BY <2>2, <3>4, <4>1, <4>2
    <3>5. CASE ~closes /\ apart
      <4>1. calls(closes, apart) = <<o>>
        BY <3>2, <3>5
      <4>2. /\ OncePerQueue(<<o>>) /\ PendingIn(<<o>>, "events") = <<>>
            /\ PendingIn(<<o>>, "out_of_order") = <<f>>
        BY OneCallPending, NotPendingElsewhere DEF o
      <4> QED
        BY <2>2, <3>5, <4>1, <4>2
    <3>6. CASE ~closes /\ ~apart
      <4>1. calls(closes, apart) = <<>>
        BY <3>2, <3>6
      <4> QED
        BY <2>2, <3>6, <4>1, NoCallsPending
    <3> QED
      BY <3>3, <3>4, <3>5, <3>6
  <2>4. Take("good_build") /\ pc' = pc
    BY <1>2 DEF BuildEvent
  <2> QED
    BY <2>1, <2>3, <2>4 DEF f
<1>3. CASE PopNothing("event_build", "good_build", BuilderLastCalls)
  <2> DEFINE p == Push("events", fNextEvent)
             b == SetFinished("events")
  <2>1. b.call # "Push" /\ b.to = "events" /\ <<b>> \in Seq({b}) /\ NoPush(<<b>>)
    BY DEF SetFinished, NoPush
  <2>2. \/ todo'["event_build"] = <<>> /\ pc'["event_build"] # "done"
        \/ todo'["event_build"] = BuilderLastCalls /\ pc'["event_build"] = "done"
    BY <1>1, <1>3, PopNothingCalls
  <2>3. UNCHANGED <<flow, fNextEvent>>
    BY <1>1, <1>3, PopNothingCalls
  <2>4. BuilderLastCalls = (IF fNextEvent = <<>> THEN <<>> ELSE <<p>>) \o <<b>>
    BY DEF BuilderLastCalls, LastEvent
  <2> HIDE DEF p, b
  <2>5. CASE fNextEvent = <<>>
    <3>1. BuilderLastCalls = <<b>>
      BY <2>4, <2>5
    <3> QED
      BY <2>1, <2>2, <2>3, <2>5, <3>1, NoPushPending, NoCallsPending
  <2>6. CASE fNextEvent # <<>>
    <3>1. BuilderLastCalls = <<p>> \o <<b>>
      BY <2>4, <2>6
    <3>2. /\ OncePerQueue(<<p>> \o <<b>>)
          /\ PendingIn(<<p>> \o <<b>>, "events") = <<fNextEvent>>
      BY <2>1, TwoCallsPending DEF p
    <3>3. PendingIn(<<p>> \o <<b>>, "out_of_order") = <<>>
      BY <2>1, SecondCallPending DEF p
    <3> QED
      BY <2>2, <2>3, <2>6, <3>1, <3>2, <3>3, NoCallsPending
  <2> QED
    BY <2>5, <2>6
<1> QED
  BY <1>2, <1>3 DEF BuilderStep

LEMMA BuilderReceives == "event_build" \in Running => "good_build" \in ToSet(GoodQueues)
<1> SUFFICES ASSUME "event_build" \in Running PROVE "good_build" \in ToSet(GoodQueues)
  OBVIOUS
<1>1. Consumer["good_build"] = "event_build"
  BY DEF Consumer
<1>2. GoodQueues = (InUse("good_hist") \o InUse("good_write")) \o <<"good_build">>
  BY <1>1 DEF GoodQueues, InUse
<1>3. InUse("good_hist") \o InUse("good_write") \in Seq({"good_hist", "good_write"})
  BY InUseIs, Joined
<1>4. GoodQueues = Append(InUse("good_hist") \o InUse("good_write"), "good_build")
  BY <1>2, <1>3, AppendOne
<1> QED
  BY <1>3, <1>4, ToSetOfAppend

\* The builder gets no fragment twice.
LEMMA NextGood ==
    ASSUME Typed, Ended, Received, UnpackedOnce, Turn("event_build"), Take("good_build")
    PROVE  Head(queue["good_build"]) \in Numbers \ ToSet(taken["good_build"])
<1> DEFINE g == taken["good_build"]
           h == queue["good_build"]
           t == PendingIn(todo["unpack"], "good_build")
           s == unpacked["good"]
<1>1. /\ "good_build" \in Queues /\ ItemsOf("good_build") = Numbers
      /\ Producer("good_build") = "unpack" /\ Consumer["good_build"] = "event_build"
  BY QueuesAre, ProducersAre, OutputOf DEF ItemsOf, EventQueues, Consumer
<1>2. /\ g \in Seq(Numbers) /\ h \in Seq(Numbers) /\ h # <<>> /\ t \in Seq(Numbers)
  BY <1>1, PendingTyped DEF Typed, Flows, Take
<1>3. "good_build" \in ToSet(GoodQueues)
  <2>1. "event_build" \in Running
    BY DEF Turn, Ended, Loops
  <2> QED
    BY <2>1, BuilderReceives
<1>4. s = g \o h \o t
  BY <1>1, <1>3, PutIs DEF Received, Entered
<1>5. \A i, j \in 1 .. Len(s) : s[i] = s[j] => i = j
  BY DEF UnpackedOnce
<1> HIDE DEF g, h, t, s
<1>6. /\ Len(g) \in Nat /\ Len(g) + 1 \in 1 .. Len(s)
      /\ \A i \in 1 .. Len(g) : i \in 1 .. Len(s) /\ s[i] = g[i] /\ i # Len(g) + 1
      /\ s[Len(g) + 1] = Head(h) /\ Head(h) \in Numbers
  BY <1>2, <1>4
<1>7. \A i \in 1 .. Len(g) : g[i] # Head(h)
  BY <1>5, <1>6
<1>8. DOMAIN g = 1 .. Len(g)
  BY <1>2
<1> QED
  BY <1>6, <1>7, <1>8 DEF ToSet, g, h

LEMMA BuilderKeepsBuilt ==
    ASSUME Typed, Ended, Received, UnpackedOnce, Built, BuilderStep
    PROVE  Built'
<1> DEFINE E == Put("events")
           N == fNextEvent
           O == Put("out_of_order")
           F == taken["good_build"]
           b == "event_build"
<1>1. /\ {"events", "out_of_order", "good_build"} \subseteq Queues /\ b \in Loops
      /\ Producer("events") = b /\ Producer("out_of_order") = b
      /\ ItemsOf("events") = Seq(Numbers) /\ ItemsOf("out_of_order") = Numbers
      /\ ItemsOf("good_build") = Numbers
  BY QueuesAre, ProducersAre, OutputOf DEF ItemsOf, EventQueues, Loops
<1>2. Turn(b) /\ pc[b] # "done"
  BY BuilderTurn DEF Turn
<1>3. /\ E \in Seq(Seq(Numbers)) /\ O \in Seq(Numbers) /\ F \in Seq(Numbers)
      /\ N \in Seq(Numbers)
      /\ Put("events")' = E \o PendingIn(todo'[b], "events")
      /\ Put("out_of_order")' = O \o PendingIn(todo'[b], "out_of_order")
  BY <1>1, <1>2, TurnPuts, EnteredTyped DEF Typed, Flows, Locals
<1>e. E \o <<>> = E /\ O \o <<>> = O
  <2> HIDE DEF E, O
  <2> QED
    BY <1>3
<1>4. PlacedOnce(Append(E, N), O, F)
  BY <1>2 DEF Built, Pieces
<1>5. ASSUME Take("good_build"), pc'[b] = pc[b], NEW closes \in BOOLEAN, NEW apart \in BOOLEAN,
             LET f    == Head(queue["good_build"])
                 rest == IF closes THEN <<>> ELSE N
             IN  /\ fNextEvent' = IF apart THEN rest ELSE Append(rest, f)
                 /\ PendingIn(todo'[b], "events") = IF closes THEN <<N>> ELSE <<>>
                 /\ PendingIn(todo'[b], "out_of_order") = IF apart THEN <<f>> ELSE <<>>
      PROVE  Built'
  <2> DEFINE f    == Head(queue["good_build"])
             rest == IF closes THEN <<>> ELSE N
             done == IF closes THEN Append(E, N) ELSE E
  <2>1. f \in Numbers \ ToSet(F)
    BY <1>2, <1>5, NextGood
  <2>2. taken'["good_build"] = Append(F, f)
    BY <1>1, <1>5, TakeEntered
  <2>3. /\ fNextEvent' = IF apart THEN rest ELSE Append(rest, f)
        /\ PendingIn(todo'[b], "events") = IF closes THEN <<N>> ELSE <<>>
        /\ PendingIn(todo'[b], "out_of_order") = IF apart THEN <<f>> ELSE <<>>
    BY <1>5
  <2> HIDE DEF f, E, N, O, F
  <2>4. done \in Seq(Seq(Numbers)) /\ rest \in Seq(Numbers)
    BY <1>3
  <2>5. PlacedOnce(Append(done, rest), O, F)
    <3>1. CASE closes
      BY <1>3, <1>4, <2>4, <3>1, EmptyEvent
    <3>2. CASE ~closes
      BY <1>4, <3>2
    <3> QED
      BY <3>1, <3>2
  <2>6. Put("events")' = done
    <3>1. CASE closes
      BY <1>3, <2>3, <3>1, AppendOne
    <3>2. CASE ~closes
      BY <1>3, <1>e, <2>3, <3>2
    <3> QED
      BY <3>1, <3>2
  <2>7. Pieces' = Append(done, fNextEvent')
    BY <1>2, <1>5, <2>6 DEF Pieces
  <2> HIDE DEF done, rest
  <2>8. CASE apart
    <3>1. Put("out_of_order")' = Append(O, f)
      BY <1>3, <2>3, <2>8, AppendOne
    <3>2. PlacedOnce(Append(done, rest), Append(O, f), Append(F, f))
      BY <1>3, <2>1, <2>5, FragmentApart
    <3> QED
      BY <2>2, <2>3, <2>7, <2>8, <3>1, <3>2 DEF Built
  <2>9. CASE ~apart
    <3>1. Put("out_of_order")' = O
      BY <1>3, <2>3, <2>9
    <3>2. PlacedOnce(Append(done, Append(rest, f)), O, Append(F, f))
      BY <1>3, <2>1, <2>4, <2>5, FragmentJoins
    <3> QED
      BY <2>2, <2>3, <2>7, <2>9, <3>1, <3>2 DEF Built
  <2> QED
    BY <2>8, <2>9
<1>6. ASSUME UNCHANGED <<flow, fNextEvent>>, PendingIn(todo'[b], "out_of_order") = <<>>
      PROVE  /\ taken'["good_build"] = F /\ fNextEvent' = N
             /\ Put("out_of_order")' = O
  <2>1. Put("out_of_order")' = O
    BY <1>3, <1>e, <1>6
  <2> QED
    BY <1>6, <2>1 DEF flow
<1>7. CASE /\ UNCHANGED <<flow, fNextEvent>> /\ PendingIn(todo'[b], "out_of_order") = <<>>
           /\ pc'[b] # "done" /\ PendingIn(todo'[b], "events") = <<>>
  <2>1. Put("events")' = E
    BY <1>3, <1>e, <1>7
  <2>2. Pieces' = Append(E, N)
    BY <1>7, <2>1 DEF Pieces
  <2> QED
    BY <1>4, <1>6, <1>7, <2>2 DEF Built
<1>8. CASE /\ UNCHANGED <<flow, fNextEvent>> /\ PendingIn(todo'[b], "out_of_order") = <<>>
           /\ pc'[b] = "done"
           /\ PendingIn(todo'[b], "events") = IF N = <<>> THEN <<>> ELSE <<N>>
  <2>1. Pieces' = Put("events")'
    BY <1>8 DEF Pieces
  <2> HIDE DEF E, N, O, F
  <2>2. CASE N = <<>>
    <3>1. Pieces' = E
      BY <1>3, <1>8, <2>1, <2>2
    <3>2. PlacedOnce(E, O, F)
      BY <1>3, <1>4, <2>2, EmptyEvent
    <3> QED
      BY <1>6, <1>8, <3>1, <3>2 DEF Built, N
  <2>3. CASE N # <<>>
    <3>1. Pieces' = Append(E, N)
      BY <1>3, <1>8, <2>1, <2>3, AppendOne
    <3> QED
      BY <1>4, <1>6, <1>8, <3>1 DEF Built, N
  <2> QED
    BY <2>2, <2>3
<1> HIDE DEF E, O, F
<1> QED
  BY <1>5, <1>7, <1>8, BuilderPuts

-----------------------------------------------------------------------------
(* Nothing is left in a queue                                              *)

\* A loop that has ended left nothing before it, unless one raced.
Drained ==
    ~raced => \A q \in Queues \ {"out_of_order"} :
                 Consumer[q] \in Running /\ pc[Consumer[q]] = "done" => queue[q] = <<>>

\* What is before a loop that has ended only gets less.
LEMMA EndedKeeps ==
    ASSUME Typed, Ended, NEW q \in Queues \ {"out_of_order"}, Typed',
           Consumer[q] \in Running, pc[Consumer[q]] = "done", queue[q] = <<>>,
           finished[q] => Len(queue'[q]) <= Len(queue[q])
    PROVE  queue'[q] = <<>>
<1>1. finished[q]
  BY DEF Ended, ParentsFinished
<1>2. queue'[q] \in Seq(ItemsOf(q)') /\ Len(queue[q]) = 0
  BY DEF Typed, Flows
<1>3. Len(queue'[q]) = 0
  BY <1>1, <1>2
<1> QED
  BY <1>2, <1>3

LEMMA CallDrained ==
    ASSUME Typed, Ordered, Ended, Drained, NEW l \in Loops, Call(l)
    PROVE  Drained'
<1>1. UNCHANGED <<options, pc, raced>>
  BY DEF Call
<1>2. Typed' /\ \A q \in Queues : finished[q] => Len(queue'[q]) <= Len(queue[q])
  BY CallTyped, CallOrdered
<1>3. Running' = Running
  BY <1>1, SameReceivers
<1> QED
  BY <1>1, <1>2, <1>3, EndedKeeps DEF Drained

LEMMA TurnDrained ==
    ASSUME Typed, Ended, Drained, NEW l \in Loops, Turn(l), Typed'
    PROVE  Drained'
<1>1. PICK place \in Places :
        /\ pc' = [pc EXCEPT ![l] = place]
        /\ place = "done" => UNCHANGED flow /\ (NothingBefore(l) \/ raced')
  BY DEF Turn
<1>2. /\ UNCHANGED <<options, finished>> /\ (raced => raced')
      /\ pc'[l] = place /\ \A k \in Loops \ {l} : pc'[k] = pc[k]
  BY <1>1 DEF Turn, Typed, Threads
<1>3. Running' = Running
  BY <1>2, SameReceivers
<1> SUFFICES ASSUME ~raced', NEW q \in Queues \ {"out_of_order"},
                    Consumer[q] \in Running, pc'[Consumer[q]] = "done"
             PROVE  queue'[q] = <<>>
  BY <1>3 DEF Drained
<1>4. CASE Consumer[q] = l
  BY <1>1, <1>2, <1>4 DEF flow, NothingBefore
<1>5. CASE Consumer[q] # l
  <2>1. pc[Consumer[q]] = "done" /\ queue[q] = <<>>
    BY <1>2, <1>5, ConsumersAre DEF Drained
  <2>2. finished[q] => Len(queue'[q]) <= Len(queue[q])
    BY TurnKeepsFinished
  <2> QED
    BY <2>1, <2>2, EndedKeeps
<1> QED
  BY <1>4, <1>5

-----------------------------------------------------------------------------
(* The two ends of the pipeline                                            *)

Conserved ==
    /\ Once /\ Received /\ DetReceived
    /\ Numbered /\ UnpackedOnce /\ Built /\ Drained

LEMMA InitConserved == Init => Conserved
<1> SUFFICES ASSUME Init PROVE Conserved
  OBVIOUS
<1>1. /\ \A q \in Queues : taken[q] = <<>> /\ queue[q] = <<>>
      /\ \A l \in Loops : todo[l] = <<>>
      /\ unpacked = [k \in Kinds |-> <<>>] /\ fNextEvent = <<>>
  BY DEF Init
<1>2. ASSUME NEW q \in Queues PROVE Put(q) = <<>>
  BY <1>1, ProducerIsLoop, NothingPending DEF Put, Through
<1>3. /\ {"raw", "good_hist", "good_write", "good_build", "bad", "scaler", "events",
          "det_hist", "det_write", "out_of_order"} \subseteq Queues
      /\ Kinds = {"good", "bad", "scaler"}
  BY QueuesAre DEF Kinds
<1>4. Once
  BY <1>1, NoCallsPending DEF Once
<1>5. Received
  BY <1>1, <1>2, <1>3, ReceiversAre DEF Received
<1>6. DetReceived
  <2>1. FullAmong(<<>>, 0) = {} /\ Cardinality({}) = 0
    BY FS_EmptySet DEF FullAmong
  <2>2. AreTheFull(<<>>, <<>>)
    BY <2>1 DEF AreTheFull
  <2> QED
    BY <1>1, <1>2, <1>3, <2>2, ReceiversAre DEF DetReceived
<1>7. Numbered /\ UnpackedOnce
  BY <1>1, <1>2, <1>3 DEF Numbered, UnpackedOnce
<1>8. Built
  <2>1. Pieces = <<>> \/ Pieces = Append(<<>>, <<>>)
    BY <1>1, <1>2, <1>3 DEF Pieces
  <2>2. PlacedOnce(<<>>, <<>>, <<>>)
    BY DEF PlacedOnce, ToSet
  <2>3. PlacedOnce(Append(<<>>, <<>>), <<>>, <<>>)
    <3>1. <<>> \in Seq(Seq(Nat))
      OBVIOUS
    <3> QED
      BY <2>2, <3>1, EmptyEvent
  <2> QED
    BY <1>1, <1>2, <1>3, <2>1, <2>2, <2>3 DEF Built
<1>9. Drained
  BY <1>1 DEF Drained
<1> QED
  BY <1>4, <1>5, <1>6, <1>7, <1>8, <1>9 DEF Conserved

\* What a step that is not a loop's own leaves to that loop.
LEMMA OthersConserve ==
    ASSUME Typed, Conserved, NEW l \in Loops, Step(l), Turn(l) \/ Call(l)
    PROVE  /\ \A q \in Queues : Producer(q) # l \/ Call(l) => Put(q)' = Put(q)
           /\ \A q \in Queues : Consumer[q] # l \/ Call(l) => taken'[q] = taken[q]
           /\ \A k \in Loops \ {l} : todo'[k] = todo[k] /\ pc'[k] = pc[k]
           /\ l # "unpack" \/ Call(l) => unpacked' = unpacked
           /\ l # "event_build" \/ Call(l) => fNextEvent' = fNextEvent
           /\ Call(l) => OncePerQueue(todo'[l]) /\ pc' = pc
           /\ GoodQueues' = GoodQueues /\ DetQueues' = DetQueues
<1>1. OncePerQueue(todo[l])
  BY DEF Conserved, Once
<1>2. UNCHANGED options
  BY DEF Turn, Call
<1>3. \A k \in Loops \ {l} : todo'[k] = todo[k] /\ pc'[k] = pc[k]
  BY DEF Turn, Call, Do, Typed, Threads
<1>4. Call(l) => UNCHANGED <<unpacked, fNextEvent, pc>>
  BY DEF Call
<1>5. GoodQueues' = GoodQueues /\ DetQueues' = DetQueues
  BY <1>2, SameReceivers
<1>6. CASE Call(l)
  <2>1. \A q \in Queues : Put(q)' = Put(q) /\ taken' = taken /\ OncePerQueue(todo'[l])
    BY <1>1, <1>6, CallPuts
  <2>2. taken' = taken /\ OncePerQueue(todo'[l])
    BY <2>1, QueuesAre
  <2> QED
    BY <1>3, <1>4, <1>5, <1>6, <2>1, <2>2
<1>7. CASE Turn(l) /\ ~Call(l)
  <2>1. \A q \in Queues : Producer(q) # l => Put(q)' = Put(q)
    BY <1>7, TurnPuts
  <2>2. \A q \in Queues : Consumer[q] # l => taken'[q] = taken[q]
    BY <1>7, TurnEntered
  <2> QED
    BY <1>3, <1>5, <1>7, <2>1, <2>2, OthersKeep
<1> QED
  BY <1>6, <1>7

LEMMA StepOnce ==
    ASSUME Typed, Conserved, Typed', NEW l \in Loops, Step(l), Turn(l) \/ Call(l)
    PROVE  Once'
<1>1. \A k \in Loops \ {l} : OncePerQueue(todo'[k])
  BY OthersConserve DEF Conserved, Once
<1>2. OncePerQueue(todo'[l])
  <2>1. CASE Call(l)
    BY <2>1, OthersConserve
  <2>2. CASE ~Call(l) /\ l \in {"input", "unpack", "event_build", "det_build"}
    BY <2>2, InputPuts, UnpackPuts, BuilderPuts, DetectorPuts DEF Step
  <2>3. CASE l \notin {"input", "unpack", "event_build", "det_build"}
    <3>1. Outputs(l) = {}
      BY <2>3 DEF Outputs, Producer
    <3>2. CallsOf(l)' = {}
      BY <3>1 DEF CallsOf, Outputs
    <3>3. todo'[l] \in Seq({})
      BY <3>2 DEF Typed, Threads
    <3>4. todo'[l] = <<>>
      BY <3>3
    <3> QED
      BY <3>4, NoCallsPending
  <2> QED
    BY <2>1, <2>2, <2>3
<1> QED
  BY <1>1, <1>2 DEF Once

LEMMA StepReceived ==
    ASSUME Typed, Conserved, NEW l \in Loops, Step(l), Turn(l) \/ Call(l)
    PROVE  Received' /\ DetReceived'
<1>1. ASSUME l = "unpack", ~Call(l) PROVE Received'
  <2>1. UnpackStep
    BY <1>1 DEF Step
  <2> QED
    BY <2>1, UnpackReceived DEF Conserved
<1>2. ASSUME l = "det_build", ~Call(l) PROVE DetReceived'
  <2>1. DetectorStep
    BY <1>2 DEF Step
  <2> QED
    BY <2>1, DetectorReceived DEF Conserved
<1>3. ASSUME l # "unpack" \/ Call(l) PROVE Received'
  <2>1. \A q \in ToSet(GoodQueues) \cup {"bad", "scaler"} :
          q \in Queues /\ Producer(q) = "unpack"
    BY ReceiversAre, ProducersAre, OutputOf
  <2>2. Kinds \ {"good"} = {"bad", "scaler"}
    BY DEF Kinds
  <2>3. unpacked' = unpacked /\ GoodQueues' = GoodQueues
    BY <1>3, OthersConserve
  <2>4. \A q \in ToSet(GoodQueues) \cup {"bad", "scaler"} : Put(q)' = Put(q)
    BY <1>3, <2>1, OthersConserve
  <2> QED
    BY <2>2, <2>3, <2>4 DEF Received, Conserved
<1>4. ASSUME l # "det_build" \/ Call(l) PROVE DetReceived'
  <2>1. \A q \in ToSet(DetQueues) : q \in Queues /\ Producer(q) = "det_build"
    BY ReceiversAre, ProducersAre, OutputOf
  <2>2. "events" \in Queues /\ Consumer["events"] = "det_build"
    BY QueuesAre DEF Consumer
  <2> QED
    BY <1>4, <2>1, <2>2, OthersConserve DEF DetReceived, Conserved
<1> QED
  BY <1>1, <1>2, <1>3, <1>4

LEMMA StepNumbered ==
    ASSUME Typed, Conserved, NEW l \in Loops, Step(l), Turn(l) \/ Call(l)
    PROVE  Numbered' /\ UnpackedOnce'
<1>1. "raw" \in Queues /\ Producer("raw") = "input" /\ Consumer["raw"] = "unpack"
  BY QueuesAre, ProducersAre, OutputOf DEF Consumer
<1>2. ASSUME l = "input", ~Call(l) PROVE Numbered'
  <2>1. InputStep
    BY <1>2 DEF Step
  <2> QED
    BY <2>1, InputNumbered DEF Conserved
<1>3. ASSUME l = "unpack", ~Call(l) PROVE UnpackedOnce'
  <2>1. UnpackStep
    BY <1>3 DEF Step
  <2> QED
    BY <2>1, UnpackKeepsOnce DEF Conserved
<1>4. ASSUME l # "input" \/ Call(l) PROVE Numbered'
  <2>1. Put("raw")' = Put("raw")
    BY <1>1, <1>4, OthersConserve
  <2> QED
    BY <2>1 DEF Conserved, Numbered
<1>5. ASSUME l # "unpack" \/ Call(l) PROVE UnpackedOnce'
  <2>1. taken'["raw"] = taken["raw"] /\ unpacked' = unpacked
    BY <1>1, <1>5, OthersConserve
  <2> QED
    BY <2>1 DEF Conserved, UnpackedOnce
<1> QED
  BY <1>2, <1>3, <1>4, <1>5

LEMMA StepBuilt ==
    ASSUME Typed, Ended, Conserved, NEW l \in Loops, Step(l), Turn(l) \/ Call(l)
    PROVE  Built'
<1>1. /\ {"events", "out_of_order", "good_build"} \subseteq Queues
      /\ "event_build" \in Loops
      /\ Producer("events") = "event_build" /\ Producer("out_of_order") = "event_build"
      /\ Consumer["good_build"] = "event_build"
  BY QueuesAre, ProducersAre, OutputOf DEF Consumer, Loops
<1>2. CASE l = "event_build" /\ ~Call(l)
  <2>1. BuilderStep
    BY <1>2 DEF Step
  <2> QED
    BY <2>1, BuilderKeepsBuilt DEF Conserved
<1>3. CASE l # "event_build" \/ Call(l)
  <2>1. /\ Put("events")' = Put("events") /\ Put("out_of_order")' = Put("out_of_order")
        /\ taken'["good_build"] = taken["good_build"]
    BY <1>1, <1>3, OthersConserve
  <2>2. pc'["event_build"] = pc["event_build"] /\ fNextEvent' = fNextEvent
    BY <1>1, <1>3, OthersConserve
  <2>3. Pieces' = Pieces
    BY <2>1, <2>2 DEF Pieces
  <2> QED
    BY <2>1, <2>3 DEF Conserved, Built
<1> QED
  BY <1>2, <1>3

LEMMA StutterConserved == Conserved /\ UNCHANGED vars => Conserved'
<1> SUFFICES ASSUME Conserved, UNCHANGED vars PROVE Conserved'
  OBVIOUS
<1>1. UNCHANGED <<options, queue, taken, pc, todo, fNextEvent, unpacked, raced>>
  BY DEF vars, flow
<1>2. /\ \A q : Put(q)' = Put(q)
      /\ GoodQueues' = GoodQueues /\ DetQueues' = DetQueues /\ Running' = Running
  BY <1>1, SameReceivers DEF Put, Through
<1>3. Once' /\ Received' /\ DetReceived'
  BY <1>1, <1>2 DEF Conserved, Once, Received, DetReceived
<1>4. Numbered' /\ UnpackedOnce' /\ Built'
  BY <1>1, <1>2 DEF Conserved, Numbered, UnpackedOnce, Built, Pieces
<1>5. Drained'
  BY <1>1, <1>2 DEF Conserved, Drained
<1> QED
  BY <1>3, <1>4, <1>5 DEF Conserved

LEMMA NextConserved ==
    Typed /\ Ordered /\ Ended /\ Conserved /\ [Next]_vars => Conserved'
<1> SUFFICES ASSUME Typed, Ordered, Ended, Conserved, [Next]_vars PROVE Conserved'
  OBVIOUS
<1>1. ASSUME NEW l \in Loops, Step(l) PROVE Conserved'
  <2>1. Turn(l) \/ Call(l)
    BY <1>1, StepIsCallOrTurn
  <2>2. Typed'
    BY <1>1, NextTyped DEF Next
  <2>3. Once' /\ Received' /\ DetReceived' /\ Numbered' /\ UnpackedOnce' /\ Built'
    BY <1>1, <2>1, <2>2, StepOnce, StepReceived, StepNumbered, StepBuilt
  <2>4. Drained'
    BY <2>1, <2>2, CallDrained, TurnDrained DEF Conserved
  <2> QED
    BY <2>3, <2>4 DEF Conserved
<1> QED
  BY <1>1, StutterConserved DEF Next

LEMMA AlwaysConserved == Spec => [](Typed /\ Ended /\ Conserved)
  BY InitTyped, NextTyped, InitOrdered, NextOrdered, InitEnded, NextEnded,
     InitConserved, NextConserved, PTL DEF Spec

\* However slow one of them is, all receivers of a loop get the same items in
\* the same order, whatever loops run and whatever the size of the queues.
THEOREM ReceiversGetAll == Spec => []EveryReceiverGetsAll
<1>1. Conserved => EveryReceiverGetsAll
  <2> SUFFICES ASSUME Conserved PROVE EveryReceiverGetsAll
    OBVIOUS
  <2>1. /\ \A q \in ToSet(GoodQueues) \cup {"bad", "scaler"} : Producer(q) = "unpack"
        /\ \A q \in ToSet(DetQueues) : Producer(q) = "det_build"
    BY ReceiversAre, ProducersAre, OutputOf
  <2> QED
    BY <2>1 DEF EveryReceiverGetsAll, Conserved, Received, DetReceived, Put, Kinds
<1> QED
  BY <1>1, AlwaysConserved, PTL

\* When all loops have ended every good fragment is in one event or out of
\* order, and the queues between them are empty, unless a loop raced.
THEOREM AllDelivered == Spec => []Delivered
<1>1. Typed /\ Ended /\ Conserved => Delivered
  <2> SUFFICES ASSUME Typed, Ended, Conserved, AllDone, ~raced PROVE Delivered
    BY DEF Delivered
  <2>1. \A q \in Queues \ {"out_of_order"} : Consumer[q] \in Running => queue[q] = <<>>
    BY DEF AllDone, Done, Conserved, Drained
  <2>2. ASSUME "event_build" \in Running
        PROVE  PlacedOnce(taken["events"], Through("event_build", "out_of_order"),
                          unpacked["good"])
    <3>1. /\ {"events", "out_of_order", "good_build"} \subseteq Queues
          /\ Producer("events") = "event_build" /\ Producer("out_of_order") = "event_build"
          /\ Producer("good_build") = "unpack"
          /\ Consumer["good_build"] = "event_build" /\ Consumer["events"] = "det_build"
          /\ {"event_build", "unpack"} \subseteq Loops
      BY QueuesAre, ProducersAre, OutputOf DEF Consumer, Loops
    <3>2. {"det_build", "unpack"} \subseteq Running
      BY <2>2, PipelineAssumption DEF Typed, Running
    <3>3. /\ pc["event_build"] = "done" /\ todo["event_build"] = <<>>
          /\ todo["unpack"] = <<>>
      BY <2>2, <3>2 DEF AllDone, Done
    <3>4. queue["events"] = <<>> /\ queue["good_build"] = <<>>
      BY <2>1, <2>2, <3>1, <3>2
    <3>5. ASSUME NEW q \in Queues, queue[q] = <<>>, todo[Producer(q)] = <<>>
          PROVE  Put(q) = taken[q]
      <4>1. Put(q) = taken[q] \o <<>> \o <<>>
        BY <3>5, NothingPending DEF Put, Through
      <4>2. taken[q] \in Seq(ItemsOf(q))
        BY DEF Typed, Flows
      <4> QED
        BY <4>1, <4>2
    <3>6. Pieces = taken["events"]
      BY <3>1, <3>3, <3>4, <3>5 DEF Pieces
    <3>7. unpacked["good"] = taken["good_build"]
      <4>1. "good_build" \in ToSet(GoodQueues)
        BY <2>2, BuilderReceives
      <4> QED
        BY <3>1, <3>3, <3>4, <3>5, <4>1 DEF Conserved, Received
    <3> QED
      BY <3>1, <3>6, <3>7 DEF Conserved, Built, Put
  <2> QED
    BY <2>1, <2>2 DEF Delivered
<1> QED
  BY <1>1, AlwaysConserved, PTL
=============================================================================
