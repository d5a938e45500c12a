---------------------------- MODULE SortPipeline ----------------------------
(***************************************************************************)
(* The loops of a sort and the queues between them, as SetupPipeline       *)
(* (libraries/TGRSIint/TGRSIint.cxx) wires them to read a raw file:        *)
(*                                                                         *)
(*                       +-> frag_hist                                     *)
(*                       |                                                 *)
(*   input --> unpack ---+-> frag_write       (good, bad, scaler)          *)
(*                       |                                                 *)
(*                       +-> event_build --> det_build --+-> analysis_hist *)
(*                                |                      |                 *)
(*                                +-- out of order ------+-> analysis_write*)
(*                                                                         *)
(* Each queue has one producer and one consumer, so it is a FifoChannel    *)
(* that holds MaxSize + 1 items: a Push to a full one waits.  A Pop, the   *)
(* question IsFinished after a Pop that found nothing, a Push and a        *)
(* SetFinished are a step each.  What one Iteration pushes is a list of    *)
(* calls the loop works through before it pops again.                      *)
(*                                                                         *)
(* A raw event carries one fragment, good, bad or an EPICS scaler, known   *)
(* by the number of the raw event; what TDataParser::Process makes of it   *)
(* is up to the parser library.  Fragments are built in the order they     *)
(* come (TEventBuildingLoop models the sort).                              *)
(***************************************************************************)
EXTENDS Integers, Sequences, FiniteSets, SequencesExt

CONSTANTS
    Configurations,     \* which loops run, and with which options
    MaxSize             \* max_queue_size of every queue

Loops == {"input", "unpack", "frag_hist", "frag_write", "event_build",
          "det_build", "analysis_hist", "analysis_write"}

Kinds == {"good", "bad", "scaler"}

\* Who pops from a queue.
Consumer ==
    [raw |-> "unpack", good_hist |-> "frag_hist", good_write |-> "frag_write",
     bad |-> "frag_write", scaler |-> "frag_write",
     good_build |-> "event_build", events |-> "det_build",
     det_hist |-> "analysis_hist", det_write |-> "analysis_write",
     out_of_order |-> "analysis_write"]

Queues == DOMAIN Consumer

ASSUME PipelineAssumption ==
    /\ \A c \in Configurations :
         /\ {"input", "unpack"} \subseteq c.loops /\ c.loops \subseteq Loops
         /\ "event_build" \in c.loops => "det_build" \in c.loops
         /\ c.separate \in BOOLEAN      \* --separate-out-of-order
         /\ c.early \in BOOLEAN         \* the builder may push empty events
         /\ c.rawEvents \in Nat         \* how many events the file has
    /\ MaxSize \in Nat

VARIABLES
    options,            \* the configuration of this sort
    queue,              \* the items in each queue
    finished,           \* the is_finished flag of each queue
    pc,                 \* "pop", a later point of Iteration, or "done"
    todo,               \* the calls each loop has still to make
    fNextEvent,         \* the event under construction in event_build
    hasAnything,        \* loops whose Iteration has popped something
    unpacked,           \* auxiliary: the fragments of each kind, in order
    taken,              \* auxiliary: everything popped from each queue
    raced               \* auxiliary: a loop ended with items before it

flow == <<queue, taken>>
vars == <<options, flow, finished, pc, todo, fNextEvent, hasAnything,
          unpacked, raced>>

Running == options.loops

\* The queues of the good fragments, and of the events with detectors: those
\* that some loop has asked for.
InUse(q) == IF Consumer[q] \in Running THEN <<q>> ELSE <<>>
GoodQueues == InUse("good_hist") \o InUse("good_write") \o InUse("good_build")
DetQueues  == InUse("det_hist") \o InUse("det_write")

Push(q, item)  == [call |-> "Push", to |-> q, item |-> item]
SetFinished(q) == [call |-> "SetFinished", to |-> q]

PushAll(queues, item) == [i \in DOMAIN queues |-> Push(queues[i], item)]
FinishAll(queues)     == [i \in DOMAIN queues |-> SetFinished(queues[i])]

Init ==
    /\ options \in Configurations
    /\ queue = [q \in Queues |-> <<>>]
    /\ finished = [q \in Queues |-> FALSE]
    /\ pc = [l \in Loops |-> IF l \in Running THEN "pop" ELSE "done"]
    /\ todo = [l \in Loops |-> <<>>]
    /\ fNextEvent = <<>>
    /\ hasAnything = {}
    /\ unpacked = [k \in Kinds |-> <<>>]
    /\ taken = [q \in Queues |-> <<>>]
    /\ raced = FALSE

At(l, place) == pc[l] = place /\ todo[l] = <<>>
Goto(l, place) == pc' = [pc EXCEPT ![l] = place]
Do(l, calls) == todo' = [todo EXCEPT ![l] = calls]

-----------------------------------------------------------------------------
(* The calls on the queues *)

HasRoom(q) == ~(Len(queue[q]) > MaxSize)

Call(l) ==
    /\ todo[l] # <<>>
    /\ LET next == Head(todo[l]) IN
         \/ /\ next.call = "Push"
            /\ HasRoom(next.to)
            /\ queue' = [queue EXCEPT ![next.to] = Append(@, next.item)]
            /\ UNCHANGED finished
         \/ /\ next.call = "SetFinished"
            /\ finished' = [finished EXCEPT ![next.to] = TRUE]
            /\ UNCHANGED queue
    /\ Do(l, Tail(todo[l]))
    /\ UNCHANGED <<options, pc, fNextEvent, hasAnything, unpacked, taken, raced>>

\* Pop hands over the head of queue q.
Take(q) ==
    /\ queue[q] # <<>>
    /\ queue' = [queue EXCEPT ![q] = Tail(@)]
    /\ taken' = [taken EXCEPT ![q] = Append(@, Head(queue[q]))]

\* Pop finds the queue of loop l empty, and l goes on to ask IsFinished.
FindEmpty(l, q) ==
    /\ At(l, "pop")
    /\ queue[q] = <<>>
    /\ Goto(l, "check")
    /\ UNCHANGED <<options, flow, finished, todo, fNextEvent, hasAnything,
                   unpacked, raced>>

\* Faulty: a parent whose queue is empty counts as dead.
EmptyOrDead(queues) == \A q \in queues : finished[q] \/ queue[q] = <<>>

AllParentsDead(queues) == \A q \in queues : finished[q]

\* Loop l has popped something or may still get something: another Iteration.
Continue(l, queues) ==
    /\ At(l, "check")
    /\ l \in hasAnything \/ ~AllParentsDead(queues)
    /\ hasAnything' = hasAnything \ {l}
    /\ Goto(l, "pop")
    /\ UNCHANGED <<options, flow, finished, todo, fNextEvent, unpacked, raced>>

\* Loop l has nothing and its parents have finished: it ends, with these calls.
End(l, queues, calls) ==
    /\ At(l, "check")
    /\ l \notin hasAnything
    /\ AllParentsDead(queues)
    /\ raced' = (raced \/ \E q \in queues : queue[q] # <<>>)
    /\ Goto(l, "done")
    /\ Do(l, calls)
    /\ UNCHANGED <<options, flow, finished, fNextEvent, hasAnything, unpacked>>

\* An Iteration that pops from one queue finds nothing.
PopNothing(l, q, calls) ==
    FindEmpty(l, q) \/ Continue(l, {q}) \/ End(l, {q}, calls)

-----------------------------------------------------------------------------
(* TDataLoop and TUnpackingLoop *)

EventsRead == Len(taken["raw"]) + Len(queue["raw"])

ReadEvent ==
    /\ At("input", "pop")
    /\ EventsRead < options.rawEvents
    /\ Do("input", <<Push("raw", EventsRead + 1)>>)
    /\ UNCHANGED <<options, flow, finished, pc, fNextEvent, hasAnything,
                   unpacked, raced>>

\* The file ends, NumberOfEvents have been read, or the loop is stopped: OnEnd.
EndOfInput ==
    /\ At("input", "pop")
    /\ Goto("input", "done")
    /\ Do("input", <<SetFinished("raw")>>)
    /\ UNCHANGED <<options, flow, finished, fNextEvent, hasAnything, unpacked,
                   raced>>

\* Faulty: the last loop to ask for a queue gets no fragments.
ReceiversButLast(kind) ==
    IF kind = "good" THEN Front(GoodQueues) ELSE <<kind>>

\* Where the parser pushes a fragment.
Receivers(kind) == IF kind = "good" THEN GoodQueues ELSE <<kind>>

Unpack ==
    /\ At("unpack", "pop")
    /\ Take("raw")
    /\ \E kind \in Kinds :
         /\ unpacked' = [unpacked EXCEPT ![kind] = Append(@, Head(queue["raw"]))]
         /\ Do("unpack", PushAll(Receivers(kind), Head(queue["raw"])))
    /\ UNCHANGED <<options, finished, pc, fNextEvent, hasAnything, raced>>

\* Faulty: the scaler queue is not finished.
UnpackLastCallsNoScaler == FinishAll(GoodQueues \o <<"bad", "bad">>)

\* TDataParser::SetFinished, and the two calls the loop makes itself.
UnpackLastCalls ==
    FinishAll(GoodQueues \o <<"bad", "scaler", "bad", "scaler">>)

InputStep  == ReadEvent \/ EndOfInput
UnpackStep == Unpack \/ PopNothing("unpack", "raw", UnpackLastCalls)

-----------------------------------------------------------------------------
(* TFragHistLoop and TAnalysisHistLoop *)

Histogram(l, q) ==
    /\ At(l, "pop")
    /\ Take(q)
    /\ UNCHANGED <<options, finished, pc, todo, fNextEvent, hasAnything,
                   unpacked, raced>>

HistStep(l, q) == Histogram(l, q) \/ PopNothing(l, q, <<>>)

-----------------------------------------------------------------------------
(* TFragWriteLoop *)

\* One of the Pops of an Iteration, on the way from one place to the next.
PopAnything(l, place, q, next) ==
    /\ At(l, place)
    /\ \/ Take(q) /\ hasAnything' = hasAnything \cup {l}
       \/ queue[q] = <<>> /\ UNCHANGED <<flow, hasAnything>>
    /\ Goto(l, next)
    /\ UNCHANGED <<options, finished, todo, fNextEvent, unpacked, raced>>

\* Faulty: the loop asks for the good fragments only.
FragWriteParentsGoodOnly == {"good_write"}

FragWriteParents == {"good_write", "bad", "scaler"}

FragWriteStep ==
    \/ PopAnything("frag_write", "pop", "good_write", "pop_bad")
    \/ PopAnything("frag_write", "pop_bad", "bad", "pop_scaler")
    \/ PopAnything("frag_write", "pop_scaler", "scaler", "check")
    \/ Continue("frag_write", FragWriteParents)
    \/ End("frag_write", FragWriteParents, <<>>)

-----------------------------------------------------------------------------
(* TEventBuildingLoop and TDetBuildingLoop *)

\* A fragment closes the event or not, and joins it or goes out of order; it
\* closes an event that is empty only when its window wraps, or with kSkip.
BuildEvent ==
    /\ At("event_build", "pop")
    /\ Take("good_build")
    /\ \E closes, apart \in BOOLEAN :
         LET f    == Head(queue["good_build"])
             rest == IF closes THEN <<>> ELSE fNextEvent
         IN  /\ closes => fNextEvent # <<>> \/ options.early
             /\ apart => fNextEvent # <<>> /\ options.separate
             /\ fNextEvent' = IF apart THEN rest ELSE Append(rest, f)
             /\ Do("event_build",
                   (IF closes THEN <<Push("events", fNextEvent)>> ELSE <<>>)
                     \o (IF apart THEN <<Push("out_of_order", f)>> ELSE <<>>))
    /\ UNCHANGED <<options, finished, pc, hasAnything, unpacked, raced>>

LastEvent == IF fNextEvent = <<>> THEN <<>> ELSE <<Push("events", fNextEvent)>>

\* Faulty: the queue is finished before the last event is pushed.
BuilderLastCallsSwapped == <<SetFinished("events")>> \o LastEvent

BuilderLastCalls == LastEvent \o <<SetFinished("events")>>

BuilderStep ==
    BuildEvent \/ PopNothing("event_build", "good_build", BuilderLastCalls)

\* An empty event looks like a Pop that found nothing.
BuildDetectors ==
    /\ At("det_build", "pop")
    /\ Take("events")
    /\ LET event == Head(queue["events"]) IN
       IF event = <<>>
       THEN Goto("det_build", "check") /\ UNCHANGED todo
       ELSE Do("det_build", PushAll(DetQueues, event)) /\ UNCHANGED pc
    /\ UNCHANGED <<options, finished, fNextEvent, hasAnything, unpacked, raced>>

DetectorStep ==
    \/ BuildDetectors
    \/ PopNothing("det_build", "events", FinishAll(DetQueues))

-----------------------------------------------------------------------------
(* TAnalysisWriteLoop *)

\* One fragment out of order, if there is one; it does not count as anything.
PopOutOfOrder ==
    /\ At("analysis_write", "pop_out_of_order")
    /\ Take("out_of_order") \/ (queue["out_of_order"] = <<>> /\ UNCHANGED flow)
    /\ Goto("analysis_write", "check")
    /\ UNCHANGED <<options, finished, todo, fNextEvent, hasAnything, unpacked,
                   raced>>

AnalysisWriteStep ==
    \/ PopAnything("analysis_write", "pop", "det_write",
                   IF options.separate THEN "pop_out_of_order" ELSE "check")
    \/ PopOutOfOrder
    \/ Continue("analysis_write", {"det_write"})
    \/ End("analysis_write", {"det_write"}, <<>>)

-----------------------------------------------------------------------------

Step(l) ==
    \/ Call(l)
    \/ l = "input" /\ InputStep
    \/ l = "unpack" /\ UnpackStep
    \/ l = "frag_hist" /\ HistStep(l, "good_hist")
    \/ l = "frag_write" /\ FragWriteStep
    \/ l = "event_build" /\ BuilderStep
    \/ l = "det_build" /\ DetectorStep
    \/ l = "analysis_hist" /\ HistStep(l, "det_hist")
    \/ l = "analysis_write" /\ AnalysisWriteStep

Next == \E l \in Loops : Step(l)

Spec == Init /\ [][Next]_vars

\* Each loop is a thread; the input may also have nothing to read for ever.
FairSpec == Spec /\ \A l \in Loops : WF_vars(Step(l))

-----------------------------------------------------------------------------
(* Properties *)

Numbers == 1 .. options.rawEvents

\* What is in a queue: the numbers of fragments, or lists of them, the events.
EventQueues == {"events", "det_hist", "det_write"}
ItemsOf(q) == IF q \in EventQueues THEN Seq(Numbers) ELSE Numbers

Producer(q) ==
    CASE q = "raw" -> "input"
      [] q \in {"events", "out_of_order"} -> "event_build"
      [] q \in {"det_hist", "det_write"} -> "det_build"
      [] OTHER -> "unpack"

\* A call that loop l may make.
CallOf(l, c) ==
    /\ c.to \in Queues /\ Producer(c.to) = l
    /\ c.call \in {"Push", "SetFinished"}
    /\ c.call = "Push" => c.item \in ItemsOf(c.to)

Places == {"pop", "pop_bad", "pop_scaler", "pop_out_of_order", "check", "done"}

\* Every variable holds a value of its type, loops push what belongs into the
\* queues that are theirs, and no queue holds more than MaxSize items and the
\* one that was let in.
TypeOK ==
    /\ options \in Configurations
    /\ DOMAIN queue = Queues /\ DOMAIN taken = Queues
    /\ \A q \in Queues :
         /\ queue[q] \in Seq(ItemsOf(q)) /\ taken[q] \in Seq(ItemsOf(q))
         /\ Len(queue[q]) <= MaxSize + 1
    /\ finished \in [Queues -> BOOLEAN]
    /\ pc \in [Loops -> Places]
    /\ DOMAIN todo = Loops
    /\ \A l \in Loops : \A i \in DOMAIN todo[l] : CallOf(l, todo[l][i])
    /\ fNextEvent \in Seq(Numbers)
    /\ hasAnything \subseteq Loops
    /\ unpacked \in [Kinds -> Seq(Numbers)]
    /\ raced \in BOOLEAN

\* What is still to be pushed to queue q: a list of calls has at most one item
\* for each queue.
PendingIn(calls, q) ==
    LET pushes == {i \in DOMAIN calls : calls[i].call = "Push" /\ calls[i].to = q}
    IN  IF pushes = {} THEN <<>> ELSE <<calls[CHOOSE i \in pushes : TRUE].item>>

Through(l, q) == taken[q] \o queue[q] \o PendingIn(todo[l], q)

\* The events with fragments among the first n, and: some are those of all, in
\* the same order.
FullAmong(events, n) == {i \in 1 .. n : events[i] # <<>>}
AreTheFull(some, all) ==
    /\ Len(some) = Cardinality(FullAmong(all, Len(all)))
    /\ \A i \in FullAmong(all, Len(all)) :
           some[Cardinality(FullAmong(all, i))] = all[i]

\* However slow one of them is, all receivers of a loop get the same items in
\* the same order: the fragments the parser made, and the events that have
\* fragments.
EveryReceiverGetsAll ==
    /\ \A q \in ToSet(GoodQueues) : Through("unpack", q) = unpacked["good"]
    /\ \A k \in Kinds \ {"good"} : Through("unpack", k) = unpacked[k]
    /\ \A q \in ToSet(DetQueues) :
         AreTheFull(Through("det_build", q), taken["events"])

Done(l) == pc[l] = "done" /\ todo[l] = <<>>

AllDone == \A l \in Running : Done(l)

\* Each of the fragments is in one place of one event or in one place of those
\* out of order, and nothing else is.
PlacedOnce(events, outOfOrder, fragments) ==
    /\ \A i, j \in DOMAIN events :
         \A m \in DOMAIN events[i], n \in DOMAIN events[j] :
             events[i][m] = events[j][n] => i = j /\ m = n
    /\ \A m, n \in DOMAIN outOfOrder : outOfOrder[m] = outOfOrder[n] => m = n
    /\ \A i \in DOMAIN events : ToSet(events[i]) \cap ToSet(outOfOrder) = {}
    /\ (UNION {ToSet(events[i]) : i \in DOMAIN events}) \cup ToSet(outOfOrder)
         = ToSet(fragments)

\* When all loops have ended nothing is left in a queue between two of them,
\* except fragments out of order, and every good fragment is in one event or
\* out of order -- unless a loop ended with something before it: it raced with
\* its parent's last items, or took an empty event for the end.
Delivered ==
    AllDone /\ ~raced =>
        /\ \A q \in Queues \ {"out_of_order"} :
             Consumer[q] \in Running => queue[q] = <<>>
        /\ "event_build" \in Running =>
             PlacedOnce(taken["events"], Through("event_build", "out_of_order"),
                        unpacked["good"])

\* Nothing enters a queue once it is finished, and it stays finished.
NothingAfterFinish ==
    [][\A q \in Queues : finished[q] =>
          finished'[q] /\ Len(queue'[q]) <= Len(queue[q])]_vars

\* No loop ends before the one it pops from has made its last Push, so that no
\* Push waits for ever.  Nobody finishes the queue of fragments out of order:
\* it is the two builders in between that keep the writer alive.
NoPushToTheDead ==
    \A q \in Queues :
        Consumer[q] \in Running /\ pc[Consumer[q]] = "done" =>
            /\ pc[Producer(q)] = "done"
            /\ \A i \in DOMAIN todo[Producer(q)] :
                 ~(todo[Producer(q)][i].call = "Push" /\ todo[Producer(q)][i].to = q)

\* A queue nobody pops from has filled up: bad fragments and scalers without
\* a fragment writer, fragments out of order without an analysis writer.
OrphanFull == \E q \in Queues : Consumer[q] \notin Running /\ ~HasRoom(q)

\* Once the input has ended all loops end, unless an orphan stands in the way.
PipelineEnds == pc["input"] = "done" ~> AllDone \/ OrphanFull

\* What --separate-out-of-order promises: "Write out-of-order fragments to a
\* separate tree at the sorting stage".
OutOfOrderWritten ==
    AllDone /\ ~raced /\ "analysis_write" \in Running =>
        queue["out_of_order"] = <<>>
=============================================================================
