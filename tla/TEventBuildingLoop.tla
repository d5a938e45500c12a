------------------------- MODULE TEventBuildingLoop -------------------------
(***************************************************************************)
(* The loop that sorts fragments and groups them into events               *)
(* (libraries/TLoops/TEventBuildingLoop.cxx).                              *)
(*                                                                         *)
(* One Iteration pops one fragment.  Popping and, when nothing was there,  *)
(* asking whether the parent has finished are two calls on the input       *)
(* queue, so they are two steps here and the parent may act in between.    *)
(* What Iteration does after that touches only the loop's own members and  *)
(* its output queues and belongs to the same step.                         *)
(*                                                                         *)
(* A fragment is the number of its arrival and its key: the time, the      *)
(* timestamp or the trigger id, whichever the build mode sorts by.         *)
(***************************************************************************)
EXTENDS Integers, Sequences, FiniteSets

CONSTANTS
    Configurations,     \* the build modes and flags a sort may be run with
    Keys,               \* the keys fragments may have
    BuildWindow,        \* fBuildWindow
    SortDepth,          \* fSortingDepth
    TimestampRange,     \* how many values a uint64_t has
    FragmentBound,      \* bound on the fragments the parent pushes
    ClearBound          \* bound on the fragments ClearQueue throws away

ASSUME EventAssumption ==
    /\ Configurations \subseteq
         [mode : {"time", "timestamp", "trigger", "skip"},
          static : BOOLEAN, separate : BOOLEAN, skipSort : BOOLEAN]
    /\ BuildWindow \in Nat
    /\ SortDepth \in Nat \ {0}
    /\ TimestampRange \in Nat
    /\ 2 * BuildWindow < TimestampRange
    /\ Keys \subseteq {k \in Int : -TimestampRange < 4 * k
                                   /\ 4 * k < TimestampRange}
    /\ FragmentBound \in Nat
    /\ ClearBound \in Nat

VARIABLES
    options,            \* the build mode and the flags, fixed for a sort
    fInputQueue,
    inputFinished,      \* the input queue's is_finished
    fOrdered,           \* the multiset of fragments being sorted
    fNextEvent,
    output,             \* every event pushed to fOutputQueue
    fOutOfOrder,        \* every fragment pushed to fOutOfOrderQueue
    late,               \* fragments reported to TSortingDiagnostics; the first
                        \* of them sets fPreviousSortingDepthError
    pc,                 \* "pop", "check" (nothing was popped) or "done"
    fed,                \* auxiliary: the keys of all fragments, as they came
    cleared,            \* auxiliary: fragments ClearQueue threw away
    raced               \* auxiliary: the parent pushed and finished between
                        \* a Pop that found nothing and IsFinished

builder == <<fNextEvent, output, fOutOfOrder, late>>
vars == <<options, fInputQueue, inputFinished, fOrdered, builder, pc,
          fed, cleared, raced>>

Fragments == [id : 1 .. FragmentBound, key : Keys]

Elements(s) == {s[i] : i \in DOMAIN s}

Init ==
    /\ options \in Configurations
    /\ fInputQueue = <<>>
    /\ inputFinished = FALSE
    /\ fOrdered = {}
    /\ fNextEvent = <<>>
    /\ output = <<>>
    /\ fOutOfOrder = <<>>
    /\ late = {}
    /\ pc = "pop"
    /\ fed = <<>>
    /\ cleared = {}
    /\ raced = FALSE

-----------------------------------------------------------------------------
(* The threads around the loop *)

\* The parent pushes a fragment to the input queue.
Feed(key) ==
    /\ ~inputFinished
    /\ Len(fed) < FragmentBound
    /\ fed' = Append(fed, key)
    /\ fInputQueue' = Append(fInputQueue, [id |-> Len(fed) + 1, key |-> key])
    /\ UNCHANGED <<options, inputFinished, fOrdered, builder, pc, cleared,
                   raced>>

FinishInput ==
    /\ ~inputFinished
    /\ inputFinished' = TRUE
    /\ UNCHANGED <<options, fInputQueue, fOrdered, builder, pc, fed, cleared,
                   raced>>

\* One turn of the loop in ClearQueue, which the main thread runs.
ClearQueue ==
    /\ fInputQueue # <<>>
    /\ Cardinality(cleared) < ClearBound
    /\ fInputQueue' = Tail(fInputQueue)
    /\ cleared' = cleared \cup {Head(fInputQueue)}
    /\ UNCHANGED <<options, inputFinished, fOrdered, builder, pc, fed, raced>>

-----------------------------------------------------------------------------
(* Sorting: the multiset and its comparator *)

\* Equal elements stay in the order of their insertion; a comparator that is
\* always true puts every new element in front.
Before(f, g) ==
    IF options.mode = "skip"
    THEN f.id > g.id
    ELSE f.key < g.key \/ (f.key = g.key /\ f.id < g.id)

IsFirst(f, fragments) == \A g \in fragments \ {f} : Before(f, g)

\* Faulty: the depth is off by one, one way or the other.
EnoughToSortLate(fragments) == Cardinality(fragments) > SortDepth
EnoughToSortEarly(fragments) == Cardinality(fragments) >= SortDepth - 1

EnoughToSort(fragments) == ~(Cardinality(fragments) < SortDepth)

-----------------------------------------------------------------------------
(* The build conditions *)

\* The value an operation on uint64_t yields; a timestamp is an int64_t, and
\* its sum or difference with the window leaves the range by less than once.
Wrap(n) ==
    IF n < 0 THEN n + TimestampRange
    ELSE IF n >= TimestampRange THEN n - TimestampRange
    ELSE n

\* Faulty: the two windows are swapped; an empty event starts at 0.
EventStartSwapped(f) ==
    IF fNextEvent = <<>> THEN f.key
    ELSE IF options.static /\ options.mode # "trigger"
         THEN fNextEvent[Len(fNextEvent)].key
    ELSE fNextEvent[1].key

EventStartZero(f) ==
    IF fNextEvent = <<>> THEN 0
    ELSE IF options.static \/ options.mode = "trigger" THEN fNextEvent[1].key
    ELSE fNextEvent[Len(fNextEvent)].key

\* eventStart, and currentTriggerId.
EventStart(f) ==
    IF fNextEvent = <<>> THEN f.key
    ELSE IF options.static \/ options.mode = "trigger" THEN fNextEvent[1].key
    ELSE fNextEvent[Len(fNextEvent)].key

\* Faulty: the end of the window is not part of it.
OutsideStrict(key, start) == key >= start + BuildWindow \/ key < start - BuildWindow

Outside(key, start) == key > start + BuildWindow \/ key < start - BuildWindow

OutsideTimestamp(key, start) ==
    \/ Wrap(key) > Wrap(Wrap(start) + BuildWindow)
    \/ Wrap(key) < Wrap(Wrap(start) - BuildWindow)

\* The event under construction is pushed before f is looked at.
ClosesEvent(f, start) ==
    \/ options.mode = "time" /\ Outside(f.key, start)
    \/ options.mode = "timestamp" /\ OutsideTimestamp(f.key, start)
    \/ options.mode = "trigger" /\ f.key # start
    \/ options.mode = "skip"

IsLate(f, start) ==
    \/ options.mode \in {"time", "trigger"} /\ f.key < start
    \/ options.mode = "timestamp" /\ Wrap(f.key) < Wrap(start)

\* Faulty: the pushed event is not cleared.
KeepEvent(closes) == fNextEvent

ClearEvent(closes) == IF closes THEN <<>> ELSE fNextEvent

\* CheckBuildCondition, and push_back when it returns true.
Build(f) ==
    LET start  == EventStart(f)
        closes == ClosesEvent(f, start)
        isLate == IsLate(f, start)
        apart  == isLate /\ options.separate
    IN  /\ output' = IF closes THEN Append(output, fNextEvent) ELSE output
        /\ late' = IF isLate THEN late \cup {f} ELSE late
        /\ fOutOfOrder' = IF apart THEN Append(fOutOfOrder, f) ELSE fOutOfOrder
        /\ fNextEvent' = IF apart THEN ClearEvent(closes)
                         ELSE Append(ClearEvent(closes), f)

-----------------------------------------------------------------------------
(* Iteration *)

\* Pop hands over a fragment.
PopFragment ==
    /\ pc = "pop"
    /\ fInputQueue # <<>>
    /\ fInputQueue' = Tail(fInputQueue)
    /\ UNCHANGED <<options, inputFinished, pc, fed, cleared, raced>>

\* The fragment is kept until there are enough of them to sort.
CollectFragment ==
    /\ PopFragment
    /\ ~options.skipSort
    /\ fOrdered' = fOrdered \cup {Head(fInputQueue)}
    /\ ~EnoughToSort(fOrdered')
    /\ UNCHANGED builder

\* There are enough of them: the first one is built.
SortFragment ==
    /\ PopFragment
    /\ ~options.skipSort
    /\ LET fragments == fOrdered \cup {Head(fInputQueue)} IN
       /\ EnoughToSort(fragments)
       /\ \E f \in fragments :
            /\ IsFirst(f, fragments)
            /\ fOrdered' = fragments \ {f}
            /\ Build(f)

\* With fSkipInputSort the fragment is built at once.
PassFragment ==
    /\ PopFragment
    /\ options.skipSort
    /\ Build(Head(fInputQueue))
    /\ UNCHANGED fOrdered

\* Pop finds nothing and returns.
FindEmpty ==
    /\ pc = "pop"
    /\ fInputQueue = <<>>
    /\ pc' = "check"
    /\ UNCHANGED <<options, fInputQueue, inputFinished, fOrdered, builder,
                   fed, cleared, raced>>

\* Faulty: the loop waits while it still has fragments.
ParentIsLiveOrSorting == ~inputFinished \/ fOrdered # {}

ParentIsLive == ~inputFinished

WaitForParent ==
    /\ pc = "check"
    /\ ParentIsLive
    /\ pc' = "pop"
    /\ UNCHANGED <<options, fInputQueue, inputFinished, fOrdered, builder,
                   fed, cleared, raced>>

\* The parent has finished; raced notes what the loop cannot know.
ParentIsDead ==
    /\ pc = "check"
    /\ ~ParentIsLive
    /\ raced' = (raced \/ fInputQueue # <<>>)
    /\ UNCHANGED <<options, fInputQueue, inputFinished, fed, cleared>>

BuildLeftover ==
    /\ ParentIsDead
    /\ \E f \in fOrdered :
         /\ IsFirst(f, fOrdered)
         /\ fOrdered' = fOrdered \ {f}
         /\ Build(f)
    /\ pc' = "pop"

\* Faulty: the last event is not pushed.
LastEventDropped == output

LastEvent == IF fNextEvent # <<>> THEN Append(output, fNextEvent) ELSE output

\* The last event is pushed and the output queue finished.
Finish ==
    /\ ParentIsDead
    /\ fOrdered = {}
    /\ output' = LastEvent
    /\ pc' = "done"
    /\ UNCHANGED <<fOrdered, fNextEvent, fOutOfOrder, late>>

-----------------------------------------------------------------------------

Iteration ==
    \/ CollectFragment \/ SortFragment \/ PassFragment
    \/ FindEmpty \/ WaitForParent \/ BuildLeftover \/ Finish

Next ==
    \/ \E key \in Keys : Feed(key)
    \/ FinishInput
    \/ ClearQueue
    \/ Iteration

Spec == Init /\ [][Next]_vars

\* The loop's thread runs Iteration again and again until it ends.
FairSpec == Spec /\ WF_vars(Iteration)

-----------------------------------------------------------------------------
(* Properties *)

\* Every variable holds a value of its type; the multiset never holds as many
\* fragments as the sort depth, however the input comes.
TypeOK ==
    /\ options \in Configurations
    /\ fInputQueue \in Seq(Fragments)
    /\ inputFinished \in BOOLEAN
    /\ fOrdered \in SUBSET Fragments
    /\ Cardinality(fOrdered) < SortDepth
    /\ fNextEvent \in Seq(Fragments)
    /\ output \in Seq(Seq(Fragments))
    /\ fOutOfOrder \in Seq(Fragments)
    /\ late \in SUBSET Fragments
    /\ pc \in {"pop", "check", "done"}
    /\ fed \in Seq(Keys)
    /\ Len(fed) <= FragmentBound
    /\ cleared \in SUBSET Fragments
    /\ raced \in BOOLEAN

Fed == {[id |-> i, key |-> fed[i]] : i \in DOMAIN fed}

\* The events so far: those pushed, and the one under construction, which
\* Finish pushes without clearing it.
Events ==
    IF pc = "done" \/ fNextEvent = <<>> THEN output
    ELSE Append(output, fNextEvent)

Positions(f, s) == {i \in DOMAIN s : s[i] = f}

\* Every place fragment f is in.
Places(f) ==
    ({"input"} \X Positions(f, fInputQueue))
        \cup ({"ordered"} \X (fOrdered \cap {f}))
        \cup ({"out of order"} \X Positions(f, fOutOfOrder))
        \cup ({"cleared"} \X (cleared \cap {f}))
        \cup UNION {{e} \X Positions(f, Events[e]) : e \in DOMAIN Events}

\* The loop neither loses a fragment nor builds it twice: each one is in the
\* queue, in the multiset, in one event, or with the fragments out of order.
EveryFragmentInOnePlace ==
    \A f \in Fed : Cardinality(Places(f)) = 1

\* The key the i-th fragment of event e is compared with.
Reference(e, i) ==
    IF options.static \/ options.mode = "trigger" THEN e[1].key ELSE e[i - 1].key

SameEvent(key, start) ==
    IF options.mode = "trigger" THEN key = start
    ELSE key \in start - BuildWindow .. start + BuildWindow

\* An event spans its build window and no more: with a static window every
\* fragment is close to the first, with a moving one to the one before it;
\* fragments of one trigger share its id.  This holds though the arithmetic
\* of timestamps wraps, and for fragments out of order that are not separated.
WithinWindow(e) ==
    \A i \in 2 .. Len(e) : SameEvent(e[i].key, Reference(e, i))

EventsWithinWindow ==
    /\ options.mode # "skip" => \A e \in Elements(output) : WithinWindow(e)
    /\ options.mode = "skip" => \A e \in Elements(output) : Len(e) <= 1

\* The subtraction of the window from the start of an event underflows for a
\* timestamp below the window.
Underflows(key) == options.mode = "timestamp" /\ key < BuildWindow

\* Fragments that belong together are not split, unless the start of their
\* event is so early that its window underflows, or a fragment that came late
\* has been taken out and has closed the event it was compared with.
NoNeedlessSplit ==
    options.mode # "skip" /\ (options.separate => late = {}) =>
        \A i \in 1 .. Len(Events) - 1 :
            LET event == Events[i]
                start == Reference(event, Len(event) + 1)
            IN  event # <<>> /\ ~Underflows(start)
                    => ~SameEvent(Events[i + 1][1].key, start)

\* The detector builder takes an empty event for the end of the data: there is
\* none, except in the mode that pushes before it has anything to push, and
\* where a window underflows.
NoEmptyEvent ==
    options.mode # "skip" /\ (\A i \in DOMAIN fed : ~Underflows(fed[i]))
        => \A e \in Elements(output) : e # <<>>

\* No fragment comes after as many later ones as the multiset can hold.
DepthSuffices ==
    \A i \in DOMAIN fed :
        Cardinality({j \in 1 .. i - 1 : fed[j] > fed[i]}) < SortDepth

Sorts == ~options.skipSort /\ options.mode # "skip" /\ ~raced

Ordered(e) == \A i, j \in DOMAIN e : i < j => e[i].key <= e[j].key

\* When the sort depth suffices the events come out in order, each of them in
\* order too, and no fragment counts as late.  Negative timestamps are left
\* out: the comparator orders them first, the window test takes them for huge.
SortedIfDepthSuffices ==
    Sorts /\ DepthSuffices
    /\ (options.mode = "timestamp" => \A i \in DOMAIN fed : fed[i] >= 0)
        => /\ late = {}
           /\ \A e \in Elements(Events) : Ordered(e)
           /\ \A i, j \in DOMAIN Events : i < j =>
                \A f \in Elements(Events[i]), g \in Elements(Events[j]) :
                    f.key <= g.key

\* When the loop has finished its output, everything its parent pushed is in
\* an event or out of order, unless the parent raced with the last check.
AllDelivered ==
    pc = "done" /\ ~raced =>
        /\ fInputQueue = <<>>
        /\ \A f \in Fed \ cleared :
             \/ \E e \in Elements(output) : f \in Elements(e)
             \/ f \in Elements(fOutOfOrder)

\* Once the parent has finished, the loop finishes too.
FinishesAfterParent == inputFinished ~> pc = "done"

\* What the comment at the end of Iteration says: "Parent is dead, and we have
\* passed on all events".
PassedOnAllEvents == pc = "done" => fInputQueue = <<>>
=============================================================================
