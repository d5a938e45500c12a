---------------------- MODULE TEventBuildingLoopProofs ----------------------
(***************************************************************************)
(* Proofs about TEventBuildingLoop, for any keys, window, sort depth and   *)
(* number of fragments.                                                    *)
(***************************************************************************)
EXTENDS TEventBuildingLoop, FiniteSetTheorems, TLAPS

-----------------------------------------------------------------------------
(* Types *)

\* The multiset is finite, so that its size has a meaning.
TypeInv == TypeOK /\ IsFiniteSet(fOrdered)

BuilderTyped ==
    /\ fNextEvent \in Seq(Fragments)
    /\ output \in Seq(Seq(Fragments))
    /\ fOutOfOrder \in Seq(Fragments)
    /\ late \in SUBSET Fragments

LEMMA InitTyped == Init => TypeInv
<1> SUFFICES ASSUME Init PROVE TypeInv
  OBVIOUS
<1>1. IsFiniteSet(fOrdered) /\ Cardinality(fOrdered) = 0
  BY FS_EmptySet DEF Init
<1>2. /\ fInputQueue \in Seq(Fragments) /\ fNextEvent \in Seq(Fragments)
      /\ output \in Seq(Seq(Fragments)) /\ fOutOfOrder \in Seq(Fragments)
  BY DEF Init
<1>3. fed \in Seq(Keys) /\ Len(fed) <= FragmentBound
  BY EventAssumption DEF Init
<1>4. /\ options \in Configurations /\ inputFinished \in BOOLEAN
      /\ pc \in {"pop", "check", "done"} /\ raced \in BOOLEAN
      /\ fOrdered = {} /\ late = {} /\ cleared = {}
  BY DEF Init
<1> QED
  BY <1>1, <1>2, <1>3, <1>4, EventAssumption DEF TypeInv, TypeOK

LEMMA BuildTyped ==
    ASSUME BuilderTyped, NEW f \in Fragments, Build(f)
    PROVE  BuilderTyped'
<1> DEFINE closes == ClosesEvent(f, EventStart(f))
           isLate == IsLate(f, EventStart(f))
           apart  == isLate /\ options.separate
<1>1. ClearEvent(closes) \in Seq(Fragments)
  BY DEF ClearEvent, BuilderTyped
<1> HIDE DEF closes, isLate
<1>2. /\ output' = IF closes THEN Append(output, fNextEvent) ELSE output
      /\ late' = IF isLate THEN late \cup {f} ELSE late
      /\ fOutOfOrder' = IF apart THEN Append(fOutOfOrder, f) ELSE fOutOfOrder
      /\ fNextEvent' = IF apart THEN ClearEvent(closes)
                       ELSE Append(ClearEvent(closes), f)
  BY Zenon DEF Build, closes, isLate
<1>3. fNextEvent' \in Seq(Fragments) /\ fOutOfOrder' \in Seq(Fragments)
  BY <1>1, <1>2 DEF BuilderTyped
<1>4. output' \in Seq(Seq(Fragments)) /\ late' \in SUBSET Fragments
  BY <1>2 DEF BuilderTyped
<1> QED
  BY <1>3, <1>4 DEF BuilderTyped

\* What every step that pops a fragment has in common.
LEMMA PopTyped ==
    ASSUME TypeInv, PopFragment
    PROVE  /\ Head(fInputQueue) \in Fragments
           /\ fInputQueue' \in Seq(Fragments)
           /\ options' = options /\ inputFinished' = inputFinished
           /\ pc' = pc /\ fed' = fed /\ cleared' = cleared /\ raced' = raced
           /\ LET fragments == fOrdered \cup {Head(fInputQueue)}
              IN  /\ IsFiniteSet(fragments)
                  /\ Cardinality(fragments) \in Nat
                  /\ Cardinality(fragments) <= SortDepth
<1>1. Head(fInputQueue) \in Fragments /\ fInputQueue' \in Seq(Fragments)
  BY DEF TypeInv, TypeOK, PopFragment
<1> DEFINE fragments == fOrdered \cup {Head(fInputQueue)}
<1>2. IsFiniteSet(fOrdered) /\ Cardinality(fOrdered) \in Nat
  BY FS_CardinalityType DEF TypeInv
<1>3. /\ IsFiniteSet(fragments)
      /\ \/ Cardinality(fragments) = Cardinality(fOrdered)
         \/ Cardinality(fragments) = Cardinality(fOrdered) + 1
  BY <1>2, FS_AddElement
<1>4. Cardinality(fragments) \in Nat /\ Cardinality(fragments) <= SortDepth
  BY <1>2, <1>3, EventAssumption DEF TypeInv, TypeOK
<1> QED
  BY <1>1, <1>3, <1>4 DEF PopFragment

\* Taking the first fragment out leaves room for one more.
LEMMA RemoveTyped ==
    ASSUME NEW fragments, IsFiniteSet(fragments), NEW f \in fragments,
           Cardinality(fragments) <= SortDepth
    PROVE  /\ IsFiniteSet(fragments \ {f})
           /\ Cardinality(fragments \ {f}) < SortDepth
<1>1. /\ IsFiniteSet(fragments \ {f})
      /\ Cardinality(fragments \ {f}) = Cardinality(fragments) - 1
  BY FS_RemoveElement
<1>2. Cardinality(fragments) \in Nat
  BY FS_CardinalityType
<1> QED
  BY <1>1, <1>2, EventAssumption

LEMMA IterationTyped == ASSUME TypeInv, Iteration PROVE TypeInv'
<1>0. BuilderTyped
  BY DEF TypeInv, TypeOK, BuilderTyped
<1>1. CASE CollectFragment
  <2>1. BuilderTyped'
    BY <1>0, <1>1 DEF CollectFragment, BuilderTyped, builder
  <2>2. PopFragment
    BY <1>1 DEF CollectFragment
  <2>3. /\ fOrdered' \in SUBSET Fragments
        /\ IsFiniteSet(fOrdered')
        /\ Cardinality(fOrdered') < SortDepth
    BY <1>1, <2>2, PopTyped DEF CollectFragment, EnoughToSort, TypeInv, TypeOK
  <2> QED
    BY <2>1, <2>2, <2>3, PopTyped DEF TypeInv, TypeOK, BuilderTyped
<1>2. CASE SortFragment
  <2>1. PopFragment
    BY <1>2 DEF SortFragment
  <2> DEFINE fragments == fOrdered \cup {Head(fInputQueue)}
  <2>2. PICK f \in fragments : fOrdered' = fragments \ {f} /\ Build(f)
    BY <1>2 DEF SortFragment
  <2>3. fragments \in SUBSET Fragments
    BY <2>1, PopTyped DEF TypeInv, TypeOK
  <2>4. BuilderTyped'
    BY <1>0, <2>2, <2>3, BuildTyped
  <2>5. /\ fOrdered' \in SUBSET Fragments
        /\ IsFiniteSet(fOrdered')
        /\ Cardinality(fOrdered') < SortDepth
    BY <2>1, <2>2, <2>3, PopTyped, RemoveTyped
  <2> QED
    BY <2>1, <2>4, <2>5, PopTyped DEF TypeInv, TypeOK, BuilderTyped
<1>3. CASE PassFragment
  <2>1. PopFragment /\ Build(Head(fInputQueue)) /\ fOrdered' = fOrdered
    BY <1>3 DEF PassFragment
  <2>2. BuilderTyped'
    BY <1>0, <2>1, PopTyped, BuildTyped
  <2> QED
    BY <2>1, <2>2, PopTyped DEF TypeInv, TypeOK, BuilderTyped
<1>4. CASE FindEmpty \/ WaitForParent
  BY <1>4 DEF FindEmpty, WaitForParent, builder, TypeInv, TypeOK
<1>5. CASE BuildLeftover
  <2>1. PICK f \in fOrdered : fOrdered' = fOrdered \ {f} /\ Build(f)
    BY <1>5 DEF BuildLeftover
  <2>2. BuilderTyped'
    BY <1>0, <2>1, BuildTyped DEF TypeInv, TypeOK
  <2>3. IsFiniteSet(fOrdered) /\ Cardinality(fOrdered) <= SortDepth
    <3>1. Cardinality(fOrdered) \in Nat /\ Cardinality(fOrdered) < SortDepth
      BY FS_CardinalityType DEF TypeInv, TypeOK
    <3> QED
      BY <3>1, EventAssumption DEF TypeInv
  <2>4. /\ IsFiniteSet(fOrdered \ {f})
        /\ Cardinality(fOrdered \ {f}) < SortDepth
    BY <2>1, <2>3, RemoveTyped
  <2>5. fOrdered' \in SUBSET Fragments
    BY <2>1 DEF TypeInv, TypeOK
  <2> QED
    BY <1>5, <2>1, <2>2, <2>4, <2>5
    DEF BuildLeftover, ParentIsDead, TypeInv, TypeOK, BuilderTyped
<1>6. CASE Finish
  <2>1. output' \in Seq(Seq(Fragments))
    BY <1>6 DEF Finish, LastEvent, TypeInv, TypeOK
  <2> QED
    BY <1>6, <2>1 DEF Finish, ParentIsDead, TypeInv, TypeOK
<1> QED
  BY <1>1, <1>2, <1>3, <1>4, <1>5, <1>6 DEF Iteration

LEMMA NextTyped == ASSUME TypeInv, [Next]_vars PROVE TypeInv'
<1>1. ASSUME NEW key \in Keys, Feed(key) PROVE TypeInv'
  <2>1. [id |-> Len(fed) + 1, key |-> key] \in Fragments
    BY <1>1, EventAssumption DEF Feed, TypeInv, TypeOK, Fragments
  <2>2. /\ fInputQueue' \in Seq(Fragments)
        /\ fed' \in Seq(Keys)
        /\ Len(fed') <= FragmentBound
    BY <1>1, <2>1, EventAssumption DEF Feed, TypeInv, TypeOK
  <2> QED
    BY <1>1, <2>2 DEF Feed, builder, TypeInv, TypeOK
<1>2. CASE FinishInput
  BY <1>2 DEF FinishInput, builder, TypeInv, TypeOK
<1>3. CASE ClearQueue
  <2>1. Head(fInputQueue) \in Fragments /\ fInputQueue' \in Seq(Fragments)
    BY <1>3 DEF ClearQueue, TypeInv, TypeOK
  <2> QED
    BY <1>3, <2>1 DEF ClearQueue, builder, TypeInv, TypeOK
<1>4. CASE UNCHANGED vars
  BY <1>4 DEF vars, builder, TypeInv, TypeOK
<1> QED
  BY <1>1, <1>2, <1>3, <1>4, IterationTyped DEF Next

LEMMA TypeInvariant == Spec => []TypeInv
BY InitTyped, NextTyped, PTL DEF Spec

\* The variables keep their types, and the multiset never holds as many
\* fragments as the sort depth (TEventBuildingLoop.cxx:89-93).
THEOREM TypeCorrect == Spec => []TypeOK
<1>1. TypeInv => TypeOK
  BY DEF TypeInv
<1> QED
  BY <1>1, TypeInvariant, PTL

-----------------------------------------------------------------------------
(* Windows *)

LEMMA ModeTyped ==
    ASSUME TypeInv
    PROVE  options.mode \in {"time", "timestamp", "trigger", "skip"}
BY EventAssumption DEF TypeInv, TypeOK

\* A fragment that does not close an event belongs to it, whichever way the
\* arithmetic of timestamps wraps.
LEMMA StaysWithinWindow ==
    ASSUME TypeInv, NEW f \in Fragments, NEW start \in Keys,
           options.mode # "skip", ~ClosesEvent(f, start)
    PROVE  SameEvent(f.key, start)
<1>1. /\ f.key \in Int /\ start \in Int
      /\ -TimestampRange < 4 * f.key /\ 4 * f.key < TimestampRange
      /\ -TimestampRange < 4 * start /\ 4 * start < TimestampRange
  BY EventAssumption DEF Fragments
<1>2. CASE options.mode = "trigger"
  BY <1>2 DEF ClosesEvent, SameEvent
<1>3. CASE options.mode = "time"
  BY <1>1, <1>3, EventAssumption DEF ClosesEvent, SameEvent, Outside
<1>4. CASE options.mode = "timestamp"
  <2>1. ~OutsideTimestamp(f.key, start)
    BY <1>4 DEF ClosesEvent
  <2>2. /\ f.key <= start + BuildWindow
        /\ f.key >= start - BuildWindow
    BY <1>1, <2>1, EventAssumption DEF OutsideTimestamp, Wrap
  <2> QED
    BY <1>1, <1>4, <2>2, EventAssumption DEF SameEvent
<1> QED
  BY <1>2, <1>3, <1>4, ModeTyped

\* What EventsWithinWindow says of the events pushed holds of the next one.
Fits(e) ==
    IF options.mode = "skip" THEN Len(e) <= 1 ELSE WithinWindow(e)

WindowInv ==
    /\ \A i \in DOMAIN output : Fits(output[i])
    /\ Fits(fNextEvent)

\* An event a fragment is added to stays within its window.
LEMMA AppendFits ==
    ASSUME TypeInv, NEW f \in Fragments, Fits(fNextEvent)
    PROVE  Fits(Append(ClearEvent(ClosesEvent(f, EventStart(f))), f))
<1> DEFINE closes == ClosesEvent(f, EventStart(f))
           event  == Append(ClearEvent(closes), f)
<1>1. fNextEvent \in Seq(Fragments)
  BY DEF TypeInv, TypeOK
<1>2. CASE closes \/ fNextEvent = <<>>
  <2>1. ClearEvent(closes) = <<>>
    BY <1>2 DEF ClearEvent
  <2>2. event = <<f>>
    BY <2>1
  <2> QED
    BY <2>2 DEF Fits, WithinWindow
<1>3. CASE ~closes /\ fNextEvent # <<>>
  <2>1. event = Append(fNextEvent, f) /\ options.mode # "skip"
    BY <1>3 DEF ClearEvent, ClosesEvent
  <2>2. EventStart(f) = Reference(event, Len(fNextEvent) + 1)
    BY <1>1, <1>3, <2>1 DEF EventStart, Reference
  <2>3. EventStart(f) \in Keys
    <3>1. /\ fNextEvent[1] \in Fragments
          /\ fNextEvent[Len(fNextEvent)] \in Fragments
      BY <1>1, <1>3
    <3> QED
      BY <1>3, <3>1 DEF EventStart, Fragments
  <2>4. SameEvent(f.key, EventStart(f))
    BY <1>3, <2>1, <2>3, StaysWithinWindow
  <2>5. ASSUME NEW i \in 2 .. Len(event)
        PROVE  SameEvent(event[i].key, Reference(event, i))
    <3>1. CASE i = Len(fNextEvent) + 1
      BY <1>1, <2>1, <2>2, <2>4, <3>1
    <3>2. CASE i \in 2 .. Len(fNextEvent)
      <4>1. /\ event[i] = fNextEvent[i]
            /\ Reference(event, i) = Reference(fNextEvent, i)
        BY <1>1, <2>1, <3>2 DEF Reference
      <4>2. WithinWindow(fNextEvent)
        BY <2>1 DEF Fits
      <4> QED
        BY <3>2, <4>1, <4>2 DEF WithinWindow
    <3> QED
      BY <1>1, <2>1, <3>1, <3>2
  <2> QED
    BY <2>1, <2>5 DEF Fits, WithinWindow
<1> QED
  BY <1>2, <1>3

LEMMA BuildWindowed ==
    ASSUME TypeInv, WindowInv, NEW f \in Fragments, Build(f), options' = options
    PROVE  WindowInv'
<1> DEFINE closes == ClosesEvent(f, EventStart(f))
           apart  == IsLate(f, EventStart(f)) /\ options.separate
<1>1. ASSUME NEW e PROVE Fits(e)' <=> Fits(e)
  BY DEF Fits, WithinWindow, SameEvent, Reference
<1>2. /\ output' = IF closes THEN Append(output, fNextEvent) ELSE output
      /\ fNextEvent' = IF apart THEN ClearEvent(closes)
                       ELSE Append(ClearEvent(closes), f)
  BY DEF Build
<1>3. Fits(fNextEvent) /\ \A i \in DOMAIN output : Fits(output[i])
  BY DEF WindowInv
<1>4. Fits(ClearEvent(closes))
  <2>1. Fits(<<>>)
    BY DEF Fits, WithinWindow
  <2> QED
    BY <1>3, <2>1 DEF ClearEvent
<1>5. Fits(Append(ClearEvent(closes), f))
  BY <1>3, AppendFits
<1> HIDE DEF closes, apart
<1>6. Fits(fNextEvent')
  BY <1>2, <1>4, <1>5
<1>7. ASSUME NEW i \in DOMAIN output' PROVE Fits(output'[i])
  <2>1. fNextEvent \in Seq(Fragments) /\ output \in Seq(Seq(Fragments))
    BY DEF TypeInv, TypeOK
  <2>2. output'[i] = fNextEvent \/ (i \in DOMAIN output /\ output'[i] = output[i])
    BY <1>2, <1>7, <2>1
  <2> QED
    BY <1>3, <2>2
<1> QED
  BY <1>1, <1>6, <1>7 DEF WindowInv

LEMMA NextWindowed ==
    ASSUME TypeInv, WindowInv, [Next]_vars
    PROVE  WindowInv'
<1>1. ASSUME UNCHANGED <<options, fNextEvent, output>> PROVE WindowInv'
  BY <1>1 DEF WindowInv, Fits, WithinWindow, SameEvent, Reference
<1>2. ASSUME NEW key \in Keys, Feed(key) PROVE WindowInv'
  BY <1>1, <1>2 DEF Feed, builder
<1>3. CASE FinishInput \/ ClearQueue \/ FindEmpty \/ WaitForParent \/ UNCHANGED vars
  BY <1>1, <1>3
  DEF FinishInput, ClearQueue, FindEmpty, WaitForParent, vars, builder
<1>4. CASE CollectFragment
  BY <1>1, <1>4 DEF CollectFragment, PopFragment, builder
<1>5. CASE SortFragment
  <2>1. PICK f \in fOrdered \cup {Head(fInputQueue)} : Build(f)
    BY <1>5 DEF SortFragment
  <2>2. f \in Fragments /\ options' = options
    BY <1>5, PopTyped DEF SortFragment, TypeInv, TypeOK
  <2> QED
    BY <2>1, <2>2, BuildWindowed
<1>6. CASE PassFragment
  BY <1>6, PopTyped, BuildWindowed DEF PassFragment
<1>7. CASE BuildLeftover
  <2>1. PICK f \in fOrdered : Build(f)
    BY <1>7 DEF BuildLeftover
  <2>2. f \in Fragments /\ options' = options
    BY <1>7 DEF BuildLeftover, ParentIsDead, TypeInv, TypeOK
  <2> QED
    BY <2>1, <2>2, BuildWindowed
<1>8. CASE Finish
  <2>1. output \in Seq(Seq(Fragments)) /\ fNextEvent \in Seq(Fragments)
    BY DEF TypeInv, TypeOK
  <2>2. /\ options' = options /\ fNextEvent' = fNextEvent
        /\ output' = output \/ output' = Append(output, fNextEvent)
    BY <1>8 DEF Finish, ParentIsDead, LastEvent
  <2>3. ASSUME NEW i \in DOMAIN output' PROVE Fits(output'[i])
    <3>1. \/ output'[i] = fNextEvent
          \/ i \in DOMAIN output /\ output'[i] = output[i]
      BY <2>1, <2>2, <2>3
    <3> QED
      BY <3>1 DEF WindowInv
  <2>4. ASSUME NEW e PROVE Fits(e)' <=> Fits(e)
    BY <2>2 DEF Fits, WithinWindow, SameEvent, Reference
  <2> QED
    BY <2>2, <2>3, <2>4 DEF WindowInv
<1> QED
  BY <1>2, <1>3, <1>4, <1>5, <1>6, <1>7, <1>8 DEF Next, Iteration

\* No event is wider than its build window, or mixes two triggers, whatever the
\* order of the fragments and although the start of the window may underflow
\* (TEventBuildingLoop.cxx:131-252).
THEOREM WindowCorrect == Spec => []EventsWithinWindow
<1>1. Init => WindowInv
  BY DEF Init, WindowInv, Fits, WithinWindow
<1>2. TypeInv /\ WindowInv /\ [Next]_vars => WindowInv'
  BY NextWindowed
<1>3. WindowInv => EventsWithinWindow
  BY DEF WindowInv, EventsWithinWindow, Fits, Elements
<1> QED
  BY <1>1, <1>2, <1>3, TypeInvariant, PTL DEF Spec

-----------------------------------------------------------------------------
(* Nothing is lost *)

\* The fragments that have left the sort: they are in an event, pushed or under
\* construction, or with those out of order.
Built(f) ==
    \/ \E i \in DOMAIN output : f \in Elements(output[i])
    \/ f \in Elements(fNextEvent)
    \/ f \in Elements(fOutOfOrder)

Kept(f) == f \in Elements(fInputQueue) \/ f \in fOrdered \/ f \in cleared \/ Built(f)

\* Once the loop has ended the event under construction has been pushed.
DoneInv ==
    pc = "done" =>
        /\ fOrdered = {}
        /\ inputFinished
        /\ fInputQueue = <<>> \/ raced
        /\ \A f \in Elements(fNextEvent) :
              \E i \in DOMAIN output : f \in Elements(output[i])

KeepInv == (\A f \in Fed : Kept(f)) /\ DoneInv

LEMMA ElementsAppend ==
    ASSUME NEW S, NEW s \in Seq(S), NEW x
    PROVE  Elements(Append(s, x)) = Elements(s) \cup {x}
<1>1. DOMAIN Append(s, x) = DOMAIN s \cup {Len(s) + 1}
  OBVIOUS
<1>2. Append(s, x)[Len(s) + 1] = x /\ \A i \in DOMAIN s : Append(s, x)[i] = s[i]
  OBVIOUS
<1> QED
  BY <1>1, <1>2 DEF Elements

LEMMA ElementsTail ==
    ASSUME NEW S, NEW s \in Seq(S), s # <<>>
    PROVE  Elements(s) \subseteq Elements(Tail(s)) \cup {Head(s)}
<1> SUFFICES ASSUME NEW i \in DOMAIN s
             PROVE  s[i] \in Elements(Tail(s)) \cup {Head(s)}
  BY DEF Elements
<1>1. CASE i = 1
  BY <1>1
<1>2. CASE i # 1
  <2>1. i - 1 \in DOMAIN Tail(s) /\ Tail(s)[i - 1] = s[i]
    BY <1>2
  <2> QED
    BY <2>1 DEF Elements
<1> QED
  BY <1>1, <1>2

\* Building a fragment stores it and keeps those stored before.
LEMMA BuildStores ==
    ASSUME TypeInv, NEW f \in Fragments, Build(f)
    PROVE  Built(f)' /\ \A g : Built(g) => Built(g)'
<1> DEFINE closes == ClosesEvent(f, EventStart(f))
           apart  == IsLate(f, EventStart(f)) /\ options.separate
<1>1. /\ output' = IF closes THEN Append(output, fNextEvent) ELSE output
      /\ fOutOfOrder' = IF apart THEN Append(fOutOfOrder, f) ELSE fOutOfOrder
      /\ fNextEvent' = IF apart THEN ClearEvent(closes)
                       ELSE Append(ClearEvent(closes), f)
  BY DEF Build
<1>2. /\ fNextEvent \in Seq(Fragments) /\ fOutOfOrder \in Seq(Fragments)
      /\ output \in Seq(Seq(Fragments))
      /\ ClearEvent(closes) \in Seq(Fragments)
  BY DEF TypeInv, TypeOK, ClearEvent
<1>3. ClearEvent(closes) = IF closes THEN <<>> ELSE fNextEvent
  BY DEF ClearEvent
<1> HIDE DEF closes, apart
<1>4. f \in Elements(fNextEvent') \/ f \in Elements(fOutOfOrder')
  <2>1. CASE apart
    BY <1>1, <1>2, <2>1, ElementsAppend
  <2>2. CASE ~apart
    BY <1>1, <1>2, <2>2, ElementsAppend
  <2> QED
    BY <2>1, <2>2
<1>5. Elements(fOutOfOrder) \subseteq Elements(fOutOfOrder')
  BY <1>1, <1>2, ElementsAppend
<1>6. \A i \in DOMAIN output : i \in DOMAIN output' /\ output'[i] = output[i]
  BY <1>1, <1>2
<1>7. ASSUME NEW g \in Elements(fNextEvent)
      PROVE  g \in Elements(fNextEvent') \/ \E i \in DOMAIN output' : g \in Elements(output'[i])
  <2>1. CASE closes
    <3>1. Len(output) + 1 \in DOMAIN output' /\ output'[Len(output) + 1] = fNextEvent
      BY <1>1, <1>2, <2>1
    <3> QED
      BY <1>7, <3>1
  <2>2. CASE ~closes
    <3>1. fNextEvent' = fNextEvent \/ fNextEvent' = Append(fNextEvent, f)
      BY <1>1, <1>3, <2>2
    <3> QED
      BY <1>2, <1>7, <3>1, ElementsAppend
  <2> QED
    BY <2>1, <2>2
<1>8. Elements(fNextEvent)' = Elements(fNextEvent')
      /\ Elements(fOutOfOrder)' = Elements(fOutOfOrder')
  BY DEF Elements
<1> QED
  BY <1>4, <1>5, <1>6, <1>7, <1>8 DEF Built

\* Popping moves the head of the input queue on; the rest stays.
LEMMA PopKeeps ==
    ASSUME TypeInv, PopFragment, NEW g, Kept(g)
    PROVE  \/ g \in Elements(fInputQueue') \/ g \in cleared'
           \/ g \in fOrdered \cup {Head(fInputQueue)} \/ Built(g)
<1>1. /\ fInputQueue \in Seq(Fragments) /\ fInputQueue # <<>>
      /\ fInputQueue' = Tail(fInputQueue) /\ cleared' = cleared
  BY DEF TypeInv, TypeOK, PopFragment
<1>2. Elements(fInputQueue) \subseteq Elements(Tail(fInputQueue)) \cup {Head(fInputQueue)}
  BY <1>1, ElementsTail
<1> QED
  BY <1>1, <1>2 DEF Kept

LEMMA IterationKeeps ==
    ASSUME TypeInv, KeepInv, Iteration
    PROVE  KeepInv'
<1>1. ASSUME NEW g, Kept(g) PROVE Kept(g)'
  <2>1. CASE CollectFragment
    BY <1>1, <2>1, PopKeeps DEF CollectFragment, Kept, Built, Elements, builder
  <2>2. CASE SortFragment
    <3>1. PopFragment
      BY <2>2 DEF SortFragment
    <3>2. PICK f \in fOrdered \cup {Head(fInputQueue)} :
             /\ fOrdered' = (fOrdered \cup {Head(fInputQueue)}) \ {f}
             /\ Build(f)
      BY <2>2 DEF SortFragment
    <3>3. f \in Fragments
      BY <3>1, PopTyped DEF TypeInv, TypeOK
    <3>4. Built(f)' /\ (Built(g) => Built(g)')
      BY <3>2, <3>3, BuildStores
    <3>5. CASE g \in fOrdered'
      BY <3>5 DEF Kept
    <3>6. CASE g \in Elements(fInputQueue') \/ g \in cleared'
      BY <3>6 DEF Kept, Elements
    <3>7. CASE g = f \/ Built(g)
      BY <3>4, <3>7 DEF Kept
    <3> QED
      BY <1>1, <3>1, <3>2, <3>5, <3>6, <3>7, PopKeeps
  <2>3. CASE PassFragment
    <3>1. PICK f \in Fragments : f = Head(fInputQueue) /\ Build(f)
      BY <2>3, PopTyped DEF PassFragment
    <3>2. Built(f)' /\ (Built(g) => Built(g)')
      BY <3>1, BuildStores
    <3>3. CASE g = f \/ Built(g)
      BY <3>2, <3>3 DEF Kept
    <3>4. CASE g \in fOrdered \/ g \in cleared' \/ g \in Elements(fInputQueue')
      BY <2>3, <3>4 DEF PassFragment, Kept
    <3> QED
      BY <1>1, <2>3, <3>1, <3>3, <3>4, PopKeeps DEF PassFragment
  <2>4. CASE FindEmpty \/ WaitForParent
    BY <1>1, <2>4 DEF FindEmpty, WaitForParent, Kept, Built, Elements, builder
  <2>5. CASE BuildLeftover
    <3>1. PICK f \in fOrdered : fOrdered' = fOrdered \ {f} /\ Build(f)
      BY <2>5 DEF BuildLeftover
    <3>2. Built(f)' /\ (Built(g) => Built(g)')
      BY <3>1, BuildStores DEF TypeInv, TypeOK
    <3>3. CASE g = f \/ Built(g)
      BY <3>2, <3>3 DEF Kept
    <3>4. CASE g # f /\ ~Built(g)
      BY <1>1, <2>5, <3>1, <3>4 DEF BuildLeftover, ParentIsDead, Kept, Elements
    <3> QED
      BY <3>3, <3>4
  <2>6. CASE Finish
    <3>1. output \in Seq(Seq(Fragments)) /\ fNextEvent \in Seq(Fragments)
      BY DEF TypeInv, TypeOK
    <3>2. \A i \in DOMAIN output : i \in DOMAIN output' /\ output'[i] = output[i]
      BY <2>6, <3>1 DEF Finish, LastEvent
    <3>3. Built(g) => Built(g)'
      BY <2>6, <3>2 DEF Finish, Built, Elements
    <3> QED
      BY <1>1, <2>6, <3>3 DEF Finish, ParentIsDead, Kept, Elements
  <2> QED
    BY <2>1, <2>2, <2>3, <2>4, <2>5, <2>6 DEF Iteration
<1>2. fed' = fed
  BY DEF Iteration, CollectFragment, SortFragment, PassFragment, PopFragment,
         FindEmpty, WaitForParent, BuildLeftover, Finish, ParentIsDead
<1>3. DoneInv'
  <2>1. CASE Finish
    <3>1. output \in Seq(Seq(Fragments)) /\ fNextEvent \in Seq(Fragments)
      BY DEF TypeInv, TypeOK
    <3>2. ASSUME NEW f \in Elements(fNextEvent)
          PROVE  \E i \in DOMAIN output' : f \in Elements(output'[i])
      <4>1. fNextEvent # <<>>
        BY <3>2 DEF Elements
      <4>2. /\ Len(output) + 1 \in DOMAIN output'
            /\ output'[Len(output) + 1] = fNextEvent
        BY <2>1, <3>1, <4>1 DEF Finish, LastEvent
      <4> QED
        BY <3>2, <4>2
    <3>3. /\ fOrdered' = {} /\ inputFinished' /\ fNextEvent' = fNextEvent
          /\ fInputQueue' = <<>> \/ raced'
      BY <2>1 DEF Finish, ParentIsDead, ParentIsLive, TypeInv, TypeOK
    <3> QED
      BY <3>2, <3>3 DEF DoneInv, Elements
  <2>2. CASE ~Finish
    <3>1. pc' # "done"
      BY <2>2 DEF Iteration, CollectFragment, SortFragment, PassFragment,
                  PopFragment, FindEmpty, WaitForParent, BuildLeftover
    <3> QED
      BY <3>1 DEF DoneInv
  <2> QED
    BY <2>1, <2>2
<1>4. Fed' = Fed
  BY <1>2 DEF Fed
<1> QED
  BY <1>1, <1>3, <1>4 DEF KeepInv

LEMMA NextKeeps == ASSUME TypeInv, KeepInv, [Next]_vars PROVE KeepInv'
<1>1. ASSUME NEW key \in Keys, Feed(key) PROVE KeepInv'
  <2>1. /\ fInputQueue \in Seq(Fragments) /\ fed \in Seq(Keys)
        /\ Len(fed) \in Nat
    BY DEF TypeInv, TypeOK
  <2>0. PICK new : new = [id |-> Len(fed) + 1, key |-> key]
    OBVIOUS
  <2>2. Elements(fInputQueue') = Elements(fInputQueue) \cup {new}
    BY <1>1, <2>0, <2>1, ElementsAppend DEF Feed
  <2>3. Fed' \subseteq Fed \cup {new}
    <3>1. /\ DOMAIN fed' = DOMAIN fed \cup {Len(fed) + 1}
          /\ fed'[Len(fed) + 1] = key
          /\ \A i \in DOMAIN fed : fed'[i] = fed[i]
      BY <1>1, <2>1 DEF Feed
    <3> QED
      BY <2>0, <3>1 DEF Fed
  <2>4. Kept(new)' /\ \A f : Kept(f) => Kept(f)'
    BY <1>1, <2>2 DEF Feed, Kept, Built, builder
  <2>5. DoneInv'
    BY <1>1 DEF Feed, KeepInv, DoneInv, builder
  <2>6. ASSUME NEW f \in Fed' PROVE Kept(f)'
    BY <2>3, <2>4, <2>6 DEF KeepInv
  <2> QED
    BY <2>5, <2>6 DEF KeepInv
<1>2. CASE FinishInput
  <2>1. fed' = fed /\ DoneInv'
    BY <1>2 DEF FinishInput, KeepInv, DoneInv, Elements, builder
  <2>2. \A f : Kept(f) => Kept(f)'
    BY <1>2 DEF FinishInput, Kept, Built, Elements, builder
  <2> QED
    BY <2>1, <2>2 DEF KeepInv, Fed
<1>3. CASE ClearQueue
  <2>1. /\ fInputQueue \in Seq(Fragments) /\ fInputQueue # <<>>
        /\ fInputQueue' = Tail(fInputQueue)
        /\ cleared' = cleared \cup {Head(fInputQueue)}
    BY <1>3 DEF ClearQueue, TypeInv, TypeOK
  <2>2. Elements(fInputQueue) \subseteq Elements(fInputQueue') \cup {Head(fInputQueue)}
    BY <2>1, ElementsTail
  <2>3. \A f : Kept(f) => Kept(f)'
    BY <1>3, <2>1, <2>2 DEF ClearQueue, Kept, Built, Elements, builder
  <2>4. DoneInv'
    BY <1>3, <2>1 DEF ClearQueue, KeepInv, DoneInv, builder
  <2>5. Fed' = Fed
    BY <1>3 DEF ClearQueue, Fed
  <2> QED
    BY <2>3, <2>4, <2>5 DEF KeepInv
<1>4. CASE UNCHANGED vars
  <2>1. fed' = fed /\ DoneInv' /\ \A f : Kept(f) => Kept(f)'
    BY <1>4 DEF vars, builder, KeepInv, DoneInv, Kept, Built, Elements
  <2> QED
    BY <2>1 DEF KeepInv, Fed
<1> QED
  BY <1>1, <1>2, <1>3, <1>4, IterationKeeps DEF Next

\* When the loop ends, every fragment its parent pushed is in an event or with
\* those out of order, unless the parent raced with the loop's last look at its
\* queue (TEventBuildingLoop.cxx:97-110).
THEOREM Delivered == Spec => []AllDelivered
<1>1. Init => KeepInv
  BY DEF Init, KeepInv, DoneInv, Fed
<1>2. TypeInv /\ KeepInv /\ [Next]_vars => KeepInv'
  BY NextKeeps
<1>3. TypeInv /\ KeepInv => AllDelivered
  <2> SUFFICES ASSUME KeepInv, pc = "done", ~raced, NEW f \in Fed \ cleared
               PROVE  /\ fInputQueue = <<>>
                      /\ \/ \E e \in Elements(output) : f \in Elements(e)
                         \/ f \in Elements(fOutOfOrder)
    BY DEF AllDelivered, KeepInv, DoneInv
  <2>1. fInputQueue = <<>> /\ fOrdered = {}
    BY DEF KeepInv, DoneInv
  <2>2. Built(f)
    BY <2>1 DEF KeepInv, Kept, Elements
  <2> QED
    BY <2>1, <2>2 DEF KeepInv, DoneInv, Built, Elements
<1> QED
  BY <1>1, <1>2, <1>3, TypeInvariant, PTL DEF Spec

-----------------------------------------------------------------------------
(* What a step does to the events *)

\* A step leaves the builder's variables alone, builds a fragment it holds, or
\* is the last one.
LEMMA StepCases ==
    ASSUME TypeInv, [Next]_vars
    PROVE  \/ /\ UNCHANGED <<options, builder>>
              /\ fed' = fed \/ \E key \in Keys : fed' = Append(fed, key)
              /\ pc' = pc \/ (pc # "done" /\ pc' # "done")
           \/ /\ \E f \in fOrdered \cup Elements(fInputQueue) : f \in Fragments /\ Build(f)
              /\ UNCHANGED <<options, fed>>
              /\ pc # "done" /\ pc' # "done"
           \/ Finish
<1>1. ASSUME fInputQueue # <<>>, fInputQueue \in Seq(Fragments)
      PROVE  Head(fInputQueue) \in Elements(fInputQueue)
  BY <1>1 DEF Elements
<1>2. fInputQueue \in Seq(Fragments) /\ fOrdered \subseteq Fragments
  BY DEF TypeInv, TypeOK
<1>3. CASE CollectFragment
  BY <1>3 DEF CollectFragment, PopFragment
<1>4. CASE SortFragment
  <2>1. PICK f \in fOrdered \cup {Head(fInputQueue)} : Build(f)
    BY <1>4 DEF SortFragment
  <2>2. PopFragment
    BY <1>4 DEF SortFragment
  <2> QED
    BY <1>1, <1>2, <2>1, <2>2, PopTyped DEF PopFragment
<1>5. CASE PassFragment
  BY <1>1, <1>2, <1>5, PopTyped DEF PassFragment, PopFragment
<1>6. CASE BuildLeftover
  BY <1>2, <1>6 DEF BuildLeftover, ParentIsDead
<1>7. CASE (\E key \in Keys : Feed(key)) \/ FinishInput \/ ClearQueue \/ UNCHANGED vars
  BY <1>7 DEF Feed, FinishInput, ClearQueue, vars, builder
<1>8. CASE FindEmpty \/ WaitForParent
  BY <1>8 DEF FindEmpty, WaitForParent, builder
<1> QED
  BY <1>3, <1>4, <1>5, <1>6, <1>7, <1>8 DEF Next, Iteration

\* What Build does to the events, without the definition of its conditions.
LEMMA BuildShape ==
    ASSUME TypeInv, NEW f \in Fragments, Build(f)
    PROVE  LET start  == EventStart(f)
               closes == ClosesEvent(f, start)
               apart  == IsLate(f, start) /\ options.separate
           IN  /\ closes => output' = Append(output, fNextEvent)
               /\ ~closes => output' = output
               /\ apart /\ closes => fNextEvent' = <<>>
               /\ apart /\ ~closes => fNextEvent' = fNextEvent
               /\ ~apart /\ closes => fNextEvent' = <<f>>
               /\ ~apart /\ ~closes => fNextEvent' = Append(fNextEvent, f)
               /\ apart => fOutOfOrder' = Append(fOutOfOrder, f)
               /\ ~apart => fOutOfOrder' = fOutOfOrder
               /\ IsLate(f, start) => late' = late \cup {f}
               /\ ~IsLate(f, start) => late' = late
<1> DEFINE closes == ClosesEvent(f, EventStart(f))
           isLate == IsLate(f, EventStart(f))
           apart  == isLate /\ options.separate
           rest   == ClearEvent(closes)
<1>1. (closes => rest = <<>>) /\ (~closes => rest = fNextEvent)
  BY DEF ClearEvent
<1>2. /\ output' = IF closes THEN Append(output, fNextEvent) ELSE output
      /\ late' = IF isLate THEN late \cup {f} ELSE late
      /\ fOutOfOrder' = IF apart THEN Append(fOutOfOrder, f) ELSE fOutOfOrder
      /\ fNextEvent' = IF apart THEN rest ELSE Append(rest, f)
  BY Zenon DEF Build
<1> HIDE DEF closes, isLate, apart, rest
<1>3. /\ closes => output' = Append(output, fNextEvent)
      /\ ~closes => output' = output
      /\ isLate => late' = late \cup {f}
      /\ ~isLate => late' = late
      /\ apart => fOutOfOrder' = Append(fOutOfOrder, f)
      /\ ~apart => fOutOfOrder' = fOutOfOrder
  BY <1>2
<1>4. /\ apart /\ closes => fNextEvent' = <<>>
      /\ apart /\ ~closes => fNextEvent' = fNextEvent
      /\ ~apart /\ closes => fNextEvent' = <<f>>
      /\ ~apart /\ ~closes => fNextEvent' = Append(fNextEvent, f)
  <2>1. Append(<<>>, f) = <<f>>
    OBVIOUS
  <2> QED
    BY <1>1, <1>2, <2>1
<1> QED
  BY <1>3, <1>4 DEF closes, isLate, apart

-----------------------------------------------------------------------------
(* Where the fragments come from *)

\* A fragment that waits to be built is one the parent pushed.
KnownInv == fOrdered \cup Elements(fInputQueue) \subseteq Fed

LEMMA FedGrows ==
    ASSUME TypeInv, NEW key \in Keys, fed' = Append(fed, key)
    PROVE  /\ Fed' = Fed \cup {[id |-> Len(fed) + 1, key |-> key]}
           /\ Fed \subseteq Fed'
<1>1. fed \in Seq(Keys)
  BY DEF TypeInv, TypeOK
<1>2. /\ DOMAIN fed' = DOMAIN fed \cup {Len(fed) + 1}
      /\ fed'[Len(fed) + 1] = key
      /\ \A i \in DOMAIN fed : fed'[i] = fed[i]
  BY <1>1
<1> QED
  BY <1>2 DEF Fed

LEMMA InitKnown == Init => KnownInv
  BY DEF Init, KnownInv, Elements

LEMMA NextKnown == TypeInv /\ KnownInv /\ [Next]_vars => KnownInv'
<1> SUFFICES ASSUME TypeInv, KnownInv, [Next]_vars PROVE KnownInv'
  OBVIOUS
<1>1. fInputQueue \in Seq(Fragments)
  BY DEF TypeInv, TypeOK
<1>2. ASSUME fInputQueue # <<>>
      PROVE  /\ Head(fInputQueue) \in Elements(fInputQueue)
             /\ Elements(Tail(fInputQueue)) \subseteq Elements(fInputQueue)
  <2>1. /\ Head(fInputQueue) = fInputQueue[1] /\ 1 \in DOMAIN fInputQueue
        /\ \A i \in DOMAIN Tail(fInputQueue) :
             i + 1 \in DOMAIN fInputQueue /\ Tail(fInputQueue)[i] = fInputQueue[i + 1]
    BY <1>1, <1>2
  <2> QED
    BY <2>1 DEF Elements
<1>3. ASSUME NEW key \in Keys, Feed(key) PROVE KnownInv'
  <2> DEFINE new == [id |-> Len(fed) + 1, key |-> key]
  <2>1. fInputQueue' = Append(fInputQueue, new) /\ fOrdered' = fOrdered
    BY <1>3 DEF Feed
  <2>2. Fed' = Fed \cup {new}
    BY <1>3, FedGrows DEF Feed
  <2> HIDE DEF new
  <2>3. Elements(fInputQueue') = Elements(fInputQueue) \cup {new}
    BY <1>1, <2>1, ElementsAppend
  <2> QED
    BY <2>1, <2>2, <2>3 DEF KnownInv, Elements
<1>4. CASE ClearQueue
  BY <1>2, <1>4 DEF ClearQueue, KnownInv, Fed, Elements
<1>5. ASSUME PopFragment, fOrdered' \subseteq fOrdered \cup {Head(fInputQueue)}
      PROVE  KnownInv'
  BY <1>2, <1>5 DEF PopFragment, KnownInv, Fed, Elements
<1>6. CASE CollectFragment \/ PassFragment \/ SortFragment
  BY <1>5, <1>6 DEF CollectFragment, PassFragment, SortFragment
<1>7. CASE BuildLeftover
  BY <1>7 DEF BuildLeftover, ParentIsDead, KnownInv, Fed, Elements
<1>8. CASE FinishInput \/ FindEmpty \/ WaitForParent \/ Finish \/ UNCHANGED vars
  BY <1>8 DEF FinishInput, FindEmpty, WaitForParent, Finish, ParentIsDead, vars,
              KnownInv, Fed, Elements
<1> QED
  BY <1>3, <1>4, <1>6, <1>7, <1>8 DEF Next, Iteration

LEMMA KnownInvariant == Spec => [](TypeInv /\ KnownInv)
  BY InitKnown, NextKnown, TypeInvariant, PTL DEF Spec

-----------------------------------------------------------------------------
(* No empty events *)

SafeKeys == options.mode # "skip" /\ \A i \in DOMAIN fed : ~Underflows(fed[i])

\* An event with nothing in it is not closed.
LEMMA EmptyStaysOpen ==
    ASSUME TypeInv, NEW f \in Fragments, options.mode # "skip",
           ~Underflows(f.key), fNextEvent = <<>>
    PROVE  ~ClosesEvent(f, EventStart(f))
<1>1. EventStart(f) = f.key
  BY DEF EventStart
<1>2. /\ f.key \in Int
      /\ -TimestampRange < 4 * f.key /\ 4 * f.key < TimestampRange
  BY EventAssumption DEF Fragments
<1>3. CASE options.mode = "time"
  BY <1>1, <1>2, <1>3, EventAssumption DEF ClosesEvent, Outside
<1>4. CASE options.mode = "trigger"
  BY <1>1, <1>4 DEF ClosesEvent
<1>5. CASE options.mode = "timestamp"
  <2>1. f.key >= BuildWindow
    BY <1>2, <1>5, EventAssumption DEF Underflows
  <2>2. ~OutsideTimestamp(f.key, f.key)
    BY <1>2, <2>1, EventAssumption DEF OutsideTimestamp, Wrap
  <2> QED
    BY <1>1, <1>5, <2>2 DEF ClosesEvent
<1> QED
  BY <1>3, <1>4, <1>5, ModeTyped

LEMMA NextNotEmpty ==
    TypeInv /\ KnownInv /\ NoEmptyEvent /\ [Next]_vars => NoEmptyEvent'
<1> SUFFICES ASSUME TypeInv, KnownInv, NoEmptyEvent, [Next]_vars PROVE NoEmptyEvent'
  OBVIOUS
<1>0. /\ fed \in Seq(Keys) /\ output \in Seq(Seq(Fragments))
      /\ fNextEvent \in Seq(Fragments)
  BY DEF TypeInv, TypeOK
<1>1. ASSUME UNCHANGED <<options, builder>>,
             fed' = fed \/ \E key \in Keys : fed' = Append(fed, key)
      PROVE  NoEmptyEvent'
  <2>1. \A i \in DOMAIN fed : i \in DOMAIN fed' /\ fed'[i] = fed[i]
    <3>1. ASSUME NEW key \in Keys, fed' = Append(fed, key)
          PROVE  \A i \in DOMAIN fed : i \in DOMAIN fed' /\ fed'[i] = fed[i]
      BY <1>0, <3>1
    <3> QED
      BY <1>1, <3>1
  <2>2. output' = output /\ options' = options
    BY <1>1 DEF builder
  <2> QED
    BY <2>1, <2>2 DEF NoEmptyEvent, Underflows, Elements
<1>2. ASSUME NEW f \in fOrdered \cup Elements(fInputQueue), f \in Fragments, Build(f),
             UNCHANGED <<options, fed>>
      PROVE  NoEmptyEvent'
  <2> SUFFICES ASSUME SafeKeys PROVE \A e \in Elements(output') : e # <<>>
    BY <1>2 DEF NoEmptyEvent, SafeKeys, Underflows, Elements
  <2>1. \E i \in DOMAIN fed : f.key = fed[i]
    BY <1>2 DEF KnownInv, Fed
  <2>2. ~Underflows(f.key)
    BY <2>1 DEF SafeKeys
  <2>3. ASSUME ClosesEvent(f, EventStart(f)) PROVE fNextEvent # <<>>
    BY <1>2, <2>2, <2>3, EmptyStaysOpen DEF SafeKeys
  <2>4. output' = output \/ (output' = Append(output, fNextEvent) /\ fNextEvent # <<>>)
    BY <1>2, <2>3, BuildShape
  <2>5. Elements(output') \subseteq Elements(output) \cup {e \in {fNextEvent} : e # <<>>}
    BY <1>0, <2>4, ElementsAppend
  <2> QED
    BY <2>5 DEF NoEmptyEvent, SafeKeys
<1>3. CASE Finish
  <2>1. /\ UNCHANGED <<options, fed>>
        /\ output' = output \/ (output' = Append(output, fNextEvent) /\ fNextEvent # <<>>)
    BY <1>3 DEF Finish, ParentIsDead, LastEvent
  <2>2. Elements(output') \subseteq Elements(output) \cup {e \in {fNextEvent} : e # <<>>}
    BY <1>0, <2>1, ElementsAppend
  <2> QED
    BY <2>1, <2>2 DEF NoEmptyEvent, Underflows, Elements
<1> QED
  BY <1>1, <1>2, <1>3, StepCases

\* No event is empty unless its window underflows, or in the mode that pushes
\* first (TEventBuildingLoop.cxx:141-252): the detector builder would take it
\* for the end of the data.
THEOREM NeverEmpty == Spec => []NoEmptyEvent
<1>1. Init => NoEmptyEvent
  BY DEF Init, NoEmptyEvent, Elements
<1> QED
  BY <1>1, NextNotEmpty, KnownInvariant, PTL DEF Spec

-----------------------------------------------------------------------------
(* No needless split *)

NothingTakenOut == options.mode # "skip" /\ (options.separate => late = {})

\* Event next does not begin with a fragment that belongs to event e.
Tight(e, next) ==
    LET start == Reference(e, Len(e) + 1)
    IN  e # <<>> /\ ~Underflows(start) => ~SameEvent(next[1].key, start)

\* The builder holds an event from the first fragment on.
SplitInv ==
    NothingTakenOut =>
        /\ \A i \in 1 .. Len(Events) - 1 : Tight(Events[i], Events[i + 1])
        /\ fNextEvent = <<>> => output = <<>>

\* A fragment that closes an event does not belong to it.
LEMMA ClosesOutside ==
    ASSUME TypeInv, NEW f \in Fragments, NEW start \in Keys,
           options.mode # "skip", ClosesEvent(f, start), ~Underflows(start)
    PROVE  ~SameEvent(f.key, start)
<1>1. /\ f.key \in Int /\ start \in Int
      /\ -TimestampRange < 4 * f.key /\ 4 * f.key < TimestampRange
      /\ -TimestampRange < 4 * start /\ 4 * start < TimestampRange
  BY EventAssumption DEF Fragments
<1>2. CASE options.mode = "trigger"
  BY <1>2 DEF ClosesEvent, SameEvent
<1>3. CASE options.mode = "time"
  BY <1>1, <1>3, EventAssumption DEF ClosesEvent, SameEvent, Outside
<1>4. CASE options.mode = "timestamp"
  <2>1. start >= BuildWindow /\ OutsideTimestamp(f.key, start)
    BY <1>1, <1>4, EventAssumption DEF ClosesEvent, Underflows
  <2>2. f.key > start + BuildWindow \/ f.key < start - BuildWindow
    BY <1>1, <2>1, EventAssumption DEF OutsideTimestamp, Wrap
  <2> QED
    BY <1>1, <1>4, <2>2, EventAssumption DEF SameEvent
<1> QED
  BY <1>2, <1>3, <1>4, ModeTyped

\* The fragment that closes an event is compared with its reference.
LEMMA NextIsTight ==
    ASSUME TypeInv, NEW f \in Fragments, options.mode # "skip",
           fNextEvent # <<>>, ClosesEvent(f, EventStart(f))
    PROVE  Tight(fNextEvent, <<f>>)
<1>1. fNextEvent \in Seq(Fragments) /\ Len(fNextEvent) \in 1 .. Len(fNextEvent)
  BY DEF TypeInv, TypeOK
<1>2. EventStart(f) = Reference(fNextEvent, Len(fNextEvent) + 1)
  BY <1>1 DEF EventStart, Reference
<1>3. EventStart(f) \in Keys
  <2>1. fNextEvent[1] \in Fragments /\ fNextEvent[Len(fNextEvent)] \in Fragments
    BY <1>1
  <2> QED
    BY <2>1 DEF EventStart, Fragments
<1>4. ~Underflows(EventStart(f)) => ~SameEvent(f.key, EventStart(f))
  BY <1>3, ClosesOutside
<1>5. <<f>>[1] = f
  OBVIOUS
<1> QED
  BY <1>2, <1>4, <1>5 DEF Tight

LEMMA BuildTight ==
    ASSUME TypeInv, SplitInv, NEW f \in Fragments, Build(f),
           UNCHANGED options, pc # "done", pc' # "done"
    PROVE  SplitInv'
<1> DEFINE closes == ClosesEvent(f, EventStart(f))
<1>0. fNextEvent \in Seq(Fragments) /\ output \in Seq(Seq(Fragments))
  BY DEF TypeInv, TypeOK
<1>1. \A e, next : Tight(e, next)' <=> Tight(e, next)
  BY DEF Tight, Reference, Underflows, SameEvent
<1>2. SUFFICES ASSUME NothingTakenOut'
               PROVE  /\ \A i \in 1 .. Len(Events') - 1 : Tight(Events'[i], Events'[i + 1])
                      /\ fNextEvent' = <<>> => output' = <<>>
  BY <1>1 DEF SplitInv
<1>3. NothingTakenOut /\ ~(IsLate(f, EventStart(f)) /\ options.separate)
  BY <1>2, BuildShape DEF NothingTakenOut
<1>4. /\ closes => output' = Append(output, fNextEvent) /\ fNextEvent' = <<f>>
      /\ ~closes => output' = output /\ fNextEvent' = Append(fNextEvent, f)
  BY <1>3, BuildShape
<1> HIDE DEF closes
<1>5. fNextEvent' # <<>>
  <2>1. <<f>> # <<>> /\ Append(fNextEvent, f) # <<>>
    BY <1>0
  <2> QED
    BY <1>4, <2>1
<1>6. Events' = Append(output', fNextEvent')
  BY <1>5 DEF Events
<1>7. /\ \A i \in 1 .. Len(Events) - 1 : Tight(Events[i], Events[i + 1])
      /\ fNextEvent = <<>> => output = <<>>
  BY <1>3 DEF SplitInv
<1>8. CASE fNextEvent = <<>>
  <2>1. output = <<>>
    BY <1>7, <1>8
  <2>2. CASE closes
    <3>1. output' = <<fNextEvent>> /\ fNextEvent \in Seq(Fragments)
      BY <1>0, <1>4, <2>1, <2>2
    <3>2. Len(Events') = 2 /\ Events'[1] = fNextEvent
      BY <1>6, <3>1
    <3>3. \A i \in 1 .. Len(Events') - 1 : Events'[i] = <<>>
      BY <1>8, <3>2
    <3> QED
      BY <1>5, <3>3 DEF Tight
  <2>3. CASE ~closes
    <3>1. Len(Events') = 1
      BY <1>4, <1>6, <2>1, <2>3
    <3> QED
      BY <1>5, <3>1
  <2> QED
    BY <2>2, <2>3
<1>9. CASE fNextEvent # <<>>
  <2>1. Events = Append(output, fNextEvent)
    BY <1>9 DEF Events
  <2>2. CASE closes
    <3>1. Events' = Append(Events, <<f>>) /\ Events \in Seq(Seq(Fragments))
      BY <1>0, <1>4, <1>6, <2>1, <2>2
    <3>2. Tight(fNextEvent, <<f>>)
      BY <1>3, <1>9, <2>2, NextIsTight DEF NothingTakenOut, closes
    <3>3. /\ Events[Len(Events)] = fNextEvent /\ Events'[Len(Events) + 1] = <<f>>
          /\ Len(Events') = Len(Events) + 1
          /\ \A i \in 1 .. Len(Events) : Events'[i] = Events[i]
      BY <1>0, <2>1, <3>1
    <3>4. ASSUME NEW i \in 1 .. Len(Events') - 1
          PROVE  Tight(Events'[i], Events'[i + 1])
      <4>1. CASE i = Len(Events)
        BY <3>1, <3>2, <3>3, <4>1
      <4>2. CASE i \in 1 .. Len(Events) - 1
        BY <1>7, <3>1, <3>3, <4>2
      <4> QED
        BY <3>1, <3>3, <3>4, <4>1, <4>2
    <3> QED
      BY <1>5, <3>4
  <2>3. CASE ~closes
    <3>1. Events' = Append(output, Append(fNextEvent, f))
      BY <1>4, <1>6, <2>3
    <3>2. /\ Len(Events') = Len(Events) /\ Len(Events) = Len(output) + 1
          /\ \A i \in 1 .. Len(output) : Events'[i] = Events[i]
          /\ Events[Len(output) + 1] = fNextEvent
          /\ Events'[Len(output) + 1] = Append(fNextEvent, f)
      BY <1>0, <2>1, <3>1
    <3>3. Append(fNextEvent, f)[1] = fNextEvent[1]
      BY <1>0, <1>9
    <3>4. ASSUME NEW i \in 1 .. Len(Events') - 1
          PROVE  Tight(Events'[i], Events'[i + 1])
      <4>1. i \in 1 .. Len(output) /\ Len(output) \in Nat
        BY <1>0, <3>2, <3>4
      <4>2. Tight(Events[i], Events[i + 1]) /\ Events'[i] = Events[i]
        BY <1>7, <3>2, <4>1
      <4>3. Events'[i + 1][1] = Events[i + 1][1]
        <5>1. CASE i = Len(output)
          BY <3>2, <3>3, <5>1
        <5>2. CASE i # Len(output)
          <6>1. i + 1 \in 1 .. Len(output)
            BY <4>1, <5>2
          <6> QED
            BY <3>2, <6>1
        <5> QED
          BY <5>1, <5>2
      <4> QED
        BY <4>2, <4>3 DEF Tight
    <3> QED
      BY <1>5, <3>4
  <2> QED
    BY <2>2, <2>3
<1> QED
  BY <1>8, <1>9

LEMMA NextSplits == TypeInv /\ SplitInv /\ [Next]_vars => SplitInv'
<1> SUFFICES ASSUME TypeInv, SplitInv, [Next]_vars PROVE SplitInv'
  OBVIOUS
<1>0. options' = options => \A e, next : Tight(e, next)' <=> Tight(e, next)
  BY DEF Tight, Reference, Underflows, SameEvent
<1>1. CASE UNCHANGED <<options, builder>> /\ (pc' = pc \/ (pc # "done" /\ pc' # "done"))
  <2>1. /\ Events' = Events /\ options' = options /\ fNextEvent' = fNextEvent
        /\ output' = output /\ late' = late
    BY <1>1 DEF Events, builder
  <2> QED
    BY <1>0, <2>1 DEF SplitInv, NothingTakenOut
<1>2. CASE Finish
  <2>1. /\ pc = "check" /\ pc' = "done" /\ options' = options /\ late' = late
        /\ fNextEvent' = fNextEvent /\ output' = LastEvent
    BY <1>2 DEF Finish, ParentIsDead
  <2>2. Events' = Events /\ (fNextEvent = <<>> => output' = output)
    BY <2>1 DEF Events, LastEvent
  <2> QED
    BY <1>0, <2>1, <2>2 DEF SplitInv, NothingTakenOut
<1> QED
  BY <1>1, <1>2, StepCases, BuildTight

\* Fragments that belong together are in one event, unless the start of its
\* window underflows or a late fragment that was taken out closed it.
THEOREM NeverSplit == Spec => []NoNeedlessSplit
<1>1. Init => SplitInv
  BY DEF Init, SplitInv, Events
<1>2. SplitInv => NoNeedlessSplit
  BY DEF SplitInv, NoNeedlessSplit, NothingTakenOut, Tight
<1> QED
  BY <1>1, <1>2, NextSplits, TypeInvariant, PTL DEF Spec

-----------------------------------------------------------------------------
(* Every fragment in one place *)

Unique(s) == \A i, j \in DOMAIN s : s[i] = s[j] => i = j

\* No fragment is twice in a list of events, or in one of them.
FlatUnique(events) ==
    \A d, e \in DOMAIN events : \A i \in DOMAIN events[d], j \in DOMAIN events[e] :
        events[d][i] = events[e][j] => d = e /\ i = j

InSome(f, events) == \E e \in DOMAIN events : f \in Elements(events[e])

Out(f) == f \in Elements(fOutOfOrder) \/ InSome(f, Events)

AtMostOnePlace(f) ==
    /\ f \in Elements(fInputQueue) => f \notin fOrdered /\ f \notin cleared /\ ~Out(f)
    /\ f \in fOrdered => f \notin cleared /\ ~Out(f)
    /\ f \in cleared => ~Out(f)
    /\ f \in Elements(fOutOfOrder) => ~InSome(f, Events)

PlaceInv ==
    /\ Unique(fInputQueue) /\ Unique(fOutOfOrder) /\ FlatUnique(Events)
    /\ \A f : AtMostOnePlace(f)
    /\ \A f : f \in Elements(fInputQueue) \/ f \in fOrdered \/ f \in cleared \/ Out(f)
                => f \in Fed

LEMMA AppendUnique ==
    ASSUME NEW S, NEW s \in Seq(S), NEW f, Unique(s), f \notin Elements(s)
    PROVE  Unique(Append(s, f))
<1>1. /\ DOMAIN Append(s, f) = DOMAIN s \cup {Len(s) + 1}
      /\ Append(s, f)[Len(s) + 1] = f
      /\ \A i \in DOMAIN s : Append(s, f)[i] = s[i]
  OBVIOUS
<1> QED
  BY <1>1 DEF Unique, Elements

LEMMA TailUnique ==
    ASSUME NEW S, NEW s \in Seq(S), s # <<>>, Unique(s)
    PROVE  /\ Unique(Tail(s)) /\ Head(s) \notin Elements(Tail(s))
           /\ Elements(s) = Elements(Tail(s)) \cup {Head(s)}
<1>1. /\ Head(s) = s[1] /\ 1 \in DOMAIN s
      /\ \A i \in DOMAIN Tail(s) :
           i + 1 \in DOMAIN s /\ i + 1 # 1 /\ Tail(s)[i] = s[i + 1]
  OBVIOUS
<1>2. \A i, j \in DOMAIN Tail(s) : i + 1 = j + 1 => i = j
  OBVIOUS
<1>3. Unique(Tail(s))
  BY <1>1, <1>2 DEF Unique
<1>4. Head(s) \notin Elements(Tail(s)) /\ Head(s) \in Elements(s)
  BY <1>1 DEF Unique, Elements
<1>5. Elements(Tail(s)) \subseteq Elements(s)
  BY <1>1 DEF Elements
<1> QED
  BY <1>3, <1>4, <1>5, ElementsTail

\* A new event with a fragment that is in none, or with nothing.
LEMMA AppendEvent ==
    ASSUME NEW S, NEW events \in Seq(Seq(S)), NEW f, NEW x \in {<<>>, <<f>>},
           FlatUnique(events), ~InSome(f, events)
    PROVE  /\ FlatUnique(Append(events, x))
           /\ \A g : InSome(g, Append(events, x)) <=>
                        InSome(g, events) \/ g \in Elements(x)
<1> DEFINE n == Len(events) + 1
<1>1. /\ DOMAIN Append(events, x) = DOMAIN events \cup {n}
      /\ Append(events, x)[n] = x /\ n \notin DOMAIN events
      /\ \A e \in DOMAIN events : Append(events, x)[e] = events[e]
  OBVIOUS
<1> HIDE DEF n
<1>2. \A i \in DOMAIN x : i = 1 /\ x[i] = f
  OBVIOUS
<1>3. \A g : InSome(g, Append(events, x)) <=> InSome(g, events) \/ g \in Elements(x)
  BY <1>1 DEF InSome
<1>4. \A e \in DOMAIN events : \A i \in DOMAIN events[e] : events[e][i] # f
  BY DEF InSome, Elements
<1> QED
  BY <1>1, <1>2, <1>3, <1>4 DEF FlatUnique

\* A fragment that is in none joins the last event.
LEMMA AppendToEvent ==
    ASSUME NEW S, NEW events \in Seq(Seq(S)), NEW s \in Seq(S), NEW f,
           FlatUnique(Append(events, s)), ~InSome(f, Append(events, s))
    PROVE  /\ FlatUnique(Append(events, Append(s, f)))
           /\ \A g : InSome(g, Append(events, Append(s, f))) <=>
                        InSome(g, Append(events, s)) \/ g = f
<1> DEFINE n   == Len(events) + 1
           old == Append(events, s)
           new == Append(events, Append(s, f))
           m   == Len(s) + 1
<1>1. /\ DOMAIN old = DOMAIN events \cup {n} /\ DOMAIN new = DOMAIN old
      /\ old[n] = s /\ new[n] = Append(s, f) /\ n \notin DOMAIN events
      /\ \A e \in DOMAIN events : old[e] = events[e] /\ new[e] = events[e]
  OBVIOUS
<1>2. /\ DOMAIN Append(s, f) = DOMAIN s \cup {m} /\ m \notin DOMAIN s
      /\ Append(s, f)[m] = f
      /\ \A i \in DOMAIN s : Append(s, f)[i] = s[i]
  OBVIOUS
<1> HIDE DEF n, old, new, m
<1>3. /\ \A e \in DOMAIN old : \A i \in DOMAIN old[e] :
           i \in DOMAIN new[e] /\ new[e][i] = old[e][i] /\ old[e][i] # f
      /\ \A e \in DOMAIN old : \A i \in DOMAIN new[e] :
           i \in DOMAIN old[e] \/ (e = n /\ i = m /\ new[e][i] = f)
  BY <1>1, <1>2 DEF InSome, Elements, old
<1>4. FlatUnique(new)
  <2> SUFFICES ASSUME NEW d \in DOMAIN old, NEW e \in DOMAIN old,
                      NEW i \in DOMAIN new[d], NEW j \in DOMAIN new[e],
                      new[d][i] = new[e][j]
               PROVE  d = e /\ i = j
    BY <1>1 DEF FlatUnique
  <2>1. CASE i \in DOMAIN old[d] /\ j \in DOMAIN old[e]
    BY <1>3, <2>1 DEF FlatUnique, old
  <2>2. CASE i \notin DOMAIN old[d] \/ j \notin DOMAIN old[e]
    BY <1>3, <2>2
  <2> QED
    BY <2>1, <2>2
<1>5. n \in DOMAIN new /\ f \in Elements(new[n])
  BY <1>1, <1>2 DEF Elements
<1>6. \A g : InSome(g, new) <=> InSome(g, old) \/ g = f
  BY <1>1, <1>3, <1>5 DEF InSome, Elements
<1> QED
  BY <1>4, <1>6 DEF old, new

\* An event without fragments makes no difference.
LEMMA EmptyEventFlat ==
    ASSUME NEW S, NEW events \in Seq(Seq(S))
    PROVE  /\ FlatUnique(events) <=> FlatUnique(Append(events, <<>>))
           /\ \A g : InSome(g, events) <=> InSome(g, Append(events, <<>>))
<1> DEFINE all == Append(events, <<>>)
<1>1. /\ DOMAIN all = DOMAIN events \cup {Len(events) + 1}
      /\ all[Len(events) + 1] = <<>>
      /\ \A e \in DOMAIN events : all[e] = events[e]
  OBVIOUS
<1> HIDE DEF all
<1>2. DOMAIN <<>> = {}
  OBVIOUS
<1>3. FlatUnique(events) <=> FlatUnique(all)
  BY <1>1, <1>2 DEF FlatUnique
<1>4. \A g : InSome(g, events) <=> InSome(g, all)
  BY <1>1, <1>2 DEF InSome, Elements
<1> QED
  BY <1>3, <1>4 DEF all

\* Building a fragment puts it into one event or with those out of order.
LEMMA BuildPlaces ==
    ASSUME TypeInv, TypeInv', NEW f \in Fragments, Build(f), pc # "done", pc' # "done",
           FlatUnique(Events), Unique(fOutOfOrder), ~Out(f)
    PROVE  /\ FlatUnique(Events') /\ Unique(fOutOfOrder')
           /\ \A g : g \in Elements(fOutOfOrder) => g \in Elements(fOutOfOrder')
           /\ \A g : InSome(g, Events) => InSome(g, Events')
           /\ \A g : g \in Elements(fOutOfOrder') \/ InSome(g, Events')
                        => g = f \/ Out(g)
           /\ f \in Elements(fOutOfOrder') => ~InSome(f, Events')
           /\ \A g : g # f => (g \in Elements(fOutOfOrder') <=> g \in Elements(fOutOfOrder))
                              /\ (InSome(g, Events') <=> InSome(g, Events))
<1> DEFINE closes == ClosesEvent(f, EventStart(f))
           apart  == IsLate(f, EventStart(f)) /\ options.separate
           all    == Append(output, fNextEvent)
<1>0. /\ fNextEvent \in Seq(Fragments) /\ output \in Seq(Seq(Fragments))
      /\ fOutOfOrder \in Seq(Fragments) /\ all \in Seq(Seq(Fragments))
  BY DEF TypeInv, TypeOK
<1>1. /\ closes => output' = Append(output, fNextEvent)
      /\ ~closes => output' = output
      /\ apart /\ closes => fNextEvent' = <<>>
      /\ apart /\ ~closes => fNextEvent' = fNextEvent
      /\ ~apart /\ closes => fNextEvent' = <<f>>
      /\ ~apart /\ ~closes => fNextEvent' = Append(fNextEvent, f)
      /\ apart => fOutOfOrder' = Append(fOutOfOrder, f)
      /\ ~apart => fOutOfOrder' = fOutOfOrder
  BY BuildShape
<1> HIDE DEF closes, apart
<1>2. /\ FlatUnique(all) /\ ~InSome(f, all)
      /\ \A g : InSome(g, Events) <=> InSome(g, all)
  BY <1>0, EmptyEventFlat DEF Events, Out
<1>3. /\ FlatUnique(Events') <=> FlatUnique(all')
      /\ \A g : InSome(g, Events') <=> InSome(g, all')
  <2>1. /\ fNextEvent' \in Seq(Fragments) /\ output' \in Seq(Seq(Fragments))
        /\ Events' = IF fNextEvent' = <<>> THEN output' ELSE Append(output', fNextEvent')
    BY DEF TypeInv, TypeOK, Events
  <2> QED
    BY <2>1, EmptyEventFlat
<1>4. /\ FlatUnique(all')
      /\ \A g : InSome(g, all') <=> InSome(g, all) \/ (g = f /\ ~apart)
  <2>1. CASE closes
    <3>1. PICK x \in {<<>>, <<f>>} :
            all' = Append(all, x) /\ (apart => x = <<>>) /\ (~apart => x = <<f>>)
      BY <1>1, <2>1
    <3>2. /\ FlatUnique(all')
          /\ \A g : InSome(g, all') <=> InSome(g, all) \/ g \in Elements(x)
      BY <1>0, <1>2, <3>1, AppendEvent
    <3>3. Elements(<<>>) = {} /\ Elements(<<f>>) = {f}
      BY DEF Elements
    <3> QED
      BY <3>1, <3>2, <3>3
  <2>2. CASE ~closes /\ apart
    BY <1>1, <1>2, <2>2
  <2>3. CASE ~closes /\ ~apart
    <3>1. all' = Append(output, Append(fNextEvent, f))
      BY <1>1, <2>3
    <3> QED
      BY <1>0, <1>2, <2>3, <3>1, AppendToEvent
  <2> QED
    BY <2>1, <2>2, <2>3
<1>5. /\ Unique(fOutOfOrder')
      /\ \A g : g \in Elements(fOutOfOrder') <=>
                  g \in Elements(fOutOfOrder) \/ (g = f /\ apart)
  <2>1. CASE apart
    <3>1. f \notin Elements(fOutOfOrder) /\ fOutOfOrder' = Append(fOutOfOrder, f)
      BY <1>1, <2>1 DEF Out
    <3>2. Unique(fOutOfOrder')
      BY <1>0, <3>1, AppendUnique
    <3>3. Elements(fOutOfOrder') = Elements(fOutOfOrder) \cup {f}
      BY <1>0, <3>1, ElementsAppend
    <3> QED
      BY <2>1, <3>2, <3>3
  <2>2. CASE ~apart
    BY <1>1, <2>2
  <2> QED
    BY <2>1, <2>2
<1> QED
  BY <1>2, <1>3, <1>4, <1>5 DEF Out

\* A step that builds fragment f, which the loop held in its queue or in the
\* multiset and takes from there.
LEMMA BuildKeepsPlaces ==
    ASSUME TypeInv, TypeInv', PlaceInv, NEW f \in Fragments, Build(f),
           pc # "done", pc' # "done", UNCHANGED <<fed, cleared>>,
           f \in fOrdered \/ f \in Elements(fInputQueue),
           Unique(fInputQueue'),
           Elements(fInputQueue') \cup fOrdered'
               = (Elements(fInputQueue) \cup fOrdered) \ {f},
           Elements(fInputQueue') \subseteq Elements(fInputQueue),
           Elements(fInputQueue') \cap fOrdered' = {}
    PROVE  PlaceInv'
<1>1. /\ Unique(fOutOfOrder) /\ FlatUnique(Events) /\ ~Out(f) /\ f \notin cleared
  BY DEF PlaceInv, AtMostOnePlace
<1>2. /\ FlatUnique(Events') /\ Unique(fOutOfOrder')
      /\ \A g : g \in Elements(fOutOfOrder') \/ InSome(g, Events') => g = f \/ Out(g)
      /\ f \in Elements(fOutOfOrder') => ~InSome(f, Events')
      /\ \A g : g # f => (g \in Elements(fOutOfOrder') <=> g \in Elements(fOutOfOrder))
                         /\ (InSome(g, Events') <=> InSome(g, Events))
  BY <1>1, BuildPlaces
<1>3. \A g : /\ Out(g)' <=> g \in Elements(fOutOfOrder') \/ InSome(g, Events')
             /\ InSome(g, Events)' <=> InSome(g, Events')
             /\ g \in Elements(fOutOfOrder)' <=> g \in Elements(fOutOfOrder')
             /\ g \in Elements(fInputQueue)' <=> g \in Elements(fInputQueue')
  BY DEF Out, InSome, Elements
<1>4. ASSUME NEW g PROVE AtMostOnePlace(g)'
  <2>1. AtMostOnePlace(g)
    BY DEF PlaceInv
  <2>2. CASE g = f
    BY <1>1, <1>2, <1>3, <2>2 DEF AtMostOnePlace
  <2>3. CASE g # f
    <3>1. (Out(g)' <=> Out(g)) /\ (InSome(g, Events)' <=> InSome(g, Events))
          /\ (g \in Elements(fOutOfOrder)' <=> g \in Elements(fOutOfOrder))
      BY <1>2, <1>3, <2>3 DEF Out
    <3>2. /\ g \in Elements(fInputQueue)' => g \notin fOrdered'
          /\ g \in Elements(fInputQueue)' => g \in Elements(fInputQueue) \/ g \in fOrdered
          /\ g \in fOrdered' => g \in Elements(fInputQueue) \/ g \in fOrdered
      BY <1>3
    <3> QED
      BY <2>1, <3>1, <3>2 DEF AtMostOnePlace
  <2> QED
    BY <2>2, <2>3
<1>5. Fed' = Fed /\ f \in Fed
  BY DEF Fed, PlaceInv
<1>6. ASSUME NEW g, \/ g \in Elements(fInputQueue)' \/ g \in fOrdered'
                    \/ g \in cleared' \/ Out(g)'
      PROVE  g \in Fed'
  <2>1. \/ g = f \/ g \in Elements(fInputQueue) \/ g \in fOrdered
        \/ g \in cleared \/ Out(g)
    BY <1>2, <1>3, <1>6
  <2> QED
    BY <1>5, <2>1 DEF PlaceInv
<1>7. Unique(fInputQueue)' /\ Unique(fOutOfOrder)' /\ FlatUnique(Events)'
  BY <1>2 DEF Unique, FlatUnique
<1> QED
  BY <1>4, <1>6, <1>7 DEF PlaceInv

\* The other steps: what has left the loop stays as it is.
LEMMA MoveKeepsPlaces ==
    ASSUME PlaceInv, Events' = Events, fOutOfOrder' = fOutOfOrder, fed' = fed,
           Unique(fInputQueue'),
           Elements(fInputQueue') \cup fOrdered' \cup cleared'
               = Elements(fInputQueue) \cup fOrdered \cup cleared,
           Elements(fInputQueue') \cap fOrdered' = {},
           Elements(fInputQueue') \cap cleared' = {},
           fOrdered' \cap cleared' = {}
    PROVE  PlaceInv'
<1>1. /\ Elements(fInputQueue)' = Elements(fInputQueue')
      /\ Elements(fOutOfOrder)' = Elements(fOutOfOrder)
      /\ Fed' = Fed
      /\ \A g : (Out(g)' <=> Out(g)) /\ (InSome(g, Events)' <=> InSome(g, Events))
  BY DEF Elements, Fed, Out, InSome
<1>2. /\ Unique(fInputQueue)' /\ Unique(fOutOfOrder)' /\ FlatUnique(Events)'
  BY DEF PlaceInv, Unique, FlatUnique
<1>3. ASSUME NEW g PROVE AtMostOnePlace(g)'
  <2>1. AtMostOnePlace(g)
    BY DEF PlaceInv
  <2>2. /\ g \in Elements(fInputQueue)' => g \notin fOrdered' /\ g \notin cleared'
        /\ g \in fOrdered' => g \notin cleared'
        /\ (g \in Elements(fInputQueue)' \/ g \in fOrdered' \/ g \in cleared')
             <=> (g \in Elements(fInputQueue) \/ g \in fOrdered \/ g \in cleared)
    BY <1>1
  <2> QED
    BY <1>1, <2>1, <2>2 DEF AtMostOnePlace
<1>4. \A g : g \in Elements(fInputQueue)' \/ g \in fOrdered' \/ g \in cleared' \/ Out(g)'
               => g \in Fed'
  BY <1>1 DEF PlaceInv
<1> QED
  BY <1>2, <1>3, <1>4 DEF PlaceInv

LEMMA FeedKeepsPlaces ==
    ASSUME TypeInv, PlaceInv, NEW key \in Keys, Feed(key)
    PROVE  PlaceInv'
<1> DEFINE new == [id |-> Len(fed) + 1, key |-> key]
<1>1. /\ fInputQueue \in Seq(Fragments) /\ fed \in Seq(Keys)
      /\ fInputQueue' = Append(fInputQueue, new) /\ Fed' = Fed \cup {new}
      /\ UNCHANGED <<fOrdered, cleared, fOutOfOrder, output, fNextEvent, pc>>
  BY FedGrows DEF Feed, builder, TypeInv, TypeOK
<1>2. new \notin Fed
  <2>1. \A i \in DOMAIN fed : i # Len(fed) + 1
    BY <1>1
  <2>2. \A f \in Fed : f.id # Len(fed) + 1
    BY <2>1 DEF Fed
  <2> QED
    BY <2>2
<1> HIDE DEF new
<1>3. /\ new \notin Elements(fInputQueue) /\ new \notin fOrdered
      /\ new \notin cleared /\ ~Out(new)
  BY <1>2 DEF PlaceInv
<1>4. /\ Unique(fInputQueue') /\ Elements(fInputQueue') = Elements(fInputQueue) \cup {new}
  BY <1>1, <1>3, AppendUnique, ElementsAppend DEF PlaceInv
<1>5. /\ Elements(fInputQueue)' = Elements(fInputQueue')
      /\ Elements(fOutOfOrder)' = Elements(fOutOfOrder)
      /\ Events' = Events
      /\ \A g : (Out(g)' <=> Out(g)) /\ (InSome(g, Events)' <=> InSome(g, Events))
  BY <1>1 DEF Elements, Out, InSome, Events
<1>6. /\ Unique(fInputQueue)' /\ Unique(fOutOfOrder)' /\ FlatUnique(Events)'
  BY <1>1, <1>4, <1>5 DEF PlaceInv, Unique, FlatUnique
<1>7. ASSUME NEW g PROVE AtMostOnePlace(g)'
  <2>1. AtMostOnePlace(g)
    BY DEF PlaceInv
  <2>2. g \in Elements(fInputQueue)' <=> g \in Elements(fInputQueue) \/ g = new
    BY <1>4, <1>5
  <2>3. fOrdered' = fOrdered /\ cleared' = cleared
    BY <1>1
  <2>4. CASE g = new
    <3>1. ~InSome(g, Events) /\ g \notin Elements(fOutOfOrder)
      BY <1>3, <2>4 DEF Out
    <3> QED
      BY <1>3, <1>5, <2>3, <2>4, <3>1 DEF AtMostOnePlace
  <2>5. CASE g # new
    BY <1>5, <2>1, <2>2, <2>3, <2>5 DEF AtMostOnePlace
  <2> QED
    BY <2>4, <2>5
<1>8. \A g : g \in Elements(fInputQueue)' \/ g \in fOrdered' \/ g \in cleared' \/ Out(g)'
               => g \in Fed'
  BY <1>1, <1>4, <1>5 DEF PlaceInv
<1> QED
  BY <1>6, <1>7, <1>8 DEF PlaceInv

LEMMA NextPlaces == TypeInv /\ TypeInv' /\ PlaceInv /\ [Next]_vars => PlaceInv'
<1> SUFFICES ASSUME TypeInv, TypeInv', PlaceInv, [Next]_vars PROVE PlaceInv'
  OBVIOUS
<1> DEFINE waiting == Elements(fInputQueue)
           h       == Head(fInputQueue)
<1>1. fInputQueue \in Seq(Fragments) /\ fOrdered \subseteq Fragments
  BY DEF TypeInv, TypeOK
<1>2. /\ Unique(fInputQueue) /\ waiting \cap fOrdered = {}
      /\ waiting \cap cleared = {} /\ fOrdered \cap cleared = {}
  BY DEF PlaceInv, AtMostOnePlace
<1>3. ASSUME fInputQueue # <<>>, fInputQueue' = Tail(fInputQueue)
      PROVE  /\ Unique(fInputQueue') /\ h \notin Elements(fInputQueue')
             /\ waiting = Elements(fInputQueue') \cup {h} /\ h \in Fragments
  BY <1>1, <1>2, <1>3, TailUnique
<1> HIDE DEF waiting, h
<1>4. CASE CollectFragment
  <2>1. /\ fInputQueue # <<>> /\ fInputQueue' = Tail(fInputQueue) /\ fed' = fed
        /\ cleared' = cleared /\ fOrdered' = fOrdered \cup {h}
        /\ fOutOfOrder' = fOutOfOrder /\ Events' = Events
    BY <1>4 DEF CollectFragment, PopFragment, builder, Events, h
  <2> QED
    BY <1>2, <1>3, <2>1, MoveKeepsPlaces DEF waiting
<1>5. CASE SortFragment
  <2>1. PopFragment
    BY <1>5 DEF SortFragment
  <2>2. /\ fInputQueue # <<>> /\ fInputQueue' = Tail(fInputQueue) /\ fed' = fed
        /\ cleared' = cleared /\ pc # "done" /\ pc' # "done"
    BY <2>1 DEF PopFragment
  <2>3. PICK f \in fOrdered \cup {h} : fOrdered' = (fOrdered \cup {h}) \ {f} /\ Build(f)
    BY <1>5 DEF SortFragment, h
  <2> QED
    BY <1>1, <1>2, <1>3, <2>2, <2>3, BuildKeepsPlaces DEF waiting
<1>6. CASE PassFragment
  <2>1. /\ fInputQueue # <<>> /\ fInputQueue' = Tail(fInputQueue) /\ fed' = fed
        /\ cleared' = cleared /\ pc # "done" /\ pc' # "done"
        /\ fOrdered' = fOrdered /\ Build(h)
    BY <1>6 DEF PassFragment, PopFragment, h
  <2> QED
    BY <1>2, <1>3, <2>1, BuildKeepsPlaces DEF waiting
<1>7. CASE BuildLeftover
  <2>1. PICK f \in fOrdered : fOrdered' = fOrdered \ {f} /\ Build(f)
    BY <1>7 DEF BuildLeftover
  <2>2. /\ fInputQueue' = fInputQueue /\ fed' = fed /\ cleared' = cleared
        /\ pc # "done" /\ pc' # "done"
    BY <1>7 DEF BuildLeftover, ParentIsDead
  <2> QED
    BY <1>1, <1>2, <2>1, <2>2, BuildKeepsPlaces DEF waiting
<1>8. CASE ClearQueue
  <2>1. /\ fInputQueue # <<>> /\ fInputQueue' = Tail(fInputQueue) /\ fed' = fed
        /\ cleared' = cleared \cup {h} /\ fOrdered' = fOrdered
        /\ fOutOfOrder' = fOutOfOrder /\ Events' = Events
    BY <1>8 DEF ClearQueue, builder, Events, h
  <2> QED
    BY <1>2, <1>3, <2>1, MoveKeepsPlaces DEF waiting
<1>9. CASE FinishInput \/ FindEmpty \/ WaitForParent \/ Finish \/ UNCHANGED vars
  <2>1. /\ fInputQueue' = fInputQueue /\ fed' = fed /\ cleared' = cleared
        /\ fOrdered' = fOrdered /\ fOutOfOrder' = fOutOfOrder
    BY <1>9 DEF FinishInput, FindEmpty, WaitForParent, Finish, ParentIsDead, vars, builder
  <2>2. Events' = Events
    <3>1. CASE FinishInput \/ FindEmpty \/ WaitForParent \/ UNCHANGED vars
      BY <3>1 DEF FinishInput, FindEmpty, WaitForParent, vars, builder, Events
    <3>2. CASE Finish
      BY <3>2 DEF Finish, ParentIsDead, LastEvent, Events
    <3> QED
      BY <1>9, <3>1, <3>2
  <2> QED
    BY <1>2, <2>1, <2>2, MoveKeepsPlaces DEF waiting
<1> QED
  BY <1>4, <1>5, <1>6, <1>7, <1>8, <1>9, FeedKeepsPlaces DEF Next, Iteration

\* A fragment that is kept is in exactly one place.
LEMMA OnePlace ==
    ASSUME TypeInv, KeepInv, PlaceInv, NEW f \in Fed
    PROVE  \E place : Places(f) = {place}
<1> DEFINE queued  == {"input"} \X Positions(f, fInputQueue)
           sorting == {"ordered"} \X (fOrdered \cap {f})
           apart   == {"out of order"} \X Positions(f, fOutOfOrder)
           thrown  == {"cleared"} \X (cleared \cap {f})
           built   == UNION {{e} \X Positions(f, Events[e]) : e \in DOMAIN Events}
<1>1. /\ f \notin Elements(fInputQueue) => queued = {}
      /\ f \notin fOrdered => sorting = {}
      /\ f \notin Elements(fOutOfOrder) => apart = {}
      /\ f \notin cleared => thrown = {}
      /\ ~InSome(f, Events) => built = {}
  <2>1. \A s : f \notin Elements(s) => Positions(f, s) = {}
    BY DEF Positions, Elements
  <2>2. ASSUME ~InSome(f, Events) PROVE built = {}
    <3>1. \A e \in DOMAIN Events : {e} \X Positions(f, Events[e]) = {}
      BY <2>1, <2>2 DEF InSome
    <3> QED
      BY <3>1
  <2> QED
    BY <2>1, <2>2
<1>2. AtMostOnePlace(f) /\ Unique(fInputQueue) /\ Unique(fOutOfOrder) /\ FlatUnique(Events)
  BY DEF PlaceInv
<1>3. Places(f) = queued \cup sorting \cup apart \cup thrown \cup built
  BY DEF Places
<1>4. f \in Elements(fInputQueue) \/ f \in fOrdered \/ f \in cleared \/ Out(f)
  <2>1. Kept(f)
    BY DEF KeepInv
  <2>2. ASSUME Built(f) PROVE Out(f)
    <3>1. output \in Seq(Seq(Fragments)) /\ fNextEvent \in Seq(Fragments)
      BY DEF TypeInv, TypeOK
    <3>2. ASSUME NEW i \in DOMAIN output, f \in Elements(output[i]) PROVE InSome(f, Events)
      <4>1. i \in DOMAIN Events /\ Events[i] = output[i]
        BY <3>1 DEF Events
      <4> QED
        BY <3>2, <4>1 DEF InSome
    <3>3. ASSUME f \in Elements(fNextEvent), pc # "done" PROVE InSome(f, Events)
      <4>1. fNextEvent # <<>>
        BY <3>3 DEF Elements
      <4>2. Len(output) + 1 \in DOMAIN Events /\ Events[Len(output) + 1] = fNextEvent
        BY <3>1, <3>3, <4>1 DEF Events
      <4> QED
        BY <3>3, <4>2 DEF InSome
    <3> QED
      BY <2>2, <3>2, <3>3 DEF Built, Out, KeepInv, DoneInv
  <2> QED
    BY <2>1, <2>2 DEF Kept
<1> HIDE DEF queued, sorting, apart, thrown, built
<1>5. CASE f \in Elements(fInputQueue)
  <2>1. PICK i \in DOMAIN fInputQueue : fInputQueue[i] = f
    BY <1>5 DEF Elements
  <2>2. queued = {<<"input", i>>}
    BY <1>2, <2>1 DEF queued, Positions, Unique
  <2> QED
    BY <1>1, <1>2, <1>3, <1>5, <2>2 DEF AtMostOnePlace, Out
<1>6. CASE f \in fOrdered
  <2>1. sorting = {<<"ordered", f>>}
    BY <1>6 DEF sorting
  <2> QED
    BY <1>1, <1>2, <1>3, <1>6, <2>1 DEF AtMostOnePlace, Out
<1>7. CASE f \in cleared
  <2>1. thrown = {<<"cleared", f>>}
    BY <1>7 DEF thrown
  <2> QED
    BY <1>1, <1>2, <1>3, <1>7, <2>1 DEF AtMostOnePlace, Out
<1>8. CASE f \in Elements(fOutOfOrder)
  <2>1. PICK i \in DOMAIN fOutOfOrder : fOutOfOrder[i] = f
    BY <1>8 DEF Elements
  <2>2. Positions(f, fOutOfOrder) = {i}
    BY <1>2, <2>1 DEF Positions, Unique
  <2>3. apart = {<<"out of order", i>>}
    BY <2>2 DEF apart
  <2> QED
    BY <1>1, <1>2, <1>3, <1>8, <2>3 DEF AtMostOnePlace, Out
<1>9. CASE InSome(f, Events)
  <2>1. PICK e \in DOMAIN Events : \E i \in DOMAIN Events[e] : Events[e][i] = f
    BY <1>9 DEF InSome, Elements
  <2>2. PICK i \in DOMAIN Events[e] : Events[e][i] = f
    BY <2>1
  <2>3. /\ Positions(f, Events[e]) = {i}
        /\ \A d \in DOMAIN Events : d # e => Positions(f, Events[d]) = {}
    BY <1>2, <2>2 DEF Positions, FlatUnique
  <2>4. \A d \in DOMAIN Events :
          {d} \X Positions(f, Events[d]) = IF d = e THEN {<<e, i>>} ELSE {}
    BY <2>3
  <2>5. built = {<<e, i>>}
    BY <2>4 DEF built
  <2> QED
    BY <1>1, <1>2, <1>3, <1>9, <2>5 DEF AtMostOnePlace, Out
<1> QED
  BY <1>4, <1>5, <1>6, <1>7, <1>8, <1>9 DEF Out

\* The loop neither loses a fragment nor builds it twice, whatever the order of
\* its steps, those of its parent and those of ClearQueue.
THEOREM OncePlaced == Spec => []EveryFragmentInOnePlace
<1>1. Init => KeepInv /\ PlaceInv
  <2> SUFFICES ASSUME Init PROVE KeepInv /\ PlaceInv
    OBVIOUS
  <2>1. /\ Elements(fInputQueue) = {} /\ Elements(fOutOfOrder) = {}
        /\ Events = <<>> /\ fOrdered = {} /\ cleared = {} /\ Fed = {} /\ pc = "pop"
    BY DEF Init, Elements, Events, Fed
  <2>2. KeepInv
    BY <2>1 DEF KeepInv, DoneInv
  <2>3. PlaceInv
    <3>1. Unique(<<>>) /\ FlatUnique(<<>>) /\ \A g : ~InSome(g, <<>>)
      BY DEF Unique, FlatUnique, InSome
    <3>2. fInputQueue = <<>> /\ fOutOfOrder = <<>>
      BY DEF Init
    <3> QED
      BY <2>1, <3>1, <3>2 DEF PlaceInv, AtMostOnePlace, Out
  <2> QED
    BY <2>2, <2>3
<1>2. TypeInv /\ KeepInv /\ [Next]_vars => KeepInv'
  BY NextKeeps
<1>3. TypeInv /\ KeepInv /\ PlaceInv => EveryFragmentInOnePlace
  <2> SUFFICES ASSUME TypeInv, KeepInv, PlaceInv, NEW f \in Fed
               PROVE  Cardinality(Places(f)) = 1
    BY DEF EveryFragmentInOnePlace
  <2> QED
    BY OnePlace, FS_Singleton
<1> QED
  BY <1>1, <1>2, <1>3, NextPlaces, TypeInvariant, PTL DEF Spec

-----------------------------------------------------------------------------
(* The order of the events *)

\* What comes later was pushed later.
FifoInv ==
    /\ \A i, j \in DOMAIN fInputQueue : i < j => fInputQueue[i].id < fInputQueue[j].id
    /\ \A g \in fOrdered, i \in DOMAIN fInputQueue : g.id < fInputQueue[i].id

LEMMA NextFifo == TypeInv /\ KnownInv /\ FifoInv /\ [Next]_vars => FifoInv'
<1> SUFFICES ASSUME TypeInv, KnownInv, FifoInv, [Next]_vars PROVE FifoInv'
  OBVIOUS
<1>1. fInputQueue \in Seq(Fragments) /\ fed \in Seq(Keys)
  BY DEF TypeInv, TypeOK
<1>2. ASSUME NEW key \in Keys, Feed(key) PROVE FifoInv'
  <2> DEFINE new == [id |-> Len(fed) + 1, key |-> key]
  <2>1. /\ fInputQueue' = Append(fInputQueue, new) /\ fOrdered' = fOrdered
        /\ new.id = Len(fed) + 1
    BY <1>2 DEF Feed
  <2> HIDE DEF new
  <2>2. \A f \in Fed : f.id < Len(fed) + 1
    BY <1>1 DEF Fed
  <2>3. /\ \A g \in fOrdered : g.id < new.id
        /\ \A i \in DOMAIN fInputQueue : fInputQueue[i].id < new.id
    BY <2>1, <2>2 DEF KnownInv, Elements
  <2>4. /\ DOMAIN fInputQueue' = 1 .. Len(fInputQueue) + 1
        /\ DOMAIN fInputQueue = 1 .. Len(fInputQueue)
        /\ fInputQueue'[Len(fInputQueue) + 1] = new
        /\ \A i \in DOMAIN fInputQueue : fInputQueue'[i] = fInputQueue[i]
    BY <1>1, <2>1
  <2>5. Len(fInputQueue) \in Nat
    BY <1>1
  <2>6. ASSUME NEW i \in DOMAIN fInputQueue', NEW j \in DOMAIN fInputQueue', i < j
        PROVE  fInputQueue'[i].id < fInputQueue'[j].id
    <3>1. i \in DOMAIN fInputQueue
      BY <2>4, <2>5, <2>6
    <3>2. CASE j \in DOMAIN fInputQueue
      BY <2>4, <2>6, <3>1, <3>2 DEF FifoInv
    <3>3. CASE j = Len(fInputQueue) + 1
      BY <2>3, <2>4, <3>1, <3>3
    <3> QED
      BY <2>4, <2>5, <3>2, <3>3
  <2>7. ASSUME NEW g \in fOrdered', NEW i \in DOMAIN fInputQueue'
        PROVE  g.id < fInputQueue'[i].id
    <3>1. CASE i \in DOMAIN fInputQueue
      BY <2>1, <2>4, <2>7, <3>1 DEF FifoInv
    <3>2. CASE i = Len(fInputQueue) + 1
      BY <2>1, <2>3, <2>4, <2>7, <3>2
    <3> QED
      BY <2>4, <2>5, <3>1, <3>2
  <2> QED
    BY <2>6, <2>7 DEF FifoInv
<1>3. ASSUME fInputQueue # <<>>, fInputQueue' = Tail(fInputQueue),
             fOrdered' \subseteq fOrdered \cup {Head(fInputQueue)}
      PROVE  FifoInv'
  <2>1. /\ Head(fInputQueue) = fInputQueue[1] /\ 1 \in DOMAIN fInputQueue
        /\ \A i \in DOMAIN fInputQueue' : /\ i + 1 \in DOMAIN fInputQueue /\ 1 < i + 1
                                          /\ fInputQueue'[i] = fInputQueue[i + 1]
        /\ \A i, j \in DOMAIN fInputQueue' : i < j => i + 1 < j + 1
    BY <1>1, <1>3
  <2> QED
    BY <1>3, <2>1 DEF FifoInv
<1>4. ASSUME fInputQueue' = fInputQueue, fOrdered' \subseteq fOrdered PROVE FifoInv'
  BY <1>4 DEF FifoInv
<1>5. CASE CollectFragment \/ PassFragment \/ SortFragment \/ ClearQueue
  BY <1>3, <1>5 DEF CollectFragment, PassFragment, SortFragment, PopFragment, ClearQueue
<1>6. CASE BuildLeftover
  BY <1>4, <1>6 DEF BuildLeftover, ParentIsDead
<1>7. CASE FinishInput \/ FindEmpty \/ WaitForParent \/ Finish \/ UNCHANGED vars
  BY <1>4, <1>7 DEF FinishInput, FindEmpty, WaitForParent, Finish, ParentIsDead, vars
<1> QED
  BY <1>2, <1>5, <1>6, <1>7 DEF Next, Iteration

\* The fragments a parent has pushed when it pushed these keys, and whether a
\* depth suffices for them.
FedOf(s) == {[id |-> i, key |-> s[i]] : i \in DOMAIN s}
DepthOf(s) ==
    \A i \in DOMAIN s : Cardinality({j \in 1 .. i - 1 : s[j] > s[i]}) < SortDepth

\* As many later fragments as the depth came before h.
LEMMA TooMany ==
    ASSUME NEW s \in Seq(Keys), NEW h \in FedOf(s), NEW F \in SUBSET FedOf(s),
           IsFiniteSet(F), Cardinality(F) >= SortDepth,
           \A g \in F : g.id < h.id /\ g.key > h.key
    PROVE  ~DepthOf(s)
<1>1. h.id \in DOMAIN s /\ h.key = s[h.id] /\ DOMAIN s \subseteq Nat
  BY DEF FedOf
<1> DEFINE T == {j \in 1 .. h.id - 1 : s[j] > s[h.id]}
           m == [g \in F |-> g.id]
<1>2. IsFiniteSet(T) /\ Cardinality(T) \in Nat
  <2>0. h.id - 1 \in Int
    BY <1>1
  <2>1. IsFiniteSet(1 .. h.id - 1)
    BY <2>0, FS_Interval
  <2>2. T \in SUBSET (1 .. h.id - 1)
    OBVIOUS
  <2> QED
    BY <2>1, <2>2, FS_Subset, FS_CardinalityType
<1>3. \A g \in F : g.id \in T
  <2> TAKE g \in F
  <2>1. g.id \in DOMAIN s /\ g.key = s[g.id]
    BY DEF FedOf
  <2>2. g.id \in 1 .. h.id - 1
    BY <1>1, <2>1
  <2> QED
    BY <1>1, <2>1, <2>2
<1>4. \A f, g \in F : f.id = g.id => f = g
  BY DEF FedOf
<1> HIDE DEF T
<1>5. m \in Injection(F, T)
  BY <1>3, <1>4 DEF Injection, IsInjective
<1>6. Cardinality(F) <= Cardinality(T) /\ Cardinality(F) \in Nat
  BY <1>2, <1>5, FS_Injection, FS_CardinalityType
<1>7. ~(Cardinality(T) < SortDepth)
  BY <1>2, <1>6, EventAssumption
<1> QED
  BY <1>1, <1>7 DEF DepthOf, T

LEMMA DepthOfPrefix ==
    ASSUME NEW s \in Seq(Keys), NEW key \in Keys, DepthOf(Append(s, key))
    PROVE  DepthOf(s)
<1> SUFFICES ASSUME NEW i \in DOMAIN s
             PROVE  Cardinality({j \in 1 .. i - 1 : s[j] > s[i]}) < SortDepth
  BY DEF DepthOf
<1>1. /\ i \in DOMAIN Append(s, key) /\ Append(s, key)[i] = s[i]
      /\ \A j \in 1 .. i - 1 : Append(s, key)[j] = s[j]
  OBVIOUS
<1>2. {j \in 1 .. i - 1 : Append(s, key)[j] > Append(s, key)[i]}
          = {j \in 1 .. i - 1 : s[j] > s[i]}
  BY <1>1
<1> QED
  BY <1>1, <1>2 DEF DepthOf

FlatSorted(events) ==
    \A d, e \in DOMAIN events : \A i \in DOMAIN events[d], j \in DOMAIN events[e] :
        d < e \/ (d = e /\ i < j) => events[d][i].key <= events[e][j].key

LEMMA EmptyEventSorted ==
    ASSUME NEW S, NEW events \in Seq(Seq(S))
    PROVE  FlatSorted(events) <=> FlatSorted(Append(events, <<>>))
<1> DEFINE all == Append(events, <<>>)
<1>1. /\ DOMAIN all = DOMAIN events \cup {Len(events) + 1}
      /\ all[Len(events) + 1] = <<>>
      /\ \A e \in DOMAIN events : all[e] = events[e]
  OBVIOUS
<1> HIDE DEF all
<1>2. DOMAIN <<>> = {}
  OBVIOUS
<1>3. FlatSorted(events) <=> FlatSorted(all)
  BY <1>1, <1>2 DEF FlatSorted
<1> QED
  BY <1>3 DEF all

\* A fragment that is no earlier than any other begins an event, or joins the
\* last one.
LEMMA AppendEventSorted ==
    ASSUME NEW events \in Seq(Seq(Fragments)), NEW f \in Fragments,
           FlatSorted(events), \A g : InSome(g, events) => g.key <= f.key
    PROVE  FlatSorted(Append(events, <<f>>))
<1> DEFINE n == Len(events) + 1
           new == Append(events, <<f>>)
<1>1. /\ DOMAIN new = DOMAIN events \cup {n} /\ DOMAIN events \subseteq Nat
      /\ n \in Nat /\ \A e \in DOMAIN events : e < n
      /\ new[n] = <<f>> /\ \A e \in DOMAIN events : new[e] = events[e]
  OBVIOUS
<1>2. DOMAIN <<f>> = {1} /\ <<f>>[1] = f
  OBVIOUS
<1> HIDE DEF n, new
<1>3. \A e \in DOMAIN events : \A i \in DOMAIN events[e] : events[e][i].key <= f.key
  BY DEF InSome, Elements
<1>4. FlatSorted(new)
  <2> SUFFICES ASSUME NEW d \in DOMAIN new, NEW e \in DOMAIN new,
                      NEW i \in DOMAIN new[d], NEW j \in DOMAIN new[e],
                      d < e \/ (d = e /\ i < j)
               PROVE  new[d][i].key <= new[e][j].key
    BY DEF FlatSorted
  <2>1. CASE d \in DOMAIN events /\ e \in DOMAIN events
    BY <1>1, <2>1 DEF FlatSorted
  <2>2. CASE d \in DOMAIN events /\ e = n
    BY <1>1, <1>2, <1>3, <2>2
  <2>3. CASE d = n
    BY <1>1, <1>2, <2>3
  <2> QED
    BY <1>1, <2>1, <2>2, <2>3
<1> QED
  BY <1>4 DEF new

LEMMA AppendToEventSorted ==
    ASSUME NEW events \in Seq(Seq(Fragments)), NEW s \in Seq(Fragments),
           NEW f \in Fragments, FlatSorted(Append(events, s)),
           \A g : InSome(g, Append(events, s)) => g.key <= f.key
    PROVE  FlatSorted(Append(events, Append(s, f)))
<1> DEFINE n   == Len(events) + 1
           old == Append(events, s)
           new == Append(events, Append(s, f))
           m   == Len(s) + 1
<1>1. /\ DOMAIN old = DOMAIN events \cup {n} /\ DOMAIN new = DOMAIN old
      /\ DOMAIN old \subseteq Nat /\ \A e \in DOMAIN old : e <= n
      /\ old[n] = s /\ new[n] = Append(s, f) /\ n \notin DOMAIN events
      /\ \A e \in DOMAIN events : old[e] = events[e] /\ new[e] = events[e]
  OBVIOUS
<1>2. /\ DOMAIN Append(s, f) = DOMAIN s \cup {m} /\ m \notin DOMAIN s
      /\ Append(s, f)[m] = f /\ \A i \in DOMAIN s \cup {m} : i <= m /\ i \in Nat
      /\ \A i \in DOMAIN s : Append(s, f)[i] = s[i]
  OBVIOUS
<1> HIDE DEF n, old, new, m
<1>3. /\ \A e \in DOMAIN old : \A i \in DOMAIN old[e] : old[e][i].key <= f.key
      /\ \A e \in DOMAIN old : \A i \in DOMAIN new[e] :
           \/ i \in DOMAIN old[e] /\ new[e][i] = old[e][i]
           \/ e = n /\ i = m /\ new[e][i] = f
  BY <1>1, <1>2 DEF InSome, Elements, old
<1>4. FlatSorted(new)
  <2> SUFFICES ASSUME NEW d \in DOMAIN old, NEW e \in DOMAIN old,
                      NEW i \in DOMAIN new[d], NEW j \in DOMAIN new[e],
                      d < e \/ (d = e /\ i < j)
               PROVE  new[d][i].key <= new[e][j].key
    BY <1>1 DEF FlatSorted
  <2>1. CASE d = n /\ i = m
    <3>1. d = e /\ i < j
      BY <1>1, <2>1
    <3> QED
      BY <1>1, <1>2, <2>1, <3>1
  <2>2. CASE /\ i \in DOMAIN old[d] /\ new[d][i] = old[d][i]
             /\ j \in DOMAIN old[e] /\ new[e][j] = old[e][j]
    BY <2>2 DEF FlatSorted, old
  <2>3. CASE i \in DOMAIN old[d] /\ new[d][i] = old[d][i] /\ new[e][j] = f
    BY <1>3, <2>3
  <2> QED
    BY <1>3, <2>1, <2>2, <2>3
<1> QED
  BY <1>4 DEF new

\* The conditions of SortedIfDepthSuffices.
InOrder ==
    /\ Sorts /\ DepthSuffices
    /\ options.mode = "timestamp" => \A i \in DOMAIN fed : fed[i] >= 0

\* As many fragments as the depth, none of them earlier than key, have come.
Deep(key) ==
    \E F \in SUBSET Fed :
        /\ IsFiniteSet(F) /\ Cardinality(F) >= SortDepth
        /\ \A g \in F : g.key >= key

\* What is in an event is no later than what waits, and than what can come.
OrderInv ==
    InOrder =>
        /\ late = {}
        /\ FlatSorted(Events)
        /\ \A f : InSome(f, Events) =>
             /\ \A g \in fOrdered \cup Elements(fInputQueue) : f.key <= g.key
             /\ (inputFinished /\ fInputQueue = <<>>) \/ Deep(f.key)

LEMMA FedTyped ==
    ASSUME TypeInv, NEW f \in Fed
    PROVE  /\ f.key \in Keys /\ f.key \in Int
           /\ -TimestampRange < 4 * f.key /\ 4 * f.key < TimestampRange
           /\ InOrder /\ options.mode = "timestamp" => f.key >= 0
<1>1. PICK i \in DOMAIN fed : f = [id |-> i, key |-> fed[i]]
  BY DEF Fed
<1>2. f.key = fed[i] /\ fed[i] \in Keys
  BY <1>1 DEF TypeInv, TypeOK
<1> QED
  BY <1>2, EventAssumption DEF InOrder

\* In order, a fragment that is no earlier than those in events is not late.
LEMMA NotLate ==
    ASSUME TypeInv, PlaceInv, InOrder, pc # "done", NEW f \in Fed,
           \A g : InSome(g, Events) => g.key <= f.key
    PROVE  ~IsLate(f, EventStart(f))
<1>1. \E g \in Fed : EventStart(f) = g.key /\ g.key <= f.key
  <2>1. CASE fNextEvent = <<>>
    <3>1. f.key <= f.key
      BY FedTyped
    <3> QED
      BY <2>1, <3>1 DEF EventStart
  <2>2. CASE fNextEvent # <<>>
    <3>1. output \in Seq(Seq(Fragments)) /\ fNextEvent \in Seq(Fragments)
      BY DEF TypeInv, TypeOK
    <3>2. Len(output) + 1 \in DOMAIN Events /\ Events[Len(output) + 1] = fNextEvent
      BY <2>2, <3>1 DEF Events
    <3>3. \A g \in Elements(fNextEvent) : InSome(g, Events)
      BY <3>2 DEF InSome
    <3>4. /\ fNextEvent[1] \in Elements(fNextEvent)
          /\ fNextEvent[Len(fNextEvent)] \in Elements(fNextEvent)
      BY <2>2, <3>1 DEF Elements
    <3>5. \A g \in Elements(fNextEvent) : g \in Fed /\ g.key <= f.key
      BY <3>3 DEF PlaceInv, Out
    <3> QED
      BY <2>2, <3>4, <3>5 DEF EventStart
  <2> QED
    BY <2>1, <2>2
<1>2. PICK g \in Fed : EventStart(f) = g.key /\ g.key <= f.key
  BY <1>1
<1>3. /\ f.key \in Int /\ g.key \in Int
      /\ 4 * f.key < TimestampRange /\ 4 * g.key < TimestampRange
      /\ options.mode = "timestamp" => f.key >= 0 /\ g.key >= 0
  BY FedTyped
<1>4. options.mode = "timestamp" => Wrap(f.key) = f.key /\ Wrap(g.key) = g.key
  BY <1>3, EventAssumption DEF Wrap
<1> QED
  BY <1>2, <1>3, <1>4 DEF IsLate

\* Building a fragment that is no earlier than those in events.
LEMMA BuildInOrder ==
    ASSUME TypeInv, TypeInv', PlaceInv, OrderInv, InOrder, pc # "done", pc' # "done",
           NEW f \in Fed, f \in Fragments, Build(f), ~Out(f),
           \A g : InSome(g, Events) => g.key <= f.key
    PROVE  /\ late' = {} /\ FlatSorted(Events')
           /\ \A g : InSome(g, Events') => g = f \/ InSome(g, Events)
<1> DEFINE closes == ClosesEvent(f, EventStart(f))
           all    == Append(output, fNextEvent)
<1>1. ~IsLate(f, EventStart(f))
  BY NotLate
<1>2. /\ closes => output' = all /\ fNextEvent' = <<f>>
      /\ ~closes => output' = output /\ fNextEvent' = Append(fNextEvent, f)
      /\ late' = late
  BY <1>1, BuildShape
<1> HIDE DEF closes
<1>3. /\ fNextEvent \in Seq(Fragments) /\ output \in Seq(Seq(Fragments))
      /\ fNextEvent' \in Seq(Fragments) /\ output' \in Seq(Seq(Fragments))
      /\ all \in Seq(Seq(Fragments))
  BY DEF TypeInv, TypeOK
<1>4. late = {} /\ FlatSorted(Events)
  BY DEF OrderInv
<1>5. FlatSorted(all) /\ \A g : InSome(g, all) => g.key <= f.key
  BY <1>3, <1>4, EmptyEventSorted, EmptyEventFlat DEF Events
<1>6. FlatSorted(all')
  <2>1. CASE closes
    <3>1. all' = Append(all, <<f>>)
      BY <1>2, <2>1
    <3> QED
      BY <1>3, <1>5, <3>1, AppendEventSorted
  <2>2. CASE ~closes
    <3>1. all' = Append(output, Append(fNextEvent, f))
      BY <1>2, <2>2
    <3> QED
      BY <1>3, <1>5, <3>1, AppendToEventSorted
  <2> QED
    BY <2>1, <2>2
<1>7. FlatSorted(Events')
  <2>1. Events' = IF fNextEvent' = <<>> THEN output' ELSE Append(output', fNextEvent')
    BY DEF Events
  <2>2. FlatSorted(output') <=> FlatSorted(Append(output', <<>>))
    BY <1>3, EmptyEventSorted
  <2> QED
    BY <1>6, <2>1, <2>2
<1>8. \A g : InSome(g, Events') => g = f \/ InSome(g, Events)
  <2>1. FlatUnique(Events) /\ Unique(fOutOfOrder)
    BY DEF PlaceInv
  <2>2. \A g : g # f => (InSome(g, Events') <=> InSome(g, Events))
    BY <2>1, BuildPlaces
  <2> QED
    BY <2>2
<1> QED
  BY <1>2, <1>4, <1>7, <1>8

\* A step that builds fragment f, when nothing that waits afterwards is earlier
\* and nothing earlier can come.
LEMMA BuildKeepsOrder ==
    ASSUME TypeInv, TypeInv', PlaceInv, OrderInv, pc # "done", pc' # "done",
           UNCHANGED <<options, fed, inputFinished>>, raced => raced',
           NEW f \in fOrdered \cup Elements(fInputQueue), f \in Fragments, Build(f),
           fOrdered' \subseteq fOrdered \cup Elements(fInputQueue),
           Elements(fInputQueue') \subseteq Elements(fInputQueue),
           fInputQueue = <<>> => fInputQueue' = <<>>,
           InOrder =>
             /\ \A g \in fOrdered' \cup Elements(fInputQueue') : f.key <= g.key
             /\ (inputFinished /\ fInputQueue' = <<>>) \/ Deep(f.key)
    PROVE  OrderInv'
<1> SUFFICES ASSUME InOrder'
             PROVE  (/\ late = {}
                     /\ FlatSorted(Events)
                     /\ \A g : InSome(g, Events) =>
                          /\ \A h \in fOrdered \cup Elements(fInputQueue) : g.key <= h.key
                          /\ (inputFinished /\ fInputQueue = <<>>) \/ Deep(g.key))'
  BY DEF OrderInv
<1>1. InOrder
  BY DEF InOrder, Sorts, DepthSuffices
<1>2. f \in Fed /\ ~Out(f)
  BY DEF PlaceInv, AtMostOnePlace
<1>3. \A g : InSome(g, Events) => g.key <= f.key
  BY <1>1 DEF OrderInv
<1>4. /\ late' = {} /\ FlatSorted(Events')
      /\ \A g : InSome(g, Events') => g = f \/ InSome(g, Events)
  BY <1>1, <1>2, <1>3, BuildInOrder
<1>5. /\ FlatSorted(Events)' <=> FlatSorted(Events')
      /\ \A g : InSome(g, Events)' <=> InSome(g, Events')
      /\ \A g : Deep(g.key)' <=> Deep(g.key)
      /\ Elements(fInputQueue)' = Elements(fInputQueue')
  BY DEF FlatSorted, InSome, Deep, Fed, Elements
<1>6. ASSUME NEW g, InSome(g, Events')
      PROVE  /\ \A h \in fOrdered' \cup Elements(fInputQueue') : g.key <= h.key
             /\ (inputFinished' /\ fInputQueue' = <<>>) \/ Deep(g.key)
  <2>1. CASE g = f
    BY <1>1, <2>1
  <2>2. CASE InSome(g, Events)
    BY <1>1, <2>2 DEF OrderInv
  <2> QED
    BY <1>4, <1>6, <2>1, <2>2
<1> QED
  BY <1>4, <1>5, <1>6

\* A step that builds nothing and pushes nothing.
LEMMA MoveKeepsOrder ==
    ASSUME OrderInv, options' = options, fed' = fed, late' = late, Events' = Events,
           raced => raced', inputFinished => inputFinished',
           fInputQueue = <<>> => fInputQueue' = <<>>,
           fOrdered' \cup Elements(fInputQueue') \subseteq fOrdered \cup Elements(fInputQueue)
    PROVE  OrderInv'
<1>1. InOrder' => InOrder
  BY DEF InOrder, Sorts, DepthSuffices
<1>2. /\ FlatSorted(Events)' <=> FlatSorted(Events)
      /\ \A g : InSome(g, Events)' <=> InSome(g, Events)
      /\ \A g : Deep(g.key)' <=> Deep(g.key)
      /\ Elements(fInputQueue)' = Elements(fInputQueue')
  BY DEF FlatSorted, InSome, Deep, Fed, Elements
<1> QED
  BY <1>1, <1>2 DEF OrderInv

\* What the parent pushes is not earlier than what is in events: the depth
\* would not have sufficed.
LEMMA FeedKeepsOrder ==
    ASSUME TypeInv, PlaceInv, OrderInv, NEW key \in Keys, Feed(key)
    PROVE  OrderInv'
<1> DEFINE new == [id |-> Len(fed) + 1, key |-> key]
<1> SUFFICES ASSUME InOrder'
             PROVE  (/\ late = {}
                     /\ FlatSorted(Events)
                     /\ \A f : InSome(f, Events) =>
                          /\ \A g \in fOrdered \cup Elements(fInputQueue) : f.key <= g.key
                          /\ (inputFinished /\ fInputQueue = <<>>) \/ Deep(f.key))'
  BY DEF OrderInv
<1>1. /\ fInputQueue \in Seq(Fragments) /\ fed \in Seq(Keys) /\ ~inputFinished
      /\ fInputQueue' = Append(fInputQueue, new) /\ fed' = Append(fed, key)
      /\ Fed' = Fed \cup {new} /\ new.id = Len(fed) + 1 /\ new.key = key
      /\ UNCHANGED <<options, fOrdered, late, output, fNextEvent, pc, raced>>
  BY FedGrows DEF Feed, builder, TypeInv, TypeOK
<1>2. /\ DOMAIN fed \subseteq DOMAIN fed' /\ fed' \in Seq(Keys)
      /\ \A i \in DOMAIN fed : fed'[i] = fed[i]
  BY <1>1
<1>3. InOrder /\ DepthOf(fed')
  <2>1. DepthOf(fed')
    BY DEF InOrder, DepthSuffices, DepthOf
  <2>2. DepthOf(fed)
    BY <1>1, <2>1, DepthOfPrefix
  <2> QED
    BY <1>1, <1>2, <2>1, <2>2 DEF InOrder, Sorts, DepthSuffices, DepthOf
<1>4. Fed = FedOf(fed) /\ Fed' = FedOf(fed') /\ key \in Int
  BY EventAssumption DEF Fed, FedOf
<1>5. new \in Fed' /\ Fed \subseteq Fed' /\ \A g \in Fed : g.id < new.id
  <2>1. \A i \in DOMAIN fed : i < Len(fed) + 1
    BY <1>1
  <2>2. \A g \in Fed : g.id < Len(fed) + 1
    BY <2>1 DEF Fed
  <2> QED
    BY <1>1, <2>2
<1>6. Elements(fInputQueue') = Elements(fInputQueue) \cup {new}
  BY <1>1, ElementsAppend
<1> HIDE DEF new
<1>7. /\ FlatSorted(Events)' <=> FlatSorted(Events)
      /\ \A g : InSome(g, Events)' <=> InSome(g, Events)
      /\ Elements(fInputQueue)' = Elements(fInputQueue')
  BY <1>1 DEF FlatSorted, InSome, Elements, Events
<1>8. ASSUME NEW f, InSome(f, Events)
      PROVE  f.key <= new.key /\ Deep(f.key)'
  <2>1. f \in Fed /\ f.key \in Int
    BY <1>8, FedTyped DEF PlaceInv, Out
  <2>2. PICK F \in SUBSET Fed : /\ IsFiniteSet(F) /\ Cardinality(F) >= SortDepth
                                /\ \A g \in F : g.key >= f.key
    BY <1>1, <1>3, <1>8 DEF OrderInv, Deep
  <2>3. F \in SUBSET Fed' /\ Deep(f.key)'
    BY <1>5, <2>2 DEF Deep
  <2>4. ASSUME ~(f.key <= new.key) PROVE FALSE
    <3>1. \A g \in F : g.id < new.id /\ g.key > new.key
      <4> TAKE g \in F
      <4>1. g \in Fed /\ g.key \in Int /\ g.key >= f.key
        BY <2>2, FedTyped
      <4> QED
        BY <1>1, <1>4, <1>5, <2>1, <2>4, <4>1
    <3> QED
      BY <1>2, <1>3, <1>4, <1>5, <2>2, <2>3, <3>1, TooMany
  <2> QED
    BY <2>3, <2>4
<1> QED
  BY <1>1, <1>3, <1>6, <1>7, <1>8 DEF OrderInv

LEMMA FirstIsLeast ==
    ASSUME TypeInv, options.mode # "skip", NEW fragments \in SUBSET Fed,
           NEW f \in fragments, IsFirst(f, fragments)
    PROVE  \A g \in fragments : f.key <= g.key
<1> TAKE g \in fragments
<1>1. f.key \in Int /\ g.key \in Int
  BY FedTyped
<1>2. g = f \/ Before(f, g)
  BY DEF IsFirst
<1> QED
  BY <1>1, <1>2 DEF Before

\* The multiset holds as many fragments as the depth, so that none of those
\* behind it is earlier than its first.
LEMMA SortKeepsOrder ==
    ASSUME TypeInv, TypeInv', KnownInv, PlaceInv, FifoInv, OrderInv, SortFragment
    PROVE  OrderInv'
<1> DEFINE fragments == fOrdered \cup {Head(fInputQueue)}
<1>1. /\ fInputQueue \in Seq(Fragments) /\ fOrdered \subseteq Fragments
      /\ fed \in Seq(Keys) /\ IsFiniteSet(fOrdered)
  BY DEF TypeInv, TypeOK
<1>2. PopFragment /\ EnoughToSort(fragments)
  BY DEF SortFragment
<1>3. PICK f \in fragments : /\ IsFirst(f, fragments) /\ Build(f)
                             /\ fOrdered' = fragments \ {f}
  BY DEF SortFragment
<1>4. /\ fInputQueue # <<>> /\ fInputQueue' = Tail(fInputQueue)
      /\ UNCHANGED <<options, fed, inputFinished, raced, pc>> /\ pc # "done"
  BY <1>2 DEF PopFragment
<1>5. /\ Head(fInputQueue) = fInputQueue[1] /\ 1 \in DOMAIN fInputQueue
      /\ \A i \in DOMAIN fInputQueue' :
           /\ i + 1 \in DOMAIN fInputQueue /\ 1 < i + 1
           /\ fInputQueue'[i] = fInputQueue[i + 1]
  BY <1>1, <1>4
<1>6. /\ fragments \subseteq fOrdered \cup Elements(fInputQueue)
      /\ fragments \subseteq Fed /\ f \in Fragments
      /\ Elements(fInputQueue') \subseteq Elements(fInputQueue)
  BY <1>1, <1>5 DEF Elements, KnownInv
<1>7. \A g \in fragments, h \in Elements(fInputQueue') : g.id < h.id
  BY <1>5 DEF FifoInv, Elements
<1>8. IsFiniteSet(fragments) /\ Cardinality(fragments) \in Nat
  BY <1>1, FS_AddElement, FS_CardinalityType
<1>9. Cardinality(fragments) >= SortDepth
  BY <1>2, <1>8, EventAssumption DEF EnoughToSort
<1> HIDE DEF fragments
<1>10. ASSUME InOrder
       PROVE  /\ \A g \in fOrdered' \cup Elements(fInputQueue') : f.key <= g.key
              /\ Deep(f.key)
  <2>1. \A g \in fragments : f.key <= g.key
    BY <1>3, <1>6, <1>10, FirstIsLeast DEF InOrder, Sorts
  <2>2. f \in Fed /\ f.key \in Int
    BY <1>6, FedTyped
  <2>3. \A g \in fragments : g \in Fed /\ g.key \in Int /\ g.key >= f.key
    BY <1>6, <2>1, <2>2, FedTyped
  <2>4. Deep(f.key)
    BY <1>6, <1>8, <1>9, <2>3 DEF Deep
  <2>5. ASSUME NEW h \in Elements(fInputQueue') PROVE f.key <= h.key
    <3>1. h \in Fed /\ h.key \in Int
      BY <1>6, FedTyped DEF KnownInv
    <3>2. ASSUME ~(f.key <= h.key) PROVE FALSE
      <4>1. \A g \in fragments : g.id < h.id /\ g.key > h.key
        BY <1>7, <2>2, <2>3, <3>1, <3>2
      <4>2. Fed = FedOf(fed) /\ DepthOf(fed)
        BY <1>10 DEF Fed, FedOf, InOrder, DepthSuffices, DepthOf
      <4>3. ~DepthOf(fed)
        BY <1>1, <1>6, <1>8, <1>9, <3>1, <4>1, <4>2, TooMany
      <4> QED
        BY <4>2, <4>3
    <3> QED
      BY <3>2
  <2> QED
    BY <1>3, <2>1, <2>4, <2>5
<1> QED
  BY <1>3, <1>4, <1>6, <1>10, BuildKeepsOrder

\* When nothing comes any more the multiset holds all there is.
LEMMA LeftoverKeepsOrder ==
    ASSUME TypeInv, TypeInv', KnownInv, PlaceInv, OrderInv, BuildLeftover
    PROVE  OrderInv'
<1>1. /\ ParentIsDead /\ pc = "check" /\ pc' = "pop"
      /\ UNCHANGED <<options, fed, inputFinished, fInputQueue>> /\ inputFinished
      /\ raced' = (raced \/ fInputQueue # <<>>)
  BY DEF BuildLeftover, ParentIsDead, ParentIsLive
<1>2. PICK f \in fOrdered : IsFirst(f, fOrdered) /\ fOrdered' = fOrdered \ {f} /\ Build(f)
  BY DEF BuildLeftover
<1>3. CASE raced'
  BY <1>3 DEF OrderInv, InOrder, Sorts
<1>4. CASE ~raced'
  <2>0. fInputQueue = <<>> /\ fInputQueue' = <<>>
    BY Zenon, <1>1, <1>4
  <2>1. fInputQueue = <<>> /\ Elements(fInputQueue) = {} /\ Elements(fInputQueue') = {}
    BY <2>0 DEF Elements
  <2>2. f \in Fragments /\ fOrdered \subseteq Fed
    BY DEF TypeInv, TypeOK, KnownInv
  <2>3. InOrder => \A g \in fOrdered : f.key <= g.key
    BY <1>2, <2>2, FirstIsLeast DEF InOrder, Sorts
  <2> QED
    BY <1>1, <1>2, <2>1, <2>2, <2>3, BuildKeepsOrder
<1> QED
  BY <1>3, <1>4

LEMMA NextOrder ==
    TypeInv /\ TypeInv' /\ KnownInv /\ PlaceInv /\ FifoInv /\ OrderInv /\ [Next]_vars
        => OrderInv'
<1> SUFFICES ASSUME TypeInv, TypeInv', KnownInv, PlaceInv, FifoInv, OrderInv, [Next]_vars
             PROVE  OrderInv'
  OBVIOUS
<1>1. fInputQueue \in Seq(Fragments)
  BY DEF TypeInv, TypeOK
<1>2. ASSUME fInputQueue # <<>>, fInputQueue' = Tail(fInputQueue)
      PROVE  /\ Elements(fInputQueue') \subseteq Elements(fInputQueue)
             /\ Head(fInputQueue) \in Elements(fInputQueue)
  <2>1. /\ Head(fInputQueue) = fInputQueue[1] /\ 1 \in DOMAIN fInputQueue
        /\ \A i \in DOMAIN fInputQueue' :
             i + 1 \in DOMAIN fInputQueue /\ fInputQueue'[i] = fInputQueue[i + 1]
    BY <1>1, <1>2
  <2> QED
    BY <2>1 DEF Elements
<1>3. CASE CollectFragment
  <2>1. /\ fInputQueue # <<>> /\ fInputQueue' = Tail(fInputQueue)
        /\ UNCHANGED <<options, fed, late, inputFinished, raced>> /\ Events' = Events
        /\ fOrdered' = fOrdered \cup {Head(fInputQueue)}
    BY <1>3 DEF CollectFragment, PopFragment, builder, Events
  <2> QED
    BY <1>2, <2>1, MoveKeepsOrder
<1>4. CASE PassFragment
  <2>1. options.skipSort /\ options' = options
    BY <1>4 DEF PassFragment, PopFragment
  <2> QED
    BY <2>1 DEF OrderInv, InOrder, Sorts
<1>5. CASE ClearQueue
  <2>1. /\ fInputQueue # <<>> /\ fInputQueue' = Tail(fInputQueue)
        /\ UNCHANGED <<options, fed, late, inputFinished, raced, fOrdered>>
        /\ Events' = Events
    BY <1>5 DEF ClearQueue, builder, Events
  <2> QED
    BY <1>2, <2>1, MoveKeepsOrder
<1>6. CASE FinishInput \/ FindEmpty \/ WaitForParent \/ Finish \/ UNCHANGED vars
  <2>1. UNCHANGED <<options, fed, late, fInputQueue, fOrdered>>
    BY <1>6 DEF FinishInput, FindEmpty, WaitForParent, Finish, ParentIsDead, vars, builder
  <2>4. inputFinished => inputFinished'
    BY <1>6 DEF FinishInput, FindEmpty, WaitForParent, Finish, ParentIsDead, vars
  <2>5. raced => raced'
    <3>1. CASE FinishInput \/ FindEmpty \/ WaitForParent \/ UNCHANGED vars
      BY <3>1 DEF FinishInput, FindEmpty, WaitForParent, vars
    <3>2. CASE Finish
      BY Zenon, <3>2 DEF Finish, ParentIsDead
    <3> QED
      BY <1>6, <3>1, <3>2
  <2>2. Events' = Events
    <3>1. CASE FinishInput \/ FindEmpty \/ WaitForParent \/ UNCHANGED vars
      BY <3>1 DEF FinishInput, FindEmpty, WaitForParent, vars, builder, Events
    <3>2. CASE Finish
      BY <3>2 DEF Finish, ParentIsDead, LastEvent, Events
    <3> QED
      BY <1>6, <3>1, <3>2
  <2>3. /\ Elements(fInputQueue') = Elements(fInputQueue)
        /\ fInputQueue = <<>> => fInputQueue' = <<>>
    BY <2>1
  <2> QED
    BY <2>1, <2>2, <2>3, <2>4, <2>5, MoveKeepsOrder
<1> QED
  BY <1>3, <1>4, <1>5, <1>6, FeedKeepsOrder, SortKeepsOrder, LeftoverKeepsOrder
  DEF Next, Iteration

\* When no fragment comes after as many later ones as the sort depth, the events
\* come out in order, and no fragment is called late.
THEOREM SortedOut == Spec => []SortedIfDepthSuffices
<1>1. Init => KnownInv /\ PlaceInv /\ FifoInv /\ OrderInv
  <2> SUFFICES ASSUME Init PROVE KnownInv /\ PlaceInv /\ FifoInv /\ OrderInv
    OBVIOUS
  <2>1. /\ fInputQueue = <<>> /\ fOutOfOrder = <<>> /\ late = {} /\ Events = <<>>
        /\ fOrdered = {} /\ cleared = {} /\ DOMAIN <<>> = {}
        /\ Elements(fInputQueue) = {} /\ Elements(fOutOfOrder) = {}
    BY DEF Init, Events, Elements
  <2>2. /\ Unique(<<>>) /\ FlatUnique(<<>>) /\ FlatSorted(<<>>)
        /\ \A g : ~InSome(g, <<>>)
    BY DEF Unique, FlatUnique, FlatSorted, InSome
  <2>3. PlaceInv
    BY <2>1, <2>2 DEF PlaceInv, AtMostOnePlace, Out
  <2> QED
    BY <2>1, <2>2, <2>3 DEF KnownInv, FifoInv, OrderInv
<1>2. OrderInv => SortedIfDepthSuffices
  <2> SUFFICES ASSUME OrderInv, InOrder
               PROVE  /\ late = {}
                      /\ \A e \in Elements(Events) : Ordered(e)
                      /\ \A i, j \in DOMAIN Events : i < j =>
                           \A f \in Elements(Events[i]), g \in Elements(Events[j]) :
                               f.key <= g.key
    BY DEF SortedIfDepthSuffices, InOrder
  <2>1. late = {} /\ FlatSorted(Events)
    BY DEF OrderInv
  <2> QED
    BY <2>1 DEF FlatSorted, Ordered, Elements
<1> QED
  BY <1>1, <1>2, NextKnown, NextPlaces, NextFifo, NextOrder, TypeInvariant, PTL DEF Spec
=============================================================================
