----------------------- MODULE StoppableThreadProofs -----------------------
(***************************************************************************)
(* Proofs about StoppableThread, for any loops fed in any way by sources.  *)
(***************************************************************************)
EXTENDS StoppableThread, TLAPS

Places == {"test", "lock", "held", "wait", "iterate", "push", "drained",
           "on_end", "done"}

Calls == {"idle", "resume", "pause", "stop", "until_done", "stop_again",
          "join", "delete", "ended"}

-----------------------------------------------------------------------------
(* Types *)

LEMMA InitTyped == Init => TypeOK
<1> SUFFICES ASSUME Init
             PROVE  TypeOK
  OBVIOUS
<1>1. /\ fRunning \in [Loops -> BOOLEAN]
      /\ fPaused \in [Loops -> BOOLEAN]
      /\ finished \in [Loops -> BOOLEAN]
  BY DEF Init
<1>2. /\ pc \in [Loops -> Places]
      /\ late \in [Loops -> Nat]
      /\ pushes \in [Loops -> Seq(Loops)]
      /\ full \in [Loops -> BOOLEAN]
  BY DEF Init, Places
<1>3. todo \in Seq(Loops) /\ call = "resume" /\ checked = FALSE /\ fThreadMap = Loops
  BY ThreadAssumption DEF Init
<1> QED
  BY <1>1, <1>2, <1>3 DEF TypeOK, Places

LEMMA TakesItemTyped ==
    ASSUME TypeOK, NEW l \in Loops, TakesItem(l)
    PROVE  pushes' \in [Loops -> Seq(Loops)] /\ full' \in [Loops -> BOOLEAN]
<1>1. PICK out \in Outputs(l) : pushes' = [pushes EXCEPT ![l] = out]
  BY DEF TakesItem
<1>2. PICK n \in 0 .. PushBound : out \in [1 .. n -> Readers(l)]
  BY <1>1 DEF Outputs
<1>3. out \in Seq(Loops)
  <2>1. Readers(l) \subseteq Loops /\ n \in Nat
    BY ThreadAssumption DEF Readers
  <2>2. out \in [1 .. n -> Loops]
    BY <1>2, <2>1
  <2> QED
    BY <2>1, <2>2
<1> QED
  BY <1>1, <1>3 DEF TakesItem, MakesRoom, TypeOK

LEMMA PushTyped ==
    ASSUME TypeOK, NEW l \in Loops, Push(l)
    PROVE  pushes' \in [Loops -> Seq(Loops)] /\ full' \in [Loops -> BOOLEAN]
<1>1. pushes[l] \in Seq(Loops) /\ pushes[l] # <<>>
  BY DEF TypeOK, Push
<1>2. Tail(pushes[l]) \in Seq(Loops)
  BY <1>1
<1> QED
  BY <1>2 DEF Push, TypeOK

LEMMA LoopStepTyped ==
    ASSUME TypeOK, NEW l \in Loops, LoopStep(l)
    PROVE  TypeOK'
<1> USE DEF TypeOK, Goto, mainVars, queueVars
<1>1. CASE Test(l)
  BY <1>1 DEF Test
<1>2. CASE Lock(l)
  BY <1>2 DEF Lock
<1>3. CASE WaitWhilePaused(l)
  BY <1>3 DEF WaitWhilePaused
<1>4. CASE BeginIteration(l)
  <2>1. late' \in [Loops -> Nat]
    BY <1>4 DEF BeginIteration
  <2> QED
    BY <1>4, <2>1 DEF BeginIteration
<1>5. CASE IterationSucceeds(l)
  BY <1>5 DEF IterationSucceeds
<1>6. CASE FindsInputFinished(l)
  BY <1>6 DEF FindsInputFinished
<1>7. CASE IterationFails(l)
  BY <1>7 DEF IterationFails
<1>8. CASE OnEnd(l)
  <2>1. finished' \in [Loops -> BOOLEAN]
    BY <1>8 DEF OnEnd
  <2> QED
    BY <1>8, <2>1 DEF OnEnd
<1>9. CASE TakesItem(l)
  BY <1>9, TakesItemTyped DEF TakesItem
<1>10. CASE Push(l)
  BY <1>10, PushTyped DEF Push
<1> QED
  BY <1>1, <1>2, <1>3, <1>4, <1>5, <1>6, <1>7, <1>8, <1>9, <1>10 DEF LoopStep

\* todo shrinks by its head.
LEMMA NextLoopTyped ==
    ASSUME TypeOK, todo # <<>>, NextLoop
    PROVE  /\ todo' \in Seq(Loops) /\ checked' = FALSE
           /\ Current \in Loops /\ todo[1] = Current
           /\ Len(todo') = Len(todo) - 1
           /\ \A i \in 2 .. Len(todo) : todo'[i - 1] = todo[i]
<1>1. todo \in Seq(Loops) /\ todo' = Tail(todo) /\ todo # <<>>
  BY DEF TypeOK, NextLoop
<1>2. Len(todo) \in Nat \ {0} /\ Current = todo[1] /\ todo[1] \in Loops
  BY <1>1 DEF Current
<1>3. \A i \in 2 .. Len(todo) : Tail(todo)[i - 1] = todo[i]
  BY <1>1, <1>2
<1> QED
  BY <1>1, <1>2, <1>3 DEF NextLoop

LEMMA StartCallTyped ==
    ASSUME TypeOK, NEW next \in Calls, NEW over \in Seq(Loops),
           StartCall(next, over)
    PROVE  TypeOK'
  BY DEF TypeOK, StartCall, loopVars, queueVars, Calls

\* The steps of the main thread within a call leave the loops' places alone.
LEMMA MainStepTyped ==
    ASSUME TypeOK, MainStep
    PROVE  TypeOK'
<1> USE DEF TypeOK, queueVars
<1>1. CASE CheckRunning
  <2>1. CASE fRunning[Current]
    BY <1>1, <2>1 DEF CheckRunning, loopVars
  <2>2. CASE ~fRunning[Current]
    BY <1>1, <2>2, NextLoopTyped DEF CheckRunning, loopVars
  <2> QED
    BY <2>1, <2>2
<1>2. CASE Resume
  <2>1. todo # <<>> /\ NextLoop
    BY <1>2 DEF Resume
  <2>2. fPaused' \in [Loops -> BOOLEAN]
    BY <1>2 DEF Resume
  <2> QED
    BY <1>2, <2>1, <2>2, NextLoopTyped DEF Resume
<1>3. CASE Pause
  <2>1. todo # <<>> /\ NextLoop
    BY <1>3 DEF Pause
  <2>2. fPaused' \in [Loops -> BOOLEAN]
    BY <1>3 DEF Pause
  <2> QED
    BY <1>3, <2>1, <2>2, NextLoopTyped DEF Pause
<1>4. CASE Stop
  <2>1. fPaused' \in [Loops -> BOOLEAN] /\ fRunning' \in [Loops -> BOOLEAN]
    BY <1>4 DEF Stop
  <2> QED
    BY <1>4, <2>1, NextLoopTyped DEF Stop
<1>5. CASE Join
  BY <1>5, NextLoopTyped DEF Join, loopVars
<1>6. CASE Delete
  BY <1>6, NextLoopTyped DEF Delete, loopVars
<1>7. ASSUME NEW next \in Calls, NEW over \in Seq(Loops), StartCall(next, over)
      PROVE  TypeOK'
  BY <1>7, StartCallTyped DEF StartCall
<1>8. CASE \/ ResumeOrPauseReturns \/ SendStopReturns \/ LoopUntilDone
           \/ StopAllJoins \/ StopAllDeletes \/ StopAllReturns
  <2>1. <<>> \in Seq(Loops) /\ MapOrder \in Seq(Loops)
    BY ThreadAssumption
  <2> HIDE DEF TypeOK
  <2> QED
    BY <1>7, <1>8, <2>1
    DEF ResumeOrPauseReturns, SendStopReturns, LoopUntilDone, StopAllJoins,
        StopAllDeletes, StopAllReturns, Calls
<1> QED
  BY <1>1, <1>2, <1>3, <1>4, <1>5, <1>6, <1>8 DEF MainStep

LEMMA CommandTyped ==
    ASSUME TypeOK, Command
    PROVE  TypeOK'
<1>1. PICK next \in Calls : StartCall(next, MapOrder)
  BY DEF Command, ResumeAll, PauseAll, Terminate, Calls
<1>2. MapOrder \in Seq(Loops)
  BY ThreadAssumption
<1> QED
  BY <1>1, <1>2, StartCallTyped DEF StartCall

\* What a step of a loop leaves to the main thread.
LEMMA LoopStepFrame ==
    ASSUME NEW l \in Loops, LoopStep(l)
    PROVE  fThreadMap' = fThreadMap /\ UNCHANGED mainVars
  BY DEF LoopStep, Test, Lock, WaitWhilePaused, BeginIteration, TakesItem, Push,
         IterationSucceeds, FindsInputFinished, IterationFails, OnEnd

LEMMA NextTyped == TypeOK /\ [Next]_vars => TypeOK'
<1> SUFFICES ASSUME TypeOK, [Next]_vars
             PROVE  TypeOK'
  OBVIOUS
<1>1. ASSUME NEW l \in Loops, LoopStep(l)
      PROVE  TypeOK'
  BY <1>1, LoopStepTyped, LoopStepFrame DEF mainVars
<1>2. CASE UNCHANGED vars
  BY <1>2 DEF vars, loopVars, queueVars, mainVars, TypeOK
<1> QED
  BY <1>1, <1>2, MainStepTyped, CommandTyped DEF Next

\* Every variable always holds a value of its type.
THEOREM TypeCorrect == Spec => []TypeOK
  BY InitTyped, NextTyped, PTL DEF Spec

-----------------------------------------------------------------------------
(* The main thread leaves the places of the loops alone *)

LEMMA MainFrame ==
    ASSUME MainStep \/ Command
    PROVE  pc' = pc /\ finished' = finished /\ late' = late
  BY DEF MainStep, Command, CheckRunning, Resume, Pause, Stop, Join, Delete,
         ResumeOrPauseReturns, SendStopReturns, LoopUntilDone, StopAllJoins,
         StopAllDeletes, StopAllReturns, ResumeAll, PauseAll, Terminate,
         StartCall, loopVars

\* fRunning is reset by Stop, in a source that is outside Iteration.
LEMMA MainStops ==
    ASSUME MainStep \/ Command, TypeOK
    PROVE  \/ fRunning' = fRunning
           \/ /\ Current \in Sources /\ MutexFree(Current)
              /\ fRunning' = [fRunning EXCEPT ![Current] = FALSE]
  BY DEF MainStep, Command, CheckRunning, Resume, Pause, Stop, Join, Delete,
         ResumeOrPauseReturns, SendStopReturns, LoopUntilDone, StopAllJoins,
         StopAllDeletes, StopAllReturns, ResumeAll, PauseAll, Terminate,
         StartCall, loopVars, Stoppable

-----------------------------------------------------------------------------
(* Late iterations *)

\* A late Iteration is begun only from the way between the test of fRunning
\* and Iteration, and there is no way back to it.
LateInv ==
    \A l \in Loops :
        /\ late[l] <= 1
        /\ fRunning[l] => late[l] = 0
        /\ pc[l] \in {"lock", "held", "wait"} => late[l] = 0

LEMMA NextLate == TypeOK /\ LateInv /\ [Next]_vars => LateInv'
<1> SUFFICES ASSUME TypeOK, LateInv, [Next]_vars
             PROVE  LateInv'
  OBVIOUS
<1>1. ASSUME NEW k \in Loops, LoopStep(k)
      PROVE  LateInv'
  <2> SUFFICES ASSUME NEW l \in Loops
               PROVE  /\ late'[l] <= 1
                      /\ fRunning'[l] => late'[l] = 0
                      /\ pc'[l] \in {"lock", "held", "wait"} => late'[l] = 0
    BY DEF LateInv
  <2> USE DEF TypeOK, LateInv, Goto
  <2>1. CASE Test(k)
    BY <2>1 DEF Test
  <2>2. CASE Lock(k)
    BY <2>2 DEF Lock
  <2>3. CASE WaitWhilePaused(k)
    BY <2>3 DEF WaitWhilePaused
  <2>4. CASE BeginIteration(k)
    BY <2>4 DEF BeginIteration
  <2>5. CASE IterationSucceeds(k)
    BY <2>5 DEF IterationSucceeds
  <2>6. CASE FindsInputFinished(k)
    BY <2>6 DEF FindsInputFinished
  <2>7. CASE IterationFails(k)
    BY <2>7 DEF IterationFails
  <2>8. CASE OnEnd(k)
    BY <2>8 DEF OnEnd
  <2>9. CASE TakesItem(k) \/ Push(k)
    BY <2>9 DEF TakesItem, Push
  <2> QED
    BY <1>1, <2>1, <2>2, <2>3, <2>4, <2>5, <2>6, <2>7, <2>8, <2>9 DEF LoopStep
<1>2. CASE MainStep \/ Command
  BY <1>2, MainFrame, MainStops DEF LateInv, TypeOK
<1>3. CASE UNCHANGED vars
  BY <1>3 DEF vars, loopVars, LateInv
<1> QED
  BY <1>1, <1>2, <1>3 DEF Next

\* A loop that has been stopped begins at most one more Iteration.
THEOREM LateIterations == Spec => []AtMostOneLateIteration
<1>1. Init => LateInv
  BY DEF Init, LateInv
<1>3. LateInv => AtMostOneLateIteration
  BY DEF LateInv, AtMostOneLateIteration
<1> QED
  BY <1>1, <1>3, InitTyped, NextTyped, NextLate, PTL DEF Spec

-----------------------------------------------------------------------------
(* Stop and Iteration *)

\* fRunning is not reset behind the back of an Iteration.
THEOREM StopWaits == Spec => StopWaitsForIteration
<1> DEFINE Waits == \A l \in Loops :
              (fRunning[l] /\ ~fRunning'[l] /\ pc[l] \in Owning) => pc'[l] = "on_end"
<1>1. TypeOK /\ [Next]_vars => [Waits]_vars
  <2> SUFFICES ASSUME TypeOK, Next
               PROVE  Waits
    OBVIOUS
  <2>1. ASSUME NEW k \in Loops, LoopStep(k)
        PROVE  Waits
    BY <2>1 DEF TypeOK, Goto, LoopStep, Test, Lock, WaitWhilePaused,
                BeginIteration, TakesItem, Push, IterationSucceeds,
                FindsInputFinished, IterationFails, OnEnd
  <2>2. CASE MainStep \/ Command
    BY <2>2, MainStops DEF TypeOK, MutexFree
  <2> QED
    BY <2>1, <2>2 DEF Next
<1> QED
  BY <1>1, InitTyped, NextTyped, PTL DEF Spec, StopWaitsForIteration

-----------------------------------------------------------------------------
(* Ends in the order of the data *)

\* A loop that is no source resets its own fRunning, after it has found its
\* input finished; no input is ever taken back to unfinished.
FeederInv ==
    \A l \in Loops \ Sources :
        /\ pc[l] \in {"drained", "on_end", "done"} => finished[Feeder[l]]
        /\ ~fRunning[l] => pc[l] \in {"on_end", "done"}

LEMMA NextFeeder == TypeOK /\ FeederInv /\ [Next]_vars => FeederInv'
<1> SUFFICES ASSUME TypeOK, FeederInv, [Next]_vars
             PROVE  FeederInv'
  OBVIOUS
<1>1. ASSUME NEW k \in Loops, LoopStep(k)
      PROVE  FeederInv'
  <2> SUFFICES ASSUME NEW l \in Loops \ Sources
               PROVE  /\ pc'[l] \in {"drained", "on_end", "done"}
                             => finished'[Feeder[l]]
                      /\ ~fRunning'[l] => pc'[l] \in {"on_end", "done"}
    BY DEF FeederInv
  <2>1. Feeder[l] \in Loops
    BY ThreadAssumption
  <2> USE DEF TypeOK, FeederInv, Goto
  <2>2. CASE Test(k)
    BY <2>1, <2>2 DEF Test
  <2>3. CASE Lock(k)
    BY <2>1, <2>3 DEF Lock
  <2>4. CASE WaitWhilePaused(k)
    BY <2>1, <2>4 DEF WaitWhilePaused
  <2>5. CASE BeginIteration(k)
    BY <2>1, <2>5 DEF BeginIteration
  <2>6. CASE IterationSucceeds(k)
    BY <2>1, <2>6 DEF IterationSucceeds, AllPushed, FindsNothing
  <2>7. CASE FindsInputFinished(k)
    BY <2>1, <2>7 DEF FindsInputFinished, FindsNothing
  <2>8. CASE IterationFails(k)
    BY <2>1, <2>8 DEF IterationFails, AllPushed, FindsNothing
  <2>9. CASE OnEnd(k)
    BY <2>1, <2>9 DEF OnEnd
  <2>10. CASE TakesItem(k) \/ Push(k)
    BY <2>1, <2>10 DEF TakesItem, Push
  <2> QED
    BY <1>1, <2>2, <2>3, <2>4, <2>5, <2>6, <2>7, <2>8, <2>9, <2>10 DEF LoopStep
<1>2. CASE MainStep \/ Command
  <2> SUFFICES ASSUME NEW l \in Loops \ Sources
               PROVE  fRunning'[l] = fRunning[l]
    BY <1>2, MainFrame DEF FeederInv
  <2>1. fRunning \in [Loops -> BOOLEAN]
    BY DEF TypeOK
  <2> QED
    BY <1>2, <2>1, MainStops
<1>3. CASE UNCHANGED vars
  BY <1>3 DEF vars, loopVars, FeederInv
<1> QED
  BY <1>1, <1>2, <1>3 DEF Next

\* No loop ends while the loop that feeds it may still fill its queue.
THEOREM FeederFirst == Spec => []NoFeederLeftBehind
<1>1. Init => FeederInv
  BY DEF Init, FeederInv
<1>3. FeederInv => NoFeederLeftBehind
  BY DEF FeederInv, NoFeederLeftBehind
<1> QED
  BY <1>1, <1>3, InitTyped, NextTyped, NextFeeder, PTL DEF Spec

-----------------------------------------------------------------------------
(* Deletion *)

\* While StopAll joins, every loop has ended or is still to be joined; when it
\* deletes, every loop has ended.
JoinInv ==
    /\ call = "join" =>
          \A l \in Loops : pc[l] = "done" \/ \E i \in 1 .. Len(todo) : todo[i] = l
    /\ call \in {"delete", "ended"} => \A l \in Loops : pc[l] = "done"
    /\ fThreadMap # Loops => call \in {"delete", "ended"}

LEMMA NextJoin == TypeOK /\ JoinInv /\ [Next]_vars => JoinInv'
<1> SUFFICES ASSUME TypeOK, JoinInv, [Next]_vars
             PROVE  JoinInv'
  OBVIOUS
<1> USE DEF TypeOK
<1>1. ASSUME NEW k \in Loops, LoopStep(k)
      PROVE  JoinInv'
  <2>1. \A l \in Loops : pc[l] = "done" => pc'[l] = "done"
    BY <1>1 DEF TypeOK, Goto, LoopStep, Test, Lock, WaitWhilePaused,
                BeginIteration, TakesItem, Push, IterationSucceeds, AllPushed,
                FindsNothing, FindsInputFinished, IterationFails, OnEnd
  <2> QED
    BY <1>1, <2>1, LoopStepFrame DEF JoinInv, mainVars
<1>2. CASE Join
  <2>1. NextLoop /\ todo # <<>> /\ pc[Current] = "done" /\ pc' = pc
        /\ call = "join" /\ call' = "join" /\ fThreadMap' = fThreadMap
    BY <1>2 DEF Join, Ended, loopVars
  <2>2. /\ Current = todo[1] /\ Len(todo') = Len(todo) - 1
        /\ \A i \in 2 .. Len(todo) : todo'[i - 1] = todo[i]
        /\ Len(todo) \in Nat
    <3>1. todo \in Seq(Loops) /\ Len(todo) \in Nat /\ TypeOK
      BY DEF TypeOK
    <3>2. todo[1] = Current /\ Len(todo') = Len(todo) - 1
      BY <2>1, <3>1, NextLoopTyped
    <3>3. \A i \in 2 .. Len(todo) : todo'[i - 1] = todo[i]
      BY <2>1, <3>1, NextLoopTyped
    <3> QED
      BY <3>1, <3>2, <3>3
  <2>3. ASSUME NEW l \in Loops, pc[l] # "done"
        PROVE  \E i \in 1 .. Len(todo') : todo'[i] = l
    <3>1. PICK i \in 1 .. Len(todo) : todo[i] = l
      BY <2>1, <2>3 DEF JoinInv
    <3>2. i # 1
      BY <2>1, <2>2, <2>3, <3>1
    <3>3. i \in 2 .. Len(todo) /\ i - 1 \in 1 .. Len(todo')
      BY <2>2, <3>1, <3>2
    <3> QED
      BY <2>2, <3>1, <3>3
  <2> QED
    BY <2>1, <2>3 DEF JoinInv
<1>3. CASE Delete
  BY <1>3 DEF Delete, JoinInv, loopVars
<1>4. CASE StopAllJoins
  <2>1. \A l \in Loops : \E i \in 1 .. Len(todo') : todo'[i] = l
    BY <1>4, ThreadAssumption DEF StopAllJoins, StartCall
  <2>2. fThreadMap' = fThreadMap /\ call = "stop_again" /\ call' = "join"
    BY <1>4 DEF StopAllJoins, StartCall
  <2> QED
    BY <2>1, <2>2 DEF JoinInv
<1>5. CASE StopAllDeletes
  <2>1. todo = <<>> /\ call = "join" /\ call' = "delete" /\ pc' = pc
    BY <1>5 DEF StopAllDeletes, StartCall, loopVars
  <2>2. \A l \in Loops : pc[l] = "done"
    BY <2>1 DEF JoinInv
  <2> QED
    BY <2>1, <2>2 DEF JoinInv
<1>6. CASE StopAllReturns
  BY <1>6 DEF StopAllReturns, StartCall, loopVars, JoinInv
<1>7. CASE \/ CheckRunning \/ Resume \/ Pause \/ Stop
           \/ ResumeOrPauseReturns \/ SendStopReturns \/ LoopUntilDone
           \/ Command
  <2>1. /\ call \notin {"join", "delete", "ended"}
        /\ call' \notin {"join", "delete", "ended"}
        /\ fThreadMap' = fThreadMap
    BY <1>7 DEF CheckRunning, Resume, Pause, Stop, ResumeOrPauseReturns,
                SendStopReturns, LoopUntilDone, Command, ResumeAll, PauseAll,
                Terminate, StartCall
  <2> QED
    BY <2>1 DEF JoinInv
<1>8. CASE UNCHANGED vars
  BY <1>8 DEF vars, loopVars, mainVars, JoinInv
<1> QED
  BY <1>1, <1>2, <1>3, <1>4, <1>5, <1>6, <1>7, <1>8 DEF Next, MainStep

\* No loop is deleted while its thread runs.
THEOREM DeleteSafe == Spec => []DeletedAfterEnd
<1>1. Init => JoinInv
  BY DEF Init, JoinInv
<1>2. TypeOK /\ JoinInv => DeletedAfterEnd
  BY DEF JoinInv, DeletedAfterEnd
<1> QED
  BY <1>1, <1>2, InitTyped, NextTyped, NextJoin, PTL DEF Spec
=============================================================================
