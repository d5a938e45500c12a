-------------------------- MODULE StoppableThread --------------------------
(***************************************************************************)
(* The threads of the pipeline (include/StoppableThread.h) and the main    *)
(* thread that resumes, pauses, stops, joins and deletes them.             *)
(*                                                                         *)
(* Each loop runs StoppableThread::Loop: it takes its mutex, waits while   *)
(* it is paused, calls Iteration with the mutex still held, and releases   *)
(* it.  Stop and Resume take the mutex, Pause does not.  Of an Iteration   *)
(* the model keeps what decides the life of the thread.  It takes an item  *)
(* and pushes what it makes of it into the queues of the loops it feeds,   *)
(* each of them bounded: Push waits for the reader, with the mutex of the  *)
(* Iteration held.  A source (TDataLoop or TFragmentChainLoop) may end     *)
(* whenever it reads; any other loop ends only once the loop that feeds it *)
(* has declared its queues finished, which sources do in OnEnd and the     *)
(* others in their last Iteration.                                         *)
(***************************************************************************)
EXTENDS Naturals, Sequences, FiniteSets

CONSTANTS
    Loops,      \* the loops, objects derived from StoppableThread
    Sources,    \* those SendStop stops
    Feeder,     \* for each other loop, the loop that fills its input queue
    MapOrder,   \* the loops in the order of their names, that of fThreadMap
    PushBound   \* bound: the calls of Push in one Iteration

ASSUME ThreadAssumption ==
    /\ Sources \subseteq Loops
    /\ Feeder \in [Loops \ Sources -> Loops]
    /\ MapOrder \in Seq(Loops)
    /\ PushBound \in Nat
    /\ \A l \in Loops : \E i \in 1 .. Len(MapOrder) : MapOrder[i] = l

VARIABLES
    fRunning,
    fPaused,
    pc,         \* where each loop is in Loop()
    pushes,     \* the loops whose queues its Iteration has yet to fill
    full,       \* whether its own input queue is beyond its limit
    finished,   \* whether its output queues are declared finished
    fThreadMap, \* the loops that have not been deleted
    call,       \* what the main thread is doing
    todo,       \* the loops it has yet to do it to
    checked,    \* whether Resume or Pause has found fRunning set
    late        \* auxiliary: Iterations begun although fRunning was reset

queueVars == <<pushes, full>>
loopVars == <<fRunning, fPaused, pc, queueVars, finished, late>>
mainVars == <<call, todo, checked>>
vars == <<loopVars, fThreadMap, mainVars>>

\* The construction of the loops by SetupPipeline, whose last statement is a
\* call of ResumeAll.
Init ==
    /\ fRunning = [l \in Loops |-> TRUE]
    /\ fPaused = [l \in Loops |-> TRUE]
    /\ pc = [l \in Loops |-> "test"]
    /\ pushes = [l \in Loops |-> <<>>]
    /\ full = [l \in Loops |-> FALSE]
    /\ finished = [l \in Loops |-> FALSE]
    /\ fThreadMap = Loops
    /\ call = "resume"
    /\ todo = MapOrder
    /\ checked = FALSE
    /\ late = [l \in Loops |-> 0]

\* The loop owns fPauseMutex from the lock to the end of the Iteration, but
\* for the waits in between.
Owning == {"held", "iterate", "push", "drained"}

\* Faulty: the main thread does not take the mutex.
MutexIgnored(l) == TRUE

MutexFree(l) == pc[l] \notin Owning

-----------------------------------------------------------------------------
(* StoppableThread::Loop *)

Goto(l, place) == pc' = [pc EXCEPT ![l] = place]

\* Faulty: the condition of the outer loop is not tested again.
TestAlways(l) ==
    /\ pc[l] = "test"
    /\ Goto(l, "lock")
    /\ UNCHANGED <<fRunning, fPaused, queueVars, finished, late, fThreadMap, mainVars>>

\* while(fRunning)
Test(l) ==
    /\ pc[l] = "test"
    /\ Goto(l, IF fRunning[l] THEN "lock" ELSE "on_end")
    /\ UNCHANGED <<fRunning, fPaused, queueVars, finished, late, fThreadMap, mainVars>>

\* The mutex, first taken or taken back after a wait of 100 ms or a notification.
Lock(l) ==
    /\ pc[l] \in {"lock", "wait"}
    /\ MutexFree(l)
    /\ Goto(l, "held")
    /\ UNCHANGED <<fRunning, fPaused, queueVars, finished, late, fThreadMap, mainVars>>

\* while(fPaused && fRunning) wait; the wait releases the mutex.
WaitWhilePaused(l) ==
    /\ pc[l] = "held"
    /\ fPaused[l] /\ fRunning[l]
    /\ Goto(l, "wait")
    /\ UNCHANGED <<fRunning, fPaused, queueVars, finished, late, fThreadMap, mainVars>>

BeginIteration(l) ==
    /\ pc[l] = "held"
    /\ ~(fPaused[l] /\ fRunning[l])
    /\ Goto(l, "iterate")
    /\ late' = IF fRunning[l] THEN late ELSE [late EXCEPT ![l] = @ + 1]
    /\ UNCHANGED <<fRunning, fPaused, queueVars, finished, fThreadMap, mainVars>>

\* The loops whose input queue l fills.
Readers(l) == {r \in Loops \ Sources : Feeder[r] = l}

\* What an Iteration of l may push, in the order of its calls.
Outputs(l) == UNION {[1 .. n -> Readers(l)] : n \in 0 .. PushBound}

\* Faulty: a Pop does not tell the Push that waits for room.
MakesNoRoom(l) == UNCHANGED full

\* A Pop brings the queue back to its limit and notifies can_push.
MakesRoom(l) == full' = [full EXCEPT ![l] = FALSE]

\* The Iteration reads or pops an item.
TakesItem(l) ==
    /\ pc[l] = "iterate"
    /\ MakesRoom(l)
    /\ \E out \in Outputs(l) : pushes' = [pushes EXCEPT ![l] = out]
    /\ Goto(l, "push")
    /\ UNCHANGED <<fRunning, fPaused, finished, late, fThreadMap, mainVars>>

\* Push, which waits while the queue is full and may be what fills it.
Push(l) ==
    /\ pc[l] = "push"
    /\ pushes[l] # <<>>
    /\ ~full[Head(pushes[l])]
    /\ pushes' = [pushes EXCEPT ![l] = Tail(@)]
    /\ \E beyond \in BOOLEAN : full' = [full EXCEPT ![Head(pushes[l])] = beyond]
    /\ UNCHANGED <<fRunning, fPaused, pc, finished, late, fThreadMap, mainVars>>

AllPushed(l) == pc[l] = "push" /\ pushes[l] = <<>>

\* Nothing to take, which is not so when the queue is full.
FindsNothing(l) == pc[l] = "iterate" /\ ~full[l]

\* Iteration returns true.
IterationSucceeds(l) ==
    /\ AllPushed(l) \/ FindsNothing(l)
    /\ Goto(l, "test")
    /\ UNCHANGED <<fRunning, fPaused, queueVars, finished, late, fThreadMap, mainVars>>

\* The last Iteration of a loop that is no source: the input queue is found
\* empty and finished, and the output queues are declared finished.
FindsInputFinished(l) ==
    /\ FindsNothing(l)
    /\ l \notin Sources
    /\ finished[Feeder[l]]
    /\ finished' = [finished EXCEPT ![l] = TRUE]
    /\ Goto(l, "drained")
    /\ UNCHANGED <<fRunning, fPaused, queueVars, late, fThreadMap, mainVars>>

\* Iteration returns false: fRunning = false and out of the loop.  A source
\* ends when it finds nothing to read or has read the number of events asked for.
IterationFails(l) ==
    /\ \/ pc[l] = "drained"
       \/ l \in Sources /\ (FindsNothing(l) \/ AllPushed(l))
    /\ fRunning' = [fRunning EXCEPT ![l] = FALSE]
    /\ Goto(l, "on_end")
    /\ UNCHANGED <<fPaused, queueVars, finished, late, fThreadMap, mainVars>>

\* Faulty: a source ends without a word.
OnEndSilent(l) ==
    /\ pc[l] = "on_end"
    /\ Goto(l, "done")
    /\ UNCHANGED <<fRunning, fPaused, queueVars, finished, late, fThreadMap, mainVars>>

\* OnEnd, in which a source declares its output queues finished.
OnEnd(l) ==
    /\ pc[l] = "on_end"
    /\ finished' = IF l \in Sources THEN [finished EXCEPT ![l] = TRUE] ELSE finished
    /\ Goto(l, "done")
    /\ UNCHANGED <<fRunning, fPaused, queueVars, late, fThreadMap, mainVars>>

LoopStep(l) ==
    \/ Test(l) \/ Lock(l) \/ WaitWhilePaused(l) \/ BeginIteration(l)
    \/ TakesItem(l) \/ Push(l)
    \/ IterationSucceeds(l) \/ FindsInputFinished(l) \/ IterationFails(l)
    \/ OnEnd(l)

-----------------------------------------------------------------------------
(* The main thread: one loop of fThreadMap after the other *)

Current == Head(todo)

NextLoop == todo' = Tail(todo) /\ checked' = FALSE

\* Resume and Pause look at fRunning before they do anything.
CheckRunning ==
    /\ call \in {"resume", "pause"}
    /\ todo # <<>>
    /\ ~checked
    /\ IF fRunning[Current]
       THEN checked' = TRUE /\ UNCHANGED todo
       ELSE NextLoop
    /\ UNCHANGED <<loopVars, fThreadMap, call>>

Resume ==
    /\ call = "resume"
    /\ checked
    /\ MutexFree(Current)
    /\ fPaused' = [fPaused EXCEPT ![Current] = FALSE]
    /\ NextLoop
    /\ UNCHANGED <<fRunning, pc, queueVars, finished, late, fThreadMap, call>>

Pause ==
    /\ call = "pause"
    /\ checked
    /\ fPaused' = [fPaused EXCEPT ![Current] = TRUE]
    /\ NextLoop
    /\ UNCHANGED <<fRunning, pc, queueVars, finished, late, fThreadMap, call>>

\* Faulty: SendStop stops every loop.
StoppableAll(l) == TRUE

\* SendStop stops the sources and no other loop.
Stoppable(l) == l \in Sources

\* SendStop: Stop for a source, nothing for another loop.
Stop ==
    /\ call \in {"stop", "stop_again"}
    /\ todo # <<>>
    /\ IF Stoppable(Current)
       THEN /\ MutexFree(Current)
            /\ fRunning' = [fRunning EXCEPT ![Current] = FALSE]
            /\ fPaused' = [fPaused EXCEPT ![Current] = FALSE]
       ELSE UNCHANGED <<fRunning, fPaused>>
    /\ NextLoop
    /\ UNCHANGED <<pc, queueVars, finished, late, fThreadMap, call>>

\* Faulty: a loop is taken to have ended once fRunning is reset.
EndedWhenNotRunning(l) == ~fRunning[l]

\* What std::thread::join waits for.
Ended(l) == pc[l] = "done"

Join ==
    /\ call = "join"
    /\ todo # <<>>
    /\ Ended(Current)
    /\ NextLoop
    /\ UNCHANGED <<loopVars, fThreadMap, call>>

\* delete, whose destructor takes the loop out of fThreadMap.
Delete ==
    /\ call = "delete"
    /\ todo # <<>>
    /\ fThreadMap' = fThreadMap \ {Current}
    /\ NextLoop
    /\ UNCHANGED <<loopVars, call>>

-----------------------------------------------------------------------------
(* What the main thread does next *)

StartCall(next, over) ==
    /\ call' = next
    /\ todo' = over
    /\ checked' = FALSE
    /\ UNCHANGED <<loopVars, fThreadMap>>

\* The user at the prompt: PauseAll and ResumeAll.
ResumeAll == call = "idle" /\ StartCall("resume", MapOrder)

PauseAll == call = "idle" /\ StartCall("pause", MapOrder)

ResumeOrPauseReturns ==
    call \in {"resume", "pause"} /\ todo = <<>> /\ StartCall("idle", <<>>)

\* TGRSIint::Terminate: SendStop, LoopUntilDone, and StopAll, which is
\* SendStop, Join for each loop and delete for each loop.
Terminate == call = "idle" /\ StartCall("stop", MapOrder)

SendStopReturns == call = "stop" /\ todo = <<>> /\ StartCall("until_done", <<>>)

AnyThreadRunning == \E l \in fThreadMap : fRunning[l]

LoopUntilDone ==
    call = "until_done" /\ ~AnyThreadRunning /\ StartCall("stop_again", MapOrder)

StopAllJoins == call = "stop_again" /\ todo = <<>> /\ StartCall("join", MapOrder)

StopAllDeletes == call = "join" /\ todo = <<>> /\ StartCall("delete", MapOrder)

StopAllReturns == call = "delete" /\ todo = <<>> /\ StartCall("ended", <<>>)

\* What the main thread does once a call has begun.
MainStep ==
    \/ CheckRunning \/ Resume \/ Pause \/ ResumeOrPauseReturns
    \/ Stop \/ SendStopReturns \/ LoopUntilDone \/ StopAllJoins
    \/ Join \/ StopAllDeletes \/ Delete \/ StopAllReturns

\* What the user may ask for.
Command == ResumeAll \/ PauseAll \/ Terminate

Next ==
    \/ \E l \in Loops : LoopStep(l)
    \/ MainStep
    \/ Command

Spec == Init /\ [][Next]_vars

(***************************************************************************)
(* Threads run.  A loop takes its mutex again at once, and std::mutex does *)
(* not promise that a waiting Stop gets it in between: the main thread is  *)
(* only weakly fair.  A loop whose feeder is finished finds its queue      *)
(* empty in the end, because nobody fills it any more.                     *)
(***************************************************************************)
Fairness ==
    /\ WF_vars(MainStep)
    /\ \A l \in Loops : WF_vars(LoopStep(l)) /\ SF_vars(FindsInputFinished(l))

FairSpec == Spec /\ Fairness

\* With a mutex that is handed to the main thread if it is free often enough,
\* which leaves a stop only the loops to wait for.
GrantedSpec == FairSpec /\ SF_vars(MainStep)

-----------------------------------------------------------------------------
(* Properties *)

\* Every variable holds a value of its type, and Resume and Pause that have
\* found fRunning set have a loop to act on.
TypeOK ==
    /\ fRunning \in [Loops -> BOOLEAN]
    /\ fPaused \in [Loops -> BOOLEAN]
    /\ pc \in [Loops -> {"test", "lock", "held", "wait", "iterate",
                         "push", "drained", "on_end", "done"}]
    /\ pushes \in [Loops -> Seq(Loops)]
    /\ full \in [Loops -> BOOLEAN]
    /\ finished \in [Loops -> BOOLEAN]
    /\ fThreadMap \in SUBSET Loops
    /\ call \in {"idle", "resume", "pause", "stop", "until_done",
                 "stop_again", "join", "delete", "ended"}
    /\ todo \in Seq(Loops)
    /\ checked \in BOOLEAN
    /\ late \in [Loops -> Nat]
    /\ checked => todo # <<>>

\* A loop that has been stopped begins at most one more Iteration: the one
\* for which it had already passed the test of fRunning.
AtMostOneLateIteration == \A l \in Loops : late[l] <= 1

\* Nobody else resets fRunning while a loop is inside Iteration, so that Stop
\* prints an end status no Iteration is changing: Stop waits for the mutex.
StopWaitsForIteration ==
    [][\A l \in Loops :
          (fRunning[l] /\ ~fRunning'[l] /\ pc[l] \in Owning) => pc'[l] = "on_end"]_vars

\* A loop ends only after its input has been declared finished, so that it
\* does not leave behind a feeder that fills a queue nobody reads, although
\* the main thread stops loops while they work.
NoFeederLeftBehind ==
    \A l \in Loops \ Sources :
        pc[l] \in {"on_end", "done"} => finished[Feeder[l]]

\* The object of a loop is deleted only when its thread has run to its end.
DeletedAfterEnd ==
    \A l \in Loops : l \notin fThreadMap => pc[l] = "done"

ReadersResumed == \A l \in Loops \ Sources : ~fPaused[l]

\* A source that a stop waits for lets go of its mutex again, although it may
\* sit in a Push with the mutex held and the loop that makes room in a Push of
\* its own, if no loop but a source is paused.
SourceLetsGo ==
    \A l \in Sources : (call = "stop" /\ ReadersResumed) ~> MutexFree(l)

\* Once SendStop has returned, every source ends its thread, and so does every
\* loop fed by it, whatever was left in the queues: Terminate gets through
\* LoopUntilDone, the second SendStop, Join and delete, if no loop but a source
\* was paused.
EndsOnceStopped ==
    (call = "until_done" /\ ReadersResumed) ~> (call = "ended")

\* Terminate gets to its end (TGRSIint.cxx:201-203, StoppableThread.cxx:135-217)
\* but for the one thing std::mutex leaves open, which is whether Stop ever gets
\* a mutex that is free again and again: no source keeps its mutex for good, and
\* a SendStop that has returned is followed by the end of all threads.
TerminateEnds == SourceLetsGo /\ EndsOnceStopped

\* "Kills all of the threads if the process is allowed to terminate"
\* (libraries/TGRSIint/TGRSIint.cxx, TGRSIint::Terminate).
TerminateKillsAllThreads ==
    (call = "stop") ~> (fThreadMap = {} /\ \A l \in Loops : pc[l] = "done")
=============================================================================
