------------------------------ MODULE TGRSIint ------------------------------
(***************************************************************************)
(* A session (libraries/TGRSIint/TGRSIint.cxx): the main thread that sets  *)
(* up the sort, waits for it, runs the lines other threads hand over, and  *)
(* terminates; the handler of Ctrl-C, which the operating system may run   *)
(* between any two of its steps; and the threads that call ProcessLine.    *)
(*                                                                         *)
(* The main thread is a stack of procedures, the innermost first, each     *)
(* named by where it is.  A press of Ctrl-C puts Terminate on top of what  *)
(* it interrupts.  While it is there the main thread takes no signal, and  *)
(* the next press is handled by another thread of the process.             *)
(*                                                                         *)
(* Loops run as StoppableThread and SortPipeline describe in detail; here  *)
(* a loop works off what its queue holds and ends when the loops that feed *)
(* it have ended.  It holds its fPauseMutex during an Iteration, in which  *)
(* it may wait for room in a queue or for the answer to a line; Stop and   *)
(* Resume make the main thread wait for that mutex.                        *)
(***************************************************************************)
EXTENDS SetupPipeline, Sequences

CONSTANTS
    SessionOptions,     \* the options with which the sort is run
    AllOptions,         \* the options with which it is only set up
    Askers,             \* loops whose Iteration may call ProcessLine
    News,               \* ReadTheNews' thread
    ReadingMaterial,    \* the options with which it is started
    MaxSize,            \* max_queue_size: Push waits beyond it
    EventBound          \* with each of the options: the events of the input

None == "none"
Callers == Askers \cup {News}

ASSUME SessionAssumption ==
    /\ SessionOptions \subseteq Options
    /\ AllOptions \subseteq Options
    /\ ReadingMaterial \subseteq Options
    /\ MaxSize \in Nat
    /\ EventBound \in [AllOptions -> Nat]
    /\ None \notin Callers

VARIABLES
    options,
    stack,              \* the main thread
    held,               \* the loops whose fPauseMutex the main thread holds,
                        \* the last one taken first
    fAllowedToTerminate,
    timesPressed,
    exited,             \* why the process ended: "no" while it runs
    state,              \* of a loop: "absent", "paused", "ready" (between two
                        \* Iterations), "late" (stopped, but past the test of
                        \* fRunning), "iterating", "on_end", "done", "stuck"
                        \* (in a signal handler that waits for a mutex its
                        \* own thread holds)
    stopped,            \* the sources whose fRunning Stop has reset
    eventsLeft,         \* what the source can still read
    queued,             \* the number of items in each queue
    pushes,             \* the queues an Iteration has yet to push into
    caller,             \* where a thread is in DelayedProcessLine
    commandOwner,       \* who holds g__CommandWaitingMutex
    lineToProcess, processingNeeded, commandFinished, commandResult,
    message,            \* the copy of the line DelayedProcessLine_Action runs
    timers,             \* single shots that have not fired
    ran,                \* auxiliary: the lines that were run, in order
    asked, answers      \* auxiliary: the lines a thread handed over, and what
                        \* its calls returned

loops == <<state, stopped, eventsLeft, queued, pushes>>
command == <<lineToProcess, processingNeeded, commandFinished, commandResult,
             commandOwner, message, timers>>
log == <<ran, asked, answers>>
vars == <<options, stack, held, fAllowedToTerminate, timesPressed, exited,
          loops, caller, command, log>>

AllLoops == Sources \cup {"2_unpack_loop", "3_frag_hist_loop",
    "4_frag_write_loop", "4_frag_diag_loop", "5_event_build_loop",
    "6_det_build_loop", "7_analysis_hist_loop", "8_analysis_write_loop"}

Inputs(l) == {q \in DOMAIN queued : q.to = l}
Outputs(l) == {q \in DOMAIN queued :
                 q.from = l /\ q.item \notin {"bad", "scaler", "out_of_order"}}

\* fRunning, of a loop that exists.
Running(l) ==
    l \notin stopped /\ state[l] \notin {"absent", "on_end", "done"}
AnyThreadRunning == \E l \in AllLoops : Running(l)
InHandler == \E i \in DOMAIN stack : stack[i] = "notified"

Init ==
    /\ options \in AllOptions
    /\ stack = <<"setup">>
    /\ held = <<>>
    /\ fAllowedToTerminate = TRUE
    /\ timesPressed = 0
    /\ exited = "no"
    /\ state = [l \in AllLoops |-> "absent"]
    /\ stopped = {}
    /\ eventsLeft = EventBound[options]
    /\ queued = [q \in QueuesOf(options) |-> 0]
    /\ pushes = [l \in AllLoops |-> <<>>]
    /\ caller = [c \in Callers |-> "idle"]
    /\ commandOwner = None
    /\ lineToProcess = <<>>
    /\ processingNeeded = FALSE
    /\ commandFinished = FALSE
    /\ commandResult = <<>>
    /\ message = <<>>
    /\ timers = 0
    /\ ran = <<>>
    /\ asked = [c \in Callers |-> 0]
    /\ answers = [c \in Callers |-> <<>>]

-----------------------------------------------------------------------------
(* The main thread *)

At(pc) == exited = "no" /\ Head(stack) = pc
Goto(pc) == stack' = <<pc>> \o Tail(stack)
Call(pc, return) == stack' = <<pc, return>> \o Tail(stack)
Return == stack' = Tail(stack)

\* fPauseMutex: a loop holds its own during an Iteration.
Holds(l) == \E i \in DOMAIN held : held[i] = l
MutexFree(l) == state[l] \notin {"iterating", "stuck"} /\ ~Holds(l)
TakesMutex(l) == MutexFree(l) /\ held' = <<l>> \o held
ReleasesMutex == held' = Tail(held)

\* ApplyOptions sets up the loops; all of them begin paused.  The sort is
\* followed no further unless its options are among SessionOptions.
SetUp ==
    /\ At("setup")
    /\ IF GivesUp(options) \/ options \notin SessionOptions
       THEN exited' = "set up" /\ UNCHANGED <<stack, state>>
       ELSE /\ Goto("resume")
            /\ state' = [l \in AllLoops |->
                           IF l \in LoopsOf(options) THEN "paused" ELSE "absent"]
            /\ UNCHANGED exited
    /\ UNCHANGED <<options, held, fAllowedToTerminate, timesPressed, stopped,
                   eventsLeft, queued, pushes, caller, command, log>>

\* ResumeAll takes the fPauseMutex of one loop after the other.
ResumeLock(l) ==
    /\ At("resume") /\ held = <<>>
    /\ state[l] = "paused"
    /\ TakesMutex(l)
    /\ UNCHANGED <<options, stack, fAllowedToTerminate, timesPressed, exited,
                   loops, caller, command, log>>

ResumeUnlock(l) ==
    /\ At("resume") /\ held = <<l>>
    /\ ReleasesMutex
    /\ state' = [state EXCEPT ![l] = "ready"]
    /\ UNCHANGED <<options, stack, fAllowedToTerminate, timesPressed, exited,
                   stopped, eventsLeft, queued, pushes, caller, command, log>>

ResumeDone ==
    /\ At("resume") /\ held = <<>>
    /\ \A l \in AllLoops : state[l] # "paused"
    /\ Call("test", "applied")
    /\ UNCHANGED <<options, held, fAllowedToTerminate, timesPressed, exited,
                   loops, caller, command, log>>

\* After LoopUntilDone, ApplyOptions terminates or the prompt is shown.
Applied ==
    /\ At("applied")
    /\ IF options.closeAfterSort THEN Call("terminate", "prompt")
       ELSE Goto("prompt")
    /\ UNCHANGED <<options, held, fAllowedToTerminate, timesPressed, exited,
                   loops, caller, command, log>>

\* LoopUntilDone: test, sleep, process events.
Test ==
    /\ At("test")
    /\ IF AnyThreadRunning THEN Goto("sleep") ELSE Return
    /\ UNCHANGED <<options, held, fAllowedToTerminate, timesPressed, exited,
                   loops, caller, command, log>>

\* Faulty: no events are processed while the loops run.
SleepOnly ==
    /\ At("sleep")
    /\ Goto("test")
    /\ UNCHANGED <<options, held, fAllowedToTerminate, timesPressed, exited,
                   loops, caller, command, log>>

\* ProcessEvents handles terminal input first: .q, or the end of standard
\* input, calls Terminate.
Sleep ==
    /\ At("sleep")
    /\ Goto("events") \/ Call("terminate", "events")
    /\ fAllowedToTerminate' = FALSE
    /\ UNCHANGED <<options, held, timesPressed, exited, loops, caller,
                   command, log>>

EventsProcessed ==
    /\ At("events")
    /\ timers = 0
    /\ Goto("test")
    /\ fAllowedToTerminate' = TRUE
    /\ UNCHANGED <<options, held, timesPressed, exited, loops, caller,
                   command, log>>

\* The user leaves the prompt.
Quit ==
    /\ At("prompt")
    /\ Call("terminate", "prompt")
    /\ UNCHANGED <<options, held, fAllowedToTerminate, timesPressed, exited,
                   loops, caller, command, log>>

Terminate ==
    /\ At("terminate")
    /\ IF fAllowedToTerminate THEN Goto("send_stop") ELSE Return
    /\ UNCHANGED <<options, held, fAllowedToTerminate, timesPressed, exited,
                   loops, caller, command, log>>

\* SendStop stops one source after the other, in the order of their names,
\* which here stand for the calls of Stop, and LoopUntilDone follows.
SendStop ==
    /\ At("send_stop")
    /\ Goto("1_chain_loop")
    /\ UNCHANGED <<options, held, fAllowedToTerminate, timesPressed, exited,
                   loops, caller, command, log>>

StopReturns(l) ==
    IF l = "1_chain_loop" THEN Goto("1_input_loop") ELSE Call("test", "stop_all")

NoSuchSource(l) ==
    /\ At(l)
    /\ state[l] = "absent"
    /\ StopReturns(l)
    /\ UNCHANGED <<options, held, fAllowedToTerminate, timesPressed, exited,
                   loops, caller, command, log>>

\* Stop waits for fPauseMutex.  A source between two Iterations may be past the
\* test of fRunning: it then does one more, as it does when it was paused.
Stop(l) ==
    /\ At(l)
    /\ state[l] # "absent" /\ TakesMutex(l)
    /\ Goto("stop_locked")
    /\ stopped' = stopped \cup {l}
    /\ IF state[l] \in {"paused", "ready"}
       THEN \E next \in {"on_end", "late"} : state' = [state EXCEPT ![l] = next]
       ELSE UNCHANGED state
    /\ UNCHANGED <<options, fAllowedToTerminate, timesPressed, exited,
                   eventsLeft, queued, pushes, caller, command, log>>

StopUnlock ==
    /\ At("stop_locked")
    /\ StopReturns(Head(held))
    /\ ReleasesMutex
    /\ UNCHANGED <<options, fAllowedToTerminate, timesPressed, exited, loops,
                   caller, command, log>>

\* StopAll, whose own SendStop meets sources that have ended, joins every
\* thread; the rest of Terminate ends the process.
StopAll ==
    /\ At("stop_all")
    /\ \A l \in AllLoops : state[l] \in {"absent", "done"}
    /\ exited' = "terminated"
    /\ UNCHANGED <<options, stack, held, fAllowedToTerminate, timesPressed,
                   loops, caller, command, log>>

\* A handler that did not end the process returns to what it interrupted.
HandlerReturns ==
    /\ At("notified")
    /\ Return
    /\ UNCHANGED <<options, held, fAllowedToTerminate, timesPressed, exited,
                   loops, caller, command, log>>

\* A timer fires: DelayedProcessLine_Action copies the line, runs it, hands
\* the result back and wakes a waiting thread.
TimerFires ==
    /\ At("events") \/ At("prompt")
    /\ timers > 0
    /\ timers' = timers - 1
    /\ Call("action", Head(stack))
    /\ UNCHANGED <<options, held, fAllowedToTerminate, timesPressed, exited,
                   loops, caller, lineToProcess, processingNeeded,
                   commandFinished, commandResult, commandOwner, message, log>>

TakeLine ==
    /\ At("action")
    /\ IF processingNeeded
       THEN Goto("run") /\ message' = lineToProcess
       ELSE Return /\ UNCHANGED message
    /\ UNCHANGED <<options, held, fAllowedToTerminate, timesPressed, exited,
                   loops, caller, lineToProcess, processingNeeded,
                   commandFinished, commandResult, commandOwner, timers, log>>

RunLine ==
    /\ At("run")
    /\ Goto("publish")
    /\ ran' = Append(ran, message)
    /\ UNCHANGED <<options, held, fAllowedToTerminate, timesPressed, exited,
                   loops, caller, command, asked, answers>>

\* Faulty: the flag that the command is finished is not set.
PublishNothing ==
    /\ At("publish")
    /\ Goto("notify")
    /\ commandResult' = message
    /\ processingNeeded' = FALSE
    /\ UNCHANGED <<options, held, fAllowedToTerminate, timesPressed, exited,
                   loops, caller, lineToProcess, commandFinished, commandOwner,
                   message, timers, log>>

PublishResult ==
    /\ At("publish")
    /\ Goto("notify")
    /\ commandResult' = message
    /\ commandFinished' = TRUE
    /\ processingNeeded' = FALSE
    /\ UNCHANGED <<options, held, fAllowedToTerminate, timesPressed, exited,
                   loops, caller, lineToProcess, commandOwner, message, timers,
                   log>>

NotifyResult ==
    /\ At("notify")
    /\ Return
    /\ \/ \E c \in Callers : /\ caller[c] = "asleep"
                             /\ caller' = [caller EXCEPT ![c] = "checks"]
       \/ (\A c \in Callers : caller[c] # "asleep") /\ UNCHANGED caller
    /\ UNCHANGED <<options, held, fAllowedToTerminate, timesPressed, exited,
                   loops, command, log>>

MainStep ==
    \/ SetUp \/ (\E l \in AllLoops : ResumeLock(l) \/ ResumeUnlock(l))
    \/ ResumeDone \/ Applied \/ Test \/ Sleep \/ EventsProcessed
    \/ Terminate \/ SendStop \/ (\E l \in Sources : NoSuchSource(l) \/ Stop(l))
    \/ StopUnlock \/ StopAll \/ HandlerReturns
    \/ TimerFires \/ TakeLine \/ RunLine \/ PublishResult \/ NotifyResult

-----------------------------------------------------------------------------
(* TGRSIInterruptHandler::Notify *)

Exit(why) ==
    /\ exited' = why
    /\ UNCHANGED <<options, stack, held, fAllowedToTerminate, timesPressed,
                   loops, caller, command, log>>

\* The first press calls Terminate, which may refuse; the press is counted.
FirstPress ==
    /\ timesPressed = 0
    /\ timesPressed' = 1
    /\ stack' = <<"terminate", "notified">> \o stack
    /\ UNCHANGED <<options, held, fAllowedToTerminate, exited, loops, caller,
                   command, log>>

\* ClearAllQueues.  A thread that takes the signal inside one of the queues
\* waits for a mutex it holds itself.
SecondPress ==
    /\ timesPressed = 1
    /\ timesPressed' = 2
    /\ \/ /\ queued' = [q \in DOMAIN queued |-> 0]
          /\ UNCHANGED state
       \/ \E l \in AllLoops :
            /\ InHandler
            /\ state[l] \in {"ready", "late", "iterating"}
            /\ l \in Callers => caller[l] = "idle"
            /\ state' = [state EXCEPT ![l] = "stuck"]
            /\ UNCHANGED queued
    /\ UNCHANGED <<options, stack, held, fAllowedToTerminate, exited, stopped,
                   eventsLeft, pushes, caller, command, log>>

\* Faulty: whether a thread is running is not asked.
NotifyAlways ==
    /\ exited = "no"
    /\ \/ FirstPress \/ SecondPress
       \/ timesPressed = 2 /\ Exit("no you shutup")

Notify ==
    /\ exited = "no"
    /\ \/ ~AnyThreadRunning /\ Exit("interactive")
       \/ AnyThreadRunning /\ FirstPress
       \/ AnyThreadRunning /\ SecondPress
       \/ AnyThreadRunning /\ timesPressed = 2 /\ Exit("no you shutup")

-----------------------------------------------------------------------------
(* The loops *)

Others == <<options, stack, held, fAllowedToTerminate, timesPressed, exited>>

\* The lists of distinct queues: a loop pushes what it makes of an item into
\* each of its output queues.
Orders(S) ==
    {s \in [1 .. Cardinality(S) -> S] :
        \A i, j \in DOMAIN s : s[i] = s[j] => i = j}

BeginsToPush(l) ==
    \E order \in Orders(Outputs(l)) : pushes' = [pushes EXCEPT ![l] = order]

\* The mutex is taken, and the Iteration begins.
MayIterate(l) == state[l] \in {"ready", "late"} /\ ~Holds(l)
Iterates(l) == state' = [state EXCEPT ![l] = "iterating"]

\* The beginning of an Iteration: a source reads an event.
ReadEvent(l) ==
    /\ l \in Sources /\ MayIterate(l)
    /\ eventsLeft > 0
    /\ eventsLeft' = eventsLeft - 1
    /\ Iterates(l) /\ BeginsToPush(l)
    /\ UNCHANGED <<Others, stopped, queued, caller, command, log>>

\* A source that does not end by itself sleeps, with its mutex.
SleepAtEnd(l) ==
    /\ l \in Sources /\ MayIterate(l)
    /\ eventsLeft = 0 /\ ~options.closeAfterSort
    /\ Iterates(l)
    /\ UNCHANGED <<Others, stopped, eventsLeft, queued, pushes, caller, command,
                   log>>

SourceEnds(l) ==
    /\ l \in Sources /\ MayIterate(l)
    /\ eventsLeft = 0 /\ options.closeAfterSort
    /\ state' = [state EXCEPT ![l] = "on_end"]
    /\ UNCHANGED <<Others, stopped, eventsLeft, queued, pushes, caller, command,
                   log>>

\* A loop takes an item and may hand over a line.
TakeItem(l, q) ==
    /\ MayIterate(l) /\ q \in Inputs(l) /\ queued[q] > 0
    /\ \/ l \notin Callers /\ UNCHANGED <<caller, asked>>
       \/ /\ l \in Callers /\ caller[l] = "idle"
          /\ \/ UNCHANGED <<caller, asked>>
             \/ /\ caller' = [caller EXCEPT ![l] = "asks"]
                /\ asked' = [asked EXCEPT ![l] = @ + 1]
    /\ queued' = [queued EXCEPT ![q] = @ - 1]
    /\ Iterates(l) /\ BeginsToPush(l)
    /\ UNCHANGED <<Others, stopped, eventsLeft, command, ran, answers>>

\* Its calls of ProcessLine have returned.
Answered(l) == l \in Callers => caller[l] = "idle"

IsFull(q) == queued[q] > MaxSize

\* Push, which waits while the queue is full; the wait may end by itself.
Push(l, awake) ==
    /\ state[l] = "iterating" /\ Answered(l)
    /\ pushes[l] # <<>>
    /\ ~IsFull(Head(pushes[l])) \/ awake
    /\ queued' = [queued EXCEPT ![Head(pushes[l])] = @ + 1]
    /\ pushes' = [pushes EXCEPT ![l] = Tail(@)]
    /\ UNCHANGED <<Others, state, stopped, eventsLeft, caller, command, log>>

IterationEnds(l) ==
    /\ state[l] = "iterating" /\ Answered(l)
    /\ pushes[l] = <<>>
    /\ state' = [state EXCEPT ![l] = IF l \in stopped THEN "on_end" ELSE "ready"]
    /\ UNCHANGED <<Others, stopped, eventsLeft, queued, pushes, caller, command,
                   log>>

\* A loop that finds its inputs empty and finished.
LoopEnds(l) ==
    /\ MayIterate(l) /\ l \notin Sources
    /\ \A q \in Inputs(l) :
          queued[q] = 0 /\ state[q.from] \in {"on_end", "done"}
    /\ state' = [state EXCEPT ![l] = "on_end"]
    /\ UNCHANGED <<Others, stopped, eventsLeft, queued, pushes, caller, command,
                   log>>

OnEnd(l) ==
    /\ state[l] = "on_end"
    /\ state' = [state EXCEPT ![l] = "done"]
    /\ UNCHANGED <<Others, stopped, eventsLeft, queued, pushes, caller, command,
                   log>>

LoopStep(l) ==
    /\ exited = "no"
    /\ \/ ReadEvent(l) \/ SleepAtEnd(l) \/ SourceEnds(l)
       \/ \E q \in DOMAIN queued : TakeItem(l, q)
       \/ Push(l, FALSE) \/ IterationEnds(l) \/ LoopEnds(l) \/ OnEnd(l)

-----------------------------------------------------------------------------
(* DelayedProcessLine, called by ProcessLine on any thread but the main one *)

Step(c, from, to) == caller[c] = from /\ caller' = [caller EXCEPT ![c] = to]

session == <<options, stack, held, fAllowedToTerminate, timesPressed, exited,
             loops>>

AskNews ==
    /\ options \in ReadingMaterial
    /\ Step(News, "idle", "asks") /\ asked[News] = 0
    /\ asked' = [asked EXCEPT ![News] = 1]
    /\ UNCHANGED <<session, command, ran, answers>>

\* Faulty: the answer to the previous line is not reset.
PostLineOnly(c) ==
    /\ Step(c, "asks", "posted")
    /\ commandOwner = None
    /\ commandOwner' = c
    /\ lineToProcess' = <<c, asked[c]>>
    /\ processingNeeded' = TRUE
    /\ UNCHANGED <<session, commandFinished, commandResult, message, timers,
                   log>>

\* g__CommandWaitingMutex lets one line in at a time.
PostLine(c) ==
    /\ Step(c, "asks", "posted")
    /\ commandOwner = None
    /\ commandOwner' = c
    /\ lineToProcess' = <<c, asked[c]>>
    /\ commandFinished' = FALSE
    /\ processingNeeded' = TRUE
    /\ UNCHANGED <<session, commandResult, message, timers, log>>

StartTimer(c) ==
    /\ Step(c, "posted", "checks")
    /\ timers' = timers + 1
    /\ UNCHANGED <<session, lineToProcess, processingNeeded, commandFinished,
                   commandResult, commandOwner, message, log>>

WaitForResult(c) ==
    /\ Step(c, "checks", "asleep")
    /\ ~commandFinished
    /\ UNCHANGED <<session, command, log>>

\* A wakeup without a notification.
WakeUp(c) ==
    /\ Step(c, "asleep", "checks")
    /\ UNCHANGED <<session, command, log>>

TakeResult(c) ==
    /\ Step(c, "checks", "idle")
    /\ commandFinished
    /\ answers' = [answers EXCEPT ![c] = Append(@, commandResult)]
    /\ commandOwner' = None
    /\ UNCHANGED <<session, lineToProcess, processingNeeded, commandFinished,
                   commandResult, message, timers, ran, asked>>

CallerStep(c) ==
    /\ exited = "no"
    /\ \/ c = News /\ AskNews
       \/ PostLine(c) \/ StartTimer(c)
       \/ WaitForResult(c) \/ TakeResult(c)

Next ==
    \/ MainStep \/ Quit \/ Notify
    \/ \E l \in AllLoops : LoopStep(l) \/ (exited = "no" /\ Push(l, TRUE))
    \/ \E c \in Callers : CallerStep(c) \/ (exited = "no" /\ WakeUp(c))

Spec == Init /\ [][Next]_vars

\* The loops that run in some session.
SessionLoops == UNION {LoopsOf(o) : o \in SessionOptions}

FairSpec ==
    /\ Spec
    /\ WF_vars(MainStep)
    /\ \A l \in SessionLoops : WF_vars(LoopStep(l))
    /\ \A c \in Callers : WF_vars(CallerStep(c))

-----------------------------------------------------------------------------
(* Properties *)

\* Whatever the options, unless SetupPipeline gives up, the loops it makes
\* are all fed, by one queue of each kind, and a queue that nobody empties is
\* one of the three known ones.
WiringSound ==
    \/ GivesUp(options)
    \/ EveryLoopFedOnce(options) /\ OrphansOnlyWhenAllowed(options)

\* "To keep the command line thread-safe" (248): the lines other threads
\* hand over are run one at a time, each exactly once, and every call
\* returns the result of its own line, in whatever order threads post,
\* sleep and wake.
EveryLineRunOnce ==
    /\ \A i, j \in DOMAIN ran : ran[i] = ran[j] => i = j
    /\ \A c \in Callers :
          /\ answers[c] = [i \in 1 .. Len(answers[c]) |-> <<c, i>>]
          /\ \A i \in DOMAIN answers[c] : \E j \in DOMAIN ran : ran[j] = <<c, i>>

\* Once StopAll deletes the loops and Terminate the singletons and raw files,
\* no Ctrl-C starts a second Terminate that would delete them again.
CleanupNotReentered ==
    [][At("stop_all") => stack' = stack]_vars

Waiting(c) == caller[c] \in {"asks", "posted", "checks", "asleep"}

AwaitsMain(c) == Waiting(c) /\ ~(caller[c] = "checks" /\ commandFinished)

\* Ctrl-C arrived while the main thread held a fPauseMutex: whatever Terminate
\* waits for on top of that never comes.
CaughtHolding ==
    InHandler /\ Len(held) > IF Head(stack) = "stop_locked" THEN 1 ELSE 0

\* While the main thread waits for a source's fPauseMutex, a loop that waits for
\* it, or for a loop in S, does not go on.
Blocked(l, S) ==
    \/ state[l] \in {"paused", "stuck"}
    \/ l \in Callers /\ AwaitsMain(l)
    \/ /\ state[l] = "iterating" /\ pushes[l] # <<>>
       /\ IsFull(Head(pushes[l])) /\ Head(pushes[l]).to \in S

\* Stop waits for a source that waits for room in its queue, which a loop makes
\* that waits for the main thread.
CircularWait ==
    /\ Head(stack) \in Sources
    /\ \E S \in SUBSET LoopsOf(options) :
          Head(stack) \in S /\ \A l \in S : Blocked(l, S)

\* Stop competes for the mutex with a source that takes it again and again.
MayStarve == Head(stack) \in Sources /\ ~options.closeAfterSort

\* A line that was handed over is run and answered, also while the session
\* terminates, unless the process ends first or the main thread waits for a
\* mutex it will not get: LoopUntilDone processes events as long as a loop that
\* might be waiting is running.
EveryCommandAnswered ==
    \A c \in Callers :
        Waiting(c) ~> (\/ ~Waiting(c) \/ exited # "no"
                       \/ CaughtHolding \/ CircularWait \/ MayStarve)

\* A Terminate that tells the sources to stop in a sort that was fully resumed
\* and ends with its input.
Terminating ==
    /\ At("send_stop")
    /\ options.closeAfterSort
    /\ \A l \in AllLoops : state[l] # "paused"

\* A second Ctrl-C may spoil it (SecondPress), as does a first one at a bad moment.
Spoiled == timesPressed >= 2 \/ CaughtHolding

\* Once it does, the process ends, although loops still work off their queues,
\* wait for room in a queue or for lines to be run, unless they wait in a
\* circle.
TerminationEnds ==
    Terminating ~> (exited # "no" \/ Spoiled \/ CircularWait)

\* "Kills all of the threads if the process is allowed to terminate" (194).
TerminateKills == Terminating ~> (exited # "no" \/ Spoiled)
=============================================================================
