# GRSISort in TLA+

GRSISort sorts the data of gamma-ray spectroscopy experiments: it reads raw
events from a file or a data acquisition, unpacks them into fragments (one hit
of one channel), sorts the fragments by time, groups them into events, makes
detectors out of the events, and writes ROOT trees and histograms on the way.
Every stage is a *loop* with a thread of its own; *queues* connect the loops; the
main thread sets the loops up, pauses and resumes them, and ends them.

This directory models two halves of the program. The first is where threads meet:
the queue, the life of a thread, the event builder, the pipeline they form, and the
session around it (which pipeline is set up, Ctrl-C, command lines handed from
loop to main thread). The second is the data with a long life that many calls
change: calibrations, piled-up hits, lost ids, the analysis tree, symmetric
histograms, run infos and the cycle pattern. Paths below are relative to the
repository (`src/` in PROJECT.json).

## 1. Inventory

### Components

| component | code | state | operations | met by |
|---|---|---|---|---|
| queue | `include/ThreadsafeQueue.h` | the items, their size limit, three counters, a mutex, two condition variables, `is_finished` | Push, Pop (with a time limit or none), SetFinished, Size, IsFinished | every loop pushes and pops; the main thread pops in ClearQueue |
| thread | `libraries/TLoops/StoppableThread.cxx` | `fRunning`, `fPaused`, `fPauseMutex`, `fPausedWait` of each loop; the static `fThreadMap` and the status thread | Loop (the thread), Pause, Resume, Stop, Join, destructor, and their `...All` | the main thread calls, the loop's thread runs |
| session | `libraries/TGRSIint/TGRSIint.cxx` | `fAllowedToTerminate`, the count of Ctrl-C presses, the command line handed to the main thread | SetupPipeline, LoopUntilDone, Terminate, Notify, DelayedProcessLine | the user, timers, all loops |
| input | `TDataLoop`, `TFragmentChainLoop` | events read, the source | read one event, push it | queue to unpack, or the fragment queues |
| unpack | `TUnpackingLoop`, `libraries/TDataParser/TDataParser.cxx` | the output queues, fragment ids | pop a raw event, push each fragment to all good queues, or to the bad or the scaler queue | a parser library |
| pile-up | `libraries/TDataParser/TFragmentMap.cxx` | incomplete pile-ups by address | Add, DropFragments | called by parsers |
| event builder | `TEventBuildingLoop` | the multiset `fOrdered`, the event under construction, flags | one Iteration; ClearQueue | fragment queue in, event queue and queue of fragments out of order out |
| detector builder | `TDetBuildingLoop` | – | pop an event, build it, push it to all receivers | event queue in, one queue per receiver out |
| writers | `TFragWriteLoop`, `TAnalysisWriteLoop`, `TFragHistLoop`, `TAnalysisHistLoop`, `TFragDiagnosticsLoop` | trees, branches, histograms | pop, fill; write at the end | the queues before them |
| diagnostics | `TSortingDiagnostics`, `TParsingDiagnostics` | fragments out of order, sampled times, dead times | OutOfOrder, AddTime, Print | event builder, parsers |
| scaler queues | `libraries/TFormat/TScalerQueue.cxx` | two queues of scalers, counters, two mutexes | Add, PopScaler, Clear, CheckStatus | parsers, writers |
| calibration | `TPriorityValue`, `TChannel` | values with the priority of their source; the channels by address and by number; the text of the last file | ReadCalFile, WriteToRoot, AppendChannel, OverWriteChannel, SetNumber, DeleteAllChannels | everything |
| run information | `TRunInfo`, `TSingleton` | run, sub run, their ranges or lists, times | Add, AddCurrent, SetRunLength | programs that read several files |
| cycle pattern | `TPPG` | the map of changes; cycle length and durations, calculated once | AddData, Add, Copy, GetCycleLength, CalculateCycleFromData, Correct | parser, analysis |
| histograms | `GHSym`, `GCube` | half of a matrix, a buffer of fills, the cached full matrix | Fill, BufferEmpty, Reset, GetMatrix, Projection, Rebin2D | users' histogram code |
| the rest | `TScaler`, hits and detectors, `TAnalysis`, `TGRSIProof`, GROOT, TGUI, pygui, `util/` | | tables, arithmetic, graphics, stand-alone tools | |

PROJECT.json lists all of them with what is modelled.

### How they interact

Loops share nothing but queues. A loop's thread runs `Iteration` again and again
until it returns false or `fRunning` is reset, and then `OnEnd`. The end of the
data travels through the pipeline as `is_finished`: the source's `OnEnd` finishes
its queue; a loop that pops nothing and finds its input finished finishes its
own outputs and returns false. The user's end does the same: `Terminate` stops
the *sources* (`SendStop`) and waits for the rest (`LoopUntilDone`, `StopAll`).
A loop that needs the main thread (a user's histogram code may call `ProcessLine`)
posts the line to a timer and sleeps until the main thread has run it; the main
thread processes timers in `LoopUntilDone`, also while it terminates.

The data are called by all of these and call nobody: the parser adds fragments to
TFragmentMap and changes to TPPG, the writers fill trees, anyone may read and set
channels.

### What is hard

* **Popping and asking `IsFinished` are two calls.** Between them the parent may
  push its last items and finish. Every consumer of the pipeline is written this
  way, so every one of them can leave items behind.
* **Push waits with an `if`** and without a time limit: it may exceed the limit,
  and a lost wakeup would be a dead thread.
* **A full queue blocks its producer**: a queue that nobody empties (bad
  fragments without a fragment writer, fragments out of order without an
  analysis writer), or whose consumer ended early, hangs the whole sort.
* **The order of the end**: the last event before the end of its queue; a loop
  never before its parent; deletion only after the thread.
* **Sorting**: is a fragment late because the depth was too small, or because
  signed and unsigned comparisons of time stamps disagree?
* **Stopping**: `Stop` needs the mutex the loop holds for the whole of an
  Iteration, also while it waits in a Push for room; only sources are stopped; a
  paused loop does not look.
* **Ctrl-C** runs `Terminate` on top of whatever the main thread does, the second
  press in another thread, the third ends the process.
* **Commands**: one line, one flag and one result for all callers; the timer may
  fire late, or twice for one line.
* **Data with two views**: a map by number beside the map by address, a cache
  beside the data, a buffer beside the cells, a branch that is added late: each of them
  is right after one call and may be wrong after the fourth.
* **Closed formulas**: the charges of piled-up hits, half a matrix in an array.

PROJECT.json lists each hazard at its line with the properties aimed at it.

### What makes each component correct

* queue: first in first out; bounded; no wakeup lost; a blocked push returns.
* thread: no Iteration is cut by a stop; at most one more after it; ends in
  the order of the data; not deleted while it runs; a termination ends.
* event builder: nothing lost, nothing twice; events as wide as their window and
  no wider; sorted when the depth suffices; ends after its parent.
* pipeline: every receiver gets everything in order; nothing after the end of a
  queue; nobody is left pushing to a loop that has ended; it ends.
* session: under every combination of options each loop is fed, once; cleaning up is
  not interrupted by a second one; each line is run once and answered.
* data: the value given with the highest priority wins; both maps agree; what is
  written is read; a fragment is completed, kept, dropped or handed back, never
  lost; the charges solve their equations; only lost ids are reported, and all;
  all branches of a tree have as many entries; each fill is counted once; a range of
  runs has no gap; what is cached is what the data give.

## 2. Modules

```
FifoChannel  <--implements--  ThreadsafeQueue -- ThreadsafeQueueProofs
     ^                              |
     | (assumed by)                 MCThreadsafeQueue
SortPipeline -- SortPipelineProofs
     |
     MCSortPipeline
TEventBuildingLoop -- TEventBuildingLoopProofs
     |
     MCEventBuilding
StoppableThread -- StoppableThreadProofs
     |
     MCStoppableThread
SetupPipeline
     |
     TGRSIint -- TGRSIintProofs
     |
     MCTGRSIint
TPriorityValue -- TChannel --.
TAnalysisWriteLoop ----------+-- DataProofs
TRunInfo, TPPG --------------+
TFragDiagnosticsLoop --------+
TFragmentMap, PileUpCharges -+-- TFragmentMapProofs
GHSym -----------------------+-- GHSymProofs
                             '-- MCData (all of these)
```

**FifoChannel** is what a queue promises: Send appends, Receive takes the oldest,
and no more than Capacity items are under way. ThreadsafeQueue implements it with a
Capacity of MaxSize, one more for each producer and one more for each wakeup that no Pop
sent; with one producer and no such wakeup that is the MaxSize + 1 of SortPipeline.

**ThreadsafeQueue** models `ThreadsafeQueue.h`, one action per critical section.
A producer is idle, asleep in `can_push` or woken; a consumer likewise in
`can_pop`. `NotifyOne` wakes any one sleeper or nobody. A woken thread competes for
the mutex with everybody else (`PushAfterWait`, `PopAfterWait`), so barging is
possible, and `PushSpuriousWakeup` wakes a producer without a notification.
`PopTimeout` ends a `wait_for`; a spurious wakeup of a consumer looks the same.
`Pop` with a wait of zero is `Pop` or `PopReturnsEmpty` at once. `SetFinished` takes
either value at any time, as the code allows. `history` and `output` are auxiliary.

**StoppableThread** models `Loop` line by line for the thread of each loop (`pc`:
test, lock, held, wait, iterate, drained, on_end, done), and the main thread as a
call in progress with the list of loops still to be treated (`call`, `todo`), in the
order of `fThreadMap`. `MutexFree` says when another thread may take `fPauseMutex`.
`checked` is the test of `fRunning` that Pause and Resume make *before* they lock.
An Iteration takes an item, if there is one (`TakesItem`; `full` says whether the
loop's own queue is beyond its limit), and makes the calls of Push listed in `pushes`,
each of which waits while the reader's queue is full, with the mutex held. It may find
nothing (`FindsNothing`), or find its input finished (only if its feeder has
finished it); a source may fail whenever it reads.

**TEventBuildingLoop** models `Iteration` and the three build conditions. The parent
and ClearQueue act between any two steps; Pop (`CollectFragment`, `SortFragment`,
`PassFragment`, `FindEmpty`) and the answer of IsFinished (`WaitForParent`,
`BuildLeftover`, `Finish`) are different steps. `fOrdered` is a set of fragments, the
multiset's order is `Before`: by key, equal keys by insertion; with kSkip, whose
comparator is always true, the newest first, which is what the red-black tree of the
C++ library makes of it. Time stamps are compared as `int64_t` in the multiset and as
`uint64_t` in the window (`Wrap`, modulo TimestampRange). Times (doubles) are integers
here: rounding is not modelled. The detail an event has left is its fragments;
sampling for TSortingDiagnostics is left out.

**SortPipeline** wires the loops as SetupPipeline does, for a raw file. A queue is
a bounded FIFO, which the proof about ThreadsafeQueue justifies: one producer
and one consumer, MaxSize + 1 places. Every Pop, every answer of
IsFinished, every Push and every SetFinished is a step of its own; the pushes and
finishes an Iteration makes are a list `todo` worked through before the next Pop. The
builder is abstracted to "this fragment closes the event or not, joins it or goes
out of order"; `early` lets it close an empty event, as TEventBuildingLoop can.
The parser library decides what a raw event becomes.

**SetupPipeline** is the function of that name: from eleven options, which loops are
made and which queues connect them, for raw files, a chain of fragment trees, an
analysis tree or nothing. A queue is a record of the loop that fills it, the loop that
empties it and what it carries; where two stages both set a loop's input queue,
the later one wins, as in the code.

**TGRSIint** is a session. The main thread is a stack of procedures, each named by
where it is: setup, ResumeAll (one `fPauseMutex` after the other, `held`),
LoopUntilDone (test, sleep, process events), Terminate (send_stop, LoopUntilDone,
stop_all), the calls of Stop (named by the source they wait for, then stop_locked), the
prompt, and the action of DelayedProcessLine (take the line, run it,
publish, notify). A press of Ctrl-C puts Terminate on top of whatever is there. While
the handler is on the stack the main thread's signal is blocked and the next press is
handled in another thread; the second press clears all queues (a thread caught inside
a queue is `stuck`: it waits for a mutex it holds), the third ends the process. A
press is counted even when Terminate refuses because LoopUntilDone is processing
events. The callers of DelayedProcessLine are a loop and ReadTheNews' thread. Loops
are coarse here: an Iteration begins with an item, pushes into one queue per step, and
waits where a queue is full or a line is not answered; throughout it the loop holds
its `fPauseMutex`, which Stop and Resume wait for (`MutexFree`). A loop that Stop has
reset may be past the test of `fRunning` (`late`) and then does one more Iteration.
Loops end when their feeders have; the two modules above have the detail. OpenRootFile runs its command without
DelayedProcessLine and is not part of it.

**TPriorityValue** and **TChannel**: a channel has a number and a gain that carry
their priority (the gain stands for every field the parser sets with one and
PrintToString writes), `led`, which stands for the fields that are parsed in the same
way and never written (LED coefficients, stream, chi squares of CFD, LED and time),
and a range that a file sets without a priority. `fChannelNumberMap` maps a number to a channel or
to an object that is gone (`Stray`); the operations pass both maps on together.
`given` is the history of each gain. ParseInputData is a recursive function over the
entries of a text, and what is written is one entry for each channel, as PrintToString makes it, in the order
of the addresses, which here are also the order of the names SortedChannels sorts by.

**TFragmentMap** is Add and DropFragments, over a digitizer that sends
the fragments of a pile-up in order and loses some; `received` (auxiliary) is what
Add was given. The pile-ups are any whose fragments have 2n - 1 integrals together and
no earlier part of which is complete by itself (IsPileUp), as Add's test expects.

**PileUpCharges** is Solve, with the charges as fractions (numerators over
a common denominator) instead of floats. SolvedSituations says which of the three
situations a run looks at: `pair`, `bothWithFirst`, `thirdWithSecond`.

**TFragDiagnosticsLoop** is Process for one address; the digitizer numbers its hits
three ways and loses runs of them. Accepted ids are continued over their rollovers
modulo IdRange, as in the UShort_t of the code. **TAnalysisWriteLoop** is WriteEvent with
AddBranch, over ROOT's tree as a sequence of entries per branch. **GHSym** is filling
with and without a buffer, reading, the cached matrix, and Rebin2D with a new name and
without one, when `this` has its new axis before its old cells are located; the cells
are an array indexed by GetBin as in the code. **TRunInfo** is Add and SetRunLength over
files in any order. **TPPG** is the map of changes with all that is calculated from it
and kept; one turn of the loop in Correct is a step, so that the map it walks over is
the one it inserts into.

**MCData** puts these together: a behaviour is of one of them (`part`) and the
others stay as they are, because they share no state in the code either.

The definitions that begin with the comment "Faulty:" are plausible mistakes (a
dropped test, an off-by-one, a swapped order). No specification uses them; each is put
in the place of the definition it stands before to see that a property notices.

## 3. Runs

| run | module, configuration | states | what it asks |
|---|---|---|---|
| `queue` | MCThreadsafeQueue | 13 902 | two producers and two consumers on a queue of limit 1; WithinCapacity, NobodySleepsInVain, ImplementsChannel, BlockedPushReturns |
| `threads` | MCStoppableThread | 73 882 | a source and two loops, any sequence of resume, pause, terminate, any queue full or not; AtMostOneLateIteration, NoFeederLeftBehind, DeletedAfterEnd, StopWaitsForIteration, TerminateEnds |
| `terminate_paused` | MCStoppableThread, MCTerminatePaused.cfg | violation | "Kills all of the threads" (TGRSIint.cxx:194) |
| `events` | MCEventBuilding | 571 696 | all build modes and flags; TypeOK, EveryFragmentInOnePlace, EventsWithinWindow, NoNeedlessSplit, NoEmptyEvent, SortedIfDepthSuffices, AllDelivered, FinishesAfterParent |
| `events_race` | MCEventBuilding, MCEventRace.cfg | violation | "we have passed on all events" (TEventBuildingLoop.cxx:103) |
| `pipeline` | MCSortPipeline | 347 336 | four sorts; EveryReceiverGetsAll, Delivered, NoPushToTheDead, NothingAfterFinish, PipelineEnds |
| `pipeline_out_of_order` | MCSortPipeline, MCPipelineOutOfOrder.cfg | violation | "Write out-of-order fragments to a separate tree" (TGRSIOptions.cxx:325) |
| `session` | MCTGRSIint | 230 565 | SetupPipeline under all 2048 combinations of options, and four sessions with any presses of Ctrl-C, any command lines and a queue that fills up; WiringSound, EveryLineRunOnce, CleanupNotReentered, EveryCommandAnswered, TerminationEnds |
| `session_deadlock` | MCTGRSIint, MCTerminateDeadlock.cfg | violation | TerminateKills: "Kills all of the threads" (TGRSIint.cxx:194) |
| `data` | MCData | 705 165 | channels: NumbersFoundAfterCalFile, HighestPriorityWins, WrittenIsRead; pile-up: EveryFragmentOnce, ArrivalOrderKept, SpoiledOnlyByLoss, SolveMinimises; LostIdsAreLost; EntriesInStep; histograms: EveryFillOnce, RebinnedCopyIsFills; RangeHasNoGap; CachesOfData |
| `channels_update` | MCData, MCChannelsUpdate.cfg | violation | UpdatedFromFile: "the current TChannel with the same address is updated with that information" (TChannel.cxx:411) |
| `run_length` | MCData, MCRunLength.cfg | violation | LengthSurvives: "otherwise this function call does nothing" (grsiframe.cxx:75-77) |

Deadlock checking is off (CHECK_DEADLOCK FALSE) where the program may stop: the
threads are deleted, the builder ends, the pipeline is done or blocked by a full
orphan queue, the process exits, a part of the data reaches its bound. For
the queue it is on and says nothing: SetFinished may be called in every state, so
that no state is without a successor. That nobody waits in vain there is
NobodySleepsInVain and BlockedPushReturns.

### Bounds

* queue: limit 1 with two producers is the smallest instance in which a woken
  producer can be overtaken; three pushes per producer fill the queue past its
  limit and leave one to block; two consumers are what ClearQueue makes of a loop's
  queue. One spurious wakeup is enough to enter at a full queue.
* threads: the chain of three has a loop that is fed by a source and one that is
  fed by a loop that is not; the properties relate neighbours only. Iterations are not
  counted except after a stop (`late`), so there is no bound on them; in one of them
  a loop pushes at most once (PushBound), and a queue may be full after any Push.
* events: sort depth 2, window 2, four fragments, keys -1, 1, 2, 4, one cleared
  fragment. Keys 1, 2, 4 make one event with a moving window and two with a static
  one; 1 is below the window, -1 is a time stamp an offset has made negative;
  four fragments fill the multiset twice over, so that one comes too late for the
  depth. TimestampRange 32 leaves the values apart from the wrap as 2^64 does.
* pipeline: queues of limit 0 (one item) so that every push can block; two to
  four raw events, enough for an item in each of two queues and one in hand. The
  run about fragments out of order needs limit 1 and three events: two of
  them pile up behind the writer.
* session: every combination of options is set up. Four are followed: a chain of
  fragment trees into fragment histograms whose user library calls ProcessLine, closed
  after the sort or not; no input; and histograms of an analysis tree, which
  SetupPipeline gives up on. The queue takes one item (MaxSize 0). In the session that closes after the sort
  three events (EventBound) leave the source blocked in Push while the loop behind
  it waits for an answer, the least that makes the circle of `session_deadlock`; the
  sessions that stay open have two events, which are enough to block in Push, and
  ReadTheNews' thread (ReadingMaterial): two callers are the least that share the one
  line and flag.
* data (constants in MCData.cfg, sets in MCData): channels, four operations over three
  files whose numbers cross over, two addresses and two values a user gives.
  Fragments: four pile-ups of one address, two fragments lost, so that a pile-up can
  be cut at either end by the next one; addresses do not touch each other. Charges:
  values 0 and 1 and three lengths are enough to find a wrong sign; that the right ones
  are right everywhere is proved. Lost ids: 41 hits roll a counter of 20 over twice, with thresholds
  scaled from 1000 of 2^14; two ids lost at a time, at least nine hits between losses; IdRange 40 is two
  rollovers, as 2^16 is four.
  Tree: two classes, five events. Histograms: 2 and 3 bins, fills on both sides of the
  diagonal, in underflow and overflow, buffers of two fills (size 7) or none. Runs: four runs
  of three sub runs, five files in any order, one twice. Pattern: nine changes make
  two cycles; three patterns of other files; Correct stops at TimeBound.

### Fairness

* queue: a woken producer eventually gets the mutex, and consumers keep
  popping (the loops do: each Iteration pops). Producers need not push.
* threads: weak fairness of every loop, because a thread runs, and of the main
  thread. One strong fairness: a loop whose input is finished eventually finds it
  empty, because nobody fills it. That the main thread ever gets a `fPauseMutex` which
  the loop unlocks only for the moment between two Iterations is *not* assumed:
  `std::mutex` does not promise it, and a real Stop can starve (TDataLoop sleeps half a
  second with the mutex held when its source has nothing). So the properties say
  that the mutex becomes free (SourceLetsGo in TerminateEnds), and what follows once
  SendStop has returned (EndsOnceStopped). Only `terminate_paused` grants the mutex
  (GrantedSpec), to show that the failure there is not starvation.
* events and pipeline: weak fairness of each loop's thread. The parent may stay
  silent for ever: what is claimed begins with its end.
* session: weak fairness of the main thread's next step, of each loop and of each
  caller: threads run, and a timer that is due fires when events are processed. A Stop that
  competes with a source which sleeps with its mutex and takes it again at once is
  exempt (MayStarve, in EveryCommandAnswered; TerminationEnds is of sorts that end with
  their input, in which a source takes its mutex only a few more times). The
  user (Quit, Notify) and spurious wakeups (WakeUp) owe nothing.
* data: safety only; nothing there is bound to happen.

### What the checks show

The properties of section 1 hold in these instances, with the conditions they
state. The conditions are the findings:

* Delivery (AllDelivered, Delivered) holds *unless a loop raced*: its Pop found
  nothing, the parent then pushed and finished, and the loop found the input
  finished. `events_race` exhibits it for the builder; the auxiliary variable
  `raced` marks it everywhere: a loop that ends with items before it, or with a push
  to it pending.
* SortedIfDepthSuffices leaves out negative time stamps: the multiset orders them
  first, the window test takes them for huge.
* PipelineEnds holds *unless an orphan queue is full*; the code has two orphans
  (bad fragments and scalers without a fragment tree, fragments out of order
  without an analysis tree). The limits in the code are tens of thousands of
  items, so only a large or a noisy run meets them.
* An empty event, which the builder may push (kSkip and time stamps below the
  window), is one way to race: the detector builder takes it for the end and leaves
  what is behind it. NoEmptyEvent says when this cannot happen.
* OutOfOrderWritten fails: the analysis writer ends without emptying that queue.
* TerminateEnds holds while no loop but a source is
  paused. If one is, its queue fills up, the source blocks in Push with its
  mutex, and SendStop waits for it (`terminate_paused`); ResumeAll, which begins with
  the source, waits in the same way.
* EveryCommandAnswered and TerminationEnds leave out a circle (CircularWait): the main
  thread waits in SendStop for the mutex of a source, the source in Push for room in
  its queue, and the loop that would make room for the main thread to run its line.
  `session_deadlock` shows it with one press of Ctrl-C. Without it the loops end
  and the lines are answered, although both wait for the main thread, because
  LoopUntilDone goes on processing events. Left out as well are a Ctrl-C that arrives
  while ResumeAll or Stop holds a source's `fPauseMutex` (the handler then locks a
  mutex its own thread holds, CaughtHolding) and, from TerminationEnds, a second press,
  which clears queues from a signal handler. The third press may call `exit` while
  writers are in OnEnd.
* SolveMinimises holds for two hits and for three that pile up one after the other,
  and fails for three that pile up with the first: two of its formulas have wrong
  signs.
* HighestPriorityWins holds for values that are set with a priority; the energy
  ranges of a cal file are not, so a file does not update them (`channels_update`).
* LengthSurvives fails for sub runs that are not consecutive (`run_length`).
* WrittenIsRead holds for the fields PrintToString has a line for; five kinds of
  fields that a cal file can give it does not write.
* LostIdsAreLost claims accepted ids as long as the continued id fits 16 bits, that is
  until the fourth rollover; beyond that losses go unreported. It
  claims nothing for ids before the first with a channel id and
  below the second accepted id: the code takes an id of 0 for none.
* RebinnedCopyIsFills holds for a new histogram, where a group on the diagonal counts a
  fill of two different bins twice, as the block of the full matrix does. A
  histogram that is rebinned itself, the default, gets the wrong cells.
* EveryFillOnce counts a fill as 1 while the histogram has a buffer: Fill with a
  weight hands the values to the buffer and not the weight.
* CachesOfData leaves out the durations after Correct, which does not forget them.

Four of these limits of the data have no run of their own. Each shows as a
counterexample when MCData.cfg is changed as the last column says:

| where the code fails | against | seen with |
|---|---|---|
| the charges of two later hits that pile up with the first (TFragmentMap.cxx:393-404) | "Solves minimization of charges" (TFragmentMap.cxx:344) | `bothWithFirst` in SolvedSituations, SolveMinimises |
| LED coefficients, stream, chi squares of CFD, LED and time are read (TChannel.cxx:1298-1301, 1317-1328, 1363-1369) and not written (886-1006) | "writes any TChannels in memory to the internal buffer" (TChannel.cxx:1073) | AllIsWritten |
| the continued accepted id is a UShort_t (TFragment.h:64; TFragDiagnosticsLoop.cxx:231, 233) and wraps at the fourth rollover | "deals with the rolling over of the AcceptedChannelId" (TFragDiagnosticsLoop.cxx:212) | LostIdsOverRollovers |
| Rebin2D without a new name, the default (GHSym.h:98), sets the new axis (2322) before it locates the old cells with it (2343, 2345) | "merges two bins along the xaxis and yaxis in one in hpxpy" (GHSym.cxx:2226) | RebinnedInPlaceIsFills |

## 4. Proofs

All theorems are about the specifications themselves, for every value of the constants
that meets the named assumption of its module (QueueAssumption, ThreadAssumption,
EventAssumption, PipelineAssumption, SessionAssumption, ChannelAssumption,
FragmentAssumption, SolveAssumption, DiagAssumption, WriteAssumption, HistAssumption, RunAssumption,
PpgAssumption): any number of producers, consumers, loops, askers, fragments, files
and fills, any size, window, sort depth greater than zero, and range of time stamps
that holds the keys and twice the window. The assumptions type the constants and bound
them from below where the code needs it (a sort depth, a bin, a unit of time stamps is
not 0). Two say something about the surroundings as well. FragmentAssumption takes the
pile-ups for what the digitizer sends (IsPileUp). DiagAssumption says how many
hits in a row may be lost (`Gap`) and how many arrive between two losses (`MinRun`).
More than `fRollnumThreshold` hits have to arrive between two losses, and one loss
together with them stays below `fRollingThreshold`; with the code's 20 and 1000, losses
of up to 978 hits with 21 between them. And a sort does not begin with accepted ids
about to roll over. PROJECT.json lists the theorems that matter.

Many operators are folds or functions defined by recursion over numbers. The prover
cannot use the library's induction theorems, so the lemmas about them are proved by
the least counterexample (LeastNumber: a non-empty set of naturals has a least
element, from the well-foundedness of the order), stated once per module.

* **ThreadsafeQueueProofs** — TypeCorrect, FifoCorrect, CapacityCorrect, NoLostWakeup,
  QueueImplementsChannel. `Ordered` (what is in the queue and what came out is what
  went in; the counters agree) is inductive with the types. The wakeups need more
  (`Counted`): WithinCapacity is not inductive, because a producer in the wait is
  about to add an item without another look; so the woken ones are counted with the
  items, and NoLostWakeup (NobodySleepsInVain, both sides) is proved with it since a
  stolen wakeup is only harmless if an item or a place went with it. The refinement
  maps a completed Push to Send, a successful Pop to Receive, and all else to a
  stutter.
* **StoppableThreadProofs** — TypeCorrect, LateIterations (`LateInv`: an iteration may
  be late only on the way from the test to Iteration), StopWaits (an action property,
  from the types alone: Stop needs the mutex), FeederFirst (`FeederInv`: a loop that
  is no source has reset its own `fRunning` only after its input was finished),
  DeleteSafe (`JoinInv`: while StopAll joins, each loop is done or still on the list).
* **TEventBuildingLoopProofs** — TypeCorrect (with `IsFiniteSet(fOrdered)`, without
  which the cardinality in the sort depth means nothing), WindowCorrect (`WindowInv`:
  the event under construction fits as well, `Fits(fNextEvent)`; the step is that a
  fragment joins only inside the window, which survives the wrap of unsigned
  arithmetic because keys and window are small against the range), Delivered
  (`KeepInv`: every fragment fed is still kept somewhere, and `DoneInv`: at the end
  the builder holds nothing).
  And what the events look like: NeverEmpty;
  NeverSplit (`SplitInv`: the event under construction counts as the last of the list,
  with the window of the fragment that would have extended it). OncePlaced
  (`PlaceInv`: no fragment twice in the queue, in one event or in two, none in two of
  the five places, and all of them fed; a step that builds takes its fragment from one
  place and puts it into exactly one, BuildPlaces). SortedOut, which needs most:
  `FifoInv` (what is behind in the queue was pushed later than all before it and all
  in the multiset) and `OrderInv`: nothing in an event is later than anything that
  waits, and behind each of them, unless the input is over, as many fragments as the
  depth have come that are no earlier (`Deep`). A fragment that is pushed now with an
  earlier key would have come after all of these (`TooMany`, an injection into the
  positions DepthSuffices counts), so the depth would not have sufficed. `NotLate`
  then keeps the builder from taking it for late, and with time stamps uses that
  neither wraps.
* **SortPipelineProofs** — TypeCorrect, FinishIsFinal, LoopsEndInOrder. `Typed` (a
  loop's list of calls only names queues of its own). `Ordered`: in a list of calls
  pushes precede finishes, finishes are only in a loop's last list, and a finished
  queue's producer has ended with no push left; this is what makes NothingAfterFinish
  inductive. `Ended`: a loop has ended only when all it pops from is finished; the
  queue of fragments out of order is never finished and is covered through the
  detector builder, which ends after the event builder. ReceiversGetAll and
  AllDelivered rest on `Conserved`, which needs those two. Its core: what was popped
  from a queue, is in it, or is in a push its producer has still to make (`Put(q)`)
  only grows, and each loop's Iteration appends to `Put` what it derives from the item
  it popped. So the good queues of a loop carry the same (`Received`), the raw events
  are numbered and the fragments distinct (`Numbered`, `Once`), every fragment the
  builder took is in an event, in the one under construction or out of order
  (`Built`), and a loop that has ended without a race has nothing left to pop
  (`Drained`), by the order of the ends.
* **TGRSIintProofs** — Wiring: for all options, by cases on the input, every loop
  is fed once per kind and only the three known queues have no consumer.
  WiringCorrect; CleanupOnce (`StackInv`: stop_all is only returned to by
  LoopUntilDone, which returns when no thread runs, and then Notify exits); LinesRunOnce (`CommandInv`: a line in hand has one timer or one frame of the
  stack that acts on it, never both, and one owner; `LogInv`: a caller's line has been
  run just when the frame has run it or the result is there, so the lines run are
  those answered and at most that one more).
* **TFragmentMapProofs** — FragmentsOnce and OrderKept. What the digitizer has still to
  send is in order and behind all that was received (`Sending`); what waits is in order
  and behind all that was pushed (`Output`); a group is appended as a whole.
  SpoiledFew (`LossInv`): what waits and is sent at an address has a surplus of integrals
  over those that complete its groups. Each lost fragment adds one at most, each
  pile-up that is swallowed by a group of another takes one away, and a group that is
  complete leaves none, so the pile-ups torn or mixed and the surplus together are never
  more than the losses (`Fewer`). It rests on `WholeFits`: while a pile-up of which
  nothing was lost is sent and nothing of another waits, the surplus is zero, so it is
  complete with its last fragment and not before. It holds for pile-ups of any length.
  ChargesMinimise: for two hits, and for three that pile up with the second, what Solve
  calculates makes the derivative of the sum of squares zero, for all integrals and
  lengths; the formulas for three that pile up with the first are excluded by name,
  because they fail (SolveMinimises is violated).
* **DataProofs** — RangesCorrect (`RunInv`: the list kept is that of the files added, a
  run number is kept only while they are of one run, and a range names just the runs
  added). CachesCorrect (`PpgInv`: a length or a
  duration that is kept is the one the map now gives; Correct inserts while it walks,
  which leaves the ones it must forget). BranchesInStep (`WriteInv`: entry i of every
  branch comes from event i; a class without a branch was in no event). NumbersFound,
  PriorityDecides, WrittenFieldsReadBack (`ChannelInv`, with `Sound` for the maps the
  operations pass on): for any files and user, each gain with its priority is the last
  of those given with the highest one, which every operation of a channel keeps;
  parsing what is written gives the same channels back, but for the fields that are not
  written. LostIdsFound (`DiagInv`): the
  lists are the ids of all hits missing before the last but one (`ChannelKept`,
  `AcceptedKept`, `PacketKept`), each step adding those between the last two; and the
  accepted id the code makes of its remainder is the digitizer's (EdgeArrive), because
  of `EdgeSeen`: the next id is in the cycle the code counts, and past the edge by no
  more than the hits seen there and one loss. Of accepted ids it claims nothing once
  they exceed IdRange: until then the wrap of `Unrolled` does nothing
  (AcceptedIdsFit).
* **GHSymProofs** — EveryFillIsRead and RebinnedCopyKeepsFills. GetBin gives a pair the
  place of its mirror image and no other pair's (`RowsApart`, `OneCellPerPair`: rows of
  a triangle do not overlap). `HistInv`: in each state of the buffer the fills are in
  the array, in the buffer or in both, and the sign of the buffer's counter says which;
  a cached matrix is that of the array unless a fill came since. Rebin2D with a new name
  adds up disjoint rectangles of cells (lemmas on finite sums); nothing is proved of a
  histogram rebinned in place, where it is false.

Only model-checked: liveness, which the prover does not reach: BlockedPushReturns,
TerminateEnds, FinishesAfterParent, PipelineEnds, EveryCommandAnswered,
TerminationEnds.

## 5. Not modelled

* The status thread and its unlocked walk over `fThreadMap` (undefined behaviour, not
  a state), EndStatus and all messages.
* A source that is not self stopping, `--number-of-events` and `--downscaling` as
  numbers: ReadEvent and EndOfInput are nondeterministic instead. `SetEntry`,
  `Restart` and `Rewind` of the chain loop, for online displays.
* `--sort-depth=0` (a division by zero).
* TSortingDiagnostics and TParsingDiagnostics: counters for the printout.
* TScalerQueue: nothing in this repository adds to these queues.
* TSingleton::Get and GetAll, which look objects up by name in ROOT's current
  directory and in files; AddCurrent is in TRunInfo.
* In TFragmentMap: the charges when an integral is missing (156-180 and the like), and
  the entry number, which line 320 sets on the last fragment only.
* In GHSym: the under- and overflow of a rebinned histogram (2362-2484) and its
  statistics; cells are integers here and floats in GHSymF, which stop
  counting at 2^24.
* GCube, which repeats GHSym in three dimensions; the automatic extension of axes,
  errors, labels and cuts of both.
* In TChannel: names and mnemonics, the arithmetic of the calibrations, the layout of
  the file.
* TPPG's cycle from the ODB, Next and Previous.
* Detectors and hits, numerical code, fits, graphics (GROOT, TGUI, pygui), stand-alone
  tools, file formats, ROOT, the parser libraries: no state a model of
  this kind would say anything about, or not in this repository. They are most of the
  lines of the implementation, which is why the map covers a small share of it.

## 6. Plan

Done: the queue and its abstract channel; threads; the event builder; the pipeline;
the session; calibration, pile-up, lost ids, analysis tree, symmetric histograms, run
infos and cycle pattern; proofs of all safety properties.

What is left, in order:

1. *Builder refined*: an abstract builder stage (takes fragments, emits events,
   ends after its parent) that TEventBuildingLoop implements and SortPipeline uses.
2. *Session in detail*: TGRSIint's loops replaced by those of StoppableThread, so that
   Pause and Resume meet Ctrl-C.
3. *Sources*: TDataLoop's counters with downscaling.
4. *Data*: GCube beside GHSym.
