-------------------------------- MODULE TPPG --------------------------------
(***************************************************************************)
(* The pattern of the cycles of a run (libraries/TFormat/TPPG.cxx): the    *)
(* map of the time stamps at which the state of the cycle changed, the     *)
(* cycle length and the durations of the states that are calculated from   *)
(* it once and kept, and Correct, which fills in changes that are missing. *)
(*                                                                         *)
(* The parser (external) adds the changes of the run, one per unit of      *)
(* time, of which some are lost.  One turn of the loop in Correct is a     *)
(* step.  The cycle of the ODB, the iterator of Next and Previous, and     *)
(* printing are left out.                                                  *)
(***************************************************************************)
EXTENDS Integers, Sequences, FiniteSets, FiniteSetsExt

CONSTANTS
    Changes,        \* changes of state in a run
    TimestampUnits, \* fTimestampUnits: time per unit of a raw time stamp
    Others,         \* the patterns of other files: sets of changes
    TimeBound,      \* bound on the times at which Correct inserts
    PpgOpBound      \* operations beside the parser's

ASSUME PpgAssumption ==
    /\ Changes \in Nat /\ TimestampUnits \in Nat \ {0}
    /\ Others \subseteq SUBSET (Nat \ {0})
    /\ \A ns \in Others : IsFiniteSet(ns)
    /\ TimeBound \in Nat /\ PpgOpBound \in Nat

VARIABLES
    fPPGStatusMap,          \* time -> the new state and the old one
    fCycleLength,
    fNumberOfCycleLengths,  \* difference -> how often it was counted
    fCycleSet,              \* the durations are calculated
    fDurations,             \* state -> duration
    correcting,             \* where Correct is in the map
    corrected,              \* Correct was the last to change the map
    next                    \* the next change of the run

cycleLength == <<fCycleLength, fNumberOfCycleLengths>>
durations == <<fCycleSet, fDurations>>

VARIABLE ppgOps
ppgVars == <<fPPGStatusMap, cycleLength, durations, correcting, corrected, next,
             ppgOps>>

\* fPPGCodes: each state lasts until the next one begins.
fPPGCodes == <<"kTapeMove", "kBackground", "kBeamOn", "kDecay">>
kJunk == "kJunk"
Code(n) == fPPGCodes[1 + ((n - 1) % 4)]

NotCorrecting == 0
AtEnd == -1

\* The map is never without a junk entry at time 0, which MapBegin skips.
JustJunk == [t \in {0} |-> [new |-> kJunk, old |-> kJunk]]
Times(map) == DOMAIN map \ {0}

\* The changes n of the run, as entries.
ChangesOf(ns) == [n \in ns |-> [new |-> Code(n), old |-> Code(n + 3)]]

\* Nothing is inserted where something is.
Inserted(map, entries) ==
    [t \in DOMAIN map \cup DOMAIN entries |->
        IF t \in DOMAIN map THEN map[t] ELSE entries[t]]
-----------------------------------------------------------------------------
(* Looking things up                                                       *)

Latest(times) == IF times = {} THEN 0 ELSE Max(times)
TimeAfter(map, time) ==
    LET later == {t \in DOMAIN map : t > time}
    IN  IF later = {} THEN AtEnd ELSE Min(later)

\* GetLastStatusTime of the change at a time, without a pattern: not that
\* change, but the one before it to the same state.
PreviousTime(map, time) ==
    Latest({t \in Times(map) : t < time /\ map[t].new = map[time].new})

\* GetLastStatusTime with a pattern.
LastStatusTime(map, time, state) ==
    Latest({t \in Times(map) : t <= time /\ map[t].new = state})

Histogrammed(of(_), times) ==
    [d \in {of(t) : t \in times} |-> Cardinality({t \in times : of(t) = d})]

\* What was counted most often, the smallest on a tie.
MostOften(counts, none) ==
    IF DOMAIN counts = {} THEN none
    ELSE LET most == Max({counts[d] : d \in DOMAIN counts})
         IN  Min({d \in DOMAIN counts : counts[d] = most})

\* The differences from each change to the previous one to the same state.
Differences(map) ==
    LET since(t) == t - PreviousTime(map, t) IN Histogrammed(since, Times(map))

\* How long a state lasted, at each beginning of the state after it.
StateLengths(map, i) ==
    LET ends == {t \in Times(map) : map[t].new = Code(i + 1)}
        lasted(t) == t - LastStatusTime(map, t, Code(i))
    IN  Histogrammed(lasted, ends)
-----------------------------------------------------------------------------
(* The operations                                                          *)

PpgInit ==
    /\ fPPGStatusMap = JustJunk
    /\ fCycleLength = 0 /\ fNumberOfCycleLengths = <<>>
    /\ fCycleSet = FALSE /\ fDurations = [i \in 1 .. 4 |-> 0]
    /\ correcting = NotCorrecting /\ corrected = FALSE
    /\ next = 1 /\ ppgOps = 0

PpgOperation ==
    /\ correcting = NotCorrecting
    /\ ppgOps < PpgOpBound
    /\ ppgOps' = ppgOps + 1

\* GetCycleLength with a map, after the length was set to what it is or to 0.
\* What is counted is counted onto what was before.
CycleLengthFrom(map, length, counts) ==
    LET count(f, d) == IF d \in DOMAIN f THEN f[d] ELSE 0
        more == Differences(map)
        all == [d \in DOMAIN counts \cup DOMAIN more |-> count(counts, d) + count(more, d)]
    IN  IF length # 0 THEN fCycleLength' = length /\ fNumberOfCycleLengths' = counts
        ELSE /\ fNumberOfCycleLengths' = all
             /\ fCycleLength' = MostOften(all, 0)

\* Faulty: data are added and the durations are kept.
ForgetLength ==
    /\ fCycleLength' = 0 /\ fNumberOfCycleLengths' = <<>>
    /\ UNCHANGED <<fCycleSet, fDurations>>

\* What AddData does beside inserting.
ForgetCycle ==
    /\ fCycleLength' = 0 /\ fNumberOfCycleLengths' = <<>>
    /\ fCycleSet' = FALSE
    /\ UNCHANGED fDurations

\* The parser adds the next change.
AddData ==
    /\ correcting = NotCorrecting
    /\ next <= Changes
    /\ next' = next + 1
    /\ fPPGStatusMap' = Inserted(fPPGStatusMap, ChangesOf({next}))
    /\ ForgetCycle
    /\ corrected' = FALSE
    /\ UNCHANGED <<correcting, ppgOps>>

LoseChange ==
    /\ next <= Changes
    /\ next' = next + 1
    /\ UNCHANGED <<fPPGStatusMap, cycleLength, durations, correcting, corrected,
                   ppgOps>>

\* The sum with the pattern of another file, which is not empty.
AddPPG(ns) ==
    LET sum == Inserted(fPPGStatusMap, ChangesOf(ns))
    IN  /\ PpgOperation
        /\ fPPGStatusMap' = sum
        /\ CycleLengthFrom(sum, 0, <<>>)
        /\ fCycleSet' = FALSE
        /\ corrected' = FALSE
        /\ UNCHANGED <<fDurations, correcting, next>>

\* Clear, or an assignment: Clear, and the entries of the other.
CopyPPG(ns) ==
    /\ PpgOperation
    /\ fPPGStatusMap' = Inserted(JustJunk, ChangesOf(ns))
    /\ ForgetCycle
    /\ corrected' = FALSE
    /\ UNCHANGED <<correcting, next>>

GetCycleLength ==
    /\ PpgOperation
    /\ CycleLengthFrom(fPPGStatusMap, fCycleLength, fNumberOfCycleLengths)
    /\ UNCHANGED <<fPPGStatusMap, durations, correcting, corrected, next>>

\* A state that has no length keeps the duration it had.
Durations(map, before) ==
    [i \in 1 .. 4 |-> MostOften(StateLengths(map, i), before[i])]

CalculateCycleFromData ==
    /\ PpgOperation
    /\ fCycleSet' = TRUE
    /\ fDurations' = IF fCycleSet THEN fDurations ELSE Durations(fPPGStatusMap, fDurations)
    /\ UNCHANGED <<fPPGStatusMap, cycleLength, correcting, corrected, next>>
-----------------------------------------------------------------------------
(* Correct                                                                 *)

BeginCorrect ==
    /\ PpgOperation
    /\ CycleLengthFrom(fPPGStatusMap, fCycleLength, fNumberOfCycleLengths)
    /\ correcting' = TimeAfter(fPPGStatusMap, 0)
    /\ UNCHANGED <<fPPGStatusMap, durations, corrected, next>>

\* The change before this one to the same state is more than a cycle ago, and
\* a whole number of cycles.
ChangeMissing(map, time) ==
    LET diff == time - PreviousTime(map, time)
    IN  time >= fCycleLength /\ diff # fCycleLength /\ diff % fCycleLength = 0

Correcting ==
    /\ correcting \notin {NotCorrecting, AtEnd}
    /\ UNCHANGED <<cycleLength, durations, next, ppgOps>>

NothingMissing ==
    /\ Correcting
    /\ ~ ChangeMissing(fPPGStatusMap, correcting)
    /\ correcting' = TimeAfter(fPPGStatusMap, correcting)
    /\ UNCHANGED <<fPPGStatusMap, corrected>>

\* There is a change a cycle ago, to another state: if the one after it was
\* from this state, it was to this state.
CorrectState ==
    LET ago == correcting - fCycleLength
        state == fPPGStatusMap[correcting].new
    IN  /\ Correcting
        /\ ChangeMissing(fPPGStatusMap, correcting)
        /\ ago \in DOMAIN fPPGStatusMap
        /\ IF state = fPPGStatusMap[TimeAfter(fPPGStatusMap, ago)].old
           THEN /\ fPPGStatusMap' = [fPPGStatusMap EXCEPT ![ago].new = state]
                /\ corrected' = TRUE
           ELSE UNCHANGED <<fPPGStatusMap, corrected>>
        /\ correcting' = TimeAfter(fPPGStatusMap, correcting)

\* There is none: this change is inserted there as well, and looked at next.
\* The time is set as a raw time stamp, which is counted in other units.
InsertChange ==
    LET ago == correcting - fCycleLength
        time == TimestampUnits * ago
    IN  /\ Correcting
        /\ ChangeMissing(fPPGStatusMap, correcting)
        /\ ago \notin DOMAIN fPPGStatusMap
        /\ time <= TimeBound
        /\ fPPGStatusMap' = Inserted(fPPGStatusMap, [t \in {time} |-> fPPGStatusMap[correcting]])
        /\ correcting' = time
        /\ corrected' = TRUE

EndCorrect ==
    /\ correcting = AtEnd
    /\ correcting' = NotCorrecting
    /\ CycleLengthFrom(fPPGStatusMap, 0, <<>>)
    /\ UNCHANGED <<fPPGStatusMap, durations, corrected, next, ppgOps>>

PpgNext ==
    \/ AddData \/ LoseChange
    \/ \E ns \in Others : (ns # {} /\ AddPPG(ns)) \/ CopyPPG(ns)
    \/ GetCycleLength \/ CalculateCycleFromData
    \/ BeginCorrect \/ NothingMissing \/ CorrectState \/ InsertChange \/ EndCorrect

PpgSpec == PpgInit /\ [][PpgNext]_ppgVars
-----------------------------------------------------------------------------
(* What must hold                                                          *)

\* What was calculated once is what the data give now, whatever was added,
\* assigned or corrected since: the cycle length and its counts always (a
\* TPPG that is being corrected counts with the length it began with), the
\* durations unless Correct has changed the map, which does not forget them.
CachesOfData ==
    correcting = NotCorrecting =>
        /\ fCycleLength # 0 =>
               /\ fNumberOfCycleLengths = Differences(fPPGStatusMap)
               /\ fCycleLength = MostOften(fNumberOfCycleLengths, 0)
        /\ fCycleSet /\ ~ corrected =>
               fDurations = Durations(fPPGStatusMap, fDurations)
=============================================================================
