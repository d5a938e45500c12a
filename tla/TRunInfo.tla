------------------------------ MODULE TRunInfo ------------------------------
(***************************************************************************)
(* What a program that reads several files knows of their runs             *)
(* (libraries/TFormat/TRunInfo.cxx): the run info of the first file is the *)
(* singleton, those of the others are added to it (TSingleton::AddCurrent, *)
(* which hands on each file once), and SetRunLength follows                *)
(* (util/grsiframe.cxx, GRSIProof/grsiproof.cxx).                          *)
(*                                                                         *)
(* A run info is a record of the members that Add changes.  The files are  *)
(* external: each is of one sub run and of a positive length, and a later  *)
(* sub run starts later.                                                   *)
(***************************************************************************)
EXTENDS Integers, FiniteSets, FiniteSetsExt

CONSTANTS
    Runs, SubRuns,      \* of the files
    FileBound           \* files that are read

ASSUME RunAssumption ==
    /\ Runs \subseteq Nat \ {0}
    /\ SubRuns \subseteq Nat
    /\ FileBound \in Nat

VARIABLES
    runInfo,            \* the singleton
    added               \* the files, as pairs of run and sub run

runVars == <<runInfo, added>>

NoRun == 0
NoSubRun == -1

\* Runs begin at multiples of 10, sub runs follow each other without a gap.
Start(run, sub) == 10 * run + sub + 1
Stop(run, sub) == Start(run, sub) + 1
Length(run, sub) == Stop(run, sub) - Start(run, sub)

\* The run info a file holds.
InFile(run, sub) ==
    [fRunNumber |-> run, fSubRunNumber |-> sub,
     fFirstRunNumber |-> NoRun, fLastRunNumber |-> NoRun,
     fFirstSubRunNumber |-> NoSubRun, fLastSubRunNumber |-> NoSubRun,
     fRunList |-> {}, fRunStart |-> Start(run, sub), fRunStop |-> Stop(run, sub),
     fRunLength |-> Length(run, sub)]
-----------------------------------------------------------------------------
(* Add                                                                     *)

\* Start and stop have no meaning where something is missing in between.
NoTimes(info) == [info EXCEPT !.fRunStart = 0, !.fRunStop = 0]

\* A first file of another run: from now on there is no run number, but a
\* range of runs, which is of one run if the two are not consecutive.
SecondRun(info, new) ==
    LET none == [info EXCEPT !.fRunNumber = NoRun, !.fSubRunNumber = NoSubRun]
        own == info.fRunNumber
        run == new.fRunNumber
    IN  IF run + 1 = own
        THEN [none EXCEPT !.fFirstRunNumber = run, !.fLastRunNumber = own,
                          !.fRunStart = new.fRunStart]
        ELSE IF run - 1 = own
        THEN [none EXCEPT !.fFirstRunNumber = own, !.fLastRunNumber = run,
                          !.fRunStop = new.fRunStop]
        ELSE NoTimes([none EXCEPT !.fFirstRunNumber = own, !.fLastRunNumber = own])

IsRange(info) ==
    /\ info.fFirstRunNumber # NoRun /\ info.fLastRunNumber # NoRun
    /\ info.fFirstRunNumber # info.fLastRunNumber

\* Faulty: a run beyond a gap extends the range.
AnotherRunBeyondGap(info, new) ==
    LET run == new.fRunNumber IN
    IF run < info.fFirstRunNumber
    THEN [info EXCEPT !.fFirstRunNumber = run, !.fRunStart = new.fRunStart]
    ELSE [info EXCEPT !.fLastRunNumber = run, !.fRunStop = new.fRunStop]

\* Another file where there is a range of runs.  A sub run of a run inside
\* the range ends it like a run that leaves a gap.
AnotherRun(info, new) ==
    LET run == new.fRunNumber IN
    IF run + 1 = info.fFirstRunNumber
    THEN [info EXCEPT !.fFirstRunNumber = run, !.fRunStart = new.fRunStart]
    ELSE IF run - 1 = info.fLastRunNumber
    THEN [info EXCEPT !.fLastRunNumber = run, !.fRunStop = new.fRunStop]
    ELSE IF run \in {info.fFirstRunNumber, info.fLastRunNumber}
    THEN [info EXCEPT !.fRunStop = IF @ < new.fRunStop THEN new.fRunStop ELSE @,
                      !.fRunStart = IF @ > new.fRunStart THEN new.fRunStart ELSE @]
    ELSE NoTimes([info EXCEPT !.fLastRunNumber = info.fFirstRunNumber])

\* Another sub run of the only run; first and last are the sub run so far, or
\* the range of them.
AnotherSubRun(info, new, first, last) ==
    LET none == [info EXCEPT !.fSubRunNumber = NoSubRun]
        sub == new.fSubRunNumber
    IN  IF sub + 1 = first
        THEN [none EXCEPT !.fFirstSubRunNumber = sub, !.fLastSubRunNumber = last,
                          !.fRunStart = new.fRunStart]
        ELSE IF sub - 1 = last
        THEN [none EXCEPT !.fFirstSubRunNumber = first, !.fLastSubRunNumber = sub,
                          !.fRunStop = new.fRunStop]
        ELSE NoTimes([none EXCEPT !.fFirstSubRunNumber = NoSubRun,
                                  !.fLastSubRunNumber = NoSubRun])

\* The files so far: the first one is listed when a second one is added.
ListOf(info) ==
    IF info.fRunList = {} THEN {<<info.fRunNumber, info.fSubRunNumber>>}
                          ELSE info.fRunList

Listed(info, new) ==
    [info EXCEPT
        !.fRunList = ListOf(info) \cup {<<new.fRunNumber, new.fSubRunNumber>>},
        !.fRunLength = @ + new.fRunLength]

AddRunInfo(info, new) ==
    LET sum == Listed(info, new) IN
    IF <<new.fRunNumber, new.fSubRunNumber>> \in ListOf(info)
    THEN [info EXCEPT !.fRunList = ListOf(info)]
    ELSE IF new.fRunNumber # info.fRunNumber
    THEN IF info.fRunNumber # NoRun THEN SecondRun(sum, new)
         ELSE IF IsRange(info) THEN AnotherRun(sum, new)
         ELSE sum
    ELSE IF info.fSubRunNumber # NoSubRun
    THEN AnotherSubRun(sum, new, info.fSubRunNumber, info.fSubRunNumber)
    ELSE AnotherSubRun(sum, new, info.fFirstSubRunNumber, info.fLastSubRunNumber)
-----------------------------------------------------------------------------
(* The files                                                               *)

RunInit ==
    \E run \in Runs, sub \in SubRuns :
        /\ runInfo = InFile(run, sub)
        /\ added = {<<run, sub>>}

AddCurrent(run, sub) ==
    /\ Cardinality(added) < FileBound
    /\ runInfo' = AddRunInfo(runInfo, InFile(run, sub))
    /\ added' = added \cup {<<run, sub>>}

RunNext == \E run \in Runs, sub \in SubRuns : AddCurrent(run, sub)

RunSpec == RunInit /\ [][RunNext]_runVars

\* SetRunLength, which is called when all files are read.
AfterSetRunLength ==
    IF runInfo.fRunNumber # NoRun
    THEN [runInfo EXCEPT !.fRunLength = runInfo.fRunStop - runInfo.fRunStart]
    ELSE runInfo
-----------------------------------------------------------------------------
(* What must hold                                                          *)

RunsAdded == {f[1] : f \in added}
TotalLength == MapThenSumSet(LAMBDA f : Length(f[1], f[2]), added)

\* In whatever order the files are read, and however often one of them:
\* there is a run number just when all files are of one run, and it is that
\* run's; and a range of runs, which Print takes for "No missing runs"
\* (TRunInfo.cxx:91-93), has no gap and nothing outside.
RangeHasNoGap ==
    /\ \A run \in Runs : runInfo.fRunNumber = run <=> RunsAdded = {run}
    /\ IsRange(runInfo) =>
           RunsAdded = runInfo.fFirstRunNumber .. runInfo.fLastRunNumber

\* SetRunLength computes the length "if this is a single sub run or
\* consecutive sub runs of a single run" and otherwise does nothing
\* (include/TRunInfo.h:233, util/grsiframe.cxx:74-76): it does not lose the
\* length of files that are not consecutive.
LengthSurvives == AfterSetRunLength.fRunLength = TotalLength
=============================================================================
