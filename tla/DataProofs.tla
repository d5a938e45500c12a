----------------------------- MODULE DataProofs -----------------------------
(***************************************************************************)
(* Proofs about the data a sort and an analysis keep: TRunInfo, TPPG,      *)
(* TAnalysisWriteLoop, TChannel and TFragDiagnosticsLoop, for any values of *)
(* their constants.                                                        *)
(*                                                                         *)
(* What a recursive function of these modules computes is proved by the    *)
(* least number for which a claim about it would fail.                     *)
(***************************************************************************)
EXTENDS TRunInfo, TPPG, TAnalysisWriteLoop, TChannel, TFragDiagnosticsLoop,
        FiniteSetTheorems, WellFoundedInduction, TLAPS

\* A set of numbers has a least one.
LEMMA LeastNumber ==
    ASSUME NEW T \in SUBSET Nat, T # {}
    PROVE  \E m \in T : \A n \in T : m <= n
<1> DEFINE R == OpToRel(<, Nat)
<1>1. IsWellFoundedOn(R, Nat)
  BY NatLessThanWellFounded
<1>2. \A n, m \in T : <<n, m>> \in R <=> n < m
  BY DEF OpToRel
<1> HIDE DEF R
<1>3. PICK m \in T : \A n \in T : ~ (<<n, m>> \in R)
  BY <1>1, WFMin
<1>4. \A n \in T : ~ (n < m)
  BY <1>2, <1>3
<1> QED
  BY <1>4

-----------------------------------------------------------------------------
(* Run information                                                         *)

Infos ==
    [fRunNumber : Nat, fSubRunNumber : Int,
     fFirstRunNumber : Int, fLastRunNumber : Int,
     fFirstSubRunNumber : Int, fLastSubRunNumber : Int,
     fRunList : SUBSET (Nat \X Nat), fRunStart : Int, fRunStop : Int,
     fRunLength : Int]

\* What Add keeps of the runs: the list is of all files, and the numbers of
\* the runs are what they were set to.
SameRuns(info, sum) ==
    /\ info.fRunNumber = sum.fRunNumber
    /\ info.fFirstRunNumber = sum.fFirstRunNumber
    /\ info.fLastRunNumber = sum.fLastRunNumber
    /\ info.fRunList = sum.fRunList

LEMMA InFileTyped ==
    ASSUME NEW run \in Runs, NEW sub \in SubRuns
    PROVE  /\ InFile(run, sub) \in Infos
           /\ InFile(run, sub).fRunNumber = run /\ run # NoRun /\ run \in Nat
           /\ InFile(run, sub).fSubRunNumber = sub /\ sub \in Nat
           /\ ~ IsRange(InFile(run, sub))
           /\ InFile(run, sub).fRunList = {}
<1>1. run \in Nat \ {0} /\ sub \in Nat
  BY RunAssumption
<1> QED
  BY <1>1, SMT DEF InFile, Infos, Start, Stop, Length, NoRun, NoSubRun, IsRange

LEMMA ListedTyped ==
    ASSUME NEW info \in Infos, NEW new \in Infos,
           NEW run \in Nat, NEW sub \in Nat,
           new.fRunNumber = run, new.fSubRunNumber = sub,
           ListOf(info) \subseteq Nat \X Nat
    PROVE  /\ Listed(info, new) \in Infos
           /\ Listed(info, new).fRunList = ListOf(info) \cup {<<run, sub>>}
           /\ Listed(info, new).fRunNumber = info.fRunNumber
           /\ Listed(info, new).fFirstRunNumber = info.fFirstRunNumber
           /\ Listed(info, new).fLastRunNumber = info.fLastRunNumber
<1> DEFINE list == ListOf(info) \cup {<<run, sub>>}
<1>1. list \in SUBSET (Nat \X Nat)
  OBVIOUS
<1>2. Listed(info, new) = [info EXCEPT !.fRunList = list,
                                       !.fRunLength = @ + new.fRunLength]
  BY DEF Listed
<1> HIDE DEF list
<1>3. info.fRunLength + new.fRunLength \in Int
  BY DEF Infos
<1>4. /\ Listed(info, new) \in Infos /\ Listed(info, new).fRunList = list
      /\ Listed(info, new).fRunNumber = info.fRunNumber
      /\ Listed(info, new).fFirstRunNumber = info.fFirstRunNumber
      /\ Listed(info, new).fLastRunNumber = info.fLastRunNumber
  BY <1>1, <1>2, <1>3 DEF Infos
<1> QED
  BY <1>4 DEF list

LEMMA NoTimesIs ==
    ASSUME NEW info \in Infos
    PROVE  NoTimes(info) \in Infos /\ SameRuns(NoTimes(info), info)
<1> DEFINE zero == 0
<1>1. NoTimes(info) = [info EXCEPT !.fRunStart = zero, !.fRunStop = zero]
  BY DEF NoTimes
<1>2. zero \in Int
  OBVIOUS
<1> HIDE DEF zero
<1> QED
  BY <1>1, <1>2 DEF Infos, SameRuns

LEMMA SecondRunIs ==
    ASSUME NEW info \in Infos, NEW new \in Infos
    PROVE  LET sum == SecondRun(info, new)
               own == info.fRunNumber
               run == new.fRunNumber
           IN  /\ sum \in Infos
               /\ sum.fRunList = info.fRunList
               /\ sum.fRunNumber = NoRun
               /\ \/ run + 1 = own /\ sum.fFirstRunNumber = run /\ sum.fLastRunNumber = own
                  \/ own + 1 = run /\ sum.fFirstRunNumber = own /\ sum.fLastRunNumber = run
                  \/ sum.fFirstRunNumber = sum.fLastRunNumber
<1> DEFINE none == [info EXCEPT !.fRunNumber = NoRun, !.fSubRunNumber = NoSubRun]
           own == info.fRunNumber
           run == new.fRunNumber
<1>1. /\ none \in Infos /\ none.fRunNumber = NoRun
      /\ none.fRunList = info.fRunList
      /\ own \in Int /\ run \in Int /\ own \in Nat /\ run \in Nat
      /\ new.fRunStart \in Int /\ new.fRunStop \in Int
  <2>1. NoRun \in Nat /\ NoSubRun \in Int
    BY DEF NoRun, NoSubRun
  <2>2. /\ none \in Infos /\ none.fRunNumber = NoRun
        /\ none.fRunList = info.fRunList
    BY <2>1 DEF Infos
  <2>3. /\ own \in Int /\ run \in Int /\ own \in Nat /\ run \in Nat
        /\ new.fRunStart \in Int /\ new.fRunStop \in Int
    BY DEF Infos
  <2> QED
    BY <2>2, <2>3
<1> DEFINE before == [none EXCEPT !.fFirstRunNumber = run, !.fLastRunNumber = own,
                                  !.fRunStart = new.fRunStart]
           after == [none EXCEPT !.fFirstRunNumber = own, !.fLastRunNumber = run,
                                 !.fRunStop = new.fRunStop]
           apart == [none EXCEPT !.fFirstRunNumber = own, !.fLastRunNumber = own]
<1>2. SecondRun(info, new) = IF run + 1 = own THEN before
                             ELSE IF run - 1 = own THEN after ELSE NoTimes(apart)
  BY DEF SecondRun
<1> HIDE DEF none, own, run
<1>3. /\ before \in Infos /\ before.fRunList = info.fRunList
      /\ before.fRunNumber = NoRun
      /\ before.fFirstRunNumber = run /\ before.fLastRunNumber = own
  BY <1>1 DEF Infos
<1>4. /\ after \in Infos /\ after.fRunList = info.fRunList
      /\ after.fRunNumber = NoRun
      /\ after.fFirstRunNumber = own /\ after.fLastRunNumber = run
  BY <1>1 DEF Infos
<1>5. /\ apart \in Infos /\ apart.fRunList = info.fRunList
      /\ apart.fRunNumber = NoRun
      /\ apart.fFirstRunNumber = own /\ apart.fLastRunNumber = own
  BY <1>1 DEF Infos
<1> HIDE DEF before, after, apart
<1>6. NoTimes(apart) \in Infos /\ SameRuns(NoTimes(apart), apart)
  BY <1>5, NoTimesIs
<1>7. CASE run + 1 = own
  BY <1>2, <1>3, <1>7 DEF own, run
<1>8. CASE run - 1 = own
  <2>1. SecondRun(info, new) = after /\ own + 1 = run
    BY <1>1, <1>2, <1>8
  <2> QED
    BY <2>1, <1>4 DEF own, run
<1>9. CASE run + 1 # own /\ run - 1 # own
  <2>1. SecondRun(info, new) = NoTimes(apart)
    BY <1>2, <1>9
  <2> QED
    BY <2>1, <1>5, <1>6 DEF SameRuns
<1> QED
  BY <1>7, <1>8, <1>9

LEMMA AnotherRunIs ==
    ASSUME NEW info \in Infos, NEW new \in Infos
    PROVE  LET sum == AnotherRun(info, new)
               run == new.fRunNumber
           IN  /\ sum \in Infos
               /\ sum.fRunList = info.fRunList
               /\ sum.fRunNumber = info.fRunNumber
               /\ \/ /\ run + 1 = info.fFirstRunNumber
                     /\ sum.fFirstRunNumber = run
                     /\ sum.fLastRunNumber = info.fLastRunNumber
                  \/ /\ run = info.fLastRunNumber + 1
                     /\ sum.fFirstRunNumber = info.fFirstRunNumber
                     /\ sum.fLastRunNumber = run
                  \/ /\ run \in {info.fFirstRunNumber, info.fLastRunNumber}
                     /\ sum.fFirstRunNumber = info.fFirstRunNumber
                     /\ sum.fLastRunNumber = info.fLastRunNumber
                  \/ sum.fFirstRunNumber = sum.fLastRunNumber
<1> DEFINE run == new.fRunNumber
           before == [info EXCEPT !.fFirstRunNumber = run, !.fRunStart = new.fRunStart]
           after == [info EXCEPT !.fLastRunNumber = run, !.fRunStop = new.fRunStop]
           inside == [info EXCEPT
               !.fRunStop = IF @ < new.fRunStop THEN new.fRunStop ELSE @,
               !.fRunStart = IF @ > new.fRunStart THEN new.fRunStart ELSE @]
           apart == [info EXCEPT !.fLastRunNumber = info.fFirstRunNumber]
<1>1. AnotherRun(info, new) =
          IF run + 1 = info.fFirstRunNumber THEN before
          ELSE IF run - 1 = info.fLastRunNumber THEN after
          ELSE IF run \in {info.fFirstRunNumber, info.fLastRunNumber} THEN inside
          ELSE NoTimes(apart)
  BY DEF AnotherRun
<1>2. /\ run \in Int /\ info.fFirstRunNumber \in Int /\ info.fLastRunNumber \in Int
      /\ new.fRunStart \in Int /\ new.fRunStop \in Int
  BY DEF Infos
<1> HIDE DEF run
<1>3. /\ before \in Infos /\ before.fRunList = info.fRunList
      /\ before.fRunNumber = info.fRunNumber /\ before.fFirstRunNumber = run
      /\ before.fLastRunNumber = info.fLastRunNumber
  BY <1>2 DEF Infos
<1>4. /\ after \in Infos /\ after.fRunList = info.fRunList
      /\ after.fRunNumber = info.fRunNumber /\ after.fLastRunNumber = run
      /\ after.fFirstRunNumber = info.fFirstRunNumber
  BY <1>2 DEF Infos
<1>5. inside \in Infos /\ SameRuns(inside, info)
  BY DEF Infos, SameRuns
<1>6. /\ apart \in Infos /\ apart.fRunList = info.fRunList
      /\ apart.fRunNumber = info.fRunNumber
      /\ apart.fFirstRunNumber = apart.fLastRunNumber
  BY DEF Infos
<1> HIDE DEF before, after, inside, apart
<1>7. NoTimes(apart) \in Infos /\ SameRuns(NoTimes(apart), apart)
  BY <1>6, NoTimesIs
<1>8. CASE run + 1 = info.fFirstRunNumber
  BY <1>1, <1>3, <1>8 DEF run
<1>9. CASE run + 1 # info.fFirstRunNumber /\ run - 1 = info.fLastRunNumber
  <2>1. AnotherRun(info, new) = after /\ run = info.fLastRunNumber + 1
    BY <1>1, <1>2, <1>9
  <2> QED
    BY <2>1, <1>4 DEF run
<1>10. CASE /\ run + 1 # info.fFirstRunNumber /\ run - 1 # info.fLastRunNumber
            /\ run \in {info.fFirstRunNumber, info.fLastRunNumber}
  <2>1. AnotherRun(info, new) = inside
    BY <1>1, <1>10
  <2> QED
    BY <2>1, <1>5, <1>10 DEF SameRuns, run
<1>11. CASE /\ run + 1 # info.fFirstRunNumber /\ run - 1 # info.fLastRunNumber
            /\ run \notin {info.fFirstRunNumber, info.fLastRunNumber}
  <2>1. AnotherRun(info, new) = NoTimes(apart)
    BY <1>1, <1>11
  <2> QED
    BY <2>1, <1>6, <1>7 DEF SameRuns
<1> QED
  BY <1>8, <1>9, <1>10, <1>11

LEMMA AnotherSubRunIs ==
    ASSUME NEW info \in Infos, NEW new \in Infos, NEW first \in Int, NEW last \in Int
    PROVE  LET sum == AnotherSubRun(info, new, first, last) IN
           /\ sum \in Infos
           /\ SameRuns(sum, info)
<1> DEFINE none == [info EXCEPT !.fSubRunNumber = NoSubRun]
           sub == new.fSubRunNumber
           before == [none EXCEPT !.fFirstSubRunNumber = sub, !.fLastSubRunNumber = last,
                                  !.fRunStart = new.fRunStart]
           after == [none EXCEPT !.fFirstSubRunNumber = first, !.fLastSubRunNumber = sub,
                                 !.fRunStop = new.fRunStop]
           apart == [none EXCEPT !.fFirstSubRunNumber = NoSubRun,
                                 !.fLastSubRunNumber = NoSubRun]
<1>1. AnotherSubRun(info, new, first, last) =
          IF sub + 1 = first THEN before ELSE IF sub - 1 = last THEN after
          ELSE NoTimes(apart)
  BY DEF AnotherSubRun
<1>2. /\ none \in Infos /\ SameRuns(none, info)
      /\ sub \in Int /\ new.fRunStart \in Int /\ new.fRunStop \in Int
      /\ NoSubRun \in Int
  BY DEF Infos, SameRuns, NoSubRun
<1> HIDE DEF none, sub
<1>3. before \in Infos /\ SameRuns(before, info)
  BY <1>2 DEF Infos, SameRuns
<1>4. after \in Infos /\ SameRuns(after, info)
  BY <1>2 DEF Infos, SameRuns
<1>5. apart \in Infos /\ SameRuns(apart, info)
  BY <1>2 DEF Infos, SameRuns
<1> HIDE DEF before, after, apart
<1>6. NoTimes(apart) \in Infos /\ SameRuns(NoTimes(apart), info)
  BY <1>5, NoTimesIs DEF SameRuns
<1> QED
  BY <1>1, <1>3, <1>4, <1>6

\* The invariant.
Together ==
    /\ runInfo \in Infos
    /\ added \subseteq Runs \X SubRuns
    /\ ListOf(runInfo) = added
OneRun ==
    IF runInfo.fRunNumber = NoRun
    THEN \E f, g \in added : f[1] # g[1]
    ELSE RunsAdded = {runInfo.fRunNumber}
Range1 ==
    IsRange(runInfo) =>
        /\ runInfo.fRunNumber = NoRun
        /\ runInfo.fFirstRunNumber < runInfo.fLastRunNumber
        /\ RunsAdded = runInfo.fFirstRunNumber .. runInfo.fLastRunNumber
RunInv == Together /\ OneRun /\ Range1

LEMMA RunInitInv == RunInit => RunInv
<1> SUFFICES ASSUME RunInit PROVE RunInv
  OBVIOUS
<1>1. PICK run \in Runs, sub \in SubRuns :
        runInfo = InFile(run, sub) /\ added = {<<run, sub>>}
  BY DEF RunInit
<1>2. RunsAdded = {run}
  BY <1>1 DEF RunsAdded
<1> QED
  BY <1>1, <1>2, InFileTyped DEF RunInv, Together, OneRun, Range1, ListOf

LEMMA AddInv ==
    ASSUME RunInv, NEW run \in Runs, NEW sub \in SubRuns, AddCurrent(run, sub)
    PROVE  RunInv'
<1> DEFINE new == InFile(run, sub)
           sum == Listed(runInfo, new)
<1>1. /\ new \in Infos /\ new.fRunNumber = run /\ new.fSubRunNumber = sub
      /\ run \in Nat /\ run # NoRun /\ sub \in Nat
  BY InFileTyped
<1>2. /\ runInfo \in Infos /\ added \subseteq Runs \X SubRuns
      /\ ListOf(runInfo) = added /\ OneRun /\ Range1
  BY DEF RunInv, Together
<1>3. /\ runInfo' = AddRunInfo(runInfo, new)
      /\ added' = added \cup {<<run, sub>>}
  BY DEF AddCurrent
<1>4. added \subseteq Nat \X Nat /\ added # {}
  BY <1>2, RunAssumption DEF ListOf, OneRun, RunsAdded
<1>5. RunsAdded' = RunsAdded \cup {run}
  <2>1. <<run, sub>>[1] = run
    OBVIOUS
  <2> QED
    BY <1>3, <2>1, Zenon DEF RunsAdded
<1>6. /\ sum \in Infos /\ sum.fRunList = added'
      /\ sum.fRunNumber = runInfo.fRunNumber
      /\ sum.fFirstRunNumber = runInfo.fFirstRunNumber
      /\ sum.fLastRunNumber = runInfo.fLastRunNumber
  BY <1>1, <1>2, <1>3, <1>4, ListedTyped
<1>7. added' \subseteq Runs \X SubRuns /\ added' # {}
  <2>1. <<run, sub>> \in Runs \X SubRuns
    OBVIOUS
  <2> QED
    BY <1>2, <1>3, <2>1, Zenon
<1> HIDE DEF new, sum
<1>8. ASSUME runInfo' \in Infos, runInfo'.fRunList = added', OneRun', Range1'
      PROVE  RunInv'
  BY <1>7, <1>8 DEF RunInv, Together, ListOf
<1>9. ASSUME \E f, g \in added : f[1] # g[1] 
      PROVE  \E f, g \in added' : f[1] # g[1]
  BY <1>9, <1>3
<1>10. CASE <<run, sub>> \in added
  <2>1. runInfo' = [runInfo EXCEPT !.fRunList = added]
    BY <1>10, <1>1, <1>2, <1>3 DEF AddRunInfo
  <2>2. runInfo' \in Infos /\ SameRuns(runInfo', [runInfo EXCEPT !.fRunList = added])
    BY <2>1, <1>2, <1>4 DEF Infos, SameRuns
  <2>3. added' = added /\ RunsAdded' = RunsAdded
    BY <1>3, <1>10 DEF RunsAdded
  <2>4. OneRun' /\ Range1'
    BY <2>1, <2>3, <1>2 DEF OneRun, Range1, IsRange, Infos
  <2> QED
    BY <2>2, <2>3, <2>4, <2>1, <1>8, <1>2 DEF Infos
<1>11. CASE /\ <<run, sub>> \notin added
            /\ run # runInfo.fRunNumber /\ runInfo.fRunNumber # NoRun
  <2>1. runInfo' = SecondRun(sum, new)
    BY <1>11, <1>1, <1>2, <1>3 DEF AddRunInfo, sum
  <2>2. /\ runInfo' \in Infos /\ runInfo'.fRunList = added'
        /\ runInfo'.fRunNumber = NoRun
        /\ LET own == runInfo.fRunNumber IN
           \/ run + 1 = own /\ runInfo'.fFirstRunNumber = run /\ runInfo'.fLastRunNumber = own
           \/ own + 1 = run /\ runInfo'.fFirstRunNumber = own /\ runInfo'.fLastRunNumber = run
           \/ runInfo'.fFirstRunNumber = runInfo'.fLastRunNumber
    BY <2>1, <1>1, <1>6, SecondRunIs
  <2>3. RunsAdded = {runInfo.fRunNumber} /\ runInfo.fRunNumber \in Nat
    BY <1>11, <1>2 DEF OneRun, Infos
  <2>4. OneRun'
    <3>1. PICK f \in added : f[1] = runInfo.fRunNumber
      BY <2>3 DEF RunsAdded
    <3>2. f \in added' /\ <<run, sub>> \in added' /\ f[1] # <<run, sub>>[1]
      BY <3>1, <1>3, <1>11
    <3> QED
      BY <3>2, <2>2 DEF OneRun
  <2>5. RunsAdded' = {run, runInfo.fRunNumber}
    BY <2>3, <1>5
  <2>6. Range1'
    BY <2>2, <2>3, <2>5, <1>1 DEF Range1, IsRange, NoRun
  <2> QED
    BY <2>2, <2>4, <2>6, <1>8
<1>12. CASE /\ <<run, sub>> \notin added
            /\ run # runInfo.fRunNumber /\ runInfo.fRunNumber = NoRun
            /\ IsRange(runInfo)
  <2>1. IsRange(sum) = IsRange(runInfo)
    BY <1>6 DEF IsRange
  <2>2. runInfo' = AnotherRun(sum, new)
    BY <1>12, <1>1, <1>2, <1>3 DEF AddRunInfo, sum
  <2>3. /\ runInfo' \in Infos /\ runInfo'.fRunList = added'
        /\ runInfo'.fRunNumber = NoRun
        /\ \/ /\ run + 1 = runInfo.fFirstRunNumber
              /\ runInfo'.fFirstRunNumber = run
              /\ runInfo'.fLastRunNumber = runInfo.fLastRunNumber
           \/ /\ run = runInfo.fLastRunNumber + 1
              /\ runInfo'.fFirstRunNumber = runInfo.fFirstRunNumber
              /\ runInfo'.fLastRunNumber = run
           \/ /\ run \in {runInfo.fFirstRunNumber, runInfo.fLastRunNumber}
              /\ runInfo'.fFirstRunNumber = runInfo.fFirstRunNumber
              /\ runInfo'.fLastRunNumber = runInfo.fLastRunNumber
           \/ runInfo'.fFirstRunNumber = runInfo'.fLastRunNumber
    BY <2>2, <1>1, <1>6, <1>12, AnotherRunIs
  <2>4. OneRun'
    BY <1>2, <1>9, <1>12, <2>3 DEF OneRun
  <2>5. /\ runInfo.fFirstRunNumber \in Int /\ runInfo.fLastRunNumber \in Int
        /\ runInfo.fFirstRunNumber < runInfo.fLastRunNumber
        /\ RunsAdded = runInfo.fFirstRunNumber .. runInfo.fLastRunNumber
    BY <1>2, <1>12 DEF Range1, Infos
  <2>6. Range1'
    BY <2>3, <2>5, <1>5, <1>1 DEF Range1, IsRange
  <2> QED
    BY <2>3, <2>4, <2>6, <1>8
<1>13. CASE /\ <<run, sub>> \notin added
            /\ run # runInfo.fRunNumber /\ runInfo.fRunNumber = NoRun
            /\ ~ IsRange(runInfo)
  <2>1. runInfo' = sum
    BY <1>13, <1>1, <1>2, <1>3 DEF AddRunInfo, sum
  <2>2. OneRun' /\ Range1'
    BY <2>1, <1>2, <1>9, <1>13, <1>6 DEF OneRun, Range1, IsRange
  <2> QED
    BY <2>1, <2>2, <1>6, <1>8
<1>14. CASE <<run, sub>> \notin added /\ run = runInfo.fRunNumber
  <2>1. PICK first \in Int, last \in Int : runInfo' = AnotherSubRun(sum, new, first, last)
    BY <1>14, <1>1, <1>2, <1>3 DEF AddRunInfo, sum, Infos
  <2>2. runInfo' \in Infos /\ SameRuns(runInfo', sum)
    BY <2>1, <1>1, <1>6, AnotherSubRunIs
  <2>3. RunsAdded' = RunsAdded
    BY <1>14, <1>1, <1>2, <1>5 DEF OneRun
  <2>4. OneRun' /\ Range1'
    BY <2>2, <2>3, <1>1, <1>2, <1>14, <1>6 DEF OneRun, Range1, IsRange, SameRuns
  <2> QED
    BY <2>2, <2>4, <1>6, <1>8 DEF SameRuns
<1> QED
  BY <1>10, <1>11, <1>12, <1>13, <1>14

\* Whatever files are read in whatever order, the run number, the range and the
\* list of TRunInfo agree with the files: Add never calls runs a range that
\* leave one out.
THEOREM RangesCorrect == RunSpec => []RangeHasNoGap
<1>1. RunInv /\ [RunNext]_runVars => RunInv'
  <2> SUFFICES ASSUME RunInv, [RunNext]_runVars PROVE RunInv'
    OBVIOUS
  <2>1. CASE RunNext
    BY <2>1, AddInv DEF RunNext
  <2>2. CASE UNCHANGED runVars
    BY <2>2 DEF runVars, RunInv, Together, OneRun, Range1, RunsAdded
  <2> QED
    BY <2>1, <2>2
<1>2. RunInv => RangeHasNoGap
  <2> SUFFICES ASSUME RunInv PROVE RangeHasNoGap
    OBVIOUS
  <2>1. ASSUME NEW run \in Runs PROVE runInfo.fRunNumber = run <=> RunsAdded = {run}
    <3>1. run # NoRun
      BY RunAssumption DEF NoRun
    <3>2. CASE runInfo.fRunNumber = NoRun
      BY <3>1, <3>2 DEF RunInv, OneRun, RunsAdded
    <3>3. CASE runInfo.fRunNumber # NoRun
      BY <3>3 DEF RunInv, OneRun
    <3> QED
      BY <3>2, <3>3
  <2> QED
    BY <2>1 DEF RunInv, Range1, RangeHasNoGap
<1> QED
  BY <1>1, <1>2, RunInitInv, PTL DEF RunSpec

-----------------------------------------------------------------------------
(* The cycle pattern                                                       *)

LEMMA GreatestNumber ==
    ASSUME NEW T \in SUBSET Nat, T # {}, NEW n \in Nat, \A x \in T : x <= n
    PROVE  \E m \in T : \A x \in T : x <= m
<1> DEFINE B == {b \in Nat : \A x \in T : x <= b}
<1>1. PICK b \in B : \A c \in B : b <= c
  BY LeastNumber
<1>2. b \in T
  <2> SUFFICES ASSUME b \notin T PROVE FALSE
    OBVIOUS
  <2>1. \A x \in T : x < b
    OBVIOUS
  <2>2. b # 0
    <3>1. PICK x \in T : TRUE
      OBVIOUS
    <3> QED
      BY <2>1, <3>1
  <2>3. b - 1 \in B
    BY <2>1, <2>2
  <2> QED
    BY <2>3, <1>1
<1> QED
  BY <1>2

LEMMA MinIs ==
    ASSUME NEW T \in SUBSET Nat, T # {}
    PROVE  Min(T) \in T
<1>1. PICK m \in T : \A n \in T : m <= n
  BY LeastNumber
<1> QED
  BY <1>1 DEF Min

LEMMA MaxIs ==
    ASSUME NEW T \in SUBSET Nat, T # {}, NEW n \in Nat, \A x \in T : x <= n
    PROVE  Max(T) \in T
<1>1. PICK m \in T : \A x \in T : x <= m
  BY GreatestNumber
<1> QED
  BY <1>1 DEF Max

\* A map of states: finitely many times, and the junk entry.
Map(map) ==
    /\ DOMAIN map \subseteq Nat /\ 0 \in DOMAIN map
    /\ IsFiniteSet(DOMAIN map)

LEMMA Previous ==
    ASSUME NEW map, Map(map), NEW t \in Times(map)
    PROVE  PreviousTime(map, t) \in Nat /\ PreviousTime(map, t) < t
<1> DEFINE T == {u \in Times(map) : u < t /\ map[u].new = map[t].new}
<1>1. t \in Nat /\ t > 0 /\ T \subseteq Nat /\ \A u \in T : u < t
  BY DEF Times, Map
<1>2. PreviousTime(map, t) = IF T = {} THEN 0 ELSE Max(T)
  BY DEF PreviousTime, Latest
<1> HIDE DEF T
<1>3. T # {} => Max(T) \in T
  <2>1. T \in SUBSET Nat /\ \A u \in T : u <= t
    BY <1>1
  <2> QED
    BY <1>1, <2>1, MaxIs
<1>4. (IF T = {} THEN 0 ELSE Max(T)) \in Nat /\ (IF T = {} THEN 0 ELSE Max(T)) < t
  <2>1. CASE T = {}
    BY <1>1, <2>1
  <2>2. CASE T # {}
    BY <1>1, <1>3, <2>2
  <2> QED
    BY <2>1, <2>2
<1> QED
  BY <1>2, <1>4

\* Counts of differences.
Counts(c) ==
    /\ c = [d \in DOMAIN c |-> c[d]]
    /\ DOMAIN c \subseteq Nat \ {0}
    /\ \E n \in Nat : \A d \in DOMAIN c : c[d] \in Nat /\ c[d] <= n

LEMMA DifferencesCounted ==
    ASSUME NEW map, Map(map)
    PROVE  Counts(Differences(map))
<1> DEFINE since(t) == t - PreviousTime(map, t)
           T == Times(map)
           At(d) == {t \in T : since(t) = d}
           D == {since(t) : t \in T}
           c == [d \in D |-> Cardinality(At(d))]
<1>1. Differences(map) = c
  BY DEF Differences, Histogrammed
<1>2. IsFiniteSet(T)
  BY FS_Subset DEF Times, Map
<1>3. \A t \in T : since(t) \in Nat \ {0}
  <2> TAKE t \in T
  <2>1. t \in Nat
    BY DEF Times, Map
  <2> QED
    BY <2>1, Previous
<1>4. Cardinality(T) \in Nat
  BY <1>2, FS_CardinalityType
<1>5. ASSUME NEW d \in D PROVE c[d] \in Nat /\ c[d] <= Cardinality(T)
  <2>1. At(d) \in SUBSET T /\ c[d] = Cardinality(At(d))
    OBVIOUS
  <2> HIDE DEF At, T
  <2>2. IsFiniteSet(At(d)) /\ Cardinality(At(d)) <= Cardinality(T)
    BY <2>1, <1>2, FS_Subset
  <2> QED
    BY <2>1, <2>2, FS_CardinalityType
<1>6. D \subseteq Nat \ {0}
  BY <1>3
<1> HIDE DEF since, T, At
<1>7. DOMAIN c = D
  OBVIOUS
<1> HIDE DEF D
<1>8. Counts(c)
  BY <1>4, <1>5, <1>6, <1>7 DEF Counts
<1> QED
  BY <1>1, <1>8

LEMMA MostOftenIs ==
    ASSUME NEW c, Counts(c)
    PROVE  IF DOMAIN c = {} THEN MostOften(c, 0) = 0 ELSE MostOften(c, 0) \in Nat \ {0}
<1>1. CASE DOMAIN c = {}
  BY <1>1 DEF MostOften
<1>2. CASE DOMAIN c # {}
  <2> DEFINE V == {c[d] : d \in DOMAIN c}
             most == Max(V)
             L == {d \in DOMAIN c : c[d] = most}
  <2>1. MostOften(c, 0) = Min(L)
    BY <1>2 DEF MostOften
  <2>2. PICK n \in Nat : \A d \in DOMAIN c : c[d] \in Nat /\ c[d] <= n
    BY DEF Counts
  <2>3. V \in SUBSET Nat /\ V # {} /\ \A x \in V : x <= n
    BY <1>2, <2>2
  <2> HIDE DEF V
  <2>4. most \in V
    BY <2>3, MaxIs
  <2> HIDE DEF most
  <2>5. L # {} /\ L \in SUBSET (Nat \ {0}) /\ L \in SUBSET Nat
    BY <2>4 DEF V, Counts
  <2> HIDE DEF L
  <2>6. Min(L) \in L
    BY <2>5, MinIs
  <2> QED
    BY <1>2, <2>1, <2>5, <2>6
<1> QED
  BY <1>1, <1>2

\* The length that is kept, and what it was found from.
LengthKept(length, counts) ==
    /\ length \in Nat
    /\ length = 0 => counts = <<>>
LengthOf(map, length, counts) ==
    length # 0 => counts = Differences(map) /\ length = MostOften(counts, 0)

LEMMA NothingCounted ==
    ASSUME NEW c, Counts(c), DOMAIN c = {}
    PROVE  c = <<>>
  BY DEF Counts

LEMMA LengthCalculated ==
    ASSUME NEW map, Map(map), NEW length, NEW counts, LengthKept(length, counts),
           CycleLengthFrom(map, length, counts)
    PROVE  /\ LengthKept(fCycleLength', fNumberOfCycleLengths')
           /\ length = 0 => LengthOf(map, fCycleLength', fNumberOfCycleLengths')
           /\ length # 0 => fCycleLength' = length /\ fNumberOfCycleLengths' = counts
<1>1. CASE length # 0
  BY <1>1 DEF CycleLengthFrom
<1>2. CASE length = 0
  <2> DEFINE count(f, d) == IF d \in DOMAIN f THEN f[d] ELSE 0
             more == Differences(map)
             all == [d \in DOMAIN counts \cup DOMAIN more |-> count(counts, d) + count(more, d)]
  <2>1. fNumberOfCycleLengths' = all /\ fCycleLength' = MostOften(all, 0)
    BY <1>2 DEF CycleLengthFrom
  <2>2. counts = <<>> /\ DOMAIN counts = {}
    BY <1>2 DEF LengthKept
  <2>3. Counts(more)
    BY DifferencesCounted
  <2>4. all = more
    <3> HIDE DEF more
    <3>1. all = [d \in DOMAIN more |-> 0 + more[d]]
      BY <2>2
    <3>2. \A d \in DOMAIN more : 0 + more[d] = more[d]
      BY <2>3 DEF Counts
    <3>3. all = [d \in DOMAIN more |-> more[d]]
      BY <3>1, <3>2
    <3> QED
      BY <3>3, <2>3 DEF Counts
  <2> HIDE DEF all
  <2>5. fNumberOfCycleLengths' = more /\ fCycleLength' = MostOften(more, 0)
    BY <2>1, <2>4
  <2>6. fCycleLength' = 0 => DOMAIN more = {}
    BY <2>3, <2>5, MostOftenIs
  <2>7. fCycleLength' \in Nat
    BY <2>3, <2>5, MostOftenIs
  <2>8. fCycleLength' = 0 => more = <<>>
    BY <2>3, <2>6, NothingCounted
  <2> QED
    BY <1>2, <2>5, <2>7, <2>8 DEF LengthKept, LengthOf
<1> QED
  BY <1>1, <1>2

LEMMA After ==
    ASSUME NEW map, Map(map), NEW time \in Nat
    PROVE  TimeAfter(map, time) \in (Nat \ {0}) \cup {AtEnd}
<1> DEFINE later == {t \in DOMAIN map : t > time}
<1>1. later \in SUBSET Nat /\ 0 \notin later
  BY DEF Map
<1>2. TimeAfter(map, time) = IF later = {} THEN AtEnd ELSE Min(later)
  BY DEF TimeAfter
<1> HIDE DEF later
<1> QED
  BY <1>1, <1>2, MinIs

LEMMA MapExtended ==
    ASSUME NEW map, Map(map), NEW more,
           DOMAIN more \subseteq Nat, IsFiniteSet(DOMAIN more)
    PROVE  Map(Inserted(map, more))
<1>1. DOMAIN Inserted(map, more) = DOMAIN map \cup DOMAIN more
  BY DEF Inserted
<1>2. IsFiniteSet(DOMAIN map \cup DOMAIN more)
  BY FS_Union DEF Map
<1> QED
  BY <1>1, <1>2 DEF Map

\* A state that has a length has that one, whatever it had.
LEMMA DurationsSettle ==
    ASSUME NEW map, NEW before
    PROVE  Durations(map, before) = Durations(map, Durations(map, before))
<1> DEFINE d == Durations(map, before)
<1>1. \A i \in 1 .. 4 : d[i] = MostOften(StateLengths(map, i), before[i])
  BY DEF Durations
<1>2. \A i \in 1 .. 4 : MostOften(StateLengths(map, i), d[i]) = d[i]
  <2> TAKE i \in 1 .. 4
  <2> HIDE DEF d
  <2> QED
    BY <1>1 DEF MostOften
<1>3. d = [i \in 1 .. 4 |-> d[i]]
  BY DEF Durations
<1> HIDE DEF d
<1>4. d = [i \in 1 .. 4 |-> MostOften(StateLengths(map, i), d[i])]
  BY <1>2, <1>3
<1>5. d = Durations(map, d)
  BY <1>4 DEF Durations
<1> QED
  BY <1>5 DEF d

\* The invariant.
PpgTyped ==
    /\ Map(fPPGStatusMap)
    /\ correcting \in Nat \cup {AtEnd}
    /\ next \in Nat \ {0}
LengthGood ==
    /\ LengthKept(fCycleLength, fNumberOfCycleLengths)
    /\ correcting = NotCorrecting =>
           LengthOf(fPPGStatusMap, fCycleLength, fNumberOfCycleLengths)
DurationsGood ==
    fCycleSet /\ ~ corrected => fDurations = Durations(fPPGStatusMap, fDurations)
PpgInv == PpgTyped /\ LengthGood /\ DurationsGood

LEMMA JunkIsMap == Map(JustJunk)
<1>1. DOMAIN JustJunk = {0}
  BY DEF JustJunk
<1>2. IsFiniteSet({0}) /\ 0 \in {0} /\ {0} \subseteq Nat
  BY FS_Singleton
<1> HIDE DEF JustJunk
<1> QED
  BY <1>1, <1>2 DEF Map

LEMMA PpgInitInv == PpgInit => PpgInv
<1> SUFFICES ASSUME PpgInit PROVE PpgInv
  OBVIOUS
<1>1. Map(fPPGStatusMap)
  BY JunkIsMap DEF PpgInit
<1> QED
  BY <1>1 DEF PpgInit, PpgInv, PpgTyped, LengthGood, LengthKept, LengthOf, DurationsGood,
              NotCorrecting

LEMMA ForgottenGood ==
    ASSUME PpgInv, ForgetCycle, Map(fPPGStatusMap'), correcting' = correcting, next' \in Nat \ {0}
    PROVE  PpgInv'
  BY DEF PpgInv, PpgTyped, ForgetCycle, LengthGood, LengthKept, LengthOf, DurationsGood

LEMMA StillCorrecting ==
    ASSUME PpgInv, Correcting, correcting' \in (Nat \ {0}) \cup {AtEnd}
    PROVE  LengthGood' /\ next' \in Nat \ {0} /\ correcting' \in Nat \cup {AtEnd}
  BY DEF PpgInv, PpgTyped, Correcting, LengthGood, LengthKept, cycleLength,
         NotCorrecting, AtEnd

LEMMA ChangesFinite ==
    ASSUME NEW ns, IsFiniteSet(ns), ns \subseteq Nat
    PROVE  DOMAIN ChangesOf(ns) \subseteq Nat /\ IsFiniteSet(DOMAIN ChangesOf(ns))
<1>1. DOMAIN ChangesOf(ns) = ns
  BY DEF ChangesOf
<1> QED
  BY <1>1

LEMMA PpgNextInv ==
    ASSUME PpgInv, PpgNext
    PROVE  PpgInv'
<1>1. CASE AddData
  <2>1. IsFiniteSet({next}) /\ {next} \subseteq Nat
    BY FS_Singleton DEF PpgInv, PpgTyped
  <2>2. Map(fPPGStatusMap')
    BY <1>1, <2>1, ChangesFinite, MapExtended DEF AddData, PpgInv, PpgTyped
  <2> QED
    BY <1>1, <2>2, ForgottenGood DEF AddData, PpgInv, PpgTyped
<1>2. CASE LoseChange
  <2>1. /\ UNCHANGED <<fPPGStatusMap, fCycleLength, fNumberOfCycleLengths>>
        /\ UNCHANGED <<fCycleSet, fDurations, correcting, corrected>>
        /\ next' = next + 1
    BY <1>2 DEF LoseChange, cycleLength, durations
  <2> QED
    BY <2>1 DEF PpgInv, PpgTyped, LengthGood, DurationsGood
<1>3. ASSUME NEW ns \in Others, AddPPG(ns) PROVE PpgInv'
  <2>1. IsFiniteSet(ns) /\ ns \subseteq Nat
    BY PpgAssumption
  <2>2. Map(fPPGStatusMap')
    BY <1>3, <2>1, ChangesFinite, MapExtended DEF AddPPG, PpgInv, PpgTyped
  <2>3. CycleLengthFrom(fPPGStatusMap', 0, <<>>)
    BY <1>3 DEF AddPPG
  <2>4. LengthGood'
    BY <2>2, <2>3, LengthCalculated DEF LengthGood, LengthKept
  <2> QED
    BY <1>3, <2>2, <2>4 DEF AddPPG, PpgInv, PpgTyped, DurationsGood
<1>4. ASSUME NEW ns \in Others, CopyPPG(ns) PROVE PpgInv'
  <2>1. IsFiniteSet(ns) /\ ns \subseteq Nat
    BY PpgAssumption
  <2>4. Map(fPPGStatusMap')
    BY <1>4, <2>1, JunkIsMap, ChangesFinite, MapExtended DEF CopyPPG
  <2> QED
    BY <1>4, <2>4, ForgottenGood DEF CopyPPG, PpgInv, PpgTyped
<1>5. CASE GetCycleLength
  <2>1. CycleLengthFrom(fPPGStatusMap, fCycleLength, fNumberOfCycleLengths)
    BY <1>5 DEF GetCycleLength
  <2>2. UNCHANGED <<fPPGStatusMap, durations, correcting, corrected, next>>
    BY <1>5 DEF GetCycleLength
  <2>3. LengthGood'
    BY <2>1, <2>2, LengthCalculated DEF PpgInv, PpgTyped, LengthGood, LengthOf
  <2> QED
    BY <2>2, <2>3 DEF PpgInv, PpgTyped, DurationsGood, durations
<1>6. CASE CalculateCycleFromData
  <2>1. UNCHANGED <<fPPGStatusMap, cycleLength, correcting, corrected, next>>
    BY <1>6 DEF CalculateCycleFromData
  <2>2. CASE fCycleSet
    BY <1>6, <2>1, <2>2 DEF CalculateCycleFromData, PpgInv, PpgTyped, LengthGood,
                            DurationsGood, cycleLength
  <2>3. CASE ~ fCycleSet
    <3>1. fDurations' = Durations(fPPGStatusMap, fDurations)
      BY <1>6, <2>3 DEF CalculateCycleFromData
    <3>2. fDurations' = Durations(fPPGStatusMap', fDurations')
      BY <3>1, <2>1, DurationsSettle
    <3> QED
      BY <2>1, <3>2 DEF PpgInv, PpgTyped, LengthGood, DurationsGood, cycleLength
  <2> QED
    BY <2>2, <2>3
<1>7. CASE BeginCorrect
  <2>1. CycleLengthFrom(fPPGStatusMap, fCycleLength, fNumberOfCycleLengths)
    BY <1>7 DEF BeginCorrect
  <2>2. UNCHANGED <<fPPGStatusMap, durations, corrected, next>>
    BY <1>7 DEF BeginCorrect
  <2>3. LengthGood'
    BY <1>7, <2>1, <2>2, LengthCalculated DEF PpgInv, PpgTyped, LengthGood, LengthOf,
       BeginCorrect, PpgOperation
  <2>4. correcting' \in Nat \cup {AtEnd}
    BY <1>7, After DEF BeginCorrect, PpgInv, PpgTyped
  <2> QED
    BY <2>2, <2>3, <2>4 DEF PpgInv, PpgTyped, DurationsGood, durations
<1>8. CASE NothingMissing
  <2>1. correcting' \in (Nat \ {0}) \cup {AtEnd}
    BY <1>8, After DEF NothingMissing, Correcting, PpgInv, PpgTyped
  <2> QED
    BY <1>8, <2>1, StillCorrecting DEF NothingMissing, Correcting, PpgInv, PpgTyped,
       DurationsGood, durations
<1>9. CASE CorrectState
  <2>1. correcting' \in (Nat \ {0}) \cup {AtEnd}
    BY <1>9, After DEF CorrectState, Correcting, PpgInv, PpgTyped
  <2>2. CASE UNCHANGED <<fPPGStatusMap, corrected>>
    BY <1>9, <2>1, <2>2, StillCorrecting DEF CorrectState, Correcting, PpgInv, PpgTyped,
       DurationsGood, durations
  <2>3. CASE corrected' = TRUE /\ DOMAIN fPPGStatusMap' = DOMAIN fPPGStatusMap
    BY <1>9, <2>1, <2>3, StillCorrecting DEF CorrectState, Correcting, PpgInv, PpgTyped,
       DurationsGood, Map
  <2> QED
    BY <1>9, <2>2, <2>3 DEF CorrectState
<1>10. CASE InsertChange
  <2> DEFINE ago == correcting - fCycleLength
             time == TimestampUnits * ago
  <2>1. /\ Correcting /\ ago \notin DOMAIN fPPGStatusMap
        /\ fPPGStatusMap' = Inserted(fPPGStatusMap, [t \in {time} |-> fPPGStatusMap[correcting]])
        /\ correcting' = time /\ corrected' = TRUE
        /\ correcting >= fCycleLength
    BY <1>10 DEF InsertChange, ChangeMissing
  <2>2. ago \in Nat \ {0}
    BY <2>1 DEF Correcting, PpgInv, PpgTyped, LengthGood, LengthKept, Map
  <2> HIDE DEF ago
  <2>3. time \in Nat \ {0}
    BY <2>2, PpgAssumption
  <2> HIDE DEF time
  <2>4. DOMAIN [t \in {time} |-> fPPGStatusMap[correcting]] = {time}
    OBVIOUS
  <2>5. Map(fPPGStatusMap')
    BY <2>1, <2>3, <2>4, FS_Singleton, MapExtended DEF PpgInv, PpgTyped
  <2> QED
    BY <2>1, <2>3, <2>5, StillCorrecting DEF Correcting, PpgInv, PpgTyped, DurationsGood
<1>11. CASE EndCorrect
  <2>1. CycleLengthFrom(fPPGStatusMap, 0, <<>>)
    BY <1>11 DEF EndCorrect
  <2>2. LengthGood'
    BY <1>11, <2>1, LengthCalculated DEF PpgInv, PpgTyped, LengthGood, LengthKept, EndCorrect
  <2> QED
    BY <1>11, <2>2 DEF EndCorrect, PpgInv, PpgTyped, DurationsGood, durations, NotCorrecting
<1> QED
  BY <1>1, <1>2, <1>3, <1>4, <1>5, <1>6, <1>7, <1>8, <1>9, <1>10, <1>11 DEF PpgNext

\* The cycle length and the durations that TPPG caches are what its data give,
\* through any calls of AddData, Add, operator=, the Gets and the steps of
\* Correct: each of them forgets or replaces a cache that it makes stale.
THEOREM CachesCorrect == PpgSpec => []CachesOfData
<1>1. PpgInv /\ [PpgNext]_ppgVars => PpgInv'
  <2> SUFFICES ASSUME PpgInv, [PpgNext]_ppgVars PROVE PpgInv'
    OBVIOUS
  <2>1. CASE PpgNext
    BY <2>1, PpgNextInv
  <2>2. CASE UNCHANGED ppgVars
    BY <2>2 DEF ppgVars, PpgInv, PpgTyped, LengthGood, DurationsGood, cycleLength, durations
  <2> QED
    BY <2>1, <2>2
<1>2. PpgInv => CachesOfData
  BY DEF PpgInv, LengthGood, LengthOf, DurationsGood, CachesOfData
<1> QED
  BY <1>1, <1>2, PpgInitInv, PTL DEF PpgSpec

-----------------------------------------------------------------------------
(* The branches of the analysis tree                                       *)

\* The classes among the first n detectors of an event.
Seen(classes, n) == {classes[i] : i \in 1 .. n}

\* The branches and their objects when n detectors are loaded.
LoadedUpTo(classes, event, n) ==
    LET D == DOMAIN fDetMap \cup Seen(classes, n) IN
    [objects |-> [c \in D |-> IF c \in Seen(classes, n) THEN event ELSE Cleared],
     branches |-> [c \in D |-> IF c \in DOMAIN fDetMap THEN branches[c]
                               ELSE [i \in 1 .. entries |-> Cleared]]]

BranchesOf == branches = [c \in DOMAIN fDetMap |-> branches[c]]

LEMMA LoadOne ==
    ASSUME BranchesOf, NEW classes, NEW event, NEW n \in Nat, n # 0
    PROVE  Load(LoadedUpTo(classes, event, n - 1), classes[n], event)
             = LoadedUpTo(classes, event, n)
<1> DEFINE tree == LoadedUpTo(classes, event, n - 1)
           cls == classes[n]
           S == Seen(classes, n - 1)
           D == DOMAIN fDetMap \cup S
           none == [i \in 1 .. entries |-> Cleared]
<1>1. Seen(classes, n) = S \cup {cls}
  <2>1. 1 .. n = (1 .. (n - 1)) \cup {n}
    OBVIOUS
  <2> QED
    BY <2>1 DEF Seen
<1>2. tree = [objects |-> [c \in D |-> IF c \in S THEN event ELSE Cleared],
              branches |-> [c \in D |-> IF c \in DOMAIN fDetMap THEN branches[c] ELSE none]]
  BY DEF LoadedUpTo
<1>3. LoadedUpTo(classes, event, n) =
        [objects |-> [c \in D \cup {cls} |-> IF c \in S \cup {cls} THEN event ELSE Cleared],
         branches |-> [c \in D \cup {cls} |-> IF c \in DOMAIN fDetMap THEN branches[c]
                                              ELSE none]]
  BY <1>1 DEF LoadedUpTo
<1>4. DOMAIN fDetMap \subseteq D
  OBVIOUS
<1> HIDE DEF tree, cls, S, none
<1>5. AddBranch(tree, cls) =
        [objects |-> [c \in D \cup {cls} |-> IF c \in S THEN event ELSE Cleared],
         branches |-> [c \in D \cup {cls} |-> IF c \in DOMAIN fDetMap THEN branches[c]
                                              ELSE none]]
  <2>1. tree.objects = [c \in D |-> IF c \in S THEN event ELSE Cleared]
    BY <1>2
  <2>2. tree.branches = [c \in D |-> IF c \in DOMAIN fDetMap THEN branches[c] ELSE none]
    BY <1>2
  <2>3. CASE cls \in D
    <3>1. D \cup {cls} = D
      BY <2>3
    <3>2. AddBranch(tree, cls) = tree
      BY <2>1, <2>3 DEF AddBranch
    <3> QED
      BY <3>1, <3>2, <1>2
  <2>4. CASE cls \notin D
    <3>1. AddBranch(tree, cls) =
            [objects |-> Extended(tree.objects, cls, Cleared),
             branches |-> Extended(tree.branches, cls, none)]
      BY <2>1, <2>4 DEF AddBranch, none
    <3>2. Extended(tree.objects, cls, Cleared)
            = [c \in D \cup {cls} |-> IF c \in S THEN event ELSE Cleared]
      BY <2>1, <2>4 DEF Extended
    <3>3. Extended(tree.branches, cls, none)
            = [c \in D \cup {cls} |-> IF c \in DOMAIN fDetMap THEN branches[c] ELSE none]
      BY <2>2, <2>4 DEF Extended
    <3> QED
      BY <3>1, <3>2, <3>3
  <2> QED
    BY <2>3, <2>4
<1> HIDE DEF D
<1> DEFINE opened == AddBranch(tree, cls)
<1>6. Load(tree, cls, event) = [opened EXCEPT !.objects = [opened.objects EXCEPT ![cls] = event]]
  BY DEF Load
<1>7. [opened.objects EXCEPT ![cls] = event]
        = [c \in D \cup {cls} |-> IF c \in S \cup {cls} THEN event ELSE Cleared]
  <2>1. opened.objects = [c \in D \cup {cls} |-> IF c \in S THEN event ELSE Cleared]
    BY <1>5
  <2> HIDE DEF opened
  <2> QED
    BY <2>1
<1>8. [opened EXCEPT !.objects = [opened.objects EXCEPT ![cls] = event]]
        = [objects |-> [opened.objects EXCEPT ![cls] = event], branches |-> opened.branches]
  <2> DEFINE objects == [opened.objects EXCEPT ![cls] = event]
  <2>1. opened = [objects |-> opened.objects, branches |-> opened.branches]
    BY <1>5
  <2> HIDE DEF opened, objects
  <2>2. [opened EXCEPT !.objects = objects] = [objects |-> objects, branches |-> opened.branches]
    BY <2>1
  <2> QED
    BY <2>2 DEF objects
<1>9. opened.branches = [c \in D \cup {cls} |-> IF c \in DOMAIN fDetMap THEN branches[c]
                                              ELSE none]
  BY <1>5
<1> QED
  BY <1>3, <1>6, <1>7, <1>8, <1>9 DEF tree, cls

LEMMA LoadNone ==
    ASSUME BranchesOf, NEW classes, NEW event
    PROVE  ClearAll(Tree) = LoadedUpTo(classes, event, 0)
<1>1. Seen(classes, 0) = {}
  BY DEF Seen
<1>2. ClearAll(Tree) = [objects |-> [c \in DOMAIN fDetMap |-> Cleared], branches |-> branches]
  BY DEF ClearAll, Tree
<1>3. LoadedUpTo(classes, event, 0) =
        [objects |-> [c \in DOMAIN fDetMap |-> Cleared],
         branches |-> [c \in DOMAIN fDetMap |-> branches[c]]]
  BY <1>1 DEF LoadedUpTo
<1> QED
  BY <1>2, <1>3 DEF BranchesOf

LEMMA LoadedIs ==
    ASSUME BranchesOf, NEW classes, Len(classes) \in Nat, NEW event
    PROVE  Loaded(classes, event) = LoadedUpTo(classes, event, Len(classes))
<1> DEFINE k == Len(classes)
           IsTree(f) == f = [n \in 0 .. k |-> IF n = 0 THEN ClearAll(Tree)
                                              ELSE Load(f[n - 1], classes[n], event)]
           upTo == [n \in 0 .. k |-> LoadedUpTo(classes, event, n)]
           tree == CHOOSE f : IsTree(f)
<1>1. IsTree(upTo)
  <2>1. \A n \in 0 .. k : n # 0 => upTo[n - 1] = LoadedUpTo(classes, event, n - 1)
    OBVIOUS
  <2>2. \A n \in 0 .. k : upTo[n] = IF n = 0 THEN ClearAll(Tree)
                                    ELSE Load(upTo[n - 1], classes[n], event)
    BY <2>1, LoadNone, LoadOne
  <2> QED
    BY <2>2
<1>2. IsTree(tree)
  BY <1>1
<1>3. Loaded(classes, event) = tree[k]
  BY DEF Loaded
<1>4. \A n \in 0 .. k : tree[n] = IF n = 0 THEN ClearAll(Tree)
                                  ELSE Load(tree[n - 1], classes[n], event)
  BY <1>2
<1> HIDE DEF tree, upTo, IsTree
<1> DEFINE T == {n \in Nat : n <= k /\ tree[n] # LoadedUpTo(classes, event, n)}
<1>5. T = {}
  <2> SUFFICES ASSUME T # {} PROVE FALSE
    OBVIOUS
  <2>1. PICK m \in T : \A n \in T : m <= n
    BY LeastNumber
  <2>2. m # 0
    BY <2>1, <1>4, LoadNone
  <2>3. m - 1 \in Nat /\ m - 1 \notin T /\ m \in Nat /\ m \in 0 .. k
    BY <2>1, <2>2
  <2>4. tree[m - 1] = LoadedUpTo(classes, event, m - 1)
    BY <2>3
  <2>5. tree[m] = Load(LoadedUpTo(classes, event, m - 1), classes[m], event)
    BY <2>2, <2>3, <2>4, <1>4
  <2>6. tree[m] = LoadedUpTo(classes, event, m)
    BY <2>2, <2>3, <2>5, LoadOne
  <2> QED
    BY <2>1, <2>6
<1> QED
  BY <1>3, <1>5

\* Entry i of the branch of a class.
EntryOf(c, i) == IF c \in Range(written[i]) THEN i ELSE Cleared

WriteInv ==
    /\ entries \in Nat
    /\ written \in Seq(Seq(Classes)) /\ Len(written) = entries
    /\ BranchesOf
    /\ \A c \in DOMAIN fDetMap : branches[c] = [i \in 1 .. entries |-> EntryOf(c, i)]
    /\ \A c : c \notin DOMAIN fDetMap => \A i \in 1 .. entries : c \notin Range(written[i])

LEMMA Appended ==
    ASSUME NEW n \in Nat, NEW s, s = [i \in 1 .. n |-> s[i]], NEW x
    PROVE  Append(s, x) = [i \in 1 .. n + 1 |-> IF i = n + 1 THEN x ELSE s[i]]
  OBVIOUS

LEMMA WriteEventInv ==
    ASSUME WriteInv, NEW classes \in EventLists, WriteEvent(classes)
    PROVE  WriteInv'
<1> DEFINE event == entries + 1
           R == Range(classes)
           D == DOMAIN fDetMap \cup R
           Old(c) == IF c \in DOMAIN fDetMap THEN branches[c] ELSE [i \in 1 .. entries |-> Cleared]
           New(c) == IF c \in R THEN event ELSE Cleared
           loaded == LoadedUpTo(classes, event, Len(classes))
<1>1. classes \in Seq(Classes) /\ Len(classes) \in Nat
  BY WriteAssumption
<1>2. Seen(classes, Len(classes)) = R
  BY <1>1 DEF Seen, Range
<1>3. Loaded(classes, event) = loaded
  BY <1>1, LoadedIs DEF WriteInv
<1>4. loaded = [objects |-> [c \in D |-> New(c)], branches |-> [c \in D |-> Old(c)]]
  BY <1>2 DEF LoadedUpTo
<1>5. /\ fDetMap' = FillTree(loaded).objects /\ branches' = FillTree(loaded).branches
      /\ entries' = event /\ written' = Append(written, classes)
  BY <1>3 DEF WriteEvent
<1> HIDE DEF loaded, R, Old, New
<1>6. loaded.objects = [c \in D |-> New(c)] /\ loaded.branches = [c \in D |-> Old(c)]
  BY <1>4
<1>7. FillTree(loaded).objects = loaded.objects
  BY <1>4 DEF FillTree
<1>8. FillTree(loaded).branches
        = [c \in DOMAIN loaded.branches |-> Append(loaded.branches[c], loaded.objects[c])]
  BY <1>4 DEF FillTree
<1>9. fDetMap' = [c \in D |-> New(c)]
  BY <1>5, <1>6, <1>7
<1>10. branches' = [c \in D |-> Append(Old(c), New(c))]
  BY <1>5, <1>6, <1>8
<1>11. entries \in Nat /\ event \in Nat /\ entries < event /\ written \in Seq(Seq(Classes))
       /\ Len(written) = entries
  BY DEF WriteInv
<1>12. /\ \A i \in 1 .. entries : written'[i] = written[i]
       /\ written'[event] = classes
       /\ written' \in Seq(Seq(Classes)) /\ Len(written') = event
  BY <1>1, <1>5, <1>11
<1>13. ASSUME NEW c \in D
       PROVE  /\ Old(c) = [i \in 1 .. entries |-> Old(c)[i]]
              /\ \A i \in 1 .. entries : Old(c)[i] = EntryOf(c, i)
  <2>1. CASE c \in DOMAIN fDetMap
    BY <2>1 DEF Old, WriteInv
  <2>2. CASE c \notin DOMAIN fDetMap
    <3>1. \A i \in 1 .. entries : EntryOf(c, i) = Cleared
      BY <2>2 DEF WriteInv, EntryOf
    <3> QED
      BY <2>2, <3>1 DEF Old
  <2> QED
    BY <2>1, <2>2
<1>14. ASSUME NEW c \in D
       PROVE  branches'[c] = [i \in 1 .. event |-> EntryOf(c, i)']
  <2>1. branches'[c] = [i \in 1 .. event |-> IF i = event THEN New(c) ELSE Old(c)[i]]
    BY <1>10, <1>11, <1>13, Appended
  <2>2. \A i \in 1 .. event : i = event => EntryOf(c, i)' = New(c)
    BY <1>12 DEF EntryOf, New, R
  <2>3. \A i \in 1 .. event : i # event => i \in 1 .. entries
    BY <1>11
  <2>4. \A i \in 1 .. entries : EntryOf(c, i)' = EntryOf(c, i)
    BY <1>12 DEF EntryOf
  <2>5. \A i \in 1 .. event : EntryOf(c, i)' = IF i = event THEN New(c) ELSE Old(c)[i]
    BY <2>2, <2>3, <2>4, <1>13
  <2> QED
    BY <2>1, <2>5
<1>15. ASSUME NEW c, c \notin D, NEW i \in 1 .. event
       PROVE  c \notin Range(written'[i])
  <2>1. CASE i = event
    <3>1. written'[i] = classes
      BY <2>1, <1>12
    <3> QED
      BY <3>1, <1>15 DEF R
  <2>2. CASE i # event
    <3>1. i \in 1 .. entries
      BY <2>2, <1>11
    <3>2. written'[i] = written[i]
      BY <3>1, <1>12
    <3>3. c \notin DOMAIN fDetMap
      BY <1>15
    <3>4. c \notin Range(written[i])
      BY <3>1, <3>3 DEF WriteInv
    <3> QED
      BY <3>2, <3>4
  <2> QED
    BY <2>1, <2>2
<1> HIDE DEF D
<1>16. DOMAIN fDetMap' = D
  BY <1>9
<1>17. branches' = [c \in D |-> branches'[c]]
  BY <1>10
<1> HIDE DEF event
<1> QED
  BY <1>5, <1>11, <1>12, <1>14, <1>15, <1>16, <1>17 DEF WriteInv, BranchesOf

\* For any events and any classes of detectors: AddBranch fills a new branch up
\* to the number of entries of the others, and WriteEvent clears what the event
\* does not have, so that entry i of every branch is of event i.
THEOREM BranchesInStep == WriteSpec => []EntriesInStep
<1>1. WriteInit => WriteInv
  BY DEF WriteInit, WriteInv, BranchesOf
<1>2. WriteInv /\ [WriteNext]_writeVars => WriteInv'
  <2> SUFFICES ASSUME WriteInv, [WriteNext]_writeVars PROVE WriteInv'
    OBVIOUS
  <2>1. CASE WriteNext
    BY <2>1, WriteEventInv DEF WriteNext
  <2>2. CASE UNCHANGED writeVars
    BY <2>2 DEF writeVars, WriteInv, BranchesOf, EntryOf
  <2> QED
    BY <2>1, <2>2
<1>3. WriteInv => EntriesInStep
  <2> SUFFICES ASSUME WriteInv PROVE EntriesInStep
    OBVIOUS
  <2>1. DOMAIN branches = DOMAIN fDetMap /\ DOMAIN written = 1 .. entries
    BY DEF WriteInv, BranchesOf
  <2> QED
    BY <2>1 DEF WriteInv, EntriesInStep, EntryOf
<1> QED
  BY <1>1, <1>2, <1>3, PTL DEF WriteSpec

-----------------------------------------------------------------------------
(* Channels                                                                *)

LEMMA AppendOf ==
    ASSUME NEW S, NEW s \in Seq(S), NEW x \in S
    PROVE  /\ Append(s, x) \in Seq(S) /\ Append(s, x) # <<>>
           /\ Len(s) \in Nat
           /\ DOMAIN Append(s, x) = 1 .. (Len(s) + 1)
           /\ \A i \in 1 .. Len(s) : Append(s, x)[i] = s[i]
           /\ Append(s, x)[Len(s) + 1] = x
  OBVIOUS

PriorityValues == [value : Nat, priority : EPriority]
TypedChannels == [number : PriorityValues, gain : PriorityValues,
                  led : PriorityValues, range : PriorityValues]
Histories == Seq(EPriority \X Nat)

\* The value of a history: the last of those with the highest priority.
IsBest(h, i) ==
    /\ i \in DOMAIN h
    /\ \A j \in DOMAIN h : h[j][1] <= h[i][1] /\ (j > i => h[j][1] < h[i][1])
BestOf(h, own) ==
    IF h = <<>> THEN own.value = 0 /\ own.priority = kDefault
    ELSE \E i \in DOMAIN h : IsBest(h, i) /\ h[i][1] = own.priority /\ h[i][2] = own.value

\* Both maps of the operations and the history, and what they must satisfy.
Sound(s) ==
    /\ DOMAIN s.channels \subseteq Addresses /\ IsFiniteSet(DOMAIN s.channels)
    /\ s.channels = [a \in DOMAIN s.channels |-> s.channels[a]]
    /\ s.given \in [Addresses -> Histories]
    /\ \A a \in DOMAIN s.channels :
           s.channels[a] \in TypedChannels /\ BestOf(s.given[a], s.channels[a].gain)
    /\ \A a \in Addresses : a \notin DOMAIN s.channels => s.given[a] = <<>>

LEMMA Priorities ==
    /\ kDefault = 0 /\ kRootFile = 1 /\ kInputFile = 2 /\ kUser = 3 /\ kForce = 4
    /\ EPriority = 0 .. 4
  BY DEF kDefault, kRootFile, kInputFile, kUser, kForce, EPriority

LEMMA CopyTyped ==
    ASSUME NEW own \in PriorityValues, NEW rhs \in PriorityValues
    PROVE  CopyAssign(own, rhs) \in PriorityValues /\ NumberAfter(own, rhs) \in PriorityValues
  BY DEF CopyAssign, NumberAfter

LEMMA PrioritisedTyped ==
    ASSUME NEW v \in Nat, NEW prio \in EPriority
    PROVE  /\ Prioritised(v, prio) \in PriorityValues
           /\ Prioritised(v, prio).value = v /\ Prioritised(v, prio).priority = prio
  BY DEF Prioritised, PriorityValues

\* A value that was given is the best one, if its priority is no lower than
\* that of the best so far.
LEMMA BestAppended ==
    ASSUME NEW h \in Histories, NEW own \in PriorityValues, NEW v \in Nat,
           NEW prio \in EPriority, BestOf(h, own)
    PROVE  BestOf(Append(h, <<prio, v>>),
                  IF prio >= own.priority THEN Prioritised(v, prio) ELSE own)
<1> DEFINE new == Append(h, <<prio, v>>)
           n == Len(h)
           won == IF prio >= own.priority THEN Prioritised(v, prio) ELSE own
<1>1. /\ DOMAIN h = 1 .. n /\ n \in Nat /\ DOMAIN new = 1 .. (n + 1)
      /\ \A i \in 1 .. n : new[i] = h[i] /\ h[i][1] \in Nat
      /\ new[n + 1] = <<prio, v>> /\ prio \in Nat /\ new # <<>>
      /\ n = 0 <=> h = <<>>
  <2>1. h \in Seq(EPriority \X Nat) /\ <<prio, v>> \in EPriority \X Nat
    BY DEF Histories
  <2>2. /\ DOMAIN h = 1 .. n /\ n \in Nat /\ DOMAIN new = 1 .. (n + 1)
        /\ \A i \in 1 .. n : new[i] = h[i]
        /\ new[n + 1] = <<prio, v>> /\ new # <<>>
    <3> DEFINE x == <<prio, v>>
               T == EPriority \X Nat
    <3>1. new = Append(h, x)
      OBVIOUS
    <3>2. x \in T /\ h \in Seq(T)
      BY <2>1
    <3> HIDE DEF x, T, new
    <3>3. /\ Append(h, x) # <<>> /\ n \in Nat
          /\ DOMAIN Append(h, x) = 1 .. (n + 1)
          /\ \A i \in 1 .. n : Append(h, x)[i] = h[i]
          /\ Append(h, x)[n + 1] = x
      BY <3>2, AppendOf
    <3>4. DOMAIN h = 1 .. n
      BY <2>1
    <3> QED
      BY <3>1, <3>3, <3>4 DEF x
  <2>3. \A i \in 1 .. n : h[i] \in EPriority \X Nat
    BY <2>1
  <2>4. \A i \in 1 .. n : h[i][1] \in EPriority
    BY <2>3
  <2>5. \A i \in 1 .. n : h[i][1] \in Nat
    BY <2>4, Priorities
  <2>6. n = 0 <=> h = <<>>
    BY <2>1
  <2> QED
    BY <2>2, <2>5, <2>6, Priorities
<1>2. own.priority \in Nat /\ own.value \in Nat
  BY Priorities DEF PriorityValues
<1>3. <<prio, v>>[1] = prio /\ <<prio, v>>[2] = v
  OBVIOUS
<1> HIDE DEF new, n
<1>4. \A j \in DOMAIN h : h[j][1] <= own.priority
  BY <1>1, <1>2 DEF BestOf, IsBest
<1>5. CASE prio >= own.priority
  <2>1. \A j \in 1 .. n : new[j][1] <= prio
    <3> TAKE j \in 1 .. n
    <3>1. new[j] = h[j] /\ h[j][1] \in Nat /\ h[j][1] <= own.priority
      BY <1>1, <1>4
    <3> QED
      BY <3>1, <1>1, <1>2, <1>5
  <2>2. IsBest(new, n + 1)
    BY <2>1, <1>1, <1>3 DEF IsBest
  <2>3. won.priority = prio /\ won.value = v
    BY <1>5, PrioritisedTyped
  <2>4. n + 1 \in DOMAIN new
    BY <1>1
  <2> HIDE DEF won
  <2>5. BestOf(new, won)
    BY <1>1, <1>3, <2>2, <2>3, <2>4 DEF BestOf
  <2> QED
    BY <2>5 DEF new, won
<1>6. CASE ~ (prio >= own.priority)
  <2>1. prio < own.priority
    BY <1>1, <1>2, <1>6
  <2>2. h # <<>>
    BY <2>1, <1>1, Priorities DEF BestOf
  <2>3. PICK i \in DOMAIN h : IsBest(h, i) /\ h[i][1] = own.priority /\ h[i][2] = own.value
    BY <2>2 DEF BestOf
  <2>4. i \in DOMAIN new /\ new[i] = h[i]
    BY <2>3, <1>1
  <2>5. ASSUME NEW j \in DOMAIN new
        PROVE  new[j][1] <= new[i][1] /\ (j > i => new[j][1] < new[i][1])
    <3>1. CASE j \in 1 .. n
      BY <3>1, <1>1, <2>3, <2>4 DEF IsBest
    <3>2. CASE j \notin 1 .. n
      <4>1. j = n + 1
        BY <3>2, <1>1
      <4>2. new[j][1] = prio
        BY <4>1, <1>1, <1>3
      <4> QED
        BY <4>2, <2>1, <2>3, <2>4, <1>1, <1>2
    <3> QED
      BY <3>1, <3>2
  <2>6. IsBest(new, i)
    BY <2>4, <2>5 DEF IsBest
  <2>7. BestOf(new, own)
    BY <2>3, <2>4, <2>6, <1>1 DEF BestOf
  <2> QED
    BY <2>7, <1>6 DEF new
<1> QED
  BY <1>5, <1>6

\* One setter with its note.
LEMMA BestNoted ==
    ASSUME NEW h \in Histories, NEW own \in PriorityValues, NEW rhs \in PriorityValues,
           BestOf(h, own)
    PROVE  LET after == IF rhs.priority = kDefault THEN h
                        ELSE Append(h, <<rhs.priority, rhs.value>>)
           IN  after \in Histories /\ BestOf(after, CopyAssign(own, rhs))
<1>1. rhs.priority \in EPriority /\ rhs.value \in Nat
  BY DEF PriorityValues
<1>2. CASE rhs.priority = kDefault
  BY <1>2 DEF CopyAssign
<1>3. CASE rhs.priority # kDefault
  <2>1. Append(h, <<rhs.priority, rhs.value>>) \in Histories
    BY <1>1 DEF Histories
  <2>2. Prioritised(rhs.value, rhs.priority) = rhs
    BY DEF Prioritised, PriorityValues
  <2>3. CopyAssign(own, rhs) =
          IF rhs.priority >= own.priority THEN Prioritised(rhs.value, rhs.priority) ELSE own
    BY <1>3, <2>2 DEF CopyAssign
  <2> QED
    BY <1>1, <1>3, <2>1, <2>3, BestAppended
<1> QED
  BY <1>2, <1>3

LEMMA ParsedTyped ==
    ASSUME NEW e \in Entries, NEW prio \in EPriority
    PROVE  Parsed(e, prio) \in TypedChannels
<1>1. e.number \in Nat /\ e.gain \in Nat /\ e.led \in Nat /\ e.range \in Nat
  BY DEF Entries
<1>2. kDefault \in EPriority
  BY Priorities
<1>3. /\ PrioOf(e.number, prio) \in EPriority /\ PrioOf(e.gain, prio) \in EPriority
      /\ PrioOf(e.led, prio) \in EPriority
  BY <1>2 DEF PrioOf
<1> QED
  BY <1>1, <1>2, <1>3, PrioritisedTyped DEF Parsed, TypedChannels

\* The note of a value is that of a setter.
LEMMA NoteIs ==
    ASSUME NEW history \in [Addresses -> Histories], NEW a \in Addresses,
           NEW rhs \in PriorityValues
    PROVE  /\ Note(history, a, rhs.priority, rhs.value) \in [Addresses -> Histories]
           /\ \A b \in Addresses :
                  Note(history, a, rhs.priority, rhs.value)[b] =
                      IF b = a /\ rhs.priority # kDefault
                      THEN Append(history[a], <<rhs.priority, rhs.value>>)
                      ELSE history[b]
<1>1. history[a] \in Histories /\ rhs.priority \in EPriority /\ rhs.value \in Nat
  BY DEF PriorityValues
<1>2. Append(history[a], <<rhs.priority, rhs.value>>) \in Histories
  BY <1>1 DEF Histories
<1> QED
  BY <1>1, <1>2 DEF Note

\* A channel of the map is changed, and the value of its gain noted.
LEMMA SoundChange ==
    ASSUME NEW s, Sound(s), NEW a \in DOMAIN s.channels, NEW chan \in TypedChannels,
           NEW h \in Histories, BestOf(h, chan.gain),
           NEW t, t.channels = [s.channels EXCEPT ![a] = chan],
           t.given = [s.given EXCEPT ![a] = h]
    PROVE  Sound(t)
<1>1. DOMAIN t.channels = DOMAIN s.channels /\ a \in Addresses
  BY DEF Sound
<1>2. \A b \in DOMAIN s.channels : t.channels[b] = IF b = a THEN chan ELSE s.channels[b]
  OBVIOUS
<1>3. t.given \in [Addresses -> Histories]
  BY <1>1 DEF Sound
<1>4. \A b \in Addresses : t.given[b] = IF b = a THEN h ELSE s.given[b]
  BY DEF Sound
<1>5. t.channels = [b \in DOMAIN t.channels |-> t.channels[b]]
  BY <1>1
<1>6. \A b \in DOMAIN t.channels :
          t.channels[b] \in TypedChannels /\ BestOf(t.given[b], t.channels[b].gain)
  <2> TAKE b \in DOMAIN t.channels
  <2>1. b \in Addresses
    BY <1>1 DEF Sound
  <2>2. CASE b = a
    BY <2>1, <2>2, <1>1, <1>2, <1>4
  <2>3. CASE b # a
    BY <2>1, <2>3, <1>1, <1>2, <1>4 DEF Sound
  <2> QED
    BY <2>2, <2>3
<1>7. \A b \in Addresses : b \notin DOMAIN t.channels => t.given[b] = <<>>
  BY <1>1, <1>4 DEF Sound
<1>8. DOMAIN t.channels \subseteq Addresses /\ IsFiniteSet(DOMAIN t.channels)
  BY <1>1 DEF Sound
<1> QED
  BY <1>3, <1>5, <1>6, <1>7, <1>8 DEF Sound

-----------------------------------------------------------------------------
(* Parsing a text                                                          *)

LEMMA AppendSound ==
    ASSUME NEW s, Sound(s), NEW a \in DOMAIN s.channels, NEW chan \in TypedChannels,
           NEW numbers
    PROVE  Sound(AppendChannel(s, a, chan, numbers))
<1> DEFINE old == s.channels[a]
           new == [number |-> NumberAfter(old.number, chan.number),
                   gain |-> CopyAssign(old.gain, chan.gain),
                   led |-> CopyAssign(old.led, chan.led),
                   range |-> CopyAssign(old.range, chan.range)]
           g == Note(s.given, a, chan.gain.priority, chan.gain.value)
           t == AppendChannel(s, a, chan, numbers)
           h == IF chan.gain.priority = kDefault THEN s.given[a]
                ELSE Append(s.given[a], <<chan.gain.priority, chan.gain.value>>)
<1>1. /\ old \in TypedChannels /\ BestOf(s.given[a], old.gain) /\ a \in Addresses
      /\ s.given \in [Addresses -> Histories] /\ s.given[a] \in Histories
  BY DEF Sound
<1>2. t.channels = [s.channels EXCEPT ![a] = new] /\ t.given = g
  BY DEF AppendChannel
<1> HIDE DEF t, old
<1>3. /\ old.number \in PriorityValues /\ old.gain \in PriorityValues
      /\ old.range \in PriorityValues /\ chan.number \in PriorityValues
      /\ chan.gain \in PriorityValues /\ chan.range \in PriorityValues
      /\ old.led \in PriorityValues /\ chan.led \in PriorityValues
  BY <1>1 DEF TypedChannels
<1>4. new \in TypedChannels /\ new.gain = CopyAssign(old.gain, chan.gain)
  BY <1>3, CopyTyped DEF TypedChannels
<1>5. h \in Histories /\ BestOf(h, new.gain)
  BY <1>1, <1>3, <1>4, BestNoted
<1>6. g = [s.given EXCEPT ![a] = h]
  BY DEF Note
<1> HIDE DEF new, g, h
<1>7. Sound(t)
  BY <1>2, <1>4, <1>5, <1>6, SoundChange
<1> QED
  BY <1>7 DEF t

LEMMA AddSound ==
    ASSUME NEW s, Sound(s), NEW a \in Addresses, a \notin DOMAIN s.channels,
           NEW e \in Entries, NEW prio \in EPriority, prio # kDefault, NEW numbers
    PROVE  Sound(AddChannel(s, a, Parsed(e, prio), numbers))
<1> DEFINE chan == Parsed(e, prio)
           t == AddChannel(s, a, chan, numbers)
           D == DOMAIN s.channels
<1>1. chan \in TypedChannels
  BY ParsedTyped
<1>2. chan.gain = Prioritised(e.gain, PrioOf(e.gain, prio)) /\ e.gain \in Nat
  BY DEF Parsed, Entries
<1>3. /\ t.channels = With(s.channels, a, chan)
      /\ t.given = Note(s.given, a, chan.gain.priority, chan.gain.value)
  BY DEF AddChannel
<1> HIDE DEF chan, t
<1>4. /\ t.channels = [b \in D \cup {a} |-> IF b = a THEN chan ELSE s.channels[b]]
      /\ DOMAIN t.channels = D \cup {a}
  BY <1>3 DEF With
<1>5. s.given \in [Addresses -> Histories] /\ s.given[a] = <<>>
  BY DEF Sound
<1>6. chan.gain \in PriorityValues
  BY <1>1 DEF TypedChannels
<1>7. /\ t.given \in [Addresses -> Histories]
      /\ \A b \in Addresses : t.given[b] = IF b = a /\ chan.gain.priority # kDefault
                                           THEN Append(s.given[a], <<chan.gain.priority,
                                                                     chan.gain.value>>)
                                           ELSE s.given[b]
  <2> DEFINE rhs == chan.gain
             history == s.given
             noted == Note(history, a, rhs.priority, rhs.value)
  <2>1. rhs \in PriorityValues /\ history \in [Addresses -> Histories]
    BY <1>5, <1>6
  <2> HIDE DEF rhs, history
  <2>2. noted \in [Addresses -> Histories]
    BY <2>1, NoteIs
  <2>3. \A b \in Addresses : noted[b] = IF b = a /\ rhs.priority # kDefault
                                        THEN Append(history[a], <<rhs.priority, rhs.value>>)
                                        ELSE history[b]
    BY <2>1, NoteIs
  <2>4. t.given = noted
    BY <1>3 DEF rhs, history
  <2> HIDE DEF noted
  <2> QED
    BY <2>2, <2>3, <2>4 DEF rhs, history
<1>8. BestOf(t.given[a], chan.gain)
  <2> DEFINE none == Prioritised(0, kDefault)
  <2>1. none \in PriorityValues /\ none.value = 0 /\ none.priority = kDefault
    BY PrioritisedTyped, Priorities
  <2> HIDE DEF none
  <2>2. <<>> \in Histories /\ BestOf(<<>>, none)
    BY <2>1 DEF Histories, BestOf
  <2>3. BestOf(IF chan.gain.priority = kDefault THEN <<>>
               ELSE Append(<<>>, <<chan.gain.priority, chan.gain.value>>),
               CopyAssign(none, chan.gain))
    BY <2>1, <2>2, <1>6, BestNoted
  <2>4. CASE chan.gain.priority = kDefault
    <3>1. e.gain = 0
      BY <1>2, <2>4 DEF PrioOf, Prioritised
    <3>2. chan.gain.value = 0
      BY <3>1, <1>2 DEF Prioritised
    <3>3. t.given[a] = <<>>
      BY <1>5, <1>7, <2>4
    <3> QED
      BY <2>4, <3>2, <3>3 DEF BestOf
  <2>5. CASE chan.gain.priority # kDefault
    <3>1. CopyAssign(none, chan.gain) = chan.gain
      BY <2>1, <2>5, <1>6, Priorities DEF CopyAssign, PriorityValues
    <3>2. BestOf(Append(<<>>, <<chan.gain.priority, chan.gain.value>>), chan.gain)
      BY <3>1, <2>3, <2>5
    <3>3. t.given[a] = Append(<<>>, <<chan.gain.priority, chan.gain.value>>)
      BY <2>5, <1>5, <1>7
    <3> QED
      BY <3>2, <3>3
  <2> QED
    BY <2>4, <2>5
<1>9. ASSUME NEW b \in DOMAIN t.channels
      PROVE  t.channels[b] \in TypedChannels /\ BestOf(t.given[b], t.channels[b].gain)
  <2>1. CASE b = a
    BY <2>1, <1>1, <1>4, <1>8
  <2>2. CASE b # a
    BY <2>2, <1>4, <1>7 DEF Sound
  <2> QED
    BY <2>1, <2>2
<1>10. \A b \in Addresses : b \notin DOMAIN t.channels => t.given[b] = <<>>
  BY <1>4, <1>7 DEF Sound
<1>11. DOMAIN t.channels \subseteq Addresses /\ IsFiniteSet(DOMAIN t.channels)
  BY <1>4, FS_AddElement DEF Sound
<1>12. t.channels = [b \in DOMAIN t.channels |-> t.channels[b]]
  BY <1>4
<1>13. Sound(t)
  BY <1>7, <1>9, <1>10, <1>11, <1>12 DEF Sound
<1> QED
  BY <1>13 DEF t, chan

\* prio is that of a file, which is not the default.
LEMMA EntrySound ==
    ASSUME NEW s, Sound(s), NEW e \in Entries, NEW prio \in {kRootFile, kInputFile}
    PROVE  Sound(ParseEntry(s, e, prio))
<1>1. prio \in EPriority /\ prio # kDefault
  BY Priorities
<1>2. Parsed(e, prio) \in TypedChannels
  BY <1>1, ParsedTyped
<1>3. CASE e.address \in DOMAIN s.channels
  BY <1>2, <1>3, AppendSound DEF ParseEntry
<1>4. CASE e.address \notin DOMAIN s.channels /\ e.address = NoAddress
  <2>1. ParseEntry(s, e, prio) = [s EXCEPT !.numbers = TempNumbers(s.numbers, e, Stray)]
    BY <1>4 DEF ParseEntry
  <2>2. /\ ParseEntry(s, e, prio).channels = s.channels
        /\ ParseEntry(s, e, prio).given = s.given
    BY <2>1
  <2> QED
    BY <2>2 DEF Sound
<1>5. CASE e.address \notin DOMAIN s.channels /\ e.address # NoAddress
  <2>1. e.address \in Addresses
    BY <1>5 DEF Entries
  <2> QED
    BY <1>1, <1>5, <2>1, AddSound DEF ParseEntry
<1> QED
  BY <1>3, <1>4, <1>5

\* How the parser gets from one block of the text to the next.
IsParse(f, s, text, prio) ==
    f = [n \in 0 .. Len(text) |->
            IF n = 0 THEN s ELSE ParseEntry(f[n - 1], text[n], prio)]

LEMMA ParseExists ==
    ASSUME NEW s, NEW text, Len(text) \in Nat, NEW prio
    PROVE  \E f : IsParse(f, s, text, prio)
<1> DEFINE Upto(f, k) == f = [n \in 0 .. k |->
                                 IF n = 0 THEN s ELSE ParseEntry(f[n - 1], text[n], prio)]
           T == {k \in Nat : ~ \E f : Upto(f, k)}
<1>1. T = {}
  <2> SUFFICES ASSUME T # {} PROVE FALSE
    OBVIOUS
  <2>1. PICK k \in T : \A n \in T : k <= n
    BY LeastNumber
  <2>2. CASE k = 0
    <3> DEFINE f == [n \in 0 .. 0 |-> s]
    <3>1. Upto(f, 0)
      OBVIOUS
    <3> QED
      BY <3>1, <2>2
  <2>3. CASE k # 0
    <3>1. k - 1 \in Nat /\ k - 1 \notin T
      BY <2>1, <2>3
    <3>2. PICK g : Upto(g, k - 1)
      BY <3>1
    <3> DEFINE f == [n \in 0 .. k |->
                        IF n = k THEN ParseEntry(g[k - 1], text[k], prio) ELSE g[n]]
    <3>3. \A n \in 0 .. k :
              f[n] = IF n = 0 THEN s ELSE ParseEntry(f[n - 1], text[n], prio)
      BY <3>1, <3>2, <2>3
    <3>4. Upto(f, k)
      BY <3>3
    <3> QED
      BY <3>4
  <2> QED
    BY <2>2, <2>3
<1>2. \E f : Upto(f, Len(text))
  BY <1>1
<1> QED
  BY <1>2 DEF IsParse

Parsing(f, s, text, prio) ==
    /\ ParseInputData(s, text, prio) = f[Len(text)]
    /\ f[0] = s
    /\ \A n \in 1 .. Len(text) : f[n] = ParseEntry(f[n - 1], text[n], prio)

LEMMA ParseIs ==
    ASSUME NEW s, NEW text, Len(text) \in Nat, NEW prio
    PROVE  \E f : Parsing(f, s, text, prio)
<1> DEFINE parsed == CHOOSE g : IsParse(g, s, text, prio)
<1>1. ParseInputData(s, text, prio) = parsed[Len(text)]
  BY DEF ParseInputData, IsParse
<1>2. IsParse(parsed, s, text, prio)
  BY ParseExists
<1> HIDE DEF parsed
<1>3. \A n \in 0 .. Len(text) :
          parsed[n] = IF n = 0 THEN s ELSE ParseEntry(parsed[n - 1], text[n], prio)
  BY <1>2 DEF IsParse
<1>4. parsed[0] = s /\ \A n \in 1 .. Len(text) :
                         parsed[n] = ParseEntry(parsed[n - 1], text[n], prio)
  BY <1>3
<1>5. Parsing(parsed, s, text, prio)
  BY <1>1, <1>4 DEF Parsing
<1> QED
  BY <1>5

LEMMA ParseSound ==
    ASSUME NEW s, Sound(s), NEW text \in Seq(Entries), NEW prio \in {kRootFile, kInputFile}
    PROVE  Sound(ParseInputData(s, text, prio))
<1>1. Len(text) \in Nat /\ \A n \in 1 .. Len(text) : text[n] \in Entries
  OBVIOUS
<1>2. PICK f : Parsing(f, s, text, prio)
  BY <1>1, ParseIs
<1> DEFINE T == {n \in Nat : n <= Len(text) /\ ~ Sound(f[n])}
<1>3. T = {}
  <2> SUFFICES ASSUME T # {} PROVE FALSE
    OBVIOUS
  <2>1. PICK k \in T : \A n \in T : k <= n
    BY LeastNumber
  <2>2. k # 0
    BY <2>1, <1>2 DEF Parsing
  <2>3. k - 1 \in Nat /\ k - 1 \notin T /\ k - 1 <= Len(text) /\ k \in 1 .. Len(text)
    BY <2>1, <2>2, <1>1
  <2>4. Sound(f[k - 1])
    BY <2>3
  <2>5. Sound(f[k])
    BY <2>3, <2>4, <1>1, <1>2, EntrySound DEF Parsing
  <2> QED
    BY <2>1, <2>5
<1>4. Sound(f[Len(text)])
  BY <1>1, <1>3
<1> QED
  BY <1>2, <1>4 DEF Parsing

LEMMA NoneSound == Sound(NoChannels)
<1>1. <<>> \in Histories
  BY DEF Histories
<1>2. /\ NoChannels.channels = <<>> /\ NoChannels.given \in [Addresses -> Histories]
      /\ \A a \in Addresses : NoChannels.given[a] = <<>>
  BY <1>1 DEF NoChannels
<1>3. DOMAIN <<>> = {} /\ <<>> = [a \in {} |-> <<>>[a]]
  OBVIOUS
<1> QED
  BY <1>2, <1>3, FS_EmptySet DEF Sound

LEMMA SoundSame ==
    ASSUME NEW s, Sound(s), NEW t, t.channels = s.channels, t.given = s.given
    PROVE  Sound(t)
  BY DEF Sound

-----------------------------------------------------------------------------
(* Writing the text                                                        *)

\* The order of the names is a list of the set without repetition.
LEMMA SortedIs ==
    ASSUME NEW S \in SUBSET Nat, IsFiniteSet(S)
    PROVE  /\ Cardinality(S) \in Nat
           /\ DOMAIN Sorted(S) = 1 .. Cardinality(S)
           /\ \A i \in 1 .. Cardinality(S) : Sorted(S)[i] \in S
           /\ \A i, j \in 1 .. Cardinality(S) : Sorted(S)[i] = Sorted(S)[j] => i = j
           /\ \A a \in S : \E i \in 1 .. Cardinality(S) : Sorted(S)[i] = a
<1> DEFINE n == Cardinality(S)
           Upto(a) == {b \in S : b <= a}
           rank == [a \in S |-> Cardinality(Upto(a))]
           order == Sorted(S)
<1>1. n \in Nat
  BY FS_CardinalityType
<1>2. \A a \in S : IsFiniteSet(Upto(a)) /\ Cardinality(Upto(a)) <= n
  <2> TAKE a \in S
  <2>1. Upto(a) \in SUBSET S
    OBVIOUS
  <2> QED
    BY <2>1, FS_Subset
<1>3. \A a \in S : Cardinality(Upto(a)) \in 1 .. n
  <2> TAKE a \in S
  <2> DEFINE U == Upto(a)
  <2>1. IsFiniteSet(U) /\ Cardinality(U) <= n /\ a \in U
    BY <1>2
  <2> HIDE DEF U
  <2>2. Cardinality(U) \in Nat /\ Cardinality(U) # 0
    BY <2>1, FS_CardinalityType, FS_EmptySet
  <2> QED
    BY <1>1, <2>1, <2>2 DEF U
<1>4. \A a, b \in S : Cardinality(Upto(a)) = Cardinality(Upto(b)) => a = b
  <2>1. ASSUME NEW a \in S, NEW b \in S, a < b,
               Cardinality(Upto(a)) = Cardinality(Upto(b))
        PROVE  FALSE
    <3> DEFINE U == Upto(a)
               V == Upto(b)
    <3>1. U \in SUBSET V /\ b \in V /\ b \notin U
      <4>1. a \in Nat /\ b \in Nat /\ \A c \in S : c \in Nat
        BY <2>1
      <4>2. \A c \in S : c <= a => c <= b
        BY <4>1, <2>1
      <4>3. b <= b /\ ~ (b <= a)
        BY <4>1, <2>1
      <4> QED
        BY <4>2, <4>3
    <3>2. IsFiniteSet(V)
      BY <1>2
    <3>3. Cardinality(V) = Cardinality(U)
      BY <2>1
    <3> HIDE DEF U, V
    <3>4. V = U
      BY <3>1, <3>2, <3>3, FS_Subset
    <3> QED
      BY <3>1, <3>4
  <2> QED
    BY <2>1
<1>5. order = [i \in 1 .. n |-> CHOOSE a \in S : Cardinality(Upto(a)) = i]
  BY DEF Sorted
<1>6. \A a \in S : rank[a] = Cardinality(Upto(a))
  OBVIOUS
<1> HIDE DEF Upto, order
<1>7. rank \in [S -> 1 .. n]
  BY <1>3
<1>8. rank \in Injection(S, 1 .. n)
  BY <1>4, <1>6, <1>7 DEF Injection, IsInjective
<1>9. IsFiniteSet(1 .. n) /\ Cardinality(1 .. n) = n
  BY <1>1, FS_Interval
<1>10. rank \in Surjection(S, 1 .. n)
  <2> DEFINE T == 1 .. n
             f == rank
  <2>1. IsFiniteSet(T) /\ f \in Injection(S, T) /\ Cardinality(S) = Cardinality(T)
    BY <1>8, <1>9
  <2> HIDE DEF T, f
  <2>2. f \in Surjection(S, T)
    BY <2>1, FS_Injection
  <2> QED
    BY <2>2 DEF T, f
<1>11. \A i \in 1 .. n : \E a \in S : rank[a] = i
  BY <1>10 DEF Surjection
<1> HIDE DEF rank
<1>12. \A i \in 1 .. n : order[i] \in S /\ rank[order[i]] = i
  BY <1>5, <1>6, <1>11
<1>13. \A i, j \in 1 .. n : order[i] = order[j] => i = j
  BY <1>12
<1>14. \A a \in S : \E i \in 1 .. n : order[i] = a
  <2> TAKE a \in S
  <2>1. rank[a] \in 1 .. n
    BY <1>7
  <2>2. rank[order[rank[a]]] = rank[a] /\ order[rank[a]] \in S
    BY <1>12, <2>1
  <2>3. order[rank[a]] = a
    <3> DEFINE b == order[rank[a]]
    <3>1. b \in S /\ rank[b] = rank[a]
      BY <2>2
    <3> HIDE DEF b
    <3>2. b = a
      BY <3>1, <1>4, <1>6
    <3> QED
      BY <3>2 DEF b
  <2> QED
    BY <2>1, <2>3
<1>15. DOMAIN order = 1 .. n
  BY <1>5
<1> QED
  BY <1>1, <1>12, <1>13, <1>14, <1>15 DEF order

\* Every entry of the text is that of a channel, in the order of the names.
LEMMA WrittenText ==
    ASSUME NEW s, Sound(s)
    PROVE  LET S == DOMAIN s.channels
               text == WriteCalBuffer(s.channels)
           IN  /\ S \in SUBSET Nat /\ IsFiniteSet(S) /\ text \in Seq(Entries)
               /\ Len(text) = Cardinality(S)
               /\ \A i \in 1 .. Cardinality(S) :
                      /\ text[i].address = Sorted(S)[i]
                      /\ text[i].number = s.channels[Sorted(S)[i]].number.value
                      /\ text[i].gain = s.channels[Sorted(S)[i]].gain.value
                      /\ text[i].range = s.channels[Sorted(S)[i]].range.value
<1> DEFINE S == DOMAIN s.channels
           n == Cardinality(S)
           order == Sorted(S)
           text == WriteCalBuffer(s.channels)
           entry(i) == [address |-> order[i], number |-> s.channels[order[i]].number.value,
                        gain |-> s.channels[order[i]].gain.value, led |-> 0,
                        range |-> s.channels[order[i]].range.value]
<1>1. S \in SUBSET Addresses /\ S \in SUBSET Nat /\ IsFiniteSet(S)
  BY ChannelAssumption DEF Sound
<1>2. \A a \in S : s.channels[a] \in TypedChannels
  BY DEF Sound
<1>3. text = [i \in DOMAIN order |-> entry(i)]
  BY DEF WriteCalBuffer, PrintToString
<1> HIDE DEF S, order, text
<1>4. n \in Nat /\ DOMAIN order = 1 .. n /\ \A i \in 1 .. n : order[i] \in S
  BY <1>1, SortedIs DEF order
<1>5. \A i \in 1 .. n : entry(i) \in Entries
  <2> TAKE i \in 1 .. n
  <2>1. order[i] \in S /\ order[i] \in Addresses
    BY <1>1, <1>4
  <2>2. s.channels[order[i]] \in TypedChannels
    BY <1>2, <2>1
  <2> QED
    BY <2>1, <2>2 DEF Entries, TypedChannels, PriorityValues
<1>6. text = [i \in 1 .. n |-> entry(i)]
  BY <1>3, <1>4
<1>7. text \in Seq(Entries) /\ Len(text) = n
  BY <1>4, <1>5, <1>6
<1>8. \A i \in 1 .. n :
          /\ text[i].address = order[i]
          /\ text[i].number = s.channels[order[i]].number.value
          /\ text[i].gain = s.channels[order[i]].gain.value
          /\ text[i].range = s.channels[order[i]].range.value
  BY <1>6
<1> QED
  BY <1>1, <1>7, <1>8 DEF S, order, text

\* What the parser makes of the text of channels, from none.
LEMMA ReadBack ==
    ASSUME NEW s, Sound(s)
    PROVE  LET read == ParseInputData(NoChannels, WriteCalBuffer(s.channels),
                                      kRootFile).channels
           IN  /\ DOMAIN read = DOMAIN s.channels
               /\ \A a \in DOMAIN read :
                      /\ read[a].number.value = s.channels[a].number.value
                      /\ read[a].gain.value = s.channels[a].gain.value
                      /\ read[a].range.value = s.channels[a].range.value
<1> DEFINE S == DOMAIN s.channels
           n == Cardinality(S)
           order == Sorted(S)
           text == WriteCalBuffer(s.channels)
           First(k) == {order[i] : i \in 1 .. k}
<1>1. /\ S \in SUBSET Nat /\ IsFiniteSet(S) /\ Len(text) = n /\ text \in Seq(Entries)
      /\ \A i \in 1 .. n :
             /\ text[i].address = order[i]
             /\ text[i].number = s.channels[order[i]].number.value
             /\ text[i].gain = s.channels[order[i]].gain.value
             /\ text[i].range = s.channels[order[i]].range.value
  BY WrittenText
<1>2. S \in SUBSET Addresses
  BY DEF Sound
<1> HIDE DEF S, order, text
<1>3. /\ n \in Nat /\ \A i \in 1 .. n : order[i] \in S
      /\ \A i, j \in 1 .. n : order[i] = order[j] => i = j
      /\ \A a \in S : \E i \in 1 .. n : order[i] = a
  BY <1>1, SortedIs DEF order
<1>4. PICK f : Parsing(f, NoChannels, text, kRootFile)
  BY <1>1, <1>3, ParseIs
<1> DEFINE Read(k) ==
             /\ DOMAIN f[k].channels = First(k)
             /\ \A i \in 1 .. k : f[k].channels[order[i]] = Parsed(text[i], kRootFile)
           T == {k \in Nat : k <= n /\ ~ Read(k)}
<1>5. Read(0)
  <2>1. f[0].channels = <<>>
    BY <1>4 DEF Parsing, NoChannels
  <2>2. DOMAIN f[0].channels = {}
    BY <2>1
  <2>3. First(0) = {}
    OBVIOUS
  <2>4. \A i \in 1 .. 0 : FALSE
    OBVIOUS
  <2> QED
    BY <2>2, <2>3, <2>4
<1>6. ASSUME NEW k \in 1 .. n, Read(k - 1)
      PROVE  Read(k)
  <2> DEFINE before == f[k - 1]
             after == f[k]
             a == order[k]
             chan == Parsed(text[k], kRootFile)
  <2>1. after = ParseEntry(before, text[k], kRootFile)
    BY <1>1, <1>3, <1>4 DEF Parsing
  <2>2. text[k].address = a /\ a \in Addresses /\ a # NoAddress
    BY <1>1, <1>2, <1>3, ChannelAssumption
  <2>3. \A i \in 1 .. k - 1 : order[i] # a
    BY <1>3
  <2>4. a \notin DOMAIN before.channels
    BY <1>6, <2>3
  <2>5. after = AddChannel(before, a, chan, TempNumbers(before.numbers, text[k], a))
    BY <2>1, <2>2, <2>4 DEF ParseEntry
  <2>6. after.channels = With(before.channels, a, chan)
    BY <2>5 DEF AddChannel
  <2>7. after.channels = [b \in DOMAIN before.channels \cup {a} |->
                             IF b = a THEN chan ELSE before.channels[b]]
    BY <2>6 DEF With
  <2>8. DOMAIN before.channels \cup {a} = First(k)
    BY <1>6
  <2>9. \A i \in 1 .. k : after.channels[order[i]] = Parsed(text[i], kRootFile)
    <3> TAKE i \in 1 .. k
    <3>1. CASE i = k
      BY <3>1, <2>7
    <3>2. CASE i # k
      <4>1. i \in 1 .. k - 1
        BY <3>2
      <4>2. before.channels[order[i]] = Parsed(text[i], kRootFile)
        BY <4>1, <1>6
      <4>3. order[i] \in DOMAIN before.channels
        BY <4>1, <1>6
      <4>4. order[i] # a
        BY <4>1, <2>3
      <4> QED
        BY <2>7, <4>2, <4>3, <4>4
    <3> QED
      BY <3>1, <3>2
  <2> QED
    BY <2>7, <2>8, <2>9
<1>7. T = {}
  <2> SUFFICES ASSUME T # {} PROVE FALSE
    OBVIOUS
  <2> HIDE DEF Read
  <2>1. PICK k \in T : \A m \in T : k <= m
    BY LeastNumber
  <2>2. k # 0
    BY <2>1, <1>5
  <2>3. k - 1 \in Nat /\ k - 1 \notin T /\ k - 1 <= n /\ k \in 1 .. n
    BY <2>1, <2>2, <1>3
  <2>4. Read(k - 1)
    BY <2>3
  <2>5. Read(k)
    BY <2>3, <2>4, <1>6
  <2> QED
    BY <2>1, <2>5
<1>8. Read(n)
  <2> HIDE DEF Read
  <2> QED
    BY <1>3, <1>7
<1> DEFINE read == f[n].channels
<1>9. ParseInputData(NoChannels, text, kRootFile).channels = read
  BY <1>1, <1>4 DEF Parsing
<1>10. DOMAIN read = S
  BY <1>3, <1>8
<1>11. \A a \in S :
          /\ read[a].number.value = s.channels[a].number.value
          /\ read[a].gain.value = s.channels[a].gain.value
          /\ read[a].range.value = s.channels[a].range.value
  <2> TAKE a \in S
  <2>1. PICK i \in 1 .. n : order[i] = a
    BY <1>3
  <2>2. read[a] = Parsed(text[i], kRootFile)
    BY <2>1, <1>8
  <2> HIDE DEF read
  <2>3. /\ read[a].number.value = text[i].number /\ read[a].gain.value = text[i].gain
        /\ read[a].range.value = text[i].range
    BY <2>2 DEF Parsed, Prioritised
  <2> QED
    BY <2>1, <2>3, <1>1
<1> HIDE DEF read
<1> QED
  BY <1>9, <1>10, <1>11 DEF S, text

-----------------------------------------------------------------------------
(* The invariant                                                           *)

ChannelInv ==
    /\ Sound(Here)
    /\ fFileData \in Seq(Entries) /\ rootFile \in Seq(Entries)
    /\ NumbersFoundAfterCalFile

LEMMA InitChannel == ChannelInit => ChannelInv
<1> SUFFICES ASSUME ChannelInit PROVE ChannelInv
  OBVIOUS
<1>1. Here.channels = NoChannels.channels /\ Here.given = NoChannels.given
  BY DEF ChannelInit, Here, NoChannels
<1>2. Sound(Here)
  BY <1>1, NoneSound, SoundSame
<1> QED
  BY <1>2 DEF ChannelInit, ChannelInv, NumbersFoundAfterCalFile, NoKey

\* Every operation but ReadCalFile empties lastRead.
LEMMA NothingRead ==
    ASSUME lastRead' = <<>>, Sound(Here'),
           fFileData' \in Seq(Entries), rootFile' \in Seq(Entries)
    PROVE  ChannelInv'
  BY DEF ChannelInv, NumbersFoundAfterCalFile

LEMMA HereIs ==
    /\ Here.channels = fChannelMap /\ Here.given = given
    /\ Here'.channels = fChannelMap' /\ Here'.given = given'
  BY DEF Here

LEMMA ReadCalFileKeeps ==
    ASSUME ChannelInv, NEW text \in Files, ReadCalFile(text)
    PROVE  ChannelInv'
<1> DEFINE s == ParseInputData(Here, text, kInputFile)
           b == Here'
<1>1. text \in Seq(Entries) /\ Sound(Here)
  BY ChannelAssumption DEF ChannelInv
<1>2. Sound(s)
  BY <1>1, ParseSound
<1>3. /\ fChannelMap' = s.channels /\ given' = s.given /\ UNCHANGED rootFile
      /\ fFileData' = WriteCalBuffer(s.channels)
      /\ fChannelNumberMap' \in Renumbered(s.channels)
  BY DEF ReadCalFile
<1> HIDE DEF s
<1>4. Sound(Here')
  <2>1. b.channels = s.channels /\ b.given = s.given
    BY <1>3, HereIs
  <2> HIDE DEF b
  <2>2. Sound(b)
    BY <2>1, <1>2, SoundSame
  <2> QED
    BY <2>2 DEF b
<1>5. fFileData' \in Seq(Entries) /\ rootFile' \in Seq(Entries)
  BY <1>2, <1>3, WrittenText DEF ChannelInv
<1>6. NumbersFoundAfterCalFile'
  <2> DEFINE channels == fChannelMap'
             numbers == fChannelNumberMap'
             carried == {channels[a].number.value : a \in DOMAIN channels}
  <2>1. numbers \in Renumbered(channels)
    BY <1>3
  <2>2. numbers \in [carried -> DOMAIN channels]
    BY <2>1 DEF Renumbered
  <2>3. \A n \in carried : channels[numbers[n]].number.value = n
    BY <2>1 DEF Renumbered
  <2>4. ASSUME NEW a \in DOMAIN channels
        PROVE  LET n == channels[a].number.value
               IN  /\ n \in DOMAIN numbers /\ numbers[n] \in DOMAIN channels
                   /\ channels[numbers[n]].number.value = n
    BY <2>2, <2>3
  <2> QED
    BY <2>4 DEF NumbersFoundAfterCalFile
<1> QED
  BY <1>4, <1>5, <1>6 DEF ChannelInv

LEMMA ReadRootFileKeeps ==
    ASSUME ChannelInv, NEW text \in Seq(Entries), ReadRootFile(text)
    PROVE  ChannelInv'
<1> DEFINE s == ParseInputData(Here, text, kRootFile)
           b == Here'
<1>1. Sound(s)
  BY ParseSound DEF ChannelInv
<1>2. /\ fChannelMap' = s.channels /\ given' = s.given /\ UNCHANGED rootFile
      /\ fFileData' = text /\ lastRead' = <<>>
  BY DEF ReadRootFile, Become, Operation
<1> HIDE DEF s
<1>3. b.channels = s.channels /\ b.given = s.given
  BY <1>2, HereIs
<1> HIDE DEF b
<1>4. Sound(b)
  BY <1>1, <1>3, SoundSame
<1> QED
  BY <1>2, <1>4, NothingRead DEF b, ChannelInv

LEMMA SetNumberKeeps ==
    ASSUME ChannelInv, NEW a \in DOMAIN fChannelMap, NEW n \in Values, SetNumber(a, n)
    PROVE  ChannelInv'
<1> DEFINE own == fChannelMap[a].number
           new == Prioritised(n, kUser)
           chan == [fChannelMap[a] EXCEPT !.number = NumberAfter(own, new)]
           h == given[a]
           s == Here
           b == Here'
<1>1. /\ Sound(s) /\ s.channels = fChannelMap /\ s.given = given
      /\ b.channels = fChannelMap' /\ b.given = given'
  BY HereIs DEF ChannelInv
<1> HIDE DEF s, b
<1>2. /\ fChannelMap[a] \in TypedChannels /\ a \in Addresses /\ h \in Histories
      /\ BestOf(h, fChannelMap[a].gain) /\ given \in [Addresses -> Histories]
      /\ fChannelMap = [c \in DOMAIN fChannelMap |-> fChannelMap[c]]
  BY <1>1 DEF Sound
<1>3. own \in PriorityValues /\ new \in PriorityValues
  BY <1>2, PrioritisedTyped, Priorities, ChannelAssumption DEF TypedChannels
<1>4. NumberAfter(own, new) \in PriorityValues
  BY <1>3, CopyTyped
<1>5. chan \in TypedChannels /\ chan.gain = fChannelMap[a].gain
  BY <1>2, <1>4 DEF TypedChannels
<1>6. fChannelMap' = [fChannelMap EXCEPT ![a] = chan] /\ given' = given /\ lastRead' = <<>>
      /\ UNCHANGED <<fFileData, rootFile>>
  BY DEF SetNumber, Operation
<1>7. given = [given EXCEPT ![a] = h]
  BY <1>2
<1> HIDE DEF chan, h
<1>8. Sound(b)
  <2>1. /\ a \in DOMAIN s.channels /\ chan \in TypedChannels /\ h \in Histories
        /\ b.channels = [s.channels EXCEPT ![a] = chan]
        /\ b.given = [s.given EXCEPT ![a] = h]
    BY <1>1, <1>2, <1>5, <1>6, <1>7
  <2>2. BestOf(h, chan.gain)
    BY <1>2, <1>5
  <2> QED
    BY <1>1, <2>1, <2>2, SoundChange
<1> QED
  BY <1>6, <1>8, NothingRead DEF b, ChannelInv

LEMMA SetGainKeeps ==
    ASSUME ChannelInv, NEW a \in DOMAIN fChannelMap, NEW v \in Values, SetGain(a, v)
    PROVE  ChannelInv'
<1> DEFINE own == fChannelMap[a].gain
           rhs == Prioritised(v, kUser)
           gain == CopyAssign(own, rhs)
           chan == [fChannelMap[a] EXCEPT !.gain = gain]
           h == Append(given[a], <<kUser, v>>)
           s == Here
           b == Here'
<1>1. /\ Sound(s) /\ s.channels = fChannelMap /\ s.given = given
      /\ b.channels = fChannelMap' /\ b.given = given'
  BY HereIs DEF ChannelInv
<1> HIDE DEF s, b
<1>2. /\ fChannelMap[a] \in TypedChannels /\ a \in Addresses /\ given[a] \in Histories
      /\ BestOf(given[a], own) /\ given \in [Addresses -> Histories]
  BY <1>1 DEF Sound
<1>3. /\ own \in PriorityValues /\ rhs \in PriorityValues /\ rhs.value = v
      /\ rhs.priority = kUser /\ kUser # kDefault
  BY <1>2, PrioritisedTyped, Priorities, ChannelAssumption DEF TypedChannels
<1>4. h \in Histories /\ BestOf(h, gain)
  <2> DEFINE old == given[a]
  <2>1. old \in Histories /\ BestOf(old, own)
    BY <1>2
  <2> HIDE DEF old, own, rhs
  <2>2. LET after == IF rhs.priority = kDefault THEN old
                     ELSE Append(old, <<rhs.priority, rhs.value>>)
        IN  after \in Histories /\ BestOf(after, gain)
    BY <2>1, <1>3, BestNoted
  <2> QED
    BY <2>2, <1>3 DEF old
<1>5. chan \in TypedChannels /\ chan.gain = gain
  BY <1>2, <1>3, CopyTyped DEF TypedChannels
<1>6. /\ fChannelMap' = [fChannelMap EXCEPT ![a] = chan] /\ lastRead' = <<>>
      /\ given' = [given EXCEPT ![a] = h] /\ UNCHANGED <<fFileData, rootFile>>
  BY <1>3 DEF SetGain, Operation, Note
<1> HIDE DEF chan, h, gain
<1>7. Sound(b)
  <2>1. /\ a \in DOMAIN s.channels /\ chan \in TypedChannels /\ h \in Histories
        /\ b.channels = [s.channels EXCEPT ![a] = chan]
        /\ b.given = [s.given EXCEPT ![a] = h]
    BY <1>1, <1>4, <1>5, <1>6
  <2>2. BestOf(h, chan.gain)
    BY <1>4, <1>5
  <2> QED
    BY <1>1, <2>1, <2>2, SoundChange
<1> QED
  BY <1>6, <1>7, NothingRead DEF b, ChannelInv

\* The value written has the priority that the channel's gain has.
LEMMA WriteToChannelKeeps ==
    ASSUME ChannelInv, NEW a \in DOMAIN fChannelMap, NEW v \in Values, WriteToChannel(a, v)
    PROVE  ChannelInv'
<1> DEFINE own == fChannelMap[a].gain
           prio == own.priority
           gain == [own EXCEPT !.value = v]
           range == [fChannelMap[a].range EXCEPT !.value = 0]
           chan == [fChannelMap[a] EXCEPT !.gain = gain, !.range = range]
           h == Append(given[a], <<prio, v>>)
           s == Here
           b == Here'
<1>1. /\ Sound(s) /\ s.channels = fChannelMap /\ s.given = given
      /\ b.channels = fChannelMap' /\ b.given = given'
  BY HereIs DEF ChannelInv
<1> HIDE DEF s, b
<1>2. /\ fChannelMap[a] \in TypedChannels /\ a \in Addresses /\ given[a] \in Histories
      /\ BestOf(given[a], own) /\ given \in [Addresses -> Histories] /\ v \in Nat
  BY <1>1, ChannelAssumption DEF Sound
<1>3. own \in PriorityValues /\ fChannelMap[a].range \in PriorityValues /\ prio \in EPriority
  BY <1>2 DEF TypedChannels, PriorityValues
<1>4. gain = Prioritised(v, prio) /\ gain \in PriorityValues /\ range \in PriorityValues
  BY <1>2, <1>3 DEF Prioritised, PriorityValues
<1>5. chan \in TypedChannels /\ chan.gain = gain
  <2> HIDE DEF gain, range
  <2> QED
    BY <1>2, <1>4 DEF TypedChannels
<1>6. h \in Histories
  BY <1>2, <1>3 DEF Histories
<1>7. BestOf(h, gain)
  <2> DEFINE old == given[a]
  <2>1. old \in Histories /\ BestOf(old, own) /\ prio >= prio
    BY <1>2, <1>3, Priorities
  <2> HIDE DEF old, own
  <2>2. BestOf(Append(old, <<prio, v>>), IF prio >= own.priority THEN Prioritised(v, prio)
                                         ELSE own)
    BY <2>1, <1>2, <1>3, BestAppended
  <2> QED
    BY <2>1, <2>2, <1>4 DEF old
<1>8. /\ fChannelMap' = [fChannelMap EXCEPT ![a] = chan] /\ lastRead' = <<>>
      /\ given' = [given EXCEPT ![a] = h] /\ UNCHANGED <<fFileData, rootFile>>
  <2>1. fChannelMap' = [fChannelMap EXCEPT ![a].gain.value = v, ![a].range.value = 0]
    BY DEF WriteToChannel
  <2> QED
    BY <2>1 DEF WriteToChannel, Operation
<1> HIDE DEF chan, h, gain
<1>9. Sound(b)
  <2>1. /\ a \in DOMAIN s.channels /\ chan \in TypedChannels /\ h \in Histories
        /\ b.channels = [s.channels EXCEPT ![a] = chan]
        /\ b.given = [s.given EXCEPT ![a] = h]
    BY <1>1, <1>5, <1>6, <1>8
  <2>2. BestOf(h, chan.gain)
    BY <1>5, <1>7
  <2> QED
    BY <1>1, <2>1, <2>2, SoundChange
<1> QED
  BY <1>8, <1>9, NothingRead DEF b, ChannelInv

LEMMA OverWriteChannelKeeps ==
    ASSUME ChannelInv, NEW e \in Entries, OverWriteChannel(e)
    PROVE  ChannelInv'
<1> DEFINE a == e.address
           own == fChannelMap[a].gain
           gain == Prioritised(e.gain, kForce)
           number == NumberAfter(fChannelMap[a].number, Prioritised(e.number, kForce))
           chan == [number |-> number, gain |-> gain, led |-> Prioritised(e.led, kForce),
                    range |-> Prioritised(e.range, kForce)]
           h == Append(given[a], <<kForce, e.gain>>)
           s == Here
           b == Here'
<1>1. /\ Sound(s) /\ s.channels = fChannelMap /\ s.given = given
      /\ b.channels = fChannelMap' /\ b.given = given'
  BY HereIs DEF ChannelInv
<1>2. a \in DOMAIN fChannelMap /\ e.number \in Nat /\ e.gain \in Nat /\ e.led \in Nat
      /\ e.range \in Nat
  BY DEF OverWriteChannel, Entries
<1> HIDE DEF s, b
<1>3. /\ fChannelMap[a] \in TypedChannels /\ a \in Addresses /\ given[a] \in Histories
      /\ BestOf(given[a], own) /\ given \in [Addresses -> Histories]
  BY <1>1, <1>2 DEF Sound
<1>4. /\ own \in PriorityValues /\ kForce \in EPriority /\ kForce # kDefault
      /\ kForce >= own.priority
  BY <1>3, Priorities DEF TypedChannels, PriorityValues
<1>5. number \in PriorityValues
  BY <1>2, <1>3, <1>4, PrioritisedTyped, CopyTyped DEF TypedChannels
<1>6. /\ gain \in PriorityValues /\ Prioritised(e.range, kForce) \in PriorityValues
      /\ Prioritised(e.led, kForce) \in PriorityValues
  BY <1>2, <1>4, PrioritisedTyped
<1>7. chan \in TypedChannels /\ chan.gain = gain
  <2> HIDE DEF gain, number
  <2> QED
    BY <1>5, <1>6 DEF TypedChannels
<1>8. h \in Histories
  BY <1>2, <1>3, <1>4 DEF Histories
<1>9. BestOf(h, gain)
  <2> DEFINE old == given[a]
             v == e.gain
             prio == kForce
  <2>1. old \in Histories /\ BestOf(old, own) /\ v \in Nat /\ prio \in EPriority
        /\ prio >= own.priority
    BY <1>2, <1>3, <1>4
  <2> HIDE DEF old, own, v, prio
  <2>2. BestOf(Append(old, <<prio, v>>), IF prio >= own.priority THEN Prioritised(v, prio)
                                         ELSE own)
    BY <2>1, <1>4, BestAppended
  <2> QED
    BY <2>1, <2>2 DEF old, v, prio
<1>10. /\ fChannelMap' = [fChannelMap EXCEPT ![a] = chan] /\ lastRead' = <<>>
       /\ given' = [given EXCEPT ![a] = h] /\ UNCHANGED <<fFileData, rootFile>>
  BY <1>4 DEF OverWriteChannel, Operation, Note
<1> HIDE DEF chan, h, gain, a
<1>11. Sound(b)
  <2>1. /\ a \in DOMAIN s.channels /\ chan \in TypedChannels /\ h \in Histories
        /\ b.channels = [s.channels EXCEPT ![a] = chan]
        /\ b.given = [s.given EXCEPT ![a] = h]
    BY <1>1, <1>2, <1>7, <1>8, <1>10
  <2>2. BestOf(h, chan.gain)
    BY <1>7, <1>9
  <2> QED
    BY <1>1, <2>1, <2>2, SoundChange
<1> QED
  BY <1>10, <1>11, NothingRead DEF b, ChannelInv

LEMMA DeleteAllChannelsKeeps ==
    ASSUME ChannelInv, DeleteAllChannels
    PROVE  ChannelInv'
<1> DEFINE b == Here'
<1>1. b.channels = NoChannels.channels /\ b.given = NoChannels.given
  BY HereIs DEF DeleteAllChannels, Become
<1> HIDE DEF b
<1>2. Sound(b)
  BY <1>1, NoneSound, SoundSame
<1> QED
  BY <1>2, NothingRead DEF b, DeleteAllChannels, Operation, ChannelInv

LEMMA WriteToRootKeeps ==
    ASSUME ChannelInv, WriteToRoot
    PROVE  ChannelInv'
<1> DEFINE saved == WriteCalBuffer(fChannelMap)
           afterKeys == IF rootFile = NoKey THEN Here ELSE NoChannels
           restored == ParseInputData(afterKeys, saved, kRootFile)
           older == ParseInputData(restored, fFileData, kRootFile)
           again == ParseInputData(older, saved, kRootFile)
           b == Here'
<1>1. Sound(Here) /\ Sound(afterKeys) /\ fFileData \in Seq(Entries)
  BY NoneSound DEF ChannelInv
<1>2. saved \in Seq(Entries)
  BY <1>1, WrittenText, HereIs
<1>3. /\ fChannelMap' = again.channels /\ given' = again.given /\ lastRead' = <<>>
      /\ fFileData' = WriteCalBuffer(again.channels)
      /\ rootFile' = WriteCalBuffer(restored.channels)
  BY DEF WriteToRoot, Become, Operation
<1> HIDE DEF saved, afterKeys
<1>4. Sound(restored)
  BY <1>1, <1>2, ParseSound
<1> HIDE DEF restored
<1>5. Sound(older)
  BY <1>1, <1>4, ParseSound
<1> HIDE DEF older
<1>6. Sound(again)
  BY <1>2, <1>5, ParseSound
<1> HIDE DEF again
<1>7. b.channels = again.channels /\ b.given = again.given
  BY <1>3, HereIs
<1> HIDE DEF b
<1>8. Sound(b)
  BY <1>6, <1>7, SoundSame
<1>9. fFileData' \in Seq(Entries) /\ rootFile' \in Seq(Entries)
  BY <1>3, <1>4, <1>6, WrittenText
<1> QED
  BY <1>3, <1>8, <1>9, NothingRead DEF b

LEMMA StepKeepsChannels == ChannelInv /\ [ChannelNext]_channelVars => ChannelInv'
<1> SUFFICES ASSUME ChannelInv, [ChannelNext]_channelVars PROVE ChannelInv'
  OBVIOUS
<1>1. ASSUME NEW f \in Files, ReadCalFile(f) \/ ReadRootFile(f)
      PROVE  ChannelInv'
  BY <1>1, ChannelAssumption, ReadCalFileKeeps, ReadRootFileKeeps
<1>2. CASE rootFile # NoKey /\ ReadRootFile(rootFile)
  BY <1>2, ReadRootFileKeeps DEF ChannelInv
<1>3. ASSUME NEW a \in DOMAIN fChannelMap, NEW v \in Values,
             SetNumber(a, v) \/ SetGain(a, v) \/ WriteToChannel(a, v)
      PROVE  ChannelInv'
  BY <1>3, SetNumberKeeps, SetGainKeeps, WriteToChannelKeeps
<1>4. ASSUME NEW f \in Files, NEW i \in DOMAIN f, OverWriteChannel(f[i])
      PROVE  ChannelInv'
  <2>1. f \in Seq(Entries)
    BY ChannelAssumption
  <2>2. f[i] \in Entries
    BY <2>1
  <2> QED
    BY <1>4, <2>2, OverWriteChannelKeeps
<1>5. CASE DeleteAllChannels
  BY <1>5, DeleteAllChannelsKeeps
<1>6. CASE WriteToRoot
  BY <1>6, WriteToRootKeeps
<1>7. CASE UNCHANGED channelVars
  <2>1. UNCHANGED <<fChannelMap, fChannelNumberMap, fFileData, rootFile, given, lastRead>>
    BY <1>7 DEF channelVars
  <2> QED
    BY <2>1 DEF ChannelInv, Here, NumbersFoundAfterCalFile
<1> QED
  BY <1>1, <1>2, <1>3, <1>4, <1>5, <1>6, <1>7 DEF ChannelNext

LEMMA ChannelInvHolds == ChannelSpec => []ChannelInv
<1> QED
  BY InitChannel, StepKeepsChannels, PTL DEF ChannelSpec
-----------------------------------------------------------------------------
(* The theorems                                                            *)

\* After ReadCalFile every number that a channel carries is found, and found
\* as a channel that carries it: SetNumber and AddChannel may leave numbers
\* of deleted or overwritten objects behind, and the loop at the end of
\* ReadCalFile registers all of them again.
THEOREM NumbersFound == ChannelSpec => []NumbersFoundAfterCalFile
<1>1. ChannelInv => NumbersFoundAfterCalFile
  BY DEF ChannelInv
<1> QED
  BY <1>1, ChannelInvHolds, PTL

\* The gain of a channel is the last of those given with the highest
\* priority, however many files were read and written and values set, in
\* whatever order: operator= of TPriorityValue decides it from the value and
\* the priority alone, without the history.
THEOREM PriorityDecides == ChannelSpec => []HighestPriorityWins
<1>1. ASSUME Sound(Here), NEW a \in DOMAIN fChannelMap
      PROVE  LET h == given[a]
                 best == {i \in DOMAIN h : \A j \in DOMAIN h : h[j][1] <= h[i][1]}
                 last == CHOOSE i \in best : \A j \in best : j <= i
             IN  IF h = <<>> THEN fChannelMap[a].gain.value = 0
                             ELSE fChannelMap[a].gain.value = h[last][2]
  <2> DEFINE h == given[a]
             own == fChannelMap[a].gain
             best == {i \in DOMAIN h : \A j \in DOMAIN h : h[j][1] <= h[i][1]}
             last == CHOOSE i \in best : \A j \in best : j <= i
  <2>1. a \in Addresses /\ h \in Histories /\ BestOf(h, own)
    BY <1>1, HereIs DEF Sound
  <2>2. DOMAIN h \subseteq Nat /\ \A i \in DOMAIN h : h[i][1] \in Nat
    <3>1. \A i \in DOMAIN h : i \in Nat /\ h[i] \in EPriority \X Nat
      BY <2>1 DEF Histories
    <3>2. \A i \in DOMAIN h : h[i][1] \in EPriority
      BY <3>1
    <3> QED
      BY <3>1, <3>2, Priorities
  <2> HIDE DEF h, own
  <2>3. CASE h = <<>>
    BY <2>1, <2>3 DEF BestOf, own, h
  <2>4. CASE h # <<>>
    <3>1. PICK i \in DOMAIN h : IsBest(h, i) /\ h[i][2] = own.value
      BY <2>1, <2>4 DEF BestOf
    <3>2. i \in best
      BY <3>1 DEF IsBest
    <3>3. \A j \in best : j <= i
      <4> SUFFICES ASSUME NEW j \in best, ~ (j <= i) PROVE FALSE
        OBVIOUS
      <4>1. j \in Nat /\ i \in Nat /\ j \in DOMAIN h /\ h[j][1] \in Nat /\ h[i][1] \in Nat
        BY <2>2
      <4>2. h[j][1] < h[i][1] /\ h[i][1] <= h[j][1]
        BY <4>1, <3>1 DEF IsBest
      <4> QED
        BY <4>1, <4>2
    <3>4. last \in best /\ \A j \in best : j <= last
      BY <3>2, <3>3
    <3>5. last = i
      <4>1. last <= i /\ i <= last /\ last \in Nat /\ i \in Nat
        BY <3>2, <3>3, <3>4, <2>2
      <4> HIDE DEF last
      <4> QED
        BY <4>1
    <3> HIDE DEF last
    <3>6. own.value = h[last][2]
      BY <3>1, <3>5
    <3> QED
      BY <2>4, <3>6 DEF own, h, last, best
  <2> QED
    BY <2>3, <2>4
<1>2. Sound(Here) => HighestPriorityWins
  BY <1>1 DEF HighestPriorityWins
<1> QED
  BY <1>2, ChannelInvHolds, PTL DEF ChannelInv

\* What WriteCalBuffer writes of any channels that the operations can lead
\* to, and WriteToRoot keeps in the root file, gives them back to a program
\* that has none: the same addresses, with the same values of the fields that
\* PrintToString has a line for (number, gain, range).  The other fields are
\* lost (AllIsWritten is violated).
THEOREM WrittenFieldsReadBack == ChannelSpec => []WrittenIsRead
<1>1. ASSUME Sound(Here) PROVE WrittenIsRead
  <2> DEFINE s == Here
             read == ParseInputData(NoChannels, WriteCalBuffer(s.channels),
                                    kRootFile).channels
  <2>1. Sound(s) /\ s.channels = fChannelMap
    BY <1>1, HereIs
  <2> HIDE DEF s
  <2>2. /\ DOMAIN read = DOMAIN s.channels
        /\ \A a \in DOMAIN read :
               /\ read[a].number.value = s.channels[a].number.value
               /\ read[a].gain.value = s.channels[a].gain.value
               /\ read[a].range.value = s.channels[a].range.value
    BY <2>1, ReadBack
  <2>3. \A a \in DOMAIN read, field \in {"number", "gain", "range"} :
            read[a][field].value = s.channels[a][field].value
    BY <2>2
  <2> QED
    BY <2>1, <2>2, <2>3 DEF WrittenIsRead, ReadBackFrom
<1> QED
  BY <1>1, ChannelInvHolds, PTL DEF ChannelInv

-----------------------------------------------------------------------------
(* Lost ids                                                                *)

\* The invariant.
IdPairs == [last : Nat, middle : Nat]
Diags ==
    [fRolling : BOOLEAN, fRollnum : Nat, fNofRollovers : Nat,
     fChannelIds : IdPairs, fAcceptedChannelIds : IdPairs,
     fTimeStamps : IdPairs, fNetworkPacketNumber : IdPairs,
     lostChannelIds : Seq(Nat), lostAcceptedIds : Seq(Nat), lostNetworkPackets : Seq(Nat)]

DiagFields ==
    {"fRolling", "fRollnum", "fNofRollovers", "fChannelIds", "fAcceptedChannelIds",
     "fTimeStamps", "fNetworkPacketNumber", "lostChannelIds", "lostAcceptedIds",
     "lostNetworkPackets"}

DiagTyped ==
    /\ hits \in [next : Nat, channel : Nat, accepted : Nat]
    /\ sinceGap \in 0 .. MinRun
    /\ arrived \in Seq(Nat) /\ Increasing(arrived)
    /\ \A i \in 1 .. Len(arrived) : arrived[i] < hits.next
    /\ diag \in Diags

\* Where the next accepted id is in the cycle the code takes it to be in, and
\* how far it is behind the first id that is counted for the next turn.
NextPlace == AcceptedId(hits.next) - diag.fNofRollovers * AcceptedMax
Passed ==
    NextPlace - (IF diag.fRolling THEN AcceptedMax + RollingThreshold + 1
                 ELSE AcceptedMax - RollingThreshold + 1)
EdgeSeen ==
    /\ IF diag.fRolling THEN NextPlace > AcceptedMax - RollingThreshold ELSE NextPlace >= 0
    /\ diag.fRollnum <= RollnumThreshold
    /\ Passed <= diag.fRollnum + Gap
    /\ sinceGap <= diag.fRollnum \/ Passed <= diag.fRollnum

FirstHit == IF ChannelId(arrived[1]) = 0 THEN 2 ELSE 1

ChannelKept ==
    LET count == Len(arrived)
        known == diag.fChannelIds
    IN  /\ known.middle = IF count < 1 THEN 0 ELSE ChannelId(arrived[count])
        /\ known.last = IF count < 2 THEN 0 ELSE ChannelId(arrived[count - 1])
        /\ diag.fTimeStamps.middle = IF count < 1 THEN 0 ELSE arrived[count] + 1
        /\ diag.fTimeStamps.last = IF count < 2 THEN 0 ELSE arrived[count - 1] + 1
        /\ Increasing(diag.lostChannelIds)
        /\ Range(diag.lostChannelIds) =
             IF count < 3 THEN {}
             ELSE {ChannelId(n) : n \in Missing(arrived[FirstHit], arrived[count - 1])}

AcceptedKept ==
    LET count == Len(arrived)
        known == diag.fAcceptedChannelIds
    IN  /\ known.middle = IF count < 2 THEN 0 ELSE AcceptedId(arrived[count])
        /\ known.last = IF count < 3 THEN 0 ELSE AcceptedId(arrived[count - 1])
        /\ Increasing(diag.lostAcceptedIds)
        /\ Range(diag.lostAcceptedIds) =
             IF count < 3 THEN {}
             ELSE 1 .. AcceptedId(arrived[2]) - 1
                  \cup {AcceptedId(n) : n \in Missing(arrived[2], arrived[count - 1])}

Packets == {Packet(arrived[i]) : i \in DOMAIN arrived}
PacketKept ==
    LET count == Len(arrived)
        known == diag.fNetworkPacketNumber
    IN  /\ known.middle = IF count < 1 THEN 0 ELSE Packet(arrived[count])
        /\ IF count < 2 THEN known.last = 0
           ELSE known.last \in Packets /\ known.last <= known.middle
        /\ \A p \in Packets : p <= known.last \/ p = known.middle
        /\ Increasing(diag.lostNetworkPackets)
        /\ Range(diag.lostNetworkPackets) =
             IF count < 2 THEN {} ELSE (Packet(arrived[1]) + 1 .. known.last) \ Packets

DiagInv ==
    /\ DiagTyped /\ EdgeSeen /\ ChannelKept /\ PacketKept
    /\ AcceptedIdsFit => AcceptedKept

-----------------------------------------------------------------------------
(* Sequences of ids                                                        *)

LEMMA JoinedIds ==
    ASSUME NEW s \in Seq(Nat), NEW t \in Seq(Nat)
    PROVE  /\ s \o t \in Seq(Nat)
           /\ Len(s) \in Nat /\ Len(t) \in Nat
           /\ DOMAIN s = 1 .. Len(s) /\ DOMAIN t = 1 .. Len(t)
           /\ DOMAIN (s \o t) = 1 .. (Len(s) + Len(t))
           /\ \A i \in 1 .. Len(s) : (s \o t)[i] = s[i]
           /\ \A i \in 1 .. Len(s) + Len(t) : i > Len(s) => (s \o t)[i] = t[i - Len(s)]
  OBVIOUS

\* Ids that follow on those of a sequence.
LEMMA IdsFollow ==
    ASSUME NEW s \in Seq(Nat), NEW t \in Seq(Nat), Increasing(s), Increasing(t),
           \A m \in Range(s), n \in Range(t) : m < n
    PROVE  /\ s \o t \in Seq(Nat) /\ Increasing(s \o t)
           /\ Range(s \o t) = Range(s) \cup Range(t)
<1> DEFINE u == s \o t
           k == Len(s)
           l == Len(t)
<1>1. /\ u \in Seq(Nat) /\ k \in Nat /\ l \in Nat
      /\ DOMAIN s = 1 .. k /\ DOMAIN t = 1 .. l
      /\ DOMAIN u = 1 .. (k + l)
      /\ \A i \in 1 .. k : u[i] = s[i]
      /\ \A i \in 1 .. k + l : i > k => u[i] = t[i - k]
  BY JoinedIds
<1> HIDE DEF u, k, l
<1>2. ASSUME NEW i \in DOMAIN u, NEW j \in DOMAIN u, i < j PROVE u[i] < u[j]
  <2>1. i \in Int /\ j \in Int /\ 1 <= i /\ i <= k + l /\ 1 <= j /\ j <= k + l
    BY <1>1
  <2>2. CASE j <= k
    <3>1. i \in DOMAIN s /\ j \in DOMAIN s /\ u[i] = s[i] /\ u[j] = s[j]
      BY <1>1, <1>2, <2>1, <2>2
    <3> QED
      BY <3>1, <1>2 DEF Increasing
  <2>3. CASE i <= k /\ j > k
    <3>1. i \in DOMAIN s /\ u[i] = s[i] /\ j - k \in DOMAIN t /\ u[j] = t[j - k]
      BY <1>1, <2>1, <2>3
    <3>2. u[i] \in Range(s) /\ u[j] \in Range(t)
      BY <3>1 DEF Range
    <3> QED
      BY <3>2
  <2>4. CASE i > k
    <3>1. i \in 1 .. k + l /\ j \in 1 .. k + l /\ j > k
      BY <1>1, <1>2, <2>1, <2>4
    <3>2. u[i] = t[i - k] /\ u[j] = t[j - k]
      BY <1>1, <2>4, <3>1
    <3>3. i - k \in DOMAIN t /\ j - k \in DOMAIN t /\ i - k < j - k
      BY <1>1, <1>2, <2>1, <2>4, <3>1
    <3> QED
      BY <3>2, <3>3 DEF Increasing
  <2> QED
    BY <1>1, <2>1, <2>2, <2>3, <2>4
<1>3. Increasing(u)
  BY <1>2 DEF Increasing
<1>4. Range(u) \subseteq Range(s) \cup Range(t)
  <2> SUFFICES ASSUME NEW i \in DOMAIN u PROVE u[i] \in Range(s) \cup Range(t)
    BY DEF Range
  <2>1. CASE i \in 1 .. k
    BY <1>1, <2>1 DEF Range
  <2>2. CASE i \notin 1 .. k
    <3>1. i \in 1 .. k + l /\ i > k
      BY <1>1, <2>2
    <3>2. i - k \in DOMAIN t /\ u[i] = t[i - k]
      BY <1>1, <3>1
    <3> QED
      BY <3>2 DEF Range
  <2> QED
    BY <2>1, <2>2
<1>5. Range(s) \subseteq Range(u)
  <2> SUFFICES ASSUME NEW i \in DOMAIN s PROVE s[i] \in Range(u)
    BY DEF Range
  <2>1. i \in DOMAIN u /\ u[i] = s[i]
    BY <1>1
  <2> QED
    BY <2>1 DEF Range
<1>6. Range(t) \subseteq Range(u)
  <2> SUFFICES ASSUME NEW i \in DOMAIN t PROVE t[i] \in Range(u)
    BY DEF Range
  <2>1. k + i \in DOMAIN u /\ k + i > k /\ (k + i) - k = i
    BY <1>1
  <2>2. u[k + i] = t[i]
    BY <1>1, <2>1
  <2> QED
    BY <2>1, <2>2 DEF Range
<1> QED
  BY <1>1, <1>3, <1>4, <1>5, <1>6 DEF u

LEMMA BetweenIs ==
    ASSUME NEW history \in IdPairs
    PROVE  /\ Between(history) \in Seq(Nat) /\ Increasing(Between(history))
           /\ Range(Between(history)) = history.last + 1 .. history.middle - 1
<1> DEFINE first == history.last
           last == history.middle
           s == Between(history)
<1>1. first \in Nat /\ last \in Nat
  BY DEF IdPairs
<1> HIDE DEF first, last
<1>2. s = [i \in 1 .. last - first - 1 |-> first + i]
  BY DEF Between, first, last
<1>3. DOMAIN s = 1 .. last - first - 1 /\ \A i \in DOMAIN s : s[i] = first + i
  BY <1>2
<1>4. s \in Seq(Nat)
  <2>1. CASE last > first
    <3>1. last - first - 1 \in Nat /\ \A i \in 1 .. last - first - 1 : first + i \in Nat
      BY <1>1, <2>1
    <3> DEFINE n == last - first - 1
    <3> HIDE DEF n
    <3>2. s = [i \in 1 .. n |-> first + i] /\ n \in Nat
          /\ \A i \in 1 .. n : first + i \in Nat
      BY <1>2, <3>1 DEF n
    <3> HIDE DEF s
    <3> QED
      BY <3>2
  <2>2. CASE ~ (last > first)
    <3>1. 1 .. last - first - 1 = {}
      BY <1>1, <2>2
    <3>2. s = [i \in {} |-> first + i]
      BY <1>2, <3>1
    <3>3. [i \in {} |-> first + i] \in Seq(Nat)
      <4>1. [i \in {} |-> first + i] = [i \in 1 .. 0 |-> 0]
        OBVIOUS
      <4> QED
        BY <4>1
    <3> QED
      BY <3>2, <3>3
  <2> QED
    BY <2>1, <2>2
<1> HIDE DEF s
<1>5. Increasing(s)
  BY <1>1, <1>3 DEF Increasing
<1>6. ASSUME NEW n PROVE n \in Range(s) <=> n \in first + 1 .. last - 1
  <2>1. ASSUME n \in Range(s) PROVE n \in first + 1 .. last - 1
    BY <1>1, <1>3, <2>1 DEF Range
  <2>2. ASSUME n \in first + 1 .. last - 1 PROVE n \in Range(s)
    <3>1. n - first \in DOMAIN s /\ s[n - first] = n
      BY <1>1, <1>3, <2>2
    <3> QED
      BY <3>1 DEF Range
  <2> QED
    BY <2>1, <2>2
<1> QED
  BY <1>4, <1>5, <1>6 DEF s, first, last

-----------------------------------------------------------------------------
(* Rollovers                                                               *)

LEMMA PlaceIs ==
    ASSUME NEW k \in Nat, NEW size \in Nat \ {0}, NEW r \in 0 .. size - 1
    PROVE  (k * size + r) % size = r
<1> DEFINE x == k * size + r
           d == x \div size
           m == x % size
<1>1. k * size \in Nat /\ x \in Nat
  OBVIOUS
<1>2. x = size * d + m /\ m \in 0 .. size - 1 /\ d \in Int
  BY <1>1
<1> HIDE DEF d, m
<1>3. k * size + r = size * d + m
  BY <1>2 DEF x
<1>4. (k - d) * size = m - r
  <2>1. (k - d) * size = k * size - size * d
    BY <1>2
  <2>2. size * d \in Int /\ k * size \in Int /\ m \in Int /\ r \in Int
    BY <1>1, <1>2
  <2> HIDE DEF x
  <2> QED
    BY <1>3, <2>1, <2>2
<1> DEFINE e == k - d
<1>5. e \in Int
  BY <1>2
<1>6. e * size = m - r
  BY <1>4
<1> HIDE DEF e
<1>7. e = 0
  <2>1. ASSUME e >= 1 PROVE FALSE
    <3>1. e - 1 \in Nat /\ (e - 1) * size \in Nat
      BY <1>5, <2>1
    <3>2. e * size = (e - 1) * size + size
      BY <1>5
    <3> QED
      BY <1>2, <1>6, <3>1, <3>2
  <2>2. ASSUME e <= -1 PROVE FALSE
    <3>1. 0 - 1 - e \in Nat /\ (0 - 1 - e) * size \in Nat
      BY <1>5, <2>2
    <3>2. e * size = 0 - size - (0 - 1 - e) * size
      BY <1>5
    <3> QED
      BY <1>2, <1>6, <3>1, <3>2
  <2> QED
    BY <1>5, <2>1, <2>2
<1>8. m = r
  BY <1>2, <1>6, <1>7
<1> QED
  BY <1>8 DEF m, x

LEMMA RolledIs ==
    ASSUME NEW d \in Diags, NEW id
    PROVE  /\ Rolled(d, id) \in Diags
           /\ \A f \in DiagFields \ {"fRolling", "fRollnum", "fNofRollovers"} :
                  Rolled(d, id)[f] = d[f]
           /\ LET counted == \/ ~d.fRolling /\ id > AcceptedMax - RollingThreshold
                             \/ /\ d.fRolling
                                /\ id > RollingThreshold
                                /\ id < AcceptedMax \div 2
                  turns == counted /\ d.fRollnum + 1 > RollnumThreshold
              IN  d.fRollnum <= RollnumThreshold =>
                  /\ Rolled(d, id).fRolling = (IF turns THEN ~ d.fRolling ELSE d.fRolling)
                  /\ Rolled(d, id).fRollnum =
                        IF turns THEN 0 ELSE IF counted THEN d.fRollnum + 1 ELSE d.fRollnum
                  /\ Rolled(d, id).fNofRollovers =
                        IF turns /\ d.fRolling THEN d.fNofRollovers + 1 ELSE d.fNofRollovers
<1> DEFINE counted == \/ ~d.fRolling /\ id > AcceptedMax - RollingThreshold
                      \/ /\ d.fRolling
                         /\ id > RollingThreshold
                         /\ id < AcceptedMax \div 2
           seen == IF counted THEN d.fRollnum + 1 ELSE d.fRollnum
           turns == seen > RollnumThreshold
           rolling == IF turns THEN ~d.fRolling ELSE d.fRolling
           number == IF turns THEN 0 ELSE seen
           rollovers == IF turns /\ d.fRolling THEN d.fNofRollovers + 1 ELSE d.fNofRollovers
<1>1. d.fRollnum \in Nat /\ d.fNofRollovers \in Nat /\ d.fRolling \in BOOLEAN
      /\ RollnumThreshold \in Nat
  BY DiagAssumption DEF Diags, DiagFields
<1>2. Rolled(d, id) = [d EXCEPT !.fRollnum = number, !.fRolling = rolling,
                               !.fNofRollovers = rollovers]
  BY DEF Rolled
<1> HIDE DEF counted
<1>3. seen \in Nat
  BY <1>1
<1>4. d.fRollnum <= RollnumThreshold =>
        (turns <=> counted /\ d.fRollnum + 1 > RollnumThreshold)
  BY <1>1
<1> HIDE DEF turns, seen
<1>7. rolling \in BOOLEAN
  BY <1>1
<1>8. number \in Nat /\ rollovers \in Nat
  BY <1>1, <1>3
<1> HIDE DEF rolling, number, rollovers
<1>5. /\ Rolled(d, id) \in Diags
      /\ Rolled(d, id).fRolling = rolling /\ Rolled(d, id).fRollnum = number
      /\ Rolled(d, id).fNofRollovers = rollovers
  BY <1>2, <1>7, <1>8 DEF Diags, DiagFields
<1>6. ASSUME NEW f \in DiagFields \ {"fRolling", "fRollnum", "fNofRollovers"}
      PROVE  Rolled(d, id)[f] = d[f]
  BY <1>2 DEF Diags, DiagFields
<1> QED
  BY <1>4, <1>5, <1>6 DEF counted, seen, turns, rolling, number, rollovers

LEMMA HalfIs ==
    LET half == AcceptedMax \div 2
    IN  half \in Nat /\ 2 * RollingThreshold <= half /\ half <= AcceptedMax - RollingThreshold
<1> DEFINE half == AcceptedMax \div 2
           rest == AcceptedMax % 2
<1>1. AcceptedMax = 2 * half + rest /\ half \in Int /\ rest \in 0 .. 1
  BY DiagAssumption
<1> HIDE DEF half, rest
<1>2. AcceptedMax \in Nat /\ RollingThreshold \in Nat /\ 4 * RollingThreshold <= AcceptedMax
  BY DiagAssumption
<1>3. half \in Nat /\ 2 * RollingThreshold <= half /\ half <= AcceptedMax - RollingThreshold
  BY <1>1, <1>2
<1> QED
  BY <1>3 DEF half

\* The accepted id that the code makes of the one it is given is the one it
\* was before it was taken modulo AcceptedMax, and the invariant goes on.
LEMMA EdgeArrive ==
    ASSUME DiagTyped, EdgeSeen
    PROVE  LET id == AcceptedId(hits.next) % AcceptedMax
               d == Rolled(diag, id)
               place == AcceptedId(hits.next) + 1 - d.fNofRollovers * AcceptedMax
               passed == place - (IF d.fRolling THEN AcceptedMax + RollingThreshold + 1
                                  ELSE AcceptedMax - RollingThreshold + 1)
           IN  /\ Unrolled(d, id) = AcceptedId(hits.next) % IdRange
               /\ IF d.fRolling THEN place > AcceptedMax - RollingThreshold ELSE place >= 0
               /\ d.fRollnum <= RollnumThreshold
               /\ passed <= d.fRollnum + Gap
               /\ sinceGap + 1 <= d.fRollnum \/ passed <= d.fRollnum
<1> DEFINE M == AcceptedMax
           T == RollingThreshold
           R == RollnumThreshold
           k == diag.fNofRollovers
           c == diag.fRollnum
           p == NextPlace
           n == AcceptedId(hits.next)
           id == n % M
           d == Rolled(diag, id)
           half == M \div 2
           counted == \/ ~diag.fRolling /\ id > M - T
                      \/ /\ diag.fRolling
                         /\ id > T
                         /\ id < half
           turns == counted /\ c + 1 > R
<1>1. /\ M \in Nat /\ T \in Nat /\ R \in Nat /\ Gap \in Nat /\ 4 * T <= M
      /\ R + Gap + 1 < T /\ M # 0 /\ M \in Nat \ {0}
  BY DiagAssumption
<1>2. /\ k \in Nat /\ c \in Nat /\ diag.fRolling \in BOOLEAN /\ n \in Nat /\ sinceGap \in Nat
      /\ diag \in Diags
  BY DiagAssumption DEF DiagTyped, Diags, AcceptedId
<1>3. p = n - k * M /\ k * M \in Nat /\ p \in Int
  <2>1. k * M \in Nat
    BY <1>1, <1>2
  <2> QED
    BY <2>1, <1>2 DEF NextPlace
<1>4. /\ IF diag.fRolling THEN p > M - T ELSE p >= 0
      /\ c <= R
      /\ p - (IF diag.fRolling THEN M + T + 1 ELSE M - T + 1) <= c + Gap
      /\ \/ sinceGap <= c
         \/ p - (IF diag.fRolling THEN M + T + 1 ELSE M - T + 1) <= c
  BY DEF EdgeSeen, Passed
<1>5. half \in Nat /\ 2 * T <= half /\ half <= M - T
  BY HalfIs
<1>6. /\ d.fRolling = (IF turns THEN ~ diag.fRolling ELSE diag.fRolling)
      /\ d.fRollnum = IF turns THEN 0 ELSE IF counted THEN c + 1 ELSE c
      /\ d.fNofRollovers = IF turns /\ diag.fRolling THEN k + 1 ELSE k
  <2> HIDE DEF id
  <2> QED
    BY <1>2, <1>4, RolledIs
<1> HIDE DEF M, T, R, k, c, p, n, d, half
<1>7. ASSUME diag.fRolling /\ p >= M PROVE id = p - M /\ p - M < 2 * T /\ p - M >= 0
  <2>1. p - M \in 0 .. M - 1 /\ p - M < 2 * T
    BY <1>7, <1>1, <1>2, <1>3, <1>4
  <2>2. n = (k + 1) * M + (p - M)
    BY <1>1, <1>2, <1>3
  <2>3. k + 1 \in Nat
    BY <1>2
  <2>4. id = p - M
    BY <2>1, <2>2, <2>3, <1>1, PlaceIs
  <2> QED
    BY <2>1, <2>4
<1>15. ASSUME ~ (diag.fRolling /\ p >= M) PROVE id = p /\ p < M /\ p >= 0
  <2>3. n = k * M + p
    BY <1>1, <1>2, <1>3
  <2>4. p \in 0 .. M - 1 => id = p
    BY <2>3, <1>1, <1>2, PlaceIs
  <2>1. CASE diag.fRolling
    <3>1. p > M - T /\ p < M
      BY <1>15, <2>1, <1>1, <1>3, <1>4
    <3> QED
      BY <3>1, <1>1, <1>3, <2>4
  <2>2. CASE ~diag.fRolling
    <3>1. p >= 0 /\ p - (M - T + 1) <= c + Gap /\ c <= R
      BY <2>2, <1>4
    <3> QED
      BY <3>1, <1>1, <1>2, <1>3, <2>4
  <2> QED
    BY <2>1, <2>2
<1> HIDE DEF id
<1>8. (k + 1) * M = k * M + M
  BY <1>1, <1>2
<1> DEFINE B == k * M
<1>9. B \in Nat /\ p = n - B
  BY <1>3
<1>10. d.fNofRollovers * M = IF turns /\ diag.fRolling THEN B + M ELSE B
  BY <1>6, <1>8
<1> DEFINE e == d.fNofRollovers * M
<1> DEFINE sum == id + e + IF d.fRolling /\ id < T * 2 THEN M ELSE 0
<1>11. /\ d.fRolling /\ id < T * 2 => sum = id + e + M
       /\ ~ (d.fRolling /\ id < T * 2) => sum = id + e + 0
  OBVIOUS
<1>17. Unrolled(d, id) = sum % IdRange
  BY DEF Unrolled, e, M, T
<1> HIDE DEF B, e, sum
<1>12. e = IF turns /\ diag.fRolling THEN B + M ELSE B
  BY <1>10 DEF e
<1> DEFINE place == n + 1 - e
           start == IF d.fRolling THEN M + T + 1 ELSE M - T + 1
           Good == /\ sum = n
                   /\ IF d.fRolling THEN place > M - T ELSE place >= 0
                   /\ d.fRollnum <= R
                   /\ place - start <= d.fRollnum + Gap
                   /\ sinceGap + 1 <= d.fRollnum \/ place - start <= d.fRollnum
<1>16. SUFFICES Good
  <2>1. Good => Unrolled(d, id) = n % IdRange
    BY <1>17
  <2> QED
    BY <2>1 DEF M, T, R, n, d, e, id
<1>13. CASE ~diag.fRolling
  <2>1. counted <=> p > M - T
    BY <1>13, <1>15
  <2>2. e = B /\ id = p /\ p < M /\ p >= 0
    BY <1>13, <1>15, <1>12
  <2>3. CASE turns
    <3>1. d.fRolling /\ d.fRollnum = 0 /\ p > M - T
      BY <1>13, <2>1, <2>3, <1>6
    <3>2. ~ (id < T * 2)
      BY <3>1, <2>2, <1>1, <1>3
    <3>3. sum = n
      BY <3>1, <3>2, <2>2, <1>11, <1>1, <1>2, <1>3, <1>9
    <3>4. place > M - T /\ place - (M + T + 1) <= 0 /\ place \in Int
      BY <2>2, <3>1, <1>1, <1>2, <1>3, <1>9
    <3>5. start = M + T + 1
      BY <3>1
    <3> HIDE DEF place, start
    <3> QED
      BY <3>1, <3>3, <3>4, <3>5, <1>1
  <2>4. CASE ~turns
    <3>1. ~d.fRolling /\ d.fRollnum = (IF p > M - T THEN c + 1 ELSE c)
      BY <1>13, <2>1, <2>4, <1>6
    <3>2. sum = n
      BY <3>1, <2>2, <1>11, <1>1, <1>2, <1>3, <1>9
    <3>3. start = M - T + 1
      BY <3>1
    <3>4. place = p + 1
      BY <2>2, <1>2, <1>3, <1>9
    <3>5. p > M - T => c + 1 <= R
      BY <2>1, <2>4, <1>1, <1>2
    <3>6. p - (M - T + 1) <= c + Gap /\ (sinceGap <= c \/ p - (M - T + 1) <= c) /\ c <= R
      BY <1>4, <1>13
    <3> HIDE DEF place, start
    <3>7. CASE p > M - T
      BY <3>1, <3>2, <3>3, <3>4, <3>5, <3>6, <3>7, <2>2, <1>1, <1>2, <1>3
    <3>8. CASE ~ (p > M - T)
      BY <3>1, <3>2, <3>3, <3>4, <3>6, <3>8, <2>2, <1>1, <1>2, <1>3
    <3> QED
      BY <3>7, <3>8
  <2> QED
    BY <2>3, <2>4
<1>14. CASE diag.fRolling
  <2>1. p > M - T /\ c <= R /\ p - (M + T + 1) <= c + Gap
        /\ (sinceGap <= c \/ p - (M + T + 1) <= c)
    BY <1>4, <1>14
  <2>2. CASE p < M
    <3>1. id = p
      BY <1>15, <2>2, <1>1, <1>3
    <3>2. ~ counted
      BY <3>1, <2>1, <1>1, <1>3, <1>5, <1>14
    <3>3. d.fRolling /\ d.fRollnum = c /\ e = B
      BY <3>2, <1>6, <1>12, <1>14
    <3>4. ~ (id < T * 2)
      BY <3>1, <2>1, <1>1, <1>3
    <3>5. sum = n
      BY <3>1, <3>3, <3>4, <1>11, <1>2, <1>3, <1>9
    <3>6. place = p + 1 /\ start = M + T + 1
      BY <3>3, <1>2, <1>3, <1>9
    <3> HIDE DEF place, start
    <3> QED
      BY <3>3, <3>5, <3>6, <2>1, <2>2, <1>1, <1>2, <1>3
  <2>3. CASE ~ (p < M)
    <3>1. id = p - M /\ p - M < 2 * T /\ p - M >= 0
      BY <1>7, <2>3, <1>1, <1>3, <1>14
    <3>2. counted <=> p - M > T
      BY <3>1, <1>1, <1>3, <1>5, <1>14
    <3>3. CASE turns
      <4>1. ~d.fRolling /\ d.fRollnum = 0 /\ e = B + M
        BY <3>3, <1>6, <1>12, <1>14
      <4>2. sum = n
        BY <3>1, <4>1, <1>1, <1>11, <1>2, <1>3, <1>9
      <4>3. place = p - M + 1 /\ start = M - T + 1
        BY <4>1, <1>1, <1>2, <1>3, <1>9
      <4> HIDE DEF place, start
      <4> QED
        BY <4>1, <4>2, <4>3, <3>1, <1>1, <1>2, <1>3
    <3>4. CASE ~turns
      <4>1. d.fRolling /\ d.fRollnum = (IF p - M > T THEN c + 1 ELSE c) /\ e = B
        BY <3>2, <3>4, <1>6, <1>12, <1>14
      <4>2. id < T * 2
        BY <3>1, <1>1, <1>3
      <4>3. sum = n
        BY <3>1, <4>1, <4>2, <1>1, <1>11, <1>2, <1>3, <1>9
      <4>4. place = p + 1 /\ start = M + T + 1
        BY <4>1, <1>2, <1>3, <1>9
      <4>5. p - M > T => c + 1 <= R
        BY <3>2, <3>4, <1>1, <1>2
      <4> HIDE DEF place, start
      <4>6. CASE p - M > T
        BY <4>1, <4>3, <4>4, <4>5, <4>6, <2>1, <3>1, <1>1, <1>2, <1>3
      <4>7. CASE ~ (p - M > T)
        BY <4>1, <4>3, <4>4, <4>7, <2>1, <3>1, <1>1, <1>2, <1>3
      <4> QED
        BY <4>6, <4>7
    <3> QED
      BY <3>3, <3>4
  <2> QED
    BY <2>2, <2>3
<1> QED
  BY <1>2, <1>13, <1>14

-----------------------------------------------------------------------------
(* What Process keeps                                                      *)

LEMMA NetworkPacketIs ==
    ASSUME NEW d \in Diags, NEW packet \in Nat
    PROVE  LET e == NetworkPacket(d, packet)
               known == d.fNetworkPacketNumber
               higher == known.middle < packet
           IN  /\ e \in Diags
               /\ \A f \in DiagFields \ {"fNetworkPacketNumber", "lostNetworkPackets"} :
                      e[f] = d[f]
               /\ e.fNetworkPacketNumber.middle = packet
               /\ e.fNetworkPacketNumber.last =
                      IF known.last = 0 \/ higher THEN known.middle ELSE known.last
               /\ e.lostNetworkPackets =
                      IF known.last # 0 /\ higher
                      THEN d.lostNetworkPackets \o Between(known)
                      ELSE d.lostNetworkPackets
<1> DEFINE known == d.fNetworkPacketNumber
           e == NetworkPacket(d, packet)
<1>1. known \in IdPairs /\ Shifted(known, packet) \in IdPairs
      /\ Shifted(known, packet).last = known.middle /\ Shifted(known, packet).middle = packet
  BY DEF Diags, DiagFields, IdPairs, Shifted
<1>2. d.lostNetworkPackets \o Between(known) \in Seq(Nat)
  BY <1>1, BetweenIs DEF Diags, DiagFields
<1>3. CASE known.last = 0
  <2>1. e = [d EXCEPT !.fNetworkPacketNumber = Shifted(known, packet)]
    BY <1>3 DEF NetworkPacket
  <2> HIDE DEF e, known
  <2> QED
    BY <1>1, <1>3, <2>1 DEF Diags, DiagFields, e, known
<1>4. CASE known.last # 0 /\ known.middle < packet
  <2>1. e = [d EXCEPT !.fNetworkPacketNumber = Shifted(known, packet),
                      !.lostNetworkPackets = d.lostNetworkPackets \o Between(known)]
    BY <1>4 DEF NetworkPacket
  <2> QED
    BY <1>1, <1>2, <1>4, <2>1 DEF Diags, DiagFields
<1>5. CASE known.last # 0 /\ ~ (known.middle < packet)
  <2>1. e = [d EXCEPT !.fNetworkPacketNumber = [known EXCEPT !.middle = packet]]
    BY <1>5 DEF NetworkPacket
  <2>2. /\ [known EXCEPT !.middle = packet] \in IdPairs
        /\ [known EXCEPT !.middle = packet].last = known.last
        /\ [known EXCEPT !.middle = packet].middle = packet
    BY <1>1 DEF IdPairs
  <2> QED
    BY <1>1, <1>5, <2>1, <2>2 DEF Diags, DiagFields
<1> QED
  BY <1>3, <1>4, <1>5

LEMMA ChannelIdsIs ==
    ASSUME NEW d \in Diags, NEW id \in Nat, NEW timeStamp \in Nat
    PROVE  LET e == ChannelIds(d, id, timeStamp)
               known == d.fChannelIds
               shifts == known.last = 0 \/ Reasonable(known, id)
           IN  /\ e \in Diags
               /\ \A f \in DiagFields \ {"fChannelIds", "fTimeStamps", "lostChannelIds"} :
                      e[f] = d[f]
               /\ e.fChannelIds.middle = id /\ e.fTimeStamps.middle = timeStamp
               /\ e.fChannelIds.last = IF shifts THEN known.middle ELSE known.last
               /\ e.fTimeStamps.last = IF shifts THEN d.fTimeStamps.middle
                                       ELSE d.fTimeStamps.last
               /\ e.lostChannelIds = IF known.last # 0 /\ shifts
                                     THEN d.lostChannelIds \o Between(known)
                                     ELSE d.lostChannelIds
<1> DEFINE known == d.fChannelIds
           times == d.fTimeStamps
           shifts == known.last = 0 \/ Reasonable(known, id)
           e == ChannelIds(d, id, timeStamp)
           lost == IF known.last # 0 THEN d.lostChannelIds \o Between(known)
                   ELSE d.lostChannelIds
<1>1. /\ known \in IdPairs /\ Shifted(known, id) \in IdPairs
      /\ Shifted(known, id).last = known.middle /\ Shifted(known, id).middle = id
      /\ times \in IdPairs /\ Shifted(times, timeStamp) \in IdPairs
      /\ Shifted(times, timeStamp).last = times.middle
      /\ Shifted(times, timeStamp).middle = timeStamp
  BY DEF Diags, DiagFields, IdPairs, Shifted
<1>2. lost \in Seq(Nat)
  BY <1>1, BetweenIs DEF Diags, DiagFields
<1> HIDE DEF shifts
<1>3. CASE shifts
  <2>1. e = [d EXCEPT !.fChannelIds = Shifted(known, id),
                      !.fTimeStamps = Shifted(times, timeStamp),
                      !.lostChannelIds = lost]
    BY <1>3 DEF ChannelIds, shifts
  <2> HIDE DEF lost
  <2>2. /\ e \in Diags
        /\ \A f \in DiagFields \ {"fChannelIds", "fTimeStamps", "lostChannelIds"} : e[f] = d[f]
        /\ e.fChannelIds = Shifted(known, id) /\ e.fTimeStamps = Shifted(times, timeStamp)
        /\ e.lostChannelIds = lost
    BY <1>1, <1>2, <2>1 DEF Diags, DiagFields
  <2> HIDE DEF e
  <2> QED
    BY <1>1, <1>3, <2>2 DEF lost, shifts, e
<1>4. CASE ~shifts
  <2> DEFINE newKnown == [known EXCEPT !.middle = id]
             newTimes == [times EXCEPT !.middle = timeStamp]
  <2>1. e = [d EXCEPT !.fChannelIds = newKnown, !.fTimeStamps = newTimes]
    BY <1>4 DEF ChannelIds, shifts
  <2>2. /\ newKnown \in IdPairs /\ newKnown.last = known.last /\ newKnown.middle = id
        /\ newTimes \in IdPairs /\ newTimes.last = times.last /\ newTimes.middle = timeStamp
    BY <1>1 DEF IdPairs
  <2> HIDE DEF newKnown, newTimes
  <2>3. /\ e \in Diags
        /\ \A f \in DiagFields \ {"fChannelIds", "fTimeStamps", "lostChannelIds"} : e[f] = d[f]
        /\ e.fChannelIds = newKnown /\ e.fTimeStamps = newTimes
        /\ e.lostChannelIds = d.lostChannelIds
    BY <2>1, <2>2 DEF Diags, DiagFields
  <2> HIDE DEF e
  <2> QED
    BY <1>4, <2>2, <2>3 DEF shifts, e
<1> QED
  BY <1>3, <1>4

LEMMA AcceptedIdsIs ==
    ASSUME NEW d \in Diags, NEW id \in Nat
    PROVE  LET e == AcceptedIds(d, id)
               known == d.fAcceptedChannelIds
               begun == d.fTimeStamps.last # 0
               shifts == Reasonable(known, id)
           IN  /\ e \in Diags
               /\ \A f \in DiagFields \ {"fAcceptedChannelIds", "lostAcceptedIds"} : e[f] = d[f]
               /\ ~ begun => e = d
               /\ begun => /\ e.fAcceptedChannelIds.middle = id
                           /\ e.fAcceptedChannelIds.last = IF shifts THEN known.middle
                                                           ELSE known.last
                           /\ e.lostAcceptedIds = IF shifts
                                                  THEN d.lostAcceptedIds \o Between(known)
                                                  ELSE d.lostAcceptedIds
<1> DEFINE known == d.fAcceptedChannelIds
           e == AcceptedIds(d, id)
           lost == d.lostAcceptedIds \o Between(known)
<1>1. /\ known \in IdPairs /\ Shifted(known, id) \in IdPairs
      /\ Shifted(known, id).last = known.middle /\ Shifted(known, id).middle = id
  BY DEF Diags, DiagFields, IdPairs, Shifted
<1>2. lost \in Seq(Nat)
  BY <1>1, BetweenIs DEF Diags, DiagFields
<1>3. CASE d.fTimeStamps.last = 0
  BY <1>3 DEF AcceptedIds
<1>4. CASE d.fTimeStamps.last # 0 /\ Reasonable(known, id)
  <2>1. e = [d EXCEPT !.fAcceptedChannelIds = Shifted(known, id), !.lostAcceptedIds = lost]
    BY <1>4 DEF AcceptedIds
  <2> HIDE DEF lost
  <2>2. /\ e \in Diags
        /\ \A f \in DiagFields \ {"fAcceptedChannelIds", "lostAcceptedIds"} : e[f] = d[f]
        /\ e.fAcceptedChannelIds = Shifted(known, id) /\ e.lostAcceptedIds = lost
    BY <1>1, <1>2, <2>1 DEF Diags, DiagFields
  <2> HIDE DEF e
  <2> QED
    BY <1>1, <1>4, <2>2 DEF lost, e
<1>5. CASE d.fTimeStamps.last # 0 /\ ~ Reasonable(known, id)
  <2> DEFINE newKnown == [known EXCEPT !.middle = id]
  <2>1. e = [d EXCEPT !.fAcceptedChannelIds = newKnown]
    BY <1>5 DEF AcceptedIds
  <2>2. newKnown \in IdPairs /\ newKnown.last = known.last /\ newKnown.middle = id
    BY <1>1 DEF IdPairs
  <2> HIDE DEF newKnown
  <2>3. /\ e \in Diags
        /\ \A f \in DiagFields \ {"fAcceptedChannelIds", "lostAcceptedIds"} : e[f] = d[f]
        /\ e.fAcceptedChannelIds = newKnown /\ e.lostAcceptedIds = d.lostAcceptedIds
    BY <2>1, <2>2 DEF Diags, DiagFields
  <2> HIDE DEF e
  <2> QED
    BY <1>5, <2>2, <2>3 DEF e
<1> QED
  BY <1>3, <1>4, <1>5

-----------------------------------------------------------------------------
(* Lists of what is missing                                                *)

\* The hits between two that are not in s.
MissingOf(s, from, to) == {n \in from + 1 .. to - 1 : n \notin Range(s)}
IdsOf(base, S) == {base + n : n \in S}

LEMMA OneMoreHit ==
    ASSUME NEW s \in Seq(Nat), Increasing(s), NEW n \in Nat,
           \A i \in 1 .. Len(s) : s[i] < n
    PROVE  /\ Append(s, n) \in Seq(Nat) /\ Increasing(Append(s, n))
           /\ Range(Append(s, n)) = Range(s) \cup {n}
<1> DEFINE t == Append(s, n)
           c == Len(s)
<1>1. /\ t \in Seq(Nat) /\ c \in Nat /\ DOMAIN t = 1 .. c + 1 /\ DOMAIN s = 1 .. c
      /\ \A i \in 1 .. c : t[i] = s[i]
      /\ t[c + 1] = n
  BY AppendOf
<1> HIDE DEF t, c
<1>2. ASSUME NEW i \in DOMAIN t, NEW j \in DOMAIN t, i < j PROVE t[i] < t[j]
  <2>1. i \in 1 .. c /\ t[i] = s[i] /\ i \in DOMAIN s
    BY <1>1, <1>2
  <2>2. CASE j = c + 1
    BY <2>1, <2>2, <1>1 DEF c
  <2>3. CASE j # c + 1
    <3>1. j \in DOMAIN s /\ t[j] = s[j]
      BY <1>1, <2>3
    <3> QED
      BY <2>1, <3>1, <1>2 DEF Increasing
  <2> QED
    BY <2>2, <2>3
<1>3. Increasing(t)
  BY <1>2 DEF Increasing
<1>4. Range(t) = Range(s) \cup {n}
  <2>1. DOMAIN t = DOMAIN s \cup {c + 1}
    BY <1>1
  <2> QED
    BY <1>1, <2>1 DEF Range
<1> QED
  BY <1>1, <1>3, <1>4 DEF t

LEMMA NoHitMissing ==
    ASSUME NEW s, NEW m \in Nat
    PROVE  MissingOf(s, m, m) = {}
  BY DEF MissingOf

\* The hits that are missing before the last are those before the one
\* before it, and all between the two.
LEMMA MissingGrows ==
    ASSUME NEW s \in Seq(Nat), Increasing(s), NEW n \in Nat,
           \A i \in 1 .. Len(s) : s[i] < n,
           NEW f \in 1 .. Len(s) - 1
    PROVE  MissingOf(Append(s, n), s[f], s[Len(s)]) =
             MissingOf(s, s[f], s[Len(s) - 1]) \cup (s[Len(s) - 1] + 1 .. s[Len(s)] - 1)
<1> DEFINE c == Len(s)
           a == s[f]
           b == s[c - 1]
           d == s[c]
<1>1. /\ c \in Nat /\ DOMAIN s = 1 .. c /\ f \in 1 .. c - 1 /\ c >= 2
      /\ \A i \in 1 .. c : s[i] \in Nat /\ s[i] < n
  OBVIOUS
<1> HIDE DEF c
<1>2. /\ a \in Nat /\ b \in Nat /\ d \in Nat /\ b < d /\ a <= b /\ d < n
      /\ b \in Range(s)
  <2>1. c - 1 \in 1 .. c /\ c \in 1 .. c /\ f \in 1 .. c /\ c - 1 < c
    BY <1>1
  <2>2. f = c - 1 \/ f < c - 1
    BY <1>1
  <2>3. a \in Nat /\ b \in Nat /\ d \in Nat /\ d < n /\ b \in Range(s)
    BY <1>1, <2>1 DEF Range
  <2>4. b < d
    BY <1>1, <2>1 DEF Increasing
  <2>5. a <= b
    <3>1. CASE f = c - 1
      BY <3>1, <2>3
    <3>2. CASE f < c - 1
      <4>1. s[f] < s[c - 1]
        BY <3>2, <1>1, <2>1 DEF Increasing
      <4> QED
        BY <4>1, <2>3
    <3> QED
      BY <2>2, <3>1, <3>2
  <2> QED
    BY <2>3, <2>4, <2>5
<1>3. ASSUME NEW m \in Nat, b < m, m < d PROVE m \notin Range(s)
  <2> SUFFICES ASSUME NEW i \in 1 .. c, s[i] = m PROVE FALSE
    BY <1>1 DEF Range
  <2>1. i <= c - 1 \/ i = c
    BY <1>1
  <2>2. CASE i = c
    BY <2>2, <1>3
  <2>3. CASE i < c - 1
    <3>2. i \in DOMAIN s /\ c - 1 \in DOMAIN s
      BY <1>1
    <3>1. s[i] < s[c - 1]
      BY <2>3, <3>2 DEF Increasing
    <3> QED
      BY <3>1, <1>2, <1>3
  <2>4. CASE i = c - 1
    BY <2>4, <1>2, <1>3
  <2> QED
    BY <2>1, <2>2, <2>3, <2>4, <1>1
<1>4. Range(Append(s, n)) = Range(s) \cup {n}
  BY OneMoreHit
<1> HIDE DEF a, b, d
<1>5. ASSUME NEW m
      PROVE  m \in MissingOf(Append(s, n), a, d) <=>
               m \in MissingOf(s, a, b) \cup (b + 1 .. d - 1)
  <2>1. m \in MissingOf(Append(s, n), a, d) <=> m \in a + 1 .. d - 1 /\ m \notin Range(s)
    BY <1>2, <1>4 DEF MissingOf
  <2>2. m \in MissingOf(s, a, b) <=> m \in a + 1 .. b - 1 /\ m \notin Range(s)
    BY DEF MissingOf
  <2>3. m \in a + 1 .. d - 1 <=>
          \/ m \in a + 1 .. b - 1
          \/ m \in b + 1 .. d - 1
          \/ m = b /\ m \in a + 1 .. d - 1
    BY <1>2
  <2>4. m \in b + 1 .. d - 1 => m \notin Range(s)
    BY <1>2, <1>3
  <2> QED
    BY <1>2, <2>1, <2>2, <2>3, <2>4
<1> QED
  BY <1>5 DEF a, b, c, d

\* A list of lost ids reaches the last hit but one, and the history has the
\* last two.
ListSoFar(s, n, f, base, lost, L, history) ==
    /\ s \in Seq(Nat) /\ Increasing(s) /\ n \in Nat
    /\ \A i \in 1 .. Len(s) : s[i] < n
    /\ f \in 1 .. Len(s) - 1 /\ base \in Nat
    /\ lost \in Seq(Nat) /\ Increasing(lost)
    /\ L \in SUBSET Nat /\ \A id \in L : id < base + s[f]
    /\ Range(lost) = L \cup IdsOf(base, MissingOf(s, s[f], s[Len(s) - 1]))
    /\ history \in IdPairs
    /\ history.last = base + s[Len(s) - 1] /\ history.middle = base + s[Len(s)]

\* It is extended by the ids between these.
LEMMA ListExtended ==
    ASSUME NEW s, NEW n, NEW f, NEW base, NEW lost, NEW L, NEW history,
           ListSoFar(s, n, f, base, lost, L, history)
    PROVE  /\ lost \o Between(history) \in Seq(Nat)
           /\ Increasing(lost \o Between(history))
           /\ Range(lost \o Between(history)) =
                L \cup IdsOf(base, MissingOf(Append(s, n), s[f], s[Len(s)]))
<1> USE DEF ListSoFar
<1> DEFINE c == Len(s)
           a == s[f]
           b == s[c - 1]
           d == s[c]
           before == MissingOf(s, a, b)
<1>1. /\ a \in Nat /\ b \in Nat /\ d \in Nat /\ a <= b
  <2>4. /\ c \in Nat /\ DOMAIN s = 1 .. c /\ f \in 1 .. c - 1
        /\ \A i \in 1 .. c : s[i] \in Nat
    OBVIOUS
  <2> HIDE DEF c
  <2>1. DOMAIN s = 1 .. c /\ c - 1 \in 1 .. c /\ c \in 1 .. c /\ f \in 1 .. c
    BY <2>4
  <2>2. f = c - 1 \/ f < c - 1
    BY <2>4
  <2>3. a \in Nat /\ b \in Nat /\ d \in Nat
    BY <2>1, <2>4
  <2>5. CASE f = c - 1
    BY <2>3, <2>5
  <2>6. CASE f < c - 1
    <3>1. s[f] < s[c - 1]
      BY <2>1, <2>6 DEF Increasing
    <3> QED
      BY <2>3, <3>1
  <2> QED
    BY <2>2, <2>5, <2>6
<1>2. MissingOf(Append(s, n), a, d) = before \cup (b + 1 .. d - 1)
  BY MissingGrows
<1>3. /\ Between(history) \in Seq(Nat) /\ Increasing(Between(history))
      /\ Range(Between(history)) = base + b + 1 .. base + d - 1
  <2>1. history.last = base + b /\ history.middle = base + d
    OBVIOUS
  <2>2. /\ Between(history) \in Seq(Nat) /\ Increasing(Between(history))
        /\ Range(Between(history)) = history.last + 1 .. history.middle - 1
    BY BetweenIs
  <2>3. history.last + 1 = base + b + 1 /\ history.middle - 1 = base + d - 1
    BY <2>1
  <2> HIDE DEF b, d
  <2>4. history.last + 1 .. history.middle - 1 = base + b + 1 .. base + d - 1
    BY <2>3
  <2> QED
    BY <2>2, <2>4
<1>4. \A m \in before : m \in Nat /\ m < b
  <2>1. before \subseteq a + 1 .. b - 1
    BY DEF MissingOf
  <2> HIDE DEF a, b, before
  <2> QED
    BY <2>1, <1>1
<1>5. Range(lost) = L \cup IdsOf(base, before) /\ \A id \in L : id < base + a
  OBVIOUS
<1> HIDE DEF a, b, c, d, before
<1>6. \A x \in Range(lost), y \in Range(Between(history)) : x < y
  <2> SUFFICES ASSUME NEW x \in Range(lost), NEW y \in base + b + 1 .. base + d - 1
               PROVE  x < y
    BY <1>3
  <2>1. y > base + b
    BY <1>1
  <2>2. CASE x \in L
    BY <2>1, <2>2, <1>1, <1>5
  <2>3. CASE x \in IdsOf(base, before)
    <3>1. PICK m \in before : x = base + m
      BY <2>3 DEF IdsOf
    <3> QED
      BY <3>1, <2>1, <1>1, <1>4
  <2> QED
    BY <2>2, <2>3, <1>5
<1>7. IdsOf(base, before \cup (b + 1 .. d - 1)) =
        IdsOf(base, before) \cup (base + b + 1 .. base + d - 1)
  <2>1. ASSUME NEW y \in base + b + 1 .. base + d - 1
        PROVE  y \in IdsOf(base, before \cup (b + 1 .. d - 1))
    <3>1. y - base \in b + 1 .. d - 1 /\ y = base + (y - base)
      BY <1>1
    <3> QED
      BY <3>1 DEF IdsOf
  <2>2. ASSUME NEW m \in b + 1 .. d - 1
        PROVE  base + m \in base + b + 1 .. base + d - 1
    BY <1>1
  <2> QED
    BY <2>1, <2>2 DEF IdsOf
<1>8. /\ lost \o Between(history) \in Seq(Nat)
      /\ Increasing(lost \o Between(history))
      /\ Range(lost \o Between(history)) = Range(lost) \cup Range(Between(history))
  BY <1>3, <1>6, IdsFollow
<1> QED
  BY <1>2, <1>3, <1>5, <1>7, <1>8 DEF a, c, d

-----------------------------------------------------------------------------
(* A hit that arrives                                                      *)

LEMMA PacketIs ==
    /\ \A n \in Nat : Packet(n) \in Nat \ {0}
    /\ \A m, n \in Nat : m <= n => Packet(m) <= Packet(n)
<1>1. ASSUME NEW n \in Nat PROVE Packet(n) \in Nat \ {0}
  BY DEF Packet
<1>2. ASSUME NEW m \in Nat, NEW n \in Nat, m <= n PROVE Packet(m) <= Packet(n)
  BY <1>2 DEF Packet
<1> QED
  BY <1>1, <1>2

LEMMA HitArrives ==
    ASSUME DiagTyped, Arrive
    PROVE  /\ hits.next \in Nat /\ hits.channel \in Nat /\ hits.accepted \in Nat
           /\ \A i \in 1 .. Len(arrived) : arrived[i] < hits.next
           /\ hits' \in [next : Nat, channel : Nat, accepted : Nat]
           /\ hits'.next = hits.next + 1 /\ hits'.channel = hits.channel
           /\ hits'.accepted = hits.accepted
           /\ arrived' = Append(arrived, hits.next)
           /\ arrived' \in Seq(Nat) /\ Increasing(arrived') /\ Len(arrived) \in Nat
           /\ Len(arrived') = Len(arrived) + 1
           /\ DOMAIN arrived = 1 .. Len(arrived)
           /\ \A i \in 1 .. Len(arrived) : arrived'[i] = arrived[i] /\ arrived[i] \in Nat
           /\ arrived'[Len(arrived) + 1] = hits.next
           /\ \A i \in 1 .. Len(arrived') : arrived'[i] < hits'.next
<1>1. /\ hits \in [next : Nat, channel : Nat, accepted : Nat]
      /\ arrived \in Seq(Nat) /\ Increasing(arrived)
      /\ \A i \in 1 .. Len(arrived) : arrived[i] < hits.next
      /\ hits' = [hits EXCEPT !.next = hits.next + 1] /\ arrived' = Append(arrived, hits.next)
  BY DEF DiagTyped, Arrive
<1>2. /\ hits' \in [next : Nat, channel : Nat, accepted : Nat]
      /\ hits'.next = hits.next + 1 /\ hits'.channel = hits.channel
      /\ hits'.accepted = hits.accepted /\ hits.next \in Nat
      /\ hits.channel \in Nat /\ hits.accepted \in Nat
  BY <1>1
<1>3. arrived' \in Seq(Nat) /\ Increasing(arrived')
  BY <1>1, <1>2, OneMoreHit
<1>4. /\ Len(arrived) \in Nat /\ Len(arrived') = Len(arrived) + 1
      /\ DOMAIN arrived = 1 .. Len(arrived)
      /\ \A i \in 1 .. Len(arrived) : arrived'[i] = arrived[i] /\ arrived[i] \in Nat
      /\ arrived'[Len(arrived) + 1] = hits.next
  BY <1>1, <1>2
<1>5. \A i \in 1 .. Len(arrived') : arrived'[i] < hits'.next
  <2> SUFFICES ASSUME NEW i \in 1 .. Len(arrived') PROVE arrived'[i] < hits'.next
    OBVIOUS
  <2>1. CASE i = Len(arrived) + 1
    BY <2>1, <1>2, <1>4
  <2>2. CASE i # Len(arrived) + 1
    <3>1. i \in 1 .. Len(arrived)
      BY <2>2, <1>4
    <3> QED
      BY <3>1, <1>1, <1>2, <1>4
  <2> QED
    BY <2>1, <2>2
<1> QED
  BY <1>1, <1>2, <1>3, <1>4, <1>5

LEMMA Processed ==
    ASSUME DiagTyped, EdgeSeen, Arrive
    PROVE  LET n == hits.next
               d == Rolled(diag, AcceptedId(n) % AcceptedMax)
               packets == diag.fNetworkPacketNumber
               higher == packets.middle < Packet(n)
               channels == diag.fChannelIds
               shifts == channels.last = 0 \/ Reasonable(channels, ChannelId(n))
               accepted == diag.fAcceptedChannelIds
               goes == Reasonable(accepted, AcceptedId(n) % IdRange)
           IN  /\ diag' \in Diags
               /\ diag'.fRolling = d.fRolling /\ diag'.fRollnum = d.fRollnum
               /\ diag'.fNofRollovers = d.fNofRollovers
               /\ diag'.fNetworkPacketNumber.middle = Packet(n)
               /\ diag'.fNetworkPacketNumber.last =
                      IF packets.last = 0 \/ higher THEN packets.middle ELSE packets.last
               /\ diag'.lostNetworkPackets =
                      IF packets.last # 0 /\ higher
                      THEN diag.lostNetworkPackets \o Between(packets)
                      ELSE diag.lostNetworkPackets
               /\ diag'.fChannelIds.middle = ChannelId(n)
               /\ diag'.fTimeStamps.middle = n + 1
               /\ diag'.fChannelIds.last = IF shifts THEN channels.middle ELSE channels.last
               /\ diag'.fTimeStamps.last = IF shifts THEN diag.fTimeStamps.middle
                                           ELSE diag.fTimeStamps.last
               /\ diag'.lostChannelIds = IF channels.last # 0 /\ shifts
                                         THEN diag.lostChannelIds \o Between(channels)
                                         ELSE diag.lostChannelIds
               /\ diag'.fTimeStamps.last = 0 =>
                      /\ diag'.fAcceptedChannelIds = diag.fAcceptedChannelIds
                      /\ diag'.lostAcceptedIds = diag.lostAcceptedIds
               /\ diag'.fTimeStamps.last # 0 =>
                      /\ diag'.fAcceptedChannelIds.middle = AcceptedId(n) % IdRange
                      /\ diag'.fAcceptedChannelIds.last = IF goes THEN accepted.middle
                                                          ELSE accepted.last
                      /\ diag'.lostAcceptedIds = IF goes
                                                 THEN diag.lostAcceptedIds \o Between(accepted)
                                                 ELSE diag.lostAcceptedIds
<1> DEFINE n == hits.next
           id == AcceptedId(n) % AcceptedMax
           d1 == Rolled(diag, id)
           d2 == NetworkPacket(d1, Packet(n))
           d3 == ChannelIds(d2, ChannelId(n), n + 1)
           u == AcceptedId(n) % IdRange
           d4 == AcceptedIds(d3, u)
<1>1. n \in Nat /\ ChannelId(n) \in Nat /\ AcceptedId(n) \in Nat /\ Packet(n) \in Nat
      /\ n + 1 \in Nat /\ diag \in Diags /\ u \in Nat
  <2>1. n \in Nat /\ hits.channel \in Nat /\ hits.accepted \in Nat
    BY HitArrives
  <2>2. Packet(n) \in Nat
    BY <2>1, PacketIs
  <2> HIDE DEF n
  <2>3. u \in Nat
    BY <2>1, DiagAssumption DEF AcceptedId
  <2> QED
    BY <2>1, <2>2, <2>3 DEF ChannelId, AcceptedId, DiagTyped
<1>2. diag' = d4
  BY EdgeArrive DEF Arrive, Process
<1> HIDE DEF id, n, u
<1>4. /\ d1 \in Diags
      /\ \A f \in DiagFields \ {"fRolling", "fRollnum", "fNofRollovers"} : d1[f] = diag[f]
  BY <1>1, RolledIs
<1> HIDE DEF d1
<1>5. LET known == d1.fNetworkPacketNumber
          higher == known.middle < Packet(n)
      IN  /\ d2 \in Diags
          /\ \A f \in DiagFields \ {"fNetworkPacketNumber", "lostNetworkPackets"} : d2[f] = d1[f]
          /\ d2.fNetworkPacketNumber.middle = Packet(n)
          /\ d2.fNetworkPacketNumber.last =
                 IF known.last = 0 \/ higher THEN known.middle ELSE known.last
          /\ d2.lostNetworkPackets =
                 IF known.last # 0 /\ higher
                 THEN d1.lostNetworkPackets \o Between(known)
                 ELSE d1.lostNetworkPackets
  BY <1>1, <1>4, NetworkPacketIs
<1> HIDE DEF d2
<1>6. LET known == d2.fChannelIds
          shifts == known.last = 0 \/ Reasonable(known, ChannelId(n))
      IN  /\ d3 \in Diags
          /\ \A f \in DiagFields \ {"fChannelIds", "fTimeStamps", "lostChannelIds"} :
                 d3[f] = d2[f]
          /\ d3.fChannelIds.middle = ChannelId(n) /\ d3.fTimeStamps.middle = n + 1
          /\ d3.fChannelIds.last = IF shifts THEN known.middle ELSE known.last
          /\ d3.fTimeStamps.last = IF shifts THEN d2.fTimeStamps.middle
                                   ELSE d2.fTimeStamps.last
          /\ d3.lostChannelIds = IF known.last # 0 /\ shifts
                                 THEN d2.lostChannelIds \o Between(known)
                                 ELSE d2.lostChannelIds
  <2>1. d2 \in Diags
    BY <1>5
  <2> DEFINE channelId == ChannelId(n)
             timeStamp == n + 1
  <2>2. channelId \in Nat /\ timeStamp \in Nat /\ d3 = ChannelIds(d2, channelId, timeStamp)
    BY <1>1
  <2> HIDE DEF channelId, timeStamp, d3
  <2> DEFINE e == ChannelIds(d2, channelId, timeStamp)
  <2>3. LET known == d2.fChannelIds
            shifts == known.last = 0 \/ Reasonable(known, channelId)
        IN  /\ e \in Diags
            /\ \A f \in DiagFields \ {"fChannelIds", "fTimeStamps", "lostChannelIds"} :
                   e[f] = d2[f]
            /\ e.fChannelIds.middle = channelId /\ e.fTimeStamps.middle = timeStamp
            /\ e.fChannelIds.last = IF shifts THEN known.middle ELSE known.last
            /\ e.fTimeStamps.last = IF shifts THEN d2.fTimeStamps.middle
                                     ELSE d2.fTimeStamps.last
            /\ e.lostChannelIds = IF known.last # 0 /\ shifts
                                   THEN d2.lostChannelIds \o Between(known)
                                   ELSE d2.lostChannelIds
    BY <2>1, <2>2, ChannelIdsIs
  <2>4. d3 = e
    BY <2>2
  <2> HIDE DEF e
  <2> QED
    BY <2>3, <2>4 DEF channelId, timeStamp
<1> HIDE DEF d3
<1>7. LET known == d3.fAcceptedChannelIds
          begun == d3.fTimeStamps.last # 0
          goes == Reasonable(known, u)
      IN  /\ d4 \in Diags
          /\ \A f \in DiagFields \ {"fAcceptedChannelIds", "lostAcceptedIds"} : d4[f] = d3[f]
          /\ ~ begun => d4 = d3
          /\ begun => /\ d4.fAcceptedChannelIds.middle = u
                      /\ d4.fAcceptedChannelIds.last = IF goes THEN known.middle
                                                      ELSE known.last
                      /\ d4.lostAcceptedIds = IF goes
                                             THEN d3.lostAcceptedIds \o Between(known)
                                             ELSE d3.lostAcceptedIds
  BY <1>1, <1>6, AcceptedIdsIs
<1> HIDE DEF d4
<1>8. /\ d4.fRolling = d1.fRolling /\ d4.fRollnum = d1.fRollnum
      /\ d4.fNofRollovers = d1.fNofRollovers
      /\ d4.fNetworkPacketNumber = d2.fNetworkPacketNumber
      /\ d4.lostNetworkPackets = d2.lostNetworkPackets
      /\ d4.fChannelIds = d3.fChannelIds /\ d4.fTimeStamps = d3.fTimeStamps
      /\ d4.lostChannelIds = d3.lostChannelIds
      /\ d2.fChannelIds = diag.fChannelIds /\ d2.fTimeStamps = diag.fTimeStamps
      /\ d2.lostChannelIds = diag.lostChannelIds
      /\ d1.fNetworkPacketNumber = diag.fNetworkPacketNumber
      /\ d1.lostNetworkPackets = diag.lostNetworkPackets
      /\ d3.fAcceptedChannelIds = diag.fAcceptedChannelIds
      /\ d3.lostAcceptedIds = diag.lostAcceptedIds
  BY <1>4, <1>5, <1>6, <1>7 DEF DiagFields
<1>9. diag' = d4 /\ diag' \in Diags
  BY <1>2, <1>7
<1>10. /\ diag'.fNetworkPacketNumber.middle = Packet(n)
       /\ diag'.fNetworkPacketNumber.last =
              IF diag.fNetworkPacketNumber.last = 0
                 \/ diag.fNetworkPacketNumber.middle < Packet(n)
              THEN diag.fNetworkPacketNumber.middle ELSE diag.fNetworkPacketNumber.last
       /\ diag'.lostNetworkPackets =
              IF diag.fNetworkPacketNumber.last # 0
                 /\ diag.fNetworkPacketNumber.middle < Packet(n)
              THEN diag.lostNetworkPackets \o Between(diag.fNetworkPacketNumber)
              ELSE diag.lostNetworkPackets
  BY <1>5, <1>8, <1>9
<1> QED
  BY <1>6, <1>7, <1>8, <1>9, <1>10 DEF n, d1, id, u

LEMMA LostAsIds ==
    \A from, to :
        /\ {ChannelId(n) : n \in Missing(from, to)} =
              IdsOf(hits.channel, MissingOf(arrived, from, to))
        /\ {AcceptedId(n) : n \in Missing(from, to)} =
              IdsOf(hits.accepted, MissingOf(arrived, from, to))
  BY DEF ChannelId, AcceptedId, Missing, MissingOf, IdsOf

LEMMA EdgeKept ==
    ASSUME DiagTyped, EdgeSeen, Arrive
    PROVE  EdgeSeen'
<1> DEFINE n == hits.next
           id == AcceptedId(n) % AcceptedMax
           d == Rolled(diag, id)
           place == AcceptedId(n) + 1 - d.fNofRollovers * AcceptedMax
           start == IF d.fRolling THEN AcceptedMax + RollingThreshold + 1
                    ELSE AcceptedMax - RollingThreshold + 1
<1>1. /\ IF d.fRolling THEN place > AcceptedMax - RollingThreshold ELSE place >= 0
      /\ d.fRollnum <= RollnumThreshold
      /\ place - start <= d.fRollnum + Gap
      /\ sinceGap + 1 <= d.fRollnum \/ place - start <= d.fRollnum
  BY EdgeArrive
<1>2. /\ diag' \in Diags /\ diag'.fRolling = d.fRolling /\ diag'.fRollnum = d.fRollnum
      /\ diag'.fNofRollovers = d.fNofRollovers
  BY Processed
<1>3. /\ hits'.next = n + 1 /\ hits'.accepted = hits.accepted
      /\ n \in Nat /\ hits.accepted \in Nat
  BY HitArrives
<1>4. NextPlace' = place
  <2>1. NextPlace' = (hits'.accepted + hits'.next) - diag'.fNofRollovers * AcceptedMax
    BY DEF NextPlace, AcceptedId
  <2>2. hits'.accepted + hits'.next = AcceptedId(n) + 1
    BY <1>3 DEF AcceptedId
  <2>3. NextPlace' = (AcceptedId(n) + 1) - diag'.fNofRollovers * AcceptedMax
    BY <2>1, <2>2
  <2>4. diag'.fNofRollovers = d.fNofRollovers
    BY <1>2
  <2> DEFINE old == d.fNofRollovers
             new == diag'.fNofRollovers
             reached == AcceptedId(n) + 1
  <2>5. old = new
    BY <2>4
  <2>6. NextPlace' = reached - new * AcceptedMax
    BY <2>3
  <2>7. place = reached - old * AcceptedMax
    <3>1. diag'.fNofRollovers \in Nat /\ AcceptedMax \in Nat
      BY <1>2, DiagAssumption DEF Diags
    <3>2. AcceptedId(n) \in Nat /\ old * AcceptedMax \in Nat
      BY <1>3, <2>4, <3>1 DEF AcceptedId
    <3> DEFINE a == AcceptedId(n)
               b == old * AcceptedMax
    <3>3. a \in Nat /\ b \in Nat
      BY <3>2
    <3> HIDE DEF a, b
    <3>4. a + 1 - b = (a + 1) - b
      BY <3>3
    <3> QED
      BY <3>4 DEF a, b
  <2> HIDE DEF d, n, old, new, reached, place
  <2> QED
    BY <2>5, <2>6, <2>7
<1>5. Passed' = place - start
  BY <1>2, <1>4 DEF Passed
<1>6. sinceGap \in Nat /\ sinceGap' \in Nat /\ sinceGap' <= sinceGap + 1
      /\ d.fRollnum \in Nat
  <2>1. d.fRollnum \in Nat
    BY <1>2 DEF Diags
  <2>2. sinceGap \in 0 .. MinRun /\ MinRun \in Nat
    BY DiagAssumption DEF DiagTyped
  <2>3. sinceGap' = IF sinceGap < MinRun THEN sinceGap + 1 ELSE sinceGap
    BY DEF Arrive
  <2> QED
    BY <2>1, <2>2, <2>3
<1> HIDE DEF d, place, start
<1>7. sinceGap + 1 <= d.fRollnum => sinceGap' <= d.fRollnum
  BY <1>6
<1> QED
  BY <1>1, <1>2, <1>4, <1>5, <1>7 DEF EdgeSeen

LEMMA ChannelArrives ==
    ASSUME DiagTyped, EdgeSeen, ChannelKept, Arrive
    PROVE  ChannelKept'
<1> DEFINE c == Len(arrived)
           n == hits.next
           known == diag.fChannelIds
           base == hits.channel
           F == FirstHit
<1>1. /\ n \in Nat /\ base \in Nat /\ hits'.channel = base /\ arrived' = Append(arrived, n)
      /\ c \in Nat /\ Len(arrived') = c + 1
      /\ \A i \in 1 .. c : arrived'[i] = arrived[i] /\ arrived[i] \in Nat /\ arrived[i] < n
      /\ arrived'[c + 1] = n
      /\ arrived \in Seq(Nat) /\ Increasing(arrived) /\ DOMAIN arrived = 1 .. c
  BY HitArrives DEF DiagTyped
<1>2. /\ known.middle = IF c < 1 THEN 0 ELSE base + arrived[c]
      /\ known.last = IF c < 2 THEN 0 ELSE base + arrived[c - 1]
      /\ diag.fTimeStamps.middle = IF c < 1 THEN 0 ELSE arrived[c] + 1
      /\ diag.fTimeStamps.last = IF c < 2 THEN 0 ELSE arrived[c - 1] + 1
      /\ Increasing(diag.lostChannelIds)
      /\ Range(diag.lostChannelIds) =
           IF c < 3 THEN {}
           ELSE IdsOf(base, MissingOf(arrived, arrived[F], arrived[c - 1]))
  BY LostAsIds DEF ChannelKept, ChannelId
<1>3. /\ diag.lostChannelIds \in Seq(Nat) /\ known \in IdPairs
  BY DEF DiagTyped, Diags
<1> DEFINE shifts == known.last = 0 \/ Reasonable(known, base + n)
<1>4. /\ diag'.fChannelIds.middle = base + n
      /\ diag'.fTimeStamps.middle = n + 1
      /\ diag'.fChannelIds.last = IF shifts THEN known.middle ELSE known.last
      /\ diag'.fTimeStamps.last = IF shifts THEN diag.fTimeStamps.middle
                                  ELSE diag.fTimeStamps.last
      /\ diag'.lostChannelIds = IF known.last # 0 /\ shifts
                                THEN diag.lostChannelIds \o Between(known)
                                ELSE diag.lostChannelIds
  BY Processed DEF ChannelId
<1>5. c >= 2 => arrived[c - 1] < arrived[c]
  <2> HIDE DEF c
  <2>1. c >= 2 => c - 1 \in 1 .. c /\ c \in 1 .. c /\ c - 1 < c
    BY <1>1
  <2> QED
    BY <1>1, <2>1 DEF Increasing
<1> HIDE DEF c, n, known, base
<1>6. c >= 1 => arrived[c] \in Nat /\ arrived[c] < n
  BY <1>1
<1>7. c >= 2 => arrived[c - 1] \in Nat
  BY <1>1
<1>8. shifts
  <2>1. CASE c < 2
    BY <2>1, <1>2
  <2>2. CASE c >= 2
    <3>2. known.last = base + arrived[c - 1] /\ known.middle = base + arrived[c]
      BY <2>2, <1>1, <1>2
    <3>3. /\ arrived[c - 1] \in Nat /\ arrived[c] \in Nat /\ arrived[c] < n
          /\ arrived[c - 1] < arrived[c]
      BY <2>2, <1>1, <1>5, <1>6, <1>7
    <3>1. known.last < known.middle /\ known.middle < base + n
      BY <3>2, <3>3, <1>1
    <3> QED
      BY <3>1 DEF Reasonable
  <2> QED
    BY <1>1, <2>1, <2>2
<1> HIDE DEF shifts
<1>9. F = 1 \/ F = 2
  BY DEF FirstHit
<1>10. c >= 1 => F' = F
  <2>1. c >= 1 => arrived'[1] = arrived[1]
    BY <1>1
  <2> QED
    BY <2>1, <1>1 DEF FirstHit, ChannelId, base
<1> DEFINE lost == diag'.lostChannelIds
<1>11. /\ Increasing(lost)
       /\ Range(lost) = IF c < 2 THEN {}
                        ELSE IdsOf(base, MissingOf(arrived', arrived[F], arrived[c]))
  <2>1. CASE c < 2
    BY <2>1, <1>2, <1>4, <1>8, <1>1
  <2>2. CASE c = 2 /\ F = 2
    <3>1. known.last = 0
      <4>1. base + arrived[1] = 0
        BY <2>2 DEF FirstHit, ChannelId, base
      <4> QED
        BY <4>1, <2>2, <1>2
    <3>2. lost = diag.lostChannelIds
      BY <3>1, <1>4
    <3>3. MissingOf(arrived', arrived[F], arrived[c]) = {}
      BY <2>2, <1>1, <1>6, NoHitMissing
    <3>4. IdsOf(base, {}) = {}
      BY DEF IdsOf
    <3> QED
      BY <2>2, <3>2, <3>3, <3>4, <1>2
  <2>3. CASE c >= 2 /\ F <= c - 1
    <3>1. F \in 1 .. c - 1
      BY <2>3, <1>1, <1>9
    <3>2. Range(diag.lostChannelIds) = IdsOf(base, MissingOf(arrived, arrived[F], arrived[c - 1]))
      <4>1. CASE c >= 3
        BY <4>1, <1>1, <1>2
      <4>2. CASE c = 2
        <5>1. F = 1 /\ c - 1 = 1
          BY <4>2, <2>3, <1>9
        <5>2. MissingOf(arrived, arrived[F], arrived[c - 1]) = {}
          BY <5>1, <1>7, <2>3, NoHitMissing
        <5>3. IdsOf(base, {}) = {}
          BY DEF IdsOf
        <5> QED
          BY <4>2, <5>2, <5>3, <1>2
      <4> QED
        BY <2>3, <1>1, <4>1, <4>2
    <3>3. known.last # 0
      <4>1. known.last = base + arrived[c - 1] /\ arrived[c - 1] \in Nat
        BY <2>3, <1>1, <1>2, <1>7
      <4>2. CASE F = 1 /\ c = 2
        <5>1. base + arrived[1] # 0
          BY <4>2 DEF FirstHit, ChannelId, base
        <5> QED
          BY <4>1, <4>2, <5>1
      <4>3. CASE c >= 3
        <5>1. 1 \in DOMAIN arrived /\ c - 1 \in DOMAIN arrived /\ 1 < c - 1
          BY <4>3, <1>1
        <5>2. arrived[1] < arrived[c - 1] /\ arrived[1] \in Nat
          BY <5>1, <1>1 DEF Increasing
        <5> QED
          BY <4>1, <5>2, <1>1
      <4> QED
        BY <4>2, <4>3, <2>3, <1>1, <1>9
    <3>4. lost = diag.lostChannelIds \o Between(known)
      BY <3>3, <1>4, <1>8
    <3>5. /\ known.last = base + arrived[c - 1] /\ known.middle = base + arrived[c]
      BY <2>3, <1>1, <1>2
    <3> DEFINE L == {}
    <3>6. L \in SUBSET Nat /\ \A x \in L : x < base + arrived[F]
      OBVIOUS
    <3>7. Range(diag.lostChannelIds) =
            L \cup IdsOf(base, MissingOf(arrived, arrived[F], arrived[Len(arrived) - 1]))
      BY <3>2 DEF c
    <3>9. /\ F \in 1 .. Len(arrived) - 1
          /\ known.last = base + arrived[Len(arrived) - 1]
          /\ known.middle = base + arrived[Len(arrived)]
          /\ \A i \in 1 .. Len(arrived) : arrived[i] < n
      BY <3>1, <3>5, <1>1 DEF c
    <3> HIDE DEF F, lost, L
    <3>10. ListSoFar(arrived, n, F, base, diag.lostChannelIds, L, known)
      BY <3>6, <3>7, <3>9, <1>1, <1>2, <1>3 DEF ListSoFar
    <3>8. /\ Increasing(diag.lostChannelIds \o Between(known))
          /\ Range(diag.lostChannelIds \o Between(known)) =
                L \cup IdsOf(base, MissingOf(Append(arrived, n), arrived[F], arrived[Len(arrived)]))
      BY <3>10, ListExtended
    <3> QED
      BY <2>3, <3>4, <3>8, <1>1 DEF c, L
  <2> QED
    BY <2>1, <2>2, <2>3, <1>1, <1>9
<1>12. ChannelKept' <=>
         /\ diag'.fChannelIds.middle = base + arrived'[c + 1]
         /\ diag'.fChannelIds.last = IF c < 1 THEN 0 ELSE base + arrived'[c]
         /\ diag'.fTimeStamps.middle = arrived'[c + 1] + 1
         /\ diag'.fTimeStamps.last = IF c < 1 THEN 0 ELSE arrived'[c] + 1
         /\ Increasing(lost)
         /\ Range(lost) =
              IF c < 2 THEN {}
              ELSE IdsOf(base, MissingOf(arrived', arrived'[F'], arrived'[c]))
  <2>1. ChannelKept' <=>
         LET count == Len(arrived')
         IN  /\ diag'.fChannelIds.middle =
                  IF count < 1 THEN 0 ELSE hits'.channel + arrived'[count]
             /\ diag'.fChannelIds.last =
                  IF count < 2 THEN 0 ELSE hits'.channel + arrived'[count - 1]
             /\ diag'.fTimeStamps.middle = IF count < 1 THEN 0 ELSE arrived'[count] + 1
             /\ diag'.fTimeStamps.last = IF count < 2 THEN 0 ELSE arrived'[count - 1] + 1
             /\ Increasing(diag'.lostChannelIds)
             /\ Range(diag'.lostChannelIds) =
                  IF count < 3 THEN {}
                  ELSE IdsOf(hits'.channel,
                             MissingOf(arrived', arrived'[FirstHit'], arrived'[count - 1]))
    BY DEF ChannelKept, ChannelId, Missing, MissingOf, IdsOf
  <2>2. Len(arrived') = c + 1 /\ Len(arrived') - 1 = c /\ hits'.channel = base
        /\ ~ (Len(arrived') < 1) /\ (Len(arrived') < 2 <=> c < 1)
        /\ (Len(arrived') < 3 <=> c < 2)
    BY <1>1
  <2> QED
    BY <2>1, <2>2
<1> HIDE DEF lost, F
<1>13. CASE c = 0
  BY <1>13, <1>1, <1>2, <1>4, <1>8, <1>11, <1>12
<1>14. CASE c >= 1
  <2>1. arrived'[c] = arrived[c] /\ arrived'[c + 1] = n
    BY <1>14, <1>1
  <2>2. c >= 2 => arrived'[F'] = arrived[F]
    BY <1>1, <1>9, <1>10 DEF F
  <2>6. ~ (c < 1) /\ (c >= 2 <=> ~ (c < 2))
    BY <1>14, <1>1
  <2>3. /\ diag'.fChannelIds.middle = base + arrived'[c + 1]
        /\ diag'.fTimeStamps.middle = arrived'[c + 1] + 1
        /\ diag'.fChannelIds.last = base + arrived'[c]
        /\ diag'.fTimeStamps.last = arrived'[c] + 1
    BY <1>14, <2>1, <2>6, <1>2, <1>4, <1>8
  <2>4. c >= 2 => Range(lost) = IdsOf(base, MissingOf(arrived', arrived'[F'], arrived'[c]))
    BY <2>1, <2>2, <2>6, <1>11
  <2>5. c < 2 => Range(lost) = {}
    BY <1>11
  <2> QED
    BY <2>3, <2>4, <2>5, <2>6, <1>11, <1>12
<1> QED
  BY <1>1, <1>13, <1>14

LEMMA AcceptedArrives ==
    ASSUME DiagTyped, EdgeSeen, ChannelKept, AcceptedKept, Arrive, AcceptedIdsFit'
    PROVE  AcceptedKept'
<1> DEFINE c == Len(arrived)
           n == hits.next
           known == diag.fAcceptedChannelIds
           base == hits.accepted
           below == 1 .. (base + arrived[2]) - 1
           goes == Reasonable(known, base + n)
           lost == diag'.lostAcceptedIds
           new == diag'.fAcceptedChannelIds
<1>1. /\ n \in Nat /\ base \in Nat /\ hits'.accepted = base /\ arrived' = Append(arrived, n)
      /\ c \in Nat /\ Len(arrived') = c + 1
      /\ \A i \in 1 .. c : arrived'[i] = arrived[i] /\ arrived[i] \in Nat /\ arrived[i] < n
      /\ arrived'[c + 1] = n
      /\ arrived \in Seq(Nat) /\ Increasing(arrived) /\ DOMAIN arrived = 1 .. c
  BY HitArrives DEF DiagTyped
<1>2. /\ known.middle = IF c < 2 THEN 0 ELSE base + arrived[c]
      /\ known.last = IF c < 3 THEN 0 ELSE base + arrived[c - 1]
      /\ Increasing(diag.lostAcceptedIds)
      /\ Range(diag.lostAcceptedIds) =
           IF c < 3 THEN {}
           ELSE below \cup IdsOf(base, MissingOf(arrived, arrived[2], arrived[c - 1]))
  BY LostAsIds DEF AcceptedKept, AcceptedId
<1>3. diag.lostAcceptedIds \in Seq(Nat) /\ known \in IdPairs
  BY DEF DiagTyped, Diags
<1>4. diag'.fTimeStamps.last = IF c < 1 THEN 0 ELSE arrived[c] + 1
  <2>1. diag'.fTimeStamps.last =
          IF Len(arrived') < 2 THEN 0 ELSE arrived'[Len(arrived') - 1] + 1
    BY ChannelArrives DEF ChannelKept
  <2> HIDE DEF c
  <2>2. /\ Len(arrived') - 1 = c /\ (Len(arrived') < 2 <=> c < 1)
        /\ ~ (c < 1) => arrived'[c] = arrived[c]
    BY <1>1
  <2> QED
    BY <2>1, <2>2
<1>5. /\ diag'.fTimeStamps.last = 0 => new = known /\ lost = diag.lostAcceptedIds
      /\ diag'.fTimeStamps.last # 0 =>
            /\ new.middle = base + n
            /\ new.last = IF goes THEN known.middle ELSE known.last
            /\ lost = IF goes THEN diag.lostAcceptedIds \o Between(known)
                      ELSE diag.lostAcceptedIds
  <2>1. (base + n) % IdRange = base + n
    <3>1. base + (n + 1) <= IdRange
      BY <1>1, HitArrives DEF AcceptedIdsFit, AcceptedId
    <3> HIDE DEF base, n
    <3>2. base + n \in 0 .. IdRange - 1 /\ IdRange \in Nat \ {0}
      BY <1>1, <3>1, DiagAssumption
    <3> QED
      BY <3>2
  <2> QED
    BY <2>1, Processed DEF AcceptedId
<1>6. AcceptedKept' <=>
         /\ new.middle = IF c < 1 THEN 0 ELSE base + n
         /\ new.last = IF c < 2 THEN 0 ELSE base + arrived'[c]
         /\ Increasing(lost)
         /\ Range(lost) =
              IF c < 2 THEN {}
              ELSE 1 .. (base + arrived'[2]) - 1
                   \cup IdsOf(base, MissingOf(arrived', arrived'[2], arrived'[c]))
  <2>1. AcceptedKept' <=>
         LET count == Len(arrived')
         IN  /\ new.middle = IF count < 2 THEN 0 ELSE hits'.accepted + arrived'[count]
             /\ new.last = IF count < 3 THEN 0 ELSE hits'.accepted + arrived'[count - 1]
             /\ Increasing(lost)
             /\ Range(lost) =
                  IF count < 3 THEN {}
                  ELSE 1 .. (hits'.accepted + arrived'[2]) - 1
                       \cup IdsOf(hits'.accepted,
                                  MissingOf(arrived', arrived'[2], arrived'[count - 1]))
    BY DEF AcceptedKept, AcceptedId, Missing, MissingOf, IdsOf
  <2> HIDE DEF c, n
  <2>2. /\ Len(arrived') = c + 1 /\ Len(arrived') - 1 = c /\ hits'.accepted = base
        /\ (Len(arrived') < 2 <=> c < 1) /\ (Len(arrived') < 3 <=> c < 2)
        /\ arrived'[Len(arrived')] = n
    BY <1>1
  <2> HIDE DEF base, new, lost
  <2> QED
    BY <2>1, <2>2
<1>7. c >= 2 => /\ arrived[c - 1] \in Nat /\ arrived[c] \in Nat /\ arrived[1] \in Nat
                /\ arrived[2] \in Nat /\ arrived[1] < arrived[2]
                /\ arrived[c - 1] < arrived[c] /\ arrived[c] < n
                /\ arrived'[2] = arrived[2] /\ arrived'[c] = arrived[c]
  <2> HIDE DEF c, n
  <2>1. c >= 2 => /\ c - 1 \in 1 .. c /\ c \in 1 .. c /\ c - 1 < c
                  /\ 1 \in 1 .. c /\ 2 \in 1 .. c
    BY <1>1
  <2>2. c >= 2 => arrived[1] < arrived[2] /\ arrived[c - 1] < arrived[c]
    <3> SUFFICES ASSUME c >= 2
                 PROVE  arrived[1] < arrived[2] /\ arrived[c - 1] < arrived[c]
      OBVIOUS
    <3>1. \A i, j \in 1 .. c : i < j => arrived[i] < arrived[j]
      BY <1>1 DEF Increasing
    <3>2. c - 1 \in 1 .. c /\ c \in 1 .. c /\ c - 1 < c /\ 1 \in 1 .. c /\ 2 \in 1 .. c
      BY <2>1
    <3> QED
      BY <3>1, <3>2
  <2> QED
    BY <1>1, <2>1, <2>2
<1> HIDE DEF c, n, base, known, new, lost
<1>8. c >= 2 => goes
  <2> SUFFICES ASSUME c >= 2 PROVE goes
    OBVIOUS
  <2>1. known.middle = base + arrived[c] /\ known.last = IF c < 3 THEN 0 ELSE base + arrived[c - 1]
    BY <1>1, <1>2
  <2>2. c < 3 => c = 2
    BY <1>1
  <2>3. known.last < known.middle /\ known.middle < base + n
    <3>1. CASE c = 2
      BY <3>1, <2>1, <1>1, <1>7
    <3>2. CASE ~ (c < 3)
      BY <3>2, <2>1, <1>1, <1>7
    <3> QED
      BY <2>2, <3>1, <3>2
  <2> QED
    BY <2>3 DEF Reasonable
<1>9. CASE c = 0
  <2>1. c < 1 /\ c < 2 /\ c < 3
    BY <1>9
  <2> QED
    BY <2>1, <1>2, <1>4, <1>5, <1>6
<1>10. CASE c = 1
  <2>1. ~ (c < 1) /\ c < 2 /\ c < 3 /\ arrived[c] + 1 # 0
    BY <1>10, <1>1
  <2>2. known.middle = 0 /\ known.last = 0
    BY <2>1, <1>2
  <2>3. ~ goes
    BY <2>2 DEF Reasonable
  <2> HIDE DEF goes
  <2> QED
    BY <2>1, <2>2, <2>3, <1>2, <1>4, <1>5, <1>6
<1>11. CASE c >= 2
  <2>1. /\ ~ (c < 1) /\ ~ (c < 2) /\ arrived[c] + 1 # 0 /\ goes
        /\ arrived'[2] = arrived[2] /\ arrived'[c] = arrived[c]
    BY <1>11, <1>1, <1>7, <1>8
  <2> HIDE DEF goes
  <2>2. new.middle = base + n /\ new.last = known.middle
        /\ lost = diag.lostAcceptedIds \o Between(known)
    BY <2>1, <1>4, <1>5
  <2>3. known.middle = base + arrived[c]
    BY <2>1, <1>2
  <2>4. /\ Increasing(lost)
        /\ Range(lost) = below \cup IdsOf(base, MissingOf(arrived', arrived[2], arrived[c]))
    <3>1. CASE c = 2
      <4>1. known.last = 0 /\ known.middle = base + arrived[2]
            /\ Range(diag.lostAcceptedIds) = {}
        BY <3>1, <2>3, <1>2
      <4>2. /\ Between(known) \in Seq(Nat) /\ Increasing(Between(known))
            /\ Range(Between(known)) = known.last + 1 .. known.middle - 1
        BY <1>3, BetweenIs
      <4>3. known.last + 1 .. known.middle - 1 = below
        <5>1. known.last + 1 = 1 /\ known.middle - 1 = (base + arrived[2]) - 1
          BY <4>1
        <5> QED
          BY <5>1
      <4>4. Increasing(lost) /\ Range(lost) = {} \cup Range(Between(known))
        BY <2>2, <4>1, <4>2, <1>2, <1>3, IdsFollow
      <4>5. MissingOf(arrived', arrived[2], arrived[c]) = {}
        BY <3>1, <1>7, NoHitMissing
      <4>6. IdsOf(base, {}) = {}
        BY DEF IdsOf
      <4> QED
        BY <4>2, <4>3, <4>4, <4>5, <4>6
    <3>2. CASE c >= 3
      <4>1. ~ (c < 3)
        BY <3>2, <1>1
      <4>2. known.last = base + arrived[c - 1]
            /\ Range(diag.lostAcceptedIds) =
                 below \cup IdsOf(base, MissingOf(arrived, arrived[2], arrived[c - 1]))
        BY <4>1, <1>2
      <4>3. 2 \in 1 .. c - 1
        BY <3>2, <1>1
      <4>4. below \in SUBSET Nat /\ \A id \in below : id < base + arrived[2]
        BY <1>1, <1>7, <1>11
      <4> HIDE DEF below
      <4>5. ListSoFar(arrived, n, 2, base, diag.lostAcceptedIds, below, known)
        BY <4>2, <4>3, <4>4, <2>3, <1>1, <1>2, <1>3 DEF ListSoFar, c
      <4>6. /\ Increasing(diag.lostAcceptedIds \o Between(known))
            /\ Range(diag.lostAcceptedIds \o Between(known)) =
                 below \cup IdsOf(base, MissingOf(Append(arrived, n), arrived[2],
                                                 arrived[Len(arrived)]))
        BY <4>5, ListExtended
      <4> QED
        BY <4>6, <2>2, <1>1 DEF c
    <3> QED
      BY <1>1, <1>11, <3>1, <3>2
  <2> QED
    BY <2>1, <2>2, <2>3, <2>4, <1>6
<1> QED
  BY <1>1, <1>9, <1>10, <1>11

\* The packets of the hits that arrived.
LEMMA PacketsGrow ==
    ASSUME DiagTyped, Arrive
    PROVE  /\ Packets \subseteq Nat \ {0}
           /\ Packets' = Packets \cup {Packet(hits.next)}
           /\ \A p \in Packets : /\ Packet(arrived[1]) <= p
                                 /\ p <= Packet(hits.next)
                                 /\ p <= Packet(arrived[Len(arrived)])
           /\ Len(arrived) >= 1 => /\ Packet(arrived[1]) \in Packets
                                   /\ Packet(arrived[Len(arrived)]) \in Packets
           /\ Len(arrived) = 0 => Packets = {}
<1> DEFINE c == Len(arrived)
           n == hits.next
<1>1. /\ n \in Nat /\ c \in Nat /\ arrived' = Append(arrived, n)
      /\ \A i \in 1 .. c : arrived[i] \in Nat /\ arrived[i] < n
      /\ DOMAIN arrived = 1 .. c /\ arrived \in Seq(Nat) /\ Increasing(arrived)
  BY HitArrives DEF DiagTyped
<1>2. Packets' = {Packet(m) : m \in Range(arrived')} /\ Packets = {Packet(m) : m \in Range(arrived)}
  <2>1. Packets = {Packet(m) : m \in Range(arrived)}
    BY DEF Packets, Range
  <2>2. Packets' = {Packet(m) : m \in Range(arrived')}
    BY DEF Packets, Range, Packet
  <2> QED
    BY <2>1, <2>2
<1>3. Range(Append(arrived, n)) = Range(arrived) \cup {n}
  BY <1>1, OneMoreHit
<1> HIDE DEF n, c
<1>4. Packets' = Packets \cup {Packet(n)}
  BY <1>1, <1>2, <1>3
<1>5. ASSUME NEW i \in 1 .. c
      PROVE  /\ arrived[1] <= arrived[i] /\ arrived[i] <= n /\ arrived[i] <= arrived[c]
             /\ arrived[1] \in Nat /\ arrived[i] \in Nat /\ arrived[c] \in Nat
  <2>1. /\ 1 \in 1 .. c /\ c \in 1 .. c /\ (1 = i \/ 1 < i) /\ (i = c \/ i < c)
    BY <1>1
  <2>2. 1 < i => arrived[1] < arrived[i]
    BY <1>1, <2>1 DEF Increasing
  <2>3. i < c => arrived[i] < arrived[c]
    BY <1>1, <2>1 DEF Increasing
  <2> QED
    BY <1>1, <2>1, <2>2, <2>3
<1>6. ASSUME NEW p \in Packets
      PROVE  p \in Nat \ {0} /\ Packet(arrived[1]) <= p /\ p <= Packet(n) /\ p <= Packet(arrived[c])
  <2>1. PICK i \in 1 .. c : p = Packet(arrived[i])
    BY <1>1 DEF Packets
  <2> QED
    BY <2>1, <1>1, <1>5, PacketIs
<1>7. c >= 1 => Packet(arrived[1]) \in Packets /\ Packet(arrived[c]) \in Packets
  <2>1. c >= 1 => 1 \in DOMAIN arrived /\ c \in DOMAIN arrived
    BY <1>1
  <2> QED
    BY <2>1 DEF Packets
<1>8. c = 0 => Packets = {}
  BY <1>1 DEF Packets
<1> QED
  BY <1>4, <1>6, <1>7, <1>8 DEF c, n

LEMMA PacketArrives ==
    ASSUME DiagTyped, EdgeSeen, PacketKept, Arrive
    PROVE  PacketKept'
<1> DEFINE c == Len(arrived)
           known == diag.fNetworkPacketNumber
           p == Packet(hits.next)
           first == Packet(arrived[1])
           latest == Packet(arrived[c])
           lost == diag'.lostNetworkPackets
           new == diag'.fNetworkPacketNumber
           higher == known.middle < p
<1>1. /\ c \in Nat /\ Len(arrived') = c + 1 /\ p \in Nat \ {0}
      /\ arrived'[c + 1] = hits.next
      /\ c >= 1 => arrived'[1] = arrived[1]
  <2>1. /\ c \in Nat /\ Len(arrived') = c + 1 /\ arrived'[c + 1] = hits.next
        /\ \A i \in 1 .. c : arrived'[i] = arrived[i]
        /\ hits.next \in Nat
    BY HitArrives
  <2> HIDE DEF c
  <2>2. c >= 1 => arrived'[1] = arrived[1]
    BY <2>1
  <2>3. p \in Nat \ {0}
    BY <2>1, PacketIs
  <2> QED
    BY <2>1, <2>2, <2>3
<1>2. /\ known.middle = IF c < 1 THEN 0 ELSE latest
      /\ IF c < 2 THEN known.last = 0 ELSE known.last \in Packets /\ known.last <= known.middle
      /\ \A q \in Packets : q <= known.last \/ q = known.middle
      /\ Increasing(diag.lostNetworkPackets)
      /\ Range(diag.lostNetworkPackets) =
           IF c < 2 THEN {} ELSE (first + 1 .. known.last) \ Packets
  BY DEF PacketKept
<1>3. diag.lostNetworkPackets \in Seq(Nat) /\ known \in IdPairs
  BY DEF DiagTyped, Diags
<1>4. /\ new.middle = p
      /\ new.last = IF known.last = 0 \/ higher THEN known.middle ELSE known.last
      /\ lost = IF known.last # 0 /\ higher
                THEN diag.lostNetworkPackets \o Between(known)
                ELSE diag.lostNetworkPackets
  BY Processed
<1>5. /\ Packets \subseteq Nat \ {0}
      /\ Packets' = Packets \cup {p}
      /\ \A q \in Packets : first <= q /\ q <= p /\ q <= latest
      /\ c >= 1 => first \in Packets /\ latest \in Packets
      /\ c = 0 => Packets = {}
  BY PacketsGrow
<1>6. PacketKept' <=>
        /\ new.middle = p
        /\ IF c < 1 THEN new.last = 0 ELSE new.last \in Packets' /\ new.last <= new.middle
        /\ \A q \in Packets' : q <= new.last \/ q = new.middle
        /\ Increasing(lost)
        /\ Range(lost) = IF c < 1 THEN {} ELSE (first + 1 .. new.last) \ Packets'
  <2>1. PacketKept' <=>
          /\ new.middle = IF Len(arrived') < 1 THEN 0 ELSE Packet(arrived'[Len(arrived')])
          /\ IF Len(arrived') < 2 THEN new.last = 0
             ELSE new.last \in Packets' /\ new.last <= new.middle
          /\ \A q \in Packets' : q <= new.last \/ q = new.middle
          /\ Increasing(lost)
          /\ Range(lost) = IF Len(arrived') < 2 THEN {}
                           ELSE (Packet(arrived'[1]) + 1 .. new.last) \ Packets'
    BY DEF PacketKept, Packet
  <2> HIDE DEF c
  <2>2. /\ ~ (Len(arrived') < 1) /\ arrived'[Len(arrived')] = hits.next
        /\ (Len(arrived') < 2 <=> c < 1) /\ (~ (c < 1) => arrived'[1] = arrived[1])
    BY <1>1
  <2> HIDE DEF new, lost
  <2> QED
    BY <2>1, <2>2
<1> HIDE DEF c, known, p, first, latest, new, lost
<1> DEFINE S == Packets
           T == Packets'
<1>7. S \subseteq Nat \ {0} /\ T = S \cup {p}
  BY <1>5
<1> HIDE DEF S, T
<1>8. CASE c = 0
  <2>1. c < 1 /\ c < 2
    BY <1>8
  <2>2. known.middle = 0 /\ known.last = 0 /\ Range(diag.lostNetworkPackets) = {} /\ T = {p}
    BY <2>1, <1>2, <1>5, <1>7, <1>8 DEF S
  <2>3. new.last = 0 /\ lost = diag.lostNetworkPackets
    BY <2>2, <1>4
  <2> QED
    BY <2>1, <2>2, <2>3, <1>2, <1>4, <1>6 DEF T
<1>9. CASE c = 1
  <2>1. ~ (c < 1) /\ c < 2 /\ latest = first
    BY <1>9 DEF latest, first
  <2>2. known.middle = first /\ known.last = 0 /\ Range(diag.lostNetworkPackets) = {}
    BY <2>1, <1>2
  <2>3. new.last = first /\ lost = diag.lostNetworkPackets
    BY <2>2, <1>4
  <2>4. first \in S /\ first \in Nat /\ first <= p
    <3>1. first \in Packets
      BY <1>5, <1>9
    <3>2. first <= p
      BY <3>1, <1>5
    <3> QED
      BY <3>1, <3>2, <1>7 DEF S
  <2>5. \A q \in T : q <= first \/ q = p
    <3>1. \A q \in S : q <= first
      BY <2>1, <1>5 DEF S
    <3> QED
      BY <3>1, <1>7
  <2>6. (first + 1 .. first) \ T = {}
    BY <2>4
  <2> QED
    BY <2>1, <2>2, <2>3, <2>4, <2>5, <2>6, <1>2, <1>4, <1>6, <1>7 DEF T
<1>10. CASE c >= 2
  <2>1. ~ (c < 1) /\ ~ (c < 2)
    BY <1>1, <1>10
  <2>2. /\ known.middle = latest /\ known.last \in S /\ known.last <= latest
        /\ \A q \in S : q <= known.last \/ q = latest
        /\ Increasing(diag.lostNetworkPackets)
        /\ Range(diag.lostNetworkPackets) = (first + 1 .. known.last) \ S
    BY <2>1, <1>2 DEF S
  <2>3. /\ latest \in S /\ latest <= p /\ latest \in Nat /\ first \in Nat
        /\ first <= known.last /\ known.last \in Nat /\ known.last # 0
    <3>1. first \in Packets /\ latest \in Packets
      BY <1>1, <1>5, <1>10
    <3>2. latest <= p /\ first <= known.last
      BY <3>1, <2>2, <1>5 DEF S
    <3>3. first \in Nat /\ latest \in Nat /\ latest \in S /\ known.last \in Nat \ {0}
      BY <3>1, <2>2, <1>7 DEF S
    <3> QED
      BY <3>2, <3>3
  <2>4. CASE higher
    <3>1. new.last = latest /\ lost = diag.lostNetworkPackets \o Between(known)
      BY <2>2, <2>3, <2>4, <1>4
    <3>2. /\ Between(known) \in Seq(Nat) /\ Increasing(Between(known))
          /\ Range(Between(known)) = known.last + 1 .. latest - 1
      BY <2>2, <1>3, BetweenIs
    <3>3. \A x \in Range(diag.lostNetworkPackets), y \in Range(Between(known)) : x < y
      BY <3>2, <2>2, <2>3
    <3>4. /\ Increasing(lost)
          /\ Range(lost) = Range(diag.lostNetworkPackets) \cup Range(Between(known))
      BY <3>1, <3>2, <3>3, <2>2, <1>3, IdsFollow
    <3>5. ASSUME NEW x
          PROVE  x \in Range(lost) <=> x \in (first + 1 .. latest) \ T
      <4>1. x \in Range(lost) <=> \/ x \in first + 1 .. known.last /\ x \notin S
                                  \/ x \in known.last + 1 .. latest - 1
        BY <3>2, <3>4, <2>2
      <4>2. x \in first + 1 .. latest /\ x \notin T => x # latest /\ x \notin S
        BY <2>3, <1>7
      <4>3. x \in first + 1 .. latest => x # p
        BY <2>2, <2>3, <2>4, <1>1
      <4>4. x \in known.last + 1 .. latest - 1 => x \notin S
        BY <2>2, <2>3
      <4>5. x \in first + 1 .. latest /\ x # latest
              <=> \/ x \in first + 1 .. known.last /\ x # latest
                  \/ x \in known.last + 1 .. latest - 1
        BY <2>2, <2>3
      <4>6. x \in first + 1 .. known.last => x \in first + 1 .. latest
        BY <2>2, <2>3
      <4> QED
        BY <4>1, <4>2, <4>3, <4>4, <4>5, <4>6, <2>3, <1>7
    <3>6. Range(lost) = (first + 1 .. latest) \ T
      BY <3>5
    <3>7. \A q \in T : q <= latest \/ q = p
      <4>1. \A q \in S : q <= latest
        BY <1>5 DEF S
      <4> QED
        BY <4>1, <1>7
    <3> QED
      BY <3>1, <3>4, <3>6, <3>7, <2>1, <2>3, <1>4, <1>6, <1>7 DEF T
  <2>5. CASE ~ higher
    <3>1. new.last = known.last /\ lost = diag.lostNetworkPackets
      BY <2>3, <2>5, <1>4
    <3>2. p = latest
      BY <2>2, <2>3, <2>5, <1>1
    <3>3. T = S
      BY <3>2, <2>3, <1>7
    <3> QED
      BY <3>1, <3>2, <3>3, <2>1, <2>2, <1>4, <1>6 DEF T
  <2> QED
    BY <2>4, <2>5
<1> QED
  BY <1>1, <1>8, <1>9, <1>10

-----------------------------------------------------------------------------
(* The steps                                                               *)

LEMMA DiagInitInv == DiagInit => DiagInv
<1> SUFFICES ASSUME DiagInit PROVE DiagInv
  OBVIOUS
<1>1. /\ hits \in [next : Nat, channel : Nat, accepted : Nat] /\ hits.next = 0
      /\ hits.accepted \in 0 .. AcceptedMax - RollingThreshold
  <2>1. /\ FirstChannelIds \subseteq Nat
        /\ FirstAcceptedIds \subseteq 0 .. AcceptedMax - RollingThreshold
    BY DiagAssumption
  <2>2. hits \in [next : {0}, channel : FirstChannelIds, accepted : FirstAcceptedIds]
    BY DEF DiagInit
  <2>3. /\ hits = [next |-> hits.next, channel |-> hits.channel, accepted |-> hits.accepted]
        /\ hits.next = 0 /\ hits.channel \in FirstChannelIds
        /\ hits.accepted \in FirstAcceptedIds
    BY <2>2
  <2>4. hits.channel \in Nat /\ hits.accepted \in 0 .. AcceptedMax - RollingThreshold
    BY <2>1, <2>3
  <2>5. hits.accepted \in Nat
    BY <2>4, DiagAssumption
  <2> QED
    BY <2>3, <2>4, <2>5
<1>2. /\ sinceGap = 0 /\ arrived = <<>> /\ Len(arrived) = 0
      /\ diag = [fRolling |-> FALSE, fRollnum |-> 0, fNofRollovers |-> 0,
                 fChannelIds |-> NoHistory, fAcceptedChannelIds |-> NoHistory,
                 fTimeStamps |-> NoHistory, fNetworkPacketNumber |-> NoHistory,
                 lostChannelIds |-> <<>>, lostAcceptedIds |-> <<>>,
                 lostNetworkPackets |-> <<>>]
  BY DEF DiagInit
<1>3. NoHistory \in IdPairs /\ NoHistory.last = 0 /\ NoHistory.middle = 0
  BY DEF NoHistory, IdPairs
<1>4. <<>> \in Seq(Nat) /\ Increasing(<<>>) /\ Range(<<>>) = {}
  BY DEF Increasing, Range
<1> HIDE DEF NoHistory
<1>5. DiagTyped
  <2>1. diag \in Diags
    BY <1>2, <1>3, <1>4 DEF Diags
  <2>2. 0 \in 0 .. MinRun
    BY DiagAssumption
  <2> QED
    BY <1>1, <1>2, <1>4, <2>1, <2>2 DEF DiagTyped
<1>6. EdgeSeen
  <2>1. AcceptedMax \in Nat /\ RollingThreshold \in Nat /\ RollnumThreshold \in Nat /\ Gap \in Nat
    BY DiagAssumption
  <2>2. NextPlace = hits.accepted
    BY <1>1, <1>2, <2>1 DEF NextPlace, AcceptedId
  <2>3. Passed = hits.accepted - (AcceptedMax - RollingThreshold + 1)
    BY <1>2, <2>2 DEF Passed
  <2> QED
    BY <1>1, <1>2, <2>1, <2>2, <2>3 DEF EdgeSeen
<1>7. ChannelKept
  BY <1>2, <1>3, <1>4 DEF ChannelKept
<1>8. AcceptedKept
  BY <1>2, <1>3, <1>4 DEF AcceptedKept
<1>9. PacketKept
  <2>1. DOMAIN arrived = {}
    BY <1>2
  <2>2. Packets = {}
    BY <2>1 DEF Packets
  <2> QED
    BY <1>2, <1>3, <1>4, <2>2 DEF PacketKept
<1> QED
  BY <1>5, <1>6, <1>7, <1>8, <1>9 DEF DiagInv

\* What a step that changes only the counts of the digitizer leaves.
LEMMA ListsStay ==
    ASSUME ChannelKept, AcceptedIdsFit => AcceptedKept, PacketKept,
           UNCHANGED <<arrived, diag>>,
           hits'.channel = hits.channel, hits'.accepted = hits.accepted,
           hits.accepted \in Nat, hits.next \in Nat, hits'.next \in Nat,
           hits.next <= hits'.next
    PROVE  ChannelKept' /\ (AcceptedIdsFit => AcceptedKept)' /\ PacketKept'
<1>1. ChannelKept'
  BY DEF ChannelKept, FirstHit, ChannelId, Missing
<1>2. ASSUME AcceptedIdsFit' PROVE AcceptedKept'
  <2>1. AcceptedIdsFit
    BY <1>2, DiagAssumption DEF AcceptedIdsFit, AcceptedId
  <2> QED
    BY <2>1 DEF AcceptedKept, AcceptedId, Missing
<1>3. PacketKept'
  BY DEF PacketKept, Packets, Packet
<1> QED
  BY <1>1, <1>2, <1>3

LEMMA DiagNextInv == DiagInv /\ [DiagNext]_diagVars => DiagInv'
<1> SUFFICES ASSUME DiagInv, [DiagNext]_diagVars PROVE DiagInv'
  OBVIOUS
<1> USE DEF DiagInv
<1>1. CASE Arrive
  <2>1. DiagTyped'
    <3>1. sinceGap' \in 0 .. MinRun
      <4>1. sinceGap \in 0 .. MinRun /\ MinRun \in Nat
        BY DiagAssumption DEF DiagTyped
      <4>2. sinceGap' = IF sinceGap < MinRun THEN sinceGap + 1 ELSE sinceGap
        BY <1>1 DEF Arrive
      <4> QED
        BY <4>1, <4>2
    <3>2. diag' \in Diags
      BY <1>1, Processed
    <3> QED
      BY <1>1, <3>1, <3>2, HitArrives DEF DiagTyped
  <2>2. EdgeSeen'
    BY <1>1, EdgeKept
  <2>3. ChannelKept'
    BY <1>1, ChannelArrives
  <2>4. ASSUME AcceptedIdsFit' PROVE AcceptedKept'
    <3>1. AcceptedIdsFit
      <4>1. /\ hits'.next = hits.next + 1 /\ hits'.accepted = hits.accepted
            /\ hits.next \in Nat /\ hits.accepted \in Nat
        BY <1>1, HitArrives
      <4> QED
        BY <2>4, <4>1, DiagAssumption DEF AcceptedIdsFit, AcceptedId
    <3> QED
      BY <1>1, <2>4, <3>1, AcceptedArrives
  <2>5. PacketKept'
    BY <1>1, PacketArrives
  <2> QED
    BY <2>1, <2>2, <2>3, <2>4, <2>5
<1>2. CASE NeverArrive
  <2>1. PICK gap \in 1 .. Gap : hits' = [hits EXCEPT !.next = hits.next + gap]
    BY <1>2 DEF NeverArrive
  <2>2. sinceGap >= MinRun /\ sinceGap' = 0 /\ UNCHANGED <<arrived, diag>>
    BY <1>2 DEF NeverArrive
  <2>3. /\ Gap \in Nat /\ gap \in Nat /\ gap <= Gap /\ MinRun \in Nat
        /\ RollnumThreshold \in Nat /\ RollnumThreshold < MinRun
        /\ AcceptedMax \in Nat /\ RollingThreshold \in Nat
    BY DiagAssumption
  <2>4. /\ hits' \in [next : Nat, channel : Nat, accepted : Nat]
        /\ hits'.next = hits.next + gap /\ hits'.channel = hits.channel
        /\ hits'.accepted = hits.accepted /\ hits.next \in Nat /\ hits.accepted \in Nat
    <3>1. hits \in [next : Nat, channel : Nat, accepted : Nat]
      BY DEF DiagTyped
    <3>2. /\ hits.next \in Nat /\ hits.channel \in Nat /\ hits.accepted \in Nat
          /\ hits.next + gap \in Nat
      BY <3>1, <2>3
    <3>3. hits' = [next |-> hits.next + gap, channel |-> hits.channel,
                   accepted |-> hits.accepted]
      BY <2>1, <3>1
    <3> QED
      BY <3>2, <3>3
  <2>5. DiagTyped'
    <3>1. \A i \in 1 .. Len(arrived') : arrived'[i] < hits'.next
      <4> SUFFICES ASSUME NEW i \in 1 .. Len(arrived) PROVE arrived[i] < hits.next + gap
        BY <2>2, <2>4
      <4>1. arrived[i] \in Nat /\ arrived[i] < hits.next
        BY DEF DiagTyped
      <4> QED
        BY <4>1, <2>3, <2>4
    <3>2. sinceGap' \in 0 .. MinRun
      BY <2>2, <2>3
    <3>3. Increasing(arrived)'
      BY <2>2 DEF DiagTyped, Increasing
    <3>4. arrived' \in Seq(Nat) /\ diag' \in Diags
      BY <2>2 DEF DiagTyped
    <3> QED
      BY <2>4, <3>1, <3>2, <3>3, <3>4 DEF DiagTyped
  <2>6. EdgeSeen'
    <3> DEFINE k == diag.fNofRollovers * AcceptedMax
               start == IF diag.fRolling THEN AcceptedMax + RollingThreshold + 1
                        ELSE AcceptedMax - RollingThreshold + 1
    <3>1. diag.fRollnum \in Nat /\ k \in Nat /\ start \in Int /\ sinceGap \in Nat
      <4>1. diag.fRollnum \in Nat /\ diag.fNofRollovers \in Nat /\ sinceGap \in 0 .. MinRun
        BY DEF DiagTyped, Diags
      <4> QED
        BY <4>1, <2>3
    <3>2. NextPlace = (hits.accepted + hits.next) - k
          /\ NextPlace' = (hits'.accepted + hits'.next) - diag'.fNofRollovers * AcceptedMax
      BY DEF NextPlace, AcceptedId
    <3>3. NextPlace' = (hits.accepted + (hits.next + gap)) - k
      BY <2>2, <2>4, <3>2
    <3>4. Passed = NextPlace - start /\ Passed' = NextPlace' - start
      BY <2>2 DEF Passed
    <3> HIDE DEF k, start
    <3>5. NextPlace' = NextPlace + gap /\ Passed' = Passed + gap /\ NextPlace \in Int
          /\ Passed \in Int
      BY <2>3, <2>4, <3>1, <3>2, <3>3, <3>4
    <3>6. /\ IF diag.fRolling THEN NextPlace > AcceptedMax - RollingThreshold
             ELSE NextPlace >= 0
          /\ diag.fRollnum <= RollnumThreshold
          /\ sinceGap <= diag.fRollnum \/ Passed <= diag.fRollnum
      BY DEF EdgeSeen
    <3>7. Passed <= diag.fRollnum
      BY <2>2, <2>3, <3>1, <3>6
    <3>8. /\ IF diag.fRolling THEN NextPlace' > AcceptedMax - RollingThreshold
             ELSE NextPlace' >= 0
          /\ Passed' <= diag.fRollnum + Gap /\ sinceGap' <= diag.fRollnum
      BY <2>2, <2>3, <3>1, <3>5, <3>6, <3>7
    <3> QED
      BY <2>2, <3>6, <3>8 DEF EdgeSeen
  <2>7. ChannelKept' /\ (AcceptedIdsFit => AcceptedKept)' /\ PacketKept'
    <3>1. hits'.next \in Nat /\ hits.next <= hits'.next
      BY <2>3, <2>4
    <3> QED
      BY <2>2, <2>4, <3>1, ListsStay
  <2> QED
    BY <2>5, <2>6, <2>7
<1>3. CASE UNCHANGED diagVars
  <2>1. UNCHANGED <<hits, sinceGap, arrived, diag>>
    BY <1>3 DEF diagVars
  <2>2. DiagTyped' /\ EdgeSeen'
    BY <2>1 DEF DiagTyped, Increasing, EdgeSeen, Passed, NextPlace, AcceptedId
  <2>3. ChannelKept' /\ (AcceptedIdsFit => AcceptedKept)' /\ PacketKept'
    <3>1. hits.next \in Nat /\ hits.accepted \in Nat
      BY DEF DiagTyped
    <3> QED
      BY <2>1, <3>1, ListsStay
  <2> QED
    BY <2>2, <2>3
<1> QED
  BY <1>1, <1>2, <1>3 DEF DiagNext

LEMMA KeptFindsLost == DiagInv => LostIdsAreLost
<1> SUFFICES ASSUME DiagInv, Len(arrived) > FirstHit + 2
             PROVE  LET until == arrived[Len(arrived) - 1]
                        second == arrived[FirstHit + 1]
                    IN  /\ Increasing(diag.lostChannelIds)
                        /\ Range(diag.lostChannelIds) =
                             {ChannelId(n) : n \in Missing(arrived[FirstHit], until)}
                        /\ AcceptedIdsFit => AcceptedLossesReported(second, until)
                        /\ Increasing(diag.lostNetworkPackets)
                        /\ Range(diag.lostNetworkPackets) =
                             (Packet(arrived[1]) + 1 .. diag.fNetworkPacketNumber.last) \ Packets
  <2>1. Len(arrived) \in Nat
    BY DEF DiagInv, DiagTyped
  <2>2. Len(arrived) > 0 => FirstKnown = FirstHit
    BY DEF FirstHit, FirstKnown
  <2>3. (FirstHit = 1 \/ FirstHit = 2) /\ (FirstKnown = 1 \/ FirstKnown = 2)
    BY DEF FirstHit, FirstKnown
  <2> QED
    BY <2>1, <2>2, <2>3 DEF LostIdsAreLost, Packets
<1> DEFINE c == Len(arrived)
           until == arrived[c - 1]
           f == FirstHit
           second == arrived[f + 1]
<1>1. /\ c \in Nat /\ f \in {1, 2} /\ ~ (c < 3) /\ ~ (c < 2)
      /\ hits.accepted \in Nat /\ \A i \in 1 .. c : arrived[i] \in Nat
      /\ Increasing(arrived) /\ DOMAIN arrived = 1 .. c
  BY DEF DiagInv, DiagTyped, FirstHit
<1>2. /\ Increasing(diag.lostChannelIds)
      /\ Range(diag.lostChannelIds) = {ChannelId(n) : n \in Missing(arrived[f], until)}
  BY <1>1 DEF DiagInv, ChannelKept
<1>3. /\ Increasing(diag.lostNetworkPackets)
      /\ Range(diag.lostNetworkPackets) =
           (Packet(arrived[1]) + 1 .. diag.fNetworkPacketNumber.last) \ Packets
  BY <1>1 DEF DiagInv, PacketKept
<1>4. ASSUME AcceptedIdsFit
      PROVE  /\ Increasing(diag.lostAcceptedIds)
             /\ Range(diag.lostAcceptedIds) =
                  1 .. AcceptedId(arrived[2]) - 1
                  \cup {AcceptedId(n) : n \in Missing(arrived[2], until)}
  BY <1>1, <1>4 DEF DiagInv, AcceptedKept
<1>5. arrived[2] \in Nat /\ second \in Nat /\ arrived[2] <= second /\ until \in Nat
  <2>1. 2 \in 1 .. c /\ 3 \in 1 .. c /\ c - 1 \in 1 .. c
    BY <1>1
  <2>2. arrived[2] < arrived[3]
    BY <1>1, <2>1 DEF Increasing
  <2>3. arrived[2] \in Nat /\ arrived[3] \in Nat /\ until \in Nat
    BY <1>1, <2>1
  <2>4. second = arrived[2] \/ second = arrived[3]
    BY <1>1
  <2> QED
    BY <2>2, <2>3, <2>4
<1> HIDE DEF c, f, second, until
<1>6. ASSUME AcceptedIdsFit
      PROVE  {id \in Range(diag.lostAcceptedIds) : id > AcceptedId(second)} =
               {AcceptedId(n) : n \in Missing(second, until)}
  <2>1. ASSUME NEW id \in Range(diag.lostAcceptedIds), id > AcceptedId(second)
        PROVE  \E n \in Missing(second, until) : id = AcceptedId(n)
    <3>1. CASE id \in 1 .. AcceptedId(arrived[2]) - 1
      BY <3>1, <2>1, <1>1, <1>5 DEF AcceptedId
    <3>2. CASE \E n \in Missing(arrived[2], until) : id = AcceptedId(n)
      <4>1. PICK n \in Missing(arrived[2], until) : id = AcceptedId(n)
        BY <3>2
      <4>2. n \in arrived[2] + 1 .. until - 1 /\ n \notin Range(arrived)
        BY DEF Missing
      <4>3. n > second
        BY <4>1, <4>2, <2>1, <1>1, <1>5 DEF AcceptedId
      <4>4. n \in Missing(second, until)
        BY <4>2, <4>3, <1>5 DEF Missing
      <4> QED
        BY <4>1, <4>4
    <3> QED
      BY <3>1, <3>2, <1>4, <1>6
  <2>2. ASSUME NEW n \in Missing(second, until)
        PROVE  AcceptedId(n) \in Range(diag.lostAcceptedIds) /\ AcceptedId(n) > AcceptedId(second)
    <3>1. n \in second + 1 .. until - 1 /\ n \notin Range(arrived)
      BY DEF Missing
    <3>2. n \in Missing(arrived[2], until)
      BY <3>1, <1>5 DEF Missing
    <3>3. AcceptedId(n) > AcceptedId(second)
      BY <3>1, <1>1, <1>5 DEF AcceptedId
    <3> QED
      BY <3>2, <3>3, <1>4, <1>6
  <2> QED
    BY <2>1, <2>2
<1>7. AcceptedIdsFit => AcceptedLossesReported(second, until)
  BY <1>4, <1>6 DEF AcceptedLossesReported
<1> QED
  BY <1>2, <1>3, <1>7 DEF c, f, second, until

\* Each id that is reported as lost is of a hit that never arrived and is
\* reported once, and every such hit is reported as soon as two later ones were
\* seen, for any thresholds and any losses the assumption allows: channel ids
\* and packets always, accepted ids over the rollovers that fit the 16 bits
\* Process has for them (TFragDiagnosticsLoop::Process).
THEOREM LostIdsFound == DiagSpec => []LostIdsAreLost
<1>1. DiagSpec => []DiagInv
  BY DiagInitInv, DiagNextInv, PTL DEF DiagSpec
<1> QED
  BY <1>1, KeptFindsLost, PTL
=============================================================================
