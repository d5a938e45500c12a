---------------------------- MODULE TFragmentMap ----------------------------
(***************************************************************************)
(* The fragments of piled-up hits (libraries/TDataParser/TFragmentMap.cxx).*)
(* n hits that pile up in one channel arrive as n fragments with 2n - 1    *)
(* integrated charges together; Add keeps those of an address until the    *)
(* charges are complete and then solves for the charge of each hit         *)
(* (module PileUpCharges).                                                 *)
(*                                                                         *)
(* A fragment is a record of its address, the pile-up it is of, its        *)
(* position in it, and its integrals: a sequence that is TRUE where the    *)
(* integration length is positive.  The queues are the sequences of what   *)
(* was pushed.  The digitizer is external: it sends the fragments of a     *)
(* pile-up in the order of the hits, the addresses interleaved, and any    *)
(* of them may be lost on the way.                                         *)
(***************************************************************************)
EXTENDS Naturals, Sequences, FiniteSets, SequencesExt

CONSTANTS
    HitAddresses,
    PileUps,        \* the integrals of the fragments of a pile-up, in order
    PileUpBound,    \* pile-ups at an address
    LossBound       \* fragments lost in a behaviour

\* The sums of the first numbers of a sequence.
Sums(s) ==
    LET sum[n \in 0 .. Len(s)] == IF n = 0 THEN 0 ELSE sum[n - 1] + s[n] IN sum

Lengths(p) == [i \in DOMAIN p |-> Len(p[i])]

\* The hits of a pile-up have 2n - 1 integrals, and each but the first piles
\* up with one before it.
IsPileUp(p) ==
    LET integrals == Sums(Lengths(p)) IN
    /\ Len(p) > 0 /\ \A i \in DOMAIN p : Len(p[i]) > 0
    /\ integrals[Len(p)] = 2 * Len(p) - 1
    /\ \A n \in 1 .. Len(p) - 1 : integrals[n] >= 2 * n

ASSUME FragmentAssumption ==
    /\ PileUps \subseteq Seq(Seq(BOOLEAN))
    /\ \A p \in PileUps : IsPileUp(p)
    /\ PileUpBound \in Nat /\ LossBound \in Nat

VARIABLES
    fMap,           \* address -> fragments that wait for the rest
    goodOutput,     \* fGoodOutputQueue: <<fragment, number of its group>>
    badOutput,      \* fBadOutputQueue
    refused,        \* fragments for which Add returned false
    received,       \* fragments that Add was called with
    sending,        \* address -> fragments the digitizer has still to send
    started,        \* address -> pile-ups begun
    lost            \* fragments lost

fragmentVars == <<fMap, goodOutput, badOutput, refused, received, sending, started,
                  lost>>

-----------------------------------------------------------------------------
(* The digitizer (external)                                                *)

FragmentInit ==
    /\ fMap = [a \in HitAddresses |-> <<>>]
    /\ goodOutput = <<>>
    /\ badOutput = <<>>
    /\ refused = {} /\ received = {}
    /\ sending = [a \in HitAddresses |-> <<>>]
    /\ started = [a \in HitAddresses |-> 0]
    /\ lost = {}

Fragment(a, g, i, integrals) ==
    [address |-> a, pileUp |-> g, hit |-> i, integrals |-> integrals]

PileUp(a, p) ==
    /\ sending[a] = <<>>
    /\ started[a] < PileUpBound
    /\ started' = [started EXCEPT ![a] = @ + 1]
    /\ sending' = [sending EXCEPT ![a] =
                       [i \in DOMAIN p |-> Fragment(a, started[a] + 1, i, p[i])]]
    /\ UNCHANGED <<fMap, goodOutput, badOutput, refused, received, lost>>

Sent(a) ==
    /\ sending[a] # <<>>
    /\ sending' = [sending EXCEPT ![a] = Tail(@)]
    /\ UNCHANGED started

Lose(a) ==
    /\ Cardinality(lost) < LossBound
    /\ Sent(a)
    /\ lost' = lost \cup {Head(sending[a])}
    /\ UNCHANGED <<fMap, goodOutput, badOutput, refused, received>>
-----------------------------------------------------------------------------
(* Add                                                                     *)

IntegralsOf(group) == [i \in DOMAIN group |-> group[i].integrals]
Charges(group) == Sums(Lengths(IntegralsOf(group)))[Len(group)]
Dropped(group) ==
    FoldLeft(LAMBDA n, f : n + Len(SelectSeq(f.integrals, LAMBDA k : ~k)), 0, group)

IsSingle(frag) == Len(frag.integrals) = 1
IsAlone(frag) == IsSingle(frag) /\ fMap[frag.address] = <<>>

\* Faulty: a group counts as complete one fragment early.
CompleteEarly(group) == Charges(group) >= 2 * Len(group) - 1

Complete(group) == Charges(group) = 2 * Len(group) - 1

\* Two hits are solved with one integral missing, three only with all of
\* them, four and more never; the last fragment must have one integral.
CanSolve(group) ==
    /\ IsSingle(Last(group))
    /\ \/ Len(group) = 2 /\ Dropped(group) <= 1
       \/ Len(group) = 3 /\ Dropped(group) = 0

\* Faulty: the fragment that completes the group is pushed first.
PushGroupLastFirst(group) ==
    goodOutput' = goodOutput \o
        [i \in DOMAIN group |-> <<IF i = 1 THEN Last(group) ELSE group[i - 1],
                                 Len(goodOutput) + 1>>]

PushGroup(group) ==
    goodOutput' = goodOutput \o
        [i \in DOMAIN group |-> <<group[i], Len(goodOutput) + 1>>]

PushSingle(frag) ==
    /\ IsAlone(frag)
    /\ PushGroup(<<frag>>)
    /\ UNCHANGED <<fMap, badOutput, refused>>

Wait(frag) ==
    LET group == Append(fMap[frag.address], frag) IN
    /\ ~IsAlone(frag)
    /\ ~Complete(group)
    /\ fMap' = [fMap EXCEPT ![frag.address] = group]
    /\ UNCHANGED <<goodOutput, badOutput, refused>>

SolveGroup(frag) ==
    LET group == Append(fMap[frag.address], frag) IN
    /\ ~IsAlone(frag)
    /\ Complete(group)
    /\ CanSolve(group)
    /\ PushGroup(group)
    /\ fMap' = [fMap EXCEPT ![frag.address] = <<>>]
    /\ UNCHANGED <<badOutput, refused>>

\* Faulty: the fragments that were dropped stay in the map.
DropFragmentsOnly(frag) ==
    LET waiting == fMap[frag.address] IN
    /\ ~IsAlone(frag)
    /\ Complete(Append(waiting, frag))
    /\ ~CanSolve(Append(waiting, frag))
    /\ badOutput' = badOutput \o waiting
    /\ refused' = refused \cup {frag}
    /\ UNCHANGED <<goodOutput, fMap>>

DropFragments(frag) ==
    LET waiting == fMap[frag.address] IN
    /\ ~IsAlone(frag)
    /\ Complete(Append(waiting, frag))
    /\ ~CanSolve(Append(waiting, frag))
    /\ badOutput' = badOutput \o waiting
    /\ fMap' = [fMap EXCEPT ![frag.address] = <<>>]
    /\ refused' = refused \cup {frag}
    /\ UNCHANGED goodOutput

Add(frag) ==
    PushSingle(frag) \/ Wait(frag) \/ SolveGroup(frag) \/ DropFragments(frag)

Receive(a) ==
    /\ Sent(a)
    /\ Add(Head(sending[a]))
    /\ received' = received \cup {Head(sending[a])}
    /\ UNCHANGED lost

FragmentNext ==
    \E a \in HitAddresses :
        \/ \E p \in PileUps : PileUp(a, p)
        \/ Receive(a)
        \/ Lose(a)

FragmentSpec == FragmentInit /\ [][FragmentNext]_fragmentVars
-----------------------------------------------------------------------------
(* What must hold                                                          *)

Waiting == UNION {Range(fMap[a]) : a \in HitAddresses}
Of(a, g, S) == {f \in S : f.address = a /\ f.pileUp = g}
Good == [i \in DOMAIN goodOutput |-> goodOutput[i][1]]

Disjoint(S, T) == S \cap T = {}

\* Of two fragments of an address, which one is of the earlier hit.
Before(e, f) ==
    \/ e.pileUp < f.pileUp
    \/ e.pileUp = f.pileUp /\ e.hit < f.hit

\* Every fragment given to Add is in one place: waiting, in the good
\* output, in the bad output, or handed back; none twice, none nowhere, and
\* none there that was not given to Add.
EveryFragmentOnce ==
    /\ received = Waiting \cup Range(Good) \cup Range(badOutput) \cup refused
    /\ Disjoint(Waiting, Range(Good))
    /\ Disjoint(Waiting \cup Range(Good), Range(badOutput) \cup refused)
    /\ Disjoint(Range(badOutput), refused)
    /\ \A a \in HitAddresses : IsInjective(fMap[a])
    /\ IsInjective(Good) /\ IsInjective(badOutput)

\* The good output keeps the hits of an address in the order they came in:
\* no later hit leaves while an earlier one waits or has still to leave.
ArrivalOrderKept ==
    \A i, j \in DOMAIN goodOutput :
        LET e == goodOutput[i][1]
            f == goodOutput[j][1]
        IN  i < j /\ e.address = f.address => Before(e, f)

\* A pile-up all of whose fragments were received is solved or dropped as a
\* whole, and with no other: a pile-up is torn or mixed only where fragments
\* of its address were lost, and each lost one spoils at most one pile-up
\* besides its own.
TornOrMixed(a, g) ==
    LET own == {i \in DOMAIN goodOutput :
                    goodOutput[i][1].address = a /\ goodOutput[i][1].pileUp = g}
        groups == {goodOutput[i][2] : i \in own}
        bad == Of(a, g, Range(badOutput) \cup refused)
    IN  \/ Cardinality(groups) > 1
        \/ own # {} /\ bad # {}
        \/ \E i \in DOMAIN goodOutput :
               /\ goodOutput[i][2] \in groups
               /\ goodOutput[i][1].pileUp # g
SpoiledOnlyByLoss ==
    \A a \in HitAddresses :
        Cardinality({g \in 1 .. PileUpBound :
                         TornOrMixed(a, g) /\ Of(a, g, lost) = {}})
            <= Cardinality({f \in lost : f.address = a})
=============================================================================
