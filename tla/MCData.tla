------------------------------- MODULE MCData -------------------------------
(***************************************************************************)
(* The modules of the data - calibrations, piled-up fragments and their    *)
(* charges, lost ids, the analysis tree, histograms, run infos, the cycle  *)
(* pattern - for TLC.  They share nothing: a behaviour is of one of them,  *)
(* and the others stay as they are.                                        *)
(***************************************************************************)
EXTENDS TChannel, TFragmentMap, PileUpCharges, TFragDiagnosticsLoop,
        TAnalysisWriteLoop, GHSym, TRunInfo, TPPG

CONSTANTS
    Parts           \* which modules a run checks

VARIABLE part

dataVars == <<part, channelVars, fragmentVars, solveVars, diagVars, writeVars,
              histVars, runVars, ppgVars>>

Init ==
    /\ part \in Parts
    /\ ChannelInit
    /\ FragmentInit
    /\ SolveInit
    /\ part # "charges" =>
           /\ situation = "pair"
           /\ \A i \in DOMAIN charges : charges[i] = 0 /\ kValues[i] = 1
    /\ DiagInit
    /\ part # "diagnostics" => hits.channel = 0 /\ hits.accepted = 0
    /\ WriteInit
    /\ HistInit
    /\ part # "histogram" => hist.nbins = 2 /\ hist.size = 0
    /\ RunInit
    /\ part # "runs" => added = {<<5, 0>>}
    /\ PpgInit

Channels ==
    /\ part = "channels"
    /\ ChannelNext
    /\ UNCHANGED <<part, fragmentVars, solveVars, diagVars, writeVars, histVars,
                   runVars, ppgVars>>

Fragments ==
    /\ part = "fragments"
    /\ FragmentNext
    /\ UNCHANGED <<part, channelVars, solveVars, diagVars, writeVars, histVars,
                   runVars, ppgVars>>

PileUpSolved ==
    /\ part = "charges"
    /\ SolveNext
    /\ UNCHANGED <<part, channelVars, fragmentVars, diagVars, writeVars, histVars,
                   runVars, ppgVars>>

Diagnostics ==
    /\ part = "diagnostics"
    /\ DiagNext
    /\ UNCHANGED <<part, channelVars, fragmentVars, solveVars, writeVars, histVars,
                   runVars, ppgVars>>

AnalysisTree ==
    /\ part = "tree"
    /\ WriteNext
    /\ UNCHANGED <<part, channelVars, fragmentVars, solveVars, diagVars, histVars,
                   runVars, ppgVars>>

Histogram ==
    /\ part = "histogram"
    /\ HistNext
    /\ UNCHANGED <<part, channelVars, fragmentVars, solveVars, diagVars, writeVars,
                   runVars, ppgVars>>

RunsOfFiles ==
    /\ part = "runs"
    /\ RunNext
    /\ UNCHANGED <<part, channelVars, fragmentVars, solveVars, diagVars, writeVars,
                   histVars, ppgVars>>

CyclePattern ==
    /\ part = "ppg"
    /\ PpgNext
    /\ UNCHANGED <<part, channelVars, fragmentVars, solveVars, diagVars, writeVars,
                   histVars, runVars>>

Next ==
    \/ Channels \/ Fragments \/ PileUpSolved \/ Diagnostics \/ AnalysisTree
    \/ Histogram \/ RunsOfFiles \/ CyclePattern

Spec == Init /\ [][Next]_dataVars

AllParts ==
    {"channels", "fragments", "charges", "diagnostics", "tree", "histogram",
     "runs", "ppg"}

\* Channels: two files that agree on the addresses and one that names one of
\* them and gives an entry without an address; their numbers cross over.
Entry(a, n, g, l, r) ==
    [address |-> a, number |-> n, gain |-> g, led |-> l, range |-> r]
MCFiles == {<<Entry(1, 5, 1, 1, 1), Entry(2, 6, 1, 0, 0)>>, <<Entry(1, 6, 2, 0, 2)>>,
            <<Entry(2, 5, 0, 0, 2), Entry(0, 7, 2, 1, 0)>>}

\* Fragments: one hit, two, three in both situations, four, and two with one
\* integral missing, from the first fragment or from the second.
T(n) == [i \in 1 .. n |-> TRUE]
MCPileUps == {<<T(1)>>, <<T(2), T(1)>>, <<T(3), T(1), T(1)>>,
              <<T(2), T(2), T(1)>>, <<T(2), <<FALSE>>>>,
              <<<<FALSE, FALSE>>, T(1)>>, <<T(3), T(2), T(1), T(1)>>}

\* Events: no detector, one of two classes, both in either order.
MCEventLists == {<<>>, <<"TGriffin">>, <<"TSceptar">>, <<"TGriffin", "TSceptar">>,
                 <<"TSceptar", "TGriffin">>}

\* Fills: both orders of two values, the diagonal, underflow and overflow.
MCPoints == {<<1, 2>>, <<2, 1>>, <<2, 2>>, <<0, 3>>, <<3, 1>>}

\* Runs: four in a row, three sub runs of each.
MCRuns == 4 .. 7

\* Patterns of other files: none, a whole cycle with a gap, two changes.
MCOthers == {{}, {1, 2, 5}, {2, 3}}
=============================================================================
