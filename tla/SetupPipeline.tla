--------------------------- MODULE SetupPipeline ---------------------------
(***************************************************************************)
(* Which loops a sort runs and which queues connect them, as               *)
(* TGRSIint::SetupPipeline decides from the input files and the options    *)
(* (libraries/TGRSIint/TGRSIint.cxx).  A queue is a record of the loop     *)
(* that fills it, the loop that empties it (or Nobody) and what it         *)
(* carries.  The names of the output files, which come from run numbers,   *)
(* are left out.                                                           *)
(***************************************************************************)
EXTENDS Naturals, FiniteSets

Nobody == "nobody"

\* raw: a raw file was given, exists, was opened, and is to be sorted.
Options ==
    [raw : BOOLEAN, fragmentTree : BOOLEAN, analysisTree : BOOLEAN,
     fragmentLib : BOOLEAN, analysisLib : BOOLEAN, makeHistos : BOOLEAN,
     writeFragmentTree : BOOLEAN, makeAnalysisTree : BOOLEAN,
     diagnostics : BOOLEAN, separate : BOOLEAN, closeAfterSort : BOOLEAN]

(* What can be made of the inputs, and what is asked for *)

WriteFragmentHistograms(o) ==
    (o.raw \/ o.fragmentTree) /\ o.fragmentLib /\ o.makeHistos

WriteFragmentTree(o) == o.raw /\ o.writeFragmentTree

WriteAnalysisHistograms(o) ==
    (o.raw \/ o.fragmentTree \/ o.analysisTree) /\ o.analysisLib /\ o.makeHistos

WriteAnalysisTree(o) == (o.raw \/ o.fragmentTree) /\ o.makeAnalysisTree

WritesAnything(o) ==
    \/ WriteFragmentHistograms(o) \/ WriteFragmentTree(o)
    \/ WriteAnalysisHistograms(o) \/ WriteAnalysisTree(o)

(* The steps from the one to the other *)

ReadFromRaw(o) == o.raw /\ WritesAnything(o)

ReadFromFragmentTree(o) ==
    /\ o.fragmentTree
    /\ \/ WriteFragmentHistograms(o) \/ WriteAnalysisHistograms(o)
       \/ WriteAnalysisTree(o)

GenerateAnalysisData(o) ==
    /\ ReadFromRaw(o) \/ ReadFromFragmentTree(o)
    /\ WriteAnalysisHistograms(o) \/ WriteAnalysisTree(o)

WriteDiagnostics(o) ==
    ~WriteFragmentTree(o) /\ o.diagnostics /\ WriteAnalysisTree(o)

\* Histograms of an analysis tree that is not made in this sort: exit(1).
GivesUp(o) == WriteAnalysisHistograms(o) /\ ~GenerateAnalysisData(o)

(* The loops, and the queues between them *)

FragmentReceivers(o) ==
    {l \in {"3_frag_hist_loop", "4_frag_write_loop", "4_frag_diag_loop",
            "5_event_build_loop"} :
        \/ l = "3_frag_hist_loop"   /\ WriteFragmentHistograms(o)
        \/ l = "4_frag_write_loop"  /\ WriteFragmentTree(o)
        \/ l = "4_frag_diag_loop"   /\ WriteDiagnostics(o)
        \/ l = "5_event_build_loop" /\ GenerateAnalysisData(o)}

DetectorReceivers(o) ==
    {l \in {"7_analysis_hist_loop", "8_analysis_write_loop"} :
        \/ l = "7_analysis_hist_loop"  /\ WriteAnalysisHistograms(o)
        \/ l = "8_analysis_write_loop" /\ WriteAnalysisTree(o)}

Sources == {"1_input_loop", "1_chain_loop"}

\* In the order of their names, which is the order of fThreadMap.
LoopsOf(o) ==
    {l \in Sources \cup {"2_unpack_loop"} :
        IF l = "1_chain_loop" THEN ReadFromFragmentTree(o) ELSE ReadFromRaw(o)}
    \cup FragmentReceivers(o)
    \cup (IF GenerateAnalysisData(o) THEN {"6_det_build_loop"} ELSE {})
    \cup DetectorReceivers(o)

Queue(from, to, item) == [from |-> from, to |-> to, item |-> item]

\* Faulty: the queue of the unpacking loop is not replaced by the chain's.
FragmentQueuesOfBoth(o) ==
    {Queue("1_chain_loop", l, "fragment") :
        l \in {k \in FragmentReceivers(o) : ReadFromFragmentTree(o)}}
    \cup {Queue("2_unpack_loop", l, "fragment") :
            l \in {k \in FragmentReceivers(o) : ReadFromRaw(o)}}

\* A queue the unpacking loop adds for a receiver stays on its list when the
\* receiver is then given the queue of the chain instead.
FragmentQueues(o) ==
    {Queue("1_chain_loop", l, "fragment") :
        l \in {k \in FragmentReceivers(o) : ReadFromFragmentTree(o)}}
    \cup {Queue("2_unpack_loop",
                IF ReadFromFragmentTree(o) THEN Nobody ELSE l, "fragment") :
            l \in {k \in FragmentReceivers(o) : ReadFromRaw(o)}}

RawQueues(o) ==
    IF ~ReadFromRaw(o) THEN {}
    ELSE LET writer == IF WriteFragmentTree(o) THEN "4_frag_write_loop"
                       ELSE Nobody
         IN  {Queue("1_input_loop", "2_unpack_loop", "event"),
              Queue("2_unpack_loop", writer, "bad"),
              Queue("2_unpack_loop", writer, "scaler")}

AnalysisQueues(o) ==
    IF ~GenerateAnalysisData(o) THEN {}
    ELSE {Queue("5_event_build_loop", "6_det_build_loop", "event")}
         \cup {Queue("6_det_build_loop", l, "detectors") :
                 l \in DetectorReceivers(o)}
         \cup (IF o.separate
               THEN {Queue("5_event_build_loop",
                           IF WriteAnalysisTree(o) THEN "8_analysis_write_loop"
                           ELSE Nobody, "out_of_order")}
               ELSE {})

QueuesOf(o) == FragmentQueues(o) \cup RawQueues(o) \cup AnalysisQueues(o)

-----------------------------------------------------------------------------
(* Properties *)

\* Every loop that is not a source has an input queue; all queues connect
\* loops of this sort; and what a loop reads of one kind comes from a single
\* queue, although SetupPipeline may assign InputQueue twice (613-618,
\* 626-634, 653-658).
EveryLoopFedOnce(o) ==
    /\ \A l \in LoopsOf(o) \ Sources : \E q \in QueuesOf(o) : q.to = l
    /\ \A q \in QueuesOf(o) :
          /\ q.from \in LoopsOf(o)
          /\ q.to \in LoopsOf(o) \cup {Nobody}
          /\ \A p \in QueuesOf(o) :
                p.to = q.to /\ p.item = q.item /\ q.to # Nobody => p = q

\* Nobody takes from a queue only when a raw file and fragment trees are
\* sorted together, when a raw file is sorted without a fragment tree (its
\* bad fragments and scalers), or when fragments out of order are separated
\* without an analysis tree.
OrphansOnlyWhenAllowed(o) ==
    \A q \in QueuesOf(o) :
        q.to = Nobody =>
            \/ o.raw /\ o.fragmentTree
            \/ q.item \in {"bad", "scaler"} /\ ~o.writeFragmentTree
            \/ q.item = "out_of_order" /\ ~o.makeAnalysisTree
=============================================================================
