----------------------------- MODULE MCTGRSIint -----------------------------
(***************************************************************************)
(* SetupPipeline under every combination of its options; sessions that     *)
(* sort a chain of fragment trees into fragment histograms, whose user     *)
(* library runs commands, and end with the sort or not; one that sorts     *)
(* nothing; and one asked for histograms of an analysis tree, which        *)
(* SetupPipeline refuses.                                                  *)
(***************************************************************************)
EXTENDS TGRSIint

Sort(chain, analysis, close) ==
    [raw |-> FALSE, fragmentTree |-> chain, analysisTree |-> analysis,
     fragmentLib |-> chain, analysisLib |-> analysis,
     makeHistos |-> TRUE, writeFragmentTree |-> FALSE,
     makeAnalysisTree |-> FALSE, diagnostics |-> FALSE, separate |-> FALSE,
     closeAfterSort |-> close]

MCAllOptions == Options
MCSessionOptions ==
    {Sort(TRUE, FALSE, TRUE), Sort(TRUE, FALSE, FALSE),
     Sort(FALSE, FALSE, FALSE), Sort(FALSE, TRUE, TRUE)}
\* ReadTheNews runs beside the sessions that stay open.
MCReadingMaterial == {o \in MCSessionOptions : ~o.closeAfterSort}
\* A sort that ends with its input, by itself.
MCFullOptions == {Sort(TRUE, FALSE, TRUE)}
MCNoMaterial == {}

\* With three events a source may wait in Push while the loop behind it waits
\* for an answer.
MCEventBound == [o \in Options |-> IF o.closeAfterSort THEN 3 ELSE 2]
MCFullEventBound == [o \in MCFullOptions |-> MCEventBound[o]]

MCAskers == {"3_frag_hist_loop"}
MCNews == "news"
=============================================================================
