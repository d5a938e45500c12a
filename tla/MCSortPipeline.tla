--------------------------- MODULE MCSortPipeline ---------------------------
(***************************************************************************)
(* SortPipeline with queues that hold one item (two, where fragments out   *)
(* of order are to pile up), and with the loops of some sorts: to the      *)
(* fragment tree, to the fragment and the analysis tree, to the analysis   *)
(* tree and histograms, and to histograms only.  Where no fragment writer  *)
(* runs nobody takes the bad fragments and the scalers.                    *)
(***************************************************************************)
EXTENDS SortPipeline

ToFragmentTree ==
    [loops |-> {"input", "unpack", "frag_write"},
     separate |-> FALSE, early |-> FALSE, rawEvents |-> 4]

ToTrees ==
    [loops |-> {"input", "unpack", "frag_write", "event_build", "det_build",
                "analysis_write"},
     separate |-> TRUE, early |-> FALSE, rawEvents |-> 2]

ToAnalysis ==
    [loops |-> {"input", "unpack", "event_build", "det_build",
                "analysis_hist", "analysis_write"},
     separate |-> FALSE, early |-> FALSE, rawEvents |-> 2]

ToHistograms ==
    [loops |-> {"input", "unpack", "frag_hist", "event_build", "det_build",
                "analysis_hist"},
     separate |-> FALSE, early |-> TRUE, rawEvents |-> 2]

ToAnalysisTree ==
    [loops |-> {"input", "unpack", "event_build", "det_build",
                "analysis_write"},
     separate |-> TRUE, early |-> FALSE, rawEvents |-> 3]

MCConfigurations == {ToFragmentTree, ToTrees, ToAnalysis, ToHistograms}
MCMaxSize == 0

MCOutOfOrderConfigurations == {ToAnalysisTree}
MCOutOfOrderMaxSize == 1
=============================================================================
