-------------------------- MODULE MCEventBuilding --------------------------
(***************************************************************************)
(* TEventBuildingLoop in every build mode, with every combination of flags *)
(* on timestamps and with those that matter on the other keys, on up to    *)
(* four fragments.  With a window of 2 the keys 1, 2 and 4 make one event  *)
(* when the window moves and two when it is static; 1 lies below the       *)
(* window, -1 is a timestamp that an offset has made negative.             *)
(***************************************************************************)
EXTENDS TEventBuildingLoop

MCConfigurations ==
    [mode : {"timestamp"}, static : BOOLEAN, separate : BOOLEAN,
     skipSort : BOOLEAN]
    \cup [mode : {"time"}, static : BOOLEAN, separate : BOOLEAN,
          skipSort : {FALSE}]
    \cup [mode : {"trigger"}, static : {FALSE}, separate : BOOLEAN,
          skipSort : {FALSE}]
    \cup [mode : {"skip"}, static : {FALSE}, separate : {FALSE},
          skipSort : BOOLEAN]
MCKeys == {-1, 1, 2, 4}
MCBuildWindow == 2
MCSortDepth == 2
MCTimestampRange == 32
MCFragmentBound == 4
MCClearBound == 1
=============================================================================
