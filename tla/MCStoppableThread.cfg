SPECIFICATION FairSpec

CONSTANTS
    input_loop = input_loop
    unpack_loop = unpack_loop
    write_loop = write_loop
    Loops <- MCLoops
    Sources <- MCSources
    Feeder <- MCFeeder
    MapOrder <- MCMapOrder
    PushBound = 1

\* The program ends when Terminate has deleted the loops.
CHECK_DEADLOCK FALSE

INVARIANTS
    AtMostOneLateIteration
    NoFeederLeftBehind
    DeletedAfterEnd

PROPERTIES
    StopWaitsForIteration
    TerminateEnds
