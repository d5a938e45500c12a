SPECIFICATION FairSpec

CONSTANTS
    SessionOptions <- MCSessionOptions
    AllOptions <- MCAllOptions
    Askers <- MCAskers
    News <- MCNews
    MaxSize = 0
    ReadingMaterial <- MCReadingMaterial
    EventBound <- MCEventBound

CHECK_DEADLOCK FALSE

INVARIANTS
    WiringSound
    EveryLineRunOnce

PROPERTIES
    CleanupNotReentered
    EveryCommandAnswered
    TerminationEnds
