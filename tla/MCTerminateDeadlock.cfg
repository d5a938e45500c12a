SPECIFICATION FairSpec

CONSTANTS
    SessionOptions <- MCFullOptions
    AllOptions <- MCFullOptions
    Askers <- MCAskers
    News <- MCNews
    MaxSize = 0
    ReadingMaterial <- MCNoMaterial
    EventBound <- MCFullEventBound

CHECK_DEADLOCK FALSE

PROPERTIES
    TerminateKills
