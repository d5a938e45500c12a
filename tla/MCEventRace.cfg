SPECIFICATION Spec

CONSTANTS
    Configurations <- MCConfigurations
    Keys <- MCKeys
    BuildWindow <- MCBuildWindow
    SortDepth <- MCSortDepth
    TimestampRange <- MCTimestampRange
    FragmentBound <- MCFragmentBound
    ClearBound <- MCClearBound

CHECK_DEADLOCK FALSE

INVARIANTS
    PassedOnAllEvents
