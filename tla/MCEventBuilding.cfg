SPECIFICATION FairSpec

CONSTANTS
    Configurations <- MCConfigurations
    Keys <- MCKeys
    BuildWindow <- MCBuildWindow
    SortDepth <- MCSortDepth
    TimestampRange <- MCTimestampRange
    FragmentBound <- MCFragmentBound
    ClearBound <- MCClearBound

CHECK_DEADLOCK FALSE

INVARIANTS
    TypeOK
    EveryFragmentInOnePlace
    EventsWithinWindow
    NoNeedlessSplit
    NoEmptyEvent
    SortedIfDepthSuffices
    AllDelivered

PROPERTIES
    FinishesAfterParent
