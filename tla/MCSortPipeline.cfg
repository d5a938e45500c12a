SPECIFICATION FairSpec

CONSTANTS
    Configurations <- MCConfigurations
    MaxSize <- MCMaxSize

INVARIANTS
    EveryReceiverGetsAll
    Delivered
    NoPushToTheDead

PROPERTIES
    NothingAfterFinish
    PipelineEnds

CHECK_DEADLOCK FALSE
