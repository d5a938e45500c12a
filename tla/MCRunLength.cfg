\* Files of one run that are not consecutive.
SPECIFICATION Spec
CONSTANTS
    Parts = {"runs"}
    SolvedSituations = {"pair", "bothWithFirst"}
    IntegralValues = {0, 1}
    IntegrationLengths = {1, 2, 3}
    Addresses = {1, 2}
    Files <- MCFiles
    Values = {5, 7}
    OpBound = 4
    HitAddresses = {1}
    PileUps <- MCPileUps
    PileUpBound = 4
    LossBound = 2
    AcceptedMax = 20
    IdRange = 40
    RollingThreshold = 5
    RollnumThreshold = 1
    FirstChannelIds = {0, 1}
    FirstAcceptedIds = {0, 9}
    HitBound = 41
    MinRun = 9
    Gap = 2
    Classes = {"TGriffin", "TSceptar"}
    EventLists <- MCEventLists
    WriteBound = 5
    NBins = {2, 3}
    BufferSizes = {0, 7}
    Points <- MCPoints
    Weights = {1, 2}
    FillBound = 4
    Runs <- MCRuns
    SubRuns = {0, 1, 2}
    FileBound = 5
    Changes = 9
    TimestampUnits = 10
    Others <- MCOthers
    TimeBound = 60
    PpgOpBound = 2
CHECK_DEADLOCK FALSE
INVARIANT LengthSurvives
