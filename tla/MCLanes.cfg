\* Two lanes and one device of another kind; three disturbances.
SPECIFICATION Spec
CONSTANTS
    MaxLanes = 2
    f1 = f1
    Foreign = {f1}
    NoKey = NoKey
    NoPrefix = NoPrefix
    Generated = Generated
    MaxDisturbances = 3
INVARIANTS
    TypeOK
    SuccessIsPinned
    PinnedLaneIsFree
    UnsettledMeansLost
PROPERTIES
    NoCollisionMade
    RerunPins
