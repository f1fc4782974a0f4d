SPECIFICATION ReadsSpec
CONSTANTS
    Gateways = {"A", "B"}
    Gateway = "A"
    AllowedBucketResolutions <- MCResolutions
    Duration <- MCDuration
    MaxRange = 6
    RawWindow = 4
    MinPoints = 2
    MaxPoints = 3
    Rows <- MCRows
    MaxRows = 4
    HistoryRequests <- MCHistoryRequests
    Unknown = Unknown
    Entities <- MCEntities
    GatewayOf <- MCGatewayOf
    TypeOf <- MCTypeOf
    Existing <- MCExisting
    Filters <- MCFilters
    Limits = {0, 1, 2}
    MaxLimit = 2
    Absent = Absent
INVARIANTS
    AnswerIsOneSnapshot
    WalkIsComplete
PROPERTIES
    RefusedOnlyUpFront
    AnswersFollowMembership
