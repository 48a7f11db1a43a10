CONSTANTS
    o1 = o1
    o2 = o2
    t1 = t1
    t2 = t2
    r1 = r1
    r2 = r2
    r3 = r3
    r4 = r4
    Observers = {o1, o2}
    Txids = {t1, t2}
    Times = {1, 2}
    RemovalCauses = {"Mined"}
    Healths <- SourceHealths
    MaxSnapshot = 2
    MaxRevisions = 3
    MaximumClockOffset = 1
    Unknown = Unknown
    GraphTxids = {r1, r2, r3, r4}
    Inputs <- SpendsOf
    Topics = {"sequence", "rawtx"}
    Modulus = 3
    Capacity = 2
    MaxNotifications <- NotificationBounds
    MaxSessions = 2
    Nothing = Nothing
    w1 = w1
    w2 = w2
    d1 = d1
    d2 = d2
    Definitions <- AlertDefinitions
    Deployments <- AlertDeployments
    quorum_required = 2
    Never = Never
    Workers = {w1, w2}
    Deliverers = {d1, d2}
    Kinds <- SnapshotKinds
    MaxFeed = 6
    Limit = 2
    MaxFaults = 2
CHECK_DEADLOCK FALSE
SPECIFICATION Spec
INVARIANT ReplayGivesMembers
PROPERTY AggregateIsSound
INVARIANT GraphIsExact
INVARIANT GapsRepaired
INVARIANT StateIsReplay
INVARIANT AlertsFollowRule
PROPERTY AlertsDelivered
