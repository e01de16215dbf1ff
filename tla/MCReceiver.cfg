CONSTANTS
    ObsCap = 2
    CountSpan = 8
    MaxFrames = 3
    MaxReports = 0
    Macs = {1, 2}
    Slots = {0, 1}
    NoTrack = NoTrack
    Kinds = {"location"}
    Packs <- EmptyPack
    Signals <- OneSignal
    HideAfter = 1
    EvictAfter = 1
    CountMax = 1
    MaxNow = 3
SPECIFICATION MCSpec
INVARIANTS
    ClearHolds
PROPERTIES
    UpdatesInOrder
    StampsAscend
    ObsHandedOver
    ReachesTable
