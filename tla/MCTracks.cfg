CONSTANTS
    Macs = {1, 2, 3, 4}
    Slots = {0, 1, 2}
    NoTrack = NoTrack
    Kinds = {"location"}
    Packs <- SomePacks
    Signals <- TwoSignals
    HideAfter = 1
    EvictAfter = 2
    CountMax = 2
    MaxNow = 4
    SnapshotRows = 2
    NoSlot = 9
    LastMac = 9
SPECIFICATION TracksSpec
INVARIANTS
    RowsAreStrongest
    TracksTypeOK
    OneTrackPerMac
    OwnData
    NewestKept
