CONSTANTS
    Macs = {m1, m2, m3, m4}
    NoMac = none
    Headers = {h1, h2}
    SnapshotRows = 4
    ListRows = 3
    EvtCap = 1
SYMMETRY Symmetry
SPECIFICATION UiSpec
INVARIANTS
    UiTypeOK
    ScreenIsCurrent
