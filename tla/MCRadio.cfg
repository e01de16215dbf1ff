CONSTANTS
    CmdCap = 3
    Period = 2
    MaxLate = 4
    MaxErrors = 2
SPECIFICATION RadioSpec
INVARIANTS
    RadioTypeOK
PROPERTIES
    PresetsCycle
    FirstDwell
    HopCovers
