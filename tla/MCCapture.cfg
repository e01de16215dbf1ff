CONSTANTS
    ObsCap = 1
    CountSpan = 6
    MaxFrames = 7
    MaxReports = 2
    RunUp = 4
SPECIFICATION MCSafety
INVARIANTS
    CaptureTypeOK
    ObsConserved
    LossesReported
