SPECIFICATION FormatSpec
CONSTANTS
    Full = 3
    MaxBytes = 6
INVARIANTS
    CobsExact
    FramesSurvive
    DecodesOnlyFrames
    FirstMatchWins
    HostReportsPack
    MessagesSurvive
