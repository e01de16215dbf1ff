CONSTANTS
    LongPolls = 4
    SameMax = 3
    MaxBehind = 1
    MaxPolls = 9
SPECIFICATION Spec
PROPERTIES
    LongPressClears
