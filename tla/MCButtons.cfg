CONSTANTS
    LongPolls = 4
    SameMax = 4
    MaxBehind = 3
    MaxPolls = 15
SPECIFICATION Spec
INVARIANTS
    ButtonsTypeOK
    AnswersAsPromised
PROPERTIES
    LongTakesTime
