CONSTANTS
    Signals <- SomeSignals
SPECIFICATION Spec
INVARIANTS
    AverageInRange
PROPERTIES
    NoOvershoot
    Settles
