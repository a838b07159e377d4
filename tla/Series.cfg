SPECIFICATION FairSpec
CONSTANTS
    Period = 2
    Length = 1
    Horizon = 5
    Editors = {alice, bob}
    Starts = {3}
    Given <- GivenSeries
    None = None
    MaxTries = 2
    MaxEdits = 3
    MaxFaults = 1
INVARIANTS TypeOK SplitIsExact ExpandIsComplete
PROPERTIES EditsAreAtomic OverridesSurvive EditEnds
CHECK_DEADLOCK FALSE
