SPECIFICATION FairSpec
CONSTANTS
    Period = 2
    Length = 1
    Horizon = 3
    Editors = {alice, bob}
    Starts = {1}
    Given <- GivenSeries
    None = None
    MaxTries = 4
    MaxEdits = 2
    MaxFaults = 0
PROPERTIES DeletionsStay
CHECK_DEADLOCK FALSE
