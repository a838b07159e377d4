SPECIFICATION Spec
CONSTANTS
    Alarms <- Meeting
    Starts = {1, 2}
    None = None
    LookAhead = 2
    BackWindow = 1
    MaxRetry = 1
    MaxTime = 4
    MaxEdits = 2
    MaxFaults = 2
INVARIANTS TypeOK  RaisedOnce RetriesAreBounded
CHECK_DEADLOCK FALSE
