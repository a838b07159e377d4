SPECIFICATION Spec
CONSTANTS
    Organizer = alice
    Internal = {bob}
    External = {}
    Rids = {r1}
    None = None
    MaxActs = 3
    MaxClaims = 1
INVARIANTS OverridesDelivered
CHECK_DEADLOCK FALSE
