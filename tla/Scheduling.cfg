SPECIFICATION Spec
CONSTANTS
    Organizer = alice
    Internal = {bob, carol}
    External = {xeno}
    Rids = {r1}
    None = None
    MaxActs = 3
    MaxClaims = 1
INVARIANTS TypeOK NobodyAnswersForAnother AuthorityHolds  
CHECK_DEADLOCK FALSE
SYMMETRY Interchangeable
