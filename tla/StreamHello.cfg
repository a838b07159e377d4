SPECIFICATION HelloSpec
CONSTANTS
    mine = mine
    shared = shared
    private = private
    bob = bob
    Me = me
    Cals = {mine, shared, private}
    Owner <- OwnerMap
    Cap = 3
    MaxSeq = 3
    MaxConnects = 2
    MaxFails = 0
INVARIANTS MissesNothing
