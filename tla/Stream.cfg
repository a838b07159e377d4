SPECIFICATION FairSpec
CONSTANTS
    mine = mine
    shared = shared
    private = private
    bob = bob
    Me = me
    Cals = {mine, shared, private}
    Owner <- OwnerMap
    Cap = 1
    MaxSeq = 2
    MaxConnects = 3
    MaxFails = 1
INVARIANTS TypeOK NoGapBetweenReplayAndLive OnlyAccessible
PROPERTIES ChannelDrains
