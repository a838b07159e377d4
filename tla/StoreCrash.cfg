SPECIFICATION FairSpec
CONSTANTS
    Users = {alice}
    Ids = {personal, work}
    Personal = personal
    Uids = {e1}
    Contents = {a, b, x}
    Undecodable = {x}
    None = None
    Times = {0, 2}
    Retention = 1
    MaxSeq = 2
    MaxFaults = 3
INVARIANTS TypeOK LogDescribesIndex TagCoversLog IndexTracksDisk PublishedIsDurable
PROPERTIES CTagTracksIndex RestartHeals
