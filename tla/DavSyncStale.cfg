SPECIFICATION SyncSpec
CONSTANTS
    Users = {alice}
    Ids = {personal, work}
    Personal = personal
    Uids = {e1}
    Contents = {a}
    Undecodable = {}
    None = None
    Times = {0}
    Retention = 1
    MaxSeq = 3
    MaxFaults = 0
INVARIANTS StaleTokensRejected
