SPECIFICATION ObjSpec
CONSTANTS
    Users = {alice}
    Ids = {personal, work}
    Personal = personal
    Uids = {e1, e2}
    Contents = {a}
    Undecodable = {}
    None = None
    Times = {0, 2}
    Retention = 1
    MaxSeq = 2
    MaxFaults = 2
INVARIANTS ObjTypeOK NoSilentGap StaleBodiesAreFlagged
PROPERTIES ReplicaSpec
