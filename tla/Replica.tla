------------------------------ MODULE Replica ------------------------------
(***************************************************************************)
(* What calendar synchronisation promises, with no log, token or floor: a  *)
(* collection changes as it likes, and a client's copy of it is replaced   *)
(* by an exact copy in one step, or dropped.  The one exception the store  *)
(* leaves is a copy that outlived its collection (the calendar was deleted *)
(* and its id reused): nothing is promised of it until it is dropped.      *)
(***************************************************************************)
CONSTANTS Cals, Uids, Contents, None

VARIABLES
    members,     \* the calendars that exist
    collection,  \* per calendar, the etag of each resource, None when absent
    view,        \* per calendar, the client's copy
    outlived     \* copies of calendars that were deleted meanwhile

vars == <<members, collection, view, outlived>>

Copy  == [Uids -> Contents \cup {None}]
Empty == [u \in Uids |-> None]

Init ==
    /\ members = {}
    /\ collection = [c \in Cals |-> Empty]
    /\ view = [c \in Cals |-> Empty]
    /\ outlived = {}

\* Calendars come, and resources change in one calendar.
Change ==
    /\ \E new \in SUBSET Cals : members' = members \cup new
    /\ \/ UNCHANGED collection
       \/ \E c \in members', copy \in Copy : collection' = [collection EXCEPT ![c] = copy]
    /\ UNCHANGED <<view, outlived>>

Remove(c) ==
    /\ c \in members
    /\ members' = members \ {c}
    /\ collection' = [collection EXCEPT ![c] = Empty]
    /\ outlived' \in {outlived, outlived \cup {c}}
    /\ c \notin outlived' => view[c] = Empty
    /\ UNCHANGED view

Sync(c) ==
    /\ c \in members
    /\ \/ view' = [view EXCEPT ![c] = collection[c]]
       \/ c \in outlived /\ \E copy \in Copy : view' = [view EXCEPT ![c] = copy]
    /\ UNCHANGED <<members, collection, outlived>>

Forget(c) ==
    /\ view' = [view EXCEPT ![c] = Empty]
    /\ outlived' = outlived \ {c}
    /\ UNCHANGED <<members, collection>>

Next == Change \/ \E c \in Cals : Remove(c) \/ Sync(c) \/ Forget(c)

Spec == Init /\ [][Next]_vars
=============================================================================
