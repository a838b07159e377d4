------------------------------ MODULE DavSync ------------------------------
(***************************************************************************)
(* WebDAV-Sync (RFC 6578) on top of the store: Store.SyncCollection and a  *)
(* client that keeps, per calendar, a copy and the sync token it was last  *)
(* given (backend/internal/caldav/caldav.go reportSync hands both over).   *)
(* Synchronising writes nothing on the server, so one client stands for    *)
(* any number of them.  A client with no copy holds token 0.               *)
(***************************************************************************)
EXTENDS Store

VARIABLES
    token,      \* per calendar, the client's sync token
    view,       \* per calendar, the etags of the client's copy
    outlived    \* history: copies whose calendar was deleted meanwhile

client   == <<token, view, outlived>>
syncVars == <<vars, client>>

SyncTypeOK ==
    /\ token \in [Cals -> Nat]
    /\ view \in [Cals -> [Uids -> Value]]
    /\ outlived \subseteq Cals

SyncInit ==
    /\ Init
    /\ token = [c \in Cals |-> 0]
    /\ view = [c \in Cals |-> NoEvents]
    /\ outlived = {}

-----------------------------------------------------------------------------
\* MUTANT of TooOld: off by one, the first trimmed seq is still admitted.
TooOldByOne(c) == token[c] > 0 /\ token[c] < minValid[c] - 1

\* since predates the retained log: ErrSyncTokenTooOld, a 409.
TooOld(c) == token[c] > 0 /\ token[c] < minValid[c]

\* MUTANT of Listing: the initial sync is a delta from 0.
ListingFromLog(c) ==
    [u \in Uids |->
        LET rows == Since(c, u, 0) IN
        IF rows = {} THEN view[c][u] ELSE (CHOOSE r \in rows : IsLast(r, rows)).etag]

\* The initial sync lists the members as puts; the client applies them.
Listing(c) == [u \in Uids |-> IF events[c][u] # None THEN events[c][u] ELSE view[c][u]]

\* The log rows after the token, collapsed to the latest of each resource.
Delta(c) ==
    [u \in Uids |->
        LET rows == Since(c, u, token[c]) IN
        IF rows = {} THEN view[c][u] ELSE (CHOOSE r \in rows : IsLast(r, rows)).etag]

Synced(c) == IF token[c] = 0 THEN Listing(c) ELSE Delta(c)

\* SyncCollection holds Store.mu throughout, so it is one step.
SyncCollection(c) ==
    /\ Unlocked
    /\ c \in cals
    /\ ~TooOld(c)
    /\ view' = [view EXCEPT ![c] = Synced(c)]
    /\ token' = [token EXCEPT ![c] = ctag[c]]
    /\ UNCHANGED <<vars, outlived>>

\* MUTANT of Forget: the token is set to an invalid one.
ForgetInvalid(c) ==
    /\ view' = [view EXCEPT ![c] = NoEvents]
    /\ token' = [token EXCEPT ![c] = -1]
    /\ outlived' = outlived \ {c}
    /\ UNCHANGED vars

\* 409 or 404, or the user removes the account: the client drops its copy.
Forget(c) ==
    /\ view' = [view EXCEPT ![c] = NoEvents]
    /\ token' = [token EXCEPT ![c] = 0]
    /\ outlived' = outlived \ {c}
    /\ UNCHANGED vars

Refused(c) ==
    /\ Unlocked
    /\ c \notin cals \/ TooOld(c)
    /\ Forget(c)

\* A step of the store; a copy whose calendar goes has outlived it.
StoreStep ==
    /\ Next
    /\ outlived' = outlived \cup {c \in cals \ cals' : token[c] # 0 \/ view[c] # NoEvents}
    /\ UNCHANGED <<token, view>>

SyncNext == StoreStep \/ \E c \in Cals : SyncCollection(c) \/ Refused(c)

SyncSpec == SyncInit /\ [][SyncNext]_syncVars

-----------------------------------------------------------------------------
(* Properties *)

\* A token the server accepts yields exactly the present collection: no trimmed,
\* lost or reordered log row can leave a silent gap.  Holds for every copy that
\* has not outlived its calendar.
NoSilentGap ==
    \A c \in cals \ outlived : ~TooOld(c) => Synced(c) = events[c]

\* What makes it inductive: a token is a ctag its calendar has had; a resource with
\* no row after a token the floor admits is as the client's copy has it.
SyncInv ==
    /\ SyncTypeOK
    /\ \A c \in Cals \ outlived :
          /\ token[c] <= ctag[c]
          /\ token[c] = 0 => view[c] = NoEvents
          /\ token[c] > 0 /\ token[c] >= minValid[c] =>
                \A u \in Uids : Since(c, u, token[c]) = {} => view[c][u] = events[c][u]

\* The store and its client implement the abstract replica.
Abstract == INSTANCE Replica WITH members <- cals, collection <- events

ReplicaSpec == Abstract!Spec

\* What SyncCollection's comment says of every token: one that predates what the
\* log retains forces a full resync.  A token of a deleted calendar whose id was
\* reused is accepted, and the copy keeps resources that are gone.
StaleTokensRejected ==
    \A c \in cals : ~TooOld(c) => Synced(c) = events[c]
=============================================================================
