----------------------------- MODULE DavObjects -----------------------------
(***************************************************************************)
(* The bodies a client gets with a sync report (backend/internal/caldav/   *)
(* caldav.go reportSync, objectResponse): the tags and the token are one   *)
(* snapshot of the index, taken under Store.mu; the bodies are read from   *)
(* the files afterwards, one by one and without the lock (Store.RawEvent). *)
(* A body may therefore be newer than the tag it is sent with, or missing. *)
(*                                                                         *)
(* A report that does not arrive leaves the client as it was, and the      *)
(* server too: it is left out, and with it the crash of the daemon while   *)
(* it writes one.                                                          *)
(***************************************************************************)
EXTENDS DavSync

VARIABLES
    body,       \* per calendar, the bodies of the client's copy
    fetch,      \* the report being written: its calendar, the bodies still to be read
    torn        \* history: slots whose file a fault left without a row, none logged since

objVars == <<syncVars, body, fetch, torn>>

NoFetch == [todo |-> {}]

ObjTypeOK ==
    /\ SyncTypeOK
    /\ body \in [Cals -> [Uids -> Value]]
    /\ fetch \in {NoFetch} \cup [cal : Cals, todo : SUBSET Uids]
    /\ torn \subseteq Slots

ObjInit ==
    /\ SyncInit
    /\ body = [c \in Cals |-> NoEvents]
    /\ fetch = NoFetch
    /\ torn = {}

-----------------------------------------------------------------------------
\* The resources a report names: all members, or those with a row after the token.
Reported(c) ==
    IF token[c] = 0 THEN {u \in Uids : events[c][u] # None}
    ELSE {u \in Uids : Since(c, u, token[c]) # {}}

\* The report is complete when no body is left to read.
Reading(c, us) == IF us = {} THEN NoFetch ELSE [cal |-> c, todo |-> us]

\* The snapshot.  A tombstone is reported as 404 and has no body.
Query(c) ==
    /\ fetch = NoFetch
    /\ SyncCollection(c)
    /\ fetch' = Reading(c, {u \in Reported(c) : Synced(c)[u] # None})
    /\ body' = [body EXCEPT ![c] = [u \in Uids |->
                   IF u \in Reported(c) /\ Synced(c)[u] = None THEN None ELSE @[u]]]
    /\ UNCHANGED torn

\* RawEvent: the row says whether there is a resource, and then the file is read;
\* what was written or removed in between shows.  No file, no calendar-data.
RawEvent(c, u) ==
    {disk[c][u]} \cup IF c \notin cals \/ events[c][u] = None THEN {None} ELSE {}

\* MUTANT of ReadBody: the token handed over is the ctag when the last body was read.
ReadBodyThenToken(u) ==
    /\ u \in fetch.todo
    /\ \E b \in RawEvent(fetch.cal, u) : body' = [body EXCEPT ![fetch.cal][u] = b]
    /\ fetch' = Reading(fetch.cal, fetch.todo \ {u})
    /\ token' = [token EXCEPT ![fetch.cal] = ctag[fetch.cal]]
    /\ UNCHANGED <<vars, view, outlived, torn>>

ReadBody(u) ==
    /\ u \in fetch.todo
    /\ \E b \in RawEvent(fetch.cal, u) : body' = [body EXCEPT ![fetch.cal][u] = b]
    /\ fetch' = Reading(fetch.cal, fetch.todo \ {u})
    /\ UNCHANGED <<syncVars, torn>>

\* The copy that is dropped has no bodies any more.
ForgetAll(c) ==
    /\ fetch = NoFetch
    /\ Refused(c)
    /\ body' = [body EXCEPT ![c] = NoEvents]
    /\ UNCHANGED <<fetch, torn>>

\* A mutation is between its file and its index step on this slot.
HalfWay(c, u) == busy.op \in {"put", "delete"} /\ busy.cal = c /\ busy.uid = u

\* The step writes a change-log row of this slot.
Logs(c, u) == \E r \in changelog' : r.cal = c /\ r.uid = u /\ r.seq > lastSeq

\* The step is a fault that loses the row of a mutation half way, or changes the file.
Tears(c, u) == faults' # faults /\ (HalfWay(c, u) \/ disk'[c][u] # disk[c][u])

ServerStep ==
    /\ StoreStep
    /\ fetch # NoFetch => phase' = "up"
    /\ torn' = {s \in Slots : Tears(s[1], s[2]) \/ (s \in torn /\ ~Logs(s[1], s[2]))}
    /\ UNCHANGED <<body, fetch>>

ObjNext ==
    \/ ServerStep
    \/ \E c \in Cals : Query(c) \/ ForgetAll(c)
    \/ \E u \in Uids : ReadBody(u)

ObjSpec == ObjInit /\ [][ObjNext]_objVars

-----------------------------------------------------------------------------
(* Properties *)

\* The report under way has yet to read the body of this resource.
Pending(c, u) == fetch # NoFetch /\ fetch.cal = c /\ u \in fetch.todo

\* A body that is not the present one will be reported again: its resource has a
\* log row after the client's token, or the token will be refused, or the row that
\* is missing is about to be written, or was lost to a fault.  So the next reports
\* repair what the gap between tags and bodies let through, even when the resource
\* has meanwhile been changed back and its tag is the old one.
StaleBodiesAreFlagged ==
    \A c \in cals \ outlived, u \in Uids :
        body[c][u] # events[c][u] =>
            \/ Pending(c, u)
            \/ TooOld(c)
            \/ Since(c, u, token[c]) # {}
            \/ token[c] = 0 /\ body[c] = NoEvents
            \/ HalfWay(c, u)
            \/ <<c, u>> \in torn

\* What makes it inductive.  A report is written while the daemon serves, from a
\* calendar that exists or that the copy has outlived; what is still to be read was a
\* resource when the tags were, and is one now or has a row to say that it is not.
FetchInv ==
    fetch # NoFetch =>
        /\ phase = "up"
        /\ fetch.cal \in cals \cup outlived
        /\ fetch.cal \notin outlived =>
              /\ token[fetch.cal] > 0
              /\ TooOld(fetch.cal) \/ \A u \in fetch.todo :
                     Since(fetch.cal, u, token[fetch.cal]) = {} => events[fetch.cal][u] # None

\* File and row of a resource differ only half way through a mutation or after a fault.
TornInv ==
    \A c \in cals, u \in Uids :
        disk[c][u] # events[c][u] =>
            events[c][u] = None \/ HalfWay(c, u) \/ <<c, u>> \in torn

\* A client with no token has no bodies; it has none of a resource it knows to be
\* gone, and that of any other is the present one unless it is flagged.
BodyInv ==
    \A c \in Cals \ outlived :
        /\ token[c] = 0 => body[c] = NoEvents
        /\ token[c] > 0 /\ ~TooOld(c) =>
              \A u \in Uids :
                  /\ Since(c, u, token[c]) = {}
                  /\ body[c][u] # events[c][u]
                  => /\ events[c][u] # None
                     /\ Pending(c, u) \/ HalfWay(c, u) \/ <<c, u>> \in torn

ObjInv == ObjTypeOK /\ FetchInv /\ TornInv /\ BodyInv
=============================================================================
