------------------------------ MODULE MCAccess ------------------------------
(***************************************************************************)
(* Access for TLC: one of two calendars is shared in each way there is;    *)
(* grantees, and grant ids, are interchangeable.                           *)
(***************************************************************************)
EXTENDS Access, TLC

CONSTANTS home, club, team

AllOffers ==
    {[cal |-> home, kind |-> "holistic", ref |-> team, level |-> "view", ext |-> FALSE],
     [cal |-> home, kind |-> "contax", ref |-> None, level |-> "edit", ext |-> FALSE],
     [cal |-> home, kind |-> "adhoc", ref |-> None, level |-> "view", ext |-> TRUE]}

Interchangeable == Permutations(Users) \cup Permutations(GrantIds)
=============================================================================
