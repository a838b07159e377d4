----------------------------- MODULE MCReminder -----------------------------
(***************************************************************************)
(* Reminder for TLC: an event that is in two calendars (an invitation is   *)
(* delivered under the organizer's UID), once with an alarm ahead of its   *)
(* start and the same ahead of its end, once, as a single long event, with *)
(* an alarm after its end.                                                 *)
(***************************************************************************)
EXTENDS Reminder

Meeting ==
    {[cal |-> "alice", uid |-> "e1", action |-> "DISPLAY", off |-> -1, related |-> "START",
      len |-> 1, recurring |-> TRUE],
     [cal |-> "alice", uid |-> "e1", action |-> "DISPLAY", off |-> -1, related |-> "END",
      len |-> 1, recurring |-> TRUE],
     [cal |-> "bob", uid |-> "e1", action |-> "DISPLAY", off |-> 1, related |-> "END",
      len |-> 2, recurring |-> FALSE]}
=============================================================================
