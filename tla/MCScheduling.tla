---------------------------- MODULE MCScheduling ----------------------------
(* Scheduling for TLC: attendees with an account are interchangeable. *)
EXTENDS Scheduling, TLC

Interchangeable == Permutations(Internal)
=============================================================================
