------------------------------ MODULE MCStream ------------------------------
(***************************************************************************)
(* Stream for TLC: the user owns one calendar; bob owns two, of which the  *)
(* user sees those granted at the moment.                                  *)
(***************************************************************************)
EXTENDS Stream, TLC

CONSTANTS mine, shared, private, bob

OwnerMap == (mine :> Me) @@ (shared :> bob) @@ (private :> bob)
=============================================================================
