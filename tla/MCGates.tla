------------------------------ MODULE MCGates ------------------------------
(***************************************************************************)
(* Gates for TLC: no definition orders accounts, addresses, clients,       *)
(* passwords or lookups.                                                   *)
(***************************************************************************)
EXTENDS Gates, TLC

Symmetry ==
    Permutations(Addrs) \cup Permutations(Users)
        \cup Permutations(Searches) \cup Permutations(Clients) \cup Permutations(Tokens)
=============================================================================
