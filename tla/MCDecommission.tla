--------------------------- MODULE MCDecommission ---------------------------
(* Small tenants for TLC.                                                   *)
EXTENDS Decommission, TLC

\* Ids are interchangeable; instants and statuses are not.
DecommissionSymmetry ==
    Permutations(Envs) \cup Permutations(Decoms) \cup Permutations(Bookings)
        \cup Permutations(Requests) \cup Permutations(Steps)
=============================================================================
