------------------------- MODULE MCRunbookSchedule -------------------------
(* One plan, one manager reporting for everyone.                            *)
EXTENDS RunbookSchedule, TLC

CONSTANT boss
MCMemberOf == boss :> Teams
TaskSymmetry == Permutations(Tasks)
=============================================================================
