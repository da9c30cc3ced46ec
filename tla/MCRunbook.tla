----------------------------- MODULE MCRunbook -----------------------------
(* Runbook on small sets: one manager, one member of the only team.         *)
EXTENDS Runbook, TLC

CONSTANTS g, boss, ann
MCMemberOf == (boss :> {}) @@ (ann :> Teams)
TaskSymmetry == Permutations(Tasks)
=============================================================================
