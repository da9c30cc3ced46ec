-------------------------- MODULE MCRunbookRacing --------------------------
(* Two requests in flight against one slot of one release.                  *)
EXTENDS RunbookRacing, TLC

CONSTANTS g, boss
MCMemberOf == boss :> Teams
RacingSymmetry == Permutations(Tasks) \cup Permutations(Requests)
=============================================================================
