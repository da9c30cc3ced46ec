------------------------ MODULE MCDecommissionRacing ------------------------
(* Two requests in flight against one environment.                          *)
EXTENDS DecommissionRacing, TLC

RacingSymmetry == Permutations(Decoms) \cup Permutations(Clients)
=============================================================================
