----------------------------- MODULE MCServerGrid -----------------------------
(* ServerGrid on small result sets.                                        *)
EXTENDS ServerGrid
=============================================================================
