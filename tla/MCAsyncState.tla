----------------------------- MODULE MCAsyncState -----------------------------
(* AsyncState with the keys interchangeable.                               *)
EXTENDS AsyncState

KeySymmetry == Permutations(Keys)
=============================================================================
