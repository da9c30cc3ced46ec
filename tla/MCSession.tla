------------------------------- MODULE MCSession -------------------------------
(* Session with a few requests.                                            *)
EXTENDS Session
=============================================================================
