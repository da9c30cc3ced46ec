------------------------------- MODULE MCForms -------------------------------
(* Every form of the web client on two items.                              *)
EXTENDS Forms
=============================================================================
