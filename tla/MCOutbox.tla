------------------------------ MODULE MCOutbox ------------------------------
(* Two replicas and a batch smaller than the backlog.  No symmetry: the run  *)
(* checks liveness.                                                          *)
EXTENDS Outbox
=============================================================================
