----------------------------- MODULE TaskGraph -----------------------------
(* The graphs of a runbook: edges are <<task, predecessor>> pairs.          *)

\* What topological_order accepts: every non-empty set of tasks holds one with
\* no predecessor in the set.
Acyclic(S, E) ==
    \A U \in SUBSET S : U # {} => \E t \in U : \A p \in U : <<t, p>> \notin E
=============================================================================
