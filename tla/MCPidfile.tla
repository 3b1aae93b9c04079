----------------------------- MODULE MCPidfile -----------------------------
(* Small instances of Pidfile for TLC. *)
EXTENDS Pidfile, TLC

\* Runs (and -k invocations) differ by name only, unless one of them has -N.
Symmetry == Permutations(Runs) \cup Permutations(Kills)
=============================================================================
