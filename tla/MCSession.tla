----------------------------- MODULE MCSession -----------------------------
(* Small instances of Session for TLC. *)
EXTENDS Session, TLC

\* Sessions that agree on -N and on whether their parent may be killed differ
\* by name only.
Symmetry ==
  UNION {Permutations(S) : S \in {NetSessions \cap Killed, NetSessions \ Killed,
                                  Killed \ NetSessions, Sessions \ (NetSessions \cup Killed)}}
=============================================================================
