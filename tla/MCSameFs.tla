------------------------------ MODULE MCSameFs ------------------------------
(* Small instances of SameFs for TLC. *)
EXTENDS SameFs, TLC

Inside == [within |-> TRUE, samedev |-> TRUE, overlayfs |-> FALSE,
           loopdev |-> "lower", customUpper |-> FALSE, workdir |-> "default"]

\* An appdir beside the lower directory, on an overlayfs.
Nested == [Inside EXCEPT !.within = FALSE, !.samedev = FALSE, !.overlayfs = TRUE]

\* An appdir below the lower directory, its own mount there, a sibling, two on
\* an overlayfs (with the lower directory there too, or not), and two that are
\* refused.
MCLayouts == {Inside, [Inside EXCEPT !.samedev = FALSE], [Inside EXCEPT !.within = FALSE],
              [Nested EXCEPT !.samedev = TRUE], [Nested EXCEPT !.loopdev = "overlayfs"],
              [Inside EXCEPT !.customUpper = TRUE], [Inside EXCEPT !.workdir = "elsewhere"]}

MCDisks ==
  {[loopdir |-> "absent", bare |-> {}, img |-> i] : i \in {"none", "short", "complete"}}
  \cup {[loopdir |-> "symlink", bare |-> {}, img |-> "none"]}
  \cup {[loopdir |-> "dir", bare |-> B, img |-> "none"] : B \in {{}} \cup {{p} : p \in Names}}

Symmetry == Permutations(Names)
=============================================================================
