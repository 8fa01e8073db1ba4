--------------------------- MODULE MCSidecarStore ---------------------------
(* Small instances of SidecarStore for TLC. *)
EXTENDS SidecarStore, TLC

Symmetry ==
  UNION {Permutations(S) : S \in {Reviewers, Curators, Checkers, Tags, Digests}}

(* States that differ only in what no process will read again are one. *)
LiveView ==
  LET Live(f, positions) == [p \in Procs |-> IF pc[p] \in positions THEN f[p] ELSE NoOne]
  IN  <<file, master, lock, pc, Live(req, Critical \cup {"lock", "publish"}),
        Live(snap, {"hash", "write", "append", "rollback"}), Live(seen, {"write"}),
        subjectLog, reviewLog, started, unlogged>>
=============================================================================
