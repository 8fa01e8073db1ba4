-------------------------- MODULE MCSidecarUnlocked --------------------------
(* Small instances of SidecarUnlocked for TLC. *)
EXTENDS SidecarUnlocked

(* The logs, and what a process or script that is idle has left in its     *)
(* variables, are read by no later step and by no property of the run.     *)
Relevant ==
  <<file, master, lock, started, spoiled, asked,
    [p \in Procs |-> IF pc[p] = "idle" THEN <<>>
                     ELSE <<pc[p], req[p], IF pc[p] \in {"lock", "read", "unlock", "release", "publish", "invalidate"} THEN file ELSE snap[p], seen[p]>>],
    [u \in Scripts |-> IF upc[u] \in {"idle", "read"} THEN <<upc[u]>>
                       ELSE <<upc[u], ucopy[u], upc[u] = "dump" /\ linked[u]>>]>>
=============================================================================
