--------------------------- MODULE ManifestCache ---------------------------
(***************************************************************************)
(* The rows of manifest.csv that API threads keep in two module variables, *)
(* the rows first and then the signature they were read under.  The file   *)
(* is replaced whole by build_manifest, which tells nobody; so a state of  *)
(* it is the number of times it was built, and 0 is a file that is not     *)
(* there yet, whose signature is None in the code and 0 here.              *)
(***************************************************************************)
EXTENDS Naturals

CONSTANTS Threads,
          MaxBuilds,   \* bound: builds in a behaviour
          None         \* _MANIFEST_CACHE before the first load

BuildAssumption == MaxBuilds \in Nat \ {0} /\ None \notin 0..MaxBuilds

VARIABLES built,    \* manifest.csv
          rows,     \* _MANIFEST_CACHE
          sig,      \* _MANIFEST_SIGNATURE
          pc,
          stat,     \* the signature a thread took
          got,      \* the rows it holds
          floor,    \* what was built when its call began
          alone,    \* has its call run without any other so far?
          calm      \* was the last build made, and all since, one at a time?

vars == <<built, rows, sig, pc, stat, got, floor, alone, calm>>

Builds == 0..MaxBuilds

Init ==
  /\ built \in {0, 1}
  /\ rows = None
  /\ sig = 0
  /\ pc = [t \in Threads |-> "idle"]
  /\ stat = [t \in Threads |-> 0]
  /\ got = [t \in Threads |-> 0]
  /\ floor = [t \in Threads |-> 0]
  /\ alone = [t \in Threads |-> TRUE]
  /\ calm = TRUE

Goto(t, from, to) == pc[t] = from /\ pc' = [pc EXCEPT ![t] = to]
Idle(S) == \A t \in S : pc[t] = "idle"

Begin(t) ==
  /\ Goto(t, "idle", "stat")
  /\ floor' = [floor EXCEPT ![t] = built]
  /\ alone' = [u \in Threads |-> IF u = t THEN Idle(Threads \ {t}) ELSE pc[u] = "idle"]
  /\ calm' = (calm /\ Idle(Threads))
  /\ UNCHANGED <<built, rows, sig, stat, got>>

(* A file that is missing counts as empty, and is cached as that. *)
Stat(t) ==
  /\ Goto(t, "stat", IF built = 0 THEN "setRows" ELSE "check")
  /\ stat' = [stat EXCEPT ![t] = built]
  /\ got' = [got EXCEPT ![t] = 0]
  /\ UNCHANGED <<built, rows, sig, floor, alone, calm>>

(* Mutant: rows that were loaded once are current. *)
CheckLoaded(t) ==
  /\ Goto(t, "check", IF rows # None THEN "hit" ELSE "read")
  /\ UNCHANGED <<built, rows, sig, stat, got, floor, alone, calm>>

Check(t) ==
  /\ Goto(t, "check", IF rows # None /\ sig = stat[t] THEN "hit" ELSE "read")
  /\ UNCHANGED <<built, rows, sig, stat, got, floor, alone, calm>>

(* return _MANIFEST_CACHE: the variable is read again. *)
Hit(t) ==
  /\ Goto(t, "hit", "done")
  /\ got' = [got EXCEPT ![t] = rows]
  /\ UNCHANGED <<built, rows, sig, stat, floor, alone, calm>>

Read(t) ==
  /\ Goto(t, "read", "setRows")
  /\ got' = [got EXCEPT ![t] = built]
  /\ UNCHANGED <<built, rows, sig, stat, floor, alone, calm>>

SetRows(t) ==
  /\ Goto(t, "setRows", "setSig")
  /\ rows' = got[t]
  /\ UNCHANGED <<built, sig, stat, got, floor, alone, calm>>

SetSignature(t) ==
  /\ Goto(t, "setSig", "done")
  /\ sig' = stat[t]
  /\ UNCHANGED <<built, rows, stat, got, floor, alone, calm>>

Answer(t) ==
  /\ Goto(t, "done", "idle")
  /\ stat' = [stat EXCEPT ![t] = 0]
  /\ got' = [got EXCEPT ![t] = 0]
  /\ floor' = [floor EXCEPT ![t] = 0]
  /\ UNCHANGED <<built, rows, sig, alone, calm>>

Build ==
  /\ built < MaxBuilds
  /\ built' = built + 1
  /\ alone' = [t \in Threads |-> FALSE]
  /\ calm' = Idle(Threads)
  /\ UNCHANGED <<rows, sig, pc, stat, got, floor>>

Next ==
  \/ Build
  \/ \E t \in Threads :
       \/ Begin(t) \/ Stat(t) \/ Check(t) \/ Hit(t) \/ Read(t)
       \/ SetRows(t) \/ SetSignature(t) \/ Answer(t)

Spec == Init /\ [][Next]_vars

-----------------------------------------------------------------------------
(* Properties *)

(* The shape of every variable. *)
TypeOK ==
  /\ built \in Builds /\ rows \in Builds \cup {None} /\ sig \in Builds
  /\ pc \in [Threads -> {"idle", "stat", "check", "hit", "read", "setRows", "setSig", "done"}]
  /\ stat \in [Threads -> Builds] /\ got \in [Threads -> Builds] /\ floor \in [Threads -> Builds]
  /\ alone \in [Threads -> BOOLEAN] /\ calm \in BOOLEAN

(* load_manifest's docstring, "reloading when the file changes": a race    *)
(* may leave old rows under the new signature, and every page would show   *)
(* them; the next build outdates both, and from then on calls that overlap *)
(* no other see every row that was built before them.                      *)
CalmManifestIsCurrent ==
  \A t \in Threads : pc[t] = "done" /\ alone[t] /\ calm => got[t] >= floor[t]
=============================================================================
