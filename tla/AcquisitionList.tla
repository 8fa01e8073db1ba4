--------------------------- MODULE AcquisitionList ---------------------------
(***************************************************************************)
(* What API threads derive from every sidecar and keep with a signature of *)
(* the tree: the list of acquired works, the works with a dossier and the  *)
(* known artists, each in a dictionary whose two entries are set one after *)
(* the other, and the sidecars themselves, kept as one pair.               *)
(* acquisition_review clears the acquisition list after it has written a   *)
(* sidecar; other programs write sidecars without a word, some of them by  *)
(* truncating the file first.                                              *)
(***************************************************************************)
EXTENDS Naturals

CONSTANTS Works,
          Listers,     \* threads in acquisitions_since_epoch, or its likes
          Reviewers,   \* threads in acquisition_review, past its lock
          MayTear,     \* do programs truncate sidecars?
          MaxWrites,   \* bound: sidecar writes and truncations in a behaviour
          NoSignature

Everyone == Listers \cup Reviewers

ThreadAssumption == Listers \cap Reviewers = {}
BoundAssumption == MaxWrites \in Nat
SignatureAssumption == NoSignature \notin [Works -> 1..(MaxWrites + 1)] \X SUBSET Works

VARIABLES paired,    \* are signature and rows kept as one pair?
          version,   \* of each work's sidecar; the last write made it
          torn,      \* the sidecars that are truncated
          writes,    \* how many of both there were
          sig, rows, \* e.g. _acq_cache: signature, and the version each row shows
          pc,
          taken,     \* the signature a lister took
          todo,      \* the sidecars it has still to read
          found,     \* its rows so far; 0 is a work without a row
          alone,     \* has nothing else run since?
          calm,      \* was the last write made, and all since, one at a time?
          skipped    \* since the last write, has a sidecar failed to open?

files == <<version, torn, writes>>
cached == <<sig, rows>>
locals == <<taken, todo, found>>
vars == <<paired, files, cached, pc, locals, alone, calm, skipped>>

NoRows == [w \in Works |-> 0]
Shown == [w \in Works |-> IF w \in torn THEN 0 ELSE version[w]]

(* Mutant: the sidecars that cannot be read now are all that counts. *)
SignatureOfTorn == torn

(* _dossier_signature: mtimes and sizes of all sidecars; truncating one    *)
(* shows in it as much as writing it does.                                 *)
Signature == <<version, torn>>

Init ==
  /\ paired \in BOOLEAN
  /\ version = [w \in Works |-> 1]
  /\ torn = {}
  /\ writes = 0
  /\ sig = NoSignature
  /\ rows = NoRows
  /\ pc = [t \in Everyone |-> "idle"]
  /\ taken = [t \in Listers |-> NoSignature]
  /\ todo = [t \in Listers |-> {}]
  /\ found = [t \in Listers |-> NoRows]
  /\ alone = [t \in Listers |-> FALSE]
  /\ calm = TRUE
  /\ skipped = FALSE

Goto(t, from, to) == pc[t] = from /\ pc' = [pc EXCEPT ![t] = to]

Idle(S) == \A t \in S : pc[t] = "idle"

BeginList(t) ==
  /\ Goto(t, "idle", "signature")
  /\ alone' = [u \in Listers |-> u = t /\ Idle(Everyone \ {t})]
  /\ calm' = (calm /\ Idle(Everyone))
  /\ UNCHANGED <<paired, files, cached, taken, todo, found, skipped>>

TakeSignature(t) ==
  /\ Goto(t, "signature", "check")
  /\ taken' = [taken EXCEPT ![t] = Signature]
  /\ UNCHANGED <<paired, files, cached, todo, found, alone, calm, skipped>>

Check(t) ==
  /\ Goto(t, "check", IF sig = taken[t] THEN "hit" ELSE "scan")
  /\ todo' = [todo EXCEPT ![t] = Works]
  /\ found' = [found EXCEPT ![t] = NoRows]
  /\ UNCHANGED <<paired, files, cached, taken, alone, calm, skipped>>

(* return list(_acq_cache["rows"]): read after the signature was. *)
Hit(t) ==
  /\ Goto(t, "hit", "done")
  /\ found' = [found EXCEPT ![t] = rows]
  /\ UNCHANGED <<paired, files, cached, taken, todo, alone, calm, skipped>>

(* A sidecar that cannot be parsed is passed over, as is a good one that   *)
(* cannot be opened this time (OSError).                                   *)
ReadSidecar(t, w) ==
  /\ pc[t] = "scan"
  /\ w \in todo[t]
  /\ todo' = [todo EXCEPT ![t] = @ \ {w}]
  /\ \/ found' = [found EXCEPT ![t][w] = Shown[w]] /\ UNCHANGED skipped
     \/ Shown[w] # 0 /\ skipped' = TRUE /\ UNCHANGED found
  /\ UNCHANGED <<paired, files, cached, pc, taken, alone, calm>>

KeepSignature(t) ==
  /\ ~paired
  /\ todo[t] = {}
  /\ Goto(t, "scan", "keep")
  /\ sig' = taken[t]
  /\ UNCHANGED <<paired, files, rows, locals, alone, calm, skipped>>

KeepRows(t) ==
  /\ Goto(t, "keep", "done")
  /\ rows' = found[t]
  /\ UNCHANGED <<paired, files, sig, locals, alone, calm, skipped>>

(* Mutant: the pair is kept under the signature the tree has by now. *)
KeepPairLate(t) ==
  /\ paired
  /\ todo[t] = {}
  /\ Goto(t, "scan", "done")
  /\ sig' = Signature /\ rows' = found[t]
  /\ UNCHANGED <<paired, files, locals, alone, calm, skipped>>

(* _all_sidecars: _sidecars_cache = (signature, out) *)
KeepPair(t) ==
  /\ paired
  /\ todo[t] = {}
  /\ Goto(t, "scan", "done")
  /\ sig' = taken[t] /\ rows' = found[t]
  /\ UNCHANGED <<paired, files, locals, alone, calm, skipped>>

Answer(t) ==
  /\ Goto(t, "done", "idle")
  /\ taken' = [taken EXCEPT ![t] = NoSignature]
  /\ found' = [found EXCEPT ![t] = NoRows]
  /\ UNCHANGED <<paired, files, cached, todo, alone, calm, skipped>>

Written(w) ==
  /\ writes < MaxWrites
  /\ writes' = writes + 1
  /\ version' = [version EXCEPT ![w] = writes + 2]
  /\ torn' = torn \ {w}
  /\ skipped' = FALSE

(* acquisition_review replaces the sidecar, appends its event, clears. *)
BeginReview(t, w) ==
  /\ t \in Reviewers /\ ~paired
  /\ Goto(t, "idle", "clear1")
  /\ Written(w)
  /\ alone' = [u \in Listers |-> FALSE]
  /\ calm' = Idle(Everyone)
  /\ UNCHANGED <<paired, cached, locals>>

ClearSignature(t) ==
  /\ Goto(t, "clear1", "clear2")
  /\ sig' = NoSignature
  /\ UNCHANGED <<paired, files, rows, locals, alone, calm, skipped>>

ClearRows(t) ==
  /\ Goto(t, "clear2", "idle")
  /\ rows' = NoRows
  /\ UNCHANGED <<paired, files, sig, locals, alone, calm, skipped>>

WriteOutside(w) ==
  /\ Written(w)
  /\ alone' = [u \in Listers |-> FALSE]
  /\ calm' = Idle(Everyone)
  /\ UNCHANGED <<paired, cached, pc, locals>>

(* What was truncated is written, by the same program. *)
TruncateOutside(w) ==
  /\ MayTear
  /\ w \notin torn
  /\ writes + 1 < MaxWrites
  /\ torn' = torn \cup {w}
  /\ writes' = writes + 1
  /\ skipped' = FALSE
  /\ alone' = [u \in Listers |-> FALSE]
  /\ calm' = Idle(Everyone)
  /\ UNCHANGED <<paired, version, cached, pc, locals>>

Next ==
  \/ \E t \in Listers :
       \/ BeginList(t) \/ TakeSignature(t) \/ Check(t) \/ Hit(t)
       \/ (\E w \in Works : ReadSidecar(t, w))
       \/ KeepSignature(t) \/ KeepRows(t) \/ KeepPair(t) \/ Answer(t)
  \/ \E t \in Reviewers :
       (\E w \in Works : BeginReview(t, w)) \/ ClearSignature(t) \/ ClearRows(t)
  \/ \E w \in Works : WriteOutside(w) \/ TruncateOutside(w)

Spec == Init /\ [][Next]_vars

-----------------------------------------------------------------------------
(* Properties *)

(* The shape of every variable. *)
TypeOK ==
  /\ paired \in BOOLEAN
  /\ version \in [Works -> 1..(MaxWrites + 1)] /\ torn \subseteq Works
  /\ rows \in [Works -> 0..(MaxWrites + 1)]
  /\ pc \in [Everyone -> {"idle", "signature", "check", "hit", "scan", "keep", "done",
                         "clear1", "clear2"}]
  /\ todo \in [Listers -> SUBSET Works]
  /\ found \in [Listers -> [Works -> 0..(MaxWrites + 1)]]
  /\ alone \in [Listers -> BOOLEAN] /\ calm \in BOOLEAN /\ skipped \in BOOLEAN

(* What there was to list when it began: a write would have ended alone.   *)
UpToDate(t) == \A w \in Works : found[t][w] >= Shown[w]

(* Whatever races have left in the cache, the next sidecar change outdates *)
(* it: from then on, requests that do not overlap get current rows.  So it *)
(* is with what a request has cached that failed to open a sidecar.        *)
CalmListIsCurrent ==
  \A t \in Listers : pc[t] = "done" /\ alone[t] /\ calm /\ ~skipped => UpToDate(t)

(* A pair is at least as new as its signature, so that no race leaves      *)
(* anything stale behind: a request that overlaps nothing is current,      *)
(* unless a sidecar failed to open since the last change of one.           *)
LonePairIsCurrent ==
  paired /\ ~skipped => \A t \in Listers : pc[t] = "done" /\ alone[t] => UpToDate(t)
=============================================================================
