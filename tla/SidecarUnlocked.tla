-------------------------- MODULE SidecarUnlocked --------------------------
(***************************************************************************)
(* SidecarStore together with the programs that write the same meta.json   *)
(* without its lock: the CLIP tagger that POST /works/{id}/propose_tags    *)
(* starts with --apply, and promote_variant_upgrade.  Both read the        *)
(* document, change their copy, then truncate the file and write the copy  *)
(* into it, so that others see it torn, or lose what they wrote meanwhile. *)
(***************************************************************************)
EXTENDS SidecarStore

CONSTANTS Taggers, Promoters

Scripts == Taggers \cup Promoters

ASSUME ScriptAssumption == Scripts \cap Procs = {} /\ Taggers \cap Promoters = {}

VARIABLES upc,     \* where each script is
          ucopy,   \* the document it is about to write
          linked,  \* does meta.json still name the file it has open?
          spoiled, \* history: was one killed before it wrote what it had
                   \* truncated, or did two write over each other?
          asked    \* history: the requests of subject_action

uvars == <<upc, ucopy, linked, spoiled, asked>>
allVars == <<vars, uvars>>

UInit ==
  /\ Init
  /\ upc = [u \in Scripts |-> "idle"]
  /\ ucopy = [u \in Scripts |-> file]
  /\ linked = [u \in Scripts |-> FALSE]
  /\ spoiled = FALSE
  /\ asked = {}

UGoto(u, from, to) == upc[u] = from /\ upc' = [upc EXCEPT ![u] = to]

StartTagger(u) ==
  /\ u \in Taggers
  /\ started < MaxRequests
  /\ UGoto(u, "idle", "read")
  /\ started' = started + 1
  /\ UNCHANGED <<file, master, lock, pc, req, snap, seen, subjectLog, reviewLog,
                 unlogged, ucopy, linked, spoiled, asked>>

(* json.loads, then merge_into_sidecar with the tags, or genre, that passed. *)
TaggerReads(u, passed, genre) ==
  /\ u \in Taggers
  /\ UGoto(u, "read", "open")
  /\ file # Torn
  /\ ucopy' = [ucopy EXCEPT ![u] = Merged(file, passed, genre)]
  /\ UNCHANGED <<vars, linked, spoiled, asked>>

TaggerReadsTorn(u) ==
  /\ u \in Taggers
  /\ UGoto(u, "read", "idle")
  /\ file = Torn
  /\ UNCHANGED <<vars, ucopy, linked, spoiled, asked>>

(* apply_swap has moved a new master into place and comes to the sidecar. *)
SwapMaster(u, digest) ==
  /\ u \in Promoters
  /\ started < MaxRequests
  /\ UGoto(u, "idle", "read")
  /\ digest # master
  /\ master' = digest
  /\ started' = started + 1
  /\ UNCHANGED <<file, lock, pc, req, snap, seen, subjectLog, reviewLog, unlogged,
                 ucopy, linked, spoiled, asked>>

(* _load_json(meta_path) or {} *)
PromoterReads(u) ==
  /\ u \in Promoters
  /\ UGoto(u, "read", "edit")
  /\ ucopy' = [ucopy EXCEPT ![u] = file]
  /\ UNCHANGED <<vars, linked, spoiled, asked>>

PromoterEdits(u) ==
  /\ UGoto(u, "edit", "open")
  /\ ucopy[u] # Torn
  /\ IsValid(ucopy[u])
  /\ ucopy' = [ucopy EXCEPT ![u] = [Logged(@, "variant-upgrade") EXCEPT !.sha = master]]
  /\ UNCHANGED <<vars, linked, spoiled, asked>>

(* sidecar.write validates before it opens the file; {} does not pass. *)
PromoterRejects(u) ==
  /\ UGoto(u, "edit", "idle")
  /\ ~(ucopy[u] # Torn /\ IsValid(ucopy[u]))
  /\ UNCHANGED <<vars, ucopy, linked, spoiled, asked>>

(* open("w") truncates the file that meta.json names now. *)
Truncate(u) ==
  /\ UGoto(u, "open", "dump")
  /\ file' = Torn
  /\ linked' = [linked EXCEPT ![u] = TRUE]
  /\ UNCHANGED <<master, lock, pc, req, snap, seen, subjectLog, reviewLog, started,
                 unlogged, ucopy, spoiled, asked>>

(* Mutant: the script ends between truncating the file and writing it. *)
DumpNothing(u) ==
  /\ UGoto(u, "dump", "idle")
  /\ UNCHANGED <<vars, ucopy, linked, spoiled, asked>>

(* The copy goes into the open file.  It is lost if an os.replace has put  *)
(* another file under the name; over text that another script wrote in the *)
(* meantime it may leave a longer text's tail behind.                      *)
Dump(u) ==
  /\ UGoto(u, "dump", "idle")
  /\ file' \in IF ~linked[u] THEN {file}
               ELSE IF file = Torn THEN {ucopy[u]} ELSE {ucopy[u], Torn}
  /\ spoiled' = (spoiled \/ (linked[u] /\ file # Torn))
  /\ UNCHANGED <<master, lock, pc, req, snap, seen, subjectLog, reviewLog, started,
                 unlogged, ucopy, linked, asked>>

(* Killed: by the endpoint's timeout (TAGGER_TIMEOUT_S), or with its host. *)
Killed(u) ==
  /\ "crash" \in Faults
  /\ upc[u] # "idle"
  /\ upc' = [upc EXCEPT ![u] = "idle"]
  /\ spoiled' = (spoiled \/ upc[u] = "dump")
  /\ UNCHANGED <<vars, ucopy, linked, asked>>

(* Mutant: the JSONDecodeError leaves the lock held. *)
ReadTornKeepsLock(p) ==
  /\ Goto(p, "read", "idle")
  /\ file = Torn
  /\ UNCHANGED <<file, master, lock, req, snap, seen, subjectLog, reviewLog, started, unlogged>>

(* A handler finds the file torn: JSONDecodeError inside the with-block. *)
ReadTorn(p) ==
  /\ Goto(p, "read", "unlock")
  /\ file = Torn
  /\ UNCHANGED <<file, master, lock, req, snap, seen, subjectLog, reviewLog, started, unlogged>>

ScriptStep(u) ==
  \/ \E passed \in SUBSET Tags, genre \in BOOLEAN : TaggerReads(u, passed, genre)
  \/ TaggerReadsTorn(u) \/ PromoterReads(u) \/ PromoterEdits(u) \/ PromoterRejects(u)
  \/ Truncate(u) \/ Dump(u)

(* os.replace leaves an open script with a file that has no name. *)
LockedStep ==
  \/ \E p \in Procs :
       \/ Replace(p) /\ linked' = [u \in Scripts |-> FALSE] /\ UNCHANGED asked
       \/ (\E r \in RequestsOf(p) : Start(p, r) /\ asked' = asked \cup (SubjectRequests \cap {r}))
          /\ UNCHANGED linked
       \/ /\ Step(p) \/ Invalidate(p) \/ CheckerCrash(p) \/ ReadTorn(p)
          /\ UNCHANGED <<linked, asked>>
  \/ ServerCrash /\ UNCHANGED <<linked, asked>>

UNext ==
  \/ LockedStep /\ UNCHANGED <<upc, ucopy, spoiled>>
  \/ \E u \in Scripts :
       StartTagger(u) \/ (\E d \in Digests : SwapMaster(u, d)) \/ ScriptStep(u) \/ Killed(u)

USpec == UInit /\ [][UNext]_allVars

UFairness ==
  /\ \A p \in Procs : /\ WF_allVars((Step(p) \/ Invalidate(p) \/ ReadTorn(p))
                                      /\ UNCHANGED uvars)
                      /\ WF_allVars(Replace(p) /\ linked' = [u \in Scripts |-> FALSE]
                                      /\ UNCHANGED <<upc, ucopy, spoiled, asked>>)
                      /\ SF_allVars(Lock(p) /\ UNCHANGED uvars)
  /\ \A u \in Scripts : WF_allVars(ScriptStep(u))

UFairSpec == USpec /\ UFairness

-----------------------------------------------------------------------------
(* Properties *)

UTypeOK ==
  /\ file \in Sidecar \cup {Torn}
  /\ upc \in [Scripts -> {"idle", "read", "edit", "open", "dump"}]
  /\ ucopy \in [Scripts -> Sidecar \cup {Torn}]
  /\ linked \in [Scripts -> BOOLEAN]

(* No script and no race makes up a human verdict: one that the sidecar    *)
(* shows is a verdict some subject_action was asked for.                   *)
VerdictsWereGiven ==
  file # Torn =>
    \A t \in Tags : file.tags[t] \in HumanStates =>
      \E r \in asked : r.tag = t /\ StateAfter(r.op, "absent") = file.tags[t]

(* Whatever the scripts overwrite, and wherever they are killed, a sidecar  *)
(* that can be read keeps its invariants: its acquisition event, at most   *)
(* one owner review, and no outstanding proposal that is not flagged.      *)
RecordStaysSound ==
  file # Torn => SoundHistory(file) /\ Flagged(file)

(* A torn sidecar is transient: the script that truncated it finishes, or  *)
(* a handler that had read it before replaces it.  It stays torn only      *)
(* where a script was killed in between or two wrote over each other.      *)
TornHeals == file = Torn ~> file # Torn \/ spoiled

(* Handlers that meet the torn file fail and let go of the lock. *)
HandlersReturn == \A p \in Procs : pc[p] # "idle" ~> pc[p] = "idle"

(* No handler and no script is at work. *)
Quiet == (\A c \in Procs : pc[c] = "idle") /\ (\A u \in Scripts : upc[u] = "idle")

(* What merge_into_sidecar's docstring and the comment above               *)
(* DEFAULT_TAGGER_SCRIPT promise: the tagger never overwrites a reviewer's *)
(* decision.  The last logged verdict on a tag is the one in the sidecar.  *)
DecisionsSurvive ==
  Quiet /\ file # Torn =>
    \A t \in Tags : EventsOn(t) # {} => LogExplains(t, file)
=============================================================================
