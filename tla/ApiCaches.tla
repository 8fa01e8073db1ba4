------------------------------ MODULE ApiCaches ------------------------------
(***************************************************************************)
(* The caches of the API process that its threads share without a lock:    *)
(* over the ratings log, the manifest, the tree of sidecars, and the facts *)
(* about master images, saved to a file.  They have no variable in common, *)
(* so that steps in different caches commute; a behaviour here is about    *)
(* one of them, and the others are at rest.                                *)
(***************************************************************************)
EXTENDS Naturals

CONSTANTS Threads,     \* API threads
          Reviewer,    \* one more, in acquisition_review
          Works,
          Calls,       \* what is asked of the ratings
          MaxChanges,  \* bound: changes to the files in a behaviour
          None,
          Kinds,       \* what a master image can be
          Torn, Absent

VARIABLES about,       \* the cache this behaviour is about
          log, cache, index, sig, scores, pc, ret, stat, got, floor, alone, calm,
          built, mrows, msig, mpc, mstat, mgot, mfloor, malone, mcalm,
          paired, version, torn, writes, lsig, lrows, lpc, ltaken, ltodo, lfound,
          lalone, lcalm, skipped,
          master, ceiling, memo, loaded, dirty, fcache, tmp, fpc, key, fact, prev, entries,
          open, overlap, misread

ratingsVars == <<log, cache, index, sig, scores, pc, ret, stat, got, floor, alone, calm>>
manifestVars == <<built, mrows, msig, mpc, mstat, mgot, mfloor, malone, mcalm>>
listVars == <<paired, version, torn, writes, lsig, lrows, lpc, ltaken, ltodo, lfound,
              lalone, lcalm, skipped>>
masterVars == <<master, ceiling, memo, loaded, dirty, fcache, tmp, fpc, key, fact, prev,
                entries, open, overlap, misread>>
vars == <<about, ratingsVars, manifestVars, listVars, masterVars>>

Ratings == INSTANCE RatingsCache WITH MaxLog <- MaxChanges

Manifest == INSTANCE ManifestCache WITH
  MaxBuilds <- MaxChanges, rows <- mrows, sig <- msig, pc <- mpc, stat <- mstat,
  got <- mgot, floor <- mfloor, alone <- malone, calm <- mcalm

List == INSTANCE AcquisitionList WITH
  Listers <- Threads, Reviewers <- {Reviewer}, MayTear <- TRUE, MaxWrites <- MaxChanges,
  NoSignature <- None, sig <- lsig, rows <- lrows, pc <- lpc, taken <- ltaken,
  todo <- ltodo, found <- lfound, alone <- lalone, calm <- lcalm

Masters == INSTANCE MasterFacts WITH
  Listers <- Threads, MayResize <- TRUE, MaxMasters <- MaxChanges, MayCrash <- TRUE,
  cache <- fcache, pc <- fpc

ASSUME RatingsAssumption ==
  Ratings!CallAssumption /\ Ratings!LogAssumption /\ Ratings!NoneAssumption
ASSUME ManifestAssumption == Manifest!BuildAssumption
ASSUME ListAssumption ==
  List!ThreadAssumption /\ List!BoundAssumption /\ List!SignatureAssumption
ASSUME MasterAssumption == Masters!MasterAssumption

Init ==
  /\ about \in {"ratings", "manifest", "list", "masters"}
  /\ Ratings!Init /\ Manifest!Init /\ List!Init /\ Masters!Init
  /\ about # "ratings" => log = 0
  /\ about # "manifest" => built = 0
  /\ about # "list" => paired
  /\ about # "masters" => master.kind = "damaged"

Next ==
  /\ UNCHANGED about
  /\ \/ about = "ratings" /\ Ratings!Next /\ UNCHANGED <<manifestVars, listVars, masterVars>>
     \/ about = "manifest" /\ Manifest!Next /\ UNCHANGED <<ratingsVars, listVars, masterVars>>
     \/ about = "list" /\ List!Next /\ UNCHANGED <<ratingsVars, manifestVars, masterVars>>
     \/ about = "masters" /\ Masters!Next /\ UNCHANGED <<ratingsVars, manifestVars, listVars>>

Spec == Init /\ [][Next]_vars

-----------------------------------------------------------------------------
(* Properties, stated in the module of each cache *)

(* Scores and sidecars are kept as pairs: no race leaves a stale one.      *)
LonePairsAreCurrent == Ratings!LoneScoresFresh /\ List!LonePairIsCurrent

(* The ratings by work, and their total: the next rating outdates what     *)
(* races have left.                                                        *)
CalmRatingsFresh == Ratings!CalmIndexFresh /\ Ratings!CalmTotalFresh

(* The manifest's rows: the next build outdates what races have left.      *)
CalmManifestIsCurrent == Manifest!CalmManifestIsCurrent

(* The acquisition list and its likes: the next change of a sidecar        *)
(* outdates what races have left.                                          *)
CalmListIsCurrent == List!CalmListIsCurrent

(* Masters: no damaged one is known as good, none that was not looked at   *)
(* is saved as if it had been, whatever was replaced and restarted.        *)
MemoIsSound == Masters!DamagedIsNotOk /\ Masters!UncheckedNotSaved

(* Masters: no good one is known as damaged, if no two scans overlapped    *)
(* and no read of it failed while it was decoded.                          *)
LoneVerdictIsFair == Masters!LoneVerdictIsFair
=============================================================================
