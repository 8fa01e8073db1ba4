----------------------------- MODULE ServerFiles -----------------------------
(***************************************************************************)
(* The files that the API process keeps for itself and its threads write   *)
(* at the same time: the playlists, without a lock; the research requests, *)
(* under one; the images it caches, without; the logs of the owner's       *)
(* decisions, which it appends to; the removable card it exports to.  They *)
(* have neither file nor variable in common, so that steps on different    *)
(* files commute; a behaviour here is about one of them, and the others    *)
(* are at rest.                                                            *)
(***************************************************************************)
EXTENDS Naturals

CONSTANTS Threads, NoOne, Absent, Torn,
          Ids, Kept, MaxPlaylistCalls,   \* PlaylistStore
          Requests, Ttl, MaxTime,        \* ResearchRequests
          PartCount, MaxImageCalls,      \* ImageCache
          Works, Artists, MaxLines, Half, \* ReviewGates
          Selections, MaxExports         \* SdCard, which has its works too

VARIABLES about,      \* the file this behaviour is about
          file, tmp, pc, op, id, version, raw, open, before, alone, calls, touched,
          log, now, lock, rpc, asked, cutoff, active, made, accepted,
          kind, final, itmp, ipc, iopen, written, created, ialone, icalls, spoiled,
          frontier, readable, known, by, artistLog, workLog, lines, gpc, allow, refused,
          ruled, shown, ruledAtFirst, standing, quiet, unread,
          images, partials, lists, epc, run, selected, todo, rendered, oldImages, oldLists,
          found, runs, overlap

playlistVars == <<file, tmp, pc, op, id, version, raw, open, before, alone, calls, touched>>
researchVars == <<log, now, lock, rpc, asked, cutoff, active, made, accepted>>
imageVars == <<kind, final, itmp, ipc, iopen, written, created, ialone, icalls, spoiled>>
gateVars == <<frontier, readable, known, by, artistLog, workLog, lines, gpc, allow, refused,
              ruled, shown, ruledAtFirst, standing, quiet, unread>>
cardVars == <<images, partials, lists, epc, run, selected, todo, rendered, oldImages, oldLists,
              found, runs, overlap>>
vars == <<about, playlistVars, researchVars, imageVars, gateVars, cardVars>>

Playlists == INSTANCE PlaylistStore WITH MaxCalls <- MaxPlaylistCalls, MayCrash <- TRUE

Research == INSTANCE ResearchRequests WITH MayFail <- TRUE, pc <- rpc

Images == INSTANCE ImageCache WITH
  MaxCalls <- MaxImageCalls, Missing <- Absent, tmp <- itmp, pc <- ipc, open <- iopen,
  alone <- ialone, calls <- icalls

Gates == INSTANCE ReviewGates WITH pc <- gpc

Card == INSTANCE SdCard WITH
  Exporters <- Threads, MaxRuns <- MaxExports, MayCrash <- TRUE,
  User <- NoOne, NoFile <- Absent, pc <- epc, asked <- selected, written <- rendered

ASSUME PlaylistAssumption ==
  Playlists!KeptAssumption /\ Playlists!BoundAssumption /\ Playlists!FileAssumption
ASSUME ResearchAssumption == Research!ResearchAssumption
ASSUME ImageAssumption == Images!CacheAssumption
ASSUME GateAssumption == Gates!GateAssumption
ASSUME CardAssumption == Card!CardAssumption

Init ==
  /\ about \in {"playlists", "research", "images", "gates", "card"}
  /\ Playlists!Init /\ Research!Init /\ Images!Init /\ Gates!Init /\ Card!Init
  /\ about # "images" => kind = "tile"
  /\ about # "gates" => /\ ~readable /\ known = {}
                        /\ by \in {[w \in Works |-> a] : a \in Artists}
  /\ about # "card" => images = {}

Next ==
  /\ UNCHANGED about
  /\ \/ /\ about = "playlists" /\ Playlists!Next
        /\ UNCHANGED <<researchVars, imageVars, gateVars, cardVars>>
     \/ /\ about = "research" /\ Research!Next
        /\ UNCHANGED <<playlistVars, imageVars, gateVars, cardVars>>
     \/ /\ about = "images" /\ Images!Next
        /\ UNCHANGED <<playlistVars, researchVars, gateVars, cardVars>>
     \/ /\ about = "gates" /\ Gates!Next
        /\ UNCHANGED <<playlistVars, researchVars, imageVars, cardVars>>
     \/ /\ about = "card" /\ Card!Next
        /\ UNCHANGED <<playlistVars, researchVars, imageVars, gateVars>>

Spec == Init /\ [][Next]_vars

-----------------------------------------------------------------------------
(* Properties, stated in the module of each file *)

(* Playlists: a call that overlaps no other makes its change and no other. *)
LoneCallIsExact == Playlists!LoneCallIsExact

(* Research: an accepted request is in the log until it expires.           *)
AcceptedSurvives == Research!AcceptedSurvives

(* Images: what threads leave in the cache is whole.                       *)
SettledCacheIsWhole == Images!SettledCacheIsWhole

(* Gates: what has been decided is not asked again.                        *)
DecidedIsNotAsked == Gates!DecidedIsNotAsked

(* Gates: an approval releases the works that its gate has promised.       *)
GateKeepsItsWord == Gates!GateKeepsItsWord

(* Card: never the images of two exports, if no two were at work at once.  *)
OneExport == Card!OneExport

(* Card: a manifest that can be read covers all that exports have written. *)
ManifestCoversCard == Card!ManifestCoversCard

(* Card: an export that returns has left its images, in order, and nothing *)
(* else of an export.                                                      *)
FinishedCard == Card!FinishedCard

(* Card: nothing is taken before the first new image is ready.             *)
KeptUntilReplaced == Card!KeptUntilReplaced

(* Card: whatever runs at once, no name is unlinked that was not found.    *)
ClearsWhatItFound == Card!ClearsWhatItFound
=============================================================================
