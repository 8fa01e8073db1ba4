-------------------------- MODULE VariantPromotion --------------------------
(***************************************************************************)
(* promote_variant_upgrade --apply: judge every accepted row of the        *)
(* candidate list, then swap the masters that passed, one after another,   *)
(* each by two moves and a sidecar write, and log them all at the end.     *)
(* The script may die anywhere and be run again.  A candidate is any image *)
(* in a staging directory or in the archive, under whatever name.          *)
(***************************************************************************)
EXTENDS Naturals, Sequences, FiniteSets, SequencesExt

CONSTANTS Works,      \* work directories in the archive
          Staged,     \* directories with candidates outside of it
          Images,     \* file contents: see Image
          Paintings,  \* what an image can show, by Wikidata Q-ID
          Exts,       \* file name extensions, a subset of {"jpg", "tif"}
          Others,     \* images kept beside a master, e.g. as its variant
          Sources,    \* directories that candidates lie in
          MaxRows,    \* bound: rows of the candidate list
          MaxRuns,    \* bound: runs of the script
          MayCrash,   \* may a run be killed?
          Gaps,       \* what the sidecars may lack: see MetaOf
          NoQid       \* in a sidecar without a Q-ID

Dirs == Works \cup Staged

ASSUME DirAssumption == Works \cap Staged = {} /\ Sources \subseteq Dirs
ASSUME ExtAssumption == Exts # {} /\ Exts \subseteq {"jpg", "tif"}
ASSUME GapAssumption == Gaps \subseteq [Dirs -> SUBSET {"qid", "px", "links"}]
ASSUME QidAssumption == NoQid \notin Paintings
ASSUME BoundAssumption == MaxRows \in Nat /\ MaxRuns \in Nat

(* What an image shows, its size, whether it is a crop cut to the aspect of *)
(* a display, and whether it is over the display's 20 MB cap.              *)
Image == [id : Nat, shows : Paintings, px : Nat \ {0}, cut : BOOLEAN, heavy : BOOLEAN]

ASSUME ImageAssumption == Images \subseteq Image /\ Others \subseteq Images

(* A file: master.<ext> of a directory, superseded-<sha7>.<ext>, or one    *)
(* with a name of its own.                                                 *)
File == [dir : Dirs, role : {"master", "superseded", "other"}, ext : Exts, img : Images]

(* Mutant: the superseded master is named without its digest. *)
SamePathNoDigest(f, g) == f.dir = g.dir /\ f.role = g.role /\ f.ext = g.ext

(* Two files, as they are now or were, under the same path. *)
SamePath(f, g) ==
  f.dir = g.dir /\ f.role = g.role /\ f.ext = g.ext
    /\ (f.role # "master" => f.img = g.img)

(* A sidecar: px is 0 when it records no dimensions, and then no aspect. *)
Meta == [qid : Paintings \cup {NoQid}, px : Nat, cut : BOOLEAN, heavy : BOOLEAN,
         links : BOOLEAN, sha : Images]

VARIABLES disk,      \* the files
          meta,      \* each directory's meta.json
          pc, todo,  \* the script: where it is and the swaps ahead of it
          old,       \* the superseded master of the swap in hand
          reused,    \* history: superseded masters that were moved in as candidates
          applied,   \* the swaps this run has made
          appliedLog, runs,
          disturbed  \* was a run killed, or given a work's master as candidate?

script == <<pc, todo, old, applied>>
count == <<runs, disturbed>>
vars == <<disk, meta, script, appliedLog, count, reused>>

(* The lists of candidates that a run may be asked for: a path under one   *)
(* of the roots, at which there is a file.                                 *)
Row == [wid : Works, cand : {f \in disk : f.dir \in Sources}]
CandidateLists == UNION {[1..n -> Row] : n \in 1..MaxRows}

Files(dir, role) == {f \in disk : f.dir = dir /\ f.role = role}
MasterAt(dir, ext) == {f \in Files(dir, "master") : f.ext = ext}

(* Sorted by name, "master.jpg" comes first. *)
FirstMaster(dir) ==
  LET masters == Files(dir, "master")
  IN  CHOOSE f \in masters : f.ext = "jpg" \/ \A g \in masters : g.ext # "jpg"

(* A truthful sidecar, but for a missing Q-ID or missing dimensions; or one *)
(* that lists variants.                                                    *)
MetaOf(image, gaps) ==
  [qid |-> IF "qid" \in gaps THEN NoQid ELSE image.shows,
   px |-> IF "px" \in gaps THEN 0 ELSE image.px, cut |-> "px" \notin gaps /\ image.cut,
   heavy |-> image.heavy, links |-> "links" \in gaps,
   sha |-> image]

Placed(at) ==
  {[dir |-> at[i][1], role |-> IF i \in Others THEN "other" ELSE "master", ext |-> at[i][2],
    img |-> i] : i \in DOMAIN at}

(* Every directory has a master.<ext>, some have two, or other files; all  *)
(* of the same painting, and its sidecar describes the first master.       *)
Init ==
  /\ \E at \in UNION {[some -> Dirs \X Exts] : some \in SUBSET Images} :
       /\ disk = Placed(at)
       /\ \A f, g \in disk : SamePath(f, g) => f = g
       /\ \A f, g \in disk : f.dir = g.dir => f.img.shows = g.img.shows
  /\ \A d \in Dirs : Files(d, "master") # {}
  /\ \E gaps \in Gaps :
       meta = [d \in Dirs |-> MetaOf(FirstMaster(d).img, gaps[d])]
  /\ pc = "idle"
  /\ todo = <<>>
  /\ old = {} /\ reused = {}
  /\ applied = <<>>
  /\ appliedLog = <<>>
  /\ runs = 0
  /\ disturbed = FALSE

(* Mutant: rows that claim one file are not counted. *)
ClaimedByOne(row, rows) == 1

ClaimedBy(row, rows) ==
  Cardinality({i \in DOMAIN rows : SamePath(rows[i].cand, row.cand)})

(* Mutant: two missing Q-IDs are equal. *)
SameWorkMissing(row) == meta[row.wid].qid = meta[row.cand.dir].qid

SameWork(row) ==
  /\ meta[row.wid].qid # NoQid /\ meta[row.cand.dir].qid # NoQid
  /\ meta[row.wid].qid = meta[row.cand.dir].qid

(* crop_gate over what the two sidecars record: PROTECTED is positive      *)
(* evidence of a crop relationship and final; clear is the absence of any  *)
(* evidence, or of a larger copy in the same framing; the rest an operator *)
(* may let through.                                                        *)
Unmeasured(held, cand) == held.px = 0 /\ cand.px = 0 /\ ~held.links /\ ~cand.links

(* Mutant: the aspects of the two images are not compared. *)
ProtectedNoAspect(held, cand) ==
  ~Unmeasured(held, cand) /\ (held.links \/ cand.links \/ held.heavy # cand.heavy)

Protected(held, cand) ==
  /\ ~Unmeasured(held, cand)
  /\ \/ held.links \/ cand.links
     \/ held.heavy # cand.heavy
     \/ held.cut # cand.cut

Clear(held, cand) ==
  \/ Unmeasured(held, cand)
  \/ /\ ~Protected(held, cand)
     /\ held.px # 0 /\ cand.px # 0 /\ ~held.cut
     /\ cand.px >= held.px

(* evaluate(): READY, or refused but for what --allow-unverified lifts -   *)
(* as far as it does not depend on the other rows.                         *)
Fits(row, allow) ==
  /\ Files(row.wid, "master") # {}
  /\ SameWork(row)
  /\ \/ Clear(meta[row.wid], meta[row.cand.dir])
     \/ allow /\ ~Protected(meta[row.wid], meta[row.cand.dir])

Verdict(row) == [row |-> row, master |-> FirstMaster(row.wid).ext]

(* The candidate list as it is now, and the works accepted so far or named *)
(* with --wid, may be any; a row that is refused, or not accepted, leaves  *)
(* no trace, so the list is taken to hold the others.  Every row is judged *)
(* before the first is applied.                                            *)
Evaluate(rows, allow) ==
  /\ pc = "idle"
  /\ runs < MaxRuns
  /\ \A i \in DOMAIN rows : Fits(rows[i], allow) /\ ClaimedBy(rows[i], rows) <= 1
  /\ pc' = "moveOut"
  /\ todo' = [i \in DOMAIN rows |-> Verdict(rows[i])]
  /\ applied' = <<>>
  /\ runs' = runs + 1
  /\ disturbed' = (disturbed \/ \E i \in DOMAIN rows : rows[i].cand.dir \in Works)
  /\ UNCHANGED <<disk, meta, old, appliedLog, reused>>

(* shutil.move replaces what is at the destination. *)
Moved(from, to) == {f \in disk : f # from /\ ~SamePath(f, to)} \cup {to}

MoveOut ==
  LET v == Head(todo)
  IN  /\ pc = "moveOut"
      /\ \E m \in MasterAt(v.row.wid, v.master) :
           /\ disk' = Moved(m, [m EXCEPT !.role = "superseded"])
           /\ old' = {m.img}
      /\ pc' = "moveIn"
      /\ UNCHANGED <<meta, todo, applied, appliedLog, count, reused>>

(* What lies at the candidate's path by now. *)
Candidate(v) == {f \in disk : SamePath(f, v.row.cand)}

MoveIn ==
  LET v == Head(todo)
  IN  /\ pc = "moveIn"
      /\ \E c \in Candidate(v) :
           /\ disk' = Moved(c, [c EXCEPT !.dir = v.row.wid, !.role = "master"])
           /\ reused' = IF c.role = "superseded" THEN reused \cup {c.img} ELSE reused
      /\ pc' = "record"
      /\ UNCHANGED <<meta, todo, old, applied, appliedLog, count>>

(* The sidecar takes the new digest and size; the old dimensions stay.     *)
Record ==
  LET v == Head(todo)
  IN  /\ pc = "record"
      /\ \E m \in MasterAt(v.row.wid, v.row.cand.ext) :
           meta' = [meta EXCEPT ![v.row.wid].sha = m.img, ![v.row.wid].heavy = m.img.heavy]
      /\ applied' = Append(applied, [wid |-> v.row.wid, old |-> old])
      /\ todo' = Tail(todo)
      /\ pc' = IF Len(todo) = 1 THEN "log" ELSE "moveOut"
      /\ old' = {}
      /\ UNCHANGED <<disk, appliedLog, count, reused>>

AppendLog ==
  /\ pc = "log"
  /\ appliedLog' = appliedLog \o applied
  /\ pc' = "idle"
  /\ applied' = <<>>
  /\ UNCHANGED <<disk, meta, todo, old, count, reused>>

Stop ==
  /\ pc' = "idle"
  /\ todo' = <<>>
  /\ old' = {}
  /\ applied' = <<>>
  /\ UNCHANGED <<disk, meta, appliedLog, runs, reused>>

(* A file that an earlier swap of the run has taken is missing, or the     *)
(* sidecar cannot be written, be it invalid or the disk full: the          *)
(* exception ends the run, and its swaps so far stay out of the log.       *)
Abort ==
  /\ \/ pc = "moveOut" /\ MasterAt(Head(todo).row.wid, Head(todo).master) = {}
     \/ pc = "moveIn" /\ Candidate(Head(todo)) = {}
     \/ pc = "record"
  /\ Stop
  /\ UNCHANGED disturbed

Killed ==
  /\ MayCrash
  /\ pc # "idle"
  /\ Stop
  /\ disturbed' = TRUE

Next ==
  \/ \E rows \in CandidateLists, allow \in BOOLEAN : Evaluate(rows, allow)
  \/ MoveOut \/ MoveIn \/ Record \/ AppendLog \/ Abort \/ Killed

Spec == Init /\ [][Next]_vars

-----------------------------------------------------------------------------
(* Properties *)

(* The shape of every variable; no two files at one path. *)
TypeOK ==
  /\ disk \subseteq File
  /\ \A f, g \in disk : SamePath(f, g) => f = g
  /\ meta \in [Dirs -> Meta]
  /\ pc \in {"idle", "moveOut", "moveIn", "record", "log"}
  /\ pc \in {"moveOut", "moveIn", "record"} <=> todo # <<>>
  /\ old \subseteq Images /\ reused \subseteq Images /\ disturbed \in BOOLEAN

(* apply_swap's docstring: the script never deletes. *)
NothingDeleted == [][\A f \in disk : \E g \in disk' : g.img = f.img]_disk

(* "That makes a swap reversible": the file that a logged swap superseded  *)
(* lies beside its work, whatever later runs did and wherever they were    *)
(* killed, until a run moves that very file in again as a candidate, which *)
(* evaluate() does not refuse.                                             *)
AppliedIsReversible ==
  \A k \in DOMAIN appliedLog :
    \/ appliedLog[k].old \subseteq reused
    \/ \E f \in disk : /\ f.dir = appliedLog[k].wid /\ f.role = "superseded"
                        /\ {f.img} = appliedLog[k].old

(* No work gets the picture of another one, even one whose sidecar claims  *)
(* nothing: every file in a directory shows what the first one did.        *)
RightPainting == \A f, g \in disk : f.dir = g.dir => f.img.shows = g.img.shows

(* When the candidates lie outside of the archive, no run that nobody      *)
(* kills ends with a work that has lost its master, also when two rows     *)
(* upgrade the same work or an invalid sidecar ends the run.               *)
WorkKeepsMaster ==
  pc = "idle" /\ ~disturbed => \A w \in Works : Files(w, "master") # {}

(* A crop cut for a display, where its sidecar records it, makes way for   *)
(* another crop at most, even when the operator lets unverified swaps      *)
(* through and the sidecar's dimensions are those of an earlier master.    *)
(* A directory is judged by the master its sidecar describes, whichever of *)
(* its files the row names: hence the premise.                             *)
CropsAreTold == \A f \in disk : meta[f.dir].cut => f.img.cut

CropStaysCrop == [][CropsAreTold => CropsAreTold']_<<disk, meta>>
=============================================================================
