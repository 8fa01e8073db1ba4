----------------------- MODULE VariantPromotionProofs -----------------------
(***************************************************************************)
(* Swaps of masters are sound for any number of works, candidates, rows    *)
(* and runs, wherever a run is killed: no work gets the picture of another *)
(* one, crops stay crops, what the log says can be undone, and a work      *)
(* keeps its master as long as nobody kills a run.                         *)
(***************************************************************************)
EXTENDS VariantPromotion, FiniteSetTheorems, TLAPS

Line == [wid : Works, cand : {f \in File : f.dir \in Sources}]
Judged == [row : Line, master : Exts]
Entry == [wid : Works, old : SUBSET Images]

Typed ==
  /\ TypeOK
  /\ todo \in Seq(Judged)
  /\ applied \in Seq(Entry)
  /\ appliedLog \in Seq(Entry)

(* A sidecar names the painting in its directory or none, and records no   *)
(* aspect without dimensions.                                              *)
QidTold == \A f \in disk : meta[f.dir].qid \in {NoQid, f.img.shows}
Measured == \A d \in Dirs : meta[d].px = 0 => ~meta[d].cut

(* What evaluate() has established of a row, which no swap undoes: the     *)
(* sidecars name one painting, and a crop is replaced by a crop.           *)
Agreed(sidecars, v) ==
  LET held == sidecars[v.row.wid]
      cand == sidecars[v.row.cand.dir]
  IN  held.qid # NoQid /\ held.qid = cand.qid /\ (held.cut => cand.cut)

RowsAgreed == \A i \in DOMAIN todo : Agreed(meta, todo[i])

Right == RightPainting /\ QidTold /\ Measured /\ RowsAgreed

(* The file that a swap has superseded lies beside the work, from the      *)
(* first move on, until it is itself moved in.                             *)
Evidence(files, moved, e) ==
  \/ e.old \subseteq moved
  \/ \E f \in files : f.dir = e.wid /\ f.role = "superseded" /\ {f.img} = e.old

InHand == [wid |-> Head(todo).row.wid, old |-> old]

Reversible ==
  /\ \A k \in DOMAIN appliedLog : Evidence(disk, reused, appliedLog[k])
  /\ \A k \in DOMAIN applied : Evidence(disk, reused, applied[k])
  /\ pc \in {"moveIn", "record"} => Evidence(disk, reused, InHand)

(* Undisturbed, the candidates of a run are distinct files outside of the  *)
(* archive, all there until they are moved, and only the work in hand is   *)
(* without a master, between the two moves.                                *)
Pending == {i \in DOMAIN todo : pc = "record" => i # 1}

Outside == \A i \in DOMAIN todo : todo[i].row.cand.dir \notin Works

Distinct == \A i, j \in DOMAIN todo : SamePath(todo[i].row.cand, todo[j].row.cand) => i = j

Waiting == \A i \in Pending : Candidate(todo[i]) # {}

OthersKeep ==
  \A w \in Works : Files(w, "master") # {} \/ (pc = "moveIn" /\ w = Head(todo).row.wid)

Kept == ~disturbed => Outside /\ Distinct /\ Waiting /\ OthersKeep

-----------------------------------------------------------------------------
(* Types *)

LEMMA DirsType == Works \subseteq Dirs /\ Staged \subseteq Dirs /\ Sources \subseteq Dirs
  BY DirAssumption DEF Dirs

LEMMA ImageFields ==
  ASSUME NEW i \in Images
  PROVE  /\ i.shows \in Paintings /\ i.px \in Nat \ {0} /\ i.cut \in BOOLEAN
         /\ i.heavy \in BOOLEAN
  BY ImageAssumption DEF Image

LEMMA MetaOfType ==
  ASSUME NEW i \in Images, NEW gaps
  PROVE  /\ MetaOf(i, gaps) \in Meta
         /\ MetaOf(i, gaps).qid \in {NoQid, i.shows}
         /\ MetaOf(i, gaps).px = 0 => ~MetaOf(i, gaps).cut
  <1> DEFINE m == MetaOf(i, gaps)
  <1>1. m.qid \in {NoQid, i.shows} /\ m.qid \in Paintings \cup {NoQid}
    BY ImageFields DEF MetaOf
  <1>2. m.px = IF "px" \in gaps THEN 0 ELSE i.px
    BY DEF MetaOf
  <1>3. m.px \in Nat /\ (m.px = 0 => "px" \in gaps)
    BY <1>2, ImageFields
  <1>4. m.cut = ("px" \notin gaps /\ i.cut) /\ m.links = ("links" \in gaps)
    BY DEF MetaOf
  <1>5. m.cut \in BOOLEAN /\ m.links \in BOOLEAN /\ ("px" \in gaps => ~m.cut)
    <2>1. m.links \in BOOLEAN
      BY <1>4
    <2>2. CASE "px" \in gaps
      <3>1. m.cut = FALSE
        BY <1>4, <2>2
      <3> QED
        BY <2>1, <3>1
    <2>3. CASE "px" \notin gaps
      <3>1. m.cut = (TRUE /\ i.cut)
        BY <1>4, <2>3
      <3>2. m.cut = i.cut
        BY <3>1, ImageFields
      <3> QED
        BY <2>1, <2>3, <3>2, ImageFields
    <2> QED
      BY <2>2, <2>3
  <1>6. m.heavy \in BOOLEAN /\ m.sha \in Images
    BY ImageFields DEF MetaOf
  <1>7. m = [qid |-> m.qid, px |-> m.px, cut |-> m.cut, heavy |-> m.heavy, links |-> m.links,
             sha |-> m.sha]
    BY DEF MetaOf
  <1>8. m \in Meta
    BY <1>1, <1>3, <1>5, <1>6, <1>7 DEF Meta
  <1> QED
    BY <1>1, <1>3, <1>5, <1>8

(* The first master is one, where there is any. *)
LEMMA FirstMasterIsOne ==
  ASSUME NEW d, Files(d, "master") # {}
  PROVE  FirstMaster(d) \in Files(d, "master")
  <1>1. \E f \in Files(d, "master") :
          f.ext = "jpg" \/ \A g \in Files(d, "master") : g.ext # "jpg"
    OBVIOUS
  <1> QED
    BY <1>1 DEF FirstMaster

(* Files after a move: each was there before or is the one moved. *)
LEMMA MovedFiles ==
  ASSUME NEW from, NEW to
  PROVE  /\ Moved(from, to) \subseteq disk \cup {to}
         /\ to \in Moved(from, to)
         /\ \A f \in disk : f # from /\ ~SamePath(f, to) => f \in Moved(from, to)
  BY DEF Moved

LEMMA MovedType ==
  ASSUME disk \subseteq File, \A f, g \in disk : SamePath(f, g) => f = g,
         NEW from, NEW to \in File
  PROVE  /\ Moved(from, to) \subseteq File
         /\ \A f, g \in Moved(from, to) : SamePath(f, g) => f = g
  BY DEF Moved, SamePath, File

LEMMA RowsType ==
  ASSUME disk \subseteq File, NEW rows \in CandidateLists
  PROVE  /\ rows \in Seq(Line) /\ rows # <<>>
         /\ \A i \in DOMAIN rows : rows[i].cand \in disk
  <1>1. PICK n \in 1..MaxRows : rows \in [1..n -> Row]
    BY DEF CandidateLists
  <1>2. n \in Nat /\ n >= 1
    BY <1>1, BoundAssumption
  <1>3. \A row \in Row : row \in Line /\ row.cand \in disk
    BY DEF Row, Line
  <1> QED
    BY <1>1, <1>2, <1>3

LEMMA VerdictType ==
  ASSUME disk \subseteq File, NEW row \in Line, Files(row.wid, "master") # {}
  PROVE  Verdict(row) \in Judged
  <1>1. FirstMaster(row.wid) \in File
    BY FirstMasterIsOne DEF Files
  <1> QED
    BY <1>1 DEF Verdict, Judged, File

LEMMA HeadTodo ==
  ASSUME todo \in Seq(Judged), todo # <<>>
  PROVE  /\ Head(todo) \in Judged /\ Head(todo) = todo[1] /\ 1 \in DOMAIN todo
         /\ Head(todo).row \in Line /\ Head(todo).row.wid \in Works
         /\ Head(todo).row.cand \in File /\ Head(todo).row.cand.dir \in Sources
         /\ Head(todo).master \in Exts
         /\ Tail(todo) \in Seq(Judged)
  <1>1. /\ Head(todo) \in Judged /\ Head(todo) = todo[1] /\ 1 \in DOMAIN todo
        /\ Tail(todo) \in Seq(Judged)
    OBVIOUS
  <1> QED
    BY <1>1 DEF Judged, Line

LEMMA InitFiles ==
  ASSUME Init
  PROVE  /\ disk \subseteq File
         /\ \A f, g \in disk : SamePath(f, g) => f = g
         /\ RightPainting
         /\ \A d \in Dirs : Files(d, "master") # {}
  <1>1. PICK at \in UNION {[some -> Dirs \X Exts] : some \in SUBSET Images} : disk = Placed(at)
    BY DEF Init
  <1>2. DOMAIN at \subseteq Images /\ at \in [DOMAIN at -> Dirs \X Exts]
    BY <1>1
  <1>3. \A f \in disk : f \in File
    BY <1>1, <1>2 DEF File, Placed
  <1> QED
    BY <1>3 DEF Init, RightPainting

LEMMA InitMeta ==
  ASSUME Init
  PROVE  meta \in [Dirs -> Meta] /\ QidTold /\ Measured
  <1>1. PICK gaps \in Gaps : meta = [d \in Dirs |-> MetaOf(FirstMaster(d).img, gaps[d])]
    BY DEF Init
  <1>2. ASSUME NEW d \in Dirs
        PROVE  /\ FirstMaster(d) \in disk /\ FirstMaster(d).dir = d
               /\ FirstMaster(d).img \in Images
    BY InitFiles, FirstMasterIsOne DEF Files, File
  <1>3. ASSUME NEW d \in Dirs
        PROVE  /\ meta[d] \in Meta
               /\ meta[d].qid \in {NoQid, FirstMaster(d).img.shows}
               /\ meta[d].px = 0 => ~meta[d].cut
    <2>1. meta[d] = MetaOf(FirstMaster(d).img, gaps[d])
      BY <1>1
    <2> QED
      BY <1>2, <2>1, MetaOfType
  <1>4. QidTold
    <2> SUFFICES ASSUME NEW f \in disk
                 PROVE  meta[f.dir].qid \in {NoQid, f.img.shows}
      BY DEF QidTold
    <2>1. f.dir \in Dirs
      BY InitFiles DEF File
    <2>2. FirstMaster(f.dir).img.shows = f.img.shows
      BY <1>2, <2>1, InitFiles DEF RightPainting
    <2>3. meta[f.dir].qid \in {NoQid, FirstMaster(f.dir).img.shows}
      BY <1>3, <2>1
    <2> QED
      BY <2>2, <2>3
  <1>5. Measured
    BY <1>3 DEF Measured
  <1>6. \A d \in Dirs : meta[d] \in Meta
    BY <1>3
  <1>7. meta \in [Dirs -> Meta]
    BY <1>1, <1>6
  <1> QED
    BY <1>4, <1>5, <1>7

-----------------------------------------------------------------------------
(* Every step keeps the types *)

LEMMA TypedInit == Init => Typed
  <1> SUFFICES ASSUME Init PROVE Typed
    OBVIOUS
  <1>1. TypeOK
    BY InitFiles, InitMeta DEF TypeOK, Init
  <1> QED
    BY <1>1 DEF Typed, Init

LEMMA EvaluateTypes ==
  ASSUME Typed, NEW rows \in CandidateLists, NEW allow \in BOOLEAN, Evaluate(rows, allow)
  PROVE  /\ todo' \in Seq(Judged) /\ todo' # <<>>
         /\ DOMAIN todo' = DOMAIN rows
         /\ \A i \in DOMAIN rows :
              /\ rows[i] \in Line /\ rows[i].cand \in disk
              /\ todo'[i] = Verdict(rows[i]) /\ todo'[i].row = rows[i]
  <1>1. rows \in Seq(Line) /\ rows # <<>> /\ \A i \in DOMAIN rows : rows[i].cand \in disk
    BY RowsType DEF Typed, TypeOK
  <1>2. \A i \in DOMAIN rows : rows[i] \in Line /\ Files(rows[i].wid, "master") # {}
    BY <1>1 DEF Evaluate, Fits
  <1>3. \A i \in DOMAIN rows : Verdict(rows[i]) \in Judged
    BY <1>2, VerdictType DEF Typed, TypeOK
  <1>4. todo' = [i \in DOMAIN rows |-> Verdict(rows[i])]
    BY DEF Evaluate
  <1>5. DOMAIN rows = 1..Len(rows) /\ Len(rows) \in Nat /\ Len(rows) # 0
    BY <1>1
  <1>6. todo' \in Seq(Judged) /\ Len(todo') = Len(rows)
    BY <1>3, <1>4, <1>5
  <1> QED
    BY <1>1, <1>2, <1>4, <1>5, <1>6 DEF Verdict

LEMMA TypedNext == Typed /\ [Next]_vars => Typed'
  <1> SUFFICES ASSUME Typed, [Next]_vars PROVE Typed'
    OBVIOUS
  <1>1. CASE \E rows \in CandidateLists, allow \in BOOLEAN : Evaluate(rows, allow)
    <2>1. PICK rows \in CandidateLists, allow \in BOOLEAN : Evaluate(rows, allow)
      BY <1>1
    <2>2. todo' \in Seq(Judged) /\ todo' # <<>>
      BY <2>1, EvaluateTypes
    <2>3. /\ disk' = disk /\ meta' = meta /\ old' = old /\ appliedLog' = appliedLog
          /\ pc' = "moveOut" /\ applied' = <<>> /\ disturbed' \in BOOLEAN /\ reused' = reused
      BY <2>1 DEF Evaluate, Typed, TypeOK
    <2> QED
      BY <2>2, <2>3 DEF Typed, TypeOK, SamePath
  <1>2. CASE MoveOut
    <2>1. todo # <<>> /\ todo \in Seq(Judged)
      BY <1>2 DEF MoveOut, Typed, TypeOK
    <2>2. PICK m \in MasterAt(Head(todo).row.wid, Head(todo).master) :
            disk' = Moved(m, [m EXCEPT !.role = "superseded"]) /\ old' = {m.img}
      BY <1>2 DEF MoveOut
    <2>3. m \in File /\ m.img \in Images
      BY <2>2 DEF MasterAt, Files, Typed, TypeOK, File
    <2>4. [m EXCEPT !.role = "superseded"] \in File
      BY <2>3 DEF File
    <2>5. disk' \subseteq File /\ \A f, g \in disk' : SamePath(f, g) => f = g
      BY <2>2, <2>4, MovedType DEF Typed, TypeOK
    <2> QED
      BY <1>2, <2>1, <2>2, <2>3, <2>5 DEF MoveOut, Typed, TypeOK, count, SamePath
  <1>3. CASE MoveIn
    <2>1. todo # <<>> /\ todo \in Seq(Judged)
      BY <1>3 DEF MoveIn, Typed, TypeOK
    <2>2. PICK c \in Candidate(Head(todo)) :
            /\ disk' = Moved(c, [c EXCEPT !.dir = Head(todo).row.wid, !.role = "master"])
            /\ reused' \in {reused, reused \cup {c.img}}
      BY <1>3 DEF MoveIn
    <2>3. c \in File /\ c.img \in Images /\ Head(todo).row.wid \in Dirs
      BY <2>1, <2>2, HeadTodo, DirsType DEF Candidate, Typed, TypeOK, File
    <2>4. [c EXCEPT !.dir = Head(todo).row.wid, !.role = "master"] \in File
      BY <2>3 DEF File
    <2>5. disk' \subseteq File /\ \A f, g \in disk' : SamePath(f, g) => f = g
      BY <2>2, <2>4, MovedType DEF Typed, TypeOK
    <2> QED
      BY <1>3, <2>1, <2>2, <2>3, <2>5 DEF MoveIn, Typed, TypeOK, count, SamePath
  <1>4. CASE Record
    <2>1. todo # <<>> /\ todo \in Seq(Judged)
      BY <1>4 DEF Record, Typed, TypeOK
    <2>2. PICK m \in MasterAt(Head(todo).row.wid, Head(todo).row.cand.ext) :
            meta' = [meta EXCEPT ![Head(todo).row.wid].sha = m.img,
                                 ![Head(todo).row.wid].heavy = m.img.heavy]
      BY <1>4 DEF Record
    <2>3. m.img \in Images /\ m.img.heavy \in BOOLEAN
      BY <2>2, ImageFields DEF MasterAt, Files, Typed, TypeOK, File
    <2>4. meta' \in [Dirs -> Meta]
      <3> DEFINE w == Head(todo).row.wid
      <3>1. w \in Dirs /\ meta[w] \in Meta /\ meta \in [Dirs -> Meta]
        BY <2>1, HeadTodo, DirsType DEF Typed, TypeOK
      <3>2. [[meta[w] EXCEPT !.sha = m.img] EXCEPT !.heavy = m.img.heavy] \in Meta
        BY <2>3, <3>1 DEF Meta
      <3>3. meta' = [meta EXCEPT ![w] = [[meta[w] EXCEPT !.sha = m.img] EXCEPT !.heavy = m.img.heavy]]
        BY <2>2, <3>1
      <3> QED
        BY <3>1, <3>2, <3>3
    <2>5. [wid |-> Head(todo).row.wid, old |-> old] \in Entry
      BY <2>1, HeadTodo DEF Entry, Typed, TypeOK
    <2>6. applied' \in Seq(Entry)
      BY <1>4, <2>5 DEF Record, Typed
    <2>7. /\ todo' \in Seq(Judged) /\ (Len(todo) = 1 <=> todo' = <<>>)
          /\ pc' = IF Len(todo) = 1 THEN "log" ELSE "moveOut"
      <3>1. /\ Len(todo) \in Nat \ {0} /\ Tail(todo) \in Seq(Judged)
            /\ Len(Tail(todo)) = Len(todo) - 1
        BY <2>1
      <3>2. ASSUME NEW t \in Seq(Judged)
            PROVE  t = <<>> <=> Len(t) = 0
        OBVIOUS
      <3>3. Tail(todo) = <<>> <=> Len(Tail(todo)) = 0
        BY <3>1, <3>2
      <3> QED
        BY <1>4, <3>1, <3>3 DEF Record
    <2>8. disk' = disk /\ appliedLog' = appliedLog /\ disturbed' = disturbed /\ old' = {}
          /\ reused' = reused
      BY <1>4 DEF Record, count
    <2> QED
      BY <2>4, <2>6, <2>7, <2>8 DEF Typed, TypeOK, SamePath
  <1>5. CASE AppendLog
    BY <1>5 DEF AppendLog, Typed, TypeOK, count, SamePath
  <1>6. CASE Abort \/ Killed
    <2>1. /\ pc' = "idle" /\ todo' = <<>> /\ old' = {} /\ applied' = <<>> /\ disturbed' \in BOOLEAN
          /\ disk' = disk /\ meta' = meta /\ appliedLog' = appliedLog /\ reused' = reused
      BY <1>6 DEF Abort, Killed, Stop, Typed, TypeOK
    <2>2. <<>> \in Seq(Judged) /\ <<>> \in Seq(Entry)
      OBVIOUS
    <2> QED
      BY <2>1, <2>2 DEF Typed, TypeOK, SamePath
  <1>7. CASE UNCHANGED vars
    BY <1>7 DEF vars, script, count, Typed, TypeOK, SamePath
  <1> QED
    BY <1>1, <1>2, <1>3, <1>4, <1>5, <1>6, <1>7 DEF Next

(* The shape of the archive and of a run, whatever the sidecars lack. *)
THEOREM PromotionTypes == Spec => []TypeOK
  <1>1. Typed => TypeOK
    BY DEF Typed
  <1> QED
    BY <1>1, TypedInit, TypedNext, PTL DEF Spec

-----------------------------------------------------------------------------
(* Every directory shows one painting, and crops stay crops *)

(* What no swap changes of a sidecar. *)
SameClaims(d) ==
  meta'[d].qid = meta[d].qid /\ meta'[d].px = meta[d].px /\ meta'[d].cut = meta[d].cut

LEMMA ClaimsStay ==
  ASSUME Typed, [Next]_vars, NEW d \in Dirs
  PROVE  SameClaims(d)
  <1>1. CASE Record
    <2>1. todo # <<>> /\ todo \in Seq(Judged)
      BY <1>1 DEF Record, Typed, TypeOK
    <2>2. PICK m \in MasterAt(Head(todo).row.wid, Head(todo).row.cand.ext) :
            meta' = [meta EXCEPT ![Head(todo).row.wid].sha = m.img,
                                 ![Head(todo).row.wid].heavy = m.img.heavy]
      BY <1>1 DEF Record
    <2>3. Head(todo).row.wid \in Dirs /\ meta \in [Dirs -> Meta] /\ meta[d] \in Meta
      BY <2>1, HeadTodo, DirsType DEF Typed, TypeOK
    <2> QED
      BY <2>2, <2>3 DEF SameClaims, Meta
  <1>2. CASE ~Record
    <2>1. meta' = meta
      BY <1>2 DEF Next, Evaluate, MoveOut, MoveIn, AppendLog, Abort, Killed, Stop, vars
    <2> QED
      BY <2>1 DEF SameClaims
  <1> QED
    BY <1>1, <1>2

(* A row that fits is agreed. *)
LEMMA FitIsAgreed ==
  ASSUME Typed, Measured, NEW row \in Line, NEW allow, Fits(row, allow), NEW master
  PROVE  Agreed(meta, [row |-> row, master |-> master])
  <1> DEFINE held == meta[row.wid]
             cand == meta[row.cand.dir]
  <1>1. row.wid \in Dirs /\ row.cand.dir \in Dirs
    BY DirsType DEF Line, File
  <1>2. held \in Meta /\ cand \in Meta
    BY <1>1 DEF Typed, TypeOK
  <1>3. held.qid # NoQid /\ held.qid = cand.qid
    BY DEF Fits, SameWork
  <1>4. Clear(held, cand) \/ ~Protected(held, cand)
    BY DEF Fits
  <1>5. ASSUME held.cut
        PROVE  cand.cut
    <2>1. held.px # 0
      BY <1>1, <1>5 DEF Measured
    <2>2. ~Unmeasured(held, cand)
      BY <2>1 DEF Unmeasured
    <2>3. ~Protected(held, cand)
      BY <1>4, <2>2 DEF Clear
    <2>4. held.cut = cand.cut
      BY <2>2, <2>3 DEF Protected
    <2> QED
      BY <1>5, <2>4
  <1> QED
    BY <1>3, <1>5 DEF Agreed

LEMMA RightInit == Init => Right
  <1> SUFFICES ASSUME Init PROVE Right
    OBVIOUS
  <1>1. RowsAgreed
    BY DEF RowsAgreed, Init
  <1> QED
    BY <1>1, InitFiles, InitMeta DEF Right

LEMMA RowsAgreedNext ==
  ASSUME Typed, Measured, RowsAgreed, [Next]_vars
  PROVE  RowsAgreed'
  <1>1. CASE \E rows \in CandidateLists, allow \in BOOLEAN : Evaluate(rows, allow)
    <2>1. PICK rows \in CandidateLists, allow \in BOOLEAN : Evaluate(rows, allow)
      BY <1>1
    <2> SUFFICES ASSUME NEW i \in DOMAIN todo'
                 PROVE  Agreed(meta', todo'[i])
      BY DEF RowsAgreed
    <2>2. i \in DOMAIN rows /\ rows[i] \in Line /\ todo'[i] = Verdict(rows[i])
      BY <2>1, EvaluateTypes
    <2>3. Fits(rows[i], allow) /\ meta' = meta
      BY <2>1, <2>2 DEF Evaluate
    <2>4. Agreed(meta, Verdict(rows[i]))
      BY <2>2, <2>3, FitIsAgreed DEF Verdict
    <2> QED
      BY <2>2, <2>3, <2>4 DEF Agreed
  <1>2. CASE ~\E rows \in CandidateLists, allow \in BOOLEAN : Evaluate(rows, allow)
    <2>1. \/ todo' = todo
          \/ todo' = <<>>
          \/ todo' = Tail(todo) /\ todo # <<>>
      BY <1>2 DEF Next, MoveOut, MoveIn, Record, AppendLog, Abort, Killed, Stop, vars, script,
                  Typed, TypeOK
    <2> SUFFICES ASSUME NEW i \in DOMAIN todo'
                 PROVE  Agreed(meta', todo'[i])
      BY DEF RowsAgreed
    <2>2. PICK j \in DOMAIN todo : todo'[i] = todo[j]
      <3>1. CASE todo' = todo
        BY <3>1
      <3>2. CASE todo' = <<>>
        BY <3>2
      <3>3. CASE todo' = Tail(todo) /\ todo # <<>>
        <4>1. todo \in Seq(Judged)
          BY DEF Typed
        <4>2. i + 1 \in DOMAIN todo /\ Tail(todo)[i] = todo[i + 1]
          BY <3>3, <4>1
        <4> QED
          BY <3>3, <4>2
      <3> QED
        BY <2>1, <3>1, <3>2, <3>3
    <2>3. todo[j] \in Judged /\ Agreed(meta, todo[j])
      BY DEF Typed, RowsAgreed
    <2>4. todo[j].row.wid \in Dirs /\ todo[j].row.cand.dir \in Dirs
      BY <2>3, DirsType DEF Judged, Line, File
    <2>5. SameClaims(todo[j].row.wid) /\ SameClaims(todo[j].row.cand.dir)
      BY <2>4, ClaimsStay
    <2> QED
      BY <2>2, <2>3, <2>5 DEF Agreed, SameClaims
  <1> QED
    BY <1>1, <1>2

(* Each file after a step was there before in the same role, is a master   *)
(* that has been superseded, or the candidate in the work in hand.         *)
Came(f) ==
  \/ f \in disk
  \/ /\ pc = "moveOut" /\ f.role = "superseded"
     /\ \E m \in disk : m.dir = f.dir /\ m.img = f.img
  \/ /\ pc = "moveIn" /\ todo # <<>> /\ f.dir = Head(todo).row.wid
     /\ \E c \in disk : c.dir = Head(todo).row.cand.dir /\ c.img = f.img

LEMMA FilesCame ==
  ASSUME Typed, [Next]_vars, NEW f \in disk'
  PROVE  Came(f)
  <1>1. CASE MoveOut
    <2>1. PICK m \in MasterAt(Head(todo).row.wid, Head(todo).master) :
            disk' = Moved(m, [m EXCEPT !.role = "superseded"])
      BY <1>1 DEF MoveOut
    <2>2. m \in disk /\ m \in File /\ pc = "moveOut"
      BY <1>1, <2>1 DEF MoveOut, MasterAt, Files, Typed, TypeOK
    <2>3. f \in disk \/ f = [m EXCEPT !.role = "superseded"]
      BY <2>1, MovedFiles
    <2> QED
      BY <2>2, <2>3 DEF Came, File
  <1>2. CASE MoveIn
    <2>1. PICK c \in Candidate(Head(todo)) :
            disk' = Moved(c, [c EXCEPT !.dir = Head(todo).row.wid, !.role = "master"])
      BY <1>2 DEF MoveIn
    <2>2. /\ c \in disk /\ c \in File /\ c.dir = Head(todo).row.cand.dir
          /\ pc = "moveIn" /\ todo # <<>>
      BY <1>2, <2>1 DEF MoveIn, Candidate, SamePath, Typed, TypeOK
    <2>3. f \in disk \/ f = [c EXCEPT !.dir = Head(todo).row.wid, !.role = "master"]
      BY <2>1, MovedFiles
    <2> QED
      BY <2>2, <2>3 DEF Came, File
  <1>3. CASE ~MoveOut /\ ~MoveIn
    <2>1. disk' = disk
      BY <1>3 DEF Next, Evaluate, Record, AppendLog, Abort, Killed, Stop, vars
    <2> QED
      BY <2>1 DEF Came
  <1> QED
    BY <1>1, <1>2, <1>3

LEMMA OneComes ==
  ASSUME [Next]_vars, NEW f \in disk' \ disk, NEW g \in disk' \ disk
  PROVE  f = g
  <1>1. CASE MoveOut
    <2>1. PICK m \in MasterAt(Head(todo).row.wid, Head(todo).master) :
            disk' = Moved(m, [m EXCEPT !.role = "superseded"])
      BY <1>1 DEF MoveOut
    <2> QED
      BY <2>1, MovedFiles
  <1>2. CASE MoveIn
    <2>1. PICK c \in Candidate(Head(todo)) :
            disk' = Moved(c, [c EXCEPT !.dir = Head(todo).row.wid, !.role = "master"])
      BY <1>2 DEF MoveIn
    <2> QED
      BY <2>1, MovedFiles
  <1>3. CASE ~MoveOut /\ ~MoveIn
    BY <1>3 DEF Next, Evaluate, Record, AppendLog, Abort, Killed, Stop, vars
  <1> QED
    BY <1>1, <1>2, <1>3

(* A file that comes into a directory shows what the directory shows. *)
LEMMA ComesRight ==
  ASSUME Typed, Right, [Next]_vars, NEW f \in disk'
  PROVE  /\ f \in File
         /\ meta[f.dir].qid \in {NoQid, f.img.shows}
         /\ \A g \in disk : g.dir = f.dir => g.img.shows = f.img.shows
  <1>1. f \in File
    BY TypedNext DEF Typed, TypeOK
  <1>2. CASE f \in disk
    BY <1>1, <1>2 DEF Right, RightPainting, QidTold
  <1>3. CASE \E m \in disk : m.dir = f.dir /\ m.img = f.img
    BY <1>1, <1>3 DEF Right, RightPainting, QidTold
  <1>4. CASE /\ todo # <<>> /\ f.dir = Head(todo).row.wid
             /\ \E c \in disk : c.dir = Head(todo).row.cand.dir /\ c.img = f.img
    <2>1. PICK c \in disk : c.dir = Head(todo).row.cand.dir /\ c.img = f.img
      BY <1>4
    <2>2. Agreed(meta, Head(todo))
      BY <1>4, HeadTodo DEF Typed, Right, RowsAgreed
    <2>3. meta[c.dir].qid = meta[f.dir].qid /\ meta[f.dir].qid # NoQid
      BY <1>4, <2>1, <2>2 DEF Agreed
    <2>4. meta[f.dir].qid = f.img.shows
      BY <2>1, <2>3 DEF Right, QidTold
    <2>5. \A g \in disk : g.dir = f.dir => meta[g.dir].qid = g.img.shows
      BY <2>3 DEF Right, QidTold
    <2> QED
      BY <1>1, <2>4, <2>5
  <1> QED
    BY <1>2, <1>3, <1>4, FilesCame DEF Came

LEMMA RightNext ==
  ASSUME Typed, Right, [Next]_vars
  PROVE  Right'
  <1>1. RowsAgreed'
    BY RowsAgreedNext DEF Right
  <1>2. Measured'
    BY ClaimsStay DEF Right, Measured, SameClaims
  <1>3. QidTold'
    <2> SUFFICES ASSUME NEW f \in disk'
                 PROVE  meta'[f.dir].qid \in {NoQid, f.img.shows}
      BY DEF QidTold
    <2>1. f.dir \in Dirs /\ meta[f.dir].qid \in {NoQid, f.img.shows}
      BY ComesRight DEF File
    <2> QED
      BY <2>1, ClaimsStay DEF SameClaims
  <1>4. RightPainting'
    <2> SUFFICES ASSUME NEW f \in disk', NEW g \in disk', f.dir = g.dir
                 PROVE  f.img.shows = g.img.shows
      BY DEF RightPainting
    <2>1. CASE f \in disk \/ g \in disk
      BY <2>1, ComesRight
    <2>2. CASE f \notin disk /\ g \notin disk
      <3>1. f \in disk' \ disk /\ g \in disk' \ disk
        BY <2>2
      <3>2. f = g
        BY <3>1, OneComes
      <3> QED
        BY <3>2
    <2> QED
      BY <2>1, <2>2
  <1> QED
    BY <1>1, <1>2, <1>3, <1>4 DEF Right

(* No work gets the picture of another one, whatever its sidecar lacks and *)
(* wherever a run dies.                                                    *)
THEOREM WorksKeepTheirPainting == Spec => []RightPainting
  <1>1. Init => Typed /\ Right
    BY TypedInit, RightInit
  <1>2. Typed /\ Right /\ [Next]_vars => (Typed /\ Right)'
    BY TypedNext, RightNext
  <1>3. Right => RightPainting
    BY DEF Right
  <1> QED
    BY <1>1, <1>2, <1>3, PTL DEF Spec

(* Where sidecars tell crops, a crop only makes way for a crop. *)
LEMMA CropsNext ==
  ASSUME Typed, Right, [Next]_vars, CropsAreTold
  PROVE  CropsAreTold'
  <1> SUFFICES ASSUME NEW f \in disk', meta'[f.dir].cut
               PROVE  f.img.cut
    BY DEF CropsAreTold
  <1>1. f.dir \in Dirs
    BY ComesRight DEF File
  <1>2. meta[f.dir].cut
    BY <1>1, ClaimsStay DEF SameClaims
  <1>3. CASE f \in disk
    BY <1>2, <1>3 DEF CropsAreTold
  <1>4. CASE \E m \in disk : m.dir = f.dir /\ m.img = f.img
    BY <1>2, <1>4 DEF CropsAreTold
  <1>5. CASE /\ todo # <<>> /\ f.dir = Head(todo).row.wid
             /\ \E c \in disk : c.dir = Head(todo).row.cand.dir /\ c.img = f.img
    <2>1. PICK c \in disk : c.dir = Head(todo).row.cand.dir /\ c.img = f.img
      BY <1>5
    <2>2. Agreed(meta, Head(todo))
      BY <1>5, HeadTodo DEF Typed, Right, RowsAgreed
    <2>3. meta[c.dir].cut
      BY <1>2, <1>5, <2>1, <2>2 DEF Agreed
    <2> QED
      BY <2>1, <2>3 DEF CropsAreTold
  <1> QED
    BY <1>3, <1>4, <1>5, FilesCame DEF Came

THEOREM CropsMakeWayForCrops == Spec => CropStaysCrop
  <1>1. Init => Typed /\ Right
    BY TypedInit, RightInit
  <1>2. Typed /\ Right /\ [Next]_vars => (Typed /\ Right)'
    BY TypedNext, RightNext
  <1>3. Typed /\ Right /\ [Next]_vars => [CropsAreTold => CropsAreTold']_<<disk, meta>>
    BY CropsNext
  <1> QED
    BY <1>1, <1>2, <1>3, PTL DEF Spec, CropStaysCrop

-----------------------------------------------------------------------------
(* What is in the log can be undone *)

(* A superseded file stays in every step but the one that moves it in as a *)
(* candidate: a file that is moved to its path has the same content.       *)
LEMMA EvidenceStays ==
  ASSUME Typed, [Next]_vars, NEW e, Evidence(disk, reused, e)
  PROVE  Evidence(disk', reused', e)
  <1>1. CASE e.old \subseteq reused
    <2>1. reused \subseteq reused'
      BY DEF Next, Evaluate, MoveOut, MoveIn, Record, AppendLog, Abort, Killed, Stop, vars
    <2> QED
      BY <1>1, <2>1 DEF Evidence
  <1>2. CASE \E f \in disk : f.dir = e.wid /\ f.role = "superseded" /\ {f.img} = e.old
    <2>1. PICK f \in disk : f.dir = e.wid /\ f.role = "superseded" /\ {f.img} = e.old
      BY <1>2
    <2>2. CASE MoveOut
      <3>1. PICK m \in MasterAt(Head(todo).row.wid, Head(todo).master) :
              disk' = Moved(m, [m EXCEPT !.role = "superseded"])
        BY <2>2 DEF MoveOut
      <3> DEFINE to == [m EXCEPT !.role = "superseded"]
      <3>2. m \in File /\ m.role = "master"
        BY <3>1 DEF MasterAt, Files, Typed, TypeOK
      <3>3. to \in disk' /\ (f \in disk' \/ SamePath(f, to))
        BY <2>1, <3>1, <3>2, MovedFiles
      <3>4. SamePath(f, to) => to.dir = f.dir /\ to.role = f.role /\ to.img = f.img
        BY <2>1 DEF SamePath
      <3> QED
        BY <2>1, <3>3, <3>4 DEF Evidence
    <2>3. CASE MoveIn
      <3>1. PICK c \in Candidate(Head(todo)) :
              /\ disk' = Moved(c, [c EXCEPT !.dir = Head(todo).row.wid, !.role = "master"])
              /\ reused' = IF c.role = "superseded" THEN reused \cup {c.img} ELSE reused
        BY <2>3 DEF MoveIn
      <3>2. c \in File
        BY <3>1 DEF Candidate, Typed, TypeOK
      <3>3. CASE f = c
        BY <2>1, <3>1, <3>3 DEF Evidence
      <3>4. CASE f # c
        <4>1. ~SamePath(f, [c EXCEPT !.dir = Head(todo).row.wid, !.role = "master"])
          BY <2>1, <3>2 DEF SamePath, File
        <4>2. f \in disk'
          BY <2>1, <3>1, <3>4, <4>1, MovedFiles
        <4> QED
          BY <2>1, <4>2 DEF Evidence
      <3> QED
        BY <3>3, <3>4
    <2>4. CASE ~MoveOut /\ ~MoveIn
      <3>1. disk' = disk
        BY <2>4 DEF Next, Evaluate, Record, AppendLog, Abort, Killed, Stop, vars
      <3> QED
        BY <2>1, <3>1 DEF Evidence
    <2> QED
      BY <2>2, <2>3, <2>4
  <1> QED
    BY <1>1, <1>2 DEF Evidence

LEMMA ReversibleNext ==
  ASSUME Typed, Reversible, [Next]_vars
  PROVE  Reversible'
  <1>1. ASSUME NEW e, Evidence(disk, reused, e)
        PROVE  Evidence(disk', reused', e)
    BY <1>1, EvidenceStays
  <1>2. \A k \in DOMAIN appliedLog' : Evidence(disk', reused', appliedLog'[k])
    <2>1. CASE appliedLog' = appliedLog
      BY <1>1, <2>1 DEF Reversible
    <2>2. CASE appliedLog' = appliedLog \o applied
      <3> SUFFICES ASSUME NEW k \in DOMAIN appliedLog'
                   PROVE  Evidence(disk', reused', appliedLog'[k])
        OBVIOUS
      <3>1. appliedLog \in Seq(Entry) /\ applied \in Seq(Entry)
        BY DEF Typed
      <3>2. \/ k \in DOMAIN appliedLog /\ appliedLog'[k] = appliedLog[k]
            \/ /\ k - Len(appliedLog) \in DOMAIN applied
               /\ appliedLog'[k] = applied[k - Len(appliedLog)]
        BY <2>2, <3>1
      <3> QED
        BY <1>1, <3>2 DEF Reversible
    <2>3. appliedLog' = appliedLog \/ appliedLog' = appliedLog \o applied
      BY DEF Next, Evaluate, MoveOut, MoveIn, Record, AppendLog, Abort, Killed, Stop, vars
    <2> QED
      BY <2>1, <2>2, <2>3
  <1>3. \A k \in DOMAIN applied' : Evidence(disk', reused', applied'[k])
    <2>1. CASE applied' = applied
      BY <1>1, <2>1 DEF Reversible
    <2>2. CASE applied' = <<>>
      BY <2>2
    <2>3. CASE Record
      <3> SUFFICES ASSUME NEW k \in DOMAIN applied'
                   PROVE  Evidence(disk', reused', applied'[k])
        OBVIOUS
      <3>1. applied \in Seq(Entry) /\ applied' = Append(applied, InHand) /\ pc = "record"
        BY <2>3 DEF Record, Typed, InHand
      <3>2. \/ k \in DOMAIN applied /\ applied'[k] = applied[k]
            \/ applied'[k] = InHand
        BY <3>1
      <3> QED
        BY <1>1, <3>1, <3>2 DEF Reversible
    <2>4. applied' = applied \/ applied' = <<>> \/ Record
      BY DEF Next, Evaluate, MoveOut, MoveIn, AppendLog, Abort, Killed, Stop, vars, script
    <2> QED
      BY <2>1, <2>2, <2>3, <2>4
  <1>4. pc' \in {"moveIn", "record"} => Evidence(disk', reused', InHand')
    <2>1. CASE MoveOut
      <3>1. PICK m \in MasterAt(Head(todo).row.wid, Head(todo).master) :
              disk' = Moved(m, [m EXCEPT !.role = "superseded"]) /\ old' = {m.img}
        BY <2>1 DEF MoveOut
      <3>2. m \in File /\ m.dir = Head(todo).row.wid /\ todo' = todo
        BY <2>1, <3>1 DEF MoveOut, MasterAt, Files, Typed, TypeOK
      <3> DEFINE to == [m EXCEPT !.role = "superseded"]
      <3>3. to \in disk'
        BY <3>1, MovedFiles
      <3>4. to.dir = InHand'.wid /\ to.role = "superseded" /\ {to.img} = InHand'.old
        BY <3>1, <3>2 DEF InHand, File
      <3> QED
        BY <3>3, <3>4 DEF Evidence
    <2>2. CASE ~MoveOut /\ pc' \in {"moveIn", "record"}
      <3>1. todo' = todo /\ old' = old /\ pc \in {"moveIn", "record"}
        BY <2>2 DEF Next, Evaluate, MoveIn, Record, AppendLog, Abort, Killed, Stop, vars, script
      <3>2. InHand' = InHand
        BY <3>1 DEF InHand
      <3> QED
        BY <1>1, <3>1, <3>2 DEF Reversible
    <2> QED
      BY <2>1, <2>2
  <1> QED
    BY <1>2, <1>3, <1>4 DEF Reversible

(* The master that a logged swap has superseded still lies beside the      *)
(* work, whatever later runs moved and wherever they died, unless one of   *)
(* them has moved that very file in again.                                 *)
THEOREM LoggedSwapsAreReversible == Spec => []AppliedIsReversible
  <1>1. Init => Typed /\ Reversible
    <2>1. Init => Reversible
      BY DEF Init, Reversible
    <2> QED
      BY <2>1, TypedInit
  <1>2. Typed /\ Reversible /\ [Next]_vars => (Typed /\ Reversible)'
    BY TypedNext, ReversibleNext
  <1>3. Reversible => AppliedIsReversible
    BY DEF Reversible, AppliedIsReversible, Evidence
  <1> QED
    BY <1>1, <1>2, <1>3, PTL DEF Spec

-----------------------------------------------------------------------------
(* Works keep a master *)

(* Rows whose candidates are each claimed once claim different candidates. *)
LEMMA ClaimedOnce ==
  ASSUME NEW rows \in Seq(Line), NEW i \in DOMAIN rows, NEW j \in DOMAIN rows,
         SamePath(rows[i].cand, rows[j].cand),
         ClaimedBy(rows[i], rows) <= 1
  PROVE  i = j
  <1> DEFINE S == {k \in DOMAIN rows : SamePath(rows[k].cand, rows[i].cand)}
  <1>1. S \subseteq 1..Len(rows) /\ Len(rows) \in Nat
    OBVIOUS
  <1>2. IsFiniteSet(S)
    BY <1>1, FS_Interval, FS_Subset
  <1>3. {i} \cup {j} \subseteq S
    BY DEF SamePath
  <1>4. /\ Cardinality({i} \cup {j}) <= Cardinality(S) /\ Cardinality(S) <= 1
        /\ Cardinality(S) \in Nat /\ Cardinality({i} \cup {j}) \in Nat
    BY <1>2, <1>3, FS_Subset, FS_CardinalityType DEF ClaimedBy
  <1>5. IsFiniteSet({i}) /\ Cardinality({i}) = 1
    BY FS_Singleton
  <1>6. ASSUME i # j
        PROVE  Cardinality({i} \cup {j}) = 2
    <2>1. j \notin {i}
      BY <1>6
    <2>2. Cardinality({i} \cup {j}) = Cardinality({i}) + 1
      BY <1>5, <2>1, FS_AddElement
    <2> QED
      BY <1>5, <2>2
  <1>7. ASSUME NEW few \in Nat, NEW all \in Nat, few <= all, all <= 1
        PROVE  few # 2
    BY <1>7
  <1>8. Cardinality({i} \cup {j}) # 2
    <2> HIDE DEF S
    <2> QED
      BY <1>4, <1>7
  <1> QED
    BY <1>6, <1>8

LEMMA KeptInit == Init => Kept
  <1> SUFFICES ASSUME Init PROVE Kept
    OBVIOUS
  <1>1. todo = <<>>
    BY DEF Init
  <1>2. Outside /\ Distinct /\ Waiting
    BY <1>1 DEF Outside, Distinct, Waiting, Pending
  <1>3. OthersKeep
    BY InitFiles, DirsType DEF OthersKeep
  <1> QED
    BY <1>2, <1>3 DEF Kept

(* MoveOut touches the archive only, MoveIn its own work and candidate:    *)
(* the candidates of the other rows and the other works' masters stay.     *)
LEMMA KeptNext ==
  ASSUME Typed, Kept, [Next]_vars
  PROVE  Kept'
  <1> SUFFICES ASSUME ~disturbed'
               PROVE  Outside' /\ Distinct' /\ Waiting' /\ OthersKeep'
    BY DEF Kept
  <1>1. ~disturbed /\ Outside /\ Distinct /\ Waiting /\ OthersKeep
    <2>1. ~disturbed
      BY DEF Next, Evaluate, MoveOut, MoveIn, Record, AppendLog, Abort, Killed, vars, count,
             Typed, TypeOK
    <2> QED
      BY <2>1 DEF Kept
  <1>2. CASE \E rows \in CandidateLists, allow \in BOOLEAN : Evaluate(rows, allow)
    <2>1. PICK rows \in CandidateLists, allow \in BOOLEAN : Evaluate(rows, allow)
      BY <1>2
    <2>2. /\ DOMAIN todo' = DOMAIN rows
          /\ \A i \in DOMAIN rows : todo'[i].row = rows[i]
      BY <2>1, EvaluateTypes
    <2>3. Outside'
      BY <2>1, <2>2 DEF Evaluate, Outside
    <2>4. Distinct'
      <3> SUFFICES ASSUME NEW i \in DOMAIN rows, NEW j \in DOMAIN rows,
                          SamePath(rows[i].cand, rows[j].cand)
                   PROVE  i = j
        BY <2>2 DEF Distinct
      <3>1. rows \in Seq(Line) /\ ClaimedBy(rows[i], rows) <= 1
        BY <2>1, RowsType DEF Evaluate, Typed, TypeOK
      <3> QED
        BY <3>1, ClaimedOnce
    <2>5. disk' = disk /\ \A i \in DOMAIN rows : rows[i].cand \in disk
      BY <2>1, EvaluateTypes DEF Evaluate
    <2>6. Waiting'
      BY <2>2, <2>5 DEF Waiting, Pending, Candidate, SamePath
    <2>7. OthersKeep'
      BY <1>1, <2>1, <2>5 DEF Evaluate, OthersKeep, Files
    <2> QED
      BY <2>3, <2>4, <2>6, <2>7
  <1>3. CASE MoveOut
    <2>1. PICK m \in MasterAt(Head(todo).row.wid, Head(todo).master) :
            disk' = Moved(m, [m EXCEPT !.role = "superseded"])
      BY <1>3 DEF MoveOut
    <2>2. /\ m \in File /\ m.dir = Head(todo).row.wid /\ m.role = "master"
          /\ todo' = todo /\ pc = "moveOut" /\ pc' = "moveIn"
          /\ Head(todo).row.wid \in Works
      BY <1>3, <2>1, HeadTodo DEF MoveOut, MasterAt, Files, Typed, TypeOK
    <2>3. \A f \in disk : f.dir # m.dir => f \in disk'
      BY <2>1, <2>2, MovedFiles DEF SamePath, File
    <2>4. Outside' /\ Distinct'
      BY <1>1, <2>2 DEF Outside, Distinct
    <2>5. Waiting'
      <3> SUFFICES ASSUME NEW i \in Pending'
                   PROVE  (Candidate(todo[i]) # {})'
        BY DEF Waiting
      <3>1. i \in Pending /\ i \in DOMAIN todo
        BY <2>2 DEF Pending
      <3>2. PICK f \in Candidate(todo[i]) : TRUE
        BY <1>1, <3>1 DEF Waiting
      <3>3. f.dir # m.dir
        BY <1>1, <2>2, <3>1, <3>2 DEF Outside, Candidate, SamePath
      <3>4. f \in disk'
        BY <2>3, <3>2, <3>3 DEF Candidate
      <3> QED
        BY <2>2, <3>2, <3>4 DEF Candidate
    <2>6. OthersKeep'
      <3> SUFFICES ASSUME NEW w \in Works, w # Head(todo).row.wid
                   PROVE  (Files(w, "master") # {})'
        BY <2>2 DEF OthersKeep
      <3>1. PICK f \in Files(w, "master") : TRUE
        BY <1>1, <2>2 DEF OthersKeep
      <3> QED
        BY <2>2, <2>3, <3>1 DEF Files
    <2> QED
      BY <2>4, <2>5, <2>6
  <1>4. CASE MoveIn
    <2>1. PICK c \in Candidate(Head(todo)) :
            disk' = Moved(c, [c EXCEPT !.dir = Head(todo).row.wid, !.role = "master"])
      BY <1>4 DEF MoveIn
    <2> DEFINE to == [c EXCEPT !.dir = Head(todo).row.wid, !.role = "master"]
    <2>2. /\ c \in File /\ c \in disk /\ SamePath(c, Head(todo).row.cand)
          /\ todo # <<>> /\ todo \in Seq(Judged)
          /\ todo' = todo /\ pc = "moveIn" /\ pc' = "record"
      BY <1>4, <2>1 DEF MoveIn, Candidate, Typed, TypeOK
    <2>3. Head(todo) = todo[1] /\ 1 \in DOMAIN todo /\ Head(todo).row.wid \in Works
      BY <2>2, HeadTodo
    <2>4. c.dir \notin Works
      BY <1>1, <2>2, <2>3 DEF Outside, SamePath
    <2>5. to \in disk' /\ to.dir = Head(todo).row.wid /\ to.role = "master"
      BY <2>1, <2>2, MovedFiles DEF File
    <2>6. \A f \in disk : f # c /\ f.dir # Head(todo).row.wid => f \in disk'
      BY <2>1, <2>2, <2>5, MovedFiles DEF SamePath
    <2>7. Outside' /\ Distinct'
      BY <1>1, <2>2 DEF Outside, Distinct
    <2>8. Waiting'
      <3> SUFFICES ASSUME NEW i \in Pending'
                   PROVE  (Candidate(todo[i]) # {})'
        BY DEF Waiting
      <3>1. i \in Pending /\ i \in DOMAIN todo /\ i # 1
        BY <2>2 DEF Pending
      <3>2. PICK f \in Candidate(todo[i]) : TRUE
        BY <1>1, <3>1 DEF Waiting
      <3>3. f # c
        <4>1. ~SamePath(todo[i].row.cand, todo[1].row.cand)
          BY <1>1, <2>3, <3>1 DEF Distinct
        <4> QED
          BY <2>2, <2>3, <3>2, <4>1 DEF Candidate, SamePath
      <3>4. f.dir # Head(todo).row.wid
        BY <1>1, <2>3, <3>1, <3>2 DEF Outside, Candidate, SamePath
      <3>5. f \in disk'
        BY <2>6, <3>2, <3>3, <3>4 DEF Candidate
      <3> QED
        BY <2>2, <3>2, <3>5 DEF Candidate
    <2>9. OthersKeep'
      <3> SUFFICES ASSUME NEW w \in Works
                   PROVE  (Files(w, "master") # {})'
        BY DEF OthersKeep
      <3>1. CASE w = Head(todo).row.wid
        BY <2>5, <3>1 DEF Files
      <3>2. CASE w # Head(todo).row.wid
        <4>1. PICK f \in Files(w, "master") : TRUE
          BY <1>1, <3>2 DEF OthersKeep
        <4>2. f # c /\ f.dir # Head(todo).row.wid /\ f \in disk
          BY <2>4, <3>2, <4>1 DEF Files
        <4> QED
          BY <2>6, <4>1, <4>2 DEF Files
      <3> QED
        BY <3>1, <3>2
    <2> QED
      BY <2>7, <2>8, <2>9
  <1>5. CASE Record
    <2>1. /\ disk' = disk /\ pc = "record" /\ pc' # "moveIn" /\ pc' # "record"
          /\ todo' = Tail(todo) /\ todo # <<>> /\ todo \in Seq(Judged)
      BY <1>5 DEF Record, Typed, TypeOK
    <2>2. \A i \in DOMAIN todo' : i + 1 \in DOMAIN todo /\ i + 1 # 1 /\ todo'[i] = todo[i + 1] /\ i \in Nat
      BY <2>1
    <2>3. Outside'
      BY <1>1, <2>2 DEF Outside
    <2>4. Distinct'
      <3> SUFFICES ASSUME NEW i \in DOMAIN todo', NEW j \in DOMAIN todo',
                          SamePath(todo'[i].row.cand, todo'[j].row.cand)
                   PROVE  i = j
        BY DEF Distinct, SamePath
      <3>1. i + 1 = j + 1
        BY <1>1, <2>2 DEF Distinct
      <3> QED
        BY <2>2, <3>1
    <2>5. Waiting'
      BY <1>1, <2>1, <2>2 DEF Waiting, Pending, Candidate, SamePath
    <2>6. OthersKeep'
      BY <1>1, <2>1 DEF OthersKeep, Files
    <2> QED
      BY <2>3, <2>4, <2>5, <2>6
  <1>6. CASE Abort
    <2>1. todo # <<>> /\ disk' = disk /\ todo' = <<>> /\ pc' = "idle" /\ todo \in Seq(Judged)
      BY <1>6 DEF Abort, Stop, Typed, TypeOK
    <2>2. Head(todo) = todo[1] /\ 1 \in DOMAIN todo
      BY <2>1, HeadTodo
    <2>3. pc # "moveIn"
      BY <1>1, <1>6, <2>2 DEF Abort, Waiting, Pending
    <2>4. OthersKeep'
      BY <1>1, <2>1, <2>3 DEF OthersKeep, Files
    <2> QED
      BY <2>1, <2>4 DEF Outside, Distinct, Waiting, Pending
  <1>7. CASE AppendLog \/ UNCHANGED vars
    BY <1>1, <1>7 DEF AppendLog, vars, script, count, Outside, Distinct, Waiting, Pending, OthersKeep,
                      Candidate, SamePath, Files
  <1>8. ~Killed
    BY DEF Killed
  <1> QED
    BY <1>2, <1>3, <1>4, <1>5, <1>6, <1>7, <1>8 DEF Next

(* Runs that nobody kills, of candidates outside of the archive, end with  *)
(* a master in every work, also where two rows upgrade one work or an      *)
(* invalid sidecar ends the run.                                           *)
THEOREM WorksKeepAMaster == Spec => []WorkKeepsMaster
  <1>1. Init => Typed /\ Kept
    BY TypedInit, KeptInit
  <1>2. Typed /\ Kept /\ [Next]_vars => (Typed /\ Kept)'
    BY TypedNext, KeptNext
  <1>3. Kept => WorkKeepsMaster
    BY DEF Kept, OthersKeep, WorkKeepsMaster
  <1> QED
    BY <1>1, <1>2, <1>3, PTL DEF Spec
=============================================================================
