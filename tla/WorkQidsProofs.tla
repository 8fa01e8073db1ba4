--------------------------- MODULE WorkQidsProofs ---------------------------
(***************************************************************************)
(* A Q-ID denotes one work, for any number of works, Q-IDs, passes and     *)
(* releases and for any shape of the archive: whatever the passes find,    *)
(* refuse, clear, tear and leave undone, as long as they run one at a time, *)
(* none assigns a Q-ID without asking and no scan misses a good sidecar.   *)
(***************************************************************************)
EXTENDS WorkQids, FiniteSetTheorems, TLAPS

Claimers == Searches \cup {"creator"}

(* In the sidecars f, no work but w holds q. *)
Free(f, w, q) == q # NoQid => \A v \in Works \ {w} : f[v] # Torn => f[v].qid # q

(* Claims that name the holder of whatever is held. *)
Sound(f, held) ==
  \A w \in Works : f[w] # Torn /\ f[w].qid # NoQid => held[f[w].qid] = w

(* In the sidecars f, that of w can be read and holds q. *)
Holds(f, w, q) == f[w] # Torn /\ f[w].qid = q

(* One pass is at work. *)
OneAtWork == \A o, p \in Passes : pc[o] # "idle" /\ pc[p] # "idle" => o = p

(* A pass knows who holds what ... *)
ClaimsHold == \A p \in Passes : pc[p] # "idle" /\ kind[p] \in Claimers => Sound(file, claims[p])

(* ... and what it is about to write is held by nobody else, and claimed. *)
CopyIsFree ==
  \A p \in Passes : pc[p] \in {"write", "dump"} =>
    /\ Free(file, pos[p], copy[p].qid)
    /\ kind[p] \in Claimers /\ copy[p].qid # NoQid => claims[p][copy[p].qid] = pos[p]

Careful == ~careless => OneAtWork /\ ClaimsHold /\ CopyIsFree

IInv == TypeOK /\ Careful /\ OneWorkPerQid

-----------------------------------------------------------------------------
(* Types *)

Held == [Qids -> Works \cup {NoWork}]

Marks == [status : {"none", "available", "not_available", "unverified"},
          plan : 0..MaxPlan, refused : (Qids \X Works) \cup {NotRefused}]

(* Records, with their marks named. *)
LEMMA RecordIs == Record = [qid : Qids \cup {NoQid}, creator : BOOLEAN, mark : Marks]
  BY DEF Record, Marks

(* What an edit makes of a record. *)
LEMMA EditsAre ==
  ASSUME NEW r \in Record, NEW q \in Qids \cup {NoQid}, NEW m \in Marks
  PROVE  /\ \A known \in BOOLEAN : [qid |-> q, creator |-> known, mark |-> m] \in Record
         /\ [r EXCEPT !.mark = m] \in Record /\ [r EXCEPT !.mark = m].qid = r.qid
         /\ [r EXCEPT !.qid = q] \in Record /\ [r EXCEPT !.qid = q].qid = q
         /\ \A known \in BOOLEAN : /\ [r EXCEPT !.creator = known] \in Record
                                    /\ [r EXCEPT !.creator = known].qid = r.qid
         /\ [r EXCEPT !.qid = q, !.mark = m] \in Record
         /\ [r EXCEPT !.qid = q, !.mark = m].qid = q
  BY RecordIs

(* Provenance marks are of their type. *)
LEMMA MarksAre ==
  ASSUME NEW status \in {"none", "available", "not_available", "unverified"},
         NEW version \in 0..MaxPlan, NEW refused \in (Qids \X Works) \cup {NotRefused}
  PROVE  Mark(status, version, refused) \in Marks
  BY DEF Mark, Marks

(* What a search makes of a record, and the record of nothing. *)
LEMMA FoundIs ==
  ASSUME NEW r \in Record, NEW q \in Qids
  PROVE  Found(r, q) \in Record /\ Found(r, q).qid = q
  <1>1. 0 \in 0..MaxPlan
    BY BoundAssumption
  <1>2. PICK m \in Marks : m = Mark("available", 0, NotRefused)
    BY <1>1, MarksAre
  <1>3. Found(r, q) = [r EXCEPT !.qid = q, !.mark = m]
    BY <1>2 DEF Found
  <1> QED BY <1>3, RecordIs

LEMMA NoRecordIs == NoRecord \in Record /\ NoRecord.qid = NoQid
  BY BoundAssumption DEF NoRecord, Record, Mark

(* A set of works that is not empty has a first: of the intervals that end *)
(* in one of them, one contains no other.                                  *)
LEMMA FirstExists ==
  ASSUME NEW S \in SUBSET Works, S # {}
  PROVE  \E w \in S : \A v \in S : w <= v
  <1> DEFINE UpTo == {1..w : w \in S}
             Within == StrictSubsetOrdering(Works)
  <1>1. IsFiniteSet(Works)
    BY QidAssumption, FS_Interval DEF Works
  <1>2. IsWellFoundedOn(Within, FiniteSubsetsOf(Works))
    BY <1>1, FS_StrictSubsetOrderingWellFounded
  <1>3. UpTo \subseteq FiniteSubsetsOf(Works) /\ UpTo # {}
    <2>1. \A w \in S : 1..w \subseteq Works
      BY QidAssumption DEF Works
    <2>2. FiniteSubsetsOf(Works) = SUBSET Works
      BY <1>1, FS_FiniteSubsetsOfFinite
    <2>3. UpTo \subseteq SUBSET Works
      BY <2>1
    <2>4. UpTo # {}
      OBVIOUS
    <2> QED BY <2>2, <2>3, <2>4
  <1>4. PICK least \in UpTo : \A up \in UpTo : ~ (<<up, least>> \in Within)
    <2> HIDE DEF UpTo, Within
    <2> QED BY <1>2, <1>3, WFMin
  <1>5. PICK w \in S : least = 1..w
    BY <1>4
  <1>6. ASSUME NEW v \in S PROVE w <= v
    <2>1. v \in Nat \ {0} /\ w \in Nat \ {0} /\ 1..v \in SUBSET Works /\ 1..w \in SUBSET Works
      BY QidAssumption DEF Works
    <2>2. ~ (1..v \subseteq 1..w /\ 1..v # 1..w)
      <3> DEFINE pair == <<1..v, 1..w>>
      <3>1. pair \notin Within
        BY <1>4, <1>5
      <3>2. pair \in (SUBSET Works) \X (SUBSET Works) /\ pair[1] = 1..v /\ pair[2] = 1..w
        BY <2>1
      <3> QED BY <3>1, <3>2 DEF StrictSubsetOrdering
    <2>3. CASE v < w
      <3>1. 1..v \subseteq 1..w /\ w \in 1..w /\ w \notin 1..v
        BY <2>1, <2>3
      <3> QED BY <2>2, <3>1
    <2> QED BY <2>1, <2>3
  <1> QED BY <1>6

(* A scan names a holder of what is held, and the only one if there is one. *)
LEMMA FirstHoldersAre ==
  ASSUME NEW seen \in SUBSET Good
  PROVE  /\ FirstHolders(seen) \in Held
         /\ (OneWorkPerQid /\ ~careless) /\ TypeOK /\ seen = Good => Sound(file, FirstHolders(seen))
         /\ \A q \in Qids : FirstHolders(seen)[q] # NoWork =>
                             Holds(file, FirstHolders(seen)[q], q)
  <1> DEFINE Holders(q) == {w \in seen : file[w].qid = q}
             First(q) == CHOOSE w \in Holders(q) : \A v \in Holders(q) : w <= v
  <1>1. FirstHolders(seen) = [q \in Qids |-> IF Holders(q) = {} THEN NoWork ELSE First(q)]
    BY DEF FirstHolders
  <1>2. ASSUME NEW q \in Qids, Holders(q) # {} PROVE First(q) \in Holders(q)
    <2>1. Holders(q) \in SUBSET Works
      BY DEF Good
    <2>2. \E w \in Holders(q) : \A v \in Holders(q) : w <= v
      BY <1>2, <2>1, FirstExists
    <2> QED BY <2>2
  <1> HIDE DEF First
  <1>3. FirstHolders(seen) \in Held
    <2>1. ASSUME NEW q \in Qids
          PROVE  (IF Holders(q) = {} THEN NoWork ELSE First(q)) \in Works \cup {NoWork}
      BY <1>2 DEF Good
    <2> QED BY <1>1, <2>1 DEF Held
  <1>4. ASSUME OneWorkPerQid, ~careless, TypeOK, seen = Good, NEW w \in Works, Readable(w), file[w].qid # NoQid
        PROVE  FirstHolders(seen)[file[w].qid] = w
    <2> DEFINE q == file[w].qid
    <2>1. q \in Qids
      BY <1>4 DEF TypeOK, Readable, Record
    <2>2. w \in Holders(q)
      BY <1>4 DEF Good
    <2>3. \A v \in Holders(q) : v = w
      BY <1>4 DEF OneWorkPerQid, Good
    <2>4. First(q) = w
      BY <1>2, <2>1, <2>2, <2>3
    <2> QED BY <1>1, <2>1, <2>2, <2>4
  <1>5. ASSUME NEW q \in Qids, FirstHolders(seen)[q] # NoWork PROVE Holds(file, FirstHolders(seen)[q], q)
    <2>1. Holders(q) # {} /\ FirstHolders(seen)[q] = First(q)
      BY <1>1, <1>5
    <2> QED BY <1>2, <2>1 DEF Holds, Readable, Good
  <1> QED BY <1>3, <1>4, <1>5 DEF Sound, Readable

-----------------------------------------------------------------------------
(* Steps of a pass *)

(* At the start every Q-ID is held once. *)
LEMMA InitIInv == Init => IInv
  <1> SUFFICES ASSUME Init PROVE IInv
    OBVIOUS
  <1>1. PICK held \in [Works -> Qids \cup {NoQid}], creator \in [Works -> BOOLEAN],
             decided \in SUBSET Works :
          /\ \A v, w \in Works : v # w /\ held[v] # NoQid => held[v] # held[w]
          /\ file = [w \in Works |->
               [qid |-> held[w], creator |-> creator[w],
                mark |-> CASE w \in decided -> Mark("not_available", 0, NotRefused)
                           [] held[w] # NoQid -> Mark("available", 0, NotRefused)
                           [] OTHER -> Mark("none", 0, NotRefused)]]
    BY ZenonT(30) DEF Init
  <1>2. /\ Mark("not_available", 0, NotRefused) \in Marks
        /\ Mark("available", 0, NotRefused) \in Marks
        /\ Mark("none", 0, NotRefused) \in Marks
    BY BoundAssumption, MarksAre
  <1>3. file \in [Works -> Record]
    BY <1>1, <1>2, RecordIs
  <1>4. TypeOK
    <2>1. NoClaims \in [Qids -> Works \cup {NoWork}] /\ Unread \in [Works -> Record \cup {Torn}]
      BY DEF NoClaims, Unread
    <2>2. 1 \in Works /\ 1 \in 1..MaxPlan
      BY QidAssumption, BoundAssumption DEF Works
    <2> QED
      BY <1>3, <2>1, <2>2, NoRecordIs DEF Init, TypeOK, Guarded, Searches
  <1>5. OneWorkPerQid
    BY <1>1 DEF OneWorkPerQid, Readable
  <1>6. Careful
    BY DEF Init, Careful, OneAtWork, ClaimsHold, CopyIsFree
  <1> QED BY <1>4, <1>5, <1>6 DEF IInv

(* On to the next work, or to the end. *)
LEMMA MoveKeeps ==
  ASSUME IInv, NEW p \in Passes, pc[p] # "idle", NEW held \in Held,
         Advance(p, held) \/ End(p), UNCHANGED <<shape, plan, runs>>,
         careless' \in BOOLEAN, careless => careless',
         file' \in [Works -> Record \cup {Torn}], OneWorkPerQid',
         ~careless /\ kind[p] \in Claimers => Sound(file', held)
  PROVE  IInv'
  <1>1. TypeOK'
    <2>1. CASE End(p)
      <3>1. NoClaims \in Held /\ Unread \in [Works -> Record \cup {Torn}] /\ 1 \in Works
        BY QidAssumption DEF NoClaims, Unread, Works, Held
      <3> QED
        BY <2>1, <3>1, NoRecordIs DEF IInv, End, TypeOK, Guarded, Searches, Held
    <2>2. CASE Advance(p, held) /\ ~ End(p)
      <3>1. pos[p] # N /\ pos[p] \in Works
        BY <2>2 DEF Advance, IInv, TypeOK
      <3>2. pos[p] + 1 \in Works
        BY <3>1, QidAssumption DEF Works
      <3> QED
        BY <2>2, <3>2, NoRecordIs DEF IInv, Advance, TypeOK, Held
    <2> QED BY <2>1, <2>2
  <1>2. ASSUME ~careless' PROVE OneAtWork' /\ ClaimsHold' /\ CopyIsFree'
    <2>1. ~careless
      BY <1>2
    <2>2. \A o \in Passes : pc[o] # "idle" => o = p
      BY <2>1 DEF IInv, Careful, OneAtWork
    <2>3. /\ pc'[p] \in {"idle", "turn"} /\ \A o \in Passes \ {p} : pc'[o] = pc[o]
          /\ pc'[p] = "turn" => kind' = kind /\ claims'[p] = held
      BY DEF Advance, End, IInv, TypeOK
    <2>4. OneAtWork' /\ CopyIsFree'
      BY <2>2, <2>3 DEF OneAtWork, CopyIsFree
    <2>5. ClaimsHold'
      BY <2>1, <2>2, <2>3 DEF ClaimsHold
    <2> QED BY <2>4, <2>5
  <1> QED BY <1>1, <1>2 DEF IInv, Careful

(* A record to be written, with a Q-ID that no other work holds. *)
LEMMA ProposeKeeps ==
  ASSUME IInv, NEW p \in Passes, pc[p] # "idle", NEW record \in Record, NEW held \in Held,
         Propose(p, record, held), UNCHANGED <<archive, runs>>,
         careless' \in BOOLEAN, careless => careless',
         ~careless' =>
           /\ Free(file, pos[p], record.qid)
           /\ kind[p] \in Claimers =>
                Sound(file, held) /\ (record.qid # NoQid => held[record.qid] = pos[p])
  PROVE  IInv'
  <1>1. TypeOK'
    BY DEF IInv, Propose, TypeOK, archive, Held
  <1>2. OneWorkPerQid'
    BY DEF IInv, OneWorkPerQid, Readable, archive
  <1>3. ASSUME ~careless' PROVE OneAtWork' /\ ClaimsHold' /\ CopyIsFree'
    <2>1. ~careless /\ file' = file
      BY <1>3 DEF archive
    <2>2. \A o \in Passes : pc[o] # "idle" => o = p
      BY <2>1 DEF IInv, Careful, OneAtWork
    <2>3. /\ \A o \in Passes \ {p} : pc'[o] = pc[o]
          /\ claims'[p] = held /\ copy'[p] = record /\ UNCHANGED <<pos, kind>>
      BY DEF Propose, IInv, TypeOK
    <2>4. OneAtWork'
      BY <2>2, <2>3 DEF OneAtWork
    <2>5. ClaimsHold' /\ CopyIsFree'
      BY <1>3, <2>1, <2>2, <2>3 DEF ClaimsHold, CopyIsFree
    <2> QED BY <2>4, <2>5
  <1> QED BY <1>1, <1>2, <1>3 DEF IInv, Careful

(* A step that leaves the sidecars alone. *)
LEMMA PassesOn ==
  ASSUME IInv, NEW p \in Passes, pc[p] # "idle", NEW held \in Held,
         ~careless /\ kind[p] \in Claimers => Sound(file, held),
         Advance(p, held) \/ End(p), UNCHANGED <<archive, runs>>,
         careless' \in BOOLEAN, careless => careless'
  PROVE  IInv'
  <1>1. file' = file /\ file \in [Works -> Record \cup {Torn}] /\ UNCHANGED <<shape, plan>>
    BY DEF archive, IInv, TypeOK
  <1>2. OneWorkPerQid'
    BY <1>1 DEF IInv, OneWorkPerQid, Readable
  <1> QED BY <1>1, <1>2, MoveKeeps

(* The same, with the claims the pass has. *)
LEMMA GoesOn ==
  ASSUME IInv, NEW p \in Passes, pc[p] # "idle",
         Advance(p, claims[p]) \/ End(p), UNCHANGED <<archive, runs>>,
         careless' \in BOOLEAN, careless => careless'
  PROVE  IInv'
  <1>1. claims[p] \in Held
    BY DEF IInv, TypeOK, Held
  <1>2. ~careless /\ kind[p] \in Claimers => Sound(file, claims[p])
    BY DEF IInv, Careful, ClaimsHold
  <1> QED BY <1>1, <1>2, PassesOn

(* A pass that is alone learns who holds what. *)
LEMMA BeginKeeps ==
  ASSUME IInv, NEW p \in Passes, NEW k \in Guarded \cup Unguarded, Begin(p, k)
  PROVE  IInv'
  <1>0. PICK seen \in SUBSET Good, linked \in SUBSET Good : Scan(p, k, seen, linked)
    BY DEF Begin
  <1>1. FirstHolders(seen) \in Held /\ NoClaims \in Held /\ Unread \in [Works -> Record \cup {Torn}]
    BY FirstHoldersAre DEF NoClaims, Unread, Held
  <1>2. TypeOK'
    <2>1. Holdings(linked) \in SUBSET Works
      BY DEF Holdings
    <2>2. claims' \in [Passes -> Held] /\ barred' \in [Passes -> SUBSET Works]
      BY <1>0, <1>1, <2>1 DEF Scan, IInv, TypeOK, Held
    <2>3. loaded' \in [Passes -> [Works -> Record \cup {Torn}]]
      BY <1>1 DEF Begin, IInv, TypeOK
    <2>4. alone' \in [Passes -> BOOLEAN]
      BY DEF Begin, IInv, TypeOK
    <2>5. careless' \in BOOLEAN /\ runs' \in Nat
      BY <1>0 DEF Begin, Scan, IInv, TypeOK
    <2> QED
      BY <2>2, <2>3, <2>4, <2>5 DEF Begin, IInv, TypeOK, archive, Held
  <1>3. OneWorkPerQid'
    <2>1. file' = file /\ (careless => careless')
      BY <1>0 DEF Begin, Scan, IInv, TypeOK, archive
    <2> QED BY <2>1 DEF IInv, OneWorkPerQid, Readable
  <1>4. ASSUME ~careless' PROVE OneAtWork' /\ ClaimsHold' /\ CopyIsFree'
    <2>1. ~careless /\ (\A o \in Passes : pc[o] = "idle") /\ file' = file /\ seen = Good
      BY <1>0, <1>4 DEF Begin, Scan, archive
    <2>2. /\ pc'[p] = "turn" /\ kind'[p] = k /\ \A o \in Passes \ {p} : pc'[o] = pc[o]
          /\ k \in Claimers => claims'[p] = FirstHolders(seen)
      BY <1>0 DEF Begin, Scan, IInv, TypeOK, Claimers
    <2>3. Sound(file, FirstHolders(seen))
      BY <2>1, FirstHoldersAre DEF IInv
    <2>4. OneAtWork' /\ CopyIsFree'
      BY <2>1, <2>2 DEF OneAtWork, CopyIsFree
    <2>5. ClaimsHold'
      BY <2>1, <2>2, <2>3 DEF ClaimsHold
    <2> QED BY <2>4, <2>5
  <1> QED BY <1>2, <1>3, <1>4 DEF IInv, Careful

(* A torn sidecar holds nothing. *)
LEMMA TruncateKeeps == ASSUME IInv, NEW p \in Passes, Truncate(p) PROVE IInv'
  <1>1. /\ file' = [file EXCEPT ![pos[p]] = Torn] /\ pc' = [pc EXCEPT ![p] = "dump"]
        /\ pc[p] = "write" /\ pos[p] \in Works
        /\ UNCHANGED <<shape, plan, pos, copy, kind, claims, barred, loaded, alone, runs, careless>>
    BY DEF Truncate, local, IInv, TypeOK
  <1>2. \A w \in Works : file'[w] # Torn => file'[w] = file[w] /\ file[w] # Torn
    BY <1>1 DEF IInv, TypeOK
  <1>3. TypeOK'
    BY <1>1 DEF IInv, TypeOK
  <1>4. OneWorkPerQid'
    BY <1>1, <1>2 DEF IInv, OneWorkPerQid, Readable
  <1>5. ASSUME ~careless' PROVE OneAtWork' /\ ClaimsHold' /\ CopyIsFree'
    <2>1. OneAtWork /\ ClaimsHold /\ CopyIsFree
      BY <1>1, <1>5 DEF IInv, Careful
    <2>2. \A o \in Passes : pc'[o] = IF o = p THEN "dump" ELSE pc[o]
      BY <1>1 DEF IInv, TypeOK
    <2>3. OneAtWork'
      BY <1>1, <2>1, <2>2 DEF OneAtWork
    <2>4. ClaimsHold'
      BY <1>1, <1>2, <2>1, <2>2 DEF ClaimsHold, Sound
    <2>5. CopyIsFree'
      BY <1>1, <1>2, <2>1, <2>2 DEF CopyIsFree, Free
    <2> QED BY <2>3, <2>4, <2>5
  <1> QED BY <1>3, <1>4, <1>5 DEF IInv, Careful

(* What is written is held by nobody else. *)
LEMMA DumpKeeps == ASSUME IInv, NEW p \in Passes, Dump(p) PROVE IInv'
  <1>1. /\ file' = [file EXCEPT ![pos[p]] = copy[p]] /\ pos[p] \in Works /\ copy[p] \in Record
        /\ pc[p] = "dump" /\ Advance(p, claims[p]) /\ claims[p] \in Held
        /\ UNCHANGED <<shape, plan, runs, careless>> /\ careless \in BOOLEAN
    BY DEF Dump, IInv, TypeOK, Held
  <1>2. file' \in [Works -> Record \cup {Torn}]
    BY <1>1 DEF IInv, TypeOK
  <1>3. \A w \in Works : file'[w] = IF w = pos[p] THEN copy[p] ELSE file[w]
    BY <1>1 DEF IInv, TypeOK
  <1>4. ~careless => Free(file, pos[p], copy[p].qid)
    BY <1>1 DEF IInv, Careful, CopyIsFree
  <1>5. OneWorkPerQid'
    BY <1>1, <1>3, <1>4 DEF IInv, OneWorkPerQid, Readable, Free
  <1>6. ~careless /\ kind[p] \in Claimers => Sound(file', claims[p])
    BY <1>1, <1>3 DEF IInv, Careful, ClaimsHold, CopyIsFree, Sound
  <1> QED BY <1>1, <1>2, <1>5, <1>6, MoveKeeps

(* What a pass has read, when it looks at a work. *)
LEMMA AtWorkIs ==
  ASSUME IInv, NEW p \in Passes, NEW kinds, AtWork(p, kinds)
  PROVE  /\ pc[p] # "idle" /\ kind[p] \in kinds /\ pos[p] \in Works
         /\ Meta(p) \in Record /\ claims[p] \in Held /\ plan \in 0..MaxPlan
         /\ kind[p] # "repair" => Meta(p) = file[pos[p]] /\ Readable(pos[p])
         /\ ~careless /\ kind[p] \in Claimers => Sound(file, claims[p])
  BY BoundAssumption DEF AtWork, Meta, IInv, TypeOK, Held, Readable, Careful, ClaimsHold

(* What a work holds, nobody else does. *)
LEMMA OwnIsFree ==
  ASSUME IInv, ~careless, NEW w \in Works, Readable(w)
  PROVE  Free(file, w, file[w].qid)
  BY DEF IInv, OneWorkPerQid, Readable, Free

(* A find is free, because all holders are claimed. *)
LEMMA FindKeeps ==
  ASSUME IInv, NEW p \in Passes, NEW q \in Qids, Find(p, q)
  PROVE  IInv'
  <1> DEFINE record == Found(Meta(p), q)
             held == [claims[p] EXCEPT ![q] = pos[p]]
  <1>1. /\ pc[p] # "idle" /\ kind[p] \in Claimers /\ pos[p] \in Works /\ Meta(p) \in Record
        /\ claims[p] \in Held /\ claims[p][q] \in {NoWork, pos[p]}
        /\ Meta(p) = file[pos[p]] /\ Readable(pos[p]) /\ Meta(p).qid = NoQid
        /\ ~careless => Sound(file, claims[p])
        /\ UNCHANGED <<archive, runs, careless>>
    <2>1. AtWork(p, Claimers) /\ "repair" \notin Claimers
      BY DEF Find, Claimers, Searches
    <2> QED BY <2>1, AtWorkIs DEF Find, InQueue, Eligible
  <1>2. record \in Record /\ record.qid = q
    BY <1>1, FoundIs
  <1>3. held \in Held /\ held[q] = pos[p] /\ \A r \in Qids \ {q} : held[r] = claims[p][r]
    BY <1>1 DEF Held
  <1>4. ASSUME ~careless PROVE Sound(file, held) /\ Free(file, pos[p], q)
    <2>1. ASSUME NEW w \in Works, Readable(w), file[w].qid = q PROVE FALSE
      <3>1. claims[p][q] = w
        BY <1>1, <1>4, <2>1, QidAssumption DEF Sound, Readable
      <3>2. w = pos[p]
        BY <1>1, <3>1 DEF Works, NoWork
      <3> QED BY <1>1, <2>1, <3>2, QidAssumption
    <2>2. \A w \in Works : file[w] # Torn /\ file[w].qid # NoQid => file[w].qid \in Qids \ {q}
      BY <2>1 DEF IInv, TypeOK, Readable, Record
    <2> QED BY <1>1, <1>3, <1>4, <2>1, <2>2 DEF Sound, Free, Readable
  <1>5. Propose(p, record, held) \/ Advance(p, held) \/ Advance(p, claims[p])
    BY DEF Find
  <1> HIDE DEF record, held
  <1>6. careless \in BOOLEAN
    BY DEF IInv, TypeOK
  <1>7. CASE Propose(p, record, held)
    BY <1>1, <1>2, <1>3, <1>4, <1>6, <1>7, ProposeKeeps
  <1>8. CASE Advance(p, held)
    BY <1>1, <1>3, <1>4, <1>6, <1>8, PassesOn
  <1>9. CASE Advance(p, claims[p])
    BY <1>1, <1>6, <1>9, GoesOn
  <1> QED BY <1>5, <1>7, <1>8, <1>9

(* A record that keeps the work's own Q-ID, or has none. *)
LEMMA KeepsItsOwn ==
  ASSUME IInv, NEW p \in Passes, NEW kinds, AtWork(p, kinds), NEW record \in Record,
         Propose(p, record, claims[p]), UNCHANGED <<archive, runs>>,
         careless' \in BOOLEAN, careless => careless',
         ~careless' => \/ record.qid = NoQid
                       \/ record.qid = Meta(p).qid /\ kind[p] \in Unguarded
  PROVE  IInv'
  <1>1. /\ pc[p] # "idle" /\ pos[p] \in Works /\ claims[p] \in Held
        /\ kind[p] \in Unguarded => Meta(p) = file[pos[p]] /\ Readable(pos[p])
        /\ ~careless /\ kind[p] \in Claimers => Sound(file, claims[p])
    BY AtWorkIs DEF Unguarded
  <1>2. ASSUME ~careless' PROVE Free(file, pos[p], record.qid)
    BY <1>1, <1>2, OwnIsFree DEF Free
  <1>3. kind[p] \in Unguarded => kind[p] \notin Claimers
    BY DEF Unguarded, Claimers, Searches
  <1> QED BY <1>1, <1>2, <1>3, ProposeKeeps

(* Refusals and retirements leave a work without a Q-ID. *)
LEMMA SearchKeeps ==
  ASSUME IInv, NEW p \in Passes, GiveUp(p) \/ \E q \in Qids : Refuse(p, q)
  PROVE  IInv'
  <1>1. AtWork(p, Claimers) /\ UNCHANGED <<archive, runs, careless>>
    BY DEF GiveUp, Refuse, AtWork, Claimers, Searches
  <1>2. /\ pc[p] # "idle" /\ pos[p] \in Works /\ Meta(p) \in Record /\ claims[p] \in Held
        /\ plan \in 0..MaxPlan /\ 0 \in 0..MaxPlan /\ careless \in BOOLEAN
    BY <1>1, AtWorkIs, BoundAssumption DEF IInv, TypeOK
  <1>3. Meta(p).qid = NoQid
    BY DEF GiveUp, Refuse, InQueue, Eligible, Searches
  <1>4. ASSUME NEW m \in Marks, Propose(p, [Meta(p) EXCEPT !.mark = m], claims[p])
        PROVE  IInv'
    <2> DEFINE record == [Meta(p) EXCEPT !.mark = m]
    <2>1. record \in Record /\ record.qid = NoQid
      BY <1>2, <1>3, RecordIs
    <2>2. Propose(p, record, claims[p])
      BY <1>4
    <2> HIDE DEF record
    <2> QED BY <1>1, <1>2, <2>1, <2>2, KeepsItsOwn
  <1>5. CASE GiveUp(p)
    <2> DEFINE status == IF Meta(p).creator THEN "not_available" ELSE "unverified"
    <2>1. PICK m \in Marks : m = Mark(status, plan, NotRefused)
      BY <1>2, MarksAre
    <2>2. Propose(p, [Meta(p) EXCEPT !.mark = m], claims[p]) \/ Advance(p, claims[p])
      BY <1>5, <2>1 DEF GiveUp
    <2> QED BY <1>1, <1>2, <1>4, <2>2, GoesOn
  <1>6. ASSUME NEW q \in Qids, Refuse(p, q) PROVE IInv'
    <2> DEFINE version == IF kind[p] = "creator" THEN 0 ELSE plan
    <2>1. claims[p][q] \in Works
      BY <1>2, <1>6 DEF Refuse, Held
    <2>2. PICK m \in Marks : m = Mark("unverified", version, <<q, claims[p][q]>>)
      BY <1>2, <2>1, MarksAre
    <2>3. Propose(p, [Meta(p) EXCEPT !.mark = m], claims[p]) \/ Advance(p, claims[p]) \/ End(p)
      BY <1>6, <2>2 DEF Refuse
    <2> QED BY <1>1, <1>2, <1>4, <2>3, GoesOn
  <1> QED BY <1>5, <1>6

(* So does a repair. *)
LEMMA ClearKeeps ==
  ASSUME IInv, NEW p \in Passes, NEW unswap \in BOOLEAN, Clear(p, unswap)
  PROVE  IInv'
  <1> DEFINE record == [qid |-> NoQid, creator |-> Meta(p).creator \/ unswap,
                        mark |-> Mark("not_available", 0, NotRefused)]
  <1>1. AtWork(p, {"repair"}) /\ UNCHANGED <<archive, runs, careless>>
    BY DEF Clear
  <1>2. pc[p] # "idle" /\ Meta(p) \in Record /\ careless \in BOOLEAN
    BY <1>1, AtWorkIs DEF IInv, TypeOK
  <1>3. record \in Record /\ record.qid = NoQid
    <2>1. Mark("not_available", 0, NotRefused) \in Marks
      BY BoundAssumption, MarksAre
    <2> QED BY <1>2, <2>1, RecordIs
  <1>4. Propose(p, record, claims[p]) \/ Advance(p, claims[p]) \/ End(p)
    BY DEF Clear
  <1> HIDE DEF record
  <1> QED BY <1>1, <1>2, <1>3, <1>4, KeepsItsOwn, GoesOn

(* An unguarded pass keeps the Q-ID, or is careless. *)
LEMMA UnguardedKeeps ==
  ASSUME IInv, NEW p \in Passes,
         \/ \E q \in Qids : CompleteHolder(p, q) \/ LocateHolder(p, q)
         \/ \E q \in Qids \cup {NoQid} : UnswapTitle(p, q)
  PROVE  IInv'
  <1>1. AtWork(p, Unguarded) /\ UNCHANGED <<archive, runs>>
    BY DEF CompleteHolder, LocateHolder, UnswapTitle, AtWork, Unguarded
  <1>2. pc[p] # "idle" /\ Meta(p) \in Record /\ kind[p] \in Unguarded /\ careless \in BOOLEAN
    BY <1>1, AtWorkIs DEF IInv, TypeOK
  <1>3. ASSUME NEW record \in Record, Propose(p, record, claims[p]),
               careless' \in BOOLEAN, careless => careless',
               ~careless' => record.qid = Meta(p).qid
        PROVE  IInv'
    BY <1>1, <1>2, <1>3, KeepsItsOwn
  <1>4. ASSUME NEW q \in Qids, CompleteHolder(p, q) \/ LocateHolder(p, q) PROVE IInv'
    <2>1. PICK record \in Record : record = [Meta(p) EXCEPT !.qid = q]
      BY <1>2, RecordIs
    <2>2. /\ Propose(p, record, claims[p]) \/ Advance(p, claims[p]) \/ End(p)
          /\ careless' = (careless \/ record # Meta(p))
      BY <1>4, <2>1 DEF CompleteHolder, LocateHolder
    <2>3. CASE Propose(p, record, claims[p])
      BY <1>2, <1>3, <2>2, <2>3
    <2>4. CASE Advance(p, claims[p]) \/ End(p)
      BY <1>1, <1>2, <2>2, <2>4, GoesOn
    <2> QED BY <2>2, <2>3, <2>4
  <1>5. ASSUME NEW q \in Qids \cup {NoQid}, UnswapTitle(p, q) PROVE IInv'
    <2> DEFINE known == [Meta(p) EXCEPT !.creator = TRUE]
    <2>1. known \in Record /\ known.qid = Meta(p).qid
      BY <1>2, RecordIs
    <2> DEFINE record == IF q = NoQid THEN known ELSE Found(known, q)
    <2>2. record \in Record /\ (q = NoQid => record.qid = Meta(p).qid)
      BY <2>1, FoundIs
    <2>3. /\ Propose(p, record, claims[p]) \/ End(p)
          /\ careless' = (careless \/ q # NoQid)
      BY <1>5, <2>1 DEF UnswapTitle
    <2> HIDE DEF record
    <2>4. CASE Propose(p, record, claims[p])
      BY <1>2, <1>3, <2>2, <2>3, <2>4
    <2>5. CASE End(p)
      BY <1>1, <1>2, <2>3, <2>5, GoesOn
    <2> QED BY <2>3, <2>4, <2>5
  <1> QED BY <1>4, <1>5

(* Every step keeps the invariant. *)
LEMMA NextIInv == ASSUME IInv, [Next]_vars PROVE IInv'
  <1>1. CASE UNCHANGED vars \/ Improve
    <2>1. UNCHANGED <<shape, file, pc, pos, copy, kind, claims, barred, loaded, alone, runs,
                      careless>>
      BY <1>1 DEF vars, archive, local, Improve
    <2>2. plan' \in 1..MaxPlan
      BY <1>1, BoundAssumption DEF vars, archive, Improve, IInv, TypeOK
    <2> QED
      BY <2>1, <2>2 DEF IInv, TypeOK, Careful, OneAtWork, ClaimsHold, CopyIsFree, OneWorkPerQid,
                        Readable
  <1>2. ASSUME NEW p \in Passes, NEW k \in Guarded \cup Unguarded, Begin(p, k)
        PROVE IInv'
    BY <1>2, BeginKeeps
  <1>3. ASSUME NEW p \in Passes, NEW q \in Qids, Find(p, q) PROVE IInv'
    BY <1>3, FindKeeps
  <1>4. ASSUME NEW p \in Passes, GiveUp(p) \/ \E q \in Qids : Refuse(p, q) PROVE IInv'
    BY <1>4, SearchKeeps
  <1>5. ASSUME NEW p \in Passes, NEW unswap \in BOOLEAN, Clear(p, unswap) PROVE IInv'
    BY <1>5, ClearKeeps
  <1>6. ASSUME NEW p \in Passes,
               \/ \E q \in Qids : CompleteHolder(p, q) \/ LocateHolder(p, q)
               \/ \E q \in Qids \cup {NoQid} : UnswapTitle(p, q)
        PROVE  IInv'
    BY <1>6, UnguardedKeeps
  <1>7. ASSUME NEW p \in Passes, Truncate(p) \/ Dump(p) PROVE IInv'
    BY <1>7, TruncateKeeps, DumpKeeps
  <1>8. ASSUME NEW p \in Passes, Unreadable(p) \/ Skip(p) \/ Kill(p) PROVE IInv'
    <2>1. /\ pc[p] # "idle"
          /\ Advance(p, claims[p]) \/ End(p)
          /\ UNCHANGED <<archive, runs, careless>> /\ careless \in BOOLEAN
      BY <1>8 DEF Unreadable, Skip, AtWork, Kill, IInv, TypeOK
    <2> QED BY <2>1, GoesOn
  <1> QED
    BY <1>1, <1>2, <1>3, <1>4, <1>5, <1>6, <1>7, <1>8 DEF Next

-----------------------------------------------------------------------------
(* What has no identity of its own *)

(* A sidecar that can be read, or was when the pass that is at it, or that *)
(* has loaded it to repair it, came to it.                                 *)
Alive(o) ==
  \/ Readable(o)
  \/ \E p \in Passes : /\ pc[p] # "idle"
                       /\ kind[p] = "repair" \/ (pc[p] \in {"write", "dump"} /\ pos[p] = o)

ListedAlive(w) == \E o \in Works \ {w} : <<o, w>> \in shape.lists /\ Alive(o)

Hollow(w) == w \in shape.derived \/ (~careless /\ ListedAlive(w))

(* The hollow have no Q-ID and are not to get one, and a search knows whom *)
(* it must not ask about.                                                  *)
BareInv ==
  /\ \A w \in Works : Hollow(w) /\ Readable(w) => file[w].qid = NoQid
  /\ \A p \in Passes : pc[p] \in {"write", "dump"} /\ Hollow(pos[p]) => copy[p].qid = NoQid
  /\ ~careless => \A p \in Passes : pc[p] # "idle" /\ kind[p] \in Claimers =>
                    \A w \in Works : ListedAlive(w) => w \in barred[p]

(* Why a pass may write a record. *)
Justified(p, record) ==
  /\ pos[p] \in shape.derived => record.qid = NoQid
  /\ \/ record.qid = NoQid
     \/ kind[p] \in Claimers /\ pos[p] \notin barred[p]
     \/ kind[p] \in Unguarded /\ (~careless' => record.qid = Meta(p).qid)

Proposes(p) ==
  \E record, held : /\ AtWork(p, Guarded \cup Unguarded) /\ Propose(p, record, held)
                    /\ Justified(p, record)

Moves(p) == pc[p] # "idle" /\ (End(p) \/ \E held : Advance(p, held))

(* What the guards of the seven ways to a new record have in common. *)
LEMMA StepsAre ==
  ASSUME IInv, NEW p \in Passes,
         \/ \E q \in Qids : Find(p, q) \/ Refuse(p, q) \/ CompleteHolder(p, q) \/ LocateHolder(p, q)
         \/ \E q \in Qids \cup {NoQid} : UnswapTitle(p, q)
         \/ \E unswap \in BOOLEAN : Clear(p, unswap)
         \/ Unreadable(p) \/ Skip(p) \/ GiveUp(p) \/ Kill(p)
  PROVE  Moves(p) \/ Proposes(p)
  <1>1. CASE Unreadable(p) \/ Skip(p) \/ Kill(p)
    BY <1>1 DEF Unreadable, Skip, Kill, AtWork, Moves
  <1>2. ASSUME NEW record, NEW held, NEW kinds \in SUBSET (Guarded \cup Unguarded),
               AtWork(p, kinds),
               Valid(pos[p], record), Propose(p, record, held),
               \/ record.qid = NoQid
               \/ kind[p] \in Claimers /\ pos[p] \notin barred[p]
               \/ kind[p] \in Unguarded /\ (~careless' => record.qid = Meta(p).qid)
        PROVE  Proposes(p)
    BY <1>2 DEF Proposes, Justified, Valid, AtWork
  <1>3. ASSUME NEW kinds, AtWork(p, kinds)
        PROVE  pc[p] # "idle" /\ kind[p] \in kinds /\ Meta(p) \in Record /\ plan \in 0..MaxPlan
               /\ claims[p] \in Held
    BY <1>3, AtWorkIs
  <1>4. ASSUME NEW q \in Qids, Find(p, q) PROVE Moves(p) \/ Proposes(p)
    <2> DEFINE record == Found(Meta(p), q)
               held == [claims[p] EXCEPT ![q] = pos[p]]
    <2>1. AtWork(p, Claimers) /\ pos[p] \notin barred[p]
      BY <1>4 DEF Find, InQueue, Claimers
    <2>2. \/ Valid(pos[p], record) /\ Propose(p, record, held)
          \/ Advance(p, held) \/ Advance(p, claims[p])
      BY <1>4 DEF Find
    <2> HIDE DEF record, held
    <2>3. Claimers \subseteq Guarded
      BY DEF Claimers, Guarded
    <2> QED BY <1>2, <1>3, <2>1, <2>2, <2>3 DEF Moves
  <1>5. ASSUME NEW q \in Qids, Refuse(p, q) PROVE Moves(p) \/ Proposes(p)
    <2> DEFINE version == IF kind[p] = "creator" THEN 0 ELSE plan
               record == [Meta(p) EXCEPT !.mark = Mark("unverified", version, <<q, claims[p][q]>>)]
    <2>1. AtWork(p, Claimers) /\ Meta(p).qid = NoQid
      BY <1>5 DEF Refuse, InQueue, Eligible, Claimers, Searches
    <2>2. record.qid = NoQid
      BY <1>3, <2>1, RecordIs
    <2>3. \/ Valid(pos[p], record) /\ Propose(p, record, claims[p])
          \/ Advance(p, claims[p]) \/ End(p)
      BY <1>5 DEF Refuse
    <2> HIDE DEF record
    <2>4. Claimers \subseteq Guarded
      BY DEF Claimers, Guarded
    <2> QED BY <1>2, <1>3, <2>1, <2>2, <2>3, <2>4 DEF Moves
  <1>6. CASE GiveUp(p)
    <2> DEFINE status == IF Meta(p).creator THEN "not_available" ELSE "unverified"
               record == [Meta(p) EXCEPT !.mark = Mark(status, plan, NotRefused)]
    <2>1. AtWork(p, {"retire"}) /\ Meta(p).qid = NoQid
      BY <1>6 DEF GiveUp, InQueue, Eligible, AtWork, Searches
    <2>2. record.qid = NoQid
      BY <1>3, <2>1, RecordIs
    <2>3. \/ Valid(pos[p], record) /\ Propose(p, record, claims[p])
          \/ Advance(p, claims[p])
      BY <1>6 DEF GiveUp
    <2> HIDE DEF record
    <2>4. {"retire"} \subseteq Guarded
      BY DEF Guarded, Searches
    <2> QED BY <1>2, <1>3, <2>1, <2>2, <2>3, <2>4 DEF Moves
  <1>7. ASSUME NEW unswap \in BOOLEAN, Clear(p, unswap) PROVE Moves(p) \/ Proposes(p)
    <2> DEFINE record == [qid |-> NoQid, creator |-> Meta(p).creator \/ unswap,
                          mark |-> Mark("not_available", 0, NotRefused)]
    <2>1. AtWork(p, {"repair"}) /\ record.qid = NoQid
      BY <1>7 DEF Clear
    <2>2. \/ Valid(pos[p], record) /\ Propose(p, record, claims[p])
          \/ End(p)
      BY <1>7 DEF Clear
    <2> HIDE DEF record
    <2>3. {"repair"} \subseteq Guarded
      BY DEF Guarded
    <2> QED BY <1>2, <1>3, <2>1, <2>2, <2>3 DEF Moves
  <1>8. ASSUME NEW q \in Qids, CompleteHolder(p, q) \/ LocateHolder(p, q)
        PROVE  Moves(p) \/ Proposes(p)
    <2> DEFINE record == [Meta(p) EXCEPT !.qid = q]
    <2>1. AtWork(p, Unguarded)
      BY <1>8 DEF CompleteHolder, LocateHolder, AtWork, Unguarded
    <2>2. /\ \/ Valid(pos[p], record) /\ Propose(p, record, claims[p])
             \/ Advance(p, claims[p]) \/ End(p)
          /\ careless' = (careless \/ record # Meta(p))
      BY <1>8 DEF CompleteHolder, LocateHolder
    <2> HIDE DEF record
    <2> QED BY <1>2, <1>3, <2>1, <2>2 DEF Moves
  <1>9. ASSUME NEW q \in Qids \cup {NoQid}, UnswapTitle(p, q) PROVE Moves(p) \/ Proposes(p)
    <2> DEFINE known == [Meta(p) EXCEPT !.creator = TRUE]
               record == IF q = NoQid THEN known ELSE Found(known, q)
    <2>1. AtWork(p, Unguarded)
      BY <1>9 DEF UnswapTitle, AtWork, Unguarded
    <2>2. q = NoQid => record.qid = Meta(p).qid
      BY <1>3, <2>1, RecordIs
    <2>3. /\ \/ Valid(pos[p], record) /\ Propose(p, record, claims[p])
             \/ End(p)
          /\ careless' = (careless \/ q # NoQid)
      BY <1>9 DEF UnswapTitle
    <2> HIDE DEF record
    <2> QED BY <1>2, <1>3, <2>1, <2>2, <2>3 DEF Moves
  <1> QED BY <1>1, <1>4, <1>5, <1>6, <1>7, <1>8, <1>9

(* What ends, moves on, or is about to write leaves the rest alone. *)
LEMMA OthersStay ==
  ASSUME IInv, NEW p \in Passes, NEW q \in Passes, q # p,
         \/ Moves(p) \/ Proposes(p) \/ Truncate(p) \/ Dump(p)
         \/ \E k \in Guarded \cup Unguarded : Begin(p, k)
  PROVE  /\ pc'[q] = pc[q] /\ kind'[q] = kind[q] /\ pos'[q] = pos[q]
         /\ barred'[q] = barred[q] /\ copy'[q] = copy[q]
  <1>1. CASE Moves(p)
    <2>1. CASE End(p)
      BY <2>1 DEF End, IInv, TypeOK
    <2>2. ASSUME NEW held, Advance(p, held), ~ End(p)
          PROVE  /\ pc'[q] = pc[q] /\ kind'[q] = kind[q] /\ pos'[q] = pos[q]
                 /\ barred'[q] = barred[q] /\ copy'[q] = copy[q]
      BY <2>2 DEF Advance, IInv, TypeOK
    <2> QED BY <1>1, <2>1, <2>2 DEF Moves
  <1>2. CASE Proposes(p)
    BY <1>2 DEF Proposes, Propose, IInv, TypeOK
  <1>3. CASE Truncate(p)
    BY <1>3 DEF Truncate, local, IInv, TypeOK
  <1>4. Dump(p) => Moves(p)
    BY DEF Dump, Moves
  <1>5. ASSUME NEW k \in Guarded \cup Unguarded, Begin(p, k)
        PROVE  /\ pc'[q] = pc[q] /\ kind'[q] = kind[q] /\ pos'[q] = pos[q]
               /\ barred'[q] = barred[q] /\ copy'[q] = copy[q]
    <2>1. PICK seen \in SUBSET Good, linked \in SUBSET Good : Scan(p, k, seen, linked)
      BY <1>5 DEF Begin
    <2> QED BY <1>5, <2>1 DEF Begin, Scan, IInv, TypeOK
  <1> QED BY <1>1, <1>2, <1>3, <1>4, <1>5

(* Who moves on ends, or turns to the next work in the same pass. *)
LEMMA MoveIs ==
  ASSUME IInv, NEW p \in Passes, Moves(p)
  PROVE  /\ pc[p] # "idle"
         /\ \/ pc'[p] = "idle"
            \/ pc'[p] = "turn" /\ kind'[p] = kind[p] /\ barred'[p] = barred[p]
  <1>1. CASE End(p)
    BY <1>1 DEF End, Moves, IInv, TypeOK
  <1>2. ASSUME NEW held, Advance(p, held), ~ End(p)
        PROVE  pc'[p] = "turn" /\ kind'[p] = kind[p] /\ barred'[p] = barred[p]
    BY <1>2 DEF Advance, IInv, TypeOK
  <1> QED BY <1>1, <1>2 DEF Moves

(* No sidecar comes to life again. *)
LEMMA AliveBefore ==
  ASSUME IInv, NEW p \in Passes, NEW o \in Works, Alive(o)',
         \/ Moves(p) /\ file' = file
         \/ Proposes(p) /\ file' = file
         \/ Truncate(p) \/ Dump(p)
         \/ \E k \in Guarded \cup Unguarded : Begin(p, k)
  PROVE  Alive(o)
  <1> DEFINE Keeps(q) == /\ pc[q] # "idle"
                         /\ kind[q] = "repair" \/ (pc[q] \in {"write", "dump"} /\ pos[q] = o)
  <1>1. ASSUME NEW q \in Passes, q # p, Keeps(q)' PROVE Alive(o)
    BY <1>1, OthersStay DEF Alive
  <1>2. CASE Keeps(p)'
    <2>1. CASE Moves(p)
      <3>1. pc[p] # "idle" /\ kind[p] = "repair"
        BY <1>2, <2>1, MoveIs
      <3> QED BY <3>1 DEF Alive
    <2>2. CASE Proposes(p)
      <3>1. AtWork(p, Guarded \cup Unguarded) /\ kind'[p] = kind[p] /\ pos'[p] = pos[p]
        BY <2>2 DEF Proposes, Propose
      <3> QED BY <1>2, <3>1, AtWorkIs DEF Alive
    <2>3. CASE Truncate(p)
      BY <1>2, <2>3 DEF Truncate, local, Alive, IInv, TypeOK
    <2>4. CASE Dump(p)
      <3>1. Moves(p)
        BY <2>4 DEF Dump, Moves
      <3>2. pc[p] # "idle" /\ kind[p] = "repair"
        BY <1>2, <3>1, MoveIs
      <3> QED BY <3>2 DEF Alive
    <2>5. ASSUME NEW k \in Guarded \cup Unguarded, Begin(p, k)
        PROVE Alive(o)
      BY <1>2, <2>5 DEF Begin, Good, Alive, IInv, TypeOK
    <2> QED
      BY <2>1, <2>2, <2>3, <2>4, <2>5
  <1>3. CASE Readable(o)' /\ ~ Readable(o)
    BY <1>3 DEF Begin, Truncate, Dump, archive, Readable, Alive, IInv, TypeOK
  <1>4. Readable(o)' \/ \E q \in Passes : Keeps(q)'
    BY DEF Alive
  <1>5. Readable(o) => Alive(o)
    BY DEF Alive
  <1> QED BY <1>1, <1>2, <1>3, <1>4, <1>5

(* Hence nobody becomes hollow. *)
LEMMA HollowBefore ==
  ASSUME shape' = shape, careless => careless', \A o \in Works : Alive(o)' => Alive(o)
  PROVE  /\ \A w \in Works : ListedAlive(w)' => ListedAlive(w)
         /\ \A w \in Works : Hollow(w)' => Hollow(w)
  BY DEF ListedAlive, Hollow

(* At the start the hollow have no Q-ID. *)
LEMMA InitBare == Init => BareInv
  <1> SUFFICES ASSUME Init PROVE BareInv
    OBVIOUS
  <1>1. ASSUME NEW w \in Works, w \in shape.derived \/ Listed(w) PROVE file[w].qid = NoQid
    <2>1. PICK held \in [Works -> Qids \cup {NoQid}], creator \in [Works -> BOOLEAN],
               decided \in SUBSET Works :
            /\ \A v, u \in Works : v # u /\ held[v] # NoQid => held[v] # held[u]
            /\ \A v \in Works : v \in shape.derived \/ Listed(v) \/ v \in decided => held[v] = NoQid
            /\ file = [v \in Works |->
                 [qid |-> held[v], creator |-> creator[v],
                  mark |-> CASE v \in decided -> Mark("not_available", 0, NotRefused)
                             [] held[v] # NoQid -> Mark("available", 0, NotRefused)
                             [] OTHER -> Mark("none", 0, NotRefused)]]
      BY ZenonT(30) DEF Init
    <2> QED BY <1>1, <2>1
  <1>2. \A w \in Works : Hollow(w) => w \in shape.derived \/ Listed(w)
    BY DEF Hollow, ListedAlive, Listed
  <1>3. \A p \in Passes : pc[p] = "idle"
    BY DEF Init
  <1> QED BY <1>1, <1>2, <1>3 DEF BareInv

(* A record about to be written is justified, so not hollow or bare. *)
LEMMA MoveBare ==
  ASSUME IInv, BareInv, NEW p \in Passes, Moves(p) \/ Proposes(p), UNCHANGED <<shape, file>>,
         careless => careless'
  PROVE  BareInv'
  <1>1. /\ \A w \in Works : ListedAlive(w)' => ListedAlive(w)
        /\ \A w \in Works : Hollow(w)' => Hollow(w)
    BY AliveBefore, HollowBefore
  <1>2. \A w \in Works : Hollow(w)' /\ Readable(w)' => file'[w].qid = NoQid
    BY <1>1 DEF BareInv, Readable
  <1>3. ASSUME NEW q \in Passes, pc'[q] \in {"write", "dump"}, Hollow(pos[q])'
        PROVE  copy'[q].qid = NoQid
    <2>1. CASE q # p
      BY <1>1, <1>3, <2>1, OthersStay DEF BareInv, IInv, TypeOK
    <2>2. CASE q = p
      <3>1. PICK record, held : /\ AtWork(p, Guarded \cup Unguarded) /\ Propose(p, record, held)
                                /\ Justified(p, record)
        BY <1>3, <2>2, MoveIs DEF Proposes
      <3>2. copy'[p] = record /\ pc[p] # "idle" /\ pos[p] \in Works /\ pos' = pos
        BY <3>1, AtWorkIs DEF Propose, IInv, TypeOK
      <3>3. Hollow(pos[p]) /\ (pos[p] \in shape.derived \/ ~careless')
        BY <1>1, <1>3, <2>2, <3>2 DEF Hollow
      <3>4. CASE pos[p] \in shape.derived
        BY <2>2, <3>1, <3>2, <3>4 DEF Justified
      <3>5. CASE pos[p] \notin shape.derived
        <4>1. ~careless' /\ ListedAlive(pos[p])
          BY <3>3, <3>5 DEF Hollow
        <4>2. kind[p] \in Claimers => pos[p] \in barred[p]
          BY <3>2, <4>1 DEF BareInv
        <4>3. kind[p] \in Unguarded => Meta(p).qid = NoQid
          BY <3>1, <3>2, <3>3, AtWorkIs DEF BareInv, Unguarded
        <4> QED BY <2>2, <3>1, <3>2, <4>1, <4>2, <4>3 DEF Justified
      <3> QED BY <3>4, <3>5
    <2> QED BY <2>1, <2>2
  <1>4. ASSUME ~careless', NEW q \in Passes, pc'[q] # "idle", kind'[q] \in Claimers,
               NEW w \in Works, ListedAlive(w)'
        PROVE  w \in barred'[q]
    <2>1. pc[q] # "idle" /\ kind'[q] = kind[q] /\ barred'[q] = barred[q]
      <3>1. CASE q # p
        BY <1>4, <3>1, OthersStay
      <3>2. CASE q = p /\ Moves(p)
        BY <1>4, <3>2, MoveIs
      <3>3. CASE q = p /\ Proposes(p)
        BY <3>3 DEF Proposes, Propose, AtWork
      <3> QED BY <3>1, <3>2, <3>3
    <2> QED BY <1>1, <1>4, <2>1 DEF BareInv
  <1> QED BY <1>2, <1>3, <1>4 DEF BareInv

(* A scan bars whoever is listed. *)
LEMMA BeginBare ==
  ASSUME IInv, BareInv, NEW p \in Passes, NEW k \in Guarded \cup Unguarded, Begin(p, k)
  PROVE  BareInv'
  <1>0. PICK seen \in SUBSET Good, linked \in SUBSET Good : Scan(p, k, seen, linked)
    BY DEF Begin
  <1>1. /\ UNCHANGED <<shape, file, pos, copy>> /\ (careless => careless')
        /\ pc'[p] = "turn" /\ kind'[p] = k /\ (k \in Claimers => barred'[p] = Holdings(linked))
    BY <1>0 DEF Begin, Scan, archive, IInv, TypeOK, Claimers
  <1>2. /\ \A w \in Works : ListedAlive(w)' => ListedAlive(w)
        /\ \A w \in Works : Hollow(w)' => Hollow(w)
    BY <1>1, AliveBefore, HollowBefore
  <1>3. \A w \in Works : Hollow(w)' /\ Readable(w)' => file'[w].qid = NoQid
    BY <1>1, <1>2 DEF BareInv, Readable
  <1>4. ASSUME NEW q \in Passes, pc'[q] \in {"write", "dump"}, Hollow(pos[q])'
        PROVE  copy'[q].qid = NoQid
    BY <1>1, <1>2, <1>4, OthersStay DEF BareInv, IInv, TypeOK
  <1>5. ASSUME ~careless', NEW q \in Passes, pc'[q] # "idle", kind'[q] \in Claimers,
               NEW w \in Works, ListedAlive(w)'
        PROVE  w \in barred'[q]
    <2>1. (\A o \in Passes : pc[o] = "idle") /\ linked = Good
      BY <1>0, <1>5 DEF Scan
    <2>2. q = p
      BY <1>5, <2>1, OthersStay
    <2>3. \E o \in Works \ {w} : Readable(o) /\ <<o, w>> \in shape.lists
      BY <1>2, <1>5, <2>1 DEF ListedAlive, Alive
    <2> QED BY <1>1, <1>5, <2>1, <2>2, <2>3 DEF Holdings, Good
  <1> QED BY <1>3, <1>4, <1>5 DEF BareInv

(* What is written over the hollow is bare. *)
LEMMA WriteBare ==
  ASSUME IInv, BareInv, NEW p \in Passes, Truncate(p) \/ Dump(p)
  PROVE  BareInv'
  <1>1. shape' = shape /\ careless' = careless /\ pos[p] \in Works /\ pc[p] \in {"write", "dump"}
    BY DEF Truncate, Dump, IInv, TypeOK
  <1>2. /\ \A w \in Works : ListedAlive(w)' => ListedAlive(w)
        /\ \A w \in Works : Hollow(w)' => Hollow(w)
    BY <1>1, AliveBefore, HollowBefore
  <1>3. ASSUME NEW w \in Works, Hollow(w)', Readable(w)' PROVE file'[w].qid = NoQid
    <2>1. file'[w] = file[w] \/ (w = pos[p] /\ file'[w] = copy[p])
      BY <1>3 DEF Truncate, Dump, Readable, IInv, TypeOK
    <2> QED BY <1>1, <1>2, <1>3, <2>1 DEF BareInv, Readable
  <1>4. ASSUME NEW q \in Passes, pc'[q] # "idle"
        PROVE  /\ pc[q] # "idle" /\ kind'[q] = kind[q] /\ barred'[q] = barred[q]
               /\ pc'[q] \in {"write", "dump"} =>
                    pc[q] \in {"write", "dump"} /\ pos'[q] = pos[q] /\ copy'[q] = copy[q]
    <2>1. CASE q # p
      BY <1>4, <2>1, OthersStay
    <2>2. CASE q = p /\ Truncate(p)
      BY <2>2 DEF Truncate, local, IInv, TypeOK
    <2>3. CASE q = p /\ Dump(p)
      <3>1. Moves(p)
        BY <2>3 DEF Dump, Moves
      <3> QED BY <1>4, <2>3, <3>1, MoveIs
    <2> QED BY <1>1, <2>1, <2>2, <2>3
  <1>5. ASSUME NEW q \in Passes, pc'[q] \in {"write", "dump"}, Hollow(pos[q])'
        PROVE  copy'[q].qid = NoQid
    <2>1. pos[q] \in Works
      BY DEF IInv, TypeOK
    <2> QED BY <1>2, <1>4, <1>5, <2>1 DEF BareInv
  <1>6. ASSUME ~careless', NEW q \in Passes, pc'[q] # "idle", kind'[q] \in Claimers,
               NEW w \in Works, ListedAlive(w)'
        PROVE  w \in barred'[q]
    BY <1>1, <1>2, <1>4, <1>6 DEF BareInv
  <1> QED BY <1>3, <1>5, <1>6 DEF BareInv

(* Every step keeps the hollow bare. *)
LEMMA NextBare == ASSUME IInv, BareInv, [Next]_vars PROVE BareInv'
  <1>1. CASE UNCHANGED vars \/ Improve
    <2>1. UNCHANGED <<shape, file, pc, pos, copy, kind, barred, careless>>
      BY <1>1 DEF vars, archive, local, Improve
    <2> QED BY <2>1 DEF BareInv, Hollow, ListedAlive, Alive, Readable
  <1>2. ASSUME NEW p \in Passes, NEW k \in Guarded \cup Unguarded, Begin(p, k)
        PROVE BareInv'
    BY <1>2, BeginBare
  <1>3. ASSUME NEW p \in Passes, Truncate(p) \/ Dump(p) PROVE BareInv'
    BY <1>3, WriteBare
  <1>4. ASSUME NEW p \in Passes,
         \/ \E q \in Qids : Find(p, q) \/ Refuse(p, q) \/ CompleteHolder(p, q) \/ LocateHolder(p, q)
         \/ \E q \in Qids \cup {NoQid} : UnswapTitle(p, q)
         \/ \E unswap \in BOOLEAN : Clear(p, unswap)
         \/ Unreadable(p) \/ Skip(p) \/ GiveUp(p) \/ Kill(p)
        PROVE  BareInv'
    <2>1. UNCHANGED archive /\ (careless => careless')
      <3>1. ASSUME UNCHANGED <<archive, runs, careless>>
            PROVE  UNCHANGED archive /\ (careless => careless')
        BY <3>1
      <3>2. ASSUME NEW q \in Qids \cup {NoQid}, Find(p, q) \/ Refuse(p, q)
            PROVE  UNCHANGED <<archive, runs, careless>>
        BY <3>2 DEF Find, Refuse
      <3>3. ASSUME NEW unswap \in BOOLEAN, Clear(p, unswap)
            PROVE  UNCHANGED <<archive, runs, careless>>
        BY <3>3 DEF Clear
      <3>4. ASSUME Unreadable(p) \/ Skip(p) \/ GiveUp(p) \/ Kill(p)
            PROVE  UNCHANGED <<archive, runs, careless>>
        BY <3>4 DEF Unreadable, Skip, GiveUp, Kill
      <3>5. ASSUME NEW q \in Qids, CompleteHolder(p, q) \/ LocateHolder(p, q)
            PROVE  UNCHANGED archive /\ (careless => careless')
        BY <3>5 DEF CompleteHolder, LocateHolder
      <3>6. ASSUME NEW q \in Qids \cup {NoQid}, UnswapTitle(p, q)
            PROVE  UNCHANGED archive /\ (careless => careless')
        BY <3>6 DEF UnswapTitle
      <3> QED BY <1>4, <3>1, <3>2, <3>3, <3>4, <3>5, <3>6
    <2>2. UNCHANGED <<shape, file>>
      BY <2>1 DEF archive
    <2> QED BY <1>4, <2>1, <2>2, StepsAre, MoveBare
  <1> QED BY <1>1, <1>2, <1>3, <1>4 DEF Next

-----------------------------------------------------------------------------
(* Whom a refusal names *)

(* A pass is alone until another begins. *)
Lone ==
  \A p \in Passes : pc[p] # "idle" /\ alone[p] => \A o \in Passes \ {p} : pc[o] = "idle"

(* A pass whose claims nobody else outdates, and that claims nothing for a *)
(* sidecar that it cannot write.                                           *)
Trusty(p) ==
  /\ pc[p] # "idle" /\ kind[p] \in Claimers /\ alone[p]
  /\ kind[p] = "creator" \/ shape.invalid = {}

InWriting(p) == pc[p] \in {"write", "dump"}

(* Who has claimed a Q-ID holds it, or is about to get it. *)
ClaimsTrue(p) ==
  \A q \in Qids : claims[p][q] # NoWork =>
    IF InWriting(p) /\ claims[p][q] = pos[p] THEN copy[p].qid = q ELSE Holds(file, claims[p][q], q)

(* A refusal names another work that has claimed the Q-ID. *)
RefusalTrue(p) ==
  InWriting(p) /\ copy[p].mark.refused # NotRefused =>
    \E q \in Qids : /\ claims[p][q] \notin {NoWork, pos[p]}
                    /\ copy[p].mark.refused = <<q, claims[p][q]>>

HolderInv == Lone /\ \A p \in Passes : Trusty(p) => ClaimsTrue(p) /\ RefusalTrue(p)

(* A step of one pass that is at work disturbs no trusty one but itself. *)
LEMMA OnlyItself ==
  ASSUME HolderInv, NEW p \in Passes, pc[p] # "idle", shape' = shape,
         \A o \in Passes \ {p} : pc'[o] = pc[o] /\ alone'[o] = alone[o],
         pc'[p] = "idle" \/ (alone'[p] = alone[p] /\ kind'[p] = kind[p]),
         Trusty(p) /\ Trusty(p)' => (ClaimsTrue(p) /\ RefusalTrue(p))'
  PROVE  HolderInv'
  <1>1. Lone'
    BY DEF HolderInv, Lone
  <1>2. ASSUME NEW o \in Passes, Trusty(o)' PROVE o = p /\ Trusty(p)
    <2>1. ASSUME o # p PROVE FALSE
      <3>1. pc[o] # "idle" /\ alone[o]
        BY <1>2, <2>1 DEF Trusty
      <3> QED BY <2>1, <3>1 DEF HolderInv, Lone
    <2> QED BY <1>2, <2>1 DEF Trusty
  <1> QED BY <1>1, <1>2 DEF HolderInv

LEMMA EndHolders ==
  ASSUME IInv, HolderInv, NEW p \in Passes, pc[p] # "idle", End(p), shape' = shape
  PROVE  HolderInv'
  <1>1. pc'[p] = "idle" /\ \A o \in Passes \ {p} : pc'[o] = pc[o] /\ alone'[o] = alone[o]
    BY DEF End, IInv, TypeOK
  <1>2. ~ Trusty(p)'
    BY <1>1 DEF Trusty
  <1> QED BY <1>1, <1>2, OnlyItself

(* The pass goes on, and its claims are held. *)
LEMMA AdvanceHolders ==
  ASSUME IInv, HolderInv, NEW p \in Passes, pc[p] # "idle", NEW held, Advance(p, held),
         shape' = shape,
         Trusty(p) => \A q \in Qids : held[q] # NoWork => Holds(file', held[q], q)
  PROVE  HolderInv'
  <1>1. CASE pos[p] = N
    BY <1>1, EndHolders DEF Advance
  <1>2. CASE pos[p] # N
    <2>1. /\ pc'[p] = "turn" /\ claims'[p] = held /\ kind' = kind /\ alone' = alone
          /\ \A o \in Passes \ {p} : pc'[o] = pc[o]
      BY <1>2 DEF Advance, IInv, TypeOK
    <2>2. Trusty(p) => (ClaimsTrue(p) /\ RefusalTrue(p))'
      BY <2>1 DEF ClaimsTrue, RefusalTrue, InWriting
    <2> QED BY <2>1, <2>2, OnlyItself
  <1> QED BY <1>1, <1>2

(* The same, with the claims the pass has. *)
LEMMA GoesOnHolders ==
  ASSUME IInv, HolderInv, NEW p \in Passes, pc[p] = "turn",
         Advance(p, claims[p]) \/ End(p), UNCHANGED archive
  PROVE  HolderInv'
  <1>1. shape' = shape /\ file' = file
    BY DEF archive
  <1>2. Trusty(p) => \A q \in Qids : claims[p][q] # NoWork => Holds(file', claims[p][q], q)
    BY <1>1 DEF HolderInv, ClaimsTrue, InWriting, Holds, Readable
  <1> QED BY <1>1, <1>2, EndHolders, AdvanceHolders

(* The pass is about to write, and knows why. *)
LEMMA ProposeHolders ==
  ASSUME IInv, HolderInv, NEW p \in Passes, pc[p] # "idle", NEW record, NEW held,
         Propose(p, record, held), UNCHANGED archive,
         Trusty(p) =>
           /\ \A q \in Qids : held[q] # NoWork =>
                IF held[q] = pos[p] THEN record.qid = q ELSE Holds(file, held[q], q)
           /\ \/ record.mark.refused = NotRefused
              \/ \E q \in Qids : /\ held[q] \notin {NoWork, pos[p]}
                               /\ record.mark.refused = <<q, held[q]>>
  PROVE  HolderInv'
  <1>1. /\ pc'[p] = "write" /\ copy'[p] = record /\ claims'[p] = held
        /\ kind' = kind /\ alone' = alone /\ pos' = pos /\ file' = file /\ shape' = shape
        /\ \A o \in Passes \ {p} : pc'[o] = pc[o]
    BY DEF Propose, archive, IInv, TypeOK
  <1>2. Trusty(p) => ClaimsTrue(p)'
    BY <1>1 DEF ClaimsTrue, InWriting, Holds, Readable
  <1>3. Trusty(p) => RefusalTrue(p)'
    BY <1>1 DEF RefusalTrue
  <1> QED BY <1>1, <1>2, <1>3, OnlyItself

(* A work that a search asks about holds nothing, so that its pass has     *)
(* claimed nothing for it; and it is not derived, unless it is searched by *)
(* its creator.                                                            *)
LEMMA QueuedIs ==
  ASSUME IInv, HolderInv, NEW p \in Passes, NEW kinds \in SUBSET Claimers, AtWork(p, kinds),
         InQueue(p, Meta(p))
  PROVE  /\ pc[p] = "turn" /\ pos[p] \in Works /\ Meta(p) \in Record /\ Meta(p).qid = NoQid
         /\ claims[p] \in Held /\ plan \in 0..MaxPlan
         /\ kind[p] # "creator" => pos[p] \notin shape.derived
         /\ Trusty(p) => \A q \in Qids : claims[p][q] # NoWork =>
                           Holds(file, claims[p][q], q) /\ claims[p][q] # pos[p]
  <1>1. /\ pc[p] = "turn" /\ kind[p] \in Claimers /\ pos[p] \in Works /\ Meta(p) \in Record
        /\ Meta(p) = file[pos[p]] /\ claims[p] \in Held /\ plan \in 0..MaxPlan
    <2>1. "repair" \notin Claimers
      BY DEF Claimers, Searches
    <2>2. pc[p] = "turn" /\ kind[p] \in kinds
      BY DEF AtWork
    <2> QED BY <2>1, <2>2, AtWorkIs
  <1>2. Meta(p).qid = NoQid /\ (kind[p] # "creator" => pos[p] \notin shape.derived)
    BY <1>1 DEF InQueue, Eligible
  <1>3. ASSUME Trusty(p), NEW q \in Qids, claims[p][q] # NoWork
        PROVE  Holds(file, claims[p][q], q) /\ claims[p][q] # pos[p]
    <2>1. Holds(file, claims[p][q], q)
      BY <1>1, <1>3 DEF HolderInv, ClaimsTrue, InWriting
    <2> QED BY <1>1, <1>2, <2>1, QidAssumption DEF Holds
  <1> QED BY <1>1, <1>2, <1>3

LEMMA FindHolders ==
  ASSUME IInv, HolderInv, NEW p \in Passes, NEW q \in Qids, Find(p, q)
  PROVE  HolderInv'
  <1> DEFINE record == Found(Meta(p), q)
             held == [claims[p] EXCEPT ![q] = pos[p]]
  <1>1. /\ AtWork(p, Claimers) /\ InQueue(p, Meta(p)) /\ UNCHANGED archive
        /\ IF Valid(pos[p], record) THEN Propose(p, record, held)
           ELSE Advance(p, IF kind[p] = "creator" THEN claims[p] ELSE held)
    BY DEF Find, Claimers
  <1>2. /\ pc[p] = "turn" /\ pos[p] \in Works /\ Meta(p) \in Record
        /\ claims[p] \in Held
        /\ kind[p] # "creator" => pos[p] \notin shape.derived
        /\ Trusty(p) => \A r \in Qids : claims[p][r] # NoWork =>
                          Holds(file, claims[p][r], r) /\ claims[p][r] # pos[p]
    BY <1>1, QueuedIs
  <1>3. record.qid = q /\ record.mark.refused = NotRefused
    <2>1. record.mark = Mark("available", 0, NotRefused)
      BY <1>2, RecordIs DEF Found
    <2> QED BY <1>2, <2>1, FoundIs DEF Mark
  <1>4. held[q] = pos[p] /\ \A r \in Qids \ {q} : held[r] = claims[p][r]
    BY <1>2 DEF Held
  <1>5. Trusty(p) /\ kind[p] # "creator" => Valid(pos[p], record)
    BY <1>2 DEF Trusty, Valid
  <1> HIDE DEF record, held
  <1>6. CASE Propose(p, record, held)
    <2>1. Trusty(p) => \A r \in Qids : held[r] # NoWork =>
                         IF held[r] = pos[p] THEN record.qid = r ELSE Holds(file, held[r], r)
      BY <1>2, <1>3, <1>4
    <2> QED BY <1>1, <1>2, <1>3, <1>6, <2>1, ProposeHolders
  <1>7. CASE kind[p] = "creator" /\ Advance(p, claims[p])
    BY <1>1, <1>2, <1>7, GoesOnHolders
  <1>8. CASE ~ Valid(pos[p], record) /\ kind[p] # "creator" /\ Advance(p, held)
    BY <1>1, <1>2, <1>5, <1>8, AdvanceHolders DEF archive
  <1> QED BY <1>1, <1>6, <1>7, <1>8

LEMMA RefuseHolders ==
  ASSUME IInv, HolderInv, NEW p \in Passes, NEW q \in Qids, Refuse(p, q)
  PROVE  HolderInv'
  <1> DEFINE version == IF kind[p] = "creator" THEN 0 ELSE plan
             record == [Meta(p) EXCEPT !.mark = Mark("unverified", version, <<q, claims[p][q]>>)]
  <1>1. /\ AtWork(p, Claimers) /\ InQueue(p, Meta(p)) /\ UNCHANGED archive
        /\ claims[p][q] \notin {NoWork, pos[p]}
        /\ Propose(p, record, claims[p]) \/ Advance(p, claims[p]) \/ End(p)
    BY DEF Refuse, Claimers
  <1>2. /\ pc[p] = "turn" /\ Meta(p) \in Record
        /\ Trusty(p) => \A r \in Qids : claims[p][r] # NoWork =>
                          Holds(file, claims[p][r], r) /\ claims[p][r] # pos[p]
    BY <1>1, QueuedIs
  <1>3. record.mark.refused = <<q, claims[p][q]>>
    <2>1. record.mark = Mark("unverified", version, <<q, claims[p][q]>>)
      BY <1>2, RecordIs
    <2> QED BY <2>1 DEF Mark
  <1> HIDE DEF record
  <1>4. CASE Propose(p, record, claims[p])
    BY <1>1, <1>2, <1>3, <1>4, ProposeHolders
  <1> QED BY <1>1, <1>2, <1>4, GoesOnHolders

LEMMA GiveUpHolders ==
  ASSUME IInv, HolderInv, NEW p \in Passes, GiveUp(p)
  PROVE  HolderInv'
  <1> DEFINE status == IF Meta(p).creator THEN "not_available" ELSE "unverified"
             record == [Meta(p) EXCEPT !.mark = Mark(status, plan, NotRefused)]
  <1>1. /\ AtWork(p, {"retire"}) /\ InQueue(p, Meta(p)) /\ UNCHANGED archive
        /\ Propose(p, record, claims[p]) \/ Advance(p, claims[p])
    BY DEF GiveUp
  <1>2. /\ pc[p] = "turn" /\ Meta(p) \in Record
        /\ Trusty(p) => \A r \in Qids : claims[p][r] # NoWork =>
                          Holds(file, claims[p][r], r) /\ claims[p][r] # pos[p]
    <2>1. {"retire"} \in SUBSET Claimers
      BY DEF Claimers, Searches
    <2> QED BY <1>1, <2>1, QueuedIs
  <1>3. record.mark.refused = NotRefused
    <2>1. record.mark = Mark(status, plan, NotRefused)
      BY <1>2, RecordIs
    <2> QED BY <2>1 DEF Mark
  <1> HIDE DEF record
  <1>4. CASE Propose(p, record, claims[p])
    BY <1>1, <1>2, <1>3, <1>4, ProposeHolders
  <1> QED BY <1>1, <1>2, <1>4, GoesOnHolders

(* Passes that claim nothing. *)
LEMMA ClaimlessHolders ==
  ASSUME IInv, HolderInv, NEW p \in Passes,
         \/ \E unswap \in BOOLEAN : Clear(p, unswap)
         \/ \E q \in Qids : CompleteHolder(p, q) \/ LocateHolder(p, q)
         \/ \E q \in Qids \cup {NoQid} : UnswapTitle(p, q)
  PROVE  HolderInv'
  <1>1. pc[p] = "turn" /\ kind[p] \in {"repair"} \cup Unguarded /\ UNCHANGED archive
    BY DEF Clear, CompleteHolder, LocateHolder, UnswapTitle, AtWork, Unguarded
  <1>2. ~ Trusty(p)
    BY <1>1 DEF Trusty, Claimers, Searches, Unguarded
  <1>3. (\E record : Propose(p, record, claims[p])) \/ Advance(p, claims[p]) \/ End(p)
    BY DEF Clear, CompleteHolder, LocateHolder, UnswapTitle
  <1> QED BY <1>1, <1>2, <1>3, ProposeHolders, GoesOnHolders

LEMMA TruncateHolders ==
  ASSUME IInv, HolderInv, NEW p \in Passes, Truncate(p)
  PROVE  HolderInv'
  <1>1. /\ pc[p] = "write" /\ pc'[p] = "dump" /\ \A o \in Passes \ {p} : pc'[o] = pc[o]
        /\ UNCHANGED <<shape, pos, copy, kind, claims, alone>>
        /\ \A w \in Works : w # pos[p] => file'[w] = file[w]
    BY DEF Truncate, local, IInv, TypeOK
  <1>2. claims[p] \in Held
    BY DEF IInv, TypeOK, Held
  <1>3. ASSUME Trusty(p) PROVE ClaimsTrue(p)' /\ RefusalTrue(p)'
    <2>1. ClaimsTrue(p) /\ RefusalTrue(p)
      BY <1>3 DEF HolderInv
    <2>2. \A q \in Qids : claims[p][q] \in Works \cup {NoWork}
      BY <1>2 DEF Held
    <2>3. ClaimsTrue(p)'
      BY <1>1, <2>1, <2>2 DEF ClaimsTrue, InWriting, Holds, Readable
    <2>4. RefusalTrue(p)'
      BY <1>1, <2>1 DEF RefusalTrue, InWriting
    <2> QED BY <2>3, <2>4
  <1> QED BY <1>1, <1>3, OnlyItself

LEMMA DumpHolders ==
  ASSUME IInv, HolderInv, NEW p \in Passes, Dump(p)
  PROVE  HolderInv'
  <1>1. /\ pc[p] = "dump" /\ Advance(p, claims[p]) /\ shape' = shape
        /\ pos[p] \in Works /\ copy[p] \in Record /\ claims[p] \in Held
        /\ \A w \in Works : file'[w] = IF w = pos[p] THEN copy[p] ELSE file[w]
    BY DEF Dump, IInv, TypeOK, Held
  <1>2. copy[p] # Torn
    BY <1>1, TornAssumption
  <1>3. \A q \in Qids : claims[p][q] \in Works \cup {NoWork}
    BY <1>1 DEF Held
  <1>4. Trusty(p) => \A q \in Qids : claims[p][q] # NoWork => Holds(file', claims[p][q], q)
    BY <1>1, <1>2, <1>3 DEF HolderInv, ClaimsTrue, InWriting, Holds, Readable
  <1> QED BY <1>1, <1>4, AdvanceHolders

LEMMA BeginHolders ==
  ASSUME IInv, HolderInv, NEW p \in Passes, NEW k \in Guarded \cup Unguarded, Begin(p, k)
  PROVE  HolderInv'
  <1>0. PICK seen \in SUBSET Good, linked \in SUBSET Good : Scan(p, k, seen, linked)
    BY DEF Begin
  <1>1. /\ pc[p] = "idle" /\ pc'[p] = "turn" /\ \A o \in Passes \ {p} : pc'[o] = pc[o]
        /\ kind'[p] = k /\ (k \in Claimers => claims'[p] = FirstHolders(seen))
        /\ file' = file /\ shape' = shape
    BY <1>0 DEF Begin, Scan, IInv, TypeOK, archive, Claimers
  <1>2. \A o \in Passes : pc[o] # "idle" \/ o = p =>
          alone'[o] = \A r \in Passes : pc[r] = "idle"
    BY DEF Begin
  <1>3. ASSUME NEW o \in Passes, pc'[o] # "idle", alone'[o]
        PROVE  o = p /\ \A r \in Passes \ {p} : pc'[r] = "idle"
    <2>1. \A r \in Passes : pc[r] = "idle"
      BY <1>1, <1>2, <1>3
    <2> QED BY <1>1, <1>3, <2>1
  <1>4. Lone'
    BY <1>3 DEF Lone
  <1>5. k \in Claimers => (ClaimsTrue(p) /\ RefusalTrue(p))'
    BY <1>1, FirstHoldersAre DEF ClaimsTrue, RefusalTrue, InWriting, Holds, Readable
  <1>6. \A o \in Passes : Trusty(o)' => (ClaimsTrue(o) /\ RefusalTrue(o))'
    BY <1>1, <1>3, <1>5 DEF Trusty
  <1> QED BY <1>4, <1>6 DEF HolderInv

LEMMA NextHolders == ASSUME IInv, HolderInv, [Next]_vars PROVE HolderInv'
  <1>1. CASE UNCHANGED vars
    BY <1>1 DEF vars, archive, local, HolderInv, Lone, Trusty, ClaimsTrue, RefusalTrue, InWriting,
                Holds, Readable
  <1>2. CASE Improve
    <2>1. \A p \in Passes : pc'[p] = "idle"
      BY <1>2 DEF Improve
    <2> QED BY <2>1 DEF HolderInv, Lone, Trusty
  <1>3. ASSUME NEW p \in Passes, Unreadable(p) \/ Skip(p) PROVE HolderInv'
    <2>1. pc[p] = "turn" /\ (Advance(p, claims[p]) \/ End(p)) /\ UNCHANGED archive
      BY <1>3 DEF Unreadable, Skip, AtWork
    <2> QED BY <2>1, GoesOnHolders
  <1>4. ASSUME NEW p \in Passes, Kill(p) PROVE HolderInv'
    BY <1>4, EndHolders DEF Kill, archive
  <1> QED
    BY <1>1, <1>2, <1>3, <1>4, BeginHolders, FindHolders, RefuseHolders, GiveUpHolders,
       ClaimlessHolders, TruncateHolders, DumpHolders DEF Next

-----------------------------------------------------------------------------
(* Theorems *)

(* The inductive invariant holds in every reachable state. *)
THEOREM Invariant == Spec => []IInv
  BY InitIInv, NextIInv, PTL DEF Spec

(* Every variable keeps its type. *)
THEOREM TypeCorrect == Spec => []TypeOK
  <1>1. IInv => TypeOK
    BY DEF IInv
  <1> QED BY <1>1, Invariant, PTL

(* Whatever passes find, refuse, clear, tear and leave undone: as long as  *)
(* they run one at a time, and none assigns a Q-ID without asking, no two   *)
(* sidecars hold the same.                                                 *)
THEOREM QidDenotesOneWork == Spec => []OneWorkPerQid
  <1>1. IInv => OneWorkPerQid
    BY DEF IInv
  <1> QED BY <1>1, Invariant, PTL

(* Neither a derived work, whoever assigns, nor one that another work lists *)
(* as its variant, as long as passes are careful and sidecars whole, is     *)
(* ever given a Q-ID of its own.                                           *)
THEOREM HollowStayBare == Spec => []HoldingsStayBare
  <1>1. IInv /\ BareInv => HoldingsStayBare
    BY DEF BareInv, Hollow, ListedAlive, Alive, Listed, HoldingsStayBare
  <1>2. IInv /\ BareInv /\ [Next]_vars => BareInv'
    BY NextBare
  <1> QED BY <1>1, <1>2, InitBare, Invariant, PTL DEF Spec

(* Whoever adjudicates a refusal finds the work it names, with the Q-ID,   *)
(* whatever came before, and although sidecars are torn and invalid: the   *)
(* pass had read all sidecars, nobody wrote since, and it has claimed a    *)
(* Q-ID only for a work that got it.                                       *)
THEOREM RefusalsNameHolders == Spec => []RefusalNamesAHolder
  <1>1. Init => HolderInv
    BY DEF Init, HolderInv, Lone, Trusty
  <1>2. IInv /\ HolderInv /\ [Next]_vars => HolderInv'
    BY NextHolders
  <1>3. HolderInv => RefusalNamesAHolder
    <2> SUFFICES ASSUME HolderInv, NEW p \in Passes, InWriting(p), kind[p] \in Claimers,
                        copy[p].mark.refused # NotRefused, alone[p],
                        kind[p] = "creator" \/ shape.invalid = {}
                 PROVE  Holds(file, copy[p].mark.refused[2], copy[p].mark.refused[1])
      BY DEF RefusalNamesAHolder, Holds, Readable, InWriting, Claimers
    <2>1. ClaimsTrue(p) /\ RefusalTrue(p)
      BY DEF HolderInv, Trusty, InWriting
    <2>2. PICK q \in Qids : /\ claims[p][q] \notin {NoWork, pos[p]}
                           /\ copy[p].mark.refused = <<q, claims[p][q]>>
      BY <2>1 DEF RefusalTrue
    <2>3. Holds(file, claims[p][q], q)
      BY <2>1, <2>2 DEF ClaimsTrue
    <2> QED BY <2>2, <2>3
  <1> QED BY <1>1, <1>2, <1>3, Invariant, PTL DEF Spec
=============================================================================
