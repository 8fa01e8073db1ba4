------------------------------ MODULE WorkQids ------------------------------
(***************************************************************************)
(* The passes that give works their Wikidata Q-ID.  Each walks the sidecars *)
(* in the order of their paths, with a search that may find any Q-ID or    *)
(* none, and rewrites the sidecar in place.  The search of resolve_work_qids *)
(* and the one by creator refuse what another work holds (WorkQidClaims)   *)
(* and pass over sidecars that another one lists as its variant            *)
(* (VariantLinks); fix_misresolved_work_qids clears what is not an artwork; *)
(* three passes about holders and artists assign a Q-ID without asking.    *)
(* Passes may overlap, and be killed or stopped by their limit anywhere.   *)
(***************************************************************************)
EXTENDS Naturals, FiniteSets

CONSTANTS N,         \* the works are 1..N, in the order of their paths
          Qids, NoQid,
          Passes,    \* processes
          Shapes,    \* the archives: what is derived, invalid, listed
          MaxRuns,   \* bound: passes in a behaviour
          MaxCareless, \* bound: passes, once one was careless
          MaxPlan,   \* bound: SEARCH_PLAN_VERSION
          MaxMissed, \* bound: good sidecars that the scans of a pass fail to open
          Torn

Works == 1..N
NoWork == 0

ASSUME QidAssumption == N \in Nat \ {0} /\ NoQid \notin Qids
ASSUME ShapeAssumption ==
  \A s \in Shapes : /\ s.derived \subseteq Works /\ s.invalid \subseteq Works
                    /\ s.lists \subseteq Works \X Works
ASSUME BoundAssumption ==
  MaxRuns \in Nat /\ MaxCareless \in Nat /\ MaxPlan \in Nat \ {0} /\ MaxMissed \in Nat

Searches == {"resolve", "retire"}    \* resolve_work_qids, with --retire or not
Guarded == Searches \cup {"creator", "repair"}
Unguarded == {"holders", "location", "swap"}

VARIABLES shape,    \* derived_from, schema errors and files.variants of each
          file,     \* what the record says of the Q-ID, in each meta.json
          plan,     \* SEARCH_PLAN_VERSION
          pc, kind, pos,   \* where each process is, in what pass, at which work
          claims,   \* WorkQidClaims of the pass
          barred,   \* whom its VariantLinks exclude
          loaded,   \* what a repair has read of all sidecars
          copy,     \* what the pass is about to write
          alone,    \* has no other pass been at work since this one began?
          runs,
          careless  \* has a pass assigned unasked, run beside another, or been
                    \* unable to open a good sidecar in its scan?

archive == <<shape, file, plan>>
local == <<kind, claims, barred, loaded, alone>>
vars == <<archive, pc, pos, copy, local, runs, careless>>

NotRefused == <<NoQid, NoWork>>

(* field_provenance.work_qid: its status, the plan version in source_ref   *)
(* (0 if it names none), and the collision its note tells of.              *)
Mark(status, version, refused) ==
  [status |-> status, plan |-> version, refused |-> refused]

Record == [qid : Qids \cup {NoQid}, creator : BOOLEAN,
           mark : [status : {"none", "available", "not_available", "unverified"},
                   plan : 0..MaxPlan, refused : (Qids \X Works) \cup {NotRefused}]]

ASSUME TornAssumption == Torn \notin Record

Unread == [w \in Works |-> Torn]
NoClaims == [q \in Qids |-> NoWork]
NoRecord == [qid |-> NoQid, creator |-> FALSE, mark |-> Mark("none", 0, NotRefused)]

Readable(w) == file[w] # Torn
Good == {w \in Works : Readable(w)}
Listed(w) == \E o \in Works \ {w} : <<o, w>> \in shape.lists

Init ==
  /\ shape \in Shapes
  /\ \E held \in [Works -> Qids \cup {NoQid}], creator \in [Works -> BOOLEAN],
        decided \in SUBSET Works :
       /\ \A v, w \in Works : v # w /\ held[v] # NoQid => held[v] # held[w]
       /\ \A w \in Works : w \in shape.derived \/ Listed(w) \/ w \in decided => held[w] = NoQid
       /\ file = [w \in Works |->
            [qid |-> held[w], creator |-> creator[w],
             mark |-> CASE w \in decided -> Mark("not_available", 0, NotRefused)
                        [] held[w] # NoQid -> Mark("available", 0, NotRefused)
                        [] OTHER -> Mark("none", 0, NotRefused)]]
  /\ plan = 1
  /\ pc = [p \in Passes |-> "idle"]
  /\ kind = [p \in Passes |-> "resolve"]
  /\ pos = [p \in Passes |-> 1]
  /\ claims = [p \in Passes |-> NoClaims]
  /\ barred = [p \in Passes |-> {}]
  /\ loaded = [p \in Passes |-> Unread]
  /\ copy = [p \in Passes |-> NoRecord]
  /\ alone = [p \in Passes |-> TRUE]
  /\ runs = 0
  /\ careless = FALSE

-----------------------------------------------------------------------------
(* The guards *)

(* Mutant: seeded with nothing. *)
NoHolders(seen) == NoClaims

(* WorkQidClaims.from_sidecars: the first holder by path, among the ones   *)
(* that it could read.                                                     *)
FirstHolders(seen) ==
  [q \in Qids |->
     LET holders == {w \in seen : file[w].qid = q}
     IN  IF holders = {} THEN NoWork ELSE CHOOSE w \in holders : \A v \in holders : w <= v]

(* Mutant: of two that list each other, neither is a variant. *)
OneWayHoldings(seen) ==
  {w \in Works : \E o \in seen \ {w} : <<o, w>> \in shape.lists /\ <<w, o>> \notin shape.lists}

(* VariantLinks: whom another sidecar lists, among the ones that it could  *)
(* read, be it "holding" or, if that one is listed in turn, "ambiguous".   *)
Holdings(seen) == {w \in Works : \E o \in seen \ {w} : <<o, w>> \in shape.lists}

(* sidecar.validate: a derived work has no Q-ID of its own. *)
Valid(w, record) ==
  w \notin shape.invalid /\ (w \in shape.derived => record.qid = NoQid)

(* "not available", by a decision and not by a search *)
Adjudicated(record) == record.mark.status = "not_available" /\ record.mark.plan = 0

(* _eligible of resolve_work_qids *)
Eligible(w, record) ==
  /\ w \notin shape.derived
  /\ record.qid = NoQid
  /\ ~Adjudicated(record)
  /\ record.mark.status \in {"not_available", "unverified"} =>
       record.mark.plan < plan \/ (record.mark.status = "unverified" /\ record.creator)

(* Is the work one that the search asks Wikidata about? *)
InQueue(p, record) ==
  /\ pos[p] \notin barred[p]
  /\ \/ kind[p] \in Searches /\ Eligible(pos[p], record)
     \/ kind[p] = "creator" /\ record.qid = NoQid /\ record.creator

-----------------------------------------------------------------------------
(* A pass *)

(* The search passes begin with two scans of all sidecars, for claims and  *)
(* for links, each of which skips one that is torn, and one that it fails  *)
(* to open.                                                                *)
Scan(p, k, seen, linked) ==
  /\ claims' = [claims EXCEPT ![p] =
       IF k \in Searches \cup {"creator"} THEN FirstHolders(seen) ELSE NoClaims]
  /\ barred' = [barred EXCEPT ![p] =
       IF k \in Searches \cup {"creator"} THEN Holdings(linked) ELSE {}]
  /\ k \notin Searches \cup {"creator"} => seen = Good /\ linked = Good
  /\ Cardinality(Good \ seen) + Cardinality(Good \ linked) <= MaxMissed
  /\ careless' = (careless \/ (\E o \in Passes : pc[o] # "idle") \/ seen # Good \/ linked # Good)

(* A repair loads them all first, and raises at one that cannot be read.   *)
Begin(p, k) ==
  /\ runs < IF careless THEN MaxCareless ELSE MaxRuns
  /\ pc[p] = "idle"
  /\ k = "repair" => Good = Works
  /\ pc' = [pc EXCEPT ![p] = "turn"]
  /\ kind' = [kind EXCEPT ![p] = k]
  /\ \E seen, linked \in SUBSET Good : Scan(p, k, seen, linked)
  /\ loaded' = [loaded EXCEPT ![p] = IF k = "repair" THEN file ELSE Unread]
  /\ alone' = [o \in Passes |-> IF pc[o] # "idle" \/ o = p
                                THEN \A r \in Passes : pc[r] = "idle" ELSE alone[o]]
  /\ runs' = runs + 1
  /\ UNCHANGED <<archive, pos, copy>>

(* The pass has come to its end, raised, been killed or met its limit. *)
End(p) ==
  /\ pc' = [pc EXCEPT ![p] = "idle"]
  /\ kind' = [kind EXCEPT ![p] = "resolve"]
  /\ pos' = [pos EXCEPT ![p] = 1]
  /\ claims' = [claims EXCEPT ![p] = NoClaims]
  /\ barred' = [barred EXCEPT ![p] = {}]
  /\ loaded' = [loaded EXCEPT ![p] = Unread]
  /\ copy' = [copy EXCEPT ![p] = NoRecord]
  /\ alone' = [alone EXCEPT ![p] = TRUE]

(* On to the next work, if there is one. *)
Advance(p, held) ==
  IF pos[p] = N THEN End(p)
  ELSE /\ pc' = [pc EXCEPT ![p] = "turn"]
       /\ pos' = [pos EXCEPT ![p] = @ + 1]
       /\ claims' = [claims EXCEPT ![p] = held]
       /\ copy' = [copy EXCEPT ![p] = NoRecord]
       /\ UNCHANGED <<kind, barred, loaded, alone>>

Propose(p, record, held) ==
  /\ pc' = [pc EXCEPT ![p] = "write"]
  /\ copy' = [copy EXCEPT ![p] = record]
  /\ claims' = [claims EXCEPT ![p] = held]
  /\ UNCHANGED <<pos, kind, barred, loaded, alone>>

(* What the pass has read of the work it has come to. *)
Meta(p) == IF kind[p] = "repair" THEN loaded[p][pos[p]] ELSE file[pos[p]]

AtWork(p, kinds) == pc[p] = "turn" /\ kind[p] \in kinds /\ Meta(p) # Torn

(* sidecar.load raises. *)
Unreadable(p) ==
  /\ pc[p] = "turn" /\ Meta(p) = Torn
  /\ End(p)
  /\ UNCHANGED <<archive, runs, careless>>

(* Not for this pass, or the search found nothing.  Only with --retire is  *)
(* a search without result recorded.                                       *)
Skip(p) ==
  /\ AtWork(p, Guarded \cup Unguarded)
  /\ kind[p] = "retire" => ~InQueue(p, Meta(p))
  /\ Advance(p, claims[p])
  /\ UNCHANGED <<archive, runs, careless>>

Found(record, q) == [record EXCEPT !.qid = q, !.mark = Mark("available", 0, NotRefused)]

(* Mutant: every pass claims what it has found before it is validated. *)
FindClaimsFirst(p, q) ==
  LET record == Found(Meta(p), q)
      held == [claims[p] EXCEPT ![q] = pos[p]]
  IN  /\ AtWork(p, Searches \cup {"creator"}) /\ InQueue(p, Meta(p))
      /\ claims[p][q] \in {NoWork, pos[p]}
      /\ IF Valid(pos[p], record) THEN Propose(p, record, held) ELSE Advance(p, held)
      /\ UNCHANGED <<archive, runs, careless>>

(* A Q-ID that nobody else holds.  A sidecar that does not validate is     *)
(* passed over; resolve_work_qids has then claimed the Q-ID for it already, *)
(* the pass by creator has not.                                            *)
Find(p, q) ==
  LET record == Found(Meta(p), q)
      held == [claims[p] EXCEPT ![q] = pos[p]]
  IN  /\ AtWork(p, Searches \cup {"creator"}) /\ InQueue(p, Meta(p))
      /\ claims[p][q] \in {NoWork, pos[p]}
      /\ IF Valid(pos[p], record) THEN Propose(p, record, held)
         ELSE Advance(p, IF kind[p] = "creator" THEN claims[p] ELSE held)
      /\ UNCHANGED <<archive, runs, careless>>

(* collision_note: refused, and the holder named.  Here a sidecar that does *)
(* not validate ends the pass of resolve_work_qids.                        *)
Refuse(p, q) ==
  LET version == IF kind[p] = "creator" THEN 0 ELSE plan
      record == [Meta(p) EXCEPT !.mark = Mark("unverified", version, <<q, claims[p][q]>>)]
  IN  /\ AtWork(p, Searches \cup {"creator"}) /\ InQueue(p, Meta(p))
      /\ claims[p][q] \notin {NoWork, pos[p]}
      /\ CASE Valid(pos[p], record) -> Propose(p, record, claims[p])
           [] kind[p] = "creator" -> Advance(p, claims[p])
           [] OTHER -> End(p)
      /\ UNCHANGED <<archive, runs, careless>>

(* --retire: not available, or unverified while its artist is unknown. *)
GiveUp(p) ==
  LET status == IF Meta(p).creator THEN "not_available" ELSE "unverified"
      record == [Meta(p) EXCEPT !.mark = Mark(status, plan, NotRefused)]
  IN  /\ AtWork(p, {"retire"}) /\ InQueue(p, Meta(p))
      /\ IF Valid(pos[p], record) THEN Propose(p, record, claims[p]) ELSE Advance(p, claims[p])
      /\ UNCHANGED <<archive, runs, careless>>

(* The Q-ID is of a place or a person: cleared; if it is the artist's own, *)
(* the artist gets it.                                                     *)
Clear(p, unswap) ==
  LET record == [qid |-> NoQid, creator |-> Meta(p).creator \/ unswap,
                 mark |-> Mark("not_available", 0, NotRefused)]
  IN  /\ AtWork(p, {"repair"}) /\ Meta(p).qid # NoQid
      /\ IF Valid(pos[p], record) THEN Propose(p, record, claims[p]) ELSE End(p)
      /\ UNCHANGED <<archive, runs, careless>>

(* complete_holders: a work without a Q-ID gets the one its holder was     *)
(* found under.  What does not validate is passed over.                    *)
CompleteHolder(p, q) ==
  LET record == [Meta(p) EXCEPT !.qid = q]
  IN  /\ AtWork(p, {"holders"}) /\ Meta(p).qid \in {NoQid, q}
      /\ IF Valid(pos[p], Meta(p)) /\ Valid(pos[p], record)
         THEN Propose(p, record, claims[p]) ELSE Advance(p, claims[p])
      /\ careless' = (careless \/ record # Meta(p))
      /\ UNCHANGED <<archive, runs>>

(* backfill_holders_by_creator: whatever Q-ID there was is replaced. *)
LocateHolder(p, q) ==
  LET record == [Meta(p) EXCEPT !.qid = q]
  IN  /\ AtWork(p, {"location"}) /\ Meta(p).creator
      /\ IF Valid(pos[p], record) THEN Propose(p, record, claims[p]) ELSE End(p)
      /\ careless' = (careless \/ record # Meta(p))
      /\ UNCHANGED <<archive, runs>>

(* fix_title_artist_swap: the artist, and the Q-ID too when it was found. *)
UnswapTitle(p, q) ==
  LET known == [Meta(p) EXCEPT !.creator = TRUE]
      record == IF q = NoQid THEN known ELSE Found(known, q)
  IN  /\ AtWork(p, {"swap"}) /\ ~Meta(p).creator
      /\ IF Valid(pos[p], record) THEN Propose(p, record, claims[p]) ELSE End(p)
      /\ careless' = (careless \/ q # NoQid)
      /\ UNCHANGED <<archive, runs>>

(* sidecar.write truncates, then dumps. *)
Truncate(p) ==
  /\ pc[p] = "write"
  /\ pc' = [pc EXCEPT ![p] = "dump"]
  /\ file' = [file EXCEPT ![pos[p]] = Torn]
  /\ UNCHANGED <<shape, plan, pos, copy, local, runs, careless>>

Dump(p) ==
  /\ pc[p] = "dump"
  /\ file' = [file EXCEPT ![pos[p]] = copy[p]]
  /\ Advance(p, claims[p])
  /\ UNCHANGED <<shape, plan, runs, careless>>

(* Killed, or stopped by --limit. *)
Kill(p) ==
  /\ pc[p] # "idle"
  /\ End(p)
  /\ UNCHANGED <<archive, runs, careless>>

(* A release with a new search strategy, between passes. *)
Improve ==
  /\ plan < MaxPlan
  /\ \A p \in Passes : pc[p] = "idle"
  /\ plan' = plan + 1
  /\ UNCHANGED <<shape, file, pc, pos, copy, local, runs, careless>>

Next ==
  \/ Improve
  \/ \E p \in Passes :
       \/ \E k \in Guarded \cup Unguarded : Begin(p, k)
       \/ \E q \in Qids : Find(p, q) \/ Refuse(p, q) \/ CompleteHolder(p, q) \/ LocateHolder(p, q)
       \/ \E q \in Qids \cup {NoQid} : UnswapTitle(p, q)
       \/ \E unswap \in BOOLEAN : Clear(p, unswap)
       \/ Unreadable(p) \/ Skip(p) \/ GiveUp(p) \/ Truncate(p) \/ Dump(p) \/ Kill(p)

Spec == Init /\ [][Next]_vars

-----------------------------------------------------------------------------
(* Properties *)

(* The shape of every variable. *)
TypeOK ==
  /\ shape \in Shapes /\ plan \in 1..MaxPlan
  /\ file \in [Works -> Record \cup {Torn}]
  /\ copy \in [Passes -> Record]
  /\ pc \in [Passes -> {"idle", "turn", "write", "dump"}]
  /\ kind \in [Passes -> Guarded \cup Unguarded] /\ pos \in [Passes -> Works]
  /\ claims \in [Passes -> [Qids -> Works \cup {NoWork}]]
  /\ barred \in [Passes -> SUBSET Works]
  /\ loaded \in [Passes -> [Works -> Record \cup {Torn}]]
  /\ alone \in [Passes -> BOOLEAN] /\ careless \in BOOLEAN /\ runs \in Nat

(* A Q-ID denotes one work: as long as no unguarded pass has assigned one, *)
(* no two passes have overlapped, and no scan has failed to open a good    *)
(* sidecar, no two sidecars that can be read hold the same, whatever was   *)
(* found, refused, cleared, killed and torn.                               *)
OneWorkPerQid ==
  ~careless =>
    \A v, w \in Works : v # w /\ Readable(v) /\ Readable(w) /\ file[v].qid # NoQid =>
      file[v].qid # file[w].qid

(* What has no identity of its own never gets one: a derived work from no  *)
(* pass at all, a listed variant from no guarded pass, as long as the same *)
(* holds and no sidecar is torn that might be the one to list it.          *)
HoldingsStayBare ==
  \A w \in Works : Readable(w) =>
    /\ w \in shape.derived => file[w].qid = NoQid
    /\ Listed(w) /\ ~careless /\ (\A o \in Works : Readable(o)) => file[w].qid = NoQid

(* A refusal that a pass is about to record names a work that holds the    *)
(* Q-ID, if the pass is alone and is the one by creator, or no sidecar is  *)
(* invalid: who adjudicates the pair must find both.                       *)
RefusalNamesAHolder ==
  \A p \in Passes :
    /\ pc[p] \in {"write", "dump"} /\ kind[p] \in Searches \cup {"creator"}
    /\ copy[p].mark.refused # NotRefused
    /\ alone[p] /\ (kind[p] = "creator" \/ shape.invalid = {})
    => LET holder == copy[p].mark.refused[2]
       IN  Readable(holder) /\ file[holder].qid = copy[p].mark.refused[1]

(* A decision that a work has no Q-ID is not overturned by a search: no    *)
(* search that is alone is about to write over one.                        *)
DecisionsStand ==
  \A p \in Passes :
    pc[p] = "write" /\ kind[p] \in Searches \cup {"creator"} /\ alone[p] =>
      ~Adjudicated(file[pos[p]])
=============================================================================
