----------------------- MODULE SidecarUnlockedProofs -----------------------
(***************************************************************************)
(* Theorems about SidecarUnlocked: what can be read in a sidecar is sound, *)
(* although scripts write it without its lock, tear it and put old copies  *)
(* back, for any number of handlers, scripts, tags and digests.            *)
(***************************************************************************)
EXTENDS SidecarUnlocked, SidecarStoreProofs

USE DEF HumanStates, TagStates, HistoryOps

(* Whoever decided what sc shows asked for it with one of these requests.  *)
Given(sc, requests) ==
  \A t \in Tags : sc.tags[t] \in HumanStates =>
    \E r \in requests : r.tag = t /\ StateAfter(r.op, "absent") = sc.tags[t]

Fine(sc, requests) == SoundHistory(sc) /\ Flagged(sc) /\ Given(sc, requests)

UTyped ==
  /\ UTypeOK
  /\ master \in Digests
  /\ pc \in [Procs -> Critical \cup {"idle", "lock", "publish", "invalidate"}]
  /\ req \in [Procs -> Requests]
  /\ snap \in [Procs -> Sidecar]
  /\ seen \in [Procs -> Digests]

(* The file and every copy that somebody may write back is fine. *)
FileIsFine == file # Torn => Fine(file, asked)
SnapsAreFine == \A p \in Procs : Fine(snap[p], asked)
CopiesAreFine == \A u \in Scripts : ucopy[u] # Torn => Fine(ucopy[u], asked)

(* What a script has open for writing, it has something to write into. *)
NoTornCopyIsWritten == \A u \in Scripts : upc[u] \in {"open", "dump"} => ucopy[u] # Torn

(* A verdict that is being served has been asked for. *)
ServedIsAsked == \A p \in Procs : pc[p] # "idle" /\ req[p].tag \in Tags => req[p] \in asked

UInv ==
  /\ UTyped
  /\ FileIsFine /\ SnapsAreFine /\ CopiesAreFine
  /\ NoTornCopyIsWritten
  /\ ServedIsAsked

-----------------------------------------------------------------------------
(* What requests and scripts make of a document *)

LEMMA GivenGrows ==
  ASSUME NEW sc, NEW few, NEW more, few \subseteq more, Fine(sc, few)
  PROVE  Fine(sc, more)
  BY DEF Fine, Given

(* A request adds to the verdicts its own at most. *)
LEMMA ApplyGiven ==
  ASSUME NEW sc \in Sidecar, NEW r \in Requests, NEW d \in Digests, NEW requests,
         Given(sc, requests), r.tag \in Tags => r \in requests
  PROVE  Given(Apply(r, sc, d), requests)
  <1>1. CASE r.op \in {"review", "undo", "freetext", "verify", "record"}
    <2>1. Reviewed(sc).tags = sc.tags /\ Logged(sc, "fixity_verified").tags = sc.tags
      BY LoggedType DEF Reviewed
    <2>2. Unreviewed(sc).tags = sc.tags /\ Noted(sc).tags = sc.tags
      BY DEF Unreviewed, Noted, Sidecar
    <2>3. FixityChecked(sc, r, d).tags = sc.tags
      BY <2>1 DEF FixityChecked, Logged, Sidecar
    <2>4. Apply(r, sc, d).tags = sc.tags
      BY <1>1, <2>1, <2>2, <2>3 DEF Apply
    <2> QED
      BY <2>4 DEF Given
  <1>2. CASE r.op \in {"confirm", "reject", "add", "reset"}
    <2>1. r.tag \in Tags /\ r \in requests
      BY <1>2 DEF Requests, ReviewRequests, SubjectRequests, FixityRequests
    <2>2. Apply(r, sc, d).tags = [sc.tags EXCEPT ![r.tag] = StateAfter(r.op, @)]
      BY <1>2 DEF Apply, Curated, Sidecar
    <2>3. sc.tags \in [Tags -> TagStates]
      BY DEF Sidecar
    <2>4. StateAfter(r.op, sc.tags[r.tag]) \in HumanStates =>
            StateAfter(r.op, sc.tags[r.tag]) = StateAfter(r.op, "absent")
      BY <1>2 DEF StateAfter
    <2> QED
      BY <2>1, <2>2, <2>3, <2>4 DEF Given
  <1> QED
    BY <1>1, <1>2 DEF Requests, ReviewRequests, SubjectRequests, FixityRequests

(* The tagger proposes where no human has decided, and flags its proposals. *)
LEMMA MergedFine ==
  ASSUME NEW sc \in Sidecar, NEW passed \in SUBSET Tags, NEW genre \in BOOLEAN,
         NEW requests, Fine(sc, requests)
  PROVE  Merged(sc, passed, genre) \in Sidecar /\ Fine(Merged(sc, passed, genre), requests)
  <1> DEFINE changed == {t \in passed : sc.tags[t] \notin HumanStates}
             tags == [t \in Tags |-> IF t \in changed THEN "proposed" ELSE sc.tags[t]]
             flag == genre \/ changed # {} \/ sc.needsReview
  <1>1. sc.tags \in [Tags -> TagStates] /\ sc.needsReview \in BOOLEAN
    BY DEF Sidecar
  <1>2. tags \in [Tags -> TagStates] /\ flag \in BOOLEAN
    BY <1>1
  <1>3. \A t \in Tags : tags[t] = "proposed" => flag \/ sc.tags[t] = "proposed"
    OBVIOUS
  <1>4. \A t \in Tags : tags[t] \in HumanStates => tags[t] = sc.tags[t]
    OBVIOUS
  <1>5. (\E t \in Tags : sc.tags[t] = "proposed") => sc.needsReview
    BY DEF Fine, Flagged, AnyProposed
  <1>6. AnyProposed(tags) => flag
    BY <1>3, <1>5 DEF AnyProposed
  <1>7. Merged(sc, passed, genre) = [sc EXCEPT !.tags = tags, !.needsReview = flag]
    BY DEF Merged
  <1> HIDE DEF tags, flag, changed
  <1>8. /\ Merged(sc, passed, genre) \in Sidecar
        /\ Merged(sc, passed, genre).tags = tags
        /\ Merged(sc, passed, genre).needsReview = flag
        /\ Merged(sc, passed, genre).history = sc.history
    BY <1>2, <1>7 DEF Sidecar
  <1> QED
    BY <1>4, <1>6, <1>8 DEF Fine, SoundHistory, Flagged, Given

(* The promoter logs an event of its own and records another digest. *)
LEMMA UpgradedFine ==
  ASSUME NEW sc \in Sidecar, NEW d \in Digests, NEW requests, Fine(sc, requests)
  PROVE  /\ [Logged(sc, "variant-upgrade") EXCEPT !.sha = d] \in Sidecar
         /\ Fine([Logged(sc, "variant-upgrade") EXCEPT !.sha = d], requests)
  <1> DEFINE logged == Logged(sc, "variant-upgrade")
  <1>1. /\ logged \in Sidecar /\ logged.tags = sc.tags /\ logged.needsReview = sc.needsReview
        /\ logged.history["owner-review"] = sc.history["owner-review"]
        /\ logged.history["acquired"] = sc.history["acquired"]
    BY LoggedType
  <1> HIDE DEF logged
  <1>2. /\ [logged EXCEPT !.sha = d] \in Sidecar
        /\ [logged EXCEPT !.sha = d].tags = logged.tags
        /\ [logged EXCEPT !.sha = d].needsReview = logged.needsReview
        /\ [logged EXCEPT !.sha = d].history = logged.history
    BY <1>1 DEF Sidecar
  <1> QED
    BY <1>1, <1>2 DEF Fine, SoundHistory, Flagged, Given, logged

-----------------------------------------------------------------------------
(* The inductive invariant *)

LEMMA UInitUInv == UInit => UInv
  <1> SUFFICES ASSUME UInit PROVE UInv
    OBVIOUS
  <1>1. PICK tags \in [Tags -> {"absent", "proposed"}], flag \in BOOLEAN, ok \in BOOLEAN :
          (AnyProposed(tags) => flag) /\ file = NewSidecar(tags, flag, master, ok)
    BY DEF UInit, Init
  <1>2. IInv
    BY InitIInv DEF UInit
  <1>3. file.tags = tags
    BY <1>1 DEF NewSidecar
  <1>4. Fine(file, asked)
    BY <1>1, <1>2, <1>3 DEF IInv, Fine, Given
  <1>5. UTyped
    BY <1>2 DEF UInit, IInv, TypeOK, UTyped, UTypeOK
  <1>6. ServedIsAsked
    BY DEF UInit, Init, ServedIsAsked
  <1> QED
    BY <1>4, <1>5, <1>6, TornAssumption, <1>2
    DEF UInit, Init, UInv, FileIsFine, SnapsAreFine, CopiesAreFine, NoTornCopyIsWritten

(* A handler that writes, or puts back, replaces the file by what is fine. *)
LEMMA ReplaceUInv ==
  ASSUME UInv, NEW p \in Procs, Replace(p), UNCHANGED <<upc, ucopy, asked>>,
         linked' = [u \in Scripts |-> FALSE]
  PROVE  UInv'
  <1> USE DEF UInv
  <1>1. CASE Write(p)
    <2>1. /\ pc[p] = "write" /\ ~Refused(req[p], snap[p])
          /\ file' = Apply(req[p], snap[p], seen[p])
          /\ UNCHANGED <<master, req, snap, seen>>
      BY <1>1 DEF Write, Goto
    <2>2. req[p] \in Requests /\ snap[p] \in Sidecar /\ seen[p] \in Digests
      BY DEF UTyped
    <2>3. file' \in Sidecar
      BY <2>1, <2>2, ApplyType
    <2>4. SoundHistory(file') /\ Flagged(file')
      BY <2>1, <2>2, ApplySound DEF SnapsAreFine, Fine
    <2>5. Given(file', asked')
      BY <2>1, <2>2, ApplyGiven DEF SnapsAreFine, Fine, ServedIsAsked
    <2>6. UTyped' /\ ServedIsAsked'
      BY <1>1, <2>1, <2>3 DEF Write, Goto, UTyped, UTypeOK, ServedIsAsked, Critical
    <2> QED
      BY <2>1, <2>4, <2>5, <2>6
      DEF Fine, FileIsFine, SnapsAreFine, CopiesAreFine, NoTornCopyIsWritten
  <1>2. CASE Rollback(p)
    <2>1. file' = snap[p] /\ UNCHANGED <<master, req, snap, seen>>
      BY <1>2 DEF Rollback
    <2>2. UTyped' /\ ServedIsAsked'
      BY <1>2, <2>1 DEF Rollback, Goto, UTyped, UTypeOK, ServedIsAsked, Critical
    <2> QED
      BY <2>1, <2>2 DEF Fine, FileIsFine, SnapsAreFine, CopiesAreFine, NoTornCopyIsWritten
  <1> QED
    BY <1>1, <1>2 DEF Replace

LEMMA StartUInv ==
  ASSUME UInv, NEW p \in Procs, NEW r \in RequestsOf(p), Start(p, r),
         asked' = asked \cup (SubjectRequests \cap {r}), UNCHANGED <<upc, ucopy, linked>>
  PROVE  UInv'
  <1> USE DEF UInv
  <1>1. /\ UNCHANGED <<file, master, snap, seen>> /\ asked \subseteq asked'
        /\ r \in Requests
    BY RequestsOfType DEF Start
  <1>2. UTyped'
    BY <1>1 DEF Start, Goto, UTyped, UTypeOK
  <1>3. FileIsFine' /\ SnapsAreFine' /\ CopiesAreFine'
    BY <1>1, GivenGrows DEF FileIsFine, SnapsAreFine, CopiesAreFine
  <1>4. r.tag \in Tags => r \in asked'
    BY <1>1, TagAssumption DEF Requests, ReviewRequests, FixityRequests
  <1>5. ServedIsAsked'
    BY <1>1, <1>4 DEF ServedIsAsked, Start, Goto, UTyped
  <1> QED
    BY <1>2, <1>3, <1>5 DEF NoTornCopyIsWritten

(* What leaves file, requests and scripts alone; Read takes what is fine. *)
LEMMA HandlerUInv ==
  ASSUME UInv, NEW p \in Procs, Step(p) \/ Invalidate(p) \/ CheckerCrash(p) \/ ReadTorn(p),
         UNCHANGED <<upc, ucopy, linked, asked>>
  PROVE  UInv'
  <1> USE DEF UInv
  <1>1. CASE Read(p)
    <2>1. file # Torn /\ snap' = [snap EXCEPT ![p] = file] /\ UNCHANGED <<file, master, req, seen>>
      BY <1>1 DEF Read
    <2>2. file \in Sidecar
      BY <2>1 DEF UTyped, UTypeOK
    <2>3. UTyped' /\ ServedIsAsked'
      BY <1>1, <2>1, <2>2 DEF Read, Goto, UTyped, UTypeOK, ServedIsAsked, Critical
    <2>4. SnapsAreFine'
      BY <2>1 DEF SnapsAreFine, FileIsFine, UTyped
    <2> QED
      BY <2>1, <2>3, <2>4 DEF FileIsFine, CopiesAreFine, NoTornCopyIsWritten
  <1>2. CASE Hash(p)
    <2>1. UTyped' /\ ServedIsAsked'
      BY <1>2 DEF Hash, Goto, UTyped, UTypeOK, ServedIsAsked, Critical
    <2> QED
      BY <1>2, <2>1 DEF Hash, FileIsFine, SnapsAreFine, CopiesAreFine, NoTornCopyIsWritten
  <1>3. ASSUME UNCHANGED <<file, master, req, snap, seen>>, NEW to \in DOMAIN [q \in Critical \cup
                 {"idle", "lock", "publish", "invalidate"} |-> q],
               pc' = [pc EXCEPT ![p] = to], pc[p] # "idle"
        PROVE  UInv'
    <2>1. UTyped' /\ ServedIsAsked'
      BY <1>3 DEF UTyped, UTypeOK, ServedIsAsked
    <2> QED
      BY <1>3, <2>1 DEF FileIsFine, SnapsAreFine, CopiesAreFine, NoTornCopyIsWritten
  <1>4. CASE Lock(p) \/ Refuse(p) \/ WriteFails(p) \/ AppendSubject(p) \/ AppendSubjectFails(p)
    BY <1>3, <1>4 DEF Lock, Refuse, WriteFails, AppendSubject, AppendSubjectFails, Goto, Critical
  <1>5. CASE RollbackFails(p) \/ Unlock(p) \/ Release(p) \/ Publish(p) \/ PublishFails(p)
    BY <1>3, <1>5 DEF RollbackFails, Unlock, Release, Publish, PublishFails, Goto, Critical
  <1>6. CASE Invalidate(p) \/ CheckerCrash(p) \/ ReadTorn(p)
    BY <1>3, <1>6 DEF Invalidate, CheckerCrash, ReadTorn, Goto, Critical
  <1> QED
    BY <1>1, <1>2, <1>4, <1>5, <1>6 DEF Step

LEMMA ServerCrashUInv ==
  ASSUME UInv, ServerCrash, UNCHANGED <<upc, ucopy, linked, asked>> PROVE UInv'
  <1> USE DEF UInv
  <1>1. UNCHANGED <<file, master, req, snap, seen>>
    BY DEF ServerCrash
  <1>2. UTyped' /\ ServedIsAsked'
    BY <1>1 DEF ServerCrash, UTyped, UTypeOK, ServedIsAsked
  <1> QED
    BY <1>1, <1>2 DEF FileIsFine, SnapsAreFine, CopiesAreFine, NoTornCopyIsWritten

(* What a script does without touching the file. *)
LEMMA PreparesUInv ==
  ASSUME UInv, NEW u \in Scripts,
         \/ StartTagger(u)
         \/ \E d \in Digests : SwapMaster(u, d)
         \/ \E passed \in SUBSET Tags, genre \in BOOLEAN : TaggerReads(u, passed, genre)
         \/ TaggerReadsTorn(u) \/ PromoterReads(u) \/ PromoterEdits(u) \/ PromoterRejects(u)
         \/ Killed(u)
  PROVE  UInv'
  <1> USE DEF UInv, UGoto
  <1>1. CASE StartTagger(u) \/ \E d \in Digests : SwapMaster(u, d)
    <2>1. /\ UNCHANGED <<file, pc, req, snap, seen, ucopy, linked, asked>> /\ master' \in Digests
          /\ upc' = [upc EXCEPT ![u] = "read"]
      BY <1>1 DEF StartTagger, SwapMaster, UTyped
    <2>2. UTyped'
      BY <2>1 DEF UTyped, UTypeOK
    <2> QED
      BY <2>1, <2>2 DEF UTyped, UTypeOK, FileIsFine, SnapsAreFine, CopiesAreFine,
                        NoTornCopyIsWritten, ServedIsAsked
  <1>2. ASSUME NEW sc \in Sidecar \cup {Torn}, NEW to \in {"open", "edit"},
               sc # Torn => Fine(sc, asked), to = "open" => sc # Torn,
               ucopy' = [ucopy EXCEPT ![u] = sc], upc' = [upc EXCEPT ![u] = to],
               UNCHANGED <<vars, linked, asked>>
        PROVE  UInv'
    <2>1. UTyped'
      BY <1>2 DEF vars, UTyped, UTypeOK
    <2>2. CopiesAreFine' /\ NoTornCopyIsWritten'
      BY <1>2 DEF UTyped, UTypeOK, CopiesAreFine, NoTornCopyIsWritten
    <2> QED
      BY <1>2, <2>1, <2>2 DEF vars, FileIsFine, SnapsAreFine, ServedIsAsked
  <1>3. ASSUME NEW passed \in SUBSET Tags, NEW genre \in BOOLEAN, TaggerReads(u, passed, genre)
        PROVE  UInv'
    <2>1. file \in Sidecar /\ file # Torn /\ Fine(file, asked)
      BY <1>3 DEF TaggerReads, UTyped, UTypeOK, FileIsFine
    <2>2. /\ Merged(file, passed, genre) \in Sidecar
          /\ Fine(Merged(file, passed, genre), asked)
      BY <2>1, MergedFine
    <2> QED
      BY <1>2, <1>3, <2>2, TornAssumption DEF TaggerReads
  <1>4. CASE PromoterReads(u)
    BY <1>2, <1>4 DEF PromoterReads, UTyped, UTypeOK, FileIsFine
  <1>5. CASE PromoterEdits(u)
    <2>1. ucopy[u] \in Sidecar /\ Fine(ucopy[u], asked) /\ master \in Digests
      BY <1>5 DEF PromoterEdits, UTyped, UTypeOK, CopiesAreFine
    <2> DEFINE edited == [Logged(ucopy[u], "variant-upgrade") EXCEPT !.sha = master]
    <2>2. edited \in Sidecar /\ Fine(edited, asked)
      BY <2>1, UpgradedFine
    <2>3. ucopy' = [ucopy EXCEPT ![u] = edited]
      BY <1>5 DEF PromoterEdits
    <2> HIDE DEF edited
    <2> QED
      BY <1>2, <1>5, <2>2, <2>3, TornAssumption DEF PromoterEdits
  <1>6. CASE TaggerReadsTorn(u) \/ PromoterRejects(u) \/ Killed(u)
    <2>1. /\ UNCHANGED <<vars, ucopy, linked, asked>> /\ upc' = [upc EXCEPT ![u] = "idle"]
      BY <1>6 DEF TaggerReadsTorn, PromoterRejects, Killed
    <2>2. UTyped' /\ NoTornCopyIsWritten'
      BY <2>1 DEF vars, UTyped, UTypeOK, NoTornCopyIsWritten
    <2> QED
      BY <2>1, <2>2 DEF vars, FileIsFine, SnapsAreFine, CopiesAreFine, ServedIsAsked
  <1> QED
    BY <1>1, <1>3, <1>4, <1>5, <1>6

(* A script tears the file and writes its copy, or leaves it torn. *)
LEMMA WritesUInv ==
  ASSUME UInv, NEW u \in Scripts, Truncate(u) \/ Dump(u) PROVE UInv'
  <1> USE DEF UInv, UGoto
  <1>1. UNCHANGED <<master, pc, req, snap, seen, ucopy, asked>>
    BY DEF Truncate, Dump
  <1>2. upc[u] \in {"open", "dump"} /\ ucopy[u] # Torn /\ file' \in {file, Torn, ucopy[u]}
    BY DEF Truncate, Dump, NoTornCopyIsWritten
  <1>3. UTyped'
    BY <1>1, <1>2 DEF Truncate, Dump, UTyped, UTypeOK
  <1>4. FileIsFine'
    BY <1>1, <1>2 DEF FileIsFine, CopiesAreFine
  <1>5. NoTornCopyIsWritten'
    BY <1>1, <1>2 DEF NoTornCopyIsWritten, Truncate, Dump, UTyped, UTypeOK
  <1> QED
    BY <1>1, <1>3, <1>4, <1>5 DEF SnapsAreFine, CopiesAreFine, ServedIsAsked

LEMMA StepUInv == UInv /\ [UNext]_allVars => UInv'
  <1> SUFFICES ASSUME UInv, [UNext]_allVars PROVE UInv'
    OBVIOUS
  <1>1. CASE UNCHANGED allVars
    BY <1>1 DEF allVars, vars, uvars, UInv, UTyped, UTypeOK, FileIsFine, SnapsAreFine,
                CopiesAreFine, NoTornCopyIsWritten, ServedIsAsked
  <1>2. CASE LockedStep /\ UNCHANGED <<upc, ucopy, spoiled>>
    BY <1>2, ReplaceUInv, StartUInv, HandlerUInv, ServerCrashUInv DEF LockedStep
  <1>3. ASSUME NEW u \in Scripts,
               StartTagger(u) \/ (\E d \in Digests : SwapMaster(u, d)) \/ ScriptStep(u) \/ Killed(u)
        PROVE  UInv'
    BY <1>3, PreparesUInv, WritesUInv DEF ScriptStep
  <1> QED
    BY <1>1, <1>2, <1>3 DEF UNext

(* The inductive invariant, in every state. *)
THEOREM UInvariant == USpec => []UInv
  BY UInitUInv, StepUInv, PTL DEF USpec

(* The tagger, apply_swap and the locked writers: whatever they overwrite, *)
(* and wherever they are killed, what can be read keeps its acquisition    *)
(* event, has at most one review and flags its proposals.                  *)
THEOREM RecordSound == USpec => []RecordStaysSound
  <1>1. UInv => RecordStaysSound
    BY DEF UInv, FileIsFine, Fine, RecordStaysSound
  <1> QED
    BY <1>1, UInvariant, PTL

(* merge_into_sidecar and apply_swap: no verdict is made up by a script or *)
(* a race; somebody asked subject_action for it.                           *)
THEOREM VerdictsGiven == USpec => []VerdictsWereGiven
  <1>1. UInv => VerdictsWereGiven
    BY DEF UInv, FileIsFine, Fine, Given, VerdictsWereGiven
  <1> QED
    BY <1>1, UInvariant, PTL
=============================================================================
