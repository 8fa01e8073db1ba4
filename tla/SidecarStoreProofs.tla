------------------------- MODULE SidecarStoreProofs -------------------------
(***************************************************************************)
(* Theorems about SidecarStore, for any number of writers, tags, digests   *)
(* and requests and for any combination of faults.                         *)
(***************************************************************************)
EXTENDS SidecarStore, TLAPS

USE DEF HumanStates, TagStates, HistoryOps

-----------------------------------------------------------------------------
(* What a request makes of a document. *)

(* Logging an event counts it and changes nothing else. *)
LEMMA LoggedType ==
  ASSUME NEW sc \in Sidecar, NEW op \in HistoryOps
  PROVE  /\ Logged(sc, op) \in Sidecar
         /\ Logged(sc, op).history[op] = sc.history[op] + 1
         /\ \A o \in HistoryOps \ {op} : Logged(sc, op).history[o] = sc.history[o]
         /\ Logged(sc, op).tags = sc.tags
         /\ Logged(sc, op).needsReview = sc.needsReview
  BY DEF Logged, Sidecar

(* A verdict on a tag leaves the history alone and recomputes the flag. *)
LEMMA CuratedType ==
  ASSUME NEW sc \in Sidecar, NEW r \in [op : {"confirm", "reject", "add", "reset"}, tag : Tags]
  PROVE  /\ Curated(sc, r) \in Sidecar
         /\ Curated(sc, r).history = sc.history
         /\ Curated(sc, r).needsReview = AnyProposed(Curated(sc, r).tags)
  <1> DEFINE tags == [sc.tags EXCEPT ![r.tag] = StateAfter(r.op, @)]
  <1>1. \A s \in TagStates : StateAfter(r.op, s) \in TagStates
    BY DEF StateAfter
  <1>2. sc.tags \in [Tags -> TagStates] /\ r.tag \in Tags
    BY DEF Sidecar
  <1>3. tags \in [Tags -> TagStates]
    BY <1>1, <1>2
  <1>4. AnyProposed(tags) \in BOOLEAN
    BY DEF AnyProposed
  <1> HIDE DEF tags
  <1>5. Curated(sc, r) = [sc EXCEPT !.tags = tags, !.needsReview = AnyProposed(tags)]
    BY DEF Curated, tags
  <1> QED
    BY <1>3, <1>4, <1>5 DEF Sidecar

(* Every request turns a sidecar into a sidecar. *)
LEMMA ApplyType ==
  ASSUME NEW sc \in Sidecar, NEW r \in Requests, NEW d \in Digests
  PROVE  Apply(r, sc, d) \in Sidecar
  <1>1. CASE r.op = "review"
    BY <1>1, LoggedType DEF Apply, Reviewed
  <1>2. CASE r.op = "undo"
    BY <1>2 DEF Apply, Unreviewed, Sidecar
  <1>3. CASE r.op = "freetext"
    BY <1>3 DEF Apply, Noted, Sidecar
  <1>4. CASE r.op \in {"verify", "record"}
    <2>1. Logged(sc, "fixity_verified") \in Sidecar
      BY LoggedType
    <2>2. FixityChecked(sc, r, d) \in Sidecar
      BY <2>1 DEF FixityChecked, Sidecar
    <2> QED BY <1>4, <2>2 DEF Apply
  <1>5. CASE r.op \in {"confirm", "reject", "add", "reset"}
    <2>1. r \in [op : {"confirm", "reject", "add", "reset"}, tag : Tags]
      BY <1>5 DEF Requests, ReviewRequests, SubjectRequests, FixityRequests
    <2> QED BY <1>5, <2>1, CuratedType DEF Apply
  <1> QED
    BY <1>1, <1>2, <1>3, <1>4, <1>5
    DEF Requests, ReviewRequests, SubjectRequests, FixityRequests

(* Reviews are recorded once, the acquisition is never dropped, and the    *)
(* flag follows the tags, whichever request is applied.                    *)
LEMMA ApplySound ==
  ASSUME NEW sc \in Sidecar, NEW r \in Requests, NEW d \in Digests,
         ~Refused(r, sc), SoundHistory(sc), Flagged(sc)
  PROVE  SoundHistory(Apply(r, sc, d)) /\ Flagged(Apply(r, sc, d))
  <1> USE DEF SoundHistory, Flagged
  <1>1. CASE r.op = "review"
    <2>1. sc.history["owner-review"] = 0
      BY <1>1 DEF Refused, IsReviewed, Sidecar
    <2>2. Apply(r, sc, d) = Logged(sc, "owner-review")
      BY <1>1 DEF Apply, Reviewed
    <2>3. Logged(sc, "owner-review").history["owner-review"] = 1
      BY <2>1, LoggedType
    <2>4. Logged(sc, "owner-review").history["acquired"] = sc.history["acquired"]
      BY LoggedType
    <2>5. Flagged(Logged(sc, "owner-review"))
      BY LoggedType
    <2> QED BY <2>2, <2>3, <2>4, <2>5
  <1>2. CASE r.op = "undo"
    BY <1>2 DEF Apply, Unreviewed, Sidecar
  <1>3. CASE r.op = "freetext"
    BY <1>3 DEF Apply, Noted, Sidecar
  <1>4. CASE r.op \in {"verify", "record"}
    <2>1. /\ FixityChecked(sc, r, d).history = Logged(sc, "fixity_verified").history
          /\ FixityChecked(sc, r, d).tags = sc.tags
          /\ FixityChecked(sc, r, d).needsReview = sc.needsReview
      BY LoggedType DEF FixityChecked, Sidecar
    <2> QED BY <1>4, <2>1, LoggedType DEF Apply
  <1>5. CASE r.op \in {"confirm", "reject", "add", "reset"}
    <2>1. r \in [op : {"confirm", "reject", "add", "reset"}, tag : Tags]
      BY <1>5 DEF Requests, ReviewRequests, SubjectRequests, FixityRequests
    <2> QED BY <1>5, <2>1, CuratedType DEF Apply
  <1> QED
    BY <1>1, <1>2, <1>3, <1>4, <1>5
    DEF Requests, ReviewRequests, SubjectRequests, FixityRequests

(* Each kind of process serves requests of its kind. *)
LEMMA RequestsOfType == \A p \in Procs : RequestsOf(p) \subseteq Requests
  BY DEF RequestsOf, Requests

-----------------------------------------------------------------------------
(* The inductive invariant. *)

(* It holds of a sidecar that acquisition has just written. *)
LEMMA InitIInv == Init => IInv
  <1> SUFFICES ASSUME Init PROVE IInv
    OBVIOUS
  <1>1. PICK tags \in [Tags -> {"absent", "proposed"}], flag \in BOOLEAN, ok \in BOOLEAN :
          (AnyProposed(tags) => flag) /\ file = NewSidecar(tags, flag, master, ok)
    BY DEF Init
  <1>3. /\ file.history["owner-review"] = 0
        /\ file.history["acquired"] = 1
        /\ Flagged(file)
    BY <1>1 DEF Flagged, NewSidecar
  <1>4. file \in Sidecar
    BY <1>1 DEF NewSidecar, Sidecar, Init
  <1>5. TypeOK
    BY <1>4 DEF Init, TypeOK, NoRequest, Requests, SubjectRequests
  <1>6. LockHeld /\ RequestsFit /\ CopyIsCurrent
    BY DEF Init, LockHeld, RequestsFit, CopyIsCurrent, Critical
  <1> QED
    BY <1>3, <1>5, <1>6 DEF Init, IInv, SoundHistory, Flagged

(* A write applies the request to the file itself, since the copy is it;   *)
(* nobody else is in the critical section to have an outdated copy.        *)
LEMMA WriteIInv ==
  ASSUME IInv, NEW p \in Procs, Write(p)
  PROVE  IInv'
  <1> DEFINE new == Apply(req[p], snap[p], seen[p])
  <1>1. /\ pc[p] = "write" /\ lock = p /\ snap[p] = file
        /\ req[p] \in RequestsOf(p) /\ req[p] \in Requests
    BY RequestsOfType
    DEF IInv, TypeOK, LockHeld, RequestsFit, CopyIsCurrent, Critical, Write, Goto
  <1>2. new \in Sidecar /\ SoundHistory(new) /\ Flagged(new)
    BY <1>1, ApplyType, ApplySound DEF IInv, TypeOK, Write
  <1> HIDE DEF new
  <1>3. file' = new
    BY DEF Write, new
  <1>4. TypeOK'
    BY <1>2, <1>3 DEF IInv, TypeOK, Write, Goto, Critical
  <1>5. LockHeld'
    BY <1>1 DEF IInv, TypeOK, LockHeld, Critical, Write, Goto
  <1>6. RequestsFit'
    BY <1>1 DEF IInv, TypeOK, RequestsFit, Write, Goto, Procs
  <1>7. \A q \in Procs \ {p} : pc[q] \notin Critical /\ pc'[q] = pc[q]
    BY <1>1 DEF IInv, TypeOK, LockHeld, Write, Goto
  <1>8. CopyIsCurrent'
    <2>1. pc'[p] \notin {"hash", "write"} /\ file' = Apply(req'[p], snap'[p], seen'[p])
      BY <1>3 DEF IInv, TypeOK, Write, Goto, new
    <2> QED
      BY <1>7, <2>1 DEF CopyIsCurrent, Critical
  <1> QED
    BY <1>2, <1>3, <1>4, <1>5, <1>6, <1>8 DEF IInv, Write

(* A rollback puts back the copy the writer read, which was sound. *)
LEMMA RollbackIInv ==
  ASSUME IInv, NEW p \in Procs, Rollback(p)
  PROVE  IInv'
  <1>1. pc[p] = "rollback" /\ lock = p
    BY DEF IInv, LockHeld, Critical, Rollback, Goto
  <1>2. TypeOK'
    BY DEF IInv, TypeOK, Rollback, Goto, Critical
  <1>3. LockHeld'
    BY <1>1 DEF IInv, TypeOK, LockHeld, Critical, Rollback, Goto
  <1>4. RequestsFit'
    BY <1>1 DEF IInv, TypeOK, RequestsFit, Rollback, Goto
  <1>5. \A q \in Procs \ {p} : pc[q] \notin Critical /\ pc'[q] = pc[q]
    BY <1>1 DEF IInv, TypeOK, LockHeld, Rollback, Goto
  <1>6. CopyIsCurrent'
    BY <1>5 DEF IInv, TypeOK, CopyIsCurrent, Critical, Rollback, Goto
  <1> QED
    BY <1>2, <1>3, <1>4, <1>6 DEF IInv, Rollback

(* Reading under the lock makes the copy current. *)
LEMMA ReadIInv ==
  ASSUME IInv, NEW p \in Procs, Read(p)
  PROVE  IInv'
  <1>1. TypeOK'
    BY DEF IInv, TypeOK, Read, Goto, Critical
  <1>2. LockHeld'
    BY DEF IInv, TypeOK, LockHeld, Critical, Read, Goto
  <1>3. RequestsFit'
    BY DEF IInv, TypeOK, RequestsFit, Read, Goto
  <1>4. CopyIsCurrent'
    BY DEF IInv, TypeOK, CopyIsCurrent, Read, Goto
  <1> QED
    BY <1>1, <1>2, <1>3, <1>4 DEF IInv, TypeOK, Read

(* Every step of the store preserves the invariant. *)
LEMMA NextIInv == IInv /\ [Next]_vars => IInv'
  <1> SUFFICES ASSUME IInv, [Next]_vars PROVE IInv'
    OBVIOUS
  <1>1. ASSUME NEW p \in Procs, NEW r \in RequestsOf(p), Start(p, r)
        PROVE  IInv'
    <2>1. r \in Requests
      BY RequestsOfType
    <2>2. TypeOK'
      BY <1>1, <2>1 DEF IInv, TypeOK, Start, Goto
    <2>3. LockHeld' /\ RequestsFit' /\ CopyIsCurrent'
      BY <1>1 DEF IInv, TypeOK, LockHeld, RequestsFit, CopyIsCurrent, Critical, Start, Goto
    <2> QED BY <1>1, <2>2, <2>3 DEF IInv, Start
  <1>2. ASSUME NEW p \in Procs, Lock(p) PROVE IInv'
    <2>1. TypeOK'
      BY <1>2 DEF IInv, TypeOK, Lock, Goto, Critical
    <2>2. LockHeld'
      <3>1. \A q \in Procs : pc[q] \notin Critical
        BY <1>2, ProcAssumption DEF IInv, LockHeld, Lock
      <3> QED BY <1>2, <3>1 DEF IInv, TypeOK, LockHeld, Lock, Goto
    <2>3. RequestsFit' /\ CopyIsCurrent'
      BY <1>2 DEF IInv, TypeOK, RequestsFit, CopyIsCurrent, Lock, Goto
    <2> QED BY <1>2, <2>1, <2>2, <2>3 DEF IInv, Lock
  <1>3. ASSUME NEW p \in Procs, Read(p) PROVE IInv'
    BY <1>3, ReadIInv
  <1>4. ASSUME NEW p \in Procs, Hash(p) PROVE IInv'
    <2>1. TypeOK'
      BY <1>4 DEF IInv, TypeOK, Hash, Goto, Critical
    <2>2. LockHeld' /\ RequestsFit'
      BY <1>4 DEF IInv, TypeOK, LockHeld, RequestsFit, Critical, Hash, Goto
    <2>3. CopyIsCurrent'
      BY <1>4 DEF IInv, TypeOK, CopyIsCurrent, Hash, Goto
    <2> QED BY <1>4, <2>1, <2>2, <2>3 DEF IInv, Hash
  <1>5. ASSUME NEW p \in Procs,
               Refuse(p) \/ WriteFails(p) \/ AppendSubjectFails(p) \/ RollbackFails(p)
        PROVE  IInv'
    <2>1. TypeOK'
      <3>1. req[p].tag \in Tags \cup {NoTag}
        BY DEF IInv, TypeOK, Requests, ReviewRequests, SubjectRequests, FixityRequests
      <3>2. unlogged' \subseteq Tags \cup {NoTag}
        BY <1>5, <3>1
        DEF IInv, TypeOK, Refuse, WriteFails, AppendSubjectFails, RollbackFails
      <3> QED
        BY <1>5, <3>2 DEF IInv, TypeOK, Refuse, WriteFails, AppendSubjectFails,
                          RollbackFails, Goto, Critical
    <2>2. LockHeld' /\ RequestsFit' /\ CopyIsCurrent'
      BY <1>5 DEF IInv, TypeOK, LockHeld, RequestsFit, CopyIsCurrent, Critical, Refuse,
                  WriteFails, AppendSubjectFails, RollbackFails, Goto
    <2> QED
      BY <1>5, <2>1, <2>2
      DEF IInv, Refuse, WriteFails, AppendSubjectFails, RollbackFails
  <1>6. ASSUME NEW p \in Procs, Write(p) PROVE IInv'
    BY <1>6, WriteIInv
  <1>7. ASSUME NEW p \in Procs, Rollback(p) PROVE IInv'
    BY <1>7, RollbackIInv
  <1>8. ASSUME NEW p \in Procs, AppendSubject(p) PROVE IInv'
    <2>1. req[p] \in SubjectRequests
      BY <1>8, ProcAssumption DEF IInv, RequestsFit, RequestsOf, AppendSubject, Goto
    <2>2. TypeOK'
      BY <1>8, <2>1 DEF IInv, TypeOK, AppendSubject, Goto, Critical
    <2>3. LockHeld' /\ RequestsFit' /\ CopyIsCurrent'
      BY <1>8 DEF IInv, TypeOK, LockHeld, RequestsFit, CopyIsCurrent, Critical,
                  AppendSubject, Goto
    <2> QED BY <1>8, <2>2, <2>3 DEF IInv, AppendSubject
  <1>9. ASSUME NEW p \in Procs, Unlock(p) \/ Release(p) PROVE IInv'
    <2>1. pc[p] \in Critical /\ lock = p
      BY <1>9 DEF IInv, LockHeld, Critical, Unlock, Release, Goto
    <2>2. TypeOK'
      BY <1>9 DEF IInv, TypeOK, Unlock, Release, Goto
    <2>3. LockHeld'
      BY <1>9, <2>1 DEF IInv, TypeOK, LockHeld, Critical, Unlock, Release, Goto
    <2>4. RequestsFit' /\ CopyIsCurrent'
      BY <1>9 DEF IInv, TypeOK, RequestsFit, CopyIsCurrent, Unlock, Release, Goto
    <2> QED BY <1>9, <2>2, <2>3, <2>4 DEF IInv, Unlock, Release
  <1>10. ASSUME NEW p \in Procs, Publish(p) \/ PublishFails(p) \/ Invalidate(p)
         PROVE  IInv'
    <2>1. TypeOK'
      <3>1. Action(req[p]) \in {"reviewed", "unreviewed"}
        BY DEF Action
      <3>2. reviewLog' \in Seq({"reviewed", "unreviewed"})
        <4>1. reviewLog \in Seq({"reviewed", "unreviewed"})
          BY DEF IInv, TypeOK
        <4>2. reviewLog' = Append(reviewLog, Action(req[p])) \/ reviewLog' = reviewLog
          BY <1>10 DEF Publish, PublishFails, Invalidate
        <4> QED
          BY <3>1, <4>1, <4>2
      <3>3. pc' \in [Procs -> Critical \cup {"idle", "lock", "publish", "invalidate"}]
        BY <1>10 DEF IInv, TypeOK, Publish, PublishFails, Invalidate, Goto, Critical
      <3> QED
        BY <1>10, <3>2, <3>3 DEF IInv, TypeOK, Publish, PublishFails, Invalidate
    <2>2. LockHeld' /\ RequestsFit' /\ CopyIsCurrent'
      BY <1>10 DEF IInv, TypeOK, LockHeld, RequestsFit, CopyIsCurrent, Critical,
                   Publish, PublishFails, Invalidate, Goto
    <2> QED BY <1>10, <2>1, <2>2 DEF IInv, Publish, PublishFails, Invalidate
  <1>11. CASE ServerCrash
    <2>1. TypeOK'
      <3>1. \A p \in Procs : req[p].tag \in Tags \cup {NoTag}
        BY DEF IInv, TypeOK, Requests, ReviewRequests, SubjectRequests, FixityRequests
      <3>2. unlogged' \subseteq Tags \cup {NoTag}
        BY <1>11, <3>1 DEF IInv, TypeOK, ServerCrash
      <3> QED
        BY <1>11, <3>2 DEF IInv, TypeOK, ServerCrash, Critical
    <2>2. LockHeld'
      BY <1>11, ProcAssumption
      DEF IInv, TypeOK, LockHeld, ServerCrash, Critical, Procs, ApiThreads
    <2>3. RequestsFit' /\ CopyIsCurrent'
      BY <1>11 DEF IInv, TypeOK, RequestsFit, CopyIsCurrent, ServerCrash
    <2> QED BY <1>11, <2>1, <2>2, <2>3 DEF IInv, ServerCrash
  <1>12. ASSUME NEW p \in Procs, CheckerCrash(p) PROVE IInv'
    <2>1. TypeOK'
      BY <1>12 DEF IInv, TypeOK, CheckerCrash, Critical
    <2>2. LockHeld'
      BY <1>12 DEF IInv, TypeOK, LockHeld, CheckerCrash, Critical
    <2>3. RequestsFit' /\ CopyIsCurrent'
      BY <1>12 DEF IInv, TypeOK, RequestsFit, CopyIsCurrent, CheckerCrash
    <2> QED BY <1>12, <2>1, <2>2, <2>3 DEF IInv, CheckerCrash
  <1>13. ASSUME NEW d \in Digests, MasterChanges(d) PROVE IInv'
    <2>1. TypeOK'
      BY <1>13 DEF IInv, TypeOK, MasterChanges
    <2> QED
      BY <1>13, <2>1
      DEF IInv, MasterChanges, LockHeld, RequestsFit, CopyIsCurrent
  <1>14. CASE UNCHANGED vars
    BY <1>14 DEF vars, IInv, TypeOK, LockHeld, RequestsFit, CopyIsCurrent
  <1> QED
    BY <1>1, <1>2, <1>3, <1>4, <1>5, <1>6, <1>7, <1>8, <1>9, <1>10, <1>11, <1>12,
       <1>13, <1>14
    DEF Next, Step, Replace

-----------------------------------------------------------------------------
(* Theorems. *)

(* The inductive invariant holds in every reachable state. *)
THEOREM Invariant == Spec => []IInv
  BY InitIInv, NextIInv, PTL DEF Spec

(* Every variable keeps its type; in particular the file is never torn. *)
THEOREM TypeCorrect == Spec => []TypeOK
  <1>1. IInv => TypeOK
    BY DEF IInv
  <1> QED BY <1>1, Invariant, PTL

(* However many reviewers click at once, a work is marked reviewed at most *)
(* once, and its acquisition event is never lost.                          *)
THEOREM ReviewedOnce == Spec => []HistorySound
  <1>1. IInv => HistorySound
    BY DEF IInv, HistorySound
  <1> QED BY <1>1, Invariant, PTL

(* No reachable sidecar hides a proposal: one that is outstanding always   *)
(* comes with needs_review, the flag that puts the work in the queue.      *)
THEOREM NoProposalHidden == Spec => []ProposalsAreFlagged
  <1>1. IInv => ProposalsAreFlagged
    BY DEF IInv, ProposalsAreFlagged
  <1> QED BY <1>1, Invariant, PTL

(* No writer that takes the lock undoes another's write: each change of    *)
(* the file is one request applied to what it holds, or its reversal.      *)
THEOREM NoUpdateLost == Spec => NoLostUpdate
  <1> DEFINE Applied(p) == \/ file' = Apply(req[p], file, seen[p])
                           \/ pc[p] = "rollback" /\ file = Apply(req[p], file', seen[p])
  <1>1. IInv /\ [Next]_vars => [\E p \in Procs : Applied(p)]_file
    <2> SUFFICES ASSUME IInv, [Next]_vars, file' # file
                 PROVE  \E p \in Procs : Applied(p)
      OBVIOUS
    <2>1. PICK p \in Procs : Replace(p)
      BY DEF Next, Step, vars, Start, Lock, Read, Hash, Refuse, WriteFails, AppendSubject,
             AppendSubjectFails, RollbackFails, Unlock, Release, Publish, PublishFails,
             Invalidate, CheckerCrash, ServerCrash, MasterChanges
    <2>2. CASE Write(p)
      BY <2>2 DEF IInv, CopyIsCurrent, Write, Goto
    <2>3. CASE Rollback(p)
      BY <2>3 DEF IInv, CopyIsCurrent, Rollback, Goto
    <2> QED BY <2>1, <2>2, <2>3 DEF Replace
  <1> QED BY <1>1, Invariant, PTL DEF Spec, NoLostUpdate
=============================================================================
