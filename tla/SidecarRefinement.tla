------------------------- MODULE SidecarRefinement -------------------------
(***************************************************************************)
(* SidecarStore implements ReviewedRecord, for every value of the          *)
(* constants: the initial states map to initial states, and each step of a *)
(* handler maps to one step of the abstract record or to none.             *)
(***************************************************************************)
EXTENDS SidecarStoreProofs

(* The abstract module reads the same definitions of requests. *)
LEMMA SameRequests ==
  /\ Abstract!ReviewRequests = ReviewRequests
  /\ Abstract!SubjectRequests = SubjectRequests
  /\ Abstract!FixityRequests = FixityRequests
  /\ Abstract!Sidecar = Sidecar
  <1>1. Abstract!ReviewRequests = ReviewRequests
    BY DEF Abstract!ReviewRequests, ReviewRequests
  <1>2. Abstract!SubjectRequests = SubjectRequests
    BY DEF Abstract!SubjectRequests, SubjectRequests
  <1>3. Abstract!FixityRequests = FixityRequests
    BY DEF Abstract!FixityRequests, FixityRequests
  <1>4. Abstract!Sidecar = Sidecar
    BY DEF Abstract!Sidecar, Sidecar, Abstract!TagStates, Abstract!HumanStates,
           Abstract!HistoryOps, TagStates, HumanStates, HistoryOps
  <1> QED BY <1>1, <1>2, <1>3, <1>4

(* It refuses the same requests of the same documents (the 409s). *)
LEMMA SameRefused ==
  ASSUME NEW r, NEW sc
  PROVE  Abstract!Refused(r, sc) = Refused(r, sc)
  BY SameRequests DEF Abstract!Refused, Refused, Abstract!IsReviewed, IsReviewed

(* It makes the same document of a request. *)
LEMMA SameApply ==
  ASSUME NEW r, NEW sc, NEW d
  PROVE  Abstract!Apply(r, sc, d) = Apply(r, sc, d)
  <1>1. Abstract!Reviewed(sc) = Reviewed(sc)
    BY DEF Abstract!Reviewed, Reviewed, Abstract!Logged, Logged
  <1>2. Abstract!Unreviewed(sc) = Unreviewed(sc)
    BY DEF Abstract!Unreviewed, Unreviewed
  <1>3. Abstract!Noted(sc) = Noted(sc)
    BY DEF Abstract!Noted, Noted
  <1>4. Abstract!FixityChecked(sc, r, d) = FixityChecked(sc, r, d)
    BY DEF Abstract!FixityChecked, FixityChecked, Abstract!Logged, Logged
  <1>5. Abstract!Curated(sc, r) = Curated(sc, r)
    BY DEF Abstract!Curated, Curated, Abstract!StateAfter, StateAfter,
           Abstract!AnyProposed, AnyProposed
  <1> QED
    BY <1>1, <1>2, <1>3, <1>4, <1>5 DEF Abstract!Apply, Apply

-----------------------------------------------------------------------------
(* What the abstract record is at each position of the lock holder. *)

(* With no verdict between its two writes, the record is the file. *)
LEMMA ViewWhenCommitted ==
  ASSUME \A p \in Procs : ~Uncommitted(p)
  PROVE  RecordView = file
  BY DEF RecordView

(* With one, it is the copy that verdict's handler would roll back to; the *)
(* lock makes it the only one.                                             *)
LEMMA ViewWhenUncommitted ==
  ASSUME NEW p \in Procs, Uncommitted(p), LockHeld
  PROVE  RecordView = snap[p]
  <1>1. \A q \in Procs : Uncommitted(q) => q = p
    BY DEF Uncommitted, LockHeld, Critical
  <1> QED
    BY <1>1 DEF RecordView

(* A freshly acquired sidecar is an initial abstract record. *)
LEMMA InitRefines == Init => Abstract!AInit
  <1> SUFFICES ASSUME Init PROVE Abstract!AInit
    OBVIOUS
  <1>1. file \in Sidecar
    BY InitIInv DEF IInv, TypeOK
  <1>2. RecordView = file
    BY ViewWhenCommitted DEF Init, Uncommitted
  <1>3. OwedView = [p \in Reviewers |-> "none"]
    BY DEF Init, OwedView, Procs
  <1> QED
    BY <1>1, <1>2, <1>3, SameRequests DEF Init, Abstract!AInit

-----------------------------------------------------------------------------
(* Steps that the abstract record does not see. *)

(* A step outside the critical writes leaves both views as they were, when *)
(* the file and the copies of uncommitted handlers stay, and no process    *)
(* enters or leaves the positions the views look at.                       *)
LEMMA ViewsKept ==
  ASSUME LockHeld, LockHeld', file' = file,
         \A p \in Procs : Uncommitted(p)' <=> Uncommitted(p),
         \A p \in Procs : Uncommitted(p) => snap'[p] = snap[p]
  PROVE  RecordView' = RecordView
  <1>1. CASE \A p \in Procs : ~Uncommitted(p)
    <2>1. RecordView = file
      BY <1>1, ViewWhenCommitted
    <2>2. \A p \in Procs : ~Uncommitted(p)'
      BY <1>1
    <2>3. RecordView' = file'
      BY <2>2 DEF RecordView
    <2> QED BY <2>1, <2>3
  <1>2. ASSUME NEW p \in Procs, Uncommitted(p) PROVE RecordView' = RecordView
    <2>1. RecordView = snap[p]
      BY <1>2, ViewWhenUncommitted
    <2>2. \A q \in Procs : Uncommitted(q)' => q = p
      BY <1>2 DEF Uncommitted, LockHeld, Critical
    <2>3. RecordView' = snap'[p]
      BY <1>2, <2>2 DEF RecordView
    <2> QED BY <1>2, <2>1, <2>3
  <1> QED BY <1>1, <1>2

(* Taking the lock, reading, refusing and letting go are such steps. *)
LEMMA QuietStep ==
  ASSUME IInv, IInv', NEW p \in Procs,
         \/ \E r \in RequestsOf(p) : Start(p, r)
         \/ Lock(p) \/ Read(p) \/ Hash(p) \/ Refuse(p) \/ WriteFails(p)
         \/ AppendSubjectFails(p) \/ Unlock(p) \/ Release(p) \/ Invalidate(p)
         \/ CheckerCrash(p)
  PROVE  UNCHANGED <<RecordView, subjectLog, reviewLog, OwedView>>
  <1> USE DEF Start, Lock, Read, Hash, Refuse, WriteFails, AppendSubjectFails, Unlock,
              Release, Invalidate, CheckerCrash, Goto
  <1>1. UNCHANGED <<file, subjectLog, reviewLog>>
    OBVIOUS
  <1>2. \A q \in Procs : Uncommitted(q)' <=> Uncommitted(q)
    BY ProcAssumption DEF IInv, TypeOK, Uncommitted
  <1>3. \A q \in Procs : Uncommitted(q) => snap'[q] = snap[q]
    BY DEF IInv, TypeOK, Uncommitted
  <1>4. RecordView' = RecordView
    BY <1>1, <1>2, <1>3, ViewsKept DEF IInv
  <1>5. \A q \in Reviewers : OwedView'[q] = OwedView[q]
    BY ProcAssumption DEF IInv, TypeOK, RequestsFit, OwedView, Procs
  <1>6. OwedView' = OwedView
    BY <1>5 DEF OwedView
  <1> QED BY <1>1, <1>4, <1>6

-----------------------------------------------------------------------------
(* Steps that it does see. *)

(* One step of the abstract record, or none. *)
AbstractStep == Abstract!ANext \/ UNCHANGED <<RecordView, subjectLog, reviewLog, OwedView>>

(* A reviewer's or checker's write is the whole abstract request; a        *)
(* curator's is not seen until its event is appended.                      *)
LEMMA WriteRefines ==
  ASSUME IInv, IInv', NEW p \in Procs, Write(p)
  PROVE  AbstractStep
  <1>1. /\ lock = p /\ snap[p] = file /\ ~Refused(req[p], file)
        /\ req[p] \in RequestsOf(p) /\ seen[p] \in Digests
        /\ file' = Apply(req[p], file, seen[p])
        /\ UNCHANGED <<subjectLog, reviewLog>>
    BY DEF IInv, TypeOK, LockHeld, RequestsFit, CopyIsCurrent, Critical, Write, Goto
  <1>2. RecordView = file
    <2>1. \A q \in Procs : ~Uncommitted(q)
      BY <1>1 DEF IInv, LockHeld, Uncommitted, Critical, Write, Goto
    <2> QED BY <2>1, ViewWhenCommitted
  <1>3. \A q \in Procs : Uncommitted(q)' => q = p
    BY <1>1 DEF IInv, TypeOK, LockHeld, Uncommitted, Critical, Write, Goto
  <1>4. CASE p \in Reviewers
    <2>1. pc' = [pc EXCEPT ![p] = "release"] /\ pc[p] = "write"
      BY <1>4 DEF Write, Goto
    <2>2. RecordView' = file'
      <3>1. \A q \in Procs : ~Uncommitted(q)'
        BY <1>3, <2>1 DEF IInv, TypeOK, Uncommitted
      <3> QED BY <3>1 DEF RecordView
    <2>3. OwedView[p] = "none"
      BY <1>4, <2>1 DEF OwedView
    <2>4. OwedView' = [OwedView EXCEPT ![p] = Abstract!EventOf(req[p])]
      BY <1>4, <2>1 DEF IInv, TypeOK, OwedView, Abstract!EventOf, Action, Procs, Write
    <2>5. req[p] \in ReviewRequests
      BY <1>1, <1>4 DEF RequestsOf
    <2>6. Abstract!Review(p, req[p])
      BY <1>1, <1>2, <2>2, <2>3, <2>4, SameRefused, SameApply DEF Abstract!Review
    <2> QED
      BY <1>4, <2>5, <2>6, SameRequests DEF AbstractStep, Abstract!ANext
  <1>5. CASE p \in Curators
    <2>1. pc' = [pc EXCEPT ![p] = "append"] /\ pc[p] = "write"
      BY <1>5, ProcAssumption DEF Write, Goto
    <2>2. RecordView' = file
      <3>1. Uncommitted(p)'
        BY <1>5, <2>1 DEF IInv, TypeOK, Uncommitted
      <3>2. RecordView' = snap'[p]
        BY <1>3, <3>1 DEF RecordView
      <3> QED BY <1>1, <3>2 DEF Write
    <2>3. \A q \in Reviewers : OwedView'[q] = OwedView[q]
      BY <1>5, <2>1, ProcAssumption DEF IInv, TypeOK, OwedView, Procs, Write
    <2>4. OwedView' = OwedView
      BY <2>3 DEF OwedView
    <2> QED BY <1>1, <1>2, <2>2, <2>4 DEF AbstractStep
  <1>6. CASE p \in Checkers
    <2>1. pc' = [pc EXCEPT ![p] = "unlock"] /\ pc[p] = "write"
      BY <1>6, ProcAssumption DEF Write, Goto
    <2>2. RecordView' = file'
      <3>1. \A q \in Procs : ~Uncommitted(q)'
        BY <1>3, <2>1 DEF IInv, TypeOK, Uncommitted
      <3> QED BY <3>1 DEF RecordView
    <2>3. \A q \in Reviewers : OwedView'[q] = OwedView[q]
      BY <1>6, <2>1, ProcAssumption DEF IInv, TypeOK, OwedView, Procs, Write
    <2>4. OwedView' = OwedView
      BY <2>3 DEF OwedView
    <2>5. req[p] \in FixityRequests
      BY <1>1, <1>6, ProcAssumption DEF RequestsOf
    <2>6. Abstract!CheckFixity(req[p])
      BY <1>1, <1>2, <2>2, <2>4, SameRefused, SameApply DEF Abstract!CheckFixity
    <2> QED
      BY <2>5, <2>6, SameRequests DEF AbstractStep, Abstract!ANext
  <1> QED BY <1>4, <1>5, <1>6 DEF Procs

(* The end of a subject_action's double write: the event arrives, or the   *)
(* old copy comes back, or neither.                                        *)
LEMMA SecondWriteRefines ==
  ASSUME IInv, IInv', NEW p \in Procs, AppendSubject(p) \/ Rollback(p) \/ RollbackFails(p)
  PROVE  AbstractStep
  <1>1. /\ Uncommitted(p) /\ p \in Curators
        /\ file = Apply(req[p], snap[p], seen[p])
        /\ req[p] \in RequestsOf(p) /\ seen[p] \in Digests
        /\ pc' = [pc EXCEPT ![p] = "unlock"]
        /\ UNCHANGED <<reviewLog, req, snap>>
    BY DEF IInv, TypeOK, RequestsFit, CopyIsCurrent, Uncommitted, AppendSubject, Rollback,
           RollbackFails, Goto
  <1>2. RecordView = snap[p]
    BY <1>1, ViewWhenUncommitted DEF IInv
  <1>3. RecordView' = file'
    <2>1. \A q \in Procs : Uncommitted(q) => q = p
      BY <1>1 DEF IInv, LockHeld, Uncommitted, Critical
    <2>2. \A q \in Procs : ~Uncommitted(q)'
      BY <1>1, <2>1 DEF IInv, TypeOK, Uncommitted
    <2> QED BY <2>2 DEF RecordView
  <1>4. OwedView' = OwedView
    <2>1. \A q \in Reviewers : OwedView'[q] = OwedView[q]
      BY <1>1, ProcAssumption DEF IInv, TypeOK, OwedView, Procs
    <2> QED BY <2>1 DEF OwedView
  <1>5. req[p] \in SubjectRequests
    BY <1>1, ProcAssumption DEF RequestsOf
  <1>6. CASE AppendSubject(p)
    <2>1. file' = file /\ subjectLog' = Append(subjectLog, req[p])
      BY <1>6 DEF AppendSubject
    <2>2. Abstract!Curate(req[p])
      BY <1>1, <1>2, <1>3, <1>4, <2>1, SameApply DEF Abstract!Curate
    <2> QED BY <1>5, <2>2, SameRequests DEF AbstractStep, Abstract!ANext
  <1>7. CASE Rollback(p)
    BY <1>1, <1>2, <1>3, <1>4, <1>7 DEF AbstractStep, Rollback
  <1>8. CASE RollbackFails(p)
    <2>1. file' = file /\ UNCHANGED subjectLog /\ {"append", "write"} \subseteq Faults
      BY <1>8 DEF IInv, RequestsFit, RollbackFails, Goto
    <2>2. OwedView' = [q \in Reviewers |-> IF q \in {} THEN "none" ELSE OwedView[q]]
      BY <1>4 DEF OwedView
    <2>3. Abstract!CurateUnlogged(req[p], {})
      BY <1>1, <1>2, <1>3, <2>1, <2>2, SameApply DEF Abstract!CurateUnlogged
    <2>4. {} \in SUBSET Reviewers
      OBVIOUS
    <2> QED BY <1>5, <2>3, <2>4, SameRequests DEF AbstractStep, Abstract!ANext
  <1> QED BY <1>6, <1>7, <1>8

(* The review's event, or its loss, settles what the reviewer owed. *)
LEMMA PublishRefines ==
  ASSUME IInv, IInv', NEW p \in Procs, Publish(p) \/ PublishFails(p)
  PROVE  AbstractStep
  <1> USE DEF Publish, PublishFails, Goto
  <1>1. /\ p \in Reviewers /\ pc[p] = "publish"
        /\ UNCHANGED <<file, snap, req, subjectLog>>
    BY DEF IInv, RequestsFit
  <1>2. \A q \in Procs : Uncommitted(q)' <=> Uncommitted(q)
    BY <1>1 DEF IInv, TypeOK, Uncommitted
  <1>3. RecordView' = RecordView
    BY <1>1, <1>2, ViewsKept DEF IInv
  <1>4. OwedView[p] = Action(req[p])
    BY <1>1 DEF OwedView
  <1>5. OwedView' = [OwedView EXCEPT ![p] = "none"]
    BY <1>1 DEF IInv, TypeOK, OwedView, Procs
  <1>6. CASE Publish(p)
    <2>1. Action(req[p]) # "none"
      BY DEF Action
    <2>2. Abstract!Settle(p)
      BY <1>1, <1>3, <1>4, <1>5, <1>6, <2>1 DEF Abstract!Settle
    <2> QED BY <1>1, <2>2 DEF AbstractStep, Abstract!ANext
  <1>7. CASE PublishFails(p)
    <2>1. OwedView' = [q \in Reviewers |-> IF q \in {p} THEN "none" ELSE OwedView[q]]
      BY <1>5 DEF OwedView
    <2>2. Abstract!Forget({p})
      BY <1>1, <1>3, <1>7, <2>1 DEF Abstract!Forget
    <2> QED BY <1>1, <2>2 DEF AbstractStep, Abstract!ANext
  <1> QED BY <1>6, <1>7

(* A crash forgets what is owed, and commits a verdict without its event   *)
(* when it falls between the two writes of a subject_action.               *)
LEMMA CrashRefines ==
  ASSUME IInv, IInv', ServerCrash
  PROVE  AbstractStep
  <1>1. /\ "crash" \in Faults
        /\ UNCHANGED <<file, req, snap, subjectLog, reviewLog>>
    BY DEF ServerCrash
  <1>2. \A q \in Procs : ~Uncommitted(q)'
    BY DEF ServerCrash, Uncommitted, ApiThreads
  <1>3. RecordView' = file
    BY <1>1, <1>2 DEF RecordView
  <1>4. OwedView' = [q \in Reviewers |-> IF q \in Reviewers THEN "none" ELSE OwedView[q]]
    BY DEF ServerCrash, OwedView, ApiThreads, Procs
  <1>5. CASE \A q \in Procs : ~Uncommitted(q)
    <2>1. RecordView = file
      BY <1>5, ViewWhenCommitted
    <2>2. Abstract!Forget(Reviewers)
      BY <1>1, <1>3, <1>4, <2>1 DEF Abstract!Forget
    <2> QED BY <2>2 DEF AbstractStep, Abstract!ANext
  <1>6. ASSUME NEW p \in Procs, Uncommitted(p) PROVE AbstractStep
    <2>1. RecordView = snap[p]
      BY <1>6, ViewWhenUncommitted DEF IInv
    <2>2. file = Apply(req[p], snap[p], seen[p]) /\ seen[p] \in Digests
      BY <1>6 DEF IInv, TypeOK, CopyIsCurrent, Uncommitted
    <2>3. req[p] \in SubjectRequests
      BY <1>6, ProcAssumption DEF IInv, RequestsFit, RequestsOf, Uncommitted
    <2>4. Abstract!CurateUnlogged(req[p], Reviewers)
      BY <1>1, <1>3, <1>4, <2>1, <2>2, SameApply DEF Abstract!CurateUnlogged
    <2> QED BY <2>3, <2>4, SameRequests DEF AbstractStep, Abstract!ANext
  <1> QED BY <1>5, <1>6

(* Every step of every handler refines, by cases on Next. *)
LEMMA StepRefines ==
  ASSUME IInv, IInv', [Next]_vars
  PROVE  AbstractStep
  <1>1. ASSUME NEW p \in Procs, Write(p) PROVE AbstractStep
    BY <1>1, WriteRefines
  <1>2. ASSUME NEW p \in Procs, AppendSubject(p) \/ Rollback(p) \/ RollbackFails(p)
        PROVE  AbstractStep
    BY <1>2, SecondWriteRefines
  <1>3. ASSUME NEW p \in Procs, Publish(p) \/ PublishFails(p) PROVE AbstractStep
    BY <1>3, PublishRefines
  <1>4. ASSUME NEW p \in Procs,
               \/ \E r \in RequestsOf(p) : Start(p, r)
               \/ Lock(p) \/ Read(p) \/ Hash(p) \/ Refuse(p) \/ WriteFails(p)
               \/ AppendSubjectFails(p) \/ Unlock(p) \/ Release(p) \/ Invalidate(p)
               \/ CheckerCrash(p)
        PROVE  AbstractStep
    BY <1>4, QuietStep DEF AbstractStep
  <1>5. CASE ServerCrash
    BY <1>5, CrashRefines
  <1>6. CASE UNCHANGED vars \/ \E d \in Digests : MasterChanges(d)
    <2>1. UNCHANGED <<file, pc, req, snap, subjectLog, reviewLog>>
      BY <1>6 DEF vars, MasterChanges
    <2>2. RecordView' = RecordView /\ OwedView' = OwedView
      BY <2>1 DEF RecordView, OwedView, Uncommitted
    <2> QED BY <2>1, <2>2 DEF AbstractStep
  <1> QED
    BY <1>1, <1>2, <1>3, <1>4, <1>5, <1>6 DEF Next, Step, Replace

(* The locked writers implement the abstract record: whatever interleaving *)
(* of reviews, verdicts, fixity checks, failed appends, failed writes and  *)
(* crashes, an observer of file and logs sees requests applied one at a    *)
(* time, each verdict together with its event unless a crash or a second   *)
(* failure separates them.                                                 *)
THEOREM Refinement == Spec => ImplementsReviewedRecord
  <1>1. IInv /\ IInv' /\ [Next]_vars
          => [Abstract!ANext]_<<RecordView, subjectLog, reviewLog, OwedView>>
    BY StepRefines DEF AbstractStep
  <1> QED
    BY <1>1, InitRefines, Invariant, PTL
    DEF Spec, ImplementsReviewedRecord, Abstract!ASpec, Abstract!abstractVars

-----------------------------------------------------------------------------
(* The audit log of subject_action explains the tags of the sidecar.  The  *)
(* invariant speaks of the abstract record, which takes a verdict as given *)
(* when its event is appended: of every tag that has lost no event, the    *)
(* log's last word is what the record shows.                               *)

Explained == \A t \in Tags \ unlogged : LogExplains(t, RecordView)

(* A request changes no tag but its own, and that one as its verdict says. *)
LEMMA ApplyTags ==
  ASSUME NEW sc \in Sidecar, NEW r \in Requests, NEW d \in Digests
  PROVE  /\ \A t \in Tags \ {r.tag} : Apply(r, sc, d).tags[t] = sc.tags[t]
         /\ r.tag \in Tags => Apply(r, sc, d).tags[r.tag] = StateAfter(r.op, sc.tags[r.tag])
  <1>1. CASE r \in [op : {"confirm", "reject", "add", "reset"}, tag : Tags]
    <2>1. Apply(r, sc, d).tags = [sc.tags EXCEPT ![r.tag] = StateAfter(r.op, @)]
      BY <1>1 DEF Apply, Curated, Sidecar
    <2> QED BY <1>1, <2>1 DEF Sidecar
  <1>2. CASE r.op \in {"review", "undo", "freetext", "verify", "record"}
    <2>1. r.tag \notin Tags
      BY <1>2, TagAssumption DEF Requests, ReviewRequests, SubjectRequests, FixityRequests
    <2>2. Apply(r, sc, d).tags = sc.tags
      BY <1>2 DEF Apply, Reviewed, Unreviewed, Noted, FixityChecked, Logged, Sidecar
    <2> QED BY <2>1, <2>2
  <1> QED
    BY <1>1, <1>2 DEF Requests, ReviewRequests, SubjectRequests, FixityRequests

(* The state a verdict leaves is one that its event explains. *)
LEMMA VerdictExplained ==
  ASSUME NEW op \in {"confirm", "reject", "add", "reset"}, NEW state \in TagStates
  PROVE  Explains(op, StateAfter(op, state))
  BY DEF Explains, StateAfter

(* What is explained stays so, while log and record keep their word on it. *)
LEMMA StaysExplained ==
  ASSUME NEW t \in Tags, LogExplains(t, RecordView), subjectLog' = subjectLog,
         RecordView'.tags[t] = RecordView.tags[t]
  PROVE  LogExplains(t, RecordView)'
  BY DEF LogExplains, EventsOn

(* A fresh sidecar has no verdicts, and an empty log. *)
LEMMA InitExplained == Init => Explained
  <1> SUFFICES ASSUME Init, NEW t \in Tags PROVE LogExplains(t, RecordView)
    BY DEF Explained
  <1>1. RecordView = file
    BY ViewWhenCommitted DEF Init, Uncommitted
  <1>2. file.tags[t] \notin HumanStates
    <2>1. PICK tags \in [Tags -> {"absent", "proposed"}], flag \in BOOLEAN, ok \in BOOLEAN :
            file = NewSidecar(tags, flag, master, ok)
      BY DEF Init
    <2> QED BY <2>1 DEF NewSidecar, HumanStates
  <1>3. EventsOn(t) = {}
    BY DEF Init, EventsOn
  <1> QED BY <1>1, <1>2, <1>3 DEF LogExplains

(* The write of a review or a check touches no tag; that of a verdict is   *)
(* not yet part of the record.                                             *)
LEMMA WriteExplained ==
  ASSUME IInv, IInv', Explained, NEW p \in Procs, Write(p)
  PROVE  Explained'
  <1>1. /\ lock = p /\ snap[p] = file
        /\ req[p] \in RequestsOf(p) /\ req[p] \in Requests
        /\ seen[p] \in Digests /\ file \in Sidecar
        /\ file' = Apply(req[p], file, seen[p])
        /\ UNCHANGED <<subjectLog, unlogged>>
    BY DEF IInv, TypeOK, LockHeld, RequestsFit, CopyIsCurrent, Critical, Write, Goto
  <1>2. RecordView = file
    <2>1. \A q \in Procs : ~Uncommitted(q)
      BY <1>1 DEF IInv, LockHeld, Uncommitted, Critical, Write, Goto
    <2> QED BY <2>1, ViewWhenCommitted
  <1>3. \A q \in Procs : Uncommitted(q)' => q = p
    BY <1>1 DEF IInv, TypeOK, LockHeld, Uncommitted, Critical, Write, Goto
  <1>4. \A t \in Tags : RecordView'.tags[t] = file.tags[t]
    <2>1. CASE p \in Curators
      <3>1. Uncommitted(p)'
        BY <2>1, ProcAssumption DEF IInv, TypeOK, Uncommitted, Write, Goto
      <3>2. RecordView' = snap'[p]
        BY <1>3, <3>1 DEF RecordView
      <3> QED BY <1>1, <3>2 DEF Write
    <2>2. CASE p \notin Curators
      <3>1. RecordView' = file'
        BY <1>3, <2>2 DEF RecordView, Uncommitted
      <3>2. req[p].tag \notin Tags
        BY <1>1, <2>2, TagAssumption DEF RequestsOf, ReviewRequests, FixityRequests
      <3> QED BY <1>1, <3>1, <3>2, ApplyTags
    <2> QED BY <2>1, <2>2
  <1> QED
    BY <1>1, <1>2, <1>4, StaysExplained DEF Explained

(* The end of a verdict's double write: its event joins the log, and the   *)
(* record changes; or the record stays; or the tag has lost an event.      *)
LEMMA SecondWriteExplained ==
  ASSUME IInv, IInv', Explained, NEW p \in Procs,
         AppendSubject(p) \/ Rollback(p) \/ RollbackFails(p)
  PROVE  Explained'
  <1>1. /\ Uncommitted(p) /\ p \in Curators
        /\ file = Apply(req[p], snap[p], seen[p])
        /\ req[p] \in RequestsOf(p) /\ seen[p] \in Digests /\ snap[p] \in Sidecar
        /\ pc' = [pc EXCEPT ![p] = "unlock"]
    BY DEF IInv, TypeOK, RequestsFit, CopyIsCurrent, Uncommitted, AppendSubject, Rollback,
           RollbackFails, Goto
  <1>2. RecordView = snap[p]
    BY <1>1, ViewWhenUncommitted DEF IInv
  <1>3. RecordView' = file'
    <2>1. \A q \in Procs : Uncommitted(q) => q = p
      BY <1>1 DEF IInv, LockHeld, Uncommitted, Critical
    <2>2. \A q \in Procs : ~Uncommitted(q)'
      BY <1>1, <2>1 DEF IInv, TypeOK, Uncommitted
    <2> QED BY <2>2 DEF RecordView
  <1>4. req[p] \in SubjectRequests /\ req[p] \in Requests
    BY <1>1, ProcAssumption DEF RequestsOf, Requests
  <1>5. \A t \in Tags \ {req[p].tag} : file.tags[t] = RecordView.tags[t]
    BY <1>1, <1>2, <1>4, ApplyTags
  <1>6. CASE AppendSubject(p)
    <2>1. /\ file' = file /\ unlogged' = unlogged \ {req[p].tag}
          /\ subjectLog' = Append(subjectLog, req[p])
          /\ subjectLog \in Seq(SubjectRequests)
      BY <1>6 DEF AppendSubject, IInv, TypeOK
    <2> DEFINE n == Len(subjectLog) + 1
    <2>2. /\ Len(subjectLog') = n /\ n \in Nat /\ subjectLog'[n] = req[p]
          /\ \A i \in 1..Len(subjectLog) : subjectLog'[i] = subjectLog[i]
          /\ 1..n = 1..Len(subjectLog) \cup {n}
          /\ \A i \in 1..n : i <= n
      BY <1>4, <2>1
    <2> HIDE DEF n
    <2>3. ASSUME NEW t \in Tags \ unlogged, t # req[p].tag
          PROVE  LogExplains(t, RecordView)'
      <3>1. EventsOn(t)' = EventsOn(t) /\ \A i \in EventsOn(t) : subjectLog'[i] = subjectLog[i]
        BY <2>2, <2>3 DEF EventsOn
      <3>2. RecordView'.tags[t] = RecordView.tags[t]
        BY <1>3, <1>5, <2>1, <2>3
      <3> QED BY <2>3, <3>1, <3>2 DEF Explained, LogExplains
    <2>4. CASE req[p].tag \in Tags
      <3>1. PICK t \in Tags : t = req[p].tag
        BY <2>4
      <3>2. n \in EventsOn(t)' /\ \A j \in EventsOn(t)' : j <= n
        BY <2>2, <3>1 DEF EventsOn
      <3>3. req[p].op \in {"confirm", "reject", "add", "reset"}
        BY <1>4, <2>4, TagAssumption DEF SubjectRequests
      <3>4. RecordView'.tags[t] = StateAfter(req[p].op, snap[p].tags[t])
        BY <1>1, <1>3, <1>4, <2>1, <3>1, ApplyTags
      <3>5. snap[p].tags[t] \in TagStates
        BY <1>1 DEF Sidecar
      <3>6. Explains(subjectLog'[n].op, RecordView'.tags[t])
        BY <2>2, <3>3, <3>4, <3>5, VerdictExplained
      <3>7. LogExplains(t, RecordView)'
        BY <3>2, <3>6 DEF LogExplains
      <3> QED BY <2>1, <2>3, <3>1, <3>7 DEF Explained
    <2>5. CASE req[p].tag \notin Tags
      BY <2>1, <2>3, <2>5 DEF Explained
    <2> QED BY <2>4, <2>5
  <1>7. CASE Rollback(p)
    <2>1. RecordView' = RecordView /\ UNCHANGED <<subjectLog, unlogged>>
      BY <1>2, <1>3, <1>7 DEF Rollback
    <2> QED BY <2>1, StaysExplained DEF Explained
  <1>8. CASE RollbackFails(p)
    <2>1. file' = file /\ subjectLog' = subjectLog /\ unlogged' = unlogged \cup {req[p].tag}
      BY <1>8 DEF RollbackFails
    <2> QED BY <1>3, <1>5, <2>1, StaysExplained DEF Explained
  <1> QED BY <1>6, <1>7, <1>8

(* A crash between the two writes puts its tag among those without event. *)
LEMMA CrashExplained ==
  ASSUME IInv, IInv', Explained, ServerCrash
  PROVE  Explained'
  <1>1. /\ UNCHANGED <<file, subjectLog>>
        /\ unlogged' = unlogged \cup {req[p].tag : p \in {q \in Procs : Uncommitted(q)}}
    BY DEF ServerCrash
  <1>2. RecordView' = file
    <2>1. \A q \in Procs : ~Uncommitted(q)'
      BY DEF ServerCrash, Uncommitted, ApiThreads
    <2> QED BY <1>1, <2>1 DEF RecordView
  <1>3. CASE \A q \in Procs : ~Uncommitted(q)
    <2>1. RecordView' = RecordView /\ unlogged \subseteq unlogged'
      BY <1>1, <1>2, <1>3, ViewWhenCommitted
    <2> QED BY <1>1, <2>1, StaysExplained DEF Explained
  <1>4. ASSUME NEW p \in Procs, Uncommitted(p) PROVE Explained'
    <2>1. RecordView = snap[p]
      BY <1>4, ViewWhenUncommitted DEF IInv
    <2>2. /\ file = Apply(req[p], snap[p], seen[p])
          /\ seen[p] \in Digests /\ snap[p] \in Sidecar /\ req[p] \in Requests
      BY <1>4 DEF IInv, TypeOK, CopyIsCurrent, Uncommitted
    <2>3. \A t \in Tags \ {req[p].tag} : RecordView'.tags[t] = RecordView.tags[t]
      BY <1>2, <2>1, <2>2, ApplyTags
    <2>4. unlogged \cup {req[p].tag} \subseteq unlogged'
      BY <1>1, <1>4
    <2> QED BY <1>1, <2>3, <2>4, StaysExplained DEF Explained
  <1> QED BY <1>3, <1>4

(* Every step of every handler keeps the tags explained. *)
LEMMA StepExplained ==
  ASSUME IInv, IInv', [Next]_vars, Explained
  PROVE  Explained'
  <1>1. ASSUME NEW p \in Procs, Write(p) PROVE Explained'
    BY <1>1, WriteExplained
  <1>2. ASSUME NEW p \in Procs, AppendSubject(p) \/ Rollback(p) \/ RollbackFails(p)
        PROVE  Explained'
    BY <1>2, SecondWriteExplained
  <1>3. ASSUME UNCHANGED <<RecordView, subjectLog, unlogged>>
        PROVE  Explained'
    BY <1>3, StaysExplained DEF Explained
  <1>4. ASSUME NEW p \in Procs,
               \/ \E r \in RequestsOf(p) : Start(p, r)
               \/ Lock(p) \/ Read(p) \/ Hash(p) \/ Refuse(p) \/ WriteFails(p)
               \/ AppendSubjectFails(p) \/ Unlock(p) \/ Release(p) \/ Invalidate(p)
               \/ CheckerCrash(p)
        PROVE  Explained'
    <2>1. UNCHANGED <<RecordView, subjectLog>>
      BY <1>4, QuietStep
    <2>2. unlogged' = unlogged
      BY <1>4 DEF Start, Lock, Read, Hash, Refuse, WriteFails, AppendSubjectFails, Unlock,
                  Release, Invalidate, CheckerCrash
    <2> QED BY <1>3, <2>1, <2>2
  <1>5. ASSUME NEW p \in Procs, Publish(p) \/ PublishFails(p) PROVE Explained'
    <2>1. p \in Reviewers /\ UNCHANGED <<file, snap, subjectLog, unlogged>>
      BY <1>5 DEF IInv, RequestsFit, Publish, PublishFails, Goto
    <2>2. \A q \in Procs : Uncommitted(q)' <=> Uncommitted(q)
      BY <1>5, <2>1 DEF IInv, TypeOK, Uncommitted, Publish, PublishFails, Goto
    <2>3. RecordView' = RecordView
      BY <2>1, <2>2, ViewsKept DEF IInv
    <2> QED BY <1>3, <2>1, <2>3
  <1>6. CASE ServerCrash
    BY <1>6, CrashExplained
  <1>7. CASE UNCHANGED vars \/ \E d \in Digests : MasterChanges(d)
    <2>1. UNCHANGED <<file, pc, snap, subjectLog, unlogged>>
      BY <1>7 DEF vars, MasterChanges
    <2>2. RecordView' = RecordView
      BY <2>1 DEF RecordView, Uncommitted
    <2> QED BY <1>3, <2>1, <2>2
  <1> QED
    BY <1>1, <1>2, <1>4, <1>5, <1>6, <1>7 DEF Next, Step, Replace

(* After any interleaving of verdicts, reviews and fixity checks, with     *)
(* appends and undos that fail and a server that dies anywhere, what the   *)
(* sidecar shows of a tag is the last logged verdict on it, unless an event *)
(* on that tag was lost and none has been logged since.                    *)
THEOREM LogExplainsTags == Spec => []SubjectLogExplainsTags
  <1>1. Explained => SubjectLogExplainsTags
    <2> SUFFICES ASSUME Explained, \A c \in Curators : ~Uncommitted(c)
                 PROVE  \A t \in Tags \ unlogged : LogExplains(t, file)
      BY DEF SubjectLogExplainsTags
    <2>1. RecordView = file
      BY ViewWhenCommitted DEF Uncommitted
    <2> QED BY <2>1 DEF Explained
  <1>2. IInv /\ IInv' /\ [Next]_vars /\ Explained => Explained'
    BY StepExplained
  <1> QED
    BY <1>1, <1>2, InitExplained, Invariant, PTL DEF Spec
=============================================================================
