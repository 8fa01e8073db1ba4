---------------------------- MODULE SidecarStore ----------------------------
(***************************************************************************)
(* The writers of one meta.json that take its file lock: the API threads   *)
(* that serve acquisition_review and subject_action, and the fixity        *)
(* command.  Each reads the document, changes its copy and replaces the    *)
(* file atomically, all under flock(2) on the sidecar's lock file, and the *)
(* two API handlers also append to an audit log: subject_action inside the *)
(* lock, undoing its write when the append fails; acquisition_review after *)
(* it has let the lock go.                                                 *)
(***************************************************************************)
EXTENDS SidecarRecord, Sequences

CONSTANTS Reviewers,    \* API threads in acquisition_review
          Curators,     \* API threads in subject_action
          Checkers,     \* fixity processes
          NoOne,        \* the owner of a free lock
          Faults,       \* which of "append", "write", "crash" may happen
          MaxRequests   \* bound: requests started in a behaviour

Procs == Reviewers \cup Curators \cup Checkers
ApiThreads == Reviewers \cup Curators

ASSUME ProcAssumption ==
  /\ NoOne \notin Procs
  /\ Reviewers \cap Curators = {}
  /\ Reviewers \cap Checkers = {}
  /\ Curators \cap Checkers = {}
ASSUME BoundAssumption == MaxRequests \in Nat
ASSUME FaultAssumption == Faults \subseteq {"append", "write", "crash"}

VARIABLES file,        \* what meta.json holds
          master,      \* digest of the master image beside it
          lock,        \* who holds the flock
          pc,          \* where each process is
          req,         \* the request it serves
          snap,        \* the document it read (original_sc)
          seen,        \* the digest a checker computed
          subjectLog,  \* subject_tag_events.jsonl
          reviewLog,   \* acquisition_review_events.jsonl
          started,     \* requests started so far
          unlogged     \* history: the tags whose verdict has lost its event

vars == <<file, master, lock, pc, req, snap, seen, subjectLog, reviewLog, started, unlogged>>

NoRequest == [op |-> "freetext", tag |-> NoTag]

RequestsOf(p) == IF p \in Reviewers THEN ReviewRequests
                 ELSE IF p \in Curators THEN SubjectRequests ELSE FixityRequests

Action(r) == IF r.op = "review" THEN "reviewed" ELSE "unreviewed"

(* Positions at which a process holds the lock. *)
Critical == {"read", "hash", "write", "append", "rollback", "unlock", "release"}

NewSidecar(tags, flag, digest, ok) ==
  [tags |-> tags, needsReview |-> flag, notes |-> 0,
   history |-> [op \in HistoryOps |-> IF op = "acquired" THEN 1 ELSE 0],
   sha |-> digest, schemaOk |-> ok]

(* A sidecar as acquisition leaves it: one history event, tags that may be *)
(* proposed and are then flagged (a proposed genre sets the flag as well), *)
(* the digest of the master that arrived.                                  *)
Init ==
  /\ master \in Digests
  /\ \E tags \in [Tags -> {"absent", "proposed"}], flag, ok \in BOOLEAN :
       (AnyProposed(tags) => flag) /\ file = NewSidecar(tags, flag, master, ok)
  /\ lock = NoOne
  /\ pc = [p \in Procs |-> "idle"]
  /\ req = [p \in Procs |-> NoRequest]
  /\ snap = [p \in Procs |-> file]
  /\ seen = [p \in Procs |-> master]
  /\ subjectLog = <<>>
  /\ reviewLog = <<>>
  /\ started = 0
  /\ unlogged = {}

Goto(p, from, to) == pc[p] = from /\ pc' = [pc EXCEPT ![p] = to]

(* A request arrives whose work id and arguments passed the 400/404 checks. *)
Start(p, r) ==
  /\ started < MaxRequests
  /\ Goto(p, "idle", "lock")
  /\ r \in RequestsOf(p)
  /\ req' = [req EXCEPT ![p] = r]
  /\ started' = started + 1
  /\ UNCHANGED <<file, master, lock, snap, seen, subjectLog, reviewLog, unlogged>>

(* Mutant: the lock file is opened but not locked. *)
LockIgnoresOwner(p) ==
  /\ Goto(p, "lock", "read")
  /\ lock' = p
  /\ UNCHANGED <<file, master, req, snap, seen, subjectLog, reviewLog, started, unlogged>>

(* fcntl.flock(LOCK_EX) *)
Lock(p) ==
  /\ Goto(p, "lock", "read")
  /\ lock = NoOne
  /\ lock' = p
  /\ UNCHANGED <<file, master, req, snap, seen, subjectLog, reviewLog, started, unlogged>>

Read(p) ==
  /\ Goto(p, "read", IF p \in Checkers THEN "hash" ELSE "write")
  /\ file # Torn
  /\ snap' = [snap EXCEPT ![p] = file]
  /\ UNCHANGED <<file, master, lock, req, seen, subjectLog, reviewLog, started, unlogged>>

(* sha256_file(resolved_master) *)
Hash(p) ==
  /\ Goto(p, "hash", "write")
  /\ seen' = [seen EXCEPT ![p] = master]
  /\ UNCHANGED <<file, master, lock, req, snap, subjectLog, reviewLog, started, unlogged>>

(* 409, or a validation error: the exception leaves the with-block. *)
Refuse(p) ==
  /\ Goto(p, "write", "unlock")
  /\ Refused(req[p], snap[p])
  /\ UNCHANGED <<file, master, lock, req, snap, seen, subjectLog, reviewLog, started, unlogged>>

(* _write_sidecar_atomic: a temporary file, then os.replace. *)
Write(p) ==
  /\ Goto(p, "write", IF p \in Reviewers THEN "release"
                      ELSE IF p \in Curators THEN "append" ELSE "unlock")
  /\ ~Refused(req[p], snap[p])
  /\ file' = Apply(req[p], snap[p], seen[p])
  /\ UNCHANGED <<master, lock, req, snap, seen, subjectLog, reviewLog, started, unlogged>>

(* The temporary file cannot be written: it is removed, the error raised. *)
WriteFails(p) ==
  /\ "write" \in Faults
  /\ Goto(p, "write", "unlock")
  /\ ~Refused(req[p], snap[p])
  /\ UNCHANGED <<file, master, lock, req, snap, seen, subjectLog, reviewLog, started, unlogged>>

AppendSubject(p) ==
  /\ Goto(p, "append", "unlock")
  /\ subjectLog' = Append(subjectLog, req[p])
  /\ unlogged' = unlogged \ {req[p].tag}
  /\ UNCHANGED <<file, master, lock, req, snap, seen, reviewLog, started>>

(* Mutant: the event reaches the log before its append is reported failed. *)
AppendSubjectFailsLate(p) ==
  /\ "append" \in Faults
  /\ Goto(p, "append", "rollback")
  /\ subjectLog' = Append(subjectLog, req[p])
  /\ UNCHANGED <<file, master, lock, req, snap, seen, reviewLog, started, unlogged>>

AppendSubjectFails(p) ==
  /\ "append" \in Faults
  /\ Goto(p, "append", "rollback")
  /\ UNCHANGED <<file, master, lock, req, snap, seen, subjectLog, reviewLog, started, unlogged>>

(* Mutant: the error is raised, the sidecar left as it was written. *)
RollbackForgotten(p) ==
  /\ Goto(p, "rollback", "unlock")
  /\ UNCHANGED <<file, master, lock, req, snap, seen, subjectLog, reviewLog, started, unlogged>>

(* except Exception: _write_sidecar_atomic(sc_path, original_sc); raise *)
Rollback(p) ==
  /\ Goto(p, "rollback", "unlock")
  /\ file' = snap[p]
  /\ UNCHANGED <<master, lock, req, snap, seen, subjectLog, reviewLog, started, unlogged>>

RollbackFails(p) ==
  /\ "write" \in Faults
  /\ Goto(p, "rollback", "unlock")
  /\ unlogged' = unlogged \cup {req[p].tag}
  /\ UNCHANGED <<file, master, lock, req, snap, seen, subjectLog, reviewLog, started>>

(* LOCK_UN at the end of the with-block, for a request that ends there and *)
(* for a review that still has its audit event to append.                  *)
Unlock(p) ==
  /\ Goto(p, "unlock", "idle")
  /\ lock' = NoOne
  /\ UNCHANGED <<file, master, req, snap, seen, subjectLog, reviewLog, started, unlogged>>

Release(p) ==
  /\ Goto(p, "release", "publish")
  /\ lock' = NoOne
  /\ UNCHANGED <<file, master, req, snap, seen, subjectLog, reviewLog, started, unlogged>>

(* _append_acquisition_review_event, outside the lock and never undone. *)
Publish(p) ==
  /\ Goto(p, "publish", "invalidate")
  /\ reviewLog' = Append(reviewLog, Action(req[p]))
  /\ UNCHANGED <<file, master, lock, req, snap, seen, subjectLog, started, unlogged>>

PublishFails(p) ==
  /\ "append" \in Faults
  /\ Goto(p, "publish", "idle")
  /\ UNCHANGED <<file, master, lock, req, snap, seen, subjectLog, reviewLog, started, unlogged>>

(* store.invalidate_acquisitions_cache(); what it clears is in the module  *)
(* AcquisitionList.                                                        *)
Invalidate(p) ==
  /\ Goto(p, "invalidate", "idle")
  /\ UNCHANGED <<file, master, lock, req, snap, seen, subjectLog, reviewLog, started, unlogged>>

(* Between the two writes of subject_action. *)
Uncommitted(p) == p \in Curators /\ pc[p] \in {"append", "rollback"}

(* The API process dies with all its threads; the kernel drops its lock. *)
ServerCrash ==
  /\ "crash" \in Faults
  /\ \E p \in ApiThreads : pc[p] # "idle"
  /\ pc' = [p \in Procs |-> IF p \in ApiThreads THEN "idle" ELSE pc[p]]
  /\ lock' = IF lock \in ApiThreads THEN NoOne ELSE lock
  /\ unlogged' = unlogged \cup {req[p].tag : p \in {q \in Procs : Uncommitted(q)}}
  /\ UNCHANGED <<file, master, req, snap, seen, subjectLog, reviewLog, started>>

CheckerCrash(p) ==
  /\ "crash" \in Faults
  /\ p \in Checkers
  /\ pc[p] # "idle"
  /\ pc' = [pc EXCEPT ![p] = "idle"]
  /\ lock' = IF lock = p THEN NoOne ELSE lock
  /\ UNCHANGED <<file, master, req, snap, seen, subjectLog, reviewLog, started, unlogged>>

(* The bytes of the master change under the record: what fixity is for. *)
MasterChanges(digest) ==
  /\ digest # master
  /\ master' = digest
  /\ UNCHANGED <<file, lock, pc, req, snap, seen, subjectLog, reviewLog, started, unlogged>>

Replace(p) == Write(p) \/ Rollback(p)

Step(p) ==
  \/ Lock(p) \/ Read(p) \/ Hash(p) \/ Refuse(p) \/ WriteFails(p)
  \/ AppendSubject(p) \/ AppendSubjectFails(p) \/ RollbackFails(p)
  \/ Unlock(p) \/ Release(p) \/ Publish(p) \/ PublishFails(p)

Next ==
  \/ \E p \in Procs :
       (\E r \in RequestsOf(p) : Start(p, r)) \/ Step(p) \/ Replace(p)
         \/ Invalidate(p) \/ CheckerCrash(p)
  \/ ServerCrash
  \/ \E d \in Digests : MasterChanges(d)

Spec == Init /\ [][Next]_vars

-----------------------------------------------------------------------------
(* Properties *)

(* The shape of every variable; the lock's owner is a process or nobody,   *)
(* and the file is never torn, because every writer here replaces it.      *)
TypeOK ==
  /\ file \in Sidecar
  /\ master \in Digests
  /\ lock \in Procs \cup {NoOne}
  /\ pc \in [Procs -> Critical \cup {"idle", "lock", "publish", "invalidate"}]
  /\ req \in [Procs -> Requests]
  /\ snap \in [Procs -> Sidecar]
  /\ seen \in [Procs -> Digests]
  /\ subjectLog \in Seq(SubjectRequests)
  /\ reviewLog \in Seq({"reviewed", "unreviewed"})
  /\ started \in Nat
  /\ unlogged \subseteq Tags \cup {NoTag}

(* Every change of meta.json is one request applied to the document that is *)
(* in the file at that moment, or the exact reversal of one whose audit     *)
(* event could not be appended: no writer puts back an older copy over      *)
(* what another has written meanwhile.                                      *)
NoLostUpdate ==
  [][\E p \in Procs :
       \/ file' = Apply(req[p], file, seen[p])
       \/ pc[p] = "rollback" /\ file = Apply(req[p], file', seen[p])]_file

(* The strengthening that makes the properties inductive: who is in the    *)
(* critical section owns the lock; a process runs only requests of its     *)
(* kind, at positions its kind can reach; the copy a lock holder works on  *)
(* is the file, or the file before its own write.                          *)
LockHeld == \A p \in Procs : pc[p] \in Critical => lock = p

RequestsFit ==
  \A p \in Procs :
    /\ pc[p] # "idle" => req[p] \in RequestsOf(p)
    /\ pc[p] \in {"release", "publish", "invalidate"} => p \in Reviewers
    /\ pc[p] \in {"append", "rollback"} => p \in Curators
    /\ pc[p] = "hash" => p \in Checkers
    /\ pc[p] = "rollback" => "append" \in Faults

CopyIsCurrent ==
  \A p \in Procs :
    /\ pc[p] \in {"hash", "write"} => snap[p] = file
    /\ pc[p] \in {"append", "rollback"} => file = Apply(req[p], snap[p], seen[p])

(* Clicks on "mark reviewed" and "undo", however many are in flight, leave *)
(* at most one review in the record, and never drop the acquisition event  *)
(* that an undo filters the history around.                                *)
SoundHistory(sc) == sc.history["owner-review"] <= 1 /\ sc.history["acquired"] = 1

HistorySound == SoundHistory(file)

(* No outstanding proposal is without needs_review, after any interleaving *)
(* of verdicts, their withdrawals, notes, reviews and rolled-back writes.  *)
Flagged(sc) == AnyProposed(sc.tags) => sc.needsReview

ProposalsAreFlagged == Flagged(file)

(* The inductive invariant; rollbacks write copies, so copies are sound.   *)
IInv ==
  /\ TypeOK
  /\ LockHeld
  /\ RequestsFit
  /\ CopyIsCurrent
  /\ SoundHistory(file) /\ \A p \in Procs : SoundHistory(snap[p])
  /\ Flagged(file) /\ \A p \in Procs : Flagged(snap[p])

EventsOn(tag) == {i \in 1..Len(subjectLog) : subjectLog[i].tag = tag}

Explains(op, state) ==
  IF op = "reset" THEN state \in {"absent", "proposed"} ELSE state = StateAfter(op, state)

(* The log's last word on a tag is what a sidecar shows of it. *)
LogExplains(tag, sc) ==
  \/ EventsOn(tag) = {} /\ sc.tags[tag] \notin HumanStates
  \/ \E i \in EventsOn(tag) : /\ \A j \in EventsOn(tag) : j <= i
                             /\ Explains(subjectLog[i].op, sc.tags[tag])

(* The audit log explains the tags: whenever no subject_action stands      *)
(* between its two writes, the last event on a tag is the decision the     *)
(* sidecar shows, and a tag without events carries no human verdict.  A    *)
(* failed append is undone and leaves no trace; where a crash, or a failed *)
(* undo, has cost an event, the next verdict on that tag mends it.         *)
SubjectLogExplainsTags ==
  (\A c \in Curators : ~Uncommitted(c)) =>
    \A t \in Tags \ unlogged : LogExplains(t, file)

(* The abstract record: a verdict whose audit event is not yet appended    *)
(* has not happened, and a reviewer past its write owes the log an event.  *)
RecordView ==
  IF \E p \in Procs : Uncommitted(p)
  THEN snap[CHOOSE p \in Procs : Uncommitted(p)] ELSE file

OwedView ==
  [p \in Reviewers |->
     IF pc[p] \in {"release", "publish"} THEN Action(req[p]) ELSE "none"]

Abstract == INSTANCE ReviewedRecord WITH record <- RecordView, owed <- OwedView

(* Seen from outside, the writers are one record changed one request at a  *)
(* time, its subject log in step with it and its review log trailing it.   *)
ImplementsReviewedRecord == Abstract!ASpec
=============================================================================
