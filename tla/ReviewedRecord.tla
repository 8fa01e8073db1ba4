--------------------------- MODULE ReviewedRecord ---------------------------
(***************************************************************************)
(* What the locked writers of a sidecar promise, without locks, copies or  *)
(* positions: one record that requests change one at a time, a subject log *)
(* that gains its entry in the same instant as the record changes, and a   *)
(* review log that gains its entry later.                                  *)
(***************************************************************************)
EXTENDS SidecarRecord, Sequences

CONSTANTS Reviewers, Faults

VARIABLES record, subjectLog, reviewLog,
          owed   \* the audit event each reviewer has yet to append, or "none"

abstractVars == <<record, subjectLog, reviewLog, owed>>

EventOf(r) == IF r.op = "review" THEN "reviewed" ELSE "unreviewed"

AInit ==
  /\ record \in Sidecar
  /\ subjectLog = <<>>
  /\ reviewLog = <<>>
  /\ owed = [p \in Reviewers |-> "none"]

(* A review changes the record and owes the log an event. *)
Review(p, r) ==
  /\ ~Refused(r, record)
  /\ owed[p] = "none"
  /\ \E d \in Digests : record' = Apply(r, record, d)
  /\ owed' = [owed EXCEPT ![p] = EventOf(r)]
  /\ UNCHANGED <<subjectLog, reviewLog>>

(* Owed events reach the log one by one, in any order. *)
Settle(p) ==
  /\ owed[p] # "none"
  /\ reviewLog' = Append(reviewLog, owed[p])
  /\ owed' = [owed EXCEPT ![p] = "none"]
  /\ UNCHANGED <<record, subjectLog>>

(* Unless the append fails, or the server dies owing some of them. *)
Forget(S) ==
  /\ Faults \cap {"append", "crash"} # {}
  /\ owed' = [p \in Reviewers |-> IF p \in S THEN "none" ELSE owed[p]]
  /\ UNCHANGED <<record, subjectLog, reviewLog>>

(* A reviewer's verdict on the subject changes record and log together. *)
Curate(r) ==
  /\ \E d \in Digests : record' = Apply(r, record, d)
  /\ subjectLog' = Append(subjectLog, r)
  /\ UNCHANGED <<reviewLog, owed>>

(* Only a crash between the two writes, or a reversal that fails as well,  *)
(* leaves a verdict without its event; the crash takes the owed ones along. *)
CurateUnlogged(r, S) ==
  /\ \/ "crash" \in Faults
     \/ {"append", "write"} \subseteq Faults /\ S = {}
  /\ \E d \in Digests : record' = Apply(r, record, d)
  /\ owed' = [p \in Reviewers |-> IF p \in S THEN "none" ELSE owed[p]]
  /\ UNCHANGED <<subjectLog, reviewLog>>

CheckFixity(r) ==
  /\ ~Refused(r, record)
  /\ \E d \in Digests : record' = Apply(r, record, d)
  /\ UNCHANGED <<subjectLog, reviewLog, owed>>

ANext ==
  \/ \E p \in Reviewers : (\E r \in ReviewRequests : Review(p, r)) \/ Settle(p)
  \/ \E S \in SUBSET Reviewers :
       Forget(S) \/ \E r \in SubjectRequests : CurateUnlogged(r, S)
  \/ \E r \in SubjectRequests : Curate(r)
  \/ \E r \in FixityRequests : CheckFixity(r)

ASpec == AInit /\ [][ANext]_abstractVars
=============================================================================
