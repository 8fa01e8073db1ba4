--------------------------- MODULE RunnerDispatch ---------------------------
(***************************************************************************)
(* Who may start an agent on a pull request.  A workflow attempt asks      *)
(* should_dispatch, which reads the newest reservation marker among the    *)
(* request's comments and posts one of its own: two calls of the GitHub    *)
(* API with no lock between them.  Attempts that carry a signed authority  *)
(* challenge also take it from a ledger that is written conditionally.     *)
(* One pull request and one provider; comments older than the newest       *)
(* reservation are never read and so not kept.                             *)
(***************************************************************************)
EXTENDS Integers, FiniteSets

CONSTANTS Calls,        \* workflow attempts, each with one call of should_dispatch
          NoCall,
          Heads,        \* 1..n: the commits the branch may reach, oldest first
          RetryLimit,   \* UNPRODUCTIVE_COMPLETION_RETRY_LIMIT
          Window,       \* PENDING_STALE_AFTER and COOLDOWN, both 30 min, in ticks
          Outcomes,     \* what a run may report: a subset of AllOutcomes
          Sweeps        \* does the sweep send challenges of authority?

Answers == {"yes", "no", "unset"}
AllOutcomes == [ok : BOOLEAN, work : Answers, incomplete : Answers]

ASSUME CallAssumption == NoCall \notin Calls
ASSUME HeadAssumption == Heads \subseteq Nat /\ 1 \in Heads /\ 0 \notin Heads
ASSUME LimitAssumption == RetryLimit \in Nat /\ Window \in Nat \ {0}
ASSUME OutcomeAssumption == Outcomes \subseteq AllOutcomes

VARIABLES head,        \* the commit the branch is at
          reservation, \* the newest reservation marker
          receipts,    \* the completion receipts posted after it
          inflight,    \* the reservation whose POST timed out and may yet land
          begun,       \* ticks since the started_at of each call's reservation
          ended,       \* ticks since the completed_at of its completion
          pc, seen, rec, \* a call's place, head_sha and record at hand
          ledger,      \* authority state: its status, receipt's owner and head
          challenged,  \* calls that carry an authority challenge
          holders,     \* calls whose claim names the ledger's generation
          runs,        \* agents started under this generation
          refunded,    \* calls that gave their preparation back themselves
          overlap,     \* has a call begun while another was deciding?
          landed       \* has a timed-out POST landed late?

slot == <<reservation, receipts, inflight>>
clocks == <<begun, ended>>
authority == <<ledger, challenged, holders, runs, refunded>>
calls == <<pc, seen, rec>>
vars == <<head, slot, clocks, calls, authority, overlap, landed>>

Terminal == {"completed", "error", "preflight"}
Counts == 0..(RetryLimit + 1)
Ages == 0..(Window + 1)

(* quick is no field of the code's: it counts the immediate retries, of    *)
(* runs that completed with work left, that led to this reservation, and   *)
(* only properties read it.                                                *)
Records == [id : Calls \cup {NoCall}, head : Heads \cup {0},
            status : Terminal \cup {"none", "pending"},
            unproductive : Counts, continued : Counts,
            incomplete : Answers, productive : Answers, quick : Nat]

NoRecord == [id |-> NoCall, head |-> 0, status |-> "none", unproductive |-> 0,
             continued |-> 0, incomplete |-> "unset", productive |-> "unset", quick |-> 0]

Capped(n) == IF n > RetryLimit THEN RetryLimit + 1 ELSE n
Older(age) == IF age > Window THEN age ELSE age + 1

-----------------------------------------------------------------------------
(* What a record says *)

(* read_record: the newest reservation, or the receipt that bears its id. *)
ReadRecord ==
  IF reservation.id \in Calls /\ receipts[reservation.id] # NoRecord
  THEN receipts[reservation.id] ELSE reservation

Stale(prior) == prior.id \in Calls /\ begun[prior.id] > Window
LivePending(prior) == prior.status = "pending" /\ ~Stale(prior)

WasUnproductive(prior) == prior.productive = "no"
NeedsContinuation(prior) == prior.incomplete = "yes"

RetryCount(prior) ==
  IF ~WasUnproductive(prior) \/ prior.continued > prior.unproductive
  THEN prior.continued ELSE prior.unproductive

Unfinished(prior) ==
  prior.status = "completed" /\ (WasUnproductive(prior) \/ NeedsContinuation(prior))

RetriesAtOnce(prior) == Unfinished(prior) /\ RetryCount(prior) <= RetryLimit

(* Mutant: spent retries refuse until the head changes. *)
CoolingDownForever(prior) == Unfinished(prior) /\ RetryCount(prior) > RetryLimit

CoolingDown(prior) ==
  /\ Unfinished(prior)
  /\ RetryCount(prior) > RetryLimit
  /\ prior.id \in Calls /\ ended[prior.id] < Window

(* Mutant: a pending record is no reason to refuse. *)
RefusedIfDone(prior, h) ==
  prior.head = h /\ ((prior.status = "completed" /\ ~Unfinished(prior)) \/ CoolingDown(prior))

(* should_dispatch's refusals, for a call that carries no challenge. *)
Refused(prior, h) ==
  /\ prior.head = h
  /\ \/ prior.status = "completed" /\ ~Unfinished(prior)
     \/ CoolingDown(prior)
     \/ LivePending(prior)

(* Mutant: the tallies start again with every reservation. *)
NewReservationAfresh(c, prior) ==
  [id |-> c, head |-> seen[c], status |-> "pending", unproductive |-> 0, continued |-> 0,
   incomplete |-> "unset", productive |-> "unset",
   quick |-> IF prior.head = seen[c] /\ RetriesAtOnce(prior) THEN prior.quick + 1 ELSE 0]

(* The pending record of _reserve_dispatch carries the tallies of its head. *)
NewReservation(c, prior) ==
  LET same == prior.head = seen[c]
  IN [id |-> c, head |-> seen[c], status |-> "pending",
      unproductive |-> IF same THEN prior.unproductive ELSE 0,
      continued |-> IF ~same THEN 0
                    ELSE IF prior.continued > 0 THEN prior.continued ELSE prior.unproductive,
      incomplete |-> IF same /\ NeedsContinuation(prior) THEN "yes" ELSE "unset",
      productive |-> IF same /\ prior.unproductive > 0 /\ WasUnproductive(prior)
                     THEN "no" ELSE "unset",
      quick |-> IF ~same THEN 0
                ELSE IF RetriesAtOnce(prior) THEN prior.quick + 1 ELSE prior.quick]

(* Mutant: a replay counts as one more run. *)
ReplayedNever(prior) == FALSE

Replayed(prior) == prior.status \in Terminal

(* What record_completion takes for the run's work and for what is left. *)
WorkDone(prior, o) ==
  LET measured == IF Replayed(prior) THEN prior.productive ELSE o.work
  IN IF measured = "unset" /\ WasUnproductive(prior) THEN "no" ELSE measured

WorkLeft(prior, o) ==
  IF ~o.ok \/ Replayed(prior) \/ o.incomplete = "unset" THEN prior.incomplete ELSE o.incomplete

(* The tallies of unproductive and of incomplete runs. *)
Spent(prior, o) ==
  LET work == WorkDone(prior, o)
  IN IF ~o.ok \/ work = "unset" THEN prior.unproductive
     ELSE IF work = "yes" THEN 0
     ELSE IF Replayed(prior) THEN (IF prior.unproductive = 0 THEN 1 ELSE prior.unproductive)
     ELSE Capped(prior.unproductive + 1)

Continued(prior, o) ==
  LET left == WorkLeft(prior, o)
  IN IF ~o.ok THEN prior.continued
     ELSE IF left = "yes"
          THEN (IF Replayed(prior) THEN prior.continued ELSE Capped(prior.continued + 1))
     ELSE IF left = "no" THEN 0
     ELSE IF WorkDone(prior, o) = "no" THEN Spent(prior, o) ELSE prior.continued

(* The terminal record of record_completion, a replay's included. *)
Completion(prior, o) ==
  [id |-> prior.id, head |-> prior.head, status |-> IF o.ok THEN "completed" ELSE "error",
   unproductive |-> Spent(prior, o), continued |-> Continued(prior, o),
   incomplete |-> WorkLeft(prior, o),
   productive |-> IF o.ok /\ WorkDone(prior, o) # "unset" THEN WorkDone(prior, o)
                  ELSE prior.productive,
   quick |-> IF o.ok /\ (WorkDone(prior, o) = "yes" \/ WorkLeft(prior, o) = "no") THEN 0
             ELSE prior.quick]

-----------------------------------------------------------------------------
(* should_dispatch *)

Init ==
  /\ head = 1
  /\ reservation = NoRecord
  /\ receipts = [c \in Calls |-> NoRecord]
  /\ inflight = NoRecord
  /\ begun = [c \in Calls |-> 0] /\ ended = [c \in Calls |-> 0]
  /\ pc = [c \in Calls |-> "idle"]
  /\ seen = [c \in Calls |-> 1]
  /\ rec = [c \in Calls |-> NoRecord]
  /\ ledger = [status |-> "none", owner |-> NoCall, head |-> 0]
  /\ challenged = {} /\ holders = {} /\ runs = 0 /\ refunded = {}
  /\ overlap = FALSE /\ landed = FALSE

Goto(c, from, to) == pc[c] = from /\ pc' = [pc EXCEPT ![c] = to]

(* A call ends where it stands: refused, or its workflow job is over. *)
Leave(c, from) ==
  /\ Goto(c, from, "idle")
  /\ rec' = [rec EXCEPT ![c] = NoRecord]

Deciding == {"read", "prepare", "reread", "giveBack", "post", "recheck", "reconcile"}

(* Attempt ids are never used twice; an id that no comment, claim or       *)
(* ledger entry bears any more stands for a new attempt.                   *)
Unused(c) == reservation.id # c /\ inflight.id # c /\ ledger.owner # c

Start(c, claims) ==
  /\ Unused(c)
  /\ claims => ledger.status = "available" /\ ledger.head = head
  /\ Goto(c, "idle", "read")
  /\ seen' = [seen EXCEPT ![c] = head]
  /\ receipts' = [receipts EXCEPT ![c] = NoRecord]
  /\ begun' = [begun EXCEPT ![c] = 0] /\ ended' = [ended EXCEPT ![c] = 0]
  /\ challenged' = IF claims THEN challenged \cup {c} ELSE challenged \ {c}
  /\ holders' = IF claims THEN holders \cup {c} ELSE holders \ {c}
  /\ refunded' = refunded \ {c}
  /\ overlap' = (overlap \/ \E d \in Calls \ {c} : pc[d] \in Deciding)
  /\ UNCHANGED <<head, reservation, inflight, rec, ledger, runs, landed>>

Reserve(c) ==
  /\ rec' = [rec EXCEPT ![c] = NewReservation(c, ReadRecord)]
  /\ begun' = [begun EXCEPT ![c] = 0]

(* The first read.  A call that carries no challenge decides on it. *)
ReadPrior(c) ==
  /\ c \notin challenged /\ ~Refused(ReadRecord, seen[c])
  /\ Goto(c, "read", "post")
  /\ Reserve(c)
  /\ UNCHANGED <<head, slot, ended, seen, authority, overlap, landed>>

ReadChallenged(c) ==
  /\ c \in challenged /\ ~LivePending(ReadRecord)
  /\ Goto(c, "read", "prepare")
  /\ UNCHANGED <<head, slot, clocks, seen, rec, authority, overlap, landed>>

(* Refused on what it read, or because it could not read. *)
Refuse(c) ==
  /\ Leave(c, "read")
  /\ UNCHANGED <<head, slot, clocks, seen, authority, overlap, landed>>

(* The ledger's commands check the branch and the claim's generation, and  *)
(* write on condition that nobody wrote since.  An answer may be lost.     *)
Prepare(c, to) ==
  /\ to \in {"reread", "idle"}
  /\ Goto(c, "prepare", to)
  /\ ledger.status = "available" /\ c \in holders /\ seen[c] = head
  /\ ledger' = [ledger EXCEPT !.status = "prepared", !.owner = c]
  /\ UNCHANGED <<head, slot, clocks, seen, rec, challenged, holders, runs, refunded, overlap, landed>>

PrepareFails(c) ==
  /\ Leave(c, "prepare")
  /\ UNCHANGED <<head, slot, clocks, seen, authority, overlap, landed>>

(* Preparation does not lock the reservation: it is read again. *)
Reread(c) ==
  /\ \/ ~LivePending(ReadRecord) /\ Goto(c, "reread", "post") /\ Reserve(c)
     \/ LivePending(ReadRecord) /\ Goto(c, "reread", "giveBack") /\ UNCHANGED <<rec, begun>>
     \/ Leave(c, "reread") /\ UNCHANGED begun
  /\ UNCHANGED <<head, slot, ended, seen, authority, overlap, landed>>

Prepared(c) == ledger.status = "prepared" /\ ledger.owner = c
Available(h) == [status |-> "available", owner |-> NoCall, head |-> h]

(* The release of a preparation whose reservation is not standing. *)
GiveBack(c) ==
  /\ Leave(c, "giveBack")
  /\ \/ /\ Prepared(c) /\ c \in holders /\ seen[c] = head
        /\ ledger' = Available(ledger.head)
        /\ refunded' = refunded \cup {c}
     \/ UNCHANGED <<ledger, refunded>>
  /\ UNCHANGED <<head, slot, clocks, seen, challenged, holders, runs, overlap, landed>>

Granted(c) == IF c \in challenged THEN "preflight" ELSE "running"
NotGranted(c) == IF c \in challenged THEN "reconcile" ELSE "idle"

Newest(r) == reservation' = r /\ receipts' = [c \in Calls |-> NoRecord]

(* write_record: the marker is posted and the answer comes. *)
Post(c) ==
  /\ Goto(c, "post", Granted(c))
  /\ Newest(rec[c])
  /\ rec' = [rec EXCEPT ![c] = NoRecord]
  /\ UNCHANGED <<head, inflight, clocks, seen, authority, overlap, landed>>

(* The POST fails: it was posted, it was not, or it may land later. *)
PostFails(c) ==
  /\ Goto(c, "post", "recheck")
  /\ \/ Newest(rec[c]) /\ UNCHANGED inflight
     \/ UNCHANGED slot
     \/ inflight = NoRecord /\ inflight' = rec[c] /\ UNCHANGED <<reservation, receipts>>
  /\ UNCHANGED <<head, clocks, seen, rec, authority, overlap, landed>>

(* GitHub settles a timed-out POST. *)
Land ==
  /\ inflight # NoRecord
  /\ inflight' = NoRecord
  /\ \/ Newest(inflight) /\ landed' = TRUE
     \/ UNCHANGED <<reservation, receipts, landed>>
  /\ UNCHANGED <<head, clocks, calls, authority, overlap>>

(* Grant only if the primary store now holds this very reservation. *)
Recheck(c) ==
  /\ \/ ReadRecord = rec[c] /\ Goto(c, "recheck", Granted(c))
     \/ Goto(c, "recheck", NotGranted(c))
  /\ rec' = [rec EXCEPT ![c] = NoRecord]
  /\ UNCHANGED <<head, slot, clocks, seen, authority, overlap, landed>>

OwnPending(c) == ReadRecord.status = "pending" /\ ReadRecord.id = c

(* Mutant: a refusal gives the preparation back without another look. *)
ReconcileBlindly(c) ==
  /\ Goto(c, "reconcile", "giveBack")
  /\ UNCHANGED <<head, slot, clocks, seen, rec, authority, overlap, landed>>

(* A challenge refused on an ambiguous write: only absence refunds it. *)
Reconcile(c) ==
  /\ \/ OwnPending(c) /\ Goto(c, "reconcile", "preflight") /\ UNCHANGED rec
     \/ ReadRecord = NoRecord /\ Goto(c, "reconcile", "giveBack") /\ UNCHANGED rec
     \/ ~OwnPending(c) /\ ReadRecord # NoRecord /\ Leave(c, "reconcile")
  /\ UNCHANGED <<head, slot, clocks, seen, authority, overlap, landed>>

ReconcileFails(c) ==
  /\ Leave(c, "reconcile")
  /\ UNCHANGED <<head, slot, clocks, seen, authority, overlap, landed>>

-----------------------------------------------------------------------------
(* The challenged attempt's preflight job *)

(* finalize_authority_challenge: the ledger first, then a look at the      *)
(* reservation.  The job may fail before, and the answer may be lost.      *)
Finalize(c, to) ==
  /\ to \in {"readback", "cleanup"}
  /\ Goto(c, "preflight", to)
  /\ Prepared(c) /\ c \in holders /\ seen[c] = head
  /\ ledger' = [ledger EXCEPT !.status = "consumed"]
  /\ UNCHANGED <<head, slot, clocks, seen, rec, challenged, holders, runs, refunded, overlap, landed>>

PreflightFails(c) ==
  /\ Goto(c, "preflight", "cleanup")
  /\ UNCHANGED <<head, slot, clocks, seen, rec, authority, overlap, landed>>

Readback(c) ==
  /\ \/ OwnPending(c) /\ Goto(c, "readback", "running")
        /\ runs' = IF c \in holders THEN runs + 1 ELSE runs
     \/ Goto(c, "readback", "cleanup") /\ UNCHANGED runs
  /\ UNCHANGED <<head, slot, clocks, seen, rec, ledger, challenged, holders, refunded, overlap, landed>>

(* release_authority_challenge: the reservation is closed first, and the   *)
(* refund waits for it.                                                    *)
Cleanup(c) ==
  /\ \/ /\ OwnPending(c)
        /\ Goto(c, "cleanup", "void")
        /\ rec' = [rec EXCEPT ![c] = [ReadRecord EXCEPT !.status = "preflight"]]
     \/ Leave(c, "cleanup")
  /\ UNCHANGED <<head, slot, clocks, seen, authority, overlap, landed>>

(* write_completion: a receipt for the reservation that was read. *)
PostReceipt(c) ==
  /\ receipts' = [receipts EXCEPT ![rec[c].id] = rec[c]]
  /\ UNCHANGED <<reservation, inflight>>

Void(c) ==
  /\ \/ Goto(c, "void", "giveBack") /\ PostReceipt(c) /\ UNCHANGED rec
     \/ Leave(c, "void") /\ (PostReceipt(c) \/ UNCHANGED slot)
  /\ UNCHANGED <<head, clocks, seen, authority, overlap, landed>>

-----------------------------------------------------------------------------
(* The agent, and record_completion *)

Push ==
  /\ head + 1 \in Heads
  /\ head' = head + 1
  /\ UNCHANGED <<slot, clocks, calls, authority, overlap, landed>>

Own(c) == ReadRecord.id = c

(* A replay knows the run's exit code, though it may measure it anew. *)
SameExit(o) == ReadRecord.status \in Terminal => o.ok = (ReadRecord.status = "completed")

(* Mutant: whichever attempt holds the reservation is completed. *)
ReportAny(c, from) ==
  /\ from \in {"running", "reported"}
  /\ ReadRecord # NoRecord
  /\ Goto(c, from, "record")
  /\ \E o \in Outcomes : rec' = [rec EXCEPT ![c] = Completion(ReadRecord, o)]
  /\ ended' = [ended EXCEPT ![c] = 0]
  /\ UNCHANGED <<head, slot, begun, seen, authority, overlap, landed>>

(* Mutant: every report sets completed_at to its own time. *)
ReportRestamps(c, from) ==
  /\ from \in {"running", "reported"}
  /\ Own(c)
  /\ Goto(c, from, "record")
  /\ \E o \in Outcomes : SameExit(o) /\ rec' = [rec EXCEPT ![c] = Completion(ReadRecord, o)]
  /\ ended' = [ended EXCEPT ![c] = 0]
  /\ UNCHANGED <<head, slot, begun, seen, authority, overlap, landed>>

(* The completion job reads the record; it may run again once it is done.  *)
(* A replay keeps the completed_at it finds.                               *)
Report(c, from) ==
  /\ from \in {"running", "reported"}
  /\ Own(c)
  /\ Goto(c, from, "record")
  /\ \E o \in Outcomes : SameExit(o) /\ rec' = [rec EXCEPT ![c] = Completion(ReadRecord, o)]
  /\ ended' = [ended EXCEPT ![c] = IF Replayed(ReadRecord) THEN @ ELSE 0]
  /\ UNCHANGED <<head, slot, begun, seen, authority, overlap, landed>>

Record(c) ==
  /\ Goto(c, "record", "reported")
  /\ PostReceipt(c) \/ UNCHANGED slot
  /\ rec' = [rec EXCEPT ![c] = NoRecord]
  /\ UNCHANGED <<head, clocks, seen, authority, overlap, landed>>

(* The attempt ends: unreported, killed, or with its work done. *)
End(c) ==
  /\ pc[c] # "idle"
  /\ Leave(c, pc[c])
  /\ UNCHANGED <<head, slot, clocks, seen, authority, overlap, landed>>

-----------------------------------------------------------------------------
(* The sweep, the reporter, and time *)

(* beginChallenge: a new generation for a new head, for a boundary that    *)
(* changed or expired before anyone prepared it, or for one that expired   *)
(* with its preparation, which is released first, whatever its owner does. *)
BeginChallenge ==
  /\ Sweeps
  /\ ledger.status \in {"none", "available", "prepared"} \/ ledger.head # head
  /\ ledger' = Available(head)
  /\ holders' = {} /\ runs' = 0 /\ refunded' = {}
  /\ UNCHANGED <<head, slot, clocks, calls, challenged, overlap, landed>>

(* Mutant: whether the run has started an agent is not looked at. *)
RecoverSpent(c) ==
  /\ ledger.owner = c /\ pc[c] = "idle" /\ ledger.head = head
  /\ ledger.status \in {"prepared", "consumed"}
  /\ holders' = IF ledger.status = "prepared" THEN holders ELSE {}
  /\ ledger' = Available(head)
  /\ UNCHANGED <<head, slot, clocks, calls, challenged, runs, refunded, overlap, landed>>

(* reconcileFailedAuthorityAttempt, for a run that is over and started no  *)
(* agent: a preparation is released, a consumed receipt reopened under a   *)
(* new generation.                                                         *)
Recover(c) ==
  /\ ledger.owner = c /\ pc[c] = "idle" /\ runs = 0 /\ ledger.head = head
  /\ ledger.status \in {"prepared", "consumed"}
  /\ holders' = IF ledger.status = "prepared" THEN holders ELSE {}
  /\ ledger' = Available(head)
  /\ UNCHANGED <<head, slot, clocks, calls, challenged, runs, refunded, overlap, landed>>

(* confirmChallenge: the pull request went to a human. *)
Confirm ==
  /\ ledger.status = "consumed"
  /\ ledger' = [ledger EXCEPT !.status = "confirmed"]
  /\ UNCHANGED <<head, slot, clocks, calls, challenged, holders, runs, refunded, overlap, landed>>

(* Half an hour passes; no request to GitHub stays open that long. *)
Tick ==
  /\ inflight = NoRecord
  /\ begun' = [c \in Calls |-> Older(begun[c])]
  /\ ended' = [c \in Calls |-> Older(ended[c])]
  /\ UNCHANGED <<head, slot, calls, authority, overlap, landed>>

Next ==
  \/ Push \/ Land \/ Tick \/ BeginChallenge \/ Confirm
  \/ \E c \in Calls :
    \/ \E claims \in BOOLEAN : Start(c, claims)
    \/ ReadPrior(c) \/ ReadChallenged(c) \/ Refuse(c)
    \/ \E to \in {"reread", "idle"} : Prepare(c, to)
    \/ PrepareFails(c) \/ Reread(c) \/ GiveBack(c)
    \/ Post(c) \/ PostFails(c) \/ Recheck(c) \/ Reconcile(c) \/ ReconcileFails(c)
    \/ \E to \in {"readback", "cleanup"} : Finalize(c, to)
    \/ PreflightFails(c) \/ Readback(c) \/ Cleanup(c) \/ Void(c)
    \/ \E from \in {"running", "reported"} : Report(c, from)
    \/ Record(c) \/ End(c) \/ Recover(c)

(* The hourly sweep asks again, GitHub answers again and again, no job     *)
(* lasts for ever, and time passes.                                        *)
Fairness ==
  /\ WF_vars(Tick) /\ WF_vars(Land)
  /\ \A c \in Calls :
       SF_vars(Start(c, FALSE)) /\ SF_vars(ReadPrior(c)) /\ SF_vars(Post(c)) /\ WF_vars(End(c))

SafeSpec == Init /\ [][Next]_vars
Spec == SafeSpec /\ Fairness

-----------------------------------------------------------------------------
(* Properties *)

(* The shape of every variable. *)
TypeOK ==
  /\ head \in Heads
  /\ reservation \in Records /\ inflight \in Records
  /\ receipts \in [Calls -> Records] /\ rec \in [Calls -> Records]
  /\ begun \in [Calls -> Ages] /\ ended \in [Calls -> Ages]
  /\ pc \in [Calls -> Deciding \cup {"idle", "preflight", "readback", "cleanup", "void",
                                    "running", "record", "reported"}]
  /\ seen \in [Calls -> Heads]
  /\ ledger \in [status : {"none", "available", "prepared", "consumed", "confirmed"},
                 owner : Calls \cup {NoCall}, head : Heads \cup {0}]
  /\ challenged \subseteq Calls /\ holders \subseteq Calls /\ refunded \subseteq Calls /\ runs \in Nat
  /\ overlap \in BOOLEAN /\ landed \in BOOLEAN

(* write_completion: "A completion racing a newer reservation ... cannot   *)
(* overwrite that newer pending owner".  What the store says of one        *)
(* reservation changes only when the attempt that made it reports.         *)
OwnReceiptOnly ==
  [][\A c \in Calls :
       reservation.id = c /\ reservation' = reservation /\ ReadRecord' # ReadRecord =>
         pc[c] \in {"record", "void"} /\ pc'[c] # pc[c]]_vars

(* "Completion replays cannot change the first attempt's disposition": a   *)
(* second report of one attempt spends no retry, and the completed_at that *)
(* the cooldown counts from only grows older.                              *)
ReplaysAreFree ==
  [][\A c \in Calls :
       receipts[c] # NoRecord /\ receipts'[c] # NoRecord =>
         /\ receipts'[c].unproductive = receipts[c].unproductive
         /\ receipts'[c].continued = receipts[c].continued
         /\ receipts'[c].incomplete = receipts[c].incomplete
         /\ ended'[c] >= ended[c]]_vars

(* "A completion that produced no work is retried too, up to ... times on  *)
(* the same head": without measured progress, no line of runs on one head  *)
(* gets more than RetryLimit immediate retries of completed runs.  Runs    *)
(* that end in error are retried at once without a limit; they may stand   *)
(* between the others, but neither spend this budget nor fill it again.    *)
UnfinishedRetriesAreBounded ==
  /\ reservation.quick <= RetryLimit
  /\ \A c \in Calls : rec[c].quick <= RetryLimit

(* should_dispatch: "Reserve dispatch unless the same PR/head SHA ... is   *)
(* actively pending".  As long as no call begins while another is still    *)
(* deciding, and no timed-out POST lands after all, two agents work at one *)
(* head only when the older of them has held it past the window.           *)
LoneRunner ==
  ~overlap /\ ~landed => \A c, d \in Calls :
    c # d /\ pc[c] = "running" /\ pc[d] = "running" /\ seen[c] = seen[d] =>
      begun[c] > Window \/ begun[d] > Window

(* One generation of the authority starts at most one agent, and none that *)
(* may still be claimed has started any.                                   *)
AuthorityIsSpentOnce == runs <= 1 /\ (ledger.status = "available" => runs = 0)

(* "doing so could leave a live primary reservation and a reusable         *)
(* authority generation": an attempt that gave its preparation back holds  *)
(* no pending reservation, unless a POST landed after its failure was      *)
(* taken for absence.                                                      *)
RefundedIsClosed == ~landed => \A c \in refunded : ~OwnPending(c)

(* "a gate that cannot measure itself must not hold the loop shut": while  *)
(* the branch's head is not done with, an agent is started on it in the    *)
(* end, whatever became of the runs before.                                *)
Done == ReadRecord.head = head /\ ReadRecord.status = "completed" /\ ~Unfinished(ReadRecord)
NoLatch == ~Done ~> (Done \/ \E c \in Calls : pc[c] = "running")
=============================================================================
