------------------------ MODULE RunnerDispatchProofs ------------------------
(***************************************************************************)
(* What RunnerDispatch keeps for any number of attempts and commits, any   *)
(* retry limit and window: its types, that receipts belong to the attempt  *)
(* they name, that replays and retries are bounded, that one agent works   *)
(* at a head, and that authority is spent once.                            *)
(***************************************************************************)
EXTENDS RunnerDispatch, TLAPS

Assumptions ==
  /\ NoCall \notin Calls
  /\ Heads \subseteq Nat /\ 1 \in Heads /\ 0 \notin Heads
  /\ RetryLimit \in Nat /\ Window \in Nat \ {0}
  /\ Outcomes \subseteq AllOutcomes

LEMMA AllAssumptions == Assumptions
  BY CallAssumption, HeadAssumption, LimitAssumption, OutcomeAssumption DEF Assumptions

(* The fields of a record. *)
LEMMA RecordFields ==
  ASSUME NEW r \in Records
  PROVE /\ r.id \in Calls \cup {NoCall} /\ r.head \in Heads \cup {0}
        /\ r.status \in Terminal \cup {"none", "pending"}
        /\ r.unproductive \in Counts /\ r.continued \in Counts
        /\ r.incomplete \in Answers /\ r.productive \in Answers /\ r.quick \in Nat
  BY DEF Records

LEMMA NoRecordType == NoRecord \in Records
  BY AllAssumptions DEF Assumptions, NoRecord, Records, Counts, Answers

LEMMA ReadRecordType == TypeOK => ReadRecord \in Records
  BY DEF TypeOK, ReadRecord

LEMMA CappedType == ASSUME NEW n \in Counts PROVE Capped(n + 1) \in Counts
  BY AllAssumptions DEF Assumptions, Capped, Counts

LEMMA ReservationType ==
  ASSUME NEW c \in Calls, NEW prior \in Records, seen[c] \in Heads
  PROVE NewReservation(c, prior) \in Records
  <1>1. 0 \in Counts /\ "unset" \in Answers /\ "yes" \in Answers /\ "no" \in Answers
    BY AllAssumptions DEF Assumptions, Counts, Answers
  <1> QED
    BY <1>1, RecordFields DEF NewReservation, Records

LEMMA CompletionType ==
  ASSUME NEW prior \in Records, NEW o \in Outcomes
  PROVE Completion(prior, o) \in Records
  <1>1. o.ok \in BOOLEAN /\ o.work \in Answers /\ o.incomplete \in Answers
    BY AllAssumptions DEF Assumptions, AllOutcomes
  <1>2. 0 \in Counts /\ 1 \in Counts
    BY AllAssumptions DEF Assumptions, Counts
  <1>3. Capped(prior.unproductive + 1) \in Counts /\ Capped(prior.continued + 1) \in Counts
    BY CappedType, RecordFields
  <1>4. WorkDone(prior, o) \in Answers /\ WorkLeft(prior, o) \in Answers
    BY <1>1, RecordFields DEF WorkDone, WorkLeft, Answers
  <1>5. Spent(prior, o) \in Counts
    BY <1>2, <1>3, RecordFields DEF Spent
  <1>6. Continued(prior, o) \in Counts
    BY <1>2, <1>3, <1>5, RecordFields DEF Continued
  <1> QED
    BY <1>4, <1>5, <1>6, RecordFields DEF Completion, Records, Terminal

(* What a call has on hand is typed before and after each of its steps.    *)
LEMMA TypeKept == TypeOK /\ [Next]_vars => TypeOK'
  <1> SUFFICES ASSUME TypeOK, [Next]_vars PROVE TypeOK'
    OBVIOUS
  <1> USE AllAssumptions, NoRecordType, ReadRecordType
  <1> USE DEF Assumptions
  <1>0. NoCall \in Calls \cup {NoCall} /\ 0 \in Heads \cup {0} /\ 0 \in Ages
    BY DEF Ages
  <1>1. CASE UNCHANGED vars
    BY <1>1 DEF TypeOK, vars, slot, clocks, calls, authority
  <1>2. CASE Push
    BY <1>2 DEF TypeOK, Push, slot, clocks, calls, authority
  <1>3. CASE Land
    <2>1. CASE Newest(inflight) /\ landed' = TRUE
      BY <1>3, <2>1 DEF TypeOK, Land, Newest, clocks, calls, authority
    <2>2. CASE UNCHANGED <<reservation, receipts, landed>>
      BY <1>3, <2>2 DEF TypeOK, Land, clocks, calls, authority
    <2> QED
      BY <1>3, <2>1, <2>2 DEF Land
  <1>4. CASE Tick
    <2>1. ASSUME NEW age \in Ages PROVE Older(age) \in Ages
      BY DEF Older, Ages
    <2> QED
      BY <1>4, <2>1 DEF TypeOK, Tick, slot, calls, authority
  <1>5. CASE BeginChallenge
    BY <1>5, <1>0 DEF TypeOK, BeginChallenge, Available, slot, clocks, calls
  <1>6. CASE Confirm
    BY <1>6 DEF TypeOK, Confirm, slot, clocks, calls
  <1>7. ASSUME NEW c \in Calls, NEW claims \in BOOLEAN, Start(c, claims) PROVE TypeOK'
    BY <1>7, <1>0 DEF TypeOK, Start, Goto, Deciding
  <1>8. ASSUME NEW c \in Calls, Reserve(c)
        PROVE rec' \in [Calls -> Records] /\ begun' \in [Calls -> Ages]
    BY <1>8, <1>0, ReservationType DEF TypeOK, Reserve
  <1>9. ASSUME NEW c \in Calls,
               ReadPrior(c) \/ ReadChallenged(c) \/ Refuse(c) \/ PrepareFails(c)
        PROVE TypeOK'
    BY <1>9, <1>8 DEF TypeOK, ReadPrior, ReadChallenged, Refuse, PrepareFails, Leave, Goto,
                      Deciding, slot, clocks, authority
  <1>10. ASSUME NEW c \in Calls, NEW to \in {"reread", "idle"}, Prepare(c, to) PROVE TypeOK'
    BY <1>10 DEF TypeOK, Prepare, Goto, Deciding, slot, clocks
  <1>11. ASSUME NEW c \in Calls, Reread(c) PROVE TypeOK'
    BY <1>11, <1>8 DEF TypeOK, Reread, Leave, Goto, Deciding, slot, authority
  <1>12. ASSUME NEW c \in Calls, GiveBack(c) PROVE TypeOK'
    BY <1>12, <1>0 DEF TypeOK, GiveBack, Leave, Goto, Available, slot, clocks
  <1>13. ASSUME NEW c \in Calls, Post(c) \/ PostFails(c) PROVE TypeOK'
    BY <1>13 DEF TypeOK, Post, PostFails, Newest, Goto, Granted, Deciding, slot, clocks, authority
  <1>14. ASSUME NEW c \in Calls, Recheck(c) \/ Reconcile(c) \/ ReconcileFails(c) PROVE TypeOK'
    BY <1>14 DEF TypeOK, Recheck, Reconcile, ReconcileFails, Leave, Goto, Granted, NotGranted,
                 Deciding, slot, clocks, authority
  <1>15. ASSUME NEW c \in Calls, NEW to \in {"readback", "cleanup"}, Finalize(c, to) PROVE TypeOK'
    BY <1>15 DEF TypeOK, Finalize, Goto, slot, clocks
  <1>16. ASSUME NEW c \in Calls, PreflightFails(c) \/ Readback(c) PROVE TypeOK'
    BY <1>16 DEF TypeOK, PreflightFails, Readback, Goto, slot, clocks, authority
  <1>17. ASSUME NEW c \in Calls, Cleanup(c) PROVE TypeOK'
    <2>1. [ReadRecord EXCEPT !.status = "preflight"] \in Records
      BY DEF Records, Terminal
    <2> QED
      BY <1>17, <2>1 DEF TypeOK, Cleanup, Leave, Goto, slot, clocks, authority
  <1>18. ASSUME NEW c \in Calls, Void(c) PROVE TypeOK'
    BY <1>18 DEF TypeOK, Void, PostReceipt, Leave, Goto, Deciding, slot, clocks, authority
  <1>19. ASSUME NEW c \in Calls, NEW from \in {"running", "reported"}, Report(c, from)
         PROVE TypeOK'
    BY <1>19, <1>0, CompletionType DEF TypeOK, Report, Goto, slot, authority
  <1>20. ASSUME NEW c \in Calls, Record(c) \/ End(c) \/ Recover(c) PROVE TypeOK'
    BY <1>20, <1>0 DEF TypeOK, Record, End, Recover, PostReceipt, Leave, Goto, Available,
                       slot, clocks, calls, authority
  <1> QED
    BY <1>1, <1>2, <1>3, <1>4, <1>5, <1>6, <1>7, <1>9, <1>10, <1>11, <1>12, <1>13, <1>14,
       <1>15, <1>16, <1>17, <1>18, <1>19, <1>20 DEF Next

LEMMA TypeStart == Init => TypeOK
  <1> SUFFICES ASSUME Init PROVE TypeOK
    OBVIOUS
  <1>1. 0 \in Ages /\ 1 \in Heads
    BY AllAssumptions DEF Assumptions, Ages
  <1>2. overlap \in BOOLEAN /\ landed \in BOOLEAN
    BY DEF Init
  <1> QED
    BY <1>1, <1>2, NoRecordType DEF Init, TypeOK

(* Every variable keeps its shape. *)
THEOREM TypeCorrect == SafeSpec => []TypeOK
  BY TypeStart, TypeKept, PTL DEF SafeSpec

-----------------------------------------------------------------------------
(* Receipts *)

Unposted == {"read", "prepare", "reread", "post"}
Unreported == Unposted \cup {"recheck", "reconcile", "preflight", "readback", "cleanup",
                             "void", "running"}

(* A pending record is for the commit its call saw.                        *)
Requested(r) == r.status = "pending" /\ r.head = seen[r.id]

(* A receipt, and a record about to be posted, belong to the call whose    *)
(* id they bear, and no reservation bears an id before it was posted.      *)
OwnIds ==
  /\ reservation # NoRecord => reservation.id \in Calls /\ Requested(reservation)
  /\ inflight # NoRecord =>
       inflight.id \in Calls /\ Requested(inflight) /\ inflight.id # reservation.id
  /\ \A c \in Calls :
       /\ receipts[c] # NoRecord => receipts[c].id = c /\ receipts[c].status \in Terminal
       /\ pc[c] \in Unposted => reservation.id # c /\ inflight.id # c
       /\ pc[c] \in Unreported => receipts[c] = NoRecord
       /\ pc[c] \in {"post", "recheck"} => rec[c].id = c /\ Requested(rec[c])
       /\ pc[c] \in {"record", "void"} => rec[c].id = c /\ rec[c].status \in Terminal

LEMMA OwnIdsKept == TypeOK /\ OwnIds /\ [Next]_vars => OwnIds'
  <1> SUFFICES ASSUME TypeOK, OwnIds, [Next]_vars PROVE OwnIds'
    OBVIOUS
  <1> USE AllAssumptions
  <1> USE DEF Assumptions, OwnIds, TypeOK, Unposted, Unreported, Requested
  <1>0. NoRecord.id = NoCall /\ NoRecord.status = "none"
    BY DEF NoRecord
  <1>1. CASE UNCHANGED vars
    BY <1>1 DEF vars, slot, clocks, calls, authority
  <1>2. CASE Push \/ Tick \/ BeginChallenge \/ Confirm
    BY <1>2 DEF Push, Tick, BeginChallenge, Confirm, slot, clocks, calls, authority
  <1>3. CASE Land
    BY <1>3, <1>0 DEF Land, Newest, clocks, calls, authority
  <1>4. ASSUME NEW c \in Calls, NEW claims \in BOOLEAN, Start(c, claims) PROVE OwnIds'
    BY <1>4, <1>0 DEF Start, Unused, Goto
  <1>5. ASSUME NEW c \in Calls, Reserve(c)
        PROVE /\ rec'[c].id = c /\ rec'[c].status = "pending" /\ rec'[c].head = seen[c]
              /\ \A d \in Calls \ {c} : rec'[d] = rec[d]
    BY <1>5 DEF Reserve, NewReservation
  <1>6. ASSUME NEW c \in Calls,
               ReadPrior(c) \/ ReadChallenged(c) \/ Refuse(c) \/ PrepareFails(c) \/ Reread(c)
        PROVE OwnIds'
    BY <1>6, <1>5 DEF ReadPrior, ReadChallenged, Refuse, PrepareFails, Reread, Leave, Goto, slot,
                      clocks, authority
  <1>7. ASSUME NEW c \in Calls, NEW to \in {"reread", "idle"}, Prepare(c, to) PROVE OwnIds'
    BY <1>7 DEF Prepare, Goto, slot, clocks
  <1>8. ASSUME NEW c \in Calls, Post(c) \/ PostFails(c) PROVE OwnIds'
    BY <1>8, <1>0 DEF Post, PostFails, Newest, Goto, Granted, slot, clocks, authority
  <1>9. ASSUME NEW c \in Calls,
               GiveBack(c) \/ Recheck(c) \/ Reconcile(c) \/ ReconcileFails(c) \/ PreflightFails(c)
                 \/ Readback(c)
        PROVE OwnIds'
    BY <1>9 DEF GiveBack, Recheck, Reconcile, ReconcileFails, PreflightFails, Readback, Leave, Goto,
                Granted, NotGranted, slot, clocks, authority
  <1>10. ASSUME NEW c \in Calls, NEW to \in {"readback", "cleanup"}, Finalize(c, to) PROVE OwnIds'
    BY <1>10 DEF Finalize, Goto, slot, clocks
  <1>11. ASSUME NEW c \in Calls, Cleanup(c) PROVE OwnIds'
    <2>1. CASE Leave(c, "cleanup")
      BY <1>11, <2>1 DEF Cleanup, Leave, Goto, slot, clocks, authority
    <2>2. CASE /\ OwnPending(c) /\ Goto(c, "cleanup", "void")
               /\ rec' = [rec EXCEPT ![c] = [ReadRecord EXCEPT !.status = "preflight"]]
      <3> DEFINE r == [ReadRecord EXCEPT !.status = "preflight"]
      <3>1. r.id = c /\ r.status \in Terminal
        BY <2>2, ReadRecordType DEF OwnPending, Terminal, Records
      <3> HIDE DEF r
      <3>2. rec' = [rec EXCEPT ![c] = r]
        BY <2>2 DEF r
      <3>3. pc' = [pc EXCEPT ![c] = "void"] /\ pc[c] = "cleanup"
        BY <2>2 DEF Goto
      <3>4. UNCHANGED <<reservation, receipts, inflight, seen>>
        BY <1>11 DEF Cleanup, slot
      <3> QED
        BY <3>1, <3>2, <3>3, <3>4
    <2> QED
      BY <1>11, <2>1, <2>2 DEF Cleanup
  <1>12. ASSUME NEW c \in Calls, Void(c) PROVE OwnIds'
    BY <1>12 DEF Void, PostReceipt, Leave, Goto, slot, clocks, authority
  <1>13. ASSUME NEW c \in Calls, NEW from \in {"running", "reported"}, Report(c, from) PROVE OwnIds'
    BY <1>13 DEF Report, Own, Completion, Terminal, Goto, slot, authority
  <1>14. ASSUME NEW c \in Calls, Record(c) PROVE OwnIds'
    BY <1>14 DEF Record, PostReceipt, Goto, slot, clocks, authority
  <1>15. ASSUME NEW c \in Calls, End(c) \/ Recover(c) PROVE OwnIds'
    BY <1>15 DEF End, Recover, Leave, Goto, slot, clocks, calls, authority
  <1> QED
    BY <1>1, <1>2, <1>3, <1>4, <1>6, <1>7, <1>8, <1>9, <1>10, <1>11, <1>12, <1>13, <1>14, <1>15
    DEF Next

LEMMA IdsCorrect == SafeSpec => [](TypeOK /\ OwnIds)
  <1>1. Init => OwnIds
    BY AllAssumptions DEF Assumptions, Init, OwnIds, NoRecord, Unposted, Unreported
  <1>2. (TypeOK /\ OwnIds) /\ [Next]_vars => (TypeOK /\ OwnIds)'
    BY TypeKept, OwnIdsKept
  <1> QED
    BY <1>1, <1>2, TypeStart, PTL DEF SafeSpec

(* The steps at which what was posted for a standing reservation changes.  *)
LEMMA ReceiptStep ==
  ASSUME TypeOK, OwnIds, [Next]_vars, reservation' = reservation, NEW c \in Calls,
         reservation.id = c, receipts'[c] # receipts[c]
  PROVE pc[c] \in {"record", "void"} /\ pc'[c] # pc[c]
  <1> USE AllAssumptions
  <1> USE DEF Assumptions, OwnIds, TypeOK, Requested, Unposted
  <1>1. CASE Land
    BY <1>1 DEF Land, Newest
  <1>2. ASSUME NEW d \in Calls, NEW claims \in BOOLEAN, Start(d, claims) PROVE FALSE
    BY <1>2 DEF Start, Unused
  <1>3. ASSUME NEW d \in Calls, Post(d) \/ PostFails(d) PROVE FALSE
    BY <1>3 DEF Post, PostFails, Newest, Goto, slot
  <1>4. ASSUME NEW d \in Calls, Void(d) \/ Record(d) PROVE pc[c] \in {"record", "void"} /\ pc'[c] # pc[c]
    BY <1>4 DEF Void, Record, PostReceipt, Leave, Goto, slot
  <1>5. CASE UNCHANGED vars \/ Push \/ Tick \/ BeginChallenge \/ Confirm
    BY <1>5 DEF vars, Push, Tick, BeginChallenge, Confirm, slot
  <1>6. ASSUME NEW d \in Calls,
               \/ ReadPrior(d) \/ ReadChallenged(d) \/ Refuse(d) \/ PrepareFails(d) \/ Reread(d)
               \/ GiveBack(d) \/ Recheck(d) \/ Reconcile(d) \/ ReconcileFails(d) \/ PreflightFails(d)
               \/ Readback(d) \/ Cleanup(d) \/ End(d) \/ Recover(d)
        PROVE FALSE
    BY <1>6 DEF ReadPrior, ReadChallenged, Refuse, PrepareFails, Reread, GiveBack, Recheck, Reconcile,
                ReconcileFails, PreflightFails, Readback, Cleanup, End, Recover, slot
  <1>7. ASSUME NEW d \in Calls, NEW to,
               Prepare(d, to) \/ Finalize(d, to) \/ Report(d, to)
        PROVE FALSE
    BY <1>7 DEF Prepare, Finalize, Report, slot
  <1> QED
    BY <1>1, <1>2, <1>3, <1>4, <1>5, <1>6, <1>7 DEF Next

(* What the store says of a reservation changes by its own call's report.  *)
THEOREM ReceiptsAreOwn == SafeSpec => OwnReceiptOnly
  <1>1. ASSUME TypeOK, OwnIds, [Next]_vars, NEW c \in Calls, reservation.id = c,
               reservation' = reservation, ReadRecord' # ReadRecord
        PROVE pc[c] \in {"record", "void"} /\ pc'[c] # pc[c]
    <2>1. receipts'[c] # receipts[c]
      BY <1>1 DEF ReadRecord
    <2> QED
      BY <1>1, <2>1, ReceiptStep
  <1>2. TypeOK /\ OwnIds /\ [Next]_vars =>
          [\A c \in Calls :
             reservation.id = c /\ reservation' = reservation /\ ReadRecord' # ReadRecord =>
               pc[c] \in {"record", "void"} /\ pc'[c] # pc[c]]_vars
    BY <1>1
  <1> QED
    BY <1>2, IdsCorrect, PTL DEF SafeSpec, OwnReceiptOnly

-----------------------------------------------------------------------------
(* Tallies *)

(* The q immediate retries that led to a record are paid for by its        *)
(* tallies, u of unproductive and k of incomplete runs.                    *)
Tally(status, q, u, k, left, work) ==
  /\ q <= RetryLimit
  /\ status # "completed" =>
       /\ q <= k /\ (left # "yes" => q <= u)
       /\ work # "yes" /\ left # "no"
  /\ status = "completed" =>
       /\ work = "yes" => u = 0
       /\ work = "no" => u > 0
       /\ left = "no" => k = 0
       /\ left = "unset" /\ work = "no" => k = u
       /\ work = "yes" \/ left = "no" => q = 0
       /\ left = "yes" => q < k
       /\ left # "yes" /\ work = "no" => q < u
       /\ left = "unset" /\ work = "unset" => q <= k /\ q <= u

Paid(r) == Tally(r.status, r.quick, r.unproductive, r.continued, r.incomplete, r.productive)

AllPaid ==
  /\ Paid(reservation) /\ Paid(inflight)
  /\ \A c \in Calls : Paid(receipts[c]) /\ Paid(rec[c])

(* A call about to repeat its receipt repeats the tallies it has.          *)
Settled ==
  \A c \in Calls :
    pc[c] = "record" /\ receipts[c] # NoRecord =>
      /\ rec[c].unproductive = receipts[c].unproductive
      /\ rec[c].continued = receipts[c].continued
      /\ rec[c].incomplete = receipts[c].incomplete

LEMMA NoRecordPaid == Paid(NoRecord)
  BY AllAssumptions DEF Assumptions, Paid, Tally, NoRecord

(* An immediate retry is one more, and was within the allowance.           *)
LEMMA TallyOfRetry ==
  ASSUME NEW status, NEW q \in Nat, NEW u \in Counts, NEW k \in Counts,
         NEW left \in Answers, NEW work \in Answers,
         Tally(status, q, u, k, left, work)
  PROVE  LET count == IF ~(work = "no") \/ k > u THEN k ELSE u
             again == (status = "completed" /\ (work = "no" \/ left = "yes")) /\ count <= RetryLimit
         IN Tally("pending", IF again THEN q + 1 ELSE q, u, IF k > 0 THEN k ELSE u,
                  IF left = "yes" THEN "yes" ELSE "unset",
                  IF u > 0 /\ work = "no" THEN "no" ELSE "unset")
  BY AllAssumptions DEF Assumptions, Tally, Counts, Answers

LEMMA ReservationPaid ==
  ASSUME NEW c \in Calls, NEW prior \in Records, Paid(prior)
  PROVE Paid(NewReservation(c, prior))
  <1>1. CASE prior.head = seen[c]
    BY <1>1, RecordFields, TallyOfRetry
    DEF Paid, NewReservation, NeedsContinuation, WasUnproductive, RetriesAtOnce, Unfinished, RetryCount
  <1>2. CASE prior.head # seen[c]
    <2>1. Tally("pending", 0, 0, 0, "unset", "unset")
      BY AllAssumptions DEF Assumptions, Tally
    <2> QED
      BY <1>2, <2>1 DEF Paid, NewReservation
  <1> QED
    BY <1>1, <1>2

Repeats(prior, o) == prior.status \in Terminal => o.ok = (prior.status = "completed")

(* A completion is counted when it is new, and only progress forgives.     *)
LEMMA TallyOfCompletion ==
  ASSUME NEW status \in {"pending", "none"}, NEW q \in Nat, NEW u \in Counts, NEW k \in Counts,
         NEW left \in Answers, NEW work \in Answers,
         Tally(status, q, u, k, left, work),
         NEW measured \in Answers, NEW incomplete \in Answers
  PROVE  LET done == IF measured = "unset" /\ work = "no" THEN "no" ELSE measured
             rest == IF incomplete = "unset" THEN left ELSE incomplete
             spent == IF done = "unset" THEN u ELSE IF done = "yes" THEN 0 ELSE Capped(u + 1)
         IN Tally("completed", IF done = "yes" \/ rest = "no" THEN 0 ELSE q, spent,
                  IF rest = "yes" THEN Capped(k + 1)
                  ELSE IF rest = "no" THEN 0 ELSE IF done = "no" THEN spent ELSE k,
                  rest, IF done # "unset" THEN done ELSE work)
  BY AllAssumptions DEF Assumptions, Tally, Counts, Answers, Capped

(* A replay tallies what was tallied.                                      *)
LEMMA TallyOfReplay ==
  ASSUME NEW q \in Nat, NEW u \in Counts, NEW k \in Counts,
         NEW left \in Answers, NEW work \in Answers,
         Tally("completed", q, u, k, left, work)
  PROVE  LET spent == IF work = "unset" THEN u ELSE IF work = "yes" THEN 0 ELSE IF u = 0 THEN 1 ELSE u
         IN /\ spent = u
            /\ k = (IF left = "yes" THEN k
                    ELSE IF left = "no" THEN 0 ELSE IF work = "no" THEN spent ELSE k)
            /\ q = (IF work = "yes" \/ left = "no" THEN 0 ELSE q)
  BY AllAssumptions DEF Assumptions, Tally, Counts, Answers

LEMMA ReplayTallies ==
  ASSUME NEW prior \in Records, NEW o \in Outcomes, Paid(prior), Repeats(prior, o),
         prior.status \in Terminal
  PROVE /\ Completion(prior, o).unproductive = prior.unproductive
        /\ Completion(prior, o).continued = prior.continued
        /\ Completion(prior, o).incomplete = prior.incomplete
        /\ Completion(prior, o).quick = prior.quick
        /\ Completion(prior, o).productive = prior.productive
        /\ Completion(prior, o).status = "completed" <=> prior.status = "completed"
  <1>1. CASE ~o.ok
    BY <1>1 DEF Completion, Spent, Continued, WorkLeft, Repeats
  <1>2. CASE o.ok
    <2>1. prior.status = "completed" /\ Replayed(prior)
      BY <1>2 DEF Repeats, Replayed
    <2>2. WorkDone(prior, o) = prior.productive /\ WorkLeft(prior, o) = prior.incomplete
      BY <1>2, <2>1 DEF WorkDone, WorkLeft, WasUnproductive
    <2> QED
      BY <1>2, <2>1, <2>2, RecordFields, TallyOfReplay DEF Completion, Spent, Continued, Paid
  <1> QED
    BY <1>1, <1>2, AllAssumptions DEF Assumptions, AllOutcomes

LEMMA CompletionPaid ==
  ASSUME NEW prior \in Records, NEW o \in Outcomes, Paid(prior), Repeats(prior, o)
  PROVE Paid(Completion(prior, o))
  <1>1. CASE prior.status \in Terminal
    <2>1. prior.status # "completed" => Completion(prior, o).status # "completed"
      BY <1>1, ReplayTallies
    <2> QED
      BY <1>1, <2>1, ReplayTallies DEF Paid, Tally
  <1>2. CASE prior.status \notin Terminal /\ ~o.ok
    BY <1>2 DEF Paid, Tally, Completion, Spent, Continued, WorkLeft, Terminal
  <1>3. CASE prior.status \notin Terminal /\ o.ok
    <2>1. prior.status \in {"pending", "none"} /\ ~Replayed(prior)
      BY <1>3, RecordFields DEF Replayed
    <2>2. o.work \in Answers /\ o.incomplete \in Answers
      BY AllAssumptions DEF Assumptions, AllOutcomes
    <2> QED
      BY <1>3, <2>1, <2>2, RecordFields, TallyOfCompletion
      DEF Paid, Completion, Spent, Continued, WorkDone, WorkLeft, WasUnproductive
  <1> QED
    BY <1>1, <1>2, <1>3, AllAssumptions DEF Assumptions, AllOutcomes

LEMMA ReadRecordPaid == AllPaid /\ TypeOK => Paid(ReadRecord) /\ ReadRecord \in Records
  BY ReadRecordType DEF AllPaid, ReadRecord

LEMMA AllPaidKept == TypeOK /\ AllPaid /\ [Next]_vars => AllPaid'
  <1> SUFFICES ASSUME TypeOK, AllPaid, [Next]_vars PROVE AllPaid'
    OBVIOUS
  <1> USE NoRecordPaid, ReadRecordPaid
  <1> USE DEF AllPaid
  <1>0. /\ rec \in [Calls -> Records] /\ receipts \in [Calls -> Records]
        /\ seen \in [Calls -> Heads]
    BY DEF TypeOK
  <1>1. CASE UNCHANGED vars \/ Push \/ Tick \/ BeginChallenge \/ Confirm
    BY <1>1 DEF vars, Push, Tick, BeginChallenge, Confirm, slot, clocks, calls, authority
  <1>2. CASE Land
    BY <1>0, <1>2 DEF Land, Newest, clocks, calls, authority
  <1>3. ASSUME NEW c \in Calls, NEW claims \in BOOLEAN, Start(c, claims) PROVE AllPaid'
    BY <1>0, <1>3 DEF Start
  <1>4. ASSUME NEW c \in Calls, Reserve(c) PROVE \A d \in Calls : Paid(rec'[d])
    BY <1>0, <1>4, ReservationPaid DEF Reserve
  <1>5. ASSUME NEW c \in Calls, ReadPrior(c) \/ Reread(c) PROVE AllPaid'
    BY <1>0, <1>5, <1>4 DEF ReadPrior, Reread, Leave, slot
  <1>6. ASSUME NEW c \in Calls,
               \/ ReadChallenged(c) \/ Refuse(c) \/ PrepareFails(c) \/ GiveBack(c)
               \/ Recheck(c) \/ Reconcile(c) \/ ReconcileFails(c) \/ PreflightFails(c) \/ Readback(c)
               \/ End(c) \/ Recover(c)
        PROVE AllPaid'
    BY <1>0, <1>6 DEF ReadChallenged, Refuse, PrepareFails, GiveBack, Recheck, Reconcile,
         ReconcileFails, PreflightFails, Readback, End, Recover, Leave, slot, calls
  <1>7. ASSUME NEW c \in Calls, NEW to, Prepare(c, to) \/ Finalize(c, to) PROVE AllPaid'
    BY <1>7 DEF Prepare, Finalize, slot
  <1>8. ASSUME NEW c \in Calls, Post(c) \/ PostFails(c) PROVE AllPaid'
    BY <1>0, <1>8 DEF Post, PostFails, Newest, slot
  <1>9. ASSUME NEW c \in Calls, Cleanup(c) PROVE AllPaid'
    <2> DEFINE r == [ReadRecord EXCEPT !.status = "preflight"]
    <2>1. ASSUME OwnPending(c) PROVE Paid(r)
      BY <2>1, ReadRecordPaid DEF OwnPending, Paid, Tally, Records
    <2> HIDE DEF r
    <2>2. UNCHANGED slot
          /\ \/ OwnPending(c) /\ rec' = [rec EXCEPT ![c] = r]
             \/ rec' = [rec EXCEPT ![c] = NoRecord]
      BY <1>9 DEF Cleanup, Leave, r
    <2> QED
      BY <1>0, <2>1, <2>2 DEF slot
  <1>10. ASSUME NEW c \in Calls, Void(c) \/ Record(c) PROVE AllPaid'
    BY <1>0, <1>10 DEF Void, Record, PostReceipt, Leave, slot
  <1>11. ASSUME NEW c \in Calls, NEW from, Report(c, from) PROVE AllPaid'
    BY <1>0, <1>11, CompletionPaid DEF Report, SameExit, Repeats, slot
  <1> QED
    BY <1>1, <1>2, <1>3, <1>5, <1>6, <1>7, <1>8, <1>9, <1>10, <1>11 DEF Next

(* A receipt is written for the call that writes it.                       *)
LEMMA ReceiptWritten ==
  ASSUME TypeOK, OwnIds, NEW d \in Calls, Void(d) \/ Record(d)
  PROVE /\ pc[d] \in {"void", "record"} /\ pc'[d] # "record" /\ receipts'[d] \in {receipts[d], rec[d]}
        /\ \A c \in Calls \ {d} :
             pc'[c] = pc[c] /\ rec'[c] = rec[c] /\ receipts'[c] = receipts[c]
  <1>0. rec \in [Calls -> Records] /\ receipts \in [Calls -> Records]
    BY DEF TypeOK
  <1>1. /\ pc[d] \in {"void", "record"}
        /\ \E to \in {"giveBack", "idle", "reported"} : pc' = [pc EXCEPT ![d] = to]
        /\ rec' = rec \/ rec' = [rec EXCEPT ![d] = NoRecord]
        /\ PostReceipt(d) \/ UNCHANGED slot
    BY DEF Void, Record, Leave, Goto
  <1>2. rec[d].id = d
    BY <1>1 DEF OwnIds
  <1>3. receipts' = receipts \/ receipts' = [receipts EXCEPT ![d] = rec[d]]
    BY <1>1, <1>2 DEF PostReceipt, slot
  <1> QED
    BY <1>0, <1>1, <1>3 DEF TypeOK

LEMMA SettledKept == TypeOK /\ OwnIds /\ AllPaid /\ Settled /\ [Next]_vars => Settled'
  <1> SUFFICES ASSUME TypeOK, OwnIds, AllPaid, Settled, [Next]_vars,
                      NEW c \in Calls, pc'[c] = "record", receipts'[c] # NoRecord
               PROVE /\ rec'[c].unproductive = receipts'[c].unproductive
                     /\ rec'[c].continued = receipts'[c].continued
                     /\ rec'[c].incomplete = receipts'[c].incomplete
    BY DEF Settled
  <1> DEFINE Same == pc[c] = "record" /\ rec'[c] = rec[c] /\ receipts'[c] = receipts[c]
  <1>0. /\ rec \in [Calls -> Records] /\ receipts \in [Calls -> Records]
        /\ \A d \in Calls : \A to : pc' = [pc EXCEPT ![d] = to] =>
             IF c = d THEN pc'[c] = to ELSE pc'[c] = pc[c]
    BY DEF TypeOK
  <1>1. CASE UNCHANGED vars \/ Push \/ Tick \/ BeginChallenge \/ Confirm
    <2>1. Same
      BY <1>1 DEF vars, Push, Tick, BeginChallenge, Confirm, slot, clocks, calls, authority
    <2> QED
      BY <2>1 DEF Settled
  <1>2. CASE Land
    <2>1. Same
      BY <1>0, <1>2 DEF Land, Newest, calls
    <2> QED
      BY <2>1 DEF Settled
  <1>3. ASSUME NEW d \in Calls, NEW claims \in BOOLEAN, Start(d, claims) PROVE Same
    BY <1>0, <1>3 DEF Start, Goto
  <1>4. ASSUME NEW d \in Calls, ReadPrior(d) \/ Reread(d) \/ Post(d) \/ PostFails(d) \/ Cleanup(d)
        PROVE Same
    BY <1>0, <1>4 DEF ReadPrior, Reread, Post, PostFails, Cleanup, Granted, Newest, Reserve, Leave,
                      Goto, slot
  <1>5. ASSUME NEW d \in Calls,
               \/ ReadChallenged(d) \/ Refuse(d) \/ PrepareFails(d) \/ GiveBack(d)
               \/ Recheck(d) \/ Reconcile(d) \/ ReconcileFails(d) \/ PreflightFails(d) \/ Readback(d)
               \/ End(d) \/ Recover(d)
        PROVE Same
    BY <1>0, <1>5 DEF ReadChallenged, Refuse, PrepareFails, GiveBack, Recheck, Reconcile, Granted,
         NotGranted, ReconcileFails, PreflightFails, Readback, End, Recover, Leave, Goto, slot, calls
  <1>6. ASSUME NEW d \in Calls, NEW to, Prepare(d, to) \/ Finalize(d, to) PROVE Same
    BY <1>0, <1>6 DEF Prepare, Finalize, Goto, slot
  <1>7. ASSUME NEW d \in Calls, Void(d) \/ Record(d) PROVE Same
    BY <1>7, ReceiptWritten
  <1>8. ASSUME NEW d \in Calls, NEW from, Report(d, from)
        PROVE Same \/ /\ rec'[c].unproductive = receipts'[c].unproductive
                      /\ rec'[c].continued = receipts'[c].continued
                      /\ rec'[c].incomplete = receipts'[c].incomplete
    <2>1. CASE c = d
      <3>1. receipts'[c] = receipts[c] /\ receipts[c] # NoRecord
        BY <1>8 DEF Report, slot
      <3>2. ReadRecord = receipts[c] /\ receipts[c].status \in Terminal
        BY <1>8, <2>1, <3>1 DEF Report, Own, ReadRecord, OwnIds
      <3>3. PICK o \in Outcomes : SameExit(o) /\ rec'[c] = Completion(ReadRecord, o)
        BY <1>0, <1>8, <2>1 DEF Report
      <3> QED
        BY <3>1, <3>2, <3>3, ReplayTallies, ReadRecordPaid DEF SameExit, Repeats
    <2>2. CASE c # d
      BY <1>0, <1>8, <2>2 DEF Report, Goto, slot
    <2> QED
      BY <2>1, <2>2
  <1> QED
    BY <1>1, <1>2, <1>3, <1>4, <1>5, <1>6, <1>7, <1>8 DEF Next, Settled

LEMMA TalliesCorrect == SafeSpec => [](TypeOK /\ OwnIds /\ AllPaid /\ Settled)
  <1>1. Init => AllPaid /\ Settled
    BY NoRecordPaid DEF Init, AllPaid, Settled
  <1>2. (AllPaid /\ Settled) /\ (TypeOK /\ OwnIds) /\ [Next]_vars => (AllPaid /\ Settled)'
    BY AllPaidKept, SettledKept
  <1> QED
    BY <1>1, <1>2, IdsCorrect, PTL DEF SafeSpec

(* No record a call may go on from stands for more immediate retries of    *)
(* completed runs than the limit, however many failed runs there were      *)
(* between them.                                                           *)
THEOREM UnfinishedRetriesBounded == SafeSpec => []UnfinishedRetriesAreBounded
  <1>1. AllPaid => UnfinishedRetriesAreBounded
    BY DEF AllPaid, Paid, Tally, UnfinishedRetriesAreBounded
  <1> QED
    BY <1>1, TalliesCorrect, PTL

(* The completed_at of what has been received is moved by no step.         *)
LEMMA CompletionAges ==
  ASSUME TypeOK, OwnIds, [Next]_vars, NEW c \in Calls,
         receipts[c] # NoRecord, receipts'[c] # NoRecord
  PROVE  ended'[c] >= ended[c]
  <1>0. ended \in [Calls -> Ages] /\ ended[c] \in Nat
    BY AllAssumptions DEF Assumptions, TypeOK, Ages
  <1>1. CASE UNCHANGED vars \/ Push \/ BeginChallenge \/ Confirm \/ Land
    BY <1>0, <1>1 DEF vars, Push, BeginChallenge, Confirm, Land, clocks
  <1>2. CASE Tick
    BY <1>0, <1>2 DEF Tick, Older
  <1>3. ASSUME NEW d \in Calls, NEW claims \in BOOLEAN, Start(d, claims)
        PROVE ended'[c] = ended[c]
    <2>1. receipts \in [Calls -> Records]
      BY DEF TypeOK
    <2>2. d # c
      BY <1>3, <2>1 DEF Start
    <2> QED
      BY <1>0, <1>3, <2>2 DEF Start
  <1>4. ASSUME NEW d \in Calls,
               \/ ReadPrior(d) \/ ReadChallenged(d) \/ Refuse(d) \/ PrepareFails(d) \/ Reread(d)
               \/ GiveBack(d) \/ Post(d) \/ PostFails(d) \/ Recheck(d) \/ Reconcile(d)
               \/ ReconcileFails(d) \/ PreflightFails(d) \/ Readback(d) \/ Cleanup(d) \/ Void(d)
               \/ Record(d) \/ End(d) \/ Recover(d)
        PROVE ended'[c] = ended[c]
    BY <1>4 DEF ReadPrior, ReadChallenged, Refuse, PrepareFails, Reread, GiveBack, Post, PostFails,
       Recheck, Reconcile, ReconcileFails, PreflightFails, Readback, Cleanup, Void, Record, End,
       Recover, clocks
  <1>5. ASSUME NEW d \in Calls, NEW to, Prepare(d, to) \/ Finalize(d, to)
        PROVE ended'[c] = ended[c]
    BY <1>5 DEF Prepare, Finalize, clocks
  <1>6. ASSUME NEW d \in Calls, NEW from, Report(d, from)
        PROVE ended'[c] = ended[c]
    <2>1. CASE d = c
      <3>1. ReadRecord = receipts[c] /\ Replayed(ReadRecord)
        BY <1>6, <2>1 DEF Report, Own, ReadRecord, OwnIds, Replayed
      <3> QED
        BY <1>0, <1>6, <2>1, <3>1 DEF Report
    <2>2. CASE d # c
      BY <1>0, <1>6, <2>2 DEF Report
    <2> QED
      BY <2>1, <2>2
  <1>7. \A a \in Nat : a >= a
    OBVIOUS
  <1> QED
    BY <1>0, <1>1, <1>2, <1>3, <1>4, <1>5, <1>6, <1>7 DEF Next

(* A second receipt of one attempt repeats the tallies of the first, and   *)
(* no report of it makes the completion younger.                           *)
THEOREM ReplaysFree == SafeSpec => ReplaysAreFree
  <1>1. TypeOK /\ OwnIds /\ Settled /\ [Next]_vars =>
          [\A c \in Calls :
             receipts[c] # NoRecord /\ receipts'[c] # NoRecord =>
               /\ receipts'[c].unproductive = receipts[c].unproductive
               /\ receipts'[c].continued = receipts[c].continued
               /\ receipts'[c].incomplete = receipts[c].incomplete
               /\ ended'[c] >= ended[c]]_vars
    <2> SUFFICES ASSUME TypeOK, OwnIds, Settled, [Next]_vars, NEW c \in Calls,
                        receipts[c] # NoRecord, receipts'[c] # NoRecord
                 PROVE  /\ receipts'[c].unproductive = receipts[c].unproductive
                        /\ receipts'[c].continued = receipts[c].continued
                        /\ receipts'[c].incomplete = receipts[c].incomplete
                        /\ ended'[c] >= ended[c]
      OBVIOUS
    <2>8. ended'[c] >= ended[c]
      BY CompletionAges
    <2> DEFINE Kept == receipts'[c] = receipts[c]
               Reported == pc[c] = "record" /\ receipts'[c] = rec[c]
    <2>1. receipts \in [Calls -> Records]
      BY DEF TypeOK
    <2>2. ASSUME UNCHANGED vars \/ Push \/ Tick \/ BeginChallenge \/ Confirm \/ Land
          PROVE Kept
      BY <2>1, <2>2 DEF vars, Push, Tick, BeginChallenge, Confirm, Land, Newest, slot
    <2>3. ASSUME NEW d \in Calls, NEW claims \in BOOLEAN, Start(d, claims)
          PROVE Kept
      BY <2>1, <2>3 DEF Start
    <2>7. ASSUME NEW d \in Calls, NEW to, Prepare(d, to) \/ Finalize(d, to) \/ Report(d, to)
          PROVE Kept
      BY <2>7 DEF Prepare, Finalize, Report, slot
    <2>4. ASSUME NEW d \in Calls,
                 \/ ReadPrior(d) \/ ReadChallenged(d) \/ Refuse(d) \/ PrepareFails(d) \/ Reread(d)
                 \/ GiveBack(d) \/ Post(d) \/ PostFails(d) \/ Recheck(d) \/ Reconcile(d)
                 \/ ReconcileFails(d) \/ PreflightFails(d) \/ Readback(d) \/ Cleanup(d) \/ End(d)
                 \/ Recover(d)
          PROVE Kept
      BY <2>1, <2>4 DEF ReadPrior, ReadChallenged, Refuse, PrepareFails, Reread, GiveBack, Post,
           PostFails, Recheck, Reconcile, ReconcileFails, PreflightFails, Readback, Cleanup, End,
           Recover, Newest, slot
    <2>5. ASSUME NEW d \in Calls, Void(d) \/ Record(d)
          PROVE Kept \/ Reported
      BY <2>5, ReceiptWritten DEF OwnIds, Unreported
    <2> HIDE DEF Kept, Reported
    <2>6. Kept \/ Reported
      BY <2>2, <2>3, <2>4, <2>5, <2>7 DEF Next
    <2> QED
      BY <2>6, <2>8 DEF Settled, Kept, Reported
  <1> QED
    BY <1>1, TalliesCorrect, PTL DEF SafeSpec, ReplaysAreFree

-----------------------------------------------------------------------------
(* Authority *)

(* An agent is started under a generation by the owner of its receipt,     *)
(* and the owner leaves its readback when it does.                         *)
OneOwner ==
  /\ runs \in {0, 1}
  /\ ledger.status \in {"none", "available", "prepared"} => runs = 0
  /\ \A c \in holders :
       pc[c] = "readback" =>
         ledger.status \in {"consumed", "confirmed"} /\ ledger.owner = c /\ runs = 0

Closed(c) == landed \/ ~OwnPending(c)

(* A refund is asked for once the reservation is closed, and stays closed. *)
Refunds ==
  \A c \in Calls :
    /\ c \in refunded => pc[c] = "idle" /\ Closed(c)
    /\ pc[c] = "giveBack" => Closed(c)

LEMMA OneOwnerKept == TypeOK /\ OneOwner /\ [Next]_vars => OneOwner'
  <1> SUFFICES ASSUME TypeOK, OneOwner, [Next]_vars PROVE OneOwner'
    OBVIOUS
  <1> USE DEF OneOwner
  <1>0. /\ ledger = [status |-> ledger.status, owner |-> ledger.owner, head |-> ledger.head]
        /\ \A d \in Calls : \A to : pc' = [pc EXCEPT ![d] = to] =>
             \A c \in Calls : pc'[c] = IF c = d THEN to ELSE pc[c]
        /\ holders \subseteq Calls
    BY DEF TypeOK
  <1>1. CASE UNCHANGED vars \/ Push \/ Tick \/ Land
    BY <1>1 DEF vars, Push, Tick, Land, calls, authority
  <1>2. CASE BeginChallenge
    BY <1>2 DEF BeginChallenge, Available
  <1>3. CASE Confirm
    BY <1>0, <1>3 DEF Confirm, calls
  <1>4. ASSUME NEW c \in Calls, NEW claims \in BOOLEAN, Start(c, claims) PROVE OneOwner'
    BY <1>0, <1>4 DEF Start, Goto
  <1>5. ASSUME NEW c \in Calls,
               \/ ReadPrior(c) \/ ReadChallenged(c) \/ Refuse(c) \/ PrepareFails(c) \/ Reread(c)
               \/ Post(c) \/ PostFails(c) \/ Recheck(c) \/ Reconcile(c) \/ ReconcileFails(c)
               \/ PreflightFails(c) \/ Cleanup(c) \/ Void(c) \/ Record(c) \/ End(c)
        PROVE OneOwner'
    BY <1>0, <1>5 DEF ReadPrior, ReadChallenged, Refuse, PrepareFails, Reread, Post, PostFails,
       Recheck, Reconcile, ReconcileFails, PreflightFails, Cleanup, Void, Record, End, Granted,
       NotGranted, Leave, Goto, authority
  <1>6. ASSUME NEW c \in Calls, NEW to \in {"reread", "idle"}, Prepare(c, to) PROVE OneOwner'
    BY <1>0, <1>6 DEF Prepare, Goto
  <1>7. ASSUME NEW c \in Calls, GiveBack(c) PROVE OneOwner'
    BY <1>0, <1>7 DEF GiveBack, Prepared, Available, Leave, Goto
  <1>8. ASSUME NEW c \in Calls, NEW to \in {"readback", "cleanup"}, Finalize(c, to) PROVE OneOwner'
    BY <1>0, <1>8 DEF Finalize, Prepared, Goto
  <1>9. ASSUME NEW c \in Calls, Readback(c) PROVE OneOwner'
    BY <1>0, <1>9 DEF Readback, Goto
  <1>10. ASSUME NEW c \in Calls, NEW from \in {"running", "reported"}, Report(c, from) PROVE OneOwner'
    BY <1>0, <1>10 DEF Report, Goto, authority
  <1>11. ASSUME NEW c \in Calls, Recover(c) PROVE OneOwner'
    BY <1>0, <1>11 DEF Recover, Available, calls
  <1> QED
    BY <1>1, <1>2, <1>3, <1>4, <1>5, <1>6, <1>7, <1>8, <1>9, <1>10, <1>11 DEF Next

(* One generation of the authority starts one agent at most.               *)
THEOREM AuthoritySpentOnce == SafeSpec => []AuthorityIsSpentOnce
  <1>1. Init => OneOwner
    BY DEF Init, OneOwner
  <1>2. OneOwner => AuthorityIsSpentOnce
    BY DEF OneOwner, AuthorityIsSpentOnce
  <1>3. TypeOK /\ OneOwner /\ [Next]_vars => OneOwner'
    BY OneOwnerKept
  <1> QED
    BY <1>1, <1>2, <1>3, TypeCorrect, PTL DEF SafeSpec

(* A reservation is new when its call posts it, or when it lands late.     *)
LEMMA ReservationStep ==
  ASSUME [Next]_vars, reservation' # reservation
  PROVE  landed' \/ \E d \in Calls : (Post(d) \/ PostFails(d)) /\ pc[d] = "post" /\ Newest(rec[d])
  <1>1. CASE UNCHANGED vars \/ Push \/ Tick \/ BeginChallenge \/ Confirm
    BY <1>1 DEF vars, Push, Tick, BeginChallenge, Confirm, slot
  <1>2. CASE Land
    BY <1>2 DEF Land
  <1>3. ASSUME NEW d \in Calls,
               \/ ReadPrior(d) \/ ReadChallenged(d) \/ Refuse(d) \/ PrepareFails(d) \/ Reread(d)
               \/ GiveBack(d) \/ Recheck(d) \/ Reconcile(d) \/ ReconcileFails(d)
               \/ PreflightFails(d) \/ Readback(d) \/ Cleanup(d) \/ Void(d) \/ Record(d) \/ End(d)
               \/ Recover(d)
        PROVE FALSE
    BY <1>3 DEF ReadPrior, ReadChallenged, Refuse, PrepareFails, Reread, GiveBack, Recheck,
       Reconcile, ReconcileFails, PreflightFails, Readback, Cleanup, Void, Record, End, Recover,
       PostReceipt, slot
  <1>4. ASSUME NEW d \in Calls, NEW a,
               Start(d, a) \/ Prepare(d, a) \/ Finalize(d, a) \/ Report(d, a)
        PROVE FALSE
    BY <1>4 DEF Start, Prepare, Finalize, Report, slot
  <1>5. ASSUME NEW d \in Calls, Post(d) \/ PostFails(d)
        PROVE pc[d] = "post" /\ Newest(rec[d])
    BY <1>5 DEF Post, PostFails, Goto, slot
  <1> QED
    BY <1>1, <1>2, <1>3, <1>4, <1>5 DEF Next

LEMMA LandedStays == [Next]_vars /\ landed => landed'
  <1> SUFFICES ASSUME [Next]_vars, landed PROVE landed'
    OBVIOUS
  <1>1. CASE UNCHANGED vars \/ Push \/ Tick \/ BeginChallenge \/ Confirm \/ Land
    BY <1>1 DEF vars, Push, Tick, BeginChallenge, Confirm, Land
  <1>2. ASSUME NEW d \in Calls,
               \/ ReadPrior(d) \/ ReadChallenged(d) \/ Refuse(d) \/ PrepareFails(d) \/ Reread(d)
               \/ GiveBack(d) \/ Post(d) \/ PostFails(d) \/ Recheck(d) \/ Reconcile(d)
               \/ ReconcileFails(d) \/ PreflightFails(d) \/ Readback(d) \/ Cleanup(d) \/ Void(d)
               \/ Record(d) \/ End(d) \/ Recover(d)
        PROVE UNCHANGED landed
    BY <1>2 DEF ReadPrior, ReadChallenged, Refuse, PrepareFails, Reread, GiveBack, Post, PostFails,
       Recheck, Reconcile, ReconcileFails, PreflightFails, Readback, Cleanup, Void, Record, End, Recover
  <1>3. ASSUME NEW d \in Calls, NEW a,
               Start(d, a) \/ Prepare(d, a) \/ Finalize(d, a) \/ Report(d, a)
        PROVE UNCHANGED landed
    BY <1>3 DEF Start, Prepare, Finalize, Report
  <1> QED
    BY <1>1, <1>2, <1>3 DEF Next

(* A pending record is the reservation, without a receipt.                 *)
LEMMA PendingIsHeld ==
  OwnIds => \A c \in Calls : OwnPending(c) <=> (reservation.id = c /\ receipts[c] = NoRecord)
  <1> SUFFICES ASSUME OwnIds, NEW c \in Calls
               PROVE  OwnPending(c) <=> (reservation.id = c /\ receipts[c] = NoRecord)
    OBVIOUS
  <1>1. CASE reservation.id \in Calls /\ receipts[reservation.id] # NoRecord
    <2>1. ReadRecord = receipts[reservation.id] /\ ReadRecord.status \in Terminal
      BY <1>1 DEF ReadRecord, OwnIds
    <2> QED
      BY <1>1, <2>1 DEF OwnPending, Terminal
  <1>2. CASE reservation.id \in Calls /\ receipts[reservation.id] = NoRecord
    <2>1. ReadRecord = reservation /\ reservation # NoRecord
      BY <1>2, CallAssumption DEF ReadRecord, NoRecord
    <2> QED
      BY <1>2, <2>1 DEF OwnPending, OwnIds, Requested
  <1>3. CASE reservation.id \notin Calls
    BY <1>3 DEF OwnPending, ReadRecord
  <1> QED
    BY <1>1, <1>2, <1>3

(* A reservation that is closed for its call stays closed, unless a POST   *)
(* lands late: only the call itself posts one.                             *)
LEMMA ClosedKept ==
  ASSUME TypeOK, OwnIds, [Next]_vars, NEW c \in Calls, Closed(c), pc[c] \in {"idle", "giveBack"}
  PROVE  Closed(c)'
  <1> SUFFICES ASSUME ~landed', OwnPending(c)' PROVE FALSE
    BY DEF Closed
  <1>1. OwnIds'
    BY OwnIdsKept
  <1>2. reservation'.id = c /\ receipts'[c] = NoRecord
    <2>1. ReadRecord'.status = "pending" /\ ReadRecord'.id = c
      BY DEF OwnPending
    <2>2. CASE reservation'.id \in Calls /\ receipts'[reservation'.id] # NoRecord
      <3>1. ReadRecord' = receipts'[reservation'.id]
        BY <2>2 DEF ReadRecord
      <3> QED
        BY <1>1, <2>1, <2>2, <3>1 DEF OwnIds, Terminal
    <2>3. CASE ~(reservation'.id \in Calls /\ receipts'[reservation'.id] # NoRecord)
      BY <2>1, <2>3 DEF ReadRecord
    <2> QED
      BY <2>2, <2>3
  <1>3. ~(reservation.id = c /\ receipts[c] = NoRecord)
    BY PendingIsHeld, LandedStays DEF Closed
  <1>4. CASE reservation' = reservation
    BY <1>2, <1>3, <1>4, ReceiptStep
  <1>5. CASE reservation' # reservation
    BY <1>2, <1>5, ReservationStep DEF Newest, OwnIds
  <1> QED
    BY <1>4, <1>5

LEMMA RefundsKept == TypeOK /\ OwnIds /\ Refunds /\ [Next]_vars => Refunds'
  <1> SUFFICES ASSUME TypeOK, OwnIds, Refunds, [Next]_vars, NEW c \in Calls
               PROVE /\ c \in refunded' => pc'[c] = "idle" /\ Closed(c)'
                     /\ pc'[c] = "giveBack" => Closed(c)'
    BY DEF Refunds
  <1> DEFINE Wait == (c \in refunded' => c \in refunded /\ pc'[c] = pc[c])
                     /\ (pc'[c] = "giveBack" => pc[c] = "giveBack")
  <1>0. \A d \in Calls : \A to : pc' = [pc EXCEPT ![d] = to] =>
          pc'[c] = IF c = d THEN to ELSE pc[c]
    BY DEF TypeOK
  <1>1. ASSUME Wait PROVE /\ c \in refunded' => pc'[c] = "idle" /\ Closed(c)'
                          /\ pc'[c] = "giveBack" => Closed(c)'
    BY <1>1, ClosedKept DEF Refunds
  <1>2. ASSUME UNCHANGED vars \/ Push \/ Tick \/ BeginChallenge \/ Confirm \/ Land PROVE Wait
    BY <1>2 DEF vars, Push, Tick, BeginChallenge, Confirm, Land, calls, authority
  <1>3. ASSUME NEW d \in Calls,
               \/ ReadPrior(d) \/ ReadChallenged(d) \/ Refuse(d) \/ PrepareFails(d) \/ Post(d)
               \/ PostFails(d) \/ Recheck(d) \/ ReconcileFails(d) \/ PreflightFails(d) \/ Readback(d)
               \/ Cleanup(d) \/ Record(d) \/ Recover(d) \/ End(d)
        PROVE Wait
    BY <1>0, <1>3 DEF ReadPrior, ReadChallenged, Refuse, PrepareFails, Post, PostFails, Recheck,
       ReconcileFails, PreflightFails, Readback, Cleanup, Record, Recover, End, Leave, Goto, Granted,
       NotGranted, calls, authority, Refunds
  <1>4. ASSUME NEW d \in Calls, NEW a, Start(d, a) \/ Prepare(d, a) \/ Finalize(d, a) \/ Report(d, a)
        PROVE Wait
    BY <1>0, <1>4 DEF Start, Prepare, Finalize, Report, Goto, authority, Refunds
  <1>5. ASSUME NEW d \in Calls, Reread(d) PROVE Wait \/ Closed(c)'
    <2>1. CASE c # d \/ Leave(d, "reread") \/ pc'[d] = "post"
      BY <1>0, <1>5, <2>1 DEF Reread, Leave, Goto, authority, Refunds
    <2>2. CASE c = d /\ pc[c] = "reread" /\ UNCHANGED slot
      <3>1. reservation'.id # c
        BY <2>2 DEF OwnIds, Unposted, slot
      <3>2. OwnIds'
        BY OwnIdsKept
      <3>3. ReadRecord'.id # c
        BY <3>1, <3>2 DEF ReadRecord, OwnIds
      <3> QED
        BY <3>3 DEF Closed, OwnPending
    <2> QED
      BY <1>5, <2>1, <2>2 DEF Reread, Leave, Goto
  <1>6. ASSUME NEW d \in Calls, Reconcile(d) PROVE Wait \/ Closed(c)'
    <2>1. CASE c # d \/ pc'[d] # "giveBack"
      BY <1>0, <1>6, <2>1 DEF Reconcile, Leave, Goto, authority, Refunds
    <2>2. CASE c = d /\ ReadRecord = NoRecord
      <3>1. ReadRecord' = NoRecord
        BY <1>6, <2>2 DEF Reconcile, ReadRecord, slot
      <3> QED
        BY <3>1 DEF Closed, OwnPending, NoRecord
    <2> QED
      BY <1>0, <1>6, <2>1, <2>2 DEF Reconcile, Leave, Goto
  <1>7. ASSUME NEW d \in Calls, Void(d) PROVE Wait \/ Closed(c)'
    <2>1. CASE c # d \/ pc'[d] # "giveBack"
      BY <1>0, <1>7, <2>1 DEF Void, Leave, Goto, authority, Refunds
    <2>2. CASE c = d /\ PostReceipt(d) /\ pc[d] = "void"
      <3>1. receipts'[c] = rec[c] /\ rec[c].status \in Terminal /\ UNCHANGED reservation
        BY <2>2 DEF PostReceipt, OwnIds, TypeOK
      <3>2. ~(reservation'.id = c /\ receipts'[c] = NoRecord)
        BY <3>1 DEF NoRecord, Terminal
      <3>3. OwnIds'
        BY OwnIdsKept
      <3> QED
        BY <3>2, <3>3 DEF Closed, OwnPending, ReadRecord, OwnIds, Terminal
    <2> QED
      BY <1>0, <1>7, <2>1, <2>2 DEF Void, Leave, Goto
  <1>8. ASSUME NEW d \in Calls, GiveBack(d)
        PROVE Wait \/ (c = d /\ pc[c] = "giveBack" /\ pc'[c] = "idle")
    BY <1>0, <1>8 DEF GiveBack, Leave, Goto
  <1>9. ASSUME pc[c] = "giveBack" PROVE Closed(c)'
    BY <1>9, ClosedKept DEF Refunds
  <1> DEFINE Goal == /\ c \in refunded' => pc'[c] = "idle" /\ Closed(c)'
                     /\ pc'[c] = "giveBack" => Closed(c)'
  <1>10. ASSUME NEW d \in Calls, Reread(d) \/ Reconcile(d) \/ Void(d) PROVE Goal
    <2>1. Wait \/ Closed(c)'
      BY <1>10, <1>5, <1>6, <1>7
    <2>2. refunded' = refunded
      BY <1>10 DEF Reread, Reconcile, Void, authority
    <2>3. CASE ~Wait
      <3>1. c = d /\ pc[c] # "idle"
        BY <1>0, <1>10, <2>2, <2>3 DEF Reread, Reconcile, Void, Leave, Goto
      <3> QED
        BY <2>1, <2>2, <2>3, <3>1 DEF Refunds
    <2> QED
      BY <1>1, <2>3
  <1>11. ASSUME NEW d \in Calls, GiveBack(d) PROVE Goal
    BY <1>1, <1>8, <1>9, <1>11
  <1> HIDE DEF Goal, Wait
  <1>12. ASSUME Wait PROVE Goal
    BY <1>1, <1>12 DEF Goal, Wait
  <1>13. Goal
    BY <1>2, <1>3, <1>4, <1>10, <1>11, <1>12 DEF Next
  <1> QED
    BY <1>13 DEF Goal

(* Whoever gave a preparation back holds no pending reservation.           *)
THEOREM RefundedClosed == SafeSpec => []RefundedIsClosed
  <1>1. Init => Refunds
    BY DEF Init, Refunds
  <1>2. Refunds /\ TypeOK => RefundedIsClosed
    BY DEF Refunds, RefundedIsClosed, Closed, TypeOK
  <1>3. (TypeOK /\ OwnIds) /\ Refunds /\ [Next]_vars => Refunds'
    BY RefundsKept
  <1> QED
    BY <1>1, <1>2, <1>3, IdsCorrect, PTL DEF SafeSpec

-----------------------------------------------------------------------------
(* One agent at a head *)

Undecided == Deciding \ {"giveBack"}
Active == {"preflight", "readback", "running"}
Holds(c) == reservation.id = c /\ receipts[c] = NoRecord

(* A young active call is the holder of the newest reservation, unless     *)
(* that one is for a newer head; so a call that was not refused finds only *)
(* old ones at its own.                                                    *)
NoneIsAhead == reservation.head <= head /\ \A c \in Calls : seen[c] <= head

YoungOnesHold ==
  \A c \in Calls :
    /\ pc[c] \in Undecided => reservation.head <= seen[c]
    /\ pc[c] \in Active => Holds(c) \/ reservation.head > seen[c] \/ begun[c] > Window

OneDecides ==
  \A c, d \in Calls :
    c # d => /\ ~(pc[c] \in Undecided /\ pc[d] \in Undecided)
             /\ pc[c] \in Active /\ seen[c] = seen[d] =>
                  /\ pc[d] \in {"post", "recheck", "reconcile"} => begun[c] > Window
                  /\ pc[d] \in Active => begun[c] > Window \/ begun[d] > Window

OneHolder == NoneIsAhead /\ YoungOnesHold /\ OneDecides

Alone == ~overlap /\ ~landed => OneHolder

Writing == {"post", "recheck", "reconcile"}

LEMMA HeadsAreNat == TypeOK => /\ head \in Nat /\ reservation.head \in Nat
                               /\ \A c \in Calls : seen[c] \in Nat /\ rec[c].head \in Nat
                               /\ Window \in Nat /\ begun \in [Calls -> Nat]
  <1> SUFFICES ASSUME TypeOK PROVE /\ head \in Nat /\ reservation.head \in Nat
                                   /\ \A c \in Calls : seen[c] \in Nat /\ rec[c].head \in Nat
                                   /\ Window \in Nat /\ begun \in [Calls -> Nat]
    OBVIOUS
  <1>1. Heads \cup {0} \subseteq Nat /\ Window \in Nat /\ Ages \subseteq Nat
    BY AllAssumptions DEF Assumptions, Ages
  <1>2. reservation \in Records /\ \A c \in Calls : rec[c] \in Records /\ seen[c] \in Heads
    BY DEF TypeOK
  <1> QED
    BY <1>1, <1>2, RecordFields DEF TypeOK

(* A call that neither takes up the decision nor the work disturbs none.   *)
LEMMA QuietStep ==
  ASSUME TypeOK, OneHolder, NEW c \in Calls, UNCHANGED <<head, reservation, seen, begun>>,
         \A d \in Calls \ {c} : pc'[d] = pc[d] /\ receipts'[d] = receipts[d],
         pc'[c] \in Undecided => pc[c] \in Undecided,
         pc'[c] \in Writing => pc[c] \in Writing,
         pc'[c] \in Active => pc[c] \in Active /\ receipts'[c] = receipts[c]
  PROVE  OneHolder'
  BY DEF OneHolder, NoneIsAhead, YoungOnesHold, OneDecides, Holds, Writing

(* A call that was not refused finds only old holders at its head.         *)
LEMMA OthersAreOld ==
  ASSUME TypeOK, OwnIds, OneHolder, NEW c \in Calls, pc[c] \in Undecided,
         ~(ReadRecord.head = seen[c] /\ LivePending(ReadRecord)),
         NEW d \in Calls, pc[d] \in Active, seen[d] = seen[c]
  PROVE  begun[d] > Window
  <1>1. Holds(d) \/ reservation.head > seen[d] \/ begun[d] > Window
    BY DEF OneHolder, YoungOnesHold
  <1>2. ~(reservation.head > seen[d])
    <2>1. reservation.head <= seen[c]
      BY DEF OneHolder, YoungOnesHold
    <2>2. seen[c] \in Nat /\ reservation.head \in Nat
      BY HeadsAreNat
    <2> QED
      BY <2>1, <2>2
  <1>3. CASE Holds(d)
    <2>1. ReadRecord = reservation
      BY <1>3 DEF Holds, ReadRecord
    <2>2. reservation # NoRecord
      BY <1>3, CallAssumption DEF Holds, NoRecord
    <2>3. reservation.id = d /\ reservation.status = "pending" /\ reservation.head = seen[c]
      BY <1>3, <2>2 DEF Holds, OwnIds, Requested
    <2> QED
      BY <2>1, <2>3 DEF LivePending, Stale
  <1> QED
    BY <1>1, <1>2, <1>3

LEMMA OverlapStays == [Next]_vars /\ overlap => overlap'
  <1> SUFFICES ASSUME [Next]_vars, overlap PROVE overlap'
    OBVIOUS
  <1>1. CASE UNCHANGED vars \/ Push \/ Tick \/ BeginChallenge \/ Confirm \/ Land
    BY <1>1 DEF vars, Push, Tick, BeginChallenge, Confirm, Land
  <1>2. ASSUME NEW d \in Calls,
               \/ ReadPrior(d) \/ ReadChallenged(d) \/ Refuse(d) \/ PrepareFails(d) \/ Reread(d)
               \/ GiveBack(d) \/ Post(d) \/ PostFails(d) \/ Recheck(d) \/ Reconcile(d)
               \/ ReconcileFails(d) \/ PreflightFails(d) \/ Readback(d) \/ Cleanup(d) \/ Void(d)
               \/ Record(d) \/ End(d) \/ Recover(d)
        PROVE UNCHANGED overlap
    BY <1>2 DEF ReadPrior, ReadChallenged, Refuse, PrepareFails, Reread, GiveBack, Post, PostFails,
       Recheck, Reconcile, ReconcileFails, PreflightFails, Readback, Cleanup, Void, Record, End, Recover
  <1>3. ASSUME NEW d \in Calls, NEW claims \in BOOLEAN, Start(d, claims) PROVE overlap'
    BY <1>3 DEF Start
  <1>4. ASSUME NEW d \in Calls, NEW a, Prepare(d, a) \/ Finalize(d, a) \/ Report(d, a)
        PROVE UNCHANGED overlap
    BY <1>4 DEF Prepare, Finalize, Report
  <1> QED
    BY <1>1, <1>2, <1>3, <1>4 DEF Next

LEMMA AloneKept == TypeOK /\ OwnIds /\ Alone /\ [Next]_vars => Alone'
  <1> SUFFICES ASSUME TypeOK, OwnIds, OneHolder, [Next]_vars, ~overlap', ~landed' PROVE OneHolder'
    BY OverlapStays, LandedStays DEF Alone
  <1>0. /\ \A d \in Calls : \A to : pc' = [pc EXCEPT ![d] = to] =>
             \A c \in Calls : pc'[c] = IF c = d THEN to ELSE pc[c]
        /\ receipts \in [Calls -> Records] /\ seen \in [Calls -> Heads] /\ begun \in [Calls -> Ages]
    BY DEF TypeOK
  <1>1. CASE UNCHANGED vars \/ BeginChallenge \/ Confirm
    BY <1>1 DEF vars, BeginChallenge, Confirm, slot, clocks, calls, OneHolder, NoneIsAhead, YoungOnesHold, OneDecides, Holds
  <1>2. CASE Push
    BY <1>2, HeadsAreNat DEF Push, slot, clocks, calls, OneHolder, NoneIsAhead, YoungOnesHold, OneDecides, Holds
  <1>3. CASE Land
    BY <1>3 DEF Land, clocks, calls, OneHolder, NoneIsAhead, YoungOnesHold, OneDecides, Holds
  <1>4. CASE Tick
    <2>1. \A c \in Calls : begun[c] > Window => begun'[c] > Window
      BY <1>4 DEF Tick, Older
    <2> QED
      BY <1>4, <2>1 DEF Tick, slot, calls, OneHolder, NoneIsAhead, YoungOnesHold, OneDecides, Holds
  <1>5. ASSUME NEW c \in Calls, NEW claims \in BOOLEAN, Start(c, claims) PROVE OneHolder'
    <2>1. \A d \in Calls \ {c} : pc[d] \notin Undecided
      BY <1>5 DEF Start, Undecided
    <2>2. pc'[c] = "read" /\ \A d \in Calls \ {c} : pc'[d] = pc[d]
      <3>1. pc' = [pc EXCEPT ![c] = "read"]
        BY <1>5 DEF Start, Goto
      <3>2. \A d \in Calls : pc'[d] = IF d = c THEN "read" ELSE pc[d]
        BY <3>1, <1>0
      <3> QED
        BY <3>2
    <2>3. /\ seen'[c] = head
          /\ \A d \in Calls \ {c} :
               seen'[d] = seen[d] /\ begun'[d] = begun[d] /\ receipts'[d] = receipts[d]
          /\ UNCHANGED <<head, reservation>>
      BY <1>0, <1>5 DEF Start
    <2> QED
      BY <2>1, <2>2, <2>3, HeadsAreNat DEF OneHolder, NoneIsAhead, YoungOnesHold, OneDecides, Holds, Undecided, Deciding, Active
  <1>6. ASSUME NEW c \in Calls, ReadPrior(c) \/ Reread(c), pc'[c] = "post" PROVE OneHolder'
    <2>0. /\ pc[c] \in {"read", "reread"} /\ pc' = [pc EXCEPT ![c] = "post"] /\ Reserve(c)
          /\ UNCHANGED <<head, reservation, receipts, seen>>
          /\ ~(ReadRecord.head = seen[c] /\ LivePending(ReadRecord))
      <3>1. CASE ReadPrior(c)
        BY <3>1 DEF ReadPrior, Refused, Goto, slot
      <3>2. CASE Reread(c)
        BY <1>0, <1>6, <3>2 DEF Reread, Leave, Goto, slot
      <3> QED
        BY <1>6, <3>1, <3>2
    <2>1. /\ pc[c] \in Undecided
          /\ \A d \in Calls \ {c} : pc'[d] = pc[d] /\ begun'[d] = begun[d]
      BY <1>0, <2>0 DEF Reserve, Undecided, Deciding
    <2>2. \A d \in Calls : pc[d] \in Active /\ seen[d] = seen[c] => begun[d] > Window
      BY <2>0, <2>1, OthersAreOld
    <2> QED
      BY <1>6, <2>0, <2>1, <2>2 DEF OneHolder, NoneIsAhead, YoungOnesHold, OneDecides, Holds, Undecided, Deciding, Active
  <1>7. ASSUME NEW c \in Calls, Post(c) \/ PostFails(c), Newest(rec[c]) PROVE OneHolder'
    <2>1. /\ pc[c] = "post" /\ pc'[c] \in {"preflight", "running", "recheck"}
          /\ \A d \in Calls \ {c} : pc'[d] = pc[d]
          /\ UNCHANGED <<head, seen, begun>>
      BY <1>0, <1>7 DEF Post, PostFails, Goto, Granted, clocks
    <2>2. reservation'.id = c /\ reservation'.head = seen[c] /\ \A d \in Calls : receipts'[d] = NoRecord
      BY <1>7, <2>1 DEF Newest, OwnIds, Requested
    <2>3. \A d \in Calls \ {c} : pc[d] \notin Undecided
      BY <2>1 DEF OneHolder, OneDecides, Undecided, Deciding
    <2>4. \A d \in Calls \ {c} :
            pc[d] \in Active => reservation'.head > seen[d] \/ begun[d] > Window
      <3> SUFFICES ASSUME NEW d \in Calls \ {c}, pc[d] \in Active, ~(begun[d] > Window)
                   PROVE  seen[c] > seen[d]
        BY <2>2
      <3>1. seen[d] # seen[c]
        BY <2>1 DEF OneHolder, OneDecides
      <3>2. reservation.head <= seen[c]
        BY <2>1 DEF OneHolder, YoungOnesHold, Undecided, Deciding
      <3>3. reservation.head >= seen[d]
        <4>1. Holds(d) => reservation # NoRecord
          BY CallAssumption DEF Holds, NoRecord
        <4>2. Holds(d) => reservation.head = seen[d]
          BY <4>1 DEF Holds, OwnIds, Requested
        <4> QED
          BY <4>2, HeadsAreNat DEF OneHolder, YoungOnesHold
      <3> QED
        BY <3>1, <3>2, <3>3, HeadsAreNat
    <2>5. \A d \in Calls \ {c} : pc[d] \in Active /\ seen[d] = seen[c] => begun[d] > Window
      BY <2>1 DEF OneHolder, OneDecides
    <2>6. \A d \in Calls : pc'[d] \in Undecided => d = c
      BY <2>1, <2>3
    <2>7. \A d \in Calls : pc'[d] \in Active => d = c \/ pc[d] \in Active
      BY <2>1
    <2>8. reservation'.head <= head' /\ \A d \in Calls : seen'[d] <= head'
      BY <2>1, <2>2 DEF OneHolder, NoneIsAhead
    <2>9. \A d \in Calls :
            /\ pc'[d] \in Undecided => reservation'.head <= seen'[d]
            /\ pc'[d] \in Active =>
                 Holds(d)' \/ reservation'.head > seen'[d] \/ begun'[d] > Window
      BY <2>1, <2>2, <2>4, <2>6, <2>7, HeadsAreNat DEF Holds
    <2>10. \A d, e \in Calls : d # e =>
             /\ ~(pc'[d] \in Undecided /\ pc'[e] \in Undecided)
             /\ pc'[d] \in Active /\ seen'[d] = seen'[e] =>
                  /\ pc'[e] \in {"post", "recheck", "reconcile"} => begun'[d] > Window
                  /\ pc'[e] \in Active => begun'[d] > Window \/ begun'[e] > Window
      <3>1. \A e \in Calls : pc'[e] \in {"post", "recheck", "reconcile"} => e = c
        BY <2>6 DEF Undecided, Deciding
      <3>2. \A d \in Calls \ {c} : pc'[d] \in Active /\ seen'[d] = seen'[c] => begun'[d] > Window
        BY <2>1, <2>5, <2>7
      <3>3. \A d, e \in Calls \ {c} :
              d # e /\ pc'[d] \in Active /\ pc'[e] \in Active /\ seen'[d] = seen'[e] =>
                begun'[d] > Window \/ begun'[e] > Window
        BY <2>1 DEF OneHolder, OneDecides
      <3>4. ASSUME NEW d \in Calls, NEW e \in Calls, d # e, pc'[d] \in Active, pc'[e] \in Active,
                   seen'[d] = seen'[e]
            PROVE  begun'[d] > Window \/ begun'[e] > Window
        BY <3>2, <3>3, <3>4
      <3>5. ASSUME NEW d \in Calls, NEW e \in Calls, d # e, pc'[d] \in Active,
                   pc'[e] \in {"post", "recheck", "reconcile"}, seen'[d] = seen'[e]
            PROVE  begun'[d] > Window
        BY <3>1, <3>2, <3>5
      <3> QED
        BY <2>6, <3>4, <3>5
    <2>11. NoneIsAhead'
      BY <2>8 DEF NoneIsAhead
    <2>12. YoungOnesHold'
      BY <2>9 DEF YoungOnesHold
    <2>13. OneDecides'
      <3> SUFFICES ASSUME NEW d \in Calls, NEW e \in Calls, d # e
                   PROVE  /\ ~(pc'[d] \in Undecided /\ pc'[e] \in Undecided)
                          /\ pc'[d] \in Active /\ seen'[d] = seen'[e] =>
                               /\ pc'[e] \in {"post", "recheck", "reconcile"} => begun'[d] > Window
                               /\ pc'[e] \in Active => begun'[d] > Window \/ begun'[e] > Window
        BY DEF OneDecides
      <3> QED
        BY <2>10
    <2> QED
      BY <2>11, <2>12, <2>13 DEF OneHolder
  <1>8. ASSUME NEW c \in Calls, pc[c] \in Writing, Holds(c), UNCHANGED <<head, reservation, receipts, seen, begun>>,
               pc'[c] \in Active, \A d \in Calls \ {c} : pc'[d] = pc[d]
        PROVE OneHolder'
    BY <1>8 DEF OneHolder, NoneIsAhead, YoungOnesHold, OneDecides, Holds, Writing, Active, Undecided, Deciding
  <1>9. ASSUME NEW c \in Calls, ReadRecord = rec[c], pc[c] = "recheck" PROVE Holds(c)
    BY <1>9, PendingIsHeld DEF OwnIds, Requested, OwnPending, Holds
  <1>10. ASSUME NEW c \in Calls, Recheck(c), pc'[c] \in Active PROVE OneHolder'
    BY <1>0, <1>8, <1>9, <1>10 DEF Recheck, Goto, NotGranted, Writing, Active, slot, clocks
  <1>11. ASSUME NEW c \in Calls, Reconcile(c), pc'[c] \in Active PROVE OneHolder'
    <2>1. OwnPending(c) /\ pc[c] = "reconcile"
      BY <1>0, <1>11 DEF Reconcile, Leave, Goto, Active
    <2>2. Holds(c)
      BY <2>1, PendingIsHeld DEF Holds
    <2> QED
      BY <1>0, <1>8, <1>11, <2>1, <2>2 DEF Reconcile, Leave, Goto, Writing, slot, clocks
  <1>12. ASSUME NEW c \in Calls,
                \/ ReadChallenged(c) \/ Refuse(c) \/ PrepareFails(c) \/ GiveBack(c)
                \/ ReconcileFails(c) \/ PreflightFails(c) \/ Readback(c) \/ Cleanup(c) \/ End(c)
         PROVE OneHolder'
    <2>1. /\ UNCHANGED <<head, reservation, seen, begun, receipts>>
          /\ \A d \in Calls \ {c} : pc'[d] = pc[d]
      BY <1>0, <1>12 DEF ReadChallenged, Refuse, PrepareFails, GiveBack, ReconcileFails,
         PreflightFails, Readback, Cleanup, End, Leave, Goto, slot, clocks
    <2>2. /\ pc'[c] \in Undecided => pc[c] \in Undecided
          /\ pc'[c] \in Writing => pc[c] \in Writing
          /\ pc'[c] \in Active => pc[c] \in Active
      BY <1>0, <1>12 DEF ReadChallenged, Refuse, PrepareFails, GiveBack, ReconcileFails,
         PreflightFails, Readback, Cleanup, End, Leave, Goto, Undecided, Deciding, Writing, Active
    <2> QED
      BY <2>1, <2>2, QuietStep
  <1>13. ASSUME NEW c \in Calls, NEW to, Prepare(c, to) \/ Finalize(c, to) \/ Report(c, to)
         PROVE OneHolder'
    <2>1. /\ UNCHANGED <<head, reservation, seen, begun, receipts>>
          /\ \A d \in Calls \ {c} : pc'[d] = pc[d]
      BY <1>0, <1>13 DEF Prepare, Finalize, Report, Goto, slot, clocks
    <2>2. \/ pc[c] = "prepare" /\ pc'[c] \in {"reread", "idle"}
          \/ pc[c] = "preflight" /\ pc'[c] \in {"readback", "cleanup"}
          \/ pc'[c] = "record"
      BY <1>0, <1>13 DEF Prepare, Finalize, Report, Goto
    <2>3. /\ pc'[c] \in Undecided => pc[c] \in Undecided
          /\ pc'[c] \in Writing => pc[c] \in Writing
          /\ pc'[c] \in Active => pc[c] \in Active
      BY <2>2 DEF Undecided, Deciding, Writing, Active
    <2> QED
      BY <2>1, <2>3, QuietStep
  <1>14. ASSUME NEW c \in Calls, Void(c) \/ Record(c) PROVE OneHolder'
    <2>1. UNCHANGED <<head, reservation, seen, begun>>
      BY <1>14 DEF Void, Record, PostReceipt, slot, clocks
    <2>2. pc'[c] \in {"giveBack", "idle", "reported"}
      BY <1>0, <1>14 DEF Void, Record, Leave, Goto
    <2> QED
      BY <1>14, <2>1, <2>2, ReceiptWritten, QuietStep DEF Undecided, Deciding, Writing, Active
  <1>15. ASSUME NEW c \in Calls,
                \/ (ReadPrior(c) \/ Reread(c)) /\ pc'[c] # "post"
                \/ (Recheck(c) \/ Reconcile(c)) /\ pc'[c] \notin Active
                \/ PostFails(c) /\ ~Newest(rec[c])
         PROVE OneHolder'
    <2>1. /\ UNCHANGED <<head, reservation, seen, begun, receipts>>
          /\ \A d \in Calls \ {c} : pc'[d] = pc[d]
          /\ pc'[c] \notin Active
          /\ \/ pc[c] \in {"recheck", "reconcile", "post"}
             \/ pc'[c] \in {"giveBack", "idle"}
      <3>1. CASE ReadPrior(c) /\ pc'[c] # "post"
        BY <1>0, <3>1 DEF ReadPrior, Goto
      <3>2. CASE Reread(c) /\ pc'[c] # "post"
        BY <1>0, <3>2 DEF Reread, Leave, Goto, slot, Active
      <3>3. CASE (Recheck(c) \/ Reconcile(c)) /\ pc'[c] \notin Active
        BY <1>0, <3>3 DEF Recheck, Reconcile, Leave, Goto, slot, clocks
      <3>4. CASE PostFails(c) /\ ~Newest(rec[c])
        BY <1>0, <3>4 DEF PostFails, Goto, slot, clocks, Active
      <3> QED
        BY <1>15, <3>1, <3>2, <3>3, <3>4
    <2> QED
      BY <2>1, QuietStep DEF Undecided, Deciding, Writing
  <1>17. ASSUME NEW c \in Calls, Post(c) PROVE Newest(rec[c])
    BY <1>17 DEF Post
  <1>16. ASSUME NEW c \in Calls, Recover(c) PROVE OneHolder'
    BY <1>16 DEF Recover, slot, clocks, calls, OneHolder, NoneIsAhead, YoungOnesHold, OneDecides, Holds
  <1> QED
    BY <1>1, <1>2, <1>3, <1>4, <1>5, <1>12, <1>13, <1>14, <1>15, <1>16, <1>17,
       <1>6, <1>7, <1>10, <1>11 DEF Next

(* While no call begins during another's decision and no POST lands late,  *)
(* two agents are at one head only when one has held it past the window.   *)
THEOREM OneAgentAtAHead == SafeSpec => []LoneRunner
  <1>1. Init => Alone
    <2> SUFFICES ASSUME Init PROVE OneHolder
      BY DEF Alone
    <2>1. /\ head = 1 /\ reservation.head = 0 /\ \A c \in Calls : seen[c] = 1 /\ pc[c] = "idle"
      BY DEF Init, NoRecord
    <2> QED
      BY <2>1 DEF OneHolder, NoneIsAhead, YoungOnesHold, OneDecides, Undecided, Deciding, Active
  <1>2. Alone => LoneRunner
    BY DEF Alone, OneHolder, OneDecides, LoneRunner, Active
  <1>3. (TypeOK /\ OwnIds) /\ Alone /\ [Next]_vars => Alone'
    BY AloneKept
  <1> QED
    BY <1>1, <1>2, <1>3, IdsCorrect, PTL DEF SafeSpec
=============================================================================
