-------------------------- MODULE ResearchRequests --------------------------
(***************************************************************************)
(* The log of requests to research a work further.  A request is appended  *)
(* by rewriting the whole log without its expired records, under a file    *)
(* lock; viewers read it under the same lock.  The time stamp of a record  *)
(* and the cutoff of a reader are taken before the lock is, the cutoff of  *)
(* a writer after.                                                         *)
(***************************************************************************)
EXTENDS Naturals

CONSTANTS Threads,
          NoOne,      \* the owner of a free lock
          Requests,   \* what viewers ask for, each at most once
          Ttl,        \* RESEARCH_REQUEST_TTL_DAYS
          MaxTime,    \* bound: time passes so often
          MayFail     \* may reads and writes fail, and the server restart?

ResearchAssumption == NoOne \notin Threads /\ Ttl \in Nat /\ MaxTime \in Nat

VARIABLES log,       \* the records: a time stamp for each request in it
          now, lock, pc,
          asked,     \* the request each thread stores, or looks for
          cutoff,    \* the time that a reader's cutoff belongs to
          active,    \* the records it read
          made,      \* the time stamp of every request that was made
          accepted   \* history: requests that were answered with ok

vars == <<log, now, lock, pc, asked, cutoff, active, made, accepted>>

(* 0 stands for a request that is not in the log; time begins at 1. *)
Times == 0..(MaxTime + 1)
Empty == [r \in Requests |-> 0]

Init ==
  /\ log = Empty
  /\ now = 1
  /\ lock = NoOne
  /\ pc = [t \in Threads |-> "idle"]
  /\ asked \in {[t \in Threads |-> r] : r \in Requests}
  /\ cutoff = [t \in Threads |-> 0]
  /\ active = [t \in Threads |-> Empty]
  /\ made = Empty
  /\ accepted = {}

Goto(t, from, to) == pc[t] = from /\ pc' = [pc EXCEPT ![t] = to]

Expired(ts, at) == ts + Ttl < at

(* _active_research_requests, for the cutoff that belongs to a time. *)
Active(at) == [r \in Requests |-> IF Expired(log[r], at) THEN 0 ELSE log[r]]

(* request_research stamps its record, then waits for the lock. *)
Ask(t, r) ==
  /\ made[r] = 0
  /\ Goto(t, "idle", "lock")
  /\ asked' = [asked EXCEPT ![t] = r]
  /\ made' = [made EXCEPT ![r] = now]
  /\ UNCHANGED <<log, now, lock, cutoff, active, accepted>>

(* _open_research_request takes its cutoff before it waits for the lock. *)
Look(t, r) ==
  /\ Goto(t, "idle", "lookLock")
  /\ asked' = [asked EXCEPT ![t] = r]
  /\ cutoff' = [cutoff EXCEPT ![t] = now]
  /\ UNCHANGED <<log, now, lock, active, made, accepted>>

(* with _sidecar_file_lock(RESEARCH_REQUESTS) *)
Lock(t) ==
  /\ Goto(t, "lock", "read") \/ Goto(t, "lookLock", "look")
  /\ lock = NoOne
  /\ lock' = t
  /\ UNCHANGED <<log, now, asked, cutoff, active, made, accepted>>

Read(t) ==
  /\ \/ Goto(t, "read", "replace") /\ active' = [active EXCEPT ![t] = Active(now)]
     \/ Goto(t, "look", "found") /\ active' = [active EXCEPT ![t] = Active(cutoff[t])]
  /\ UNCHANGED <<log, now, lock, asked, cutoff, made, accepted>>

(* Mutant: a log that cannot be read counts as empty. *)
FailsEmpty(t) ==
  /\ MayFail
  /\ Goto(t, "read", "replace")
  /\ active' = [active EXCEPT ![t] = Empty]
  /\ UNCHANGED <<log, now, lock, asked, cutoff, made, accepted>>

(* 503: the log could not be read or rewritten, and is as it was. *)
Fails(t) ==
  /\ MayFail
  /\ \E from \in {"read", "look", "replace"} : Goto(t, from, "unlock")
  /\ UNCHANGED <<log, now, lock, asked, cutoff, active, made, accepted>>

(* _replace_research_requests: a temporary file, then a rename. *)
Replace(t) ==
  /\ Goto(t, "replace", "replaced")
  /\ log' = [active[t] EXCEPT ![asked[t]] = made[asked[t]]]
  /\ UNCHANGED <<now, lock, asked, cutoff, active, made, accepted>>

Forget(S) ==
  /\ cutoff' = [t \in Threads |-> IF t \in S THEN 0 ELSE cutoff[t]]
  /\ active' = [t \in Threads |-> IF t \in S THEN Empty ELSE active[t]]

(* The end of the with-block; a writer then answers ok. *)
Unlock(t) ==
  /\ \/ Goto(t, "replaced", "idle") /\ accepted' = accepted \cup {asked[t]}
     \/ \E from \in {"found", "unlock"} : Goto(t, from, "idle") /\ UNCHANGED accepted
  /\ lock' = NoOne
  /\ Forget({t})
  /\ UNCHANGED <<log, now, asked, made>>

(* The server is restarted: the kernel drops its locks. *)
Restart ==
  /\ MayFail
  /\ \E t \in Threads : pc[t] # "idle"
  /\ pc' = [t \in Threads |-> "idle"]
  /\ lock' = NoOne
  /\ Forget(Threads)
  /\ UNCHANGED <<log, now, asked, made, accepted>>

TimePasses ==
  /\ now <= MaxTime
  /\ now' = now + 1
  /\ UNCHANGED <<log, lock, pc, asked, cutoff, active, made, accepted>>

Next ==
  \/ Restart \/ TimePasses
  \/ \E t \in Threads :
       \/ \E r \in Requests : Ask(t, r) \/ Look(t, r)
       \/ Lock(t) \/ Read(t) \/ Fails(t) \/ Replace(t) \/ Unlock(t)

Spec == Init /\ [][Next]_vars

-----------------------------------------------------------------------------
(* Properties *)

Locked == {"read", "look", "replace", "replaced", "found", "unlock"}

(* The shape of every variable. *)
TypeOK ==
  /\ log \in [Requests -> Times] /\ made \in [Requests -> Times] /\ now \in Times
  /\ lock \in Threads \cup {NoOne}
  /\ pc \in [Threads -> Locked \cup {"idle", "lock", "lookLock"}]
  /\ asked \in [Threads -> Requests]
  /\ cutoff \in [Threads -> Times]
  /\ active \in [Threads -> [Requests -> Times]]
  /\ accepted \subseteq Requests

Open(r) == r \in accepted /\ ~Expired(made[r], now)

(* request_research's docstring, "Record that a viewer wants this work     *)
(* researched further", and expires_days in its answer: a request that was *)
(* answered with ok stays in the log, and is found by whoever looks for    *)
(* it, until it expires, however many rewrite and compact the log, are     *)
(* kept waiting, fail, or end with the server.                             *)
AcceptedSurvives ==
  /\ \A r \in Requests : Open(r) => log[r] = made[r]
  /\ \A t \in Threads : pc[t] = "found" /\ Open(asked[t]) => active[t][asked[t]] # 0
=============================================================================
