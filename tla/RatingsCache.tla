---------------------------- MODULE RatingsCache ----------------------------
(***************************************************************************)
(* The caches over the ratings log that API threads share without a lock:  *)
(* the store's event list, its signature and its index by work, three      *)
(* module variables assigned one after another, and the e-ink scores, one  *)
(* pair assigned at once.  The log only grows, so a state of it is its     *)
(* length; a file of length 0 is a file that is missing, and its           *)
(* signature, None in the code, is 0.                                      *)
(***************************************************************************)
EXTENDS Naturals

CONSTANTS Threads,   \* API threads
          Calls,     \* what they are asked: a subset of AllCalls
          MaxLog,    \* bound: ratings given in a behaviour
          None       \* a variable that caches nothing

AllCalls == {"rate", "index", "total", "scores"}

CallAssumption == Calls \subseteq AllCalls
LogAssumption == MaxLog \in Nat \ {0}
NoneAssumption == None \notin 0..MaxLog

VARIABLES log,      \* ratings_log.jsonl
          cache,    \* _RATINGS_CACHE
          index,    \* _RATINGS_BY_WORK
          sig,      \* _RATINGS_SIGNATURE
          scores,   \* main._ratings_cache: <<signature, events>>
          pc,       \* where each thread is
          ret,      \* what its call of _load_ratings returns to
          stat,     \* the signature it took
          got,      \* the events it holds
          floor,    \* how many ratings there were when its call began
          alone,    \* has its call run without any other so far?
          calm      \* was the last rating given, and all asked since, one at a time?

shared == <<log, cache, index, sig, scores>>
vars == <<shared, pc, ret, stat, got, floor, alone, calm>>

Lengths == 0..MaxLog
Maybe == Lengths \cup {None}

Init ==
  /\ log \in {0, 1}
  /\ cache = None
  /\ index = None
  /\ sig = 0
  /\ scores = None
  /\ pc = [t \in Threads |-> "idle"]
  /\ ret = [t \in Threads |-> "total"]
  /\ stat = [t \in Threads |-> 0]
  /\ got = [t \in Threads |-> 0]
  /\ floor = [t \in Threads |-> 0]
  /\ alone = [t \in Threads |-> TRUE]
  /\ calm = TRUE

Goto(t, from, to) == pc[t] = from /\ pc' = [pc EXCEPT ![t] = to]

Idle(S) == \A t \in S : pc[t] = "idle"

LoadFor(t, caller) == ret' = [ret EXCEPT ![t] = caller]

EntryOf(call) ==
  CASE call = "rate" -> "clear1" [] call = "scores" -> "statScores" [] OTHER -> "stat"

(* A request; rate_work's begins with the append to the log.  What it      *)
(* answers must count every rating given so far.                           *)
Begin(t, call) ==
  /\ call = "rate" => log < MaxLog
  /\ Goto(t, "idle", EntryOf(call))
  /\ LoadFor(t, IF call \in {"total", "scores"} THEN call ELSE "first")
  /\ log' = IF call = "rate" THEN log + 1 ELSE log
  /\ floor' = [floor EXCEPT ![t] = log']
  /\ alone' = [u \in Threads |-> IF u = t THEN Idle(Threads \ {t}) ELSE pc[u] = "idle"]
  /\ calm' = (Idle(Threads) /\ (call = "rate" \/ calm))
  /\ UNCHANGED <<cache, index, sig, scores, stat, got>>

(* invalidate_ratings_cache: three assignments. *)
ClearCache(t) ==
  /\ Goto(t, "clear1", "clear2")
  /\ cache' = None
  /\ UNCHANGED <<log, index, sig, scores, ret, stat, got, floor, alone, calm>>

ClearIndex(t) ==
  /\ Goto(t, "clear2", "clear3")
  /\ index' = None
  /\ UNCHANGED <<log, cache, sig, scores, ret, stat, got, floor, alone, calm>>

ClearSignature(t) ==
  /\ Goto(t, "clear3", "stat")
  /\ sig' = 0
  /\ UNCHANGED <<log, cache, index, scores, ret, stat, got, floor, alone, calm>>

(* _load_ratings: a missing file is an empty list, whatever is cached. *)
Stat(t) ==
  /\ Goto(t, "stat", IF log = 0 THEN "set1" ELSE "check")
  /\ stat' = [stat EXCEPT ![t] = log]
  /\ got' = [got EXCEPT ![t] = 0]
  /\ UNCHANGED <<shared, ret, floor, alone, calm>>

Check(t) ==
  /\ Goto(t, "check", IF cache # None /\ sig = stat[t] THEN "hit" ELSE "read")
  /\ UNCHANGED <<shared, ret, stat, got, floor, alone, calm>>

ReturnPoint(t) ==
  CASE ret[t] = "total" -> "done" [] ret[t] = "first" -> "lookup" [] OTHER -> "group"

(* return _RATINGS_CACHE: the variable is read again. *)
Hit(t) ==
  /\ Goto(t, "hit", ReturnPoint(t))
  /\ got' = [got EXCEPT ![t] = cache]
  /\ UNCHANGED <<shared, ret, stat, floor, alone, calm>>

ReadLog(t) ==
  /\ Goto(t, "read", "set1")
  /\ got' = [got EXCEPT ![t] = log]
  /\ UNCHANGED <<shared, ret, stat, floor, alone, calm>>

SetCache(t) ==
  /\ Goto(t, "set1", "set2")
  /\ cache' = got[t]
  /\ UNCHANGED <<log, index, sig, scores, ret, stat, got, floor, alone, calm>>

(* Mutant: a reload leaves the index alone. *)
ResetIndexNot(t) ==
  /\ Goto(t, "set2", "set3")
  /\ UNCHANGED <<shared, ret, stat, got, floor, alone, calm>>

ResetIndex(t) ==
  /\ Goto(t, "set2", "set3")
  /\ index' = None
  /\ UNCHANGED <<log, cache, sig, scores, ret, stat, got, floor, alone, calm>>

SetSignature(t) ==
  /\ Goto(t, "set3", ReturnPoint(t))
  /\ sig' = stat[t]
  /\ UNCHANGED <<log, cache, index, scores, ret, stat, got, floor, alone, calm>>

(* _ratings_by_work, after its first _load_ratings. *)
LookupIndex(t) ==
  /\ Goto(t, "lookup", IF index # None THEN "hitIndex" ELSE "stat")
  /\ LoadFor(t, "second")
  /\ UNCHANGED <<shared, stat, got, floor, alone, calm>>

(* return _RATINGS_BY_WORK: the variable is read again. *)
HitIndex(t) ==
  /\ Goto(t, "hitIndex", "done")
  /\ got' = [got EXCEPT ![t] = index]
  /\ UNCHANGED <<shared, ret, stat, floor, alone, calm>>

(* for ev in _load_ratings(): TypeError when it returned None. *)
Group(t) ==
  /\ Goto(t, "group", IF got[t] = None THEN "done" ELSE "keep")
  /\ UNCHANGED <<shared, ret, stat, got, floor, alone, calm>>

KeepIndex(t) ==
  /\ Goto(t, "keep", "done")
  /\ index' = got[t]
  /\ UNCHANGED <<log, cache, sig, scores, ret, stat, got, floor, alone, calm>>

(* _cached_ratings *)
StatScores(t) ==
  /\ Goto(t, "statScores", "checkScores")
  /\ stat' = [stat EXCEPT ![t] = log]
  /\ UNCHANGED <<shared, ret, got, floor, alone, calm>>

CheckScores(t) ==
  /\ Goto(t, "checkScores",
          IF scores = None THEN "readScores"
          ELSE IF scores[1] # stat[t] THEN "readScores" ELSE "hitScores")
  /\ UNCHANGED <<shared, ret, stat, got, floor, alone, calm>>

ReadScores(t) ==
  /\ Goto(t, "readScores", "setScores")
  /\ got' = [got EXCEPT ![t] = log]
  /\ UNCHANGED <<shared, ret, stat, floor, alone, calm>>

SetScores(t) ==
  /\ Goto(t, "setScores", "hitScores")
  /\ scores' = <<stat[t], got[t]>>
  /\ UNCHANGED <<log, cache, index, sig, ret, stat, got, floor, alone, calm>>

HitScores(t) ==
  /\ Goto(t, "hitScores", "done")
  /\ got' = [got EXCEPT ![t] = scores[2]]
  /\ UNCHANGED <<shared, ret, stat, floor, alone, calm>>

Answer(t) ==
  /\ Goto(t, "done", "idle")
  /\ stat' = [stat EXCEPT ![t] = 0]
  /\ got' = [got EXCEPT ![t] = 0]
  /\ floor' = [floor EXCEPT ![t] = 0]
  /\ UNCHANGED <<shared, ret, alone, calm>>

(* The log is written by another process, which invalidates nothing here. *)
GrowOutside ==
  /\ log < MaxLog
  /\ log' = log + 1
  /\ calm' = Idle(Threads)
  /\ UNCHANGED <<cache, index, sig, scores, pc, ret, stat, got, floor, alone>>

Next ==
  \/ GrowOutside
  \/ \E t \in Threads :
    \/ \E call \in Calls : Begin(t, call)
    \/ ClearCache(t) \/ ClearIndex(t) \/ ClearSignature(t)
    \/ Stat(t) \/ Check(t) \/ Hit(t) \/ ReadLog(t)
    \/ SetCache(t) \/ ResetIndex(t) \/ SetSignature(t)
    \/ LookupIndex(t) \/ HitIndex(t) \/ Group(t) \/ KeepIndex(t)
    \/ StatScores(t) \/ CheckScores(t) \/ ReadScores(t) \/ SetScores(t) \/ HitScores(t)
    \/ Answer(t)

Spec == Init /\ [][Next]_vars

-----------------------------------------------------------------------------
(* Properties *)

(* The shape of every variable. *)
TypeOK ==
  /\ log \in Lengths /\ cache \in Maybe /\ index \in Maybe /\ sig \in Lengths
  /\ scores \in {None} \cup (Lengths \X Lengths)
  /\ pc \in [Threads -> {"idle", "clear1", "clear2", "clear3", "stat", "check", "hit",
                         "read", "set1", "set2", "set3", "lookup", "hitIndex", "group",
                         "keep", "statScores", "checkScores", "readScores", "setScores",
                         "hitScores", "done"}]
  /\ ret \in [Threads -> {"total", "first", "second", "scores"}]
  /\ stat \in [Threads -> Lengths]
  /\ got \in [Threads -> Maybe]
  /\ floor \in [Threads -> Lengths]
  /\ alone \in [Threads -> BOOLEAN] /\ calm \in BOOLEAN

Answers(t, kinds) == pc[t] = "done" /\ ret[t] \in kinds

CountsAll(t) == IF got[t] = None THEN FALSE ELSE got[t] >= floor[t]

(* A race may leave one e-ink request behind, but nothing stale stays: a   *)
(* request that overlaps no other sees every rating given before it.       *)
LoneScoresFresh == \A t \in Threads : Answers(t, {"scores"}) /\ alone[t] => CountsAll(t)

CalmAnswers(t, kinds) == Answers(t, kinds) /\ alone[t] /\ calm

(* append_rating's docstring, "invalidate cached rating reads": whatever   *)
(* races have left in the three variables, the next rating outdates it;    *)
(* from then on index requests that overlap no other count every rating.   *)
CalmIndexFresh == \A t \in Threads : CalmAnswers(t, {"first", "second"}) => CountsAll(t)

(* _load_ratings' docstring, "reloading when the log file changes": so do  *)
(* requests for all events.                                                *)
CalmTotalFresh == \A t \in Threads : CalmAnswers(t, {"total"}) => CountsAll(t)
=============================================================================
