--------------------------- MODULE ApiCachesProofs ---------------------------
(***************************************************************************)
(* What the caches of the API process promise, for any number of threads,  *)
(* works and changes: the inductive invariant of each cache, and the       *)
(* properties of ApiCaches, every step of which is one of a single cache.  *)
(***************************************************************************)
EXTENDS ApiCaches, TLAPS

-----------------------------------------------------------------------------
(* The ratings log and the caches over it *)

(* The ratings: what was taken is of the log so far.                       *)
RatingsPast ==
  /\ sig <= log
  /\ \A t \in Threads : stat[t] <= log /\ floor[t] <= log

ScoreSteps == {"statScores", "checkScores", "readScores", "setScores", "hitScores"}

Purpose ==
  \A t \in Threads : /\ pc[t] \in ScoreSteps => ret[t] = "scores"
                     /\ pc[t] \notin ScoreSteps \cup {"idle", "done"} => ret[t] # "scores"

Pairs == Ratings!Lengths \X Ratings!Lengths

(* A pair of the scores is never older than its signature, nor is what a   *)
(* request that runs alone takes from it.                                  *)
ScoreCall(t) ==
  /\ pc[t] \in {"checkScores", "readScores", "setScores"} => floor[t] <= stat[t]
  /\ pc[t] = "setScores" => got[t] \in Ratings!Lengths /\ stat[t] <= got[t]
  /\ pc[t] = "hitScores" => scores \in Pairs
  /\ alone[t] /\ pc[t] = "hitScores" => floor[t] <= scores[2]
  /\ alone[t] /\ Ratings!Answers(t, {"scores"}) => got[t] \in Ratings!Lengths /\ floor[t] <= got[t]

PairIsFresh == scores # None => scores[1] <= scores[2]

LoneCall == \A t, u \in Threads : alone[t] /\ pc[t] # "idle" /\ pc[u] # "idle" => t = u

Scores == PairIsFresh /\ \A t \in Threads : ScoreCall(t)

(* In a calm spell no two calls overlap, a current signature belongs to    *)
(* current events and their index, and a call works with the log as it is. *)
RatingsOneAtATime == \A t, u \in Threads : pc[t] # "idle" /\ pc[u] # "idle" => t = u

CurrentCaches == sig = log => /\ log # 0 => cache = log
                              /\ index \in {None, log}

RatingsCurrentCall(t) ==
  /\ pc[t] \in {"clear1", "clear2", "clear3"} => sig # log
  /\ pc[t] \in {"check", "hit", "read", "set1", "set2", "set3"} => stat[t] = log
  /\ pc[t] \in {"check", "hit"} => log # 0
  /\ pc[t] \in {"hit", "lookup", "hitIndex", "group", "keep"} => sig = log
  /\ pc[t] \in {"set1", "set2", "set3", "group", "keep"} => got[t] = log
  /\ pc[t] \in {"set2", "set3"} => cache = log
  /\ pc[t] = "set3" => index = None
  /\ pc[t] = "hitIndex" => index # None
  /\ Ratings!Answers(t, {"total", "first", "second"}) => got[t] = log

RatingsCalm == calm => /\ RatingsOneAtATime
                       /\ CurrentCaches
                       /\ \A t \in Threads : RatingsCurrentCall(t)

RatingsInv == Ratings!TypeOK /\ RatingsPast /\ Purpose /\ LoneCall /\ Scores /\ RatingsCalm

RatingsAssumed == Ratings!LogAssumption /\ Ratings!NoneAssumption

LEMMA LengthsAreNat ==
  ASSUME RatingsAssumed
  PROVE  /\ Ratings!Lengths \subseteq Nat /\ None \notin Ratings!Lengths /\ 0 \in Ratings!Lengths
         /\ \A n \in Ratings!Lengths : n < MaxChanges => n + 1 \in Ratings!Lengths
  BY DEF RatingsAssumed, Ratings!LogAssumption, Ratings!NoneAssumption, Ratings!Lengths

LEMMA RatingsTyped ==
  ASSUME RatingsAssumed, Ratings!TypeOK
  PROVE  /\ log \in Nat /\ sig \in Nat /\ None \notin Ratings!Lengths /\ log \in Ratings!Lengths
         /\ DOMAIN pc = Threads
         /\ stat \in [Threads -> Nat] /\ floor \in [Threads -> Nat]
         /\ ret \in [Threads -> {"total", "first", "second", "scores"}]
         /\ got \in [Threads -> Ratings!Maybe]
  BY LengthsAreNat DEF Ratings!TypeOK

LEMMA PairOf ==
  ASSUME NEW a \in Ratings!Lengths, NEW b \in Ratings!Lengths
  PROVE  <<a, b>> \in Pairs /\ <<a, b>>[1] = a /\ <<a, b>>[2] = b
  BY DEF Pairs

LEMMA PartsOf ==
  ASSUME RatingsAssumed, NEW p \in Pairs
  PROVE  p[1] \in Ratings!Lengths /\ p[2] \in Ratings!Lengths /\ p[1] \in Nat /\ p[2] \in Nat
  BY LengthsAreNat DEF Pairs

LEMMA RatingsInit == ASSUME RatingsAssumed, Ratings!Init PROVE RatingsInv
  <1>1. 0 \in Ratings!Lengths /\ log \in Ratings!Lengths /\ log \in Nat
    BY DEF RatingsAssumed, Ratings!LogAssumption, Ratings!Lengths, Ratings!Init
  <1>2. Ratings!TypeOK
    BY <1>1 DEF Ratings!Init, Ratings!Maybe, Ratings!TypeOK
  <1>3. RatingsPast /\ Purpose /\ LoneCall
    BY <1>1 DEF Ratings!Init, RatingsPast, Purpose, ScoreSteps, LoneCall
  <1>4. scores = None /\ \A t \in Threads : pc[t] = "idle"
    BY DEF Ratings!Init
  <1>6. Scores
    BY <1>4 DEF Scores, PairIsFresh, ScoreCall, Ratings!Answers
  <1>7. RatingsCalm
    BY DEF Ratings!Init, RatingsCalm, RatingsOneAtATime, CurrentCaches,
           RatingsCurrentCall, Ratings!Answers
  <1> QED
    BY <1>2, <1>3, <1>6, <1>7 DEF RatingsInv

LEMMA BeginKept ==
  ASSUME RatingsAssumed, RatingsInv, NEW t \in Threads, NEW call \in Calls,
         Ratings!Begin(t, call)
  PROVE  RatingsInv'
  <1> USE DEF RatingsInv, Ratings!Goto
  <1>1. Ratings!TypeOK'
    <2>1. log' \in Ratings!Lengths
      BY LengthsAreNat DEF Ratings!TypeOK, Ratings!Begin
    <2>2. alone' \in [Threads -> BOOLEAN] /\ calm' \in BOOLEAN
      BY DEF Ratings!Begin, Ratings!Idle, Ratings!TypeOK
    <2>3. pc' = [pc EXCEPT ![t] = Ratings!EntryOf(call)]
          /\ Ratings!EntryOf(call) \in {"clear1", "statScores", "stat"}
      BY DEF Ratings!Begin, Ratings!EntryOf
    <2>4. ret' \in [Threads -> {"total", "first", "second", "scores"}]
      BY DEF Ratings!Begin, Ratings!LoadFor, Ratings!TypeOK
    <2> HIDE DEF RatingsInv
    <2>5. floor' \in [Threads -> Ratings!Lengths]
      BY <2>1 DEF Ratings!Begin, Ratings!TypeOK, RatingsInv
    <2> QED
      BY <2>1, <2>2, <2>3, <2>4, <2>5 DEF Ratings!Begin, Ratings!TypeOK, RatingsInv
  <1>2. RatingsPast'
    BY RatingsTyped
       DEF Ratings!Begin, Ratings!EntryOf, Ratings!LoadFor, Ratings!Idle, RatingsPast
  <1>3. Purpose'
    BY RatingsTyped
       DEF Ratings!Begin, Ratings!EntryOf, Ratings!LoadFor, Ratings!Idle, Purpose,
           ScoreSteps
  <1>4. LoneCall'
    BY RatingsTyped
       DEF Ratings!Begin, Ratings!EntryOf, Ratings!LoadFor, Ratings!Idle, LoneCall
  <1>5. Scores'
    BY RatingsTyped
       DEF Ratings!Begin, Ratings!EntryOf, Ratings!LoadFor, Ratings!Idle, RatingsPast,
           Purpose, ScoreSteps, LoneCall, PairIsFresh, ScoreCall, Ratings!Answers,
           Scores
  <1>6. RatingsCalm'
    <2>1. sig \in Nat /\ log \in Nat /\ sig <= log /\ DOMAIN pc = Threads
      BY RatingsTyped DEF RatingsPast
    <2>2. calm' => RatingsOneAtATime' /\ pc'[t] = Ratings!EntryOf(call)
                   /\ \A u \in Threads : u # t => pc'[u] = "idle"
      BY <2>1 DEF Ratings!Begin, Ratings!Idle, RatingsOneAtATime
    <2>3. CASE call = "rate"
      <3>1. sig' # log' /\ Ratings!EntryOf(call) = "clear1"
        BY <2>1, <2>3 DEF Ratings!Begin, Ratings!EntryOf
      <3> QED
        BY <2>2, <3>1
           DEF CurrentCaches, RatingsCurrentCall, Ratings!Answers, RatingsCalm
    <2>4. CASE call # "rate"
      <3>1. /\ calm' => calm
            /\ UNCHANGED <<log, cache, index, sig>> /\ Ratings!EntryOf(call) \in {"stat", "statScores"}
        BY <2>4 DEF Ratings!Begin, Ratings!EntryOf
      <3>2. calm' => CurrentCaches'
        BY <3>1 DEF RatingsCalm, CurrentCaches
      <3> QED
        BY <2>2, <3>1, <3>2 DEF RatingsCurrentCall, Ratings!Answers, RatingsCalm
    <2> QED
      BY <2>3, <2>4
  <1> QED
    BY <1>1, <1>2, <1>3, <1>4, <1>5, <1>6

LEMMA ClearCacheKept ==
  ASSUME RatingsAssumed, RatingsInv, NEW t \in Threads, Ratings!ClearCache(t)
  PROVE  RatingsInv'
  <1> USE DEF RatingsInv, Ratings!Goto
  <1>1. Ratings!TypeOK'
    BY LengthsAreNat, RatingsTyped DEF Ratings!ClearCache, Ratings!Maybe, Ratings!TypeOK
  <1>2. RatingsPast'
    BY RatingsTyped DEF Ratings!ClearCache, RatingsPast
  <1>3. Purpose'
    BY RatingsTyped DEF Ratings!ClearCache, Purpose, ScoreSteps
  <1>4. LoneCall'
    BY RatingsTyped DEF Ratings!ClearCache, LoneCall
  <1>5. Scores'
    BY RatingsTyped
       DEF Ratings!ClearCache, RatingsPast, Purpose, ScoreSteps, LoneCall, PairIsFresh,
           ScoreCall, Ratings!Answers, Scores
  <1>6. RatingsCalm'
    BY RatingsTyped
       DEF Ratings!ClearCache, RatingsPast, RatingsOneAtATime, CurrentCaches,
           RatingsCurrentCall, Ratings!Answers, RatingsCalm
  <1> QED
    BY <1>1, <1>2, <1>3, <1>4, <1>5, <1>6

LEMMA ClearIndexKept ==
  ASSUME RatingsAssumed, RatingsInv, NEW t \in Threads, Ratings!ClearIndex(t)
  PROVE  RatingsInv'
  <1> USE DEF RatingsInv, Ratings!Goto
  <1>1. Ratings!TypeOK'
    BY LengthsAreNat, RatingsTyped DEF Ratings!ClearIndex, Ratings!Maybe, Ratings!TypeOK
  <1>2. RatingsPast'
    BY RatingsTyped DEF Ratings!ClearIndex, RatingsPast
  <1>3. Purpose'
    BY RatingsTyped DEF Ratings!ClearIndex, Purpose, ScoreSteps
  <1>4. LoneCall'
    BY RatingsTyped DEF Ratings!ClearIndex, LoneCall
  <1>5. Scores'
    BY RatingsTyped
       DEF Ratings!ClearIndex, RatingsPast, Purpose, ScoreSteps, LoneCall, PairIsFresh,
           ScoreCall, Ratings!Answers, Scores
  <1>6. RatingsCalm'
    BY RatingsTyped
       DEF Ratings!ClearIndex, RatingsPast, RatingsOneAtATime, CurrentCaches,
           RatingsCurrentCall, Ratings!Answers, RatingsCalm
  <1> QED
    BY <1>1, <1>2, <1>3, <1>4, <1>5, <1>6

LEMMA RatingsClearSignatureKept ==
  ASSUME RatingsAssumed, RatingsInv, NEW t \in Threads, Ratings!ClearSignature(t)
  PROVE  RatingsInv'
  <1> USE DEF RatingsInv, Ratings!Goto
  <1>1. Ratings!TypeOK'
    BY LengthsAreNat, RatingsTyped
       DEF Ratings!ClearSignature, Ratings!Maybe, Ratings!TypeOK
  <1>2. RatingsPast'
    BY RatingsTyped DEF Ratings!ClearSignature, RatingsPast
  <1>3. Purpose'
    BY RatingsTyped DEF Ratings!ClearSignature, Purpose, ScoreSteps
  <1>4. LoneCall'
    BY RatingsTyped DEF Ratings!ClearSignature, LoneCall
  <1>5. Scores'
    BY RatingsTyped
       DEF Ratings!ClearSignature, RatingsPast, Purpose, ScoreSteps, LoneCall,
           PairIsFresh, ScoreCall, Ratings!Answers, Scores
  <1>6. RatingsCalm'
    BY RatingsTyped
       DEF Ratings!ClearSignature, RatingsPast, RatingsOneAtATime, CurrentCaches,
           RatingsCurrentCall, Ratings!Answers, RatingsCalm
  <1> QED
    BY <1>1, <1>2, <1>3, <1>4, <1>5, <1>6

LEMMA RatingsStatKept ==
  ASSUME RatingsAssumed, RatingsInv, NEW t \in Threads, Ratings!Stat(t)
  PROVE  RatingsInv'
  <1> USE DEF RatingsInv, Ratings!Goto
  <1>1. Ratings!TypeOK'
    BY LengthsAreNat, RatingsTyped
       DEF Ratings!Stat, Ratings!shared, Ratings!Maybe, Ratings!TypeOK
  <1>2. RatingsPast'
    BY RatingsTyped DEF Ratings!Stat, Ratings!shared, RatingsPast
  <1>3. Purpose'
    BY RatingsTyped DEF Ratings!Stat, Ratings!shared, Purpose, ScoreSteps
  <1>4. LoneCall'
    BY RatingsTyped DEF Ratings!Stat, Ratings!shared, LoneCall
  <1>5. Scores'
    BY RatingsTyped
       DEF Ratings!Stat, Ratings!shared, RatingsPast, Purpose, ScoreSteps, LoneCall,
           PairIsFresh, ScoreCall, Ratings!Answers, Scores
  <1>6. RatingsCalm'
    BY RatingsTyped
       DEF Ratings!Stat, Ratings!shared, RatingsPast, RatingsOneAtATime, CurrentCaches,
           RatingsCurrentCall, Ratings!Answers, RatingsCalm
  <1> QED
    BY <1>1, <1>2, <1>3, <1>4, <1>5, <1>6

LEMMA RatingsCheckKept ==
  ASSUME RatingsAssumed, RatingsInv, NEW t \in Threads, Ratings!Check(t)
  PROVE  RatingsInv'
  <1> USE DEF RatingsInv, Ratings!Goto
  <1>1. Ratings!TypeOK'
    BY LengthsAreNat, RatingsTyped
       DEF Ratings!Check, Ratings!shared, Ratings!Maybe, Ratings!TypeOK
  <1>2. RatingsPast'
    BY RatingsTyped DEF Ratings!Check, Ratings!shared, RatingsPast
  <1>3. Purpose'
    BY RatingsTyped DEF Ratings!Check, Ratings!shared, Purpose, ScoreSteps
  <1>4. LoneCall'
    BY RatingsTyped DEF Ratings!Check, Ratings!shared, LoneCall
  <1>5. Scores'
    BY RatingsTyped
       DEF Ratings!Check, Ratings!shared, RatingsPast, Purpose, ScoreSteps, LoneCall,
           PairIsFresh, ScoreCall, Ratings!Answers, Scores
  <1>6. RatingsCalm'
    BY RatingsTyped
       DEF Ratings!Check, Ratings!shared, RatingsPast, RatingsOneAtATime, CurrentCaches,
           RatingsCurrentCall, Ratings!Answers, RatingsCalm
  <1> QED
    BY <1>1, <1>2, <1>3, <1>4, <1>5, <1>6

LEMMA RatingsHitKept ==
  ASSUME RatingsAssumed, RatingsInv, NEW t \in Threads, Ratings!Hit(t)
  PROVE  RatingsInv'
  <1> USE DEF RatingsInv, Ratings!Goto
  <1>1. Ratings!TypeOK'
    BY LengthsAreNat, RatingsTyped
       DEF Ratings!Hit, Ratings!ReturnPoint, Ratings!shared, Ratings!Maybe,
           Ratings!TypeOK
  <1>2. RatingsPast'
    BY RatingsTyped DEF Ratings!Hit, Ratings!ReturnPoint, Ratings!shared, RatingsPast
  <1>3. Purpose'
    BY RatingsTyped
       DEF Ratings!Hit, Ratings!ReturnPoint, Ratings!shared, Purpose, ScoreSteps
  <1>4. LoneCall'
    BY RatingsTyped DEF Ratings!Hit, Ratings!ReturnPoint, Ratings!shared, LoneCall
  <1>5. Scores'
    BY RatingsTyped
       DEF Ratings!Hit, Ratings!ReturnPoint, Ratings!shared, RatingsPast, Purpose,
           ScoreSteps, LoneCall, PairIsFresh, ScoreCall, Ratings!Answers, Scores
  <1>6. RatingsCalm'
    BY RatingsTyped
       DEF Ratings!Hit, Ratings!ReturnPoint, Ratings!shared, RatingsPast,
           RatingsOneAtATime, CurrentCaches, RatingsCurrentCall, Ratings!Answers,
           RatingsCalm
  <1> QED
    BY <1>1, <1>2, <1>3, <1>4, <1>5, <1>6

LEMMA ReadLogKept ==
  ASSUME RatingsAssumed, RatingsInv, NEW t \in Threads, Ratings!ReadLog(t)
  PROVE  RatingsInv'
  <1> USE DEF RatingsInv, Ratings!Goto
  <1>1. Ratings!TypeOK'
    BY LengthsAreNat, RatingsTyped
       DEF Ratings!ReadLog, Ratings!shared, Ratings!Maybe, Ratings!TypeOK
  <1>2. RatingsPast'
    BY RatingsTyped DEF Ratings!ReadLog, Ratings!shared, RatingsPast
  <1>3. Purpose'
    BY RatingsTyped DEF Ratings!ReadLog, Ratings!shared, Purpose, ScoreSteps
  <1>4. LoneCall'
    BY RatingsTyped DEF Ratings!ReadLog, Ratings!shared, LoneCall
  <1>5. Scores'
    BY RatingsTyped
       DEF Ratings!ReadLog, Ratings!shared, RatingsPast, Purpose, ScoreSteps, LoneCall,
           PairIsFresh, ScoreCall, Ratings!Answers, Scores
  <1>6. RatingsCalm'
    BY RatingsTyped
       DEF Ratings!ReadLog, Ratings!shared, RatingsPast, RatingsOneAtATime,
           CurrentCaches, RatingsCurrentCall, Ratings!Answers, RatingsCalm
  <1> QED
    BY <1>1, <1>2, <1>3, <1>4, <1>5, <1>6

LEMMA SetCacheKept ==
  ASSUME RatingsAssumed, RatingsInv, NEW t \in Threads, Ratings!SetCache(t)
  PROVE  RatingsInv'
  <1> USE DEF RatingsInv, Ratings!Goto
  <1>1. Ratings!TypeOK'
    BY LengthsAreNat, RatingsTyped DEF Ratings!SetCache, Ratings!Maybe, Ratings!TypeOK
  <1>2. RatingsPast'
    BY RatingsTyped DEF Ratings!SetCache, RatingsPast
  <1>3. Purpose'
    BY RatingsTyped DEF Ratings!SetCache, Purpose, ScoreSteps
  <1>4. LoneCall'
    BY RatingsTyped DEF Ratings!SetCache, LoneCall
  <1>5. Scores'
    BY RatingsTyped
       DEF Ratings!SetCache, RatingsPast, Purpose, ScoreSteps, LoneCall, PairIsFresh,
           ScoreCall, Ratings!Answers, Scores
  <1>6. RatingsCalm'
    BY RatingsTyped
       DEF Ratings!SetCache, RatingsPast, RatingsOneAtATime, CurrentCaches,
           RatingsCurrentCall, Ratings!Answers, RatingsCalm
  <1> QED
    BY <1>1, <1>2, <1>3, <1>4, <1>5, <1>6

LEMMA ResetIndexKept ==
  ASSUME RatingsAssumed, RatingsInv, NEW t \in Threads, Ratings!ResetIndex(t)
  PROVE  RatingsInv'
  <1> USE DEF RatingsInv, Ratings!Goto
  <1>1. Ratings!TypeOK'
    BY LengthsAreNat, RatingsTyped DEF Ratings!ResetIndex, Ratings!Maybe, Ratings!TypeOK
  <1>2. RatingsPast'
    BY RatingsTyped DEF Ratings!ResetIndex, RatingsPast
  <1>3. Purpose'
    BY RatingsTyped DEF Ratings!ResetIndex, Purpose, ScoreSteps
  <1>4. LoneCall'
    BY RatingsTyped DEF Ratings!ResetIndex, LoneCall
  <1>5. Scores'
    BY RatingsTyped
       DEF Ratings!ResetIndex, RatingsPast, Purpose, ScoreSteps, LoneCall, PairIsFresh,
           ScoreCall, Ratings!Answers, Scores
  <1>6. RatingsCalm'
    BY RatingsTyped
       DEF Ratings!ResetIndex, RatingsPast, RatingsOneAtATime, CurrentCaches,
           RatingsCurrentCall, Ratings!Answers, RatingsCalm
  <1> QED
    BY <1>1, <1>2, <1>3, <1>4, <1>5, <1>6

LEMMA SetSignatureKept ==
  ASSUME RatingsAssumed, RatingsInv, NEW t \in Threads, Ratings!SetSignature(t)
  PROVE  RatingsInv'
  <1> USE DEF RatingsInv, Ratings!Goto
  <1>1. Ratings!TypeOK'
    BY LengthsAreNat, RatingsTyped
       DEF Ratings!SetSignature, Ratings!ReturnPoint, Ratings!Maybe, Ratings!TypeOK
  <1>2. RatingsPast'
    BY RatingsTyped DEF Ratings!SetSignature, Ratings!ReturnPoint, RatingsPast
  <1>3. Purpose'
    BY RatingsTyped DEF Ratings!SetSignature, Ratings!ReturnPoint, Purpose, ScoreSteps
  <1>4. LoneCall'
    BY RatingsTyped DEF Ratings!SetSignature, Ratings!ReturnPoint, LoneCall
  <1>5. Scores'
    BY RatingsTyped
       DEF Ratings!SetSignature, Ratings!ReturnPoint, RatingsPast, Purpose, ScoreSteps,
           LoneCall, PairIsFresh, ScoreCall, Ratings!Answers, Scores
  <1>6. RatingsCalm'
    BY RatingsTyped
       DEF Ratings!SetSignature, Ratings!ReturnPoint, RatingsPast, RatingsOneAtATime,
           CurrentCaches, RatingsCurrentCall, Ratings!Answers, RatingsCalm
  <1> QED
    BY <1>1, <1>2, <1>3, <1>4, <1>5, <1>6

LEMMA LookupIndexKept ==
  ASSUME RatingsAssumed, RatingsInv, NEW t \in Threads, Ratings!LookupIndex(t)
  PROVE  RatingsInv'
  <1> USE DEF RatingsInv, Ratings!Goto
  <1>1. Ratings!TypeOK'
    BY LengthsAreNat, RatingsTyped
       DEF Ratings!LookupIndex, Ratings!LoadFor, Ratings!shared, Ratings!Maybe,
           Ratings!TypeOK
  <1>2. RatingsPast'
    BY RatingsTyped
       DEF Ratings!LookupIndex, Ratings!LoadFor, Ratings!shared, RatingsPast
  <1>3. Purpose'
    BY RatingsTyped
       DEF Ratings!LookupIndex, Ratings!LoadFor, Ratings!shared, Purpose, ScoreSteps
  <1>4. LoneCall'
    BY RatingsTyped DEF Ratings!LookupIndex, Ratings!LoadFor, Ratings!shared, LoneCall
  <1>5. Scores'
    BY RatingsTyped
       DEF Ratings!LookupIndex, Ratings!LoadFor, Ratings!shared, RatingsPast, Purpose,
           ScoreSteps, LoneCall, PairIsFresh, ScoreCall, Ratings!Answers, Scores
  <1>6. RatingsCalm'
    BY RatingsTyped
       DEF Ratings!LookupIndex, Ratings!LoadFor, Ratings!shared, RatingsPast,
           RatingsOneAtATime, CurrentCaches, RatingsCurrentCall, Ratings!Answers,
           RatingsCalm
  <1> QED
    BY <1>1, <1>2, <1>3, <1>4, <1>5, <1>6

LEMMA HitIndexKept ==
  ASSUME RatingsAssumed, RatingsInv, NEW t \in Threads, Ratings!HitIndex(t)
  PROVE  RatingsInv'
  <1> USE DEF RatingsInv, Ratings!Goto
  <1>1. Ratings!TypeOK'
    BY LengthsAreNat, RatingsTyped
       DEF Ratings!HitIndex, Ratings!shared, Ratings!Maybe, Ratings!TypeOK
  <1>2. RatingsPast'
    BY RatingsTyped DEF Ratings!HitIndex, Ratings!shared, RatingsPast
  <1>3. Purpose'
    BY RatingsTyped DEF Ratings!HitIndex, Ratings!shared, Purpose, ScoreSteps
  <1>4. LoneCall'
    BY RatingsTyped DEF Ratings!HitIndex, Ratings!shared, LoneCall
  <1>5. Scores'
    BY RatingsTyped
       DEF Ratings!HitIndex, Ratings!shared, RatingsPast, Purpose, ScoreSteps, LoneCall,
           PairIsFresh, ScoreCall, Ratings!Answers, Scores
  <1>6. RatingsCalm'
    BY RatingsTyped
       DEF Ratings!HitIndex, Ratings!shared, RatingsPast, RatingsOneAtATime,
           CurrentCaches, RatingsCurrentCall, Ratings!Answers, RatingsCalm
  <1> QED
    BY <1>1, <1>2, <1>3, <1>4, <1>5, <1>6

LEMMA GroupKept ==
  ASSUME RatingsAssumed, RatingsInv, NEW t \in Threads, Ratings!Group(t)
  PROVE  RatingsInv'
  <1> USE DEF RatingsInv, Ratings!Goto
  <1>1. Ratings!TypeOK'
    BY LengthsAreNat, RatingsTyped
       DEF Ratings!Group, Ratings!shared, Ratings!Maybe, Ratings!TypeOK
  <1>2. RatingsPast'
    BY RatingsTyped DEF Ratings!Group, Ratings!shared, RatingsPast
  <1>3. Purpose'
    BY RatingsTyped DEF Ratings!Group, Ratings!shared, Purpose, ScoreSteps
  <1>4. LoneCall'
    BY RatingsTyped DEF Ratings!Group, Ratings!shared, LoneCall
  <1>5. Scores'
    BY RatingsTyped
       DEF Ratings!Group, Ratings!shared, RatingsPast, Purpose, ScoreSteps, LoneCall,
           PairIsFresh, ScoreCall, Ratings!Answers, Scores
  <1>6. RatingsCalm'
    BY RatingsTyped
       DEF Ratings!Group, Ratings!shared, RatingsPast, RatingsOneAtATime, CurrentCaches,
           RatingsCurrentCall, Ratings!Answers, RatingsCalm
  <1> QED
    BY <1>1, <1>2, <1>3, <1>4, <1>5, <1>6

LEMMA KeepIndexKept ==
  ASSUME RatingsAssumed, RatingsInv, NEW t \in Threads, Ratings!KeepIndex(t)
  PROVE  RatingsInv'
  <1> USE DEF RatingsInv, Ratings!Goto
  <1>1. Ratings!TypeOK'
    BY LengthsAreNat, RatingsTyped DEF Ratings!KeepIndex, Ratings!Maybe, Ratings!TypeOK
  <1>2. RatingsPast'
    BY RatingsTyped DEF Ratings!KeepIndex, RatingsPast
  <1>3. Purpose'
    BY RatingsTyped DEF Ratings!KeepIndex, Purpose, ScoreSteps
  <1>4. LoneCall'
    BY RatingsTyped DEF Ratings!KeepIndex, LoneCall
  <1>5. Scores'
    BY RatingsTyped
       DEF Ratings!KeepIndex, RatingsPast, Purpose, ScoreSteps, LoneCall, PairIsFresh,
           ScoreCall, Ratings!Answers, Scores
  <1>6. RatingsCalm'
    BY RatingsTyped
       DEF Ratings!KeepIndex, RatingsPast, RatingsOneAtATime, CurrentCaches,
           RatingsCurrentCall, Ratings!Answers, RatingsCalm
  <1> QED
    BY <1>1, <1>2, <1>3, <1>4, <1>5, <1>6

LEMMA StatScoresKept ==
  ASSUME RatingsAssumed, RatingsInv, NEW t \in Threads, Ratings!StatScores(t)
  PROVE  RatingsInv'
  <1> USE DEF RatingsInv, Ratings!Goto
  <1>1. Ratings!TypeOK'
    BY LengthsAreNat, RatingsTyped
       DEF Ratings!StatScores, Ratings!shared, Ratings!Maybe, Ratings!TypeOK
  <1>2. RatingsPast'
    BY RatingsTyped DEF Ratings!StatScores, Ratings!shared, RatingsPast
  <1>3. Purpose'
    BY RatingsTyped DEF Ratings!StatScores, Ratings!shared, Purpose, ScoreSteps
  <1>4. LoneCall'
    BY RatingsTyped DEF Ratings!StatScores, Ratings!shared, LoneCall
  <1>5. Scores'
    BY RatingsTyped
       DEF Ratings!StatScores, Ratings!shared, RatingsPast, Purpose, ScoreSteps,
           LoneCall, PairIsFresh, ScoreCall, Ratings!Answers, Scores
  <1>6. RatingsCalm'
    BY RatingsTyped
       DEF Ratings!StatScores, Ratings!shared, RatingsPast, RatingsOneAtATime,
           CurrentCaches, RatingsCurrentCall, Ratings!Answers, RatingsCalm
  <1> QED
    BY <1>1, <1>2, <1>3, <1>4, <1>5, <1>6

LEMMA CheckScoresKept ==
  ASSUME RatingsAssumed, RatingsInv, NEW t \in Threads, Ratings!CheckScores(t)
  PROVE  RatingsInv'
  <1> USE DEF RatingsInv, Ratings!Goto
  <1>1. Ratings!TypeOK'
    BY LengthsAreNat, RatingsTyped
       DEF Ratings!CheckScores, Ratings!shared, Ratings!Maybe, Ratings!TypeOK
  <1>2. RatingsPast'
    BY RatingsTyped DEF Ratings!CheckScores, Ratings!shared, RatingsPast
  <1>3. Purpose'
    BY RatingsTyped DEF Ratings!CheckScores, Ratings!shared, Purpose, ScoreSteps
  <1>4. LoneCall'
    BY RatingsTyped DEF Ratings!CheckScores, Ratings!shared, LoneCall
  <1>5. Scores'
    <2>1. stat[t] \in Nat /\ floor[t] \in Nat /\ (scores = None \/ scores \in Pairs)
      BY RatingsTyped DEF Pairs, Ratings!TypeOK
    <2>2. ASSUME scores \in Pairs, scores # None, scores[1] = stat[t], floor[t] <= stat[t]
          PROVE  floor[t] <= scores[2]
      BY <2>1, <2>2, PartsOf DEF Scores, PairIsFresh
    <2>3. /\ floor[t] <= stat[t] /\ UNCHANGED <<Ratings!shared, ret, stat, got, floor, alone>>
          /\ \/ pc' = [pc EXCEPT ![t] = "readScores"]
             \/ /\ pc' = [pc EXCEPT ![t] = "hitScores"]
                /\ scores \in Pairs /\ floor[t] <= scores[2]
      BY <2>1, <2>2 DEF Ratings!CheckScores, Scores, ScoreCall
    <2> QED
      BY <2>3, RatingsTyped
         DEF Ratings!shared, PairIsFresh, ScoreCall, Ratings!Answers, Scores
  <1>6. RatingsCalm'
    BY RatingsTyped
       DEF Ratings!CheckScores, Ratings!shared, RatingsPast, RatingsOneAtATime,
           CurrentCaches, RatingsCurrentCall, Ratings!Answers, RatingsCalm
  <1> QED
    BY <1>1, <1>2, <1>3, <1>4, <1>5, <1>6

LEMMA ReadScoresKept ==
  ASSUME RatingsAssumed, RatingsInv, NEW t \in Threads, Ratings!ReadScores(t)
  PROVE  RatingsInv'
  <1> USE DEF RatingsInv, Ratings!Goto
  <1>1. Ratings!TypeOK'
    BY LengthsAreNat, RatingsTyped
       DEF Ratings!ReadScores, Ratings!shared, Ratings!Maybe, Ratings!TypeOK
  <1>2. RatingsPast'
    BY RatingsTyped DEF Ratings!ReadScores, Ratings!shared, RatingsPast
  <1>3. Purpose'
    BY RatingsTyped DEF Ratings!ReadScores, Ratings!shared, Purpose, ScoreSteps
  <1>4. LoneCall'
    BY RatingsTyped DEF Ratings!ReadScores, Ratings!shared, LoneCall
  <1>5. Scores'
    BY RatingsTyped
       DEF Ratings!ReadScores, Ratings!shared, RatingsPast, Purpose, ScoreSteps,
           LoneCall, PairIsFresh, ScoreCall, Ratings!Answers, Scores
  <1>6. RatingsCalm'
    BY RatingsTyped
       DEF Ratings!ReadScores, Ratings!shared, RatingsPast, RatingsOneAtATime,
           CurrentCaches, RatingsCurrentCall, Ratings!Answers, RatingsCalm
  <1> QED
    BY <1>1, <1>2, <1>3, <1>4, <1>5, <1>6

LEMMA SetScoresKept ==
  ASSUME RatingsAssumed, RatingsInv, NEW t \in Threads, Ratings!SetScores(t)
  PROVE  RatingsInv'
  <1> USE DEF RatingsInv, Ratings!Goto
  <1>1. Ratings!TypeOK'
    <2>1. stat[t] \in Ratings!Lengths /\ got[t] \in Ratings!Lengths
      BY DEF Ratings!SetScores, Ratings!TypeOK, Scores, ScoreCall
    <2>2. scores' \in Pairs
      BY <2>1, PairOf DEF Ratings!SetScores
    <2> QED
      BY <2>2 DEF Ratings!SetScores, Ratings!TypeOK, Pairs
  <1>2. RatingsPast'
    BY RatingsTyped DEF Ratings!SetScores, RatingsPast
  <1>3. Purpose'
    BY RatingsTyped DEF Ratings!SetScores, Purpose, ScoreSteps
  <1>4. LoneCall'
    BY RatingsTyped DEF Ratings!SetScores, LoneCall
  <1>5. Scores'
    <2>1. stat[t] \in Ratings!Lengths /\ got[t] \in Ratings!Lengths /\ floor[t] <= stat[t] /\ stat[t] <= got[t]
      BY DEF Ratings!SetScores, Ratings!TypeOK, Scores, ScoreCall
    <2>2. scores' \in Pairs /\ scores'[1] = stat[t] /\ scores'[2] = got[t]
      BY <2>1, PairOf DEF Ratings!SetScores
    <2>3. floor[t] <= got[t]
      BY <2>1, RatingsTyped, LengthsAreNat
    <2>4. /\ pc' = [pc EXCEPT ![t] = "hitScores"] /\ pc[t] = "setScores"
          /\ UNCHANGED <<ret, stat, got, floor, alone>>
      BY DEF Ratings!SetScores
    <2>5. PairIsFresh'
      BY <2>1, <2>2 DEF PairIsFresh
    <2> QED
      BY <2>2, <2>3, <2>4, <2>5, RatingsTyped
         DEF LoneCall, ScoreCall, Ratings!Answers, Scores
  <1>6. RatingsCalm'
    BY RatingsTyped
       DEF Ratings!SetScores, RatingsPast, RatingsOneAtATime, CurrentCaches,
           RatingsCurrentCall, Ratings!Answers, RatingsCalm
  <1> QED
    BY <1>1, <1>2, <1>3, <1>4, <1>5, <1>6

LEMMA HitScoresKept ==
  ASSUME RatingsAssumed, RatingsInv, NEW t \in Threads, Ratings!HitScores(t)
  PROVE  RatingsInv'
  <1> USE DEF RatingsInv, Ratings!Goto
  <1>1. Ratings!TypeOK'
    <2>1. scores[2] \in Ratings!Lengths
      BY PartsOf DEF Ratings!HitScores, Scores, ScoreCall
    <2> QED
      BY <2>1 DEF Ratings!HitScores, Ratings!shared, Ratings!TypeOK, Ratings!Maybe
  <1>2. RatingsPast'
    BY RatingsTyped DEF Ratings!HitScores, Ratings!shared, RatingsPast
  <1>3. Purpose'
    BY RatingsTyped DEF Ratings!HitScores, Ratings!shared, Purpose, ScoreSteps
  <1>4. LoneCall'
    BY RatingsTyped DEF Ratings!HitScores, Ratings!shared, LoneCall
  <1>5. Scores'
    <2>1. scores[2] \in Ratings!Lengths /\ (alone[t] => floor[t] <= scores[2])
      BY PartsOf DEF Ratings!HitScores, Scores, ScoreCall
    <2>2. /\ pc' = [pc EXCEPT ![t] = "done"] /\ pc[t] = "hitScores" /\ DOMAIN pc = Threads
          /\ got' = [got EXCEPT ![t] = scores[2]] /\ DOMAIN got = Threads
          /\ UNCHANGED <<scores, ret, stat, floor, alone>>
      BY RatingsTyped DEF Ratings!HitScores, Ratings!shared
    <2> HIDE DEF RatingsInv
    <2>3. PairIsFresh' /\ \A u \in Threads : ScoreCall(u)
      BY <2>2 DEF PairIsFresh, Scores, RatingsInv
    <2>4. ScoreCall(t)'
      BY <2>1, <2>2, <2>3 DEF ScoreCall, Ratings!Answers
    <2>5. \A u \in Threads : u # t => ScoreCall(u)'
      BY <2>2, <2>3 DEF ScoreCall, Ratings!Answers
    <2> QED
      BY <2>3, <2>4, <2>5 DEF Scores
  <1>6. RatingsCalm'
    <2>1. ret[t] = "scores" /\ \A u \in Threads : u # t => got'[u] = got[u]
      BY RatingsTyped DEF Ratings!HitScores, Purpose, ScoreSteps
    <2>2. /\ pc' = [pc EXCEPT ![t] = "done"] /\ pc[t] = "hitScores" /\ DOMAIN pc = Threads
          /\ UNCHANGED <<log, cache, index, sig, ret, stat, calm>>
      BY RatingsTyped DEF Ratings!HitScores, Ratings!shared
    <2> QED
      BY <2>1, <2>2
         DEF RatingsOneAtATime, CurrentCaches, RatingsCurrentCall, Ratings!Answers,
             RatingsCalm
  <1> QED
    BY <1>1, <1>2, <1>3, <1>4, <1>5, <1>6

LEMMA RatingsAnswerKept ==
  ASSUME RatingsAssumed, RatingsInv, NEW t \in Threads, Ratings!Answer(t)
  PROVE  RatingsInv'
  <1> USE DEF RatingsInv, Ratings!Goto
  <1>1. Ratings!TypeOK'
    BY LengthsAreNat, RatingsTyped
       DEF Ratings!Answer, Ratings!shared, Ratings!Maybe, Ratings!TypeOK
  <1>2. RatingsPast'
    BY RatingsTyped DEF Ratings!Answer, Ratings!shared, RatingsPast
  <1>3. Purpose'
    BY RatingsTyped DEF Ratings!Answer, Ratings!shared, Purpose, ScoreSteps
  <1>4. LoneCall'
    BY RatingsTyped DEF Ratings!Answer, Ratings!shared, LoneCall
  <1>5. Scores'
    BY RatingsTyped
       DEF Ratings!Answer, Ratings!shared, RatingsPast, Purpose, ScoreSteps, LoneCall,
           PairIsFresh, ScoreCall, Ratings!Answers, Scores
  <1>6. RatingsCalm'
    BY RatingsTyped
       DEF Ratings!Answer, Ratings!shared, RatingsPast, RatingsOneAtATime,
           CurrentCaches, RatingsCurrentCall, Ratings!Answers, RatingsCalm
  <1> QED
    BY <1>1, <1>2, <1>3, <1>4, <1>5, <1>6

LEMMA GrowOutsideKept ==
  ASSUME RatingsAssumed, RatingsInv, Ratings!GrowOutside
  PROVE  RatingsInv'
  <1> USE DEF RatingsInv, Ratings!Goto
  <1>1. Ratings!TypeOK'
    <2>1. log' \in Ratings!Lengths /\ calm' \in BOOLEAN
      BY LengthsAreNat DEF Ratings!TypeOK, Ratings!GrowOutside, Ratings!Idle
    <2> QED
      BY <2>1 DEF Ratings!GrowOutside, Ratings!TypeOK
  <1>2. RatingsPast'
    BY RatingsTyped DEF Ratings!GrowOutside, Ratings!Idle, RatingsPast
  <1>3. Purpose'
    BY RatingsTyped DEF Ratings!GrowOutside, Ratings!Idle, Purpose, ScoreSteps
  <1>4. LoneCall'
    BY RatingsTyped DEF Ratings!GrowOutside, Ratings!Idle, LoneCall
  <1>5. Scores'
    BY RatingsTyped
       DEF Ratings!GrowOutside, Ratings!Idle, RatingsPast, Purpose, ScoreSteps,
           LoneCall, PairIsFresh, ScoreCall, Ratings!Answers, Scores
  <1>6. RatingsCalm'
    <2>1. sig' # log'
      BY RatingsTyped DEF Ratings!GrowOutside, RatingsPast
    <2>2. calm' => \A t \in Threads : pc'[t] = "idle"
      BY DEF Ratings!GrowOutside, Ratings!Idle
    <2> QED
      BY <2>1, <2>2
         DEF RatingsOneAtATime, CurrentCaches, RatingsCurrentCall, Ratings!Answers,
             RatingsCalm
  <1> QED
    BY <1>1, <1>2, <1>3, <1>4, <1>5, <1>6

LEMMA RatingsStutterKept ==
  ASSUME RatingsAssumed, RatingsInv, UNCHANGED Ratings!vars
  PROVE  RatingsInv'
  <1> USE DEF RatingsInv, Ratings!Goto
  <1>1. Ratings!TypeOK'
    BY LengthsAreNat, RatingsTyped
       DEF Ratings!vars, Ratings!shared, Ratings!Maybe, Ratings!TypeOK
  <1>2. RatingsPast'
    BY RatingsTyped DEF Ratings!vars, Ratings!shared, RatingsPast
  <1>3. Purpose'
    BY RatingsTyped DEF Ratings!vars, Ratings!shared, Purpose, ScoreSteps
  <1>4. LoneCall'
    BY RatingsTyped DEF Ratings!vars, Ratings!shared, LoneCall
  <1>5. Scores'
    BY RatingsTyped
       DEF Ratings!vars, Ratings!shared, RatingsPast, Purpose, ScoreSteps, LoneCall,
           PairIsFresh, ScoreCall, Ratings!Answers, Scores
  <1>6. RatingsCalm'
    BY RatingsTyped
       DEF Ratings!vars, Ratings!shared, RatingsPast, RatingsOneAtATime, CurrentCaches,
           RatingsCurrentCall, Ratings!Answers, RatingsCalm
  <1> QED
    BY <1>1, <1>2, <1>3, <1>4, <1>5, <1>6

LEMMA RatingsStep ==
  ASSUME RatingsAssumed, RatingsInv, [Ratings!Next]_(Ratings!vars)
  PROVE  RatingsInv'
  <1>1. ASSUME NEW t \in Threads, NEW call \in Calls, Ratings!Begin(t, call)
        PROVE  RatingsInv'
    BY <1>1, BeginKept
  <1>2. ASSUME NEW t \in Threads,
               \/ Ratings!ClearCache(t) \/ Ratings!ClearIndex(t) \/ Ratings!ClearSignature(t)
               \/ Ratings!Stat(t) \/ Ratings!Check(t) \/ Ratings!Hit(t) \/ Ratings!ReadLog(t)
               \/ Ratings!SetCache(t) \/ Ratings!ResetIndex(t) \/ Ratings!SetSignature(t)
        PROVE  RatingsInv'
    BY <1>2, ClearCacheKept, ClearIndexKept, RatingsClearSignatureKept, RatingsStatKept,
       RatingsCheckKept, RatingsHitKept, ReadLogKept, SetCacheKept, ResetIndexKept,
       SetSignatureKept
  <1>3. ASSUME NEW t \in Threads,
               \/ Ratings!LookupIndex(t) \/ Ratings!HitIndex(t) \/ Ratings!Group(t) \/ Ratings!KeepIndex(t)
               \/ Ratings!StatScores(t) \/ Ratings!CheckScores(t) \/ Ratings!ReadScores(t) \/ Ratings!SetScores(t)
               \/ Ratings!HitScores(t) \/ Ratings!Answer(t)
        PROVE  RatingsInv'
    BY <1>3, LookupIndexKept, HitIndexKept, GroupKept, KeepIndexKept, StatScoresKept,
       CheckScoresKept, ReadScoresKept, SetScoresKept, HitScoresKept, RatingsAnswerKept
  <1> QED
    BY <1>1, <1>2, <1>3, GrowOutsideKept, RatingsStutterKept DEF Ratings!Next

LEMMA RatingsInvFresh ==
  ASSUME RatingsAssumed, RatingsInv
  PROVE  Ratings!LoneScoresFresh /\ Ratings!CalmIndexFresh /\ Ratings!CalmTotalFresh
  <1>1. \A t \in Threads : log # None /\ floor[t] <= log /\ log \in Nat /\ floor[t] \in Nat
    BY RatingsTyped DEF RatingsInv, RatingsPast
  <1>2. Ratings!LoneScoresFresh
    BY LengthsAreNat, <1>1
       DEF RatingsInv, Scores, ScoreCall, Ratings!LoneScoresFresh, Ratings!CountsAll
  <1>3. \A t \in Threads : Ratings!CalmAnswers(t, {"total", "first", "second"}) => Ratings!CountsAll(t)
    BY <1>1
       DEF RatingsInv, RatingsCalm, RatingsCurrentCall, Ratings!CalmAnswers,
           Ratings!CountsAll
  <1>4. Ratings!CalmIndexFresh /\ Ratings!CalmTotalFresh
    BY <1>3
       DEF Ratings!CalmIndexFresh, Ratings!CalmTotalFresh, Ratings!CalmAnswers,
           Ratings!Answers
  <1> QED
    BY <1>2, <1>4

THEOREM RatingsKept == ASSUME RatingsAssumed PROVE Ratings!Spec => []RatingsInv
  <1>1. Ratings!Init => RatingsInv
    BY RatingsInit
  <1>2. RatingsInv /\ [Ratings!Next]_(Ratings!vars) => RatingsInv'
    BY RatingsStep
  <1> QED
    BY <1>1, <1>2, PTL DEF Ratings!Spec

-----------------------------------------------------------------------------
(* The rows of the manifest *)

(* The manifest: signatures are of builds so far; in a calm spell no two   *)
(* calls overlap, a current signature belongs to current rows, and a call  *)
(* works with what is built now, at each of its steps.                     *)
ManifestPast ==
  /\ msig <= built
  /\ \A t \in Threads : mstat[t] <= built /\ mfloor[t] <= built
  /\ \A t \in Threads : mpc[t] = "hit" => mrows # None

ManifestOneAtATime == \A t, u \in Threads : mpc[t] # "idle" /\ mpc[u] # "idle" => t = u

CurrentRows == msig = built /\ built # 0 => mrows = built

ManifestCurrentCall(t) ==
  /\ mpc[t] \in {"check", "hit", "read", "setRows", "setSig"} => mstat[t] = built
  /\ mpc[t] \in {"check", "hit", "read"} => built # 0
  /\ mpc[t] = "hit" => msig = built
  /\ mpc[t] \in {"setRows", "setSig", "done"} => mgot[t] = built
  /\ mpc[t] = "setSig" => mrows = built

ManifestCalm == mcalm => /\ ManifestOneAtATime
                         /\ CurrentRows
                         /\ \A t \in Threads : ManifestCurrentCall(t)

ManifestInv == Manifest!TypeOK /\ ManifestPast /\ ManifestCalm

LEMMA ManifestInit == ASSUME Manifest!BuildAssumption, Manifest!Init PROVE ManifestInv
  <1>1. 0 \in Manifest!Builds /\ Manifest!TypeOK
    BY DEF Manifest!BuildAssumption, Manifest!Init, Manifest!Builds, Manifest!TypeOK
  <1>2. built \in Nat /\ ManifestPast
    BY DEF Manifest!Init, ManifestPast
  <1>3. ManifestCalm
    BY DEF Manifest!Init, ManifestCalm, ManifestOneAtATime, CurrentRows,
           ManifestCurrentCall
  <1> QED
    BY <1>1, <1>2, <1>3 DEF ManifestInv

LEMMA ManifestStep ==
  ASSUME Manifest!BuildAssumption, ManifestInv, [Manifest!Next]_(Manifest!vars)
  PROVE  ManifestInv'
  <1> USE DEF ManifestInv, Manifest!Goto
  <1>0. DOMAIN mpc = Threads /\ built \in Nat /\ msig \in Nat /\ None \notin Manifest!Builds
        /\ mstat \in [Threads -> Nat] /\ mfloor \in [Threads -> Nat] /\ mgot \in [Threads -> Nat]
    BY DEF Manifest!BuildAssumption, Manifest!TypeOK, Manifest!Builds
  <1>1. CASE Manifest!Build
    <2>1. Manifest!TypeOK'
      <3>1. Manifest!Idle(Threads) \in BOOLEAN
        BY DEF Manifest!Idle
      <3> QED
        BY <1>1, <3>1
           DEF Manifest!Build, Manifest!BuildAssumption, Manifest!TypeOK,
               Manifest!Builds
    <2>2. ManifestPast'
      BY <1>0, <1>1 DEF Manifest!Build, Manifest!Idle, ManifestPast
    <2>3. ManifestCalm'
      <3>1. msig' # built'
        BY <1>0, <1>1 DEF Manifest!Build, ManifestPast
      <3>2. mcalm' => \A t \in Threads : mpc'[t] = "idle"
        BY <1>1 DEF Manifest!Build, Manifest!Idle
      <3> QED
        BY <3>1, <3>2
           DEF ManifestCalm, ManifestOneAtATime, CurrentRows, ManifestCurrentCall
    <2> QED
      BY <2>1, <2>2, <2>3
  <1>2. ASSUME NEW t \in Threads, Manifest!Begin(t) PROVE ManifestInv'
    <2>1. Manifest!TypeOK'
      <3>1. Manifest!Idle(Threads) \in BOOLEAN /\ malone' \in [Threads -> BOOLEAN]
        BY <1>2 DEF Manifest!Begin, Manifest!Idle
      <3> QED
        BY <1>2, <3>1
           DEF Manifest!Begin, Manifest!BuildAssumption, Manifest!TypeOK,
               Manifest!Builds
    <2>2. ManifestPast'
      BY <1>0, <1>2 DEF Manifest!Begin, Manifest!Idle, ManifestPast
    <2>3. ManifestCalm'
      BY <1>0, <1>2
         DEF Manifest!Begin, Manifest!Idle, ManifestPast, ManifestCalm,
             ManifestOneAtATime, CurrentRows, ManifestCurrentCall
    <2> QED
      BY <2>1, <2>2, <2>3
  <1>3. ASSUME NEW t \in Threads, Manifest!Stat(t) PROVE ManifestInv'
    <2>1. Manifest!TypeOK'
      BY <1>3
         DEF Manifest!Stat, Manifest!BuildAssumption, Manifest!TypeOK, Manifest!Builds
    <2>2. ManifestPast'
      BY <1>0, <1>3 DEF Manifest!Stat, ManifestPast
    <2>3. ManifestCalm'
      BY <1>0, <1>3
         DEF Manifest!Stat, ManifestPast, ManifestCalm, ManifestOneAtATime, CurrentRows,
             ManifestCurrentCall
    <2> QED
      BY <2>1, <2>2, <2>3
  <1>4. ASSUME NEW t \in Threads, Manifest!Check(t) PROVE ManifestInv'
    <2>1. Manifest!TypeOK'
      BY <1>4
         DEF Manifest!Check, Manifest!BuildAssumption, Manifest!TypeOK, Manifest!Builds
    <2>2. ManifestPast'
      BY <1>0, <1>4 DEF Manifest!Check, ManifestPast
    <2>3. ManifestCalm'
      BY <1>0, <1>4
         DEF Manifest!Check, ManifestPast, ManifestCalm, ManifestOneAtATime,
             CurrentRows, ManifestCurrentCall
    <2> QED
      BY <2>1, <2>2, <2>3
  <1>5. ASSUME NEW t \in Threads, Manifest!Hit(t) PROVE ManifestInv'
    <2>1. Manifest!TypeOK'
      <3>1. mrows \in Manifest!Builds
        BY <1>5 DEF Manifest!Hit, Manifest!TypeOK, ManifestPast
      <3> QED
        BY <1>5, <3>1
           DEF Manifest!Hit, Manifest!BuildAssumption, Manifest!TypeOK, Manifest!Builds
    <2>2. ManifestPast'
      BY <1>0, <1>5 DEF Manifest!Hit, ManifestPast
    <2>3. ManifestCalm'
      BY <1>0, <1>5
         DEF Manifest!Hit, ManifestPast, ManifestCalm, ManifestOneAtATime, CurrentRows,
             ManifestCurrentCall
    <2> QED
      BY <2>1, <2>2, <2>3
  <1>6. ASSUME NEW t \in Threads, Manifest!Read(t) PROVE ManifestInv'
    <2>1. Manifest!TypeOK'
      BY <1>6
         DEF Manifest!Read, Manifest!BuildAssumption, Manifest!TypeOK, Manifest!Builds
    <2>2. ManifestPast'
      BY <1>0, <1>6 DEF Manifest!Read, ManifestPast
    <2>3. ManifestCalm'
      BY <1>0, <1>6
         DEF Manifest!Read, ManifestPast, ManifestCalm, ManifestOneAtATime, CurrentRows,
             ManifestCurrentCall
    <2> QED
      BY <2>1, <2>2, <2>3
  <1>7. ASSUME NEW t \in Threads, Manifest!SetRows(t) PROVE ManifestInv'
    <2>1. Manifest!TypeOK'
      BY <1>7
         DEF Manifest!SetRows, Manifest!BuildAssumption, Manifest!TypeOK,
             Manifest!Builds
    <2>2. ManifestPast'
      BY <1>0, <1>7 DEF Manifest!SetRows, Manifest!TypeOK, ManifestPast
    <2>3. ManifestCalm'
      BY <1>0, <1>7
         DEF Manifest!SetRows, ManifestPast, ManifestCalm, ManifestOneAtATime,
             CurrentRows, ManifestCurrentCall
    <2> QED
      BY <2>1, <2>2, <2>3
  <1>8. ASSUME NEW t \in Threads, Manifest!SetSignature(t) PROVE ManifestInv'
    <2>1. Manifest!TypeOK'
      BY <1>8
         DEF Manifest!SetSignature, Manifest!BuildAssumption, Manifest!TypeOK,
             Manifest!Builds
    <2>2. ManifestPast'
      BY <1>0, <1>8 DEF Manifest!SetSignature, ManifestPast
    <2>3. ManifestCalm'
      BY <1>0, <1>8
         DEF Manifest!SetSignature, ManifestPast, ManifestCalm, ManifestOneAtATime,
             CurrentRows, ManifestCurrentCall
    <2> QED
      BY <2>1, <2>2, <2>3
  <1>9. ASSUME NEW t \in Threads, Manifest!Answer(t) PROVE ManifestInv'
    <2>1. Manifest!TypeOK'
      BY <1>9
         DEF Manifest!Answer, Manifest!BuildAssumption, Manifest!TypeOK, Manifest!Builds
    <2>2. ManifestPast'
      BY <1>0, <1>9 DEF Manifest!Answer, ManifestPast
    <2>3. ManifestCalm'
      BY <1>0, <1>9
         DEF Manifest!Answer, ManifestPast, ManifestCalm, ManifestOneAtATime,
             CurrentRows, ManifestCurrentCall
    <2> QED
      BY <2>1, <2>2, <2>3
  <1>10. CASE UNCHANGED Manifest!vars
    <2>1. Manifest!TypeOK'
      BY <1>10
         DEF Manifest!vars, Manifest!BuildAssumption, Manifest!TypeOK, Manifest!Builds
    <2>2. ManifestPast'
      BY <1>0, <1>10 DEF Manifest!vars, ManifestPast
    <2>3. ManifestCalm'
      BY <1>0, <1>10
         DEF Manifest!vars, ManifestPast, ManifestCalm, ManifestOneAtATime, CurrentRows,
             ManifestCurrentCall
    <2> QED
      BY <2>1, <2>2, <2>3
  <1> QED
    BY <1>1, <1>2, <1>3, <1>4, <1>5, <1>6, <1>7, <1>8, <1>9, <1>10 DEF Manifest!Next

LEMMA CalmIsCurrent ==
  ASSUME Manifest!BuildAssumption, ManifestInv
  PROVE  Manifest!CalmManifestIsCurrent
  <1>1. built \in Nat /\ \A t \in Threads : mfloor[t] \in Nat
    BY DEF ManifestInv, Manifest!TypeOK, Manifest!Builds, Manifest!BuildAssumption
  <1>2. \A t \in Threads : mfloor[t] <= built
    BY DEF ManifestInv, ManifestPast
  <1> QED
    BY <1>1, <1>2
       DEF ManifestInv, ManifestCalm, ManifestCurrentCall,
           Manifest!CalmManifestIsCurrent

THEOREM ManifestKept == ASSUME Manifest!BuildAssumption PROVE Manifest!Spec => []ManifestInv
  <1>1. Manifest!Init => ManifestInv
    BY ManifestInit
  <1>2. ManifestInv /\ [Manifest!Next]_(Manifest!vars) => ManifestInv'
    BY ManifestStep
  <1> QED
    BY <1>1, <1>2, PTL DEF Manifest!Spec

-----------------------------------------------------------------------------
(* The acquisition list and its likes *)

ListAssumed == List!BoundAssumption /\ List!SignatureAssumption

Versions == 1..(MaxChanges + 1)
Signatures == [Works -> Versions] \X SUBSET Works

(* A signature of the tree as it is, with n writes behind it, or as it was *)
(* and will not be again: versions only grow, and a sidecar that is        *)
(* truncated is not whole again before it is written.                      *)
Known(s, now, n) ==
  s # None => /\ s \in Signatures
              /\ \A w \in Works : s[1][w] <= n + 1
              /\ s[1] = now[1] => s[2] \subseteq now[2]

Counted == /\ writes \in 0..MaxChanges
           /\ \A w \in Works : version[w] <= writes + 1
           /\ ltaken \in [Threads -> Signatures \cup {None}]

ListPast == /\ Known(lsig, List!Signature, writes)
            /\ \A t \in Threads : Known(ltaken[t], List!Signature, writes)

Shows(f, s) == \A w \in Works : f[w] = s[w]

(* What was read under a signature the tree still has is what it shows, if *)
(* no sidecar has failed to open since the tree got it.                    *)
Found(t) ==
  ltaken[t] = List!Signature /\ ~skipped =>
    /\ lpc[t] = "scan" => \A w \in Works \ ltodo[t] : lfound[t][w] = List!Shown[w]
    /\ lpc[t] = "keep" => Shows(lfound[t], List!Shown)

FoundTrue == \A t \in Threads : Found(t)

Unpaired == \A t \in List!Everyone : lpc[t] \in {"keep", "clear1", "clear2"} => ~paired

CacheIsTrue ==
  (paired \/ lcalm) /\ ~skipped =>
    (lsig = List!Signature => Shows(lrows, List!Shown) \/ \E t \in Threads : lpc[t] = "keep")

Sure(t) == lcalm \/ (paired /\ lalone[t])

ListOneAtATime ==
  /\ lcalm => \A t, u \in List!Everyone : lpc[t] # "idle" /\ lpc[u] # "idle" => t = u
  /\ \A t \in Threads : lalone[t] =>
       \A u \in List!Everyone : lpc[t] # "idle" /\ lpc[u] # "idle" => t = u

ListCurrentCall(t) ==
  Sure(t) =>
    /\ lpc[t] \in {"check", "scan", "keep"} => ltaken[t] = List!Signature
    /\ lpc[t] = "hit" => lsig = List!Signature
    /\ lpc[t] = "done" /\ ~skipped => Shows(lfound[t], List!Shown)

CurrentCalls ==
  /\ \A t \in Threads : ListCurrentCall(t)
  /\ \A t \in List!Everyone : lcalm /\ lpc[t] \in {"clear1", "clear2"} => lsig # List!Signature

ListInv == /\ List!TypeOK /\ Counted /\ ListPast /\ FoundTrue /\ Unpaired
           /\ ListOneAtATime /\ CacheIsTrue /\ CurrentCalls

LEMMA OneMore == \A a, n \in Nat : a <= n + 1 => a <= (n + 1) + 1
  OBVIOUS

LEMMA WrittenIsNew ==
  ASSUME ListAssumed, NEW v \in [Works -> Versions], NEW to \in SUBSET Works,
         NEW n \in 0..MaxChanges, n < MaxChanges, NEW w \in Works,
         NEW s, Known(s, <<v, to>>, n)
  PROVE  /\ Known(s, <<[v EXCEPT ![w] = n + 2], to \ {w}>>, n + 1)
         /\ s # <<[v EXCEPT ![w] = n + 2], to \ {w}>>
  <1> DEFINE next == [v EXCEPT ![w] = n + 2]
  <1>1. /\ next \in [Works -> Versions] /\ next[w] = n + 2 /\ n \in Nat
        /\ to \ {w} \in SUBSET Works
    BY DEF Versions, ListAssumed, List!BoundAssumption
  <1> HIDE DEF next
  <1>2. <<next, to \ {w}>> \in Signatures
    BY <1>1 DEF Signatures
  <1>3. CASE s = None
    BY <1>2, <1>3
       DEF ListAssumed, List!SignatureAssumption, Signatures, Versions, Known, next
  <1>4. CASE s # None
    <2>1. s \in Signatures /\ \A x \in Works : s[1][x] <= n + 1 /\ s[1][x] \in Nat
      BY <1>4 DEF Known, Signatures, Versions, ListAssumed, List!BoundAssumption
    <2>2. s[1] # next
      BY <1>1, <2>1
    <2>3. \A x \in Works : s[1][x] <= (n + 1) + 1
      BY <1>1, <2>1, OneMore
    <2>4. s # <<next, to \ {w}>>
      BY <2>2
    <2>5. <<next, to \ {w}>>[1] = next
      OBVIOUS
    <2>6. Known(s, <<next, to \ {w}>>, n + 1)
      BY <2>1, <2>2, <2>3, <2>5 DEF Known
    <2> QED
      BY <2>4, <2>6 DEF next
  <1> QED
    BY <1>3, <1>4

LEMMA TornIsNew ==
  ASSUME ListAssumed, NEW v \in [Works -> Versions], NEW to \in SUBSET Works,
         NEW n \in 0..MaxChanges, NEW w \in Works \ to, NEW s, Known(s, <<v, to>>, n)
  PROVE  /\ Known(s, <<v, to \cup {w}>>, n + 1)
         /\ s # <<v, to \cup {w}>>
  <1>1. <<v, to \cup {w}>> \in Signatures /\ n \in Nat
    BY DEF Signatures, Versions, ListAssumed, List!BoundAssumption
  <1>2. CASE s = None
    BY <1>1, <1>2 DEF ListAssumed, List!SignatureAssumption, Signatures, Versions, Known
  <1>3. CASE s # None
    <2>1. /\ s \in Signatures /\ \A x \in Works : s[1][x] <= n + 1 /\ s[1][x] \in Nat
          /\ s[1] = v => s[2] \subseteq to
      BY <1>3 DEF Known, Signatures, Versions, ListAssumed, List!BoundAssumption
    <2>2. \A x \in Works : s[1][x] <= (n + 1) + 1
      BY <1>1, <2>1, OneMore
    <2>3. <<v, to \cup {w}>>[1] = v /\ <<v, to \cup {w}>>[2] = to \cup {w}
      OBVIOUS
    <2>4. s # <<v, to \cup {w}>>
      BY <2>1, <2>3
    <2>5. s[1] = v => s[2] \subseteq to \cup {w}
      BY <2>1
    <2>6. Known(s, <<v, to \cup {w}>>, n + 1)
      BY <2>1, <2>2, <2>3, <2>5 DEF Known
    <2> QED
      BY <2>4, <2>6
  <1> QED
    BY <1>2, <1>3

LEMMA SignatureIsNew ==
  ASSUME ListAssumed, List!TypeOK
  PROVE  List!Signature \in Signatures /\ List!Signature # None
  <1>1. List!Signature \in Signatures
    BY DEF List!TypeOK, List!Signature, Signatures, Versions
  <1> QED
    BY <1>1 DEF ListAssumed, List!SignatureAssumption, Signatures, Versions

LEMMA TakenIsKnown ==
  ASSUME ListAssumed, List!TypeOK, Counted
  PROVE  Known(List!Signature, List!Signature, writes)
  <1>1. List!Signature \in Signatures /\ List!Signature[1] = version
    BY SignatureIsNew DEF List!Signature
  <1> QED
    BY <1>1 DEF Counted, Known

LEMMA NothingIsKnown == ASSUME NEW now, NEW n PROVE Known(None, now, n)
  BY DEF Known

LEMMA ListTyped ==
  ASSUME List!TypeOK, Counted
  PROVE  /\ DOMAIN lpc = List!Everyone
         /\ ltodo \in [Threads -> SUBSET Works] /\ DOMAIN lfound = Threads
         /\ DOMAIN lalone = Threads /\ DOMAIN ltaken = Threads
  BY DEF List!TypeOK, Counted

LEMMA RowsTyped ==
  ASSUME ListAssumed, List!TypeOK
  PROVE  /\ List!NoRows \in [Works -> 0..(MaxChanges + 1)]
         /\ List!Shown \in [Works -> 0..(MaxChanges + 1)]
  <1>1. 0 \in 0..(MaxChanges + 1) /\ \A w \in Works : version[w] \in 0..(MaxChanges + 1)
    BY DEF ListAssumed, List!BoundAssumption, List!TypeOK
  <1> QED
    BY <1>1 DEF List!NoRows, List!Shown

LEMMA ListInit == ASSUME ListAssumed, List!Init PROVE ListInv
  <1>1. List!TypeOK
    <2>1. /\ 0 \in 0..(MaxChanges + 1) /\ 1 \in 1..(MaxChanges + 1)
          /\ List!NoRows \in [Works -> 0..(MaxChanges + 1)]
      BY DEF List!NoRows, ListAssumed, List!BoundAssumption
    <2> QED
      BY <2>1 DEF List!Init, List!TypeOK
  <1>2. Counted /\ ListPast
    BY DEF List!Init, Counted, ListPast, Known, ListAssumed, List!BoundAssumption
  <1>3. FoundTrue /\ Unpaired /\ ListOneAtATime /\ CurrentCalls
    BY DEF List!Init, FoundTrue, Found, Unpaired, ListOneAtATime, CurrentCalls,
           ListCurrentCall, List!Everyone
  <1>4. lsig # List!Signature
    BY <1>1
       DEF List!Init, List!TypeOK, List!Signature, ListAssumed, List!SignatureAssumption
  <1> QED
    BY <1>1, <1>2, <1>3, <1>4 DEF ListInv, CacheIsTrue

LEMMA BeginListKept ==
  ASSUME ListAssumed, ListInv, NEW t \in Threads, List!BeginList(t)
  PROVE  ListInv'
  <1> USE DEF ListInv, List!Goto
  <1>0. UNCHANGED <<List!Signature, List!Shown, writes>>
    BY DEF List!BeginList, List!files, List!cached, List!locals, List!Idle, List!files,
           List!Signature, List!Shown
  <1>1. List!TypeOK'
    <2>1. lalone' \in [Threads -> BOOLEAN] /\ lcalm' \in BOOLEAN
      BY DEF List!BeginList, List!Idle, List!TypeOK
    <2> QED
      BY <2>1, RowsTyped DEF List!BeginList, List!files, List!cached, List!TypeOK
  <1>2. Counted'
    BY SignatureIsNew
       DEF List!BeginList, List!files, List!cached, List!locals, List!Idle, Counted
  <1>3. ListPast'
    BY <1>0, ListTyped
       DEF List!BeginList, List!files, List!cached, List!locals, List!Idle, ListPast
  <1>4. FoundTrue'
    BY <1>0, ListTyped
       DEF List!BeginList, List!files, List!cached, List!locals, List!Idle, FoundTrue,
           Found
  <1>5. Unpaired'
    BY ListTyped
       DEF List!BeginList, List!files, List!cached, List!locals, List!Idle, Unpaired,
           List!Everyone
  <1>6. ListOneAtATime'
    BY ListTyped
       DEF List!BeginList, List!files, List!cached, List!locals, List!Idle,
           ListOneAtATime, List!Everyone
  <1>7. CacheIsTrue'
    BY <1>0, ListTyped
       DEF List!BeginList, List!files, List!cached, List!locals, List!Idle,
           ListOneAtATime, CacheIsTrue, List!Everyone
  <1>8. CurrentCalls'
    BY <1>0, ListTyped
       DEF List!BeginList, List!files, List!cached, List!locals, List!Idle,
           ListOneAtATime, CurrentCalls, ListCurrentCall, Sure, List!Everyone
  <1> QED
    BY <1>1, <1>2, <1>3, <1>4, <1>5, <1>6, <1>7, <1>8

LEMMA TakeSignatureKept ==
  ASSUME ListAssumed, ListInv, NEW t \in Threads, List!TakeSignature(t)
  PROVE  ListInv'
  <1> USE DEF ListInv, List!Goto
  <1>0. UNCHANGED <<List!Signature, List!Shown, writes>>
    BY DEF List!TakeSignature, List!files, List!cached, List!locals, List!files,
           List!Signature, List!Shown
  <1>1. List!TypeOK'
    BY RowsTyped
       DEF List!TakeSignature, List!files, List!cached, List!locals, List!TypeOK
  <1>2. Counted'
    BY SignatureIsNew
       DEF List!TakeSignature, List!files, List!cached, List!locals, Counted
  <1>3. ListPast'
    BY <1>0, ListTyped, TakenIsKnown
       DEF List!TakeSignature, List!files, List!cached, List!locals, ListPast
  <1>4. FoundTrue'
    BY <1>0, ListTyped
       DEF List!TakeSignature, List!files, List!cached, List!locals, FoundTrue, Found
  <1>5. Unpaired'
    BY ListTyped
       DEF List!TakeSignature, List!files, List!cached, List!locals, Unpaired,
           List!Everyone
  <1>6. ListOneAtATime'
    BY ListTyped
       DEF List!TakeSignature, List!files, List!cached, List!locals, ListOneAtATime,
           List!Everyone
  <1>7. CacheIsTrue'
    BY <1>0, ListTyped
       DEF List!TakeSignature, List!files, List!cached, List!locals, ListOneAtATime,
           CacheIsTrue, List!Everyone
  <1>8. CurrentCalls'
    BY <1>0, ListTyped
       DEF List!TakeSignature, List!files, List!cached, List!locals, ListOneAtATime,
           CurrentCalls, ListCurrentCall, Sure, List!Everyone
  <1> QED
    BY <1>1, <1>2, <1>3, <1>4, <1>5, <1>6, <1>7, <1>8

LEMMA ListCheckKept ==
  ASSUME ListAssumed, ListInv, NEW t \in Threads, List!Check(t)
  PROVE  ListInv'
  <1> USE DEF ListInv, List!Goto
  <1>0. UNCHANGED <<List!Signature, List!Shown, writes>>
    BY DEF List!Check, List!files, List!cached, List!locals, List!files, List!Signature,
           List!Shown
  <1>1. List!TypeOK'
    <2>1. ltodo' \in [Threads -> SUBSET Works] /\ lfound' \in [Threads -> [Works -> 0..(MaxChanges + 1)]]
      BY RowsTyped DEF List!Check, List!TypeOK
    <2> QED
      BY <2>1 DEF List!Check, List!files, List!cached, List!TypeOK
  <1>2. Counted'
    BY SignatureIsNew DEF List!Check, List!files, List!cached, List!locals, Counted
  <1>3. ListPast'
    BY <1>0, ListTyped DEF List!Check, List!files, List!cached, List!locals, ListPast
  <1>4. FoundTrue'
    BY <1>0, ListTyped
       DEF List!Check, List!files, List!cached, List!locals, FoundTrue, Found
  <1>5. Unpaired'
    BY ListTyped
       DEF List!Check, List!files, List!cached, List!locals, Unpaired, List!Everyone
  <1>6. ListOneAtATime'
    BY ListTyped
       DEF List!Check, List!files, List!cached, List!locals, ListOneAtATime,
           List!Everyone
  <1>7. CacheIsTrue'
    BY <1>0, ListTyped
       DEF List!Check, List!files, List!cached, List!locals, ListOneAtATime,
           CacheIsTrue, List!Everyone
  <1>8. CurrentCalls'
    BY <1>0, ListTyped
       DEF List!Check, List!files, List!cached, List!locals, ListOneAtATime,
           CurrentCalls, ListCurrentCall, Sure, List!Everyone
  <1> QED
    BY <1>1, <1>2, <1>3, <1>4, <1>5, <1>6, <1>7, <1>8

LEMMA ListHitKept ==
  ASSUME ListAssumed, ListInv, NEW t \in Threads, List!Hit(t)
  PROVE  ListInv'
  <1> USE DEF ListInv, List!Goto
  <1>0. UNCHANGED <<List!Signature, List!Shown, writes>>
    BY DEF List!Hit, List!files, List!cached, List!locals, List!files, List!Signature,
           List!Shown
  <1>1. List!TypeOK'
    BY RowsTyped DEF List!Hit, List!files, List!cached, List!locals, List!TypeOK
  <1>2. Counted'
    BY SignatureIsNew DEF List!Hit, List!files, List!cached, List!locals, Counted
  <1>3. ListPast'
    BY <1>0, ListTyped DEF List!Hit, List!files, List!cached, List!locals, ListPast
  <1>4. FoundTrue'
    BY <1>0, ListTyped
       DEF List!Hit, List!files, List!cached, List!locals, FoundTrue, Found
  <1>5. Unpaired'
    BY ListTyped
       DEF List!Hit, List!files, List!cached, List!locals, Unpaired, List!Everyone
  <1>6. ListOneAtATime'
    BY ListTyped
       DEF List!Hit, List!files, List!cached, List!locals, ListOneAtATime, List!Everyone
  <1>7. CacheIsTrue'
    BY <1>0, ListTyped
       DEF List!Hit, List!files, List!cached, List!locals, ListOneAtATime, CacheIsTrue,
           List!Everyone
  <1>8. CurrentCalls'
    BY <1>0, ListTyped
       DEF List!Hit, List!files, List!cached, List!locals, ListOneAtATime, CurrentCalls,
           ListCurrentCall, Sure, List!Everyone, CacheIsTrue, Unpaired
  <1> QED
    BY <1>1, <1>2, <1>3, <1>4, <1>5, <1>6, <1>7, <1>8

LEMMA ReadSidecarKept ==
  ASSUME ListAssumed, ListInv, NEW t \in Threads, NEW w \in Works,
         List!ReadSidecar(t, w)
  PROVE  ListInv'
  <1> USE DEF ListInv, List!Goto
  <1>0. UNCHANGED <<List!Signature, List!Shown, writes>>
    BY DEF List!ReadSidecar, List!files, List!cached, List!locals, List!files,
           List!Signature, List!Shown
  <1>1. List!TypeOK'
    <2>1. [lfound[t] EXCEPT ![w] = List!Shown[w]] \in [Works -> 0..(MaxChanges + 1)]
      BY RowsTyped DEF List!TypeOK
    <2>2. /\ lfound' \in [Threads -> [Works -> 0..(MaxChanges + 1)]]
          /\ skipped' \in BOOLEAN
      BY <2>1 DEF List!ReadSidecar, List!TypeOK
    <2>3. ltodo' \in [Threads -> SUBSET Works]
      BY DEF List!ReadSidecar, List!TypeOK
    <2> QED
      BY <2>2, <2>3 DEF List!ReadSidecar, List!files, List!cached, List!TypeOK
  <1>2. Counted'
    BY SignatureIsNew
       DEF List!ReadSidecar, List!files, List!cached, List!locals, Counted
  <1>3. ListPast'
    BY <1>0, ListTyped
       DEF List!ReadSidecar, List!files, List!cached, List!locals, ListPast
  <1>4. FoundTrue'
    <2>1. lfound[t] \in [Works -> 0..(MaxChanges + 1)] /\ Found(t) /\ lpc[t] = "scan"
      BY DEF List!TypeOK, FoundTrue, List!ReadSidecar
    <2>2. CASE skipped'
      BY <2>2 DEF FoundTrue, Found
    <2>3. CASE ~skipped'
      <3>1. /\ ~skipped
            /\ ltodo'[t] = ltodo[t] \ {w}
            /\ lfound'[t][w] = List!Shown[w]
            /\ \A x \in Works : x # w => lfound'[t][x] = lfound[t][x]
        BY <2>1, <2>3, ListTyped DEF List!ReadSidecar
      <3>2. Found(t)'
        BY <1>0, <2>1, <3>1 DEF Found, List!ReadSidecar
      <3>3. \A u \in Threads : u # t => Found(u)'
        BY <1>0, <3>1, ListTyped DEF FoundTrue, Found, List!ReadSidecar
      <3> QED
        BY <3>2, <3>3 DEF FoundTrue
    <2> QED
      BY <2>2, <2>3
  <1>5. Unpaired'
    BY ListTyped
       DEF List!ReadSidecar, List!files, List!cached, List!locals, Unpaired,
           List!Everyone
  <1>6. ListOneAtATime'
    BY ListTyped
       DEF List!ReadSidecar, List!files, List!cached, List!locals, ListOneAtATime,
           List!Everyone
  <1>7. CacheIsTrue'
    BY <1>0, ListTyped
       DEF List!ReadSidecar, List!files, List!cached, List!locals, ListOneAtATime,
           CacheIsTrue, List!Everyone
  <1>8. CurrentCalls'
    BY <1>0, ListTyped
       DEF List!ReadSidecar, List!files, List!cached, List!locals, ListOneAtATime,
           CurrentCalls, ListCurrentCall, Sure, List!Everyone
  <1> QED
    BY <1>1, <1>2, <1>3, <1>4, <1>5, <1>6, <1>7, <1>8

LEMMA KeepSignatureKept ==
  ASSUME ListAssumed, ListInv, NEW t \in Threads, List!KeepSignature(t)
  PROVE  ListInv'
  <1> USE DEF ListInv, List!Goto
  <1>0. UNCHANGED <<List!Signature, List!Shown, writes>>
    BY DEF List!KeepSignature, List!files, List!cached, List!locals, List!files,
           List!Signature, List!Shown
  <1>1. List!TypeOK'
    BY RowsTyped
       DEF List!KeepSignature, List!files, List!cached, List!locals, List!TypeOK
  <1>2. Counted'
    BY SignatureIsNew
       DEF List!KeepSignature, List!files, List!cached, List!locals, Counted
  <1>3. ListPast'
    BY <1>0, ListTyped
       DEF List!KeepSignature, List!files, List!cached, List!locals, ListPast
  <1>4. FoundTrue'
    BY <1>0, ListTyped
       DEF List!KeepSignature, List!files, List!cached, List!locals, FoundTrue, Found,
           Shows
  <1>5. Unpaired'
    BY ListTyped
       DEF List!KeepSignature, List!files, List!cached, List!locals, Unpaired,
           List!Everyone
  <1>6. ListOneAtATime'
    BY ListTyped
       DEF List!KeepSignature, List!files, List!cached, List!locals, ListOneAtATime,
           List!Everyone
  <1>7. CacheIsTrue'
    BY <1>0, ListTyped
       DEF List!KeepSignature, List!files, List!cached, List!locals, ListOneAtATime,
           CacheIsTrue, List!Everyone
  <1>8. CurrentCalls'
    BY <1>0, ListTyped
       DEF List!KeepSignature, List!files, List!cached, List!locals, ListOneAtATime,
           CurrentCalls, ListCurrentCall, Sure, List!Everyone
  <1> QED
    BY <1>1, <1>2, <1>3, <1>4, <1>5, <1>6, <1>7, <1>8

LEMMA KeepRowsKept ==
  ASSUME ListAssumed, ListInv, NEW t \in Threads, List!KeepRows(t)
  PROVE  ListInv'
  <1> USE DEF ListInv, List!Goto
  <1>0. UNCHANGED <<List!Signature, List!Shown, writes>>
    BY DEF List!KeepRows, List!files, List!cached, List!locals, List!files,
           List!Signature, List!Shown
  <1>1. List!TypeOK'
    BY RowsTyped DEF List!KeepRows, List!files, List!cached, List!locals, List!TypeOK
  <1>2. Counted'
    BY SignatureIsNew DEF List!KeepRows, List!files, List!cached, List!locals, Counted
  <1>3. ListPast'
    BY <1>0, ListTyped DEF List!KeepRows, List!files, List!cached, List!locals, ListPast
  <1>4. FoundTrue'
    BY <1>0, ListTyped
       DEF List!KeepRows, List!files, List!cached, List!locals, FoundTrue, Found
  <1>5. Unpaired'
    BY ListTyped
       DEF List!KeepRows, List!files, List!cached, List!locals, Unpaired, List!Everyone
  <1>6. ListOneAtATime'
    BY ListTyped
       DEF List!KeepRows, List!files, List!cached, List!locals, ListOneAtATime,
           List!Everyone
  <1>7. CacheIsTrue'
    BY <1>0, ListTyped
       DEF List!KeepRows, List!files, List!cached, List!locals, ListOneAtATime,
           CacheIsTrue, List!Everyone, CurrentCalls, ListCurrentCall, Sure, FoundTrue,
           Found, Unpaired
  <1>8. CurrentCalls'
    BY <1>0, ListTyped
       DEF List!KeepRows, List!files, List!cached, List!locals, ListOneAtATime,
           CurrentCalls, ListCurrentCall, Sure, List!Everyone, FoundTrue, Found,
           Unpaired
  <1> QED
    BY <1>1, <1>2, <1>3, <1>4, <1>5, <1>6, <1>7, <1>8

LEMMA KeepPairKept ==
  ASSUME ListAssumed, ListInv, NEW t \in Threads, List!KeepPair(t)
  PROVE  ListInv'
  <1> USE DEF ListInv, List!Goto
  <1>0. UNCHANGED <<List!Signature, List!Shown, writes>>
    BY DEF List!KeepPair, List!files, List!cached, List!locals, List!files,
           List!Signature, List!Shown
  <1>1. List!TypeOK'
    BY RowsTyped DEF List!KeepPair, List!files, List!cached, List!locals, List!TypeOK
  <1>2. Counted'
    BY SignatureIsNew DEF List!KeepPair, List!files, List!cached, List!locals, Counted
  <1>3. ListPast'
    BY <1>0, ListTyped DEF List!KeepPair, List!files, List!cached, List!locals, ListPast
  <1>4. FoundTrue'
    BY <1>0, ListTyped
       DEF List!KeepPair, List!files, List!cached, List!locals, FoundTrue, Found
  <1>5. Unpaired'
    BY ListTyped
       DEF List!KeepPair, List!files, List!cached, List!locals, Unpaired, List!Everyone
  <1>6. ListOneAtATime'
    BY ListTyped
       DEF List!KeepPair, List!files, List!cached, List!locals, ListOneAtATime,
           List!Everyone
  <1>7. CacheIsTrue'
    BY <1>0, ListTyped
       DEF List!KeepPair, List!files, List!cached, List!locals, ListOneAtATime,
           CacheIsTrue, List!Everyone, FoundTrue, Found, Shows
  <1>8. CurrentCalls'
    BY <1>0, ListTyped
       DEF List!KeepPair, List!files, List!cached, List!locals, ListOneAtATime,
           CurrentCalls, ListCurrentCall, Sure, List!Everyone, FoundTrue, Found, Shows
  <1> QED
    BY <1>1, <1>2, <1>3, <1>4, <1>5, <1>6, <1>7, <1>8

LEMMA ListAnswerKept ==
  ASSUME ListAssumed, ListInv, NEW t \in Threads, List!Answer(t)
  PROVE  ListInv'
  <1> USE DEF ListInv, List!Goto
  <1>0. UNCHANGED <<List!Signature, List!Shown, writes>>
    BY DEF List!Answer, List!files, List!cached, List!locals, List!files,
           List!Signature, List!Shown
  <1>1. List!TypeOK'
    <2>1. lfound' \in [Threads -> [Works -> 0..(MaxChanges + 1)]]
      BY RowsTyped DEF List!Answer, List!TypeOK
    <2> QED
      BY <2>1 DEF List!Answer, List!files, List!cached, List!TypeOK
  <1>2. Counted'
    BY SignatureIsNew DEF List!Answer, List!files, List!cached, List!locals, Counted
  <1>3. ListPast'
    BY <1>0, ListTyped, NothingIsKnown
       DEF List!Answer, List!files, List!cached, List!locals, ListPast
  <1>4. FoundTrue'
    BY <1>0, ListTyped
       DEF List!Answer, List!files, List!cached, List!locals, FoundTrue, Found
  <1>5. Unpaired'
    BY ListTyped
       DEF List!Answer, List!files, List!cached, List!locals, Unpaired, List!Everyone
  <1>6. ListOneAtATime'
    BY ListTyped
       DEF List!Answer, List!files, List!cached, List!locals, ListOneAtATime,
           List!Everyone
  <1>7. CacheIsTrue'
    BY <1>0, ListTyped
       DEF List!Answer, List!files, List!cached, List!locals, ListOneAtATime,
           CacheIsTrue, List!Everyone
  <1>8. CurrentCalls'
    BY <1>0, ListTyped
       DEF List!Answer, List!files, List!cached, List!locals, ListOneAtATime,
           CurrentCalls, ListCurrentCall, Sure, List!Everyone
  <1> QED
    BY <1>1, <1>2, <1>3, <1>4, <1>5, <1>6, <1>7, <1>8

LEMMA ListClearSignatureKept ==
  ASSUME ListAssumed, ListInv, NEW t \in {Reviewer}, List!ClearSignature(t)
  PROVE  ListInv'
  <1> USE DEF ListInv, List!Goto
  <1>0. UNCHANGED <<List!Signature, List!Shown, writes>>
    BY DEF List!ClearSignature, List!files, List!cached, List!locals, List!files,
           List!Signature, List!Shown
  <1>1. List!TypeOK'
    BY RowsTyped
       DEF List!ClearSignature, List!files, List!cached, List!locals, List!TypeOK
  <1>2. Counted'
    BY SignatureIsNew
       DEF List!ClearSignature, List!files, List!cached, List!locals, Counted
  <1>3. ListPast'
    BY <1>0, ListTyped, NothingIsKnown
       DEF List!ClearSignature, List!files, List!cached, List!locals, ListPast
  <1>4. FoundTrue'
    BY <1>0, ListTyped
       DEF List!ClearSignature, List!files, List!cached, List!locals, FoundTrue, Found
  <1>5. Unpaired'
    BY ListTyped
       DEF List!ClearSignature, List!files, List!cached, List!locals, Unpaired,
           List!Everyone
  <1>6. ListOneAtATime'
    BY ListTyped
       DEF List!ClearSignature, List!files, List!cached, List!locals, ListOneAtATime,
           List!Everyone
  <1>7. CacheIsTrue'
    BY <1>0, ListTyped, SignatureIsNew
       DEF List!ClearSignature, List!files, List!cached, List!locals, ListOneAtATime,
           CacheIsTrue, List!Everyone
  <1>8. CurrentCalls'
    BY <1>0, ListTyped, SignatureIsNew
       DEF List!ClearSignature, List!files, List!cached, List!locals, ListOneAtATime,
           CurrentCalls, ListCurrentCall, Sure, List!Everyone
  <1> QED
    BY <1>1, <1>2, <1>3, <1>4, <1>5, <1>6, <1>7, <1>8

LEMMA ClearRowsKept ==
  ASSUME ListAssumed, ListInv, NEW t \in {Reviewer}, List!ClearRows(t)
  PROVE  ListInv'
  <1> USE DEF ListInv, List!Goto
  <1>0. UNCHANGED <<List!Signature, List!Shown, writes>>
    BY DEF List!ClearRows, List!files, List!cached, List!locals, List!files,
           List!Signature, List!Shown
  <1>1. List!TypeOK'
    BY RowsTyped DEF List!ClearRows, List!files, List!cached, List!locals, List!TypeOK
  <1>2. Counted'
    BY SignatureIsNew DEF List!ClearRows, List!files, List!cached, List!locals, Counted
  <1>3. ListPast'
    BY <1>0, ListTyped
       DEF List!ClearRows, List!files, List!cached, List!locals, ListPast
  <1>4. FoundTrue'
    BY <1>0, ListTyped
       DEF List!ClearRows, List!files, List!cached, List!locals, FoundTrue, Found
  <1>5. Unpaired'
    BY ListTyped
       DEF List!ClearRows, List!files, List!cached, List!locals, Unpaired, List!Everyone
  <1>6. ListOneAtATime'
    BY ListTyped
       DEF List!ClearRows, List!files, List!cached, List!locals, ListOneAtATime,
           List!Everyone
  <1>7. CacheIsTrue'
    BY <1>0, ListTyped
       DEF List!ClearRows, List!files, List!cached, List!locals, ListOneAtATime,
           CacheIsTrue, List!Everyone, CurrentCalls, Unpaired
  <1>8. CurrentCalls'
    BY <1>0, ListTyped
       DEF List!ClearRows, List!files, List!cached, List!locals, ListOneAtATime,
           CurrentCalls, ListCurrentCall, Sure, List!Everyone
  <1> QED
    BY <1>1, <1>2, <1>3, <1>4, <1>5, <1>6, <1>7, <1>8

LEMMA BeginReviewKept ==
  ASSUME ListAssumed, ListInv, NEW t \in {Reviewer}, NEW w \in Works,
         List!BeginReview(t, w)
  PROVE  ListInv'
  <1> USE DEF ListInv, List!Goto
  <1>0. /\ version \in [Works -> Versions] /\ torn \in SUBSET Works
        /\ writes \in 0..MaxChanges /\ writes \in Nat /\ writes < MaxChanges
        /\ writes' = writes + 1
    BY DEF List!BeginReview, List!Written, List!TypeOK, Counted, Versions, ListAssumed,
           List!BoundAssumption
  <1>9. \A s : Known(s, List!Signature, writes) =>
                 Known(s, List!Signature', writes') /\ s # List!Signature'
    BY <1>0, WrittenIsNew DEF List!BeginReview, List!Written, List!Signature
  <1>1. List!TypeOK'
    <2>1. writes + 2 \in 1..(MaxChanges + 1)
      BY <1>0 DEF ListAssumed, List!BoundAssumption
    <2>2. version' \in [Works -> 1..(MaxChanges + 1)] /\ torn' \in SUBSET Works
      BY <2>1 DEF List!BeginReview, List!Written, List!TypeOK
    <2>3. lalone' \in [Threads -> BOOLEAN] /\ lcalm' \in BOOLEAN
      BY DEF List!BeginReview, List!Written, List!Idle
    <2> QED
      BY <2>2, <2>3
         DEF List!BeginReview, List!Written, List!cached, List!locals, List!TypeOK
  <1>2. Counted'
    <2>1. writes' \in 0..MaxChanges
      BY <1>0 DEF ListAssumed, List!BoundAssumption
    <2>2. \A x \in Works : version[x] \in Nat /\ version[x] <= writes + 1
      BY <1>0 DEF Counted, Versions, ListAssumed, List!BoundAssumption
    <2>3. \A x \in Works : version'[x] <= writes' + 1
      BY <1>0, <2>2 DEF List!BeginReview, List!Written
    <2> QED
      BY <2>1, <2>3 DEF List!BeginReview, List!Written, List!locals, Counted
  <1>3. ListPast'
    BY <1>0, ListTyped, <1>9
       DEF List!BeginReview, List!cached, List!locals, List!Idle, List!Written,
           ListPast, List!cached
  <1>4. FoundTrue'
    BY <1>0, ListTyped, <1>9
       DEF List!BeginReview, List!cached, List!locals, List!Idle, List!Written,
           FoundTrue, Found, ListPast
  <1>5. Unpaired'
    BY ListTyped
       DEF List!BeginReview, List!cached, List!locals, List!Idle, List!Written,
           Unpaired, List!Everyone
  <1>6. ListOneAtATime'
    BY ListTyped
       DEF List!BeginReview, List!cached, List!locals, List!Idle, List!Written,
           ListOneAtATime, List!Everyone
  <1>7. CacheIsTrue'
    BY <1>0, ListTyped, <1>9
       DEF List!BeginReview, List!cached, List!locals, List!Idle, List!Written,
           ListOneAtATime, CacheIsTrue, List!Everyone, ListPast
  <1>8. CurrentCalls'
    BY <1>0, ListTyped, <1>9
       DEF List!BeginReview, List!cached, List!locals, List!Idle, List!Written,
           ListOneAtATime, CurrentCalls, ListCurrentCall, Sure, List!Everyone, ListPast
  <1> QED
    BY <1>1, <1>2, <1>3, <1>4, <1>5, <1>6, <1>7, <1>8

LEMMA WriteOutsideKept ==
  ASSUME ListAssumed, ListInv, NEW w \in Works, List!WriteOutside(w)
  PROVE  ListInv'
  <1> USE DEF ListInv, List!Goto
  <1>0. /\ version \in [Works -> Versions] /\ torn \in SUBSET Works
        /\ writes \in 0..MaxChanges /\ writes \in Nat /\ writes < MaxChanges
        /\ writes' = writes + 1
    BY DEF List!WriteOutside, List!Written, List!TypeOK, Counted, Versions, ListAssumed,
           List!BoundAssumption
  <1>9. \A s : Known(s, List!Signature, writes) =>
                 Known(s, List!Signature', writes') /\ s # List!Signature'
    BY <1>0, WrittenIsNew DEF List!WriteOutside, List!Written, List!Signature
  <1>1. List!TypeOK'
    <2>1. writes + 2 \in 1..(MaxChanges + 1)
      BY <1>0 DEF ListAssumed, List!BoundAssumption
    <2>2. version' \in [Works -> 1..(MaxChanges + 1)] /\ torn' \in SUBSET Works
      BY <2>1 DEF List!WriteOutside, List!Written, List!TypeOK
    <2>3. lalone' \in [Threads -> BOOLEAN] /\ lcalm' \in BOOLEAN
      BY DEF List!WriteOutside, List!Written, List!Idle
    <2> QED
      BY <2>2, <2>3
         DEF List!WriteOutside, List!Written, List!cached, List!locals, List!TypeOK
  <1>2. Counted'
    <2>1. writes' \in 0..MaxChanges
      BY <1>0 DEF ListAssumed, List!BoundAssumption
    <2>2. \A x \in Works : version[x] \in Nat /\ version[x] <= writes + 1
      BY <1>0 DEF Counted, Versions, ListAssumed, List!BoundAssumption
    <2>3. \A x \in Works : version'[x] <= writes' + 1
      BY <1>0, <2>2 DEF List!WriteOutside, List!Written
    <2> QED
      BY <2>1, <2>3 DEF List!WriteOutside, List!Written, List!locals, Counted
  <1>3. ListPast'
    BY <1>0, ListTyped, <1>9
       DEF List!WriteOutside, List!cached, List!locals, List!Idle, List!Written,
           ListPast, List!cached
  <1>4. FoundTrue'
    BY <1>0, ListTyped, <1>9
       DEF List!WriteOutside, List!cached, List!locals, List!Idle, List!Written,
           FoundTrue, Found, ListPast
  <1>5. Unpaired'
    BY ListTyped
       DEF List!WriteOutside, List!cached, List!locals, List!Idle, List!Written,
           Unpaired, List!Everyone
  <1>6. ListOneAtATime'
    BY ListTyped
       DEF List!WriteOutside, List!cached, List!locals, List!Idle, List!Written,
           ListOneAtATime, List!Everyone
  <1>7. CacheIsTrue'
    BY <1>0, ListTyped, <1>9
       DEF List!WriteOutside, List!cached, List!locals, List!Idle, List!Written,
           ListOneAtATime, CacheIsTrue, List!Everyone, ListPast
  <1>8. CurrentCalls'
    BY <1>0, ListTyped, <1>9
       DEF List!WriteOutside, List!cached, List!locals, List!Idle, List!Written,
           ListOneAtATime, CurrentCalls, ListCurrentCall, Sure, List!Everyone, ListPast
  <1> QED
    BY <1>1, <1>2, <1>3, <1>4, <1>5, <1>6, <1>7, <1>8

LEMMA TruncateOutsideKept ==
  ASSUME ListAssumed, ListInv, NEW w \in Works, List!TruncateOutside(w)
  PROVE  ListInv'
  <1> USE DEF ListInv, List!Goto
  <1>0. /\ version \in [Works -> Versions] /\ torn \in SUBSET Works
        /\ writes \in 0..MaxChanges /\ writes \in Nat /\ writes < MaxChanges
        /\ writes' = writes + 1
    BY DEF List!TruncateOutside, List!TypeOK, Counted, Versions, ListAssumed,
           List!BoundAssumption
  <1>9. \A s : Known(s, List!Signature, writes) =>
                 Known(s, List!Signature', writes') /\ s # List!Signature'
    BY <1>0, TornIsNew DEF List!TruncateOutside, List!Signature
  <1>1. List!TypeOK'
    <2>1. writes + 2 \in 1..(MaxChanges + 1)
      BY <1>0 DEF ListAssumed, List!BoundAssumption
    <2>2. version' \in [Works -> 1..(MaxChanges + 1)] /\ torn' \in SUBSET Works
      BY <2>1 DEF List!TruncateOutside, List!TypeOK
    <2>3. lalone' \in [Threads -> BOOLEAN] /\ lcalm' \in BOOLEAN
      BY DEF List!TruncateOutside, List!Idle
    <2> QED
      BY <2>2, <2>3 DEF List!TruncateOutside, List!cached, List!locals, List!TypeOK
  <1>2. Counted'
    <2>1. writes' \in 0..MaxChanges
      BY <1>0 DEF ListAssumed, List!BoundAssumption
    <2>2. \A x \in Works : version[x] \in Nat /\ version[x] <= writes + 1
      BY <1>0 DEF Counted, Versions, ListAssumed, List!BoundAssumption
    <2>3. \A x \in Works : version'[x] <= writes' + 1
      BY <1>0, <2>2 DEF List!TruncateOutside
    <2> QED
      BY <2>1, <2>3 DEF List!TruncateOutside, List!locals, Counted
  <1>3. ListPast'
    BY <1>0, ListTyped, <1>9
       DEF List!TruncateOutside, List!cached, List!locals, List!Idle, ListPast,
           List!cached
  <1>4. FoundTrue'
    BY <1>0, ListTyped, <1>9
       DEF List!TruncateOutside, List!cached, List!locals, List!Idle, FoundTrue, Found,
           ListPast
  <1>5. Unpaired'
    BY ListTyped
       DEF List!TruncateOutside, List!cached, List!locals, List!Idle, Unpaired,
           List!Everyone
  <1>6. ListOneAtATime'
    BY ListTyped
       DEF List!TruncateOutside, List!cached, List!locals, List!Idle, ListOneAtATime,
           List!Everyone
  <1>7. CacheIsTrue'
    BY <1>0, ListTyped, <1>9
       DEF List!TruncateOutside, List!cached, List!locals, List!Idle, ListOneAtATime,
           CacheIsTrue, List!Everyone, ListPast
  <1>8. CurrentCalls'
    BY <1>0, ListTyped, <1>9
       DEF List!TruncateOutside, List!cached, List!locals, List!Idle, ListOneAtATime,
           CurrentCalls, ListCurrentCall, Sure, List!Everyone, ListPast
  <1> QED
    BY <1>1, <1>2, <1>3, <1>4, <1>5, <1>6, <1>7, <1>8

LEMMA ListStutterKept == ASSUME ListAssumed, ListInv, UNCHANGED List!vars PROVE ListInv'
  <1> USE DEF ListInv, List!Goto
  <1>0. UNCHANGED <<List!Signature, List!Shown, writes>>
    BY DEF List!vars, List!files, List!cached, List!locals, List!files, List!Signature,
           List!Shown
  <1>1. List!TypeOK'
    BY RowsTyped DEF List!vars, List!files, List!cached, List!locals, List!TypeOK
  <1>2. Counted'
    BY SignatureIsNew DEF List!vars, List!files, List!cached, List!locals, Counted
  <1>3. ListPast'
    BY <1>0, ListTyped DEF List!vars, List!files, List!cached, List!locals, ListPast
  <1>4. FoundTrue'
    BY <1>0, ListTyped
       DEF List!vars, List!files, List!cached, List!locals, FoundTrue, Found
  <1>5. Unpaired'
    BY ListTyped
       DEF List!vars, List!files, List!cached, List!locals, Unpaired, List!Everyone
  <1>6. ListOneAtATime'
    BY ListTyped
       DEF List!vars, List!files, List!cached, List!locals, ListOneAtATime,
           List!Everyone
  <1>7. CacheIsTrue'
    BY <1>0, ListTyped
       DEF List!vars, List!files, List!cached, List!locals, ListOneAtATime, CacheIsTrue,
           List!Everyone
  <1>8. CurrentCalls'
    BY <1>0, ListTyped
       DEF List!vars, List!files, List!cached, List!locals, ListOneAtATime,
           CurrentCalls, ListCurrentCall, Sure, List!Everyone
  <1> QED
    BY <1>1, <1>2, <1>3, <1>4, <1>5, <1>6, <1>7, <1>8

LEMMA ListStep == ASSUME ListAssumed, ListInv, [List!Next]_(List!vars) PROVE ListInv'
  <1>1. ASSUME NEW t \in Threads,
               \/ List!BeginList(t) \/ List!TakeSignature(t) \/ List!Check(t) \/ List!Hit(t)
               \/ (\E w \in Works : List!ReadSidecar(t, w))
               \/ List!KeepSignature(t) \/ List!KeepRows(t) \/ List!KeepPair(t) \/ List!Answer(t)
        PROVE  ListInv'
    BY <1>1, BeginListKept, TakeSignatureKept, ListCheckKept, ListHitKept,
       ReadSidecarKept, KeepSignatureKept, KeepRowsKept, KeepPairKept, ListAnswerKept
  <1>2. ASSUME NEW t \in {Reviewer},
               (\E w \in Works : List!BeginReview(t, w)) \/ List!ClearSignature(t) \/ List!ClearRows(t)
        PROVE  ListInv'
    BY <1>2, BeginReviewKept, ListClearSignatureKept, ClearRowsKept
  <1>3. ASSUME NEW w \in Works, List!WriteOutside(w) \/ List!TruncateOutside(w)
        PROVE  ListInv'
    BY <1>3, WriteOutsideKept, TruncateOutsideKept
  <1> QED
    BY <1>1, <1>2, <1>3, ListStutterKept DEF List!Next

LEMMA ListInvCurrent ==
  ASSUME ListAssumed, ListInv PROVE List!CalmListIsCurrent /\ List!LonePairIsCurrent
  <1>1. \A w \in Works : List!Shown[w] \in Nat
    BY RowsTyped DEF ListInv, ListAssumed, List!BoundAssumption
  <1>2. ASSUME NEW t \in Threads, Sure(t), lpc[t] = "done", ~skipped PROVE List!UpToDate(t)
    <2>1. Shows(lfound[t], List!Shown)
      BY <1>2 DEF ListInv, CurrentCalls, ListCurrentCall
    <2>2. \A w \in Works : lfound[t][w] = List!Shown[w]
      BY <2>1 DEF Shows
    <2>3. \A a \in Nat : a >= a
      OBVIOUS
    <2> QED
      BY <1>1, <2>2, <2>3 DEF List!UpToDate
  <1> QED
    BY <1>2 DEF Sure, List!CalmListIsCurrent, List!LonePairIsCurrent

THEOREM ListKept == ASSUME ListAssumed PROVE List!Spec => []ListInv
  <1>1. List!Init => ListInv
    BY ListInit
  <1>2. ListInv /\ [List!Next]_(List!vars) => ListInv'
    BY ListStep
  <1> QED
    BY <1>1, <1>2, PTL DEF List!Spec

-----------------------------------------------------------------------------
(* What is known of master images *)

(* What entries may tell of a master: nothing of a later one, not that it  *)
(* is good when it is damaged; and not that it is damaged when it is good, *)
(* unless scans have overlapped or a read of it has failed.                *)
Sound(m, of) == /\ \A i \in Masters!Ids : i > of.id => m[i] = Masters!NoFact
                /\ of.kind = "damaged" => m[of.id] # "ok"
Fair(m, of) == of.kind # "damaged" => m[of.id] # "truncated"

Tells(m) == Sound(m, master) /\ (~overlap /\ master.id \notin misread => Fair(m, master))

NoneUnchecked(m) == \A i \in Masters!Ids : m[i] # "unchecked"

FilesTell ==
  \A f \in {fcache, tmp} : f \notin {Torn, Absent} => Tells(f) /\ NoneUnchecked(f)

CopiesTell ==
  \A t \in Threads : /\ Tells(entries[t])
                     /\ fpc[t] \in {"create", "write"} => NoneUnchecked(entries[t])

Judged(t) ==
  /\ key[t] <= master.id
  /\ fpc[t] \notin {"probe", "lift", "decode", "restore", "store"} => fact[t] = Masters!NoFact
  /\ key[t] = master.id =>
        /\ master.kind = "damaged" => fact[t] # "ok"
        /\ ~overlap /\ master.kind # "damaged" /\ master.id \notin misread =>
             fact[t] # "truncated"

FactsTell == \A t \in Threads : Judged(t)

OpenWrites == \A t \in Threads : open[t] # "none" => fpc[t] = "write"

LoneLister ==
  ~overlap => /\ \A t, u \in Threads : fpc[t] # "idle" /\ fpc[u] # "idle" => t = u
              /\ \A t \in Threads : fpc[t] = "decode" => ceiling = "none"

MasterInv == /\ Masters!TypeOK /\ LoneLister /\ OpenWrites /\ FactsTell
             /\ Tells(memo) /\ FilesTell /\ CopiesTell

(* Operators *)

LEMMA NoEntriesTell ==
  ASSUME NEW of \in [id : Masters!Ids, kind : Kinds]
  PROVE  /\ Masters!NoEntries \in Masters!Entries /\ Sound(Masters!NoEntries, of) /\ Fair(Masters!NoEntries, of)
         /\ NoneUnchecked(Masters!NoEntries)
  BY DEF Sound, Fair, NoneUnchecked, Masters!NoEntries, Masters!NoFact, Masters!Entries

LEMMA CheckedTell ==
  ASSUME NEW of \in [id : Masters!Ids, kind : Kinds], NEW m \in Masters!Entries
  PROVE  /\ Masters!Checked(m) \in Masters!Entries /\ NoneUnchecked(Masters!Checked(m))
         /\ Sound(m, of) => Sound(Masters!Checked(m), of)
         /\ Fair(m, of) => Fair(Masters!Checked(m), of)
  BY DEF Sound, Fair, NoneUnchecked, Masters!Checked, Masters!NoFact, Masters!Entries

Loaded(saved, m) ==
  [i \in Masters!Ids |-> IF saved[i] \in {"ok", "truncated"} THEN saved[i] ELSE m[i]]

LEMMA LoadedTell ==
  ASSUME NEW of \in [id : Masters!Ids, kind : Kinds], NEW saved \in Masters!Entries, NEW m \in Masters!Entries
  PROVE  /\ Loaded(saved, m) \in Masters!Entries
         /\ Sound(saved, of) /\ Sound(m, of) => Sound(Loaded(saved, m), of)
         /\ Fair(saved, of) /\ Fair(m, of) => Fair(Loaded(saved, m), of)
  BY DEF Sound, Fair, Loaded, Masters!NoFact, Masters!Entries

LEMMA MemoisedTell ==
  ASSUME NEW of \in [id : Masters!Ids, kind : Kinds], NEW m \in Masters!Entries, NEW k \in Masters!Ids,
         NEW f \in Masters!Verdicts \cup {Masters!NoFact}, k <= of.id
  PROVE  /\ [m EXCEPT ![k] = f] \in Masters!Entries
         /\ Sound(m, of) /\ (k = of.id /\ of.kind = "damaged" => f # "ok")
              => Sound([m EXCEPT ![k] = f], of)
         /\ Fair(m, of) /\ (k = of.id /\ of.kind # "damaged" => f # "truncated")
              => Fair([m EXCEPT ![k] = f], of)
  BY DEF Sound, Fair, Masters!Entries, Masters!Ids

LEMMA NextMasterTells ==
  ASSUME NEW of \in [id : Masters!Ids, kind : Kinds], NEW next \in [id : Masters!Ids, kind : Kinds],
         next.id = of.id + 1, NEW m \in Masters!Entries, Sound(m, of)
  PROVE  Sound(m, next) /\ Fair(m, next)
  BY DEF Sound, Fair, Masters!Ids, Masters!NoFact

-----------------------------------------------------------------------------

LEMMA MasterInit == ASSUME Masters!MasterAssumption, Masters!Init PROVE MasterInv
  <1>1. master \in [id : Masters!Ids, kind : Kinds] /\ 1 \in Masters!Ids /\ master.id = 1
    BY DEF Masters!Init, Masters!Ids, Masters!MasterAssumption
  <1>2. Masters!TypeOK
    BY <1>1, NoEntriesTell DEF Masters!Init, Masters!TypeOK, Masters!Stored
  <1>3. Tells(Masters!NoEntries)
    BY <1>1, NoEntriesTell DEF Tells
  <1>4. FilesTell /\ CopiesTell
    BY <1>3 DEF Masters!Init, FilesTell, CopiesTell
  <1>5. FactsTell /\ OpenWrites /\ LoneLister
    BY <1>1 DEF Masters!Init, FactsTell, Judged, OpenWrites, LoneLister, Masters!NoFact
  <1> QED
    BY <1>2, <1>3, <1>4, <1>5 DEF MasterInv, Masters!Init

LEMMA MasterStatKept ==
  ASSUME Masters!MasterAssumption, MasterInv, NEW t \in Threads, Masters!Stat(t)
  PROVE  MasterInv'
  <1> USE DEF MasterInv, Masters!Goto, Masters!history
  <1>1. overlap' \in BOOLEAN /\ (overlap => overlap')
    BY DEF Masters!Stat, Masters!TypeOK
  <1>2. Masters!TypeOK'
    BY <1>1 DEF Masters!Stat, Masters!TypeOK
  <1>3. LoneLister'
    BY DEF Masters!Stat, Masters!TypeOK, LoneLister
  <1>4. OpenWrites'
    BY DEF Masters!Stat, Masters!TypeOK, OpenWrites
  <1>5. FactsTell'
    BY <1>1
       DEF Masters!Stat, Masters!TypeOK, FactsTell, Judged, Masters!Ids, Masters!NoFact
  <1>6. Tells(memo)' /\ FilesTell' /\ CopiesTell'
    BY <1>1 DEF Masters!Stat, Masters!TypeOK, Tells, FilesTell, CopiesTell
  <1> QED
    BY <1>2, <1>3, <1>4, <1>5, <1>6

LEMMA LoadMemoKept ==
  ASSUME Masters!MasterAssumption, MasterInv, NEW t \in Threads, Masters!LoadMemo(t)
  PROVE  MasterInv'
  <1> USE DEF MasterInv, Masters!Goto, Masters!history
  <1>1. /\ memo' \in Masters!Entries /\ Tells(memo)'
    <2>1. /\ master \in [id : Masters!Ids, kind : Kinds] /\ memo \in Masters!Entries
          /\ UNCHANGED <<master, overlap, misread>>
      BY DEF Masters!TypeOK, Masters!LoadMemo, Masters!history
    <2>2. CASE memo' = memo
      BY <2>1, <2>2 DEF Tells
    <2>3. CASE memo' # memo
      <3>1. fcache \in Masters!Entries /\ Tells(fcache)
        BY <2>3 DEF Masters!LoadMemo, Masters!TypeOK, Masters!Stored, FilesTell
      <3>2. memo' = Loaded(fcache, memo)
        BY <2>3 DEF Masters!LoadMemo, Loaded
      <3> QED
        BY <2>1, <3>1, <3>2, LoadedTell DEF Tells
    <2> QED
      BY <2>2, <2>3
  <1>2. Masters!TypeOK'
    BY <1>1 DEF Masters!LoadMemo, Masters!TypeOK
  <1>3. LoneLister'
    BY DEF Masters!LoadMemo, Masters!TypeOK, LoneLister
  <1>4. OpenWrites'
    BY DEF Masters!LoadMemo, Masters!TypeOK, OpenWrites
  <1>5. FactsTell'
    BY DEF Masters!LoadMemo, Masters!TypeOK, FactsTell, Judged, Masters!Ids,
           Masters!NoFact
  <1>6. Tells(memo)' /\ FilesTell' /\ CopiesTell'
    BY <1>1 DEF Masters!LoadMemo, Masters!TypeOK, Tells, FilesTell, CopiesTell
  <1> QED
    BY <1>2, <1>3, <1>4, <1>5, <1>6

LEMMA LookupKept ==
  ASSUME Masters!MasterAssumption, MasterInv, NEW t \in Threads, Masters!Lookup(t)
  PROVE  MasterInv'
  <1> USE DEF MasterInv, Masters!Goto, Masters!history
  <1>2. Masters!TypeOK'
    BY DEF Masters!Lookup, Masters!shared, Masters!TypeOK
  <1>3. LoneLister'
    BY DEF Masters!Lookup, Masters!shared, Masters!TypeOK, LoneLister
  <1>4. OpenWrites'
    BY DEF Masters!Lookup, Masters!shared, Masters!TypeOK, OpenWrites
  <1>5. FactsTell'
    BY DEF Masters!Lookup, Masters!shared, Masters!TypeOK, FactsTell, Judged,
           Masters!Ids, Masters!NoFact
  <1>6. Tells(memo)' /\ FilesTell' /\ CopiesTell'
    BY DEF Masters!Lookup, Masters!shared, Masters!TypeOK, Tells, FilesTell, CopiesTell
  <1> QED
    BY <1>2, <1>3, <1>4, <1>5, <1>6

LEMMA ProbeFailsKept ==
  ASSUME Masters!MasterAssumption, MasterInv, NEW t \in Threads, Masters!ProbeFails(t)
  PROVE  MasterInv'
  <1> USE DEF MasterInv, Masters!Goto, Masters!history
  <1>2. Masters!TypeOK'
    BY DEF Masters!ProbeFails, Masters!shared, Masters!Verdicts, Masters!TypeOK
  <1>3. LoneLister'
    BY DEF Masters!ProbeFails, Masters!shared, Masters!TypeOK, LoneLister
  <1>4. OpenWrites'
    BY DEF Masters!ProbeFails, Masters!shared, Masters!TypeOK, OpenWrites
  <1>5. FactsTell'
    BY DEF Masters!ProbeFails, Masters!shared, Masters!TypeOK, FactsTell, Judged,
           Masters!Ids, Masters!NoFact
  <1>6. Tells(memo)' /\ FilesTell' /\ CopiesTell'
    BY DEF Masters!ProbeFails, Masters!shared, Masters!TypeOK, Tells, FilesTell,
           CopiesTell
  <1> QED
    BY <1>2, <1>3, <1>4, <1>5, <1>6

LEMMA SaveCeilingKept ==
  ASSUME Masters!MasterAssumption, MasterInv, NEW t \in Threads, Masters!SaveCeiling(t)
  PROVE  MasterInv'
  <1> USE DEF MasterInv, Masters!Goto, Masters!history
  <1>2. Masters!TypeOK'
    BY DEF Masters!SaveCeiling, Masters!shared, Masters!TypeOK
  <1>3. LoneLister'
    BY DEF Masters!SaveCeiling, Masters!shared, Masters!TypeOK, LoneLister
  <1>4. OpenWrites'
    BY DEF Masters!SaveCeiling, Masters!shared, Masters!TypeOK, OpenWrites
  <1>5. FactsTell'
    BY DEF Masters!SaveCeiling, Masters!shared, Masters!TypeOK, FactsTell, Judged,
           Masters!Ids, Masters!NoFact
  <1>6. Tells(memo)' /\ FilesTell' /\ CopiesTell'
    BY DEF Masters!SaveCeiling, Masters!shared, Masters!TypeOK, Tells, FilesTell,
           CopiesTell
  <1> QED
    BY <1>2, <1>3, <1>4, <1>5, <1>6

LEMMA FlushNothingKept ==
  ASSUME Masters!MasterAssumption, MasterInv, NEW t \in Threads, Masters!FlushNothing(t)
  PROVE  MasterInv'
  <1> USE DEF MasterInv, Masters!Goto, Masters!history
  <1>2. Masters!TypeOK'
    BY DEF Masters!FlushNothing, Masters!shared, Masters!TypeOK
  <1>3. LoneLister'
    BY DEF Masters!FlushNothing, Masters!shared, Masters!TypeOK, LoneLister
  <1>4. OpenWrites'
    BY DEF Masters!FlushNothing, Masters!shared, Masters!TypeOK, OpenWrites
  <1>5. FactsTell'
    BY DEF Masters!FlushNothing, Masters!shared, Masters!TypeOK, FactsTell, Judged,
           Masters!Ids, Masters!NoFact
  <1>6. Tells(memo)' /\ FilesTell' /\ CopiesTell'
    BY DEF Masters!FlushNothing, Masters!shared, Masters!TypeOK, Tells, FilesTell,
           CopiesTell
  <1> QED
    BY <1>2, <1>3, <1>4, <1>5, <1>6

LEMMA LiftCeilingKept ==
  ASSUME Masters!MasterAssumption, MasterInv, NEW t \in Threads, Masters!LiftCeiling(t)
  PROVE  MasterInv'
  <1> USE DEF MasterInv, Masters!Goto, Masters!history
  <1>2. Masters!TypeOK'
    BY DEF Masters!LiftCeiling, Masters!TypeOK
  <1>3. LoneLister'
    BY DEF Masters!LiftCeiling, Masters!TypeOK, LoneLister
  <1>4. OpenWrites'
    BY DEF Masters!LiftCeiling, Masters!TypeOK, OpenWrites
  <1>5. FactsTell'
    BY DEF Masters!LiftCeiling, Masters!TypeOK, FactsTell, Judged, Masters!Ids,
           Masters!NoFact
  <1>6. Tells(memo)' /\ FilesTell' /\ CopiesTell'
    BY DEF Masters!LiftCeiling, Masters!TypeOK, Tells, FilesTell, CopiesTell
  <1> QED
    BY <1>2, <1>3, <1>4, <1>5, <1>6

LEMMA RestoreCeilingKept ==
  ASSUME Masters!MasterAssumption, MasterInv, NEW t \in Threads,
         Masters!RestoreCeiling(t)
  PROVE  MasterInv'
  <1> USE DEF MasterInv, Masters!Goto, Masters!history
  <1>2. Masters!TypeOK'
    BY DEF Masters!RestoreCeiling, Masters!TypeOK
  <1>3. LoneLister'
    BY DEF Masters!RestoreCeiling, Masters!TypeOK, LoneLister
  <1>4. OpenWrites'
    BY DEF Masters!RestoreCeiling, Masters!TypeOK, OpenWrites
  <1>5. FactsTell'
    BY DEF Masters!RestoreCeiling, Masters!TypeOK, FactsTell, Judged, Masters!Ids,
           Masters!NoFact
  <1>6. Tells(memo)' /\ FilesTell' /\ CopiesTell'
    BY DEF Masters!RestoreCeiling, Masters!TypeOK, Tells, FilesTell, CopiesTell
  <1> QED
    BY <1>2, <1>3, <1>4, <1>5, <1>6

LEMMA DecodeKept ==
  ASSUME Masters!MasterAssumption, MasterInv, NEW t \in Threads, Masters!Decode(t)
  PROVE  MasterInv'
  <1> USE DEF MasterInv, Masters!Goto, Masters!history
  <1>1. fpc[t] = "decode" /\ (~overlap => ceiling = "none") /\ key[t] \in Masters!Ids
    BY DEF Masters!Decode, LoneLister, Masters!TypeOK
  <1>7. /\ misread \subseteq misread' /\ misread' \subseteq Masters!Ids
        /\ UNCHANGED <<master, ceiling, memo, fcache, tmp, key, entries, open, overlap>>
    BY <1>1 DEF Masters!Decode, Masters!shared, Masters!TypeOK
  <1>8. PICK v \in {"ok", "truncated"} :
          /\ fact' = [fact EXCEPT ![t] = v]
          /\ v = "ok" => master.kind # "damaged"
          /\ ~overlap /\ master.kind # "damaged" /\ key[t] \notin misread' => v # "truncated"
    BY <1>1 DEF Masters!Decode, Masters!Opens
  <1>2. Masters!TypeOK'
    BY <1>7, <1>8 DEF Masters!Decode, Masters!shared, Masters!Verdicts, Masters!TypeOK
  <1>3. LoneLister'
    BY <1>7 DEF Masters!Decode, Masters!TypeOK, LoneLister
  <1>4. OpenWrites'
    BY <1>1, <1>7 DEF Masters!Decode, Masters!TypeOK, OpenWrites
  <1>5. FactsTell'
    <2> SUFFICES ASSUME NEW u \in Threads PROVE Judged(u)'
      BY DEF FactsTell
    <2>1. /\ Judged(u)
          /\ fpc'[t] = "restore" /\ (u # t => fpc'[u] = fpc[u])
          /\ fact'[t] = v /\ (u # t => fact'[u] = fact[u])
      BY <1>8 DEF FactsTell, Masters!Decode, Masters!TypeOK
    <2>2. CASE u = t
      BY <1>7, <1>8, <2>1, <2>2 DEF Judged
    <2>3. CASE u # t
      BY <1>7, <2>1, <2>3 DEF Judged
    <2> QED
      BY <2>2, <2>3
  <1>6. Tells(memo)' /\ FilesTell' /\ CopiesTell'
    BY <1>1, <1>7 DEF Masters!Decode, Masters!TypeOK, Tells, FilesTell, CopiesTell
  <1> QED
    BY <1>2, <1>3, <1>4, <1>5, <1>6

LEMMA MemoiseKept ==
  ASSUME Masters!MasterAssumption, MasterInv, NEW t \in Threads, Masters!Memoise(t)
  PROVE  MasterInv'
  <1> USE DEF MasterInv, Masters!Goto, Masters!history
  <1>1. memo' \in Masters!Entries /\ Tells(memo)'
    <2>1. /\ master \in [id : Masters!Ids, kind : Kinds] /\ memo \in Masters!Entries
          /\ key[t] \in Masters!Ids /\ fact[t] \in Masters!Verdicts \cup {Masters!NoFact} /\ key[t] <= master.id
      BY DEF Masters!TypeOK, FactsTell, Judged
    <2> QED
      BY <2>1, MemoisedTell DEF Masters!Memoise, Tells, FactsTell, Judged
  <1>2. Masters!TypeOK'
    BY <1>1 DEF Masters!Memoise, Masters!TypeOK
  <1>3. LoneLister'
    BY DEF Masters!Memoise, Masters!TypeOK, LoneLister
  <1>4. OpenWrites'
    BY DEF Masters!Memoise, Masters!TypeOK, OpenWrites
  <1>5. FactsTell'
    BY <1>1
       DEF Masters!Memoise, Masters!TypeOK, FactsTell, Judged, Masters!Ids,
           Masters!NoFact
  <1>6. Tells(memo)' /\ FilesTell' /\ CopiesTell'
    BY <1>1 DEF Masters!Memoise, Masters!TypeOK, Tells, FilesTell, CopiesTell
  <1> QED
    BY <1>2, <1>3, <1>4, <1>5, <1>6

LEMMA BeginFlushKept ==
  ASSUME Masters!MasterAssumption, MasterInv, NEW t \in Threads, Masters!BeginFlush(t)
  PROVE  MasterInv'
  <1> USE DEF MasterInv, Masters!Goto, Masters!history
  <1>2. Masters!TypeOK'
    BY DEF Masters!BeginFlush, Masters!TypeOK
  <1>3. LoneLister'
    BY DEF Masters!BeginFlush, Masters!TypeOK, LoneLister
  <1>4. OpenWrites'
    BY DEF Masters!BeginFlush, Masters!TypeOK, OpenWrites
  <1>5. FactsTell'
    BY DEF Masters!BeginFlush, Masters!TypeOK, FactsTell, Judged, Masters!Ids,
           Masters!NoFact
  <1>6. Tells(memo)' /\ FilesTell' /\ CopiesTell'
    BY DEF Masters!BeginFlush, Masters!TypeOK, Tells, FilesTell, CopiesTell
  <1> QED
    BY <1>2, <1>3, <1>4, <1>5, <1>6

LEMMA CollectKept ==
  ASSUME Masters!MasterAssumption, MasterInv, NEW t \in Threads, Masters!Collect(t)
  PROVE  MasterInv'
  <1> USE DEF MasterInv, Masters!Goto, Masters!history
  <1>1. /\ Masters!Checked(memo) \in Masters!Entries /\ Tells(Masters!Checked(memo)) /\ NoneUnchecked(Masters!Checked(memo))
    BY CheckedTell DEF Masters!TypeOK, Tells
  <1>2. Masters!TypeOK'
    BY <1>1 DEF Masters!Collect, Masters!shared, Masters!TypeOK
  <1>3. LoneLister'
    BY DEF Masters!Collect, Masters!shared, Masters!TypeOK, LoneLister
  <1>4. OpenWrites'
    BY DEF Masters!Collect, Masters!shared, Masters!TypeOK, OpenWrites
  <1>5. FactsTell'
    BY DEF Masters!Collect, Masters!shared, Masters!TypeOK, FactsTell, Judged,
           Masters!Ids, Masters!NoFact
  <1>6. Tells(memo)' /\ FilesTell' /\ CopiesTell'
    BY <1>1
       DEF Masters!Collect, Masters!shared, Masters!TypeOK, Tells, FilesTell, CopiesTell
  <1> QED
    BY <1>2, <1>3, <1>4, <1>5, <1>6

LEMMA CollectFailsKept ==
  ASSUME Masters!MasterAssumption, MasterInv, NEW t \in Threads, Masters!CollectFails(t)
  PROVE  MasterInv'
  <1> USE DEF MasterInv, Masters!Goto, Masters!history
  <1>1. Masters!NoEntries \in Masters!Entries /\ Tells(Masters!NoEntries)
    BY NoEntriesTell DEF Masters!TypeOK, Tells
  <1>2. Masters!TypeOK'
    BY <1>1 DEF Masters!CollectFails, Masters!shared, Masters!TypeOK
  <1>3. LoneLister'
    BY DEF Masters!CollectFails, Masters!shared, Masters!TypeOK, LoneLister
  <1>4. OpenWrites'
    BY DEF Masters!CollectFails, Masters!shared, Masters!TypeOK, OpenWrites
  <1>5. FactsTell'
    BY DEF Masters!CollectFails, Masters!shared, Masters!TypeOK, FactsTell, Judged,
           Masters!Ids, Masters!NoFact
  <1>6. Tells(memo)' /\ FilesTell' /\ CopiesTell'
    BY <1>1
       DEF Masters!CollectFails, Masters!shared, Masters!TypeOK, Tells, FilesTell,
           CopiesTell
  <1> QED
    BY <1>2, <1>3, <1>4, <1>5, <1>6

LEMMA RenameFailsKept ==
  ASSUME Masters!MasterAssumption, MasterInv, NEW t \in Threads, Masters!RenameFails(t)
  PROVE  MasterInv'
  <1> USE DEF MasterInv, Masters!Goto, Masters!history
  <1>1. Masters!NoEntries \in Masters!Entries /\ Tells(Masters!NoEntries)
    BY NoEntriesTell DEF Masters!TypeOK, Tells
  <1>2. Masters!TypeOK'
    BY <1>1 DEF Masters!RenameFails, Masters!shared, Masters!TypeOK
  <1>3. LoneLister'
    BY DEF Masters!RenameFails, Masters!shared, Masters!TypeOK, LoneLister
  <1>4. OpenWrites'
    BY DEF Masters!RenameFails, Masters!shared, Masters!TypeOK, OpenWrites
  <1>5. FactsTell'
    BY DEF Masters!RenameFails, Masters!shared, Masters!TypeOK, FactsTell, Judged,
           Masters!Ids, Masters!NoFact
  <1>6. Tells(memo)' /\ FilesTell' /\ CopiesTell'
    BY <1>1
       DEF Masters!RenameFails, Masters!shared, Masters!TypeOK, Tells, FilesTell,
           CopiesTell
  <1> QED
    BY <1>2, <1>3, <1>4, <1>5, <1>6

LEMMA CreateTmpKept ==
  ASSUME Masters!MasterAssumption, MasterInv, NEW t \in Threads, Masters!CreateTmp(t)
  PROVE  MasterInv'
  <1> USE DEF MasterInv, Masters!Goto, Masters!history
  <1>2. Masters!TypeOK'
    BY DEF Masters!CreateTmp, Masters!Stored, Masters!TypeOK
  <1>3. LoneLister'
    BY DEF Masters!CreateTmp, Masters!Stored, Masters!TypeOK, LoneLister
  <1>4. OpenWrites'
    BY DEF Masters!CreateTmp, Masters!Stored, Masters!TypeOK, OpenWrites
  <1>5. FactsTell'
    BY DEF Masters!CreateTmp, Masters!Stored, Masters!TypeOK, FactsTell, Judged,
           Masters!Ids, Masters!NoFact
  <1>6. Tells(memo)' /\ FilesTell' /\ CopiesTell'
    BY DEF Masters!CreateTmp, Masters!Stored, Masters!TypeOK, Tells, FilesTell,
           CopiesTell
  <1> QED
    BY <1>2, <1>3, <1>4, <1>5, <1>6

LEMMA WriteTmpKept ==
  ASSUME Masters!MasterAssumption, MasterInv, NEW t \in Threads, Masters!WriteTmp(t)
  PROVE  MasterInv'
  <1> USE DEF MasterInv, Masters!Goto, Masters!history
  <1>1. tmp' \in Masters!Stored /\ fcache' \in Masters!Stored
    BY DEF Masters!WriteTmp, Masters!Over, Masters!Stored, Masters!TypeOK
  <1>7. tmp' \in {tmp, entries[t], Torn} /\ fcache' \in {fcache, entries[t], Torn}
    BY DEF Masters!WriteTmp, Masters!Over
  <1>8. Tells(entries[t]) /\ NoneUnchecked(entries[t])
    BY DEF Masters!WriteTmp, CopiesTell
  <1>2. Masters!TypeOK'
    BY <1>1 DEF Masters!WriteTmp, Masters!TypeOK
  <1>3. LoneLister'
    BY DEF Masters!WriteTmp, Masters!TypeOK, LoneLister
  <1>4. OpenWrites'
    BY DEF Masters!WriteTmp, Masters!TypeOK, OpenWrites
  <1>5. FactsTell'
    BY DEF Masters!WriteTmp, Masters!TypeOK, FactsTell, Judged, Masters!Ids,
           Masters!NoFact
  <1>6. Tells(memo)' /\ FilesTell' /\ CopiesTell'
    BY <1>7, <1>8 DEF Masters!WriteTmp, Masters!TypeOK, Tells, FilesTell, CopiesTell
  <1> QED
    BY <1>2, <1>3, <1>4, <1>5, <1>6

LEMMA RenameTmpKept ==
  ASSUME Masters!MasterAssumption, MasterInv, NEW t \in Threads, Masters!RenameTmp(t)
  PROVE  MasterInv'
  <1> USE DEF MasterInv, Masters!Goto, Masters!history
  <1>1. Masters!NoEntries \in Masters!Entries /\ Tells(Masters!NoEntries)
    BY NoEntriesTell DEF Masters!TypeOK, Tells
  <1>2. Masters!TypeOK'
    BY <1>1 DEF Masters!RenameTmp, Masters!TypeOK, Masters!Stored
  <1>3. LoneLister'
    BY DEF Masters!RenameTmp, Masters!TypeOK, LoneLister
  <1>4. OpenWrites'
    BY DEF Masters!RenameTmp, Masters!TypeOK, OpenWrites
  <1>5. FactsTell'
    BY DEF Masters!RenameTmp, Masters!TypeOK, FactsTell, Judged, Masters!Ids,
           Masters!NoFact
  <1>6. Tells(memo)' /\ FilesTell' /\ CopiesTell'
    BY <1>1 DEF Masters!RenameTmp, Masters!TypeOK, Tells, FilesTell, CopiesTell
  <1> QED
    BY <1>2, <1>3, <1>4, <1>5, <1>6

LEMMA ServeKept ==
  ASSUME Masters!MasterAssumption, MasterInv, Masters!Serve
  PROVE  MasterInv'
  <1> USE DEF MasterInv, Masters!Goto, Masters!history
  <1>2. Masters!TypeOK'
    BY DEF Masters!Serve, Masters!locals, Masters!TypeOK
  <1>3. LoneLister'
    BY DEF Masters!Serve, Masters!locals, Masters!TypeOK, LoneLister
  <1>4. OpenWrites'
    BY DEF Masters!Serve, Masters!locals, Masters!TypeOK, OpenWrites
  <1>5. FactsTell'
    BY DEF Masters!Serve, Masters!locals, Masters!TypeOK, FactsTell, Judged,
           Masters!Ids, Masters!NoFact
  <1>6. Tells(memo)' /\ FilesTell' /\ CopiesTell'
    BY DEF Masters!Serve, Masters!locals, Masters!TypeOK, Tells, FilesTell, CopiesTell
  <1> QED
    BY <1>2, <1>3, <1>4, <1>5, <1>6

LEMMA ReplaceMasterKept ==
  ASSUME Masters!MasterAssumption, MasterInv, NEW kind \in Kinds,
         Masters!ReplaceMaster(kind)
  PROVE  MasterInv'
  <1> USE DEF MasterInv, Masters!Goto, Masters!history
  <1>1. /\ master \in [id : Masters!Ids, kind : Kinds] /\ master' \in [id : Masters!Ids, kind : Kinds]
        /\ master'.id = master.id + 1
    BY DEF Masters!ReplaceMaster, Masters!TypeOK, Masters!Ids, Masters!MasterAssumption
  <1>7. \A m \in Masters!Entries : Tells(m) => Sound(m, master') /\ Fair(m, master')
    BY <1>1, NextMasterTells DEF Tells
  <1>8. /\ memo' = memo /\ memo \in Masters!Entries
        /\ \A f \in {fcache, tmp} : f \notin {Torn, Absent} => f \in Masters!Entries
        /\ \A t \in Threads : entries[t] \in Masters!Entries
        /\ fcache' = fcache /\ tmp' = tmp /\ entries' = entries /\ fpc' = fpc
    BY DEF Masters!ReplaceMaster, Masters!locals, Masters!TypeOK, Masters!Stored
  <1>2. Masters!TypeOK'
    BY <1>1 DEF Masters!ReplaceMaster, Masters!locals, Masters!TypeOK
  <1>3. LoneLister'
    BY DEF Masters!ReplaceMaster, Masters!locals, Masters!TypeOK, LoneLister
  <1>4. OpenWrites'
    BY DEF Masters!ReplaceMaster, Masters!locals, Masters!TypeOK, OpenWrites
  <1>5. FactsTell'
    BY <1>1
       DEF Masters!ReplaceMaster, Masters!locals, Masters!TypeOK, FactsTell, Judged,
           Masters!Ids, Masters!NoFact
  <1>6. Tells(memo)' /\ FilesTell' /\ CopiesTell'
    <2>2. Tells(memo)'
      BY <1>7, <1>8 DEF Tells
    <2>3. FilesTell'
      BY <1>7, <1>8 DEF FilesTell, Tells
    <2>4. CopiesTell'
      BY <1>7, <1>8 DEF CopiesTell, Tells
    <2> QED
      BY <2>2, <2>3, <2>4
  <1> QED
    BY <1>2, <1>3, <1>4, <1>5, <1>6

LEMMA RestartKept ==
  ASSUME Masters!MasterAssumption, MasterInv, Masters!Restart
  PROVE  MasterInv'
  <1> USE DEF MasterInv, Masters!Goto, Masters!history
  <1>1. Masters!NoEntries \in Masters!Entries /\ Tells(Masters!NoEntries) /\ 1 \in Masters!Ids /\ 1 <= master.id
    BY NoEntriesTell DEF Masters!TypeOK, Tells, Masters!Ids, Masters!MasterAssumption
  <1>2. Masters!TypeOK'
    BY <1>1 DEF Masters!Restart, Masters!NewLocals, Masters!TypeOK
  <1>3. LoneLister'
    BY DEF Masters!Restart, Masters!NewLocals, Masters!TypeOK, LoneLister
  <1>4. OpenWrites'
    BY DEF Masters!Restart, Masters!NewLocals, Masters!TypeOK, OpenWrites
  <1>5. FactsTell'
    BY <1>1
       DEF Masters!Restart, Masters!NewLocals, Masters!TypeOK, FactsTell, Judged,
           Masters!Ids, Masters!NoFact
  <1>6. Tells(memo)' /\ FilesTell' /\ CopiesTell'
    BY <1>1
       DEF Masters!Restart, Masters!NewLocals, Masters!TypeOK, Tells, FilesTell,
           CopiesTell
  <1> QED
    BY <1>2, <1>3, <1>4, <1>5, <1>6

LEMMA MasterStutterKept == ASSUME MasterInv, UNCHANGED Masters!vars PROVE MasterInv'
  <1>1. Masters!TypeOK' /\ LoneLister' /\ OpenWrites'
    BY DEF MasterInv, Masters!vars, Masters!shared, Masters!locals, Masters!history, Masters!TypeOK,
           LoneLister, OpenWrites
  <1>2. FactsTell'
    BY DEF MasterInv, Masters!vars, Masters!shared, Masters!locals, Masters!history, FactsTell, Judged
  <1>3. Tells(memo)' /\ FilesTell' /\ CopiesTell'
    BY DEF MasterInv, Masters!vars, Masters!shared, Masters!locals, Masters!history, Tells, FilesTell,
           CopiesTell
  <1> QED
    BY <1>1, <1>2, <1>3 DEF MasterInv

LEMMA MasterStep ==
  ASSUME Masters!MasterAssumption, MasterInv, [Masters!Next]_(Masters!vars)
  PROVE  MasterInv'
  <1>1. ASSUME NEW t \in Threads, Masters!ListStep(t) PROVE MasterInv'
    BY <1>1, MasterStatKept, LoadMemoKept, LookupKept, ProbeFailsKept, SaveCeilingKept,
       LiftCeilingKept, DecodeKept, RestoreCeilingKept, MemoiseKept,
       FlushNothingKept, BeginFlushKept, CollectKept, CollectFailsKept, CreateTmpKept,
       WriteTmpKept, RenameTmpKept, RenameFailsKept
       DEF Masters!ListStep
  <1> QED
    BY <1>1, ServeKept, ReplaceMasterKept, RestartKept, MasterStutterKept
       DEF Masters!Next

LEMMA MasterInvTells ==
  ASSUME Masters!MasterAssumption, MasterInv
  PROVE  Masters!UncheckedNotSaved /\ Masters!DamagedIsNotOk /\ Masters!LoneVerdictIsFair
  <1>1. master.id \in Masters!Ids
    BY DEF MasterInv, Masters!TypeOK
  <1>2. Masters!UncheckedNotSaved
    BY DEF MasterInv, FilesTell, NoneUnchecked, Masters!UncheckedNotSaved
  <1>3. Masters!DamagedIsNotOk
    BY <1>1 DEF MasterInv, FilesTell, Tells, Sound, Masters!DamagedIsNotOk
  <1>4. Masters!LoneVerdictIsFair
    BY <1>1
       DEF MasterInv, Tells, Fair, Masters!LoneVerdictIsFair, Masters!GoodIsNotTruncated
  <1> QED
    BY <1>2, <1>3, <1>4

THEOREM MasterKept == ASSUME Masters!MasterAssumption PROVE Masters!Spec => []MasterInv
  <1>1. Masters!Init => MasterInv
    BY MasterInit
  <1>2. MasterInv /\ [Masters!Next]_(Masters!vars) => MasterInv'
    BY MasterStep
  <1> QED
    BY <1>1, <1>2, PTL DEF Masters!Spec

-----------------------------------------------------------------------------
(* The whole *)

(* A behaviour of the whole is one of each cache.                          *)
LEMMA CacheSpecs == Spec => Ratings!Spec /\ Manifest!Spec /\ List!Spec /\ Masters!Spec
  <1>1. Init => Ratings!Init /\ Manifest!Init /\ List!Init /\ Masters!Init
    BY DEF Init
  <1>2. [Next]_vars => [Ratings!Next]_(Ratings!vars)
    BY DEF Next, vars, ratingsVars, Ratings!vars, Ratings!shared
  <1>3. [Next]_vars => [Manifest!Next]_(Manifest!vars)
    BY DEF Next, vars, manifestVars, Manifest!vars
  <1>4. [Next]_vars => [List!Next]_(List!vars)
    BY DEF Next, vars, listVars, List!vars, List!files, List!cached, List!locals
  <1>5. [Next]_vars => [Masters!Next]_(Masters!vars)
    BY DEF Next, vars, masterVars, Masters!vars, Masters!shared, Masters!locals, Masters!history
  <1> QED
    BY <1>1, <1>2, <1>3, <1>4, <1>5, PTL
       DEF Spec, Ratings!Spec, Manifest!Spec, List!Spec, Masters!Spec

LEMMA Assumed == /\ RatingsAssumed /\ Manifest!BuildAssumption /\ ListAssumed
                 /\ Masters!MasterAssumption
  BY RatingsAssumption, ManifestAssumption, ListAssumption, MasterAssumption
     DEF RatingsAssumed, ListAssumed

(* _cached_ratings, _all_sidecars: a value that is kept as one pair with   *)
(* its signature is never stale for a request that overlaps no other, if   *)
(* every sidecar could be opened since the last change of one.             *)
THEOREM PairsStayCurrent == Spec => []LonePairsAreCurrent
  <1>1. RatingsInv => Ratings!LoneScoresFresh
    BY Assumed, RatingsInvFresh
  <1>2. ListInv => List!LonePairIsCurrent
    BY Assumed, ListInvCurrent
  <1> QED
    BY <1>1, <1>2, Assumed, CacheSpecs, RatingsKept, ListKept, PTL DEF LonePairsAreCurrent

(* append_rating and _load_ratings: whatever races have left, once a       *)
(* rating is given in peace index and total count every rating.            *)
THEOREM RatingsRecover == Spec => []CalmRatingsFresh
  <1>1. RatingsInv => Ratings!CalmIndexFresh /\ Ratings!CalmTotalFresh
    BY Assumed, RatingsInvFresh
  <1> QED
    BY <1>1, Assumed, CacheSpecs, RatingsKept, PTL DEF CalmRatingsFresh

(* load_manifest: the next build outdates what races have left.            *)
THEOREM ManifestRecovers == Spec => []CalmManifestIsCurrent
  <1>1. ManifestInv => Manifest!CalmManifestIsCurrent
    BY Assumed, CalmIsCurrent
  <1> QED
    BY <1>1, Assumed, CacheSpecs, ManifestKept, PTL DEF CalmManifestIsCurrent

(* acquisitions_since_epoch and its likes: so does the next change of a    *)
(* sidecar, by the API or by another program, unless a sidecar fails to    *)
(* open after it.                                                          *)
THEOREM ListRecovers == Spec => []CalmListIsCurrent
  <1>1. ListInv => List!CalmListIsCurrent
    BY Assumed, ListInvCurrent
  <1> QED
    BY <1>1, Assumed, CacheSpecs, ListKept, PTL DEF CalmListIsCurrent

(* _master_health and _load_master_facts: whatever was replaced, restarted *)
(* or resized meanwhile, no damaged master is known as good, and what was  *)
(* not looked at is not saved.                                             *)
THEOREM MemoStaysSound == Spec => []MemoIsSound
  <1>1. MasterInv => Masters!DamagedIsNotOk /\ Masters!UncheckedNotSaved
    BY Assumed, MasterInvTells
  <1> QED
    BY <1>1, Assumed, CacheSpecs, MasterKept, PTL DEF MemoIsSound

(* _master_health: as long as no two scans overlap, no good master is      *)
(* known as a damaged one, unless a read of that very file has failed      *)
(* while it was decoded.                                                   *)
THEOREM VerdictsStayFair == Spec => []LoneVerdictIsFair
  <1>1. MasterInv => Masters!LoneVerdictIsFair
    BY Assumed, MasterInvTells
  <1> QED
    BY <1>1, Assumed, CacheSpecs, MasterKept, PTL DEF LoneVerdictIsFair
=============================================================================
