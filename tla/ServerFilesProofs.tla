-------------------------- MODULE ServerFilesProofs --------------------------
(***************************************************************************)
(* What the files of the API process promise, for any number of threads,   *)
(* playlists, requests, parts, works and exports: the inductive invariant  *)
(* of each file, and the properties of ServerFiles, every step of which is *)
(* one on a single file.                                                   *)
(***************************************************************************)
EXTENDS ServerFiles, Sequences, FiniteSetTheorems, WellFoundedInduction, TLAPS

-----------------------------------------------------------------------------
(* Playlists: a call that overlaps no other *)

Assumptions == Playlists!KeptAssumption /\ Playlists!BoundAssumption /\ Playlists!FileAssumption

(* What a lone call has done up to each of its steps.                      *)
OnItsWay(t) ==
  /\ pc[t] \in {"get", "load"} => Playlists!Readable(file) = before[t]
  /\ pc[t] \in {"create", "write", "rename"} => raw[t] = Playlists!Edited(t, before[t])
  /\ pc[t] = "write" => tmp = Torn /\ open[t] = "tmp"
  /\ pc[t] = "rename" => tmp = raw[t]
  /\ pc[t] = "saved" => file = Playlists!Edited(t, before[t])

(* A lone call is alone: the others are idle.                              *)
LoneIsOnItsWay ==
  \A t \in Threads : pc[t] # "idle" /\ alone[t] =>
    OnItsWay(t) /\ \A u \in Threads \ {t} : pc[u] = "idle"

(* Only a thread that writes has a file open.                              *)
OpenWrites == \A t \in Threads : open[t] # "none" => pc[t] = "write"

PlaylistInv == Playlists!TypeOK /\ calls \in Nat /\ calls <= MaxPlaylistCalls /\ OpenWrites /\ LoneIsOnItsWay

LEMMA ReadableType ==
  ASSUME Assumptions, NEW f \in Playlists!Stored
  PROVE  /\ Playlists!Readable(f) \in Playlists!Playlists
         /\ Playlists!NoPlaylists \in Playlists!Playlists
  <1>1. Playlists!NoPlaylists \in Playlists!Playlists
    BY DEF Playlists!NoPlaylists, Playlists!Playlists, Playlists!Versions, Assumptions,
           Playlists!BoundAssumption
  <1> QED
    BY <1>1 DEF Playlists!Readable, Playlists!Stored

LEMMA EditedType ==
  ASSUME Playlists!TypeOK, NEW t \in Threads, NEW saved \in Playlists!Playlists, Assumptions
  PROVE  Playlists!Edited(t, saved) \in Playlists!Playlists
  <1>1. 0 \in Playlists!Versions /\ version[t] \in Playlists!Versions
    BY DEF Playlists!Versions, Playlists!TypeOK, Assumptions, Playlists!BoundAssumption
  <1> QED
    BY <1>1 DEF Playlists!Edited, Playlists!Playlists

LEMMA DefaultType == ASSUME Assumptions PROVE Playlists!AnId \in Ids /\ 0 \in Playlists!Versions
  BY DEF Assumptions, Playlists!KeptAssumption, Playlists!AnId, Playlists!Versions,
         Playlists!BoundAssumption

(* A thread whose call ends forgets it.                                    *)
LEMMA ReturnTypes ==
  ASSUME Assumptions, Playlists!TypeOK, NEW t \in Threads, NEW from, Playlists!Return(t, from)
  PROVE  /\ pc' = [pc EXCEPT ![t] = "idle"] /\ calls' = calls
         /\ op' \in [Threads -> {"save", "delete"}] /\ id' \in [Threads -> Ids]
         /\ version' \in [Threads -> Playlists!Versions]
         /\ raw' \in [Threads -> Playlists!Playlists] /\ before' \in [Threads -> Playlists!Playlists]
         /\ alone' \in [Threads -> BOOLEAN]
  BY DefaultType, ReadableType DEF Playlists!Return, Playlists!Goto, Playlists!TypeOK

LEMMA PlaylistInit == ASSUME Assumptions, Playlists!Init PROVE PlaylistInv
  <1>1. 0 \in Playlists!Versions /\ 1 \in Playlists!Versions
    BY DEF Playlists!Versions, Assumptions, Playlists!BoundAssumption
  <1>2. Playlists!NoPlaylists \in Playlists!Playlists /\ file \in Playlists!Playlists
    BY <1>1 DEF Playlists!NoPlaylists, Playlists!Playlists, Playlists!Init
  <1>3. Playlists!TypeOK
    BY <1>1, <1>2, DefaultType DEF Playlists!Init, Playlists!TypeOK, Playlists!Stored
  <1>4. calls \in Nat /\ calls <= MaxPlaylistCalls /\ OpenWrites /\ LoneIsOnItsWay
    BY DEF Playlists!Init, Assumptions, Playlists!BoundAssumption, OpenWrites,
           LoneIsOnItsWay
  <1> QED
    BY <1>3, <1>4 DEF PlaylistInv

LEMMA PlaylistTypeKept ==
  ASSUME Assumptions, Playlists!TypeOK, calls \in Nat, calls <= MaxPlaylistCalls, [Playlists!Next]_(Playlists!vars)
  PROVE  Playlists!TypeOK' /\ calls' \in Nat /\ calls' <= MaxPlaylistCalls
  <1> USE DEF Playlists!TypeOK, Playlists!Goto
  <1>1. CASE UNCHANGED Playlists!vars
    BY <1>1 DEF Playlists!vars
  <1>2. CASE Playlists!Restart
    BY <1>2, DefaultType, ReadableType DEF Playlists!Restart
  <1>3. ASSUME NEW t \in Threads, NEW call \in {"create", "update", "delete"}, NEW i \in Ids,
               Playlists!Begin(t, call, i)
        PROVE  Playlists!TypeOK' /\ calls' \in Nat /\ calls' <= MaxPlaylistCalls
    <2>1. calls + 2 \in Playlists!Versions /\ calls' \in Nat /\ calls' <= MaxPlaylistCalls
      BY <1>3
         DEF Playlists!Begin, Playlists!Versions, Assumptions, Playlists!BoundAssumption
    <2>2. Playlists!Readable(file) \in Playlists!Playlists
      BY ReadableType
    <2>3. alone' \in [Threads -> BOOLEAN]
      BY <1>3 DEF Playlists!Begin
    <2>4. pc' \in [Threads -> {"idle", "get", "load", "create", "write", "rename", "saved"}]
      BY <1>3 DEF Playlists!Begin
    <2> QED
      BY <1>3, <2>1, <2>2, <2>3, <2>4 DEF Playlists!Begin
  <1>4. ASSUME NEW t \in Threads, Playlists!Get(t) \/ Playlists!NotThere(t) \/ Playlists!RenameFails(t) \/ Playlists!Answer(t)
        PROVE  Playlists!TypeOK' /\ calls' \in Nat /\ calls' <= MaxPlaylistCalls
    <2>1. CASE \E from : Playlists!Return(t, from) /\ UNCHANGED <<file, tmp, open>>
      BY <2>1, ReturnTypes
    <2>2. CASE Playlists!Get(t) /\ ~Playlists!Return(t, "get")
      BY <2>2 DEF Playlists!Get
    <2> QED
      BY <1>4, <2>1, <2>2
         DEF Playlists!Get, Playlists!NotThere, Playlists!RenameFails, Playlists!Answer
  <1>5. ASSUME NEW t \in Threads, Playlists!Load(t)
        PROVE  Playlists!TypeOK' /\ calls' \in Nat /\ calls' <= MaxPlaylistCalls
    <2>1. PICK saved \in Playlists!Reads :
            /\ raw' = [raw EXCEPT ![t] = Playlists!Edited(t, saved)]
            /\ before' \in {before, [before EXCEPT ![t] = saved]}
      BY <1>5 DEF Playlists!Load
    <2>2. saved \in Playlists!Playlists
      BY ReadableType DEF Playlists!Reads
    <2>3. Playlists!Edited(t, saved) \in Playlists!Playlists
      BY <2>2, EditedType
    <2> QED
      BY <1>5, <2>1, <2>2, <2>3 DEF Playlists!Load
  <1>6. ASSUME NEW t \in Threads, Playlists!CreateTmp(t) \/ Playlists!Rename(t)
        PROVE  Playlists!TypeOK' /\ calls' \in Nat /\ calls' <= MaxPlaylistCalls
    BY <1>6 DEF Playlists!CreateTmp, Playlists!Rename, Playlists!Stored
  <1>7. ASSUME NEW t \in Threads, Playlists!WriteTmp(t)
        PROVE  Playlists!TypeOK' /\ calls' \in Nat /\ calls' <= MaxPlaylistCalls
    <2>1. tmp' \in Playlists!Stored /\ file' \in Playlists!Stored
      BY <1>7 DEF Playlists!WriteTmp, Playlists!Over, Playlists!Stored
    <2> QED
      BY <1>7, <2>1 DEF Playlists!WriteTmp
  <1> QED
    BY <1>1, <1>2, <1>3, <1>4, <1>5, <1>6, <1>7 DEF Playlists!Next

LEMMA OpenWritesKept ==
  ASSUME Playlists!TypeOK, OpenWrites, [Playlists!Next]_(Playlists!vars)
  PROVE  OpenWrites'
  <1> USE DEF Playlists!TypeOK, OpenWrites, Playlists!Goto
  <1>1. CASE UNCHANGED Playlists!vars \/ Playlists!Restart
    BY <1>1 DEF Playlists!vars, Playlists!Restart
  <1>2. ASSUME NEW t \in Threads, NEW call, NEW i \in Ids, Playlists!Begin(t, call, i)
        PROVE  OpenWrites'
    BY <1>2 DEF Playlists!Begin
  <1>3. ASSUME NEW t \in Threads,
               Playlists!Get(t) \/ Playlists!NotThere(t) \/ Playlists!RenameFails(t) \/ Playlists!Answer(t) \/ Playlists!Load(t) \/ Playlists!CreateTmp(t)
        PROVE  OpenWrites'
    BY <1>3
       DEF Playlists!Get, Playlists!NotThere, Playlists!RenameFails, Playlists!Answer,
           Playlists!Load, Playlists!CreateTmp, Playlists!Return
  <1>4. ASSUME NEW t \in Threads, Playlists!WriteTmp(t) \/ Playlists!Rename(t)
        PROVE  OpenWrites'
    BY <1>4 DEF Playlists!WriteTmp, Playlists!Rename
  <1> QED
    BY <1>1, <1>2, <1>3, <1>4 DEF Playlists!Next

(* The thread that moves is the lone one, or no call is alone.             *)
LEMMA PlaylistLoneKept ==
  ASSUME Assumptions, PlaylistInv, [Playlists!Next]_(Playlists!vars)
  PROVE  LoneIsOnItsWay'
  <1> USE DEF PlaylistInv
  <1>1. CASE UNCHANGED Playlists!vars
    BY <1>1 DEF Playlists!vars, LoneIsOnItsWay, OnItsWay, Playlists!Edited
  <1>2. CASE Playlists!Restart
    BY <1>2 DEF Playlists!Restart, LoneIsOnItsWay, Playlists!TypeOK
  <1>3. ASSUME NEW t \in Threads, NEW call, NEW i \in Ids, Playlists!Begin(t, call, i)
        PROVE  LoneIsOnItsWay'
    <2>1. \A u \in Threads : pc'[u] # "idle" /\ alone'[u] => u = t
      BY <1>3 DEF Playlists!Begin, Playlists!Goto, Playlists!TypeOK
    <2>2. alone'[t] => \A u \in Threads \ {t} : pc'[u] = "idle"
      BY <1>3 DEF Playlists!Begin, Playlists!Goto, Playlists!TypeOK
    <2>3. OnItsWay(t)'
      BY <1>3 DEF Playlists!Begin, Playlists!Goto, Playlists!TypeOK, OnItsWay
    <2> QED
      BY <2>1, <2>2, <2>3 DEF LoneIsOnItsWay
  <1>4. ASSUME NEW t \in Threads,
               \/ Playlists!Get(t) \/ Playlists!NotThere(t) \/ Playlists!RenameFails(t) \/ Playlists!Answer(t) \/ Playlists!Load(t)
               \/ Playlists!CreateTmp(t) \/ Playlists!WriteTmp(t) \/ Playlists!Rename(t)
        PROVE  LoneIsOnItsWay'
    <2>1. /\ pc[t] # "idle"
          /\ \E to : pc' = [pc EXCEPT ![t] = to] /\ (to # "idle" => alone' = alone)
          /\ \A u \in Threads \ {t} : alone'[u] = alone[u]
      BY <1>4
         DEF Playlists!Get, Playlists!NotThere, Playlists!RenameFails, Playlists!Answer,
             Playlists!Load, Playlists!CreateTmp, Playlists!WriteTmp, Playlists!Rename,
             Playlists!Goto, Playlists!Return, Playlists!TypeOK
    <2>2. ASSUME NEW u \in Threads, pc'[u] # "idle", alone'[u]
          PROVE  u = t /\ alone[t] /\ OnItsWay(t) /\ \A v \in Threads \ {t} : pc'[v] = "idle"
      BY <2>1, <2>2 DEF LoneIsOnItsWay, Playlists!TypeOK
    <2>3. OnItsWay(t) => OnItsWay(t)'
      <3> SUFFICES ASSUME OnItsWay(t) PROVE OnItsWay(t)'
        OBVIOUS
      <3> USE DEF OnItsWay, Playlists!Goto, Playlists!TypeOK
      <3>1. CASE Playlists!Get(t) \/ Playlists!NotThere(t) \/ Playlists!RenameFails(t) \/ Playlists!Answer(t)
        BY <3>1
           DEF Playlists!Get, Playlists!NotThere, Playlists!RenameFails,
               Playlists!Answer, Playlists!Return, Playlists!Edited
      <3>2. CASE Playlists!Load(t)
        <4>1. PICK saved \in Playlists!Reads :
                /\ raw' = [raw EXCEPT ![t] = Playlists!Edited(t, saved)]
                /\ before' = IF saved = Playlists!Readable(file) THEN before
                             ELSE [before EXCEPT ![t] = saved]
          BY <3>2 DEF Playlists!Load
        <4>2. before'[t] = saved /\ raw'[t] = Playlists!Edited(t, saved)
          BY <3>2, <4>1 DEF Playlists!Load
        <4> QED
          BY <3>2, <4>2 DEF Playlists!Load, Playlists!Edited
      <3>3. CASE Playlists!CreateTmp(t)
        BY <3>3 DEF Playlists!CreateTmp, Playlists!Edited
      <3>4. CASE Playlists!WriteTmp(t)
        BY <3>4 DEF Playlists!WriteTmp, Playlists!Over, Playlists!Edited
      <3>5. CASE Playlists!Rename(t)
        BY <3>5 DEF Playlists!Rename, Playlists!Edited
      <3> QED
        BY <1>4, <3>1, <3>2, <3>3, <3>4, <3>5
    <2> QED
      BY <2>2, <2>3 DEF LoneIsOnItsWay
  <1> QED
    BY <1>1, <1>2, <1>3, <1>4 DEF Playlists!Next

LEMMA PlaylistInvKept ==
  ASSUME Assumptions, PlaylistInv, [Playlists!Next]_(Playlists!vars)
  PROVE  PlaylistInv'
  BY PlaylistTypeKept, OpenWritesKept, PlaylistLoneKept DEF PlaylistInv

(* Whatever races and restarts have left behind, a call that overlaps no   *)
(* other saves what could be read when it began, with its own change and   *)
(* no other: create_playlist, update_playlist, delete_playlist.            *)
THEOREM LoneCallsAreExact ==
  ASSUME Playlists!KeptAssumption, Playlists!BoundAssumption, Playlists!FileAssumption
  PROVE  Playlists!Spec => []Playlists!LoneCallIsExact
  <1> Assumptions
    BY DEF Assumptions
  <1>1. Playlists!Init => PlaylistInv
    BY PlaylistInit
  <1>2. PlaylistInv /\ [Playlists!Next]_(Playlists!vars) => PlaylistInv'
    BY PlaylistInvKept
  <1>3. PlaylistInv => Playlists!LoneCallIsExact
    BY DEF PlaylistInv, LoneIsOnItsWay, OnItsWay, Playlists!LoneCallIsExact
  <1> QED
    BY <1>1, <1>2, <1>3, PTL DEF Playlists!Spec

-----------------------------------------------------------------------------
(* Research requests: the lock, and what is in the log *)

(* Who is past the lock has it. *)
Exclusive == \A t \in Threads : rpc[t] \in Research!Locked => lock = t

(* Nobody is ahead of the clock.                                           *)
OnTime == now >= 1 /\ \A t \in Threads : cutoff[t] <= now

(* A request in the making has a stamp, and is in the log once replaced.   *)
Stamped ==
  /\ \A t \in Threads :
       /\ rpc[t] \in {"lock", "read", "replace", "replaced"} => made[asked[t]] # 0
       /\ rpc[t] = "replaced" => log[asked[t]] = made[asked[t]]
  /\ \A r \in accepted : made[r] # 0

(* Open requests are in the log, and in every copy read from it.           *)
OpenIsKept ==
  \A r \in Requests :
    Research!Open(r) => /\ log[r] = made[r]
                        /\ \A t \in Threads : rpc[t] \in {"replace", "found"} => active[t][r] = made[r]

ResearchInv == Research!TypeOK /\ Exclusive /\ OnTime /\ Stamped /\ OpenIsKept

LEMMA ResearchInit ==
  ASSUME Research!ResearchAssumption, Research!Init
  PROVE  ResearchInv
  <1>1. Research!TypeOK
    BY DEF Research!ResearchAssumption, Research!Init, Research!TypeOK, Research!Empty,
           Research!Times
  <1>2. Exclusive /\ OnTime /\ Stamped /\ OpenIsKept
    BY DEF Research!Init, Exclusive, OnTime, Stamped, OpenIsKept, Research!Open,
           Research!Locked
  <1> QED
    BY <1>1, <1>2 DEF ResearchInv

(* A request that is open was so before, while accepted does not grow.     *)
LEMMA OpenBefore ==
  ASSUME Research!ResearchAssumption, Research!TypeOK, NEW r \in Requests, Research!Open(r)', made'[r] = made[r], now' >= now,
         now' \in Nat, r \in accepted
  PROVE  Research!Open(r)
  <1>1. made[r] \in Nat /\ now \in Nat /\ Ttl \in Nat
    BY DEF Research!ResearchAssumption, Research!TypeOK, Research!Times
  <1> QED
    BY <1>1 DEF Research!Open, Research!Expired

(* What is open is neither dropped by a writer nor passed over by a reader.*)
LEMMA OpenIsActive ==
  ASSUME Research!ResearchAssumption, ResearchInv, NEW r \in Requests, Research!Open(r), NEW at \in Nat, at <= now
  PROVE  Research!Active(at)[r] = made[r]
  <1>1. log[r] = made[r] /\ made[r] \in Nat /\ now \in Nat /\ Ttl \in Nat
    BY DEF Research!ResearchAssumption, ResearchInv, Research!TypeOK, Research!Times,
           OpenIsKept
  <1> QED
    BY <1>1 DEF Research!Open, Research!Expired, Research!Active

LEMMA ResearchTypeKept ==
  ASSUME Research!ResearchAssumption, Research!TypeOK, [Research!Next]_(Research!vars)
  PROVE  Research!TypeOK'
  <1> USE DEF Research!TypeOK, Research!Goto, Research!Locked
  <1>1. CASE UNCHANGED Research!vars
    BY <1>1 DEF Research!vars
  <1>7. CASE Research!TimePasses
    <2>1. now' \in Research!Times
      BY <1>7 DEF Research!TimePasses, Research!Times, Research!ResearchAssumption
    <2> QED
      BY <1>7, <2>1 DEF Research!TimePasses
  <1>2. CASE Research!Restart
    <2>1. Research!Empty \in [Requests -> Research!Times] /\ 0 \in Research!Times
      BY DEF Research!Empty, Research!Times, Research!ResearchAssumption
    <2> HIDE DEF Research!TypeOK
    <2>2. /\ cutoff' \in [Threads -> Research!Times] /\ active' \in [Threads -> [Requests -> Research!Times]]
          /\ rpc' \in [Threads -> Research!Locked \cup {"idle", "lock", "lookLock"}]
      BY <1>2, <2>1 DEF Research!Restart, Research!Forget, Research!TypeOK
    <2> QED
      BY <1>2, <2>2 DEF Research!Restart, Research!TypeOK
  <1>3. ASSUME NEW t \in Threads, NEW r \in Requests,
               Research!Ask(t, r) \/ Research!Look(t, r)
        PROVE  Research!TypeOK'
    <2>1. rpc' \in [Threads -> Research!Locked \cup {"idle", "lock", "lookLock"}]
      BY <1>3 DEF Research!Ask, Research!Look
    <2>2. CASE Research!Ask(t, r)
      BY <2>1, <2>2 DEF Research!Ask
    <2>3. CASE Research!Look(t, r)
      BY <2>1, <2>3 DEF Research!Look
    <2> QED
      BY <1>3, <2>2, <2>3
  <1>4. ASSUME NEW t \in Threads,
               Research!Lock(t) \/ Research!Fails(t) \/ Research!Replace(t)
        PROVE  Research!TypeOK'
    <2>1. CASE Research!Lock(t)
      BY <2>1 DEF Research!Lock
    <2>2. CASE Research!Fails(t)
      BY <2>2 DEF Research!Fails
    <2>3. CASE Research!Replace(t)
      BY <2>3 DEF Research!Replace
    <2> QED
      BY <1>4, <2>1, <2>2, <2>3
  <1>5. ASSUME NEW t \in Threads, Research!Read(t) PROVE Research!TypeOK'
    <2>1. \A at : Research!Active(at) \in [Requests -> Research!Times]
      BY DEF Research!Active, Research!Times, Research!ResearchAssumption
    <2>2. active' \in [Threads -> [Requests -> Research!Times]]
      BY <1>5, <2>1 DEF Research!Read
    <2>3. rpc' \in [Threads -> Research!Locked \cup {"idle", "lock", "lookLock"}]
      BY <1>5 DEF Research!Read
    <2> QED
      BY <1>5, <2>2, <2>3 DEF Research!Read
  <1>6. ASSUME NEW t \in Threads, Research!Unlock(t) PROVE Research!TypeOK'
    BY <1>6
       DEF Research!Unlock, Research!Forget, Research!Empty, Research!Times,
           Research!ResearchAssumption
  <1> QED
    BY <1>1, <1>2, <1>3, <1>4, <1>5, <1>6, <1>7 DEF Research!Next

LEMMA ExclusiveKept ==
  ASSUME Research!ResearchAssumption, Research!TypeOK, Exclusive,
         [Research!Next]_(Research!vars)
  PROVE  Exclusive'
  <1> USE DEF Research!TypeOK, Exclusive, Research!Goto, Research!Locked
  <1>1. CASE UNCHANGED Research!vars \/ Research!TimePasses \/ Research!Restart
    BY <1>1 DEF Research!vars, Research!TimePasses, Research!Restart
  <1>2. ASSUME NEW t \in Threads, NEW r \in Requests,
               Research!Ask(t, r) \/ Research!Look(t, r)
        PROVE  Exclusive'
    BY <1>2 DEF Research!Ask, Research!Look
  <1>3. ASSUME NEW t \in Threads, Research!Lock(t) PROVE Exclusive'
    BY <1>3 DEF Research!Lock, Research!ResearchAssumption
  <1>4. ASSUME NEW t \in Threads,
               Research!Read(t) \/ Research!Fails(t) \/ Research!Replace(t)
        PROVE  Exclusive'
    BY <1>4 DEF Research!Read, Research!Fails, Research!Replace
  <1>5. ASSUME NEW t \in Threads, Research!Unlock(t) PROVE Exclusive'
    BY <1>5 DEF Research!Unlock
  <1> QED
    BY <1>1, <1>2, <1>3, <1>4, <1>5 DEF Research!Next

LEMMA ResearchInvKept ==
  ASSUME Research!ResearchAssumption, ResearchInv, [Research!Next]_(Research!vars)
  PROVE  ResearchInv'
  <1>0. Research!TypeOK' /\ Exclusive'
    BY ResearchTypeKept, ExclusiveKept DEF ResearchInv
  <1> USE DEF ResearchInv
  <1>1. CASE UNCHANGED Research!vars
    BY <1>0, <1>1
       DEF Research!vars, OnTime, Stamped, OpenIsKept, Research!Open, Research!Expired
  <1>2. CASE Research!TimePasses
    <2>1. now \in Nat /\ now' = now + 1
      BY <1>2
         DEF Research!TimePasses, Research!TypeOK, Research!Times,
             Research!ResearchAssumption
    <2>2. \A r \in Requests : Research!Open(r)' => Research!Open(r)
      BY <1>2, <2>1, OpenBefore DEF Research!TimePasses, Research!Open
    <2>3. \A t \in Threads : cutoff[t] \in Nat
      BY DEF Research!TypeOK, Research!Times, Research!ResearchAssumption
    <2> QED
      BY <1>0, <1>2, <2>1, <2>2, <2>3
         DEF Research!TimePasses, OnTime, Stamped, OpenIsKept
  <1>3. CASE Research!Restart
    <2>1. OnTime' /\ Stamped'
      BY <1>3
         DEF Research!Restart, Research!Forget, Research!TypeOK, Research!Times,
             Research!ResearchAssumption, OnTime, Stamped
    <2>2. OpenIsKept'
      BY <1>3 DEF Research!Restart, OpenIsKept, Research!Open, Research!Expired
    <2> QED
      BY <1>0, <2>1, <2>2
  <1>4. ASSUME NEW t \in Threads, NEW r \in Requests, Research!Ask(t, r)
        PROVE  ResearchInv'
    <2>1. OnTime' /\ Stamped'
      BY <1>4
         DEF Research!Ask, Research!Goto, Research!TypeOK, Research!Times,
             Research!ResearchAssumption, OnTime, Stamped
    <2>2. \A q \in accepted : made'[q] = made[q]
      BY <1>4 DEF Research!Ask, Research!TypeOK, Stamped
    <2>3. \A q \in Requests : Research!Open(q)' => Research!Open(q) /\ made'[q] = made[q]
      BY <1>4, <2>2 DEF Research!Ask, Research!Open, Research!Expired
    <2>4. OpenIsKept'
      BY <1>4, <2>3 DEF Research!Ask, Research!Goto, OpenIsKept, Research!TypeOK
    <2> QED
      BY <1>0, <2>1, <2>4
  <1>5. ASSUME NEW t \in Threads, NEW r \in Requests, Research!Look(t, r)
        PROVE  ResearchInv'
    <2>1. OnTime' /\ Stamped'
      BY <1>5
         DEF Research!Look, Research!Goto, Research!TypeOK, Research!Times,
             Research!ResearchAssumption, OnTime, Stamped
    <2>2. OpenIsKept'
      BY <1>5
         DEF Research!Look, Research!Goto, OpenIsKept, Research!TypeOK, Research!Open,
             Research!Expired
    <2> QED
      BY <1>0, <2>1, <2>2
  <1>6. ASSUME NEW t \in Threads, Research!Lock(t) \/ Research!Fails(t)
        PROVE  ResearchInv'
    <2>1. OnTime' /\ Stamped'
      BY <1>6
         DEF Research!Lock, Research!Fails, Research!Goto, Research!TypeOK, OnTime,
             Stamped
    <2>2. OpenIsKept'
      BY <1>6
         DEF Research!Lock, Research!Fails, Research!Goto, OpenIsKept, Research!TypeOK,
             Research!Open, Research!Expired
    <2> QED
      BY <1>0, <2>1, <2>2
  <1>7. ASSUME NEW t \in Threads, Research!Read(t) PROVE ResearchInv'
    <2>1. OnTime' /\ Stamped'
      BY <1>7 DEF Research!Read, Research!Goto, Research!TypeOK, OnTime, Stamped
    <2>2. cutoff[t] \in Nat /\ cutoff[t] <= now /\ now \in Nat /\ now <= now
      BY DEF Research!TypeOK, Research!Times, Research!ResearchAssumption, OnTime
    <2>3. ASSUME NEW r \in Requests, Research!Open(r)
          PROVE  Research!Active(now)[r] = made[r] /\ Research!Active(cutoff[t])[r] = made[r]
      BY <2>2, <2>3, OpenIsActive
    <2>4. OpenIsKept'
      <3> SUFFICES ASSUME NEW r \in Requests, Research!Open(r)
                   PROVE  /\ log[r] = made[r]
                          /\ \A u \in Threads : rpc'[u] \in {"replace", "found"} => active'[u][r] = made[r]
        BY <1>7 DEF Research!Read, OpenIsKept, Research!Open, Research!Expired
      <3>1. active'[t] = Research!Active(now) \/ active'[t] = Research!Active(cutoff[t])
        BY <1>7 DEF Research!Read, Research!TypeOK
      <3>2. \A u \in Threads \ {t} : rpc'[u] = rpc[u] /\ active'[u] = active[u]
        BY <1>7 DEF Research!Read, Research!Goto, Research!TypeOK
      <3> QED
        BY <2>3, <3>1, <3>2 DEF OpenIsKept
    <2> QED
      BY <1>0, <2>1, <2>4
  <1>8. ASSUME NEW t \in Threads, Research!Replace(t) PROVE ResearchInv'
    <2>1. lock = t /\ \A u \in Threads \ {t} : rpc[u] \notin Research!Locked
      BY <1>8 DEF Research!Replace, Research!Goto, Exclusive, Research!Locked
    <2>2. /\ rpc'[t] = "replaced" /\ \A u \in Threads \ {t} : rpc'[u] = rpc[u]
          /\ \A r \in Requests : log'[r] = IF r = asked[t] THEN made[asked[t]] ELSE active[t][r]
          /\ asked[t] \in Requests
          /\ UNCHANGED <<now, asked, cutoff, active, made, accepted>>
      BY <1>8 DEF Research!Replace, Research!Goto, Research!TypeOK
    <2>3. OnTime' /\ Stamped'
      BY <1>8, <2>1, <2>2
         DEF Research!Replace, Research!Goto, OnTime, Stamped, Research!Locked
    <2>4. OpenIsKept'
      BY <1>8, <2>1, <2>2
         DEF Research!Replace, Research!Goto, OpenIsKept, Research!Open,
             Research!Expired, Research!Locked
    <2> QED
      BY <1>0, <2>3, <2>4
  <1>9. ASSUME NEW t \in Threads, Research!Unlock(t) PROVE ResearchInv'
    <2>1. lock = t /\ \A u \in Threads \ {t} : rpc[u] \notin Research!Locked
      BY <1>9 DEF Research!Unlock, Research!Goto, Exclusive, Research!Locked
    <2>2. /\ rpc'[t] = "idle" /\ \A u \in Threads \ {t} : rpc'[u] = rpc[u]
          /\ UNCHANGED <<log, now, asked, made>>
          /\ accepted' = accepted \/ (rpc[t] = "replaced" /\ accepted' = accepted \cup {asked[t]})
          /\ \A u \in Threads : cutoff'[u] \in {0, cutoff[u]}
      BY <1>9 DEF Research!Unlock, Research!Goto, Research!Forget, Research!TypeOK
    <2>3. OnTime' /\ Stamped'
      BY <2>1, <2>2
         DEF OnTime, Stamped, Research!Locked, Research!TypeOK, Research!Times,
             Research!ResearchAssumption
    <2>4. OpenIsKept'
      BY <2>1, <2>2
         DEF OpenIsKept, Research!Open, Research!Expired, Research!Locked, Stamped
    <2> QED
      BY <1>0, <2>3, <2>4
  <1> QED
    BY <1>1, <1>2, <1>3, <1>4, <1>5, <1>6, <1>7, <1>8, <1>9 DEF Research!Next

(* An accepted request survives until it expires.                          *)
THEOREM AcceptedSurvive ==
  ASSUME Research!ResearchAssumption PROVE Research!Spec => []Research!AcceptedSurvives
  <1>1. ResearchInv => Research!AcceptedSurvives
    BY DEF ResearchInv, Research!TypeOK, OpenIsKept, Stamped, Research!Open,
           Research!AcceptedSurvives
  <1> QED
    BY <1>1, ResearchInit, ResearchInvKept, PTL DEF Research!Spec

-----------------------------------------------------------------------------
(* Cached images *)

(* t's writing is in that file, from its start to where t is.              *)
Writes(t, name) ==
  ipc[t] = "write" /\ iopen[t] = name /\ 1..written[t] \subseteq Images!Content(name)

(* A cached file that is not whole has a writer who will complete it.      *)
FinalIsMade == final \in {Absent, Images!Parts} \/ \E t \in Threads : Writes(t, "final")

(* So has the temporary file that somebody is about to rename.             *)
TmpIsMade ==
  kind = "tile" /\ (\E t \in Threads : ipc[t] \in {"write", "rename"}) =>
    itmp \in {Absent, Images!Parts} \/ \E t \in Threads : Writes(t, "tmp")

(* A lone call meets nobody; so a file that it resizes is its own.         *)
LoneMakesIt ==
  \A t \in Threads : ipc[t] # "idle" /\ ialone[t] =>
    /\ \A u \in Threads \ {t} : ipc[u] = "idle"
    /\ ipc[t] = "make" => final = Absent
    /\ ipc[t] = "write" => IF kind = "resize" THEN created[t] ELSE iopen[t] = "tmp"

(* Only tiles are renamed, and a name that a file is open under leads to it. *)
Named ==
  /\ \A t \in Threads : ipc[t] = "rename" => kind = "tile"
  /\ \A t \in Threads : iopen[t] = "final" => final # Absent
  /\ \A t \in Threads : iopen[t] = "tmp" => itmp # Absent

ImageInv ==
  Images!TypeOK /\ Named /\ LoneMakesIt /\ (~spoiled => FinalIsMade /\ TmpIsMade)

(* One more part; and the last one.                                        *)
LEMMA OneMore ==
  ASSUME Images!CacheAssumption, NEW w \in 0..PartCount, NEW f, 1..w \subseteq f
  PROVE  1..(w + 1) \subseteq f \cup {w + 1}
  BY DEF Images!CacheAssumption

LEMMA LastOne ==
  ASSUME Images!CacheAssumption, NEW w \in 0..PartCount, w + 1 \notin Images!Parts,
         NEW f \in SUBSET Images!Parts, 1..w \subseteq f
  PROVE  f = Images!Parts
  <1>1. w = PartCount
    BY DEF Images!CacheAssumption, Images!Parts
  <1> QED
    BY <1>1 DEF Images!Parts

LEMMA FilesAre ==
  /\ Absent \in Images!Files
  /\ \A f \in SUBSET Images!Parts : f \in Images!Files
  /\ \A f \in Images!Files : f # Absent => f \in SUBSET Images!Parts
  BY DEF Images!Files

LEMMA ImageInit == ASSUME Images!CacheAssumption, Images!Init PROVE ImageInv
  <1>1. Images!TypeOK
    BY FilesAre DEF Images!Init, Images!TypeOK
  <1>2. Named /\ LoneMakesIt /\ FinalIsMade /\ TmpIsMade
    BY DEF Images!Init, Named, LoneMakesIt, FinalIsMade, TmpIsMade
  <1> QED
    BY <1>1, <1>2 DEF ImageInv

LEMMA ImageTypeKept ==
  ASSUME Images!CacheAssumption, Images!TypeOK, Named, [Images!Next]_(Images!vars)
  PROVE  Images!TypeOK' /\ Named'
  <1>0. \A f \in SUBSET Images!Parts : f # Absent
    BY DEF Images!CacheAssumption
  <1> USE DEF Images!TypeOK, Named, Images!Goto
  <1>1. CASE UNCHANGED Images!vars
    BY <1>1 DEF Images!vars, Images!locals
  <1>2. CASE Images!Restart
    BY <1>2, FilesAre DEF Images!Restart
  <1>3. ASSUME NEW t \in Threads,
               \/ Images!Begin(t) \/ Images!Exists(t) \/ Images!NoSource(t) \/ Images!RenameFails(t) \/ Images!Serve(t)
        PROVE  Images!TypeOK' /\ Named'
    BY <1>3
       DEF Images!Begin, Images!Exists, Images!NoSource, Images!RenameFails,
           Images!Serve
  <1>4. ASSUME NEW t \in Threads, Images!Open(t) PROVE Images!TypeOK' /\ Named'
    <2>1. Images!Target \in Images!Names /\ {} \in Images!Files /\ {} # Absent
      BY <1>0 DEF Images!Target, Images!Names, Images!Files
    <2> QED
      BY <1>4, <2>1 DEF Images!Open
  <1>5. ASSUME NEW t \in Threads, Images!WritePart(t) PROVE Images!TypeOK' /\ Named'
    <2>0. /\ iopen[t] = "final" => final \in SUBSET Images!Parts
          /\ iopen[t] = "tmp" => itmp \in SUBSET Images!Parts
      BY FilesAre
    <2>1. /\ iopen[t] = "final" => final' \in SUBSET Images!Parts
          /\ iopen[t] = "tmp" => itmp' \in SUBSET Images!Parts
      BY <1>5, <2>0 DEF Images!WritePart
    <2>2. final' \in Images!Files /\ itmp' \in Images!Files
      BY <1>5, <2>1, FilesAre DEF Images!WritePart
    <2> QED
      BY <1>0, <1>5, <2>1, <2>2 DEF Images!WritePart
  <1>6. ASSUME NEW t \in Threads, Images!Close(t) PROVE Images!TypeOK' /\ Named'
    BY <1>6 DEF Images!Close
  <1>7. ASSUME NEW t \in Threads, Images!SaveFails(t) PROVE Images!TypeOK' /\ Named'
    <2>1. final' \in Images!Files
      BY <1>7, FilesAre DEF Images!SaveFails
    <2>2. iopen' \in [Threads -> Images!Names \cup {"gone"}]
      BY <1>7 DEF Images!SaveFails
    <2>3. \A u \in Threads : iopen'[u] = "final" => iopen[u] = "final" /\ final' = final
      BY <1>7 DEF Images!SaveFails
    <2>4. \A u \in Threads : iopen'[u] = "tmp" => iopen[u] = "tmp"
      BY <1>7 DEF Images!SaveFails
    <2> QED
      BY <1>7, <2>1, <2>2, <2>3, <2>4 DEF Images!SaveFails
  <1>8. ASSUME NEW t \in Threads, Images!Rename(t) PROVE Images!TypeOK' /\ Named'
    <2>1. final' \in Images!Files /\ itmp' \in Images!Files
      BY <1>8, FilesAre DEF Images!Rename
    <2>2. iopen' \in [Threads -> Images!Names \cup {"gone"}]
      BY <1>8 DEF Images!Rename, Images!Names
    <2> QED
      BY <1>8, <2>1, <2>2 DEF Images!Rename
  <1> QED
    BY <1>1, <1>2, <1>3, <1>4, <1>5, <1>6, <1>7, <1>8 DEF Images!Next

LEMMA ImageLoneKept ==
  ASSUME Images!CacheAssumption, Images!TypeOK, LoneMakesIt, [Images!Next]_(Images!vars)
  PROVE  LoneMakesIt'
  <1> USE DEF Images!TypeOK, Images!Goto
  <1>1. CASE UNCHANGED Images!vars
    BY <1>1 DEF Images!vars, Images!locals, LoneMakesIt
  <1>2. CASE Images!Restart
    BY <1>2 DEF Images!Restart, LoneMakesIt
  <1>3. ASSUME NEW t \in Threads, Images!Begin(t) PROVE LoneMakesIt'
    <2>1. \A u \in Threads : ipc'[u] # "idle" /\ ialone'[u] => u = t
      BY <1>3 DEF Images!Begin
    <2>2. ipc'[t] = "exists" /\ (ialone'[t] => \A u \in Threads \ {t} : ipc'[u] = "idle")
      BY <1>3 DEF Images!Begin
    <2> QED
      BY <2>1, <2>2 DEF LoneMakesIt
  <1>4. ASSUME NEW t \in Threads,
               \/ Images!Exists(t) \/ Images!NoSource(t) \/ Images!Open(t) \/ Images!WritePart(t) \/ Images!Close(t)
               \/ Images!SaveFails(t) \/ Images!Rename(t) \/ Images!RenameFails(t) \/ Images!Serve(t)
        PROVE  LoneMakesIt'
    <2>1. /\ ipc[t] # "idle" /\ ialone' = ialone /\ kind' = kind
          /\ \E to : ipc' = [ipc EXCEPT ![t] = to]
      BY <1>4
         DEF Images!Exists, Images!NoSource, Images!Open, Images!WritePart,
             Images!Close, Images!SaveFails, Images!Rename, Images!RenameFails,
             Images!Serve
    <2>2. ASSUME NEW u \in Threads, ipc'[u] # "idle", ialone'[u]
          PROVE  u = t /\ ialone[t] /\ \A v \in Threads \ {t} : ipc'[v] = "idle"
      BY <2>1, <2>2 DEF LoneMakesIt
    <2>3. /\ ipc'[t] = "make" => final' = Absent
          /\ ialone[t] /\ ipc'[t] = "write" =>
                IF kind = "resize" THEN created'[t] ELSE iopen'[t] = "tmp"
      <3>1. CASE Images!Exists(t)
        BY <3>1 DEF Images!Exists
      <3>2. CASE Images!Open(t)
        BY <3>2 DEF Images!Open, LoneMakesIt, Images!Content, Images!Target
      <3>3. CASE Images!WritePart(t)
        BY <3>3 DEF Images!WritePart, LoneMakesIt
      <3>4. CASE \/ Images!NoSource(t) \/ Images!Close(t) \/ Images!SaveFails(t) \/ Images!Rename(t) \/ Images!RenameFails(t)
                 \/ Images!Serve(t)
        BY <3>4
           DEF Images!NoSource, Images!Close, Images!SaveFails, Images!Rename,
               Images!RenameFails, Images!Serve
      <3> QED
        BY <1>4, <3>1, <3>2, <3>3, <3>4
    <2> QED
      BY <2>1, <2>2, <2>3 DEF LoneMakesIt
  <1> QED
    BY <1>1, <1>2, <1>3, <1>4 DEF Images!Next

(* A step that neither writes nor takes a writer away.                     *)
LEMMA WritersStay ==
  ASSUME Images!TypeOK, FinalIsMade /\ TmpIsMade, NEW t \in Threads, NEW to,
         ipc' = [ipc EXCEPT ![t] = to], ipc[t] # "write", to \notin {"write", "rename"},
         UNCHANGED <<kind, final, itmp, iopen, written>>
  PROVE  FinalIsMade' /\ TmpIsMade'
  <1>1. \A u \in Threads, name \in Images!Names : Writes(u, name) => Writes(u, name)'
    BY DEF Writes, Images!Content, Images!TypeOK
  <1>2. (\E u \in Threads : ipc'[u] \in {"write", "rename"})
          => \E u \in Threads : ipc[u] \in {"write", "rename"}
    BY DEF Images!TypeOK
  <1> QED
    BY <1>1, <1>2 DEF FinalIsMade, TmpIsMade, Images!Names

LEMMA MadeKept ==
  ASSUME Images!CacheAssumption, ImageInv, ~spoiled', [Images!Next]_(Images!vars)
  PROVE  FinalIsMade' /\ TmpIsMade'
  <1>0. ~spoiled
    BY DEF Images!Next, Images!vars, Images!Restart, Images!Begin, Images!Exists,
           Images!NoSource, Images!Open, Images!WritePart, Images!Close,
           Images!SaveFails, Images!Rename, Images!RenameFails, Images!Serve
  <1> USE DEF ImageInv, Images!Goto
  <1>1. CASE UNCHANGED Images!vars
    BY <1>0, <1>1
       DEF Images!vars, Images!locals, FinalIsMade, TmpIsMade, Writes, Images!Content
  <1>2. CASE Images!Restart
    BY <1>2 DEF Images!Restart
  <1>3. ASSUME NEW t \in Threads,
               \/ Images!Begin(t) \/ Images!Exists(t) \/ Images!NoSource(t) \/ Images!RenameFails(t) \/ Images!Serve(t)
        PROVE  FinalIsMade' /\ TmpIsMade'
    <2>1. /\ UNCHANGED <<kind, final, itmp, iopen, written>> /\ ipc[t] # "write"
          /\ \E to : to \notin {"write", "rename"} /\ ipc' = [ipc EXCEPT ![t] = to]
      BY <1>3
         DEF Images!Begin, Images!Exists, Images!NoSource, Images!RenameFails,
             Images!Serve
    <2> QED
      BY <1>0, <2>1, WritersStay
  <1>4. ASSUME NEW t \in Threads, Images!Open(t) PROVE FinalIsMade' /\ TmpIsMade'
    <2>1. Images!Target \in Images!Names /\ 1..0 = {}
      BY DEF Images!Target, Images!Names
    <2>2. Writes(t, Images!Target)' /\ Images!Target' = Images!Target
      BY <1>4, <2>1
         DEF Images!Open, Writes, Images!TypeOK, Images!Content, Images!Target,
             Images!Names
    <2>3. CASE kind = "resize"
      BY <1>4, <2>2, <2>3 DEF Images!Open, FinalIsMade, TmpIsMade, Images!Target
    <2>4. CASE kind = "tile"
      <3>1. \A u \in Threads : Writes(u, "final") => Writes(u, "final")'
        BY <1>4, <2>4
           DEF Images!Open, Writes, Images!Content, Images!Target, Images!TypeOK
      <3> QED
        BY <1>0, <1>4, <2>2, <2>4, <3>1
           DEF Images!Open, FinalIsMade, TmpIsMade, Images!Target
    <2> QED
      BY <2>3, <2>4 DEF Images!TypeOK
  <1>5. ASSUME NEW t \in Threads, Images!WritePart(t) PROVE FinalIsMade' /\ TmpIsMade'
    <2>1. written[t] \in 0..PartCount /\ written[t] + 1 \in Images!Parts
      BY <1>5 DEF Images!WritePart, Images!TypeOK, Images!Parts, Images!CacheAssumption
    <2>2. \A name \in Images!Names : Writes(t, name) => Writes(t, name)'
      <3> SUFFICES ASSUME NEW name \in Images!Names, Writes(t, name) PROVE Writes(t, name)'
        OBVIOUS
      <3>1. 1..(written[t] + 1) \subseteq Images!Content(name) \cup {written[t] + 1}
        BY <2>1, OneMore DEF Writes
      <3>2. Images!Content(name)' = Images!Content(name) \cup {written[t] + 1}
        BY <1>5 DEF Images!WritePart, Writes, Images!Content, Images!Names
      <3>3. written'[t] = written[t] + 1 /\ ipc'[t] = "write" /\ iopen'[t] = name
        BY <1>5 DEF Images!WritePart, Writes, Images!TypeOK
      <3> QED
        BY <3>1, <3>2, <3>3 DEF Writes
    <2>3. \A u \in Threads \ {t}, name \in Images!Names : Writes(u, name) => Writes(u, name)'
      BY <1>5 DEF Images!WritePart, Writes, Images!Content, Images!TypeOK
    <2>4. \A u \in Threads, name \in Images!Names : Writes(u, name) => Writes(u, name)'
      BY <2>2, <2>3
    <2>5. /\ final = Images!Parts => final' = Images!Parts
          /\ itmp = Images!Parts => itmp' = Images!Parts
      BY <1>5, <2>1 DEF Images!WritePart
    <2>6. /\ final = Absent => final' = Absent
          /\ itmp = Absent => itmp' = Absent
      BY <1>5 DEF Images!WritePart, Named
    <2>7. ipc[t] = "write"
      BY <1>5 DEF Images!WritePart
    <2>8. kind' = kind
      BY <1>5 DEF Images!WritePart
    <2> QED
      BY <1>0, <2>4, <2>5, <2>6, <2>7, <2>8 DEF FinalIsMade, TmpIsMade, Images!Names
  <1>6. ASSUME NEW t \in Threads, Images!Close(t) PROVE FinalIsMade' /\ TmpIsMade'
    <2>1. \A u \in Threads \ {t}, name \in Images!Names : Writes(u, name) => Writes(u, name)'
      BY <1>6 DEF Images!Close, Writes, Images!Content, Images!TypeOK
    <2>2. written[t] \in 0..PartCount /\ written[t] + 1 \notin Images!Parts
      BY <1>6 DEF Images!Close, Images!TypeOK, Images!Parts, Images!CacheAssumption
    <2>3. /\ Writes(t, "final") => final = Images!Parts
          /\ Writes(t, "tmp") => itmp = Images!Parts
      BY <2>2, LastOne, FilesAre DEF Writes, Images!Content, Named, Images!TypeOK
    <2>4. ipc[t] = "write" /\ UNCHANGED <<kind, final, itmp>>
      BY <1>6 DEF Images!Close
    <2> QED
      BY <1>0, <2>1, <2>3, <2>4 DEF FinalIsMade, TmpIsMade, Images!Names
  <1>7. ASSUME NEW t \in Threads, Images!SaveFails(t) PROVE FinalIsMade' /\ TmpIsMade'
    <2>1. ialone[t] /\ ipc[t] = "write" /\ kind' = kind
      BY <1>7 DEF Images!SaveFails
    <2>2. \A u \in Threads \ {t} : ipc[u] = "idle"
      BY <2>1 DEF LoneMakesIt
    <2>3. \A u \in Threads : ipc'[u] = "idle"
      BY <1>7, <2>2 DEF Images!SaveFails, Images!TypeOK
    <2>4. CASE kind = "resize"
      BY <1>7, <2>1, <2>4 DEF Images!SaveFails, LoneMakesIt, FinalIsMade, TmpIsMade
    <2>5. CASE kind = "tile"
      <3>1. \A u \in Threads : ~Writes(u, "final")
        BY <2>1, <2>2, <2>5 DEF LoneMakesIt, Writes
      <3> QED
        BY <1>0, <1>7, <2>1, <2>3, <2>5, <3>1
           DEF Images!SaveFails, FinalIsMade, TmpIsMade
    <2> QED
      BY <2>4, <2>5 DEF Images!TypeOK
  <1>8. ASSUME NEW t \in Threads, Images!Rename(t) PROVE FinalIsMade' /\ TmpIsMade'
    <2>1. kind = "tile" /\ ipc[t] = "rename" /\ itmp # Absent /\ final' = itmp /\ itmp' = Absent
      BY <1>8 DEF Images!Rename, Named
    <2>2. \A u \in Threads : Writes(u, "tmp") => Writes(u, "final")'
      BY <1>8 DEF Images!Rename, Writes, Images!Content, Images!TypeOK
    <2> QED
      BY <1>0, <2>1, <2>2 DEF FinalIsMade, TmpIsMade
  <1> QED
    BY <1>1, <1>2, <1>3, <1>4, <1>5, <1>6, <1>7, <1>8 DEF Images!Next

LEMMA ImageInvKept ==
  ASSUME Images!CacheAssumption, ImageInv, [Images!Next]_(Images!vars)
  PROVE  ImageInv'
  BY ImageTypeKept, ImageLoneKept, MadeKept DEF ImageInv

(* _serve_resized, the candidate images and the deep-zoom tiles: whatever  *)
(* threads made a file at the same time, it is whole or absent when they   *)
(* are done; unless the server ended in between, or a save failed that     *)
(* overlapped another call.                                                *)
THEOREM SettledIsWhole == ASSUME Images!CacheAssumption PROVE Images!Spec => []Images!SettledCacheIsWhole
  <1>1. Images!Init => ImageInv
    BY ImageInit
  <1>2. ImageInv /\ [Images!Next]_(Images!vars) => ImageInv'
    BY ImageInvKept
  <1>3. ImageInv => Images!SettledCacheIsWhole
    BY DEF ImageInv, FinalIsMade, Writes, Images!SettledCacheIsWhole
  <1> QED
    BY <1>1, <1>2, <1>3, PTL DEF Images!Spec

-----------------------------------------------------------------------------
(* Review gates *)

Decision == {"approve", "reject", "keep"}
Line == [qid : Works \cup Artists, decision : Decision]
Logs == Seq(Line \cup {Half})

(* The readable lines about q.                                             *)
About(journal, q) == {i \in DOMAIN journal : journal[i] # Half /\ journal[i].qid = q}

(* Of the numbers of a log's lines one is the greatest: of the intervals   *)
(* from one of them to the end, one contains no other.                     *)
LEMMA GreatestExists ==
  ASSUME NEW n \in Nat, NEW S \in SUBSET (1..n), S # {}
  PROVE  \E i \in S : \A j \in S : i >= j
  <1> DEFINE From == {i..n : i \in S}
             Within == StrictSubsetOrdering(1..n)
  <1>1. IsFiniteSet(1..n)
    BY FS_Interval
  <1>2. IsWellFoundedOn(Within, FiniteSubsetsOf(1..n))
    BY <1>1, FS_StrictSubsetOrderingWellFounded
  <1>3. From \subseteq FiniteSubsetsOf(1..n) /\ From # {}
    <2>1. \A i \in S : i..n \subseteq 1..n
      OBVIOUS
    <2>2. FiniteSubsetsOf(1..n) = SUBSET (1..n)
      BY <1>1, FS_FiniteSubsetsOfFinite
    <2>3. From \subseteq SUBSET (1..n)
      BY <2>1
    <2>4. From # {}
      OBVIOUS
    <2> QED
      BY <2>2, <2>3, <2>4
  <1>4. PICK least \in From : \A from \in From : ~ (<<from, least>> \in Within)
    <2> HIDE DEF From, Within
    <2> QED
      BY <1>2, <1>3, WFMin
  <1>5. PICK i \in S : least = i..n
    BY <1>4
  <1>6. ASSUME NEW j \in S PROVE i >= j
    <2>1. i \in 1..n /\ j \in 1..n /\ i..n \in SUBSET (1..n) /\ j..n \in SUBSET (1..n)
      OBVIOUS
    <2>2. ~ (j..n \subseteq i..n /\ j..n # i..n)
      <3> DEFINE pair == <<j..n, i..n>>
      <3>1. pair \notin Within
        BY <1>4, <1>5
      <3>2. /\ pair \in (SUBSET (1..n)) \X (SUBSET (1..n))
            /\ pair[1] = j..n /\ pair[2] = i..n
        BY <2>1
      <3> QED
        BY <3>1, <3>2 DEF StrictSubsetOrdering
    <2>3. CASE i < j
      <3>1. j..n \subseteq i..n /\ i \in i..n /\ i \notin j..n
        BY <2>1, <2>3
      <3> QED
        BY <2>2, <3>1
    <2> QED
      BY <2>1, <2>3
  <1> QED
    BY <1>6

LEMMA MaxIs ==
  ASSUME NEW n \in Nat, NEW S \in SUBSET (1..n), S # {}
  PROVE  Gates!Max(S) \in S /\ \A j \in S : Gates!Max(S) >= j
  BY GreatestExists DEF Gates!Max

LEMMA SaysIs ==
  ASSUME Gates!GateAssumption, NEW journal \in Logs, NEW q
  PROVE  /\ About(journal, q) = {} => Gates!Says(journal, q) = "nothing"
         /\ About(journal, q) # {} => /\ Gates!Max(About(journal, q)) \in About(journal, q)
                                  /\ Gates!Says(journal, q) = journal[Gates!Max(About(journal, q))].decision
                                  /\ Gates!Says(journal, q) \in Decision
  <1>1. Gates!Says(journal, q) = IF About(journal, q) = {} THEN "nothing" ELSE journal[Gates!Max(About(journal, q))].decision
    BY DEF Gates!Says, About
  <1>2. /\ Len(journal) \in Nat /\ DOMAIN journal = 1..Len(journal)
        /\ \A i \in DOMAIN journal : journal[i] # Half => journal[i] \in Line
    BY DEF Logs
  <1>3. About(journal, q) \in SUBSET (1..Len(journal))
    BY <1>2 DEF About
  <1>4. ASSUME About(journal, q) # {}
        PROVE  Gates!Max(About(journal, q)) \in About(journal, q)
    BY <1>2, <1>3, <1>4, MaxIs
  <1>5. ASSUME NEW i \in About(journal, q) PROVE journal[i].decision \in Decision
    BY <1>2 DEF About, Line
  <1> QED
    BY <1>1, <1>4, <1>5

(* A line by itself counts for what it is about and for nothing else.      *)
LEMMA AppendSays ==
  ASSUME Gates!GateAssumption, NEW journal \in Logs, NEW line \in Line
  PROVE  /\ Append(journal, line) \in Logs
         /\ Gates!Says(Append(journal, line), line.qid) = line.decision
         /\ \A q : q # line.qid => Gates!Says(Append(journal, line), q) = Gates!Says(journal, q)
  <1> DEFINE more == Append(journal, line)
             last == Len(journal) + 1
  <1>1. /\ more \in Logs /\ last \in Nat /\ Len(journal) \in Nat /\ DOMAIN journal = 1..Len(journal)
        /\ DOMAIN more = 1..last /\ more[last] = line
        /\ \A i \in DOMAIN journal : more[i] = journal[i]
        /\ line # Half
    BY DEF Logs, Gates!GateAssumption, Line, Decision
  <1> HIDE DEF more
  <1>2. Gates!Says(more, line.qid) = line.decision
    <2>1. last \in About(more, line.qid) /\ About(more, line.qid) \in SUBSET (1..last)
      BY <1>1 DEF About
    <2>2. Gates!Max(About(more, line.qid)) \in 1..last /\ Gates!Max(About(more, line.qid)) >= last
      BY <1>1, <2>1, MaxIs
    <2>3. Gates!Max(About(more, line.qid)) = last
      BY <1>1, <2>2
    <2> QED
      BY <1>1, <2>1, <2>3, SaysIs
  <1>3. ASSUME NEW q, q # line.qid PROVE Gates!Says(more, q) = Gates!Says(journal, q)
    <2>1. About(more, q) = About(journal, q)
      BY <1>1, <1>3 DEF About
    <2>2. About(journal, q) \subseteq DOMAIN journal
      BY DEF About
    <2> QED
      BY <1>1, <2>1, <2>2, SaysIs
  <1> QED
    BY <1>1, <1>2, <1>3 DEF more

LEMMA CutSays ==
  ASSUME Gates!GateAssumption, NEW journal \in Logs
  PROVE  /\ Gates!CutShort(journal) \in Logs
         /\ \A q : Gates!Says(Gates!CutShort(journal), q) = Gates!Says(journal, q)
  <1> DEFINE more == Append(journal, Half)
  <1>1. /\ more \in Logs /\ Len(journal) \in Nat /\ DOMAIN journal = 1..Len(journal)
        /\ DOMAIN more = 1..(Len(journal) + 1) /\ more[Len(journal) + 1] = Half
        /\ \A i \in DOMAIN journal : more[i] = journal[i]
    BY DEF Logs
  <1> HIDE DEF more
  <1>2. ASSUME NEW q PROVE Gates!Says(more, q) = Gates!Says(journal, q)
    <2>1. About(more, q) = About(journal, q) /\ About(journal, q) \subseteq DOMAIN journal
      BY <1>1 DEF About
    <2> QED
      BY <1>1, <2>1, SaysIs
  <1> QED
    BY <1>1, <1>2 DEF Gates!CutShort, more

LEMMA FrontSays ==
  ASSUME Gates!GateAssumption, NEW journal \in Logs, journal # <<>>, Gates!Last(journal) = Half
  PROVE  /\ Gates!Front(journal) \in Logs
         /\ \A q : Gates!Says(Gates!Front(journal), q) = Gates!Says(journal, q)
  <1> DEFINE less == Gates!Front(journal)
  <1>1. /\ less \in Logs /\ Len(journal) \in Nat /\ DOMAIN journal = 1..Len(journal)
        /\ DOMAIN less = 1..(Len(journal) - 1) /\ journal[Len(journal)] = Half
        /\ \A i \in DOMAIN less : less[i] = journal[i]
    BY DEF Logs, Gates!Front, Gates!Last
  <1> HIDE DEF less
  <1>2. ASSUME NEW q PROVE Gates!Says(less, q) = Gates!Says(journal, q)
    <2>1. About(less, q) = About(journal, q) /\ About(less, q) \subseteq DOMAIN less
      BY <1>1 DEF About
    <2> QED
      BY <1>1, <2>1, SaysIs
  <1> QED
    BY <1>1, <1>2 DEF less

LEMMA AppendLineSays ==
  ASSUME Gates!GateAssumption, NEW journal \in Logs, NEW line \in Line
  PROVE  /\ Gates!AppendLine(journal, line) \in Logs
         /\ Gates!Says(Gates!AppendLine(journal, line), line.qid) \in {line.decision, Gates!Says(journal, line.qid)}
         /\ \A q : q # line.qid => Gates!Says(Gates!AppendLine(journal, line), q) = Gates!Says(journal, q)
  <1>1. CASE journal # <<>> /\ Gates!Last(journal) = Half
    BY <1>1, FrontSays DEF Gates!AppendLine
  <1>2. CASE ~ (journal # <<>> /\ Gates!Last(journal) = Half)
    <2>1. Gates!AppendLine(journal, line) = Append(journal, line)
      BY <1>2 DEF Gates!AppendLine
    <2> QED
      BY <2>1, AppendSays
  <1> QED
    BY <1>1, <1>2

-----------------------------------------------------------------------------

Ruled(artists, journal) == artists \subseteq Gates!Approved(journal) \cup Gates!Refused(journal)

(* What a request has read, and what it has made of it.                    *)
HasAllow == gpc \in {"ruled", "refused", "count", "gates", "ruledLook", "look", "works"}
HasRuled == gpc \in {"refused", "count", "gates", "look", "works"}
HasRefused == gpc \in {"count", "gates"}

Logged ==
  /\ artistLog \in Logs /\ workLog \in Logs /\ lines \in Nat

Lists ==
  /\ gpc \notin {"gates", "works"} => shown = Gates!NoLists
  /\ gpc = "gates" =>
       shown = [new |-> Gates!NewArtist(allow, refused, ruled), routed |-> Gates!Routed(ruled),
                unclear |-> Gates!Unclear(ruled), deferred |-> Gates!Deferred(ruled), look |-> {}]
  /\ gpc = "works" => \E works \in SUBSET Works :
                        /\ shown = [Gates!NoLists EXCEPT !.look = works]
                        /\ works \cap ruled = {}

(* Nothing that was decided is lost again.                                 *)
DecidedStands ==
  /\ gpc = "idle" => ruledAtFirst = {} /\ standing = {} /\ quiet
  /\ ruledAtFirst \subseteq Gates!RuledOn(workLog)
  /\ HasRuled /\ "ruled" \notin unread => ruledAtFirst \subseteq ruled
  /\ Ruled(standing, artistLog)

(* Whose decision stands was allowed when the allowed were read, or will   *)
(* be among the refused.                                                   *)
StandingIsSeen ==
  /\ HasAllow /\ "allow" \notin unread =>
       standing \subseteq allow \cup Gates!Refused(artistLog)
  /\ HasRefused /\ {"allow", "refused"} \cap unread = {} => standing \subseteq allow \cup refused

(* With no decision in between, what was read is what the logs say.        *)
QuietIsCurrent ==
  quiet => /\ HasAllow /\ "allow" \notin unread => allow = Gates!Approved(artistLog)
           /\ HasRuled /\ "ruled" \notin unread => ruled = Gates!RuledOn(workLog)
           /\ HasRefused /\ "refused" \notin unread => refused = Gates!Refused(artistLog)

(* Every work has an artist.                                              *)
EachHasArtist == by \in [Works -> Artists]

GateInv == Logged /\ Lists /\ DecidedStands /\ StandingIsSeen /\ QuietIsCurrent

LEMMA GateInit == ASSUME Gates!GateAssumption, Gates!Init PROVE GateInv
  <1>1. <<>> \in Logs /\ 0 \in Nat
    BY DEF Logs
  <1> QED
    BY <1>1
       DEF Gates!Init, GateInv, Logged, Lists, DecidedStands, StandingIsSeen,
           QuietIsCurrent, Ruled, HasAllow, HasRuled, HasRefused

(* A decision that comes in between.                                       *)
LEMMA MeanwhileKept ==
  ASSUME GateInv, NEW artists \in SUBSET Artists, Gates!Meanwhile(artists),
         artistLog' \in Logs, workLog' \in Logs,
         \A a \in Artists \ artists : Gates!Says(artistLog', a) = Gates!Says(artistLog, a),
         \A w \in Works : Gates!Says(workLog, w) # "nothing" => Gates!Says(workLog', w) # "nothing"
  PROVE  GateInv'
  <1> USE DEF GateInv
  <1>1. /\ UNCHANGED <<Gates!world, gpc, Gates!locals, shown, ruledAtFirst, unread>>
        /\ standing' = standing \ artists /\ quiet' = (gpc = "idle")
    BY DEF Gates!Meanwhile
  <1>2. /\ UNCHANGED <<frontier, readable, known, by, allow, refused, ruled, gpc, shown>>
        /\ UNCHANGED <<ruledAtFirst, unread>>
    BY <1>1 DEF Gates!world, Gates!locals
  <1>3. \A a \in Artists \ artists : /\ a \in Gates!Approved(artistLog') <=> a \in Gates!Approved(artistLog)
                                     /\ a \in Gates!Refused(artistLog') <=> a \in Gates!Refused(artistLog)
    BY DEF Gates!Approved, Gates!Refused
  <1>4. Gates!RuledOn(workLog) \subseteq Gates!RuledOn(workLog')
    BY DEF Gates!RuledOn
  <1>5. standing \subseteq Artists
    BY DEF DecidedStands, Ruled, Gates!Approved, Gates!Refused
  <1>6. Logged'
    BY DEF Logged, Gates!Meanwhile
  <1>7. Lists'
    BY <1>2 DEF Lists, Gates!NewArtist, Gates!Routed, Gates!Unclear, Gates!Deferred
  <1>8. DecidedStands'
    BY <1>1, <1>2, <1>3, <1>4, <1>5 DEF DecidedStands, Ruled, HasRuled
  <1>9. StandingIsSeen'
    BY <1>1, <1>2, <1>3, <1>5 DEF StandingIsSeen, HasAllow, HasRefused
  <1>10. QuietIsCurrent'
    BY <1>1, <1>2 DEF QuietIsCurrent, HasAllow, HasRuled, HasRefused
  <1> QED
    BY <1>6, <1>7, <1>8, <1>9, <1>10

LEMMA DecisionKept ==
  ASSUME Gates!GateAssumption, GateInv,
         \/ \E a \in Artists, decision \in {"approve", "reject"} : Gates!DecideArtist(a, decision)
         \/ \E w \in Works : Gates!DecideWork(w)
         \/ Gates!AppendFails
  PROVE  GateInv'
  <1>1. artistLog \in Logs /\ workLog \in Logs /\ {} \in SUBSET Artists
    BY DEF GateInv, Logged
  <1>2. ASSUME NEW a \in Artists, NEW decision \in {"approve", "reject"}, Gates!DecideArtist(a, decision)
        PROVE  GateInv'
    <2>1. [qid |-> a, decision |-> decision] \in Line /\ {a} \in SUBSET Artists
      BY DEF Line, Decision
    <2>2. /\ artistLog' \in Logs /\ workLog' = workLog /\ Gates!Meanwhile({a})
          /\ \A b \in Artists \ {a} : Gates!Says(artistLog', b) = Gates!Says(artistLog, b)
      BY <1>1, <1>2, <2>1, AppendLineSays DEF Gates!DecideArtist
    <2> QED
      BY <1>1, <2>1, <2>2, MeanwhileKept
  <1>3. ASSUME NEW w \in Works, Gates!DecideWork(w) PROVE GateInv'
    <2>1. [qid |-> w, decision |-> "keep"] \in Line
      BY DEF Line, Decision
    <2>2. /\ workLog' \in Logs /\ artistLog' = artistLog /\ Gates!Meanwhile({})
          /\ \A v : v # w => Gates!Says(workLog', v) = Gates!Says(workLog, v)
          /\ Gates!Says(workLog', w) \in {"keep", Gates!Says(workLog, w)}
      BY <1>1, <1>3, <2>1, AppendLineSays DEF Gates!DecideWork
    <2>3. \A v \in Works : Gates!Says(workLog, v) # "nothing" => Gates!Says(workLog', v) # "nothing"
      BY <2>2
    <2> QED
      BY <1>1, <2>2, <2>3, MeanwhileKept
  <1>4. ASSUME Gates!AppendFails PROVE GateInv'
    <2>1. /\ Gates!Meanwhile({}) /\ artistLog' \in Logs /\ workLog' \in Logs
          /\ \A q : Gates!Says(artistLog', q) = Gates!Says(artistLog, q)
          /\ \A q : Gates!Says(workLog', q) = Gates!Says(workLog, q)
      BY <1>1, <1>4, CutSays DEF Gates!AppendFails
    <2> QED
      BY <1>1, <2>1, MeanwhileKept
  <1> QED
    BY <1>2, <1>3, <1>4

(* Every list leaves out what has been ruled on.                           *)
LEMMA ListsLeaveOut ==
  ASSUME NEW allowed, NEW no, NEW decided
  PROVE  /\ decided \cap Gates!NewArtist(allowed, no, decided) = {}
         /\ decided \cap Gates!Routed(decided) = {}
         /\ decided \cap Gates!Unclear(decided) = {}
         /\ decided \cap Gates!Deferred(decided) = {}
         /\ \A source \in {"approved", "routed", "rights"} :
              /\ Gates!AwaitingLook(source, allowed, decided) \in SUBSET Works
              /\ Gates!AwaitingLook(source, allowed, decided) \cap decided = {}
  BY DEF Gates!NewArtist, Gates!Routed, Gates!Unclear, Gates!Deferred,
         Gates!AwaitingLook

LEMMA RequestKept ==
  ASSUME GateInv,
         \/ Gates!Begin \/ Gates!LoadAllowed \/ Gates!LoadRuled \/ Gates!LoadRefused \/ Gates!Count \/ Gates!Answer
         \/ \E source \in {"approved", "routed", "rights"} : Gates!Look(source)
  PROVE  GateInv'
  <1> USE DEF GateInv, Gates!Goto, HasAllow, HasRuled, HasRefused
  <1>1. CASE Gates!Begin
    BY <1>1
       DEF Gates!Begin, Gates!world, Gates!logs, Gates!locals, Logged, Lists,
           DecidedStands, StandingIsSeen, QuietIsCurrent, Ruled
  <1>2. CASE Gates!LoadAllowed
    BY <1>2
       DEF Gates!LoadAllowed, Gates!Take, Gates!world, Gates!logs, Logged, Lists,
           DecidedStands, StandingIsSeen, QuietIsCurrent, Ruled
  <1>3. CASE Gates!LoadRuled
    BY <1>3
       DEF Gates!LoadRuled, Gates!Take, Gates!world, Gates!logs, Logged, Lists,
           DecidedStands, StandingIsSeen, QuietIsCurrent, Ruled
  <1>4. CASE Gates!LoadRefused
    BY <1>4
       DEF Gates!LoadRefused, Gates!Take, Gates!world, Gates!logs, Logged, Lists,
           DecidedStands, StandingIsSeen, QuietIsCurrent, Ruled
  <1>5. CASE Gates!Count
    <2>1. /\ UNCHANGED <<frontier, readable, known, by, artistLog, workLog, lines>>
          /\ UNCHANGED <<allow, refused, ruled, ruledAtFirst, standing, quiet, unread>>
          /\ gpc = "count" /\ gpc' = "gates"
      BY <1>5 DEF Gates!Count, Gates!world, Gates!logs, Gates!locals, Gates!history
    <2>2. Lists'
      BY <1>5, <2>1
         DEF Gates!Count, Lists, Gates!NewArtist, Gates!Routed, Gates!Unclear,
             Gates!Deferred
    <2> QED
      BY <2>1, <2>2 DEF Logged, DecidedStands, StandingIsSeen, QuietIsCurrent, Ruled
  <1>6. ASSUME NEW source \in {"approved", "routed", "rights"}, Gates!Look(source)
        PROVE  GateInv'
    <2>1. /\ UNCHANGED <<frontier, readable, known, by, artistLog, workLog, lines>>
          /\ UNCHANGED <<allow, refused, ruled, ruledAtFirst, standing, quiet, unread>>
          /\ gpc = "look" /\ gpc' = "works"
      BY <1>6 DEF Gates!Look, Gates!world, Gates!logs, Gates!locals, Gates!history
    <2> DEFINE works == IF readable THEN Gates!AwaitingLook(source, allow, ruled) ELSE {}
    <2>2. works \in SUBSET Works /\ works \cap ruled = {}
      BY ListsLeaveOut
    <2>3. shown' = [Gates!NoLists EXCEPT !.look = works]
      BY <1>6 DEF Gates!Look
    <2> HIDE DEF works
    <2>4. Lists'
      BY <2>1, <2>2, <2>3 DEF Lists
    <2> QED
      BY <2>1, <2>4 DEF Logged, DecidedStands, StandingIsSeen, QuietIsCurrent, Ruled
  <1>7. CASE Gates!Answer
    BY <1>7
       DEF Gates!Answer, Gates!world, Gates!logs, Logged, Lists, DecidedStands,
           StandingIsSeen, QuietIsCurrent, Ruled
  <1> QED
    BY <1>1, <1>2, <1>3, <1>4, <1>5, <1>6, <1>7

LEMMA GatesStutter == ASSUME GateInv, UNCHANGED Gates!vars PROVE GateInv'
  <1>1. /\ UNCHANGED <<frontier, readable, known, by, artistLog, workLog, lines, gpc, shown>>
        /\ UNCHANGED <<allow, refused, ruled, ruledAtFirst, standing, quiet, unread>>
    BY DEF Gates!vars, Gates!world, Gates!logs, Gates!locals, Gates!history
  <1>2. Lists'
    BY <1>1
       DEF GateInv, Lists, Gates!NewArtist, Gates!Routed, Gates!Unclear, Gates!Deferred
  <1> QED
    BY <1>1, <1>2
       DEF GateInv, Logged, DecidedStands, StandingIsSeen, QuietIsCurrent, Ruled,
           HasAllow, HasRuled, HasRefused

LEMMA GateStep ==
  ASSUME Gates!GateAssumption, GateInv, [Gates!Next]_(Gates!vars)
  PROVE  GateInv'
  BY DecisionKept, RequestKept, GatesStutter DEF Gates!Next

LEMMA DecidedFollows == ASSUME GateInv PROVE Gates!DecidedIsNotAsked
  <1> USE DEF GateInv
  <1>1. CASE gpc \notin {"gates", "works"}
    BY <1>1 DEF Lists, Gates!NoLists, Gates!DecidedIsNotAsked
  <1>2. CASE gpc = "gates"
    <2>1. /\ shown.new = Gates!NewArtist(allow, refused, ruled) /\ shown.routed = Gates!Routed(ruled)
          /\ shown.unclear = Gates!Unclear(ruled) /\ shown.deferred = Gates!Deferred(ruled)
          /\ shown.look = {}
      BY <1>2 DEF Lists
    <2>2. /\ "ruled" \notin unread => ruledAtFirst \subseteq ruled
          /\ {"allow", "refused"} \cap unread = {} => standing \subseteq allow \cup refused
      BY <1>2 DEF DecidedStands, StandingIsSeen, HasRuled, HasRefused
    <2>3. {"allow", "refused"} \cap unread = {} => standing \cap {by[w] : w \in shown.new} = {}
      BY <2>1, <2>2 DEF Gates!NewArtist
    <2>4. ruled \cap UNION {shown.new, shown.routed, shown.unclear, shown.deferred, shown.look} = {}
      BY <2>1, ListsLeaveOut
    <2> QED
      BY <2>2, <2>3, <2>4 DEF Gates!DecidedIsNotAsked
  <1>3. CASE gpc = "works"
    <2>1. PICK works \in SUBSET Works : /\ shown = [Gates!NoLists EXCEPT !.look = works]
                                        /\ works \cap ruled = {}
      BY <1>3 DEF Lists
    <2>2. /\ shown.new = {} /\ shown.routed = {} /\ shown.unclear = {} /\ shown.deferred = {}
          /\ shown.look = works
      BY <2>1 DEF Gates!NoLists
    <2>3. "ruled" \notin unread => ruledAtFirst \subseteq ruled
      BY <1>3 DEF DecidedStands, HasRuled
    <2> QED
      BY <2>1, <2>2, <2>3 DEF Gates!DecidedIsNotAsked
  <1> QED
    BY <1>1, <1>2, <1>3

(* An approval by itself adds one to the approved.                         *)
LEMMA ApprovalAdds ==
  ASSUME Gates!GateAssumption, NEW journal \in Logs, NEW a \in Artists
  PROVE  Gates!Approved(Append(journal, [qid |-> a, decision |-> "approve"])) = Gates!Approved(journal) \cup {a}
  <1> DEFINE approval == [qid |-> a, decision |-> "approve"]
  <1>1. approval \in Line /\ approval.qid = a /\ approval.decision = "approve"
    BY DEF Line, Decision
  <1>2. /\ Gates!Says(Append(journal, approval), a) = "approve"
        /\ \A q : q # a => Gates!Says(Append(journal, approval), q) = Gates!Says(journal, q)
    <2> HIDE DEF approval
    <2> QED
      BY <1>1, AppendSays
  <1> QED
    BY <1>2 DEF Gates!Approved

LEMMA GateFollows ==
  ASSUME Gates!GateAssumption, GateInv, EachHasArtist
  PROVE  Gates!GateKeepsItsWord
  <1> USE DEF GateInv
  <1> SUFFICES ASSUME gpc = "gates", quiet, unread = {}, NEW v \in shown.new
               PROVE  LET a == by[v]
                          approval == [qid |-> a, decision |-> "approve"]
                          released(journal) == Gates!AwaitingLook("approved", Gates!Approved(journal), Gates!RuledOn(workLog))
                      IN  released(Append(artistLog, approval)) \ released(artistLog)
                            = {w \in shown.new : by[w] = a}
    BY DEF Gates!GateKeepsItsWord
  <1> DEFINE a == by[v]
  <1>1. /\ shown.new = Gates!NewArtist(allow, refused, ruled) /\ allow = Gates!Approved(artistLog)
        /\ ruled = Gates!RuledOn(workLog) /\ refused = Gates!Refused(artistLog) /\ artistLog \in Logs
    BY DEF Lists, QuietIsCurrent, Logged, HasAllow, HasRuled, HasRefused
  <1>2. v \in Works /\ a \in Artists /\ a \notin known \cup allow \cup refused
    BY <1>1 DEF Gates!NewArtist, EachHasArtist
  <1>3. Gates!Approved(Append(artistLog, [qid |-> a, decision |-> "approve"])) = allow \cup {a}
    BY <1>1, <1>2, ApprovalAdds
  <1>4. Gates!AwaitingLook("approved", allow \cup {a}, ruled) \ Gates!AwaitingLook("approved", allow, ruled)
          = {w \in Gates!NewArtist(allow, refused, ruled) : by[w] = a}
    BY <1>2 DEF Gates!AwaitingLook, Gates!NewArtist
  <1> QED
    BY <1>1, <1>3, <1>4

THEOREM GatesKept == ASSUME Gates!GateAssumption PROVE Gates!Spec => [](GateInv /\ EachHasArtist)
  <1>1. Gates!Init => GateInv /\ EachHasArtist
    BY GateInit DEF Gates!Init, EachHasArtist
  <1>2. EachHasArtist /\ [Gates!Next]_(Gates!vars) => EachHasArtist'
    BY DEF EachHasArtist, Gates!Next, Gates!vars, Gates!world, Gates!Begin,
           Gates!LoadAllowed, Gates!LoadRuled, Gates!LoadRefused, Gates!Count,
           Gates!Look, Gates!Answer, Gates!DecideArtist, Gates!DecideWork,
           Gates!AppendFails, Gates!Meanwhile
  <1>3. GateInv /\ [Gates!Next]_(Gates!vars) => GateInv'
    BY GateStep
  <1> QED
    BY <1>1, <1>2, <1>3, PTL DEF Gates!Spec

-----------------------------------------------------------------------------
(* The card *)

Files == [no : Nat, work : Works \cup {NoOne}, by : Card!Runs \cup {NoOne}]

(* What an export has written: numbered from 1, its own.                   *)
WroteOf(w, r) ==
  \A i \in DOMAIN w : w[i].no = i /\ w[i].by = r /\ w[i].work \in Works

(* The works in w are from the part of the playlist a that t does not      *)
(* contain any more, in its order.                                         *)
OrderOf(a, t, w) ==
  /\ Len(t) <= Len(a)
  /\ \A n \in 1..Len(t) : t[n] = a[Len(a) - Len(t) + n]
  /\ \A i \in DOMAIN w : \E k \in 1..(Len(a) - Len(t)) : a[k] = w[i].work
  /\ \A i, j \in DOMAIN w : i < j =>
       \E k, l \in 1..(Len(a) - Len(t)) : k < l /\ a[k] = w[i].work /\ a[l] = w[j].work

Distinct(files) == \A f, g \in files : Card!SameName(f, g) => f = g

LEMMA Wrote0 == ASSUME NEW r PROVE WroteOf(<<>>, r)
  BY DEF WroteOf

LEMMA WroteMore ==
  ASSUME NEW w \in Seq(Files), NEW r, NEW x \in Works, WroteOf(w, r),
         NEW f \in Files, f = [no |-> Len(w) + 1, work |-> x, by |-> r]
  PROVE  WroteOf(Append(w, f), r)
  BY DEF WroteOf

LEMMA Order0 == ASSUME NEW a \in Seq(Works) PROVE OrderOf(a, a, <<>>)
  BY DEF OrderOf

LEMMA EmptyOrder == OrderOf(<<>>, <<>>, <<>>)
  <1>1. <<>> \in Seq(Works)
    OBVIOUS
  <1> QED
    BY <1>1, Order0

LEMMA AppendIsSome ==
  ASSUME NEW w \in Seq(Files), NEW f \in Files
  PROVE  Append(w, f) # <<>>
  <1>1. Len(Append(w, f)) = Len(w) + 1 /\ Len(w) \in Nat /\ Len(<<>>) = 0
    OBVIOUS
  <1> QED
    BY <1>1

LEMMA OrderSkip ==
  ASSUME NEW a \in Seq(Works), NEW t \in Seq(Works), t # <<>>, NEW w \in Seq(Files),
         OrderOf(a, t, w)
  PROVE  OrderOf(a, Tail(t), w)
  <1>1. /\ Len(t) \in Nat /\ Len(t) > 0 /\ Len(Tail(t)) = Len(t) - 1 /\ Len(a) \in Nat
        /\ \A n \in 1..Len(Tail(t)) : Tail(t)[n] = t[n + 1]
    OBVIOUS
  <1>2. /\ Len(Tail(t)) <= Len(a)
        /\ 1..(Len(a) - Len(t)) \subseteq 1..(Len(a) - Len(Tail(t)))
    BY <1>1 DEF OrderOf
  <1>3. \A n \in 1..Len(Tail(t)) : Tail(t)[n] = a[Len(a) - Len(Tail(t)) + n]
    <2>1. ASSUME NEW n \in 1..Len(Tail(t))
          PROVE  n + 1 \in 1..Len(t) /\ Len(a) - Len(Tail(t)) + n = Len(a) - Len(t) + (n + 1)
      BY <1>1
    <2> QED
      BY <1>1, <2>1 DEF OrderOf
  <1>4. \A i \in DOMAIN w : \E k \in 1..(Len(a) - Len(Tail(t))) : a[k] = w[i].work
    BY <1>2 DEF OrderOf
  <1>5. \A i, j \in DOMAIN w : i < j =>
          \E k, l \in 1..(Len(a) - Len(Tail(t))) :
            k < l /\ a[k] = w[i].work /\ a[l] = w[j].work
    <2> SUFFICES ASSUME NEW i \in DOMAIN w, NEW j \in DOMAIN w, i < j
                 PROVE  \E k, l \in 1..(Len(a) - Len(Tail(t))) :
                          k < l /\ a[k] = w[i].work /\ a[l] = w[j].work
      OBVIOUS
    <2>1. PICK k \in 1..(Len(a) - Len(t)), l \in 1..(Len(a) - Len(t)) :
            k < l /\ a[k] = w[i].work /\ a[l] = w[j].work
      BY DEF OrderOf
    <2> QED
      BY <1>2, <2>1
  <1> QED
    BY <1>2, <1>3, <1>4, <1>5 DEF OrderOf

LEMMA OrderMore ==
  ASSUME NEW a \in Seq(Works), NEW t \in Seq(Works), t # <<>>, NEW w \in Seq(Files),
         OrderOf(a, t, w), NEW f \in Files, f.work = Head(t)
  PROVE  OrderOf(a, Tail(t), Append(w, f))
  <1> DEFINE past == Len(a) - Len(Tail(t))
             more == Append(w, f)
  <1>1. OrderOf(a, Tail(t), w)
    BY OrderSkip
  <1>2. /\ past = (Len(a) - Len(t)) + 1 /\ Len(a) - Len(t) \in Nat
        /\ past \in 1..past /\ a[past] = f.work
    <2>1. /\ Len(t) \in Nat /\ 1 \in 1..Len(t) /\ Len(Tail(t)) = Len(t) - 1 /\ Len(a) \in Nat
          /\ Head(t) = t[1]
      OBVIOUS
    <2> QED
      BY <2>1 DEF OrderOf
  <1>3. /\ Len(w) \in Nat /\ DOMAIN more = 1..(Len(w) + 1) /\ DOMAIN w = 1..Len(w)
        /\ more[Len(w) + 1] = f /\ \A i \in DOMAIN w : more[i] = w[i]
    OBVIOUS
  <1> HIDE DEF more, past
  <1>4. ASSUME NEW i \in DOMAIN more PROVE \E k \in 1..past : a[k] = more[i].work
    <2>1. CASE i \in DOMAIN w
      BY <1>1, <1>3, <2>1 DEF OrderOf, past
    <2>2. CASE i \notin DOMAIN w
      <3>1. i = Len(w) + 1
        BY <1>3, <2>2
      <3> QED
        BY <1>2, <1>3, <3>1
    <2> QED
      BY <2>1, <2>2
  <1>5. ASSUME NEW i \in DOMAIN more, NEW j \in DOMAIN more, i < j
        PROVE  \E k, l \in 1..past : k < l /\ a[k] = more[i].work /\ a[l] = more[j].work
    <2>1. i \in DOMAIN w /\ (j \in DOMAIN w \/ j = Len(w) + 1)
      BY <1>3, <1>5
    <2>2. CASE j \in DOMAIN w
      <3>1. PICK k \in 1..past, l \in 1..past : k < l /\ a[k] = w[i].work /\ a[l] = w[j].work
        BY <1>1, <1>5, <2>1, <2>2 DEF OrderOf, past
      <3> QED
        BY <1>3, <2>1, <2>2, <3>1
    <2>3. CASE j = Len(w) + 1
      <3>1. PICK k \in 1..(Len(a) - Len(t)) : a[k] = w[i].work
        BY <2>1 DEF OrderOf
      <3>2. k \in 1..past /\ k < past
        BY <1>2, <3>1
      <3> QED
        BY <1>2, <1>3, <2>1, <2>3, <3>1, <3>2
    <2> QED
      BY <2>1, <2>2, <2>3
  <1> QED
    BY <1>1, <1>4, <1>5 DEF OrderOf, past, more

LEMMA OrderShows ==
  ASSUME NEW a \in Seq(Works), NEW t \in Seq(Works), NEW w \in Seq(Files), OrderOf(a, t, w)
  PROVE  \A i, j \in DOMAIN w : i < j =>
           \E k, l \in DOMAIN a : k < l /\ a[k] = w[i].work /\ a[l] = w[j].work
  <1>1. Len(a) \in Nat /\ Len(t) \in Nat /\ DOMAIN a = 1..Len(a)
    OBVIOUS
  <1>2. 1..(Len(a) - Len(t)) \subseteq DOMAIN a
    BY <1>1
  <1> SUFFICES ASSUME NEW i \in DOMAIN w, NEW j \in DOMAIN w, i < j
               PROVE  \E k, l \in DOMAIN a : k < l /\ a[k] = w[i].work /\ a[l] = w[j].work
    OBVIOUS
  <1>3. PICK k \in 1..(Len(a) - Len(t)), l \in 1..(Len(a) - Len(t)) :
          k < l /\ a[k] = w[i].work /\ a[l] = w[j].work
    BY DEF OrderOf
  <1>4. k \in DOMAIN a /\ l \in DOMAIN a
    BY <1>2
  <1> QED
    BY <1>3, <1>4

LEMMA ToSet0 == Card!ToSet(<<>>) = {}
  BY DEF Card!ToSet

LEMMA ToSetMore ==
  ASSUME NEW w \in Seq(Files), NEW f
  PROVE  Card!ToSet(Append(w, f)) = Card!ToSet(w) \cup {f}
  <1> DEFINE more == Append(w, f)
  <1>1. /\ Len(w) \in Nat /\ DOMAIN more = DOMAIN w \cup {Len(w) + 1}
        /\ more[Len(w) + 1] = f /\ \A i \in DOMAIN w : more[i] = w[i]
    OBVIOUS
  <1> HIDE DEF more
  <1>2. Card!ToSet(more) = Card!ToSet(w) \cup {f}
    BY <1>1 DEF Card!ToSet
  <1> QED
    BY <1>2 DEF more

LEMMA ToSetWrote ==
  ASSUME NEW w \in Seq(Files), NEW r, WroteOf(w, r)
  PROVE  /\ Card!ToSet(w) \subseteq Files
         /\ \A f \in Card!ToSet(w) : f.no \in 1..Len(w) /\ f.by = r
         /\ {f.no : f \in Card!ToSet(w)} = 1..Len(w)
  <1>1. DOMAIN w = 1..Len(w) /\ \A i \in 1..Len(w) : w[i] \in Files
    OBVIOUS
  <1> QED
    BY <1>1 DEF Card!ToSet, WroteOf

(* A file of that name leaves, and another takes its place.                *)
LEMMA PutKeepsNames ==
  ASSUME NEW files, Distinct(files), NEW f
  PROVE  Distinct((files \ Card!Named(files, f)) \cup {f})
  BY DEF Distinct, Card!Named, Card!SameName

LEMMA OneOfAName ==
  ASSUME NEW files, Distinct(files), NEW f \in files PROVE Card!Named(files, f) = {f}
  BY DEF Distinct, Card!Named, Card!SameName

LEMMA NextIsNew ==
  ASSUME NEW w \in Seq(Files), NEW r, WroteOf(w, r), NEW f, f.no = Len(w) + 1
  PROVE  Card!Named(Card!ToSet(w), f) = {}
  <1>1. \A g \in Card!ToSet(w) : g.no \in 1..Len(w) /\ Len(w) \in Nat
    BY ToSetWrote
  <1> QED
    BY <1>1 DEF Card!Named, Card!SameName

-----------------------------------------------------------------------------

Types ==
  /\ images \subseteq Files /\ partials \subseteq Files
  /\ Distinct(images) /\ Distinct(partials)
  /\ DOMAIN lists = Card!Manifests
  /\ epc \in [Threads -> {"idle", "item", "clear", "place", "done"} \cup Card!Manifests]
  /\ run \in [Threads -> Nat]
  /\ selected \in [Threads -> Seq(Works)] /\ todo \in [Threads -> Seq(Works)]
  /\ rendered \in [Threads -> Seq(Files)]
  /\ oldImages \in [Threads -> SUBSET Files]
  /\ oldLists \in [Threads -> SUBSET Card!Manifests]
  /\ DOMAIN found = Threads
  /\ runs \in 0..MaxExports
  /\ overlap \in BOOLEAN

(* Whatever else runs: how a call stands to its own playlist and findings. *)
Call(e) ==
  /\ epc[e] # "idle" => run[e] \in Card!Runs
  /\ WroteOf(rendered[e], run[e])
  /\ OrderOf(selected[e], todo[e], rendered[e])
  /\ oldImages[e] \subseteq found[e].images
  /\ epc[e] \in {"clear", "place"} => todo[e] # <<>>

Calls == \A e \in Threads : Call(e)

Lone == ~overlap => \A e, u \in Threads : epc[e] # "idle" /\ epc[u] # "idle" => e = u

There == {m \in Card!Manifests : lists[m] # Absent}

Behind == [m \in Card!Manifests |-> CASE m = "playlist.json" -> {}
                                 [] m = "playlist.m3u" -> {"playlist.json"}
                                 [] OTHER -> {"playlist.json", "playlist.m3u"}]

(* What the only export finds, step by step: all as it was, then what is   *)
(* left of it, then its own images, then its manifests, too.               *)
Phase(e) ==
  /\ epc[e] \in {"item", "done"} /\ rendered[e] = <<>> =>
        images = found[e].images /\ lists = found[e].lists
  /\ epc[e] = "item" /\ rendered[e] = <<>> => oldImages[e] = images /\ oldLists[e] = There
  /\ epc[e] = "clear" => rendered[e] = <<>> /\ oldImages[e] = images /\ oldLists[e] = There
  /\ epc[e] \in {"clear", "place"} => Card!NextName(e) \in partials
  /\ epc[e] = "place" \/ (epc[e] = "item" /\ rendered[e] # <<>>) =>
        images = Card!ToSet(rendered[e]) /\ There = {}
  /\ epc[e] \in Card!Manifests =>
        /\ rendered[e] # <<>>
        /\ images = Card!ToSet(rendered[e])
        /\ \A m \in Card!Manifests : lists[m] \in {Absent, Torn, Card!ToSet(rendered[e])}
        /\ \A m \in Behind[epc[e]] : lists[m] = Card!ToSet(rendered[e])
  /\ epc[e] = "done" /\ rendered[e] # <<>> =>
        images = Card!ToSet(rendered[e]) /\ \A m \in Card!Manifests : lists[m] = Card!ToSet(rendered[e])

Phases == ~overlap => \A e \in Threads : Phase(e)

CardInv == Types /\ Calls /\ Lone /\ Phases /\ Card!OneExport /\ Card!ManifestCoversCard

LEMMA CardInit == ASSUME Card!CardAssumption, Card!Init PROVE CardInv
  <1>1. Card!Photo \in Files
    BY DEF Card!Photo, Files
  <1>2. Distinct(images)
    BY DEF Card!Init, Distinct
  <1>3. Types
    <2>1. 0 \in 0..MaxExports /\ <<>> \in Seq(Works) /\ <<>> \in Seq(Files)
      BY DEF Card!CardAssumption
    <2>2. DOMAIN lists = Card!Manifests /\ DOMAIN found = Threads
      BY DEF Card!Init, Card!EmptyCard
    <2>3. Distinct(partials) /\ images \subseteq Files /\ partials \subseteq Files
      BY <1>1 DEF Card!Init, Distinct
    <2> QED
      BY <1>2, <2>1, <2>2, <2>3 DEF Card!Init, Types
  <1>4. Calls
    <2>1. \A r : WroteOf(<<>>, r)
      BY Wrote0
    <2>2. OrderOf(<<>>, <<>>, <<>>)
      BY EmptyOrder
    <2> QED
      BY <2>1, <2>2 DEF Card!Init, Calls, Call
  <1>5. Lone /\ Phases
    BY DEF Card!Init, Lone, Phases, Phase, Card!Manifests
  <1>6. Card!OneExport /\ Card!ManifestCoversCard
    BY DEF Card!Init, Card!OneExport, Card!ManifestCoversCard, Card!Exported,
           Card!Photo, Card!EmptyCard
  <1> QED
    BY <1>3, <1>4, <1>5, <1>6 DEF CardInv

LEMMA NextNameTyped ==
  ASSUME Card!CardAssumption, Types, NEW e \in Threads, run[e] \in Card!Runs, todo[e] # <<>>
  PROVE  Card!NextName(e) \in Files /\ Head(todo[e]) \in Works
  <1>1. Head(todo[e]) \in Works /\ Len(rendered[e]) + 1 \in Nat
    BY DEF Types
  <1> QED
    BY <1>1 DEF Card!NextName, Files

LEMMA StartKept ==
  ASSUME Card!CardAssumption, CardInv, NEW e \in Threads, NEW playlist \in Selections,
         NEW overwrite \in BOOLEAN, Card!Start(e, playlist, overwrite)
  PROVE  CardInv'
  <1> USE DEF CardInv, Card!Goto
  <1>0. ~overlap' => ~overlap /\ \A o \in Threads : o # e => epc'[o] = "idle"
    BY DEF Card!Start, Card!Reclaimable, Card!card, Types, Lone
  <1>1. Types'
    <2>1. /\ playlist \in Seq(Works) /\ runs + 1 \in 0..MaxExports /\ runs + 1 \in Nat
          /\ <<>> \in Seq(Files)
      BY DEF Card!Start, Types, Card!CardAssumption
    <2>2. overlap' \in BOOLEAN
      BY DEF Card!Start, Types
    <2>3. {m \in Card!Manifests : lists[m] # Absent} \in SUBSET Card!Manifests
      OBVIOUS
    <2> QED
      BY <2>1, <2>2, <2>3 DEF Card!Start, Card!Reclaimable, Card!card, Types
  <1>2. Calls'
    <2>1. /\ playlist \in Seq(Works) /\ runs + 1 \in Card!Runs
      BY DEF Card!Start, Types, Card!CardAssumption, Card!Runs
    <2>2. OrderOf(playlist, playlist, <<>>) /\ WroteOf(<<>>, runs + 1)
      BY <2>1, Order0, Wrote0
    <2> QED
      BY <2>1, <2>2 DEF Card!Start, Card!Reclaimable, Types, Calls, Call
  <1>3. Lone'
    BY DEF Card!Start, Types, Lone
  <1>4. Phases'
    <2> SUFFICES ASSUME ~overlap' PROVE Phase(e)'
      BY <1>0 DEF Phases, Phase, Card!Manifests
    <2>1. /\ epc'[e] = "item" /\ rendered'[e] = <<>> /\ images' = images /\ lists' = lists
          /\ found'[e] = [images |-> images, lists |-> lists]
      BY DEF Card!Start, Types, Card!card
    <2>2. oldImages'[e] = images /\ oldLists'[e] = There /\ There' = There
      BY <2>1 DEF Card!Start, Types, Card!Reclaimable, There
    <2> QED
      BY <2>1, <2>2 DEF Phase, Card!Manifests
  <1>5. Card!OneExport' /\ Card!ManifestCoversCard'
    BY <1>0
       DEF Card!Start, Card!Reclaimable, Card!card, Card!OneExport,
           Card!ManifestCoversCard, Card!Exported
  <1> QED
    BY <1>1, <1>2, <1>3, <1>4, <1>5

LEMMA SkipMissingKept ==
  ASSUME Card!CardAssumption, CardInv, NEW e \in Threads, Card!SkipMissing(e)
  PROVE  CardInv'
  <1> USE DEF CardInv, Card!Goto
  <1>0. ~overlap' => ~overlap /\ \A o \in Threads : o # e => epc'[o] = "idle"
    BY DEF Card!SkipMissing, Card!card, Card!count, Types, Lone
  <1>1. Types'
    BY DEF Card!SkipMissing, Card!card, Card!count, Types
  <1>2. Calls'
    <2>1. OrderOf(selected[e], Tail(todo[e]), rendered[e])
      BY OrderSkip DEF Card!SkipMissing, Types, Calls, Call
    <2> QED
      BY <2>1 DEF Card!SkipMissing, Types, Calls, Call
  <1>3. Lone'
    BY <1>0 DEF Card!SkipMissing, Card!card, Card!count, Lone
  <1>4. Phases'
    <2> SUFFICES ASSUME ~overlap' PROVE Phase(e)'
      BY <1>0 DEF Phases, Phase, Card!Manifests
    <2>1. Phase(e) /\ epc'[e] = "item" /\ epc[e] = "item"
      BY <1>0 DEF Phases, Card!SkipMissing
    <2>2. UNCHANGED <<Card!card, epc, rendered, oldImages, oldLists, found>> /\ There' = There
      BY DEF Card!SkipMissing, There, Card!card
    <2> QED
      BY <2>1, <2>2 DEF Phase, Card!Manifests, Card!card
  <1>5. Card!OneExport' /\ Card!ManifestCoversCard'
    BY <1>0
       DEF Card!SkipMissing, Card!card, Card!count, Card!OneExport,
           Card!ManifestCoversCard, Card!Exported
  <1> QED
    BY <1>1, <1>2, <1>3, <1>4, <1>5

LEMMA SavePartialKept ==
  ASSUME Card!CardAssumption, CardInv, NEW e \in Threads, Card!SavePartial(e)
  PROVE  CardInv'
  <1> USE DEF CardInv, Card!Goto
  <1>0. ~overlap' => ~overlap /\ \A o \in Threads : o # e => epc'[o] = "idle"
    BY DEF Card!SavePartial, Card!local, Card!count, Types, Lone
  <1>1. Types'
    <2>1. Card!NextName(e) \in Files
      BY NextNameTyped DEF Card!SavePartial, Calls, Call
    <2>2. partials' \subseteq Files /\ Distinct(partials')
      BY <2>1, PutKeepsNames DEF Card!SavePartial, Types
    <2> QED
      BY <2>2 DEF Card!SavePartial, Card!local, Card!count, Types
  <1>2. Calls'
    BY DEF Card!SavePartial, Card!local, Card!count, Types, Calls, Call, Card!Manifests
  <1>3. Lone'
    BY <1>0 DEF Card!SavePartial, Card!local, Card!count, Lone
  <1>4. Phases'
    <2> SUFFICES ASSUME ~overlap' PROVE Phase(e)'
      BY <1>0 DEF Phases, Phase, Card!Manifests
    <2> QED
      BY <1>0
         DEF Card!SavePartial, Card!local, Card!count, Types, Phases, Phase, There,
             Card!NextName, Card!Manifests, Behind
  <1>5. Card!OneExport' /\ Card!ManifestCoversCard'
    BY <1>0
       DEF Card!SavePartial, Card!local, Card!count, Card!OneExport,
           Card!ManifestCoversCard, Card!Exported
  <1> QED
    BY <1>1, <1>2, <1>3, <1>4, <1>5

LEMMA RenderFailsKept ==
  ASSUME Card!CardAssumption, CardInv, NEW e \in Threads, Card!RenderFails(e)
  PROVE  CardInv'
  <1> USE DEF CardInv, Card!Goto
  <1>0. ~overlap' => ~overlap /\ \A o \in Threads : o # e => epc'[o] = "idle"
    BY DEF Card!RenderFails, Card!count, Types, Lone
  <1>1. Types'
    <2>1. partials' \subseteq Files /\ Distinct(partials')
      BY DEF Card!RenderFails, Types, Distinct
    <2> QED
      BY <2>1 DEF Card!RenderFails, Card!count, Types
  <1>2. Calls'
    <2>1. OrderOf(selected[e], Tail(todo[e]), rendered[e])
      BY OrderSkip DEF Card!RenderFails, Types, Calls, Call
    <2> QED
      BY <2>1 DEF Card!RenderFails, Types, Calls, Call
  <1>3. Lone'
    BY <1>0 DEF Card!RenderFails, Card!count, Lone
  <1>4. Phases'
    <2> SUFFICES ASSUME ~overlap' PROVE Phase(e)'
      BY <1>0 DEF Phases, Phase, Card!Manifests
    <2> QED
      BY <1>0
         DEF Card!RenderFails, Card!count, Types, Phases, Phase, There, Card!NextName,
             Card!Manifests, Behind
  <1>5. Card!OneExport' /\ Card!ManifestCoversCard'
    BY <1>0
       DEF Card!RenderFails, Card!count, Card!OneExport, Card!ManifestCoversCard,
           Card!Exported
  <1> QED
    BY <1>1, <1>2, <1>3, <1>4, <1>5

LEMMA ClearImageKept ==
  ASSUME Card!CardAssumption, CardInv, NEW e \in Threads,
         NEW f \in images \cup oldImages[e], Card!ClearImage(e, f)
  PROVE  CardInv'
  <1> USE DEF CardInv, Card!Goto
  <1>0. ~overlap' => ~overlap /\ \A o \in Threads : o # e => epc'[o] = "idle"
    BY DEF Card!ClearImage, Card!count, Types, Lone
  <1>1. Types'
    <2>1. images' \subseteq Files /\ Distinct(images')
      BY DEF Card!ClearImage, Types, Distinct
    <2> QED
      BY <2>1 DEF Card!ClearImage, Card!count, Types
  <1>2. Calls'
    BY DEF Card!ClearImage, Card!count, Types, Calls, Call, Card!Manifests
  <1>3. Lone'
    BY <1>0 DEF Card!ClearImage, Card!count, Lone
  <1>4. Phases'
    <2> SUFFICES ASSUME ~overlap' PROVE Phase(e)'
      BY <1>0 DEF Phases, Phase, Card!Manifests
    <2>1. oldImages[e] = images /\ oldLists[e] = There /\ rendered[e] = <<>> /\ epc[e] = "clear"
      BY <1>0 DEF Card!ClearImage, Phases, Phase
    <2>2. images' = images \ {f}
      BY <2>1, OneOfAName DEF Card!ClearImage, Types
    <2>3. oldImages'[e] = oldImages[e] \ {f} /\ epc'[e] = "clear" /\ There' = There
      BY <2>1 DEF Card!ClearImage, Types, There
    <2> QED
      BY <1>0, <2>1, <2>2, <2>3
         DEF Card!ClearImage, Phases, Phase, Card!NextName, Card!Manifests
  <1>5. Card!OneExport' /\ Card!ManifestCoversCard'
    BY <1>0
       DEF Card!ClearImage, Card!count, Card!OneExport, Card!ManifestCoversCard,
           Card!Exported
  <1> QED
    BY <1>1, <1>2, <1>3, <1>4, <1>5

LEMMA ClearListKept ==
  ASSUME Card!CardAssumption, CardInv, NEW e \in Threads, NEW m \in Card!Manifests,
         Card!ClearList(e, m)
  PROVE  CardInv'
  <1> USE DEF CardInv, Card!Goto
  <1>0. ~overlap' => ~overlap /\ \A o \in Threads : o # e => epc'[o] = "idle"
    BY DEF Card!ClearList, Card!count, Types, Lone
  <1>1. Types'
    BY DEF Card!ClearList, Card!count, Types
  <1>2. Calls'
    BY DEF Card!ClearList, Card!count, Types, Calls, Call, Card!Manifests
  <1>3. Lone'
    BY <1>0 DEF Card!ClearList, Card!count, Lone
  <1>4. Phases'
    <2> SUFFICES ASSUME ~overlap' PROVE Phase(e)'
      BY <1>0 DEF Phases, Phase, Card!Manifests
    <2>1. oldImages[e] = images /\ oldLists[e] = There /\ rendered[e] = <<>> /\ epc[e] = "clear"
      BY <1>0 DEF Card!ClearList, Phases, Phase
    <2>2. There' = There \ {m}
      BY DEF Card!ClearList, Types, There
    <2>3. oldLists'[e] = oldLists[e] \ {m} /\ epc'[e] = "clear"
      BY <2>1 DEF Card!ClearList, Types
    <2> QED
      BY <1>0, <2>1, <2>2, <2>3
         DEF Card!ClearList, Phases, Phase, Card!NextName, Card!Manifests
  <1>5. Card!OneExport' /\ Card!ManifestCoversCard'
    BY <1>0
       DEF Card!ClearList, Card!count, Card!OneExport, Card!ManifestCoversCard,
           Card!Exported
  <1> QED
    BY <1>1, <1>2, <1>3, <1>4, <1>5

LEMMA ClearedKept ==
  ASSUME Card!CardAssumption, CardInv, NEW e \in Threads, Card!Cleared(e)
  PROVE  CardInv'
  <1> USE DEF CardInv, Card!Goto
  <1>0. ~overlap' => ~overlap /\ \A o \in Threads : o # e => epc'[o] = "idle"
    BY DEF Card!Cleared, Card!card, Card!local, Card!count, Types, Lone
  <1>1. Types'
    BY DEF Card!Cleared, Card!card, Card!local, Card!count, Types
  <1>2. Calls'
    BY DEF Card!Cleared, Card!card, Card!local, Card!count, Types, Calls, Call,
           Card!Manifests
  <1>3. Lone'
    BY <1>0 DEF Card!Cleared, Card!card, Card!local, Card!count, Lone
  <1>4. Phases'
    <2> SUFFICES ASSUME ~overlap' PROVE Phase(e)'
      BY <1>0 DEF Phases, Phase, Card!Manifests
    <2>1. Phase(e) /\ epc[e] = "clear" /\ epc'[e] = "place"
      BY <1>0 DEF Phases, Card!Cleared, Types
    <2>2. rendered[e] = <<>> /\ images = {} /\ There = {} /\ Card!NextName(e) \in partials
      BY <2>1 DEF Phase, Card!Cleared
    <2>3. UNCHANGED <<Card!card, Card!local>> /\ Card!NextName(e)' = Card!NextName(e) /\ There' = There
      BY DEF Card!Cleared, Card!card, Card!local, Card!NextName, There
    <2> QED
      BY <2>1, <2>2, <2>3, ToSet0 DEF Phase, Card!Manifests, Card!card, Card!local
  <1>5. Card!OneExport' /\ Card!ManifestCoversCard'
    BY <1>0
       DEF Card!Cleared, Card!card, Card!local, Card!count, Card!OneExport,
           Card!ManifestCoversCard, Card!Exported
  <1> QED
    BY <1>1, <1>2, <1>3, <1>4, <1>5

LEMMA PlaceKept ==
  ASSUME Card!CardAssumption, CardInv, NEW e \in Threads, Card!Place(e)
  PROVE  CardInv'
  <1> USE DEF CardInv, Card!Goto
  <1>0. ~overlap' => ~overlap /\ \A o \in Threads : o # e => epc'[o] = "idle"
    BY DEF Card!Place, Card!count, Types, Lone
  <1>1. Types'
    <2>1. Card!NextName(e) \in Files
      BY NextNameTyped DEF Card!Place, Calls, Call
    <2>2. PICK f \in Card!Named(partials, Card!NextName(e)) :
            images' = (images \ Card!Named(images, f)) \cup {f} /\ partials' = partials \ {f}
      BY DEF Card!Place
    <2>3. f \in Files /\ Distinct(images') /\ images' \subseteq Files
      BY <2>2, PutKeepsNames DEF Card!Named, Types
    <2>4. Distinct(partials') /\ partials' \subseteq Files
      BY <2>2 DEF Distinct, Types
    <2>5. rendered' \in [Threads -> Seq(Files)] /\ todo' \in [Threads -> Seq(Works)]
      BY <2>1 DEF Card!Place, Types, Calls, Call
    <2> QED
      BY <2>3, <2>4, <2>5 DEF Card!Place, Card!count, Types
  <1>2. Calls'
    <2>1. epc[e] = "place" /\ epc'[e] = "item" /\ Call(e)
      BY DEF Card!Place, Types, Calls
    <2>2. Card!NextName(e) \in Files /\ todo[e] # <<>> /\ Head(todo[e]) \in Works
      BY <2>1, NextNameTyped DEF Call, Types
    <2>3. WroteOf(Append(rendered[e], Card!NextName(e)), run[e])
      BY <2>1, <2>2, WroteMore DEF Call, Types, Card!NextName
    <2>4. OrderOf(selected[e], Tail(todo[e]), Append(rendered[e], Card!NextName(e)))
      <3>1. Card!NextName(e).work = Head(todo[e])
        BY DEF Card!NextName
      <3> QED
        BY <2>1, <2>2, <3>1, OrderMore DEF Call, Types
    <2>5. /\ rendered'[e] = Append(rendered[e], Card!NextName(e)) /\ todo'[e] = Tail(todo[e])
          /\ UNCHANGED <<run, selected, oldImages, found>>
          /\ \A o \in Threads : o # e => /\ epc'[o] = epc[o] /\ todo'[o] = todo[o]
                                         /\ rendered'[o] = rendered[o]
      BY DEF Card!Place, Types
    <2>6. Call(e)'
      BY <2>1, <2>3, <2>4, <2>5 DEF Call
    <2> QED
      BY <2>5, <2>6 DEF Calls, Call
  <1>3. Lone'
    BY <1>0 DEF Card!Place, Card!count, Lone
  <1>4. Phases'
    <2> SUFFICES ASSUME ~overlap' PROVE Phase(e)'
      BY <1>0 DEF Phases, Phase, Card!Manifests
    <2>1. /\ Card!NextName(e) \in partials /\ images = Card!ToSet(rendered[e]) /\ There = {}
          /\ epc[e] = "place" /\ epc'[e] = "item" /\ WroteOf(rendered[e], run[e])
      BY <1>0 DEF Card!Place, Types, Phases, Phase, Calls, Call
    <2>2. images' = (images \ Card!Named(images, Card!NextName(e))) \cup {Card!NextName(e)}
      BY <2>1, OneOfAName DEF Card!Place, Types
    <2>3. rendered[e] \in Seq(Files) /\ Card!NextName(e).no = Len(rendered[e]) + 1
      BY DEF Types, Card!NextName
    <2>4. Card!Named(images, Card!NextName(e)) = {}
      BY <2>1, <2>3, NextIsNew
    <2>5. rendered'[e] = Append(rendered[e], Card!NextName(e)) /\ rendered'[e] # <<>>
      <3>1. Card!NextName(e) \in Files
        BY NextNameTyped DEF Card!Place, Calls, Call
      <3> QED
        BY <2>3, <3>1, AppendIsSome DEF Card!Place, Types
    <2>6. images' = Card!ToSet(rendered'[e])
      BY <2>1, <2>2, <2>3, <2>4, <2>5, ToSetMore
    <2>7. There' = {}
      BY <2>1 DEF Card!Place, There
    <2> QED
      BY <2>1, <2>5, <2>6, <2>7 DEF Phase, Card!Manifests
  <1>5. Card!OneExport' /\ Card!ManifestCoversCard'
    <2>1. ASSUME ~overlap' PROVE images' = Card!ToSet(rendered'[e]) /\ There' = {}
      <3>1. epc'[e] = "item" /\ rendered'[e] # <<>>
        <4>1. Card!NextName(e) \in Files
          BY NextNameTyped DEF Card!Place, Calls, Call
        <4> QED
          BY <4>1, AppendIsSome DEF Card!Place, Types
      <3> QED
        BY <1>4, <2>1, <3>1 DEF Phases, Phase
    <2>2. \A f \in Card!ToSet(rendered'[e]) : f.by = run'[e]
      BY <1>1, <1>2, ToSetWrote DEF Types, Calls, Call
    <2> QED
      BY <2>1, <2>2 DEF Card!OneExport, Card!ManifestCoversCard, Card!Exported, There
  <1> QED
    BY <1>1, <1>2, <1>3, <1>4, <1>5

LEMMA FinishKept ==
  ASSUME Card!CardAssumption, CardInv, NEW e \in Threads, Card!Finish(e)
  PROVE  CardInv'
  <1> USE DEF CardInv, Card!Goto
  <1>0. ~overlap' => ~overlap /\ \A o \in Threads : o # e => epc'[o] = "idle"
    BY DEF Card!Finish, Card!card, Card!local, Card!count, Types, Lone
  <1>1. Types'
    <2>1. {"done", "playlist.json"} \subseteq {"done"} \cup Card!Manifests
      BY DEF Card!Manifests
    <2> QED
      BY <2>1 DEF Card!Finish, Card!card, Card!local, Card!count, Types
  <1>2. Calls'
    BY DEF Card!Finish, Card!card, Card!local, Card!count, Types, Calls, Call,
           Card!Manifests
  <1>3. Lone'
    BY <1>0 DEF Card!Finish, Card!card, Card!local, Card!count, Lone
  <1>4. Phases'
    <2> SUFFICES ASSUME ~overlap' PROVE Phase(e)'
      BY <1>0 DEF Phases, Phase, Card!Manifests
    <2> QED
      BY <1>0
         DEF Card!Finish, Card!card, Card!local, Card!count, Types, Phases, Phase,
             There, Card!NextName, Card!Manifests, Behind
  <1>5. Card!OneExport' /\ Card!ManifestCoversCard'
    BY <1>0
       DEF Card!Finish, Card!card, Card!local, Card!count, Card!OneExport,
           Card!ManifestCoversCard, Card!Exported
  <1> QED
    BY <1>1, <1>2, <1>3, <1>4, <1>5

LEMMA TruncateKept ==
  ASSUME Card!CardAssumption, CardInv, NEW e \in Threads, NEW m \in Card!Manifests,
         Card!Truncate(e, m)
  PROVE  CardInv'
  <1> USE DEF CardInv, Card!Goto
  <1>0. ~overlap' => ~overlap /\ \A o \in Threads : o # e => epc'[o] = "idle"
    BY DEF Card!Truncate, Card!local, Card!count, Types, Lone, Card!Manifests
  <1>1. Types'
    BY DEF Card!Truncate, Card!local, Card!count, Types
  <1>2. Calls'
    BY DEF Card!Truncate, Card!local, Card!count, Types, Calls, Call, Card!Manifests
  <1>3. Lone'
    BY <1>0 DEF Card!Truncate, Card!local, Card!count, Lone
  <1>4. Phases'
    <2> SUFFICES ASSUME ~overlap' PROVE Phase(e)'
      BY <1>0 DEF Phases, Phase, Card!Manifests
    <2>1. /\ Phase(e) /\ epc[e] = m /\ epc' = epc /\ lists'[m] = Torn
          /\ \A o \in Card!Manifests : o # m => lists'[o] = lists[o]
      BY <1>0 DEF Phases, Card!Truncate, Types
    <2>2. m \notin Behind[m] /\ Behind[m] \subseteq Card!Manifests
      BY DEF Behind, Card!Manifests
    <2>3. UNCHANGED <<images, rendered>>
      BY DEF Card!Truncate, Card!local
    <2>4. epc[e] \notin {"item", "clear", "place", "done"}
      BY <2>1 DEF Card!Manifests
    <2> QED
      BY <2>1, <2>2, <2>3, <2>4 DEF Phase
  <1>5. Card!OneExport' /\ Card!ManifestCoversCard'
    BY <1>0
       DEF Card!Truncate, Card!local, Card!count, Card!OneExport,
           Card!ManifestCoversCard, Card!Exported
  <1> QED
    BY <1>1, <1>2, <1>3, <1>4, <1>5

LEMMA WriteListKept ==
  ASSUME Card!CardAssumption, CardInv, NEW e \in Threads, NEW m \in Card!Manifests,
         Card!WriteList(e, m)
  PROVE  CardInv'
  <1> USE DEF CardInv, Card!Goto
  <1>0. ~overlap' => ~overlap /\ \A o \in Threads : o # e => epc'[o] = "idle"
    BY DEF Card!WriteList, Card!Following, Card!local, Card!count, Types, Lone,
           Card!Manifests
  <1>1. Types'
    <2>1. Card!Following(m) \in {"done"} \cup Card!Manifests
      BY DEF Card!Following, Card!Manifests
    <2> QED
      BY <2>1 DEF Card!WriteList, Card!local, Card!count, Types
  <1>2. Calls'
    BY DEF Card!WriteList, Card!Following, Card!local, Card!count, Types, Calls, Call,
           Card!Manifests
  <1>3. Lone'
    BY <1>0 DEF Card!WriteList, Card!Following, Card!local, Card!count, Lone
  <1>4. Phases'
    <2> SUFFICES ASSUME ~overlap' PROVE Phase(e)'
      BY <1>0 DEF Phases, Phase, Card!Manifests
    <2>1. /\ Phase(e) /\ epc[e] = m /\ epc'[e] = Card!Following(m) /\ lists'[m] = Card!ToSet(rendered[e])
          /\ \A o \in Card!Manifests : o # m => lists'[o] = lists[o]
      BY <1>0 DEF Phases, Card!WriteList, Types
    <2>2. UNCHANGED <<images, rendered>>
      BY DEF Card!WriteList, Card!local
    <2>3. /\ rendered[e] # <<>> /\ images = Card!ToSet(rendered[e])
          /\ \A o \in Behind[m] : lists[o] = Card!ToSet(rendered[e])
      BY <2>1 DEF Phase
    <2>4. CASE m = "playlist.json"
      <3>1. Card!Following(m) = "playlist.m3u" /\ Behind["playlist.m3u"] = {m}
        BY <2>4 DEF Card!Following, Behind, Card!Manifests
      <3> QED
        BY <2>1, <2>2, <2>3, <3>1 DEF Phase, Card!Manifests
    <2>5. CASE m = "playlist.m3u"
      <3>1. Card!Following(m) = "README.txt" /\ Behind["README.txt"] = Behind[m] \cup {m}
        BY <2>5 DEF Card!Following, Behind, Card!Manifests
      <3>2. epc'[e] = "README.txt" /\ epc'[e] \in Card!Manifests
        BY <2>1, <3>1 DEF Card!Manifests
      <3>3. \A o \in Behind[epc'[e]] : lists'[o] = Card!ToSet(rendered[e])
        BY <2>1, <2>3, <2>5, <3>1, <3>2 DEF Behind, Card!Manifests
      <3>4. \A o \in Card!Manifests : lists'[o] \in {Absent, Torn, Card!ToSet(rendered[e])}
        BY <2>1 DEF Phase
      <3> QED
        BY <2>2, <2>3, <3>2, <3>3, <3>4 DEF Phase
    <2>6. CASE m = "README.txt"
      <3>1. Card!Following(m) = "done" /\ Card!Manifests = Behind[m] \cup {m}
        BY <2>6 DEF Card!Following, Behind, Card!Manifests
      <3>2. \A o \in Card!Manifests : lists'[o] = Card!ToSet(rendered[e])
        BY <2>1, <2>3, <3>1 DEF Card!Manifests
      <3>3. epc'[e] = "done" /\ "done" \notin Card!Manifests
        BY <2>1, <3>1 DEF Card!Manifests
      <3> QED
        BY <2>2, <2>3, <3>2, <3>3 DEF Phase
    <2> QED
      BY <2>4, <2>5, <2>6 DEF Card!Manifests
  <1>5. Card!OneExport' /\ Card!ManifestCoversCard'
    <2>1. ASSUME ~overlap' PROVE images = Card!ToSet(rendered[e])
      <3>1. epc[e] = m /\ ~overlap
        BY <1>0, <2>1 DEF Card!WriteList
      <3> QED
        BY <3>1 DEF Phases, Phase
    <2>2. images' = images /\ \A o \in Card!Manifests : lists'[o] = lists[o] \/ lists'[o] = Card!ToSet(rendered[e])
      BY DEF Card!WriteList, Types
    <2> QED
      BY <1>0, <2>1, <2>2 DEF Card!OneExport, Card!ManifestCoversCard, Card!Exported
  <1> QED
    BY <1>1, <1>2, <1>3, <1>4, <1>5

(* A call that ends, in whatever way, and the card that stays.            *)
LEMMA EndKept ==
  ASSUME Card!CardAssumption, CardInv, NEW S \in SUBSET Threads, Card!End(S)
  PROVE  CardInv'
  <1> USE DEF CardInv
  <1>1. /\ UNCHANGED <<images, partials, lists, runs, overlap>>
        /\ \A o \in S : /\ epc'[o] = "idle" /\ run'[o] = 0 /\ selected'[o] = <<>>
                        /\ todo'[o] = <<>> /\ rendered'[o] = <<>> /\ oldImages'[o] = {}
                        /\ found'[o] = Card!EmptyCard
        /\ \A o \in Threads \ S :
             /\ epc'[o] = epc[o] /\ run'[o] = run[o] /\ selected'[o] = selected[o]
             /\ todo'[o] = todo[o] /\ rendered'[o] = rendered[o] /\ found'[o] = found[o]
             /\ oldImages'[o] = oldImages[o] /\ oldLists'[o] = oldLists[o]
    BY DEF Card!End, Types, Card!card, Card!count
  <1>2. Types'
    <2>1. <<>> \in Seq(Works) /\ <<>> \in Seq(Files) /\ 0 \in Nat
      OBVIOUS
    <2> QED
      BY <2>1 DEF Card!End, Types, Card!card, Card!count
  <1>3. Calls'
    <2>1. \A r : WroteOf(<<>>, r)
      BY Wrote0
    <2>2. OrderOf(<<>>, <<>>, <<>>)
      BY EmptyOrder
    <2> QED
      BY <1>1, <2>1, <2>2 DEF Calls, Call
  <1>4. Lone'
    BY <1>1 DEF Lone
  <1>5. Phases'
    <2> SUFFICES ASSUME ~overlap', NEW e \in Threads PROVE Phase(e)'
      BY DEF Phases
    <2>1. CASE e \in S
      BY <1>1, <2>1 DEF Phase, Card!Manifests
    <2>2. CASE e \notin S
      <3>1. Phase(e)
        BY <1>1 DEF Phases
      <3>2. There' = There /\ Card!NextName(e)' = Card!NextName(e)
        BY <1>1, <2>2 DEF There, Card!NextName
      <3> QED
        BY <1>1, <2>2, <3>1, <3>2 DEF Phase
    <2> QED
      BY <2>1, <2>2
  <1>6. Card!OneExport' /\ Card!ManifestCoversCard'
    BY <1>1 DEF Card!OneExport, Card!ManifestCoversCard, Card!Exported
  <1> QED
    BY <1>2, <1>3, <1>4, <1>5, <1>6

LEMMA CardStutters == ASSUME CardInv, UNCHANGED Card!vars PROVE CardInv'
  <1>1. /\ UNCHANGED <<images, partials, lists, epc, runs, overlap>>
        /\ UNCHANGED <<run, selected, todo, rendered, oldImages, oldLists, found>>
    BY DEF Card!vars, Card!card, Card!count, Card!local
  <1>2. There' = There /\ Card!Exported' = Card!Exported /\ \A e \in Threads : Card!NextName(e)' = Card!NextName(e)
    BY <1>1 DEF There, Card!Exported, Card!NextName
  <1>3. Types' /\ Calls' /\ Lone'
    BY <1>1 DEF CardInv, Types, Calls, Call, Lone
  <1>4. Phases'
    BY <1>1, <1>2 DEF CardInv, Phases, Phase
  <1>5. Card!OneExport' /\ Card!ManifestCoversCard'
    BY <1>1, <1>2 DEF CardInv, Card!OneExport, Card!ManifestCoversCard
  <1> QED
    BY <1>3, <1>4, <1>5 DEF CardInv

LEMMA CardStep ==
  ASSUME Card!CardAssumption, CardInv, [Card!Next]_(Card!vars)
  PROVE  CardInv'
  <1>1. CASE UNCHANGED Card!vars
    BY <1>1, CardStutters
  <1>2. CASE Card!Pulled
    BY <1>2, EndKept DEF Card!Pulled
  <1>3. ASSUME NEW e \in Threads PROVE
          /\ \A playlist \in Selections, overwrite \in BOOLEAN :
               Card!Start(e, playlist, overwrite) => CardInv'
          /\ Card!SkipMissing(e) \/ Card!SavePartial(e) \/ Card!RenderFails(e) => CardInv'
          /\ \A f \in images \cup oldImages[e] : Card!ClearImage(e, f) => CardInv'
          /\ \A m \in Card!Manifests : Card!ClearList(e, m) \/ Card!Truncate(e, m) \/ Card!WriteList(e, m) => CardInv'
          /\ Card!Cleared(e) \/ Card!Place(e) \/ Card!Abort(e) \/ Card!Finish(e) \/ Card!Return(e) => CardInv'
    <2>1. {e} \in SUBSET Threads /\ (Card!Abort(e) \/ Card!Return(e) => Card!End({e}))
      BY DEF Card!Abort, Card!Return
    <2>2. Card!Abort(e) \/ Card!Return(e) => CardInv'
      BY <2>1, EndKept
    <2> QED
      BY <2>2, StartKept, SkipMissingKept, SavePartialKept, RenderFailsKept,
         ClearImageKept, ClearListKept, TruncateKept, WriteListKept, ClearedKept,
         PlaceKept, FinishKept
  <1> QED
    BY <1>1, <1>2, <1>3 DEF Card!Next

LEMMA FinishedFollows == ASSUME Card!CardAssumption, CardInv PROVE Card!FinishedCard
  <1> SUFFICES ASSUME NEW e \in Threads, epc[e] = "done", rendered[e] # <<>>, ~overlap
               PROVE  /\ Card!Exported = Card!ToSet(rendered[e])
                      /\ {f.no : f \in Card!Exported} = 1..Len(rendered[e])
                      /\ \A i, j \in DOMAIN rendered[e] : i < j =>
                           \E k, l \in DOMAIN selected[e] :
                             /\ k < l
                             /\ selected[e][k] = rendered[e][i].work
                             /\ selected[e][l] = rendered[e][j].work
                      /\ \A m \in Card!Manifests : lists[m] = Card!Exported
    BY DEF Card!FinishedCard
  <1> USE DEF CardInv
  <1>1. /\ images = Card!ToSet(rendered[e]) /\ \A m \in Card!Manifests : lists[m] = Card!ToSet(rendered[e])
    BY DEF Phases, Phase
  <1>2. /\ run[e] \in Card!Runs /\ run[e] # NoOne
        /\ OrderOf(selected[e], todo[e], rendered[e]) /\ WroteOf(rendered[e], run[e])
        /\ rendered[e] \in Seq(Files) /\ selected[e] \in Seq(Works) /\ todo[e] \in Seq(Works)
    BY DEF Types, Calls, Call, Card!CardAssumption
  <1>3. Card!Exported = Card!ToSet(rendered[e])
    BY <1>1, <1>2, ToSetWrote DEF Card!Exported
  <1>4. {f.no : f \in Card!Exported} = 1..Len(rendered[e])
    BY <1>2, <1>3, ToSetWrote
  <1>5. \A i, j \in DOMAIN rendered[e] : i < j =>
          \E k, l \in DOMAIN selected[e] : /\ k < l
                                           /\ selected[e][k] = rendered[e][i].work
                                           /\ selected[e][l] = rendered[e][j].work
    BY <1>2, OrderShows
  <1> QED
    BY <1>1, <1>3, <1>4, <1>5

LEMMA KeptFollows == ASSUME CardInv PROVE Card!KeptUntilReplaced
  BY DEF CardInv, Phases, Phase, Card!KeptUntilReplaced

LEMMA StepClearsWhatItFound ==
  ASSUME Card!CardAssumption, CardInv, [Card!Next]_(Card!vars), NEW f \in images, Card!Named(images', f) = {}
  PROVE  \E e \in Threads : epc[e] = "clear" /\ Card!Named(found[e].images, f) # {}
  <1>1. f \in Card!Named(images, f)
    BY DEF Card!Named, Card!SameName
  <1>2. images' # images
    BY <1>1
  <1>3. ASSUME NEW e \in Threads, Card!Place(e) PROVE FALSE
    <2>1. PICK p \in Card!Named(partials, Card!NextName(e)) : images' = (images \ Card!Named(images, p)) \cup {p}
      BY <1>3 DEF Card!Place
    <2>2. f \in images' \/ (Card!SameName(p, f) /\ p \in images')
      BY <2>1 DEF Card!Named, Card!SameName
    <2> QED
      BY <2>2 DEF Card!Named, Card!SameName
  <1>4. ASSUME NEW e \in Threads, NEW g \in images \cup oldImages[e], Card!ClearImage(e, g)
        PROVE  epc[e] = "clear" /\ Card!Named(found[e].images, f) # {}
    <2>1. /\ epc[e] = "clear" /\ g \in oldImages[e] /\ images' = images \ Card!Named(images, g)
          /\ oldImages[e] \subseteq found[e].images
      BY <1>4 DEF Card!ClearImage, CardInv, Calls, Call
    <2>2. Card!SameName(g, f)
      BY <2>1 DEF Card!Named, Card!SameName
    <2> QED
      BY <2>1, <2>2 DEF Card!Named, Card!SameName
  <1>5. ASSUME NEW S, Card!End(S) PROVE FALSE
    BY <1>2, <1>5 DEF Card!End, Card!card
  <1>6. \/ \E e \in Threads : Card!Place(e)
        \/ \E e \in Threads : \E g \in images \cup oldImages[e] : Card!ClearImage(e, g)
        \/ images' = images
    BY <1>5
       DEF Card!Next, Card!vars, Card!card, Card!Pulled, Card!Abort, Card!Return,
           Card!Start, Card!SkipMissing, Card!SavePartial, Card!RenderFails,
           Card!ClearList, Card!Truncate, Card!WriteList, Card!Cleared, Card!Finish
  <1> QED
    BY <1>2, <1>3, <1>4, <1>6

THEOREM CardKept == ASSUME Card!CardAssumption PROVE Card!Spec => []CardInv
  <1>1. Card!Init => CardInv
    BY CardInit
  <1>2. CardInv /\ [Card!Next]_(Card!vars) => CardInv'
    BY CardStep
  <1> QED
    BY <1>1, <1>2, PTL DEF Card!Spec

THEOREM CardClears == ASSUME Card!CardAssumption PROVE Card!Spec => Card!ClearsWhatItFound
  <1>1. CardInv /\ [Card!Next]_(Card!vars) =>
          [\A f \in images : Card!Named(images', f) = {} =>
                \E e \in Threads : epc[e] = "clear" /\ Card!Named(found[e].images, f) # {}]_images
    BY StepClearsWhatItFound
  <1> QED
    BY <1>1, CardKept, PTL DEF Card!Spec, Card!ClearsWhatItFound

-----------------------------------------------------------------------------
(* The whole *)

(* A behaviour of the whole is one of each file.                           *)
LEMMA FileSpecs ==
  Spec => Playlists!Spec /\ Research!Spec /\ Images!Spec /\ Gates!Spec /\ Card!Spec
  <1>1. Init => /\ Playlists!Init /\ Research!Init /\ Images!Init
                /\ Gates!Init /\ Card!Init
    BY DEF Init
  <1>2. [Next]_vars => [Playlists!Next]_(Playlists!vars)
    BY DEF Next, vars, playlistVars, Playlists!vars
  <1>3. [Next]_vars => [Research!Next]_(Research!vars)
    BY DEF Next, vars, researchVars, Research!vars
  <1>4. [Next]_vars => [Images!Next]_(Images!vars)
    BY DEF Next, vars, imageVars, Images!vars, Images!locals
  <1>5. [Next]_vars => [Gates!Next]_(Gates!vars)
    BY DEF Next, vars, gateVars, Gates!vars, Gates!world, Gates!logs, Gates!locals,
           Gates!history
  <1>6. [Next]_vars => [Card!Next]_(Card!vars)
    BY DEF Next, vars, cardVars, Card!vars, Card!card, Card!local, Card!count
  <1> QED
    BY <1>1, <1>2, <1>3, <1>4, <1>5, <1>6, PTL
       DEF Spec, Playlists!Spec, Research!Spec, Images!Spec, Gates!Spec, Card!Spec

(* feed.py: a playlist call that overlaps no other makes its change and no *)
(* other.                                                                  *)
THEOREM PlaylistCallsAreExact == Spec => []LoneCallIsExact
  <1>1. Playlists!KeptAssumption /\ Playlists!BoundAssumption /\ Playlists!FileAssumption
    BY PlaylistAssumption
  <1>2. Playlists!Spec => []Playlists!LoneCallIsExact
    BY <1>1, LoneCallsAreExact, PTL
  <1> QED
    BY <1>2, FileSpecs, PTL DEF LoneCallIsExact

(* request_research: an accepted request is in the log until it expires.   *)
THEOREM AcceptedRequestsSurvive == Spec => []AcceptedSurvives
  <1>1. Research!Spec => []Research!AcceptedSurvives
    BY ResearchAssumption, AcceptedSurvive, PTL
  <1> QED
    BY <1>1, FileSpecs, PTL DEF AcceptedSurvives

(* The image caches: what threads leave is whole, unless the server ended  *)
(* in between, or a save failed that overlapped another call.              *)
THEOREM CachedImagesAreWhole == Spec => []SettledCacheIsWhole
  <1>1. Images!Spec => []Images!SettledCacheIsWhole
    BY ImageAssumption, SettledIsWhole, PTL
  <1> QED
    BY <1>1, FileSpecs, PTL DEF SettledCacheIsWhole

(* gates.py: no list shows a work that was ruled on when its request       *)
(* began, and the gate for new artists nobody whose decision stood.        *)
THEOREM DecidedStaysDecided == Spec => []DecidedIsNotAsked
  <1>1. Gates!Spec => [](GateInv /\ EachHasArtist)
    BY GateAssumption, GatesKept
  <1>2. GateInv => DecidedIsNotAsked
    BY DecidedFollows DEF DecidedIsNotAsked
  <1> QED
    BY <1>1, <1>2, FileSpecs, PTL

(* gates.py: with no decision in between, the gate counts exactly what the *)
(* approval it asks for would release.                                     *)
THEOREM GateTellsTheTruth == Spec => []GateKeepsItsWord
  <1>1. Gates!Spec => [](GateInv /\ EachHasArtist)
    BY GateAssumption, GatesKept
  <1>2. GateInv /\ EachHasArtist => GateKeepsItsWord
    BY GateAssumption, GateFollows DEF GateKeepsItsWord
  <1> QED
    BY <1>1, <1>2, FileSpecs, PTL

(* sdcard.export: a card never holds the images of two exports of which    *)
(* none overlapped, wherever they were cut short.                          *)
THEOREM OneExportOnACard == Spec => []OneExport
  <1>1. Card!Spec => []CardInv
    BY CardAssumption, CardKept
  <1>2. CardInv => OneExport
    BY DEF CardInv, OneExport
  <1> QED
    BY <1>1, <1>2, FileSpecs, PTL

(* sdcard.export: a manifest that can be read lists every exported image.  *)
THEOREM ManifestsCover == Spec => []ManifestCoversCard
  <1>1. Card!Spec => []CardInv
    BY CardAssumption, CardKept
  <1>2. CardInv => ManifestCoversCard
    BY DEF CardInv, ManifestCoversCard
  <1> QED
    BY <1>1, <1>2, FileSpecs, PTL

(* sdcard.export: what returns has left its images, numbered from 1 in the *)
(* order of the playlist, and manifests of just these.                     *)
THEOREM FinishedIsComplete == Spec => []FinishedCard
  <1>1. Card!Spec => []CardInv
    BY CardAssumption, CardKept
  <1>2. CardInv => FinishedCard
    BY CardAssumption, FinishedFollows DEF FinishedCard
  <1> QED
    BY <1>1, <1>2, FileSpecs, PTL

(* sdcard.export: until the first image is ready the card is as it was.    *)
THEOREM NothingGoesFirst == Spec => []KeptUntilReplaced
  <1>1. Card!Spec => []CardInv
    BY CardAssumption, CardKept
  <1>2. CardInv => KeptUntilReplaced
    BY KeptFollows DEF KeptUntilReplaced
  <1> QED
    BY <1>1, <1>2, FileSpecs, PTL

(* sdcard.export: whatever runs at once, no name is unlinked that was not  *)
(* on the card when the export began which unlinks it.                     *)
THEOREM UnlinksWhatItFound == Spec => ClearsWhatItFound
  <1>1. Card!Spec => Card!ClearsWhatItFound
    BY CardAssumption, CardClears
  <1> QED
    BY <1>1, FileSpecs DEF ClearsWhatItFound
=============================================================================
