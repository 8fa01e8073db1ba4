---------------------------- MODULE PlaylistStore ----------------------------
(***************************************************************************)
(* The saved playlists: API threads that create, update and delete one     *)
(* each load the whole JSON file, change their copy, write it to the one   *)
(* temporary file there is and rename that over the store, without a lock. *)
(* A store that cannot be read counts as empty, be it for good or once.    *)
(***************************************************************************)
EXTENDS Naturals, FiniteSets

CONSTANTS Threads,
          Ids,        \* playlist ids
          Kept,       \* those that are saved at the start
          MaxCalls,   \* bound: calls in a behaviour
          MayCrash,   \* may the process be restarted?
          Absent,     \* no such file
          Torn        \* a file truncated or half written

KeptAssumption == Kept \subseteq Ids /\ Kept # {}
BoundAssumption == MaxCalls \in Nat

(* What is saved of each playlist, by the call that saved it; 0: nothing.  *)
Versions == 0..(MaxCalls + 1)
Playlists == [Ids -> Versions]
NoPlaylists == [i \in Ids |-> 0]

FileAssumption == {Absent, Torn} \cap Playlists = {} /\ Absent # Torn

VARIABLES file,     \* the store
          tmp,      \* its .json.partial
          pc, op, id, version,   \* each thread's call
          raw,      \* the copy it will write
          open,     \* the file its descriptor writes to
          before,   \* what could be read when it began, or when it loaded
          alone,    \* has its call run without any other so far?
          calls, touched

vars == <<file, tmp, pc, op, id, version, raw, open, before, alone, calls, touched>>

(* Of a thread without a call. *)
AnId == CHOOSE i \in Kept : TRUE

(* _load_raw: {} for a missing file, and for one that is not JSON. *)
Readable(f) == IF f \in {Absent, Torn} THEN NoPlaylists ELSE f

Init ==
  /\ file = [i \in Ids |-> IF i \in Kept THEN 1 ELSE 0]
  /\ tmp = Absent
  /\ pc = [t \in Threads |-> "idle"]
  /\ op = [t \in Threads |-> "save"]
  /\ id = [t \in Threads |-> AnId]
  /\ version = [t \in Threads |-> 0]
  /\ raw = [t \in Threads |-> NoPlaylists]
  /\ open = [t \in Threads |-> "none"]
  /\ before = [t \in Threads |-> NoPlaylists]
  /\ alone = [t \in Threads |-> TRUE]
  /\ calls = 0
  /\ touched = {}

Goto(t, from, to) == pc[t] = from /\ pc' = [pc EXCEPT ![t] = to]

(* A call ends, and what it read with it. *)
Return(t, from) ==
  /\ Goto(t, from, "idle")
  /\ raw' = [raw EXCEPT ![t] = NoPlaylists]
  /\ before' = [before EXCEPT ![t] = NoPlaylists]
  /\ op' = [op EXCEPT ![t] = "save"] /\ version' = [version EXCEPT ![t] = 0]
  /\ id' = [id EXCEPT ![t] = AnId] /\ alone' = [alone EXCEPT ![t] = TRUE]
  /\ UNCHANGED <<calls, touched>>

(* A save without an id creates a playlist under one that is new. *)
Begin(t, call, i) ==
  /\ calls < MaxCalls
  /\ call = "create" => i \notin Kept \cup touched
  /\ Goto(t, "idle", IF call = "update" THEN "get" ELSE "load")
  /\ op' = [op EXCEPT ![t] = IF call = "delete" THEN "delete" ELSE "save"]
  /\ id' = [id EXCEPT ![t] = i]
  /\ version' = [version EXCEPT ![t] = calls + 2]
  /\ before' = [before EXCEPT ![t] = Readable(file)]
  /\ alone' = [u \in Threads |-> IF u = t THEN \A v \in Threads \ {t} : pc[v] = "idle"
                                          ELSE pc[u] = "idle"]
  /\ calls' = calls + 1
  /\ touched' = touched \cup {i}
  /\ UNCHANGED <<file, tmp, raw, open>>

(* _load_raw: {} for a store that cannot be opened (OSError), too. *)
Reads == {Readable(file), NoPlaylists}

(* _get_playlist_or_404, then the selection is resolved. *)
Get(t) ==
  \E saved \in Reads :
    /\ \/ saved[id[t]] = 0 /\ Return(t, "get")
       \/ /\ saved[id[t]] # 0 /\ Goto(t, "get", "load")
          /\ UNCHANGED <<op, id, version, raw, before, alone, calls, touched>>
    /\ UNCHANGED <<file, tmp, open>>

Edited(t, saved) ==
  [saved EXCEPT ![id[t]] = IF op[t] = "delete" THEN 0 ELSE version[t]]

(* raw = self._load_raw(), and what save or delete makes of it. *)
Load(t) ==
  /\ Goto(t, "load", "create")
  /\ \E saved \in Reads :
       /\ op[t] = "delete" => saved[id[t]] # 0
       /\ raw' = [raw EXCEPT ![t] = Edited(t, saved)]
       /\ before' = IF saved = Readable(file) THEN before ELSE [before EXCEPT ![t] = saved]
  /\ UNCHANGED <<file, tmp, op, id, version, open, alone, calls, touched>>

(* delete returns False: 404. *)
NotThere(t) ==
  /\ op[t] = "delete" /\ \E saved \in Reads : saved[id[t]] = 0
  /\ Return(t, "load")
  /\ UNCHANGED <<file, tmp, open>>

(* Mutant: a temporary file that is there is not truncated. *)
CreateAsIs(t) ==
  /\ Goto(t, "create", "write")
  /\ tmp' = IF tmp = Absent THEN Torn ELSE tmp
  /\ open' = [open EXCEPT ![t] = "tmp"]
  /\ UNCHANGED <<file, op, id, version, raw, before, alone, calls, touched>>

(* tmp.write_text: open for writing truncates, then the text goes in. *)
CreateTmp(t) ==
  /\ Goto(t, "create", "write")
  /\ tmp' = Torn
  /\ open' = [open EXCEPT ![t] = "tmp"]
  /\ UNCHANGED <<file, op, id, version, raw, before, alone, calls, touched>>

(* Over another's text, a shorter one leaves the longer one's tail. *)
Over(old, new) == IF old = Torn THEN {new} ELSE {new, Torn}

WriteTmp(t) ==
  /\ Goto(t, "write", "rename")
  /\ tmp' \in IF open[t] = "tmp" THEN Over(tmp, raw[t]) ELSE {tmp}
  /\ file' \in IF open[t] = "file" THEN Over(file, raw[t]) ELSE {file}
  /\ open' = [open EXCEPT ![t] = "none"]
  /\ UNCHANGED <<op, id, version, raw, before, alone, calls, touched>>

(* tmp.replace(self.path): descriptors stay with their files. *)
Rename(t) ==
  /\ Goto(t, "rename", "saved")
  /\ tmp # Absent
  /\ file' = tmp
  /\ tmp' = Absent
  /\ open' = [u \in Threads |-> IF open[u] = "tmp" THEN "file" ELSE "none"]
  /\ UNCHANGED <<op, id, version, raw, before, alone, calls, touched>>

(* FileNotFoundError: 500. *)
RenameFails(t) ==
  /\ Return(t, "rename")
  /\ tmp = Absent
  /\ UNCHANGED <<file, tmp, open>>

Answer(t) ==
  /\ Return(t, "saved")
  /\ UNCHANGED <<file, tmp, open>>

(* The process ends, at any point, and starts again. *)
Restart ==
  /\ MayCrash
  /\ \E t \in Threads : pc[t] # "idle"
  /\ pc' = [t \in Threads |-> "idle"]
  /\ open' = [t \in Threads |-> "none"]
  /\ raw' = [t \in Threads |-> NoPlaylists] /\ before' = [t \in Threads |-> NoPlaylists]
  /\ op' = [t \in Threads |-> "save"] /\ version' = [t \in Threads |-> 0]
  /\ id' = [t \in Threads |-> AnId] /\ alone' = [t \in Threads |-> TRUE]
  /\ UNCHANGED <<file, tmp, calls, touched>>

Next ==
  \/ Restart
  \/ \E t \in Threads :
       \/ \E call \in {"create", "update", "delete"}, i \in Ids : Begin(t, call, i)
       \/ Get(t) \/ Load(t) \/ NotThere(t) \/ CreateTmp(t) \/ WriteTmp(t)
       \/ Rename(t) \/ RenameFails(t) \/ Answer(t)

Spec == Init /\ [][Next]_vars

-----------------------------------------------------------------------------
(* Properties *)

Stored == Playlists \cup {Absent, Torn}

(* The shape of every variable. *)
TypeOK ==
  /\ file \in Stored /\ tmp \in Stored
  /\ pc \in [Threads -> {"idle", "get", "load", "create", "write", "rename", "saved"}]
  /\ op \in [Threads -> {"save", "delete"}]
  /\ id \in [Threads -> Ids]
  /\ version \in [Threads -> Versions]
  /\ raw \in [Threads -> Playlists]
  /\ before \in [Threads -> Playlists]
  /\ open \in [Threads -> {"none", "tmp", "file"}]
  /\ alone \in [Threads -> BOOLEAN]

(* Whatever partial files and stores races and restarts have left behind,  *)
(* a call that overlaps no other saves what could be read when it began,   *)
(* with its own change and no other.  A store that it fails to open is one *)
(* in which nothing can be read: the call then saves its own playlist      *)
(* alone.                                                                  *)
LoneCallIsExact ==
  \A t \in Threads : pc[t] = "saved" /\ alone[t] => file = Edited(t, before[t])
=============================================================================
