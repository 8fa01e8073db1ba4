----------------------------- MODULE ImageCache -----------------------------
(***************************************************************************)
(* The cached images that API threads make for each other without a lock:  *)
(* a resized master or candidate is saved by Pillow under its final name,  *)
(* a deep-zoom tile is written under a temporary name with the process id  *)
(* and renamed.  One cached file.  Two threads that make it write the same *)
(* bytes, each at its own offset into the file it has opened; so a file is *)
(* the set of parts that it holds.                                         *)
(***************************************************************************)
EXTENDS Naturals

CONSTANTS Threads,
          PartCount,  \* a file is written in so many pieces
          MaxCalls,   \* bound: requests in a behaviour
          Missing     \* no such file

Parts == 1..PartCount

CacheAssumption ==
  PartCount \in Nat \ {0} /\ (\A f \in SUBSET Parts : Missing # f) /\ MaxCalls \in Nat

Files == (SUBSET Parts) \cup {Missing}
Names == {"final", "tmp"}

VARIABLES kind,      \* is the file a "resize" or a "tile"?
          final,     \* what the final name leads to
          tmp,       \* what the temporary name of this process leads to
          pc,
          open,      \* the name of the file a thread has open, or "gone"
          written,   \* how many parts it has written
          created,   \* did its open create the file?
          alone,     \* has its call run without any other so far?
          calls,
          spoiled    \* history: has the server ended during a call, or a save
                     \* failed in one that overlapped another?

locals == <<pc, open, written, created, alone>>
vars == <<kind, final, tmp, locals, calls, spoiled>>

Init ==
  /\ kind \in {"resize", "tile"}
  /\ final = Missing /\ tmp = Missing
  /\ pc = [t \in Threads |-> "idle"]
  /\ open = [t \in Threads |-> "gone"]
  /\ written = [t \in Threads |-> 0]
  /\ created = [t \in Threads |-> FALSE]
  /\ alone = [t \in Threads |-> TRUE]
  /\ calls = 0
  /\ spoiled = FALSE

Goto(t, from, to) == pc[t] = from /\ pc' = [pc EXCEPT ![t] = to]

Begin(t) ==
  /\ calls < MaxCalls
  /\ Goto(t, "idle", "exists")
  /\ alone' = [u \in Threads |-> IF u = t THEN \A v \in Threads \ {t} : pc[v] = "idle"
                                          ELSE pc[u] = "idle"]
  /\ calls' = calls + 1
  /\ UNCHANGED <<kind, final, tmp, open, written, created, spoiled>>

(* if not cache_p.exists() *)
Exists(t) ==
  /\ Goto(t, "exists", IF final # Missing THEN "serve" ELSE "make")
  /\ UNCHANGED <<kind, final, tmp, open, written, created, alone, calls, spoiled>>

(* 500 or 502: the source cannot be fetched, or decoded. *)
NoSource(t) ==
  /\ Goto(t, "make", "idle")
  /\ UNCHANGED <<kind, final, tmp, open, written, created, alone, calls, spoiled>>

Content(name) == IF name = "final" THEN final ELSE tmp
Target == IF kind = "resize" THEN "final" ELSE "tmp"

(* Pillow, and write_bytes, open for writing: what is there is truncated.  *)
Open(t) ==
  /\ Goto(t, "make", "write")
  /\ created' = [created EXCEPT ![t] = Content(Target) = Missing]
  /\ open' = [open EXCEPT ![t] = Target]
  /\ written' = [written EXCEPT ![t] = 0]
  /\ final' = IF Target = "final" THEN {} ELSE final
  /\ tmp' = IF Target = "tmp" THEN {} ELSE tmp
  /\ UNCHANGED <<kind, alone, calls, spoiled>>

WritePart(t) ==
  /\ written[t] + 1 \in Parts
  /\ Goto(t, "write", "write")
  /\ written' = [written EXCEPT ![t] = @ + 1]
  /\ final' = IF open[t] = "final" THEN final \cup {written[t] + 1} ELSE final
  /\ tmp' = IF open[t] = "tmp" THEN tmp \cup {written[t] + 1} ELSE tmp
  /\ UNCHANGED <<kind, open, created, alone, calls, spoiled>>

Close(t) ==
  /\ written[t] + 1 \notin Parts
  /\ Goto(t, "write", IF kind = "resize" THEN "serve" ELSE "rename")
  /\ open' = [open EXCEPT ![t] = "gone"]
  /\ UNCHANGED <<kind, final, tmp, written, created, alone, calls, spoiled>>

(* Mutant: the file stays where the save broke off. *)
SaveFailsKept(t) ==
  /\ Goto(t, "write", "idle")
  /\ open' = [open EXCEPT ![t] = "gone"]
  /\ spoiled' = (spoiled \/ ~alone[t])
  /\ UNCHANGED <<kind, final, tmp, written, created, alone, calls>>

(* A save breaks off.  Pillow removes the file that its open created, by   *)
(* name; who has it open writes to a file that nobody finds.               *)
SaveFails(t) ==
  /\ Goto(t, "write", "idle")
  /\ LET removes == kind = "resize" /\ created[t]
     IN /\ final' = IF removes THEN Missing ELSE final
        /\ open' = [u \in Threads |-> IF u = t \/ (removes /\ open[u] = "final")
                                      THEN "gone" ELSE open[u]]
  /\ spoiled' = (spoiled \/ ~alone[t])
  /\ UNCHANGED <<kind, tmp, written, created, alone, calls>>

(* tmp.replace(cache_p): open files keep what they are open on.            *)
Rename(t) ==
  /\ tmp # Missing
  /\ Goto(t, "rename", "serve")
  /\ final' = tmp /\ tmp' = Missing
  /\ open' = [u \in Threads |-> IF open[u] = "tmp" THEN "final" ELSE "gone"]
  /\ UNCHANGED <<kind, written, created, alone, calls, spoiled>>

(* Another thread has renamed it: FileNotFoundError, 500. *)
RenameFails(t) ==
  /\ tmp = Missing
  /\ Goto(t, "rename", "idle")
  /\ UNCHANGED <<kind, final, tmp, open, written, created, alone, calls, spoiled>>

(* FileResponse *)
Serve(t) ==
  /\ Goto(t, "serve", "idle")
  /\ UNCHANGED <<kind, final, tmp, open, written, created, alone, calls, spoiled>>

(* The next process has an id, and so a temporary name, of its own. *)
Restart ==
  /\ \E t \in Threads : pc[t] # "idle"
  /\ pc' = [t \in Threads |-> "idle"]
  /\ open' = [t \in Threads |-> "gone"]
  /\ tmp' = Missing
  /\ spoiled' = TRUE
  /\ UNCHANGED <<kind, final, written, created, alone, calls>>

Next ==
  \/ Restart
  \/ \E t \in Threads :
       \/ Begin(t) \/ Exists(t) \/ NoSource(t) \/ Open(t) \/ WritePart(t) \/ Close(t)
       \/ SaveFails(t) \/ Rename(t) \/ RenameFails(t) \/ Serve(t)

Spec == Init /\ [][Next]_vars

-----------------------------------------------------------------------------
(* Properties *)

(* The shape of every variable. *)
TypeOK ==
  /\ kind \in {"resize", "tile"}
  /\ final \in Files /\ tmp \in Files
  /\ pc \in [Threads -> {"idle", "exists", "make", "write", "rename", "serve"}]
  /\ open \in [Threads -> Names \cup {"gone"}]
  /\ written \in [Threads -> Parts \cup {0}]
  /\ created \in [Threads -> BOOLEAN] /\ alone \in [Threads -> BOOLEAN] /\ spoiled \in BOOLEAN

(* A cached file is served for ever once it exists.  Whatever threads made *)
(* it at the same time, truncating, renaming and removing each other's     *)
(* file, it is whole or absent when they are done; unless the server ended *)
(* in between, or a save failed that overlapped another call.              *)
SettledCacheIsWhole ==
  (\A t \in Threads : pc[t] = "idle") /\ ~spoiled => final \in {Parts, Missing}
=============================================================================
