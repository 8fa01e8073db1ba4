---------------------------- MODULE MasterFacts ----------------------------
(***************************************************************************)
(* What the API knows of one work's master image: API threads that list    *)
(* the acquisitions decode it, remember the verdict under the file's       *)
(* identity (mtime and size), and save the memo to a cache file.  The size *)
(* in pixels, which is kept with the verdict, is left out.                 *)
(* Decoding lifts Pillow's pixel ceiling, a variable of the whole process, *)
(* which threads that resize images lift as well.                          *)
(***************************************************************************)
EXTENDS Naturals, FiniteSets

CONSTANTS Listers,      \* threads in acquisitions_since_epoch
          MayResize,    \* may other threads be in _serve_resized?
          Kinds,        \* what a master can be: a subset of AllKinds
          MaxMasters,   \* bound: masters the work has in a behaviour
          MayCrash,     \* may the process be restarted?
          Torn,         \* a cache file truncated or half written
          Absent        \* no such file

AllKinds == {"small", "giga", "damaged"}

Ids == 1..MaxMasters
Verdicts == {"ok", "truncated", "unchecked"}
NoFact == "none"
Entries == [Ids -> Verdicts \cup {NoFact}]
NoEntries == [i \in Ids |-> NoFact]

MasterAssumption ==
  /\ MayResize \in BOOLEAN
  /\ Kinds \subseteq AllKinds
  /\ MaxMasters \in Nat /\ MaxMasters > 0
  /\ Torn \notin Entries /\ Absent \notin Entries /\ Torn # Absent

(* A thread's locals are reset where it has used them for the last time. *)
VARIABLES master,    \* the file: its identity and what is in it
          ceiling,   \* PIL.Image.MAX_IMAGE_PIXELS
          memo,      \* _MASTER_FACTS
          loaded,    \* _MASTER_FACTS_LOADED
          dirty,     \* _MASTER_FACTS_DIRTY
          cache,     \* the cache file
          tmp,       \* its .json.tmp
          pc,        \* where each thread is
          key,       \* the identity a lister keeps its facts under
          fact,      \* the facts it has so far
          prev,      \* the ceiling it will restore
          entries,   \* the entries it is about to save
          open,      \* the file its descriptor writes to
          overlap,   \* have two listers ever been at work at the same time?
          misread    \* history: whose decoding a failing read has cut short

shared == <<master, ceiling, memo, loaded, dirty, cache, tmp>>
locals == <<pc, key, fact, prev, entries, open>>
history == <<overlap, misread>>
vars == <<shared, locals, history>>

Init ==
  /\ master \in [id : {1}, kind : Kinds]
  /\ ceiling = "default"
  /\ memo = NoEntries
  /\ loaded = FALSE
  /\ dirty = FALSE
  /\ cache = Absent
  /\ tmp = Absent
  /\ pc = [t \in Listers |-> "idle"]
  /\ key = [t \in Listers |-> 1]
  /\ fact = [t \in Listers |-> NoFact]
  /\ prev = [t \in Listers |-> "default"]
  /\ entries = [t \in Listers |-> NoEntries]
  /\ open = [t \in Listers |-> "none"]
  /\ overlap = FALSE
  /\ misread = {}

Goto(t, from, to) == pc[t] = from /\ pc' = [pc EXCEPT ![t] = to]

(* Pillow refuses to open what has more pixels than twice the ceiling. *)
Opens(kind) == kind = "giga" => ceiling = "none"

(* master.stat(), and _load_master_facts() up to its flag. *)
Stat(t) ==
  /\ Goto(t, "idle", IF loaded THEN "lookup" ELSE "load")
  /\ key' = [key EXCEPT ![t] = master.id]
  /\ loaded' = TRUE
  /\ overlap' = (overlap \/ \E u \in Listers : pc[u] # "idle")
  /\ UNCHANGED <<master, ceiling, memo, dirty, cache, tmp, fact, prev, entries,
                 open, misread>>

(* Only what was looked at is taken from the file; a torn one is a miss,   *)
(* and one that cannot be opened.                                          *)
LoadMemo(t) ==
  /\ Goto(t, "load", "lookup")
  /\ \/ memo' = memo
     \/ /\ cache \notin {Absent, Torn}
        /\ memo' = [i \in Ids |-> IF cache[i] \in {"ok", "truncated"} THEN cache[i]
                                  ELSE memo[i]]
  /\ UNCHANGED <<master, ceiling, loaded, dirty, cache, tmp, key, fact, prev,
                 entries, open, history>>

Lookup(t) ==
  /\ Goto(t, "lookup", IF memo[key[t]] = NoFact THEN "probe" ELSE "flush")
  /\ UNCHANGED <<shared, key, fact, prev, entries, open, history>>

(* The volume does not answer: "unchecked". *)
ProbeFails(t) ==
  /\ Goto(t, "probe", "store")
  /\ fact' = [fact EXCEPT ![t] = "unchecked"]
  /\ UNCHANGED <<shared, key, prev, entries, open, history>>

(* _master_health: the file can be opened; prev_max = MAX_IMAGE_PIXELS. *)
SaveCeiling(t) ==
  /\ Goto(t, "probe", "lift")
  /\ prev' = [prev EXCEPT ![t] = ceiling]
  /\ UNCHANGED <<shared, key, fact, entries, open, history>>

(* Mutant: the master is decoded under the ceiling in force. *)
LiftCeilingNot(t) ==
  /\ Goto(t, "lift", "decode")
  /\ UNCHANGED <<shared, key, fact, prev, entries, open, history>>

LiftCeiling(t) ==
  /\ Goto(t, "lift", "decode")
  /\ ceiling' = "none"
  /\ UNCHANGED <<master, memo, loaded, dirty, cache, tmp, key, fact, prev, entries,
                 open, history>>

(* Mutant: im.load() is left out, only the header is read. *)
DecodeHeader(t) ==
  /\ Goto(t, "decode", "restore")
  /\ fact' = [fact EXCEPT ![t] = IF Opens(master.kind) THEN "ok" ELSE "truncated"]
  /\ UNCHANGED <<shared, key, prev, entries, open, history>>

(* Every exception means damage, also when the volume answered the probe   *)
(* and fails the read that follows, or the memory does not suffice.        *)
Decode(t) ==
  LET good == master.kind # "damaged" /\ Opens(master.kind)
  IN  /\ Goto(t, "decode", "restore")
      /\ \/ /\ fact' = [fact EXCEPT ![t] = IF good THEN "ok" ELSE "truncated"]
            /\ UNCHANGED misread
         \/ /\ good
            /\ fact' = [fact EXCEPT ![t] = "truncated"]
            /\ misread' = misread \cup {key[t]}
      /\ UNCHANGED <<shared, key, prev, entries, open, overlap>>

RestoreCeiling(t) ==
  /\ Goto(t, "restore", "store")
  /\ ceiling' = prev[t]
  /\ prev' = [prev EXCEPT ![t] = "default"]
  /\ UNCHANGED <<master, memo, loaded, dirty, cache, tmp, key, fact, entries, open,
                 history>>

Memoise(t) ==
  /\ Goto(t, "store", "flush")
  /\ memo' = [memo EXCEPT ![key[t]] = fact[t]]
  /\ dirty' = TRUE
  /\ fact' = [fact EXCEPT ![t] = NoFact]
  /\ UNCHANGED <<master, ceiling, loaded, cache, tmp, key, prev, entries, open, history>>

(* flush_master_facts *)
FlushNothing(t) ==
  /\ Goto(t, "flush", "idle")
  /\ ~dirty
  /\ UNCHANGED <<shared, key, fact, prev, entries, open, history>>

BeginFlush(t) ==
  /\ Goto(t, "flush", "collect")
  /\ dirty
  /\ dirty' = FALSE
  /\ entries' = [entries EXCEPT ![t] = memo]
  /\ UNCHANGED <<master, ceiling, memo, loaded, cache, tmp, key, fact, prev, open,
                 history>>

Keys(m) == {i \in Ids : m[i] # NoFact}

(* Leaves out what could not be looked at. *)
Checked(m) == [i \in Ids |-> IF m[i] = "unchecked" THEN NoFact ELSE m[i]]

Collect(t) ==
  /\ Goto(t, "collect", "create")
  /\ Keys(memo) = Keys(entries[t])
  /\ entries' = [entries EXCEPT ![t] = Checked(memo)]
  /\ UNCHANGED <<shared, key, fact, prev, open, history>>

(* RuntimeError: dictionary changed size during iteration; the call fails. *)
CollectFails(t) ==
  /\ Goto(t, "collect", "idle")
  /\ Keys(memo) # Keys(entries[t])
  /\ entries' = [entries EXCEPT ![t] = NoEntries]
  /\ UNCHANGED <<shared, key, fact, prev, open, history>>

(* tmp.write_text: open for writing truncates, then the text goes in. *)
CreateTmp(t) ==
  /\ Goto(t, "create", "write")
  /\ tmp' = Torn
  /\ open' = [open EXCEPT ![t] = "tmp"]
  /\ UNCHANGED <<master, ceiling, memo, loaded, dirty, cache, key, fact, prev,
                 entries, history>>

(* Over another's text, a shorter one leaves the longer one's tail. *)
Over(old, new) == IF old = Torn THEN {new} ELSE {new, Torn}

WriteTmp(t) ==
  /\ Goto(t, "write", "rename")
  /\ tmp' \in IF open[t] = "tmp" THEN Over(tmp, entries[t]) ELSE {tmp}
  /\ cache' \in IF open[t] = "cache" THEN Over(cache, entries[t]) ELSE {cache}
  /\ open' = [open EXCEPT ![t] = "none"]
  /\ UNCHANGED <<master, ceiling, memo, loaded, dirty, key, fact, prev, entries,
                 history>>

(* tmp.replace(MASTER_FACTS_CACHE): descriptors stay with their files. *)
RenameTmp(t) ==
  /\ Goto(t, "rename", "idle")
  /\ tmp # Absent
  /\ cache' = tmp
  /\ tmp' = Absent
  /\ open' = [u \in Listers |-> IF open[u] = "tmp" THEN "cache" ELSE "none"]
  /\ entries' = [entries EXCEPT ![t] = NoEntries]
  /\ UNCHANGED <<master, ceiling, memo, loaded, dirty, key, fact, prev, history>>

(* FileNotFoundError is an OSError: caught. *)
RenameFails(t) ==
  /\ Goto(t, "rename", "idle")
  /\ tmp = Absent
  /\ entries' = [entries EXCEPT ![t] = NoEntries]
  /\ UNCHANGED <<shared, key, fact, prev, open, history>>

(* _serve_resized lifts the ceiling for good; whether the master can then  *)
(* be opened changes nothing here.                                         *)
Serve ==
  /\ MayResize
  /\ ceiling' = "none"
  /\ UNCHANGED <<master, memo, loaded, dirty, cache, tmp, locals, history>>

(* A new file under the same name never has its predecessor's identity. *)
ReplaceMaster(kind) ==
  /\ master.id < MaxMasters
  /\ master' = [id |-> master.id + 1, kind |-> kind]
  /\ UNCHANGED <<ceiling, memo, loaded, dirty, cache, tmp, locals, history>>

NewLocals ==
  /\ key' = [t \in Listers |-> 1]
  /\ fact' = [t \in Listers |-> NoFact]
  /\ prev' = [t \in Listers |-> "default"]
  /\ entries' = [t \in Listers |-> NoEntries]
  /\ open' = [t \in Listers |-> "none"]

(* The process ends, at any point, and starts again. *)
Restart ==
  /\ MayCrash
  /\ pc' = [t \in Listers |-> "idle"]
  /\ NewLocals
  /\ ceiling' = "default"
  /\ memo' = NoEntries
  /\ loaded' = FALSE
  /\ dirty' = FALSE
  /\ UNCHANGED <<master, cache, tmp, history>>

ListStep(t) ==
  \/ Stat(t) \/ LoadMemo(t) \/ Lookup(t) \/ ProbeFails(t)
  \/ SaveCeiling(t) \/ LiftCeiling(t) \/ Decode(t) \/ RestoreCeiling(t) \/ Memoise(t)
  \/ FlushNothing(t) \/ BeginFlush(t) \/ Collect(t) \/ CollectFails(t)
  \/ CreateTmp(t) \/ WriteTmp(t) \/ RenameTmp(t) \/ RenameFails(t)

Next ==
  \/ \E t \in Listers : ListStep(t)
  \/ Serve
  \/ \E kind \in Kinds : ReplaceMaster(kind)
  \/ Restart

Spec == Init /\ [][Next]_vars
-----------------------------------------------------------------------------
(* Properties *)

Stored == Entries \cup {Torn, Absent}

(* The shape of every variable. *)
TypeOK ==
  /\ master \in [id : Ids, kind : Kinds]
  /\ ceiling \in {"default", "none"}
  /\ memo \in Entries
  /\ loaded \in BOOLEAN /\ dirty \in BOOLEAN
  /\ cache \in Stored /\ tmp \in Stored
  /\ pc \in [Listers -> {"idle", "load", "lookup", "probe", "lift",
                         "decode", "restore", "store", "flush", "collect", "create",
                         "write", "rename"}]
  /\ key \in [Listers -> Ids]
  /\ fact \in [Listers -> Verdicts \cup {NoFact}]
  /\ prev \in [Listers -> {"default", "none"}]
  /\ entries \in [Listers -> Entries]
  /\ open \in [Listers -> {"none", "tmp", "cache"}]
  /\ overlap \in BOOLEAN /\ misread \subseteq Ids

(* _load_master_facts: "could not look" is never written down, whichever   *)
(* thread's memo reaches the cache file.                                   *)
UncheckedNotSaved ==
  cache \notin {Torn, Absent} => \A i \in Ids : cache[i] # "unchecked"

(* Under no interleaving of scans, resizes, restarts and replacements of   *)
(* the master is a damaged master that is there now known as a good one.   *)
DamagedIsNotOk ==
  master.kind = "damaged" =>
    /\ memo[master.id] # "ok"
    /\ cache \notin {Torn, Absent} => cache[master.id] # "ok"

(* _master_health's comment: a perfectly good file is not reported as      *)
(* damaged because of its size - nor for anything but a read of that file  *)
(* which fails while it is decoded.                                        *)
GoodIsNotTruncated ==
  master.kind # "damaged" /\ master.id \notin misread => memo[master.id] # "truncated"

(* As long as no two scans have overlapped, that is so, across restarts    *)
(* and with the memo read back, also while resizers lift the ceiling.      *)
LoneVerdictIsFair == ~overlap => GoodIsNotTruncated
=============================================================================
