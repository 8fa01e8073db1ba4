------------------------------- MODULE SdCard -------------------------------
(***************************************************************************)
(* sdcard.export: write a playlist to a removable card.  Works are rendered *)
(* one by one into partial files; when the first has been rendered, what   *)
(* was found on the card at the start and looks like an earlier export is  *)
(* unlinked; each partial file is then renamed to its numbered name; three *)
(* manifests come last.  The card may be pulled, or the process killed, at *)
(* any step, and the API serves several exports at once.                   *)
(***************************************************************************)
EXTENDS Naturals, Sequences, FiniteSets, SequencesExt

CONSTANTS Exporters,   \* calls of export that may run at the same time
          Works,
          Selections,  \* the playlists they are asked for
          MaxRuns,     \* bound: exports in a behaviour
          MayCrash,    \* may the card be pulled?
          User,        \* the owner of files that no export wrote
          NoFile, Torn

Manifests == {"README.txt", "playlist.json", "playlist.m3u"}
Runs == 1..MaxRuns
Numbers == 1..Cardinality(Works)

CardAssumption ==
  /\ MaxRuns \in Nat
  /\ Selections \subseteq Seq(Works) \ {<<>>}
  /\ User \notin Runs /\ User \notin Works

(* NNN_<work>.<ext>; a photo "2024_beach.jpg" of the user has that form.   *)
Image == [no : Numbers \cup {2024}, work : Works \cup {User}, by : Runs \cup {User}]
Photo == [no |-> 2024, work |-> User, by |-> User]

VARIABLES images,     \* the files on the card that OURS_RE matches
          partials,   \* .NNN_<work>.<ext>.partial
          lists,      \* what is in each manifest
          pc, run,    \* where each exporter is, and in which export
          asked,      \* the playlist of that export
          todo,       \* the works it has still to come to
          written,    \* rep.written
          oldImages, oldLists,   \* existing, as far as not yet removed
          found,      \* all that was on the card when the export began
          runs,
          overlap     \* have two exports ever been at work at the same time?

card == <<images, partials, lists>>
count == <<runs, overlap>>
local == <<run, asked, todo, written, oldImages, oldLists, found>>
vars == <<card, pc, local, count>>

EmptyCard == [images |-> {}, lists |-> [m \in Manifests |-> NoFile]]

Init ==
  /\ images \in {{}, {Photo}}
  /\ partials = {}
  /\ lists = EmptyCard.lists
  /\ pc = [e \in Exporters |-> "idle"]
  /\ run = [e \in Exporters |-> 0]
  /\ asked = [e \in Exporters |-> <<>>]
  /\ todo = [e \in Exporters |-> <<>>]
  /\ written = [e \in Exporters |-> <<>>]
  /\ oldImages = [e \in Exporters |-> {}]
  /\ oldLists = [e \in Exporters |-> {}]
  /\ found = [e \in Exporters |-> EmptyCard]
  /\ runs = 0
  /\ overlap = FALSE

(* The calls in S have returned, raised or been cut short. *)
End(S) ==
  LET Reset(f, value) == [e \in Exporters |-> IF e \in S THEN value ELSE f[e]]
  IN  /\ pc' = Reset(pc, "idle")
      /\ run' = Reset(run, 0)
      /\ asked' = Reset(asked, <<>>)
      /\ todo' = Reset(todo, <<>>)
      /\ written' = Reset(written, <<>>)
      /\ oldImages' = Reset(oldImages, {})
      /\ oldLists' = Reset(oldLists, {})
      /\ found' = Reset(found, EmptyCard)
      /\ UNCHANGED <<card, count>>

Goto(e, from, to) == pc[e] = from /\ pc' = [pc EXCEPT ![e] = to]

(* Mutants: the manifests are not looked for; or they alone are believed. *)
ReclaimableImages == [images |-> images, lists |-> {}]

ReclaimableListed ==
  [images |-> {f \in images : lists["playlist.json"] \notin {NoFile, Torn}
                                /\ f \in lists["playlist.json"]},
   lists |-> {m \in Manifests : lists[m] # NoFile}]

(* _reclaimable(root): whatever has one of the names. *)
Reclaimable == [images |-> images, lists |-> {m \in Manifests : lists[m] # NoFile}]

(* Without overwrite, only a card with nothing reclaimable is accepted. *)
Start(e, playlist, overwrite) ==
  LET existing == Reclaimable
  IN  /\ runs < MaxRuns
      /\ Goto(e, "idle", "item")
      /\ overwrite \/ (existing.images = {} /\ existing.lists = {})
      /\ run' = [run EXCEPT ![e] = runs + 1]
      /\ asked' = [asked EXCEPT ![e] = playlist]
      /\ todo' = [todo EXCEPT ![e] = playlist]
      /\ written' = [written EXCEPT ![e] = <<>>]
      /\ oldImages' = [oldImages EXCEPT ![e] = existing.images]
      /\ oldLists' = [oldLists EXCEPT ![e] = existing.lists]
      /\ found' = [found EXCEPT ![e] = [images |-> images, lists |-> lists]]
      /\ runs' = runs + 1
      /\ overlap' = (overlap \/ \E o \in Exporters : pc[o] # "idle")
      /\ UNCHANGED card

(* Mutant: numbered by position in the playlist. *)
NextNameByPosition(e) ==
  [no |-> Len(asked[e]) - Len(todo[e]) + 1, work |-> Head(todo[e]), by |-> run[e]]

(* Numbered by what has been written, so that skips leave no gaps. *)
NextName(e) == [no |-> Len(written[e]) + 1, work |-> Head(todo[e]), by |-> run[e]]

SameName(f, g) == f.no = g.no /\ f.work = g.work
Named(files, f) == {g \in files : SameName(f, g)}

(* "no local master image" *)
SkipMissing(e) ==
  /\ pc[e] = "item" /\ todo[e] # <<>>
  /\ todo' = [todo EXCEPT ![e] = Tail(@)]
  /\ UNCHANGED <<card, pc, run, asked, written, oldImages, oldLists, found, count>>

(* Rendered, found palette-conformant, saved beside its place. *)
SavePartial(e) ==
  /\ todo[e] # <<>>
  /\ Goto(e, "item", IF written[e] = <<>> THEN "clear" ELSE "place")
  /\ partials' = (partials \ Named(partials, NextName(e))) \cup {NextName(e)}
  /\ UNCHANGED <<images, lists, local, count>>

(* Mutant: what was found has been removed before the work is rendered. *)
RenderFailsCleared(e) ==
  /\ pc[e] = "item" /\ todo[e] # <<>>
  /\ partials' = partials \ Named(partials, NextName(e))
  /\ images' = images \ oldImages[e]
  /\ todo' = [todo EXCEPT ![e] = Tail(@)]
  /\ UNCHANGED <<lists, pc, run, asked, written, oldImages, oldLists, found, count>>

(* "render failed": the partial file, if there is one, is removed. *)
RenderFails(e) ==
  /\ pc[e] = "item" /\ todo[e] # <<>>
  /\ partials' = partials \ Named(partials, NextName(e))
  /\ todo' = [todo EXCEPT ![e] = Tail(@)]
  /\ UNCHANGED <<images, lists, pc, run, asked, written, oldImages, oldLists, found, count>>

(* Mutant: the card is listed again when it is cleared. *)
ClearImageSeen(e, f) ==
  /\ pc[e] = "clear"
  /\ f \in images
  /\ images' = images \ {f}
  /\ oldImages' = [oldImages EXCEPT ![e] = @ \ {f}]
  /\ UNCHANGED <<partials, lists, pc, run, asked, todo, written, oldLists, found, count>>

(* prior.unlink() in the order of names: images, then manifests. *)
ClearImage(e, f) ==
  /\ pc[e] = "clear"
  /\ f \in oldImages[e]
  /\ \A g \in oldImages[e] : f.no <= g.no
  /\ Named(images, f) # {}
  /\ images' = images \ Named(images, f)
  /\ oldImages' = [oldImages EXCEPT ![e] = @ \ {f}]
  /\ UNCHANGED <<partials, lists, pc, run, asked, todo, written, oldLists, found, count>>

Before == [m \in Manifests |-> CASE m = "README.txt" -> {}
                                 [] m = "playlist.json" -> {"README.txt"}
                                 [] OTHER -> {"README.txt", "playlist.json"}]

ClearList(e, m) ==
  /\ pc[e] = "clear"
  /\ oldImages[e] = {}
  /\ m \in oldLists[e]
  /\ Before[m] \cap oldLists[e] = {}
  /\ lists[m] # NoFile
  /\ lists' = [lists EXCEPT ![m] = NoFile]
  /\ oldLists' = [oldLists EXCEPT ![e] = @ \ {m}]
  /\ UNCHANGED <<images, partials, pc, run, asked, todo, written, oldImages, found, count>>

Cleared(e) ==
  /\ oldImages[e] = {} /\ oldLists[e] = {}
  /\ Goto(e, "clear", "place")
  /\ UNCHANGED <<card, local, count>>

(* partial.replace(dest) *)
Place(e) ==
  /\ Goto(e, "place", "item")
  /\ \E f \in Named(partials, NextName(e)) :
       /\ images' = (images \ Named(images, f)) \cup {f}
       /\ partials' = partials \ {f}
  /\ written' = [written EXCEPT ![e] = Append(@, NextName(e))]
  /\ todo' = [todo EXCEPT ![e] = Tail(@)]
  /\ UNCHANGED <<lists, run, asked, oldImages, oldLists, found, count>>

(* FileNotFoundError: another export was faster.  The partial file stays.  *)
Abort(e) ==
  /\ \/ /\ pc[e] = "clear"
        /\ \/ \E f \in oldImages[e] :
                (\A g \in oldImages[e] : f.no <= g.no) /\ Named(images, f) = {}
           \/ /\ oldImages[e] = {}
              /\ \E m \in oldLists[e] :
                   Before[m] \cap oldLists[e] = {} /\ lists[m] = NoFile
     \/ pc[e] = "place" /\ Named(partials, NextName(e)) = {}
  /\ End({e})

(* The manifests, in this order, if anything was written. *)
Finish(e) ==
  /\ todo[e] = <<>>
  /\ Goto(e, "item", IF written[e] = <<>> THEN "done" ELSE "playlist.json")
  /\ UNCHANGED <<card, local, count>>

Following(m) ==
  CASE m = "playlist.json" -> "playlist.m3u" [] m = "playlist.m3u" -> "README.txt"
    [] OTHER -> "done"

(* write_text truncates, then writes. *)
Truncate(e, m) ==
  /\ pc[e] = m
  /\ lists[m] # Torn
  /\ lists' = [lists EXCEPT ![m] = Torn]
  /\ UNCHANGED <<images, partials, pc, local, count>>

WriteList(e, m) ==
  /\ Goto(e, m, Following(m))
  /\ lists[m] = Torn
  /\ lists' = [lists EXCEPT ![m] = ToSet(written[e])]
  /\ UNCHANGED <<images, partials, local, count>>

Return(e) == pc[e] = "done" /\ End({e})

Pulled ==
  /\ MayCrash
  /\ \E e \in Exporters : pc[e] # "idle"
  /\ End(Exporters)

Next ==
  \/ Pulled
  \/ \E e \in Exporters :
       \/ \E playlist \in Selections, overwrite \in BOOLEAN : Start(e, playlist, overwrite)
       \/ SkipMissing(e) \/ SavePartial(e) \/ RenderFails(e)
       \/ (\E f \in images \cup oldImages[e] : ClearImage(e, f))
       \/ (\E m \in Manifests : ClearList(e, m) \/ Truncate(e, m) \/ WriteList(e, m))
       \/ Cleared(e) \/ Place(e) \/ Abort(e) \/ Finish(e) \/ Return(e)

Spec == Init /\ [][Next]_vars

-----------------------------------------------------------------------------
(* Properties *)

(* The shape of every variable; no two files with one name. *)
TypeOK ==
  /\ images \subseteq Image /\ partials \subseteq Image
  /\ \A f, g \in images : SameName(f, g) => f = g
  /\ \A f, g \in partials : SameName(f, g) => f = g
  /\ DOMAIN lists = Manifests
  /\ \A m \in Manifests : lists[m] \in {NoFile, Torn} \/ lists[m] \subseteq Image
  /\ pc \in [Exporters -> {"idle", "item", "clear", "place", "done"} \cup Manifests]
  /\ \A e \in Exporters : oldImages[e] \subseteq Image /\ oldLists[e] \subseteq Manifests
  /\ overlap \in BOOLEAN

Exported == {f \in images : f.by # User}

(* As long as no two exports have been at work at the same time, a card    *)
(* never holds the images of two, though each may be cut short at any step *)
(* and the next one begins with what it left.                              *)
OneExport == ~overlap => \A f, g \in Exported : f.by = g.by

(* A manifest that can be read then covers the card: every image that an   *)
(* export wrote is listed in it, also while a later export clears the card, *)
(* and when that is cut short.                                             *)
ManifestCoversCard ==
  ~overlap => \A m \in Manifests : lists[m] \in {NoFile, Torn} \/ Exported \subseteq lists[m]

(* An export that returns has left exactly its own images, numbered from 1 *)
(* without gaps in playlist order, and manifests that list just these.     *)
FinishedCard ==
  \A e \in Exporters : pc[e] = "done" /\ written[e] # <<>> /\ ~overlap =>
    /\ Exported = ToSet(written[e])
    /\ {f.no : f \in Exported} = 1..Len(written[e])
    /\ \A i, j \in DOMAIN written[e] : i < j =>
         \E k, l \in DOMAIN asked[e] : /\ k < l
                                       /\ asked[e][k] = written[e][i].work
                                       /\ asked[e][l] = written[e][j].work
    /\ \A m \in Manifests : lists[m] = Exported

(* Until the first new image is ready nothing is taken: when no work can   *)
(* be rendered, the card is left as it was.                                *)
KeptUntilReplaced ==
  \A e \in Exporters : pc[e] \in {"item", "done"} /\ written[e] = <<>> /\ ~overlap =>
    images = found[e].images /\ lists = found[e].lists

(* However exports interleave, one that clears the card unlinks no name    *)
(* that it did not find there when it began.                               *)
ClearsWhatItFound ==
  [][\A f \in images : Named(images', f) = {} =>
       \E e \in Exporters : pc[e] = "clear" /\ Named(found[e].images, f) # {}]_images
=============================================================================
