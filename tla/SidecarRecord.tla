--------------------------- MODULE SidecarRecord ---------------------------
(***************************************************************************)
(* One work's meta.json ("sidecar") as its writers see it, and what each   *)
(* request makes of the copy it has read.  Kept of the document: the       *)
(* subject tags with their review state, the needs_review flag, the        *)
(* reviewer notes, the history (how many events of each op), the recorded  *)
(* master digest, and whether the rest of it satisfies the JSON schema.    *)
(***************************************************************************)
EXTENDS Naturals

CONSTANTS Tags,     \* content-tag ids ("group:id")
          Digests,  \* SHA-256 values of master files
          NoTag,    \* the tag of a request that is not about one
          Torn      \* a meta.json that is truncated or half written

ASSUME TagAssumption == NoTag \notin Tags

HumanStates == {"confirmed", "rejected", "added"}
TagStates == {"absent", "proposed"} \cup HumanStates

HistoryOps == {"acquired", "owner-review", "fixity_verified", "variant-upgrade"}

Sidecar == [tags : [Tags -> TagStates], needsReview : BOOLEAN, notes : Nat,
            history : [HistoryOps -> Nat], sha : Digests, schemaOk : BOOLEAN]

ASSUME TornAssumption == Torn \notin Sidecar

(* The requests the three kinds of lock-holding writers serve. *)
ReviewRequests == [op : {"review", "undo"}, tag : {NoTag}]
SubjectRequests == [op : {"confirm", "reject", "add", "reset"}, tag : Tags]
                     \cup [op : {"freetext"}, tag : {NoTag}]
FixityRequests == [op : {"verify", "record"}, tag : {NoTag}]
Requests == ReviewRequests \cup SubjectRequests \cup FixityRequests

AnyProposed(tags) == \E t \in Tags : tags[t] = "proposed"

(* The schema's `history` has minItems 1; every other rule is schemaOk. *)
IsValid(sc) == sc.schemaOk /\ \E op \in HistoryOps : sc.history[op] > 0

IsReviewed(sc) == sc.history["owner-review"] > 0

Logged(sc, op) == [sc EXCEPT !.history[op] = @ + 1]

(* acquisition_review: append one owner-review event, or drop them all. *)
Reviewed(sc) == Logged(sc, "owner-review")
Unreviewed(sc) == [sc EXCEPT !.history["owner-review"] = 0]

(* subject_action: reset withdraws a decision on a tag that is present, and *)
(* leaves an absent one absent; the three verdicts create or overwrite.     *)
StateAfter(op, state) ==
  CASE op = "confirm" -> "confirmed"
    [] op = "reject"  -> "rejected"
    [] op = "add"     -> "added"
    [] OTHER          -> IF state = "absent" THEN "absent" ELSE "proposed"

(* Mutant: the verdict is stored, needs_review is left as it was. *)
CuratedKeepsFlag(sc, r) == [sc EXCEPT !.tags[r.tag] = StateAfter(r.op, @)]

Curated(sc, r) ==
  LET tags == [sc.tags EXCEPT ![r.tag] = StateAfter(r.op, @)]
  IN  [sc EXCEPT !.tags = tags, !.needsReview = AnyProposed(tags)]

Noted(sc) == [sc EXCEPT !.notes = @ + 1]

(* verify_fixity(record=True) logs what it saw; record_fixity adopts it. *)
FixityChecked(sc, r, digest) ==
  [Logged(sc, "fixity_verified") EXCEPT
     !.sha = IF r.op = "record" THEN digest ELSE @]

Apply(r, sc, digest) ==
  CASE r.op = "review"              -> Reviewed(sc)
    [] r.op = "undo"                -> Unreviewed(sc)
    [] r.op = "freetext"            -> Noted(sc)
    [] r.op \in {"verify", "record"} -> FixityChecked(sc, r, digest)
    [] OTHER                        -> Curated(sc, r)

(* Mutant: acquisition_review without the 409 for a second review. *)
RefusedNoDoubleCheck(r, sc) ==
  \/ r.op = "undo" /\ ~IsReviewed(sc)
  \/ r \in ReviewRequests \cup FixityRequests /\ ~sc.schemaOk

(* The 409s of acquisition_review, and the validation that it and the      *)
(* fixity writer run before writing.  subject_action validates nothing.    *)
Refused(r, sc) ==
  \/ r.op = "review" /\ IsReviewed(sc)
  \/ r.op = "undo" /\ ~IsReviewed(sc)
  \/ r \in ReviewRequests \cup FixityRequests /\ ~sc.schemaOk

(* Mutants: the tagger accepts its own proposals, or does not flag them. *)
MergedAsAdded(sc, proposals, genre) ==
  LET changed == {t \in proposals : sc.tags[t] \notin HumanStates}
  IN  [sc EXCEPT !.tags = [t \in Tags |-> IF t \in changed THEN "added" ELSE sc.tags[t]]]

MergedUnflagged(sc, proposals, genre) ==
  LET changed == {t \in proposals : sc.tags[t] \notin HumanStates}
  IN  [sc EXCEPT !.tags = [t \in Tags |-> IF t \in changed THEN "proposed" ELSE sc.tags[t]]]

(* vision_tag_works.merge_into_sidecar: propose what no human has decided; *)
(* a genre taken over from the scores asks for review as well.             *)
Merged(sc, proposals, genre) ==
  LET changed == {t \in proposals : sc.tags[t] \notin HumanStates}
  IN  [sc EXCEPT !.tags = [t \in Tags |-> IF t \in changed THEN "proposed" ELSE sc.tags[t]],
                 !.needsReview = genre \/ changed # {} \/ @]
=============================================================================
