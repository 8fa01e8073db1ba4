----------------------------- MODULE ReviewGates -----------------------------
(***************************************************************************)
(* The gates at which the archive's growth waits for its owner: the API    *)
(* lists the candidates of the discovery frontier that wait for a decision *)
(* on the work or on its artist, from the frontier and from two append-    *)
(* only logs of decisions.  A request reads them one after another while   *)
(* others append; the last readable line about a work or an artist counts. *)
(* Requests that list change nothing, so that one stands for all.          *)
(***************************************************************************)
EXTENDS Naturals, Sequences, SequencesExt

CONSTANTS Works, Artists,
          MaxLines,    \* bound: decisions in a behaviour
          Half         \* the start of a line, without its end

GateAssumption ==
  /\ MaxLines \in Nat /\ Works \cap Artists = {}
  /\ Half \notin [qid : Works \cup Artists, decision : {"approve", "reject", "keep"}]

Statuses == {"screened", "review", "acquired", "rejected"}
Issues == {"none", "unclear", "deferred"}   \* rights_status; transfer_deferrals > 0

VARIABLES frontier,    \* candidates by work: status and issue
          readable,    \* can the frontier be read?
          known,       \* artists of the works that the archive holds
          by,          \* the artist of each work
          artistLog, workLog, lines,
          pc,          \* the request: what it does next
          allow, refused, ruled,          \* what it has read of the logs
          shown,                          \* the lists it answers with
          ruledAtFirst, standing, quiet,  \* history, see the properties
          unread          \* history: the reads of its that failed and missed something

world == <<frontier, readable, known, by>>
logs == <<artistLog, workLog, lines>>
locals == <<allow, refused, ruled>>
history == <<ruledAtFirst, standing, quiet, unread>>
vars == <<world, logs, pc, locals, shown, history>>

(* _artist_decisions, load_work_decisions: lines that are not JSON are     *)
(* skipped, the last one about a thing counts.                             *)
Says(log, q) ==
  LET at == {i \in DOMAIN log : log[i] # Half /\ log[i].qid = q}
  IN IF at = {} THEN "nothing" ELSE log[Max(at)].decision

Approved(log) == {a \in Artists : Says(log, a) = "approve"}
Refused(log) == {a \in Artists : Says(log, a) = "reject"}
RuledOn(log) == {w \in Works : Says(log, w) # "nothing"}

(* Behind half a line, a line becomes part of one that nobody can read.    *)
AppendLine(log, line) ==
  IF log # <<>> /\ Last(log) = Half THEN Front(log) ELSE Append(log, line)

CutShort(log) == IF log # <<>> /\ Last(log) = Half THEN log ELSE Append(log, Half)

NoLists == [new |-> {}, routed |-> {}, unclear |-> {}, deferred |-> {}, look |-> {}]

Init ==
  /\ frontier \in [Works -> [status : Statuses, issue : Issues]]
  /\ readable \in BOOLEAN
  /\ ~readable => frontier = [w \in Works |-> [status |-> "screened", issue |-> "none"]]
  /\ known \in SUBSET Artists
  /\ by \in [Works -> Artists]
  /\ artistLog = <<>> /\ workLog = <<>> /\ lines = 0
  /\ pc = "idle" /\ allow = {} /\ refused = {} /\ ruled = {}
  /\ shown = NoLists
  /\ ruledAtFirst = {} /\ standing = {} /\ quiet = TRUE /\ unread = {}

-----------------------------------------------------------------------------
(* The lists *)

(* Mutant: only the artists' approvals are looked at. *)
NewArtistUnrefused(allowed, no, decided) ==
  {w \in Works \ decided : by[w] \notin known \cup allowed /\ frontier[w].status = "screened"}

(* Mutant: what is in review waits for its artist, too. *)
NewArtistAnyStatus(allowed, no, decided) ==
  {w \in Works \ decided :
    by[w] \notin known \cup allowed \cup no /\ frontier[w].status \in {"screened", "review"}}

(* frontier_gates: approving the artist would release these. *)
NewArtist(allowed, no, decided) ==
  {w \in Works \ decided :
    by[w] \notin known \cup allowed \cup no /\ frontier[w].status = "screened"}

Routed(decided) == {w \in Works \ decided : frontier[w].status = "review"}

Unclear(decided) ==
  {w \in Works \ decided :
    frontier[w].issue = "unclear" /\ frontier[w].status \notin {"acquired", "rejected"}}

Deferred(decided) ==
  {w \in Works \ decided : frontier[w].issue = "deferred" /\ frontier[w].status # "acquired"}

(* works_awaiting_look *)
AwaitingLook(source, allowed, decided) ==
  CASE source = "approved" ->
         {w \in Works \ decided : frontier[w].status = "screened" /\ by[w] \in allowed}
    [] source = "routed" -> Routed(decided)
    [] source = "rights" -> Unclear(decided)

-----------------------------------------------------------------------------
(* A request.  It reads the frontier once, which other programs replace:   *)
(* that a behaviour has one frontier leaves out nothing it can see.        *)

Goto(from, to) == pc = from /\ pc' = to

(* frontier_gates of a frontier that cannot be read lists and counts none. *)
Begin ==
  /\ \/ Goto("idle", IF readable THEN "allow" ELSE "unmeasured")
     \/ Goto("idle", "allowLook")
  /\ ruledAtFirst' = RuledOn(workLog)
  /\ standing' = Approved(artistLog) \cup Refused(artistLog)
  /\ UNCHANGED <<world, logs, locals, shown, quiet, unread>>

(* A log that cannot be opened (OSError) is taken for an empty one, which  *)
(* is noticed when it is not.                                              *)
Take(read, decided, took) ==
  \/ took = decided /\ UNCHANGED unread
  \/ decided # {} /\ took = {} /\ unread' = unread \cup {read}

(* load_allowlisted_artists *)
LoadAllowed ==
  /\ Goto("allow", "ruled") \/ Goto("allowLook", "ruledLook")
  /\ Take("allow", Approved(artistLog), allow')
  /\ UNCHANGED <<world, logs, refused, ruled, shown, ruledAtFirst, standing, quiet>>

(* load_work_decisions *)
LoadRuled ==
  /\ Goto("ruled", "refused") \/ Goto("ruledLook", "look")
  /\ Take("ruled", RuledOn(workLog), ruled')
  /\ UNCHANGED <<world, logs, allow, refused, shown, ruledAtFirst, standing, quiet>>

(* load_refused_artists: the log of the artists once more. *)
LoadRefused ==
  /\ Goto("refused", "count")
  /\ Take("refused", Refused(artistLog), refused')
  /\ UNCHANGED <<world, logs, allow, ruled, shown, ruledAtFirst, standing, quiet>>

Count ==
  /\ Goto("count", "gates")
  /\ shown' = [new |-> NewArtist(allow, refused, ruled), routed |-> Routed(ruled),
               unclear |-> Unclear(ruled), deferred |-> Deferred(ruled), look |-> {}]
  /\ UNCHANGED <<world, logs, locals, history>>

Look(source) ==
  /\ Goto("look", "works")
  /\ shown' = [NoLists EXCEPT !.look =
       IF readable THEN AwaitingLook(source, allow, ruled) ELSE {}]
  /\ UNCHANGED <<world, logs, locals, history>>

Answer ==
  /\ pc \in {"unmeasured", "gates", "works"} /\ pc' = "idle"
  /\ allow' = {} /\ refused' = {} /\ ruled' = {} /\ shown' = NoLists
  /\ ruledAtFirst' = {} /\ standing' = {} /\ quiet' = TRUE /\ unread' = {}
  /\ UNCHANGED <<world, logs>>

(* Somebody else decides meanwhile; about these artists. *)
Meanwhile(artists) ==
  /\ lines < MaxLines /\ lines' = lines + 1
  /\ standing' = standing \ artists
  /\ quiet' = (pc = "idle")
  /\ UNCHANGED <<world, pc, locals, shown, ruledAtFirst, unread>>

(* artist_decision, by append_allowlist. *)
DecideArtist(a, decision) ==
  /\ Meanwhile({a})
  /\ artistLog' = AppendLine(artistLog, [qid |-> a, decision |-> decision])
  /\ UNCHANGED workLog

(* work_decision, by append_work_decision: keep, reject or force. *)
DecideWork(w) ==
  /\ Meanwhile({})
  /\ workLog' = AppendLine(workLog, [qid |-> w, decision |-> "keep"])
  /\ UNCHANGED artistLog

(* The disk is full, or the server ends: a line is begun, nobody answered. *)
AppendFails ==
  /\ Meanwhile({})
  /\ \/ artistLog' = CutShort(artistLog) /\ UNCHANGED workLog
     \/ workLog' = CutShort(workLog) /\ UNCHANGED artistLog

Next ==
  \/ \E a \in Artists, decision \in {"approve", "reject"} : DecideArtist(a, decision)
  \/ \E w \in Works : DecideWork(w)
  \/ AppendFails
  \/ Begin \/ LoadAllowed \/ LoadRuled \/ LoadRefused \/ Count \/ Answer
  \/ \E source \in {"approved", "routed", "rights"} : Look(source)

Spec == Init /\ [][Next]_vars

-----------------------------------------------------------------------------
(* Properties *)

(* "A work you have already ruled on is DECIDED. It must leave every gate  *)
(* that asks you to rule on it"; and "An artist you refused is DECIDED,    *)
(* not awaiting a decision": no list shows a work that was ruled on when   *)
(* its request began, and the gate for new artists none whose artist's     *)
(* decision stood from then on, whatever else is decided in between -      *)
(* each as far as the request could open the log it is written in.  Where  *)
(* it could not, everything decided is asked again, as decisions_sources   *)
(* tells of 2026-09-02; the answer says so beside the lists.               *)
DecidedIsNotAsked ==
  /\ "ruled" \notin unread =>
       ruledAtFirst \cap UNION {shown.new, shown.routed, shown.unclear, shown.deferred,
                                shown.look} = {}
  /\ {"allow", "refused"} \cap unread = {} => standing \cap {by[w] : w \in shown.new} = {}

(* "This gate must count exactly the population that approving an artist   *)
(* would release": unless a decision came in between or a log could not be *)
(* opened, an approval of an artist that the gate asks about, if its line  *)
(* stands by itself, brings exactly the works it lists of hers up to be    *)
(* looked at.                                                              *)
GateKeepsItsWord ==
  pc = "gates" /\ quiet /\ unread = {} =>
    LET released(log) == AwaitingLook("approved", Approved(log), RuledOn(workLog))
        approval(a) == [qid |-> a, decision |-> "approve"]
    IN \A a \in {by[w] : w \in shown.new} :
         released(Append(artistLog, approval(a))) \ released(artistLog)
           = {w \in shown.new : by[w] = a}
=============================================================================
