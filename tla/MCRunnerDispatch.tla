-------------------------- MODULE MCRunnerDispatch --------------------------
(* Small instances of RunnerDispatch for TLC. *)
EXTENDS RunnerDispatch, TLC

(* An agent that failed, did nothing, could not be measured, or finished. *)
SomeOutcomes ==
  {[ok |-> FALSE, work |-> "unset", incomplete |-> "unset"],
   [ok |-> TRUE, work |-> "no", incomplete |-> "yes"],
   [ok |-> TRUE, work |-> "unset", incomplete |-> "unset"],
   [ok |-> TRUE, work |-> "yes", incomplete |-> "no"]}

Symmetry == Permutations(Calls)

(* What no later step and no property reads is left out of the state.      *)
Relevant ==
  <<head, reservation, ReadRecord, inflight,
    [c \in Calls |->
      LET busy == pc[c] # "idle" \/ ~Unused(c)
      IN <<pc[c], rec[c], IF busy THEN seen[c] ELSE 0,
           IF reservation.id = c \/ pc[c] \in {"running", "post", "recheck"} THEN begun[c] ELSE 0,
           IF ReadRecord.id = c \/ pc[c] = "record" THEN ended[c] ELSE 0,
           busy /\ c \in challenged, busy /\ c \in holders, ~Unused(c) /\ c \in refunded>>],
    ledger, runs, overlap, landed>>
=============================================================================
