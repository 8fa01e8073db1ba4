----------------------------- MODULE MCWorkQids -----------------------------
(* Small instances of WorkQids for TLC. *)
EXTENDS WorkQids, TLC

Plain == [derived |-> {}, invalid |-> {}, lists |-> {}]

Pairs == {e \in Works \X Works : e[1] # e[2]}

(* One sidecar or pair of them is not plain. *)
AllShapes ==
  {Plain} \cup {[Plain EXCEPT !.derived = {w}] : w \in Works}
    \cup {[Plain EXCEPT !.invalid = {w}] : w \in Works}
    \cup {[Plain EXCEPT !.lists = {e}] : e \in Pairs}
    \cup {[Plain EXCEPT !.lists = {e, <<e[2], e[1]>>}] : e \in Pairs}

Symmetry == Permutations(Passes) \cup Permutations(Qids)
=============================================================================
