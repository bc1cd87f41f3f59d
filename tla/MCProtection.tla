----------------------------- MODULE MCProtection -----------------------------
(* Protection on small instances. *)
EXTENDS Protection, TLC

MCKeys == Dirs \X Names
Symmetry == Permutations(Reqs) \cup Permutations(Guids)

\* Bound: two requests at a time until the clock moves, then one.
Lone == now = 1 \/ \E r \in Reqs : pc[r] = "idle"
===============================================================================
