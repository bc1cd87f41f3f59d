-------------------------------- MODULE MCLinks --------------------------------
(***************************************************************************)
(* An instance of Links for TLC: one address and two attempts; and one link to  *)
(* a directory at a time, which is moved, with a limit for all or per user.    *)
(***************************************************************************)
EXTENDS Links, TLC

CONSTANTS
  Inside,  \* whether there is something in the directory that is moved
  h1

Dir == <<"a">>
Sub == <<"a", "b">>
Other == <<"c">>
Beneath == <<"c", "b">>

MCPaths == {Dir, Sub, Other, Beneath}
MCMoves == {<<Dir, Other>>}
MCTree == IF Inside THEN {Dir, Sub} ELSE {Dir}
MCTerms == {[limit |-> 1, perUser |-> FALSE, keep |-> TRUE, brief |-> TRUE],
            [limit |-> 1, perUser |-> TRUE, keep |-> FALSE, brief |-> FALSE]}

ASSUME MCShares == SharesAssumption

(* What is lost of a link behind an excuse is excused for good: there is nothing   *)
(* to look for behind it.  A directory moves or the clock does, not both.        *)
Undisturbed ==
  part = "shares" =>
    /\ excuse[h1] \subseteq {"left"} \cup (IF Inside THEN {"inside"} ELSE {})
    /\ now = 1 \/ Dir \in files

Symmetry == Permutations(Reqs)
===============================================================================
