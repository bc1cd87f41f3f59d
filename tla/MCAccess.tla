------------------------------- MODULE MCAccess -------------------------------
(***************************************************************************)
(* An instance of Lookups for TLC: two paths below the root, a user and a     *)
(* group; and two sources with one directory d in which there is x, the second  *)
(* source in directory d of the first.                                        *)
(***************************************************************************)
EXTENDS Lookups, TLC

CONSTANTS u1, g1, x, d, root, s1, s2, c1, q1, q2

Root == <<>>
A == <<"a">>
B == <<"b">>

MCPaths == {Root, A, B}
MCAsked == {A} \X {u1}
MCEdited == ({A} \X (({"deny", "allow"} \X {g1}) \cup {<<"deny", u1>>, DenyAll}))
            \cup {<<Root, <<"deny", u1>>>>, <<Root, DenyAll>>}

-------------------------------------------------------------------------------
(* Searches for x, for x|d, and for the largest of all.                         *)

Query(terms, largest, empty) == [terms |-> terms, largest |-> largest, empty |-> empty]
MCQueries == {Query(<<x>>, FALSE, FALSE), Query(<<x, d>>, FALSE, FALSE), Query(<<Nil>>, TRUE, TRUE)}

MCPlace == [s \in {s1, s2} |-> IF s = s1 THEN <<>> ELSE <<d>>]
MCRulings == {<<<<>>, "deny">>, <<<<d>>, "all">>, <<<<d, x>>, "allow">>}

ASSUME MCSearch == F!SearchAssumption

\* In the second source there is one kind of search, no rule, and only x in its root
\* comes and goes.
MCSearches ==
  /\ \A r \in Requests : req'[r].at \in {"list", "keep", "pass"} /\ req'[r].source = s2 =>
        req'[r].scope = Top /\ ~req'[r].largest /\ req'[r].terms \in {<<x>>, <<>>}
  /\ ruled'[s2] = ruled[s2] /\ index'[s2][d] = index[s2][d]

\* A group that is there has a member; beside a search the rules are at rest, and
\* beside a shutdown there are no questions, which it has nothing to do with; it
\* comes after one change at the most.
AtRest == call = [c \in Calls |-> Idle] /\ cache = [a \in Asked |-> Nil]
MCInit == LookupsInit /\ groups[g1] # {} /\ (part = "search" => groups[g1] = Nil)
MCNext ==
  /\ LookupsNext
  /\ part = "search" => MCSearches
  /\ flush.pc # "up" \/ flush'.pc # "up" => AtRest /\ AtRest'
  /\ flush.pc = "up" /\ flush'.pc = "copied" => changes <= 1
MCSpec == MCInit /\ [][MCNext]_<<part, vars, searchVars>>

Symmetry == Permutations({q1, q2})
===============================================================================
