-------------------------------- MODULE Lookups --------------------------------
(***************************************************************************)
(* Two components side by side: the rules of one source (Access) and searches  *)
(* of indexes (Search).  They share no state here: a behaviour belongs to one   *)
(* of them, and leaves the variables of the other alone.  What rules say to a   *)
(* search is in `ruled`.                                                      *)
(***************************************************************************)
EXTENDS Access

CONSTANTS Sources, Sessions, Requests, Dirs, Top, FileNames, Queries, Limit, Bound,
          Place, Rulings, Closed
VARIABLES part, index, cached, session, ruled, req, made

F == INSTANCE Search WITH Root <- Top, Changes <- Bound, rule <- ruled, changes <- made

searchVars == <<index, cached, session, ruled, req, made>>

NoSearches ==
  /\ index = Nil /\ cached = Nil /\ session = Nil /\ ruled = Nil /\ req = Nil /\ made = Nil

LookupsInit ==
  \/ part = "rules" /\ Init /\ NoSearches
  \/ part = "search" /\ Init /\ F!Init

LookupsNext ==
  \/ part = "rules" /\ Next /\ UNCHANGED <<part, searchVars>>
  \/ part = "search" /\ F!Next /\ UNCHANGED <<part, vars>>

LookupsSpec == LookupsInit /\ [][LookupsNext]_<<part, vars, searchVars>>

(* A search that was answered in full and was not overtaken found all that was       *)
(* there throughout and matched, whatever the caches of other searches hold.        *)
FoundIfThere == part = "search" => F!FoundIfThere
===============================================================================
