-------------------------------- MODULE Search --------------------------------
(***************************************************************************)
(* Searches of the index (backend/http/search.go, indexing/search.go).       *)
(*                                                                          *)
(* A search registers with its session, takes the list of directories,       *)
(* which is kept for 15 seconds, and goes through them once for every term   *)
(* under the lock of the index; in every pass it gives up when the session    *)
(* has begun a newer search.  Scans, moves and deletions change the index    *)
(* between its steps, and administrators the rules.  The random mark that a    *)
(* search leaves with its session is taken to be unique.                      *)
(*                                                                          *)
(* The lists of all sources are in one cache, under the path of the source and *)
(* the scope run together; a source may lie in a directory of another one.     *)
(***************************************************************************)
EXTENDS Naturals, FiniteSets, Sequences

CONSTANTS
  Nil,
  Sources, Sessions,
  Place,              \* idx.Path, as a sequence of names; no source is the root of the disk
  Requests,
  Dirs, Root,         \* directories; all but Root are below it, and none below another
  FileNames,
  Queries,            \* terms, largest, empty; a term is found in the name that it is
  Limit,              \* DefaultSearchResults
  Rulings,            \* paths and the words that administrators set for them
  Closed,             \* the sources with denyByDefault
  Changes             \* bound: what scans and administrators do

VARIABLES
  index,       \* idx.Directories, by source: the names of the files, Nil for no directory
  cached,      \* SearchResultsCache, with the source and scope that each list is of
  session,     \* sessionInProgress
  rule,        \* what the rules of each source say of the user
  req, changes

vars == <<index, cached, session, rule, req, changes>>

Whole == <<>>        \* the scope "" of the empty query
Scopes == Dirs \cup {Whole}
DirItem(d) == [dir |-> d, name |-> Nil]
Items == [dir : Dirs, name : FileNames \cup {Nil}]

\* A path that names the user in its deny list, in its allow list, or has DenyAll.  One
\* word is enough: a denial goes first, and DenyAll counts where no rule names the user.
Words == {"deny", "allow", "all"}
Ruled == {e[1] : e \in Rulings}

SearchAssumption ==
  /\ Root \in Dirs /\ Whole \notin Dirs
  /\ IsFiniteSet(Items)
  /\ Place \in [Sources -> Seq(Dirs)]
  /\ Rulings \subseteq Seq(Dirs \cup FileNames) \X (Words \cup {Nil})
  /\ Nil \notin Words
  /\ Queries \subseteq [terms : Seq(Dirs \cup FileNames \cup {Nil}), largest : BOOLEAN, empty : BOOLEAN]
  /\ Limit \in Nat /\ Changes \in Nat

Below(scope, d) == scope \in {Root, d, Whole}
In(s, i) == index[s][i.dir] # Nil /\ (i.name = Nil \/ i.name \in index[s][i.dir])
\* ContainsSearchTerm; the search for the largest looks at sizes, and leaves its scope out.
Matches(q, term, i) ==
  IF q.largest THEN i # DirItem(q.scope)
  ELSE term = (IF i.name = Nil THEN i.dir ELSE i.name)

\* Paths below the source, as sequences of names.
Rel(d) == IF d \in {Root, Whole} THEN <<>> ELSE <<d>>
PathOf(i) == Rel(i.dir) \o (IF i.name = Nil THEN <<>> ELSE <<i.name>>)
Above(p, q) == Len(p) <= Len(q) /\ \A n \in 1..Len(p) : p[n] = q[n]

\* What Access answers: the nearest rule that names the user; or else DenyAll, or the default.
Permitted(s, path) ==
  LET up == {p \in Ruled : rule[s][p] # Nil /\ Above(p, path)}
      naming == {p \in up : rule[s][p] # "all"}
  IN  IF naming # {} THEN \E p \in naming : rule[s][p] = "allow" /\ \A o \in naming : Above(o, p)
      ELSE up = {} /\ s \notin Closed

\* Mutant: one list for a source.
CacheKeyOfSource(s, scope) == <<Place[s], TRUE>>

\* idx.Path + scope; every scope but "" ends with a slash.
CacheKey(s, scope) == <<Place[s] \o Rel(scope), scope # Whole>>
Keys == {CacheKey(s, p) : s \in Sources, p \in Scopes}
ListOf(q) == cached[CacheKey(q.source, q.list)]

NoSearch == [at |-> "idle"]
Init ==
  /\ index = [s \in Sources |-> [d \in Dirs |-> IF d = Root THEN {} ELSE FileNames]]
  /\ cached = [k \in Keys |-> Nil]
  /\ session = [c \in Sessions |-> Nil]
  /\ rule = [s \in Sources |-> [p \in Ruled |-> Nil]]
  /\ req = [r \in Requests |-> NoSearch]
  /\ changes = 0

\* A list that is kept of a scope of the source lacks a directory, or is about to.
Overlooked(s, d) ==
  \/ \E k \in Keys : /\ cached[k] # Nil /\ cached[k].source = s
                     /\ Below(cached[k].scope, d) /\ d \notin cached[k].dirs
  \/ \E r \in Requests : req[r].at = "keep" /\ req[r].source = s /\ Below(req[r].list, d) /\ d \notin req[r].dirs

-----------------------------------------------------------------------------
(* A search *)

\* prepSearchOptions, and the beginning of Search
Begin(r, s, c, scope, query) ==
  LET q == [at |-> "list", source |-> s, session |-> c, scope |-> scope, largest |-> query.largest,
            list |-> IF query.empty THEN Whole ELSE scope, terms |-> query.terms,
            dirs |-> {}, found |-> {}, count |-> 0, over |-> FALSE,
            astray |-> FALSE, wanted |-> {}]
  IN
  /\ req[r].at = "idle"
  /\ session' = [session EXCEPT ![c] = r]
  /\ req' = [w \in Requests |->
       IF w = r
         THEN [q EXCEPT !.wanted = {i \in Items : /\ In(s, i) /\ Below(scope, i.dir) /\ ~Overlooked(s, i.dir)
                                                  /\ \E n \in DOMAIN q.terms : Matches(q, q.terms[n], i)}]
       ELSE IF req[w].at \notin {"idle", "done"} /\ req[w].session = c THEN [req[w] EXCEPT !.over = TRUE]
       ELSE req[w]]
  /\ UNCHANGED <<index, cached, rule, changes>>

\* The list is looked up; without one it is made, under the lock, and then kept.
GetDirs(r) ==
  LET q == req[r] IN
  /\ q.at = "list"
  /\ req' = [req EXCEPT ![r] =
       IF ListOf(q) # Nil
       THEN [q EXCEPT !.at = "pass", !.dirs = ListOf(q).dirs, !.astray = ListOf(q).source # q.source]
       ELSE [q EXCEPT !.at = "keep", !.dirs = {d \in Dirs : index[q.source][d] # Nil /\ Below(q.list, d)}]]
  /\ UNCHANGED <<index, cached, session, rule, changes>>

Keep(r) ==
  LET q == req[r] IN
  /\ q.at = "keep"
  /\ cached' = [cached EXCEPT ![CacheKey(q.source, q.list)] =
                 [source |-> q.source, scope |-> q.list, dirs |-> q.dirs]]
  /\ req' = [req EXCEPT ![r].at = "pass"]
  /\ UNCHANGED <<index, session, rule, changes>>

Done(q, found) == [q EXCEPT !.at = "done", !.found = found, !.dirs = {}, !.terms = <<>>, !.list = Nil]
Superseded(q, r) == session[q.session] # r

\* One pass.  The directories are in no order: at the limit it may have found any of them.
Pass(r) ==
  LET q == req[r]
      seen == {i \in Items : i.dir \in q.dirs /\ In(q.source, i)}
      hits == {i \in seen : Matches(q, Head(q.terms), i)}
      dirHits == {i \in hits : i.name = Nil}
      room == Limit - q.count
      stop == Done(q, {})
  IN
  /\ q.at = "pass" /\ q.terms # <<>>
  /\ IF Superseded(q, r) /\ \E i \in seen : i.name # Nil
       THEN \/ req' = [req EXCEPT ![r] = stop]
            \/ /\ room <= Cardinality(dirHits)          \* the limit came first
               /\ \E some \in SUBSET dirHits :
                    /\ Cardinality(some) = room
                    /\ req' = [req EXCEPT ![r] = [q EXCEPT !.terms = Tail(@), !.found = @ \cup some, !.count = Limit]]
       ELSE \E some \in SUBSET hits :
              /\ some = hits \/ Cardinality(some) = room
              /\ Cardinality(some) <= room
              /\ req' = [req EXCEPT ![r] = [q EXCEPT !.terms = Tail(@), !.found = @ \cup some, !.count = @ + Cardinality(some)]]
  /\ UNCHANGED <<index, cached, session, rule, changes>>

\* The filter of searchHandler.  Results have whole paths, and the scope is put before
\* them again: below another scope than the root, the rules of another path are asked.
Question(q, i) == Rel(q.scope) \o PathOf(i)

\* There these are the same if no rule lies below the scope.
Plain(q) == q.scope = Root \/ \A p \in Ruled : rule[q.source][p] # Nil /\ Above(Rel(q.scope), p) => p = Rel(q.scope)

Answer(r) ==
  LET q == req[r] IN
  /\ q.at = "pass" /\ q.terms = <<>>
  /\ req' = [req EXCEPT ![r] =
       [Done(q, {i \in q.found : Permitted(q.source, Question(q, i))})
          EXCEPT !.wanted = {i \in @ : Plain(q) /\ Permitted(q.source, PathOf(i))}]]
  /\ UNCHANGED <<index, cached, session, rule, changes>>

-----------------------------------------------------------------------------
(* The rest *)

Change == changes < Changes /\ changes' = changes + 1

\* What has not been there all the time is not wanted any more, nor is anything when the
\* rules change, which are asked for one result after the other.
Still(keeps(_, _)) ==
  req' = [r \in Requests |->
    IF req[r].at = "idle" THEN req[r] ELSE
      [req[r] EXCEPT !.wanted = IF req[r].at = "done" THEN @ ELSE {i \in @ : keeps(req[r].source, i)}]]

\* A scan, an upload, a move or a deletion
Reindex(s, d, names) ==
  /\ index[s][d] # names /\ (d = Root => names # Nil)
  /\ Change
  /\ index' = [index EXCEPT ![s][d] = names]
  /\ Still(LAMBDA source, i : source # s \/ i.dir # d \/ (names # Nil /\ (i.name = Nil \/ i.name \in names)))
  /\ UNCHANGED <<cached, session, rule>>

Rule(s, p, word) ==
  /\ rule[s][p] # word
  /\ Change
  /\ rule' = [rule EXCEPT ![s][p] = word]
  /\ Still(LAMBDA source, i : source # s)
  /\ UNCHANGED <<index, cached, session>>

\* 15 seconds later
Expire(k) ==
  /\ cached[k] # Nil
  /\ cached' = [cached EXCEPT ![k] = Nil]
  /\ UNCHANGED <<index, session, rule, req, changes>>

Next ==
  \/ \E r \in Requests :
       \/ GetDirs(r) \/ Keep(r) \/ Pass(r) \/ Answer(r)
       \/ \E s \in Sources, c \in Sessions, p \in Dirs, q \in Queries : Begin(r, s, c, p, q)
  \/ \E s \in Sources :
       \/ \E d \in Dirs : \E names \in {Nil} \cup SUBSET FileNames : Reindex(s, d, names)
       \/ \E e \in Rulings : Rule(s, e[1], e[2])
  \/ \E k \in Keys : Expire(k)

Spec == Init /\ [][Next]_vars

-----------------------------------------------------------------------------
(* Properties *)

\* Unless it was superseded or reached the limit, a search finds all that matches and was
\* in the index from its beginning to its end, in directories that are older than the lists
\* that are kept, and that the rules permit, which stayed the same: whatever scans and other
\* searches do.  Below another scope than the root, this is so where no rule lies below the
\* scope.  A search that goes by a list of another source promises nothing; but it does not,
\* unless one of the two sources lies in the other.
FoundIfThere ==
  \A r \in Requests :
    /\ (req[r].at = "done" /\ ~req[r].over /\ ~req[r].astray /\ req[r].count < Limit) =>
          req[r].wanted \subseteq req[r].found
    /\ (req[r].at # "idle" /\ req[r].astray) =>
          \E s \in Sources : /\ s # req[r].source
                             /\ Above(Place[s], Place[req[r].source]) \/ Above(Place[req[r].source], Place[s])
=============================================================================
