----------------------------- MODULE Duplicates -----------------------------
(***************************************************************************)
(* The duplicate finder: http/duplicates.go on the index, with the tempo-  *)
(* rary database of database/sql/duplicates.go and the two caches, of      *)
(* results (15 seconds) and of checksums (1 hour).                         *)
(*                                                                         *)
(* One search runs at a time; another request is refused.  The search      *)
(* copies from the index where the files of the scope are (a directory and *)
(* a position in its list), groups those of one size by similar names,     *)
(* then by checksum, and looks the files up again for the answer.  Between *)
(* these steps it holds no lock: directories are scanned, files change.    *)
(*                                                                         *)
(* A file is a name, a size, a text (what the checksum samples) and the    *)
(* second of its last change.  A name is its stem (what normalizeFilename  *)
(* leaves of it), its extension in small letters, which the stem has no    *)
(* more, and what tells it from other names with the same of both.  Files  *)
(* smaller than the size a request asks for are left out from the first.   *)
(***************************************************************************)
EXTENDS Naturals, SequencesExt

CONSTANTS
  Users,
  Dirs,        \* directories with files
  Scopes,      \* sets of directories below one that is asked about
  Texts,
  Disks,       \* what is on the disk at first: files by directory
  Denials,     \* which <<user, directory>> may be denied
  MaxGroups,   \* maxGroups
  MaxSecond,   \* bound: the clock
  Changes      \* bound: changed files, results that expire, databases that cannot be made

VARIABLES
  disk,        \* the files of a directory: a set of records
  idx,         \* their list in the index
  now,         \* the second
  denied,      \* access rules: constant
  results,     \* duplicateResultsCache: groups by scope
  sums,        \* checksumCache: texts by path, size and second
  search,      \* the search that runs, with duplicateSearchMutex, or none
  ask,         \* the requests
  changes,
  \* what the properties need to remember
  stirred,     \* directories that changed, in index or on disk, since the search began
  blurred      \* directories with a file that was changed twice in a second

vars == <<disk, idx, now, denied, results, sums, search, ask, changes, stirred, blurred>>

Unknown == {{}}                           \* no result in the cache
NoSearch == [at |-> "none", for |-> {}, scope |-> {}, locs |-> {}, sizes |-> {},
             groups |-> << >>, sum |-> {}, verified |-> {}, out |-> {}, failed |-> FALSE]
Quiet == [at |-> "idle", scope |-> {}, out |-> {}, own |-> FALSE]

\* GetDirInfo lists a directory in the order of its names.
Before(f, g) == \E i \in 1..3 : f.name[i] < g.name[i] /\ \A j \in 1..(i - 1) : f.name[j] = g.name[j]
Listing(d) == SetToSortSeq(disk[d], Before)

Init ==
  /\ disk \in Disks
  /\ idx = [d \in Dirs |-> Listing(d)]
  /\ now = 1
  /\ denied \in SUBSET Denials
  /\ results = [s \in Scopes |-> Unknown]
  /\ sums = {}
  /\ search = NoSearch
  /\ ask = [u \in Users |-> Quiet]
  /\ changes = 0
  /\ stirred = {}
  /\ blurred = {}

Change == changes < Changes /\ changes' = changes + 1

Permitted(u, d) == <<u, d>> \notin denied

-----------------------------------------------------------------------------
(* Requests: duplicatesHandler *)

Answers(u, out, own) == ask' = [ask EXCEPT ![u].at = "answered", ![u].out = out, ![u].own = own]

Ask(u, s) ==
  /\ ask[u].at = "idle"
  /\ \E d \in s : Permitted(u, d)
  /\ IF results[s] # Unknown
       THEN ask' = [ask EXCEPT ![u] = [at |-> "answered", scope |-> s, out |-> results[s], own |-> FALSE]]
       ELSE ask' = [ask EXCEPT ![u] = [Quiet EXCEPT !.at = "lock", !.scope = s]]
  /\ UNCHANGED <<disk, idx, now, denied, results, sums, search, changes, stirred, blurred>>

\* TryLock, and the cache once more.
Lock(u) ==
  LET s == ask[u].scope IN
  /\ ask[u].at = "lock"
  /\ IF search # NoSearch
       THEN /\ ask' = [ask EXCEPT ![u] = [Quiet EXCEPT !.at = "refused"]]
            /\ UNCHANGED <<search, stirred>>
       ELSE IF results[s] # Unknown
         THEN Answers(u, results[s], FALSE) /\ UNCHANGED <<search, stirred>>
         ELSE /\ ask' = [ask EXCEPT ![u].at = "search"]
              /\ search' = [NoSearch EXCEPT !.at = "stream", !.for = {u}, !.scope = s]
              /\ stirred' = {d \in Dirs : idx[d] # Listing(d)}
  /\ UNCHANGED <<disk, idx, now, denied, results, sums, changes, blurred>>

-----------------------------------------------------------------------------
(* The search: findDuplicatesInIndex *)

\* What is at a position of the index now, if it still has that size.
At(loc) ==
  IF loc.pos \in DOMAIN idx[loc.dir] /\ idx[loc.dir][loc.pos].size = loc.size
    THEN {idx[loc.dir][loc.pos]} ELSE {}

\* Into the database, in one ReadOnlyOperation.  Sizes with one file drop out.
Stream ==
  LET locs == UNION {{[dir |-> d, pos |-> i, stem |-> idx[d][i].name[1], ext |-> idx[d][i].name[2],
                       size |-> idx[d][i].size] : i \in DOMAIN idx[d]} : d \in search.scope}
  IN
  /\ search.at = "stream"
  /\ search' = [search EXCEPT !.at = "size", !.locs = locs,
       !.sizes = {l.size : l \in {m \in locs : \E n \in locs : n # m /\ n.size = m.size}}]
  /\ UNCHANGED <<disk, idx, now, denied, results, sums, ask, changes, stirred, blurred>>

\* Without its database the search finds nothing, and that is kept as well.
NewTempDB ==
  /\ Change
  /\ search.at = "stream"
  /\ search' = [search EXCEPT !.at = "end", !.failed = TRUE]
  /\ UNCHANGED <<disk, idx, now, denied, results, sums, ask, stirred, blurred>>

\* filenamesSimilar: 70 % of the letters; near is not transitive.
Similar(s, t) == s = t \/ s = t + 1 \/ t = s + 1

\* Mutant: the extension does not matter.
JoinOfAnyExtension(groups, loc) ==
  LET near == {i \in DOMAIN groups : Similar(groups[i][1].stem, loc.stem)} IN
  IF near = {} THEN Append(groups, <<loc>>)
  ELSE LET i == CHOOSE j \in near : \A k \in near : j <= k IN [groups EXCEPT ![i] = Append(@, loc)]

\* groupLocationsByFilenameWithMetadata: each joins the first group whose first
\* name has its own extension and a similar stem.
Join(groups, loc) ==
  LET near == {i \in DOMAIN groups :
                 groups[i][1].ext = loc.ext /\ Similar(groups[i][1].stem, loc.stem)} IN
  IF near = {} THEN Append(groups, <<loc>>)
  ELSE LET i == CHOOSE j \in near : \A k \in near : j <= k IN [groups EXCEPT ![i] = Append(@, loc)]

\* GetFilesBySizeForDuplicates orders by the normalized name; the index must
\* still have a file of that size there.
ByName(locs) ==
  SetToSortSeq(locs, LAMBDA l, m : l.stem < m.stem
                       \/ (l.stem = m.stem /\ (l.pos < m.pos \/ (l.pos = m.pos /\ l.dir < m.dir))))
CandidatesOfThree(size) ==
  SelectSeq(FoldLeft(Join, << >>, ByName({l \in search.locs : l.size = size /\ At(l) # {}})),
            LAMBDA g : Len(g) > 2)
\* A group has two files at least.
Candidates(size) ==
  SelectSeq(FoldLeft(Join, << >>, ByName({l \in search.locs : l.size = size /\ At(l) # {}})),
            LAMBDA g : Len(g) >= 2)

\* On to the next group of similar names, the next size, or the end.
Proceed(s) ==
  [s EXCEPT !.sum = {},
            !.at = IF Cardinality(s.out) >= MaxGroups THEN "end"
                   ELSE IF s.groups = << >> THEN "size" ELSE "sum"]

\* Sizes from the largest to the smallest.
Size ==
  /\ search.at = "size"
  /\ IF search.sizes = {}
       THEN search' = [search EXCEPT !.at = "end"]
       ELSE LET s == CHOOSE m \in search.sizes : \A n \in search.sizes : n <= m IN
            search' = Proceed([search EXCEPT !.sizes = @ \ {s}, !.groups = Candidates(s)])
  /\ UNCHANGED <<disk, idx, now, denied, results, sums, ask, changes, stirred, blurred>>

SumKeyUntimed(d, f) == <<d, f.name, f.size, 1>>
\* The key of a checksum
SumKey(d, f) == <<d, f.name, f.size, f.time>>

\* groupLocationsByChecksumFromSQL and computePartialChecksum, for one file: as
\* the index describes it, and as it was or is on the disk.
Sum ==
  LET loc == Head(search.groups)[Cardinality(search.sum) + 1]
      f == CHOOSE g \in At(loc) : TRUE
      known == {k \in sums : k.key = SumKey(loc.dir, f)}
      onDisk == {g \in disk[loc.dir] : g.name = f.name}
      texts == {k.text : k \in IF known # {} THEN known ELSE onDisk}
  IN
  /\ search.at = "sum" /\ Cardinality(search.sum) < Len(Head(search.groups))
  /\ IF At(loc) = {} \/ texts = {}
       THEN /\ search' = [search EXCEPT !.sum = @ \cup {[loc |-> loc, text |-> {}]}]
            /\ UNCHANGED sums
       ELSE /\ search' = [search EXCEPT !.sum = @ \cup {[loc |-> loc, text |-> texts]}]
            /\ sums' = sums \cup {[key |-> SumKey(loc.dir, f), text |-> t] : t \in texts}
  /\ UNCHANGED <<disk, idx, now, denied, results, ask, changes, stirred, blurred>>

\* All have theirs: those with equal checksums are verified together.
Verify ==
  LET same(t) == {r.loc : r \in {q \in search.sum : q.text = {t}}}
      verified == {same(t) : t \in {u \in Texts : Cardinality(same(u)) >= 2}}
  IN
  /\ search.at = "sum" /\ Cardinality(search.sum) = Len(Head(search.groups))
  /\ LET s == [search EXCEPT !.at = "collect", !.sum = {}, !.groups = Tail(@), !.verified = verified] IN
     search' = IF verified = {} THEN Proceed(s) ELSE s
  /\ UNCHANGED <<disk, idx, now, denied, results, sums, ask, changes, stirred, blurred>>

\* What is at those positions by now, as far as it has the size and the user
\* may see it.
Collect(g) ==
  LET u == CHOOSE v \in search.for : TRUE
      found == UNION {{<<l.dir, f>> : f \in At(l)} : l \in {m \in g : Permitted(u, m.dir)}}
  IN
  /\ search.at = "collect" /\ g \in search.verified
  /\ LET s == [search EXCEPT !.verified = @ \ {g},
                    !.out = IF Cardinality(found) >= 2
                              THEN @ \cup {{<<p[1], p[2].name>> : p \in found}} ELSE @] IN
     search' = IF s.verified = {} THEN Proceed(s) ELSE s
  /\ UNCHANGED <<disk, idx, now, denied, results, sums, ask, changes, stirred, blurred>>

\* The result is kept for whoever asks for this scope.
Finish ==
  LET u == CHOOSE v \in search.for : TRUE IN
  /\ search.at = "end"
  /\ results' = [results EXCEPT ![search.scope] = search.out]
  /\ Answers(u, search.out, TRUE)
  /\ search' = NoSearch
  /\ UNCHANGED <<disk, idx, now, denied, sums, changes, stirred, blurred>>

-----------------------------------------------------------------------------
(* Meanwhile *)

Stir(d) == stirred' = stirred \cup {d}

Tick ==
  /\ now < MaxSecond
  /\ now' = now + 1
  /\ UNCHANGED <<disk, idx, denied, results, sums, search, ask, changes, stirred, blurred>>

\* A file gets another text of the same size.
Edit(d, f, t) ==
  /\ Change
  /\ f \in disk[d] /\ t # f.text
  /\ disk' = [disk EXCEPT ![d] = (@ \ {f}) \cup {[f EXCEPT !.text = t, !.time = now]}]
  /\ blurred' = IF f.time = now THEN blurred \cup {d} ELSE blurred
  /\ Stir(d)
  /\ UNCHANGED <<idx, now, denied, results, sums, search, ask>>

RemoveFile(d, f) ==
  /\ Change
  /\ f \in disk[d]
  /\ disk' = [disk EXCEPT ![d] = @ \ {f}]
  /\ Stir(d)
  /\ UNCHANGED <<idx, now, denied, results, sums, search, ask, blurred>>

\* The index follows; positions shift.
Scan(d) ==
  /\ idx[d] # Listing(d)
  /\ idx' = [idx EXCEPT ![d] = Listing(d)]
  /\ Stir(d)
  /\ UNCHANGED <<disk, now, denied, results, sums, search, ask, changes, blurred>>

Expire(s) ==
  /\ Change
  /\ results[s] # Unknown
  /\ results' = [results EXCEPT ![s] = Unknown]
  /\ UNCHANGED <<disk, idx, now, denied, sums, search, ask, stirred, blurred>>

Next ==
  \/ \E u \in Users : Lock(u) \/ \E s \in Scopes : Ask(u, s)
  \/ NewTempDB \/ Stream \/ Size \/ Sum \/ Verify \/ Finish
  \/ \E g \in search.verified : Collect(g)
  \/ Tick
  \/ \E d \in Dirs : \/ Scan(d)
                     \/ \E f \in disk[d] : RemoveFile(d, f) \/ \E t \in Texts : Edit(d, f, t)
  \/ \E s \in Scopes : Expire(s)

Spec == Init /\ [][Next]_vars

-----------------------------------------------------------------------------
(* Properties *)

FileOf(p) == CHOOSE f \in disk[p[1]] : f.name = p[2]
Calm(d) == d \notin stirred \cup blurred
\* Where the files are that the search could find
Pairs(s) == UNION {{<<d, f.name>> : f \in disk[d]} : d \in s}

\* The files of a group have one size, one text and one extension: checksums kept
\* from an earlier search are those of the files as they are.  Not said of
\* directories that changed while the search ran, or of a file changed twice in a
\* second without changing its size.
GroupsHold ==
  search.at = "end" =>
    \A g \in search.out : \A p, q \in g :
      (Calm(p[1]) /\ Calm(q[1])) => /\ FileOf(p).text = FileOf(q).text
                                    /\ FileOf(p).size = FileOf(q).size
                                    /\ p[2][2] = q[2][2]

\* Two equal files of equal stem and extension, both for the user to see, are found
\* and told together, however many names are similar to theirs and in whatever
\* order they come, unless there are too many groups.
TwinsFound ==
  (search.at = "end" /\ ~search.failed /\ Cardinality(search.out) < MaxGroups) =>
    \A p, q \in Pairs(search.scope) :
      (/\ p # q /\ p[2][1] = q[2][1] /\ p[2][2] = q[2][2]
       /\ \A u \in search.for : Permitted(u, p[1]) /\ Permitted(u, q[1])
       /\ \A d \in search.scope : Calm(d)
       /\ FileOf(p).text = FileOf(q).text /\ FileOf(p).size = FileOf(q).size)
      => \E g \in search.out : {p, q} \subseteq g
=============================================================================
