-------------------------------- MODULE Access --------------------------------
(***************************************************************************)
(* Access rules of one source (backend/database/access/access.go): the rules *)
(* and groups in memory under one RWMutex, their copy in BoltDB, the cache   *)
(* of answers, and Permitted, which takes the lock anew for every directory  *)
(* it looks at and reads the rules it found without it.                      *)
(*                                                                          *)
(* A rule is an object: a directory that is renamed takes its rule along,    *)
(* and a call of Permitted may still read one that is in the map no more.    *)
(* What a rule says is a set of marks: who is denied, who is allowed, and    *)
(* DenyAll.                                                                 *)
(***************************************************************************)
EXTENDS Naturals, Sequences

CONSTANTS
  Users, Groups,
  Paths,          \* the paths rules are made for: sequences of names, <<>> the root
  Ids,            \* identities of rule objects: a bound on those alive at a time
  Calls,          \* slots for calls of Permitted
  Asked,          \* the pairs of a path and a user that are asked about
  Edited,         \* the pairs of a path and a mark that administrators edit
  DenyByDefault,  \* the setting of the source
  Nil,            \* "no value"
  MaxChanges      \* bound on the changes of rules and groups

VARIABLES
  rules,     \* AllRules of the source: the object at each path
  heap,      \* what each object says
  groups,    \* Groups: the members of each group, Nil for no such group
  saved,     \* what BoltDB holds of both
  cache,     \* permissionCache
  moves,     \* renames whose UpdateRules has yet to run
  call,      \* the calls of Permitted
  changes,   \* how many changes were made (bound)
  flush,     \* the save at shutdown: where it is, and the copy it is to write
  told,      \* history: what administrators were told of each mark of each path
  dirty,     \* history: memory changed since it was last saved
  late,      \* history: paths, and Nil for groups, that changed while a flush had its copy
  suspect    \* history: cached answers that something has overtaken

vars == <<rules, heap, groups, saved, cache, moves, call, changes, flush, told, dirty, late, suspect>>

DenyAll == <<"all", Nil>>
Marks == ({"deny", "allow"} \X (Users \cup Groups)) \cup {DenyAll}

ASSUME AccessAssumption ==
  /\ Paths \subseteq Seq(STRING) /\ <<>> \in Paths
  /\ \A p \in Paths : p # <<>> => SubSeq(p, 1, Len(p) - 1) \in Paths
  /\ Asked \subseteq Paths \X Users /\ Edited \subseteq Paths \X Marks
  /\ DenyByDefault \in BOOLEAN /\ MaxChanges \in Nat
  /\ Users \cap Groups = {}
  /\ Nil \notin Ids /\ Nil \notin BOOLEAN /\ \A s \in SUBSET Users : s # Nil
  /\ \E f \in [Paths -> Ids] : \A p, q \in Paths : f[p] = f[q] => p = q

-------------------------------------------------------------------------------
(* What the rules say. *)

\* q is p or a directory above it.
Above(q, p) == Len(q) <= Len(p) /\ q = SubSeq(p, 1, Len(q))

\* The user and the groups it is in.
Who(u) == {u} \cup {g \in Groups : groups[g] # Nil /\ u \in groups[g]}

Says(p) == IF rules[p] = Nil THEN {} ELSE heap[rules[p]]

\* The rule names the user, itself or by a group, in one of the lists given.
Names(rule, u, lists) == \E l \in lists, w \in Who(u) : <<l, w>> \in rule

(* What Permitted is to answer: the nearest rule that names the user decides,  *)
(* a denial first; then any DenyAll on the way up; then the source's default.  *)
Permitted(p, u) ==
  LET up == {q \in Paths : Above(q, p)}
      naming == {q \in up : Names(Says(q), u, {"deny", "allow"})}
  IN  IF naming # {}
      THEN \A q \in naming : (\A n \in naming : Above(n, q)) => ~Names(Says(q), u, {"deny"})
      ELSE ~DenyByDefault /\ \A q \in up : DenyAll \notin Says(q)

Now == [x \in Asked |-> Permitted(x[1], x[2])]

\* The state as it is saved: a path without a rule says nothing.
Stored == [rules |-> [p \in Paths |-> Says(p)], groups |-> groups]

NoFlush == [pc |-> "up", copy |-> Nil]

Blank == [rules |-> [p \in Paths |-> {}], groups |-> [g \in Groups |-> Nil]]
GroupMap == [Groups -> {Nil} \cup SUBSET Users]
AllOut == [m \in Marks |-> "out"]
Fresh(pc, ask, level, seen) ==
  [pc |-> pc, ask |-> ask, level |-> level, found |-> <<>>, at |-> 1,
   verdict |-> FALSE, seen |-> seen, churn |-> 0]
Idle == Fresh("idle", Nil, Nil, {})

Init ==
  /\ groups \in GroupMap
  /\ rules = [p \in Paths |-> Nil] /\ heap = [i \in Ids |-> {}]
  /\ saved = [Blank EXCEPT !.groups = groups]
  /\ cache = [x \in Asked |-> Nil] /\ suspect = {}
  /\ moves = {} /\ call = [c \in Calls |-> Idle]
  /\ changes = 0 /\ told = [p \in Paths |-> AllOut] /\ dirty = FALSE
  /\ flush = NoFlush /\ late = {}

-------------------------------------------------------------------------------
(* Parts of a change: all of them happen under the lock. *)

Bounded == changes < MaxChanges /\ changes' = changes + 1

\* History: what a flush that has its copy is about to set back, and what a save by
\* anyone else brings up to date.
Overtake(ok) ==
  late' = IF flush.pc = "copied"
          THEN late \cup {p \in Paths : Says(p)' # Says(p)} \cup (IF groups' # groups THEN {Nil} ELSE {})
          ELSE IF ok THEN {} ELSE late

\* SaveToDB under the lock: rules and groups, whole, or an error.
SaveToDB(ok) ==
  /\ IF ok THEN saved' = Stored' /\ dirty' = FALSE
           ELSE saved' = saved /\ dirty' = TRUE
  /\ Overtake(ok)
  /\ UNCHANGED flush

ClearAllCaches == cache' = [x \in Asked |-> Nil] /\ suspect' = {}

\* The change leaves the caches alone.
KeepCaches == cache' = cache /\ suspect' = {x \in Asked : cache[x] # Nil}

\* History: a call under way sees the answer change; small is a change of one
\* mark of one path.
Disturb(small) ==
  call' = [c \in Calls |->
    IF call[c].pc = "idle" THEN call[c]
    ELSE [call[c] EXCEPT !.seen = @ \cup {Now'[call[c].ask]},
                         !.churn = IF small /\ @ = 0 THEN 1 ELSE 2]]

\* History: an answer that could not be saved promises nothing.
Tell(p, m, word, ok) ==
  told' = [told EXCEPT ![p][m] = IF ok THEN word ELSE "unknown"]

Live == {rules[p] : p \in Paths} \cup
        UNION {{call[c].found[n] : n \in DOMAIN call[c].found} : c \in Calls}
Free == Ids \ Live

-------------------------------------------------------------------------------
(* DenyUser, AllowUser, DenyGroup, AllowGroup, DenyAll: a mark that is there   *)
(* already is an error and changes nothing, and so is a group nobody made.     *)
AddMark(p, m, ok) ==
  /\ Bounded
  /\ m \notin Says(p)
  /\ m[2] \in Groups => groups[m[2]] # Nil
  /\ IF rules[p] = Nil
     THEN /\ Free # {}
          /\ LET i == CHOOSE i \in Free : TRUE
             IN  rules' = [rules EXCEPT ![p] = i] /\ heap' = [heap EXCEPT ![i] = {m}]
     ELSE rules' = rules /\ heap' = [heap EXCEPT ![rules[p]] = @ \cup {m}]
  /\ UNCHANGED <<groups, moves>>
  /\ ClearAllCaches /\ SaveToDB(ok)
  /\ Disturb(TRUE) /\ Tell(p, m, "in", ok)

\* Mutant: a rule that says nothing any more is left where it was.
TakeOutEmpty(p, m) ==
  /\ heap' = [heap EXCEPT ![rules[p]] = @ \ {m}]
  /\ rules' = rules

\* The object at p without the mark; a rule whose four lists are empty goes.
TakeOut(p, m) ==
  LET rest == Says(p) \ {m}
  IN  /\ heap' = [heap EXCEPT ![rules[p]] = rest]
      /\ rules' = IF rest \subseteq {DenyAll} THEN [rules EXCEPT ![p] = Nil] ELSE rules

(* RemoveAllowUser, RemoveAllowGroup, RemoveDenyUser, RemoveDenyGroup,         *)
(* RemoveDenyAll, when the mark is there.                                     *)
RemoveMark(p, m, ok) ==
  /\ Bounded
  /\ m \in Says(p)
  /\ TakeOut(p, m)
  /\ UNCHANGED <<groups, moves>>
  /\ ClearAllCaches /\ SaveToDB(ok)
  /\ Disturb(Says(p) \ {m} # {DenyAll}) /\ Tell(p, m, "out", ok)

(* The same when it is not there: the rule is looked at for empty lists even   *)
(* so, but no cache is cleared, nothing is saved, and the answer is "not found". *)
RemoveMissing(p, m) ==
  /\ Bounded
  /\ rules[p] # Nil /\ m \notin Says(p) /\ Says(p) \subseteq {DenyAll}
  /\ rules' = [rules EXCEPT ![p] = Nil]
  /\ UNCHANGED <<heap, groups, saved, moves, flush, told>>
  /\ KeepCaches /\ dirty' = TRUE /\ Overtake(FALSE)
  /\ Disturb(TRUE)

\* Mutant: the user or group goes from both lists.
CascadeBoth(p, m, ok) ==
  LET both == {"deny", "allow"} \X {m[2]}
      hit == {q \in Paths : Above(p, q) /\ m \in Says(q)}
  IN  /\ Bounded
      /\ m # DenyAll /\ hit # {}
      /\ heap' = [i \in Ids |-> IF \E q \in hit : rules[q] = i THEN heap[i] \ both ELSE heap[i]]
      /\ rules' = [q \in Paths |-> IF q \in hit /\ Says(q) \subseteq both THEN Nil ELSE rules[q]]
      /\ UNCHANGED <<groups, moves>>
      /\ ClearAllCaches /\ SaveToDB(ok)
      /\ Disturb(\E q \in hit : hit = {q})
      /\ told' = [q \in Paths |-> IF q \in hit
                    THEN [told[q] EXCEPT ![m] = IF ok THEN "out" ELSE "unknown"]
                    ELSE told[q]]

\* RemoveUserCascade, RemoveGroupCascade: from the path and everything below it.
Cascade(p, m, ok) ==
  LET hit == {q \in Paths : Above(p, q) /\ m \in Says(q)}
      left(q) == Says(q) \ {m}
  IN  /\ Bounded
      /\ m # DenyAll /\ hit # {}
      /\ heap' = [i \in Ids |-> IF \E q \in hit : rules[q] = i THEN heap[i] \ {m} ELSE heap[i]]
      /\ rules' = [q \in Paths |-> IF q \in hit /\ left(q) = {} THEN Nil ELSE rules[q]]
      /\ UNCHANGED <<groups, moves>>
      /\ ClearAllCaches /\ SaveToDB(ok)
      /\ Disturb(\E q \in hit : hit = {q})
      /\ told' = [q \in Paths |-> IF q \in hit
                    THEN [told[q] EXCEPT ![m] = IF ok THEN "out" ELSE "unknown"]
                    ELSE told[q]]

-------------------------------------------------------------------------------
(* Rules that change their path.  to maps each rule that moves to its new path, *)
(* where it replaces the rule that is there.                                  *)
Moved(f, to, none) ==
  [q \in Paths |->
    IF \E p \in DOMAIN to : to[p] = q THEN f[CHOOSE p \in DOMAIN to : to[p] = q]
    ELSE IF q \in DOMAIN to THEN none ELSE f[q]]

\* Mutant: the answers for the old paths stay in the cache.
RelocateCached(to, ok) ==
  /\ rules' = Moved(rules, to, Nil)
  /\ UNCHANGED <<heap, groups, cache, suspect>>
  /\ SaveToDB(ok)
  /\ Disturb(FALSE)
  /\ told' = IF ok THEN Moved(told, to, AllOut)
             ELSE [q \in Paths |-> [m \in Marks |-> "unknown"]]

Relocate(to, ok) ==
  /\ rules' = Moved(rules, to, Nil)
  /\ UNCHANGED <<heap, groups>>
  /\ ClearAllCaches /\ SaveToDB(ok)
  /\ Disturb(FALSE)
  /\ told' = IF ok THEN Moved(told, to, AllOut)
             ELSE [q \in Paths |->
                    IF q \in DOMAIN to \/ \E p \in DOMAIN to : to[p] = q
                    THEN [m \in Marks |-> "unknown"] ELSE told[q]]

\* UpdateRulePath, by an administrator: this one rule.
UpdateRulePath(p, q, ok) ==
  /\ Bounded
  /\ rules[p] # Nil
  /\ Relocate([s \in {p} |-> q], ok)
  /\ UNCHANGED moves

\* MoveResource within the source: what lies at p now lies at q, and a goroutine
\* is to follow with UpdateRules.  Nothing is moved into itself.
Rename(p, q) ==
  /\ Bounded
  /\ ~Above(p, q) /\ ~Above(q, p) /\ <<p, q>> \notin moves
  /\ moves' = moves \cup {<<p, q>>}
  /\ UNCHANGED <<rules, heap, groups, saved, cache, call, flush, told, dirty, late, suspect>>

\* UpdateRules: the rule of the path and those of everything below it.
UpdateRules(p, q, ok) ==
  LET to == [s \in {s \in Paths : Above(p, s) /\ rules[s] # Nil} |->
               q \o SubSeq(s, Len(p) + 1, Len(s))]
  IN  /\ <<p, q>> \in moves
      /\ moves' = moves \ {<<p, q>>}
      /\ \A s \in DOMAIN to : to[s] \in Paths
      /\ IF DOMAIN to = {}
         THEN ok /\ UNCHANGED <<rules, heap, groups, saved, cache, call, flush, told, dirty, late, suspect>>
         ELSE Relocate(to, ok)
      /\ UNCHANGED changes

-------------------------------------------------------------------------------
(* Groups: no cache is cleared. *)

SetGroups(new, ok) ==
  /\ Bounded
  /\ new # groups
  /\ groups' = new
  /\ UNCHANGED <<rules, heap, moves, told>>
  /\ KeepCaches /\ SaveToDB(ok)
  /\ Disturb(FALSE)

Members(g) == IF groups[g] = Nil THEN {} ELSE groups[g]

AddUserToGroup(g, u, ok) == SetGroups([groups EXCEPT ![g] = Members(g) \cup {u}], ok)

\* Mutant: a group that loses its last member is not saved.
RemoveUserFromGroupUnsaved(g, u, ok) ==
  /\ Bounded
  /\ ok /\ u \in Members(g)
  /\ groups' = [groups EXCEPT ![g] = IF @ = {u} THEN Nil ELSE @ \ {u}]
  /\ UNCHANGED <<rules, heap, saved, moves, flush, told, dirty>>
  /\ KeepCaches /\ Overtake(FALSE) /\ Disturb(FALSE)

\* A group that loses its last member this way is gone.
RemoveUserFromGroup(g, u, ok) ==
  /\ u \in Members(g)
  /\ SetGroups([groups EXCEPT ![g] = IF @ = {u} THEN Nil ELSE @ \ {u}], ok)

\* SyncUserGroups, at an OIDC login: the user is in these groups and no other.
SyncUserGroups(u, in, ok) ==
  SetGroups([g \in Groups |-> IF g \in in THEN Members(g) \cup {u}
                              ELSE IF groups[g] = Nil THEN Nil ELSE groups[g] \ {u}], ok)

-------------------------------------------------------------------------------
(* Permitted. *)

Others == UNCHANGED <<rules, heap, groups, saved, moves, changes, flush, told, dirty, late>>

\* A question that is not in the cache; one that is changes nothing.
Ask(c, x) ==
  /\ call[c].pc = "idle" /\ cache[x] = Nil
  /\ call' = [call EXCEPT ![c] = Fresh("look", x, x[1], {Now[x]})]
  /\ Others /\ UNCHANGED <<cache, suspect>>

\* Mutant: the way up ends at the first rule.
LookOnce(c) ==
  LET k == call[c]
      found == IF rules[k.level] = Nil THEN <<>> ELSE <<rules[k.level]>>
  IN  /\ k.pc = "look"
      /\ call' = [call EXCEPT ![c] =
           IF found = <<>> /\ k.level # <<>>
           THEN [k EXCEPT !.level = SubSeq(k.level, 1, Len(k.level) - 1)]
           ELSE [k EXCEPT !.found = found, !.level = Nil,
                          !.pc = IF found = <<>> THEN "last" ELSE "deny"]]
      /\ Others /\ UNCHANGED <<cache, suspect>>

\* getRuleAtExactPath, from the path asked about up to the root.
Look(c) ==
  LET k == call[c]
      found == IF rules[k.level] = Nil THEN k.found ELSE Append(k.found, rules[k.level])
  IN  /\ k.pc = "look"
      /\ call' = [call EXCEPT ![c] =
           IF k.level # <<>>
           THEN [k EXCEPT !.found = found, !.level = SubSeq(k.level, 1, Len(k.level) - 1)]
           ELSE [k EXCEPT !.found = found, !.level = Nil,
                          !.pc = IF found = <<>> THEN "last" ELSE "deny"]]
      /\ Others /\ UNCHANGED <<cache, suspect>>

\* evaluateRuleForUser, its first half: the deny lists of the rule.
JudgeDeny(c) ==
  LET k == call[c]
      denied == Names(heap[k.found[k.at]], k.ask[2], {"deny"})
  IN  /\ k.pc = "deny"
      /\ call' = [call EXCEPT ![c].pc = IF denied THEN "store" ELSE "allow"]
      /\ Others /\ UNCHANGED <<cache, suspect>>

\* Its second half: the allow lists; then the next rule.
JudgeAllow(c) ==
  LET k == call[c]
      allowed == Names(heap[k.found[k.at]], k.ask[2], {"allow"})
  IN  /\ k.pc = "allow"
      /\ call' = [call EXCEPT ![c] =
           IF allowed THEN [k EXCEPT !.verdict = TRUE, !.pc = "store"]
           ELSE IF k.at < Len(k.found) THEN [k EXCEPT !.at = @ + 1, !.pc = "deny"]
           ELSE [k EXCEPT !.pc = "last"]]
      /\ Others /\ UNCHANGED <<cache, suspect>>

\* No rule names the user: any DenyAll among them, or the source's default.
LastResort(c) ==
  LET k == call[c]
      all == \E n \in DOMAIN k.found : DenyAll \in heap[k.found[n]]
  IN  /\ k.pc = "last"
      /\ call' = [call EXCEPT ![c] = [k EXCEPT !.verdict = ~all /\ ~DenyByDefault, !.pc = "store"]]
      /\ Others /\ UNCHANGED <<cache, suspect>>

\* permissionCache.Set, whatever happened to the rules meanwhile; and the answer.
Store(c) ==
  LET k == call[c]
  IN  /\ k.pc = "store"
      /\ cache' = [cache EXCEPT ![k.ask] = k.verdict]
      /\ suspect' = IF k.churn = 0 THEN suspect \ {k.ask} ELSE suspect \cup {k.ask}
      /\ call' = [call EXCEPT ![c] = Idle]
      /\ Others

\* An entry of the cache reaches its age of a minute.
Evict(x) ==
  /\ cache[x] # Nil
  /\ cache' = [cache EXCEPT ![x] = Nil] /\ suspect' = suspect \ {x}
  /\ Others /\ UNCHANGED call

-------------------------------------------------------------------------------
(* Shutdown saves once more, without the lock and before the server stops: the   *)
(* requests that still run change and save rules between its marshalling and its  *)
(* writing, and while it reads.  Until it writes, it may come to any path late.   *)

Memory == UNCHANGED <<rules, heap, groups, cache, moves, call, changes, told, suspect>>

\* Flush: SaveToDB begins, json.Marshal.
Flush ==
  /\ flush.pc = "up"
  /\ flush' = [pc |-> "copied", copy |-> Stored]
  /\ Memory /\ UNCHANGED <<saved, dirty, late>>

\* A part that json.Marshal reads after it has changed.
ReadLate ==
  /\ flush.pc = "copied"
  /\ \/ \E p \in late \ {Nil} : flush' = [flush EXCEPT !.copy.rules[p] = Says(p)]
     \/ Nil \in late /\ flush' = [flush EXCEPT !.copy.groups = groups]
  /\ flush' # flush
  /\ Memory /\ UNCHANGED <<saved, dirty, late>>

\* DB.Set of what was marshalled.
Write(ok) ==
  /\ flush.pc = "copied"
  /\ flush' = [pc |-> "written", copy |-> Nil]
  /\ IF ok THEN saved' = flush.copy /\ dirty' = FALSE /\ late' = late
           ELSE saved' = saved /\ dirty' = dirty /\ late' = {}
  /\ Memory

\* One object for each path.
Fixed == CHOOSE f \in [Paths -> Ids] : \A p, q \in Paths : f[p] = f[q] => p = q

(* The process ends anywhere; NewStorage and LoadFromDB, from the BoltDB that   *)
(* was kept, or from a new one.                                               *)
Restart(wiped) ==
  /\ saved' = IF wiped THEN Blank ELSE saved
  /\ rules' = [p \in Paths |-> IF saved'.rules[p] = {} THEN Nil ELSE Fixed[p]]
  /\ heap' = [i \in Ids |->
       IF \E p \in Paths : Fixed[p] = i THEN saved'.rules[CHOOSE p \in Paths : Fixed[p] = i] ELSE {}]
  /\ groups' = saved'.groups
  /\ cache' = [x \in Asked |-> Nil] /\ suspect' = {}
  /\ moves' = {} /\ call' = [c \in Calls |-> Idle]
  /\ told' = [p \in Paths |-> IF wiped \/ (flush.pc = "written" /\ p \in late)
                             THEN [m \in Marks |-> "unknown"] ELSE told[p]]
  /\ dirty' = FALSE /\ flush' = NoFlush /\ late' = {}
  /\ UNCHANGED changes

-------------------------------------------------------------------------------
Administer ==
  \E ok \in BOOLEAN :
    \/ \E e \in Edited : \/ AddMark(e[1], e[2], ok) \/ RemoveMark(e[1], e[2], ok)
                         \/ RemoveMissing(e[1], e[2]) \/ Cascade(e[1], e[2], ok)
    \/ \E p, q \in Paths : UpdateRulePath(p, q, ok) \/ UpdateRules(p, q, ok)
    \/ \E g \in Groups, u \in Users : AddUserToGroup(g, u, ok) \/ RemoveUserFromGroup(g, u, ok)
    \/ \E u \in Users, in \in SUBSET Groups : SyncUserGroups(u, in, ok)

Check(c) ==
  \/ \E x \in Asked : Ask(c, x)
  \/ Look(c) \/ JudgeDeny(c) \/ JudgeAllow(c) \/ LastResort(c) \/ Store(c)

Next ==
  \/ Administer
  \/ \E p, q \in Paths : Rename(p, q)
  \/ \E c \in Calls : Check(c)
  \/ \E x \in Asked : Evict(x)
  \/ Flush \/ ReadLate
  \/ \E ok \in BOOLEAN : Write(ok)
  \/ \E wiped \in BOOLEAN : Restart(wiped)

Spec == Init /\ [][Next]_vars

-------------------------------------------------------------------------------
(* Properties *)

Places == {"idle", "look", "deny", "allow", "last", "store"}

Call == [pc : Places, ask : Asked \cup {Nil}, level : Paths \cup {Nil}, found : Seq(Ids),
         at : Nat, verdict : BOOLEAN, seen : SUBSET BOOLEAN, churn : 0..2]

\* No object is at two paths, and none that says nothing is at any.
RulesOK ==
  /\ rules \in [Paths -> Ids \cup {Nil}] /\ heap \in [Ids -> SUBSET Marks]
  /\ \A p, q \in Paths : rules[p] # Nil /\ rules[p] = rules[q] => p = q
  /\ \A p \in Paths : rules[p] # Nil => heap[rules[p]] # {}

StoredRecs == [rules : [Paths -> SUBSET Marks], groups : GroupMap]

(* The variables keep their types, and the rules are well formed.              *)
TypeOK ==
  /\ RulesOK
  /\ groups \in GroupMap
  /\ saved \in StoredRecs
  /\ flush \in [pc : {"up", "copied", "written"}, copy : StoredRecs \cup {Nil}]
  /\ flush.pc = "copied" => flush.copy \in StoredRecs
  /\ late \subseteq Paths \cup {Nil}
  /\ cache \in [Asked -> BOOLEAN \cup {Nil}] /\ suspect \subseteq Asked
  /\ moves \subseteq Paths \X Paths
  /\ call \in [Calls -> Call]
  /\ \A c \in Calls : call[c].pc # "idle" => call[c].ask \in Asked
  /\ \A c \in Calls : call[c].pc = "look" => call[c].level \in Paths
  /\ changes \in Nat
  /\ told \in [Paths -> [Marks -> {"in", "out", "unknown"}]]
  /\ dirty \in BOOLEAN

(* A user or group that an administrator was told is on a list, or off it, is   *)
(* so now, whatever was done to other entries and paths since, and through      *)
(* restarts that keep BoltDB; but a shutdown whose last write succeeds may lose   *)
(* what was changed, on the same path, between its marshalling and its writing.  *)
EntriesKept ==
  \A p \in Paths, m \in Marks \ {DenyAll} :
    /\ told[p][m] = "in" => m \in Says(p)
    /\ told[p][m] = "out" => m \notin Says(p)

(* BoltDB holds what memory holds, groups and rules of every path, unless a     *)
(* save failed, or a rule was dropped without one, since it was last saved; and   *)
(* the last write of a shutdown sets back nothing but what changed since it was   *)
(* marshalled.                                                                *)
BoltIsCurrent ==
  ~dirty =>
    LET back == IF flush.pc = "written" THEN late ELSE {} IN
    /\ \A p \in Paths \ back : saved.rules[p] = Says(p)
    /\ Nil \notin back => saved.groups = groups

(* An answer in the cache is what the rules say now, unless it was worked out   *)
(* while they changed, or a change that leaves the caches alone came after it.  *)
CacheIsCurrent == \A x \in Asked \ suspect : cache[x] # Nil => cache[x] = Now[x]

(* Permitted takes the lock anew for every directory and reads the rules        *)
(* without it; even so its answer was true at some moment of the call, if at    *)
(* most one mark of one path changed during it.                               *)
AnswerOfAMoment ==
  \A c \in Calls : call[c].pc = "store" /\ call[c].churn < 2 => call[c].verdict \in call[c].seen

(* "DenyAll sets a rule to deny all access": one an administrator was told of   *)
(* is in force until an administrator removes it.                             *)
DenyAllKept == \A p \in Paths : told[p][DenyAll] = "in" => DenyAll \in Says(p)
===============================================================================
