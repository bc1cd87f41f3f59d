----------------------------- MODULE AccessProofs -----------------------------
(***************************************************************************)
(* What holds of access rules for any number of users, groups, paths and     *)
(* calls: BoltDB and memory agree, and what an administrator was told of an  *)
(* entry stays true until somebody changes it, through restarts; and then     *)
(* what Permitted answers.                                                  *)
(***************************************************************************)
EXTENDS Lookups, FiniteSetTheorems, SequenceTheorems, TLAPS

(* A restart takes the rules from BoltDB: what was told must be true there too, *)
(* but for what the last write of a shutdown set back.                        *)
SetBack(p) == flush.pc = "written" /\ p \in late
SavedKept ==
  \A p \in Paths, m \in Marks \ {DenyAll} :
    ~SetBack(p) => /\ told[p][m] = "in" => m \in saved.rules[p]
                   /\ told[p][m] = "out" => m \notin saved.rules[p]

(* The copy that a shutdown is about to write is what memory holds, but for what *)
(* changed since it was taken.                                                *)
CopyKept ==
  flush.pc = "copied" =>
    /\ \A p \in Paths \ late : flush.copy.rules[p] = Says(p)
    /\ Nil \notin late => flush.copy.groups = groups

IInv == TypeOK /\ EntriesKept /\ SavedKept /\ CopyKept /\ BoltIsCurrent

-------------------------------------------------------------------------------
(* Parts of a step. *)

CallsOK ==
  /\ call \in [Calls -> Call]
  /\ \A c \in Calls : call[c].pc # "idle" => call[c].ask \in Asked
  /\ \A c \in Calls : call[c].pc = "look" => call[c].level \in Paths

LEMMA PermittedBoolean == ASSUME NEW p, NEW u PROVE Permitted(p, u) \in BOOLEAN
  BY DEF Permitted

LEMMA NowBoolean == ASSUME NEW x \in Asked PROVE Now'[x] \in BOOLEAN
<1>1. Permitted(x[1], x[2])' \in BOOLEAN
  BY DEF Permitted
<1>. QED
  BY <1>1 DEF Now

LEMMA SeenOK ==
  ASSUME NEW k \in Call, NEW b \in BOOLEAN, NEW n \in 0..2
  PROVE  LET new == [k EXCEPT !.seen = @ \cup {b}, !.churn = n]
         IN  new \in Call /\ new.pc = k.pc /\ new.ask = k.ask /\ new.level = k.level
  BY DEF Call

LEMMA DisturbOK ==
  ASSUME CallsOK, NEW small \in BOOLEAN, Disturb(small)
  PROVE  CallsOK'
<1>. USE DEF CallsOK
<1>1. ASSUME NEW c \in Calls
      PROVE  /\ call'[c] \in Call
             /\ call'[c].pc = call[c].pc /\ call'[c].ask = call[c].ask
             /\ call'[c].level = call[c].level
  <2>1. CASE call[c].pc = "idle"
    BY <2>1 DEF Disturb
  <2>2. CASE call[c].pc # "idle"
    <3>1. Now'[call[c].ask] \in BOOLEAN
      BY <2>2, NowBoolean
    <3>. DEFINE n == IF small /\ call[c].churn = 0 THEN 1 ELSE 2
    <3>2. call[c] \in Call /\ n \in 0..2
      OBVIOUS
    <3>3. call'[c] = [call[c] EXCEPT !.seen = @ \cup {Now'[call[c].ask]}, !.churn = n]
      BY <2>2 DEF Disturb
    <3>. HIDE DEF n
    <3>4. [call[c] EXCEPT !.seen = @ \cup {Now'[call[c].ask]}, !.churn = n] \in Call
      BY <3>1, <3>2, SeenOK
    <3>. QED
      BY <3>2, <3>3, <3>4 DEF Call
  <2>. QED
    BY <2>1, <2>2
<1>2. call' \in [Calls -> Call]
  BY <1>1 DEF Disturb
<1>. QED
  BY <1>1, <1>2

LEMMA OvertakeOK ==
  ASSUME NEW ok \in BOOLEAN, Overtake(ok), TypeOK, CopyKept, flush' = flush
  PROVE  /\ late' \subseteq Paths \cup {Nil} /\ CopyKept'
         /\ flush.pc # "copied" => late' = IF ok THEN {} ELSE late
<1>1. CASE flush.pc = "copied"
  <2>1. late' = late \cup {p \in Paths : Says(p)' # Says(p)}
                     \cup (IF groups' # groups THEN {Nil} ELSE {})
    BY <1>1 DEF Overtake
  <2>2. late' \subseteq Paths \cup {Nil}
    BY <2>1 DEF TypeOK
  <2>3. ASSUME NEW p \in Paths \ late' PROVE p \in Paths \ late /\ Says(p)' = Says(p)
    BY <2>1
  <2>4. Nil \notin late' => Nil \notin late /\ groups' = groups
    BY <2>1
  <2>5. \A p \in Paths \ late' : flush'.copy.rules[p] = Says(p)'
    BY <1>1, <2>3 DEF CopyKept
  <2> QED BY <1>1, <2>2, <2>4, <2>5 DEF CopyKept
<1>2. CASE flush.pc # "copied"
  BY <1>2 DEF Overtake, CopyKept, TypeOK
<1> QED BY <1>1, <1>2

LEMMA SaveOK ==
  ASSUME NEW ok \in BOOLEAN, SaveToDB(ok), TypeOK, CopyKept, RulesOK',
         groups' \in GroupMap
  PROVE  /\ saved' \in StoredRecs /\ flush' = flush
         /\ late' \subseteq Paths \cup {Nil}
         /\ dirty' \in BOOLEAN /\ BoltIsCurrent' /\ CopyKept'
         /\ ok => \A p \in Paths : saved'.rules[p] = Says(p)'
         /\ ~ok => saved' = saved /\ (flush.pc = "written" => late' = late)
<1>1. \A p \in Paths : Says(p)' \in SUBSET Marks
  BY DEF RulesOK, Says
<1>2. Stored'.rules \in [Paths -> SUBSET Marks] /\ Stored'.groups \in GroupMap
  BY <1>1 DEF Stored
<1>3. (\A p \in Paths : Stored'.rules[p] = Says(p)') /\ Stored'.groups = groups'
  BY DEF Stored
<1>4. Stored' \in StoredRecs
  BY <1>2 DEF Stored, StoredRecs
<1>5. flush' = flush /\ Overtake(ok)
  BY DEF SaveToDB
<1>6. /\ late' \subseteq Paths \cup {Nil} /\ CopyKept'
      /\ flush.pc # "copied" => late' = IF ok THEN {} ELSE late
  BY <1>5, OvertakeOK
<1>7. CASE ok
  <2>1. saved' = Stored' /\ dirty' = FALSE
    BY <1>7 DEF SaveToDB
  <2> QED BY <1>3, <1>4, <1>5, <1>6, <1>7, <2>1 DEF BoltIsCurrent
<1>8. CASE ~ok
  <2>1. saved' = saved /\ dirty' = TRUE
    BY <1>8 DEF SaveToDB
  <2> QED BY <1>5, <1>6, <1>8, <2>1 DEF BoltIsCurrent, TypeOK
<1>. QED
  BY <1>7, <1>8

LEMMA ClearOK ==
  ASSUME ClearAllCaches
  PROVE  cache' \in [Asked -> BOOLEAN \cup {Nil}] /\ suspect' \subseteq Asked
  BY DEF ClearAllCaches

LEMMA KeepOK ==
  ASSUME TypeOK, KeepCaches
  PROVE  cache' \in [Asked -> BOOLEAN \cup {Nil}] /\ suspect' \subseteq Asked
  BY DEF KeepCaches, TypeOK

\* What was told follows the rules, and BoltDB has them when they were saved.
LEMMA SavedOK ==
  ASSUME NEW ok \in BOOLEAN, SavedKept, EntriesKept', flush' = flush,
         told' \in [Paths -> [Marks -> {"in", "out", "unknown"}]],
         ok => \A p \in Paths : saved'.rules[p] = Says(p)',
         ~ok => saved' = saved /\ (flush.pc = "written" => late' = late),
         ~ok => \A p \in Paths, m \in Marks :
                  told'[p][m] = "unknown" \/ told'[p][m] = told[p][m]
  PROVE  SavedKept'
<1>1. CASE ok
  BY <1>1 DEF EntriesKept, SavedKept
<1>2. CASE ~ok
  BY <1>2 DEF SavedKept, SetBack
<1>. QED
  BY <1>1, <1>2

\* Everything but the rules and what was told of them.
LEMMA RestOK ==
  ASSUME IInv, NEW ok \in BOOLEAN, NEW small \in BOOLEAN,
         RulesOK', groups' \in GroupMap, moves' \subseteq Paths \X Paths, changes' \in Nat,
         told' \in [Paths -> [Marks -> {"in", "out", "unknown"}]],
         ClearAllCaches \/ KeepCaches, SaveToDB(ok), Disturb(small),
         EntriesKept',
         ~ok => \A p \in Paths, m \in Marks :
                  told'[p][m] = "unknown" \/ told'[p][m] = told[p][m]
  PROVE  IInv'
<1>1. TypeOK /\ SavedKept /\ CopyKept /\ CallsOK
  BY DEF IInv, TypeOK, CallsOK
<1>2. cache' \in [Asked -> BOOLEAN \cup {Nil}] /\ suspect' \subseteq Asked
  BY <1>1, ClearOK, KeepOK
<1>3. CallsOK'
  BY <1>1, DisturbOK
<1>4. /\ saved' \in StoredRecs /\ flush' = flush
      /\ late' \subseteq Paths \cup {Nil}
      /\ dirty' \in BOOLEAN /\ BoltIsCurrent' /\ CopyKept'
      /\ ok => \A p \in Paths : saved'.rules[p] = Says(p)'
      /\ ~ok => saved' = saved /\ (flush.pc = "written" => late' = late)
  BY <1>1, SaveOK
<1>5. SavedKept'
  BY <1>1, <1>4, SavedOK
<1>6. TypeOK'
  BY <1>1, <1>2, <1>3, <1>4 DEF TypeOK, CallsOK
<1>. QED
  BY <1>4, <1>5, <1>6 DEF IInv

-------------------------------------------------------------------------------
(* One lemma for each action. *)

LEMMA AddMarkOK ==
  ASSUME IInv, NEW p \in Paths, NEW m \in Marks, NEW ok \in BOOLEAN, AddMark(p, m, ok)
  PROVE  IInv'
<1>. USE DEF IInv
<1>1. TypeOK /\ RulesOK /\ EntriesKept
  BY DEF TypeOK
<1>2. /\ RulesOK'
      /\ Says(p)' = Says(p) \cup {m}
      /\ \A q \in Paths \ {p} : Says(q)' = Says(q)
  <2>1. CASE rules[p] = Nil
    <3>1. PICK i \in Free : rules' = [rules EXCEPT ![p] = i] /\ heap' = [heap EXCEPT ![i] = {m}]
      BY <2>1 DEF AddMark
    <3>2. i \in Ids /\ i # Nil /\ \A q \in Paths : rules[q] # i
      BY <3>1, AccessAssumption DEF Free, Live
    <3>. QED
      BY <1>1, <2>1, <3>1, <3>2 DEF RulesOK, Says
  <2>2. CASE rules[p] # Nil
    <3>1. rules' = rules /\ heap' = [heap EXCEPT ![rules[p]] = @ \cup {m}]
      BY <2>2 DEF AddMark
    <3>. QED
      BY <1>1, <2>2, <3>1 DEF RulesOK, Says
  <2>. QED
    BY <2>1, <2>2
<1>3. told' = [told EXCEPT ![p][m] = IF ok THEN "in" ELSE "unknown"]
  BY DEF AddMark, Tell
<1>4. EntriesKept'
  BY <1>1, <1>2, <1>3 DEF EntriesKept, TypeOK
<1>5. told' \in [Paths -> [Marks -> {"in", "out", "unknown"}]]
  BY <1>1, <1>3 DEF TypeOK
<1>6. ~ok => \A q \in Paths, n \in Marks :
               told'[q][n] = "unknown" \/ told'[q][n] = told[q][n]
  BY <1>1, <1>3 DEF TypeOK
<1>7. groups' \in GroupMap /\ moves' \subseteq Paths \X Paths /\ changes' \in Nat
  BY <1>1 DEF AddMark, Bounded, TypeOK
<1>8. ClearAllCaches /\ SaveToDB(ok) /\ Disturb(TRUE)
  BY DEF AddMark
<1>. QED
  BY <1>2, <1>4, <1>5, <1>6, <1>7, <1>8, RestOK

LEMMA RemoveMarkOK ==
  ASSUME IInv, NEW p \in Paths, NEW m \in Marks, NEW ok \in BOOLEAN, RemoveMark(p, m, ok)
  PROVE  IInv'
<1>. USE DEF IInv
<1>1. TypeOK /\ RulesOK /\ EntriesKept
  BY DEF TypeOK
<1>. DEFINE rest == Says(p) \ {m}
<1>2. /\ rules[p] # Nil
      /\ heap' = [heap EXCEPT ![rules[p]] = rest]
      /\ rules' = IF rest \subseteq {DenyAll} THEN [rules EXCEPT ![p] = Nil] ELSE rules
  BY DEF RemoveMark, TakeOut, Says
<1>3. /\ RulesOK'
      /\ Says(p)' = IF rest \subseteq {DenyAll} THEN {} ELSE rest
      /\ \A q \in Paths \ {p} : Says(q)' = Says(q)
  BY <1>1, <1>2 DEF RulesOK, Says
<1>4. told' = [told EXCEPT ![p][m] = IF ok THEN "out" ELSE "unknown"]
  BY DEF RemoveMark, Tell
<1>5. EntriesKept'
  BY <1>1, <1>3, <1>4 DEF EntriesKept, TypeOK
<1>6. told' \in [Paths -> [Marks -> {"in", "out", "unknown"}]]
  BY <1>1, <1>4 DEF TypeOK
<1>7. ~ok => \A q \in Paths, n \in Marks :
               told'[q][n] = "unknown" \/ told'[q][n] = told[q][n]
  BY <1>1, <1>4 DEF TypeOK
<1>8. groups' \in GroupMap /\ moves' \subseteq Paths \X Paths /\ changes' \in Nat
  BY <1>1 DEF RemoveMark, Bounded, TypeOK
<1>9. ClearAllCaches /\ SaveToDB(ok) /\ Disturb(Says(p) \ {m} # {DenyAll})
  BY DEF RemoveMark
<1>. HIDE DEF IInv
<1>. QED
  BY <1>3, <1>5, <1>6, <1>7, <1>8, <1>9, RestOK

LEMMA RemoveMissingOK ==
  ASSUME IInv, NEW p \in Paths, NEW m \in Marks, RemoveMissing(p, m)
  PROVE  IInv'
<1>. USE DEF IInv
<1>1. TypeOK /\ RulesOK /\ EntriesKept /\ CallsOK
  BY DEF TypeOK, CallsOK
<1>2. /\ rules' = [rules EXCEPT ![p] = Nil] /\ heap' = heap
      /\ Says(p) \subseteq {DenyAll}
      /\ UNCHANGED <<groups, saved, moves, flush, told>> /\ dirty' = TRUE
      /\ Overtake(FALSE)
  BY DEF RemoveMissing
<1>3. /\ RulesOK'
      /\ Says(p)' = {}
      /\ \A q \in Paths \ {p} : Says(q)' = Says(q)
  BY <1>1, <1>2 DEF RulesOK, Says
<1>4. EntriesKept' /\ BoltIsCurrent'
  BY <1>1, <1>2, <1>3 DEF EntriesKept, BoltIsCurrent
<1>9. /\ late' \subseteq Paths \cup {Nil} /\ CopyKept'
      /\ flush.pc # "copied" => late' = late
  BY <1>1, <1>2, OvertakeOK
<1>10. SavedKept'
  BY <1>2, <1>9 DEF SavedKept, SetBack
<1>5. cache' \in [Asked -> BOOLEAN \cup {Nil}] /\ suspect' \subseteq Asked
  BY <1>1, KeepOK DEF RemoveMissing
<1>6. CallsOK'
  BY <1>1, DisturbOK DEF RemoveMissing
<1>7. changes' \in Nat
  BY <1>1 DEF RemoveMissing, Bounded, TypeOK
<1>8. TypeOK'
  BY <1>1, <1>2, <1>3, <1>5, <1>6, <1>7, <1>9 DEF TypeOK, CallsOK
<1>. QED
  BY <1>4, <1>8, <1>9, <1>10

LEMMA CascadeOK ==
  ASSUME IInv, NEW p \in Paths, NEW m \in Marks, NEW ok \in BOOLEAN, Cascade(p, m, ok)
  PROVE  IInv'
<1>1. TypeOK /\ RulesOK /\ EntriesKept
  BY DEF IInv, TypeOK
<1>. DEFINE hit == {q \in Paths : Above(p, q) /\ m \in Says(q)}
<1>2. /\ heap' = [i \in Ids |-> IF \E q \in hit : rules[q] = i THEN heap[i] \ {m} ELSE heap[i]]
      /\ rules' = [q \in Paths |-> IF q \in hit /\ Says(q) \ {m} = {} THEN Nil ELSE rules[q]]
      /\ told' = [q \in Paths |-> IF q \in hit
                    THEN [told[q] EXCEPT ![m] = IF ok THEN "out" ELSE "unknown"]
                    ELSE told[q]]
  BY DEF Cascade
<1>3. hit \subseteq Paths /\ \A q \in hit : m \in Says(q)
  OBVIOUS
<1>4. ASSUME NEW small \in BOOLEAN, Disturb(small), ClearAllCaches, SaveToDB(ok),
             UNCHANGED <<groups, moves>>, changes' \in Nat
      PROVE  IInv'
  <2>. HIDE DEF hit
  <2>1. ASSUME NEW q \in Paths, rules[q] # Nil
        PROVE  heap'[rules[q]] = IF q \in hit THEN Says(q) \ {m} ELSE Says(q)
    <3>1. /\ rules[q] \in Ids
          /\ (\E n \in hit : rules[n] = rules[q]) <=> q \in hit
      BY <1>1, <1>3, <2>1 DEF RulesOK
    <3>2. Says(q) = heap[rules[q]]
      BY <2>1 DEF Says
    <3>3. CASE q \in hit
      <4>1. heap'[rules[q]] = heap[rules[q]] \ {m}
        BY <1>2, <3>1, <3>3
      <4>. QED
        BY <3>2, <3>3, <4>1
    <3>4. CASE q \notin hit
      <4>1. heap'[rules[q]] = heap[rules[q]]
        BY <1>2, <3>1, <3>4
      <4>. QED
        BY <3>2, <3>4, <4>1
    <3>. QED
      BY <3>3, <3>4
  <2>2. \A q \in Paths : Says(q)' = IF q \in hit THEN Says(q) \ {m} ELSE Says(q)
    <3>1. ASSUME NEW q \in Paths
          PROVE  Says(q)' = IF q \in hit THEN Says(q) \ {m} ELSE Says(q)
      <4>1. CASE rules[q] = Nil
        BY <1>2, <1>3, <4>1 DEF Says
      <4>2. CASE rules[q] # Nil
        BY <1>2, <2>1, <4>2 DEF Says
      <4>. QED
        BY <4>1, <4>2
    <3>. QED
      BY <3>1
  <2>3. RulesOK'
    <3>1. rules' \in [Paths -> Ids \cup {Nil}] /\ heap' \in [Ids -> SUBSET Marks]
      BY <1>1, <1>2 DEF RulesOK
    <3>2. \A q, n \in Paths : rules'[q] # Nil /\ rules'[q] = rules'[n] => q = n
      BY <1>1, <1>2 DEF RulesOK
    <3>3. ASSUME NEW q \in Paths, rules'[q] # Nil
          PROVE  heap'[rules'[q]] # {}
      <4>1. rules'[q] = rules[q] /\ (q \in hit => Says(q) \ {m} # {})
        BY <1>2, <3>3
      <4>2. Says(q) # {}
        BY <1>1, <3>3, <4>1 DEF RulesOK, Says
      <4>. QED
        BY <2>1, <3>3, <4>1, <4>2
    <3>. QED
      BY <3>1, <3>2, <3>3 DEF RulesOK
  <2>4. EntriesKept'
    BY <1>1, <1>2, <2>2 DEF EntriesKept, TypeOK
  <2>5. told' \in [Paths -> [Marks -> {"in", "out", "unknown"}]]
    BY <1>1, <1>2 DEF TypeOK
  <2>6. ~ok => \A q \in Paths, n \in Marks :
                 told'[q][n] = "unknown" \/ told'[q][n] = told[q][n]
    BY <1>1, <1>2 DEF TypeOK
  <2>. QED
    BY <1>1, <1>4, <2>3, <2>4, <2>5, <2>6, RestOK DEF TypeOK
<1>5. Disturb(\E q \in hit : hit = {q})
  BY DEF Cascade
<1>6. UNCHANGED <<groups, moves>> /\ changes' \in Nat /\ ClearAllCaches /\ SaveToDB(ok)
  BY <1>1 DEF Cascade, Bounded, TypeOK
<1>7. (\E q \in hit : hit = {q}) \in BOOLEAN
  OBVIOUS
<1>. HIDE DEF hit
<1>. QED
  BY <1>4, <1>5, <1>6, <1>7

\* Rules go to their new paths with what was told of them.
LEMMA RelocateOK ==
  ASSUME IInv, NEW S \in SUBSET Paths, NEW to \in [S -> Paths], NEW ok \in BOOLEAN,
         Relocate(to, ok), moves' \subseteq Paths \X Paths, changes' \in Nat
  PROVE  IInv'
<1>1. TypeOK /\ RulesOK /\ EntriesKept
  BY DEF IInv, TypeOK
<1>. DEFINE src(q) == CHOOSE p \in S : to[p] = q
<1>2. ASSUME NEW q \in Paths, \E p \in S : to[p] = q
      PROVE  src(q) \in S /\ src(q) \in Paths /\ to[src(q)] = q
  BY <1>2
<1>3. /\ rules' = [q \in Paths |-> IF \E p \in S : to[p] = q THEN rules[src(q)]
                                   ELSE IF q \in S THEN Nil ELSE rules[q]]
      /\ heap' = heap /\ groups' = groups
  BY DEF Relocate, Moved
<1>4. told' = IF ok THEN [q \in Paths |-> IF \E p \in S : to[p] = q THEN told[src(q)]
                                          ELSE IF q \in S THEN AllOut ELSE told[q]]
              ELSE [q \in Paths |-> IF q \in S \/ \E p \in S : to[p] = q
                                    THEN [m \in Marks |-> "unknown"] ELSE told[q]]
  BY DEF Relocate, Moved
<1>. HIDE DEF src
<1>5. RulesOK'
  <2>1. rules' \in [Paths -> Ids \cup {Nil}] /\ heap' \in [Ids -> SUBSET Marks]
    BY <1>1, <1>2, <1>3 DEF RulesOK
  <2>2. ASSUME NEW q \in Paths, NEW n \in Paths, rules'[q] # Nil, rules'[q] = rules'[n]
        PROVE  q = n
    BY <1>1, <1>2, <1>3, <2>2 DEF RulesOK
  <2>3. \A q \in Paths : rules'[q] # Nil => heap'[rules'[q]] # {}
    BY <1>1, <1>2, <1>3 DEF RulesOK
  <2>. QED
    BY <2>1, <2>2, <2>3 DEF RulesOK
<1>6. \A q \in Paths : Says(q)' = IF \E p \in S : to[p] = q THEN Says(src(q))
                                  ELSE IF q \in S THEN {} ELSE Says(q)
  BY <1>1, <1>2, <1>3 DEF Says
<1>7. told' \in [Paths -> [Marks -> {"in", "out", "unknown"}]]
  BY <1>1, <1>2, <1>4 DEF TypeOK, AllOut
<1>8. EntriesKept'
  <2>1. CASE ok
    BY <1>1, <1>2, <1>4, <1>6, <2>1 DEF EntriesKept, AllOut
  <2>2. CASE ~ok
    BY <1>1, <1>4, <1>6, <2>2 DEF EntriesKept
  <2>. QED
    BY <2>1, <2>2
<1>9. ~ok => \A q \in Paths, n \in Marks :
               told'[q][n] = "unknown" \/ told'[q][n] = told[q][n]
  BY <1>4
<1>10. groups' \in GroupMap /\ ClearAllCaches /\ SaveToDB(ok) /\ Disturb(FALSE)
  BY <1>1, <1>3 DEF Relocate, TypeOK
<1>. QED
  BY <1>5, <1>7, <1>8, <1>9, <1>10, RestOK

LEMMA UpdateRulePathOK ==
  ASSUME IInv, NEW p \in Paths, NEW q \in Paths, NEW ok \in BOOLEAN, UpdateRulePath(p, q, ok)
  PROVE  IInv'
<1>. DEFINE to == [s \in {p} |-> q]
<1>1. to \in [{p} -> Paths] /\ {p} \in SUBSET Paths
  OBVIOUS
<1>2. Relocate(to, ok) /\ moves' \subseteq Paths \X Paths /\ changes' \in Nat
  BY DEF UpdateRulePath, Bounded, IInv, TypeOK
<1>. HIDE DEF to
<1>. QED
  BY <1>1, <1>2, RelocateOK

\* A step that leaves rules, groups, caches and calls alone.
LEMMA StillOK ==
  ASSUME IInv,
         UNCHANGED <<rules, heap, groups, saved, cache, call, flush, told, dirty, late, suspect>>,
         moves' \subseteq Paths \X Paths, changes' \in Nat
  PROVE  IInv'
<1>1. \A p \in Paths : Says(p)' = Says(p)
  BY DEF Says
<1>3. TypeOK'
  BY DEF IInv, TypeOK, RulesOK
<1>4. EntriesKept' /\ SavedKept' /\ CopyKept' /\ BoltIsCurrent'
  BY <1>1 DEF IInv, EntriesKept, SavedKept, SetBack, CopyKept, BoltIsCurrent
<1>. QED
  BY <1>3, <1>4 DEF IInv

LEMMA RenameOK ==
  ASSUME IInv, NEW p \in Paths, NEW q \in Paths, Rename(p, q)
  PROVE  IInv'
<1>1. moves' \subseteq Paths \X Paths /\ changes' \in Nat
  BY DEF Rename, Bounded, IInv, TypeOK
<1>. QED
  BY <1>1, StillOK DEF Rename

LEMMA UpdateRulesOK ==
  ASSUME IInv, NEW p \in Paths, NEW q \in Paths, NEW ok \in BOOLEAN, UpdateRules(p, q, ok)
  PROVE  IInv'
<1>. DEFINE S == {s \in Paths : Above(p, s) /\ rules[s] # Nil}
            to == [s \in S |-> q \o SubSeq(s, Len(p) + 1, Len(s))]
<1>1. moves' \subseteq Paths \X Paths /\ changes' \in Nat
  BY DEF UpdateRules, IInv, TypeOK
<1>2. \A s \in S : to[s] \in Paths
  BY DEF UpdateRules
<1>3. \/ Relocate(to, ok)
      \/ UNCHANGED <<rules, heap, groups, saved, cache, call, flush, told, dirty, late, suspect>>
  BY DEF UpdateRules
<1>4. S \in SUBSET Paths /\ to = [s \in S |-> to[s]]
  OBVIOUS
<1>. HIDE DEF S, to
<1>5. to \in [S -> Paths]
  BY <1>2, <1>4
<1>. QED
  BY <1>1, <1>3, <1>4, <1>5, RelocateOK, StillOK

LEMMA SetGroupsOK ==
  ASSUME IInv, NEW new \in GroupMap, NEW ok \in BOOLEAN, SetGroups(new, ok)
  PROVE  IInv'
<1>1. TypeOK /\ RulesOK /\ EntriesKept
  BY DEF IInv, TypeOK
<1>2. rules' = rules /\ heap' = heap /\ told' = told /\ moves' = moves /\ groups' = new
  BY DEF SetGroups
<1>3. RulesOK' /\ EntriesKept'
  BY <1>1, <1>2 DEF RulesOK, EntriesKept, Says
<1>4. /\ groups' \in GroupMap /\ moves' \subseteq Paths \X Paths /\ changes' \in Nat
      /\ told' \in [Paths -> [Marks -> {"in", "out", "unknown"}]]
  BY <1>1, <1>2 DEF SetGroups, Bounded, TypeOK
<1>5. KeepCaches /\ SaveToDB(ok) /\ Disturb(FALSE)
  BY DEF SetGroups
<1>. QED
  BY <1>2, <1>3, <1>4, <1>5, RestOK

LEMMA GroupStepsOK ==
  ASSUME IInv, NEW g \in Groups, NEW u \in Users, NEW ok \in BOOLEAN,
         AddUserToGroup(g, u, ok) \/ RemoveUserFromGroup(g, u, ok)
  PROVE  IInv'
<1>1. groups \in GroupMap
  BY DEF IInv, TypeOK
<1>2. \A h \in Groups : Members(h) \in SUBSET Users /\ (groups[h] # Nil => groups[h] \in SUBSET Users)
  BY <1>1 DEF GroupMap, Members
<1>3. [groups EXCEPT ![g] = Members(g) \cup {u}] \in GroupMap
  BY <1>1, <1>2 DEF GroupMap
<1>4. u \in Members(g) => [groups EXCEPT ![g] = IF @ = {u} THEN Nil ELSE @ \ {u}] \in GroupMap
  BY <1>1, <1>2 DEF GroupMap, Members
<1>. QED
  BY <1>3, <1>4, SetGroupsOK DEF AddUserToGroup, RemoveUserFromGroup

LEMMA SyncUserGroupsOK ==
  ASSUME IInv, NEW u \in Users, NEW in \in SUBSET Groups, NEW ok \in BOOLEAN,
         SyncUserGroups(u, in, ok)
  PROVE  IInv'
<1>1. groups \in GroupMap
  BY DEF IInv, TypeOK
<1>2. [h \in Groups |-> IF h \in in THEN Members(h) \cup {u}
                        ELSE IF groups[h] = Nil THEN Nil ELSE groups[h] \ {u}] \in GroupMap
  BY <1>1 DEF GroupMap, Members
<1>. QED
  BY <1>2, SetGroupsOK DEF SyncUserGroups

LEMMA AskedCall ==
  ASSUME NEW x \in Asked, NEW p \in Paths, NEW b \in BOOLEAN
  PROVE  LET new == Fresh("look", x, p, {b})
         IN  new \in Call /\ new.pc = "look" /\ new.ask = x /\ new.level = p
<1>1. <<>> \in Seq(Ids) /\ {b} \in SUBSET BOOLEAN
  OBVIOUS
<1>. QED
  BY <1>1 DEF Fresh, Call, Places

LEMMA JudgedCall ==
  ASSUME NEW k \in Call
  PROVE  /\ \A b \in BOOLEAN : LET new == [k EXCEPT !.verdict = b, !.pc = "store"]
                              IN  new \in Call /\ new.ask = k.ask /\ new.pc = "store"
         /\ \A n \in Nat : LET new == [k EXCEPT !.at = n, !.pc = "deny"]
                          IN  new \in Call /\ new.ask = k.ask /\ new.pc = "deny"
         /\ LET new == [k EXCEPT !.pc = "last"]
            IN  new \in Call /\ new.ask = k.ask /\ new.pc = "last"
<1>1. ASSUME NEW b \in BOOLEAN
      PROVE  LET new == [k EXCEPT !.verdict = b, !.pc = "store"]
             IN  new \in Call /\ new.ask = k.ask /\ new.pc = "store"
  BY DEF Call, Places
<1>2. ASSUME NEW n \in Nat
      PROVE  LET new == [k EXCEPT !.at = n, !.pc = "deny"]
             IN  new \in Call /\ new.ask = k.ask /\ new.pc = "deny"
  BY DEF Call, Places
<1>3. LET new == [k EXCEPT !.pc = "last"]
      IN  new \in Call /\ new.ask = k.ask /\ new.pc = "last"
  BY DEF Call, Places
<1>. QED
  BY <1>1, <1>2, <1>3

\* A step of a call leaves everything but the calls and the cache alone.
LEMMA CheckOK ==
  ASSUME IInv, NEW c \in Calls, Check(c)
  PROVE  IInv'
<1>1. TypeOK /\ CallsOK
  BY DEF IInv, TypeOK, CallsOK
<1>2. Others
  BY DEF Check, Ask, Look, JudgeDeny, JudgeAllow, LastResort, Store
<1>3. CallsOK' /\ cache' \in [Asked -> BOOLEAN \cup {Nil}] /\ suspect' \subseteq Asked
  <2>. DEFINE k == call[c]
  <2>1. k \in Call
    BY <1>1 DEF CallsOK
  <2>2. ASSUME NEW new \in Call, call' = [call EXCEPT ![c] = new],
               new.pc # "idle" => new.ask \in Asked, new.pc = "look" => new.level \in Paths
        PROVE  CallsOK'
    BY <1>1, <2>2 DEF CallsOK
  <2>3. ASSUME NEW x \in Asked, Ask(c, x) PROVE CallsOK' /\ UNCHANGED <<cache, suspect>>
    <3>. DEFINE new == Fresh("look", x, x[1], {Now[x]})
    <3>1. Now[x] \in BOOLEAN /\ x[1] \in Paths
      BY PermittedBoolean, AccessAssumption DEF Now
    <3>2. new \in Call /\ new.pc = "look" /\ new.ask = x /\ new.level = x[1]
      BY <3>1, AskedCall
    <3>3. call' = [call EXCEPT ![c] = new] /\ UNCHANGED <<cache, suspect>>
      BY <2>3 DEF Ask
    <3>. HIDE DEF new
    <3>. QED
      BY <2>2, <3>1, <3>2, <3>3
  <2>4. ASSUME Look(c) PROVE CallsOK' /\ UNCHANGED <<cache, suspect>>
    <3>. DEFINE found == IF rules[k.level] = Nil THEN k.found ELSE Append(k.found, rules[k.level])
                new == IF k.level # <<>>
                       THEN [k EXCEPT !.found = found,
                                      !.level = SubSeq(k.level, 1, Len(k.level) - 1)]
                       ELSE [k EXCEPT !.found = found, !.level = Nil,
                                      !.pc = IF found = <<>> THEN "last" ELSE "deny"]
    <3>1. k.level \in Paths /\ k.ask \in Asked /\ k.pc = "look"
      BY <1>1, <2>4 DEF Look, CallsOK
    <3>2. found \in Seq(Ids)
      BY <1>1, <2>1, <3>1 DEF TypeOK, RulesOK, Call
    <3>3. k.level # <<>> => SubSeq(k.level, 1, Len(k.level) - 1) \in Paths
      BY <3>1, AccessAssumption
    <3>4. call' = [call EXCEPT ![c] = new] /\ UNCHANGED <<cache, suspect>>
      BY <2>4 DEF Look
    <3>. HIDE DEF found
    <3>5. /\ new \in Call /\ new.ask = k.ask
          /\ new.pc = "look" => new.level \in Paths
      BY <2>1, <3>1, <3>2, <3>3 DEF Call, Places
    <3>. HIDE DEF new
    <3>. QED
      BY <2>2, <3>1, <3>4, <3>5
  <2>5. ASSUME JudgeDeny(c) PROVE CallsOK' /\ UNCHANGED <<cache, suspect>>
    <3>1. PICK place \in {"store", "allow"} :
            call' = [call EXCEPT ![c] = [k EXCEPT !.pc = place]] /\ UNCHANGED <<cache, suspect>>
      BY <2>5 DEF JudgeDeny
    <3>2. k.pc # "idle" /\ k.ask \in Asked
      BY <1>1, <2>5 DEF JudgeDeny, CallsOK
    <3>3. LET new == [k EXCEPT !.pc = place]
          IN  new \in Call /\ new.ask = k.ask /\ new.pc # "look"
      BY <2>1 DEF Call, Places
    <3>. QED
      BY <2>2, <3>1, <3>2, <3>3
  <2>6. ASSUME JudgeAllow(c) \/ LastResort(c) PROVE CallsOK' /\ UNCHANGED <<cache, suspect>>
    <3>1. PICK new \in {[k EXCEPT !.verdict = TRUE, !.pc = "store"],
                        [k EXCEPT !.verdict = FALSE, !.pc = "store"],
                        [k EXCEPT !.at = @ + 1, !.pc = "deny"],
                        [k EXCEPT !.pc = "last"]} :
            call' = [call EXCEPT ![c] = new] /\ UNCHANGED <<cache, suspect>>
      <4>1. CASE JudgeAllow(c)
        BY <4>1 DEF JudgeAllow
      <4>2. CASE LastResort(c)
        <5>. DEFINE v == ~(\E n \in DOMAIN k.found : DenyAll \in heap[k.found[n]])
                         /\ ~DenyByDefault
        <5>1. call' = [call EXCEPT ![c] = [k EXCEPT !.verdict = v, !.pc = "store"]]
              /\ UNCHANGED <<cache, suspect>>
          BY <4>2 DEF LastResort
        <5>2. v = TRUE \/ v = FALSE
          OBVIOUS
        <5>. HIDE DEF v
        <5>. QED
          BY <5>1, <5>2
      <4>. QED
        BY <2>6, <4>1, <4>2
    <3>2. k.pc # "idle" /\ k.ask \in Asked
      BY <1>1, <2>6 DEF JudgeAllow, LastResort, CallsOK
    <3>3. new \in Call /\ new.ask = k.ask /\ new.pc # "look"
      <4>. HIDE DEF k
      <4>1. k.at + 1 \in Nat
        BY <2>1 DEF Call
      <4>2. CASE new = [k EXCEPT !.verdict = TRUE, !.pc = "store"]
        BY <2>1, <4>2, JudgedCall
      <4>3. CASE new = [k EXCEPT !.verdict = FALSE, !.pc = "store"]
        BY <2>1, <4>3, JudgedCall
      <4>4. CASE new = [k EXCEPT !.at = @ + 1, !.pc = "deny"]
        BY <2>1, <4>1, <4>4, JudgedCall
      <4>5. CASE new = [k EXCEPT !.pc = "last"]
        BY <2>1, <4>5, JudgedCall
      <4>. QED
        BY <3>1, <4>2, <4>3, <4>4, <4>5
    <3>. QED
      BY <2>2, <3>1, <3>2, <3>3
  <2>7. ASSUME Store(c)
        PROVE  CallsOK' /\ cache' \in [Asked -> BOOLEAN \cup {Nil}] /\ suspect' \subseteq Asked
    <3>1. Idle \in Call /\ Idle.pc = "idle"
      BY DEF Idle, Fresh, Call, Places
    <3>2. k.ask \in Asked /\ k.verdict \in BOOLEAN
      BY <1>1, <2>1, <2>7 DEF Store, CallsOK, Call
    <3>3. CallsOK'
      BY <2>2, <2>7, <3>1 DEF Store
    <3>. QED
      BY <1>1, <2>7, <3>2, <3>3 DEF Store, TypeOK
  <2>. QED
    BY <1>1, <2>3, <2>4, <2>5, <2>6, <2>7 DEF Check, TypeOK
<1>4. \A p \in Paths : Says(p)' = Says(p)
  BY <1>2 DEF Others, Says
<1>6. TypeOK'
  BY <1>1, <1>2, <1>3 DEF Others, TypeOK, RulesOK, CallsOK
<1>7. EntriesKept' /\ SavedKept' /\ CopyKept' /\ BoltIsCurrent'
  BY <1>2, <1>4 DEF IInv, Others, EntriesKept, SavedKept, SetBack, CopyKept, BoltIsCurrent
<1>. QED
  BY <1>6, <1>7 DEF IInv

LEMMA EvictOK ==
  ASSUME IInv, NEW x \in Asked, Evict(x)
  PROVE  IInv'
<1>1. Others /\ call' = call
  BY DEF Evict
<1>2. \A p \in Paths : Says(p)' = Says(p)
  BY <1>1 DEF Others, Says
<1>4. TypeOK'
  BY <1>1 DEF Evict, Others, IInv, TypeOK, RulesOK
<1>5. EntriesKept' /\ SavedKept' /\ CopyKept' /\ BoltIsCurrent'
  BY <1>1, <1>2 DEF IInv, Others, EntriesKept, SavedKept, SetBack, CopyKept, BoltIsCurrent
<1>. QED
  BY <1>4, <1>5 DEF IInv

\* The save at shutdown leaves memory alone.
LEMMA FlushOK ==
  ASSUME IInv, Flush \/ ReadLate \/ \E ok \in BOOLEAN : Write(ok)
  PROVE  IInv'
<1>1. UNCHANGED <<rules, heap, groups, cache, moves, call, changes, told, suspect>>
  BY DEF Flush, ReadLate, Write, Memory
<1>2. TypeOK /\ EntriesKept /\ SavedKept /\ CopyKept /\ BoltIsCurrent
  BY DEF IInv
<1>3. \A p \in Paths : Says(p)' = Says(p)
  BY <1>1 DEF Says
<1>4. EntriesKept'
  BY <1>1, <1>2, <1>3 DEF EntriesKept
<1>5. ASSUME /\ flush' \in [pc : {"up", "copied", "written"}, copy : StoredRecs \cup {Nil}]
             /\ flush'.pc = "copied" => flush'.copy \in StoredRecs
             /\ late' \subseteq Paths \cup {Nil} /\ saved' \in StoredRecs /\ dirty' \in BOOLEAN
      PROVE  TypeOK'
  BY <1>1, <1>2, <1>5 DEF TypeOK, RulesOK
<1>6. \A p \in Paths : Says(p) \in SUBSET Marks
  BY <1>2 DEF TypeOK, RulesOK, Says
<1>7. /\ Stored \in StoredRecs
      /\ \A p \in Paths : Stored.rules[p] = Says(p)
      /\ Stored.groups = groups
  <2>1. Stored \in StoredRecs
    BY <1>2, <1>6 DEF Stored, StoredRecs, TypeOK
  <2> QED BY <2>1 DEF Stored
<1>8. CASE Flush
  <2>1. flush' = [pc |-> "copied", copy |-> Stored] /\ UNCHANGED <<saved, dirty, late>>
        /\ flush.pc = "up"
    BY <1>8 DEF Flush
  <2>2. TypeOK'
    BY <1>2, <1>5, <1>7, <2>1 DEF TypeOK
  <2>3. SavedKept' /\ CopyKept' /\ BoltIsCurrent'
    BY <1>1, <1>2, <1>3, <1>7, <2>1 DEF SavedKept, SetBack, CopyKept, BoltIsCurrent
  <2> QED BY <1>4, <2>2, <2>3 DEF IInv
<1>9. CASE ReadLate
  <2>1. flush.pc = "copied" /\ UNCHANGED <<saved, dirty, late>>
    BY <1>9 DEF ReadLate
  <2>2. flush.copy \in StoredRecs
    BY <1>2, <2>1 DEF TypeOK
  <2>3. PICK f \in StoredRecs :
          /\ flush' = [flush EXCEPT !.copy = f]
          /\ \A p \in Paths \ late : f.rules[p] = flush.copy.rules[p]
          /\ Nil \notin late => f.groups = flush.copy.groups
    <3>1. ASSUME NEW p \in late \ {Nil}, flush' = [flush EXCEPT !.copy.rules[p] = Says(p)]
          PROVE  \E f \in StoredRecs :
                   /\ flush' = [flush EXCEPT !.copy = f]
                   /\ \A q \in Paths \ late : f.rules[q] = flush.copy.rules[q]
                   /\ Nil \notin late => f.groups = flush.copy.groups
      <4> DEFINE f == [flush.copy EXCEPT !.rules[p] = Says(p)]
      <4>1. p \in Paths
        BY <1>2 DEF TypeOK
      <4>2. f \in StoredRecs
        BY <1>6, <2>2, <4>1 DEF StoredRecs
      <4>3. flush' = [flush EXCEPT !.copy = f]
        BY <1>2, <3>1 DEF TypeOK
      <4>4. \A q \in Paths \ late : f.rules[q] = flush.copy.rules[q]
        BY <2>2 DEF StoredRecs
      <4>5. f.groups = flush.copy.groups
        BY <2>2 DEF StoredRecs
      <4> QED BY <4>2, <4>3, <4>4, <4>5
    <3>2. ASSUME Nil \in late, flush' = [flush EXCEPT !.copy.groups = groups]
          PROVE  \E f \in StoredRecs :
                   /\ flush' = [flush EXCEPT !.copy = f]
                   /\ \A q \in Paths \ late : f.rules[q] = flush.copy.rules[q]
                   /\ Nil \notin late => f.groups = flush.copy.groups
      <4> DEFINE f == [flush.copy EXCEPT !.groups = groups]
      <4>1. f \in StoredRecs
        BY <1>2, <2>2 DEF StoredRecs, TypeOK
      <4>2. flush' = [flush EXCEPT !.copy = f]
        BY <1>2, <3>2 DEF TypeOK
      <4>3. \A q \in Paths \ late : f.rules[q] = flush.copy.rules[q]
        BY <2>2 DEF StoredRecs
      <4> QED BY <3>2, <4>1, <4>2, <4>3
    <3> QED BY <1>9, <3>1, <3>2 DEF ReadLate
  <2>4. flush' = [pc |-> "copied", copy |-> f]
    BY <1>2, <2>1, <2>3 DEF TypeOK
  <2>5. TypeOK'
    BY <1>2, <1>5, <1>7, <2>1, <2>4 DEF TypeOK
  <2>6. CopyKept'
    BY <1>1, <1>2, <1>3, <2>1, <2>3, <2>4 DEF CopyKept
  <2>7. SavedKept' /\ BoltIsCurrent'
    BY <1>1, <1>2, <1>3, <2>1, <2>4 DEF SavedKept, SetBack, BoltIsCurrent
  <2> QED BY <1>4, <2>5, <2>6, <2>7 DEF IInv
<1>10. ASSUME NEW ok \in BOOLEAN, Write(ok) PROVE IInv'
  <2>1. flush.pc = "copied" /\ flush' = [pc |-> "written", copy |-> Nil]
    BY <1>10 DEF Write
  <2>2. flush.copy \in StoredRecs
    BY <1>2, <2>1 DEF TypeOK
  <2>3. CASE ok
    <3>1. saved' = flush.copy /\ dirty' = FALSE /\ late' = late
      BY <1>10, <2>3 DEF Write
    <3>2. TypeOK'
      BY <1>2, <1>5, <2>1, <2>2, <3>1 DEF TypeOK
    <3>3. CopyKept' /\ BoltIsCurrent'
      BY <1>1, <1>2, <1>3, <2>1, <3>1 DEF CopyKept, BoltIsCurrent
    <3>4. SavedKept'
      BY <1>1, <1>2, <1>3, <2>1, <3>1 DEF CopyKept, SavedKept, SetBack, EntriesKept
    <3> QED BY <1>4, <3>2, <3>3, <3>4 DEF IInv
  <2>4. CASE ~ok
    <3>1. saved' = saved /\ dirty' = dirty /\ late' = {}
      BY <1>10, <2>4 DEF Write
    <3>2. TypeOK'
      BY <1>2, <1>5, <2>1, <3>1 DEF TypeOK
    <3>3. CopyKept' /\ BoltIsCurrent'
      BY <1>1, <1>2, <1>3, <2>1, <3>1 DEF CopyKept, BoltIsCurrent
    <3>4. SavedKept'
      BY <1>1, <1>2, <2>1, <3>1 DEF SavedKept, SetBack
    <3> QED BY <1>4, <3>2, <3>3, <3>4 DEF IInv
  <2> QED BY <2>3, <2>4
<1> QED BY <1>8, <1>9, <1>10

\* There are objects enough for all paths.
LEMMA FixedOK ==
  /\ Fixed \in [Paths -> Ids]
  /\ \A p, q \in Paths : Fixed[p] = Fixed[q] => p = q
  BY AccessAssumption DEF Fixed

LEMMA BlankOK ==
  /\ Blank \in StoredRecs
  /\ \A p \in Paths : Blank.rules[p] = {}
  BY DEF Blank, GroupMap, StoredRecs

LEMMA RestartOK ==
  ASSUME IInv, NEW wiped \in BOOLEAN, Restart(wiped)
  PROVE  IInv'
<1>1. TypeOK /\ EntriesKept /\ SavedKept
  BY DEF IInv
<1>2. saved' \in StoredRecs
  <2>1. CASE wiped
    BY <2>1, BlankOK DEF Restart
  <2>2. CASE ~wiped
    BY <1>1, <2>2 DEF Restart, TypeOK
  <2>. QED
    BY <2>1, <2>2
<1>. DEFINE id(p) == Fixed[p]
            owner(i) == CHOOSE p \in Paths : Fixed[p] = i
<1>3. /\ rules' = [p \in Paths |-> IF saved'.rules[p] = {} THEN Nil ELSE Fixed[p]]
      /\ heap' = [i \in Ids |-> IF \E p \in Paths : Fixed[p] = i THEN saved'.rules[owner(i)] ELSE {}]
      /\ groups' = saved'.groups
  BY DEF Restart
<1>4. \A p \in Paths : Fixed[p] \in Ids /\ owner(Fixed[p]) = p
  BY FixedOK
<1>5. \A i \in Ids : (\E p \in Paths : Fixed[p] = i) => owner(i) \in Paths
  OBVIOUS
<1>. HIDE DEF owner
<1>6. \A p \in Paths : heap'[Fixed[p]] = saved'.rules[p]
  BY <1>3, <1>4
<1>7. \A p \in Paths : Says(p)' = saved'.rules[p]
  <2>1. ASSUME NEW p \in Paths PROVE Says(p)' = saved'.rules[p]
    <3>1. CASE saved'.rules[p] = {}
      BY <1>3, <3>1 DEF Says
    <3>2. CASE saved'.rules[p] # {}
      <4>1. rules'[p] = Fixed[p] /\ rules'[p] # Nil
        BY <1>3, <1>4, <3>2, AccessAssumption
      <4>. QED
        BY <1>6, <4>1 DEF Says
    <3>. QED
      BY <3>1, <3>2
  <2>. QED
    BY <2>1
<1>8. RulesOK'
  <2>1. rules' \in [Paths -> Ids \cup {Nil}]
    BY <1>3, <1>4
  <2>2. heap' \in [Ids -> SUBSET Marks]
    BY <1>2, <1>3, <1>5 DEF StoredRecs
  <2>3. \A p, q \in Paths : rules'[p] # Nil /\ rules'[p] = rules'[q] => p = q
    BY <1>3, FixedOK
  <2>4. \A p \in Paths : rules'[p] # Nil => heap'[rules'[p]] # {}
    BY <1>3, <1>6
  <2>. QED
    BY <2>1, <2>2, <2>3, <2>4 DEF RulesOK
<1>9. /\ told' = [p \in Paths |-> IF wiped \/ (flush.pc = "written" /\ p \in late)
                                  THEN [m \in Marks |-> "unknown"] ELSE told[p]]
      /\ flush' = NoFlush /\ late' = {}
  BY DEF Restart
<1>10. saved' = IF wiped THEN Blank ELSE saved
  BY DEF Restart
<1>11. EntriesKept' /\ SavedKept'
  <2>1. CASE wiped
    BY <1>9, <2>1 DEF EntriesKept, SavedKept
  <2>2. CASE ~wiped
    BY <1>1, <1>7, <1>9, <1>10, <2>2 DEF EntriesKept, SavedKept, SetBack
  <2>. QED
    BY <2>1, <2>2
<1>12. BoltIsCurrent' /\ CopyKept'
  <2>1. \A p \in Paths : saved'.rules[p] = Says(p)'
    BY <1>7
  <2>2. saved'.groups = groups'
    BY <1>3
  <2>3. CopyKept'
    BY <1>9 DEF CopyKept, NoFlush
  <2>. QED
    BY <2>1, <2>2, <2>3 DEF BoltIsCurrent
<1>13. /\ cache' \in [Asked -> BOOLEAN \cup {Nil}] /\ suspect' \subseteq Asked
       /\ moves' \subseteq Paths \X Paths /\ changes' \in Nat /\ dirty' \in BOOLEAN
       /\ told' \in [Paths -> [Marks -> {"in", "out", "unknown"}]]
       /\ groups' \in GroupMap /\ late' \subseteq Paths \cup {Nil}
       /\ flush' \in [pc : {"up", "copied", "written"}, copy : StoredRecs \cup {Nil}]
       /\ flush'.pc = "copied" => flush'.copy \in StoredRecs
  <2>1. cache' \in [Asked -> BOOLEAN \cup {Nil}] /\ suspect' \subseteq Asked
    BY DEF Restart
  <2>2. moves' \subseteq Paths \X Paths /\ changes' \in Nat /\ dirty' \in BOOLEAN
    BY <1>1 DEF Restart, TypeOK
  <2>3. told' \in [Paths -> [Marks -> {"in", "out", "unknown"}]]
    BY <1>1, <1>9 DEF TypeOK
  <2>4. groups' \in GroupMap
    BY <1>2, <1>3 DEF StoredRecs
  <2>. QED
    BY <1>9, <2>1, <2>2, <2>3, <2>4 DEF NoFlush
<1>14. CallsOK'
  <2>1. Idle \in Call /\ Idle.pc = "idle"
    BY DEF Idle, Fresh, Call, Places
  <2>2. call' = [c \in Calls |-> Idle]
    BY DEF Restart
  <2>. QED
    BY <2>1, <2>2 DEF CallsOK
<1>15. TypeOK'
  BY <1>2, <1>8, <1>13, <1>14 DEF TypeOK, CallsOK
<1>. QED
  BY <1>11, <1>12, <1>15 DEF IInv

-------------------------------------------------------------------------------
(* The invariant, and what follows from it. *)

LEMMA InitOK == Init => IInv
<1>. SUFFICES ASSUME Init PROVE IInv
  OBVIOUS
<1>. USE DEF Init
<1>1. \A p \in Paths : Says(p) = {}
  BY DEF Says
<1>2. saved = [rules |-> [p \in Paths |-> {}], groups |-> groups]
  BY DEF Blank
<1>3. BoltIsCurrent /\ CopyKept
  <2>1. CopyKept
    BY DEF CopyKept, NoFlush
  <2>2. (\A p \in Paths : saved.rules[p] = Says(p)) /\ saved.groups = groups
    BY <1>1, <1>2
  <2>. QED
    BY <2>1, <2>2 DEF BoltIsCurrent
<1>4. EntriesKept /\ SavedKept
  BY <1>1, <1>2 DEF EntriesKept, SavedKept, AllOut
<1>5. Idle \in Call /\ Idle.pc = "idle"
  BY DEF Idle, Fresh, Call, Places
<1>6. RulesOK
  BY DEF RulesOK
<1>7. saved \in StoredRecs
  <2>1. groups \in GroupMap
    OBVIOUS
  <2>. HIDE DEF Init
  <2>. QED
    BY <1>2, <2>1 DEF StoredRecs
<1>8. CallsOK
  BY <1>5 DEF CallsOK
<1>9. /\ cache \in [Asked -> BOOLEAN \cup {Nil}] /\ suspect \subseteq Asked
      /\ moves \subseteq Paths \X Paths /\ changes \in Nat /\ dirty \in BOOLEAN
      /\ groups \in GroupMap /\ late \subseteq Paths \cup {Nil}
      /\ flush \in [pc : {"up", "copied", "written"}, copy : StoredRecs \cup {Nil}]
      /\ flush.pc = "copied" => flush.copy \in StoredRecs
  BY DEF NoFlush
<1>10. told \in [Paths -> [Marks -> {"in", "out", "unknown"}]]
  BY DEF AllOut
<1>. HIDE DEF Init
<1>11. TypeOK
  BY <1>6, <1>7, <1>8, <1>9, <1>10 DEF TypeOK, CallsOK
<1>. QED
  BY <1>3, <1>4, <1>11 DEF IInv

LEMMA NextOK == IInv /\ [Next]_vars => IInv'
<1>. SUFFICES ASSUME IInv, [Next]_vars PROVE IInv'
  OBVIOUS
<1>1. CASE Administer
  <2>1. \A e \in Edited : e[1] \in Paths /\ e[2] \in Marks
    BY AccessAssumption
  <2>2. PICK ok \in BOOLEAN :
          \/ \E e \in Edited : \/ AddMark(e[1], e[2], ok) \/ RemoveMark(e[1], e[2], ok)
                               \/ RemoveMissing(e[1], e[2]) \/ Cascade(e[1], e[2], ok)
          \/ \E p, q \in Paths : UpdateRulePath(p, q, ok) \/ UpdateRules(p, q, ok)
          \/ \E g \in Groups, u \in Users :
               AddUserToGroup(g, u, ok) \/ RemoveUserFromGroup(g, u, ok)
          \/ \E u \in Users, in \in SUBSET Groups : SyncUserGroups(u, in, ok)
    BY <1>1 DEF Administer
  <2>3. ASSUME NEW e \in Edited, \/ AddMark(e[1], e[2], ok) \/ RemoveMark(e[1], e[2], ok)
                                 \/ RemoveMissing(e[1], e[2]) \/ Cascade(e[1], e[2], ok)
        PROVE  IInv'
    BY <2>1, <2>3, AddMarkOK, RemoveMarkOK, RemoveMissingOK, CascadeOK
  <2>4. ASSUME NEW p \in Paths, NEW q \in Paths, UpdateRulePath(p, q, ok) \/ UpdateRules(p, q, ok)
        PROVE  IInv'
    BY <2>4, UpdateRulePathOK, UpdateRulesOK
  <2>5. ASSUME NEW g \in Groups, NEW u \in Users,
               AddUserToGroup(g, u, ok) \/ RemoveUserFromGroup(g, u, ok)
        PROVE  IInv'
    BY <2>5, GroupStepsOK
  <2>6. ASSUME NEW u \in Users, NEW in \in SUBSET Groups, SyncUserGroups(u, in, ok)
        PROVE  IInv'
    BY <2>6, SyncUserGroupsOK
  <2>. QED
    BY <2>2, <2>3, <2>4, <2>5, <2>6
<1>2. CASE \E p, q \in Paths : Rename(p, q)
  BY <1>2, RenameOK
<1>3. CASE \E c \in Calls : Check(c)
  BY <1>3, CheckOK
<1>4. CASE \E x \in Asked : Evict(x)
  BY <1>4, EvictOK
<1>5. CASE \E wiped \in BOOLEAN : Restart(wiped)
  BY <1>5, RestartOK
<1>7. CASE Flush \/ ReadLate \/ \E ok \in BOOLEAN : Write(ok)
  BY <1>7, FlushOK
<1>6. CASE UNCHANGED vars
  <2>1. UNCHANGED <<rules, heap, groups, saved, cache, call, flush, told, dirty, late, suspect>>
    BY <1>6 DEF vars
  <2>2. moves' \subseteq Paths \X Paths /\ changes' \in Nat
    BY <1>6 DEF vars, IInv, TypeOK
  <2>. QED
    BY <2>1, <2>2, StillOK
<1>. QED
  BY <1>1, <1>2, <1>3, <1>4, <1>5, <1>6, <1>7 DEF Next

LEMMA Invariance == Spec => []IInv
  BY InitOK, NextOK, PTL DEF Spec

(* The variables keep their types, and the rules are well formed.              *)
THEOREM AccessTypeCorrect == Spec => []TypeOK
<1>1. IInv => TypeOK
  BY DEF IInv
<1>. QED
  BY <1>1, Invariance, PTL

(* What an administrator was told of an entry stays true until somebody changes *)
(* that entry or moves its rule, through restarts and failed saves; what is told *)
(* while a shutdown writes its copy may be lost with the restart.               *)
THEOREM EntriesKeptAlways == Spec => []EntriesKept
<1>1. IInv => EntriesKept
  BY DEF IInv
<1>. QED
  BY <1>1, Invariance, PTL

(* BoltDB holds the rules and groups of memory unless a save failed, or a rule  *)
(* was dropped without one, since, or the last write of a shutdown set back what *)
(* changed while it was under way.                                            *)
THEOREM BoltIsCurrentAlways == Spec => []BoltIsCurrent
<1>1. IInv => BoltIsCurrent
  BY DEF IInv
<1>. QED
  BY <1>1, Invariance, PTL
-------------------------------------------------------------------------------
(* What Permitted answers, for any number of users, groups, paths and calls.  *)
(* A call takes the lock anew for each directory and reads the rules it found  *)
(* without it, so what it has read need not be what the rules say at any one   *)
(* moment.  As long as at most one mark of one path changes, it is: the proof   *)
(* keeps, for each call, a state of the rules that agrees with all the call has  *)
(* read so far, and will agree with what it has yet to read.                    *)

(* Paths. *)

\* The first n names of a path.
LEMMA Prefix ==
  ASSUME NEW s \in Seq(STRING), NEW n \in Nat, n <= Len(s)
  PROVE  /\ SubSeq(s, 1, n) \in Seq(STRING) /\ Len(SubSeq(s, 1, n)) = n
         /\ \A i \in 1 .. n : SubSeq(s, 1, n)[i] = s[i]
<1>1. Len(s) \in Nat /\ 1 \in 1 .. Len(s) + 1 /\ n \in 1 - 1 .. Len(s)
  BY LenProperties
<1>2. SubSeq(s, 1, n) \in Seq(STRING) /\ Len(SubSeq(s, 1, n)) = n - 1 + 1
  BY <1>1, SubSeqProperties
<1>3. \A i \in 1 .. n - 1 + 1 : SubSeq(s, 1, n)[i] = s[1 + i - 1]
  BY <1>1, SubSeqProperties
<1> QED BY <1>1, <1>2, <1>3

\* Of two directories above p, the shorter is above the longer.
LEMMA AboveBoth ==
  ASSUME NEW p \in Paths, NEW q \in Paths, NEW n \in Paths,
         Above(q, p), Above(n, p), Len(n) <= Len(q)
  PROVE  Above(n, q)
<1>1. p \in Seq(STRING) /\ q \in Seq(STRING) /\ n \in Seq(STRING)
  BY AccessAssumption
<1>2. Len(n) \in Nat /\ Len(q) \in Nat /\ Len(p) \in Nat /\ Len(n) <= Len(p) /\ Len(q) <= Len(p)
  BY <1>1, LenProperties DEF Above
<1>3. q = SubSeq(p, 1, Len(q)) /\ n = SubSeq(p, 1, Len(n))
  BY DEF Above
<1>4. \A i \in 1 .. Len(q) : q[i] = p[i]
  BY <1>1, <1>2, <1>3, Prefix
<1>5. \A i \in 1 .. Len(n) : n[i] = p[i]
  BY <1>1, <1>2, <1>3, Prefix
<1>6. /\ SubSeq(q, 1, Len(n)) \in Seq(STRING) /\ Len(SubSeq(q, 1, Len(n))) = Len(n)
      /\ \A i \in 1 .. Len(n) : SubSeq(q, 1, Len(n))[i] = q[i]
  BY <1>1, <1>2, Prefix
<1>7. \A i \in 1 .. Len(n) : n[i] = SubSeq(q, 1, Len(n))[i]
  BY <1>2, <1>4, <1>5, <1>6
<1>8. n = SubSeq(q, 1, Len(n))
  BY <1>1, <1>6, <1>7, SeqEqual
<1> QED BY <1>2, <1>8 DEF Above

\* A directory above p is known by its depth.
LEMMA AboveOnly ==
  ASSUME NEW p, NEW q, NEW n, Above(q, p), Above(n, p), Len(n) = Len(q)
  PROVE  n = q
BY DEF Above

\* Every path is above itself, and so is the parent of whatever is above it.
LEMMA AboveSelf == ASSUME NEW p \in Paths PROVE Above(p, p)
<1>1. p \in Seq(STRING)
  BY AccessAssumption
<1>2. Len(p) \in Nat
  BY <1>1, LenProperties
<1>3. /\ SubSeq(p, 1, Len(p)) \in Seq(STRING) /\ Len(SubSeq(p, 1, Len(p))) = Len(p)
      /\ \A i \in 1 .. Len(p) : SubSeq(p, 1, Len(p))[i] = p[i]
  BY <1>1, <1>2, Prefix
<1>4. p = SubSeq(p, 1, Len(p))
  BY <1>1, <1>3, SeqEqual
<1> QED BY <1>2, <1>4 DEF Above

LEMMA AboveUp ==
  ASSUME NEW p \in Paths, NEW l \in Paths, Above(l, p), l # <<>>
  PROVE  LET up == SubSeq(l, 1, Len(l) - 1)
         IN  up \in Paths /\ Above(up, p) /\ Len(up) = Len(l) - 1
<1>1. p \in Seq(STRING) /\ l \in Seq(STRING)
  BY AccessAssumption
<1>2. Len(l) \in Nat /\ Len(p) \in Nat /\ Len(l) - 1 \in Nat /\ Len(l) <= Len(p)
  BY <1>1, LenProperties, EmptySeq DEF Above
<1>3. \A i \in 1 .. Len(l) : l[i] = p[i]
  BY <1>1, <1>2, Prefix DEF Above
<1>4. PICK m \in Nat : m = Len(l) - 1 /\ m <= Len(l) /\ m <= Len(p)
  <2>1. Len(l) - 1 <= Len(l) /\ Len(l) - 1 <= Len(p)
    BY <1>2
  <2> QED BY <1>2, <2>1, Zenon
<1>5. SubSeq(l, 1, m) \in Seq(STRING) /\ Len(SubSeq(l, 1, m)) = m
      /\ \A i \in 1 .. m : SubSeq(l, 1, m)[i] = l[i]
  BY <1>1, <1>4, Prefix
<1>6. SubSeq(p, 1, m) \in Seq(STRING) /\ Len(SubSeq(p, 1, m)) = m
      /\ \A i \in 1 .. m : SubSeq(p, 1, m)[i] = p[i]
  BY <1>1, <1>4, Prefix
<1>7. \A i \in 1 .. m : SubSeq(l, 1, m)[i] = SubSeq(p, 1, m)[i]
  BY <1>2, <1>3, <1>4, <1>5, <1>6
<1>8. SubSeq(l, 1, m) = SubSeq(p, 1, m)
  BY <1>5, <1>6, <1>7, SeqEqual
<1>9. SubSeq(l, 1, m) \in Paths
  BY <1>4, AccessAssumption
<1> QED BY <1>4, <1>5, <1>8, <1>9 DEF Above

-------------------------------------------------------------------------------
(* What is permitted where the rules are V. *)

View == [p \in Paths |-> Says(p)]

Naming(V, q, u) == \E l \in {"deny", "allow"}, w \in Who(u) : <<l, w>> \in V[q]
Denying(V, q, u) == \E w \in Who(u) : <<"deny", w>> \in V[q]

PermittedIn(V, p, u) ==
  LET up == {q \in Paths : Above(q, p)}
      naming == {q \in up : Naming(V, q, u)}
  IN  IF naming # {}
      THEN \A q \in naming : (\A n \in naming : Above(n, q)) => ~Denying(V, q, u)
      ELSE ~DenyByDefault /\ \A q \in up : DenyAll \notin V[q]

LEMMA PermittedView == ASSUME NEW p, NEW u PROVE Permitted(p, u) = PermittedIn(View, p, u)
<1>1. \A q \in Paths : View[q] = Says(q)
  BY DEF View
<1>2. \A q \in Paths : Naming(View, q, u) <=> Names(Says(q), u, {"deny", "allow"})
  BY <1>1 DEF Naming, Names
<1>3. \A q \in Paths : Denying(View, q, u) <=> Names(Says(q), u, {"deny"})
  BY <1>1 DEF Denying, Names
<1> QED BY <1>1, <1>2, <1>3 DEF Permitted, PermittedIn

\* The deepest rule that names the user decides.
LEMMA Deepest ==
  ASSUME NEW V, NEW p \in Paths, NEW u, NEW q \in Paths, Above(q, p), Naming(V, q, u),
         \A n \in Paths : Above(n, p) /\ Naming(V, n, u) => Len(n) <= Len(q)
  PROVE  PermittedIn(V, p, u) = ~Denying(V, q, u)
<1>1. \A n \in Paths : Above(n, p) /\ Naming(V, n, u) => Above(n, q)
  BY AboveBoth
<1>2. \A n \in Paths : Len(n) \in Nat
  BY AccessAssumption, LenProperties
<1>3. \A n \in Paths : Above(n, p) /\ Naming(V, n, u) /\ Above(q, n) => n = q
  BY <1>1, <1>2, AboveOnly DEF Above
<1> QED BY <1>1, <1>3 DEF PermittedIn

\* If none names the user, DenyAll and the default do.
LEMMA NoneNames ==
  ASSUME NEW V, NEW p \in Paths, NEW u,
         \A q \in Paths : Above(q, p) => ~Naming(V, q, u)
  PROVE  PermittedIn(V, p, u) = (~DenyByDefault /\ \A q \in Paths : Above(q, p) => DenyAll \notin V[q])
BY DEF PermittedIn

-------------------------------------------------------------------------------
(* What a call has read. *)

\* The call has looked for a rule at path q already.
Visited(k, q) == Above(q, k.ask[1]) /\ (k.pc = "look" => Len(q) > Len(k.level))

\* It has yet to look for mark m in the n-th rule it found.
Unread(k, n, m) ==
  \/ k.pc = "look"
  \/ k.pc \in {"deny", "allow"} /\ n > k.at
  \/ k.pc = "deny" /\ n = k.at
  \/ k.pc = "allow" /\ n = k.at /\ m[1] # "deny"
  \/ m = DenyAll

Agreeing(k, V, P) ==
  \A n \in DOMAIN k.found, m \in Marks : Unread(k, n, m) => (m \in heap[k.found[n]] <=> m \in V[P[n]])

Passed(k, V, P) ==
  \A n \in DOMAIN k.found, l \in {"deny", "allow"}, w \in Who(k.ask[2]) :
    ~Unread(k, n, <<l, w>>) => <<l, w>> \notin V[P[n]]

(* Call k has read what it would have read were the rules V, where P is the path  *)
(* of each rule it has found, and will read that from here on.                   *)
Progress(k, V, P) ==
  /\ P \in [DOMAIN k.found -> Paths]
  /\ \A n \in DOMAIN k.found : Visited(k, P[n])
  /\ \A n, j \in DOMAIN k.found : n < j => Len(P[n]) > Len(P[j])
  /\ \A q \in Paths : Visited(k, q) /\ V[q] # {} => \E n \in DOMAIN k.found : P[n] = q
  /\ \A q \in Paths : Above(q, k.ask[1]) /\ ~Visited(k, q) => V[q] = Says(q)
  /\ Agreeing(k, V, P)
  /\ Passed(k, V, P)
  /\ k.pc \in {"deny", "allow"} => k.at \in DOMAIN k.found
  /\ k.pc = "look" => k.at = 1 /\ k.level \in Paths /\ Above(k.level, k.ask[1])
  /\ k.verdict = FALSE

Views == [Paths -> SUBSET Marks]

\* The marks that name a user are marks.
LEMMA NamingMarks ==
  ASSUME TypeOK, NEW x \in Asked, NEW l \in {"deny", "allow"}, NEW w \in Who(x[2])
  PROVE  <<l, w>> \in Marks /\ <<l, w>> # DenyAll /\ <<l, w>>[1] = l
<1>1. w \in Users \cup Groups
  BY AccessAssumption DEF Who
<1> QED BY <1>1 DEF Marks, DenyAll

LEMMA ViewType == ASSUME TypeOK PROVE View \in Views /\ \A p \in Paths : View[p] = Says(p)
BY DEF View, Views, Says, TypeOK, RulesOK

\* A call that begins has read nothing.
LEMMA AskProgress ==
  ASSUME NEW x \in Asked, NEW b \in BOOLEAN
  PROVE  LET k == Fresh("look", x, x[1], {b})
         IN  DOMAIN k.found = {} /\ \A P \in [{} -> Paths] : Progress(k, View, P)
<1> DEFINE k == Fresh("look", x, x[1], {b})
<1>1. k.found = <<>> /\ k.pc = "look" /\ k.level = x[1] /\ k.ask = x /\ k.at = 1 /\ k.verdict = FALSE
  BY DEF Fresh
<1>2. x[1] \in Paths /\ DOMAIN k.found = {}
  BY <1>1, AccessAssumption
<1>3. Above(x[1], x[1])
  BY <1>2, AboveSelf
<1>4. \A q \in Paths : ~Visited(k, q)
  <2>1. \A q \in Paths : Len(q) \in Nat
    BY AccessAssumption, LenProperties
  <2> QED BY <1>1, <1>2, <2>1 DEF Visited, Above
<1>5. \A q \in Paths : View[q] = Says(q)
  BY DEF View
<1>6. \A P \in [{} -> Paths] : Progress(k, View, P)
  <2> HIDE DEF k
  <2> QED BY <1>1, <1>2, <1>3, <1>4, <1>5 DEF Progress, Agreeing, Passed
<1> QED BY <1>2, <1>6

(* The next directory on the way up.                                          *)
Looked(k) ==
  LET found == IF rules[k.level] = Nil THEN k.found ELSE Append(k.found, rules[k.level])
  IN  IF k.level # <<>>
      THEN [k EXCEPT !.found = found, !.level = SubSeq(k.level, 1, Len(k.level) - 1)]
      ELSE [k EXCEPT !.found = found, !.level = Nil,
                     !.pc = IF found = <<>> THEN "last" ELSE "deny"]

\* The rules the call has found are still where it found them.
InPlace(k, P) == \A n \in DOMAIN k.found : k.found[n] = rules[P[n]]

LEMMA LookProgress ==
  ASSUME TypeOK, NEW k \in Call, k.pc = "look", k.ask \in Asked, NEW V \in Views, NEW P, Progress(k, V, P),
         NEW new, new = Looked(k)
  PROVE  \E Q : Progress(new, V, Q) /\ (InPlace(k, P) => InPlace(new, Q))
<1> DEFINE l == k.level
           p == k.ask[1]
           found == IF rules[l] = Nil THEN k.found ELSE Append(k.found, rules[l])
           size == Len(k.found)
<1>1. l \in Paths /\ Above(l, p) /\ p \in Paths /\ k.at = 1 /\ k.verdict = FALSE
  BY AccessAssumption DEF Progress
<1>2. k.found \in Seq(Ids) /\ size \in Nat /\ DOMAIN k.found = 1 .. size
  BY LenProperties DEF Call
<1>3. \A q \in Paths : Len(q) \in Nat
  BY AccessAssumption, LenProperties
<1>4. /\ new.found = found /\ new.ask = k.ask /\ new.at = 1 /\ new.verdict = FALSE
      /\ new.pc = IF l # <<>> THEN "look" ELSE IF found = <<>> THEN "last" ELSE "deny"
      /\ l # <<>> => new.level = SubSeq(l, 1, Len(l) - 1)
  <2>1. new = IF l # <<>>
              THEN [k EXCEPT !.found = found, !.level = SubSeq(l, 1, Len(l) - 1)]
              ELSE [k EXCEPT !.found = found, !.level = Nil,
                             !.pc = IF found = <<>> THEN "last" ELSE "deny"]
    BY DEF Looked
  <2> HIDE DEF found, l
  <2> QED BY <1>1, <2>1 DEF Call, l
<1>5. \A q \in Paths : Visited(new, q) <=> Visited(k, q) \/ q = l
  <2>1. CASE l # <<>>
    <3>1. new.pc = "look" /\ Len(new.level) = Len(l) - 1
      BY <1>1, <1>4, <2>1, AboveUp
    <3>2. \A q \in Paths : Above(q, p) => (Len(q) > Len(l) - 1 <=> Len(q) > Len(l) \/ q = l)
      BY <1>1, <1>3, AboveOnly
    <3> QED BY <1>1, <1>4, <3>1, <3>2 DEF Visited
  <2>2. CASE l = <<>>
    <3>1. new.pc # "look"
      BY <1>4, <2>2
    <3>2. \A q \in Paths : Len(q) > Len(l) \/ q = l
      BY <1>3, <2>2, EmptySeq, AccessAssumption
    <3> QED BY <1>1, <1>4, <3>1, <3>2 DEF Visited
  <2> QED BY <2>1, <2>2
<1>6. new.pc = "look" => new.level \in Paths /\ Above(new.level, p)
  BY <1>1, <1>4, AboveUp
<1>7. ~Visited(k, l) /\ V[l] = Says(l)
  BY <1>1, <1>3 DEF Visited, Progress
<1>8. \A n \in DOMAIN k.found, m \in Marks : m \in heap[k.found[n]] <=> m \in V[P[n]]
  BY DEF Progress, Agreeing, Unread
<1>9. \A n \in DOMAIN new.found, m \in Marks : Unread(new, n, m)
  <2>1. CASE new.pc = "look"
    BY <2>1 DEF Unread
  <2>2. CASE new.pc = "last"
    BY <1>4, <2>2
  <2>3. CASE new.pc = "deny"
    <3>1. found \in Seq(Ids)
      BY <1>1, <1>2 DEF TypeOK, RulesOK
    <3>2. \A n \in DOMAIN found : n \in Nat /\ n >= 1
      BY <3>1, LenProperties
    <3> QED BY <1>4, <2>3, <3>2 DEF Unread
  <2> QED BY <1>4, <2>1, <2>2, <2>3
<1>10. \A q \in Paths : Above(q, p) /\ ~Visited(new, q) => V[q] = Says(q)
  BY <1>5 DEF Progress
<1>11. \A q \in Paths : Visited(k, q) /\ V[q] # {} => \E n \in DOMAIN k.found : P[n] = q
  BY DEF Progress
<1>12. new.pc \in {"deny", "allow"} => new.at \in DOMAIN new.found
  <2>1. found \in Seq(Ids)
    BY <1>1, <1>2 DEF TypeOK, RulesOK
  <2>2. found # <<>> => 1 \in DOMAIN found
    BY <2>1, LenProperties, EmptySeq
  <2> QED BY <1>4, <2>2
<1>13. CASE rules[l] = Nil
  <2>1. V[l] = {} /\ new.found = k.found
    BY <1>4, <1>7, <1>13 DEF Says
  <2>2. /\ P \in [DOMAIN new.found -> Paths]
        /\ \A n \in DOMAIN new.found : Visited(new, P[n])
        /\ \A n, j \in DOMAIN new.found : n < j => Len(P[n]) > Len(P[j])
    BY <1>5, <2>1 DEF Progress
  <2>3. \A q \in Paths : Visited(new, q) /\ V[q] # {} => \E n \in DOMAIN new.found : P[n] = q
    BY <1>5, <1>11, <2>1
  <2>4. Agreeing(new, V, P) /\ Passed(new, V, P)
    BY <1>4, <1>8, <1>9, <2>1, NamingMarks DEF Agreeing, Passed
  <2> HIDE DEF found
  <2>5. Progress(new, V, P)
    BY <1>4, <1>6, <1>10, <1>12, <2>2, <2>3, <2>4 DEF Progress
  <2>6. InPlace(k, P) => InPlace(new, P)
    BY <2>1 DEF InPlace
  <2> QED BY <2>5, <2>6
<1>14. CASE rules[l] # Nil
  <2> DEFINE Q == [n \in 1 .. size + 1 |-> IF n <= size THEN P[n] ELSE l]
  <2>1. rules[l] \in Ids /\ found = Append(k.found, rules[l])
    BY <1>1, <1>14 DEF TypeOK, RulesOK
  <2>2. /\ DOMAIN found = 1 .. size + 1 /\ found[size + 1] = rules[l]
        /\ \A n \in 1 .. size : found[n] = k.found[n]
    BY <1>2, <2>1, AppendProperties
  <2>3. P \in [1 .. size -> Paths] /\ \A n \in 1 .. size : Visited(k, P[n])
    BY <1>2 DEF Progress
  <2>4. Q \in [1 .. size + 1 -> Paths] /\ Q[size + 1] = l /\ \A n \in 1 .. size : Q[n] = P[n]
    BY <1>1, <1>2, <2>3
  <2> HIDE DEF Q
  <2>5. \A n \in 1 .. size + 1 : Visited(new, Q[n])
    <3>1. \A n \in 1 .. size : Q[n] \in Paths /\ Visited(k, Q[n])
      BY <2>3, <2>4
    <3>2. \A n \in 1 .. size : Visited(new, Q[n])
      BY <1>5, <3>1
    <3>3. Visited(new, Q[size + 1])
      BY <1>1, <1>5, <2>4
    <3>4. \A n \in 1 .. size + 1 : n \in 1 .. size \/ n = size + 1
      BY <1>2
    <3> QED BY <3>2, <3>3, <3>4
  <2>6. \A n, j \in 1 .. size + 1 : n < j => Len(Q[n]) > Len(Q[j])
    <3> SUFFICES ASSUME NEW n \in 1 .. size + 1, NEW j \in 1 .. size + 1, n < j
                 PROVE  Len(Q[n]) > Len(Q[j])
      OBVIOUS
    <3>1. n \in 1 .. size
      BY <1>2
    <3>2. CASE j \in 1 .. size
      BY <1>2, <2>4, <3>1, <3>2 DEF Progress
    <3>3. CASE j = size + 1
      BY <2>3, <2>4, <3>1, <3>3 DEF Visited
    <3> QED BY <1>2, <3>2, <3>3
  <2>7. \A q \in Paths : Visited(new, q) /\ V[q] # {} => \E n \in 1 .. size + 1 : Q[n] = q
    <3> SUFFICES ASSUME NEW q \in Paths, Visited(new, q), V[q] # {} PROVE \E n \in 1 .. size + 1 : Q[n] = q
      OBVIOUS
    <3>1. CASE q = l
      BY <1>2, <2>4, <3>1
    <3>2. CASE q # l
      <4>1. PICK n \in 1 .. size : P[n] = q
        BY <1>2, <1>5, <1>11, <3>2
      <4> QED BY <1>2, <2>4, <4>1
    <3> QED BY <3>1, <3>2
  <2>8. \A n \in 1 .. size + 1, m \in Marks : m \in heap[found[n]] <=> m \in V[Q[n]]
    <3> SUFFICES ASSUME NEW n \in 1 .. size + 1, NEW m \in Marks
                 PROVE  m \in heap[found[n]] <=> m \in V[Q[n]]
      OBVIOUS
    <3>1. CASE n \in 1 .. size
      BY <1>2, <1>8, <2>2, <2>4, <3>1
    <3>2. CASE n = size + 1
      BY <1>7, <1>14, <2>2, <2>4, <3>2 DEF Says
    <3> QED BY <1>2, <3>1, <3>2
  <2>9. new.found = found /\ DOMAIN new.found = 1 .. size + 1
    BY <1>4, <2>2
  <2> HIDE DEF found
  <2>10. Agreeing(new, V, Q) /\ Passed(new, V, Q)
    BY <1>4, <1>9, <2>8, <2>9, NamingMarks DEF Agreeing, Passed
  <2>11. Progress(new, V, Q)
    BY <1>4, <1>6, <1>10, <1>12, <2>4, <2>5, <2>6, <2>7, <2>9, <2>10 DEF Progress
  <2>12. InPlace(k, P) => InPlace(new, Q)
    <3> SUFFICES ASSUME \A n \in DOMAIN k.found : k.found[n] = rules[P[n]], NEW n \in 1 .. size + 1
                 PROVE  found[n] = rules[Q[n]]
      BY <2>9 DEF InPlace
    <3>1. CASE n \in 1 .. size
      BY <1>2, <2>2, <2>4, <3>1
    <3>2. CASE n = size + 1
      BY <2>2, <2>4, <3>2
    <3> QED BY <1>2, <3>1, <3>2
  <2> QED BY <2>11, <2>12
<1> QED BY <1>13, <1>14

(* What a call that judges the rules it found knows of V.                       *)
LEMMA JudgingKnows ==
  ASSUME TypeOK, NEW k \in Call, k.pc \in {"deny", "allow", "last"}, k.ask \in Asked,
         NEW V \in Views, NEW P, Progress(k, V, P)
  PROVE  /\ DOMAIN k.found = 1 .. Len(k.found) /\ Len(k.found) \in Nat
         /\ \A n \in DOMAIN k.found : P[n] \in Paths /\ Above(P[n], k.ask[1])
         /\ \A q \in Paths : Above(q, k.ask[1]) /\ V[q] # {} => \E n \in DOMAIN k.found : P[n] = q
<1>1. k.found \in Seq(Ids)
  BY DEF Call
<1>2. DOMAIN k.found = 1 .. Len(k.found) /\ Len(k.found) \in Nat
  BY <1>1, LenProperties
<1> QED BY <1>2 DEF Progress, Visited

(* The rule it judges names the user if one of the two lists does, and none before   *)
(* does: it is the deepest that names the user.                                   *)
LEMMA JudgedDecides ==
  ASSUME TypeOK, NEW k \in Call, k.pc \in {"deny", "allow"}, k.ask \in Asked,
         NEW V \in Views, NEW P, Progress(k, V, P), Naming(V, P[k.at], k.ask[2])
  PROVE  PermittedIn(V, k.ask[1], k.ask[2]) = ~Denying(V, P[k.at], k.ask[2])
<1> DEFINE u == k.ask[2]
           p == k.ask[1]
           at == k.at
<1>1. /\ DOMAIN k.found = 1 .. Len(k.found) /\ Len(k.found) \in Nat
      /\ \A n \in DOMAIN k.found : P[n] \in Paths /\ Above(P[n], p)
      /\ \A q \in Paths : Above(q, p) /\ V[q] # {} => \E n \in DOMAIN k.found : P[n] = q
  BY JudgingKnows
<1>2. at \in DOMAIN k.found /\ p \in Paths
  BY AccessAssumption DEF Progress
<1>3. ASSUME NEW n \in DOMAIN k.found, n < at PROVE ~Naming(V, P[n], u)
  <2>1. ASSUME NEW l \in {"deny", "allow"}, NEW w \in Who(u) PROVE <<l, w>> \notin V[P[n]]
    <3>1. ~Unread(k, n, <<l, w>>)
      BY <1>1, <1>2, <1>3, NamingMarks DEF Unread
    <3> QED BY <3>1 DEF Progress, Passed
  <2> QED BY <2>1 DEF Naming
<1>4. ASSUME NEW q \in Paths, Above(q, p), Naming(V, q, u) PROVE Len(q) <= Len(P[at])
  <2>1. V[q] # {}
    BY <1>4 DEF Naming
  <2>2. PICK n \in DOMAIN k.found : P[n] = q
    BY <1>1, <1>4, <2>1
  <2>3. ~(n < at)
    BY <1>3, <1>4, <2>2
  <2>4. Len(q) \in Nat /\ Len(P[at]) \in Nat
    BY <1>1, <1>2, AccessAssumption, LenProperties
  <2>5. at < n => Len(P[at]) > Len(P[n])
    BY <1>2 DEF Progress
  <2> QED BY <1>1, <1>2, <2>2, <2>3, <2>4, <2>5
<1> QED BY <1>1, <1>2, <1>4, Deepest

(* The deny lists of the rule the call is at.                                    *)
LEMMA DenyProgress ==
  ASSUME TypeOK, NEW k \in Call, k.pc = "deny", k.ask \in Asked, NEW V \in Views, NEW P, Progress(k, V, P)
  PROVE  LET denied == Names(heap[k.found[k.at]], k.ask[2], {"deny"})
         IN  /\ denied => PermittedIn(V, k.ask[1], k.ask[2]) = FALSE
             /\ ~denied => Progress([k EXCEPT !.pc = "allow"], V, P)
<1> DEFINE u == k.ask[2]
           at == k.at
           denied == Names(heap[k.found[at]], u, {"deny"})
           new == [k EXCEPT !.pc = "allow"]
<1>1. at \in DOMAIN k.found /\ at \in Nat
  BY DEF Progress, Call
<1>2. denied <=> Denying(V, P[at], u)
  <2>1. \A w \in Who(u) : <<"deny", w>> \in heap[k.found[at]] <=> <<"deny", w>> \in V[P[at]]
    BY <1>1, NamingMarks DEF Progress, Agreeing, Unread
  <2> QED BY <2>1 DEF Names, Denying
<1>3. denied => Naming(V, P[at], u)
  BY <1>2 DEF Naming, Denying
<1>4. denied => PermittedIn(V, k.ask[1], u) = FALSE
  BY <1>2, <1>3, JudgedDecides
<1>5. ASSUME ~denied PROVE Progress(new, V, P)
  <2>1. new.pc = "allow" /\ new.found = k.found /\ new.ask = k.ask /\ new.at = at /\ new.verdict = k.verdict
    BY DEF Call
  <2> HIDE DEF new
  <2>2. \A n, m : Unread(new, n, m) => Unread(k, n, m)
    BY <2>1 DEF Unread
  <2>3. Agreeing(new, V, P)
    BY <2>1, <2>2 DEF Progress, Agreeing
  <2>4. ASSUME NEW n \in DOMAIN k.found, NEW l \in {"deny", "allow"}, NEW w \in Who(u), ~Unread(new, n, <<l, w>>)
        PROVE  <<l, w>> \notin V[P[n]]
    <3>1. CASE ~Unread(k, n, <<l, w>>)
      BY <3>1 DEF Progress, Passed
    <3>2. CASE Unread(k, n, <<l, w>>)
      <4>1. n = at /\ l = "deny"
        BY <2>1, <2>4, <3>2, NamingMarks DEF Unread
      <4> QED BY <1>2, <1>5, <4>1 DEF Denying
    <3> QED BY <3>1, <3>2
  <2>5. Passed(new, V, P)
    BY <2>1, <2>4 DEF Passed
  <2>6. \A q \in Paths : Visited(new, q) <=> Visited(k, q)
    BY <2>1 DEF Visited
  <2>7. \A n \in DOMAIN k.found : P[n] \in Paths
    BY DEF Progress
  <2> HIDE DEF at, u, denied
  <2> QED BY <1>1, <2>1, <2>3, <2>5, <2>6, <2>7 DEF Progress, at
<1> QED BY <1>4, <1>5

(* Its allow lists, and the next rule.                                           *)
LEMMA AllowProgress ==
  ASSUME TypeOK, NEW k \in Call, k.pc = "allow", k.ask \in Asked, NEW V \in Views, NEW P, Progress(k, V, P)
  PROVE  LET allowed == Names(heap[k.found[k.at]], k.ask[2], {"allow"})
         IN  /\ allowed => PermittedIn(V, k.ask[1], k.ask[2]) = TRUE
             /\ ~allowed /\ k.at < Len(k.found) => Progress([k EXCEPT !.at = @ + 1, !.pc = "deny"], V, P)
             /\ ~allowed /\ ~(k.at < Len(k.found)) => Progress([k EXCEPT !.pc = "last"], V, P)
<1> DEFINE u == k.ask[2]
           at == k.at
           allowed == Names(heap[k.found[at]], u, {"allow"})
<1>1. at \in DOMAIN k.found /\ at \in Nat /\ DOMAIN k.found = 1 .. Len(k.found) /\ Len(k.found) \in Nat
  BY JudgingKnows DEF Progress, Call
<1>2. ~Denying(V, P[at], u)
  <2>1. \A w \in Who(u) : ~Unread(k, at, <<"deny", w>>)
    BY <1>1, NamingMarks DEF Unread
  <2>2. \A w \in Who(u) : <<"deny", w>> \notin V[P[at]]
    BY <1>1, <2>1 DEF Progress, Passed
  <2> QED BY <2>2 DEF Denying
<1>3. allowed <=> \E w \in Who(u) : <<"allow", w>> \in V[P[at]]
  <2>1. \A w \in Who(u) : <<"allow", w>> \in heap[k.found[at]] <=> <<"allow", w>> \in V[P[at]]
    BY <1>1, NamingMarks DEF Progress, Agreeing, Unread
  <2> QED BY <2>1 DEF Names
<1>4. allowed => PermittedIn(V, k.ask[1], u) = TRUE
  <2>1. allowed => Naming(V, P[at], u)
    BY <1>3 DEF Naming
  <2> QED BY <1>2, <2>1, JudgedDecides
<1>5. ASSUME NEW new, ~allowed,
             \/ at < Len(k.found) /\ new = [k EXCEPT !.at = @ + 1, !.pc = "deny"]
             \/ ~(at < Len(k.found)) /\ new = [k EXCEPT !.pc = "last"]
      PROVE  Progress(new, V, P)
  <2>1. /\ new.found = k.found /\ new.ask = k.ask /\ new.verdict = k.verdict
        /\ \/ new.pc = "deny" /\ new.at = at + 1 /\ at < Len(k.found)
           \/ new.pc = "last" /\ ~(at < Len(k.found))
    BY <1>5 DEF Call
  <2>2. \A n \in DOMAIN k.found, m \in Marks : Unread(new, n, m) => Unread(k, n, m)
    BY <1>1, <2>1 DEF Unread
  <2>3. Agreeing(new, V, P)
    BY <2>1, <2>2 DEF Progress, Agreeing
  <2>4. ASSUME NEW n \in DOMAIN k.found, NEW l \in {"deny", "allow"}, NEW w \in Who(u), ~Unread(new, n, <<l, w>>)
        PROVE  <<l, w>> \notin V[P[n]]
    <3>1. CASE ~Unread(k, n, <<l, w>>)
      BY <3>1 DEF Progress, Passed
    <3>2. CASE Unread(k, n, <<l, w>>)
      <4>1. n = at /\ l = "allow"
        BY <1>1, <2>1, <2>4, <3>2, NamingMarks DEF Unread
      <4> QED BY <1>3, <1>5, <4>1
    <3> QED BY <3>1, <3>2
  <2>5. Passed(new, V, P)
    BY <2>1, <2>4 DEF Passed
  <2>6. \A q \in Paths : Visited(new, q) <=> Visited(k, q)
    BY <2>1 DEF Visited
  <2>7. \A n \in DOMAIN k.found : P[n] \in Paths
    BY DEF Progress
  <2>8. new.pc \in {"deny", "allow"} => new.at \in DOMAIN new.found
    BY <1>1, <2>1
  <2> HIDE DEF at, u, allowed
  <2> QED BY <2>1, <2>3, <2>5, <2>6, <2>7, <2>8 DEF Progress
<1> QED BY <1>4, <1>5

(* No rule names the user.                                                       *)
LEMMA LastProgress ==
  ASSUME TypeOK, NEW k \in Call, k.pc = "last", k.ask \in Asked, NEW V \in Views, NEW P, Progress(k, V, P)
  PROVE  LET all == \E n \in DOMAIN k.found : DenyAll \in heap[k.found[n]]
         IN  PermittedIn(V, k.ask[1], k.ask[2]) = (~all /\ ~DenyByDefault)
<1> DEFINE u == k.ask[2]
           p == k.ask[1]
<1>1. /\ \A n \in DOMAIN k.found : P[n] \in Paths /\ Above(P[n], p)
      /\ \A q \in Paths : Above(q, p) /\ V[q] # {} => \E n \in DOMAIN k.found : P[n] = q
  BY JudgingKnows
<1>2. ASSUME NEW n \in DOMAIN k.found PROVE ~Naming(V, P[n], u)
  <2>1. \A l \in {"deny", "allow"}, w \in Who(u) : ~Unread(k, n, <<l, w>>)
    BY NamingMarks DEF Unread
  <2>2. \A l \in {"deny", "allow"}, w \in Who(u) : <<l, w>> \notin V[P[n]]
    BY <2>1 DEF Progress, Passed
  <2> QED BY <2>2 DEF Naming
<1>3. ASSUME NEW q \in Paths, Above(q, p) PROVE ~Naming(V, q, u)
  <2>1. V[q] = {} => ~Naming(V, q, u)
    BY DEF Naming
  <2> QED BY <1>1, <1>2, <1>3, <2>1
<1>4. p \in Paths
  BY AccessAssumption
<1>5. PermittedIn(V, p, u) = (~DenyByDefault /\ \A q \in Paths : Above(q, p) => DenyAll \notin V[q])
  BY <1>3, <1>4, NoneNames
<1>6. DenyAll \in Marks
  BY DEF Marks
<1>7. \A n \in DOMAIN k.found : DenyAll \in heap[k.found[n]] <=> DenyAll \in V[P[n]]
  BY <1>6 DEF Progress, Agreeing, Unread
<1>8. (\E n \in DOMAIN k.found : DenyAll \in heap[k.found[n]])
        <=> \E q \in Paths : Above(q, p) /\ DenyAll \in V[q]
  BY <1>1, <1>7
<1> QED BY <1>5, <1>8

-------------------------------------------------------------------------------
(* One mark of one path changes under a call. *)

(* Of the rules, mark m of path q; of the objects call k holds, the one at q at most. *)
SmallFor(k, q, m) ==
  /\ groups' = groups
  /\ \A p \in Paths \ {q} : Says(p)' = Says(p)
  /\ \A n \in Marks \ {m} : n \in Says(q)' <=> n \in Says(q)
  /\ \/ \A n \in DOMAIN k.found : heap'[k.found[n]] = heap[k.found[n]]
     \/ rules[q] # Nil /\ heap' = [heap EXCEPT ![rules[q]] = Says(q)']

(* A call has then read, and will read, what the rules said before, or what they say  *)
(* now, depending on whether it is past the mark.                                 *)
LEMMA SmallProgress ==
  ASSUME TypeOK, TypeOK', NEW k \in Call, k.pc \in {"look", "deny", "allow", "last"}, k.ask \in Asked,
         NEW P, Progress(k, View, P), InPlace(k, P),
         NEW q \in Paths, NEW m \in Marks, SmallFor(k, q, m),
         NEW V0, V0 = View, NEW V1, V1 = View'
  PROVE  Progress(k, V0, P)' \/ Progress(k, V1, P)'
<1> DEFINE d == DOMAIN k.found
           u == k.ask[2]
           p == k.ask[1]
<1>a. \A n \in d : k.found[n] = rules[P[n]]
  BY DEF InPlace
<1>1. /\ P \in [d -> Paths]
      /\ \A n \in d : Visited(k, P[n])
      /\ \A n, j \in d : n < j => Len(P[n]) > Len(P[j])
      /\ \A r \in Paths : Visited(k, r) /\ V0[r] # {} => \E n \in d : P[n] = r
      /\ k.pc \in {"deny", "allow"} => k.at \in d
      /\ k.pc = "look" => k.at = 1 /\ k.level \in Paths /\ Above(k.level, p)
      /\ k.verdict = FALSE
  BY DEF Progress
<1>2. /\ \A r \in Paths : V0[r] = Says(r) /\ V1[r] = Says(r)'
      /\ \A r \in Paths \ {q} : V1[r] = V0[r]
      /\ \A n \in Marks \ {m} : n \in V1[q] <=> n \in V0[q]
  BY DEF View, SmallFor
<1>3. Who(u)' = Who(u)
  BY DEF Who, SmallFor
<1>4. /\ \A n \in d, w \in Marks : Unread(k, n, w) => (w \in heap[k.found[n]] <=> w \in V0[P[n]])
      /\ \A n \in d, l \in {"deny", "allow"}, w \in Who(u) : ~Unread(k, n, <<l, w>>) => <<l, w>> \notin V0[P[n]]
  BY DEF Progress, Agreeing, Passed
<1>5. \A n, j \in d : n # j => P[n] # P[j]
  <2>1. \A n \in d : n \in Nat
    BY LenProperties DEF Call
  <2>2. \A n \in d : Len(P[n]) \in Nat
    BY <1>1, AccessAssumption, LenProperties
  <2> QED BY <1>1, <2>1, <2>2
<1>6. ASSUME NEW V,
             \A n \in d, w \in Marks : Unread(k, n, w) => (w \in heap'[k.found[n]] <=> w \in V[P[n]]),
             \A n \in d, l \in {"deny", "allow"}, w \in Who(u) : ~Unread(k, n, <<l, w>>) => <<l, w>> \notin V[P[n]],
             \A r \in Paths : Visited(k, r) /\ V[r] # {} => \E n \in d : P[n] = r,
             \A r \in Paths : Above(r, p) /\ ~Visited(k, r) => V[r] = Says(r)'
      PROVE  Progress(k, V, P)'
  <2>1. Agreeing(k, V, P)' /\ Passed(k, V, P)'
    BY <1>3, <1>6 DEF Agreeing, Passed
  <2> QED BY <1>1, <1>6, <2>1 DEF Progress
<1>7. CASE ~Visited(k, q)
  <2>1. \A n \in d : P[n] # q /\ P[n] \in Paths
    BY <1>1, <1>7
  <2>2. \A n \in d : heap'[k.found[n]] = heap[k.found[n]]
    <3>1. \A n \in d : rules[P[n]] # Nil => rules[P[n]] # rules[q]
      BY <2>1 DEF TypeOK, RulesOK
    <3>2. \A n \in d : k.found[n] \in Ids
      BY ElementOfSeq, LenProperties DEF Call
    <3>3. Nil \notin Ids
      BY AccessAssumption
    <3> QED BY <1>a, <3>1, <3>2, <3>3 DEF SmallFor, TypeOK, RulesOK
  <2>3. \A n \in d : V1[P[n]] = V0[P[n]]
    BY <1>2, <2>1
  <2>4. \A r \in Paths : Visited(k, r) /\ V1[r] # {} => \E n \in d : P[n] = r
    BY <1>1, <1>2, <1>7
  <2> QED BY <1>2, <1>4, <1>6, <2>2, <2>3, <2>4
<1>8. CASE Visited(k, q) /\ \A n \in d : heap'[k.found[n]] = heap[k.found[n]]
  <2>1. \A r \in Paths : Above(r, p) /\ ~Visited(k, r) => V0[r] = Says(r)'
    BY <1>2, <1>8
  <2> QED BY <1>1, <1>4, <1>6, <1>8, <2>1
<1>9. CASE Visited(k, q) /\ rules[q] # Nil /\ heap' = [heap EXCEPT ![rules[q]] = Says(q)']
  <2>1. V0[q] # {}
    <3>1. heap[rules[q]] # {}
      BY <1>9 DEF TypeOK, RulesOK
    <3>2. Says(q) = heap[rules[q]]
      BY <1>9 DEF Says
    <3> QED BY <1>2, <3>1, <3>2
  <2>2. PICK j \in d : P[j] = q
    BY <1>1, <1>9, <2>1
  <2>3. \A n \in d : n # j => P[n] # q /\ P[n] \in Paths
    BY <1>1, <1>5, <2>2
  <2>4. heap'[k.found[j]] = V1[q]
    BY <1>a, <1>2, <1>9, <2>2 DEF TypeOK, RulesOK
  <2>5. \A n \in d : n # j => heap'[k.found[n]] = heap[k.found[n]]
    <3>1. \A n \in d : k.found[n] \in Ids
      BY ElementOfSeq, LenProperties DEF Call
    <3>2. Nil \notin Ids
      BY AccessAssumption
    <3>3. \A r, s \in Paths : rules[r] # Nil /\ rules[r] = rules[s] => r = s
      BY DEF TypeOK, RulesOK
    <3>4. \A n \in d : n # j => k.found[n] # rules[q]
      BY <1>a, <2>3, <3>1, <3>2, <3>3
    <3> QED BY <1>9, <3>1, <3>4 DEF TypeOK, RulesOK
  <2>6. CASE Unread(k, j, m)
    <3>1. \A n \in d, w \in Marks : Unread(k, n, w) => (w \in heap'[k.found[n]] <=> w \in V1[P[n]])
      BY <1>2, <1>4, <2>2, <2>3, <2>4, <2>5
    <3>2. \A n \in d, l \in {"deny", "allow"}, w \in Who(u) : ~Unread(k, n, <<l, w>>) => <<l, w>> \notin V1[P[n]]
      <4> SUFFICES ASSUME NEW n \in d, NEW l \in {"deny", "allow"}, NEW w \in Who(u), ~Unread(k, n, <<l, w>>)
                   PROVE  <<l, w>> \notin V1[P[n]]
        OBVIOUS
      <4>1. <<l, w>> \in Marks /\ <<l, w>> \notin V0[P[n]]
        BY <1>4, NamingMarks
      <4>2. CASE n = j
        BY <1>2, <2>2, <2>6, <4>1, <4>2
      <4>3. CASE n # j
        BY <1>2, <2>3, <4>1, <4>3
      <4> QED BY <4>2, <4>3
    <3>3. \A r \in Paths : Visited(k, r) /\ V1[r] # {} => \E n \in d : P[n] = r
      BY <1>1, <1>2, <2>2
    <3> QED BY <1>2, <1>6, <3>1, <3>2, <3>3
  <2>7. CASE ~Unread(k, j, m)
    <3>1. \A n \in d, w \in Marks : Unread(k, n, w) => (w \in heap'[k.found[n]] <=> w \in V0[P[n]])
      BY <1>2, <1>4, <2>2, <2>3, <2>4, <2>5, <2>7
    <3>2. \A r \in Paths : Above(r, p) /\ ~Visited(k, r) => V0[r] = Says(r)'
      BY <1>2, <1>9
    <3> QED BY <1>1, <1>4, <1>6, <3>1, <3>2
  <2> QED BY <2>6, <2>7
<1> QED BY <1>7, <1>8, <1>9 DEF SmallFor

-------------------------------------------------------------------------------
(* The invariant. *)

\* Call k, which has seen at most one small change, follows V.
Following(k, V) ==
  /\ PermittedIn(V, k.ask[1], k.ask[2]) \in k.seen
  /\ k.pc = "store" => k.verdict = PermittedIn(V, k.ask[1], k.ask[2])
  /\ k.pc # "store" =>
       \E P : Progress(k, V, P) /\ (k.churn = 0 => InPlace(k, P))

Follows(k) ==
  /\ k.churn = 0 => Following(k, View) /\ k.seen = {Now[k.ask]}
  /\ k.churn = 1 => \E V \in Views : Following(k, V)

AnswersOK == \A c \in Calls : call[c].pc # "idle" => Follows(call[c])

PInv == IInv /\ AnswersOK /\ CacheIsCurrent

\* Where the rules are as they were, they permit what they did.
LEMMA SameRules ==
  ASSUME UNCHANGED <<rules, heap, groups>>
  PROVE  /\ View' = View /\ Now' = Now
         /\ \A V, p, u : PermittedIn(V, p, u)' = PermittedIn(V, p, u)
         /\ \A k, V, P : Progress(k, V, P)' <=> Progress(k, V, P)
<1>1. \A p : Says(p)' = Says(p)
  BY DEF Says
<1>2. \A u : Who(u)' = Who(u)
  BY DEF Who
<1>3. View' = View
  BY <1>1 DEF View
<1>4. \A V, q, u : (Naming(V, q, u)' <=> Naming(V, q, u)) /\ (Denying(V, q, u)' <=> Denying(V, q, u))
  BY <1>2 DEF Naming, Denying
<1>5. ASSUME NEW V, NEW p, NEW u PROVE PermittedIn(V, p, u)' = PermittedIn(V, p, u)
  <2> DEFINE naming == {q \in {q \in Paths : Above(q, p)} : Naming(V, q, u)}
  <2>1. naming' = naming
    BY <1>4
  <2> HIDE DEF naming
  <2> QED BY <1>4, <2>1 DEF PermittedIn, naming
<1>6. \A p, u : Permitted(p, u)' = Permitted(p, u)
  <2>1. \A p, u, l : Names(Says(p), u, l)' <=> Names(Says(p), u, l)
    BY <1>1, <1>2 DEF Names
  <2> QED BY <1>1, <2>1 DEF Permitted
<1>7. Now' = Now
  BY <1>6 DEF Now
<1>8. \A k, V, P : (Agreeing(k, V, P)' <=> Agreeing(k, V, P)) /\ (Passed(k, V, P)' <=> Passed(k, V, P))
  BY <1>2 DEF Agreeing, Passed
<1>9. \A k, V, P : Progress(k, V, P)' <=> Progress(k, V, P)
  BY <1>1, <1>8 DEF Progress
<1> QED BY <1>3, <1>5, <1>7, <1>9

LEMMA FollowingOn ==
  ASSUME UNCHANGED <<rules, heap, groups>>, NEW k, Follows(k)
  PROVE  Follows(k)'
<1>1. \A V : Following(k, V)' <=> Following(k, V)
  BY SameRules DEF Following, InPlace
<1>2. View' = View /\ Now' = Now
  BY SameRules
<1>3. CASE k.churn = 0
  <2>1. Following(k, View)'
    BY <1>1, <1>2, <1>3 DEF Follows, Following
  <2> QED BY <1>2, <1>3, <2>1 DEF Follows
<1>4. CASE k.churn = 1
  BY <1>1, <1>4 DEF Follows
<1> QED BY <1>3, <1>4 DEF Follows

\* What calls follow, said of the records.
LEMMA AnswersNext ==
  ASSUME \A d \in Calls : \E k : k = call'[d] /\ (k.pc # "idle" => Follows(k)')
  PROVE  AnswersOK'
<1> SUFFICES ASSUME NEW d \in Calls, call'[d].pc # "idle" PROVE Follows(call[d])'
  BY DEF AnswersOK
<1>1. PICK k : k = call'[d] /\ Follows(k)'
  OBVIOUS
<1> QED BY <1>1

\* One call goes on.
LEMMA OneCall ==
  ASSUME PInv, NEW c \in Calls, NEW k, UNCHANGED <<rules, heap, groups>>,
         call' = [call EXCEPT ![c] = k], k.pc = "idle" \/ Follows(k)
  PROVE  AnswersOK'
<1>1. call \in [Calls -> Call]
  BY DEF PInv, IInv, TypeOK
<1>2. ASSUME NEW d \in Calls PROVE \E j : j = call'[d] /\ (j.pc # "idle" => Follows(j)')
  <2>1. CASE d = c
    <3>1. call'[d] = k
      BY <1>1, <2>1
    <3>2. k.pc # "idle" => Follows(k)'
      BY FollowingOn
    <3> QED BY <3>1, <3>2
  <2>2. CASE d # c
    <3>1. PICK j : j = call[d]
      OBVIOUS
    <3>2. call'[d] = j
      BY <1>1, <2>2, <3>1
    <3>3. j.pc # "idle" => Follows(j)
      BY <3>1 DEF PInv, AnswersOK
    <3>4. j.pc # "idle" => Follows(j)'
      BY <3>3, FollowingOn
    <3> QED BY <3>2, <3>4
  <2> QED BY <2>1, <2>2
<1> QED BY <1>2, AnswersNext

\* A call that goes on sees what it saw.
LEMMA FollowsOn ==
  ASSUME TypeOK, NEW k, NEW new, Follows(k),
         new.churn = k.churn, new.seen = k.seen, new.ask = k.ask,
         \A V \in Views : Following(k, V) => Following(new, V)
  PROVE  Follows(new)
<1>1. View \in Views
  BY ViewType
<1> QED BY <1>1 DEF Follows

LEMMA LookFollows ==
  ASSUME PInv, NEW c \in Calls, Look(c)
  PROVE  AnswersOK'
<1> DEFINE k == call[c]
<1>1. k.pc = "look" /\ k \in Call /\ k.ask \in Asked /\ Follows(k) /\ TypeOK
  BY DEF Look, PInv, IInv, TypeOK, AnswersOK
<1>2. UNCHANGED <<rules, heap, groups>>
  BY DEF Look, Others
<1>3. PICK new : new = Looked(k)
  OBVIOUS
<1>4. call' = [call EXCEPT ![c] = new]
  BY <1>3 DEF Look, Looked
<1>5. /\ new.churn = k.churn /\ new.seen = k.seen /\ new.ask = k.ask
      /\ new.pc # "store"
  <2> DEFINE found == IF rules[k.level] = Nil THEN k.found ELSE Append(k.found, rules[k.level])
  <2>1. new = IF k.level # <<>>
              THEN [k EXCEPT !.found = found, !.level = SubSeq(k.level, 1, Len(k.level) - 1)]
              ELSE [k EXCEPT !.found = found, !.level = Nil,
                             !.pc = IF found = <<>> THEN "last" ELSE "deny"]
    BY <1>3 DEF Looked
  <2> HIDE DEF found, k
  <2> QED BY <1>1, <2>1 DEF Call
<1> HIDE DEF k
<1>6. ASSUME NEW V \in Views, Following(k, V) PROVE Following(new, V)
  <2>1. PICK P : Progress(k, V, P) /\ (k.churn = 0 => InPlace(k, P))
    BY <1>1, <1>6 DEF Following
  <2>2. \E Q : Progress(new, V, Q) /\ (InPlace(k, P) => InPlace(new, Q))
    BY <1>1, <1>3, <2>1, LookProgress
  <2> QED BY <1>5, <1>6, <2>1, <2>2 DEF Following
<1>7. Follows(new)
  BY <1>1, <1>5, <1>6, FollowsOn
<1> QED BY <1>2, <1>4, <1>7, OneCall DEF k

LEMMA JudgeDenyFollows ==
  ASSUME PInv, NEW c \in Calls, JudgeDeny(c)
  PROVE  AnswersOK'
<1> DEFINE k == call[c]
           denied == Names(heap[k.found[k.at]], k.ask[2], {"deny"})
<1>1. k.pc = "deny" /\ k \in Call /\ k.ask \in Asked /\ Follows(k) /\ TypeOK
  BY DEF JudgeDeny, PInv, IInv, TypeOK, AnswersOK
<1>2. UNCHANGED <<rules, heap, groups>>
  BY DEF JudgeDeny, Others
<1>3. PICK new : new = [k EXCEPT !.pc = IF denied THEN "store" ELSE "allow"]
  OBVIOUS
<1>4. call' = [call EXCEPT ![c] = new]
  BY <1>3 DEF JudgeDeny
<1>5. /\ new.churn = k.churn /\ new.seen = k.seen /\ new.ask = k.ask
      /\ new.found = k.found /\ new.verdict = k.verdict
      /\ new.pc = IF denied THEN "store" ELSE "allow"
  <2> HIDE DEF denied, k
  <2> QED BY <1>1, <1>3 DEF Call
<1>6. ASSUME NEW V \in Views, Following(k, V) PROVE Following(new, V)
  <2>1. PICK P : Progress(k, V, P) /\ (k.churn = 0 => InPlace(k, P))
    BY <1>1, <1>6 DEF Following
  <2>2. /\ denied => PermittedIn(V, k.ask[1], k.ask[2]) = FALSE
        /\ ~denied => Progress([k EXCEPT !.pc = "allow"], V, P)
    BY <1>1, <2>1, DenyProgress
  <2>3. k.verdict = FALSE
    BY <2>1 DEF Progress
  <2> HIDE DEF k, denied
  <2>4. CASE denied
    BY <1>5, <1>6, <2>2, <2>3, <2>4 DEF Following
  <2>5. CASE ~denied
    <3>1. new = [k EXCEPT !.pc = "allow"]
      BY <1>3, <2>5
    <3> QED BY <1>5, <1>6, <2>1, <2>2, <2>5, <3>1 DEF Following, InPlace
  <2> QED BY <2>4, <2>5
<1> HIDE DEF k, denied
<1>7. Follows(new)
  BY <1>1, <1>5, <1>6, FollowsOn
<1> QED BY <1>2, <1>4, <1>7, OneCall

LEMMA JudgeAllowFollows ==
  ASSUME PInv, NEW c \in Calls, JudgeAllow(c)
  PROVE  AnswersOK'
<1> DEFINE k == call[c]
           allowed == Names(heap[k.found[k.at]], k.ask[2], {"allow"})
<1>1. k.pc = "allow" /\ k \in Call /\ k.ask \in Asked /\ Follows(k) /\ TypeOK
  BY DEF JudgeAllow, PInv, IInv, TypeOK, AnswersOK
<1>2. UNCHANGED <<rules, heap, groups>>
  BY DEF JudgeAllow, Others
<1>3. PICK new : /\ call' = [call EXCEPT ![c] = new]
                 /\ new = IF allowed THEN [k EXCEPT !.verdict = TRUE, !.pc = "store"]
                          ELSE IF k.at < Len(k.found) THEN [k EXCEPT !.at = @ + 1, !.pc = "deny"]
                          ELSE [k EXCEPT !.pc = "last"]
  BY DEF JudgeAllow
<1>4. /\ new.churn = k.churn /\ new.seen = k.seen /\ new.ask = k.ask
      /\ new.found = k.found
      /\ allowed => new.pc = "store" /\ new.verdict = TRUE
      /\ ~allowed => new.pc # "store"
  <2> HIDE DEF allowed, k
  <2> QED BY <1>1, <1>3 DEF Call
<1>5. ASSUME NEW V \in Views, Following(k, V) PROVE Following(new, V)
  <2>1. PICK P : Progress(k, V, P) /\ (k.churn = 0 => InPlace(k, P))
    BY <1>1, <1>5 DEF Following
  <2>2. /\ allowed => PermittedIn(V, k.ask[1], k.ask[2]) = TRUE
        /\ ~allowed /\ k.at < Len(k.found) => Progress([k EXCEPT !.at = @ + 1, !.pc = "deny"], V, P)
        /\ ~allowed /\ ~(k.at < Len(k.found)) => Progress([k EXCEPT !.pc = "last"], V, P)
    <3> HIDE DEF k
    <3> QED BY <1>1, <2>1, AllowProgress
  <2> HIDE DEF k, allowed
  <2>3. CASE allowed
    BY <1>4, <1>5, <2>2, <2>3 DEF Following
  <2>4. CASE ~allowed
    <3>1. Progress(new, V, P)
      BY <1>3, <2>2, <2>4
    <3> QED BY <1>4, <1>5, <2>1, <2>4, <3>1 DEF Following, InPlace
  <2> QED BY <2>3, <2>4
<1> HIDE DEF k, allowed
<1>6. Follows(new)
  BY <1>1, <1>4, <1>5, FollowsOn
<1> QED BY <1>2, <1>3, <1>6, OneCall

LEMMA LastResortFollows ==
  ASSUME PInv, NEW c \in Calls, LastResort(c)
  PROVE  AnswersOK'
<1> DEFINE k == call[c]
           all == \E n \in DOMAIN k.found : DenyAll \in heap[k.found[n]]
<1>1. k.pc = "last" /\ k \in Call /\ k.ask \in Asked /\ Follows(k) /\ TypeOK
  BY DEF LastResort, PInv, IInv, TypeOK, AnswersOK
<1>2. UNCHANGED <<rules, heap, groups>>
  BY DEF LastResort, Others
<1>a. PICK new : new = [k EXCEPT !.verdict = ~all /\ ~DenyByDefault, !.pc = "store"]
  OBVIOUS
<1>3. call' = [call EXCEPT ![c] = new]
  BY <1>a DEF LastResort
<1>4. /\ new.churn = k.churn /\ new.seen = k.seen /\ new.ask = k.ask
      /\ new.pc = "store" /\ new.verdict = (~all /\ ~DenyByDefault)
  <2> HIDE DEF all, k
  <2> QED BY <1>1, <1>a DEF Call
<1>5. ASSUME NEW V \in Views, Following(k, V) PROVE Following(new, V)
  <2>1. PICK P : Progress(k, V, P)
    BY <1>1, <1>5 DEF Following
  <2>2. PermittedIn(V, k.ask[1], k.ask[2]) = (~all /\ ~DenyByDefault)
    BY <1>1, <2>1, LastProgress
  <2> HIDE DEF k, all
  <2> QED BY <1>4, <1>5, <2>2 DEF Following
<1> HIDE DEF k, all
<1>6. Follows(new)
  BY <1>1, <1>4, <1>5, FollowsOn
<1> QED BY <1>2, <1>3, <1>6, OneCall

LEMMA NowView ==
  ASSUME NEW x \in Asked, NEW V, V = View
  PROVE  Now[x] = PermittedIn(V, x[1], x[2])
<1>1. Now[x] = Permitted(x[1], x[2])
  BY DEF Now
<1> QED BY <1>1, PermittedView

LEMMA AskFollows ==
  ASSUME PInv, NEW c \in Calls, NEW x \in Asked, Ask(c, x)
  PROVE  AnswersOK'
<1>1. PICK k : k = Fresh("look", x, x[1], {Now[x]})
  OBVIOUS
<1>2. UNCHANGED <<rules, heap, groups>> /\ call' = [call EXCEPT ![c] = k]
  BY <1>1 DEF Ask, Others
<1>3. k.ask = x /\ k.churn = 0 /\ k.seen = {Now[x]} /\ k.pc = "look"
  BY <1>1 DEF Fresh
<1>4. Now[x] \in BOOLEAN
  BY PermittedBoolean DEF Now
<1>5. DOMAIN k.found = {} /\ \A P \in [{} -> Paths] : Progress(k, View, P)
  BY <1>1, <1>4, AskProgress
<1>6. \E P \in [{} -> Paths] : TRUE
  <2>1. [n \in {} |-> <<>>] \in [{} -> Paths]
    OBVIOUS
  <2> QED BY <2>1
<1>7. \E P : Progress(k, View, P) /\ InPlace(k, P)
  BY <1>5, <1>6 DEF InPlace
<1>8. PermittedIn(View, x[1], x[2]) = Now[x]
  BY NowView
<1>9. Follows(k)
  BY <1>3, <1>7, <1>8 DEF Follows, Following
<1> QED BY <1>2, <1>9, OneCall

LEMMA StoreFollows ==
  ASSUME PInv, NEW c \in Calls, Store(c)
  PROVE  AnswersOK' /\ CacheIsCurrent'
<1>1. UNCHANGED <<rules, heap, groups>> /\ call' = [call EXCEPT ![c] = Idle]
  BY DEF Store, Others
<1>2. AnswersOK'
  <2>1. PICK k : k = Idle
    OBVIOUS
  <2>2. k.pc = "idle"
    BY <2>1 DEF Idle, Fresh
  <2> QED BY <1>1, <2>1, <2>2, OneCall
<1>3. Now' = Now
  BY <1>1, SameRules
<1> DEFINE k == call[c]
<1>4. k.pc = "store" /\ k.ask \in Asked /\ Follows(k)
  BY DEF Store, PInv, IInv, TypeOK, AnswersOK
<1>5. k.churn = 0 => k.verdict = Now[k.ask]
  <2> HIDE DEF k
  <2> QED BY <1>4, NowView DEF Follows, Following
<1>6. /\ cache' = [cache EXCEPT ![k.ask] = k.verdict]
      /\ suspect' = IF k.churn = 0 THEN suspect \ {k.ask} ELSE suspect \cup {k.ask}
  BY DEF Store
<1>7. CacheIsCurrent /\ cache \in [Asked -> BOOLEAN \cup {Nil}]
  BY DEF PInv, IInv, TypeOK
<1>8. CacheIsCurrent'
  <2> HIDE DEF k
  <2> QED BY <1>3, <1>4, <1>5, <1>6, <1>7 DEF CacheIsCurrent
<1> QED BY <1>2, <1>8

LEMMA CheckFollows ==
  ASSUME PInv, NEW c \in Calls, Check(c)
  PROVE  AnswersOK' /\ CacheIsCurrent'
<1>1. CASE Store(c)
  BY <1>1, StoreFollows
<1>2. CASE ~Store(c)
  <2>1. AnswersOK'
    BY <1>2, AskFollows, LookFollows, JudgeDenyFollows, JudgeAllowFollows, LastResortFollows DEF Check
  <2>2. UNCHANGED <<rules, heap, groups, cache, suspect>>
    BY <1>2 DEF Check, Ask, Look, JudgeDeny, JudgeAllow, LastResort, Others
  <2>3. Now' = Now
    BY <2>2, SameRules
  <2>4. CacheIsCurrent'
    BY <2>2, <2>3 DEF PInv, CacheIsCurrent
  <2> QED BY <2>1, <2>4
<1> QED BY <1>1, <1>2

-------------------------------------------------------------------------------
(* A change of the rules. *)

LEMMA NowViewNext ==
  ASSUME NEW x \in Asked, NEW V, V = View'
  PROVE  Now'[x] = PermittedIn(V, x[1], x[2])'
<1> DEFINE p == x[1]
           u == x[2]
<1>1. \A q \in Paths : V[q] = Says(q)'
  BY DEF View
<1>2. \A q \in Paths : Naming(V, q, u)' <=> Names(Says(q), u, {"deny", "allow"})'
  BY <1>1 DEF Naming, Names
<1>3. \A q \in Paths : Denying(V, q, u)' <=> Names(Says(q), u, {"deny"})'
  BY <1>1 DEF Denying, Names
<1>4. Now'[x] = Permitted(p, u)'
  BY DEF Now
<1> QED BY <1>1, <1>2, <1>3, <1>4 DEF Permitted, PermittedIn

\* A change of the rules does not change what V permits while groups are as they were.
LEMMA SameGroups ==
  ASSUME groups' = groups, NEW V, NEW p, NEW u
  PROVE  PermittedIn(V, p, u)' = PermittedIn(V, p, u)
<1>1. Who(u)' = Who(u)
  BY DEF Who
<1>2. \A q : (Naming(V, q, u)' <=> Naming(V, q, u)) /\ (Denying(V, q, u)' <=> Denying(V, q, u))
  BY <1>1 DEF Naming, Denying
<1> DEFINE naming == {q \in {q \in Paths : Above(q, p)} : Naming(V, q, u)}
<1>3. naming' = naming
  BY <1>2
<1> HIDE DEF naming
<1> QED BY <1>2, <1>3 DEF PermittedIn, naming

\* Of a call that saw its first small change.
LEMMA FirstChange ==
  ASSUME TypeOK, TypeOK', NEW k \in Call, k.pc # "idle", k.ask \in Asked, Follows(k), k.churn = 0,
         NEW q \in Paths, NEW m \in Marks, SmallFor(k, q, m),
         NEW new, new = [k EXCEPT !.seen = @ \cup {Now'[k.ask]}, !.churn = 1]
  PROVE  Follows(new)'
<1> DEFINE x == k.ask
<1>1. PICK V0 : V0 = View
  OBVIOUS
<1>2. PICK V1 : V1 = View'
  OBVIOUS
<1>3. V0 \in Views /\ V1 \in Views
  <2>1. View \in Views
    BY ViewType
  <2>2. View' \in Views
    BY DEF View, Views, Says, TypeOK, RulesOK
  <2> QED BY <1>1, <1>2, <2>1, <2>2
<1>4. /\ new.pc = k.pc /\ new.ask = k.ask /\ new.level = k.level /\ new.found = k.found
      /\ new.at = k.at /\ new.verdict = k.verdict /\ new.churn = 1
      /\ new.seen = k.seen \cup {Now'[x]}
  BY DEF Call
<1>5. groups' = groups
  BY DEF SmallFor
<1>6. PermittedIn(V0, x[1], x[2])' \in new.seen
  <2>1. PermittedIn(V0, x[1], x[2])' = PermittedIn(V0, x[1], x[2])
    BY <1>5, SameGroups
  <2> QED BY <1>1, <1>4, <2>1 DEF Follows, Following
<1>7. PermittedIn(V1, x[1], x[2])' \in new.seen
  <2>1. PermittedIn(V1, x[1], x[2])' = Now'[x]
    BY <1>2, NowViewNext
  <2> QED BY <1>4, <2>1
<1>8. CASE k.pc = "store"
  <2>1. k.verdict = PermittedIn(V0, x[1], x[2])
    BY <1>1, <1>8 DEF Follows, Following
  <2>2. new.verdict = PermittedIn(V0, x[1], x[2])'
    BY <1>4, <1>5, <2>1, SameGroups
  <2>3. Following(new, V0)'
    BY <1>4, <1>6, <1>8, <2>2 DEF Following
  <2> QED BY <1>3, <1>4, <2>3 DEF Follows, Views
<1>9. CASE k.pc # "store"
  <2>1. k.pc \in {"look", "deny", "allow", "last"}
    BY <1>9 DEF Call, Places
  <2>2. PICK P : Progress(k, View, P) /\ InPlace(k, P)
    BY <1>9 DEF Follows, Following
  <2>3. Progress(k, V0, P)' \/ Progress(k, V1, P)'
    BY <1>1, <1>2, <2>1, <2>2, SmallProgress
  <2>4. \A V : Progress(k, V, P)' => Progress(new, V, P)'
    <3>1. \A n, w : Unread(new, n, w) <=> Unread(k, n, w)
      BY <1>4 DEF Unread
    <3>2. \A r : Visited(new, r) <=> Visited(k, r)
      BY <1>4 DEF Visited
    <3>3. \A V : (Agreeing(k, V, P)' => Agreeing(new, V, P)') /\ (Passed(k, V, P)' => Passed(new, V, P)')
      BY <1>4, <3>1 DEF Agreeing, Passed
    <3> QED BY <1>4, <3>2, <3>3 DEF Progress
  <2>5. Following(new, V0)' \/ Following(new, V1)'
    BY <1>4, <1>6, <1>7, <1>9, <2>3, <2>4 DEF Following
  <2> QED BY <1>3, <1>4, <2>5 DEF Follows, Views
<1> QED BY <1>8, <1>9

LEMMA DisturbFollows ==
  ASSUME PInv, TypeOK', NEW small \in BOOLEAN, Disturb(small),
         small => \E q \in Paths, m \in Marks :
                    \A c \in Calls : call[c].pc # "idle" => SmallFor(call[c], q, m)
  PROVE  AnswersOK'
<1> SUFFICES ASSUME NEW c \in Calls PROVE \E j : j = call'[c] /\ (j.pc # "idle" => Follows(j)')
  BY AnswersNext
<1>1. PICK new : new = call'[c]
  OBVIOUS
<1>2. PICK k : k = call[c]
  OBVIOUS
<1>3. k \in Call
  BY <1>2 DEF PInv, IInv, TypeOK
<1>4. CASE k.pc = "idle"
  <2>1. new = k
    BY <1>1, <1>2, <1>4 DEF Disturb
  <2> QED BY <1>1, <1>4, <2>1
<1>5. CASE k.pc # "idle"
  <2>1. k.ask \in Asked /\ Follows(k) /\ TypeOK
    BY <1>2, <1>5 DEF PInv, IInv, TypeOK, AnswersOK
  <2>2. new = [k EXCEPT !.seen = @ \cup {Now'[k.ask]}, !.churn = IF small /\ @ = 0 THEN 1 ELSE 2]
    BY <1>1, <1>2, <1>5 DEF Disturb
  <2>3. CASE small /\ k.churn = 0
    <3>1. new = [k EXCEPT !.seen = @ \cup {Now'[k.ask]}, !.churn = 1]
      BY <1>3, <2>2, <2>3 DEF Call
    <3>2. PICK q \in Paths, m \in Marks : SmallFor(k, q, m)
      BY <1>2, <1>5, <2>3
    <3>3. Follows(new)'
      BY <1>3, <1>5, <2>1, <2>3, <3>1, <3>2, FirstChange
    <3> QED BY <1>1, <3>3
  <2>4. CASE ~(small /\ k.churn = 0)
    <3>1. new.churn = 2
      BY <1>3, <2>2, <2>4 DEF Call
    <3>2. Follows(new)'
      BY <3>1 DEF Follows
    <3> QED BY <1>1, <3>2
  <2> QED BY <2>3, <2>4
<1> QED BY <1>4, <1>5

\* An object that a call holds is not free.
LEMMA HeldLive ==
  ASSUME NEW c \in Calls, NEW n \in DOMAIN call[c].found, NEW i \in Free
  PROVE  call[c].found[n] # i
BY DEF Free, Live

LEMMA CacheCleared ==
  ASSUME ClearAllCaches \/ (KeepCaches /\ TypeOK)
  PROVE  CacheIsCurrent'
BY DEF ClearAllCaches, KeepCaches, CacheIsCurrent, TypeOK

LEMMA AddMarkFollows ==
  ASSUME PInv, TypeOK', NEW p \in Paths, NEW m \in Marks, NEW ok \in BOOLEAN, AddMark(p, m, ok)
  PROVE  AnswersOK' /\ CacheIsCurrent'
<1>1. TypeOK /\ RulesOK
  BY DEF PInv, IInv, TypeOK
<1>2. groups' = groups /\ ClearAllCaches /\ Disturb(TRUE)
  BY DEF AddMark
<1>3. ASSUME NEW c \in Calls PROVE SmallFor(call[c], p, m)
  <2>1. CASE rules[p] = Nil
    <3>1. PICK i \in Free : rules' = [rules EXCEPT ![p] = i] /\ heap' = [heap EXCEPT ![i] = {m}]
      BY <2>1 DEF AddMark
    <3>2. i \in Ids /\ i # Nil /\ \A q \in Paths : rules[q] # i
      BY <3>1, AccessAssumption DEF Free, Live
    <3>3. \A q \in Paths \ {p} : Says(q)' = Says(q)
      BY <1>1, <3>1, <3>2 DEF RulesOK, Says
    <3>4. Says(p) = {} /\ Says(p)' = {m}
      BY <1>1, <2>1, <3>1, <3>2 DEF RulesOK, Says
    <3>5. \A n \in DOMAIN call[c].found : heap'[call[c].found[n]] = heap[call[c].found[n]]
      <4>1. \A n \in DOMAIN call[c].found : call[c].found[n] # i
        BY HeldLive
      <4>2. \A n \in DOMAIN call[c].found : call[c].found[n] \in Ids
        BY <1>1, ElementOfSeq, LenProperties DEF TypeOK, Call
      <4> QED BY <1>1, <3>1, <4>1, <4>2 DEF RulesOK
    <3> QED BY <1>2, <3>3, <3>4, <3>5 DEF SmallFor
  <2>2. CASE rules[p] # Nil
    <3>1. rules' = rules /\ heap' = [heap EXCEPT ![rules[p]] = @ \cup {m}]
      BY <2>2 DEF AddMark
    <3>2. Says(p)' = Says(p) \cup {m} /\ \A q \in Paths \ {p} : Says(q)' = Says(q)
      BY <1>1, <2>2, <3>1 DEF RulesOK, Says
    <3>3. heap' = [heap EXCEPT ![rules[p]] = Says(p)']
      BY <1>1, <2>2, <3>1 DEF RulesOK, Says
    <3> QED BY <1>2, <2>2, <3>2, <3>3 DEF SmallFor
  <2> QED BY <2>1, <2>2
<1>4. AnswersOK'
  BY <1>2, <1>3, DisturbFollows
<1> QED BY <1>2, <1>4, CacheCleared

LEMMA RemoveMarkFollows ==
  ASSUME PInv, TypeOK', NEW p \in Paths, NEW m \in Marks, NEW ok \in BOOLEAN, RemoveMark(p, m, ok)
  PROVE  AnswersOK' /\ CacheIsCurrent'
<1> DEFINE rest == Says(p) \ {m}
           small == rest # {DenyAll}
<1>1. TypeOK /\ RulesOK
  BY DEF PInv, IInv, TypeOK
<1>2. groups' = groups /\ ClearAllCaches /\ Disturb(small)
  BY DEF RemoveMark
<1>3. /\ rules[p] # Nil
      /\ heap' = [heap EXCEPT ![rules[p]] = rest]
      /\ rules' = IF rest \subseteq {DenyAll} THEN [rules EXCEPT ![p] = Nil] ELSE rules
  BY DEF RemoveMark, TakeOut, Says
<1>4. /\ Says(p)' = IF rest \subseteq {DenyAll} THEN {} ELSE rest
      /\ \A q \in Paths \ {p} : Says(q)' = Says(q)
  BY <1>1, <1>3 DEF RulesOK, Says
<1>5. ASSUME small, NEW c \in Calls PROVE SmallFor(call[c], p, m)
  <2>1. Says(p)' = rest
    BY <1>4, <1>5
  <2>2. \A n \in Marks \ {m} : n \in Says(p)' <=> n \in Says(p)
    BY <2>1
  <2>3. heap' = [heap EXCEPT ![rules[p]] = Says(p)']
    BY <1>3, <2>1
  <2> QED BY <1>2, <1>3, <1>4, <2>2, <2>3 DEF SmallFor
<1>6. small \in BOOLEAN
  OBVIOUS
<1> HIDE DEF small
<1>7. AnswersOK'
  BY <1>2, <1>5, <1>6, DisturbFollows
<1> QED BY <1>2, <1>7, CacheCleared

LEMMA RemoveMissingFollows ==
  ASSUME PInv, TypeOK', NEW p \in Paths, NEW m \in Marks, RemoveMissing(p, m)
  PROVE  AnswersOK' /\ CacheIsCurrent'
<1>1. TypeOK /\ RulesOK /\ DenyAll \in Marks
  BY DEF PInv, IInv, TypeOK, Marks
<1>2. /\ groups' = groups /\ heap' = heap /\ rules' = [rules EXCEPT ![p] = Nil]
      /\ Says(p) \subseteq {DenyAll} /\ KeepCaches /\ Disturb(TRUE)
  BY DEF RemoveMissing
<1>3. Says(p)' = {} /\ \A q \in Paths \ {p} : Says(q)' = Says(q)
  BY <1>1, <1>2 DEF RulesOK, Says
<1>4. ASSUME NEW c \in Calls PROVE SmallFor(call[c], p, DenyAll)
  BY <1>2, <1>3 DEF SmallFor
<1>5. AnswersOK'
  BY <1>1, <1>2, <1>4, DisturbFollows
<1> QED BY <1>1, <1>2, <1>5, CacheCleared

LEMMA CascadeFollows ==
  ASSUME PInv, TypeOK', NEW p \in Paths, NEW m \in Marks, NEW ok \in BOOLEAN, Cascade(p, m, ok)
  PROVE  AnswersOK' /\ CacheIsCurrent'
<1> DEFINE hit == {q \in Paths : Above(p, q) /\ m \in Says(q)}
           small == \E q \in hit : hit = {q}
<1>1. TypeOK /\ RulesOK
  BY DEF PInv, IInv, TypeOK
<1>2. groups' = groups /\ ClearAllCaches /\ Disturb(small)
  BY DEF Cascade
<1>3. /\ heap' = [i \in Ids |-> IF \E q \in hit : rules[q] = i THEN heap[i] \ {m} ELSE heap[i]]
      /\ rules' = [q \in Paths |-> IF q \in hit /\ Says(q) \ {m} = {} THEN Nil ELSE rules[q]]
  BY DEF Cascade
<1>4. hit \subseteq Paths /\ \A q \in hit : m \in Says(q)
  OBVIOUS
<1> HIDE DEF hit
<1>5. ASSUME small PROVE \E q \in Paths, n \in Marks : \A c \in Calls : SmallFor(call[c], q, n)
  <2>1. PICK q \in Paths : hit = {q} /\ m \in Says(q)
    BY <1>4, <1>5
  <2>2. rules[q] # Nil /\ rules[q] \in Ids /\ Says(q) = heap[rules[q]]
    BY <1>1, <2>1 DEF RulesOK, Says
  <2>3. rules' = IF Says(q) \ {m} = {} THEN [rules EXCEPT ![q] = Nil] ELSE rules
    BY <1>1, <1>3, <2>1 DEF RulesOK
  <2>4. heap' = [heap EXCEPT ![rules[q]] = Says(q) \ {m}]
    <3>1. \A i \in Ids : heap'[i] = IF i = rules[q] THEN heap[i] \ {m} ELSE heap[i]
      BY <1>3, <2>1
    <3>2. heap \in [Ids -> SUBSET Marks] /\ heap' \in [Ids -> SUBSET Marks]
      BY <1>1 DEF TypeOK, RulesOK
    <3> QED BY <2>2, <3>1, <3>2
  <2>5. Says(q)' = Says(q) \ {m} /\ \A r \in Paths \ {q} : Says(r)' = Says(r)
    BY <1>1, <2>1, <2>2, <2>3, <2>4 DEF RulesOK, Says
  <2>6. heap' = [heap EXCEPT ![rules[q]] = Says(q)']
    BY <2>4, <2>5
  <2>7. ASSUME NEW c \in Calls PROVE SmallFor(call[c], q, m)
    BY <1>2, <2>2, <2>5, <2>6 DEF SmallFor
  <2> QED BY <2>7
<1>6. small \in BOOLEAN
  OBVIOUS
<1> HIDE DEF small
<1>7. AnswersOK'
  BY <1>2, <1>5, <1>6, DisturbFollows
<1> QED BY <1>2, <1>7, CacheCleared

\* A change that is not small: nothing is promised of the calls it comes under.
LEMMA LargeFollows ==
  ASSUME PInv, TypeOK', ClearAllCaches \/ KeepCaches, Disturb(FALSE)
  PROVE  AnswersOK' /\ CacheIsCurrent'
<1>1. AnswersOK'
  BY DisturbFollows
<1> QED BY <1>1, CacheCleared DEF PInv, IInv

\* A step that leaves rules and calls alone, and drops an answer at most.
LEMMA QuietFollows ==
  ASSUME PInv, UNCHANGED <<rules, heap, groups, call>>,
         \A x \in Asked : \/ cache'[x] = cache[x] /\ (x \in suspect <=> x \in suspect')
                          \/ cache'[x] = Nil
  PROVE  AnswersOK' /\ CacheIsCurrent'
<1>1. Now' = Now
  BY SameRules
<1>2. CacheIsCurrent'
  BY <1>1 DEF PInv, CacheIsCurrent
<1>3. ASSUME NEW d \in Calls PROVE \E k : k = call'[d] /\ (k.pc # "idle" => Follows(k)')
  <2>1. PICK k : k = call[d]
    OBVIOUS
  <2>2. k = call'[d]
    BY <2>1
  <2>3. k.pc # "idle" => Follows(k)
    BY <2>1 DEF PInv, AnswersOK
  <2>4. k.pc # "idle" => Follows(k)'
    BY <2>3, FollowingOn
  <2> QED BY <2>2, <2>4
<1>4. AnswersOK'
  BY <1>3, AnswersNext
<1> QED BY <1>2, <1>4

LEMMA AdministerFollows ==
  ASSUME PInv, TypeOK', Administer
  PROVE  AnswersOK' /\ CacheIsCurrent'
<1>1. \A e \in Edited : e[1] \in Paths /\ e[2] \in Marks
  BY AccessAssumption
<1>2. PICK ok \in BOOLEAN :
        \/ \E e \in Edited : \/ AddMark(e[1], e[2], ok) \/ RemoveMark(e[1], e[2], ok)
                             \/ RemoveMissing(e[1], e[2]) \/ Cascade(e[1], e[2], ok)
        \/ \E p, q \in Paths : UpdateRulePath(p, q, ok) \/ UpdateRules(p, q, ok)
        \/ \E g \in Groups, u \in Users :
             AddUserToGroup(g, u, ok) \/ RemoveUserFromGroup(g, u, ok)
        \/ \E u \in Users, in \in SUBSET Groups : SyncUserGroups(u, in, ok)
  BY DEF Administer
<1>3. ASSUME NEW e \in Edited, \/ AddMark(e[1], e[2], ok) \/ RemoveMark(e[1], e[2], ok)
                               \/ RemoveMissing(e[1], e[2]) \/ Cascade(e[1], e[2], ok)
      PROVE  AnswersOK' /\ CacheIsCurrent'
  BY <1>1, <1>3, AddMarkFollows, RemoveMarkFollows, RemoveMissingFollows, CascadeFollows
<1>4. ASSUME NEW to, Relocate(to, ok) PROVE AnswersOK' /\ CacheIsCurrent'
  BY <1>4, LargeFollows DEF Relocate
<1>5. ASSUME NEW new, SetGroups(new, ok) PROVE AnswersOK' /\ CacheIsCurrent'
  BY <1>5, LargeFollows DEF SetGroups
<1>6. ASSUME NEW p \in Paths, NEW q \in Paths, UpdateRulePath(p, q, ok) \/ UpdateRules(p, q, ok)
      PROVE  AnswersOK' /\ CacheIsCurrent'
  <2>1. CASE UpdateRulePath(p, q, ok)
    BY <1>4, <2>1 DEF UpdateRulePath
  <2>2. CASE UpdateRules(p, q, ok)
    <3> DEFINE S == {s \in Paths : Above(p, s) /\ rules[s] # Nil}
               to == [s \in S |-> q \o SubSeq(s, Len(p) + 1, Len(s))]
    <3>1. \/ Relocate(to, ok)
          \/ UNCHANGED <<rules, heap, groups, cache, call, suspect>>
      BY <2>2 DEF UpdateRules
    <3> HIDE DEF to
    <3> QED BY <1>4, <3>1, QuietFollows
  <2> QED BY <1>6, <2>1, <2>2
<1>7. ASSUME NEW g \in Groups, NEW u \in Users,
             AddUserToGroup(g, u, ok) \/ RemoveUserFromGroup(g, u, ok)
      PROVE  AnswersOK' /\ CacheIsCurrent'
  BY <1>5, <1>7 DEF AddUserToGroup, RemoveUserFromGroup
<1>8. ASSUME NEW u \in Users, NEW in \in SUBSET Groups, SyncUserGroups(u, in, ok)
      PROVE  AnswersOK' /\ CacheIsCurrent'
  BY <1>5, <1>8 DEF SyncUserGroups
<1> QED BY <1>2, <1>3, <1>6, <1>7, <1>8

-------------------------------------------------------------------------------
(* The invariant holds. *)

LEMMA PInit == Init => PInv
<1> SUFFICES ASSUME Init PROVE PInv
  OBVIOUS
<1>1. IInv
  BY InitOK
<1>2. \A c \in Calls : call[c].pc = "idle"
  BY DEF Init, Idle, Fresh
<1>3. CacheIsCurrent
  BY DEF Init, CacheIsCurrent
<1> QED BY <1>1, <1>2, <1>3 DEF PInv, AnswersOK

LEMMA PNext == PInv /\ [Next]_vars => PInv'
<1> SUFFICES ASSUME PInv, [Next]_vars PROVE PInv'
  OBVIOUS
<1>1. IInv' /\ TypeOK'
  BY NextOK DEF PInv, IInv
<1>2. AnswersOK' /\ CacheIsCurrent'
  <2>1. CASE Administer
    BY <1>1, <2>1, AdministerFollows
  <2>2. CASE \E p, q \in Paths : Rename(p, q)
    <3>1. UNCHANGED <<rules, heap, groups, cache, call, suspect>>
      BY <2>2 DEF Rename
    <3> QED BY <3>1, QuietFollows
  <2>3. CASE \E c \in Calls : Check(c)
    BY <2>3, CheckFollows
  <2>4. CASE \E x \in Asked : Evict(x)
    <3>1. PICK x \in Asked : Evict(x)
      BY <2>4
    <3>2. /\ UNCHANGED <<rules, heap, groups, call>>
          /\ cache' = [cache EXCEPT ![x] = Nil] /\ suspect' = suspect \ {x}
      BY <3>1 DEF Evict, Others
    <3>3. cache \in [Asked -> BOOLEAN \cup {Nil}]
      BY DEF PInv, IInv, TypeOK
    <3> QED BY <3>2, <3>3, QuietFollows
  <2>5. CASE \E wiped \in BOOLEAN : Restart(wiped)
    <3>1. call' = [c \in Calls |-> Idle] /\ cache' = [x \in Asked |-> Nil]
      BY <2>5 DEF Restart
    <3>2. \A c \in Calls : call'[c].pc = "idle"
      BY <3>1 DEF Idle, Fresh
    <3> QED BY <3>1, <3>2 DEF AnswersOK, CacheIsCurrent
  <2>6. CASE UNCHANGED vars
    <3>1. UNCHANGED <<rules, heap, groups, cache, call, suspect>>
      BY <2>6 DEF vars
    <3> QED BY <3>1, QuietFollows
  <2>7. CASE Flush \/ ReadLate \/ \E ok \in BOOLEAN : Write(ok)
    <3>1. UNCHANGED <<rules, heap, groups, cache, call, suspect>>
      BY <2>7 DEF Flush, ReadLate, Write, Memory
    <3> QED BY <3>1, QuietFollows
  <2> QED BY <2>1, <2>2, <2>3, <2>4, <2>5, <2>6, <2>7 DEF Next
<1> QED BY <1>1, <1>2 DEF PInv

LEMMA PermittedInvariance == Spec => []PInv
  BY PInit, PNext, PTL DEF Spec

(* An answer in the cache of access.go is what the rules and groups say now,      *)
(* unless it was worked out while they changed, or a change that clears no cache  *)
(* came after it.                                                              *)
THEOREM CacheIsCurrentAlways == Spec => []CacheIsCurrent
<1>1. PInv => CacheIsCurrent
  BY DEF PInv
<1> QED BY <1>1, PermittedInvariance, PTL

(* A call of Permitted answers what the rules said at some moment of the call,    *)
(* though it takes the lock anew for each directory and reads the rules it found  *)
(* without it, if at most one mark of one path changed meanwhile.                *)
THEOREM AnswerOfAMomentAlways == Spec => []AnswerOfAMoment
<1>1. PInv => AnswerOfAMoment
  <2> SUFFICES ASSUME PInv, NEW c \in Calls, call[c].pc = "store", call[c].churn < 2
               PROVE  call[c].verdict \in call[c].seen
    BY DEF AnswerOfAMoment
  <2>1. PICK k : k = call[c]
    OBVIOUS
  <2>2. k.pc = "store" /\ k.churn \in {0, 1} /\ Follows(k)
    BY <2>1 DEF PInv, IInv, TypeOK, Call, AnswersOK
  <2>3. \E V : Following(k, V)
    BY <2>2 DEF Follows
  <2>4. k.verdict \in k.seen
    BY <2>2, <2>3 DEF Following
  <2> QED BY <2>1, <2>4
<1> QED BY <1>1, PermittedInvariance, PTL

-----------------------------------------------------------------------------
(* Searches of the index (Search), for any directories, files and queries, and     *)
(* any number of sources, sessions and searches.                               *)

Terms == Dirs \cup FileNames \cup {Nil}
Underway == {"list", "keep", "pass"}

SearchRecs ==
  [at : Underway \cup {"done"}, source : Sources, session : Sessions, scope : Dirs, largest : BOOLEAN,
   list : F!Scopes \cup {Nil}, terms : Seq(Terms), dirs : SUBSET Dirs, found : SUBSET F!Items,
   count : Nat, over : BOOLEAN, astray : BOOLEAN, wanted : SUBSET F!Items]
Lists == [source : Sources, scope : F!Scopes, dirs : SUBSET Dirs]

\* Every list is kept under the key of its source and scope.
KeptLists ==
  /\ cached \in [F!Keys -> Lists \cup {Nil}]
  /\ \A k \in F!Keys : cached[k] # Nil => k = F!CacheKey(cached[k].source, cached[k].scope)

SearchType ==
  /\ req \in [Requests -> SearchRecs \cup {F!NoSearch}]
  /\ session \in [Sessions -> Requests \cup {Nil}]
  /\ KeptLists
  /\ index \in [Sources -> [Dirs -> (SUBSET FileNames) \cup {Nil}]]
  /\ ruled \in [Sources -> [F!Ruled -> F!Words \cup {Nil}]]

\* The list it goes through is that of its scope, or of everything.
ListFits(q) == q.at \in Underway => q.list \in {q.scope, F!Whole}

\* A session has begun a newer search as soon as the search is not its own any more.
OwnSession(q, r) == q.at \in Underway /\ ~q.over => session[q.session] = r

\* What is wanted is there; and it lies in a directory of the list that is, or will be, taken.
WantedThere(q) ==
  q.at \in Underway => \A i \in q.wanted : F!In(q.source, i) /\ F!Below(q.scope, i.dir)
WantedListed(q) ==
  /\ q.at = "list" => ~q.astray /\ \A i \in q.wanted : ~F!Overlooked(q.source, i.dir)
  /\ q.at \in {"keep", "pass"} /\ ~q.astray => \A i \in q.wanted : i.dir \in q.dirs

\* Unless the limit was reached, what is wanted was found, or a pass that is to come finds it.
WantedFound(q) ==
  q.at \in Underway /\ ~q.astray /\ q.count < Limit =>
    \A i \in q.wanted : i \in q.found \/ \E n \in DOMAIN q.terms : F!Matches(q, q.terms[n], i)

WantedGiven(q) ==
  q.at = "done" /\ ~q.over /\ ~q.astray /\ q.count < Limit => q.wanted \subseteq q.found

\* One of the sources lies in the other.
Nested(s, x) == F!Above(Place[s], Place[x]) \/ F!Above(Place[x], Place[s])

\* Only a source that lies in another, or has another in it, has another's list.
AstrayNested(q) ==
  q.astray => \E s \in Sources : s # q.source /\ Nested(s, q.source)

Promise(r) ==
  req[r].at # "idle" =>
    /\ ListFits(req[r]) /\ OwnSession(req[r], r) /\ WantedThere(req[r]) /\ WantedListed(req[r])
    /\ WantedFound(req[r]) /\ WantedGiven(req[r]) /\ AstrayNested(req[r])

SearchInv == SearchType /\ \A r \in Requests : Promise(r)

LEMMA SearchFound == ASSUME SearchInv PROVE F!FoundIfThere
BY DEF SearchInv, Promise, WantedGiven, AstrayNested, Nested, F!FoundIfThere, F!NoSearch

LEMMA SearchInit == ASSUME F!SearchAssumption, F!Init PROVE SearchInv
<1>1. \A r \in Requests : req[r] = F!NoSearch /\ req[r].at = "idle" BY DEF F!Init, F!NoSearch
<1>2. SearchType
  <2>1. Top \in Dirs BY DEF F!SearchAssumption
  <2>2. req \in [Requests -> SearchRecs \cup {F!NoSearch}] BY DEF F!Init
  <2>3. session \in [Sessions -> Requests \cup {Nil}] BY DEF F!Init
  <2>4. KeptLists BY DEF F!Init, KeptLists
  <2>5. index \in [Sources -> [Dirs -> (SUBSET FileNames) \cup {Nil}]] BY DEF F!Init
  <2>6. ruled \in [Sources -> [F!Ruled -> F!Words \cup {Nil}]]
    <3>1. [p \in F!Ruled |-> Nil] \in [F!Ruled -> F!Words \cup {Nil}] OBVIOUS
    <3>2. ruled = [s \in Sources |-> [p \in F!Ruled |-> Nil]] BY DEF F!Init
    <3> QED BY <3>1, <3>2
  <2> QED BY <2>2, <2>3, <2>4, <2>5, <2>6 DEF SearchType
<1> QED BY <1>1, <1>2 DEF SearchInv, Promise

\* A search record, and that it is not idle.
LEMMA SearchIs ==
  ASSUME SearchInv, NEW r \in Requests, req[r].at # "idle"
  PROVE  /\ req[r] \in SearchRecs /\ req[r].at \in Underway \cup {"done"}
         /\ ListFits(req[r]) /\ OwnSession(req[r], r) /\ WantedThere(req[r]) /\ WantedListed(req[r])
         /\ WantedFound(req[r]) /\ WantedGiven(req[r]) /\ AstrayNested(req[r])
<1>1. req[r] \in SearchRecs BY DEF SearchInv, SearchType, F!NoSearch
<1> QED BY <1>1 DEF SearchInv, Promise, SearchRecs

LEMMA NotIdle == ASSUME NEW q \in SearchRecs PROVE q.at # "idle"
BY DEF SearchRecs, Underway

\* The path of a source, and what a scope adds to it.
LEMMA PlaceIs ==
  ASSUME F!SearchAssumption, NEW s \in Sources, NEW p \in F!Scopes
  PROVE  /\ Place[s] \in Seq(Dirs) /\ Len(Place[s]) \in Nat
         /\ p \in {Top, F!Whole} => F!Rel(p) = <<>> /\ Place[s] \o F!Rel(p) = Place[s]
         /\ p \notin {Top, F!Whole} =>
              /\ p \in Dirs /\ F!Rel(p) = <<p>>
              /\ Len(Place[s] \o F!Rel(p)) = Len(Place[s]) + 1
              /\ (Place[s] \o F!Rel(p))[Len(Place[s]) + 1] = p
              /\ \A n \in 1..Len(Place[s]) : (Place[s] \o F!Rel(p))[n] = Place[s][n]
<1>1. Place[s] \in Seq(Dirs) BY DEF F!SearchAssumption
<1>2. CASE p \in {Top, F!Whole} BY <1>1, <1>2 DEF F!Rel
<1>3. CASE p \notin {Top, F!Whole}
  <2>1. p \in Dirs /\ F!Rel(p) = <<p>> BY <1>3 DEF F!Rel, F!Scopes
  <2> QED BY <1>1, <1>3, <2>1
<1> QED BY <1>2, <1>3

\* Of one source, every scope has its own key.
LEMMA KeyTells ==
  ASSUME F!SearchAssumption, NEW s \in Sources, NEW p \in F!Scopes, NEW o \in F!Scopes,
         F!CacheKey(s, p) = F!CacheKey(s, o)
  PROVE  p = o
<1>1. Place[s] \o F!Rel(p) = Place[s] \o F!Rel(o) /\ (p = F!Whole <=> o = F!Whole) BY DEF F!CacheKey
<1>2. CASE p \in {Top, F!Whole} BY <1>1, <1>2, PlaceIs
<1>3. CASE p \notin {Top, F!Whole} BY <1>1, <1>3, PlaceIs
<1> QED BY <1>2, <1>3

\* Of two sources with a key in common, one lies in the other.
LEMMA KeysApart ==
  ASSUME F!SearchAssumption, NEW s \in Sources, NEW x \in Sources, NEW p \in F!Scopes, NEW o \in F!Scopes,
         F!CacheKey(s, p) = F!CacheKey(x, o)
  PROVE  Nested(s, x)
<1>1. Place[s] \o F!Rel(p) = Place[x] \o F!Rel(o) BY DEF F!CacheKey
<1>2. CASE p \in {Top, F!Whole}
  <2>1. Place[s] = Place[x] \o F!Rel(o) BY <1>1, <1>2, PlaceIs
  <2>2. CASE o \in {Top, F!Whole} BY <2>1, <2>2, PlaceIs DEF F!Above, Nested
  <2>3. CASE o \notin {Top, F!Whole}
    <3>1. Len(Place[x]) <= Len(Place[s]) BY <2>1, <2>3, PlaceIs
    <3>2. \A n \in 1..Len(Place[x]) : Place[x][n] = Place[s][n] BY <2>1, <2>3, PlaceIs
    <3> QED BY <3>1, <3>2 DEF F!Above, Nested
  <2> QED BY <2>2, <2>3
<1>3. CASE p \notin {Top, F!Whole}
  <2>1. CASE o \in {Top, F!Whole}
    <3>1. Place[x] = Place[s] \o F!Rel(p) BY <1>1, <2>1, PlaceIs
    <3>2. Len(Place[s]) <= Len(Place[x]) BY <1>3, <3>1, PlaceIs
    <3>3. \A n \in 1..Len(Place[s]) : Place[s][n] = Place[x][n] BY <1>3, <3>1, PlaceIs
    <3> QED BY <3>2, <3>3 DEF F!Above, Nested
  <2>2. CASE o \notin {Top, F!Whole}
    <3>1. Len(Place[s]) + 1 = Len(Place[x]) + 1 BY <1>1, <1>3, <2>2, PlaceIs
    <3>2. Len(Place[s]) = Len(Place[x]) /\ Len(Place[s]) <= Len(Place[x]) BY <3>1, PlaceIs
    <3>3. \A n \in 1..Len(Place[s]) : Place[s][n] = (Place[s] \o F!Rel(p))[n] BY <1>3, PlaceIs
    <3>4. \A n \in 1..Len(Place[x]) : Place[x][n] = (Place[x] \o F!Rel(o))[n] BY <2>2, PlaceIs
    <3>5. \A n \in 1..Len(Place[s]) : Place[s][n] = Place[x][n] BY <1>1, <3>2, <3>3, <3>4
    <3> QED BY <3>2, <3>5 DEF F!Above, Nested
  <2> QED BY <2>1, <2>2
<1> QED BY <1>2, <1>3

\* A key of the search is among the keys, and so is what is kept there.
LEMMA KeyIs ==
  ASSUME SearchInv, NEW s \in Sources, NEW p \in F!Scopes
  PROVE  /\ F!CacheKey(s, p) \in F!Keys /\ cached[F!CacheKey(s, p)] \in Lists \cup {Nil}
         /\ cached[F!CacheKey(s, p)] # Nil =>
              F!CacheKey(s, p) = F!CacheKey(cached[F!CacheKey(s, p)].source, cached[F!CacheKey(s, p)].scope)
BY DEF F!Keys, SearchInv, SearchType, KeptLists

-----------------------------------------------------------------------------
(* What one search's steps leave alone                                        *)

\* Overlooked is read off the lists kept and those about to be kept.
LEMMA OverlookedKept ==
  ASSUME NEW s \in Sources, NEW d \in Dirs, F!Overlooked(s, d)',
         \A k \in F!Keys : cached'[k] # Nil /\ cached'[k].source = s
                           /\ F!Below(cached'[k].scope, d) /\ d \notin cached'[k].dirs =>
            (cached[k] = cached'[k] \/ F!Overlooked(s, d)),
         \A w \in Requests : req'[w].at = "keep" /\ req'[w].source = s /\ F!Below(req'[w].list, d)
                             /\ d \notin req'[w].dirs =>
            (req'[w] = req[w] \/ F!Overlooked(s, d))
  PROVE  F!Overlooked(s, d)
<1>1. CASE \E k \in F!Keys : /\ cached'[k] # Nil /\ cached'[k].source = s
                             /\ F!Below(cached'[k].scope, d) /\ d \notin cached'[k].dirs
  BY <1>1 DEF F!Overlooked
<1>2. CASE \E w \in Requests : req'[w].at = "keep" /\ req'[w].source = s /\ F!Below(req'[w].list, d)
                               /\ d \notin req'[w].dirs
  BY <1>2 DEF F!Overlooked
<1> QED BY <1>1, <1>2 DEF F!Overlooked

\* Request w was not touched, nor was the index or the rules; and nothing more is overlooked.
LEMMA OtherKept ==
  ASSUME SearchInv, NEW w \in Requests, req'[w] = req[w], UNCHANGED index,
         req[w].at \in Underway /\ ~req[w].over => session'[req[w].session] = w,
         req[w].at = "list" => \A i \in req[w].wanted :
            ~F!Overlooked(req[w].source, i.dir) => ~F!Overlooked(req[w].source, i.dir)'
  PROVE  Promise(w)'
<1>1. CASE req[w].at = "idle" BY <1>1 DEF Promise
<1>2. CASE req[w].at # "idle"
  <2>1. /\ req[w] \in SearchRecs
        /\ ListFits(req[w]) /\ OwnSession(req[w], w) /\ WantedThere(req[w]) /\ WantedListed(req[w])
        /\ WantedFound(req[w]) /\ WantedGiven(req[w]) /\ AstrayNested(req[w])
    BY <1>2, SearchIs
  <2>2. ListFits(req[w])' BY <2>1 DEF ListFits
  <2>3. OwnSession(req[w], w)' BY <2>1 DEF OwnSession
  <2>4. WantedThere(req[w])' BY <2>1 DEF WantedThere, F!In
  <2>5. WantedListed(req[w])' BY <2>1 DEF WantedListed
  <2>6. WantedFound(req[w])' BY <2>1 DEF WantedFound
  <2>7. WantedGiven(req[w])' BY <2>1 DEF WantedGiven
  <2>8. AstrayNested(req[w])' BY <2>1 DEF AstrayNested
  <2> QED BY <2>2, <2>3, <2>4, <2>5, <2>6, <2>7, <2>8 DEF Promise
<1> QED BY <1>1, <1>2

\* It was overtaken, and is otherwise the same.
LEMMA OvertakenKept ==
  ASSUME SearchInv, NEW w \in Requests, req[w].at \in Underway, req'[w] = [req[w] EXCEPT !.over = TRUE],
         UNCHANGED index,
         req[w].at = "list" => \A i \in req[w].wanted :
            ~F!Overlooked(req[w].source, i.dir) => ~F!Overlooked(req[w].source, i.dir)'
  PROVE  Promise(w)'
<1>1. /\ req[w] \in SearchRecs /\ req[w].at # "idle"
      /\ ListFits(req[w]) /\ WantedThere(req[w]) /\ WantedListed(req[w]) /\ WantedFound(req[w])
      /\ AstrayNested(req[w])
  BY SearchIs DEF Underway
<1>2. /\ req'[w] \in SearchRecs /\ req'[w].over = TRUE
      /\ req'[w].at = req[w].at /\ req'[w].source = req[w].source /\ req'[w].scope = req[w].scope
      /\ req'[w].list = req[w].list /\ req'[w].terms = req[w].terms /\ req'[w].dirs = req[w].dirs
      /\ req'[w].found = req[w].found /\ req'[w].count = req[w].count /\ req'[w].wanted = req[w].wanted
      /\ req'[w].largest = req[w].largest /\ req'[w].astray = req[w].astray
  BY <1>1 DEF SearchRecs
<1>3. ListFits(req[w])' BY <1>1, <1>2 DEF ListFits
<1>4. OwnSession(req[w], w)' BY <1>2 DEF OwnSession
<1>5. WantedThere(req[w])' BY <1>1, <1>2 DEF WantedThere, F!In
<1>6. WantedListed(req[w])' BY <1>1, <1>2 DEF WantedListed
<1>7. WantedFound(req[w])' BY <1>1, <1>2 DEF WantedFound, F!Matches
<1>8. WantedGiven(req[w])' BY <1>2 DEF WantedGiven
<1>9. AstrayNested(req[w])' BY <1>1, <1>2 DEF AstrayNested
<1> QED BY <1>3, <1>4, <1>5, <1>6, <1>7, <1>8, <1>9 DEF Promise

\* One search gets on; the index, the rules and the sessions stay.
LEMMA OneSearch ==
  ASSUME SearchInv, NEW r \in Requests, NEW q \in SearchRecs, req' = [req EXCEPT ![r] = q],
         UNCHANGED <<index, session, ruled>>, KeptLists',
         \A s \in Sources, d \in Dirs : index[s][d] # Nil /\ F!Overlooked(s, d)' => F!Overlooked(s, d),
         ListFits(q) /\ OwnSession(q, r) /\ WantedThere(q) /\ q.at # "list" /\ WantedListed(q)
         /\ WantedFound(q) /\ WantedGiven(q) /\ AstrayNested(q)
  PROVE  SearchInv'
<1>1. SearchType' BY DEF SearchInv, SearchType
<1>2. ASSUME NEW w \in Requests PROVE Promise(w)'
  <2>1. CASE w = r
    <3>1. req'[r] = q BY DEF SearchInv, SearchType
    <3>2. ListFits(req[r])' BY <3>1 DEF ListFits
    <3>3. OwnSession(req[r], r)' BY <3>1 DEF OwnSession
    <3>4. WantedThere(req[r])' BY <3>1 DEF WantedThere, F!In
    <3>5. WantedListed(req[r])' BY <3>1 DEF WantedListed
    <3>6. WantedFound(req[r])' BY <3>1 DEF WantedFound
    <3>7. WantedGiven(req[r])' BY <3>1 DEF WantedGiven
    <3>8. AstrayNested(req[r])' BY <3>1 DEF AstrayNested
    <3> QED BY <2>1, <3>2, <3>3, <3>4, <3>5, <3>6, <3>7, <3>8 DEF Promise
  <2>2. CASE w # r
    <3>1. req'[w] = req[w] BY <2>2 DEF SearchInv, SearchType
    <3>2. req[w].at \in Underway /\ ~req[w].over => session'[req[w].session] = w
      BY SearchIs DEF OwnSession, Underway
    <3>3. ASSUME req[w].at = "list", NEW i \in req[w].wanted, F!Overlooked(req[w].source, i.dir)'
          PROVE  F!Overlooked(req[w].source, i.dir)
      <4>1. req[w] \in SearchRecs /\ WantedThere(req[w]) BY <3>3, SearchIs
      <4>2. req[w].source \in Sources /\ i.dir \in Dirs BY <4>1 DEF SearchRecs, F!Items
      <4>3. index[req[w].source][i.dir] # Nil BY <3>3, <4>1 DEF WantedThere, F!In, Underway
      <4>4. PICK s \in Sources, d \in Dirs : s = req[w].source /\ d = i.dir BY <4>2
      <4>5. s = req'[w].source BY <4>4, <3>1
      <4>6. F!Overlooked(s, d)' BY <3>3, <4>4, <4>5 DEF F!Overlooked
      <4>7. F!Overlooked(s, d) BY <4>3, <4>4, <4>6
      <4> QED BY <4>4, <4>7
    <3> QED BY <3>1, <3>2, <3>3, OtherKept
  <2> QED BY <2>1, <2>2
<1> QED BY <1>1, <1>2 DEF SearchInv

-----------------------------------------------------------------------------
(* The steps of a search                                                       *)

LEMMA BeginStep ==
  ASSUME F!SearchAssumption, SearchInv, NEW r \in Requests, NEW s \in Sources, NEW c \in Sessions,
         NEW scope \in Dirs, NEW query \in Queries, F!Begin(r, s, c, scope, query)
  PROVE  SearchInv'
<1> DEFINE q == [at |-> "list", source |-> s, session |-> c, scope |-> scope, largest |-> query.largest,
                 list |-> IF query.empty THEN F!Whole ELSE scope, terms |-> query.terms,
                 dirs |-> {}, found |-> {}, count |-> 0, over |-> FALSE, astray |-> FALSE, wanted |-> {}]
           W == {i \in F!Items : /\ F!In(s, i) /\ F!Below(scope, i.dir) /\ ~F!Overlooked(s, i.dir)
                                 /\ \E n \in DOMAIN q.terms : F!Matches(q, q.terms[n], i)}
<1>1. query.terms \in Seq(Terms) /\ query.largest \in BOOLEAN BY DEF F!SearchAssumption, Terms
<1>2. /\ q \in SearchRecs /\ q.terms = query.terms /\ q.scope = scope /\ q.source = s
      /\ q.largest = query.largest
  BY <1>1 DEF SearchRecs, Underway, F!Scopes
<1>3. W \in SUBSET F!Items OBVIOUS
<1>4. /\ req[r].at = "idle" /\ session' = [session EXCEPT ![c] = r] /\ UNCHANGED <<index, cached, ruled>>
      /\ req' = [w \in Requests |->
           IF w = r THEN [q EXCEPT !.wanted = W]
           ELSE IF req[w].at \notin {"idle", "done"} /\ req[w].session = c THEN [req[w] EXCEPT !.over = TRUE]
           ELSE req[w]]
  BY DEF F!Begin
<1>5. PICK new : new = [q EXCEPT !.wanted = W] OBVIOUS
<1>6. /\ new \in SearchRecs /\ new.at = "list" /\ new.source = s /\ new.session = c /\ new.scope = scope
      /\ new.largest = query.largest /\ new.terms = query.terms /\ new.wanted = W
      /\ new.list \in {scope, F!Whole} /\ ~new.over /\ ~new.astray
  BY <1>2, <1>3, <1>5 DEF SearchRecs
<1>7. \A i \in W : /\ F!In(s, i) /\ F!Below(scope, i.dir) /\ ~F!Overlooked(s, i.dir)
                   /\ \E n \in DOMAIN query.terms : F!Matches(new, query.terms[n], i)
  BY <1>2, <1>6 DEF F!Matches
<1> HIDE DEF W, q
<1>8. req'[r] = new BY <1>4, <1>5
<1>9. ASSUME NEW w \in Requests, w # r PROVE
        \/ req'[w] = req[w] /\ ~(req[w].at \in Underway /\ req[w].session = c)
        \/ req[w].at \in Underway /\ req'[w] = [req[w] EXCEPT !.over = TRUE]
  <2>1. req[w].at = "idle" \/ req[w].at \in Underway \cup {"done"} BY SearchIs
  <2> QED BY <1>4, <1>9, <2>1 DEF Underway
<1>10. \A x \in Sources, d \in Dirs : F!Overlooked(x, d)' => F!Overlooked(x, d)
  <2> SUFFICES ASSUME NEW x \in Sources, NEW d \in Dirs, F!Overlooked(x, d)' PROVE F!Overlooked(x, d)
    OBVIOUS
  <2>1. ASSUME NEW w \in Requests, req'[w].at = "keep", req'[w].source = x, F!Below(req'[w].list, d),
               d \notin req'[w].dirs
        PROVE  F!Overlooked(x, d)
    <3>1. w # r BY <1>6, <1>8, <2>1
    <3>2. CASE req'[w] = req[w] BY <2>1, <3>2 DEF F!Overlooked
    <3>3. CASE req[w].at \in Underway /\ req'[w] = [req[w] EXCEPT !.over = TRUE]
      <4>1. req[w] \in SearchRecs BY <3>3, SearchIs DEF Underway
      <4>2. /\ req'[w].at = req[w].at /\ req'[w].source = req[w].source /\ req'[w].list = req[w].list
            /\ req'[w].dirs = req[w].dirs
        BY <3>3, <4>1 DEF SearchRecs
      <4> QED BY <2>1, <4>2 DEF F!Overlooked
    <3> QED BY <1>9, <3>1, <3>2, <3>3
  <2> QED BY <1>4, <2>1, OverlookedKept
<1>11. SearchType'
  <2>1. ASSUME NEW w \in Requests PROVE req'[w] \in SearchRecs \cup {F!NoSearch}
    <3>1. CASE w = r BY <1>6, <1>8, <3>1
    <3>2. CASE w # r
      <4>1. CASE req'[w] = req[w] BY <4>1 DEF SearchInv, SearchType
      <4>2. CASE req[w].at \in Underway /\ req'[w] = [req[w] EXCEPT !.over = TRUE]
        <5>1. req[w] \in SearchRecs BY <4>2, SearchIs DEF Underway
        <5> QED BY <4>2, <5>1 DEF SearchRecs
      <4> QED BY <1>9, <3>2, <4>1, <4>2
    <3> QED BY <3>1, <3>2
  <2>2. req' \in [Requests -> SearchRecs \cup {F!NoSearch}] BY <1>4, <2>1
  <2> QED BY <1>4, <2>2 DEF SearchInv, SearchType, KeptLists
<1>12. Promise(r)'
  <2>1. /\ req'[r].at = "list" /\ req'[r].source = s /\ req'[r].session = c /\ req'[r].scope = scope
        /\ req'[r].terms = query.terms /\ req'[r].wanted = W /\ req'[r].list \in {scope, F!Whole}
        /\ req'[r] = new /\ ~req'[r].astray
    BY <1>6, <1>8
  <2>2. ListFits(req[r])' BY <2>1 DEF ListFits
  <2>3. OwnSession(req[r], r)' BY <1>4, <2>1 DEF OwnSession, SearchInv, SearchType
  <2>4. WantedThere(req[r])' BY <1>4, <1>7, <2>1 DEF WantedThere, F!In
  <2>5. WantedListed(req[r])'
    <3>1. ASSUME NEW i \in W PROVE ~F!Overlooked(s, i.dir)'
      <4>1. i.dir \in Dirs BY <1>3, <3>1 DEF W, F!Items
      <4>2. PICK d \in Dirs : d = i.dir BY <4>1
      <4> QED BY <1>7, <1>10, <4>2 DEF F!Overlooked
    <3> QED BY <2>1, <3>1 DEF WantedListed, F!Overlooked
  <2>6. WantedFound(req[r])' BY <1>7, <2>1 DEF WantedFound
  <2>7. WantedGiven(req[r])' BY <2>1 DEF WantedGiven
  <2>8. AstrayNested(req[r])' BY <2>1 DEF AstrayNested
  <2> QED BY <2>2, <2>3, <2>4, <2>5, <2>6, <2>7, <2>8 DEF Promise
<1>13. ASSUME NEW w \in Requests, w # r PROVE Promise(w)'
  <2>1. ASSUME req[w].at = "list", NEW i \in req[w].wanted, ~F!Overlooked(req[w].source, i.dir)
        PROVE  ~F!Overlooked(req[w].source, i.dir)'
    <3>1. req[w] \in SearchRecs BY <2>1, SearchIs
    <3>2. PICK x \in Sources, d \in Dirs : x = req[w].source /\ d = i.dir
      BY <2>1, <3>1 DEF SearchRecs, F!Items
    <3>3. req'[w].source = x BY <1>9, <1>13, <3>1, <3>2 DEF SearchRecs
    <3>4. ~F!Overlooked(x, d)' BY <1>10, <2>1, <3>2
    <3> QED BY <3>2, <3>3, <3>4 DEF F!Overlooked
  <2>2. CASE req'[w] = req[w] /\ ~(req[w].at \in Underway /\ req[w].session = c)
    <3>1. req[w].at \in Underway /\ ~req[w].over => session'[req[w].session] = w
      <4>1. CASE req[w].at \in Underway /\ ~req[w].over
        <5>1. req[w] \in SearchRecs /\ session[req[w].session] = w BY <4>1, SearchIs DEF Underway, OwnSession
        <5>2. req[w].session \in Sessions /\ req[w].session # c BY <2>2, <4>1, <5>1 DEF SearchRecs
        <5> QED BY <1>4, <5>1, <5>2 DEF SearchInv, SearchType
      <4> QED BY <4>1
    <3> QED BY <1>4, <2>1, <2>2, <3>1, OtherKept
  <2>3. CASE req[w].at \in Underway /\ req'[w] = [req[w] EXCEPT !.over = TRUE]
    BY <1>4, <2>1, <2>3, OvertakenKept
  <2> QED BY <1>9, <1>13, <2>2, <2>3
<1> QED BY <1>11, <1>12, <1>13 DEF SearchInv

\* What is wanted is in the list that a search takes, and in the one it makes.
LEMMA GetDirsStep ==
  ASSUME F!SearchAssumption, SearchInv, NEW r \in Requests, F!GetDirs(r)
  PROVE  SearchInv'
<1> DEFINE q == req[r]
           made1 == {d \in Dirs : index[q.source][d] # Nil /\ F!Below(q.list, d)}
<1>1. q.at = "list" /\ UNCHANGED <<index, cached, session, ruled>> BY DEF F!GetDirs
<1>2. /\ q \in SearchRecs /\ ListFits(q) /\ OwnSession(q, r) /\ WantedThere(q) /\ WantedListed(q) /\ WantedFound(q)
  BY <1>1, SearchIs
<1>3. q.source \in Sources /\ q.list \in F!Scopes /\ q.list \in {q.scope, F!Whole}
  BY <1>1, <1>2 DEF SearchRecs, ListFits, Underway, F!Scopes
<1>4. \A i \in q.wanted : /\ i.dir \in Dirs /\ F!In(q.source, i) /\ F!Below(q.list, i.dir)
                          /\ ~F!Overlooked(q.source, i.dir)
  BY <1>1, <1>2, <1>3 DEF WantedThere, WantedListed, Underway, SearchRecs, F!Items, F!Below
<1>5. /\ F!ListOf(q) \in Lists \cup {Nil}
      /\ F!ListOf(q) # Nil => F!CacheKey(q.source, q.list) = F!CacheKey(F!ListOf(q).source, F!ListOf(q).scope)
      /\ F!CacheKey(q.source, q.list) \in F!Keys /\ F!ListOf(q) = cached[F!CacheKey(q.source, q.list)]
  BY <1>3, KeyIs DEF F!ListOf
<1>6. PICK place \in {"keep", "pass"}, ds \in SUBSET Dirs, stray \in BOOLEAN :
        /\ req' = [req EXCEPT ![r] = [q EXCEPT !.at = place, !.dirs = ds, !.astray = stray]]
        /\ ~stray => \A i \in q.wanted : i.dir \in ds
        /\ place = "keep" => ds = made1
        /\ stray => \E s \in Sources : s # q.source /\ Nested(s, q.source)
  <2>1. CASE F!ListOf(q) # Nil
    <3>1. PICK l \in Lists : l = F!ListOf(q) BY <1>5, <2>1
    <3>2. req' = [req EXCEPT ![r] = [q EXCEPT !.at = "pass", !.dirs = l.dirs, !.astray = l.source # q.source]]
      BY <2>1, <3>1 DEF F!GetDirs
    <3>3. l.dirs \in SUBSET Dirs /\ l.source \in Sources /\ l.scope \in F!Scopes BY <3>1 DEF Lists
    <3>4. ASSUME l.source = q.source, NEW i \in q.wanted PROVE i.dir \in l.dirs
      <4>1. l.scope = q.list BY <1>3, <1>5, <2>1, <3>1, <3>3, <3>4, KeyTells
      <4> QED BY <1>4, <1>5, <2>1, <3>1, <3>4, <4>1 DEF F!Overlooked
    <3>5. l.source # q.source => \E s \in Sources : s # q.source /\ Nested(s, q.source)
      BY <1>3, <1>5, <2>1, <3>1, <3>3, KeysApart
    <3> HIDE DEF q
    <3> QED BY <3>2, <3>3, <3>4, <3>5
  <2>2. CASE F!ListOf(q) = Nil
    <3>1. req' = [req EXCEPT ![r] = [q EXCEPT !.at = "keep", !.dirs = made1]] BY <2>2 DEF F!GetDirs
    <3>2. \A i \in q.wanted : i.dir \in made1 BY <1>4 DEF F!In
    <3>3. ~q.astray BY <1>1, <1>2 DEF WantedListed
    <3>4. [q EXCEPT !.at = "keep", !.dirs = made1] = [q EXCEPT !.at = "keep", !.dirs = made1, !.astray = FALSE]
      BY <1>2, <3>3 DEF SearchRecs
    <3> QED BY <3>1, <3>2, <3>4
  <2> QED BY <2>1, <2>2
<1>7. PICK new : new = [q EXCEPT !.at = place, !.dirs = ds, !.astray = stray] OBVIOUS
<1>8. /\ new \in SearchRecs /\ new.at = place /\ new.dirs = ds /\ new.source = q.source /\ new.session = q.session
      /\ new.scope = q.scope /\ new.largest = q.largest /\ new.list = q.list /\ new.terms = q.terms
      /\ new.found = q.found /\ new.count = q.count /\ new.over = q.over /\ new.wanted = q.wanted
      /\ new.astray = stray
  BY <1>2, <1>7 DEF SearchRecs, Underway
<1> HIDE DEF q
<1>9. req' = [req EXCEPT ![r] = new] BY <1>6, <1>7
<1>10. \A s \in Sources, d \in Dirs : index[s][d] # Nil /\ F!Overlooked(s, d)' => F!Overlooked(s, d)
  <2> SUFFICES ASSUME NEW s \in Sources, NEW d \in Dirs, index[s][d] # Nil, F!Overlooked(s, d)'
               PROVE  F!Overlooked(s, d)
    OBVIOUS
  <2>1. ASSUME NEW w \in Requests, req'[w].at = "keep", req'[w].source = s, F!Below(req'[w].list, d),
               d \notin req'[w].dirs
        PROVE  req'[w] = req[w]
    <3>1. CASE w = r
      <4>1. req'[r] = new BY <1>9 DEF SearchInv, SearchType
      <4>2. place = "keep" /\ ds = made1 /\ q.source = s /\ F!Below(q.list, d) /\ d \notin ds
        BY <1>6, <1>8, <2>1, <3>1, <4>1
      <4> QED BY <4>2
    <3>2. CASE w # r BY <1>9, <3>2 DEF SearchInv, SearchType
    <3> QED BY <3>1, <3>2
  <2> QED BY <1>1, <2>1, OverlookedKept
<1>11. ListFits(new) BY <1>3, <1>8 DEF ListFits
<1>12. OwnSession(new, r) BY <1>1, <1>2, <1>8 DEF OwnSession, Underway
<1>13. WantedThere(new) BY <1>1, <1>2, <1>8 DEF WantedThere, Underway
<1>14. WantedListed(new) BY <1>6, <1>8 DEF WantedListed
<1>15. WantedFound(new)
  <2>1. ~q.astray BY <1>1, <1>2 DEF WantedListed
  <2> QED BY <1>1, <1>2, <1>8, <2>1 DEF WantedFound, Underway, F!Matches
<1>16. WantedGiven(new) BY <1>8 DEF WantedGiven
<1>17. KeptLists' BY <1>1 DEF SearchInv, SearchType, KeptLists
<1>18. new.at # "list" BY <1>8
<1>19. AstrayNested(new) BY <1>6, <1>8 DEF AstrayNested
<1> QED BY <1>1, <1>8, <1>9, <1>10, <1>11, <1>12, <1>13, <1>14, <1>15, <1>16, <1>17, <1>18, <1>19, OneSearch

\* A list that is kept was about to be kept.
LEMMA KeepStep ==
  ASSUME SearchInv, NEW r \in Requests, F!Keep(r)
  PROVE  SearchInv'
<1> DEFINE q == req[r]
<1>1. q.at = "keep" /\ UNCHANGED <<index, session, ruled>> BY DEF F!Keep
<1>2. /\ q \in SearchRecs /\ ListFits(q) /\ OwnSession(q, r) /\ WantedThere(q) /\ WantedListed(q) /\ WantedFound(q)
      /\ AstrayNested(q)
  BY <1>1, SearchIs
<1>3. q.source \in Sources /\ q.list \in F!Scopes /\ q.dirs \in SUBSET Dirs
  BY <1>1, <1>2 DEF SearchRecs, ListFits, Underway, F!Scopes
<1>4. PICK new, key, l : /\ new = [q EXCEPT !.at = "pass"] /\ key = F!CacheKey(q.source, q.list)
                          /\ l = [source |-> q.source, scope |-> q.list, dirs |-> q.dirs]
  OBVIOUS
<1>5. /\ req' = [req EXCEPT ![r] = new]
      /\ cached' = [cached EXCEPT ![key] = l]
  BY <1>1, <1>4 DEF F!Keep, SearchInv, SearchType
<1>6. /\ new \in SearchRecs /\ new.at = "pass" /\ new.dirs = q.dirs /\ new.source = q.source
      /\ new.session = q.session
      /\ new.scope = q.scope /\ new.largest = q.largest /\ new.list = q.list /\ new.terms = q.terms
      /\ new.found = q.found /\ new.count = q.count /\ new.over = q.over /\ new.wanted = q.wanted
      /\ new.astray = q.astray
  BY <1>2, <1>4 DEF SearchRecs, Underway
<1>7. /\ l \in Lists /\ l.source = q.source /\ l.scope = q.list /\ l.dirs = q.dirs
      /\ KeptLists /\ key \in F!Keys
  BY <1>3, <1>4, KeyIs DEF Lists, SearchInv, SearchType
<1>8. KeptLists' BY <1>4, <1>5, <1>7 DEF KeptLists
<1>9. \A s \in Sources, d \in Dirs : index[s][d] # Nil /\ F!Overlooked(s, d)' => F!Overlooked(s, d)
  <2> SUFFICES ASSUME NEW s \in Sources, NEW d \in Dirs, F!Overlooked(s, d)' PROVE F!Overlooked(s, d)
    OBVIOUS
  <2>1. ASSUME NEW w \in Requests, req'[w].at = "keep" PROVE req'[w] = req[w]
    BY <1>5, <1>6, <2>1 DEF SearchInv, SearchType
  <2>2. ASSUME NEW k \in F!Keys, cached'[k].source = s, F!Below(cached'[k].scope, d), d \notin cached'[k].dirs
        PROVE  cached[k] = cached'[k] \/ F!Overlooked(s, d)
    <3>1. CASE k = key
      <4>1. cached'[k] = l BY <1>5, <1>7, <3>1 DEF KeptLists
      <4> QED BY <1>1, <1>7, <2>2, <4>1 DEF F!Overlooked
    <3>2. CASE k # key BY <1>5, <1>7, <3>2 DEF KeptLists
    <3> QED BY <3>1, <3>2
  <2> QED BY <2>1, <2>2, OverlookedKept
<1> HIDE DEF q
<1>11. ListFits(new) BY <1>1, <1>2, <1>6 DEF ListFits, Underway
<1>12. OwnSession(new, r) BY <1>1, <1>2, <1>6 DEF OwnSession, Underway
<1>13. WantedThere(new) BY <1>1, <1>2, <1>6 DEF WantedThere, Underway
<1>14. WantedListed(new) BY <1>1, <1>2, <1>6 DEF WantedListed
<1>15. WantedFound(new) BY <1>1, <1>2, <1>6 DEF WantedFound, Underway, F!Matches
<1>16. WantedGiven(new) BY <1>6 DEF WantedGiven
<1>17. new.at # "list" BY <1>6
<1>18. AstrayNested(new) BY <1>2, <1>6 DEF AstrayNested
<1> QED BY <1>1, <1>5, <1>6, <1>8, <1>9, <1>11, <1>12, <1>13, <1>14, <1>15, <1>16, <1>17, <1>18, OneSearch

\* The search is over, with this result.
LEMMA DoneIs ==
  ASSUME NEW q \in SearchRecs, NEW found \in SUBSET F!Items
  PROVE  /\ F!Done(q, found) \in SearchRecs /\ F!Done(q, found).at = "done"
         /\ F!Done(q, found).found = found /\ F!Done(q, found).source = q.source
         /\ F!Done(q, found).over = q.over /\ F!Done(q, found).count = q.count
         /\ F!Done(q, found).wanted = q.wanted /\ F!Done(q, found).astray = q.astray
<1>1. <<>> \in Seq(Terms) /\ {} \in SUBSET Dirs /\ Nil \in F!Scopes \cup {Nil} OBVIOUS
<1>2. F!Done(q, found) = [q EXCEPT !.at = "done", !.found = found, !.dirs = {}, !.terms = <<>>, !.list = Nil]
  BY DEF F!Done
<1>3. F!Done(q, found) \in SearchRecs BY <1>1, <1>2 DEF SearchRecs
<1> QED BY <1>2, <1>3 DEF SearchRecs

\* A step that only ends a search or only makes a pass changes no list.
LEMMA ListsKept ==
  ASSUME SearchInv, NEW r \in Requests, NEW new \in SearchRecs, new.at # "keep",
         req' = [req EXCEPT ![r] = new], UNCHANGED cached
  PROVE  \A s \in Sources, d \in Dirs : F!Overlooked(s, d)' => F!Overlooked(s, d)
<1> SUFFICES ASSUME NEW s \in Sources, NEW d \in Dirs, F!Overlooked(s, d)' PROVE F!Overlooked(s, d)
  OBVIOUS
<1>1. ASSUME NEW w \in Requests, req'[w].at = "keep" PROVE req'[w] = req[w]
  BY <1>1 DEF SearchInv, SearchType
<1> QED BY <1>1, OverlookedKept

\* A search ends.
LEMMA DoneStep ==
  ASSUME SearchInv, NEW r \in Requests, req[r].at = "pass", NEW new \in SearchRecs, new.at = "done",
         new.source = req[r].source, new.astray = req[r].astray,
         req' = [req EXCEPT ![r] = new], UNCHANGED <<index, cached, session, ruled>>,
         WantedGiven(new)
  PROVE  SearchInv'
<1>1. AstrayNested(req[r]) BY SearchIs
<1>2. AstrayNested(new) BY <1>1 DEF AstrayNested
<1>5. ListFits(new) /\ OwnSession(new, r) /\ WantedThere(new) /\ WantedListed(new) /\ WantedFound(new)
  BY DEF ListFits, OwnSession, WantedThere, WantedListed, WantedFound, Underway
<1>6. \A s \in Sources, d \in Dirs : F!Overlooked(s, d)' => F!Overlooked(s, d)
  BY ListsKept
<1>7. KeptLists' BY DEF SearchInv, SearchType, KeptLists
<1> QED BY <1>2, <1>5, <1>6, <1>7, OneSearch

LEMMA TailIs ==
  ASSUME NEW S, NEW s \in Seq(S), s # <<>>
  PROVE  /\ Tail(s) \in Seq(S) /\ Head(s) = s[1]
         /\ \A n \in DOMAIN s : n = 1 \/ (n - 1 \in DOMAIN Tail(s) /\ Tail(s)[n - 1] = s[n])
OBVIOUS

\* A pass finds what the first term is found in, or as much as there was room for.
LEMMA PassGoes ==
  ASSUME F!SearchAssumption, SearchInv, NEW r \in Requests, req[r].at = "pass", req[r].terms # <<>>,
         NEW some \in SUBSET F!Items, NEW count \in Nat,
         req' = [req EXCEPT ![r] = [req[r] EXCEPT !.terms = Tail(@), !.found = @ \cup some, !.count = count]],
         UNCHANGED <<index, cached, session, ruled>>,
         ~req[r].astray /\ count < Limit =>
           req[r].count < Limit /\ \A i \in req[r].wanted : F!Matches(req[r], Head(req[r].terms), i) => i \in some
  PROVE  SearchInv'
<1> DEFINE q == req[r]
<1>1. /\ q \in SearchRecs /\ ListFits(q) /\ OwnSession(q, r) /\ WantedThere(q) /\ WantedListed(q) /\ WantedFound(q)
      /\ AstrayNested(q)
  BY SearchIs
<1>2. PICK new : new = [q EXCEPT !.terms = Tail(@), !.found = @ \cup some, !.count = count] OBVIOUS
<1>3. q.terms \in Seq(Terms) /\ q.terms # <<>> /\ q.found \in SUBSET F!Items BY <1>1 DEF SearchRecs
<1>4. /\ Tail(q.terms) \in Seq(Terms)
      /\ \A n \in DOMAIN q.terms : n = 1 \/ (n - 1 \in DOMAIN Tail(q.terms) /\ Tail(q.terms)[n - 1] = q.terms[n])
      /\ Head(q.terms) = q.terms[1]
  BY <1>3, TailIs
<1>5. q.found \cup some \in SUBSET F!Items BY <1>3
<1>6. /\ new \in SearchRecs /\ new.at = "pass" /\ new.dirs = q.dirs /\ new.source = q.source
      /\ new.session = q.session /\ new.scope = q.scope /\ new.largest = q.largest /\ new.list = q.list
      /\ new.terms = Tail(q.terms) /\ new.found = q.found \cup some /\ new.count = count
      /\ new.over = q.over /\ new.wanted = q.wanted /\ new.astray = q.astray
  BY <1>1, <1>2, <1>4, <1>5 DEF SearchRecs
<1>7. req' = [req EXCEPT ![r] = new] /\ q.at = "pass" BY <1>2
<1>8. \A s \in Sources, d \in Dirs : F!Overlooked(s, d)' => F!Overlooked(s, d)
  BY <1>6, <1>7, ListsKept
<1>9. KeptLists' BY DEF SearchInv, SearchType, KeptLists
<1>10. ~q.astray /\ count < Limit => q.count < Limit /\ \A i \in q.wanted : F!Matches(q, Head(q.terms), i) => i \in some
  OBVIOUS
<1> HIDE DEF q
<1>11. ListFits(new) BY <1>1, <1>6, <1>7 DEF ListFits, Underway
<1>12. OwnSession(new, r) BY <1>1, <1>6, <1>7 DEF OwnSession, Underway
<1>13. WantedThere(new) BY <1>1, <1>6, <1>7 DEF WantedThere, Underway
<1>14. WantedListed(new) BY <1>1, <1>6, <1>7 DEF WantedListed
<1>15. WantedFound(new)
  <2> SUFFICES ASSUME ~q.astray, count < Limit, NEW i \in q.wanted
               PROVE  i \in new.found \/ \E n \in DOMAIN new.terms : F!Matches(new, new.terms[n], i)
    BY <1>6 DEF WantedFound
  <2>1. CASE i \in q.found BY <1>6, <2>1
  <2>2. ASSUME NEW n \in DOMAIN q.terms, F!Matches(q, q.terms[n], i)
        PROVE  i \in new.found \/ \E m \in DOMAIN new.terms : F!Matches(new, new.terms[m], i)
    <3>1. CASE n = 1 BY <1>4, <1>6, <1>10, <2>2, <3>1
    <3>2. CASE n # 1
      <4>1. n - 1 \in DOMAIN new.terms /\ new.terms[n - 1] = q.terms[n] BY <1>4, <1>6, <3>2
      <4>2. F!Matches(new, new.terms[n - 1], i) BY <1>6, <2>2, <4>1 DEF F!Matches
      <4> QED BY <4>1, <4>2
    <3> QED BY <3>1, <3>2
  <2> QED BY <1>1, <1>7, <1>10, <2>1, <2>2 DEF WantedFound, Underway
<1>16. WantedGiven(new) BY <1>6 DEF WantedGiven
<1>17. new.at # "list" BY <1>6
<1>18. AstrayNested(new) BY <1>1, <1>6 DEF AstrayNested
<1> QED BY <1>6, <1>7, <1>8, <1>9, <1>11, <1>12, <1>13, <1>14, <1>15, <1>16, <1>17, <1>18, OneSearch

\* Search's finite sets are those of this module.
LEMMA SameFiniteSets ==
  /\ F!IsFiniteSet(F!Items) <=> IsFiniteSet(F!Items)
  /\ \A S : F!Cardinality(S) = Cardinality(S)
<1>1. F!IsFiniteSet(F!Items) <=> IsFiniteSet(F!Items) BY DEF F!IsFiniteSet, IsFiniteSet
<1>2. ASSUME NEW S PROVE F!Cardinality(S) = Cardinality(S) BY DEF F!Cardinality, Cardinality
<1> QED BY <1>1, <1>2

LEMMA PassStep ==
  ASSUME F!SearchAssumption, SearchInv, NEW r \in Requests, F!Pass(r)
  PROVE  SearchInv'
<1> DEFINE q == req[r]
           seen == {i \in F!Items : i.dir \in q.dirs /\ F!In(q.source, i)}
           hits == {i \in seen : F!Matches(q, Head(q.terms), i)}
           dirHits == {i \in hits : i.name = Nil}
           room == Limit - q.count
<1>1. q.at = "pass" /\ q.terms # <<>> /\ UNCHANGED <<index, cached, session, ruled>> BY DEF F!Pass
<1>2. /\ q \in SearchRecs /\ OwnSession(q, r) /\ WantedThere(q) /\ WantedListed(q)
  BY <1>1, SearchIs
<1>3. q.count \in Nat /\ Limit \in Nat /\ q.wanted \in SUBSET F!Items BY <1>2 DEF SearchRecs, F!SearchAssumption
<1>4. \A some \in SUBSET hits : some \in SUBSET F!Items /\ Cardinality(some) \in Nat
  <2> SUFFICES ASSUME NEW some \in SUBSET hits
               PROVE  some \in SUBSET F!Items /\ Cardinality(some) \in Nat
    OBVIOUS
  <2>1. IsFiniteSet(F!Items) BY SameFiniteSets DEF F!SearchAssumption
  <2>2. some \in SUBSET F!Items OBVIOUS
  <2>3. IsFiniteSet(some) BY <2>1, <2>2, FS_Subset
  <2> QED BY <2>2, <2>3, FS_CardinalityType
<1>5. ~q.astray => \A i \in q.wanted : i \in seen BY <1>1, <1>2, <1>3 DEF WantedThere, WantedListed, Underway
<1>6. CASE F!Superseded(q, r) /\ req' = [req EXCEPT ![r] = F!Done(q, {})]
  <2>1. q.over BY <1>1, <1>2, <1>6 DEF F!Superseded, OwnSession, Underway, SearchRecs
  <2>2. PICK new : new = F!Done(q, {}) OBVIOUS
  <2>3. /\ new \in SearchRecs /\ new.at = "done" /\ new.over /\ new.source = q.source /\ new.astray = q.astray
    BY <1>2, <2>1, <2>2, DoneIs
  <2>4. WantedGiven(new) BY <2>3 DEF WantedGiven
  <2> QED BY <1>1, <1>6, <2>2, <2>3, <2>4, DoneStep
<1>7. ASSUME NEW some \in SUBSET dirHits,
             req' = [req EXCEPT ![r] = [q EXCEPT !.terms = Tail(@), !.found = @ \cup some, !.count = Limit]]
      PROVE  SearchInv'
  <2>1. some \in SUBSET F!Items BY <1>7
  <2>2. ~(Limit < Limit) BY <1>3
  <2> HIDE DEF dirHits
  <2> QED BY <1>1, <1>3, <1>7, <2>1, <2>2, PassGoes
<1>8. ASSUME NEW some \in SUBSET hits, some = hits \/ Cardinality(some) = room, Cardinality(some) <= room,
             req' = [req EXCEPT ![r] = [q EXCEPT !.terms = Tail(@), !.found = @ \cup some,
                                                 !.count = @ + Cardinality(some)]]
      PROVE  SearchInv'
  <2>1. some \in SUBSET F!Items /\ Cardinality(some) \in Nat BY <1>4, <1>8
  <2>2. PICK count \in Nat : count = q.count + Cardinality(some) BY <1>3, <2>1
  <2>3. count < Limit => q.count < Limit /\ Cardinality(some) # room BY <1>3, <2>1, <2>2
  <2>4. ~q.astray /\ count < Limit => \A i \in q.wanted : F!Matches(q, Head(q.terms), i) => i \in some
    BY <1>5, <1>8, <2>3
  <2>5. req' = [req EXCEPT ![r] = [q EXCEPT !.terms = Tail(@), !.found = @ \cup some, !.count = count]]
    BY <1>8, <2>2
  <2> HIDE DEF hits, room
  <2> QED BY <1>1, <2>1, <2>2, <2>3, <2>4, <2>5, PassGoes
<1>9. CASE F!Superseded(q, r) /\ \E i \in seen : i.name # Nil
  <2>1. \/ req' = [req EXCEPT ![r] = F!Done(q, {})]
        \/ \E some \in SUBSET dirHits :
              req' = [req EXCEPT ![r] = [q EXCEPT !.terms = Tail(@), !.found = @ \cup some, !.count = Limit]]
    BY <1>9 DEF F!Pass
  <2> QED BY <1>6, <1>7, <1>9, <2>1
<1>10. CASE ~(F!Superseded(q, r) /\ \E i \in seen : i.name # Nil)
  <2>1. \E some \in SUBSET hits :
          /\ some = hits \/ Cardinality(some) = room
          /\ Cardinality(some) <= room
          /\ req' = [req EXCEPT ![r] = [q EXCEPT !.terms = Tail(@), !.found = @ \cup some,
                                                 !.count = @ + Cardinality(some)]]
    BY <1>10, SameFiniteSets DEF F!Pass
  <2> QED BY <1>8, <2>1
<1> QED BY <1>9, <1>10

\* Where no rule lies below the scope, the path asked is under the same rules as the item's.
LEMMA AskedAlike ==
  ASSUME F!SearchAssumption, NEW q \in SearchRecs, q.scope \in Dirs, NEW i \in F!Items, F!Below(q.scope, i.dir), F!Plain(q)
  PROVE  F!Permitted(q.source, F!PathOf(i)) <=> F!Permitted(q.source, F!Question(q, i))
<1>1. PICK name : name = (IF i.name = Nil THEN <<>> ELSE <<i.name>>) OBVIOUS
<1>10. name \in Seq(FileNames)
  <2>1. <<>> \in Seq(FileNames) OBVIOUS
  <2>2. CASE i.name = Nil BY <1>1, <2>1, <2>2
  <2>3. CASE i.name # Nil BY <1>1, <2>3 DEF F!Items
  <2> QED BY <2>2, <2>3
<1>11. F!PathOf(i) = F!Rel(i.dir) \o name BY <1>1 DEF F!PathOf
<1>2. CASE q.scope = Top
  <2>1. F!Rel(i.dir) \in Seq(Dirs) BY DEF F!Rel, F!Items
  <2>2. F!PathOf(i) \in Seq(Dirs \cup FileNames) BY <1>10, <1>11, <2>1
  <2>3. F!Rel(q.scope) = <<>> BY <1>2 DEF F!Rel
  <2>4. F!Question(q, i) = F!PathOf(i) BY <2>2, <2>3 DEF F!Question
  <2> QED BY <2>4
<1>3. CASE q.scope # Top
  <2>1. i.dir = q.scope /\ i.dir \in Dirs BY <1>3 DEF F!Below, F!SearchAssumption
  <2>2. PICK d \in Dirs : d = q.scope BY <2>1
  <2>3. F!Rel(d) = <<d>> BY <1>3, <2>2 DEF F!Rel, F!SearchAssumption
  <2>4. PICK own, asked \in Seq(Dirs \cup FileNames) :
          own = <<d>> \o name /\ asked = <<d>> \o (<<d>> \o name)
    <3>1. <<d>> \o name \in Seq(Dirs \cup FileNames) BY <1>10
    <3>2. <<d>> \o (<<d>> \o name) \in Seq(Dirs \cup FileNames) BY <3>1
    <3> QED BY <3>1, <3>2
  <2>5. F!PathOf(i) = own /\ F!Question(q, i) = asked BY <1>11, <2>1, <2>2, <2>3, <2>4 DEF F!Question
  <2>6. own[1] = d /\ asked[1] = d /\ Len(own) >= 1 /\ Len(asked) >= 1 BY <2>4
  <2>7. ASSUME NEW p \in F!Ruled, ruled[q.source][p] # Nil, NEW path \in {own, asked}, F!Above(p, path)
        PROVE  p = <<>> \/ p = <<d>>
    <3>1. p \in Seq(Dirs \cup FileNames) BY DEF F!Ruled, F!SearchAssumption
    <3>2. CASE Len(p) = 0 BY <3>1, <3>2
    <3>3. CASE Len(p) # 0
      <4>1. p[1] = d BY <2>6, <2>7, <3>1, <3>3 DEF F!Above
      <4>2. F!Above(<<d>>, p) BY <3>1, <3>3, <4>1 DEF F!Above
      <4> QED BY <1>3, <2>2, <2>3, <2>7, <4>2 DEF F!Plain
    <3> QED BY <3>2, <3>3
  <2>8. \A path \in {own, asked} : F!Above(<<>>, path) /\ F!Above(<<d>>, path) BY <2>6 DEF F!Above
  <2>9. {p \in F!Ruled : ruled[q.source][p] # Nil /\ F!Above(p, own)}
          = {p \in F!Ruled : ruled[q.source][p] # Nil /\ F!Above(p, asked)}
    BY <2>7, <2>8
  <2> QED BY <2>5, <2>9 DEF F!Permitted
<1> QED BY <1>2, <1>3

\* What is wanted at the end passes the filter.
LEMMA AnswerStep ==
  ASSUME F!SearchAssumption, SearchInv, NEW r \in Requests, F!Answer(r)
  PROVE  SearchInv'
<1> DEFINE q == req[r]
           found == {i \in q.found : F!Permitted(q.source, F!Question(q, i))}
           wanted == {i \in q.wanted : F!Plain(q) /\ F!Permitted(q.source, F!PathOf(i))}
<1>1. q.at = "pass" /\ q.terms = <<>> /\ UNCHANGED <<index, cached, session, ruled>> BY DEF F!Answer
<1>2. q \in SearchRecs /\ WantedThere(q) /\ WantedFound(q) BY <1>1, SearchIs
<1>3. found \in SUBSET F!Items /\ wanted \in SUBSET F!Items BY <1>2 DEF SearchRecs
<1>4. ASSUME ~q.astray, q.count < Limit, NEW i \in wanted PROVE i \in found
  <2>1. i \in q.found BY <1>1, <1>2, <1>4 DEF WantedFound, Underway
  <2>2. F!Below(q.scope, i.dir) /\ q.scope \in Dirs BY <1>1, <1>2, <1>4 DEF WantedThere, Underway, SearchRecs
  <2>3. i \in F!Items /\ F!Plain(q) /\ F!Permitted(q.source, F!PathOf(i)) BY <1>3, <1>4
  <2>4. F!Permitted(q.source, F!Question(q, i))
    <3>1. PICK k \in SearchRecs : k = q BY <1>2
    <3>2. k.scope \in Dirs /\ F!Below(k.scope, i.dir) BY <2>2, <3>1
    <3>3. F!Plain(k) BY <2>3, <3>1 DEF F!Plain
    <3>4. F!Permitted(k.source, F!PathOf(i)) BY <2>3, <3>1 DEF F!Permitted
    <3>5. F!Permitted(k.source, F!Question(k, i)) BY <2>3, <3>2, <3>3, <3>4, AskedAlike
    <3> QED BY <3>1, <3>5 DEF F!Permitted, F!Question
  <2> QED BY <2>1, <2>4
<1>5. PICK new : new = [F!Done(q, found) EXCEPT !.wanted = wanted] OBVIOUS
<1>6. PICK over : over = F!Done(q, found) OBVIOUS
<1>7. /\ over \in SearchRecs /\ over.at = "done" /\ over.found = found /\ over.source = q.source
      /\ over.count = q.count /\ over.wanted = q.wanted /\ over.astray = q.astray
  BY <1>2, <1>3, <1>6, DoneIs
<1>8. /\ new \in SearchRecs /\ new.at = "done" /\ new.found = found /\ new.source = q.source
      /\ new.count = q.count /\ new.astray = q.astray /\ new.wanted = wanted
  BY <1>3, <1>5, <1>6, <1>7 DEF SearchRecs
<1>9. WantedGiven(new) BY <1>4, <1>8 DEF WantedGiven
<1>10. req' = [req EXCEPT ![r] = new]
  <2>1. req' = [req EXCEPT ![r] =
                  [F!Done(q, found) EXCEPT !.wanted = {i \in @ : F!Plain(q) /\ F!Permitted(q.source, F!PathOf(i))}]]
    BY DEF F!Answer
  <2>2. [over EXCEPT !.wanted = {i \in @ : F!Plain(q) /\ F!Permitted(q.source, F!PathOf(i))}] = new
    BY <1>5, <1>6, <1>7
  <2> QED BY <1>6, <2>1, <2>2
<1> HIDE DEF found, wanted
<1> QED BY <1>1, <1>8, <1>9, <1>10, DoneStep

-----------------------------------------------------------------------------
(* Scans, rules and time                                                       *)

\* Something else changes, and nobody wants any more what that may concern.
LEMMA WantLess ==
  ASSUME SearchInv, UNCHANGED session,
         NEW ws, \A w \in Requests : ws[w] \in SUBSET req[w].wanted,
         \A w \in Requests : req[w].at \notin {"idle", "done"} \/ req'[w] = req[w],
         \A w \in Requests : req[w].at \notin {"idle", "done"} => req'[w] = [req[w] EXCEPT !.wanted = ws[w]],
         req' = [w \in Requests |-> req'[w]],
         index' \in [Sources -> [Dirs -> (SUBSET FileNames) \cup {Nil}]],
         KeptLists', ruled' \in [Sources -> [F!Ruled -> F!Words \cup {Nil}]],
         \A k \in F!Keys : cached'[k] \in {cached[k], Nil},
         \A w \in Requests : req[w].at \in Underway =>
            \A i \in ws[w] : F!In(req[w].source, i) => F!In(req[w].source, i)'
  PROVE  SearchInv'
<1>1. ASSUME NEW w \in Requests, req[w].at \in Underway
      PROVE  /\ req[w] \in SearchRecs /\ req'[w] \in SearchRecs
             /\ req'[w].at = req[w].at /\ req'[w].source = req[w].source /\ req'[w].session = req[w].session
             /\ req'[w].scope = req[w].scope /\ req'[w].largest = req[w].largest /\ req'[w].list = req[w].list
             /\ req'[w].terms = req[w].terms /\ req'[w].dirs = req[w].dirs /\ req'[w].found = req[w].found
             /\ req'[w].count = req[w].count /\ req'[w].over = req[w].over /\ req'[w].wanted = ws[w]
             /\ req'[w].astray = req[w].astray
  <2>1. req[w] \in SearchRecs BY <1>1, SearchIs DEF Underway
  <2>2. ws[w] \in SUBSET F!Items BY <2>1 DEF SearchRecs
  <2>3. req'[w] = [req[w] EXCEPT !.wanted = ws[w]] BY <1>1 DEF Underway
  <2> QED BY <2>1, <2>2, <2>3 DEF SearchRecs
<1>2. \A w \in Requests : req[w].at \in Underway \/ req'[w] = req[w] BY SearchIs DEF Underway
<1>3. SearchType'
  <2>1. \A w \in Requests : req'[w] \in SearchRecs \cup {F!NoSearch} BY <1>1, <1>2 DEF SearchInv, SearchType
  <2>2. req' \in [Requests -> SearchRecs \cup {F!NoSearch}] BY <2>1
  <2> QED BY <2>2 DEF SearchInv, SearchType
<1>4. ASSUME NEW s \in Sources, NEW d \in Dirs, ~F!Overlooked(s, d) PROVE ~F!Overlooked(s, d)'
  <2>1. ASSUME NEW k \in F!Keys, cached'[k] # Nil, cached'[k].source = s, F!Below(cached'[k].scope, d),
               d \notin cached'[k].dirs
        PROVE  FALSE
    <3>1. cached'[k] = cached[k] BY <2>1
    <3> QED BY <1>4, <2>1, <3>1 DEF F!Overlooked
  <2>2. ASSUME NEW w \in Requests, req'[w].at = "keep", req'[w].source = s, F!Below(req'[w].list, d),
               d \notin req'[w].dirs
        PROVE  FALSE
    <3>1. req[w].at = "keep" /\ req[w].source = s /\ F!Below(req[w].list, d) /\ d \notin req[w].dirs
      <4>1. CASE req[w].at \in Underway BY <1>1, <2>2, <4>1
      <4>2. CASE req'[w] = req[w] BY <2>2, <4>2
      <4> QED BY <1>2, <4>1, <4>2
    <3> QED BY <1>4, <3>1 DEF F!Overlooked
  <2> QED BY <2>1, <2>2 DEF F!Overlooked
<1>5. ASSUME NEW w \in Requests PROVE Promise(w)'
  <2>1. CASE req[w].at = "idle"
    <3>1. req'[w].at = "idle" BY <1>2, <2>1 DEF Underway
    <3> QED BY <3>1 DEF Promise
  <2>2. CASE req[w].at = "done"
    <3>1. req'[w] = req[w] /\ req[w] \in SearchRecs /\ WantedGiven(req[w]) /\ AstrayNested(req[w]) BY <2>2, SearchIs
    <3>3. WantedGiven(req[w])' /\ AstrayNested(req[w])' BY <3>1 DEF WantedGiven, AstrayNested
    <3>4. (ListFits(req[w]) /\ OwnSession(req[w], w) /\ WantedThere(req[w]) /\ WantedListed(req[w])
           /\ WantedFound(req[w]))'
      BY <2>2, <3>1 DEF ListFits, OwnSession, WantedThere, WantedListed, WantedFound, Underway
    <3> QED BY <3>3, <3>4 DEF Promise
  <2>3. CASE req[w].at \in Underway
    <3>1. /\ ListFits(req[w]) /\ OwnSession(req[w], w) /\ WantedThere(req[w]) /\ WantedListed(req[w])
          /\ WantedFound(req[w]) /\ AstrayNested(req[w])
      BY <2>3, SearchIs DEF Underway
    <3>2. ws[w] \subseteq req[w].wanted OBVIOUS
    <3>3. ListFits(req[w])' BY <1>1, <2>3, <3>1 DEF ListFits
    <3>4. OwnSession(req[w], w)' BY <1>1, <2>3, <3>1 DEF OwnSession
    <3>5. WantedThere(req[w])'
      <4>1. \A i \in ws[w] : F!In(req[w].source, i) /\ F!Below(req[w].scope, i.dir)
        BY <2>3, <3>1, <3>2 DEF WantedThere
      <4>2. \A i \in ws[w] : F!In(req[w].source, i)' BY <2>3, <4>1
      <4> QED BY <1>1, <2>3, <4>1, <4>2 DEF WantedThere
    <3>6. WantedListed(req[w])'
      <4>1. CASE req[w].at = "list"
        <5>1. ASSUME NEW i \in ws[w] PROVE ~F!Overlooked(req[w].source, i.dir)'
          <6>1. PICK s \in Sources, d \in Dirs : s = req[w].source /\ d = i.dir
            BY <1>1, <2>3, <3>2 DEF SearchRecs, F!Items
          <6>2. ~F!Overlooked(s, d) BY <3>1, <3>2, <4>1, <6>1 DEF WantedListed
          <6>3. s = req'[w].source BY <1>1, <2>3, <6>1
          <6>4. ~F!Overlooked(s, d)' BY <1>4, <6>2
          <6> QED BY <6>1, <6>3, <6>4 DEF F!Overlooked
        <5>2. ~req'[w].astray /\ req'[w].at = "list" BY <1>1, <2>3, <3>1, <4>1 DEF WantedListed
        <5> QED BY <1>1, <2>3, <5>1, <5>2 DEF WantedListed, F!Overlooked
      <4>2. CASE req[w].at # "list" BY <1>1, <2>3, <3>1, <3>2, <4>2 DEF WantedListed
      <4> QED BY <4>1, <4>2
    <3>7. WantedFound(req[w])'
      <4>1. \A n \in DOMAIN req[w].terms : \A i \in ws[w] :
              F!Matches(req[w], req[w].terms[n], i) => F!Matches(req'[w], req'[w].terms[n], i)
        BY <1>1, <2>3 DEF F!Matches
      <4>2. ~req[w].astray /\ req[w].count < Limit =>
              \A i \in ws[w] : i \in req[w].found \/ \E n \in DOMAIN req[w].terms : F!Matches(req[w], req[w].terms[n], i)
        BY <2>3, <3>1, <3>2 DEF WantedFound
      <4>3. ~req'[w].astray /\ req'[w].count < Limit =>
              \A i \in req'[w].wanted :
                i \in req'[w].found \/ \E n \in DOMAIN req'[w].terms : F!Matches(req'[w], req'[w].terms[n], i)
        BY <1>1, <2>3, <4>1, <4>2
      <4> QED BY <4>3 DEF WantedFound
    <3>8. WantedGiven(req[w])' BY <1>1, <2>3 DEF WantedGiven, Underway
    <3>9. AstrayNested(req[w])' BY <1>1, <2>3, <3>1 DEF AstrayNested
    <3> QED BY <3>3, <3>4, <3>5, <3>6, <3>7, <3>8, <3>9 DEF Promise
  <2> QED BY <1>2, <2>1, <2>2, <2>3, SearchIs
<1> QED BY <1>3, <1>5 DEF SearchInv

LEMMA ReindexStep ==
  ASSUME F!SearchAssumption, SearchInv, NEW s \in Sources, NEW d \in Dirs,
         NEW names \in {Nil} \cup SUBSET FileNames, F!Reindex(s, d, names)
  PROVE  SearchInv'
<1> DEFINE keeps(source, i) == source # s \/ i.dir # d \/ (names # Nil /\ (i.name = Nil \/ i.name \in names))
<1>1. PICK ws : ws = [w \in Requests |-> {i \in req[w].wanted : keeps(req[w].source, i)}] OBVIOUS
<1>2. /\ index' = [index EXCEPT ![s][d] = names] /\ UNCHANGED <<cached, session, ruled>>
      /\ req' = [r \in Requests |->
           IF req[r].at = "idle" THEN req[r] ELSE
             [req[r] EXCEPT !.wanted = IF req[r].at = "done" THEN @ ELSE {i \in @ : keeps(req[r].source, i)}]]
  BY DEF F!Reindex, F!Still
<1>3. /\ \A w \in Requests : ws[w] \in SUBSET req[w].wanted
      /\ \A w \in Requests : req[w].at \notin {"idle", "done"} => req'[w] = [req[w] EXCEPT !.wanted = ws[w]]
      /\ req' = [w \in Requests |-> req'[w]]
  BY <1>1, <1>2
<1>4. ASSUME NEW w \in Requests, req[w].at \in {"idle", "done"} PROVE req'[w] = req[w]
  <2>1. CASE req[w].at = "idle" BY <1>2, <2>1
  <2>2. CASE req[w].at = "done"
    <3>1. req[w] \in SearchRecs BY <2>2, SearchIs
    <3>2. req'[w] = [req[w] EXCEPT !.wanted = req[w].wanted] BY <1>2, <2>2
    <3> QED BY <3>1, <3>2 DEF SearchRecs
  <2> QED BY <1>4, <2>1, <2>2
<1>5. index \in [Sources -> [Dirs -> (SUBSET FileNames) \cup {Nil}]] BY DEF SearchInv, SearchType
<1>6. index' \in [Sources -> [Dirs -> (SUBSET FileNames) \cup {Nil}]] BY <1>2, <1>5
<1>7. ASSUME NEW w \in Requests, req[w].at \in Underway, NEW i \in ws[w], F!In(req[w].source, i)
      PROVE  F!In(req[w].source, i)'
  <2>1. req[w] \in SearchRecs BY <1>7, SearchIs DEF Underway
  <2>2. i \in F!Items /\ keeps(req[w].source, i) BY <1>1, <1>7, <2>1 DEF SearchRecs
  <2>3. PICK x \in Sources : x = req[w].source BY <2>1 DEF SearchRecs
  <2>4. req'[w].source = x
    BY <1>3, <1>7, <2>1, <2>3 DEF Underway, SearchRecs
  <2>5. index'[x][i.dir] = IF x = s /\ i.dir = d THEN names ELSE index[x][i.dir]
    BY <1>2, <1>5, <2>2 DEF F!Items
  <2>6. index'[x][i.dir] # Nil /\ (i.name = Nil \/ i.name \in index'[x][i.dir])
    BY <1>7, <2>2, <2>3, <2>5 DEF F!In
  <2> QED BY <2>3, <2>4, <2>6 DEF F!In
<1>8. /\ KeptLists' /\ ruled' \in [Sources -> [F!Ruled -> F!Words \cup {Nil}]]
      /\ \A k \in F!Keys : cached'[k] \in {cached[k], Nil}
  BY <1>2 DEF SearchInv, SearchType, KeptLists
<1> HIDE DEF keeps
<1> QED BY <1>2, <1>3, <1>4, <1>6, <1>7, <1>8, WantLess

LEMMA RuleStep ==
  ASSUME F!SearchAssumption, SearchInv, NEW s \in Sources, NEW e \in Rulings, F!Rule(s, e[1], e[2])
  PROVE  SearchInv'
<1>1. PICK ws : ws = [w \in Requests |-> {i \in req[w].wanted : req[w].source # s}] OBVIOUS
<1>2. /\ ruled' = [ruled EXCEPT ![s][e[1]] = e[2]] /\ UNCHANGED <<index, cached, session>>
      /\ req' = [r \in Requests |->
           IF req[r].at = "idle" THEN req[r] ELSE
             [req[r] EXCEPT !.wanted = IF req[r].at = "done" THEN @ ELSE {i \in @ : req[r].source # s}]]
  BY DEF F!Rule, F!Still
<1>3. /\ \A w \in Requests : ws[w] \in SUBSET req[w].wanted
      /\ \A w \in Requests : req[w].at \notin {"idle", "done"} => req'[w] = [req[w] EXCEPT !.wanted = ws[w]]
      /\ req' = [w \in Requests |-> req'[w]]
  BY <1>1, <1>2
<1>4. ASSUME NEW w \in Requests, req[w].at \in {"idle", "done"} PROVE req'[w] = req[w]
  <2>1. CASE req[w].at = "idle" BY <1>2, <2>1
  <2>2. CASE req[w].at = "done"
    <3>1. req[w] \in SearchRecs BY <2>2, SearchIs
    <3>2. req'[w] = [req[w] EXCEPT !.wanted = req[w].wanted] BY <1>2, <2>2
    <3> QED BY <3>1, <3>2 DEF SearchRecs
  <2> QED BY <1>4, <2>1, <2>2
<1>5. e[1] \in F!Ruled /\ e[2] \in F!Words \cup {Nil} BY DEF F!Ruled, F!SearchAssumption
<1>6. ruled' \in [Sources -> [F!Ruled -> F!Words \cup {Nil}]]
  BY <1>2, <1>5 DEF SearchInv, SearchType
<1>7. ASSUME NEW w \in Requests, req[w].at \in Underway, NEW i \in ws[w], F!In(req[w].source, i)
      PROVE  F!In(req[w].source, i)'
  <2>1. req[w] \in SearchRecs BY <1>7, SearchIs DEF Underway
  <2>2. req'[w].source = req[w].source BY <1>3, <1>7, <2>1 DEF Underway, SearchRecs
  <2> QED BY <1>2, <1>7, <2>2 DEF F!In
<1>8. /\ KeptLists' /\ index' \in [Sources -> [Dirs -> (SUBSET FileNames) \cup {Nil}]]
      /\ \A k \in F!Keys : cached'[k] \in {cached[k], Nil}
  BY <1>2 DEF SearchInv, SearchType, KeptLists
<1> QED BY <1>2, <1>3, <1>4, <1>6, <1>7, <1>8, WantLess

LEMMA ExpireStep ==
  ASSUME SearchInv, NEW k \in F!Keys, F!Expire(k)
  PROVE  SearchInv'
<1>1. PICK ws : ws = [w \in Requests |-> IF req[w].at \in {"idle", "done"} THEN {} ELSE req[w].wanted] OBVIOUS
<1>2. cached' = [cached EXCEPT ![k] = Nil] /\ UNCHANGED <<index, session, ruled, req>> BY DEF F!Expire
<1>3. /\ index' \in [Sources -> [Dirs -> (SUBSET FileNames) \cup {Nil}]]
      /\ ruled' \in [Sources -> [F!Ruled -> F!Words \cup {Nil}]]
      /\ req' = [w \in Requests |-> req'[w]]
  BY <1>2 DEF SearchInv, SearchType
<1>4. KeptLists' /\ \A o \in F!Keys : cached'[o] \in {cached[o], Nil}
  BY <1>2 DEF SearchInv, SearchType, KeptLists
<1>5. ASSUME NEW w \in Requests, req[w].at \notin {"idle", "done"}
      PROVE  req'[w] = [req[w] EXCEPT !.wanted = ws[w]]
  <2>1. req[w] \in SearchRecs BY <1>5, SearchIs
  <2> QED BY <1>1, <1>2, <1>5, <2>1 DEF SearchRecs
<1>6. \A w \in Requests : req[w].at \in Underway => \A i \in ws[w] : F!In(req[w].source, i) => F!In(req[w].source, i)'
  BY <1>2 DEF F!In
<1>7. \A w \in Requests : ws[w] \in SUBSET req[w].wanted BY <1>1
<1> QED BY <1>2, <1>3, <1>4, <1>5, <1>6, <1>7, WantLess

LEMMA SearchStep ==
  ASSUME F!SearchAssumption, SearchInv, [F!Next]_F!vars
  PROVE  SearchInv'
<1>1. CASE UNCHANGED F!vars
  <2>1. UNCHANGED <<index, cached, session, ruled, req>> BY <1>1 DEF F!vars
  <2>2. SearchType' BY <2>1 DEF SearchInv, SearchType, KeptLists
  <2>3. ASSUME NEW w \in Requests PROVE Promise(w)'
    <3>1. req[w].at \in Underway /\ ~req[w].over => session'[req[w].session] = w
      BY <2>1, SearchIs DEF OwnSession, Underway
    <3>2. \A i \in req[w].wanted : ~F!Overlooked(req[w].source, i.dir) => ~F!Overlooked(req[w].source, i.dir)'
      BY <2>1 DEF F!Overlooked
    <3> QED BY <2>1, <3>1, <3>2, OtherKept
  <2> QED BY <2>2, <2>3 DEF SearchInv
<1>2. CASE F!Next
  BY <1>2, BeginStep, GetDirsStep, KeepStep, PassStep, AnswerStep, ReindexStep, RuleStep, ExpireStep DEF F!Next
<1> QED BY <1>1, <1>2

(* A search that was neither overtaken nor cut off at the limit has found all that     *)
(* matches and was in the index from its beginning to its end, that no list kept at its *)
(* beginning lacked, and that the rules permit, of which none lies below its scope if    *)
(* that is not the root: whatever scans, rules and other searches do between its steps   *)
(* (searchHandler, Search, getDirsInScope).  Only where sources lie in each other may it *)
(* go by the list of another source.                                                *)
THEOREM FoundIfThereAlways == ASSUME F!SearchAssumption PROVE LookupsSpec => []FoundIfThere
<1>1. LookupsInit => (part = "search" => SearchInv) BY SearchInit DEF LookupsInit
<1>2. (part = "search" => SearchInv) /\ [LookupsNext]_<<part, vars, searchVars>> => (part = "search" => SearchInv)'
  <2> SUFFICES ASSUME part = "search" => SearchInv, [LookupsNext]_<<part, vars, searchVars>>, part' = "search"
               PROVE  SearchInv'
    OBVIOUS
  <2>1. part = "search" /\ [F!Next]_F!vars BY DEF LookupsNext, searchVars, F!vars
  <2> QED BY <2>1, SearchStep
<1>3. (part = "search" => SearchInv) => FoundIfThere BY SearchFound DEF FoundIfThere
<1> QED BY <1>1, <1>2, <1>3, PTL DEF LookupsSpec
===============================================================================
